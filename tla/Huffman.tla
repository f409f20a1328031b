------------------------------- MODULE Huffman -------------------------------
(* samp-proto's encoded string (encoded.rs): the Huffman tree built from a    *)
(* table of character frequencies, and the text as a compressed bit count     *)
(* followed by the codes.  Characters are 1 .. Len(Frequency) (0 .. 255 in    *)
(* the code); a node is [weight, chars, code], `chars` the leaves under it    *)
(* and `code` the path from it to each.                                       *)
EXTENDS BitStream

CONSTANTS Frequency,     \* the character frequency table
          CountModulus   \* the bit count is a u16: 2^16 in the code

ASSUME HuffmanAssumption ==
  /\ Frequency \in Seq(Nat) /\ Len(Frequency) > 1
  /\ CountModulus \in 2 .. 65536

Chars == 1 .. Len(Frequency)

Leaf(c) == [weight |-> IF Frequency[c] = 0 THEN 1 ELSE Frequency[c],
            code   |-> [d \in {c} |-> <<>>]]

\* insert_sorted: before the first node that is not lighter
InsertSorted(list, node) ==
  LET lighter == Len(SelectSeq(list, LAMBDA n : n.weight < node.weight))
  IN  SubSeq(list, 1, lighter) \o <<node>> \o SubSeq(list, lighter + 1, Len(list))

Merged(left, right) ==
  [weight |-> left.weight + right.weight,
   code   |-> [c \in DOMAIN left.code \cup DOMAIN right.code |->
                 IF c \in DOMAIN left.code THEN <<FALSE>> \o left.code[c] ELSE <<TRUE>> \o right.code[c]]]

\* HuffmanTree::build: the two lightest become one, until one is left.
Codes ==
  LET leaves == Loop(LAMBDA list, c : InsertSorted(list, Leaf(c)), <<>>, Len(Frequency))
      tree   == Loop(LAMBDA list, i : InsertSorted(SubSeq(list, 3, Len(list)), Merged(list[1], list[2])),
                     leaves, Len(Frequency) - 1)
  IN  tree[1].code

TextBits(text) == Loop(LAMBDA bits, i : bits \o Codes[text[i]], <<>>, Len(text))

\* `bits.len() as u16`, then every bit whatever the count says
EncodeString(text) ==
  LET bits  == TextBits(text)
      count == Len(bits) % CountModulus
      head  == WriteCompressed(NewWriter, <<count % 256, count \div 256>>)
  IN  IntoBytes(Loop(LAMBDA w, i : WriteBit(w, bits[i]), head, Len(bits)))

\* decode_string: walk the tree over at most the counted bits; a character is
\* out when the path is its code, and kept while there is room for it.
DecodeString(data, maxLen) ==
  LET head == ReadCompressed(NewReader(data), 2)
      bits == Lesser(head.v[1] + 256 * head.v[2], BitsLeft(head.r))
      walk(acc, i) ==
        LET path == Append(acc.path, ReadBit([head.r EXCEPT !.pos = @ + i - 1]).v)
            out  == {c \in Chars : Codes[c] = path}
        IN  IF out = {} THEN [acc EXCEPT !.path = path]
            ELSE [path |-> <<>>,
                  text |-> IF Len(acc.text) < maxLen THEN acc.text \o <<CHOOSE c \in out : TRUE>>
                           ELSE acc.text]
  IN  IF head.ok THEN Loop(walk, [path |-> <<>>, text |-> <<>>], bits).text ELSE <<>>
==============================================================================
