------------------------------- MODULE MCLaunch -------------------------------
(* Launch for TLC: two clients, and a pool of a comment, a bad line, a proxy  *)
(* whose name carries a session and one whose name does not.                  *)
EXTENDS Launch

PoolLines == <<"comment", "bad", "rotating", "plain">>
=============================================================================
