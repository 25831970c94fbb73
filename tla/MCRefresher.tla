----------------------------- MODULE MCRefresher -----------------------------
(* Two accounts, the second unknown to blockscout; batches of two blocks.  *)
EXTENDS Refresher

CONSTANTS a, b

MCAddr == {a, b}
=============================================================================
