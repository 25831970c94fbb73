---------------------------- MODULE MCBnbRelayer ----------------------------
(* Two stakes in one block or in two, after a first block that is not      *)
(* scanned; ranges of two blocks.                                          *)
EXTENDS BnbRelayer

CONSTANTS s1, s2

MCStake  == {s1, s2}
MCBodies == {{}, {s1}, {s2}, {s1, s2}}

MCBodiesLive == {{}, {s1, s2}}
=============================================================================
