---------------------------- MODULE MCHeaderCache ----------------------------
(* Two blocks of each fork of the chain: without optional fields, with a   *)
(* base fee, with the three fields of Cancun, with ParentBeaconRoot, and   *)
(* with a field that came later.  Base fee and blob gas are zero there.    *)
EXTENDS HeaderCache

Opt(n) == [i \in ChainField |-> IF i > n THEN Nil ELSE IF i \in Numeric THEN 0 ELSE 1]

MCBlock == [req : {1, 2}, plain : {1}, opt : {Opt(n) : n \in {0, 1, 4, 5, 6}}]
=============================================================================
