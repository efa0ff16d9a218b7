---------------------------- MODULE MCTsNetQueue ----------------------------
(* Small instances of TsNetQueue: one consumer, which is all the library   *)
(* has, and two producers, one more than it has.                           *)
EXTENDS TsNetQueue, TLC

(* Permuting the producers, or the values, changes no behaviour.  Used for *)
(* the run that checks invariants only.                                    *)
Symmetry == Permutations(Producers) \cup Permutations(Values)
=============================================================================
