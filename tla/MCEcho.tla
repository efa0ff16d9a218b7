-------------------------------- MODULE MCEcho --------------------------------
(* The three echo servers, one of which is chosen at the start, with a client. *)
EXTENDS EchoWorld

Simple    == INSTANCE SimpleEcho
Decoupled == INSTANCE DecoupledEcho
Circular  == INSTANCE CircularEcho

RangesInArray == Circular!RangesInArray
NoOverlap     == Circular!NoOverlap

Next == World \/ Simple!Next \/ Decoupled!Next \/ Circular!Next

Spec == Init /\ [][Next]_vars /\ Simple!Fairness /\ Circular!Fairness
=============================================================================
