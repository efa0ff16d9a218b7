---------------------------- MODULE MCConnection ----------------------------
(* Small instances of Connection.  The puzzle has numbers of two bytes and *)
(* digits of one bit; the two builds differ in a digit of its second       *)
(* constant, and the solution for Clock is not Clock itself.               *)
EXTENDS Connection, Puzzle

MCNumbers == Words(2, 1)
Solutions == [k \in Keys |-> [x \in MCNumbers |-> encrypt_handshake_data(2, 1, 13, 11 + k, x)]]
MCEncrypt(k, x) == Solutions[k][x]
=============================================================================
