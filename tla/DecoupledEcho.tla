---------------------------- MODULE DecoupledEcho ----------------------------
(***************************************************************************)
(* tcp_echo_server_read_write_decoupled.cpp: reads go on during a write;   *)
(* a write takes a copy of the incoming buffer.                            *)
(***************************************************************************)
EXTENDS EchoWorld

accept ==
    /\ program = "decoupled" /\ sock = "none"
    /\ sock' \in {"open", "closed"}
    /\ reading' = "wait"
    /\ UNCHANGED <<netVars, taken, echoed, got, writes, writing_, in_, out_, ringVars>>

\* async_read into instreambuffer_, whose size is limited.
read_some ==
    /\ program = "decoupled"
    /\ \E k \in 0 .. MaxBytes :
        /\ ReadBrings(k, Capacity - Len(in_))
        /\ in_' = in_ \o [i \in 1 .. k |-> taken + i]
    /\ UNCHANGED <<netVars, sock, echoed, writes, writing_, out_, ringVars>>

\* instreambuffer_ is copied behind what outstreambuffer_ holds; it keeps its bytes.
write ==
    /\ writing_' = TRUE
    /\ out_' = out_ \o in_
    /\ writes' = Append(writes, NewWrite(0, Len(out_) + Len(in_)))

\* Mutant of on_read: a write is started whether one is outstanding or not.
on_read_always_writes ==
    /\ program = "decoupled" /\ reading = "done" /\ got > 0
    /\ write
    /\ reading' = "wait"
    /\ UNCHANGED <<netVars, sock, taken, echoed, got, in_, ringVars>>

on_read ==
    /\ program = "decoupled" /\ reading = "done" /\ got > 0
    /\ \/ ~writing_ /\ write
       \/ writing_ /\ UNCHANGED <<writing_, out_, writes>>
    /\ reading' = "wait"
    /\ UNCHANGED <<netVars, sock, taken, echoed, got, in_, ringVars>>

\* An error, or no room: the socket is closed.
on_read_close ==
    /\ program = "decoupled"
    /\ ReadFails \/ (reading = "done" /\ got = 0)
    /\ sock' = "closed" /\ reading' = "none"
    /\ UNCHANGED <<netVars, taken, echoed, got, writes, writing_, in_, out_, ringVars>>

transmit ==
    /\ program = "decoupled"
    /\ Transmit(out_[Head(writes).next + 1])
    /\ UNCHANGED <<netVars, sock, taken, reading, got, writing_, in_, out_, ringVars>>

\* on_write: no further write is started; an error closes the socket.
on_write ==
    /\ program = "decoupled" /\ (WriteDone \/ WriteFails)
    /\ writing_' = FALSE
    /\ out_' = SubSeq(out_, Head(writes).next + 1, Len(out_))
    /\ writes' = Tail(writes)
    /\ sock' = IF WriteDone THEN sock ELSE "closed"
    /\ UNCHANGED <<netVars, taken, echoed, reading, got, in_, ringVars>>

Next == accept \/ read_some \/ on_read \/ on_read_close \/ transmit \/ on_write
=============================================================================
