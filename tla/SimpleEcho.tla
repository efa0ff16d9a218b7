----------------------------- MODULE SimpleEcho ------------------------------
(* simple_echo_server.cpp: read, write what was read, read again. *)
EXTENDS EchoWorld

\* The accepted socket, or after an error one that is not open, gets a session,
\* which reads.
accept ==
    /\ program = "simple" /\ sock = "none"
    /\ sock' \in {"open", "closed"}
    /\ reading' = "wait"
    /\ UNCHANGED <<netVars, taken, echoed, got, writes, writing_, in_, out_, ringVars>>

\* async_read: the streambuf grows as needed.
read_some ==
    /\ program = "simple"
    /\ \E k \in 1 .. MaxBytes :
        /\ ReadBrings(k, MaxBytes)
        /\ in_' = in_ \o [i \in 1 .. k |-> taken + i]
    /\ UNCHANGED <<netVars, sock, echoed, writes, writing_, out_, ringVars>>

on_read ==
    /\ program = "simple" /\ reading = "done"
    /\ reading' = "none"
    /\ writes' = Append(writes, NewWrite(0, Len(in_)))
    /\ UNCHANGED <<netVars, sock, taken, echoed, got, writing_, in_, out_, ringVars>>

transmit ==
    /\ program = "simple"
    /\ Transmit(in_[Head(writes).next + 1])
    /\ UNCHANGED <<netVars, sock, taken, reading, got, writing_, in_, out_, ringVars>>

\* async_write consumes what it has written; on_write reads again.
on_write ==
    /\ program = "simple" /\ WriteDone
    /\ in_' = SubSeq(in_, Head(writes).to + 1, Len(in_))
    /\ writes' = Tail(writes)
    /\ reading' = "wait"
    /\ UNCHANGED <<netVars, sock, taken, echoed, got, writing_, out_, ringVars>>

\* on_read and on_write with an error: the session starts nothing more and goes.
on_error ==
    /\ program = "simple" /\ (ReadFails \/ WriteFails)
    /\ sock' = "closed" /\ reading' = "none" /\ writes' = << >>
    /\ UNCHANGED <<netVars, taken, echoed, got, writing_, in_, out_, ringVars>>

Handlers == read_some \/ on_read \/ transmit \/ on_write \/ on_error

Next == accept \/ Handlers

\* The io_service runs what is ready, TCP delivers.
Fairness == WF_vars(Handlers)
=============================================================================
