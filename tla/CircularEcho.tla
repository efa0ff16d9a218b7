---------------------------- MODULE CircularEcho -----------------------------
(***************************************************************************)
(* tcp_echo_server_efficient_data_read_write.cpp and the same session in   *)
(* tcp_echo_server_circularbuffer_multithreaded.cpp: reads put bytes       *)
(* behind tail_ of one circular buffer while a write sends those between   *)
(* head_ and tail_.  In the second program the session belongs to one      *)
(* io_context, which one thread runs.                                      *)
(***************************************************************************)
EXTENDS EchoWorld

(* CircularBuffer.  Indices only grow; a byte with index j is byte j + 1. *)

\* make_sequence: where the byte with index j of the range begin .. end - 1 lies,
\* in the one piece or the two pieces of the array that are returned.
make_sequence(begin, end, j) ==
    LET b == begin % Capacity
        e == end % Capacity
        ending == Capacity - b
    IN  IF b <= e \/ j - begin < ending THEN b + (j - begin)
        ELSE (j - begin) - ending

\* Mutant of consume: everything up to tail_ is taken for written.
consume_all(n) == head_' = tail_

consume(n) == head_' = head_ + n

\* Mutant of prepare: as much as an empty buffer has room for.
prepare_ignores_size(head, tail) == room' = [from |-> tail, to |-> tail + Capacity - 1]

\* prepare: async_read asks for all the room there is behind tail.
prepare(head, tail) == room' = [from |-> tail, to |-> head + Capacity]

-----------------------------------------------------------------------------
(* Session and server. *)

accept ==
    /\ program = "circular" /\ sock = "none"
    /\ sock' \in {"open", "closed"}
    /\ reading' = "wait" /\ prepare(head_, tail_)
    /\ UNCHANGED <<netVars, taken, echoed, got, writes, writing_, in_, out_, buffer_, head_, tail_>>

\* async_read puts k bytes into the room it was given.
read_some ==
    /\ program = "circular"
    /\ \E k \in 0 .. MaxBytes :
        /\ ReadBrings(k, room.to - room.from)
        /\ buffer_' = [a \in DOMAIN buffer_ |->
             IF \E i \in 1 .. k : a = make_sequence(room.from, room.to, room.from + i - 1)
             THEN taken + CHOOSE i \in 1 .. k :
                            a = make_sequence(room.from, room.to, room.from + i - 1)
             ELSE buffer_[a]]
    /\ UNCHANGED <<netVars, sock, echoed, writes, writing_, in_, out_, head_, tail_, room>>

\* async_write of data(), the bytes between head and tail.
write(head, tail) == /\ writing_' = TRUE
                     /\ writes' = Append(writes, NewWrite(head, tail))

\* on_read: the bytes are committed; a write is started unless there is one; then
\* the next read is.
on_read ==
    /\ program = "circular" /\ reading = "done" /\ got > 0
    /\ tail_' = tail_ + got
    /\ \/ ~writing_ /\ write(head_, tail_ + got)
       \/ writing_ /\ UNCHANGED <<writing_, writes>>
    /\ reading' = "wait" /\ prepare(head_, tail_ + got)
    /\ UNCHANGED <<netVars, sock, taken, echoed, got, in_, out_, buffer_, head_>>

\* An error, or a full buffer: the socket is closed.
on_read_close ==
    /\ program = "circular"
    /\ ReadFails \/ (reading = "done" /\ got = 0)
    /\ sock' = "closed" /\ reading' = "none"
    /\ UNCHANGED <<netVars, taken, echoed, got, writes, writing_, in_, out_, ringVars>>

transmit ==
    /\ program = "circular"
    /\ LET w == Head(writes)
           a == make_sequence(w.from, w.to, w.next)
       IN  Transmit(IF a \in DOMAIN buffer_ THEN buffer_[a] ELSE 0)
    /\ UNCHANGED <<netVars, sock, taken, reading, got, writing_, in_, out_, ringVars>>

\* Mutant of on_write: what has arrived during the write is left to the next read.
on_write_once ==
    /\ program = "circular" /\ WriteDone
    /\ consume(Head(writes).to - Head(writes).from)
    /\ writing_' = FALSE /\ writes' = Tail(writes)
    /\ UNCHANGED <<netVars, sock, taken, echoed, reading, got, in_, out_, buffer_, tail_, room>>

\* Mutant of on_write: the outstanding read is started again with all the room that
\* is free now.
on_write_reads ==
    /\ program = "circular" /\ WriteDone
    /\ consume(Head(writes).to - Head(writes).from)
    /\ writing_' = FALSE /\ writes' = Tail(writes)
    /\ reading = "wait" /\ prepare(Head(writes).to, tail_)
    /\ UNCHANGED <<netVars, sock, taken, echoed, reading, got, in_, out_, buffer_, tail_>>

\* on_write: what was written is consumed; if more has arrived, it is written.
on_write ==
    /\ program = "circular" /\ WriteDone
    /\ consume(Head(writes).to - Head(writes).from)
    /\ \/ tail_ > head_' /\ writing_' = TRUE
          /\ writes' = Append(Tail(writes), NewWrite(head_', tail_))
       \/ tail_ <= head_' /\ writing_' = FALSE /\ writes' = Tail(writes)
    /\ UNCHANGED <<netVars, sock, taken, echoed, reading, got, in_, out_, buffer_, tail_, room>>

on_write_close ==
    /\ program = "circular" /\ WriteFails
    /\ consume(Head(writes).next - Head(writes).from)
    /\ writing_' = FALSE /\ writes' = Tail(writes) /\ sock' = "closed"
    /\ UNCHANGED <<netVars, taken, echoed, reading, got, in_, out_, buffer_, tail_, room>>

Handlers == read_some \/ on_read \/ on_read_close \/ transmit \/ on_write \/ on_write_close

Next == accept \/ Handlers

\* The io_service runs what is ready, TCP delivers.
Fairness == WF_vars(Handlers)

-----------------------------------------------------------------------------

InArray(begin, end) == \A j \in begin .. end - 1 : make_sequence(begin, end, j) < Capacity

\* make_sequence takes a range of the whole capacity for a flat one wherever it
\* begins, and would then reach behind the array ("between the front of the
\* underlying physical memory and its end").  The session never asks for such a
\* range while the socket is open: it reads again before it consumes, so that a read
\* never sees an empty buffer that does not begin at 0, and a write never a full one.
\* (After a failed write a read that was done starts one; nothing is sent by it.)
RangesInArray ==
    program = "circular" /\ sock = "open" =>
        /\ reading # "none" => InArray(room.from, room.to)
        /\ \A n \in DOMAIN writes : InArray(writes[n].from, writes[n].to)

\* Reads go on while a write is outstanding: the room of the read and the bytes that
\* are still to be transmitted never share a place in the array.
NoOverlap ==
    program = "circular" /\ sock = "open" /\ reading = "wait" => \A n \in DOMAIN writes :
        \A i \in room.from .. room.to - 1, j \in writes[n].next .. writes[n].to - 1 :
            make_sequence(room.from, room.to, i) # make_sequence(writes[n].from, writes[n].to, j)
=============================================================================
