------------------------------ MODULE EchoWorld ------------------------------
(***************************************************************************)
(* A client of the echo servers of other_ressources/async_io_with_cpp, TCP *)
(* and asio's composed operations as the servers use them.  The servers    *)
(* are SimpleEcho, DecoupledEcho and CircularEcho.  None of them starts a  *)
(* second accept, so that there is one session.                            *)
(*                                                                         *)
(* The client's bytes are the numbers 1, 2, 3, ...  An async_write refers  *)
(* to memory: a byte is looked up when it is transmitted, not when the     *)
(* write is started.                                                       *)
(***************************************************************************)
EXTENDS Naturals, Sequences

CONSTANTS Capacity,     \* of the session's buffer
          MaxBytes      \* bound: bytes that the client sends

ASSUME CapacityAssumption == Capacity \in Nat \ {0} /\ MaxBytes \in Nat

VARIABLES
    program,     \* "simple", "decoupled" or "circular"
    sock,        \* the session's socket: "none", "open" or "closed"
    link,        \* TRUE until the connection breaks
    sent,        \* bytes 1 .. sent were sent by the client,
    taken,       \* bytes 1 .. taken were taken from the socket by reads
    eof,         \* the client sends no more
    echoed,      \* what the client has received
    reading,     \* the async_read: "none", "wait", or "done" with its bytes in memory
    got,         \* how many bytes a read that is "done" brought
    writes,      \* outstanding async_writes [from, to, next]: bytes from .. next - 1
                 \* are transmitted, next .. to - 1 are not
    writing_,    \* the session's flag
    in_,         \* streambuf of the first two servers (content, bytes read included)
    out_,        \* outstreambuffer_ of the second
    buffer_,     \* array of the circular buffer
    head_, tail_,\* its indices
    room         \* where its outstanding read may put bytes: [from, to]

netVars  == <<program, link, sent, eof>>
ringVars == <<buffer_, head_, tail_, room>>
vars == <<netVars, sock, taken, echoed, reading, got, writes, writing_, in_, out_, ringVars>>

Bytes == 0 .. MaxBytes     \* 0: never written

TypeOK ==
    /\ program \in {"simple", "decoupled", "circular"}
    /\ sock \in {"none", "open", "closed"} /\ link \in BOOLEAN /\ eof \in BOOLEAN
    /\ sent \in Nat /\ taken \in Nat /\ got \in Nat /\ taken <= sent
    /\ echoed \in Seq(Bytes) /\ in_ \in Seq(Bytes) /\ out_ \in Seq(Bytes)
    /\ reading \in {"none", "wait", "done"}
    /\ writes \in Seq([from : Nat, to : Nat, next : Nat])
    /\ writing_ \in BOOLEAN
    /\ buffer_ \in [0 .. Capacity - 1 -> Bytes]
    /\ head_ \in Nat /\ tail_ \in head_ .. head_ + Capacity /\ room \in [from : Nat, to : Nat]

Init ==
    /\ program \in {"simple", "decoupled", "circular"}
    /\ sock = "none" /\ link = TRUE /\ sent = 0 /\ taken = 0 /\ eof = FALSE
    /\ echoed = << >> /\ reading = "none" /\ got = 0 /\ writes = << >>
    /\ writing_ = FALSE /\ in_ = << >> /\ out_ = << >>
    /\ buffer_ = [a \in 0 .. Capacity - 1 |-> 0]
    /\ head_ = 0 /\ tail_ = 0 /\ room = [from |-> 0, to |-> 0]

-----------------------------------------------------------------------------
(* The client and the network. *)

ClientSends == /\ sock = "open" /\ link /\ ~eof /\ sent < MaxBytes
               /\ sent' = sent + 1
               /\ UNCHANGED <<program, link, eof, sock, taken, echoed, reading, got, writes,
                              writing_, in_, out_, ringVars>>

ClientFinishes == /\ sock = "open" /\ ~eof
                  /\ eof' = TRUE
                  /\ UNCHANGED <<program, link, sent, sock, taken, echoed, reading, got, writes,
                                 writing_, in_, out_, ringVars>>

LinkBreaks == /\ sock = "open" /\ link
              /\ link' = FALSE
              /\ UNCHANGED <<program, sent, eof, sock, taken, echoed, reading, got, writes,
                             writing_, in_, out_, ringVars>>

World == ClientSends \/ ClientFinishes \/ LinkBreaks

-----------------------------------------------------------------------------
(* asio. *)

Broken == sock = "closed" \/ ~link

\* An async_read with transfer_at_least(1) that has room for n bytes is done when
\* it has brought k; with no room it is done at once.
ReadBrings(k, n) ==
    /\ reading = "wait" /\ ~Broken
    /\ k \in 0 .. n /\ taken + k <= sent
    /\ k = 0 => n = 0
    /\ reading' = "done" /\ got' = k /\ taken' = taken + k

ReadFails == reading = "wait" /\ (Broken \/ (eof /\ taken = sent))

\* One more byte of the first write goes out, as it now lies in memory.
Transmit(byte) ==
    /\ writes # << >> /\ ~Broken
    /\ LET w == Head(writes) IN
        /\ w.next < w.to
        /\ echoed' = Append(echoed, byte)
        /\ writes' = <<[w EXCEPT !.next = @ + 1]>> \o Tail(writes)

WriteDone  == writes # << >> /\ Head(writes).next = Head(writes).to
WriteFails == writes # << >> /\ Broken /\ Head(writes).next < Head(writes).to

NewWrite(from, to) == [from |-> from, to |-> to, next |-> from]

-----------------------------------------------------------------------------
(* What an echo server promises. *)

\* The echo is the client's bytes, each once and in order, although a write refers
\* to memory into which the next read already goes.  The decoupled server copies its
\* incoming buffer without consuming it: a write begins with byte 1 again.
EchoInOrder ==
    \A i \in DOMAIN echoed :
        \/ echoed[i] = i
        \/ program = "decoupled" /\ i > 1 /\ echoed[i] \in {1, echoed[i - 1] + 1}

\* on_read starts a write only if writing_ is false, on_write resets it: the two
\* never have two writes outstanding, whose bytes could mix.
OneWrite == Len(writes) <= 1 /\ (program # "simple" => writing_ = (writes # << >>))

\* The circular buffer was full when its read was started: "We consider an exceeded
\* buffer as a client request violation" (tcp_echo_server_efficient_data_read_write.cpp
\* 166), and the session is dropped with what it has not echoed.
Exceeded == program = "circular" /\ room.from = room.to

\* What the server has taken from the socket is echoed, unless the connection breaks or
\* the client ends it or sends more than the buffer holds: a byte that arrives during a
\* write is not forgotten, and nobody else is dropped.  on_write of the circular
\* server does start the next write, although the comment above it says that it does
\* not and that "we are not shure that all received data is written back" (200).
EverythingEchoed ==
    \A n \in 1 .. MaxBytes :
        (program # "decoupled" /\ taken >= n) ~> (Len(echoed) >= n \/ ~link \/ eof \/ Exceeded)
=============================================================================
