------------------------------ MODULE LineWorld ------------------------------
(***************************************************************************)
(* The sessions of two servers of other_ressources/async_io_with_cpp that  *)
(* talk in lines, ChatServer and TerminalServer, with their clients, TCP   *)
(* and asio as the servers use them.                                       *)
(*                                                                         *)
(* A client types lines.  A line is a record; the byte at position k of    *)
(* its n-th line is [line |-> n, at |-> k], and the last one of a line is  *)
(* its newline.  Both servers run their io_service in one thread.          *)
(***************************************************************************)
EXTENDS Naturals, Sequences, SequencesExt, FiniteSets

CONSTANTS Inputs,     \* of each program: the lines a client may type, [name, args, good, len]
          Quota,      \* bound, of each program: how many clients connect
          MaxInputs   \* bound, of each program: how many lines they type, together

ASSUME LineAssumption ==
    \A p \in {"chat", "terminal"} :
        /\ Quota[p] \in Nat /\ MaxInputs[p] \in Nat
        /\ \A line \in Inputs[p] : line.len \in Nat \ {0}

VARIABLES
    program,    \* "chat" or "terminal"
    typed,      \* how many lines clients have typed
    up,         \* the process runs
    net,        \* per connection: link (not broken), eof (the client sends no more), lines
                \* (typed so far), wire (bytes not yet read), got (messages received),
                \* patient (never typed before the answer to the line before)
    ses,        \* per session: sock, incoming (the streambuf), reading (the async_read_until:
                \* "none", "wait" or "done"), outgoing (queue of messages), writes (async_writes
                \* under way, [msg, done]); history: posted (all messages put into the queue),
                \* known (members of the chat when it joined, itself included)
    clients_    \* members of the chat

vars == <<program, typed, up, net, ses, clients_>>

MaxSessions == IF Quota["chat"] > Quota["terminal"] THEN Quota["chat"] ELSE Quota["terminal"]
Sessions    == 1 .. MaxSessions

Message(kind, who, text) == [kind |-> kind, who |-> who, text |-> text]

Bytes == [line : Nat, at : Nat]
Kinds == {"welcome", "newcomer", "one_less", "text",
          "handled", "exception", "wrong_count", "not_found"}

Messages == [kind : Kinds, who : Sessions, text : Seq(Bytes)]

TypeOK ==
    /\ program \in {"chat", "terminal"} /\ typed \in Nat /\ up \in BOOLEAN
    /\ net \in [Sessions -> [link : BOOLEAN, eof : BOOLEAN, wire : Seq(Bytes),
                             lines : Seq([name : STRING, args : Nat, good : BOOLEAN, len : Nat]),
                             got : Seq(Messages), patient : BOOLEAN]]
    /\ ses \in [Sessions -> [sock : {"none", "open", "closed"}, incoming : Seq(Bytes),
                             reading : {"none", "wait", "done"}, outgoing : Seq(Messages),
                             writes : Seq([msg : Messages, done : BOOLEAN]),
                             posted : Seq(Messages), known : 0 .. MaxSessions]]
    /\ clients_ \subseteq Sessions

NewSession == [sock |-> "none", incoming |-> << >>, reading |-> "none", outgoing |-> << >>,
               writes |-> << >>, posted |-> << >>, known |-> 0]

Init ==
    /\ program \in {"chat", "terminal"} /\ typed = 0 /\ up = TRUE
    /\ net = [s \in Sessions |-> [link |-> TRUE, eof |-> FALSE, lines |-> << >>, wire |-> << >>,
                                  got |-> << >>, patient |-> TRUE]]
    /\ ses = [s \in Sessions |-> NewSession]
    /\ clients_ = {}

-----------------------------------------------------------------------------
(* Clients and network. *)

\* The client has what it was sent and the server waits for its next line.
Answered(s) == /\ net[s].wire = << >> /\ ses[s].incoming = << >> /\ ses[s].reading = "wait"
               /\ Len(net[s].got) = Len(ses[s].posted)

\* The bytes of the n-th line.
LineBytes(n, len) == [k \in 1 .. len |-> [line |-> n, at |-> k]]

Types(s) ==
    /\ ses[s].sock = "open" /\ net[s].link /\ ~net[s].eof /\ typed < MaxInputs[program]
    /\ typed' = typed + 1
    /\ \E line \in Inputs[program] :
        net' = [net EXCEPT ![s].lines = Append(@, line),
                           ![s].wire = @ \o LineBytes(Len(net[s].lines) + 1, line.len),
                           ![s].patient = @ /\ Answered(s)]
    /\ UNCHANGED <<program, up, ses, clients_>>

Leaves(s) == /\ ses[s].sock = "open" /\ net[s].link /\ ~net[s].eof
             /\ net' = [net EXCEPT ![s].eof = TRUE]
             /\ UNCHANGED <<program, typed, up, ses, clients_>>

Breaks(s) == /\ ses[s].sock = "open" /\ net[s].link
             /\ net' = [net EXCEPT ![s].link = FALSE]
             /\ UNCHANGED <<program, typed, up, ses, clients_>>

World == up /\ \E s \in Sessions : Types(s) \/ Leaves(s) \/ Breaks(s)

-----------------------------------------------------------------------------
(* asio. *)

Broken(s) == ses[s].sock = "closed" \/ ~net[s].link

IsNewline(s, b) == b.at = net[s].lines[b.line].len
HasLine(s, bytes) == \E k \in DOMAIN bytes : IsNewline(s, bytes[k])

\* Length of the first line, newline included: async_read_until's bytes_transferred.
LineEnd(s, bytes) ==
    CHOOSE k \in DOMAIN bytes : /\ IsNewline(s, bytes[k])
                                /\ \A j \in 1 .. k - 1 : ~IsNewline(s, bytes[j])

\* async_read_until asks the socket only if the streambuf has no newline yet; what it
\* gets may go on behind the newline.
ReadsUntil(s, n) ==
    /\ up /\ ses[s].reading = "wait"
    /\ IF HasLine(s, ses[s].incoming) THEN n = 0 ELSE n > 0 /\ ~Broken(s)
    /\ HasLine(s, ses[s].incoming \o SubSeq(net[s].wire, 1, n))
    /\ ses' = [ses EXCEPT ![s].reading = "done",
                          ![s].incoming = @ \o SubSeq(net[s].wire, 1, n)]
    /\ net' = [net EXCEPT ![s].wire = SubSeq(@, n + 1, Len(@))]
    /\ UNCHANGED <<program, typed, up, clients_>>

ReadFails(s) ==
    /\ up /\ ses[s].reading = "wait" /\ ~HasLine(s, ses[s].incoming)
    /\ Broken(s) \/ (net[s].eof /\ ~HasLine(s, ses[s].incoming \o net[s].wire))

\* An async_write refers to the message in front of the queue.
async_write(r) == [r EXCEPT !.writes = Append(@, [msg |-> Head(r.outgoing), done |-> FALSE])]

Transmits(s) ==
    /\ up /\ ses[s].writes # << >> /\ ~Head(ses[s].writes).done /\ ~Broken(s)
    /\ net' = [net EXCEPT ![s].got = Append(@, Head(ses[s].writes).msg)]
    /\ ses' = [ses EXCEPT ![s].writes = <<[Head(@) EXCEPT !.done = TRUE]>> \o Tail(@)]
    /\ UNCHANGED <<program, typed, up, clients_>>

WriteDone(s)  == up /\ ses[s].writes # << >> /\ Head(ses[s].writes).done
WriteFails(s) == up /\ ses[s].writes # << >> /\ ~Head(ses[s].writes).done /\ Broken(s)

Asio(s) == Transmits(s) \/ \E n \in 0 .. Len(net[s].wire) : ReadsUntil(s, n)

\* The next connection, with a socket that is not open when accepting failed.
Accepted(s, p) == /\ up /\ program = p /\ s <= Quota[p]
                  /\ \A t \in Sessions : (ses[t].sock = "none") <=> t >= s

-----------------------------------------------------------------------------
(* What both servers promise. *)

\* Until the connection breaks, one write is under way exactly while there is something
\* to send, and it sends what is in front of the queue: posting, which may happen in any
\* handler of any session, never starts a second one nor leaves a message without one.
WriteLoop ==
    \A s \in Sessions : ~Broken(s) =>
        /\ Len(ses[s].writes) <= 1
        /\ (ses[s].outgoing = << >>) = (ses[s].writes = << >>)
        /\ ses[s].writes # << >> => Head(ses[s].writes).msg = Head(ses[s].outgoing)

\* A client receives the messages posted to it, in their order, none twice.
DeliveredInOrder == \A s \in Sessions : IsPrefix(net[s].got, ses[s].posted)

\* A client that is gone is noticed: its socket is closed, and it is no member of the
\* chat any more.
LeaversRemoved ==
    \A s \in Sessions :
        (net[s].eof \/ Broken(s)) ~> ((ses[s].sock = "closed" /\ s \notin clients_) \/ ~up)
=============================================================================
