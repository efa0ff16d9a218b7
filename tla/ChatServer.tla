----------------------------- MODULE ChatServer ------------------------------
(***************************************************************************)
(* simple_tcp_chat_server.cpp: every message that the server reads from    *)
(* one client it posts to all of them; it also posts that somebody came or *)
(* went.                                                                   *)
(***************************************************************************)
EXTENDS LineWorld

-----------------------------------------------------------------------------
(* Session. *)

\* Mutant of post: starts a write for every message.
post_always(r, m) == async_write([r EXCEPT !.outgoing = Append(@, m), !.posted = Append(@, m)])

post(r, m) ==
    LET pushed == [r EXCEPT !.outgoing = Append(@, m), !.posted = Append(@, m)]
    IN  IF r.outgoing = << >> THEN async_write(pushed) ELSE pushed

start(r) == [r EXCEPT !.reading = "wait"]

-----------------------------------------------------------------------------
(* Server. *)

post_all(sessions, to, m) ==
    [s \in Sessions |-> IF s \in to THEN post(sessions[s], m) ELSE sessions[s]]

\* Mutant of on_error: does not ask whether the session was still a member.
on_error_again(s, sessions) ==
    /\ clients_' = clients_ \ {s}
    /\ ses' = post_all(sessions, clients_ \ {s}, Message("one_less", s, << >>))

\* The lambda given to start(), called by whichever of on_read and on_write fails; s
\* may have been erased already.
on_error(s, sessions) ==
    \/ /\ s \in clients_
       /\ clients_' = clients_ \ {s}
       /\ ses' = post_all(sessions, clients_ \ {s}, Message("one_less", s, << >>))
    \/ /\ s \notin clients_
       /\ ses' = sessions
       /\ UNCHANGED clients_

\* Greets the newcomer, tells the others, inserts and starts it, accepts again.
async_server_accept(s) ==
    /\ Accepted(s, "chat")
    /\ clients_' = clients_ \union {s}
    /\ \E state \in {"open", "closed"} :
        LET r == [NewSession EXCEPT !.sock = state, !.known = Cardinality(clients_) + 1]
        IN  ses' = [post_all(ses, clients_, Message("newcomer", s, << >>))
                    EXCEPT ![s] = start(post(r, Message("welcome", s, << >>)))]
    /\ UNCHANGED <<program, typed, up, net>>

-----------------------------------------------------------------------------
(* Handlers of a session. *)

\* Mutant of on_read: posts the first line of the streambuf and drops the rest.
on_read_one_line(s) ==
    /\ up /\ program = "chat" /\ ses[s].reading = "done"
    /\ LET text == SubSeq(ses[s].incoming, 1, LineEnd(s, ses[s].incoming)) IN
        ses' = [post_all(ses, clients_, Message("text", s, text))
                EXCEPT ![s].reading = "wait", ![s].incoming = << >>]
    /\ UNCHANGED <<program, typed, up, net, clients_>>

\* All that the streambuf holds is one message, to everybody.  The session need not be
\* a member any more: its write may have failed after the read was done.
on_read(s) ==
    /\ up /\ program = "chat" /\ ses[s].reading = "done"
    /\ ses' = [post_all(ses, clients_, Message("text", s, ses[s].incoming))
               EXCEPT ![s].reading = "wait", ![s].incoming = << >>]
    /\ UNCHANGED <<program, typed, up, net, clients_>>

\* Mutant of on_read_error: closes the socket and tells nobody.
on_read_error_silent(s) ==
    /\ program = "chat" /\ ReadFails(s)
    /\ ses' = [ses EXCEPT ![s].reading = "none", ![s].sock = "closed"]
    /\ UNCHANGED <<program, typed, up, net, clients_>>

on_read_error(s) ==
    /\ program = "chat" /\ ReadFails(s)
    /\ on_error(s, [ses EXCEPT ![s].reading = "none", ![s].sock = "closed"])
    /\ UNCHANGED <<program, typed, up, net>>

\* Mutant of on_write: the message is taken from the queue when the next is posted.
on_write_no_pop(s) ==
    /\ program = "chat" /\ WriteDone(s)
    /\ ses' = [ses EXCEPT ![s] = async_write([@ EXCEPT !.writes = Tail(@)])]
    /\ UNCHANGED <<program, typed, up, net, clients_>>

on_write(s) ==
    /\ program = "chat" /\ WriteDone(s)
    /\ LET popped == [ses[s] EXCEPT !.writes = Tail(@), !.outgoing = Tail(@)] IN
        ses' = [ses EXCEPT ![s] = IF popped.outgoing = << >> THEN popped ELSE async_write(popped)]
    /\ UNCHANGED <<program, typed, up, net, clients_>>

on_write_error(s) ==
    /\ program = "chat" /\ WriteFails(s)
    /\ on_error(s, [ses EXCEPT ![s].writes = Tail(@), ![s].sock = "closed"])
    /\ UNCHANGED <<program, typed, up, net>>

Handlers(s) == on_read(s) \/ on_read_error(s) \/ on_write(s) \/ on_write_error(s)

Next == \E s \in Sessions : async_server_accept(s) \/ Handlers(s)

-----------------------------------------------------------------------------

News(s, kind) == Cardinality({n \in DOMAIN ses[s].posted : ses[s].posted[n].kind = kind})

\* Whoever is connected is a member, and a member that counts the news knows how many
\* there are: whoever leaves is announced once, although a read and a write of his may
\* both fail.
MembersInformed ==
    /\ program = "chat" => {s \in Sessions : ses[s].sock = "open"} \subseteq clients_
    /\ \A s \in clients_ :
        ses[s].known + News(s, "newcomer") = Cardinality(clients_) + News(s, "one_less")

\* Of somebody who typed these lines, c is the byte after b.
Follows(lines, b, c) == \/ b.at # lines[b.line].len /\ c.line = b.line /\ c.at = b.at + 1
                        \/ b.at = lines[b.line].len /\ c.line = b.line + 1 /\ c.at = 1

\* Where session s was sent what who said.
Said(s, who) == {n \in DOMAIN ses[s].posted : /\ ses[s].posted[n].kind = "text"
                                               /\ ses[s].posted[n].who = who}

\* What a client types reaches the members whole: of the text of one speaker a member
\* misses nothing between the first and the last byte it is sent, however the bytes
\* were divided into reads.
TextWhole ==
    program = "chat" => \A s \in Sessions, who \in Sessions : \A n \in Said(s, who) :
        LET text == ses[s].posted[n].text IN
        /\ text # << >>
        /\ \A k \in 1 .. Len(text) - 1 : Follows(net[who].lines, text[k], text[k + 1])
        /\ \A m \in Said(s, who) :
              n < m /\ (\A j \in Said(s, who) : j <= n \/ m <= j)
                  => Follows(net[who].lines, text[Len(text)], ses[s].posted[m].text[1])
=============================================================================
