--------------------------- MODULE TerminalServer ----------------------------
(***************************************************************************)
(* simple_terminal_server.cpp: a client types commands, the server looks   *)
(* them up in its dispatcher and answers.                                  *)
(***************************************************************************)
EXTENDS LineWorld

(* The commands that main attaches: attach takes the number of arguments from the *)
(* words of the pattern.  handler_uses: how many of them the handler looks at.    *)

dispatcher_  == [date |-> 0, pwd |-> 0, dir |-> 0, cd |-> 0, mul |-> 2]
handler_uses == [date |-> 0, pwd |-> 0, dir |-> 0, cd |-> 1, mul |-> 2]

-----------------------------------------------------------------------------
(* Session. *)

\* write(string): only pushes.
write_string(r, m) == [r EXCEPT !.outgoing = Append(@, m), !.posted = Append(@, m)]

\* start: the welcome is pushed and written; the first read is started.
start(s, r) == [async_write(write_string(r, Message("welcome", s, << >>))) EXCEPT !.reading = "wait"]

accept(s) ==
    /\ Accepted(s, "terminal")
    /\ \E state \in {"open", "closed"} :
        ses' = [ses EXCEPT ![s] = start(s, [NewSession EXCEPT !.sock = state])]
    /\ UNCHANGED <<program, typed, up, net, clients_>>

Answers == {"handled", "exception", "wrong_count", "not_found"}

\* What dispatch answers to a whole line.  A handler that looks at an argument that is
\* not there (std::vector::operator[] of an empty vector) may do anything.
response(line) ==
    IF line.name \notin DOMAIN dispatcher_             THEN {"not_found"}
    ELSE IF line.args # dispatcher_[line.name]         THEN {"wrong_count"}
    ELSE IF line.args < handler_uses[line.name]        THEN Answers \union {"crash"}
    ELSE {IF line.good THEN "handled" ELSE "exception"}

\* Mutant of dispatch: an answer that finds a write under way is dropped.
dispatch_when_idle(r, m) == IF r.outgoing = << >> THEN async_write(write_string(r, m)) ELSE r

\* dispatch: the answer is pushed, and written if it is alone in the queue.
dispatch(r, m) == LET pushed == write_string(r, m)
                  IN  IF Len(pushed.outgoing) = 1 THEN async_write(pushed) ELSE pushed

\* What is left of the streambuf: getline takes the n bytes of the line from it, and
\* consume(bytes_transferred) as many bytes of what was typed after it.
unread(bytes, n) == SubSeq(bytes, 2 * n + 1, Len(bytes))

\* on_read: an empty line gets no answer.  Of a line whose beginning was lost the rest
\* is a line of its own, whatever that may be: blank, a command, or a bare cd.
on_read(s) ==
    /\ up /\ program = "terminal" /\ ses[s].reading = "done"
    /\ LET bytes == ses[s].incoming
           n     == LineEnd(s, bytes)
           text  == SubSeq(bytes, 1, n)
           next  == [ses[s] EXCEPT !.incoming = unread(bytes, n), !.reading = "wait"]
           line  == net[s].lines[text[1].line]
       IN  \/ /\ n = 1 \/ n # line.len
              /\ up' = up /\ ses' = [ses EXCEPT ![s] = next]
           \/ /\ n # 1
              /\ \E answer \in IF n = line.len THEN response(line) ELSE Answers \union {"crash"} :
                    IF answer = "crash" THEN up' = FALSE /\ ses' = ses
                    ELSE up' = up /\ ses' = [ses EXCEPT ![s] = dispatch(next, Message(answer, s, text))]
    /\ UNCHANGED <<program, typed, net, clients_>>

on_read_error(s) ==
    /\ program = "terminal" /\ ReadFails(s)
    /\ ses' = [ses EXCEPT ![s].reading = "none", ![s].sock = "closed"]
    /\ UNCHANGED <<program, typed, up, net, clients_>>

on_write(s) ==
    /\ program = "terminal" /\ WriteDone(s)
    /\ LET popped == [ses[s] EXCEPT !.writes = Tail(@), !.outgoing = Tail(@)] IN
        ses' = [ses EXCEPT ![s] = IF popped.outgoing = << >> THEN popped ELSE async_write(popped)]
    /\ UNCHANGED <<program, typed, up, net, clients_>>

\* on_write with an error only says so; the message stays in the queue.
on_write_error(s) ==
    /\ program = "terminal" /\ WriteFails(s)
    /\ ses' = [ses EXCEPT ![s].writes = Tail(@)]
    /\ UNCHANGED <<program, typed, up, net, clients_>>

Handlers(s) == on_read(s) \/ on_read_error(s) \/ on_write(s) \/ on_write_error(s)

Next == \E s \in Sessions : accept(s) \/ Handlers(s)

-----------------------------------------------------------------------------

\* The n-th message to session s answers the whole of its c-th line.
AnswerTo(s, n, c) == ses[s].posted[n].text = LineBytes(c, net[s].lines[c].len)
Handled(s)        == net[s].wire = << >> /\ ses[s].incoming = << >>

\* A client that waits for the answer before it types the next line gets, after the
\* welcome, exactly one answer to every command, in order and to the whole of it,
\* although on_read consumes twice.  (Of a client that types ahead commands are lost or
\* cut.)
PatientAnswered ==
    \A s \in Sessions : program = "terminal" /\ net[s].patient =>
        LET commands == {c \in DOMAIN net[s].lines : net[s].lines[c].len > 1}
            answers  == 2 .. Len(ses[s].posted)
        IN  /\ \A n \in answers : \E c \in commands : AnswerTo(s, n, c)
            /\ \A n, m \in answers : \A c, d \in commands :
                  AnswerTo(s, n, c) /\ AnswerTo(s, m, d) /\ n < m => c < d
            /\ \A c \in commands : c < Len(net[s].lines) \/ (up /\ Handled(s))
                  => \E n \in answers : AnswerTo(s, n, c)
=============================================================================
