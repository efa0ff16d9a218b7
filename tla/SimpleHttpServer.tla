-------------------------- MODULE SimpleHttpServer ---------------------------
(***************************************************************************)
(* simple_http_server.cpp: a thread for each connection, which reads a     *)
(* request, handles it and writes the response in a loop of blocking       *)
(* calls.  There is no timer.  ops[s] is the call the thread is in.        *)
(***************************************************************************)
EXTENDS HttpWorld

\* The acceptor's constructor throws if it cannot listen: main returns.
acceptor ==
    /\ server = "simple" /\ up /\ listening = "no"
    /\ \/ /\ listening' = "yes" /\ accepting' = TRUE
          /\ UNCHANGED <<up, ops, expires, response_, link>>
       \/ listening' = "failed" /\ Exit
    /\ UNCHANGED <<server, asked, wire, eof, got, buffer_>>

-----------------------------------------------------------------------------

\* The responses to a request: none for the GET of a file, whose response is made
\* and not sent.  server_error does not call prepare_payload: without a length its
\* end is the end of the connection.
handle_request(r) ==
    LET answer(code, last) == {[status |-> code, need_eof |-> last]} IN
    IF Refused(r) THEN answer("bad_request", ~r.keep_alive)
    ELSE CASE r.target = "missing"    -> answer("not_found", ~r.keep_alive)
           [] r.target = "unreadable" -> answer("server_error", TRUE)
           [] r.target = "file"       -> IF r.method = "head" THEN answer("ok", ~r.keep_alive)
                                         ELSE {}

\* close_ is noted and the write begins.
send_lambda(s, i, res) ==
    /\ response_' = [response_ EXCEPT ![s] = [to |-> i, status |-> res.status,
                                              need_eof |-> res.need_eof]]
    /\ Continue(s, "read", "write")

\* do_session, from a successful read to the next blocking call.
do_session_read(s) ==
    /\ "read" \in ops[s]
    /\ \E i \in DOMAIN asked[s] :
        /\ ReadGives(s, i)
        /\ \/ \E res \in handle_request(asked[s][i]) : send_lambda(s, i, res)
           \/ handle_request(asked[s][i]) = {} /\ UNCHANGED <<ops, response_>>
    /\ UNCHANGED <<server, up, listening, accepting, link, asked, eof, got, expires>>

\* do_session, end_of_stream: the loop ends, the socket is shut down.
do_session_end(s) ==
    /\ "read" \in ops[s] /\ EndOfStream(s)
    /\ Destroyed(s)
    /\ UNCHANGED <<server, up, listening, accepting, asked, wire, eof, got, buffer_>>

\* do_session, another read error: the empty request is handled like any other, so
\* that its method is answered as unknown.  What the parser refused stays in buffer_.
do_session_bad_read(s) ==
    /\ "read" \in ops[s] /\ (ParseFails(s) \/ ReadBreaks(s))
    /\ send_lambda(s, 0, [status |-> "bad_request", need_eof |-> FALSE])
    /\ UNCHANGED <<server, up, listening, accepting, netVars, expires, buffer_>>

\* The write ends: the loop ends with it after an error or if the response says
\* so, and goes on otherwise.  MaxAnswers bounds the answers to bytes that are no
\* request, which go on for ever.
MaxAnswers(s) == Quota[s] + 1

do_session_write(s) ==
    /\ "write" \in ops[s] /\ Len(got[s]) < MaxAnswers(s)
    /\ Arrives(s)
    /\ \/ response_[s].need_eof /\ Destroyed(s)
       \/ /\ ~response_[s].need_eof
          /\ response_' = [response_ EXCEPT ![s] = nullptr]
          /\ Continue(s, "write", "read")
          /\ UNCHANGED <<link, expires>>
    /\ UNCHANGED <<server, up, listening, accepting, asked, wire, eof, buffer_>>

do_session_write_error(s) ==
    /\ "write" \in ops[s] /\ link[s] = "broken"
    /\ Destroyed(s)
    /\ UNCHANGED <<server, up, listening, accepting, asked, wire, eof, got, buffer_>>

-----------------------------------------------------------------------------

\* main: accept, and a detached thread for the session; accept throws on failure.
main_accept(s) ==
    /\ server = "simple" /\ up /\ accepting /\ link[s] = "waiting"
    /\ \/ /\ link' = [link EXCEPT ![s] = "up"]
          /\ ops' = [ops EXCEPT ![s] = {"read"}]
          /\ UNCHANGED <<up, accepting, expires, response_>>
       \/ Exit
    /\ UNCHANGED <<server, listening, asked, wire, eof, got, buffer_>>

Session(s) == \/ do_session_read(s) \/ do_session_end(s) \/ do_session_bad_read(s)
              \/ do_session_write(s) \/ do_session_write_error(s)

Next == \/ acceptor
        \/ \E s \in Sessions : main_accept(s) \/ (server = "simple" /\ Session(s))
=============================================================================
