--------------------------- MODULE AsyncHttpServer ---------------------------
(***************************************************************************)
(* async_http_server.cpp: one Listener, one Session for each connection,   *)
(* handlers on the threads of a pool.  Every session has its strand, so    *)
(* that its handlers run one after the other.                              *)
(***************************************************************************)
EXTENDS HttpWorld

\* Listener: opens, configures and binds the acceptor, any of which may fail; run()
\* starts the accept in either case.
Listener ==
    /\ server = "async" /\ listening = "no"
    /\ listening' \in {"yes", "failed"}
    /\ accepting' = TRUE
    /\ UNCHANGED <<server, up, netVars, sessionVars>>

-----------------------------------------------------------------------------
(* Session. *)

\* The status of the response to a request, and whether it ends the connection.
handle_request(r) ==
    [status |-> IF Refused(r) THEN "bad_request"
                ELSE CASE r.target = "missing"    -> "not_found"
                       [] r.target = "unreadable" -> "server_error"
                       [] OTHER                   -> "ok",
     need_eof |-> ~r.keep_alive]

\* Mutant of do_read: the request is read with a buffer of its own each time.
do_read_fresh_buffer(s, done) ==
    /\ expires' = [expires EXCEPT ![s] = TRUE]
    /\ Continue(s, done, "read")
    /\ buffer_' = [buffer_ EXCEPT ![s] = << >>]

\* The timer is set again and the next request is read.
do_read(s, done) ==
    /\ expires' = [expires EXCEPT ![s] = TRUE]
    /\ Continue(s, done, "read")
    /\ UNCHANGED buffer_

\* Mutant of send_lambda: the next read does not wait for the end of the write.
send_lambda_and_read(s, i, res) ==
    /\ response_' = [response_ EXCEPT ![s] = [to |-> i, status |-> res.status,
                                              need_eof |-> res.need_eof]]
    /\ ops' = [ops EXCEPT ![s] = @ \cup {"write"}]
    /\ UNCHANGED expires

\* The message is kept in response_ while it is written.
send_lambda(s, i, res) ==
    /\ response_' = [response_ EXCEPT ![s] = [to |-> i, status |-> res.status,
                                              need_eof |-> res.need_eof]]
    /\ Continue(s, "read", "write")
    /\ UNCHANGED expires

\* shutdown_send; no operation is left, so that the session goes.
do_close(s) == Destroyed(s)

\* on_read without an error.
on_read(s) ==
    /\ "read" \in ops[s]
    /\ \E i \in DOMAIN asked[s] : /\ ReadGives(s, i)
                                  /\ send_lambda(s, i, handle_request(asked[s][i]))
    /\ UNCHANGED <<server, up, listening, accepting, link, asked, eof, got>>

\* on_read with end_of_stream or another error (fail only reports it).
on_read_error(s) ==
    /\ "read" \in ops[s]
    /\ EndOfStream(s) \/ ParseFails(s) \/ TimedOut(s) \/ ReadBreaks(s)
    /\ do_close(s)
    /\ UNCHANGED <<server, up, listening, accepting, asked, wire, eof, got, buffer_>>

\* Mutant of on_write: the session goes on after a response that ends it.
on_write_ignores_close(s) ==
    /\ "write" \in ops[s]
    /\ Arrives(s) /\ do_read(s, "write")
    /\ response_' = [response_ EXCEPT ![s] = nullptr]
    /\ UNCHANGED <<server, up, listening, accepting, asked, wire, eof, link>>

\* on_write without an error: close, or read the next request.
on_write(s) ==
    /\ "write" \in ops[s]
    /\ Arrives(s)
    /\ \/ response_[s].need_eof /\ do_close(s) /\ UNCHANGED buffer_
       \/ /\ ~response_[s].need_eof
          /\ response_' = [response_ EXCEPT ![s] = nullptr]
          /\ do_read(s, "write")
          /\ UNCHANGED link
    /\ UNCHANGED <<server, up, listening, accepting, asked, wire, eof>>

on_write_error(s) ==
    /\ "write" \in ops[s]
    /\ TimedOut(s) \/ link[s] = "broken"
    /\ Destroyed(s)
    /\ UNCHANGED <<server, up, listening, accepting, asked, wire, eof, got, buffer_>>

-----------------------------------------------------------------------------
(* Listener and main. *)

\* A session is made and reads; no further accept is started.
on_accept(s) ==
    /\ server = "async" /\ accepting /\ listening = "yes" /\ link[s] = "waiting"
    /\ link' = [link EXCEPT ![s] = "up"]
    /\ accepting' = FALSE
    /\ do_read(s, "read")
    /\ UNCHANGED <<server, up, listening, asked, wire, eof, got, response_>>

on_accept_error ==
    /\ server = "async" /\ accepting
    /\ accepting' = FALSE
    /\ UNCHANGED <<server, up, listening, netVars, sessionVars>>

\* run() returns when neither an accept nor a session is left.
main_returns ==
    /\ server = "async" /\ up /\ listening # "no" /\ ~accepting
    /\ \A s \in Sessions : ops[s] = {}
    /\ Exit
    /\ UNCHANGED <<server, listening, asked, wire, eof, got, buffer_>>

Handlers(s) == on_read(s) \/ on_read_error(s) \/ on_write(s) \/ on_write_error(s)

Next == \/ Listener \/ on_accept_error \/ main_returns
        \/ \E s \in Sessions : on_accept(s) \/ (server = "async" /\ Handlers(s))

\* The pool's threads run what is ready, and timers fire.
Fairness == \A s \in Sessions : WF_vars(server = "async" /\ Handlers(s))
=============================================================================
