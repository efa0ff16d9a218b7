---------------------------- MODULE SslHttpServer ----------------------------
(***************************************************************************)
(* ssl_http_server.cpp: as async_http_server.cpp, with a TLS handshake     *)
(* before the first read, a TLS shutdown at the end, and a listener that   *)
(* goes on accepting.                                                      *)
(***************************************************************************)
EXTENDS HttpWorld

\* Listener: as in AsyncHttpServer; run() starts the accept even if it failed.
Listener ==
    /\ server = "ssl" /\ listening = "no"
    /\ listening' \in {"yes", "failed"}
    /\ accepting' = TRUE
    /\ UNCHANGED <<server, up, netVars, sessionVars>>

-----------------------------------------------------------------------------
(* Session. *)

\* A missing file is a server error; that a file cannot be opened for another
\* reason is not noticed, and the answer is an empty "ok".
handle_request(r) ==
    [status |-> IF Refused(r) THEN "bad_request"
                ELSE IF r.target = "missing" THEN "server_error" ELSE "ok",
     need_eof |-> ~r.keep_alive]

\* file_body asserts that its file is open: such a GET ends a build with assertions.
Asserts(r) == r.method = "get" /\ r.target = "unreadable"

\* Mutant of on_run: the handshake has no deadline.
on_run_no_deadline(s) ==
    /\ ops' = [ops EXCEPT ![s] = @ \cup {"handshake"}]
    /\ UNCHANGED expires

\* The handshake is started under a timer.
on_run(s) ==
    /\ expires' = [expires EXCEPT ![s] = TRUE]
    /\ ops' = [ops EXCEPT ![s] = @ \cup {"handshake"}]

do_read(s, done) ==
    /\ expires' = [expires EXCEPT ![s] = TRUE]
    /\ Continue(s, done, "read")
    /\ UNCHANGED buffer_

send_lambda(s, i, res) ==
    /\ response_' = [response_ EXCEPT ![s] = [to |-> i, status |-> res.status,
                                              need_eof |-> res.need_eof]]
    /\ Continue(s, "read", "write")
    /\ UNCHANGED expires

\* The TLS shutdown is started under a timer of its own.
do_close(s, done) ==
    /\ expires' = [expires EXCEPT ![s] = TRUE]
    /\ Continue(s, done, "shutdown")

on_handshake(s) ==
    /\ server = "ssl" /\ "handshake" \in ops[s] /\ link[s] = "tls"
    /\ link' = [link EXCEPT ![s] = "up"]
    /\ do_read(s, "handshake")
    /\ UNCHANGED <<server, up, listening, accepting, asked, wire, eof, got, response_>>

\* fail after a handshake, a read or a write: the session goes without a shutdown.
on_error(s) ==
    /\ \/ "handshake" \in ops[s] /\ (TimedOut(s) \/ link[s] = "broken")
       \/ "read" \in ops[s] /\ (ParseFails(s) \/ TimedOut(s) \/ ReadBreaks(s))
       \/ "write" \in ops[s] /\ (TimedOut(s) \/ link[s] = "broken")
    /\ Destroyed(s)
    /\ UNCHANGED <<server, up, listening, accepting, asked, wire, eof, got, buffer_>>

on_read(s) ==
    /\ "read" \in ops[s]
    /\ \E i \in DOMAIN asked[s] : /\ ReadGives(s, i)
                                  /\ send_lambda(s, i, handle_request(asked[s][i]))
    /\ UNCHANGED <<server, up, listening, accepting, link, asked, eof, got>>

on_read_aborts(s) ==
    /\ "read" \in ops[s]
    /\ \E i \in DOMAIN asked[s] : ReadGives(s, i) /\ Asserts(asked[s][i])
    /\ Exit
    /\ UNCHANGED <<server, listening, asked, eof, got>>

on_read_end_of_stream(s) ==
    /\ "read" \in ops[s] /\ EndOfStream(s)
    /\ do_close(s, "read")
    /\ UNCHANGED <<server, up, listening, accepting, netVars, buffer_, response_>>

\* The message stays in response_ on the way to do_close; it goes with the session.
on_write(s) ==
    /\ "write" \in ops[s]
    /\ Arrives(s)
    /\ \/ response_[s].need_eof /\ do_close(s, "write") /\ UNCHANGED <<buffer_, response_>>
       \/ /\ ~response_[s].need_eof
          /\ response_' = [response_ EXCEPT ![s] = nullptr]
          /\ do_read(s, "write")
    /\ UNCHANGED <<server, up, listening, accepting, link, asked, wire, eof>>

\* The shutdown waits for the client's part of it, or for the timer.
on_shutdown(s) ==
    /\ "shutdown" \in ops[s]
    /\ eof[s] \/ TimedOut(s) \/ link[s] = "broken"
    /\ Destroyed(s)
    /\ UNCHANGED <<server, up, listening, accepting, asked, wire, eof, got, buffer_>>

-----------------------------------------------------------------------------
(* Listener. *)

\* Mutant of on_accept: the next accept is not started.
on_accept_once(s) ==
    /\ server = "ssl" /\ up /\ accepting /\ listening = "yes" /\ link[s] = "waiting"
    /\ link' = [link EXCEPT ![s] = "tls"]
    /\ on_run(s)
    /\ accepting' = FALSE
    /\ UNCHANGED <<server, up, listening, asked, wire, eof, got, buffer_, response_>>

\* A session is made and the next accept is started.
on_accept(s) ==
    /\ server = "ssl" /\ up /\ accepting /\ listening = "yes" /\ link[s] = "waiting"
    /\ link' = [link EXCEPT ![s] = "tls"]
    /\ on_run(s)
    /\ UNCHANGED <<server, up, listening, accepting, asked, wire, eof, got, buffer_, response_>>

\* An accept fails and the next one is started: the client is gone.  (An accept that
\* fails for want of descriptors leaves the client waiting: nothing changes.)
on_accept_error(s) ==
    /\ server = "ssl" /\ up /\ accepting /\ link[s] = "waiting"
    /\ link' = [link EXCEPT ![s] = "broken"]
    /\ UNCHANGED <<server, up, listening, accepting, asked, wire, eof, got, sessionVars>>

Handlers(s) == \/ on_error(s) \/ on_read(s) \/ on_read_aborts(s)
               \/ on_read_end_of_stream(s) \/ on_write(s) \/ on_shutdown(s)

Next == \/ Listener
        \/ \E s \in Sessions : \/ on_accept(s) \/ on_accept_error(s)
                               \/ on_handshake(s) \/ (server = "ssl" /\ Handlers(s))

\* As in AsyncHttpServer; that a handshake succeeds is up to the client.
Fairness == \A s \in Sessions : /\ WF_vars(server = "ssl" /\ Handlers(s))
                                /\ WF_vars(on_accept(s))
=============================================================================
