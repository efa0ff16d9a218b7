------------------------------ MODULE HttpWorld ------------------------------
(***************************************************************************)
(* What the three HTTP servers of other_ressources/boost_beast/src have in *)
(* common: clients, TCP, and the state of a session.  Each server is a     *)
(* module that extends this one (AsyncHttpServer, SslHttpServer,           *)
(* SimpleHttpServer); MCHttp runs them against the same clients.           *)
(*                                                                         *)
(* A Session object lives as long as one of its asynchronous operations    *)
(* holds the shared_ptr that was bound into the handler: it is alive while *)
(* ops[s] is not empty, and its socket is closed when ops[s] becomes empty.*)
(* In the synchronous server ops[s] is the blocking call the session's     *)
(* thread is in.                                                           *)
(***************************************************************************)
EXTENDS Naturals, Sequences, FiniteSets

CONSTANTS Sessions,     \* connections that clients may open
          Requests,     \* the requests clients send, a subset of Request
          Quota,        \* Quota[s]: how many requests are sent over s
          nullptr       \* response_ without a message

Request == [method : {"get", "head", "post"},
            target : {"file", "illegal", "missing", "unreadable"},
            keep_alive : BOOLEAN]

\* Bytes that are no HTTP request: the parser fails on them.
Malformed == [method |-> "malformed", target |-> "illegal", keep_alive |-> TRUE]

\* Of no known method, or with a path that is not allowed: the servers look for this
\* before anything else.
Refused(r) == r.method \notin {"get", "head"} \/ r.target = "illegal"

ASSUME RequestsAssumption == /\ Requests \subseteq (Request \cup {Malformed})
                             /\ Quota \in [Sessions -> Nat]

VARIABLES
    server,      \* the program that runs: "async", "ssl" or "simple"
    up,          \* its process runs
    listening,   \* "no", then "yes", or "failed" if the acceptor could not be set up
    accepting,   \* it waits for the next connection
    link,        \* link[s]: the connection as the client sees it ("tls": before the
                 \* handshake is done)
    asked,       \* asked[s]: the requests sent over s so far
    wire,        \* wire[s]: indices into asked[s] of requests not read yet
    eof,         \* eof[s]: the client will send no more
    got,         \* got[s]: the responses that reached the client
    ops,         \* ops[s]: outstanding operations of the session
    expires,     \* expires[s]: the stream's timer runs
    buffer_,     \* buffer_[s]: requests read from the socket, not parsed yet
    response_    \* response_[s]: the message being written

netVars     == <<link, asked, wire, eof, got>>
sessionVars == <<ops, expires, buffer_, response_>>
vars == <<server, up, listening, accepting, netVars, sessionVars>>

Operations == {"handshake", "read", "write", "shutdown"}
Statuses   == {"ok", "bad_request", "not_found", "server_error"}

\* A response to the request with index `to` (0: to no request).
Response == [to : Nat, status : Statuses, need_eof : BOOLEAN]

ASSUME NullAssumption == nullptr \notin Response

TypeOK ==
    /\ server \in {"async", "ssl", "simple"}
    /\ up \in BOOLEAN /\ accepting \in BOOLEAN
    /\ listening \in {"no", "yes", "failed"}
    /\ link \in [Sessions -> {"none", "waiting", "tls", "up", "broken", "closed"}]
    /\ \A s \in Sessions : asked[s] \in Seq(Requests) /\ Len(asked[s]) <= Quota[s]
    /\ \A s \in Sessions : wire[s] \in Seq(Nat) /\ buffer_[s] \in Seq(Nat)
    /\ eof \in [Sessions -> BOOLEAN] /\ expires \in [Sessions -> BOOLEAN]
    /\ \A s \in Sessions : got[s] \in Seq(Response)
    /\ ops \in [Sessions -> SUBSET Operations]
    /\ response_ \in [Sessions -> Response \cup {nullptr}]

Init ==
    /\ server \in {"async", "ssl", "simple"}
    /\ up = TRUE /\ listening = "no" /\ accepting = FALSE
    /\ link = [s \in Sessions |-> "none"]
    /\ asked = [s \in Sessions |-> << >>] /\ wire = [s \in Sessions |-> << >>]
    /\ eof = [s \in Sessions |-> FALSE] /\ got = [s \in Sessions |-> << >>]
    /\ ops = [s \in Sessions |-> {}]
    /\ expires = [s \in Sessions |-> FALSE]
    /\ buffer_ = [s \in Sessions |-> << >>]
    /\ response_ = [s \in Sessions |-> nullptr]

-----------------------------------------------------------------------------
(* Clients and TCP. *)

Open(s) ==       \* the connection waits in the listen queue
    /\ up /\ listening = "yes" /\ link[s] = "none"
    /\ link' = [link EXCEPT ![s] = "waiting"]
    /\ UNCHANGED <<server, up, listening, accepting, asked, wire, eof, got, sessionVars>>

\* A client may send the next request before the last one was answered.
Ask(s, r) ==
    /\ link[s] = "up" /\ ~eof[s] /\ Len(asked[s]) < Quota[s]
    /\ asked' = [asked EXCEPT ![s] = Append(@, r)]
    /\ wire' = [wire EXCEPT ![s] = Append(@, Len(asked[s]) + 1)]
    /\ UNCHANGED <<server, up, listening, accepting, link, eof, got, sessionVars>>

Finish(s) ==
    /\ link[s] = "up" /\ ~eof[s]
    /\ eof' = [eof EXCEPT ![s] = TRUE]
    /\ UNCHANGED <<server, up, listening, accepting, link, asked, wire, got, sessionVars>>

Break(s) ==      \* reset by the client or by the network
    /\ link[s] \in {"tls", "up"}
    /\ link' = [link EXCEPT ![s] = "broken"]
    /\ UNCHANGED <<server, up, listening, accepting, asked, wire, eof, got, sessionVars>>

World == \E s \in Sessions : \/ Open(s) \/ Finish(s) \/ Break(s)
                             \/ \E r \in Requests : Ask(s, r)

-----------------------------------------------------------------------------
(* Operations of beast streams, as the sessions use them. *)

\* What http::read finds when it has taken k more requests from the socket.
Received(s, k) == buffer_[s] \o SubSeq(wire[s], 1, k)

\* http::read delivers the request with index i and leaves the rest in buffer_.  It
\* asks the socket only for what is not there, so that a request in buffer_ is delivered
\* after a reset too.
ReadGives(s, i) ==
    \E k \in 0 .. Len(wire[s]) :
        /\ link[s] = "up" \/ (link[s] = "broken" /\ k = 0)
        /\ Received(s, k) # << >>
        /\ i = Head(Received(s, k)) /\ asked[s][i] # Malformed
        /\ buffer_' = [buffer_ EXCEPT ![s] = Tail(Received(s, k))]
        /\ wire' = [wire EXCEPT ![s] = SubSeq(@, k + 1, Len(@))]

EndOfStream(s) == link[s] = "up" /\ eof[s] /\ wire[s] = << >> /\ buffer_[s] = << >>

\* The socket is asked and gives an error.
ReadBreaks(s) == link[s] = "broken" /\ buffer_[s] = << >>

\* The bytes at the front of the stream are no request.
ParseFails(s) == /\ link[s] \in {"up", "broken"}
                 /\ LET all == Received(s, IF link[s] = "up" THEN Len(wire[s]) ELSE 0)
                    IN  all # << >> /\ asked[s][Head(all)] = Malformed

\* The timer fires: it cancels what is outstanding and closes the socket.
TimedOut(s) == expires[s]

\* The last shared_ptr to the session goes: its socket is closed.
Destroyed(s) ==
    /\ ops' = [ops EXCEPT ![s] = {}]
    /\ expires' = [expires EXCEPT ![s] = FALSE]
    /\ link' = [link EXCEPT ![s] = "closed"]
    /\ response_' = [response_ EXCEPT ![s] = nullptr]

\* The process ends, and all its sockets are closed.
Exit == /\ up' = FALSE /\ accepting' = FALSE
        /\ ops' = [s \in Sessions |-> {}]
        /\ expires' = [s \in Sessions |-> FALSE]
        /\ response_' = [s \in Sessions |-> nullptr]
        /\ link' = [s \in Sessions |-> IF link[s] = "none" THEN "none" ELSE "closed"]

\* A response arrives, unless the connection is gone without the server knowing.
Arrives(s) == got' = IF link[s] = "up" THEN [got EXCEPT ![s] = Append(@, response_[s])]
                     ELSE got

\* The operation `done` ends, its handler starts the operation `next`.
Continue(s, done, next) == ops' = [ops EXCEPT ![s] = (@ \ {done}) \cup {next}]

-----------------------------------------------------------------------------
(* What a session owes its client. *)

Over(s) == ops[s] = {} /\ link[s] \in {"broken", "closed"}

\* No request got lost: each one is on its way, in buffer_, or answered.
AllAccounted(s) ==
    \A i \in DOMAIN asked[s] : \/ \E n \in DOMAIN wire[s] : wire[s][n] = i
                               \/ \E n \in DOMAIN buffer_[s] : buffer_[s][n] = i
                               \/ \E n \in DOMAIN got[s] : got[s][n].to = i

\* Requests that are sent ahead (on_read parses one, the rest waits in buffer_)
\* are answered one by one: the i-th response a client gets answers its i-th
\* request, and a session that waits for a request has lost none, with reads,
\* writes, timeouts and resets in any order.  The synchronous server makes
\* the response to a GET and does not send it (simple_http_server.cpp:194).
AnswersInOrder ==
    server # "simple" => \A s \in Sessions :
        /\ \A i \in DOMAIN got[s] : got[s][i].to = i
        /\ ops[s] = {"read"} /\ link[s] = "up" => AllAccounted(s)

\* Nothing is answered after a response that ends the connection
\* ("Connection: close"), although more requests may be in buffer_ already.
CloseIsLast ==
    \A s \in Sessions : \A i \in DOMAIN got[s] : got[s][i].need_eof => i = Len(got[s])

\* A beast stream allows one operation of a kind at a time and the session has one
\* buffer and one message: on_read, on_write and the handlers around them never
\* leave two operations outstanding, and the message stays in response_ as long as
\* it is written.
OneOperation ==
    \A s \in Sessions : /\ Cardinality(ops[s]) <= 1
                        /\ "write" \in ops[s] => response_[s] # nullptr

\* A session of an asynchronous server ends, whatever its client omits: each
\* operation it waits for is under a timer, and each handler that starts no
\* further operation lets go of the session.  (A client that goes on asking keeps its
\* session; here Quota ends its requests.)
SessionsEnd ==
    \A s \in Sessions : (server # "simple" /\ ops[s] # {}) ~> Over(s)

\* The TLS server goes on accepting: on_accept starts the next accept on both of
\* its paths, so that no client waits for ever while the process runs and accepts do
\* not fail for ever.
NobodyWaits ==
    \A s \in Sessions : (server = "ssl" /\ link[s] = "waiting") ~> (link[s] # "waiting" \/ ~up)
=============================================================================
