-------------------------------- MODULE MCHttp --------------------------------
(* The three HTTP servers, one of which is chosen at the start, with clients. *)
EXTENDS HttpWorld
CONSTANTS s1, s2

Async  == INSTANCE AsyncHttpServer
Ssl    == INSTANCE SslHttpServer
Simple == INSTANCE SimpleHttpServer

MCQuota == [s \in Sessions |-> IF s = s1 THEN 2 ELSE 0]

Get(t, k) == [method |-> "get", target |-> t, keep_alive |-> k]
MCRequests == {Get("file", TRUE), Get("missing", FALSE), Get("unreadable", TRUE),
               [method |-> "head", target |-> "file", keep_alive |-> TRUE], Malformed}

Next == World \/ Async!Next \/ Ssl!Next \/ Simple!Next

Spec == Init /\ [][Next]_vars /\ Async!Fairness /\ Ssl!Fairness
=============================================================================
