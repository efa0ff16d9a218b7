----------------------------- MODULE NetServer -----------------------------
(***************************************************************************)
(* The server's registry of connections: ServerInterfaceClass of           *)
(* net_server.hpp with the overrides of custom_server.cpp.  The io thread  *)
(* accepts, reads, writes and closes; the main thread pops messages in     *)
(* update() and calls onMessage, which walks connectionsQueue_.  Nothing   *)
(* but the message queue is shared under a lock.                           *)
(*                                                                         *)
(* A connection object lives as long as a shared_ptr to it does: in        *)
(* connectionsQueue_, in an OwnedMessage, or in the variables of the       *)
(* handler that runs.  The handlers that asio keeps for it hold a raw      *)
(* `this`.  What the handshake and the messages contain is left to         *)
(* Connection.tla; each operation of the deque is one step here.           *)
(***************************************************************************)
EXTENDS Integers, Sequences, FiniteSets

CONSTANTS Conns,      \* connection objects; one is used again when it is gone
          nullptr,
          IdWidth,    \* bits of idCounter_
          MaxAccept,  \* bound: connections accepted
          MaxMsgs,    \* bound: messages waiting in inMsgQueue_
          MaxPending  \* bound: handlers posted for one connection

ASSUME ConnsAssumption == nullptr \notin Conns
ASSUME BoundAssumption == {IdWidth, MaxAccept, MaxMsgs, MaxPending} \subseteq Nat

VARIABLES connectionsQueue_,
          inMsgQueue_,   \* <<connection, id of the message>>
          idCounter_,    \* uninitialised at first
          id,            \* id_ of each connection
          sock,          \* its socket: none, open, closed
          reading,       \* it has an async_read outstanding
          pending,       \* how many posted handlers and async_writes it has
          pc,            \* the main thread: idle, ping, all, told
          client,        \* the connection whose message it handles
          idx,           \* where its loop over connectionsQueue_ is
          last,          \* and where the loop will end
          present,       \* the connections that were in the queue when the loop began
          told,          \* those the loop has sent to
          accepts        \* connections accepted so far

main == <<pc, client, idx, last, present, told>>
vars == <<connectionsQueue_, inMsgQueue_, idCounter_, id, sock, reading, pending, main,
          accepts>>

Ids == 0..(2^IdWidth - 1)
InQueue == {connectionsQueue_[i] : i \in DOMAIN connectionsQueue_} \ {nullptr}

(* Some shared_ptr holds c.                                                *)
Alive(c) == \/ c \in InQueue
            \/ \E i \in DOMAIN inMsgQueue_ : inMsgQueue_[i][1] = c
            \/ client = c

Init == /\ connectionsQueue_ = <<>>
        /\ inMsgQueue_ = <<>>
        /\ idCounter_ \in Ids
        /\ id = [c \in Conns |-> 0]
        /\ sock = [c \in Conns |-> "none"]
        /\ reading = [c \in Conns |-> FALSE]
        /\ pending = [c \in Conns |-> 0]
        /\ pc = "idle"
        /\ client = nullptr
        /\ idx = 1 /\ last = 0
        /\ present = {} /\ told = {}
        /\ accepts = 0

-----------------------------------------------------------------------------
(* The io thread.                                                          *)

(* Mutant of Accept: the counter is not advanced.                          *)
AcceptSameId(c) == /\ accepts < MaxAccept
                   /\ ~Alive(c) /\ ~reading[c] /\ pending[c] = 0
                   /\ accepts' = accepts + 1
                   /\ connectionsQueue_' = Append(connectionsQueue_, c)
                   /\ id' = [id EXCEPT ![c] = idCounter_]
                   /\ sock' = [sock EXCEPT ![c] = "open"]
                   /\ reading' = [reading EXCEPT ![c] = TRUE]
                   /\ pending' = [pending EXCEPT ![c] = 2]
                   /\ present' = present \ {c}
                   /\ UNCHANGED <<inMsgQueue_, idCounter_, pc, client, idx, last, told>>

(* The accept handler: a new object, onClientConnect posts ServerAccept,   *)
(* the object enters the queue, ConnectToClient numbers it, starts the     *)
(* write and the read of the handshake; then the accept is armed again.    *)
Accept(c) == /\ accepts < MaxAccept
             /\ ~Alive(c) /\ ~reading[c] /\ pending[c] = 0
             /\ accepts' = accepts + 1
             /\ connectionsQueue_' = Append(connectionsQueue_, c)
             /\ id' = [id EXCEPT ![c] = idCounter_]
             /\ idCounter_' = (idCounter_ + 1) % 2^IdWidth
             /\ sock' = [sock EXCEPT ![c] = "open"]
             /\ reading' = [reading EXCEPT ![c] = TRUE]
             /\ pending' = [pending EXCEPT ![c] = 2]
             /\ present' = present \ {c}
             /\ UNCHANGED <<inMsgQueue_, pc, client, idx, last, told>>

(* A message arrives: AddToIncomingMsgQueue queues it with a shared_ptr to *)
(* its connection.                                                         *)
Receive(c, m) == /\ Alive(c) /\ reading[c] /\ sock[c] = "open"
                 /\ Len(inMsgQueue_) < MaxMsgs
                 /\ inMsgQueue_' = Append(inMsgQueue_, <<c, m>>)
                 /\ UNCHANGED <<connectionsQueue_, idCounter_, id, sock, reading, pending,
                                main, accepts>>

(* A read fails: the peer went away, or the socket is closed already.      *)
ReadFails(c) == /\ Alive(c) /\ reading[c]
                /\ reading' = [reading EXCEPT ![c] = FALSE]
                /\ sock' = [sock EXCEPT ![c] = "closed"]
                /\ UNCHANGED <<connectionsQueue_, inMsgQueue_, idCounter_, id, pending, main,
                               accepts>>

(* A posted handler or a write is done, for good or with an error, which   *)
(* closes the socket while the read is still outstanding.                  *)
Complete(c) == /\ Alive(c) /\ pending[c] > 0
               /\ pending' = [pending EXCEPT ![c] = @ - 1]
               /\ sock' \in {sock, [sock EXCEPT ![c] = "closed"]}
               /\ UNCHANGED <<connectionsQueue_, inMsgQueue_, idCounter_, id, reading, main,
                              accepts>>

-----------------------------------------------------------------------------
(* The main thread.                                                        *)

Post(c) == /\ pending[c] < MaxPending
           /\ pending' = [pending EXCEPT ![c] = @ + 1]

(* update() pops a message and calls onMessage.                            *)
Update == /\ pc = "idle" /\ inMsgQueue_ # <<>>
          /\ client' = Head(inMsgQueue_)[1]
          /\ inMsgQueue_' = Tail(inMsgQueue_)
          /\ pc' = IF Head(inMsgQueue_)[2] = "ServerPing" THEN "ping" ELSE "all"
          /\ idx' = 1
          /\ last' = Len(connectionsQueue_)
          /\ present' = InQueue
          /\ told' = {}
          /\ UNCHANGED <<connectionsQueue_, idCounter_, id, sock, reading, pending, accepts>>

(* onMessage returns to update(), whose message goes out of scope.         *)
Return == /\ pc' = "idle" /\ client' = nullptr
          /\ idx' = 1 /\ last' = 0 /\ present' = {} /\ told' = {}

(* A ping is sent back, whatever the state of the socket.                  *)
Ping == /\ pc = "ping"
        /\ Post(client)
        /\ Return
        /\ UNCHANGED <<connectionsQueue_, inMsgQueue_, idCounter_, id, sock, reading,
                       accepts>>

(* Mutant of Visit: the connection to be ignored is dropped, as if it had  *)
(* failed.                                                                 *)
VisitDropsIgnored ==
    /\ pc = "all" /\ idx <= last
    /\ idx' = idx + 1
    /\ LET c == connectionsQueue_[idx] IN
       \/ /\ c # nullptr /\ sock[c] = "open" /\ c # client
          /\ Post(c)
          /\ told' = told \cup {c}
          /\ UNCHANGED connectionsQueue_
       \/ /\ c = nullptr \/ sock[c] # "open" \/ c = client
          /\ connectionsQueue_' = [connectionsQueue_ EXCEPT ![idx] = nullptr]
          /\ UNCHANGED <<pending, told>>
    /\ UNCHANGED <<inMsgQueue_, idCounter_, id, sock, reading, pc, client, last, present,
                   accepts>>

(* Mutant of Visit: a connection that is closed is erased at once, while   *)
(* the loop goes on.                                                       *)
VisitErases ==
    /\ pc = "all" /\ idx <= last
    /\ idx' = idx + 1
    /\ IF idx > Len(connectionsQueue_) THEN UNCHANGED <<pending, told, connectionsQueue_>>
       ELSE LET c == connectionsQueue_[idx] IN
            IF sock[c] = "open"
            THEN /\ pending' = IF c = client THEN pending ELSE [pending EXCEPT ![c] = @ + 1]
                 /\ told' = IF c = client THEN told ELSE told \cup {c}
                 /\ UNCHANGED connectionsQueue_
            ELSE /\ connectionsQueue_' = SelectSeq(connectionsQueue_, LAMBDA d : d # c)
                 /\ UNCHANGED <<pending, told>>
    /\ UNCHANGED <<inMsgQueue_, idCounter_, id, sock, reading, pc, client, last, present,
                   accepts>>

(* One turn of the loop of sendMessageToAllClients: send, skip the client  *)
(* that is to be ignored, or report and drop a connection that is closed.  *)
Visit == /\ pc = "all" /\ idx <= last
         /\ idx' = idx + 1
         /\ LET c == connectionsQueue_[idx] IN
            \/ /\ c # nullptr /\ sock[c] = "open" /\ c # client
               /\ Post(c)
               /\ told' = told \cup {c}
               /\ UNCHANGED connectionsQueue_
            \/ /\ c # nullptr /\ sock[c] = "open" /\ c = client
               /\ UNCHANGED <<pending, told, connectionsQueue_>>
            \/ /\ c = nullptr \/ sock[c] # "open"
               /\ connectionsQueue_' = [connectionsQueue_ EXCEPT ![idx] = nullptr]
               /\ UNCHANGED <<pending, told>>
         /\ UNCHANGED <<inMsgQueue_, idCounter_, id, sock, reading, pc, client, last, present,
                        accepts>>

(* The elements of a set of positions in increasing order.                 *)
Enumeration(S) == CHOOSE f \in [1..Cardinality(S) -> S] :
                     /\ \A m, n \in DOMAIN f : m < n => f[m] < f[n]
                     /\ \A i \in S : \E n \in DOMAIN f : f[n] = i

(* std::remove and erase: what is no null pointer stays, in its order.     *)
EraseNulls(q) == LET kept == Enumeration({i \in DOMAIN q : q[i] # nullptr})
                 IN  [n \in DOMAIN kept |-> q[kept[n]]]

(* Mutant of Erase: the null pointers are left in the deque.               *)
EraseNothing == /\ pc = "all" /\ idx > last
                /\ Return
                /\ UNCHANGED <<connectionsQueue_, inMsgQueue_, idCounter_, id, sock, reading,
                               pending, accepts>>

(* The end of the loop: what was dropped is erased from the deque.         *)
Erase == /\ pc = "all" /\ idx > last
         /\ connectionsQueue_' = EraseNulls(connectionsQueue_)
         /\ Return
         /\ UNCHANGED <<inMsgQueue_, idCounter_, id, sock, reading, pending, accepts>>

(* sendMessageToClient, which server logic may call for a connection it    *)
(* knows.  client_connection is reset before it is looked for, so that     *)
(* what is erased are the null pointers.                                   *)
SendMessageToClient(c) ==
    /\ pc = "idle" /\ c \in InQueue
    /\ IF sock[c] = "open"
       THEN Post(c) /\ UNCHANGED connectionsQueue_
       ELSE /\ connectionsQueue_' = EraseNulls(connectionsQueue_)
            /\ UNCHANGED pending
    /\ UNCHANGED <<inMsgQueue_, idCounter_, id, sock, reading, main, accepts>>

-----------------------------------------------------------------------------
Next == \/ \E c \in Conns : \/ Accept(c) \/ ReadFails(c) \/ Complete(c)
                            \/ SendMessageToClient(c)
                            \/ \E m \in {"ServerPing", "MessageAll"} : Receive(c, m)
        \/ Update \/ Ping \/ Visit \/ Erase

Spec == Init /\ [][Next]_vars

-----------------------------------------------------------------------------
TypeOK == /\ connectionsQueue_ \in Seq(Conns \cup {nullptr})
          /\ inMsgQueue_ \in Seq(Conns \X {"ServerPing", "MessageAll"})
          /\ idCounter_ \in Ids /\ id \in [Conns -> Ids]
          /\ sock \in [Conns -> {"none", "open", "closed"}]
          /\ reading \in [Conns -> BOOLEAN]
          /\ pending \in [Conns -> Nat]
          /\ pc \in {"idle", "ping", "all"}
          /\ client \in Conns \cup {nullptr}
          /\ idx \in Nat \ {0} /\ last \in Nat
          /\ present \in SUBSET Conns /\ told \in SUBSET Conns
          /\ accepts \in 0..MaxAccept

(* The registry holds each connection once, and null pointers only where   *)
(* the loop has already been: onClientDisconnect, which asks its argument  *)
(* for its id, is never given one.                                         *)
RegistryClean ==
    \A i \in DOMAIN connectionsQueue_ :
       /\ connectionsQueue_[i] = nullptr => pc = "all" /\ i < idx
       /\ \A j \in DOMAIN connectionsQueue_ :
             connectionsQueue_[i] = connectionsQueue_[j] /\ connectionsQueue_[i] # nullptr
                => i = j

(* An open connection is registered: whatever the io thread and the loop   *)
(* do meanwhile, only closed connections are dropped.                      *)
OpenIsRegistered == \A c \in Conns : sock[c] = "open" => c \in InQueue

(* When the loop of sendMessageToAllClients ends, every connection that    *)
(* was registered when it began has been sent the message or dropped,      *)
(* except the one to be ignored, which has not been sent it.               *)
EveryoneTold == pc = "all" /\ idx > last => /\ present \cap InQueue \subseteq told \cup {client}
                                            /\ client \notin told

(* Registered connections have different ids, until the counter has gone   *)
(* round once, and wherever it started.                                    *)
UniqueIds == accepts <= 2^IdWidth =>
                \A c, d \in InQueue : id[c] = id[d] => c = d

-----------------------------------------------------------------------------
(* What comments say, and the code does not do.                            *)

(* connection_net_interface.hpp 16-18: a connection hands out "a shared    *)
(* pointer of this class [...] instead of a raw pointer", so that what     *)
(* still runs for it keeps it alive.                                       *)
HandlersHaveConnection == \A c \in Conns : reading[c] \/ pending[c] > 0 => Alive(c)
=============================================================================
