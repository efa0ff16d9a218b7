----------------------------- MODULE Connection -----------------------------
(***************************************************************************)
(* One TCP connection of custom_net_lib with a ConnectionInterface at each *)
(* end: connection_net_interface.hpp, the ClientBaseInterface that owns    *)
(* the client's end (net_client.hpp), and what the server does for one     *)
(* client (the accept handler of net_server.hpp, onClientConnect and       *)
(* onMessage of custom_server.cpp).                                        *)
(*                                                                         *)
(* Each end runs its asio handlers one at a time on the thread of its      *)
(* io_context, concurrently with the other end and with its own main       *)
(* thread, which reaches it only through post().  A step is one handler,   *)
(* one call of the main thread, or one thing the network does.             *)
(*                                                                         *)
(* Everything on the wire comes in units of eight bytes: a handshake       *)
(* number, a header, a ping's payload.  async_read completes when one unit *)
(* is there; async_writes that are outstanding together complete in the    *)
(* order they were started.                                                *)
(***************************************************************************)
EXTENDS Integers, Sequences

CONSTANTS Keys,          \* builds: the constants in encrypt_handshake_data
          ServerKey,     \* the server's build
          Numbers,       \* the numbers of the handshake
          Encrypt(_, _), \* encrypt_handshake_data(x) in build k
          Clock,         \* the number the server picks for the handshake
          Payloads,      \* contents of a payload
          NoPayload,     \* an empty payload vector
          Zero,          \* a client's handshake_out_ before the handshake
          MaxSend,       \* bound: messages the client sends
          MaxAnnounce    \* bound: messages other clients cause the server to send

ASSUME BuildAssumption == /\ ServerKey \in Keys
                          /\ {Clock, Zero} \subseteq Numbers
                          /\ \A k \in Keys, x \in Numbers : Encrypt(k, x) \in Numbers
ASSUME PayloadAssumption == NoPayload \notin Payloads
ASSUME BoundAssumption == MaxSend \in Nat /\ MaxAnnounce \in Nat

Ends == {"client", "server"}
Peer(e) == IF e = "client" THEN "server" ELSE "client"

(* A message<T>.  The sender's operator<< keeps size at the length of the  *)
(* payload; 0 and 1 stand for an empty and a non-empty one.                *)
Ids == {"ServerAccept", "ServerPing", "MessageAll"}
Messages == [id : Ids, size : {0, 1}, payload : Payloads \cup {NoPayload}]
Message(id, p) == [id |-> id, size |-> IF p = NoPayload THEN 0 ELSE 1, payload |-> p]

(* What is posted to an io_context: SendData's handler, or a close.        *)
Posts == ({"send"} \X Messages) \cup {<<"close">>}

(* What an operation on the socket reads or writes: a number of the        *)
(* handshake, a header, a payload.                                         *)
Kinds == {"hs", "hdr", "pl"}

VARIABLES
  link,            \* the TCP connection: none, syn, up, refused, lost
  sock,            \* socket_connection_ of each end: none, open, closed
  connecting,      \* the client's async_connect is outstanding
  running,         \* the io_context of each end is in run()
  phase,           \* the client's main thread: new, connected, disconnecting, stopped
  posted,          \* handlers posted to each io_context
  reading,         \* the outstanding async_read: none, hs, hdr, pl
  writing,         \* the outstanding async_writes, oldest first: hs, hdr, pl
  flushed,         \* how many of them are on the wire, their handlers still to run
  wire,            \* wire[e]: units on their way to e
  out_msg_queue_,
  tmp_input_msg_,
  handshake_out_,
  key,             \* the client's build
  validated,       \* onClientValidated was called
  rejected,        \* the server closed because the puzzle's solution was wrong
  sent,            \* sent[e]: every message given to SendData at e
  received,        \* received[e]: every message pushed to e's in_msg_queue_
  handled,         \* how many of them the server has popped
  announced,       \* how many announcements the server has made
  solved,          \* the client has solved the puzzle
  early            \* the client sent before that

net   == <<link, wire>>
sides == <<sock, connecting, running, phase>>
io    == <<posted, reading, writing, flushed, out_msg_queue_, tmp_input_msg_>>
hs    == <<handshake_out_, key, validated, rejected>>
hist  == <<sent, received, handled, announced, solved, early>>
vars  == <<net, sides, io, hs, hist>>

handshake_check_ == Encrypt(ServerKey, Clock)

Init == /\ link = "none"
        /\ wire = [e \in Ends |-> <<>>]
        /\ sock = [e \in Ends |-> "none"]
        /\ connecting = FALSE
        /\ running = [e \in Ends |-> e = "server"]
        /\ phase = "new"
        /\ posted = [e \in Ends |-> <<>>]
        /\ reading = [e \in Ends |-> "none"]
        /\ writing = [e \in Ends |-> <<>>]
        /\ flushed = [e \in Ends |-> 0]
        /\ out_msg_queue_ = [e \in Ends |-> <<>>]
        /\ tmp_input_msg_ = [e \in Ends |-> Message("ServerAccept", NoPayload)]
        /\ handshake_out_ = [e \in Ends |-> IF e = "server" THEN Clock ELSE Zero]
        /\ key \in Keys
        /\ validated = FALSE
        /\ rejected = FALSE
        /\ sent = [e \in Ends |-> <<>>]
        /\ received = [e \in Ends |-> <<>>]
        /\ handled = 0
        /\ announced = 0
        /\ solved = FALSE
        /\ early = FALSE

-----------------------------------------------------------------------------
(* Starting and ending asynchronous operations.                            *)

(* An operation started on a closed socket fails at once, and its handler  *)
(* closes the socket again: nothing changes.                               *)
StartRead(e, what) ==
    reading' = [reading EXCEPT ![e] = IF sock[e] = "open" THEN what ELSE "none"]

(* The outstanding writes ws of e once one more is started.                *)
Started(e, ws, what) == IF sock[e] = "open" THEN Append(ws, what) ELSE ws

Close(e) == sock' = [sock EXCEPT ![e] = "closed"]

(* SendData posts a handler; it does not look at the socket.               *)
SendData(e, m) == /\ posted' = [posted EXCEPT ![e] = Append(@, <<"send", m>>)]
                  /\ sent' = [sent EXCEPT ![e] = Append(@, m)]

-----------------------------------------------------------------------------
(* The client's main thread.                                               *)

(* Connect opens the socket, starts async_connect and the io thread.       *)
Connect == /\ phase = "new"
           /\ phase' = "connected"
           /\ sock' = [sock EXCEPT !["client"] = "open"]
           /\ link' = "syn"
           /\ connecting' = TRUE
           /\ running' = [running EXCEPT !["client"] = TRUE]
           /\ UNCHANGED <<wire, io, hs, hist>>

(* ClientBaseInterface::isConnected: there is a connection_module_ and its *)
(* socket is open.                                                         *)
isConnected == phase \in {"connected", "disconnecting"} /\ sock["client"] = "open"

(* PingServer and MessageAll, through Send.                                *)
Send(m) == /\ phase = "connected"
           /\ isConnected
           /\ Len(sent["client"]) < MaxSend
           /\ SendData("client", m)
           /\ early' = (early \/ ~solved)
           /\ UNCHANGED <<net, sides, reading, writing, flushed, out_msg_queue_,
                          tmp_input_msg_, hs, solved, received, handled, announced>>

(* Disconnect posts the close if there is something to close, and then     *)
(* stops the io_context, joins its thread and releases the connection:     *)
(* two steps, between which the io thread may or may not run the close.    *)
Disconnect == /\ phase = "connected"
              /\ phase' = "disconnecting"
              /\ posted' = IF isConnected
                           THEN [posted EXCEPT !["client"] = Append(@, <<"close">>)]
                           ELSE posted
              /\ UNCHANGED <<net, sock, connecting, running, reading, writing, flushed,
                             out_msg_queue_, tmp_input_msg_, hs, hist>>

Stop == /\ phase = "disconnecting"
        /\ phase' = "stopped"
        /\ running' = [running EXCEPT !["client"] = FALSE]
        /\ UNCHANGED <<net, sock, connecting, io, hs, hist>>

-----------------------------------------------------------------------------
(* The network.                                                            *)

Establish == /\ link = "syn" /\ sock["client"] = "open"
             /\ link' = "up"
             /\ UNCHANGED <<wire, sides, io, hs, hist>>

Refuse == /\ link = "syn"
          /\ link' = "refused"
          /\ UNCHANGED <<wire, sides, io, hs, hist>>

(* The accept handler asks for the peer's address, which throws if the     *)
(* connection is reset before; here it is not.                             *)
LinkFails == /\ link = "up" /\ sock["server"] # "none"
             /\ link' = "lost"
             /\ UNCHANGED <<wire, sides, io, hs, hist>>

(* What may be on the wire: a number, a header (id and size), a payload    *)
(* that is not empty.  All have eight bytes, except the payload of a       *)
(* MessageAll that the server passes on, which has four: no read that is   *)
(* meant for something else ever meets that one (FramesAligned).           *)
Units == ({"hs"} \X Numbers) \cup ({"hdr"} \X Ids \X {0, 1}) \cup ({"pl"} \X Payloads)

(* What a read for one kind of unit makes of any unit: of another kind it  *)
(* makes anything.  No header equals the solution of a puzzle, whose upper *)
(* half would be a size of 0xC0000000 or more.                             *)
NumberOf(u)  == IF u[1] = "hs" THEN {u[2]} ELSE Numbers
HeaderOf(u)  == IF u[1] = "hdr" THEN {<<u[2], u[3]>>} ELSE Ids \X {0, 1}
PayloadOf(u) == IF u[1] = "pl" THEN {u[2]} ELSE Payloads

(* Mutant of Unit: writePayload takes the buffer of tmp_input_msg_, as     *)
(* ReadPayload does.                                                       *)
UnitOfInput(e, what) ==
    LET m == Head(out_msg_queue_[e]) IN
    CASE what = "hs"  -> <<"hs", handshake_out_[e]>>
      [] what = "hdr" -> <<"hdr", m.id, m.size>>
      [] what = "pl"  -> <<"pl", tmp_input_msg_[e].payload>>

(* The unit that the oldest write not yet on the wire puts there.          *)
Unit(e, what) ==
    LET m == Head(out_msg_queue_[e]) IN
    CASE what = "hs"  -> <<"hs", handshake_out_[e]>>
      [] what = "hdr" -> <<"hdr", m.id, m.size>>
      [] what = "pl"  -> <<"pl", m.payload>>

(* What is sent to a closed socket is lost.                                *)
Transfer(e) ==
    /\ link = "up" /\ sock[e] = "open" /\ running[e]
    /\ flushed[e] < Len(writing[e])
    /\ flushed' = [flushed EXCEPT ![e] = @ + 1]
    /\ wire' = IF sock[Peer(e)] = "closed" THEN wire
               ELSE [wire EXCEPT ![Peer(e)] = Append(@, Unit(e, writing[e][flushed[e] + 1]))]
    /\ UNCHANGED <<link, sides, posted, reading, writing, out_msg_queue_, tmp_input_msg_,
                   hs, hist>>

-----------------------------------------------------------------------------
(* Handlers of the io threads.                                             *)

(* Mutant of ConnectHandler: it goes straight to reading messages.         *)
ConnectHandlerReadsHeader ==
    /\ connecting /\ running["client"]
    /\ link # "syn" \/ sock["client"] = "closed"
    /\ connecting' = FALSE
    /\ IF link \in {"up", "lost"} THEN StartRead("client", "hdr") ELSE UNCHANGED reading
    /\ UNCHANGED <<net, sock, running, phase, posted, writing, flushed, out_msg_queue_,
                   tmp_input_msg_, hs, hist>>

(* The connect handler reads the server's number, or does nothing at all.  *)
ConnectHandler ==
    /\ connecting /\ running["client"]
    /\ link # "syn" \/ sock["client"] = "closed"
    /\ connecting' = FALSE
    /\ IF link \in {"up", "lost"} THEN StartRead("client", "hs") ELSE UNCHANGED reading
    /\ UNCHANGED <<net, sock, running, phase, posted, writing, flushed, out_msg_queue_,
                   tmp_input_msg_, hs, hist>>

(* Mutant of Accept: ConnectToClient reads messages without validation.    *)
AcceptUnvalidated ==
    /\ link = "up" /\ sock["server"] = "none"
    /\ sock' = [sock EXCEPT !["server"] = "open"]
    /\ SendData("server", Message("ServerAccept", NoPayload))
    /\ writing' = [writing EXCEPT !["server"] = <<"hs">>]
    /\ reading' = [reading EXCEPT !["server"] = "hdr"]
    /\ UNCHANGED <<net, connecting, running, phase, flushed, out_msg_queue_, tmp_input_msg_,
                   hs, received, handled, announced, solved, early>>

(* The accept handler: onClientConnect posts the ServerAccept message,     *)
(* ConnectToClient writes the number and reads the solution.               *)
Accept ==
    /\ link = "up" /\ sock["server"] = "none"
    /\ sock' = [sock EXCEPT !["server"] = "open"]
    /\ SendData("server", Message("ServerAccept", NoPayload))
    /\ writing' = [writing EXCEPT !["server"] = <<"hs">>]
    /\ reading' = [reading EXCEPT !["server"] = "hs"]
    /\ UNCHANGED <<net, connecting, running, phase, flushed, out_msg_queue_, tmp_input_msg_,
                   hs, received, handled, announced, solved, early>>

(* Mutant of RunSend: every message starts a write loop of its own.        *)
RunSendAlwaysWrites(e) ==
    /\ running[e]
    /\ posted[e] # <<>> /\ Head(posted[e])[1] = "send"
    /\ posted' = [posted EXCEPT ![e] = Tail(@)]
    /\ out_msg_queue_' = [out_msg_queue_ EXCEPT ![e] = Append(@, Head(posted[e])[2])]
    /\ writing' = [writing EXCEPT ![e] = Started(e, @, "hdr")]
    /\ UNCHANGED <<net, sides, reading, flushed, tmp_input_msg_, hs, hist>>

(* Mutant of RunSend: the message goes to the front of the queue.          *)
RunSendPushFront(e) ==
    /\ running[e]
    /\ posted[e] # <<>> /\ Head(posted[e])[1] = "send"
    /\ posted' = [posted EXCEPT ![e] = Tail(@)]
    /\ out_msg_queue_' = [out_msg_queue_ EXCEPT ![e] = <<Head(posted[e])[2]>> \o @]
    /\ writing' = IF out_msg_queue_[e] # <<>> THEN writing
                  ELSE [writing EXCEPT ![e] = Started(e, @, "hdr")]
    /\ UNCHANGED <<net, sides, reading, flushed, tmp_input_msg_, hs, hist>>

(* The handler SendData posted: start the write loop unless it is running, *)
(* which a queue that is not empty shows.                                  *)
RunSend(e) ==
    /\ running[e]
    /\ posted[e] # <<>> /\ Head(posted[e])[1] = "send"
    /\ posted' = [posted EXCEPT ![e] = Tail(@)]
    /\ out_msg_queue_' = [out_msg_queue_ EXCEPT ![e] = Append(@, Head(posted[e])[2])]
    /\ writing' = IF out_msg_queue_[e] # <<>> THEN writing
                  ELSE [writing EXCEPT ![e] = Started(e, @, "hdr")]
    /\ UNCHANGED <<net, sides, reading, flushed, tmp_input_msg_, hs, hist>>

RunClose(e) ==
    /\ running[e]
    /\ posted[e] # <<>> /\ Head(posted[e])[1] = "close"
    /\ posted' = [posted EXCEPT ![e] = Tail(@)]
    /\ Close(e)
    /\ UNCHANGED <<net, connecting, running, phase, reading, writing, flushed,
                   out_msg_queue_, tmp_input_msg_, hs, hist>>

(* A write has succeeded; its handler runs.                                *)
WriteDone(e, what) == /\ running[e]
                      /\ flushed[e] > 0 /\ Head(writing[e]) = what
                      /\ flushed' = [flushed EXCEPT ![e] = @ - 1]
                      /\ UNCHANGED <<net, sides, posted, tmp_input_msg_, hs, hist>>

(* SendValidationData: the client goes on to read messages.                *)
ValidationSent(e) ==
    /\ WriteDone(e, "hs")
    /\ writing' = [writing EXCEPT ![e] = Tail(@)]
    /\ IF e = "client" THEN StartRead(e, "hdr") ELSE UNCHANGED reading
    /\ UNCHANGED out_msg_queue_

(* The front of the queue is written: go on with the next.                 *)
NextMessage(e) ==
    /\ out_msg_queue_' = [out_msg_queue_ EXCEPT ![e] = Tail(@)]
    /\ writing' = [writing EXCEPT ![e] = IF Len(out_msg_queue_[e]) > 1
                                         THEN Started(e, Tail(@), "hdr") ELSE Tail(@)]
    /\ UNCHANGED reading

(* WriteHeader looks at the payload, not at the size in the header.        *)
HeaderSent(e) ==
    /\ WriteDone(e, "hdr")
    /\ IF Head(out_msg_queue_[e]).payload # NoPayload
       THEN /\ writing' = [writing EXCEPT ![e] = Started(e, Tail(@), "pl")]
            /\ UNCHANGED <<out_msg_queue_, reading>>
       ELSE NextMessage(e)

PayloadSent(e) == WriteDone(e, "pl") /\ NextMessage(e)

(* Reads and writes fail when the socket was closed here or there, or the  *)
(* connection is gone; every such handler closes the socket.               *)
Broken(e) == \/ sock[e] = "closed" \/ sock[Peer(e)] = "closed"
             \/ link \in {"refused", "lost"}

WriteFails(e) ==
    /\ running[e]
    /\ flushed[e] = 0 /\ writing[e] # <<>> /\ Broken(e)
    /\ writing' = [writing EXCEPT ![e] = Tail(@)]
    /\ Close(e)
    /\ UNCHANGED <<net, connecting, running, phase, posted, reading, flushed,
                   out_msg_queue_, tmp_input_msg_, hs, hist>>

(* Mutant of ReadFails: the error is only logged.                          *)
ReadFailsOpen(e) ==
    /\ running[e]
    /\ reading[e] # "none" /\ Broken(e)
    /\ reading' = [reading EXCEPT ![e] = "none"]
    /\ UNCHANGED <<net, sides, posted, writing, flushed, out_msg_queue_, tmp_input_msg_, hs,
                   hist>>

ReadFails(e) ==
    /\ running[e]
    /\ reading[e] # "none" /\ Broken(e)
    /\ reading' = [reading EXCEPT ![e] = "none"]
    /\ Close(e)
    /\ UNCHANGED <<net, connecting, running, phase, posted, writing, flushed,
                   out_msg_queue_, tmp_input_msg_, hs, hist>>

(* A read of e is complete, with the first unit on the wire.  It may have  *)
(* completed just before the socket was closed.                            *)
ReadDone(e, what) == /\ running[e]
                     /\ reading[e] = what
                     /\ wire[e] # <<>>
                     /\ wire' = [wire EXCEPT ![e] = Tail(@)]
                     /\ UNCHANGED link

(* Mutant of SolvePuzzle: the client sends the number back unsolved.       *)
SolvePuzzleNot ==
    /\ ReadDone("client", "hs")
    /\ \E handshake_in_ \in NumberOf(Head(wire["client"])) :
          handshake_out_' = [handshake_out_ EXCEPT !["client"] = handshake_in_]
    /\ writing' = [writing EXCEPT !["client"] = Started("client", @, "hs")]
    /\ reading' = [reading EXCEPT !["client"] = "none"]
    /\ solved' = TRUE
    /\ UNCHANGED <<sides, posted, flushed, out_msg_queue_, tmp_input_msg_, key, validated,
                   rejected, sent, received, handled, announced, early>>

(* ReadServerValidationRequest: solve the puzzle, send the solution.       *)
SolvePuzzle ==
    /\ ReadDone("client", "hs")
    /\ \E handshake_in_ \in NumberOf(Head(wire["client"])) :
          handshake_out_' = [handshake_out_ EXCEPT !["client"] = Encrypt(key, handshake_in_)]
    /\ writing' = [writing EXCEPT !["client"] = Started("client", @, "hs")]
    /\ reading' = [reading EXCEPT !["client"] = "none"]
    /\ solved' = TRUE
    /\ UNCHANGED <<sides, posted, flushed, out_msg_queue_, tmp_input_msg_, key, validated,
                   rejected, sent, received, handled, announced, early>>

(* ReadAndCheckValidation: whatever comes first is taken for the solution. *)
CheckPuzzle ==
    /\ ReadDone("server", "hs")
    /\ IF Head(wire["server"]) = <<"hs", handshake_check_>>
       THEN /\ validated' = TRUE
            /\ StartRead("server", "hdr")
            /\ UNCHANGED <<rejected, sock>>
       ELSE /\ rejected' = TRUE
            /\ reading' = [reading EXCEPT !["server"] = "none"]
            /\ Close("server")
            /\ UNCHANGED validated
    /\ UNCHANGED <<connecting, running, phase, posted, writing, flushed, out_msg_queue_,
                   tmp_input_msg_, handshake_out_, key, hist>>

(* Mutant of AddToIncomingMsgQueue: it does not read on.                   *)
AddAndStop(e, m) ==
    /\ tmp_input_msg_' = [tmp_input_msg_ EXCEPT ![e] = m]
    /\ received' = [received EXCEPT ![e] = Append(@, m)]
    /\ reading' = [reading EXCEPT ![e] = "none"]

(* AddToIncomingMsgQueue, and back to ReadHeader.                          *)
AddToIncomingMsgQueue(e, m) ==
    /\ tmp_input_msg_' = [tmp_input_msg_ EXCEPT ![e] = m]
    /\ received' = [received EXCEPT ![e] = Append(@, m)]
    /\ StartRead(e, "hdr")

(* ReadHeader writes over the header only: without a payload to read, the  *)
(* payload of the message before is still there.                           *)
ReadHeader(e) ==
    /\ ReadDone(e, "hdr")
    /\ \E h \in HeaderOf(Head(wire[e])) :
          LET m == [tmp_input_msg_[e] EXCEPT !.id = h[1], !.size = h[2]] IN
          IF m.size > 0
          THEN /\ tmp_input_msg_' = [tmp_input_msg_ EXCEPT ![e] = m]
               /\ StartRead(e, "pl")
               /\ UNCHANGED received
          ELSE AddToIncomingMsgQueue(e, m)
    /\ UNCHANGED <<sides, posted, writing, flushed, out_msg_queue_, hs, sent, handled,
                   announced, solved, early>>

ReadPayload(e) ==
    /\ ReadDone(e, "pl")
    /\ \E p \in PayloadOf(Head(wire[e])) :
          AddToIncomingMsgQueue(e, [tmp_input_msg_[e] EXCEPT !.payload = p])
    /\ UNCHANGED <<sides, posted, writing, flushed, out_msg_queue_, hs, sent, handled,
                   announced, solved, early>>

(* The client's io_context runs out of work, and run() returns for good:   *)
(* what is posted later stays where it is.                                 *)
RunReturns == /\ running["client"] /\ ~connecting
              /\ posted["client"] = <<>>
              /\ reading["client"] = "none" /\ writing["client"] = <<>>
              /\ running' = [running EXCEPT !["client"] = FALSE]
              /\ UNCHANGED <<net, sock, connecting, phase, io, hs, hist>>

-----------------------------------------------------------------------------
(* The server's main thread.                                               *)

(* update() pops a message for onMessage, which echoes a ping without      *)
(* looking at the socket, and passes MessageAll on to the other clients.   *)
Handle == /\ handled < Len(received["server"])
          /\ handled' = handled + 1
          /\ LET m == received["server"][handled + 1] IN
             IF m.id = "ServerPing" THEN SendData("server", m) ELSE UNCHANGED <<posted, sent>>
          /\ UNCHANGED <<net, sides, reading, writing, flushed, out_msg_queue_,
                         tmp_input_msg_, hs, received, announced, solved, early>>

(* Another client's MessageAll reaches this one: sendMessageToAllClients   *)
(* sends to every connection whose socket is open, validated or not.       *)
Announce(p) == /\ sock["server"] = "open"
               /\ announced < MaxAnnounce
               /\ announced' = announced + 1
               /\ SendData("server", Message("MessageAll", p))
               /\ UNCHANGED <<net, sides, reading, writing, flushed, out_msg_queue_,
                              tmp_input_msg_, hs, received, handled, solved, early>>

-----------------------------------------------------------------------------
ReadStep(e) == \/ e = "client" /\ SolvePuzzle
               \/ e = "server" /\ CheckPuzzle
               \/ ReadHeader(e) \/ ReadPayload(e) \/ ReadFails(e)
Handlers(e) == RunSend(e) \/ RunClose(e) \/ ValidationSent(e) \/ HeaderSent(e) \/ PayloadSent(e)
WriteStep(e) == Transfer(e) \/ WriteFails(e)
TcpStep == Establish \/ Refuse

Next == \/ Connect \/ Disconnect \/ Stop
        \/ \E p \in Payloads : Send(Message("ServerPing", p)) \/ Announce(p)
        \/ Send(Message("MessageAll", NoPayload))
        \/ TcpStep \/ LinkFails \/ ConnectHandler \/ Accept \/ RunReturns \/ Handle
        \/ \E e \in Ends : ReadStep(e) \/ Handlers(e) \/ WriteStep(e)

Spec == Init /\ [][Next]_vars

(* Both io threads keep running their handlers, the operating system keeps *)
(* moving what can move, an accept is always armed, and Disconnect goes    *)
(* through.  Nobody has to send, to disconnect or to handle a message, and *)
(* the network need not fail.                                              *)
Fairness == /\ WF_vars(TcpStep) /\ WF_vars(ConnectHandler) /\ WF_vars(Accept) /\ WF_vars(Stop)
            /\ \A e \in Ends : /\ WF_vars(ReadStep(e))
                               /\ WF_vars(RunSend(e) \/ RunClose(e))
                               /\ WF_vars(ValidationSent(e) \/ HeaderSent(e) \/ PayloadSent(e))
                               /\ WF_vars(WriteStep(e))

FairSpec == Spec /\ Fairness

-----------------------------------------------------------------------------
(* The types, by the parts of the state.                                   *)
SidesType == /\ link \in {"none", "syn", "up", "refused", "lost"}
             /\ sock \in [Ends -> {"none", "open", "closed"}]
             /\ phase \in {"new", "connected", "disconnecting", "stopped"}
RunType == connecting \in BOOLEAN /\ running \in [Ends -> BOOLEAN]
WireType == wire \in [Ends -> Seq(Units)]
IoType == /\ posted \in [Ends -> Seq(Posts)]
          /\ reading \in [Ends -> {"none", "hs", "hdr", "pl"}]
          /\ writing \in [Ends -> Seq(Kinds)]
          /\ flushed \in [Ends -> Nat] /\ \A e \in Ends : flushed[e] <= Len(writing[e])
          /\ out_msg_queue_ \in [Ends -> Seq(Messages)]
          /\ tmp_input_msg_ \in [Ends -> Messages]
HsType == /\ handshake_out_ \in [Ends -> Numbers] /\ key \in Keys
FlagType == {validated, rejected, solved, early} \subseteq BOOLEAN
HistType == /\ sent \in [Ends -> Seq(Messages)]
            /\ received \in [Ends -> Seq(Messages)]
            /\ handled \in Nat /\ announced \in 0..MaxAnnounce

(* The state has its types; in particular every write puts a whole unit    *)
(* on the wire: writePayload is started for a message that has a payload,  *)
(* which is still there when it is sent.                                   *)
TypeOK == SidesType /\ RunType /\ WireType /\ IoType /\ HsType /\ FlagType /\ HistType

(* The message writes among the outstanding writes ws.                     *)
MessageWrites(ws) == {i \in DOMAIN ws : ws[i] # "hs"}

LoopOK(ws, q, closed) ==
    /\ \A i, j \in MessageWrites(ws) : i = j
    /\ \A i \in MessageWrites(ws) : /\ q # <<>>
                                    /\ ws[i] = "pl" => Head(q).payload # NoPayload
    /\ q # <<>> /\ ~closed => MessageWrites(ws) # {}

(* SendData's test for a running write loop is right: at most one message  *)
(* write is outstanding, it is a write of the front of out_msg_queue_, and *)
(* a queue that is not empty is being written unless the socket is closed. *)
WriteLoop == \A e \in Ends : LoopOK(writing[e], out_msg_queue_[e], sock[e] = "closed")

(* No message of a client reaches the server's queue before the client has *)
(* solved the puzzle with the server's own constants.                      *)
ValidatedFirst ==
    received["server"] # <<>> \/ reading["server"] \in {"hdr", "pl"}
       => validated /\ Encrypt(key, Clock) = handshake_check_

(* Each read meets the unit it is meant for, except that the server's      *)
(* handshake takes whatever comes first: framing never slips.              *)
FramesAligned ==
    \A e \in Ends : wire[e] # <<>> /\ reading[e] # "none"
       => Head(wire[e])[1] = reading[e] \/ (e = "server" /\ reading[e] = "hs")

(* A message as its receiver should read it.                               *)
View(m) == <<m.id, m.size, IF m.size > 0 THEN m.payload ELSE NoPayload>>

(* What one end's queue received is what the other end gave to SendData,   *)
(* in that order, with nothing lost in between, doubled or made up.        *)
InOrderDelivery ==
    \A e \in Ends :
       /\ Len(received[Peer(e)]) <= Len(sent[e])
       /\ \A i \in DOMAIN received[Peer(e)] : View(received[Peer(e)][i]) = View(sent[e][i])

(* The server turns away no client of its own build that waits with its    *)
(* first message until it has solved the puzzle.                           *)
PatientClientAccepted == rejected => early \/ Encrypt(key, Clock) # handshake_check_

Down == \/ \E e \in Ends : sock[e] = "closed"
        \/ link \in {"refused", "lost"}
        \/ ~running["client"]

(* Every message given to SendData is received, or the connection ends:    *)
(* the chain of handlers that read and write never breaks off.             *)
DeliveredOrDown ==
    \A e \in Ends : \A k \in 1..(1 + MaxSend + MaxAnnounce) :
       Len(sent[e]) >= k ~> Len(received[Peer(e)]) >= k \/ Down

(* When one end closes, the other closes too, as long as its io_context    *)
(* runs: no socket stays half open.                                        *)
CloseIsPropagated ==
    \A e \in Ends : sock[e] = "closed" /\ sock[Peer(e)] = "open"
                       ~> sock[Peer(e)] = "closed" \/ ~running[Peer(e)]
=============================================================================
