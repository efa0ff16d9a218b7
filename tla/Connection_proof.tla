-------------------------- MODULE Connection_proof --------------------------
(***************************************************************************)
(* Proofs about Connection, for every set of builds and payloads, every    *)
(* encrypt_handshake_data and every number of messages.                    *)
(***************************************************************************)
EXTENDS Connection, TLAPS

USE DEF net, sides, io, hs, hist, Ends

-----------------------------------------------------------------------------
(* Facts about the data.                                                   *)

(* Message makes messages.                                                 *)
LEMMA MessageType ==
  ASSUME NEW id \in Ids, NEW p \in Payloads \cup {NoPayload}
  PROVE  Message(id, p) \in Messages
  BY DEF Message, Messages

(* What SendData and Disconnect post, and what is taken out again.         *)
LEMMA PostType ==
  /\ \A m \in Messages : <<"send", m>> \in Posts
  /\ <<"close">> \in Posts
  /\ \A x \in Posts : x[1] = "send" => x[2] \in Messages
  BY DEF Posts

(* A read makes something well-formed of any unit it meets.                *)
LEMMA UnitType ==
  /\ \A u \in Units : NumberOf(u) \subseteq Numbers
  /\ \A u \in Units : HeaderOf(u) \subseteq Ids \X {0, 1}
  /\ \A u \in Units : PayloadOf(u) \subseteq Payloads \cup {NoPayload}
  BY DEF Units, NumberOf, HeaderOf, PayloadOf

(* Adding to one of a pair of sequences.                                   *)
LEMMA AppendType ==
  ASSUME NEW S, NEW f \in [Ends -> Seq(S)], NEW e \in Ends, NEW x \in S
  PROVE  [f EXCEPT ![e] = Append(@, x)] \in [Ends -> Seq(S)]
  OBVIOUS

(* Taking from one of a pair of sequences.                                 *)
LEMMA TailType ==
  ASSUME NEW S, NEW f \in [Ends -> Seq(S)], NEW e \in Ends, f[e] # <<>>
  PROVE  /\ [f EXCEPT ![e] = Tail(@)] \in [Ends -> Seq(S)]
         /\ Head(f[e]) \in S
  OBVIOUS

(* Every outstanding write has a unit to put on the wire, as long as a     *)
(* message write has a message, and a payload write one with a payload.    *)
LEMMA UnitIsTyped ==
  ASSUME TypeOK, NEW e \in Ends, NEW what \in {"hs", "hdr", "pl"},
         what # "hs" => out_msg_queue_[e] # <<>>,
         what = "pl" => Head(out_msg_queue_[e]).payload # NoPayload
  PROVE  Unit(e, what) \in Units
<1> DEFINE m == Head(out_msg_queue_[e])
<1>1. CASE what = "hs"
  BY <1>1 DEF TypeOK, HsType, Unit, Units
<1>2. CASE what # "hs"
  <2>1. m \in Messages
    BY <1>2 DEF TypeOK, IoType
  <2>2. m.id \in Ids /\ m.size \in {0, 1} /\ m.payload \in Payloads \cup {NoPayload}
    BY <2>1 DEF Messages
  <2> HIDE DEF m
  <2>3. CASE what = "hdr"
    <3>1. Unit(e, what) = <<"hdr", m.id, m.size>>
      BY <2>3 DEF Unit, m
    <3> QED
      BY <3>1, <2>2 DEF Units
  <2>4. CASE what = "pl"
    <3>1. Unit(e, what) = <<"pl", m.payload>>
      BY <2>4 DEF Unit, m
    <3>2. m.payload # NoPayload
      BY <2>4 DEF m
    <3> QED
      BY <3>1, <3>2, <2>2 DEF Units
  <2> QED
    BY <1>2, <2>3, <2>4
<1> QED
  BY <1>1, <1>2

-----------------------------------------------------------------------------
(* The write loop, as it appears in the outstanding writes ws and in the   *)
(* queue q of one end.                                                     *)

(* The message writes left when the oldest write is done.                  *)
LEMMA LoopTail ==
  ASSUME NEW ws \in Seq(Kinds), ws # <<>>
  PROVE  /\ \A i \in MessageWrites(Tail(ws)) : i + 1 \in MessageWrites(ws) /\ Tail(ws)[i] = ws[i + 1]
         /\ \A i \in MessageWrites(ws) : i = 1 \/ i - 1 \in MessageWrites(Tail(ws))
         /\ 1 \in MessageWrites(ws) <=> Head(ws) # "hs"
  BY DEF MessageWrites, Kinds

(* The message writes once another write is started.                       *)
LEMMA LoopAppend ==
  ASSUME NEW ws \in Seq(Kinds), NEW k \in Kinds
  PROVE  /\ \A i \in MessageWrites(Append(ws, k)) :
               (i \in MessageWrites(ws) /\ Append(ws, k)[i] = ws[i]) \/ (i = Len(ws) + 1 /\ k # "hs")
         /\ MessageWrites(ws) \subseteq MessageWrites(Append(ws, k))
         /\ k # "hs" => Len(ws) + 1 \in MessageWrites(Append(ws, k))
         /\ Append(ws, k)[Len(ws) + 1] = k
  BY DEF MessageWrites, Kinds

(* What may be said of the writes when one more was started, or none.      *)
LEMMA GrownWrites ==
  ASSUME NEW ws \in Seq(Kinds), NEW k \in Kinds, NEW w2, w2 = ws \/ w2 = Append(ws, k)
  PROVE  /\ w2 \in Seq(Kinds)
         /\ Len(w2) \in Nat /\ Len(ws) \in Nat /\ Len(w2) >= Len(ws)
<1>1. CASE w2 = ws
  BY <1>1
<1>2. CASE w2 = Append(ws, k)
  BY <1>2
<1> QED
  BY <1>1, <1>2

(* A queue that grows at its end.                                          *)
LEMMA LoopPush ==
  ASSUME NEW ws \in Seq(Kinds), NEW q \in Seq(Messages), NEW m \in Messages, NEW c \in BOOLEAN,
         LoopOK(ws, q, c)
  PROVE  /\ q # <<>> => LoopOK(ws, Append(q, m), c)
         /\ q = <<>> => LoopOK(Append(ws, "hdr"), Append(q, m), c)
         /\ c => LoopOK(ws, Append(q, m), c)
<1>1. CASE q # <<>>
  <2>1. Head(Append(q, m)) = Head(q) /\ Append(q, m) # <<>>
    BY <1>1
  <2> QED
    BY <1>1, <2>1 DEF LoopOK
<1>2. CASE q = <<>>
  <2>1. MessageWrites(ws) = {}
    BY <1>2 DEF LoopOK
  <2>2. Append(q, m) # <<>>
    OBVIOUS
  <2>3. \A i \in MessageWrites(Append(ws, "hdr")) : i = Len(ws) + 1 /\ Append(ws, "hdr")[i] = "hdr"
    BY <2>1, LoopAppend DEF Kinds
  <2>4. MessageWrites(Append(ws, "hdr")) # {}
    BY LoopAppend DEF Kinds
  <2>5. LoopOK(Append(ws, "hdr"), Append(q, m), c)
    BY <2>2, <2>3, <2>4 DEF LoopOK
  <2>6. c => LoopOK(ws, Append(q, m), c)
    BY <2>1 DEF LoopOK
  <2> QED
    BY <1>2, <2>5, <2>6
<1> QED
  BY <1>1, <1>2

(* A handshake write is started, or done.                                  *)
LEMMA LoopHandshake ==
  ASSUME NEW ws \in Seq(Kinds), NEW q \in Seq(Messages), NEW c \in BOOLEAN, LoopOK(ws, q, c)
  PROVE  /\ LoopOK(Append(ws, "hs"), q, c)
         /\ ws # <<>> /\ Head(ws) = "hs" => LoopOK(Tail(ws), q, c)
<1>1. LoopOK(Append(ws, "hs"), q, c)
  <2>1. \A i \in MessageWrites(Append(ws, "hs")) :
           i \in MessageWrites(ws) /\ Append(ws, "hs")[i] = ws[i]
    BY LoopAppend DEF Kinds
  <2>2. MessageWrites(ws) \subseteq MessageWrites(Append(ws, "hs"))
    BY LoopAppend DEF Kinds
  <2> QED
    BY <2>1, <2>2 DEF LoopOK
<1>2. ASSUME ws # <<>>, Head(ws) = "hs" PROVE LoopOK(Tail(ws), q, c)
  <2>1. \A i \in MessageWrites(Tail(ws)) : i \in Int
    BY <1>2 DEF MessageWrites
  <2>2. \A i \in MessageWrites(ws) : i - 1 \in MessageWrites(Tail(ws))
    BY <1>2, LoopTail
  <2>3. \A i \in MessageWrites(Tail(ws)) : i + 1 \in MessageWrites(ws) /\ Tail(ws)[i] = ws[i + 1]
    BY <1>2, LoopTail
  <2>4. \A i, j \in MessageWrites(Tail(ws)) : i = j
    BY <2>1, <2>3 DEF LoopOK
  <2> QED
    BY <2>2, <2>3, <2>4 DEF LoopOK
<1> QED
  BY <1>1, <1>2

(* A message write is done: no other is outstanding.                       *)
LEMMA LoopDone ==
  ASSUME NEW ws \in Seq(Kinds), NEW q \in Seq(Messages), NEW c \in BOOLEAN, LoopOK(ws, q, c),
         ws # <<>>, Head(ws) # "hs"
  PROVE  /\ q # <<>>
         /\ MessageWrites(Tail(ws)) = {}
<1>1. 1 \in MessageWrites(ws)
  BY LoopTail
<1>2. ASSUME NEW i \in MessageWrites(Tail(ws)) PROVE FALSE
  <2>1. i \in Nat \ {0}
    BY DEF MessageWrites
  <2>2. i + 1 \in MessageWrites(ws)
    BY LoopTail
  <2> QED
    BY <1>1, <2>1, <2>2 DEF LoopOK
<1> QED
  BY <1>1, <1>2 DEF LoopOK

(* With no message write outstanding, one is started for the front of the  *)
(* queue; none need be when the queue is empty or the socket closed.       *)
LEMMA LoopStart ==
  ASSUME NEW ws \in Seq(Kinds), NEW q \in Seq(Messages), NEW c \in BOOLEAN,
         MessageWrites(ws) = {}
  PROVE  /\ q # <<>> => LoopOK(Append(ws, "hdr"), q, c)
         /\ q # <<>> /\ Head(q).payload # NoPayload => LoopOK(Append(ws, "pl"), q, c)
         /\ q = <<>> \/ c => LoopOK(ws, q, c)
<1>1. ASSUME NEW k \in {"hdr", "pl"}
      PROVE  /\ \A i \in MessageWrites(Append(ws, k)) : i = Len(ws) + 1 /\ Append(ws, k)[i] = k
             /\ MessageWrites(Append(ws, k)) # {}
  BY LoopAppend DEF Kinds
<1> QED
  BY <1>1 DEF LoopOK

(* A closed socket asks less.                                              *)
LEMMA LoopClose ==
  ASSUME NEW ws \in Seq(Kinds), NEW q \in Seq(Messages), NEW c \in BOOLEAN, LoopOK(ws, q, c)
  PROVE  /\ LoopOK(ws, q, TRUE)
         /\ ws # <<>> => LoopOK(Tail(ws), q, TRUE)
<1>1. LoopOK(ws, q, TRUE)
  BY DEF LoopOK
<1>2. CASE ws # <<>> /\ Head(ws) = "hs"
  BY <1>1, <1>2, LoopHandshake
<1>3. CASE ws # <<>> /\ Head(ws) # "hs"
  <2>1. Tail(ws) \in Seq(Kinds) /\ MessageWrites(Tail(ws)) = {}
    BY <1>3, LoopDone
  <2> QED
    BY <1>1, <2>1 DEF LoopOK
<1> QED
  BY <1>1, <1>2, <1>3

-----------------------------------------------------------------------------
(* The inductive invariant: types, the write loop, and that an end without *)
(* a socket has done nothing yet.                                          *)
Unopened == /\ \A e \in Ends : sock[e] = "none" => /\ posted[e] = <<>>
                                                   /\ out_msg_queue_[e] = <<>>
                                                   /\ writing[e] = <<>>
                                                   /\ reading[e] = "none"
                                                   /\ received[e] = <<>>
            /\ phase = "new" => sock["client"] = "none"

IInv == TypeOK /\ WriteLoop /\ Unopened

USE DEF SidesType, RunType, WireType, IoType, HsType, FlagType, HistType

(* Nothing has happened yet.                                               *)
LEMMA InitIInv == Init => IInv
<1> SUFFICES ASSUME Init PROVE IInv
  OBVIOUS
<1>1. Message("ServerAccept", NoPayload) \in Messages
  BY MessageType DEF Ids
<1>2. SidesType /\ WireType /\ HsType /\ HistType
  BY BuildAssumption, BoundAssumption DEF Init
<1>3. IoType
  BY <1>1 DEF Init
<1>4. RunType /\ FlagType
  <2>1. running = [e \in Ends |-> e = "server"]
    BY DEF Init
  <2>2. \A e \in Ends : (e = "server") \in BOOLEAN
    OBVIOUS
  <2>3. running \in [Ends -> BOOLEAN]
    BY <2>1, <2>2, Zenon
  <2> QED
    BY <2>3, Zenon DEF Init
<1>5. WriteLoop
  BY DEF Init, WriteLoop, LoopOK, MessageWrites
<1> QED
  BY <1>2, <1>3, <1>4, <1>5 DEF Init, IInv, TypeOK, Unopened

(* Steps that leave the asynchronous operations and their data alone.      *)
LEMMA QuietKeeps ==
  ASSUME IInv, Establish \/ Refuse \/ LinkFails \/ Stop \/ RunReturns \/ UNCHANGED vars
  PROVE  IInv'
<1>1. (SidesType /\ WireType /\ IoType /\ HsType /\ HistType)'
  BY DEF IInv, TypeOK, Establish, Refuse, LinkFails, Stop, RunReturns, vars
<1>2. (RunType /\ FlagType)'
  BY Zenon DEF IInv, TypeOK, Establish, Refuse, LinkFails, Stop, RunReturns, vars
<1>3. WriteLoop'
  BY DEF IInv, WriteLoop, Establish, Refuse, LinkFails, Stop, RunReturns, vars
<1>4. Unopened'
  BY DEF IInv, Unopened, Establish, Refuse, LinkFails, Stop, RunReturns, vars
<1> QED
  BY <1>1, <1>2, <1>3, <1>4 DEF IInv, TypeOK

(* Connect opens a socket that was never used.                             *)
LEMMA ConnectKeeps == IInv /\ Connect => IInv'
<1> SUFFICES ASSUME IInv, Connect PROVE IInv'
  OBVIOUS
<1>1. (SidesType /\ WireType /\ IoType /\ HsType /\ HistType)'
  BY DEF IInv, TypeOK, Connect
<1>2. (RunType /\ FlagType)'
  BY Zenon DEF IInv, TypeOK, Connect
<1>3. WriteLoop'
  BY DEF IInv, Unopened, WriteLoop, LoopOK, Connect, TypeOK
<1>4. Unopened'
  BY DEF IInv, TypeOK, Unopened, Connect
<1> QED
  BY <1>1, <1>2, <1>3, <1>4 DEF IInv, TypeOK

(* SendData, by whoever calls it, on a socket that was opened.             *)
LEMMA SendDataKeeps ==
  ASSUME IInv, NEW e \in Ends, NEW m \in Messages, SendData(e, m), sock[e] # "none"
  PROVE  /\ posted' \in [Ends -> Seq(Posts)]
         /\ sent' \in [Ends -> Seq(Messages)]
         /\ \A d \in Ends : sock[d] = "none" => posted'[d] = posted[d]
<1>1. <<"send", m>> \in Posts
  BY PostType
<1>2. posted \in [Ends -> Seq(Posts)] /\ sent \in [Ends -> Seq(Messages)]
  BY DEF IInv, TypeOK
<1>3. posted' \in [Ends -> Seq(Posts)] /\ sent' \in [Ends -> Seq(Messages)]
  BY <1>1, <1>2, AppendType DEF SendData
<1> QED
  BY <1>2, <1>3 DEF SendData

(* The client's main thread calls Send.                                    *)
LEMMA SendKeeps ==
  ASSUME IInv, NEW m \in Messages, Send(m)
  PROVE  IInv'
<1>0. sock["client"] # "none" /\ SendData("client", m)
  BY DEF Send, isConnected
<1>1. (SidesType /\ WireType /\ IoType /\ HsType /\ HistType)'
  BY <1>0, SendDataKeeps DEF IInv, TypeOK, Send
<1>2. (RunType /\ FlagType)'
  <2>1. early' \in BOOLEAN
    BY Zenon DEF Send
  <2> QED
    BY <2>1, Zenon DEF IInv, TypeOK, Send
<1>3. WriteLoop'
  BY DEF IInv, WriteLoop, Send
<1>4. Unopened'
  BY <1>0, SendDataKeeps DEF IInv, Unopened, Send
<1> QED
  BY <1>1, <1>2, <1>3, <1>4 DEF IInv, TypeOK

(* Another client's message is passed on.                                  *)
LEMMA AnnounceKeeps ==
  ASSUME IInv, NEW p \in Payloads, Announce(p)
  PROVE  IInv'
<1>0. /\ Message("MessageAll", p) \in Messages
      /\ sock["server"] # "none" /\ SendData("server", Message("MessageAll", p))
  BY MessageType DEF Announce, Ids
<1>1. (SidesType /\ WireType /\ IoType /\ HsType /\ HistType)'
  <2>1. announced' \in 0..MaxAnnounce
    <3>1. announced \in 0..MaxAnnounce
      BY DEF IInv, TypeOK
    <3>2. announced < MaxAnnounce /\ announced' = announced + 1
      BY DEF Announce
    <3> HIDE DEF SidesType, RunType, WireType, IoType, HsType, FlagType, HistType
    <3> QED
      BY <3>1, <3>2, BoundAssumption
  <2> QED
    BY <1>0, <2>1, SendDataKeeps DEF IInv, TypeOK, Announce
<1>2. (RunType /\ FlagType)'
  BY Zenon DEF IInv, TypeOK, Announce
<1>3. WriteLoop'
  BY DEF IInv, WriteLoop, Announce
<1>4. Unopened'
  BY <1>0, SendDataKeeps DEF IInv, Unopened, Announce
<1> QED
  BY <1>1, <1>2, <1>3, <1>4 DEF IInv, TypeOK

(* update() and onMessage.                                                 *)
LEMMA HandleKeeps == IInv /\ Handle => IInv'
<1> SUFFICES ASSUME IInv, Handle PROVE IInv'
  OBVIOUS
<1> DEFINE m == received["server"][handled + 1]
<1>1. m \in Messages /\ sock["server"] # "none"
  <2>1. /\ handled \in Nat /\ received["server"] \in Seq(Messages)
        /\ handled < Len(received["server"])
    BY DEF IInv, TypeOK, Handle
  <2>2. handled + 1 \in 1..Len(received["server"]) /\ received["server"] # <<>>
    BY <2>1
  <2>3. m \in Messages
    BY <2>1, <2>2
  <2> QED
    BY <2>2, <2>3 DEF IInv, Unopened
<1>2. \/ SendData("server", m)
      \/ UNCHANGED <<posted, sent>>
  BY DEF Handle
<1> HIDE DEF m
<1>3. /\ posted' \in [Ends -> Seq(Posts)]
      /\ sent' \in [Ends -> Seq(Messages)]
      /\ \A d \in Ends : sock[d] = "none" => posted'[d] = posted[d]
  BY <1>1, <1>2, SendDataKeeps DEF IInv, TypeOK
<1>4. (SidesType /\ WireType /\ IoType /\ HsType /\ HistType)'
  BY <1>3 DEF IInv, TypeOK, Handle
<1>5. (RunType /\ FlagType)'
  BY Zenon DEF IInv, TypeOK, Handle
<1>6. WriteLoop'
  BY DEF IInv, WriteLoop, Handle
<1>7. Unopened'
  BY <1>3 DEF IInv, Unopened, Handle
<1> QED
  BY <1>4, <1>5, <1>6, <1>7 DEF IInv, TypeOK

(* Disconnect posts a close for an open socket.                            *)
LEMMA DisconnectKeeps == IInv /\ Disconnect => IInv'
<1> SUFFICES ASSUME IInv, Disconnect PROVE IInv'
  OBVIOUS
<1>1. /\ posted' \in [Ends -> Seq(Posts)]
      /\ \A d \in Ends : sock[d] = "none" => posted'[d] = posted[d]
  <2>1. posted \in [Ends -> Seq(Posts)] /\ <<"close">> \in Posts
    BY PostType DEF IInv, TypeOK
  <2>2. CASE isConnected
    <3>1. posted' = [posted EXCEPT !["client"] = Append(@, <<"close">>)]
      BY <2>2 DEF Disconnect
    <3>2. posted' \in [Ends -> Seq(Posts)]
      BY <2>1, <3>1, AppendType
    <3> QED
      BY <2>1, <2>2, <3>1, <3>2 DEF isConnected
  <2>3. CASE ~isConnected
    BY <2>1, <2>3 DEF Disconnect
  <2> QED
    BY <2>2, <2>3
<1>2. (SidesType /\ WireType /\ IoType /\ HsType /\ HistType)'
  BY <1>1 DEF IInv, TypeOK, Disconnect
<1>3. (RunType /\ FlagType)'
  BY Zenon DEF IInv, TypeOK, Disconnect
<1>4. WriteLoop'
  BY DEF IInv, WriteLoop, Disconnect
<1>5. Unopened'
  BY <1>1 DEF IInv, Unopened, Disconnect
<1> QED
  BY <1>2, <1>3, <1>4, <1>5 DEF IInv, TypeOK

(* The accept handler starts from an end that has done nothing.            *)
LEMMA AcceptKeeps == IInv /\ Accept => IInv'
<1> SUFFICES ASSUME IInv, Accept PROVE IInv'
  OBVIOUS
<1> DEFINE m == Message("ServerAccept", NoPayload)
<1>1. m \in Messages
  BY MessageType DEF Ids
<1>2. SendData("server", m)
  BY DEF Accept
<1> HIDE DEF m
<1>3. /\ posted' \in [Ends -> Seq(Posts)]
      /\ sent' \in [Ends -> Seq(Messages)]
      /\ posted'["client"] = posted["client"]
  <2>1. <<"send", m>> \in Posts
    BY <1>1, PostType
  <2> QED
    BY <1>1, <1>2, <2>1, AppendType DEF IInv, TypeOK, SendData
<1>4. /\ writing' = [writing EXCEPT !["server"] = <<"hs">>]
      /\ sock' = [sock EXCEPT !["server"] = "open"]
      /\ reading' = [reading EXCEPT !["server"] = "hs"]
      /\ flushed' = flushed /\ out_msg_queue_' = out_msg_queue_
      /\ out_msg_queue_["server"] = <<>> /\ writing["server"] = <<>>
  BY DEF Accept, IInv, Unopened
<1>5. <<"hs">> \in Seq(Kinds) /\ Len(<<"hs">>) = 1
  BY DEF Kinds
<1>6. writing' \in [Ends -> Seq(Kinds)] /\ \A e \in Ends : flushed'[e] <= Len(writing'[e])
  BY <1>4, <1>5 DEF IInv, TypeOK
<1>7. (SidesType /\ WireType /\ IoType /\ HsType /\ HistType)'
  <2>1. UNCHANGED <<net, connecting, running, phase, tmp_input_msg_, handshake_out_, key,
                    received, handled, announced>>
    BY DEF Accept
  <2>2. (SidesType /\ WireType /\ HsType /\ HistType)'
    BY <1>3, <1>4, <2>1 DEF IInv, TypeOK
  <2>3. IoType'
    BY <1>3, <1>4, <1>6, <2>1 DEF IInv, TypeOK
  <2> QED
    BY <2>2, <2>3
<1>8. (RunType /\ FlagType)'
  BY Zenon DEF IInv, TypeOK, Accept
<1>9. WriteLoop'
  <2>1. MessageWrites(<<"hs">>) = {}
    BY <1>5 DEF MessageWrites
  <2>2. LoopOK(<<"hs">>, <<>>, FALSE)
    BY <2>1 DEF LoopOK
  <2>3. LoopOK(writing'["server"], out_msg_queue_'["server"], sock'["server"] = "closed")
    BY <1>4, <2>2 DEF IInv, TypeOK
  <2>4. LoopOK(writing'["client"], out_msg_queue_'["client"], sock'["client"] = "closed")
    BY <1>4 DEF IInv, TypeOK, WriteLoop
  <2> QED
    BY <2>3, <2>4 DEF WriteLoop
<1>10. Unopened'
  BY <1>3, <1>4 DEF IInv, TypeOK, Unopened, Accept
<1> QED
  BY <1>7, <1>8, <1>9, <1>10 DEF IInv, TypeOK

(* The connect handler starts a read on an open socket or does nothing.    *)
LEMMA ConnectHandlerKeeps == IInv /\ ConnectHandler => IInv'
<1> SUFFICES ASSUME IInv, ConnectHandler PROVE IInv'
  OBVIOUS
<1>1. (SidesType /\ WireType /\ IoType /\ HsType /\ HistType)'
  BY DEF IInv, TypeOK, ConnectHandler, StartRead
<1>2. (RunType /\ FlagType)'
  BY Zenon DEF IInv, TypeOK, ConnectHandler
<1>3. WriteLoop'
  BY DEF IInv, WriteLoop, ConnectHandler
<1>4. Unopened'
  BY DEF IInv, TypeOK, Unopened, ConnectHandler, StartRead
<1> QED
  BY <1>1, <1>2, <1>3, <1>4 DEF IInv, TypeOK

(* A step of one end's write loop leaves the other end's alone.            *)
LEMMA LoopOfOneEnd ==
  ASSUME IInv, NEW e \in Ends,
         LoopOK(writing'[e], out_msg_queue_'[e], sock'[e] = "closed"),
         \A d \in Ends \ {e} : /\ writing'[d] = writing[d]
                               /\ out_msg_queue_'[d] = out_msg_queue_[d]
                               /\ sock'[d] = sock[d]
  PROVE  WriteLoop'
<1>1. ASSUME NEW d \in Ends, d # e
      PROVE  LoopOK(writing'[d], out_msg_queue_'[d], sock'[d] = "closed")
  <2>1. LoopOK(writing[d], out_msg_queue_[d], sock[d] = "closed")
    BY DEF IInv, WriteLoop
  <2> QED
    BY <1>1, <2>1
<1> QED
  BY <1>1 DEF WriteLoop

(* What the lemmas on LoopOK need to know of one end.                      *)
LEMMA LoopFacts ==
  ASSUME IInv, NEW e \in Ends
  PROVE  /\ writing[e] \in Seq(Kinds)
         /\ out_msg_queue_[e] \in Seq(Messages)
         /\ (sock[e] = "closed") \in BOOLEAN
         /\ LoopOK(writing[e], out_msg_queue_[e], sock[e] = "closed")
  BY DEF IInv, TypeOK, WriteLoop

(* The handler of SendData.                                                *)
LEMMA RunSendKeeps ==
  ASSUME IInv, NEW e \in Ends, RunSend(e)
  PROVE  IInv'
<1> DEFINE m  == Head(posted[e])[2]
           ws == writing[e]
           q  == out_msg_queue_[e]
           c  == sock[e] = "closed"
           w2 == IF q # <<>> THEN ws ELSE Started(e, ws, "hdr")
<1>1. posted' \in [Ends -> Seq(Posts)] /\ Head(posted[e]) \in Posts
  <2>1. posted \in [Ends -> Seq(Posts)] /\ posted[e] # <<>>
    BY DEF IInv, TypeOK, RunSend
  <2> QED
    BY <2>1, TailType DEF RunSend
<1>2. m \in Messages
  BY <1>1, PostType DEF RunSend
<1>3. sock[e] \in {"open", "closed"}
  BY DEF IInv, TypeOK, Unopened, RunSend
<1>4. ws \in Seq(Kinds) /\ q \in Seq(Messages) /\ c \in BOOLEAN /\ LoopOK(ws, q, c)
  BY LoopFacts
<1>5. /\ out_msg_queue_' = [out_msg_queue_ EXCEPT ![e] = Append(q, m)]
      /\ writing' = [writing EXCEPT ![e] = w2]
      /\ writing \in [Ends -> Seq(Kinds)]
      /\ out_msg_queue_ \in [Ends -> Seq(Messages)]
  BY DEF RunSend, IInv, TypeOK
<1>6. /\ q # <<>> => w2 = ws
      /\ q = <<>> /\ ~c => w2 = Append(ws, "hdr")
      /\ q = <<>> /\ c => w2 = ws
  BY <1>3 DEF Started
<1>7. w2 \in Seq(Kinds) /\ Len(w2) >= Len(ws)
  <2>1. "hdr" \in Kinds
    BY DEF Kinds
  <2>2. w2 = ws \/ w2 = Append(ws, "hdr")
    BY <1>6
  <2> HIDE DEF w2
  <2> QED
    BY <1>4, <2>1, <2>2, GrownWrites
<1> HIDE DEF m, ws, q, c, w2
<1>8. LoopOK(w2, Append(q, m), c)
  BY <1>2, <1>4, <1>6, LoopPush
<1>9. Append(q, m) \in Seq(Messages)
  BY <1>2, <1>4
<1>10. (SidesType /\ WireType /\ IoType /\ HsType /\ HistType)'
  <2>1. out_msg_queue_' \in [Ends -> Seq(Messages)] /\ writing' \in [Ends -> Seq(Kinds)]
    BY <1>5, <1>7, <1>9
  <2>2. \A d \in Ends : flushed[d] <= Len(writing'[d])
    <3>1. \A d \in Ends : flushed[d] \in Nat /\ flushed[d] <= Len(writing[d]) /\ Len(writing[d]) \in Nat
      BY DEF IInv, TypeOK
    <3>2. Len(writing[e]) <= Len(w2) /\ Len(w2) \in Nat
      BY <1>7, LoopFacts DEF ws
    <3>3. \A d \in Ends : writing'[d] = IF d = e THEN w2 ELSE writing[d]
      BY <1>5
    <3> QED
      BY <3>1, <3>2, <3>3
  <2> QED
    BY <1>1, <2>1, <2>2 DEF IInv, TypeOK, RunSend
<1>11. (RunType /\ FlagType)'
  BY Zenon DEF IInv, TypeOK, RunSend
<1>12. WriteLoop'
  <2>1. writing'[e] = w2 /\ out_msg_queue_'[e] = Append(q, m)
    BY <1>5
  <2>2. sock' = sock
    BY DEF RunSend
  <2>3. LoopOK(writing'[e], out_msg_queue_'[e], sock'[e] = "closed")
    BY <1>8, <2>1, <2>2 DEF c
  <2> QED
    BY <1>5, <2>2, <2>3, LoopOfOneEnd
<1>13. Unopened'
  <2>1. UNCHANGED <<sock, phase, reading, received>>
    BY DEF RunSend
  <2>2. \A d \in Ends \ {e} : /\ posted'[d] = posted[d]
                             /\ writing'[d] = writing[d]
                             /\ out_msg_queue_'[d] = out_msg_queue_[d]
    BY <1>5 DEF IInv, TypeOK, RunSend
  <2> QED
    BY <1>3, <2>1, <2>2 DEF IInv, Unopened
<1> QED
  BY <1>10, <1>11, <1>12, <1>13 DEF IInv, TypeOK

(* A socket is closed, by a posted close or because a read failed.         *)
LEMMA CloseKeeps ==
  ASSUME IInv, NEW e \in Ends, RunClose(e) \/ ReadFails(e)
  PROVE  IInv'
<1>1. posted' \in [Ends -> Seq(Posts)]
  <2>1. posted \in [Ends -> Seq(Posts)]
    BY DEF IInv, TypeOK
  <2>2. CASE RunClose(e)
    <3>1. posted[e] # <<>> /\ posted' = [posted EXCEPT ![e] = Tail(@)]
      BY <2>2 DEF RunClose
    <3> QED
      BY <2>1, <3>1, TailType
  <2>3. CASE ReadFails(e)
    BY <2>1, <2>3 DEF ReadFails
  <2> QED
    BY <2>2, <2>3
<1>2. sock[e] # "none" /\ sock' = [sock EXCEPT ![e] = "closed"]
  BY DEF IInv, TypeOK, Unopened, RunClose, ReadFails, Close
<1>3. (SidesType /\ WireType /\ IoType /\ HsType /\ HistType)'
  BY <1>1, <1>2 DEF IInv, TypeOK, RunClose, ReadFails
<1>4. (RunType /\ FlagType)'
  BY Zenon DEF IInv, TypeOK, RunClose, ReadFails
<1>5. WriteLoop'
  <2>1. writing' = writing /\ out_msg_queue_' = out_msg_queue_
    BY DEF RunClose, ReadFails
  <2>2. LoopOK(writing[e], out_msg_queue_[e], TRUE)
    BY LoopFacts, LoopClose
  <2>3. (sock'[e] = "closed") = TRUE
    BY <1>2 DEF IInv, TypeOK
  <2>4. LoopOK(writing'[e], out_msg_queue_'[e], sock'[e] = "closed")
    BY <2>1, <2>2, <2>3
  <2> QED
    BY <1>2, <2>1, <2>4, LoopOfOneEnd DEF IInv, TypeOK
<1>6. Unopened'
  <2>1. UNCHANGED <<phase, received, writing, out_msg_queue_>>
    BY DEF RunClose, ReadFails
  <2>2. sock'[e] # "none" /\ \A d \in Ends \ {e} : sock'[d] = sock[d]
    BY <1>2 DEF IInv, TypeOK
  <2>3. \A d \in Ends \ {e} : posted'[d] = posted[d] /\ reading'[d] = reading[d]
    BY DEF IInv, TypeOK, RunClose, ReadFails
  <2>4. phase = "new" => sock'["client"] = "none"
    BY <1>2, <2>2 DEF IInv, Unopened
  <2> QED
    BY <2>1, <2>2, <2>3, <2>4 DEF IInv, Unopened
<1> QED
  BY <1>3, <1>4, <1>5, <1>6 DEF IInv, TypeOK

(* A write fails, and its socket is closed.                                *)
LEMMA WriteFailsKeeps ==
  ASSUME IInv, NEW e \in Ends, WriteFails(e)
  PROVE  IInv'
<1>0. /\ writing \in [Ends -> Seq(Kinds)] /\ writing[e] # <<>> /\ flushed[e] = 0
      /\ writing' = [writing EXCEPT ![e] = Tail(@)]
      /\ out_msg_queue_' = out_msg_queue_
  BY DEF IInv, TypeOK, WriteFails
<1>1. writing' \in [Ends -> Seq(Kinds)]
  BY <1>0, TailType
<1>2. /\ sock[e] # "none" /\ sock' = [sock EXCEPT ![e] = "closed"]
      /\ sock \in [Ends -> {"none", "open", "closed"}]
  BY <1>0 DEF IInv, TypeOK, Unopened, WriteFails, Close
<1>3. (SidesType /\ WireType /\ IoType /\ HsType /\ HistType)'
  <2>1. \A d \in Ends : flushed[d] <= Len(writing'[d])
    <3>1. Len(writing'[e]) \in Nat
      BY <1>1
    <3>2. \A d \in Ends \ {e} : writing'[d] = writing[d]
      BY <1>0
    <3>3. \A d \in Ends : flushed[d] <= Len(writing[d])
      BY DEF IInv, TypeOK
    <3>4. flushed[e] <= Len(writing'[e])
      BY <1>0, <3>1
    <3> QED
      BY <3>2, <3>3, <3>4
  <2> QED
    BY <1>1, <1>2, <2>1 DEF IInv, TypeOK, WriteFails
<1>4. (RunType /\ FlagType)'
  BY Zenon DEF IInv, TypeOK, WriteFails
<1>5. WriteLoop'
  <2>1. LoopOK(Tail(writing[e]), out_msg_queue_[e], TRUE)
    BY <1>0, LoopFacts, LoopClose
  <2>2. (sock'[e] = "closed") = TRUE /\ writing'[e] = Tail(writing[e])
    BY <1>0, <1>2
  <2>3. LoopOK(writing'[e], out_msg_queue_'[e], sock'[e] = "closed")
    BY <1>0, <2>1, <2>2
  <2>4. \A d \in Ends \ {e} : writing'[d] = writing[d] /\ sock'[d] = sock[d]
    BY <1>0, <1>2
  <2> QED
    BY <1>0, <2>3, <2>4, LoopOfOneEnd
<1>6. Unopened'
  BY <1>0, <1>2 DEF IInv, Unopened, WriteFails
<1> QED
  BY <1>3, <1>4, <1>5, <1>6 DEF IInv, TypeOK

(* The oldest write has succeeded.                                         *)
LEMMA WriteDoneFacts ==
  ASSUME IInv, NEW e \in Ends, NEW k \in Kinds, WriteDone(e, k)
  PROVE  /\ writing[e] # <<>> /\ Head(writing[e]) = k
         /\ sock[e] # "none"
         /\ flushed' \in [Ends -> Nat]
         /\ flushed'[e] <= Len(Tail(writing[e]))
         /\ \A d \in Ends \ {e} : flushed'[d] = flushed[d]
         /\ UNCHANGED <<net, sides, posted, tmp_input_msg_, hs, hist>>
<1>1. /\ flushed[e] > 0 /\ Head(writing[e]) = k
      /\ flushed' = [flushed EXCEPT ![e] = @ - 1]
      /\ UNCHANGED <<net, sides, posted, tmp_input_msg_, hs, hist>>
  BY DEF WriteDone
<1>2. /\ flushed \in [Ends -> Nat] /\ flushed[e] <= Len(writing[e])
      /\ writing[e] \in Seq(Kinds)
  BY DEF IInv, TypeOK
<1>3. writing[e] # <<>> /\ Len(Tail(writing[e])) = Len(writing[e]) - 1
  BY <1>1, <1>2
<1>4. sock[e] # "none"
  BY <1>3 DEF IInv, Unopened
<1> QED
  BY <1>1, <1>2, <1>3, <1>4

(* What is left to show of a completed write.                              *)
LEMMA WriteDoneKeeps ==
  ASSUME IInv, NEW e \in Ends, NEW k \in Kinds, WriteDone(e, k),
         NEW w2 \in Seq(Kinds), Len(w2) >= Len(Tail(writing[e])),
         NEW q2 \in Seq(Messages),
         writing' = [writing EXCEPT ![e] = w2],
         out_msg_queue_' = [out_msg_queue_ EXCEPT ![e] = q2],
         LoopOK(w2, q2, sock[e] = "closed"),
         reading' \in [Ends -> {"none", "hs", "hdr", "pl"}],
         \A d \in Ends \ {e} : reading'[d] = reading[d]
  PROVE  IInv'
<1>1. /\ writing[e] # <<>>
      /\ sock[e] # "none"
      /\ flushed' \in [Ends -> Nat]
      /\ flushed'[e] <= Len(Tail(writing[e]))
      /\ \A d \in Ends \ {e} : flushed'[d] = flushed[d]
      /\ UNCHANGED <<net, sides, posted, tmp_input_msg_, hs, hist>>
  BY WriteDoneFacts
<1>2. \A d \in Ends : writing'[d] = IF d = e THEN w2 ELSE writing[d]
  BY DEF IInv, TypeOK
<1>3. \A d \in Ends : out_msg_queue_'[d] = IF d = e THEN q2 ELSE out_msg_queue_[d]
  BY DEF IInv, TypeOK
<1>4. \A d \in Ends : flushed'[d] <= Len(writing'[d])
  <2>1. Len(w2) \in Nat /\ Len(Tail(writing[e])) \in Nat /\ flushed'[e] \in Nat
    <3>1. writing[e] \in Seq(Kinds)
      BY LoopFacts
    <3>2. Tail(writing[e]) \in Seq(Kinds)
      BY <1>1, <3>1
    <3> QED
      BY <1>1, <3>2
  <2>2. flushed'[e] <= Len(w2)
    BY <1>1, <2>1
  <2>3. \A d \in Ends \ {e} : flushed[d] <= Len(writing[d])
    BY DEF IInv, TypeOK
  <2> QED
    BY <1>1, <1>2, <2>2, <2>3
<1>5. (SidesType /\ WireType /\ IoType /\ HsType /\ HistType)'
  BY <1>1, <1>4 DEF IInv, TypeOK
<1>6. (RunType /\ FlagType)'
  BY <1>1, Zenon DEF IInv, TypeOK
<1>7. WriteLoop'
  <2>1. LoopOK(writing'[e], out_msg_queue_'[e], sock'[e] = "closed")
    BY <1>1, <1>2, <1>3
  <2> QED
    BY <1>1, <1>2, <1>3, <2>1, LoopOfOneEnd
<1>8. Unopened'
  BY <1>1, <1>2, <1>3 DEF IInv, Unopened
<1> QED
  BY <1>5, <1>6, <1>7, <1>8 DEF IInv, TypeOK

(* The write of a handshake number is done.                                *)
LEMMA ValidationSentKeeps ==
  ASSUME IInv, NEW e \in Ends, ValidationSent(e)
  PROVE  IInv'
<1> DEFINE w2 == Tail(writing[e])
<1>0. "hs" \in Kinds /\ WriteDone(e, "hs")
  BY DEF Kinds, ValidationSent
<1>1. /\ writing[e] # <<>> /\ Head(writing[e]) = "hs"
      /\ writing[e] \in Seq(Kinds) /\ out_msg_queue_[e] \in Seq(Messages)
      /\ (sock[e] = "closed") \in BOOLEAN
  BY <1>0, WriteDoneFacts, LoopFacts
<1>2. w2 \in Seq(Kinds) /\ Len(w2) >= Len(Tail(writing[e]))
  BY <1>1
<1>3. LoopOK(w2, out_msg_queue_[e], sock[e] = "closed")
  BY <1>1, LoopFacts, LoopHandshake
<1>4. /\ reading' \in [Ends -> {"none", "hs", "hdr", "pl"}]
      /\ \A d \in Ends \ {e} : reading'[d] = reading[d]
  BY DEF IInv, TypeOK, ValidationSent, StartRead
<1>5. /\ writing' = [writing EXCEPT ![e] = w2]
      /\ out_msg_queue_' = [out_msg_queue_ EXCEPT ![e] = out_msg_queue_[e]]
  BY DEF IInv, TypeOK, ValidationSent
<1> HIDE DEF w2
<1> QED
  BY <1>0, <1>1, <1>2, <1>3, <1>4, <1>5, WriteDoneKeeps

(* An empty sequence has no length.                                        *)
LEMMA EmptyLen ==
  ASSUME NEW S, NEW s \in Seq(S)
  PROVE  s # <<>> <=> Len(s) > 0
  OBVIOUS

(* The front of the queue is written, and the loop goes on or ends.        *)
LEMMA NextMessageKeeps ==
  ASSUME IInv, NEW e \in Ends, NEW k \in {"hdr", "pl"}, WriteDone(e, k), NextMessage(e)
  PROVE  IInv'
<1> DEFINE t  == Tail(writing[e])
           q  == out_msg_queue_[e]
           q2 == Tail(q)
           c  == sock[e] = "closed"
           w2 == IF Len(q) > 1 THEN Started(e, t, "hdr") ELSE t
<1>0. k \in Kinds /\ k # "hs" /\ "hdr" \in Kinds
  BY DEF Kinds
<1>1. /\ writing[e] # <<>> /\ Head(writing[e]) = k /\ sock[e] # "none"
  BY <1>0, WriteDoneFacts
<1>2. /\ writing[e] \in Seq(Kinds) /\ q \in Seq(Messages) /\ c \in BOOLEAN
      /\ LoopOK(writing[e], q, c)
  BY LoopFacts
<1>3. q # <<>> /\ MessageWrites(t) = {}
  BY <1>0, <1>1, <1>2, LoopDone
<1>4. t \in Seq(Kinds) /\ q2 \in Seq(Messages) /\ (q2 # <<>> <=> Len(q) > 1)
  <2>1. t \in Seq(Kinds)
    BY <1>1, <1>2
  <2>2. q2 \in Seq(Messages) /\ Len(q2) = Len(q) - 1 /\ Len(q) \in Nat
    BY <1>2, <1>3
  <2>3. q2 # <<>> <=> Len(q2) > 0
    BY <2>2, EmptyLen
  <2> QED
    BY <2>1, <2>2, <2>3
<1>5. sock[e] \in {"open", "closed"}
  BY <1>1 DEF IInv, TypeOK
<1>6. /\ Len(q) > 1 /\ ~c => w2 = Append(t, "hdr")
      /\ Len(q) <= 1 \/ c => w2 = t
  BY <1>5, <1>2 DEF Started
<1>7. /\ writing' = [writing EXCEPT ![e] = w2]
      /\ out_msg_queue_' = [out_msg_queue_ EXCEPT ![e] = q2]
      /\ reading' = reading
  BY DEF IInv, TypeOK, NextMessage
<1> HIDE DEF t, q2, c, w2
<1>8. LoopOK(w2, q2, c)
  <2>1. CASE Len(q) > 1 /\ ~c
    BY <1>2, <1>3, <1>4, <1>6, <2>1, LoopStart
  <2>2. CASE Len(q) > 1 /\ c
    BY <1>2, <1>3, <1>4, <1>6, <2>2, LoopStart
  <2>3. CASE ~(Len(q) > 1)
    <3>1. q2 = <<>> /\ w2 = t
      BY <1>2, <1>4, <1>6, <2>3
    <3> QED
      BY <1>2, <1>3, <1>4, <3>1, LoopStart
  <2> QED
    BY <1>2, <2>1, <2>2, <2>3
<1>9. w2 \in Seq(Kinds) /\ Len(w2) >= Len(t)
  <2>1. w2 = Append(t, "hdr") \/ w2 = t
    BY <1>2, <1>6
  <2> QED
    BY <1>0, <1>4, <2>1
<1>10. /\ reading' \in [Ends -> {"none", "hs", "hdr", "pl"}]
       /\ \A d \in Ends \ {e} : reading'[d] = reading[d]
  BY <1>7 DEF IInv, TypeOK
<1> QED
  BY <1>0, <1>4, <1>7, <1>8, <1>9, <1>10, WriteDoneKeeps DEF t, c

(* WriteHeader's handler: the payload is next, or the next message is.     *)
LEMMA HeaderSentKeeps ==
  ASSUME IInv, NEW e \in Ends, HeaderSent(e)
  PROVE  IInv'
<1> DEFINE t == Tail(writing[e])
           q == out_msg_queue_[e]
           c == sock[e] = "closed"
           w2 == Started(e, t, "pl")
<1>0. "hdr" \in Kinds /\ "pl" \in Kinds /\ WriteDone(e, "hdr")
  BY DEF HeaderSent, Kinds
<1>1. CASE Head(q).payload # NoPayload
  <2>1. writing[e] # <<>> /\ Head(writing[e]) = "hdr" /\ sock[e] # "none"
    BY <1>0, WriteDoneFacts
  <2>2. /\ writing[e] \in Seq(Kinds) /\ q \in Seq(Messages) /\ c \in BOOLEAN
        /\ LoopOK(writing[e], q, c)
    BY LoopFacts
  <2>3. q # <<>> /\ MessageWrites(t) = {}
    BY <2>1, <2>2, LoopDone
  <2>4. t \in Seq(Kinds)
    BY <2>1, <2>2
  <2>5. sock[e] \in {"open", "closed"}
    BY <2>1 DEF IInv, TypeOK
  <2>6. (~c => w2 = Append(t, "pl")) /\ (c => w2 = t)
    BY <2>5 DEF Started
  <2>7. /\ writing' = [writing EXCEPT ![e] = w2]
        /\ out_msg_queue_' = [out_msg_queue_ EXCEPT ![e] = q]
        /\ reading' = reading
    BY <1>1 DEF IInv, TypeOK, HeaderSent
  <2> HIDE DEF t, c, w2
  <2>8. LoopOK(w2, q, c)
    BY <1>1, <2>2, <2>3, <2>4, <2>6, LoopStart
  <2>9. w2 \in Seq(Kinds) /\ Len(w2) >= Len(t)
    <3>1. w2 = Append(t, "pl") \/ w2 = t
      BY <2>2, <2>6
    <3> QED
      BY <1>0, <2>4, <3>1
  <2>10. /\ reading' \in [Ends -> {"none", "hs", "hdr", "pl"}]
         /\ \A d \in Ends \ {e} : reading'[d] = reading[d]
    BY <2>7 DEF IInv, TypeOK
  <2> QED
    BY <1>0, <2>2, <2>7, <2>8, <2>9, <2>10, WriteDoneKeeps DEF t, c
<1>2. CASE ~(Head(q).payload # NoPayload)
  <2>1. NextMessage(e)
    BY <1>2 DEF HeaderSent
  <2> QED
    BY <1>0, <2>1, NextMessageKeeps
<1> QED
  BY <1>1, <1>2

(* writePayload's handler.                                                 *)
LEMMA PayloadSentKeeps ==
  ASSUME IInv, NEW e \in Ends, PayloadSent(e)
  PROVE  IInv'
  BY NextMessageKeeps DEF PayloadSent

(* A unit goes on the wire.                                                *)
LEMMA TransferKeeps ==
  ASSUME IInv, NEW e \in Ends, Transfer(e)
  PROVE  IInv'
<1> DEFINE what == writing[e][flushed[e] + 1]
<1>1. /\ flushed[e] \in Nat /\ flushed[e] < Len(writing[e])
      /\ writing[e] \in Seq(Kinds)
      /\ flushed' = [flushed EXCEPT ![e] = @ + 1]
      /\ flushed \in [Ends -> Nat] /\ \A d \in Ends : flushed[d] <= Len(writing[d])
  BY DEF IInv, TypeOK, Transfer
<1>2. flushed[e] + 1 \in DOMAIN writing[e] /\ what \in Kinds
  BY <1>1
<1>3. /\ what # "hs" => out_msg_queue_[e] # <<>>
      /\ what = "pl" => Head(out_msg_queue_[e]).payload # NoPayload
  <2>1. what # "hs" => flushed[e] + 1 \in MessageWrites(writing[e])
    BY <1>2 DEF MessageWrites
  <2> QED
    BY <2>1, LoopFacts DEF LoopOK
<1> HIDE DEF what
<1>4. Unit(e, what) \in Units
  BY <1>2, <1>3, UnitIsTyped DEF IInv, Kinds
<1>5. wire' \in [Ends -> Seq(Units)]
  <2>1. wire \in [Ends -> Seq(Units)] /\ Peer(e) \in Ends
    BY DEF IInv, TypeOK, Peer
  <2>2. \/ wire' = wire
        \/ wire' = [wire EXCEPT ![Peer(e)] = Append(@, Unit(e, what))]
    BY DEF Transfer, what
  <2>3. [wire EXCEPT ![Peer(e)] = Append(@, Unit(e, what))] \in [Ends -> Seq(Units)]
    BY <1>4, <2>1, AppendType
  <2> QED
    BY <2>1, <2>2, <2>3
<1>6. flushed' \in [Ends -> Nat] /\ \A d \in Ends : flushed'[d] <= Len(writing[d])
  BY <1>1
<1>7. (SidesType /\ WireType /\ IoType /\ HsType /\ HistType)'
  BY <1>5, <1>6 DEF IInv, TypeOK, Transfer
<1>8. (RunType /\ FlagType)'
  BY Zenon DEF IInv, TypeOK, Transfer
<1>9. WriteLoop' /\ Unopened'
  BY DEF IInv, WriteLoop, Unopened, Transfer
<1> QED
  BY <1>7, <1>8, <1>9 DEF IInv, TypeOK

(* A read has succeeded, with a unit of the wire.                          *)
LEMMA ReadDoneFacts ==
  ASSUME IInv, NEW e \in Ends, NEW k \in Kinds, ReadDone(e, k)
  PROVE  /\ wire' \in [Ends -> Seq(Units)]
         /\ Head(wire[e]) \in Units
         /\ sock[e] # "none"
         /\ link' = link
<1>1. wire \in [Ends -> Seq(Units)] /\ wire[e] # <<>> /\ link' = link
  BY DEF IInv, TypeOK, ReadDone
<1>2. wire' = [wire EXCEPT ![e] = Tail(@)]
  BY DEF ReadDone
<1>3. wire' \in [Ends -> Seq(Units)] /\ Head(wire[e]) \in Units
  BY <1>1, <1>2, TailType
<1>4. reading[e] # "none"
  BY DEF ReadDone, Kinds
<1> QED
  BY <1>1, <1>3, <1>4 DEF IInv, Unopened

(* The client solves the puzzle and starts the write of the solution.      *)
LEMMA SolvePuzzleKeeps == IInv /\ SolvePuzzle => IInv'
<1> SUFFICES ASSUME IInv, SolvePuzzle PROVE IInv'
  OBVIOUS
<1> DEFINE e  == "client"
           ws == writing[e]
           w2 == Started(e, ws, "hs")
           c  == sock[e] = "closed"
<1>0. e \in Ends /\ "hs" \in Kinds /\ ReadDone(e, "hs")
  BY DEF Kinds, SolvePuzzle
<1>1. wire' \in [Ends -> Seq(Units)] /\ Head(wire[e]) \in Units /\ sock[e] # "none" /\ link' = link
  BY <1>0, ReadDoneFacts
<1>2. handshake_out_' \in [Ends -> Numbers]
  <2>1. PICK x \in NumberOf(Head(wire[e])) :
           handshake_out_' = [handshake_out_ EXCEPT ![e] = Encrypt(key, x)]
    BY DEF SolvePuzzle
  <2>2. x \in Numbers /\ key \in Keys
    BY <1>1, UnitType DEF IInv, TypeOK
  <2>3. Encrypt(key, x) \in Numbers
    BY <2>2, BuildAssumption
  <2> QED
    BY <2>1, <2>3 DEF IInv, TypeOK
<1>3. ws \in Seq(Kinds) /\ out_msg_queue_[e] \in Seq(Messages) /\ c \in BOOLEAN
      /\ LoopOK(ws, out_msg_queue_[e], c)
  BY <1>0, LoopFacts
<1>4. w2 = ws \/ w2 = Append(ws, "hs")
  BY DEF Started
<1>5. w2 \in Seq(Kinds) /\ Len(w2) >= Len(ws) /\ Len(w2) \in Nat /\ Len(ws) \in Nat
  <2> HIDE DEF ws, w2
  <2> QED
    BY <1>0, <1>3, <1>4, GrownWrites
<1>6. /\ writing' = [writing EXCEPT ![e] = w2]
      /\ UNCHANGED <<sides, posted, flushed, out_msg_queue_, tmp_input_msg_, key, sent,
                     received, handled, announced>>
      /\ reading' = [reading EXCEPT ![e] = "none"]
  BY DEF SolvePuzzle
<1> HIDE DEF ws, w2, c
<1>7. LoopOK(w2, out_msg_queue_[e], c)
  BY <1>3, <1>4, LoopHandshake
<1>8. \A d \in Ends : writing'[d] = IF d = e THEN w2 ELSE writing[d]
  BY <1>6 DEF IInv, TypeOK
<1>9. writing' \in [Ends -> Seq(Kinds)]
  BY <1>5, <1>6 DEF IInv, TypeOK
<1>10. \A d \in Ends : flushed[d] <= Len(writing'[d])
  <2>1. \A d \in Ends : flushed[d] <= Len(writing[d])
    BY DEF IInv, TypeOK
  <2>2. flushed[e] \in Nat /\ flushed[e] <= Len(w2)
    <3>1. flushed[e] \in Nat /\ flushed[e] <= Len(ws)
      BY <1>0, <2>1 DEF IInv, TypeOK, ws
    <3> QED
      BY <1>5, <3>1
  <2> QED
    BY <1>8, <2>1, <2>2
<1>11. (SidesType /\ WireType /\ IoType /\ HsType /\ HistType)'
  <2>1. (SidesType /\ WireType /\ HsType /\ HistType)'
    BY <1>1, <1>2, <1>6 DEF IInv, TypeOK
  <2>2. IoType'
    BY <1>6, <1>9, <1>10 DEF IInv, TypeOK
  <2> QED
    BY <2>1, <2>2
<1>12. (RunType /\ FlagType)'
  BY Zenon DEF IInv, TypeOK, SolvePuzzle
<1>13. WriteLoop'
  <2>1. LoopOK(writing'[e], out_msg_queue_'[e], sock'[e] = "closed")
    BY <1>0, <1>6, <1>7, <1>8 DEF c
  <2> QED
    BY <1>0, <1>6, <1>8, <2>1, LoopOfOneEnd
<1>14. Unopened'
  BY <1>1, <1>6, <1>8 DEF IInv, TypeOK, Unopened
<1> QED
  BY <1>11, <1>12, <1>13, <1>14 DEF IInv, TypeOK

(* The server checks the solution, and closes if it is wrong.              *)
LEMMA CheckPuzzleKeeps == IInv /\ CheckPuzzle => IInv'
<1> SUFFICES ASSUME IInv, CheckPuzzle PROVE IInv'
  OBVIOUS
<1>0. "hs" \in Kinds /\ ReadDone("server", "hs")
  BY DEF Kinds, CheckPuzzle
<1>1. wire' \in [Ends -> Seq(Units)] /\ sock["server"] # "none" /\ link' = link
  BY <1>0, ReadDoneFacts
<1>2. /\ reading' \in [Ends -> {"none", "hs", "hdr", "pl"}]
      /\ reading'["client"] = reading["client"]
  <2>1. \E k \in {"none", "hdr"} : reading' = [reading EXCEPT !["server"] = k]
    <3>1. StartRead("server", "hdr") \/ reading' = [reading EXCEPT !["server"] = "none"]
      BY DEF CheckPuzzle
    <3> QED
      BY <3>1 DEF StartRead
  <2> QED
    BY <2>1 DEF IInv, TypeOK
<1>3. sock' = sock \/ sock' = [sock EXCEPT !["server"] = "closed"]
  BY DEF CheckPuzzle, Close
<1>4. /\ UNCHANGED <<connecting, running, phase, posted, writing, flushed, out_msg_queue_,
                     tmp_input_msg_, handshake_out_, key, hist>>
  BY DEF CheckPuzzle
<1>5. (SidesType /\ WireType /\ IoType /\ HsType /\ HistType)'
  BY <1>1, <1>2, <1>3, <1>4 DEF IInv, TypeOK
<1>6. (RunType /\ FlagType)'
  <2>1. validated' \in BOOLEAN /\ rejected' \in BOOLEAN
    BY Zenon DEF IInv, TypeOK, CheckPuzzle
  <2> QED
    BY <1>4, <2>1, Zenon DEF IInv, TypeOK
<1>7. WriteLoop'
  <2>1. CASE sock' = sock
    BY <1>4, <2>1 DEF IInv, WriteLoop
  <2>2. CASE sock' = [sock EXCEPT !["server"] = "closed"]
    <3>1. LoopOK(writing["server"], out_msg_queue_["server"], TRUE)
      BY LoopFacts, LoopClose
    <3>2. (sock'["server"] = "closed") = TRUE /\ sock'["client"] = sock["client"]
      BY <2>2 DEF IInv, TypeOK
    <3>3. LoopOK(writing'["server"], out_msg_queue_'["server"], sock'["server"] = "closed")
      BY <1>4, <3>1, <3>2
    <3> QED
      BY <1>4, <3>2, <3>3, LoopOfOneEnd
  <2> QED
    BY <1>3, <2>1, <2>2
<1>8. Unopened'
  BY <1>1, <1>2, <1>3, <1>4 DEF IInv, TypeOK, Unopened
<1> QED
  BY <1>5, <1>6, <1>7, <1>8 DEF IInv, TypeOK

(* A message arrives, in part or completely.                               *)
LEMMA ReadMessageKeeps ==
  ASSUME IInv, NEW e \in Ends, ReadHeader(e) \/ ReadPayload(e)
  PROVE  IInv'
<1>0. "hdr" \in Kinds /\ "pl" \in Kinds /\ (ReadDone(e, "hdr") \/ ReadDone(e, "pl"))
  BY DEF Kinds, ReadHeader, ReadPayload
<1>1. wire' \in [Ends -> Seq(Units)] /\ Head(wire[e]) \in Units /\ sock[e] # "none" /\ link' = link
  BY <1>0, ReadDoneFacts
<1>2. PICK m : /\ m \in Messages
               /\ tmp_input_msg_' = [tmp_input_msg_ EXCEPT ![e] = m]
               /\ \/ received' = received
                  \/ received' = [received EXCEPT ![e] = Append(@, m)]
  <2>0. tmp_input_msg_[e] \in Messages
    BY DEF IInv, TypeOK
  <2>1. CASE ReadHeader(e)
    <3>1. PICK h \in HeaderOf(Head(wire[e])) :
             LET m == [tmp_input_msg_[e] EXCEPT !.id = h[1], !.size = h[2]] IN
             IF m.size > 0
             THEN /\ tmp_input_msg_' = [tmp_input_msg_ EXCEPT ![e] = m]
                  /\ StartRead(e, "pl")
                  /\ UNCHANGED received
             ELSE AddToIncomingMsgQueue(e, m)
      BY <2>1 DEF ReadHeader
    <3> DEFINE m == [tmp_input_msg_[e] EXCEPT !.id = h[1], !.size = h[2]]
    <3>2. h \in Ids \X {0, 1}
      BY <1>1, UnitType
    <3>3. m \in Messages
      BY <2>0, <3>2 DEF Messages
    <3> QED
      BY <3>1, <3>3 DEF AddToIncomingMsgQueue
  <2>2. CASE ReadPayload(e)
    <3>1. PICK p \in PayloadOf(Head(wire[e])) :
             AddToIncomingMsgQueue(e, [tmp_input_msg_[e] EXCEPT !.payload = p])
      BY <2>2 DEF ReadPayload
    <3>2. p \in Payloads \cup {NoPayload}
      BY <1>1, UnitType
    <3>3. [tmp_input_msg_[e] EXCEPT !.payload = p] \in Messages
      BY <2>0, <3>2 DEF Messages
    <3> QED
      BY <3>1, <3>3 DEF AddToIncomingMsgQueue
  <2> QED
    BY <2>1, <2>2
<1>3. received' \in [Ends -> Seq(Messages)] /\ \A d \in Ends \ {e} : received'[d] = received[d]
  <2>1. received \in [Ends -> Seq(Messages)]
    BY DEF IInv, TypeOK
  <2>2. CASE received' = received
    BY <2>1, <2>2
  <2>3. CASE received' = [received EXCEPT ![e] = Append(@, m)]
    <3>1. received' \in [Ends -> Seq(Messages)]
      BY <1>2, <2>1, <2>3, AppendType
    <3> QED
      BY <2>1, <2>3, <3>1
  <2> QED
    BY <1>2, <2>2, <2>3
<1>4. tmp_input_msg_' \in [Ends -> Messages]
  BY <1>2 DEF IInv, TypeOK
<1>5. /\ reading' \in [Ends -> {"none", "hs", "hdr", "pl"}]
      /\ \A d \in Ends \ {e} : reading'[d] = reading[d]
  <2>1. \E k \in {"none", "hs", "hdr", "pl"} : reading' = [reading EXCEPT ![e] = k]
    <3>1. StartRead(e, "hdr") \/ StartRead(e, "pl")
      BY DEF ReadHeader, ReadPayload, AddToIncomingMsgQueue
    <3> QED
      BY <3>1 DEF StartRead
  <2> QED
    BY <2>1 DEF IInv, TypeOK
<1>6. UNCHANGED <<sides, posted, writing, flushed, out_msg_queue_, hs, sent, handled,
                  announced, solved, early>>
  BY DEF ReadHeader, ReadPayload
<1>7. (SidesType /\ WireType /\ IoType /\ HsType /\ HistType)'
  BY <1>1, <1>3, <1>4, <1>5, <1>6 DEF IInv, TypeOK
<1>8. (RunType /\ FlagType)'
  BY <1>6, Zenon DEF IInv, TypeOK
<1>9. WriteLoop'
  BY <1>6 DEF IInv, WriteLoop
<1>10. Unopened'
  BY <1>1, <1>3, <1>5, <1>6 DEF IInv, Unopened
<1> QED
  BY <1>7, <1>8, <1>9, <1>10 DEF IInv, TypeOK

(* IInv is inductive: every step keeps it.                                 *)
LEMMA NextIInv == IInv /\ [Next]_vars => IInv'
<1> SUFFICES ASSUME IInv, [Next]_vars PROVE IInv'
  OBVIOUS
<1>1. \A p \in Payloads : Message("ServerPing", p) \in Messages
  BY MessageType DEF Ids
<1>2. Message("MessageAll", NoPayload) \in Messages
  BY MessageType DEF Ids
<1>3. CASE \/ Connect \/ Disconnect \/ Stop
           \/ \E p \in Payloads : Send(Message("ServerPing", p)) \/ Announce(p)
           \/ Send(Message("MessageAll", NoPayload))
  BY <1>1, <1>2, <1>3, ConnectKeeps, DisconnectKeeps, QuietKeeps, SendKeeps, AnnounceKeeps
<1>4. CASE \/ TcpStep \/ LinkFails \/ ConnectHandler \/ Accept \/ RunReturns \/ Handle
           \/ UNCHANGED vars
  BY <1>4, QuietKeeps, ConnectHandlerKeeps, AcceptKeeps, HandleKeeps DEF TcpStep
<1>5. ASSUME NEW e \in Ends, ReadStep(e) PROVE IInv'
  BY <1>5, SolvePuzzleKeeps, CheckPuzzleKeeps, ReadMessageKeeps, CloseKeeps DEF ReadStep
<1>6. ASSUME NEW e \in Ends, Handlers(e) PROVE IInv'
  BY <1>6, RunSendKeeps, CloseKeeps, ValidationSentKeeps, HeaderSentKeeps, PayloadSentKeeps
     DEF Handlers
<1>7. ASSUME NEW e \in Ends, WriteStep(e) PROVE IInv'
  BY <1>7, TransferKeeps, WriteFailsKeeps DEF WriteStep
<1> QED
  BY <1>3, <1>4, <1>5, <1>6, <1>7 DEF Next

(* IInv holds in every reachable state.                                    *)
THEOREM Inductive == Spec => []IInv
<1>1. Init => IInv
  BY InitIInv
<1>2. IInv /\ [Next]_vars => IInv'
  BY NextIInv
<1> QED
  BY <1>1, <1>2, PTL DEF Spec

(* Types: the handlers keep every queue, buffer and count what it is.      *)
THEOREM TypeCorrect == Spec => []TypeOK
<1>1. IInv => TypeOK
  BY DEF IInv
<1> QED
  BY <1>1, Inductive, PTL

(* The queue's emptiness, which SendData's handler tests, tells exactly    *)
(* whether a write loop is running, for any number of messages: at most    *)
(* one message write is outstanding, and none is missing.                  *)
THEOREM OneWriteLoop == Spec => []WriteLoop
<1>1. IInv => WriteLoop
  BY DEF IInv
<1> QED
  BY <1>1, Inductive, PTL

-----------------------------------------------------------------------------
(***************************************************************************)
(* Proofs about what a connection delivers: that the handshake comes       *)
(* first, that every read meets the unit it is meant for, and that the     *)
(* messages arrive as they were given to SendData, for every number of     *)
(* messages, every set of payloads and every encrypt_handshake_data.       *)
(*                                                                         *)
(* The units on the wire are a stretch of the stream that the messages of  *)
(* `sent` make.  It begins where the reader is and ends where the writer   *)
(* is; a read moves its beginning, a write its end, and everything else    *)
(* leaves it alone.                                                        *)
(***************************************************************************)
HIDE DEF net, sides, io, hs, hist, Ends, SidesType, RunType, WireType, IoType, HsType,
         FlagType, HistType

-----------------------------------------------------------------------------
(* Places in the stream of units that the messages S make: the header or   *)
(* the payload of the n-th message.                                        *)
Places == {"hdr", "pl"} \X (Nat \ {0})
UnitAt(p, S) == IF p[1] = "hdr" THEN <<"hdr", S[p[2]].id, S[p[2]].size>>
                ELSE <<"pl", S[p[2]].payload>>
After(p, S) == IF p[1] = "hdr" /\ S[p[2]].payload # NoPayload THEN <<"pl", p[2]>>
               ELSE <<"hdr", p[2] + 1>>

(* w is the stretch of that stream from place a up to place b.             *)
Passes(f, w, S) == \A i \in 1..Len(w) : /\ f[i][2] \in DOMAIN S
                                        /\ w[i] = UnitAt(f[i], S)
                                        /\ f[i + 1] = After(f[i], S)
Stretch(w, a, b, S) ==
    \E f \in [1..(Len(w) + 1) -> Places] : f[1] = a /\ f[Len(w) + 1] = b /\ Passes(f, w, S)

(* After every place comes a place.                                        *)
LEMMA AfterPlace ==
  ASSUME NEW S, NEW p \in Places
  PROVE  After(p, S) \in Places
  BY DEF Places, After

(* The stretch of nothing.                                                 *)
LEMMA StretchEmpty ==
  ASSUME NEW S, NEW a \in Places
  PROVE  Stretch(<< >>, a, a, S)
<1> DEFINE f == [i \in 1..1 |-> a]
<1>1. f \in [1..(Len(<< >>) + 1) -> Places] /\ f[1] = a /\ f[Len(<< >>) + 1] = a
  OBVIOUS
<1>2. Passes(f, << >>, S)
  BY DEF Passes
<1> QED
  BY <1>1, <1>2 DEF Stretch

(* A write prolongs a stretch at its end.                                  *)
LEMMA StretchAppend ==
  ASSUME NEW U, NEW S, NEW w \in Seq(U), NEW a \in Places, NEW b \in Places,
         Stretch(w, a, b, S), b[2] \in DOMAIN S, NEW u \in U, u = UnitAt(b, S)
  PROVE  Stretch(Append(w, u), a, After(b, S), S)
<1> DEFINE n == Len(w)
           v == Append(w, u)
<1>1. n \in Nat
  OBVIOUS
<1>2. PICK f \in [1..(n + 1) -> Places] : f[1] = a /\ f[n + 1] = b /\ Passes(f, w, S)
  BY DEF Stretch
<1> DEFINE g == [i \in 1..(n + 2) |-> IF i = n + 2 THEN After(b, S) ELSE f[i]]
<1>3. Len(v) = n + 1 /\ v[n + 1] = u /\ \A i \in 1..n : v[i] = w[i]
  OBVIOUS
<1> HIDE DEF n, v
<1>4. g \in [1..(n + 2) -> Places] /\ g[n + 2] = After(b, S)
      /\ \A i \in 1..(n + 1) : g[i] = f[i]
  BY <1>1, AfterPlace
<1> HIDE DEF g
<1>5. ASSUME NEW i \in 1..(n + 1)
      PROVE  g[i][2] \in DOMAIN S /\ v[i] = UnitAt(g[i], S) /\ g[i + 1] = After(g[i], S)
  <2>1. CASE i = n + 1
    <3>1. i + 1 = n + 2 /\ g[i] = b
      BY <1>1, <1>2, <1>4, <2>1
    <3> QED
      BY <1>3, <1>4, <2>1, <3>1
  <2>2. CASE i # n + 1
    <3>1. i \in 1..n /\ i + 1 \in 1..(n + 1) /\ i \in 1..(n + 1)
      BY <1>1, <2>2
    <3>2. g[i] = f[i] /\ g[i + 1] = f[i + 1] /\ v[i] = w[i]
      BY <1>3, <1>4, <3>1
    <3>3. f[i][2] \in DOMAIN S /\ w[i] = UnitAt(f[i], S) /\ f[i + 1] = After(f[i], S)
      BY <1>2, <3>1 DEF Passes, n
    <3> QED
      BY <3>2, <3>3
  <2> QED
    BY <2>1, <2>2
<1>6. Passes(g, v, S)
  BY <1>3, <1>5 DEF Passes
<1>7. Len(v) + 1 = n + 2 /\ 1 \in 1..(n + 1)
  BY <1>1, <1>3
<1>8. g[1] = a
  BY <1>2, <1>4, <1>7
<1> QED
  BY <1>4, <1>6, <1>7, <1>8 DEF Stretch, v

(* A read shortens a stretch at its beginning.                             *)
LEMMA StretchTail ==
  ASSUME NEW U, NEW S, NEW w \in Seq(U), w # << >>, NEW a \in Places, NEW b \in Places,
         Stretch(w, a, b, S)
  PROVE  /\ a[2] \in DOMAIN S /\ Head(w) = UnitAt(a, S)
         /\ Stretch(Tail(w), After(a, S), b, S)
<1> DEFINE n == Len(w)
           v == Tail(w)
<1>1. n \in Nat \ {0} /\ Len(v) = n - 1 /\ Head(w) = w[1] /\ \A i \in 1..(n - 1) : v[i] = w[i + 1]
  OBVIOUS
<1>2. PICK f \in [1..(n + 1) -> Places] : f[1] = a /\ f[n + 1] = b /\ Passes(f, w, S)
  BY DEF Stretch
<1>3. \A i \in 1..n : f[i][2] \in DOMAIN S /\ w[i] = UnitAt(f[i], S) /\ f[i + 1] = After(f[i], S)
  BY <1>2 DEF Passes
<1> HIDE DEF n, v
<1> DEFINE g == [i \in 1..n |-> f[i + 1]]
<1>4. g \in [1..n -> Places] /\ \A i \in 1..n : g[i] = f[i + 1]
  BY <1>1
<1> HIDE DEF g
<1>5. 1 \in 1..n /\ n \in 1..n /\ Len(v) + 1 = n
  BY <1>1
<1>6. a[2] \in DOMAIN S /\ Head(w) = UnitAt(a, S) /\ f[2] = After(a, S)
  BY <1>1, <1>2, <1>3, <1>5
<1>7. g[1] = After(a, S) /\ g[n] = b
  BY <1>1, <1>2, <1>4, <1>5, <1>6
<1>8. ASSUME NEW i \in 1..(n - 1)
      PROVE  g[i][2] \in DOMAIN S /\ v[i] = UnitAt(g[i], S) /\ g[i + 1] = After(g[i], S)
  <2>1. i \in 1..n /\ i + 1 \in 1..n
    BY <1>1
  <2> QED
    BY <1>1, <1>3, <1>4, <2>1
<1>9. Passes(g, v, S)
  BY <1>1, <1>8 DEF Passes
<1>10. Stretch(v, After(a, S), b, S)
  BY <1>4, <1>5, <1>7, <1>9 DEF Stretch
<1> QED
  BY <1>6, <1>10 DEF v

(* More messages at the end of the stream leave a stretch where it is.     *)
LEMMA StretchGrows ==
  ASSUME NEW M, NEW S \in Seq(M), NEW m \in M, NEW w, NEW a, NEW b, Stretch(w, a, b, S)
  PROVE  Stretch(w, a, b, Append(S, m))
<1> DEFINE T == Append(S, m)
<1>1. \A i \in DOMAIN S : i \in DOMAIN T /\ T[i] = S[i]
  OBVIOUS
<1>2. PICK f \in [1..(Len(w) + 1) -> Places] :
         f[1] = a /\ f[Len(w) + 1] = b /\ Passes(f, w, S)
  BY DEF Stretch
<1> HIDE DEF T
<1>3. Passes(f, w, T)
  BY <1>1, <1>2 DEF Passes, UnitAt, After
<1> QED
  BY <1>2, <1>3 DEF Stretch, T

-----------------------------------------------------------------------------
(* One end's messages: S given to SendData, P posted, Q in out_msg_queue_. *)

(* How many posted messages wait; a close is posted last.                  *)
WaitingIn(P) == IF P # << >> /\ P[Len(P)][1] = "close" THEN Len(P) - 1 ELSE Len(P)

(* How many messages are written for good.                                 *)
DoneOf(S, P, Q) == Len(S) - WaitingIn(P) - Len(Q)

(* What is not written for good is in the queue, then among what was       *)
(* posted, in the order of the calls.                                      *)
QueueOrder(S, P, Q) ==
    /\ DoneOf(S, P, Q) \in Nat
    /\ \A i \in 1..Len(Q) : Q[i] = S[DoneOf(S, P, Q) + i]
    /\ \A i \in 1..WaitingIn(P) : P[i] = <<"send", S[DoneOf(S, P, Q) + Len(Q) + i]>>
    /\ \A i \in 1..Len(P) : P[i][1] = "close" => i = Len(P)

NoClose(P) == \A i \in 1..Len(P) : P[i][1] # "close"

(* Without a close, everything posted is a message.                        *)
LEMMA WaitingAll ==
  ASSUME NEW P \in Seq(Posts), NoClose(P)
  PROVE  WaitingIn(P) = Len(P)
  BY DEF NoClose, WaitingIn

(* SendData.                                                               *)
LEMMA OrderSend ==
  ASSUME NEW S \in Seq(Messages), NEW P \in Seq(Posts), NEW Q \in Seq(Messages),
         NEW m \in Messages, QueueOrder(S, P, Q), NoClose(P)
  PROVE  /\ QueueOrder(Append(S, m), Append(P, <<"send", m>>), Q)
         /\ DoneOf(Append(S, m), Append(P, <<"send", m>>), Q) = DoneOf(S, P, Q)
         /\ NoClose(Append(P, <<"send", m>>))
<1> DEFINE S2 == Append(S, m)
           x  == <<"send", m>>
           P2 == Append(P, x)
           n  == DoneOf(S, P, Q)
<1>1. x \in Posts /\ x[1] # "close"
  BY PostType
<1>2. /\ Len(S) \in Nat /\ Len(P) \in Nat /\ Len(Q) \in Nat
      /\ Len(S2) = Len(S) + 1 /\ S2[Len(S) + 1] = m /\ \A i \in 1..Len(S) : S2[i] = S[i]
  OBVIOUS
<1>3. /\ P2 \in Seq(Posts) /\ Len(P2) = Len(P) + 1 /\ P2[Len(P) + 1] = x
      /\ \A i \in 1..Len(P) : P2[i] = P[i]
  BY <1>1
<1> HIDE DEF S2, P2, x
<1>4. NoClose(P2)
  BY <1>1, <1>2, <1>3 DEF NoClose
<1>5. WaitingIn(P) = Len(P) /\ WaitingIn(P2) = Len(P) + 1
  BY <1>3, <1>4, WaitingAll
<1>6. DoneOf(S2, P2, Q) = n /\ n \in Nat /\ n = Len(S) - Len(P) - Len(Q)
  BY <1>2, <1>5 DEF DoneOf, QueueOrder
<1>7. /\ \A i \in 1..Len(Q) : Q[i] = S[n + i]
      /\ \A i \in 1..Len(P) : P[i] = <<"send", S[n + Len(Q) + i]>>
  BY <1>5 DEF QueueOrder
<1> HIDE DEF n
<1>8. ASSUME NEW i \in 1..Len(Q) PROVE Q[i] = S2[n + i]
  <2>1. n + i \in 1..Len(S)
    BY <1>2, <1>6
  <2> QED
    BY <1>2, <1>7, <2>1
<1>9. ASSUME NEW i \in 1..(Len(P) + 1) PROVE P2[i] = <<"send", S2[n + Len(Q) + i]>>
  <2>1. CASE i = Len(P) + 1
    <3>1. n + Len(Q) + i = Len(S) + 1
      BY <1>2, <1>6, <2>1
    <3> QED
      BY <1>2, <1>3, <2>1, <3>1 DEF x
  <2>2. CASE i # Len(P) + 1
    <3>1. i \in 1..Len(P) /\ n + Len(Q) + i \in 1..Len(S)
      BY <1>2, <1>6, <2>2
    <3> QED
      BY <1>2, <1>3, <1>7, <3>1
  <2> QED
    BY <2>1, <2>2
<1>10. QueueOrder(S2, P2, Q)
  BY <1>4, <1>5, <1>6, <1>8, <1>9 DEF QueueOrder, NoClose
<1> QED
  BY <1>4, <1>6, <1>10 DEF S2, P2, x, n

(* Disconnect posts the close.                                             *)
LEMMA OrderPostClose ==
  ASSUME NEW S \in Seq(Messages), NEW P \in Seq(Posts), NEW Q \in Seq(Messages),
         QueueOrder(S, P, Q), NoClose(P)
  PROVE  /\ QueueOrder(S, Append(P, <<"close">>), Q)
         /\ DoneOf(S, Append(P, <<"close">>), Q) = DoneOf(S, P, Q)
<1> DEFINE x  == <<"close">>
           P2 == Append(P, x)
           n  == DoneOf(S, P, Q)
<1>1. x \in Posts /\ x[1] = "close"
  BY PostType
<1>2. /\ P2 \in Seq(Posts) /\ Len(P2) = Len(P) + 1 /\ P2[Len(P) + 1] = x /\ P2 # << >>
      /\ \A i \in 1..Len(P) : P2[i] = P[i]
  BY <1>1
<1> HIDE DEF P2, x
<1>3. Len(P) \in Nat /\ Len(S) \in Nat /\ Len(Q) \in Nat /\ WaitingIn(P) = Len(P)
  BY WaitingAll
<1>4. WaitingIn(P2) = Len(P)
  BY <1>1, <1>2, <1>3 DEF WaitingIn
<1>5. DoneOf(S, P2, Q) = n
  BY <1>3, <1>4 DEF DoneOf
<1>6. /\ n \in Nat /\ \A i \in 1..Len(Q) : Q[i] = S[n + i]
      /\ \A i \in 1..Len(P) : P[i] = <<"send", S[n + Len(Q) + i]>>
  BY <1>3 DEF QueueOrder
<1> HIDE DEF n
<1>7. \A i \in 1..Len(P) : P2[i] = <<"send", S[n + Len(Q) + i]>>
  BY <1>2, <1>6
<1>8. ASSUME NEW i \in 1..Len(P2), P2[i][1] = "close" PROVE i = Len(P2)
  <2>1. i \in 1..Len(P) => P2[i][1] # "close"
    BY <1>2 DEF NoClose
  <2> QED
    BY <1>2, <1>3, <1>8, <2>1
<1>9. QueueOrder(S, P2, Q)
  BY <1>4, <1>5, <1>6, <1>7, <1>8 DEF QueueOrder
<1> QED
  BY <1>5, <1>9 DEF P2, x, n

(* The oldest posted handler is taken.                                     *)
LEMMA TailFacts ==
  ASSUME NEW T, NEW P \in Seq(T), P # << >>
  PROVE  /\ Len(P) \in Nat \ {0} /\ Head(P) = P[1] /\ Head(P) \in T
         /\ Tail(P) \in Seq(T) /\ Len(Tail(P)) = Len(P) - 1
         /\ \A i \in 1..(Len(P) - 1) : Tail(P)[i] = P[i + 1]
  OBVIOUS

(* The handler that SendData posted queues its message.                    *)
LEMMA OrderRunSend ==
  ASSUME NEW S \in Seq(Messages), NEW P \in Seq(Posts), NEW Q \in Seq(Messages),
         QueueOrder(S, P, Q), P # << >>, Head(P)[1] = "send"
  PROVE  /\ Head(P)[2] \in Messages
         /\ QueueOrder(S, Tail(P), Append(Q, Head(P)[2]))
         /\ DoneOf(S, Tail(P), Append(Q, Head(P)[2])) = DoneOf(S, P, Q)
         /\ DoneOf(S, P, Q) + Len(Q) + 1 \in 1..Len(S)
<1> DEFINE m  == Head(P)[2]
           P2 == Tail(P)
           Q2 == Append(Q, m)
           n  == DoneOf(S, P, Q)
<1>1. /\ Len(P) \in Nat \ {0} /\ Head(P) = P[1] /\ Head(P) \in Posts
      /\ P2 \in Seq(Posts) /\ Len(P2) = Len(P) - 1 /\ \A i \in 1..(Len(P) - 1) : P2[i] = P[i + 1]
  BY TailFacts
<1>2. m \in Messages
  BY <1>1, PostType
<1>3. /\ Q2 \in Seq(Messages) /\ Len(Q) \in Nat /\ Len(Q2) = Len(Q) + 1 /\ Q2[Len(Q) + 1] = m
      /\ \A i \in 1..Len(Q) : Q2[i] = Q[i]
  BY <1>2
<1> HIDE DEF m, P2, Q2
<1>4. Len(S) \in Nat
  OBVIOUS
<1>5. P2 = << >> <=> Len(P) = 1
  <2>1. P2 # << >> <=> Len(P2) > 0
    BY <1>1, EmptyLen
  <2> QED
    BY <1>1, <2>1
<1>6. WaitingIn(P) \in Nat \ {0} /\ WaitingIn(P2) = WaitingIn(P) - 1
  <2>1. CASE Len(P) = 1
    BY <1>1, <1>5, <2>1 DEF WaitingIn
  <2>2. CASE Len(P) # 1
    <3>1. Len(P) - 1 \in 1..(Len(P) - 1) /\ P2 # << >>
      BY <1>1, <1>5, <2>2
    <3>2. P2[Len(P2)] = P[Len(P)]
      BY <1>1, <3>1
    <3> QED
      BY <1>1, <2>2, <3>1, <3>2 DEF WaitingIn
  <2> QED
    BY <2>1, <2>2
<1>7. DoneOf(S, P2, Q2) = n
  <2>1. /\ DoneOf(S, P2, Q2) = Len(S) - WaitingIn(P2) - Len(Q2)
        /\ n = Len(S) - WaitingIn(P) - Len(Q)
    BY DEF DoneOf
  <2> HIDE DEF n
  <2> QED
    BY <1>3, <1>4, <1>6, <2>1
<1>8. /\ n \in Nat /\ n = Len(S) - WaitingIn(P) - Len(Q)
      /\ \A i \in 1..Len(Q) : Q[i] = S[n + i]
      /\ \A i \in 1..WaitingIn(P) : P[i] = <<"send", S[n + Len(Q) + i]>>
      /\ \A i \in 1..Len(P) : P[i][1] = "close" => i = Len(P)
  BY DEF QueueOrder, DoneOf
<1> HIDE DEF n
<1>9. m = S[n + Len(Q) + 1] /\ n + Len(Q) + 1 \in 1..Len(S)
  <2>1. 1 \in 1..WaitingIn(P)
    BY <1>6
  <2>2. P[1] = <<"send", S[n + Len(Q) + 1]>>
    BY <1>8, <2>1
  <2>3. m = S[n + Len(Q) + 1]
    BY <1>1, <2>2 DEF m
  <2>4. n + Len(Q) + 1 \in 1..Len(S)
    BY <1>3, <1>4, <1>6, <1>8
  <2> QED
    BY <2>3, <2>4
<1>10. ASSUME NEW i \in 1..Len(Q2) PROVE Q2[i] = S[n + i]
  <2>1. CASE i = Len(Q) + 1
    <3>1. n + i = n + Len(Q) + 1
      BY <1>3, <1>8, <2>1
    <3> QED
      BY <1>3, <1>9, <2>1, <3>1
  <2>2. CASE i # Len(Q) + 1
    BY <1>3, <1>8, <2>2
  <2> QED
    BY <2>1, <2>2
<1>11. ASSUME NEW i \in 1..WaitingIn(P2) PROVE P2[i] = <<"send", S[n + Len(Q2) + i]>>
  <2>0. WaitingIn(P) <= Len(P)
    BY <1>1 DEF WaitingIn
  <2>1. i \in 1..(Len(P) - 1) /\ i + 1 \in 1..WaitingIn(P) /\ n + Len(Q2) + i = n + Len(Q) + (i + 1)
    BY <1>1, <1>3, <1>6, <1>8, <2>0, SMTT(30)
  <2> QED
    BY <1>1, <1>8, <2>1
<1>12. ASSUME NEW i \in 1..Len(P2), P2[i][1] = "close" PROVE i = Len(P2)
  <2>1. i + 1 \in 1..Len(P) /\ i \in 1..(Len(P) - 1)
    BY <1>1
  <2>2. i + 1 = Len(P)
    BY <1>1, <1>8, <1>12, <2>1
  <2> QED
    BY <1>1, <2>2
<1>13. QueueOrder(S, P2, Q2)
  BY <1>7, <1>8, <1>10, <1>11, <1>12 DEF QueueOrder
<1> QED
  BY <1>2, <1>7, <1>9, <1>13 DEF m, P2, Q2, n

(* The close is run: it was the last.                                      *)
LEMMA OrderRunClose ==
  ASSUME NEW S \in Seq(Messages), NEW P \in Seq(Posts), NEW Q \in Seq(Messages),
         QueueOrder(S, P, Q), P # << >>, Head(P)[1] = "close"
  PROVE  /\ QueueOrder(S, Tail(P), Q)
         /\ DoneOf(S, Tail(P), Q) = DoneOf(S, P, Q)
<1> DEFINE P2 == Tail(P)
<1>1. Len(P) \in Nat \ {0} /\ Head(P) = P[1] /\ P2 \in Seq(Posts) /\ Len(P2) = Len(P) - 1
  BY TailFacts
<1>2. Len(P) = 1
  <2>1. 1 \in 1..Len(P)
    BY <1>1
  <2> QED
    BY <1>1, <2>1 DEF QueueOrder
<1> HIDE DEF P2
<1>3. P2 = << >> /\ Len(P2) = 0
  <2>1. Len(P2) = 0
    BY <1>1, <1>2
  <2> QED
    BY <1>1, <2>1
<1>4. WaitingIn(P) = 0 /\ WaitingIn(P2) = 0
  BY <1>1, <1>2, <1>3 DEF WaitingIn
<1>5. DoneOf(S, P2, Q) = DoneOf(S, P, Q)
  BY <1>4 DEF DoneOf
<1>6. QueueOrder(S, P2, Q)
  BY <1>3, <1>4, <1>5 DEF QueueOrder
<1> QED
  BY <1>5, <1>6 DEF P2

(* The front of the queue is written.                                      *)
LEMMA OrderFront ==
  ASSUME NEW S \in Seq(Messages), NEW P \in Seq(Posts), NEW Q \in Seq(Messages),
         QueueOrder(S, P, Q), Q # << >>
  PROVE  /\ Head(Q) = S[DoneOf(S, P, Q) + 1]
         /\ DoneOf(S, P, Q) + 1 \in DOMAIN S
<1>1. Len(Q) \in Nat \ {0} /\ Head(Q) = Q[1]
  BY TailFacts
<1>2. 1 \in 1..Len(Q) /\ Len(S) \in Nat /\ DOMAIN S = 1..Len(S)
  BY <1>1
<1>3. WaitingIn(P) \in Nat
  BY DEF WaitingIn
<1>4. DoneOf(S, P, Q) = Len(S) - WaitingIn(P) - Len(Q) /\ DoneOf(S, P, Q) \in Nat
  BY DEF DoneOf, QueueOrder
<1> QED
  BY <1>1, <1>2, <1>3, <1>4 DEF QueueOrder

(* And leaves it.                                                          *)
LEMMA OrderPop ==
  ASSUME NEW S \in Seq(Messages), NEW P \in Seq(Posts), NEW Q \in Seq(Messages),
         QueueOrder(S, P, Q), Q # << >>
  PROVE  /\ QueueOrder(S, P, Tail(Q))
         /\ DoneOf(S, P, Tail(Q)) = DoneOf(S, P, Q) + 1
<1> DEFINE Q2 == Tail(Q)
           n  == DoneOf(S, P, Q)
<1>1. /\ Len(Q) \in Nat \ {0} /\ Q2 \in Seq(Messages) /\ Len(Q2) = Len(Q) - 1
      /\ \A i \in 1..(Len(Q) - 1) : Q2[i] = Q[i + 1]
  BY TailFacts
<1>2. WaitingIn(P) \in Nat /\ Len(S) \in Nat
  BY DEF WaitingIn
<1> HIDE DEF Q2
<1>3. DoneOf(S, P, Q2) = n + 1
  BY <1>1, <1>2 DEF DoneOf
<1>4. /\ n \in Nat /\ \A i \in 1..Len(Q) : Q[i] = S[n + i]
      /\ \A i \in 1..WaitingIn(P) : P[i] = <<"send", S[n + Len(Q) + i]>>
      /\ \A i \in 1..Len(P) : P[i][1] = "close" => i = Len(P)
  BY DEF QueueOrder
<1> HIDE DEF n
<1>5. ASSUME NEW i \in 1..Len(Q2) PROVE Q2[i] = S[n + 1 + i]
  <2>1. i + 1 \in 1..Len(Q) /\ i \in 1..(Len(Q) - 1) /\ n + (i + 1) = n + 1 + i
    BY <1>1, <1>4
  <2> QED
    BY <1>1, <1>4, <2>1
<1>6. ASSUME NEW i \in 1..WaitingIn(P) PROVE P[i] = <<"send", S[n + 1 + Len(Q2) + i]>>
  <2>1. n + 1 + Len(Q2) + i = n + Len(Q) + i
    BY <1>1, <1>4
  <2> QED
    BY <1>4, <2>1
<1>7. QueueOrder(S, P, Q2)
  BY <1>3, <1>4, <1>5, <1>6 DEF QueueOrder
<1> QED
  BY <1>3, <1>7 DEF Q2, n

-----------------------------------------------------------------------------
(* One end's writes: W outstanding, the first F of them on the wire, n     *)
(* messages of S written for good.                                         *)

(* What goes on the wire next for the messages is the unit at b: the       *)
(* outstanding message write, or what follows if that is there already.    *)
GivesOf(W, F, n, S, b) ==
    /\ MessageWrites(W) = {} => b = <<"hdr", n + 1>>
    /\ \A i \in MessageWrites(W) :
          b = IF i > F THEN <<W[i], n + 1>> ELSE After(<<W[i], n + 1>>, S)

(* The writes of the handshake's number.                                   *)
Greetings(W) == {i \in DOMAIN W : W[i] = "hs"}

(* They move with the others.                                              *)
LEMMA GreetingTail ==
  ASSUME NEW W \in Seq(Kinds), W # << >>
  PROVE  /\ \A i \in Greetings(Tail(W)) : i \in Nat \ {0} /\ i + 1 \in Greetings(W)
         /\ 1 \in Greetings(W) <=> Head(W) = "hs"
<1>1. /\ Len(W) \in Nat \ {0} /\ Head(W) = W[1] /\ DOMAIN W = 1..Len(W)
      /\ DOMAIN Tail(W) = 1..(Len(W) - 1) /\ \A i \in 1..(Len(W) - 1) : Tail(W)[i] = W[i + 1]
  BY TailFacts
<1> QED
  BY <1>1 DEF Greetings

(* A write that is started goes behind them.                               *)
LEMMA GreetingAppend ==
  ASSUME NEW W \in Seq(Kinds), NEW k \in Kinds
  PROVE  /\ k # "hs" => Greetings(Append(W, k)) = Greetings(W)
         /\ k = "hs" => Greetings(Append(W, k)) = Greetings(W) \cup {Len(W) + 1}
         /\ W # << >> => Append(W, k)[1] = W[1]
         /\ Append(W, k) # << >>
<1>1. /\ Len(W) \in Nat /\ DOMAIN W = 1..Len(W) /\ DOMAIN Append(W, k) = 1..(Len(W) + 1)
      /\ Append(W, k)[Len(W) + 1] = k /\ \A i \in 1..Len(W) : Append(W, k)[i] = W[i]
  OBVIOUS
<1>2. \A i \in DOMAIN Append(W, k) : i \in DOMAIN W \/ i = Len(W) + 1
  BY <1>1
<1>3. W # << >> => 1 \in 1..Len(W)
  BY <1>1
<1> QED
  BY <1>1, <1>2, <1>3 DEF Greetings

(* The number of the handshake is written: nothing changes for messages.   *)
LEMMA GivesHandshake ==
  ASSUME NEW W \in Seq(Kinds), NEW F \in Nat, NEW n \in Nat, NEW S, NEW b,
         GivesOf(W, F, n, S, b)
  PROVE  /\ F <= Len(W) => GivesOf(Append(W, "hs"), F, n, S, b)
         /\ W # << >> /\ Head(W) = "hs" /\ F > 0 => GivesOf(Tail(W), F - 1, n, S, b)
<1>1. ASSUME F <= Len(W) PROVE GivesOf(Append(W, "hs"), F, n, S, b)
  <2>1. \A i \in MessageWrites(Append(W, "hs")) :
           i \in MessageWrites(W) /\ Append(W, "hs")[i] = W[i]
    BY LoopAppend DEF Kinds
  <2>2. MessageWrites(W) \subseteq MessageWrites(Append(W, "hs"))
    BY LoopAppend DEF Kinds
  <2> QED
    BY <2>1, <2>2 DEF GivesOf
<1>2. ASSUME W # << >>, Head(W) = "hs", F > 0 PROVE GivesOf(Tail(W), F - 1, n, S, b)
  <2>1. \A i \in MessageWrites(Tail(W)) : i \in Nat
    BY <1>2 DEF MessageWrites
  <2>2. \A i \in MessageWrites(Tail(W)) : i + 1 \in MessageWrites(W) /\ Tail(W)[i] = W[i + 1]
    BY <1>2, LoopTail
  <2>3. MessageWrites(Tail(W)) = {} => MessageWrites(W) = {}
    BY <1>2, LoopTail
  <2>4. ASSUME NEW i \in MessageWrites(Tail(W))
        PROVE  b = IF i > F - 1 THEN <<Tail(W)[i], n + 1>> ELSE After(<<Tail(W)[i], n + 1>>, S)
    <3>1. i \in Nat /\ i + 1 \in MessageWrites(W) /\ Tail(W)[i] = W[i + 1]
      BY <2>1, <2>2
    <3>2. b = IF i + 1 > F THEN <<W[i + 1], n + 1>> ELSE After(<<W[i + 1], n + 1>>, S)
      BY <3>1 DEF GivesOf
    <3>3. i > F - 1 <=> i + 1 > F
      BY <3>1
    <3> QED
      BY <3>1, <3>2, <3>3
  <2> QED
    BY <2>3, <2>4 DEF GivesOf
<1> QED
  BY <1>1, <1>2

(* A message write is started, or none.                                    *)
LEMMA GivesStart ==
  ASSUME NEW W \in Seq(Kinds), NEW F \in Nat, NEW n \in Nat, NEW S, F <= Len(W),
         MessageWrites(W) = {}
  PROVE  /\ \A k \in {"hdr", "pl"} : GivesOf(Append(W, k), F, n, S, <<k, n + 1>>)
         /\ GivesOf(W, F, n, S, <<"hdr", n + 1>>)
<1>1. ASSUME NEW k \in {"hdr", "pl"} PROVE GivesOf(Append(W, k), F, n, S, <<k, n + 1>>)
  <2>1. /\ \A i \in MessageWrites(Append(W, k)) : i = Len(W) + 1 /\ Append(W, k)[i] = k
        /\ MessageWrites(Append(W, k)) # {}
    BY LoopAppend DEF Kinds
  <2>2. Len(W) + 1 > F
    OBVIOUS
  <2> QED
    BY <2>1, <2>2 DEF GivesOf
<1> QED
  BY <1>1 DEF GivesOf

(* A message write that is done was on the wire.                           *)
LEMMA GivesDone ==
  ASSUME NEW W \in Seq(Kinds), NEW F \in Nat, NEW n \in Nat, NEW S, NEW b,
         GivesOf(W, F, n, S, b), W # << >>, Head(W) # "hs", F > 0
  PROVE  b = After(<<Head(W), n + 1>>, S)
<1>1. 1 \in MessageWrites(W) /\ Head(W) = W[1] /\ ~(1 > F)
  BY LoopTail, TailFacts
<1> QED
  BY <1>1 DEF GivesOf

(* More messages are sent meanwhile.                                       *)
LEMMA GivesGrows ==
  ASSUME NEW W, NEW F, NEW n \in Nat, NEW S \in Seq(Messages), NEW m \in Messages, NEW b,
         GivesOf(W, F, n, S, b), MessageWrites(W) # {} => n + 1 \in DOMAIN S
  PROVE  GivesOf(W, F, n, Append(S, m), b)
<1>1. n + 1 \in DOMAIN S => Append(S, m)[n + 1] = S[n + 1]
  OBVIOUS
<1>2. ASSUME NEW i \in MessageWrites(W)
      PROVE  After(<<W[i], n + 1>>, Append(S, m)) = After(<<W[i], n + 1>>, S)
  BY <1>1 DEF After
<1> QED
  BY <1>2 DEF GivesOf

(* A unit goes on the wire.                                                *)
LEMMA GivesUnit ==
  ASSUME NEW W \in Seq(Kinds), NEW F \in Nat, NEW n \in Nat, NEW S, NEW b,
         GivesOf(W, F, n, S, b), F < Len(W), \A i, j \in MessageWrites(W) : i = j
  PROVE  /\ W[F + 1] = "hs" => GivesOf(W, F + 1, n, S, b)
         /\ W[F + 1] # "hs" => b = <<W[F + 1], n + 1>> /\ GivesOf(W, F + 1, n, S, After(b, S))
<1>0. F + 1 \in DOMAIN W /\ \A i \in MessageWrites(W) : i \in Nat
  BY DEF MessageWrites
<1>1. ASSUME W[F + 1] = "hs" PROVE GivesOf(W, F + 1, n, S, b)
  <2>1. \A i \in MessageWrites(W) : i # F + 1
    BY <1>1 DEF MessageWrites
  <2>2. \A i \in MessageWrites(W) : i > F <=> i > F + 1
    BY <1>0, <2>1
  <2> QED
    BY <2>2 DEF GivesOf
<1>2. ASSUME W[F + 1] # "hs"
      PROVE  b = <<W[F + 1], n + 1>> /\ GivesOf(W, F + 1, n, S, After(b, S))
  <2>1. F + 1 \in MessageWrites(W)
    BY <1>0, <1>2 DEF MessageWrites
  <2>2. \A i \in MessageWrites(W) : i = F + 1
    BY <2>1
  <2>3. F + 1 > F /\ ~(F + 1 > F + 1)
    OBVIOUS
  <2>4. b = <<W[F + 1], n + 1>>
    BY <2>1, <2>3 DEF GivesOf
  <2> QED
    BY <2>1, <2>2, <2>3, <2>4 DEF GivesOf
<1> QED
  BY <1>1, <1>2

-----------------------------------------------------------------------------
(* The inductive invariant.                                                *)

Done(e) == DoneOf(sent[e], posted[e], out_msg_queue_[e])

(* The messages of each end are queued and posted in their order; only     *)
(* Disconnect posts a close.                                               *)
Ordered == \A e \in Ends : /\ QueueOrder(sent[e], posted[e], out_msg_queue_[e])
                           /\ NoClose(posted[e]) \/ (e = "client" /\ phase # "connected")

(* The header of a message says whether it has a payload, and a ping has.  *)
HeaderTells(m) == m.size = IF m.payload = NoPayload THEN 0 ELSE 1
WellFormed ==
    /\ \A e \in Ends : \A i \in DOMAIN sent[e] : HeaderTells(sent[e][i])
    /\ \A i \in DOMAIN sent["client"] :
          sent["client"][i].id = "ServerPing" => sent["client"][i].payload # NoPayload

(* What e writes still reaches its peer.                                   *)
Live(e) == sock[e] = "open" /\ sock[Peer(e)] # "closed"

(* What e puts on the wire next for its messages is the unit at b, and     *)
(* what d reads next is the one at Takes(d).                               *)
Gives(e, b) == GivesOf(writing[e], flushed[e], Done(e), sent[e], b)
Takes(d) == <<IF reading[d] = "pl" THEN "pl" ELSE "hdr", Len(received[d]) + 1>>

(* e's number of the handshake has been written.                           *)
GreetingOver(e) == \A i \in Greetings(writing[e]) : i <= flushed[e]

(* d has read the number of its peer, and accepted it.                     *)
Greeted(d) == IF d = "client" THEN solved ELSE validated

(* The units w, to be read from place a, come from e's messages, and what  *)
(* e writes next continues them.                                           *)
Framed(e, w, a) ==
    /\ e = "client" => solved
    /\ \E b \in Places : /\ Stretch(w, a, b, sent[e])
                         /\ Live(e) => Gives(e, b) /\ GreetingOver(e)

(* Nothing is on the wire yet: the number of the handshake is the first to *)
(* be written, except by a client that sends early.                        *)
Fresh(e) ==
    Live(e) => /\ flushed[e] = 0
               /\ Gives(e, <<"hdr", 1>>)
               /\ e = "server" \/ (solved /\ ~early)
                     => writing[e] # << >> /\ writing[e][1] = "hs"

(* What d can still read: messages, once the handshake is over; before     *)
(* that nothing, its number and messages, or what a client sent early.     *)
CanRead(d) == sock[d] # "closed" \/ reading[d] # "none"
AfterGreeting(d) == Greeted(d) /\ Framed(Peer(d), wire[d], Takes(d))
Silent(d) == ~Greeted(d) /\ wire[d] = << >> /\ Fresh(Peer(d))
GreetingFirst(d) == /\ ~Greeted(d) /\ wire[d] # << >>
                    /\ Head(wire[d]) = <<"hs", handshake_out_[Peer(d)]>>
                    /\ Framed(Peer(d), Tail(wire[d]), <<"hdr", 1>>)
EarlyFirst(d) == /\ ~Greeted(d) /\ wire[d] # << >> /\ Head(wire[d])[1] # "hs"
                 /\ d = "server" /\ early
Incoming(d) ==
    CanRead(d) => AfterGreeting(d) \/ Silent(d) \/ GreetingFirst(d) \/ EarlyFirst(d)

(* How far the readers are.                                                *)
HalfRead(d) ==
    reading[d] = "pl" =>
       LET k == Len(received[d]) + 1
           S == sent[Peer(d)]
       IN  /\ k \in DOMAIN S /\ S[k].payload # NoPayload
           /\ tmp_input_msg_[d].id = S[k].id
           /\ tmp_input_msg_[d].size = S[k].size
Readers ==
    \A d \in Ends : /\ reading[d] \in {"hdr", "pl"} \/ received[d] # << >> => Greeted(d)
                    /\ reading[d] = "hs" => ~Greeted(d)
                    /\ HalfRead(d)

(* The handshake: one number each way, and which ones they are.            *)
Handshake ==
    /\ \A e \in Ends : \A i, j \in Greetings(writing[e]) : i = j
    /\ handshake_out_["server"] = Clock
    /\ solved => handshake_out_["client"] = Encrypt(key, Clock)
    /\ validated => Encrypt(key, Clock) = handshake_check_
    /\ Greetings(writing["client"]) # {}
          => solved /\ reading["client"] = "none" /\ received["client"] = << >>
    /\ connecting => ~solved /\ reading["client"] = "none"
    /\ ~solved /\ ~early => sent["client"] = << >>

(* An end without a socket has written nothing.                            *)
Unused ==
    /\ \A e \in Ends : sock[e] = "none" => /\ sent[e] = << >> /\ flushed[e] = 0
                                           /\ wire[Peer(e)] = << >>
    /\ sock["server"] = "none" => ~solved /\ ~validated
    /\ sock["client"] = "none" => ~solved /\ ~validated /\ ~connecting

(* What end d received is what its peer sent.                              *)
Delivered(d) ==
    /\ Len(received[d]) <= Len(sent[Peer(d)])
    /\ \A i \in DOMAIN received[d] : View(received[d][i]) = View(sent[Peer(d)][i])

FInv == /\ IInv /\ Ordered /\ WellFormed /\ Readers /\ Handshake /\ Unused
        /\ \A d \in Ends : Incoming(d) /\ Delivered(d)
        /\ PatientClientAccepted

-----------------------------------------------------------------------------
(* Facts used by every step.                                               *)

(* The two ends.                                                           *)
LEMMA Peers ==
  /\ "client" \in Ends /\ "server" \in Ends
  /\ Peer("client") = "server" /\ Peer("server") = "client"
  /\ \A e \in Ends : e = "client" \/ e = "server"
  /\ \A e \in Ends : Peer(e) \in Ends /\ Peer(e) # e /\ Peer(Peer(e)) = e
  /\ \A d, e \in Ends : d = e \/ d = Peer(e)
  BY DEF Ends, Peer

(* The types of the variables.                                             *)
LEMMA Types ==
  ASSUME IInv
  PROVE  /\ sock \in [Ends -> {"none", "open", "closed"}]
         /\ wire \in [Ends -> Seq(Units)]
         /\ posted \in [Ends -> Seq(Posts)]
         /\ reading \in [Ends -> {"none", "hs", "hdr", "pl"}]
         /\ writing \in [Ends -> Seq(Kinds)]
         /\ flushed \in [Ends -> Nat] /\ \A e \in Ends : flushed[e] <= Len(writing[e])
         /\ out_msg_queue_ \in [Ends -> Seq(Messages)]
         /\ tmp_input_msg_ \in [Ends -> Messages]
         /\ handshake_out_ \in [Ends -> Numbers] /\ key \in Keys
         /\ sent \in [Ends -> Seq(Messages)]
         /\ received \in [Ends -> Seq(Messages)]
  BY DEF IInv, TypeOK, SidesType, WireType, IoType, HsType, HistType

(* What is framed stays framed while its sender goes on, as long as it     *)
(* neither loses its place nor gives up its right to write.                *)
LEMMA FramedKept ==
  ASSUME NEW e, NEW w, NEW a, Framed(e, w, a), sent[e] \in Seq(Messages),
         solved => solved',
         sent'[e] = sent[e] \/ \E m \in Messages : sent'[e] = Append(sent[e], m),
         Live(e)' => Live(e),
         Live(e)' => \A b \in Places : Gives(e, b) => Gives(e, b)',
         Live(e)' /\ GreetingOver(e) /\ (e = "client" => solved) => GreetingOver(e)'
  PROVE  Framed(e, w, a)'
<1>1. PICK b \in Places : /\ Stretch(w, a, b, sent[e])
                          /\ Live(e) => Gives(e, b) /\ GreetingOver(e)
  BY DEF Framed
<1>2. e = "client" => solved
  BY DEF Framed
<1>3. Stretch(w, a, b, sent'[e])
  BY <1>1, StretchGrows
<1>4. Live(e)' => Gives(e, b)' /\ GreetingOver(e)'
  BY <1>1, <1>2
<1>5. \E c \in Places : Stretch(w, a, c, sent'[e]) /\ (Live(e)' => Gives(e, c)' /\ GreetingOver(e)')
  BY <1>1, <1>3, <1>4
<1>6. e = "client" => solved'
  BY <1>2
<1> QED
  BY <1>5, <1>6 DEF Framed

(* The same for everything d can read.                                     *)
LEMMA IncomingKept ==
  ASSUME NEW d, NEW e, e = Peer(d), Incoming(d), sent[e] \in Seq(Messages),
         wire'[d] = wire[d], Greeted(d) <=> Greeted(d)',
         CanRead(d)' => CanRead(d) /\ (Greeted(d) => Takes(d)' = Takes(d)),
         handshake_out_'[e] = handshake_out_[e] \/ (e = "client" /\ ~solved),
         solved => solved', early => early',
         sent'[e] = sent[e] \/ \E m \in Messages : sent'[e] = Append(sent[e], m),
         Live(e)' => Live(e),
         Live(e)' => \A b \in Places : Gives(e, b) => Gives(e, b)',
         Live(e)' /\ GreetingOver(e) /\ (e = "client" => solved) => GreetingOver(e)',
         Live(e)' /\ Silent(d) => Fresh(e)'
  PROVE  Incoming(d)'
<1> SUFFICES ASSUME CanRead(d)'
             PROVE  (AfterGreeting(d) \/ Silent(d) \/ GreetingFirst(d) \/ EarlyFirst(d))'
  BY DEF Incoming
<1>1. CanRead(d)
  OBVIOUS
<1>2. Greeted(d) => Takes(d)' = Takes(d)
  OBVIOUS
<1>3. CASE AfterGreeting(d)
  <2>1. Framed(e, wire[d], Takes(d)) /\ Greeted(d)
    BY <1>3 DEF AfterGreeting
  <2>2. Framed(e, wire[d], Takes(d))'
    <3>1. \A w, a : Framed(e, w, a) => Framed(e, w, a)'
      BY FramedKept
    <3> QED
      BY <1>2, <2>1, <3>1
  <2> QED
    BY <2>1, <2>2 DEF AfterGreeting
<1>4. CASE Silent(d)
  <2>1. Fresh(e)'
    BY <1>4 DEF Fresh
  <2> QED
    BY <1>4, <2>1 DEF Silent
<1>5. CASE GreetingFirst(d)
  <2>1. Framed(e, Tail(wire[d]), <<"hdr", 1>>) /\ ~Greeted(d) /\ wire[d] # << >>
        /\ Head(wire[d]) = <<"hs", handshake_out_[e]>>
    BY <1>5 DEF GreetingFirst
  <2>2. Framed(e, Tail(wire[d]), <<"hdr", 1>>)'
    BY <2>1, FramedKept
  <2>3. handshake_out_'[e] = handshake_out_[e]
    BY <2>1 DEF Framed
  <2> QED
    BY <2>1, <2>2, <2>3 DEF GreetingFirst
<1>6. CASE EarlyFirst(d)
  BY <1>6 DEF EarlyFirst
<1> QED
  BY <1>1, <1>3, <1>4, <1>5, <1>6 DEF Incoming

(* Nothing changes for d but that somebody closes.                         *)
LEMMA IncomingStays ==
  ASSUME FInv, NEW d \in Ends, NEW e, e = Peer(d),
         wire'[d] = wire[d], Greeted(d) <=> Greeted(d)',
         CanRead(d)' => CanRead(d) /\ (Greeted(d) => Takes(d)' = Takes(d)),
         handshake_out_'[e] = handshake_out_[e], solved' = solved, early => early',
         sent'[e] = sent[e], Done(e)' = Done(e),
         Live(e)' => Live(e) /\ writing'[e] = writing[e] /\ flushed'[e] = flushed[e]
  PROVE  Incoming(d)'
<1>1. Incoming(d) /\ e \in Ends /\ sent[e] \in Seq(Messages)
  BY Peers, Types DEF FInv
<1>2. Live(e)' => \A b : Gives(e, b) <=> Gives(e, b)'
  BY DEF Gives
<1>3. Live(e)' /\ GreetingOver(e) => GreetingOver(e)'
  BY DEF GreetingOver
<1>4. Live(e)' /\ Silent(d) => Fresh(e)'
  <2> SUFFICES ASSUME Live(e)', Silent(d) PROVE Fresh(e)'
    OBVIOUS
  <2>1. Live(e) /\ flushed[e] = 0 /\ Gives(e, <<"hdr", 1>>)
        /\ (e = "server" \/ (solved /\ ~early) => writing[e] # << >> /\ writing[e][1] = "hs")
    BY DEF Silent, Fresh
  <2>2. Gives(e, <<"hdr", 1>>)'
    BY <1>2, <2>1
  <2> QED
    BY <2>1, <2>2 DEF Fresh
<1> QED
  BY <1>1, <1>2, <1>3, <1>4, IncomingKept

-----------------------------------------------------------------------------
(* The steps.                                                              *)

(* Nothing has happened yet.                                               *)
LEMMA InitFInv == Init => FInv
<1> SUFFICES ASSUME Init PROVE FInv
  OBVIOUS
<1>0. IInv
  BY InitIInv
<1>1. \A e \in Ends : /\ sent[e] = << >> /\ posted[e] = << >> /\ out_msg_queue_[e] = << >>
                      /\ wire[e] = << >> /\ sock[e] = "none" /\ reading[e] = "none"
                      /\ writing[e] = << >> /\ flushed[e] = 0 /\ received[e] = << >>
  BY DEF Init
<1>2. ~solved /\ ~validated /\ ~rejected /\ ~early /\ ~connecting
  BY DEF Init
<1>3. Ordered
  <2>0. WaitingIn(<< >>) = 0
    BY DEF WaitingIn
  <2>1. WaitingIn(<< >>) = 0 /\ DoneOf(<< >>, << >>, << >>) = 0
    BY <2>0 DEF DoneOf
  <2>2. QueueOrder(<< >>, << >>, << >>) /\ NoClose(<< >>)
    BY <2>1 DEF QueueOrder, NoClose
  <2> QED
    BY <1>1, <2>2 DEF Ordered
<1>4. WellFormed
  BY <1>1, Peers DEF WellFormed
<1>5. Readers
  BY <1>1 DEF Readers, HalfRead
<1>6. Handshake
  <2>1. handshake_out_["server"] = Clock
    BY Peers DEF Init
  <2>2. \A e \in Ends : Greetings(writing[e]) = {}
    BY <1>1 DEF Greetings
  <2> QED
    BY <1>1, <1>2, <2>1, <2>2, Peers DEF Handshake
<1>7. Unused
  BY <1>1, <1>2, Peers DEF Unused
<1>8. ASSUME NEW d \in Ends PROVE Incoming(d) /\ Delivered(d)
  <2>1. ~Greeted(d)
    BY <1>2 DEF Greeted
  <2>2. ~Live(Peer(d))
    BY <1>1, Peers DEF Live
  <2>3. Silent(d)
    BY <1>1, <2>1, <2>2 DEF Silent, Fresh
  <2>4. Delivered(d)
    BY <1>1, Peers DEF Delivered
  <2> QED
    BY <2>3, <2>4 DEF Incoming
<1>9. PatientClientAccepted
  BY <1>2 DEF PatientClientAccepted
<1> QED
  BY <1>0, <1>3, <1>4, <1>5, <1>6, <1>7, <1>8, <1>9 DEF FInv

(* Steps that receive nothing, send nothing and decide nothing.            *)
LEMMA TalkKept ==
  ASSUME FInv, UNCHANGED <<sent, received, rejected, key>>, early => early'
  PROVE  /\ WellFormed' /\ PatientClientAccepted' /\ \A d \in Ends : Delivered(d)'
<1>1. WellFormed'
  BY DEF FInv, WellFormed
<1>2. PatientClientAccepted'
  BY DEF FInv, PatientClientAccepted, handshake_check_
<1>3. \A d \in Ends : Delivered(d)'
  BY DEF FInv, Delivered
<1> QED
  BY <1>1, <1>2, <1>3

(* Steps that leave reads and messages alone.                              *)
LEMMA ReadersKept ==
  ASSUME FInv, UNCHANGED <<sent, received, tmp_input_msg_, solved, validated>>,
         \A d \in Ends : reading'[d] = reading[d] \/ reading'[d] = "none"
  PROVE  Readers'
  BY DEF FInv, Readers, HalfRead, Greeted

(* Steps that leave the operations of both ends alone.                     *)
LEMMA QuietFrames ==
  ASSUME FInv, IInv', Establish \/ Refuse \/ LinkFails \/ Stop \/ RunReturns \/ UNCHANGED vars
  PROVE  FInv'
<1>1. /\ UNCHANGED <<wire, sock, connecting, io, hs, hist>>
      /\ phase' = phase \/ phase' = "stopped"
  BY DEF Establish, Refuse, LinkFails, Stop, RunReturns, vars, net, sides, io, hs, hist
<1>2. UNCHANGED <<posted, reading, writing, flushed, out_msg_queue_, tmp_input_msg_,
                  handshake_out_, key, validated, rejected, sent, received, handled, announced,
                  solved, early, wire, sock, connecting>>
  BY <1>1 DEF io, hs, hist
<1>3. WellFormed' /\ PatientClientAccepted' /\ \A d \in Ends : Delivered(d)'
  BY <1>2, TalkKept
<1>4. Readers'
  BY <1>2, ReadersKept
<1>5. Ordered'
  BY <1>1, <1>2 DEF FInv, Ordered
<1>6. Handshake'
  BY <1>2 DEF FInv, Handshake, handshake_check_
<1>7. Unused'
  BY <1>2 DEF FInv, Unused
<1>8. ASSUME NEW d \in Ends PROVE Incoming(d)'
  <2>1. /\ Greeted(d) <=> Greeted(d)'
        /\ CanRead(d)' <=> CanRead(d)
        /\ Takes(d)' = Takes(d)
        /\ Done(Peer(d))' = Done(Peer(d))
        /\ Live(Peer(d))' <=> Live(Peer(d))
    BY <1>2 DEF Greeted, CanRead, Takes, Done, Live
  <2> QED
    BY <1>2, <2>1, IncomingStays
<1> QED
  BY <1>3, <1>4, <1>5, <1>6, <1>7, <1>8 DEF FInv

(* Connect: the client may write, and has written nothing.                 *)
LEMMA ConnectFrames ==
  ASSUME FInv, IInv', Connect
  PROVE  FInv'
<1>1. /\ UNCHANGED <<posted, reading, writing, flushed, out_msg_queue_, tmp_input_msg_,
                     handshake_out_, key, validated, rejected, sent, received, handled,
                     announced, solved, early, wire>>
      /\ phase = "new" /\ phase' = "connected" /\ connecting' = TRUE
      /\ sock' = [sock EXCEPT !["client"] = "open"]
  BY DEF Connect, io, hs, hist
<1>2. sock \in [Ends -> {"none", "open", "closed"}] /\ sock["client"] = "none"
  BY <1>1, Types DEF FInv, IInv, Unopened
<1>3. sock'["client"] = "open" /\ sock'["server"] = sock["server"]
  BY <1>1, <1>2, Peers
<1>4. /\ posted["client"] = << >> /\ out_msg_queue_["client"] = << >>
      /\ writing["client"] = << >> /\ reading["client"] = "none" /\ received["client"] = << >>
  BY <1>2, Peers DEF FInv, IInv, Unopened
<1>5. /\ sent["client"] = << >> /\ flushed["client"] = 0 /\ wire["server"] = << >>
      /\ ~solved /\ ~connecting
  BY <1>2, Peers DEF FInv, Unused
<1>6. WellFormed' /\ PatientClientAccepted' /\ \A d \in Ends : Delivered(d)'
  BY <1>1, TalkKept
<1>7. Readers'
  BY <1>1, ReadersKept
<1>8. Ordered'
  <2>1. NoClose(posted["client"])
    BY <1>4 DEF NoClose
  <2> QED
    BY <1>1, <2>1, Peers DEF FInv, Ordered
<1>9. Handshake'
  BY <1>1, <1>4, <1>5 DEF FInv, Handshake, handshake_check_
<1>10. Unused'
  <2>1. \A e \in Ends : sock'[e] = "none" => sock[e] = "none"
    BY <1>2, <1>3, Peers
  <2> QED
    BY <1>1, <1>3, <2>1 DEF FInv, Unused
<1>11. Incoming("server")'
  <2>1. ~Greeted("server")'
    BY <1>1, <1>2 DEF FInv, Unused, Greeted
  <2>2. Done("client")' = 0
    <3>1. Done("client")' = DoneOf(<< >>, << >>, << >>) /\ WaitingIn(<< >>) = 0
      BY <1>1, <1>4, <1>5 DEF Done, WaitingIn
    <3> QED
      BY <3>1 DEF DoneOf
  <2>3. Gives("client", <<"hdr", 1>>)'
    <3>1. MessageWrites(<< >>) = {}
      BY DEF MessageWrites
    <3> QED
      BY <1>1, <1>4, <2>2, <3>1 DEF Gives, GivesOf
  <2>4. Fresh("client")'
    BY <1>1, <1>5, <2>3 DEF Fresh
  <2> QED
    BY <1>1, <1>5, <2>1, <2>4, Peers DEF Incoming, Silent
<1>12. Incoming("client")'
  <2>1. /\ Greeted("client") <=> Greeted("client")'
        /\ CanRead("client")
        /\ Takes("client")' = Takes("client")
        /\ Done("server")' = Done("server")
        /\ Live("server")' => Live("server")
    BY <1>1, <1>2, <1>3, Peers DEF Greeted, CanRead, Takes, Done, Live
  <2> QED
    BY <1>1, <2>1, Peers, IncomingStays
<1> QED
  BY <1>6, <1>7, <1>8, <1>9, <1>10, <1>11, <1>12, Peers DEF FInv

(* Disconnect: the close is posted behind everything else.                 *)
LEMMA DisconnectFrames ==
  ASSUME FInv, IInv', Disconnect
  PROVE  FInv'
<1>1. /\ UNCHANGED <<reading, writing, flushed, out_msg_queue_, tmp_input_msg_,
                     handshake_out_, key, validated, rejected, sent, received, handled,
                     announced, solved, early, wire, sock, connecting>>
      /\ phase = "connected" /\ phase' = "disconnecting"
      /\ posted' = posted \/ posted' = [posted EXCEPT !["client"] = Append(@, <<"close">>)]
  BY DEF Disconnect, net, hs, hist
<1>2. /\ \A e \in Ends : /\ sent[e] \in Seq(Messages) /\ posted[e] \in Seq(Posts)
                         /\ out_msg_queue_[e] \in Seq(Messages)
                         /\ QueueOrder(sent[e], posted[e], out_msg_queue_[e])
                         /\ NoClose(posted[e])
      /\ posted \in [Ends -> Seq(Posts)]
  BY <1>1, Types DEF FInv, Ordered
<1>3. ASSUME NEW e \in Ends
      PROVE  /\ Done(e)' = Done(e)
             /\ QueueOrder(sent[e], posted[e], out_msg_queue_[e])'
             /\ NoClose(posted[e])' \/ e = "client"
  <2>1. CASE posted' = posted
    BY <1>1, <1>2, <2>1 DEF Done
  <2>2. CASE posted' = [posted EXCEPT !["client"] = Append(@, <<"close">>)]
    <3>1. CASE e = "client"
      <4>1. posted'[e] = Append(posted[e], <<"close">>)
        BY <1>2, <2>2, <3>1
      <4> QED
        BY <1>1, <1>2, <3>1, <4>1, OrderPostClose DEF Done
    <3>2. CASE e # "client"
      <4>1. posted'[e] = posted[e]
        BY <1>2, <2>2, <3>2
      <4> QED
        BY <1>1, <1>2, <4>1 DEF Done
    <3> QED
      BY <3>1, <3>2
  <2> QED
    BY <1>1, <2>1, <2>2
<1>4. WellFormed' /\ PatientClientAccepted' /\ \A d \in Ends : Delivered(d)'
  BY <1>1, TalkKept
<1>5. Readers'
  BY <1>1, ReadersKept
<1>6. Ordered'
  BY <1>1, <1>3 DEF Ordered
<1>7. Handshake'
  BY <1>1 DEF FInv, Handshake, handshake_check_
<1>8. Unused'
  BY <1>1 DEF FInv, Unused
<1>9. ASSUME NEW d \in Ends PROVE Incoming(d)'
  <2>1. /\ Greeted(d) <=> Greeted(d)'
        /\ CanRead(d)' <=> CanRead(d)
        /\ Takes(d)' = Takes(d)
        /\ Done(Peer(d))' = Done(Peer(d))
        /\ Live(Peer(d))' <=> Live(Peer(d))
    BY <1>1, <1>3, Peers DEF Greeted, CanRead, Takes, Live
  <2> QED
    BY <1>1, <2>1, IncomingStays
<1> QED
  BY <1>4, <1>5, <1>6, <1>7, <1>8, <1>9 DEF FInv

(* The connect handler starts the read of the server's number.             *)
LEMMA ConnectHandlerFrames ==
  ASSUME FInv, IInv', ConnectHandler
  PROVE  FInv'
<1>1. /\ UNCHANGED <<posted, writing, flushed, out_msg_queue_, tmp_input_msg_,
                     handshake_out_, key, validated, rejected, sent, received, handled,
                     announced, solved, early, wire, sock, phase>>
      /\ connecting /\ connecting' = FALSE
      /\ \/ reading' = reading
         \/ reading' = [reading EXCEPT !["client"] = IF sock["client"] = "open" THEN "hs" ELSE "none"]
  BY DEF ConnectHandler, net, hs, hist, StartRead
<1>2. ~solved /\ reading["client"] = "none" /\ reading \in [Ends -> {"none", "hs", "hdr", "pl"}]
  BY <1>1, Types DEF FInv, Handshake
<1>3. /\ reading'["server"] = reading["server"]
      /\ reading'["client"] \in {"none", "hs"}
      /\ reading'["client"] = "hs" => sock["client"] = "open"
  BY <1>1, <1>2, Peers
<1>4. WellFormed' /\ PatientClientAccepted' /\ \A d \in Ends : Delivered(d)'
  BY <1>1, TalkKept
<1>5. Readers'
  <2>1. ASSUME NEW d \in Ends
        PROVE  /\ reading'[d] \in {"hdr", "pl"} => reading'[d] = reading[d]
               /\ reading'[d] = "hs" => reading[d] = "hs" \/ ~Greeted(d)'
    BY <1>1, <1>2, <1>3, Peers DEF Greeted
  <2>2. \A d \in Ends : HalfRead(d)'
    BY <1>1, <2>1 DEF FInv, Readers, HalfRead
  <2> QED
    BY <1>1, <2>1, <2>2 DEF FInv, Readers, Greeted
<1>6. Ordered'
  BY <1>1 DEF FInv, Ordered
<1>7. Handshake'
  BY <1>1, <1>2 DEF FInv, Handshake, handshake_check_
<1>8. Unused'
  BY <1>1 DEF FInv, Unused
<1>9. ASSUME NEW d \in Ends PROVE Incoming(d)'
  <2>1. /\ Greeted(d) <=> Greeted(d)'
        /\ Done(Peer(d))' = Done(Peer(d))
        /\ Live(Peer(d))' <=> Live(Peer(d))
    BY <1>1 DEF Greeted, Done, Live
  <2>2. CanRead(d)' => CanRead(d) /\ (Greeted(d) => Takes(d)' = Takes(d))
    <3>1. CASE d = "client"
      BY <1>1, <1>2, <1>3, <3>1 DEF CanRead, Greeted
    <3>2. CASE d = "server"
      BY <1>1, <1>3, <3>2 DEF CanRead, Takes
    <3> QED
      BY <3>1, <3>2, Peers
  <2> QED
    BY <1>1, <2>1, <2>2, IncomingStays
<1> QED
  BY <1>4, <1>5, <1>6, <1>7, <1>8, <1>9 DEF FInv

(* One end in the invariant.                                               *)
LEMMA EndFacts ==
  ASSUME FInv, NEW e \in Ends
  PROVE  /\ sent[e] \in Seq(Messages) /\ posted[e] \in Seq(Posts)
         /\ out_msg_queue_[e] \in Seq(Messages) /\ writing[e] \in Seq(Kinds)
         /\ flushed[e] \in Nat /\ flushed[e] <= Len(writing[e])
         /\ QueueOrder(sent[e], posted[e], out_msg_queue_[e]) /\ Done(e) \in Nat
         /\ \A i, j \in MessageWrites(writing[e]) : i = j
         /\ MessageWrites(writing[e]) # {} => out_msg_queue_[e] # << >>
         /\ out_msg_queue_[e] # << >> => /\ Done(e) + 1 \in DOMAIN sent[e]
                                         /\ Head(out_msg_queue_[e]) = sent[e][Done(e) + 1]
<1>1. /\ sent[e] \in Seq(Messages) /\ posted[e] \in Seq(Posts)
      /\ out_msg_queue_[e] \in Seq(Messages) /\ writing[e] \in Seq(Kinds)
      /\ flushed[e] \in Nat /\ flushed[e] <= Len(writing[e])
  BY Types DEF FInv
<1>2. QueueOrder(sent[e], posted[e], out_msg_queue_[e])
  BY DEF FInv, Ordered
<1>3. Done(e) \in Nat
  BY <1>2 DEF QueueOrder, Done
<1>4. LoopOK(writing[e], out_msg_queue_[e], sock[e] = "closed")
  BY LoopFacts DEF FInv
<1>5. /\ \A i, j \in MessageWrites(writing[e]) : i = j
      /\ MessageWrites(writing[e]) # {} => out_msg_queue_[e] # << >>
  BY <1>4 DEF LoopOK
<1>6. out_msg_queue_[e] # << >> => /\ Done(e) + 1 \in DOMAIN sent[e]
                                   /\ Head(out_msg_queue_[e]) = sent[e][Done(e) + 1]
  BY <1>1, <1>2, OrderFront DEF Done
<1> QED
  BY <1>1, <1>2, <1>3, <1>5, <1>6

(* SendData, by whoever calls it.                                          *)
LEMMA SendDataFrames ==
  ASSUME FInv, IInv', NEW e \in Ends, NEW m \in Messages, SendData(e, m), HeaderTells(m),
         e = "client" => /\ m.id = "ServerPing" => m.payload # NoPayload
                         /\ solved \/ early',
         sock[e] # "none", NoClose(posted[e]), early => early',
         UNCHANGED <<reading, writing, flushed, out_msg_queue_, tmp_input_msg_, handshake_out_,
                     key, validated, rejected, received, solved, wire, sock, connecting, phase>>
  PROVE  FInv'
<1> DEFINE d == Peer(e)
<1>1. /\ d \in Ends /\ d # e /\ Peer(d) = e /\ \A x \in Ends : x = e \/ x = d
  BY Peers
<1>2. /\ posted \in [Ends -> Seq(Posts)] /\ sent \in [Ends -> Seq(Messages)]
      /\ posted' = [posted EXCEPT ![e] = Append(@, <<"send", m>>)]
      /\ sent' = [sent EXCEPT ![e] = Append(@, m)]
  BY Types DEF FInv, SendData
<1> HIDE DEF d
<1>3. /\ posted'[e] = Append(posted[e], <<"send", m>>) /\ sent'[e] = Append(sent[e], m)
      /\ posted'[d] = posted[d] /\ sent'[d] = sent[d]
  BY <1>1, <1>2
<1>4. /\ sent[e] \in Seq(Messages) /\ posted[e] \in Seq(Posts)
      /\ out_msg_queue_[e] \in Seq(Messages) /\ Done(e) \in Nat
      /\ QueueOrder(sent[e], posted[e], out_msg_queue_[e])
      /\ MessageWrites(writing[e]) # {} => Done(e) + 1 \in DOMAIN sent[e]
  BY EndFacts
<1>5. /\ QueueOrder(sent[e], posted[e], out_msg_queue_[e])' /\ Done(e)' = Done(e)
      /\ NoClose(posted[e])'
  BY <1>3, <1>4, OrderSend DEF Done
<1>6. \A i \in DOMAIN sent[e] : i \in DOMAIN sent'[e] /\ sent'[e][i] = sent[e][i]
  BY <1>3, <1>4
<1>7. Ordered'
  <2>1. /\ QueueOrder(sent[d], posted[d], out_msg_queue_[d])'
        /\ NoClose(posted[d])' \/ (d = "client" /\ phase' # "connected")
    BY <1>1, <1>3 DEF FInv, Ordered
  <2> QED
    BY <1>1, <1>5, <2>1 DEF Ordered
<1>8. WellFormed'
  <2>1. \A i \in DOMAIN sent'[e] : sent'[e][i] = m \/ (i \in DOMAIN sent[e] /\ sent'[e][i] = sent[e][i])
    BY <1>3, <1>4
  <2>2. \A i \in DOMAIN sent'[e] : HeaderTells(sent'[e][i])
    BY <2>1 DEF FInv, WellFormed
  <2>3. \A i \in DOMAIN sent'[d] : HeaderTells(sent'[d][i])
    BY <1>1, <1>3 DEF FInv, WellFormed
  <2>4. \A i \in DOMAIN sent'["client"] :
           sent'["client"][i].id = "ServerPing" => sent'["client"][i].payload # NoPayload
    <3>1. CASE e = "client"
      BY <2>1, <3>1 DEF FInv, WellFormed
    <3>2. CASE d = "client"
      BY <1>3, <3>2 DEF FInv, WellFormed
    <3> QED
      BY <1>1, <3>1, <3>2, Peers
  <2>5. \A x \in Ends : \A i \in DOMAIN sent'[x] : HeaderTells(sent'[x][i])
    BY <1>1, <2>2, <2>3
  <2> QED
    BY <2>4, <2>5 DEF WellFormed, HeaderTells
<1>9. Readers'
  <2>1. HalfRead(d)'
    BY <1>1, <1>6 DEF FInv, Readers, HalfRead
  <2>2. HalfRead(e)'
    BY <1>1, <1>3 DEF FInv, Readers, HalfRead, d
  <2>3. \A x \in Ends : HalfRead(x)'
    BY <1>1, <2>1, <2>2
  <2> QED
    BY <2>3 DEF FInv, Readers, Greeted
<1>10. Handshake'
  <2>1. ~solved' /\ ~early' => sent'["client"] = << >>
    BY <1>1, <1>3, Peers DEF FInv, Handshake
  <2> QED
    BY <2>1 DEF FInv, Handshake, handshake_check_
<1>11. Unused'
  <2>1. \A x \in Ends : sock[x] = "none" => sent'[x] = sent[x]
    BY <1>1, <1>3
  <2> QED
    BY <2>1 DEF FInv, Unused
<1>12. Delivered(d)' /\ Delivered(e)'
  <2>1. Delivered(e)'
    BY <1>3 DEF FInv, Delivered, d
  <2>2. /\ received[d] \in Seq(Messages) /\ Len(received[d]) <= Len(sent[e])
        /\ \A i \in DOMAIN received[d] : View(received[d][i]) = View(sent[e][i])
    BY <1>1, Types DEF FInv, Delivered
  <2>3. \A i \in DOMAIN received[d] : i \in DOMAIN sent[e]
    BY <1>4, <2>2
  <2>4. Len(sent'[e]) = Len(sent[e]) + 1 /\ Len(sent[e]) \in Nat /\ Len(received[d]) \in Nat
    BY <1>3, <1>4, <2>2
  <2>5. Len(received'[d]) <= Len(sent'[e])
    BY <2>2, <2>4
  <2>6. \A i \in DOMAIN received'[d] : View(received'[d][i]) = View(sent'[e][i])
    BY <1>6, <2>2, <2>3
  <2> QED
    BY <1>1, <2>1, <2>5, <2>6 DEF Delivered, View
<1>13. PatientClientAccepted'
  BY DEF FInv, PatientClientAccepted, handshake_check_
<1>14. Incoming(d)'
  <2>1. /\ Greeted(d) <=> Greeted(d)'
        /\ CanRead(d)' <=> CanRead(d)
        /\ Takes(d)' = Takes(d)
        /\ Live(e)' <=> Live(e)
    BY DEF Greeted, CanRead, Takes, Live
  <2>2. \A b : Gives(e, b) => Gives(e, b)'
    BY <1>3, <1>4, <1>5, GivesGrows DEF Gives
  <2>3. GreetingOver(e) => GreetingOver(e)'
    BY DEF GreetingOver
  <2>4. Live(e)' /\ Silent(d) => Fresh(e)'
    BY <1>1, <2>1, <2>2 DEF Silent, Fresh
  <2>5. Incoming(d) /\ \E x \in Messages : sent'[e] = Append(sent[e], x)
    BY <1>1, <1>3 DEF FInv
  <2> QED
    BY <1>1, <1>4, <2>1, <2>2, <2>3, <2>4, <2>5, IncomingKept
<1>15. Incoming(e)'
  <2>1. /\ Greeted(e) <=> Greeted(e)'
        /\ CanRead(e)' <=> CanRead(e)
        /\ Takes(e)' = Takes(e)
        /\ Done(d)' = Done(d)
        /\ Live(d)' <=> Live(d)
    BY <1>3 DEF Greeted, CanRead, Takes, Done, Live
  <2> QED
    BY <1>1, <1>3, <2>1, IncomingStays DEF d
<1> QED
  BY <1>1, <1>7, <1>8, <1>9, <1>10, <1>11, <1>12, <1>13, <1>14, <1>15 DEF FInv

(* The messages that the clients and the server make.                      *)
LEMMA MadeWell ==
  /\ \A id \in Ids, p \in Payloads \cup {NoPayload} :
        Message(id, p) \in Messages /\ HeaderTells(Message(id, p))
  /\ \A p \in Payloads : Message("ServerPing", p).payload # NoPayload
  /\ \A p : Message("MessageAll", p).id # "ServerPing"
<1>1. ASSUME NEW id \in Ids, NEW p \in Payloads \cup {NoPayload}
      PROVE  Message(id, p) \in Messages /\ HeaderTells(Message(id, p))
  BY MessageType DEF Message, HeaderTells
<1>2. \A p \in Payloads : Message("ServerPing", p).payload # NoPayload
  BY PayloadAssumption DEF Message
<1>3. \A p : Message("MessageAll", p).id # "ServerPing"
  BY DEF Message
<1> QED
  BY <1>1, <1>2, <1>3

(* A client that sends before it has solved the puzzle is early.           *)
LEMMA SendFrames ==
  ASSUME FInv, IInv', NEW m \in Messages, HeaderTells(m),
         m.id = "ServerPing" => m.payload # NoPayload, Send(m)
  PROVE  FInv'
<1>1. /\ UNCHANGED <<reading, writing, flushed, out_msg_queue_, tmp_input_msg_, handshake_out_,
                     key, validated, rejected, received, solved, wire, sock, connecting, phase>>
      /\ SendData("client", m) /\ early' = (early \/ ~solved) /\ phase = "connected"
      /\ sock["client"] # "none"
  BY DEF Send, net, sides, hs, isConnected
<1>2. NoClose(posted["client"])
  BY <1>1, Peers DEF FInv, Ordered
<1>3. (early => early') /\ (solved \/ early')
  BY <1>1
<1> QED
  BY <1>1, <1>2, <1>3, Peers, SendDataFrames

(* sendMessageToAllClients, for the message of another client.             *)
LEMMA AnnounceFrames ==
  ASSUME FInv, IInv', NEW p \in Payloads, Announce(p)
  PROVE  FInv'
<1> DEFINE m == Message("MessageAll", p)
<1>1. /\ UNCHANGED <<reading, writing, flushed, out_msg_queue_, tmp_input_msg_, handshake_out_,
                     key, validated, rejected, received, solved, early, wire, sock, connecting,
                     phase>>
      /\ SendData("server", m) /\ sock["server"] # "none"
  BY DEF Announce, net, sides, hs
<1>2. m \in Messages /\ HeaderTells(m)
  BY MadeWell DEF Ids
<1> HIDE DEF m
<1>3. NoClose(posted["server"])
  BY Peers DEF FInv, Ordered
<1> QED
  BY <1>1, <1>2, <1>3, Peers, SendDataFrames

(* onMessage sends back a ping as it was received: with its payload.       *)
LEMMA HandleFrames ==
  ASSUME FInv, IInv', Handle
  PROVE  FInv'
<1> DEFINE r == received["server"]
           m == r[handled + 1]
<1>1. /\ UNCHANGED <<reading, writing, flushed, out_msg_queue_, tmp_input_msg_, handshake_out_,
                     key, validated, rejected, received, solved, early, wire, sock, connecting,
                     phase>>
      /\ handled < Len(r)
      /\ IF m.id = "ServerPing" THEN SendData("server", m) ELSE UNCHANGED <<posted, sent>>
  BY DEF Handle, net, sides, hs
<1>2. r \in Seq(Messages) /\ handled \in Nat
  BY Peers, Types DEF FInv, IInv, TypeOK, HistType
<1>3. handled + 1 \in DOMAIN r /\ m \in Messages /\ r # << >>
  BY <1>1, <1>2
<1>4. CASE m.id = "ServerPing"
  <2>1. SendData("server", m)
    BY <1>1, <1>4
  <2>2. /\ handled + 1 \in DOMAIN sent["client"]
        /\ View(m) = View(sent["client"][handled + 1])
    <3>1. /\ Len(r) <= Len(sent["client"]) /\ sent["client"] \in Seq(Messages)
          /\ \A i \in DOMAIN r : View(r[i]) = View(sent["client"][i])
      BY Peers, Types DEF FInv, Delivered
    <3> QED
      BY <1>2, <1>3, <3>1
  <2> DEFINE s == sent["client"][handled + 1]
  <2>3. HeaderTells(s) /\ (s.id = "ServerPing" => s.payload # NoPayload)
    BY <2>2, Peers DEF FInv, WellFormed
  <2> HIDE DEF m, s
  <2>4. m.id = s.id /\ m.size = s.size
        /\ (IF m.size > 0 THEN m.payload ELSE NoPayload) = (IF s.size > 0 THEN s.payload ELSE NoPayload)
    BY <2>2 DEF View, s
  <2>5. s.size = 1
    BY <1>4, <2>3, <2>4 DEF HeaderTells
  <2>6. m.size = 1 /\ m.payload = s.payload
    BY <2>4, <2>5
  <2>7. HeaderTells(m)
    BY <1>4, <2>3, <2>4, <2>6 DEF HeaderTells
  <2>8. NoClose(posted["server"])
    BY Peers DEF FInv, Ordered
  <2>9. sock["server"] # "none"
    BY <1>3, Peers DEF FInv, IInv, Unopened
  <2> QED
    BY <1>1, <1>3, <2>1, <2>7, <2>8, <2>9, Peers, SendDataFrames DEF m
<1>5. CASE m.id # "ServerPing"
  <2>1. UNCHANGED <<posted, sent>>
    BY <1>1, <1>5
  <2>2. WellFormed' /\ PatientClientAccepted' /\ \A d \in Ends : Delivered(d)'
    BY <1>1, <2>1, TalkKept
  <2>3. Readers'
    BY <1>1, <2>1, ReadersKept
  <2>4. Ordered' /\ Handshake' /\ Unused'
    BY <1>1, <2>1 DEF FInv, Ordered, Handshake, Unused, handshake_check_
  <2>5. ASSUME NEW d \in Ends PROVE Incoming(d)'
    <3>1. /\ Greeted(d) <=> Greeted(d)'
          /\ CanRead(d)' <=> CanRead(d)
          /\ Takes(d)' = Takes(d)
          /\ Done(Peer(d))' = Done(Peer(d))
          /\ Live(Peer(d))' <=> Live(Peer(d))
      BY <1>1, <2>1 DEF Greeted, CanRead, Takes, Done, Live
    <3> QED
      BY <1>1, <2>1, <3>1, IncomingStays
  <2> QED
    BY <2>2, <2>3, <2>4, <2>5 DEF FInv
<1> QED
  BY <1>4, <1>5

(* An end closes its socket: nothing reaches anybody from now on, and what *)
(* is on the wire may still be read.                                       *)
LEMMA CloseFrames ==
  ASSUME FInv, IInv', NEW e \in Ends, RunClose(e) \/ WriteFails(e) \/ ReadFails(e)
  PROVE  FInv'
<1> DEFINE d == Peer(e)
<1>1. /\ d \in Ends /\ d # e /\ Peer(d) = e /\ \A x \in Ends : x = e \/ x = d
  BY Peers
<1>2. /\ UNCHANGED <<flushed, out_msg_queue_, tmp_input_msg_, handshake_out_, key, validated,
                     rejected, sent, received, solved, early, wire, connecting, phase>>
      /\ sock' = [sock EXCEPT ![e] = "closed"]
      /\ \/ posted' = posted
         \/ /\ posted[e] # << >> /\ Head(posted[e])[1] = "close"
            /\ posted' = [posted EXCEPT ![e] = Tail(@)]
      /\ \/ writing' = writing
         \/ writing[e] # << >> /\ writing' = [writing EXCEPT ![e] = Tail(@)]
      /\ reading' = reading \/ reading' = [reading EXCEPT ![e] = "none"]
  BY DEF RunClose, WriteFails, ReadFails, Close, net, hs, hist
<1>3. /\ sock \in [Ends -> {"none", "open", "closed"}] /\ posted \in [Ends -> Seq(Posts)]
      /\ writing \in [Ends -> Seq(Kinds)] /\ reading \in [Ends -> {"none", "hs", "hdr", "pl"}]
  BY Types DEF FInv
<1> HIDE DEF d
<1>4. /\ sock'[e] = "closed" /\ sock'[d] = sock[d] /\ posted'[d] = posted[d]
      /\ writing'[d] = writing[d] /\ reading'[d] = reading[d]
      /\ reading'[e] = reading[e] \/ reading'[e] = "none"
      /\ posted'[e] = posted[e] \/ (/\ posted[e] # << >> /\ Head(posted[e])[1] = "close"
                                    /\ posted'[e] = Tail(posted[e]))
      /\ writing'[e] = writing[e] \/ (writing[e] # << >> /\ writing'[e] = Tail(writing[e]))
  BY <1>1, <1>2, <1>3
<1>5. WellFormed' /\ PatientClientAccepted' /\ \A x \in Ends : Delivered(x)'
  BY <1>2, TalkKept
<1>6. Readers'
  <2>1. \A x \in Ends : reading'[x] = reading[x] \/ reading'[x] = "none"
    BY <1>1, <1>4
  <2> QED
    BY <1>2, <2>1, ReadersKept
<1>7. /\ sent[e] \in Seq(Messages) /\ posted[e] \in Seq(Posts) /\ out_msg_queue_[e] \in Seq(Messages)
      /\ QueueOrder(sent[e], posted[e], out_msg_queue_[e]) /\ writing[e] \in Seq(Kinds)
  BY EndFacts
<1>8. QueueOrder(sent[e], posted[e], out_msg_queue_[e])' /\ Done(e)' = Done(e)
  <2>1. CASE posted'[e] = posted[e]
    BY <1>2, <1>7, <2>1 DEF Done
  <2>2. CASE posted[e] # << >> /\ Head(posted[e])[1] = "close" /\ posted'[e] = Tail(posted[e])
    BY <1>2, <1>7, <2>2, OrderRunClose DEF Done
  <2> QED
    BY <1>4, <2>1, <2>2
<1>9. Ordered'
  <2>1. NoClose(posted[e]) => posted'[e] = posted[e]
    <3> SUFFICES ASSUME NoClose(posted[e]), posted[e] # << >>, Head(posted[e])[1] = "close"
                 PROVE  FALSE
      BY <1>4
    <3>1. 1 \in 1..Len(posted[e]) /\ Head(posted[e]) = posted[e][1]
      BY <1>7, TailFacts
    <3> QED
      BY <3>1 DEF NoClose
  <2>2. NoClose(posted[e])' \/ (e = "client" /\ phase' # "connected")
    BY <1>2, <2>1 DEF FInv, Ordered
  <2>3. /\ QueueOrder(sent[d], posted[d], out_msg_queue_[d])'
        /\ NoClose(posted[d])' \/ (d = "client" /\ phase' # "connected")
    BY <1>1, <1>2, <1>4 DEF FInv, Ordered
  <2> QED
    BY <1>1, <1>8, <2>2, <2>3 DEF Ordered
<1>10. Handshake'
  <2>1. ASSUME NEW x \in Ends
        PROVE  /\ \A i, j \in Greetings(writing'[x]) : i = j
               /\ Greetings(writing'[x]) # {} => Greetings(writing[x]) # {}
               /\ Greetings(writing'[x]) # {} => reading'[x] = reading[x] \/ reading'[x] = "none"
    <3>1. \A i, j \in Greetings(writing[x]) : i = j
      BY DEF FInv, Handshake
    <3>2. CASE writing'[x] = writing[x]
      BY <1>1, <1>4, <3>1, <3>2
    <3>3. CASE x = e /\ writing[e] # << >> /\ writing'[e] = Tail(writing[e])
      <4>1. \A i \in Greetings(writing'[e]) : i \in Nat /\ i + 1 \in Greetings(writing[e])
        BY <1>7, <3>3, GreetingTail
      <4> QED
        BY <1>4, <3>1, <3>3, <4>1
    <3> QED
      BY <1>1, <1>4, <3>2, <3>3
  <2>2. reading["client"] = "none" => reading'["client"] = "none"
    BY <1>1, <1>4, Peers
  <2>3. Greetings(writing'["client"]) # {} => Greetings(writing["client"]) # {}
    BY <2>1, Peers
  <2> QED
    BY <1>2, <2>1, <2>2, <2>3 DEF FInv, Handshake, handshake_check_
<1>11. Unused'
  <2>1. \A x \in Ends : sock'[x] = "none" => sock[x] = "none"
    BY <1>1, <1>4
  <2> QED
    BY <1>2, <2>1, Peers DEF FInv, Unused
<1>12. ASSUME NEW x \in Ends PROVE Incoming(x)'
  <2>1. Greeted(x) <=> Greeted(x)'
    BY <1>2 DEF Greeted
  <2>2. CanRead(x)' => CanRead(x) /\ Takes(x)' = Takes(x)
    <3>1. CASE x = e
      BY <1>2, <1>4, <3>1 DEF CanRead, Takes
    <3>2. CASE x = d
      BY <1>2, <1>4, <3>2 DEF CanRead, Takes
    <3> QED
      BY <1>1, <3>1, <3>2
  <2>3. ~Live(Peer(x))'
    BY <1>1, <1>4, Peers DEF Live
  <2>4. Done(Peer(x))' = Done(Peer(x))
    <3>1. Done(d)' = Done(d)
      BY <1>2, <1>4 DEF Done
    <3> QED
      BY <1>1, <1>8, <3>1, Peers
  <2> QED
    BY <1>2, <2>1, <2>2, <2>3, <2>4, IncomingStays
<1> QED
  BY <1>5, <1>6, <1>9, <1>10, <1>11, <1>12 DEF FInv

(* The accept handler: the server's number is the first to be written.     *)
LEMMA AcceptFrames ==
  ASSUME FInv, IInv', Accept
  PROVE  FInv'
<1> DEFINE m == Message("ServerAccept", NoPayload)
           x == <<"send", m>>
<1>1. /\ UNCHANGED <<flushed, out_msg_queue_, tmp_input_msg_, handshake_out_, key, validated,
                     rejected, received, solved, early, wire, connecting, phase>>
      /\ sock["server"] = "none"
      /\ sock' = [sock EXCEPT !["server"] = "open"]
      /\ posted' = [posted EXCEPT !["server"] = Append(@, x)]
      /\ sent' = [sent EXCEPT !["server"] = Append(@, m)]
      /\ writing' = [writing EXCEPT !["server"] = <<"hs">>]
      /\ reading' = [reading EXCEPT !["server"] = "hs"]
  BY DEF Accept, SendData, net, hs
<1>2. m \in Messages /\ HeaderTells(m)
  BY MadeWell DEF Ids
<1> HIDE DEF m
<1>3. /\ posted["server"] = << >> /\ out_msg_queue_["server"] = << >>
      /\ writing["server"] = << >> /\ reading["server"] = "none" /\ received["server"] = << >>
  BY <1>1, Peers DEF FInv, IInv, Unopened
<1>4. /\ sent["server"] = << >> /\ flushed["server"] = 0 /\ wire["client"] = << >>
      /\ ~solved /\ ~validated
  BY <1>1, Peers DEF FInv, Unused
<1>5. /\ sock'["server"] = "open" /\ sock'["client"] = sock["client"]
      /\ posted'["client"] = posted["client"] /\ sent'["client"] = sent["client"]
      /\ writing'["client"] = writing["client"] /\ reading'["client"] = reading["client"]
      /\ posted'["server"] = Append(<< >>, x) /\ sent'["server"] = Append(<< >>, m)
      /\ writing'["server"] = <<"hs">> /\ reading'["server"] = "hs"
  BY <1>1, <1>3, <1>4, Peers, Types DEF FInv
<1>6. /\ QueueOrder(sent["server"], posted["server"], out_msg_queue_["server"])
      /\ << >> \in Seq(Messages) /\ << >> \in Seq(Posts) /\ NoClose(<< >>)
      /\ DoneOf(<< >>, << >>, << >>) = 0
  <2>1. WaitingIn(<< >>) = 0
    BY DEF WaitingIn
  <2>2. DoneOf(<< >>, << >>, << >>) = 0
    BY <2>1 DEF DoneOf
  <2> QED
    BY <2>2, Peers DEF FInv, Ordered, NoClose
<1>7. /\ QueueOrder(sent["server"], posted["server"], out_msg_queue_["server"])'
      /\ Done("server")' = 0 /\ NoClose(posted["server"])'
  <2>1. QueueOrder(<< >>, << >>, << >>)
    BY <1>3, <1>4, <1>6
  <2>2. /\ QueueOrder(Append(<< >>, m), Append(<< >>, x), << >>)
        /\ DoneOf(Append(<< >>, m), Append(<< >>, x), << >>) = 0
        /\ NoClose(Append(<< >>, x))
    BY <1>2, <1>6, <2>1, OrderSend
  <2>3. out_msg_queue_'["server"] = << >>
    BY <1>1, <1>3
  <2> HIDE DEF x
  <2> QED
    BY <1>5, <2>2, <2>3 DEF Done
<1>8. Ordered'
  BY <1>1, <1>5, <1>7, Peers DEF FInv, Ordered
<1>9. WellFormed'
  <2>1. \A i \in DOMAIN sent'["server"] : sent'["server"][i] = m
    BY <1>2, <1>5
  <2>2. \A e \in Ends : \A i \in DOMAIN sent'[e] : HeaderTells(sent'[e][i])
    BY <1>2, <1>5, <2>1, Peers DEF FInv, WellFormed
  <2> QED
    BY <1>5, <2>2 DEF FInv, WellFormed, HeaderTells
<1>10. Readers'
  <2>1. HalfRead("client")'
    <3>1. reading["client"] # "pl"
      BY <1>4, Peers DEF FInv, Readers, Greeted
    <3> QED
      BY <1>5, <3>1 DEF HalfRead
  <2>2. HalfRead("server")'
    BY <1>5 DEF HalfRead
  <2> QED
    BY <1>1, <1>3, <1>4, <1>5, <2>1, <2>2, Peers DEF FInv, Readers, Greeted
<1>11. Handshake'
  <2>1. \A i \in Greetings(<<"hs">>) : i = 1
    BY DEF Greetings
  <2>2. \A e \in Ends : \A i, j \in Greetings(writing[e]) : i = j
    BY DEF FInv, Handshake
  <2>3. \A e \in Ends : \A i, j \in Greetings(writing'[e]) : i = j
    BY <1>5, <2>1, <2>2, Peers
  <2> QED
    BY <1>1, <1>5, <2>3 DEF FInv, Handshake, handshake_check_
<1>12. Unused'
  <2>1. \A e \in Ends : sock'[e] = "none" => e = "client" /\ sock["client"] = "none"
    BY <1>5, Peers
  <2> QED
    BY <1>1, <1>5, <2>1, Peers DEF FInv, Unused
<1>13. ASSUME NEW d \in Ends PROVE Delivered(d)'
  <2>1. received["client"] = << >>
    BY <1>4, Peers DEF FInv, Readers, Greeted
  <2>2. received'[d] = << >>
    BY <1>1, <1>3, <2>1, Peers
  <2>3. Len(sent'[Peer(d)]) \in Nat
    BY Peers, Types
  <2> QED
    BY <2>2, <2>3 DEF Delivered
<1>14. PatientClientAccepted'
  BY <1>1 DEF FInv, PatientClientAccepted, handshake_check_
<1>15. Incoming("client")'
  <2>1. Gives("server", <<"hdr", 1>>)'
    <3>1. MessageWrites(<<"hs">>) = {}
      BY DEF MessageWrites
    <3> QED
      BY <1>5, <1>7, <3>1 DEF Gives, GivesOf
  <2>2. Fresh("server")'
    BY <1>1, <1>4, <1>5, <2>1 DEF Fresh
  <2> QED
    BY <1>1, <1>4, <2>2, Peers DEF Incoming, Silent, Greeted
<1>16. Incoming("server")'
  <2>1. /\ Greeted("server") <=> Greeted("server")'
        /\ CanRead("server") /\ ~Greeted("server")
        /\ Done("client")' = Done("client")
        /\ Live("client")' => Live("client")
    BY <1>1, <1>4, <1>5, Peers DEF Greeted, CanRead, Done, Live
  <2> QED
    BY <1>1, <1>5, <2>1, Peers, IncomingStays
<1> QED
  BY <1>8, <1>9, <1>10, <1>11, <1>12, <1>13, <1>14, <1>15, <1>16, Peers DEF FInv

(* A handler of e's writes.  It may end the handshake of a client, which   *)
(* then reads messages.                                                    *)
LEMMA WriterFrames ==
  ASSUME FInv, IInv', NEW e \in Ends, NEW d, d = Peer(e), sock[e] # "none",
         UNCHANGED <<tmp_input_msg_, handshake_out_, key, validated, rejected, sent, received,
                     solved, early, wire, sock, connecting, phase>>,
         posted'[d] = posted[d], out_msg_queue_'[d] = out_msg_queue_[d],
         writing'[d] = writing[d], flushed'[d] = flushed[d], reading'[d] = reading[d],
         \/ reading'[e] = reading[e]
         \/ /\ e = "client" /\ solved /\ received[e] = << >> /\ reading[e] = "none"
            /\ Greetings(writing'[e]) = {}
            /\ reading'[e] \in {"none", "hdr"} /\ (reading'[e] = "hdr" => sock[e] = "open"),
         QueueOrder(sent[e], posted[e], out_msg_queue_[e])',
         NoClose(posted[e]) => NoClose(posted[e])',
         Greetings(writing'[e]) # {} => Greetings(writing[e]) # {},
         \A i, j \in Greetings(writing'[e]) : i = j,
         Live(e) => \A b \in Places : Gives(e, b) => Gives(e, b)',
         Live(e) /\ GreetingOver(e) => GreetingOver(e)',
         Live(e) /\ Silent(d) => Fresh(e)'
  PROVE  FInv'
<1>1. /\ d \in Ends /\ d # e /\ Peer(d) = e /\ \A x \in Ends : x = e \/ x = d
  BY Peers
<1>2. WellFormed' /\ PatientClientAccepted' /\ \A x \in Ends : Delivered(x)'
  BY TalkKept
<1>3. Ordered'
  BY <1>1 DEF FInv, Ordered
<1>4. Readers'
  <2>1. HalfRead(d)'
    BY <1>1 DEF FInv, Readers, HalfRead
  <2>2. HalfRead(e)'
    BY DEF FInv, Readers, HalfRead
  <2>3. ASSUME NEW x \in Ends
        PROVE  /\ reading'[x] \in {"hdr", "pl"} => Greeted(x)'
               /\ reading'[x] = "hs" => reading[x] = "hs"
    BY <1>1 DEF FInv, Readers, Greeted
  <2> QED
    BY <1>1, <2>1, <2>2, <2>3 DEF FInv, Readers, Greeted
<1>5. Handshake'
  <2>0. \A x \in Ends : \A i, j \in Greetings(writing[x]) : i = j
    BY DEF FInv, Handshake
  <2>1. \A x \in Ends : \A i, j \in Greetings(writing'[x]) : i = j
    BY <1>1, <2>0, SMTT(30)
  <2>2. Greetings(writing'["client"]) # {}
           => Greetings(writing["client"]) # {} /\ reading'["client"] = reading["client"]
    BY <1>1, Peers
  <2>3. connecting => reading'["client"] = reading["client"]
    BY <1>1, Peers DEF FInv, Handshake
  <2> QED
    BY <2>1, <2>2, <2>3 DEF FInv, Handshake, handshake_check_
<1>6. Unused'
  <2>1. \A x \in Ends : sock[x] = "none" => flushed'[x] = flushed[x]
    BY <1>1
  <2> QED
    BY <2>1 DEF FInv, Unused
<1>7. Incoming(d)'
  <2>1. /\ Greeted(d) <=> Greeted(d)'
        /\ CanRead(d)' <=> CanRead(d)
        /\ Takes(d)' = Takes(d)
        /\ Live(e)' <=> Live(e)
    BY DEF Greeted, CanRead, Takes, Live
  <2>2. Incoming(d) /\ sent[e] \in Seq(Messages)
    BY <1>1, EndFacts DEF FInv
  <2> QED
    BY <1>1, <2>1, <2>2, IncomingKept
<1>8. Incoming(e)'
  <2>1. /\ Greeted(e) <=> Greeted(e)'
        /\ Done(d)' = Done(d)
        /\ Live(d)' <=> Live(d)
    BY DEF Greeted, Done, Live
  <2>2. CanRead(e)' => CanRead(e) /\ Takes(e)' = Takes(e)
    BY DEF CanRead, Takes
  <2> QED
    BY <1>1, <2>1, <2>2, IncomingStays
<1> QED
  BY <1>1, <1>2, <1>3, <1>4, <1>5, <1>6, <1>7, <1>8 DEF FInv

(* SendData's handler: the header that it may start writing is that of the *)
(* message to be written next.                                             *)
LEMMA RunSendFrames ==
  ASSUME FInv, IInv', NEW e \in Ends, RunSend(e)
  PROVE  FInv'
<1> DEFINE d == Peer(e)
           m == Head(posted[e])[2]
           W == writing[e]
           Q == out_msg_queue_[e]
           W2 == IF Q # << >> THEN W ELSE Started(e, W, "hdr")
<1>0. d \in Ends /\ d # e
  BY Peers
<1>1. /\ UNCHANGED <<tmp_input_msg_, handshake_out_, key, validated, rejected, sent, received,
                     solved, early, wire, sock, connecting, phase, flushed, reading>>
      /\ posted[e] # << >> /\ Head(posted[e])[1] = "send"
      /\ posted' = [posted EXCEPT ![e] = Tail(@)]
      /\ out_msg_queue_' = [out_msg_queue_ EXCEPT ![e] = Append(@, m)]
      /\ writing' = IF Q # << >> THEN writing ELSE [writing EXCEPT ![e] = Started(e, @, "hdr")]
  BY DEF RunSend, net, sides, hs, hist
<1>2. /\ posted \in [Ends -> Seq(Posts)] /\ out_msg_queue_ \in [Ends -> Seq(Messages)]
      /\ writing \in [Ends -> Seq(Kinds)]
  BY Types DEF FInv
<1>3. /\ posted'[e] = Tail(posted[e]) /\ out_msg_queue_'[e] = Append(Q, m) /\ writing'[e] = W2
      /\ posted'[d] = posted[d] /\ out_msg_queue_'[d] = out_msg_queue_[d]
      /\ writing'[d] = writing[d]
  BY <1>0, <1>1, <1>2
<1>4. /\ sent[e] \in Seq(Messages) /\ posted[e] \in Seq(Posts) /\ Q \in Seq(Messages)
      /\ W \in Seq(Kinds) /\ QueueOrder(sent[e], posted[e], Q) /\ Done(e) \in Nat
      /\ MessageWrites(W) # {} => Q # << >>
      /\ flushed[e] \in Nat /\ flushed[e] <= Len(W)
  BY EndFacts
<1>5. W2 = W \/ W2 = Append(W, "hdr")
  BY DEF Started
<1>6. QueueOrder(sent[e], posted[e], out_msg_queue_[e])' /\ Done(e)' = Done(e)
  <2> HIDE DEF m, Q
  <2>1. /\ QueueOrder(sent[e], Tail(posted[e]), Append(Q, m))
        /\ DoneOf(sent[e], Tail(posted[e]), Append(Q, m)) = DoneOf(sent[e], posted[e], Q)
    BY <1>1, <1>4, OrderRunSend DEF m
  <2> QED
    BY <1>1, <1>3, <2>1 DEF Done, Q
<1>7. NoClose(posted[e]) => NoClose(posted[e])'
  <2> DEFINE P == posted[e]
  <2>0. P \in Seq(Posts) /\ P # << >> /\ posted'[e] = Tail(P)
    BY <1>1, <1>3, <1>4
  <2> HIDE DEF P
  <2>1. /\ Len(P) \in Nat \ {0} /\ Len(posted'[e]) = Len(P) - 1
        /\ \A i \in 1..(Len(P) - 1) : posted'[e][i] = P[i + 1]
    BY <2>0, TailFacts
  <2>2. \A i \in 1..Len(posted'[e]) : i + 1 \in 1..Len(P) /\ posted'[e][i] = P[i + 1]
    BY <2>1
  <2> QED
    BY <2>2 DEF NoClose, P
<1> HIDE DEF W, W2, Q, m, d
<1>8. /\ Greetings(W2) = Greetings(W)
      /\ W # << >> => W2 # << >> /\ W2[1] = W[1]
  <2>1. CASE W2 = W
    BY <2>1
  <2>2. CASE W2 = Append(W, "hdr")
    <3>1. W \in Seq(Kinds) /\ "hdr" \in Kinds
      BY <1>4 DEF Kinds
    <3> QED
      BY <2>2, <3>1, GreetingAppend
  <2> QED
    BY <1>5, <2>1, <2>2
<1>9. Live(e) => \A b : Gives(e, b) => Gives(e, b)'
  <2> SUFFICES ASSUME Live(e), NEW b, GivesOf(W, flushed[e], Done(e), sent[e], b)
               PROVE  GivesOf(W2, flushed[e], Done(e), sent[e], b)
    BY <1>1, <1>3, <1>6 DEF Gives, W
  <2>1. CASE Q # << >>
    BY <2>1 DEF W2
  <2>2. CASE Q = << >>
    <3>1. MessageWrites(W) = {} /\ b = <<"hdr", Done(e) + 1>>
      BY <1>4, <2>2 DEF GivesOf
    <3>2. W2 = Append(W, "hdr")
      BY <2>2 DEF W2, Started, Live
    <3> QED
      BY <1>4, <3>1, <3>2, GivesStart
  <2> QED
    BY <2>1, <2>2
<1>10. GreetingOver(e) => GreetingOver(e)'
  BY <1>1, <1>3, <1>8 DEF GreetingOver, W
<1>11. Live(e) /\ Silent(d) => Fresh(e)'
  <2> SUFFICES ASSUME Live(e), Silent(d) PROVE Fresh(e)'
    OBVIOUS
  <2>1. /\ flushed[e] = 0 /\ Gives(e, <<"hdr", 1>>)
        /\ e = "server" \/ (solved /\ ~early) => W # << >> /\ W[1] = "hs"
    BY Peers DEF Silent, Fresh, W, d
  <2>2. Gives(e, <<"hdr", 1>>)'
    BY <1>9, <2>1
  <2>3. e = "server" \/ (solved /\ ~early) => writing'[e] # << >> /\ writing'[e][1] = "hs"
    BY <1>3, <1>8, <2>1
  <2> QED
    BY <1>1, <2>1, <2>2, <2>3 DEF Fresh
<1>12. sock[e] # "none"
  BY <1>1 DEF FInv, IInv, Unopened
<1>13. \A i, j \in Greetings(writing'[e]) : i = j
  BY <1>3, <1>8 DEF FInv, Handshake, W
<1>14. Greetings(writing'[e]) # {} => Greetings(writing[e]) # {}
  BY <1>3, <1>8 DEF W
<1> QED
  BY <1>1, <1>3, <1>6, <1>7, <1>9, <1>10, <1>11, <1>12, <1>13, <1>14, WriterFrames DEF d

(* The numbers of the handshake among e's writes when the oldest is done   *)
(* and perhaps a message write is started.                                 *)
LEMMA GreetingDone ==
  ASSUME FInv, NEW e \in Ends, writing[e] # << >>, flushed[e] > 0,
         NEW k \in {"hdr", "pl"}, NEW w2,
         w2 = Tail(writing[e]) \/ w2 = Append(Tail(writing[e]), k)
  PROVE  /\ \A i, j \in Greetings(w2) : i = j
         /\ Greetings(w2) # {} => Greetings(writing[e]) # {}
         /\ (\A i \in Greetings(writing[e]) : i <= flushed[e])
               => \A i \in Greetings(w2) : i <= flushed[e] - 1
         /\ Head(writing[e]) = "hs" => Greetings(w2) = {}
<1> DEFINE W == writing[e]
<1>1. W \in Seq(Kinds) /\ Tail(W) \in Seq(Kinds) /\ k \in Kinds /\ flushed[e] \in Nat
  BY EndFacts, TailFacts DEF Kinds
<1>2. Greetings(w2) = Greetings(Tail(W))
  BY <1>1, GreetingAppend
<1>3. /\ \A i \in Greetings(Tail(W)) : i \in Nat \ {0} /\ i + 1 \in Greetings(W)
      /\ 1 \in Greetings(W) <=> Head(W) = "hs"
  BY <1>1, GreetingTail
<1>4. \A i, j \in Greetings(W) : i = j
  BY DEF FInv, Handshake
<1>5. \A i, j \in Greetings(w2) : i = j
  <2> SUFFICES ASSUME NEW i \in Greetings(w2), NEW j \in Greetings(w2) PROVE i = j
    OBVIOUS
  <2>1. i \in Nat /\ j \in Nat /\ i + 1 = j + 1
    BY <1>2, <1>3, <1>4
  <2> QED
    BY <2>1
<1>6. ASSUME \A i \in Greetings(W) : i <= flushed[e], NEW i \in Greetings(w2)
      PROVE  i <= flushed[e] - 1
  <2>1. i \in Nat /\ i + 1 <= flushed[e]
    BY <1>2, <1>3, <1>6
  <2> QED
    BY <1>1, <2>1
<1>7. ASSUME Head(W) = "hs", NEW i \in Greetings(w2) PROVE FALSE
  <2>1. i \in Nat \ {0} /\ i + 1 = 1
    BY <1>2, <1>3, <1>4, <1>7
  <2> QED
    BY <2>1
<1> QED
  BY <1>2, <1>3, <1>5, <1>6, <1>7

(* A write is done: n2 messages are over now, q2 is the queue and w2 the   *)
(* writes that are left or started.                                        *)
LEMMA WrittenFrames ==
  ASSUME FInv, IInv', NEW e \in Ends, NEW what \in {"hs", "hdr", "pl"}, WriteDone(e, what),
         NEW k \in {"hdr", "pl"}, NEW q2, NEW w2, NEW n2 \in Nat,
         w2 = Tail(writing[e]) \/ w2 = Append(Tail(writing[e]), k),
         writing' = [writing EXCEPT ![e] = w2],
         out_msg_queue_' = [out_msg_queue_ EXCEPT ![e] = q2],
         reading' = IF e = "client" /\ what = "hs"
                    THEN [reading EXCEPT ![e] = IF sock[e] = "open" THEN "hdr" ELSE "none"]
                    ELSE reading,
         QueueOrder(sent[e], posted[e], q2), DoneOf(sent[e], posted[e], q2) = n2,
         Live(e) => \A b : Gives(e, b) => GivesOf(w2, flushed[e] - 1, n2, sent[e], b)
  PROVE  FInv'
<1> DEFINE d == Peer(e)
<1>0. d \in Ends /\ d # e
  BY Peers
<1>1. /\ UNCHANGED <<tmp_input_msg_, handshake_out_, key, validated, rejected, sent, received,
                     solved, early, wire, sock, connecting, phase, posted>>
      /\ flushed' = [flushed EXCEPT ![e] = @ - 1] /\ flushed[e] > 0 /\ Head(writing[e]) = what
  BY DEF WriteDone, net, sides, hs, hist
<1>2. /\ writing \in [Ends -> Seq(Kinds)] /\ out_msg_queue_ \in [Ends -> Seq(Messages)]
      /\ flushed \in [Ends -> Nat] /\ flushed[e] <= Len(writing[e])
      /\ reading \in [Ends -> {"none", "hs", "hdr", "pl"}]
  BY Types DEF FInv
<1> HIDE DEF d
<1>3. /\ writing'[e] = w2 /\ out_msg_queue_'[e] = q2 /\ flushed'[e] = flushed[e] - 1
      /\ writing'[d] = writing[d] /\ out_msg_queue_'[d] = out_msg_queue_[d]
      /\ flushed'[d] = flushed[d] /\ reading'[d] = reading[d]
  BY <1>0, <1>1, <1>2
<1>4. writing[e] # << >>
  <2>1. Len(writing[e]) > 0 /\ writing[e] \in Seq(Kinds)
    BY <1>1, <1>2
  <2> QED
    BY <2>1
<1>5. sock[e] # "none"
  BY <1>4 DEF FInv, IInv, Unopened
<1>6. /\ \A i, j \in Greetings(w2) : i = j
      /\ Greetings(w2) # {} => Greetings(writing[e]) # {}
      /\ (\A i \in Greetings(writing[e]) : i <= flushed[e])
            => \A i \in Greetings(w2) : i <= flushed[e] - 1
      /\ what = "hs" => Greetings(w2) = {}
  BY <1>1, <1>4, GreetingDone
<1>7. \/ reading'[e] = reading[e]
      \/ /\ e = "client" /\ solved /\ received[e] = << >> /\ reading[e] = "none"
         /\ Greetings(writing'[e]) = {}
         /\ reading'[e] \in {"none", "hdr"} /\ (reading'[e] = "hdr" => sock[e] = "open")
  <2>1. CASE e = "client" /\ what = "hs"
    <3>1. reading' = [reading EXCEPT ![e] = IF sock[e] = "open" THEN "hdr" ELSE "none"]
      BY <2>1
    <3>2. reading'[e] = IF sock[e] = "open" THEN "hdr" ELSE "none"
      BY <1>2, <3>1
    <3>3. 1 \in Greetings(writing[e])
      BY <1>1, <1>2, <1>4, <2>1, GreetingTail
    <3>4. solved /\ reading[e] = "none" /\ received[e] = << >>
      BY <2>1, <3>3 DEF FInv, Handshake
    <3> QED
      BY <1>3, <1>6, <2>1, <3>2, <3>4
  <2>2. CASE ~(e = "client" /\ what = "hs")
    BY <2>2
  <2> QED
    BY <2>1, <2>2
<1>8. QueueOrder(sent[e], posted[e], out_msg_queue_[e])' /\ Done(e)' = n2
  BY <1>1, <1>3 DEF Done
<1>9. Live(e) => \A b \in Places : Gives(e, b) => Gives(e, b)'
  BY <1>1, <1>3, <1>8 DEF Gives
<1>10. GreetingOver(e) => GreetingOver(e)'
  BY <1>3, <1>6 DEF GreetingOver
<1>11. Live(e) /\ Silent(d) => Fresh(e)'
  <2>1. ~(Live(e) /\ Silent(d))
    BY <1>1, <1>2, Peers DEF Silent, Fresh, d
  <2> QED
    BY <2>1
<1>12. /\ NoClose(posted[e]) => NoClose(posted[e])'
       /\ posted'[d] = posted[d] /\ d = Peer(e)
       /\ Greetings(writing'[e]) # {} => Greetings(writing[e]) # {}
       /\ \A i, j \in Greetings(writing'[e]) : i = j
  BY <1>1, <1>3, <1>6 DEF d
<1>13. Live(e) /\ GreetingOver(e) => GreetingOver(e)'
  BY <1>10
<1> QED
  BY <1>1, <1>3, <1>5, <1>7, <1>8, <1>9, <1>11, <1>12, <1>13, WriterFrames, ZenonT(60)

(* SendValidationData's handler.                                           *)
LEMMA ValidationSentFrames ==
  ASSUME FInv, IInv', NEW e \in Ends, ValidationSent(e)
  PROVE  FInv'
<1> DEFINE W == writing[e]
           Q == out_msg_queue_[e]
<1>1. /\ WriteDone(e, "hs") /\ writing' = [writing EXCEPT ![e] = Tail(W)]
      /\ flushed[e] > 0 /\ Head(W) = "hs"
      /\ reading' = IF e = "client" /\ "hs" = "hs"
                    THEN [reading EXCEPT ![e] = IF sock[e] = "open" THEN "hdr" ELSE "none"]
                    ELSE reading
      /\ UNCHANGED out_msg_queue_
  BY DEF ValidationSent, WriteDone, StartRead
<1>2. /\ W \in Seq(Kinds) /\ flushed[e] \in Nat /\ flushed[e] <= Len(W) /\ Done(e) \in Nat
      /\ QueueOrder(sent[e], posted[e], Q)
  BY EndFacts
<1>3. out_msg_queue_' = [out_msg_queue_ EXCEPT ![e] = Q]
  BY <1>1, Types DEF FInv
<1>4. W # << >>
  <2>1. Len(W) > 0
    BY <1>1, <1>2
  <2> QED
    BY <1>2, <2>1
<1> HIDE DEF W
<1>5. \A b : Gives(e, b) => GivesOf(Tail(W), flushed[e] - 1, Done(e), sent[e], b)
  BY <1>1, <1>2, <1>4, GivesHandshake DEF Gives, W
<1> QED
  BY <1>1, <1>2, <1>3, <1>5, WrittenFrames DEF Done, W

(* The front of the queue is written: the next place is the next header.   *)
LEMMA NextMessageFrames ==
  ASSUME FInv, IInv', NEW e \in Ends, NEW k \in {"hdr", "pl"}, WriteDone(e, k), NextMessage(e),
         k = "hdr" => Head(out_msg_queue_[e]).payload = NoPayload
  PROVE  FInv'
<1> DEFINE W == writing[e]
           T == Tail(W)
           Q == out_msg_queue_[e]
           n == Done(e)
           w2 == IF Len(Q) > 1 THEN Started(e, T, "hdr") ELSE T
<1>1. /\ writing' = [writing EXCEPT ![e] = w2]
      /\ out_msg_queue_' = [out_msg_queue_ EXCEPT ![e] = Tail(Q)]
      /\ flushed[e] > 0 /\ Head(W) = k /\ reading' = reading
  BY DEF NextMessage, WriteDone
<1>2. /\ W \in Seq(Kinds) /\ flushed[e] \in Nat /\ flushed[e] <= Len(W) /\ n \in Nat
      /\ QueueOrder(sent[e], posted[e], Q) /\ Q \in Seq(Messages)
      /\ sent[e] \in Seq(Messages) /\ posted[e] \in Seq(Posts)
      /\ LoopOK(W, Q, sock[e] = "closed") /\ (sock[e] = "closed") \in BOOLEAN
  BY EndFacts, LoopFacts DEF FInv
<1>3. W # << >>
  <2>1. Len(W) > 0
    BY <1>1, <1>2
  <2> QED
    BY <1>2, <2>1
<1>4. Q # << >> /\ MessageWrites(T) = {} /\ T \in Seq(Kinds) /\ Len(T) = Len(W) - 1
  <2> DEFINE c == sock[e] = "closed"
  <2>1. LoopOK(W, Q, c) /\ c \in BOOLEAN
    BY <1>2
  <2> HIDE DEF c, W, Q
  <2>2. Q # << >> /\ MessageWrites(Tail(W)) = {}
    BY <1>1, <1>2, <1>3, <2>1, LoopDone
  <2> QED
    BY <1>2, <1>3, <2>2, TailFacts
<1>5. Head(Q) = sent[e][n + 1] /\ n + 1 \in DOMAIN sent[e]
  BY <1>4, EndFacts
<1>6. QueueOrder(sent[e], posted[e], Tail(Q)) /\ DoneOf(sent[e], posted[e], Tail(Q)) = n + 1
  BY <1>2, <1>4, OrderPop DEF Done
<1>7. w2 = T \/ w2 = Append(T, "hdr")
  BY DEF Started
<1> HIDE DEF W, T, Q, n, w2
<1>8. ASSUME Live(e), NEW b, GivesOf(W, flushed[e], n, sent[e], b)
      PROVE  GivesOf(w2, flushed[e] - 1, n + 1, sent[e], b)
  <2>1. b = After(<<k, n + 1>>, sent[e])
    BY <1>1, <1>2, <1>3, <1>8, GivesDone
  <2>2. b = <<"hdr", (n + 1) + 1>>
    BY <1>5, <2>1 DEF After, Q
  <2>3. flushed[e] - 1 \in Nat /\ flushed[e] - 1 <= Len(T) /\ n + 1 \in Nat
    BY <1>1, <1>2, <1>4
  <2> QED
    BY <1>4, <1>7, <2>2, <2>3, GivesStart
<1>9. n + 1 \in Nat /\ Live(e) => \A b : Gives(e, b) => GivesOf(w2, flushed[e] - 1, n + 1, sent[e], b)
  BY <1>2, <1>8 DEF Gives, W, n
<1>10. ~(e = "client" /\ k = "hs") /\ n + 1 \in Nat
  BY <1>2
<1>11. w2 = Tail(writing[e]) \/ w2 = Append(Tail(writing[e]), "hdr")
  BY <1>7 DEF T, W
<1> QED
  BY <1>1, <1>6, <1>9, <1>10, <1>11, WrittenFrames

(* WriteHeader's handler: the payload follows, or the next message.        *)
LEMMA HeaderSentFrames ==
  ASSUME FInv, IInv', NEW e \in Ends, HeaderSent(e)
  PROVE  FInv'
<1> DEFINE W == writing[e]
           T == Tail(W)
           Q == out_msg_queue_[e]
           n == Done(e)
           w2 == Started(e, T, "pl")
<1>0. WriteDone(e, "hdr") /\ flushed[e] > 0 /\ Head(W) = "hdr"
  BY DEF HeaderSent, WriteDone
<1>1. CASE Head(Q).payload # NoPayload
  <2>1. writing' = [writing EXCEPT ![e] = w2] /\ UNCHANGED <<out_msg_queue_, reading>>
    BY <1>1 DEF HeaderSent
  <2>2. /\ W \in Seq(Kinds) /\ flushed[e] \in Nat /\ flushed[e] <= Len(W) /\ n \in Nat
        /\ QueueOrder(sent[e], posted[e], Q) /\ Q \in Seq(Messages)
        /\ LoopOK(W, Q, sock[e] = "closed") /\ (sock[e] = "closed") \in BOOLEAN
    BY EndFacts, LoopFacts DEF FInv
  <2>3. W # << >>
    <3>1. Len(W) > 0
      BY <1>0, <2>2
    <3> QED
      BY <2>2, <3>1
  <2>4. Q # << >> /\ MessageWrites(T) = {} /\ T \in Seq(Kinds) /\ Len(T) = Len(W) - 1
    <3> DEFINE c == sock[e] = "closed"
    <3>1. LoopOK(W, Q, c) /\ c \in BOOLEAN
      BY <2>2
    <3> HIDE DEF c, W, Q
    <3>2. Q # << >> /\ MessageWrites(Tail(W)) = {}
      BY <1>0, <2>2, <2>3, <3>1, LoopDone
    <3> QED
      BY <2>2, <2>3, <3>2, TailFacts
  <2>5. Head(Q) = sent[e][n + 1]
    BY <2>4, EndFacts
  <2>6. out_msg_queue_' = [out_msg_queue_ EXCEPT ![e] = Q]
    BY <2>1, Types DEF FInv
  <2>7. (w2 = T \/ w2 = Append(T, "pl")) /\ (Live(e) => w2 = Append(T, "pl"))
    BY DEF Started, Live
  <2>8. DoneOf(sent[e], posted[e], Q) = n
    BY DEF Done
  <2> HIDE DEF W, T, Q, n, w2
  <2>9. ASSUME Live(e), NEW b, GivesOf(W, flushed[e], n, sent[e], b)
        PROVE  GivesOf(w2, flushed[e] - 1, n, sent[e], b)
    <3>1. b = After(<<"hdr", n + 1>>, sent[e])
      BY <1>0, <2>2, <2>3, <2>9, GivesDone
    <3>2. b = <<"pl", n + 1>>
      BY <1>1, <2>5, <3>1 DEF After
    <3>3. flushed[e] - 1 \in Nat /\ flushed[e] - 1 <= Len(T)
      BY <1>0, <2>2, <2>4
    <3> QED
      BY <2>2, <2>4, <2>7, <2>9, <3>2, <3>3, GivesStart
  <2>10. Live(e) => \A b : Gives(e, b) => GivesOf(w2, flushed[e] - 1, n, sent[e], b)
    BY <2>9 DEF Gives, W, n
  <2>11. w2 = Tail(writing[e]) \/ w2 = Append(Tail(writing[e]), "pl")
    BY <2>7 DEF T, W
  <2>12. QueueOrder(sent[e], posted[e], Q)
    BY <2>2
  <2> QED
    BY <1>0, <2>1, <2>2, <2>6, <2>8, <2>10, <2>11, <2>12, WrittenFrames
<1>2. CASE Head(Q).payload = NoPayload
  <2>1. NextMessage(e)
    BY <1>2 DEF HeaderSent
  <2> QED
    BY <1>0, <1>2, <2>1, NextMessageFrames
<1> QED
  BY <1>1, <1>2

(* WritePayload's handler.                                                 *)
LEMMA PayloadSentFrames ==
  ASSUME FInv, IInv', NEW e \in Ends, PayloadSent(e)
  PROVE  FInv'
  BY NextMessageFrames DEF PayloadSent

(* A reader is at a place of its peer's stream.                            *)
LEMMA TakesPlace ==
  ASSUME FInv, NEW d \in Ends
  PROVE  Takes(d) \in Places
<1>1. received[d] \in Seq(Messages)
  BY Types DEF FInv
<1>2. Len(received[d]) + 1 \in Nat \ {0}
  BY <1>1
<1> QED
  BY <1>2 DEF Takes, Places

(* A unit goes on the wire: the one that is due, or the handshake's number *)
(* in front of everything, or, from a client, something early.             *)
LEMMA TransferFrames ==
  ASSUME FInv, IInv', NEW e \in Ends, Transfer(e)
  PROVE  FInv'
<1> DEFINE d == Peer(e)
           W == writing[e]
           F == flushed[e]
           n == Done(e)
           S == sent[e]
           w == wire[d]
           what == W[F + 1]
           u == Unit(e, what)
<1>0. /\ d \in Ends /\ d # e /\ Peer(d) = e /\ \A x \in Ends : x = e \/ x = d
  BY Peers
<1>1. /\ UNCHANGED <<tmp_input_msg_, handshake_out_, key, validated, rejected, sent, received,
                     solved, early, sock, connecting, phase, posted, reading, writing,
                     out_msg_queue_>>
      /\ sock[e] = "open" /\ F < Len(W) /\ flushed' = [flushed EXCEPT ![e] = @ + 1]
      /\ wire' = IF sock[d] = "closed" THEN wire ELSE [wire EXCEPT ![d] = Append(@, u)]
  BY DEF Transfer, sides, hs, hist
<1>2. wire \in [Ends -> Seq(Units)] /\ flushed \in [Ends -> Nat]
  BY Types DEF FInv
<1>3. /\ W \in Seq(Kinds) /\ F \in Nat /\ n \in Nat /\ S \in Seq(Messages) /\ w \in Seq(Units)
      /\ \A i, j \in MessageWrites(W) : i = j
  BY <1>0, <1>2, EndFacts
<1>4. F + 1 \in DOMAIN W /\ what \in Kinds
  BY <1>1, <1>3
<1>5. what = "hs" => u = <<"hs", handshake_out_[e]>>
  BY DEF Unit
<1>6. what # "hs" => n + 1 \in DOMAIN S /\ u = UnitAt(<<what, n + 1>>, S)
  <2> SUFFICES ASSUME what # "hs" PROVE n + 1 \in DOMAIN S /\ u = UnitAt(<<what, n + 1>>, S)
    OBVIOUS
  <2>1. F + 1 \in MessageWrites(W)
    BY <1>4 DEF MessageWrites
  <2>2. n + 1 \in DOMAIN S /\ Head(out_msg_queue_[e]) = S[n + 1]
    BY <2>1, EndFacts
  <2> HIDE DEF n, S
  <2>3. what = "hdr" \/ what = "pl"
    BY <1>4 DEF Kinds
  <2>4. /\ what = "hdr" => u = <<"hdr", S[n + 1].id, S[n + 1].size>>
        /\ what = "pl" => u = <<"pl", S[n + 1].payload>>
    BY <2>2 DEF Unit
  <2> QED
    BY <2>2, <2>3, <2>4 DEF UnitAt
<1>7. /\ flushed'[e] = F + 1 /\ flushed'[d] = flushed[d] /\ wire'[e] = wire[e]
      /\ sock[d] = "closed" => wire'[d] = w
      /\ sock[d] # "closed" => wire'[d] = Append(w, u)
  BY <1>0, <1>1, <1>2
<1>8. WellFormed' /\ PatientClientAccepted' /\ \A x \in Ends : Delivered(x)'
  BY <1>1, TalkKept
<1>9. Readers' /\ Ordered' /\ Handshake'
  <2>1. Readers'
    BY <1>1, ReadersKept
  <2> QED
    BY <1>1, <2>1 DEF FInv, Ordered, Handshake, handshake_check_
<1>10. Unused'
  <2>1. \A x \in Ends : sock[x] = "none" => flushed'[x] = flushed[x] /\ wire'[Peer(x)] = wire[Peer(x)]
    BY <1>0, <1>1, <1>7
  <2> QED
    BY <1>1, <2>1 DEF FInv, Unused
<1>11. Incoming(e)'
  <2>1. /\ Greeted(e) <=> Greeted(e)'
        /\ CanRead(e)' <=> CanRead(e)
        /\ Takes(e)' = Takes(e)
        /\ Done(d)' = Done(d)
        /\ Live(d)' <=> Live(d)
    BY <1>1 DEF Greeted, CanRead, Takes, Done, Live
  <2> QED
    BY <1>0, <1>1, <1>7, <2>1, IncomingStays DEF d
<1>12. /\ Greeted(d) <=> Greeted(d)'
       /\ CanRead(d)' <=> CanRead(d)
       /\ Takes(d)' = Takes(d)
       /\ Done(e)' = Done(e)
       /\ Live(e)' <=> Live(e)
  BY <1>1 DEF Greeted, CanRead, Takes, Done, Live
<1>13. CASE sock[d] = "closed"
  <2>1. ~Live(e)'
    BY <1>1, <1>13 DEF Live
  <2>2. Incoming(d)'
    BY <1>0, <1>1, <1>7, <1>12, <1>13, <2>1, IncomingStays
  <2> QED
    BY <1>0, <1>8, <1>9, <1>10, <1>11, <2>2 DEF FInv
<1>14. CASE sock[d] # "closed"
  <2>1. Live(e) /\ CanRead(d)
    BY <1>1, <1>14 DEF Live, CanRead
  <2>2. AfterGreeting(d) \/ Silent(d) \/ GreetingFirst(d) \/ EarlyFirst(d)
    BY <1>0, <2>1 DEF FInv, Incoming
  <2>3. wire'[d] = Append(w, u) /\ u \in Units
    <3>1. wire'[d] = Append(w, u)
      BY <1>7, <1>14
    <3>2. /\ what # "hs" => out_msg_queue_[e] # << >>
          /\ what = "pl" => Head(out_msg_queue_[e]).payload # NoPayload
      <4>1. what # "hs" => F + 1 \in MessageWrites(W)
        BY <1>4 DEF MessageWrites
      <4>2. LoopOK(W, out_msg_queue_[e], sock[e] = "closed")
        BY LoopFacts DEF FInv
      <4> QED
        BY <4>1, <4>2 DEF LoopOK
    <3> HIDE DEF what
    <3>3. u \in Units
      BY <1>4, <3>2, UnitIsTyped DEF FInv, IInv, Kinds
    <3> QED
      BY <3>1, <3>3
  <2>4. w # << >> => Head(Append(w, u)) = Head(w) /\ Tail(Append(w, u)) = Append(Tail(w), u)
    <3>1. w # << >> => Tail(Append(w, u)) = Append(Tail(w), u)
      <4> HIDE DEF w, u
      <4> QED
        BY <1>3, <2>3
    <3>2. w # << >> => Head(Append(w, u)) = Head(w)
      <4> HIDE DEF w, u
      <4> QED
        BY <1>3, <2>3
    <3> QED
      BY <3>1, <3>2
  <2> HIDE DEF d, W, F, n, S, w, what, u
  <2>5. \A b : Gives(e, b) <=> GivesOf(W, F, n, S, b)
    BY DEF Gives, W, F, n, S
  <2>6. \A b : Gives(e, b)' <=> GivesOf(W, F + 1, n, S, b)
    BY <1>1, <1>7, <1>12 DEF Gives, W, n, S
  <2>7. \A i, j \in Greetings(W) : i = j
    BY DEF FInv, Handshake, W
  <2>8. GreetingOver(e)' <=> \A i \in Greetings(W) : i <= F + 1
    BY <1>1, <1>7 DEF GreetingOver, W
  <2>9. GreetingOver(e) <=> \A i \in Greetings(W) : i <= F
    BY DEF GreetingOver, W, F
  <2>10. \A i \in Greetings(W) : i \in Nat
    BY <1>3 DEF Greetings
  <2>11. Incoming(d)'
    <3>1. CASE what = "hs"
      <4>1. F + 1 \in Greetings(W) /\ ~GreetingOver(e)
        BY <1>3, <1>4, <2>9, <3>1 DEF Greetings, what
      <4>2. ~AfterGreeting(d) /\ ~GreetingFirst(d)
        BY <1>0, <2>1, <4>1 DEF AfterGreeting, GreetingFirst, Framed
      <4>3. CASE Silent(d)
        <5>1. w = << >> /\ ~Greeted(d) /\ Gives(e, <<"hdr", 1>>)
          BY <1>0, <2>1, <4>3 DEF Silent, Fresh, w
        <5>2. Gives(e, <<"hdr", 1>>)'
          BY <1>1, <1>3, <2>5, <2>6, <3>1, <5>1, GivesUnit DEF what
        <5>3. GreetingOver(e)'
          <6>1. \A i \in Greetings(W) : i = F + 1
            BY <2>7, <4>1
          <6> QED
            BY <1>3, <2>8, <2>10, <6>1
        <5>4. e = "client" => solved'
          BY <1>1, <4>1 DEF FInv, Handshake, W
        <5>5. <<"hdr", 1>> \in Places
          BY DEF Places
        <5>6. Framed(e, << >>, <<"hdr", 1>>)'
          BY <5>2, <5>3, <5>4, <5>5, StretchEmpty DEF Framed
        <5>7. wire'[d] # << >> /\ Head(wire'[d]) = u /\ Tail(wire'[d]) = << >>
          BY <2>3, <5>1
        <5>8. GreetingFirst(d)'
          BY <1>0, <1>1, <1>5, <1>12, <3>1, <5>1, <5>6, <5>7 DEF GreetingFirst
        <5> QED
          BY <5>8 DEF Incoming
      <4>4. CASE EarlyFirst(d)
        <5>1. EarlyFirst(d)'
          BY <1>1, <1>12, <2>3, <2>4, <4>4 DEF EarlyFirst, w
        <5> QED
          BY <5>1 DEF Incoming
      <4> QED
        BY <2>2, <4>2, <4>3, <4>4
    <3>2. CASE what # "hs"
      <4>1. ASSUME NEW b, Gives(e, b)
            PROVE  /\ b = <<what, n + 1>> /\ Gives(e, After(b, S))' /\ u = UnitAt(b, S)
                   /\ b[2] \in DOMAIN S
        <5>1. GivesOf(W, F, n, S, b) /\ W[F + 1] = what /\ F < Len(W)
          BY <1>1, <2>5, <4>1 DEF what, W, F
        <5>2. b = <<what, n + 1>> /\ GivesOf(W, F + 1, n, S, After(b, S))
          BY <1>3, <3>2, <5>1, GivesUnit
        <5>3. S' = S
          BY <1>1 DEF S
        <5>4. \A c : GivesOf(W, F + 1, n, S, c) => Gives(e, c)'
          BY <2>6
        <5>5. Gives(e, After(b, S))'
          BY <5>2, <5>3, <5>4
        <5>6. n + 1 \in DOMAIN S /\ u = UnitAt(<<what, n + 1>>, S)
          BY <1>6, <3>2
        <5> QED
          BY <5>2, <5>5, <5>6
      <4>2. GreetingOver(e) => GreetingOver(e)'
        BY <1>3, <2>8, <2>9, <2>10
      <4>3. ASSUME NEW v \in Seq(Units), NEW a \in Places, NEW x, x = Append(v, u), Framed(e, v, a)
            PROVE  Framed(e, x, a)'
        <5>1. PICK b \in Places : Stretch(v, a, b, S) /\ Gives(e, b) /\ GreetingOver(e)
          BY <2>1, <4>3 DEF Framed, S
        <5>2. u = UnitAt(b, S) /\ b[2] \in DOMAIN S /\ Gives(e, After(b, S))'
          BY <4>1, <5>1
        <5>3. Stretch(x, a, After(b, S), S)
          BY <2>3, <4>3, <5>1, <5>2, StretchAppend
        <5>4. After(b, S) \in Places /\ GreetingOver(e)'
          BY <4>2, <5>1, AfterPlace
        <5>5. sent'[e] = S /\ S' = S /\ (e = "client" => solved')
          BY <1>1, <4>3 DEF S, Framed
        <5>6. PICK c : c = After(b, S)
          OBVIOUS
        <5>7. Gives(e, c)'
          BY <5>2, <5>5, <5>6
        <5>8. c \in Places /\ Stretch(x, a, c, sent'[e])
          BY <5>3, <5>4, <5>5, <5>6
        <5> QED
          BY <5>4, <5>5, <5>7, <5>8 DEF Framed
      <4>4. CASE AfterGreeting(d)
        <5>1. Greeted(d) /\ Framed(e, w, Takes(d))
          BY <1>0, <4>4 DEF AfterGreeting, w
        <5>2. Takes(d) \in Places
          BY <1>0, TakesPlace
        <5>3. Framed(e, wire[d], Takes(d))'
          BY <1>3, <1>12, <2>3, <4>3, <5>1, <5>2
        <5>4. AfterGreeting(d)'
          BY <1>0, <1>12, <5>1, <5>3 DEF AfterGreeting
        <5> QED
          BY <5>4 DEF Incoming
      <4>5. CASE Silent(d)
        <5>1. /\ w = << >> /\ ~Greeted(d) /\ F = 0 /\ Gives(e, <<"hdr", 1>>)
              /\ e = "server" \/ (solved /\ ~early) => W # << >> /\ W[1] = "hs"
          BY <1>0, <2>1, <4>5 DEF Silent, Fresh, w, F, W
        <5>2. what = W[1] /\ <<"hdr", 1>> = <<what, n + 1>> /\ n + 1 \in DOMAIN S
          BY <1>6, <3>2, <4>1, <5>1 DEF what
        <5>3. e = "client" /\ ~(solved /\ ~early)
          BY <3>2, <5>1, <5>2, Peers
        <5>4. S # << >>
          BY <1>3, <5>2
        <5>5. early /\ d = "server"
          BY <5>3, <5>4, Peers DEF FInv, Handshake, S, d
        <5>6. what = "hdr"
          BY <5>2
        <5>7. wire'[d] # << >> /\ Head(wire'[d]) = u /\ u[1] = "hdr"
          <6>1. u = UnitAt(<<"hdr", n + 1>>, S)
            BY <1>6, <3>2, <5>6
          <6>2. u[1] = "hdr"
            BY <6>1 DEF UnitAt
          <6> QED
            BY <2>3, <5>1, <6>2
        <5>8. EarlyFirst(d)'
          BY <1>1, <1>12, <5>1, <5>5, <5>7 DEF EarlyFirst
        <5> QED
          BY <5>8 DEF Incoming
      <4>6. CASE GreetingFirst(d)
        <5>1. /\ ~Greeted(d) /\ w # << >> /\ Head(w) = <<"hs", handshake_out_[e]>>
              /\ Framed(e, Tail(w), <<"hdr", 1>>)
          BY <1>0, <4>6 DEF GreetingFirst, w
        <5>2. <<"hdr", 1>> \in Places /\ Tail(w) \in Seq(Units)
          BY <1>3, <5>1 DEF Places
        <5>3. wire'[d] # << >> /\ Head(wire'[d]) = Head(w) /\ Tail(wire'[d]) = Append(Tail(w), u)
          BY <2>3, <2>4, <5>1
        <5>4. Framed(e, Tail(wire[d]), <<"hdr", 1>>)'
          BY <4>3, <5>1, <5>2, <5>3
        <5>5. GreetingFirst(d)'
          BY <1>0, <1>1, <1>12, <5>1, <5>3, <5>4 DEF GreetingFirst
        <5> QED
          BY <5>5 DEF Incoming
      <4>7. CASE EarlyFirst(d)
        <5>1. EarlyFirst(d)'
          BY <1>1, <1>12, <2>3, <2>4, <4>7 DEF EarlyFirst, w
        <5> QED
          BY <5>1 DEF Incoming
      <4> QED
        BY <2>2, <4>4, <4>5, <4>6, <4>7
    <3> QED
      BY <3>1, <3>2
  <2> QED
    BY <1>0, <1>8, <1>9, <1>10, <1>11, <2>11 DEF FInv
<1> QED
  BY <1>13, <1>14

-----------------------------------------------------------------------------
(* A read of a message meets the unit it is meant for.                     *)
LEMMA HeadIs ==
  ASSUME FInv, NEW d \in Ends, NEW k \in {"hdr", "pl"}, ReadDone(d, k),
         NEW e, e = Peer(d), NEW n, n = Len(received[d]) + 1
  PROVE  /\ Greeted(d) /\ CanRead(d) /\ Takes(d) = <<k, n>> /\ n \in Nat \ {0}
         /\ wire[d] \in Seq(Units) /\ wire[d] # << >>
         /\ n \in DOMAIN sent[e] /\ Head(wire[d]) = UnitAt(<<k, n>>, sent[e])
         /\ Framed(e, Tail(wire[d]), After(<<k, n>>, sent[e]))
<1>1. reading[d] = k /\ wire[d] # << >>
  BY DEF ReadDone
<1>2. Greeted(d) /\ CanRead(d)
  BY <1>1 DEF FInv, Readers, CanRead
<1>3. Framed(e, wire[d], Takes(d))
  BY <1>2 DEF FInv, Incoming, AfterGreeting, Silent, GreetingFirst, EarlyFirst
<1>4. Takes(d) = <<k, n>>
  BY <1>1 DEF Takes
<1>5. Takes(d) \in Places /\ wire[d] \in Seq(Units)
  BY TakesPlace, Types DEF FInv
<1>6. n \in Nat \ {0}
  BY <1>4, <1>5 DEF Places
<1>7. PICK b \in Places : /\ Stretch(wire[d], <<k, n>>, b, sent[e])
                          /\ Live(e) => Gives(e, b) /\ GreetingOver(e)
  BY <1>3, <1>4 DEF Framed
<1>8. /\ <<k, n>>[2] \in DOMAIN sent[e] /\ Head(wire[d]) = UnitAt(<<k, n>>, sent[e])
      /\ Stretch(Tail(wire[d]), After(<<k, n>>, sent[e]), b, sent[e])
  BY <1>1, <1>4, <1>5, <1>7, StretchTail
<1>9. Framed(e, Tail(wire[d]), After(<<k, n>>, sent[e]))
  BY <1>3, <1>7, <1>8 DEF Framed
<1> QED
  BY <1>1, <1>2, <1>4, <1>5, <1>6, <1>8, <1>9

(* The reader takes it and goes on at the next place.                      *)
LEMMA TakenFrames ==
  ASSUME FInv, IInv', NEW d \in Ends, NEW k \in {"hdr", "pl"}, ReadDone(d, k),
         NEW e, e = Peer(d), NEW n, n = Len(received[d]) + 1,
         UNCHANGED <<sock, connecting, phase, posted, writing, flushed, out_msg_queue_,
                     handshake_out_, key, validated, rejected, sent, solved, early>>,
         reading'[e] = reading[e], received'[e] = received[e], tmp_input_msg_'[e] = tmp_input_msg_[e],
         reading'[d] \in {"none", "hdr", "pl"},
         CanRead(d)' => Takes(d)' = After(<<k, n>>, sent[e]),
         Delivered(d)', HalfRead(d)'
  PROVE  FInv'
<1>0. e \in Ends /\ e # d /\ Peer(e) = d /\ \A x \in Ends : x = d \/ x = e
  BY Peers
<1>1. reading[d] = k /\ wire[d] # << >> /\ wire' = [wire EXCEPT ![d] = Tail(@)]
  BY DEF ReadDone
<1>2. wire \in [Ends -> Seq(Units)]
  BY Types DEF FInv
<1>3. wire'[d] = Tail(wire[d]) /\ wire'[e] = wire[e]
  BY <1>0, <1>1, <1>2
<1>4. /\ Greeted(d) /\ CanRead(d)
      /\ Framed(e, Tail(wire[d]), After(<<k, n>>, sent[e]))
  BY HeadIs
<1>5. WellFormed' /\ PatientClientAccepted' /\ Ordered'
  BY DEF FInv, WellFormed, PatientClientAccepted, Ordered, handshake_check_
<1>6. Delivered(e)'
  BY <1>0 DEF FInv, Delivered
<1>7. Readers'
  <2>1. Greeted(d)' /\ (Greeted(e)' <=> Greeted(e))
    BY <1>4 DEF Greeted
  <2>2. HalfRead(e)'
    BY <1>0 DEF FInv, Readers, HalfRead
  <2> QED
    BY <1>0, <2>1, <2>2 DEF FInv, Readers
<1>8. Handshake'
  <2>1. d = "client" => Greetings(writing["client"]) = {} /\ ~connecting
    BY <1>1 DEF FInv, Handshake
  <2>2. d # "client" => /\ reading'["client"] = reading["client"]
                        /\ received'["client"] = received["client"]
    BY <1>0, Peers
  <2> QED
    BY <2>1, <2>2 DEF FInv, Handshake, handshake_check_
<1>9. Unused'
  <2>1. sock[e] # "none"
    BY <1>0, <1>1 DEF FInv, Unused
  <2>2. \A x \in Ends : sock[x] = "none" => wire'[Peer(x)] = wire[Peer(x)]
    BY <1>0, <1>3, <2>1
  <2> QED
    BY <2>2 DEF FInv, Unused
<1>10. Incoming(e)'
  <2>1. /\ Greeted(e) <=> Greeted(e)'
        /\ CanRead(e)' <=> CanRead(e)
        /\ Takes(e)' = Takes(e)
        /\ Done(d)' = Done(d)
        /\ Live(d)' <=> Live(d)
    BY DEF Greeted, CanRead, Takes, Done, Live
  <2> QED
    BY <1>0, <1>3, <2>1, IncomingStays
<1>11. Incoming(d)'
  <2> SUFFICES ASSUME CanRead(d)' PROVE AfterGreeting(d)'
    BY DEF Incoming
  <2>1. \A w, a : Framed(e, w, a) => Framed(e, w, a)'
    <3>1. /\ Live(e)' <=> Live(e)
          /\ GreetingOver(e)' <=> GreetingOver(e)
          /\ \A b : Gives(e, b)' <=> Gives(e, b)
      BY DEF Live, GreetingOver, Gives, Done
    <3>2. sent[e] \in Seq(Messages)
      BY <1>0, EndFacts
    <3> QED
      BY <3>1, <3>2, FramedKept
  <2>2. Framed(e, wire[d], Takes(d))'
    BY <1>3, <1>4, <2>1
  <2>3. Greeted(d)'
    BY <1>4 DEF Greeted
  <2> QED
    BY <2>2, <2>3 DEF AfterGreeting
<1> QED
  BY <1>0, <1>5, <1>6, <1>7, <1>8, <1>9, <1>10, <1>11 DEF FInv

(* A message is complete: it is the one that was sent.                     *)
LEMMA AddedFrames ==
  ASSUME FInv, IInv', NEW d \in Ends, NEW k \in {"hdr", "pl"}, ReadDone(d, k),
         NEW e, e = Peer(d), NEW n, n = Len(received[d]) + 1,
         NEW m \in Messages, AddToIncomingMsgQueue(d, m), View(m) = View(sent[e][n]),
         After(<<k, n>>, sent[e]) = <<"hdr", n + 1>>,
         UNCHANGED <<sock, connecting, phase, posted, writing, flushed, out_msg_queue_,
                     handshake_out_, key, validated, rejected, sent, solved, early>>
  PROVE  FInv'
<1>0. e \in Ends /\ e # d
  BY Peers
<1>1. /\ received \in [Ends -> Seq(Messages)] /\ tmp_input_msg_ \in [Ends -> Messages]
      /\ reading \in [Ends -> {"none", "hs", "hdr", "pl"}]
      /\ sent[e] \in Seq(Messages)
  BY <1>0, Types DEF FInv
<1>2. /\ received'[d] = Append(received[d], m) /\ received'[e] = received[e]
      /\ tmp_input_msg_'[e] = tmp_input_msg_[e] /\ reading'[e] = reading[e]
      /\ reading'[d] = IF sock[d] = "open" THEN "hdr" ELSE "none"
  BY <1>0, <1>1 DEF AddToIncomingMsgQueue, StartRead
<1>3. n \in DOMAIN sent[e] /\ n \in Nat
  BY HeadIs
<1>4. /\ Len(received'[d]) = n /\ received'[d][n] = m /\ DOMAIN received'[d] = 1..n
      /\ \A i \in 1..(n - 1) : i \in DOMAIN received[d] /\ received'[d][i] = received[d][i]
  BY <1>1, <1>2
<1>5. Delivered(d)'
  <2>1. ASSUME NEW i \in 1..n PROVE View(received'[d][i]) = View(sent[e][i])
    <3>1. CASE i = n
      BY <1>4, <3>1
    <3>2. CASE i # n
      <4>1. i \in 1..(n - 1)
        BY <1>3, <3>2
      <4> QED
        BY <1>4, <4>1 DEF FInv, Delivered
    <3> QED
      BY <3>1, <3>2
  <2>2. n <= Len(sent[e])
    BY <1>1, <1>3
  <2> QED
    BY <1>4, <2>1, <2>2 DEF Delivered
<1>6. HalfRead(d)'
  BY <1>2 DEF HalfRead
<1>7. Takes(d)' = <<"hdr", n + 1>>
  BY <1>2, <1>4 DEF Takes
<1> QED
  BY <1>2, <1>5, <1>6, <1>7, TakenFrames

(* A header: of a message with a payload, which is read next, or of one    *)
(* that is complete.                                                       *)
LEMMA ReadHeaderFrames ==
  ASSUME FInv, IInv', NEW d \in Ends, ReadHeader(d)
  PROVE  FInv'
<1> DEFINE e == Peer(d)
           n == Len(received[d]) + 1
           M == sent[e][n]
           m == [tmp_input_msg_[d] EXCEPT !.id = M.id, !.size = M.size]
<1>0. e \in Ends /\ e # d /\ ReadDone(d, "hdr")
  BY Peers DEF ReadHeader
<1>1. /\ n \in Nat \ {0} /\ n \in DOMAIN sent[e]
      /\ Head(wire[d]) = UnitAt(<<"hdr", n>>, sent[e])
  BY <1>0, HeadIs
<1>2. Head(wire[d]) = <<"hdr", M.id, M.size>>
  BY <1>1 DEF UnitAt
<1>3. HeaderOf(Head(wire[d])) = {<<M.id, M.size>>}
  BY <1>2 DEF HeaderOf
<1>4. sent[e] \in Seq(Messages) /\ tmp_input_msg_ \in [Ends -> Messages]
  BY <1>0, Types DEF FInv
<1>5. M \in Messages /\ HeaderTells(M)
  BY <1>0, <1>1, <1>4 DEF FInv, WellFormed
<1>6. m \in Messages /\ m.id = M.id /\ m.size = M.size
  BY <1>4, <1>5 DEF Messages
<1>7. /\ IF m.size > 0
         THEN /\ tmp_input_msg_' = [tmp_input_msg_ EXCEPT ![d] = m]
              /\ StartRead(d, "pl")
              /\ UNCHANGED received
         ELSE AddToIncomingMsgQueue(d, m)
      /\ UNCHANGED <<sides, posted, writing, flushed, out_msg_queue_, hs, sent, solved, early>>
  <2>1. PICK h \in HeaderOf(Head(wire[d])) :
           LET x == [tmp_input_msg_[d] EXCEPT !.id = h[1], !.size = h[2]] IN
           IF x.size > 0
           THEN /\ tmp_input_msg_' = [tmp_input_msg_ EXCEPT ![d] = x]
                /\ StartRead(d, "pl")
                /\ UNCHANGED received
           ELSE AddToIncomingMsgQueue(d, x)
    BY DEF ReadHeader
  <2>2. h[1] = M.id /\ h[2] = M.size
    BY <1>3, <2>1
  <2>3. UNCHANGED <<sides, posted, writing, flushed, out_msg_queue_, hs, sent, solved, early>>
    BY DEF ReadHeader
  <2> QED
    BY <2>1, <2>2, <2>3
<1>8. UNCHANGED <<sock, connecting, phase, posted, writing, flushed, out_msg_queue_,
                  handshake_out_, key, validated, rejected, sent, solved, early>>
  BY <1>7 DEF sides, hs
<1> HIDE DEF m, n, e
<1>9. CASE M.size > 0
  <2>1. M.payload # NoPayload
    BY <1>9, <1>5 DEF HeaderTells
  <2>2. After(<<"hdr", n>>, sent[e]) = <<"pl", n>>
    BY <2>1 DEF After
  <2>3. /\ tmp_input_msg_' = [tmp_input_msg_ EXCEPT ![d] = m]
        /\ reading' = [reading EXCEPT ![d] = IF sock[d] = "open" THEN "pl" ELSE "none"]
        /\ received' = received
    BY <1>6, <1>7, <1>9 DEF StartRead
  <2>4. reading \in [Ends -> {"none", "hs", "hdr", "pl"}]
    BY Types DEF FInv
  <2>5. /\ tmp_input_msg_'[d] = m /\ tmp_input_msg_'[e] = tmp_input_msg_[e]
        /\ reading'[d] = (IF sock[d] = "open" THEN "pl" ELSE "none") /\ reading'[e] = reading[e]
    BY <1>0, <1>4, <2>3, <2>4
  <2>6. sock[d] \in {"open", "closed"}
    <3>1. sock[d] # "none" /\ sock \in [Ends -> {"none", "open", "closed"}]
      BY <1>0, ReadDoneFacts, Types DEF FInv, Kinds
    <3> QED
      BY <3>1
  <2>7. CanRead(d)' => Takes(d)' = <<"pl", n>>
    BY <1>8, <2>3, <2>5, <2>6 DEF CanRead, Takes, n
  <2>8. Delivered(d)'
    BY <1>8, <2>3 DEF FInv, Delivered
  <2>9. HalfRead(d)'
    BY <1>1, <1>6, <1>8, <2>1, <2>3, <2>5 DEF HalfRead, n, e
  <2> QED
    BY <1>0, <1>8, <2>2, <2>3, <2>5, <2>7, <2>8, <2>9, TakenFrames DEF e, n
<1>10. CASE ~(M.size > 0)
  <2>1. M.payload = NoPayload
    BY <1>10, <1>5 DEF HeaderTells
  <2>2. After(<<"hdr", n>>, sent[e]) = <<"hdr", n + 1>>
    BY <2>1 DEF After
  <2>3. View(m) = View(M)
    BY <1>6, <1>10 DEF View
  <2>4. AddToIncomingMsgQueue(d, m)
    BY <1>6, <1>7, <1>10
  <2> QED
    BY <1>0, <1>6, <1>8, <2>2, <2>3, <2>4, AddedFrames DEF e, n
<1> QED
  BY <1>9, <1>10

(* The payload of the header read before.                                  *)
LEMMA ReadPayloadFrames ==
  ASSUME FInv, IInv', NEW d \in Ends, ReadPayload(d)
  PROVE  FInv'
<1> DEFINE e == Peer(d)
           n == Len(received[d]) + 1
           M == sent[e][n]
           m == [tmp_input_msg_[d] EXCEPT !.payload = M.payload]
<1>0. e \in Ends /\ e # d /\ ReadDone(d, "pl")
  BY Peers DEF ReadPayload
<1>1. /\ n \in Nat \ {0} /\ n \in DOMAIN sent[e]
      /\ Head(wire[d]) = UnitAt(<<"pl", n>>, sent[e])
  BY <1>0, HeadIs
<1>2. Head(wire[d]) = <<"pl", M.payload>>
  BY <1>1 DEF UnitAt
<1>3. PayloadOf(Head(wire[d])) = {M.payload}
  BY <1>2 DEF PayloadOf
<1>4. sent[e] \in Seq(Messages) /\ tmp_input_msg_ \in [Ends -> Messages]
  BY <1>0, Types DEF FInv
<1>5. M \in Messages
  BY <1>1, <1>4
<1>6. tmp_input_msg_[d].id = M.id /\ tmp_input_msg_[d].size = M.size
  BY <1>0 DEF ReadDone, FInv, Readers, HalfRead
<1>7. m \in Messages /\ m.id = M.id /\ m.size = M.size /\ m.payload = M.payload
  BY <1>4, <1>5, <1>6 DEF Messages
<1>8. View(m) = View(M)
  BY <1>7 DEF View
<1>9. AddToIncomingMsgQueue(d, m)
  BY <1>3 DEF ReadPayload
<1>10. UNCHANGED <<sock, connecting, phase, posted, writing, flushed, out_msg_queue_,
                   handshake_out_, key, validated, rejected, sent, solved, early>>
  BY DEF ReadPayload, sides, hs
<1>11. After(<<"pl", n>>, sent[e]) = <<"hdr", n + 1>>
  BY DEF After
<1> HIDE DEF m
<1> QED
  BY <1>0, <1>7, <1>8, <1>9, <1>10, <1>11, AddedFrames

-----------------------------------------------------------------------------
(* The client meets the server's number and solves the puzzle.             *)
LEMMA SolvePuzzleFrames ==
  ASSUME FInv, IInv', SolvePuzzle
  PROVE  FInv'
<1> DEFINE W == writing["client"]
           w2 == Started("client", W, "hs")
<1>0. "client" \in Ends /\ "server" \in Ends /\ Peer("client") = "server" /\ Peer("server") = "client"
      /\ \A x \in Ends : x = "client" \/ x = "server"
  BY Peers
<1>1. /\ ReadDone("client", "hs") /\ reading["client"] = "hs" /\ wire["client"] # << >>
      /\ wire' = [wire EXCEPT !["client"] = Tail(@)]
      /\ writing' = [writing EXCEPT !["client"] = w2]
      /\ reading' = [reading EXCEPT !["client"] = "none"]
      /\ solved' = TRUE
      /\ UNCHANGED <<sock, connecting, phase, posted, flushed, out_msg_queue_, tmp_input_msg_,
                     key, validated, rejected, sent, received, early>>
  BY DEF SolvePuzzle, ReadDone, sides
<1>2. /\ wire \in [Ends -> Seq(Units)] /\ writing \in [Ends -> Seq(Kinds)]
      /\ reading \in [Ends -> {"none", "hs", "hdr", "pl"}] /\ handshake_out_ \in [Ends -> Numbers]
      /\ sock \in [Ends -> {"none", "open", "closed"}]
  BY Types DEF FInv
<1> HIDE DEF w2
<1>3. /\ wire'["client"] = Tail(wire["client"]) /\ wire'["server"] = wire["server"]
      /\ writing'["client"] = w2 /\ writing'["server"] = writing["server"]
      /\ reading'["client"] = "none" /\ reading'["server"] = reading["server"]
  BY <1>0, <1>1, <1>2
<1>4. ~solved /\ received["client"] = << >> /\ ~connecting /\ Greetings(W) = {}
  <2>1. ~Greeted("client")
    BY <1>0, <1>1 DEF FInv, Readers
  <2>2. ~solved
    BY <2>1 DEF Greeted
  <2> QED
    BY <1>0, <1>1, <2>1, <2>2 DEF FInv, Readers, Handshake
<1>5. sock["server"] # "none" /\ sock["client"] # "none"
  <2>1. sock["server"] # "none"
    BY <1>0, <1>1 DEF FInv, Unused
  <2>2. sock["client"] # "none"
    BY <1>0, <1>1, ReadDoneFacts DEF FInv, Kinds
  <2> QED
    BY <2>1, <2>2
<1>6. GreetingFirst("client")
  <2>1. CanRead("client") /\ ~Greeted("client")
    BY <1>1, <1>4 DEF CanRead, Greeted
  <2> QED
    BY <1>0, <1>1, <2>1 DEF FInv, Incoming, AfterGreeting, Silent, EarlyFirst
<1>7. /\ Head(wire["client"]) = <<"hs", Clock>>
      /\ Framed("server", Tail(wire["client"]), <<"hdr", 1>>)
  BY <1>0, <1>6 DEF GreetingFirst, FInv, Handshake
<1>8. handshake_out_' = [handshake_out_ EXCEPT !["client"] = Encrypt(key, Clock)]
  <2>1. PICK x \in NumberOf(Head(wire["client"])) :
           handshake_out_' = [handshake_out_ EXCEPT !["client"] = Encrypt(key, x)]
    BY DEF SolvePuzzle
  <2>2. x = Clock
    BY <1>7, <2>1 DEF NumberOf
  <2> QED
    BY <2>1, <2>2
<1>9. /\ handshake_out_'["client"] = Encrypt(key, Clock)
      /\ handshake_out_'["server"] = handshake_out_["server"]
  BY <1>0, <1>2, <1>8
<1>10. W \in Seq(Kinds) /\ "hs" \in Kinds /\ flushed["client"] \in Nat /\ flushed["client"] <= Len(W)
       /\ Done("client") \in Nat /\ sent["client"] \in Seq(Messages) /\ sent["server"] \in Seq(Messages)
  BY <1>0, EndFacts DEF Kinds
<1>11. w2 = W \/ w2 = Append(W, "hs")
  BY DEF w2, Started
<1>12. sock["client"] = "open" => w2 = Append(W, "hs")
  BY DEF w2, Started
<1>13. Greetings(w2) \subseteq {Len(W) + 1}
  <2>1. Greetings(Append(W, "hs")) = Greetings(W) \cup {Len(W) + 1}
    BY <1>10, GreetingAppend
  <2> QED
    BY <1>4, <1>11, <2>1
<1>14. WellFormed' /\ PatientClientAccepted' /\ \A x \in Ends : Delivered(x)'
  BY <1>1, TalkKept
<1>15. Ordered'
  BY <1>1 DEF FInv, Ordered
<1>16. Readers'
  <2>1. Greeted("client")' /\ (Greeted("server")' <=> Greeted("server"))
    BY <1>1 DEF Greeted
  <2>2. HalfRead("client")' /\ HalfRead("server")'
    BY <1>0, <1>1, <1>3 DEF FInv, Readers, HalfRead
  <2> QED
    BY <1>0, <1>1, <1>3, <2>1, <2>2 DEF FInv, Readers
<1>17. Handshake'
  <2>1. \A i, j \in Greetings(writing'["client"]) : i = j
    BY <1>3, <1>13
  <2>2. \A i, j \in Greetings(writing'["server"]) : i = j
    BY <1>0, <1>3 DEF FInv, Handshake
  <2>3. \A e \in Ends : \A i, j \in Greetings(writing'[e]) : i = j
    BY <1>0, <2>1, <2>2
  <2> QED
    BY <1>1, <1>3, <1>4, <1>9, <2>3 DEF FInv, Handshake, handshake_check_
<1>18. Unused'
  BY <1>0, <1>1, <1>3, <1>5 DEF FInv, Unused
<1>19. Incoming("client")'
  <2>1. /\ Live("server")' <=> Live("server")
        /\ GreetingOver("server")' <=> GreetingOver("server")
        /\ \A b : Gives("server", b)' <=> Gives("server", b)
    BY <1>1, <1>3 DEF Live, GreetingOver, Gives, Done
  <2>2. \A w, a : Framed("server", w, a) => Framed("server", w, a)'
    BY <1>0, <1>1, <1>10, <2>1, FramedKept
  <2>3. Takes("client")' = <<"hdr", 1>>
    BY <1>1, <1>3, <1>4 DEF Takes
  <2>4. Framed("server", wire["client"], Takes("client"))'
    BY <1>3, <1>7, <2>2, <2>3
  <2>5. Greeted("client")'
    BY <1>1 DEF Greeted
  <2> QED
    BY <1>0, <2>4, <2>5 DEF Incoming, AfterGreeting
<1>20. Incoming("server")'
  <2>1. /\ Greeted("server") <=> Greeted("server")'
        /\ CanRead("server")' <=> CanRead("server")
        /\ Takes("server")' = Takes("server")
        /\ Done("client")' = Done("client")
        /\ Live("client")' <=> Live("client")
    BY <1>1, <1>3 DEF Greeted, CanRead, Takes, Done, Live
  <2>2. Live("client") => \A b : Gives("client", b) => Gives("client", b)'
    <3>1. \A b : Gives("client", b) <=> GivesOf(W, flushed["client"], Done("client"), sent["client"], b)
      BY DEF Gives
    <3>2. \A b : Gives("client", b)' <=> GivesOf(w2, flushed["client"], Done("client"), sent["client"], b)
      BY <1>1, <1>3, <2>1 DEF Gives
    <3> QED
      BY <1>10, <1>11, <3>1, <3>2, GivesHandshake
  <2>3. Live("client")' /\ Silent("server") => Fresh("client")'
    <3> SUFFICES ASSUME Live("client")', Silent("server") PROVE Fresh("client")'
      OBVIOUS
    <3>1. Live("client") /\ flushed["client"] = 0 /\ Gives("client", <<"hdr", 1>>)
      BY <1>0, <2>1 DEF Silent, Fresh
    <3>2. Gives("client", <<"hdr", 1>>)'
      BY <2>2, <3>1
    <3>3. ~early => w2 # << >> /\ w2[1] = "hs"
      <4> SUFFICES ASSUME ~early PROVE w2 # << >> /\ w2[1] = "hs"
        OBVIOUS
      <4>1. sent["client"] = << >>
        BY <1>4 DEF FInv, Handshake
      <4>2. MessageWrites(W) = {}
        <5>1. ~(Done("client") + 1 \in DOMAIN sent["client"])
          BY <1>10, <4>1
        <5> QED
          BY <1>0, <5>1, EndFacts
      <4>3. W = << >>
        BY <1>4, <1>10, <4>2 DEF Greetings, MessageWrites
      <4>4. w2 = Append(W, "hs")
        BY <1>12, <3>1 DEF Live
      <4> QED
        BY <4>3, <4>4
    <3> QED
      BY <1>1, <1>3, <3>1, <3>2, <3>3 DEF Fresh
  <2>4. handshake_out_'["client"] = handshake_out_["client"] \/ ~solved
    BY <1>4
  <2> QED
    BY <1>0, <1>1, <1>3, <1>4, <1>10, <2>1, <2>2, <2>3, IncomingKept DEF FInv
<1> QED
  BY <1>0, <1>14, <1>15, <1>16, <1>17, <1>18, <1>19, <1>20 DEF FInv

(* The server takes what comes first for the solution.  If it is one, the  *)
(* client has the server's constants; if not, the client has others or was *)
(* early.                                                                  *)
LEMMA CheckPuzzleFrames ==
  ASSUME FInv, IInv', CheckPuzzle
  PROVE  FInv'
<1> DEFINE ok == Head(wire["server"]) = <<"hs", handshake_check_>>
<1>0. "client" \in Ends /\ "server" \in Ends /\ Peer("client") = "server" /\ Peer("server") = "client"
      /\ \A x \in Ends : x = "client" \/ x = "server"
  BY Peers
<1>1. /\ ReadDone("server", "hs") /\ reading["server"] = "hs" /\ wire["server"] # << >>
      /\ wire' = [wire EXCEPT !["server"] = Tail(@)]
      /\ UNCHANGED <<connecting, phase, posted, writing, flushed, out_msg_queue_, tmp_input_msg_,
                     handshake_out_, key, sent, received, solved, early>>
  BY DEF CheckPuzzle, ReadDone, hist
<1>2. /\ ok => /\ validated' = TRUE /\ rejected' = rejected /\ sock' = sock
               /\ reading' = [reading EXCEPT !["server"] =
                                 IF sock["server"] = "open" THEN "hdr" ELSE "none"]
      /\ ~ok => /\ rejected' = TRUE /\ validated' = validated
                /\ reading' = [reading EXCEPT !["server"] = "none"]
                /\ sock' = [sock EXCEPT !["server"] = "closed"]
  BY DEF CheckPuzzle, StartRead, Close
<1> HIDE DEF ok
<1>3. /\ wire \in [Ends -> Seq(Units)] /\ reading \in [Ends -> {"none", "hs", "hdr", "pl"}]
      /\ sock \in [Ends -> {"none", "open", "closed"}]
  BY Types DEF FInv
<1>4. /\ wire'["server"] = Tail(wire["server"]) /\ wire'["client"] = wire["client"]
      /\ reading'["client"] = reading["client"] /\ sock'["client"] = sock["client"]
      /\ reading'["server"] \in {"none", "hdr"}
      /\ ok => sock'["server"] = sock["server"]
      /\ ~ok => sock'["server"] = "closed" /\ reading'["server"] = "none"
  BY <1>0, <1>1, <1>2, <1>3
<1>5. ~validated /\ received["server"] = << >>
  <2>1. ~Greeted("server")
    BY <1>0, <1>1 DEF FInv, Readers
  <2> QED
    BY <1>0, <2>1 DEF FInv, Readers, Greeted
<1>6. sock["client"] # "none" /\ sock["server"] # "none"
  <2>1. sock["client"] # "none"
    BY <1>0, <1>1 DEF FInv, Unused
  <2>2. sock["server"] # "none"
    BY <1>0, <1>1, ReadDoneFacts DEF FInv, Kinds
  <2> QED
    BY <2>1, <2>2
<1>7. GreetingFirst("server") \/ EarlyFirst("server")
  <2>1. CanRead("server") /\ ~Greeted("server")
    BY <1>1, <1>5 DEF CanRead, Greeted
  <2> QED
    BY <1>0, <1>1, <2>1 DEF FInv, Incoming, AfterGreeting, Silent
<1>8. GreetingFirst("server") => /\ solved /\ Framed("client", Tail(wire["server"]), <<"hdr", 1>>)
                                 /\ Head(wire["server"]) = <<"hs", Encrypt(key, Clock)>>
  BY <1>0 DEF GreetingFirst, Framed, FInv, Handshake
<1>9. EarlyFirst("server") => early /\ ~ok
  BY DEF EarlyFirst, ok
<1>10. ok => /\ Encrypt(key, Clock) = handshake_check_
             /\ Framed("client", Tail(wire["server"]), <<"hdr", 1>>)
  BY <1>7, <1>8, <1>9 DEF ok
<1>11. ~ok => early \/ Encrypt(key, Clock) # handshake_check_
  BY <1>7, <1>8, <1>9 DEF ok
<1>12. WellFormed' /\ Ordered' /\ \A x \in Ends : Delivered(x)'
  BY <1>1 DEF FInv, WellFormed, Ordered, Delivered
<1>13. PatientClientAccepted'
  BY <1>1, <1>2, <1>11 DEF FInv, PatientClientAccepted, handshake_check_
<1>14. Readers'
  <2>1. /\ Greeted("client")' <=> Greeted("client")
        /\ Greeted("server")' <=> ok
    BY <1>1, <1>2, <1>5 DEF Greeted
  <2>2. HalfRead("client")' /\ HalfRead("server")'
    BY <1>0, <1>1, <1>4 DEF FInv, Readers, HalfRead
  <2> QED
    BY <1>0, <1>1, <1>4, <1>5, <2>1, <2>2 DEF FInv, Readers
<1>15. Handshake'
  BY <1>1, <1>2, <1>4, <1>10 DEF FInv, Handshake, handshake_check_
<1>16. Unused'
  <2>1. sock'["client"] # "none" /\ sock'["server"] # "none"
    BY <1>4, <1>6
  <2> QED
    BY <1>0, <2>1 DEF Unused
<1>17. /\ Greeted("client") <=> Greeted("client")'
       /\ CanRead("client")' <=> CanRead("client")
       /\ Takes("client")' = Takes("client")
       /\ \A e \in Ends : Done(e)' = Done(e)
       /\ Live("server")' => Live("server")
       /\ Live("client")' => Live("client")
  BY <1>0, <1>1, <1>4 DEF Greeted, CanRead, Takes, Done, Live
<1>18. Incoming("client")'
  BY <1>0, <1>1, <1>4, <1>17, IncomingStays
<1>19. Incoming("server")'
  <2>1. CASE ok
    <3>1. /\ GreetingOver("client")' <=> GreetingOver("client")
          /\ \A b : Gives("client", b)' <=> Gives("client", b)
      BY <1>1 DEF GreetingOver, Gives, Done
    <3>2. sent["client"] \in Seq(Messages)
      BY <1>0, EndFacts
    <3>3. \A w, a : Framed("client", w, a) => Framed("client", w, a)'
      BY <1>0, <1>1, <1>17, <3>1, <3>2, FramedKept
    <3>4. Takes("server")' = <<"hdr", 1>>
      BY <1>1, <1>4, <1>5 DEF Takes
    <3>5. Framed("client", wire["server"], Takes("server"))'
      BY <1>4, <1>10, <2>1, <3>3, <3>4
    <3>6. Greeted("server")'
      BY <1>2, <2>1 DEF Greeted
    <3> QED
      BY <1>0, <3>5, <3>6 DEF Incoming, AfterGreeting
  <2>2. CASE ~ok
    <3>1. ~CanRead("server")'
      BY <1>4, <2>2 DEF CanRead
    <3> QED
      BY <3>1 DEF Incoming
  <2> QED
    BY <2>1, <2>2
<1> QED
  BY <1>0, <1>12, <1>13, <1>14, <1>15, <1>16, <1>18, <1>19 DEF FInv

-----------------------------------------------------------------------------
(* Every step keeps the invariant.                                         *)
LEMMA NextFInv == FInv /\ [Next]_vars => FInv'
<1> SUFFICES ASSUME FInv, [Next]_vars PROVE FInv'
  OBVIOUS
<1>0. IInv'
  BY NextIInv DEF FInv
<1>1. \A p \in Payloads : LET m == Message("ServerPing", p) IN
         m \in Messages /\ HeaderTells(m) /\ m.payload # NoPayload
  BY MadeWell DEF Ids
<1>2. LET m == Message("MessageAll", NoPayload) IN
         m \in Messages /\ HeaderTells(m) /\ m.id # "ServerPing"
  BY MadeWell DEF Ids
<1>3. CASE \/ Connect \/ Disconnect \/ Stop
           \/ \E p \in Payloads : Send(Message("ServerPing", p)) \/ Announce(p)
           \/ Send(Message("MessageAll", NoPayload))
  <2>1. CASE \E p \in Payloads : Send(Message("ServerPing", p)) \/ Announce(p)
    BY <1>0, <1>1, <2>1, SendFrames, AnnounceFrames
  <2>2. CASE Send(Message("MessageAll", NoPayload))
    BY <1>0, <1>2, <2>2, SendFrames
  <2> QED
    BY <1>0, <1>3, <2>1, <2>2, ConnectFrames, DisconnectFrames, QuietFrames
<1>4. CASE TcpStep \/ LinkFails \/ ConnectHandler \/ Accept \/ RunReturns \/ Handle
  BY <1>0, <1>4, QuietFrames, ConnectHandlerFrames, AcceptFrames, HandleFrames DEF TcpStep
<1>5. ASSUME NEW e \in Ends, ReadStep(e) PROVE FInv'
  BY <1>0, <1>5, SolvePuzzleFrames, CheckPuzzleFrames, ReadHeaderFrames, ReadPayloadFrames,
     CloseFrames DEF ReadStep
<1>6. ASSUME NEW e \in Ends, Handlers(e) PROVE FInv'
  BY <1>0, <1>6, RunSendFrames, CloseFrames, ValidationSentFrames, HeaderSentFrames,
     PayloadSentFrames DEF Handlers
<1>7. ASSUME NEW e \in Ends, WriteStep(e) PROVE FInv'
  BY <1>0, <1>7, TransferFrames, CloseFrames DEF WriteStep
<1>8. CASE UNCHANGED vars
  BY <1>0, <1>8, QuietFrames
<1> QED
  BY <1>3, <1>4, <1>5, <1>6, <1>7, <1>8 DEF Next

(* The units on the wire are the messages given to SendData, from where    *)
(* the reader is to where the writer is: the handlers never lose their     *)
(* place.                                                                  *)
THEOREM FramingInvariant == Spec => []FInv
<1>1. Init => FInv
  BY InitFInv
<1>2. FInv /\ [Next]_vars => FInv'
  BY NextFInv
<1> QED
  BY <1>1, <1>2, PTL DEF Spec

(* The server takes no message of a client, and reads none, before         *)
(* ReadAndCheckValidation has met the solution that only the server's own  *)
(* constants give, whatever else the client sent before.                   *)
THEOREM SolvedFirst == Spec => []ValidatedFirst
<1>1. FInv => ValidatedFirst
  BY Peers DEF FInv, Readers, Handshake, Greeted, ValidatedFirst
<1> QED
  BY <1>1, FramingInvariant, PTL

(* Each async_read meets the kind of unit that it was started for, except  *)
(* that the server takes anything for the solution of its puzzle.          *)
THEOREM ReadsMeetTheirUnits == Spec => []FramesAligned
<1>1. FInv => FramesAligned
  <2> SUFFICES ASSUME FInv, NEW d \in Ends, wire[d] # << >>, reading[d] # "none"
               PROVE  Head(wire[d])[1] = reading[d] \/ (d = "server" /\ reading[d] = "hs")
    BY DEF FramesAligned
  <2>1. reading[d] \in {"hs", "hdr", "pl"} /\ wire[d] \in Seq(Units) /\ CanRead(d)
    BY Types DEF FInv, CanRead
  <2>2. CASE reading[d] = "hs"
    <3>1. ~Greeted(d)
      BY <2>2 DEF FInv, Readers
    <3>2. GreetingFirst(d) \/ EarlyFirst(d)
      BY <2>1, <3>1 DEF FInv, Incoming, AfterGreeting, Silent
    <3> QED
      BY <2>2, <3>2 DEF GreetingFirst, EarlyFirst
  <2>3. CASE reading[d] # "hs"
    <3>1. Greeted(d)
      BY <2>1, <2>3 DEF FInv, Readers
    <3>2. Framed(Peer(d), wire[d], Takes(d))
      BY <2>1, <3>1 DEF FInv, Incoming, AfterGreeting, Silent, GreetingFirst, EarlyFirst
    <3>3. PICK b \in Places : Stretch(wire[d], Takes(d), b, sent[Peer(d)])
      BY <3>2 DEF Framed
    <3>4. Takes(d) \in Places
      BY TakesPlace
    <3>5. Head(wire[d]) = UnitAt(Takes(d), sent[Peer(d)])
      <4>1. \A S : \A a \in Places, w \in Seq(Units) :
               w # << >> /\ Stretch(w, a, b, S) => Head(w) = UnitAt(a, S)
        BY StretchTail
      <4> QED
        BY <2>1, <3>3, <3>4, <4>1
    <3> QED
      BY <2>1, <2>3, <3>5 DEF UnitAt, Takes
  <2> QED
    BY <2>2, <2>3
<1> QED
  BY <1>1, FramingInvariant, PTL

(* What arrives in one end's queue is what the other end gave to SendData, *)
(* in that order and whole, for any number of messages in either           *)
(* direction, whatever is posted, written or closed meanwhile.             *)
THEOREM DeliveredAsSent == Spec => []InOrderDelivery
<1>1. FInv => InOrderDelivery
  <2>1. ASSUME FInv, NEW e \in Ends
        PROVE  /\ Len(received[Peer(e)]) <= Len(sent[e])
               /\ \A i \in DOMAIN received[Peer(e)] : View(received[Peer(e)][i]) = View(sent[e][i])
    <3>1. Peer(e) \in Ends /\ Peer(Peer(e)) = e
      BY Peers
    <3>2. Delivered(Peer(e))
      BY <2>1, <3>1 DEF FInv
    <3> QED
      BY <3>1, <3>2 DEF Delivered
  <2> QED
    BY <2>1 DEF InOrderDelivery
<1> QED
  BY <1>1, FramingInvariant, PTL

(* CheckPuzzle turns a client away only when its build has other constants *)
(* or it did not wait with its first message.                              *)
THEOREM PatientAreAccepted == Spec => []PatientClientAccepted
<1>1. FInv => PatientClientAccepted
  BY DEF FInv
<1> QED
  BY <1>1, FramingInvariant, PTL

=============================================================================
