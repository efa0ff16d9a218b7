--------------------------- MODULE Console_proof ----------------------------
(***************************************************************************)
(* Proofs about Console, for every number of keys and messages.            *)
(***************************************************************************)
EXTENDS Console, SequenceTheorems, TLAPS

(* Main has joined the keyboard thread exactly between the join and the start of the   *)
(* next one, or when it has returned.                                                  *)
JoinedWhen == /\ thread.joined <=> main \in {"promise", "future", "thread", "returned"}
              /\ ~thread.joined => thread.promise = promise.number

(* The value is in the promise exactly from set_value to the next promise.             *)
ValueWhen == promise.value # NoKey <=> /\ main \notin {"future", "thread"}
                                       /\ thread.at \in {"inside", "returned"}

(* A key is in the hands of the keyboard thread or of main until it is acted on.       *)
Waiting == main \in {"poll", "act", "connected?", "empty?", "pop"}

KeyWhen ==
    /\ thread.at # "getchar" => thread.key # NoKey
    /\ ~Waiting => thread.at \in {"inside", "returned"}
    /\ main = "act" => /\ thread.at \in {"inside", "returned"}
                       /\ input_character = promise.value
    /\ promise.value # NoKey => promise.value = thread.key
    /\ pressed = IF Waiting /\ thread.at # "getchar" THEN Append(acted, thread.key) ELSE acted

(* The inductive invariant.                                                            *)
IInv == TypeOK /\ JoinedWhen /\ ValueWhen /\ KeyWhen /\ PopHasMessage /\ ShownInOrder

(* Before the first key and the first message.                                         *)
LEMMA InitIInv == Init => IInv
<1> SUFFICES ASSUME Init PROVE IInv
  OBVIOUS
<1> USE DEF Init, NewThread
<1>1. TypeOK
  BY DEF TypeOK, Mains, possable_inputs, NoKey
<1>2. JoinedWhen /\ ValueWhen /\ KeyWhen /\ PopHasMessage
  BY DEF JoinedWhen, ValueWhen, KeyWhen, Waiting, PopHasMessage
<1>3. ShownInOrder
  BY DEF ShownInOrder
<1> QED
  BY <1>1, <1>2, <1>3 DEF IInv

(* What the steps of the two threads on keys keep.                                     *)
LEMMA KeyStepKeeps ==
  ASSUME IInv,
         \/ \E key \in Keys : getchar(key)
         \/ set_value \/ thread_returns \/ poll \/ act \/ join \/ new_promise \/ get_future
         \/ new_thread
  PROVE  TypeOK' /\ JoinedWhen' /\ ValueWhen' /\ KeyWhen'
<1> USE DEF IInv, TypeOK, JoinedWhen, ValueWhen, KeyWhen, Waiting, netVars, keyVars,
            possable_inputs, NoKey, Mains
<1>1. ASSUME NEW key \in Keys, getchar(key) PROVE TypeOK' /\ JoinedWhen' /\ ValueWhen' /\ KeyWhen'
  <2>1. CASE key \in possable_inputs
    <3>1. /\ thread.at = "getchar" /\ main # "returned"
          /\ thread' = [thread EXCEPT !.at = "set_value", !.key = key]
          /\ pressed' = Append(pressed, key)
          /\ UNCHANGED <<main, input_character, promise, future, acted, sent>>
          /\ UNCHANGED netVars
      BY <1>1, <2>1 DEF getchar
    <3>2. TypeOK'
      <4> HIDE DEF possable_inputs, NoKey, Mains
      <4>1. thread' \in [at : {"getchar", "set_value", "inside", "returned"},
                         key : possable_inputs \union {NoKey}, joined : BOOLEAN, promise : Nat]
        BY <3>1, <2>1
      <4>2. pressed' \in Seq(possable_inputs)
        BY <3>1, <2>1, AppendProperties
      <4> QED
        BY <4>1, <4>2, <3>1
    <3>3. /\ thread'.at = "set_value" /\ thread'.key = key /\ key # NoKey
          /\ thread'.joined = thread.joined /\ thread'.promise = thread.promise
      BY <3>1, <2>1
    <3>4. JoinedWhen' /\ ValueWhen'
      BY <3>1, <3>3
    <3>5. pressed = acted /\ Waiting /\ main # "act" /\ promise.value = NoKey
      BY <3>1
    <3>6. KeyWhen'
      BY <3>1, <3>3, <3>5
    <3> QED
      BY <3>2, <3>4, <3>6
  <2>2. CASE key \notin possable_inputs
    <3>1. UNCHANGED <<main, input_character, promise, future, thread, pressed, acted, sent>>
      BY <1>1, <2>2 DEF getchar
    <3>2. UNCHANGED netVars
      BY <1>1 DEF getchar
    <3> QED
      BY <3>1, <3>2
  <2> QED
    BY <2>1, <2>2
<1>2. CASE set_value
  BY <1>2 DEF set_value
<1>3. CASE thread_returns
  BY <1>3 DEF thread_returns
<1>4. CASE poll
  BY <1>4 DEF poll, is_ready
<1>5. CASE act
  BY <1>5 DEF act
<1>6. CASE join
  BY <1>6 DEF join
<1>7. CASE new_promise
  BY <1>7 DEF new_promise
<1>8. CASE get_future
  BY <1>8 DEF get_future
<1>9. CASE new_thread
  BY <1>9 DEF new_thread, NewThread
<1> QED
  BY <1>1, <1>2, <1>3, <1>4, <1>5, <1>6, <1>7, <1>8, <1>9

(* Steps on keys leave the messages alone.                                             *)
LEMMA KeyStepKeepsMessages ==
  ASSUME IInv,
         \/ \E key \in Keys : getchar(key)
         \/ set_value \/ thread_returns \/ poll \/ act \/ join \/ new_promise \/ get_future
         \/ new_thread
  PROVE  PopHasMessage' /\ ShownInOrder'
<1>1. UNCHANGED <<incoming, arrived, shown>>
  BY DEF netVars, getchar, set_value, thread_returns, poll, act, join, new_promise,
         get_future, new_thread
<1>2. main' = "pop" => main = "pop"
  BY DEF getchar, set_value, thread_returns, poll, act, join, new_promise,
         get_future, new_thread
<1> QED
  BY <1>1, <1>2 DEF IInv, PopHasMessage, ShownInOrder

(* Steps on messages leave the keys alone, and main within the loop.                   *)
LEMMA MessageStepKeepsKeys ==
  ASSUME IInv, isConnected \/ isEmpty \/ popFront \/ MessageArrives \/ ConnectionCloses
  PROVE  JoinedWhen' /\ ValueWhen' /\ KeyWhen'
<1>1. UNCHANGED keyVars
  BY DEF isConnected, isEmpty, popFront, MessageArrives, ConnectionCloses
<1>2. \/ UNCHANGED main
      \/ /\ main \in {"connected?", "empty?", "pop"}
         /\ main' \in {"poll", "empty?", "pop"}
  BY DEF isConnected, isEmpty, popFront, MessageArrives, ConnectionCloses
<1> QED
  BY <1>1, <1>2 DEF IInv, JoinedWhen, ValueWhen, KeyWhen, Waiting, keyVars

(* An element that is moved from the front of t to the end of s stays in its place.    *)
LEMMA MoveOver ==
  ASSUME NEW s \in Seq(Nat), NEW t \in Seq(Nat), t # << >>
  PROVE  Append(s, Head(t)) \o Tail(t) = s \o t
<1>1. Head(t) \in Nat /\ Tail(t) \in Seq(Nat) /\ <<Head(t)>> \in Seq(Nat)
  BY HeadTailProperties
<1>2. Append(s, Head(t)) = s \o <<Head(t)>>
  BY <1>1, AppendIsConcat
<1>3. (s \o <<Head(t)>>) \o Tail(t) = s \o (<<Head(t)>> \o Tail(t))
  BY <1>1, ConcatAssociative
<1>4. <<Head(t)>> \o Tail(t) = t
  BY <1>1
<1> QED
  BY <1>2, <1>3, <1>4

(* Appending to the second of two sequences appends to both.                           *)
LEMMA AppendOver ==
  ASSUME NEW s \in Seq(Nat), NEW t \in Seq(Nat), NEW n \in Nat
  PROVE  s \o Append(t, n) = Append(s \o t, n)
<1>1. <<n>> \in Seq(Nat) /\ s \o t \in Seq(Nat)
  BY ConcatProperties
<1>2. Append(t, n) = t \o <<n>> /\ Append(s \o t, n) = (s \o t) \o <<n>>
  BY <1>1, AppendIsConcat
<1>3. (s \o t) \o <<n>> = s \o (t \o <<n>>)
  BY <1>1, ConcatAssociative
<1> QED
  BY <1>2, <1>3

(* What the steps on messages keep.                                                    *)
LEMMA MessageStepKeeps ==
  ASSUME IInv, isConnected \/ isEmpty \/ popFront \/ MessageArrives \/ ConnectionCloses
  PROVE  TypeOK' /\ PopHasMessage' /\ ShownInOrder'
<1> USE DEF IInv, TypeOK, PopHasMessage, ShownInOrder, keyVars, netVars, Mains
<1>1. CASE isConnected
  BY <1>1 DEF isConnected
<1>2. CASE isEmpty
  BY <1>2 DEF isEmpty
<1>3. CASE popFront
  <2>1. /\ incoming # << >> /\ incoming \in Seq(1 .. arrived) /\ shown \in Seq(1 .. arrived)
        /\ shown' = Append(shown, Head(incoming)) /\ incoming' = Tail(incoming)
        /\ arrived' = arrived
    BY <1>3 DEF popFront
  <2>2. shown' \in Seq(1 .. arrived) /\ incoming' \in Seq(1 .. arrived)
    BY <2>1
  <2>3. shown' \o incoming' = shown \o incoming
    <3>1. incoming \in Seq(Nat) /\ shown \in Seq(Nat)
      <4>1. 1 .. arrived \subseteq Nat
        OBVIOUS
      <4> QED
        BY <2>1, <4>1, SeqMonotonic
    <3>2. Append(shown, Head(incoming)) \o Tail(incoming) = shown \o incoming
      BY <2>1, <3>1, MoveOver
    <3> QED
      BY <2>1, <3>2
  <2>4. TypeOK'
    BY <1>3, <2>1, <2>2 DEF popFront
  <2> QED
    BY <1>3, <2>1, <2>3, <2>4 DEF popFront
<1>4. CASE MessageArrives
  <2>1. /\ incoming \in Seq(1 .. arrived) /\ shown \in Seq(1 .. arrived) /\ arrived \in Nat
        /\ incoming' = Append(incoming, arrived + 1) /\ arrived' = arrived + 1
        /\ shown' = shown
    BY <1>4 DEF MessageArrives
  <2>2. incoming' \in Seq(1 .. arrived') /\ shown' \in Seq(1 .. arrived')
    BY <2>1
  <2>3. shown' \o incoming' = Append(shown \o incoming, arrived + 1)
    <3>1. incoming \in Seq(Nat) /\ shown \in Seq(Nat)
      <4>1. 1 .. arrived \subseteq Nat
        OBVIOUS
      <4> QED
        BY <2>1, <4>1, SeqMonotonic
    <3>2. arrived + 1 \in Nat
      BY <2>1
    <3>3. \A n \in Nat : shown \o Append(incoming, n) = Append(shown \o incoming, n)
      BY <3>1, AppendOver
    <3> QED
      BY <2>1, <3>2, <3>3
  <2>4. Append([n \in 1 .. arrived |-> n], arrived + 1) = [n \in 1 .. arrived + 1 |-> n]
    BY <2>1
  <2>5. ShownInOrder'
    BY <2>1, <2>3, <2>4
  <2>6. TypeOK'
    BY <1>4, <2>1, <2>2 DEF MessageArrives
  <2>7. PopHasMessage'
    <3>1. incoming' # << >>
      BY <2>1
    <3> QED
      BY <3>1
  <2> QED
    BY <2>5, <2>6, <2>7
<1>5. CASE ConnectionCloses
  BY <1>5 DEF ConnectionCloses
<1> QED
  BY <1>1, <1>2, <1>3, <1>4, <1>5

(* The invariant holds in every state.                                                 *)
LEMMA Invariant == Spec => []IInv
<1>1. IInv /\ [Next]_vars => IInv'
  <2> SUFFICES ASSUME IInv, [Next]_vars PROVE IInv'
    OBVIOUS
  <2>1. CASE \/ \E key \in Keys : getchar(key)
             \/ set_value \/ thread_returns \/ poll \/ act \/ join \/ new_promise \/ get_future
             \/ new_thread
    BY <2>1, KeyStepKeeps, KeyStepKeepsMessages DEF IInv
  <2>2. CASE isConnected \/ isEmpty \/ popFront \/ MessageArrives \/ ConnectionCloses
    BY <2>2, MessageStepKeepsKeys, MessageStepKeeps DEF IInv
  <2>3. CASE UNCHANGED vars
    BY <2>3 DEF vars, keyVars, netVars, IInv, TypeOK, JoinedWhen, ValueWhen, KeyWhen, Waiting,
                PopHasMessage, ShownInOrder
  <2> QED
    BY <2>1, <2>2, <2>3 DEF Next, Keyboard, Main
<1> QED
  BY <1>1, InitIInv, PTL DEF Spec

-----------------------------------------------------------------------------

(* Types of the console's state, for any number of keys and messages.                  *)
THEOREM TypeCorrect == Spec => []TypeOK
  BY Invariant, PTL DEF IInv

(* The promise that the keyboard thread sets is there until the thread is joined:      *)
(* main, which sees the value before set_value has returned, joins before it makes a   *)
(* new promise and before it returns.                                                  *)
THEOREM PromiseIsThere == Spec => []PromiseOutlivesThread
<1>1. IInv => PromiseOutlivesThread
  BY DEF IInv, JoinedWhen, PromiseOutlivesThread
<1> QED
  BY <1>1, Invariant, PTL

(* Keys are acted on once and in order, through any number of promises and threads.    *)
THEOREM KeysAreInOrder == Spec => []KeysInOrder
<1>1. IInv => KeysInOrder
  <2> SUFFICES ASSUME IInv PROVE KeysInOrder
    OBVIOUS
  <2>1. pressed = acted \/ pressed = Append(acted, thread.key)
    BY DEF IInv, KeyWhen
  <2>2. acted \in Seq(possable_inputs) /\ pressed \in Seq(possable_inputs)
    BY DEF IInv, TypeOK
  <2>3. CASE pressed = acted
    BY <2>2, <2>3 DEF KeysInOrder, IsPrefix
  <2>4. CASE pressed = Append(acted, thread.key)
    <3>1. Len(pressed) = Len(acted) + 1
      BY <2>2, <2>4
    <3>2. SubSeq(acted, 1, Len(acted)) = SubSeq(pressed, 1, Len(acted))
      BY <2>2, <2>4, <3>1
    <3> QED
      BY <2>2, <3>1, <3>2 DEF KeysInOrder, IsPrefix
  <2> QED
    BY <2>1, <2>3, <2>4
<1> QED
  BY <1>1, Invariant, PTL

(* Main never pops an empty queue, and shows every message once and in order.          *)
THEOREM MessagesAreShown == Spec => [](PopHasMessage /\ ShownInOrder)
  BY Invariant, PTL DEF IInv
=============================================================================
