-------------------------- MODULE TsNetQueue_proof --------------------------
(***************************************************************************)
(* Proofs about TsNetQueue, for every number of producers, every set of    *)
(* values and every bound on the pushes, with at most one consumer.        *)
(***************************************************************************)
EXTENDS TsNetQueue, TLAPS

(* A pending push has a value to push.                                     *)
PushHasValue == \A t \in Threads :
                   pc[t] \in {"lock", "body"} /\ op[t] \in Pushes => tmp_element[t] \in Values

(* What the consumer saw stays true until it takes an element itself.      *)
SawIsTrue == \A c \in Consumers : saw[c] => data_queue_ # <<>>

(* Only the consumer empties the deque, and only after it saw an element.  *)
TakesOnlyWhatItSaw ==
    \A t \in Threads :
       /\ pc[t] \in {"lock", "body"} /\ op[t] \in Peeks \cup Pops => t \in Consumers /\ saw[t]
       /\ pc[t] \in {"lock", "body"} /\ op[t] = "clear" => t \in Consumers
       /\ pc[t] = "pop" => t \in Consumers /\ saw[t] /\ op[t] \in Pops

(* What a pop moved out is still the element that it will remove.          *)
TakenIsCurrent ==
    \A t \in Threads :
       pc[t] = "pop" => /\ data_queue_ # <<>>
                        /\ tmp_element[t] = Element(op[t])

(* Whoever is past the check in wait() is in wait().                       *)
InWait == \A t \in Threads :
             pc[t] \in {"block", "blocking", "asleep", "woken", "relocked"} => op[t] = "wait"

(* The inductive invariant.                                                *)
IInv == /\ TypeOK
        /\ LockDiscipline
        /\ PushHasValue
        /\ SawIsTrue
        /\ TakesOnlyWhatItSaw
        /\ TakenIsCurrent
        /\ InWait

USE DEF queue, locks

(* The constructor leaves a queue in which the invariant holds.            *)
LEMMA InitIInv == Init => IInv
  BY ThreadsAssumption, BoundAssumption
  DEF Init, IInv, TypeOK, LockDiscipline, HoldsQueue, HoldsCaller, PushHasValue, SawIsTrue,
      TakesOnlyWhatItSaw, TakenIsCurrent, InWait, Threads, PCs, Ops, Looks

(* Calling a push.                                                         *)
LEMMA CallPushKeeps ==
  ASSUME IInv, NEW t \in Threads, NEW o \in Pushes, NEW v \in Values, CallPush(t, o, v)
  PROVE  IInv'
<1> USE ThreadsAssumption, BoundAssumption DEF IInv, TypeOK, Goto, CallPush, Ops
<1>1. TypeOK'
  BY DEF PCs
<1>2. LockDiscipline'
  BY DEF LockDiscipline, HoldsQueue, HoldsCaller
<1>3. PushHasValue'
  BY DEF PushHasValue, Pushes
<1>4. SawIsTrue'
  BY DEF SawIsTrue
<1>5. TakesOnlyWhatItSaw'
  BY DEF TakesOnlyWhatItSaw, MayCall, Pushes, Peeks, Pops
<1>6. TakenIsCurrent'
  BY DEF TakenIsCurrent, Element
<1>7. InWait'
  BY DEF InWait
<1> QED
  BY <1>1, <1>2, <1>3, <1>4, <1>5, <1>6, <1>7

(* Calling another operation.                                                  *)
LEMMA CallKeeps ==
  ASSUME IInv, NEW t \in Threads, NEW o \in Ops, Call(t, o)
  PROVE  IInv'
<1> USE ThreadsAssumption DEF IInv, TypeOK, Goto, Call
<1>1. TypeOK'
  BY DEF PCs
<1>2. LockDiscipline'
  BY DEF LockDiscipline, HoldsQueue, HoldsCaller
<1>3. PushHasValue'
  BY DEF PushHasValue, Pushes
<1>4. SawIsTrue'
  BY DEF SawIsTrue
<1>5. TakesOnlyWhatItSaw'
  BY DEF TakesOnlyWhatItSaw, MayCall, Pushes, Peeks, Pops
<1>6. TakenIsCurrent'
  BY DEF TakenIsCurrent, Element
<1>7. InWait'
  BY DEF InWait
<1> QED
  BY <1>1, <1>2, <1>3, <1>4, <1>5, <1>6, <1>7

(* Taking a lock, sleeping, waking.                                       *)
LEMMA LockingKeeps ==
  ASSUME IInv, NEW t \in Threads, 
         Acquire(t) \/ Sleep(t) \/ LoopAgain(t) \/ SpuriousWake(t)
  PROVE  IInv'
<1> USE ThreadsAssumption DEF IInv, TypeOK, Goto, Acquire, Lock, LockToNotify, LockToBlock, Relock,
    Sleep, LoopAgain, SpuriousWake
<1>1. TypeOK'
  BY DEF PCs
<1>2. LockDiscipline'
  BY DEF LockDiscipline, HoldsQueue, HoldsCaller
<1>3. PushHasValue'
  BY DEF PushHasValue, InWait, Pushes
<1>4. SawIsTrue'
  BY DEF SawIsTrue
<1>5. TakesOnlyWhatItSaw'
  BY DEF TakesOnlyWhatItSaw, InWait, Peeks, Pops
<1>6. TakenIsCurrent'
  BY DEF TakenIsCurrent, Element
<1>7. InWait'
  BY DEF InWait
<1> QED
  BY <1>1, <1>2, <1>3, <1>4, <1>5, <1>6, <1>7

(* The end of a push.                                                     *)
LEMMA NotifyKeeps ==
  ASSUME IInv, NEW t \in Threads, NotifyOne(t)
  PROVE  IInv'
<1> USE ThreadsAssumption DEF IInv, TypeOK, Goto, NotifyOne
<1>1. TypeOK'
  BY DEF PCs
<1>2. LockDiscipline'
  BY DEF LockDiscipline, HoldsQueue, HoldsCaller
<1>3. PushHasValue'
  BY DEF PushHasValue
<1>4. SawIsTrue'
  BY DEF SawIsTrue
<1>5. TakesOnlyWhatItSaw'
  BY DEF TakesOnlyWhatItSaw
<1>6. TakenIsCurrent'
  BY DEF TakenIsCurrent, Element
<1>7. InWait'
  BY DEF InWait, LockDiscipline
<1> QED
  BY <1>1, <1>2, <1>3, <1>4, <1>5, <1>6, <1>7

(* Inserting an element.                                                  *)
LEMMA PushKeeps ==
  ASSUME IInv, NEW t \in Threads, Push(t)
  PROVE  IInv'
<1> USE ThreadsAssumption DEF IInv, TypeOK, Goto, Push
<1>1. TypeOK'
  BY DEF PCs, PushHasValue
<1>2. LockDiscipline'
  BY DEF LockDiscipline, HoldsQueue, HoldsCaller
<1>3. PushHasValue'
  BY DEF PushHasValue
<1>4. SawIsTrue'
  BY DEF SawIsTrue
<1>5. TakesOnlyWhatItSaw'
  BY DEF TakesOnlyWhatItSaw
<1>6. TakenIsCurrent'
  BY DEF TakenIsCurrent, Element, LockDiscipline, HoldsQueue
<1>7. InWait'
  BY DEF InWait
<1> QED
  BY <1>1, <1>2, <1>3, <1>4, <1>5, <1>6, <1>7

(* isEmpty(), count() and the check in wait().                            *)
LEMMA LookKeeps ==
  ASSUME IInv, NEW t \in Threads, Look(t)
  PROVE  IInv'
<1> USE ThreadsAssumption DEF IInv, TypeOK, Goto, Look
<1>1. TypeOK'
  BY DEF PCs
<1>2. LockDiscipline'
  BY DEF LockDiscipline, HoldsQueue, HoldsCaller
<1>3. PushHasValue'
  BY DEF PushHasValue
<1>4. SawIsTrue'
  BY DEF SawIsTrue
<1>5. TakesOnlyWhatItSaw'
  BY DEF TakesOnlyWhatItSaw, LockDiscipline, HoldsQueue
<1>6. TakenIsCurrent'
  BY DEF TakenIsCurrent, Element
<1>7. InWait'
  BY DEF InWait
<1> QED
  BY <1>1, <1>2, <1>3, <1>4, <1>5, <1>6, <1>7

(* front() and back().                                                    *)
LEMMA PeekKeeps ==
  ASSUME IInv, NEW t \in Threads, Peek(t)
  PROVE  IInv'
<1> USE ThreadsAssumption DEF IInv, TypeOK, Goto, Peek
<1>1. TypeOK'
  BY DEF PCs, Element
<1>2. LockDiscipline'
  BY DEF LockDiscipline, HoldsQueue, HoldsCaller
<1>3. PushHasValue'
  BY DEF PushHasValue
<1>4. SawIsTrue'
  BY DEF SawIsTrue
<1>5. TakesOnlyWhatItSaw'
  BY DEF TakesOnlyWhatItSaw
<1>6. TakenIsCurrent'
  BY DEF TakenIsCurrent, Element
<1>7. InWait'
  BY DEF InWait
<1> QED
  BY <1>1, <1>2, <1>3, <1>4, <1>5, <1>6, <1>7

(* The first half of a pop.                                               *)
LEMMA TakeKeeps ==
  ASSUME IInv, NEW t \in Threads, Take(t)
  PROVE  IInv'
<1> USE ThreadsAssumption DEF IInv, TypeOK, Goto, Take
<1>1. TypeOK'
  BY DEF PCs, Element
<1>2. LockDiscipline'
  BY DEF LockDiscipline, HoldsQueue, HoldsCaller
<1>3. PushHasValue'
  BY DEF PushHasValue
<1>4. SawIsTrue'
  BY DEF SawIsTrue
<1>5. TakesOnlyWhatItSaw'
  BY DEF TakesOnlyWhatItSaw
<1>6. TakenIsCurrent'
  BY DEF TakenIsCurrent, Element
<1>7. InWait'
  BY DEF InWait
<1> QED
  BY <1>1, <1>2, <1>3, <1>4, <1>5, <1>6, <1>7

(* The second half of a pop: the one consumer's own, so what it saw is spent. *)
LEMMA PopKeeps ==
  ASSUME IInv, NEW t \in Threads, Pop(t)
  PROVE  IInv'
<1> USE ThreadsAssumption, ConsumerAssumption DEF IInv, TypeOK, Goto, Pop
<1>1. TypeOK'
  BY DEF PCs
<1>2. LockDiscipline'
  BY DEF LockDiscipline, HoldsQueue, HoldsCaller
<1>3. PushHasValue'
  BY DEF PushHasValue
<1>4. SawIsTrue'
  BY DEF SawIsTrue, TakesOnlyWhatItSaw
<1>5. TakesOnlyWhatItSaw'
  BY DEF TakesOnlyWhatItSaw
<1>6. TakenIsCurrent'
  BY DEF TakenIsCurrent, Element, LockDiscipline, HoldsQueue
<1>7. InWait'
  BY DEF InWait
<1> QED
  BY <1>1, <1>2, <1>3, <1>4, <1>5, <1>6, <1>7

(* clear(), by the one consumer.                                          *)
LEMMA ClearKeeps ==
  ASSUME IInv, NEW t \in Threads, Clear(t)
  PROVE  IInv'
<1> USE ThreadsAssumption, ConsumerAssumption DEF IInv, TypeOK, Goto, Clear
<1>1. TypeOK'
  BY DEF PCs
<1>2. LockDiscipline'
  BY DEF LockDiscipline, HoldsQueue, HoldsCaller
<1>3. PushHasValue'
  BY DEF PushHasValue
<1>4. SawIsTrue'
  BY DEF SawIsTrue, TakesOnlyWhatItSaw
<1>5. TakesOnlyWhatItSaw'
  BY DEF TakesOnlyWhatItSaw
<1>6. TakenIsCurrent'
  BY DEF TakenIsCurrent, Element, LockDiscipline, HoldsQueue
<1>7. InWait'
  BY DEF InWait
<1> QED
  BY <1>1, <1>2, <1>3, <1>4, <1>5, <1>6, <1>7

(* Every step of every thread keeps the invariant.                         *)
LEMMA NextIInv == IInv /\ [Next]_vars => IInv'
<1> SUFFICES ASSUME IInv, [Next]_vars PROVE IInv'
  OBVIOUS
<1>1. CASE UNCHANGED vars
  BY <1>1 DEF vars, IInv, TypeOK, LockDiscipline, HoldsQueue, HoldsCaller, PushHasValue, SawIsTrue,
             TakesOnlyWhatItSaw, TakenIsCurrent, InWait, Element
<1>2. CASE Next
  <2> PICK t \in Threads : \/ \E o \in Pushes, v \in Values : CallPush(t, o, v)
                           \/ \E o \in Ops : Call(t, o)
                           \/ Acquire(t) \/ Run(t) \/ SpuriousWake(t)
    BY <1>2 DEF Next
  <2>1. ASSUME NEW o \in Pushes, NEW v \in Values, CallPush(t, o, v) PROVE IInv'
    BY <2>1, CallPushKeeps
  <2>2. ASSUME NEW o \in Ops, Call(t, o) PROVE IInv'
    BY <2>2, CallKeeps
  <2>3. CASE Acquire(t) \/ Sleep(t) \/ LoopAgain(t) \/ SpuriousWake(t)
    BY <2>3, LockingKeeps
  <2>4. CASE NotifyOne(t) \/ Push(t) \/ Look(t)
    BY <2>4, NotifyKeeps, PushKeeps, LookKeeps
  <2>5. CASE Peek(t) \/ Take(t) \/ Pop(t) \/ Clear(t)
    BY <2>5, PeekKeeps, TakeKeeps, PopKeeps, ClearKeeps
  <2> QED
    BY <2>1, <2>2, <2>3, <2>4, <2>5 DEF Run
<1> QED
  BY <1>1, <1>2

-----------------------------------------------------------------------------
(* The invariant holds in every state the queue reaches.                   *)
THEOREM Inductive == Spec => []IInv
  BY InitIInv, NextIInv, PTL DEF Spec

(* Every variable keeps its type, whatever the threads call.               *)
THEOREM TypeCorrect == Spec => []TypeOK
  BY Inductive, PTL DEF IInv

(* The mutexes of push, pop, look and wait() exclude one another.          *)
THEOREM MutualExclusion == Spec => []LockDiscipline
  BY Inductive, PTL DEF IInv

(* No thread pops, or looks at an end of, an empty deque: with one         *)
(* consumer, isEmpty() followed by popFront() is safe.                     *)
THEOREM PopsAreDefined == Spec => []PopDefined
<1>1. IInv => PopDefined
  BY DEF IInv, PopDefined, TakesOnlyWhatItSaw, TakenIsCurrent, SawIsTrue
<1> QED
  BY <1>1, Inductive, PTL

(* Each operation of the queue is one indivisible step of the abstract     *)
(* deque; everything the threads do with locks is invisible to it.         *)
THEOREM ImplementsDeque == Spec => DequeSpec
<1>1. Init => D!Init
  BY DEF Init, D!Init
<1>2. IInv /\ [Next]_vars => [D!Next]_D!vars
  <2> SUFFICES ASSUME IInv, Next PROVE D!Next \/ UNCHANGED D!vars
    BY DEF vars, D!vars
  <2> PICK t \in Threads : \/ \E o \in Pushes, v \in Values : CallPush(t, o, v)
                           \/ \E o \in Ops : Call(t, o)
                           \/ Acquire(t) \/ Run(t) \/ SpuriousWake(t)
    BY DEF Next
  <2>1. CASE Push(t)
    <3>1. tmp_element[t] \in Values
      BY <2>1 DEF IInv, PushHasValue, Push, Goto
    <3>2. D!Push(tmp_element[t])
      BY <2>1 DEF Push, D!Push
    <3> QED
      BY <3>1, <3>2 DEF D!Next
  <2>2. CASE Look(t)
    BY <2>2 DEF Look, D!Next, D!Look
  <2>3. CASE Peek(t)
    <3>1. D!Peek(t)
      BY <2>3 DEF Peek, D!Peek, Element
    <3> QED
      BY <3>1 DEF D!Next
  <2>4. CASE Pop(t)
    <3>1. tmp_element[t] = Element(op[t]) /\ op[t] \in Pops
      BY <2>4 DEF Pop, Goto, IInv, TakenIsCurrent, TakesOnlyWhatItSaw
    <3>2. D!PopFront(t) \/ D!PopBack(t)
      BY <2>4, <3>1 DEF Pop, Pops, Element, D!PopFront, D!PopBack
    <3> QED
      BY <3>2 DEF D!Next
  <2>5. CASE Clear(t)
    BY <2>5 DEF Clear, D!Next, D!Clear
  <2>6. CASE \/ \E o \in Pushes, v \in Values : CallPush(t, o, v)
             \/ \E o \in Ops : Call(t, o)
             \/ Acquire(t) \/ Take(t) \/ NotifyOne(t) \/ Sleep(t) \/ LoopAgain(t)
             \/ SpuriousWake(t)
    BY <2>6 DEF D!vars, CallPush, Call, Acquire, Lock, LockToNotify, LockToBlock, Relock,
                Take, NotifyOne, Sleep, LoopAgain, SpuriousWake
  <2> QED
    BY <2>1, <2>2, <2>3, <2>4, <2>5, <2>6 DEF Run
<1> QED
  BY <1>1, <1>2, Inductive, PTL DEF Spec, DequeSpec, D!Spec
=============================================================================
