----------------------------- MODULE TsNetQueue -----------------------------
(***************************************************************************)
(* The thread-safe queue of include/custom_net_lib/net_ts_queue.hpp: a     *)
(* deque behind one mutex, and a condition variable with a mutex of its    *)
(* own on which wait() sleeps.                                             *)
(*                                                                         *)
(* One step is one lock acquisition, one statement on the shared state, or *)
(* one return.  A mutex is the thread that holds it, or NoThread; the      *)
(* condition variable is the set of threads that sleep on it.  The locks   *)
(* are released by destructors, in the step that leaves the function.      *)
(***************************************************************************)
EXTENDS Integers, Sequences, FiniteSets

CONSTANTS Producers,  \* threads that push and look (the io_context's thread)
          Consumers,  \* threads that may call everything (the owner's thread)
          Values,     \* the elements
          NoThread,   \* an unlocked mutex is held by NoThread
          NoValue,    \* an element that was never set
          MaxPush     \* bound: how many pushes are begun in all

Threads == Producers \cup Consumers

ASSUME ThreadsAssumption == /\ NoThread \notin Threads
                            /\ Producers \cap Consumers = {}

(* One thread pops from each queue of the library: the thread that calls   *)
(* update() from the server's queue (net_server.hpp 192-202), main() from  *)
(* the client's (custom_client.cpp 170-174), the io_context's thread from  *)
(* out_msg_queue_ (connection_net_interface.hpp 246, 271).                 *)
ASSUME ConsumerAssumption == \A c, d \in Consumers : c = d

ASSUME BoundAssumption == MaxPush \in Nat

VARIABLES data_queue_,       \* the deque, front first
          mutex_q_,          \* guards data_queue_
          mtx_caller_block,  \* the mutex of the condition variable
          caller_block,      \* the threads that sleep on it
          pc,                \* where a thread is in the operation op[t]
          op,
          tmp_element,       \* the argument of a push, the local of a pop
          saw,               \* the thread found the queue not empty
          ret,               \* the element the thread got last
          pushes             \* pushes begun, at most MaxPush

queue == <<data_queue_, ret, saw>>
locks == <<mutex_q_, mtx_caller_block, caller_block>>
vars == <<queue, locks, pc, op, tmp_element, pushes>>

Pushes  == {"pushBack", "pushFront"}
Looks   == {"isEmpty", "count", "wait"}
Peeks   == {"front", "back"}
Pops    == {"popFront", "popBack"}
Ops     == Pushes \cup Looks \cup Peeks \cup Pops \cup {"clear"}

PCs == {"idle", "lock", "body", "pop", "notify", "notified",
        "block", "blocking", "asleep", "woken", "relocked"}

Init == /\ data_queue_ = <<>>
        /\ mutex_q_ = NoThread
        /\ mtx_caller_block = NoThread
        /\ caller_block = {}
        /\ pc = [t \in Threads |-> "idle"]
        /\ op = [t \in Threads |-> "count"]
        /\ tmp_element = [t \in Threads |-> NoValue]
        /\ saw = [t \in Threads |-> FALSE]
        /\ ret = [t \in Threads |-> NoValue]
        /\ pushes = 0

-----------------------------------------------------------------------------
(* Moves of the program counter.                                           *)

Goto(t, from, to) == pc[t] = from /\ pc' = [pc EXCEPT ![t] = to]

(* Mutant of MayCall: the caller pops without having looked.               *)
MayCallUnseen(t, o) == t \in Consumers \/ o \in Pushes \cup {"isEmpty", "count"}

(* front(), back(), popFront() and popBack() of an empty std::deque are    *)
(* undefined, and the queue does not look: its callers do, with isEmpty()  *)
(* or wait(), before the call.                                             *)
MayCall(t, o) == \/ o \in Pushes \cup {"isEmpty", "count"}
                 \/ t \in Consumers /\ o \in {"wait", "clear"}
                 \/ t \in Consumers /\ o \in Peeks \cup Pops /\ saw[t]

(* Mutant of CallPush: the element was already moved from.                 *)
CallPushMovedFrom(t, o, v) == /\ Goto(t, "idle", "lock")
                              /\ o \in Pushes
                              /\ MayCall(t, o)
                              /\ pushes < MaxPush
                              /\ pushes' = pushes + 1
                              /\ op' = [op EXCEPT ![t] = o]
                              /\ tmp_element' = [tmp_element EXCEPT ![t] = NoValue]
                              /\ UNCHANGED <<queue, locks>>

(* A thread calls an operation; every one begins by locking mutex_q_.      *)
CallPush(t, o, v) == /\ Goto(t, "idle", "lock")
                     /\ o \in Pushes
                     /\ MayCall(t, o)
                     /\ pushes < MaxPush
                     /\ pushes' = pushes + 1
                     /\ op' = [op EXCEPT ![t] = o]
                     /\ tmp_element' = [tmp_element EXCEPT ![t] = v]
                     /\ UNCHANGED <<queue, locks>>

Call(t, o) == /\ Goto(t, "idle", "lock")
              /\ o \notin Pushes
              /\ MayCall(t, o)
              /\ op' = [op EXCEPT ![t] = o]
              /\ UNCHANGED <<queue, locks, tmp_element, pushes>>

(* Mutant of Lock: an operation that forgot its unique_lock.               *)
LockNothing(t) == /\ Goto(t, "lock", "body")
                  /\ mutex_q_' = t
                  /\ UNCHANGED <<queue, mtx_caller_block, caller_block, op, tmp_element, pushes>>

Lock(t) == /\ Goto(t, "lock", "body")
           /\ mutex_q_ = NoThread
           /\ mutex_q_' = t
           /\ UNCHANGED <<queue, mtx_caller_block, caller_block, op, tmp_element, pushes>>

-----------------------------------------------------------------------------
(* The bodies, under mutex_q_.                                             *)

(* pushBack and pushFront insert, and keep mutex_q_ while they notify.     *)
Push(t) == /\ Goto(t, "body", "notify")
           /\ op[t] \in Pushes
           /\ data_queue_' = IF op[t] = "pushBack" THEN Append(data_queue_, tmp_element[t])
                                                   ELSE <<tmp_element[t]>> \o data_queue_
           /\ UNCHANGED <<saw, ret, locks, op, tmp_element, pushes>>

LockToNotify(t) == /\ Goto(t, "notify", "notified")
                   /\ mtx_caller_block = NoThread
                   /\ mtx_caller_block' = t
                   /\ UNCHANGED <<queue, mutex_q_, caller_block, op, tmp_element, pushes>>

(* Mutant of NotifyOne: notify only when the queue was empty before.       *)
NotifyWhenFirst(t) ==
    /\ pc[t] = "notified"
    /\ IF Len(data_queue_) = 1 /\ caller_block # {}
       THEN \E s \in caller_block : /\ caller_block' = caller_block \ {s}
                                    /\ pc' = [pc EXCEPT ![t] = "idle", ![s] = "woken"]
       ELSE /\ pc' = [pc EXCEPT ![t] = "idle"]
            /\ UNCHANGED caller_block
    /\ mtx_caller_block' = NoThread
    /\ mutex_q_' = NoThread
    /\ UNCHANGED <<queue, op, tmp_element, pushes>>

(* notify_one wakes a sleeping thread if there is one, then both locks go. *)
NotifyOne(t) == /\ pc[t] = "notified"
                /\ \/ \E s \in caller_block :
                         /\ caller_block' = caller_block \ {s}
                         /\ pc' = [pc EXCEPT ![t] = "idle", ![s] = "woken"]
                   \/ /\ caller_block = {}
                      /\ pc' = [pc EXCEPT ![t] = "idle"]
                      /\ UNCHANGED caller_block
                /\ mtx_caller_block' = NoThread
                /\ mutex_q_' = NoThread
                /\ UNCHANGED <<queue, op, tmp_element, pushes>>

(* isEmpty() and count() return; the loop of wait() goes on to sleep when  *)
(* the queue was empty, with no lock held in between.                      *)
Look(t) == /\ op[t] \in Looks
           /\ \/ /\ op[t] = "wait" /\ data_queue_ = <<>>
                 /\ Goto(t, "body", "block")
              \/ /\ op[t] # "wait" \/ data_queue_ # <<>>
                 /\ Goto(t, "body", "idle")
           /\ saw' = [saw EXCEPT ![t] = data_queue_ # <<>>]
           /\ mutex_q_' = NoThread
           /\ UNCHANGED <<data_queue_, ret, mtx_caller_block, caller_block, op,
                          tmp_element, pushes>>

Element(o) == IF o \in {"front", "popFront"} THEN data_queue_[1]
                                             ELSE data_queue_[Len(data_queue_)]

Peek(t) == /\ Goto(t, "body", "idle")
           /\ op[t] \in Peeks
           /\ data_queue_ # <<>>
           /\ ret' = [ret EXCEPT ![t] = Element(op[t])]
           /\ mutex_q_' = NoThread
           /\ UNCHANGED <<data_queue_, saw, mtx_caller_block, caller_block, op,
                          tmp_element, pushes>>

(* popFront and popBack move the element out, then shrink the deque.       *)
Take(t) == /\ Goto(t, "body", "pop")
           /\ op[t] \in Pops
           /\ data_queue_ # <<>>
           /\ tmp_element' = [tmp_element EXCEPT ![t] = Element(op[t])]
           /\ UNCHANGED <<queue, locks, op, pushes>>

(* Mutant of Pop: popBack() removes the front.                             *)
PopFrontAlways(t) == /\ Goto(t, "pop", "idle")
                     /\ data_queue_ # <<>>
                     /\ data_queue_' = Tail(data_queue_)
                     /\ ret' = [ret EXCEPT ![t] = tmp_element[t]]
                     /\ saw' = [saw EXCEPT ![t] = FALSE]
                     /\ mutex_q_' = NoThread
                     /\ UNCHANGED <<mtx_caller_block, caller_block, op, tmp_element, pushes>>

Pop(t) == /\ Goto(t, "pop", "idle")
          /\ data_queue_ # <<>>
          /\ data_queue_' = IF op[t] = "popFront" THEN Tail(data_queue_)
                            ELSE SubSeq(data_queue_, 1, Len(data_queue_) - 1)
          /\ ret' = [ret EXCEPT ![t] = tmp_element[t]]
          /\ saw' = [saw EXCEPT ![t] = FALSE]
          /\ mutex_q_' = NoThread
          /\ UNCHANGED <<mtx_caller_block, caller_block, op, tmp_element, pushes>>

Clear(t) == /\ Goto(t, "body", "idle")
            /\ op[t] = "clear"
            /\ data_queue_' = <<>>
            /\ saw' = [saw EXCEPT ![t] = FALSE]
            /\ mutex_q_' = NoThread
            /\ UNCHANGED <<ret, mtx_caller_block, caller_block, op, tmp_element, pushes>>

-----------------------------------------------------------------------------
(* The rest of wait(): lock mtx_caller_block, sleep (which gives the mutex *)
(* back in the same instant), take it again when woken, and go round.      *)

LockToBlock(t) == /\ Goto(t, "block", "blocking")
                  /\ mtx_caller_block = NoThread
                  /\ mtx_caller_block' = t
                  /\ UNCHANGED <<queue, mutex_q_, caller_block, op, tmp_element, pushes>>

Sleep(t) == /\ Goto(t, "blocking", "asleep")
            /\ caller_block' = caller_block \cup {t}
            /\ mtx_caller_block' = NoThread
            /\ UNCHANGED <<queue, mutex_q_, op, tmp_element, pushes>>

(* A condition variable may wake a thread that nobody notified.            *)
SpuriousWake(t) == /\ Goto(t, "asleep", "woken")
                   /\ caller_block' = caller_block \ {t}
                   /\ UNCHANGED <<queue, mutex_q_, mtx_caller_block, op, tmp_element, pushes>>

Relock(t) == /\ Goto(t, "woken", "relocked")
             /\ mtx_caller_block = NoThread
             /\ mtx_caller_block' = t
             /\ UNCHANGED <<queue, mutex_q_, caller_block, op, tmp_element, pushes>>

(* Mutant of LoopAgain: the lock is declared outside the loop, so that     *)
(* isEmpty() is called while it is held.                                   *)
LoopAgainLocked(t) == /\ Goto(t, "relocked", "lock")
                      /\ UNCHANGED <<queue, locks, op, tmp_element, pushes>>

LoopAgain(t) == /\ Goto(t, "relocked", "lock")
                /\ mtx_caller_block' = NoThread
                /\ UNCHANGED <<queue, mutex_q_, caller_block, op, tmp_element, pushes>>

-----------------------------------------------------------------------------
Acquire(t) == Lock(t) \/ LockToNotify(t) \/ LockToBlock(t) \/ Relock(t)

Run(t) == \/ Push(t) \/ NotifyOne(t) \/ Look(t) \/ Peek(t) \/ Take(t) \/ Pop(t)
          \/ Clear(t) \/ Sleep(t) \/ LoopAgain(t)

Next == \E t \in Threads :
           \/ \E o \in Pushes, v \in Values : CallPush(t, o, v)
           \/ \E o \in Ops : Call(t, o)
           \/ Acquire(t) \/ Run(t) \/ SpuriousWake(t)

(* A thread inside the queue keeps running, and one that waits for a mutex *)
(* which is released again and again gets it in the end.  No thread has to *)
(* call anything, and nobody has to be woken by accident.                  *)
Fairness == \A t \in Threads : /\ WF_vars(Run(t))
                               /\ SF_vars(Lock(t))
                               /\ SF_vars(LockToNotify(t))
                               /\ SF_vars(LockToBlock(t))
                               /\ SF_vars(Relock(t))

Spec == Init /\ [][Next]_vars
FairSpec == Spec /\ Fairness

-----------------------------------------------------------------------------
TypeOK == /\ data_queue_ \in Seq(Values)
          /\ mutex_q_ \in Threads \cup {NoThread}
          /\ mtx_caller_block \in Threads \cup {NoThread}
          /\ caller_block \in SUBSET Threads
          /\ pc \in [Threads -> PCs]
          /\ op \in [Threads -> Ops]
          /\ tmp_element \in [Threads -> Values \cup {NoValue}]
          /\ saw \in [Threads -> BOOLEAN]
          /\ ret \in [Threads -> Values \cup {NoValue}]
          /\ pushes \in 0..MaxPush

(* What a thread holds is a function of where it is.                       *)
HoldsQueue(t)  == pc[t] \in {"body", "pop", "notify", "notified"}
HoldsCaller(t) == pc[t] \in {"notified", "blocking", "relocked"}

(* Both mutexes exclude: a thread between lock and return holds the mutex, *)
(* so no two threads are ever inside the deque or inside the condition     *)
(* variable's section, and exactly the threads in wait() sleep.            *)
LockDiscipline ==
    \A t \in Threads : /\ HoldsQueue(t)  <=> mutex_q_ = t
                       /\ HoldsCaller(t) <=> mtx_caller_block = t
                       /\ t \in caller_block <=> pc[t] = "asleep"

(* popFront, popBack, front and back are never applied to an empty deque,  *)
(* although the check for an element and the pop are two calls, with the   *)
(* mutex free in between and other threads at work.                        *)
PopDefined == \A t \in Threads :
                 /\ pc[t] = "body" /\ op[t] \in Peeks \cup Pops => data_queue_ # <<>>
                 /\ pc[t] = "pop" => data_queue_ # <<>>

(* Every operation takes effect at one instant on one deque: TsNetQueue    *)
(* implements Deque, without a mapping other than dropping the locks.      *)
D == INSTANCE Deque WITH q <- data_queue_
DequeSpec == D!Spec

(* A thread that calls an operation other than wait() returns from it: the *)
(* two mutexes never lock it out.                                          *)
EveryCallReturns == \A t \in Threads :
                       pc[t] = "lock" /\ op[t] # "wait" ~> pc[t] = "idle"

(* The consumer asleep in wait() is woken by every push that begins then.  *)
PushWakesSleeper ==
    \A p \in Producers, c \in Consumers :
       (pc[p] = "lock" /\ op[p] \in Pushes /\ pc[c] = "asleep") ~> pc[c] # "asleep"

(* net_ts_queue.hpp 96: wait() suspends the caller "until there are        *)
(* messages within the queue", so a sleeper does not sleep on while there  *)
(* are some.                                                               *)
NoSleepOnMessages == \A c \in Consumers :
                        (pc[c] = "asleep" /\ data_queue_ # <<>>) ~> pc[c] # "asleep"
=============================================================================
