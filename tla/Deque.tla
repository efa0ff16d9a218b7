------------------------------- MODULE Deque -------------------------------
(***************************************************************************)
(* What a TsNetQueue promises its callers: every operation takes effect in *)
(* one indivisible step on one double-ended queue.  This is an abstract    *)
(* specification; it has no mutexes and no condition variable.             *)
(* TsNetQueue.tla is shown to implement it.                                *)
(***************************************************************************)
EXTENDS Integers, Sequences

CONSTANTS Threads,  \* the threads that share the queue
          Values,   \* the elements it holds
          NoValue   \* what a thread has got before its first element

VARIABLES q,        \* the elements, front first
          ret,      \* ret[t]: the element t was given last
          saw       \* saw[t]: t was told that q is not empty, and has not
                    \* taken an element since

vars == <<q, ret, saw>>

Init == /\ q = <<>>
        /\ ret = [t \in Threads |-> NoValue]
        /\ saw = [t \in Threads |-> FALSE]

Push(v) == /\ q' \in {Append(q, v), <<v>> \o q}
           /\ UNCHANGED <<ret, saw>>

(* Looking (isEmpty, count, wait) tells the truth about q.                 *)
Look(t) == /\ saw' = [saw EXCEPT ![t] = q # <<>>]
           /\ UNCHANGED <<q, ret>>

(* front() and back() return an element that is in q.                      *)
Peek(t) == /\ q # <<>>
           /\ ret' \in {[ret EXCEPT ![t] = q[1]], [ret EXCEPT ![t] = q[Len(q)]]}
           /\ UNCHANGED <<q, saw>>

PopFront(t) == /\ q # <<>>
               /\ ret' = [ret EXCEPT ![t] = q[1]]
               /\ q' = Tail(q)
               /\ saw' = [saw EXCEPT ![t] = FALSE]

PopBack(t) == /\ q # <<>>
              /\ ret' = [ret EXCEPT ![t] = q[Len(q)]]
              /\ q' = SubSeq(q, 1, Len(q) - 1)
              /\ saw' = [saw EXCEPT ![t] = FALSE]

Clear(t) == /\ q' = <<>>
            /\ saw' = [saw EXCEPT ![t] = FALSE]
            /\ UNCHANGED ret

Next == \/ \E v \in Values : Push(v)
        \/ \E t \in Threads : Look(t) \/ Peek(t) \/ PopFront(t) \/ PopBack(t) \/ Clear(t)

Spec == Init /\ [][Next]_vars
=============================================================================
