--------------------------- MODULE NetServer_proof ---------------------------
(***************************************************************************)
(* Proofs about the server's registry, for any set of connections, any     *)
(* width of the ids and any number of messages.                            *)
(***************************************************************************)
EXTENDS NetServer, FiniteSetTheorems, WellFoundedInduction, TLAPS

-----------------------------------------------------------------------------
(* Erasing: the enumeration of a finite set of positions exists.           *)

(* The natural numbers are well ordered.                                   *)
LEMMA LeastNumber ==
  ASSUME NEW T \in SUBSET Nat, T # {}
  PROVE  \E x \in T : \A y \in T : x <= y
<1>1. PICK x \in T : \A y \in T : ~(<<y, x>> \in OpToRel(<, Nat))
  BY NatLessThanWellFounded, WFMin
<1>2. ASSUME NEW y \in T PROVE x <= y
  <2>1. ~(<<y, x>> \in OpToRel(<, Nat))
    BY <1>1
  <2>2. ~(y < x)
    BY <2>1 DEF OpToRel
  <2> QED
    BY <2>2
<1> QED
  BY <1>2

(* Induction, for a set of numbers in place of a predicate.                *)
LEMMA SetInduction ==
  ASSUME NEW T \in SUBSET Nat, 0 \in T, \A n \in T : n + 1 \in T
  PROVE  T = Nat
<1>1. SUFFICES ASSUME Nat \ T # {} PROVE FALSE
  OBVIOUS
<1>2. PICK x \in Nat \ T : \A y \in Nat \ T : x <= y
  BY <1>1, LeastNumber
<1>3. x # 0 /\ x - 1 \in Nat
  BY <1>2
<1>4. x - 1 \in T
  BY <1>2, <1>3
<1>5. x - 1 + 1 \in T
  BY <1>4
<1> QED
  BY <1>2, <1>5

(* f lists the elements of S in increasing order.                          *)
Lists(f, S) == /\ \A m, n \in DOMAIN f : m < n => f[m] < f[n]
               /\ \A i \in S : \E n \in DOMAIN f : f[n] = i

(* Every set of positions up to k can be listed.                           *)
LEMMA ListExists ==
  ASSUME NEW k \in Nat
  PROVE  \A S \in SUBSET (1..k) : \E n \in Nat : \E f \in [1..n -> S] : Lists(f, S)
<1> DEFINE Listed(j) == \A S \in SUBSET (1..j) : \E n \in Nat : \E f \in [1..n -> S] : Lists(f, S)
           T == {j \in Nat : Listed(j)}
<1>1. 0 \in T
  <2>1. ASSUME NEW S \in SUBSET (1..0)
        PROVE  \E n \in Nat : \E f \in [1..n -> S] : Lists(f, S)
    <3>1. S = {}
      OBVIOUS
    <3>2. [i \in 1..0 |-> i] \in [1..0 -> S] /\ Lists([i \in 1..0 |-> i], S)
      BY <3>1 DEF Lists
    <3> QED
      BY <3>2
  <2> QED
    BY <2>1
<1>2. ASSUME NEW j \in T PROVE j + 1 \in T
  <2>1. ASSUME NEW S \in SUBSET (1..(j + 1))
        PROVE  \E n \in Nat : \E f \in [1..n -> S] : Lists(f, S)
    <3> DEFINE R == S \ {j + 1}
    <3>1. R \in SUBSET (1..j)
      OBVIOUS
    <3>n. PICK n \in Nat : \E f \in [1..n -> R] : Lists(f, R)
      BY <1>2, <3>1
    <3>2. PICK f \in [1..n -> R] : Lists(f, R)
      BY <3>n
    <3>3. CASE j + 1 \notin S
      <4>1. R = S
        BY <3>3
      <4> QED
        BY <3>2, <4>1
    <3>4. CASE j + 1 \in S
      <4> DEFINE g == [i \in 1..(n + 1) |-> IF i = n + 1 THEN j + 1 ELSE f[i]]
      <4>1. g \in [1..(n + 1) -> S]
        BY <3>4
      <4>2. ASSUME NEW a \in 1..(n + 1), NEW b \in 1..(n + 1), a < b PROVE g[a] < g[b]
        <5>a. a \in 1..n /\ g[a] = f[a]
          BY <4>2
        <5>1. a \in 1..n /\ g[a] = f[a] /\ f[a] \in 1..j
          BY <3>1, <5>a
        <5>2. CASE b = n + 1
          BY <5>1, <5>2
        <5>3. CASE b # n + 1
          <6>1. b \in 1..n /\ g[b] = f[b]
            BY <5>3
          <6> QED
            BY <3>2, <4>2, <5>1, <6>1 DEF Lists
        <5> QED
          BY <5>2, <5>3
      <4>3. ASSUME NEW i \in S PROVE \E m \in 1..(n + 1) : g[m] = i
        <5>1. CASE i = j + 1
          BY <5>1
        <5>2. CASE i # j + 1
          <6>1. i \in R
            BY <5>2
          <6>2. PICK m \in 1..n : f[m] = i
            BY <3>2, <6>1 DEF Lists
          <6>3. m \in 1..(n + 1) /\ g[m] = i
            BY <6>2
          <6> QED
            BY <6>3
        <5> QED
          BY <5>1, <5>2
      <4>4. DOMAIN g = 1..(n + 1)
        OBVIOUS
      <4> HIDE DEF g
      <4>5. Lists(g, S)
        BY <4>2, <4>3, <4>4 DEF Lists
      <4>6. n + 1 \in Nat
        OBVIOUS
      <4> QED
        BY <4>1, <4>5, <4>6
    <3> QED
      BY <3>3, <3>4
  <2>2. j + 1 \in Nat
    OBVIOUS
  <2> QED
    BY <2>1, <2>2
<1>3. T = Nat
  <2> HIDE DEF Listed
  <2> QED
    BY <1>1, <1>2, SetInduction
<1> QED
  BY <1>3

(* A list of S has as many entries as S has elements.                      *)
LEMMA ListLength ==
  ASSUME NEW n \in Nat, NEW S, S \subseteq Nat, NEW f \in [1..n -> S], Lists(f, S)
  PROVE  n = Cardinality(S)
<1>1. ASSUME NEW a \in 1..n, NEW b \in 1..n, f[a] = f[b] PROVE a = b
  <2>1. f[a] \in Nat /\ f[b] \in Nat /\ DOMAIN f = 1..n
    OBVIOUS
  <2>2. ~(a < b) /\ ~(b < a)
    BY <1>1, <2>1 DEF Lists
  <2> QED
    BY <2>2
<1>2. f \in Injection(1..n, S)
  BY <1>1 DEF Injection, IsInjective
<1>s. f \in Surjection(1..n, S)
  BY DEF Surjection, Lists
<1>3. ExistsBijection(1..n, S)
  BY <1>2, <1>s DEF ExistsBijection, Bijection
<1> QED
  BY <1>3, FS_CountingElements

(* What Enumeration chooses.                                               *)
LEMMA EnumerationLists ==
  ASSUME NEW k \in Nat, NEW S \in SUBSET (1..k)
  PROVE  /\ Cardinality(S) \in Nat
         /\ Enumeration(S) \in [1..Cardinality(S) -> S]
         /\ Lists(Enumeration(S), S)
<1>n. PICK n \in Nat : \E f \in [1..n -> S] : Lists(f, S)
  BY ListExists
<1>1. PICK f \in [1..n -> S] : Lists(f, S)
  BY <1>n
<1>2. n = Cardinality(S)
  <2>1. S \subseteq Nat
    OBVIOUS
  <2> QED
    BY <1>1, <2>1, ListLength
<1>3. \E g \in [1..Cardinality(S) -> S] :
         /\ \A a, b \in DOMAIN g : a < b => g[a] < g[b]
         /\ \A i \in S : \E a \in DOMAIN g : g[a] = i
  BY <1>1, <1>2 DEF Lists
<1>4. /\ Enumeration(S) \in [1..Cardinality(S) -> S]
      /\ \A a, b \in DOMAIN Enumeration(S) : a < b => Enumeration(S)[a] < Enumeration(S)[b]
      /\ \A i \in S : \E a \in DOMAIN Enumeration(S) : Enumeration(S)[a] = i
  BY <1>3, Zenon DEF Enumeration
<1> QED
  BY <1>2, <1>4 DEF Lists

(* What EraseNulls leaves: the same connections, each as often as before,  *)
(* and no null pointer.                                                    *)
LEMMA Erased ==
  ASSUME NEW S, NEW q \in Seq(S)
  PROVE  /\ EraseNulls(q) \in Seq(S)
         /\ \A n \in DOMAIN EraseNulls(q) : EraseNulls(q)[n] # nullptr
         /\ \A i \in DOMAIN q : q[i] # nullptr =>
               \E n \in DOMAIN EraseNulls(q) : EraseNulls(q)[n] = q[i]
         /\ \A n \in DOMAIN EraseNulls(q) : \E i \in DOMAIN q : EraseNulls(q)[n] = q[i]
         /\ (\A i, j \in DOMAIN q : q[i] = q[j] /\ q[i] # nullptr => i = j)
               => \A m, n \in DOMAIN EraseNulls(q) : EraseNulls(q)[m] = EraseNulls(q)[n] => m = n
<1> DEFINE K == {i \in DOMAIN q : q[i] # nullptr}
           e == Enumeration(K)
           r == [n \in DOMAIN e |-> q[e[n]]]
<1>1. Len(q) \in Nat /\ DOMAIN q = 1..Len(q) /\ \A i \in DOMAIN q : q[i] \in S
  OBVIOUS
<1>2. K \in SUBSET (1..Len(q))
  BY <1>1
<1>3. /\ Cardinality(K) \in Nat /\ e \in [1..Cardinality(K) -> K] /\ Lists(e, K)
  BY <1>1, <1>2, EnumerationLists
<1>4. EraseNulls(q) = r
  BY DEF EraseNulls
<1>5. DOMAIN r = 1..Cardinality(K) /\ DOMAIN e = 1..Cardinality(K)
  BY <1>3
<1>6. ASSUME NEW n \in 1..Cardinality(K)
      PROVE  /\ e[n] \in DOMAIN q /\ r[n] = q[e[n]] /\ q[e[n]] # nullptr /\ r[n] \in S
  <2>1. e[n] \in K
    BY <1>3
  <2> QED
    BY <1>1, <1>5, <2>1
<1> HIDE DEF r, e
<1>7. r \in Seq(S)
  <2>1. r \in [1..Cardinality(K) -> S]
    BY <1>5, <1>6 DEF r
  <2> QED
    BY <1>3, <2>1
<1>8. ASSUME NEW i \in DOMAIN q, q[i] # nullptr
      PROVE  \E n \in DOMAIN r : r[n] = q[i]
  <2>1. PICK n \in DOMAIN e : e[n] = i
    BY <1>3, <1>8 DEF Lists
  <2> QED
    BY <1>5, <1>6, <2>1
<1>9. ASSUME \A i, j \in DOMAIN q : q[i] = q[j] /\ q[i] # nullptr => i = j,
             NEW m \in DOMAIN r, NEW n \in DOMAIN r, r[m] = r[n]
      PROVE  m = n
  <2>1. e[m] = e[n]
    BY <1>5, <1>6, <1>9
  <2>2. m \in 1..Cardinality(K) /\ n \in 1..Cardinality(K) /\ e[m] \in 1..Len(q) /\ e[n] \in 1..Len(q)
    BY <1>1, <1>5, <1>6
  <2>3. ~(m < n) /\ ~(n < m)
    BY <1>1, <1>3, <1>5, <2>1, <2>2 DEF Lists
  <2> QED
    BY <1>3, <2>2, <2>3
<1>10. /\ \A n \in DOMAIN r : r[n] # nullptr
       /\ \A n \in DOMAIN r : \E i \in DOMAIN q : r[n] = q[i]
  BY <1>5, <1>6
<1> QED
  BY <1>4, <1>7, <1>8, <1>9, <1>10

-----------------------------------------------------------------------------
(* The inductive invariant.                                                *)

q == connectionsQueue_

(* While a message is handled its connection is known, and the loop over   *)
(* the queue stays inside it: the queue only grows.                        *)
LoopInside ==
    /\ pc # "idle" => client \in Conns
    /\ pc = "all" => last <= Len(q)

(* What the loop has left behind was told or is to be ignored, and what    *)
(* lies behind its end came after it began.                                *)
LoopTold ==
    pc = "all" =>
       /\ client \notin told
       /\ \A i \in DOMAIN q : i < idx /\ q[i] \in present => q[i] \in told \cup {client}
       /\ \A i \in DOMAIN q : i > last => q[i] \notin present

(* How many connections ago c got its id, up to a round of the counter.    *)
N == 2^IdWidth
Age(c) == IF id[c] < idCounter_ THEN idCounter_ - id[c] ELSE idCounter_ - id[c] + N

AgesDiffer == accepts <= N => /\ \A c \in InQueue : Age(c) <= accepts
                              /\ \A c, d \in InQueue : id[c] = id[d] => c = d

IInv == TypeOK /\ LoopInside /\ RegistryClean /\ OpenIsRegistered /\ LoopTold /\ AgesDiffer

(* There is at least one id: a set of IdWidth elements has 2^IdWidth       *)
(* subsets.                                                                *)
LEMMA IdsExist == N \in Nat \ {0}
<1> DEFINE S == 1..IdWidth
<1>1. IdWidth \in Nat
  BY BoundAssumption
<1>2. IsFiniteSet(S) /\ Cardinality(S) = IdWidth
  BY <1>1, FS_Interval
<1>3. IsFiniteSet(SUBSET S) /\ Cardinality(SUBSET S) = 2^IdWidth
  BY <1>2, FS_SUBSET
<1>4. SUBSET S # {}
  OBVIOUS
<1>5. Cardinality(SUBSET S) \in Nat /\ Cardinality(SUBSET S) # 0
  BY <1>3, <1>4, FS_CardinalityType, FS_EmptySet
<1> QED
  BY <1>3, <1>5 DEF N

(* The next value of the counter.                                          *)
LEMMA NextId ==
  ASSUME NEW x \in 0..(N - 1)
  PROVE  (x + 1) % N = IF x + 1 = N THEN 0 ELSE x + 1
<1>1. N \in Nat \ {0}
  BY IdsExist
<1> HIDE DEF N
<1>2. CASE x + 1 = N
  <2>1. N % N = 0
    BY <1>1
  <2> QED
    BY <1>2, <2>1
<1>3. CASE x + 1 # N
  <2>1. x + 1 \in 0..(N - 1)
    BY <1>1, <1>3
  <2>2. \A y \in 0..(N - 1) : y % N = y
    BY <1>1
  <2> QED
    BY <1>3, <2>1, <2>2
<1> QED
  BY <1>2, <1>3

(* The server before the first connection.                                 *)
LEMMA InitIInv == Init => IInv
<1> SUFFICES ASSUME Init PROVE IInv
  OBVIOUS
<1>1. N \in Nat \ {0}
  BY IdsExist
<1>2. q = << >> /\ DOMAIN q = {} /\ InQueue = {}
  BY DEF Init, q, InQueue
<1>3. 0 \in Ids
  <2> HIDE DEF N
  <2>1. Ids = 0..(N - 1)
    BY DEF Ids, N
  <2> QED
    BY <1>1, <2>1
<1>4. TypeOK
  BY <1>3, BoundAssumption DEF Init, TypeOK
<1>5. LoopInside /\ LoopTold
  BY DEF Init, LoopInside, LoopTold
<1>6. RegistryClean
  BY <1>2 DEF RegistryClean, q
<1>7. OpenIsRegistered
  BY DEF Init, OpenIsRegistered
<1>8. AgesDiffer
  BY <1>2 DEF AgesDiffer
<1> QED
  BY <1>4, <1>5, <1>6, <1>7, <1>8 DEF IInv

-----------------------------------------------------------------------------
(* The steps.                                                              *)

(* The queue and what is in it.                                            *)
LEMMA QueueFacts ==
  ASSUME TypeOK
  PROVE  /\ Len(q) \in Nat /\ DOMAIN q = 1..Len(q)
         /\ \A i \in DOMAIN q : q[i] \in Conns \cup {nullptr}
         /\ \A i \in DOMAIN q : q[i] # nullptr => q[i] \in InQueue
         /\ \A c \in InQueue : c \in Conns /\ \E i \in DOMAIN q : q[i] = c
  BY DEF TypeOK, InQueue, q

(* Ids stay different while nobody is accepted.                            *)
LEMMA AgesKept ==
  ASSUME AgesDiffer, UNCHANGED <<idCounter_, id, accepts>>, InQueue' \subseteq InQueue
  PROVE  AgesDiffer'
  BY DEF AgesDiffer, Age

(* Steps that leave the registry and the loop alone and open no socket.    *)
LEMMA RegistryKept ==
  ASSUME IInv, UNCHANGED <<connectionsQueue_, idCounter_, id, main, accepts>>,
         \A c \in Conns : sock'[c] = "open" => sock[c] = "open"
  PROVE  LoopInside' /\ RegistryClean' /\ OpenIsRegistered' /\ LoopTold' /\ AgesDiffer'
<1>1. q' = q /\ InQueue' = InQueue /\ UNCHANGED <<pc, client, idx, last, present, told>>
  BY DEF q, InQueue, main
<1>2. LoopInside' /\ LoopTold'
  BY <1>1 DEF IInv, LoopInside, LoopTold
<1>3. RegistryClean'
  BY <1>1 DEF IInv, RegistryClean, q
<1>4. OpenIsRegistered'
  BY <1>1 DEF IInv, OpenIsRegistered
<1>5. AgesDiffer'
  BY <1>1, AgesKept DEF IInv
<1> QED
  BY <1>2, <1>3, <1>4, <1>5

(* A new connection: it is in nobody's hands, so it is in the queue once.  *)
LEMMA AcceptKeeps ==
  ASSUME IInv, NEW c \in Conns, Accept(c)
  PROVE  IInv'
<1> USE DEF q
<1>0. TypeOK /\ LoopInside /\ RegistryClean /\ OpenIsRegistered /\ LoopTold /\ AgesDiffer
  BY DEF IInv
<1>1. c \notin InQueue /\ c # client /\ c # nullptr /\ \A i \in DOMAIN q : q[i] # c
  <2>1. c \notin InQueue /\ c # client
    BY DEF Accept, Alive
  <2> QED
    BY <1>0, <2>1, QueueFacts, ConnsAssumption
<1>2. /\ q' = Append(q, c) /\ id' = [id EXCEPT ![c] = idCounter_]
      /\ idCounter_' = (idCounter_ + 1) % N
      /\ sock' = [sock EXCEPT ![c] = "open"] /\ accepts' = accepts + 1
      /\ present' = present \ {c} /\ accepts < MaxAccept
      /\ UNCHANGED <<pc, client, idx, last, told, inMsgQueue_>>
  BY DEF Accept, N
<1>3. Len(q) \in Nat /\ DOMAIN q = 1..Len(q)
  BY <1>0, QueueFacts
<1>4. /\ Len(q') = Len(q) + 1 /\ DOMAIN q' = 1..(Len(q) + 1)
      /\ \A i \in 1..Len(q) : q'[i] = q[i]
      /\ q'[Len(q) + 1] = c
  BY <1>0, <1>2 DEF TypeOK
<1>5. InQueue' = InQueue \cup {c}
  BY <1>1, <1>3, <1>4 DEF InQueue
<1>6. idCounter_ \in 0..(N - 1) /\ N \in Nat \ {0}
  BY <1>0, IdsExist DEF TypeOK, Ids, N
<1>7. TypeOK'
  <2>1. q' \in Seq(Conns \cup {nullptr})
    BY <1>0, <1>2 DEF TypeOK
  <2>2. idCounter_' \in Ids /\ id' \in [Conns -> Ids]
    <3>1. Ids = 0..(N - 1)
      BY DEF Ids, N
    <3>2. idCounter_' \in 0..(N - 1)
      <4> HIDE DEF N
      <4> QED
        BY <1>2, <1>6, NextId
    <3> QED
      BY <1>0, <1>2, <1>6, <3>1, <3>2 DEF TypeOK
  <2>3. /\ sock' \in [Conns -> {"none", "open", "closed"}]
        /\ reading' \in [Conns -> BOOLEAN] /\ pending' \in [Conns -> Nat]
    BY <1>0 DEF TypeOK, Accept
  <2>4. accepts' \in 0..MaxAccept
    BY <1>0, <1>2, BoundAssumption DEF TypeOK
  <2> QED
    BY <1>0, <1>2, <2>1, <2>2, <2>3, <2>4 DEF TypeOK
<1>8. LoopInside'
  BY <1>0, <1>2, <1>3, <1>4 DEF LoopInside, TypeOK
<1>9. RegistryClean'
  BY <1>0, <1>1, <1>2, <1>3, <1>4 DEF RegistryClean
<1>10. OpenIsRegistered'
  BY <1>0, <1>2, <1>5 DEF OpenIsRegistered, TypeOK
<1>11. LoopTold'
  <2> SUFFICES ASSUME pc = "all" PROVE LoopTold'
    BY <1>2 DEF LoopTold
  <2>1. client \notin told /\ last <= Len(q) /\ last \in Nat /\ idx \in Nat
    BY <1>0 DEF LoopTold, LoopInside, TypeOK
  <2>2. ASSUME NEW i \in DOMAIN q', i < idx, q'[i] \in present'
        PROVE  q'[i] \in told \cup {client}
    BY <1>0, <1>2, <1>3, <1>4, <2>1, <2>2 DEF LoopTold
  <2>3. ASSUME NEW i \in DOMAIN q', i > last
        PROVE  q'[i] \notin present'
    BY <1>0, <1>2, <1>3, <1>4, <2>1, <2>3 DEF LoopTold
  <2> QED
    BY <1>2, <2>1, <2>2, <2>3 DEF LoopTold
<1>12. AgesDiffer'
  <2> SUFFICES ASSUME accepts' <= N
               PROVE  /\ \A x \in InQueue' : Age(x)' <= accepts'
                      /\ \A x, y \in InQueue' : id'[x] = id'[y] => x = y
    BY DEF AgesDiffer, N
  <2> HIDE DEF N
  <2>1. accepts \in Nat /\ accepts + 1 <= N
    BY <1>0, <1>2 DEF TypeOK
  <2>2. idCounter_' = IF idCounter_ + 1 = N THEN 0 ELSE idCounter_ + 1
    BY <1>2, <1>6, NextId
  <2>3. id'[c] = idCounter_ /\ \A x \in InQueue : id'[x] = id[x] /\ id[x] \in 0..(N - 1)
    <3>1. \A x \in InQueue : x \in Conns /\ x # c
      BY <1>0, <1>1, QueueFacts
    <3>2. Ids = 0..(N - 1)
      BY DEF Ids, N
    <3> QED
      BY <1>0, <1>2, <3>1, <3>2 DEF TypeOK
  <2>4. ASSUME NEW x \in InQueue PROVE Age(x) <= accepts /\ id[x] # idCounter_
    <3>1. Age(x) <= accepts
      BY <1>0, <1>6, <2>1 DEF AgesDiffer
    <3> QED
      BY <1>6, <2>1, <2>3, <3>1 DEF Age
  <2>5. ASSUME NEW x \in InQueue' PROVE Age(x)' <= accepts'
    <3>1. CASE x = c
      BY <1>2, <1>6, <2>1, <2>2, <2>3, <3>1 DEF Age, N
    <3>2. CASE x # c
      <4>1. x \in InQueue
        BY <1>5, <3>2
      <4>2. Age(x)' = IF id[x] < idCounter_' THEN idCounter_' - id[x]
                      ELSE idCounter_' - id[x] + N
        BY <2>3, <4>1 DEF Age, N
      <4>3. Age(x) = IF id[x] < idCounter_ THEN idCounter_ - id[x]
                     ELSE idCounter_ - id[x] + N
        BY DEF Age
      <4>4. Age(x) <= accepts /\ id[x] # idCounter_ /\ id[x] \in 0..(N - 1)
        BY <2>3, <2>4, <4>1
      <4> QED
        BY <1>2, <1>6, <2>1, <2>2, <4>2, <4>3, <4>4
    <3> QED
      BY <3>1, <3>2
  <2>6. ASSUME NEW x \in InQueue', NEW y \in InQueue', id'[x] = id'[y] PROVE x = y
    <3>1. \A u, v \in InQueue : id[u] = id[v] => u = v
      BY <1>0, <1>6, <2>1 DEF AgesDiffer
    <3> QED
      BY <1>5, <2>3, <2>4, <2>6, <3>1
  <2> QED
    BY <2>5, <2>6
<1> QED
  BY <1>7, <1>8, <1>9, <1>10, <1>11, <1>12 DEF IInv

(* The other handlers of the io thread.                                    *)
LEMMA IoKeeps ==
  ASSUME IInv, NEW c \in Conns,
         \/ ReadFails(c) \/ Complete(c)
         \/ \E m \in {"ServerPing", "MessageAll"} : Receive(c, m)
  PROVE  IInv'
<1>0. TypeOK
  BY DEF IInv
<1>1. CASE ReadFails(c)
  <2>1. TypeOK'
    BY <1>0, <1>1 DEF TypeOK, ReadFails, main
  <2>2. \A d \in Conns : sock'[d] = "open" => sock[d] = "open"
    BY <1>0, <1>1 DEF TypeOK, ReadFails
  <2> QED
    BY <1>1, <2>1, <2>2, RegistryKept DEF IInv, ReadFails
<1>2. CASE Complete(c)
  <2>1. pending[c] \in Nat /\ pending[c] - 1 \in Nat
    BY <1>0, <1>2 DEF TypeOK, Complete
  <2>2. sock' \in [Conns -> {"none", "open", "closed"}]
    BY <1>0, <1>2 DEF TypeOK, Complete
  <2>3. TypeOK'
    BY <1>0, <1>2, <2>1, <2>2 DEF TypeOK, Complete, main
  <2>4. \A d \in Conns : sock'[d] = "open" => sock[d] = "open"
    BY <1>0, <1>2 DEF TypeOK, Complete
  <2> QED
    BY <1>2, <2>3, <2>4, RegistryKept DEF IInv, Complete
<1>3. ASSUME NEW m \in {"ServerPing", "MessageAll"}, Receive(c, m) PROVE IInv'
  <2>1. TypeOK'
    BY <1>0, <1>3 DEF TypeOK, Receive, main
  <2> QED
    BY <1>3, <2>1, RegistryKept DEF IInv, Receive
<1> QED
  BY <1>1, <1>2, <1>3

(* A message is popped, and the loop begins with all of the queue before   *)
(* it.                                                                     *)
LEMMA UpdateKeeps ==
  ASSUME IInv, Update
  PROVE  IInv'
<1> USE DEF q
<1>0. TypeOK /\ LoopInside /\ RegistryClean /\ OpenIsRegistered /\ LoopTold /\ AgesDiffer
  BY DEF IInv
<1>1. /\ pc = "idle" /\ pc' \in {"ping", "all"} /\ idx' = 1 /\ last' = Len(q)
      /\ told' = {} /\ client' = Head(inMsgQueue_)[1] /\ inMsgQueue_' = Tail(inMsgQueue_)
      /\ inMsgQueue_ # << >> /\ present' = InQueue
      /\ UNCHANGED <<connectionsQueue_, idCounter_, id, sock, reading, pending, accepts>>
  BY DEF Update
<1>2. q' = q /\ InQueue' = InQueue
  BY <1>1 DEF InQueue
<1>3. Head(inMsgQueue_) \in Conns \X {"ServerPing", "MessageAll"}
      /\ inMsgQueue_' \in Seq(Conns \X {"ServerPing", "MessageAll"})
  BY <1>0, <1>1 DEF TypeOK
<1>4. client' \in Conns
  BY <1>1, <1>3
<1>5. Len(q) \in Nat /\ DOMAIN q = 1..Len(q) /\ InQueue \subseteq Conns
  BY <1>0, QueueFacts
<1>6. TypeOK'
  BY <1>0, <1>1, <1>3, <1>4, <1>5 DEF TypeOK
<1>7. LoopInside'
  BY <1>1, <1>2, <1>4, <1>5 DEF LoopInside
<1>8. RegistryClean'
  BY <1>0, <1>1, <1>2 DEF RegistryClean
<1>9. OpenIsRegistered'
  BY <1>0, <1>1, <1>2 DEF OpenIsRegistered
<1>10. LoopTold'
  BY <1>1, <1>2, <1>5 DEF LoopTold
<1>11. AgesDiffer'
  BY <1>0, <1>1, <1>2, AgesKept
<1> QED
  BY <1>6, <1>7, <1>8, <1>9, <1>10, <1>11 DEF IInv

(* A ping is sent back.                                                    *)
LEMMA PingKeeps ==
  ASSUME IInv, Ping
  PROVE  IInv'
<1> USE DEF q
<1>0. TypeOK /\ LoopInside /\ RegistryClean /\ OpenIsRegistered /\ AgesDiffer
  BY DEF IInv
<1>1. /\ pc = "ping" /\ pc' = "idle" /\ client' = nullptr /\ idx' = 1 /\ last' = 0
      /\ present' = {} /\ told' = {} /\ pending' = [pending EXCEPT ![client] = @ + 1]
      /\ UNCHANGED <<connectionsQueue_, inMsgQueue_, idCounter_, id, sock, reading, accepts>>
  BY DEF Ping, Post, Return
<1>2. q' = q /\ InQueue' = InQueue
  BY <1>1 DEF InQueue
<1>3. client \in Conns
  BY <1>0, <1>1 DEF LoopInside
<1>4. TypeOK'
  BY <1>0, <1>1, <1>3 DEF TypeOK
<1>5. LoopInside' /\ LoopTold'
  BY <1>1 DEF LoopInside, LoopTold
<1>6. RegistryClean'
  BY <1>0, <1>1, <1>2 DEF RegistryClean
<1>7. OpenIsRegistered' /\ AgesDiffer'
  BY <1>0, <1>1, <1>2, AgesKept DEF OpenIsRegistered
<1> QED
  BY <1>4, <1>5, <1>6, <1>7 DEF IInv

(* A turn of the loop: only a closed connection, or none, gives way to a   *)
(* null pointer.                                                           *)
LEMMA VisitKeeps ==
  ASSUME IInv, Visit
  PROVE  IInv'
<1> USE DEF q
<1>0. TypeOK /\ LoopInside /\ RegistryClean /\ OpenIsRegistered /\ LoopTold /\ AgesDiffer
  BY DEF IInv
<1> DEFINE d == q[idx]
<1>1. /\ pc = "all" /\ idx <= last /\ idx' = idx + 1
      /\ UNCHANGED <<inMsgQueue_, idCounter_, id, sock, reading, pc, client, last, present,
                     accepts>>
  BY DEF Visit
<1>2. /\ Len(q) \in Nat /\ DOMAIN q = 1..Len(q) /\ idx \in DOMAIN q /\ idx \in Nat
      /\ last <= Len(q) /\ last \in Nat /\ client \in Conns /\ d \in Conns \cup {nullptr}
      /\ told \subseteq Conns /\ present \subseteq Conns
  BY <1>0, <1>1, QueueFacts DEF LoopInside, TypeOK
<1>3. \/ /\ d # nullptr /\ d # client /\ Post(d) /\ told' = told \cup {d} /\ q' = q
      \/ /\ d # nullptr /\ d = client /\ UNCHANGED <<pending, told>> /\ q' = q
      \/ /\ d = nullptr \/ sock[d] # "open"
         /\ q' = [q EXCEPT ![idx] = nullptr] /\ UNCHANGED <<pending, told>>
  BY DEF Visit
<1>4. /\ DOMAIN q' = DOMAIN q /\ Len(q') = Len(q) /\ q' \in Seq(Conns \cup {nullptr})
      /\ \A i \in DOMAIN q : i # idx => q'[i] = q[i]
      /\ q'[idx] = q[idx] \/ (q'[idx] = nullptr /\ (d = nullptr \/ sock[d] # "open"))
  <2>1. CASE q' = q
    BY <1>0, <2>1 DEF TypeOK
  <2>2. CASE q' = [q EXCEPT ![idx] = nullptr] /\ (d = nullptr \/ sock[d] # "open")
    <3>1. q \in Seq(Conns \cup {nullptr}) /\ idx \in 1..Len(q)
      BY <1>0, <1>2 DEF TypeOK
    <3>2. [q EXCEPT ![idx] = nullptr] \in Seq(Conns \cup {nullptr})
      BY <3>1
    <3>3. q' \in Seq(Conns \cup {nullptr}) /\ DOMAIN q' = DOMAIN q /\ Len(q') = Len(q)
      BY <2>2, <3>1, <3>2
    <3>4. \A i \in DOMAIN q : q'[i] = IF i = idx THEN nullptr ELSE q[i]
      BY <2>2, <3>1
    <3> QED
      BY <1>2, <2>2, <3>3, <3>4
  <2> QED
    BY <1>3, <2>1, <2>2
<1>5. /\ pending' \in [Conns -> Nat] /\ told' \subseteq Conns
      /\ told' = told \/ (told' = told \cup {d} /\ d # client)
  BY <1>0, <1>2, <1>3 DEF TypeOK, Post
<1>6. TypeOK'
  BY <1>0, <1>1, <1>2, <1>4, <1>5 DEF TypeOK
<1>7. LoopInside'
  BY <1>1, <1>2, <1>4 DEF LoopInside
<1>8. RegistryClean'
  <2>1. ASSUME NEW i \in DOMAIN q', q'[i] = nullptr PROVE pc' = "all" /\ i < idx'
    BY <1>0, <1>1, <1>2, <1>4, <2>1 DEF RegistryClean
  <2>2. ASSUME NEW i \in DOMAIN q', NEW j \in DOMAIN q', q'[i] = q'[j], q'[i] # nullptr
        PROVE  i = j
    BY <1>0, <1>2, <1>4, <2>2 DEF RegistryClean
  <2> QED
    BY <2>1, <2>2 DEF RegistryClean
<1>9. InQueue' \subseteq InQueue
  BY <1>2, <1>4 DEF InQueue
<1>10. ASSUME NEW c \in Conns, sock'[c] = "open" PROVE c \in InQueue'
  <2>1. c \in InQueue /\ c # nullptr
    BY <1>0, <1>1, <1>10, ConnsAssumption DEF OpenIsRegistered
  <2>2. PICK i \in DOMAIN q : q[i] = c
    BY <1>0, <2>1, QueueFacts
  <2>3. q'[i] = c
    BY <1>1, <1>4, <1>10, <2>1, <2>2
  <2> QED
    BY <1>4, <2>1, <2>3 DEF InQueue
<1>11. LoopTold'
  <2>1. client \notin told'
    BY <1>0, <1>1, <1>5 DEF LoopTold
  <2>2. ASSUME NEW i \in DOMAIN q', i < idx', q'[i] \in present'
        PROVE  q'[i] \in told' \cup {client}
    <3>1. CASE i = idx
      <4>1. q'[i] # nullptr
        BY <1>1, <1>2, <2>2, ConnsAssumption
      <4>2. q'[i] = d
        BY <1>4, <3>1, <4>1
      <4>3. q' # [q EXCEPT ![idx] = nullptr]
        BY <1>2, <3>1, <4>1
      <4> QED
        BY <1>3, <4>2, <4>3
    <3>2. CASE i # idx
      <4>1. i < idx /\ i \in DOMAIN q /\ q'[i] = q[i]
        BY <1>1, <1>2, <1>4, <2>2, <3>2
      <4> QED
        BY <1>0, <1>1, <1>5, <2>2, <4>1 DEF LoopTold
    <3> QED
      BY <3>1, <3>2
  <2>3. ASSUME NEW i \in DOMAIN q', i > last PROVE q'[i] \notin present'
    <3>1. i # idx /\ i \in DOMAIN q /\ q'[i] = q[i]
      BY <1>1, <1>2, <1>4, <2>3
    <3> QED
      BY <1>0, <1>1, <2>3, <3>1 DEF LoopTold
  <2> QED
    BY <1>1, <2>1, <2>2, <2>3 DEF LoopTold
<1>12. AgesDiffer'
  BY <1>0, <1>1, <1>9, AgesKept
<1> QED
  BY <1>6, <1>7, <1>8, <1>10, <1>11, <1>12 DEF IInv, OpenIsRegistered

(* The end of the loop: the connections that are registered stay so, each  *)
(* once, and no null pointer is left.                                      *)
LEMMA ErasedQueue ==
  ASSUME TypeOK, RegistryClean, connectionsQueue_' = EraseNulls(connectionsQueue_)
  PROVE  /\ connectionsQueue_' \in Seq(Conns \cup {nullptr})
         /\ InQueue' = InQueue
         /\ \A i \in DOMAIN connectionsQueue_' : connectionsQueue_'[i] # nullptr
         /\ \A i, j \in DOMAIN connectionsQueue_' :
               connectionsQueue_'[i] = connectionsQueue_'[j] => i = j
<1>1. connectionsQueue_ \in Seq(Conns \cup {nullptr})
  BY DEF TypeOK
<1>2. \A i, j \in DOMAIN connectionsQueue_ :
         connectionsQueue_[i] = connectionsQueue_[j] /\ connectionsQueue_[i] # nullptr => i = j
  BY DEF RegistryClean
<1> DEFINE k == connectionsQueue_
           r == EraseNulls(k)
<1>3. /\ r \in Seq(Conns \cup {nullptr})
      /\ \A n \in DOMAIN r : r[n] # nullptr
      /\ \A i \in DOMAIN k : k[i] # nullptr => \E n \in DOMAIN r : r[n] = k[i]
      /\ \A n \in DOMAIN r : \E i \in DOMAIN k : r[n] = k[i]
  BY <1>1, Erased
<1>4. \A m, n \in DOMAIN r : r[m] = r[n] => m = n
  BY <1>1, <1>2, Erased
<1>5. InQueue' = {r[n] : n \in DOMAIN r} \ {nullptr} /\ connectionsQueue_' = r
  BY DEF InQueue
<1> HIDE DEF r
<1>6. InQueue' = InQueue
  BY <1>3, <1>5 DEF InQueue
<1> QED
  BY <1>3, <1>4, <1>5, <1>6

(* When nothing is handled, a queue without null pointers that holds each  *)
(* connection once, and the same ones as before, is as good as the old.    *)
LEMMA IdleKeeps ==
  ASSUME IInv, pc' = "idle", InQueue' = InQueue, TypeOK',
         \A i \in DOMAIN connectionsQueue_' : connectionsQueue_'[i] # nullptr,
         \A i, j \in DOMAIN connectionsQueue_' :
            connectionsQueue_'[i] = connectionsQueue_'[j] => i = j,
         UNCHANGED <<idCounter_, id, sock, accepts>>
  PROVE  IInv'
<1>1. LoopInside' /\ LoopTold'
  BY DEF LoopInside, LoopTold
<1>2. RegistryClean'
  BY DEF RegistryClean
<1>3. OpenIsRegistered'
  BY DEF IInv, OpenIsRegistered
<1>4. AgesDiffer'
  BY AgesKept DEF IInv
<1> QED
  BY <1>1, <1>2, <1>3, <1>4 DEF IInv

(* The end of the loop.                                                    *)
LEMMA EraseKeeps ==
  ASSUME IInv, Erase
  PROVE  IInv'
<1>1. /\ connectionsQueue_' = EraseNulls(connectionsQueue_) /\ pc' = "idle" /\ client' = nullptr
      /\ idx' = 1 /\ last' = 0 /\ present' = {} /\ told' = {}
      /\ UNCHANGED <<inMsgQueue_, idCounter_, id, sock, reading, pending, accepts>>
  BY DEF Erase, Return
<1>2. TypeOK /\ RegistryClean
  BY DEF IInv
<1>3. /\ connectionsQueue_' \in Seq(Conns \cup {nullptr}) /\ InQueue' = InQueue
      /\ \A i \in DOMAIN connectionsQueue_' : connectionsQueue_'[i] # nullptr
      /\ \A i, j \in DOMAIN connectionsQueue_' :
            connectionsQueue_'[i] = connectionsQueue_'[j] => i = j
  BY <1>1, <1>2, ErasedQueue
<1>4. TypeOK'
  BY <1>1, <1>2, <1>3 DEF TypeOK
<1> QED
  BY <1>1, <1>3, <1>4, IdleKeeps

(* sendMessageToClient finds no null pointer to erase: the connection      *)
(* stays registered, whether it is open or not.                            *)
LEMMA SendMessageToClientKeeps ==
  ASSUME IInv, NEW c \in Conns, SendMessageToClient(c)
  PROVE  IInv'
<1>1. /\ pc = "idle"
      /\ UNCHANGED <<inMsgQueue_, idCounter_, id, sock, reading, main, accepts>>
  BY DEF SendMessageToClient
<1>2. TypeOK /\ RegistryClean
  BY DEF IInv
<1>3. CASE sock[c] = "open"
  <2>1. UNCHANGED connectionsQueue_ /\ pending' = [pending EXCEPT ![c] = @ + 1]
    BY <1>3 DEF SendMessageToClient, Post
  <2>2. TypeOK'
    BY <1>1, <1>2, <2>1 DEF TypeOK, main
  <2> QED
    BY <1>1, <2>1, <2>2, RegistryKept DEF IInv
<1>4. CASE sock[c] # "open"
  <2>1. connectionsQueue_' = EraseNulls(connectionsQueue_) /\ UNCHANGED pending
    BY <1>4 DEF SendMessageToClient
  <2>2. /\ connectionsQueue_' \in Seq(Conns \cup {nullptr}) /\ InQueue' = InQueue
        /\ \A i \in DOMAIN connectionsQueue_' : connectionsQueue_'[i] # nullptr
        /\ \A i, j \in DOMAIN connectionsQueue_' :
              connectionsQueue_'[i] = connectionsQueue_'[j] => i = j
    BY <1>2, <2>1, ErasedQueue
  <2>3. TypeOK'
    BY <1>1, <1>2, <2>1, <2>2 DEF TypeOK, main
  <2> QED
    BY <1>1, <2>2, <2>3, IdleKeeps DEF main
<1> QED
  BY <1>3, <1>4

(* Every step of the server keeps the invariant.                           *)
LEMMA StepIInv ==
  ASSUME IInv, [Next]_vars
  PROVE  IInv'
<1>1. ASSUME NEW c \in Conns, Accept(c) PROVE IInv'
  BY <1>1, AcceptKeeps
<1>2. ASSUME NEW c \in Conns,
             \/ ReadFails(c) \/ Complete(c)
             \/ \E m \in {"ServerPing", "MessageAll"} : Receive(c, m)
      PROVE  IInv'
  BY <1>2, IoKeeps
<1>3. ASSUME NEW c \in Conns, SendMessageToClient(c) PROVE IInv'
  BY <1>3, SendMessageToClientKeeps
<1>4. CASE Update
  BY <1>4, UpdateKeeps
<1>5. CASE Ping
  BY <1>5, PingKeeps
<1>6. CASE Visit
  BY <1>6, VisitKeeps
<1>7. CASE Erase
  BY <1>7, EraseKeeps
<1>8. CASE UNCHANGED vars
  <2>1. UNCHANGED <<connectionsQueue_, inMsgQueue_, idCounter_, id, sock, reading, pending,
                    pc, client, idx, last, present, told, accepts>>
    BY <1>8 DEF vars, main
  <2>2. TypeOK'
    BY <2>1 DEF IInv, TypeOK
  <2> QED
    BY <2>1, <2>2, RegistryKept DEF IInv, main
<1> QED
  BY <1>1, <1>2, <1>3, <1>4, <1>5, <1>6, <1>7, <1>8 DEF Next

-----------------------------------------------------------------------------
(* What follows.                                                           *)

(* The invariant holds in every state of the server.                       *)
THEOREM Invariant == Spec => []IInv
<1>1. Init => IInv
  BY InitIInv
<1>2. IInv /\ [Next]_vars => IInv'
  BY StepIInv
<1> QED
  BY <1>1, <1>2, PTL DEF Spec

(* Every variable of the server has its type.                              *)
THEOREM TypeCorrect == Spec => []TypeOK
<1>1. IInv => TypeOK
  BY DEF IInv
<1> QED
  BY <1>1, Invariant, PTL

(* connectionsQueue_ holds a connection once, and the loop of              *)
(* sendMessageToAllClients never meets a null pointer, however many        *)
(* connections are accepted while it runs.                                 *)
THEOREM RegistryStaysClean == Spec => []RegistryClean
<1>1. IInv => RegistryClean
  BY DEF IInv
<1> QED
  BY <1>1, Invariant, PTL

(* Only closed connections are dropped from connectionsQueue_.             *)
THEOREM OpenStaysRegistered == Spec => []OpenIsRegistered
<1>1. IInv => OpenIsRegistered
  BY DEF IInv
<1> QED
  BY <1>1, Invariant, PTL

(* sendMessageToAllClients reaches every connection that was registered    *)
(* when it began and is still registered when it ends, and never the one   *)
(* it is to ignore.                                                        *)
THEOREM EveryoneIsTold == Spec => []EveryoneTold
<1>1. IInv => EveryoneTold
  <2> SUFFICES ASSUME IInv, pc = "all", idx > last
               PROVE  /\ present \cap InQueue \subseteq told \cup {client}
                      /\ client \notin told
    BY DEF EveryoneTold
  <2>1. TypeOK /\ LoopTold
    BY DEF IInv
  <2>2. client \notin told
    BY <2>1 DEF LoopTold
  <2>3. ASSUME NEW c \in present \cap InQueue PROVE c \in told \cup {client}
    <3>1. PICK i \in DOMAIN q : q[i] = c
      BY <2>1, QueueFacts
    <3>2. i \in Nat /\ idx \in Nat /\ last \in Nat
      BY <2>1, <3>1, QueueFacts DEF TypeOK
    <3>3. ~(i > last)
      BY <2>1, <2>3, <3>1 DEF LoopTold
    <3>4. i < idx
      BY <3>2, <3>3
    <3> QED
      BY <2>1, <2>3, <3>1, <3>4 DEF LoopTold
  <2> QED
    BY <2>2, <2>3
<1> QED
  BY <1>1, Invariant, PTL

(* Registered connections have different ids, whatever idCounter_ held     *)
(* when the server started, until as many connections have been accepted   *)
(* as there are ids.                                                       *)
THEOREM IdsAreUnique == Spec => []UniqueIds
<1>1. IInv => UniqueIds
  BY DEF IInv, AgesDiffer, UniqueIds, N
<1> QED
  BY <1>1, Invariant, PTL
=============================================================================
