------------------------------ MODULE Lines_proof ------------------------------
(***************************************************************************)
(* Theorems about the chat server and the terminal server, for any number  *)
(* of clients and any input, with their proofs.                            *)
(*                                                                         *)
(* The invariant relates a session to its connection.  What is in the      *)
(* queue is the end of what was posted; until the connection breaks, a     *)
(* write is under way exactly while the queue is not empty, of the message *)
(* in front, and the client has what was taken from the queue and, when    *)
(* that write is done, the message in front too.  In the chat, a member's  *)
(* news tell it how many members there are.                                *)
(*                                                                         *)
(* Its second part is about what clients type.  In the chat, the bytes in  *)
(* the streambuf and on the wire were typed one after the other, and each  *)
(* member was sent, whole, what was typed before them.  Of a terminal      *)
(* client that waits for its answers, at most the last line has not been   *)
(* handled, and it is whole on the wire or whole in the streambuf.         *)
(***************************************************************************)
EXTENDS MCLines, FiniteSetTheorems, TLAPS

(* Records of a session and of a connection; the fields may hold anything.             *)
IsSession(r) == r \in [sock : {r.sock}, incoming : {r.incoming}, reading : {r.reading},
                       outgoing : {r.outgoing}, writes : {r.writes}, posted : {r.posted},
                       known : {r.known}]
IsLink(n)    == n \in [link : {n.link}, eof : {n.eof}, lines : {n.lines}, wire : {n.wire},
                       got : {n.got}, patient : {n.patient}]
Queue(q)     == \E S : q \in Seq(S)

(* How many messages were taken from the queue.                                        *)
Base(r) == Len(r.posted) - Len(r.outgoing)

(* The queue is the end of what was posted.                                            *)
Queued(r) == /\ Base(r) \in Nat
             /\ \A i \in 1 .. Len(r.outgoing) : r.outgoing[i] = r.posted[Base(r) + i]

(* One write is under way exactly while something is queued, of the message in front.  *)
Looping(r, n) == \/ r.outgoing = << >> /\ r.writes = << >> /\ Len(n.got) = Base(r)
                 \/ /\ r.outgoing # << >>
                    /\ \E d \in BOOLEAN :
                         /\ r.writes = <<[msg |-> Head(r.outgoing), done |-> d]>>
                         /\ Len(n.got) = IF d THEN Base(r) + 1 ELSE Base(r)

(* Broken or not, at most one write is under way, and only while something is queued.  *)
Single(r) == \/ r.writes = << >>
             \/ r.outgoing # << >> /\ r.writes = <<Head(r.writes)>>

(* What the client has is a beginning of what was posted.                              *)
Sent(r, n) == /\ Len(n.got) <= Len(r.posted)
              /\ \A i \in 1 .. Len(n.got) : n.got[i] = r.posted[i]

(* A session that has not been accepted yet.                                           *)
Unborn(r) == r.posted = << >> /\ r.outgoing = << >> /\ r.reading = "none"

Works(r, n) == r.sock # "closed" /\ n.link

(* The invariant of a session r and its connection n.                                  *)
SInv(r, n) == /\ IsSession(r) /\ IsLink(n)
              /\ Queue(r.outgoing) /\ Queue(r.posted) /\ Queue(n.got)
              /\ r.sock \in {"none", "open", "closed"}
              /\ r.sock = "none" => Unborn(r)
              /\ Sent(r, n) /\ Single(r)
              /\ Works(r, n) => Queued(r) /\ Looping(r, n)

(* Whoever is connected is a member, and members know how many they are.               *)
NewsOf(r, kind) == Cardinality({n \in DOMAIN r.posted : r.posted[n].kind = kind})
Knows(r, number) == /\ r.known \in Nat
                    /\ r.known + NewsOf(r, "newcomer") = number + NewsOf(r, "one_less")

Members == /\ clients_ \subseteq Sessions
           /\ program = "terminal" => clients_ = {}
           /\ \A s \in Sessions : /\ ses[s].sock = "open" /\ program = "chat" => s \in clients_
                                  /\ ses[s].sock = "none" => s \notin clients_
           /\ \A s \in clients_ : Knows(ses[s], Cardinality(clients_))

Shape == /\ program \in {"chat", "terminal"}
         /\ ses = [s \in Sessions |-> ses[s]]
         /\ net = [s \in Sessions |-> net[s]]

(* The inductive invariant.                                                            *)
IInv == Shape /\ Members /\ \A s \in Sessions : SInv(ses[s], net[s])

-----------------------------------------------------------------------------
(* Queues.                                                                             *)

LEMMA QueueIs ==
  ASSUME NEW q, Queue(q)
  PROVE  /\ Len(q) \in Nat /\ DOMAIN q = 1 .. Len(q) /\ (q = << >> <=> Len(q) = 0)
         /\ q # << >> => Head(q) = q[1]
<1>1. PICK S : q \in Seq(S)
  BY DEF Queue
<1>2. Len(q) \in Nat /\ DOMAIN q = 1 .. Len(q)
  BY <1>1
<1>3. q = << >> <=> Len(q) = 0
  BY <1>1
<1>4. q # << >> => Head(q) = q[1]
  BY <1>1
<1> QED
  BY <1>2, <1>3, <1>4

Behind(q, m, z) == /\ Queue(z) /\ Len(z) = Len(q) + 1 /\ z[Len(q) + 1] = m
                   /\ \A i \in 1 .. Len(q) : z[i] = q[i]
                   /\ z # << >>

LEMMA Pushed ==
  ASSUME NEW q, Queue(q), NEW m, NEW z, z = Append(q, m)
  PROVE  Behind(q, m, z)
<1>1. PICK S : q \in Seq(S)
  BY DEF Queue
<1>2. PICK T : T = S \cup {m}
  OBVIOUS
<1>3. q \in Seq(T) /\ m \in T
  BY <1>1, <1>2
<1>4. z \in Seq(T)
  BY <1>3
<1>5. Queue(z)
  BY <1>4 DEF Queue
<1>6. Len(z) = Len(q) + 1 /\ z[Len(q) + 1] = m /\ \A i \in 1 .. Len(q) : z[i] = q[i]
  BY <1>3
<1>7. z # << >>
  BY <1>3
<1> QED
  BY <1>5, <1>6, <1>7 DEF Behind

LEMMA Popped ==
  ASSUME NEW q, Queue(q), q # << >>, NEW z, z = Tail(q)
  PROVE  /\ Queue(z) /\ Len(z) = Len(q) - 1 /\ Len(q) >= 1
         /\ \A i \in 1 .. Len(z) : z[i] = q[i + 1]
<1>1. PICK S : q \in Seq(S)
  BY DEF Queue
<1>2. z \in Seq(S) /\ Len(z) = Len(q) - 1 /\ Len(q) >= 1
  BY <1>1
<1>3. \A i \in 1 .. Len(z) : z[i] = q[i + 1]
  BY <1>1, <1>2
<1>4. Queue(z)
  BY <1>2 DEF Queue
<1> QED
  BY <1>2, <1>3, <1>4

LEMMA NoMessage == Queue(<< >>) /\ Len(<< >>) = 0 /\ DOMAIN << >> = {}
<1>1. << >> \in Seq({})
  OBVIOUS
<1>2. Len(<< >>) = 0
  OBVIOUS
<1>3. DOMAIN << >> = {}
  OBVIOUS
<1> QED
  BY <1>1, <1>2, <1>3 DEF Queue

(* The only write of a session.                                                        *)
LEMMA OnlyWrite ==
  ASSUME NEW e, NEW ws, ws = <<e>>
  PROVE  ws # << >> /\ Len(ws) = 1 /\ Head(ws) = e /\ Tail(ws) = << >>
<1>1. ws \in Seq({e}) /\ Len(ws) = 1 /\ ws[1] = e
  OBVIOUS
<1>2. Head(ws) = e
  OBVIOUS
<1>3. Tail(ws) = << >>
  OBVIOUS
<1> QED
  BY <1>1, <1>2, <1>3

LEMMA NothingBehind ==
  ASSUME NEW k
  PROVE  <<k>> \o << >> = <<k>>
  OBVIOUS

LEMMA FirstWrite ==
  ASSUME NEW e, NEW ws, ws = << >>
  PROVE  Append(ws, e) = <<e>>
  OBVIOUS

-----------------------------------------------------------------------------
(* A session and its connection, from one state to the next.                           *)

(* A message is put into the queue; its write begins if it is alone there.             *)
LEMMA PostKeeps ==
  ASSUME NEW r, NEW n, SInv(r, n), r.sock # "none", NEW m, NEW q, IsSession(q), q.sock = r.sock,
         q.outgoing = Append(r.outgoing, m), q.posted = Append(r.posted, m),
         r.outgoing = << >> => q.writes = Append(r.writes, [msg |-> m, done |-> FALSE]),
         r.outgoing # << >> => q.writes = r.writes
  PROVE  SInv(q, n)
<1>0. /\ Queue(r.outgoing) /\ Queue(r.posted) /\ Queue(n.got) /\ Sent(r, n) /\ IsLink(n)
      /\ r.sock \in {"none", "open", "closed"}
  BY DEF SInv
<1>1. PICK o, p, o2, p2, g : o = r.outgoing /\ p = r.posted /\ o2 = q.outgoing /\ p2 = q.posted /\ g = n.got
  OBVIOUS
<1>2. /\ Queue(o2) /\ Len(o2) = Len(o) + 1 /\ o2[Len(o) + 1] = m
      /\ \A i \in 1 .. Len(o) : o2[i] = o[i]
      /\ o2 # << >>
  <2>1. Queue(o) /\ o2 = Append(o, m)
    BY <1>0, <1>1
  <2>2. Behind(o, m, o2)
    BY <2>1, Pushed
  <2> QED
    BY <2>2 DEF Behind
<1>3. /\ Queue(p2) /\ Len(p2) = Len(p) + 1 /\ p2[Len(p) + 1] = m
      /\ \A i \in 1 .. Len(p) : p2[i] = p[i]
  <2>1. Queue(p) /\ p2 = Append(p, m)
    BY <1>0, <1>1
  <2>2. Behind(p, m, p2)
    BY <2>1, Pushed
  <2> QED
    BY <2>2 DEF Behind
<1>4. /\ Len(o) \in Nat /\ Len(p) \in Nat /\ Len(g) \in Nat
      /\ Head(o2) = o2[1] /\ (o = << >> <=> Len(o) = 0) /\ (o # << >> => Head(o) = o[1])
  BY <1>0, <1>1, <1>2, QueueIs
<1>5. Sent(q, n)
  <2>1. Len(g) <= Len(p) /\ \A i \in 1 .. Len(g) : g[i] = p[i]
    BY <1>0, <1>1 DEF Sent
  <2>2. Len(g) <= Len(p2)
    BY <1>3, <1>4, <2>1
  <2>3. ASSUME NEW i \in 1 .. Len(g) PROVE g[i] = p2[i]
    <3>1. i \in 1 .. Len(p)
      BY <1>4, <2>1
    <3> QED
      BY <1>3, <2>1, <3>1
  <2> QED
    BY <1>1, <2>2, <2>3 DEF Sent
<1>6. ASSUME Works(q, n) PROVE Queued(q) /\ Looping(q, n)
  <2>1. Queued(r) /\ Looping(r, n)
    BY <1>6 DEF SInv, Works
  <2>2. PICK b \in Nat : /\ b = Base(r) /\ b = Len(p) - Len(o)
                         /\ \A i \in 1 .. Len(o) : o[i] = p[b + i]
    BY <1>1, <2>1 DEF Queued, Base
  <2>3. Base(q) = b
    <3>1. Base(q) = Len(p2) - Len(o2)
      BY <1>1 DEF Base
    <3> QED
      BY <1>2, <1>3, <1>4, <2>2, <3>1
  <2>4. ASSUME NEW i \in 1 .. Len(o2) PROVE o2[i] = p2[b + i]
    <3>1. CASE i = Len(o) + 1
      <4>1. b + i = Len(p) + 1
        BY <1>4, <2>2, <3>1
      <4> QED
        BY <1>2, <1>3, <3>1, <4>1
    <3>2. CASE i # Len(o) + 1
      <4>1. i \in 1 .. Len(o) /\ b + i \in 1 .. Len(p)
        BY <1>2, <1>4, <2>2, <3>2
      <4> QED
        BY <1>2, <1>3, <2>2, <4>1
    <3> QED
      BY <3>1, <3>2
  <2>5. Queued(q)
    BY <1>1, <2>2, <2>3, <2>4 DEF Queued
  <2>6. CASE o = << >>
    <3>1. r.writes = << >> /\ Len(g) = b
      BY <1>1, <2>1, <2>2, <2>6 DEF Looping
    <3>2. Head(o2) = m
      BY <1>2, <1>4, <2>6
    <3>3. q.writes = <<[msg |-> Head(o2), done |-> FALSE]>>
      BY <1>1, <2>6, <3>1, <3>2, FirstWrite
    <3> QED
      BY <1>1, <1>2, <2>3, <2>5, <3>1, <3>3 DEF Looping
  <2>7. CASE o # << >>
    <3>1. PICK d \in BOOLEAN : /\ r.writes = <<[msg |-> Head(o), done |-> d]>>
                               /\ Len(g) = IF d THEN b + 1 ELSE b
      BY <1>1, <2>1, <2>2, <2>7 DEF Looping
    <3>2. Head(o2) = Head(o)
      BY <1>2, <1>4, <2>7
    <3>3. q.writes = <<[msg |-> Head(o2), done |-> d]>>
      BY <1>1, <2>7, <3>1, <3>2
    <3> QED
      BY <1>1, <1>2, <2>3, <2>5, <3>1, <3>3 DEF Looping
  <2> QED
    BY <2>6, <2>7
<1>7. Single(q)
  <2>1. Single(r) /\ q.outgoing # << >>
    BY <1>1, <1>2 DEF SInv
  <2>2. CASE r.outgoing = << >>
    <3>1. r.writes = << >>
      BY <2>1, <2>2 DEF Single
    <3>2. PICK e : q.writes = <<e>>
      BY <2>2, <3>1, FirstWrite
    <3> QED
      BY <2>1, <3>2, OnlyWrite DEF Single
  <2>3. CASE r.outgoing # << >>
    BY <2>1, <2>3 DEF Single
  <2> QED
    BY <2>2, <2>3
<1> QED
  BY <1>0, <1>1, <1>2, <1>3, <1>5, <1>6, <1>7 DEF SInv

(* The queue, what was posted and what is written stay as they are, and so does what   *)
(* the client has; the connection may break.                                           *)
LEMMA QueueUntouched ==
  ASSUME NEW r, NEW n, SInv(r, n), NEW q, IsSession(q), NEW l, IsLink(l),
         q.outgoing = r.outgoing, q.posted = r.posted, l.got = n.got,
         \/ q.sock = r.sock
         \/ q.sock = "closed",
         \/ q.writes = r.writes
         \/ q.writes = << >>,
         \/ q.reading = r.reading
         \/ q.sock # "none",
         Works(q, l) => Works(r, n) /\ q.writes = r.writes
  PROVE  SInv(q, l)
<1>1. Sent(q, l)
  BY DEF SInv, Sent
<1>2. ASSUME Works(q, l) PROVE Queued(q) /\ Looping(q, l)
  <2>1. Queued(r) /\ Looping(r, n) /\ q.writes = r.writes
    BY <1>2 DEF SInv
  <2>2. Base(q) = Base(r)
    BY DEF Base
  <2>3. Queued(q)
    BY <2>1, <2>2 DEF Queued
  <2>4. Looping(q, l)
    BY <2>1, <2>2 DEF Looping
  <2> QED
    BY <2>3, <2>4
<1>3. q.sock \in {"none", "open", "closed"} /\ (q.sock = "none" => Unborn(q))
  BY DEF SInv, Unborn
<1>4. Single(q)
  BY DEF SInv, Single
<1> QED
  BY <1>1, <1>2, <1>3, <1>4 DEF SInv

(* The message in front of the queue arrives.                                          *)
LEMMA TransmitKeeps ==
  ASSUME NEW r, NEW n, SInv(r, n), Works(r, n), r.writes # << >>, ~Head(r.writes).done,
         NEW q, IsSession(q), q.sock = r.sock, q.outgoing = r.outgoing, q.posted = r.posted,
         q.writes = <<[Head(r.writes) EXCEPT !.done = TRUE]>> \o Tail(r.writes),
         NEW l, IsLink(l), l.link = n.link, l.got = Append(n.got, Head(r.writes).msg)
  PROVE  SInv(q, l)
<1>0. /\ Queue(r.outgoing) /\ Queue(r.posted) /\ Queue(n.got) /\ Sent(r, n) /\ IsLink(n)
      /\ Queued(r) /\ Looping(r, n)
  BY DEF SInv
<1>1. r.outgoing # << >>
  BY <1>0 DEF Looping
<1>2. PICK d \in BOOLEAN : /\ r.writes = <<[msg |-> Head(r.outgoing), done |-> d]>>
                           /\ Len(n.got) = IF d THEN Base(r) + 1 ELSE Base(r)
  BY <1>0, <1>1 DEF Looping
<1>3. Head(r.writes) = [msg |-> Head(r.outgoing), done |-> d] /\ Tail(r.writes) = << >>
  BY <1>2, OnlyWrite
<1>4. d = FALSE
  BY <1>2, <1>3
<1>5. Len(n.got) = Base(r) /\ l.got = Append(n.got, Head(r.outgoing))
  BY <1>2, <1>3, <1>4
<1>6. q.writes = <<[msg |-> Head(r.outgoing), done |-> TRUE]>>
  <2>1. q.writes = <<[Head(r.writes) EXCEPT !.done = TRUE]>> \o << >>
    BY <1>3
  <2>2. PICK h, k : h = Head(r.outgoing) /\ k = [Head(r.writes) EXCEPT !.done = TRUE]
    OBVIOUS
  <2>3. k = [[msg |-> h, done |-> d] EXCEPT !.done = TRUE]
    BY <1>3, <2>2
  <2>4. k = [msg |-> h, done |-> TRUE]
    BY <2>3
  <2>5. q.writes = <<k>> \o << >>
    BY <2>1, <2>2
  <2>6. q.writes = <<k>>
    BY <2>5, NothingBehind
  <2> QED
    BY <2>2, <2>4, <2>6
<1>7. PICK b \in Nat : b = Base(r)
  BY <1>0 DEF Queued
<1>a. PICK g, p, o, z : g = n.got /\ p = r.posted /\ o = r.outgoing /\ z = l.got
  OBVIOUS
<1>b. b = Len(p) - Len(o) /\ \A i \in 1 .. Len(o) : o[i] = p[b + i]
  BY <1>0, <1>7, <1>a DEF Queued, Base
<1>8. /\ Queue(z) /\ Len(z) = Len(g) + 1 /\ z[Len(g) + 1] = Head(o)
      /\ \A i \in 1 .. Len(g) : z[i] = g[i]
  <2>1. PICK h : h = Head(o)
    OBVIOUS
  <2>2. Queue(g) /\ z = Append(g, h)
    BY <1>0, <1>5, <1>a, <2>1
  <2>3. Behind(g, h, z)
    BY <2>2, Pushed
  <2> QED
    BY <2>1, <2>3 DEF Behind
<1>9. /\ Len(g) = b /\ Len(o) \in Nat /\ Len(p) \in Nat /\ Len(o) # 0 /\ Head(o) = o[1]
  BY <1>0, <1>1, <1>5, <1>7, <1>a, <1>b, QueueIs
<1>10. Sent(q, l)
  <2>1. \A i \in 1 .. Len(g) : g[i] = p[i]
    BY <1>0, <1>7, <1>a, <1>b DEF Sent
  <2>2. Len(z) <= Len(p) /\ 1 \in 1 .. Len(o)
    <3>1. Len(z) = b + 1 /\ Len(p) = b + Len(o)
      BY <1>b, <1>8, <1>9
    <3> QED
      BY <1>9, <3>1
  <2>3. Head(o) = p[b + 1]
    BY <1>7, <1>a, <1>b, <1>9, <2>2
  <2>4. ASSUME NEW i \in 1 .. Len(z) PROVE z[i] = p[i]
    <3>1. i = b + 1 \/ i \in 1 .. Len(g)
      BY <1>8, <1>9
    <3> QED
      BY <1>8, <1>9, <2>1, <2>3, <3>1
  <2> QED
    BY <1>7, <1>a, <1>b, <2>2, <2>4 DEF Sent
<1>11. Base(q) = b /\ Queued(q)
  BY <1>0, <1>7, <1>a, <1>b DEF Base, Queued
<1>12. Len(l.got) = b + 1
  BY <1>7, <1>a, <1>b, <1>8, <1>9
<1>13. Looping(q, l)
  BY <1>1, <1>6, <1>11, <1>12 DEF Looping
<1>14. Queue(l.got)
  BY <1>7, <1>a, <1>b, <1>8
<1>15. Single(q)
  <2>1. PICK e : q.writes = <<e>>
    BY <1>6
  <2> QED
    BY <1>1, <2>1, OnlyWrite DEF Single
<1>16. q.sock # "none" /\ q.sock \in {"none", "open", "closed"}
  BY <1>1 DEF SInv, Unborn
<1> QED
  BY <1>0, <1>10, <1>11, <1>13, <1>14, <1>15, <1>16 DEF SInv

(* A write that is done is taken from the queue, and the next one begins.              *)
LEMMA PopKeeps ==
  ASSUME NEW r, NEW n, SInv(r, n), r.writes # << >>, Head(r.writes).done,
         NEW q, IsSession(q), q.sock = r.sock, q.posted = r.posted,
         q.outgoing = Tail(r.outgoing), q.outgoing = << >> => q.writes = Tail(r.writes),
         q.outgoing # << >> =>
             q.writes = Append(Tail(r.writes), [msg |-> Head(q.outgoing), done |-> FALSE])
  PROVE  SInv(q, n)
<1>0. /\ Queue(r.outgoing) /\ Queue(r.posted) /\ Queue(n.got) /\ Sent(r, n) /\ IsLink(n)
      /\ Works(r, n) => Queued(r) /\ Looping(r, n)
  BY DEF SInv
<1>1. Sent(q, n)
  BY <1>0 DEF Sent
<1>2. ASSUME Works(q, n) PROVE Queued(q) /\ Looping(q, n)
  <2>0. Works(r, n) /\ Queued(r) /\ Looping(r, n)
    BY <1>0, <1>2 DEF Works
  <2>1. r.outgoing # << >>
    BY <2>0 DEF Looping
  <2>2. PICK d \in BOOLEAN : /\ r.writes = <<[msg |-> Head(r.outgoing), done |-> d]>>
                             /\ Len(n.got) = IF d THEN Base(r) + 1 ELSE Base(r)
    BY <2>0, <2>1 DEF Looping
  <2>3. Head(r.writes) = [msg |-> Head(r.outgoing), done |-> d] /\ Tail(r.writes) = << >>
    BY <2>2, OnlyWrite
  <2>4. d = TRUE /\ Len(n.got) = Base(r) + 1
    BY <2>2, <2>3
  <2>5. PICK b \in Nat : b = Base(r)
    BY <2>0 DEF Queued
  <2>a. PICK p, o, z : p = r.posted /\ o = r.outgoing /\ z = q.outgoing
    OBVIOUS
  <2>b. b = Len(p) - Len(o) /\ \A i \in 1 .. Len(o) : o[i] = p[b + i]
    BY <2>0, <2>5, <2>a DEF Queued, Base
  <2>6. Len(z) = Len(o) - 1 /\ Len(o) >= 1 /\ \A i \in 1 .. Len(z) : z[i] = o[i + 1]
    <3>1. Queue(o) /\ o # << >> /\ z = Tail(o)
      BY <1>0, <2>0, <2>1, <2>a
    <3> QED
      BY <3>1, Popped
  <2>7. Len(o) \in Nat /\ Len(p) \in Nat
    BY <1>0, <2>5, <2>a, <2>b, QueueIs
  <2>8. Base(q) = b + 1
    <3>1. Base(q) = Len(p) - Len(z)
      BY <2>5, <2>a, <2>b DEF Base
    <3> QED
      BY <2>5, <2>a, <2>b, <2>6, <2>7, <3>1
  <2>9. ASSUME NEW i \in 1 .. Len(z) PROVE z[i] = p[b + 1 + i]
    <3>1. i + 1 \in 1 .. Len(o) /\ b + (i + 1) = b + 1 + i
      BY <2>6, <2>7
    <3> QED
      BY <2>5, <2>a, <2>b, <2>6, <3>1
  <2>10. Queued(q)
    <3>1. \A i \in 1 .. Len(z) : z[i] = p[Base(q) + i]
      BY <2>8, <2>9
    <3>2. Base(q) \in Nat
      BY <2>8
    <3>3. \A i \in 1 .. Len(q.outgoing) : q.outgoing[i] = q.posted[Base(q) + i]
      BY <2>a, <3>1
    <3> QED
      BY <3>2, <3>3 DEF Queued
  <2>11. Looping(q, n)
    <3>1. Len(n.got) = Base(q)
      BY <2>4, <2>5, <2>a, <2>b, <2>8
    <3>2. CASE q.outgoing = << >>
      BY <2>0, <2>3, <3>1, <3>2 DEF Looping
    <3>3. CASE q.outgoing # << >>
      <4>1. q.writes = <<[msg |-> Head(q.outgoing), done |-> FALSE]>>
        BY <2>0, <2>3, <3>3, FirstWrite
      <4> QED
        BY <3>1, <3>3, <4>1 DEF Looping
    <3> QED
      BY <3>2, <3>3
  <2> QED
    BY <2>10, <2>11
<1>3. Queue(q.outgoing) /\ Single(q) /\ q.sock # "none"
  <2>1. r.outgoing # << >> /\ r.writes = <<Head(r.writes)>>
    BY DEF SInv, Single
  <2>2. PICK o, z : o = r.outgoing /\ z = q.outgoing
    OBVIOUS
  <2>3. Queue(o) /\ o # << >> /\ z = Tail(o)
    BY <1>0, <2>1, <2>2
  <2>4. Queue(z)
    BY <2>3, Popped
  <2>5. Tail(r.writes) = << >>
    BY <2>1, OnlyWrite
  <2>a. q.sock # "none"
    BY <2>1 DEF SInv, Unborn
  <2>6. CASE q.outgoing = << >>
    BY <2>2, <2>4, <2>5, <2>6, <2>a DEF Single
  <2>7. CASE q.outgoing # << >>
    <3>1. PICK e : q.writes = <<e>>
      BY <2>5, <2>7, FirstWrite
    <3>2. Single(q)
      BY <2>7, <3>1, OnlyWrite DEF Single
    <3> QED
      BY <2>2, <2>4, <2>a, <3>2
  <2> QED
    BY <2>6, <2>7
<1> QED
  BY <1>0, <1>1, <1>2, <1>3 DEF SInv

-----------------------------------------------------------------------------
(* The operations of the servers on a session.                                         *)

(* q is the session r after m was posted to it.                                        *)
After(r, m, q) ==
    /\ IsSession(q) /\ q.sock = r.sock /\ q.known = r.known
    /\ q.incoming = r.incoming /\ q.reading = r.reading
    /\ q.outgoing = Append(r.outgoing, m) /\ q.posted = Append(r.posted, m)
    /\ r.outgoing = << >> => q.writes = Append(r.writes, [msg |-> m, done |-> FALSE])
    /\ r.outgoing # << >> => q.writes = r.writes

LEMMA AfterKeeps ==
  ASSUME NEW r, NEW n, SInv(r, n), r.sock # "none", NEW m, NEW q, After(r, m, q)
  PROVE  SInv(q, n)
  BY PostKeeps DEF After

(* u is r with m pushed; u is r with a write of the message in front begun.            *)
IsPushed(r, m, u) ==
    /\ IsSession(u) /\ u.sock = r.sock /\ u.known = r.known /\ u.writes = r.writes
    /\ u.incoming = r.incoming /\ u.reading = r.reading
    /\ u.outgoing = Append(r.outgoing, m) /\ u.posted = Append(r.posted, m)
IsBegun(r, u) ==
    /\ IsSession(u) /\ u.sock = r.sock /\ u.known = r.known
    /\ u.incoming = r.incoming /\ u.reading = r.reading
    /\ u.outgoing = r.outgoing /\ u.posted = r.posted
    /\ u.writes = Append(r.writes, [msg |-> Head(r.outgoing), done |-> FALSE])

LEMMA PushIs ==
  ASSUME NEW r, IsSession(r), NEW m
  PROVE  IsPushed(r, m, [r EXCEPT !.outgoing = Append(@, m), !.posted = Append(@, m)])
<1>1. PICK a, b : a = Append(r.outgoing, m) /\ b = Append(r.posted, m)
  OBVIOUS
<1>2. PICK u : u = [r EXCEPT !.outgoing = a, !.posted = b]
  OBVIOUS
<1>3. IsSession(u)
  BY <1>2 DEF IsSession
<1>4. /\ u.sock = r.sock /\ u.known = r.known /\ u.writes = r.writes /\ u.outgoing = a /\ u.posted = b
      /\ u.incoming = r.incoming /\ u.reading = r.reading
  BY <1>2 DEF IsSession
<1>5. IsPushed(r, m, u)
  BY <1>1, <1>3, <1>4 DEF IsPushed
<1>6. u = [r EXCEPT !.outgoing = Append(@, m), !.posted = Append(@, m)]
  BY <1>1, <1>2
<1> QED
  BY <1>5, <1>6

LEMMA WriteIs ==
  ASSUME NEW r, IsSession(r)
  PROVE  IsBegun(r, async_write(r))
<1>1. PICK a : a = Append(r.writes, [msg |-> Head(r.outgoing), done |-> FALSE])
  OBVIOUS
<1>2. PICK u : u = [r EXCEPT !.writes = a]
  OBVIOUS
<1>3. IsSession(u)
  BY <1>2 DEF IsSession
<1>4. /\ u.sock = r.sock /\ u.known = r.known /\ u.writes = a /\ u.outgoing = r.outgoing
      /\ u.incoming = r.incoming /\ u.reading = r.reading
      /\ u.posted = r.posted
  BY <1>2 DEF IsSession
<1>5. IsBegun(r, u)
  BY <1>1, <1>3, <1>4 DEF IsBegun
<1>6. u = async_write(r)
  BY <1>1, <1>2 DEF async_write
<1> QED
  BY <1>5, <1>6

(* A message pushed alone is in front.                                                 *)
LEMMA PushedAlone ==
  ASSUME NEW q, q = << >>, NEW m
  PROVE  Head(Append(q, m)) = m /\ Len(Append(q, m)) = 1
<1>1. Append(q, m) = <<m>>
  OBVIOUS
<1> QED
  BY <1>1, OnlyWrite

LEMMA PostIs ==
  ASSUME NEW r, IsSession(r), NEW m
  PROVE  After(r, m, Chat!post(r, m))
<1>1. PICK u : u = [r EXCEPT !.outgoing = Append(@, m), !.posted = Append(@, m)]
  OBVIOUS
<1>2. /\ IsSession(u) /\ u.sock = r.sock /\ u.known = r.known /\ u.writes = r.writes
      /\ u.incoming = r.incoming /\ u.reading = r.reading
      /\ u.outgoing = Append(r.outgoing, m) /\ u.posted = Append(r.posted, m)
  <2>1. IsPushed(r, m, u)
    BY <1>1, PushIs
  <2> QED
    BY <2>1 DEF IsPushed
<1>3. CASE r.outgoing = << >>
  <2>1. PICK v : v = async_write(u)
    OBVIOUS
  <2>2. Chat!post(r, m) = v
    BY <1>1, <1>3, <2>1 DEF Chat!post, Chat!async_write, async_write
  <2>3. /\ IsSession(v) /\ v.sock = u.sock /\ v.known = u.known
        /\ v.incoming = u.incoming /\ v.reading = u.reading
        /\ v.outgoing = u.outgoing /\ v.posted = u.posted
        /\ v.writes = Append(u.writes, [msg |-> Head(u.outgoing), done |-> FALSE])
    <3>1. IsBegun(u, v)
      BY <1>2, <2>1, WriteIs
    <3> QED
      BY <3>1 DEF IsBegun
  <2>4. Head(u.outgoing) = m
    BY <1>2, <1>3, PushedAlone
  <2>5. After(r, m, v)
    BY <1>2, <1>3, <2>3, <2>4 DEF After
  <2> QED
    BY <2>2, <2>5
<1>4. CASE r.outgoing # << >>
  <2>1. Chat!post(r, m) = u
    BY <1>1, <1>4 DEF Chat!post
  <2>2. After(r, m, u)
    BY <1>2, <1>4 DEF After
  <2> QED
    BY <2>1, <2>2
<1> QED
  BY <1>3, <1>4

LEMMA DispatchIs ==
  ASSUME NEW r, IsSession(r), Queue(r.outgoing), NEW m
  PROVE  After(r, m, Terminal!dispatch(r, m))
<1>1. PICK u : u = [r EXCEPT !.outgoing = Append(@, m), !.posted = Append(@, m)]
  OBVIOUS
<1>2. /\ IsSession(u) /\ u.sock = r.sock /\ u.known = r.known /\ u.writes = r.writes
      /\ u.incoming = r.incoming /\ u.reading = r.reading
      /\ u.outgoing = Append(r.outgoing, m) /\ u.posted = Append(r.posted, m)
  <2>1. IsPushed(r, m, u)
    BY <1>1, PushIs
  <2> QED
    BY <2>1 DEF IsPushed
<1>d. Terminal!dispatch(r, m) = IF Len(u.outgoing) = 1 THEN async_write(u) ELSE u
  BY <1>1 DEF Terminal!dispatch, Terminal!write_string, Terminal!async_write, async_write
<1>3. CASE r.outgoing = << >>
  <2>1. PICK v : v = async_write(u)
    OBVIOUS
  <2>2. Head(u.outgoing) = m /\ Len(u.outgoing) = 1
    BY <1>2, <1>3, PushedAlone
  <2>3. /\ IsSession(v) /\ v.sock = u.sock /\ v.known = u.known
        /\ v.incoming = u.incoming /\ v.reading = u.reading
        /\ v.outgoing = u.outgoing /\ v.posted = u.posted
        /\ v.writes = Append(u.writes, [msg |-> Head(u.outgoing), done |-> FALSE])
    <3>1. IsBegun(u, v)
      BY <1>2, <2>1, WriteIs
    <3> QED
      BY <3>1 DEF IsBegun
  <2>4. Terminal!dispatch(r, m) = v
    BY <1>d, <2>1, <2>2
  <2>5. After(r, m, v)
    BY <1>2, <1>3, <2>2, <2>3 DEF After
  <2> QED
    BY <2>4, <2>5
<1>4. CASE r.outgoing # << >>
  <2>1. PICK o, z : o = r.outgoing /\ z = u.outgoing
    OBVIOUS
  <2>2. Queue(o) /\ z = Append(o, m) /\ o # << >>
    BY <1>2, <1>4, <2>1
  <2>3. Behind(o, m, z)
    BY <2>2, Pushed
  <2>4. Len(o) \in Nat /\ Len(o) # 0 /\ Len(z) = Len(o) + 1
    BY <2>2, <2>3, QueueIs DEF Behind
  <2>5. Len(u.outgoing) # 1
    BY <2>1, <2>4
  <2>6. After(r, m, u)
    BY <1>2, <1>4 DEF After
  <2> QED
    BY <1>d, <2>5, <2>6
<1> QED
  BY <1>3, <1>4

Fresh(state, k) == [sock |-> state, incoming |-> << >>, reading |-> "none", outgoing |-> << >>,
                    writes |-> << >>, posted |-> << >>, known |-> k]

LEMMA FreshIs ==
  ASSUME NEW state, NEW k
  PROVE  /\ [NewSession EXCEPT !.sock = state, !.known = k] = Fresh(state, k)
         /\ [NewSession EXCEPT !.sock = state] = Fresh(state, 0)
<1>0. PICK e : e = << >>
  OBVIOUS
<1>1. NewSession = [sock |-> "none", incoming |-> e, reading |-> "none", outgoing |-> e,
                    writes |-> e, posted |-> e, known |-> 0]
  BY <1>0 DEF NewSession
<1>2. \A j : Fresh(state, j) = [sock |-> state, incoming |-> e, reading |-> "none", outgoing |-> e,
                                writes |-> e, posted |-> e, known |-> j]
  BY <1>0 DEF Fresh
<1>3. [NewSession EXCEPT !.sock = state, !.known = k] = Fresh(state, k)
  <2>1. PICK a : a = [NewSession EXCEPT !.sock = state, !.known = k]
    OBVIOUS
  <2>2. a = [sock |-> state, incoming |-> e, reading |-> "none", outgoing |-> e,
             writes |-> e, posted |-> e, known |-> k]
    BY <1>1, <2>1
  <2> QED
    BY <1>2, <2>1, <2>2
<1>4. [NewSession EXCEPT !.sock = state] = Fresh(state, 0)
  BY <1>1, <1>2
<1> QED
  BY <1>3, <1>4

(* A session that has just been accepted.                                              *)
LEMMA FreshKeeps ==
  ASSUME NEW n, IsLink(n), n.got = << >>, NEW state \in {"open", "closed"}, NEW k,
         NEW r, r = Fresh(state, k)
  PROVE  SInv(r, n) /\ r.sock = state /\ r.known = k /\ r.posted = << >> /\ r.outgoing = << >>
<1>0. PICK e : e = << >>
  OBVIOUS
<1>1. r = [sock |-> state, incoming |-> e, reading |-> "none", outgoing |-> e,
           writes |-> e, posted |-> e, known |-> k]
  BY <1>0 DEF Fresh
<1>2. IsSession(r) /\ r.sock = state /\ r.known = k
  BY <1>1 DEF IsSession
<1>a. r.outgoing = e /\ r.writes = e /\ r.posted = e
  <2>1. r \in [sock : {state}, incoming : {e}, reading : {"none"}, outgoing : {e},
               writes : {e}, posted : {e}, known : {k}]
    BY <1>1
  <2> QED
    BY <2>1
<1>3. r.outgoing = << >> /\ r.writes = << >> /\ r.posted = << >>
  BY <1>0, <1>a
<1>4. Len(r.outgoing) = 0 /\ Len(r.posted) = 0 /\ Len(n.got) = 0
  BY <1>3, NoMessage
<1>5. Base(r) = 0
  BY <1>4 DEF Base
<1>6. Queued(r)
  BY <1>4, <1>5 DEF Queued
<1>7. Looping(r, n)
  BY <1>3, <1>4, <1>5 DEF Looping
<1>8. Sent(r, n)
  BY <1>4 DEF Sent
<1>9. Queue(r.outgoing) /\ Queue(r.posted) /\ Queue(n.got)
  BY <1>3, NoMessage
<1>10. Single(r)
  BY <1>3 DEF Single
<1> QED
  BY <1>2, <1>3, <1>6, <1>7, <1>8, <1>9, <1>10 DEF SInv, Unborn

-----------------------------------------------------------------------------
(* News.                                                                               *)

LEMMA NewsAdded ==
  ASSUME NEW r, Queue(r.posted), NEW m, NEW q, q.posted = Append(r.posted, m), NEW k
  PROVE  /\ NewsOf(r, k) \in Nat
         /\ m.kind = k => NewsOf(q, k) = NewsOf(r, k) + 1
         /\ m.kind # k => NewsOf(q, k) = NewsOf(r, k)
<1>1. PICK p, z : p = r.posted /\ z = q.posted
  OBVIOUS
<1>2. Queue(p) /\ z = Append(p, m)
  BY <1>1
<1>3. Behind(p, m, z)
  BY <1>2, Pushed
<1>4. /\ Len(p) \in Nat /\ DOMAIN p = 1 .. Len(p) /\ DOMAIN z = 1 .. Len(p) + 1
      /\ z[Len(p) + 1] = m /\ \A i \in 1 .. Len(p) : z[i] = p[i]
  BY <1>2, <1>3, QueueIs DEF Behind
<1>5. PICK l \in Nat : l = Len(p)
  BY <1>4
<1>6. PICK A, B : A = {n \in DOMAIN p : p[n].kind = k} /\ B = {n \in DOMAIN z : z[n].kind = k}
  OBVIOUS
<1>7. A = {n \in 1 .. l : p[n].kind = k} /\ B = {n \in 1 .. l + 1 : z[n].kind = k}
  BY <1>4, <1>5, <1>6
<1>8. IsFiniteSet(A) /\ Cardinality(A) \in Nat
  <2>1. 1 \in Int /\ l \in Int
    OBVIOUS
  <2>2. IsFiniteSet(1 .. l)
    BY <2>1, FS_Interval
  <2>3. A \subseteq 1 .. l
    BY <1>7
  <2> QED
    BY <2>2, <2>3, FS_Subset, FS_CardinalityType
<1>9. l + 1 \notin A
  BY <1>7
<1>10. \A n \in 1 .. l + 1 : n = l + 1 \/ n \in 1 .. l
  OBVIOUS
<1>11. m.kind = k => B = A \cup {l + 1}
  BY <1>4, <1>5, <1>7, <1>10
<1>12. m.kind # k => B = A
  BY <1>4, <1>5, <1>7, <1>10
<1>13. Cardinality(A \cup {l + 1}) = Cardinality(A) + 1
  BY <1>8, <1>9, FS_AddElement
<1>14. NewsOf(r, k) = Cardinality(A) /\ NewsOf(q, k) = Cardinality(B)
  BY <1>1, <1>6 DEF NewsOf
<1> QED
  BY <1>8, <1>11, <1>12, <1>13, <1>14

LEMMA NoNews ==
  ASSUME NEW r, r.posted = << >>, NEW k
  PROVE  NewsOf(r, k) = 0
<1>1. {n \in DOMAIN r.posted : r.posted[n].kind = k} = {}
  BY NoMessage
<1> QED
  BY <1>1, FS_EmptySet DEF NewsOf

(* Somebody came, somebody went, or neither.                                           *)
LEMMA NewsKnown ==
  ASSUME NEW r, Queue(r.posted), NEW m, NEW q, q.posted = Append(r.posted, m), q.known = r.known,
         NEW c \in Nat, NEW d \in Nat, Knows(r, c),
         \/ m.kind = "newcomer" /\ d = c + 1
         \/ m.kind = "one_less" /\ c = d + 1
         \/ m.kind # "newcomer" /\ m.kind # "one_less" /\ d = c
  PROVE  Knows(q, d)
<1>1. PICK a \in Nat, b \in Nat : a = NewsOf(r, "newcomer") /\ b = NewsOf(r, "one_less")
  BY NewsAdded
<1>2. r.known \in Nat /\ r.known + a = c + b
  BY <1>1 DEF Knows
<1>3. /\ m.kind = "newcomer" => NewsOf(q, "newcomer") = a + 1
      /\ m.kind # "newcomer" => NewsOf(q, "newcomer") = a
  <2>1. /\ NewsOf(r, "newcomer") \in Nat
        /\ m.kind = "newcomer" => NewsOf(q, "newcomer") = NewsOf(r, "newcomer") + 1
        /\ m.kind # "newcomer" => NewsOf(q, "newcomer") = NewsOf(r, "newcomer")
    BY NewsAdded
  <2> QED
    BY <1>1, <2>1
<1>4. /\ m.kind = "one_less" => NewsOf(q, "one_less") = b + 1
      /\ m.kind # "one_less" => NewsOf(q, "one_less") = b
  <2>1. /\ NewsOf(r, "one_less") \in Nat
        /\ m.kind = "one_less" => NewsOf(q, "one_less") = NewsOf(r, "one_less") + 1
        /\ m.kind # "one_less" => NewsOf(q, "one_less") = NewsOf(r, "one_less")
    BY NewsAdded
  <2> QED
    BY <1>1, <2>1
<1>5. CASE m.kind = "newcomer" /\ d = c + 1
  BY <1>2, <1>3, <1>4, <1>5 DEF Knows
<1>6. CASE m.kind = "one_less" /\ c = d + 1
  BY <1>2, <1>3, <1>4, <1>6 DEF Knows
<1>7. CASE m.kind # "newcomer" /\ m.kind # "one_less" /\ d = c
  BY <1>2, <1>3, <1>4, <1>7 DEF Knows
<1> QED
  BY <1>5, <1>6, <1>7

-----------------------------------------------------------------------------
(* Steps of one session.                                                               *)

LEMMA SameNames ==
  /\ Chat!Sessions = Sessions /\ Terminal!Sessions = Sessions /\ IsFiniteSet(Sessions)
<1>1. Chat!Sessions = Sessions
  BY DEF Chat!Sessions, Sessions, Chat!MaxSessions, MaxSessions
<1>2. Terminal!Sessions = Sessions
  BY DEF Terminal!Sessions, Sessions, Terminal!MaxSessions, MaxSessions
<1>3. MaxSessions \in Nat
  <2>1. Quota["chat"] \in Nat /\ Quota["terminal"] \in Nat
    BY LineAssumption
  <2> QED
    BY <2>1 DEF MaxSessions
<1>4. IsFiniteSet(1 .. MaxSessions)
  <2>1. 1 \in Int /\ MaxSessions \in Int
    BY <1>3
  <2> QED
    BY <2>1, FS_Interval
<1> QED
  BY <1>1, <1>2, <1>4 DEF Sessions

(* A step that changes one session or its connection, and no membership.               *)
LEMMA OneChanges ==
  ASSUME IInv, NEW s \in Sessions, UNCHANGED <<program, clients_>>,
         ses' = [t \in Sessions |-> ses'[t]], net' = [t \in Sessions |-> net'[t]],
         \A t \in Sessions \ {s} : ses'[t] = ses[t] /\ net'[t] = net[t],
         SInv(ses'[s], net'[s]),
         ses'[s].sock = "open" /\ program = "chat" => s \in clients_,
         ses'[s].sock = "none" => s \notin clients_,
         s \in clients_ => Knows(ses'[s], Cardinality(clients_))
  PROVE  IInv'
<1>1. Shape'
  BY DEF IInv, Shape
<1>2. ASSUME NEW t \in Sessions PROVE SInv(ses'[t], net'[t])
  <2>1. CASE t = s
    BY <2>1
  <2>2. CASE t # s
    <3>1. SInv(ses[t], net[t]) /\ ses'[t] = ses[t] /\ net'[t] = net[t]
      BY <2>2 DEF IInv
    <3> QED
      BY <3>1
  <2> QED
    BY <2>1, <2>2
<1>3. Members'
  <2>0. Members
    BY DEF IInv
  <2>1. clients_' \subseteq Sessions /\ (program' = "terminal" => clients_' = {})
    BY <2>0 DEF Members
  <2>2. ASSUME NEW t \in Sessions
        PROVE  /\ ses'[t].sock = "open" /\ program' = "chat" => t \in clients_'
               /\ ses'[t].sock = "none" => t \notin clients_'
    BY <2>0 DEF Members
  <2>3. ASSUME NEW t \in clients_' PROVE Knows(ses'[t], Cardinality(clients_'))
    <3>1. CASE t = s
      BY <3>1
    <3>2. CASE t # s
      <4>1. ses'[t] = ses[t] /\ t \in clients_
        BY <2>0, <3>2 DEF Members
      <4>2. Knows(ses[t], Cardinality(clients_))
        BY <2>0, <4>1 DEF Members
      <4> QED
        BY <4>1, <4>2
    <3> QED
      BY <3>1, <3>2
  <2> QED
    BY <2>1, <2>2, <2>3 DEF Members, Knows, NewsOf
<1> QED
  BY <1>1, <1>2, <1>3 DEF IInv

(* The same, when what was posted to the session and its socket are as before.         *)
LEMMA OneChangesQuietly ==
  ASSUME IInv, NEW s \in Sessions, UNCHANGED <<program, clients_>>,
         ses' = [t \in Sessions |-> ses'[t]], net' = [t \in Sessions |-> net'[t]],
         \A t \in Sessions \ {s} : ses'[t] = ses[t] /\ net'[t] = net[t],
         SInv(ses'[s], net'[s]),
         \/ ses'[s].sock = ses[s].sock
         \/ program = "terminal",
         ses'[s].posted = ses[s].posted, ses'[s].known = ses[s].known
  PROVE  IInv'
<1>0. Members
  BY DEF IInv
<1>1. s \in clients_ => Knows(ses'[s], Cardinality(clients_))
  <2> SUFFICES ASSUME s \in clients_ PROVE Knows(ses'[s], Cardinality(clients_))
    OBVIOUS
  <2>1. Knows(ses[s], Cardinality(clients_))
    BY <1>0 DEF Members
  <2> QED
    BY <2>1 DEF Knows, NewsOf
<1>2. /\ ses'[s].sock = "open" /\ program = "chat" => s \in clients_
      /\ ses'[s].sock = "none" => s \notin clients_
  BY <1>0 DEF Members
<1> QED
  BY <1>1, <1>2, OneChanges

LEMMA WorldKeeps ==
  ASSUME IInv, World
  PROVE  IInv'
<1>0. Shape /\ \A t \in Sessions : SInv(ses[t], net[t])
  BY DEF IInv
<1>1. ASSUME NEW s \in Sessions, Types(s) PROVE IInv'
  <2>1. PICK a, b, c : net' = [net EXCEPT ![s].lines = a, ![s].wire = b, ![s].patient = c]
    BY <1>1 DEF Types
  <2>2. UNCHANGED <<program, ses, clients_>>
    BY <1>1 DEF Types
  <2>3. IsSession(ses[s]) /\ IsLink(net[s])
    BY <1>0 DEF SInv
  <2>4. /\ net' = [t \in Sessions |-> net'[t]] /\ \A t \in Sessions \ {s} : net'[t] = net[t]
        /\ net'[s] = [net[s] EXCEPT !.lines = a, !.wire = b, !.patient = c]
    BY <1>0, <2>1 DEF Shape
  <2>5. IsLink(net'[s]) /\ net'[s].got = net[s].got /\ net'[s].link = net[s].link
    BY <2>3, <2>4 DEF IsLink
  <2>6. SInv(ses[s], net'[s])
    BY <1>0, <2>3, <2>5, QueueUntouched DEF Works
  <2> QED
    BY <1>0, <2>2, <2>4, <2>6, OneChangesQuietly DEF Shape
<1>2. ASSUME NEW s \in Sessions, Leaves(s) PROVE IInv'
  <2>1. net' = [net EXCEPT ![s].eof = TRUE] /\ UNCHANGED <<program, ses, clients_>>
    BY <1>2 DEF Leaves
  <2>3. IsSession(ses[s]) /\ IsLink(net[s])
    BY <1>0 DEF SInv
  <2>4. /\ net' = [t \in Sessions |-> net'[t]] /\ \A t \in Sessions \ {s} : net'[t] = net[t]
        /\ net'[s] = [net[s] EXCEPT !.eof = TRUE]
    BY <1>0, <2>1 DEF Shape
  <2>5. IsLink(net'[s]) /\ net'[s].got = net[s].got /\ net'[s].link = net[s].link
    BY <2>3, <2>4 DEF IsLink
  <2>6. SInv(ses[s], net'[s])
    BY <1>0, <2>3, <2>5, QueueUntouched DEF Works
  <2> QED
    BY <1>0, <2>1, <2>4, <2>6, OneChangesQuietly DEF Shape
<1>3. ASSUME NEW s \in Sessions, Breaks(s) PROVE IInv'
  <2>1. net' = [net EXCEPT ![s].link = FALSE] /\ UNCHANGED <<program, ses, clients_>>
    BY <1>3 DEF Breaks
  <2>3. IsSession(ses[s]) /\ IsLink(net[s])
    BY <1>0 DEF SInv
  <2>4. /\ net' = [t \in Sessions |-> net'[t]] /\ \A t \in Sessions \ {s} : net'[t] = net[t]
        /\ net'[s] = [net[s] EXCEPT !.link = FALSE]
    BY <1>0, <2>1 DEF Shape
  <2>5. IsLink(net'[s]) /\ net'[s].got = net[s].got /\ ~net'[s].link
    BY <2>3, <2>4 DEF IsLink
  <2>6. SInv(ses[s], net'[s])
    BY <1>0, <2>3, <2>5, QueueUntouched DEF Works
  <2> QED
    BY <1>0, <2>1, <2>4, <2>6, OneChangesQuietly DEF Shape
<1> QED
  BY <1>1, <1>2, <1>3 DEF World

LEMMA AsioKeeps ==
  ASSUME IInv, NEW s \in Sessions, Asio(s)
  PROVE  IInv'
<1>0. Shape /\ (\A t \in Sessions : SInv(ses[t], net[t])) /\ IsSession(ses[s]) /\ IsLink(net[s])
  BY DEF IInv, SInv
<1>1. ASSUME NEW n, ReadsUntil(s, n) PROVE IInv'
  <2>1. PICK a, b : /\ ses' = [ses EXCEPT ![s].reading = "done", ![s].incoming = a]
                    /\ net' = [net EXCEPT ![s].wire = b]
    BY <1>1 DEF ReadsUntil
  <2>2. UNCHANGED <<program, clients_>>
    BY <1>1 DEF ReadsUntil
  <2>3. /\ net' = [t \in Sessions |-> net'[t]] /\ \A t \in Sessions \ {s} : net'[t] = net[t]
        /\ net'[s] = [net[s] EXCEPT !.wire = b]
    BY <1>0, <2>1 DEF Shape
  <2>4. /\ ses' = [t \in Sessions |-> ses'[t]] /\ \A t \in Sessions \ {s} : ses'[t] = ses[t]
        /\ ses'[s] = [ses[s] EXCEPT !.reading = "done", !.incoming = a]
    BY <1>0, <2>1 DEF Shape
  <2>5. IsLink(net'[s]) /\ net'[s].got = net[s].got /\ net'[s].link = net[s].link
    BY <1>0, <2>3 DEF IsLink
  <2>6. /\ IsSession(ses'[s]) /\ ses'[s].outgoing = ses[s].outgoing /\ ses'[s].posted = ses[s].posted
        /\ ses'[s].writes = ses[s].writes /\ ses'[s].sock = ses[s].sock /\ ses'[s].known = ses[s].known
    BY <1>0, <2>4 DEF IsSession
  <2>7. SInv(ses'[s], net'[s])
    <3>1. ses'[s].sock # "none"
      BY <1>0, <1>1, <2>6 DEF ReadsUntil, SInv, Unborn
    <3> QED
      BY <1>0, <2>5, <2>6, <3>1, QueueUntouched DEF Works
  <2> QED
    BY <2>2, <2>3, <2>4, <2>6, <2>7, OneChangesQuietly
<1>2. CASE Transmits(s)
  <2>1. PICK a, b : /\ a = Append(net[s].got, Head(ses[s].writes).msg)
                    /\ b = <<[Head(ses[s].writes) EXCEPT !.done = TRUE]>> \o Tail(ses[s].writes)
    OBVIOUS
  <2>2. /\ ses[s].writes # << >> /\ ~Head(ses[s].writes).done /\ Works(ses[s], net[s])
        /\ net' = [net EXCEPT ![s].got = a] /\ ses' = [ses EXCEPT ![s].writes = b]
        /\ UNCHANGED <<program, clients_>>
    BY <1>2, <2>1 DEF Transmits, Broken, Works
  <2>3. /\ net' = [t \in Sessions |-> net'[t]] /\ \A t \in Sessions \ {s} : net'[t] = net[t]
        /\ net'[s] = [net[s] EXCEPT !.got = a]
    BY <1>0, <2>2 DEF Shape
  <2>4. /\ ses' = [t \in Sessions |-> ses'[t]] /\ \A t \in Sessions \ {s} : ses'[t] = ses[t]
        /\ ses'[s] = [ses[s] EXCEPT !.writes = b]
    BY <1>0, <2>2 DEF Shape
  <2>5. IsLink(net'[s]) /\ net'[s].got = a /\ net'[s].link = net[s].link
    BY <1>0, <2>3 DEF IsLink
  <2>6. /\ IsSession(ses'[s]) /\ ses'[s].outgoing = ses[s].outgoing /\ ses'[s].posted = ses[s].posted
        /\ ses'[s].writes = b /\ ses'[s].sock = ses[s].sock /\ ses'[s].known = ses[s].known
    BY <1>0, <2>4 DEF IsSession
  <2>7. SInv(ses'[s], net'[s])
    BY <1>0, <2>1, <2>2, <2>5, <2>6, TransmitKeeps
  <2> QED
    BY <2>2, <2>3, <2>4, <2>6, <2>7, OneChangesQuietly
<1> QED
  BY <1>1, <1>2 DEF Asio

-----------------------------------------------------------------------------
(* The terminal server.                                                                *)

(* q is the session r, waiting for the next line or done with reading.                 *)
Reads(r, q) ==
    /\ IsSession(q) /\ q.sock = r.sock /\ q.known = r.known /\ q.outgoing = r.outgoing
    /\ q.posted = r.posted /\ q.writes = r.writes

LEMMA ReadsAgain ==
  ASSUME NEW r, IsSession(r), NEW a, NEW b
  PROVE  /\ Reads(r, [r EXCEPT !.reading = a])
         /\ Reads(r, [r EXCEPT !.incoming = b, !.reading = a])
         /\ Reads(r, [r EXCEPT !.reading = a, !.incoming = b])
<1>1. PICK q : q = [r EXCEPT !.reading = a]
  OBVIOUS
<1>2. Reads(r, q)
  BY <1>1 DEF IsSession, Reads
<1>3. PICK z : z = [r EXCEPT !.incoming = b, !.reading = a]
  OBVIOUS
<1>4. Reads(r, z)
  BY <1>3 DEF IsSession, Reads
<1>5. z = [r EXCEPT !.reading = a, !.incoming = b]
  BY <1>3 DEF IsSession
<1> QED
  BY <1>1, <1>2, <1>3, <1>4, <1>5

LEMMA ReadsKeeps ==
  ASSUME NEW r, NEW n, SInv(r, n), r.sock # "none", NEW q, Reads(r, q)
  PROVE  SInv(q, n)
<1>1. IsLink(n) /\ q.sock # "none"
  BY DEF SInv, Reads
<1> QED
  BY <1>1, QueueUntouched DEF Reads, Works

(* What the client of a session that has not been accepted has.                        *)
LEMMA UnbornKnows ==
  ASSUME NEW r, NEW n, SInv(r, n), r.sock = "none"
  PROVE  IsLink(n) /\ n.got = << >>
<1>1. r.posted = << >> /\ Sent(r, n) /\ Queue(n.got) /\ IsLink(n)
  BY DEF SInv, Unborn
<1>2. Len(n.got) <= 0
  BY <1>1, NoMessage DEF Sent
<1> QED
  BY <1>1, <1>2, QueueIs

(* The first message of a session is written at once.                                  *)
LEMMA WriteFirst ==
  ASSUME NEW r, IsSession(r), r.outgoing = << >>, NEW m
  PROVE  After(r, m, async_write([r EXCEPT !.outgoing = Append(@, m), !.posted = Append(@, m)]))
<1>1. PICK u : u = [r EXCEPT !.outgoing = Append(@, m), !.posted = Append(@, m)]
  OBVIOUS
<1>2. /\ IsSession(u) /\ u.sock = r.sock /\ u.known = r.known /\ u.writes = r.writes
      /\ u.incoming = r.incoming /\ u.reading = r.reading
      /\ u.outgoing = Append(r.outgoing, m) /\ u.posted = Append(r.posted, m)
  <2>1. IsPushed(r, m, u)
    BY <1>1, PushIs
  <2> QED
    BY <2>1 DEF IsPushed
<1>a. PICK v : v = async_write(u)
  OBVIOUS
<1>3. /\ IsSession(v) /\ v.sock = u.sock /\ v.known = u.known
      /\ v.incoming = u.incoming /\ v.reading = u.reading
      /\ v.outgoing = u.outgoing /\ v.posted = u.posted
      /\ v.writes = Append(u.writes, [msg |-> Head(u.outgoing), done |-> FALSE])
  <2>1. IsBegun(u, v)
    BY <1>2, <1>a, WriteIs
  <2> QED
    BY <2>1 DEF IsBegun
<1>4. Head(u.outgoing) = m
  BY <1>2, PushedAlone
<1>5. After(r, m, v)
  BY <1>2, <1>3, <1>4 DEF After
<1> QED
  BY <1>1, <1>a, <1>5

LEMMA TerminalAccepts ==
  ASSUME IInv, NEW s \in Sessions, Terminal!accept(s)
  PROVE  IInv'
<1>0. Shape /\ Members /\ SInv(ses[s], net[s])
  BY DEF IInv
<1>1. program = "terminal" /\ ses[s].sock = "none" /\ UNCHANGED <<program, clients_, net>>
  <2>1. Terminal!Accepted(s, "terminal") /\ UNCHANGED <<program, clients_, net>>
    BY DEF Terminal!accept
  <2>2. program = "terminal" /\ ((ses[s].sock = "none") <=> s >= s)
    BY <2>1, SameNames DEF Terminal!Accepted
  <2>3. s >= s
    BY DEF Sessions
  <2> QED
    BY <2>1, <2>2, <2>3
<1>2. PICK state \in {"open", "closed"} :
        ses' = [ses EXCEPT ![s] = Terminal!start(s, [NewSession EXCEPT !.sock = state])]
  BY DEF Terminal!accept, Terminal!NewSession, NewSession
<1>a. PICK r : r = [NewSession EXCEPT !.sock = state]
  OBVIOUS
<1>b. PICK m : m = Message("welcome", s, << >>)
  OBVIOUS
<1>c. PICK u : u = [r EXCEPT !.outgoing = Append(@, m), !.posted = Append(@, m)]
  OBVIOUS
<1>d. PICK v : v = async_write(u)
  OBVIOUS
<1>3. PICK q : q = [v EXCEPT !.reading = "wait"]
  OBVIOUS
<1>4. Terminal!start(s, r) = q
  BY <1>b, <1>c, <1>d, <1>3 DEF Terminal!start, Terminal!async_write, async_write, Terminal!write_string, Terminal!Message, Message
<1>5. SInv(r, net[s]) /\ r.sock = state /\ r.outgoing = << >>
  <2>1. IsLink(net[s]) /\ net[s].got = << >>
    BY <1>0, <1>1, UnbornKnows
  <2>2. r = Fresh(state, 0)
    BY <1>a, FreshIs
  <2> QED
    BY <2>1, <2>2, FreshKeeps
<1>6. After(r, m, v)
  <2>1. IsSession(r)
    BY <1>5 DEF SInv
  <2> QED
    BY <1>c, <1>d, <1>5, <2>1, WriteFirst
<1>7. SInv(v, net[s]) /\ v.sock = state
  BY <1>5, <1>6, AfterKeeps DEF After
<1>8. SInv(q, net[s]) /\ q.sock = state
  <2>1. Reads(v, q)
    BY <1>3, <1>7, ReadsAgain DEF SInv
  <2> QED
    BY <1>7, <2>1, ReadsKeeps DEF Reads
<1>9. /\ ses' = [t \in Sessions |-> ses'[t]] /\ \A t \in Sessions \ {s} : ses'[t] = ses[t]
      /\ ses'[s] = q
  <2>1. ses' = [ses EXCEPT ![s] = q]
    BY <1>2, <1>a, <1>4
  <2> QED
    BY <1>0, <2>1 DEF Shape
<1>10. net' = [t \in Sessions |-> net'[t]] /\ \A t \in Sessions \ {s} : net'[t] = net[t]
  BY <1>0, <1>1 DEF Shape
<1>11. clients_ = {}
  BY <1>0, <1>1 DEF Members
<1> QED
  BY <1>1, <1>8, <1>9, <1>10, <1>11, OneChanges

LEMMA TerminalReads ==
  ASSUME IInv, NEW s \in Sessions, Terminal!on_read(s)
  PROVE  IInv'
<1>0. Shape /\ Members /\ SInv(ses[s], net[s])
  BY DEF IInv
<1>1. program = "terminal" /\ ses[s].reading = "done" /\ UNCHANGED <<program, clients_, net>>
  BY DEF Terminal!on_read
<1>2. ses[s].sock # "none" /\ IsSession(ses[s]) /\ clients_ = {}
  BY <1>0, <1>1 DEF SInv, Unborn, Members
<1>3. net' = [t \in Sessions |-> net'[t]] /\ \A t \in Sessions \ {s} : net'[t] = net[t]
  BY <1>0, <1>1 DEF Shape
<1>4. PICK b, q : /\ q = [ses[s] EXCEPT !.incoming = b, !.reading = "wait"]
                  /\ \/ ses' = [ses EXCEPT ![s] = q]
                     \/ ses' = ses
                     \/ \E m : ses' = [ses EXCEPT ![s] = Terminal!dispatch(q, m)]
  BY DEF Terminal!on_read
<1>5. Reads(ses[s], q)
  BY <1>2, <1>4, ReadsAgain
<1>6. SInv(q, net[s]) /\ q.sock = ses[s].sock
  BY <1>0, <1>2, <1>5, ReadsKeeps DEF Reads
<1>7. ASSUME NEW z, SInv(z, net[s]), z.sock = ses[s].sock, ses' = [ses EXCEPT ![s] = z]
      PROVE  IInv'
  <2>1. /\ ses' = [t \in Sessions |-> ses'[t]] /\ \A t \in Sessions \ {s} : ses'[t] = ses[t]
        /\ ses'[s] = z
    BY <1>0, <1>7 DEF Shape
  <2> QED
    BY <1>1, <1>2, <1>3, <1>7, <2>1, OneChanges
<1>8. CASE ses' = [ses EXCEPT ![s] = q]
  BY <1>6, <1>7, <1>8
<1>9. CASE ses' = ses
  <2>1. /\ ses' = [t \in Sessions |-> ses'[t]] /\ \A t \in Sessions \ {s} : ses'[t] = ses[t]
        /\ ses'[s] = ses[s]
    BY <1>0, <1>9 DEF Shape
  <2> QED
    BY <1>0, <1>1, <1>3, <2>1, OneChangesQuietly
<1>10. ASSUME NEW m, ses' = [ses EXCEPT ![s] = Terminal!dispatch(q, m)] PROVE IInv'
  <2>1. PICK z : z = Terminal!dispatch(q, m)
    OBVIOUS
  <2>2. After(q, m, z)
    BY <1>6, <2>1, DispatchIs DEF SInv
  <2>3. SInv(z, net[s]) /\ z.sock = ses[s].sock
    BY <1>2, <1>6, <2>2, AfterKeeps DEF After
  <2> QED
    BY <1>7, <1>10, <2>1, <2>3
<1> QED
  BY <1>4, <1>8, <1>9, <1>10

(* q is the session r after its write handler.                                         *)
GoesOn(r, q) ==
    /\ IsSession(q) /\ q.sock = r.sock /\ q.known = r.known /\ q.posted = r.posted
    /\ q.outgoing = Tail(r.outgoing) /\ q.incoming = r.incoming /\ q.reading = r.reading
    /\ q.outgoing = << >> => q.writes = Tail(r.writes)
    /\ q.outgoing # << >> =>
         q.writes = Append(Tail(r.writes), [msg |-> Head(q.outgoing), done |-> FALSE])

(* The next message of the queue is written; both servers do this in the same way.     *)
LEMMA NextWrite ==
  ASSUME IInv, NEW s \in Sessions, ses[s].writes # << >>, Head(ses[s].writes).done,
         NEW q, GoesOn(ses[s], q), ses' = [ses EXCEPT ![s] = q],
         UNCHANGED <<program, clients_, net>>
  PROVE  IInv'
<1>0. Shape /\ SInv(ses[s], net[s])
  BY DEF IInv
<1>1. SInv(q, net[s])
  BY <1>0, PopKeeps DEF GoesOn
<1>2. /\ ses' = [t \in Sessions |-> ses'[t]] /\ \A t \in Sessions \ {s} : ses'[t] = ses[t]
      /\ ses'[s] = q
  BY <1>0 DEF Shape
<1>3. net' = [t \in Sessions |-> net'[t]] /\ \A t \in Sessions \ {s} : net'[t] = net[t]
  BY <1>0 DEF Shape
<1> QED
  BY <1>1, <1>2, <1>3, OneChangesQuietly DEF GoesOn

LEMMA NextWriteIs ==
  ASSUME NEW r, IsSession(r), NEW p, p = [r EXCEPT !.writes = Tail(@), !.outgoing = Tail(@)],
         NEW q, q = IF p.outgoing = << >> THEN p ELSE async_write(p)
  PROVE  GoesOn(r, q)
<1>0. PICK a, b : a = Tail(r.writes) /\ b = Tail(r.outgoing)
  OBVIOUS
<1>1. p = [r EXCEPT !.writes = a, !.outgoing = b]
  BY <1>0
<1>2. /\ IsSession(p) /\ p.sock = r.sock /\ p.known = r.known /\ p.posted = r.posted
      /\ p.writes = a /\ p.outgoing = b /\ p.incoming = r.incoming /\ p.reading = r.reading
  BY <1>1 DEF IsSession
<1>3. CASE p.outgoing = << >>
  BY <1>0, <1>2, <1>3 DEF GoesOn
<1>4. CASE p.outgoing # << >>
  <2>1. q = async_write(p)
    BY <1>4
  <2>2. /\ IsSession(q) /\ q.sock = p.sock /\ q.known = p.known
        /\ q.incoming = p.incoming /\ q.reading = p.reading
        /\ q.outgoing = p.outgoing /\ q.posted = p.posted
        /\ q.writes = Append(p.writes, [msg |-> Head(p.outgoing), done |-> FALSE])
    <3>1. IsBegun(p, q)
      BY <1>2, <2>1, WriteIs
    <3> QED
      BY <3>1 DEF IsBegun
  <2> QED
    BY <1>0, <1>2, <1>4, <2>2 DEF GoesOn
<1> QED
  BY <1>3, <1>4

LEMMA TerminalWrites ==
  ASSUME IInv, NEW s \in Sessions, Terminal!on_write(s)
  PROVE  IInv'
<1>1. /\ ses[s].writes # << >> /\ Head(ses[s].writes).done /\ UNCHANGED <<program, clients_, net>>
  BY DEF Terminal!on_write, Terminal!WriteDone
<1>2. IsSession(ses[s])
  BY DEF IInv, SInv
<1>3. PICK p : p = [ses[s] EXCEPT !.writes = Tail(@), !.outgoing = Tail(@)]
  OBVIOUS
<1>4. PICK q : q = IF p.outgoing = << >> THEN p ELSE async_write(p)
  OBVIOUS
<1>5. ses' = [ses EXCEPT ![s] = q]
  BY <1>3, <1>4 DEF Terminal!on_write, Terminal!async_write, async_write
<1>6. GoesOn(ses[s], q)
  BY <1>2, <1>3, <1>4, NextWriteIs
<1> QED
  BY <1>1, <1>5, <1>6, NextWrite

(* The session q is r, closed.                                                         *)
Closes(r, q) ==
    /\ IsSession(q) /\ q.sock = "closed" /\ q.known = r.known /\ q.outgoing = r.outgoing
    /\ q.posted = r.posted /\ (q.writes = r.writes \/ q.writes = << >>)
    /\ q.incoming = r.incoming /\ (q.reading = r.reading \/ q.reading = "none")

LEMMA ClosesKeeps ==
  ASSUME NEW r, NEW n, SInv(r, n), NEW q, Closes(r, q)
  PROVE  SInv(q, n)
<1>1. IsLink(n) /\ q.sock = "closed"
  BY DEF SInv, Closes
<1> QED
  BY <1>1, QueueUntouched DEF Closes, Works

LEMMA ReadErrorCloses ==
  ASSUME NEW r, IsSession(r)
  PROVE  Closes(r, [r EXCEPT !.reading = "none", !.sock = "closed"])
<1>1. PICK q : q = [r EXCEPT !.reading = "none", !.sock = "closed"]
  OBVIOUS
<1>2. Closes(r, q)
  BY <1>1 DEF Closes, IsSession
<1> QED
  BY <1>1, <1>2

LEMMA LastWrite ==
  ASSUME NEW r, NEW n, SInv(r, n), r.writes # << >>
  PROVE  Tail(r.writes) = << >> /\ r.sock # "none"
<1>1. Single(r) /\ (r.sock = "none" => Unborn(r))
  BY DEF SInv
<1>2. r.writes = <<Head(r.writes)>> /\ r.outgoing # << >>
  BY <1>1 DEF Single
<1> QED
  BY <1>1, <1>2, OnlyWrite DEF Unborn

LEMMA TerminalFails ==
  ASSUME IInv, NEW s \in Sessions, Terminal!on_read_error(s) \/ Terminal!on_write_error(s)
  PROVE  IInv'
<1>0. Shape /\ SInv(ses[s], net[s]) /\ IsSession(ses[s]) /\ IsLink(net[s])
  BY DEF IInv, SInv
<1>1. program = "terminal" /\ UNCHANGED <<program, clients_, net>>
  BY DEF Terminal!on_read_error, Terminal!on_write_error
<1>2. net' = [t \in Sessions |-> net'[t]] /\ \A t \in Sessions \ {s} : net'[t] = net[t]
  BY <1>0, <1>1 DEF Shape
<1>3. ASSUME NEW q, SInv(q, net[s]), q.posted = ses[s].posted, q.known = ses[s].known,
             ses' = [ses EXCEPT ![s] = q]
      PROVE  IInv'
  <2>1. /\ ses' = [t \in Sessions |-> ses'[t]] /\ \A t \in Sessions \ {s} : ses'[t] = ses[t]
        /\ ses'[s] = q
    BY <1>0, <1>3 DEF Shape
  <2> QED
    BY <1>1, <1>2, <1>3, <2>1, OneChangesQuietly
<1>4. CASE Terminal!on_read_error(s)
  <2>1. PICK q : q = [ses[s] EXCEPT !.reading = "none", !.sock = "closed"]
    OBVIOUS
  <2>2. ses' = [ses EXCEPT ![s] = q]
    BY <1>4, <2>1 DEF Terminal!on_read_error
  <2>3. Closes(ses[s], q)
    BY <1>0, <2>1, ReadErrorCloses
  <2>4. SInv(q, net[s])
    BY <1>0, <2>3, ClosesKeeps
  <2> QED
    BY <1>3, <2>2, <2>3, <2>4 DEF Closes
<1>5. CASE Terminal!on_write_error(s)
  <2>1. PICK w : w = Tail(ses[s].writes)
    OBVIOUS
  <2>2. PICK q : q = [ses[s] EXCEPT !.writes = w]
    OBVIOUS
  <2>3. ses' = [ses EXCEPT ![s] = q]
    BY <1>5, <2>1, <2>2 DEF Terminal!on_write_error
  <2>4. ses[s].writes # << >> /\ ~Works(ses[s], net[s])
    BY <1>5 DEF Terminal!on_write_error, Terminal!WriteFails, Terminal!Broken, Works
  <2>5. w = << >>
    BY <1>0, <2>1, <2>4, LastWrite
  <2>6. /\ IsSession(q) /\ q.sock = ses[s].sock /\ q.known = ses[s].known /\ q.posted = ses[s].posted
        /\ q.outgoing = ses[s].outgoing /\ q.reading = ses[s].reading /\ q.writes = w
    BY <1>0, <2>2 DEF IsSession
  <2>7. ~Works(q, net[s])
    BY <2>4, <2>6 DEF Works
  <2>8. SInv(q, net[s])
    BY <1>0, <2>5, <2>6, <2>7, QueueUntouched
  <2> QED
    BY <1>3, <2>3, <2>6, <2>8
<1> QED
  BY <1>4, <1>5

LEMMA TerminalKeeps ==
  ASSUME IInv, Terminal!Next
  PROVE  IInv'
<1>1. PICK s \in Sessions : Terminal!accept(s) \/ Terminal!Handlers(s)
  BY SameNames DEF Terminal!Next
<1> QED
  BY <1>1, TerminalAccepts, TerminalReads, TerminalWrites, TerminalFails DEF Terminal!Handlers

-----------------------------------------------------------------------------
(* The chat server.                                                                    *)

(* The chat server counts with the Cardinality that its module takes from FiniteSets.  *)
LEMMA SameCount ==
  ASSUME NEW S
  PROVE  Chat!Cardinality(S) = Cardinality(S)
  BY DEF Chat!Cardinality, Cardinality

LEMMA CountMembers ==
  ASSUME Members
  PROVE  /\ IsFiniteSet(clients_) /\ Cardinality(clients_) \in Nat
         /\ \A s \in Sessions : s \notin clients_ =>
                Cardinality(clients_ \cup {s}) = Cardinality(clients_) + 1
         /\ \A s \in clients_ : /\ Cardinality(clients_ \ {s}) \in Nat
                                /\ Cardinality(clients_) = Cardinality(clients_ \ {s}) + 1
<1>1. IsFiniteSet(clients_)
  BY SameNames, FS_Subset DEF Members
<1>2. Cardinality(clients_) \in Nat
  BY <1>1, FS_CardinalityType
<1>3. ASSUME NEW s \in Sessions, s \notin clients_
      PROVE  Cardinality(clients_ \cup {s}) = Cardinality(clients_) + 1
  BY <1>1, <1>3, FS_AddElement
<1>4. ASSUME NEW s \in clients_
      PROVE  /\ Cardinality(clients_ \ {s}) \in Nat
             /\ Cardinality(clients_) = Cardinality(clients_ \ {s}) + 1
  <2>1. IsFiniteSet(clients_ \ {s}) /\ Cardinality(clients_ \ {s}) = Cardinality(clients_) - 1
    BY <1>1, FS_RemoveElement
  <2>2. Cardinality(clients_ \ {s}) \in Nat
    BY <2>1, FS_CardinalityType
  <2> QED
    BY <1>2, <2>1, <2>2
<1> QED
  BY <1>1, <1>2, <1>3, <1>4

LEMMA PostAllIs ==
  ASSUME NEW f, NEW to, NEW m, NEW g, g = Chat!post_all(f, to, m)
  PROVE  /\ g = [t \in Sessions |-> g[t]]
         /\ \A t \in Sessions : /\ t \in to => g[t] = Chat!post(f[t], m)
                                /\ t \notin to => g[t] = f[t]
  BY SameNames DEF Chat!post_all

(* A message to a member, who knew that c were there: d are there now.                 *)
LEMMA MemberHears ==
  ASSUME NEW r, NEW n, SInv(r, n), r.sock # "none", NEW c \in Nat, NEW d \in Nat, Knows(r, c),
         NEW m, \/ m.kind = "newcomer" /\ d = c + 1
                \/ m.kind = "one_less" /\ c = d + 1
                \/ m.kind # "newcomer" /\ m.kind # "one_less" /\ d = c,
         NEW q, q = Chat!post(r, m)
  PROVE  SInv(q, n) /\ q.sock = r.sock /\ Knows(q, d)
<1>1. IsSession(r) /\ Queue(r.posted)
  BY DEF SInv
<1>2. After(r, m, q)
  BY <1>1, PostIs
<1>3. SInv(q, n)
  BY <1>2, AfterKeeps
<1>4. q.sock = r.sock /\ q.known = r.known /\ q.posted = Append(r.posted, m)
  BY <1>2 DEF After
<1>5. Knows(q, d)
  BY <1>1, <1>4, NewsKnown
<1> QED
  BY <1>3, <1>4, <1>5

(* A step that may change every session and the membership.                            *)
LEMMA AllChange ==
  ASSUME IInv, program = "chat", UNCHANGED <<program, net>>, ses' = [t \in Sessions |-> ses'[t]],
         \A t \in Sessions : SInv(ses'[t], net[t]),
         clients_' \subseteq Sessions,
         \A t \in Sessions : /\ ses'[t].sock = "open" => t \in clients_'
                             /\ ses'[t].sock = "none" => t \notin clients_',
         \A t \in clients_' : Knows(ses'[t], Cardinality(clients_'))
  PROVE  IInv'
<1>1. Shape'
  BY DEF IInv, Shape
<1>2. \A t \in Sessions : SInv(ses'[t], net'[t])
  OBVIOUS
<1>3. Members'
  BY DEF Members, Knows, NewsOf
<1> QED
  BY <1>1, <1>2, <1>3 DEF IInv

LEMMA ChatReads ==
  ASSUME IInv, NEW s \in Sessions, Chat!on_read(s)
  PROVE  IInv'
<1>0. Shape /\ Members /\ \A t \in Sessions : SInv(ses[t], net[t])
  BY DEF IInv
<1>1. /\ program = "chat" /\ ses[s].reading = "done" /\ UNCHANGED <<program, clients_, net>>
  BY DEF Chat!on_read
<1>2. PICK m : m = Chat!Message("text", s, ses[s].incoming)
  OBVIOUS
<1>3. PICK g : g = Chat!post_all(ses, clients_, m)
  OBVIOUS
<1>4. PICK e : e = << >>
  OBVIOUS
<1>5. ses' = [g EXCEPT ![s].reading = "wait", ![s].incoming = e]
  BY <1>2, <1>3, <1>4 DEF Chat!on_read
<1>6. /\ g = [t \in Sessions |-> g[t]]
      /\ \A t \in Sessions : /\ t \in clients_ => g[t] = Chat!post(ses[t], m)
                             /\ t \notin clients_ => g[t] = ses[t]
  BY <1>3, PostAllIs
<1>7. /\ ses' = [t \in Sessions |-> ses'[t]] /\ \A t \in Sessions \ {s} : ses'[t] = g[t]
      /\ ses'[s] = [g[s] EXCEPT !.reading = "wait", !.incoming = e]
  BY <1>5, <1>6
<1>8. ASSUME NEW t \in Sessions
      PROVE  /\ SInv(g[t], net[t]) /\ g[t].sock = ses[t].sock
             /\ t \in clients_ => Knows(g[t], Cardinality(clients_))
  <2>1. CASE t \in clients_
    <3>1. Knows(ses[t], Cardinality(clients_)) /\ ses[t].sock # "none" /\ Cardinality(clients_) \in Nat
      BY <1>0, <2>1, CountMembers DEF Members
    <3>2. m.kind # "newcomer" /\ m.kind # "one_less"
      BY <1>2 DEF Chat!Message
    <3>3. SInv(ses[t], net[t]) /\ g[t] = Chat!post(ses[t], m)
      BY <1>0, <1>6, <2>1
    <3>4. PICK r, n, q, c : r = ses[t] /\ n = net[t] /\ q = g[t] /\ c = Cardinality(clients_)
      OBVIOUS
    <3>5. SInv(r, n) /\ r.sock # "none" /\ c \in Nat /\ Knows(r, c) /\ q = Chat!post(r, m)
      BY <3>1, <3>3, <3>4
    <3>6. SInv(q, n) /\ q.sock = r.sock /\ Knows(q, c)
      BY <3>2, <3>5, MemberHears
    <3> QED
      BY <3>4, <3>6
  <2>2. CASE t \notin clients_
    BY <1>0, <1>6, <2>2
  <2> QED
    BY <2>1, <2>2
<1>9. ses[s].sock # "none"
  BY <1>0, <1>1 DEF SInv, Unborn
<1>10. Reads(g[s], ses'[s])
  <2>1. PICK r : r = g[s]
    OBVIOUS
  <2>2. IsSession(r) /\ ses'[s] = [r EXCEPT !.reading = "wait", !.incoming = e]
    BY <1>7, <1>8, <2>1 DEF SInv
  <2>3. Reads(r, [r EXCEPT !.reading = "wait", !.incoming = e])
    BY <2>2, ReadsAgain
  <2> QED
    BY <2>1, <2>2, <2>3
<1>11. SInv(ses'[s], net[s]) /\ ses'[s].sock = ses[s].sock
  BY <1>8, <1>9, <1>10, ReadsKeeps DEF Reads
<1>12. s \in clients_ => Knows(ses'[s], Cardinality(clients_))
  <2> SUFFICES ASSUME s \in clients_ PROVE Knows(ses'[s], Cardinality(clients_))
    OBVIOUS
  <2>1. Knows(g[s], Cardinality(clients_))
    BY <1>8
  <2>2. ses'[s].posted = g[s].posted /\ ses'[s].known = g[s].known
    BY <1>10 DEF Reads
  <2> QED
    BY <2>1, <2>2 DEF Knows, NewsOf
<1>13. ASSUME NEW t \in Sessions
       PROVE  /\ SInv(ses'[t], net[t]) /\ ses'[t].sock = ses[t].sock
              /\ t \in clients_ => Knows(ses'[t], Cardinality(clients_))
  BY <1>7, <1>8, <1>11, <1>12
<1> QED
  BY <1>0, <1>1, <1>7, <1>13, AllChange DEF Members

LEMMA ChatWrites ==
  ASSUME IInv, NEW s \in Sessions, Chat!on_write(s)
  PROVE  IInv'
<1>1. /\ ses[s].writes # << >> /\ Head(ses[s].writes).done /\ UNCHANGED <<program, clients_, net>>
  BY DEF Chat!on_write, Chat!WriteDone
<1>2. IsSession(ses[s])
  BY DEF IInv, SInv
<1>3. PICK p : p = [ses[s] EXCEPT !.writes = Tail(@), !.outgoing = Tail(@)]
  OBVIOUS
<1>4. PICK q : q = IF p.outgoing = << >> THEN p ELSE async_write(p)
  OBVIOUS
<1>5. ses' = [ses EXCEPT ![s] = q]
  BY <1>3, <1>4 DEF Chat!on_write, Chat!async_write, async_write
<1>6. GoesOn(ses[s], q)
  BY <1>2, <1>3, <1>4, NextWriteIs
<1> QED
  BY <1>1, <1>5, <1>6, NextWrite

(* f is the sessions, with q in the place of s.                                        *)
OnlyAt(f, s, q) == /\ f = [t \in Sessions |-> f[t]] /\ f[s] = q
                   /\ \A t \in Sessions \ {s} : f[t] = ses[t]

LEMMA Replaced ==
  ASSUME Shape, NEW s \in Sessions, NEW q, NEW f, f = [ses EXCEPT ![s] = q]
  PROVE  OnlyAt(f, s, q)
  BY DEF Shape, OnlyAt

(* Whoever fails is erased and the others are told, the first time only.               *)
LEMMA ErrorKeeps ==
  ASSUME IInv, NEW s \in Sessions, program = "chat", UNCHANGED <<program, net>>,
         NEW q, Closes(ses[s], q), NEW f, OnlyAt(f, s, q), Chat!on_error(s, f)
  PROVE  IInv'
<1>0. Shape /\ Members /\ \A t \in Sessions : SInv(ses[t], net[t])
  BY DEF IInv
<1>1. f = [t \in Sessions |-> f[t]] /\ f[s] = q /\ \A t \in Sessions \ {s} : f[t] = ses[t]
  BY DEF OnlyAt
<1>2. SInv(q, net[s]) /\ q.sock = "closed"
  BY <1>0, ClosesKeeps DEF Closes
<1>3. ASSUME s \notin clients_, clients_' = clients_, ses' = f PROVE IInv'
  <2>1. \A t \in Sessions : SInv(ses'[t], net[t])
    BY <1>0, <1>1, <1>2, <1>3
  <2>2. \A t \in Sessions : /\ ses'[t].sock = "open" => t \in clients_'
                            /\ ses'[t].sock = "none" => t \notin clients_'
    BY <1>0, <1>1, <1>2, <1>3 DEF Members
  <2>3. \A t \in clients_' : Knows(ses'[t], Cardinality(clients_'))
    BY <1>0, <1>1, <1>3 DEF Members
  <2>4. clients_' \subseteq Sessions /\ ses' = [t \in Sessions |-> ses'[t]]
    BY <1>0, <1>1, <1>3 DEF Members
  <2> QED
    BY <2>1, <2>2, <2>3, <2>4, AllChange
<1>4. ASSUME s \in clients_, clients_' = clients_ \ {s},
             NEW m, m.kind = "one_less", ses' = Chat!post_all(f, clients_ \ {s}, m)
      PROVE  IInv'
  <2>0. PICK C, c, d : C = clients_ \ {s} /\ c = Cardinality(clients_) /\ d = Cardinality(C)
    OBVIOUS
  <2>1. C \subseteq Sessions /\ s \notin C /\ c \in Nat /\ d \in Nat /\ c = d + 1
    BY <1>0, <1>4, <2>0, CountMembers DEF Members
  <2>2. ses' = Chat!post_all(f, C, m) /\ clients_' = C /\ Cardinality(clients_') = d
    BY <1>4, <2>0
  <2>3. /\ ses' = [t \in Sessions |-> ses'[t]]
        /\ \A t \in Sessions : /\ t \in C => ses'[t] = Chat!post(f[t], m)
                               /\ t \notin C => ses'[t] = f[t]
    <3>1. PICK g : g = Chat!post_all(f, C, m)
      OBVIOUS
    <3>2. /\ g = [t \in Sessions |-> g[t]]
          /\ \A t \in Sessions : /\ t \in C => g[t] = Chat!post(f[t], m)
                                 /\ t \notin C => g[t] = f[t]
      BY <3>1, PostAllIs
    <3> QED
      BY <2>2, <3>1, <3>2
  <2>4. ASSUME NEW t \in C PROVE SInv(ses'[t], net[t]) /\ ses'[t].sock = ses[t].sock /\ Knows(ses'[t], d)
    <3>1. PICK r, n, z : r = ses[t] /\ n = net[t] /\ z = ses'[t]
      OBVIOUS
    <3>2. z = Chat!post(r, m)
      BY <1>1, <2>1, <2>3, <3>1
    <3>3. SInv(r, n) /\ r.sock # "none" /\ Knows(r, c)
      BY <1>0, <2>0, <2>1, <3>1 DEF Members
    <3>4. SInv(z, n) /\ z.sock = r.sock /\ Knows(z, d)
      BY <1>4, <2>1, <3>2, <3>3, MemberHears
    <3> QED
      BY <3>1, <3>4
  <2>5. ASSUME NEW t \in Sessions, t \notin C
        PROVE  SInv(ses'[t], net[t]) /\ (t = s \/ (t # s /\ t \notin clients_ /\ ses'[t] = ses[t]))
    <3>1. ses'[t] = f[t]
      BY <2>3, <2>5
    <3>2. CASE t = s
      BY <1>1, <1>2, <3>1, <3>2
    <3>3. CASE t # s
      BY <1>0, <1>1, <2>0, <2>5, <3>1, <3>3
    <3> QED
      BY <3>2, <3>3
  <2>6. ses'[s].sock = "closed"
    BY <1>1, <1>2, <2>1, <2>3
  <2>7. \A t \in Sessions : SInv(ses'[t], net[t])
    BY <2>4, <2>5
  <2>8. \A t \in Sessions : /\ ses'[t].sock = "open" => t \in clients_'
                            /\ ses'[t].sock = "none" => t \notin clients_'
    BY <1>0, <2>0, <2>2, <2>4, <2>5, <2>6 DEF Members
  <2>9. \A t \in clients_' : Knows(ses'[t], Cardinality(clients_'))
    BY <2>2, <2>4
  <2> QED
    BY <2>1, <2>2, <2>3, <2>7, <2>8, <2>9, AllChange
<1>5. PICK m : m = Chat!Message("one_less", s, << >>)
  OBVIOUS
<1>6. m.kind = "one_less"
  BY <1>5 DEF Chat!Message
<1>7. \/ s \in clients_ /\ clients_' = clients_ \ {s} /\ ses' = Chat!post_all(f, clients_ \ {s}, m)
      \/ s \notin clients_ /\ ses' = f /\ clients_' = clients_
  BY <1>5 DEF Chat!on_error
<1> QED
  BY <1>3, <1>4, <1>6, <1>7

(* A read or a write of s fails: f is the sessions with s closed.                      *)
LEMMA ErrorIs ==
  ASSUME IInv, NEW s \in Sessions, Chat!on_read_error(s) \/ Chat!on_write_error(s)
  PROVE  /\ program = "chat" /\ UNCHANGED <<program, net>> /\ ses[s].sock # "none"
         /\ \E q, f : Closes(ses[s], q) /\ OnlyAt(f, s, q) /\ Chat!on_error(s, f)
<1>0. SInv(ses[s], net[s]) /\ IsSession(ses[s]) /\ Shape
  BY DEF IInv, SInv
<1>1. program = "chat" /\ UNCHANGED <<program, net>>
  BY DEF Chat!on_read_error, Chat!on_write_error
<1>2. CASE Chat!on_read_error(s)
  <2>1. PICK q : q = [ses[s] EXCEPT !.reading = "none", !.sock = "closed"]
    OBVIOUS
  <2>2. Closes(ses[s], q)
    BY <1>0, <2>1, ReadErrorCloses
  <2>3. PICK f : f = [ses EXCEPT ![s] = q]
    OBVIOUS
  <2>4. f = [ses EXCEPT ![s].reading = "none", ![s].sock = "closed"]
    BY <2>1, <2>3
  <2>5. Chat!on_error(s, f) /\ ses[s].reading = "wait"
    BY <1>2, <2>4 DEF Chat!on_read_error, Chat!ReadFails
  <2>6. OnlyAt(f, s, q)
    BY <1>0, <2>3, Replaced
  <2>7. ses[s].sock # "none"
    BY <1>0, <2>5 DEF SInv, Unborn
  <2> QED
    BY <1>1, <2>2, <2>5, <2>6, <2>7
<1>3. CASE Chat!on_write_error(s)
  <2>0. PICK w : w = Tail(ses[s].writes)
    OBVIOUS
  <2>1. PICK q : q = [ses[s] EXCEPT !.writes = w, !.sock = "closed"]
    OBVIOUS
  <2>2. ses[s].writes # << >>
    BY <1>3 DEF Chat!on_write_error, Chat!WriteFails
  <2>a. w = << >> /\ ses[s].sock # "none"
    BY <1>0, <2>0, <2>2, LastWrite
  <2>b. /\ IsSession(q) /\ q.sock = "closed" /\ q.known = ses[s].known /\ q.posted = ses[s].posted
        /\ q.outgoing = ses[s].outgoing /\ q.writes = w
        /\ q.incoming = ses[s].incoming /\ q.reading = ses[s].reading
    BY <1>0, <2>1 DEF IsSession
  <2>3. Closes(ses[s], q)
    BY <2>a, <2>b DEF Closes
  <2>4. PICK f : f = [ses EXCEPT ![s] = q]
    OBVIOUS
  <2>5. f = [ses EXCEPT ![s].writes = Tail(@), ![s].sock = "closed"]
    BY <2>0, <2>1, <2>4
  <2>6. Chat!on_error(s, f)
    BY <1>3, <2>5 DEF Chat!on_write_error
  <2>7. OnlyAt(f, s, q)
    BY <1>0, <2>4, Replaced
  <2> QED
    BY <1>1, <2>a, <2>3, <2>6, <2>7
<1> QED
  BY <1>2, <1>3

LEMMA ChatFails ==
  ASSUME IInv, NEW s \in Sessions, Chat!on_read_error(s) \/ Chat!on_write_error(s)
  PROVE  IInv'
  BY ErrorIs, ErrorKeeps

(* The newcomer q, greeted with m, and its connection.                                 *)
LEMMA Greeted ==
  ASSUME NEW n, IsLink(n), n.got = << >>, NEW state \in {"open", "closed"}, NEW k \in Nat,
         NEW m, m.kind = "welcome"
  PROVE  LET q == Chat!start(Chat!post(Fresh(state, k), m))
         IN  SInv(q, n) /\ q.sock = state /\ Knows(q, k)
<1>1. PICK r : r = Fresh(state, k)
  OBVIOUS
<1>2. SInv(r, n) /\ r.sock = state /\ r.known = k /\ r.posted = << >>
  BY <1>1, FreshKeeps
<1>3. Knows(r, k)
  <2>1. NewsOf(r, "newcomer") = 0 /\ NewsOf(r, "one_less") = 0
    BY <1>2, NoNews
  <2> QED
    BY <1>2, <2>1 DEF Knows
<1>4. PICK v : v = Chat!post(r, m)
  OBVIOUS
<1>5. SInv(v, n) /\ v.sock = state /\ Knows(v, k)
  <2>1. r.sock # "none" /\ m.kind # "newcomer" /\ m.kind # "one_less"
    BY <1>2
  <2> QED
    BY <1>2, <1>3, <1>4, <2>1, MemberHears
<1>6. PICK q : q = [v EXCEPT !.reading = "wait"]
  OBVIOUS
<1>7. Reads(v, q)
  BY <1>5, <1>6, ReadsAgain DEF SInv
<1>8. SInv(q, n) /\ q.sock = state
  BY <1>5, <1>7, ReadsKeeps DEF Reads
<1>9. Knows(q, k)
  BY <1>5, <1>7 DEF Reads, Knows, NewsOf
<1> QED
  BY <1>1, <1>4, <1>6, <1>8, <1>9 DEF Chat!start

LEMMA ChatAccepts ==
  ASSUME IInv, NEW s \in Sessions, Chat!async_server_accept(s)
  PROVE  IInv'
<1>0. Shape /\ Members /\ \A t \in Sessions : SInv(ses[t], net[t])
  BY DEF IInv
<1>1. program = "chat" /\ ses[s].sock = "none" /\ UNCHANGED <<program, net>> /\ clients_' = clients_ \union {s}
  <2>1. Chat!Accepted(s, "chat") /\ UNCHANGED <<program, net>> /\ clients_' = clients_ \union {s}
    BY DEF Chat!async_server_accept
  <2>2. program = "chat" /\ ((ses[s].sock = "none") <=> s >= s)
    BY <2>1, SameNames DEF Chat!Accepted
  <2>3. s >= s
    BY DEF Sessions
  <2> QED
    BY <2>1, <2>2, <2>3
<1>2. PICK c, d : c = Cardinality(clients_) /\ d = c + 1
  OBVIOUS
<1>3. s \notin clients_ /\ c \in Nat /\ d \in Nat /\ Cardinality(clients_') = d
  <2>1. s \notin clients_
    BY <1>0, <1>1 DEF Members
  <2> QED
    BY <1>0, <1>1, <1>2, <2>1, CountMembers
<1>4. PICK m, w : m = Chat!Message("newcomer", s, << >>) /\ w = Chat!Message("welcome", s, << >>)
  OBVIOUS
<1>5. m.kind = "newcomer" /\ w.kind = "welcome"
  BY <1>4 DEF Chat!Message
<1>6. PICK state \in {"open", "closed"} :
        ses' = [Chat!post_all(ses, clients_, m) EXCEPT
                    ![s] = Chat!start(Chat!post(Fresh(state, d), w))]
  <2>1. PICK state \in {"open", "closed"} :
          ses' = [Chat!post_all(ses, clients_, m) EXCEPT
                      ![s] = Chat!start(Chat!post([NewSession EXCEPT !.sock = state, !.known = d], w))]
    <3>1. Chat!NewSession = NewSession
      BY DEF Chat!NewSession, NewSession
    <3>2. d = Chat!Cardinality(clients_) + 1
      BY <1>2, SameCount
    <3> QED
      BY <1>4, <3>1, <3>2 DEF Chat!async_server_accept
  <2>2. [NewSession EXCEPT !.sock = state, !.known = d] = Fresh(state, d)
    BY FreshIs
  <2> QED
    BY <2>1, <2>2
<1>7. PICK q : q = Chat!start(Chat!post(Fresh(state, d), w))
  OBVIOUS
<1>8. SInv(q, net[s]) /\ q.sock = state /\ Knows(q, d)
  <2>1. IsLink(net[s]) /\ net[s].got = << >>
    BY <1>0, <1>1, UnbornKnows
  <2> QED
    BY <1>3, <1>5, <1>7, <2>1, Greeted
<1>9. PICK g : g = Chat!post_all(ses, clients_, m)
  OBVIOUS
<1>10. /\ g = [t \in Sessions |-> g[t]]
       /\ \A t \in Sessions : /\ t \in clients_ => g[t] = Chat!post(ses[t], m)
                              /\ t \notin clients_ => g[t] = ses[t]
  BY <1>9, PostAllIs
<1>11. /\ ses' = [t \in Sessions |-> ses'[t]] /\ ses'[s] = q
       /\ \A t \in Sessions \ {s} : ses'[t] = g[t]
  <2>1. ses' = [g EXCEPT ![s] = q]
    BY <1>6, <1>7, <1>9
  <2> QED
    BY <1>10, <2>1
<1>12. ASSUME NEW t \in clients_
       PROVE  SInv(ses'[t], net[t]) /\ ses'[t].sock = ses[t].sock /\ Knows(ses'[t], d)
  <2>1. PICK r, n, z : r = ses[t] /\ n = net[t] /\ z = ses'[t]
    OBVIOUS
  <2>2. t \in Sessions /\ t # s
    BY <1>0, <1>3 DEF Members
  <2>3. z = Chat!post(r, m)
    BY <1>10, <1>11, <2>1, <2>2
  <2>4. SInv(r, n) /\ r.sock # "none" /\ Knows(r, c)
    BY <1>0, <1>2, <2>1, <2>2 DEF Members
  <2>5. SInv(z, n) /\ z.sock = r.sock /\ Knows(z, d)
    BY <1>2, <1>3, <1>5, <2>3, <2>4, MemberHears
  <2> QED
    BY <2>1, <2>5
<1>13. ASSUME NEW t \in Sessions, t # s, t \notin clients_ PROVE ses'[t] = ses[t]
  BY <1>10, <1>11, <1>13
<1>14. \A t \in Sessions : SInv(ses'[t], net[t])
  BY <1>0, <1>8, <1>11, <1>12, <1>13
<1>15. \A t \in Sessions : /\ ses'[t].sock = "open" => t \in clients_'
                           /\ ses'[t].sock = "none" => t \notin clients_'
  <2> SUFFICES ASSUME NEW t \in Sessions
               PROVE  /\ ses'[t].sock = "open" => t \in clients_'
                      /\ ses'[t].sock = "none" => t \notin clients_'
    OBVIOUS
  <2>1. CASE t = s
    BY <1>1, <1>8, <1>11, <2>1
  <2>2. CASE t \in clients_
    BY <1>0, <1>1, <1>12, <2>2 DEF Members
  <2>3. CASE t # s /\ t \notin clients_
    BY <1>0, <1>1, <1>13, <2>3 DEF Members
  <2> QED
    BY <2>1, <2>2, <2>3
<1>16. \A t \in clients_' : Knows(ses'[t], Cardinality(clients_'))
  BY <1>1, <1>3, <1>8, <1>11, <1>12
<1>17. clients_' \subseteq Sessions
  BY <1>0, <1>1 DEF Members
<1> QED
  BY <1>1, <1>11, <1>14, <1>15, <1>16, <1>17, AllChange

LEMMA ChatKeeps ==
  ASSUME IInv, Chat!Next
  PROVE  IInv'
<1>1. PICK s \in Sessions : Chat!async_server_accept(s) \/ Chat!Handlers(s)
  BY SameNames DEF Chat!Next
<1> QED
  BY <1>1, ChatAccepts, ChatReads, ChatWrites, ChatFails DEF Chat!Handlers

-----------------------------------------------------------------------------
(* The invariant and what follows from it.                                             *)

LEMMA InitIInv == Init => IInv
<1> SUFFICES ASSUME Init PROVE IInv
  OBVIOUS
<1>1. PICK l : l = [link |-> TRUE, eof |-> FALSE, lines |-> << >>, wire |-> << >>,
                    got |-> << >>, patient |-> TRUE]
  OBVIOUS
<1>2. /\ program \in {"chat", "terminal"} /\ clients_ = {}
      /\ net = [s \in Sessions |-> l] /\ ses = [s \in Sessions |-> NewSession]
  BY <1>1 DEF Init
<1>3. IsLink(l) /\ l.got = << >>
  <2>1. PICK e : e = << >>
    OBVIOUS
  <2>2. l = [link |-> TRUE, eof |-> FALSE, lines |-> e, wire |-> e, got |-> e, patient |-> TRUE]
    BY <1>1, <2>1
  <2>3. IsLink(l) /\ l.got = e
    BY <2>2 DEF IsLink
  <2> QED
    BY <2>1, <2>3
<1>4. PICK r : r = NewSession
  OBVIOUS
<1>5. SInv(r, l) /\ r.sock = "none"
  <2>0. PICK e : e = << >>
    OBVIOUS
  <2>1. r = [sock |-> "none", incoming |-> e, reading |-> "none", outgoing |-> e,
             writes |-> e, posted |-> e, known |-> 0]
    BY <1>4, <2>0 DEF NewSession
  <2>2. IsSession(r) /\ r.sock = "none" /\ r.reading = "none"
    BY <2>1 DEF IsSession
  <2>3. r.outgoing = e /\ r.writes = e /\ r.posted = e
    <3>1. r \in [sock : {"none"}, incoming : {e}, reading : {"none"}, outgoing : {e},
                 writes : {e}, posted : {e}, known : {0}]
      BY <2>1
    <3> QED
      BY <3>1
  <2>4. r.outgoing = << >> /\ r.writes = << >> /\ r.posted = << >>
    BY <2>0, <2>3
  <2>5. Len(r.outgoing) = 0 /\ Len(r.posted) = 0 /\ Len(l.got) = 0
    BY <1>3, <2>4, NoMessage
  <2>6. Base(r) = 0
    BY <2>5 DEF Base
  <2>7. Queued(r)
    BY <2>5, <2>6 DEF Queued
  <2>8. Looping(r, l)
    BY <2>4, <2>5, <2>6 DEF Looping
  <2>9. Sent(r, l)
    BY <2>5 DEF Sent
  <2>10. Queue(r.outgoing) /\ Queue(r.posted) /\ Queue(l.got)
    BY <1>3, <2>4, NoMessage
  <2>11. Single(r) /\ Unborn(r)
    BY <2>2, <2>4 DEF Single, Unborn
  <2> QED
    BY <1>3, <2>2, <2>7, <2>8, <2>9, <2>10, <2>11 DEF SInv
<1>6. ASSUME NEW s \in Sessions PROVE ses[s] = r /\ net[s] = l
  BY <1>2, <1>4
<1>7. Shape
  BY <1>2 DEF Shape
<1>8. Members
  BY <1>2, <1>5, <1>6 DEF Members
<1> QED
  BY <1>5, <1>6, <1>7, <1>8 DEF IInv

LEMMA NextIInv == IInv /\ [Next]_vars => IInv'
<1> SUFFICES ASSUME IInv, [Next]_vars PROVE IInv'
  OBVIOUS
<1>1. CASE UNCHANGED vars
  <2>1. UNCHANGED <<program, net, ses, clients_>>
    BY <1>1 DEF vars
  <2>2. Shape /\ Members /\ \A s \in Sessions : SInv(ses[s], net[s])
    BY DEF IInv
  <2>3. Shape'
    BY <2>1, <2>2 DEF Shape
  <2>4. Members'
    BY <2>1, <2>2 DEF Members, Knows, NewsOf
  <2>5. \A s \in Sessions : SInv(ses'[s], net'[s])
    BY <2>1, <2>2
  <2> QED
    BY <2>3, <2>4, <2>5 DEF IInv
<1>2. CASE World
  BY <1>2, WorldKeeps
<1>3. CASE \E s \in Sessions : Asio(s)
  BY <1>3, AsioKeeps
<1>4. CASE Chat!Next
  BY <1>4, ChatKeeps
<1>5. CASE Terminal!Next
  BY <1>5, TerminalKeeps
<1> QED
  BY <1>1, <1>2, <1>3, <1>4, <1>5 DEF Next

(* In every state of the servers the invariant holds: it relates the queue of each     *)
(* session, its write and what its client has to what was posted.                      *)
THEOREM LinesInvariant == Spec => []IInv
  BY InitIInv, NextIInv, PTL DEF Spec

(* post and on_write (dispatch and on_write of the terminal): until the connection     *)
(* breaks, one write is under way exactly while something is queued, of the message in *)
(* front, whichever handler of whichever session posts.                                *)
THEOREM OneWriteAlways == Spec => []WriteLoop
<1>1. IInv => WriteLoop
  <2> SUFFICES ASSUME IInv, NEW s \in Sessions, ~Broken(s)
               PROVE  /\ Len(ses[s].writes) <= 1
                      /\ (ses[s].outgoing = << >>) = (ses[s].writes = << >>)
                      /\ ses[s].writes # << >> => Head(ses[s].writes).msg = Head(ses[s].outgoing)
    BY DEF WriteLoop
  <2>1. PICK r, n : r = ses[s] /\ n = net[s]
    OBVIOUS
  <2>2. Looping(r, n)
    BY <2>1 DEF Broken, IInv, SInv, Works
  <2>3. CASE r.outgoing = << >> /\ r.writes = << >>
    BY <2>1, <2>3, NoMessage
  <2>4. CASE r.outgoing # << >>
    <3>1. PICK h : h = Head(r.outgoing)
      OBVIOUS
    <3>2. PICK d \in BOOLEAN : r.writes = <<[msg |-> h, done |-> d]>>
      BY <2>2, <2>4, <3>1 DEF Looping
    <3>3. r.writes # << >> /\ Len(r.writes) = 1 /\ Head(r.writes) = [msg |-> h, done |-> d]
      BY <3>2, OnlyWrite
    <3> QED
      BY <2>1, <2>4, <3>1, <3>3
  <2> QED
    BY <2>2, <2>3, <2>4 DEF Looping
<1> QED
  BY <1>1, LinesInvariant, PTL

(* The queue outgoing of a session: its client receives the messages posted to it, in  *)
(* their order, none twice and none left out.                                          *)
THEOREM DeliveredAsPosted == Spec => []DeliveredInOrder
<1>1. IInv => DeliveredInOrder
  <2> SUFFICES ASSUME IInv, NEW s \in Sessions PROVE IsPrefix(net[s].got, ses[s].posted)
    BY DEF DeliveredInOrder
  <2>1. PICK g, p : g = net[s].got /\ p = ses[s].posted
    OBVIOUS
  <2>2. /\ Queue(g) /\ Queue(p) /\ Len(g) <= Len(p) /\ \A i \in 1 .. Len(g) : g[i] = p[i]
    BY <2>1 DEF IInv, SInv, Sent
  <2>3. Len(g) \in Nat /\ Len(p) \in Nat
    BY <2>2, QueueIs
  <2>4. SubSeq(g, 1, Len(g)) = SubSeq(p, 1, Len(g))
    BY <2>2, <2>3
  <2> QED
    BY <2>1, <2>2, <2>4 DEF IsPrefix
<1> QED
  BY <1>1, LinesInvariant, PTL

(* clients_ of the chat: whoever is connected is a member, and a member that counts    *)
(* the news knows how many there are, although a read and a write of somebody who      *)
(* leaves may both fail.                                                               *)
THEOREM MembersAreInformed == Spec => []MembersInformed
<1>1. IInv => MembersInformed
  <2> SUFFICES ASSUME IInv PROVE MembersInformed
    OBVIOUS
  <2>1. Members
    BY DEF IInv
  <2>2. program = "chat" => {s \in Sessions : ses[s].sock = "open"} \subseteq clients_
    BY <2>1 DEF Members
  <2>3. ASSUME NEW s \in clients_
        PROVE  ses[s].known + Chat!News(s, "newcomer") = Chat!Cardinality(clients_) + Chat!News(s, "one_less")
    <3>1. Knows(ses[s], Cardinality(clients_))
      BY <2>1 DEF Members
    <3>2. /\ Chat!News(s, "newcomer") = NewsOf(ses[s], "newcomer")
          /\ Chat!News(s, "one_less") = NewsOf(ses[s], "one_less")
      BY SameCount DEF Chat!News, NewsOf
    <3> QED
      BY <3>1, <3>2, SameCount DEF Knows
  <2>4. program = "chat" => {s \in Chat!Sessions : ses[s].sock = "open"} \subseteq clients_
    BY <2>2, SameNames
  <2> QED
    BY <2>3, <2>4 DEF MembersInformed, Chat!MembersInformed
<1> QED
  BY <1>1, LinesInvariant, PTL

-----------------------------------------------------------------------------
(* What clients type.                                                                  *)

(* What the chat server has yet to handle of a client: the bytes in the streambuf and  *)
(* on the wire, and the first byte of the line that the client will type next.         *)
Ahead(r, n) == (r.incoming \o n.wire) \o <<[line |-> Len(n.lines) + 1, at |-> 1]>>

(* These bytes were typed, one after the other.                                        *)
InOrder(lines, b) ==
    \A i \in 1 .. Len(b) - 1 : b[i].line \in 1 .. Len(lines) /\ Chat!Follows(lines, b[i], b[i + 1])

Streams(r, n) == /\ r.incoming \in Seq(Bytes) /\ n.wire \in Seq(Bytes)
                 /\ InOrder(n.lines, Ahead(r, n))
                 /\ r.reading = "done" => r.incoming # << >>

(* In the messages p, what who said is whole, and the byte b comes after it.           *)
Texts(p, who) == {n \in 1 .. Len(p) : p[n].kind = "text" /\ p[n].who = who}
IsText(lines, t) == /\ t \in Seq(Bytes) /\ t # << >> /\ InOrder(lines, t)
                    /\ t[Len(t)].line \in 1 .. Len(lines)
Heard(p, who, lines) ==
    \A n \in Texts(p, who) :
        /\ IsText(lines, p[n].text)
        /\ \A m \in Texts(p, who) :
              n < m /\ (\A j \in Texts(p, who) : j <= n \/ m <= j)
                  => Chat!Follows(lines, p[n].text[Len(p[n].text)], p[m].text[1])
Awaits(p, who, lines, b) ==
    \A n \in Texts(p, who) :
        (\A m \in Texts(p, who) : m <= n) => Chat!Follows(lines, p[n].text[Len(p[n].text)], b)

(* Of the sessions S, with the connections N and the members C: what w types is on its *)
(* way whole, and whole in what was posted to anybody.                                 *)
Speaks(S, N, C, w) ==
    /\ Streams(S[w], N[w])
    /\ \A s \in Sessions :
          /\ Heard(S[s].posted, w, N[w].lines)
          /\ s \in C => Awaits(S[s].posted, w, N[w].lines, Ahead(S[w], N[w])[1])

(* On the terminal: the messages p after the welcome are one answer to the whole of    *)
(* each of the commands among the first k lines, in order.                             *)
Given(p, lines, k) ==
    /\ \A m \in 2 .. Len(p) : \E c \in 1 .. k : /\ lines[c].len > 1
                                                /\ p[m].text = LineBytes(c, lines[c].len)
    /\ \A m, j \in 2 .. Len(p) : m < j => p[m].text[1].line < p[j].text[1].line
    /\ \A c \in 1 .. k : lines[c].len > 1 => \E m \in 2 .. Len(p) : p[m].text = LineBytes(c, lines[c].len)

(* Of a patient client either every line was handled, or its last line is on the wire  *)
(* or, whole, in the streambuf.                                                        *)
Asks(r, n) ==
    LET last == Len(n.lines) bytes == LineBytes(last, n.lines[last].len) IN
    \/ Given(r.posted, n.lines, last) /\ r.reading # "done" /\ r.incoming = << >> /\ n.wire = << >>
    \/ /\ last > 0 /\ Given(r.posted, n.lines, last - 1)
       /\ \/ r.reading # "done" /\ r.incoming = << >> /\ n.wire = bytes
          \/ r.reading = "done" /\ r.incoming = bytes /\ n.wire = << >>

Asked(r, n) == /\ r.sock # "none" => r.posted # << >>
               /\ n.patient => Asks(r, n)

(* What a client with the lines of I typed; before the accept the server has nothing.  *)
Fed(r, n, I) == /\ n.lines \in Seq(I) /\ n.patient \in BOOLEAN
                /\ r.sock = "none" => r.incoming = << >>

(* The second part of the invariant.                                                   *)
KInv == /\ \A s \in Sessions : Fed(ses[s], net[s], Inputs[program])
        /\ program = "chat" => \A w \in Sessions : Speaks(ses, net, clients_, w)
        /\ program = "terminal" => \A s \in Sessions : Asked(ses[s], net[s])

-----------------------------------------------------------------------------
(* Bytes that were typed one after the other.                                          *)

(* One more line changes nothing for the lines before.                                 *)
LEMMA FollowsStill ==
  ASSUME NEW I, NEW L \in Seq(I), NEW x \in I, NEW b, b.line \in 1 .. Len(L), NEW c,
         Chat!Follows(L, b, c)
  PROVE  b.line \in 1 .. Len(Append(L, x)) /\ Chat!Follows(Append(L, x), b, c)
<1>1. PICK n \in 1 .. Len(L) : n = b.line
  OBVIOUS
<1>2. n \in 1 .. Len(Append(L, x)) /\ Append(L, x)[n] = L[n]
  OBVIOUS
<1> QED
  BY <1>1, <1>2 DEF Chat!Follows

LEMMA InOrderStill ==
  ASSUME NEW I, NEW L \in Seq(I), NEW x \in I, NEW b, InOrder(L, b)
  PROVE  InOrder(Append(L, x), b)
  BY FollowsStill DEF InOrder

LEMMA TextStill ==
  ASSUME NEW I, NEW L \in Seq(I), NEW x \in I, NEW t, IsText(L, t)
  PROVE  IsText(Append(L, x), t)
<1>1. InOrder(Append(L, x), t)
  BY InOrderStill DEF IsText
<1>2. PICK n \in 1 .. Len(L) : n = t[Len(t)].line
  BY DEF IsText
<1>3. n \in 1 .. Len(Append(L, x))
  OBVIOUS
<1> QED
  BY <1>1, <1>2, <1>3 DEF IsText

(* A text's last byte belongs to a line.                                               *)
LEMMA HeardStill ==
  ASSUME NEW I, NEW L \in Seq(I), NEW x \in I, NEW p, NEW who, Heard(p, who, L)
  PROVE  Heard(p, who, Append(L, x))
<1> SUFFICES ASSUME NEW n \in Texts(p, who)
             PROVE  /\ IsText(Append(L, x), p[n].text)
                    /\ \A m \in Texts(p, who) :
                          n < m /\ (\A j \in Texts(p, who) : j <= n \/ m <= j)
                              => Chat!Follows(Append(L, x), p[n].text[Len(p[n].text)], p[m].text[1])
  BY DEF Heard
<1>1. IsText(L, p[n].text)
  BY DEF Heard
<1>2. PICK t : t = p[n].text
  OBVIOUS
<1>3. IsText(Append(L, x), t)
  BY <1>1, <1>2, TextStill
<1>4. PICK b : b = t[Len(t)]
  OBVIOUS
<1>5. b.line \in 1 .. Len(L)
  BY <1>1, <1>2, <1>4 DEF IsText
<1>6. ASSUME NEW m \in Texts(p, who), n < m, \A j \in Texts(p, who) : j <= n \/ m <= j
      PROVE  Chat!Follows(Append(L, x), b, p[m].text[1])
  <2>1. PICK c : c = p[m].text[1]
    OBVIOUS
  <2>2. Chat!Follows(L, b, c)
    BY <1>2, <1>4, <1>6, <2>1 DEF Heard
  <2>3. Chat!Follows(Append(L, x), b, c)
    BY <1>5, <2>2, FollowsStill
  <2> QED
    BY <2>1, <2>3
<1> QED
  BY <1>2, <1>3, <1>4, <1>6

LEMMA AwaitsStill ==
  ASSUME NEW I, NEW L \in Seq(I), NEW x \in I, NEW p, NEW who, Heard(p, who, L),
         NEW c, Awaits(p, who, L, c)
  PROVE  Awaits(p, who, Append(L, x), c)
<1> SUFFICES ASSUME NEW n \in Texts(p, who), \A m \in Texts(p, who) : m <= n
             PROVE  Chat!Follows(Append(L, x), p[n].text[Len(p[n].text)], c)
  BY DEF Awaits
<1>1. IsText(L, p[n].text)
  BY DEF Heard
<1>2. PICK b : b = p[n].text[Len(p[n].text)]
  OBVIOUS
<1>3. b.line \in 1 .. Len(L) /\ Chat!Follows(L, b, c)
  BY <1>1, <1>2 DEF IsText, Awaits
<1>4. Chat!Follows(Append(L, x), b, c)
  BY <1>3, FollowsStill
<1> QED
  BY <1>2, <1>4

-----------------------------------------------------------------------------
(* Messages to a member.                                                               *)

(* z is what was posted so far and then m.                                             *)
LEMMA TextsThen ==
  ASSUME NEW p, Queue(p), NEW m, NEW z, Behind(p, m, z), NEW who
  PROVE  /\ Len(p) \in Nat /\ Len(z) = Len(p) + 1 /\ z[Len(p) + 1] = m
         /\ \A n \in Texts(p, who) : n \in 1 .. Len(p) /\ z[n] = p[n]
         /\ m.kind = "text" /\ m.who = who => Texts(z, who) = Texts(p, who) \cup {Len(p) + 1}
         /\ ~(m.kind = "text" /\ m.who = who) => Texts(z, who) = Texts(p, who)
<1>1. Len(p) \in Nat
  BY QueueIs
<1>2. /\ Len(z) = Len(p) + 1 /\ z[Len(p) + 1] = m
      /\ \A n \in 1 .. Len(p) : z[n] = p[n]
  BY <1>1 DEF Behind
<1>3. \A n : n \in 1 .. Len(z) <=> n \in 1 .. Len(p) \/ n = Len(p) + 1
  BY <1>1, <1>2
<1>4. \A n \in Texts(p, who) : n \in 1 .. Len(p) /\ z[n] = p[n]
  BY <1>2 DEF Texts
<1>5. ASSUME NEW n
      PROVE  n \in Texts(z, who) <=> \/ n \in Texts(p, who)
                                     \/ n = Len(p) + 1 /\ m.kind = "text" /\ m.who = who
  <2>1. n \in 1 .. Len(p) => n # Len(p) + 1
    BY <1>1
  <2> QED
    BY <1>2, <1>3, <2>1 DEF Texts
<1> QED
  BY <1>1, <1>2, <1>4, <1>5

(* A message that is none of who's texts.                                              *)
LEMMA HeardNews ==
  ASSUME NEW p, Queue(p), NEW m, NEW who, m.kind # "text" \/ m.who # who, NEW z, Behind(p, m, z),
         NEW L, NEW c
  PROVE  /\ Heard(p, who, L) => Heard(z, who, L)
         /\ Awaits(p, who, L, c) => Awaits(z, who, L, c)
<1>1. Texts(z, who) = Texts(p, who) /\ \A n \in Texts(p, who) : z[n] = p[n]
  BY TextsThen
<1>2. ASSUME Heard(p, who, L) PROVE Heard(z, who, L)
  <2>1. \A n \in Texts(p, who) : IsText(L, z[n].text)
    BY <1>1, <1>2 DEF Heard
  <2>2. ASSUME NEW n \in Texts(p, who), NEW i \in Texts(p, who), n < i,
               \A j \in Texts(p, who) : j <= n \/ i <= j
        PROVE  Chat!Follows(L, z[n].text[Len(z[n].text)], z[i].text[1])
    <3>1. Chat!Follows(L, p[n].text[Len(p[n].text)], p[i].text[1])
      BY <1>2, <2>2 DEF Heard
    <3> QED
      BY <1>1, <3>1
  <2> QED
    BY <1>1, <2>1, <2>2 DEF Heard
<1>3. ASSUME Awaits(p, who, L, c) PROVE Awaits(z, who, L, c)
  BY <1>1, <1>3 DEF Awaits
<1> QED
  BY <1>2, <1>3

(* One more text of who.                                                               *)
LEMMA HeardText ==
  ASSUME NEW p, Queue(p), NEW m, NEW who, m.kind = "text", m.who = who, NEW z, Behind(p, m, z),
         NEW L, IsText(L, m.text), Heard(p, who, L), Awaits(p, who, L, m.text[1]),
         NEW c, Chat!Follows(L, m.text[Len(m.text)], c)
  PROVE  Heard(z, who, L) /\ Awaits(z, who, L, c)
<1>1. PICK k : k = Len(p) + 1
  OBVIOUS
<1>2. /\ Len(p) \in Nat /\ k \in Nat /\ z[k] = m /\ Texts(z, who) = Texts(p, who) \cup {k}
      /\ \A n \in Texts(p, who) : n \in 1 .. Len(p) /\ z[n] = p[n]
  <2>1. /\ Len(p) \in Nat /\ z[Len(p) + 1] = m
        /\ \A n \in Texts(p, who) : n \in 1 .. Len(p) /\ z[n] = p[n]
    BY TextsThen
  <2>2. Texts(z, who) = Texts(p, who) \cup {Len(p) + 1}
    BY TextsThen
  <2>3. k \in Nat
    BY <1>1, <2>1
  <2> QED
    BY <1>1, <2>1, <2>2, <2>3
<1>3. \A n \in Texts(p, who) : n \in Nat /\ n < k
  BY <1>1, <1>2
<1>4. ASSUME NEW n \in Texts(z, who) PROVE IsText(L, z[n].text)
  BY <1>2 DEF Heard
<1>5. ASSUME NEW n \in Texts(z, who), NEW i \in Texts(z, who), n < i,
             \A j \in Texts(z, who) : j <= n \/ i <= j
      PROVE  Chat!Follows(L, z[n].text[Len(z[n].text)], z[i].text[1])
  <2>1. n \in Texts(p, who)
    BY <1>2, <1>3, <1>5
  <2>2. CASE i \in Texts(p, who)
    <3>1. \A j \in Texts(p, who) : j <= n \/ i <= j
      BY <1>2, <1>5
    <3>2. Chat!Follows(L, p[n].text[Len(p[n].text)], p[i].text[1])
      BY <1>5, <2>1, <2>2, <3>1 DEF Heard
    <3> QED
      BY <1>2, <2>1, <2>2, <3>2
  <2>3. CASE i = k
    <3>1. ASSUME NEW j \in Texts(p, who) PROVE j <= n
      <4>1. j <= n \/ k <= j
        BY <1>2, <1>5, <2>3
      <4> QED
        BY <1>2, <1>3, <4>1
    <3>2. Chat!Follows(L, p[n].text[Len(p[n].text)], m.text[1])
      BY <2>1, <3>1 DEF Awaits
    <3> QED
      BY <1>2, <2>1, <2>3, <3>2
  <2> QED
    BY <1>2, <2>2, <2>3
<1>6. Heard(z, who, L)
  BY <1>4, <1>5 DEF Heard
<1>7. ASSUME NEW n \in Texts(z, who), \A j \in Texts(z, who) : j <= n
      PROVE  Chat!Follows(L, z[n].text[Len(z[n].text)], c)
  <2>1. n = k
    BY <1>2, <1>3, <1>7
  <2> QED
    BY <1>2, <2>1
<1>8. Awaits(z, who, L, c)
  BY <1>7 DEF Awaits
<1> QED
  BY <1>6, <1>8

(* Somebody to whom only m was posted, which is no text, has heard nothing.            *)
LEMMA HeardNothing ==
  ASSUME NEW p, p = << >>, NEW who, NEW L, NEW c
  PROVE  Heard(p, who, L) /\ Awaits(p, who, L, c)
<1>1. Len(p) = 0
  BY NoMessage
<1>2. Texts(p, who) = {}
  BY <1>1 DEF Texts
<1> QED
  BY <1>2 DEF Heard, Awaits

-----------------------------------------------------------------------------
(* What the server has yet to handle of a client.                                      *)

(* c is the bytes a and then b; d is a and then b and then one more, e; w is a line.   *)
Cat(a, b, c) == /\ c \in Seq(Bytes) /\ Len(c) = Len(a) + Len(b)
                /\ \A i \in 1 .. Len(a) : c[i] = a[i]
                /\ \A i \in 1 .. Len(b) : c[Len(a) + i] = b[i]
Joined(a, b, e, d) == /\ d \in Seq(Bytes) /\ Len(d) = Len(a) + Len(b) + 1
                      /\ \A i \in 1 .. Len(a) : d[i] = a[i]
                      /\ \A i \in 1 .. Len(b) : d[Len(a) + i] = b[i]
                      /\ d[Len(a) + Len(b) + 1] = e
IsLine(w, n, k) == /\ w \in Seq(Bytes) /\ Len(w) = k
                   /\ \A i \in 1 .. k : w[i].line = n /\ w[i].at = i

LEMMA CatIs ==
  ASSUME NEW a \in Seq(Bytes), NEW b \in Seq(Bytes)
  PROVE  Cat(a, b, a \o b)
  BY DEF Cat

LEMMA JoinedIs ==
  ASSUME NEW a \in Seq(Bytes), NEW b \in Seq(Bytes), NEW e \in Bytes
  PROVE  Joined(a, b, e, (a \o b) \o <<e>>)
<1>1. PICK c : c = a \o b
  OBVIOUS
<1>2. Cat(a, b, c)
  BY <1>1, CatIs
<1>3. PICK u : u = <<e>>
  OBVIOUS
<1>4. u \in Seq(Bytes) /\ Len(u) = 1 /\ u[1] = e
  BY <1>3
<1>5. PICK d : d = c \o u
  OBVIOUS
<1>6. c \in Seq(Bytes) /\ Len(c) = Len(a) + Len(b) /\ Len(a) \in Nat /\ Len(b) \in Nat
  BY <1>2 DEF Cat
<1>7. Cat(c, u, d)
  BY <1>4, <1>5, <1>6, CatIs
<1>8. /\ d \in Seq(Bytes) /\ Len(d) = Len(c) + 1
      /\ \A i \in 1 .. Len(c) : d[i] = c[i]
  BY <1>4, <1>7 DEF Cat
<1>a. d[Len(c) + 1] = e
  <2>1. 1 \in 1 .. Len(u)
    BY <1>4
  <2> QED
    BY <1>4, <1>7, <2>1 DEF Cat
<1>9. ASSUME NEW i \in 1 .. Len(a) PROVE d[i] = a[i]
  <2>1. i \in 1 .. Len(c)
    BY <1>6
  <2> QED
    BY <1>2, <1>8, <2>1 DEF Cat
<1>10. ASSUME NEW i \in 1 .. Len(b) PROVE d[Len(a) + i] = b[i]
  <2>1. Len(a) + i \in 1 .. Len(c)
    BY <1>6
  <2> QED
    BY <1>2, <1>8, <2>1 DEF Cat
<1>11. Joined(a, b, e, d)
  BY <1>6, <1>8, <1>a, <1>9, <1>10 DEF Joined
<1> QED
  BY <1>1, <1>3, <1>5, <1>11

LEMMA SameByte ==
  ASSUME NEW u \in Bytes, NEW v \in Bytes, u.line = v.line, u.at = v.at
  PROVE  u = v
<1>1. u = [line |-> u.line, at |-> u.at] /\ v = [line |-> v.line, at |-> v.at]
  BY DEF Bytes
<1> QED
  BY <1>1

LEMMA LineBytesIs ==
  ASSUME NEW n \in Nat, NEW k \in Nat
  PROVE  IsLine(LineBytes(n, k), n, k)
<1>1. \A i \in 1 .. k : [line |-> n, at |-> i] \in Bytes
  BY DEF Bytes
<1>2. LineBytes(n, k) \in [1 .. k -> Bytes]
  BY <1>1 DEF LineBytes
<1>3. LineBytes(n, k) \in Seq(Bytes) /\ Len(LineBytes(n, k)) = k
  BY <1>2
<1>4. \A i \in 1 .. k : LineBytes(n, k)[i] = [line |-> n, at |-> i]
  BY DEF LineBytes
<1> QED
  BY <1>3, <1>4 DEF IsLine

LEMMA PastBoth ==
  ASSUME NEW A \in Nat, NEW B \in Nat, NEW k \in Nat, NEW E, E = A + (B + k) + 1,
         NEW i \in 1 .. (E - 1), i > A + B
  PROVE  i - (A + B) \in 1 .. k /\ i = A + B + (i - (A + B))
  OBVIOUS

(* d is what is ahead after a and b, and e when the k bytes w of the line x follow b.  *)
Longer(L, x, N, k, a, b, w, c, f, g, d, e) ==
    /\ N \in Nat /\ N = Len(L) /\ k \in Nat \ {0} /\ k = x.len
    /\ a \in Seq(Bytes) /\ b \in Seq(Bytes) /\ IsLine(w, N + 1, k) /\ Cat(b, w, c)
    /\ f \in Bytes /\ f.line = N + 1 /\ f.at = 1 /\ g \in Bytes /\ g.line = N + 2 /\ g.at = 1
    /\ Joined(a, b, f, d) /\ Joined(a, c, g, e)

(* A line more on the wire.                                                            *)
LEMMA AheadTypes ==
  ASSUME NEW I, NEW L \in Seq(I), NEW x \in I, NEW N, NEW k, NEW a, NEW b, NEW w, NEW c,
         NEW f, NEW g, NEW d, NEW e, Longer(L, x, N, k, a, b, w, c, f, g, d, e), InOrder(L, d)
  PROVE  InOrder(Append(L, x), e) /\ e[1] = d[1]
<1> SUFFICES ASSUME N \in Nat, N = Len(L), k \in Nat \ {0}, k = x.len,
                    a \in Seq(Bytes), b \in Seq(Bytes), IsLine(w, N + 1, k), Cat(b, w, c),
                    f \in Bytes, f.line = N + 1, f.at = 1, g \in Bytes, g.line = N + 2, g.at = 1,
                    Joined(a, b, f, d), Joined(a, c, g, e)
             PROVE  InOrder(Append(L, x), e) /\ e[1] = d[1]
  BY DEF Longer
<1>2. PICK M : M = Append(L, x)
  OBVIOUS
<1>3. M \in Seq(I) /\ Len(M) = N + 1 /\ M[N + 1] = x
  BY <1>2
<1>4. /\ w \in Seq(Bytes) /\ Len(w) = k
      /\ \A i \in 1 .. k : w[i].line = N + 1 /\ w[i].at = i
  BY DEF IsLine
<1>5. PICK A \in Nat, B \in Nat : A = Len(a) /\ B = Len(b)
  <2>1. Len(a) \in Nat /\ Len(b) \in Nat
    OBVIOUS
  <2> QED
    BY <2>1
<1>6. A \in Nat /\ B \in Nat
  OBVIOUS
<1>7. /\ c \in Seq(Bytes) /\ Len(c) = B + k
      /\ \A i \in 1 .. B : c[i] = b[i]
      /\ \A i \in 1 .. k : c[B + i] = w[i]
  BY <1>4, <1>5 DEF Cat
<1>9. /\ d \in Seq(Bytes) /\ Len(d) = A + B + 1
      /\ \A i \in 1 .. A : d[i] = a[i]
      /\ \A i \in 1 .. B : d[A + i] = b[i]
      /\ d[A + B + 1] = f
  BY <1>5 DEF Joined
<1>10. /\ e \in Seq(Bytes) /\ Len(e) = A + (B + k) + 1
       /\ \A i \in 1 .. A : e[i] = a[i]
       /\ \A i \in 1 .. (B + k) : e[A + i] = c[i]
       /\ e[A + (B + k) + 1] = g
  BY <1>5, <1>7 DEF Joined
<1>a. Len(e) = A + (B + k) + 1 /\ Len(d) = A + B + 1
  BY <1>9, <1>10
<1>11. \A i \in 1 .. (A + B) : e[i] = d[i]
  <2> SUFFICES ASSUME NEW i \in 1 .. (A + B) PROVE e[i] = d[i]
    OBVIOUS
  <2>1. CASE i <= A
    <3>1. i \in 1 .. A
      BY <2>1
    <3> QED
      BY <1>9, <1>10, <3>1
  <2>2. CASE i > A
    <3>1. PICK j \in 1 .. B : i = A + j
      <4>1. i - A \in 1 .. B /\ i = A + (i - A)
        BY <1>6, <2>2
      <4> QED
        BY <4>1
    <3>2. j \in 1 .. (B + k)
      BY <1>6
    <3> QED
      BY <1>7, <1>9, <1>10, <3>1, <3>2
  <2> QED
    BY <2>1, <2>2
<1>12. ASSUME NEW j \in 1 .. k PROVE e[A + B + j].line = N + 1 /\ e[A + B + j].at = j
  <2>1. B + j \in 1 .. (B + k) /\ A + B + j = A + (B + j)
    BY <1>6
  <2>2. e[A + (B + j)] = w[j]
    BY <1>7, <1>10, <2>1
  <2> QED
    BY <1>4, <2>1, <2>2
<1>14. ASSUME NEW i \in 1 .. (Len(e) - 1)
       PROVE  e[i].line \in 1 .. Len(M) /\ Chat!Follows(M, e[i], e[i + 1])
  <2>1. CASE i < A + B
    <3>0. i \in 1 .. (Len(d) - 1) /\ i \in 1 .. (A + B) /\ i + 1 \in 1 .. (A + B)
      BY <1>a, <2>1
    <3>1. i \in 1 .. (Len(d) - 1) /\ e[i] = d[i] /\ e[i + 1] = d[i + 1]
      BY <1>11, <3>0
    <3>2. PICK u, v : u = e[i] /\ v = e[i + 1]
      OBVIOUS
    <3>3. u.line \in 1 .. Len(L) /\ Chat!Follows(L, u, v)
      BY <3>1, <3>2 DEF InOrder
    <3>4. u.line \in 1 .. Len(Append(L, x)) /\ Chat!Follows(Append(L, x), u, v)
      BY <3>3, FollowsStill
    <3> QED
      BY <1>2, <3>2, <3>4
  <2>2. CASE i = A + B
    <3>0. i \in 1 .. (Len(d) - 1) /\ i \in 1 .. (A + B)
      BY <1>a, <2>2
    <3>1. i \in 1 .. (Len(d) - 1) /\ e[i] = d[i] /\ d[i + 1] = f
      BY <1>9, <1>11, <2>2, <3>0
    <3>2. e[i + 1].line = N + 1 /\ e[i + 1].at = 1
      <4>1. 1 \in 1 .. k
        OBVIOUS
      <4> QED
        BY <1>6, <1>12, <2>2, <4>1
    <3>3. PICK u, v : u = e[i] /\ v = e[i + 1]
      OBVIOUS
    <3>4. u.line \in 1 .. Len(L) /\ Chat!Follows(L, u, f)
      BY <3>1, <3>3 DEF InOrder
    <3>5. u.line \in 1 .. Len(Append(L, x)) /\ Chat!Follows(Append(L, x), u, f)
      BY <3>4, FollowsStill
    <3>6. Chat!Follows(Append(L, x), u, v)
      BY <3>2, <3>3, <3>5 DEF Chat!Follows
    <3> QED
      BY <1>2, <3>3, <3>5, <3>6
  <2>3. CASE i > A + B
    <3>1. PICK j \in 1 .. k : i = A + B + j
      <4>1. PICK E : E = Len(e)
        OBVIOUS
      <4>2. E = A + (B + k) + 1 /\ i \in 1 .. (E - 1)
        BY <1>a, <4>1
      <4>a. A \in Nat /\ B \in Nat /\ k \in Nat
        BY <1>6
      <4>3. i - (A + B) \in 1 .. k /\ i = A + B + (i - (A + B))
        BY <2>3, <4>a, <4>2, PastBoth, SMTT(30)
      <4> QED
        BY <4>3
    <3>2. e[i].line = N + 1 /\ e[i].at = j
      BY <1>12, <3>1
    <3>3. M[N + 1].len = k /\ N + 1 \in 1 .. Len(M)
      BY <1>3
    <3>4. CASE j < k
      <4>1. j + 1 \in 1 .. k /\ i + 1 = A + B + (j + 1)
        BY <1>6, <3>1, <3>4
      <4>2. e[i + 1].line = N + 1 /\ e[i + 1].at = j + 1
        BY <1>12, <4>1
      <4> QED
        BY <3>2, <3>3, <3>4, <4>2 DEF Chat!Follows
    <3>5. CASE j = k
      <4>1. e[i + 1] = g
        <5>1. i + 1 = A + (B + k) + 1
          BY <1>6, <3>1, <3>5
        <5> QED
          BY <1>10, <5>1
      <4>2. g.line = (N + 1) + 1 /\ g.at = 1
        OBVIOUS
      <4> QED
        BY <3>2, <3>3, <3>5, <4>1, <4>2 DEF Chat!Follows
    <3> QED
      BY <3>1, <3>4, <3>5
  <2> QED
    BY <2>1, <2>2, <2>3
<1>15. InOrder(M, e)
  BY <1>14 DEF InOrder
<1>16. e[1] = d[1]
  <2>1. CASE A + B >= 1
    <3>1. 1 \in 1 .. (A + B)
      BY <1>6, <2>1
    <3> QED
      BY <1>11, <3>1
  <2>2. CASE A + B = 0
    <3>1. A = 0 /\ B = 0 /\ 1 \in 1 .. k
      BY <1>6, <2>2
    <3>2. A + B + 1 = 1 /\ d[1] = f
      BY <1>9, <3>1
    <3>3. e[1].line = N + 1 /\ e[1].at = 1 /\ e[1] \in Bytes
      BY <1>10, <1>12, <3>1, <3>2
    <3>4. e[1] = f
      BY <3>3, SameByte
    <3> QED
      BY <3>2, <3>4
  <2> QED
    BY <2>1, <2>2
<1> QED
  BY <1>2, <1>15, <1>16

(* A read moves bytes from the wire to the streambuf.                                  *)
LEMMA AheadReads ==
  ASSUME NEW a \in Seq(Bytes), NEW b \in Seq(Bytes), NEW n \in 0 .. Len(b)
  PROVE  /\ a \o SubSeq(b, 1, n) \in Seq(Bytes) /\ SubSeq(b, n + 1, Len(b)) \in Seq(Bytes)
         /\ (a \o SubSeq(b, 1, n)) \o SubSeq(b, n + 1, Len(b)) = a \o b
<1>0. n \in Nat /\ n <= Len(b) /\ Len(b) \in Nat
  OBVIOUS
<1>1. PICK u : u = SubSeq(b, 1, n)
  OBVIOUS
<1>2. PICK v : v = SubSeq(b, n + 1, Len(b))
  OBVIOUS
<1>3. u \in Seq(Bytes) /\ Len(u) = n /\ \A i \in 1 .. n : u[i] = b[i]
  BY <1>0, <1>1
<1>4. v \in Seq(Bytes) /\ Len(v) = Len(b) - n /\ \A i \in 1 .. Len(b) - n : v[i] = b[n + i]
  BY <1>0, <1>2
<1>5. PICK c : c = a \o u
  OBVIOUS
<1>6. Cat(a, u, c)
  BY <1>3, <1>5, CatIs
<1>7. c \in Seq(Bytes)
  BY <1>6 DEF Cat
<1>8. PICK d, e : d = c \o v /\ e = a \o b
  OBVIOUS
<1>9. Cat(c, v, d) /\ Cat(a, b, e)
  BY <1>4, <1>7, <1>8, CatIs
<1>10. PICK A \in Nat, B \in Nat : A = Len(a) /\ B = Len(b)
  <2>1. Len(a) \in Nat /\ Len(b) \in Nat
    OBVIOUS
  <2> QED
    BY <2>1
<1>11. /\ d \in Seq(Bytes) /\ e \in Seq(Bytes) /\ Len(c) = A + n /\ Len(d) = A + B /\ Len(e) = A + B
  <2>1. /\ d \in Seq(Bytes) /\ e \in Seq(Bytes) /\ Len(c) = A + n
        /\ Len(d) = Len(c) + Len(v) /\ Len(e) = A + B /\ Len(v) = B - n
    BY <1>3, <1>4, <1>6, <1>9, <1>10 DEF Cat
  <2> QED
    BY <1>0, <1>10, <2>1
<1>12. ASSUME NEW i \in 1 .. (A + B) PROVE d[i] = e[i]
  <2>1. CASE i <= A
    <3>1. i \in 1 .. A /\ i \in 1 .. (A + n)
      BY <1>0, <2>1
    <3>2. d[i] = c[i]
      BY <1>9, <1>11, <3>1 DEF Cat
    <3>3. c[i] = a[i]
      BY <1>6, <1>10, <3>1 DEF Cat
    <3>4. e[i] = a[i]
      BY <1>9, <1>10, <3>1 DEF Cat
    <3> QED
      BY <3>2, <3>3, <3>4
  <2>2. CASE i > A /\ i <= A + n
    <3>1. PICK j \in 1 .. n : i = A + j
      <4>1. i - A \in 1 .. n /\ i = A + (i - A)
        BY <1>0, <2>2
      <4> QED
        BY <4>1
    <3>2. i \in 1 .. (A + n) /\ j \in 1 .. B
      BY <1>0, <1>10, <2>2
    <3>3. d[i] = c[i]
      BY <1>9, <1>11, <3>2 DEF Cat
    <3>4. c[A + j] = u[j] /\ u[j] = b[j]
      BY <1>3, <1>6, <1>10 DEF Cat
    <3>5. e[A + j] = b[j]
      BY <1>9, <1>10, <3>2 DEF Cat
    <3> QED
      BY <3>1, <3>3, <3>4, <3>5
  <2>3. CASE i > A + n
    <3>1. PICK j \in 1 .. (B - n) : i = (A + n) + j
      <4>1. i - (A + n) \in 1 .. (B - n) /\ i = (A + n) + (i - (A + n))
        BY <1>0, <1>10, <2>3
      <4> QED
        BY <4>1
    <3>2. n + j \in 1 .. B /\ i = A + (n + j)
      BY <1>0, <1>10, <3>1
    <3>3. d[(A + n) + j] = v[j] /\ v[j] = b[n + j]
      BY <1>4, <1>9, <1>10, <1>11 DEF Cat
    <3>4. e[A + (n + j)] = b[n + j]
      BY <1>9, <1>10, <3>2 DEF Cat
    <3> QED
      BY <3>1, <3>2, <3>3, <3>4
  <2> QED
    BY <1>0, <2>1, <2>2, <2>3
<1>13. d = e
  BY <1>11, <1>12
<1> QED
  BY <1>1, <1>2, <1>4, <1>5, <1>7, <1>8, <1>13

(* The server takes the streambuf a: its bytes are a text, and the rest goes on.       *)
LEMMA AheadTaken ==
  ASSUME NEW L, NEW a \in Seq(Bytes), a # << >>, NEW b \in Seq(Bytes), NEW f,
         NEW d, Joined(a, b, f, d), InOrder(L, d), NEW z, z = << >>, NEW e, Joined(z, b, f, e)
  PROVE  /\ IsText(L, a) /\ InOrder(L, e) /\ d[1] = a[1]
         /\ Chat!Follows(L, a[Len(a)], e[1])
<1>1. PICK A \in Nat, B \in Nat : A = Len(a) /\ B = Len(b) /\ A >= 1
  <2>1. Len(a) \in Nat /\ Len(b) \in Nat /\ Len(a) >= 1
    OBVIOUS
  <2> QED
    BY <2>1
<1>2. /\ d \in Seq(Bytes) /\ Len(d) = A + B + 1
      /\ \A i \in 1 .. A : d[i] = a[i]
      /\ \A i \in 1 .. B : d[A + i] = b[i]
      /\ d[A + B + 1] = f
  BY <1>1 DEF Joined
<1>3. /\ e \in Seq(Bytes) /\ Len(e) = B + 1
      /\ \A i \in 1 .. B : e[i] = b[i]
      /\ e[B + 1] = f
  <2>1. Len(z) = 0
    BY NoMessage
  <2>2. /\ e \in Seq(Bytes) /\ Len(e) = 0 + B + 1
        /\ \A i \in 1 .. B : e[0 + i] = b[i]
        /\ e[0 + B + 1] = f
    BY <1>1, <2>1 DEF Joined
  <2>3. 0 + B + 1 = B + 1 /\ \A i \in 1 .. B : 0 + i = i
    OBVIOUS
  <2> QED
    BY <2>2, <2>3
<1>4. ASSUME NEW i \in 1 .. (B + 1) PROVE d[A + i] = e[i]
  <2>1. CASE i = B + 1
    <3>1. A + i = A + B + 1
      BY <2>1
    <3> QED
      BY <1>2, <1>3, <2>1, <3>1
  <2>2. CASE i # B + 1
    <3>1. i \in 1 .. B
      BY <2>2
    <3> QED
      BY <1>2, <1>3, <3>1
  <2> QED
    BY <2>1, <2>2
<1>5. \A i \in 1 .. (A + B) : d[i].line \in 1 .. Len(L) /\ Chat!Follows(L, d[i], d[i + 1])
  <2>1. Len(d) - 1 = A + B
    BY <1>2
  <2> QED
    BY <2>1 DEF InOrder
<1>6. InOrder(L, e)
  <2>1. ASSUME NEW i \in 1 .. (Len(e) - 1)
        PROVE  e[i].line \in 1 .. Len(L) /\ Chat!Follows(L, e[i], e[i + 1])
    <3>0. Len(e) = B + 1
      BY <1>3
    <3>1. /\ i \in 1 .. (B + 1) /\ i + 1 \in 1 .. (B + 1) /\ A + i \in 1 .. (A + B)
          /\ (A + i) + 1 = A + (i + 1)
      BY <3>0
    <3>2. d[A + i] = e[i] /\ d[A + (i + 1)] = e[i + 1]
      BY <1>4, <3>1
    <3>3. d[A + i].line \in 1 .. Len(L) /\ Chat!Follows(L, d[A + i], d[(A + i) + 1])
      BY <1>5, <3>1
    <3> QED
      BY <3>1, <3>2, <3>3
  <2> QED
    BY <2>1 DEF InOrder
<1>7. InOrder(L, a)
  <2>1. ASSUME NEW i \in 1 .. (Len(a) - 1)
        PROVE  a[i].line \in 1 .. Len(L) /\ Chat!Follows(L, a[i], a[i + 1])
    <3>1. i \in 1 .. A /\ i + 1 \in 1 .. A /\ i \in 1 .. (A + B)
      BY <1>1
    <3> QED
      BY <1>2, <1>5, <3>1
  <2> QED
    BY <2>1 DEF InOrder
<1>8. a[A].line \in 1 .. Len(L) /\ Chat!Follows(L, a[A], e[1])
  <2>1. A \in 1 .. A /\ A \in 1 .. (A + B) /\ 1 \in 1 .. (B + 1)
    BY <1>1
  <2>2. d[A] = a[A] /\ d[A + 1] = e[1]
    BY <1>2, <1>4, <2>1
  <2> QED
    BY <1>5, <2>1, <2>2
<1>9. d[1] = a[1]
  <2>1. 1 \in 1 .. A
    BY <1>1
  <2> QED
    BY <1>2, <2>1
<1> QED
  BY <1>1, <1>6, <1>7, <1>8, <1>9 DEF IsText

-----------------------------------------------------------------------------
(* Steps that leave alone what clients typed.                                          *)

(* q and l are the session r and the connection n, with the same bytes.                *)
Still(r, n, q, l) == /\ q.incoming = r.incoming
                     /\ l.wire = n.wire /\ l.lines = n.lines /\ l.patient = n.patient
                     /\ q.reading = "done" => r.reading = "done"
                     /\ q.sock = "none" => r.sock = "none"

(* The same, with nothing posted, no read over and nobody accepted.                    *)
Calm(r, n, q, l) == /\ Still(r, n, q, l) /\ q.posted = r.posted
                    /\ r.reading = "done" => q.reading = "done"
                    /\ r.sock = "none" => q.sock = "none"

(* z is the messages p, or these and one that is no text of w.                         *)
Told(p, z, w) == z = p \/ \E m : (m.kind # "text" \/ m.who # w) /\ Behind(p, m, z)

LEMMA ToldHears ==
  ASSUME NEW p, Queue(p), NEW z, NEW w, Told(p, z, w), NEW L, NEW c
  PROVE  /\ Heard(p, w, L) => Heard(z, w, L)
         /\ Awaits(p, w, L, c) => Awaits(z, w, L, c)
<1>1. CASE z = p
  BY <1>1
<1>2. ASSUME NEW m, m.kind # "text" \/ m.who # w, Behind(p, m, z)
      PROVE  /\ Heard(p, w, L) => Heard(z, w, L)
             /\ Awaits(p, w, L, c) => Awaits(z, w, L, c)
  BY <1>2, HeardNews
<1> QED
  BY <1>1, <1>2 DEF Told

(* Nothing happens to what w typed.                                                    *)
LEMMA OthersSpeak ==
  ASSUME NEW S, NEW N, NEW C, NEW w \in Sessions, Speaks(S, N, C, w),
         \A t \in Sessions : Queue(S[t].posted),
         NEW T, NEW M, NEW D, Still(S[w], N[w], T[w], M[w]),
         \A t \in Sessions : Told(S[t].posted, T[t].posted, w),
         \A t \in D : t \in C \/ S[t].posted = << >>
  PROVE  Speaks(T, M, D, w)
<1>1. PICK L, b : L = N[w].lines /\ b = Ahead(S[w], N[w])[1]
  OBVIOUS
<1>2. M[w].lines = L /\ Ahead(T[w], M[w]) = Ahead(S[w], N[w]) /\ Streams(T[w], M[w])
  BY <1>1 DEF Still, Ahead, Streams, Speaks
<1>3. ASSUME NEW s \in Sessions
      PROVE  Heard(T[s].posted, w, L) /\ (s \in D => Awaits(T[s].posted, w, L, b))
  <2>1. PICK p, z : p = S[s].posted /\ z = T[s].posted
    OBVIOUS
  <2>2. Queue(p) /\ Told(p, z, w)
    BY <2>1
  <2>3. Heard(p, w, L) => Heard(z, w, L)
    BY <2>2, ToldHears
  <2>4. Awaits(p, w, L, b) => Awaits(z, w, L, b)
    BY <2>2, ToldHears
  <2>5. Heard(p, w, L)
    BY <1>1, <2>1 DEF Speaks
  <2>6. s \in D => Awaits(p, w, L, b)
    <3>1. p = << >> => Awaits(p, w, L, b)
      BY HeardNothing
    <3>2. s \in C => Awaits(p, w, L, b)
      BY <1>1, <2>1 DEF Speaks
    <3> QED
      BY <2>1, <3>1, <3>2
  <2> QED
    BY <2>1, <2>3, <2>4, <2>5, <2>6
<1> QED
  BY <1>1, <1>2, <1>3 DEF Speaks

LEMMA StillFed ==
  ASSUME NEW r, NEW n, NEW q, NEW l, NEW I, Fed(r, n, I), Still(r, n, q, l)
  PROVE  Fed(q, l, I)
  BY DEF Fed, Still

LEMMA CalmAsked ==
  ASSUME NEW r, NEW n, NEW q, NEW l, Asked(r, n), Calm(r, n, q, l)
  PROVE  Asked(q, l)
<1>1. /\ q.incoming = r.incoming /\ l.wire = n.wire /\ l.lines = n.lines /\ l.patient = n.patient
      /\ q.posted = r.posted /\ (q.reading = "done" <=> r.reading = "done")
      /\ (q.sock = "none" <=> r.sock = "none")
  BY DEF Calm, Still
<1>2. Asks(r, n) => Asks(q, l)
  BY <1>1 DEF Asks
<1> QED
  BY <1>1, <1>2 DEF Asked

(* All is calm.                                                                        *)
LEMMA CalmKeeps ==
  ASSUME IInv, KInv, UNCHANGED <<program, clients_>>,
         \A t \in Sessions : Calm(ses[t], net[t], ses'[t], net'[t])
  PROVE  KInv'
<1>1. \A t \in Sessions : Fed(ses'[t], net'[t], Inputs[program'])
  BY StillFed DEF KInv, Calm
<1>2. ASSUME program = "chat", NEW w \in Sessions PROVE Speaks(ses', net', clients_', w)
  <2>1. Speaks(ses, net, clients_, w)
    BY <1>2 DEF KInv
  <2>2. \A t \in Sessions : Queue(ses[t].posted)
    BY DEF IInv, SInv
  <2>3. Still(ses[w], net[w], ses'[w], net'[w])
    BY DEF Calm
  <2>4. \A t \in Sessions : Told(ses[t].posted, ses'[t].posted, w)
    BY DEF Calm, Told
  <2>5. \A t \in clients_' : t \in clients_ \/ ses[t].posted = << >>
    OBVIOUS
  <2> QED
    BY <2>1, <2>2, <2>3, <2>4, <2>5, OthersSpeak
<1>3. ASSUME program = "terminal", NEW t \in Sessions PROVE Asked(ses'[t], net'[t])
  <2>1. Asked(ses[t], net[t])
    BY <1>3 DEF KInv
  <2> QED
    BY <2>1, CalmAsked
<1> QED
  BY <1>1, <1>2, <1>3 DEF KInv

LEMMA OneCalm ==
  ASSUME IInv, KInv, UNCHANGED <<program, clients_>>, NEW s \in Sessions,
         \A t \in Sessions \ {s} : ses'[t] = ses[t] /\ net'[t] = net[t],
         Calm(ses[s], net[s], ses'[s], net'[s])
  PROVE  KInv'
<1>1. \A t \in Sessions : Calm(ses[t], net[t], ses[t], net[t])
  BY DEF Calm, Still
<1>2. \A t \in Sessions : Calm(ses[t], net[t], ses'[t], net'[t])
  BY <1>1
<1> QED
  BY <1>2, CalmKeeps

LEMMA CalmWorld ==
  ASSUME IInv, KInv, NEW s \in Sessions, Leaves(s) \/ Breaks(s)
  PROVE  KInv'
<1>0. Shape /\ IsLink(net[s])
  BY DEF IInv, SInv
<1>1. UNCHANGED <<program, clients_, ses>>
  BY DEF Leaves, Breaks
<1>2. ASSUME NEW l, net' = [net EXCEPT ![s] = l], l.wire = net[s].wire, l.lines = net[s].lines,
             l.patient = net[s].patient
      PROVE  KInv'
  <2>1. net'[s] = l /\ \A t \in Sessions \ {s} : net'[t] = net[t]
    BY <1>0, <1>2 DEF Shape
  <2>2. Calm(ses[s], net[s], ses'[s], net'[s])
    BY <1>1, <1>2, <2>1 DEF Calm, Still
  <2> QED
    BY <1>1, <2>1, <2>2, OneCalm
<1>3. CASE Leaves(s)
  <2>1. PICK l : l = [net[s] EXCEPT !.eof = TRUE]
    OBVIOUS
  <2>2. net' = [net EXCEPT ![s] = l]
    BY <1>3, <2>1 DEF Leaves
  <2>3. l.wire = net[s].wire /\ l.lines = net[s].lines /\ l.patient = net[s].patient
    BY <1>0, <2>1 DEF IsLink
  <2> QED
    BY <1>2, <2>2, <2>3
<1>4. CASE Breaks(s)
  <2>1. PICK l : l = [net[s] EXCEPT !.link = FALSE]
    OBVIOUS
  <2>2. net' = [net EXCEPT ![s] = l]
    BY <1>4, <2>1 DEF Breaks
  <2>3. l.wire = net[s].wire /\ l.lines = net[s].lines /\ l.patient = net[s].patient
    BY <1>0, <2>1 DEF IsLink
  <2> QED
    BY <1>2, <2>2, <2>3
<1> QED
  BY <1>3, <1>4

LEMMA CalmTransmits ==
  ASSUME IInv, KInv, NEW s \in Sessions, Transmits(s)
  PROVE  KInv'
<1>0. Shape /\ IsSession(ses[s]) /\ IsLink(net[s])
  BY DEF IInv, SInv
<1>1. PICK a, b : /\ net' = [net EXCEPT ![s].got = a] /\ ses' = [ses EXCEPT ![s].writes = b]
  BY DEF Transmits
<1>2. UNCHANGED <<program, clients_>>
  BY DEF Transmits
<1>3. /\ net'[s] = [net[s] EXCEPT !.got = a] /\ ses'[s] = [ses[s] EXCEPT !.writes = b]
      /\ \A t \in Sessions \ {s} : ses'[t] = ses[t] /\ net'[t] = net[t]
  BY <1>0, <1>1 DEF Shape
<1>4. PICK q, l : q = ses'[s] /\ l = net'[s]
  OBVIOUS
<1>5. l.wire = net[s].wire /\ l.lines = net[s].lines /\ l.patient = net[s].patient
  BY <1>0, <1>3, <1>4 DEF IsLink
<1>6. /\ q.incoming = ses[s].incoming /\ q.posted = ses[s].posted
      /\ q.reading = ses[s].reading /\ q.sock = ses[s].sock
  BY <1>0, <1>3, <1>4 DEF IsSession
<1>7. Calm(ses[s], net[s], ses'[s], net'[s])
  BY <1>4, <1>5, <1>6 DEF Calm, Still
<1> QED
  BY <1>2, <1>3, <1>7, OneCalm

(* One session changes, and not its connection.                                        *)
LEMMA SessionCalm ==
  ASSUME IInv, KInv, UNCHANGED <<program, clients_, net>>, NEW s \in Sessions,
         NEW q, ses' = [ses EXCEPT ![s] = q], Calm(ses[s], net[s], q, net[s])
  PROVE  KInv'
<1>1. ses'[s] = q /\ \A t \in Sessions \ {s} : ses'[t] = ses[t] /\ net'[t] = net[t]
  BY DEF IInv, Shape
<1>2. Calm(ses[s], net[s], ses'[s], net'[s])
  BY <1>1
<1> QED
  BY <1>1, <1>2, OneCalm

LEMMA CalmWrites ==
  ASSUME IInv, KInv, NEW s \in Sessions, Chat!on_write(s) \/ Terminal!on_write(s)
  PROVE  KInv'
<1>1. UNCHANGED <<program, clients_, net>>
  BY DEF Chat!on_write, Terminal!on_write
<1>2. IsSession(ses[s])
  BY DEF IInv, SInv
<1>3. PICK p : p = [ses[s] EXCEPT !.writes = Tail(@), !.outgoing = Tail(@)]
  OBVIOUS
<1>4. PICK q : q = IF p.outgoing = << >> THEN p ELSE async_write(p)
  OBVIOUS
<1>5. ses' = [ses EXCEPT ![s] = q]
  <2>1. Chat!on_write(s) => ses' = [ses EXCEPT ![s] = q]
    BY <1>3, <1>4 DEF Chat!on_write, Chat!async_write, async_write
  <2>2. Terminal!on_write(s) => ses' = [ses EXCEPT ![s] = q]
    BY <1>3, <1>4 DEF Terminal!on_write, Terminal!async_write, async_write
  <2> QED
    BY <2>1, <2>2
<1>6. GoesOn(ses[s], q)
  BY <1>2, <1>3, <1>4, NextWriteIs
<1>7. Calm(ses[s], net[s], q, net[s])
  BY <1>6 DEF GoesOn, Calm, Still
<1> QED
  BY <1>1, <1>5, <1>7, SessionCalm

LEMMA CalmFails ==
  ASSUME IInv, KInv, NEW s \in Sessions, Terminal!on_read_error(s) \/ Terminal!on_write_error(s)
  PROVE  KInv'
<1>0. SInv(ses[s], net[s]) /\ IsSession(ses[s])
  BY DEF IInv, SInv
<1>1. UNCHANGED <<program, clients_, net>>
  BY DEF Terminal!on_read_error, Terminal!on_write_error
<1>2. CASE Terminal!on_read_error(s)
  <2>1. PICK q : q = [ses[s] EXCEPT !.reading = "none", !.sock = "closed"]
    OBVIOUS
  <2>2. ses' = [ses EXCEPT ![s] = q] /\ ses[s].reading = "wait"
    BY <1>2, <2>1 DEF Terminal!on_read_error, Terminal!ReadFails
  <2>3. Closes(ses[s], q)
    BY <1>0, <2>1, ReadErrorCloses
  <2>4. ses[s].sock # "none"
    BY <1>0, <2>2 DEF SInv, Unborn
  <2>5. Calm(ses[s], net[s], q, net[s])
    BY <2>2, <2>3, <2>4 DEF Closes, Calm, Still
  <2> QED
    BY <1>1, <2>2, <2>5, SessionCalm
<1>3. CASE Terminal!on_write_error(s)
  <2>1. PICK w : w = Tail(ses[s].writes)
    OBVIOUS
  <2>2. PICK q : q = [ses[s] EXCEPT !.writes = w]
    OBVIOUS
  <2>3. ses' = [ses EXCEPT ![s] = q]
    BY <1>3, <2>1, <2>2 DEF Terminal!on_write_error
  <2>4. /\ q.incoming = ses[s].incoming /\ q.posted = ses[s].posted
        /\ q.reading = ses[s].reading /\ q.sock = ses[s].sock
    BY <1>0, <2>2 DEF IsSession
  <2>5. Calm(ses[s], net[s], q, net[s])
    BY <2>4 DEF Calm, Still
  <2> QED
    BY <1>1, <2>3, <2>5, SessionCalm
<1> QED
  BY <1>2, <1>3

(* A member of the chat fails: the news is no text.                                    *)
LEMMA CalmError ==
  ASSUME IInv, KInv, NEW s \in Sessions, program = "chat", UNCHANGED <<program, net>>,
         NEW q, Closes(ses[s], q), ses[s].sock # "none", NEW f, OnlyAt(f, s, q), Chat!on_error(s, f)
  PROVE  KInv'
<1>0. \A t \in Sessions : IsSession(ses[t]) /\ Queue(ses[t].posted)
  BY DEF IInv, SInv
<1>1. \A t \in Sessions : Still(ses[t], net[t], f[t], net[t]) /\ f[t].posted = ses[t].posted /\ IsSession(f[t])
  BY <1>0 DEF OnlyAt, Closes, Still
<1>2. PICK m : m = Chat!Message("one_less", s, << >>)
  OBVIOUS
<1>3. m.kind # "text"
  BY <1>2 DEF Chat!Message
<1>4. \/ clients_' = clients_ \ {s} /\ ses' = Chat!post_all(f, clients_ \ {s}, m)
      \/ ses' = f /\ clients_' = clients_
  BY <1>2 DEF Chat!on_error
<1>5. ASSUME NEW t \in Sessions
      PROVE  /\ Still(ses[t], net[t], ses'[t], net'[t])
             /\ \A w \in Sessions : Told(ses[t].posted, ses'[t].posted, w)
  <2>0. PICK r : r = f[t]
    OBVIOUS
  <2>1. CASE ses'[t] = r
    BY <1>1, <2>0, <2>1 DEF Told
  <2>2. CASE ses'[t] = Chat!post(r, m)
    <3>1. After(r, m, ses'[t])
      BY <1>1, <2>0, <2>2, PostIs
    <3>2. PICK p, z : p = ses[t].posted /\ z = ses'[t].posted
      OBVIOUS
    <3>3. Queue(p) /\ z = Append(p, m)
      BY <1>0, <1>1, <2>0, <3>1, <3>2 DEF After
    <3>4. Behind(p, m, z)
      BY <3>3, Pushed
    <3>5. \A w \in Sessions : Told(p, z, w)
      BY <1>3, <3>4 DEF Told
    <3>6. Still(ses[t], net[t], ses'[t], net'[t])
      BY <1>1, <2>0, <3>1 DEF After, Still
    <3> QED
      BY <3>2, <3>5, <3>6
  <2>3. ses'[t] = r \/ ses'[t] = Chat!post(r, m)
    <3>1. PICK g : g = Chat!post_all(f, clients_ \ {s}, m)
      OBVIOUS
    <3>2. g[t] = f[t] \/ g[t] = Chat!post(f[t], m)
      BY <3>1, PostAllIs
    <3> QED
      BY <1>4, <2>0, <3>1, <3>2
  <2> QED
    BY <2>1, <2>2, <2>3
<1>6. \A t \in Sessions : Fed(ses'[t], net'[t], Inputs[program'])
  <2> SUFFICES ASSUME NEW t \in Sessions PROVE Fed(ses'[t], net'[t], Inputs[program'])
    OBVIOUS
  <2>1. Fed(ses[t], net[t], Inputs[program])
    BY DEF KInv
  <2> QED
    BY <1>5, <2>1, StillFed
<1>7. ASSUME NEW w \in Sessions PROVE Speaks(ses', net', clients_', w)
  <2>1. Speaks(ses, net, clients_, w)
    BY DEF KInv
  <2>2. \A t \in clients_' : t \in clients_ \/ ses[t].posted = << >>
    BY <1>4
  <2>3. \A t \in Sessions : Queue(ses[t].posted)
    BY <1>0
  <2>4. \A t \in Sessions : Told(ses[t].posted, ses'[t].posted, w)
    BY <1>5
  <2> QED
    BY <1>5, <2>1, <2>2, <2>3, <2>4, OthersSpeak
<1> QED
  BY <1>6, <1>7 DEF KInv

LEMMA CalmChatFails ==
  ASSUME IInv, KInv, NEW s \in Sessions, Chat!on_read_error(s) \/ Chat!on_write_error(s)
  PROVE  KInv'
  BY ErrorIs, CalmError

-----------------------------------------------------------------------------
(* Steps of the chat that move what w types.                                           *)

(* l is the connection n after its client typed x.                                     *)
Typed(n, l, x) == /\ l.lines = Append(n.lines, x)
                  /\ l.wire = n.wire \o LineBytes(Len(n.lines) + 1, x.len)

LEMMA TypesSpeak ==
  ASSUME NEW S, NEW N, NEW C, NEW s \in Sessions, Speaks(S, N, C, s), NEW I, Fed(S[s], N[s], I),
         NEW x \in I, x.len \in Nat \ {0}, NEW M, Typed(N[s], M[s], x)
  PROVE  Speaks(S, M, C, s)
<1>1. PICK a, b, L : a = S[s].incoming /\ b = N[s].wire /\ L = N[s].lines
  OBVIOUS
<1>2. a \in Seq(Bytes) /\ b \in Seq(Bytes) /\ L \in Seq(I)
  BY <1>1 DEF Fed, Speaks, Streams
<1>3. PICK B : B = Len(L)
  OBVIOUS
<1>4. PICK k : k = x.len
  OBVIOUS
<1>5. B \in Nat /\ k \in Nat \ {0} /\ B + 1 \in Nat /\ B + 2 \in Nat
  BY <1>2, <1>3, <1>4
<1>6. PICK w : w = LineBytes(B + 1, k)
  OBVIOUS
<1>7. IsLine(w, B + 1, k) /\ w \in Seq(Bytes)
  <2>1. IsLine(w, B + 1, k)
    BY <1>5, <1>6, LineBytesIs
  <2> QED
    BY <2>1 DEF IsLine
<1>8. PICK c : c = b \o w
  OBVIOUS
<1>9. Cat(b, w, c) /\ c \in Seq(Bytes)
  <2>1. Cat(b, w, c)
    BY <1>2, <1>7, <1>8, CatIs
  <2> QED
    BY <2>1 DEF Cat
<1>10. PICK f, g : f = [line |-> B + 1, at |-> 1] /\ g = [line |-> B + 2, at |-> 1]
  OBVIOUS
<1>11. f \in Bytes /\ f.line = B + 1 /\ f.at = 1 /\ g \in Bytes /\ g.line = B + 2 /\ g.at = 1
  BY <1>5, <1>10 DEF Bytes
<1>12. PICK d, e : d = (a \o b) \o <<f>> /\ e = (a \o c) \o <<g>>
  OBVIOUS
<1>13. Joined(a, b, f, d)
  BY <1>2, <1>11, <1>12, JoinedIs
<1>14. Joined(a, c, g, e)
  BY <1>2, <1>9, <1>11, <1>12, JoinedIs
<1>15. Ahead(S[s], N[s]) = d
  BY <1>1, <1>3, <1>10, <1>12 DEF Ahead
<1>16. PICK K : K = Append(L, x)
  OBVIOUS
<1>17. Len(K) + 1 = B + 2
  BY <1>2, <1>3, <1>5, <1>16
<1>18. M[s].lines = K /\ M[s].wire = c
  BY <1>1, <1>3, <1>4, <1>6, <1>8, <1>16 DEF Typed
<1>19. Ahead(S[s], M[s]) = e
  BY <1>1, <1>10, <1>12, <1>17, <1>18 DEF Ahead
<1>20. InOrder(L, d)
  BY <1>1, <1>15 DEF Speaks, Streams
<1>21. InOrder(K, e) /\ e[1] = d[1]
  <2>1. Longer(L, x, B, k, a, b, w, c, f, g, d, e)
    BY <1>2, <1>3, <1>4, <1>5, <1>7, <1>9, <1>11, <1>13, <1>14 DEF Longer
  <2>2. InOrder(Append(L, x), e) /\ e[1] = d[1]
    BY <1>2, <1>20, <2>1, AheadTypes
  <2> QED
    BY <1>16, <2>2
<1>22. Streams(S[s], M[s])
  BY <1>1, <1>2, <1>9, <1>18, <1>19, <1>21 DEF Speaks, Streams
<1>23. ASSUME NEW t \in Sessions
       PROVE  Heard(S[t].posted, s, K) /\ (t \in C => Awaits(S[t].posted, s, K, e[1]))
  <2>1. PICK p : p = S[t].posted
    OBVIOUS
  <2>2. Heard(p, s, L) /\ (t \in C => Awaits(p, s, L, d[1]))
    BY <1>1, <1>15, <2>1 DEF Speaks
  <2>3. Heard(p, s, K)
    BY <1>2, <1>16, <2>2, HeardStill
  <2>4. Awaits(p, s, L, d[1]) => Awaits(p, s, K, d[1])
    BY <1>2, <1>16, <2>2, AwaitsStill
  <2> QED
    BY <1>21, <2>1, <2>2, <2>3, <2>4
<1> QED
  BY <1>18, <1>19, <1>22, <1>23 DEF Speaks

(* q and l are r and n after k bytes were read.                                        *)
Moved(r, n, q, l, k) == /\ q.incoming = r.incoming \o SubSeq(n.wire, 1, k)
                        /\ l.wire = SubSeq(n.wire, k + 1, Len(n.wire))
                        /\ l.lines = n.lines /\ l.patient = n.patient

LEMMA ReadsSpeak ==
  ASSUME NEW S, NEW N, NEW C, NEW s \in Sessions, Speaks(S, N, C, s), NEW I, Fed(S[s], N[s], I),
         NEW T, NEW M, NEW k \in 0 .. Len(N[s].wire), Moved(S[s], N[s], T[s], M[s], k),
         T[s].incoming # << >>, T[s].sock # "none",
         \A t \in Sessions : T[t].posted = S[t].posted
  PROVE  Speaks(T, M, C, s) /\ Fed(T[s], M[s], I)
<1>1. PICK a, b, L : a = S[s].incoming /\ b = N[s].wire /\ L = N[s].lines
  OBVIOUS
<1>2. a \in Seq(Bytes) /\ b \in Seq(Bytes) /\ k \in 0 .. Len(b)
  BY <1>1 DEF Speaks, Streams
<1>3. PICK u, v : u = T[s].incoming /\ v = M[s].wire
  OBVIOUS
<1>4. u = a \o SubSeq(b, 1, k) /\ v = SubSeq(b, k + 1, Len(b))
  BY <1>1, <1>3 DEF Moved
<1>5. u \in Seq(Bytes) /\ v \in Seq(Bytes) /\ u \o v = a \o b
  BY <1>2, <1>4, AheadReads
<1>6. M[s].lines = L /\ M[s].patient = N[s].patient
  BY <1>1 DEF Moved
<1>7. Ahead(T[s], M[s]) = Ahead(S[s], N[s])
  BY <1>1, <1>3, <1>5, <1>6 DEF Ahead
<1>8. Streams(T[s], M[s])
  BY <1>1, <1>3, <1>5, <1>6, <1>7 DEF Speaks, Streams
<1>9. Fed(T[s], M[s], I)
  BY <1>1, <1>6 DEF Fed
<1>10. \A t \in Sessions : /\ Heard(T[t].posted, s, M[s].lines)
                           /\ t \in C => Awaits(T[t].posted, s, M[s].lines, Ahead(T[s], M[s])[1])
  BY <1>1, <1>6, <1>7 DEF Speaks
<1> QED
  BY <1>8, <1>9, <1>10 DEF Speaks

(* The server takes all that it read from s, and posts it to the members.              *)
LEMMA TakesSpeak ==
  ASSUME NEW S, NEW N, NEW C, NEW s \in Sessions, Speaks(S, N, C, s), NEW I, Fed(S[s], N[s], I),
         S[s].incoming # << >>, \A t \in Sessions : Queue(S[t].posted),
         NEW m, m.kind = "text", m.who = s, m.text = S[s].incoming,
         NEW T, T[s].incoming = << >>, T[s].reading # "done",
         \A t \in Sessions : /\ t \in C => Behind(S[t].posted, m, T[t].posted)
                             /\ t \notin C => T[t].posted = S[t].posted
  PROVE  Speaks(T, N, C, s)
<1>1. PICK a, b, L : a = S[s].incoming /\ b = N[s].wire /\ L = N[s].lines
  OBVIOUS
<1>2. a \in Seq(Bytes) /\ b \in Seq(Bytes) /\ L \in Seq(I) /\ a # << >>
  BY <1>1 DEF Fed, Speaks, Streams
<1>3. PICK f : f = [line |-> Len(L) + 1, at |-> 1]
  OBVIOUS
<1>4. f \in Bytes
  BY <1>2, <1>3 DEF Bytes
<1>5. PICK z : z = << >>
  OBVIOUS
<1>6. z \in Seq(Bytes)
  BY <1>5
<1>7. PICK d, e : d = (a \o b) \o <<f>> /\ e = (z \o b) \o <<f>>
  OBVIOUS
<1>8. Joined(a, b, f, d)
  BY <1>2, <1>4, <1>7, JoinedIs
<1>9. Joined(z, b, f, e)
  BY <1>2, <1>4, <1>6, <1>7, JoinedIs
<1>10. Ahead(S[s], N[s]) = d /\ Ahead(T[s], N[s]) = e
  BY <1>1, <1>3, <1>5, <1>7 DEF Ahead
<1>11. InOrder(L, d)
  BY <1>1, <1>10 DEF Speaks, Streams
<1>12. IsText(L, a) /\ InOrder(L, e) /\ d[1] = a[1] /\ Chat!Follows(L, a[Len(a)], e[1])
  BY <1>2, <1>5, <1>8, <1>9, <1>11, AheadTaken
<1>13. Streams(T[s], N[s])
  BY <1>1, <1>2, <1>5, <1>6, <1>10, <1>12 DEF Streams
<1>14. ASSUME NEW t \in Sessions
       PROVE  Heard(T[t].posted, s, L) /\ (t \in C => Awaits(T[t].posted, s, L, e[1]))
  <2>1. PICK p, y : p = S[t].posted /\ y = T[t].posted
    OBVIOUS
  <2>2. Heard(p, s, L) /\ (t \in C => Awaits(p, s, L, d[1])) /\ Queue(p)
    BY <1>1, <1>10, <2>1 DEF Speaks
  <2>3. CASE t \in C
    <3>1. Behind(p, m, y) /\ Awaits(p, s, L, m.text[1]) /\ IsText(L, m.text)
      BY <1>1, <1>12, <2>1, <2>2, <2>3
    <3>2. PICK c : c = e[1]
      OBVIOUS
    <3>3. Chat!Follows(L, m.text[Len(m.text)], c)
      BY <1>1, <1>12, <3>2
    <3>4. Heard(y, s, L) /\ Awaits(y, s, L, c)
      BY <2>2, <3>1, <3>3, HeardText
    <3> QED
      BY <2>1, <3>2, <3>4
  <2>4. CASE t \notin C
    BY <2>1, <2>2, <2>4
  <2> QED
    BY <2>3, <2>4
<1> QED
  BY <1>1, <1>10, <1>13, <1>14 DEF Speaks

LEMMA TypedIs ==
  ASSUME IInv, KInv, NEW s \in Sessions, Types(s)
  PROVE  /\ UNCHANGED <<program, clients_, ses>> /\ \A t \in Sessions \ {s} : net'[t] = net[t]
         /\ net'[s].patient \in BOOLEAN /\ (net'[s].patient => net[s].patient /\ Answered(s))
         /\ \E x \in Inputs[program] : x.len \in Nat \ {0} /\ Typed(net[s], net'[s], x)
<1>0. Shape /\ IsLink(net[s]) /\ Fed(ses[s], net[s], Inputs[program])
  BY DEF IInv, SInv, KInv
<1>1. PICK x \in Inputs[program] :
        net' = [net EXCEPT ![s].lines = Append(@, x),
                           ![s].wire = @ \o LineBytes(Len(net[s].lines) + 1, x.len),
                           ![s].patient = @ /\ Answered(s)]
  BY DEF Types
<1>2. UNCHANGED <<program, clients_, ses>>
  BY DEF Types
<1>3. PICK a, b, c : /\ a = Append(net[s].lines, x)
                     /\ b = net[s].wire \o LineBytes(Len(net[s].lines) + 1, x.len)
                     /\ c = (net[s].patient /\ Answered(s))
  OBVIOUS
<1>4. net' = [net EXCEPT ![s].lines = a, ![s].wire = b, ![s].patient = c]
  BY <1>1, <1>3
<1>5. /\ \A t \in Sessions \ {s} : net'[t] = net[t]
      /\ net'[s] = [net[s] EXCEPT !.lines = a, !.wire = b, !.patient = c]
  BY <1>0, <1>4 DEF Shape
<1>6. PICK l : l = net'[s]
  OBVIOUS
<1>7. l.lines = a /\ l.wire = b /\ l.patient = c
  BY <1>0, <1>5, <1>6 DEF IsLink
<1>8. Typed(net[s], l, x)
  BY <1>3, <1>7 DEF Typed
<1>9. c \in BOOLEAN
  BY <1>0, <1>3, Zenon DEF Fed
<1>10. x.len \in Nat \ {0}
  BY LineAssumption DEF IInv, Shape
<1>11. l.patient => net[s].patient /\ Answered(s)
  BY <1>3, <1>7, Zenon
<1> QED
  BY <1>2, <1>5, <1>6, <1>7, <1>8, <1>9, <1>10, <1>11

LEMMA TypedFed ==
  ASSUME NEW r, NEW n, NEW I, Fed(r, n, I), NEW x \in I, NEW l, l.patient \in BOOLEAN, Typed(n, l, x)
  PROVE  Fed(r, l, I)
<1>1. l.lines \in Seq(I)
  BY DEF Typed, Fed
<1> QED
  BY <1>1 DEF Fed

LEMMA ChatTypes ==
  ASSUME IInv, KInv, NEW s \in Sessions, Types(s), program = "chat"
  PROVE  KInv'
<1>0. \A t \in Sessions : Queue(ses[t].posted) /\ Fed(ses[t], net[t], Inputs[program])
  BY DEF IInv, SInv, KInv
<1>1. /\ UNCHANGED <<program, clients_, ses>> /\ \A t \in Sessions \ {s} : net'[t] = net[t]
      /\ net'[s].patient \in BOOLEAN
  BY TypedIs
<1>2. PICK x \in Inputs[program] : x.len \in Nat \ {0} /\ Typed(net[s], net'[s], x)
  BY TypedIs
<1>3. Fed(ses[s], net'[s], Inputs[program])
  <2>1. PICK r, n, l, I : r = ses[s] /\ n = net[s] /\ l = net'[s] /\ I = Inputs[program]
    OBVIOUS
  <2>2. Fed(r, n, I) /\ x \in I /\ l.patient \in BOOLEAN /\ Typed(n, l, x)
    BY <1>0, <1>1, <1>2, <2>1
  <2>3. Fed(r, l, I)
    BY <2>2, TypedFed
  <2> QED
    BY <2>1, <2>3
<1>4. \A t \in Sessions : Fed(ses'[t], net'[t], Inputs[program'])
  BY <1>0, <1>1, <1>3
<1>5. ASSUME NEW w \in Sessions PROVE Speaks(ses, net', clients_, w)
  <2>1. PICK S, N, C, M, I : S = ses /\ N = net /\ C = clients_ /\ M = net' /\ I = Inputs[program]
    OBVIOUS
  <2>2. Speaks(S, N, C, w)
    BY <2>1 DEF KInv
  <2>3. CASE w = s
    <3>1. Fed(S[s], N[s], I) /\ x \in I /\ x.len \in Nat \ {0} /\ Typed(N[s], M[s], x)
      BY <1>0, <1>2, <2>1
    <3>2. Speaks(S, M, C, s)
      BY <2>2, <2>3, <3>1, TypesSpeak
    <3> QED
      BY <2>1, <2>3, <3>2
  <2>4. CASE w # s
    <3>1. Still(S[w], N[w], S[w], M[w])
      BY <1>1, <2>1, <2>4 DEF Still
    <3>2. \A t \in Sessions : Queue(S[t].posted) /\ Told(S[t].posted, S[t].posted, w)
      BY <1>0, <2>1 DEF Told
    <3>3. \A t \in C : t \in C \/ S[t].posted = << >>
      OBVIOUS
    <3>4. Speaks(S, M, C, w)
      BY <2>2, <3>1, <3>2, <3>3, OthersSpeak
    <3> QED
      BY <2>1, <3>4
  <2> QED
    BY <2>3, <2>4
<1> QED
  BY <1>1, <1>4, <1>5 DEF KInv

(* What an asynchronous read changes.                                                  *)
LEMMA MovedIs ==
  ASSUME IInv, KInv, NEW s \in Sessions, NEW k \in 0 .. Len(net[s].wire), ReadsUntil(s, k)
  PROVE  /\ UNCHANGED <<program, clients_>> /\ ses[s].reading = "wait"
         /\ \A t \in Sessions \ {s} : ses'[t] = ses[t] /\ net'[t] = net[t]
         /\ Moved(ses[s], net[s], ses'[s], net'[s], k)
         /\ ses'[s].posted = ses[s].posted /\ ses'[s].sock = ses[s].sock /\ ses'[s].sock # "none"
         /\ ses'[s].reading = "done"
         /\ HasLine(s, ses'[s].incoming)
<1>0. Shape /\ SInv(ses[s], net[s]) /\ IsLink(net[s]) /\ IsSession(ses[s])
  BY DEF IInv, SInv
<1>1. PICK a, b : a = ses[s].incoming \o SubSeq(net[s].wire, 1, k) /\ b = SubSeq(net[s].wire, k + 1, Len(net[s].wire))
  OBVIOUS
<1>2. /\ ses' = [ses EXCEPT ![s].reading = "done", ![s].incoming = a]
      /\ net' = [net EXCEPT ![s].wire = b]
  BY <1>1 DEF ReadsUntil
<1>3. UNCHANGED <<program, clients_>> /\ ses[s].reading = "wait" /\ HasLine(s, a)
  BY <1>1 DEF ReadsUntil
<1>4. /\ \A t \in Sessions \ {s} : ses'[t] = ses[t] /\ net'[t] = net[t]
      /\ net'[s] = [net[s] EXCEPT !.wire = b]
      /\ ses'[s] = [ses[s] EXCEPT !.reading = "done", !.incoming = a]
  BY <1>0, <1>2 DEF Shape
<1>5. PICK q, l : q = ses'[s] /\ l = net'[s]
  OBVIOUS
<1>6. l.wire = b /\ l.lines = net[s].lines /\ l.patient = net[s].patient
  BY <1>0, <1>4, <1>5 DEF IsLink
<1>7. q.incoming = a /\ q.posted = ses[s].posted /\ q.sock = ses[s].sock /\ q.reading = "done"
  BY <1>0, <1>4, <1>5 DEF IsSession
<1>8. ses[s].sock # "none"
  BY <1>0, <1>3 DEF SInv, Unborn
<1>9. Moved(ses[s], net[s], q, l, k)
  BY <1>1, <1>6, <1>7 DEF Moved
<1> QED
  BY <1>3, <1>4, <1>5, <1>7, <1>8, <1>9

LEMMA ChatMoves ==
  ASSUME IInv, KInv, NEW s \in Sessions, NEW k \in 0 .. Len(net[s].wire), ReadsUntil(s, k),
         program = "chat"
  PROVE  KInv'
<1>0. \A t \in Sessions : Queue(ses[t].posted) /\ Fed(ses[t], net[t], Inputs[program])
  BY DEF IInv, SInv, KInv
<1>1. /\ UNCHANGED <<program, clients_>>
      /\ \A t \in Sessions \ {s} : ses'[t] = ses[t] /\ net'[t] = net[t]
      /\ Moved(ses[s], net[s], ses'[s], net'[s], k)
      /\ ses'[s].posted = ses[s].posted /\ ses'[s].sock # "none"
      /\ HasLine(s, ses'[s].incoming)
  BY MovedIs
<1>2. ses'[s].incoming # << >>
  BY <1>1, NoMessage DEF HasLine
<1>3. PICK S, N, C, T, M, I : S = ses /\ N = net /\ C = clients_ /\ T = ses' /\ M = net' /\ I = Inputs[program]
  OBVIOUS
<1>4. \A w \in Sessions : Speaks(S, N, C, w)
  BY <1>3 DEF KInv
<1>5. \A t \in Sessions : T[t].posted = S[t].posted
  BY <1>1, <1>3
<1>6. Speaks(T, M, C, s) /\ Fed(T[s], M[s], I)
  <2>1. Speaks(S, N, C, s) /\ Fed(S[s], N[s], I)
    BY <1>0, <1>3, <1>4
  <2>2. k \in 0 .. Len(N[s].wire) /\ Moved(S[s], N[s], T[s], M[s], k)
    BY <1>1, <1>3
  <2>3. T[s].incoming # << >> /\ T[s].sock # "none"
    BY <1>1, <1>2, <1>3
  <2> QED
    BY <1>5, <2>1, <2>2, <2>3, ReadsSpeak
<1>7. ASSUME NEW w \in Sessions, w # s PROVE Speaks(T, M, C, w)
  <2>1. Still(S[w], N[w], T[w], M[w])
    BY <1>1, <1>3, <1>7 DEF Still
  <2>2. \A t \in Sessions : Queue(S[t].posted) /\ Told(S[t].posted, T[t].posted, w)
    BY <1>0, <1>3, <1>5 DEF Told
  <2>3. \A t \in C : t \in C \/ S[t].posted = << >>
    OBVIOUS
  <2> QED
    BY <1>4, <2>1, <2>2, <2>3, OthersSpeak
<1>8. \A t \in Sessions : Fed(T[t], M[t], I)
  BY <1>0, <1>1, <1>3, <1>6
<1> QED
  BY <1>1, <1>3, <1>6, <1>7, <1>8 DEF KInv

(* q is the session r, waiting for a line with an empty streambuf.                     *)
Emptied(r, q) == q.incoming = << >> /\ q.reading = "wait" /\ q.posted = r.posted /\ q.sock = r.sock

LEMMA EmptiedIs ==
  ASSUME NEW r, IsSession(r), NEW e, e = << >>
  PROVE  Emptied(r, [r EXCEPT !.reading = "wait", !.incoming = e])
<1>1. PICK q : q = [r EXCEPT !.reading = "wait", !.incoming = e]
  OBVIOUS
<1>2. q.incoming = e /\ q.reading = "wait" /\ q.posted = r.posted /\ q.sock = r.sock
  BY <1>1 DEF IsSession
<1> QED
  BY <1>1, <1>2 DEF Emptied

(* Somebody who gets a message.                                                        *)
LEMMA PostedIs ==
  ASSUME NEW r, NEW n, SInv(r, n), NEW m, NEW q, q = Chat!post(r, m)
  PROVE  /\ IsSession(q) /\ q.sock = r.sock /\ q.incoming = r.incoming /\ q.reading = r.reading
         /\ Behind(r.posted, m, q.posted)
<1>1. After(r, m, q)
  BY PostIs DEF SInv
<1>2. PICK p, z : p = r.posted /\ z = q.posted
  OBVIOUS
<1>3. Queue(p) /\ z = Append(p, m)
  BY <1>1, <1>2 DEF SInv, After
<1>4. Behind(p, m, z)
  BY <1>3, Pushed
<1> QED
  BY <1>1, <1>2, <1>4 DEF After

LEMMA ChatTakes ==
  ASSUME IInv, KInv, NEW s \in Sessions, Chat!on_read(s)
  PROVE  KInv'
<1>0. \A t \in Sessions : /\ SInv(ses[t], net[t]) /\ IsSession(ses[t]) /\ Queue(ses[t].posted)
                          /\ Fed(ses[t], net[t], Inputs[program])
  BY DEF IInv, SInv, KInv
<1>1. /\ program = "chat" /\ ses[s].reading = "done" /\ UNCHANGED <<program, clients_, net>>
  BY DEF Chat!on_read
<1>2. PICK m : m = Chat!Message("text", s, ses[s].incoming)
  OBVIOUS
<1>a. m.kind = "text" /\ m.who = s /\ m.text = ses[s].incoming
  BY <1>2 DEF Chat!Message
<1>3. PICK g : g = Chat!post_all(ses, clients_, m)
  OBVIOUS
<1>4. PICK e : e = << >>
  OBVIOUS
<1>5. ses' = [g EXCEPT ![s].reading = "wait", ![s].incoming = e]
  BY <1>2, <1>3, <1>4 DEF Chat!on_read
<1>6. /\ g = [t \in Sessions |-> g[t]]
      /\ \A t \in Sessions : /\ t \in clients_ => g[t] = Chat!post(ses[t], m)
                             /\ t \notin clients_ => g[t] = ses[t]
  BY <1>3, PostAllIs
<1>7. /\ \A t \in Sessions \ {s} : ses'[t] = g[t]
      /\ ses'[s] = [g[s] EXCEPT !.reading = "wait", !.incoming = e]
  BY <1>5, <1>6
<1>8. ASSUME NEW t \in Sessions
      PROVE  /\ IsSession(g[t]) /\ g[t].sock = ses[t].sock /\ g[t].incoming = ses[t].incoming
             /\ g[t].reading = ses[t].reading
             /\ t \in clients_ => Behind(ses[t].posted, m, g[t].posted)
             /\ t \notin clients_ => g[t].posted = ses[t].posted
  <2>1. CASE t \in clients_
    <3>1. PICK r, n, q : r = ses[t] /\ n = net[t] /\ q = g[t]
      OBVIOUS
    <3>2. SInv(r, n) /\ q = Chat!post(r, m)
      BY <1>0, <1>6, <2>1, <3>1
    <3>3. /\ IsSession(q) /\ q.sock = r.sock /\ q.incoming = r.incoming /\ q.reading = r.reading
          /\ Behind(r.posted, m, q.posted)
      BY <3>2, PostedIs
    <3> QED
      BY <2>1, <3>1, <3>3
  <2>2. CASE t \notin clients_
    BY <1>0, <1>6, <2>2
  <2> QED
    BY <2>1, <2>2
<1>9. Emptied(g[s], ses'[s])
  <2>1. PICK r : r = g[s]
    OBVIOUS
  <2>2. IsSession(r) /\ ses'[s] = [r EXCEPT !.reading = "wait", !.incoming = e]
    BY <1>7, <1>8, <2>1
  <2>3. Emptied(r, [r EXCEPT !.reading = "wait", !.incoming = e])
    BY <1>4, <2>2, EmptiedIs
  <2> QED
    BY <2>1, <2>2, <2>3
<1>10. PICK S, N, C, T, I : S = ses /\ N = net /\ C = clients_ /\ T = ses' /\ I = Inputs[program]
  OBVIOUS
<1>11. \A w \in Sessions : Speaks(S, N, C, w)
  BY <1>1, <1>10 DEF KInv
<1>12. \A t \in Sessions : /\ Queue(S[t].posted)
                           /\ t \in C => Behind(S[t].posted, m, T[t].posted)
                           /\ t \notin C => T[t].posted = S[t].posted
  BY <1>0, <1>7, <1>8, <1>9, <1>10 DEF Emptied
<1>13. Speaks(T, N, C, s)
  <2>1. Speaks(S, N, C, s) /\ Fed(S[s], N[s], I)
    BY <1>0, <1>10, <1>11
  <2>2. S[s].incoming # << >>
    BY <1>1, <1>10, <2>1 DEF Speaks, Streams
  <2>3. m.text = S[s].incoming /\ T[s].incoming = << >> /\ T[s].reading # "done"
    BY <1>a, <1>9, <1>10 DEF Emptied
  <2> QED
    BY <1>a, <1>12, <2>1, <2>2, <2>3, TakesSpeak
<1>14. ASSUME NEW w \in Sessions, w # s PROVE Speaks(T, N, C, w) /\ Fed(T[w], N[w], I)
  <2>1. Still(S[w], N[w], T[w], N[w])
    BY <1>7, <1>8, <1>10, <1>14 DEF Still
  <2>2. \A t \in Sessions : Told(S[t].posted, T[t].posted, w)
    BY <1>a, <1>12, <1>14 DEF Told
  <2>3. \A t \in C : t \in C \/ S[t].posted = << >>
    OBVIOUS
  <2>4. \A t \in Sessions : Queue(S[t].posted)
    BY <1>12
  <2>5. Speaks(T, N, C, w)
    BY <1>11, <2>1, <2>2, <2>3, <2>4, OthersSpeak
  <2>6. Fed(S[w], N[w], I)
    BY <1>0, <1>10
  <2>7. Fed(T[w], N[w], I)
    BY <2>1, <2>6, StillFed
  <2> QED
    BY <2>5, <2>7
<1>15. Fed(T[s], N[s], I)
  <2>1. Fed(S[s], N[s], I) /\ T[s].incoming = << >>
    BY <1>0, <1>9, <1>10 DEF Emptied
  <2> QED
    BY <2>1 DEF Fed
<1>16. \A w \in Sessions : Speaks(T, N, C, w) /\ Fed(T[w], N[w], I)
  BY <1>13, <1>14, <1>15
<1> QED
  BY <1>1, <1>10, <1>16 DEF KInv

LEMMA FreshEmpty ==
  ASSUME NEW state, NEW k, NEW r, r = Fresh(state, k)
  PROVE  r.incoming = << >>
<1>1. PICK e : e = << >>
  OBVIOUS
<1>2. r = [sock |-> state, incoming |-> e, reading |-> "none", outgoing |-> e,
           writes |-> e, posted |-> e, known |-> k]
  BY <1>1 DEF Fresh
<1>3. r \in [sock : {state}, incoming : {e}, reading : {"none"}, outgoing : {e},
             writes : {e}, posted : {e}, known : {k}]
  BY <1>2
<1>4. r.incoming = e
  BY <1>3
<1> QED
  BY <1>1, <1>4

(* The newcomer, greeted.                                                              *)
LEMMA GreetedIs ==
  ASSUME NEW n, IsLink(n), n.got = << >>, NEW state \in {"open", "closed"}, NEW k, NEW m,
         NEW q, q = Chat!start(Chat!post(Fresh(state, k), m))
  PROVE  /\ q.sock = state /\ q.incoming = << >> /\ q.reading = "wait"
         /\ Behind(<< >>, m, q.posted)
<1>1. PICK r : r = Fresh(state, k)
  OBVIOUS
<1>2. SInv(r, n) /\ r.sock = state /\ r.posted = << >>
  BY <1>1, FreshKeeps
<1>3. r.incoming = << >>
  BY <1>1, FreshEmpty
<1>4. PICK v : v = Chat!post(r, m)
  OBVIOUS
<1>5. /\ IsSession(v) /\ v.sock = r.sock /\ v.incoming = r.incoming
      /\ Behind(r.posted, m, v.posted)
  BY <1>2, <1>4, PostedIs
<1>6. q = [v EXCEPT !.reading = "wait"]
  BY <1>1, <1>4 DEF Chat!start
<1>7. q.sock = v.sock /\ q.incoming = v.incoming /\ q.reading = "wait" /\ q.posted = v.posted
  BY <1>5, <1>6 DEF IsSession
<1> QED
  BY <1>2, <1>3, <1>5, <1>7

LEMMA ChatGreets ==
  ASSUME IInv, KInv, NEW s \in Sessions, Chat!async_server_accept(s)
  PROVE  KInv'
<1>0. \A t \in Sessions : /\ SInv(ses[t], net[t]) /\ Queue(ses[t].posted)
                          /\ Fed(ses[t], net[t], Inputs[program])
  BY DEF IInv, SInv, KInv
<1>1. program = "chat" /\ ses[s].sock = "none" /\ UNCHANGED <<program, net>> /\ clients_' = clients_ \union {s}
  <2>1. Chat!Accepted(s, "chat") /\ UNCHANGED <<program, net>> /\ clients_' = clients_ \union {s}
    BY DEF Chat!async_server_accept
  <2>2. program = "chat" /\ ((ses[s].sock = "none") <=> s >= s)
    BY <2>1, SameNames DEF Chat!Accepted
  <2>3. s >= s
    BY DEF Sessions
  <2> QED
    BY <2>1, <2>2, <2>3
<1>2. PICK d : d = Chat!Cardinality(clients_) + 1
  OBVIOUS
<1>3. PICK m, c : m = Chat!Message("newcomer", s, << >>) /\ c = Chat!Message("welcome", s, << >>)
  OBVIOUS
<1>4. m.kind # "text" /\ c.kind # "text"
  BY <1>3 DEF Chat!Message
<1>5. PICK g : g = Chat!post_all(ses, clients_, m)
  OBVIOUS
<1>6. PICK state \in {"open", "closed"} :
        ses' = [g EXCEPT ![s] = Chat!start(Chat!post(Fresh(state, d), c))]
  <2>1. PICK state \in {"open", "closed"} :
          ses' = [g EXCEPT ![s] = Chat!start(Chat!post([NewSession EXCEPT !.sock = state, !.known = d], c))]
    <3>1. Chat!NewSession = NewSession
      BY DEF Chat!NewSession, NewSession
    <3> QED
      BY <1>2, <1>3, <1>5, <3>1 DEF Chat!async_server_accept
  <2>2. [NewSession EXCEPT !.sock = state, !.known = d] = Fresh(state, d)
    BY FreshIs
  <2> QED
    BY <2>1, <2>2
<1>7. PICK q : q = Chat!start(Chat!post(Fresh(state, d), c))
  OBVIOUS
<1>8. q.sock = state /\ q.incoming = << >> /\ q.reading = "wait" /\ Behind(<< >>, c, q.posted)
  <2>1. PICK n : n = net[s]
    OBVIOUS
  <2>2. IsLink(n) /\ n.got = << >>
    BY <1>0, <1>1, <2>1, UnbornKnows
  <2> QED
    BY <1>7, <2>2, GreetedIs
<1>9. /\ g = [t \in Sessions |-> g[t]]
      /\ \A t \in Sessions : /\ t \in clients_ => g[t] = Chat!post(ses[t], m)
                             /\ t \notin clients_ => g[t] = ses[t]
  BY <1>5, PostAllIs
<1>10. ses'[s] = q /\ \A t \in Sessions \ {s} : ses'[t] = g[t]
  <2>1. ses' = [g EXCEPT ![s] = q]
    BY <1>6, <1>7
  <2> QED
    BY <1>9, <2>1
<1>11. ses[s].incoming = << >> /\ ses[s].posted = << >>
  BY <1>0, <1>1 DEF Fed, SInv, Unborn
<1>12. PICK S, N, C, T, D, I :
         S = ses /\ N = net /\ C = clients_ /\ T = ses' /\ D = clients_' /\ I = Inputs[program]
  OBVIOUS
<1>13. Told(S[s].posted, T[s].posted, s) /\ \A w \in Sessions : Told(S[s].posted, T[s].posted, w)
  BY <1>4, <1>8, <1>10, <1>11, <1>12 DEF Told
<1>14. ASSUME NEW t \in Sessions
       PROVE  /\ (t # s => Still(S[t], N[t], T[t], N[t]))
              /\ \A w \in Sessions : Told(S[t].posted, T[t].posted, w)
  <2>1. CASE t = s
    BY <1>13, <2>1
  <2>2. CASE t # s /\ t \notin clients_
    BY <1>9, <1>10, <1>12, <2>2 DEF Still, Told
  <2>3. CASE t # s /\ t \in clients_
    <3>1. PICK r, n, z : r = ses[t] /\ n = net[t] /\ z = ses'[t]
      OBVIOUS
    <3>2. SInv(r, n) /\ z = Chat!post(r, m)
      BY <1>0, <1>9, <1>10, <2>3, <3>1
    <3>3. /\ z.sock = r.sock /\ z.incoming = r.incoming /\ z.reading = r.reading
          /\ Behind(r.posted, m, z.posted)
      BY <3>2, PostedIs
    <3>4. Still(r, n, z, n)
      BY <3>3 DEF Still
    <3>5. \A w \in Sessions : Told(r.posted, z.posted, w)
      BY <1>4, <3>3 DEF Told
    <3> QED
      BY <1>12, <3>1, <3>4, <3>5
  <2> QED
    BY <2>1, <2>2, <2>3
<1>15. Still(S[s], N[s], T[s], N[s])
  BY <1>8, <1>10, <1>11, <1>12 DEF Still
<1>16. ASSUME NEW w \in Sessions PROVE Speaks(T, N, D, w) /\ Fed(T[w], N[w], I)
  <2>1. Speaks(S, N, C, w) /\ Fed(S[w], N[w], I)
    BY <1>0, <1>1, <1>12 DEF KInv
  <2>2. Still(S[w], N[w], T[w], N[w])
    BY <1>14, <1>15
  <2>3. \A t \in Sessions : Told(S[t].posted, T[t].posted, w)
    BY <1>14
  <2>4. \A t \in Sessions : Queue(S[t].posted)
    BY <1>0, <1>12
  <2>5. \A t \in D : t \in C \/ S[t].posted = << >>
    BY <1>1, <1>11, <1>12
  <2>6. Fed(T[w], N[w], I)
    BY <2>1, <2>2, StillFed
  <2>7. Speaks(T, N, D, w)
    BY <2>1, <2>2, <2>3, <2>4, <2>5, OthersSpeak
  <2> QED
    BY <2>6, <2>7
<1> QED
  BY <1>1, <1>12, <1>16 DEF KInv

-----------------------------------------------------------------------------
(* The answers of the terminal server.                                                 *)

LEMMA GivenSame ==
  ASSUME NEW p, NEW L, NEW k, Given(p, L, k), NEW M, \A c \in 1 .. k : M[c] = L[c]
  PROVE  Given(p, M, k)
  BY DEF Given

(* A client that has got the welcome only.                                             *)
LEMMA GivenNothing ==
  ASSUME NEW p, p = << >>, NEW m, NEW z, Behind(p, m, z), NEW L, NEW k, Given(p, L, k)
  PROVE  Given(z, L, k)
<1>1. Len(p) = 0
  BY NoMessage
<1>2. Len(z) = 1
  BY <1>1 DEF Behind
<1>3. 2 .. Len(p) = {} /\ 2 .. Len(z) = {}
  BY <1>1, <1>2
<1> QED
  BY <1>3 DEF Given

(* An empty line.                                                                      *)
LEMMA GivenSkips ==
  ASSUME NEW p, NEW L, NEW k \in Nat, Given(p, L, k), ~(L[k + 1].len > 1)
  PROVE  Given(p, L, k + 1)
<1>1. \A c : c \in 1 .. k + 1 <=> c \in 1 .. k \/ c = k + 1
  OBVIOUS
<1>2. \A m \in 2 .. Len(p) : \E c \in 1 .. k + 1 : L[c].len > 1 /\ p[m].text = LineBytes(c, L[c].len)
  BY <1>1 DEF Given
<1>3. \A m, j \in 2 .. Len(p) : m < j => p[m].text[1].line < p[j].text[1].line
  BY DEF Given
<1>4. \A c \in 1 .. k + 1 : L[c].len > 1 => \E m \in 2 .. Len(p) : p[m].text = LineBytes(c, L[c].len)
  BY <1>1 DEF Given
<1> QED
  BY <1>2, <1>3, <1>4 DEF Given

LEMMA FirstByte ==
  ASSUME NEW c \in Nat, NEW k \in Nat, k > 1
  PROVE  LineBytes(c, k)[1].line = c
<1>1. IsLine(LineBytes(c, k), c, k)
  BY LineBytesIs
<1>2. 1 \in 1 .. k
  OBVIOUS
<1> QED
  BY <1>1, <1>2 DEF IsLine

(* A command, and the answer to it.                                                    *)
LEMMA GivenAnswers ==
  ASSUME NEW p, Queue(p), p # << >>, NEW m, NEW z, Behind(p, m, z), NEW L, NEW k \in Nat,
         Given(p, L, k), \A c \in 1 .. k + 1 : L[c].len \in Nat,
         L[k + 1].len > 1, m.text = LineBytes(k + 1, L[k + 1].len)
  PROVE  Given(z, L, k + 1)
<1>1. PICK n : n = Len(p)
  OBVIOUS
<1>2. n \in Nat /\ n >= 1
  BY <1>1, QueueIs
<1>3. Len(z) = n + 1 /\ z[n + 1] = m /\ \A i \in 1 .. n : z[i] = p[i]
  BY <1>1 DEF Behind
<1>4. \A i : i \in 2 .. Len(z) <=> i \in 2 .. n \/ i = n + 1
  BY <1>2, <1>3
<1>5. \A i \in 2 .. n : z[i] = p[i] /\ i \in Nat /\ i < n + 1
  BY <1>2, <1>3
<1>6. \A c : c \in 1 .. k + 1 <=> c \in 1 .. k \/ c = k + 1
  OBVIOUS
<1>7. k + 1 \in 1 .. k + 1 /\ k + 1 \in Nat /\ L[k + 1].len \in Nat
  BY <1>6
<1>8. m.text[1].line = k + 1
  BY <1>7, FirstByte
<1>9. ASSUME NEW i \in 2 .. n
      PROVE  /\ \E c \in 1 .. k : L[c].len > 1 /\ z[i].text = LineBytes(c, L[c].len)
             /\ z[i].text[1].line < k + 1
  <2>1. PICK c \in 1 .. k : L[c].len > 1 /\ p[i].text = LineBytes(c, L[c].len)
    BY <1>1 DEF Given
  <2>2. z[i].text = LineBytes(c, L[c].len)
    BY <1>5, <2>1
  <2>3. c \in Nat /\ c < k + 1 /\ L[c].len \in Nat
    BY <1>6
  <2>4. LineBytes(c, L[c].len)[1].line = c
    BY <2>1, <2>3, FirstByte
  <2> QED
    BY <2>1, <2>2, <2>3, <2>4
<1>10. ASSUME NEW i \in 2 .. Len(z)
       PROVE  \E c \in 1 .. k + 1 : L[c].len > 1 /\ z[i].text = LineBytes(c, L[c].len)
  <2>1. CASE i \in 2 .. n
    BY <1>6, <1>9, <2>1
  <2>2. CASE i = n + 1
    BY <1>3, <1>7, <2>2
  <2> QED
    BY <1>4, <2>1, <2>2
<1>11. ASSUME NEW i \in 2 .. Len(z), NEW j \in 2 .. Len(z), i < j
       PROVE  z[i].text[1].line < z[j].text[1].line
  <2>1. i \in 2 .. n
    <3>1. i # n + 1
      BY <1>2, <1>3, <1>11
    <3> QED
      BY <1>4, <3>1
  <2>2. CASE j \in 2 .. n
    <3>1. p[i].text[1].line < p[j].text[1].line
      BY <1>1, <1>11, <2>1, <2>2 DEF Given
    <3> QED
      BY <1>5, <2>1, <2>2, <3>1
  <2>3. CASE j = n + 1
    BY <1>3, <1>8, <1>9, <2>1, <2>3
  <2> QED
    BY <1>4, <2>2, <2>3
<1>12. ASSUME NEW c \in 1 .. k + 1, L[c].len > 1
       PROVE  \E i \in 2 .. Len(z) : z[i].text = LineBytes(c, L[c].len)
  <2>1. CASE c \in 1 .. k
    <3>1. PICK i \in 2 .. n : p[i].text = LineBytes(c, L[c].len)
      BY <1>1, <1>12, <2>1 DEF Given
    <3> QED
      BY <1>4, <1>5, <3>1
  <2>2. CASE c = k + 1
    <3>1. n + 1 \in 2 .. Len(z)
      BY <1>2, <1>3
    <3> QED
      BY <1>3, <2>2, <3>1
  <2> QED
    BY <1>6, <2>1, <2>2
<1> QED
  BY <1>10, <1>11, <1>12 DEF Given

-----------------------------------------------------------------------------
(* Steps of the terminal that move what a client types.                                *)

LEMMA TypesAsked ==
  ASSUME NEW r, NEW n, NEW I, Fed(r, n, I), Asked(r, n), \A y \in I : y.len \in Nat \ {0},
         NEW x \in I, NEW l, Typed(n, l, x),
         l.patient => n.patient /\ n.wire = << >> /\ r.incoming = << >> /\ r.reading = "wait"
  PROVE  Asked(r, l)
<1> SUFFICES ASSUME l.patient PROVE Asks(r, l)
  BY DEF Asked
<1>1. Asks(r, n) /\ n.wire = << >> /\ r.incoming = << >> /\ r.reading = "wait"
  BY DEF Asked
<1>2. PICK L, B : L = n.lines /\ B = Len(L)
  OBVIOUS
<1>3. L \in Seq(I) /\ B \in Nat
  BY <1>2 DEF Fed
<1>4. ASSUME B > 0 PROVE LineBytes(B, L[B].len) # << >>
  <2>1. B \in 1 .. B /\ L[B] \in I
    BY <1>2, <1>3, <1>4
  <2>2. PICK k : k = L[B].len
    OBVIOUS
  <2>3. k \in Nat /\ k # 0
    BY <2>1, <2>2
  <2>4. IsLine(LineBytes(B, k), B, k)
    BY <1>3, <2>3, LineBytesIs
  <2>5. Len(LineBytes(B, k)) # 0
    BY <2>3, <2>4 DEF IsLine
  <2> QED
    BY <2>2, <2>5, NoMessage
<1>5. Given(r.posted, L, B)
  BY <1>1, <1>2, <1>4 DEF Asks
<1>6. PICK M : M = l.lines
  OBVIOUS
<1>7. Len(M) = B + 1 /\ M[B + 1] = x /\ \A c \in 1 .. B : M[c] = L[c]
  BY <1>2, <1>3, <1>6 DEF Typed
<1>8. Given(r.posted, M, B)
  BY <1>5, <1>7, GivenSame
<1>9. l.wire = LineBytes(B + 1, x.len)
  <2>1. PICK w, k : w = LineBytes(B + 1, x.len) /\ k = x.len
    OBVIOUS
  <2>2. k \in Nat /\ B + 1 \in Nat
    BY <1>3, <2>1
  <2>3. w \in Seq(Bytes)
    BY <2>1, <2>2, LineBytesIs DEF IsLine
  <2>4. << >> \o w = w
    BY <2>3
  <2>5. l.wire = << >> \o w
    BY <1>1, <1>2, <2>1 DEF Typed
  <2> QED
    BY <2>1, <2>4, <2>5
<1>10. (B + 1) - 1 = B /\ B + 1 > 0
  BY <1>3
<1> QED
  BY <1>1, <1>6, <1>7, <1>8, <1>9, <1>10 DEF Asks

(* Of a line, the last byte is the newline.                                            *)
LEMMA OneNewline ==
  ASSUME NEW b, NEW N, NEW k \in Nat, IsLine(b, N, k), NEW L, L[N].len = k
  PROVE  /\ DOMAIN b = 1 .. k
         /\ \A j \in 1 .. k : b[j].at = L[b[j].line].len <=> j = k
  BY DEF IsLine

LEMMA ReadsAsked ==
  ASSUME NEW r, NEW n, NEW I, Fed(r, n, I), Asked(r, n), \A y \in I : y.len \in Nat \ {0},
         r.reading = "wait", NEW k \in 0 .. Len(n.wire), NEW q, NEW l, Moved(r, n, q, l, k),
         q.posted = r.posted, q.sock = r.sock, q.reading = "done",
         \E j \in DOMAIN q.incoming : q.incoming[j].at = n.lines[q.incoming[j].line].len
  PROVE  Asked(q, l)
<1>0. r.sock # "none" => r.posted # << >>
  BY DEF Asked
<1> SUFFICES ASSUME l.patient PROVE Asks(q, l)
  BY <1>0 DEF Asked
<1>1. Asks(r, n) /\ l.lines = n.lines
  BY DEF Asked, Moved
<1>2. PICK L, B : L = n.lines /\ B = Len(L)
  OBVIOUS
<1>3. L \in Seq(I) /\ B \in Nat
  BY <1>2 DEF Fed
<1>4. PICK w, a : w = n.wire /\ a = q.incoming
  OBVIOUS
<1>5. r.incoming = << >> /\ a = << >> \o SubSeq(w, 1, k)
  BY <1>1, <1>4 DEF Asks, Moved
<1>6. CASE w = << >>
  <2>1. k \in 0 .. 0
    BY <1>4, <1>6, NoMessage
  <2>2. k = 0 /\ w \in Seq(Bytes)
    BY <1>6, <2>1
  <2>3. SubSeq(w, 1, k) = << >>
    BY <2>2
  <2>4. a = << >>
    BY <1>5, <2>3
  <2> QED
    BY <1>4, <2>4, NoMessage
<1>7. CASE B > 0 /\ Given(r.posted, L, B - 1) /\ w = LineBytes(B, L[B].len)
  <2>1. B \in 1 .. B /\ L[B] \in I
    BY <1>2, <1>3, <1>7
  <2>2. PICK z : z = L[B].len
    OBVIOUS
  <2>3. z \in Nat /\ z # 0
    BY <2>1, <2>2
  <2>4. IsLine(w, B, z)
    BY <1>3, <1>7, <2>2, <2>3, LineBytesIs
  <2>5. w \in Seq(Bytes) /\ Len(w) = z
    BY <2>4 DEF IsLine
  <2>6. k \in Nat /\ k <= z
    BY <1>4, <2>5
  <2>7. a \in Seq(Bytes) /\ Len(a) = k /\ \A j \in 1 .. k : a[j] = w[j]
    BY <1>5, <2>5, <2>6
  <2>8. PICK j \in 1 .. k : a[j].at = L[a[j].line].len
    BY <1>2, <1>4, <2>7
  <2>9. \A i \in 1 .. z : w[i].at = L[w[i].line].len <=> i = z
    BY <2>2, <2>3, <2>4, OneNewline
  <2>10. j \in 1 .. z /\ a[j] = w[j]
    <3>1. j \in 1 .. z
      BY <2>3, <2>6
    <3> QED
      BY <2>7, <3>1
  <2>11. j = z
    BY <2>8, <2>9, <2>10
  <2>12. k = z
    BY <2>6, <2>11
  <2>13. a = w
    BY <2>5, <2>7, <2>12
  <2>14. l.wire = << >>
    <3>1. SubSeq(w, k + 1, Len(w)) = << >>
      BY <2>3, <2>5, <2>12
    <3> QED
      BY <1>4, <3>1 DEF Moved
  <2> QED
    BY <1>1, <1>2, <1>4, <1>7, <2>13, <2>14 DEF Asks
<1> QED
  BY <1>1, <1>2, <1>4, <1>6, <1>7 DEF Asks

LEMMA InputLength ==
  ASSUME IInv
  PROVE  \A y \in Inputs[program] : y.len \in Nat \ {0}
  BY LineAssumption DEF IInv, Shape

(* A step of the terminal changes one session.                                         *)
LEMMA OneAsked ==
  ASSUME KInv, program = "terminal", UNCHANGED program, NEW s \in Sessions,
         \A t \in Sessions \ {s} : ses'[t] = ses[t] /\ net'[t] = net[t],
         Fed(ses'[s], net'[s], Inputs[program]), Asked(ses'[s], net'[s])
  PROVE  KInv'
<1>1. \A t \in Sessions : Fed(ses'[t], net'[t], Inputs[program']) /\ Asked(ses'[t], net'[t])
  BY DEF KInv
<1> QED
  BY <1>1 DEF KInv

LEMMA TerminalTypes ==
  ASSUME IInv, KInv, NEW s \in Sessions, Types(s), program = "terminal"
  PROVE  KInv'
<1>1. /\ UNCHANGED <<program, clients_, ses>> /\ \A t \in Sessions \ {s} : net'[t] = net[t]
      /\ net'[s].patient \in BOOLEAN /\ (net'[s].patient => net[s].patient /\ Answered(s))
  BY TypedIs
<1>2. PICK r, n, l, I : r = ses[s] /\ n = net[s] /\ l = net'[s] /\ I = Inputs[program]
  OBVIOUS
<1>3. PICK x \in I : Typed(n, l, x)
  BY <1>2, TypedIs
<1>4. Fed(r, n, I) /\ Asked(r, n)
  BY <1>2 DEF KInv
<1>5. Fed(r, l, I)
  BY <1>1, <1>2, <1>3, <1>4, TypedFed
<1>6. \A y \in I : y.len \in Nat \ {0}
  BY <1>2, InputLength
<1>7. l.patient => n.patient /\ n.wire = << >> /\ r.incoming = << >> /\ r.reading = "wait"
  BY <1>1, <1>2, Zenon DEF Answered
<1>8. Asked(r, l)
  BY <1>3, <1>4, <1>6, <1>7, TypesAsked
<1> QED
  BY <1>1, <1>2, <1>5, <1>8, OneAsked

LEMMA TerminalMoves ==
  ASSUME IInv, KInv, NEW s \in Sessions, NEW k \in 0 .. Len(net[s].wire), ReadsUntil(s, k),
         program = "terminal"
  PROVE  KInv'
<1>1. /\ UNCHANGED <<program, clients_>> /\ ses[s].reading = "wait"
      /\ \A t \in Sessions \ {s} : ses'[t] = ses[t] /\ net'[t] = net[t]
      /\ Moved(ses[s], net[s], ses'[s], net'[s], k)
      /\ ses'[s].posted = ses[s].posted /\ ses'[s].sock = ses[s].sock /\ ses'[s].sock # "none"
      /\ ses'[s].reading = "done"
      /\ HasLine(s, ses'[s].incoming)
  BY MovedIs
<1>2. PICK r, n, q, l, I : r = ses[s] /\ n = net[s] /\ q = ses'[s] /\ l = net'[s] /\ I = Inputs[program]
  OBVIOUS
<1>3. Fed(r, n, I) /\ Asked(r, n)
  BY <1>2 DEF KInv
<1>4. \A y \in I : y.len \in Nat \ {0}
  BY <1>2, InputLength
<1>5. /\ r.reading = "wait" /\ k \in 0 .. Len(n.wire) /\ Moved(r, n, q, l, k)
      /\ q.posted = r.posted /\ q.sock = r.sock /\ q.reading = "done" /\ q.sock # "none"
  BY <1>1, <1>2
<1>6. \E j \in DOMAIN q.incoming : q.incoming[j].at = n.lines[q.incoming[j].line].len
  BY <1>1, <1>2 DEF HasLine, IsNewline
<1>7. Asked(q, l)
  BY <1>3, <1>4, <1>5, <1>6, ReadsAsked
<1>8. Fed(q, l, I)
  BY <1>3, <1>5 DEF Fed, Moved
<1> QED
  BY <1>1, <1>2, <1>7, <1>8, OneAsked

LEMMA TerminalGreets ==
  ASSUME IInv, KInv, NEW s \in Sessions, Terminal!accept(s)
  PROVE  KInv'
<1>0. SInv(ses[s], net[s]) /\ Shape
  BY DEF IInv
<1>1. program = "terminal" /\ ses[s].sock = "none" /\ UNCHANGED <<program, clients_, net>>
  <2>1. Terminal!Accepted(s, "terminal") /\ UNCHANGED <<program, clients_, net>>
    BY DEF Terminal!accept
  <2>2. program = "terminal" /\ ((ses[s].sock = "none") <=> s >= s)
    BY <2>1, SameNames DEF Terminal!Accepted
  <2>3. s >= s
    BY DEF Sessions
  <2> QED
    BY <2>1, <2>2, <2>3
<1>2. PICK state \in {"open", "closed"} :
        ses' = [ses EXCEPT ![s] = Terminal!start(s, [NewSession EXCEPT !.sock = state])]
  BY DEF Terminal!accept, Terminal!NewSession, NewSession
<1>a. PICK r : r = [NewSession EXCEPT !.sock = state]
  OBVIOUS
<1>b. PICK m : m = Message("welcome", s, << >>)
  OBVIOUS
<1>c. PICK u : u = [r EXCEPT !.outgoing = Append(@, m), !.posted = Append(@, m)]
  OBVIOUS
<1>d. PICK v : v = async_write(u)
  OBVIOUS
<1>3. PICK q : q = [v EXCEPT !.reading = "wait"]
  OBVIOUS
<1>4. Terminal!start(s, r) = q
  BY <1>b, <1>c, <1>d, <1>3 DEF Terminal!start, Terminal!async_write, async_write, Terminal!write_string, Terminal!Message, Message
<1>5. SInv(r, net[s]) /\ r.sock = state /\ r.outgoing = << >> /\ r.posted = << >>
  <2>1. IsLink(net[s]) /\ net[s].got = << >>
    BY <1>0, <1>1, UnbornKnows
  <2>2. r = Fresh(state, 0)
    BY <1>a, FreshIs
  <2> QED
    BY <2>1, <2>2, FreshKeeps
<1>e. r.incoming = << >>
  <2>1. r = Fresh(state, 0)
    BY <1>a, FreshIs
  <2> QED
    BY <2>1, FreshEmpty
<1>6. After(r, m, v)
  <2>1. IsSession(r)
    BY <1>5 DEF SInv
  <2> QED
    BY <1>c, <1>d, <1>5, <2>1, WriteFirst
<1>7. IsSession(v) /\ v.sock = state /\ v.incoming = << >> /\ v.posted = Append(r.posted, m)
  BY <1>e, <1>5, <1>6 DEF After
<1>8. q.sock = state /\ q.incoming = << >> /\ q.posted = v.posted /\ q.reading = "wait"
  BY <1>3, <1>7 DEF IsSession
<1>9. PICK p, z : p = r.posted /\ z = q.posted
  OBVIOUS
<1>10. Behind(p, m, z) /\ p = << >>
  <2>1. Queue(p) /\ z = Append(p, m) /\ p = << >>
    BY <1>5, <1>7, <1>8, <1>9 DEF SInv
  <2> QED
    BY <2>1, Pushed
<1>11. PICK o, n, I : o = ses[s] /\ n = net[s] /\ I = Inputs[program]
  OBVIOUS
<1>12. Fed(o, n, I) /\ Asked(o, n) /\ o.posted = p /\ o.incoming = << >> /\ o.reading = "none"
  BY <1>0, <1>1, <1>10, <1>11 DEF KInv, SInv, Unborn, Fed
<1>13. \A k : Given(p, n.lines, k) => Given(z, n.lines, k)
  BY <1>10, GivenNothing
<1>14. n.patient => Asks(q, n)
  <2> SUFFICES ASSUME n.patient PROVE Asks(q, n)
    OBVIOUS
  <2>1. Asks(o, n)
    BY <1>12 DEF Asked
  <2> QED
    BY <1>8, <1>9, <1>12, <1>13, <2>1 DEF Asks
<1>15. q.posted # << >>
  BY <1>9, <1>10 DEF Behind
<1>16. Asked(q, n) /\ Fed(q, n, I)
  BY <1>8, <1>12, <1>14, <1>15 DEF Asked, Fed
<1>17. ses'[s] = q /\ \A t \in Sessions \ {s} : ses'[t] = ses[t]
  <2>1. ses' = [ses EXCEPT ![s] = q]
    BY <1>2, <1>a, <1>4
  <2> QED
    BY <1>0, <2>1 DEF Shape
<1> QED
  BY <1>1, <1>11, <1>16, <1>17, OneAsked

(* The line that getline takes, and what is left.                                      *)
LEMMA LineTaken ==
  ASSUME NEW s, NEW b, NEW N, NEW k \in Nat \ {0}, IsLine(b, N, k), net[s].lines[N].len = k
  PROVE  /\ Terminal!LineEnd(s, b) = k /\ SubSeq(b, 1, k) = b /\ Terminal!unread(b, k) = << >>
<1>1. b \in Seq(Bytes) /\ Len(b) = k
  BY DEF IsLine
<1>2. DOMAIN b = 1 .. k /\ \A j \in 1 .. k : Terminal!IsNewline(s, b[j]) <=> j = k
  BY OneNewline DEF Terminal!IsNewline
<1>3. ASSUME NEW j \in DOMAIN b
      PROVE  (/\ Terminal!IsNewline(s, b[j])
              /\ \A i \in 1 .. j - 1 : ~Terminal!IsNewline(s, b[i])) <=> j = k
  <2>1. \A i \in 1 .. k - 1 : i \in 1 .. k /\ i # k
    OBVIOUS
  <2> QED
    BY <1>2, <2>1
<1>4. k \in DOMAIN b
  BY <1>2
<1>5. Terminal!LineEnd(s, b) = k
  BY <1>3, <1>4 DEF Terminal!LineEnd
<1>6. SubSeq(b, 1, k) = b
  BY <1>1
<1>7. SubSeq(b, 2 * k + 1, Len(b)) = << >>
  <2>1. 2 * k + 1 \in Nat /\ 2 * k + 1 > k
    OBVIOUS
  <2>2. PICK j : j = 2 * k + 1
    OBVIOUS
  <2>3. j \in Nat /\ j > k
    BY <2>1, <2>2
  <2>4. SubSeq(b, j, Len(b)) = << >>
    BY <1>1, <2>3
  <2> QED
    BY <2>2, <2>4
<1> QED
  BY <1>5, <1>6, <1>7 DEF Terminal!unread

(* The first byte of a line tells which line it is.                                    *)
LEMMA FirstLine ==
  ASSUME NEW b, NEW N, NEW k \in Nat \ {0}, IsLine(b, N, k)
  PROVE  b[1].line = N
<1>1. 1 \in 1 .. k
  OBVIOUS
<1> QED
  BY <1>1 DEF IsLine

(* q is the session r after on_read found a line of k bytes, x, and left b; l is the    *)
(* length the line had when it was typed.                                              *)
Taken(r, q, k, l, x, b) == /\ q.incoming = b /\ q.reading = "wait" /\ q.sock = r.sock
                           /\ \/ (k = 1 \/ k # l) /\ q.posted = r.posted
                              \/ k # 1 /\ \E m : m.text = x /\ Behind(r.posted, m, q.posted)

LEMMA TakenIs ==
  ASSUME IInv, NEW s \in Sessions, Terminal!on_read(s)
  PROVE  LET y == ses[s].incoming
             k == Terminal!LineEnd(s, y)
             x == SubSeq(y, 1, k)
         IN  \/ ses' = ses
             \/ \E q : /\ ses' = [ses EXCEPT ![s] = q]
                       /\ Taken(ses[s], q, k, net[s].lines[x[1].line].len, x, Terminal!unread(y, k))
<1>a. PICK k : k = Terminal!LineEnd(s, ses[s].incoming)
  OBVIOUS
<1>b. PICK x, b : x = SubSeq(ses[s].incoming, 1, k) /\ b = Terminal!unread(ses[s].incoming, k)
  OBVIOUS
<1>c. PICK l : l = net[s].lines[x[1].line].len
  OBVIOUS
<1>0. IsSession(ses[s]) /\ Queue(ses[s].outgoing) /\ Queue(ses[s].posted)
  BY DEF IInv, SInv
<1>1. PICK r : r = [ses[s] EXCEPT !.incoming = b, !.reading = "wait"]
  OBVIOUS
<1>2. /\ IsSession(r) /\ r.incoming = b /\ r.reading = "wait" /\ r.sock = ses[s].sock
      /\ r.outgoing = ses[s].outgoing /\ r.posted = ses[s].posted
  BY <1>0, <1>1 DEF IsSession
<1>3. \/ ses' = ses
      \/ (k = 1 \/ k # l) /\ ses' = [ses EXCEPT ![s] = r]
      \/ k # 1 /\ \E answer : ses' = [ses EXCEPT ![s] = Terminal!dispatch(r, Terminal!Message(answer, s, x))]
  BY <1>a, <1>b, <1>c, <1>1 DEF Terminal!on_read
<1>4. CASE (k = 1 \/ k # l) /\ ses' = [ses EXCEPT ![s] = r]
  <2>1. Taken(ses[s], r, k, l, x, b)
    BY <1>2, <1>4 DEF Taken
  <2> QED
    BY <1>a, <1>b, <1>c, <1>4, <2>1
<1>5. ASSUME k # 1, NEW answer,
             ses' = [ses EXCEPT ![s] = Terminal!dispatch(r, Terminal!Message(answer, s, x))]
      PROVE  \E q : ses' = [ses EXCEPT ![s] = q] /\ Taken(ses[s], q, k, l, x, b)
  <2>1. PICK m : m = Terminal!Message(answer, s, x)
    OBVIOUS
  <2>2. m.text = x
    BY <2>1 DEF Terminal!Message
  <2>3. PICK q : q = Terminal!dispatch(r, m)
    OBVIOUS
  <2>4. After(r, m, q)
    BY <1>0, <1>2, <2>3, DispatchIs
  <2>5. PICK p, z : p = ses[s].posted /\ z = q.posted
    OBVIOUS
  <2>6. Queue(p) /\ z = Append(p, m)
    BY <1>0, <1>2, <2>4, <2>5 DEF After
  <2>7. Behind(p, m, z)
    BY <2>6, Pushed
  <2>8. q.incoming = b /\ q.reading = "wait" /\ q.sock = ses[s].sock
    BY <1>2, <2>4 DEF After
  <2>9. ses' = [ses EXCEPT ![s] = q]
    BY <1>5, <2>1, <2>3
  <2>10. Taken(ses[s], q, k, l, x, b)
    BY <1>5, <2>2, <2>5, <2>7, <2>8 DEF Taken
  <2> QED
    BY <2>9, <2>10
<1> QED
  BY <1>a, <1>b, <1>c, <1>3, <1>4, <1>5

LEMMA TerminalTakes ==
  ASSUME IInv, KInv, NEW s \in Sessions, Terminal!on_read(s)
  PROVE  KInv'
<1>0. Shape /\ SInv(ses[s], net[s]) /\ Queue(ses[s].posted)
  BY DEF IInv, SInv
<1>1. program = "terminal" /\ ses[s].reading = "done" /\ UNCHANGED <<program, clients_, net>>
  BY DEF Terminal!on_read
<1>2. PICK r, n, I : r = ses[s] /\ n = net[s] /\ I = Inputs[program]
  OBVIOUS
<1>3. Fed(r, n, I) /\ Asked(r, n) /\ r.reading = "done" /\ Queue(r.posted) /\ r.sock # "none"
  BY <1>0, <1>1, <1>2 DEF KInv, SInv, Unborn
<1>4. r.posted # << >>
  BY <1>3 DEF Asked
<1>5. PICK k : k = Terminal!LineEnd(s, ses[s].incoming)
  OBVIOUS
<1>6. PICK x : x = SubSeq(ses[s].incoming, 1, k)
  OBVIOUS
<1>7. PICK b, l : b = Terminal!unread(ses[s].incoming, k) /\ l = net[s].lines[x[1].line].len
  OBVIOUS
<1>8. CASE ses' = ses
  <2>1. \A t \in Sessions \ {s} : ses'[t] = ses[t] /\ net'[t] = net[t]
    BY <1>1, <1>8
  <2>2. Fed(ses'[s], net'[s], Inputs[program]) /\ Asked(ses'[s], net'[s])
    BY <1>1, <1>2, <1>3, <1>8
  <2> QED
    BY <1>1, <2>1, <2>2, OneAsked
<1>9. ASSUME NEW q, ses' = [ses EXCEPT ![s] = q], Taken(r, q, k, l, x, b)
      PROVE  KInv'
  <2>0. /\ q.incoming = b /\ q.reading = "wait" /\ q.sock = r.sock
        /\ \/ (k = 1 \/ k # l) /\ q.posted = r.posted
           \/ k # 1 /\ \E m : m.text = x /\ Behind(r.posted, m, q.posted)
    BY <1>9 DEF Taken
  <2>1. q.posted # << >>
    BY <1>4, <2>0 DEF Behind
  <2>2. ASSUME n.patient PROVE Asks(q, n)
    <3>1. PICK L, B : L = n.lines /\ B = Len(L)
      OBVIOUS
    <3>2. L \in Seq(I) /\ B \in Nat
      BY <1>3, <3>1 DEF Fed
    <3>3. /\ B > 0 /\ Given(r.posted, L, B - 1) /\ r.incoming = LineBytes(B, L[B].len)
          /\ n.wire = << >>
      BY <1>3, <2>2, <3>1 DEF Asked, Asks
    <3>4. \A y \in I : y.len \in Nat \ {0}
      BY <1>2, InputLength
    <3>5. \A c \in 1 .. B : L[c].len \in Nat \ {0}
      BY <3>1, <3>2, <3>4
    <3>6. PICK z : z = L[B].len
      OBVIOUS
    <3>7. z \in Nat \ {0} /\ z \in Nat
      <4>1. B \in 1 .. B
        BY <3>2, <3>3
      <4> QED
        BY <3>5, <3>6, <4>1
    <3>8. PICK y : y = r.incoming
      OBVIOUS
    <3>9. IsLine(y, B, z)
      BY <3>2, <3>3, <3>6, <3>7, <3>8, LineBytesIs
    <3>10. net[s].lines[B].len = z
      BY <1>2, <3>1, <3>6
    <3>11. Terminal!LineEnd(s, y) = z /\ SubSeq(y, 1, z) = y /\ Terminal!unread(y, z) = << >>
      BY <3>7, <3>9, <3>10, LineTaken
    <3>12. k = z /\ x = y /\ b = << >>
      BY <1>2, <1>5, <1>6, <1>7, <3>8, <3>11
    <3>a. l = k
      <4>1. x[1].line = B
        BY <3>7, <3>9, <3>12, FirstLine
      <4> QED
        BY <1>7, <3>10, <3>12, <4>1
    <3>13. PICK j : j = B - 1
      OBVIOUS
    <3>14. j \in Nat /\ j + 1 = B
      BY <3>2, <3>3, <3>13
    <3>15. Given(r.posted, L, j)
      BY <3>3, <3>13
    <3>16. Given(q.posted, L, B)
      <4>1. CASE k = 1 /\ q.posted = r.posted
        <5>1. ~(L[j + 1].len > 1)
          <6>1. L[j + 1].len = 1
            BY <3>6, <3>12, <3>14, <4>1
          <6> QED
            BY <6>1
        <5>2. Given(r.posted, L, j + 1)
          BY <3>14, <3>15, <5>1, GivenSkips
        <5> QED
          BY <3>14, <4>1, <5>2
      <4>2. ASSUME k # 1, NEW m, m.text = x, Behind(r.posted, m, q.posted) PROVE Given(q.posted, L, B)
        <5>0. z > 1
          BY <3>7, <3>12, <4>2
        <5>1. L[j + 1].len > 1 /\ m.text = LineBytes(j + 1, L[j + 1].len)
          BY <3>3, <3>6, <3>8, <3>12, <3>14, <4>2, <5>0
        <5>2. \A c \in 1 .. j + 1 : L[c].len \in Nat
          BY <3>5, <3>14
        <5>3. PICK p, u : p = r.posted /\ u = q.posted
          OBVIOUS
        <5>4. Queue(p) /\ p # << >> /\ Behind(p, m, u) /\ Given(p, L, j)
          BY <1>3, <1>4, <3>15, <4>2, <5>3
        <5>5. Given(u, L, j + 1)
          BY <3>14, <5>1, <5>2, <5>4, GivenAnswers
        <5> QED
          BY <3>14, <5>3, <5>5
      <4> QED
        BY <2>0, <3>a, <4>1, <4>2
    <3> QED
      BY <2>0, <3>1, <3>3, <3>12, <3>16 DEF Asks
  <2>3. Asked(q, n) /\ Fed(q, n, I)
    BY <1>3, <2>0, <2>1, <2>2 DEF Asked, Fed
  <2>4. ses'[s] = q /\ \A t \in Sessions \ {s} : ses'[t] = ses[t]
    BY <1>0, <1>9 DEF Shape
  <2> QED
    BY <1>1, <1>2, <2>3, <2>4, OneAsked
<1>10. ses' = ses \/ \E q : ses' = [ses EXCEPT ![s] = q] /\ Taken(ses[s], q, k, l, x, b)
  BY <1>5, <1>6, <1>7, TakenIs
<1> QED
  BY <1>2, <1>8, <1>9, <1>10

-----------------------------------------------------------------------------
(* The second part of the invariant and what follows from it.                          *)

LEMMA InitKInv == Init => KInv
<1> SUFFICES ASSUME Init PROVE KInv
  OBVIOUS
<1>1. PICK e : e = << >>
  OBVIOUS
<1>2. PICK l, r : /\ l = [link |-> TRUE, eof |-> FALSE, lines |-> e, wire |-> e, got |-> e, patient |-> TRUE]
                  /\ r = [sock |-> "none", incoming |-> e, reading |-> "none", outgoing |-> e,
                          writes |-> e, posted |-> e, known |-> 0]
  OBVIOUS
<1>3. net = [s \in Sessions |-> l] /\ ses = [s \in Sessions |-> r] /\ clients_ = {}
  BY <1>1, <1>2 DEF Init, NewSession
<1>4. l.lines = e /\ l.wire = e /\ l.patient = TRUE
  <2>1. l \in [link : {TRUE}, eof : {FALSE}, lines : {e}, wire : {e}, got : {e}, patient : {TRUE}]
    BY <1>2
  <2> QED
    BY <2>1
<1>5. r.sock = "none" /\ r.incoming = e /\ r.reading = "none" /\ r.posted = e
  <2>1. r \in [sock : {"none"}, incoming : {e}, reading : {"none"}, outgoing : {e},
               writes : {e}, posted : {e}, known : {0}]
    BY <1>2
  <2> QED
    BY <2>1
<1>6. \A s \in Sessions : ses[s] = r /\ net[s] = l
  BY <1>3
<1>7. Len(e) = 0 /\ e \in Seq(Bytes) /\ e \in Seq(Inputs[program])
  BY <1>1, NoMessage
<1>8. Fed(r, l, Inputs[program])
  BY <1>1, <1>4, <1>5, <1>7 DEF Fed
<1>9. Streams(r, l)
  <2>1. PICK d : d = Ahead(r, l)
    OBVIOUS
  <2>2. PICK f : f = [line |-> Len(l.lines) + 1, at |-> 1]
    OBVIOUS
  <2>3. f \in Bytes
    BY <1>4, <1>7, <2>2 DEF Bytes
  <2>4. d = (e \o e) \o <<f>>
    BY <1>4, <1>5, <2>1, <2>2 DEF Ahead
  <2>5. Joined(e, e, f, d)
    BY <1>7, <2>3, <2>4, JoinedIs
  <2>6. Len(d) = 1
    BY <1>7, <2>5 DEF Joined
  <2>7. InOrder(l.lines, d)
    BY <2>6 DEF InOrder
  <2> QED
    BY <1>4, <1>5, <1>7, <2>1, <2>7 DEF Streams
<1>10. ASSUME NEW w \in Sessions PROVE Speaks(ses, net, clients_, w)
  <2>1. ASSUME NEW s \in Sessions PROVE Heard(ses[s].posted, w, net[w].lines) /\ s \notin clients_
    <3>1. Heard(e, w, net[w].lines)
      BY <1>1, HeardNothing
    <3> QED
      BY <1>3, <1>5, <1>6, <3>1
  <2>2. Streams(ses[w], net[w])
    BY <1>6, <1>9
  <2> QED
    BY <2>1, <2>2 DEF Speaks
<1>11. Asked(r, l)
  <2>1. Given(e, l.lines, 0)
    BY <1>7 DEF Given
  <2>2. Asks(r, l)
    BY <1>1, <1>4, <1>5, <1>7, <2>1 DEF Asks
  <2> QED
    BY <1>5, <2>2 DEF Asked
<1> QED
  BY <1>6, <1>8, <1>10, <1>11 DEF KInv

LEMMA NextKInv == IInv /\ KInv /\ [Next]_vars => KInv'
<1> SUFFICES ASSUME IInv, KInv, [Next]_vars PROVE KInv'
  OBVIOUS
<1>0. program \in {"chat", "terminal"}
  BY DEF IInv, Shape
<1>1. CASE UNCHANGED vars
  <2>1. UNCHANGED <<program, clients_, ses, net>>
    BY <1>1 DEF vars
  <2>2. \A t \in Sessions : Calm(ses[t], net[t], ses'[t], net'[t])
    BY <2>1 DEF Calm, Still
  <2> QED
    BY <2>1, <2>2, CalmKeeps
<1>2. CASE World
  BY <1>0, <1>2, ChatTypes, TerminalTypes, CalmWorld DEF World
<1>3. CASE \E s \in Sessions : Asio(s)
  BY <1>0, <1>3, ChatMoves, TerminalMoves, CalmTransmits DEF Asio
<1>4. CASE Chat!Next
  <2>1. PICK s \in Sessions : Chat!async_server_accept(s) \/ Chat!Handlers(s)
    BY <1>4, SameNames DEF Chat!Next
  <2> QED
    BY <2>1, ChatGreets, ChatTakes, CalmWrites, CalmChatFails DEF Chat!Handlers
<1>5. CASE Terminal!Next
  <2>1. PICK s \in Sessions : Terminal!accept(s) \/ Terminal!Handlers(s)
    BY <1>5, SameNames DEF Terminal!Next
  <2> QED
    BY <2>1, TerminalGreets, TerminalTakes, CalmWrites, CalmFails DEF Terminal!Handlers
<1> QED
  BY <1>1, <1>2, <1>3, <1>4, <1>5 DEF Next

(* In every state of the servers the second part of the invariant holds: it relates    *)
(* what the clients typed to the streambufs and to what was posted.                    *)
THEOREM TypedInvariant == Spec => []KInv
<1>1. Spec => []IInv
  BY LinesInvariant
<1> QED
  BY <1>1, InitKInv, NextKInv, PTL DEF Spec

(* on_read of the chat: what a client types reaches the members whole, however TCP     *)
(* divides it and however many reads and posts of others come in between.              *)
THEOREM TextReachesWhole == Spec => []TextWhole
<1>1. IInv /\ KInv => TextWhole
  <2> SUFFICES ASSUME IInv, KInv, program = "chat", NEW s \in Sessions, NEW who \in Sessions,
                      NEW n \in Chat!Said(s, who)
               PROVE  LET text == ses[s].posted[n].text IN
                      /\ text # << >>
                      /\ \A k \in 1 .. Len(text) - 1 : Chat!Follows(net[who].lines, text[k], text[k + 1])
                      /\ \A m \in Chat!Said(s, who) :
                            n < m /\ (\A j \in Chat!Said(s, who) : j <= n \/ m <= j)
                                => Chat!Follows(net[who].lines, text[Len(text)], ses[s].posted[m].text[1])
    BY SameNames DEF TextWhole, Chat!TextWhole
  <2>1. PICK p, L : p = ses[s].posted /\ L = net[who].lines
    OBVIOUS
  <2>2. DOMAIN p = 1 .. Len(p)
    BY <2>1, QueueIs DEF IInv, SInv
  <2>3. Chat!Said(s, who) = Texts(p, who)
    BY <2>1, <2>2 DEF Chat!Said, Texts
  <2>4. Heard(p, who, L)
    BY <2>1 DEF KInv, Speaks
  <2>5. IsText(L, p[n].text)
    BY <2>3, <2>4 DEF Heard
  <2>6. /\ p[n].text # << >>
        /\ \A k \in 1 .. Len(p[n].text) - 1 : Chat!Follows(L, p[n].text[k], p[n].text[k + 1])
    BY <2>5 DEF IsText, InOrder
  <2>7. \A m \in Chat!Said(s, who) :
          n < m /\ (\A j \in Chat!Said(s, who) : j <= n \/ m <= j)
              => Chat!Follows(L, p[n].text[Len(p[n].text)], p[m].text[1])
    BY <2>3, <2>4 DEF Heard
  <2> QED
    BY <2>1, <2>6, <2>7
<1> QED
  BY <1>1, LinesInvariant, TypedInvariant, PTL

(* on_read of the terminal server, which takes a line with getline and then consumes   *)
(* as many bytes again: a client that waits for the answer before it types the next    *)
(* line gets exactly one answer to every command, in order and to the whole of it.     *)
THEOREM PatienceIsAnswered == Spec => []PatientAnswered
<1>1. IInv /\ KInv => PatientAnswered
  <2> SUFFICES ASSUME IInv, KInv, NEW s \in Sessions, program = "terminal", net[s].patient
               PROVE  LET commands == {c \in DOMAIN net[s].lines : net[s].lines[c].len > 1}
                          answers  == 2 .. Len(ses[s].posted)
                      IN  /\ \A n \in answers : \E c \in commands : Terminal!AnswerTo(s, n, c)
                          /\ \A n, m \in answers : \A c, d \in commands :
                                Terminal!AnswerTo(s, n, c) /\ Terminal!AnswerTo(s, m, d) /\ n < m => c < d
                          /\ \A c \in commands : c < Len(net[s].lines) \/ (up /\ Terminal!Handled(s))
                                => \E n \in answers : Terminal!AnswerTo(s, n, c)
    BY SameNames DEF PatientAnswered, Terminal!PatientAnswered
  <2>1. PICK p, L, B, I : p = ses[s].posted /\ L = net[s].lines /\ B = Len(L) /\ I = Inputs[program]
    OBVIOUS
  <2>2. Asks(ses[s], net[s]) /\ L \in Seq(I)
    BY <2>1 DEF KInv, Asked, Fed
  <2>3. B \in Nat /\ DOMAIN L = 1 .. B
    BY <2>1, <2>2
  <2>4. \A c \in 1 .. B : L[c].len \in Nat \ {0} /\ c \in Nat
    <3>1. \A y \in I : y.len \in Nat \ {0}
      BY <2>1, InputLength
    <3> QED
      BY <2>1, <2>2, <3>1
  <2>5. \A n, c : Terminal!AnswerTo(s, n, c) <=> p[n].text = LineBytes(c, L[c].len)
    BY <2>1 DEF Terminal!AnswerTo, Terminal!LineBytes, LineBytes
  <2>6. \/ Given(p, L, B)
        \/ B > 0 /\ Given(p, L, B - 1) /\ ~Terminal!Handled(s)
    <3>1. ASSUME B > 0 PROVE LineBytes(B, L[B].len) # << >>
      <4>1. PICK k : k = L[B].len
        OBVIOUS
      <4>2. k \in Nat /\ k # 0
        BY <2>3, <2>4, <3>1, <4>1
      <4>3. Len(LineBytes(B, k)) = k
        BY <2>3, <4>2, LineBytesIs DEF IsLine
      <4> QED
        BY <4>1, <4>2, <4>3, NoMessage
    <3> QED
      BY <2>1, <2>2, <3>1 DEF Asks, Terminal!Handled
  <2>7. PICK k \in Nat : /\ Given(p, L, k) /\ k <= B
                        /\ \A c \in 1 .. B : c < B \/ Terminal!Handled(s) => c \in 1 .. k
    <3>1. CASE Given(p, L, B)
      BY <2>3, <3>1
    <3>2. CASE B > 0 /\ Given(p, L, B - 1) /\ ~Terminal!Handled(s)
      <4>1. B - 1 \in Nat /\ B - 1 <= B /\ \A c \in 1 .. B : c < B => c \in 1 .. B - 1
        BY <2>3, <3>2
      <4> QED
        BY <3>2, <4>1
    <3> QED
      BY <2>6, <3>1, <3>2
  <2>8. \A c \in 1 .. k : c \in 1 .. B
    BY <2>3, <2>7
  <2>9. ASSUME NEW n \in 2 .. Len(p)
        PROVE  \E c \in 1 .. B : L[c].len > 1 /\ p[n].text = LineBytes(c, L[c].len)
    BY <2>7, <2>8 DEF Given
  <2>10. ASSUME NEW n \in 2 .. Len(p), NEW m \in 2 .. Len(p), NEW c \in 1 .. B, NEW d \in 1 .. B,
                L[c].len > 1, L[d].len > 1, n < m,
                p[n].text = LineBytes(c, L[c].len), p[m].text = LineBytes(d, L[d].len)
         PROVE  c < d
    <3>1. p[n].text[1].line < p[m].text[1].line
      BY <2>7, <2>10 DEF Given
    <3>2. LineBytes(c, L[c].len)[1].line = c
      BY <2>4, <2>10, FirstByte
    <3>3. LineBytes(d, L[d].len)[1].line = d
      BY <2>4, <2>10, FirstByte
    <3> QED
      BY <2>10, <3>1, <3>2, <3>3
  <2>11. ASSUME NEW c \in 1 .. B, L[c].len > 1, c < B \/ Terminal!Handled(s)
         PROVE  \E n \in 2 .. Len(p) : p[n].text = LineBytes(c, L[c].len)
    BY <2>7, <2>11 DEF Given
  <2>12. PICK commands, answers : /\ commands = {c \in 1 .. B : L[c].len > 1}
                                  /\ answers = 2 .. Len(p)
    OBVIOUS
  <2>13. \A n \in answers : \E c \in commands : Terminal!AnswerTo(s, n, c)
    BY <2>5, <2>9, <2>12
  <2>14. \A n, m \in answers : \A c, d \in commands :
            Terminal!AnswerTo(s, n, c) /\ Terminal!AnswerTo(s, m, d) /\ n < m => c < d
    BY <2>5, <2>10, <2>12
  <2>15. \A c \in commands : c < B \/ (up /\ Terminal!Handled(s))
            => \E n \in answers : Terminal!AnswerTo(s, n, c)
    BY <2>5, <2>11, <2>12
  <2> QED
    BY <2>1, <2>3, <2>12, <2>13, <2>14, <2>15
<1> QED
  BY <1>1, LinesInvariant, TypedInvariant, PTL
=============================================================================
