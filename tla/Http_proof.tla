------------------------------ MODULE Http_proof ------------------------------
(***************************************************************************)
(* Theorems about the three HTTP servers, for any set of sessions, any     *)
(* requests and any quota, with their proofs.                              *)
(*                                                                         *)
(* The invariant speaks of one session at a time.  A session has at most   *)
(* one operation outstanding, none before it is accepted, and after the    *)
(* response that ends the connection none but the TLS shutdown.  What has  *)
(* been answered, what is being answered, what waits in buffer_ and what   *)
(* is on the wire are, in this order, the requests that were sent.         *)
(***************************************************************************)
EXTENDS MCHttp, FiniteSetTheorems, TLAPS

Links == {"none", "waiting", "tls", "up", "broken", "closed"}

(* The types of the variables that are functions of the session.                       *)
State == /\ link \in [Sessions -> Links]
         /\ asked \in [Sessions -> Seq(Requests)]
         /\ wire \in [Sessions -> Seq(Nat)] /\ buffer_ \in [Sessions -> Seq(Nat)]
         /\ eof \in [Sessions -> BOOLEAN] /\ expires \in [Sessions -> BOOLEAN]
         /\ got \in [Sessions -> Seq(Response)]
         /\ ops \in [Sessions -> SUBSET Operations]
         /\ response_ \in [Sessions -> Response \cup {nullptr}]
         /\ server \in {"async", "ssl", "simple"} /\ up \in BOOLEAN /\ accepting \in BOOLEAN
         /\ listening \in {"no", "yes", "failed"}
         /\ \A s \in Sessions : Len(asked[s]) <= Quota[s]

(* A session that is not accepted has neither sent nor received anything.              *)
Fresh(s) == link[s] \in {"none", "waiting", "tls"} =>
                asked[s] = << >> /\ wire[s] = << >> /\ buffer_[s] = << >> /\ got[s] = << >>

(* One operation at a time, none before the accept; the message outlives its write.    *)
Single(s) == /\ ops[s] = {} \/ \E o \in Operations : ops[s] = {o}
             /\ link[s] \in {"none", "waiting"} => ops[s] = {}
             /\ "write" \in ops[s] => response_[s] \in Response

(* Neither a read nor a write follows a response that ends the connection.             *)
Last(s) == \A i \in DOMAIN got[s] :
               got[s][i].need_eof => /\ i = Len(got[s])
                                     /\ "read" \notin ops[s] /\ "write" \notin ops[s]

(* How many requests were taken out of buffer_.                                        *)
Begun(s) == Len(got[s]) + IF "write" \in ops[s] THEN 1 ELSE 0

(* s lists the numbers that follow b.                                                  *)
Consecutive(s, b) == \A n \in 1 .. Len(s) : s[n] = b + n

(* What is in buffer_ and then on the wire are the requests that follow these.         *)
Pending(s) == /\ Len(asked[s]) = Begun(s) + Len(buffer_[s]) + Len(wire[s])
              /\ Consecutive(buffer_[s], Begun(s))
              /\ Consecutive(wire[s], Begun(s) + Len(buffer_[s]))

Answers(s) ==
    server # "simple" =>
        /\ \A i \in DOMAIN got[s] : got[s][i].to = i
        /\ link[s] = "up" /\ ("read" \in ops[s] \/ "write" \in ops[s]) => Pending(s)
        /\ link[s] = "up" /\ "write" \in ops[s] => response_[s].to = Begun(s)

SessionInv(s) == Fresh(s) /\ Single(s) /\ Last(s) /\ Answers(s)

(* The inductive invariant.                                                            *)
IInv == State /\ \A s \in Sessions : SessionInv(s)

-----------------------------------------------------------------------------
(* A session from one state to the next.                                               *)

(* A session that a step does not touch.                                               *)
LEMMA Untouched ==
  ASSUME NEW s \in Sessions, SessionInv(s), server' = server,
         link'[s] = link[s], asked'[s] = asked[s], wire'[s] = wire[s],
         buffer_'[s] = buffer_[s], got'[s] = got[s], ops'[s] = ops[s],
         response_'[s] = response_[s]
  PROVE  SessionInv(s)'
<1>1. Begun(s)' = Begun(s)
  BY DEF Begun
<1>2. Pending(s)' = Pending(s)
  BY <1>1 DEF Pending
<1>3. Fresh(s)' /\ Single(s)' /\ Last(s)'
  BY DEF SessionInv, Fresh, Single, Last
<1>4. Answers(s)'
  BY <1>1, <1>2 DEF SessionInv, Answers
<1> QED
  BY <1>3, <1>4 DEF SessionInv

(* A step that touches one session only keeps the invariant of the others.             *)
LEMMA OneTouched ==
  ASSUME IInv, NEW s \in Sessions, SessionInv(s)', server' = server,
         \A t \in Sessions \ {s} :
             /\ link'[t] = link[t] /\ asked'[t] = asked[t] /\ wire'[t] = wire[t]
             /\ buffer_'[t] = buffer_[t] /\ got'[t] = got[t] /\ ops'[t] = ops[t]
             /\ response_'[t] = response_[t]
  PROVE  \A t \in Sessions : SessionInv(t)'
<1> SUFFICES ASSUME NEW t \in Sessions PROVE SessionInv(t)'
  OBVIOUS
<1>1. CASE t = s
  BY <1>1
<1>2. CASE t # s
  BY <1>2, Untouched DEF IInv
<1> QED
  BY <1>1, <1>2

(* The connection changes, and nothing else.                                           *)
LEMMA LinkChanges ==
  ASSUME NEW s \in Sessions, SessionInv(s), server' = server,
         \/ link[s] = "none" /\ link'[s] = "waiting"
         \/ link'[s] = "broken",
         asked'[s] = asked[s], wire'[s] = wire[s], buffer_'[s] = buffer_[s],
         got'[s] = got[s], ops'[s] = ops[s], response_'[s] = response_[s]
  PROVE  SessionInv(s)'
<1>1. Fresh(s)' /\ Single(s)'
  BY DEF SessionInv, Fresh, Single
<1>2. Last(s)' /\ Answers(s)'
  BY DEF SessionInv, Last, Answers
<1> QED
  BY <1>1, <1>2 DEF SessionInv

(* The session is destroyed.                                                           *)
LEMMA Gone ==
  ASSUME NEW s \in Sessions, SessionInv(s), server' = server, link'[s] = "closed",
         got'[s] = got[s], ops'[s] = {}
  PROVE  SessionInv(s)'
  BY DEF SessionInv, Fresh, Single, Last, Answers

(* The session is accepted, or has done its handshake: the first read.                 *)
LEMMA Starts ==
  ASSUME NEW s \in Sessions, SessionInv(s), server' = server,
         link[s] \in {"waiting", "tls"}, link'[s] = "up", ops'[s] = {"read"},
         asked'[s] = asked[s], wire'[s] = wire[s], buffer_'[s] = buffer_[s], got'[s] = got[s]
  PROVE  SessionInv(s)'
<1>1. asked[s] = << >> /\ wire[s] = << >> /\ buffer_[s] = << >> /\ got[s] = << >>
  BY DEF SessionInv, Fresh
<1>2. Len(asked[s]) = 0 /\ Len(wire[s]) = 0 /\ Len(buffer_[s]) = 0 /\ Len(got[s]) = 0
  BY <1>1
<1>3. DOMAIN got[s] = {}
  BY <1>1
<1>4. Begun(s)' = 0
  BY <1>2 DEF Begun
<1>5. Pending(s)'
  BY <1>2, <1>4 DEF Pending, Consecutive
<1>6. Fresh(s)' /\ Single(s)' /\ Last(s)' /\ Answers(s)'
  BY <1>3, <1>5 DEF Fresh, Single, Last, Answers, Operations
<1> QED
  BY <1>6 DEF SessionInv

(* The session is accepted, and its handshake begins.                                  *)
LEMMA Shakes ==
  ASSUME NEW s \in Sessions, SessionInv(s), server' = server,
         link[s] = "waiting", link'[s] = "tls", ops'[s] = {"handshake"},
         asked'[s] = asked[s], wire'[s] = wire[s], buffer_'[s] = buffer_[s], got'[s] = got[s]
  PROVE  SessionInv(s)'
  BY DEF SessionInv, Fresh, Single, Last, Answers, Operations

(* The client sends one more request.                                                  *)
LEMMA AskedOne ==
  ASSUME NEW s \in Sessions, SessionInv(s), State, server' = server, link[s] = "up",
         NEW r \in Requests, asked'[s] = Append(asked[s], r),
         wire'[s] = Append(wire[s], Len(asked[s]) + 1),
         link'[s] = link[s], buffer_'[s] = buffer_[s], got'[s] = got[s],
         ops'[s] = ops[s], response_'[s] = response_[s]
  PROVE  SessionInv(s)'
<1>1. Begun(s)' = Begun(s) /\ Begun(s) \in Nat
  BY DEF Begun, State
<1>2. ASSUME Pending(s) PROVE Pending(s)'
  <2> DEFINE b == Begun(s)
             w == wire[s]
             a == asked[s]
             f == buffer_[s]
             z == Append(w, Len(a) + 1)
  <2>0. a \in Seq(Requests) /\ w \in Seq(Nat) /\ f \in Seq(Nat) /\ b \in Nat
    BY <1>1 DEF State
  <2>1. /\ Len(a) = b + Len(f) + Len(w) /\ \A n \in 1 .. Len(w) : w[n] = b + Len(f) + n
        /\ \A n \in 1 .. Len(f) : f[n] = b + n
    BY <1>2 DEF Pending, Consecutive
  <2> HIDE DEF b, w, a, f
  <2>2. Len(Append(a, r)) = Len(a) + 1
    BY <2>0
  <2>3. /\ Len(z) = Len(w) + 1 /\ z[Len(w) + 1] = Len(a) + 1
        /\ \A n \in 1 .. Len(w) : z[n] = w[n]
    BY <2>0
  <2> HIDE DEF z
  <2>4. ASSUME NEW n \in 1 .. Len(z) PROVE z[n] = b + Len(f) + n
    <3>1. CASE n = Len(w) + 1
      BY <2>0, <2>1, <2>3, <3>1
    <3>2. CASE n # Len(w) + 1
      <4>1. n \in 1 .. Len(w)
        BY <2>0, <2>3, <3>2
      <4> QED
        BY <2>1, <2>3, <4>1
    <3> QED
      BY <3>1, <3>2
  <2>5. Len(Append(a, r)) = b + Len(f) + Len(z)
    BY <2>0, <2>1, <2>2, <2>3
  <2>6. /\ Begun(s)' = b /\ wire'[s] = z /\ asked'[s] = Append(a, r) /\ buffer_'[s] = f
    BY <1>1 DEF b, w, a, f, z
  <2> QED
    BY <2>1, <2>4, <2>5, <2>6 DEF Pending, Consecutive
<1>3. Fresh(s)' /\ Single(s)' /\ Last(s)'
  BY DEF SessionInv, Fresh, Single, Last
<1>4. Answers(s)'
  BY <1>1, <1>2 DEF SessionInv, Answers
<1> QED
  BY <1>3, <1>4 DEF SessionInv

(* Sequences: the first k, the others, two joined, and the rest behind the head.       *)
LEMMA Front ==
  ASSUME NEW w \in Seq(Nat), NEW k \in 0 .. Len(w), NEW x, x = SubSeq(w, 1, k)
  PROVE  x \in Seq(Nat) /\ Len(x) = k /\ \A n \in 1 .. k : x[n] = w[n]
  OBVIOUS

LEMMA Back ==
  ASSUME NEW w \in Seq(Nat), NEW k \in 0 .. Len(w), NEW y, y = SubSeq(w, k + 1, Len(w))
  PROVE  y \in Seq(Nat) /\ Len(y) = Len(w) - k /\ \A n \in 1 .. Len(w) - k : y[n] = w[k + n]
<1>1. y \in Seq(Nat) /\ Len(y) = Len(w) - k
  OBVIOUS
<1>2. \A n \in 1 .. Len(w) - k : y[n] = w[k + n]
  OBVIOUS
<1> QED
  BY <1>1, <1>2

LEMMA Joined ==
  ASSUME NEW f \in Seq(Nat), NEW x \in Seq(Nat), NEW z, z = f \o x
  PROVE  /\ z \in Seq(Nat) /\ Len(z) = Len(f) + Len(x)
         /\ \A n \in 1 .. Len(f) : z[n] = f[n]
         /\ \A n \in 1 .. Len(x) : z[Len(f) + n] = x[n]
  OBVIOUS

LEMMA Rest ==
  ASSUME NEW z \in Seq(Nat), z # << >>, NEW t, t = Tail(z)
  PROVE  /\ t \in Seq(Nat) /\ Len(t) = Len(z) - 1 /\ Len(z) >= 1 /\ Head(z) = z[1]
         /\ \A n \in 1 .. Len(t) : t[n] = z[n + 1]
<1>1. t \in Seq(Nat) /\ Len(t) = Len(z) - 1 /\ Len(z) >= 1
  OBVIOUS
<1>2. Head(z) = z[1]
  OBVIOUS
<1>3. \A n \in 1 .. Len(t) : t[n] = z[n + 1]
  BY <1>1
<1> QED
  BY <1>1, <1>2, <1>3

(* The numbers from b + 1 on, in two parts.                                            *)
LEMMA Counted ==
  ASSUME NEW f \in Seq(Nat), NEW x \in Seq(Nat), NEW b \in Nat, NEW z, z = f \o x,
         \A n \in 1 .. Len(f) : f[n] = b + n,
         \A n \in 1 .. Len(x) : x[n] = b + Len(f) + n
  PROVE  \A n \in 1 .. Len(z) : z[n] = b + n
<1>1. /\ z \in Seq(Nat) /\ Len(z) = Len(f) + Len(x)
      /\ \A n \in 1 .. Len(f) : z[n] = f[n]
      /\ \A n \in 1 .. Len(x) : z[Len(f) + n] = x[n]
  BY Joined
<1> SUFFICES ASSUME NEW n \in 1 .. Len(z) PROVE z[n] = b + n
  OBVIOUS
<1>2. CASE n <= Len(f)
  <2>1. n \in 1 .. Len(f)
    BY <1>2
  <2> QED
    BY <1>1, <2>1
<1>3. CASE n > Len(f)
  <2> DEFINE m == n - Len(f)
  <2>1. m \in 1 .. Len(x) /\ n = Len(f) + m
    BY <1>1, <1>3
  <2> HIDE DEF m
  <2>2. z[n] = b + Len(f) + m
    BY <1>1, <2>1
  <2> QED
    BY <2>1, <2>2
<1> QED
  BY <1>1, <1>2, <1>3

(* A read takes the first k of the wire behind what is in the buffer: the first of      *)
(* them is the next request, the rest stays in the buffer.                             *)
Takes(f, w, k, z, y, t) == /\ z = f \o SubSeq(w, 1, k) /\ z # << >>
                           /\ y = SubSeq(w, k + 1, Len(w)) /\ t = Tail(z)

LEMMA TakenInOrder ==
  ASSUME NEW f \in Seq(Nat), NEW w \in Seq(Nat), NEW b \in Nat, NEW k \in 0 .. Len(w),
         NEW z, NEW y, NEW t
  PROVE  /\ Consecutive(f, b) /\ Consecutive(w, b + Len(f))
         /\ Takes(f, w, k, z, y, t)
         => /\ Head(z) = b + 1
            /\ t \in Seq(Nat) /\ Len(t) = Len(f) + k - 1 /\ Consecutive(t, b + 1)
            /\ y \in Seq(Nat) /\ Len(y) = Len(w) - k /\ Consecutive(y, b + 1 + Len(t))
<1>0. SUFFICES ASSUME \A n \in 1 .. Len(f) : f[n] = b + n,
                      \A n \in 1 .. Len(w) : w[n] = b + Len(f) + n,
                      z = f \o SubSeq(w, 1, k), z # << >>,
                      y = SubSeq(w, k + 1, Len(w)), t = Tail(z)
               PROVE  /\ Head(z) = b + 1
                      /\ t \in Seq(Nat) /\ Len(t) = Len(f) + k - 1
                      /\ \A n \in 1 .. Len(t) : t[n] = b + 1 + n
                      /\ y \in Seq(Nat) /\ Len(y) = Len(w) - k
                      /\ \A n \in 1 .. Len(y) : y[n] = b + 1 + Len(t) + n
  BY DEF Consecutive, Takes
<1>1. PICK x : x = SubSeq(w, 1, k)
  OBVIOUS
<1>2. /\ x \in Seq(Nat) /\ Len(x) = k /\ \A n \in 1 .. k : x[n] = w[n]
      /\ y \in Seq(Nat) /\ Len(y) = Len(w) - k
      /\ \A n \in 1 .. Len(w) - k : y[n] = w[k + n]
  <2>1. y = SubSeq(w, k + 1, Len(w))
    BY <1>0
  <2>2. x \in Seq(Nat) /\ Len(x) = k /\ \A n \in 1 .. k : x[n] = w[n]
    BY <1>1, Front
  <2>3. y \in Seq(Nat) /\ Len(y) = Len(w) - k /\ \A n \in 1 .. Len(w) - k : y[n] = w[k + n]
    BY <2>1, Back
  <2> QED
    BY <2>2, <2>3
<1>3. z = f \o x
  BY <1>0, <1>1
<1>4. z \in Seq(Nat) /\ Len(z) = Len(f) + Len(x)
  BY <1>2, <1>3, Joined
<1>5. ASSUME NEW n \in 1 .. Len(x) PROVE x[n] = b + Len(f) + n
  <2>1. n \in 1 .. k /\ n \in 1 .. Len(w)
    BY <1>2
  <2>2. w[n] = b + Len(f) + n
    BY <1>0, <2>1
  <2> QED
    BY <1>2, <2>1, <2>2
<1>6. \A n \in 1 .. Len(z) : z[n] = b + n
  <2>1. \A n \in 1 .. Len(f) : f[n] = b + n
    BY <1>0
  <2>2. x \in Seq(Nat)
    BY <1>2
  <2> QED
    BY <1>3, <1>5, <2>1, <2>2, Counted
<1>7. /\ t \in Seq(Nat) /\ Len(t) = Len(z) - 1 /\ Len(z) >= 1 /\ Head(z) = z[1]
      /\ \A n \in 1 .. Len(t) : t[n] = z[n + 1]
  <2>1. z # << >> /\ t = Tail(z) /\ z \in Seq(Nat)
    BY <1>0, <1>4
  <2> QED
    BY <2>1, Rest
<1>8. /\ Len(z) \in Nat /\ Len(f) \in Nat /\ Len(w) \in Nat /\ k \in Nat /\ Len(t) \in Nat
      /\ Len(z) = Len(f) + k /\ Len(t) = Len(f) + k - 1 /\ Len(z) >= 1
  <2>1. Len(z) \in Nat /\ Len(t) \in Nat /\ Len(x) = k
    BY <1>2, <1>4, <1>7
  <2> QED
    BY <1>4, <1>7, <2>1
<1>9. ASSUME NEW n \in 1 .. Len(t) PROVE t[n] = b + 1 + n
  <2>1. n \in Nat /\ n + 1 \in 1 .. Len(z)
    BY <1>8
  <2>2. t[n] = z[n + 1] /\ z[n + 1] = b + (n + 1)
    BY <1>6, <1>7, <2>1
  <2> QED
    BY <2>1, <2>2
<1>10. ASSUME NEW n \in 1 .. Len(y) PROVE y[n] = b + 1 + Len(t) + n
  <2>1. n \in Nat /\ n \in 1 .. Len(w) - k /\ k + n \in 1 .. Len(w)
    BY <1>2, <1>8
  <2>2. y[n] = w[k + n]
    BY <1>2, <2>1
  <2>3. w[k + n] = b + Len(f) + (k + n)
    BY <1>0, <2>1
  <2> QED
    BY <1>8, <2>1, <2>2, <2>3
<1>11. Head(z) = b + 1
  <2>1. 1 \in 1 .. Len(z)
    BY <1>8
  <2> QED
    BY <1>6, <1>7, <2>1
<1> QED
  BY <1>2, <1>7, <1>8, <1>9, <1>10, <1>11

(* A request is read and the write of its response begins.                             *)
LEMMA ReadOne ==
  ASSUME NEW s \in Sessions, SessionInv(s), State, server' = server, ops[s] = {"read"},
         NEW i, ReadGives(s, i),
         ops'[s] = {"write"}, response_'[s] \in Response, response_'[s].to = i,
         link'[s] = link[s], asked'[s] = asked[s], got'[s] = got[s]
  PROVE  SessionInv(s)'
<1>0. PICK f \in Seq(Nat), w \in Seq(Nat), b \in Nat :
         f = buffer_[s] /\ w = wire[s] /\ b = Begun(s) /\ b = Len(got[s])
  BY DEF State, Begun
<1>1. Begun(s)' = b + 1
  BY <1>0 DEF Begun
<1>2. PICK k \in 0 .. Len(w) :
         /\ f \o SubSeq(w, 1, k) # << >> /\ i = Head(f \o SubSeq(w, 1, k))
         /\ buffer_'[s] = Tail(f \o SubSeq(w, 1, k)) /\ wire'[s] = SubSeq(w, k + 1, Len(w))
  BY <1>0 DEF ReadGives, Received, State
<1>3. link[s] \in {"up", "broken"}
  BY DEF ReadGives
<1>4. ASSUME Pending(s) PROVE Pending(s)' /\ i = b + 1
  <2>1. /\ Len(asked[s]) = b + Len(f) + Len(w)
        /\ Consecutive(f, b) /\ Consecutive(w, b + Len(f))
    BY <1>0, <1>4 DEF Pending
  <2>2. PICK z, y, t : /\ z = f \o SubSeq(w, 1, k) /\ y = SubSeq(w, k + 1, Len(w))
                       /\ t = Tail(z)
    OBVIOUS
  <2>3. z # << >> /\ i = Head(z) /\ buffer_'[s] = t /\ wire'[s] = y
    BY <1>2, <2>2
  <2>4. /\ Head(z) = b + 1
        /\ t \in Seq(Nat) /\ Len(t) = Len(f) + k - 1 /\ Consecutive(t, b + 1)
        /\ y \in Seq(Nat) /\ Len(y) = Len(w) - k /\ Consecutive(y, b + 1 + Len(t))
    <3>1. Takes(f, w, k, z, y, t)
      BY <2>2, <2>3 DEF Takes
    <3> QED
      BY <2>1, <3>1, TakenInOrder
  <2>5. Len(asked[s]) = b + 1 + Len(t) + Len(y)
    <3>1. Len(t) = Len(f) + k - 1 /\ Len(y) = Len(w) - k /\ Len(asked[s]) = b + Len(f) + Len(w)
      BY <2>1, <2>4
    <3>2. Len(f) \in Nat /\ Len(w) \in Nat /\ k \in Nat
      OBVIOUS
    <3> QED
      BY <3>1, <3>2
  <2> QED
    BY <1>1, <2>3, <2>4, <2>5 DEF Pending
<1>5. Fresh(s)' /\ Single(s)' /\ Last(s)'
  BY <1>3 DEF SessionInv, Fresh, Single, Last, Operations
<1>6. Answers(s)'
  BY <1>1, <1>3, <1>4 DEF SessionInv, Answers
<1> QED
  BY <1>5, <1>6 DEF SessionInv

(* The session's write ends: it goes on reading, or it ends.                           *)
LEMMA WroteOne ==
  ASSUME NEW s \in Sessions, SessionInv(s), State, server' = server, ops[s] = {"write"}, Arrives(s),
         \/ response_[s].need_eof /\ ops'[s] \in {{}, {"shutdown"}}
         \/ ~response_[s].need_eof /\ ops'[s] = {"read"},
         link'[s] \in {link[s], "closed"}, asked'[s] = asked[s], wire'[s] = wire[s],
         buffer_'[s] = buffer_[s]
  PROVE  SessionInv(s)'
<1> DEFINE g == got[s]
           x == response_[s]
<1>0. g \in Seq(Response) /\ x \in Response
  BY DEF State, SessionInv, Single
<1>1. link[s] \notin {"none", "waiting"}
  BY DEF SessionInv, Single
<1>2. /\ link[s] = "up" => got'[s] = Append(g, x)
      /\ link[s] # "up" => got'[s] = g
  BY DEF Arrives, State
<1>3. Fresh(s)' /\ Single(s)'
  <2>1. link[s] = "tls" => got'[s] = g
    BY <1>2
  <2>2. Fresh(s)'
    BY <1>1, <2>1 DEF SessionInv, Fresh
  <2>3. Single(s)'
    BY <1>1 DEF Single, Operations
  <2> QED
    BY <2>2, <2>3
<1>4. CASE link[s] # "up"
  <2>1. got'[s] = g /\ link'[s] # "up"
    BY <1>2, <1>4
  <2>2. Last(s)'
    <3>1. \A n \in DOMAIN g : ~ g[n].need_eof
      BY DEF SessionInv, Last
    <3> QED
      BY <2>1, <3>1 DEF Last
  <2>3. Answers(s)'
    BY <2>1 DEF SessionInv, Answers
  <2> QED
    BY <1>3, <2>2, <2>3 DEF SessionInv
<1>5. CASE link[s] = "up"
  <2> DEFINE z == Append(g, x)
  <2>1. /\ Len(z) = Len(g) + 1 /\ z[Len(g) + 1] = x /\ DOMAIN z = 1 .. Len(g) + 1
        /\ \A n \in 1 .. Len(g) : z[n] = g[n]
    BY <1>0
  <2>2. got'[s] = z /\ DOMAIN g = 1 .. Len(g) /\ Len(g) \in Nat
    BY <1>0, <1>2, <1>5
  <2>3. \A n \in DOMAIN g : ~ g[n].need_eof
    BY DEF SessionInv, Last
  <2> HIDE DEF g, z, x
  <2>4. ASSUME NEW n \in DOMAIN z
        PROVE  \/ n = Len(z) /\ z[n] = x
               \/ n \in DOMAIN g /\ z[n] = g[n]
    <3>1. n \in 1 .. Len(g) + 1
      BY <2>1
    <3>2. n = Len(g) + 1 \/ n \in 1 .. Len(g)
      BY <2>2, <3>1
    <3> QED
      BY <2>1, <2>2, <3>2
  <2>5. Last(s)'
    <3> SUFFICES ASSUME NEW n \in DOMAIN z, z[n].need_eof
                 PROVE  n = Len(z) /\ "read" \notin ops'[s] /\ "write" \notin ops'[s]
      BY <2>2 DEF Last
    <3>1. n = Len(z) /\ z[n] = x
      BY <2>3, <2>4
    <3> QED
      BY <3>1 DEF x
  <2>6. Answers(s)'
    <3> SUFFICES ASSUME server # "simple" PROVE Answers(s)'
      BY DEF Answers
    <3>1. /\ \A n \in DOMAIN g : g[n].to = n
          /\ Pending(s) /\ x.to = Begun(s) /\ Begun(s) = Len(g) + 1
      BY <1>5 DEF SessionInv, Answers, Begun, g, x
    <3>2. \A n \in DOMAIN z : z[n].to = n
      BY <2>1, <2>4, <3>1
    <3>3. "read" \in ops'[s] => Begun(s)' = Begun(s) /\ "write" \notin ops'[s]
      <4> SUFFICES ASSUME "read" \in ops'[s] PROVE Begun(s)' = Begun(s) /\ "write" \notin ops'[s]
        OBVIOUS
      <4>1. ops'[s] = {"read"}
        OBVIOUS
      <4>2. Begun(s)' = Len(z)
        BY <2>1, <2>2, <4>1 DEF Begun
      <4> QED
        BY <2>1, <3>1, <4>1, <4>2
    <3>4. "write" \notin ops'[s]
      OBVIOUS
    <3>5. "read" \in ops'[s] => Pending(s)'
      BY <3>1, <3>3 DEF Pending
    <3> QED
      BY <2>2, <3>2, <3>4, <3>5 DEF Answers
  <2> QED
    BY <1>3, <2>5, <2>6 DEF SessionInv
<1> QED
  BY <1>4, <1>5

(* The TLS shutdown begins instead of a read.                                          *)
LEMMA ShutsDown ==
  ASSUME NEW s \in Sessions, SessionInv(s), server' = server, ops[s] = {"read"},
         ops'[s] = {"shutdown"}, link'[s] = link[s], asked'[s] = asked[s],
         wire'[s] = wire[s], buffer_'[s] = buffer_[s], got'[s] = got[s]
  PROVE  SessionInv(s)'
<1>1. link[s] \notin {"none", "waiting"} /\ ops'[s] # {} /\ "read" \notin ops'[s] /\ "write" \notin ops'[s]
  BY DEF SessionInv, Single
<1>2. Fresh(s)' /\ Single(s)'
  BY <1>1 DEF SessionInv, Fresh, Single, Operations
<1>3. Last(s)' /\ Answers(s)'
  BY <1>1 DEF SessionInv, Last, Answers
<1> QED
  BY <1>2, <1>3 DEF SessionInv

(* The synchronous server goes from a read to a write without a request, or drops the  *)
(* response to one and reads on.                                                       *)
LEMMA SimpleGoesOn ==
  ASSUME NEW s \in Sessions, SessionInv(s), server = "simple", server' = server,
         ops[s] = {"read"}, link[s] \in {"up", "broken"},
         \/ ops'[s] = {"write"} /\ response_'[s] \in Response
         \/ ops'[s] = {"read"},
         link'[s] = link[s], got'[s] = got[s]
  PROVE  SessionInv(s)'
<1>1. Fresh(s)' /\ Single(s)'
  BY DEF SessionInv, Fresh, Single, Operations
<1>2. Last(s)' /\ Answers(s)'
  BY DEF SessionInv, Last, Answers
<1> QED
  BY <1>1, <1>2 DEF SessionInv

-----------------------------------------------------------------------------
(* Initial states and steps.                                                           *)

LEMMA InitIInv == Init => IInv
<1> SUFFICES ASSUME Init PROVE IInv
  OBVIOUS
<1>1. \A s \in Sessions : /\ link[s] = "none" /\ asked[s] = << >> /\ wire[s] = << >>
                          /\ got[s] = << >> /\ buffer_[s] = << >> /\ ops[s] = {}
  BY DEF Init
<1>2. State
  <2>1. \A s \in Sessions : Len(asked[s]) = 0 /\ Quota[s] \in Nat
    BY <1>1, RequestsAssumption
  <2>2. \A s \in Sessions : Len(asked[s]) <= Quota[s]
    BY <2>1
  <2>3. /\ asked \in [Sessions -> Seq(Requests)] /\ got \in [Sessions -> Seq(Response)]
        /\ wire \in [Sessions -> Seq(Nat)] /\ buffer_ \in [Sessions -> Seq(Nat)]
    BY DEF Init
  <2> QED
    BY <2>2, <2>3 DEF Init, State, Links
<1>3. ASSUME NEW s \in Sessions PROVE SessionInv(s)
  <2>1. Fresh(s) /\ Single(s)
    BY <1>1 DEF Fresh, Single
  <2>2. DOMAIN got[s] = {}
    BY <1>1
  <2> QED
    BY <1>1, <2>1, <2>2 DEF SessionInv, Last, Answers
<1> QED
  BY <1>2, <1>3 DEF IInv

(* Clients and network.                                                                *)
LEMMA WorldKeeps ==
  ASSUME IInv, World
  PROVE  IInv'
<1>0. State /\ \A t \in Sessions : SessionInv(t)
  BY DEF IInv
<1>1. ASSUME NEW s \in Sessions, Open(s) PROVE IInv'
  <2>1. State'
    BY <1>0, <1>1 DEF State, Open, sessionVars, Links
  <2>2. SessionInv(s)'
    BY <1>0, <1>1, LinkChanges DEF State, Open, sessionVars
  <2>3. \A t \in Sessions : SessionInv(t)'
    BY <1>0, <1>1, <2>2, OneTouched DEF State, Open, sessionVars
  <2> QED
    BY <2>1, <2>3 DEF IInv
<1>2. ASSUME NEW s \in Sessions, Finish(s) PROVE IInv'
  <2>1. State'
    BY <1>0, <1>2 DEF State, Finish, sessionVars
  <2>2. \A t \in Sessions : SessionInv(t)'
    BY <1>0, <1>2, Untouched DEF Finish, sessionVars
  <2> QED
    BY <2>1, <2>2 DEF IInv
<1>3. ASSUME NEW s \in Sessions, Break(s) PROVE IInv'
  <2>1. State'
    BY <1>0, <1>3 DEF State, Break, sessionVars, Links
  <2>2. SessionInv(s)'
    BY <1>0, <1>3, LinkChanges DEF State, Break, sessionVars
  <2>3. \A t \in Sessions : SessionInv(t)'
    BY <1>0, <1>3, <2>2, OneTouched DEF State, Break, sessionVars
  <2> QED
    BY <2>1, <2>3 DEF IInv
<1>4. ASSUME NEW s \in Sessions, NEW r \in Requests, Ask(s, r) PROVE IInv'
  <2>1. /\ asked' = [asked EXCEPT ![s] = Append(asked[s], r)]
        /\ wire' = [wire EXCEPT ![s] = Append(wire[s], Len(asked[s]) + 1)]
        /\ link[s] = "up" /\ Len(asked[s]) < Quota[s]
        /\ UNCHANGED <<server, up, listening, accepting, link, eof, got, ops, expires, buffer_, response_>>
    BY <1>4 DEF Ask, sessionVars
  <2>2. /\ Append(asked[s], r) \in Seq(Requests) /\ Append(wire[s], Len(asked[s]) + 1) \in Seq(Nat)
        /\ Len(Append(asked[s], r)) = Len(asked[s]) + 1
    BY <1>0 DEF State
  <2>3. Len(asked[s]) + 1 <= Quota[s]
    <3>1. Quota[s] \in Nat /\ Len(asked[s]) \in Nat
      BY <1>0, RequestsAssumption DEF State
    <3> QED
      BY <2>1, <3>1
  <2>4. State'
    <3>1. /\ asked' \in [Sessions -> Seq(Requests)] /\ wire' \in [Sessions -> Seq(Nat)]
      BY <1>0, <2>1, <2>2 DEF State
    <3>2. \A t \in Sessions : Len(asked'[t]) <= Quota[t]
      BY <1>0, <2>1, <2>2, <2>3 DEF State
    <3> QED
      BY <1>0, <2>1, <3>1, <3>2 DEF State
  <2>5. asked'[s] = Append(asked[s], r) /\ wire'[s] = Append(wire[s], Len(asked[s]) + 1)
    BY <1>0, <2>1 DEF State
  <2>6. SessionInv(s)'
    BY <1>0, <2>1, <2>5, AskedOne
  <2>7. \A t \in Sessions \ {s} : asked'[t] = asked[t] /\ wire'[t] = wire[t]
    BY <1>0, <2>1 DEF State
  <2>8. \A t \in Sessions : SessionInv(t)'
    BY <2>1, <2>6, <2>7, OneTouched
  <2> QED
    BY <2>4, <2>8 DEF IInv
<1> QED
  BY <1>1, <1>2, <1>3, <1>4 DEF World

(* What the handlers have in common.                                                   *)
LEMMA DestroyedKeeps ==
  ASSUME IInv, NEW s \in Sessions, Destroyed(s),
         UNCHANGED <<server, up, listening, accepting, asked, wire, eof, got, buffer_>>
  PROVE  IInv'
<1>0. State /\ \A t \in Sessions : SessionInv(t)
  BY DEF IInv
<1>1. State'
  BY <1>0 DEF State, Destroyed, Links
<1>2. SessionInv(s)'
  BY <1>0, Gone DEF State, Destroyed
<1>3. \A t \in Sessions : SessionInv(t)'
  BY <1>2, <1>0, OneTouched DEF State, Destroyed
<1> QED
  BY <1>1, <1>3 DEF IInv

LEMMA ExitKeeps ==
  ASSUME IInv, Exit, UNCHANGED <<server, asked, eof, got>>,
         listening' \in {"no", "yes", "failed"},
         wire' \in [Sessions -> Seq(Nat)], buffer_' \in [Sessions -> Seq(Nat)],
         \A t \in Sessions : link[t] = "none" => wire'[t] = wire[t] /\ buffer_'[t] = buffer_[t]
  PROVE  IInv'
<1>0. State /\ \A t \in Sessions : SessionInv(t)
  BY DEF IInv
<1>1. State'
  BY <1>0 DEF State, Exit, Links
<1>2. ASSUME NEW t \in Sessions PROVE SessionInv(t)'
  <2>1. ops'[t] = {}
    BY DEF Exit
  <2>2. CASE link[t] = "none"
    <3>1. link'[t] = "none"
      BY <2>2 DEF Exit
    <3>2. Fresh(t)'
      BY <1>0, <2>2, <3>1 DEF SessionInv, Fresh
    <3>3. Single(t)' /\ Last(t)' /\ Answers(t)'
      BY <1>0, <2>1, <3>1 DEF SessionInv, Single, Last, Answers
    <3> QED
      BY <3>2, <3>3 DEF SessionInv
  <2>3. CASE link[t] # "none"
    <3>1. link'[t] = "closed"
      BY <2>3 DEF Exit
    <3> QED
      BY <1>0, <2>1, <3>1, Gone
  <2> QED
    BY <2>2, <2>3
<1> QED
  BY <1>1, <1>2 DEF IInv

(* What http::read leaves has the types of before.                                     *)
LEMMA ReadTypes ==
  ASSUME State, NEW s \in Sessions, NEW i, ReadGives(s, i)
  PROVE  /\ wire' \in [Sessions -> Seq(Nat)] /\ buffer_' \in [Sessions -> Seq(Nat)]
         /\ \A t \in Sessions \ {s} : wire'[t] = wire[t] /\ buffer_'[t] = buffer_[t]
         /\ i \in Nat /\ link[s] \in {"up", "broken"}
<1>1. PICK f \in Seq(Nat), w \in Seq(Nat) : f = buffer_[s] /\ w = wire[s]
  BY DEF State
<1>2. PICK k \in 0 .. Len(w) :
         /\ f \o SubSeq(w, 1, k) # << >> /\ i = Head(f \o SubSeq(w, 1, k))
         /\ buffer_' = [buffer_ EXCEPT ![s] = Tail(f \o SubSeq(w, 1, k))]
         /\ wire' = [wire EXCEPT ![s] = SubSeq(w, k + 1, Len(w))]
  BY <1>1 DEF ReadGives, Received
<1>3. PICK x, y, z, t : /\ x = SubSeq(w, 1, k) /\ y = SubSeq(w, k + 1, Len(w))
                        /\ z = f \o x /\ t = Tail(z)
  OBVIOUS
<1>4. x \in Seq(Nat) /\ y \in Seq(Nat)
  <2>1. x = SubSeq(w, 1, k) /\ y = SubSeq(w, k + 1, Len(w))
    BY <1>3
  <2>2. x \in Seq(Nat)
    BY <2>1, Front
  <2>3. y \in Seq(Nat)
    BY <2>1, Back
  <2> QED
    BY <2>2, <2>3
<1>5. z \in Seq(Nat) /\ z # << >> /\ i = Head(z)
  BY <1>2, <1>3, <1>4, Joined
<1>6. t \in Seq(Nat) /\ Len(z) >= 1 /\ i = z[1]
  BY <1>3, <1>5, Rest
<1>7. i \in Nat
  BY <1>5, <1>6
<1>8. buffer_' = [buffer_ EXCEPT ![s] = t] /\ wire' = [wire EXCEPT ![s] = y]
  BY <1>2, <1>3
<1>9. link[s] \in {"up", "broken"}
  BY DEF ReadGives
<1> QED
  BY <1>4, <1>6, <1>7, <1>8, <1>9 DEF State

(* A request is read, and its response is kept and written.                            *)
LEMMA RequestKeeps ==
  ASSUME IInv, NEW s \in Sessions, "read" \in ops[s], NEW i, ReadGives(s, i),
         NEW res, res.status \in Statuses, res.need_eof \in BOOLEAN,
         response_' = [response_ EXCEPT ![s] = [to |-> i, status |-> res.status,
                                                need_eof |-> res.need_eof]],
         Continue(s, "read", "write"),
         UNCHANGED <<server, up, listening, accepting, link, asked, eof, got, expires>>
  PROVE  IInv'
<1>0. State /\ \A t \in Sessions : SessionInv(t)
  BY DEF IInv
<1>1. /\ wire' \in [Sessions -> Seq(Nat)] /\ buffer_' \in [Sessions -> Seq(Nat)]
      /\ \A t \in Sessions \ {s} : wire'[t] = wire[t] /\ buffer_'[t] = buffer_[t]
      /\ i \in Nat
  BY <1>0, ReadTypes
<1>2. PICK x \in Response : x.to = i /\ x = [to |-> i, status |-> res.status, need_eof |-> res.need_eof]
  BY <1>1 DEF Response
<1>3. ops[s] = {"read"}
  BY <1>0 DEF SessionInv, Single
<1>4. response_' = [response_ EXCEPT ![s] = x]
  BY <1>2
<1>5. ops' = [ops EXCEPT ![s] = {"write"}]
  BY <1>3 DEF Continue
<1>6. State'
  BY <1>0, <1>1, <1>4, <1>5 DEF State, Operations
<1>7. /\ response_'[s] = x /\ ops'[s] = {"write"}
      /\ \A t \in Sessions \ {s} : response_'[t] = response_[t] /\ ops'[t] = ops[t]
  BY <1>0, <1>4, <1>5 DEF State
<1>8. SessionInv(s)'
  BY <1>0, <1>2, <1>3, <1>7, ReadOne
<1>9. \A t \in Sessions : SessionInv(t)'
  BY <1>1, <1>7, <1>8, OneTouched
<1> QED
  BY <1>6, <1>9 DEF IInv

(* A response is written.                                                              *)
LEMMA ResponseKeeps ==
  ASSUME IInv, NEW s \in Sessions, "write" \in ops[s], Arrives(s),
         \/ response_[s].need_eof /\ \/ Destroyed(s)
                                     \/ /\ Continue(s, "write", "shutdown")
                                        /\ expires' \in [Sessions -> BOOLEAN]
                                        /\ UNCHANGED <<link, response_>>
         \/ /\ ~response_[s].need_eof
            /\ response_' = [response_ EXCEPT ![s] = nullptr]
            /\ Continue(s, "write", "read") /\ expires' \in [Sessions -> BOOLEAN]
            /\ UNCHANGED link,
         UNCHANGED <<server, up, listening, accepting, asked, wire, eof, buffer_>>
  PROVE  IInv'
<1>0. State /\ \A t \in Sessions : SessionInv(t)
  BY DEF IInv
<1>1. ops[s] = {"write"} /\ response_[s] \in Response
  BY <1>0 DEF SessionInv, Single
<1>2. got' \in [Sessions -> Seq(Response)] /\ \A t \in Sessions \ {s} : got'[t] = got[t]
  <2>1. Append(got[s], response_[s]) \in Seq(Response)
    BY <1>0, <1>1 DEF State
  <2> QED
    BY <1>0, <2>1 DEF State, Arrives
<1>3. CASE response_[s].need_eof /\ Destroyed(s)
  <2>1. /\ ops' = [ops EXCEPT ![s] = {}] /\ expires' = [expires EXCEPT ![s] = FALSE]
        /\ link' = [link EXCEPT ![s] = "closed"]
        /\ response_' = [response_ EXCEPT ![s] = nullptr]
    BY <1>3 DEF Destroyed
  <2>2. State'
    BY <1>0, <1>2, <2>1 DEF State, Links
  <2>3. /\ ops'[s] = {} /\ link'[s] = "closed"
        /\ \A t \in Sessions \ {s} : ops'[t] = ops[t] /\ link'[t] = link[t] /\ response_'[t] = response_[t]
    BY <1>0, <2>1 DEF State
  <2>4. SessionInv(s)'
    BY <1>0, <1>1, <1>3, <2>3, WroteOne
  <2>5. \A t \in Sessions : SessionInv(t)'
    BY <1>2, <2>3, <2>4, OneTouched
  <2> QED
    BY <2>2, <2>5 DEF IInv
<1>4. CASE /\ response_[s].need_eof /\ Continue(s, "write", "shutdown")
           /\ expires' \in [Sessions -> BOOLEAN] /\ UNCHANGED <<link, response_>>
  <2>1. ops' = [ops EXCEPT ![s] = {"shutdown"}]
    BY <1>1, <1>4 DEF Continue
  <2>2. State'
    BY <1>0, <1>2, <1>4, <2>1 DEF State, Operations
  <2>3. ops'[s] = {"shutdown"} /\ \A t \in Sessions \ {s} : ops'[t] = ops[t]
    BY <1>0, <2>1 DEF State
  <2>4. SessionInv(s)'
    BY <1>0, <1>1, <1>4, <2>3, WroteOne
  <2>5. \A t \in Sessions : SessionInv(t)'
    BY <1>2, <1>4, <2>3, <2>4, OneTouched
  <2> QED
    BY <2>2, <2>5 DEF IInv
<1>5. CASE /\ ~response_[s].need_eof /\ response_' = [response_ EXCEPT ![s] = nullptr]
           /\ Continue(s, "write", "read") /\ expires' \in [Sessions -> BOOLEAN] /\ UNCHANGED link
  <2>1. ops' = [ops EXCEPT ![s] = {"read"}]
    BY <1>1, <1>5 DEF Continue
  <2>2. State'
    BY <1>0, <1>2, <1>5, <2>1 DEF State, Operations
  <2>3. /\ ops'[s] = {"read"}
        /\ \A t \in Sessions \ {s} : ops'[t] = ops[t] /\ response_'[t] = response_[t]
    BY <1>0, <1>5, <2>1 DEF State
  <2>4. SessionInv(s)'
    BY <1>0, <1>1, <1>5, <2>3, WroteOne
  <2>5. \A t \in Sessions : SessionInv(t)'
    BY <1>2, <1>5, <2>3, <2>4, OneTouched
  <2> QED
    BY <2>2, <2>5 DEF IInv
<1> QED
  BY <1>3, <1>4, <1>5

-----------------------------------------------------------------------------
(* The servers.                                                                        *)

LEMMA AsyncKeeps ==
  ASSUME IInv, Async!Next
  PROVE  IInv'
<1>0. State /\ \A t \in Sessions : SessionInv(t)
  BY DEF IInv
<1>1. CASE Async!Listener \/ Async!on_accept_error
  <2>1. /\ accepting' \in BOOLEAN /\ listening' \in {"no", "yes", "failed"}
        /\ UNCHANGED <<server, up, link, asked, wire, eof, got, ops, expires, buffer_, response_>>
    BY <1>0, <1>1 DEF State, Async!Listener, Async!on_accept_error, Async!netVars, Async!sessionVars
  <2>2. State'
    BY <1>0, <2>1 DEF State
  <2>3. \A t \in Sessions : SessionInv(t)'
    BY <1>0, <2>1, Untouched
  <2> QED
    BY <2>2, <2>3 DEF IInv
<1>2. CASE Async!main_returns
  <2>1. Exit /\ UNCHANGED <<server, listening, asked, wire, eof, got, buffer_>>
    BY <1>2 DEF Async!main_returns, Async!Exit, Exit
  <2> QED
    BY <1>0, <2>1, ExitKeeps DEF State
<1>3. ASSUME NEW s \in Sessions, Async!on_accept(s) PROVE IInv'
  <2>1. /\ link[s] = "waiting" /\ link' = [link EXCEPT ![s] = "up"] /\ accepting' = FALSE
        /\ expires' = [expires EXCEPT ![s] = TRUE] /\ Continue(s, "read", "read")
        /\ UNCHANGED <<server, up, listening, asked, wire, eof, got, response_, buffer_>>
    BY <1>3 DEF Async!on_accept, Async!do_read, Async!Continue, Continue
  <2>2. ops[s] = {}
    BY <1>0, <2>1 DEF SessionInv, Single
  <2>3. ops' = [ops EXCEPT ![s] = {"read"}]
    BY <2>1, <2>2 DEF Continue
  <2>4. State'
    BY <1>0, <2>1, <2>3 DEF State, Links, Operations
  <2>5. /\ ops'[s] = {"read"} /\ link'[s] = "up"
        /\ \A t \in Sessions \ {s} : ops'[t] = ops[t] /\ link'[t] = link[t]
    BY <1>0, <2>1, <2>3 DEF State
  <2>6. SessionInv(s)'
    BY <1>0, <2>1, <2>5, Starts
  <2>7. \A t \in Sessions : SessionInv(t)'
    BY <2>1, <2>5, <2>6, OneTouched
  <2> QED
    BY <2>4, <2>7 DEF IInv
<1>4. ASSUME NEW s \in Sessions, Async!on_read(s) PROVE IInv'
  <2>1. PICK i \in DOMAIN asked[s] :
          Async!ReadGives(s, i) /\ Async!send_lambda(s, i, Async!handle_request(asked[s][i]))
    BY <1>4 DEF Async!on_read
  <2>2. PICK res : res = Async!handle_request(asked[s][i])
    OBVIOUS
  <2>3. res.status \in Statuses /\ res.need_eof \in BOOLEAN
    BY <2>2 DEF Async!handle_request, Statuses
  <2>4. ReadGives(s, i)
    BY <2>1 DEF Async!ReadGives, ReadGives, Async!Received, Received, Async!Malformed, Malformed
  <2>5. /\ "read" \in ops[s]
        /\ response_' = [response_ EXCEPT ![s] = [to |-> i, status |-> res.status,
                                                  need_eof |-> res.need_eof]]
        /\ Continue(s, "read", "write")
        /\ UNCHANGED <<server, up, listening, accepting, link, asked, eof, got, expires>>
    BY <1>4, <2>1, <2>2 DEF Async!on_read, Async!send_lambda, Async!Continue, Continue
  <2> QED
    BY <2>3, <2>4, <2>5, RequestKeeps
<1>5. ASSUME NEW s \in Sessions, Async!on_read_error(s) \/ Async!on_write_error(s) PROVE IInv'
  <2>1. /\ Destroyed(s)
        /\ UNCHANGED <<server, up, listening, accepting, asked, wire, eof, got, buffer_>>
    BY <1>5 DEF Async!on_read_error, Async!on_write_error, Async!do_close, Async!Destroyed, Destroyed
  <2> QED
    BY <2>1, DestroyedKeeps
<1>6. ASSUME NEW s \in Sessions, Async!on_write(s) PROVE IInv'
  <2>1. /\ "write" \in ops[s] /\ Arrives(s)
        /\ UNCHANGED <<server, up, listening, accepting, asked, wire, eof, buffer_>>
    BY <1>6 DEF Async!on_write, Async!Arrives, Arrives, Async!do_read
  <2>2. CASE response_[s].need_eof /\ Async!do_close(s)
    <3>1. Destroyed(s)
      BY <2>2 DEF Async!do_close, Async!Destroyed, Destroyed
    <3> QED
      BY <2>1, <2>2, <3>1, ResponseKeeps
  <2>3. CASE /\ ~response_[s].need_eof /\ response_' = [response_ EXCEPT ![s] = nullptr]
             /\ Async!do_read(s, "write") /\ UNCHANGED link
    <3>1. Continue(s, "write", "read") /\ expires' = [expires EXCEPT ![s] = TRUE]
      BY <2>3 DEF Async!do_read, Async!Continue, Continue
    <3>2. expires' \in [Sessions -> BOOLEAN]
      BY <1>0, <3>1 DEF State
    <3> QED
      BY <2>1, <2>3, <3>1, <3>2, ResponseKeeps
  <2> QED
    BY <1>6, <2>2, <2>3 DEF Async!on_write
<1> QED
  BY <1>1, <1>2, <1>3, <1>4, <1>5, <1>6 DEF Async!Next, Async!Handlers

LEMMA SslKeeps ==
  ASSUME IInv, Ssl!Next
  PROVE  IInv'
<1>0. State /\ \A t \in Sessions : SessionInv(t)
  BY DEF IInv
<1>1. CASE Ssl!Listener
  <2>1. /\ accepting' \in BOOLEAN /\ listening' \in {"no", "yes", "failed"}
        /\ UNCHANGED <<server, up, link, asked, wire, eof, got, ops, expires, buffer_, response_>>
    BY <1>0, <1>1 DEF State, Ssl!Listener, Ssl!netVars, Ssl!sessionVars
  <2>2. State'
    BY <1>0, <2>1 DEF State
  <2>3. \A t \in Sessions : SessionInv(t)'
    BY <1>0, <2>1, Untouched
  <2> QED
    BY <2>2, <2>3 DEF IInv
<1>2. ASSUME NEW s \in Sessions, Ssl!on_accept(s) PROVE IInv'
  <2>1. /\ link[s] = "waiting" /\ link' = [link EXCEPT ![s] = "tls"]
        /\ expires' = [expires EXCEPT ![s] = TRUE]
        /\ ops' = [ops EXCEPT ![s] = ops[s] \cup {"handshake"}]
        /\ UNCHANGED <<server, up, listening, accepting, asked, wire, eof, got, response_, buffer_>>
    BY <1>2 DEF Ssl!on_accept, Ssl!on_run
  <2>2. ops[s] = {}
    BY <1>0, <2>1 DEF SessionInv, Single
  <2>3. ops' = [ops EXCEPT ![s] = {"handshake"}]
    BY <2>1, <2>2
  <2>4. State'
    BY <1>0, <2>1, <2>3 DEF State, Links, Operations
  <2>5. /\ ops'[s] = {"handshake"} /\ link'[s] = "tls"
        /\ \A t \in Sessions \ {s} : ops'[t] = ops[t] /\ link'[t] = link[t]
    BY <1>0, <2>1, <2>3 DEF State
  <2>6. SessionInv(s)'
    BY <1>0, <2>1, <2>5, Shakes
  <2>7. \A t \in Sessions : SessionInv(t)'
    BY <2>1, <2>5, <2>6, OneTouched
  <2> QED
    BY <2>4, <2>7 DEF IInv
<1>3. ASSUME NEW s \in Sessions, Ssl!on_accept_error(s) PROVE IInv'
  <2>1. /\ link' = [link EXCEPT ![s] = "broken"]
        /\ UNCHANGED <<server, up, listening, accepting, asked, wire, eof, got, ops, expires,
                       buffer_, response_>>
    BY <1>3 DEF Ssl!on_accept_error, Ssl!sessionVars
  <2>2. State'
    BY <1>0, <2>1 DEF State, Links
  <2>3. link'[s] = "broken" /\ \A t \in Sessions \ {s} : link'[t] = link[t]
    BY <1>0, <2>1 DEF State
  <2>4. SessionInv(s)'
    BY <1>0, <2>1, <2>3, LinkChanges
  <2>5. \A t \in Sessions : SessionInv(t)'
    BY <2>1, <2>3, <2>4, OneTouched
  <2> QED
    BY <2>2, <2>5 DEF IInv
<1>4. ASSUME NEW s \in Sessions, Ssl!on_handshake(s) PROVE IInv'
  <2>1. /\ link[s] = "tls" /\ link' = [link EXCEPT ![s] = "up"] /\ "handshake" \in ops[s]
        /\ expires' = [expires EXCEPT ![s] = TRUE] /\ Continue(s, "handshake", "read")
        /\ UNCHANGED <<server, up, listening, accepting, asked, wire, eof, got, response_, buffer_>>
    BY <1>4 DEF Ssl!on_handshake, Ssl!do_read, Ssl!Continue, Continue
  <2>2. ops[s] = {"handshake"}
    BY <1>0, <2>1 DEF SessionInv, Single
  <2>3. ops' = [ops EXCEPT ![s] = {"read"}]
    BY <2>1, <2>2 DEF Continue
  <2>4. State'
    BY <1>0, <2>1, <2>3 DEF State, Links, Operations
  <2>5. /\ ops'[s] = {"read"} /\ link'[s] = "up"
        /\ \A t \in Sessions \ {s} : ops'[t] = ops[t] /\ link'[t] = link[t]
    BY <1>0, <2>1, <2>3 DEF State
  <2>6. SessionInv(s)'
    BY <1>0, <2>1, <2>5, Starts
  <2>7. \A t \in Sessions : SessionInv(t)'
    BY <2>1, <2>5, <2>6, OneTouched
  <2> QED
    BY <2>4, <2>7 DEF IInv
<1>5. ASSUME NEW s \in Sessions, Ssl!on_error(s) \/ Ssl!on_shutdown(s) PROVE IInv'
  <2>1. /\ Destroyed(s)
        /\ UNCHANGED <<server, up, listening, accepting, asked, wire, eof, got, buffer_>>
    BY <1>5 DEF Ssl!on_error, Ssl!on_shutdown, Ssl!Destroyed, Destroyed
  <2> QED
    BY <2>1, DestroyedKeeps
<1>6. ASSUME NEW s \in Sessions, Ssl!on_read(s) PROVE IInv'
  <2>1. PICK i \in DOMAIN asked[s] :
          Ssl!ReadGives(s, i) /\ Ssl!send_lambda(s, i, Ssl!handle_request(asked[s][i]))
    BY <1>6 DEF Ssl!on_read
  <2>2. PICK res : res = Ssl!handle_request(asked[s][i])
    OBVIOUS
  <2>3. res.status \in Statuses /\ res.need_eof \in BOOLEAN
    BY <2>2 DEF Ssl!handle_request, Statuses
  <2>4. ReadGives(s, i)
    BY <2>1 DEF Ssl!ReadGives, ReadGives, Ssl!Received, Received, Ssl!Malformed, Malformed
  <2>5. /\ "read" \in ops[s]
        /\ response_' = [response_ EXCEPT ![s] = [to |-> i, status |-> res.status,
                                                  need_eof |-> res.need_eof]]
        /\ Continue(s, "read", "write")
        /\ UNCHANGED <<server, up, listening, accepting, link, asked, eof, got, expires>>
    BY <1>6, <2>1, <2>2 DEF Ssl!on_read, Ssl!send_lambda, Ssl!Continue, Continue
  <2> QED
    BY <2>3, <2>4, <2>5, RequestKeeps
<1>7. ASSUME NEW s \in Sessions, Ssl!on_read_aborts(s) PROVE IInv'
  <2>1. PICK i \in DOMAIN asked[s] : Ssl!ReadGives(s, i)
    BY <1>7 DEF Ssl!on_read_aborts
  <2>2. ReadGives(s, i)
    BY <2>1 DEF Ssl!ReadGives, ReadGives, Ssl!Received, Received, Ssl!Malformed, Malformed
  <2>3. /\ wire' \in [Sessions -> Seq(Nat)] /\ buffer_' \in [Sessions -> Seq(Nat)]
        /\ \A t \in Sessions \ {s} : wire'[t] = wire[t] /\ buffer_'[t] = buffer_[t]
        /\ link[s] \in {"up", "broken"}
    BY <1>0, <2>2, ReadTypes
  <2>4. Exit /\ UNCHANGED <<server, listening, asked, eof, got>>
    BY <1>7 DEF Ssl!on_read_aborts, Ssl!Exit, Exit
  <2>5. \A t \in Sessions : link[t] = "none" => wire'[t] = wire[t] /\ buffer_'[t] = buffer_[t]
    BY <2>3
  <2>6. listening' \in {"no", "yes", "failed"}
    BY <1>0, <2>4 DEF State
  <2> QED
    BY <2>3, <2>4, <2>5, <2>6, ExitKeeps
<1>8. ASSUME NEW s \in Sessions, Ssl!on_read_end_of_stream(s) PROVE IInv'
  <2>1. /\ "read" \in ops[s] /\ Continue(s, "read", "shutdown")
        /\ expires' = [expires EXCEPT ![s] = TRUE]
        /\ UNCHANGED <<server, up, listening, accepting, link, asked, wire, eof, got, buffer_, response_>>
    BY <1>8 DEF Ssl!on_read_end_of_stream, Ssl!do_close, Ssl!Continue, Continue, Ssl!netVars
  <2>2. ops[s] = {"read"}
    BY <1>0, <2>1 DEF SessionInv, Single
  <2>3. ops' = [ops EXCEPT ![s] = {"shutdown"}]
    BY <2>1, <2>2 DEF Continue
  <2>4. State'
    BY <1>0, <2>1, <2>3 DEF State, Operations
  <2>5. ops'[s] = {"shutdown"} /\ \A t \in Sessions \ {s} : ops'[t] = ops[t]
    BY <1>0, <2>3 DEF State
  <2>6. SessionInv(s)'
    BY <1>0, <2>1, <2>2, <2>5, ShutsDown
  <2>7. \A t \in Sessions : SessionInv(t)'
    BY <2>1, <2>5, <2>6, OneTouched
  <2> QED
    BY <2>4, <2>7 DEF IInv
<1>9. ASSUME NEW s \in Sessions, Ssl!on_write(s) PROVE IInv'
  <2>1. /\ "write" \in ops[s] /\ Arrives(s)
        /\ UNCHANGED <<server, up, listening, accepting, link, asked, wire, eof, buffer_>>
    BY <1>9 DEF Ssl!on_write, Ssl!Arrives, Arrives, Ssl!do_read
  <2>2. CASE response_[s].need_eof /\ Ssl!do_close(s, "write") /\ UNCHANGED response_
    <3>1. Continue(s, "write", "shutdown") /\ expires' = [expires EXCEPT ![s] = TRUE]
      BY <2>2 DEF Ssl!do_close, Ssl!Continue, Continue
    <3>2. expires' \in [Sessions -> BOOLEAN]
      BY <1>0, <3>1 DEF State
    <3> QED
      BY <2>1, <2>2, <3>1, <3>2, ResponseKeeps
  <2>3. CASE /\ ~response_[s].need_eof /\ response_' = [response_ EXCEPT ![s] = nullptr]
             /\ Ssl!do_read(s, "write")
    <3>1. Continue(s, "write", "read") /\ expires' = [expires EXCEPT ![s] = TRUE]
      BY <2>3 DEF Ssl!do_read, Ssl!Continue, Continue
    <3>2. expires' \in [Sessions -> BOOLEAN]
      BY <1>0, <3>1 DEF State
    <3> QED
      BY <2>1, <2>3, <3>1, <3>2, ResponseKeeps
  <2> QED
    BY <1>9, <2>2, <2>3 DEF Ssl!on_write
<1> QED
  BY <1>1, <1>2, <1>3, <1>4, <1>5, <1>6, <1>7, <1>8, <1>9 DEF Ssl!Next, Ssl!Handlers

(* What the synchronous server answers is a response.                                  *)
LEMMA SimpleResponses ==
  ASSUME NEW r \in Requests, r # Malformed, NEW res \in Simple!handle_request(r)
  PROVE  res.status \in Statuses /\ res.need_eof \in BOOLEAN
<1>1. PICK k \in BOOLEAN : k = ~r.keep_alive
  OBVIOUS
<1>2. r.target \in {"file", "illegal", "missing", "unreadable"}
  BY RequestsAssumption DEF Request
<1>3. \/ res = [status |-> "bad_request", need_eof |-> k]
      \/ res = [status |-> "not_found", need_eof |-> k]
      \/ res = [status |-> "server_error", need_eof |-> TRUE]
      \/ res = [status |-> "ok", need_eof |-> k]
  <2>1. CASE Simple!Refused(r)
    BY <1>1, <2>1 DEF Simple!handle_request
  <2>2. CASE ~Simple!Refused(r)
    <3>1. CASE r.target = "missing"
      BY <1>1, <2>2, <3>1 DEF Simple!handle_request
    <3>2. CASE r.target = "unreadable"
      BY <1>1, <2>2, <3>2 DEF Simple!handle_request
    <3>3. CASE r.target = "file"
      BY <1>1, <2>2, <3>3 DEF Simple!handle_request
    <3> QED
      BY <1>2, <2>2, <3>1, <3>2, <3>3 DEF Simple!Refused
  <2> QED
    BY <2>1, <2>2
<1>4. res.status \in Statuses
  BY <1>3 DEF Statuses
<1>5. res.need_eof = k \/ res.need_eof = TRUE
  BY <1>3
<1> QED
  BY <1>4, <1>5, Zenon

LEMMA SimpleKeeps ==
  ASSUME IInv, Simple!Next
  PROVE  IInv'
<1>0. State /\ \A t \in Sessions : SessionInv(t)
  BY DEF IInv
<1>1. CASE Simple!acceptor
  <2>1. UNCHANGED <<server, asked, wire, eof, got, buffer_>>
    BY <1>1 DEF Simple!acceptor
  <2>2. CASE /\ listening' = "yes" /\ accepting' = TRUE
             /\ UNCHANGED <<up, ops, expires, response_, link>>
    <3>1. State'
      BY <1>0, <2>1, <2>2 DEF State
    <3>2. \A t \in Sessions : SessionInv(t)'
      BY <1>0, <2>1, <2>2, Untouched
    <3> QED
      BY <3>1, <3>2 DEF IInv
  <2>3. CASE listening' = "failed" /\ Simple!Exit
    <3>1. Exit
      BY <2>3 DEF Simple!Exit, Exit
    <3> QED
      BY <1>0, <2>1, <2>3, <3>1, ExitKeeps DEF State
  <2> QED
    BY <1>1, <2>2, <2>3 DEF Simple!acceptor
<1>2. ASSUME NEW s \in Sessions, Simple!main_accept(s) PROVE IInv'
  <2>1. /\ link[s] = "waiting" /\ UNCHANGED <<server, listening, asked, wire, eof, got, buffer_>>
    BY <1>2 DEF Simple!main_accept
  <2>2. CASE /\ link' = [link EXCEPT ![s] = "up"] /\ ops' = [ops EXCEPT ![s] = {"read"}]
             /\ UNCHANGED <<up, accepting, expires, response_>>
    <3>1. State'
      BY <1>0, <2>1, <2>2 DEF State, Links, Operations
    <3>2. /\ ops'[s] = {"read"} /\ link'[s] = "up"
          /\ \A t \in Sessions \ {s} : ops'[t] = ops[t] /\ link'[t] = link[t]
      BY <1>0, <2>2 DEF State
    <3>3. SessionInv(s)'
      BY <1>0, <2>1, <3>2, Starts
    <3>4. \A t \in Sessions : SessionInv(t)'
      BY <2>1, <2>2, <3>2, <3>3, OneTouched
    <3> QED
      BY <3>1, <3>4 DEF IInv
  <2>3. CASE Simple!Exit
    <3>1. Exit
      BY <2>3 DEF Simple!Exit, Exit
    <3> QED
      BY <1>0, <2>1, <3>1, ExitKeeps DEF State
  <2> QED
    BY <1>2, <2>2, <2>3 DEF Simple!main_accept
<1>3. ASSUME NEW s \in Sessions, server = "simple", Simple!do_session_read(s) PROVE IInv'
  <2>1. PICK i \in DOMAIN asked[s] :
          /\ Simple!ReadGives(s, i)
          /\ \/ \E res \in Simple!handle_request(asked[s][i]) : Simple!send_lambda(s, i, res)
             \/ Simple!handle_request(asked[s][i]) = {} /\ UNCHANGED <<ops, response_>>
    BY <1>3 DEF Simple!do_session_read
  <2>2. ReadGives(s, i)
    BY <2>1 DEF Simple!ReadGives, ReadGives, Simple!Received, Received, Simple!Malformed, Malformed
  <2>3. /\ "read" \in ops[s]
        /\ UNCHANGED <<server, up, listening, accepting, link, asked, eof, got, expires>>
    BY <1>3 DEF Simple!do_session_read
  <2>4. ASSUME NEW res \in Simple!handle_request(asked[s][i]), Simple!send_lambda(s, i, res)
        PROVE  IInv'
    <3>1. res.status \in Statuses /\ res.need_eof \in BOOLEAN
      BY <1>0, <2>2, SimpleResponses DEF State, ReadGives
    <3>2. /\ response_' = [response_ EXCEPT ![s] = [to |-> i, status |-> res.status,
                                                    need_eof |-> res.need_eof]]
          /\ Continue(s, "read", "write")
      BY <2>4 DEF Simple!send_lambda, Simple!Continue, Continue
    <3> QED
      BY <2>2, <2>3, <3>1, <3>2, RequestKeeps
  <2>5. CASE UNCHANGED <<ops, response_>>
    <3>1. /\ wire' \in [Sessions -> Seq(Nat)] /\ buffer_' \in [Sessions -> Seq(Nat)]
          /\ \A t \in Sessions \ {s} : wire'[t] = wire[t] /\ buffer_'[t] = buffer_[t]
          /\ link[s] \in {"up", "broken"}
      BY <1>0, <2>2, ReadTypes
    <3>2. State'
      BY <1>0, <2>3, <2>5, <3>1 DEF State
    <3>3. ops[s] = {"read"}
      BY <1>0, <2>3 DEF SessionInv, Single
    <3>4. SessionInv(s)'
      BY <1>0, <1>3, <2>3, <2>5, <3>1, <3>3, SimpleGoesOn
    <3>5. \A t \in Sessions : SessionInv(t)'
      BY <2>3, <2>5, <3>1, <3>4, OneTouched
    <3> QED
      BY <3>2, <3>5 DEF IInv
  <2> QED
    BY <2>1, <2>4, <2>5
<1>4. ASSUME NEW s \in Sessions, Simple!do_session_end(s) \/ Simple!do_session_write_error(s)
      PROVE  IInv'
  <2>1. /\ Destroyed(s)
        /\ UNCHANGED <<server, up, listening, accepting, asked, wire, eof, got, buffer_>>
    BY <1>4 DEF Simple!do_session_end, Simple!do_session_write_error, Simple!Destroyed, Destroyed
  <2> QED
    BY <2>1, DestroyedKeeps
<1>5. ASSUME NEW s \in Sessions, server = "simple", Simple!do_session_bad_read(s) PROVE IInv'
  <2>1. /\ "read" \in ops[s] /\ link[s] \in {"up", "broken"}
        /\ response_' = [response_ EXCEPT ![s] = [to |-> 0, status |-> "bad_request",
                                                  need_eof |-> FALSE]]
        /\ Continue(s, "read", "write")
        /\ UNCHANGED <<server, up, listening, accepting, link, asked, wire, eof, got, expires, buffer_>>
    BY <1>5 DEF Simple!do_session_bad_read, Simple!send_lambda, Simple!Continue, Continue,
                Simple!netVars, Simple!ParseFails, Simple!ReadBreaks
  <2>2. [to |-> 0, status |-> "bad_request", need_eof |-> FALSE] \in Response
    BY DEF Response, Statuses
  <2>3. ops[s] = {"read"}
    BY <1>0, <2>1 DEF SessionInv, Single
  <2>4. ops' = [ops EXCEPT ![s] = {"write"}]
    BY <2>1, <2>3 DEF Continue
  <2>5. State'
    BY <1>0, <2>1, <2>2, <2>4 DEF State, Operations
  <2>6. /\ ops'[s] = {"write"} /\ response_'[s] \in Response
        /\ \A t \in Sessions \ {s} : ops'[t] = ops[t] /\ response_'[t] = response_[t]
    BY <1>0, <2>1, <2>2, <2>4 DEF State
  <2>7. SessionInv(s)'
    BY <1>0, <1>5, <2>1, <2>3, <2>6, SimpleGoesOn
  <2>8. \A t \in Sessions : SessionInv(t)'
    BY <2>1, <2>6, <2>7, OneTouched
  <2> QED
    BY <2>5, <2>8 DEF IInv
<1>6. ASSUME NEW s \in Sessions, Simple!do_session_write(s) PROVE IInv'
  <2>1. /\ "write" \in ops[s] /\ Arrives(s)
        /\ UNCHANGED <<server, up, listening, accepting, asked, wire, eof, buffer_>>
    BY <1>6 DEF Simple!do_session_write, Simple!Arrives, Arrives
  <2>2. CASE response_[s].need_eof /\ Simple!Destroyed(s)
    <3>1. Destroyed(s)
      BY <2>2 DEF Simple!Destroyed, Destroyed
    <3> QED
      BY <2>1, <2>2, <3>1, ResponseKeeps
  <2>3. CASE /\ ~response_[s].need_eof /\ response_' = [response_ EXCEPT ![s] = nullptr]
             /\ Simple!Continue(s, "write", "read") /\ UNCHANGED <<link, expires>>
    <3>1. Continue(s, "write", "read")
      BY <2>3 DEF Simple!Continue, Continue
    <3>2. expires' \in [Sessions -> BOOLEAN]
      BY <1>0, <2>3 DEF State
    <3> QED
      BY <2>1, <2>3, <3>1, <3>2, ResponseKeeps
  <2> QED
    BY <1>6, <2>2, <2>3 DEF Simple!do_session_write
<1> QED
  BY <1>1, <1>2, <1>3, <1>4, <1>5, <1>6 DEF Simple!Next, Simple!Session

LEMMA NextIInv == IInv /\ [Next]_vars => IInv'
<1> SUFFICES ASSUME IInv, [Next]_vars PROVE IInv'
  OBVIOUS
<1>1. CASE Next
  BY <1>1, WorldKeeps, AsyncKeeps, SslKeeps, SimpleKeeps DEF Next
<1>2. CASE UNCHANGED vars
  <2>1. UNCHANGED <<server, up, listening, accepting, link, asked, wire, eof, got, ops, expires,
                    buffer_, response_>>
    BY <1>2 DEF vars, netVars, sessionVars
  <2>2. State'
    BY <2>1 DEF IInv, State
  <2>3. \A t \in Sessions : SessionInv(t)'
    BY <2>1, Untouched DEF IInv
  <2> QED
    BY <2>2, <2>3 DEF IInv
<1> QED
  BY <1>1, <1>2

-----------------------------------------------------------------------------
(* The theorems.                                                                       *)

(* The invariant holds in every reachable state of the three servers, whatever the     *)
(* handlers of their sessions and the clients do and in whatever order.                *)
THEOREM HttpInvariant == Spec => []IInv
  BY InitIInv, NextIInv, PTL DEF Spec

(* The variables of the servers keep their types.                                      *)
THEOREM TypeCorrect == Spec => []TypeOK
<1>1. IInv => TypeOK
  BY DEF IInv, State, TypeOK, Links
<1> QED
  BY <1>1, HttpInvariant, PTL

(* No handler leaves two operations of a session outstanding, and the message lives as *)
(* long as its write (send_lambda, on_write, do_read, do_close).                       *)
THEOREM OneOperationAtATime == Spec => []OneOperation
<1>1. ASSUME IInv, NEW s \in Sessions
      PROVE  Cardinality(ops[s]) <= 1 /\ ("write" \in ops[s] => response_[s] # nullptr)
  <2>1. Single(s)
    BY <1>1 DEF IInv, SessionInv
  <2>2. Cardinality(ops[s]) \in {0, 1}
    <3>1. CASE ops[s] = {}
      BY <3>1, FS_EmptySet
    <3>2. CASE \E o \in Operations : ops[s] = {o}
      BY <3>2, FS_Singleton
    <3> QED
      BY <2>1, <3>1, <3>2 DEF Single
  <2>3. "write" \in ops[s] => response_[s] # nullptr
    BY <2>1, NullAssumption DEF Single
  <2> QED
    BY <2>2, <2>3
<1>2. IInv => OneOperation
  BY <1>1 DEF OneOperation
<1> QED
  BY <1>2, HttpInvariant, PTL

(* A response that ends the connection is the last one the client gets, although more  *)
(* requests may be in buffer_ already (on_write, do_close, do_session).                *)
THEOREM NothingAfterClose == Spec => []CloseIsLast
<1>1. IInv => CloseIsLast
  BY DEF IInv, SessionInv, Last, CloseIsLast
<1> QED
  BY <1>1, HttpInvariant, PTL

(* The asynchronous servers answer the requests of a connection one by one and in the  *)
(* order in which they were sent, and lose none (on_read, send_lambda, on_write).      *)
THEOREM AnsweredInOrder == Spec => []AnswersInOrder
<1>1. ASSUME IInv, server # "simple", NEW s \in Sessions
      PROVE  /\ \A i \in DOMAIN got[s] : got[s][i].to = i
             /\ ops[s] = {"read"} /\ link[s] = "up" => AllAccounted(s)
  <2>1. Answers(s) /\ State
    BY <1>1 DEF IInv, SessionInv
  <2>2. ASSUME ops[s] = {"read"}, link[s] = "up" PROVE AllAccounted(s)
    <3>0. PICK a \in Nat, g \in Nat, f \in Nat, w \in Nat :
             /\ a = Len(asked[s]) /\ g = Len(got[s]) /\ f = Len(buffer_[s]) /\ w = Len(wire[s])
             /\ DOMAIN asked[s] = 1 .. a /\ DOMAIN got[s] = 1 .. g
             /\ DOMAIN buffer_[s] = 1 .. f /\ DOMAIN wire[s] = 1 .. w
      BY <2>1 DEF State
    <3>1. Pending(s) /\ \A i \in DOMAIN got[s] : got[s][i].to = i
      BY <1>1, <2>1, <2>2 DEF Answers
    <3>2. Begun(s) = g
      BY <2>2, <3>0 DEF Begun
    <3>3. /\ a = g + f + w
          /\ \A n \in 1 .. f : buffer_[s][n] = g + n
          /\ \A n \in 1 .. w : wire[s][n] = g + f + n
      BY <3>0, <3>1, <3>2 DEF Pending, Consecutive
    <3> SUFFICES ASSUME NEW i \in DOMAIN asked[s]
                 PROVE  \/ \E n \in DOMAIN wire[s] : wire[s][n] = i
                        \/ \E n \in DOMAIN buffer_[s] : buffer_[s][n] = i
                        \/ \E n \in DOMAIN got[s] : got[s][n].to = i
      BY DEF AllAccounted
    <3>4. i \in 1 .. a
      BY <3>0
    <3>5. CASE i <= g
      <4>1. i \in DOMAIN got[s]
        BY <3>0, <3>4, <3>5
      <4> QED
        BY <3>1, <4>1
    <3>6. CASE g < i /\ i <= g + f
      <4>1. PICK n \in 1 .. f : g + n = i
        <5>1. i - g \in 1 .. f /\ g + (i - g) = i
          BY <3>4, <3>6
        <5> QED
          BY <5>1
      <4>2. n \in DOMAIN buffer_[s] /\ buffer_[s][n] = i
        BY <3>0, <3>3, <4>1
      <4> QED
        BY <4>2
    <3>7. CASE g + f < i
      <4>1. PICK n \in 1 .. w : g + f + n = i
        <5>1. i - (g + f) \in 1 .. w /\ g + f + (i - (g + f)) = i
          BY <3>3, <3>4, <3>7
        <5> QED
          BY <5>1
      <4>2. n \in DOMAIN wire[s] /\ wire[s][n] = i
        BY <3>0, <3>3, <4>1
      <4> QED
        BY <4>2
    <3> QED
      BY <3>4, <3>5, <3>6, <3>7
  <2> QED
    BY <1>1, <2>1, <2>2 DEF Answers
<1>2. IInv => AnswersInOrder
  BY <1>1 DEF AnswersInOrder
<1> QED
  BY <1>2, HttpInvariant, PTL
=============================================================================
