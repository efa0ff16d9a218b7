-------------------------- MODULE NetMessage_proof --------------------------
(***************************************************************************)
(* Proofs about NetMessage, for every set of types of 1 to 15 bytes, every *)
(* set of values, any number of values in a message and of messages to one *)
(* receiver.                                                               *)
(***************************************************************************)
EXTENDS NetMessage, TLAPS

-----------------------------------------------------------------------------
(* Where the values of a message lie: value i in the elements after o[i],  *)
(* and o[Len(values) + 1] elements in all.                                 *)
Offsets(o, vs) ==
    /\ o \in [1..(Len(vs) + 1) -> Nat] /\ o[1] = 0
    /\ \A i \in 1..Len(vs) : o[i + 1] = o[i] + vs[i][1]
    /\ \A i, j \in 1..(Len(vs) + 1) : i <= j => o[i] <= o[j]

(* The offsets p go on where the L + 1 offsets o end, with n elements.     *)
Longer(o, p, L, n) == p[(L + 1) + 1] = o[L + 1] + n /\ \A i \in 1..(L + 1) : p[i] = o[i]

(* The bytes from element `at` on are those of the value v.                *)
Holds(bytes, at, v) == \A k \in 1..v[1] : bytes[Word * at + k] = 16 * v[2] + k

(* The vector has the elements that the values take, and header.size says  *)
(* so; the bytes of every value are in their place.  Through a socket only *)
(* the first value is sure to have come along.                             *)
Laid(o) ==
    /\ values # <<>> \/ ~shipped => Len(payload) = Word * o[Len(values) + 1]
    /\ ~shipped => size = o[Len(values) + 1]
    /\ \A i \in 1..Len(values) : i = 1 \/ ~shipped => Holds(payload, o[i], values[i])

Types == /\ size \in Nat /\ shipped \in BOOLEAN
         /\ values \in Seq(Sizes \X Values)
         /\ payload \in Seq(Nat) /\ tmp \in Seq(Nat)
         /\ \E k \in Nat : Len(payload) = Word * k
         /\ \E k \in Nat : Len(tmp) = Word * k
         /\ values # <<>> => Len(payload) = Word * size

IInv == /\ Types
        /\ \E o \in [1..(Len(values) + 1) -> Nat] : Offsets(o, values) /\ Laid(o)
        /\ LocalRoundTrip /\ FirstValueArrives

-----------------------------------------------------------------------------
(* The operators on bytes.                                                 *)

(* resize keeps the bytes there is room for.                               *)
LEMMA ResizeIs ==
  ASSUME NEW b \in Seq(Nat), NEW k \in Nat
  PROVE  /\ Resize(b, k) \in Seq(Nat) /\ Len(Resize(b, k)) = Word * k
         /\ \A i \in 1..(Word * k) : Resize(b, k)[i] = IF i <= Len(b) THEN b[i] ELSE 0
<1>1. Word * k \in Nat
  BY DEF Word
<1>2. ASSUME NEW i \in 1..(Word * k) PROVE (IF i <= Len(b) THEN b[i] ELSE 0) \in Nat
  BY <1>1
<1> QED
  BY <1>1, <1>2 DEF Resize

(* memcpy changes the bytes from its offset on, as many as it copies.      *)
LEMMA CopyIs ==
  ASSUME NEW b \in Seq(Nat), NEW at \in Nat, NEW d \in Seq(Nat)
  PROVE  /\ CopyTo(b, at, d) \in Seq(Nat) /\ Len(CopyTo(b, at, d)) = Len(b)
         /\ \A i \in 1..Len(b) :
                CopyTo(b, at, d)[i] = IF i - at \in 1..Len(d) THEN d[i - at] ELSE b[i]
  BY DEF CopyTo

(* The bytes of a value.                                                   *)
LEMMA BytesIs ==
  ASSUME NEW n \in Nat, NEW v \in Nat
  PROVE  /\ Bytes(n, v) \in Seq(Nat) /\ Len(Bytes(n, v)) = n
         /\ \A k \in 1..n : Bytes(n, v)[k] = 16 * v + k
  BY DEF Bytes

(* A vector of whole elements has as many as its bytes make.               *)
LEMMA ElementsIs ==
  ASSUME NEW k \in Nat, Len(payload) = Word * k
  PROVE  Elements = k
  BY DEF Elements, Word

(* The bytes of a stretch that holds a value are the value's.              *)
LEMMA HeldIsRead ==
  ASSUME NEW b \in Seq(Nat), NEW at \in Nat, NEW n \in Nat, NEW v \in Nat,
         Word * at + n <= Len(b), Holds(b, at, <<n, v>>)
  PROVE  SubSeq(b, Word * at + 1, Word * at + n) = Bytes(n, v)
<1> DEFINE p == Word * at
           s == SubSeq(b, p + 1, p + n)
<1>1. p \in Nat
  BY DEF Word
<1>2. \A k \in 1..n : b[p + k] = 16 * v + k
  BY DEF Holds
<1>3. p + n <= Len(b)
  OBVIOUS
<1> HIDE DEF p
<1>4. s = [k \in 1..n |-> b[p + k]]
  BY <1>1, <1>3
<1> QED
  BY <1>2, <1>4 DEF p, Bytes

(* A shorter or longer vector holds what lay in the part they share.       *)
LEMMA HoldsOn ==
  ASSUME NEW b, NEW c, NEW at \in Nat, NEW v \in Sizes \X Values, NEW n \in Nat,
         at + v[1] <= n, \A i \in 1..(Word * n) : c[i] = b[i], Holds(b, at, v)
  PROVE  Holds(c, at, v)
<1> SUFFICES ASSUME NEW k \in 1..v[1] PROVE c[Word * at + k] = 16 * v[2] + k
  BY DEF Holds
<1>1. v[1] \in 1..15
  BY SizesAssumption
<1>2. Word * at + k \in 1..(Word * n)
  BY <1>1 DEF Word
<1> QED
  BY <1>2 DEF Holds

-----------------------------------------------------------------------------
(* The invariant.                                                          *)

(* A new message is an empty vector.                                       *)
LEMMA Fresh ==
  ASSUME NEW vs, vs = << >>
  PROVE  \E o \in [1..(Len(vs) + 1) -> Nat] : Offsets(o, vs) /\ o[Len(vs) + 1] = 0
<1> DEFINE o == [i \in 1..1 |-> 0]
<1>1. o \in [1..(Len(vs) + 1) -> Nat] /\ Offsets(o, vs) /\ o[Len(vs) + 1] = 0
  BY DEF Offsets
<1> QED
  BY <1>1

LEMMA InitIInv == Init => IInv
<1> SUFFICES ASSUME Init PROVE IInv
  OBVIOUS
<1>1. Types
  <2>1. 0 \in Nat /\ 0 = Word * 0 /\ Len(payload) = 0 /\ Len(tmp) = 0
    BY DEF Init, Word
  <2>2. (\E k \in Nat : Len(payload) = Word * k) /\ \E k \in Nat : Len(tmp) = Word * k
    BY <2>1
  <2>3. values \in Seq(Sizes \X Values) /\ payload \in Seq(Nat) /\ tmp \in Seq(Nat)
    BY DEF Init
  <2> QED
    BY <2>2, <2>3 DEF Init, Types
<1>2. PICK o \in [1..(Len(values) + 1) -> Nat] : Offsets(o, values) /\ o[Len(values) + 1] = 0
  BY Fresh DEF Init
<1>3. Laid(o)
  BY <1>2 DEF Init, Laid, Word
<1>4. LocalRoundTrip /\ FirstValueArrives
  BY DEF Init, LocalRoundTrip, FirstValueArrives
<1> QED
  BY <1>1, <1>2, <1>3, <1>4 DEF IInv

(* The offsets of the values before the last one stay when one more comes, *)
(* or when the last one goes.                                              *)
LEMMA OffsetsMore ==
  ASSUME NEW vs \in Seq(Sizes \X Values), NEW x \in Sizes \X Values,
         NEW L \in Nat, L = Len(vs),
         NEW o \in [1..(L + 1) -> Nat], Offsets(o, vs)
  PROVE  \E p \in [1..((L + 1) + 1) -> Nat] :
             Offsets(p, Append(vs, x)) /\ Longer(o, p, L, x[1])
<1>0. PICK ws \in Seq(Sizes \X Values) :
          ws = Append(vs, x) /\ Len(ws) = L + 1 /\ ws[L + 1] = x /\ \A i \in 1..L : ws[i] = vs[i]
  <2>1. /\ Append(vs, x) \in Seq(Sizes \X Values) /\ Len(Append(vs, x)) = L + 1
        /\ Append(vs, x)[L + 1] = x /\ \A i \in 1..L : Append(vs, x)[i] = vs[i]
    OBVIOUS
  <2> QED
    BY <2>1, Zenon
<1>1. PICK E \in Nat : E = o[L + 1]
  OBVIOUS
<1>2. PICK n \in 1..15 : n = x[1]
  BY SizesAssumption
<1>3. PICK p : p = [i \in 1..(L + 2) |-> IF i = L + 2 THEN E + n ELSE o[i]]
  OBVIOUS
<1>4. /\ p \in [1..((L + 1) + 1) -> Nat] /\ p[L + 2] = E + n /\ (L + 1) + 1 = L + 2
      /\ \A i \in 1..(L + 1) : p[i] = o[i]
  BY <1>3
<1>5. /\ o[1] = 0 /\ \A i \in 1..L : o[i + 1] = o[i] + vs[i][1]
      /\ \A i, j \in 1..(L + 1) : i <= j => o[i] <= o[j]
  BY DEF Offsets
<1>6. ASSUME NEW i \in 1..(L + 1) PROVE p[i + 1] = p[i] + ws[i][1]
  <2>1. CASE i = L + 1
    <3>1. i + 1 = L + 2 /\ p[i] = E
      BY <1>1, <1>4, <2>1
    <3> QED
      BY <1>0, <1>2, <1>4, <2>1, <3>1
  <2>2. CASE i # L + 1
    <3>1. i \in 1..L /\ i + 1 \in 1..(L + 1)
      BY <2>2
    <3> QED
      BY <1>0, <1>4, <1>5, <3>1
  <2> QED
    BY <2>1, <2>2
<1>7. ASSUME NEW i \in 1..(L + 2), NEW j \in 1..(L + 2), i <= j PROVE p[i] <= p[j]
  <2>1. CASE j # L + 2
    <3>1. i \in 1..(L + 1) /\ j \in 1..(L + 1)
      BY <1>7, <2>1
    <3> QED
      BY <1>4, <1>5, <1>7, <3>1
  <2>2. CASE i # L + 2 /\ j = L + 2
    <3>1. i \in 1..(L + 1) /\ L + 1 \in 1..(L + 1) /\ i <= L + 1
      BY <2>2
    <3>2. o[i] <= E /\ o[i] \in Nat /\ p[i] = o[i] /\ p[j] = E + n
      BY <1>1, <1>4, <1>5, <2>2, <3>1
    <3> QED
      BY <3>2
  <2>3. CASE i = L + 2 /\ j = L + 2
    BY <1>4, <2>3
  <2> QED
    BY <1>7, <2>1, <2>2, <2>3
<1>8. Offsets(p, ws)
  <2>1. 1 \in 1..(L + 1)
    OBVIOUS
  <2> QED
    BY <1>0, <1>4, <1>5, <1>6, <1>7, <2>1 DEF Offsets
<1> QED
  BY <1>0, <1>1, <1>2, <1>4, <1>8 DEF Longer

LEMMA OffsetsLess ==
  ASSUME NEW vs \in Seq(Sizes \X Values), NEW L \in Nat, L = Len(vs), L >= 1,
         NEW o \in [1..(L + 1) -> Nat], Offsets(o, vs)
  PROVE  \E p \in [1..((L - 1) + 1) -> Nat] :
             Offsets(p, SubSeq(vs, 1, L - 1)) /\ \A i \in 1..L : p[i] = o[i]
<1>0. PICK ws \in Seq(Sizes \X Values) :
          /\ ws = SubSeq(vs, 1, L - 1) /\ Len(ws) = L - 1
          /\ \A i \in 1..(L - 1) : ws[i] = vs[i]
  <2>1. /\ SubSeq(vs, 1, L - 1) \in Seq(Sizes \X Values) /\ Len(SubSeq(vs, 1, L - 1)) = L - 1
        /\ \A i \in 1..(L - 1) : SubSeq(vs, 1, L - 1)[i] = vs[i]
    OBVIOUS
  <2> QED
    BY <2>1, Zenon
<1>1. PICK p : p = [i \in 1..L |-> o[i]]
  OBVIOUS
<1>2. /\ p \in [1..L -> Nat] /\ (L - 1) + 1 = L /\ 1 \in 1..L
      /\ \A i \in 1..L : p[i] = o[i]
  BY <1>1
<1>3. /\ o[1] = 0 /\ \A i \in 1..L : o[i + 1] = o[i] + vs[i][1]
      /\ \A i, j \in 1..(L + 1) : i <= j => o[i] <= o[j]
  BY DEF Offsets
<1>4. ASSUME NEW i \in 1..(L - 1) PROVE p[i + 1] = p[i] + ws[i][1]
  <2>1. i \in 1..L /\ i + 1 \in 1..L
    OBVIOUS
  <2> QED
    BY <1>0, <1>2, <1>3, <2>1
<1>5. ASSUME NEW i \in 1..L, NEW j \in 1..L, i <= j PROVE p[i] <= p[j]
  <2>1. i \in 1..(L + 1) /\ j \in 1..(L + 1)
    OBVIOUS
  <2> QED
    BY <1>2, <1>3, <1>5, <2>1
<1>6. Offsets(p, ws)
  BY <1>0, <1>2, <1>3, <1>4, <1>5 DEF Offsets
<1> QED
  BY <1>0, <1>2, <1>6

(* What lies before the offset of a later value.                           *)
LEMMA OffsetsBelow ==
  ASSUME NEW vs \in Seq(Sizes \X Values), NEW L \in Nat, L = Len(vs),
         NEW o \in [1..(L + 1) -> Nat], Offsets(o, vs),
         NEW i \in 1..L, NEW j \in 1..(L + 1), i < j
  PROVE  /\ o[i] \in Nat /\ vs[i] \in Sizes \X Values /\ vs[i][1] \in 1..15
         /\ o[i + 1] = o[i] + vs[i][1] /\ o[i] + vs[i][1] <= o[j]
<1>1. i + 1 \in 1..(L + 1) /\ i \in 1..(L + 1) /\ i + 1 <= j
  OBVIOUS
<1>2. o[i + 1] = o[i] + vs[i][1] /\ o[i + 1] <= o[j]
  BY <1>1 DEF Offsets
<1>3. vs[i] \in Sizes \X Values
  OBVIOUS
<1> QED
  BY <1>1, <1>2, <1>3, SizesAssumption

(* The vector after operator<< : as before, and the value's bytes behind.  *)
LEMMA PutBytes ==
  ASSUME NEW b \in Seq(Nat), NEW E \in Nat, Len(b) = Word * E, NEW n \in 1..15, NEW v \in Nat
  PROVE  \E c \in Seq(Nat) : /\ c = CopyTo(Resize(b, E + n), Word * E, Bytes(n, v))
                             /\ Len(c) = Word * (E + n) /\ Holds(c, E, <<n, v>>)
                             /\ \A i \in 1..(Word * E) : c[i] = b[i]
<1>0. PICK c : c = CopyTo(Resize(b, E + n), Word * E, Bytes(n, v))
  OBVIOUS
<1>1. PICK N \in Nat : N = E + n
  OBVIOUS
<1>2. PICK P \in Nat : P = Word * E
  BY DEF Word
<1>3. PICK r : r = Resize(b, N)
  OBVIOUS
<1>4. /\ r \in Seq(Nat) /\ Len(r) = Word * N
      /\ \A i \in 1..(Word * N) : r[i] = IF i <= Len(b) THEN b[i] ELSE 0
  BY <1>3, ResizeIs
<1>5. PICK d : d = Bytes(n, v)
  OBVIOUS
<1>6. d \in Seq(Nat) /\ Len(d) = n /\ \A k \in 1..n : d[k] = 16 * v + k
  <2>1. n \in Nat
    OBVIOUS
  <2> QED
    BY <1>5, <2>1, BytesIs
<1>7. c = CopyTo(r, P, d)
  BY <1>0, <1>1, <1>2, <1>3, <1>5
<1>8. /\ c \in Seq(Nat) /\ Len(c) = Len(r)
      /\ \A i \in 1..Len(r) : c[i] = IF i - P \in 1..Len(d) THEN d[i - P] ELSE r[i]
  <2>1. r \in Seq(Nat) /\ P \in Nat /\ d \in Seq(Nat)
    BY <1>4, <1>6
  <2>2. /\ CopyTo(r, P, d) \in Seq(Nat) /\ Len(CopyTo(r, P, d)) = Len(r)
        /\ \A i \in 1..Len(r) :
               CopyTo(r, P, d)[i] = IF i - P \in 1..Len(d) THEN d[i - P] ELSE r[i]
    BY <2>1, CopyIs
  <2> QED
    BY <1>7, <2>2
<1>9. P + n <= Word * N /\ P <= Word * N
  BY <1>1, <1>2 DEF Word
<1>10. ASSUME NEW i \in 1..P PROVE c[i] = b[i]
  <2>1. i \in 1..(Word * N) /\ ~(i - P \in 1..n)
    BY <1>9, <1>4
  <2> QED
    BY <1>2, <1>4, <1>6, <1>8, <2>1
<1>11. ASSUME NEW k \in 1..n PROVE c[P + k] = 16 * v + k
  <2>1. P + k \in 1..(Word * N) /\ (P + k) - P = k
    BY <1>9, <1>4
  <2> QED
    BY <1>4, <1>6, <1>8, <2>1
<1> QED
  BY <1>0, <1>1, <1>2, <1>4, <1>8, <1>10, <1>11 DEF Holds

(* operator<< : the new value lies behind the others, whose bytes stay.    *)
LEMMA PutKeeps ==
  ASSUME NEW n \in Sizes, NEW v \in Values, IInv, Put(n, v)
  PROVE  IInv'
<1>0. n \in 1..15 /\ v \in Nat
  BY SizesAssumption
<1>2. /\ values \in Seq(Sizes \X Values) /\ ~shipped /\ shipped' = FALSE
      /\ payload \in Seq(Nat) /\ tmp \in Seq(Nat)
  BY DEF IInv, Types, Put
<1>3. PICK L \in Nat : L = Len(values)
  BY <1>2
<1>1. PICK o \in [1..(L + 1) -> Nat] : Offsets(o, values) /\ Laid(o)
  BY <1>3 DEF IInv
<1>4. PICK E \in Nat : E = o[L + 1]
  OBVIOUS
<1>5. Len(payload) = Word * E /\ Elements = E
  BY <1>1, <1>2, <1>3, <1>4, ElementsIs DEF Laid
<1>6. /\ values' = Append(values, <<n, v>>) /\ size' = E + n /\ tmp' = tmp /\ got' = Nothing
      /\ payload' = CopyTo(Resize(payload, E + n), Word * E, Bytes(n, v))
  BY <1>5 DEF Put
<1>7. PICK x : x = <<n, v>>
  OBVIOUS
<1>8. /\ x \in Sizes \X Values /\ x[1] = n
      /\ values' \in Seq(Sizes \X Values) /\ Len(values') = L + 1 /\ values'[L + 1] = x
      /\ \A i \in 1..L : values'[i] = values[i]
  BY <1>2, <1>3, <1>6, <1>7
<1>9. /\ payload' \in Seq(Nat) /\ Len(payload') = Word * (E + n)
      /\ \A i \in 1..(Word * E) : payload'[i] = payload[i]
      /\ Holds(payload', E, x)
  <2>1. \E c \in Seq(Nat) : /\ c = CopyTo(Resize(payload, E + n), Word * E, Bytes(n, v))
                             /\ Len(c) = Word * (E + n) /\ Holds(c, E, <<n, v>>)
                             /\ \A i \in 1..(Word * E) : c[i] = payload[i]
    <3>1. payload \in Seq(Nat) /\ Len(payload) = Word * E
      BY <1>2, <1>5
    <3>2. n \in 1..15 /\ v \in Nat
      BY <1>0
    <3> QED
      BY <3>1, <3>2, PutBytes, ZenonT(30)
  <2> QED
    BY <1>6, <1>7, <2>1
<1>10. PICK p \in [1..((L + 1) + 1) -> Nat] :
           /\ Offsets(p, values') /\ p[(L + 1) + 1] = E + n
           /\ \A i \in 1..(L + 1) : p[i] = o[i]
  <2>1. \E p \in [1..((L + 1) + 1) -> Nat] :
           Offsets(p, Append(values, x)) /\ Longer(o, p, L, x[1])
    <3>1. values \in Seq(Sizes \X Values) /\ x \in Sizes \X Values /\ L = Len(values)
      BY <1>2, <1>3, <1>8
    <3>2. Offsets(o, values)
      BY <1>1
    <3> QED
      BY <3>1, <3>2, OffsetsMore
  <2> QED
    BY <1>4, <1>6, <1>7, <1>8, <2>1 DEF Longer
<1>11. ASSUME NEW i \in 1..(L + 1) PROVE Holds(payload', p[i], values'[i])
  <2>1. CASE i = L + 1
    BY <1>4, <1>8, <1>9, <1>10, <2>1
  <2>2. CASE i # L + 1
    <3>1. i \in 1..L /\ L + 1 \in 1..(L + 1) /\ i < L + 1 /\ values'[i] = values[i] /\ p[i] = o[i]
      BY <1>8, <1>10, <2>2
    <3>2. /\ o[i] \in Nat /\ values[i] \in Sizes \X Values
          /\ o[i] + values[i][1] <= E
      BY <1>1, <1>2, <1>3, <1>4, <3>1, OffsetsBelow
    <3>3. Holds(payload, o[i], values[i])
      BY <1>1, <1>2, <1>3, <3>1 DEF Laid
    <3>4. Holds(payload', o[i], values[i])
      BY <1>9, <3>2, <3>3, HoldsOn
    <3> QED
      BY <3>1, <3>4
  <2> QED
    BY <2>1, <2>2
<1>12. Laid(p)'
  BY <1>2, <1>6, <1>8, <1>9, <1>10, <1>11 DEF Laid
<1>13. Types'
  <2>1. E + n \in Nat
    BY <1>0
  <2>2. \E k \in Nat : Len(tmp) = Word * k
    BY DEF IInv, Types
  <2> QED
    BY <1>2, <1>6, <1>8, <1>9, <2>1, <2>2 DEF Types
<1>14. LocalRoundTrip' /\ FirstValueArrives'
  BY <1>6 DEF LocalRoundTrip, FirstValueArrives
<1>15. \E q \in [1..(Len(values') + 1) -> Nat] : Offsets(q, values') /\ Laid(q)'
  BY <1>8, <1>10, <1>12
<1> QED
  BY <1>13, <1>14, <1>15 DEF IInv

(* operator>> : the last value's elements are read, then cut off.          *)
LEMMA GetKeeps ==
  ASSUME IInv, Get
  PROVE  IInv'
<1>1. /\ values \in Seq(Sizes \X Values) /\ shipped' = shipped /\ shipped \in BOOLEAN
      /\ payload \in Seq(Nat) /\ tmp \in Seq(Nat) /\ values # << >>
  BY DEF IInv, Types, Get
<1>2. PICK L \in Nat : L = Len(values) /\ L >= 1
  BY <1>1
<1>3. PICK o \in [1..(L + 1) -> Nat] : Offsets(o, values) /\ Laid(o)
  BY <1>2 DEF IInv
<1>4. L \in 1..L /\ L \in 1..(L + 1) /\ L + 1 \in 1..(L + 1) /\ L < L + 1
  BY <1>2
<1>5. values[L] \in Sizes \X Values
  BY <1>1, <1>2, <1>4
<1>6. PICK n \in Sizes, v \in Values : values[L] = <<n, v>>
  BY <1>5
<1>7. n \in 1..15 /\ v \in Nat /\ values[L][1] = n /\ values[L][2] = v
  BY <1>6, SizesAssumption
<1>8. PICK S \in Nat : S = o[L]
  BY <1>4
<1>9. o[L + 1] = S + n
  BY <1>1, <1>2, <1>3, <1>4, <1>7, <1>8, OffsetsBelow
<1>10. Len(payload) = Word * (S + n) /\ Elements = S + n
  <2>1. S + n \in Nat
    BY <1>7
  <2>2. Len(payload) = Word * (S + n)
    BY <1>1, <1>2, <1>3, <1>9 DEF Laid
  <2> QED
    BY <2>1, <2>2, ElementsIs
<1>11. /\ payload' = Resize(payload, S) /\ size' = S /\ tmp' = tmp
       /\ got' = <<Bytes(n, v), SubSeq(payload, Word * S + 1, Word * S + n), L>>
       /\ values' = SubSeq(values, 1, L - 1)
  <2>1. (S + n) - n = S
    BY <1>7
  <2> QED
    BY <1>2, <1>7, <1>10, <2>1 DEF Get
<1>12. /\ values' \in Seq(Sizes \X Values) /\ Len(values') = L - 1 /\ (L - 1) + 1 = L
       /\ \A i \in 1..(L - 1) : values'[i] = values[i]
  BY <1>1, <1>2, <1>11
<1>13. /\ payload' \in Seq(Nat) /\ Len(payload') = Word * S
       /\ \A i \in 1..(Word * S) : payload'[i] = payload[i]
  <2>1. Word * S <= Len(payload) /\ Word * S \in Nat
    BY <1>7, <1>10 DEF Word
  <2>2. /\ payload' \in Seq(Nat) /\ Len(payload') = Word * S
        /\ \A i \in 1..(Word * S) : payload'[i] = IF i <= Len(payload) THEN payload[i] ELSE 0
    BY <1>1, <1>11, ResizeIs
  <2>3. \A i \in 1..(Word * S) : i <= Len(payload)
    BY <1>1, <2>1
  <2> QED
    BY <2>2, <2>3
<1>14. PICK p \in [1..((L - 1) + 1) -> Nat] :
           Offsets(p, values') /\ \A i \in 1..L : p[i] = o[i]
  <2>1. \E p \in [1..((L - 1) + 1) -> Nat] :
            Offsets(p, SubSeq(values, 1, L - 1)) /\ \A i \in 1..L : p[i] = o[i]
    BY <1>1, <1>2, <1>3, OffsetsLess
  <2> QED
    BY <1>11, <2>1
<1>15. ASSUME NEW i \in 1..(L - 1), i = 1 \/ ~shipped PROVE Holds(payload', p[i], values'[i])
  <2>1. i \in 1..L /\ i < L /\ values'[i] = values[i] /\ p[i] = o[i]
    BY <1>12, <1>14
  <2>2. /\ o[i] \in Nat /\ values[i] \in Sizes \X Values
        /\ o[i] + values[i][1] <= S
    BY <1>1, <1>2, <1>3, <1>4, <1>8, <2>1, OffsetsBelow
  <2>3. Holds(payload, o[i], values[i])
    BY <1>2, <1>3, <1>15, <2>1 DEF Laid
  <2>4. Holds(payload', o[i], values[i])
    BY <1>13, <2>2, <2>3, HoldsOn
  <2> QED
    BY <2>1, <2>4
<1>16. Laid(p)'
  <2>1. p[(L - 1) + 1] = S
    BY <1>4, <1>8, <1>12, <1>14
  <2> QED
    BY <1>1, <1>11, <1>12, <1>13, <1>15, <2>1 DEF Laid
<1>17. Types'
  <2>1. \E k \in Nat : Len(tmp) = Word * k
    BY DEF IInv, Types
  <2> QED
    BY <1>1, <1>11, <1>12, <1>13, <2>1 DEF Types
<1>18. ASSUME ~shipped \/ L = 1
       PROVE  SubSeq(payload, Word * S + 1, Word * S + n) = Bytes(n, v)
  <2>1. Holds(payload, S, <<n, v>>)
    BY <1>2, <1>3, <1>4, <1>6, <1>8, <1>18 DEF Laid
  <2>2. Word * S + n <= Len(payload) /\ n \in Nat
    BY <1>7, <1>10 DEF Word
  <2> QED
    <3>1. payload \in Seq(Nat) /\ n \in Nat /\ v \in Nat
      BY <1>1, <1>7, <2>2
    <3>2. Word * S + n <= Len(payload)
      BY <2>2
    <3> QED
      BY <2>1, <3>1, <3>2, HeldIsRead, SMTT(30)
<1>19. LocalRoundTrip' /\ FirstValueArrives'
  BY <1>1, <1>11, <1>18 DEF LocalRoundTrip, FirstValueArrives, ReadRight
<1>20. \E q \in [1..(Len(values') + 1) -> Nat] : Offsets(q, values') /\ Laid(q)'
  BY <1>12, <1>14, <1>16
<1> QED
  BY <1>17, <1>19, <1>20 DEF IInv

(* Through the socket come as many bytes as the vector has elements: those *)
(* of the first value are among them.                                      *)
LEMMA ReceivedBytes ==
  ASSUME NEW old \in Seq(Nat), NEW N \in Nat, NEW b \in Seq(Nat), Len(b) = Word * N,
         NEW c, c = Received(old, N, b)
  PROVE  c \in Seq(Nat) /\ Len(c) = Word * N /\ \A i \in 1..N : c[i] = b[i]
<1>1. PICK r : r = Resize(old, N)
  OBVIOUS
<1>2. r \in Seq(Nat) /\ Len(r) = Word * N
  BY <1>1, ResizeIs
<1>3. PICK d : d = SubSeq(b, 1, N)
  OBVIOUS
<1>4. N <= Word * N
  BY DEF Word
<1>5. d \in Seq(Nat) /\ Len(d) = N /\ \A i \in 1..N : d[i] = b[i]
  BY <1>3, <1>4
<1>6. /\ CopyTo(r, 0, d) \in Seq(Nat) /\ Len(CopyTo(r, 0, d)) = Len(r)
      /\ \A i \in 1..Len(r) : CopyTo(r, 0, d)[i] = IF i - 0 \in 1..Len(d) THEN d[i - 0] ELSE r[i]
  <2>1. 0 \in Nat
    OBVIOUS
  <2> QED
    BY <1>2, <1>5, <2>1, CopyIs
<1>7. c = CopyTo(r, 0, d)
  BY <1>1, <1>3 DEF Received
<1>8. ASSUME NEW i \in 1..N PROVE c[i] = b[i]
  <2>1. i \in 1..Len(r) /\ i - 0 = i /\ i \in 1..Len(d)
    BY <1>2, <1>4, <1>5
  <2> QED
    BY <1>5, <1>6, <1>7, <2>1
<1> QED
  BY <1>2, <1>6, <1>7, <1>8

LEMMA ShipKeeps ==
  ASSUME IInv, Ship
  PROVE  IInv'
<1>1. /\ values \in Seq(Sizes \X Values) /\ ~shipped /\ shipped' = TRUE /\ size \in Nat
      /\ payload \in Seq(Nat) /\ tmp \in Seq(Nat)
      /\ values' = values /\ size' = size /\ got' = Nothing /\ payload' = tmp'
  BY DEF IInv, Types, Ship
<1>2. PICK L \in Nat : L = Len(values)
  BY <1>1
<1>3. PICK o \in [1..(L + 1) -> Nat] : Offsets(o, values) /\ Laid(o)
  BY <1>2 DEF IInv
<1>4. size = o[L + 1] /\ Len(payload) = Word * size
  BY <1>1, <1>2, <1>3 DEF Laid
<1>5. LocalRoundTrip' /\ FirstValueArrives'
  BY <1>1 DEF LocalRoundTrip, FirstValueArrives
<1>6. \E k \in Nat : Len(tmp) = Word * k
  BY DEF IInv, Types
<1>7. PICK c : c = tmp'
  OBVIOUS
<1>8. CASE values = << >>
  <2>1. L = 0 /\ o[1] = 0
    BY <1>2, <1>3, <1>8 DEF Offsets
  <2>2. c = tmp
    BY <1>4, <1>7, <2>1 DEF Ship
  <2>3. Types'
    BY <1>1, <1>6, <1>7, <1>8, <2>2 DEF Types
  <2>4. Laid(o)'
    BY <1>1, <1>2, <1>8, <2>1 DEF Laid
  <2> QED
    BY <1>1, <1>2, <1>3, <1>5, <2>3, <2>4 DEF IInv
<1>9. CASE values # << >>
  <2>1. 1 \in 1..L /\ L + 1 \in 1..(L + 1) /\ 1 < L + 1 /\ 1 \in 1..(L + 1)
    BY <1>1, <1>2, <1>9
  <2>2. /\ o[1] = 0 /\ values[1] \in Sizes \X Values /\ values[1][1] \in 1..15
        /\ o[1] + values[1][1] <= o[L + 1]
    BY <1>1, <1>2, <1>3, <2>1, OffsetsBelow DEF Offsets
  <2>3. values[1][1] <= size /\ size > 0
    BY <1>4, <2>2
  <2>4. c = Received(tmp, size, payload)
    BY <1>7, <2>3 DEF Ship
  <2>5. c \in Seq(Nat) /\ Len(c) = Word * size /\ \A i \in 1..size : c[i] = payload[i]
    BY <1>1, <1>4, <2>4, ReceivedBytes
  <2>6. Holds(c, 0, values[1])
    <3>1. Holds(payload, 0, values[1])
      BY <1>1, <1>2, <1>3, <2>1, <2>2 DEF Laid
    <3>2. ASSUME NEW k \in 1..values[1][1] PROVE c[k] = payload[k] /\ Word * 0 + k = k
      <4>1. PICK m \in 1..15 : m = values[1][1] /\ m <= size
        BY <2>2, <2>3
      <4>2. k \in 1..size /\ Word * 0 + k = k
        BY <1>1, <4>1 DEF Word
      <4> QED
        BY <2>5, <4>2
    <3> QED
      BY <3>1, <3>2 DEF Holds
  <2>7. Laid(o)'
    BY <1>1, <1>2, <1>4, <1>7, <2>2, <2>5, <2>6 DEF Laid
  <2>8. Types'
    BY <1>1, <1>7, <2>5 DEF Types
  <2> QED
    BY <1>1, <1>2, <1>3, <1>5, <2>7, <2>8 DEF IInv
<1> QED
  BY <1>8, <1>9

(* The next message begins with an empty vector; the receiver keeps what   *)
(* it had.                                                                 *)
LEMMA NewMessageKeeps ==
  ASSUME IInv, NewMessage
  PROVE  IInv'
<1>1. /\ size' = 0 /\ payload' = << >> /\ values' = << >> /\ shipped' = FALSE
      /\ got' = Nothing /\ tmp' = tmp /\ tmp \in Seq(Nat)
      /\ \E k \in Nat : Len(tmp) = Word * k
  BY DEF IInv, Types, NewMessage
<1>2. 0 = Word * 0 /\ Len(payload') = 0
  BY <1>1 DEF Word
<1>3. Types'
  <2>1. (\E k \in Nat : Len(payload') = Word * k) /\ \E k \in Nat : Len(tmp') = Word * k
    BY <1>1, <1>2
  <2>2. values' \in Seq(Sizes \X Values) /\ payload' \in Seq(Nat)
    BY <1>1
  <2> QED
    BY <1>1, <2>1, <2>2 DEF Types
<1>4. \E o \in [1..(Len(values') + 1) -> Nat] : Offsets(o, values') /\ o[Len(values') + 1] = 0
  BY <1>1, Fresh
<1>5. PICK o \in [1..(Len(values') + 1) -> Nat] : Offsets(o, values') /\ o[Len(values') + 1] = 0
  BY <1>4
<1>6. Laid(o)'
  BY <1>1, <1>2, <1>5 DEF Laid
<1>7. LocalRoundTrip' /\ FirstValueArrives'
  BY <1>1 DEF LocalRoundTrip, FirstValueArrives
<1> QED
  BY <1>3, <1>5, <1>6, <1>7 DEF IInv

LEMMA StutterKeeps ==
  ASSUME IInv, UNCHANGED vars
  PROVE  IInv'
  BY DEF IInv, vars, Types, Laid, Elements, LocalRoundTrip, FirstValueArrives, ReadRight

THEOREM Inductive == Spec => []IInv
<1>1. IInv /\ [Next]_vars => IInv'
  BY PutKeeps, GetKeeps, ShipKeeps, NewMessageKeeps, StutterKeeps DEF Next
<1> QED
  BY <1>1, InitIInv, PTL DEF Spec

-----------------------------------------------------------------------------
(* header.size and the vector agree while there is a value to take out,    *)
(* and a vector always has whole elements.                                 *)
THEOREM TypeCorrect == Spec => []TypeOK
<1>1. IInv => TypeOK
  <2> SUFFICES ASSUME IInv PROVE TypeOK
    OBVIOUS
  <2>1. PICK k \in Nat : Len(payload) = Word * k
    BY DEF IInv, Types
  <2>2. PICK j \in Nat : Len(tmp) = Word * j
    BY DEF IInv, Types
  <2>3. Len(payload) % Word = 0 /\ Len(tmp) % Word = 0
    BY <2>1, <2>2 DEF Word
  <2>4. values # <<>> => size = Elements
    BY ElementsIs DEF IInv, Types
  <2> QED
    BY <2>3, <2>4 DEF TypeOK, IInv, Types
<1> QED
  BY <1>1, Inductive, PTL

(* In one process every value comes out of a message as it went in, for    *)
(* any number of values of any types, put in and taken out in any order    *)
(* that the vector's stack allows.                                         *)
THEOREM RoundTrip == Spec => []LocalRoundTrip
<1>1. IInv => LocalRoundTrip
  BY DEF IInv
<1> QED
  BY <1>1, Inductive, PTL

(* Through a socket the first value of every message arrives, although     *)
(* only a quarter of the vector's bytes is sent, and whatever the messages *)
(* before it left in the receiver's buffer.                                *)
THEOREM FirstArrives == Spec => []FirstValueArrives
<1>1. IInv => FirstValueArrives
  BY DEF IInv
<1> QED
  BY <1>1, Inductive, PTL
=============================================================================
