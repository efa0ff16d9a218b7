----------------------------- MODULE Echo_proof ------------------------------
(***************************************************************************)
(* Proofs about the echo servers, for every capacity and number of bytes:  *)
(* first about the writes and the indices of the circular buffer, then     *)
(* where make_sequence puts an index, then what the client receives.       *)
(***************************************************************************)
EXTENDS MCEcho, Integers, TLAPS

w == Head(writes)

(* No write is outstanding, or one is.                                                 *)
AtMostOne == writes = << >> \/ writes = <<w>>

(* The simple server reads or writes; the others know from writing_ whether a write is *)
(* outstanding.                                                                        *)
WritingWhen ==
    /\ program \in {"simple", "decoupled", "circular"}
    /\ writing_ \in BOOLEAN
    /\ reading \in {"none", "wait", "done"}
    /\ sock \in {"none", "open", "closed"}
    /\ sock = "none" => reading = "none" /\ writes = << >>
    /\ program = "simple" => reading = "none" \/ writes = << >>
    /\ program # "simple" => (writing_ <=> writes # << >>)

(* The indices of the circular buffer: those of the write come first, then those that  *)
(* have arrived since, then those of the read, all within Capacity.                    *)
Whole(from, to) == to - from = Capacity /\ from # 0

Indices ==
    /\ head_ \in Nat /\ tail_ \in Nat /\ head_ <= tail_ /\ tail_ <= head_ + Capacity
    /\ sock = "none" => tail_ = 0
    /\ sock = "open" /\ writes = << >> => head_ = tail_

ReadRange ==
    /\ got \in Nat /\ room.from \in Nat /\ room.to \in Nat
    /\ reading # "none" => /\ room.from = tail_ /\ room.from <= room.to
                           /\ room.to <= head_ + Capacity
                           /\ ~Whole(room.from, room.to)
    /\ reading = "done" => got <= room.to - room.from

WriteRange ==
    writes # << >> => /\ w \in [from : Nat, to : Nat, next : Nat]
                      /\ w.from = head_ /\ w.from <= w.next /\ w.next <= w.to
                      /\ w.from < w.to /\ w.to <= tail_
                      /\ sock = "open" => ~Whole(w.from, w.to)

Ordered == Indices /\ ReadRange /\ WriteRange

(* The inductive invariant.                                                            *)
IInv == AtMostOne /\ WritingWhen /\ (program = "circular" => Ordered)

(* Sequences of at most one element.                                                   *)
LEMMA OneElement ==
  ASSUME NEW x, NEW y
  PROVE  /\ <<x>> # << >> /\ Head(<<x>>) = x /\ Tail(<<x>>) = << >> /\ Len(<<x>>) = 1
         /\ Append(<< >>, x) = <<x>>
         /\ <<y>> \o Tail(<<x>>) = <<y>>
<1>1. /\ <<x>> # << >> /\ Head(<<x>>) = x /\ Tail(<<x>>) = << >> /\ Len(<<x>>) = 1
      /\ Append(<< >>, x) = <<x>>
  OBVIOUS
<1>2. <<y>> \o << >> = <<y>>
  <2>1. <<y>> \in Seq({y})
    OBVIOUS
  <2> QED
    BY <2>1
<1> QED
  BY <1>1, <1>2

(* The first write makes room for its changed form.                                    *)
LEMMA FirstChanged ==
  ASSUME AtMostOne, writes # << >>, NEW y, writes' = <<y>> \o Tail(writes)
  PROVE  writes' = <<y>> /\ w' = y /\ AtMostOne' /\ writes' # << >>
  BY OneElement, Zenon DEF AtMostOne, w

(* The only write is done.                                                             *)
LEMMA FirstDone ==
  ASSUME AtMostOne, writes # << >>, writes' = Tail(writes)
  PROVE  writes' = << >> /\ AtMostOne'
  BY OneElement, Zenon DEF AtMostOne, w

(* A write is started when none is outstanding.                                        *)
LEMMA FirstStarted ==
  ASSUME writes = << >>, NEW x, writes' = Append(writes, x)
  PROVE  writes' = <<x>> /\ w' = x /\ AtMostOne' /\ writes' # << >>
  BY OneElement, Zenon DEF AtMostOne, w

(* The only write is done and another is started.                                      *)
LEMMA FirstFollowed ==
  ASSUME AtMostOne, writes # << >>, NEW x, writes' = Append(Tail(writes), x)
  PROVE  writes' = <<x>> /\ w' = x /\ AtMostOne' /\ writes' # << >>
<1>1. Tail(writes) = << >>
  BY OneElement, Zenon DEF AtMostOne
<1>2. writes' = <<x>>
  BY <1>1, OneElement, Zenon
<1> QED
  BY <1>2, OneElement, Zenon DEF AtMostOne, w

(* The server before the first connection.                                             *)
LEMMA InitIInv == Init => IInv
  BY CapacityAssumption DEF Init, IInv, AtMostOne, WritingWhen, Ordered, Indices, ReadRange, WriteRange, Whole, w

(* The client's steps change nothing of the session.                                   *)
LEMMA WorldKeeps ==
  ASSUME IInv, World
  PROVE  IInv'
<1>1. UNCHANGED <<program, sock, reading, got, writes, writing_, head_, tail_, room>>
  BY DEF World, ClientSends, ClientFinishes, LinkBreaks, ringVars
<1> QED
  BY <1>1 DEF IInv, AtMostOne, WritingWhen, Ordered, Indices, ReadRange, WriteRange, Whole, w

(* Simple echo.                                                                        *)
LEMMA SimpleKeeps ==
  ASSUME IInv, Simple!Next
  PROVE  IInv'
<1> USE DEF IInv, AtMostOne, WritingWhen, w, Simple!netVars
<1>1. CASE Simple!accept
  BY <1>1 DEF Simple!accept
<1>2. CASE Simple!read_some
  BY <1>2 DEF Simple!read_some, Simple!ReadBrings, Simple!Broken
<1>3. CASE Simple!on_read
  BY <1>3 DEF Simple!on_read, Simple!NewWrite
<1>4. CASE Simple!transmit
  <2>1. /\ writes # << >>
        /\ writes' = <<[w EXCEPT !.next = @ + 1]>> \o Tail(writes)
        /\ UNCHANGED <<program, sock, reading, writing_>>
    BY <1>4 DEF Simple!transmit, Simple!Transmit
  <2>2. AtMostOne' /\ writes' # << >>
    BY <2>1, FirstChanged
  <2> QED
    BY <1>4, <2>1, <2>2 DEF Simple!transmit
<1>5. CASE Simple!on_write
  BY <1>5 DEF Simple!on_write, Simple!WriteDone
<1>6. CASE Simple!on_error
  BY <1>6 DEF Simple!on_error
<1> QED
  BY <1>1, <1>2, <1>3, <1>4, <1>5, <1>6 DEF Simple!Next, Simple!Handlers

(* Decoupled echo.                                                                     *)
LEMMA DecoupledKeeps ==
  ASSUME IInv, Decoupled!Next
  PROVE  IInv'
<1> USE DEF IInv, AtMostOne, WritingWhen, w, Decoupled!netVars
<1>1. CASE Decoupled!accept
  BY <1>1 DEF Decoupled!accept
<1>2. CASE Decoupled!read_some
  BY <1>2 DEF Decoupled!read_some, Decoupled!ReadBrings, Decoupled!Broken
<1>3. CASE Decoupled!on_read
  <2>1. CASE ~writing_ /\ Decoupled!write
    <3>1. writes = << >> /\ writing_' = TRUE
          /\ \E x : writes' = Append(writes, x)
      BY <1>3, <2>1 DEF Decoupled!on_read, Decoupled!write
    <3>2. writes' # << >> /\ AtMostOne'
      BY <3>1, FirstStarted
    <3> QED
      BY <1>3, <3>1, <3>2 DEF Decoupled!on_read
  <2>2. CASE writing_ /\ UNCHANGED <<writing_, out_, writes>>
    BY <1>3, <2>2 DEF Decoupled!on_read
  <2> QED
    BY <1>3, <2>1, <2>2 DEF Decoupled!on_read
<1>4. CASE Decoupled!transmit
  <2>1. /\ writes # << >>
        /\ writes' = <<[w EXCEPT !.next = @ + 1]>> \o Tail(writes)
        /\ UNCHANGED <<program, sock, reading, writing_>>
    BY <1>4 DEF Decoupled!transmit, Decoupled!Transmit
  <2>2. AtMostOne' /\ writes' # << >>
    BY <2>1, FirstChanged
  <2> QED
    BY <1>4, <2>1, <2>2 DEF Decoupled!transmit
<1>5. CASE Decoupled!on_write
  <2>1. writes # << >> /\ writes' = Tail(writes) /\ writing_' = FALSE
    BY <1>5 DEF Decoupled!on_write, Decoupled!WriteDone, Decoupled!WriteFails
  <2>2. writes' = << >> /\ AtMostOne'
    BY <2>1, FirstDone
  <2>3. /\ sock # "none" /\ sock' \in {sock, "closed"}
        /\ UNCHANGED <<program, reading>> /\ program = "decoupled"
    BY <1>5, <2>1 DEF Decoupled!on_write
  <2> QED
    BY <2>1, <2>2, <2>3
<1>6. CASE Decoupled!on_read_close
  BY <1>6 DEF Decoupled!on_read_close, Decoupled!ReadFails
<1> QED
  BY <1>1, <1>2, <1>3, <1>4, <1>5, <1>6 DEF Decoupled!Next

(* The parts of the invariant for circular echo.                                       *)
LEMMA CircularParts ==
  ASSUME program = "circular"
  PROVE  IInv <=> AtMostOne /\ WritingWhen /\ Indices /\ ReadRange /\ WriteRange
  BY DEF IInv, Ordered

(* Circular echo, the read: accepted, filled, committed or failed.                     *)
LEMMA CircularReadKeeps ==
  ASSUME IInv, \/ Circular!accept \/ Circular!read_some \/ Circular!on_read
               \/ Circular!on_read_close
  PROVE  IInv'
<1> USE CapacityAssumption
<1>0. program = "circular" /\ program' = "circular"
  BY DEF Circular!accept, Circular!read_some, Circular!on_read, Circular!on_read_close,
         Circular!netVars
<1> SUFFICES AtMostOne' /\ WritingWhen' /\ Indices' /\ ReadRange' /\ WriteRange'
  BY <1>0 DEF IInv, Ordered
<1>i. AtMostOne /\ WritingWhen /\ Indices /\ ReadRange /\ WriteRange
  BY <1>0, CircularParts
<1>1. CASE Circular!accept
  <2>1. /\ sock = "none" /\ sock' \in {"open", "closed"}
        /\ reading' = "wait" /\ room' = [from |-> tail_, to |-> head_ + Capacity]
        /\ UNCHANGED <<got, writes, writing_, head_, tail_>>
    BY <1>1 DEF Circular!accept, Circular!prepare
  <2>2. w' = w /\ AtMostOne'
    BY <1>i, <2>1 DEF AtMostOne, w
  <2>3. WritingWhen' /\ writes' = << >>
    BY <1>0, <1>i, <2>1 DEF WritingWhen
  <2>4. Indices' /\ head_ = 0 /\ tail_ = 0
    BY <1>i, <2>1 DEF Indices
  <2>5. ReadRange' /\ WriteRange'
    BY <1>i, <2>1, <2>3, <2>4 DEF ReadRange, WriteRange, Whole
  <2> QED
    BY <2>2, <2>3, <2>4, <2>5
<1>2. CASE Circular!read_some
  <2>1. /\ reading = "wait" /\ reading' = "done" /\ got' \in 0 .. room.to - room.from
        /\ UNCHANGED <<sock, writes, writing_, head_, tail_, room>>
    BY <1>2 DEF Circular!read_some, Circular!ReadBrings
  <2>2. w' = w /\ AtMostOne'
    BY <1>i, <2>1 DEF AtMostOne, w
  <2>3. WritingWhen' /\ Indices' /\ WriteRange'
    BY <1>0, <1>i, <2>1, <2>2 DEF WritingWhen, Indices, WriteRange
  <2>4. ReadRange'
    BY <1>i, <2>1 DEF ReadRange
  <2> QED
    BY <2>2, <2>3, <2>4
<1>3. CASE Circular!on_read
  <2>1. /\ reading = "done" /\ got > 0 /\ reading' = "wait"
        /\ tail_' = tail_ + got /\ room' = [from |-> tail_ + got, to |-> head_ + Capacity]
        /\ UNCHANGED <<sock, got, head_>>
    BY <1>3 DEF Circular!on_read, Circular!prepare
  <2>2. /\ head_ \in Nat /\ tail_ \in Nat /\ got \in Nat
        /\ head_ <= tail_ /\ tail_ + got <= head_ + Capacity
    BY <1>i, <2>1 DEF Indices, ReadRange
  <2>3. ReadRange'
    BY <2>1, <2>2 DEF ReadRange, Whole
  <2>4. sock # "none"
    BY <1>i, <2>1 DEF WritingWhen
  <2>5. CASE writing_ /\ UNCHANGED <<writing_, writes>>
    <3>1. w' = w /\ AtMostOne' /\ writes # << >>
      BY <1>0, <1>i, <2>5 DEF AtMostOne, w, WritingWhen
    <3>2. WritingWhen' /\ Indices'
      BY <1>0, <1>i, <2>1, <2>2, <2>4, <2>5, <3>1 DEF WritingWhen, Indices
    <3>3. WriteRange'
      BY <1>i, <2>1, <2>2, <2>5, <3>1 DEF WriteRange
    <3> QED
      BY <2>3, <3>1, <3>2, <3>3
  <2>6. CASE ~writing_ /\ Circular!write(head_, tail_ + got)
    <3>1. /\ writes = << >> /\ writing_' = TRUE
          /\ writes' = Append(writes, [from |-> head_, to |-> tail_ + got, next |-> head_])
      BY <1>0, <1>i, <2>6 DEF WritingWhen, Circular!write, Circular!NewWrite
    <3>2. /\ writes' # << >> /\ AtMostOne'
          /\ w' = [from |-> head_, to |-> tail_ + got, next |-> head_]
      BY <3>1, FirstStarted
    <3>3. WritingWhen' /\ Indices'
      BY <1>0, <1>i, <2>1, <2>2, <2>4, <3>1, <3>2 DEF WritingWhen, Indices
    <3>4. sock = "open" => head_ = tail_ /\ ~Whole(tail_, tail_ + got)
      BY <1>i, <2>1, <2>2, <3>1 DEF Indices, ReadRange, Whole
    <3>5. WriteRange'
      BY <2>1, <2>2, <3>2, <3>4 DEF WriteRange, Whole
    <3> QED
      BY <2>3, <3>2, <3>3, <3>5
  <2> QED
    BY <1>3, <2>5, <2>6 DEF Circular!on_read
<1>4. CASE Circular!on_read_close
  <2>1. /\ reading # "none" /\ reading' = "none" /\ sock' = "closed"
        /\ UNCHANGED <<got, writes, writing_, head_, tail_, room>>
    BY <1>4 DEF Circular!on_read_close, Circular!ReadFails, Circular!ringVars
  <2>2. w' = w /\ AtMostOne'
    BY <1>i, <2>1 DEF AtMostOne, w
  <2>3. WritingWhen' /\ Indices'
    BY <1>0, <1>i, <2>1 DEF WritingWhen, Indices
  <2>4. ReadRange' /\ WriteRange'
    BY <1>i, <2>1, <2>2 DEF ReadRange, WriteRange
  <2> QED
    BY <2>2, <2>3, <2>4
<1> QED
  BY <1>1, <1>2, <1>3, <1>4

(* Circular echo, the write: transmitted, done, gone on or failed.                     *)
LEMMA CircularWriteKeeps ==
  ASSUME IInv, Circular!transmit \/ Circular!on_write \/ Circular!on_write_close
  PROVE  IInv'
<1> USE CapacityAssumption
<1>0. program = "circular" /\ program' = "circular"
  BY DEF Circular!transmit, Circular!on_write, Circular!on_write_close, Circular!netVars
<1> SUFFICES AtMostOne' /\ WritingWhen' /\ Indices' /\ ReadRange' /\ WriteRange'
  BY <1>0 DEF IInv, Ordered
<1>i. AtMostOne /\ WritingWhen /\ Indices /\ ReadRange /\ WriteRange
  BY <1>0, CircularParts
<1>w. writes # << >>
  BY DEF Circular!transmit, Circular!Transmit, Circular!on_write, Circular!WriteDone,
         Circular!on_write_close, Circular!WriteFails
<1>r. w \in [from : Nat, to : Nat, next : Nat]
  BY <1>i, <1>w DEF WriteRange
<1>a. /\ w.from \in Nat /\ w.to \in Nat /\ w.next \in Nat
      /\ w.from = head_ /\ w.from <= w.next /\ w.next <= w.to
      /\ w.from < w.to /\ w.to <= tail_
      /\ head_ \in Nat /\ tail_ \in Nat /\ tail_ <= head_ + Capacity
      /\ sock # "none"
  BY <1>i, <1>w, <1>r DEF Indices, WriteRange, WritingWhen
<1>1. CASE Circular!transmit
  <2>1. /\ w.next < w.to
        /\ writes' = <<[w EXCEPT !.next = @ + 1]>> \o Tail(writes)
        /\ UNCHANGED <<sock, reading, got, writing_, head_, tail_, room>>
    BY <1>1 DEF Circular!transmit, Circular!Transmit, Circular!ringVars, w
  <2>2. AtMostOne' /\ writes' # << >> /\ w' = [w EXCEPT !.next = @ + 1]
    BY <1>i, <1>w, <2>1, FirstChanged
  <2>3. /\ w' \in [from : Nat, to : Nat, next : Nat]
        /\ w'.from = w.from /\ w'.to = w.to /\ w'.next = w.next + 1
    BY <1>r, <2>2
  <2>4. WritingWhen' /\ Indices' /\ ReadRange'
    BY <1>0, <1>i, <1>w, <2>1, <2>2 DEF WritingWhen, Indices, ReadRange
  <2>5. w'.next \in Nat /\ w'.from <= w'.next /\ w'.next <= w'.to
    BY <1>a, <2>1, <2>3
  <2>6. WriteRange'
    BY <1>i, <1>w, <1>a, <2>1, <2>3, <2>5 DEF WriteRange, Whole
  <2> QED
    BY <2>2, <2>4, <2>6
<1>2. CASE Circular!on_write
  <2>1. /\ head_' = head_ + (w.to - w.from)
        /\ UNCHANGED <<sock, reading, got, tail_, room>>
    BY <1>2 DEF Circular!on_write, Circular!consume, w
  <2>2. head_' = w.to /\ head_' \in Nat /\ head_ < head_' /\ head_' <= tail_
    BY <1>a, <2>1
  <2>3. ReadRange'
    BY <1>i, <1>a, <2>1, <2>2 DEF ReadRange, Whole
  <2>4. CASE tail_ > head_' /\ writing_' = TRUE
             /\ writes' = Append(Tail(writes), [from |-> head_', to |-> tail_, next |-> head_'])
    <3>1. /\ writes' # << >> /\ AtMostOne'
          /\ w' = [from |-> head_', to |-> tail_, next |-> head_']
      BY <1>i, <1>w, <2>4, FirstFollowed
    <3>2. WritingWhen'
      BY <1>0, <1>i, <1>a, <2>1, <2>4, <3>1 DEF WritingWhen
    <3>i. Indices'
      BY <1>a, <2>1, <2>2, <3>1 DEF Indices
    <3>3. /\ w'.from = head_' /\ w'.to = tail_ /\ w'.next = head_'
          /\ w' \in [from : Nat, to : Nat, next : Nat]
      BY <1>a, <2>2, <3>1
    <3>4. WriteRange'
      BY <1>a, <2>1, <2>2, <2>4, <3>3 DEF WriteRange, Whole
    <3> QED
      BY <2>3, <3>1, <3>2, <3>i, <3>4
  <2>5. CASE tail_ <= head_' /\ writing_' = FALSE /\ writes' = Tail(writes)
    <3>1. writes' = << >> /\ AtMostOne'
      BY <1>i, <1>w, <2>5, FirstDone
    <3>2. WritingWhen'
      BY <1>0, <1>i, <1>a, <2>1, <2>5, <3>1 DEF WritingWhen
    <3>3. Indices' /\ WriteRange'
      BY <1>a, <2>1, <2>2, <2>5, <3>1 DEF Indices, WriteRange
    <3> QED
      BY <2>3, <3>1, <3>2, <3>3
  <2> QED
    BY <1>2, <2>4, <2>5 DEF Circular!on_write, Circular!NewWrite
<1>3. CASE Circular!on_write_close
  <2>1. /\ writes' = Tail(writes) /\ head_' = head_ + (w.next - w.from)
        /\ writing_' = FALSE /\ sock' = "closed"
        /\ UNCHANGED <<reading, got, tail_, room>>
    BY <1>3 DEF Circular!on_write_close, Circular!consume, w
  <2>2. writes' = << >> /\ AtMostOne'
    BY <1>i, <1>w, <2>1, FirstDone
  <2>3. head_' = w.next /\ head_' \in Nat /\ head_ <= head_' /\ head_' <= tail_
    BY <1>a, <2>1
  <2>4. WritingWhen'
    BY <1>0, <1>i, <1>a, <2>1, <2>2 DEF WritingWhen
  <2>i. Indices' /\ WriteRange'
    BY <1>a, <2>1, <2>2, <2>3 DEF Indices, WriteRange
  <2>5. ReadRange'
    BY <1>i, <1>a, <2>1, <2>3 DEF ReadRange, Whole
  <2> QED
    BY <2>2, <2>4, <2>i, <2>5
<1> QED
  BY <1>1, <1>2, <1>3

(* Every step keeps the invariant.                                                     *)
LEMMA NextIInv == IInv /\ [Next]_vars => IInv'
<1> SUFFICES ASSUME IInv, [Next]_vars PROVE IInv'
  OBVIOUS
<1>1. CASE Circular!Next
  BY <1>1, CircularReadKeeps, CircularWriteKeeps DEF Circular!Next, Circular!Handlers
<1>2. CASE UNCHANGED vars
  BY <1>2 DEF vars, netVars, ringVars, IInv, AtMostOne, WritingWhen, Ordered, Indices,
              ReadRange, WriteRange, Whole, w
<1> QED
  BY <1>1, <1>2, WorldKeeps, SimpleKeeps, DecoupledKeeps DEF Next

(* The invariant holds in every state.                                                 *)
LEMMA Invariant == Spec => []IInv
  BY InitIInv, NextIInv, PTL DEF Spec

-----------------------------------------------------------------------------

(* on_read and on_write never have two writes outstanding, and writing_ says whether   *)
(* there is one.                                                                       *)
THEOREM OneWriteAtATime == Spec => []OneWrite
<1>1. IInv => OneWrite
  <2> SUFFICES ASSUME IInv PROVE OneWrite
    OBVIOUS
  <2>1. Len(writes) <= 1
    <3>1. CASE writes = << >>
      BY <3>1
    <3>2. CASE writes = <<w>>
      <4>1. Len(<<w>>) = 1
        BY OneElement, Zenon
      <4> QED
        BY <3>2, <4>1
    <3> QED
      BY <3>1, <3>2 DEF IInv, AtMostOne
  <2>2. program # "simple" => writing_ = (writes # << >>)
    <3>1. CASE writing_ = TRUE
      BY <3>1, Zenon DEF IInv, WritingWhen
    <3>2. CASE writing_ = FALSE
      BY <3>2, Zenon DEF IInv, WritingWhen
    <3> QED
      BY <3>1, <3>2 DEF IInv, WritingWhen
  <2> QED
    BY <2>1, <2>2 DEF OneWrite
<1> QED
  BY <1>1, Invariant, PTL

-----------------------------------------------------------------------------
(* Where make_sequence puts an index: the remainder by the capacity.                   *)

(* The remainder is the only one.                                                      *)
LEMMA ModUnique ==
  ASSUME NEW N \in Nat \ {0}, NEW q \in Nat, NEW r \in 0 .. N - 1
  PROVE  (N * q + r) % N = r
  BY SMTT(20)
(* There is one.                                                                       *)
LEMMA DivMod ==
  ASSUME NEW N \in Nat \ {0}, NEW x \in Nat
  PROVE  \E q \in Nat : \E r \in 0 .. N - 1 : x = N * q + r
<1> DEFINE q == x \div N
           r == x - N * q
<1>1. q \in Int
  OBVIOUS
<1>2. N * q <= x /\ x < N * q + N
  BY SMTT(20)
<1>3. q \in Nat
  <2>1. ASSUME q < 0 PROVE FALSE
    <3> DEFINE k == 0 - q - 1
    <3> HIDE DEF q
    <3>1. k \in Nat /\ q = 0 - (k + 1)
      BY <1>1, <2>1
    <3> HIDE DEF k
    <3>2. N * q = 0 - N - N * k /\ N * k >= 0
      BY <3>1
    <3> QED
      BY <1>2, <3>1, <3>2
  <2> HIDE DEF q
  <2> QED
    BY <1>1, <2>1
<1> HIDE DEF q
<1>4. r \in 0 .. N - 1 /\ x = N * q + r
  BY <1>2, <1>3
<1> QED
  BY <1>3, <1>4

(* Going on by less than the capacity goes around the array at most once.              *)
LEMMA ModAdd ==
  ASSUME NEW N \in Nat \ {0}, NEW x \in Nat, NEW l \in 0 .. N - 1
  PROVE  (x + l) % N = IF (x % N) + l < N THEN (x % N) + l ELSE (x % N) + l - N
<1> DEFINE b == x % N
<1>0. PICK q \in Nat : \E r \in 0 .. N - 1 : x = N * q + r
  BY DivMod
<1>1. b \in 0 .. N - 1 /\ x = N * q + b
  <2>1. PICK r \in 0 .. N - 1 : x = N * q + r
    BY <1>0
  <2>2. (N * q + r) % N = r
    BY ModUnique
  <2> QED
    BY <2>1, <2>2
<1> HIDE DEF b
<1>2. CASE b + l < N
  <2>1. b + l \in 0 .. N - 1 /\ x + l = N * q + (b + l)
    BY <1>1, <1>2
  <2> QED
    BY <1>1, <1>2, <2>1, ModUnique DEF b
<1>3. CASE ~(b + l < N)
  <2>1. b + l - N \in 0 .. N - 1 /\ q + 1 \in Nat /\ x + l = N * (q + 1) + (b + l - N)
    BY <1>1, <1>3
  <2> QED
    BY <1>3, <2>1, ModUnique DEF b
<1> QED
  BY <1>2, <1>3

(* For a range that is shorter than the capacity, or begins at 0 and is not longer,    *)
(* the one or two pieces of make_sequence are the remainders.                          *)
LEMMA PlaceInArray ==
  ASSUME NEW begin \in Nat, NEW end \in Nat, NEW j \in begin .. end - 1,
         end - begin < Capacity \/ (begin = 0 /\ end <= Capacity)
  PROVE  /\ Circular!make_sequence(begin, end, j) = j % Capacity
         /\ j % Capacity \in 0 .. Capacity - 1
<1> DEFINE N == Capacity
           b == begin % N
           e == end % N
           k == j - begin
           n == end - begin
<1>0. N \in Nat \ {0}
  BY CapacityAssumption
<1>1. /\ k \in Nat /\ n \in Nat /\ k < n /\ j = begin + k /\ end = begin + n
      /\ n < N \/ (begin = 0 /\ n <= N)
  BY <1>0
<1>2. k \in 0 .. N - 1
  BY <1>0, <1>1
<1>3. b \in 0 .. N - 1
  BY <1>0, SMTT(20)
<1> HIDE DEF N, b, e, k, n
<1>4. j % N = IF b + k < N THEN b + k ELSE b + k - N
  BY <1>0, <1>1, <1>2, ModAdd DEF b
<1>5. n < N => e = IF b + n < N THEN b + n ELSE b + n - N
  <2> SUFFICES ASSUME n < N PROVE e = IF b + n < N THEN b + n ELSE b + n - N
    OBVIOUS
  <2>1. n \in 0 .. N - 1
    BY <1>0, <1>1
  <2> QED
    BY <1>0, <1>1, <2>1, ModAdd DEF b, e
<1>6. begin = 0 => b = 0
  <2>1. 0 % N = 0
    <3>1. (N * 0 + 0) % N = 0
      BY <1>0, ModUnique
    <3>2. N * 0 + 0 = 0
      BY <1>0
    <3> QED
      BY <3>1, <3>2
  <2> QED
    BY <2>1 DEF b
<1>7. Circular!make_sequence(begin, end, j)
         = IF b <= e \/ k < N - b THEN b + k ELSE k - (N - b)
  BY DEF Circular!make_sequence, N, b, e, k
<1>8. b + k >= N => ~(b <= e)
  BY <1>0, <1>1, <1>2, <1>3, <1>5, <1>6
<1>9. Circular!make_sequence(begin, end, j) = j % N
  BY <1>0, <1>2, <1>3, <1>4, <1>7, <1>8
<1>10. j % N \in 0 .. N - 1
  BY <1>0, <1>2, <1>3, <1>4
<1> QED
  BY <1>9, <1>10 DEF N

(* Indices less than the capacity apart lie in different places.                       *)
LEMMA PlacesDiffer ==
  ASSUME NEW i \in Nat, NEW j \in Nat, j < i, i < j + Capacity
  PROVE  i % Capacity # j % Capacity
<1> DEFINE l == i - j
<1>1. l \in 0 .. Capacity - 1 /\ l > 0 /\ i = j + l /\ Capacity \in Nat \ {0}
  BY CapacityAssumption
<1>2. j % Capacity \in Nat
  BY <1>1, SMTT(20)
<1> HIDE DEF l
<1>3. i % Capacity = IF (j % Capacity) + l < Capacity THEN (j % Capacity) + l
                     ELSE (j % Capacity) + l - Capacity
  BY <1>1, ModAdd
<1> QED
  BY <1>1, <1>2, <1>3

(* The one write.                                                                      *)
LEMMA TheWrite ==
  ASSUME AtMostOne, NEW n \in DOMAIN writes
  PROVE  writes[n] = w /\ writes # << >>
<1>1. writes # << >>
  OBVIOUS
<1>2. writes = <<w>>
  BY <1>1 DEF AtMostOne
<1>3. <<w>>[1] = w /\ DOMAIN <<w>> = {1}
  OBVIOUS
<1>4. n = 1
  BY <1>2, <1>3
<1> QED
  BY <1>1, <1>2, <1>3, <1>4

(* While the socket is open, no range that the session gives to async_read or          *)
(* async_write reaches behind the array, for every capacity.                           *)
THEOREM RangesStayInArray == Spec => []RangesInArray
<1>1. IInv => RangesInArray
  <2> SUFFICES ASSUME IInv, program = "circular", sock = "open"
               PROVE  /\ reading # "none" => Circular!InArray(room.from, room.to)
                      /\ \A n \in DOMAIN writes : Circular!InArray(writes[n].from, writes[n].to)
    BY DEF RangesInArray, Circular!RangesInArray
  <2>0. Capacity \in Nat \ {0} /\ ReadRange /\ WriteRange /\ Indices /\ AtMostOne
    BY CapacityAssumption DEF IInv, Ordered
  <2>1. ASSUME NEW begin \in Nat, NEW end \in Nat,
               end - begin < Capacity \/ (begin = 0 /\ end <= Capacity)
        PROVE  Circular!InArray(begin, end)
    <3>1. \A j \in begin .. end - 1 : Circular!make_sequence(begin, end, j) \in 0 .. Capacity - 1
      BY <2>1, PlaceInArray
    <3> QED
      BY <2>0, <3>1 DEF Circular!InArray
  <2>2. reading # "none" => /\ room.from \in Nat /\ room.to \in Nat
                            /\ room.to - room.from < Capacity
                               \/ (room.from = 0 /\ room.to <= Capacity)
    BY <2>0 DEF ReadRange, Indices, Whole
  <2>3. writes # << >> => /\ w.from \in Nat /\ w.to \in Nat
                          /\ w.to - w.from < Capacity \/ (w.from = 0 /\ w.to <= Capacity)
    BY <2>0 DEF WriteRange, Indices, Whole
  <2> QED
    BY <2>0, <2>1, <2>2, <2>3, TheWrite
<1> QED
  BY <1>1, Invariant, PTL

(* While the socket is open, the read that goes on during a write never puts a byte    *)
(* where one still lies that is to be transmitted.                                     *)
THEOREM ReadsSpareWrites == Spec => []NoOverlap
<1>1. IInv => NoOverlap
  <2> SUFFICES ASSUME IInv, program = "circular", sock = "open", reading = "wait",
                      NEW n \in DOMAIN writes, NEW i \in room.from .. room.to - 1,
                      NEW j \in writes[n].next .. writes[n].to - 1
               PROVE  Circular!make_sequence(room.from, room.to, i)
                         # Circular!make_sequence(writes[n].from, writes[n].to, j)
    BY DEF NoOverlap, Circular!NoOverlap
  <2>0. Capacity \in Nat \ {0} /\ ReadRange /\ WriteRange /\ Indices /\ AtMostOne
    BY CapacityAssumption DEF IInv, Ordered
  <2>1. writes[n] = w /\ writes # << >>
    BY <2>0, TheWrite
  <2>2. /\ room.from \in Nat /\ room.to \in Nat /\ w.to <= room.from /\ room.to <= w.from + Capacity
        /\ room.to - room.from < Capacity \/ (room.from = 0 /\ room.to <= Capacity)
    BY <2>0, <2>1 DEF ReadRange, WriteRange, Indices, Whole
  <2>3. /\ w.from \in Nat /\ w.to \in Nat /\ w.next \in Nat /\ w.from <= w.next
        /\ w.to - w.from < Capacity \/ (w.from = 0 /\ w.to <= Capacity)
    BY <2>0, <2>1 DEF WriteRange, Indices, Whole
  <2>4. j \in w.from .. w.to - 1 /\ i \in Nat /\ j \in Nat /\ j < i /\ i < j + Capacity
    <3>1. j \in w.next .. w.to - 1
      BY <2>1
    <3>2. Capacity \in Nat
      BY <2>0
    <3>3. j \in w.from .. w.to - 1 /\ j \in Nat /\ j < w.to /\ w.from <= j
      BY <2>3, <3>1
    <3>4. i \in Nat /\ room.from <= i /\ i < room.to
      BY <2>2
    <3> QED
      BY <2>2, <2>3, <3>2, <3>3, <3>4
  <2>5. Circular!make_sequence(room.from, room.to, i) = i % Capacity
    BY <2>2, PlaceInArray
  <2>6. Circular!make_sequence(w.from, w.to, j) = j % Capacity
    BY <2>3, <2>4, PlaceInArray
  <2> QED
    BY <2>1, <2>4, <2>5, <2>6, PlacesDiffer
<1> QED
  BY <1>1, Invariant, PTL

-----------------------------------------------------------------------------
(* What the client receives.                                                           *)

(* The simple server holds in in_ what it has taken and not yet written for good; the  *)
(* client has what came before, and what of it is transmitted.                         *)
SimpleHolds ==
    LET before == taken - Len(in_) IN
    /\ before \in Nat
    /\ \A i \in 1 .. Len(in_) : in_[i] = before + i
    /\ writes = << >> => Len(echoed) = before /\ (reading = "wait" => in_ = << >>)
    /\ writes # << >> => /\ w \in [from : Nat, to : Nat, next : Nat] /\ w.to = Len(in_)
                         /\ w.next <= w.to
                         /\ Len(echoed) = before + w.next

(* The decoupled server holds all it has taken in in_; its write sends a copy of a     *)
(* beginning of that, and the client has received the transmitted part of it last.     *)
DecoupledHolds ==
    /\ Len(in_) = taken /\ \A i \in 1 .. Len(in_) : in_[i] = i
    /\ writes = << >> => out_ = << >>
    /\ writes # << >> => /\ w \in [from : Nat, to : Nat, next : Nat] /\ w.to = Len(out_)
                         /\ w.next <= w.to
                         /\ \A i \in 1 .. Len(out_) : out_[i] = i
                         /\ w.next > 0 => /\ Len(echoed) > 0
                                          /\ echoed[Len(echoed)] = w.next

(* The circular server holds the bytes that are not written for good in their places   *)
(* of the array, the ones of a read that is done included.                             *)
Arrived == tail_ + IF reading = "done" THEN got ELSE 0
CircularHolds ==
    /\ taken = Arrived
    /\ \A j \in head_ .. taken - 1 : buffer_[j % Capacity] = j + 1
    /\ Len(echoed) = IF writes = << >> THEN head_ ELSE w.next

Memory == /\ echoed \in Seq(Nat)
          /\ sock # "closed" => in_ \in Seq(Nat) /\ out_ \in Seq(Nat)
          /\ buffer_ \in [0 .. Capacity - 1 -> Nat]
          /\ taken \in Nat /\ sent \in Nat
          /\ sock = "none" => /\ echoed = << >> /\ in_ = << >> /\ out_ = << >> /\ taken = 0
                              /\ head_ = 0

Holds == sock = "open" => /\ program = "simple" => SimpleHolds
                          /\ program = "decoupled" => DecoupledHolds
                          /\ program = "circular" => CircularHolds

(* The inductive invariant for what the client receives.                               *)
EInv == IInv /\ Memory /\ Holds /\ EchoInOrder

(* One more byte is received in its turn.                                              *)
LEMMA OneMoreByte ==
  ASSUME EchoInOrder, echoed \in Seq(Nat), NEW b \in Nat, echoed' = Append(echoed, b),
         program' = program,
         \/ b = Len(echoed) + 1
         \/ program = "decoupled" /\ b = 1
         \/ program = "decoupled" /\ Len(echoed) > 0 /\ b = echoed[Len(echoed)] + 1
  PROVE  /\ EchoInOrder' /\ echoed' \in Seq(Nat)
         /\ Len(echoed') = Len(echoed) + 1 /\ echoed'[Len(echoed')] = b
<1> DEFINE n == Len(echoed)
           s == Append(echoed, b)
<1>1. /\ n \in Nat /\ s \in Seq(Nat) /\ Len(s) = n + 1 /\ DOMAIN s = 1 .. n + 1 /\ s[n + 1] = b
      /\ DOMAIN echoed = 1 .. n /\ \A i \in 1 .. n : s[i] = echoed[i]
  OBVIOUS
<1> HIDE DEF n, s
<1>2. ASSUME NEW i \in 1 .. n + 1
      PROVE  \/ s[i] = i
             \/ program = "decoupled" /\ i > 1 /\ s[i] \in {1, s[i - 1] + 1}
  <2>1. CASE i = n + 1
    <3>1. CASE b = n + 1
      BY <1>1, <2>1, <3>1
    <3>2. CASE program = "decoupled" /\ b = 1
      BY <1>1, <2>1, <3>2
    <3>3. CASE program = "decoupled" /\ n > 0 /\ b = echoed[n] + 1
      <4>1. n \in 1 .. n /\ i - 1 = n /\ i > 1
        BY <1>1, <2>1, <3>3
      <4>2. s[i - 1] = echoed[n]
        BY <1>1, <4>1
      <4> QED
        BY <1>1, <2>1, <3>3, <4>1, <4>2
    <3> QED
      BY <3>1, <3>2, <3>3 DEF n
  <2>2. CASE i # n + 1
    <3>1. i \in 1 .. n /\ (i > 1 => i - 1 \in 1 .. n)
      BY <1>1, <2>2
    <3>2. s[i] = echoed[i] /\ (i > 1 => s[i - 1] = echoed[i - 1])
      BY <1>1, <3>1
    <3>3. \/ echoed[i] = i
          \/ program = "decoupled" /\ i > 1 /\ echoed[i] \in {1, echoed[i - 1] + 1}
      BY <1>1, <3>1 DEF EchoInOrder
    <3> QED
      BY <3>2, <3>3
  <2> QED
    BY <2>1, <2>2
<1>3. echoed' = s
  BY DEF s
<1>4. EchoInOrder'
  BY <1>1, <1>2, <1>3 DEF EchoInOrder
<1> QED
  BY <1>1, <1>3, <1>4 DEF n

(* A read adds bytes behind those that a buffer holds.                                 *)
LEMMA BytesAdded ==
  ASSUME NEW s \in Seq(Nat), NEW k \in Nat, NEW t \in Nat, NEW z, z = s \o [i \in 1 .. k |-> t + i]
  PROVE  /\ z \in Seq(Nat) /\ Len(z) = Len(s) + k
         /\ \A i \in 1 .. Len(s) : z[i] = s[i]
         /\ \A i \in 1 .. k : z[Len(s) + i] = t + i
<1> DEFINE f == [i \in 1 .. k |-> t + i]
<1>1. f \in Seq(Nat) /\ Len(f) = k /\ \A i \in 1 .. k : f[i] = t + i
  OBVIOUS
<1> HIDE DEF f
<1>2. z = s \o f
  BY DEF f
<1> QED
  BY <1>1, <1>2

(* If those were the bytes up to t, all are the bytes up to t + k.                     *)
LEMMA BytesFollow ==
  ASSUME NEW s \in Seq(Nat), NEW k \in Nat, NEW t \in Nat, NEW z, z = s \o [i \in 1 .. k |-> t + i],
         NEW b \in Nat, t = b + Len(s), \A i \in 1 .. Len(s) : s[i] = b + i
  PROVE  z \in Seq(Nat) /\ Len(z) = Len(s) + k /\ \A i \in 1 .. Len(z) : z[i] = b + i
<1>1. /\ z \in Seq(Nat) /\ Len(z) = Len(s) + k
      /\ \A i \in 1 .. Len(s) : z[i] = s[i]
      /\ \A i \in 1 .. k : z[Len(s) + i] = t + i
  BY BytesAdded
<1>2. ASSUME NEW i \in 1 .. Len(z) PROVE z[i] = b + i
  <2>1. CASE i <= Len(s)
    <3>1. i \in 1 .. Len(s)
      BY <1>1, <2>1
    <3> QED
      BY <1>1, <3>1
  <2>2. CASE i > Len(s)
    <3> DEFINE j == i - Len(s)
    <3>1. j \in 1 .. k /\ i = Len(s) + j /\ b + i = t + j
      BY <1>1, <2>2
    <3> HIDE DEF j
    <3> QED
      BY <1>1, <3>1
  <2> QED
    BY <1>1, <2>1, <2>2
<1> QED
  BY <1>1, <1>2

(* A write of all that a buffer holds leaves nothing.                                  *)
LEMMA NothingLeft ==
  ASSUME NEW s \in Seq(Nat)
  PROVE  SubSeq(s, Len(s) + 1, Len(s)) = << >>
  OBVIOUS

(* The empty buffer.                                                                   *)
LEMMA Empty ==
  ASSUME NEW s, s = << >>
  PROVE  s \in Seq(Nat) /\ Len(s) = 0 /\ \A i \in 1 .. Len(s) : FALSE
<1>1. Len(s) = 0
  OBVIOUS
<1>2. s \in Seq(Nat)
  OBVIOUS
<1> QED
  BY <1>1, <1>2

(* The simple server.                                                                  *)
LEMMA SimpleEchoes ==
  ASSUME EInv, IInv', Simple!Next
  PROVE  EInv'
<1>0. /\ program = "simple" /\ IInv /\ Memory /\ EchoInOrder /\ (sock = "open" => SimpleHolds)
      /\ WritingWhen /\ AtMostOne /\ UNCHANGED <<program, sent, buffer_, out_, head_>>
  BY DEF EInv, IInv, Holds, Simple!Next, Simple!Handlers, Simple!accept, Simple!read_some,
         Simple!on_read, Simple!transmit, Simple!on_write, Simple!on_error,
         Simple!netVars, Simple!ringVars
<1> SUFFICES Memory' /\ (sock' = "open" => SimpleHolds') /\ EchoInOrder'
  BY <1>0 DEF EInv, Holds
<1>1. CASE Simple!accept
  <2>1. /\ sock = "none" /\ reading' = "wait" /\ sock' \in {"open", "closed"}
        /\ UNCHANGED <<taken, echoed, writes, in_>>
    BY <1>1 DEF Simple!accept
  <2>2. echoed = << >> /\ in_ = << >> /\ taken = 0 /\ writes = << >>
    BY <1>0, <2>1 DEF Memory, WritingWhen
  <2>e. Len(in_) = 0 /\ Len(echoed) = 0 /\ \A i \in 1 .. Len(in_) : FALSE
    BY <2>2, Empty
  <2>t. taken = 0 /\ Len(in_) = 0
    BY <2>2, <2>e
  <2>3. taken - Len(in_) = 0
    BY <2>t
  <2>4. SimpleHolds'
    BY <2>1, <2>2, <2>e, <2>3 DEF SimpleHolds
  <2> QED
    BY <1>0, <2>1, <2>4 DEF Memory, EchoInOrder
<1>2. CASE Simple!read_some
  <2>1. PICK k \in 1 .. MaxBytes : /\ Simple!ReadBrings(k, MaxBytes)
                                   /\ in_' = in_ \o [i \in 1 .. k |-> taken + i]
    BY <1>2 DEF Simple!read_some
  <2>2. /\ reading = "wait" /\ reading' = "done" /\ taken' = taken + k /\ sock = "open"
        /\ k \in Nat /\ UNCHANGED <<sock, echoed, writes>>
    BY <1>0, <1>2, <2>1, CapacityAssumption
       DEF Simple!read_some, Simple!ReadBrings, Simple!Broken, WritingWhen
  <2>3. writes = << >>
    BY <1>0, <2>2 DEF WritingWhen
  <2>4. /\ taken - Len(in_) \in Nat /\ Len(echoed) = taken - Len(in_)
        /\ \A i \in 1 .. Len(in_) : in_[i] = (taken - Len(in_)) + i
    BY <1>0, <2>2, <2>3 DEF SimpleHolds
  <2>5. /\ in_' \in Seq(Nat) /\ Len(in_') = Len(in_) + k
        /\ \A i \in 1 .. Len(in_') : in_'[i] = (taken - Len(in_)) + i
    <3> DEFINE b == taken - Len(in_)
    <3>1. b \in Nat /\ taken = b + Len(in_) /\ \A i \in 1 .. Len(in_) : in_[i] = b + i
      BY <1>0, <2>4 DEF Memory
    <3> HIDE DEF b
    <3>2. in_' \in Seq(Nat) /\ Len(in_') = Len(in_) + k /\ \A i \in 1 .. Len(in_') : in_'[i] = b + i
      BY <1>0, <2>1, <2>2, <3>1, BytesFollow DEF Memory
    <3> QED
      BY <3>2 DEF b
  <2>6. taken' \in Nat /\ taken' - Len(in_') = taken - Len(in_)
    BY <1>0, <2>2, <2>5 DEF Memory
  <2>7. SimpleHolds'
    BY <2>2, <2>3, <2>4, <2>5, <2>6 DEF SimpleHolds
  <2> QED
    BY <1>0, <2>2, <2>5, <2>6, <2>7 DEF Memory, EchoInOrder
<1>3. CASE Simple!on_read
  <2>1. /\ reading = "done" /\ reading' = "none"
        /\ writes' = Append(writes, [from |-> 0, to |-> Len(in_), next |-> 0])
        /\ UNCHANGED <<sock, taken, echoed, in_>>
    BY <1>3 DEF Simple!on_read, Simple!NewWrite
  <2>2. writes = << >>
    BY <1>0, <2>1 DEF WritingWhen
  <2>3. writes' # << >> /\ w' = [from |-> 0, to |-> Len(in_), next |-> 0]
    BY <2>1, <2>2, FirstStarted
  <2>4. sock' = "open" => SimpleHolds'
    BY <1>0, <2>1, <2>2, <2>3 DEF SimpleHolds, Memory
  <2> QED
    BY <1>0, <2>1, <2>4 DEF Memory, EchoInOrder
<1>4. CASE Simple!transmit
  <2>1. /\ writes # << >> /\ sock = "open" /\ w.next < w.to
        /\ echoed' = Append(echoed, in_[w.next + 1])
        /\ writes' = <<[w EXCEPT !.next = @ + 1]>> \o Tail(writes)
        /\ UNCHANGED <<sock, taken, reading, in_>>
    BY <1>0, <1>4 DEF Simple!transmit, Simple!Transmit, Simple!Broken, WritingWhen, w
  <2>2. /\ taken - Len(in_) \in Nat /\ w.next \in Nat /\ w.to = Len(in_)
        /\ w \in [from : Nat, to : Nat, next : Nat]
        /\ Len(echoed) = (taken - Len(in_)) + w.next
        /\ \A i \in 1 .. Len(in_) : in_[i] = (taken - Len(in_)) + i
    BY <1>0, <2>1 DEF SimpleHolds
  <2>3. w.next + 1 \in 1 .. Len(in_)
    BY <1>0, <2>1, <2>2 DEF Memory
  <2>4. in_[w.next + 1] \in Nat /\ in_[w.next + 1] = Len(echoed) + 1
    BY <2>2, <2>3
  <2>5. EchoInOrder' /\ echoed' \in Seq(Nat) /\ Len(echoed') = Len(echoed) + 1
    BY <1>0, <2>1, <2>4, OneMoreByte DEF Memory
  <2>6. writes' # << >> /\ w' = [w EXCEPT !.next = @ + 1]
    BY <1>0, <2>1, FirstChanged
  <2>7. /\ w' \in [from : Nat, to : Nat, next : Nat]
        /\ w'.next = w.next + 1 /\ w'.to = w.to
    BY <2>2, <2>6
  <2>8. SimpleHolds'
    <3>1. w'.next <= w'.to /\ Len(echoed') = (taken - Len(in_)) + w'.next
      <4>1. w.to \in Nat /\ w.next < w.to
        BY <2>1, <2>2
      <4> QED
        BY <2>2, <2>5, <2>7, <4>1
    <3> QED
      BY <2>1, <2>2, <2>6, <2>7, <3>1 DEF SimpleHolds
  <2> QED
    BY <1>0, <2>1, <2>5, <2>8 DEF Memory
<1>5. CASE Simple!on_write
  <2>1. /\ writes # << >> /\ w.next = w.to /\ writes' = Tail(writes) /\ reading' = "wait"
        /\ in_' = SubSeq(in_, w.to + 1, Len(in_)) /\ UNCHANGED <<sock, taken, echoed>>
    BY <1>5 DEF Simple!on_write, Simple!WriteDone, w
  <2>2. writes' = << >>
    BY <1>0, <2>1, FirstDone
  <2>3. sock # "none" /\ sock \in {"none", "open", "closed"}
    BY <1>0, <2>1 DEF WritingWhen
  <2>4. sock = "open" => SimpleHolds' /\ in_' = << >>
    <3> SUFFICES ASSUME sock = "open" PROVE SimpleHolds' /\ in_' = << >>
      OBVIOUS
    <3>1. /\ taken - Len(in_) \in Nat /\ w.to = Len(in_)
          /\ Len(echoed) = (taken - Len(in_)) + w.to
      BY <1>0, <2>1 DEF SimpleHolds
    <3>n. in_' = << >>
      BY <1>0, <2>1, <3>1, NothingLeft DEF Memory
    <3>2. Len(in_') = 0 /\ \A i \in 1 .. Len(in_') : FALSE
      BY <3>n, Empty
    <3>3. taken \in Nat /\ Len(in_) \in Nat
      BY <1>0 DEF Memory
    <3>4. taken' - Len(in_') = taken /\ Len(echoed) = taken
      BY <2>1, <3>1, <3>2, <3>3
    <3> QED
      BY <2>1, <2>2, <3>n, <3>2, <3>3, <3>4 DEF SimpleHolds
  <2>5. sock = "open" => in_' \in Seq(Nat)
    BY <2>4, Empty
  <2> QED
    BY <1>0, <2>1, <2>3, <2>4, <2>5 DEF Memory, EchoInOrder
<1>6. CASE Simple!on_error
  BY <1>0, <1>6 DEF Simple!on_error, Memory, EchoInOrder
<1> QED
  BY <1>1, <1>2, <1>3, <1>4, <1>5, <1>6 DEF Simple!Next, Simple!Handlers

(* The decoupled server.                                                               *)
LEMMA DecoupledEchoes ==
  ASSUME EInv, IInv', Decoupled!Next
  PROVE  EInv'
<1>0. /\ program = "decoupled" /\ IInv /\ Memory /\ EchoInOrder /\ (sock = "open" => DecoupledHolds)
      /\ WritingWhen /\ AtMostOne /\ UNCHANGED <<program, sent, buffer_, head_>>
  BY DEF EInv, IInv, Holds, Decoupled!Next, Decoupled!accept, Decoupled!read_some,
         Decoupled!on_read, Decoupled!on_read_close, Decoupled!transmit, Decoupled!on_write,
         Decoupled!netVars, Decoupled!ringVars
<1> SUFFICES Memory' /\ (sock' = "open" => DecoupledHolds') /\ EchoInOrder'
  BY <1>0 DEF EInv, Holds
<1>1. CASE Decoupled!accept
  <2>1. /\ sock = "none" /\ reading' = "wait" /\ sock' \in {"open", "closed"}
        /\ UNCHANGED <<taken, echoed, writes, in_, out_>>
    BY <1>1 DEF Decoupled!accept
  <2>2. in_ = << >> /\ out_ = << >> /\ taken = 0 /\ writes = << >>
    BY <1>0, <2>1 DEF Memory, WritingWhen
  <2>3. Len(in_) = 0 /\ \A i \in 1 .. Len(in_) : FALSE
    BY <2>2, Empty
  <2>4. DecoupledHolds'
    BY <2>1, <2>2, <2>3 DEF DecoupledHolds
  <2> QED
    BY <1>0, <2>1, <2>4 DEF Memory, EchoInOrder
<1>2. CASE Decoupled!read_some
  <2>1. PICK k \in 0 .. MaxBytes : /\ Decoupled!ReadBrings(k, Capacity - Len(in_))
                                   /\ in_' = in_ \o [i \in 1 .. k |-> taken + i]
    BY <1>2 DEF Decoupled!read_some
  <2>2. /\ reading' = "done" /\ taken' = taken + k /\ sock = "open"
        /\ k \in Nat /\ UNCHANGED <<sock, echoed, writes, out_>>
    BY <1>0, <1>2, <2>1, CapacityAssumption
       DEF Decoupled!read_some, Decoupled!ReadBrings, Decoupled!Broken, WritingWhen
  <2>3. in_ \in Seq(Nat) /\ taken \in Nat /\ Len(in_) = taken /\ \A i \in 1 .. Len(in_) : in_[i] = 0 + i
    <3>1. in_ \in Seq(Nat) /\ taken \in Nat
      BY <1>0, <2>2 DEF Memory
    <3>2. Len(in_) = taken /\ \A i \in 1 .. Len(in_) : in_[i] = i
      BY <1>0, <2>2 DEF DecoupledHolds
    <3> QED
      BY <3>1, <3>2
  <2>4. in_' \in Seq(Nat) /\ Len(in_') = Len(in_) + k /\ \A i \in 1 .. Len(in_') : in_'[i] = 0 + i
    <3>1. PICK b \in Nat : b = 0
      OBVIOUS
    <3>2. taken = b + Len(in_) /\ \A i \in 1 .. Len(in_) : in_[i] = b + i
      BY <2>3, <3>1
    <3>4. in_ \in Seq(Nat) /\ k \in Nat /\ taken \in Nat
      BY <2>2, <2>3
    <3>5. in_' = in_ \o [i \in 1 .. k |-> taken + i]
      BY <2>1
    <3>3. in_' \in Seq(Nat) /\ Len(in_') = Len(in_) + k /\ \A i \in 1 .. Len(in_') : in_'[i] = b + i
      BY <3>4, <3>5, <3>2, BytesFollow
    <3> QED
      BY <3>1, <3>3
  <2>5. Len(in_') = taken' /\ taken' \in Nat /\ \A i \in 1 .. Len(in_') : in_'[i] = i
    BY <2>2, <2>3, <2>4
  <2>6. w' = w
    BY <2>2 DEF w
  <2>7. DecoupledHolds'
    BY <1>0, <2>2, <2>5, <2>6 DEF DecoupledHolds
  <2> QED
    BY <1>0, <2>2, <2>4, <2>5, <2>7 DEF Memory, EchoInOrder
<1>3. CASE Decoupled!on_read
  <2>1. UNCHANGED <<sock, taken, echoed, in_>> /\ sock # "none"
    BY <1>0, <1>3 DEF Decoupled!on_read, WritingWhen
  <2>2. CASE ~writing_ /\ Decoupled!write
    <3>1. /\ writes = << >> /\ out_' = out_ \o in_
          /\ writes' = Append(writes, [from |-> 0, to |-> Len(out_) + Len(in_), next |-> 0])
      BY <1>0, <2>2 DEF WritingWhen, Decoupled!write, Decoupled!NewWrite
    <3>2. writes' # << >> /\ w' = [from |-> 0, to |-> Len(out_) + Len(in_), next |-> 0]
      BY <3>1, FirstStarted
    <3>3. sock = "open" => out_' = in_ /\ in_ \in Seq(Nat) /\ Len(out_) = 0
      <4> SUFFICES ASSUME sock = "open" PROVE out_' = in_ /\ in_ \in Seq(Nat) /\ Len(out_) = 0
        OBVIOUS
      <4>1. out_ = << >> /\ in_ \in Seq(Nat)
        BY <1>0, <3>1 DEF DecoupledHolds, Memory
      <4>2. << >> \o in_ = in_
        BY <4>1
      <4> QED
        BY <3>1, <4>1, <4>2, Empty
    <3>4. sock = "open" => DecoupledHolds'
      <4> SUFFICES ASSUME sock = "open" PROVE DecoupledHolds'
        OBVIOUS
      <4>1. /\ Len(in_) \in Nat /\ Len(in_) = taken /\ \A i \in 1 .. Len(in_) : in_[i] = i
        BY <1>0, <3>3 DEF DecoupledHolds
      <4>2. /\ w' = [from |-> 0, to |-> Len(out_'), next |-> 0]
            /\ Len(out_') = Len(in_) /\ \A i \in 1 .. Len(out_') : out_'[i] = i
        BY <3>2, <3>3, <4>1
      <4>3. /\ w' \in [from : Nat, to : Nat, next : Nat] /\ w'.to = Len(out_') /\ w'.next = 0
            /\ w'.next <= w'.to
        BY <4>1, <4>2
      <4> QED
        BY <2>1, <3>2, <4>1, <4>2, <4>3 DEF DecoupledHolds
    <3>5. sock = "open" => out_' \in Seq(Nat)
      BY <3>3
    <3>6. sock \in {"none", "open", "closed"}
      BY <1>0 DEF WritingWhen
    <3> QED
      BY <1>0, <2>1, <3>4, <3>5, <3>6 DEF Memory, EchoInOrder
  <2>3. CASE UNCHANGED <<writing_, out_, writes>>
    BY <1>0, <2>1, <2>3 DEF DecoupledHolds, w, Memory, EchoInOrder
  <2> QED
    BY <1>3, <2>2, <2>3 DEF Decoupled!on_read
<1>4. CASE Decoupled!transmit
  <2>1. /\ writes # << >> /\ sock = "open" /\ w.next < w.to
        /\ echoed' = Append(echoed, out_[w.next + 1])
        /\ writes' = <<[w EXCEPT !.next = @ + 1]>> \o Tail(writes)
        /\ UNCHANGED <<sock, taken, reading, in_, out_>>
    BY <1>0, <1>4 DEF Decoupled!transmit, Decoupled!Transmit, Decoupled!Broken, WritingWhen, w
  <2>2. /\ w \in [from : Nat, to : Nat, next : Nat] /\ w.next \in Nat /\ w.to = Len(out_)
        /\ \A i \in 1 .. Len(out_) : out_[i] = i
        /\ w.next > 0 => Len(echoed) > 0 /\ echoed[Len(echoed)] = w.next
    BY <1>0, <2>1 DEF DecoupledHolds
  <2>3. w.next + 1 \in 1 .. Len(out_)
    BY <1>0, <2>1, <2>2 DEF Memory
  <2>4. out_[w.next + 1] = w.next + 1 /\ w.next + 1 \in Nat
    BY <2>2, <2>3
  <2>5. \/ w.next + 1 = 1
        \/ Len(echoed) > 0 /\ w.next + 1 = echoed[Len(echoed)] + 1
    BY <2>2
  <2>6. /\ EchoInOrder' /\ echoed' \in Seq(Nat)
        /\ Len(echoed') = Len(echoed) + 1 /\ echoed'[Len(echoed')] = w.next + 1
    BY <1>0, <2>1, <2>4, <2>5, OneMoreByte DEF Memory
  <2>7. writes' # << >> /\ w' = [w EXCEPT !.next = @ + 1]
    BY <1>0, <2>1, FirstChanged
  <2>8. /\ w' \in [from : Nat, to : Nat, next : Nat]
        /\ w'.next = w.next + 1 /\ w'.to = w.to
    BY <2>2, <2>7
  <2>9. Len(echoed') > 0 /\ w'.next <= w'.to
    BY <1>0, <2>3, <2>2, <2>6, <2>8 DEF Memory
  <2>10. DecoupledHolds'
    BY <1>0, <2>1, <2>2, <2>6, <2>7, <2>8, <2>9 DEF DecoupledHolds
  <2> QED
    BY <1>0, <2>1, <2>6, <2>10 DEF Memory
<1>5. CASE Decoupled!on_write
  <2>1. /\ writes # << >> /\ writes' = Tail(writes)
        /\ out_' = SubSeq(out_, w.next + 1, Len(out_)) /\ UNCHANGED <<taken, echoed, in_>>
        /\ \/ w.next = w.to /\ sock' = sock
           \/ sock' = "closed"
    BY <1>5 DEF Decoupled!on_write, Decoupled!WriteDone, Decoupled!WriteFails, w
  <2>2. writes' = << >>
    BY <1>0, <2>1, FirstDone
  <2>3. sock # "none" /\ sock \in {"none", "open", "closed"}
    BY <1>0, <2>1 DEF WritingWhen
  <2>4. sock' = "open" => DecoupledHolds' /\ out_' = << >>
    <3> SUFFICES ASSUME sock' = "open" PROVE DecoupledHolds' /\ out_' = << >>
      OBVIOUS
    <3>1. DecoupledHolds /\ w.next = w.to /\ w.to = Len(out_) /\ out_ \in Seq(Nat)
      BY <1>0, <2>1 DEF DecoupledHolds, Memory
    <3>2. out_' = << >>
      BY <2>1, <3>1, NothingLeft
    <3> QED
      BY <2>1, <2>2, <3>1, <3>2 DEF DecoupledHolds
  <2>5. sock' = "open" => out_' \in Seq(Nat)
    BY <2>4, Empty
  <2> QED
    BY <1>0, <2>1, <2>3, <2>4, <2>5 DEF Memory, EchoInOrder
<1>6. CASE Decoupled!on_read_close
  BY <1>0, <1>6 DEF Decoupled!on_read_close, Memory, EchoInOrder
<1> QED
  BY <1>1, <1>2, <1>3, <1>4, <1>5, <1>6 DEF Decoupled!Next

(* The circular server's reads.                                                        *)
LEMMA CircularReadEchoes ==
  ASSUME EInv, IInv', \/ Circular!accept \/ Circular!read_some \/ Circular!on_read
                      \/ Circular!on_read_close
  PROVE  EInv'
<1>0. /\ program = "circular" /\ IInv /\ Memory /\ EchoInOrder /\ (sock = "open" => CircularHolds)
      /\ WritingWhen /\ AtMostOne /\ Indices /\ ReadRange /\ WriteRange
      /\ UNCHANGED <<program, sent, echoed, in_, out_, head_>>
  BY DEF EInv, IInv, Ordered, Holds, Circular!accept, Circular!read_some, Circular!on_read,
         Circular!on_read_close, Circular!netVars, Circular!ringVars
<1>c. Capacity \in Nat \ {0}
  BY CapacityAssumption
<1> SUFFICES Memory' /\ (sock' = "open" => CircularHolds') /\ EchoInOrder'
  BY <1>0 DEF EInv, Holds
<1>e. EchoInOrder'
  BY <1>0 DEF EchoInOrder
<1>1. CASE Circular!accept
  <2>1. /\ sock = "none" /\ reading' = "wait" /\ sock' \in {"open", "closed"}
        /\ UNCHANGED <<taken, writes, tail_, buffer_>>
    BY <1>1 DEF Circular!accept
  <2>2. echoed = << >> /\ taken = 0 /\ writes = << >> /\ head_ = 0 /\ tail_ = 0
    BY <1>0, <2>1 DEF Memory, WritingWhen, Indices
  <2>3. Len(echoed) = 0
    BY <2>2, Empty
  <2>4. CircularHolds'
    BY <1>0, <2>1, <2>2, <2>3 DEF CircularHolds, Arrived
  <2> QED
    BY <1>0, <1>e, <2>1, <2>4 DEF Memory
<1>2. CASE Circular!read_some
  <2> DEFINE P(i) == Circular!make_sequence(room.from, room.to, room.from + i - 1)
  <2>1. PICK k \in 0 .. MaxBytes :
           /\ Circular!ReadBrings(k, room.to - room.from)
           /\ buffer_' = [a \in DOMAIN buffer_ |->
                            IF \E i \in 1 .. k : a = P(i)
                            THEN taken + CHOOSE i \in 1 .. k : a = P(i) ELSE buffer_[a]]
    BY <1>2 DEF Circular!read_some
  <2>2. /\ reading = "wait" /\ reading' = "done" /\ got' = k /\ taken' = taken + k /\ sock = "open"
        /\ k \in Nat /\ k <= room.to - room.from /\ UNCHANGED <<sock, writes, tail_, room>>
    BY <1>0, <1>2, <2>1, <1>c, CapacityAssumption
       DEF Circular!read_some, Circular!ReadBrings, Circular!Broken, WritingWhen
  <2>3. /\ taken = tail_ /\ Len(echoed) = (IF writes = << >> THEN head_ ELSE w.next)
        /\ \A j \in head_ .. taken - 1 : buffer_[j % Capacity] = j + 1
    BY <1>0, <2>2 DEF CircularHolds, Arrived, Indices
  <2>4. /\ room.from = taken /\ room.to \in Nat /\ taken \in Nat /\ head_ \in Nat /\ head_ <= taken
        /\ room.from <= room.to /\ room.to <= head_ + Capacity
        /\ room.to - room.from < Capacity \/ (room.from = 0 /\ room.to <= Capacity)
    BY <1>0, <1>c, <2>2, <2>3 DEF ReadRange, Indices, Whole
  <2>5. ASSUME NEW i \in 1 .. k
        PROVE  P(i) = (taken + i - 1) % Capacity /\ P(i) \in 0 .. Capacity - 1
    <3>1. room.from + i - 1 \in room.from .. room.to - 1 /\ room.from + i - 1 = taken + i - 1
      BY <2>2, <2>4
    <3>2. \A j \in room.from .. room.to - 1 :
             /\ Circular!make_sequence(room.from, room.to, j) = j % Capacity
             /\ j % Capacity \in 0 .. Capacity - 1
      BY <2>4, PlaceInArray
    <3> QED
      BY <3>1, <3>2
  <2> HIDE DEF P
  <2>6. ASSUME NEW i \in 1 .. k, NEW l \in 1 .. k, P(i) = P(l) PROVE i = l
    <3>1. ASSUME NEW m \in 1 .. k, NEW n \in 1 .. k, m < n PROVE P(m) # P(n)
      <4>1. /\ taken + m - 1 \in Nat /\ taken + n - 1 \in Nat /\ taken + m - 1 < taken + n - 1
            /\ taken + n - 1 < (taken + m - 1) + Capacity
        BY <1>c, <2>2, <2>4, <3>1
      <4>2. (taken + n - 1) % Capacity # (taken + m - 1) % Capacity
        BY <4>1, PlacesDiffer
      <4> QED
        BY <2>5, <4>2
    <3> QED
      BY <2>6, <3>1
  <2>7. ASSUME NEW i \in 1 .. k, NEW j \in head_ .. taken - 1 PROVE P(i) # j % Capacity
    <3>1. /\ taken + i - 1 \in Nat /\ j \in Nat /\ j < taken + i - 1
          /\ taken + i - 1 < j + Capacity
      BY <1>c, <2>2, <2>4
    <3> QED
      BY <2>5, <3>1, PlacesDiffer
  <2>8. buffer_ \in [0 .. Capacity - 1 -> Nat]
    BY <1>0 DEF Memory
  <2>9. ASSUME NEW i \in 1 .. k PROVE buffer_'[P(i)] = taken + i
    <3>1. (CHOOSE l \in 1 .. k : P(i) = P(l)) = i
      BY <2>6
    <3> QED
      BY <2>1, <2>5, <2>8, <3>1
  <2>10. ASSUME NEW j \in head_ .. taken - 1 PROVE buffer_'[j % Capacity] = buffer_[j % Capacity]
    <3>1. j % Capacity \in 0 .. Capacity - 1
      BY <1>c, <2>4, SMTT(20)
    <3> QED
      BY <2>1, <2>7, <2>8, <3>1
  <2>11. ASSUME NEW j \in head_ .. taken' - 1 PROVE buffer_'[j % Capacity] = j + 1
    <3>1. CASE j < taken
      <4>1. j \in head_ .. taken - 1
        BY <2>2, <2>4, <3>1
      <4> QED
        BY <2>3, <2>10, <4>1
    <3>2. CASE j >= taken
      <4> DEFINE i == j - taken + 1
      <4>1. i \in 1 .. k /\ taken + i - 1 = j /\ taken + i = j + 1
        BY <2>2, <2>4, <3>2
      <4> HIDE DEF i
      <4> QED
        BY <2>5, <2>9, <4>1
    <3> QED
      BY <2>4, <3>1, <3>2
  <2>12. buffer_' \in [0 .. Capacity - 1 -> Nat]
    <3>1. ASSUME NEW a \in 0 .. Capacity - 1, NEW i \in 1 .. k, a = P(i)
          PROVE  (CHOOSE l \in 1 .. k : a = P(l)) \in 1 .. k
      BY <3>1
    <3> QED
      BY <2>1, <2>2, <2>4, <2>8, <3>1
  <2>13. CircularHolds'
    <3>1. w' = w /\ taken' = Arrived'
      BY <2>2, <2>3 DEF w, Arrived
    <3> QED
      BY <1>0, <2>2, <2>3, <2>11, <3>1 DEF CircularHolds
  <2> QED
    BY <1>0, <1>e, <2>2, <2>4, <2>12, <2>13 DEF Memory
<1>3. CASE Circular!on_read
  <2>1. /\ reading = "done" /\ reading' = "wait" /\ tail_' = tail_ + got
        /\ UNCHANGED <<sock, taken, buffer_>>
        /\ sock # "none"
    BY <1>0, <1>3 DEF Circular!on_read, WritingWhen
  <2>2. sock = "open" => taken' = Arrived'
    <3>1. got \in Nat /\ tail_ \in Nat
      BY <1>0 DEF ReadRange, Indices
    <3> QED
      BY <1>0, <2>1, <3>1 DEF CircularHolds, Arrived
  <2>3. CASE ~writing_ /\ Circular!write(head_, tail_ + got)
    <3>1. /\ writes = << >>
          /\ writes' = Append(writes, [from |-> head_, to |-> tail_ + got, next |-> head_])
      BY <1>0, <2>3 DEF WritingWhen, Circular!write, Circular!NewWrite
    <3>2. writes' # << >> /\ w' = [from |-> head_, to |-> tail_ + got, next |-> head_]
      BY <3>1, FirstStarted
    <3>3. sock = "open" => CircularHolds'
      BY <1>0, <2>1, <2>2, <3>1, <3>2 DEF CircularHolds
    <3> QED
      BY <1>0, <1>e, <2>1, <3>3 DEF Memory
  <2>4. CASE UNCHANGED <<writing_, writes>>
    <3>1. w' = w
      BY <2>4 DEF w
    <3>2. sock = "open" => CircularHolds'
      BY <1>0, <2>1, <2>2, <2>4, <3>1 DEF CircularHolds
    <3> QED
      BY <1>0, <1>e, <2>1, <3>2 DEF Memory
  <2> QED
    BY <1>3, <2>3, <2>4 DEF Circular!on_read
<1>4. CASE Circular!on_read_close
  BY <1>0, <1>e, <1>4 DEF Circular!on_read_close, Circular!ringVars, Memory
<1> QED
  BY <1>1, <1>2, <1>3, <1>4

(* The circular server's writes.                                                       *)
LEMMA CircularWriteEchoes ==
  ASSUME EInv, IInv', Circular!transmit \/ Circular!on_write \/ Circular!on_write_close
  PROVE  EInv'
<1>0. /\ program = "circular" /\ IInv /\ Memory /\ EchoInOrder /\ (sock = "open" => CircularHolds)
      /\ WritingWhen /\ AtMostOne /\ Indices /\ ReadRange /\ WriteRange
      /\ UNCHANGED <<program, sent, taken, reading, got, in_, out_, buffer_, tail_>>
  BY DEF EInv, IInv, Ordered, Holds, Circular!transmit, Circular!on_write,
         Circular!on_write_close, Circular!netVars, Circular!ringVars
<1>c. Capacity \in Nat \ {0}
  BY CapacityAssumption
<1> SUFFICES Memory' /\ (sock' = "open" => CircularHolds') /\ EchoInOrder'
  BY <1>0 DEF EInv, Holds
<1>w. writes # << >>
  BY DEF Circular!transmit, Circular!Transmit, Circular!on_write, Circular!WriteDone,
         Circular!on_write_close, Circular!WriteFails
<1>r. /\ w \in [from : Nat, to : Nat, next : Nat] /\ w.from = head_ /\ w.from <= w.next
      /\ w.next <= w.to /\ w.to <= tail_ /\ sock # "none" /\ tail_ \in Nat /\ head_ \in Nat
      /\ tail_ <= head_ + Capacity
  BY <1>0, <1>w DEF WriteRange, WritingWhen, Indices
<1>a. w.from \in Nat /\ w.to \in Nat /\ w.next \in Nat
  BY <1>r
<1>t. sock = "open" => tail_ <= taken /\ taken \in Nat
  BY <1>0, <1>r DEF CircularHolds, Arrived, ReadRange, Memory
<1>1. CASE Circular!transmit
  <2> DEFINE a == Circular!make_sequence(w.from, w.to, w.next)
  <2>1. /\ sock = "open" /\ w.next < w.to
        /\ echoed' = Append(echoed, IF a \in DOMAIN buffer_ THEN buffer_[a] ELSE 0)
        /\ writes' = <<[w EXCEPT !.next = @ + 1]>> \o Tail(writes)
        /\ UNCHANGED <<sock, head_>>
    BY <1>r, <1>1, <1>0 DEF Circular!transmit, Circular!Transmit, Circular!Broken, Circular!ringVars, w,
       WritingWhen
  <2>2. a = w.next % Capacity /\ a \in 0 .. Capacity - 1
    <3>1. w.next \in w.from .. w.to - 1
      BY <1>r, <1>a, <2>1
    <3>2. w.to - w.from < Capacity \/ (w.from = 0 /\ w.to <= Capacity)
      BY <1>0, <1>w, <1>r, <1>a, <1>c, <2>1 DEF WriteRange, Whole
    <3> QED
      BY <1>a, <3>1, <3>2, PlaceInArray
  <2> HIDE DEF a
  <2>3. buffer_ \in [0 .. Capacity - 1 -> Nat]
    BY <1>0 DEF Memory
  <2>4. w.next \in head_ .. taken - 1
    BY <1>r, <1>a, <1>t, <2>1
  <2>5. buffer_[a] = w.next + 1 /\ Len(echoed) = w.next
    BY <1>0, <1>w, <2>1, <2>2, <2>4 DEF CircularHolds
  <2>6. echoed' = Append(echoed, w.next + 1) /\ w.next + 1 = Len(echoed) + 1
    BY <2>1, <2>2, <2>3, <2>5
  <2>7. EchoInOrder' /\ echoed' \in Seq(Nat) /\ Len(echoed') = Len(echoed) + 1
    BY <1>0, <1>a, <2>6, OneMoreByte DEF Memory
  <2>8. writes' # << >> /\ w' = [w EXCEPT !.next = @ + 1]
    BY <1>0, <1>w, <2>1, FirstChanged
  <2>9. w'.next = w.next + 1
    BY <1>r, <2>8
  <2>10. CircularHolds'
    BY <1>0, <2>1, <2>5, <2>7, <2>8, <2>9 DEF CircularHolds, Arrived
  <2> QED
    BY <1>0, <2>1, <2>7, <2>10 DEF Memory
<1>2. CASE Circular!on_write
  <2>1. head_' = head_ + (w.to - w.from) /\ w.next = w.to /\ UNCHANGED <<sock, echoed>>
    BY <1>2 DEF Circular!on_write, Circular!consume, Circular!WriteDone, w
  <2>2. head_' = w.to
    BY <1>r, <1>a, <2>1
  <2>3. sock = "open" => /\ taken = Arrived' /\ Len(echoed) = w.to
                         /\ \A j \in head_' .. taken - 1 : buffer_[j % Capacity] = j + 1
    <3> SUFFICES ASSUME sock = "open"
                 PROVE  /\ taken = Arrived' /\ Len(echoed) = w.to
                        /\ \A j \in head_' .. taken - 1 : buffer_[j % Capacity] = j + 1
      OBVIOUS
    <3>1. \A j \in head_' .. taken - 1 : j \in head_ .. taken - 1
      BY <1>r, <1>a, <1>t, <2>2
    <3> QED
      BY <1>0, <1>w, <2>1, <3>1 DEF CircularHolds, Arrived
  <2>4. CASE writes' = Append(Tail(writes), [from |-> head_', to |-> tail_, next |-> head_'])
    <3>1. writes' # << >> /\ w' = [from |-> head_', to |-> tail_, next |-> head_']
      BY <1>0, <1>w, <2>4, FirstFollowed
    <3>2. w'.next = w.to
      BY <2>2, <3>1
    <3>3. sock = "open" => CircularHolds'
      BY <1>0, <2>1, <2>3, <3>1, <3>2 DEF CircularHolds
    <3> QED
      BY <1>0, <1>r, <2>1, <3>3 DEF Memory, EchoInOrder
  <2>5. CASE writes' = Tail(writes)
    <3>1. writes' = << >>
      BY <1>0, <1>w, <2>5, FirstDone
    <3>2. sock = "open" => CircularHolds'
      BY <1>0, <2>1, <2>2, <2>3, <3>1 DEF CircularHolds
    <3> QED
      BY <1>0, <1>r, <2>1, <3>2 DEF Memory, EchoInOrder
  <2> QED
    BY <1>2, <2>4, <2>5 DEF Circular!on_write, Circular!NewWrite
<1>3. CASE Circular!on_write_close
  BY <1>0, <1>3 DEF Circular!on_write_close, Memory, EchoInOrder
<1> QED
  BY <1>1, <1>2, <1>3

(* Every step keeps the invariant.                                                     *)
LEMMA NextEInv == EInv /\ [Next]_vars => EInv'
<1> SUFFICES ASSUME EInv, [Next]_vars PROVE EInv'
  OBVIOUS
<1>0. IInv'
  BY NextIInv DEF EInv
<1>1. CASE World
  <2>1. /\ UNCHANGED <<program, sock, taken, echoed, reading, got, writes, in_, out_, ringVars>>
        /\ sent' = sent \/ sent' = sent + 1
    BY <1>1 DEF World, ClientSends, ClientFinishes, LinkBreaks
  <2>2. Memory' /\ EchoInOrder'
    BY <2>1 DEF EInv, Memory, EchoInOrder, ringVars
  <2>3. Holds'
    BY <2>1 DEF EInv, Holds, SimpleHolds, DecoupledHolds, CircularHolds, Arrived, w, ringVars
  <2> QED
    BY <1>0, <2>2, <2>3 DEF EInv
<1>2. CASE Circular!Next
  BY <1>0, <1>2, CircularReadEchoes, CircularWriteEchoes DEF Circular!Next, Circular!Handlers
<1>3. CASE UNCHANGED vars
  <2>1. Memory' /\ EchoInOrder'
    BY <1>3 DEF vars, netVars, ringVars, EInv, Memory, EchoInOrder
  <2>2. Holds'
    BY <1>3 DEF vars, netVars, ringVars, EInv, Holds, SimpleHolds, DecoupledHolds,
                CircularHolds, Arrived, w
  <2> QED
    BY <1>0, <2>1, <2>2 DEF EInv
<1> QED
  BY <1>0, <1>1, <1>2, <1>3, SimpleEchoes, DecoupledEchoes DEF Next

(* The client gets its bytes back, each once and in their order, from the simple and   *)
(* from the circular server, although a write of the latter refers to an array into    *)
(* which a read goes at the same time; from the decoupled server it gets runs that     *)
(* begin with byte 1 again.                                                            *)
THEOREM EchoesInOrder == Spec => []EchoInOrder
<1>1. Init => EInv
  <2> SUFFICES ASSUME Init PROVE EInv
    OBVIOUS
  <2>1. IInv
    BY InitIInv
  <2>2. Memory /\ Holds /\ EchoInOrder
    BY CapacityAssumption DEF Init, Memory, Holds, EchoInOrder
  <2> QED
    BY <2>1, <2>2 DEF EInv
<1>2. EInv => EchoInOrder
  BY DEF EInv
<1> QED
  BY <1>1, <1>2, NextEInv, PTL DEF Spec
=============================================================================
