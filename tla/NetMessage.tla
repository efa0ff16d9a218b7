----------------------------- MODULE NetMessage -----------------------------
(***************************************************************************)
(* The payload of a message<T> (net_message.hpp), byte by byte: values go  *)
(* in with operator<<, across the socket, and come out with operator>> in  *)
(* the opposite order.  payload is a vector<uint32_t>, but operator<< adds *)
(* as many ELEMENTS as the value has bytes, and copies the bytes to the    *)
(* first quarter of them; the connection sends as many BYTES as there are  *)
(* elements (connection_net_interface.hpp 215-216, 266-267).               *)
(***************************************************************************)
EXTENDS Integers, Sequences

CONSTANTS Sizes,    \* sizeof of the types whose values are sent
          Values,   \* what tells two values of a type apart
          MaxPut    \* bound: values in one message

ASSUME SizesAssumption == Sizes \subseteq 1..15 /\ Values \subseteq Nat
ASSUME BoundAssumption == MaxPut \in Nat

Word == 4   \* bytes of a uint32_t

VARIABLES size,     \* header.size
          payload,  \* the bytes of the vector
          values,   \* the values put in and not yet taken out: <<sizeof, value>>
          shipped,  \* the message came through a socket
          tmp,      \* the payload bytes the receiver's tmp_input_msg_ has
          got       \* what the last operator>> should have read, and read

vars == <<size, payload, values, shipped, tmp, got>>

Nothing == <<>>

(* The bytes of value v of a type of n bytes, all different and not zero.  *)
Bytes(n, v) == [i \in 1..n |-> 16 * v + i]

(* vector::resize to k elements: new ones are zero.                        *)
Resize(bytes, k) == [i \in 1..(Word * k) |-> IF i <= Len(bytes) THEN bytes[i] ELSE 0]

(* memcpy of data to byte offset at.                                       *)
CopyTo(bytes, at, data) ==
    [i \in DOMAIN bytes |-> IF i - at \in DOMAIN data THEN data[i - at] ELSE bytes[i]]

Elements == Len(payload) \div Word

Init == /\ size = 0 /\ payload = <<>> /\ values = <<>>
        /\ shipped = FALSE /\ tmp = <<>> /\ got = Nothing

(* msg << v                                                                *)
Put(n, v) == /\ ~shipped /\ Len(values) < MaxPut
             /\ payload' = CopyTo(Resize(payload, Elements + n), Word * Elements, Bytes(n, v))
             /\ size' = Elements + n
             /\ values' = Append(values, <<n, v>>)
             /\ got' = Nothing
             /\ UNCHANGED <<shipped, tmp>>

(* Mutant of Get: the vector's index is taken for an offset in bytes.      *)
GetAtByte == /\ values # <<>>
             /\ LET top   == values[Len(values)]
                    start == Elements - top[1]
                    data  == SubSeq(payload, start + 1, start + top[1])
                IN /\ payload' = Resize(payload, start)
                   /\ size' = start
                   /\ got' = <<Bytes(top[1], top[2]), data, Len(values)>>
             /\ values' = SubSeq(values, 1, Len(values) - 1)
             /\ UNCHANGED <<shipped, tmp>>

(* msg >> v, with v of the type that was put in last.                      *)
Get == /\ values # <<>>
       /\ LET top   == values[Len(values)]
              start == Elements - top[1]
              data  == SubSeq(payload, Word * start + 1, Word * start + top[1])
          IN /\ payload' = Resize(payload, start)
             /\ size' = start
             /\ got' = <<Bytes(top[1], top[2]), data, Len(values)>>
       /\ values' = SubSeq(values, 1, Len(values) - 1)
       /\ UNCHANGED <<shipped, tmp>>

(* Mutant of Received: the last byte is not read.                          *)
ReceivedShort(old, n, bytes) == CopyTo(Resize(old, n), 0, SubSeq(bytes, 1, n - 1))

(* What n bytes of payload leave in a receiver with the payload old: it    *)
(* resizes to n elements and reads n bytes.                                *)
Received(old, n, bytes) == CopyTo(Resize(old, n), 0, SubSeq(bytes, 1, n))

(* writePayload at one end, ReadHeader and ReadPayload at the other; a     *)
(* message without payload leaves the receiver's buffer alone.             *)
Ship == /\ ~shipped
        /\ tmp' = IF size > 0 THEN Received(tmp, size, payload) ELSE tmp
        /\ payload' = tmp'
        /\ shipped' = TRUE
        /\ got' = Nothing
        /\ UNCHANGED <<size, values>>

(* The next message, to the same receiver.                                 *)
NewMessage == /\ shipped
              /\ size' = 0 /\ payload' = <<>> /\ values' = <<>>
              /\ shipped' = FALSE /\ got' = Nothing
              /\ UNCHANGED tmp

Next == \/ \E n \in Sizes, v \in Values : Put(n, v)
        \/ Get \/ Ship \/ NewMessage

Spec == Init /\ [][Next]_vars

-----------------------------------------------------------------------------
TypeOK == /\ size \in Nat /\ shipped \in BOOLEAN
          /\ values \in Seq(Sizes \X Values)
          /\ Len(payload) % Word = 0 /\ Len(tmp) % Word = 0
          /\ values # <<>> => size = Elements

ReadRight == got[1] = got[2]

(* tests/test_serialization.cpp: in one process, values of any types come  *)
(* out of a message as they went in, last one first.                       *)
LocalRoundTrip == got # Nothing /\ ~shipped => ReadRight

(* Through a socket the first value of a message arrives, whatever the     *)
(* receiver's buffer held: the ping's time stamp, the id in MessageAll.    *)
FirstValueArrives == got # Nothing /\ shipped /\ got[3] = 1 => ReadRight
=============================================================================
