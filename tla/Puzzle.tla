------------------------------- MODULE Puzzle --------------------------------
(***************************************************************************)
(* encrypt_handshake_data of connection_net_interface.hpp, the function    *)
(* that both ends apply to the server's number, for numbers of any number  *)
(* of bytes (the code: 8) and hexadecimal digits, two to a byte, of any    *)
(* number of bits (the code: 4).                                           *)
(***************************************************************************)
EXTENDS Naturals, Bitwise
LOCAL INSTANCE FiniteSetsExt

Words(bytes, bits) == 0 .. 2^(2 * bits * bytes) - 1

\* 0xF0F0F0F0F0F0F0: the upper digit of every byte but the highest.
Mask(bytes, bits) ==
    SumSet({(2^bits - 1) * 2^(bits * (2 * b + 1)) : b \in 0 .. bytes - 2})

\* The same mask serves both shifts: an upper digit comes to the lower place of its
\* own byte and to that of the next one, where the two that meet are or-ed.
encrypt_handshake_data(bytes, bits, first, second, input) ==
    LET out == (input ^^ first) & Mask(bytes, bits)
    IN  ((out \div 2^bits) | (out * 2^bits)) ^^ second

\* Two versions whose first (second) constants differ in one digit only: the numbers
\* for which their solutions are the same.
SameFirst(bytes, digit, c, d) ==
    {x \in Words(bytes, 1) : encrypt_handshake_data(bytes, 1, c, d, x)
                             = encrypt_handshake_data(bytes, 1, c ^^ (2^digit), d, x)}
SameSecond(bytes, digit, c, d) ==
    {x \in Words(bytes, 1) : encrypt_handshake_data(bytes, 1, c, d, x)
                             = encrypt_handshake_data(bytes, 1, c, d ^^ (2^digit), x)}

\* Which digit may hold "a version number" (connection_net_interface.hpp:293): any of
\* the second constant; of the first one only the upper digit of the lowest byte and of
\* the last byte but one.  The other upper digits tell two versions apart for some
\* numbers only, the lower digits and those of the highest byte for none.
ASSUME VersionDigit ==
    LET bytes == 4 c == 173 d == 94 IN
    \A digit \in 0 .. 2 * bytes - 1 :
        /\ SameSecond(bytes, digit, c, d) = {}
        /\ digit \in {1, 2 * bytes - 3} => SameFirst(bytes, digit, c, d) = {}
        /\ digit \in {3} => SameFirst(bytes, digit, c, d) \notin {{}, Words(bytes, 1)}
        /\ digit % 2 = 0 \/ digit = 2 * bytes - 1
              => SameFirst(bytes, digit, c, d) = Words(bytes, 1)
=============================================================================
