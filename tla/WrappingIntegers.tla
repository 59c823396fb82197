-------------------------- MODULE WrappingIntegers --------------------------
(***************************************************************************)
(* libsponge/wrapping_integers.{hh,cc}: 32-bit sequence numbers that wrap, *)
(* and their conversion from and to absolute 64-bit sequence numbers.      *)
(* The two widths are parameters (2^32 and 2^64 in the code) and every     *)
(* unsigned operation of the code is reduced modulo its width.             *)
(***************************************************************************)
EXTENDS Integers

CONSTANTS Wrap32,   \* 2^32 in the code: the values of a WrappingInt32
          Wrap64    \* 2^64 in the code: the values of a uint64_t

ASSUME WrapAssumption ==
    /\ Wrap32 \in Nat /\ Wrap32 > 0 /\ Wrap32 % 2 = 0
    /\ Wrap64 \in Nat /\ Wrap64 >= 2 * Wrap32 /\ Wrap64 % Wrap32 = 0

Uint32 == 0 .. Wrap32 - 1
Uint64 == 0 .. Wrap64 - 1

\* static_cast<uint32_t>(1) << 31
Half32 == Wrap32 \div 2

\* WrappingInt32::operator+ on its raw value, and operator- read back as an
\* unsigned 32-bit number (unwrap() casts the int32_t it returns).
Plus(a, b) == (a + b) % Wrap32
Minus(a, b) == (a - b) % Wrap32

wrap(n, isn) == Plus(isn, n % Wrap32)

\* Mutant: the distance is always added, never subtracted.
unwrapForward(n, isn, checkpoint) ==
    (checkpoint + Minus(n, wrap(checkpoint, isn))) % Wrap64

\* Mutant: the result is not kept from passing below zero.
unwrapUnderflow(n, isn, checkpoint) ==
    LET distance == Minus(n, wrap(checkpoint, isn))
    IN IF distance < Half32
         THEN (checkpoint + distance) % Wrap64
         ELSE (checkpoint - (Wrap32 - distance)) % Wrap64

\* unwrap(): go forward by less than half the 32-bit space or else backward,
\* unless that passes below zero.
unwrap(n, isn, checkpoint) ==
    LET distance == Minus(n, wrap(checkpoint, isn))
        temp_ans == (checkpoint - (Wrap32 - distance)) % Wrap64
    IN IF distance < Half32 \/ temp_ans > checkpoint
         THEN (checkpoint + distance) % Wrap64
         ELSE temp_ans
=============================================================================
