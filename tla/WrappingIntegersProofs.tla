----------------------- MODULE WrappingIntegersProofs -----------------------
(***************************************************************************)
(* wrap() and unwrap() are inverse to one another near the checkpoint, and *)
(* unwrap() finds the closest absolute number, for every width of the two  *)
(* integer types, hence for the code's 2^32 and 2^64.                      *)
(***************************************************************************)
EXTENDS WrappingIntegersSpec, StreamLemmas

\* Numbers a multiple of a lap apart wrap to the same value, and numbers that
\* wrap to the same value have the same distance to any checkpoint.
LEMMA SameWire ==
    ASSUME NEW n \in Nat, NEW m \in Nat, NEW i \in Nat, NEW k \in Int,
           m = n + Wrap32 * k
    PROVE  wrap(m, i) = wrap(n, i)
<1>0. Wrap32 \in Nat /\ Wrap32 > 0
  BY WrapAssumption
<1>1. (n + Wrap32 * k) % Wrap32 = n % Wrap32
  <2>1. n \in Int
    OBVIOUS
  <2> QED BY <1>0, <2>1, ModShift
<1> QED BY <1>1 DEF wrap

\* unwrap() returns a number that wraps to what was on the wire, and no other
\* such number is closer to the checkpoint.
LEMMA UnwrapClosest ==
    ASSUME NEW n \in Nat, NEW c \in 0 .. MaxCheckpoint, NEW i \in Nat
    PROVE  /\ unwrap(wrap(n, i), i, c) \in Uint64
           /\ wrap(unwrap(wrap(n, i), i, c), i) = wrap(n, i)
           /\ \A x \in Nat : wrap(x, i) = wrap(n, i) =>
                Distance(unwrap(wrap(n, i), i, c), c) <= Distance(x, c)
<1>0. /\ Wrap32 \in Nat /\ Wrap32 > 0 /\ Wrap64 \in Nat
      /\ Half32 \in Nat /\ 2 * Half32 = Wrap32
      /\ MaxCheckpoint \in Nat /\ MaxCheckpoint + Wrap32 < Wrap64
  BY WrapAssumption, CheckpointAssumption DEF Half32
<1>1. PICK d \in 0 .. Wrap32 - 1 : d = (n - c) % Wrap32
  BY <1>0, ModDef
<1>2. PICK q \in Int : n - c = Wrap32 * q + d
  <2>1. n - c \in Int
    BY <1>0
  <2> QED BY <1>0, <1>1, <2>1, ModLaps
<1>3. PICK r \in Int : /\ r = unwrap(wrap(n, i), i, c)
                       /\ r = IF d < Half32 \/ c - (Wrap32 - d) < 0
                                THEN c + d ELSE c - (Wrap32 - d)
  <2>1. unwrap(wrap(n, i), i, c) =
          IF d < Half32 \/ c - (Wrap32 - d) < 0 THEN c + d ELSE c - (Wrap32 - d)
    <3>1. c \in Nat /\ c + Wrap32 <= Wrap64
      BY <1>0
    <3> QED BY <1>1, <3>1, UnwrapCases
  <2>2. (IF d < Half32 \/ c - (Wrap32 - d) < 0 THEN c + d ELSE c - (Wrap32 - d)) \in Int
    BY <1>0
  <2> QED BY <2>1, <2>2, Zenon
<1>4. r \in Uint64
  BY <1>0, <1>3 DEF Uint64
<1>5. wrap(r, i) = wrap(n, i)
  <2>1. CASE r = c + d
    <3>1. r = n + Wrap32 * (-q) /\ -q \in Int /\ r \in Nat
      BY <1>0, <1>2, <2>1
    <3> QED BY <3>1, SameWire
  <2>2. CASE r = c - (Wrap32 - d)
    <3>1. Wrap32 * (-q - 1) = - (Wrap32 * q) - Wrap32
      BY <1>0
    <3>2. r = n + Wrap32 * (-q - 1) /\ -q - 1 \in Int
      BY <1>0, <1>2, <2>2, <3>1
    <3>3. r \in Nat
      BY <1>4, <1>0 DEF Uint64
    <3> QED BY <3>2, <3>3, SameWire
  <2> QED BY <1>3, <2>1, <2>2
<1>6. ASSUME NEW x \in Nat, wrap(x, i) = wrap(n, i)
      PROVE  Distance(r, c) <= Distance(x, c)
  <2>1. (x - c) % Wrap32 = d
    BY <1>1, <1>6, WireDistance
  <2>2. PICK k \in Int : x - c = Wrap32 * k + d
    <3>1. x - c \in Int
      BY <1>0
    <3> QED BY <1>0, <2>1, <3>1, ModLaps
  <2>3. CASE k >= 0
    <3>1. Wrap32 * k >= 0
      BY <1>0, <2>3
    <3>2. x - c >= d
      BY <1>0, <2>2, <3>1
    <3> QED BY <1>0, <1>3, <3>2 DEF Distance
  <2>4. CASE k <= -1
    <3>1. Wrap32 * k <= - Wrap32
      BY <1>0, <2>4
    <3>2. x - c <= d - Wrap32
      BY <1>0, <2>2, <3>1
    <3> QED BY <1>0, <1>3, <3>2 DEF Distance
  <2> QED BY <2>3, <2>4
<1> QED BY <1>3, <1>4, <1>5, <1>6

-----------------------------------------------------------------------------
(* The specification. *)

\* What has been computed so far is what the code computes.
Computed == /\ phase \in {"sent", "received"} => wire = wrap(abs, isn)
            /\ phase = "received" => result = unwrap(wire, isn, checkpoint)

Inv == TypeOK /\ Computed

\* The invariant of a sequence number's way.
THEOREM InvHolds == Spec => []Inv
<1>0. /\ Wrap32 \in Nat /\ Wrap32 > 0 /\ Wrap64 \in Nat /\ Wrap64 > 0
      /\ Uint32 \subseteq Nat /\ Uint64 \subseteq Nat
  BY WrapAssumption DEF Uint32, Uint64
<1>1. Init => Inv
  <2>1. 0 \in Uint32 /\ 0 \in Uint64
    BY <1>0 DEF Uint32, Uint64
  <2> QED BY <2>1 DEF Init, Inv, TypeOK, Computed
<1>2. Inv /\ [Next]_vars => Inv'
  <2> SUFFICES ASSUME Inv, [Next]_vars PROVE Inv'
    OBVIOUS
  <2>1. CASE DoWrap
    <3>1. wrap(abs, isn) \in Uint32
      BY <1>0, WrapLaps DEF Inv, TypeOK
    <3> QED BY <2>1, <3>1 DEF DoWrap, Inv, TypeOK, Computed
  <2>2. CASE DoUnwrap
    <3>1. unwrap(wire, isn, checkpoint) \in Uint64
      BY <1>0, <2>2, UnwrapClosest DEF DoUnwrap, Inv, TypeOK, Computed
    <3> QED BY <2>2, <3>1 DEF DoUnwrap, Inv, TypeOK, Computed
  <2>3. CASE UNCHANGED vars
    BY <2>3 DEF vars, Inv, TypeOK, Computed
  <2> QED BY <2>1, <2>2, <2>3 DEF Next
<1> QED BY <1>1, <1>2, PTL DEF Spec

\* Both ends stay within the widths of their integer types.
THEOREM TypeCorrect == Spec => []TypeOK
<1>1. Inv => TypeOK
  BY DEF Inv
<1> QED BY <1>1, InvHolds, PTL

\* A sequence number or ackno less than half a lap away is recovered exactly.
THEOREM RoundTripHolds == Spec => []RoundTrip
<1>1. Inv => RoundTrip
  <2>1. Uint32 \subseteq Nat /\ Uint64 \subseteq Nat
    BY WrapAssumption DEF Uint32, Uint64
  <2>2. \A c \in 0 .. MaxCheckpoint : c \in Nat /\ c + Wrap32 <= Wrap64
    BY WrapAssumption, CheckpointAssumption
  <2> QED BY <2>1, <2>2, UnwrapWrap DEF Inv, TypeOK, Computed, RoundTrip
<1> QED BY <1>1, InvHolds, PTL

\* unwrap() returns the closest number that wraps to its argument.
THEOREM ClosestHolds == Spec => []ClosestToCheckpoint
<1>1. Inv => ClosestToCheckpoint
  <2> SUFFICES ASSUME Inv, phase = "received"
               PROVE  /\ wrap(result, isn) = wire
                      /\ \A x \in Uint64 : wrap(x, isn) = wire =>
                           Distance(result, checkpoint) <= Distance(x, checkpoint)
    BY DEF ClosestToCheckpoint
  <2>1. Uint32 \subseteq Nat /\ Uint64 \subseteq Nat
    BY WrapAssumption DEF Uint32, Uint64
  <2>2. /\ abs \in Nat /\ isn \in Nat /\ checkpoint \in 0 .. MaxCheckpoint
        /\ wire = wrap(abs, isn) /\ result = unwrap(wrap(abs, isn), isn, checkpoint)
    BY <2>1 DEF Inv, TypeOK, Computed
  <2> QED BY <2>1, <2>2, UnwrapClosest
<1> QED BY <1>1, InvHolds, PTL
=============================================================================
