------------------------------- MODULE Packing -------------------------------
(***************************************************************************)
(* How much room numbers take: the most significant bit, the bits and      *)
(* bytes of a CompactUintArray and the bytes of a variable length integer. *)
(* A byte has ByteBits bits, 8 in the code, so that small numbers already  *)
(* take several.                                                           *)
(***************************************************************************)
LOCAL INSTANCE Integers

CONSTANT ByteBits
ASSUME PackingAssumption == ByteBits \in Nat /\ ByteBits > 1

CeilDiv(a, b) == (a + b - 1) \div b
Msb(v) == IF v = 0 THEN 0 ELSE CHOOSE k \in 0 .. 31 : 2^k <= v /\ v \div 2^k = 1
MinStorageBits(v) == Msb(v) + 1
MinStorageBitsFullBytes(v) == CeilDiv(MinStorageBits(v), ByteBits) * ByteBits
MinStorageBytes(bpn, count) == CeilDiv(bpn * count, ByteBits)
VlSize(v) == CeilDiv(MinStorageBits(v), ByteBits - 1)
Masked(v, bits) == v % 2^bits
=============================================================================
