------------------------------- MODULE Simhash -------------------------------
(***************************************************************************)
(* The 64-bit fingerprint of an edital: its two integer representations    *)
(* (the unsigned value Python computes, the signed BIGINT column) and the  *)
(* distance the change detector compares.  The width is a parameter: the   *)
(* code uses Bits = 64 and Half = 2^63.                                    *)
(***************************************************************************)
EXTENDS Integers, FiniteSets

CONSTANTS
    Bits,   \* width of a simhash
    Half,   \* 2^(Bits - 1), the first value the signed column cannot hold
    Near    \* largest distance the change detector calls cosmetic

ASSUME SimhashAssumption ==
    /\ Bits \in Nat \ {0}
    /\ Half \in Nat \ {0}
    /\ Half = 2 ^ (Bits - 1)
    /\ Near \in Nat

UInt   == 0 .. (2 * Half - 1)
BigInt == (-Half) .. (Half - 1)

ToSigned(v)   == IF v >= Half THEN v - 2 * Half ELSE v
ToUnsigned(v) == IF v < 0 THEN v + 2 * Half ELSE v

BitAt(v, i)   == (v \div 2 ^ i) % 2
Hamming(a, b) == Cardinality({i \in 0 .. (Bits - 1) : BitAt(a, i) # BitAt(b, i)})
=============================================================================
