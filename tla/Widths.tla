------------------------------- MODULE Widths -------------------------------
(* The integer types through which numbers from outside pass.  They are      *)
(* scaled down, their order is kept.                                         *)
EXTENDS Integers, SequencesExt

CONSTANTS
    PortMax,       \* 65535, the largest unsigned short
    UintMax,       \* largest unsigned int
    Int64Max,      \* largest std::int64_t
    Uint64Max,     \* largest std::uint64_t
    ULongMax       \* largest unsigned long: Uint64Max, or UintMax on Windows

ASSUME WidthAssumption ==
    /\ PortMax \in Nat \ {0} /\ UintMax \in Nat /\ PortMax <= UintMax
    /\ Int64Max \in Nat /\ UintMax < Int64Max /\ Uint64Max = 2 * Int64Max + 1
    /\ ULongMax \in {UintMax, Uint64Max}

\* static_cast<unsigned int>
ToUint(n) == n % (UintMax + 1)
=============================================================================
