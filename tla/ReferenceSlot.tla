--------------------------- MODULE ReferenceSlot ---------------------------
(***************************************************************************)
(* The arithmetic of the fleet tip (src/reference_slot.rs) and of the      *)
(* freshness gate built on it (src/scheduler.rs).  The tip is one AtomicU64 *)
(* shared by every thread; 0 is the code's encoding of "no slot observed    *)
(* yet".  Slots are u64 in the code and stay far below 2^64, so they are    *)
(* naturals here; subtraction saturates at 0 as in the code.               *)
(*                                                                         *)
(* In this and the other modules a definition commented as a "slip" is a   *)
(* plausible mistake in the definition that follows it.  Nothing uses it:  *)
(* put in that definition's place, it shows which property notices.        *)
(***************************************************************************)
EXTENDS Integers

Slot == Nat

\* Option<u64>::None for a slot that was not reported or is not known.
NoSlot == -1
MaybeSlot == Slot \cup {NoSlot}

SatSub(a, b) == IF a > b THEN a - b ELSE 0

Higher(a, b) == IF a > b THEN a ELSE b

\* fetch_max: an observation can only raise the tip.
Observe(tip, slot) == Higher(tip, slot)

Current(tip) == IF tip = 0 THEN NoSlot ELSE tip

\* Slip: a lag equal to the budget already counts as stale.
StaleAtBudget(tip, observed, maxLag) ==
    /\ Current(tip) # NoSlot
    /\ observed # NoSlot
    /\ SatSub(Current(tip), observed) >= maxLag

\* A response is stale when it names a slot more than maxLag behind a known tip.
StaleByLag(tip, observed, maxLag) ==
    /\ Current(tip) # NoSlot
    /\ observed # NoSlot
    /\ SatSub(Current(tip), observed) > maxLag
=============================================================================
