------------------------------ MODULE SlicePlan -----------------------------
(***************************************************************************)
(* How much to order when: the pure sizing rules of src/src/twap.rs and    *)
(* the continuation plan of src/src/main.rs.  Sizes are whole multiples of *)
(* 10^-szDecimals, so round_size (toward zero) is \div where a division is *)
(* rounded and the identity elsewhere.                                     *)
(***************************************************************************)
EXTENDS Integers

CONSTANTS
    MinNotional,      \* MIN_NOTIONAL_USD
    MinNotionalGate   \* min_notional_gate(): MIN_NOTIONAL_USD with its margin

ASSUME MinNotionalNat == MinNotional \in Nat /\ MinNotionalGate \in Nat
ASSUME GateHasMargin == MinNotionalGate >= MinNotional

(* Pre-flight of a new run: the per-slice size, and the total that is a    *)
(* multiple of it.                                                         *)
PerSliceOf(total, slices) == total \div slices
TotalAdjusted(total, slices) == PerSliceOf(total, slices) * slices

SizingAccepted(total, slices, mid) ==
    /\ total > 0
    /\ PerSliceOf(total, slices) > 0
    /\ PerSliceOf(total, slices) * mid >= MinNotional

TargetAtSlice(i, slices, per, total) ==
    IF i >= slices THEN total ELSE per * i

(* Fault: a slice orders all that is due by it, whatever has been filled. *)
SliceOrderSizeUncredited(i, slices, per, total, filled) ==
    IF TargetAtSlice(i, slices, per, total) <= filled THEN 0
    ELSE TargetAtSlice(i, slices, per, total)

(* The catch-up size of slice i: everything due by now and not yet filled. *)
SliceOrderSize(i, slices, per, total, filled) ==
    LET raw == TargetAtSlice(i, slices, per, total) - filled
    IN  IF raw <= 0 THEN 0 ELSE raw

(* decide_slice: the gate is judged at the price about to be signed. *)
SliceDecision(i, slices, per, total, filled, px) ==
    LET sz == SliceOrderSize(i, slices, per, total, filled)
    IN  IF sz = 0 THEN "SkipAhead"
        ELSE IF sz * px < MinNotionalGate THEN "SkipBelowMinNotional"
        ELSE "Place"

(* The slices of a resumed run: the remainder at the original size. *)
ContinuationSlices(remaining, per) ==
    LET whole == remaining \div per
        n == whole + (IF whole * per < remaining THEN 1 ELSE 0)
    IN  IF n < 1 THEN 1 ELSE n
=============================================================================
