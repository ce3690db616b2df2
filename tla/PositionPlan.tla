---------------------------- MODULE PositionPlan ----------------------------
(***************************************************************************)
(* Position-aware planning (src/src/position.rs) and the notional policy   *)
(* (src/src/risk.rs), both pure.  Signed sizes are whole lots: positive    *)
(* long, negative short.  A side is 1 (buy) or -1 (sell).                  *)
(***************************************************************************)
EXTENDS Integers, Sequences

Sign(x) == IF x > 0 THEN 1 ELSE IF x < 0 THEN -1 ELSE 0
Magnitude(x) == IF x < 0 THEN -x ELSE x

(* A USD exposure at the one preflight price, rounded toward zero. *)
TargetUsd(usd, mid) == Sign(usd) * (Magnitude(usd) \div mid)

(* The signed target of a request: --flatten, --target-sz or --target-usd. *)
RequestedTarget(req, mid) ==
    IF req.mode = "flatten" THEN 0
    ELSE IF req.mode = "size" THEN req.value
    ELSE TargetUsd(req.value, mid)

Phase(kind, delta, reduceOnly) ==
    [kind |-> kind, side |-> Sign(delta), size |-> Magnitude(delta), reduceOnly |-> reduceOnly]

(* phases_for: a sign change closes to flat, reduce-only, and then opens;  *)
(* any other change is one adjustment, reduce-only when it only reduces.   *)
PhasesFor(current, target) ==
    IF current = target THEN <<>>
    ELSE IF Sign(current) * Sign(target) = -1
         THEN <<Phase("close", -current, TRUE), Phase("open", target, FALSE)>>
         ELSE <<Phase("adjust", target - current,
                      /\ current # 0
                      /\ \/ target = 0
                         \/ Sign(current) = Sign(target) /\ Magnitude(target) < Magnitude(current))>>

Crosses(phases) == Len(phases) = 2

ApplySignedFill(current, side, filled) == current + side * filled

IsBetweenFrozenEndpoints(value, initial, target) ==
    IF initial <= target THEN initial <= value /\ value <= target
                         ELSE target <= value /\ value <= initial

(* PositionTargetGuard: the phase's endpoint is reached or passed. *)
ReachedOrCrossed(side, current, endpoint) ==
    IF side = 1 THEN current >= endpoint ELSE current <= endpoint

-----------------------------------------------------------------------------

(* The price that bounds what a taker order can trade for: a buy fills at  *)
(* or below its limit, a sell at or below the best bid.                    *)
TakerNotionalPrice(side, limit, bid) ==
    IF side = 1 \/ limit >= bid THEN limit ELSE bid

CheckNotionalCap(requested, cap) == requested <= cap

(* ValidatedFill and replay on a fill without an average price: the signed *)
(* limit stands in for it where it is an upper bound, that is for a buy.   *)
UnpricedAccepted(side, filled) == filled = 0 \/ side = 1
=============================================================================
