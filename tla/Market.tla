------------------------------- MODULE Market -------------------------------
(***************************************************************************)
(* What the program takes from an order book: whether the book may be used *)
(* at all (ValidatedMarketSnapshot::validate, src/src/client.rs), whether  *)
(* its mid meets a trigger (src/src/trigger.rs) and which limit price a    *)
(* taker order gets on the exchange's price grid (src/src/format.rs).      *)
(*                                                                         *)
(* A price is a whole number of units of 10^-Digits; the significant       *)
(* digits and the decimals of the grid are parameters, so that a small     *)
(* instance meets every carry.                                             *)
(***************************************************************************)
EXTENDS Integers, Sequences, FiniteSets

CONSTANTS
    Digits,        \* decimals of a price unit
    SigDigits,     \* MAX_PX_SIGNIFICANT_DIGITS
    DecimalsBase,  \* MAX_PX_DECIMALS_BASE
    BpsBase,       \* 10_000: what a slippage is counted in
    FutureSkew,    \* MAX_FUTURE_SKEW_MS
    ClockSkew      \* MAX_CLOCK_SKEW_MS

ASSUME MarketBounds ==
    /\ Digits \in Nat /\ SigDigits \in Nat \ {0} /\ DecimalsBase \in 0..Digits
    /\ BpsBase \in Nat \ {0} /\ FutureSkew \in Nat /\ ClockSkew \in Nat

(* The powers of ten, as a function that a proof can unfold. *)
Ten[n \in Nat] == IF n = 0 THEN 1 ELSE 10 * Ten[n - 1]

One == Ten[Digits]

-----------------------------------------------------------------------------
(* The book.  Levels are [px, sz]; `ahead` is the snapshot's time minus    *)
(* the local clock.                                                        *)

SortedAsc(levels) == \A i \in 1..(Len(levels) - 1) : levels[i].px <= levels[i + 1].px
SortedDesc(levels) == \A i \in 1..(Len(levels) - 1) : levels[i].px >= levels[i + 1].px

(* Every check of `validate`; a zero max age drops the age check alone. *)
Validates(book, maxAge) ==
    /\ book.own
    /\ book.bids # <<>> /\ book.asks # <<>>
    /\ \A side \in {book.bids, book.asks} : \A i \in 1..Len(side) : side[i].px > 0 /\ side[i].sz > 0
    /\ book.bids[1].px <= book.asks[1].px
    /\ SortedDesc(book.bids) /\ SortedAsc(book.asks)
    /\ book.ahead <= FutureSkew
    /\ maxAge > 0 => -book.ahead <= maxAge

(* ValidatedMarketSnapshot: the touch, and when it was taken. *)
Snapshot(book) == [bid |-> book.bids[1].px, ask |-> book.asks[1].px, ahead |-> book.ahead]

(* price_condition_met, of the mid. *)
PriceConditionMet(when, threshold, s) ==
    IF when = "above" THEN s.bid + s.ask >= 2 * threshold ELSE s.bid + s.ask <= 2 * threshold

(* check_clock_skew. *)
ClockAgrees(s) == s.ahead \in -ClockSkew..ClockSkew

-----------------------------------------------------------------------------
(* The grid. *)

(* round_dp_with_strategy: up for a buy, down for a sell. *)
RoundDp(px, decimals, side) ==
    LET unit == IF decimals >= Digits THEN 1 ELSE Ten[Digits - decimals]
    IN  IF side = "long" THEN ((px + unit - 1) \div unit) * unit ELSE (px \div unit) * unit

(* integer_digit_count, as far as it is compared. *)
IntegerDigitCount(px) == Cardinality({k \in 0..SigDigits : Ten[k] <= px \div One})

LeadingFractionZeros(px) == Cardinality({k \in 1..Digits : px * Ten[k] < One})

(* round_to_significant_digits: a price whose whole part uses up the       *)
(* digits becomes whole; below one, leading zeros do not count.            *)
RoundToSignificant(px, side) ==
    IF IntegerDigitCount(px) >= SigDigits THEN RoundDp(px, 0, side)
    ELSE RoundDp(px, IF px < One THEN SigDigits + LeadingFractionZeros(px)
                     ELSE SigDigits - IntegerDigitCount(px), side)

MaxDecimals(szDecimals) == IF szDecimals >= DecimalsBase THEN 0 ELSE DecimalsBase - szDecimals

(* Fault: rounded to the nearest price instead of away from the touch. *)
RoundPriceNearest(px, szDecimals, side) ==
    LET up == RoundToSignificant(RoundDp(px, MaxDecimals(szDecimals), "long"), "long")
        down == RoundToSignificant(RoundDp(px, MaxDecimals(szDecimals), "short"), "short")
    IN  IF up - px <= px - down THEN up ELSE down

(* round_price: decimals first, then significant digits, both away from    *)
(* the touch.                                                              *)
RoundPrice(px, szDecimals, side) ==
    LET cut == RoundDp(px, MaxDecimals(szDecimals), side)
    IN  IF px <= 0 \/ cut <= 0 THEN cut ELSE RoundToSignificant(cut, side)

(* The price taker_limit_price rounds: the touch and the slippage beyond. *)
RawLimit(s, side, bps) ==
    IF side = "long" THEN s.ask + (s.ask * bps) \div BpsBase
    ELSE s.bid - (s.bid * bps) \div BpsBase

TakerLimitPrice(s, side, bps, szDecimals) == RoundPrice(RawLimit(s, side, bps), szDecimals, side)
-----------------------------------------------------------------------------
(* The exchange's rule, independently of how a price is rounded: few       *)
(* enough decimals, and whole or with few enough significant digits.       *)
OnGrid(px, szDecimals) ==
    /\ px > 0 /\ px % Ten[Digits - MaxDecimals(szDecimals)] = 0
    /\ \/ px % One = 0
       \/ \E k \in 0..Digits : px % Ten[k] = 0 /\ px \div Ten[k] < Ten[SigDigits]

(* px is the grid price nearest to raw on the marketable side of it; for a *)
(* sell below every grid price there is none.                              *)
NearestMarketable(px, raw, side, szDecimals) ==
    IF side = "long"
    THEN /\ px >= raw /\ OnGrid(px, szDecimals)
         /\ \A p \in raw..(px - 1) : ~OnGrid(p, szDecimals)
    ELSE /\ px <= raw /\ (px = 0 \/ OnGrid(px, szDecimals))
         /\ \A p \in (px + 1)..raw : ~OnGrid(p, szDecimals)
=============================================================================
