----------------------------- MODULE PositionRun ----------------------------
(***************************************************************************)
(* A run with a position target (src/src/main.rs, --flatten, --target-sz,  *)
(* --target-usd): one snapshot is turned into a frozen plan of one or two  *)
(* phases, each phase is a TWAP under the position guard, and only a fresh *)
(* read of the position closes the run.  Another client may trade on the   *)
(* same account at any time, and processes crash and are resumed.          *)
(*                                                                         *)
(* Children are IOC, one at a time.  How one lost answer is reconciled is  *)
(* TwapRun's subject: here a poll finds the order's fate, or fails, and    *)
(* says absent only of a request that never arrived.                       *)
(***************************************************************************)
EXTENDS PositionPlan, SlicePlan

CONSTANTS
    Requests,     \* what the operator may ask for
    Initials,     \* positions the account may start from
    Slices,       \* --slices
    Prices,       \* prices the book may show
    Cap,          \* --max-notional-usd
    ResendLimit,  \* PLACE_RESEND_LIMIT
    MaxExternal   \* bound: units another client trades

ASSUME PositionBounds ==
    /\ Slices \in Nat \ {0} /\ Cap \in Nat /\ ResendLimit \in Nat /\ MaxExternal \in Nat
    /\ Initials \subseteq Int /\ Prices \subseteq Nat \ {0}
ASSUME RequestsTyped == Requests \subseteq [mode : {"flatten", "size", "usd"}, value : Int]

None == [state |-> "none"]

VARIABLES
    req,       \* the request on the command line
    pos,       \* clearinghouseState: the account's signed size
    external,  \* units another client has traded, by direction
    expired,   \* past the run's absolute deadline
    frozen,    \* the Header's plan: initial and target; None before it
    order,     \* the one cloid that is not Terminal, or None
    booked,    \* replayed fill_totals.filled_sz
    charged,   \* replayed fill_totals.notional
    report,    \* last FinalReport: "none", "incomplete" or "completed"
    own,       \* units the run has really traded
    spent,     \* what they really cost
    above,     \* what the latest order's sells made above the bid it was sized at
    pc, plan, ph, k, filled, notional, sends, abort

world == <<req, pos, external, expired>>
journal == <<frozen, order, booked, charged, report>>
truth == <<own, spent, above>>
local == <<plan, ph, k, filled, notional, sends, abort>>
vars == <<world, journal, truth, pc, local>>

Unresolved == order # None
PhaseNow == plan.phases[ph]
Endpoint == IF Crosses(plan.phases) /\ ph = 1 THEN 0 ELSE plan.target
PhasePerSlice == PerSliceOf(PhaseNow.size, Slices)

NoPlan == [current |-> 0, target |-> 0, phases |-> <<>>]

Init ==
    /\ req \in Requests /\ pos \in Initials
    /\ external = [d \in {1, -1} |-> 0] /\ expired = FALSE
    /\ frozen = None /\ order = None /\ booked = 0 /\ charged = 0 /\ report = "none"
    /\ own = 0 /\ spent = 0 /\ above = 0
    /\ pc = "off" /\ plan = NoPlan /\ ph = 1 /\ k = 1 /\ filled = 0 /\ notional = 0
    /\ sends = 0 /\ abort = FALSE

-----------------------------------------------------------------------------
(* Steps of a process. *)

Exit ==
    /\ pc' = "off" /\ plan' = NoPlan /\ ph' = 1 /\ k' = 1 /\ filled' = 0 /\ notional' = 0
    /\ sends' = 0 /\ abort' = FALSE

Goto(p) == pc' = p /\ UNCHANGED local

Break(aborted) ==
    pc' = "phaseEnd" /\ abort' = aborted /\ UNCHANGED <<plan, ph, k, filled, notional, sends>>

(* Fault: a resumed process or a second phase starts with the whole cap. *)
StartPhaseForgetting(p, n) ==
    /\ pc' = "top" /\ plan' = p /\ ph' = n /\ k' = 1 /\ filled' = 0 /\ notional' = 0
    /\ sends' = 0 /\ abort' = FALSE

(* A phase begins; the notional already charged to the run comes with it. *)
StartPhase(p, n) ==
    /\ pc' = "top" /\ plan' = p /\ ph' = n /\ k' = 1 /\ filled' = 0 /\ notional' = charged
    /\ sends' = 0 /\ abort' = FALSE

Report(completed) ==
    /\ report' = IF completed THEN "completed" ELSE "incomplete"
    /\ UNCHANGED <<frozen, order, booked, charged>>

(* record_position_incomplete: the report, or the error of writing it. *)
Incomplete ==
    /\ Report(FALSE) \/ UNCHANGED journal
    /\ Exit /\ UNCHANGED <<world, truth>>

(* The plan can be executed: the first phase is worth an order, every      *)
(* phase can be sliced, and the whole of it is within the cap.             *)
Executable(p, mid, px, bid) ==
    /\ p.phases # <<>>
    /\ p.phases[1].size * mid >= MinNotional
    /\ \A i \in DOMAIN p.phases : SizingAccepted(p.phases[i].size, Slices, mid)
    /\ CheckNotionalCap(
           Magnitude(p.target - p.current) * TakerNotionalPrice(p.phases[1].side, px, bid), Cap)

(* A limit price and the best bid it was computed from: a sell's limit is  *)
(* at or below the bid.                                                    *)
Quotes(side) == {q \in Prices \X Prices : side = -1 => q[1] <= q[2]}

PlanFor(current, target) ==
    [current |-> current, target |-> target, phases |-> PhasesFor(current, target)]

(* A new run: the position is read once and the target fixed by it. *)
Snapshot(mid) ==
    /\ pc = "off" /\ frozen = None /\ ~expired
    /\ plan' = PlanFor(pos, RequestedTarget(req, mid))
    /\ plan'.phases # <<>>
    /\ \E q \in Quotes(plan'.phases[1].side) : Executable(plan', mid, q[1], q[2])
    /\ pc' = "planned"
    /\ UNCHANGED <<world, journal, truth, ph, k, filled, notional, sends, abort>>

(* The Header freezes the plan before the first order. *)
StartJournal ==
    /\ pc = "planned" /\ ~expired
    /\ frozen' = [state |-> "frozen", initial |-> plan.current, target |-> plan.target]
    /\ StartPhase(plan, 1)
    /\ UNCHANGED <<world, order, booked, charged, report, truth>>

(* Top of a slice: the guard reads the position. *)
LoopEnds == pc = "top" /\ k > Slices /\ Break(FALSE)

GuardPasses ==
    /\ pc = "top" /\ k <= Slices /\ ~expired /\ notional < Cap
    /\ ~ReachedOrCrossed(PhaseNow.side, pos, Endpoint)
    /\ Goto("decide")

GuardStops ==
    /\ pc = "top" /\ k <= Slices
    /\ ReachedOrCrossed(PhaseNow.side, pos, Endpoint)
    /\ Break(FALSE)

(* A failed read, no cap left, the deadline, a bad book, a shutdown. *)
SliceAborts == pc \in {"top", "decide"} /\ Break(TRUE)

Decision(px) == SliceDecision(k, Slices, PhasePerSlice, PhaseNow.size, filled, px)

SliceSkipped(px) ==
    /\ pc = "decide" /\ Decision(px) # "Place"
    /\ pc' = "top" /\ k' = k + 1
    /\ UNCHANGED <<plan, ph, filled, notional, sends, abort>>

OrderSize == SliceOrderSize(k, Slices, PhasePerSlice, PhaseNow.size, filled)

Prepare(px, bid) ==
    LET capPx == TakerNotionalPrice(PhaseNow.side, px, bid)
    IN  /\ pc = "decide" /\ Decision(px) = "Place"
        /\ <<px, bid>> \in Quotes(PhaseNow.side)
        /\ CheckNotionalCap(notional + OrderSize * capPx, Cap)
        /\ order' = [state |-> "prepared", side |-> PhaseNow.side, size |-> OrderSize,
                     reduceOnly |-> PhaseNow.reduceOnly, px |-> px,
                     bid |-> bid, fill |-> 0, worth |-> 0]
        /\ pc' = "commit" /\ sends' = 0 /\ above' = 0
        /\ UNCHANGED <<world, frozen, booked, charged, report, own, spent, plan, ph, k, filled,
                       notional, abort>>

(* The order becomes Terminal with its fill, at what was paid or at the    *)
(* limit when the answer has no price.                                     *)
Close(cost) ==
    /\ order' = None
    /\ booked' = booked + order.fill /\ charged' = charged + cost
    /\ UNCHANGED <<frozen, report>>

(* The guard again, at the send: an order that is no longer needed, or     *)
(* that must not be sent, is closed at zero.                               *)
CommitStops ==
    /\ pc = "commit"
    /\ \/ ReachedOrCrossed(PhaseNow.side, pos, Endpoint) /\ Close(0) /\ Break(FALSE)
       \/ Close(0) /\ Break(TRUE)
       \/ expired /\ UNCHANGED journal /\ Break(TRUE)
    /\ UNCHANGED <<world, truth>>

Send ==
    /\ pc = "commit" /\ ~expired
    /\ ~ReachedOrCrossed(PhaseNow.side, pos, Endpoint)
    /\ order' = [order EXCEPT !.state = "wire"]
    /\ Goto("sent")
    /\ UNCHANGED <<world, frozen, booked, charged, report, truth>>

(* A settled child is credited once; the phase is over when it is filled. *)
Settle(cost) ==
    /\ Close(cost)
    /\ filled' = filled + order.fill /\ notional' = notional + cost
    /\ \/ filled' >= PhaseNow.size /\ pc' = "phaseEnd" /\ UNCHANGED k
       \/ filled' < PhaseNow.size /\ pc' = "top" /\ k' = k + 1
    /\ UNCHANGED <<world, truth, plan, ph, sends, abort>>

AnswerFilled ==
    /\ pc = "sent" /\ order.state = "done" /\ order.fill > 0
    /\ Settle(order.worth)

AnswerRejected ==
    /\ pc = "sent" /\ order.state = "done" /\ order.fill = 0
    /\ Close(0) /\ Break(TRUE) /\ UNCHANGED <<world, truth>>

AnswerLost == pc = "sent" /\ Goto("poll") /\ UNCHANGED <<world, journal, truth>>

(* What a status without a price lets the program charge. *)
Charges(priced) ==
    IF priced THEN {order.worth}
    ELSE IF UnpricedAccepted(order.side, order.fill) THEN {order.fill * order.px} ELSE {}

PollTerminal ==
    /\ pc = "poll" /\ order.state = "done"
    /\ \E priced \in BOOLEAN : \E cost \in Charges(priced) : Settle(cost)

(* The request never arrived.  A reduce-only child is not sent again. *)
PollAbsent ==
    /\ pc = "poll" /\ order.state = "lost"
    /\ \/ /\ ~order.reduceOnly /\ ~expired /\ sends < ResendLimit
          /\ pc' = "commit" /\ sends' = sends + 1
          /\ UNCHANGED <<plan, ph, k, filled, notional, abort, world, journal, truth>>
       \/ ~order.reduceOnly /\ Close(0) /\ Break(TRUE) /\ UNCHANGED <<world, truth>>

PollFails == pc = "poll" /\ Break(TRUE) /\ UNCHANGED <<world, journal, truth>>

-----------------------------------------------------------------------------

(* The end of a phase: always reported as incomplete, then verified. *)
PhaseReported ==
    /\ pc = "phaseEnd"
    /\ \/ Report(FALSE) /\ abort' = abort
       \/ UNCHANGED journal /\ abort' = TRUE
    /\ pc' = IF Crosses(plan.phases) /\ ph = 1 THEN "verifyFlat"
             ELSE IF abort' THEN "aborted" ELSE "verify"
    /\ UNCHANGED <<world, truth, plan, ph, k, filled, notional, sends>>

(* Fault: the second phase starts on the fills of the first alone. *)
OpenAfterFills ==
    /\ pc = "verifyFlat" /\ ~abort /\ ~expired
    /\ StartPhase(plan, 2)
    /\ UNCHANGED <<world, journal, truth>>

(* The opening phase: the close ended well, nothing of it is unresolved,   *)
(* and the account is read as exactly flat.                                *)
OpenFromFlat ==
    /\ pc = "verifyFlat" /\ ~abort /\ ~Unresolved /\ ~expired /\ pos = 0
    /\ StartPhase(plan, 2)
    /\ UNCHANGED <<world, journal, truth>>

(* The close failed, left something open, or was not seen to end flat: the *)
(* last also when the read fails.                                          *)
CloseNotFlat == pc = "verifyFlat" /\ Incomplete

(* An aborted child over a position that is at the target after all. *)
PromoteAbort ==
    /\ pc = "aborted" /\ pos = plan.target /\ ~Unresolved
    /\ pc' = "verify" /\ abort' = FALSE
    /\ UNCHANGED <<world, journal, truth, plan, ph, k, filled, notional, sends>>

AbortReported == pc = "aborted" /\ Incomplete

(* Fault: the phase that was filled is taken for the target. *)
CompletedByFills ==
    /\ pc = "verify"
    /\ Report(TRUE) /\ Exit /\ UNCHANGED <<world, truth>>

(* Terminal verification. *)
Completed ==
    /\ pc = "verify" /\ pos = plan.target
    /\ Report(TRUE) /\ Exit /\ UNCHANGED <<world, truth>>

NotVerified == pc = "verify" /\ Incomplete

(* The process ends: by the grace timeout with a report, or by a crash. *)
Killed ==
    /\ pc # "off"
    /\ UNCHANGED journal \/ (pc \notin {"planned", "reconcile", "replan"} /\ Report(FALSE))
    /\ Exit /\ UNCHANGED <<world, truth>>

-----------------------------------------------------------------------------
(* --resume. *)

StartResume ==
    /\ pc = "off" /\ frozen # None /\ report # "completed"
    /\ Goto("reconcile") /\ UNCHANGED <<world, journal, truth>>

(* The unresolved order is cancelled if it is live and closed at what it   *)
(* traded; one that never left or never arrived is closed at zero.         *)
ReconcileOrder ==
    /\ pc = "reconcile" /\ Unresolved
    /\ \/ order.state \in {"prepared", "lost"} /\ Close(0)
       \/ /\ order.state = "done"
          /\ \E priced \in BOOLEAN : \E cost \in Charges(priced) : Close(cost)
    /\ UNCHANGED <<world, truth, pc, local>>

ReconcileFails == pc = "reconcile" /\ Unresolved /\ Incomplete

Reconciled ==
    /\ pc = "reconcile" /\ ~Unresolved
    /\ Goto("replan") /\ UNCHANGED <<world, journal, truth>>

(* The position that the initial one and the durable fills add up to. *)
Expected ==
    ApplySignedFill(frozen.initial, Sign(frozen.target - frozen.initial), booked)

(* Past the deadline a resume only reports, from books and position. *)
ResumeExpired ==
    /\ pc = "replan" /\ expired
    /\ Report(Expected = frozen.target /\ pos = frozen.target)
    /\ Exit /\ UNCHANGED <<world, truth>>

(* The position is not what the books say: someone else traded. *)
ResumeMismatch == pc = "replan" /\ pos # Expected /\ Incomplete

ResumeAtTarget ==
    /\ pc = "replan" /\ ~expired /\ pos = Expected /\ pos = frozen.target
    /\ Report(TRUE) /\ Exit /\ UNCHANGED <<world, truth>>

(* Too little is left, a phase cannot be sliced, or the cap refuses it. *)
ResumeRefused == pc = "replan" /\ pos = Expected /\ Incomplete

(* Fault: the target is worked out again, at today's price. *)
ResumeRetargeted(mid) ==
    LET p == PlanFor(pos, RequestedTarget(req, mid))
    IN  /\ pc = "replan" /\ ~expired /\ pos = Expected
        /\ p.phases # <<>>
        /\ \E q \in Quotes(p.phases[1].side) : Executable(p, mid, q[1], q[2])
        /\ StartPhase(p, 1)
        /\ UNCHANGED <<world, journal, truth>>

ResumeContinue(mid) ==
    LET p == PlanFor(pos, frozen.target)
    IN  /\ pc = "replan" /\ ~expired /\ pos = Expected
        /\ IsBetweenFrozenEndpoints(Expected, frozen.initial, frozen.target)
        /\ p.phases # <<>>
        /\ \E q \in Quotes(p.phases[1].side) : Executable(p, mid, q[1], q[2])
        /\ StartPhase(p, 1)
        /\ UNCHANGED <<world, journal, truth>>

-----------------------------------------------------------------------------
(* The exchange, and everyone else. *)

Arrive(state) ==
    /\ order.state = "wire" /\ state \in {"live", "done", "lost"}
    /\ state = "live" => ~expired
    /\ order' = [order EXCEPT !.state = state]
    /\ UNCHANGED <<world, frozen, booked, charged, report, truth, pc, local>>

(* What a unit of the order trades for beyond the price the cap was        *)
(* checked at.                                                             *)
Excess(price) ==
    LET capPx == TakerNotionalPrice(order.side, order.px, order.bid)
    IN  IF price > capPx THEN price - capPx ELSE 0

(* A unit of the order trades at its limit or better: a sell also above    *)
(* the bid it was sized at, when the book has moved up since.  A           *)
(* reduce-only order trades only against a position of the other sign.     *)
Trade(price) ==
    /\ order.state = "live" /\ order.fill < order.size
    /\ IF order.side = 1 THEN price <= order.px ELSE order.px <= price
    /\ order.reduceOnly => pos * order.side < 0
    /\ pos' = pos + order.side
    /\ own' = own + 1 /\ spent' = spent + price /\ above' = above + Excess(price)
    /\ order' = [order EXCEPT !.fill = @ + 1, !.worth = @ + price,
                              !.state = IF order.fill + 1 = order.size THEN "done" ELSE "live"]
    /\ UNCHANGED <<req, external, expired, frozen, booked, charged, report, pc, local>>

(* The rest of an IOC is dropped, or a resume cancels it. *)
Withdraw ==
    /\ order.state = "live"
    /\ order' = [order EXCEPT !.state = "done"]
    /\ UNCHANGED <<world, frozen, booked, charged, report, truth, pc, local>>

OtherClientTrades(side) ==
    /\ external[side] < MaxExternal
    /\ external' = [external EXCEPT ![side] = @ + 1]
    /\ pos' = pos + side
    /\ UNCHANGED <<req, expired, journal, truth, pc, local>>

DeadlinePasses ==
    /\ frozen # None /\ ~expired /\ expired' = TRUE
    /\ UNCHANGED <<req, pos, external, journal, truth, pc, local>>

-----------------------------------------------------------------------------
Quiet == UNCHANGED <<world, journal, truth>>

Next ==
    \/ \E mid \in Prices : Snapshot(mid) \/ ResumeContinue(mid)
    \/ StartJournal
    \/ (LoopEnds \/ GuardPasses \/ GuardStops \/ SliceAborts) /\ Quiet
    \/ \E px \in Prices : SliceSkipped(px) /\ Quiet
    \/ \E px, bid \in Prices : Prepare(px, bid)
    \/ CommitStops \/ Send
    \/ AnswerFilled \/ AnswerRejected \/ AnswerLost
    \/ PollTerminal \/ PollAbsent \/ PollFails
    \/ PhaseReported \/ OpenFromFlat \/ CloseNotFlat
    \/ PromoteAbort \/ AbortReported \/ Completed \/ NotVerified \/ Killed
    \/ StartResume \/ ReconcileOrder \/ ReconcileFails \/ Reconciled
    \/ ResumeExpired \/ ResumeMismatch \/ ResumeAtTarget \/ ResumeRefused
    \/ \E state \in {"live", "done", "lost"} : Arrive(state)
    \/ \E price \in Prices : Trade(price)
    \/ Withdraw \/ DeadlinePasses
    \/ \E side \in {1, -1} : OtherClientTrades(side)

Spec == Init /\ [][Next]_vars
-----------------------------------------------------------------------------
(* Whoever else trades, and however often the run is resumed, its own      *)
(* trades never exceed the distance between the frozen endpoints: no       *)
(* process re-plans more than is left.                                     *)
OwnWithinFrozen == frozen # None => own <= Magnitude(frozen.target - frozen.initial)

OnlyTheRunTrades == external = [d \in {1, -1} |-> 0]

(* A run reported as completed has exact books and nothing open; if no one *)
(* else traded, the account is at the frozen target.                       *)
CompletedIsExact ==
    report = "completed" =>
        /\ ~Unresolved /\ booked = own
        /\ OnlyTheRunTrades => pos = frozen.target

(* A reversal never holds both ways: when only the run trades, an order    *)
(* that is not reduce-only is out only once nothing of the initial         *)
(* exposure is left, whatever the close phase reported.                    *)
NothingOpenedOverTheOld ==
    Unresolved /\ ~order.reduceOnly /\ OnlyTheRunTrades
        => (Sign(frozen.initial) * Sign(frozen.target) = -1 => pos * Sign(frozen.initial) <= 0)

(* --max-notional-usd bounds what the run really paid, over both phases    *)
(* and all its processes, fills charged without a price included.  Only    *)
(* the one order sent last may go beyond it, and by no more than its sells *)
(* made above the bid they were sized at (the book moved up before the     *)
(* match): such a surplus is charged before the next order is sized, and   *)
(* never adds up.                                                          *)
CapHolds == spent <= Cap + above
=============================================================================
