------------------------------- MODULE TwapRun ------------------------------
(***************************************************************************)
(* One logical TWAP run: the slice loop (src/src/twap.rs), the journal it  *)
(* writes, and the processes that start, crash, resume or abandon it       *)
(* (src/src/main.rs), against an exchange that answers late or never.      *)
(*                                                                         *)
(* A step of the process is the code between two awaits: one network call  *)
(* and the journal records written before the next one.  `pc` names the    *)
(* await the process is at, `ctx` the caller that a settled or failed      *)
(* order returns to.                                                       *)
(*                                                                         *)
(* The run is an ordinary one: no position target and not reduce-only.     *)
(***************************************************************************)
EXTENDS Exchange, RunJournal, SlicePlan

CONSTANTS
    Algo,            \* ChildAlgo: "market", "passive" or "follow"
    Slices,          \* --slices
    Size,            \* the quantity asked for
    Prices,          \* prices the book may show
    MinConsecutive,  \* UNKNOWN_OID_MIN_CONSECUTIVE
    MaxAttempts,     \* UNKNOWN_OID_MAX_ATTEMPTS
    ResendLimit,     \* PLACE_RESEND_LIMIT
    CancelAttempts,  \* AMBIGUOUS_ALO_CANCEL_ATTEMPTS
    SettleRetries    \* plan.settle_retries

ASSUME AlgoKnown == Algo \in {"market", "passive", "follow"}
ASSUME PlanPositive == Slices \in Nat \ {0} /\ Size \in Nat /\ Size >= Slices
ASSUME PricesPositive == Prices \subseteq Nat \ {0}
ASSUME LimitsPositive ==
    /\ MinConsecutive \in Nat \ {0} /\ MaxAttempts \in Nat \ {0}
    /\ CancelAttempts \in Nat \ {0} /\ SettleRetries \in Nat \ {0}
    /\ ResendLimit \in Nat

PerSlice == PerSliceOf(Size, Slices)  \* plan.per_slice
Total == TotalAdjusted(Size, Slices)  \* plan.total_adjusted of the original plan

VARIABLES
    pc,        \* where the process is; "off" when there is none
    mode,      \* "none", "exec" (the loop), "resume" or "abandon" (reconciling)
    k,         \* slice_idx
    nsl,       \* slices of the plan in force
    target,    \* its total_adjusted
    filled,    \* stats.filled
    resting,   \* the one resting passive child, or NoCloid
    abort,     \* abort_reason.is_some()
    shutdown,  \* ShutdownSignal::is_triggered
    cur,       \* the order being placed, settled or reconciled
    ctx,       \* who asked: "none", "place", "boundary", "follow",
               \* "cleanup" or "reconcile"
    attempt,   \* polls or cancels spent on it
    streak,    \* consecutive unknownOid answers
    sends,     \* resends so far (`attempt` of place_slice_reconciled)
    conf,      \* SettleCancel::confirmed
    suRec      \* submitted_unknown_recorded

loopvars == <<mode, k, nsl, target, filled, resting, abort>>
callvars == <<cur, ctx, attempt, streak, sends, conf, suRec>>
procvars == <<pc, loopvars, shutdown, callvars>>
vars == <<xvars, jvars, procvars>>

Labels ==
    {"off", "loop", "slice", "commit", "sent", "poll", "aloProbe", "aloCancel",
     "settle", "settlePoll", "ledger", "rest", "quote", "idle", "after",
     "cleanup", "final", "rcNext", "rcProbe", "rcFail"}
Modes == {"none", "exec", "resume", "abandon"}
Contexts == {"none", "place", "boundary", "follow", "cleanup", "reconcile"}

(* Every variable is in its domain. *)
TypeOK ==
    /\ ExchangeTypeOK
    /\ JournalTypeOK
    /\ pc \in Labels /\ mode \in Modes /\ ctx \in Contexts
    /\ k \in Nat /\ nsl \in Nat /\ target \in Nat /\ filled \in Nat
    /\ resting \in Cloids \cup {NoCloid} /\ cur \in Cloids \cup {NoCloid}
    /\ attempt \in Nat /\ streak \in Nat /\ sends \in Nat
    /\ abort \in BOOLEAN /\ shutdown \in BOOLEAN
    /\ conf \in BOOLEAN /\ suRec \in BOOLEAN

-----------------------------------------------------------------------------
(* Calls, returns and process boundaries. *)

(* Enter the code that handles order c for caller x; its locals are fresh. *)
Call(c, x, p) ==
    /\ pc' = p /\ cur' = c /\ ctx' = x
    /\ attempt' = 0 /\ streak' = 0 /\ sends' = 0 /\ conf' = FALSE /\ suRec' = FALSE

Return(p) == Call(NoCloid, "none", p)

(* A process begins executing plan (n, t), reconciling, or is gone. *)
Process(p, m, n, t) ==
    /\ Return(p)
    /\ mode' = m /\ k' = 1 /\ nsl' = n /\ target' = t /\ filled' = 0
    /\ resting' = NoCloid /\ abort' = FALSE /\ shutdown' = FALSE

Exit == Process("off", "none", 0, 0)

(* The Err of the code called: the loop breaks with an abort reason, the   *)
(* cleanup only notes it, a reconciliation is given up.                    *)
Fail ==
    /\ Return(IF ctx = "reconcile" THEN "rcFail"
              ELSE IF ctx = "cleanup" THEN "final" ELSE "cleanup")
    /\ abort' = TRUE
    /\ UNCHANGED <<mode, k, nsl, target, filled, resting, shutdown>>

(* Where a child that is placed and done with leads. *)
AfterPlace == IF Algo = "follow" THEN "rest" ELSE "after"

(* Where each caller goes on once its order is settled and `done` is       *)
(* filled.  The follow loop re-quotes now or waits for the next tick.      *)
Continue(done) ==
    IF ctx = "follow" THEN IF done >= target THEN {"after"} ELSE {"rest", "quote"}
    ELSE IF ctx = "boundary" THEN {"slice"}
    ELSE IF ctx = "cleanup" THEN {"final"}
    ELSE IF ctx = "reconcile" THEN {"rcNext"}
    ELSE {AfterPlace}

(* The slice index a record carries: the loop's own while it places, the   *)
(* one the child was prepared under (RestingChild::slice_idx, or the       *)
(* replayed Prepared record) when it is settled later.                     *)
SliceIdx == IF ctx \in {"boundary", "cleanup", "reconcile"} THEN jslice[cur] ELSE k

(* Fault: a child settled at a slice boundary is journaled, not credited. *)
SettledUncredited(f) ==
    /\ RecordTerminal(cur, SliceIdx, f)
    /\ \/ /\ filled' = IF ctx \in {"reconcile", "boundary"} THEN filled ELSE filled + f
          /\ \E p \in Continue(filled + f) : Return(p)
          /\ UNCHANGED <<mode, k, nsl, target, resting, abort, shutdown>>
       \/ Fail

(* The order's fill f is known: journal_terminal, then stats.add.  The     *)
(* write may also take effect and still report an error.                   *)
Settled(f) ==
    /\ RecordTerminal(cur, SliceIdx, f)
    /\ \/ /\ filled' = IF ctx = "reconcile" THEN filled ELSE filled + f
          /\ \E p \in Continue(filled + f) : Return(p)
          /\ UNCHANGED <<mode, k, nsl, target, resting, abort, shutdown>>
       \/ Fail

(* An order known never to have been sent or received is closed at zero    *)
(* and the run stops.                                                      *)
ClosedUnsent ==
    /\ RecordTerminal(cur, k, 0)
    /\ Return("cleanup") /\ abort' = TRUE
    /\ UNCHANGED <<mode, k, nsl, target, filled, resting, shutdown>>

Goto(p) == pc' = p /\ UNCHANGED <<loopvars, shutdown, callvars>>

Break ==
    /\ pc' = "cleanup" /\ abort' = TRUE
    /\ UNCHANGED <<mode, k, nsl, target, filled, resting, shutdown, callvars>>

Offline == UNCHANGED <<xvars, jvars>>

-----------------------------------------------------------------------------
(* Starting a process. *)

(* A new run: sizing accepted, the Header durable before the loop. *)
StartNew ==
    /\ pc = "off" /\ ~header /\ ~expired
    /\ \E mid \in Prices : SizingAccepted(Size, Slices, mid)
    /\ RecordHeader
    /\ Process("loop", "exec", Slices, Total)
    /\ UNCHANGED xvars

(* --resume and --abandon-incomplete-run: only for a journal that replays  *)
(* and is incomplete; both reconcile every unresolved cloid first.         *)
StartReconcile(m) ==
    /\ pc = "off" /\ valid /\ IsIncomplete
    /\ Process("rcNext", m, 0, 0)
    /\ Offline

-----------------------------------------------------------------------------
(* reconcile_incomplete_run. *)

ReconcileNext(c) ==
    /\ pc = "rcNext" /\ c \in Unresolved
    /\ Call(c, "reconcile", "rcProbe")
    /\ Offline /\ UNCHANGED <<loopvars, shutdown>>

(* One probe: a live order is cancelled and settled; anything else goes    *)
(* through reconcile_by_cloid.                                             *)
ReconcileProbe(answer) ==
    /\ pc = "rcProbe"
    /\ OrderStatus(cur, answer)
    /\ Goto(IF answer = "open" THEN "settle" ELSE "poll")
    /\ UNCHANGED jvars

(* The failure report; its own write may fail too. *)
ReconcileFailed ==
    /\ pc = "rcFail"
    /\ RecordFinalReport(FALSE, jtotal, Unresolved) \/ UNCHANGED jvars
    /\ Exit /\ UNCHANGED xvars

Reconciled(m) == pc = "rcNext" /\ mode = m /\ Unresolved = {}

AbandonRun ==
    /\ Reconciled("abandon")
    /\ RecordAbandoned
    /\ Exit /\ UNCHANGED xvars

(* Past the logical deadline a resume only reports. *)
ResumeExpired ==
    /\ Reconciled("resume") /\ expired
    /\ RecordFinalReport(jtotal >= Total, jtotal, Unresolved)
    /\ Exit /\ UNCHANGED xvars

(* The plan or a pre-flight check does not match: durable refusal or none. *)
ResumeRefused ==
    /\ Reconciled("resume")
    /\ RecordFinalReport(FALSE, jtotal, Unresolved) \/ UNCHANGED jvars
    /\ Exit /\ UNCHANGED xvars

(* Nothing is left, or what is left is too small to be ordered. *)
ResumeSatisfied ==
    /\ Reconciled("resume") /\ ~expired
    /\ Total - jtotal <= 0
    /\ RecordFinalReport(TRUE, jtotal, {})
    /\ Exit /\ UNCHANGED xvars

ResumeBelowMinNotional(mid) ==
    /\ Reconciled("resume") /\ ~expired
    /\ Total - jtotal > 0 /\ (Total - jtotal) * mid < MinNotional
    /\ RecordFinalReport(FALSE, jtotal, {})
    /\ Exit /\ UNCHANGED xvars

(* Fault: the continuation plan forgets what is already filled. *)
ResumeFromScratch(mid) ==
    /\ Reconciled("resume") /\ ~expired
    /\ Total - jtotal > 0 /\ (Total - jtotal) * mid >= MinNotional
    /\ Process("loop", "exec", Slices, Total)
    /\ Offline

(* The loop again, over the remainder only. *)
ResumeContinue(mid) ==
    /\ Reconciled("resume") /\ ~expired
    /\ Total - jtotal > 0 /\ (Total - jtotal) * mid >= MinNotional
    /\ Process("loop", "exec", ContinuationSlices(Total - jtotal, PerSlice), Total - jtotal)
    /\ Offline

-----------------------------------------------------------------------------
(* The slice loop. *)

LoopDone ==
    /\ pc = "loop" /\ k > nsl
    /\ Goto("cleanup") /\ Offline

LoopShutdown ==
    /\ pc = "loop" /\ k <= nsl /\ shutdown
    /\ Break /\ Offline

(* The previous slice's child is settled before anything else. *)
SettleBoundary ==
    /\ pc = "loop" /\ k <= nsl /\ ~shutdown /\ resting # NoCloid
    /\ Call(resting, "boundary", "settle")
    /\ resting' = NoCloid
    /\ Offline /\ UNCHANGED <<mode, k, nsl, target, filled, abort, shutdown>>

(* Fault: a slice starts over the child that is still resting. *)
EnterSliceOverResting ==
    /\ pc = "loop" /\ k <= nsl /\ ~shutdown
    /\ Goto("slice") /\ Offline

EnterSlice ==
    /\ pc = "loop" /\ k <= nsl /\ ~shutdown /\ resting = NoCloid
    /\ Goto("slice") /\ Offline

(* No fresh book, a bad limit price, the notional cap, the deadline, or    *)
(* the Prepared record that cannot be written.                             *)
SliceRefused ==
    /\ pc \in {"slice", "quote"}
    /\ Break /\ Offline

Decision(px) == SliceDecision(k, nsl, PerSlice, target, filled, px)

(* Nothing due, or too little: the loop skips the slice, the follow loop   *)
(* stops quoting in it.                                                    *)
SliceSkipped(px) ==
    /\ pc = "slice" /\ ~expired
    /\ Decision(px) # "Place"
    /\ pc' = "loop" /\ k' = k + 1
    /\ Offline /\ UNCHANGED <<mode, nsl, target, filled, resting, abort, shutdown, callvars>>

FollowPauses(px) ==
    /\ pc = "quote"
    /\ Decision(px) # "Place"
    /\ Goto("idle") /\ Offline

(* Intent and cloid are durable before the send.  A write that reports an  *)
(* error stops the run, whether or not the record is there.                *)
Prepare(c, px) ==
    /\ pc = "quote" \/ (pc = "slice" /\ ~expired)
    /\ Decision(px) = "Place"
    /\ jstate[c] = "absent"
    /\ RecordPrepared(c, k, SliceOrderSize(k, nsl, PerSlice, target, filled))
    /\ \/ Call(c, "place", "commit") /\ UNCHANGED <<loopvars, shutdown>>
       \/ Break
    /\ UNCHANGED xvars

-----------------------------------------------------------------------------
(* place_slice_reconciled and place_alo_child: the send and its answer. *)

CommitExpired ==
    /\ pc = "commit" /\ expired
    /\ Fail /\ Offline

CommitShutdown ==
    /\ pc = "commit" /\ ~expired /\ shutdown
    /\ ClosedUnsent /\ UNCHANGED xvars

Send ==
    /\ pc = "commit" /\ ~expired /\ ~shutdown
    /\ PlaceOrderOnce(cur, jsize[cur])
    /\ Goto("sent") /\ UNCHANGED jvars

AnswerFilled ==
    /\ pc = "sent" /\ Algo = "market" /\ AnsweredFilled(cur)
    /\ Settled(fill[cur]) /\ UNCHANGED xvars

(* An IOC that rests is settled at once; a post-only child is left to rest. *)
AnswerResting ==
    /\ pc = "sent" /\ AnsweredResting(cur)
    /\ RecordProgress(cur, k, "acknowledged")
    /\ \/ /\ Algo = "market"
          /\ pc' = "settle" /\ attempt' = 0 /\ conf' = FALSE
          /\ UNCHANGED <<resting, cur, ctx, streak, sends, suRec>>
       \/ /\ Algo # "market"
          /\ resting' = cur
          /\ Return(AfterPlace)
    /\ UNCHANGED <<mode, k, nsl, target, filled, abort, shutdown, xvars>>

(* Known not to exist: an IOC rejection ends the run, a post-only one (the *)
(* price would have crossed) only this placement.                          *)
AnswerRejected ==
    /\ pc = "sent" /\ AnsweredRejected(cur)
    /\ IF Algo = "market" THEN ClosedUnsent ELSE Settled(0)
    /\ UNCHANGED xvars

(* Fault: every lost answer writes SubmittedUnknown. *)
AnswerLostAgain ==
    /\ pc = "sent"
    /\ RecordProgress(cur, k, "submittedUnknown")
    /\ suRec' = TRUE
    /\ pc' = IF Algo = "market" THEN "poll" ELSE "aloProbe"
    /\ attempt' = 0 /\ streak' = 0
    /\ UNCHANGED <<loopvars, shutdown, cur, ctx, sends, conf, xvars>>

(* Fault: a lost answer is taken for an order that was never received. *)
AnswerLostDropped ==
    /\ pc = "sent"
    /\ Settled(0) /\ UNCHANGED xvars

(* Transport failure.  SubmittedUnknown is written once per cloid, before  *)
(* anyone asks what became of the order.                                   *)
AnswerLost ==
    /\ pc = "sent"
    /\ IF suRec THEN UNCHANGED jvars ELSE RecordProgress(cur, k, "submittedUnknown")
    /\ suRec' = TRUE
    /\ pc' = IF Algo = "market" THEN "poll" ELSE "aloProbe"
    /\ attempt' = 0 /\ streak' = 0
    /\ UNCHANGED <<loopvars, shutdown, cur, ctx, sends, conf, xvars>>

-----------------------------------------------------------------------------
(* reconcile_by_cloid. *)

PollTerminal ==
    /\ pc = "poll"
    /\ OrderStatus(cur, "terminal")
    /\ Settled(fill[cur])

(* A live order or a failed query breaks the streak. *)
PollInconclusive(answer) ==
    /\ pc = "poll" /\ answer \in {"open", "error"}
    /\ OrderStatus(cur, answer)
    /\ \/ /\ attempt + 1 < MaxAttempts
          /\ attempt' = attempt + 1 /\ streak' = 0
          /\ UNCHANGED <<pc, loopvars, shutdown, cur, ctx, sends, conf, suRec>>
       \/ attempt + 1 >= MaxAttempts /\ Fail
    /\ UNCHANGED jvars

(* The streak grows but is still short, in number or in time. *)
PollUnknown ==
    /\ pc = "poll"
    /\ OrderStatus(cur, "unknown")
    /\ \/ /\ attempt + 1 < MaxAttempts
          /\ attempt' = attempt + 1 /\ streak' = streak + 1
          /\ UNCHANGED <<pc, loopvars, shutdown, cur, ctx, sends, conf, suRec>>
       \/ attempt + 1 >= MaxAttempts /\ Fail
    /\ UNCHANGED jvars

(* Fault: the first unknownOid is taken as proof. *)
AbsentAtOnce(x) ==
    /\ pc = "poll" /\ ctx = x
    /\ OrderStatus(cur, "unknown")

(* The streak is long enough, in number and in time: the exchange never    *)
(* received the order.                                                     *)
Absent(x) ==
    /\ pc = "poll" /\ ctx = x /\ streak + 1 >= MinConsecutive
    /\ OrderStatus(cur, "unknown")

AbsentReconcile == Absent("reconcile") /\ Settled(0)

AbsentShutdown == Absent("place") /\ shutdown /\ ClosedUnsent

AbsentGiveUp ==
    /\ Absent("place") /\ ~shutdown
    /\ expired \/ sends + 1 > ResendLimit
    /\ Fail /\ UNCHANGED jvars

AbsentResend ==
    /\ Absent("place") /\ ~shutdown /\ ~expired /\ sends + 1 <= ResendLimit
    /\ pc' = "commit" /\ sends' = sends + 1
    /\ attempt' = 0 /\ streak' = 0
    /\ UNCHANGED <<jvars, loopvars, shutdown, cur, ctx, conf, suRec>>

-----------------------------------------------------------------------------
(* An ambiguous post-only send is probed once and never resent. *)

AloProbeTerminal ==
    /\ pc = "aloProbe"
    /\ OrderStatus(cur, "terminal")
    /\ Settled(fill[cur])

AloProbeOpen ==
    /\ pc = "aloProbe"
    /\ OrderStatus(cur, "open")
    /\ Goto("settle") /\ UNCHANGED jvars

AloProbeMissed(answer) ==
    /\ pc = "aloProbe" /\ answer \in {"unknown", "error"}
    /\ OrderStatus(cur, answer)
    /\ Goto("aloCancel") /\ UNCHANGED jvars

(* Cancels until one is confirmed or the budget is spent; the cloid stays  *)
(* SubmittedUnknown either way.                                            *)
AloCancel(confirmed) ==
    /\ pc = "aloCancel"
    /\ CancelByCloid(cur, confirmed)
    /\ \/ /\ ~confirmed /\ attempt + 1 < CancelAttempts
          /\ attempt' = attempt + 1
          /\ UNCHANGED <<pc, loopvars, shutdown, cur, ctx, streak, sends, conf, suRec>>
       \/ (confirmed \/ attempt + 1 >= CancelAttempts) /\ Fail
    /\ UNCHANGED jvars

-----------------------------------------------------------------------------
(* recover_resting_fill: cancel, then poll for a terminal status, sending  *)
(* the cancel again before each poll until the exchange confirms one.      *)

SettleSend(confirmed) ==
    /\ pc = "settle"
    /\ IF conf THEN conf' = conf /\ UNCHANGED xvars
               ELSE conf' = confirmed /\ CancelByCloid(cur, confirmed)
    /\ pc' = "settlePoll"
    /\ UNCHANGED <<jvars, loopvars, shutdown, cur, ctx, attempt, streak, sends, suRec>>

SettleTerminal ==
    /\ pc = "settlePoll"
    /\ OrderStatus(cur, "terminal")
    /\ Settled(fill[cur])

(* Fault: a settlement keeps asking until the exchange answers. *)
SettleRetryForever(answer) ==
    /\ pc = "settlePoll" /\ answer # "terminal"
    /\ OrderStatus(cur, answer)
    /\ pc' = "settle"
    /\ UNCHANGED <<loopvars, shutdown, cur, ctx, attempt, streak, sends, conf, suRec, jvars>>

SettleRetry(answer) ==
    /\ pc = "settlePoll" /\ answer # "terminal"
    /\ OrderStatus(cur, answer)
    /\ \/ /\ attempt + 1 < SettleRetries
          /\ pc' = "settle" /\ attempt' = attempt + 1
          /\ UNCHANGED <<loopvars, shutdown, cur, ctx, streak, sends, conf, suRec>>
       \/ attempt + 1 >= SettleRetries /\ conf /\ Goto("ledger")
       \/ attempt + 1 >= SettleRetries /\ ~conf /\ Fail
    /\ UNCHANGED jvars

(* Only a ledger total of the whole size is proof. *)
LedgerWhole ==
    /\ pc = "ledger" /\ LedgerShowsWhole(cur, jsize[cur])
    /\ Settled(jsize[cur]) /\ UNCHANGED xvars

(* Any of these calls may also end in an error of its own: an answer that  *)
(* cross_check or ValidatedFill refuses, an outcome the code does not      *)
(* trust, a ledger that is partial, a journal record that cannot be        *)
(* written.                                                                *)
CallFails ==
    /\ \/ pc \in {"sent", "poll", "aloProbe", "rcProbe", "settlePoll", "ledger"}
       \/ pc = "commit" /\ shutdown
    /\ Fail /\ Offline

-----------------------------------------------------------------------------
(* run_follow_loop. *)

FollowSliceEnd ==
    /\ pc = "rest"
    /\ Goto("after") /\ Offline

FollowStops ==
    /\ \/ pc = "rest" /\ (shutdown \/ expired)
       \/ pc = "idle" /\ shutdown
    /\ Break /\ Offline

(* The touch moved through or away from the resting child. *)
FollowSettle ==
    /\ pc = "rest" /\ ~shutdown /\ ~expired /\ resting # NoCloid
    /\ Call(resting, "follow", "settle")
    /\ resting' = NoCloid
    /\ Offline /\ UNCHANGED <<mode, k, nsl, target, filled, abort, shutdown>>

FollowRequote ==
    /\ pc = "rest" /\ ~shutdown /\ ~expired /\ resting = NoCloid
    /\ Goto("quote") /\ Offline

FollowIdleEnd ==
    /\ pc = "idle" /\ ~shutdown
    /\ Goto("after") /\ Offline

-----------------------------------------------------------------------------
(* The end of a slice and of the run. *)

TargetReached ==
    /\ pc = "after" /\ filled >= target
    /\ Goto("cleanup") /\ Offline

AfterShutdown ==
    /\ pc = "after" /\ filled < target /\ shutdown
    /\ Break /\ Offline

NextSlice ==
    /\ pc = "after" /\ filled < target /\ ~shutdown
    /\ pc' = "loop" /\ k' = k + 1
    /\ Offline /\ UNCHANGED <<mode, nsl, target, filled, resting, abort, shutdown, callvars>>

Cleanup ==
    /\ pc = "cleanup"
    /\ \/ /\ resting # NoCloid
          /\ Call(resting, "cleanup", "settle")
          /\ resting' = NoCloid
          /\ UNCHANGED <<mode, k, nsl, target, filled, abort, shutdown>>
       \/ resting = NoCloid /\ Goto("final")
    /\ Offline

Finalize ==
    /\ pc = "final"
    /\ RecordFinalReport(~abort, jtotal, Unresolved) \/ UNCHANGED jvars
    /\ Exit /\ UNCHANGED xvars

(* SIGINT or SIGTERM while the loop runs; if it is not done when the grace *)
(* period ends it is dropped where it stands and reported incomplete.      *)
Interrupt ==
    /\ mode = "exec" /\ ~shutdown
    /\ shutdown' = TRUE
    /\ Offline /\ UNCHANGED <<pc, loopvars, callvars>>

GraceTimeout ==
    /\ mode = "exec" /\ shutdown
    /\ RecordFinalReport(FALSE, jtotal, Unresolved) \/ UNCHANGED jvars
    /\ Exit /\ UNCHANGED xvars

(* The process dies: what it had not journaled is gone. *)
Crash ==
    /\ pc # "off"
    /\ Exit /\ Offline

-----------------------------------------------------------------------------
Reconcile ==
    \/ \E c \in Cloids : ReconcileNext(c)
    \/ \E answer \in {"error", "terminal", "open", "unknown"} : ReconcileProbe(answer)
    \/ ReconcileFailed \/ AbandonRun \/ ResumeExpired \/ ResumeRefused \/ ResumeSatisfied
    \/ \E mid \in Prices : ResumeBelowMinNotional(mid) \/ ResumeContinue(mid)

Loop ==
    \/ LoopDone \/ LoopShutdown \/ SettleBoundary \/ EnterSlice \/ SliceRefused
    \/ \E px \in Prices : SliceSkipped(px) \/ FollowPauses(px)
    \/ \E px \in Prices, c \in Cloids : Prepare(c, px)
    \/ TargetReached \/ AfterShutdown \/ NextSlice \/ Cleanup \/ Finalize

Place ==
    \/ CommitExpired \/ CommitShutdown \/ Send
    \/ AnswerFilled \/ AnswerResting \/ AnswerRejected \/ AnswerLost
    \/ PollTerminal \/ PollUnknown
    \/ \E answer \in {"error", "open"} : PollInconclusive(answer)
    \/ AbsentReconcile \/ AbsentShutdown \/ AbsentGiveUp \/ AbsentResend
    \/ AloProbeTerminal \/ AloProbeOpen
    \/ \E answer \in {"error", "unknown"} : AloProbeMissed(answer)
    \/ \E confirmed \in BOOLEAN : AloCancel(confirmed)

Settle ==
    \/ \E confirmed \in BOOLEAN : SettleSend(confirmed)
    \/ SettleTerminal \/ LedgerWhole \/ CallFails
    \/ \E answer \in {"error", "open", "unknown"} : SettleRetry(answer)

Follow == FollowSliceEnd \/ FollowStops \/ FollowSettle \/ FollowRequote \/ FollowIdleEnd

ProcessStep == Reconcile \/ Loop \/ Place \/ Settle \/ Follow

Environment ==
    \/ StartNew
    \/ \E m \in {"resume", "abandon"} : StartReconcile(m)
    \/ Interrupt \/ GraceTimeout \/ Crash
    \/ ExchangeStep /\ UNCHANGED <<jvars, procvars>>

Init ==
    /\ ExchangeInit /\ JournalInit
    /\ pc = "off" /\ mode = "none" /\ k = 1 /\ nsl = 0 /\ target = 0 /\ filled = 0
    /\ resting = NoCloid /\ abort = FALSE /\ shutdown = FALSE
    /\ cur = NoCloid /\ ctx = "none" /\ attempt = 0 /\ streak = 0 /\ sends = 0
    /\ conf = FALSE /\ suRec = FALSE

Next == ProcessStep \/ Environment

Spec == Init /\ [][Next]_vars

(* A process that is up keeps running: tokio timers fire and every await   *)
(* returns, with an error if need be.                                      *)
FairSpec == Spec /\ WF_vars(ProcessStep)
-----------------------------------------------------------------------------
(* Properties. *)

(* Whatever is lost, crashes or is resumed, the run never trades more than *)
(* the total it was asked for: catch-up sizing, the resend policy and the  *)
(* continuation plan of every later process included.                      *)
NoOverExecution == position <= Total

(* No order of steps makes the program write a record that its own replay  *)
(* refuses: a second SubmittedUnknown, a Terminal under another slice, a   *)
(* completed report over an unresolved cloid.  A journal that does not     *)
(* replay could be neither resumed nor abandoned.                          *)
JournalReplays == valid

(* Once a cloid is Terminal in the journal nothing is on the way or live   *)
(* under it, and what it traded is exactly what was credited.              *)
TerminalIsFinal ==
    \A c \in Cloids : jstate[c] = "terminal" =>
        wire[c] = 0 /\ book[c] # "live" /\ jfill[c] = fill[c]

(* At most one order of the run can trade at any time, and it is the one   *)
(* the journal shows as unresolved: the durable intent precedes the send   *)
(* and the in-flight cap holds across processes.                           *)
OneJournaledExposure ==
    \A c \in Cloids : (wire[c] > 0 \/ book[c] = "live") => Unresolved = {c}

(* While the loop runs without an abort reason, the fills it sizes the     *)
(* next slice by are those of the journal: nothing credited twice, nothing *)
(* settled but not credited, over resumes too.                             *)
StatsMatchJournal ==
    mode = "exec" /\ ~abort => (Total - target) + filled = jtotal

(* A place request is signed only while no earlier request of the same     *)
(* cloid is travelling or was ever accepted.                               *)
NoDuplicateSend ==
    [][\A c \in Cloids : wire'[c] > wire[c] => wire[c] = 0 /\ book[c] = "absent"]_vars

(* Read through position, journal total and closing record, the run does  *)
(* what IdealRun promises: it trades up to its total, its books follow the *)
(* trades, and a run that was reported completed or was abandoned has      *)
(* exact books and never trades again.                                     *)
Ideal == INSTANCE IdealRun
    WITH Target <- Total, traded <- position, booked <- jtotal,
         closed <- (report = "completed" \/ abandoned)

ImplementsIdealRun == Ideal!Spec

(* A started process always ends: no wait for an answer, a settlement or a *)
(* reconciliation is unbounded.                                            *)
EveryProcessEnds == (pc # "off") ~> (pc = "off")

(* The comment of poll_terminal_status: an order whose placement was       *)
(* acknowledged exists, so unknownOid is never proof that it did not, and  *)
(* closing it must credit what it traded.                                  *)
AcknowledgedNotDenied ==
    [][\A c \in Cloids : jstate[c] = "acknowledged" /\ jstate'[c] = "terminal"
                            => jfill'[c] = fill[c]]_vars

=============================================================================
