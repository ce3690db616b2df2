--------------------------- MODULE TwapRunProofs ----------------------------
(***************************************************************************)
(* Theorems about TwapRun, for every number of cloids, slices, prices and  *)
(* retries.                                                                *)
(*                                                                         *)
(* The safety theorems assume Lag < MinConsecutive: the streak of          *)
(* unknownOid answers that the code takes as proof is longer than the      *)
(* number of stale answers the index may give after a send.  The code      *)
(* cannot enforce this, it chooses UNKNOWN_OID_MIN_CONSECUTIVE and a       *)
(* minimum time in the belief that it holds; MCAckDenied.cfg shows what    *)
(* happens when it does not.                                               *)
(***************************************************************************)
EXTENDS TwapRun, TLAPS

(* Where the process works on one order. *)
OrderLabels ==
    {"commit", "sent", "poll", "aloProbe", "aloCancel", "settle", "settlePoll",
     "ledger", "rcProbe"}

CursorOK == pc \in OrderLabels => cur \in Cloids

-----------------------------------------------------------------------------
(* The plan's sizes are whole numbers. *)
LEMMA PlanTyped == PerSlice \in Nat /\ Total \in Nat
  BY PlanPositive DEF PerSlice, Total, PerSliceOf, TotalAdjusted

(* A continuation has a whole number of slices. *)
LEMMA ContinuationTyped ==
    ASSUME NEW r \in Int, NEW per \in Nat, per # 0
    PROVE  ContinuationSlices(r, per) \in Nat
  BY DEF ContinuationSlices

(* The per-slice size of an accepted plan is not zero. *)
LEMMA PerSlicePositive == PerSlice # 0
  BY PlanPositive DEF PerSlice, PerSliceOf

(* What a slice orders is never negative. *)
LEMMA OrderSizeTyped ==
    ASSUME TypeOK
    PROVE  SliceOrderSize(k, nsl, PerSlice, target, filled) \in Nat
  BY PlanTyped DEF TypeOK, SliceOrderSize, TargetAtSlice

-----------------------------------------------------------------------------
(* Each record, call and answer keeps the types of what it changes. *)

(* SubmittedUnknown and Acknowledged keep the journal well typed. *)
LEMMA ProgressTyped ==
    ASSUME JournalTypeOK, NEW c \in Cloids, NEW i, NEW to \in CloidState,
           RecordProgress(c, i, to)
    PROVE  JournalTypeOK'
  BY DEF RecordProgress, JournalTypeOK, Refused

(* So does a Terminal record. *)
LEMMA TerminalTyped ==
    ASSUME JournalTypeOK, NEW c \in Cloids, NEW i, NEW f \in Nat,
           RecordTerminal(c, i, f)
    PROVE  JournalTypeOK'
  <1>1. CASE Refused
    BY <1>1 DEF JournalTypeOK, Refused
  <1>2. CASE ~Refused
    <2>1. /\ jstate' = [jstate EXCEPT ![c] = "terminal"]
          /\ jfill' = [jfill EXCEPT ![c] = f]
          /\ jtotal' = jtotal + (f - jfill[c])
          /\ UNCHANGED <<valid, header, jslice, jsize, report, unknowns, abandoned>>
      BY <1>2 DEF RecordTerminal
    <2>2. jfill[c] \in Nat /\ jtotal' \in Int
      BY <2>1 DEF JournalTypeOK
    <2> QED BY <2>1, <2>2 DEF JournalTypeOK, CloidState
  <1> QED BY <1>1, <1>2

(* So does a Prepared record. *)
LEMMA PreparedTyped ==
    ASSUME JournalTypeOK, NEW c \in Cloids, NEW i \in Nat, NEW s \in Nat,
           RecordPrepared(c, i, s)
    PROVE  JournalTypeOK'
  BY DEF RecordPrepared, JournalTypeOK, Refused, CloidState

(* So does a FinalReport that lists the unresolved cloids. *)
LEMMA ReportTyped ==
    ASSUME JournalTypeOK, NEW b, NEW t, RecordFinalReport(b, t, Unresolved)
    PROVE  JournalTypeOK'
  BY DEF RecordFinalReport, JournalTypeOK, Refused, Unresolved

(* So does a step without a record. *)
LEMMA JournalUntouched ==
    ASSUME JournalTypeOK, UNCHANGED jvars
    PROVE  JournalTypeOK'
  BY DEF JournalTypeOK, jvars

(* A step without a call leaves the exchange as it is. *)
LEMMA ExchangeUntouched ==
    ASSUME ExchangeTypeOK, UNCHANGED xvars
    PROVE  ExchangeTypeOK'
  BY DEF ExchangeTypeOK, xvars

(* The steps of the exchange itself keep it well typed. *)
LEMMA ExchangeStepTyped ==
    ASSUME ExchangeTypeOK, ExchangeStep
    PROVE  ExchangeTypeOK'
  <1>1. CASE DeadlinePasses
    BY <1>1 DEF ExchangeTypeOK, DeadlinePasses
  <1>2. ASSUME NEW c \in Cloids, Accept(c) PROVE ExchangeTypeOK'
    BY <1>2 DEF ExchangeTypeOK, Accept
  <1>3. ASSUME NEW c \in Cloids, Refuse(c) PROVE ExchangeTypeOK'
    BY <1>3 DEF ExchangeTypeOK, Refuse
  <1>4. ASSUME NEW c \in Cloids, Trade(c) PROVE ExchangeTypeOK'
    BY <1>4 DEF ExchangeTypeOK, Trade
  <1>5. ASSUME NEW c \in Cloids, Withdraw(c) PROVE ExchangeTypeOK'
    BY <1>5 DEF ExchangeTypeOK, Withdraw
  <1> QED BY <1>1, <1>2, <1>3, <1>4, <1>5 DEF ExchangeStep

(* The calls of the program do as well. *)
LEMMA CallsTyped ==
    ASSUME ExchangeTypeOK, NEW c \in Cloids, NEW s \in Nat, NEW a, NEW b
    PROVE  /\ PlaceOrderOnce(c, s) => ExchangeTypeOK'
           /\ OrderStatus(c, a) => ExchangeTypeOK'
           /\ CancelByCloid(c, b) => ExchangeTypeOK'
  BY LagNat DEF ExchangeTypeOK, PlaceOrderOnce, OrderStatus, CancelByCloid

(* The process's own variables. *)
ProcTypeOK ==
    /\ pc \in Labels /\ mode \in Modes /\ ctx \in Contexts
    /\ k \in Nat /\ nsl \in Nat /\ target \in Nat /\ filled \in Nat
    /\ resting \in Cloids \cup {NoCloid} /\ cur \in Cloids \cup {NoCloid}
    /\ attempt \in Nat /\ streak \in Nat /\ sends \in Nat
    /\ abort \in BOOLEAN /\ shutdown \in BOOLEAN
    /\ conf \in BOOLEAN /\ suRec \in BOOLEAN
    /\ CursorOK

(* The process is well typed where it does not move, *)
LEMMA ProcUntouched ==
    ASSUME ProcTypeOK, UNCHANGED procvars
    PROVE  ProcTypeOK'
  BY DEF ProcTypeOK, CursorOK, procvars, loopvars, callvars

(* where it only moves on, *)
LEMMA GotoTyped ==
    ASSUME ProcTypeOK, NEW p \in Labels, Goto(p), p \in OrderLabels => cur \in Cloids
    PROVE  ProcTypeOK'
  BY DEF ProcTypeOK, CursorOK, Goto, loopvars, callvars

(* where the loop breaks, *)
LEMMA BreakTyped ==
    ASSUME ProcTypeOK, Break
    PROVE  ProcTypeOK'
  BY DEF ProcTypeOK, CursorOK, Break, callvars, Labels, OrderLabels

(* where a call fails, *)
LEMMA FailTyped ==
    ASSUME ProcTypeOK, Fail
    PROVE  ProcTypeOK'
  BY DEF ProcTypeOK, CursorOK, Fail, Return, Call, Labels, OrderLabels, Contexts

(* where a plan begins, *)
LEMMA ProcessTyped ==
    ASSUME ProcTypeOK, NEW p \in Labels \ OrderLabels, NEW mm \in Modes,
           NEW n \in Nat, NEW t \in Nat, Process(p, mm, n, t)
    PROVE  ProcTypeOK'
  BY DEF ProcTypeOK, CursorOK, Process, Return, Call, Contexts

(* and where it ends. *)
LEMMA ExitTyped ==
    ASSUME ProcTypeOK, Exit
    PROVE  ProcTypeOK'
  BY ProcessTyped DEF Exit, Labels, OrderLabels, Modes

(* Crediting a settled order keeps the process and the journal well typed. *)
LEMMA SettledTyped ==
    ASSUME JournalTypeOK, ProcTypeOK, cur \in Cloids, NEW f \in Nat, Settled(f)
    PROVE  JournalTypeOK' /\ ProcTypeOK'
  <1>1. JournalTypeOK'
    BY TerminalTyped DEF Settled
  <1>2. CASE Fail
    BY <1>1, <1>2, FailTyped
  <1>3. CASE ~Fail
    <2>1. PICK p \in Continue(filled + f) : Return(p)
      BY <1>3 DEF Settled
    <2>2. p \in Labels \ OrderLabels
      BY DEF Continue, AfterPlace, Labels, OrderLabels
    <2>3. filled' \in Nat /\ UNCHANGED <<mode, k, nsl, target, resting, abort, shutdown>>
      BY <1>3 DEF Settled, ProcTypeOK
    <2> QED BY <1>1, <2>1, <2>2, <2>3 DEF ProcTypeOK, CursorOK, Return, Call, Contexts
  <1> QED BY <1>2, <1>3

(* Closing an order that was never sent does too. *)
LEMMA ClosedUnsentTyped ==
    ASSUME JournalTypeOK, ProcTypeOK, cur \in Cloids, ClosedUnsent
    PROVE  JournalTypeOK' /\ ProcTypeOK'
  <1>1. JournalTypeOK'
    BY TerminalTyped DEF ClosedUnsent
  <1>2. ProcTypeOK'
    BY DEF ClosedUnsent, ProcTypeOK, CursorOK, Return, Call, Labels, OrderLabels, Contexts
  <1> QED BY <1>1, <1>2
-----------------------------------------------------------------------------
(* One lemma per group of actions: the types are kept. *)

Typed == ExchangeTypeOK /\ JournalTypeOK /\ ProcTypeOK

(* Size, slice and fill of an order in hand are numbers. *)
LEMMA OrderFields ==
    ASSUME Typed, pc \in OrderLabels
    PROVE  cur \in Cloids /\ fill[cur] \in Nat /\ jsize[cur] \in Nat
  BY DEF Typed, ExchangeTypeOK, JournalTypeOK, ProcTypeOK, CursorOK

(* Each group of actions keeps the types: reconciliation and resume, *)
LEMMA ReconcileTyped ==
    ASSUME Typed, Reconcile
    PROVE  Typed'
  <1> USE DEF Typed
  <1>1. ASSUME NEW c \in Cloids, ReconcileNext(c) PROVE Typed'
    BY <1>1, JournalUntouched, ExchangeUntouched
       DEF ReconcileNext, Offline, Call, ProcTypeOK, CursorOK, loopvars, Labels, Contexts
  <1>2. ASSUME NEW a, ReconcileProbe(a) PROVE Typed'
    <2>1. cur \in Cloids
      BY <1>2, OrderFields DEF ReconcileProbe, OrderLabels
    <2> QED BY <1>2, <2>1, CallsTyped, JournalUntouched, GotoTyped DEF ReconcileProbe, Labels
  <1>3. CASE ReconcileFailed
    BY <1>3, ReportTyped, JournalUntouched, ExchangeUntouched, ExitTyped DEF ReconcileFailed
  <1>4. CASE AbandonRun
    <2>1. JournalTypeOK'
      BY <1>4 DEF AbandonRun, RecordAbandoned, JournalTypeOK, Refused
    <2> QED BY <1>4, <2>1, ExchangeUntouched, ExitTyped DEF AbandonRun
  <1>5. CASE ResumeExpired
    BY <1>5, ReportTyped, ExchangeUntouched, ExitTyped DEF ResumeExpired
  <1>6. CASE ResumeRefused
    BY <1>6, ReportTyped, JournalUntouched, ExchangeUntouched, ExitTyped DEF ResumeRefused
  <1>7. CASE ResumeSatisfied
    BY <1>7, ReportTyped, ExchangeUntouched, ExitTyped DEF ResumeSatisfied, Reconciled
  <1>8. ASSUME NEW mid \in Prices, ResumeBelowMinNotional(mid) PROVE Typed'
    BY <1>8, ReportTyped, ExchangeUntouched, ExitTyped DEF ResumeBelowMinNotional, Reconciled
  <1>9. ASSUME NEW mid \in Prices, ResumeContinue(mid) PROVE Typed'
    <2>1. Total - jtotal \in Nat
      BY <1>9, PlanTyped DEF ResumeContinue, JournalTypeOK
    <2>2. ContinuationSlices(Total - jtotal, PerSlice) \in Nat
      BY <2>1, PlanTyped, PerSlicePositive, ContinuationTyped
    <2> QED
      BY <1>9, <2>1, <2>2, ProcessTyped, JournalUntouched, ExchangeUntouched
         DEF ResumeContinue, Offline, Labels, OrderLabels, Modes
  <1> QED
    BY <1>1, <1>2, <1>3, <1>4, <1>5, <1>6, <1>7, <1>8, <1>9 DEF Reconcile

(* the slice loop, *)
LEMMA LoopTyped ==
    ASSUME Typed, Loop
    PROVE  Typed'
  <1> USE DEF Typed
  <1>1. CASE LoopDone \/ EnterSlice \/ TargetReached
    BY <1>1, JournalUntouched, ExchangeUntouched, GotoTyped
       DEF LoopDone, EnterSlice, TargetReached, Offline, Labels, OrderLabels
  <1>2. CASE LoopShutdown \/ SliceRefused \/ AfterShutdown
    BY <1>2, JournalUntouched, ExchangeUntouched, BreakTyped
       DEF LoopShutdown, SliceRefused, AfterShutdown, Offline
  <1>3. CASE SettleBoundary
    BY <1>3, JournalUntouched, ExchangeUntouched
       DEF SettleBoundary, Offline, Call, ProcTypeOK, CursorOK, Labels, Contexts
  <1>4. CASE NextSlice \/ \E px \in Prices : SliceSkipped(px)
    BY <1>4, JournalUntouched, ExchangeUntouched
       DEF NextSlice, SliceSkipped, Offline, ProcTypeOK, CursorOK, callvars, Labels, OrderLabels
  <1>5. ASSUME NEW px \in Prices, FollowPauses(px) PROVE Typed'
    BY <1>5, JournalUntouched, ExchangeUntouched, GotoTyped
       DEF FollowPauses, Offline, Labels, OrderLabels
  <1>6. ASSUME NEW px \in Prices, NEW c \in Cloids, Prepare(c, px) PROVE Typed'
    <2>1. SliceOrderSize(k, nsl, PerSlice, target, filled) \in Nat /\ k \in Nat
      BY OrderSizeTyped DEF TypeOK, ProcTypeOK
    <2>2. JournalTypeOK' /\ ExchangeTypeOK'
      BY <1>6, <2>1, PreparedTyped, ExchangeUntouched DEF Prepare
    <2>3. CASE Break
      BY <2>2, <2>3, BreakTyped
    <2>4. CASE Call(c, "place", "commit") /\ UNCHANGED <<loopvars, shutdown>>
      BY <2>2, <2>4 DEF Call, loopvars, ProcTypeOK, CursorOK, Labels, Contexts
    <2> QED BY <1>6, <2>3, <2>4 DEF Prepare
  <1>7. CASE Cleanup
    <2>1. CASE resting = NoCloid
      BY <1>7, <2>1, JournalUntouched, ExchangeUntouched, GotoTyped
         DEF Cleanup, Offline, Labels, OrderLabels
    <2>2. CASE resting # NoCloid
      <3>1. resting \in Cloids
        BY <2>2 DEF ProcTypeOK
      <3>2. /\ Call(resting, "cleanup", "settle") /\ resting' = NoCloid
            /\ UNCHANGED <<mode, k, nsl, target, filled, abort, shutdown>>
        BY <1>7, <2>2 DEF Cleanup
      <3>3. ProcTypeOK'
        BY <3>1, <3>2 DEF Call, ProcTypeOK, CursorOK, Labels, Contexts
      <3> QED BY <1>7, <3>3, JournalUntouched, ExchangeUntouched DEF Cleanup, Offline
    <2> QED BY <2>1, <2>2
  <1>8. CASE Finalize
    BY <1>8, ReportTyped, JournalUntouched, ExchangeUntouched, ExitTyped DEF Finalize
  <1> QED
    BY <1>1, <1>2, <1>3, <1>4, <1>5, <1>6, <1>7, <1>8 DEF Loop

(* the placement of an order, *)
LEMMA PlaceTyped ==
    ASSUME Typed, Place
    PROVE  Typed'
  <1> USE DEF Typed
  <1>a. pc \in OrderLabels
    BY DEF Place, CommitExpired, CommitShutdown, Send, AnswerFilled, AnswerResting,
           AnswerRejected, AnswerLost, PollTerminal, PollUnknown, PollInconclusive,
           AbsentReconcile, AbsentShutdown, AbsentGiveUp, AbsentResend, Absent,
           AloProbeTerminal, AloProbeOpen, AloProbeMissed, AloCancel, OrderLabels
  <1>b. cur \in Cloids /\ fill[cur] \in Nat /\ jsize[cur] \in Nat
    BY <1>a, OrderFields
  <1>1. CASE CommitExpired
    BY <1>1, JournalUntouched, ExchangeUntouched, FailTyped DEF CommitExpired, Offline
  <1>2. CASE CommitShutdown
    BY <1>2, <1>b, ClosedUnsentTyped, ExchangeUntouched DEF CommitShutdown
  <1>3. CASE Send
    BY <1>3, <1>b, CallsTyped, JournalUntouched, GotoTyped DEF Send, Labels
  <1>4. CASE AnswerFilled
    BY <1>4, <1>b, SettledTyped, ExchangeUntouched DEF AnswerFilled
  <1>5. CASE AnswerResting
    <2>1. JournalTypeOK' /\ ExchangeTypeOK'
      BY <1>5, <1>b, ProgressTyped, ExchangeUntouched DEF AnswerResting, CloidState
    <2>2. CASE Algo = "market"
      <3>1. /\ pc' = "settle" /\ attempt' = 0 /\ conf' = FALSE
            /\ UNCHANGED <<resting, cur, ctx, streak, sends, suRec>>
            /\ UNCHANGED <<mode, k, nsl, target, filled, abort, shutdown>>
        BY <1>5, <2>2 DEF AnswerResting
      <3> QED BY <1>b, <2>1, <3>1 DEF ProcTypeOK, CursorOK, Labels
    <2>3. CASE Algo # "market"
      <3>1. /\ resting' = cur /\ Return(AfterPlace)
            /\ UNCHANGED <<mode, k, nsl, target, filled, abort, shutdown>>
        BY <1>5, <2>3 DEF AnswerResting
      <3>2. AfterPlace \in Labels \ OrderLabels
        BY DEF AfterPlace, Labels, OrderLabels
      <3> QED
        BY <1>b, <2>1, <3>1, <3>2 DEF Return, Call, ProcTypeOK, CursorOK, Contexts
    <2> QED BY <2>2, <2>3
  <1>6. CASE AnswerRejected
    BY <1>6, <1>b, SettledTyped, ClosedUnsentTyped, ExchangeUntouched DEF AnswerRejected
  <1>7. CASE AnswerLost
    <2>1. JournalTypeOK' /\ ExchangeTypeOK'
      BY <1>7, <1>b, ProgressTyped, JournalUntouched, ExchangeUntouched
         DEF AnswerLost, CloidState
    <2>2. ProcTypeOK'
      BY <1>7, <1>b DEF AnswerLost, loopvars, ProcTypeOK, CursorOK, Labels, OrderLabels
    <2> QED BY <2>1, <2>2
  <1>8. CASE PollTerminal \/ AloProbeTerminal
    BY <1>8, <1>b, CallsTyped, SettledTyped DEF PollTerminal, AloProbeTerminal
  <1>9. CASE PollUnknown \/ \E a \in {"error", "open"} : PollInconclusive(a)
    <2>1. JournalTypeOK' /\ ExchangeTypeOK'
      BY <1>9, <1>b, CallsTyped, JournalUntouched DEF PollUnknown, PollInconclusive
    <2>2. CASE Fail
      BY <2>1, <2>2, FailTyped
    <2>3. CASE ~Fail
      BY <1>9, <1>b, <2>1, <2>3
         DEF PollUnknown, PollInconclusive, loopvars, ProcTypeOK, CursorOK
    <2> QED BY <2>2, <2>3
  <1>10. CASE AbsentReconcile
    BY <1>10, <1>b, CallsTyped, SettledTyped DEF AbsentReconcile, Absent
  <1>11. CASE AbsentShutdown
    BY <1>11, <1>b, CallsTyped, ClosedUnsentTyped DEF AbsentShutdown, Absent
  <1>12. CASE AbsentGiveUp
    BY <1>12, <1>b, CallsTyped, FailTyped, JournalUntouched DEF AbsentGiveUp, Absent
  <1>13. CASE AbsentResend
    <2>1. JournalTypeOK' /\ ExchangeTypeOK'
      BY <1>13, <1>b, CallsTyped, JournalUntouched DEF AbsentResend, Absent
    <2> QED
      BY <1>13, <1>b, <2>1 DEF AbsentResend, loopvars, ProcTypeOK, CursorOK, Labels
  <1>14. CASE AloProbeOpen \/ \E a \in {"error", "unknown"} : AloProbeMissed(a)
    BY <1>14, <1>b, CallsTyped, JournalUntouched, GotoTyped
       DEF AloProbeOpen, AloProbeMissed, Labels
  <1>15. ASSUME NEW b \in BOOLEAN, AloCancel(b) PROVE Typed'
    <2>1. JournalTypeOK' /\ ExchangeTypeOK'
      BY <1>15, <1>b, CallsTyped, JournalUntouched DEF AloCancel
    <2>2. CASE Fail
      BY <2>1, <2>2, FailTyped
    <2>3. CASE ~Fail
      BY <1>15, <1>b, <2>1, <2>3 DEF AloCancel, loopvars, ProcTypeOK, CursorOK
    <2> QED BY <2>2, <2>3
  <1> QED
    BY <1>1, <1>2, <1>3, <1>4, <1>5, <1>6, <1>7, <1>8, <1>9, <1>10, <1>11, <1>12,
       <1>13, <1>14, <1>15 DEF Place

(* its settlement, *)
LEMMA SettleTyped ==
    ASSUME Typed, Settle
    PROVE  Typed'
  <1> USE DEF Typed
  <1>1. ASSUME NEW b \in BOOLEAN, SettleSend(b) PROVE Typed'
    <2>1. cur \in Cloids
      BY <1>1, OrderFields DEF SettleSend, OrderLabels
    <2>2. JournalTypeOK' /\ ExchangeTypeOK'
      BY <1>1, <2>1, CallsTyped, ExchangeUntouched, JournalUntouched DEF SettleSend
    <2> QED
      BY <1>1, <2>1, <2>2 DEF SettleSend, loopvars, ProcTypeOK, CursorOK, Labels
  <1>2. CASE SettleTerminal
    <2>1. cur \in Cloids /\ fill[cur] \in Nat
      BY <1>2, OrderFields DEF SettleTerminal, OrderLabels
    <2> QED BY <1>2, <2>1, CallsTyped, SettledTyped DEF SettleTerminal
  <1>3. CASE LedgerWhole
    <2>1. cur \in Cloids /\ jsize[cur] \in Nat
      BY <1>3, OrderFields DEF LedgerWhole, OrderLabels
    <2> QED BY <1>3, <2>1, SettledTyped, ExchangeUntouched DEF LedgerWhole
  <1>4. CASE CallFails
    BY <1>4, JournalUntouched, ExchangeUntouched, FailTyped DEF CallFails, Offline
  <1>5. ASSUME NEW a, SettleRetry(a) PROVE Typed'
    <2>1. cur \in Cloids
      BY <1>5, OrderFields DEF SettleRetry, OrderLabels
    <2>2. JournalTypeOK' /\ ExchangeTypeOK'
      BY <1>5, <2>1, CallsTyped, JournalUntouched DEF SettleRetry
    <2>3. CASE Fail \/ Goto("ledger")
      BY <2>1, <2>2, <2>3, FailTyped, GotoTyped DEF Labels
    <2>4. CASE ~(Fail \/ Goto("ledger"))
      BY <1>5, <2>1, <2>2, <2>4 DEF SettleRetry, loopvars, ProcTypeOK, CursorOK, Labels
    <2> QED BY <2>3, <2>4
  <1> QED
    BY <1>1, <1>2, <1>3, <1>4, <1>5 DEF Settle

(* the follow loop, *)
LEMMA FollowTyped ==
    ASSUME Typed, Follow
    PROVE  Typed'
  <1> USE DEF Typed
  <1>1. CASE FollowSliceEnd \/ FollowRequote \/ FollowIdleEnd
    BY <1>1, JournalUntouched, ExchangeUntouched, GotoTyped
       DEF FollowSliceEnd, FollowRequote, FollowIdleEnd, Offline, Labels, OrderLabels
  <1>2. CASE FollowStops
    BY <1>2, JournalUntouched, ExchangeUntouched, BreakTyped DEF FollowStops, Offline
  <1>3. CASE FollowSettle
    BY <1>3, JournalUntouched, ExchangeUntouched
       DEF FollowSettle, Offline, Call, ProcTypeOK, CursorOK, Labels, Contexts
  <1> QED BY <1>1, <1>2, <1>3 DEF Follow

(* and what happens to the process from outside. *)
LEMMA EnvironmentTyped ==
    ASSUME Typed, Environment
    PROVE  Typed'
  <1> USE DEF Typed
  <1>1. CASE StartNew
    <2>1. JournalTypeOK'
      BY <1>1 DEF StartNew, RecordHeader, JournalTypeOK, Refused
    <2> QED
      BY <1>1, <2>1, PlanTyped, PlanPositive, ProcessTyped, ExchangeUntouched
         DEF StartNew, Labels, OrderLabels, Modes
  <1>2. ASSUME NEW m \in {"resume", "abandon"}, StartReconcile(m) PROVE Typed'
    BY <1>2, ProcessTyped, JournalUntouched, ExchangeUntouched
       DEF StartReconcile, Offline, Labels, OrderLabels, Modes
  <1>3. CASE Interrupt
    BY <1>3, JournalUntouched, ExchangeUntouched
       DEF Interrupt, Offline, ProcTypeOK, CursorOK, loopvars, callvars
  <1>4. CASE GraceTimeout
    BY <1>4, ReportTyped, JournalUntouched, ExchangeUntouched, ExitTyped DEF GraceTimeout
  <1>5. CASE Crash
    BY <1>5, JournalUntouched, ExchangeUntouched, ExitTyped DEF Crash, Offline
  <1>6. CASE ExchangeStep /\ UNCHANGED <<jvars, procvars>>
    BY <1>6, ExchangeStepTyped, JournalUntouched, ProcUntouched
  <1> QED
    BY <1>1, <1>2, <1>3, <1>4, <1>5, <1>6 DEF Environment

-----------------------------------------------------------------------------
(* The program starts well typed. *)
LEMMA InitTyped ==
    ASSUME Init
    PROVE  Typed
  <1>1. ExchangeTypeOK
    <2>1. expired \in BOOLEAN
      BY DEF Init, ExchangeInit
    <2>2. /\ wire \in [Cloids -> Nat] /\ asked \in [Cloids -> Nat]
          /\ quota \in [Cloids -> Nat] /\ fill \in [Cloids -> Nat]
          /\ lag \in [Cloids -> 0..Lag] /\ position \in Nat
      BY LagNat DEF Init, ExchangeInit
    <2>3. book \in [Cloids -> {"absent", "live", "done"}]
      BY DEF Init, ExchangeInit
    <2> QED BY <2>1, <2>2, <2>3 DEF ExchangeTypeOK
  <1>2. JournalTypeOK
    <2>1. valid \in BOOLEAN /\ header \in BOOLEAN /\ abandoned \in BOOLEAN
      BY DEF Init, JournalInit
    <2>2. jstate \in [Cloids -> CloidState] /\ report \in {"none", "incomplete", "completed"}
      BY DEF Init, JournalInit, CloidState
    <2>3. /\ jslice \in [Cloids -> Nat] /\ jsize \in [Cloids -> Nat]
          /\ jfill \in [Cloids -> Nat] /\ jtotal \in Int /\ unknowns \in SUBSET Cloids
      BY DEF Init, JournalInit
    <2> QED BY <2>1, <2>2, <2>3 DEF JournalTypeOK
  <1>3. ProcTypeOK
    BY DEF Init, ProcTypeOK, CursorOK, Labels, OrderLabels, Modes, Contexts
  <1> QED BY <1>1, <1>2, <1>3 DEF Typed

(* The type invariant holds: in particular the continuation plan of every  *)
(* resume is a whole, non-negative size, fills are never negative, and     *)
(* the process works on an order exactly where the code has one in hand.   *)
THEOREM TypeCorrect == Spec => [](TypeOK /\ CursorOK)
  <1>1. Init => Typed
    BY InitTyped
  <1>2. Typed /\ [Next]_vars => Typed'
    <2> SUFFICES ASSUME Typed, [Next]_vars PROVE Typed'
      OBVIOUS
    <2>1. CASE UNCHANGED vars
      BY <2>1, JournalUntouched, ExchangeUntouched, ProcUntouched DEF vars, Typed
    <2>2. CASE Next
      BY <2>2, ReconcileTyped, LoopTyped, PlaceTyped, SettleTyped, FollowTyped,
         EnvironmentTyped DEF Next, ProcessStep
    <2> QED BY <2>1, <2>2
  <1>3. Typed => TypeOK /\ CursorOK
    BY DEF Typed, TypeOK, ProcTypeOK
  <1> QED BY <1>1, <1>2, <1>3, PTL DEF Spec

-----------------------------------------------------------------------------
(* Safety. *)

(* One cloid, on both sides of the wire: at most one request travels, of   *)
(* the size that was journaled; at most that size is accepted, once; and   *)
(* what the journal calls terminal can no longer change.                   *)
OrderOK(c) ==
    /\ wire[c] <= 1
    /\ book[c] # "absent" => wire[c] = 0
    /\ book[c] = "absent" => quota[c] = 0
    /\ quota[c] \in {0, jsize[c]} /\ fill[c] <= quota[c]
    /\ book[c] = "live" => fill[c] < quota[c]
    /\ wire[c] = 1 => asked[c] = jsize[c]
    /\ jstate[c] = "absent" => wire[c] = 0 /\ book[c] = "absent"
    /\ jstate[c] # "absent" => jsize[c] > 0
    /\ jstate[c] = "terminal" => wire[c] = 0 /\ book[c] # "live" /\ jfill[c] = fill[c]
    /\ jstate[c] # "terminal" => jfill[c] = 0

OrdersOK == \A c \in Cloids : OrderOK(c)

(* The books: all that was traded is in the journal's total, except what   *)
(* the one unresolved order has traded, and that order fits into the rest. *)
LedgerOK ==
    /\ jtotal <= Total
    /\ Unresolved = {} => position = jtotal
    /\ \A c \in Unresolved :
          /\ Unresolved = {c}
          /\ position = jtotal + fill[c]
          /\ jtotal + jsize[c] <= Total

Data == OrdersOK /\ LedgerOK

(* A step that neither trades nor writes. *)
LEMMA DataUntouched ==
    ASSUME Data, UNCHANGED <<wire, asked, book, quota, fill, position>>, UNCHANGED jvars
    PROVE  Data'
  BY DEF Data, OrdersOK, OrderOK, LedgerOK, Unresolved, jvars

(* A cancel, answered or lost, only takes size off the book. *)
LEMMA CancelData ==
    ASSUME Typed, Data, NEW c \in Cloids, NEW b, CancelByCloid(c, b), UNCHANGED jvars
    PROVE  Data'
  <1>1. Unresolved' = Unresolved /\ UNCHANGED <<jtotal, position, fill, jsize>>
    BY DEF Unresolved, jvars, CancelByCloid
  <1>2. LedgerOK'
    BY <1>1 DEF Data, LedgerOK
  <1>3. ASSUME NEW d \in Cloids PROVE OrderOK(d)'
    BY <1>1 DEF Data, OrdersOK, OrderOK, CancelByCloid, jvars, Typed, ExchangeTypeOK
  <1> QED BY <1>2, <1>3 DEF Data, OrdersOK

(* The exchange by itself: an order grows only within what was journaled. *)
LEMMA ExchangeData ==
    ASSUME Typed, Data, ExchangeStep, UNCHANGED jvars
    PROVE  Data'
  <1>a. Unresolved' = Unresolved /\ UNCHANGED <<jtotal, jsize, jstate, jfill>>
    BY DEF Unresolved, jvars
  <1>1. CASE DeadlinePasses
    BY <1>1, DataUntouched DEF DeadlinePasses
  <1>2. ASSUME NEW c \in Cloids, Accept(c) PROVE Data'
    <2>1. LedgerOK'
      BY <1>2, <1>a DEF Data, LedgerOK, Accept
    <2>2. ASSUME NEW d \in Cloids PROVE OrderOK(d)'
      BY <1>2, <1>a DEF Data, OrdersOK, OrderOK, Accept, Typed, ExchangeTypeOK, JournalTypeOK
    <2> QED BY <2>1, <2>2 DEF Data, OrdersOK
  <1>3. ASSUME NEW c \in Cloids, Refuse(c) PROVE Data'
    <2>1. LedgerOK'
      BY <1>3, <1>a DEF Data, LedgerOK, Refuse
    <2>2. ASSUME NEW d \in Cloids PROVE OrderOK(d)'
      BY <1>3, <1>a DEF Data, OrdersOK, OrderOK, Refuse, Typed, ExchangeTypeOK, JournalTypeOK
    <2> QED BY <2>1, <2>2 DEF Data, OrdersOK
  <1>4. ASSUME NEW c \in Cloids, Trade(c) PROVE Data'
    <2>1. c \in Unresolved
      BY <1>4 DEF Trade, Data, OrdersOK, OrderOK, Unresolved
    <2>2. Unresolved = {c} /\ fill'[c] = fill[c] + 1 /\ position' = position + 1
      BY <1>4, <2>1 DEF Trade, Data, LedgerOK, Typed, ExchangeTypeOK
    <2>3. LedgerOK'
      BY <2>1, <2>2, <1>a DEF Data, LedgerOK, Typed, ExchangeTypeOK, JournalTypeOK
    <2>4. ASSUME NEW d \in Cloids PROVE OrderOK(d)'
      BY <1>4, <1>a, <2>1 DEF Data, OrdersOK, OrderOK, Unresolved, Trade, Typed, ExchangeTypeOK, JournalTypeOK
    <2> QED BY <2>3, <2>4 DEF Data, OrdersOK
  <1>5. ASSUME NEW c \in Cloids, Withdraw(c) PROVE Data'
    <2>1. LedgerOK'
      BY <1>5, <1>a DEF Data, LedgerOK, Withdraw
    <2>2. ASSUME NEW d \in Cloids PROVE OrderOK(d)'
      BY <1>5, <1>a DEF Data, OrdersOK, OrderOK, Withdraw, Typed, ExchangeTypeOK, JournalTypeOK
    <2> QED BY <2>1, <2>2 DEF Data, OrdersOK
  <1> QED BY <1>1, <1>2, <1>3, <1>4, <1>5 DEF ExchangeStep

(* A request for a journaled order that is not out yet. *)
LEMMA SendData ==
    ASSUME Typed, Data, NEW c \in Unresolved, wire[c] = 0, book[c] = "absent",
           PlaceOrderOnce(c, jsize[c]), UNCHANGED jvars
    PROVE  Data'
  <1>1. Unresolved' = Unresolved /\ UNCHANGED <<jtotal, jsize, jstate, jfill>> /\ c \in Cloids
    BY DEF Unresolved, jvars
  <1>2. LedgerOK'
    BY <1>1 DEF Data, LedgerOK, PlaceOrderOnce
  <1>3. ASSUME NEW d \in Cloids PROVE OrderOK(d)'
    BY <1>1 DEF Data, OrdersOK, OrderOK, PlaceOrderOnce, Typed, ExchangeTypeOK, JournalTypeOK,
                Unresolved
  <1> QED BY <1>2, <1>3 DEF Data, OrdersOK

-----------------------------------------------------------------------------
(* What each record does to a journal that takes records. *)

(* The intent of an order that fits into what is left. *)
LEMMA PreparedData ==
    ASSUME Typed, Data, Appendable, Unresolved = {}, NEW c \in Cloids, jstate[c] = "absent",
           NEW i \in Nat, NEW s \in Nat, s > 0, jtotal + s <= Total,
           RecordPrepared(c, i, s), UNCHANGED xvars
    PROVE  /\ Data' /\ Appendable' /\ Unresolved' = {c}
           /\ jstate'[c] = "prepared" /\ jslice'[c] = i /\ jtotal' = jtotal
  <1>1. /\ jstate' = [jstate EXCEPT ![c] = "prepared"]
        /\ jslice' = [jslice EXCEPT ![c] = i]
        /\ jsize' = [jsize EXCEPT ![c] = s]
        /\ UNCHANGED <<valid, header, jfill, jtotal, report, unknowns, abandoned>>
    BY DEF RecordPrepared
  <1>2. jstate'[c] = "prepared" /\ jslice'[c] = i /\ jsize'[c] = s
    BY <1>1 DEF Typed, JournalTypeOK
  <1>3. Unresolved' = {c}
    BY <1>1 DEF Unresolved, Typed, JournalTypeOK
  <1>4. OrdersOK'
    <2> SUFFICES ASSUME NEW d \in Cloids PROVE OrderOK(d)'
      BY DEF OrdersOK
    <2> QED BY <1>1, <1>2 DEF Data, OrdersOK, OrderOK, xvars, Typed, ExchangeTypeOK, JournalTypeOK
  <1>5. LedgerOK'
    <2>1. fill'[c] = 0 /\ position' = position
      BY DEF Data, OrdersOK, OrderOK, xvars, Typed, ExchangeTypeOK
    <2> QED BY <1>1, <1>2, <1>3, <2>1 DEF Data, LedgerOK, Typed, JournalTypeOK
  <1> QED BY <1>1, <1>2, <1>3, <1>4, <1>5 DEF Data, Appendable

(* A legal step of an unresolved order. *)
LEMMA ProgressData ==
    ASSUME Typed, Data, Appendable, NEW c \in Unresolved,
           NEW to \in {"submittedUnknown", "acknowledged"}, Allowed(jstate[c], to),
           RecordProgress(c, jslice[c], to), UNCHANGED xvars
    PROVE  /\ Data' /\ Appendable' /\ Unresolved' = Unresolved
           /\ jstate'[c] = to /\ UNCHANGED <<jslice, jtotal>>
  <1>1. /\ jstate' = [jstate EXCEPT ![c] = to]
        /\ UNCHANGED <<valid, header, jslice, jsize, jfill, jtotal, report, unknowns, abandoned>>
    BY DEF RecordProgress
  <1>2. c \in Cloids /\ jstate[c] \notin {"absent", "terminal"} /\ jstate'[c] = to
    BY <1>1 DEF Unresolved, Typed, JournalTypeOK
  <1>3. Unresolved' = Unresolved
    BY <1>1, <1>2 DEF Unresolved, Typed, JournalTypeOK
  <1>4. OrdersOK'
    <2> SUFFICES ASSUME NEW d \in Cloids PROVE OrderOK(d)'
      BY DEF OrdersOK
    <2> QED BY <1>1, <1>2 DEF Data, OrdersOK, OrderOK, xvars, Typed, JournalTypeOK
  <1>5. LedgerOK'
    BY <1>1, <1>3 DEF Data, LedgerOK, xvars
  <1> QED BY <1>1, <1>2, <1>3, <1>4, <1>5 DEF Data, Appendable

(* Closing the unresolved order at what it traded, once it can trade no    *)
(* more, makes the books exact.                                            *)
LEMMA TerminalData ==
    ASSUME Typed, Data, Appendable, NEW c \in Unresolved, wire[c] = 0, book[c] # "live",
           RecordTerminal(c, jslice[c], fill[c]),
           UNCHANGED <<wire, asked, book, quota, fill, position>>
    PROVE  /\ Data' /\ Appendable' /\ Unresolved' = {} /\ jtotal' = jtotal + fill[c]
  <1>1. /\ c \in Cloids /\ jstate[c] \in {"prepared", "submittedUnknown", "acknowledged"}
        /\ jfill[c] = 0 /\ fill[c] <= jsize[c] /\ fill[c] \in Nat /\ jtotal \in Int
    BY DEF Unresolved, Data, OrdersOK, OrderOK, Typed, JournalTypeOK, ExchangeTypeOK, CloidState
  <1>2. /\ jstate' = [jstate EXCEPT ![c] = "terminal"]
        /\ jfill' = [jfill EXCEPT ![c] = fill[c]]
        /\ jtotal' = jtotal + fill[c]
        /\ UNCHANGED <<valid, header, jslice, jsize, report, unknowns, abandoned>>
    BY <1>1 DEF RecordTerminal, Allowed
  <1>3. Unresolved = {c} /\ Unresolved' = {}
    BY <1>1, <1>2 DEF Unresolved, Data, LedgerOK, Typed, JournalTypeOK
  <1>4. OrdersOK'
    <2> SUFFICES ASSUME NEW d \in Cloids PROVE OrderOK(d)'
      BY DEF OrdersOK
    <2>1. jsize' = jsize /\ jfill \in [Cloids -> Nat] /\ jstate \in [Cloids -> CloidState]
      BY <1>2 DEF Typed, JournalTypeOK
    <2>2. CASE d = c
      BY <1>1, <1>2, <2>1, <2>2 DEF Data, OrdersOK, OrderOK
    <2>3. CASE d # c
      BY <1>1, <1>2, <2>1, <2>3 DEF Data, OrdersOK, OrderOK
    <2> QED BY <2>2, <2>3
  <1>5. LedgerOK'
    <2>1. jtotal + jsize[c] <= Total /\ position = jtotal + fill[c] /\ jsize[c] \in Nat
      BY <1>1 DEF Data, LedgerOK, Typed, JournalTypeOK
    <2>2. jtotal' <= Total /\ position' = jtotal'
      BY <1>1, <1>2, <2>1, PlanTyped
    <2> QED BY <1>3, <2>2 DEF LedgerOK
  <1> QED BY <1>2, <1>3, <1>4, <1>5 DEF Data, Appendable

(* A report with the journal's own total and unresolved cloids is always   *)
(* accepted, as completed when there are none of them.                     *)
LEMMA ReportData ==
    ASSUME Typed, Data, Appendable, NEW b \in BOOLEAN, b => Unresolved = {},
           RecordFinalReport(b, jtotal, Unresolved), UNCHANGED xvars
    PROVE  /\ Data' /\ valid' /\ header' /\ ~abandoned'
           /\ Unresolved' = Unresolved /\ unknowns' = Unresolved /\ jtotal' = jtotal
           /\ report' = (IF b THEN "completed" ELSE "incomplete")
  <1>1. /\ report' = (IF b THEN "completed" ELSE "incomplete") /\ unknowns' = Unresolved
        /\ UNCHANGED <<valid, header, jstate, jslice, jsize, jfill, jtotal, abandoned>>
    BY DEF RecordFinalReport
  <1>2. Unresolved' = Unresolved
    BY <1>1 DEF Unresolved
  <1>3. OrdersOK'
    BY <1>1 DEF Data, OrdersOK, OrderOK, xvars
  <1>4. LedgerOK'
    BY <1>1, <1>2 DEF Data, LedgerOK, xvars
  <1> QED BY <1>1, <1>2, <1>3, <1>4 DEF Data, Appendable

(* An abandoned run has nothing unresolved. *)
LEMMA AbandonedData ==
    ASSUME Typed, Data, Appendable, Unresolved = {}, RecordAbandoned, UNCHANGED xvars
    PROVE  /\ Data' /\ valid' /\ header' /\ report' # "completed"
           /\ Unresolved' = {} /\ jtotal' = jtotal
  <1>1. /\ abandoned' = TRUE
        /\ UNCHANGED <<valid, header, jstate, jslice, jsize, jfill, jtotal, report, unknowns>>
    BY DEF RecordAbandoned
  <1>2. Unresolved' = Unresolved
    BY <1>1 DEF Unresolved
  <1>3. OrdersOK'
    BY <1>1 DEF Data, OrdersOK, OrderOK, xvars
  <1>4. LedgerOK'
    BY <1>1, <1>2 DEF Data, LedgerOK, xvars
  <1> QED BY <1>1, <1>2, <1>3, <1>4 DEF Data, Appendable

-----------------------------------------------------------------------------
(* The process. *)

(* The journal replays, and is open for records wherever a process runs. *)
ClosedOK ==
    /\ valid
    /\ ~header => jtotal = 0 /\ report = "none" /\ ~abandoned /\ Unresolved = {} /\ pc = "off"
    /\ report = "completed" \/ abandoned => pc = "off" /\ Unresolved = {}
    /\ report = "completed" => unknowns = {}

(* Where a reconciling process, and the loop, may be. *)
ReconcileLabels == {"rcNext", "rcProbe", "rcFail", "poll", "settle", "settlePoll", "ledger"}
ExecLabels == Labels \ {"off", "rcNext", "rcProbe", "rcFail"}

(* Which code runs in which process, and who asked for it. *)
FlowOK ==
    /\ mode = "none" <=> pc = "off"
    /\ mode = "exec" => pc \in ExecLabels
    /\ mode \in {"resume", "abandon"} => pc \in ReconcileLabels /\ resting = NoCloid
    /\ pc \in OrderLabels <=> ctx # "none"
    /\ ctx = "reconcile" => mode # "exec"
    /\ ctx \in {"place", "boundary", "follow", "cleanup"} => mode = "exec"
    /\ pc \in {"commit", "sent", "aloProbe", "aloCancel"} => ctx = "place"
    /\ pc = "rcProbe" => ctx = "reconcile"
    /\ pc = "poll" => ctx \in {"place", "reconcile"}
    /\ abort => pc \in {"cleanup", "final", "rcFail"} \/ ctx = "cleanup"

(* The one order a process knows of is the one the journal has open.  Only *)
(* a run that is about to stop may have lost sight of it.                  *)
HeldOK ==
    /\ pc \in OrderLabels => cur \in Unresolved
    /\ pc \in OrderLabels \cup {"off", "slice", "quote", "idle", "final"} => resting = NoCloid
    /\ resting # NoCloid => resting \in Unresolved
    /\ mode = "exec" /\ ~abort /\ pc \notin OrderLabels /\ resting = NoCloid => Unresolved = {}
    /\ ctx \in {"place", "follow"} => jslice[cur] = k
    /\ pc = "rest" /\ resting # NoCloid => jslice[resting] = k

(* Nothing is out when a request is about to be sent, SubmittedUnknown is  *)
(* written once, and each unknownOid of a streak uses up some of the lag.  *)
SentOK ==
    /\ pc = "commit" => wire[cur] = 0 /\ book[cur] = "absent"
    /\ pc \in {"commit", "sent"} =>
          jstate[cur] = (IF suRec THEN "submittedUnknown" ELSE "prepared")
    /\ pc = "poll" /\ ctx = "place" => suRec /\ jstate[cur] = "submittedUnknown"
    /\ pc = "rcProbe" => streak = 0
    /\ pc = "poll" => lag[cur] = 0 \/ lag[cur] + streak <= Lag

(* The plan in force is for what the journal leaves of the total, and no   *)
(* slice is due for more than it.                                          *)
PlanOK ==
    /\ mode = "exec" /\ ~abort => (Total - target) + filled = jtotal
    /\ mode = "exec" => \A i \in Nat : i < nsl => PerSlice * i <= target

(* The inductive invariant: types, both sides of every order, the books,   *)
(* the journal, the control flow, the order in hand and the plan.          *)
RunInv == Typed /\ Data /\ ClosedOK /\ FlowOK /\ HeldOK /\ SentOK /\ PlanOK

(* Where a process runs, records are accepted, *)
LEMMA RunningAppendable ==
    ASSUME RunInv, pc # "off"
    PROVE  Appendable
  BY DEF RunInv, ClosedOK, Appendable, Typed, JournalTypeOK

(* and as long as they are the journal is as it should be. *)
LEMMA AppendableClosed ==
    ASSUME Appendable'
    PROVE  ClosedOK'
  BY DEF Appendable, ClosedOK

(* The end of a process leaves nothing to say about it. *)
LEMMA ExitFlow ==
    ASSUME Exit
    PROVE  FlowOK' /\ HeldOK' /\ SentOK' /\ PlanOK'
  <1>1. /\ pc' = "off" /\ mode' = "none" /\ ctx' = "none" /\ resting' = NoCloid /\ abort' = FALSE
    BY DEF Exit, Process, Return, Call
  <1>2. FlowOK'
    BY <1>1 DEF FlowOK, OrderLabels
  <1>3. HeldOK'
    BY <1>1 DEF HeldOK, OrderLabels
  <1>4. SentOK' /\ PlanOK'
    BY <1>1 DEF SentOK, PlanOK
  <1> QED BY <1>2, <1>3, <1>4

(* A call that fails ends in a run that stops. *)
LEMMA FailFlow ==
    ASSUME RunInv, pc \in OrderLabels, Fail, jtotal' \in Int
    PROVE  FlowOK' /\ HeldOK' /\ SentOK' /\ PlanOK'
  <1>1. /\ ctx' = "none" /\ abort' = TRUE /\ UNCHANGED <<mode, k, nsl, target, filled, resting>>
        /\ pc' = (IF ctx = "reconcile" THEN "rcFail" ELSE IF ctx = "cleanup" THEN "final"
                  ELSE "cleanup")
    BY DEF Fail, Return, Call
  <1>2. resting = NoCloid /\ ctx # "none" /\ mode # "none"
    BY DEF RunInv, HeldOK, FlowOK, OrderLabels
  <1>3. FlowOK'
    BY <1>1, <1>2 DEF RunInv, FlowOK, OrderLabels, ReconcileLabels, ExecLabels, Labels,
                      Typed, ProcTypeOK, Contexts, Modes
  <1>4. HeldOK'
    BY <1>1, <1>2 DEF HeldOK, OrderLabels
  <1>5. SentOK' /\ PlanOK'
    BY <1>1 DEF SentOK, PlanOK, RunInv
  <1> QED BY <1>3, <1>4, <1>5

(* An order closed at what it traded: the caller goes on, or fails. *)
LEMMA SettledRun ==
    ASSUME RunInv, pc \in OrderLabels, NEW f \in Nat, f = fill[cur],
           wire[cur] = 0, book[cur] # "live", Settled(f),
           UNCHANGED <<wire, asked, book, quota, fill, position, expired>>, ExchangeTypeOK'
    PROVE  RunInv'
  <1>1. cur \in Unresolved /\ cur \in Cloids /\ pc # "off"
    BY DEF RunInv, HeldOK, OrderLabels, Unresolved
  <1>2. SliceIdx = jslice[cur]
    BY DEF RunInv, HeldOK, FlowOK, SliceIdx, Typed, ProcTypeOK, Contexts
  <1>3. Data' /\ Appendable' /\ Unresolved' = {} /\ jtotal' = jtotal + f
    BY <1>1, <1>2, RunningAppendable, TerminalData DEF RunInv, Settled
  <1>4. JournalTypeOK' /\ ProcTypeOK'
    BY <1>1, SettledTyped DEF RunInv, Typed
  <1>5. Typed' /\ ClosedOK'
    BY <1>3, <1>4, AppendableClosed DEF Typed
  <1>6. CASE Fail
    <2>1. FlowOK' /\ HeldOK' /\ SentOK' /\ PlanOK'
      BY <1>6, <1>4, FailFlow DEF JournalTypeOK
    <2> QED BY <1>3, <1>5, <2>1 DEF RunInv
  <1>7. CASE ~Fail
    <2>1. PICK p \in Continue(filled + f) : Return(p)
      BY <1>7 DEF Settled
    <2>2. /\ filled' = (IF ctx = "reconcile" THEN filled ELSE filled + f)
          /\ UNCHANGED <<mode, k, nsl, target, resting, abort, shutdown>>
      BY <1>7 DEF Settled
    <2>3. resting = NoCloid /\ ctx # "none" /\ mode # "none"
      BY DEF RunInv, HeldOK, FlowOK, OrderLabels
    <2>4. pc' = p /\ ctx' = "none" /\ cur' = NoCloid
      BY <2>1 DEF Return, Call
    <2>5. /\ ctx = "reconcile" => p = "rcNext"
          /\ ctx = "cleanup" => p = "final"
          /\ p \in {"rest", "quote", "slice", "final", "rcNext", "after"}
          /\ p = "final" => ctx = "cleanup"
          /\ p = "rcNext" => ctx = "reconcile"
      BY DEF Continue, AfterPlace
    <2>6. FlowOK'
      BY <2>2, <2>3, <2>4, <2>5 DEF RunInv, FlowOK, OrderLabels, ReconcileLabels, ExecLabels, Labels,
                      Typed, ProcTypeOK, Contexts, Modes
    <2>7. HeldOK'
      BY <1>3, <2>2, <2>3, <2>4, <2>5 DEF HeldOK, OrderLabels
    <2>8. SentOK'
      BY <2>4, <2>5 DEF SentOK
    <2>9. PlanOK'
      BY <1>3, <2>2, PlanTyped DEF PlanOK, RunInv, FlowOK, Typed, ProcTypeOK, JournalTypeOK
    <2> QED BY <1>3, <1>5, <2>6, <2>7, <2>8, <2>9 DEF RunInv
  <1> QED BY <1>6, <1>7

(* An order closed as never sent, at nothing, stops the run. *)
LEMMA ClosedUnsentRun ==
    ASSUME RunInv, pc \in OrderLabels, ctx = "place",
           wire[cur] = 0, book[cur] = "absent", ClosedUnsent,
           UNCHANGED <<wire, asked, book, quota, fill, position, expired>>, ExchangeTypeOK'
    PROVE  RunInv'
  <1>1. cur \in Unresolved /\ cur \in Cloids /\ pc # "off" /\ jslice[cur] = k
    BY DEF RunInv, HeldOK, OrderLabels, Unresolved
  <1>2. fill[cur] = 0
    BY <1>1 DEF RunInv, Data, OrdersOK, OrderOK, Typed, ExchangeTypeOK
  <1>3. Data' /\ Appendable' /\ Unresolved' = {} /\ jtotal' = jtotal + 0
    BY <1>1, <1>2, RunningAppendable, TerminalData DEF RunInv, ClosedUnsent
  <1>4. Typed' /\ ClosedOK'
    BY <1>1, <1>3, ClosedUnsentTyped, AppendableClosed DEF RunInv, Typed
  <1>5. /\ pc' = "cleanup" /\ abort' = TRUE /\ ctx' = "none"
        /\ UNCHANGED <<mode, k, nsl, target, filled, resting>>
    BY DEF ClosedUnsent, Return, Call
  <1>6. resting = NoCloid /\ mode = "exec"
    BY DEF RunInv, HeldOK, FlowOK
  <1>7. FlowOK'
    BY <1>5, <1>6 DEF FlowOK, OrderLabels, ReconcileLabels, ExecLabels, Labels
  <1>8. HeldOK' /\ SentOK'
    BY <1>3, <1>5, <1>6 DEF HeldOK, SentOK, OrderLabels
  <1>9. PlanOK'
    BY <1>5 DEF PlanOK, RunInv
  <1> QED BY <1>3, <1>4, <1>7, <1>8, <1>9 DEF RunInv

-----------------------------------------------------------------------------
(* One lemma per group of actions: the invariant is kept. *)

(* A step that writes no record and trades nothing. *)
LEMMA QuietData ==
    ASSUME RunInv, pc # "off", UNCHANGED <<wire, asked, book, quota, fill, position>>,
           UNCHANGED jvars
    PROVE  /\ Data' /\ ClosedOK' /\ Unresolved' = Unresolved
           /\ UNCHANGED <<jslice, jstate, jtotal, jsize>>
  <1>1. Appendable' /\ Unresolved' = Unresolved
    BY RunningAppendable DEF Appendable, Unresolved, jvars
  <1> QED BY <1>1, DataUntouched, AppendableClosed DEF RunInv, jvars

(* What a process that only reports leaves behind. *)
LEMMA ReportRun ==
    ASSUME RunInv, pc # "off", NEW b \in BOOLEAN, b => Unresolved = {},
           RecordFinalReport(b, jtotal, Unresolved) \/ UNCHANGED jvars, Exit, UNCHANGED xvars
    PROVE  RunInv'
  <1>1. FlowOK' /\ HeldOK' /\ SentOK' /\ PlanOK'
    BY ExitFlow
  <1>2. Typed'
    BY ReportTyped, JournalUntouched, ExchangeUntouched, ExitTyped DEF RunInv, Typed
  <1>3. Data' /\ ClosedOK'
    <2>1. CASE UNCHANGED jvars
      BY <2>1, QuietData DEF xvars
    <2>2. CASE RecordFinalReport(b, jtotal, Unresolved)
      <3>1. pc' = "off"
        BY DEF Exit, Process, Return, Call
      <3> QED BY <2>2, <3>1, RunningAppendable, ReportData DEF RunInv, ClosedOK
    <2> QED BY <2>1, <2>2
  <1> QED BY <1>1, <1>2, <1>3 DEF RunInv

(* A continuation at the original slice size stays within the remainder. *)
LEMMA ContinuationFits ==
    ASSUME NEW r \in Nat, NEW per \in Nat, per # 0, NEW i \in Nat,
           i < ContinuationSlices(r, per)
    PROVE  per * i <= r
  <1> DEFINE whole == r \div per
  <1>1. whole \in Nat /\ per * whole <= r
    OBVIOUS
  <1>2. whole * per = per * whole
    BY <1>1
  <1>3. i <= whole
    BY <1>1, <1>2 DEF ContinuationSlices
  <1>4. per * i <= per * whole
    BY <1>1, <1>3
  <1> QED BY <1>1, <1>4

(* The reconciliation of an incomplete run and what follows it keep the    *)
(* invariant.                                                              *)
LEMMA ReconcileRun ==
    ASSUME RunInv, Reconcile
    PROVE  RunInv'
  <1>0. Typed' /\ pc # "off"
    BY ReconcileTyped DEF RunInv, Reconcile, ReconcileNext, ReconcileProbe, ReconcileFailed,
       AbandonRun, Reconciled, ResumeExpired, ResumeRefused, ResumeSatisfied,
       ResumeBelowMinNotional, ResumeContinue
  <1>1. ASSUME NEW c \in Cloids, ReconcileNext(c) PROVE RunInv'
    <2>1. Data' /\ ClosedOK' /\ Unresolved' = Unresolved
      BY <1>0, <1>1, QuietData DEF ReconcileNext, Offline, xvars
    <2>2. /\ pc = "rcNext" /\ pc' = "rcProbe" /\ cur' = c /\ ctx' = "reconcile" /\ streak' = 0
          /\ c \in Unresolved /\ UNCHANGED <<mode, k, nsl, target, filled, resting, abort>>
      BY <1>1 DEF ReconcileNext, Call, loopvars
    <2>3. mode \in {"resume", "abandon"} /\ resting = NoCloid /\ ~abort
      BY <2>2 DEF RunInv, FlowOK, ExecLabels, OrderLabels, Typed, ProcTypeOK, Modes
    <2>4. FlowOK'
      BY <2>2, <2>3 DEF FlowOK, OrderLabels, ReconcileLabels
    <2>5. HeldOK' /\ SentOK' /\ PlanOK'
      BY <2>1, <2>2, <2>3 DEF HeldOK, SentOK, PlanOK, OrderLabels
    <2> QED BY <1>0, <2>1, <2>4, <2>5 DEF RunInv
  <1>2. ASSUME NEW a, ReconcileProbe(a) PROVE RunInv'
    <2>1. Data' /\ ClosedOK' /\ Unresolved' = Unresolved
      BY <1>0, <1>2, QuietData DEF ReconcileProbe, OrderStatus
    <2>2. /\ pc = "rcProbe" /\ pc' \in {"settle", "poll"}
          /\ UNCHANGED <<mode, k, nsl, target, filled, resting, abort, cur, ctx, streak>>
      BY <1>2 DEF ReconcileProbe, Goto, loopvars, callvars
    <2>3. ctx = "reconcile" /\ mode \in {"resume", "abandon"} /\ resting = NoCloid /\ ~abort
          /\ cur \in Unresolved /\ streak = 0
      BY <2>2 DEF RunInv, FlowOK, HeldOK, SentOK, ExecLabels, OrderLabels, Typed, ProcTypeOK, Modes
    <2>4. FlowOK'
      BY <2>2, <2>3 DEF FlowOK, OrderLabels, ReconcileLabels
    <2>5. HeldOK' /\ PlanOK'
      BY <2>1, <2>2, <2>3 DEF HeldOK, PlanOK, OrderLabels
    <2>6. SentOK'
      <3>1. lag'[cur] \in 0..Lag
        BY <1>0, <2>3 DEF Typed, ExchangeTypeOK, Unresolved
      <3> QED BY <2>2, <2>3, <3>1, LagNat DEF SentOK
    <2> QED BY <1>0, <2>1, <2>4, <2>5, <2>6 DEF RunInv
  <1>3. CASE ReconcileFailed
    BY <1>0, <1>3, ReportRun DEF ReconcileFailed
  <1>4. CASE AbandonRun
    <2>1. Data' /\ ClosedOK'
      <3>1. pc' = "off"
        BY <1>4 DEF AbandonRun, Exit, Process, Return, Call
      <3> QED BY <1>0, <1>4, <3>1, RunningAppendable, AbandonedData
              DEF RunInv, AbandonRun, Reconciled, ClosedOK
    <2> QED BY <1>0, <1>4, <2>1, ExitFlow DEF RunInv, AbandonRun
  <1>5. CASE ResumeExpired
    <2>1. \/ RecordFinalReport(TRUE, jtotal, Unresolved)
          \/ RecordFinalReport(FALSE, jtotal, Unresolved)
      BY <1>5 DEF ResumeExpired, RecordFinalReport
    <2> QED BY <1>0, <1>5, <2>1, ReportRun DEF ResumeExpired, Reconciled
  <1>6. CASE ResumeRefused
    BY <1>0, <1>6, ReportRun DEF ResumeRefused
  <1>7. CASE ResumeSatisfied
    BY <1>0, <1>7, ReportRun DEF ResumeSatisfied, Reconciled
  <1>8. ASSUME NEW mid \in Prices, ResumeBelowMinNotional(mid) PROVE RunInv'
    BY <1>0, <1>8, ReportRun DEF ResumeBelowMinNotional, Reconciled
  <1>9. ASSUME NEW mid \in Prices, ResumeContinue(mid) PROVE RunInv'
    <2>1. Data' /\ ClosedOK' /\ Unresolved' = Unresolved /\ jtotal' = jtotal
      BY <1>0, <1>9, QuietData DEF ResumeContinue, Offline, xvars
    <2>2. /\ Unresolved = {} /\ Total - jtotal > 0
          /\ pc' = "loop" /\ mode' = "exec" /\ ctx' = "none" /\ abort' = FALSE
          /\ resting' = NoCloid /\ filled' = 0 /\ target' = Total - jtotal
          /\ nsl' = ContinuationSlices(Total - jtotal, PerSlice)
      BY <1>9 DEF ResumeContinue, Reconciled, Process, Return, Call
    <2>3. FlowOK'
      BY <2>2 DEF FlowOK, OrderLabels, ExecLabels, Labels
    <2>4. HeldOK' /\ SentOK'
      BY <2>1, <2>2 DEF HeldOK, SentOK, OrderLabels
    <2>5. PlanOK'
      <3>1. Total - jtotal \in Nat /\ jtotal \in Int
        BY <2>2, PlanTyped DEF RunInv, Typed, JournalTypeOK
      <3>2. \A i \in Nat : i < nsl' => PerSlice * i <= target'
        BY <2>2, <3>1, PlanTyped, PerSlicePositive, ContinuationFits
      <3>3. (Total - target') + filled' = jtotal'
        BY <2>1, <2>2, <3>1, PlanTyped
      <3>4. PerSlice' = PerSlice /\ Total' = Total
        BY DEF PerSlice, Total
      <3> QED BY <3>2, <3>3, <3>4 DEF PlanOK
    <2> QED BY <1>0, <2>1, <2>3, <2>4, <2>5 DEF RunInv
  <1> QED
    BY <1>1, <1>2, <1>3, <1>4, <1>5, <1>6, <1>7, <1>8, <1>9 DEF Reconcile

(* A slice orders something, and no more than the plan has left. *)
LEMMA SliceFits ==
    ASSUME RunInv, mode = "exec", ~abort, NEW px \in Prices, Decision(px) = "Place"
    PROVE  LET s == SliceOrderSize(k, nsl, PerSlice, target, filled)
           IN  s \in Nat /\ s > 0 /\ jtotal + s <= Total
  <1> DEFINE s == SliceOrderSize(k, nsl, PerSlice, target, filled)
  <1>1. s \in Nat /\ s # 0
    BY OrderSizeTyped DEF RunInv, Typed, TypeOK, ProcTypeOK, Decision, SliceDecision
  <1>2. /\ k \in Nat /\ nsl \in Nat /\ target \in Nat /\ filled \in Nat /\ jtotal \in Int
        /\ PerSlice \in Nat /\ Total \in Nat
    BY PlanTyped DEF RunInv, Typed, ProcTypeOK, JournalTypeOK
  <1>3. TargetAtSlice(k, nsl, PerSlice, target) <= target
    BY <1>2 DEF TargetAtSlice, RunInv, PlanOK
  <1>4. TargetAtSlice(k, nsl, PerSlice, target) \in Int
    BY <1>2 DEF TargetAtSlice
  <1>5. s <= target - filled
    BY <1>1, <1>2, <1>3, <1>4 DEF SliceOrderSize
  <1>6. (Total - target) + filled = jtotal
    BY DEF RunInv, PlanOK
  <1>7. jtotal + s <= Total
    BY <1>1, <1>2, <1>5, <1>6
  <1> QED BY <1>1, <1>7

(* So does the slice loop, *)
LEMMA LoopRun ==
    ASSUME RunInv, Loop
    PROVE  RunInv'
  <1>0. Typed' /\ pc \in {"loop", "slice", "quote", "after", "cleanup", "final"}
    BY LoopTyped DEF RunInv, Loop, LoopDone, LoopShutdown, SettleBoundary, EnterSlice,
       SliceRefused, SliceSkipped, FollowPauses, Prepare, TargetReached, AfterShutdown,
       NextSlice, Cleanup, Finalize
  <1>a. mode = "exec" /\ ctx = "none" /\ pc # "off"
    BY <1>0 DEF RunInv, FlowOK, OrderLabels, ReconcileLabels, Typed, ProcTypeOK, Modes
  <1>b. ASSUME Offline
        PROVE  /\ Data' /\ ClosedOK' /\ Unresolved' = Unresolved
               /\ UNCHANGED <<jslice, jtotal>>
    BY <1>a, <1>b, QuietData DEF Offline, xvars
  <1>c. PerSlice' = PerSlice /\ Total' = Total
    BY DEF PerSlice, Total
  <1>1. CASE LoopDone \/ EnterSlice \/ TargetReached \/ NextSlice
             \/ (\E px \in Prices : SliceSkipped(px) \/ FollowPauses(px))
    <2>1. /\ Offline /\ pc' \in {"cleanup", "slice", "loop", "idle"}
          /\ pc' = "slice" => resting = NoCloid
          /\ pc' = "idle" => pc = "quote"
          /\ pc \in {"loop", "slice", "quote", "after"}
          /\ UNCHANGED <<mode, nsl, target, filled, resting, abort, ctx>>
      BY <1>1 DEF LoopDone, EnterSlice, TargetReached, NextSlice, SliceSkipped, FollowPauses,
                  Goto, loopvars, callvars
    <2>2. Data' /\ ClosedOK' /\ Unresolved' = Unresolved /\ jtotal' = jtotal
      BY <1>b, <2>1
    <2>3. FlowOK'
      BY <1>a, <2>1 DEF RunInv, FlowOK, OrderLabels, ExecLabels, Labels
    <2>4. HeldOK' /\ SentOK'
      BY <1>a, <2>1, <2>2 DEF RunInv, HeldOK, SentOK, OrderLabels
    <2>5. PlanOK'
      BY <1>c, <2>1, <2>2 DEF RunInv, PlanOK
    <2> QED BY <1>0, <2>2, <2>3, <2>4, <2>5 DEF RunInv
  <1>2. CASE LoopShutdown \/ SliceRefused \/ AfterShutdown
    <2>1. /\ Offline /\ pc' = "cleanup" /\ abort' = TRUE
          /\ UNCHANGED <<mode, nsl, target, filled, resting, ctx>>
      BY <1>2 DEF LoopShutdown, SliceRefused, AfterShutdown, Break, callvars
    <2>2. Data' /\ ClosedOK' /\ Unresolved' = Unresolved /\ jtotal' = jtotal
      BY <1>b, <2>1
    <2>3. FlowOK'
      BY <1>a, <2>1 DEF RunInv, FlowOK, OrderLabels, ExecLabels, Labels
    <2>4. HeldOK' /\ SentOK'
      BY <1>a, <2>1, <2>2 DEF RunInv, HeldOK, SentOK, OrderLabels
    <2>5. PlanOK'
      BY <1>c, <2>1, <2>2 DEF RunInv, PlanOK
    <2> QED BY <1>0, <2>2, <2>3, <2>4, <2>5 DEF RunInv
  <1>3. CASE SettleBoundary \/ (Cleanup /\ resting # NoCloid)
    <2>1. /\ Offline /\ pc' = "settle" /\ cur' = resting /\ resting' = NoCloid
          /\ resting # NoCloid
          /\ \/ ctx' = "boundary" /\ pc = "loop"
             \/ ctx' = "cleanup"
          /\ UNCHANGED <<mode, nsl, target, filled, abort>>
      BY <1>3 DEF SettleBoundary, Cleanup, Call
    <2>2. Data' /\ ClosedOK' /\ Unresolved' = Unresolved /\ jtotal' = jtotal
      BY <1>b, <2>1
    <2>3. FlowOK'
      BY <1>a, <2>1 DEF RunInv, FlowOK, OrderLabels, ExecLabels, Labels
    <2>4. HeldOK' /\ SentOK'
      BY <1>a, <2>1, <2>2 DEF RunInv, HeldOK, SentOK, OrderLabels
    <2>5. PlanOK'
      BY <1>c, <2>1, <2>2 DEF RunInv, PlanOK
    <2> QED BY <1>0, <2>2, <2>3, <2>4, <2>5 DEF RunInv
  <1>4. CASE Cleanup /\ resting = NoCloid
    <2>1. /\ Offline /\ pc' = "final" /\ pc = "cleanup"
          /\ UNCHANGED <<mode, nsl, target, filled, abort, resting, ctx>>
      BY <1>4 DEF Cleanup, Goto, loopvars, callvars
    <2>2. Data' /\ ClosedOK' /\ Unresolved' = Unresolved /\ jtotal' = jtotal
      BY <1>b, <2>1
    <2>3. FlowOK'
      BY <1>a, <2>1 DEF RunInv, FlowOK, OrderLabels, ExecLabels, Labels
    <2>4. HeldOK' /\ SentOK'
      BY <1>a, <1>4, <2>1, <2>2 DEF RunInv, HeldOK, SentOK, OrderLabels
    <2>5. PlanOK'
      BY <1>c, <2>1, <2>2 DEF RunInv, PlanOK
    <2> QED BY <1>0, <2>2, <2>3, <2>4, <2>5 DEF RunInv
  <1>5. ASSUME NEW px \in Prices, NEW c \in Cloids, Prepare(c, px) PROVE RunInv'
    <2> DEFINE s == SliceOrderSize(k, nsl, PerSlice, target, filled)
    <2>1. pc \in {"slice", "quote"} /\ Decision(px) = "Place" /\ jstate[c] = "absent"
      BY <1>5 DEF Prepare
    <2>2. ~abort /\ resting = NoCloid
      BY <1>a, <2>1 DEF RunInv, FlowOK, HeldOK
    <2>3. Unresolved = {}
      BY <1>a, <2>1, <2>2 DEF RunInv, HeldOK, OrderLabels
    <2>4. s \in Nat /\ s > 0 /\ jtotal + s <= Total
      BY <1>a, <2>1, <2>2, SliceFits
    <2>5. /\ Data' /\ Appendable' /\ Unresolved' = {c}
          /\ jstate'[c] = "prepared" /\ jslice'[c] = k /\ jtotal' = jtotal
      <3>1. k \in Nat /\ RecordPrepared(c, k, s) /\ UNCHANGED xvars
        BY <1>5 DEF Prepare, RunInv, Typed, ProcTypeOK
      <3> QED BY <1>a, <2>1, <2>3, <2>4, <3>1, RunningAppendable, PreparedData DEF RunInv
    <2>6. ClosedOK'
      BY <2>5, AppendableClosed
    <2>7. wire'[c] = 0 /\ book'[c] = "absent"
      BY <1>5, <2>1 DEF Prepare, xvars, RunInv, Data, OrdersOK, OrderOK
    <2>8. CASE Call(c, "place", "commit") /\ UNCHANGED <<loopvars, shutdown>>
      <3>1. /\ pc' = "commit" /\ cur' = c /\ ctx' = "place" /\ suRec' = FALSE
            /\ UNCHANGED <<mode, k, nsl, target, filled, resting, abort>>
        BY <2>8 DEF Call, loopvars
      <3>2. FlowOK'
        BY <1>a, <2>2, <3>1 DEF FlowOK, OrderLabels, ExecLabels, Labels
      <3>3. HeldOK' /\ SentOK'
        BY <2>2, <2>5, <2>7, <3>1 DEF HeldOK, SentOK, OrderLabels
      <3>4. PlanOK'
        BY <1>c, <2>5, <3>1 DEF RunInv, PlanOK
      <3> QED BY <1>0, <2>5, <2>6, <3>2, <3>3, <3>4 DEF RunInv
    <2>9. CASE Break
      <3>1. /\ pc' = "cleanup" /\ abort' = TRUE
            /\ UNCHANGED <<mode, nsl, target, filled, resting, ctx>>
        BY <2>9 DEF Break, callvars
      <3>2. FlowOK'
        BY <1>a, <3>1 DEF FlowOK, OrderLabels, ExecLabels, Labels
      <3>3. HeldOK' /\ SentOK'
        BY <1>a, <2>2, <3>1 DEF HeldOK, SentOK, OrderLabels
      <3>4. PlanOK'
        BY <1>c, <3>1 DEF RunInv, PlanOK
      <3> QED BY <1>0, <2>5, <2>6, <3>2, <3>3, <3>4 DEF RunInv
    <2> QED BY <1>5, <2>8, <2>9 DEF Prepare
  <1>6. CASE Finalize
    <2>1. ~abort => Unresolved = {}
      BY <1>a, <1>6 DEF Finalize, RunInv, HeldOK, OrderLabels
    <2>2. \/ RecordFinalReport(TRUE, jtotal, Unresolved) /\ ~abort
          \/ RecordFinalReport(FALSE, jtotal, Unresolved)
          \/ UNCHANGED jvars
      BY <1>6 DEF Finalize, RecordFinalReport
    <2> QED BY <1>a, <1>6, <2>1, <2>2, ReportRun DEF Finalize
  <1> QED
    BY <1>1, <1>2, <1>3, <1>4, <1>5, <1>6 DEF Loop

(* An order with a terminal status has no request under way, *)
LEMMA TerminalAnswer ==
    ASSUME RunInv, pc \in OrderLabels, OrderStatus(cur, "terminal")
    PROVE  /\ wire[cur] = 0 /\ book[cur] # "live" /\ fill[cur] \in Nat
           /\ UNCHANGED <<wire, asked, book, quota, fill, position, expired>>
           /\ ExchangeTypeOK'
  <1>1. cur \in Cloids
    BY DEF RunInv, HeldOK, Unresolved
  <1>2. book[cur] = "done"
    BY DEF OrderStatus, Index
  <1> QED BY <1>1, <1>2, CallsTyped
          DEF OrderStatus, RunInv, Data, OrdersOK, OrderOK, Typed, ExchangeTypeOK

(* and one that is unknown to an index that has caught up does not exist. *)
LEMMA AbsentAnswer ==
    ASSUME RunInv, NEW x, Absent(x), Lag < MinConsecutive
    PROVE  /\ wire[cur] = 0 /\ book[cur] = "absent" /\ fill[cur] = 0
           /\ UNCHANGED <<wire, asked, book, quota, fill, position, expired>>
           /\ ExchangeTypeOK'
  <1>1. pc = "poll" /\ cur \in Cloids /\ cur \in Unresolved
    BY DEF RunInv, HeldOK, Unresolved, Absent, OrderLabels
  <1>2. lag[cur] = 0
    <2>1. lag[cur] \in Nat /\ streak \in Nat /\ streak + 1 >= MinConsecutive
      BY <1>1, LagNat DEF Absent, RunInv, Typed, ExchangeTypeOK, ProcTypeOK
    <2>2. lag[cur] = 0 \/ lag[cur] + streak <= Lag
      BY <1>1 DEF RunInv, SentOK
    <2> QED BY <2>1, <2>2, LagNat, LimitsPositive
  <1>3. wire[cur] = 0 /\ book[cur] = "absent"
    BY <1>2 DEF Absent, OrderStatus, Index
  <1>4. fill[cur] = 0
    BY <1>1, <1>3 DEF RunInv, Data, OrdersOK, OrderOK, Typed, ExchangeTypeOK
  <1> QED BY <1>1, <1>3, <1>4, CallsTyped DEF Absent, OrderStatus, RunInv, Typed

(* A step inside a call that stays with its order: the control variables   *)
(* that the invariant speaks of do not move.                               *)
LEMMA StaysInCall ==
    ASSUME RunInv, pc \in OrderLabels, Typed', Data', ClosedOK', SentOK',
           Unresolved' = Unresolved, UNCHANGED <<jslice, jtotal>>,
           UNCHANGED <<mode, k, nsl, target, filled, resting, abort, cur, ctx>>,
           pc' \in OrderLabels \ {"rcProbe"},
           pc' \in {"commit", "sent", "aloProbe", "aloCancel"} => ctx = "place",
           pc' = "poll" => ctx \in {"place", "reconcile"}
    PROVE  RunInv'
  <1>0. ctx # "none" /\ mode # "none"
    BY DEF RunInv, FlowOK, OrderLabels
  <1>1. FlowOK'
    BY <1>0 DEF RunInv, FlowOK, OrderLabels, ReconcileLabels, ExecLabels, Labels, Contexts,
            Typed, ProcTypeOK, Modes
  <1>2. HeldOK'
    BY DEF RunInv, HeldOK, OrderLabels
  <1>3. PlanOK'
    <2>1. PerSlice' = PerSlice /\ Total' = Total
      BY DEF PerSlice, Total
    <2> QED BY <2>1 DEF RunInv, PlanOK
  <1> QED BY <1>1, <1>2, <1>3 DEF RunInv

(* A failed call keeps the invariant. *)
LEMMA FailRun ==
    ASSUME RunInv, pc \in OrderLabels, Typed', Fail, Data', ClosedOK'
    PROVE  RunInv'
  BY FailFlow DEF RunInv, Typed, JournalTypeOK

(* and the placement of an order: only here does it matter that the code   *)
(* waits for a longer streak of unknownOid than the index can lie.         *)
LEMMA PlaceRun ==
    ASSUME RunInv, Place, Lag < MinConsecutive
    PROVE  RunInv'
  <1>0. Typed' /\ pc \in OrderLabels /\ pc # "off"
    BY PlaceTyped DEF RunInv, Place, CommitExpired, CommitShutdown, Send, AnswerFilled,
       AnswerResting, AnswerRejected, AnswerLost, PollTerminal, PollUnknown, PollInconclusive,
       AbsentReconcile, AbsentShutdown, AbsentGiveUp, AbsentResend, Absent, AloProbeTerminal,
       AloProbeOpen, AloProbeMissed, AloCancel, OrderLabels
  <1>a. /\ cur \in Unresolved /\ cur \in Cloids /\ resting = NoCloid /\ ctx # "none"
        /\ fill[cur] \in Nat
    BY <1>0 DEF RunInv, HeldOK, FlowOK, Unresolved, Typed, ExchangeTypeOK
  <1>b. pc \in {"commit", "sent", "aloProbe", "aloCancel"} =>
           ctx = "place" /\ mode = "exec" /\ ~abort /\ jslice[cur] = k
    BY DEF RunInv, FlowOK, HeldOK
  <1>c. ASSUME NEW a, OrderStatus(cur, a), UNCHANGED jvars
        PROVE  /\ Data' /\ ClosedOK' /\ Unresolved' = Unresolved
               /\ UNCHANGED <<jslice, jstate, jtotal, wire, book>>
    BY <1>0, <1>c, QuietData DEF OrderStatus
  <1>1. CASE CommitExpired
    <2>1. Data' /\ ClosedOK' /\ Fail
      BY <1>0, <1>1, QuietData DEF CommitExpired, Offline, xvars
    <2> QED BY <1>0, <2>1, FailRun
  <1>2. CASE CommitShutdown
    <2>1. wire[cur] = 0 /\ book[cur] = "absent" /\ ctx = "place"
      BY <1>2, <1>b DEF CommitShutdown, RunInv, SentOK
    <2> QED BY <1>0, <1>2, <2>1, ClosedUnsentRun DEF CommitShutdown, xvars, Typed
  <1>3. CASE Send
    <2>1. wire[cur] = 0 /\ book[cur] = "absent" /\ ctx = "place" /\ pc = "commit"
      BY <1>3, <1>b DEF Send, RunInv, SentOK
    <2>2. Data'
      BY <1>3, <1>a, <2>1, SendData DEF Send, RunInv
    <2>3. Appendable' /\ Unresolved' = Unresolved /\ UNCHANGED <<jslice, jstate, jtotal>>
      BY <1>0, <1>3, RunningAppendable DEF Send, Appendable, Unresolved, jvars
    <2>4. pc' = "sent" /\ UNCHANGED <<loopvars, callvars>>
      BY <1>3 DEF Send, Goto
    <2>5. SentOK'
      BY <2>1, <2>3, <2>4 DEF SentOK, RunInv, callvars
    <2> QED BY <1>0, <2>1, <2>2, <2>3, <2>4, <2>5, AppendableClosed, StaysInCall
            DEF loopvars, callvars, OrderLabels
  <1>4. CASE AnswerFilled
    BY <1>0, <1>4, <1>a, SettledRun DEF AnswerFilled, AnsweredFilled, xvars, Typed
  <1>5. CASE AnswerResting
    <2>1. pc = "sent" /\ ctx = "place" /\ jslice[cur] = k /\ mode = "exec" /\ ~abort
      BY <1>5, <1>b DEF AnswerResting
    <2>2. Allowed(jstate[cur], "acknowledged")
      BY <2>1 DEF RunInv, SentOK, Allowed
    <2>3. /\ Data' /\ Appendable' /\ Unresolved' = Unresolved
          /\ UNCHANGED <<jslice, jtotal>>
      BY <1>0, <1>a, <1>5, <2>1, <2>2, RunningAppendable, ProgressData DEF AnswerResting, RunInv
    <2>4. CASE Algo = "market"
      <3>1. /\ pc' = "settle"
            /\ UNCHANGED <<mode, k, nsl, target, filled, resting, abort, cur, ctx>>
        BY <1>5, <2>4 DEF AnswerResting
      <3>2. SentOK'
        BY <3>1 DEF SentOK
      <3> QED BY <1>0, <2>3, <3>1, <3>2, AppendableClosed, StaysInCall DEF OrderLabels
    <2>5. CASE Algo # "market"
      <3>1. /\ pc' = AfterPlace /\ ctx' = "none" /\ resting' = cur
            /\ UNCHANGED <<mode, k, nsl, target, filled, abort>>
        BY <1>5, <2>5 DEF AnswerResting, Return, Call
      <3>2. pc' \in {"rest", "after"}
        BY <3>1 DEF AfterPlace
      <3>3. FlowOK'
        BY <2>1, <3>1, <3>2 DEF FlowOK, OrderLabels, ExecLabels, Labels
      <3>4. HeldOK' /\ SentOK'
        BY <1>a, <2>1, <2>3, <3>1, <3>2, NoCloidFresh DEF HeldOK, SentOK, OrderLabels
      <3>5. PlanOK'
        BY <2>3, <3>1 DEF RunInv, PlanOK
      <3> QED BY <1>0, <2>3, <3>3, <3>4, <3>5, AppendableClosed DEF RunInv
    <2> QED BY <2>4, <2>5
  <1>6. CASE AnswerRejected
    <2>1. wire[cur] = 0 /\ book[cur] = "absent" /\ fill[cur] = 0 /\ ctx = "place"
      BY <1>6, <1>a, <1>b DEF AnswerRejected, AnsweredRejected, RunInv, Data, OrdersOK, OrderOK
    <2>2. UNCHANGED <<wire, asked, book, quota, fill, position, expired>> /\ ExchangeTypeOK'
      BY <1>0, <1>6 DEF AnswerRejected, xvars, Typed
    <2>3. CASE ClosedUnsent
      BY <1>0, <2>1, <2>2, <2>3, ClosedUnsentRun
    <2>4. CASE Settled(0)
      BY <1>0, <2>1, <2>2, <2>4, SettledRun
    <2> QED BY <1>6, <2>3, <2>4 DEF AnswerRejected
  <1>7. CASE AnswerLost
    <2>1. pc = "sent" /\ ctx = "place" /\ jslice[cur] = k
      BY <1>7, <1>b DEF AnswerLost
    <2>2. /\ Data' /\ Appendable' /\ Unresolved' = Unresolved /\ UNCHANGED <<jslice, jtotal>>
          /\ jstate'[cur] = "submittedUnknown"
      <3>1. CASE suRec
        <4>1. UNCHANGED jvars /\ UNCHANGED xvars
          BY <1>7, <3>1 DEF AnswerLost
        <4>2. Appendable'
          BY <1>0, <4>1, RunningAppendable DEF Appendable, jvars
        <4>3. jstate[cur] = "submittedUnknown"
          BY <2>1, <3>1 DEF RunInv, SentOK
        <4> QED BY <1>0, <4>1, <4>2, <4>3, QuietData DEF xvars
      <3>2. CASE ~suRec
        <4>1. Allowed(jstate[cur], "submittedUnknown")
          BY <2>1, <3>2 DEF RunInv, SentOK, Allowed
        <4>2. RecordProgress(cur, jslice[cur], "submittedUnknown") /\ UNCHANGED xvars
          BY <1>7, <2>1, <3>2 DEF AnswerLost
        <4> QED BY <1>0, <1>a, <4>1, <4>2, RunningAppendable, ProgressData DEF RunInv
      <3> QED BY <3>1, <3>2
    <2>3. /\ pc' \in {"poll", "aloProbe"} /\ streak' = 0 /\ suRec' = TRUE
          /\ UNCHANGED <<mode, k, nsl, target, filled, resting, abort, cur, ctx>>
      BY <1>7 DEF AnswerLost, loopvars
    <2>4. SentOK'
      <3>1. lag'[cur] \in 0..Lag
        BY <1>0, <1>a DEF Typed, ExchangeTypeOK
      <3> QED BY <2>2, <2>3, <3>1, LagNat DEF SentOK
    <2> QED BY <1>0, <2>1, <2>2, <2>3, <2>4, AppendableClosed, StaysInCall DEF OrderLabels
  <1>8. CASE PollTerminal \/ AloProbeTerminal
    BY <1>0, <1>8, TerminalAnswer, SettledRun DEF PollTerminal, AloProbeTerminal
  <1>9. CASE PollUnknown \/ \E a \in {"error", "open"} : PollInconclusive(a)
    <2>0. PICK a \in {"error", "open", "unknown"} :
             /\ pc = "poll" /\ OrderStatus(cur, a) /\ UNCHANGED jvars
             /\ \/ Fail
                \/ /\ streak' = (IF a = "unknown" THEN streak + 1 ELSE 0)
                   /\ UNCHANGED <<pc, loopvars, cur, ctx, suRec>>
      BY <1>9 DEF PollUnknown, PollInconclusive
    <2>1. /\ Data' /\ ClosedOK' /\ Unresolved' = Unresolved
          /\ UNCHANGED <<jslice, jstate, jtotal>>
      BY <1>c, <2>0
    <2>2. CASE Fail
      BY <1>0, <2>1, <2>2, FailRun
    <2>3. CASE ~Fail
      <3>1. /\ streak' = (IF a = "unknown" THEN streak + 1 ELSE 0) /\ pc' = "poll"
            /\ UNCHANGED <<mode, k, nsl, target, filled, resting, abort, cur, ctx, suRec>>
        BY <2>0, <2>3 DEF loopvars
      <3>2. ctx \in {"place", "reconcile"}
        BY <2>0 DEF RunInv, FlowOK
      <3>3. SentOK'
        <4>1. /\ lag[cur] \in 0..Lag /\ lag'[cur] \in 0..Lag /\ streak \in Nat
              /\ lag[cur] = 0 \/ lag[cur] + streak <= Lag
          BY <1>0, <1>a, <2>0 DEF RunInv, SentOK, Typed, ExchangeTypeOK, ProcTypeOK
        <4>2. a = "unknown" => lag'[cur] = (IF lag[cur] > 0 THEN lag[cur] - 1 ELSE lag[cur])
          BY <1>a, <2>0 DEF OrderStatus, RunInv, Typed, ExchangeTypeOK
        <4>3. lag'[cur] = 0 \/ lag'[cur] + streak' <= Lag
          BY <3>1, <4>1, <4>2, LagNat
        <4>4. ctx = "place" => suRec /\ jstate[cur] = "submittedUnknown"
          BY <2>0 DEF RunInv, SentOK
        <4> QED BY <2>1, <3>1, <4>3, <4>4 DEF SentOK
      <3> QED BY <1>0, <2>1, <3>1, <3>2, <3>3, StaysInCall DEF OrderLabels
    <2> QED BY <2>2, <2>3
  <1>10. CASE AbsentReconcile
    BY <1>0, <1>10, AbsentAnswer, SettledRun DEF AbsentReconcile
  <1>11. CASE AbsentShutdown
    <2>1. ctx = "place"
      BY <1>11 DEF AbsentShutdown, Absent
    <2> QED BY <1>0, <1>11, <2>1, AbsentAnswer, ClosedUnsentRun DEF AbsentShutdown
  <1>12. CASE AbsentGiveUp
    BY <1>0, <1>12, <1>c, FailRun DEF AbsentGiveUp, Absent
  <1>13. CASE AbsentResend
    <2>1. wire[cur] = 0 /\ book[cur] = "absent"
      BY <1>13, AbsentAnswer DEF AbsentResend
    <2>2. /\ Data' /\ ClosedOK' /\ Unresolved' = Unresolved
          /\ UNCHANGED <<jslice, jstate, jtotal, wire, book>>
      BY <1>13, <1>c DEF AbsentResend, Absent
    <2>3. /\ pc' = "commit" /\ ctx = "place"
          /\ UNCHANGED <<mode, k, nsl, target, filled, resting, abort, cur, ctx, suRec>>
      BY <1>13 DEF AbsentResend, Absent, loopvars
    <2>4. jstate[cur] = (IF suRec THEN "submittedUnknown" ELSE "prepared")
      BY <1>13 DEF AbsentResend, Absent, RunInv, SentOK
    <2>5. SentOK'
      BY <2>1, <2>2, <2>3, <2>4 DEF SentOK
    <2> QED BY <1>0, <2>2, <2>3, <2>5, StaysInCall DEF OrderLabels
  <1>14. CASE AloProbeOpen \/ \E a \in {"error", "unknown"} : AloProbeMissed(a)
    <2>1. PICK a : OrderStatus(cur, a) /\ UNCHANGED jvars
      BY <1>14 DEF AloProbeOpen, AloProbeMissed
    <2>2. /\ pc = "aloProbe" /\ pc' \in {"settle", "aloCancel"}
          /\ UNCHANGED <<mode, k, nsl, target, filled, resting, abort, cur, ctx>>
      BY <1>14 DEF AloProbeOpen, AloProbeMissed, Goto, loopvars, callvars
    <2>3. SentOK'
      BY <2>2 DEF SentOK
    <2> QED BY <1>0, <1>b, <1>c, <2>1, <2>2, <2>3, StaysInCall DEF OrderLabels
  <1>15. ASSUME NEW b \in BOOLEAN, AloCancel(b) PROVE RunInv'
    <2>1. Data' /\ Unresolved' = Unresolved /\ Appendable' /\ UNCHANGED <<jslice, jtotal>>
      BY <1>0, <1>15, <1>a, CancelData, RunningAppendable
         DEF AloCancel, RunInv, Unresolved, Appendable, jvars
    <2>2. CASE Fail
      BY <1>0, <2>1, <2>2, FailRun, AppendableClosed
    <2>3. CASE ~Fail
      <3>1. /\ pc = "aloCancel"
            /\ UNCHANGED <<pc, mode, k, nsl, target, filled, resting, abort, cur, ctx>>
        BY <1>15, <2>3 DEF AloCancel, loopvars
      <3>2. SentOK'
        BY <3>1 DEF SentOK
      <3> QED BY <1>0, <1>b, <2>1, <3>1, <3>2, StaysInCall, AppendableClosed DEF OrderLabels
    <2> QED BY <2>2, <2>3
  <1> QED
    BY <1>1, <1>2, <1>3, <1>4, <1>5, <1>6, <1>7, <1>8, <1>9, <1>10, <1>11, <1>12,
       <1>13, <1>14, <1>15 DEF Place

(* The settlement of a resting child keeps the invariant. *)
LEMMA SettleRun ==
    ASSUME RunInv, Settle
    PROVE  RunInv'
  <1>0. Typed' /\ pc \in OrderLabels /\ pc # "off"
    BY SettleTyped DEF RunInv, Settle, SettleSend, SettleTerminal, LedgerWhole, CallFails,
       SettleRetry, OrderLabels
  <1>a. cur \in Unresolved /\ cur \in Cloids
    BY <1>0 DEF RunInv, HeldOK, Unresolved
  <1>1. ASSUME NEW b \in BOOLEAN, SettleSend(b) PROVE RunInv'
    <2>1. /\ UNCHANGED jvars /\ pc' = "settlePoll"
          /\ UNCHANGED <<mode, k, nsl, target, filled, resting, abort, cur, ctx>>
      BY <1>1 DEF SettleSend, loopvars
    <2>2. Appendable' /\ Unresolved' = Unresolved /\ UNCHANGED <<jslice, jtotal>>
      BY <1>0, <2>1, RunningAppendable DEF Appendable, Unresolved, jvars
    <2>3. Data'
      <3>1. CASE conf
        BY <1>1, <2>1, <3>1, DataUntouched DEF SettleSend, xvars, RunInv
      <3>2. CASE ~conf
        BY <1>1, <1>a, <2>1, <3>2, CancelData DEF SettleSend, RunInv
      <3> QED BY <3>1, <3>2
    <2>4. SentOK'
      BY <2>1 DEF SentOK
    <2> QED BY <1>0, <2>1, <2>2, <2>3, <2>4, AppendableClosed, StaysInCall DEF OrderLabels
  <1>2. CASE SettleTerminal
    BY <1>0, <1>2, TerminalAnswer, SettledRun DEF SettleTerminal
  <1>3. CASE LedgerWhole
    <2>1. fill[cur] = jsize[cur] /\ jsize[cur] \in Nat /\ jsize[cur] > 0
      BY <1>3, <1>a DEF LedgerWhole, LedgerShowsWhole, RunInv, Data, OrdersOK, OrderOK,
         Unresolved, Typed, JournalTypeOK
    <2>2. wire[cur] = 0 /\ book[cur] # "live"
      <3>1. quota[cur] = jsize[cur]
        BY <1>a, <2>1 DEF RunInv, Data, OrdersOK, OrderOK, Typed, ExchangeTypeOK
      <3>2. book[cur] # "absent" /\ book[cur] # "live"
        BY <1>a, <2>1, <3>1 DEF RunInv, Data, OrdersOK, OrderOK
      <3> QED BY <1>a, <3>2 DEF RunInv, Data, OrdersOK, OrderOK
    <2>3. UNCHANGED <<wire, asked, book, quota, fill, position, expired>> /\ ExchangeTypeOK'
      BY <1>0, <1>3 DEF LedgerWhole, xvars, Typed
    <2> QED BY <1>0, <1>3, <2>1, <2>2, <2>3, SettledRun DEF LedgerWhole
  <1>4. CASE CallFails
    <2>1. Data' /\ ClosedOK' /\ Fail
      BY <1>0, <1>4, QuietData DEF CallFails, Offline, xvars
    <2> QED BY <1>0, <2>1, FailRun
  <1>5. ASSUME NEW a, SettleRetry(a) PROVE RunInv'
    <2>1. /\ Data' /\ ClosedOK' /\ Unresolved' = Unresolved /\ UNCHANGED <<jslice, jtotal>>
      BY <1>0, <1>5, QuietData DEF SettleRetry, OrderStatus
    <2>2. CASE Fail
      BY <1>0, <2>1, <2>2, FailRun
    <2>3. CASE ~Fail
      <3>1. /\ pc' \in {"settle", "ledger"}
            /\ UNCHANGED <<mode, k, nsl, target, filled, resting, abort, cur, ctx>>
        BY <1>5, <2>3 DEF SettleRetry, Goto, loopvars, callvars
      <3>2. SentOK'
        BY <3>1 DEF SentOK
      <3> QED BY <1>0, <2>1, <3>1, <3>2, StaysInCall DEF OrderLabels
    <2> QED BY <2>2, <2>3
  <1> QED BY <1>1, <1>2, <1>3, <1>4, <1>5 DEF Settle

(* So does the follow loop: it settles the child it has before it quotes   *)
(* again.                                                                  *)
LEMMA FollowRun ==
    ASSUME RunInv, Follow
    PROVE  RunInv'
  <1>0. Typed' /\ pc \in {"rest", "idle"} /\ Offline
    BY FollowTyped DEF RunInv, Follow, FollowSliceEnd, FollowStops, FollowSettle, FollowRequote,
       FollowIdleEnd
  <1>a. mode = "exec" /\ ctx = "none" /\ pc # "off" /\ ~abort
    BY <1>0 DEF RunInv, FlowOK, OrderLabels, ReconcileLabels, Typed, ProcTypeOK, Modes
  <1>b. /\ Data' /\ ClosedOK' /\ Unresolved' = Unresolved
        /\ UNCHANGED <<jslice, jtotal>>
    BY <1>0, <1>a, QuietData DEF Offline, xvars
  <1>c. PerSlice' = PerSlice /\ Total' = Total
    BY DEF PerSlice, Total
  <1>1. CASE FollowSliceEnd \/ FollowRequote \/ FollowIdleEnd
    <2>1. /\ pc' \in {"after", "quote"}
          /\ pc' = "quote" => resting = NoCloid
          /\ UNCHANGED <<mode, nsl, target, filled, resting, abort, ctx>>
      BY <1>1 DEF FollowSliceEnd, FollowRequote, FollowIdleEnd, Goto, loopvars, callvars
    <2>2. FlowOK'
      BY <1>a, <2>1 DEF FlowOK, OrderLabels, ExecLabels, Labels
    <2>3. HeldOK' /\ SentOK'
      BY <1>0, <1>a, <1>b, <2>1 DEF RunInv, HeldOK, SentOK, OrderLabels
    <2>4. PlanOK'
      BY <1>b, <1>c, <2>1 DEF RunInv, PlanOK
    <2> QED BY <1>0, <1>b, <2>2, <2>3, <2>4 DEF RunInv
  <1>2. CASE FollowStops
    <2>1. /\ pc' = "cleanup" /\ abort' = TRUE
          /\ UNCHANGED <<mode, nsl, target, filled, resting, ctx>>
      BY <1>2 DEF FollowStops, Break, callvars
    <2>2. FlowOK'
      BY <1>a, <2>1 DEF FlowOK, OrderLabels, ExecLabels, Labels
    <2>3. HeldOK' /\ SentOK'
      BY <1>a, <1>b, <2>1 DEF RunInv, HeldOK, SentOK, OrderLabels
    <2>4. PlanOK'
      BY <1>b, <1>c, <2>1 DEF RunInv, PlanOK
    <2> QED BY <1>0, <1>b, <2>2, <2>3, <2>4 DEF RunInv
  <1>3. CASE FollowSettle
    <2>1. /\ pc = "rest" /\ resting # NoCloid
          /\ pc' = "settle" /\ cur' = resting /\ ctx' = "follow" /\ resting' = NoCloid
          /\ UNCHANGED <<mode, k, nsl, target, filled, abort>>
      BY <1>3 DEF FollowSettle, Call
    <2>2. FlowOK'
      BY <1>a, <2>1 DEF FlowOK, OrderLabels, ExecLabels, Labels
    <2>3. HeldOK' /\ SentOK'
      BY <1>a, <1>b, <2>1 DEF RunInv, HeldOK, SentOK, OrderLabels
    <2>4. PlanOK'
      BY <1>b, <1>c, <2>1 DEF RunInv, PlanOK
    <2> QED BY <1>0, <1>b, <2>2, <2>3, <2>4 DEF RunInv
  <1> QED BY <1>1, <1>2, <1>3 DEF Follow

(* And so does all that happens to a process from outside: it is started,  *)
(* interrupted, dropped or dies at any point, and the exchange moves.      *)
LEMMA EnvironmentRun ==
    ASSUME RunInv, Environment
    PROVE  RunInv'
  <1>0. Typed'
    BY EnvironmentTyped DEF RunInv
  <1>c. PerSlice' = PerSlice /\ Total' = Total
    BY DEF PerSlice, Total
  <1>1. CASE StartNew
    <2>1. /\ pc' = "loop" /\ mode' = "exec" /\ ctx' = "none" /\ abort' = FALSE
          /\ resting' = NoCloid /\ filled' = 0 /\ target' = Total /\ nsl' = Slices
      BY <1>1 DEF StartNew, Process, Return, Call
    <2>2. /\ valid /\ ~header /\ jtotal = 0 /\ report = "none" /\ ~abandoned
          /\ Unresolved = {}
      BY <1>1 DEF StartNew, RunInv, ClosedOK
    <2>3. /\ header' = TRUE
          /\ UNCHANGED <<valid, jstate, jslice, jsize, jfill, jtotal, report, unknowns, abandoned>>
      BY <1>1, <2>2 DEF StartNew, RecordHeader
    <2>4. Unresolved' = Unresolved
      BY <2>3 DEF Unresolved
    <2>5. Data'
      <3>1. OrdersOK'
        BY <1>1, <2>3 DEF RunInv, Data, OrdersOK, OrderOK, StartNew, xvars
      <3>2. LedgerOK'
        BY <1>1, <1>c, <2>3, <2>4 DEF RunInv, Data, LedgerOK, StartNew, xvars
      <3> QED BY <3>1, <3>2 DEF Data
    <2>6. ClosedOK'
      BY <2>2, <2>3 DEF ClosedOK
    <2>7. FlowOK'
      BY <2>1 DEF FlowOK, OrderLabels, ExecLabels, Labels
    <2>8. HeldOK' /\ SentOK'
      BY <2>1, <2>2, <2>4 DEF HeldOK, SentOK, OrderLabels
    <2>9. PlanOK'
      <3>1. ASSUME NEW i \in Nat, i < Slices PROVE PerSlice * i <= Total
        <4>1. PerSlice * i <= PerSlice * Slices
          BY <3>1, PlanTyped, PlanPositive
        <4> QED BY <4>1 DEF Total, PerSlice, TotalAdjusted
      <3>2. (Total - Total) + 0 = 0
        BY PlanTyped
      <3> QED BY <1>c, <2>1, <2>2, <2>3, <3>1, <3>2 DEF PlanOK
    <2> QED BY <1>0, <2>5, <2>6, <2>7, <2>8, <2>9 DEF RunInv
  <1>2. ASSUME NEW m \in {"resume", "abandon"}, StartReconcile(m) PROVE RunInv'
    <2>1. /\ pc' = "rcNext" /\ mode' = m /\ ctx' = "none" /\ abort' = FALSE
          /\ resting' = NoCloid
      BY <1>2 DEF StartReconcile, Process, Return, Call
    <2>2. Appendable
      <3>1. report = "completed" => unknowns = {} /\ Unresolved = {}
        BY DEF RunInv, ClosedOK
      <3> QED BY <1>2, <3>1 DEF StartReconcile, IsIncomplete, Appendable
    <2>3. UNCHANGED jvars /\ UNCHANGED xvars
      BY <1>2 DEF StartReconcile, Offline
    <2>4. Data' /\ ClosedOK'
      <3>1. Appendable'
        BY <2>2, <2>3 DEF Appendable, jvars
      <3> QED BY <2>3, <3>1, DataUntouched, AppendableClosed DEF RunInv, xvars
    <2>5. FlowOK'
      BY <2>1 DEF FlowOK, OrderLabels, ReconcileLabels
    <2>6. HeldOK' /\ SentOK' /\ PlanOK'
      BY <2>1 DEF HeldOK, SentOK, PlanOK, OrderLabels
    <2> QED BY <1>0, <2>4, <2>5, <2>6 DEF RunInv
  <1>3. CASE Interrupt
    <2>1. /\ UNCHANGED <<pc, loopvars, callvars>> /\ Offline /\ mode = "exec"
      BY <1>3 DEF Interrupt
    <2>2. pc # "off"
      BY <2>1 DEF RunInv, FlowOK
    <2>3. /\ Data' /\ ClosedOK' /\ Unresolved' = Unresolved
          /\ UNCHANGED <<jslice, jstate, jtotal>>
      BY <2>1, <2>2, QuietData DEF Offline, xvars
    <2>4. FlowOK'
      BY <2>1 DEF RunInv, FlowOK, loopvars, callvars
    <2>5. HeldOK' /\ SentOK'
      BY <2>1, <2>3 DEF RunInv, HeldOK, SentOK, loopvars, callvars, Offline, xvars
    <2>6. PlanOK'
      BY <1>c, <2>1, <2>3 DEF RunInv, PlanOK, loopvars
    <2> QED BY <1>0, <2>3, <2>4, <2>5, <2>6 DEF RunInv
  <1>4. CASE GraceTimeout
    <2>1. pc # "off"
      BY <1>4 DEF GraceTimeout, RunInv, FlowOK
    <2> QED BY <1>4, <2>1, ReportRun DEF GraceTimeout
  <1>5. CASE Crash
    BY <1>5, ReportRun DEF Crash, Offline
  <1>6. CASE ExchangeStep /\ UNCHANGED <<jvars, procvars>>
    <2>1. Data'
      BY <1>6, ExchangeData DEF RunInv
    <2>2. /\ Unresolved' = Unresolved /\ UNCHANGED <<jslice, jstate, jtotal>>
          /\ UNCHANGED <<pc, loopvars, callvars>> /\ UNCHANGED jvars
      BY <1>6 DEF Unresolved, jvars, procvars
    <2>3. ClosedOK' /\ FlowOK' /\ HeldOK'
      BY <2>2 DEF RunInv, ClosedOK, FlowOK, HeldOK, loopvars, callvars, jvars
    <2>4. SentOK'
      <3>1. UNCHANGED lag
        BY <1>6 DEF ExchangeStep, Accept, Refuse, Trade, Withdraw, DeadlinePasses
      <3>2. pc = "commit" => cur \in Cloids
        BY DEF RunInv, HeldOK, OrderLabels, Unresolved
      <3>3. pc = "commit" => wire'[cur] = 0 /\ book'[cur] = "absent"
        <4> SUFFICES ASSUME pc = "commit" PROVE wire'[cur] = 0 /\ book'[cur] = "absent"
          OBVIOUS
        <4>1. wire[cur] = 0 /\ book[cur] = "absent"
          BY DEF RunInv, SentOK
        <4> QED BY <1>6, <3>2, <4>1 DEF ExchangeStep, Accept, Refuse, Trade, Withdraw,
                DeadlinePasses, RunInv, Typed, ExchangeTypeOK
      <3> QED BY <2>2, <3>1, <3>3 DEF RunInv, SentOK, callvars
    <2>5. PlanOK'
      BY <1>c, <2>2 DEF RunInv, PlanOK, loopvars
    <2> QED BY <1>0, <2>1, <2>3, <2>4, <2>5 DEF RunInv
  <1> QED BY <1>1, <1>2, <1>3, <1>4, <1>5, <1>6 DEF Environment

-----------------------------------------------------------------------------
(* Nothing has happened: the invariant holds. *)
LEMMA InitRun ==
    ASSUME Init
    PROVE  RunInv
  <1>1. Typed
    BY InitTyped
  <1>2. OrdersOK
    <2> SUFFICES ASSUME NEW c \in Cloids PROVE OrderOK(c)
      BY DEF OrdersOK
    <2>1. /\ wire[c] = 0 /\ book[c] = "absent" /\ quota[c] = 0 /\ fill[c] = 0
          /\ jstate[c] = "absent" /\ jfill[c] = 0
      BY DEF Init, ExchangeInit, JournalInit
    <2> QED BY <2>1 DEF OrderOK
  <1>3. Unresolved = {}
    BY DEF Init, JournalInit, Unresolved
  <1>4. LedgerOK
    <2>1. jtotal = 0 /\ position = 0
      BY DEF Init, ExchangeInit, JournalInit
    <2> QED BY <1>3, <2>1, PlanTyped DEF LedgerOK
  <1>5. ClosedOK
    BY <1>3 DEF Init, JournalInit, ClosedOK
  <1>6. pc = "off" /\ mode = "none" /\ ctx = "none" /\ resting = NoCloid /\ abort = FALSE
    BY DEF Init
  <1>7. FlowOK /\ HeldOK /\ SentOK /\ PlanOK
    BY <1>6 DEF FlowOK, HeldOK, SentOK, PlanOK, OrderLabels
  <1> QED BY <1>1, <1>2, <1>4, <1>5, <1>7 DEF RunInv, Data

(* Every step keeps it, as long as a run of unknownOid answers that the    *)
(* code takes as proof is longer than any run of stale ones.               *)
LEMMA NextRun ==
    ASSUME Lag < MinConsecutive, RunInv, [Next]_vars
    PROVE  RunInv'
  <1>1. CASE UNCHANGED vars
    <2>1. UNCHANGED jvars /\ UNCHANGED xvars /\ UNCHANGED procvars
      BY <1>1 DEF vars
    <2>2. Typed'
      BY <2>1, JournalUntouched, ExchangeUntouched, ProcUntouched DEF RunInv, Typed
    <2>3. Data'
      BY <2>1, DataUntouched DEF RunInv, xvars
    <2>4. Unresolved' = Unresolved /\ PerSlice' = PerSlice /\ Total' = Total
      BY <2>1 DEF Unresolved, jvars, PerSlice, Total
    <2>5. ClosedOK' /\ FlowOK' /\ HeldOK'
      BY <2>1, <2>4 DEF RunInv, ClosedOK, FlowOK, HeldOK, jvars, procvars, loopvars, callvars
    <2>6. SentOK' /\ PlanOK'
      BY <2>1, <2>4 DEF RunInv, SentOK, PlanOK, jvars, xvars, procvars, loopvars, callvars
    <2> QED BY <2>2, <2>3, <2>5, <2>6 DEF RunInv
  <1>2. CASE Next
    BY <1>2, ReconcileRun, LoopRun, PlaceRun, SettleRun, FollowRun, EnvironmentRun
       DEF Next, ProcessStep
  <1> QED BY <1>1, <1>2

(* The inductive invariant of the run. *)
THEOREM RunInvariant ==
    ASSUME Lag < MinConsecutive
    PROVE  Spec => []RunInv
  <1>1. Init => RunInv
    BY InitRun
  <1>2. RunInv /\ [Next]_vars => RunInv'
    BY NextRun
  <1> QED BY <1>1, <1>2, PTL DEF Spec

(* The run never trades more than the total it was asked for, however many *)
(* processes crash, resume and resend, and for plans of any size: what is  *)
(* unresolved fits into what the journal leaves of the total.              *)
THEOREM NeverOverExecutes ==
    ASSUME Lag < MinConsecutive
    PROVE  Spec => []NoOverExecution
  <1>1. RunInv => NoOverExecution
    <2> SUFFICES ASSUME RunInv PROVE position <= Total
      BY DEF NoOverExecution
    <2>1. CASE Unresolved = {}
      BY <2>1 DEF RunInv, Data, LedgerOK
    <2>2. CASE Unresolved # {}
      <3>1. PICK c \in Unresolved : c \in Cloids
        BY <2>2 DEF Unresolved
      <3>2. position = jtotal + fill[c] /\ jtotal + jsize[c] <= Total
        BY <3>1 DEF RunInv, Data, LedgerOK
      <3>3. fill[c] \in Nat /\ jsize[c] \in Nat /\ jtotal \in Int
        BY <3>1 DEF RunInv, Typed, ExchangeTypeOK, JournalTypeOK
      <3>4. fill[c] <= jsize[c]
        BY <3>1, <3>3 DEF RunInv, Data, OrdersOK, OrderOK
      <3> QED BY <3>2, <3>3, <3>4, PlanTyped
    <2> QED BY <2>1, <2>2
  <1> QED BY <1>1, RunInvariant, PTL

(* Every record the program writes is one that its own replay accepts.     *)
THEOREM JournalAlwaysReplays ==
    ASSUME Lag < MinConsecutive
    PROVE  Spec => []JournalReplays
  <1>1. RunInv => JournalReplays
    BY DEF RunInv, ClosedOK, JournalReplays
  <1> QED BY <1>1, RunInvariant, PTL

(* What the journal calls terminal is finished, at the fill it says.       *)
THEOREM TerminalStaysFinal ==
    ASSUME Lag < MinConsecutive
    PROVE  Spec => []TerminalIsFinal
  <1>1. RunInv => TerminalIsFinal
    BY DEF RunInv, Data, OrdersOK, OrderOK, TerminalIsFinal
  <1> QED BY <1>1, RunInvariant, PTL

(* Whatever can still trade is the one order the journal shows as open.    *)
THEOREM ExposureIsJournaled ==
    ASSUME Lag < MinConsecutive
    PROVE  Spec => []OneJournaledExposure
  <1>1. RunInv => OneJournaledExposure
    <2> SUFFICES ASSUME RunInv, NEW c \in Cloids, wire[c] > 0 \/ book[c] = "live"
                 PROVE  Unresolved = {c}
      BY DEF OneJournaledExposure
    <2>1. c \in Unresolved
      BY DEF RunInv, Data, OrdersOK, OrderOK, Unresolved
    <2> QED BY <2>1 DEF RunInv, Data, LedgerOK
  <1> QED BY <1>1, RunInvariant, PTL

(* The fills the loop sizes by are the journal's, over resumes too.        *)
THEOREM StatsAreTheJournals ==
    ASSUME Lag < MinConsecutive
    PROVE  Spec => []StatsMatchJournal
  <1>1. RunInv => StatsMatchJournal
    BY DEF RunInv, PlanOK, StatsMatchJournal
  <1> QED BY <1>1, RunInvariant, PTL

-----------------------------------------------------------------------------
(* What a step of a process does to the outside. *)

(* The books never shrink, and the step that ends a process leaves them.   *)
BooksForward ==
    /\ position' = position /\ jtotal' >= jtotal
    /\ pc' = "off" => jtotal' = jtotal

(* A Terminal record never takes a fill back. *)
LEMMA TerminalForward ==
    ASSUME JournalTypeOK, NEW c \in Cloids, NEW i, NEW f \in Nat, RecordTerminal(c, i, f)
    PROVE  jtotal' >= jtotal
  <1>1. CASE Refused
    BY <1>1 DEF Refused, JournalTypeOK
  <1>2. CASE ~Refused
    <2>1. jtotal' = jtotal + (f - jfill[c]) /\ f >= jfill[c]
      BY <1>2 DEF RecordTerminal
    <2>2. jtotal \in Int /\ jfill[c] \in Nat
      BY DEF JournalTypeOK
    <2> QED BY <2>1, <2>2
  <1> QED BY <1>1, <1>2

(* Nor does closing an order, and the process goes on from there. *)
LEMMA SettledForward ==
    ASSUME Typed, pc \in OrderLabels, UNCHANGED position, NEW f \in Nat,
           Settled(f) \/ ClosedUnsent
    PROVE  BooksForward
  <1>1. cur \in Cloids
    BY OrderFields
  <1>2. jtotal' >= jtotal
    BY <1>1, TerminalForward DEF Settled, ClosedUnsent, Typed
  <1>3. pc' # "off"
    BY DEF Settled, ClosedUnsent, Return, Call, Fail, Continue, AfterPlace
  <1> QED BY <1>2, <1>3 DEF BooksForward

(* The other records leave the total alone. *)
LEMMA OtherRecords ==
    ASSUME Typed
    PROVE  /\ \A c, i, s : RecordPrepared(c, i, s) => jtotal' = jtotal
           /\ \A c, i, to : RecordProgress(c, i, to) => jtotal' = jtotal
           /\ \A b, t, u : RecordFinalReport(b, t, u) => jtotal' = jtotal
           /\ RecordAbandoned => jtotal' = jtotal
           /\ UNCHANGED jvars => jtotal' = jtotal
  BY DEF RecordPrepared, RecordProgress, RecordFinalReport, RecordAbandoned, Refused, jvars

(* A step of a process trades nothing, books forward, and sends a request  *)
(* in one place only.                                                      *)
LEMMA ProcessOutside ==
    ASSUME Typed, ProcessStep
    PROVE  BooksForward /\ (wire' = wire \/ Send) /\ fill' = fill /\ pc # "off"
  <1>0. ASSUME jtotal' = jtotal, position' = position PROVE BooksForward
    BY <1>0 DEF BooksForward, Typed, JournalTypeOK
  <1>1. CASE Reconcile
    <2>1. pc # "off" /\ UNCHANGED <<wire, fill, position>>
      BY <1>1 DEF Reconcile, ReconcileNext, ReconcileProbe, ReconcileFailed, AbandonRun,
         Reconciled, ResumeExpired, ResumeRefused, ResumeSatisfied, ResumeBelowMinNotional,
         ResumeContinue, Offline, xvars, OrderStatus
    <2>2. jtotal' = jtotal
      BY <1>1, OtherRecords DEF Reconcile, ReconcileNext, ReconcileProbe, ReconcileFailed,
         AbandonRun, ResumeExpired, ResumeRefused, ResumeSatisfied, ResumeBelowMinNotional,
         ResumeContinue, Offline
    <2> QED BY <1>0, <2>1, <2>2
  <1>2. CASE Loop
    <2>1. pc # "off" /\ UNCHANGED <<wire, fill, position>>
      BY <1>2 DEF Loop, LoopDone, LoopShutdown, SettleBoundary, EnterSlice, SliceRefused,
         SliceSkipped, FollowPauses, Prepare, TargetReached, AfterShutdown, NextSlice, Cleanup,
         Finalize, Offline, xvars
    <2>2. jtotal' = jtotal
      BY <1>2, OtherRecords DEF Loop, LoopDone, LoopShutdown, SettleBoundary, EnterSlice,
         SliceRefused, SliceSkipped, FollowPauses, Prepare, TargetReached, AfterShutdown,
         NextSlice, Cleanup, Finalize, Offline
    <2> QED BY <1>0, <2>1, <2>2
  <1>3. CASE Place
    <2>0. pc \in OrderLabels
      BY <1>3 DEF Place, CommitExpired, CommitShutdown, Send, AnswerFilled,
         AnswerResting, AnswerRejected, AnswerLost, PollTerminal, PollUnknown, PollInconclusive,
         AbsentReconcile, AbsentShutdown, AbsentGiveUp, AbsentResend, Absent, AloProbeTerminal,
         AloProbeOpen, AloProbeMissed, AloCancel, OrderLabels
    <2>1. (wire' = wire \/ Send) /\ fill' = fill /\ position' = position
      BY <1>3 DEF Place, CommitExpired, CommitShutdown, Send, AnswerFilled,
         AnswerResting, AnswerRejected, AnswerLost, PollTerminal, PollUnknown, PollInconclusive,
         AbsentReconcile, AbsentShutdown, AbsentGiveUp, AbsentResend, Absent, AloProbeTerminal,
         AloProbeOpen, AloProbeMissed, AloCancel, Offline, xvars, OrderStatus, CancelByCloid,
         PlaceOrderOnce
    <2>2. \/ jtotal' = jtotal
          \/ ClosedUnsent \/ Settled(0) \/ Settled(fill[cur])
      BY <1>3, OtherRecords DEF Place, CommitExpired, CommitShutdown, Send, AnswerFilled,
         AnswerResting, AnswerRejected, AnswerLost, PollTerminal, PollUnknown, PollInconclusive,
         AbsentReconcile, AbsentShutdown, AbsentGiveUp, AbsentResend, Absent, AloProbeTerminal,
         AloProbeOpen, AloProbeMissed, AloCancel, Offline
    <2>3. 0 \in Nat /\ fill[cur] \in Nat
      BY <2>0, OrderFields
    <2>4. BooksForward
      BY <1>0, <2>0, <2>1, <2>2, <2>3, SettledForward
    <2> QED BY <2>0, <2>1, <2>4 DEF OrderLabels
  <1>4. CASE Settle
    <2>0. pc \in OrderLabels
      BY <1>4 DEF Settle, SettleSend, SettleTerminal, LedgerWhole, CallFails, SettleRetry,
         OrderLabels
    <2>1. UNCHANGED <<wire, fill, position>>
      BY <1>4 DEF Settle, SettleSend, SettleTerminal, LedgerWhole, CallFails, SettleRetry,
         Offline, xvars, OrderStatus, CancelByCloid
    <2>2. jtotal' = jtotal \/ Settled(fill[cur]) \/ Settled(jsize[cur])
      BY <1>4, OtherRecords DEF Settle, SettleSend, SettleTerminal, LedgerWhole, CallFails,
         SettleRetry, Offline
    <2>3. fill[cur] \in Nat /\ jsize[cur] \in Nat
      BY <2>0, OrderFields
    <2>4. BooksForward
      BY <1>0, <2>0, <2>1, <2>2, <2>3, SettledForward
    <2> QED BY <2>0, <2>1, <2>4 DEF OrderLabels
  <1>5. CASE Follow
    <2>1. pc # "off" /\ UNCHANGED <<wire, fill, position, jtotal>>
      BY <1>5 DEF Follow, FollowSliceEnd, FollowStops, FollowSettle, FollowRequote,
         FollowIdleEnd, Offline, xvars, jvars
    <2> QED BY <1>0, <2>1
  <1> QED BY <1>1, <1>2, <1>3, <1>4, <1>5 DEF ProcessStep

(* A place request is signed only while no earlier request of its cloid is *)
(* travelling or was ever accepted, in the resend after a lost answer and  *)
(* in every later process too.                                             *)
THEOREM NoSecondSend ==
    ASSUME Lag < MinConsecutive
    PROVE  Spec => NoDuplicateSend
  <1> DEFINE Alone == \A c \in Cloids : wire'[c] > wire[c] => wire[c] = 0 /\ book[c] = "absent"
  <1>1. RunInv /\ [Next]_vars => [Alone]_vars
    <2> SUFFICES ASSUME RunInv, Next, NEW c \in Cloids, wire'[c] > wire[c]
                 PROVE  wire[c] = 0 /\ book[c] = "absent"
      OBVIOUS
    <2>0. wire \in [Cloids -> Nat]
      BY DEF RunInv, Typed, ExchangeTypeOK
    <2>1. Send
      <3>1. CASE ProcessStep
        BY <2>0, <3>1, ProcessOutside DEF RunInv
      <3>2. CASE Environment
        <4>1. wire' = wire \/ ExchangeStep
          BY <3>2 DEF Environment, StartNew, StartReconcile, Interrupt, GraceTimeout, Crash,
             Offline, xvars
        <4>2. wire' = wire \/ \E d \in Cloids : wire' = [wire EXCEPT ![d] = @ - 1]
          BY <4>1 DEF ExchangeStep, Accept, Refuse, Trade, Withdraw, DeadlinePasses
        <4> QED BY <2>0, <4>2
      <3> QED BY <3>1, <3>2 DEF Next
    <2>2. wire' = [wire EXCEPT ![cur] = @ + 1]
      BY <2>1 DEF Send, PlaceOrderOnce
    <2>3. c = cur
      BY <2>0, <2>2
    <2> QED BY <2>1, <2>3 DEF Send, RunInv, SentOK
  <1> QED BY <1>1, RunInvariant, PTL DEF Spec, NoDuplicateSend

(* As long as a run of unknownOid answers outlasts the index's lag, an     *)
(* acknowledged order is never denied: whenever one is closed, exactly     *)
(* what it traded is credited.                                             *)
THEOREM AcknowledgedIsCredited ==
    ASSUME Lag < MinConsecutive
    PROVE  Spec => AcknowledgedNotDenied
  <1> DEFINE Credited == \A c \in Cloids :
                jstate[c] = "acknowledged" /\ jstate'[c] = "terminal" => jfill'[c] = fill[c]
  <1>1. RunInv /\ RunInv' /\ [Next]_vars => [Credited]_vars
    <2> SUFFICES ASSUME RunInv, RunInv', Next, NEW c \in Cloids,
                        jstate[c] = "acknowledged", jstate'[c] = "terminal"
                 PROVE  jfill'[c] = fill[c]
      OBVIOUS
    <2>1. jfill'[c] = fill'[c]
      BY DEF RunInv, Data, OrdersOK, OrderOK
    <2>2. jstate' # jstate
      OBVIOUS
    <2>3. ~Environment
      BY <2>2 DEF Environment, StartNew, StartReconcile, Interrupt, GraceTimeout, Crash, Offline,
         jvars, RecordHeader, RecordFinalReport, Refused
    <2>4. fill' = fill
      BY <2>3, ProcessOutside DEF Next, RunInv
    <2> QED BY <2>1, <2>4
  <1> QED BY <1>1, RunInvariant, PTL DEF Spec, AcknowledgedNotDenied

(* Read through position, journal total and closing record, every step of  *)
(* the run is a step of IdealRun or none: a run that was reported          *)
(* completed or abandoned has exact books and never trades again.          *)
THEOREM RefinesIdealRun ==
    ASSUME Lag < MinConsecutive
    PROVE  Spec => ImplementsIdealRun
  <1> DEFINE closed == report = "completed" \/ abandoned
  <1>1. Init => Ideal!Init
    BY DEF Init, ExchangeInit, JournalInit, Ideal!Init
  <1>2. RunInv /\ RunInv' /\ [Next]_vars => [Ideal!Next]_(Ideal!ivars)
    <2> SUFFICES ASSUME RunInv, RunInv', [Next]_vars
                 PROVE  Ideal!Next \/ UNCHANGED <<position, jtotal, closed>>
      BY DEF Ideal!ivars
    <2>0. /\ jtotal \in Int /\ jtotal' \in Int /\ position \in Nat /\ position' \in Nat
          /\ Total \in Nat /\ Total' = Total
      BY PlanTyped DEF RunInv, Typed, JournalTypeOK, ExchangeTypeOK, Total
    <2>a. closed => pc = "off" /\ Unresolved = {}
      BY DEF RunInv, ClosedOK
    <2>b. closed' => pc' = "off" /\ position' = jtotal'
      BY DEF RunInv, ClosedOK, Data, LedgerOK
    <2>c. jtotal' <= position'
      <3>1. CASE Unresolved' = {}
        BY <2>0, <3>1 DEF RunInv, Data, LedgerOK
      <3>2. CASE Unresolved' # {}
        <4>1. PICK c \in Unresolved' : c \in Cloids
          BY <3>2 DEF Unresolved
        <4>2. position' = jtotal' + fill'[c] /\ fill'[c] \in Nat
          BY <4>1 DEF RunInv, Data, LedgerOK, Typed, ExchangeTypeOK
        <4> QED BY <2>0, <4>2
      <3> QED BY <3>1, <3>2
    <2>d. ASSUME BooksForward, ~closed PROVE Ideal!Next \/ UNCHANGED <<position, jtotal, closed>>
      <3>1. CASE closed'
        <4>1. position' = position /\ jtotal' = jtotal /\ jtotal = position
          BY <2>b, <2>d, <3>1 DEF BooksForward
        <4> QED BY <3>1, <4>1 DEF Ideal!Next, Ideal!Close
      <3>2. CASE ~closed'
        <4>1. jtotal' \in jtotal .. position /\ position' = position
          BY <2>0, <2>c, <2>d DEF BooksForward
        <4> QED BY <2>d, <3>2, <4>1 DEF Ideal!Next, Ideal!Book
      <3> QED BY <3>1, <3>2
    <2>1. CASE UNCHANGED vars
      BY <2>1 DEF vars, xvars, jvars
    <2>2. CASE ProcessStep
      BY <2>2, <2>a, <2>d, ProcessOutside DEF RunInv
    <2>3. CASE StartNew
      BY <2>3 DEF StartNew, RecordHeader, Refused, xvars
    <2>4. CASE \/ (\E m \in {"resume", "abandon"} : StartReconcile(m))
               \/ Interrupt \/ Crash
      BY <2>4 DEF StartReconcile, Interrupt, Crash, Offline, xvars, jvars
    <2>5. CASE GraceTimeout
      <3>1. pc # "off"
        BY <2>5 DEF GraceTimeout, RunInv, FlowOK
      <3>2. position' = position /\ jtotal' = jtotal
        BY <2>5, OtherRecords DEF GraceTimeout, xvars, RunInv
      <3> QED BY <2>0, <2>a, <2>d, <3>1, <3>2 DEF BooksForward
    <2>6. CASE ExchangeStep /\ UNCHANGED <<jvars, procvars>>
      <3>1. UNCHANGED <<jtotal, closed>>
        BY <2>6 DEF jvars
      <3>2. position' = position \/ \E c \in Cloids : Trade(c)
        BY <2>6 DEF ExchangeStep, Accept, Refuse, Withdraw, DeadlinePasses
      <3>3. ASSUME NEW c \in Cloids, Trade(c) PROVE Ideal!Next
        <4>1. c \in Unresolved
          BY <3>3 DEF Trade, RunInv, Data, OrdersOK, OrderOK, Unresolved
        <4>2. ~closed
          BY <2>a, <4>1
        <4>3. position' = position + 1
          BY <3>3 DEF Trade
        <4>4. position' <= Total
          <5>1. c \in Unresolved'
            BY <2>6, <4>1 DEF Unresolved, jvars
          <5>2. /\ position' = jtotal' + fill'[c] /\ jtotal' + jsize'[c] <= Total
                /\ fill'[c] \in Nat /\ jsize'[c] \in Nat
            BY <2>0, <5>1 DEF RunInv, Data, LedgerOK, Typed, ExchangeTypeOK, JournalTypeOK,
               Unresolved
          <5>3. fill'[c] <= jsize'[c]
            BY <5>2 DEF RunInv, Data, OrdersOK, OrderOK
          <5> QED BY <2>0, <5>2, <5>3
        <4>5. position < Total
          BY <2>0, <4>3, <4>4
        <4> QED BY <3>1, <4>2, <4>3, <4>5 DEF Ideal!Next, Ideal!Trade
      <3> QED BY <3>1, <3>2, <3>3
    <2> QED BY <2>1, <2>2, <2>3, <2>4, <2>5, <2>6 DEF Next, Environment
  <1> QED BY <1>1, <1>2, RunInvariant, PTL DEF Spec, ImplementsIdealRun, Ideal!Spec
=============================================================================
