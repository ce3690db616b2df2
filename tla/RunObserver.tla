---------------------------- MODULE RunObserver -----------------------------
(***************************************************************************)
(* The observer of a run's journal (src/src/observability.rs), as the      *)
(* processes of src/src/main.rs attach it: each durable record is          *)
(* projected to events, which feed the metrics of the process, the event   *)
(* log beside the journal and the alert queue.  The observer's own state   *)
(* is rebuilt from the journal by every later process.                     *)
(*                                                                         *)
(* The writer is as arbitrary as that of JournalReplay.  Prices are 1, so  *)
(* a fill's notional is its size.  Counters that only count (of events, of *)
(* completed slices, of errors) are left out.                              *)
(***************************************************************************)
EXTENDS JournalReplay

CONSTANTS
    Lot,           \* size of every order
    Cap,           \* max_notional_usd of the Header
    QueueCapacity  \* alert_queue_capacity

ASSUME ObserverBounds ==
    Lot \in Nat \ {0} /\ Cap \in Nat \ {0} /\ QueueCapacity \in Nat \ {0}

VARIABLES
    proc,    \* the process: which command, its journal handle, its metrics and alerts
    obs,     \* projector of the attached observer
    durable, \* what projecting the whole journal gives: seed_from_records
    log      \* the event log: what its readable lines add up to

ovars == <<proc, obs, durable, log>>
vars == <<jvars, ovars>>

-----------------------------------------------------------------------------
(* Projection: a record, to events.  No record has two of one kind, and    *)
(* where two move the same gauge it is the later one's word that counts:   *)
(* finalReport after runStopped, and capNear repeats capRemaining.         *)

Projector == [acc |-> [c \in Cloids |-> 0], cap |-> 0, accounted |-> 0, near |-> FALSE,
              seen |-> FALSE]

Event(k) == [k |-> k]
Amount(k, n) == [k |-> k, n |-> n]
RemainingOf(o) == Max({o.cap - o.accounted, 0})

(* Fault: a Terminal record counts in full. *)
TerminalWhole(o, r) ==
    [obs |-> [o EXCEPT !.accounted = @ + r.fill],
     events |-> {Amount("fill", r.fill), Event("sliceCompleted")}]

(* Terminal: only what the cloid has filled since its last Terminal. *)
ProjectTerminal(o, r) ==
    LET delta == Max({r.fill - o.acc[r.cloid], 0})
        next == [o EXCEPT !.acc = [@ EXCEPT ![r.cloid] = r.fill], !.accounted = @ + delta]
        near == o.cap > 0 /\ ~o.near /\ 10 * RemainingOf(next) <= o.cap
    IN  [obs |-> [next EXCEPT !.near = @ \/ near],
         events |-> {Event("sliceTerminal"), Event("sliceCompleted")}
            \cup (IF delta > 0 THEN {Amount("fill", delta)} ELSE {})
            \cup (IF o.cap > 0 THEN {Amount("capRemaining", RemainingOf(next))} ELSE {})
            \cup (IF near THEN {Amount("capNear", RemainingOf(next))} ELSE {})]

(* Fault: a report without open orders is taken for a completion. *)
OutcomeOfUnresolved(r) == IF r.unk = {} THEN "completed" ELSE "incomplete"

Outcome(r) ==
    IF r.completed THEN "completed" ELSE IF r.unk # {} THEN "incomplete" ELSE "aborted"

(* final_stop_reason: the class of the note, or Abort. *)
StopReason(r) ==
    IF r.unk # {} THEN "reconciliation_failed"
    ELSE IF r.completed THEN "completed"
    ELSE IF r.note \in {"cap_reached", "deadline", "interrupted"} THEN r.note ELSE "abort"

(* FinalReport: the checkpoint of a position phase is no end of the run.   *)
ProjectReport(o, r) ==
    LET failed == r.note = "reconciliation failed"
        checkpoint == ~r.completed /\ r.unk = {} /\ r.note = "phase completed"
        found == [k |-> "reconciliation", n |-> Cardinality(r.unk),
                  outcome |-> IF failed THEN "failed"
                              ELSE IF r.unk = {} THEN "completed" ELSE "unresolved"]
    IN  [obs |-> o,
         events |-> {Amount("capRemaining", RemainingOf(o))}
            \cup (IF checkpoint THEN {}
                  ELSE {[k |-> "runStopped", reason |-> StopReason(r)],
                        [k |-> "finalReport", outcome |-> Outcome(r)]})
            \cup (IF ~checkpoint /\ (r.unk # {} \/ o.seen \/ failed) THEN {found} ELSE {})
            \cup (IF /\ ~checkpoint /\ ~failed /\ ~r.completed
                     /\ r.unk = {} /\ StopReason(r) = "abort"
                  THEN {Event("executionFailed")} ELSE {})]

Project(o, r) ==
    CASE r.kind = "header" ->
            [obs |-> [o EXCEPT !.cap = Cap],
             events |-> {Event("runStarted"), Amount("capRemaining", Cap)}]
      [] r.kind = "prepared" -> [obs |-> o, events |-> {Event("slicePrepared")}]
      [] r.kind = "submittedUnknown" ->
            [obs |-> [o EXCEPT !.seen = TRUE], events |-> {Event("sliceSubmitted")}]
      [] r.kind = "acknowledged" -> [obs |-> o, events |-> {Event("sliceAcknowledged")}]
      [] r.kind = "terminal" -> ProjectTerminal(o, r)
      [] r.kind = "report" -> ProjectReport(o, r)
      [] r.kind = "abandoned" ->
            [obs |-> o,
             events |-> {[k |-> "runStopped", reason |-> "abort"],
                         [k |-> "finalReport", outcome |-> "aborted"]}]

-----------------------------------------------------------------------------
(* Where the events go. *)

Metrics == [filled |-> 0, state |-> "idle", cap |-> 0, open |-> 0]

Says(events, k) == \E e \in events : e.k = k
The(events, k) == CHOOSE e \in events : e.k = k
FillOf(events) == IF Says(events, "fill") THEN The(events, "fill").n ELSE 0

(* MetricsRegistry::observe_event, for the events of one record. *)
Metered(g, events) ==
    [filled |-> g.filled + FillOf(events),
     cap |-> IF Says(events, "capRemaining") THEN The(events, "capRemaining").n ELSE g.cap,
     open |-> IF Says(events, "reconciliation")
              THEN LET e == The(events, "reconciliation") IN
                   IF e.outcome = "completed" THEN 0 ELSE e.n
              ELSE g.open,
     state |-> CASE Says(events, "finalReport") -> "finished"
                 [] Says(events, "runStarted") \/ Says(events, "runResumed") -> "running"
                 [] OTHER -> g.state]

(* Restoring adds the fills of the journal's events to what is there, and  *)
(* takes their last word on the rest.                                      *)
Restored(g) == [durable.metrics EXCEPT !.filled = @ + g.filled]

(* Fault: an order that is still open is not worth an alert. *)
AlertForFailed(e) ==
    \/ e.k \in {"capNear", "executionFailed"}
    \/ e.k = "reconciliation" /\ e.outcome = "failed"
    \/ e.k = "runStopped" /\ e.reason \in {"cap_reached", "deadline"}

AlertFor(e) ==
    \/ e.k \in {"capNear", "executionFailed"}
    \/ e.k = "reconciliation" /\ e.outcome # "completed"
    \/ e.k = "runStopped" /\ e.reason \in {"cap_reached", "deadline"}

(* AlertHook::try_send: never waits; what does not fit is dropped and      *)
(* counted.  "raised" is what the last record gave rise to.                *)
Alerted(events) ==
    LET new == {e \in events : AlertFor(e)}
        room == QueueCapacity - proc.queue
    IN  [queue |-> proc.queue + Min({room, Cardinality(new)}),
         raised |-> {e.k : e \in new}]

(* The lines of these events, as a reader of the log adds them up. *)
Logged(events) ==
    [fills |-> log.fills + FillOf(events),
     nears |-> log.nears + (IF Says(events, "capNear") THEN 1 ELSE 0),
     completed |-> log.completed
        \/ \E e \in events : e.k = "finalReport" /\ e.outcome = "completed"]

(* ObservedEventWriter::try_emit: any of the lines may fail, or not be     *)
(* reached.                                                                *)
Writes(events) ==
    \/ log' = log
    \/ proc.logging /\ \E written \in SUBSET events : log' = Logged(written)

(* emit_payload: metrics and alerts do not depend on the log. *)
Emitted(events) ==
    LET a == Alerted(events) IN
    /\ proc' = [proc EXCEPT !.metrics = Metered(@, events), !.queue = a.queue,
                            !.raised = a.raised]
    /\ Writes(events)

-----------------------------------------------------------------------------
Down == [command |-> "none", handle |-> "none", started |-> FALSE, logging |-> FALSE,
         metrics |-> Metrics, queue |-> 0, raised |-> {}]

Init ==
    /\ JournalInit
    /\ proc = Down
    /\ obs = Projector
    /\ durable = [obs |-> Projector, metrics |-> Metrics]
    /\ log = [fills |-> 0, nears |-> 0, completed |-> FALSE]

(* The records a writer may append, with claims that are true or not. *)
Reports == [kind : {"report"}, completed : BOOLEAN, total : {jtotal, jtotal + 1},
            unk : {Unresolved, {}, Cloids},
            note : {"phase completed", "cap_reached", "deadline", "interrupted",
                    "reconciliation failed", "other"}]
Orders ==
    [kind : {"prepared"}, cloid : Cloids, idx : Indices, size : {Lot}]
    \cup [kind : {"submittedUnknown", "acknowledged"}, cloid : Cloids, idx : Indices]
    \cup [kind : {"terminal"}, cloid : Cloids, idx : Indices, fill : Sizes]

Records == Reports \cup Orders \cup {[kind |-> "abandoned"]}

JournalStep(r) ==
       \/ r.kind = "header" /\ RecordHeader
       \/ r.kind = "abandoned" /\ RecordAbandoned
       \/ r.kind = "prepared" /\ RecordPrepared(r.cloid, r.idx, r.size)
       \/ r.kind \in {"submittedUnknown", "acknowledged"}
            /\ RecordProgress(r.cloid, r.idx, r.kind)
       \/ r.kind = "terminal" /\ RecordTerminal(r.cloid, r.idx, r.fill)
       \/ r.kind = "report" /\ RecordFinalReport(r.completed, r.total, r.unk)

(* ExecutionJournal::record, up to the fsync. *)
Durable(r) ==
    /\ JournalStep(r)
    /\ valid'
    /\ LET p == Project(durable.obs, r) IN
       durable' = [obs |-> p.obs, metrics |-> Metered(durable.metrics, p.events)]

(* A new run: the Header is durable before there is an observer. *)
StartsRun ==
    /\ proc.command = "none" /\ ~header
    /\ Durable([kind |-> "header"])
    /\ proc' = [Down EXCEPT !.command = "new", !.handle = "bare"]
    /\ UNCHANGED <<obs, log>>

(* live_journal_observer: the log may be unavailable. *)
Opens(handle, started, metrics, emit, logging) ==
    LET a == Alerted(emit) IN
    /\ proc' = [proc EXCEPT !.handle = handle, !.started = started, !.logging = logging,
                            !.metrics = Metered(metrics, emit), !.queue = a.queue, !.raised = {}]
    /\ log' = IF logging THEN Logged(emit) ELSE log

AttachNew ==
    LET p == Project(Projector, [kind |-> "header"]) IN
    /\ proc.command = "new" /\ proc.handle = "bare"
    /\ \E logging \in BOOLEAN :
        Opens("observed", FALSE, proc.metrics, p.events \cup {Event("preflight")}, logging)
    /\ obs' = p.obs
    /\ UNCHANGED <<jvars, durable>>

(* --resume and --abandon-incomplete-run seed before they reconcile. *)
OpensRun ==
    /\ proc.command = "none" /\ valid /\ header /\ IsIncomplete
    /\ \E command \in {"resume", "abandon"}, logging \in BOOLEAN :
        LET emit == IF command = "resume" THEN {Event("runResumed")} ELSE {} IN
        /\ proc' = [Down EXCEPT !.command = command, !.handle = "observed",
                                !.started = command = "resume", !.logging = logging,
                                !.metrics = Metered(Restored(Metrics), emit)]
        /\ log' = IF logging THEN Logged(emit) ELSE log
    /\ obs' = durable.obs
    /\ UNCHANGED <<jvars, durable>>

(* Fault: every observer restores the metrics. *)
ReattachesRestoring ==
    /\ proc.command = "resume" /\ proc.handle = "observed" /\ valid
    /\ \E logging \in BOOLEAN :
        Opens("observed", TRUE, Restored(proc.metrics), {Event("preflight")}, logging)
    /\ obs' = durable.obs
    /\ UNCHANGED <<jvars, durable>>

(* The journal is opened once more to continue the run or to refuse it: a  *)
(* new observer, over metrics that are already there.                      *)
Reattaches ==
    /\ proc.command = "resume" /\ proc.handle = "observed" /\ valid
    /\ \E logging \in BOOLEAN :
        Opens("observed", TRUE,
              IF proc.started THEN proc.metrics ELSE Restored(proc.metrics),
              {Event("preflight")}, logging)
    /\ obs' = durable.obs
    /\ UNCHANGED <<jvars, durable>>

(* An expired resume and one with nothing to do open it without one. *)
OpensUnobserved ==
    /\ proc.command = "resume" /\ proc.handle = "observed" /\ valid
    /\ proc' = [proc EXCEPT !.handle = "bare"]
    /\ UNCHANGED <<jvars, obs, durable, log>>

(* record: durable, then observed. *)
Appends(r) ==
    /\ proc.handle = "observed" /\ valid
    /\ Durable(r)
    /\ LET p == Project(obs, r) IN obs' = p.obs /\ Emitted(p.events)

AppendsUnobserved(r) ==
    /\ proc.handle = "bare" /\ proc.command = "resume" /\ valid /\ r.kind = "report"
    /\ Durable(r)
    /\ UNCHANGED <<proc, obs, log>>

(* A record that replay refuses: no process reads this journal again, and  *)
(* what the observer makes of it is of no consequence.                     *)
AppendsRefused(r) ==
    /\ proc.handle = "observed" /\ valid
    /\ JournalStep(r) /\ ~valid'
    /\ UNCHANGED ovars

(* The process dies after the fsync, before or while the observer is       *)
(* called.                                                                 *)
DiesUnobserved(r) ==
    /\ proc.handle = "observed" /\ valid
    /\ Durable(r)
    /\ Writes(Project(obs, r).events)
    /\ proc' = Down /\ obs' = Projector

(* The worker: an alert is delivered, refused or timed out. *)
Delivers ==
    /\ proc.queue > 0 /\ proc' = [proc EXCEPT !.queue = @ - 1]
    /\ UNCHANGED <<jvars, obs, durable, log>>

(* The process ends, by itself after the drain of the queue, which is      *)
(* bounded, or not.                                                        *)
Ends ==
    /\ proc.command # "none" /\ proc' = Down /\ obs' = Projector
    /\ UNCHANGED <<jvars, durable, log>>

Next ==
    \/ StartsRun \/ AttachNew \/ OpensRun \/ Reattaches \/ OpensUnobserved
    \/ \E r \in Records : Appends(r) \/ AppendsUnobserved(r) \/ AppendsRefused(r)
                             \/ DiesUnobserved(r)
    \/ Delivers \/ Ends

ObserverSpec == Init /\ [][Next]_vars

-----------------------------------------------------------------------------
GaugesMatchTotal ==
    valid /\ proc.handle = "observed" =>
        proc.metrics.filled = jtotal /\ proc.metrics.cap = Max({Cap - jtotal, 0})

(* The gauges of filled size and remaining cap, the replayed total and the *)
(* last Terminal records agree, in every process of a run and after every  *)
(* reattachment: repeated Terminal records count once, and restored        *)
(* metrics are restored once.                                              *)
MetricsMatchJournal ==
    /\ valid => jtotal = MapThenSumSet(LAMBDA c : jfill[c], Cloids)
    /\ GaugesMatchTotal

(* The event log may miss fills, when a write fails or a process dies, but *)
(* over all processes it never reports one twice, nor a low cap.           *)
LogNeverOverstates == valid => log.fills <= jtotal /\ log.nears <= 1

(* A run that the event log calls completed is closed in the journal. *)
CompletedEventIsTrue == valid /\ log.completed => header /\ ~IsIncomplete

(* An observer that sees a report with open orders raises an alert, queued *)
(* or counted as dropped.                                                  *)
UnresolvedIsAlerted ==
    [][/\ valid' /\ proc.handle = "observed" /\ proc'.handle = "observed"
       /\ unknowns # unknowns' /\ unknowns' # {}
       => "reconciliation" \in proc'.raised]_vars
=============================================================================
