------------------------------ MODULE Startup -------------------------------
(***************************************************************************)
(* Processes over one state directory (src/src/main.rs, run_with_cli;      *)
(* src/src/journal.rs, find_incomplete_run and start): each takes its      *)
(* owner's lock, reads the other runs, and only then resumes, abandons or  *)
(* begins one.  Processes are started with any command line, at any time,  *)
(* and crash at any time.                                                  *)
(*                                                                         *)
(* An owner is a network and an agent key.  A run trades in orders that    *)
(* are settled or, after a crash, left behind; how they are settled is the *)
(* subject of TwapRun and PositionRun, as are targets across zero, which   *)
(* no command line here asks for.                                          *)
(***************************************************************************)
EXTENDS CommandLine, FiniteSets

CONSTANTS
    MaxStarts, \* bound: processes, in the order of their invocation
    Agents,    \* owners
    MasterOf,  \* userRole: each agent's master account
    MaxRuns,   \* bound: runs, in the order of their UUIDv7 ids
    Mids,      \* prices the book may show
    Commands,  \* command lines that are used
    Holding,   \* each account's position at first
    Heirlooms  \* runs that may be there from the start

ASSUME StartupBounds == MaxRuns \in Nat /\ MaxStarts \in Nat /\ Mids \subseteq Nat \ {0}

ASSUME CommandsTyped ==
    \A c \in Commands :
        DOMAIN c = OptionNames /\ RequestOptions(c) /\ ExecutionOptions(c) /\ RunOptions(c)

ASSUME CommandsOwned == \A c \in Commands : c.agent \in Agents
ASSUME AccountsTyped == MasterOf \in [Agents -> STRING] /\ Holding \in [Agents -> Int]
ASSUME NoValueFresh == NoValue \notin Nat /\ NoValue \notin Decimals /\ NoValue \notin Prints

Ids == 1..MaxRuns
Procs == 1..MaxStarts
Unset == -1

VARIABLES
    runs,     \* the runs directory
    lock,     \* who holds each owner's flock
    proc,
    elapsed,  \* deadlines that have passed: 0 the operator's, r that of run r
    pos,      \* clearinghouseState of each owner's master
    asked     \* history: the plan each run was started with

vars == <<runs, lock, proc, elapsed, pos, asked>>

NoRun == [stage |-> "none", agent |-> NoValue, symbol |-> NoValue, side |-> 0,
          master |-> NoValue, print |-> NoValue, deadline |-> 0, status |-> "incomplete",
          open |-> 0, filled |-> 0]

(* What a run directory may hold when the processes start.  Replay refuses *)
(* a completed or an abandoned run with an order that is not terminal.     *)
ASSUME HeirloomsReplay ==
    \A h \in Heirlooms :
        /\ DOMAIN h.run = DOMAIN NoRun /\ h.run.stage \in {"none", "dir", "file", "header"}
        /\ h.run.status \in {"incomplete", "completed", "abandoned"}
        /\ h.run.open \in Nat /\ h.run.filled \in Nat /\ h.run.side \in {-1, 0, 1}
        /\ h.run.stage # "header" =>
              h.run.status = "incomplete" /\ h.run.open = 0 /\ h.run.filled = 0
        /\ h.run.stage = "header" => h.run.agent \in Agents
        /\ h.run.status # "incomplete" => h.run.open = 0

(* A fingerprint as it was stored, but for one size that may have changed. *)
ChangedInOneSize(f, print) ==
    \/ print = [f EXCEPT !.total = print.total]
    \/ print = [f EXCEPT !.per = print.per]
    \/ print = [f EXCEPT !.adjusted = print.adjusted]

(* A run that an earlier process of this program began, for this plan. *)
Written(r, plan) ==
    \E c \in Commands, mid \in Mids :
        /\ Accepted(c) /\ c.live
        /\ plan = PlanOf(c, mid, plan.initial) /\ plan.initial \in Int /\ r.side = plan.side
        /\ r.print \in Prints
        /\ ChangedInOneSize(Fingerprint(c, plan, mid, r.master, r.deadline), r.print)

(* What it has traded is in the account, and is not more than its plan.    *)
TradedWithin(r, plan, position) ==
    /\ r.filled + r.open <= LogicalTotal(plan)
    /\ r.print.mode \in PositionModes => position = ApplySignedFill(plan.initial, r.side, r.filled)

ASSUME HeirloomsWritten ==
    \A h \in Heirlooms : h.run.stage = "header" /\ h.run.print # NoValue =>
        /\ Written(h.run, h.asked)
        /\ h.run.status = "incomplete" => TradedWithin(h.run, h.asked, Holding[h.run.agent])

Off == [pc |-> "off", cmd |-> NoValue, left |-> {}, run |-> 0, mid |-> 1, plan |-> NoValue,
        todo |-> 0, sent |-> FALSE]

Init ==
    /\ \E r \in Heirlooms : /\ runs = [i \in Ids |-> IF i = 1 THEN r.run ELSE NoRun]
                            /\ asked = [i \in Ids |-> IF i = 1 THEN r.asked ELSE NoValue]
    /\ lock = [a \in Agents |-> NoValue]
    /\ proc = [p \in Procs |-> Off]
    /\ elapsed = {}
    /\ pos = Holding

Cmd(p) == proc[p].cmd
Agent(p) == Cmd(p).agent
MyRun(p) == runs[proc[p].run]

Goes(p, pc) == proc' = [proc EXCEPT ![p].pc = pc]

(* A process ends, by itself or not: the kernel releases its lock, and an  *)
(* order it had not settled is left behind.                                *)
Ends(p) ==
    /\ proc' = [proc EXCEPT ![p] = [Off EXCEPT !.pc = "ended"]]
    /\ lock' = [a \in Agents |-> IF lock[a] = p THEN NoValue ELSE lock[a]]

Refused(p) == Ends(p) /\ UNCHANGED <<runs, elapsed, pos, asked>>

-----------------------------------------------------------------------------
(* Reading the directory. *)

(* The fingerprint is of the run that its Header names. *)
HeaderMatches(r) ==
    r.print # NoValue =>
        /\ r.print.symbol = r.symbol /\ r.print.side = r.side
        /\ r.print.deadline = r.deadline
        /\ r.print.agent = r.agent /\ r.print.master = r.master

(* read_all and replay: a half-made run has no Header. *)
Readable(r) == r.stage = "header" /\ HeaderReplays(r.print) /\ HeaderMatches(r)

(* Fault: only a final report closes a run. *)
IncompleteUnreported(r, agent) ==
    r.stage = "header" /\ r.agent = agent /\ r.status # "completed"

(* RunSummary::is_incomplete, and the Header's run_key. *)
IncompleteOf(r, agent) == r.stage = "header" /\ r.agent = agent /\ r.status = "incomplete"

(* run_reports, what hype-twap-runs and --report-json say of a run. *)
ReportStatus(r) ==
    IF ~Readable(r) THEN "corrupt"
    ELSE IF r.status = "completed" THEN "success" ELSE r.status

(* Fault: every position request is taken to have a value. *)
EligibleWithValue(r) ==
    /\ ReportStatus(r) = "incomplete" /\ r.print # NoValue
    /\ r.print.deadline = r.deadline
    /\ r.print.value # NoValue

(* resume_eligible: the fingerprint carries what a resume of its mode has  *)
(* to have, and no more.                                                   *)
ResumeEligible(r) ==
    /\ ReportStatus(r) = "incomplete" /\ r.print # NoValue
    /\ r.print.deadline = r.deadline
    /\ IF r.print.mode \in OrdinaryModes
       THEN r.print.initial = NoValue /\ r.print.target = NoValue /\ r.print.phases = <<>>
       ELSE /\ r.print.initial # NoValue /\ r.print.target # NoValue /\ r.print.phases # <<>>
            /\ (r.print.value = NoValue) = (r.print.mode = "flatten")
            /\ (r.print.ref # NoValue) = (r.print.mode = "target_usd")

(* validated_resume_replay: the journal is this owner's, for this account, *)
(* market and side.  A position request names no side.                     *)
Identified(c, r, master) ==
    /\ Readable(r) /\ r.agent = c.agent /\ r.symbol = c.symbol
    /\ ~PositionMode(c) => r.side = c.side
    /\ master # NoValue => r.master = master

-----------------------------------------------------------------------------
(* Up to the first request. *)

Invoked(p) == proc[p].pc = "off" /\ \A q \in Procs : q < p => proc[q].pc # "off"

(* What is refused before any state is read, and a dry run, which takes no *)
(* lock, keeps no state and sends nothing.                                 *)
RefusedEarly(p, c) == Invoked(p) /\ ~Accepted(c) /\ Refused(p)
DryRun(p, c) == Invoked(p) /\ Accepted(c) /\ ~c.live /\ Refused(p)

Locks(p, c) ==
    /\ lock' = [lock EXCEPT ![c.agent] = p]
    /\ proc' = [proc EXCEPT ![p].pc = "locked", ![p].cmd = c]
    /\ UNCHANGED <<runs, elapsed, pos, asked>>

(* Fault: the other process's lock is taken for a stale one. *)
LockTaken(p, c) == Invoked(p) /\ Accepted(c) /\ c.live /\ Locks(p, c)

TakeLock(p, c) ==
    /\ Invoked(p) /\ Accepted(c) /\ c.live /\ lock[c.agent] = NoValue
    /\ Locks(p, c)

LockHeld(p, c) ==
    Invoked(p) /\ Accepted(c) /\ c.live /\ lock[c.agent] # NoValue /\ Refused(p)

(* The run to resume is checked by name before the directory is read. *)
NamedRunOk(c) == c.select = "resume" => c.run \in Ids /\ Identified(c, runs[c.run], c.master)

ListRuns(p) ==
    /\ proc[p].pc = "locked" /\ NamedRunOk(Cmd(p))
    /\ proc' = [proc EXCEPT ![p].pc = "scan",
                            ![p].left = {i \in Ids : runs[i].stage # "none"}]
    /\ UNCHANGED <<runs, lock, elapsed, pos, asked>>

NamedRunRefused(p) == proc[p].pc = "locked" /\ ~NamedRunOk(Cmd(p)) /\ Refused(p)

NextListed(p) == CHOOSE i \in proc[p].left : \A j \in proc[p].left : i <= j

(* find_incomplete_run, one journal after the other; a journal that cannot *)
(* be read, of whatever owner, stops the start.                            *)
ReadRun(p) ==
    LET i == NextListed(p) IN
    /\ proc[p].pc = "scan" /\ proc[p].left # {} /\ Readable(runs[i])
    /\ \/ /\ IncompleteOf(runs[i], Agent(p))
          /\ proc' = [proc EXCEPT ![p].run = i, ![p].left = {}, ![p].pc = "gate"]
       \/ /\ ~IncompleteOf(runs[i], Agent(p))
          /\ proc' = [proc EXCEPT ![p].left = @ \ {i}]
    /\ UNCHANGED <<runs, lock, elapsed, pos, asked>>

ReadRunFails(p) ==
    proc[p].pc = "scan" /\ proc[p].left # {} /\ ~Readable(runs[NextListed(p)]) /\ Refused(p)

NoneFound(p) ==
    /\ proc[p].pc = "scan" /\ proc[p].left = {}
    /\ Goes(p, "gate") /\ UNCHANGED <<runs, lock, elapsed, pos, asked>>

(* The gate: an open run must be the one resumed, or be abandoned. *)
MayStart(c, found) ==
    IF found = 0 THEN c.select # "resume"
    ELSE \/ c.select = "resume" /\ c.run = found
         \/ c.select = "abandon" /\ Identified(c, runs[found], c.master)

PassGate(p) ==
    /\ proc[p].pc = "gate" /\ MayStart(Cmd(p), proc[p].run)
    /\ Goes(p, "probe") /\ UNCHANGED <<runs, lock, elapsed, pos, asked>>

GateRefuses(p) == proc[p].pc = "gate" /\ ~MayStart(Cmd(p), proc[p].run) /\ Refused(p)

-----------------------------------------------------------------------------
(* Up to the plan. *)

(* meta and userRole answered; a declared master must be the real one.     *)
(* An abandonment looks for its run again.                                 *)
Probe(p) ==
    /\ proc[p].pc = "probe"
    /\ Cmd(p).master \in {NoValue, MasterOf[Agent(p)]}
    /\ Cmd(p).select = "abandon" => proc[p].run # 0
    /\ Cmd(p).select # "new" => Identified(Cmd(p), MyRun(p), MasterOf[Agent(p)])
    /\ Goes(p, IF Cmd(p).select = "new" THEN "price" ELSE "reconcile")
    /\ UNCHANGED <<runs, lock, elapsed, pos, asked>>

ProbeRefused(p) ==
    /\ proc[p].pc = "probe"
    /\ \/ Cmd(p).master \notin {NoValue, MasterOf[Agent(p)]}
       \/ Cmd(p).select = "abandon" /\ proc[p].run = 0
       \/ /\ Cmd(p).select # "new" /\ proc[p].run # 0
          /\ ~Identified(Cmd(p), MyRun(p), MasterOf[Agent(p)])
    /\ Refused(p)

(* An order that was left behind is found to have traded, or not. *)
Credited(r, fill) == [r EXCEPT !.open = 0, !.filled = @ + fill]

Reconcile(p) ==
    /\ proc[p].pc = "reconcile" /\ MyRun(p).open # 0
    /\ \E fill \in {0, MyRun(p).open} :
        /\ runs' = [runs EXCEPT ![proc[p].run] = Credited(@, fill)]
        /\ pos' = [pos EXCEPT ![Agent(p)] = ApplySignedFill(@, MyRun(p).side, fill)]
    /\ UNCHANGED <<lock, proc, elapsed, asked>>

(* Fault: the order is not waited for. *)
ReconciledUnasked(p) == proc[p].pc = "reconcile"

Reconciled(p) == proc[p].pc = "reconcile" /\ MyRun(p).open = 0

(* A failed query leaves an incomplete report, and the run as it was. *)
ReconcileFails(p) == proc[p].pc = "reconcile" /\ MyRun(p).open # 0 /\ Refused(p)

Abandon(p) ==
    /\ Reconciled(p) /\ Cmd(p).select = "abandon"
    /\ runs' = [runs EXCEPT ![proc[p].run].status = "abandoned"]
    /\ Ends(p) /\ UNCHANGED <<elapsed, pos, asked>>

Continues(p) == Reconciled(p) /\ Cmd(p).select = "resume"
Matches(p) == MayResume(Cmd(p), MyRun(p).print, MasterOf[Agent(p)])

FingerprintRefused(p) == Continues(p) /\ ~Matches(p) /\ Refused(p)

(* The frozen target is reached, by what is filled and by the position. *)
Satisfied(p) ==
    LET plan == Resumed(Cmd(p), MyRun(p).print) IN
    IF PositionMode(Cmd(p)) THEN pos[Agent(p)] = plan.target
    ELSE MyRun(p).filled >= plan.sizing.adjusted

(* Past its deadline a run is only judged. *)
ResumeExpired(p) ==
    /\ Continues(p) /\ Matches(p) /\ MyRun(p).deadline \in elapsed
    /\ runs' = [runs EXCEPT ![proc[p].run].status =
                    IF Satisfied(p) THEN "completed" ELSE "incomplete"]
    /\ Ends(p) /\ UNCHANGED <<elapsed, pos, asked>>

ResumeMatches(p) ==
    /\ Continues(p) /\ Matches(p) /\ MyRun(p).deadline \notin elapsed
    /\ Goes(p, "price") /\ UNCHANGED <<runs, lock, elapsed, pos, asked>>

(* The trigger has fired, or did not and the process ends (Crash). *)
SeesPrice(p) ==
    /\ proc[p].pc = "price"
    /\ \E mid \in Mids : proc' = [proc EXCEPT ![p].pc = "plan", ![p].mid = mid]
    /\ UNCHANGED <<runs, lock, elapsed, pos, asked>>

DeadlineOf(p) ==
    IF Cmd(p).select = "resume" THEN MyRun(p).deadline
    ELSE IF Cmd(p).deadline = NoValue THEN Unset ELSE Cmd(p).deadline

(* Fault: a resumed request is sized again, at today's price. *)
FrozenPlanResized(p) == PlanOf(Cmd(p), proc[p].mid, pos[Agent(p)])

(* The plan of the whole run: a new one, or the stored one. *)
FrozenPlan(p) ==
    IF Cmd(p).select = "resume" THEN Resumed(Cmd(p), MyRun(p).print)
    ELSE PlanOf(Cmd(p), proc[p].mid, pos[Agent(p)])

(* What this process is to execute of it: a position is brought from where *)
(* it is to the frozen target, a size is what has not been filled.         *)
Continuation(p) ==
    IF PositionMode(Cmd(p))
    THEN PositionPlanTo(FrozenPlan(p).target, pos[Agent(p)], Cmd(p).slices)
    ELSE FrozenPlan(p)

Todo(p) ==
    IF PositionMode(Cmd(p)) THEN Magnitude(Continuation(p).target - pos[Agent(p)])
    ELSE FrozenPlan(p).sizing.adjusted
            - (IF Cmd(p).select = "resume" THEN MyRun(p).filled ELSE 0)

(* Fault: what is confirmed is what is left to close. *)
ConfirmedRemainder(p) ==
    /\ DeadlineOf(p) # Unset /\ DeadlineOf(p) \notin elapsed
    /\ Cmd(p).token = Token(Cmd(p), Continuation(p), MasterOf[Agent(p)], DeadlineOf(p))

(* A flatten names a deadline that is to come, and the token of the whole  *)
(* close as it was frozen.                                                 *)
Confirmed(p) ==
    /\ DeadlineOf(p) # Unset /\ DeadlineOf(p) \notin elapsed
    /\ Cmd(p).token = Token(Cmd(p), FrozenPlan(p), MasterOf[Agent(p)], DeadlineOf(p))

(* Sized, within the cap, and confirmed.  An ordinary resume goes through  *)
(* the pre-flight of its whole request once more, at today's price.        *)
Executable(p) ==
    LET plan == IF PositionMode(Cmd(p)) THEN Continuation(p)
                ELSE PlanOf(Cmd(p), proc[p].mid, 0) IN
    /\ Todo(p) > 0
    /\ \A total \in {plan.sizing.total} \cup {plan.phases[i].size : i \in DOMAIN plan.phases} :
            SizingAccepted(total, Cmd(p).slices, proc[p].mid)
    /\ CheckNotionalCap(PreflightNotional(Cmd(p), plan, proc[p].mid), Cmd(p).cap)
    /\ Cmd(p).mode = "flatten" => Confirmed(p)

PlanRefused(p) ==
    /\ proc[p].pc = "plan" /\ ~Executable(p)
    /\ Todo(p) > 0 \/ Cmd(p).select = "new"
    /\ Refused(p)

(* Nothing is left to do: the run is reported complete. *)
AlreadyThere(p) ==
    /\ proc[p].pc = "plan" /\ Cmd(p).select = "resume" /\ Todo(p) <= 0
    /\ runs' = [runs EXCEPT ![proc[p].run].status = "completed"]
    /\ Ends(p) /\ UNCHANGED <<elapsed, pos, asked>>

Planned(p) ==
    /\ proc[p].pc = "plan" /\ Executable(p)
    /\ proc' = [proc EXCEPT ![p].pc = IF Cmd(p).select = "new" THEN "mkdir" ELSE "execute",
                            ![p].plan = Continuation(p), ![p].todo = Todo(p)]
    /\ UNCHANGED <<runs, lock, elapsed, pos, asked>>

-----------------------------------------------------------------------------
(* ExecutionJournal::start, and execution. *)

FreshId == CHOOSE i \in Ids : runs[i].stage = "none" /\ \A j \in Ids : j < i => runs[j].stage # "none"

MakeDir(p) ==
    /\ proc[p].pc = "mkdir" /\ \E i \in Ids : runs[i].stage = "none"
    /\ DeadlineOf(p) \notin elapsed
    /\ runs' = [runs EXCEPT ![FreshId].stage = "dir"]
    /\ proc' = [proc EXCEPT ![p].run = FreshId, ![p].pc = "create"]
    /\ UNCHANGED <<lock, elapsed, pos, asked>>

TooLate(p) == proc[p].pc = "mkdir" /\ DeadlineOf(p) \in elapsed /\ Refused(p)

MakeFile(p) ==
    /\ proc[p].pc = "create"
    /\ runs' = [runs EXCEPT ![proc[p].run].stage = "file"]
    /\ Goes(p, "header") /\ UNCHANGED <<lock, elapsed, pos, asked>>

WriteHeader(p) ==
    LET i == proc[p].run
        deadline == IF DeadlineOf(p) = Unset THEN i ELSE DeadlineOf(p) IN
    /\ proc[p].pc = "header"
    /\ runs' = [runs EXCEPT ![i] =
            [@ EXCEPT !.stage = "header", !.agent = Agent(p), !.master = MasterOf[Agent(p)], !.symbol = Cmd(p).symbol,
                      !.side = proc[p].plan.side, !.deadline = deadline,
                      !.print = Fingerprint(Cmd(p), proc[p].plan, proc[p].mid,
                                            MasterOf[Agent(p)], deadline)]]
    /\ asked' = [asked EXCEPT ![i] = proc[p].plan]
    /\ Goes(p, "execute") /\ UNCHANGED <<lock, elapsed, pos>>

SendOrder(p) ==
    /\ proc[p].pc = "execute" /\ proc[p].todo > 0 /\ MyRun(p).open = 0
    /\ MyRun(p).deadline \notin elapsed
    /\ LET per == proc[p].plan.sizing.per
           size == IF proc[p].todo < 2 * per THEN proc[p].todo ELSE per
       IN  runs' = [runs EXCEPT ![proc[p].run].open = size]
    /\ proc' = [proc EXCEPT ![p].sent = TRUE]
    /\ UNCHANGED <<lock, elapsed, pos, asked>>

SettleOrder(p) ==
    /\ proc[p].pc = "execute" /\ proc[p].sent
    /\ \E fill \in {0, MyRun(p).open} :
        /\ runs' = [runs EXCEPT ![proc[p].run] = Credited(@, fill)]
        /\ pos' = [pos EXCEPT ![Agent(p)] = ApplySignedFill(@, MyRun(p).side, fill)]
        /\ proc' = [proc EXCEPT ![p].todo = @ - fill, ![p].sent = FALSE]
    /\ UNCHANGED <<lock, elapsed, asked>>

(* The run is over: complete, or with a report that it is not. *)
RunEnds(p) ==
    /\ proc[p].pc = "execute" /\ MyRun(p).open = 0
    /\ runs' = [runs EXCEPT ![proc[p].run].status =
            IF proc[p].todo = 0 THEN "completed" ELSE "incomplete"]
    /\ Ends(p) /\ UNCHANGED <<elapsed, pos, asked>>

(* The process dies, or gives up for want of an answer. *)
Crash(p) == proc[p].pc \notin {"off", "ended"} /\ Refused(p)

DeadlinePasses(d) ==
    /\ d \notin elapsed /\ (d # 0 => IncompleteOf(runs[d], runs[d].agent))
    /\ elapsed' = elapsed \cup {d}
    /\ UNCHANGED <<runs, lock, proc, pos, asked>>

-----------------------------------------------------------------------------
Launching(p, c) == RefusedEarly(p, c) \/ DryRun(p, c) \/ TakeLock(p, c) \/ LockHeld(p, c)

Starting(p) ==
    \/ ListRuns(p) \/ NamedRunRefused(p) \/ ReadRun(p) \/ ReadRunFails(p) \/ NoneFound(p)
    \/ PassGate(p) \/ GateRefuses(p)

Planning(p) ==
    \/ Probe(p) \/ ProbeRefused(p) \/ Reconcile(p) \/ ReconcileFails(p) \/ Abandon(p)
    \/ FingerprintRefused(p) \/ ResumeExpired(p) \/ ResumeMatches(p)
    \/ SeesPrice(p) \/ PlanRefused(p) \/ AlreadyThere(p) \/ Planned(p)

Executing(p) ==
    \/ MakeDir(p) \/ TooLate(p) \/ MakeFile(p) \/ WriteHeader(p)
    \/ SendOrder(p) \/ SettleOrder(p) \/ RunEnds(p)

Next ==
    \/ \E p \in Procs : \/ \E c \in Commands : Launching(p, c)
                        \/ Starting(p) \/ Planning(p) \/ Executing(p) \/ Crash(p)
    \/ \E d \in 0..MaxRuns : DeadlinePasses(d)

Spec == Init /\ [][Next]_vars

-----------------------------------------------------------------------------
(* One owner never has two runs open. *)
OneIncompletePerOwner ==
    \A a \in Agents : Cardinality({i \in Ids : IncompleteOf(runs[i], a)}) <= 1

(* Nothing is sent over an order that an earlier process left behind, in   *)
(* the run that is executed or in any other of the owner.                  *)
InheritedSettledFirst ==
    \A p \in Procs : proc[p].pc = "execute" =>
        \A i \in Ids : runs[i].agent = Agent(p) /\ runs[i].open # 0 =>
            i = proc[p].run /\ proc[p].sent

(* What is executed is what the run was started for: the plan is the one   *)
(* of the first process, whatever the price is now and whatever one stored *)
(* size has been changed to, and what is filled is not executed again.     *)
ExecutesTheRequest ==
    \A p \in Procs : proc[p].pc = "execute" =>
        /\ MyRun(p).side = asked[proc[p].run].side
        /\ MyRun(p).filled + proc[p].todo = LogicalTotal(asked[proc[p].run])

(* A flatten is executed only with the token of the position that the run  *)
(* was started over, before and after a restart.                           *)
ConfirmedIsFrozen ==
    \A p \in Procs : proc[p].pc = "execute" /\ Cmd(p).mode = "flatten" =>
        Cmd(p).token = Token(Cmd(p), asked[proc[p].run], MasterOf[Agent(p)], MyRun(p).deadline)

(* Every Header this program writes is one that it reads back: replay and  *)
(* the resume check accept it for the same request, however it is spelled. *)
OwnHeaderReplays ==
    \A p \in Procs : proc[p].pc = "execute" =>
        /\ Readable(MyRun(p))
        /\ \A c \in Commands :
            SameRequest(c, Cmd(p)) => MayResume(c, MyRun(p).print, MasterOf[Agent(p)])

(* A run that is continued is one that its report called resumable: an     *)
(* operator who goes by the report misses none.                            *)
ContinuedIsEligible ==
    \A p \in Procs : proc[p].pc \in {"price", "plan", "execute"} =>
        (Cmd(p).select = "resume" => ResumeEligible(MyRun(p)))

(* A run that was completed or abandoned is not touched again. *)
ClosedStaysClosed ==
    [][\A i \in Ids : runs[i].status # "incomplete" => runs'[i] = runs[i]]_vars
=============================================================================
