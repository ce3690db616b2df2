# TLA+ model of hype-trigger-twap

`hype-trigger-twap` is a command-line program that waits for a price or time
condition and then trades a quantity on Hyperliquid in slices (a TWAP).  It must
never trade more than it was asked to, although answers are lost, processes
crash and are resumed, and the exchange's query index trails its matching
engine.  What it knows after a crash is what its execution journal says.

This directory models the program from the command line to the last report: the
start over a directory of runs; the trigger wait and the book it sizes on; the
slice loop and the placement, reconciliation and settlement of its orders; position
targets with their phases and the notional cap; the journal and its replay, as
records and as bytes in a file; the events, metrics and alerts made from it; resume
and abandonment; the lock, the nonces and the calls that are signed with them; two
legs started as a pair under a watchdog.

## 1. Inventory

| Component | Code | State | Operations | Talks to |
|---|---|---|---|---|
| Command line | `main.rs` `Cli`, `execution_fingerprint`, `validate_resume_execution_fingerprint`; `risk.rs` | none | validation, canonical decimals, fingerprint, comparison | startup |
| Startup | `main.rs` `run_with_cli`; `journal.rs` `find_incomplete_run`, `start` | runs directory, locks | lock, gate over all runs, userRole probe, reconcile, compare, confirm, create the run | journal, exchange |
| Trigger wait | `trigger.rs` `wait_for_trigger` | failure streak, deadlines | time check, price poll, expiry, sleep | market data |
| Market data, price grid | `client.rs` `ValidatedMarketSnapshot`; `twap.rs` `fetch_fresh_book`; `format.rs` | none | validation, freshness, clock skew, rounding | exchange (books) |
| Slice loop | `twap.rs` `run_twap_journaled_*` | slice index, fills so far, the one resting child, abort reason | top-of-slice checks, sizing, placement, inter-slice wait, cleanup, final report | placement, settlement, journal, shutdown signal |
| Placement | `twap.rs` `place_slice_reconciled`, `place_alo_child`, `reconcile_by_cloid` | attempt, resend count, unknownOid streak | commit checks, send, four kinds of answer, bounded polls, safe resend | exchange, journal |
| Settlement | `twap.rs` `recover_resting_fill`, `SettleCancel`, `poll_terminal_status`, ledger fallback | cancel confirmation, attempt | cancel, poll, ledger total | exchange, journal |
| Follow loop | `twap.rs` `run_follow_loop`, `place_follow_child` | resting child, throttle | settle a moved child, re-quote, pause | placement, settlement |
| Sizing | `twap.rs` `compute_sizing` .. `decide_slice`; continuation in `main.rs` | none | pure | slice loop |
| Position targets | `position.rs`, `main.rs` | frozen plan, phase | plan, guard at the send, close then open, verification, resume | slice loop, journal |
| Risk limits | `risk.rs`, `client.rs` `ValidatedFill` | notional so far | cap, fill validation | slice loop, journal |
| Journal, records | `journal.rs` `ValidatedJournalReplay`, `RunSummary` | state, slice, size and fill per cloid, reports | one fold step per record | every writer and reader |
| Journal, file | `journal.rs` `start`, `record`, `read_all`, `open_existing` | bytes of `journal.jsonl` | append + fsync, torn-tail tolerant read, repair of the tail | records |
| Observability, reports | `observability.rs`, `run_reports.rs` | projector, metrics, event log, alert queue | project a record, emit, seed on resume, drain | journal |
| Resume, abandon | `main.rs` `run`, `reconcile_incomplete_run` | the replayed journal | reconcile every unresolved cloid, then report, refuse, abandon or continue with the remainder | journal, placement |
| Lock and nonces | `lock.rs`, `client.rs` `seed_nonce`, `next_nonce` | flock, mark file, counter | acquire, seed, mint, advance | exchange client |
| Exchange client | `client.rs`, `api.rs`, `errors.rs` | none | one signed POST, retried reads, parsing, cross-check | signer, exchange |
| Pair barrier, watchdog | `main.rs`, `scripts/dn-pair.sh`, `scripts/dn-watchdog.sh` | ready and start files, latch, grace timer | publish ready, release, roll back, contain a lone leg | startup, signals |
| Signing, wire formats | `signer.rs`, `eip712.rs`, `types.rs` | none | | exchange client |

What is hard here, with its line, is the `hazards` list of `PROJECT.json`: lost
answers with the request still on its way, crashes between intent, send and
settlement, fills that race a cancel, another client trading in the same account,
children settled in a later slice than they were placed in, signals at every await,
records torn by a crash, observers attached twice or not at all, mark writes that
fail, a launcher interrupted around one rename, and waits that must end.

The properties that make each component correct:

- *startup*: one open run per owner; inherited orders settled before anything is
  sent; what is executed and confirmed is what was frozen; a closed run stays closed;
  the program accepts its own Headers;
- *trigger*: deadlines are kept, blindness is judged fairly, the run is sized on the
  book that fired it, the limit is the nearest price that crosses, the wait ends;
- *run as a whole*: never more than the total; the journal always replays; a
  terminal order is really over; one order at a time, and the journal knows it; a
  request is never sent twice; every process ends;
- *position run*: own trades within the frozen change; completed means exact; a
  reversal opens from flat only; the cap holds over phases and processes, but for what
  the last sell makes in a rising book;
- *replay*: nothing open in a closed run, nothing taken back;
- *file*: what was confirmed can be read, and what was read stays;
- *observers*: never more than the journal says, and never silent about an open order;
- *nonces and calls*: none is used twice, and a conclusion is true;
- *pair*: nobody trades before the release, unwatched, or for long alone.

## 2. Modules

```
OrderIds -- Exchange ---+
        +-- RunJournal -+- TwapRun -- MCTwapRun, TwapRunProofs
            SlicePlan --+     +-- IdealRun (INSTANCE)
RunJournal -- JournalReplay -- RunObserver -- MCRunObserver, RunObserverProofs
JournalFile -- EventLog -- EventLogProofs
NonceHwm -- SignedCalls -- MCSignedCalls, SignedCallsProofs
SlicePlan, PositionPlan -- PositionRun -- MCPositionRun, PositionRunProofs
                     +---- CommandLine -- Startup -- MCStartup, StartupProofs
Market -- TriggerWait -- MCTriggerWait, TriggerWaitProofs
PairBarrier -- PairBarrierProofs
```

**`Exchange`** is external: what the handlers in `src/` are written against.  A
place request may arrive late, never, or after its answer was given up; an accepted
order trades by itself; `orderStatus` may deny an order, or call a finished one open,
for the first `Lag` answers after a send; requests past `expiresAfter` are refused.
A second request under a cloid opens further size, so that a double send would show.
With `Lag` answers spent, a request that is still on its way yields only errors:
the model takes from the code's policy that a request which is answered `unknownOid`
for the whole streak is not on its way any more.

**`RunJournal`** keeps the result of replay as state and makes each record one step
of the fold, accepted or refusing the journal for good (`valid`).  Prices and
notional are left out; sizes are whole lots.

**`SlicePlan`** has the sizing functions; `round_size` is `\div` where the code
rounds a quotient, and the identity on whole lots.

**`TwapRun`** composes the three with the process.  A step is the code between two
awaits.  `pc` names the await, `ctx` the caller to return to, and one set of call
variables serves the placement, the polls and the settlement, whose locals never
live at the same time.  Processes start, crash at any step, are interrupted, run
into the grace timeout, and are resumed or abandoned by later ones; `Exit` forgets
everything but journal and exchange.  Prices the book may show are chosen at each
step; the times of slices and of re-quotes are not modelled, so a child may be
re-quoted, and a slice may end, at any time.  A write of a record may also take
effect and report an error (`Settled`, `Prepare`) or fail outright (`CallFails`,
`SliceRefused`).  The run modelled is an ordinary one: no position target, not
reduce-only, live.

**`IdealRun`** is the promise: trade up to the target, book only what was traded,
close only with exact books, and never trade again.  `TwapRun` implements it with
`traded <- position`, `booked <- jtotal`, `closed <-` completed or abandoned.

**`PositionPlan`** and **`PositionRun`**: a signed position, moved to a frozen target in
one phase or, through zero, in two.  The process reads the position at the snapshot,
before each slice, at each send and after each phase, and between any two reads
another client of the account may trade (`OtherClientTrades`, at most `MaxExternal`
lots each way).  Fills carry a price or, as `orderStatus` reports them, none; `spent` is
what was really paid and `charged` what the journal makes of it.  A buy trades at its
limit or below.  A sell trades at its limit or anywhere above, also above the bid it was
sized at, when the book moves up before the match (`risk.rs:185`); the history variable
`above` is what the latest order's sells made that way.  Children are IOC
orders, one at a time; their polls are reduced to their outcome, which `TwapRun`
has in detail.

**`CommandLine`** and **`Startup`**: `CommandLine` has the pure part, from options to the
fingerprint that the Header stores and its checks at replay and at resume.  A decimal is
a number of lots with the scale it is spelled in, because the code compares spellings.
`Startup` has processes, in the order of their invocation, of several agents over one
directory.  Each reads one run per step, so that a run appears or closes between two
reads.  `Heirlooms` are runs already there: none, with an open order, half filled, of a
version without a fingerprint, or with one stored size changed.

**`JournalReplay`** feeds replay from an arbitrary writer, so that what it promises
does not rest on `TwapRun` writing well.

**`RunObserver`** puts the observer on top of that writer.  `durable` is what a
projector that saw every durable record would have; `proc` is what the process has,
`log` what a reader adds up from the event log.  A record is durable before its
observer is told, and the process may die in between or half-way through the events;
the log may be unavailable, and each of its lines may fail by itself; alerts go into a
bounded queue that drops what does not fit; a resume seeds a new projector from the
records.

**`JournalFile`** is the file below the records: a line is what was written on it,
whole records or parts; it parses exactly when it is one whole record.  An append
may stop anywhere, in a process that dies or in one that goes on.  **`EventLog`** adds
the second file, whose lines are numbered and whose torn tail is kept.

**`NonceHwm`** has any number of processes of one agent, a clock that may stand
still or step back, and mark writes that may fail.  `lost` and `missed` are history:
used nonces above the mark at a process end, and whether a write ever failed.

**`SignedCalls`** has the calls on top of the nonces: one signed POST, never repeated; reads
repeated after transport failures; what each answer is reduced to.  The exchange
executes a nonce once.  Two assumptions are made of it: a 4xx answer is its refusal of
the request, and an `orderStatus` answer about another order of this agent carries that
order's cloid.  An answer about the order asked for may lack it; `cross_check` compares the
cloid only where there is one, so without that assumption it could not tell the two apart.

**`Market`** and **`TriggerWait`**: books that are fresh, old, ahead, crossed, unsorted,
one-sided or of another market; the price grid with fewer digits than the real one; the
polling loop on the monotonic clock, for every configuration `Cli::validate` accepts;
then the book the run is sized on.

**`PairBarrier`**: two legs, the launcher, the watchdog and an operator.  Times are
countdowns that stop at zero, so the clock needs no bound.  Launcher and legs may be
killed at any point; the watchdog ends only when it is stopped or has nothing to watch.

The definitions whose comment begins with *Fault* are not part of the model: each is
a plausible mistake in the definition that follows it, used to see that a property
would notice it (`mutants` in `PROJECT.json`).

## 3. Runs

| Run | Shows |
|---|---|
| `market` | IOC children, three cloids: `NoOverExecution`, `JournalReplays`, `TerminalIsFinal`, `NoDuplicateSend` through lost answers, resends, crashes, resumes |
| `passive` | post-only children resting across slices: `OneJournaledExposure`, `StatsMatchJournal`, and `EveryProcessEnds` with its settlements and the polls of a resume |
| `follow` | re-quoted children, three cloids: `ImplementsIdealRun` |
| `observed` | any records in any order, observed, unobserved and re-attached: `MetricsMatchJournal`, `LogNeverOverstates`, `CompletedEventIsTrue`, `UnresolvedIsAlerted`, `ClosedHasNothingOpen`, `NothingTakenBack` |
| `journal_file` | two files torn anywhere: `AckedReadable`, `ReadOnlyGrows`, `EventsInOrder` |
| `calls` | two processes, lost requests and answers: `ReuseNeedsLostMark`, `RestartsAboveUsed`, `ConclusionIsTrue` |
| `trigger` | `DeadlinesHeld`, `BlindInTime`, `SizedOnTrigger`, `LimitRight`, `WaitEnds` |
| `startup` | two agents, two runs: `OneIncompletePerOwner`, `InheritedSettledFirst`, `ExecutesTheRequest`, `ConfirmedIsFrozen`, `OwnHeaderReplays`, `ContinuedIsEligible`, `ClosedStaysClosed` |
| `position` | flatten, size and USD targets from either side, another client trading: `OwnWithinFrozen`, `CompletedIsExact`, `NothingOpenedOverTheOld`, `CapHolds` |
| `pair` | `NoOrderBeforeRelease`, `WatchedWhileExecuting`, `AloneIsContained`, `BarrierEnds` |

Two runs are expected to end in a violation (`findings` in `PROJECT.json` quotes code
and comment):

- `ack_denied`: if the index can be behind for as long as the unknownOid streak
  waits, a resume closes an *acknowledged* order at zero although it traded, which
  the incident described in `poll_terminal_status` says does happen.
- `respelled`: from a position of 0.5 to a target of 1.5 the Header stores the phase size
  as `1`, and replay recomputes it as `1.0`.  The run starts and trades, and no
  process, itself included, can replay its journal afterwards.  `startup` checks the same
  property with targets whose difference has no trailing zero.

Smaller disagreements between the code and what is said of it, met while modelling and
without a run of their own:

- When the record about an accepted post-only order cannot be written,
  `place_alo_child` (`twap.rs:1515`, `1585`) returns without cancelling, and the run ends
  with the order live; the comment at `twap.rs:3641` says no resting order ever leaks
  past the end.  The journal still shows the intent, so a resume finds it.
- After an append that failed half-way (a disk that is full for one append and not for the
  next) the same process appends its next record, the FinalReport of the aborted run, to
  the same line (`journal.rs:582`); `restore_line_boundary` only runs on reopening, though
  its comment (`journal.rs:650-657`) is about exactly that hazard.  `AckedReadable` says
  how far the damage goes: `read_all` refuses that journal, and no record is missed by a
  reader that does not know.
- A crash inside `ExecutionJournal::start` (`journal.rs:515`) leaves a run that neither
  `read_all` nor replay accepts, and the gate refuses live runs of every owner; the
  comment at `journal.rs:1922` and `docs/OPERATIONS.md:244` call any such journal a genuine
  corruption.
- `docs/OPERATIONS.md` promises that a restarted process always starts above the nonces
  used before; `next_nonce` only logs a failed mark write, so the promise holds until one
  fails, and `RestartsAboveUsed` says exactly that.
- `README.md` says the trigger always wins over expiry on the same tick; the start
  condition is read before the price poll and expiry after it, so a poll that outlasts both
  deadlines ends as expired.  `DeadlinesHeld` bounds that by one poll.
- `docs/OPERATIONS.md:643`: `wait_for_both_ready` accepts two ready files before it looks
  whether both legs still live; a leg that died in between is noticed after the release, by
  the launcher's last check or the watchdog.
- The FinalReports of an expired resume and of one with nothing left are written before an
  observer is attached and never become events; `LogNeverOverstates` allows for less.

### Bounds

- `TwapRun`.  `Cloids`: two or three orders per run over all its processes.  Three is enough for
  an order of an earlier process, one settled in this one, and one in flight; the
  model stops placing when they are used up.  They are interchangeable, so the safety
  runs use symmetry; the run with fairness does not.
  `Slices = 2`, `Size = 3`: one lot per slice and one lot lost to rounding, so that
  `Total = 2 < Size`; the second slice is both the catch-up slice and the last.
  `Prices = {1, 2}` with `MinNotional = MinNotionalGate = 2`: at price 1 a single lot is below the
  gate and is skipped, two lots are placed.
  `Lag = 1 < MinConsecutive = 2`: the index is behind for fewer answers than the
  streak needs.  That relation is what the program's policy rests on (in the code, by
  count and by a window in seconds); `ack_denied` takes it away (`Lag = 2`).
  `MaxAttempts = 3`, `ResendLimit = 1`, `CancelAttempts = 2`, `SettleRetries = 2`:
  each is large enough to be retried once and to be exhausted.
- `PositionRun`: positions of two lots either way, two slices, so that a reversal has two
  orders in each phase; `Cap = 6` refuses the dear path, lets a sell that is sized at the
  low bid and fills at the high price go beyond it, and is overspent by two processes
  that forget each other; one foreign lot each way.
- `Startup`: two processes, two runs, two agents.  Two processes are enough to race and to
  inherit; what an earlier one left is also there from the start (`Heirlooms`), which gives
  histories of three.  The command lines cover every request mode, resume, abandonment, a dry
  run, and one refusal of each early check.
- `RunObserver`: two cloids, two slice indices, fills 0 to 2, so that a fill can be
  restated higher; a queue of one.
- `EventLog`: five appends over both files; `SignedCalls`: two processes, two requests,
  nonces up to 3, a clock that repeats and steps back; one repeated read.
- `TriggerWait`: deadlines before, between and after the poll times, a horizon no
  configuration with a deadline reaches; two significant digits instead of five, with
  books around the powers of ten.
- `PairBarrier`: `Lead < Grace < Timeout`, so that each countdown can be the last or the first.

### Fairness

`FairSpec` of `TwapRun` is weak fairness of the process as a whole: a process that is
up takes another step, because every await in the code is a timer or a network call
with a timeout of its own.  Nothing is assumed of the exchange, of signals or of the
operator.  The follow loop ends a slice by the clock; with time abstracted a finite
number of cloids stands for it, so that liveness is checked where it does not rest on
that, for passive children; the polls and resends of an IOC child are the ones a resume
makes there.  `TriggerWait` has weak fairness of its only process, for the same reason.
`PairBarrier` has weak fairness of each leg, of the launcher, of the watchdog and of time,
each a loop with a sleep in it; a leg need not end by itself, the operator need not act,
and the launcher may be killed at any point.

Deadlock checking is off where the system may really stop: a run that is closed, a
bound that is spent, a wait that is over, a pair that has ended.  `SignedCalls` never
stops, and is checked for it.

## 4. Proofs

All for every value of the constants.  Nothing is assumed beyond the named `ASSUME`s
of the modules, which the runs evaluate, and two hypotheses: one that the theorems about
`TwapRun` carry, one of `OwnHeaderIsReadBack`.  The `ASSUME`s say what the constants are
(numbers, sets of numbers, records of the right form; the cloids, of 128 bits, are finitely
many).  Five of them say more.  In `TriggerWait`, a price unit is so small that no slippage
on a book's price is cut (`SlippageWhole`, as in the code's decimals).  In `Startup`, every command line belongs to one of the `Agents` (`CommandsOwned`).  The runs
already there are ones that replay accepts, so that a closed run has no open order and one
without a Header has none (`HeirloomsReplay`; `journal.rs:1405-1481` refuses the others).
Those that have a fingerprint were begun by this program, for the plan of an accepted
command line; since then at most one stored size has been changed; and what an incomplete
one has traded is within its plan and, towards a position target, all that has moved the
account (`HeirloomsWritten`).  In `PositionRun`, a request is one of the three modes with a
whole number (`RequestsTyped`).

Each proof has the same form: an inductive invariant, one lemma per action that keeps
it, and the properties as consequences.  Where the data need induction too (a sum over the
cloids, powers of ten, counted digits), the lemma `Least` stands for it: a set of natural
numbers that has a member has a least one, so the least counterexample is refuted from the
number before it.  The same argument shows that the recursive definitions have values.

**`TwapRunProofs`**.  `TypeCorrect` needs no hypothesis: every reachable state is well
typed and the code that handles an order has one in hand.  `RunInvariant` and what
follows from it (`NeverOverExecutes`, `JournalAlwaysReplays`, `TerminalStaysFinal`,
`ExposureIsJournaled`, `StatsAreTheJournals`, `NoSecondSend`, `AcknowledgedIsCredited`)
assume `Lag < MinConsecutive`: the query index gives fewer stale answers after a send
than the unknownOid streak asks for.  The code cannot enforce that, it is what its
policy rests on, and `ack_denied` shows a run without it.  That a run has not traded
too much says nothing of what its orders may still trade, so `RunInv` says, for each
order, which journal state goes with which state at the exchange; that a finished order
is booked as it traded; that the process holds the one order that is not; that a streak
of denials is only as long as the index is no longer stale; and that what is booked, what is
in hand and what is left to plan never exceed the total.  `RefinesIdealRun`: under the same
hypothesis every step of `TwapRun` is a step of `IdealRun` or changes nothing there.

**`PositionRunProofs`**: `OwnTradesBounded`, `CompletionIsExact`, `OpensPastFlat`,
`PaidWithinCap`.  `PositionInv` ties the Header to the frozen endpoints, each phase to
its part of the distance, the books of both phases to what the run traded (`BooksOK`), what
was paid to what is charged with an order in flight at the price it was sized at and its
surplus over that (`CapOK`), and the position to the two trades, the run's own and foreign
ones (`PositionOK`).  `PaidWithinCap` is the bound the code can keep: a sell in a rising book
overspends the cap, `above` says by how much, and since the surplus is charged before the
next order is sized, it is never more than one order's.

**`StartupProofs`**.  First the directory: `OneRunPerOwner`, `SettledBeforeExecuting`,
`ClosedForGood`.  What a process found in its scan is used many steps of other processes
later.  `StartInv` adds that a process past the lock holds it alone among its owner's, that
the runs it has still to read or has found are accounted for, and that no two processes
are on one run.

Then, on top of `StartInv`, the plans: `RequestIsExecuted`, `TokenIsOfTheStart`,
`EligibleIfContinued` and `OwnHeaderIsReadBack`.  That the plan now executed is the first
process's says nothing of a plan that a later process will freeze from the Header, at
another price and over a position that the run itself has moved.  `PlanInv` adds that
every Header holds the fingerprint of the plan the run was begun with, up to one changed
size, and that the account is where its fills put it (`Accounted`); that a process which
begins a run has planned it over the position the account still has (`Begins`); that one
which resumes is on a Header that replay and the resume check accepted (`Resumes`); and
what an executing one has left to do and was confirmed with (`Executes`).  The lemmas
below it are about the operators of `CommandLine` and `PositionPlan`: that `Fingerprint`
has its type and is accepted by `HeaderReplays` and `MayResume` (`OrdinaryHeader`,
`PositionHeader`), and that a request which passes the resume check is given the first
process's endpoints or total, whichever size was changed (`ResumedIsAsked`).

`OwnHeaderIsReadBack` assumes `WholeTargets`: every position target on a command line is a
whole number of units, so that its difference to the position is spelled without trailing
zeros.  The run `respelled` shows what happens without: the program writes a Header that
it refuses to read.

**`RunObserverProofs`**.  For replay: `ClosedHasNothingOpenAlways` and
`NothingTakenBackAlways`, because every acceptance needs `Appendable` and the transition
table has no way out of Terminal.  For the observer: `MetricsAlwaysMatch`, `LogLagsBehind`, `CompletedIsClosed`, `OpenOrdersAlwaysAlerted`.  A gauge that agrees
with the journal is moved by a projector that might not, so `ObsInv` adds that
projecting the whole journal gives its fills cloid by cloid, that an attached observer's
projector is that one, and that a low cap in the log is one the projector remembers.  That
the replayed total is the sum of the fills (`TotalIsSum`) rests on `SumMoves`: where one
fill changes, the sum changes by as much.  `SumIsFold` to `FoldsDiffer`, below it, say that
the sum is taken one cloid after the other and has a value for every finite set of them.

**`EventLogProofs`**: `ConfirmedIsReadable`, `ReadersAgree`, `EventsAlwaysInOrder`, and
`LogKeepsJournal`, that `EventLog` implements `JournalFile`.  An append to a file whose
tail is not empty would spoil its line, so `FileInv` adds that a process without a write
error appends behind a newline and that an unfinished line is one piece; `Sound`, for the
processes that go on after one, that lines which all parse hold every confirmed record,
because a record behind a fragment never parses; `LogInv` that every event is of a confirmed record before the one now due, and that the writer counts
from above all it can read.

**`SignedCallsProofs`**.  `ReuseNeedsLostMarkAlways`, `NoncesUniqueAlways` and
`RestartsAboveUsedAlways` of `NonceHwm`: a repeated nonce being lost says nothing of where
the other used nonces are.  The invariant adds that the flock is exclusive, that a seeded
process knows the mark on disk and counts from above it, and that every used nonce is
lost, or covered by the counter of the one seeded process, or, where there is none, by
the disk.  `CallsImplementNonces`: every step of a call is a step of `NonceHwm` or leaves
it alone, so that `CallsReuseNeedsLostMark` follows.  `ConclusionIsTrueAlways`: a
conclusion being true now does not keep it true, the order might still come.  `CInv` adds
that a call and a verdict are about a request that was signed (`Concrete`), that a
request with a copy under way is unanswered and has made no order (`Fresh`, which only a
request sent once can promise), and that the exchange's answer is true of the order
(`ReplyTrue`).

**`TriggerWaitProofs`**: `DeadlinesAlwaysHeld`, `BlindNeitherEarlyNorLate`,
`AlwaysSizedOnTrigger`, `LimitAlwaysRight`.  `WaitInv` says where the time is relative to both deadlines at
each point of the loop, that only a poll overruns one, and that the streak of failures
began one round after the last success.  `LimitInv` adds that the snapshot of a price
trigger has a touch.  The rest of `LimitAlwaysRight` is about `round_price` alone
(`RoundPriceNearestGrid`), for any number of significant digits and decimals: each cut goes
to the next multiple of a power of ten (`RoundDpRounds`); the counts of digits and of
leading zeros give the power at which the price just fits its significant digits
(`DigitCount`, `ZeroCount`, `SignificantUnit`); and a grid price between the raw price and
the result would be a multiple of both units (`LargeFits`), so the cuts pass over none
(`CutsMeet`).  A buy that rounds up to a power of ten gains a digit; it stays on the grid
because it is a multiple of the next unit.

**`PairBarrierProofs`**: `ReleasedBeforeOrders`, `AlwaysWatched`.  `PairInv` adds that a
start time is published only after the latch and the latch set only over two ready legs,
and that the watchdog is up before the legs are adopted.

Only model-checked is liveness, which is out of the prover's reach: `EveryProcessEnds`,
`WaitEnds`, `AloneIsContained` and `BarrierEnds`.

## 5. Not modelled

- The position guard of a post-only child: `PositionRun` has IOC children only.
- Rounding of decimals beyond lots and ticks, the sums of rounded notionals, and with them
  `validate_whole_run`, which compares a report's summary with the replayed one.
- Slice times, re-quote throttle and thresholds, the unknownOid window in seconds; that a
  skipped slice sleeps to its end without listening to the shutdown signal (`twap.rs:3230`)
  shows only with them.
- The parsing of meta, userRole, fills and cancel answers; legacy records of the journal.
- In the scripts: the watchdog's own death, manifests, the lifecycle lock, `status` and `recover`, PID reuse.
- Signing, wire formats, the Prometheus endpoint and report rendering: no decision of the
  modelled code reads them, and the repository tests them by vectors.

## 6. Plan

Post-only children in `PositionRun`, with their position guard.
