----------------------------- MODULE TriggerWait ----------------------------
(***************************************************************************)
(* From the start of a live process to the price it is sized at: the       *)
(* initial read of the book, the wait (src/src/trigger.rs,                 *)
(* wait_for_trigger) for a price condition, a start deadline and an expiry *)
(* in one polling loop on the monotonic clock, and the snapshot the run is *)
(* sized and priced on (src/src/main.rs, src/src/twap.rs).  `cfg` is any   *)
(* configuration the command line accepts.                                 *)
(*                                                                         *)
(* Time is counted in whole units from the start of the wait; a poll with  *)
(* its transport retries takes at most `Latency` of them.  A book is any   *)
(* of `Books`, usable or not, and NoBook when the request fails.           *)
(***************************************************************************)
EXTENDS Market

CONSTANTS
    Never,        \* a deadline that is not configured; no snapshot; no price condition
    Deadlines,    \* values of --start-after and --expire-after
    Polls,        \* values of --trigger-poll-secs
    Graces,       \* values of --wait-network-grace
    Thresholds,   \* values of --trigger-price
    MaxAges,      \* values of --max-book-age-ms
    Books, NoBook,
    Plans,        \* [side, bps, szDecimals] of the orders to come
    Retries,      \* STALE_BOOK_RETRIES
    Latency,      \* the longest a poll takes
    Horizon       \* bound: the wait is followed up to this time

ASSUME NeverFresh == Never \notin Nat
ASSUME DurationsPositive ==
    /\ Deadlines \subseteq Nat /\ Polls \cup Graces \cup Thresholds \subseteq Nat \ {0}
    /\ Latency \in Nat /\ Horizon \in Nat /\ Retries \in Nat /\ MaxAges \subseteq Nat

ASSUME BooksTyped ==
    \A b \in Books :
        b.bids \in Seq([px : Int, sz : Int]) /\ b.asks \in Seq([px : Int, sz : Int]) /\ b.ahead \in Int
ASSUME SlippageWhole ==  \* a unit is so small that no slippage is cut
    \A b \in Books : \A side \in {b.bids, b.asks} : \A i \in 1..Len(side) : side[i].px % BpsBase = 0
ASSUME PlansTyped == Plans \subseteq [side : {"long", "short"}, bps : Nat, szDecimals : Nat]

VARIABLES
    cfg,      \* TriggerConfig
    now,      \* monotonic time since wait_start
    pc,       \* "initial", the loop's "top", "poll" and "tail", "fired" or "done"
    streak,   \* streak_since, or Never
    outcome,  \* why the wait ended, or how the process did before an order
    okAt,     \* when a poll last succeeded; 0 before the first
    snap,     \* the snapshot of TriggerReason::Price, then the one sized on, or Never
    tries,    \* books fetched by fetch_fresh_book
    limit     \* the plan and the limit price its orders start from, or Never

vars == <<cfg, now, pc, streak, outcome, okAt, snap, tries, limit>>

Price == {[when |-> w, threshold |-> t] : w \in {"above", "below"}, t \in Thresholds}

(* The configurations that Cli::validate lets through. *)
Configs ==
    {c \in [price : Price \cup {Never}, start : Deadlines \cup {Never},
            expire : (Deadlines \ {0}) \cup {Never}, poll : Polls, grace : Graces,
            maxAge : MaxAges] :
        /\ c.expire # Never => c.price # Never \/ c.start # Never
        /\ c.start # Never /\ c.expire # Never => c.expire > c.start}

Init ==
    /\ cfg \in Configs
    /\ now = 0 /\ pc = "initial" /\ streak = Never /\ outcome = "none" /\ okAt = 0
    /\ snap = Never /\ tries = 0 /\ limit = Never

IsImmediate == cfg.price = Never /\ cfg.start = Never
IsTimeOnly == cfg.price = Never /\ cfg.start # Never

Usable(book, maxAge) == book # NoBook /\ Validates(book, maxAge)

Reached(deadline) == deadline # Never /\ now >= deadline

Done(o) == pc' = "done" /\ outcome' = o
Fired(o) == pc' = "fired" /\ outcome' = o

-----------------------------------------------------------------------------
(* The initial read logs a price of any age; a run that only waits for a   *)
(* time makes none.                                                        *)
InitialRead(book) ==
    /\ pc = "initial" /\ ~IsTimeOnly
    /\ IF ~Usable(book, 0) THEN Done("failed")
       ELSE IF IsImmediate THEN Fired("immediate")
       ELSE pc' = "top" /\ UNCHANGED outcome
    /\ UNCHANGED <<cfg, now, streak, okAt, snap, tries, limit>>

InitialTimeOnly ==
    /\ pc = "initial" /\ IsTimeOnly
    /\ pc' = "top"
    /\ UNCHANGED <<cfg, now, streak, outcome, okAt, snap, tries, limit>>

-----------------------------------------------------------------------------
(* The loop. *)

(* Fault: the deadline itself does not count as elapsed. *)
CheckStartLate ==
    /\ pc = "top"
    /\ IF Reached(cfg.start) /\ now > cfg.start
       THEN Fired("elapsed")
       ELSE pc' = (IF cfg.price # Never THEN "poll" ELSE "tail") /\ UNCHANGED outcome
    /\ UNCHANGED <<cfg, now, streak, okAt, snap, tries, limit>>

(* The time condition comes first and needs no poll. *)
CheckStart ==
    /\ pc = "top"
    /\ IF Reached(cfg.start)
       THEN Fired("elapsed")
       ELSE pc' = (IF cfg.price # Never THEN "poll" ELSE "tail") /\ UNCHANGED outcome
    /\ UNCHANGED <<cfg, now, streak, okAt, snap, tries, limit>>

(* A validated book: the streak is over; the price condition may fire, and *)
(* then keeps the snapshot that met it.                                    *)
PollOk(d, book) ==
    /\ pc = "poll" /\ now + d <= Horizon
    /\ Usable(book, cfg.maxAge)
    /\ now' = now + d /\ okAt' = now + d
    /\ streak' = Never
    /\ IF PriceConditionMet(cfg.price.when, cfg.price.threshold, Snapshot(book))
       THEN Fired("price") /\ snap' = Snapshot(book)
       ELSE pc' = "tail" /\ UNCHANGED <<outcome, snap>>
    /\ UNCHANGED <<cfg, tries, limit>>

(* Fault: each failure starts the streak anew. *)
PollRestartsStreak(d, book) ==
    /\ pc = "poll" /\ now + d <= Horizon
    /\ ~Usable(book, cfg.maxAge)
    /\ now' = now + d
    /\ streak' = now'
    /\ pc' = "tail"
    /\ UNCHANGED <<cfg, okAt, outcome, snap, tries, limit>>

(* A failed poll, or an unusable book: the streak is timed from its first  *)
(* failure, and the wait is given up once it is longer than the grace.     *)
PollFails(d, book) ==
    /\ pc = "poll" /\ now + d <= Horizon
    /\ ~Usable(book, cfg.maxAge)
    /\ now' = now + d
    /\ streak' = IF streak = Never THEN now' ELSE streak
    /\ IF now' - streak' > cfg.grace THEN Done("blind") ELSE pc' = "tail" /\ UNCHANGED outcome
    /\ UNCHANGED <<cfg, okAt, snap, tries, limit>>

Expires ==
    /\ pc = "tail" /\ Reached(cfg.expire)
    /\ Done("expired")
    /\ UNCHANGED <<cfg, now, streak, okAt, snap, tries, limit>>

(* Time left to a deadline, never negative. *)
Remaining(deadline) == IF now >= deadline THEN 0 ELSE deadline - now

(* The sleep: one poll interval, never past either deadline. *)
SleepFor ==
    CHOOSE s \in 0..cfg.poll :
        LET limits == {cfg.poll} \cup {Remaining(dl) : dl \in {cfg.start, cfg.expire} \ {Never}}
        IN  s \in limits /\ \A x \in limits : s <= x

(* Fault: the sleep is always one whole poll interval. *)
SleepsWhole ==
    /\ pc = "tail" /\ ~Reached(cfg.expire)
    /\ now + cfg.poll <= Horizon
    /\ now' = now + cfg.poll
    /\ pc' = "top"
    /\ UNCHANGED <<cfg, streak, outcome, okAt, snap, tries, limit>>

Sleeps ==
    /\ pc = "tail" /\ ~Reached(cfg.expire)
    /\ now + SleepFor <= Horizon
    /\ now' = now + SleepFor
    /\ pc' = "top"
    /\ UNCHANGED <<cfg, streak, outcome, okAt, snap, tries, limit>>

-----------------------------------------------------------------------------
(* Sizing. *)

(* The run's clock is checked against the snapshot's, and the limit price  *)
(* of its orders must be positive.                                         *)
SizedOn(s, plan) ==
    LET px == TakerLimitPrice(s, plan.side, plan.bps, plan.szDecimals) IN
    /\ snap' = s
    /\ IF ~ClockAgrees(s) \/ px <= 0
       THEN Done("refused") /\ UNCHANGED limit
       ELSE pc' = "done" /\ limit' = [plan |-> plan, px |-> px] /\ UNCHANGED outcome
    /\ UNCHANGED <<cfg, now, streak, okAt>>

(* Fault: the price is read again after the trigger. *)
SizeOnTriggerAgain(plan) ==
    /\ pc = "fired" /\ outcome = "price"
    /\ \E book \in Books : Usable(book, cfg.maxAge) /\ SizedOn(Snapshot(book), plan)
    /\ UNCHANGED tries

(* A price trigger sizes on the snapshot that met it. *)
SizeOnTrigger(plan) ==
    /\ pc = "fired" /\ outcome = "price"
    /\ SizedOn(snap, plan)
    /\ UNCHANGED tries

(* fetch_fresh_book: the first usable book. *)
FetchFresh(book, plan) ==
    /\ pc = "fired" /\ outcome # "price"
    /\ Usable(book, cfg.maxAge)
    /\ SizedOn(Snapshot(book), plan)
    /\ tries' = tries + 1

(* An unusable book is fetched again, a failed request is not. *)
FetchAgain(book) ==
    /\ pc = "fired" /\ outcome # "price"
    /\ ~Usable(book, cfg.maxAge)
    /\ tries' = tries + 1
    /\ IF book = NoBook \/ tries = Retries THEN Done("failed") ELSE UNCHANGED <<pc, outcome>>
    /\ UNCHANGED <<cfg, now, streak, okAt, snap, limit>>

Next ==
    \/ InitialTimeOnly \/ CheckStart \/ Expires \/ Sleeps
    \/ \E book \in Books \cup {NoBook} :
          \/ InitialRead(book) \/ FetchAgain(book)
          \/ \E d \in 0..Latency : PollOk(d, book) \/ PollFails(d, book)
          \/ \E plan \in Plans : FetchFresh(book, plan)
    \/ \E plan \in Plans : SizeOnTrigger(plan)

Spec == Init /\ [][Next]_vars

(* Timers fire and every request returns, with an error if need be. *)
FairSpec == Spec /\ WF_vars(Next)
-----------------------------------------------------------------------------
Waiting == pc \in {"top", "poll", "tail"}

(* No deadline is overrun by more than the poll in progress when it        *)
(* passed, neither by a wait that goes on nor by one that expires: no      *)
(* sleep or streak postpones start or expiry, and expiry wins over a start *)
(* that has elapsed by one poll at most.                                   *)
DeadlinesHeld ==
    Waiting \/ outcome = "expired" =>
        \A dl \in {cfg.start, cfg.expire} \ {Never} : now <= dl + Latency

(* The wait gives up a price it cannot see neither early nor late: only    *)
(* after more than the whole grace without one successful poll, and at the *)
(* latest two poll rounds after it.                                        *)
BlindInTime ==
    /\ outcome = "blind" => now - okAt > cfg.grace
    /\ Waiting /\ cfg.price # Never =>
          now - okAt <= cfg.grace + 2 * (cfg.poll + Latency)

(* What a run is sized and priced on.  After a price trigger it is a       *)
(* snapshot that meets the condition: the orders are those the operator    *)
(* asked for at that price.  However it was come by, it is no older than   *)
(* --max-book-age-ms, nor, with that check off, than the clock tolerance.  *)
SizedOnTrigger ==
    limit # Never =>
        /\ outcome = "price" => PriceConditionMet(cfg.price.when, cfg.price.threshold, snap)
        /\ -snap.ahead <= (IF cfg.maxAge > 0 /\ cfg.maxAge < ClockSkew THEN cfg.maxAge ELSE ClockSkew)

(* The limit price is a price the exchange accepts, it still crosses the   *)
(* touch with the whole slippage, and no accepted price does so nearer to  *)
(* it: the two cuts of round_price never undo or overshoot each other.     *)
LimitRight ==
    limit # Never =>
        LET plan == limit.plan IN
        NearestMarketable(limit.px, RawLimit(snap, plan.side, plan.bps), plan.side, plan.szDecimals)

(* A wait with a deadline ends, whatever the network does, and a run that  *)
(* waits for nothing starts or fails.                                      *)
WaitEnds ==
    cfg.start # Never \/ cfg.expire # Never \/ cfg.price = Never => <>(pc = "done")
=============================================================================
