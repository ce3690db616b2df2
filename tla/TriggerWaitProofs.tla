-------------------------- MODULE TriggerWaitProofs -------------------------
(***************************************************************************)
(* The wait for a trigger, for every configuration the command line        *)
(* accepts, every latency and every sequence of books and failures.        *)
(*                                                                         *)
(* A deadline binds the loop differently at each of its points: after the  *)
(* check of the start the time is before it, only a poll can overrun it,   *)
(* and the sleep that follows is cut at both deadlines (`TimeOK`).  How    *)
(* long the wait has been blind is the length of the streak of failures    *)
(* and the one round before its first (`StreakOK`).                        *)
(*                                                                         *)
(* The limit price is right because each cut of round_price goes to the    *)
(* next multiple of a power of ten (`Rounds`), and the unit of the second  *)
(* is the one that the significant digits of the price leave               *)
(* (`SignificantUnit`): a grid price between would be a multiple of both   *)
(* (`CutsMeet`).  The powers, and the counts of digits, are reasoned about *)
(* by their least counterexample (`Least`).                                *)
(***************************************************************************)
EXTENDS TriggerWait, FiniteSetTheorems, WellFoundedInduction, TLAPS

Looping == {"top", "poll", "tail"}

(* Every variable of the loop is in its domain, and the outcome is known   *)
(* at the points where it is set.                                          *)
WaitTypeOK ==
    /\ cfg \in Configs /\ now \in Nat /\ okAt \in Nat /\ streak \in Nat \cup {Never}
    /\ pc \in Looping \cup {"initial", "fired", "done"}
    /\ pc \in Looping \cup {"initial"} => outcome = "none"
    /\ pc = "fired" => outcome \in {"immediate", "elapsed", "price"}
    /\ pc = "initial" => now = 0 /\ okAt = 0 /\ streak = Never
    /\ pc = "poll" => cfg.price # Never

(* How far each point of the loop may be from either deadline. *)
TimeOK ==
    /\ pc \in Looping \/ outcome = "expired" =>
          /\ cfg.start # Never => now <= cfg.start + Latency
          /\ cfg.expire # Never => now <= cfg.expire + Latency
    /\ pc = "poll" /\ cfg.start # Never => now < cfg.start
    /\ pc \in {"top", "poll"} /\ cfg.expire # Never => now <= cfg.expire

(* The streak began at most one round after the last good poll, and what   *)
(* the grace allows of it is checked at each failure.                      *)
StreakOK ==
    /\ streak # Never => okAt <= streak /\ streak <= now /\ streak <= okAt + cfg.poll + Latency
    /\ pc = "tail" /\ cfg.price # Never =>
          IF streak = Never THEN now = okAt ELSE now <= streak + cfg.grace
    /\ pc \in {"top", "poll"} /\ cfg.price # Never =>
          IF streak = Never THEN okAt <= now /\ now <= okAt + cfg.poll
          ELSE now <= streak + cfg.grace + cfg.poll
    /\ outcome = "blind" => now - okAt > cfg.grace

AgeOK(s) == cfg.maxAge > 0 => -s.ahead <= cfg.maxAge

(* The snapshot of a price trigger met the condition when it was young. *)
SnapOK ==
    /\ limit # Never => pc = "done"
    /\ pc = "fired" /\ outcome = "price" =>
          PriceConditionMet(cfg.price.when, cfg.price.threshold, snap) /\ AgeOK(snap)

WaitInv == WaitTypeOK /\ TimeOK /\ StreakOK /\ SnapOK /\ SizedOnTrigger

-----------------------------------------------------------------------------
(* What a configuration is made of. *)
LEMMA ConfigFacts ==
    ASSUME NEW c \in Configs
    PROVE  /\ c.poll \in Nat /\ c.grace \in Nat /\ c.maxAge \in Nat
           /\ c.start # Never => c.start \in Nat
           /\ c.expire # Never => c.expire \in Nat
           /\ Latency \in Nat
  BY DurationsPositive DEF Configs

(* The sleep is at most one poll interval and never leads past a deadline  *)
(* that is still to come.                                                  *)
LEMMA SleepFacts ==
    ASSUME cfg \in Configs, now \in Nat
    PROVE  /\ SleepFor \in Nat /\ SleepFor <= cfg.poll
           /\ cfg.start # Never => SleepFor <= Remaining(cfg.start)
           /\ cfg.expire # Never => SleepFor <= Remaining(cfg.expire)
  <1> DEFINE limits == {cfg.poll} \cup {Remaining(dl) : dl \in {cfg.start, cfg.expire} \ {Never}}
             ok(s) == s \in limits /\ \A x \in limits : s <= x
  <1>1. cfg.poll \in Nat
    BY ConfigFacts
  <1>2. cfg.start # Never => Remaining(cfg.start) \in Nat
    BY ConfigFacts DEF Remaining
  <1>3. cfg.expire # Never => Remaining(cfg.expire) \in Nat
    BY ConfigFacts DEF Remaining
  <1>4. \E s \in 0..cfg.poll : ok(s)
    <2> DEFINE a == IF cfg.start = Never THEN cfg.poll ELSE Remaining(cfg.start)
               b == IF cfg.expire = Never THEN cfg.poll ELSE Remaining(cfg.expire)
    <2>1. a \in Nat /\ b \in Nat /\ limits = {cfg.poll, a, b}
      BY <1>1, <1>2, <1>3
    <2> HIDE DEF limits, a, b
    <2>2. CASE a <= cfg.poll /\ a <= b
      BY <1>1, <2>1, <2>2
    <2>3. CASE b <= cfg.poll /\ b <= a
      BY <1>1, <2>1, <2>3
    <2>4. CASE cfg.poll <= a /\ cfg.poll <= b
      BY <1>1, <2>1, <2>4
    <2> QED BY <1>1, <2>1, <2>2, <2>3, <2>4
  <1>5. SleepFor = CHOOSE s \in 0..cfg.poll : ok(s)
    BY DEF SleepFor
  <1> HIDE DEF ok
  <1>6. SleepFor \in 0..cfg.poll /\ ok(SleepFor)
    BY <1>4, <1>5
  <1>7. \A x \in limits : SleepFor <= x
    BY <1>6 DEF ok
  <1> QED BY <1>1, <1>6, <1>7

(* Nothing of the wait is touched once it is over. *)
LEMMA OverKeeps ==
    ASSUME WaitInv, pc \in {"initial", "fired"}, pc' \in {"fired", "done"},
           UNCHANGED <<cfg, now, streak, okAt>>,
           pc' = "done" => outcome' \in {outcome, "failed", "refused"},
           pc' = "fired" => outcome' \in {"immediate", "elapsed"} \/
                            UNCHANGED <<pc, outcome, snap>>,
           limit' # Never => pc' = "done", SizedOnTrigger'
    PROVE  WaitInv'
  <1>1. WaitTypeOK'
    BY DEF WaitInv, WaitTypeOK, Looping
  <1>2. outcome \in {"none", "immediate", "elapsed", "price"} /\ outcome' # "expired" /\ outcome' # "blind"
    BY DEF WaitInv, WaitTypeOK
  <1>3. TimeOK'
    BY <1>2 DEF TimeOK, Looping
  <1>4. StreakOK'
    BY <1>2 DEF WaitInv, StreakOK
  <1>5. SnapOK'
    BY DEF WaitInv, SnapOK, AgeOK
  <1> QED BY <1>1, <1>3, <1>4, <1>5 DEF WaitInv

(* The start of the process: nothing has been waited for. *)
LEMMA InitialKeeps ==
    ASSUME WaitInv, InitialTimeOnly \/ \E book \in Books \cup {NoBook} : InitialRead(book)
    PROVE  WaitInv'
  <1>1. /\ pc = "initial" /\ UNCHANGED <<cfg, now, streak, okAt, snap, limit>>
        /\ \/ pc' = "top" /\ outcome' = outcome
           \/ pc' = "done" /\ outcome' = "failed"
           \/ pc' = "fired" /\ outcome' = "immediate"
    BY DEF InitialTimeOnly, InitialRead, Done, Fired
  <1>2. limit = Never /\ SizedOnTrigger'
    BY <1>1 DEF WaitInv, SnapOK, SizedOnTrigger
  <1>3. CASE pc' \in {"fired", "done"}
    BY <1>1, <1>2, <1>3, OverKeeps
  <1>4. CASE pc' = "top"
    <2>1. /\ cfg' = cfg /\ now' = 0 /\ okAt' = 0 /\ streak' = Never /\ outcome' = "none"
          /\ cfg \in Configs
      BY <1>1, <1>4 DEF WaitInv, WaitTypeOK
    <2>2. WaitTypeOK'
      BY <1>1, <1>4, <2>1 DEF WaitInv, WaitTypeOK, Looping
    <2>3. TimeOK'
      BY <1>4, <2>1, ConfigFacts DEF TimeOK
    <2>4. StreakOK'
      BY <1>4, <2>1, ConfigFacts DEF StreakOK
    <2>5. SnapOK'
      BY <1>1, <1>2, <1>4 DEF SnapOK
    <2> QED BY <1>2, <2>2, <2>3, <2>4, <2>5 DEF WaitInv
  <1> QED BY <1>1, <1>3, <1>4

(* The check of the start: past it the run fires, before it the loop polls *)
(* or, without a price condition, goes to its end.                         *)
LEMMA StartKeeps ==
    ASSUME WaitInv, CheckStart
    PROVE  WaitInv'
  <1>1. /\ pc = "top" /\ UNCHANGED <<cfg, now, streak, okAt, snap, limit>>
        /\ \/ pc' = "fired" /\ outcome' = "elapsed"
           \/ /\ ~Reached(cfg.start) /\ outcome' = outcome
              /\ \/ pc' = "poll" /\ cfg.price # Never
                 \/ pc' = "tail" /\ cfg.price = Never
    BY DEF CheckStart, Fired
  <1>2. /\ cfg \in Configs /\ now \in Nat /\ outcome = "none" /\ limit = Never
        /\ okAt \in Nat
    BY <1>1 DEF WaitInv, WaitTypeOK, SnapOK, Looping
  <1>3. WaitTypeOK'
    BY <1>1 DEF WaitInv, WaitTypeOK, Looping
  <1>4. cfg.start # Never /\ ~Reached(cfg.start) => now < cfg.start
    BY <1>2, ConfigFacts DEF Reached
  <1>5. TimeOK'
    BY <1>1, <1>2, <1>4 DEF WaitInv, TimeOK, Looping
  <1>6. StreakOK'
    BY <1>1, <1>2 DEF WaitInv, StreakOK
  <1>7. SnapOK' /\ SizedOnTrigger'
    BY <1>1, <1>2 DEF SnapOK, SizedOnTrigger
  <1> QED BY <1>3, <1>5, <1>6, <1>7 DEF WaitInv

(* A poll, good or bad, takes at most the latency; a bad one ends the wait *)
(* once the streak is longer than the grace.                               *)
LEMMA PollKeeps ==
    ASSUME WaitInv, NEW book \in Books \cup {NoBook}, NEW d \in 0..Latency,
           PollOk(d, book) \/ PollFails(d, book)
    PROVE  WaitInv'
  <1>1. /\ pc = "poll" /\ now' = now + d /\ UNCHANGED <<cfg, limit>>
    BY DEF PollOk, PollFails
  <1>2. /\ cfg \in Configs /\ now \in Nat /\ okAt \in Nat /\ d \in Nat /\ d <= Latency
        /\ outcome = "none" /\ limit = Never /\ limit' = Never /\ cfg.price # Never
        /\ cfg.poll \in Nat /\ cfg.grace \in Nat /\ Latency \in Nat
        /\ streak = Never \/ streak \in Nat
    BY <1>1, ConfigFacts DEF WaitInv, WaitTypeOK, SnapOK, Looping
  <1>3. /\ cfg.start # Never => now < cfg.start /\ cfg.start \in Nat
        /\ cfg.expire # Never => now <= cfg.expire /\ cfg.expire \in Nat
    BY <1>1, <1>2, ConfigFacts DEF WaitInv, TimeOK
  <1>4. /\ cfg.start # Never => now' <= cfg.start + Latency
        /\ cfg.expire # Never => now' <= cfg.expire + Latency
        /\ now' \in Nat
    BY <1>1, <1>2, <1>3
  <1>5. IF streak = Never THEN okAt <= now /\ now <= okAt + cfg.poll
        ELSE now <= streak + cfg.grace + cfg.poll /\ okAt <= streak /\ streak <= now
             /\ streak <= okAt + cfg.poll + Latency
    BY <1>1, <1>2 DEF WaitInv, StreakOK
  <1>6. SizedOnTrigger'
    BY <1>2 DEF SizedOnTrigger
  <1>7. CASE PollOk(d, book)
    <2>1. /\ okAt' = now' /\ streak' = Never /\ Usable(book, cfg.maxAge)
          /\ \/ /\ pc' = "fired" /\ outcome' = "price" /\ snap' = Snapshot(book)
                /\ PriceConditionMet(cfg.price.when, cfg.price.threshold, Snapshot(book))
             \/ pc' = "tail" /\ outcome' = outcome
      BY <1>1, <1>7 DEF PollOk, Fired
    <2>2. WaitTypeOK'
      BY <1>1, <1>2, <1>4, <2>1 DEF WaitInv, WaitTypeOK, Looping
    <2>3. TimeOK'
      BY <1>1, <1>2, <1>4, <2>1 DEF TimeOK
    <2>4. StreakOK'
      BY <1>1, <1>2, <2>1 DEF StreakOK
    <2>5. AgeOK(Snapshot(book))
      BY <2>1 DEF AgeOK, Usable, Validates, Snapshot
    <2>6. SnapOK'
      BY <1>1, <1>2, <2>1, <2>5 DEF SnapOK, AgeOK
    <2> QED BY <1>6, <2>2, <2>3, <2>4, <2>6 DEF WaitInv
  <1>8. CASE PollFails(d, book)
    <2>1. /\ okAt' = okAt /\ streak' = (IF streak = Never THEN now' ELSE streak)
          /\ \/ pc' = "done" /\ outcome' = "blind" /\ now' - streak' > cfg.grace
             \/ pc' = "tail" /\ outcome' = outcome /\ ~(now' - streak' > cfg.grace)
      BY <1>8 DEF PollFails, Done
    <2>2. /\ streak' \in Nat /\ streak' # Never /\ okAt <= streak' /\ streak' <= now'
          /\ streak' <= okAt + cfg.poll + Latency
      <3>1. CASE streak = Never
        BY <1>1, <1>2, <1>4, <1>5, <2>1, <3>1, NeverFresh
      <3>2. CASE streak # Never
        BY <1>1, <1>2, <1>4, <1>5, <2>1, <3>2
      <3> QED BY <3>1, <3>2
    <2>3. WaitTypeOK'
      BY <1>1, <1>2, <1>4, <2>1, <2>2 DEF WaitInv, WaitTypeOK, Looping
    <2>4. TimeOK'
      BY <1>1, <1>2, <1>4, <2>1 DEF TimeOK
    <2>5. StreakOK'
      <3>1. pc' = "tail" => now' <= streak' + cfg.grace
        BY <1>2, <1>4, <2>1, <2>2
      <3>2. outcome' = "blind" => now' - okAt' > cfg.grace
        BY <1>2, <1>4, <2>1, <2>2
      <3> QED BY <1>1, <2>1, <2>2, <3>1, <3>2 DEF StreakOK
    <2>6. SnapOK'
      BY <1>2, <2>1 DEF SnapOK
    <2> QED BY <1>6, <2>3, <2>4, <2>5, <2>6 DEF WaitInv
  <1> QED BY <1>7, <1>8

(* The end of a turn: the wait expires, or sleeps up to the next deadline. *)
LEMMA TurnKeeps ==
    ASSUME WaitInv, Expires \/ Sleeps
    PROVE  WaitInv'
  <1>1. pc = "tail" /\ UNCHANGED <<cfg, streak, okAt, snap, limit>>
    BY DEF Expires, Sleeps
  <1>2. /\ cfg \in Configs /\ now \in Nat /\ okAt \in Nat /\ outcome = "none" /\ limit = Never
        /\ cfg.poll \in Nat /\ cfg.grace \in Nat /\ Latency \in Nat
        /\ streak = Never \/ streak \in Nat
        /\ cfg.start # Never => cfg.start \in Nat
        /\ cfg.expire # Never => cfg.expire \in Nat
    BY <1>1, ConfigFacts DEF WaitInv, WaitTypeOK, SnapOK, Looping
  <1>3. SnapOK' /\ SizedOnTrigger'
    <2>1. limit' = Never /\ pc' # "fired"
      BY <1>1, <1>2 DEF Expires, Sleeps, Done
    <2> QED BY <2>1 DEF SnapOK, SizedOnTrigger
  <1>4. CASE Expires
    <2>1. pc' = "done" /\ outcome' = "expired" /\ now' = now
      BY <1>4 DEF Expires, Done
    <2>2. WaitTypeOK'
      BY <1>1, <2>1 DEF WaitInv, WaitTypeOK, Looping
    <2>3. TimeOK'
      BY <1>1, <2>1 DEF WaitInv, TimeOK, Looping
    <2>4. StreakOK'
      BY <1>1, <2>1 DEF WaitInv, StreakOK
    <2> QED BY <1>3, <2>2, <2>3, <2>4 DEF WaitInv
  <1>5. CASE Sleeps
    <2>1. pc' = "top" /\ outcome' = outcome /\ now' = now + SleepFor /\ ~Reached(cfg.expire)
      BY <1>5 DEF Sleeps
    <2>2. SleepFor \in Nat /\ SleepFor <= cfg.poll
      BY <1>2, SleepFacts
    <2>3. WaitTypeOK'
      BY <1>1, <1>2, <2>1, <2>2 DEF WaitInv, WaitTypeOK, Looping
    <2>4. cfg.start # Never => now' <= cfg.start + Latency
      <3>1. ASSUME cfg.start # Never PROVE now' <= cfg.start + Latency
        <4>1. SleepFor <= Remaining(cfg.start) /\ cfg.start \in Nat
          BY <1>2, <3>1, SleepFacts
        <4>2. now <= cfg.start + Latency
          BY <1>1, <3>1 DEF WaitInv, TimeOK, Looping
        <4> QED BY <1>2, <2>1, <2>2, <4>1, <4>2 DEF Remaining
      <3> QED BY <3>1
    <2>5. cfg.expire # Never => now' <= cfg.expire /\ now' <= cfg.expire + Latency
      <3>1. ASSUME cfg.expire # Never PROVE now' <= cfg.expire /\ now' <= cfg.expire + Latency
        <4>1. SleepFor <= Remaining(cfg.expire) /\ cfg.expire \in Nat
          BY <1>2, <3>1, SleepFacts
        <4>2. now < cfg.expire
          BY <1>2, <2>1, <3>1 DEF Reached
        <4> QED BY <1>2, <2>1, <2>2, <4>1, <4>2 DEF Remaining
      <3> QED BY <3>1
    <2>6. TimeOK'
      BY <1>1, <1>2, <2>1, <2>4, <2>5 DEF TimeOK
    <2>7. StreakOK'
      <3>1. streak # Never => okAt <= streak /\ streak <= now' /\ streak <= okAt + cfg.poll + Latency
        BY <1>2, <2>1, <2>2 DEF WaitInv, StreakOK
      <3>2. cfg.price # Never => IF streak = Never THEN okAt <= now' /\ now' <= okAt + cfg.poll
                                 ELSE now' <= streak + cfg.grace + cfg.poll
        BY <1>1, <1>2, <2>1, <2>2 DEF WaitInv, StreakOK
      <3> QED BY <1>1, <1>2, <2>1, <3>1, <3>2 DEF StreakOK
    <2> QED BY <1>3, <2>3, <2>6, <2>7 DEF WaitInv
  <1> QED BY <1>4, <1>5

(* The run is sized on a young snapshot, after a price trigger on the one  *)
(* that met the condition, or it is refused.                               *)
LEMMA SizingKeeps ==
    ASSUME WaitInv, pc = "fired", NEW s, NEW plan, SizedOn(s, plan), AgeOK(s),
           outcome = "price" => PriceConditionMet(cfg.price.when, cfg.price.threshold, s)
    PROVE  WaitInv'
  <1>1. /\ pc' = "done" /\ snap' = s /\ UNCHANGED <<cfg, now, streak, okAt>>
        /\ \/ outcome' = "refused" /\ limit' = limit
           \/ outcome' = outcome /\ ClockAgrees(s)
    BY DEF SizedOn, Done
  <1>2. limit = Never
    BY DEF WaitInv, SnapOK
  <1>3. ASSUME limit' # Never PROVE SizedOnTrigger'
    <2>1. outcome' = outcome /\ ClockAgrees(s)
      BY <1>1, <1>2, <1>3
    <2>2. /\ s.ahead \in Int /\ -s.ahead <= ClockSkew /\ ClockSkew \in Nat
      BY <2>1, MarketBounds DEF ClockAgrees
    <2>3. cfg.maxAge \in Nat
      BY ConfigFacts DEF WaitInv, WaitTypeOK
    <2>4. -s.ahead <= (IF cfg.maxAge > 0 /\ cfg.maxAge < ClockSkew THEN cfg.maxAge ELSE ClockSkew)
      BY <2>2, <2>3 DEF AgeOK
    <2> QED BY <1>1, <2>1, <2>4 DEF SizedOnTrigger
  <1>4. limit' = Never => SizedOnTrigger'
    BY DEF SizedOnTrigger
  <1> QED BY <1>1, <1>3, <1>4, OverKeeps

(* After the wait: books are fetched until one can be used. *)
LEMMA FetchKeeps ==
    ASSUME WaitInv,
           \/ \E book \in Books \cup {NoBook} :
                 FetchAgain(book) \/ \E plan \in Plans : FetchFresh(book, plan)
           \/ \E plan \in Plans : SizeOnTrigger(plan)
    PROVE  WaitInv'
  <1>1. ASSUME NEW book \in Books \cup {NoBook}, FetchAgain(book) PROVE WaitInv'
    <2>1. /\ pc = "fired" /\ UNCHANGED <<cfg, now, streak, okAt, snap, limit>>
          /\ \/ pc' = "done" /\ outcome' = "failed"
             \/ pc' = pc /\ outcome' = outcome
      BY <1>1 DEF FetchAgain, Done
    <2>2. limit' = Never /\ SizedOnTrigger'
      BY <2>1 DEF WaitInv, SnapOK, SizedOnTrigger
    <2> QED BY <2>1, <2>2, OverKeeps
  <1>2. ASSUME NEW book \in Books \cup {NoBook}, NEW plan \in Plans, FetchFresh(book, plan)
        PROVE  WaitInv'
    <2>1. /\ pc = "fired" /\ outcome # "price" /\ Usable(book, cfg.maxAge)
          /\ SizedOn(Snapshot(book), plan)
      BY <1>2 DEF FetchFresh
    <2>2. AgeOK(Snapshot(book))
      BY <2>1 DEF AgeOK, Usable, Validates, Snapshot
    <2> QED BY <2>1, <2>2, SizingKeeps
  <1>3. ASSUME NEW plan \in Plans, SizeOnTrigger(plan) PROVE WaitInv'
    <2>1. pc = "fired" /\ outcome = "price" /\ SizedOn(snap, plan)
      BY <1>3 DEF SizeOnTrigger
    <2>2. PriceConditionMet(cfg.price.when, cfg.price.threshold, snap) /\ AgeOK(snap)
      BY <2>1 DEF WaitInv, SnapOK
    <2> QED BY <2>1, <2>2, SizingKeeps
  <1> QED BY <1>1, <1>2, <1>3

-----------------------------------------------------------------------------
(* Every process starts with nothing waited for. *)
LEMMA InitWait == Init => WaitInv
  <1> SUFFICES ASSUME Init PROVE WaitInv
    OBVIOUS
  <1>1. /\ cfg \in Configs /\ now = 0 /\ pc = "initial" /\ streak = Never /\ outcome = "none"
        /\ okAt = 0 /\ limit = Never
    BY DEF Init
  <1>2. WaitTypeOK
    BY <1>1 DEF WaitTypeOK, Looping
  <1>3. TimeOK /\ StreakOK /\ SnapOK /\ SizedOnTrigger
    BY <1>1 DEF TimeOK, StreakOK, SnapOK, SizedOnTrigger, Looping
  <1> QED BY <1>2, <1>3 DEF WaitInv

(* Every step of the process keeps the invariant. *)
LEMMA NextWait == WaitInv /\ [Next]_vars => WaitInv'
  <1> SUFFICES ASSUME WaitInv, [Next]_vars PROVE WaitInv'
    OBVIOUS
  <1>1. CASE UNCHANGED vars
    BY <1>1 DEF vars, WaitInv, WaitTypeOK, TimeOK, StreakOK, SnapOK, AgeOK, SizedOnTrigger
  <1>2. CASE InitialTimeOnly \/ \E book \in Books \cup {NoBook} : InitialRead(book)
    BY <1>2, InitialKeeps
  <1>3. CASE CheckStart
    BY <1>3, StartKeeps
  <1>4. CASE Expires \/ Sleeps
    BY <1>4, TurnKeeps
  <1>5. CASE \E book \in Books \cup {NoBook} : \E d \in 0..Latency :
                PollOk(d, book) \/ PollFails(d, book)
    BY <1>5, PollKeeps
  <1>6. CASE \/ \E book \in Books \cup {NoBook} :
                   FetchAgain(book) \/ \E plan \in Plans : FetchFresh(book, plan)
             \/ \E plan \in Plans : SizeOnTrigger(plan)
    BY <1>6, FetchKeeps
  <1> QED BY <1>1, <1>2, <1>3, <1>4, <1>5, <1>6 DEF Next

(* The inductive invariant of the wait, for every behaviour. *)
THEOREM WaitInvariant == Spec => []WaitInv
  BY InitWait, NextWait, PTL DEF Spec

(* No deadline of wait_for_trigger is overrun by more than the poll that   *)
(* was in progress when it passed, whatever the network and the streaks    *)
(* of failures do.                                                         *)
THEOREM DeadlinesAlwaysHeld == Spec => []DeadlinesHeld
  <1>1. WaitInv => DeadlinesHeld
    BY DEF WaitInv, TimeOK, DeadlinesHeld, Waiting, Looping
  <1> QED BY <1>1, WaitInvariant, PTL

(* The wait gives up a blind price only after the whole grace without a    *)
(* good poll, and at most two rounds later.                                *)
THEOREM BlindNeitherEarlyNorLate == Spec => []BlindInTime
  <1>1. WaitInv => BlindInTime
    <2> SUFFICES ASSUME WaitInv PROVE BlindInTime
      OBVIOUS
    <2>1. /\ cfg.poll \in Nat /\ cfg.grace \in Nat /\ Latency \in Nat /\ now \in Nat
          /\ okAt \in Nat /\ (streak = Never \/ streak \in Nat)
      BY ConfigFacts DEF WaitInv, WaitTypeOK
    <2>2. ASSUME Waiting, cfg.price # Never
          PROVE  now - okAt <= cfg.grace + 2 * (cfg.poll + Latency)
      <3>1. CASE streak = Never
        BY <2>1, <2>2, <3>1 DEF WaitInv, StreakOK, Waiting
      <3>2. CASE streak # Never
        <4>1. streak \in Nat /\ streak <= okAt + cfg.poll + Latency
          BY <2>1, <3>2 DEF WaitInv, StreakOK
        <4>2. now <= streak + cfg.grace + cfg.poll
          BY <2>1, <2>2, <3>2, <4>1 DEF WaitInv, StreakOK, Waiting
        <4> QED BY <2>1, <4>1, <4>2
      <3> QED BY <3>1, <3>2
    <2>3. outcome = "blind" => now - okAt > cfg.grace
      BY DEF WaitInv, StreakOK
    <2> QED BY <2>2, <2>3 DEF BlindInTime
  <1> QED BY <1>1, WaitInvariant, PTL

(* A run that a price fired is sized on a snapshot that meets the          *)
(* condition, and none is sized on one older than the limits allow.        *)
THEOREM AlwaysSizedOnTrigger == Spec => []SizedOnTrigger
  <1>1. WaitInv => SizedOnTrigger
    BY DEF WaitInv
  <1> QED BY <1>1, WaitInvariant, PTL

-----------------------------------------------------------------------------
(* Every set of natural numbers has a least one: induction, in a form that *)
(* needs no operator.                                                      *)
LEMMA Least ==
    ASSUME NEW T \in SUBSET Nat, T # {}
    PROVE  \E n \in T : \A m \in T : n <= m
  <1> DEFINE R == OpToRel(<, Nat)
  <1>1. IsWellFoundedOn(R, Nat)
    BY NatLessThanWellFounded
  <1>2. \A x, y \in Nat : x < y => <<x, y>> \in R
    BY DEF OpToRel
  <1> HIDE DEF R
  <1>3. PICK n \in T : \A m \in T : ~(<<m, n>> \in R)
    BY <1>1, WFMin
  <1>4. ASSUME NEW m \in T PROVE n <= m
    <2>1. n \in Nat /\ m \in Nat /\ ~(m < n)
      BY <1>2, <1>3
    <2> QED BY <2>1
  <1> QED BY <1>4

-----------------------------------------------------------------------------
(* The price grid: powers of ten. *)

(* The recursion of Ten is well defined: it can be followed up to every    *)
(* number, and two ways of following it agree.                             *)
LEMMA TenDefined == Ten = [n \in Nat |-> IF n = 0 THEN 1 ELSE 10 * Ten[n - 1]]
  <1> DEFINE Step(f, n) == IF n = 0 THEN 1 ELSE 10 * f[n - 1]
             UpTo(f, k) == \A n \in 0..k : f[n] = Step(f, n)
             Bad == {k \in Nat : ~\E f \in [Nat -> Nat] : UpTo(f, k)}
  <1>1. \A k \in Nat : \E f \in [Nat -> Nat] : UpTo(f, k)
    <2> SUFFICES ASSUME Bad # {} PROVE FALSE
      OBVIOUS
    <2>1. PICK k \in Bad : \A m \in Bad : k <= m
      <3> HIDE DEF Bad
      <3> QED BY Least DEF Bad
    <2>2. CASE k = 0
      <3>1. UpTo([n \in Nat |-> 1], 0)
        OBVIOUS
      <3> QED BY <2>1, <2>2, <3>1
    <2>3. CASE k # 0
      <3>1. k - 1 \in Nat /\ k - 1 \notin Bad
        <4>1. k \in Nat
          OBVIOUS
        <4>2. k - 1 \in Nat /\ ~(k <= k - 1)
          BY <2>3, <4>1
        <4> HIDE DEF Bad
        <4> QED BY <2>1, <4>2
      <3>2. PICK f \in [Nat -> Nat] : UpTo(f, k - 1)
        BY <3>1
      <3> DEFINE g == [n \in Nat |-> Step(f, n)]
      <3>3. g \in [Nat -> Nat]
        OBVIOUS
      <3>4. \A n \in 0..(k - 1) : g[n] = f[n]
        BY <3>2
      <3>5. UpTo(g, k)
        BY <3>1, <3>4
      <3> QED BY <2>1, <3>3, <3>5
    <2> QED BY <2>2, <2>3
  <1>2. ASSUME NEW f \in [Nat -> Nat], NEW g \in [Nat -> Nat], NEW k \in Nat, NEW l \in 0..k,
               UpTo(f, k), UpTo(g, l)
        PROVE  f[l] = g[l]
    <2> DEFINE Differ == {n \in 0..l : f[n] # g[n]}
    <2> SUFFICES ASSUME Differ # {} PROVE FALSE
      OBVIOUS
    <2>1. PICK m \in Differ : \A n \in Differ : m <= n
      <3>1. Differ \subseteq Nat
        OBVIOUS
      <3> HIDE DEF Differ
      <3> QED BY Least, <3>1
    <2>2. m # 0
      BY <1>2, <2>1
    <2>3. m - 1 \in 0..l /\ m - 1 \notin Differ
      BY <2>1, <2>2
    <2>4. f[m - 1] = g[m - 1]
      BY <2>3
    <2>5. f[m] = Step(f, m) /\ g[m] = Step(g, m)
      BY <1>2, <2>1
    <2> QED BY <2>1, <2>2, <2>4, <2>5
  <1> DEFINE F(k) == CHOOSE f \in [Nat -> Nat] : UpTo(f, k)
             h == [k \in Nat |-> F(k)[k]]
  <1>3. \A k \in Nat : F(k) \in [Nat -> Nat] /\ UpTo(F(k), k)
    <2> HIDE DEF UpTo
    <2> QED BY <1>1
  <1>4. \A k \in Nat : h[k] = Step(h, k)
    <2> SUFFICES ASSUME NEW k \in Nat PROVE h[k] = Step(h, k)
      OBVIOUS
    <2>1. F(k) \in [Nat -> Nat] /\ F(k)[k] = Step(F(k), k) /\ h[k] = F(k)[k]
      <3> HIDE DEF F
      <3> QED BY <1>3
    <2>2. CASE k = 0
      BY <2>1, <2>2
    <2>3. CASE k # 0
      <3>1. k - 1 \in Nat /\ k - 1 \in 0..k
        BY <2>3
      <3>2. /\ F(k) \in [Nat -> Nat] /\ F(k - 1) \in [Nat -> Nat]
            /\ UpTo(F(k), k) /\ UpTo(F(k - 1), k - 1)
        BY <1>3, <3>1
      <3>3. F(k)[k - 1] = F(k - 1)[k - 1]
        <4> HIDE DEF UpTo, F
        <4> QED BY <1>2, <3>1, <3>2
      <3>4. h[k - 1] = F(k - 1)[k - 1]
        BY <3>1
      <3> HIDE DEF h, F
      <3> QED BY <2>1, <2>3, <3>3, <3>4
    <2> QED BY <2>2, <2>3
  <1>5. h = [n \in Nat |-> Step(h, n)]
    <2> HIDE DEF Step
    <2> QED BY <1>4
  <1> HIDE DEF h
  <1>6. Ten = CHOOSE f : f = [n \in Nat |-> Step(f, n)]
    BY DEF Ten
  <1> QED BY <1>5, <1>6

(* How a power of ten follows from the one before. *)
LEMMA TenStep == Ten[0] = 1 /\ \A n \in Nat : Ten[n + 1] = 10 * Ten[n]
  <1> DEFINE F == Ten
  <1>1. F = [n \in Nat |-> IF n = 0 THEN 1 ELSE 10 * F[n - 1]]
    BY TenDefined
  <1> HIDE DEF F
  <1>2. F[0] = 1 /\ \A n \in Nat : F[n + 1] = 10 * F[n]
    BY <1>1
  <1> QED BY <1>2 DEF F

(* Every power of ten is a positive number. *)
LEMMA TenPositive == ASSUME NEW k \in Nat PROVE Ten[k] \in Nat /\ Ten[k] > 0
  <1> DEFINE Bad == {n \in Nat : ~(Ten[n] \in Nat /\ Ten[n] > 0)}
  <1>1. ASSUME Bad # {} PROVE FALSE
    <2>1. PICK n \in Bad : \A m \in Bad : n <= m
      <3>1. Bad \in SUBSET Nat
        OBVIOUS
      <3> HIDE DEF Bad
      <3> QED BY <1>1, <3>1, Least
    <2>2. n \in Nat /\ n # 0
      BY TenStep
    <2>3. n - 1 \in Nat /\ n - 1 \notin Bad
      <3>1. n - 1 \in Nat /\ ~(n <= n - 1)
        BY <2>2
      <3> HIDE DEF Bad
      <3> QED BY <2>1, <3>1
    <2>4. Ten[n - 1] \in Nat /\ Ten[n - 1] > 0
      BY <2>3
    <2>5. Ten[(n - 1) + 1] = 10 * Ten[n - 1] /\ (n - 1) + 1 = n
      BY <2>2, <2>3, TenStep
    <2> QED BY <2>1, <2>4, <2>5
  <1> QED BY <1>1

(* Exponents add up. *)
LEMMA TenProduct == ASSUME NEW j \in Nat, NEW k \in Nat PROVE Ten[j + k] = Ten[j] * Ten[k]
  <1> DEFINE Bad == {n \in Nat : Ten[j + n] # Ten[j] * Ten[n]}
  <1>1. ASSUME Bad # {} PROVE FALSE
    <2>1. PICK n \in Bad : \A m \in Bad : n <= m
      <3>1. Bad \in SUBSET Nat
        OBVIOUS
      <3> HIDE DEF Bad
      <3> QED BY <1>1, <3>1, Least
    <2>2. n \in Nat /\ Ten[j + n] # Ten[j] * Ten[n]
      OBVIOUS
    <2>3. n # 0
      <3>1. Ten[j + 0] = Ten[j] * 1
        <4>1. j + 0 = j
          OBVIOUS
        <4> QED BY <4>1, TenPositive
      <3> QED BY <2>2, <3>1, TenStep
    <2>4. n - 1 \in Nat /\ n - 1 \notin Bad
      <3>1. n - 1 \in Nat /\ ~(n <= n - 1)
        BY <2>2, <2>3
      <3> HIDE DEF Bad
      <3> QED BY <2>1, <3>1
    <2>5. PICK i \in Nat : n = i + 1 /\ i = n - 1
      BY <2>2, <2>4
    <2>6. Ten[j + i] = Ten[j] * Ten[i]
      BY <2>4, <2>5
    <2>7. Ten[i + 1] = 10 * Ten[i] /\ Ten[(j + i) + 1] = 10 * Ten[j + i] /\ (j + i) + 1 = j + n
      BY <2>5, TenStep
    <2>8. Ten[i] \in Nat /\ Ten[j] \in Nat
      BY TenPositive
    <2>9. \A a, b \in Nat : 10 * (a * b) = a * (10 * b)
      OBVIOUS
    <2>10. Ten[j + n] = 10 * (Ten[j] * Ten[i]) /\ Ten[n] = 10 * Ten[i]
      BY <2>5, <2>6, <2>7
    <2> QED BY <2>2, <2>8, <2>9, <2>10
  <1> QED BY <1>1

(* A product of positive factors is at least as large as each. *)
LEMMA ProductBounds ==
    ASSUME NEW a \in Nat, NEW b \in Nat, b > 0
    PROVE  a <= a * b
  OBVIOUS

(* A higher power is larger. *)
LEMMA TenGrows ==
    ASSUME NEW j \in Nat, NEW k \in Nat
    PROVE  /\ j <= k => Ten[j] <= Ten[k]
           /\ j < k => Ten[j] < Ten[k]
  <1>1. ASSUME NEW i \in Nat, i <= k PROVE Ten[i] <= Ten[k]
    <2>1. k - i \in Nat /\ i + (k - i) = k
      BY <1>1
    <2>2. PICK a \in Nat : a = Ten[i]
      BY TenPositive
    <2>3. PICK b \in Nat : b = Ten[k - i] /\ b > 0
      BY <2>1, TenPositive
    <2>4. Ten[k] = a * b
      BY <2>1, <2>2, <2>3, TenProduct
    <2>5. a <= a * b
      BY <2>3, ProductBounds
    <2> QED BY <2>2, <2>4, <2>5
  <1>2. ASSUME j < k PROVE Ten[j] < Ten[k]
    <2>1. j + 1 \in Nat /\ j + 1 <= k
      BY <1>2
    <2>2. Ten[j + 1] <= Ten[k] /\ Ten[j + 1] = 10 * Ten[j]
      BY <1>1, <2>1, TenStep
    <2>3. Ten[j] \in Nat /\ Ten[j] > 0 /\ Ten[k] \in Nat
      BY TenPositive
    <2> QED BY <2>2, <2>3
  <1> QED BY <1>1, <1>2

(* Division and remainder by a positive unit. *)
LEMMA Divides ==
    ASSUME NEW a \in Int, NEW u \in Nat, u > 0
    PROVE  /\ a \div u \in Int
           /\ (a \div u) * u <= a
           /\ a < (a \div u) * u + u
           /\ a % u = 0 => a = (a \div u) * u
  <1>1. a \div u \in Int
    OBVIOUS
  <1>2. (a \div u) * u <= a
    OBVIOUS
  <1>3. a < (a \div u) * u + u
    OBVIOUS
  <1>4. a % u = 0 => a = (a \div u) * u
    OBVIOUS
  <1> QED BY <1>1, <1>2, <1>3, <1>4

(* A product is a multiple of its factor. *)
LEMMA Multiple ==
    ASSUME NEW q \in Int, NEW u \in Nat, u > 0
    PROVE  q * u \in Int /\ (q * u) % u = 0
  OBVIOUS

(* Products of different numbers with a unit are a unit apart. *)
LEMMA Apart ==
    ASSUME NEW x \in Int, NEW y \in Int, NEW u \in Nat, x < y
    PROVE  x * u + u <= y * u
  OBVIOUS

(* Two multiples of a unit are a unit apart. *)
LEMMA MultiplesApart ==
    ASSUME NEW a \in Int, NEW b \in Int, NEW u \in Nat, u > 0,
           a % u = 0, b % u = 0, a < b
    PROVE  a + u <= b
  <1>1. PICK x \in Int : x = a \div u /\ a = x * u
    BY Divides
  <1>2. PICK y \in Int : y = b \div u /\ b = y * u
    BY Divides
  <1>3. x < y
    <2>1. CASE y < x
      <3>1. y * u + u <= x * u
        BY <2>1, Apart
      <3> QED BY <1>1, <1>2, <3>1
    <2>2. CASE x = y
      BY <1>1, <1>2, <2>2
    <2> QED BY <2>1, <2>2
  <1>4. x * u + u <= y * u
    BY <1>3, Apart
  <1> QED BY <1>1, <1>2, <1>4

(* A multiple of a power of ten is one of each lower power. *)
LEMMA MultipleOfLower ==
    ASSUME NEW p \in Int, NEW j \in Nat, NEW k \in Nat, k <= j, p % Ten[j] = 0
    PROVE  p % Ten[k] = 0
  <1>1. j - k \in Nat /\ (j - k) + k = j
    OBVIOUS
  <1>2. PICK a \in Nat : a = Ten[k] /\ a > 0
    BY TenPositive
  <1>3. PICK b \in Nat : b = Ten[j - k]
    BY <1>1, TenPositive
  <1>4. PICK c \in Nat : c = Ten[j] /\ c > 0
    BY TenPositive
  <1>5. c = b * a
    BY <1>1, <1>2, <1>3, <1>4, TenProduct
  <1>6. PICK x \in Int : x = p \div c /\ p = x * c
    BY <1>4, Divides
  <1>7. x * c = (x * b) * a /\ x * b \in Int
    BY <1>5
  <1>8. PICK y \in Int : y = x * b
    BY <1>7
  <1>9. (y * a) % a = 0
    BY <1>2, Multiple
  <1> QED BY <1>2, <1>6, <1>7, <1>8, <1>9

(* So is every higher power of ten. *)
LEMMA TenIsMultiple ==
    ASSUME NEW j \in Nat, NEW k \in Nat, k <= j
    PROVE  Ten[j] % Ten[k] = 0
  <1>1. PICK c \in Nat : c = Ten[j] /\ c > 0
    BY TenPositive
  <1>2. c % c = 0
    BY <1>1
  <1>3. Ten[j] \in Int /\ Ten[j] % Ten[j] = 0
    BY <1>1, <1>2
  <1> QED BY <1>3, MultipleOfLower

-----------------------------------------------------------------------------
(* Rounding. *)

(* r is px rounded to a multiple of u, up for a buy and down for a sell:   *)
(* no multiple on that side is nearer.                                     *)
Rounds(r, px, u, side) ==
    /\ r \in Int /\ r % u = 0
    /\ side = "long" => r >= px /\ \A p \in Int : p % u = 0 /\ p >= px => p >= r
    /\ side # "long" => r <= px /\ \A p \in Int : p % u = 0 /\ p <= px => p <= r

(* Rounding down, by a truncating division. *)
LEMMA Floor ==
    ASSUME NEW a \in Int, NEW u \in Nat, u > 0
    PROVE  /\ (a \div u) * u \in Int /\ ((a \div u) * u) % u = 0
           /\ (a \div u) * u <= a
           /\ \A p \in Int : p % u = 0 /\ p <= a => p <= (a \div u) * u
  <1>1. PICK q \in Int : q = a \div u /\ q * u <= a /\ a < q * u + u
    BY Divides
  <1>2. PICK r \in Int : r = q * u /\ r % u = 0
    BY Multiple
  <1>3. ASSUME NEW p \in Int, p % u = 0, p <= a PROVE p <= r
    <2>1. CASE r < p
      <3>1. r + u <= p
        BY <1>2, <1>3, <2>1, MultiplesApart
      <3> QED BY <1>1, <1>2, <1>3, <3>1
    <2> QED BY <2>1
  <1> QED BY <1>1, <1>2, <1>3

(* Rounding up, by adding all but one unit first. *)
LEMMA Ceiling ==
    ASSUME NEW a \in Int, NEW u \in Nat, u > 0
    PROVE  /\ ((a + u - 1) \div u) * u \in Int /\ (((a + u - 1) \div u) * u) % u = 0
           /\ ((a + u - 1) \div u) * u >= a
           /\ \A p \in Int : p % u = 0 /\ p >= a => p >= ((a + u - 1) \div u) * u
  <1>1. PICK b \in Int : b = a + u - 1
    OBVIOUS
  <1>2. PICK q \in Int : q = b \div u /\ q * u <= b /\ b < q * u + u
    BY Divides
  <1>3. PICK r \in Int : r = q * u /\ r % u = 0
    BY Multiple
  <1>4. r <= b /\ b < r + u
    BY <1>2, <1>3
  <1>5. r >= a
    BY <1>1, <1>4
  <1>6. ASSUME NEW p \in Int, p % u = 0, p >= a PROVE p >= r
    <2>1. CASE p < r
      <3>1. p + u <= r
        BY <1>3, <1>6, <2>1, MultiplesApart
      <3> QED BY <1>1, <1>4, <1>6, <3>1
    <2> QED BY <2>1
  <1> QED BY <1>1, <1>2, <1>3, <1>5, <1>6

(* RoundDp rounds to the power of ten of its decimals. *)
LEMMA RoundDpRounds ==
    ASSUME NEW px \in Int, NEW dec \in Nat, NEW side,
           NEW j \in Nat, j = IF dec >= Digits THEN 0 ELSE Digits - dec
    PROVE  Rounds(RoundDp(px, dec, side), px, Ten[j], side)
  <1>1. PICK u \in Nat : u = Ten[j] /\ u > 0
    BY TenPositive
  <1>2. (IF dec >= Digits THEN 1 ELSE Ten[Digits - dec]) = u
    BY <1>1, TenStep
  <1>3. RoundDp(px, dec, side) = IF side = "long" THEN ((px + u - 1) \div u) * u ELSE (px \div u) * u
    BY <1>2 DEF RoundDp
  <1>4. CASE side = "long"
    <2>1. PICK r : r = ((px + u - 1) \div u) * u
      OBVIOUS
    <2>2. r \in Int /\ r % u = 0 /\ r >= px /\ \A p \in Int : p % u = 0 /\ p >= px => p >= r
      BY <1>1, <2>1, Ceiling
    <2>3. RoundDp(px, dec, side) = r
      BY <1>3, <1>4, <2>1
    <2> QED BY <1>1, <1>4, <2>2, <2>3 DEF Rounds
  <1>5. CASE side # "long"
    BY <1>1, <1>3, <1>5, Floor DEF Rounds
  <1> QED BY <1>4, <1>5

(* A price that is a multiple already is its own rounding. *)
LEMMA RoundsToItself ==
    ASSUME NEW r, NEW px \in Int, NEW u, NEW side, Rounds(r, px, u, side), px % u = 0
    PROVE  r = px
  BY DEF Rounds

-----------------------------------------------------------------------------
(* The grid. *)

(* OnGrid, with its significant digits as a bound on the price. *)
LEMMA OnGridBound ==
    ASSUME NEW p \in Int, NEW k \in Nat, p % Ten[k] = 0
    PROVE  p \div Ten[k] < Ten[SigDigits] <=> p < Ten[SigDigits + k]
  <1>1. PICK u \in Nat : u = Ten[k] /\ u > 0
    BY TenPositive
  <1>2. SigDigits \in Nat
    BY MarketBounds
  <1>3. PICK v \in Nat : v = Ten[SigDigits]
    BY <1>2, TenPositive
  <1>4. Ten[SigDigits + k] = v * u
    BY <1>1, <1>2, <1>3, TenProduct
  <1>5. PICK x \in Int : x = p \div u /\ p = x * u
    BY <1>1, Divides
  <1>6. ASSUME x < v PROVE x * u < v * u
    <2>1. x * u + u <= v * u
      BY <1>6, Apart
    <2>2. x * u \in Int /\ v * u \in Int
      OBVIOUS
    <2> QED BY <1>1, <2>1, <2>2
  <1>7. ASSUME v <= x PROVE v * u <= x * u
    <2>1. CASE v < x
      <3>1. v * u + u <= x * u
        BY <2>1, Apart
      <3>2. x * u \in Int /\ v * u \in Int
        OBVIOUS
      <3> QED BY <1>1, <3>1, <3>2
    <2> QED BY <1>7, <2>1
  <1>8. x < v <=> x * u < v * u
    <2>1. x * u \in Int /\ v * u \in Int
      OBVIOUS
    <2> QED BY <1>6, <1>7, <2>1
  <1> QED BY <1>1, <1>3, <1>4, <1>5, <1>8

(* What a price has to be to lie on the grid of m decimals cut off. *)
Fits(p, m) ==
    /\ p > 0 /\ p % Ten[m] = 0
    /\ p % Ten[Digits] = 0 \/ \E k \in 0..Digits : p % Ten[k] = 0 /\ p < Ten[SigDigits + k]

(* The exchange's rule, in these terms. *)
LEMMA GridFits ==
    ASSUME NEW p \in Int, NEW sz \in Nat
    PROVE  OnGrid(p, sz) <=> Fits(p, Digits - MaxDecimals(sz))
  <1>1. \A k \in 0..Digits : k \in Nat
    BY MarketBounds
  <1>2. \A k \in 0..Digits : p % Ten[k] = 0 =>
           (p \div Ten[k] < Ten[SigDigits] <=> p < Ten[SigDigits + k])
    BY <1>1, OnGridBound
  <1> QED BY <1>2 DEF OnGrid, Fits, One

(* A price with a digit more than the unit j allows is on the grid only as *)
(* a multiple of that unit.                                                *)
LEMMA LargeFits ==
    ASSUME NEW p \in Int, NEW m \in 0..Digits, NEW j \in 1..Digits, Fits(p, m),
           p >= Ten[SigDigits + j - 1]
    PROVE  p % Ten[j] = 0
  <1> USE MarketBounds
  <1>1. CASE p % Ten[Digits] = 0
    BY <1>1, MultipleOfLower
  <1>2. CASE \E k \in 0..Digits : p % Ten[k] = 0 /\ p < Ten[SigDigits + k]
    <2>1. PICK k \in 0..Digits : p % Ten[k] = 0 /\ p < Ten[SigDigits + k]
      BY <1>2
    <2>2. SigDigits + k \in Nat /\ SigDigits + j - 1 \in Nat
      OBVIOUS
    <2>3. Ten[SigDigits + k] \in Nat /\ Ten[SigDigits + j - 1] \in Nat
      BY <2>2, TenPositive
    <2>4. ~(SigDigits + k <= SigDigits + j - 1)
      BY <2>1, <2>2, <2>3, TenGrows
    <2>5. j <= k
      BY <2>4
    <2> QED BY <2>1, <2>5, MultipleOfLower
  <1> QED BY <1>1, <1>2 DEF Fits

(* q is on the grid, and no price of the grid lies between px and q. *)
NearestFit(q, px, m, side) ==
    /\ Fits(q, m)
    /\ side = "long" => q >= px /\ \A p \in Int : Fits(p, m) /\ p >= px => p >= q
    /\ side # "long" => q <= px /\ \A p \in Int : Fits(p, m) /\ p <= px => p <= q

(* Two cuts, to decimals and then to significant digits, land on the grid  *)
(* and pass over no price of it: the second cut only coarsens the first.   *)
LEMMA CutsMeet ==
    ASSUME NEW px \in Int, NEW cut \in Int, NEW q \in Int, NEW side,
           NEW m \in 0..Digits, NEW j \in 0..Digits, cut > 0, q > 0,
           Rounds(cut, px, Ten[m], side), Rounds(q, cut, Ten[j], side),
           cut < Ten[SigDigits + j] \/ j = Digits,
           j = 0 \/ cut >= Ten[SigDigits + j - 1]
    PROVE  NearestFit(q, px, m, side)
  <1> USE MarketBounds DEF NearestFit
  <1>1. CASE j <= m
    <2>1. q = cut
      <3>1. cut % Ten[m] = 0
        BY DEF Rounds
      <3>2. cut % Ten[j] = 0
        BY <1>1, <3>1, MultipleOfLower
      <3> QED BY <3>2, RoundsToItself
    <2>2. q % Ten[m] = 0 /\ q % Ten[j] = 0
      BY <2>1 DEF Rounds
    <2>3. j = Digits => m = Digits
      BY <1>1
    <2>4. Fits(q, m)
      BY <2>1, <2>2, <2>3 DEF Fits
    <2> QED BY <2>1, <2>4 DEF Rounds, Fits
  <1>2. CASE m < j
    <2>1. j \in 1..Digits /\ cut >= Ten[SigDigits + j - 1]
      BY <1>2
    <2>2. q % Ten[j] = 0 /\ q % Ten[m] = 0
      <3>1. q % Ten[j] = 0
        BY DEF Rounds
      <3> QED BY <1>2, <3>1, MultipleOfLower
    <2>3. /\ SigDigits + j - 1 \in Nat /\ SigDigits + j \in Nat /\ j + 1 \in Nat
          /\ j <= SigDigits + j - 1 /\ j <= SigDigits + j /\ j + 1 <= SigDigits + j
          /\ SigDigits + (j + 1) \in Nat /\ SigDigits + j < SigDigits + (j + 1)
      OBVIOUS
    <2>4. /\ Ten[SigDigits + j - 1] \in Int /\ Ten[SigDigits + j] \in Int
          /\ Ten[SigDigits + (j + 1)] \in Int
      BY <2>3, TenPositive
    <2>5. /\ Ten[SigDigits + j - 1] % Ten[j] = 0
          /\ Ten[SigDigits + j] % Ten[j] = 0
          /\ Ten[SigDigits + j] % Ten[j + 1] = 0
      BY <2>3, TenIsMultiple
    <2>6. Ten[SigDigits + j] < Ten[SigDigits + (j + 1)]
      BY <2>3, TenGrows
    <2>7. CASE side = "long"
      <3>1. /\ q >= cut /\ cut >= px
            /\ \A p \in Int : p % Ten[m] = 0 /\ p >= px => p >= cut
            /\ \A p \in Int : p % Ten[j] = 0 /\ p >= cut => p >= q
        BY <2>7 DEF Rounds
      <3>2. ASSUME j # Digits PROVE Fits(q, m)
        <4>1. q <= Ten[SigDigits + j]
          BY <2>4, <2>5, <3>1, <3>2
        <4>2. CASE q < Ten[SigDigits + j]
          BY <2>2, <4>2 DEF Fits
        <4>3. CASE q = Ten[SigDigits + j]
          <5>1. j + 1 \in 0..Digits
            BY <3>2
          <5>2. q % Ten[j + 1] = 0 /\ q < Ten[SigDigits + (j + 1)]
            BY <2>5, <2>6, <4>3
          <5> QED BY <2>2, <5>1, <5>2 DEF Fits
        <4> QED BY <2>4, <4>1, <4>2, <4>3
      <3>3. Fits(q, m)
        <4>1. CASE j = Digits
          BY <2>2, <4>1 DEF Fits
        <4> QED BY <3>2, <4>1
      <3>4. ASSUME NEW p \in Int, Fits(p, m), p >= px PROVE p >= q
        <4>1. p >= cut
          BY <3>1, <3>4 DEF Fits
        <4>2. p >= Ten[SigDigits + j - 1]
          BY <2>1, <2>4, <4>1
        <4>3. p % Ten[j] = 0
          BY <2>1, <3>4, <4>2, LargeFits
        <4> QED BY <3>1, <4>1, <4>3
      <3>5. q >= px
        BY <3>1
      <3> QED BY <2>7, <3>3, <3>4, <3>5
    <2>8. CASE side # "long"
      <3>1. /\ q <= cut /\ cut <= px
            /\ \A p \in Int : p % Ten[m] = 0 /\ p <= px => p <= cut
            /\ \A p \in Int : p % Ten[j] = 0 /\ p <= cut => p <= q
        BY <2>8 DEF Rounds
      <3>2. Fits(q, m)
        <4>1. CASE j = Digits
          BY <2>2, <4>1 DEF Fits
        <4>2. CASE j # Digits
          <5>1. q < Ten[SigDigits + j]
            BY <2>4, <3>1, <4>2
          <5> QED BY <2>2, <5>1 DEF Fits
        <4> QED BY <4>1, <4>2
      <3>3. ASSUME NEW p \in Int, Fits(p, m), p <= px PROVE p <= q
        <4>1. p <= cut
          BY <3>1, <3>3 DEF Fits
        <4>2. Ten[SigDigits + j - 1] <= q
          BY <2>1, <2>4, <2>5, <3>1
        <4>3. ASSUME q < p PROVE FALSE
          <5>1. p >= Ten[SigDigits + j - 1]
            BY <2>4, <4>2, <4>3
          <5>2. p % Ten[j] = 0
            BY <2>1, <3>3, <5>1, LargeFits
          <5> QED BY <3>1, <4>1, <4>3, <5>2
        <4> QED BY <4>3
      <3>4. q <= px
        BY <3>1
      <3> QED BY <2>8, <3>2, <3>3, <3>4
    <2> QED BY <2>7, <2>8
  <1> QED BY <1>1, <1>2

-----------------------------------------------------------------------------
(* Counting digits. *)

(* A set that has every number below one it has is an interval, and its    *)
(* cardinality says where it ends.                                         *)
LEMMA Segment ==
    ASSUME NEW a \in Nat, NEW b \in Nat, NEW T \in SUBSET (a..b),
           \A x \in T : \A y \in a..x : y \in T
    PROVE  Cardinality(T) \in Nat /\ T = a..(a + Cardinality(T) - 1)
  <1> DEFINE Out == {n \in Nat : n >= a /\ n \notin T}
  <1>1. a + b + 1 \in Out
    OBVIOUS
  <1>2. PICK c \in Out : \A n \in Out : c <= n
    <2>1. Out \in SUBSET Nat /\ Out # {}
      BY <1>1
    <2> HIDE DEF Out
    <2> QED BY <2>1, Least
  <1>3. c \in Nat /\ c >= a /\ c \notin T
    OBVIOUS
  <1>4. T = a..(c - 1)
    <2>1. ASSUME NEW x \in a..(c - 1) PROVE x \in T
      <3>1. x \in Nat /\ x >= a /\ ~(c <= x)
        BY <1>3
      <3>2. x \notin Out
        BY <1>2, <3>1
      <3> QED BY <3>1, <3>2
    <2>2. ASSUME NEW x \in T PROVE x \in a..(c - 1)
      <3>1. x \in a..b /\ x \in Nat
        OBVIOUS
      <3>2. ~(c <= x)
        BY <1>3, <3>1
      <3> QED BY <1>3, <3>1, <3>2
    <2> QED BY <2>1, <2>2
  <1>5. Cardinality(a..(c - 1)) = IF a > c - 1 THEN 0 ELSE (c - 1) - a + 1
    BY <1>3, FS_Interval
  <1>6. Cardinality(T) = c - a
    BY <1>3, <1>4, <1>5
  <1> QED BY <1>3, <1>4, <1>6

(* Dividing by a unit and comparing, or comparing with the product. *)
LEMMA QuotientBound ==
    ASSUME NEW p \in Int, NEW u \in Nat, u > 0, NEW v \in Nat
    PROVE  v <= p \div u <=> v * u <= p
  <1>1. PICK x \in Int : x = p \div u /\ x * u <= p /\ p < x * u + u
    BY Divides
  <1>2. x * u \in Int /\ v * u \in Int
    OBVIOUS
  <1>3. ASSUME v < x PROVE v * u <= p
    <2>1. v * u + u <= x * u
      BY <1>3, Apart
    <2> QED BY <1>1, <1>2, <2>1
  <1>4. ASSUME x < v PROVE p < v * u
    <2>1. x * u + u <= v * u
      BY <1>4, Apart
    <2> QED BY <1>1, <1>2, <2>1
  <1>5. v = x => v * u <= p
    BY <1>1
  <1> QED BY <1>1, <1>2, <1>3, <1>4, <1>5

(* How far IntegerDigitCount counts: n digits up to the significant ones. *)
LEMMA DigitCount ==
    ASSUME NEW px \in Int, px > 0, NEW n, n = IntegerDigitCount(px)
    PROVE  /\ n \in Nat
           /\ n >= SigDigits => px >= Ten[SigDigits + Digits - 1]
           /\ n < SigDigits => px < Ten[n + Digits]
           /\ n >= 1 => px >= Ten[n - 1 + Digits]
           /\ px >= One => n >= 1
  <1> USE MarketBounds
  <1> DEFINE T == {k \in 0..SigDigits : Ten[k] <= px \div One}
  <1>1. \A k \in Nat : Ten[k] <= px \div One <=> Ten[k + Digits] <= px
    <2> SUFFICES ASSUME NEW k \in Nat
                 PROVE  Ten[k] <= px \div One <=> Ten[k + Digits] <= px
      OBVIOUS
    <2>1. PICK u \in Nat : u = One /\ u > 0
      BY TenPositive DEF One
    <2>2. PICK v \in Nat : v = Ten[k]
      BY TenPositive
    <2>3. Ten[k + Digits] = v * u
      BY <2>1, <2>2, TenProduct DEF One
    <2>4. v <= px \div u <=> v * u <= px
      BY <2>1, QuotientBound
    <2> QED BY <2>1, <2>2, <2>3, <2>4
  <1>2. ASSUME NEW x \in T, NEW y \in 0..x PROVE y \in T
    <2>1. x \in Nat /\ y \in Nat /\ x <= SigDigits /\ y <= x
      OBVIOUS
    <2>2. Ten[x + Digits] <= px
      BY <1>1, <2>1
    <2>3. x + Digits \in Nat /\ y + Digits \in Nat /\ y + Digits <= x + Digits
      BY <2>1
    <2>4. Ten[y + Digits] <= Ten[x + Digits] /\ Ten[y + Digits] \in Int /\ Ten[x + Digits] \in Int
      BY <2>3, TenGrows, TenPositive
    <2>5. Ten[y + Digits] <= px
      BY <2>2, <2>4
    <2> QED BY <1>1, <2>1, <2>5
  <1>3. n = Cardinality(T)
    BY DEF IntegerDigitCount
  <1>4. T \in SUBSET (0..SigDigits)
    OBVIOUS
  <1>5. n \in Nat /\ T = 0..(0 + n - 1)
    <2> HIDE DEF T
    <2>1. \A x \in T : \A y \in 0..x : y \in T
      BY <1>2
    <2>2. Cardinality(T) \in Nat /\ T = 0..(0 + Cardinality(T) - 1)
      BY <1>4, <2>1, Segment
    <2> QED BY <1>3, <2>2
  <1>6. ASSUME NEW k \in Nat, k <= SigDigits PROVE k < n <=> Ten[k + Digits] <= px
    <2>1. k \in T <=> Ten[k + Digits] <= px
      BY <1>1, <1>6
    <2>2. k \in T <=> k < n
      <3> HIDE DEF T
      <3> QED BY <1>5
    <2> QED BY <2>1, <2>2
  <1>7. n <= SigDigits + 1
    <2>1. n # 0 => n - 1 \in T
      <3> HIDE DEF T
      <3> QED BY <1>5
    <2> QED BY <1>5, <2>1
  <1>8. n >= SigDigits => px >= Ten[SigDigits + Digits - 1]
    <2>1. SigDigits - 1 \in Nat /\ SigDigits - 1 <= SigDigits
      OBVIOUS
    <2>2. SigDigits - 1 < n <=> Ten[SigDigits - 1 + Digits] <= px
      BY <1>6, <2>1
    <2>3. SigDigits - 1 + Digits = SigDigits + Digits - 1 /\ SigDigits + Digits - 1 \in Nat
      OBVIOUS
    <2>4. Ten[SigDigits + Digits - 1] \in Int
      BY <2>3, TenPositive
    <2> QED BY <1>5, <2>2, <2>3, <2>4
  <1>9. n < SigDigits => px < Ten[n + Digits]
    <2>1. n + Digits \in Nat
      BY <1>5
    <2>2. Ten[n + Digits] \in Int
      BY <2>1, TenPositive
    <2> QED BY <1>5, <1>6, <2>2
  <1>10. n >= 1 => px >= Ten[n - 1 + Digits]
    <2> SUFFICES ASSUME n >= 1 PROVE px >= Ten[n - 1 + Digits]
      OBVIOUS
    <2>1. n - 1 \in Nat /\ n - 1 <= SigDigits /\ n - 1 < n /\ n - 1 + Digits \in Nat
      BY <1>5, <1>7
    <2>2. Ten[n - 1 + Digits] \in Int
      BY <2>1, TenPositive
    <2> QED BY <1>6, <2>1, <2>2
  <1>11. px >= One => n >= 1
    <2>1. 0 < n <=> Ten[0 + Digits] <= px
      BY <1>6
    <2>2. Ten[0 + Digits] = One /\ One \in Int
      BY TenPositive DEF One
    <2> QED BY <1>5, <2>1, <2>2
  <1> QED BY <1>5, <1>8, <1>9, <1>10, <1>11

(* What LeadingFractionZeros counts: the distance of the first digit of a  *)
(* price below one from the point.                                         *)
LEMMA ZeroCount ==
    ASSUME NEW px \in Int, px > 0, px < One, NEW z, z = LeadingFractionZeros(px)
    PROVE  z \in 0..(Digits - 1) /\ Ten[Digits - 1 - z] <= px /\ px < Ten[Digits - z]
  <1> USE MarketBounds
  <1> DEFINE T == {k \in 1..Digits : px * Ten[k] < One}
  <1>1. ASSUME NEW k \in 0..Digits PROVE px * Ten[k] < One <=> px < Ten[Digits - k]
    <2>1. k \in Nat /\ Digits - k \in Nat /\ (Digits - k) + k = Digits
      OBVIOUS
    <2>2. PICK u \in Nat : u = Ten[k] /\ u > 0
      BY <2>1, TenPositive
    <2>3. PICK v \in Nat : v = Ten[Digits - k]
      BY <2>1, TenPositive
    <2>4. One = v * u
      BY <2>1, <2>2, <2>3, TenProduct DEF One
    <2>5. px * u \in Int /\ v * u \in Int
      OBVIOUS
    <2>6. ASSUME px < v PROVE px * u < v * u
      <3>1. px * u + u <= v * u
        BY <2>6, Apart
      <3> QED BY <2>2, <2>5, <3>1
    <2>7. ASSUME v < px PROVE v * u < px * u
      <3>1. v * u + u <= px * u
        BY <2>7, Apart
      <3> QED BY <2>2, <2>5, <3>1
    <2>8. px * u < v * u <=> px < v
      <3>1. px = v => ~(px * u < v * u)
        BY <2>5
      <3> QED BY <2>5, <2>6, <2>7, <3>1
    <2> QED BY <2>2, <2>3, <2>4, <2>8
  <1>2. ASSUME NEW x \in T, NEW y \in 1..x PROVE y \in T
    <2>1. x \in 0..Digits /\ y \in 0..Digits /\ y \in 1..Digits /\ y <= x
      OBVIOUS
    <2>2. px < Ten[Digits - x]
      BY <1>1, <2>1
    <2>3. Digits - x \in Nat /\ Digits - y \in Nat /\ Digits - x <= Digits - y
      BY <2>1
    <2>4. Ten[Digits - x] <= Ten[Digits - y] /\ Ten[Digits - x] \in Int /\ Ten[Digits - y] \in Int
      BY <2>3, TenGrows, TenPositive
    <2>5. px < Ten[Digits - y]
      BY <2>2, <2>4
    <2> QED BY <1>1, <2>1, <2>5
  <1>3. Digits # 0
    BY TenStep DEF One
  <1>4. T \in SUBSET (1..Digits)
    OBVIOUS
  <1>5. z \in Nat /\ T = 1..(1 + z - 1)
    <2>1. z = Cardinality(T)
      BY DEF LeadingFractionZeros
    <2> HIDE DEF T
    <2>2. \A x \in T : \A y \in 1..x : y \in T
      BY <1>2
    <2>3. Cardinality(T) \in Nat /\ T = 1..(1 + Cardinality(T) - 1)
      BY <1>4, <2>2, Segment
    <2> QED BY <2>1, <2>3
  <1>6. ASSUME NEW k \in 1..Digits PROVE k <= z <=> px < Ten[Digits - k]
    <2>1. k \in T <=> px < Ten[Digits - k]
      BY <1>1
    <2>2. k \in T <=> k <= z
      <3> HIDE DEF T
      <3> QED BY <1>5
    <2> QED BY <2>1, <2>2
  <1>7. z < Digits
    <2>1. ~(Digits <= z)
      <3>1. Digits \in 1..Digits /\ Digits - Digits = 0
        BY <1>3
      <3>2. ~(px < Ten[Digits - Digits])
        BY <3>1, TenStep
      <3> QED BY <1>6, <3>1, <3>2
    <2> QED BY <1>5, <2>1
  <1>8. px < Ten[Digits - z]
    <2>1. CASE z = 0
      BY <2>1 DEF One
    <2>2. CASE z # 0
      <3>1. z \in 1..Digits /\ z <= z
        BY <1>5, <1>7, <2>2
      <3> QED BY <1>6, <3>1
    <2> QED BY <2>1, <2>2
  <1>9. Ten[Digits - 1 - z] <= px
    <2>1. z + 1 \in 1..Digits /\ ~(z + 1 <= z) /\ Digits - (z + 1) = Digits - 1 - z
          /\ Digits - 1 - z \in Nat
      BY <1>5, <1>7
    <2>2. ~(px < Ten[Digits - (z + 1)])
      BY <1>6, <2>1
    <2>3. Ten[Digits - 1 - z] \in Int
      BY <2>1, TenPositive
    <2> QED BY <2>1, <2>2, <2>3
  <1> QED BY <1>5, <1>7, <1>8, <1>9

(* The significant digits of a price come to one unit j: the price fits    *)
(* into them at that unit, or the unit is a whole one, and at a finer unit *)
(* it does not.                                                            *)
LEMMA SignificantUnit ==
    ASSUME NEW px \in Int, px > 0, NEW side
    PROVE  \E j \in 0..Digits :
              /\ Rounds(RoundToSignificant(px, side), px, Ten[j], side)
              /\ px < Ten[SigDigits + j] \/ j = Digits
              /\ j = 0 \/ px >= Ten[SigDigits + j - 1]
  <1> USE MarketBounds
  <1>1. PICK n : n = IntegerDigitCount(px)
    OBVIOUS
  <1>2. /\ n \in Nat
        /\ n >= SigDigits => px >= Ten[SigDigits + Digits - 1]
        /\ n < SigDigits => px < Ten[n + Digits]
        /\ n >= 1 => px >= Ten[n - 1 + Digits]
        /\ px >= One => n >= 1
    BY <1>1, DigitCount
  <1>3. CASE n >= SigDigits
    <2>1. RoundToSignificant(px, side) = RoundDp(px, 0, side)
      BY <1>1, <1>3 DEF RoundToSignificant
    <2>2. Digits = IF 0 >= Digits THEN 0 ELSE Digits - 0
      OBVIOUS
    <2>3. Rounds(RoundDp(px, 0, side), px, Ten[Digits], side)
      BY <2>2, RoundDpRounds
    <2> QED BY <1>2, <1>3, <2>1, <2>3
  <1>4. CASE n < SigDigits /\ px >= One
    <2>1. RoundToSignificant(px, side) = RoundDp(px, SigDigits - n, side)
      <3>1. One \in Int
        BY TenPositive DEF One
      <3> QED BY <1>1, <1>2, <1>4, <3>1 DEF RoundToSignificant
    <2>2. PICK j \in 0..Digits : j = IF SigDigits - n >= Digits THEN 0 ELSE Digits - (SigDigits - n)
      BY <1>2, <1>4
    <2>3. SigDigits - n \in Nat /\ j \in Nat
      BY <1>2, <1>4
    <2>4. Rounds(RoundDp(px, SigDigits - n, side), px, Ten[j], side)
      BY <2>2, <2>3, RoundDpRounds
    <2>5. px < Ten[n + Digits] /\ px >= Ten[n - 1 + Digits]
      BY <1>2, <1>4
    <2>6. px < Ten[SigDigits + j]
      <3>1. n + Digits \in Nat /\ SigDigits + j \in Nat /\ n + Digits <= SigDigits + j
        BY <1>2, <2>2
      <3>2. Ten[n + Digits] <= Ten[SigDigits + j] /\ Ten[n + Digits] \in Int /\ Ten[SigDigits + j] \in Int
        BY <3>1, TenGrows, TenPositive
      <3> QED BY <2>5, <3>2
    <2>7. j = 0 \/ px >= Ten[SigDigits + j - 1]
      <3>1. j # 0 => SigDigits + j - 1 = n - 1 + Digits
        BY <1>2, <2>2
      <3> QED BY <2>5, <3>1
    <2> QED BY <2>1, <2>4, <2>6, <2>7
  <1>5. CASE n < SigDigits /\ px < One
    <2>1. PICK z : z = LeadingFractionZeros(px)
      OBVIOUS
    <2>2. z \in 0..(Digits - 1) /\ Ten[Digits - 1 - z] <= px /\ px < Ten[Digits - z]
      BY <1>5, <2>1, ZeroCount
    <2>3. RoundToSignificant(px, side) = RoundDp(px, SigDigits + z, side)
      BY <1>1, <1>2, <1>5, <2>1 DEF RoundToSignificant
    <2>4. PICK j \in 0..Digits : j = IF SigDigits + z >= Digits THEN 0 ELSE Digits - (SigDigits + z)
      BY <2>2
    <2>5. SigDigits + z \in Nat /\ j \in Nat
      BY <2>2
    <2>6. Rounds(RoundDp(px, SigDigits + z, side), px, Ten[j], side)
      BY <2>4, <2>5, RoundDpRounds
    <2>7. px < Ten[SigDigits + j]
      <3>1. Digits - z \in Nat /\ SigDigits + j \in Nat /\ Digits - z <= SigDigits + j
        BY <2>2, <2>4
      <3>2. Ten[Digits - z] <= Ten[SigDigits + j] /\ Ten[Digits - z] \in Int /\ Ten[SigDigits + j] \in Int
        BY <3>1, TenGrows, TenPositive
      <3> QED BY <2>2, <3>2
    <2>8. j = 0 \/ px >= Ten[SigDigits + j - 1]
      <3>1. j # 0 => SigDigits + j - 1 = Digits - 1 - z
        BY <2>2, <2>4
      <3>2. Digits - 1 - z \in Nat
        BY <2>2
      <3>3. Ten[Digits - 1 - z] \in Int
        BY <3>2, TenPositive
      <3> QED BY <2>2, <3>1, <3>3
    <2> QED BY <2>3, <2>6, <2>7, <2>8
  <1>6. One \in Int
    BY TenPositive DEF One
  <1> QED BY <1>2, <1>3, <1>4, <1>5, <1>6

(* round_price gives a price, positive or not. *)
LEMMA RoundPriceTyped ==
    ASSUME NEW px \in Int, NEW sz \in Nat, NEW side
    PROVE  RoundPrice(px, sz, side) \in Int
  <1> USE MarketBounds
  <1>1. PICK dec \in 0..Digits : dec = MaxDecimals(sz)
    BY DEF MaxDecimals
  <1>2. PICK m \in Nat : m = IF dec >= Digits THEN 0 ELSE Digits - dec
    BY <1>1
  <1>3. PICK cut : cut = RoundDp(px, dec, side)
    OBVIOUS
  <1>4. cut \in Int
    <2>1. Rounds(cut, px, Ten[m], side)
      BY <1>1, <1>2, <1>3, RoundDpRounds
    <2> QED BY <2>1 DEF Rounds
  <1>5. cut > 0 => RoundToSignificant(cut, side) \in Int
    BY <1>4, SignificantUnit DEF Rounds
  <1> QED BY <1>1, <1>3, <1>4, <1>5 DEF RoundPrice

(* round_price finds the grid price nearest to the price it is given, on   *)
(* the marketable side, whenever it finds one.                             *)
LEMMA RoundPriceNearestGrid ==
    ASSUME NEW px \in Int, NEW sz \in Nat, NEW side, RoundPrice(px, sz, side) > 0
    PROVE  NearestMarketable(RoundPrice(px, sz, side), px, side, sz)
  <1> USE MarketBounds
  <1>1. PICK dec \in 0..Digits : dec = MaxDecimals(sz)
    BY DEF MaxDecimals
  <1>2. PICK m \in 0..Digits : m = Digits - dec /\ m = IF dec >= Digits THEN 0 ELSE Digits - dec
    BY <1>1
  <1>3. PICK cut : cut = RoundDp(px, dec, side)
    OBVIOUS
  <1>4. Rounds(cut, px, Ten[m], side) /\ cut \in Int
    <2>1. Rounds(cut, px, Ten[m], side)
      BY <1>1, <1>2, <1>3, RoundDpRounds
    <2> QED BY <2>1 DEF Rounds
  <1>5. PICK q : q = RoundPrice(px, sz, side)
    OBVIOUS
  <1>6. q = IF px <= 0 \/ cut <= 0 THEN cut ELSE RoundToSignificant(cut, side)
    BY <1>1, <1>3, <1>5 DEF RoundPrice
  <1>7. px > 0 /\ cut > 0
    <2>1. ASSUME px <= 0 PROVE cut <= 0
      <3>1. PICK u \in Nat : u = Ten[m] /\ u > 0
        BY TenPositive
      <3>2. 0 % u = 0
        BY <3>1
      <3> QED BY <1>4, <2>1, <3>1, <3>2 DEF Rounds
    <2>2. q > 0
      BY <1>5
    <2> QED BY <1>4, <1>6, <2>1, <2>2
  <1>8. q = RoundToSignificant(cut, side)
    BY <1>4, <1>6, <1>7
  <1>9. PICK j \in 0..Digits :
              /\ Rounds(q, cut, Ten[j], side)
              /\ cut < Ten[SigDigits + j] \/ j = Digits
              /\ j = 0 \/ cut >= Ten[SigDigits + j - 1]
    BY <1>4, <1>7, <1>8, SignificantUnit
  <1>10. q \in Int /\ q > 0
    BY <1>5, <1>9 DEF Rounds
  <1>11. /\ Fits(q, m)
         /\ side = "long" => q >= px /\ \A p \in Int : Fits(p, m) /\ p >= px => p >= q
         /\ side # "long" => q <= px /\ \A p \in Int : Fits(p, m) /\ p <= px => p <= q
    <2>1. NearestFit(q, px, m, side)
      BY <1>4, <1>7, <1>9, <1>10, CutsMeet
    <2> QED BY <2>1 DEF NearestFit
  <1>12. \A p \in Int : OnGrid(p, sz) <=> Fits(p, m)
    BY <1>1, <1>2, GridFits
  <1>13. CASE side = "long"
    <2>1. q >= px /\ OnGrid(q, sz)
      BY <1>10, <1>11, <1>12, <1>13
    <2>2. ASSUME NEW p \in px..(q - 1) PROVE ~OnGrid(p, sz)
      <3>1. p \in Int /\ p >= px /\ ~(p >= q)
        BY <1>10
      <3> QED BY <1>11, <1>12, <1>13, <3>1
    <2> QED BY <1>5, <1>13, <2>1, <2>2 DEF NearestMarketable
  <1>14. CASE side # "long"
    <2>1. q <= px /\ OnGrid(q, sz)
      BY <1>10, <1>11, <1>12, <1>14
    <2>2. ASSUME NEW p \in (q + 1)..px PROVE ~OnGrid(p, sz)
      <3>1. p \in Int /\ p <= px /\ ~(p <= q)
        BY <1>10
      <3> QED BY <1>11, <1>12, <1>14, <3>1
    <2> QED BY <1>5, <1>14, <2>1, <2>2 DEF NearestMarketable
  <1> QED BY <1>13, <1>14

-----------------------------------------------------------------------------
(* The limit price. *)

(* The snapshot of a price trigger has a touch, and a limit price that was *)
(* given is the right one.                                                 *)
LimitInv ==
    /\ pc = "fired" /\ outcome = "price" => snap.bid \in Int /\ snap.ask \in Int
    /\ LimitRight

(* The first level of a side that has one. *)
LEMMA HeadTyped ==
    ASSUME NEW S, NEW levels \in Seq(S), levels # <<>>
    PROVE  levels[1] \in S
  <1>1. Len(levels) \in Nat /\ levels \in [1..Len(levels) -> S]
    OBVIOUS
  <1>2. Len(levels) # 0
    OBVIOUS
  <1>3. 1 \in 1..Len(levels)
    BY <1>1, <1>2
  <1> QED BY <1>1, <1>3

(* The touch of a usable book is a pair of prices. *)
LEMMA TouchKnown ==
    ASSUME NEW book \in Books \cup {NoBook}, NEW age, Usable(book, age)
    PROVE  Snapshot(book).bid \in Int /\ Snapshot(book).ask \in Int
  <1> DEFINE Levels == Seq([px : Int, sz : Int])
  <1>1. book \in Books /\ book.bids # <<>> /\ book.asks # <<>>
    BY DEF Usable, Validates
  <1>2. PICK bids \in Levels : bids = book.bids /\ bids # <<>>
    BY <1>1, BooksTyped
  <1>3. PICK asks \in Levels : asks = book.asks /\ asks # <<>>
    BY <1>1, BooksTyped
  <1>4. ASSUME NEW levels \in Levels, levels # <<>> PROVE levels[1].px \in Int
    <2>1. levels[1] \in [px : Int, sz : Int]
      BY <1>4, HeadTyped
    <2> QED BY <2>1
  <1> HIDE DEF Levels
  <1>5. bids[1].px \in Int /\ asks[1].px \in Int
    BY <1>2, <1>3, <1>4
  <1> QED BY <1>2, <1>3, <1>5 DEF Snapshot

(* The price before it is rounded. *)
LEMMA RawTyped ==
    ASSUME NEW s, s.bid \in Int, s.ask \in Int, NEW side, NEW bps \in Nat
    PROVE  RawLimit(s, side, bps) \in Int
  <1>1. BpsBase \in Nat /\ BpsBase > 0
    BY MarketBounds
  <1>2. PICK x \in Int : x = s.ask * bps
    OBVIOUS
  <1>3. PICK y \in Int : y = s.bid * bps
    OBVIOUS
  <1>4. x \div BpsBase \in Int /\ y \div BpsBase \in Int
    BY <1>1, Divides
  <1> QED BY <1>2, <1>3, <1>4 DEF RawLimit

(* A run that is sized gets the nearest marketable price, or none. *)
LEMMA SizingPrices ==
    ASSUME NEW s, NEW plan \in Plans, SizedOn(s, plan), s.bid \in Int, s.ask \in Int,
           limit = Never
    PROVE  LimitInv'
  <1>1. plan.bps \in Nat /\ plan.szDecimals \in Nat
    BY PlansTyped
  <1>2. PICK raw \in Int : raw = RawLimit(s, plan.side, plan.bps)
    BY <1>1, RawTyped
  <1>3. PICK px : px = RoundPrice(raw, plan.szDecimals, plan.side)
    OBVIOUS
  <1>4. TakerLimitPrice(s, plan.side, plan.bps, plan.szDecimals) = px
    BY <1>2, <1>3 DEF TakerLimitPrice
  <1>5. /\ pc' = "done" /\ snap' = s
        /\ limit' = limit \/ (limit' = [plan |-> plan, px |-> px] /\ ~(px <= 0))
    <2>1. /\ snap' = s
          /\ IF ~ClockAgrees(s) \/ px <= 0
             THEN pc' = "done" /\ limit' = limit
             ELSE pc' = "done" /\ limit' = [plan |-> plan, px |-> px]
      BY <1>4 DEF SizedOn, Done
    <2> QED BY <2>1
  <1>6. ASSUME limit' # Never PROVE LimitRight'
    <2>1. limit'.plan = plan /\ limit'.px = px /\ ~(px <= 0)
      BY <1>5, <1>6
    <2>2. px \in Int
      BY <1>1, <1>3, RoundPriceTyped
    <2>3. NearestMarketable(px, raw, plan.side, plan.szDecimals)
      BY <1>1, <1>3, <2>1, <2>2, RoundPriceNearestGrid
    <2> QED BY <1>2, <1>5, <2>1, <2>3 DEF LimitRight
  <1>7. limit' = Never => LimitRight'
    BY DEF LimitRight
  <1> QED BY <1>5, <1>6, <1>7 DEF LimitInv

(* Only the sizing sets a limit price, on a snapshot that has a touch. *)
LEMMA NextLimit == WaitInv /\ LimitInv /\ [Next]_vars => LimitInv'
  <1> SUFFICES ASSUME WaitInv, LimitInv, [Next]_vars PROVE LimitInv'
    OBVIOUS
  <1>1. limit # Never => pc = "done"
    BY DEF WaitInv, SnapOK
  <1>2. CASE UNCHANGED vars
    BY <1>2 DEF vars, LimitInv, LimitRight
  <1>3. ASSUME limit' = limit, pc # "done", ~(pc' = "fired" /\ outcome' = "price")
        PROVE  LimitInv'
    BY <1>1, <1>3 DEF LimitInv, LimitRight
  <1>4. CASE InitialTimeOnly \/ CheckStart \/ Expires \/ Sleeps
    BY <1>3, <1>4 DEF InitialTimeOnly, CheckStart, Expires, Sleeps, Fired, Done
  <1>5. ASSUME NEW book \in Books \cup {NoBook}, InitialRead(book) \/ FetchAgain(book)
        PROVE  LimitInv'
    BY <1>3, <1>5 DEF InitialRead, FetchAgain, Fired, Done
  <1>6. ASSUME NEW book \in Books \cup {NoBook}, NEW d \in 0..Latency, PollFails(d, book)
        PROVE  LimitInv'
    BY <1>3, <1>6 DEF PollFails, Done
  <1>7. ASSUME NEW book \in Books \cup {NoBook}, NEW d \in 0..Latency, PollOk(d, book)
        PROVE  LimitInv'
    <2>1. /\ pc = "poll" /\ limit' = limit /\ Usable(book, cfg.maxAge)
          /\ pc' = "tail" \/ snap' = Snapshot(book)
      BY <1>7 DEF PollOk, Fired
    <2>2. Snapshot(book).bid \in Int /\ Snapshot(book).ask \in Int
      BY <2>1, TouchKnown
    <2>3. LimitRight'
      BY <1>1, <2>1 DEF LimitRight
    <2> QED BY <2>1, <2>2, <2>3 DEF LimitInv
  <1>8. ASSUME NEW book \in Books \cup {NoBook}, NEW plan \in Plans, FetchFresh(book, plan)
        PROVE  LimitInv'
    <2>1. pc = "fired" /\ Usable(book, cfg.maxAge) /\ SizedOn(Snapshot(book), plan)
      BY <1>8 DEF FetchFresh
    <2> QED BY <1>1, <2>1, TouchKnown, SizingPrices
  <1>9. ASSUME NEW plan \in Plans, SizeOnTrigger(plan) PROVE LimitInv'
    <2>1. pc = "fired" /\ outcome = "price" /\ SizedOn(snap, plan)
      BY <1>9 DEF SizeOnTrigger
    <2>2. snap.bid \in Int /\ snap.ask \in Int
      BY <2>1 DEF LimitInv
    <2> QED BY <1>1, <2>1, <2>2, SizingPrices
  <1> QED BY <1>2, <1>4, <1>5, <1>6, <1>7, <1>8, <1>9 DEF Next

(* The limit price that taker_limit_price gives a run is on the grid of    *)
(* the exchange, reaches the whole slippage beyond the touch, and is the   *)
(* nearest such price: for every grid, book, side and slippage.            *)
THEOREM LimitAlwaysRight == Spec => []LimitRight
  <1>1. Init => LimitInv
    BY DEF Init, LimitInv, LimitRight
  <1>2. LimitInv => LimitRight
    BY DEF LimitInv
  <1> QED BY <1>1, <1>2, NextLimit, WaitInvariant, PTL DEF Spec
=============================================================================
