------------------------- MODULE PairBarrierProofs --------------------------
(***************************************************************************)
(* Theorems about PairBarrier, for every timeout, lead and grace: the      *)
(* safety half of starting two legs together.                              *)
(***************************************************************************)
EXTENDS PairBarrier, TLAPS

LegStates == {"none", "preflight", "waiting", "sleeping", "executing", "ended"}
LauncherStates ==
    {"starting", "waitReady", "adopted", "released", "watching", "cleanup", "done"}

(* Every variable the argument speaks of is in its domain. *)
PairTypeOK ==
    /\ leg \in [Legs -> LegStates]
    /\ ready \in SUBSET Legs
    /\ launcher \in LauncherStates
    /\ latched \in BOOLEAN
    /\ start \in Int /\ start >= None
    /\ watchdog \in {"none", "up", "down"}

(* A start time is public only after the latch, and the latch is set only  *)
(* over two ready legs; a leg sleeps or trades only on a start time.       *)
ReleaseOK ==
    /\ launcher = "adopted" \/ latched => ready = Legs
    /\ launcher \in {"starting", "waitReady"} => ~latched
    /\ launcher \in {"starting", "waitReady", "adopted"} \/ ~latched => start = None
    /\ \A l \in Legs : leg[l] \in {"sleeping", "executing"} => start # None
    /\ \A l \in Legs : leg[l] = "executing" => start \in {0, Past}

(* From the first wait on, and from the latch on whatever becomes of the   *)
(* launcher, the watchdog outlives the legs.                               *)
WatchOK ==
    latched \/ launcher \in {"waitReady", "adopted"} =>
        ((\E l \in Legs : Alive(l)) => watchdog = "up")

PairInv == PairTypeOK /\ ReleaseOK /\ WatchOK

(* Nothing is started: the invariant holds. *)
LEMMA InitPair ==
    ASSUME Init
    PROVE  PairInv
  <1>1. leg = [l \in Legs |-> "none"] /\ latched = FALSE /\ start = None /\ launcher = "starting"
    BY DEF Init
  <1>2. PairTypeOK
    <2>1. ready \in SUBSET Legs /\ watchdog \in {"none", "up", "down"}
      BY DEF Init
    <2>2. start \in Int /\ start >= None
      BY <1>1 DEF None
    <2> QED BY <1>1, <2>1, <2>2 DEF PairTypeOK, LegStates, LauncherStates
  <1>3. ReleaseOK /\ WatchOK
    BY <1>1 DEF ReleaseOK, WatchOK
  <1> QED BY <1>2, <1>3 DEF PairInv

(* A leg moves; only the launcher brings one to life. *)
LEMMA LegPair ==
    ASSUME PairInv, NEW l \in Legs, LegStep(l) \/ LegEnds(l)
    PROVE  PairInv'
  <1>0. UNCHANGED <<launcherVars, watchdogVars>>
    BY DEF LegStep, PublishReady, SeesStart, BarrierFails, Execute, TermTakesEffect, LegEnds
  <1>1. PICK s \in LegStates \ {"none"} :
           /\ leg' = [leg EXCEPT ![l] = s] /\ Alive(l)
           /\ s \in {"sleeping", "executing"} => start # None
           /\ s = "executing" => start \in {0, Past}
    BY DEF LegStep, PublishReady, SeesStart, BarrierFails, Execute, TermTakesEffect, LegEnds,
           Goes, Alive, LegStates, None, Past
  <1>2. ready \subseteq ready' /\ ready' \in SUBSET Legs
    BY DEF LegStep, PublishReady, SeesStart, BarrierFails, Execute, TermTakesEffect, LegEnds,
           PairInv, PairTypeOK
  <1>3. PairTypeOK'
    BY <1>0, <1>1, <1>2 DEF PairInv, PairTypeOK, launcherVars, watchdogVars
  <1>4. ReleaseOK'
    BY <1>0, <1>1, <1>2 DEF PairInv, PairTypeOK, ReleaseOK, launcherVars
  <1>5. WatchOK'
    BY <1>0, <1>1 DEF PairInv, PairTypeOK, WatchOK, Alive, launcherVars, watchdogVars
  <1> QED BY <1>3, <1>4, <1>5 DEF PairInv

(* The launcher, the operator who stops the pair, and the watchdog: each   *)
(* ends the watchdog only over legs that are gone or were never released.  *)
LEMMA LauncherPair ==
    ASSUME PairInv, LauncherStep \/ LauncherInterrupted \/ LauncherKilled \/ StopPair
                    \/ StopWatchdog \/ WatchdogStep
    PROVE  PairInv'
  <1> USE DEF PairInv, PairTypeOK, ReleaseOK, WatchOK, Alive, launcherVars, watchdogVars, legVars,
              LauncherStates, LegStates, None
  <1>1. CASE Launch
    <2>1. PICK l \in Legs : leg[l] = "none" /\ leg' = [leg EXCEPT ![l] = "preflight"]
      BY <1>1 DEF Launch, Goes
    <2>2. ~latched /\ launcher = "starting" /\ UNCHANGED <<ready, launcherVars, watchdogVars>>
      BY <1>1 DEF Launch
    <2> QED BY <2>1, <2>2
  <1>2. CASE StartWatchdog \/ BothReady
    BY <1>2 DEF StartWatchdog, BothReady
  <1>3. CASE NotReady \/ BothWatched \/ LauncherInterrupted \/ LauncherKilled
    BY <1>3 DEF NotReady, BothWatched, LauncherInterrupted, LauncherKilled
  <1>4. CASE Latch
    BY <1>4 DEF Latch
  <1>5. CASE PublishStart
    <2>1. Lead \in Int /\ Lead >= None /\ Lead # None
      BY PairBounds
    <2>2. \A l \in Legs : leg[l] \notin {"sleeping", "executing"}
      BY <1>5 DEF PublishStart
    <2> QED BY <1>5, <2>1, <2>2 DEF PublishStart
  <1>6. CASE RollBack \/ CleanedUp
    BY <1>6 DEF RollBack, CleanedUp
  <1>7. CASE TermLegs \/ StopPair \/ NoticesAlone \/ TermSurvivor
    BY <1>7 DEF TermLegs, StopPair, NoticesAlone, TermSurvivor
  <1>8. CASE StopWatchdog \/ BothGone
    BY <1>8 DEF StopWatchdog, BothGone
  <1> QED
    BY <1>1, <1>2, <1>3, <1>4, <1>5, <1>6, <1>7, <1>8 DEF LauncherStep, WatchdogStep

(* Time passes: a start time that has come stays behind us. *)
LEMMA TickPair ==
    ASSUME PairInv, Tick
    PROVE  PairInv'
  <1>1. start' \in Int /\ start' >= None
    BY DEF Tick, CountDown, PairInv, PairTypeOK, None, Past
  <1>2. (start = None <=> start' = None) /\ (start \in {0, Past} => start' \in {0, Past})
    BY DEF Tick, CountDown, PairInv, PairTypeOK, None, Past
  <1>3. UNCHANGED <<leg, ready, launcher, latched, watchdog>>
    BY DEF Tick
  <1> QED BY <1>1, <1>2, <1>3 DEF PairInv, PairTypeOK, ReleaseOK, WatchOK, Alive

(* The inductive invariant of the pair. *)
LEMMA PairInvariant == Spec => []PairInv
  <1>1. Init => PairInv
    BY InitPair
  <1>2. PairInv /\ [Next]_vars => PairInv'
    <2> SUFFICES ASSUME PairInv, [Next]_vars PROVE PairInv'
      OBVIOUS
    <2>1. CASE UNCHANGED vars
      BY <2>1 DEF vars, legVars, launcherVars, watchdogVars, PairInv, PairTypeOK, ReleaseOK,
                  WatchOK, Alive
    <2>2. CASE Next
      BY <2>2, LegPair, LauncherPair, TickPair DEF Next
    <2> QED BY <2>1, <2>2
  <1> QED BY <1>1, <1>2, PTL DEF Spec

(* No leg sends an order before the common start, with any timeouts and    *)
(* however late the files are seen: both legs had published ready and the  *)
(* published time has come.                                                *)
THEOREM ReleasedBeforeOrders == Spec => []NoOrderBeforeRelease
  <1>1. PairInv => NoOrderBeforeRelease
    BY DEF PairInv, ReleaseOK, NoOrderBeforeRelease
  <1> QED BY <1>1, PairInvariant, PTL

(* A leg that trades is watched, in whatever order the launcher and the    *)
(* legs end, are interrupted or are killed and the stop script acts.       *)
THEOREM AlwaysWatched == Spec => []WatchedWhileExecuting
  <1>1. PairInv => WatchedWhileExecuting
    BY DEF PairInv, ReleaseOK, WatchOK, WatchedWhileExecuting, Alive
  <1> QED BY <1>1, PairInvariant, PTL
=============================================================================
