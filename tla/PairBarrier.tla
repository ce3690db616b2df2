---------------------------- MODULE PairBarrier -----------------------------
(***************************************************************************)
(* Two legs started together (src/src/main.rs, --pair-*; src/scripts/      *)
(* dn-pair.sh and dn-watchdog.sh): a launcher starts both processes and a  *)
(* watchdog, waits until both have published that they are ready, and      *)
(* publishes one start time; the watchdog ends a leg that is left alone.   *)
(*                                                                         *)
(* Times are what is left of them: a countdown stops at zero, so the clock *)
(* needs no bound.  Everyone may be late: a poll, a wake-up or a check     *)
(* happens at any time after it is due.                                    *)
(***************************************************************************)
EXTENDS Integers

CONSTANTS
    Timeout,  \* --pair-barrier-timeout, of each leg and of the launcher
    Lead,     \* publish_start: the start is this far ahead
    Grace     \* --watchdog-grace

ASSUME PairBounds == Timeout \in Nat \ {0} /\ Lead \in Nat \ {0} /\ Grace \in Nat

Legs == {1, 2}
Other(l) == 3 - l
None == -2   \* no start.json, no timer
Past == -1   \* the start time is behind us

VARIABLES
    leg,       \* what each leg is doing
    left,      \* how long until its barrier times out
    ready,     \* legs whose ready file exists
    termed,    \* legs that were sent SIGTERM
    start,     \* start.json: how far ahead its time is, Past, or None
    launcher,
    expiry,    \* how long the launcher still waits for both to be ready
    latched,   \* start_release_may_be_visible
    watchdog,
    alone      \* what is left of the grace since one_dead_since, or None

legVars == <<leg, left, ready, termed>>
launcherVars == <<launcher, expiry, latched, start>>
watchdogVars == <<watchdog, alone>>
vars == <<legVars, launcherVars, watchdogVars>>

Init ==
    /\ leg = [l \in Legs |-> "none"] /\ left = [l \in Legs |-> 0]
    /\ ready = {} /\ termed = {}
    /\ launcher = "starting" /\ expiry = 0 /\ latched = FALSE /\ start = None
    /\ watchdog = "none" /\ alone = None

Alive(l) == leg[l] \notin {"none", "ended"}
Goes(l, state) == leg' = [leg EXCEPT ![l] = state]

-----------------------------------------------------------------------------
(* A leg. *)

(* Everything before the barrier is done, the journal included: the ready  *)
(* file appears under its final name at once, and never replaces one.      *)
PublishReady(l) ==
    /\ leg[l] = "preflight" /\ l \notin ready
    /\ ready' = ready \cup {l}
    /\ left' = [left EXCEPT ![l] = Timeout]
    /\ Goes(l, "waiting")
    /\ UNCHANGED <<termed, launcherVars, watchdogVars>>

(* A start time in the future and within the leg's own timeout. *)
SeesStart(l) ==
    /\ leg[l] = "waiting" /\ left[l] > 0
    /\ start # None /\ start > 0
    /\ start <= left[l]
    /\ Goes(l, "sleeping")
    /\ UNCHANGED <<left, ready, termed, launcherVars, watchdogVars>>

(* Fault: only a start time can end the wait. *)
BarrierFailsOnStart(l) ==
    /\ leg[l] = "waiting"
    /\ start # None /\ (start <= 0 \/ start > left[l])
    /\ Goes(l, "ended")
    /\ UNCHANGED <<left, ready, termed, launcherVars, watchdogVars>>

(* Timed out, or a start time that is past or too late: the incomplete     *)
(* report is written and the leg ends without an order.                    *)
BarrierFails(l) ==
    /\ leg[l] = "waiting"
    /\ \/ left[l] = 0
       \/ start # None /\ (start <= 0 \/ start > left[l])
    /\ Goes(l, "ended")
    /\ UNCHANGED <<left, ready, termed, launcherVars, watchdogVars>>

Execute(l) ==
    /\ leg[l] = "sleeping" /\ start \in {0, Past}
    /\ Goes(l, "executing")
    /\ UNCHANGED <<left, ready, termed, launcherVars, watchdogVars>>

(* A leg ends: it fails in the pre-flight, dies at any time, or its run is *)
(* over.  SIGTERM kills it before the signal task exists; afterwards it is *)
(* a request that the run follows within the grace period.                 *)
LegEnds(l) ==
    /\ Alive(l)
    /\ Goes(l, "ended")
    /\ UNCHANGED <<left, ready, termed, launcherVars, watchdogVars>>

TermTakesEffect(l) == l \in termed /\ LegEnds(l)

-----------------------------------------------------------------------------
(* The launcher. *)

Launch ==
    /\ launcher = "starting"
    /\ \E l \in Legs : leg[l] = "none" /\ (l = 2 => leg[1] # "none") /\ Goes(l, "preflight")
    /\ UNCHANGED <<left, ready, termed, launcherVars, watchdogVars>>

(* The watchdog runs and has passed its health check. *)
StartWatchdog ==
    /\ launcher = "starting" /\ \A l \in Legs : leg[l] # "none"
    /\ watchdog' = "up" /\ alone' = None
    /\ launcher' = "waitReady" /\ expiry' = Timeout
    /\ UNCHANGED <<legVars, latched, start>>

(* Fault: the first ready file is enough. *)
EitherReady ==
    /\ launcher = "waitReady" /\ expiry > 0
    /\ ready # {}
    /\ launcher' = "adopted"
    /\ UNCHANGED <<legVars, expiry, latched, start, watchdogVars>>

(* wait_for_both_ready: ready files that name the launched processes. *)
BothReady ==
    /\ launcher = "waitReady" /\ expiry > 0
    /\ ready = Legs
    /\ launcher' = "adopted"
    /\ UNCHANGED <<legVars, expiry, latched, start, watchdogVars>>

NotReady ==
    /\ launcher = "waitReady"
    /\ expiry = 0 \/ \E l \in Legs : ~Alive(l)
    /\ launcher' = "cleanup"
    /\ UNCHANGED <<legVars, expiry, latched, start, watchdogVars>>

(* Fault: the latch is set once the file is seen to be public. *)
LatchLate ==
    /\ launcher = "adopted" /\ ~latched
    /\ start = None /\ start' = Lead
    /\ UNCHANGED <<legVars, launcher, expiry, latched, watchdogVars>>

(* publish_start: the latch first, then the rename. *)
Latch ==
    /\ launcher = "adopted" /\ ~latched
    /\ latched' = TRUE
    /\ UNCHANGED <<legVars, launcher, expiry, start, watchdogVars>>

PublishStart ==
    /\ launcher = "adopted" /\ latched
    /\ start' = Lead
    /\ launcher' = "released"
    /\ UNCHANGED <<legVars, expiry, latched, watchdogVars>>

(* One second later both must still be there. *)
BothWatched ==
    /\ launcher = "released" /\ start = Past
    /\ launcher' = IF \A l \in Legs : Alive(l) THEN "watching" ELSE "cleanup"
    /\ UNCHANGED <<legVars, expiry, latched, start, watchdogVars>>

(* INT, TERM or HUP, or an error of the script under its EXIT trap. *)
LauncherInterrupted ==
    /\ launcher \in {"starting", "waitReady", "adopted", "released"}
    /\ launcher' = "cleanup"
    /\ UNCHANGED <<legVars, expiry, latched, start, watchdogVars>>

(* SIGKILL: no trap runs, and nothing is cleaned up. *)
LauncherKilled ==
    /\ launcher \notin {"watching", "done"}
    /\ launcher' = "done"
    /\ UNCHANGED <<legVars, expiry, latched, start, watchdogVars>>

(* The rollback before a release: watchdog first, then both legs. *)
RollBack ==
    /\ launcher = "cleanup" /\ ~latched
    /\ watchdog' = IF watchdog = "up" THEN "down" ELSE watchdog
    /\ termed' = termed \cup {l \in Legs : Alive(l)}
    /\ launcher' = "done"
    /\ UNCHANGED <<leg, left, ready, expiry, latched, start, alone>>

(* After it: the legs are asked to end; the watchdog goes only when both   *)
(* are gone, and stays over whatever is left.                              *)
TermLegs ==
    /\ launcher = "cleanup" /\ latched
    /\ ~({l \in Legs : Alive(l)} \subseteq termed)
    /\ termed' = termed \cup {l \in Legs : Alive(l)}
    /\ UNCHANGED <<leg, left, ready, launcherVars, watchdogVars>>

CleanedUp ==
    /\ launcher = "cleanup" /\ latched
    /\ {l \in Legs : Alive(l)} \subseteq termed
    /\ launcher' = "done"
    /\ watchdog' = IF (\A l \in Legs : ~Alive(l)) /\ watchdog = "up" THEN "down" ELSE watchdog
    /\ UNCHANGED <<legVars, expiry, latched, start, alone>>

(* The launcher is gone; dn-pair.sh stop may be called later.              *)
StopPair ==
    /\ launcher \in {"watching", "done"} /\ ~({l \in Legs : Alive(l)} \subseteq termed)
    /\ termed' = termed \cup {l \in Legs : Alive(l)}
    /\ UNCHANGED <<leg, left, ready, launcherVars, watchdogVars>>

(* The second half of stop. *)
StopWatchdog ==
    /\ launcher \in {"watching", "done"} /\ watchdog = "up"
    /\ \A l \in Legs : ~Alive(l)
    /\ watchdog' = "down"
    /\ UNCHANGED <<legVars, launcherVars, alone>>

-----------------------------------------------------------------------------
(* The watchdog's loop. *)

BothGone ==
    /\ watchdog = "up" /\ \A l \in Legs : ~Alive(l)
    /\ watchdog' = "down"
    /\ UNCHANGED <<legVars, launcherVars, alone>>

NoticesAlone ==
    /\ watchdog = "up" /\ alone = None
    /\ \E l \in Legs : Alive(l) /\ ~Alive(Other(l))
    /\ alone' = Grace
    /\ UNCHANGED <<legVars, launcherVars, watchdog>>

(* Fault: the leg that is signalled is the one that is gone. *)
TermTheDead ==
    /\ watchdog = "up" /\ alone = 0
    /\ \E l \in Legs : /\ Alive(l) /\ ~Alive(Other(l)) /\ Other(l) \notin termed
                       /\ termed' = termed \cup {Other(l)}
    /\ UNCHANGED <<leg, left, ready, launcherVars, watchdogVars>>

(* The grace is over: SIGTERM to the survivor, once. *)
TermSurvivor ==
    /\ watchdog = "up" /\ alone = 0
    /\ \E l \in Legs : /\ Alive(l) /\ ~Alive(Other(l)) /\ l \notin termed
                       /\ termed' = termed \cup {l}
    /\ UNCHANGED <<leg, left, ready, launcherVars, watchdogVars>>

CountDown(n) == IF n > 0 THEN n - 1 ELSE n

Tick ==
    /\ left' = [l \in Legs |-> CountDown(left[l])]
    /\ expiry' = CountDown(expiry)
    /\ start' = IF start = 0 THEN Past ELSE CountDown(start)
    /\ alone' = CountDown(alone)
    /\ UNCHANGED <<leg, ready, termed, launcher, latched, watchdog>>

-----------------------------------------------------------------------------
LegStep(l) ==
    \/ PublishReady(l) \/ SeesStart(l) \/ BarrierFails(l) \/ Execute(l) \/ TermTakesEffect(l)

LauncherStep ==
    \/ Launch \/ StartWatchdog \/ BothReady \/ NotReady \/ Latch \/ PublishStart
    \/ BothWatched \/ RollBack \/ TermLegs \/ CleanedUp

WatchdogStep == BothGone \/ NoticesAlone \/ TermSurvivor

Next ==
    \/ \E l \in Legs : LegStep(l) \/ LegEnds(l)
    \/ LauncherStep \/ LauncherInterrupted \/ LauncherKilled \/ StopPair \/ StopWatchdog
    \/ WatchdogStep
    \/ Tick

(* Every process is scheduled, and time passes; no leg needs to end by     *)
(* itself.                                                                 *)
Spec ==
    /\ Init /\ [][Next]_vars
    /\ \A l \in Legs : WF_vars(LegStep(l))
    /\ WF_vars(LauncherStep) /\ WF_vars(WatchdogStep) /\ WF_vars(Tick)

-----------------------------------------------------------------------------
(* No leg trades before the common start: both had published that they     *)
(* were ready, and the published time has come.                            *)
NoOrderBeforeRelease ==
    \A l \in Legs : leg[l] = "executing" => ready = Legs /\ start \in {0, Past}

(* A leg is never left trading with its watchdog stopped, whenever the     *)
(* launcher is interrupted and in whatever order launcher and legs are     *)
(* stopped or killed.  The watchdog does not die of itself here.           *)
WatchedWhileExecuting == (\E l \in Legs : leg[l] = "executing") => watchdog = "up"

(* A leg that is left alone is ended, or was the last to end anyway.       *)
AloneIsContained ==
    \A l \in Legs : leg[l] = "executing" /\ ~Alive(Other(l)) ~> ~Alive(l)

(* No leg waits at the barrier for ever, whatever becomes of the launcher. *)
BarrierEnds == \A l \in Legs : leg[l] = "waiting" ~> leg[l] # "waiting"
=============================================================================
