------------------------- MODULE RunObserverProofs --------------------------
(***************************************************************************)
(* Replay and its observer, for every set of cloids, slice indices and     *)
(* sizes.                                                                  *)
(*                                                                         *)
(* Replay, against any writer: a closed journal has no order left open,    *)
(* and no accepted record takes anything back.                             *)
(*                                                                         *)
(* The observer, with processes that come and go: that a gauge agrees with *)
(* the journal is inductive only with the projector that moves it.         *)
(* ObsInv says that projecting the whole journal gives its fills, cloid by *)
(* cloid, and that an attached observer's projector is that one, however   *)
(* it was come by.  That the total is the sum of the fills takes induction *)
(* over the set of cloids, which is made by a least counterexample         *)
(* (`Least`): the sum exists, and moves by what one fill moves.            *)
(***************************************************************************)
EXTENDS RunObserver, FiniteSetTheorems, WellFoundedInduction, TLAPS

(* Nothing is open under a closing record, and what is closed stays as it  *)
(* was because Appendable is part of every acceptance.                     *)
ClosedSettled == (report = "completed" \/ abandoned) => Unresolved = {}

IInv == JournalTypeOK /\ ClosedSettled

(* Nothing is open in an empty journal. *)
LEMMA IInvInit == JournalInit => IInv
<1>1. ASSUME JournalInit PROVE JournalTypeOK
  <2>1. valid \in BOOLEAN /\ header \in BOOLEAN /\ abandoned \in BOOLEAN
    BY <1>1 DEF JournalInit
  <2>2. jstate \in [Cloids -> CloidState] /\ report \in {"none", "incomplete", "completed"}
    BY <1>1 DEF JournalInit, CloidState
  <2>3. /\ jslice \in [Cloids -> Nat] /\ jsize \in [Cloids -> Nat]
        /\ jfill \in [Cloids -> Nat] /\ jtotal \in Int /\ unknowns \in SUBSET Cloids
    BY <1>1 DEF JournalInit
  <2>. QED BY <2>1, <2>2, <2>3 DEF JournalTypeOK
<1>2. JournalInit => report = "none" /\ ~abandoned BY DEF JournalInit
<1>. QED BY <1>1, <1>2 DEF IInv, ClosedSettled

(* A refused record changes `valid` alone. *)
LEMMA RefusedKeeps ==
    ASSUME IInv, Refused
    PROVE  /\ IInv'
           /\ UNCHANGED <<header, jstate, jslice, jsize, jfill, jtotal, report,
                          unknowns, abandoned>>
<1>1. /\ valid' = FALSE
      /\ UNCHANGED <<header, jstate, jslice, jsize, jfill, jtotal, report,
                     unknowns, abandoned>>
  BY DEF Refused
<1>2. JournalTypeOK' BY <1>1 DEF IInv, JournalTypeOK
<1>3. ClosedSettled' BY <1>1 DEF IInv, ClosedSettled, Unresolved
<1>. QED BY <1>1, <1>2, <1>3 DEF IInv

(* What a single record may do to fills, terminal cloids and closure. *)
Kept ==
    /\ \A c \in Cloids : jfill'[c] >= jfill[c]
    /\ \A c \in Cloids : jstate[c] = "terminal" => jstate'[c] = "terminal"
    /\ (header /\ ~IsIncomplete) => ~IsIncomplete'

(* Kept is immediate where only `valid` changes. *)
LEMMA SameKeeps ==
    ASSUME IInv,
           UNCHANGED <<header, jstate, jslice, jsize, jfill, jtotal, report,
                       unknowns, abandoned>>
    PROVE  Kept
<1>1. \A c \in Cloids : jfill[c] \in Nat BY DEF IInv, JournalTypeOK
<1>2. IsIncomplete' = IsIncomplete BY DEF IsIncomplete, Unresolved
<1>. QED BY <1>1, <1>2 DEF Kept

(* A journal that takes another record is incomplete. *)
LEMMA AppendableIsOpen == Appendable => IsIncomplete
  BY DEF Appendable, IsIncomplete

(* Header: only into an empty journal. *)
LEMMA HeaderKeeps == ASSUME IInv, RecordHeader PROVE IInv' /\ Kept
<1>1. CASE Refused BY <1>1, RefusedKeeps, SameKeeps
<1>2. CASE /\ ~header /\ header' = TRUE
           /\ UNCHANGED <<valid, jstate, jslice, jsize, jfill, jtotal,
                          report, unknowns, abandoned>>
  <2>1. JournalTypeOK' BY <1>2 DEF IInv, JournalTypeOK
  <2>2. ClosedSettled' BY <1>2 DEF IInv, ClosedSettled, Unresolved
  <2>3. \A c \in Cloids : jfill[c] \in Nat BY DEF IInv, JournalTypeOK
  <2>. QED BY <1>2, <2>1, <2>2, <2>3 DEF IInv, Kept
<1>. QED BY <1>1, <1>2 DEF RecordHeader

(* Prepared: never over a cloid the journal knows. *)
LEMMA PreparedKeeps ==
    ASSUME IInv, NEW c \in Cloids, NEW i \in Nat, NEW s \in Nat, RecordPrepared(c, i, s)
    PROVE  IInv' /\ Kept
<1>1. CASE Refused BY <1>1, RefusedKeeps, SameKeeps
<1>2. CASE /\ Appendable /\ jstate[c] = "absent"
           /\ jstate' = [jstate EXCEPT ![c] = "prepared"]
           /\ jslice' = [jslice EXCEPT ![c] = i]
           /\ jsize' = [jsize EXCEPT ![c] = s]
           /\ UNCHANGED <<valid, header, jfill, jtotal, report, unknowns, abandoned>>
  <2>1. JournalTypeOK' BY <1>2 DEF IInv, JournalTypeOK, CloidState
  <2>2. ClosedSettled' BY <1>2 DEF ClosedSettled, Appendable
  <2>3. \A d \in Cloids : jfill[d] \in Nat BY DEF IInv, JournalTypeOK
  <2>4. \A d \in Cloids : jstate'[d] = IF d = c THEN "prepared" ELSE jstate[d]
    BY <1>2 DEF IInv, JournalTypeOK
  <2>. QED BY <1>2, <2>1, <2>2, <2>3, <2>4, AppendableIsOpen DEF IInv, Kept
<1>. QED BY <1>1, <1>2 DEF RecordPrepared

(* Progress: the table has no way back from Terminal. *)
LEMMA ProgressKeeps ==
    ASSUME IInv, NEW c \in Cloids, NEW i \in Nat,
           NEW to \in {"submittedUnknown", "acknowledged"}, RecordProgress(c, i, to)
    PROVE  IInv' /\ Kept
<1>1. CASE Refused BY <1>1, RefusedKeeps, SameKeeps
<1>2. CASE /\ Appendable /\ Allowed(jstate[c], to)
           /\ jstate' = [jstate EXCEPT ![c] = to]
           /\ UNCHANGED <<valid, header, jslice, jsize, jfill, jtotal,
                          report, unknowns, abandoned>>
  <2>1. JournalTypeOK' BY <1>2 DEF IInv, JournalTypeOK, CloidState
  <2>2. ClosedSettled' BY <1>2 DEF ClosedSettled, Appendable
  <2>3. \A d \in Cloids : jfill[d] \in Nat BY DEF IInv, JournalTypeOK
  <2>4. \A d \in Cloids : jstate'[d] = IF d = c THEN to ELSE jstate[d]
    BY <1>2 DEF IInv, JournalTypeOK
  <2>5. jstate[c] # "terminal" BY <1>2 DEF Allowed
  <2>. QED BY <1>2, <2>1, <2>2, <2>3, <2>4, <2>5, AppendableIsOpen DEF IInv, Kept
<1>. QED BY <1>1, <1>2 DEF RecordProgress

(* Terminal: a repeated one never reports less. *)
LEMMA TerminalKeeps ==
    ASSUME IInv, NEW c \in Cloids, NEW i \in Nat, NEW f \in Nat, RecordTerminal(c, i, f)
    PROVE  IInv' /\ Kept
<1>1. CASE Refused BY <1>1, RefusedKeeps, SameKeeps
<1>2. CASE /\ Appendable /\ f >= jfill[c]
           /\ jstate' = [jstate EXCEPT ![c] = "terminal"]
           /\ jfill' = [jfill EXCEPT ![c] = f]
           /\ jtotal' = jtotal + (f - jfill[c])
           /\ UNCHANGED <<valid, header, jslice, jsize, report, unknowns, abandoned>>
  <2>1. jtotal' \in Int BY <1>2 DEF IInv, JournalTypeOK
  <2>2. JournalTypeOK' BY <1>2, <2>1 DEF IInv, JournalTypeOK, CloidState
  <2>3. ClosedSettled' BY <1>2 DEF ClosedSettled, Appendable
  <2>4. \A d \in Cloids : jfill[d] \in Nat BY DEF IInv, JournalTypeOK
  <2>5. \A d \in Cloids : jfill'[d] = IF d = c THEN f ELSE jfill[d]
    BY <1>2 DEF IInv, JournalTypeOK
  <2>6. \A d \in Cloids : jfill'[d] >= jfill[d] BY <1>2, <2>4, <2>5
  <2>7. \A d \in Cloids : jstate[d] = "terminal" => jstate'[d] = "terminal"
    BY <1>2 DEF IInv, JournalTypeOK
  <2>. QED BY <1>2, <2>2, <2>3, <2>6, <2>7, AppendableIsOpen DEF IInv, Kept
<1>. QED BY <1>1, <1>2 DEF RecordTerminal

(* A closing record is accepted only where nothing is open. *)
LEMMA ReportKeeps ==
    ASSUME IInv, NEW completed \in BOOLEAN, NEW total, NEW unk \in SUBSET Cloids,
           RecordFinalReport(completed, total, unk)
    PROVE  IInv' /\ Kept
<1>1. CASE Refused BY <1>1, RefusedKeeps, SameKeeps
<1>2. CASE /\ Appendable
           /\ IF completed THEN unk = {} /\ Unresolved = {} ELSE unk = Unresolved
           /\ report' = IF completed THEN "completed" ELSE "incomplete"
           /\ unknowns' = unk
           /\ UNCHANGED <<valid, header, jstate, jslice, jsize, jfill, jtotal, abandoned>>
  <2>1. report' \in {"incomplete", "completed"} BY <1>2
  <2>2. JournalTypeOK' BY <1>2, <2>1 DEF IInv, JournalTypeOK
  <2>3. Unresolved' = Unresolved BY <1>2 DEF Unresolved
  <2>4. report' = "completed" => completed BY <1>2
  <2>5. ClosedSettled' BY <1>2, <2>3, <2>4 DEF ClosedSettled, Appendable
  <2>6. \A c \in Cloids : jfill[c] \in Nat BY DEF IInv, JournalTypeOK
  <2>. QED BY <1>2, <2>2, <2>5, <2>6, AppendableIsOpen DEF IInv, Kept
<1>. QED BY <1>1, <1>2 DEF RecordFinalReport

(* Abandoned: the same, for the other closing record. *)
LEMMA AbandonedKeeps == ASSUME IInv, RecordAbandoned PROVE IInv' /\ Kept
<1>1. CASE Refused BY <1>1, RefusedKeeps, SameKeeps
<1>2. CASE /\ Appendable /\ Unresolved = {} /\ abandoned' = TRUE
           /\ UNCHANGED <<valid, header, jstate, jslice, jsize, jfill, jtotal,
                          report, unknowns>>
  <2>1. JournalTypeOK' BY <1>2 DEF IInv, JournalTypeOK
  <2>2. ClosedSettled' BY <1>2 DEF ClosedSettled, Unresolved
  <2>3. \A c \in Cloids : jfill[c] \in Nat BY DEF IInv, JournalTypeOK
  <2>. QED BY <1>2, <2>1, <2>2, <2>3, AppendableIsOpen DEF IInv, Kept
<1>. QED BY <1>1, <1>2 DEF RecordAbandoned

(* Every record of any writer keeps IInv and takes nothing back. *)
LEMMA WriteKeeps == ASSUME IInv, [Write]_jvars PROVE IInv' /\ (Write => Kept)
<1>1. CASE Write
  <2>1. Indices \subseteq Nat /\ Sizes \subseteq Nat BY RecordsFinite
  <2>. QED BY <1>1, <2>1, HeaderKeeps, PreparedKeeps, ProgressKeeps, TerminalKeeps,
           ReportKeeps, AbandonedKeeps DEF Write
<1>2. CASE UNCHANGED jvars
  <2>1. UNCHANGED <<valid, header, jstate, jslice, jsize, jfill, jtotal, report,
                    unknowns, abandoned>>
    BY <1>2 DEF jvars
  <2>2. JournalTypeOK' BY <2>1 DEF IInv, JournalTypeOK
  <2>3. ClosedSettled' BY <2>1 DEF IInv, ClosedSettled, Unresolved
  <2>. QED BY <2>1, <2>2, <2>3, SameKeeps DEF IInv
<1>. QED BY <1>1, <1>2

(* IInv holds throughout. *)
LEMMA IInvAlways == Spec => []IInv
<1>1. IInv /\ [Write]_jvars => IInv' BY WriteKeeps
<1>. QED BY IInvInit, <1>1, PTL DEF Spec

(* A journal the startup gate lets a new run pass by has no order left     *)
(* open, whoever wrote it (RunSummary::is_incomplete).                     *)
THEOREM ClosedHasNothingOpenAlways == Spec => []ClosedHasNothingOpen
<1>1. IInv => ClosedHasNothingOpen
  BY DEF IInv, ClosedSettled, ClosedHasNothingOpen, IsIncomplete
<1>. QED BY <1>1, IInvAlways, PTL

(* Fills only grow, terminal cloids stay terminal and closed runs closed,  *)
(* over every record that replay accepts or refuses.                       *)
THEOREM NothingTakenBackAlways == Spec => NothingTakenBack
<1>1. IInv /\ [Write]_jvars => [Kept]_jvars BY WriteKeeps
<1>2. Spec => [][Kept]_jvars BY <1>1, IInvAlways, PTL DEF Spec
<1>. QED BY <1>2 DEF NothingTakenBack, Kept

-----------------------------------------------------------------------------
(* The observer. *)

ObsType == [acc : [Cloids -> Nat], cap : Nat, accounted : Int, near : BOOLEAN, seen : BOOLEAN]

Fields == {"command", "handle", "started", "logging", "metrics", "queue", "raised"}
Gauges == {"filled", "state", "cap", "open"}

(* Projecting the whole journal gives its fills. *)
Projected ==
    /\ durable.obs \in ObsType /\ DOMAIN durable.metrics = Gauges
    /\ ~header => jtotal = 0 /\ durable.obs = Projector
    /\ durable.obs.acc = jfill /\ durable.obs.accounted = jtotal
    /\ header => durable.obs.cap = Cap /\ durable.metrics.cap = Max({Cap - jtotal, 0})
    /\ durable.metrics.filled = jtotal

(* An attached observer is where projecting the whole journal would be. *)
Attached ==
    /\ proc.handle = "observed" =>
          /\ header /\ obs = durable.obs
          /\ proc.metrics.filled = jtotal /\ proc.metrics.cap = Max({Cap - jtotal, 0})
    /\ proc.command = "new" /\ proc.handle = "bare" =>
          /\ header /\ jtotal = 0 /\ durable.obs = [Projector EXCEPT !.cap = Cap]
          /\ proc.metrics = Metrics

(* The log lags behind. *)
Behind ==
    /\ log.fills \in Int /\ log.nears \in Nat /\ log.completed \in BOOLEAN
    /\ log.fills <= jtotal /\ log.nears <= 1
    /\ log.nears > 0 => durable.obs.near
    /\ log.completed => header /\ ~IsIncomplete

ProcOK ==
    /\ DOMAIN proc = Fields /\ proc.started \in BOOLEAN
    /\ proc.handle \in {"none", "bare", "observed"}
    /\ proc.command = "none" => proc.handle = "none"
    /\ proc.command = "resume" => proc.started

ObsInv == IInv /\ ProcOK /\ (valid => Projected /\ Attached /\ Behind)

(* The larger of a number and zero. *)
LEMMA MaxZero ==
    ASSUME NEW x \in Int
    PROVE  Max({x, 0}) = IF x >= 0 THEN x ELSE 0
  <1>1. CASE x >= 0
    <2>1. \A y \in {x, 0} : x >= y
      BY <1>1
    <2>2. Max({x, 0}) \in {x, 0} /\ \A y \in {x, 0} : Max({x, 0}) >= y
      BY <2>1 DEF Max
    <2> QED BY <1>1, <2>2
  <1>2. CASE ~(x >= 0)
    <2>1. \A y \in {x, 0} : 0 >= y
      BY <1>2
    <2>2. Max({x, 0}) \in {x, 0} /\ \A y \in {x, 0} : Max({x, 0}) >= y
      BY <2>1 DEF Max
    <2> QED BY <1>2, <2>2
  <1> QED BY <1>1, <1>2

(* The one event of its kind. *)
LEMMA TheOne ==
    ASSUME NEW E, NEW k, NEW e \in E, e.k = k, \A x \in E : x.k = k => x = e
    PROVE  Says(E, k) /\ The(E, k) = e
  BY DEF Says, The

(* The fill in a set of events that has at most one. *)
LEMMA FillIs ==
    ASSUME NEW E, NEW n \in Int, \A x \in E : x.k = "fill" => x = Amount("fill", n)
    PROVE  /\ \A W \in SUBSET E : FillOf(W) \in {0, n}
           /\ Amount("fill", n) \in E => FillOf(E) = n
           /\ Amount("fill", n) \notin E => FillOf(E) = 0
  <1>1. Amount("fill", n).k = "fill" /\ Amount("fill", n).n = n
    BY DEF Amount
  <1>2. ASSUME NEW W \in SUBSET E, Amount("fill", n) \in W PROVE FillOf(W) = n
    <2>1. Says(W, "fill") /\ The(W, "fill") = Amount("fill", n)
      BY <1>1, <1>2, TheOne
    <2> QED BY <1>1, <2>1 DEF FillOf
  <1>3. ASSUME NEW W \in SUBSET E, Amount("fill", n) \notin W PROVE FillOf(W) = 0
    <2>1. ~Says(W, "fill")
      BY <1>3 DEF Says
    <2> QED BY <2>1 DEF FillOf
  <1> QED BY <1>2, <1>3

(* What a record that became durable makes of the projector and of what is *)
(* emitted, in terms of the journal before and after it.                   *)
Effect(p) ==
    /\ p.obs \in ObsType /\ header'
    /\ p.obs.acc = jfill' /\ p.obs.accounted = jtotal' /\ p.obs.cap = Cap
    /\ jtotal' \in Int /\ jtotal' >= jtotal
    /\ FillOf(p.events) = jtotal' - jtotal
    /\ \A W \in SUBSET p.events : FillOf(W) \in {0, jtotal' - jtotal}
    /\ durable.obs.near => p.obs.near
    /\ Says(p.events, "capNear") => ~durable.obs.near /\ p.obs.near
    /\ (\E e \in p.events : e.k = "finalReport" /\ e.outcome = "completed") => ~IsIncomplete'
    /\ Says(p.events, "capRemaining") => The(p.events, "capRemaining").n = Max({Cap - jtotal', 0})
    /\ ~Says(p.events, "capRemaining") => header /\ jtotal' = jtotal

(* Prepared, SubmittedUnknown, Acknowledged and Abandoned: no amounts. *)
LEMMA PlainEffect ==
    ASSUME IInv, Projected, header, NEW p,
           \/ p.obs = durable.obs
           \/ p.obs = [durable.obs EXCEPT !.seen = TRUE],
           UNCHANGED <<jfill, jtotal, header>>,
           \A e \in p.events : e.k \notin {"fill", "capNear", "capRemaining"},
           \A e \in p.events : e.k = "finalReport" => e.outcome # "completed"
    PROVE  Effect(p)
  <1>1. durable.obs \in ObsType /\ jtotal \in Int
    BY DEF Projected, IInv, JournalTypeOK
  <1>2. /\ p.obs \in ObsType /\ p.obs.acc = jfill' /\ p.obs.accounted = jtotal'
        /\ p.obs.cap = Cap
    BY <1>1 DEF Projected, ObsType
  <1>3. p.obs.near = durable.obs.near
    BY <1>1 DEF ObsType
  <1>4. \A W \in SUBSET p.events : FillOf(W) = 0
    BY DEF FillOf, Says
  <1>5. ~Says(p.events, "capNear") /\ ~Says(p.events, "capRemaining")
    BY DEF Says
  <1>6. p.events \in SUBSET p.events
    OBVIOUS
  <1>7. jtotal' >= jtotal /\ jtotal' - jtotal = 0 /\ jtotal' \in Int /\ header'
    BY <1>1
  <1>8. FillOf(p.events) = 0
    BY <1>4, <1>6
  <1> QED BY <1>2, <1>3, <1>4, <1>5, <1>7, <1>8 DEF Effect

(* Terminal. *)
LEMMA TerminalEffect ==
    ASSUME IInv, Projected, header, NEW r, r.cloid \in Cloids, r.fill \in Nat,
           r.fill >= jfill[r.cloid],
           jfill' = [jfill EXCEPT ![r.cloid] = r.fill],
           jtotal' = jtotal + (r.fill - jfill[r.cloid]),
           header' = header
    PROVE  Effect(ProjectTerminal(durable.obs, r))
  <1> DEFINE o == durable.obs
             c == r.cloid
             f == r.fill
             delta == Max({f - o.acc[c], 0})
             next == [o EXCEPT !.acc = [@ EXCEPT ![c] = f], !.accounted = @ + delta]
             near == o.cap > 0 /\ ~o.near /\ 10 * RemainingOf(next) <= o.cap
             p == ProjectTerminal(durable.obs, r)
  <1>1. o \in ObsType /\ jtotal \in Int /\ jfill \in [Cloids -> Nat] /\ o.acc = jfill /\ o.accounted = jtotal
    BY DEF Projected, IInv, JournalTypeOK
  <1>2. delta = f - jfill[c] /\ delta \in Nat
    <2>1. f - jfill[c] \in Int /\ f - jfill[c] >= 0
      BY <1>1
    <2> QED BY <1>1, <2>1, MaxZero
  <1>3. p.obs = [next EXCEPT !.near = @ \/ near]
    BY DEF ProjectTerminal
  <1>4. p.events = {Event("sliceTerminal"), Event("sliceCompleted")}
            \cup (IF delta > 0 THEN {Amount("fill", delta)} ELSE {})
            \cup (IF o.cap > 0 THEN {Amount("capRemaining", RemainingOf(next))} ELSE {})
            \cup (IF near THEN {Amount("capNear", RemainingOf(next))} ELSE {})
    BY DEF ProjectTerminal
  <1> HIDE DEF p
  <1>5. next.acc = [o.acc EXCEPT ![c] = f] /\ next.accounted = o.accounted + delta /\ next.cap = o.cap
        /\ next.near = o.near /\ next \in ObsType
    <2> DEFINE a == [o.acc EXCEPT ![c] = f]
               t == o.accounted + delta
    <2>1. a \in [Cloids -> Nat] /\ t \in Int
      BY <1>1, <1>2
    <2>2. next = [o EXCEPT !.acc = a, !.accounted = t]
      OBVIOUS
    <2> HIDE DEF a, t, next
    <2>3. next.acc = a /\ next.accounted = t /\ next.cap = o.cap /\ next.near = o.near /\ next \in ObsType
      BY <1>1, <2>1, <2>2 DEF ObsType
    <2> QED BY <2>3 DEF a, t
  <1>6. o.cap = Cap /\ Cap > 0
    BY ObserverBounds DEF Projected
  <1>7. jtotal' = jtotal + delta
    BY <1>2
  <1>8. RemainingOf(next) = Max({Cap - jtotal', 0})
    BY <1>1, <1>5, <1>6, <1>7 DEF RemainingOf
  <1> HIDE DEF next, delta
  <1>9. near \in BOOLEAN
    OBVIOUS
  <1> HIDE DEF near
  <1>10. /\ p.obs.acc = next.acc /\ p.obs.accounted = next.accounted /\ p.obs.cap = next.cap
         /\ p.obs \in ObsType
    BY <1>3, <1>5, <1>9 DEF ObsType
  <1>11. p.obs.near = (o.near \/ near)
    BY <1>3, <1>5 DEF ObsType
  <1>12. /\ \A e \in p.events : e.k = "fill" => e = Amount("fill", delta)
         /\ \A e \in p.events : e.k = "capRemaining" => e = Amount("capRemaining", RemainingOf(next))
         /\ \A e \in p.events : e.k # "finalReport"
         /\ \A e \in p.events : e.k = "capNear" => near
    BY <1>4 DEF Event, Amount
  <1>13. Amount("fill", delta) \in p.events \/ delta = 0
    BY <1>2, <1>4
  <1>14. FillOf(p.events) = delta /\ \A W \in SUBSET p.events : FillOf(W) \in {0, delta}
    BY <1>2, <1>12, <1>13, FillIs
  <1>15. Says(p.events, "capRemaining") /\ The(p.events, "capRemaining").n = RemainingOf(next)
    <2> DEFINE e == Amount("capRemaining", RemainingOf(next))
    <2>1. e \in p.events
      BY <1>4, <1>6
    <2>2. e.k = "capRemaining" /\ e.n = RemainingOf(next)
      BY DEF Amount
    <2> HIDE DEF e
    <2>3. \A x \in p.events : x.k = "capRemaining" => x = e
      BY <1>12 DEF e
    <2> QED BY <2>1, <2>2, <2>3, TheOne
  <1>16. Says(p.events, "capNear") => ~o.near /\ p.obs.near
    <2>1. near => ~o.near
      BY DEF near
    <2> QED BY <1>11, <1>12, <2>1 DEF Says
  <1>17. o.near => p.obs.near
    BY <1>11
  <1>18. jtotal' \in Int /\ jtotal' >= jtotal /\ jtotal' - jtotal = delta
    BY <1>1, <1>2, <1>7
  <1>19. p.obs.acc = jfill' /\ p.obs.accounted = jtotal' /\ p.obs.cap = Cap
    BY <1>1, <1>5, <1>6, <1>7, <1>10
  <1>20. Effect(p)
    BY <1>8, <1>10, <1>12, <1>14, <1>15, <1>16, <1>17, <1>18, <1>19 DEF Effect
  <1> QED BY <1>20 DEF p

(* FinalReport, which is completed only over settled orders. *)
LEMMA ReportEffect ==
    ASSUME IInv, Projected, header, NEW r, r.completed \in BOOLEAN,
           UNCHANGED <<jfill, jtotal, header>>, r.completed => ~IsIncomplete'
    PROVE  Effect(ProjectReport(durable.obs, r))
  <1> DEFINE o == durable.obs
             p == ProjectReport(durable.obs, r)
             rest == Amount("capRemaining", RemainingOf(o))
  <1>1. o \in ObsType /\ jtotal \in Int /\ o.acc = jfill /\ o.accounted = jtotal /\ o.cap = Cap
    BY DEF Projected, IInv, JournalTypeOK
  <1>2. p.obs = o
    BY DEF ProjectReport
  <1>3. /\ rest \in p.events
        /\ \A e \in p.events :
              e = rest \/ e.k \in {"runStopped", "finalReport", "reconciliation", "executionFailed"}
        /\ \A e \in p.events : e.k = "finalReport" => e.outcome = Outcome(r)
    <2> DEFINE failed == r.note = "reconciliation failed"
               checkpoint == ~r.completed /\ r.unk = {} /\ r.note = "phase completed"
               found == [k |-> "reconciliation", n |-> Cardinality(r.unk),
                         outcome |-> IF failed THEN "failed"
                                     ELSE IF r.unk = {} THEN "completed" ELSE "unresolved"]
               stopped == [k |-> "runStopped", reason |-> StopReason(r)]
               final == [k |-> "finalReport", outcome |-> Outcome(r)]
    <2>1. p.events = {rest}
            \cup (IF checkpoint THEN {} ELSE {stopped, final})
            \cup (IF ~checkpoint /\ (r.unk # {} \/ o.seen \/ failed) THEN {found} ELSE {})
            \cup (IF /\ ~checkpoint /\ ~failed /\ ~r.completed
                     /\ r.unk = {} /\ StopReason(r) = "abort"
                  THEN {Event("executionFailed")} ELSE {})
      BY DEF ProjectReport
    <2>2. /\ found.k = "reconciliation" /\ stopped.k = "runStopped" /\ final.k = "finalReport"
          /\ final.outcome = Outcome(r) /\ Event("executionFailed").k = "executionFailed"
          /\ rest.k = "capRemaining"
      BY DEF Event, Amount
    <2> HIDE DEF failed, checkpoint, found, stopped, final, rest, p
    <2>3. \A e \in p.events : e \in {rest, stopped, final, found, Event("executionFailed")}
      BY <2>1
    <2> QED BY <2>1, <2>2, <2>3
  <1> HIDE DEF p
  <1>4. rest.k = "capRemaining" /\ rest.n = RemainingOf(o)
    BY DEF Amount
  <1> HIDE DEF rest
  <1>5. \A e \in p.events : e.k \notin {"fill", "capNear"} /\ (e.k = "capRemaining" => e = rest)
    BY <1>3, <1>4
  <1>6. Says(p.events, "capRemaining") /\ The(p.events, "capRemaining").n = RemainingOf(o)
    BY <1>3, <1>4, <1>5, TheOne
  <1>7. RemainingOf(o) = Max({Cap - jtotal', 0})
    BY <1>1 DEF RemainingOf
  <1>8. \A W \in SUBSET p.events : FillOf(W) = 0
    BY <1>5 DEF FillOf, Says
  <1>9. FillOf(p.events) = 0
    BY <1>8
  <1>10. ~Says(p.events, "capNear")
    BY <1>5 DEF Says
  <1>11. Outcome(r) = "completed" => r.completed
    BY DEF Outcome
  <1>12. jtotal' >= jtotal /\ jtotal' - jtotal = 0 /\ jtotal' \in Int /\ header'
    BY <1>1
  <1>13. (\E e \in p.events : e.k = "finalReport" /\ e.outcome = "completed") => ~IsIncomplete'
    BY <1>3, <1>11
  <1>14. Effect(p)
    BY <1>1, <1>2, <1>6, <1>7, <1>8, <1>9, <1>10, <1>12, <1>13 DEF Effect
  <1> QED BY <1>14 DEF p

(* Header, into an empty journal. *)
LEMMA HeaderEffect ==
    ASSUME IInv, Projected, ~header, header', UNCHANGED <<jfill, jtotal>>
    PROVE  Effect(Project(durable.obs, [kind |-> "header"]))
  <1> DEFINE o == durable.obs
             p == Project(durable.obs, [kind |-> "header"])
             rest == Amount("capRemaining", Cap)
  <1>1. o \in ObsType /\ jtotal = 0 /\ o.acc = jfill /\ o.accounted = jtotal
    BY DEF Projected
  <1>2. p.obs = [o EXCEPT !.cap = Cap] /\ p.events = {Event("runStarted"), rest}
    BY DEF Project
  <1> HIDE DEF p
  <1>3. /\ p.obs \in ObsType /\ p.obs.acc = jfill' /\ p.obs.accounted = jtotal' /\ p.obs.cap = Cap
        /\ p.obs.near = o.near
    BY <1>1, <1>2, ObserverBounds DEF ObsType
  <1>4. rest.k = "capRemaining" /\ rest.n = Cap /\ rest \in p.events
    BY <1>2 DEF Amount
  <1>5. \A e \in p.events : e.k \notin {"fill", "capNear", "finalReport"} /\ (e.k = "capRemaining" => e = rest)
    BY <1>2, <1>4 DEF Event
  <1> HIDE DEF rest
  <1>6. Says(p.events, "capRemaining") /\ The(p.events, "capRemaining").n = Cap
    BY <1>4, <1>5, TheOne
  <1>7. Max({Cap - jtotal', 0}) = Cap
    <2>1. Cap - jtotal' = Cap /\ Cap \in Int /\ Cap >= 0
      BY <1>1, ObserverBounds
    <2> QED BY <2>1, MaxZero
  <1>8. \A W \in SUBSET p.events : FillOf(W) = 0
    BY <1>5 DEF FillOf, Says
  <1>9. FillOf(p.events) = 0 /\ ~Says(p.events, "capNear")
    BY <1>5, <1>8 DEF Says
  <1>10. jtotal' >= jtotal /\ jtotal' - jtotal = 0 /\ jtotal' \in Int
    BY <1>1
  <1>11. Effect(p)
    BY <1>3, <1>5, <1>6, <1>7, <1>8, <1>9, <1>10 DEF Effect
  <1> QED BY <1>11 DEF p

(* The fields of a record, by its kind. *)
LEMMA RecordFields ==
    ASSUME IInv, NEW r \in Records
    PROVE  /\ r.kind \in {"report", "prepared", "submittedUnknown", "acknowledged", "terminal", "abandoned"}
           /\ r.kind = "report" => r.completed \in BOOLEAN /\ r.unk \in SUBSET Cloids
           /\ r.kind \in {"prepared", "submittedUnknown", "acknowledged", "terminal"} =>
                 r.cloid \in Cloids /\ r.idx \in Nat
           /\ r.kind = "prepared" => r.size \in Nat
           /\ r.kind = "terminal" => r.fill \in Nat
  <1>1. Indices \subseteq Nat /\ Sizes \subseteq Nat /\ Lot \in Nat /\ Unresolved \subseteq Cloids
    BY RecordsFinite, ObserverBounds DEF Unresolved
  <1>2. CASE r \in Reports
    BY <1>1, <1>2 DEF Reports
  <1>3. CASE r \in [kind : {"prepared"}, cloid : Cloids, idx : Indices, size : {Lot}]
    BY <1>1, <1>3
  <1>4. CASE r \in [kind : {"submittedUnknown", "acknowledged"}, cloid : Cloids, idx : Indices]
    BY <1>1, <1>4
  <1>5. CASE r \in [kind : {"terminal"}, cloid : Cloids, idx : Indices, fill : Sizes]
    BY <1>1, <1>5
  <1>6. CASE r = [kind |-> "abandoned"]
    BY <1>6
  <1> QED BY <1>2, <1>3, <1>4, <1>5, <1>6 DEF Records, Orders

(* Every record that becomes durable. *)
LEMMA DurableEffect ==
    ASSUME ObsInv, valid, NEW r, r \in Records \/ r = [kind |-> "header"], Durable(r)
    PROVE  IInv' /\ valid' /\ Effect(Project(durable.obs, r))
  <1>1. IInv /\ Projected /\ JournalStep(r) /\ valid'
    BY DEF ObsInv, Durable
  <1>2. ~Refused
    BY <1>1 DEF Refused
  <1>3. Appendable => header
    BY DEF Appendable
  <1>4. CASE r.kind = "header"
    <2>1. RecordHeader
      BY <1>1, <1>4 DEF JournalStep
    <2>2. ~header /\ header' /\ UNCHANGED <<jfill, jtotal>>
      BY <1>2, <2>1 DEF RecordHeader
    <2>3. r = [kind |-> "header"]
      BY <1>1, <1>4, RecordFields
    <2> QED BY <1>1, <2>1, <2>2, <2>3, HeaderKeeps, HeaderEffect
  <1>5. CASE r.kind = "abandoned"
    <2>1. RecordAbandoned
      BY <1>1, <1>5 DEF JournalStep
    <2>2. header /\ UNCHANGED <<jfill, jtotal, header>>
      BY <1>2, <1>3, <2>1 DEF RecordAbandoned
    <2> DEFINE p == Project(durable.obs, r)
    <2>3. p.obs = durable.obs /\ p.events = {[k |-> "runStopped", reason |-> "abort"],
                                             [k |-> "finalReport", outcome |-> "aborted"]}
      BY <1>5 DEF Project
    <2> HIDE DEF p
    <2>4. /\ \A e \in p.events : e.k \notin {"fill", "capNear", "capRemaining"}
          /\ \A e \in p.events : e.k = "finalReport" => e.outcome # "completed"
      BY <2>3
    <2>5. Effect(p)
      BY <1>1, <2>2, <2>3, <2>4, PlainEffect
    <2> QED BY <1>1, <2>1, <2>5, AbandonedKeeps DEF p
  <1>6. CASE r.kind = "prepared"
    <2>0. r \in Records
      BY <1>6
    <2>1. RecordPrepared(r.cloid, r.idx, r.size) /\ r.cloid \in Cloids /\ r.idx \in Nat /\ r.size \in Nat
      BY <1>1, <1>6, <2>0, RecordFields DEF JournalStep
    <2>2. header /\ UNCHANGED <<jfill, jtotal, header>>
      BY <1>2, <1>3, <2>1 DEF RecordPrepared
    <2> DEFINE p == Project(durable.obs, r)
    <2>3. p.obs = durable.obs /\ p.events = {Event("slicePrepared")}
      BY <1>6 DEF Project
    <2> HIDE DEF p
    <2>4. \A e \in p.events : e.k = "slicePrepared"
      BY <2>3 DEF Event
    <2>5. Effect(p)
      BY <1>1, <2>2, <2>3, <2>4, PlainEffect
    <2> QED BY <1>1, <2>1, <2>5, PreparedKeeps DEF p
  <1>7. CASE r.kind \in {"submittedUnknown", "acknowledged"}
    <2>0. r \in Records
      BY <1>7
    <2>1. RecordProgress(r.cloid, r.idx, r.kind) /\ r.cloid \in Cloids /\ r.idx \in Nat
      BY <1>1, <1>7, <2>0, RecordFields DEF JournalStep
    <2>2. header /\ UNCHANGED <<jfill, jtotal, header>>
      BY <1>2, <1>3, <2>1 DEF RecordProgress
    <2> DEFINE p == Project(durable.obs, r)
    <2>3. /\ p.obs \in {durable.obs, [durable.obs EXCEPT !.seen = TRUE]}
          /\ p.events \in {{Event("sliceSubmitted")}, {Event("sliceAcknowledged")}}
      BY <1>7 DEF Project
    <2> HIDE DEF p
    <2>4. \A e \in p.events : e.k \in {"sliceSubmitted", "sliceAcknowledged"}
      BY <2>3 DEF Event
    <2>5. Effect(p)
      BY <1>1, <2>2, <2>3, <2>4, PlainEffect
    <2> QED BY <1>1, <1>7, <2>1, <2>5, ProgressKeeps DEF p
  <1>8. CASE r.kind = "terminal"
    <2>0. r \in Records
      BY <1>8
    <2>1. RecordTerminal(r.cloid, r.idx, r.fill) /\ r.cloid \in Cloids /\ r.idx \in Nat /\ r.fill \in Nat
      BY <1>1, <1>8, <2>0, RecordFields DEF JournalStep
    <2>2. /\ header /\ header' = header /\ r.fill >= jfill[r.cloid]
          /\ jfill' = [jfill EXCEPT ![r.cloid] = r.fill]
          /\ jtotal' = jtotal + (r.fill - jfill[r.cloid])
      BY <1>2, <1>3, <2>1 DEF RecordTerminal
    <2>3. Project(durable.obs, r) = ProjectTerminal(durable.obs, r)
      BY <1>8 DEF Project
    <2>4. Effect(ProjectTerminal(durable.obs, r))
      BY <1>1, <2>1, <2>2, TerminalEffect
    <2> QED BY <1>1, <2>1, <2>3, <2>4, TerminalKeeps
  <1>9. CASE r.kind = "report"
    <2>0. r \in Records
      BY <1>9
    <2>1. RecordFinalReport(r.completed, r.total, r.unk) /\ r.completed \in BOOLEAN /\ r.unk \in SUBSET Cloids
      BY <1>1, <1>9, <2>0, RecordFields DEF JournalStep
    <2>2. /\ header /\ UNCHANGED <<jfill, jtotal, jstate, header>>
          /\ unknowns' = r.unk /\ report' = IF r.completed THEN "completed" ELSE "incomplete"
          /\ r.completed => r.unk = {} /\ Unresolved = {}
      BY <1>2, <1>3, <2>1 DEF RecordFinalReport
    <2>3. r.completed => ~IsIncomplete'
      <3>1. Unresolved' = Unresolved
        BY <2>2 DEF Unresolved
      <3> QED BY <2>2, <3>1 DEF IsIncomplete
    <2>4. Project(durable.obs, r) = ProjectReport(durable.obs, r)
      BY <1>9 DEF Project
    <2>5. Effect(ProjectReport(durable.obs, r))
      BY <1>1, <2>1, <2>2, <2>3, ReportEffect
    <2> QED BY <1>1, <2>1, <2>4, <2>5, ReportKeeps
  <1> QED BY <1>1, <1>4, <1>5, <1>6, <1>7, <1>8, <1>9, RecordFields

(* A record is accepted only by a journal that is not closed. *)
LEMMA DurableIsOpen ==
    ASSUME NEW r, Durable(r)
    PROVE  ~header \/ IsIncomplete
  <1>1. JournalStep(r) /\ ~Refused
    BY DEF Durable, Refused
  <1> QED BY <1>1, AppendableIsOpen
          DEF JournalStep, RecordHeader, RecordAbandoned, RecordPrepared, RecordProgress,
              RecordTerminal, RecordFinalReport

(* The gauges that a record's events leave. *)
LEMMA MeteredGauges ==
    ASSUME NEW g, NEW E
    PROVE  /\ DOMAIN Metered(g, E) = Gauges
           /\ Metered(g, E).filled = g.filled + FillOf(E)
           /\ Says(E, "capRemaining") => Metered(g, E).cap = The(E, "capRemaining").n
           /\ ~Says(E, "capRemaining") => Metered(g, E).cap = g.cap
  BY DEF Metered, Gauges

(* A record moves the gauges as it moves the journal's total. *)
LEMMA EffectOnGauges ==
    ASSUME NEW p, Effect(p), NEW g, jtotal \in Int, g.filled = jtotal,
           header => g.cap = Max({Cap - jtotal, 0})
    PROVE  LET m == Metered(g, p.events)
           IN  /\ DOMAIN m = Gauges /\ m.filled = jtotal'
               /\ m.cap = Max({Cap - jtotal', 0})
  <1> DEFINE m == Metered(g, p.events)
  <1>1. /\ DOMAIN m = Gauges /\ m.filled = g.filled + FillOf(p.events)
        /\ Says(p.events, "capRemaining") => m.cap = The(p.events, "capRemaining").n
        /\ ~Says(p.events, "capRemaining") => m.cap = g.cap
    BY MeteredGauges
  <1> HIDE DEF m
  <1>2. FillOf(p.events) = jtotal' - jtotal /\ jtotal' \in Int
    BY DEF Effect
  <1>3. m.filled = jtotal'
    BY <1>1, <1>2
  <1>4. m.cap = Max({Cap - jtotal', 0})
    <2>1. CASE Says(p.events, "capRemaining")
      BY <1>1, <2>1 DEF Effect
    <2>2. CASE ~Says(p.events, "capRemaining")
      BY <1>1, <2>2 DEF Effect
    <2> QED BY <2>1, <2>2
  <1>5. DOMAIN m = Gauges /\ m.filled = jtotal' /\ m.cap = Max({Cap - jtotal', 0})
    BY <1>1, <1>3, <1>4
  <1> QED BY <1>5 DEF m

(* Projecting one record more keeps up with the journal. *)
LEMMA DurableProjected ==
    ASSUME ObsInv, valid, NEW r, r \in Records \/ r = [kind |-> "header"], Durable(r)
    PROVE  Projected' /\ durable'.obs = Project(durable.obs, r).obs
  <1> DEFINE p == Project(durable.obs, r)
  <1>1. Effect(p) /\ Projected /\ jtotal \in Int
    BY DurableEffect DEF ObsInv, IInv, JournalTypeOK
  <1>2. durable' = [obs |-> p.obs, metrics |-> Metered(durable.metrics, p.events)]
    BY DEF Durable
  <1> HIDE DEF p
  <1>3. durable.metrics.filled = jtotal /\ (header => durable.metrics.cap = Max({Cap - jtotal, 0}))
    BY <1>1 DEF Projected
  <1>4. LET m == Metered(durable.metrics, p.events)
        IN  /\ DOMAIN m = Gauges /\ m.filled = jtotal'
            /\ m.cap = Max({Cap - jtotal', 0})
    BY <1>1, <1>3, EffectOnGauges
  <1>5. durable'.obs = p.obs /\ durable'.metrics = Metered(durable.metrics, p.events)
    BY <1>2
  <1>6. /\ p.obs \in ObsType /\ header' /\ p.obs.acc = jfill' /\ p.obs.accounted = jtotal'
        /\ p.obs.cap = Cap
    BY <1>1 DEF Effect
  <1>7. Projected'
    BY <1>4, <1>5, <1>6 DEF Projected
  <1> QED BY <1>5, <1>7 DEF p

(* Whichever of a record's lines are written, the log stays behind. *)
LEMMA DurableBehind ==
    ASSUME ObsInv, valid, NEW r, r \in Records \/ r = [kind |-> "header"], Durable(r),
           log' = log \/ \E W \in SUBSET Project(durable.obs, r).events : log' = Logged(W)
    PROVE  Behind'
  <1> DEFINE p == Project(durable.obs, r)
  <1>1. Effect(p) /\ Behind /\ jtotal \in Int /\ durable.obs \in ObsType
    BY DurableEffect DEF ObsInv, IInv, JournalTypeOK, Projected
  <1>2. durable'.obs = p.obs
    BY DurableProjected
  <1>3. log' = log \/ \E W \in SUBSET p.events : log' = Logged(W)
    OBVIOUS
  <1> HIDE DEF p
  <1>4. ~log.completed
    BY <1>1, DurableIsOpen DEF Behind
  <1>5. jtotal' \in Int /\ jtotal' >= jtotal /\ header' /\ (durable.obs.near => p.obs.near)
    BY <1>1 DEF Effect
  <1>6. CASE log' = log
    <2>1. log.fills \in Int /\ log.nears \in Nat /\ log.fills <= jtotal /\ log.nears <= 1
      BY <1>1 DEF Behind
    <2>2. log.fills <= jtotal'
      BY <1>1, <1>5, <2>1
    <2>3. log.nears > 0 => p.obs.near
      BY <1>1, <1>5 DEF Behind
    <2>4. log.completed \in BOOLEAN
      BY <1>1 DEF Behind
    <2> QED BY <1>2, <1>4, <1>6, <2>1, <2>2, <2>3, <2>4 DEF Behind
  <1>7. CASE \E W \in SUBSET p.events : log' = Logged(W)
    <2>1. PICK W \in SUBSET p.events : log' = Logged(W)
      BY <1>7
    <2> DEFINE add == IF Says(W, "capNear") THEN 1 ELSE 0
               ends == \E e \in W : e.k = "finalReport" /\ e.outcome = "completed"
    <2>2. /\ log'.fills = log.fills + FillOf(W) /\ log'.nears = log.nears + add
          /\ log'.completed = (log.completed \/ ends)
      BY <2>1 DEF Logged
    <2>3. FillOf(W) \in {0, jtotal' - jtotal}
      BY <1>1 DEF Effect
    <2>4. log'.fills \in Int /\ log'.fills <= jtotal'
      <3>1. log.fills \in Int /\ log.fills <= jtotal
        BY <1>1 DEF Behind
      <3> QED BY <1>1, <1>5, <2>2, <2>3, <3>1
    <2>5. Says(W, "capNear") => ~durable.obs.near /\ p.obs.near
      <3>1. Says(W, "capNear") => Says(p.events, "capNear")
        BY DEF Says
      <3> QED BY <1>1, <3>1 DEF Effect
    <2>6. log'.nears \in Nat /\ log'.nears <= 1 /\ (log'.nears > 0 => p.obs.near)
      <3>1. log.nears \in Nat /\ log.nears <= 1 /\ (log.nears > 0 => durable.obs.near)
        BY <1>1 DEF Behind
      <3>2. CASE Says(W, "capNear")
        <4>1. log.nears = 0 /\ add = 1 /\ p.obs.near
          BY <2>5, <3>1, <3>2
        <4> QED BY <2>2, <4>1
      <3>3. CASE ~Says(W, "capNear")
        <4>1. add = 0
          BY <3>3
        <4>2. log'.nears = log.nears
          BY <2>2, <3>1, <4>1
        <4> QED BY <1>5, <3>1, <4>2
      <3> QED BY <3>2, <3>3
    <2>7. ends => ~IsIncomplete'
      BY <1>1 DEF Effect
    <2>8. log'.completed \in BOOLEAN /\ (log'.completed => ~IsIncomplete')
      BY <1>4, <2>2, <2>7
    <2> QED BY <1>2, <1>5, <2>4, <2>6, <2>8 DEF Behind
  <1> QED BY <1>3, <1>6, <1>7

(* Nothing of a quiet set of events counts. *)
LEMMA Quiet ==
    ASSUME NEW E, \A e \in E : e.k \notin {"fill", "capNear", "finalReport"}
    PROVE  /\ FillOf(E) = 0
           /\ Behind => Logged(E).fills = log.fills /\ Logged(E).nears = log.nears
           /\ Behind => Logged(E).completed = log.completed
  <1>1. FillOf(E) = 0 /\ ~Says(E, "capNear")
    BY DEF FillOf, Says
  <1>2. Behind => log.fills + 0 = log.fills /\ log.nears + 0 = log.nears
    BY DEF Behind
  <1>3. Behind => log.completed \in BOOLEAN
    BY DEF Behind
  <1>4. ~\E e \in E : e.k = "finalReport" /\ e.outcome = "completed"
    OBVIOUS
  <1>5. /\ Logged(E).fills = log.fills + FillOf(E)
        /\ Logged(E).nears = log.nears + (IF Says(E, "capNear") THEN 1 ELSE 0)
        /\ Logged(E).completed =
              (log.completed \/ \E e \in E : e.k = "finalReport" /\ e.outcome = "completed")
    BY DEF Logged
  <1> QED BY <1>1, <1>2, <1>3, <1>4, <1>5

(* What an observer writes when it opens moves the log nowhere. *)
LEMMA OpeningBehind ==
    ASSUME Behind, NEW E, \A e \in E : e.k \notin {"fill", "capNear", "finalReport"},
           NEW logging, log' = IF logging THEN Logged(E) ELSE log, UNCHANGED <<jvars, durable>>
    PROVE  Behind'
  <1>1. log'.fills = log.fills /\ log'.nears = log.nears /\ log'.completed = log.completed
    BY Quiet
  <1>2. IsIncomplete' = IsIncomplete /\ jtotal' = jtotal /\ header' = header
    BY DEF jvars, IsIncomplete, Unresolved
  <1> QED BY <1>1, <1>2 DEF Behind

(* No process, and an empty journal. *)
LEMMA ObsInvInit == Init => ObsInv
  <1> SUFFICES ASSUME Init PROVE ObsInv
    OBVIOUS
  <1>1. IInv
    BY IInvInit DEF Init
  <1>2. proc = Down /\ DOMAIN Down = Fields
    BY DEF Init, Down, Fields
  <1>3. ProcOK
    BY <1>2 DEF ProcOK, Down
  <1>4. ~header /\ jtotal = 0 /\ jfill = [c \in Cloids |-> 0]
    BY DEF Init, JournalInit
  <1>5. Projected
    <2>1. durable.obs = Projector /\ durable.metrics = Metrics
      BY DEF Init
    <2>2. Projector \in ObsType
      BY DEF Projector, ObsType
    <2>3. Projector.acc = jfill /\ Projector.accounted = 0
      BY <1>4 DEF Projector
    <2>4. DOMAIN Metrics = Gauges /\ Metrics.filled = 0
      BY DEF Metrics, Gauges
    <2> QED BY <1>4, <2>1, <2>2, <2>3, <2>4 DEF Projected
  <1>6. Attached
    BY <1>2 DEF Attached, Down
  <1>7. Behind
    <2>1. log.fills = 0 /\ log.nears = 0 /\ log.completed = FALSE
      BY DEF Init
    <2>2. ~log.completed /\ log.completed \in BOOLEAN
      BY <2>1
    <2>3. /\ log.fills \in Int /\ log.nears \in Nat /\ log.fills <= jtotal /\ log.nears <= 1
          /\ ~(log.nears > 0)
      BY <1>4, <2>1
    <2> QED BY <2>2, <2>3 DEF Behind
  <1> QED BY <1>1, <1>3, <1>5, <1>6, <1>7 DEF ObsInv

(* A process that is down is attached to nothing. *)
LEMMA DownIsFree ==
    ASSUME proc' = Down
    PROVE  ProcOK' /\ Attached'
  <1>1. /\ DOMAIN Down = Fields /\ Down.started = FALSE /\ Down.handle = "none"
        /\ Down.command = "none"
    BY DEF Down, Fields
  <1> QED BY <1>1 DEF ProcOK, Attached

(* Where neither the journal nor the log moves. *)
LEMMA StillKeeps ==
    ASSUME ObsInv, UNCHANGED <<jvars, durable>>
    PROVE  IInv' /\ (valid => Projected') /\ (valid /\ UNCHANGED log => Behind')
  <1>1. IInv'
    BY DEF ObsInv, IInv, jvars, JournalTypeOK, ClosedSettled, Unresolved
  <1>2. valid => Projected'
    BY DEF ObsInv, Projected, jvars
  <1>3. IsIncomplete' = IsIncomplete
    BY DEF jvars, IsIncomplete, Unresolved
  <1>4. ASSUME valid, UNCHANGED log PROVE Behind'
    BY <1>3, <1>4 DEF ObsInv, Behind, jvars
  <1> QED BY <1>1, <1>2, <1>4

(* A new run. *)
LEMMA StartsRunKeeps == ASSUME ObsInv, StartsRun PROVE ObsInv'
  <1> DEFINE r == [kind |-> "header"]
  <1>1. Durable(r) /\ ~header /\ log' = log
    BY DEF StartsRun
  <1>2. proc' = [Down EXCEPT !.command = "new", !.handle = "bare"]
    BY DEF StartsRun
  <1>3. /\ DOMAIN proc' = Fields /\ proc'.started = FALSE /\ proc'.handle = "bare"
        /\ proc'.command = "new" /\ proc'.metrics = Metrics
    BY <1>2 DEF Down, Fields
  <1>4. ProcOK'
    BY <1>3 DEF ProcOK
  <1>5. RecordHeader /\ valid'
    BY <1>1 DEF Durable, JournalStep
  <1>6. valid /\ header' /\ UNCHANGED <<jfill, jtotal>>
    BY <1>5 DEF RecordHeader, Refused
  <1>7. IInv' /\ Projected' /\ Behind' /\ durable'.obs = Project(durable.obs, r).obs
    BY <1>1, <1>6, DurableEffect, DurableProjected, DurableBehind
  <1>8. durable.obs = Projector /\ jtotal = 0
    BY <1>1, <1>6 DEF ObsInv, Projected
  <1>9. durable'.obs = [Projector EXCEPT !.cap = Cap]
    BY <1>7, <1>8 DEF Project
  <1>10. Attached'
    BY <1>3, <1>6, <1>8, <1>9 DEF Attached
  <1> QED BY <1>4, <1>7, <1>10 DEF ObsInv

(* The observer of a new run starts where projecting the Header ends. *)
LEMMA AttachNewKeeps == ASSUME ObsInv, AttachNew PROVE ObsInv'
  <1> DEFINE p == Project(Projector, [kind |-> "header"])
             E == p.events \cup {Event("preflight")}
             rest == Amount("capRemaining", Cap)
  <1>1. /\ proc.command = "new" /\ proc.handle = "bare" /\ obs' = p.obs
        /\ UNCHANGED <<jvars, durable>>
        /\ \E logging \in BOOLEAN : Opens("observed", FALSE, proc.metrics, E, logging)
    BY DEF AttachNew
  <1>2. PICK logging \in BOOLEAN : Opens("observed", FALSE, proc.metrics, E, logging)
    BY <1>1
  <1>3. p.obs = [Projector EXCEPT !.cap = Cap]
        /\ E = {Event("runStarted"), rest, Event("preflight")}
    BY DEF Project
  <1> HIDE DEF p, E
  <1>4. /\ rest.k = "capRemaining" /\ rest.n = Cap /\ rest \in E
        /\ \A e \in E : e = rest \/ e.k \in {"runStarted", "preflight"}
    BY <1>3 DEF Event, Amount
  <1> HIDE DEF rest
  <1>5. /\ Says(E, "capRemaining") /\ The(E, "capRemaining").n = Cap
        /\ \A e \in E : e.k \notin {"fill", "capNear", "finalReport"}
    BY <1>4, TheOne
  <1>6. /\ log' = (IF logging THEN Logged(E) ELSE log)
        /\ proc' = [proc EXCEPT !.handle = "observed", !.started = FALSE, !.logging = logging,
                        !.metrics = Metered(proc.metrics, E), !.queue = Alerted(E).queue,
                        !.raised = {}]
    BY <1>2 DEF Opens
  <1>7. ProcOK
    BY DEF ObsInv
  <1>8. /\ DOMAIN proc' = Fields /\ proc'.started = FALSE /\ proc'.handle = "observed"
        /\ proc'.command = "new" /\ proc'.metrics = Metered(proc.metrics, E)
    BY <1>1, <1>6, <1>7 DEF ProcOK, Fields
  <1>9. ProcOK'
    BY <1>8 DEF ProcOK
  <1>10. ASSUME valid PROVE Attached' /\ Behind'
    <2>1. Behind /\ header /\ jtotal = 0 /\ durable.obs = p.obs /\ proc.metrics = Metrics
      BY <1>1, <1>3, <1>10 DEF ObsInv, Attached
    <2>2. Behind'
      BY <1>1, <1>5, <1>6, <2>1, OpeningBehind
    <2>3. FillOf(E) = 0
      BY <1>5, Quiet
    <2>4. proc'.metrics.filled = 0 /\ proc'.metrics.cap = Cap
      BY <1>5, <1>8, <2>1, <2>3, MeteredGauges DEF Metrics
    <2>5. Max({Cap - 0, 0}) = Cap
      <3>1. Cap - 0 = Cap /\ Cap \in Int /\ Cap >= 0
        BY ObserverBounds
      <3> QED BY <3>1, MaxZero
    <2>6. header' = header /\ jtotal' = jtotal /\ durable' = durable
      BY <1>1 DEF jvars
    <2>7. Attached'
      BY <1>1, <1>8, <2>1, <2>4, <2>5, <2>6 DEF Attached
    <2> QED BY <2>2, <2>7
  <1>11. valid' = valid
    BY <1>1 DEF jvars
  <1> QED BY <1>1, <1>9, <1>10, <1>11, StillKeeps DEF ObsInv

(* Metrics restored into a fresh registry are the journal's. *)
LEMMA OpensRunKeeps == ASSUME ObsInv, OpensRun PROVE ObsInv'
  <1>1. valid /\ header /\ obs' = durable.obs /\ UNCHANGED <<jvars, durable>>
    BY DEF OpensRun
  <1>2. PICK command \in {"resume", "abandon"}, logging \in BOOLEAN :
          LET emit == IF command = "resume" THEN {Event("runResumed")} ELSE {} IN
          /\ proc' = [Down EXCEPT !.command = command, !.handle = "observed",
                                  !.started = command = "resume", !.logging = logging,
                                  !.metrics = Metered(Restored(Metrics), emit)]
          /\ log' = IF logging THEN Logged(emit) ELSE log
    BY DEF OpensRun
  <1> DEFINE E == IF command = "resume" THEN {Event("runResumed")} ELSE {}
             resumes == command = "resume"
             g == Metered(Restored(Metrics), E)
  <1>3. /\ proc' = [Down EXCEPT !.command = command, !.handle = "observed",
                                !.started = resumes, !.logging = logging, !.metrics = g]
        /\ log' = IF logging THEN Logged(E) ELSE log
    BY <1>2
  <1>4. \A e \in E : e.k = "runResumed"
    BY DEF Event
  <1> HIDE DEF E, g
  <1>5. /\ DOMAIN proc' = Fields /\ proc'.started = resumes /\ proc'.handle = "observed"
        /\ proc'.command = command /\ proc'.metrics = g
    BY <1>3 DEF Down, Fields
  <1>6. ProcOK'
    BY <1>5 DEF ProcOK
  <1>7. Behind /\ Projected /\ jtotal \in Int
    BY <1>1 DEF ObsInv, IInv, JournalTypeOK
  <1>8. Behind'
    BY <1>1, <1>3, <1>4, <1>7, OpeningBehind
  <1>9. Restored(Metrics).filled = jtotal /\ Restored(Metrics).cap = Max({Cap - jtotal, 0})
    <2>1. /\ DOMAIN durable.metrics = Gauges /\ durable.metrics.filled = jtotal
          /\ durable.metrics.cap = Max({Cap - jtotal, 0})
      BY <1>1, <1>7 DEF Projected
    <2>2. Metrics.filled = 0
      BY DEF Metrics
    <2>3. Restored(Metrics).filled = jtotal + 0
      BY <2>1, <2>2 DEF Restored, Gauges
    <2>4. Restored(Metrics).cap = durable.metrics.cap
      BY <2>1 DEF Restored, Gauges
    <2> QED BY <1>7, <2>1, <2>3, <2>4
  <1>10. g.filled = jtotal /\ g.cap = Max({Cap - jtotal, 0})
    <2>1. FillOf(E) = 0 /\ ~Says(E, "capRemaining")
      BY <1>4, Quiet DEF Says
    <2>2. g.filled = Restored(Metrics).filled + 0 /\ g.cap = Restored(Metrics).cap
      BY <2>1, MeteredGauges DEF g
    <2> QED BY <1>7, <1>9, <2>2
  <1>11. header' = header /\ jtotal' = jtotal /\ durable' = durable /\ valid' = valid
    BY <1>1 DEF jvars
  <1>12. Attached'
    BY <1>1, <1>5, <1>10, <1>11 DEF Attached
  <1> QED BY <1>1, <1>6, <1>8, <1>11, <1>12, StillKeeps DEF ObsInv

(* A second observer of the same process keeps the metrics it finds. *)
LEMMA ReattachesKeeps == ASSUME ObsInv, Reattaches PROVE ObsInv'
  <1> DEFINE E == {Event("preflight")}
  <1>1. /\ proc.command = "resume" /\ proc.handle = "observed" /\ valid
        /\ obs' = durable.obs /\ UNCHANGED <<jvars, durable>>
    BY DEF Reattaches
  <1>2. ProcOK /\ Attached /\ Behind /\ jtotal \in Int
    BY <1>1 DEF ObsInv, IInv, JournalTypeOK
  <1>3. proc.started = TRUE
    BY <1>1, <1>2 DEF ProcOK
  <1>4. PICK logging \in BOOLEAN : Opens("observed", TRUE, proc.metrics, E, logging)
    BY <1>3 DEF Reattaches
  <1>5. \A e \in E : e.k = "preflight"
    BY DEF Event
  <1> HIDE DEF E
  <1>6. /\ log' = (IF logging THEN Logged(E) ELSE log)
        /\ proc' = [proc EXCEPT !.handle = "observed", !.started = TRUE, !.logging = logging,
                        !.metrics = Metered(proc.metrics, E), !.queue = Alerted(E).queue,
                        !.raised = {}]
    BY <1>4 DEF Opens
  <1>7. /\ DOMAIN proc' = Fields /\ proc'.started = TRUE /\ proc'.handle = "observed"
        /\ proc'.command = "resume" /\ proc'.metrics = Metered(proc.metrics, E)
    BY <1>1, <1>2, <1>6 DEF ProcOK, Fields
  <1>8. ProcOK'
    BY <1>7 DEF ProcOK
  <1>9. Behind'
    BY <1>1, <1>2, <1>5, <1>6, OpeningBehind
  <1>10. FillOf(E) = 0 /\ ~Says(E, "capRemaining")
    BY <1>5, Quiet DEF Says
  <1>11. proc'.metrics.filled = proc.metrics.filled + 0 /\ proc'.metrics.cap = proc.metrics.cap
    BY <1>7, <1>10, MeteredGauges
  <1>12. header /\ proc.metrics.filled = jtotal /\ proc.metrics.cap = Max({Cap - jtotal, 0})
    BY <1>1, <1>2 DEF Attached
  <1>13. proc'.metrics.filled = jtotal
    BY <1>2, <1>11, <1>12
  <1>14. header' = header /\ jtotal' = jtotal /\ durable' = durable /\ valid' = valid
    BY <1>1 DEF jvars
  <1>15. Attached'
    BY <1>1, <1>7, <1>11, <1>12, <1>13, <1>14 DEF Attached
  <1> QED BY <1>1, <1>8, <1>9, <1>14, <1>15, StillKeeps DEF ObsInv

(* A handle without an observer. *)
LEMMA OpensUnobservedKeeps == ASSUME ObsInv, OpensUnobserved PROVE ObsInv'
  <1>1. /\ proc.command = "resume" /\ valid /\ UNCHANGED <<jvars, durable>> /\ UNCHANGED log
        /\ proc' = [proc EXCEPT !.handle = "bare"]
    BY DEF OpensUnobserved
  <1>2. ProcOK
    BY DEF ObsInv
  <1>3. /\ DOMAIN proc' = Fields /\ proc'.handle = "bare" /\ proc'.command = "resume"
        /\ proc'.started = proc.started
    BY <1>1, <1>2 DEF ProcOK, Fields
  <1>4. ProcOK' /\ Attached'
    BY <1>1, <1>2, <1>3 DEF ProcOK, Attached
  <1> QED BY <1>1, <1>4, StillKeeps DEF ObsInv

(* A record through an observed handle. *)
LEMMA AppendsKeeps == ASSUME ObsInv, NEW r \in Records, Appends(r) PROVE ObsInv'
  <1> DEFINE p == Project(durable.obs, r)
  <1>1. proc.handle = "observed" /\ valid /\ Durable(r)
    BY DEF Appends
  <1>2. ProcOK /\ Attached /\ jtotal \in Int /\ obs = durable.obs
    BY <1>1 DEF ObsInv, Attached, IInv, JournalTypeOK
  <1>3. obs' = p.obs /\ Emitted(p.events)
    BY <1>2 DEF Appends
  <1>4. /\ IInv' /\ valid' /\ Effect(p) /\ Projected' /\ durable'.obs = p.obs
    BY <1>1, DurableEffect, DurableProjected
  <1>5. log' = log \/ \E W \in SUBSET p.events : log' = Logged(W)
    BY <1>3 DEF Emitted, Writes
  <1>6. Behind'
    BY <1>1, <1>5, DurableBehind
  <1> HIDE DEF p
  <1>7. proc' = [proc EXCEPT !.metrics = Metered(proc.metrics, p.events),
                             !.queue = Alerted(p.events).queue,
                             !.raised = Alerted(p.events).raised]
    BY <1>3 DEF Emitted
  <1>8. /\ DOMAIN proc' = Fields /\ proc'.handle = "observed" /\ proc'.command = proc.command
        /\ proc'.started = proc.started /\ proc'.metrics = Metered(proc.metrics, p.events)
    BY <1>1, <1>2, <1>7 DEF ProcOK, Fields
  <1>9. ProcOK'
    BY <1>1, <1>2, <1>8 DEF ProcOK
  <1>10. proc.metrics.filled = jtotal /\ proc.metrics.cap = Max({Cap - jtotal, 0})
    BY <1>1, <1>2 DEF Attached
  <1>11. proc'.metrics.filled = jtotal' /\ proc'.metrics.cap = Max({Cap - jtotal', 0})
    BY <1>2, <1>4, <1>8, <1>10, EffectOnGauges
  <1>12. header'
    BY <1>4 DEF Effect
  <1>13. Attached'
    BY <1>3, <1>4, <1>8, <1>11, <1>12 DEF Attached
  <1> QED BY <1>4, <1>6, <1>9, <1>13 DEF ObsInv

(* A record through a handle without an observer. *)
LEMMA AppendsUnobservedKeeps ==
    ASSUME ObsInv, NEW r \in Records, AppendsUnobserved(r) PROVE ObsInv'
  <1>1. /\ proc.handle = "bare" /\ proc.command = "resume" /\ valid /\ Durable(r)
        /\ proc' = proc /\ log' = log
    BY DEF AppendsUnobserved
  <1>2. IInv' /\ valid' /\ Projected' /\ Behind'
    BY <1>1, DurableEffect, DurableProjected, DurableBehind
  <1>3. ProcOK' /\ Attached'
    BY <1>1 DEF ObsInv, ProcOK, Attached
  <1> QED BY <1>2, <1>3 DEF ObsInv

(* A record that replay refuses. *)
LEMMA AppendsRefusedKeeps ==
    ASSUME ObsInv, NEW r \in Records, AppendsRefused(r) PROVE ObsInv'
  <1>1. JournalStep(r) /\ ~valid' /\ proc' = proc /\ IInv
    BY DEF AppendsRefused, ovars, ObsInv
  <1>2. ProcOK'
    BY <1>1 DEF ObsInv, ProcOK
  <1>3. IInv'
    BY <1>1, RecordFields, HeaderKeeps, AbandonedKeeps, PreparedKeeps, ProgressKeeps,
       TerminalKeeps, ReportKeeps DEF JournalStep
  <1> QED BY <1>1, <1>2, <1>3 DEF ObsInv

(* A crash between the fsync and the end of the observation. *)
LEMMA DiesUnobservedKeeps ==
    ASSUME ObsInv, NEW r \in Records, DiesUnobserved(r) PROVE ObsInv'
  <1>1. /\ proc.handle = "observed" /\ valid /\ Durable(r) /\ Writes(Project(obs, r).events)
        /\ proc' = Down
    BY DEF DiesUnobserved
  <1>2. obs = durable.obs
    BY <1>1 DEF ObsInv, Attached
  <1>3. log' = log \/ \E W \in SUBSET Project(durable.obs, r).events : log' = Logged(W)
    BY <1>1, <1>2 DEF Writes
  <1>4. IInv' /\ valid' /\ Projected' /\ Behind'
    BY <1>1, <1>3, DurableEffect, DurableProjected, DurableBehind
  <1> QED BY <1>1, <1>4, DownIsFree DEF ObsInv

(* An alert is taken from the queue, or the process ends. *)
LEMMA DeliversKeeps == ASSUME ObsInv, Delivers \/ Ends PROVE ObsInv'
  <1>1. UNCHANGED <<jvars, durable>> /\ UNCHANGED log
    BY DEF Delivers, Ends
  <1>2. valid' = valid /\ header' = header /\ jtotal' = jtotal /\ durable' = durable
    BY <1>1 DEF jvars
  <1>3. CASE Delivers
    <2>1. proc' = [proc EXCEPT !.queue = proc.queue - 1] /\ obs' = obs /\ ProcOK
      BY <1>3 DEF Delivers, ObsInv
    <2>2. /\ DOMAIN proc' = Fields /\ proc'.handle = proc.handle /\ proc'.command = proc.command
          /\ proc'.started = proc.started /\ proc'.metrics = proc.metrics
      BY <2>1 DEF ProcOK, Fields
    <2>3. ProcOK' /\ (valid => Attached')
      BY <1>2, <2>1, <2>2 DEF ProcOK, Attached, ObsInv
    <2> QED BY <1>1, <1>2, <2>3, StillKeeps DEF ObsInv
  <1>4. CASE Ends
    <2>1. proc' = Down
      BY <1>4 DEF Ends
    <2> QED BY <1>1, <1>2, <2>1, DownIsFree, StillKeeps DEF ObsInv
  <1> QED BY <1>3, <1>4

(* Every step. *)
LEMMA ObsInvNext == ASSUME ObsInv, [Next]_vars PROVE ObsInv'
  <1>1. CASE UNCHANGED vars
    <2>1. /\ UNCHANGED <<jvars, durable>> /\ UNCHANGED log /\ proc' = proc /\ obs' = obs
          /\ valid' = valid /\ header' = header /\ jtotal' = jtotal /\ durable' = durable
      BY <1>1 DEF vars, ovars, jvars
    <2>2. ProcOK' /\ (valid => Attached')
      BY <2>1 DEF ObsInv, ProcOK, Attached
    <2> QED BY <2>1, <2>2, StillKeeps DEF ObsInv
  <1>2. ASSUME NEW r \in Records,
               Appends(r) \/ AppendsUnobserved(r) \/ AppendsRefused(r) \/ DiesUnobserved(r)
        PROVE  ObsInv'
    BY <1>2, AppendsKeeps, AppendsUnobservedKeeps, AppendsRefusedKeeps, DiesUnobservedKeeps
  <1> QED BY <1>1, <1>2, StartsRunKeeps, AttachNewKeeps, OpensRunKeeps, ReattachesKeeps,
             OpensUnobservedKeeps, DeliversKeeps DEF Next

(* The projector of an attached observer is the one that projecting the    *)
(* whole journal gives, in every process of the run (observability.rs:     *)
(* seed_from_records, observe_record).                                     *)
THEOREM ObserverInvariant == ObserverSpec => []ObsInv
  BY ObsInvInit, ObsInvNext, PTL DEF ObserverSpec

(* The gauges of filled size and of remaining cap are the replayed total's *)
(* through every attachment, reattachment and crash.                       *)
THEOREM GaugesFollowJournal == ObserverSpec => []GaugesMatchTotal
  <1>1. ObsInv => GaugesMatchTotal
    BY DEF ObsInv, Attached, GaugesMatchTotal
  <1> QED BY <1>1, ObserverInvariant, PTL

(* Whatever lines are lost, the event log reports no fill twice and the    *)
(* low cap at most once (ObservedEventWriter::try_emit).                   *)
THEOREM LogLagsBehind == ObserverSpec => []LogNeverOverstates
  <1>1. ObsInv => LogNeverOverstates
    BY DEF ObsInv, Behind, LogNeverOverstates
  <1> QED BY <1>1, ObserverInvariant, PTL

(* A run that the event log calls completed is closed in the journal.      *)
THEOREM CompletedIsClosed == ObserverSpec => []CompletedEventIsTrue
  <1>1. ObsInv => CompletedEventIsTrue
    BY DEF ObsInv, Behind, CompletedEventIsTrue
  <1> QED BY <1>1, ObserverInvariant, PTL

(* A report with open orders is projected to an event worth an alert. *)
LEMMA OpenReportAlerts ==
    ASSUME NEW o, NEW r, r.kind = "report", r.unk # {}
    PROVE  \E e \in Project(o, r).events : e.k = "reconciliation" /\ AlertFor(e)
  <1> DEFINE failed == r.note = "reconciliation failed"
             checkpoint == ~r.completed /\ r.unk = {} /\ r.note = "phase completed"
             outcome == IF failed THEN "failed"
                        ELSE IF r.unk = {} THEN "completed" ELSE "unresolved"
             found == [k |-> "reconciliation", n |-> Cardinality(r.unk), outcome |-> outcome]
  <1>1. Project(o, r) = ProjectReport(o, r)
    BY DEF Project
  <1>2. ~checkpoint => found \in ProjectReport(o, r).events
    BY DEF ProjectReport
  <1>3. ~checkpoint
    OBVIOUS
  <1>4. outcome # "completed"
    OBVIOUS
  <1>5. found.k = "reconciliation" /\ found.outcome = outcome
    OBVIOUS
  <1>6. AlertFor(found)
    BY <1>4, <1>5 DEF AlertFor
  <1> QED BY <1>1, <1>2, <1>3, <1>5, <1>6

(* An observer that sees a report with open orders raises an alert, whether *)
(* or not there is room for it in the queue (AlertHook::try_send).         *)
THEOREM OpenOrdersAlwaysAlerted == ObserverSpec => UnresolvedIsAlerted
  <1> DEFINE A == /\ valid' /\ proc.handle = "observed" /\ proc'.handle = "observed"
                  /\ unknowns # unknowns' /\ unknowns' # {}
                  => "reconciliation" \in proc'.raised
  <1>1. ASSUME ObsInv, [Next]_vars PROVE [A]_vars
    <2> SUFFICES ASSUME Next, valid', proc.handle = "observed", proc'.handle = "observed",
                        unknowns # unknowns', unknowns' # {}
                 PROVE  "reconciliation" \in proc'.raised
      BY <1>1
    <2>1. ~StartsRun
      BY DEF StartsRun, Down
    <2>2. ~AttachNew /\ ~OpensRun /\ ~Reattaches /\ ~OpensUnobserved /\ ~Delivers /\ ~Ends
      BY DEF AttachNew, OpensRun, Reattaches, OpensUnobserved, Delivers, Ends, jvars
    <2>3. \A r \in Records : ~AppendsUnobserved(r) /\ ~AppendsRefused(r) /\ ~DiesUnobserved(r)
      BY DEF AppendsUnobserved, AppendsRefused, DiesUnobserved, Down
    <2>4. PICK r \in Records : Appends(r)
      BY <2>1, <2>2, <2>3 DEF Next
    <2>5. JournalStep(r) /\ Emitted(Project(obs, r).events) /\ ~Refused
      BY <2>4 DEF Appends, Durable, Refused
    <2>6. r.kind = "report" /\ RecordFinalReport(r.completed, r.total, r.unk)
      BY <2>5 DEF JournalStep, RecordHeader, RecordAbandoned, RecordPrepared, RecordProgress,
                  RecordTerminal
    <2>7. r.unk # {}
      BY <2>5, <2>6 DEF RecordFinalReport
    <2>8. PICK e \in Project(obs, r).events : e.k = "reconciliation" /\ AlertFor(e)
      BY <2>6, <2>7, OpenReportAlerts
    <2> DEFINE E == Project(obs, r).events
    <2>9. e.k \in Alerted(E).raised
      BY <2>8 DEF Alerted
    <2> HIDE DEF E
    <2>10. DOMAIN proc = Fields
      BY <1>1 DEF ObsInv, ProcOK
    <2>11. proc'.raised = Alerted(E).raised
      BY <2>5, <2>10 DEF Emitted, Fields, E
    <2> QED BY <2>8, <2>9, <2>11
  <1>2. ObserverSpec => [][A]_vars
    BY <1>1, ObserverInvariant, PTL DEF ObserverSpec
  <1> QED BY <1>2 DEF UnresolvedIsAlerted

(* Closed means settled for the journal under observation too. *)
THEOREM ObservedClosedHasNothingOpen == ObserverSpec => []ClosedHasNothingOpen
  <1>1. ObsInv => ClosedHasNothingOpen
    BY DEF ObsInv, IInv, ClosedSettled, ClosedHasNothingOpen, IsIncomplete
  <1> QED BY <1>1, ObserverInvariant, PTL

-----------------------------------------------------------------------------
(* The total and the fills it is the sum of. *)

SumOf(g) == MapThenSumSet(LAMBDA c : g[c], Cloids)

(* Every set of natural numbers has a least one: induction, in a form that *)
(* needs no operator.                                                      *)
LEMMA Least ==
    ASSUME NEW T \in SUBSET Nat, T # {}
    PROVE  \E n \in T : \A m \in T : n <= m
  <1> DEFINE R == OpToRel(<, Nat)
  <1>1. IsWellFoundedOn(R, Nat)
    BY NatLessThanWellFounded
  <1>2. \A x, y \in Nat : x < y => <<x, y>> \in R
    BY DEF OpToRel
  <1> HIDE DEF R
  <1>3. PICK n \in T : \A m \in T : ~(<<m, n>> \in R)
    BY <1>1, WFMin
  <1>4. ASSUME NEW m \in T PROVE n <= m
    <2>1. n \in Nat /\ m \in Nat /\ ~(m < n)
      BY <1>2, <1>3
    <2> QED BY <2>1
  <1> QED BY <1>4

(* One step of MapThenSumSet over the fills g, on a set of cloids. *)
First(s) == CHOOSE c \in s : TRUE
Added(g, f, s) == IF s = {} THEN 0 ELSE g[First(s)] + f[s \ {First(s)}]
Folds(g, f) == f = [s \in SUBSET Cloids |-> Added(g, f, s)]

(* The fold, as the library defines it. *)
LEMMA SumIsFold == ASSUME NEW g PROVE SumOf(g) = (CHOOSE f : Folds(g, f))[Cloids]
  BY DEF SumOf, MapThenSumSet, MapThenFoldSet, Folds, Added, First

(* What is left of a set without its first element is smaller. *)
LEMMA WithoutFirst ==
    ASSUME NEW s \in SUBSET Cloids, s # {}
    PROVE  /\ First(s) \in s /\ s \ {First(s)} \in SUBSET Cloids
           /\ Cardinality(s) \in Nat /\ Cardinality(s \ {First(s)}) = Cardinality(s) - 1
  <1>1. First(s) \in s
    BY DEF First
  <1>2. IsFiniteSet(s)
    BY CloidsFinite, FS_Subset
  <1>3. Cardinality(s) \in Nat /\ Cardinality(s \ {First(s)}) = Cardinality(s) - 1
    BY <1>1, <1>2, FS_RemoveElement, FS_CardinalityType
  <1> QED BY <1>1, <1>3

(* The recursion of the fold is well defined: it can be followed up to any *)
(* size of set, and there are no more cloids than some size.               *)
LEMMA FoldExists ==
    ASSUME NEW g \in [Cloids -> Nat]
    PROVE  \E f \in [SUBSET Cloids -> Nat] : Folds(g, f)
  <1> DEFINE UpTo(f, k) == \A s \in SUBSET Cloids : Cardinality(s) <= k => f[s] = Added(g, f, s)
             Bad == {k \in Nat : ~\E f \in [SUBSET Cloids -> Nat] : UpTo(f, k)}
  <1>1. \A k \in Nat : \E f \in [SUBSET Cloids -> Nat] : UpTo(f, k)
    <2> SUFFICES ASSUME Bad # {} PROVE FALSE
      OBVIOUS
    <2>1. PICK k \in Bad : \A m \in Bad : k <= m
      <3> HIDE DEF Bad
      <3> QED BY Least DEF Bad
    <2>2. k \in Nat /\ ~\E f \in [SUBSET Cloids -> Nat] : UpTo(f, k)
      OBVIOUS
    <2>3. CASE k = 0
      <3> DEFINE z == [s \in SUBSET Cloids |-> 0]
      <3>1. UpTo(z, 0)
        <4> SUFFICES ASSUME NEW s \in SUBSET Cloids, Cardinality(s) <= 0
                     PROVE  z[s] = Added(g, z, s)
          OBVIOUS
        <4>1. s = {}
          BY CloidsFinite, FS_Subset, FS_EmptySet, FS_CardinalityType
        <4> QED BY <4>1 DEF Added
      <3>2. z \in [SUBSET Cloids -> Nat]
        OBVIOUS
      <3> HIDE DEF z, UpTo
      <3> QED BY <2>2, <2>3, <3>1, <3>2
    <2>4. CASE k # 0
      <3>1. k - 1 \in Nat /\ k - 1 \notin Bad
        <4>1. k - 1 \in Nat /\ ~(k <= k - 1)
          BY <2>2, <2>4
        <4> HIDE DEF Bad
        <4> QED BY <2>1, <4>1
      <3>2. PICK f \in [SUBSET Cloids -> Nat] : UpTo(f, k - 1)
        BY <3>1
      <3> DEFINE h == [s \in SUBSET Cloids |-> Added(g, f, s)]
      <3>3. h \in [SUBSET Cloids -> Nat]
        <4>1. ASSUME NEW s \in SUBSET Cloids PROVE Added(g, f, s) \in Nat
          <5>1. s # {} => First(s) \in Cloids /\ s \ {First(s)} \in SUBSET Cloids
            BY WithoutFirst
          <5>2. s # {} => g[First(s)] \in Nat /\ f[s \ {First(s)}] \in Nat
            BY <5>1
          <5> QED BY <5>2 DEF Added
        <4> QED BY <4>1
      <3>4. \A s \in SUBSET Cloids : Cardinality(s) <= k - 1 => h[s] = f[s]
        BY <3>2
      <3>5. UpTo(h, k)
        <4> SUFFICES ASSUME NEW s \in SUBSET Cloids, Cardinality(s) <= k
                     PROVE  h[s] = Added(g, h, s)
          OBVIOUS
        <4>1. CASE s = {}
          BY <4>1 DEF Added
        <4>2. CASE s # {}
          <5>1. /\ s \ {First(s)} \in SUBSET Cloids
                /\ Cardinality(s \ {First(s)}) <= k - 1
            BY <2>2, <4>2, WithoutFirst
          <5>2. h[s \ {First(s)}] = f[s \ {First(s)}]
            BY <3>4, <5>1
          <5>3. h[s] = Added(g, f, s)
            OBVIOUS
          <5> HIDE DEF h
          <5> QED BY <4>2, <5>2, <5>3 DEF Added
        <4> QED BY <4>1, <4>2
      <3> HIDE DEF h, UpTo
      <3> QED BY <2>2, <3>3, <3>5
    <2> QED BY <2>3, <2>4
  <1>2. PICK f \in [SUBSET Cloids -> Nat] : UpTo(f, Cardinality(Cloids))
    <2>1. Cardinality(Cloids) \in Nat
      BY CloidsFinite, FS_CardinalityType
    <2> QED BY <1>1, <2>1
  <1>3. \A s \in SUBSET Cloids : Cardinality(s) <= Cardinality(Cloids)
    BY CloidsFinite, FS_Subset
  <1>4. \A s \in SUBSET Cloids : f[s] = Added(g, f, s)
    BY <1>2, <1>3
  <1>5. f = [s \in SUBSET Cloids |-> Added(g, f, s)]
    BY <1>4
  <1> QED BY <1>5 DEF Folds

(* A smallest set of some kind. *)
LEMMA SmallestSet ==
    ASSUME NEW Odd \in SUBSET SUBSET Cloids, Odd # {}
    PROVE  \E s \in Odd : s # {} => s \ {First(s)} \notin Odd
  <1> DEFINE sizes == {Cardinality(s) : s \in Odd}
  <1>1. \A s \in Odd : Cardinality(s) \in Nat
    BY CloidsFinite, FS_Subset, FS_CardinalityType
  <1>2. sizes \in SUBSET Nat /\ sizes # {}
    BY <1>1
  <1>3. PICK k \in sizes : \A m \in sizes : k <= m
    <2> HIDE DEF sizes
    <2> QED BY <1>2, Least
  <1>4. PICK s \in Odd : k = Cardinality(s)
    OBVIOUS
  <1>5. ASSUME s # {}, s \ {First(s)} \in Odd PROVE FALSE
    <2>1. Cardinality(s) \in Nat /\ Cardinality(s \ {First(s)}) = Cardinality(s) - 1
      BY <1>5, WithoutFirst
    <2>2. Cardinality(s \ {First(s)}) \in sizes
      BY <1>5
    <2> HIDE DEF sizes
    <2> QED BY <1>3, <1>4, <2>1, <2>2
  <1> QED BY <1>5

(* Every fold of natural numbers is one. *)
LEMMA FoldTyped ==
    ASSUME NEW g \in [Cloids -> Nat], NEW f, Folds(g, f)
    PROVE  f \in [SUBSET Cloids -> Nat]
  <1>1. f = [s \in SUBSET Cloids |-> Added(g, f, s)]
    BY DEF Folds
  <1> DEFINE Odd == {s \in SUBSET Cloids : f[s] \notin Nat}
  <1>2. ASSUME Odd # {} PROVE FALSE
    <2>1. PICK s \in Odd : s # {} => s \ {First(s)} \notin Odd
      <3> HIDE DEF Odd
      <3>1. Odd \in SUBSET SUBSET Cloids
        BY DEF Odd
      <3> QED BY <1>2, <3>1, SmallestSet
    <2>2. s \in SUBSET Cloids /\ f[s] \notin Nat
      OBVIOUS
    <2>3. f[s] = Added(g, f, s)
      BY <1>1, <2>2
    <2>4. s # {}
      BY <2>2, <2>3 DEF Added
    <2>5. First(s) \in Cloids /\ s \ {First(s)} \in SUBSET Cloids
      BY <2>2, <2>4, WithoutFirst
    <2>6. g[First(s)] \in Nat /\ f[s \ {First(s)}] \in Nat
      BY <2>1, <2>4, <2>5
    <2> QED BY <2>2, <2>3, <2>4, <2>6 DEF Added
  <1>3. \A s \in SUBSET Cloids : f[s] \in Nat
    BY <1>2
  <1> QED BY <1>1, <1>3

(* Two folds over fills that differ in one cloid differ by that much. *)
LEMMA FoldsDiffer ==
    ASSUME NEW g \in [Cloids -> Nat], NEW d \in Cloids, NEW n \in Nat,
           NEW e \in [Cloids -> Nat], e[d] = n, \A c \in Cloids \ {d} : e[c] = g[c],
           NEW f, NEW h, Folds(g, f), Folds(e, h)
    PROVE  h[Cloids] = f[Cloids] + (n - g[d])
  <1> DEFINE Off(s) == IF d \in s THEN n - g[d] ELSE 0
             Odd == {s \in SUBSET Cloids : h[s] # f[s] + Off(s)}
  <1>1. f \in [SUBSET Cloids -> Nat] /\ h \in [SUBSET Cloids -> Nat] /\ e \in [Cloids -> Nat]
    BY FoldTyped
  <1> SUFFICES ASSUME Odd # {} PROVE FALSE
    OBVIOUS
  <1>2. PICK s \in Odd : s # {} => s \ {First(s)} \notin Odd
    <2>1. Odd \in SUBSET SUBSET Cloids
      OBVIOUS
    <2> HIDE DEF Odd
    <2> QED BY <2>1, SmallestSet
  <1>3. s \in SUBSET Cloids /\ h[s] # f[s] + Off(s)
    OBVIOUS
  <1>4. f[s] = Added(g, f, s) /\ h[s] = Added(e, h, s)
    BY <1>3 DEF Folds
  <1>5. s # {}
    BY <1>3, <1>4 DEF Added
  <1> DEFINE c == First(s)
             t == s \ {First(s)}
  <1>6. c \in s /\ c \in Cloids /\ t \in SUBSET Cloids
    BY <1>3, <1>5, WithoutFirst
  <1>7. h[t] = f[t] + Off(t)
    BY <1>2, <1>5, <1>6
  <1>8. f[s] = g[c] + f[t] /\ h[s] = e[c] + h[t]
    BY <1>4, <1>5 DEF Added
  <1>9. f[t] \in Nat /\ h[t] \in Nat /\ g[c] \in Nat /\ g[d] \in Nat
    BY <1>1, <1>6
  <1>10. CASE c = d
    <2>1. d \in s /\ d \notin t /\ e[c] = n
      BY <1>6, <1>10
    <2> QED BY <1>3, <1>7, <1>8, <1>9, <1>10, <2>1
  <1>11. CASE c # d
    <2>1. (d \in s) = (d \in t) /\ e[c] = g[c]
      BY <1>6, <1>11
    <2> QED BY <1>3, <1>7, <1>8, <1>9, <2>1
  <1> QED BY <1>10, <1>11

(* A fill that grows moves the sum by as much. *)
LEMMA SumMoves ==
    ASSUME NEW g \in [Cloids -> Nat], NEW d \in Cloids, NEW n \in Nat
    PROVE  SumOf([g EXCEPT ![d] = n]) = SumOf(g) + (n - g[d])
  <1> DEFINE e == [g EXCEPT ![d] = n]
             F(q) == CHOOSE f : Folds(q, f)
  <1>1. e \in [Cloids -> Nat] /\ e[d] = n /\ \A c \in Cloids \ {d} : e[c] = g[c]
    OBVIOUS
  <1> HIDE DEF e
  <1>2. Folds(g, F(g)) /\ Folds(e, F(e))
    BY <1>1, FoldExists
  <1>3. SumOf(g) = F(g)[Cloids] /\ SumOf(e) = F(e)[Cloids]
    BY SumIsFold
  <1>4. PICK f, h : f = F(g) /\ h = F(e)
    OBVIOUS
  <1> HIDE DEF F
  <1>5. Folds(g, f) /\ Folds(e, h)
    BY <1>2, <1>4
  <1>6. h[Cloids] = f[Cloids] + (n - g[d])
    BY <1>1, <1>5, FoldsDiffer
  <1> QED BY <1>3, <1>4, <1>6 DEF e

(* The sum of nothing. *)
LEMMA SumOfZeros == SumOf([c \in Cloids |-> 0]) = 0
  <1> DEFINE g == [c \in Cloids |-> 0]
             z == [s \in SUBSET Cloids |-> 0]
             F == CHOOSE f : Folds(g, f)
             Odd == {s \in SUBSET Cloids : F[s] # 0}
  <1>1. g \in [Cloids -> Nat]
    OBVIOUS
  <1>2. Folds(g, F)
    <2> HIDE DEF g
    <2> QED BY <1>1, FoldExists
  <1>3. SumOf(g) = F[Cloids]
    <2> HIDE DEF g
    <2> QED BY SumIsFold
  <1> HIDE DEF F
  <1>4. ASSUME Odd # {} PROVE FALSE
    <2>1. PICK s \in Odd : s # {} => s \ {First(s)} \notin Odd
      <3>1. Odd \in SUBSET SUBSET Cloids
        OBVIOUS
      <3> HIDE DEF Odd
      <3> QED BY <1>4, <3>1, SmallestSet
    <2>2. s \in SUBSET Cloids /\ F[s] # 0 /\ F[s] = Added(g, F, s)
      BY <1>2 DEF Folds
    <2>3. s # {}
      BY <2>2 DEF Added
    <2>4. First(s) \in Cloids /\ s \ {First(s)} \in SUBSET Cloids
      BY <2>2, <2>3, WithoutFirst
    <2>5. F[s \ {First(s)}] = 0 /\ g[First(s)] = 0
      BY <2>1, <2>3, <2>4
    <2> QED BY <2>2, <2>3, <2>5 DEF Added
  <1> QED BY <1>3, <1>4

TotalIsSum == jtotal = SumOf(jfill)

(* A record moves the total by what it moves a cloid's fill. *)
LEMMA StepSums ==
    ASSUME IInv, TotalIsSum, NEW r, r \in Records \/ r = [kind |-> "header"], JournalStep(r)
    PROVE  TotalIsSum'
  <1>1. CASE UNCHANGED <<jfill, jtotal>>
    BY <1>1 DEF TotalIsSum
  <1>2. CASE ~UNCHANGED <<jfill, jtotal>>
    <2>1. r.kind = "terminal" /\ RecordTerminal(r.cloid, r.idx, r.fill)
      BY <1>2 DEF JournalStep, RecordHeader, RecordAbandoned, RecordPrepared, RecordProgress,
                  RecordFinalReport, Refused
    <2>2. r \in Records
      BY <2>1
    <2>3. r.cloid \in Cloids /\ r.fill \in Nat /\ jfill \in [Cloids -> Nat]
      BY <2>1, <2>2, RecordFields DEF IInv, JournalTypeOK
    <2>4. /\ jfill' = [jfill EXCEPT ![r.cloid] = r.fill]
          /\ jtotal' = jtotal + (r.fill - jfill[r.cloid])
      BY <1>2, <2>1 DEF RecordTerminal, Refused
    <2>5. SumOf([jfill EXCEPT ![r.cloid] = r.fill]) = SumOf(jfill) + (r.fill - jfill[r.cloid])
      BY <2>3, SumMoves
    <2> QED BY <2>4, <2>5 DEF TotalIsSum
  <1> QED BY <1>1, <1>2

(* The gauges, the replayed total and the last Terminal records of all     *)
(* cloids agree in every process of a run and after every reattachment     *)
(* (observability.rs: what project adds for a Terminal record, and the     *)
(* metrics restored from the journal).                                     *)
THEOREM MetricsAlwaysMatch == ObserverSpec => []MetricsMatchJournal
  <1>1. Init => TotalIsSum
    BY SumOfZeros DEF Init, JournalInit, TotalIsSum
  <1>2. ASSUME ObsInv, TotalIsSum, [Next]_vars PROVE TotalIsSum'
    <2>1. CASE UNCHANGED jvars
      BY <1>2, <2>1 DEF jvars, TotalIsSum
    <2>2. CASE \E r : (r \in Records \/ r = [kind |-> "header"]) /\ JournalStep(r)
      BY <1>2, <2>2, StepSums DEF ObsInv
    <2> QED BY <1>2, <2>1, <2>2 DEF Next, vars, StartsRun, AttachNew, OpensRun, Reattaches,
              OpensUnobserved, Appends, AppendsUnobserved, AppendsRefused, DiesUnobserved,
              Delivers, Ends, Durable
  <1>3. TotalIsSum /\ GaugesMatchTotal => MetricsMatchJournal
    BY DEF TotalIsSum, SumOf, MetricsMatchJournal
  <1> QED BY <1>1, <1>2, <1>3, ObserverInvariant, GaugesFollowJournal, PTL DEF ObserverSpec
=============================================================================
