------------------------- MODULE PositionRunProofs --------------------------
(***************************************************************************)
(* Theorems about PositionRun, for every request, starting position, price *)
(* set, cap and number of slices, with any number of crashes and resumes   *)
(* and another client trading on the account.                              *)
(***************************************************************************)
EXTENDS PositionRun, TLAPS

(* The processes that are inside a phase of the plan. *)
InPhase == {"top", "decide", "commit", "sent", "poll", "phaseEnd", "verifyFlat", "aborted", "verify"}
InOrder == {"commit", "sent", "poll"}
Labels == InPhase \cup {"off", "planned", "reconcile", "replan"}

OrderStates == {"prepared", "wire", "live", "done", "lost"}
Orders == [state : OrderStates, side : {1, -1}, size : Nat, reduceOnly : BOOLEAN,
           px : Nat, bid : Nat, fill : Nat, worth : Nat]
Endpoints == [state : {"frozen"}, initial : Int, target : Int]

(* Every variable is in its domain. *)
PositionTypeOK ==
    /\ req \in Requests /\ pos \in Int /\ external \in [{1, -1} -> Nat]
    /\ expired \in BOOLEAN
    /\ frozen = None \/ (frozen \in Endpoints /\ frozen.initial # frozen.target)
    /\ order = None \/ order \in Orders
    /\ booked \in Nat /\ charged \in Nat /\ own \in Nat /\ spent \in Nat
    /\ above \in Nat
    /\ report \in {"none", "incomplete", "completed"}
    /\ pc \in Labels /\ abort \in BOOLEAN
    /\ k \in Nat /\ filled \in Nat /\ notional \in Nat

Dir == Sign(frozen.target - frozen.initial)
Distance == Magnitude(frozen.target - frozen.initial)
CapPrice == TakerNotionalPrice(order.side, order.px, order.bid)

(* Without a Header nothing has happened; a completed run is over. *)
HeaderOK ==
    /\ frozen = None => /\ pc \in {"off", "planned"} /\ order = None /\ report = "none"
                        /\ booked = 0 /\ charged = 0 /\ own = 0 /\ spent = 0
    /\ pc = "planned" => frozen = None
    /\ report = "completed" => pc = "off" /\ order = None

(* The plan in force leads from where it was made to the frozen target,    *)
(* and it was made between the frozen endpoints.                           *)
PlanOK ==
    /\ pc \in InPhase \cup {"planned"} =>
          /\ plan.current \in Int /\ plan.target \in Int /\ plan.current # plan.target
          /\ plan = PlanFor(plan.current, plan.target)
    /\ pc \in InPhase =>
          /\ plan.target = frozen.target
          /\ IsBetweenFrozenEndpoints(plan.current, frozen.initial, frozen.target)
          /\ ph \in {1, 2}
          /\ ph = 2 => Crosses(plan.phases)
          /\ pc = "verifyFlat" => ph = 1 /\ Crosses(plan.phases)

(* What the phases of the plan still have to trade, this one included. *)
Left == IF ph = 1 THEN Magnitude(plan.target - plan.current) ELSE Magnitude(plan.target)

(* An order fits into what the books leave of the distance, and into the   *)
(* rest of its phase while the loop has it in hand.                        *)
BooksOK ==
    /\ own = booked + (IF order = None THEN 0 ELSE order.fill)
    /\ frozen # None => booked <= Distance
    /\ Unresolved =>
          /\ order.side = Dir
          /\ order.size > 0 /\ booked + order.size <= Distance
          /\ order.fill <= order.size
          /\ order.state \in {"prepared", "wire", "lost"} => order.fill = 0 /\ order.worth = 0
          /\ order.state = "live" => order.fill < order.size
    /\ pc \in InPhase => filled <= PhaseNow.size /\ (booked - filled) + Left <= Distance
    /\ pc \in {"top", "decide", "verify", "replan"} \/ (pc = "phaseEnd" /\ ~abort) => ~Unresolved
    /\ pc \in InOrder =>
          /\ Unresolved /\ order.reduceOnly = PhaseNow.reduceOnly
          /\ filled + order.size <= PhaseNow.size
    /\ pc = "commit" => order.state \in {"prepared", "lost"}

(* What was charged before the open order, and what that order may cost at *)
(* the price it was sized at, is within the cap; only its own surplus over *)
(* that price comes on top.  What was really paid is never more.           *)
CapOK ==
    /\ charged <= Cap + above
    /\ spent <= charged + (IF order = None THEN 0 ELSE order.worth)
    /\ Unresolved => /\ charged + order.size * CapPrice <= Cap
                     /\ order.worth <= order.fill * CapPrice + above
                     /\ order.fill = 0 => order.worth = 0
                     /\ order.side = 1 => above = 0
    /\ pc \in {"top", "decide"} \cup InOrder => notional = charged

Flips == \/ frozen.initial > 0 /\ frozen.target < 0
         \/ frozen.initial < 0 /\ frozen.target > 0
PastFlat == (frozen.initial > 0 => pos <= 0) /\ (frozen.initial < 0 => pos >= 0)

(* While only the run trades, the position is where its trades have put    *)
(* it, and a reversal opens only past flat.                                *)
PositionOK ==
    OnlyTheRunTrades =>
        /\ pc = "planned" => pos = plan.current
        /\ frozen # None => pos = frozen.initial + Dir * own
        /\ report = "completed" => pos = frozen.target
        /\ frozen # None /\ Flips =>
              /\ pc \in InPhase /\ ~PhaseNow.reduceOnly => PastFlat
              /\ Unresolved /\ ~order.reduceOnly => PastFlat

PositionInv == PositionTypeOK /\ HeaderOK /\ PlanOK /\ BooksOK /\ CapOK /\ PositionOK

-----------------------------------------------------------------------------
(* Arithmetic of signed sizes and of the plan. *)

(* Sign and magnitude of a whole number. *)
LEMMA SignFacts ==
    ASSUME NEW x \in Int
    PROVE  /\ Magnitude(x) \in Nat
           /\ x > 0 => Sign(x) = 1 /\ Magnitude(x) = x
           /\ x < 0 => Sign(x) = -1 /\ Magnitude(x) = -x
           /\ x = 0 => Sign(x) = 0 /\ Magnitude(x) = 0
  BY DEF Sign, Magnitude

(* A product grows with its factor. *)
LEMMA TimesMonotone ==
    ASSUME NEW a \in Nat, NEW b \in Nat, NEW c \in Nat, a <= b
    PROVE  a * c <= b * c /\ a * c \in Nat /\ b * c \in Nat
  OBVIOUS

(* Nothing more. *)
LEMMA NothingMore == \A n \in Nat : n = n + 0
  OBVIOUS

(* What fits with something more fits. *)
LEMMA RoomLeft ==
    ASSUME NEW b \in Nat, NEW l \in Nat, NEW d \in Nat, b + l <= d
    PROVE  b <= d /\ (b - 0) + l <= d
  OBVIOUS

(* The target of a request is a whole signed size. *)
LEMMA TargetTyped ==
    ASSUME NEW r \in Requests, NEW mid \in Prices
    PROVE  RequestedTarget(r, mid) \in Int
  <1>1. r.value \in Int /\ mid \in Nat \ {0}
    BY RequestsTyped, PositionBounds
  <1>2. Magnitude(r.value) \in Nat /\ Sign(r.value) \in {-1, 0, 1}
    BY <1>1 DEF Magnitude, Sign
  <1>3. Magnitude(r.value) \div mid \in Int
    BY <1>1, <1>2
  <1>4. TargetUsd(r.value, mid) \in Int
    BY <1>2, <1>3 DEF TargetUsd
  <1> QED BY <1>1, <1>4 DEF RequestedTarget

(* The phases of a plan: together they cover the distance, on one side,    *)
(* and a plan that changes the sign begins reduce-only.                    *)
LEMMA PhaseFacts ==
    ASSUME NEW a \in Int, NEW b \in Int, a # b
    PROVE  LET P == PlanFor(a, b).phases
               flips == (a > 0 /\ b < 0) \/ (a < 0 /\ b > 0)
           IN  /\ P # <<>> /\ (Crosses(P) <=> flips)
               /\ P[1].size \in Nat /\ (flips => P[2].size \in Nat)
               /\ P[1].side = Sign(b - a) /\ P[1].reduceOnly \in BOOLEAN
               /\ P[1].size = (IF flips THEN Magnitude(a) ELSE Magnitude(b - a))
               /\ flips => /\ P[1].reduceOnly
                           /\ P[2].side = Sign(b - a) /\ P[2].reduceOnly = FALSE
                           /\ P[2].size = Magnitude(b)
  <1> DEFINE P == PlanFor(a, b).phases
             flips == (a > 0 /\ b < 0) \/ (a < 0 /\ b > 0)
  <1>1. P = PhasesFor(a, b)
    BY DEF PlanFor
  <1>2. (Sign(a) * Sign(b) = -1) <=> flips
    BY DEF Sign
  <1>3. CASE flips
    <2>1. P = <<Phase("close", -a, TRUE), Phase("open", b, FALSE)>>
      BY <1>1, <1>2, <1>3 DEF PhasesFor
    <2>2. Sign(-a) = Sign(b - a) /\ Sign(b) = Sign(b - a) /\ Magnitude(-a) = Magnitude(a)
      BY <1>3 DEF Sign, Magnitude
    <2>3. Len(P) = 2 /\ P # <<>> /\ P[1] = Phase("close", -a, TRUE) /\ P[2] = Phase("open", b, FALSE)
      BY <2>1
    <2>4. Magnitude(a) \in Nat /\ Magnitude(b) \in Nat
      BY DEF Magnitude
    <2> QED BY <1>3, <2>2, <2>3, <2>4 DEF Phase, Crosses
  <1>4. CASE ~flips
    <2> DEFINE ro == /\ a # 0
                     /\ \/ b = 0
                        \/ Sign(a) = Sign(b) /\ Magnitude(b) < Magnitude(a)
    <2>1. P = <<Phase("adjust", b - a, ro)>>
      BY <1>1, <1>2, <1>4 DEF PhasesFor
    <2>2. Len(P) = 1 /\ P # <<>> /\ P[1] = Phase("adjust", b - a, ro) /\ ro \in BOOLEAN
      BY <2>1
    <2>3. Magnitude(b - a) \in Nat
      BY DEF Magnitude
    <2> QED BY <1>4, <2>2, <2>3 DEF Phase, Crosses
  <1> QED BY <1>3, <1>4

(* What a slice orders is within the rest of its phase. *)
LEMMA SliceFits ==
    ASSUME NEW size \in Nat, NEW i \in Nat, NEW f \in Nat, f <= size
    PROVE  LET s == SliceOrderSize(i, Slices, PerSliceOf(size, Slices), size, f)
           IN  s \in Nat /\ f + s <= size
  <1> DEFINE per == PerSliceOf(size, Slices)
             due == TargetAtSlice(i, Slices, per, size)
  <1>1. Slices \in Nat \ {0}
    BY PositionBounds
  <1>2. per \in Nat /\ per * Slices <= size
    BY <1>1 DEF PerSliceOf
  <1>3. due \in Nat /\ due <= size
    <2>1. CASE i >= Slices
      BY <2>1 DEF TargetAtSlice
    <2>2. CASE ~(i >= Slices)
      <3>1. i <= Slices
        BY <1>1, <2>2
      <3>2. i * per <= Slices * per /\ i * per \in Nat
        BY <1>1, <1>2, <3>1, TimesMonotone
      <3>3. per * i = i * per /\ per * Slices = Slices * per
        BY <1>1, <1>2
      <3>4. due = per * i
        BY <2>2 DEF TargetAtSlice
      <3> HIDE DEF per, due
      <3> QED BY <1>1, <1>2, <3>2, <3>3, <3>4
    <2> QED BY <2>1, <2>2
  <1> HIDE DEF due
  <1>4. SliceOrderSize(i, Slices, per, size, f) = (IF due - f <= 0 THEN 0 ELSE due - f)
    BY DEF SliceOrderSize, due
  <1> QED BY <1>3, <1>4

(* The direction of a frozen run and how far it may trade. *)
LEMMA DirFacts ==
    ASSUME PositionInv, frozen # None
    PROVE  /\ frozen.initial \in Int /\ frozen.target \in Int
           /\ Distance \in Nat /\ Dir \in {1, -1}
           /\ Dir = 1 => frozen.initial < frozen.target /\ frozen.target = frozen.initial + Distance
           /\ Dir = -1 => frozen.initial > frozen.target /\ frozen.target = frozen.initial - Distance
  <1>1. frozen.initial \in Int /\ frozen.target \in Int /\ frozen.initial # frozen.target
    BY DEF PositionInv, PositionTypeOK, Endpoints
  <1> QED BY <1>1 DEF Dir, Distance, Sign, Magnitude

(* An order that is open has all its fields. *)
LEMMA OrderFields ==
    ASSUME PositionInv
    PROVE  /\ Unresolved <=> order \in Orders
           /\ Unresolved <=> order.state # "none"
           /\ Unresolved => /\ frozen # None
                            /\ order.state \in OrderStates /\ order.side \in {1, -1}
                            /\ order.size \in Nat /\ order.fill \in Nat /\ order.worth \in Nat
                            /\ order.px \in Nat /\ order.bid \in Nat /\ CapPrice \in Nat
                            /\ order.reduceOnly \in BOOLEAN
  <1>1. order = None \/ order \in Orders
    BY DEF PositionInv, PositionTypeOK
  <1>2. ASSUME order \in Orders
        PROVE  /\ order.state \in OrderStates /\ order.side \in {1, -1}
               /\ order.size \in Nat /\ order.fill \in Nat /\ order.worth \in Nat
               /\ order.px \in Nat /\ order.bid \in Nat /\ order.reduceOnly \in BOOLEAN
    BY <1>2 DEF Orders
  <1>3. order = None => order.state = "none"
    BY DEF None
  <1>4. Unresolved => CapPrice \in Nat
    BY <1>1, <1>2 DEF CapPrice, TakerNotionalPrice, Unresolved
  <1>5. Unresolved => frozen # None
    BY DEF PositionInv, HeaderOK, Unresolved
  <1> QED BY <1>1, <1>2, <1>3, <1>4, <1>5 DEF Unresolved, OrderStates

(* The phase in hand trades in the direction of the run, and is part of    *)
(* what the plan has left.                                                 *)
LEMMA PhaseNowFacts ==
    ASSUME PositionInv, pc \in InPhase
    PROVE  /\ frozen # None
           /\ PhaseNow.side = Dir /\ PhaseNow.reduceOnly \in BOOLEAN
           /\ PhaseNow.size \in Nat /\ Left \in Nat /\ PhaseNow.size <= Left
  <1> DEFINE a == plan.current
             b == plan.target
             flips == (a > 0 /\ b < 0) \/ (a < 0 /\ b > 0)
  <1>1. frozen # None
    BY DEF PositionInv, HeaderOK, InPhase
  <1>2. /\ a \in Int /\ b \in Int /\ a # b /\ plan = PlanFor(a, b) /\ b = frozen.target
        /\ IsBetweenFrozenEndpoints(a, frozen.initial, frozen.target)
        /\ ph \in {1, 2} /\ (ph = 2 => Crosses(plan.phases))
    BY DEF PositionInv, PlanOK
  <1>3. Sign(b - a) = Dir
    BY <1>1, <1>2, DirFacts DEF Dir, Sign, IsBetweenFrozenEndpoints
  <1> HIDE DEF a, b
  <1>4. /\ Crosses(plan.phases) <=> flips
        /\ plan.phases[1].side = Sign(b - a) /\ plan.phases[1].reduceOnly \in BOOLEAN
        /\ plan.phases[1].size = (IF flips THEN Magnitude(a) ELSE Magnitude(b - a))
        /\ flips => /\ plan.phases[2].side = Sign(b - a) /\ plan.phases[2].reduceOnly = FALSE
                    /\ plan.phases[2].size = Magnitude(b)
    BY <1>2, PhaseFacts
  <1>5. Left = (IF ph = 1 THEN Magnitude(b - a) ELSE Magnitude(b))
    BY DEF Left, a, b
  <1>6. /\ Magnitude(a) \in Nat /\ Magnitude(b) \in Nat /\ Magnitude(b - a) \in Nat
        /\ flips => Magnitude(a) <= Magnitude(b - a)
    BY <1>2 DEF Magnitude
  <1>7. CASE ph = 1
    BY <1>1, <1>3, <1>4, <1>5, <1>6, <1>7 DEF PhaseNow
  <1>8. CASE ph = 2
    <2>1. flips
      BY <1>2, <1>4, <1>8
    <2>2. PhaseNow = plan.phases[2] /\ Left = Magnitude(b)
      BY <1>5, <1>8 DEF PhaseNow
    <2>3. PhaseNow.side = Dir /\ PhaseNow.reduceOnly = FALSE /\ PhaseNow.size = Magnitude(b)
      BY <1>3, <1>4, <2>1, <2>2
    <2>4. PhaseNow.reduceOnly \in BOOLEAN
      BY <2>3
    <2>5. Magnitude(b) <= Magnitude(b)
      BY <1>6
    <2> QED BY <1>1, <1>6, <2>2, <2>3, <2>4, <2>5
  <1> QED BY <1>2, <1>7, <1>8

-----------------------------------------------------------------------------
(* Steps by what they do to the state. *)

(* The process moves on within its phase and takes nothing in hand that it *)
(* did not have.                                                           *)
LEMMA MovesInPhase ==
    ASSUME PositionInv, pc \in InPhase, pc' \in InPhase,
           UNCHANGED <<world, frozen, order, booked, charged, truth, plan, ph, filled, notional>>,
           report' \in {report, "incomplete"}, k' \in Nat, abort' \in BOOLEAN,
           pc' \in {"top", "decide"} => pc \in {"top", "decide"},
           pc' \in InOrder => pc \in InOrder,
           pc' = "commit" => order.state \in {"prepared", "lost"},
           pc' = "verify" \/ (pc' = "phaseEnd" /\ ~abort') => ~Unresolved,
           pc' = "verifyFlat" => ph = 1 /\ Crosses(plan.phases)
    PROVE  PositionInv'
  <1>0. UNCHANGED <<req, pos, external, expired, own, spent, above>>
    BY DEF world, truth
  <1>1. PhaseNow' = PhaseNow /\ Left' = Left /\ Dir' = Dir /\ Distance' = Distance
        /\ Flips' = Flips /\ PastFlat' = PastFlat /\ Unresolved' = Unresolved
        /\ OnlyTheRunTrades' = OnlyTheRunTrades /\ CapPrice' = CapPrice
    BY <1>0 DEF PhaseNow, Left, Dir, Distance, Flips, PastFlat, Unresolved, OnlyTheRunTrades,
                CapPrice
  <1>2. frozen # None /\ report # "completed" /\ pc # "planned" /\ pc' # "planned" /\ pc' # "replan"
        /\ pc' # "off"
    BY DEF PositionInv, HeaderOK, InPhase
  <1>3. PositionTypeOK'
    BY <1>0 DEF PositionInv, PositionTypeOK, Labels
  <1>4. HeaderOK'
    BY <1>0, <1>2 DEF PositionInv, HeaderOK
  <1>5. PlanOK'
    BY DEF PositionInv, PlanOK
  <1>6. BooksOK'
    BY <1>0, <1>1, <1>2 DEF PositionInv, BooksOK
  <1>7. CapOK'
    BY <1>0, <1>1 DEF PositionInv, CapOK, InOrder
  <1>8. PositionOK'
    BY <1>0, <1>1, <1>2 DEF PositionInv, PositionOK
  <1> QED BY <1>3, <1>4, <1>5, <1>6, <1>7, <1>8 DEF PositionInv

(* A process ends, with a report or without one. *)
LEMMA Exits ==
    ASSUME PositionInv, Exit, UNCHANGED <<world, frozen, order, booked, charged, truth>>,
           report' \in {report, "incomplete", "completed"},
           frozen = None => report' = report,
           report' = "completed" => order = None /\ (OnlyTheRunTrades => pos = frozen.target)
    PROVE  PositionInv'
  <1>0. /\ UNCHANGED <<req, pos, external, expired, own, spent, above>>
        /\ pc' = "off" /\ k' = 1 /\ filled' = 0 /\ notional' = 0 /\ abort' = FALSE
    BY DEF world, truth, Exit
  <1>1. Dir' = Dir /\ Distance' = Distance
        /\ Flips' = Flips /\ PastFlat' = PastFlat /\ Unresolved' = Unresolved
        /\ OnlyTheRunTrades' = OnlyTheRunTrades /\ CapPrice' = CapPrice
    BY <1>0 DEF Dir, Distance, Flips, PastFlat, Unresolved, OnlyTheRunTrades, CapPrice
  <1>3. PositionTypeOK'
    BY <1>0 DEF PositionInv, PositionTypeOK, Labels
  <1>4. HeaderOK'
    BY <1>0 DEF PositionInv, HeaderOK
  <1>5. PlanOK'
    BY <1>0 DEF PlanOK, InPhase
  <1>6. BooksOK'
    BY <1>0, <1>1 DEF PositionInv, BooksOK, InPhase, InOrder
  <1>7. CapOK'
    BY <1>0, <1>1 DEF PositionInv, CapOK, InOrder
  <1>8. PositionOK'
    BY <1>0, <1>1 DEF PositionInv, PositionOK, InPhase
  <1> QED BY <1>3, <1>4, <1>5, <1>6, <1>7, <1>8 DEF PositionInv

(* What a settled order is charged covers what it cost, and is covered by  *)
(* what the cap was checked for.                                           *)
LEMMA ChargeBounds ==
    ASSUME PositionInv, Unresolved, NEW priced \in BOOLEAN, NEW cost \in Charges(priced)
    PROVE  cost \in Nat /\ order.worth <= cost /\ cost <= order.size * CapPrice + above
  <1>0. order.worth \in Nat /\ (order.side = 1 => above = 0)
    BY OrderFields DEF PositionInv, CapOK
  <1>1. /\ order.fill <= order.size /\ order.worth <= order.fill * CapPrice + above
        /\ order.fill = 0 => order.worth = 0
        /\ above \in Nat
    BY DEF PositionInv, BooksOK, CapOK, PositionTypeOK
  <1>2. order.fill * CapPrice <= order.size * CapPrice /\ order.fill * CapPrice \in Nat
        /\ order.size * CapPrice \in Nat
    BY <1>1, OrderFields, TimesMonotone
  <1>3. CASE cost = order.worth
    BY <1>1, <1>2, <1>3, OrderFields
  <1>4. CASE cost = order.fill * order.px /\ order.side = 1
    <2>1. CapPrice = order.px
      BY <1>4 DEF CapPrice, TakerNotionalPrice
    <2> QED BY <1>0, <1>1, <1>2, <1>4, <2>1
  <1>5. CASE cost = order.fill * order.px /\ order.fill = 0
    <2>1. cost = 0 /\ order.worth = 0
      BY <1>1, <1>5, OrderFields
    <2> QED BY <1>1, <1>2, <2>1
  <1> QED BY <1>3, <1>4, <1>5 DEF Charges, UnpricedAccepted

(* Closing an order makes the books exact and keeps what was paid within   *)
(* what was charged.                                                       *)
LEMMA ClosedBooks ==
    ASSUME PositionInv, Unresolved, NEW cost \in Nat, order.worth <= cost,
           cost <= order.size * CapPrice + above, Close(cost), UNCHANGED truth
    PROVE  /\ order' = None /\ booked' \in Nat /\ charged' \in Nat
           /\ booked' = booked + order.fill /\ own' = booked' /\ booked' <= Distance
           /\ charged' = charged + cost /\ charged' <= Cap + above' /\ spent' <= charged'
           /\ UNCHANGED <<frozen, report, own, spent, above>>
  <1>1. /\ order' = None /\ booked' = booked + order.fill /\ charged' = charged + cost
        /\ UNCHANGED <<frozen, report, own, spent, above>>
    BY DEF Close, truth
  <1>2. booked \in Nat /\ charged \in Nat /\ own \in Nat /\ spent \in Nat /\ Distance \in Nat
        /\ above \in Nat
    BY OrderFields, DirFacts DEF PositionInv, PositionTypeOK
  <1>3. /\ own = booked + order.fill /\ booked + order.size <= Distance
        /\ order.fill <= order.size
    BY DEF PositionInv, BooksOK, Unresolved
  <1>4. /\ spent <= charged + order.worth /\ charged + order.size * CapPrice <= Cap
    BY DEF PositionInv, CapOK, Unresolved
  <1>5. order.size * CapPrice \in Nat /\ Cap \in Nat
    BY OrderFields, PositionBounds
  <1>6. booked' \in Nat /\ own' = booked' /\ booked' <= Distance
    BY <1>1, <1>2, <1>3, OrderFields
  <1>7. charged' \in Nat /\ charged' <= Cap + above' /\ spent' <= charged'
    BY <1>1, <1>2, <1>4, <1>5, OrderFields
  <1> QED BY <1>1, <1>6, <1>7

(* An order in hand is settled, or closed at nothing: the phase has its    *)
(* fill credited, and goes on or ends.                                     *)
LEMMA ClosesInPhase ==
    ASSUME PositionInv, pc \in InOrder, NEW cost \in Nat, order.worth <= cost,
           cost <= order.size * CapPrice + above, Close(cost),
           UNCHANGED <<world, truth, plan, ph>>,
           filled' = filled + order.fill, k' \in Nat, abort' \in BOOLEAN,
           pc' \in {"phaseEnd", "top"}, notional' \in Nat,
           pc' = "top" => notional' = notional + cost
    PROVE  PositionInv'
  <1>0. UNCHANGED <<req, pos, external, expired>>
    BY DEF world
  <1>1. Unresolved /\ pc \in InPhase
    BY DEF PositionInv, BooksOK, InOrder, InPhase
  <1>2. /\ order' = None /\ booked' \in Nat /\ charged' \in Nat
        /\ booked' = booked + order.fill /\ own' = booked' /\ booked' <= Distance
        /\ charged' = charged + cost /\ charged' <= Cap + above' /\ spent' <= charged'
        /\ UNCHANGED <<frozen, report, own, spent, above>>
    BY <1>1, ClosedBooks
  <1>3. PhaseNow' = PhaseNow /\ Left' = Left /\ Dir' = Dir /\ Distance' = Distance
        /\ Flips' = Flips /\ PastFlat' = PastFlat /\ ~Unresolved'
        /\ OnlyTheRunTrades' = OnlyTheRunTrades
    BY <1>0, <1>2 DEF PhaseNow, Left, Dir, Distance, Flips, PastFlat, Unresolved, OnlyTheRunTrades
  <1>4. filled \in Nat /\ booked \in Nat /\ order.fill \in Nat /\ order.size \in Nat
        /\ own \in Nat /\ spent \in Nat /\ charged \in Nat
    BY <1>1, OrderFields DEF PositionInv, PositionTypeOK
  <1>5. PositionTypeOK'
    BY <1>0, <1>2, <1>4 DEF PositionInv, PositionTypeOK, Labels, InPhase
  <1>6. HeaderOK'
    BY <1>1, <1>2, OrderFields DEF PositionInv, HeaderOK, InOrder
  <1>7. PlanOK'
    BY <1>1, <1>2 DEF PositionInv, PlanOK, InPhase
  <1>8. BooksOK'
    <2>1. filled + order.size <= PhaseNow.size /\ order.fill <= order.size
          /\ PhaseNow.size \in Nat /\ Left \in Nat /\ Distance \in Nat
          /\ (booked - filled) + Left <= Distance
      BY <1>1, PhaseNowFacts, DirFacts DEF PositionInv, BooksOK
    <2>2. filled' <= PhaseNow' .size
      BY <1>3, <1>4, <2>1
    <2>3. (booked' - filled') + Left' <= Distance'
      BY <1>2, <1>3, <1>4, <2>1
    <2>4. own' = booked' + 0
      BY <1>2
    <2> QED BY <1>2, <1>3, <2>2, <2>3, <2>4 DEF BooksOK, InOrder, InPhase
  <1>9. CapOK'
    <2>1. notional = charged
      BY DEF PositionInv, CapOK
    <2>2. spent' <= charged' + 0
      BY <1>2, <1>4
    <2> QED BY <1>2, <1>3, <2>1, <2>2 DEF CapOK, InOrder
  <1>10. PositionOK'
    BY <1>0, <1>1, <1>2, <1>3 DEF PositionInv, PositionOK, InPhase, HeaderOK
  <1> QED BY <1>5, <1>6, <1>7, <1>8, <1>9, <1>10 DEF PositionInv

(* An order that was not received or not sent is closed at nothing. *)
LEMMA ClosesEmpty ==
    ASSUME PositionInv, pc \in InOrder, order.fill = 0, order.worth = 0, Close(0),
           NEW b \in BOOLEAN, Break(b), UNCHANGED <<world, truth>>
    PROVE  PositionInv'
  <1>1. Unresolved
    BY DEF PositionInv, BooksOK
  <1>2. order.worth <= 0 /\ 0 <= order.size * CapPrice + above
    BY <1>1, OrderFields DEF PositionInv, PositionTypeOK
  <1>3. /\ pc' = "phaseEnd" /\ abort' = b /\ UNCHANGED <<plan, ph, k, filled, notional>>
    BY DEF Break
  <1>4. filled' = filled + order.fill /\ k' \in Nat /\ notional' \in Nat
    BY <1>3 DEF PositionInv, PositionTypeOK
  <1> QED BY <1>2, <1>3, <1>4, ClosesInPhase

(* A settled order is closed at what it may be charged. *)
LEMMA Settles ==
    ASSUME PositionInv, pc \in InOrder, NEW cost \in Nat, order.worth <= cost,
           cost <= order.size * CapPrice + above, Settle(cost)
    PROVE  PositionInv'
  <1>1. /\ Close(cost) /\ filled' = filled + order.fill /\ notional' = notional + cost
        /\ pc' \in {"phaseEnd", "top"} /\ k' \in {k, k + 1}
        /\ UNCHANGED <<world, truth, plan, ph, abort>>
    BY DEF Settle
  <1>2. k' \in Nat /\ notional' \in Nat /\ abort' \in BOOLEAN
    BY <1>1 DEF PositionInv, PositionTypeOK
  <1> QED BY <1>1, <1>2, ClosesInPhase

(* The state of the open order changes at the exchange or by a send. *)
LEMMA OrderMoves ==
    ASSUME PositionInv, Unresolved, NEW s \in OrderStates,
           order' = [order EXCEPT !.state = s],
           s \in {"wire", "lost"} => order.fill = 0 /\ order.worth = 0,
           s = "live" => order.fill < order.size, s # "prepared",
           UNCHANGED <<world, frozen, booked, charged, report, truth, local>>,
           pc' = pc \/ (pc = "commit" /\ pc' = "sent"), pc' # "commit"
    PROVE  PositionInv'
  <1>0. UNCHANGED <<req, pos, external, expired, own, spent, above, plan, ph, k, filled, notional, abort>>
    BY DEF world, truth, local
  <1>1. /\ order' \in Orders /\ order'.state = s
        /\ order'.side = order.side /\ order'.size = order.size /\ order'.fill = order.fill
        /\ order'.worth = order.worth /\ order'.px = order.px /\ order'.bid = order.bid
        /\ order'.reduceOnly = order.reduceOnly
    BY OrderFields DEF Orders
  <1>2. Unresolved' /\ order' # None
    BY <1>1 DEF Unresolved, None, OrderStates
  <1>3. PhaseNow' = PhaseNow /\ Left' = Left /\ Dir' = Dir /\ Distance' = Distance
        /\ Flips' = Flips /\ PastFlat' = PastFlat /\ CapPrice' = CapPrice
        /\ OnlyTheRunTrades' = OnlyTheRunTrades
    BY <1>0, <1>1 DEF PhaseNow, Left, Dir, Distance, Flips, PastFlat, CapPrice, OnlyTheRunTrades
  <1>4. PositionTypeOK'
    BY <1>0, <1>1 DEF PositionInv, PositionTypeOK, Labels, InPhase
  <1>5. HeaderOK'
    BY OrderFields DEF PositionInv, HeaderOK, Unresolved
  <1>6. PlanOK'
    BY <1>0 DEF PositionInv, PlanOK, InPhase
  <1>7. BooksOK'
    <2>1. own' = booked' + order'.fill
      BY <1>0, <1>1 DEF PositionInv, BooksOK, Unresolved
    <2>2. /\ order'.side = Dir' /\ order'.size > 0 /\ booked' + order'.size <= Distance'
          /\ order'.fill <= order'.size
          /\ order'.state \in {"prepared", "wire", "lost"} => order'.fill = 0 /\ order'.worth = 0
          /\ order'.state = "live" => order'.fill < order'.size
      BY <1>1, <1>3 DEF PositionInv, BooksOK
    <2>3. pc' \in InOrder => pc \in InOrder
      BY DEF InOrder
    <2>4. pc' \in InPhase => pc \in InPhase
      BY DEF InPhase
    <2> QED BY <1>0, <1>1, <1>2, <1>3, <2>1, <2>2, <2>3, <2>4 DEF PositionInv, BooksOK
  <1>8. CapOK'
    BY <1>0, <1>1, <1>2, <1>3 DEF PositionInv, CapOK, InOrder, Unresolved
  <1>9. PositionOK'
    BY <1>0, <1>1, <1>2, <1>3 DEF PositionInv, PositionOK, InPhase
  <1> QED BY <1>4, <1>5, <1>6, <1>7, <1>8, <1>9 DEF PositionInv

(* A phase starts over exact books, with what the plan has left within     *)
(* what the books leave of the distance.                                   *)
LEMMA StartsPhase ==
    ASSUME PositionInv, ~Unresolved, NEW p, NEW n \in {1, 2}, StartPhase(p, n),
           UNCHANGED <<world, order, booked, charged, report, truth>>,
           frozen' \in Endpoints, frozen'.initial # frozen'.target, report # "completed",
           p.current \in Int, p.target \in Int, p.current # p.target,
           p = PlanFor(p.current, p.target), p.target = frozen'.target,
           IsBetweenFrozenEndpoints(p.current, frozen'.initial, frozen'.target),
           n = 2 => Crosses(p.phases),
           booked + Left' <= Distance',
           OnlyTheRunTrades => pos = frozen'.initial + Dir' * own,
           OnlyTheRunTrades /\ Flips' /\ ~PhaseNow'.reduceOnly => PastFlat',
           PhaseNow'.size \in Nat
    PROVE  PositionInv'
  <1>0. UNCHANGED <<req, pos, external, expired, own, spent, above>>
    BY DEF world, truth
  <1>1. /\ pc' = "top" /\ plan' = p /\ ph' = n /\ k' = 1 /\ filled' = 0 /\ notional' = charged
        /\ abort' = FALSE /\ charged' = charged
    BY DEF StartPhase
  <1>2. ~Unresolved' /\ order' = None /\ order = None /\ frozen' # None
        /\ OnlyTheRunTrades' = OnlyTheRunTrades
    <2>1. frozen'.state = "frozen"
      BY DEF Endpoints
    <2>2. frozen' # None
      BY <2>1 DEF None
    <2> QED BY <1>0, <2>2 DEF Unresolved, OnlyTheRunTrades
  <1>3. PositionTypeOK'
    BY <1>0, <1>1 DEF PositionInv, PositionTypeOK, Labels, InPhase
  <1>4. HeaderOK'
    BY <1>1, <1>2 DEF HeaderOK
  <1>5. PlanOK'
    BY <1>1 DEF PlanOK
  <1>6. BooksOK'
    <2>1. booked \in Nat /\ own = booked + 0 /\ own' = booked' + 0 /\ Distance' \in Nat
          /\ Left' \in Nat
      <3>1. Distance' \in Nat
        BY SignFacts DEF Distance, Endpoints
      <3>2. Left' \in Nat
        BY <1>1, SignFacts DEF Left
      <3> QED BY <1>0, <1>2, <3>1, <3>2 DEF PositionInv, BooksOK, PositionTypeOK
    <2>2. booked' <= Distance' /\ (booked' - filled') + Left' <= Distance'
      <3>1. booked' = booked /\ filled' = 0 /\ booked + Left' <= Distance'
        BY <1>1
      <3>2. booked <= Distance' /\ (booked - 0) + Left' <= Distance'
        BY <2>1, <3>1, RoomLeft
      <3> QED BY <3>1, <3>2
    <2>3. filled' <= PhaseNow'.size
      BY <1>1
    <2> QED BY <1>1, <1>2, <2>1, <2>2, <2>3 DEF BooksOK, InOrder
  <1>7. CapOK'
    BY <1>0, <1>1, <1>2 DEF PositionInv, CapOK, InOrder
  <1>8. PositionOK'
    BY <1>0, <1>1, <1>2 DEF PositionOK
  <1> QED BY <1>3, <1>4, <1>5, <1>6, <1>7, <1>8 DEF PositionInv

-----------------------------------------------------------------------------
(* The actions, group by group. *)

(* The snapshot plans from the position to another one. *)
LEMMA SnapshotKeeps ==
    ASSUME PositionInv, NEW mid \in Prices, Snapshot(mid)
    PROVE  PositionInv'
  <1> DEFINE T == RequestedTarget(req, mid)
  <1>1. T \in Int /\ pos \in Int
    BY TargetTyped DEF PositionInv, PositionTypeOK
  <1>2. /\ pc = "off" /\ frozen = None /\ pc' = "planned" /\ plan' = PlanFor(pos, T)
        /\ plan'.phases # <<>>
        /\ UNCHANGED <<req, pos, external, expired, frozen, order, booked, charged, report,
                       own, spent, above, ph, k, filled, notional, abort>>
    BY DEF Snapshot, world, journal, truth
  <1> HIDE DEF T
  <1>3. pos # T
    BY <1>2 DEF PlanFor, PhasesFor
  <1>4. plan'.current = pos /\ plan'.target = T /\ plan' = PlanFor(plan'.current, plan'.target)
    BY <1>2 DEF PlanFor
  <1>5. order = None /\ order' = None /\ ~Unresolved' /\ CapPrice' = CapPrice
    BY <1>2 DEF PositionInv, HeaderOK, Unresolved, CapPrice
  <1>6. PositionTypeOK'
    BY <1>2 DEF PositionInv, PositionTypeOK, Labels
  <1>7. HeaderOK'
    BY <1>2 DEF PositionInv, HeaderOK
  <1>8. PlanOK'
    BY <1>1, <1>2, <1>3, <1>4 DEF PlanOK, InPhase
  <1>9. BooksOK'
    BY <1>2, <1>5 DEF PositionInv, BooksOK, InPhase, InOrder
  <1>10. CapOK'
    BY <1>2, <1>5 DEF PositionInv, CapOK, InOrder
  <1>11. PositionOK'
    BY <1>2, <1>4, <1>5 DEF PositionInv, PositionOK, InPhase, HeaderOK
  <1> QED BY <1>6, <1>7, <1>8, <1>9, <1>10, <1>11 DEF PositionInv

(* The Header freezes the plan that the snapshot made. *)
LEMMA HeaderKeeps ==
    ASSUME PositionInv, StartJournal
    PROVE  PositionInv'
  <1> DEFINE a == plan.current
             b == plan.target
  <1>1. /\ pc = "planned" /\ StartPhase(plan, 1)
        /\ frozen' = [state |-> "frozen", initial |-> a, target |-> b]
        /\ UNCHANGED <<world, order, booked, charged, report, truth>>
    BY DEF StartJournal
  <1>2. /\ a \in Int /\ b \in Int /\ a # b /\ plan = PlanFor(a, b)
    BY <1>1 DEF PositionInv, PlanOK
  <1>3. /\ frozen = None /\ order = None /\ report = "none" /\ booked = 0 /\ own = 0
    BY <1>1 DEF PositionInv, HeaderOK
  <1>4. /\ frozen'.initial = a /\ frozen'.target = b /\ frozen' \in Endpoints
    BY <1>1, <1>2 DEF Endpoints
  <1>5. IsBetweenFrozenEndpoints(a, a, b)
    BY <1>2 DEF IsBetweenFrozenEndpoints
  <1>6. plan' = plan /\ ph' = 1
    BY <1>1 DEF StartPhase
  <1>7. /\ Left' = Magnitude(b - a) /\ Distance' = Magnitude(b - a)
        /\ Magnitude(b - a) \in Nat
    BY <1>2, <1>4, <1>6, SignFacts DEF Left, Distance
  <1>8. booked + Left' <= Distance'
    BY <1>3, <1>7
  <1>9. OnlyTheRunTrades => pos = frozen'.initial + Dir' * own
    <2>1. Dir' \in Int
      BY <1>2, <1>4 DEF Dir, Sign
    <2>2. OnlyTheRunTrades => pos = a
      BY <1>1 DEF PositionInv, PositionOK
    <2> QED BY <1>2, <1>3, <1>4, <2>1, <2>2
  <1>10. /\ PhaseNow'.size \in Nat
         /\ OnlyTheRunTrades /\ Flips' /\ ~PhaseNow'.reduceOnly => PastFlat'
    <2>1. PhaseNow' = PlanFor(a, b).phases[1]
      BY <1>2, <1>6 DEF PhaseNow
    <2>2. Flips' => PhaseNow'.reduceOnly
      BY <1>2, <1>4, <2>1, PhaseFacts DEF Flips
    <2>3. PhaseNow'.size \in Nat
      BY <1>2, <2>1, PhaseFacts
    <2> QED BY <2>2, <2>3
  <1> QED
    BY <1>1, <1>2, <1>3, <1>4, <1>5, <1>8, <1>9, <1>10, StartsPhase DEF Unresolved

(* The opening phase has the target's size, from flat. *)
LEMMA OpenKeeps ==
    ASSUME PositionInv, OpenFromFlat
    PROVE  PositionInv'
  <1> DEFINE a == plan.current
             b == plan.target
  <1>1. /\ pc = "verifyFlat" /\ StartPhase(plan, 2) /\ ~Unresolved /\ pos = 0
        /\ UNCHANGED <<world, journal, truth>>
    BY DEF OpenFromFlat
  <1>2. pc \in InPhase /\ frozen # None /\ report # "completed"
    BY <1>1 DEF InPhase, PositionInv, HeaderOK
  <1>3. /\ a \in Int /\ b \in Int /\ a # b /\ plan = PlanFor(a, b) /\ b = frozen.target
        /\ IsBetweenFrozenEndpoints(a, frozen.initial, frozen.target)
        /\ ph = 1 /\ Crosses(plan.phases)
    BY <1>1, <1>2 DEF PositionInv, PlanOK
  <1>4. (a > 0 /\ b < 0) \/ (a < 0 /\ b > 0)
    BY <1>3, PhaseFacts
  <1>5. plan' = plan /\ ph' = 2 /\ UNCHANGED <<frozen, order, booked, charged, report>>
    BY <1>1 DEF StartPhase, journal
  <1>6. /\ frozen' \in Endpoints /\ frozen'.initial # frozen'.target
        /\ frozen.initial \in Int /\ frozen.target \in Int
    BY <1>2, <1>5 DEF PositionInv, PositionTypeOK, Endpoints
  <1>7. booked + Left' <= Distance'
    <2>1. /\ Left' = Magnitude(b) /\ Left = Magnitude(b - a) /\ Distance' = Distance
      BY <1>3, <1>5 DEF Left, Distance
    <2>2. PhaseNow.size = Magnitude(a)
      BY <1>3, <1>4, PhaseFacts DEF PhaseNow
    <2>3. filled <= Magnitude(a) /\ (booked - filled) + Magnitude(b - a) <= Distance
      BY <1>2, <2>1, <2>2 DEF PositionInv, BooksOK
    <2>4. Magnitude(b - a) = Magnitude(a) + Magnitude(b)
      BY <1>3, <1>4 DEF Magnitude
    <2>5. /\ Magnitude(a) \in Nat /\ Magnitude(b) \in Nat /\ Distance \in Nat
          /\ booked \in Nat /\ filled \in Nat
      BY <1>2, <1>3, SignFacts, DirFacts DEF PositionInv, PositionTypeOK
    <2> QED BY <2>1, <2>3, <2>4, <2>5
  <1>8. OnlyTheRunTrades => pos = frozen'.initial + Dir' * own
    <2>1. Dir' = Dir
      BY <1>5 DEF Dir
    <2> QED BY <1>2, <1>5, <2>1 DEF PositionInv, PositionOK
  <1>9. PastFlat'
    BY <1>1, <1>5, <1>6 DEF PastFlat, world
  <1>10. PhaseNow'.size \in Nat
    <2>1. PhaseNow' = plan.phases[2]
      BY <1>5 DEF PhaseNow
    <2> QED BY <1>3, <1>4, <2>1, PhaseFacts
  <1> QED
    BY <1>1, <1>2, <1>3, <1>5, <1>6, <1>7, <1>8, <1>9, <1>10, StartsPhase

(* A resume plans for exactly what its books leave of the distance. *)
LEMMA ContinueKeeps ==
    ASSUME PositionInv, NEW mid \in Prices, ResumeContinue(mid)
    PROVE  PositionInv'
  <1> DEFINE b == frozen.target
             p == PlanFor(pos, b)
  <1>1. /\ pc = "replan" /\ pos = Expected /\ StartPhase(p, 1) /\ p.phases # <<>>
        /\ IsBetweenFrozenEndpoints(pos, frozen.initial, frozen.target)
        /\ UNCHANGED <<world, journal, truth>>
    BY DEF ResumeContinue
  <1>2. ~Unresolved /\ frozen # None /\ report # "completed"
    BY <1>1 DEF PositionInv, HeaderOK, BooksOK
  <1>3. pos \in Int /\ booked \in Nat /\ own = booked
    BY <1>2 DEF PositionInv, PositionTypeOK, BooksOK, Unresolved
  <1>4. pos = frozen.initial + Dir * booked
    BY <1>1 DEF Expected, ApplySignedFill, Dir
  <1>5. /\ frozen.initial \in Int /\ b \in Int /\ frozen \in Endpoints /\ frozen.initial # b
    BY <1>2 DEF PositionInv, PositionTypeOK, Endpoints
  <1>6. pos # b
    BY <1>1 DEF PlanFor, PhasesFor
  <1>7. p.current = pos /\ p.target = b
    BY DEF PlanFor
  <1>8. plan' = p /\ ph' = 1 /\ UNCHANGED <<frozen, order, booked, charged, report>>
    BY <1>1 DEF StartPhase, journal
  <1>9. booked + Left' <= Distance'
    <2>1. Left' = Magnitude(b - pos) /\ Distance' = Distance
      BY <1>7, <1>8 DEF Left, Distance
    <2>2. CASE Dir = 1
      <3>1. pos = frozen.initial + booked /\ b = frozen.initial + Distance /\ pos <= b
            /\ Distance \in Nat
        BY <1>1, <1>2, <1>3, <1>4, <1>5, <2>2, DirFacts DEF IsBetweenFrozenEndpoints
      <3>2. Magnitude(b - pos) = b - pos
        BY <1>3, <1>5, <3>1 DEF Magnitude
      <3> QED BY <1>3, <1>5, <2>1, <3>1, <3>2
    <2>3. CASE Dir = -1
      <3>1. pos = frozen.initial - booked /\ b = frozen.initial - Distance /\ b <= pos
            /\ Distance \in Nat
        BY <1>1, <1>2, <1>3, <1>4, <1>5, <2>3, DirFacts DEF IsBetweenFrozenEndpoints
      <3>2. Magnitude(b - pos) = pos - b
        BY <1>3, <1>5, <3>1 DEF Magnitude
      <3> QED BY <1>3, <1>5, <2>1, <3>1, <3>2
    <2> QED BY <1>2, <2>2, <2>3, DirFacts
  <1>10. OnlyTheRunTrades => pos = frozen'.initial + Dir' * own
    <2>1. Dir' = Dir
      BY <1>8 DEF Dir
    <2> QED BY <1>3, <1>4, <1>8, <2>1
  <1>11. PhaseNow' = p.phases[1]
    BY <1>8 DEF PhaseNow
  <1>12. PhaseNow'.size \in Nat
    BY <1>3, <1>5, <1>6, <1>11, PhaseFacts
  <1>13. OnlyTheRunTrades /\ Flips' /\ ~PhaseNow'.reduceOnly => PastFlat'
    <2>1. (pos > 0 /\ b < 0) \/ (pos < 0 /\ b > 0) => PhaseNow'.reduceOnly
      BY <1>3, <1>5, <1>6, <1>11, PhaseFacts
    <2>2. pos' = pos
      BY <1>1 DEF world
    <2> QED BY <1>3, <1>5, <1>8, <2>1, <2>2 DEF Flips, PastFlat
  <1> HIDE DEF p
  <1>14. p = PlanFor(p.current, p.target)
    BY <1>7 DEF p
  <1> QED
    BY <1>1, <1>2, <1>3, <1>5, <1>6, <1>7, <1>8, <1>9, <1>10, <1>12, <1>13, <1>14, StartsPhase

(* The slice loop up to the decision, and the turns that leave it. *)
LEMMA LoopKeeps ==
    ASSUME PositionInv, Quiet,
           LoopEnds \/ GuardPasses \/ GuardStops \/ SliceAborts
             \/ \E px \in Prices : SliceSkipped(px)
    PROVE  PositionInv'
  <1>0. pc \in {"top", "decide"} /\ k \in Nat /\ abort \in BOOLEAN
    BY DEF LoopEnds, GuardPasses, GuardStops, SliceAborts, SliceSkipped, PositionInv, PositionTypeOK
  <1>1. ASSUME NEW b \in BOOLEAN, Break(b)
        PROVE  /\ pc' \in {"top", "decide", "phaseEnd"} /\ UNCHANGED <<plan, ph, filled, notional>>
               /\ k' \in Nat /\ abort' \in BOOLEAN
    BY <1>0, <1>1 DEF Break
  <1>2. ASSUME /\ pc' \in {"top", "decide", "phaseEnd"} /\ UNCHANGED <<plan, ph, filled, notional>>
               /\ k' \in Nat /\ abort' \in BOOLEAN
        PROVE  PositionInv'
    <2>1. UNCHANGED <<world, frozen, order, booked, charged, report, truth>>
      BY DEF Quiet, journal
    <2>2. ~Unresolved
      BY <1>0 DEF PositionInv, BooksOK
    <2> QED BY <1>0, <1>2, <2>1, <2>2, MovesInPhase DEF InPhase, InOrder
  <1>3. CASE GuardPasses
    BY <1>0, <1>2, <1>3 DEF GuardPasses, Goto, local
  <1>4. CASE \E px \in Prices : SliceSkipped(px)
    BY <1>0, <1>2, <1>4 DEF SliceSkipped
  <1>5. CASE LoopEnds \/ GuardStops \/ SliceAborts
    BY <1>1, <1>2, <1>5 DEF LoopEnds, GuardStops, SliceAborts
  <1> QED BY <1>3, <1>4, <1>5

(* The order that a slice prepares. *)
LEMMA PrepareKeeps ==
    ASSUME PositionInv, NEW px \in Prices, NEW bid \in Prices, Prepare(px, bid)
    PROVE  PositionInv'
  <1> DEFINE capPx == TakerNotionalPrice(PhaseNow.side, px, bid)
             s == OrderSize
  <1>1. /\ pc = "decide" /\ pc' = "commit" /\ Decision(px) = "Place"
        /\ notional + s * capPx <= Cap
        /\ order' = [state |-> "prepared", side |-> PhaseNow.side, size |-> s,
                     reduceOnly |-> PhaseNow.reduceOnly, px |-> px,
                     bid |-> bid, fill |-> 0, worth |-> 0]
        /\ UNCHANGED <<world, frozen, booked, charged, report, own, spent, plan, ph, k, filled,
                       notional, abort>>
        /\ above' = 0
    BY DEF Prepare, CheckNotionalCap
  <1>0. UNCHANGED <<req, pos, external, expired, own, spent>>
    BY <1>1 DEF world
  <1>2. pc \in InPhase /\ ~Unresolved /\ order = None
    BY <1>1 DEF InPhase, PositionInv, BooksOK, Unresolved
  <1>3. /\ PhaseNow.side = Dir /\ PhaseNow.reduceOnly \in BOOLEAN /\ PhaseNow.size \in Nat
        /\ PhaseNow.size <= Left /\ Left \in Nat /\ frozen # None
        /\ Dir \in {1, -1} /\ Distance \in Nat
    BY <1>2, PhaseNowFacts, DirFacts
  <1>4. filled <= PhaseNow.size /\ (booked - filled) + Left <= Distance
        /\ filled \in Nat /\ k \in Nat /\ booked \in Nat /\ charged \in Nat /\ own \in Nat
        /\ spent \in Nat
    BY <1>2 DEF PositionInv, BooksOK, PositionTypeOK
  <1>5. s \in Nat /\ filled + s <= PhaseNow.size
    BY <1>3, <1>4, SliceFits DEF OrderSize, PhasePerSlice
  <1>6. s # 0
    BY <1>1 DEF Decision, SliceDecision, OrderSize
  <1>7. px \in Nat /\ bid \in Nat /\ capPx \in Nat
    BY PositionBounds DEF TakerNotionalPrice
  <1> HIDE DEF s, capPx
  <1>8. /\ order'.state = "prepared" /\ order'.side = Dir /\ order'.size = s
        /\ order'.reduceOnly = PhaseNow.reduceOnly /\ order'.px = px /\ order'.bid = bid
        /\ order'.fill = 0 /\ order'.worth = 0
    BY <1>1, <1>3
  <1>9. order' \in Orders
    BY <1>1, <1>3, <1>5, <1>7 DEF Orders, OrderStates
  <1>10. order' # None /\ Unresolved'
    BY <1>8 DEF None, Unresolved
  <1>11. PhaseNow' = PhaseNow /\ Left' = Left /\ Dir' = Dir /\ Distance' = Distance
        /\ Flips' = Flips /\ PastFlat' = PastFlat /\ CapPrice' = capPx
        /\ OnlyTheRunTrades' = OnlyTheRunTrades
    BY <1>0, <1>1, <1>3, <1>8 DEF PhaseNow, Left, Dir, Distance, Flips, PastFlat, CapPrice,
       OnlyTheRunTrades, capPx
  <1>12. PositionTypeOK'
    BY <1>0, <1>1, <1>9 DEF PositionInv, PositionTypeOK, Labels, InPhase
  <1>13. HeaderOK'
    BY <1>1, <1>2, <1>3 DEF PositionInv, HeaderOK
  <1>14. PlanOK'
    BY <1>1, <1>2 DEF PositionInv, PlanOK, InPhase
  <1>15. BooksOK'
    <2>1. booked + s <= Distance
      BY <1>3, <1>4, <1>5
    <2>2. own' = booked' + order'.fill /\ booked' <= Distance'
      BY <1>0, <1>1, <1>2, <1>3, <1>4, <1>8, <1>11 DEF PositionInv, BooksOK
    <2>3. order'.size > 0 /\ order'.fill <= order'.size
      BY <1>5, <1>6, <1>8
    <2> QED BY <1>1, <1>4, <1>5, <1>8, <1>10, <1>11, <2>1, <2>2, <2>3 DEF BooksOK, InPhase
  <1>16. CapOK'
    <2>1. notional = charged /\ spent <= charged + 0
      BY <1>1, <1>2 DEF PositionInv, CapOK
    <2>2. 0 <= 0 * capPx + 0 /\ charged <= Cap + 0
      <3>1. s * capPx \in Nat /\ Cap \in Nat
        BY <1>5, <1>7, PositionBounds
      <3> QED BY <1>1, <1>4, <1>7, <2>1, <3>1
    <2> QED BY <1>0, <1>1, <1>8, <1>10, <1>11, <2>1, <2>2 DEF CapOK, InOrder
  <1>17. PositionOK'
    BY <1>0, <1>1, <1>2, <1>3, <1>8, <1>11 DEF PositionInv, PositionOK, InPhase
  <1> QED BY <1>12, <1>13, <1>14, <1>15, <1>16, <1>17 DEF PositionInv

(* The send and its answers. *)
LEMMA PlaceKeeps ==
    ASSUME PositionInv,
           CommitStops \/ Send \/ AnswerFilled \/ AnswerRejected \/ AnswerLost
             \/ PollTerminal \/ PollAbsent \/ PollFails
    PROVE  PositionInv'
  <1>1. pc \in InOrder
    BY DEF CommitStops, Send, AnswerFilled, AnswerRejected, AnswerLost, PollTerminal, PollAbsent,
           PollFails, InOrder
  <1>2. Unresolved /\ pc \in InPhase /\ k \in Nat /\ abort \in BOOLEAN
    BY <1>1 DEF PositionInv, BooksOK, PositionTypeOK, InOrder, InPhase
  <1>3. order.state \in {"prepared", "wire", "lost"} => order.fill = 0 /\ order.worth = 0
    BY <1>2 DEF PositionInv, BooksOK
  <1>4. pc = "commit" => order.state \in {"prepared", "lost"}
    BY DEF PositionInv, BooksOK
  <1>5. ASSUME UNCHANGED <<world, journal, truth>>, Break(TRUE) PROVE PositionInv'
    <2>1. /\ pc' = "phaseEnd" /\ abort' = TRUE /\ UNCHANGED <<plan, ph, k, filled, notional>>
      BY <1>5 DEF Break
    <2> QED BY <1>2, <1>5, <2>1, MovesInPhase DEF journal, InPhase, InOrder
  <1>6. CASE CommitStops
    <2>0. pc = "commit" /\ UNCHANGED <<world, truth>>
      BY <1>6 DEF CommitStops
    <2>1. CASE UNCHANGED journal /\ Break(TRUE)
      BY <1>5, <2>0, <2>1
    <2>2. CASE Close(0) /\ (Break(TRUE) \/ Break(FALSE))
      BY <1>1, <1>3, <1>4, <2>0, <2>2, ClosesEmpty
    <2> QED BY <1>6, <2>1, <2>2 DEF CommitStops
  <1>7. CASE Send
    <2>1. /\ pc = "commit" /\ pc' = "sent" /\ order' = [order EXCEPT !.state = "wire"]
          /\ UNCHANGED <<world, frozen, booked, charged, report, truth, local>>
      BY <1>7 DEF Send, Goto
    <2> QED BY <1>2, <1>3, <1>4, <2>1, OrderMoves DEF OrderStates
  <1>8. CASE AnswerFilled
    <2>1. order.worth \in Charges(TRUE)
      BY DEF Charges
    <2>2. order.worth \in Nat /\ order.worth <= order.worth /\ order.worth <= order.size * CapPrice + above
      BY <1>2, <2>1, ChargeBounds
    <2> QED BY <1>1, <1>8, <2>2, Settles DEF AnswerFilled
  <1>9. CASE AnswerRejected
    <2>1. order.fill = 0 /\ Close(0) /\ Break(TRUE) /\ UNCHANGED <<world, truth>>
      BY <1>9 DEF AnswerRejected
    <2>2. order.worth = 0
      BY <1>2, <2>1 DEF PositionInv, CapOK
    <2> QED BY <1>1, <2>1, <2>2, ClosesEmpty
  <1>10. CASE AnswerLost
    <2>1. /\ pc = "sent" /\ pc' = "poll" /\ UNCHANGED <<plan, ph, k, filled, notional, abort>>
          /\ UNCHANGED <<world, journal, truth>>
      BY <1>10 DEF AnswerLost, Goto, local
    <2> QED BY <1>1, <1>2, <2>1, MovesInPhase DEF journal, InPhase, InOrder
  <1>11. CASE PollTerminal
    <2>1. PICK priced \in BOOLEAN : \E cost \in Charges(priced) : Settle(cost)
      BY <1>11 DEF PollTerminal
    <2>2. PICK cost \in Charges(priced) : Settle(cost)
      BY <2>1
    <2> QED BY <1>1, <1>2, <2>2, ChargeBounds, Settles
  <1>12. CASE PollAbsent
    <2>0. order.state = "lost"
      BY <1>12 DEF PollAbsent
    <2>1. CASE Close(0) /\ Break(TRUE) /\ UNCHANGED <<world, truth>>
      BY <1>1, <1>3, <2>0, <2>1, ClosesEmpty
    <2>2. CASE ~(Close(0) /\ Break(TRUE) /\ UNCHANGED <<world, truth>>)
      <3>1. /\ pc' = "commit" /\ UNCHANGED <<plan, ph, k, filled, notional, abort>>
            /\ UNCHANGED <<world, journal, truth>>
        BY <1>12, <2>2 DEF PollAbsent
      <3> QED BY <1>1, <1>2, <2>0, <3>1, MovesInPhase DEF journal, InPhase, InOrder
    <2> QED BY <2>1, <2>2
  <1>13. CASE PollFails
    BY <1>5, <1>13 DEF PollFails
  <1> QED BY <1>6, <1>7, <1>8, <1>9, <1>10, <1>11, <1>12, <1>13

(* The report at the end of a phase, and an abort that is promoted. *)
LEMMA PhaseEndKeeps ==
    ASSUME PositionInv, PhaseReported \/ PromoteAbort
    PROVE  PositionInv'
  <1>0. k \in Nat /\ abort \in BOOLEAN
    BY DEF PositionInv, PositionTypeOK
  <1>1. CASE PhaseReported
    <2>1. /\ pc = "phaseEnd" /\ UNCHANGED <<frozen, order, booked, charged>>
          /\ report' \in {report, "incomplete"}
          /\ UNCHANGED <<world, truth, plan, ph, k, filled, notional>>
      BY <1>1 DEF PhaseReported, Report, journal
    <2>2. abort' = abort \/ abort' = TRUE
      BY <1>1 DEF PhaseReported
    <2>3. abort' \in BOOLEAN /\ (~abort' => ~abort)
      BY <1>0, <2>2
    <2>4. ~abort => ~Unresolved
      BY <2>1 DEF PositionInv, BooksOK
    <2>5. /\ pc' \in {"verifyFlat", "aborted", "verify"}
          /\ pc' = "verifyFlat" => ph = 1 /\ Crosses(plan.phases)
          /\ pc' = "verify" => ~abort'
      BY <1>1 DEF PhaseReported
    <2> QED BY <1>0, <2>1, <2>3, <2>4, <2>5, MovesInPhase DEF InPhase, InOrder
  <1>2. CASE PromoteAbort
    <2>1. /\ pc = "aborted" /\ pc' = "verify" /\ ~Unresolved /\ abort' = FALSE
          /\ UNCHANGED <<frozen, order, booked, charged, report>>
          /\ UNCHANGED <<world, truth, plan, ph, k, filled, notional>>
      BY <1>2 DEF PromoteAbort, journal
    <2>2. abort' \in BOOLEAN
      BY <2>1
    <2> QED BY <1>0, <2>1, <2>2, MovesInPhase DEF InPhase, InOrder
  <1> QED BY <1>1, <1>2

(* The ends of a process: only an exact position is reported as completed. *)
LEMMA EndKeeps ==
    ASSUME PositionInv,
           CloseNotFlat \/ AbortReported \/ NotVerified \/ ReconcileFails \/ ResumeMismatch
             \/ ResumeRefused \/ Completed \/ Killed \/ ResumeExpired \/ ResumeAtTarget
    PROVE  PositionInv'
  <1>1. ASSUME pc \notin {"off", "planned"}, Incomplete PROVE PositionInv'
    <2>1. frozen # None
      BY <1>1 DEF PositionInv, HeaderOK
    <2>2. Exit /\ UNCHANGED <<world, frozen, order, booked, charged, truth>>
          /\ (report' = report \/ report' = "incomplete")
      BY <1>1 DEF Incomplete, Report, journal
    <2>3. report # "completed"
      BY <1>1 DEF PositionInv, HeaderOK
    <2> QED BY <2>1, <2>2, <2>3, Exits
  <1>2. CASE \/ CloseNotFlat \/ AbortReported \/ NotVerified \/ ReconcileFails
             \/ ResumeMismatch \/ ResumeRefused
    BY <1>1, <1>2 DEF CloseNotFlat, AbortReported, NotVerified, ReconcileFails, ResumeMismatch,
                      ResumeRefused
  <1>3. CASE Killed
    <2>1. Exit /\ UNCHANGED <<world, frozen, order, booked, charged, truth>> /\ pc # "off"
          /\ (report' = report \/ (pc # "planned" /\ report' = "incomplete"))
      BY <1>3 DEF Killed, Report, journal
    <2>2. (pc # "planned" => frozen # None) /\ report # "completed"
      BY <2>1 DEF PositionInv, HeaderOK
    <2> QED BY <2>1, <2>2, Exits
  <1>4. CASE Completed
    <2>1. /\ pc = "verify" /\ pos = plan.target /\ report' = "completed" /\ Exit
          /\ UNCHANGED <<world, frozen, order, booked, charged, truth>>
      BY <1>4 DEF Completed, Report
    <2>2. frozen # None /\ ~Unresolved
      BY <2>1 DEF PositionInv, HeaderOK, BooksOK
    <2>3. plan.target = frozen.target
      BY <2>1 DEF PositionInv, PlanOK, InPhase
    <2> QED BY <2>1, <2>2, <2>3, Exits DEF Unresolved
  <1>5. CASE ResumeExpired \/ ResumeAtTarget
    <2>1. /\ pc = "replan" /\ Exit /\ UNCHANGED <<world, frozen, order, booked, charged, truth>>
          /\ (report' = "incomplete" \/ report' = "completed")
          /\ report' = "completed" => pos = frozen.target
      BY <1>5 DEF ResumeExpired, ResumeAtTarget, Report
    <2>2. frozen # None /\ ~Unresolved
      BY <2>1 DEF PositionInv, HeaderOK, BooksOK
    <2> QED BY <2>1, <2>2, Exits DEF Unresolved
  <1> QED BY <1>2, <1>3, <1>4, <1>5

(* A resume reconciles the open order before it plans. *)
LEMMA ResumeKeeps ==
    ASSUME PositionInv, StartResume \/ Reconciled \/ ReconcileOrder
    PROVE  PositionInv'
  <1>0. /\ UNCHANGED <<req, pos, external, expired, own, spent, above>>
        /\ UNCHANGED <<plan, ph, k, filled, notional, abort, frozen, report>>
        /\ pc' \in {"reconcile", "replan"} /\ pc \in {"off", "reconcile"}
    BY DEF StartResume, Reconciled, ReconcileOrder, Goto, local, world, journal, truth, Close
  <1>1. frozen # None /\ report # "completed"
    BY DEF StartResume, Reconciled, ReconcileOrder, PositionInv, HeaderOK
  <1>2. Dir' = Dir /\ Distance' = Distance /\ Flips' = Flips /\ PastFlat' = PastFlat
        /\ OnlyTheRunTrades' = OnlyTheRunTrades
    BY <1>0 DEF Dir, Distance, Flips, PastFlat, OnlyTheRunTrades
  <1>3. HeaderOK' /\ PlanOK'
    BY <1>0, <1>1 DEF HeaderOK, PlanOK, InPhase
  <1>4. CASE StartResume \/ Reconciled
    <2>1. UNCHANGED <<order, booked, charged>> /\ (pc' = "replan" => ~Unresolved)
      BY <1>4 DEF StartResume, Reconciled, Goto, journal
    <2>2. Unresolved' = Unresolved /\ CapPrice' = CapPrice
      BY <2>1 DEF Unresolved, CapPrice
    <2>3. PositionTypeOK'
      BY <1>0, <2>1 DEF PositionInv, PositionTypeOK, Labels
    <2>4. BooksOK'
      BY <1>0, <1>2, <2>1, <2>2 DEF PositionInv, BooksOK, InPhase, InOrder
    <2>5. CapOK'
      BY <1>0, <2>1, <2>2 DEF PositionInv, CapOK, InOrder
    <2>6. PositionOK'
      BY <1>0, <1>2, <2>1, <2>2 DEF PositionInv, PositionOK, InPhase
    <2> QED BY <1>3, <2>3, <2>4, <2>5, <2>6 DEF PositionInv
  <1>5. CASE ReconcileOrder
    <2>1. pc = "reconcile" /\ pc' = "reconcile" /\ Unresolved /\ UNCHANGED truth
      BY <1>5 DEF ReconcileOrder
    <2>2. PICK cost \in Nat : Close(cost) /\ order.worth <= cost /\ cost <= order.size * CapPrice + above
      <3>1. CASE order.state \in {"prepared", "lost"} /\ Close(0)
        <4>1. order.worth = 0
          BY <2>1, <3>1 DEF PositionInv, BooksOK
        <4>2. order.worth <= 0 /\ 0 <= order.size * CapPrice + above
          BY <2>1, <4>1, OrderFields DEF PositionInv, PositionTypeOK
        <4> QED BY <3>1, <4>2
      <3>2. CASE \E priced \in BOOLEAN : \E cost \in Charges(priced) : Close(cost)
        <4>1. PICK priced \in BOOLEAN : \E cost \in Charges(priced) : Close(cost)
          BY <3>2
        <4>2. PICK cost \in Charges(priced) : Close(cost)
          BY <4>1
        <4> QED BY <2>1, <4>2, ChargeBounds
      <3> QED BY <1>5, <3>1, <3>2 DEF ReconcileOrder
    <2>3. /\ order' = None /\ booked' \in Nat /\ charged' \in Nat
          /\ own' = booked' /\ booked' <= Distance
          /\ charged' <= Cap + above' /\ spent' <= charged'
      BY <2>1, <2>2, ClosedBooks
    <2>4. ~Unresolved'
      BY <2>3 DEF Unresolved
    <2>5. PositionTypeOK'
      BY <1>0, <2>3 DEF PositionInv, PositionTypeOK, Labels
    <2>6. BooksOK'
      <3>1. booked' \in Nat /\ own' = booked' /\ frozen' = frozen
        BY <1>0, <2>3
      <3>2. own' = booked' + 0
        BY <3>1, NothingMore
      <3> QED BY <1>2, <2>1, <2>3, <2>4, <3>1, <3>2 DEF BooksOK, InPhase, InOrder
    <2>7. CapOK'
      <3>1. spent' <= charged' + 0
        BY <2>3
      <3> QED BY <2>1, <2>3, <2>4, <3>1 DEF CapOK, InOrder
    <2>8. PositionOK'
      BY <1>0, <1>1, <1>2, <2>1, <2>4 DEF PositionInv, PositionOK, InPhase
    <2> QED BY <1>3, <2>5, <2>6, <2>7, <2>8 DEF PositionInv
  <1> QED BY <1>4, <1>5

(* The exchange receives, drops or withdraws the order. *)
LEMMA ExchangeKeeps ==
    ASSUME PositionInv, Withdraw \/ \E state \in {"live", "done", "lost"} : Arrive(state)
    PROVE  PositionInv'
  <1>1. PICK s \in {"live", "done", "lost"} :
            /\ order' = [order EXCEPT !.state = s]
            /\ order.state = "wire" \/ (order.state = "live" /\ s = "done")
            /\ UNCHANGED <<world, frozen, booked, charged, report, truth, pc, local>>
    BY DEF Withdraw, Arrive
  <1>2. Unresolved
    BY <1>1, OrderFields
  <1>3. order.state = "wire" => order.fill = 0 /\ order.worth = 0
    BY <1>2 DEF PositionInv, BooksOK
  <1>4. order.size > 0 /\ pc # "commit"
    BY <1>1, <1>2 DEF PositionInv, BooksOK
  <1>5. s = "live" => order.fill < order.size
    BY <1>1, <1>3, <1>4, <1>2, OrderFields
  <1>6. s \in OrderStates /\ s # "prepared"
    BY DEF OrderStates
  <1> QED BY <1>1, <1>2, <1>3, <1>4, <1>5, <1>6, OrderMoves

(* One unit more costs at most the bound and what it makes beyond it. *)
LEMMA OneMoreUnit ==
    ASSUME NEW f \in Nat, NEW c \in Nat, NEW w \in Nat, NEW p \in Nat, NEW a \in Nat,
           NEW e \in Nat, w <= f * c + a, p <= c + e
    PROVE  w + p <= (f + 1) * c + (a + e)
  <1>1. (f + 1) * c = f * c + c /\ f * c \in Nat
    OBVIOUS
  <1> QED BY <1>1

(* A unit of the order trades: the position moves towards the target, and  *)
(* the trade is covered by the order's size, and by the price its cap was  *)
(* checked at and the surplus over it.                                     *)
LEMMA TradeKeeps ==
    ASSUME PositionInv, NEW price \in Prices, Trade(price)
    PROVE  PositionInv'
  <1> DEFINE s == IF order.fill + 1 = order.size THEN "done" ELSE "live"
  <1>1. /\ order.state = "live" /\ order.fill < order.size
        /\ IF order.side = 1 THEN price <= order.px ELSE order.px <= price
        /\ pos' = pos + order.side /\ own' = own + 1 /\ spent' = spent + price
        /\ above' = above + Excess(price)
        /\ order' = [order EXCEPT !.fill = @ + 1, !.worth = @ + price, !.state = s]
        /\ UNCHANGED <<req, external, expired, frozen, booked, charged, report, pc>>
        /\ UNCHANGED <<plan, ph, k, filled, notional, abort>>
    BY DEF Trade, local
  <1>2. Unresolved /\ order \in Orders /\ order # None /\ frozen # None
    BY <1>1, OrderFields DEF Unresolved
  <1>3. /\ order.side \in {1, -1} /\ order.size \in Nat /\ order.fill \in Nat
        /\ order.worth \in Nat /\ order.px \in Nat /\ order.bid \in Nat /\ CapPrice \in Nat
    BY <1>2, OrderFields
  <1>4. price \in Nat /\ pos \in Int /\ own \in Nat /\ spent \in Nat /\ booked \in Nat
        /\ charged \in Nat /\ above \in Nat
    BY PositionBounds DEF PositionInv, PositionTypeOK
  <1>5. Excess(price) \in Nat /\ price <= CapPrice + Excess(price)
    BY <1>3, <1>4 DEF Excess, CapPrice
  <1>6. s \in OrderStates /\ s \in {"done", "live"}
    BY DEF OrderStates
  <1>7. s = "live" => order.fill + 1 < order.size
    BY <1>1, <1>3
  <1> HIDE DEF s
  <1>8. /\ order'.state = s /\ order'.fill = order.fill + 1 /\ order'.worth = order.worth + price
        /\ order'.side = order.side /\ order'.size = order.size /\ order'.px = order.px
        /\ order'.bid = order.bid /\ order'.reduceOnly = order.reduceOnly
        /\ order' \in Orders
    <2> DEFINE f == order.fill + 1
               w == order.worth + price
    <2>1. f \in Nat /\ w \in Nat
      BY <1>3, <1>4
    <2>2. order' = [order EXCEPT !.fill = f, !.worth = w, !.state = s]
      BY <1>1
    <2> HIDE DEF f, w
    <2>3. /\ order'.state = s /\ order'.fill = f /\ order'.worth = w
          /\ order'.side = order.side /\ order'.size = order.size /\ order'.px = order.px
          /\ order'.bid = order.bid /\ order'.reduceOnly = order.reduceOnly
      BY <1>2, <2>2 DEF Orders
    <2>4. order' \in Orders
      BY <1>2, <1>6, <2>1, <2>2 DEF Orders
    <2> QED BY <2>3, <2>4 DEF f, w
  <1>9. order' # None /\ Unresolved'
    BY <1>6, <1>8 DEF None, Unresolved
  <1>10. PhaseNow' = PhaseNow /\ Left' = Left /\ Dir' = Dir /\ Distance' = Distance
         /\ Flips' = Flips /\ CapPrice' = CapPrice /\ OnlyTheRunTrades' = OnlyTheRunTrades
    BY <1>1, <1>8 DEF PhaseNow, Left, Dir, Distance, Flips, CapPrice, OnlyTheRunTrades
  <1>11. /\ order.side = Dir /\ order.size > 0 /\ booked + order.size <= Distance
         /\ own = booked + order.fill /\ booked <= Distance /\ pc # "commit"
    BY <1>1, <1>2 DEF PositionInv, BooksOK
  <1>12. PositionTypeOK'
    <2>1. pos' \in Int /\ own' \in Nat /\ spent' \in Nat /\ above' \in Nat
      BY <1>1, <1>3, <1>4, <1>5
    <2> QED BY <1>1, <1>8, <2>1 DEF PositionInv, PositionTypeOK
  <1>13. HeaderOK'
    BY <1>1, <1>2 DEF PositionInv, HeaderOK
  <1>14. PlanOK'
    BY <1>1 DEF PositionInv, PlanOK
  <1>15. BooksOK'
    <2>1. own' = booked' + order'.fill
      BY <1>1, <1>3, <1>4, <1>8, <1>11
    <2>2. order'.fill <= order'.size /\ (order'.state = "live" => order'.fill < order'.size)
      BY <1>1, <1>3, <1>7, <1>8
    <2>3. /\ order'.side = Dir' /\ order'.size > 0 /\ booked' + order'.size <= Distance'
          /\ order'.state \notin {"prepared", "wire", "lost"}
      BY <1>1, <1>6, <1>8, <1>10, <1>11
    <2> QED BY <1>1, <1>2, <1>8, <1>9, <1>10, <1>11, <2>1, <2>2, <2>3 DEF PositionInv, BooksOK
  <1>16. CapOK'
    <2>1. /\ order.worth <= order.fill * CapPrice + above /\ spent <= charged + order.worth
          /\ charged + order.size * CapPrice <= Cap /\ charged <= Cap + above
      BY <1>2 DEF PositionInv, CapOK
    <2>2. order'.worth <= order'.fill * CapPrice' + above' /\ order'.fill # 0
      <3>1. order.worth + price <= (order.fill + 1) * CapPrice + (above + Excess(price))
        BY <1>3, <1>4, <1>5, <2>1, OneMoreUnit
      <3> QED BY <1>1, <1>3, <1>8, <1>10, <3>1
    <2>3. spent' <= charged' + order'.worth
      BY <1>1, <1>3, <1>4, <1>8, <2>1
    <2>4. charged' + order'.size * CapPrice' <= Cap
      BY <1>1, <1>8, <1>10, <2>1
    <2>5. charged' <= Cap + above'
      BY <1>1, <1>4, <1>5, <2>1, PositionBounds
    <2>6. order'.side = 1 => above' = 0
      <3> SUFFICES ASSUME order.side = 1 PROVE above' = 0
        BY <1>8
      <3>1. Excess(price) = 0
        BY <1>1, <1>3, <1>4 DEF Excess, TakerNotionalPrice
      <3>2. above = 0
        BY <1>2 DEF PositionInv, CapOK
      <3> QED BY <1>1, <3>1, <3>2
    <2> QED BY <1>1, <1>9, <2>2, <2>3, <2>4, <2>5, <2>6 DEF PositionInv, CapOK
  <1>17. PositionOK'
    <2> SUFFICES ASSUME OnlyTheRunTrades PROVE PositionOK'
      BY <1>10 DEF PositionOK
    <2>1. pc # "planned" /\ report # "completed"
      BY <1>2 DEF PositionInv, HeaderOK
    <2>2. frozen.initial \in Int /\ frozen.target \in Int /\ Dir \in {1, -1}
          /\ (Dir = 1 <=> frozen.initial < frozen.target)
      BY <1>2, DirFacts
    <2>3. pos = frozen.initial + Dir * own
      BY <1>2 DEF PositionInv, PositionOK
    <2>4. pos' = frozen'.initial + Dir' * own'
      <3>1. CASE Dir = 1
        BY <1>1, <1>4, <1>10, <1>11, <2>2, <2>3, <3>1
      <3>2. CASE Dir = -1
        BY <1>1, <1>4, <1>10, <1>11, <2>2, <2>3, <3>2
      <3> QED BY <2>2, <3>1, <3>2
    <2>5. Flips /\ PastFlat => PastFlat'
      BY <1>1, <1>4, <1>11, <2>2 DEF Flips, PastFlat
    <2>6. Flips => /\ pc \in InPhase /\ ~PhaseNow.reduceOnly => PastFlat
                   /\ ~order.reduceOnly => PastFlat
      BY <1>2 DEF PositionInv, PositionOK
    <2> QED BY <1>1, <1>8, <1>10, <2>1, <2>4, <2>5, <2>6 DEF PositionOK
  <1> QED BY <1>12, <1>13, <1>14, <1>15, <1>16, <1>17 DEF PositionInv

(* Another client trades, the deadline passes, or nothing happens. *)
LEMMA WorldKeeps ==
    ASSUME PositionInv,
           DeadlinePasses \/ UNCHANGED vars \/ \E side \in {1, -1} : OtherClientTrades(side)
    PROVE  PositionInv'
  <1>1. /\ UNCHANGED <<req, frozen, order, booked, charged, report, own, spent, above>>
        /\ UNCHANGED <<pc, plan, ph, k, filled, notional, abort>>
    BY DEF DeadlinePasses, OtherClientTrades, vars, world, journal, truth, local
  <1>2. PhaseNow' = PhaseNow /\ Left' = Left /\ Dir' = Dir /\ Distance' = Distance
        /\ Flips' = Flips /\ CapPrice' = CapPrice /\ Unresolved' = Unresolved
    BY <1>1 DEF PhaseNow, Left, Dir, Distance, Flips, CapPrice, Unresolved
  <1>3. HeaderOK' /\ PlanOK'
    BY <1>1 DEF PositionInv, HeaderOK, PlanOK
  <1>4. BooksOK' /\ CapOK'
    BY <1>1, <1>2 DEF PositionInv, BooksOK, CapOK
  <1>5. CASE DeadlinePasses \/ UNCHANGED vars
    <2>1. expired' = TRUE \/ expired' = expired
      BY <1>5 DEF DeadlinePasses, vars, world
    <2>2. pos' = pos /\ external' = external
      BY <1>5 DEF DeadlinePasses, vars, world
    <2>3. expired' \in BOOLEAN
      BY <2>1 DEF PositionInv, PositionTypeOK
    <2>4. PositionTypeOK'
      BY <1>1, <2>2, <2>3 DEF PositionInv, PositionTypeOK
    <2>5. PositionOK'
      BY <1>1, <1>2, <2>2 DEF PositionInv, PositionOK, PastFlat, OnlyTheRunTrades
    <2> QED BY <1>3, <1>4, <2>4, <2>5 DEF PositionInv
  <1>6. CASE \E side \in {1, -1} : OtherClientTrades(side)
    <2>1. PICK side \in {1, -1} : OtherClientTrades(side)
      BY <1>6
    <2>2. /\ external' = [external EXCEPT ![side] = @ + 1] /\ pos' = pos + side
          /\ expired' = expired
      BY <2>1 DEF OtherClientTrades
    <2>3. external \in [{1, -1} -> Nat] /\ pos \in Int
      BY DEF PositionInv, PositionTypeOK
    <2>4. external' \in [{1, -1} -> Nat] /\ pos' \in Int /\ external'[side] # 0
      BY <2>2, <2>3
    <2>5. ~OnlyTheRunTrades'
      BY <2>4 DEF OnlyTheRunTrades
    <2>6. PositionTypeOK'
      BY <1>1, <2>2, <2>4 DEF PositionInv, PositionTypeOK
    <2> QED BY <1>3, <1>4, <2>5, <2>6 DEF PositionInv, PositionOK
  <1> QED BY <1>5, <1>6

-----------------------------------------------------------------------------
(* The invariant and what it gives. *)

(* A new run has no Header, no order and no trade. *)
LEMMA InitPosition == Init => PositionInv
  <1> SUFFICES ASSUME Init PROVE PositionInv
    OBVIOUS
  <1>1. /\ req \in Requests /\ pos \in Int /\ expired = FALSE /\ abort = FALSE
        /\ external = [d \in {1, -1} |-> 0]
        /\ frozen = None /\ order = None /\ booked = 0 /\ charged = 0 /\ report = "none"
        /\ own = 0 /\ spent = 0 /\ above = 0 /\ pc = "off" /\ k = 1 /\ filled = 0 /\ notional = 0
    BY PositionBounds DEF Init
  <1>2. expired \in BOOLEAN /\ abort \in BOOLEAN /\ external \in [{1, -1} -> Nat]
    BY <1>1
  <1>3. PositionTypeOK
    BY <1>1, <1>2 DEF PositionTypeOK, Labels
  <1>4. HeaderOK /\ PlanOK
    BY <1>1 DEF HeaderOK, PlanOK, InPhase
  <1>5. BooksOK
    BY <1>1 DEF BooksOK, Unresolved, InPhase, InOrder
  <1>6. CapOK
    BY <1>1, PositionBounds DEF CapOK, Unresolved, InOrder
  <1>7. PositionOK
    BY <1>1 DEF PositionOK
  <1> QED BY <1>3, <1>4, <1>5, <1>6, <1>7 DEF PositionInv

(* Every step of the run, of the exchange and of others keeps it. *)
LEMMA NextPosition == PositionInv /\ [Next]_vars => PositionInv'
  <1> SUFFICES ASSUME PositionInv, [Next]_vars PROVE PositionInv'
    OBVIOUS
  <1>1. CASE \E mid \in Prices : Snapshot(mid) \/ ResumeContinue(mid)
    BY <1>1, SnapshotKeeps, ContinueKeeps
  <1>2. CASE StartJournal \/ OpenFromFlat
    BY <1>2, HeaderKeeps, OpenKeeps
  <1>3. CASE \/ (LoopEnds \/ GuardPasses \/ GuardStops \/ SliceAborts) /\ Quiet
             \/ \E px \in Prices : SliceSkipped(px) /\ Quiet
    BY <1>3, LoopKeeps
  <1>4. CASE \E px, bid \in Prices : Prepare(px, bid)
    BY <1>4, PrepareKeeps
  <1>5. CASE \/ CommitStops \/ Send \/ AnswerFilled \/ AnswerRejected \/ AnswerLost
             \/ PollTerminal \/ PollAbsent \/ PollFails
    BY <1>5, PlaceKeeps
  <1>6. CASE PhaseReported \/ PromoteAbort
    BY <1>6, PhaseEndKeeps
  <1>7. CASE \/ CloseNotFlat \/ AbortReported \/ NotVerified \/ ReconcileFails \/ ResumeMismatch
             \/ ResumeRefused \/ Completed \/ Killed \/ ResumeExpired \/ ResumeAtTarget
    BY <1>7, EndKeeps
  <1>8. CASE StartResume \/ Reconciled \/ ReconcileOrder
    BY <1>8, ResumeKeeps
  <1>9. CASE Withdraw \/ \E state \in {"live", "done", "lost"} : Arrive(state)
    BY <1>9, ExchangeKeeps
  <1>10. CASE \E price \in Prices : Trade(price)
    BY <1>10, TradeKeeps
  <1>11. CASE DeadlinePasses \/ UNCHANGED vars \/ \E side \in {1, -1} : OtherClientTrades(side)
    BY <1>11, WorldKeeps
  <1> QED
    BY <1>1, <1>2, <1>3, <1>4, <1>5, <1>6, <1>7, <1>8, <1>9, <1>10, <1>11 DEF Next

(* The inductive invariant of a position run, for every behaviour. *)
THEOREM PositionInvariant == Spec => []PositionInv
  BY InitPosition, NextPosition, PTL DEF Spec

(* The run's own trades never exceed the frozen distance, over any number  *)
(* of resumes and whatever other clients trade: each order fits into what  *)
(* the durable fills leave of it.                                          *)
THEOREM OwnTradesBounded == Spec => []OwnWithinFrozen
  <1>1. PositionInv => OwnWithinFrozen
    <2> SUFFICES ASSUME PositionInv, frozen # None PROVE own <= Distance
      BY DEF OwnWithinFrozen, Distance
    <2>1. Distance \in Nat /\ booked \in Nat
      BY DirFacts DEF PositionInv, PositionTypeOK
    <2>2. CASE order = None
      BY <2>1, <2>2 DEF PositionInv, BooksOK
    <2>3. CASE Unresolved
      <3>1. /\ own = booked + order.fill /\ order.fill <= order.size
            /\ booked + order.size <= Distance
        BY <2>3 DEF PositionInv, BooksOK, Unresolved
      <3> QED BY <2>1, <2>3, <3>1, OrderFields
    <2> QED BY <2>2, <2>3 DEF Unresolved
  <1> QED BY <1>1, PositionInvariant, PTL

(* A run reported as completed has nothing open and books that say what it *)
(* traded, and is at its frozen target unless another client traded.       *)
THEOREM CompletionIsExact == Spec => []CompletedIsExact
  <1>1. PositionInv => CompletedIsExact
    <2> SUFFICES ASSUME PositionInv, report = "completed"
                 PROVE  /\ ~Unresolved /\ booked = own
                        /\ OnlyTheRunTrades => pos = frozen.target
      BY DEF CompletedIsExact
    <2>1. ~Unresolved /\ order = None
      BY DEF PositionInv, HeaderOK, Unresolved
    <2>2. booked = own
      BY <2>1 DEF PositionInv, BooksOK, PositionTypeOK
    <2> QED BY <2>1, <2>2 DEF PositionInv, PositionOK
  <1> QED BY <1>1, PositionInvariant, PTL

(* A reversal never opens over what is left of the old exposure, while     *)
(* only the run trades: orders that are not reduce-only exist past flat.   *)
THEOREM OpensPastFlat == Spec => []NothingOpenedOverTheOld
  <1>1. PositionInv => NothingOpenedOverTheOld
    <2> SUFFICES ASSUME PositionInv, Unresolved, ~order.reduceOnly, OnlyTheRunTrades,
                        Sign(frozen.initial) * Sign(frozen.target) = -1
                 PROVE  pos * Sign(frozen.initial) <= 0
      BY DEF NothingOpenedOverTheOld
    <2>1. /\ frozen # None /\ frozen.initial \in Int /\ frozen.target \in Int /\ pos \in Int
      BY OrderFields, DirFacts DEF PositionInv, PositionTypeOK
    <2>2. Flips
      BY <2>1 DEF Flips, Sign
    <2>3. PastFlat
      BY <2>1, <2>2 DEF PositionInv, PositionOK
    <2> QED BY <2>1, <2>2, <2>3 DEF Flips, PastFlat, Sign
  <1> QED BY <1>1, PositionInvariant, PTL

(* The cap bounds what the run really paid, over both phases, every resume *)
(* and every fill that was charged without a price, but for what the sells *)
(* of the one order sent last made above the bid they were sized at.       *)
THEOREM PaidWithinCap == Spec => []CapHolds
  <1>1. PositionInv => CapHolds
    <2> SUFFICES ASSUME PositionInv PROVE spent <= Cap + above
      BY DEF CapHolds
    <2>1. spent \in Nat /\ charged \in Nat /\ Cap \in Nat /\ above \in Nat
      BY PositionBounds DEF PositionInv, PositionTypeOK
    <2>2. CASE order = None
      BY <2>1, <2>2 DEF PositionInv, CapOK
    <2>3. CASE Unresolved
      <3>1. /\ spent <= charged + order.worth /\ charged + order.size * CapPrice <= Cap
            /\ order.worth <= order.fill * CapPrice + above /\ order.fill <= order.size
        BY <2>3 DEF PositionInv, CapOK, BooksOK, Unresolved
      <3>2. order.fill * CapPrice <= order.size * CapPrice
            /\ order.fill * CapPrice \in Nat /\ order.size * CapPrice \in Nat
            /\ order.worth \in Nat
        BY <2>3, <3>1, OrderFields, TimesMonotone
      <3> QED BY <2>1, <3>1, <3>2
    <2> QED BY <2>2, <2>3 DEF Unresolved
  <1> QED BY <1>1, PositionInvariant, PTL
=============================================================================
