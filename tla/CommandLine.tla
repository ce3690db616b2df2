----------------------------- MODULE CommandLine ----------------------------
(***************************************************************************)
(* What one invocation asks for, and how a later one is recognised as the  *)
(* same request (src/src/main.rs, src/src/risk.rs, src/src/position.rs,    *)
(* src/src/journal.rs).  Pure.                                             *)
(*                                                                         *)
(* A decimal is a number of lots (tenths of a coin or a dollar: szDecimals *)
(* is 1) with the scale it is spelled in, as rust_decimal keeps it: 1.0 is *)
(* 10 lots at scale 1, and 1 is 10 lots at scale 0.                        *)
(***************************************************************************)
EXTENDS PositionPlan, SlicePlan

CONSTANT NoValue   \* an option that is not given, a field that is null

ScaleOf(lots) == IF lots % 10 = 0 THEN 0 ELSE 1
Spelled(lots, scale) == [lots |-> lots, scale |-> scale]

(* Fault: the scale of the input is kept. *)
CanonicalAsGiven(d) == d

(* canonical_decimal: the shortest spelling. *)
Canonical(d) == Spelled(d.lots, ScaleOf(d.lots))

(* A difference has the larger scale of the two, and is not normalised. *)
Minus(a, b) == Spelled(a.lots - b.lots, IF a.scale > b.scale THEN a.scale ELSE b.scale)
Plain(lots) == Canonical(Spelled(lots, 0))

-----------------------------------------------------------------------------
(* The options of an invocation. *)

OptionNames ==
    {"symbol", "mode", "lots", "scale", "side", "deadline", "slices", "knobs", "slippage",
     "highSlippage", "cap", "agent", "master", "live", "select", "run", "endpoint", "custom",
     "events", "report", "token"}

PositionModes == {"flatten", "target_sz", "target_usd"}
OrdinaryModes == {"size", "usd"}

(* The request: at most one sizing mode, by clap's conflicts. *)
RequestOptions(c) ==
    /\ c.symbol \in STRING /\ c.mode \in PositionModes \cup OrdinaryModes \cup {NoValue}
    /\ c.lots \in Int /\ c.scale \in 0..1 /\ c.side \in {-1, 0, 1}
    /\ c.deadline \in {NoValue} \cup Nat

(* What shapes its execution: "knobs" stands for the durations, retries    *)
(* and follow parameters, which are only checked and compared.             *)
ExecutionOptions(c) ==
    /\ c.slices \in Nat /\ c.knobs \in STRING
    /\ c.slippage \in Int /\ c.highSlippage \in BOOLEAN
    /\ c.cap \in {NoValue} \cup Int

(* Which run it is about, and under what account and endpoint. *)
RunOptions(c) ==
    /\ c.agent \in STRING /\ (c.master # NoValue => c.master \in STRING)
    /\ c.live \in BOOLEAN
    /\ c.select \in {"new", "resume", "abandon"} /\ c.run \in Nat
    /\ c.endpoint \in STRING /\ c.custom \in BOOLEAN
    /\ c.events \in BOOLEAN /\ c.report \in BOOLEAN

PositionMode(c) == c.mode \in PositionModes
Value(c) == Canonical(Spelled(c.lots, c.scale))

RequestedValue(c) == IF c.mode = "flatten" THEN NoValue ELSE Value(c)

(* validate_slippage: never negative, never the whole price, and more than *)
(* a tenth of it only on request.                                          *)
SlippageAllowed(c) ==
    /\ c.slippage >= 0 /\ c.slippage < 10000
    /\ c.slippage > 1000 => c.highSlippage

(* validate_max_notional_required. *)
CapGiven(c) == IF c.cap = NoValue THEN ~c.live ELSE c.cap > 0

(* validate_endpoint_override and validate_official_endpoint_network, on   *)
(* the kinds of URL they tell apart.                                       *)
EndpointAllowed(c) ==
    \/ c.endpoint = "default"
    \/ c.custom /\ c.endpoint \in {"https", "loopback"}

(* Cli::validate and the checks of run_with_cli before any state is read. *)
Accepted(c) ==
    /\ ~(c.live /\ c.events) /\ ~(~c.live /\ c.report)
    /\ c.mode # NoValue
    /\ IF PositionMode(c) THEN c.side = 0 ELSE c.side # 0 /\ c.lots > 0
    /\ c.slices > 0 /\ c.knobs # "zero"
    /\ c.deadline # NoValue => c.mode = "flatten"
    /\ SlippageAllowed(c) /\ CapGiven(c)
    /\ c.live /\ c.select # "new" => c.master # NoValue
    /\ c.live => EndpointAllowed(c)

-----------------------------------------------------------------------------
(* From a request to a plan. *)

UsdToCoin(lots, mid) == lots \div mid

TargetOf(c, mid) ==
    RequestedTarget([mode |-> IF c.mode = "target_sz" THEN "size" ELSE c.mode,
                     value |-> c.lots], mid)

(* execution_sizing: equal slices that drop the rest; the exact delta for  *)
(* a position.                                                             *)
Sizing(total, slices, exact) ==
    [total |-> total, per |-> PerSliceOf(total, slices),
     adjusted |-> IF exact THEN total ELSE TotalAdjusted(total, slices)]

PositionPlanTo(target, position, slices) ==
    LET phases == PhasesFor(position, target) IN
    [side |-> IF phases = <<>> THEN 0 ELSE phases[1].side,
     sizing |-> Sizing(IF phases = <<>> THEN 0 ELSE phases[1].size, slices, TRUE),
     initial |-> position, target |-> target, phases |-> phases]

PlanOf(c, mid, position) ==
    IF PositionMode(c) THEN PositionPlanTo(TargetOf(c, mid), position, c.slices)
    ELSE [side |-> c.side,
          sizing |-> Sizing(IF c.mode = "size" THEN c.lots ELSE UsdToCoin(c.lots, mid),
                            c.slices, FALSE),
          initial |-> 0, target |-> 0, phases |-> <<>>]

(* The whole of what a plan trades; both phases of a reversal. *)
LogicalTotal(plan) ==
    IF plan.phases = <<>> THEN plan.sizing.adjusted ELSE Magnitude(plan.target - plan.initial)

(* The same request, whatever run it names and however it is spelled. *)
SameRequest(c, d) ==
    [c EXCEPT !.scale = d.scale, !.select = d.select, !.run = d.run, !.master = d.master,
              !.token = d.token] = d

(* The cap on the whole of it, before anything is sent. *)
PreflightNotional(c, plan, mid) ==
    IF c.mode = "usd" THEN c.lots
    ELSE IF c.mode = "size" THEN plan.sizing.total * mid
    ELSE LogicalTotal(plan) * mid

-----------------------------------------------------------------------------
(* The fingerprint in a Header. *)

Decimals == [lots : Int, scale : 0..1]

(* ExecutionPlanFingerprint. *)
Prints ==
    [mode : PositionModes \cup OrdinaryModes, value : {NoValue} \cup Decimals,
     agent : STRING, master : STRING, symbol : STRING, side : {-1, 0, 1},
     slices : Nat, knobs : STRING, slippage : Int, cap : {NoValue} \cup Int, deadline : Nat,
     total : Decimals, per : Decimals, adjusted : Decimals,
     initial : {NoValue} \cup Decimals, target : {NoValue} \cup Decimals,
     ref : {NoValue} \cup Nat,
     phases : Seq([kind : {"adjust", "close", "open"}, side : {-1, 0, 1}, size : Decimals,
                   reduceOnly : BOOLEAN])]

PhasePrint(phase) == [phase EXCEPT !.size = Plain(phase.size)]

Signed(c, plan, field) == IF PositionMode(c) THEN Plain(plan[field]) ELSE NoValue

(* execution_fingerprint. *)
Fingerprint(c, plan, mid, master, deadline) ==
    [mode |-> c.mode, value |-> RequestedValue(c),
     agent |-> c.agent, master |-> master, symbol |-> c.symbol, side |-> plan.side,
     slices |-> c.slices, knobs |-> c.knobs, slippage |-> c.slippage, cap |-> c.cap,
     deadline |-> deadline,
     total |-> Plain(plan.sizing.total), per |-> Plain(plan.sizing.per),
     adjusted |-> Plain(plan.sizing.adjusted),
     initial |-> Signed(c, plan, "initial"), target |-> Signed(c, plan, "target"),
     ref |-> IF c.mode = "target_usd" THEN mid ELSE NoValue,
     phases |-> [i \in DOMAIN plan.phases |-> PhasePrint(plan.phases[i])]]

(* What replay demands of the phases: those of the frozen endpoints, their *)
(* sizes spelled as the difference comes out.                              *)
PhasesConsistent(f) ==
    LET expected == PhasesFor(f.initial.lots, f.target.lots) IN
    /\ Len(f.phases) = Len(expected)
    /\ \A i \in DOMAIN expected :
        /\ f.phases[i] = [expected[i] EXCEPT !.size = f.phases[i].size]
        /\ f.phases[i].size =
             IF Crosses(expected) THEN Plain(expected[i].size)
             ELSE [Minus(f.target, f.initial) EXCEPT !.lots = Magnitude(@)]

(* An ordinary run: whole slices, and nothing of a position. *)
OrdinaryReplays(f) ==
    /\ f.per.lots * f.slices = f.adjusted.lots
    /\ f.value.lots > 0
    /\ f.mode = "size" => f.value = f.total
    /\ f.initial = NoValue /\ f.target = NoValue /\ f.ref = NoValue /\ f.phases = <<>>

(* A position run: what its mode has to have, and no more. *)
PositionReplays(f) ==
    /\ f.initial # NoValue /\ f.target # NoValue
    /\ f.mode = "flatten" => f.target.lots = 0
    /\ (f.value = NoValue) = (f.mode = "flatten")
    /\ (f.ref # NoValue) = (f.mode = "target_usd")
    /\ f.ref # NoValue => f.ref > 0
    /\ PhasesConsistent(f)
    /\ f.phases # <<>> => f.side = f.phases[1].side

(* validate_current_fingerprint: what replay demands of a Header.  A run   *)
(* without a fingerprint, of an older version, is accepted as it is.       *)
HeaderReplays(f) ==
    f # NoValue =>
       /\ f.slices > 0 /\ f.side \in {-1, 1} /\ f.cap > 0
       /\ f.slippage >= 0 /\ f.slippage < 10000
       /\ f.per.lots > 0 /\ f.adjusted.lots > 0 /\ f.total.lots > 0
       /\ f.adjusted.lots <= f.total.lots /\ f.per.lots <= f.adjusted.lots
       /\ IF f.mode \in OrdinaryModes THEN OrdinaryReplays(f) ELSE PositionReplays(f)

(* validate_fingerprint_sizing: the tuple is what the total gives. *)
SizingConsistent(f, total, exact) ==
    LET s == Sizing(total, f.slices, exact) IN
    f.total = Plain(s.total) /\ f.per = Plain(s.per) /\ f.adjusted = Plain(s.adjusted)

(* The frozen plan, rebuilt from the stored position and price. *)
Rebuilt(c, f) == PlanOf(c, IF f.ref = NoValue THEN 1 ELSE f.ref, f.initial.lots)

(* validate_resume_execution_fingerprint. *)
MayResume(c, f, master) ==
    /\ f # NoValue
    /\ f.mode = c.mode
    /\ f.value = RequestedValue(c)
    /\ f.agent = c.agent /\ f.master = master
    /\ f.slices = c.slices /\ f.knobs = c.knobs /\ f.slippage = c.slippage /\ f.cap = c.cap
    /\ c.deadline # NoValue => c.deadline = f.deadline
    /\ IF PositionMode(c)
       THEN LET plan == Rebuilt(c, f) IN
            /\ Plain(plan.target) = f.target /\ plan.phases # <<>>
            /\ f.phases = [i \in DOMAIN plan.phases |-> PhasePrint(plan.phases[i])]
            /\ plan.side = f.side
            /\ SizingConsistent(f, plan.phases[1].size, TRUE)
       ELSE SizingConsistent(f, IF c.mode = "size" THEN f.value.lots ELSE f.total.lots, FALSE)

(* The plan a resumed process continues: the stored sizes, whatever the    *)
(* price is now.                                                           *)
Resumed(c, f) ==
    IF PositionMode(c) THEN Rebuilt(c, f)
    ELSE [side |-> c.side,
          sizing |-> [total |-> f.total.lots, per |-> f.per.lots, adjusted |-> f.adjusted.lots],
          initial |-> 0, target |-> 0, phases |-> <<>>]

(* FlattenConfirmation::token: a digest of all that matters to a close. *)
Token(c, plan, master, deadline) ==
    <<master, c.symbol, plan.initial, plan.phases[1].side, plan.phases[1].size, c.cap, c.knobs,
      deadline>>
=============================================================================
