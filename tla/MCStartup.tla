------------------------------ MODULE MCStartup -----------------------------
(* Owners, command lines and inherited runs for model checking Startup. *)
EXTENDS Startup

CONSTANT Targets   \* --target-sz values that are asked for, in lots

MCMasterOf == [a \in Agents |-> IF a = "a" THEN "ma" ELSE "mb"]
MCHolding == [a \in Agents |-> IF a = "a" THEN 5 ELSE 0]

Base == [symbol |-> "S", mode |-> "size", lots |-> 20, scale |-> 1, side |-> 1,
         deadline |-> NoValue, slices |-> 2, knobs |-> "k", slippage |-> 20,
         highSlippage |-> FALSE, cap |-> 80, agent |-> "a", master |-> "ma", live |-> TRUE,
         select |-> "new", run |-> 0, endpoint |-> "default", custom |-> FALSE,
         events |-> FALSE, report |-> FALSE, token |-> NoValue]

Flatten == [Base EXCEPT !.mode = "flatten", !.lots = 0, !.side = 0, !.deadline = 0]
Closing(n) == Token(Flatten, PositionPlanTo(0, n, 2), "ma", 0)

Asks ==
    {Base,
     [Base EXCEPT !.mode = "usd", !.lots = 40],
     [Flatten EXCEPT !.token = Closing(5)], [Flatten EXCEPT !.token = Closing(3)]}
    \cup {[Base EXCEPT !.mode = "target_sz", !.lots = n, !.side = 0] : n \in Targets}

Selected ==
    Asks \cup {[c EXCEPT !.select = "abandon"] : c \in {Base}}
    \cup {[c EXCEPT !.select = "resume", !.run = i] : c \in Asks \cup {[Base EXCEPT !.scale = 0]}, i \in {1, 2}}

(* A command line that each early check refuses. *)
Wrong ==
    {[Base EXCEPT !.side = 0], [Base EXCEPT !.cap = NoValue], [Base EXCEPT !.endpoint = "https"],
     [Base EXCEPT !.slippage = 2000], [Base EXCEPT !.deadline = 0], [Base EXCEPT !.mode = NoValue]}

MCCommands ==
    Selected \cup Wrong
    \cup {[Base EXCEPT !.live = FALSE], [Base EXCEPT !.master = "mb"],
          [Base EXCEPT !.agent = "b", !.master = NoValue],
          [Base EXCEPT !.select = "abandon", !.symbol = "T"]}

(* A USD run of an earlier process, as it was left: with an order to be    *)
(* settled or half of it filled; with one stored size changed since; or of *)
(* a version without a fingerprint.                                        *)
Usd == [Base EXCEPT !.mode = "usd", !.lots = 40]
UsdPlan == PlanOf(Usd, 2, 0)
UsdPrint == Fingerprint(Usd, UsdPlan, 2, "ma", 1)

OldRun(print, open, filled) ==
    [run |-> [NoRun EXCEPT !.stage = "header", !.agent = "a", !.symbol = "S", !.side = 1,
                           !.master = "ma", !.deadline = 1, !.print = print,
                           !.open = open, !.filled = filled],
     asked |-> UsdPlan]

Changed(f, field, by) == [f EXCEPT ![field] = Plain(@.lots + by)]

MCHeirlooms ==
    {[run |-> NoRun, asked |-> NoValue], OldRun(NoValue, 0, 0),
     OldRun(UsdPrint, 10, 0), OldRun(UsdPrint, 0, 10)}
    \cup {OldRun(Changed(UsdPrint, field, by), 0, 0) :
            field \in {"total", "per", "adjusted"}, by \in {-2, 1}}
=============================================================================
