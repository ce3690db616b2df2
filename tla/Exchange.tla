------------------------------ MODULE Exchange ------------------------------
(***************************************************************************)
(* The exchange as the program sees it through `HlApi` (src/src/api.rs):   *)
(* `place_order_once`, `cancel_by_cloid`, `fetch_order_status[_by_cloid]`  *)
(* and `fetch_user_fills_by_time`.  The exchange itself is not in the      *)
(* repository; this module is what the program's handlers are written      *)
(* against.                                                                *)
(*                                                                         *)
(*   - A place request may reach the matching engine late, or never, and   *)
(*     whether or not its answer is ever read.                             *)
(*   - An accepted order trades on its own until it is full or cancelled.  *)
(*   - The `/info` index that answers orderStatus may trail the matching   *)
(*     engine: for the first `Lag` answers after a send it may deny an     *)
(*     order that exists, or report an order that is finished as open.     *)
(*   - A request whose `expiresAfter` has passed is refused.               *)
(*                                                                         *)
(* Sizes are whole multiples of 10^-szDecimals, so `round_size` is the     *)
(* identity on them.                                                       *)
(***************************************************************************)
EXTENDS Integers, OrderIds

CONSTANT
    Lag      \* orderStatus answers after a send that may be out of date

ASSUME LagNat == Lag \in Nat

VARIABLES
    wire,      \* [Cloids -> Nat]: place requests still travelling
    asked,     \* [Cloids -> Nat]: size signed into those requests
    book,      \* [Cloids -> {"absent", "live", "done"}]
    quota,     \* [Cloids -> Nat]: size accepted under the cloid
    fill,      \* [Cloids -> Nat]: size traded under the cloid
    lag,       \* [Cloids -> 0..Lag]: answers that may still be out of date
    position,  \* size traded by the run in its direction, over all cloids
    expired    \* the wall clock is past the run's `expiresAfter`

xvars == <<wire, asked, book, quota, fill, lag, position, expired>>

ExchangeTypeOK ==
    /\ wire \in [Cloids -> Nat]
    /\ asked \in [Cloids -> Nat]
    /\ book \in [Cloids -> {"absent", "live", "done"}]
    /\ quota \in [Cloids -> Nat]
    /\ fill \in [Cloids -> Nat]
    /\ lag \in [Cloids -> 0..Lag]
    /\ position \in Nat
    /\ expired \in BOOLEAN

ExchangeInit ==
    /\ wire = [c \in Cloids |-> 0]
    /\ asked = [c \in Cloids |-> 0]
    /\ book = [c \in Cloids |-> "absent"]
    /\ quota = [c \in Cloids |-> 0]
    /\ fill = [c \in Cloids |-> 0]
    /\ lag = [c \in Cloids |-> 0]
    /\ position = 0
    /\ expired = FALSE

-----------------------------------------------------------------------------
(* Steps the exchange takes by itself. *)

(* A request reaches the matching engine in time and is accepted.  A       *)
(* second request under the same cloid opens further size: this is the     *)
(* double placement the resend policy must never cause.                    *)
Accept(c) ==
    /\ wire[c] > 0
    /\ ~expired
    /\ wire' = [wire EXCEPT ![c] = @ - 1]
    /\ book' = [book EXCEPT ![c] = "live"]
    /\ quota' = [quota EXCEPT ![c] = @ + asked[c]]
    /\ UNCHANGED <<asked, fill, lag, position, expired>>

(* A request is lost, rejected, or refused because `expiresAfter` passed. *)
Refuse(c) ==
    /\ wire[c] > 0
    /\ wire' = [wire EXCEPT ![c] = @ - 1]
    /\ UNCHANGED <<asked, book, quota, fill, lag, position, expired>>

(* One unit of a live order trades; the last unit finishes it. *)
Trade(c) ==
    /\ book[c] = "live"
    /\ fill[c] < quota[c]
    /\ fill' = [fill EXCEPT ![c] = @ + 1]
    /\ position' = position + 1
    /\ book' = [book EXCEPT ![c] = IF fill[c] + 1 = quota[c] THEN "done" ELSE "live"]
    /\ UNCHANGED <<wire, asked, quota, lag, expired>>

(* The unfilled part of a live order is dropped: the end of an IOC, or one *)
(* of the cancellations of the orderStatus vocabulary.                     *)
Withdraw(c) ==
    /\ book[c] = "live"
    /\ book' = [book EXCEPT ![c] = "done"]
    /\ UNCHANGED <<wire, asked, quota, fill, lag, position, expired>>

(* The wall clock passes the run's absolute deadline. *)
DeadlinePasses ==
    /\ ~expired
    /\ expired' = TRUE
    /\ UNCHANGED <<wire, asked, book, quota, fill, lag, position>>

ExchangeStep ==
    \/ \E c \in Cloids : Accept(c) \/ Refuse(c) \/ Trade(c) \/ Withdraw(c)
    \/ DeadlinePasses

-----------------------------------------------------------------------------
(* Calls the program makes. *)

(* place_order_once: one signed POST carrying the run's `expiresAfter`. *)
PlaceOrderOnce(c, s) ==
    /\ wire' = [wire EXCEPT ![c] = @ + 1]
    /\ asked' = [asked EXCEPT ![c] = s]
    /\ lag' = [lag EXCEPT ![c] = Lag]
    /\ UNCHANGED <<book, quota, fill, position, expired>>

(* What the answer to a place call can be.  It can always be lost, while   *)
(* the request is still on its way included.                               *)
AnsweredFilled(c)  == wire[c] = 0 /\ book[c] = "done" /\ fill[c] > 0
AnsweredResting(c) == wire[c] = 0 /\ book[c] # "absent"
AnsweredRejected(c) == wire[c] = 0 /\ book[c] = "absent"

(* orderStatus: a terminal answer is the truth; "open" and "unknownOid"    *)
(* may be out of date while `lag` lasts.                                   *)
Index(c) ==
    {"error"}
    \cup (IF book[c] = "done" THEN {"terminal"} ELSE {})
    \cup (IF book[c] = "live" \/ (book[c] = "done" /\ lag[c] > 0) THEN {"open"} ELSE {})
    \cup (IF lag[c] > 0 \/ (book[c] = "absent" /\ wire[c] = 0) THEN {"unknown"} ELSE {})

OrderStatus(c, answer) ==
    /\ answer \in Index(c)
    /\ lag' = [lag EXCEPT ![c] = IF answer \in {"open", "unknown"} /\ @ > 0
                                   THEN @ - 1 ELSE @]
    /\ UNCHANGED <<wire, asked, book, quota, fill, position, expired>>

(* cancelByCloid: confirmed (the order was live, or HL knows no live order *)
(* under the cloid), or the answer is lost with or without taking effect.  *)
CancelByCloid(c, confirmed) ==
    /\ \/ book' = [book EXCEPT ![c] = IF @ = "live" THEN "done" ELSE @]
       \/ ~confirmed /\ UNCHANGED book
    /\ UNCHANGED <<wire, asked, quota, fill, lag, position, expired>>

(* userFillsByTime: a bounded view of the ledger, so it may miss fills but *)
(* never invents one; a total of the whole size is therefore the truth.    *)
LedgerShowsWhole(c, s) == fill[c] = s
=============================================================================
