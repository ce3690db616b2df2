----------------------------- MODULE SignedCalls ----------------------------
(***************************************************************************)
(* The calls of HlClient (src/src/client.rs) on top of the nonces of       *)
(* NonceHwm: one `/exchange` request is signed with a fresh nonce and sent *)
(* exactly once, an `/info` read is repeated after a transport failure,    *)
(* and whatever comes back is reduced to what the callers may conclude.    *)
(*                                                                         *)
(* A request is the n-th one signed, by whatever process.  The exchange    *)
(* executes a nonce once.  An answer may be lost, or come from a gateway   *)
(* that does not know what became of the request; an orderStatus answer    *)
(* may be about another order than the one asked for.                      *)
(***************************************************************************)
EXTENDS NonceHwm

CONSTANTS
    MaxRequests,  \* bound: requests signed over all processes
    Backoffs      \* RETRY_BACKOFF: how often a read is repeated

ASSUME CallBounds == MaxRequests \in Nat \ {0} /\ Backoffs \in Nat

VARIABLES
    sent,     \* requests signed so far
    nonceOf,  \* [Requests -> nonce signed into it, or 0]
    copies,   \* [Requests -> copies still travelling]
    fate,     \* [Requests -> "none", "live" or "done": the order it made]
    filled,   \* [Requests -> what that order traded]
    reply,    \* [Requests -> the exchange's answer to the last copy, or "none"]
    seen,     \* nonces the exchange has executed
    call,     \* [Procs -> the call under way]
    verdict   \* [Procs -> the last conclusion, of which request]

cvars == <<sent, nonceOf, copies, fate, filled, reply, seen, call, verdict>>
allVars == <<vars, cvars>>

Requests == 1..MaxRequests
Idle == [kind |-> "idle", of |-> 0, attempt |-> 0]
NoVerdict == [kind |-> "idle", of |-> 0, says |-> "nothing", filled |-> 0]

CallInit ==
    /\ Init
    /\ sent = 0
    /\ nonceOf = [n \in Requests |-> 0] /\ copies = [n \in Requests |-> 0]
    /\ fate = [n \in Requests |-> "none"] /\ filled = [n \in Requests |-> 0]
    /\ reply = [n \in Requests |-> "none"]
    /\ seen = {}
    /\ call = [p \in Procs |-> Idle] /\ verdict = [p \in Procs |-> NoVerdict]

-----------------------------------------------------------------------------
(* What an answer is reduced to. *)

(* post_once: HlError::Network leaves open what happened; any other status *)
(* that is not a success says the request itself is wrong.                 *)
PostOnce(http) ==
    CASE http = "2xx" -> "ok"
      [] http \in {"error", "5xx", "429"} -> "network"
      [] http = "4xx" -> "exchange"

(* parse_place_response: exactly one status, of a known form; an error at  *)
(* the top or in the status is a rejection.                                *)
ParseExchange(body) ==
    CASE body \in {"filled", "resting"} -> "accepted"
      [] body \in {"err", "order_error"} -> "exchange"
      [] body = "other" -> "invalid"

(* OrderStatusFill::cross_check: market and side must be the ones asked    *)
(* about, and the cloid too where the answer carries one.                  *)
CrossCheck(answer, n) ==
    answer.market = "mine" /\ (answer.cloid # 0 => answer.cloid = n)

(* is_terminal: of the statuses an order can have, those that end it. *)
IsTerminal(status) == status \in {"filled", "canceled"}

(* parse_order_status: "unknownOid" is an answer of its own. *)
ParseStatus(answer, n) ==
    IF answer.status = "unknownOid" THEN "unknown"
    ELSE IF answer.status = "malformed" \/ ~CrossCheck(answer, n) THEN "invalid"
    ELSE IF IsTerminal(answer.status) THEN "settled" ELSE "open"

Concludes(p, says, amount) ==
    /\ verdict' = [verdict EXCEPT ![p] =
                     [kind |-> call[p].kind, of |-> call[p].of, says |-> says, filled |-> amount]]
    /\ call' = [call EXCEPT ![p] = Idle]

-----------------------------------------------------------------------------
(* /exchange. *)

(* The nonce steps of NonceHwm.  post_exchange_once takes its nonce first. *)
NonceStep(p) ==
    /\ \/ Acquire(p) \/ Advance(p) \/ AdvanceFails(p)
       \/ \E now \in Times :
             Seed(p, now) \/ (call[p] = Idle /\ sent < MaxRequests /\ Mint(p, now))
    /\ UNCHANGED cvars

(* Signed, and on its way. *)
Posts(p) ==
    /\ Sign(p) /\ used' = used \cup {last[p]} /\ twice' = twice \cup (used \cap {last[p]})
    /\ sent < MaxRequests
    /\ sent' = sent + 1
    /\ nonceOf' = [nonceOf EXCEPT ![sent + 1] = last[p]]
    /\ copies' = [copies EXCEPT ![sent + 1] = 1]
    /\ call' = [call EXCEPT ![p] = [kind |-> "exchange", of |-> sent + 1, attempt |-> 0]]
    /\ UNCHANGED <<fate, filled, reply, seen, verdict>>

(* No signature: nothing is sent, and the nonce is spent. *)
SignerFails(p) ==
    /\ Sign(p) /\ UNCHANGED <<used, twice>>
    /\ UNCHANGED cvars

(* Failures of one POST.  A 4xx is the exchange refusing the request, as it *)
(* does with "err"; the others may come from anything in between.          *)
HttpFailures(n) == {"error", "5xx", "429"} \cup (IF reply[n] = "err" THEN {"4xx"} ELSE {})

(* Fault: a write is repeated like a read. *)
WriteRepeated(p) ==
    /\ call[p].kind = "exchange"
    /\ \E http \in HttpFailures(call[p].of) :
          IF PostOnce(http) = "network" /\ call[p].attempt < Backoffs
          THEN /\ copies' = [copies EXCEPT ![call[p].of] = @ + 1]
               /\ reply' = [reply EXCEPT ![call[p].of] = "none"]
               /\ call' = [call EXCEPT ![p].attempt = @ + 1]
               /\ UNCHANGED verdict
          ELSE Concludes(p, PostOnce(http), 0) /\ UNCHANGED <<copies, reply>>
    /\ UNCHANGED <<vars, sent, nonceOf, fate, filled, seen>>

(* No success to read.  Whether the outcome is a rejection or unknown, the *)
(* request is never sent again.                                            *)
WriteFails(p) ==
    /\ call[p].kind = "exchange"
    /\ \E http \in HttpFailures(call[p].of) : Concludes(p, PostOnce(http), 0)
    /\ UNCHANGED <<vars, sent, nonceOf, copies, fate, filled, reply, seen>>

(* The exchange's own answer is read, whole or garbled. *)
WriteAnswered(p, body) ==
    /\ call[p].kind = "exchange"
    /\ reply[call[p].of] # "none" /\ body \in {reply[call[p].of], "other"}
    /\ Concludes(p, ParseExchange(body), 0)
    /\ UNCHANGED <<vars, sent, nonceOf, copies, fate, filled, reply, seen>>

-----------------------------------------------------------------------------
(* /info orderStatus, by the cloid of a request signed earlier. *)

AskStatus(p, n) ==
    /\ pc[p] = "ready" /\ call[p] = Idle /\ n <= sent
    /\ call' = [call EXCEPT ![p] = [kind |-> "info", of |-> n, attempt |-> 0]]
    /\ UNCHANGED <<vars, sent, nonceOf, copies, fate, filled, reply, seen, verdict>>

(* post_with_retry: a transport failure is waited out and the same         *)
(* question asked again, at most once per backoff.                         *)
ReadRepeated(p, http) ==
    /\ call[p].kind = "info" /\ PostOnce(http) = "network" /\ call[p].attempt < Backoffs
    /\ call' = [call EXCEPT ![p].attempt = @ + 1]
    /\ UNCHANGED <<vars, sent, nonceOf, copies, fate, filled, reply, seen, verdict>>

ReadUnanswered(p, http) ==
    /\ call[p].kind = "info"
    /\ PostOnce(http) # "ok" /\ (PostOnce(http) = "network" => call[p].attempt = Backoffs)
    /\ Concludes(p, PostOnce(http), 0)
    /\ UNCHANGED <<vars, sent, nonceOf, copies, fate, filled, reply, seen>>

StatusOf(n) ==
    CASE fate[n] = "none" -> "unknownOid"
      [] fate[n] = "live" -> "open"
      [] fate[n] = "done" -> IF filled[n] > 0 THEN "filled" ELSE "canceled"

(* Answers that can come back: about this order, with its cloid or without *)
(* one; about another order of this agent, with that one's cloid; about an *)
(* order of another market; or not readable at all.  Premise: an answer of *)
(* this market and side without a cloid is about the order asked for;      *)
(* cross_check has nothing to tell it from another by.                     *)
StatusAnswers(n) ==
    {[cloid |-> m, market |-> "mine", status |-> StatusOf(m), filled |-> filled[m]] :
        m \in {k \in Requests : k = n \/ fate[k] # "none"}}
    \cup {[cloid |-> 0, market |-> "mine", status |-> StatusOf(n), filled |-> filled[n]],
          [cloid |-> 0, market |-> "other", status |-> "filled", filled |-> 1],
          [cloid |-> n, market |-> "mine", status |-> "malformed", filled |-> 0],
          [cloid |-> n, market |-> "mine", status |-> "unknownOid", filled |-> 0]}

ReadAnswered(p) ==
    /\ call[p].kind = "info"
    /\ \E answer \in StatusAnswers(call[p].of) :
          Concludes(p, ParseStatus(answer, call[p].of), answer.filled)
    /\ UNCHANGED <<vars, sent, nonceOf, copies, fate, filled, reply, seen>>

(* The process ends at any point; its requests travel on. *)
EndCall(p) ==
    /\ End(p)
    /\ call' = [call EXCEPT ![p] = Idle]
    /\ verdict' = [verdict EXCEPT ![p] = NoVerdict]
    /\ UNCHANGED <<sent, nonceOf, copies, fate, filled, reply, seen>>

-----------------------------------------------------------------------------
(* The exchange. *)

(* A copy arrives: executed, unless its nonce was or it is refused.        *)
Arrives(n) ==
    /\ copies[n] > 0
    /\ copies' = [copies EXCEPT ![n] = @ - 1]
    /\ \/ /\ nonceOf[n] \notin seen
          /\ seen' = seen \cup {nonceOf[n]}
          /\ fate' = [fate EXCEPT ![n] = "live"]
          /\ \E good \in {"filled", "resting"} : reply' = [reply EXCEPT ![n] = good]
       \/ /\ \E bad \in {"err", "order_error"} : reply' = [reply EXCEPT ![n] = bad]
          /\ UNCHANGED <<seen, fate>>
    /\ UNCHANGED <<vars, sent, nonceOf, filled, call, verdict>>

(* A copy is lost on the way. *)
Vanishes(n) ==
    /\ copies[n] > 0
    /\ copies' = [copies EXCEPT ![n] = @ - 1]
    /\ UNCHANGED <<vars, sent, nonceOf, fate, filled, reply, seen, call, verdict>>

(* An order is over, with or without a fill. *)
Finishes(n) ==
    /\ fate[n] = "live"
    /\ fate' = [fate EXCEPT ![n] = "done"]
    /\ \E f \in 0..1 : filled' = [filled EXCEPT ![n] = f]
    /\ UNCHANGED <<vars, sent, nonceOf, copies, reply, seen, call, verdict>>

Answers(p) ==
    \/ WriteFails(p) \/ ReadAnswered(p)
    \/ \E http \in {"error", "5xx", "429", "4xx"} : ReadRepeated(p, http) \/ ReadUnanswered(p, http)
    \/ \E body \in {"filled", "resting", "err", "order_error", "other"} : WriteAnswered(p, body)

CallNext ==
    \/ \E p \in Procs :
          \/ NonceStep(p) \/ Posts(p) \/ SignerFails(p) \/ Answers(p) \/ EndCall(p)
          \/ \E n \in Requests : AskStatus(p, n)
    \/ \E n \in Requests : Arrives(n) \/ Vanishes(n) \/ Finishes(n)

CallSpec == CallInit /\ [][CallNext]_allVars
-----------------------------------------------------------------------------
(* What a caller is told about its order is so, and stays so.  Told that   *)
(* it was accepted, it was; told that the exchange rejected it, it was not *)
(* executed and never will be, which is what lets the caller close the     *)
(* intent at zero; told that it is over with some fill, that is its fill   *)
(* and no other order's.  This is why a signed request is sent once: the   *)
(* refusal of a repeated nonce would read as the rejection of an order     *)
(* that the first copy has made.                                           *)
ConclusionIsTrue ==
    \A p \in Procs :
        LET v == verdict[p] IN
        /\ v.says = "accepted" => fate[v.of] # "none"
        /\ v.kind = "exchange" /\ v.says = "exchange" =>
              fate[v.of] = "none" /\ copies[v.of] = 0
        /\ v.says = "settled" => fate[v.of] = "done" /\ v.filled = filled[v.of]
=============================================================================
