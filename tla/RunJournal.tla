----------------------------- MODULE RunJournal -----------------------------
(***************************************************************************)
(* The execution journal (src/src/journal.rs) and its one interpretation,  *)
(* `ValidatedJournalReplay::replay`.                                       *)
(*                                                                         *)
(* Replay is a left fold over the records, so its result after every       *)
(* prefix is kept as state and each record is an action on it: `Record...` *)
(* appends the record durably (write + fsync) and applies one step of the  *)
(* fold.  `valid` turns FALSE, for good, at the first record that replay   *)
(* refuses; every reader then fails closed.                                *)
(*                                                                         *)
(* `jtotal` is `calculate_totals(..).filled_sz`, the sum of `jfill`, kept  *)
(* up to date by difference.                                               *)
(***************************************************************************)
EXTENDS Integers, OrderIds

VARIABLES
    valid,      \* replay accepts the journal written so far
    header,     \* the Header record is the first record
    jstate,     \* [Cloids -> state]: the last state of each cloid
    jslice,     \* [Cloids -> slice_idx of its Prepared record]
    jsize,      \* [Cloids -> Prepared.sz]
    jfill,      \* [Cloids -> filled_sz of its last Terminal record]
    jtotal,     \* replayed fill_totals.filled_sz
    report,     \* last FinalReport: "none", "incomplete" or "completed"
    unknowns,   \* its outcome_unknown_cloids
    abandoned   \* the Abandoned marker has been written

jvars == <<valid, header, jstate, jslice, jsize, jfill, jtotal,
           report, unknowns, abandoned>>

CloidState ==
    {"absent", "prepared", "submittedUnknown", "acknowledged", "terminal"}

JournalTypeOK ==
    /\ valid \in BOOLEAN /\ header \in BOOLEAN /\ abandoned \in BOOLEAN
    /\ jstate \in [Cloids -> CloidState]
    /\ jslice \in [Cloids -> Nat]
    /\ jsize \in [Cloids -> Nat]
    /\ jfill \in [Cloids -> Nat]
    /\ jtotal \in Int
    /\ report \in {"none", "incomplete", "completed"}
    /\ unknowns \in SUBSET Cloids

JournalInit ==
    /\ valid = TRUE /\ header = FALSE /\ abandoned = FALSE
    /\ jstate = [c \in Cloids |-> "absent"]
    /\ jslice = [c \in Cloids |-> 0]
    /\ jsize = [c \in Cloids |-> 0]
    /\ jfill = [c \in Cloids |-> 0]
    /\ jtotal = 0
    /\ report = "none" /\ unknowns = {}

-----------------------------------------------------------------------------
(* RunSummary::unresolved_cloids and RunSummary::is_incomplete. *)

Unresolved == {c \in Cloids : jstate[c] \notin {"absent", "terminal"}}

IsIncomplete ==
    /\ header /\ ~abandoned
    /\ \/ report # "completed"
       \/ unknowns # {}
       \/ Unresolved # {}

(* A record may be appended to the fold at all: nothing follows Abandoned  *)
(* or a completed FinalReport, and the Header comes first.                 *)
Appendable == valid /\ header /\ ~abandoned /\ report # "completed"

Refused == valid' = FALSE /\ UNCHANGED <<header, jstate, jslice, jsize, jfill,
                                         jtotal, report, unknowns, abandoned>>

RecordHeader ==
    \/ /\ valid /\ ~header
       /\ header' = TRUE
       /\ UNCHANGED <<valid, jstate, jslice, jsize, jfill, jtotal,
                      report, unknowns, abandoned>>
    \/ ~(valid /\ ~header) /\ Refused

(* Prepared: once per cloid. *)
RecordPrepared(c, i, s) ==
    LET accepted == Appendable /\ jstate[c] = "absent"
    IN  \/ /\ accepted
           /\ jstate' = [jstate EXCEPT ![c] = "prepared"]
           /\ jslice' = [jslice EXCEPT ![c] = i]
           /\ jsize' = [jsize EXCEPT ![c] = s]
           /\ UNCHANGED <<valid, header, jfill, jtotal, report, unknowns, abandoned>>
        \/ ~accepted /\ Refused

(* Fault: an Acknowledged record may follow a Terminal one. *)
AllowedReopening(from, to) ==
    \/ from = "prepared" /\ to \in {"submittedUnknown", "acknowledged", "terminal"}
    \/ from # "absent" /\ to \in {"acknowledged", "terminal"}

(* The transition table of replay. *)
Allowed(from, to) ==
    \/ from = "prepared" /\ to \in {"submittedUnknown", "acknowledged", "terminal"}
    \/ from = "submittedUnknown" /\ to \in {"acknowledged", "terminal"}
    \/ from = "acknowledged" /\ to \in {"acknowledged", "terminal"}
    \/ from = "terminal" /\ to = "terminal"

(* SubmittedUnknown and Acknowledged: a legal transition, under the slice  *)
(* index the cloid was prepared with.                                      *)
RecordProgress(c, i, to) ==
    LET accepted == Appendable /\ Allowed(jstate[c], to) /\ jslice[c] = i
    IN  \/ /\ accepted
           /\ jstate' = [jstate EXCEPT ![c] = to]
           /\ UNCHANGED <<valid, header, jslice, jsize, jfill, jtotal,
                          report, unknowns, abandoned>>
        \/ ~accepted /\ Refused

(* Terminal: never more than was prepared, never less than an earlier      *)
(* Terminal of the same cloid.                                             *)
RecordTerminal(c, i, f) ==
    LET accepted == /\ Appendable /\ Allowed(jstate[c], "terminal") /\ jslice[c] = i
                    /\ f <= jsize[c] /\ f >= jfill[c]
    IN  \/ /\ accepted
           /\ jstate' = [jstate EXCEPT ![c] = "terminal"]
           /\ jfill' = [jfill EXCEPT ![c] = f]
           /\ jtotal' = jtotal + (f - jfill[c])
           /\ UNCHANGED <<valid, header, jslice, jsize, report, unknowns, abandoned>>
        \/ ~accepted /\ Refused

(* FinalReport: the total must be the replayed one; a completed report     *)
(* needs every cloid terminal, an incomplete one must list exactly the     *)
(* unresolved cloids.                                                      *)
RecordFinalReport(completed, total, unk) ==
    LET accepted == /\ Appendable /\ total = jtotal
                    /\ IF completed THEN unk = {} /\ Unresolved = {}
                                    ELSE unk = Unresolved
    IN  \/ /\ accepted
           /\ report' = IF completed THEN "completed" ELSE "incomplete"
           /\ unknowns' = unk
           /\ UNCHANGED <<valid, header, jstate, jslice, jsize, jfill, jtotal, abandoned>>
        \/ ~accepted /\ Refused

(* Fault: a run is abandoned over an order that may be open. *)
RecordAbandonedAnyway ==
    \/ /\ Appendable
       /\ abandoned' = TRUE
       /\ UNCHANGED <<valid, header, jstate, jslice, jsize, jfill, jtotal,
                      report, unknowns>>
    \/ ~Appendable /\ Refused

(* Abandoned: only with nothing unresolved. *)
RecordAbandoned ==
    LET accepted == Appendable /\ Unresolved = {}
    IN  \/ /\ accepted
           /\ abandoned' = TRUE
           /\ UNCHANGED <<valid, header, jstate, jslice, jsize, jfill, jtotal,
                          report, unknowns>>
        \/ ~accepted /\ Refused
=============================================================================
