---------------------------- MODULE JournalReplay ---------------------------
(***************************************************************************)
(* Replay against an arbitrary writer: any record, with any slice index,   *)
(* size or claim, in any order.  What `ValidatedJournalReplay` then still  *)
(* guarantees to --resume, --abandon-incomplete-run and the startup gate   *)
(* does not rest on the writer being correct.                              *)
(***************************************************************************)
EXTENDS RunJournal, FiniteSetsExt

CONSTANTS
    Indices,  \* slice indices a record may carry
    Sizes     \* sizes a record may carry

ASSUME RecordsFinite == Indices \subseteq Nat /\ Sizes \subseteq Nat

Write ==
    \/ RecordHeader
    \/ RecordAbandoned
    \/ \E c \in Cloids, i \in Indices :
          \/ \E s \in Sizes : RecordPrepared(c, i, s)
          \/ \E to \in {"submittedUnknown", "acknowledged"} : RecordProgress(c, i, to)
          \/ \E f \in Sizes : RecordTerminal(c, i, f)
    \/ \E completed \in BOOLEAN, total \in Sizes, unk \in SUBSET Cloids :
          RecordFinalReport(completed, total, unk)

Spec == JournalInit /\ [][Write]_jvars

-----------------------------------------------------------------------------

(* A journal the startup gate lets a new run pass by has no order left     *)
(* open, whatever order the records came in.                               *)
ClosedHasNothingOpen ==
    valid /\ header /\ ~IsIncomplete => Unresolved = {}

(* A record that replay accepts never takes anything back: fills only      *)
(* grow, a terminal cloid stays terminal, and a closed run stays closed.   *)
NothingTakenBack ==
    [][/\ \A c \in Cloids : jfill'[c] >= jfill[c]
       /\ \A c \in Cloids : jstate[c] = "terminal" => jstate'[c] = "terminal"
       /\ (header /\ ~IsIncomplete) => ~IsIncomplete']_jvars
=============================================================================
