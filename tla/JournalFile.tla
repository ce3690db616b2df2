----------------------------- MODULE JournalFile ----------------------------
(***************************************************************************)
(* The journal as bytes (src/src/journal.rs): one JSON record per line,    *)
(* each written and fsynced by `record`, any append of which may stop      *)
(* half-way, and read back by `read_all`.                                  *)
(*                                                                         *)
(* Records are numbered in the order they are attempted; number 1 is the   *)
(* Header.  A physical line is the sequence of what was written on it, a   *)
(* whole record or a part of one: it parses exactly when it is one whole   *)
(* record.                                                                 *)
(***************************************************************************)
EXTENDS Integers, Sequences, SequencesExt

CONSTANT MaxRecords  \* bound: records attempted over all processes

ASSUME MaxRecordsPos == MaxRecords \in Nat \ {0}

VARIABLES
    made,     \* "none", "dir" (the run directory) or "file" (journal.jsonl too)
    lines,    \* lines that end in a newline
    tail,     \* what follows the last newline
    pc,       \* "off", "starting" (ExecutionJournal::start) or "open"
    tried,    \* records attempted
    acked,    \* records for which `record` returned Ok
    failed,   \* an append of this process returned an error
    careless  \* a process went on appending after such an error

vars == <<made, lines, tail, pc, tried, acked, failed, careless>>

Piece == [id : 1..MaxRecords, whole : BOOLEAN]
Whole(n) == [id |-> n, whole |-> TRUE]
Part(n) == [id |-> n, whole |-> FALSE]

Init ==
    /\ made = "none" /\ lines = <<>> /\ tail = <<>> /\ pc = "off"
    /\ tried = 0 /\ acked = {} /\ failed = FALSE /\ careless = FALSE

-----------------------------------------------------------------------------
(* parse_records. *)

Parses(line) == Len(line) = 1 /\ line[1].whole

(* Every terminated line parses; an unterminated one that does not is the  *)
(* torn tail, tolerated once there is a record before it.                  *)
ReadAccepts ==
    /\ made = "file"
    /\ \A i \in DOMAIN lines : Parses(lines[i])
    /\ tail = <<>> \/ Parses(tail) \/ lines # <<>>

Read ==
    LET whole == IF Parses(tail) THEN Append(lines, tail) ELSE lines
    IN  [i \in DOMAIN whole |-> whole[i][1].id]

-----------------------------------------------------------------------------
(* ExecutionJournal::start, up to the Header: run directory, then file,    *)
(* each made durable on its own.                                           *)
CreateDir ==
    /\ pc = "off" /\ made = "none"
    /\ made' = "dir" /\ pc' = "starting"
    /\ UNCHANGED <<lines, tail, tried, acked, failed, careless>>

CreateFile ==
    /\ pc = "starting" /\ made = "dir"
    /\ made' = "file"
    /\ UNCHANGED <<lines, tail, pc, tried, acked, failed, careless>>

Appending ==
    /\ (pc = "starting" /\ made = "file") \/ pc = "open"
    /\ tried < MaxRecords
    /\ tried' = tried + 1
    /\ careless' = (careless \/ failed)

(* `record` returns Ok: the line is there with its newline, and durable. *)
Record ==
    /\ Appending
    /\ lines' = Append(lines, Append(tail, Whole(tried + 1))) /\ tail' = <<>>
    /\ acked' = acked \cup {tried + 1}
    /\ pc' = "open"
    /\ UNCHANGED <<made, failed>>

(* It stops before that: nothing, a part, the JSON without its newline, or *)
(* all of it reached the file.  Either `record` returns the error, which   *)
(* `start` passes on and a running process survives, or the process died.  *)
RecordStops ==
    /\ Appending
    /\ \/ UNCHANGED <<lines, tail>>
       \/ \E piece \in {Part(tried + 1), Whole(tried + 1)} :
             tail' = Append(tail, piece) /\ UNCHANGED lines
       \/ lines' = Append(lines, Append(tail, Whole(tried + 1))) /\ tail' = <<>>
    /\ \/ pc' = "off" /\ failed' = FALSE
       \/ pc = "open" /\ pc' = pc /\ failed' = TRUE
    /\ UNCHANGED <<made, acked>>

(* Fault: an existing journal is opened for append as it stands. *)
OpenUnrepaired ==
    /\ pc = "off" /\ ReadAccepts /\ Read # <<>>
    /\ pc' = "open" /\ failed' = FALSE
    /\ UNCHANGED <<made, lines, tail, tried, acked, careless>>

(* Fault: whatever lacks its newline is cut off. *)
OpenTruncating ==
    /\ pc = "off" /\ ReadAccepts /\ Read # <<>>
    /\ tail' = <<>>
    /\ pc' = "open" /\ failed' = FALSE
    /\ UNCHANGED <<made, lines, tried, acked, careless>>

(* open_existing with restore_line_boundary, for a run that --resume or    *)
(* --abandon-incomplete-run could read: a tail that parses gets its        *)
(* newline, a torn one is truncated.                                       *)
OpenExisting ==
    /\ pc = "off" /\ ReadAccepts /\ Read # <<>>
    /\ lines' = IF Parses(tail) THEN Append(lines, tail) ELSE lines
    /\ tail' = <<>>
    /\ pc' = "open" /\ failed' = FALSE
    /\ UNCHANGED <<made, tried, acked, careless>>

(* The process ends, or dies between two appends. *)
End ==
    /\ pc # "off"
    /\ pc' = "off" /\ failed' = FALSE
    /\ UNCHANGED <<made, lines, tail, tried, acked, careless>>

Next == CreateDir \/ CreateFile \/ Record \/ RecordStops \/ OpenExisting \/ End

Spec == Init /\ [][Next]_vars
-----------------------------------------------------------------------------
(* Whatever a crash leaves behind, read_all accepts the journal and        *)
(* returns every record whose append was confirmed, in order and once: the *)
(* durable intent is really there for the next process.  A process that    *)
(* goes on after a failed append may spoil its journal, for it writes on   *)
(* behind the fragment; but then read_all refuses it, and no reader ever   *)
(* misses a confirmed record without knowing.                              *)
AckedReadable ==
    1 \in acked =>
        /\ ~careless => ReadAccepts
        /\ ReadAccepts =>
              /\ acked \subseteq ToSet(Read)
              /\ \A i, j \in DOMAIN Read : i < j => Read[i] < Read[j]

(* What one reader was shown, every later reader is shown: the repair of   *)
(* the tail takes back no record that replay may already have acted on.    *)
ReadOnlyGrows ==
    [][ReadAccepts /\ Read # <<>> /\ ~careless'
            => ReadAccepts' /\ IsPrefix(Read, Read')]_vars
=============================================================================
