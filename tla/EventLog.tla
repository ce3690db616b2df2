------------------------------ MODULE EventLog ------------------------------
(***************************************************************************)
(* The sidecar events.jsonl beside the journal (src/src/observability.rs): *)
(* after each durable append the observer writes the record's event, with  *)
(* a sequence number, to a second file that is never synced, never         *)
(* repaired by truncation, and whose errors are only counted.              *)
(*                                                                         *)
(* An event line is a sequence of pieces as in JournalFile; a piece also   *)
(* carries the sequence number written into it.  A record is projected to  *)
(* one event here; that some have none or several is RunObserver's matter. *)
(* An end of the file lost with the power is as if its events had failed.  *)
(***************************************************************************)
EXTENDS JournalFile

VARIABLES
    elines,   \* event lines that end in a newline
    etail,    \* what follows the last newline
    writer,   \* JsonlEventWriter::next_sequence, or 0: no event log open
    due       \* the record whose event is being written, or 0

evars == <<elines, etail, writer, due>>
allVars == <<vars, evars>>

Event(n, seq, whole) == [id |-> n, seq |-> seq, whole |-> whole]

LogInit ==
    /\ Init
    /\ elines = <<>> /\ etail = <<>> /\ writer = 0 /\ due = 0

-----------------------------------------------------------------------------
(* The events a reader of the file gets, by their lines: of each line,     *)
(* ended or not, what parses as one ExecutionEvent.                        *)
ReadEvents ==
    LET all == Append(elines, etail)
    IN  [i \in {i \in DOMAIN all : Parses(all[i])} |-> all[i][1]]

(* Fault: the sequence starts afresh in each process. *)
NextSequenceFresh == 1

(* open_event_log: one above the largest sequence number that can be read. *)
NextSequence ==
    LET seqs == {e.seq : e \in ToSet(ReadEvents)}
    IN  IF seqs = {} THEN 1 ELSE Max(seqs) + 1

(* JournalEventObserver::open, once the journal is open: a last line that  *)
(* is not ended, torn or whole, gets a newline and stays.  When it fails   *)
(* the process goes on without an event log.                               *)
OpenEvents ==
    /\ pc = "open" /\ writer = 0 /\ due = 0
    /\ writer' = NextSequence
    /\ elines' = IF etail = <<>> THEN elines ELSE Append(elines, etail)
    /\ etail' = <<>>
    /\ UNCHANGED <<vars, due>>

(* A step of the journal; a record that became durable is then shown to    *)
(* the observer, before the next append.                                   *)
JournalStep ==
    /\ due = 0
    /\ \/ CreateDir /\ UNCHANGED evars
       \/ CreateFile /\ UNCHANGED evars
       \/ OpenExisting /\ UNCHANGED evars
       \/ Record /\ due' = (IF writer = 0 THEN 0 ELSE tried')
                 /\ UNCHANGED <<elines, etail, writer>>
       \/ RecordStops /\ writer' = (IF pc' = "off" THEN 0 ELSE writer)
                      /\ UNCHANGED <<elines, etail, due>>

(* JsonlEventWriter::emit: the object, its newline, then the counter. *)
Emit ==
    /\ due # 0
    /\ elines' = Append(elines, Append(etail, Event(due, writer, TRUE)))
    /\ etail' = <<>> /\ writer' = writer + 1 /\ due' = 0
    /\ UNCHANGED vars

(* The write stops before the newline: nothing, a part or the whole object *)
(* is on the line.  The error is counted, the sequence number is kept for  *)
(* the next event, and the process goes on.                                *)
EmitFails ==
    /\ due # 0
    /\ \/ UNCHANGED etail
       \/ \E whole \in BOOLEAN : etail' = Append(etail, Event(due, writer, whole))
    /\ due' = 0
    /\ UNCHANGED <<vars, elines, writer>>

(* The process ends or dies, also in the middle of an event: the same      *)
(* remains as after a failed write, or the event is complete.              *)
ProcessEnds ==
    /\ End
    /\ \/ UNCHANGED <<elines, etail>>
       \/ /\ due # 0
          /\ \/ \E whole \in BOOLEAN :
                   /\ etail' = Append(etail, Event(due, writer, whole))
                   /\ UNCHANGED elines
             \/ /\ elines' = Append(elines, Append(etail, Event(due, writer, TRUE)))
                /\ etail' = <<>>
    /\ writer' = 0 /\ due' = 0

LogNext == JournalStep \/ OpenEvents \/ Emit \/ EmitFails \/ ProcessEnds

LogSpec == LogInit /\ [][LogNext]_allVars
-----------------------------------------------------------------------------
(* What the event log shows of a run over any number of processes, torn    *)
(* writes and lost ends: the readable events have rising sequence numbers, *)
(* so that a consumer can order them and drop repeats by that number, they *)
(* follow the order of the records, and each is of a record that every     *)
(* reader of the journal finds there too.                                  *)
EventsInOrder ==
    /\ \A i, j \in DOMAIN ReadEvents : i < j =>
          /\ ReadEvents[i].seq < ReadEvents[j].seq
          /\ ReadEvents[i].id < ReadEvents[j].id
    /\ ~careless => {e.id : e \in ToSet(ReadEvents)} \subseteq ToSet(Read)
=============================================================================
