------------------------------ MODULE IdealRun ------------------------------
(***************************************************************************)
(* What a TWAP run promises, with no process, journal or exchange in it:   *)
(* it trades up to its target, its durable books only ever follow what has *)
(* been traded, and it is closed for good once the books are exact.        *)
(***************************************************************************)
EXTENDS Integers

CONSTANT Target

VARIABLES
    traded,  \* size traded
    booked,  \* size the durable books account for
    closed   \* the run was declared completed or abandoned

ivars == <<traded, booked, closed>>

Init == traded = 0 /\ booked = 0 /\ closed = FALSE

Trade ==
    /\ ~closed /\ traded < Target
    /\ traded' = traded + 1
    /\ UNCHANGED <<booked, closed>>

Book ==
    /\ ~closed
    /\ booked' \in booked .. traded
    /\ UNCHANGED <<traded, closed>>

Close ==
    /\ booked = traded
    /\ closed' = TRUE
    /\ UNCHANGED <<traded, booked>>

Next == Trade \/ Book \/ Close

Spec == Init /\ [][Next]_ivars
=============================================================================
