---------------------------- MODULE MCPositionRun ---------------------------
EXTENDS PositionRun

MCRequests ==
    {[mode |-> "flatten", value |-> 0], [mode |-> "size", value |-> -2],
     [mode |-> "usd", value |-> 4]}
MCInitials == {2, -2}
=============================================================================
