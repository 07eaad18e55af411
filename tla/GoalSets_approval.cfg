SPECIFICATION FairSpec
CONSTANTS
 Sets = {1}
 Goals = {build}
 Passes = {p1}
 Moves <- ApprovalMoves
 ManageFetch = 1
 CancelFetch = 1
PROPERTY SetsClose
\* every goal set may be completed
CHECK_DEADLOCK FALSE
