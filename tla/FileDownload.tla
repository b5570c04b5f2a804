----------------------------- MODULE FileDownload -----------------------------
(***************************************************************************)
(* What the `download` command promises, without peers, threads or files:  *)
(* pieces are stored one at a time, none is ever lost, and the command     *)
(* succeeds only when all of them are stored, with the file of the torrent *)
(* as its result.  It may fail at any time, and it may be run again as     *)
(* long as it has not succeeded.                                           *)
(***************************************************************************)
CONSTANTS
    Pieces,  \* the pieces of the torrent
    File     \* the contents the torrent describes

VARIABLES
    status,  \* "working", "done" or "failed"
    stored,  \* the pieces stored so far
    result   \* what the output holds once the command is done

vars == <<status, stored, result>>

Init ==
    /\ status = "working"
    /\ stored = {}
    /\ result = << >>

Store(i) ==
    /\ status = "working"
    /\ i \in Pieces \ stored
    /\ stored' = stored \cup {i}
    /\ UNCHANGED <<status, result>>

Finish ==
    /\ status = "working"
    /\ stored = Pieces
    /\ status' = "done"
    /\ result' = File
    /\ UNCHANGED stored

Fail ==
    /\ status = "working"
    /\ status' = "failed"
    /\ UNCHANGED <<stored, result>>

Retry ==
    /\ status # "done"
    /\ status' = "working"
    /\ stored' = {}
    /\ UNCHANGED result

Next ==
    \/ \E i \in Pieces : Store(i)
    \/ Finish
    \/ Fail
    \/ Retry

Spec == Init /\ [][Next]_vars

================================================================================
