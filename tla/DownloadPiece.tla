----------------------------- MODULE DownloadPiece -----------------------------
(***************************************************************************)
(* The `download_piece` command: client::download_piece (client/client.cpp)*)
(* makes one worker for the first peer of the list, whose stream is the    *)
(* output file, and waits for it.  This worker connects inside             *)
(* _download_piece, where the download command connects beforehand.        *)
(***************************************************************************)
EXTENDS PieceWorker

VARIABLES
    location,   \* where the command is
    requested   \* the piece the user asked for

command == <<location, requested>>
vars == <<worker, command>>

ThePeer == 1

Init ==
    /\ location = "start"
    /\ requested \in Pieces
    /\ worker = [w \in Peers |-> NewWorker]

\* Faulty: the index is taken as counted from 1.
Start_from_one ==
    /\ location = "start"
    /\ worker' = [worker EXCEPT ![ThePeer] = DownloadStarted(@, requested - 1)]
    /\ location' = "wait"
    /\ UNCHANGED requested

Start ==
    /\ location = "start"
    /\ worker' = [worker EXCEPT ![ThePeer] = DownloadStarted(@, requested)]
    /\ location' = "wait"
    /\ UNCHANGED requested

\* wait_piece_transfer; raise() rethrows the exception the thread stored.
Wait ==
    /\ location = "wait"
    /\ HasEnded(worker[ThePeer])
    /\ worker' = [worker EXCEPT ![ThePeer] = Joined(@)]
    /\ location' = IF worker[ThePeer].is_piece_transfer_complete THEN "done"
                   ELSE IF worker[ThePeer].exception THEN "failed"
                   ELSE "no_exception"
    /\ UNCHANGED requested

Exited == location \in {"done", "failed"} /\ UNCHANGED vars

Thread ==
    /\ Dial(ThePeer) \/ DownloadStep(ThePeer)
    /\ UNCHANGED command

Next == Start \/ Wait \/ Thread \/ Exited

Spec == Init /\ [][Next]_vars

\* The thread's transfers end by their timeouts, its connect by the system's.
FairSpec == Spec /\ WF_vars(Start \/ Wait) /\ WF_vars(Thread)

--------------------------------------------------------------------------------
\* Every variable has its type.
TypeOK ==
    /\ worker \in [Peers -> Workers]
    /\ location \in {"start", "wait", "done", "failed", "no_exception"}
    /\ requested \in Pieces

\* The command succeeds only with the whole piece the user asked for in the
\* output, also when the peer announces another piece while connecting
\* ("Download piece by its id").
OutputIsPiece == location = "done" => worker[ThePeer].buffer = Whole(requested)

\* The command ends, and never by rethrowing an exception nobody stored.
EndsProperly == <>(location \in {"done", "failed"})

================================================================================
