------------------------------- MODULE OneWorker -------------------------------
(***************************************************************************)
(* What a PieceWorker promises whoever drives it: the threads of           *)
(* PieceWorker, and a caller that starts and joins them as the class       *)
(* demands, in any order.  Connecting is one step here, and the connection *)
(* is known only by the requests that are open on it and by whether it is  *)
(* still in step; PeerConnection says how that comes about.                *)
(***************************************************************************)
EXTENDS PieceWorker

\* check_connection_async, on a worker just made.
StartConnect(w) ==
    /\ worker[w] = NewWorker
    /\ worker' = [worker EXCEPT ![w] = ConnectStarted(@)]

\* A worker that threw is used again only if it is in have mode: the callers
\* unwind otherwise.
Usable(r) == r.exception => r.have_mode

\* download_piece_async, on a worker just made or one that is connected.
StartDownload(w, i) ==
    /\ ~started(worker[w])
    /\ worker[w] = NewWorker \/ worker[w].is_peer_connection_established
    /\ Usable(worker[w])
    /\ worker' = [worker EXCEPT ![w] = DownloadStarted(@, i)]

\* wait_connection_established, wait_piece_transfer.
Join(w) ==
    /\ HasEnded(worker[w])
    /\ worker' = [worker EXCEPT ![w] = Joined(@)]

\* The destructor of a worker that did not get a connection; its place is taken
\* by nothing.
Discard(w) ==
    /\ HasEnded(worker[w])
    /\ ~worker[w].is_peer_connection_established
    /\ worker' = [worker EXCEPT ![w] = NewWorker]

Call(w) ==
    \/ StartConnect(w)
    \/ \E i \in Pieces : StartDownload(w, i)
    \/ Join(w)

WorkerInit == worker = [w \in Peers |-> NewWorker]

WorkerNext ==
    \E w \in Peers :
        \/ Call(w) \/ Discard(w)
        \/ CheckConnection(w) \/ Dial(w) \/ DownloadStep(w)

WorkerSpec == WorkerInit /\ [][WorkerNext]_worker

================================================================================
