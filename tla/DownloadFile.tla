----------------------------- MODULE DownloadFile -----------------------------
(***************************************************************************)
(* The `download` command: client::download_file (client/download_file.cpp)*)
(* as one process, the coordinator, beside the threads of its workers.     *)
(* The coordinator checks the connection to every peer, then works in      *)
(* rounds: it starts every worker on a piece, joins them in order, and     *)
(* stores each piece it gets in a file of the directory .pieces; at the    *)
(* end it puts the files together.  An exception unwinds download_file,    *)
(* which joins the threads that still run.  The process may be killed and  *)
(* started again; only the files survive that.                             *)
(***************************************************************************)
EXTENDS PieceWorker

CONSTANTS
    MaxRuns,    \* bound: how often the command is run
    DiskFails   \* whether writing to a file may fail

ASSUME RunsAssumption ==
    /\ MaxRuns \in Nat \ {0}
    /\ DiskFails \in BOOLEAN

VARIABLES
    location,            \* where the coordinator is in download_file
    error,               \* the exception that unwinds it, or "none"
    i_peer,              \* the peer setup_workers is at
    workers,             \* the workers kept by setup_workers
    pieces_to_download,  \* pieces not taken from a worker yet
    requested,           \* indexes given to workers in this round
    current,             \* the worker the loop over `workers` is at, 0 before
    gathered,            \* pieces copied to the output
    pieces_files,        \* the files .pieces/piece_<i>
    output,              \* the output file, one entry per piece copied
    runs                 \* how often the command was run

coordinator == <<location, error, i_peer, workers, pieces_to_download,
                 requested, current, gathered, runs>>
files == <<pieces_files, output>>
vars == <<worker, coordinator, files>>

\* Between the join of a worker and the end of write_piece the coordinator uses
\* the data of the worker it is at.
Using == {"pop_piece", "open_piece", "write_piece"}
Locations == {"setup", "wait_connection", "loop", "start", "wait_piece",
              "gather", "unwind", "done", "failed"} \cup Using

Errors == {"none", "no_peers", "no_directory", "not_awaited", "worker",
           "no_exception", "twice", "not_found"}

\* No file of that name; a file another download left in the directory.
Old == -3
Missing == [piece |-> NoPiece, size |-> -1]
LeftOver == [piece |-> Old, size |-> 1]
Files == Contents \cup {Missing, LeftOver}

--------------------------------------------------------------------------------
\* The command starts: the output is truncated, all pieces are pending, there
\* is no worker yet.  .pieces may hold the files of another download.
NewWorkers == [w \in Peers |-> NewWorker]

Init ==
    /\ location = "setup"
    /\ error = "none"
    /\ i_peer = 1
    /\ workers = {}
    /\ pieces_to_download = Pieces
    /\ requested = {}
    /\ current = 0
    /\ gathered = 0
    /\ worker = NewWorkers
    /\ \E f \in {Missing, LeftOver} : pieces_files = [i \in Pieces |-> f]
    /\ output = << >>
    /\ runs = 1

\* An exception leaves download_file: the vector of workers is destroyed, which
\* joins their threads; the progress bars are gone by then.
Raise(e) == location' = "unwind" /\ error' = e

--------------------------------------------------------------------------------
(***************************************************************************)
(* setup_workers and what follows it up to the loop.                       *)
(***************************************************************************)
\* A new worker checks the connection to its peer.
SetupStart ==
    /\ location = "setup"
    /\ i_peer \in Peers
    /\ worker' = [worker EXCEPT ![i_peer] = ConnectStarted(NewWorker)]
    /\ location' = "wait_connection"
    /\ UNCHANGED <<error, i_peer, workers, pieces_to_download, requested,
                   current, gathered, runs, files>>

\* The worker is kept if its peer can be used, destroyed otherwise.
SetupJoin ==
    /\ location = "wait_connection"
    /\ HasEnded(worker[i_peer])
    /\ IF worker[i_peer].is_peer_connection_established
       THEN /\ worker' = [worker EXCEPT ![i_peer] = Joined(@)]
            /\ workers' = workers \cup {i_peer}
       ELSE /\ worker' = [worker EXCEPT ![i_peer] = NewWorker]
            /\ UNCHANGED workers
    /\ i_peer' = i_peer + 1
    /\ location' = "setup"
    /\ UNCHANGED <<error, pieces_to_download, requested, current, gathered,
                   runs, files>>

\* All peers are checked: no peer, or no directory for the pieces, is an error.
SetupDone ==
    /\ location = "setup"
    /\ i_peer \notin Peers
    /\ \/ /\ workers = {}
          /\ Raise("no_peers")
       \/ /\ workers # {}
          /\ \/ location' = "loop" /\ UNCHANGED error
             \/ DiskFails /\ Raise("no_directory")
    /\ UNCHANGED <<worker, i_peer, workers, pieces_to_download, requested,
                   current, gathered, runs, files>>

--------------------------------------------------------------------------------
(***************************************************************************)
(* The loop.                                                               *)
(***************************************************************************)
\* `while (not pieces_to_download.empty())`
LoopHead ==
    /\ location = "loop"
    /\ location' = IF pieces_to_download = {} THEN "gather" ELSE "start"
    /\ current' = 0
    /\ requested' = {}
    /\ UNCHANGED <<worker, error, i_peer, workers, pieces_to_download, gathered,
                   runs, files>>

\* The next element of a filtered view of `workers`.
IsNext(w, Filter(_)) ==
    /\ w \in workers
    /\ w > current
    /\ Filter(worker[w])
    /\ \A v \in workers : v > current /\ Filter(worker[v]) => w <= v
NoNext(Filter(_)) ==
    \A w \in workers : w > current => ~Filter(worker[w])

available(r) == ~started(r)

\* The indexes the workers of a round have not been given yet.  Faulty: every
\* worker is given the first index.
Unassigned_all == pieces_to_download
Unassigned == pieces_to_download \ requested

\* start_workers: pairs the next free worker with the next index, until either
\* list ends.  The list of indexes is shuffled once: any order.
StartWorker(w, i) ==
    /\ location = "start"
    /\ IsNext(w, available)
    /\ i \in Unassigned
    /\ IF started(worker[w])
       THEN Raise("not_awaited") /\ UNCHANGED worker
       ELSE /\ worker' = [worker EXCEPT ![w] = DownloadStarted(@, i)]
            /\ UNCHANGED <<location, error>>
    /\ requested' = requested \cup {i}
    /\ current' = w
    /\ UNCHANGED <<i_peer, workers, pieces_to_download, gathered, runs, files>>

StartsDone ==
    /\ location = "start"
    /\ NoNext(available) \/ Unassigned = {}
    /\ location' = "wait_piece"
    /\ current' = 0
    /\ UNCHANGED <<worker, error, i_peer, workers, pieces_to_download,
                   requested, gathered, runs, files>>

\* Faulty: `break` for `continue`; exceptions are ignored.
AfterWait_break(r) ==
    CASE r.is_piece_transfer_complete                 -> "pop_piece"
      [] ~r.is_piece_transfer_complete /\ r.have_mode -> "loop"
      [] OTHER                                        -> "unwind"
AfterWait_ignore(r) ==
    IF r.is_piece_transfer_complete THEN "pop_piece" ELSE "wait_piece"

\* Where the coordinator goes from a worker it has joined: an incomplete
\* transfer is rethrown, unless the worker is in have mode.
AfterWait(r) ==
    CASE r.is_piece_transfer_complete                 -> "pop_piece"
      [] ~r.is_piece_transfer_complete /\ r.have_mode -> "wait_piece"
      [] OTHER                                        -> "unwind"

\* wait_piece_transfer of the next started worker: blocks until its thread has
\* ended.
WaitPiece(w) ==
    /\ location = "wait_piece"
    /\ IsNext(w, started)
    /\ HasEnded(worker[w])
    /\ worker' = [worker EXCEPT ![w] = Joined(@)]
    /\ current' = w
    /\ location' = AfterWait(worker[w])
    /\ error' = IF AfterWait(worker[w]) # "unwind" THEN error
                ELSE IF worker[w].exception THEN "worker" ELSE "no_exception"
    /\ UNCHANGED <<i_peer, workers, pieces_to_download, requested, gathered,
                   runs, files>>

WaitsDone ==
    /\ location = "wait_piece"
    /\ NoNext(started)
    /\ location' = "loop"
    /\ UNCHANGED <<worker, error, i_peer, workers, pieces_to_download,
                   requested, current, gathered, runs, files>>

piece_idx == worker[current].last_piece_idx

\* pop_piece: the piece must still be pending.  Faulty: not looked at.
Pending_any(i) == TRUE
Pending(i) == i \in pieces_to_download

PopPiece ==
    /\ location = "pop_piece"
    /\ IF Pending(piece_idx)
       THEN /\ pieces_to_download' = pieces_to_download \ {piece_idx}
            /\ location' = "open_piece"
            /\ UNCHANGED error
       ELSE Raise("twice") /\ UNCHANGED pieces_to_download
    /\ UNCHANGED <<worker, i_peer, workers, requested, current, gathered, runs,
                   files>>

\* Faulty: a file that is there already is kept.
OpenPiece_kept ==
    /\ location = "open_piece"
    /\ IF pieces_files[piece_idx] # Missing
       THEN UNCHANGED pieces_files /\ location' = "wait_piece"
       ELSE /\ pieces_files' = [pieces_files EXCEPT ![piece_idx] = Empty]
            /\ location' = "write_piece"
    /\ UNCHANGED <<worker, error, i_peer, workers, pieces_to_download,
                   requested, current, gathered, runs, output>>

\* write_piece: opening truncates the file; whether that works is not checked.
OpenPiece ==
    /\ location = "open_piece"
    /\ \/ /\ pieces_files' = [pieces_files EXCEPT ![piece_idx] = Empty]
          /\ location' = "write_piece"
       \/ /\ DiskFails
          /\ location' = "wait_piece"
          /\ UNCHANGED pieces_files
    /\ UNCHANGED <<worker, error, i_peer, workers, pieces_to_download,
                   requested, current, gathered, runs, output>>

\* The bytes reach the file when the stream is closed.
WritePiece ==
    /\ location = "write_piece"
    /\ \/ pieces_files' =
            [pieces_files EXCEPT ![piece_idx] = worker[current].buffer]
       \/ DiskFails /\ UNCHANGED pieces_files
    /\ location' = "wait_piece"
    /\ UNCHANGED <<worker, error, i_peer, workers, pieces_to_download,
                   requested, current, gathered, runs, output>>

--------------------------------------------------------------------------------
(***************************************************************************)
(* After the loop.                                                         *)
(***************************************************************************)
\* gather_pieces: copies one file, which must exist; whether the output takes
\* the bytes is not checked.
GatherPiece ==
    /\ location = "gather"
    /\ gathered \in Pieces
    /\ IF pieces_files[gathered] = Missing
       THEN Raise("not_found") /\ UNCHANGED <<output, gathered>>
       ELSE /\ \/ output' = Append(output, pieces_files[gathered])
               \/ DiskFails /\ UNCHANGED output
            /\ gathered' = gathered + 1
            /\ UNCHANGED <<location, error>>
    /\ UNCHANGED <<worker, i_peer, workers, pieces_to_download, requested,
                   current, runs, pieces_files>>

GatherDone ==
    /\ location = "gather"
    /\ gathered \notin Pieces
    /\ location' = "done"
    /\ UNCHANGED <<worker, error, i_peer, workers, pieces_to_download,
                   requested, current, gathered, runs, files>>

\* The destructor of a worker joins its thread.
UnwindWorker(w) ==
    /\ location = "unwind"
    /\ w \in workers
    /\ started(worker[w])
    /\ \A v \in workers : started(worker[v]) => w <= v
    /\ HasEnded(worker[w])
    /\ worker' = [worker EXCEPT ![w] = Joined(@)]
    /\ UNCHANGED <<coordinator, files>>

\* All destructors have joined.  Faulty: the threads are detached.
AllJoined_detached == TRUE
AllJoined == \A w \in workers : ~started(worker[w])

\* main reports the exception and the process exits.
UnwindDone ==
    /\ location = "unwind"
    /\ AllJoined
    /\ location' = "failed"
    /\ UNCHANGED <<worker, error, i_peer, workers, pieces_to_download,
                   requested, current, gathered, runs, files>>

\* The process is killed, or has exited with a failure, and the command is run
\* again: the files of the pieces are still there.
Restart ==
    /\ location # "done"
    /\ runs < MaxRuns
    /\ runs' = runs + 1
    /\ location' = "setup"
    /\ error' = "none"
    /\ i_peer' = 1
    /\ workers' = {}
    /\ pieces_to_download' = Pieces
    /\ requested' = {}
    /\ current' = 0
    /\ gathered' = 0
    /\ worker' = NewWorkers
    /\ output' = << >>
    /\ UNCHANGED pieces_files

Exited == location \in {"done", "failed"} /\ UNCHANGED vars

--------------------------------------------------------------------------------
\* A step of the thread of worker w.
Thread(w) == (CheckConnection(w) \/ DownloadStep(w)) /\ UNCHANGED <<coordinator, files>>

Coordinator ==
    \/ SetupStart \/ SetupJoin \/ SetupDone
    \/ LoopHead
    \/ \E w \in Peers, i \in Pieces : StartWorker(w, i)
    \/ StartsDone
    \/ \E w \in Peers : WaitPiece(w)
    \/ WaitsDone
    \/ PopPiece \/ OpenPiece \/ WritePiece
    \/ GatherPiece \/ GatherDone
    \/ \E w \in Peers : UnwindWorker(w)
    \/ UnwindDone

Next ==
    \/ Coordinator
    \/ \E w \in Peers : Thread(w)
    \/ Restart
    \/ Exited

Spec == Init /\ [][Next]_vars

\* The coordinator is a running thread, and so is that of every worker: its
\* transfers end by their timeouts, its connect by that of the system.
FairSpec ==
    /\ Spec
    /\ WF_vars(Coordinator)
    /\ \A w \in Peers : WF_vars(Thread(w))

--------------------------------------------------------------------------------
(***************************************************************************)
(* Properties.                                                             *)
(***************************************************************************)
\* Every variable has its type.
TypeOK ==
    /\ worker \in [Peers -> Workers]
    /\ location \in Locations
    /\ error \in Errors
    /\ i_peer \in 1 .. PeersCount + 1
    /\ workers \subseteq Peers
    /\ pieces_to_download \subseteq Pieces
    /\ requested \subseteq Pieces
    /\ current \in 0 .. PeersCount
    /\ gathered \in 0 .. PiecesCount
    /\ pieces_files \in [Pieces -> Files]
    /\ output \in Seq(Files)
    /\ runs \in Nat

\* The piece the coordinator has taken but not finished writing.
in_hand == IF location \in {"open_piece", "write_piece"} THEN {piece_idx} ELSE {}
stored == (Pieces \ pieces_to_download) \ in_hand

\* The file the torrent describes.
TheFile == [k \in 1 .. PiecesCount |-> Whole(k - 1)]

\* The command succeeds only with the bytes of the torrent in the output: every
\* piece once, whole, in order, whatever threads did, whatever an earlier run
\* or another download left in .pieces ("Download full file").
OutputIsFile == location = "done" => output = TheFile

\* In any case the command succeeds only with every piece in its place, as a peer
\* sent it: a peer that sends other bytes spoils its own pieces, and no length.
FromPeer(c, i) == \E w \in Peers : IsPiece(c, i, w)
OutputFromPeers == location = "done" =>
    Len(output) = PiecesCount /\ \A k \in 1 .. PiecesCount : FromPeer(output[k], k - 1)

\* Nothing an earlier download left in .pieces reaches the output (write_piece
\* and gather_pieces share the directory with every other run).
OutputOfThisDownload == \A k \in DOMAIN output : output[k].piece # Old

\* Within a run, the file of a piece that was stored is never touched again
\* (pop_piece refuses a piece that is not pending).
StoredPieceStays ==
    [][runs' = runs => \A i \in stored :
         i \in stored' /\ pieces_files'[i] = pieces_files[i]]_vars

\* Workers that serve what they are asked for never bring the same piece twice,
\* so that pop_piece's "Can download piece twice!" is never thrown.
NoPieceTwice == error # "twice"

\* download_file keeps to the protocol of PieceWorker: it starts no thread on a
\* worker that has one, and calls raise() only when an exception is stored.
ProtocolKept == error \notin {"not_awaited", "no_exception"}

\* Whatever other peers and their workers do, the data the coordinator stores is
\* all of the piece pop_piece took, unless the worker is in have mode and had
\* nothing to give or was behind with its peer ("Return piece data if it is stored
\* internally", client/piece.hpp).
TakenPieceIsRight == location \in Using => HandsOver(current, worker[current])

\* remain_bytes does not wrap: no worker receives more bytes of a piece than the
\* piece has, and then asks for blocks without end, unless it is in have mode and
\* behind with its peer, whose answers to earlier requests it counts too.
RemainDoesNotWrap ==
    \A w \in Peers : worker[w].thread = "block" =>
      LET r == worker[w]
      IN  \/ r.received_bytes <= piece_len(r.piece_idx)
          \/ r.have_mode /\ ~Undisturbed(r)

\* When the command has ended, by success or by an exception, no worker thread
\* is left running.
NoThreadLeft ==
    location \in {"done", "failed"} => \A w \in Peers : ~started(worker[w])

\* The progress bars outlive the threads that report to them.
BarsOutliveThreads ==
    location = "unwind" => \A w \in Peers : worker[w].thread # "block"

\* Every download the coordinator starts is waited for, also when other workers
\* of the round fail or have nothing to give.
EveryDownloadAwaited ==
    \A w \in Peers : worker[w].thread = "enter" ~> ~started(worker[w])

\* The command ends.
Termination == <>(location \in {"done", "failed"})

\* Within a run, download_file drives every worker as OneWorker lets a caller do;
\* above all it starts no worker again that threw, unless its peer announces
\* pieces.  What PeerConnection shows of OneWorker then holds of each worker here.
OW == INSTANCE OneWorker
DrivesWorkers == [][runs' = runs => OW!WorkerNext]_worker

--------------------------------------------------------------------------------
(***************************************************************************)
(* Why the coordinator keeps to the protocol: the inductive invariant.     *)
(***************************************************************************)
\* The worker the coordinator is at exists.
AtWorker ==
    /\ location = "wait_connection" => i_peer \in Peers
    /\ location \in Using => current \in workers

\* Which workers may have a thread: the one being connected; in a round those
\* started so far, then those not yet joined; after an exception any kept one.
ThreadOf(w) ==
    CASE location = "wait_connection" -> w = i_peer
      [] location = "start"           -> w \in workers /\ w <= current
      [] location \in {"wait_piece"} \cup Using -> w \in workers /\ w > current
      [] location = "unwind"          -> w \in workers
      [] OTHER                        -> FALSE
ThreadsKnown == \A w \in Peers : started(worker[w]) => ThreadOf(w)

\* A download that has ended is complete, or may be incomplete, or has thrown.
OutcomeKnown ==
    location # "wait_connection" => \A w \in Peers :
        /\ worker[w].thread # "connect"
        /\ worker[w].thread = "ended" =>
             \/ worker[w].is_piece_transfer_complete
             \/ worker[w].have_mode
             \/ worker[w].exception

ProtocolInv == TypeOK /\ AtWorker /\ ThreadsKnown /\ OutcomeKnown /\ ProtocolKept

--------------------------------------------------------------------------------
(***************************************************************************)
(* Why no piece comes twice, when no peer announces pieces, and why the    *)
(* output is then made of all pieces, when every write succeeds: the       *)
(* inductive invariants.                                                   *)
(***************************************************************************)
\* A worker whose peer announces nothing downloads the piece it is started on.
OnIndex(r) ==
    /\ ~r.have_mode /\ r.have_piece_idx = NoPiece /\ r.thread # "wait_have"
    /\ r.thread \in {"dial", "block"} => r.piece_idx = r.index
    /\ r.is_piece_transfer_complete =>
         r.thread \in {"ended", "none"} /\ r.last_piece_idx = r.index
WorkersOnIndex == \A w \in Peers : OnIndex(worker[w])

\* Every download of a round is for a pending piece of its own.
OwnPieces ==
    /\ location \in {"start", "wait_piece"} \cup Using => \A w \in Peers :
         started(worker[w]) =>
           /\ worker[w].index \in pieces_to_download
           /\ location = "start" => worker[w].index \in requested
           /\ \A v \in Peers \ {w} :
                started(worker[v]) => worker[v].index # worker[w].index
    /\ location = "pop_piece" =>
         /\ piece_idx \in pieces_to_download
         /\ \A w \in Peers : started(worker[w]) => worker[w].index # piece_idx

PiecesInv == WorkersOnIndex /\ OwnPieces /\ NoPieceTwice

\* Stored files are pieces as peers sent them, and the output is made of them.
FilesHold ==
    /\ \A i \in stored : FromPeer(pieces_files[i], i)
    /\ location \in {"gather", "done"} => pieces_to_download = {}
    /\ location \notin {"unwind", "failed"} =>
         Len(output) = gathered /\ \A k \in 1 .. gathered : FromPeer(output[k], k - 1)
    /\ location = "done" => gathered = PiecesCount

\* Every peer serves what it is asked for, every write succeeds, and the last
\* piece is shorter than the others.
Seeds ==
    /\ HavePeers = {}
    /\ CorruptPeers = {}
    /\ ~DiskFails
    /\ Length % PieceLength # 0

--------------------------------------------------------------------------------
(***************************************************************************)
(* What download_file promises: FileDownload.                              *)
(***************************************************************************)
status == IF location \in {"done", "failed"} THEN location ELSE "working"
FD == INSTANCE FileDownload
        WITH File <- TheFile,
             stored <- {i \in stored : pieces_files[i] = Whole(i)},
             result <- IF location = "done" THEN output ELSE << >>

\* download_file implements the abstract download.
ImplementsFileDownload == FD!Spec

================================================================================
