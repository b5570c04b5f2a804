-------------------------- MODULE DownloadFile_proofs --------------------------
(***************************************************************************)
(* Proofs about DownloadFile, for any number of peers and pieces, and any  *)
(* lengths.  First what holds for any set of peers that announce pieces or *)
(* send wrong bytes.  Then, if no peer announces pieces: no piece comes    *)
(* twice; if every write succeeds, the output of a successful command is   *)
(* made of all pieces as peers sent them; if also no peer is corrupt and   *)
(* the last piece is not empty (Seeds), it is the file.  Peers may stop    *)
(* answering at any time, answer with fewer bytes, and the command may be  *)
(* killed and run again.                                                   *)
(***************************************************************************)
EXTENDS DownloadFile, PieceWorker_proofs

--------------------------------------------------------------------------------
(***************************************************************************)
(* Type correctness.                                                       *)
(***************************************************************************)
\* Every variable of the initial state has its type.
LEMMA InitType == Init => TypeOK
<1> SUFFICES ASSUME Init PROVE TypeOK
  OBVIOUS
<1>1. worker \in [Peers -> Workers]
  BY NewWorkerType DEF Init, NewWorkers
<1>2. pieces_files \in [Pieces -> Files]
  BY DEF Init, Files
<1> QED
  BY <1>1, <1>2, CountsAssumption DEF Init, TypeOK, Locations, Errors

\* Every step of the command keeps the types (download_file and its callees).
LEMMA NextType ==
    ASSUME TypeOK, AtWorker, [Next]_vars
    PROVE  TypeOK'
<1> USE CountsAssumption DEF TypeOK, Locations, Errors, Using
<1>0. location \in Using =>
        /\ worker[current].last_piece_idx \in Pieces
        /\ worker[current].buffer \in Contents
  BY DEF AtWorker, Workers
<1>1. CASE SetupStart
  BY <1>1, NewWorkerType, EndType DEF SetupStart, coordinator, files
<1>2. CASE SetupJoin
  <2>1. i_peer \in Peers /\ i_peer + 1 \in 1 .. PeersCount + 1
    BY <1>2 DEF SetupJoin, AtWorker, Peers
  <2>2. worker' \in [Peers -> Workers] /\ workers' \subseteq Peers
    BY <1>2, <2>1, NewWorkerType, EndType, ZenonT(60) DEF SetupJoin
  <2> QED
    BY <1>2, <2>1, <2>2 DEF SetupJoin, files
<1>3. CASE SetupDone
  BY <1>3 DEF SetupDone, Raise, files
<1>4. CASE LoopHead
  BY <1>4 DEF LoopHead, files
<1>5. ASSUME NEW w \in Peers, NEW i \in Pieces, StartWorker(w, i) PROVE TypeOK'
  <2>1. worker' \in [Peers -> Workers]
    BY <1>5, WithPieceType DEF StartWorker, Raise
  <2>2. w \in 0 .. PeersCount
    BY DEF Peers
  <2> QED
    BY <1>5, <2>1, <2>2 DEF StartWorker, Raise, files
<1>6. CASE StartsDone
  BY <1>6 DEF StartsDone, files
<1>7. ASSUME NEW w \in Peers, WaitPiece(w) PROVE TypeOK'
  <2>1. worker' \in [Peers -> Workers]
    BY <1>7, EndType DEF WaitPiece
  <2>2. w \in 0 .. PeersCount
    BY DEF Peers
  <2>3. location' \in Locations /\ error' \in Errors
    BY <1>7 DEF WaitPiece, AfterWait
  <2> QED
    BY <1>7, <2>1, <2>2, <2>3 DEF WaitPiece, files
<1>8. CASE WaitsDone
  BY <1>8 DEF WaitsDone, files
<1>9. CASE PopPiece
  BY <1>9 DEF PopPiece, Raise, files
<1>10. CASE OpenPiece
  <2>1. pieces_files' \in [Pieces -> Files]
    BY <1>0, <1>10 DEF OpenPiece, piece_idx, Files, Empty, Contents
  <2> QED
    BY <1>10, <2>1 DEF OpenPiece
<1>11. CASE WritePiece
  <2>1. pieces_files' \in [Pieces -> Files]
    BY <1>0, <1>11 DEF WritePiece, piece_idx, Files
  <2> QED
    BY <1>11, <2>1 DEF WritePiece
<1>12. CASE GatherPiece
  <2>1. gathered + 1 \in 0 .. PiecesCount
    BY <1>12 DEF GatherPiece, Pieces
  <2>2. output' \in Seq(Files)
    BY <1>12 DEF GatherPiece
  <2> QED
    BY <1>12, <2>1, <2>2 DEF GatherPiece, Raise
<1>13. CASE GatherDone
  BY <1>13 DEF GatherDone, files
<1>14. ASSUME NEW w \in Peers, UnwindWorker(w) PROVE TypeOK'
  BY <1>14, EndType DEF UnwindWorker, coordinator, files
<1>15. CASE UnwindDone
  BY <1>15 DEF UnwindDone, files
<1>16. ASSUME NEW w \in Peers, Thread(w) PROVE TypeOK'
  BY <1>16, ThreadType DEF Thread, coordinator, files
<1>17. CASE Restart
  <2>1. worker' \in [Peers -> Workers]
    BY <1>17, NewWorkerType DEF Restart, NewWorkers
  <2> QED
    BY <1>17, <2>1 DEF Restart
<1>18. CASE Exited
  BY <1>18 DEF Exited, vars, coordinator, files
<1>19. CASE UNCHANGED vars
  BY <1>19 DEF vars, coordinator, files
<1> QED
  BY <1>1, <1>2, <1>3, <1>4, <1>5, <1>6, <1>7, <1>8, <1>9, <1>10, <1>11, <1>12,
     <1>13, <1>14, <1>15, <1>16, <1>17, <1>18, <1>19 DEF Next, Coordinator

--------------------------------------------------------------------------------
(***************************************************************************)
(* The protocol between the coordinator and its workers.                   *)
(***************************************************************************)
\* Every step keeps the protocol invariant.
LEMMA NextProtocol ==
    ASSUME ProtocolInv, [Next]_vars
    PROVE  ProtocolInv'
<1> USE DEF Using, started, HasEnded, Joinable, Running
<1>0. /\ TypeOK /\ AtWorker /\ ThreadsKnown /\ OutcomeKnown /\ ProtocolKept
      /\ worker \in [Peers -> Workers] /\ workers \subseteq Peers
      /\ current \in Nat /\ i_peer \in Nat /\ Peers \subseteq Nat
  BY CountsAssumption DEF ProtocolInv, TypeOK, Peers
<1> DEFINE Kept == AtWorker' /\ ThreadsKnown' /\ OutcomeKnown' /\ ProtocolKept'
<1> SUFFICES Kept
  BY <1>0, NextType DEF ProtocolInv
<1>1. CASE SetupStart
  <2>1. \A w \in Peers : ~started(worker[w])
    BY <1>0, <1>1 DEF SetupStart, ThreadsKnown, ThreadOf
  <2> QED
    BY <1>0, <1>1, <2>1
       DEF SetupStart, AtWorker, ThreadsKnown, ThreadOf, OutcomeKnown, ProtocolKept
<1>2. CASE SetupJoin
  <2>1. \A w \in Peers \ {i_peer} : ~started(worker[w])
    BY <1>0, <1>2 DEF SetupJoin, ThreadsKnown, ThreadOf
  <2>2. i_peer \in Peers
    BY <1>0, <1>2 DEF SetupJoin, AtWorker
  <2>3. \A w \in Peers : worker'[w].thread = "none" \/ ~started(worker'[w])
    BY <1>0, <1>2, <2>1, <2>2 DEF SetupJoin, Joined, NewWorker, Workers
  <2> QED
    BY <1>0, <1>2, <2>3
       DEF SetupJoin, AtWorker, ThreadsKnown, ThreadOf, OutcomeKnown, ProtocolKept
<1>3. CASE SetupDone
  BY <1>0, <1>3
     DEF SetupDone, Raise, AtWorker, ThreadsKnown, ThreadOf, OutcomeKnown, ProtocolKept
<1>4. CASE LoopHead
  BY <1>0, <1>4
     DEF LoopHead, AtWorker, ThreadsKnown, ThreadOf, OutcomeKnown, ProtocolKept
<1>5. ASSUME NEW w \in Peers, NEW i \in Pieces, StartWorker(w, i) PROVE Kept
  <2>1. /\ w \in workers /\ w > current /\ ~started(worker[w])
        /\ location = "start" /\ location' = "start" /\ error' = error
        /\ current' = w /\ workers' = workers
        /\ worker' = [worker EXCEPT ![w] = DownloadStarted(@, i)]
    BY <1>0, <1>5 DEF StartWorker, IsNext, available
  <2>2. worker'[w].thread = "enter" /\ \A v \in Peers \ {w} : worker'[v] = worker[v]
    BY <1>0, <2>1 DEF DownloadStarted, Workers
  <2> QED
    BY <1>0, <2>1, <2>2 DEF AtWorker, ThreadsKnown, ThreadOf, OutcomeKnown, ProtocolKept
<1>6. CASE StartsDone
  <2>1. \A w \in workers : w > 0
    BY <1>0 DEF Peers
  <2> QED
    BY <1>0, <1>6, <2>1
       DEF StartsDone, AtWorker, ThreadsKnown, ThreadOf, OutcomeKnown, ProtocolKept
<1>7. ASSUME NEW w \in Peers, WaitPiece(w) PROVE Kept
  <2>1. /\ w \in workers /\ w > current /\ worker[w].thread = "ended"
        /\ \A v \in workers : v > current /\ started(worker[v]) => w <= v
        /\ location = "wait_piece" /\ current' = w /\ workers' = workers
        /\ location' = AfterWait(worker[w])
        /\ error' = IF AfterWait(worker[w]) # "unwind" THEN error
                    ELSE IF worker[w].exception THEN "worker" ELSE "no_exception"
        /\ worker' = [worker EXCEPT ![w] = Joined(@)]
    BY <1>7 DEF WaitPiece, IsNext
  <2>2. /\ worker'[w].thread = "none"
        /\ \A v \in Peers \ {w} : worker'[v] = worker[v]
    BY <1>0, <2>1 DEF Joined, Workers
  <2>3. location' \in {"pop_piece", "wait_piece", "unwind"}
    BY <2>1 DEF AfterWait
  <2>4. ThreadsKnown'
    BY <1>0, <2>1, <2>2, <2>3 DEF ThreadsKnown, ThreadOf
  <2>5. OutcomeKnown'
    BY <1>0, <2>1, <2>2, <2>3 DEF OutcomeKnown
  <2>6. ProtocolKept'
    BY <1>0, <2>1 DEF ProtocolKept, OutcomeKnown, AfterWait
  <2> QED
    BY <2>1, <2>3, <2>4, <2>5, <2>6 DEF AtWorker
<1>8. CASE WaitsDone
  BY <1>0, <1>8
     DEF WaitsDone, NoNext, AtWorker, ThreadsKnown, ThreadOf, OutcomeKnown, ProtocolKept
<1>9. CASE PopPiece
  BY <1>0, <1>9
     DEF PopPiece, Raise, AtWorker, ThreadsKnown, ThreadOf, OutcomeKnown, ProtocolKept
<1>10. CASE OpenPiece
  BY <1>0, <1>10
     DEF OpenPiece, AtWorker, ThreadsKnown, ThreadOf, OutcomeKnown, ProtocolKept
<1>11. CASE WritePiece
  BY <1>0, <1>11
     DEF WritePiece, AtWorker, ThreadsKnown, ThreadOf, OutcomeKnown, ProtocolKept
<1>12. CASE GatherPiece
  BY <1>0, <1>12
     DEF GatherPiece, Raise, AtWorker, ThreadsKnown, ThreadOf, OutcomeKnown, ProtocolKept
<1>13. CASE GatherDone
  BY <1>0, <1>13
     DEF GatherDone, AtWorker, ThreadsKnown, ThreadOf, OutcomeKnown, ProtocolKept
<1>14. ASSUME NEW w \in Peers, UnwindWorker(w) PROVE Kept
  <2>1. /\ worker'[w].thread = "none"
        /\ \A v \in Peers \ {w} : worker'[v] = worker[v]
    BY <1>0, <1>14 DEF UnwindWorker, Joined, Workers
  <2> QED
    BY <1>0, <1>14, <2>1
       DEF UnwindWorker, coordinator, AtWorker, ThreadsKnown, ThreadOf, OutcomeKnown,
           ProtocolKept
<1>15. CASE UnwindDone
  BY <1>0, <1>15
     DEF UnwindDone, AllJoined, AtWorker, ThreadsKnown, ThreadOf, OutcomeKnown, ProtocolKept
<1>16. ASSUME NEW w \in Peers, Thread(w) PROVE Kept
  <2>1. /\ location' = location /\ i_peer' = i_peer /\ current' = current
        /\ workers' = workers /\ error' = error
        /\ CheckConnection(w) \/ DownloadStep(w)
    BY <1>16 DEF Thread, coordinator
  <2>2. /\ \A v \in Peers \ {w} : worker'[v] = worker[v]
        /\ started(worker[w]) /\ started(worker'[w])
        /\ worker[w].thread # "connect" =>
             /\ worker'[w].thread # "connect"
             /\ worker'[w].thread = "ended" =>
                  \/ worker'[w].is_piece_transfer_complete
                  \/ worker'[w].exception
    BY <1>0, <2>1, ThreadOutcome
  <2>3. AtWorker' /\ ThreadsKnown' /\ ProtocolKept'
    BY <1>0, <2>1, <2>2 DEF AtWorker, ThreadsKnown, ThreadOf, ProtocolKept
  <2>4. OutcomeKnown'
    BY <1>0, <2>1, <2>2 DEF OutcomeKnown
  <2> QED
    BY <2>3, <2>4
<1>17. CASE Restart
  BY <1>17
     DEF Restart, NewWorkers, NewWorker, AtWorker, ThreadsKnown, OutcomeKnown, ProtocolKept
<1>18. CASE UNCHANGED vars
  BY <1>0, <1>18
     DEF vars, coordinator, AtWorker, ThreadsKnown, ThreadOf, OutcomeKnown, ProtocolKept
<1> QED
  BY <1>1, <1>2, <1>3, <1>4, <1>5, <1>6, <1>7, <1>8, <1>9, <1>10, <1>11, <1>12,
     <1>13, <1>14, <1>15, <1>16, <1>17, <1>18 DEF Next, Coordinator, Exited

\* ProtocolInv is an invariant of the command.
THEOREM ProtocolInvariant == Spec => []ProtocolInv
<1>1. Init => ProtocolInv
  <2> SUFFICES ASSUME Init PROVE ProtocolInv
    OBVIOUS
  <2>1. AtWorker /\ ThreadsKnown /\ OutcomeKnown /\ ProtocolKept
    BY DEF Init, NewWorkers, NewWorker, AtWorker, ThreadsKnown, OutcomeKnown,
           ProtocolKept, Using, started, Joinable, Running
  <2> QED
    BY <2>1, InitType DEF ProtocolInv
<1>2. ProtocolInv /\ [Next]_vars => ProtocolInv'
  BY NextProtocol
<1> QED
  BY <1>1, <1>2, PTL DEF Spec

\* Every variable has its type in every reachable state (TypeOK), whatever peers
\* announce, send or leave unanswered.
THEOREM TypeCorrect == Spec => []TypeOK
<1>1. ProtocolInv => TypeOK
  BY DEF ProtocolInv
<1> QED
  BY <1>1, ProtocolInvariant, PTL

\* download_file never starts a thread on a worker that has one, and raise()
\* always has an exception to rethrow.
THEOREM ProtocolIsKept == Spec => []ProtocolKept
<1>1. ProtocolInv => ProtocolKept
  BY DEF ProtocolInv
<1> QED
  BY <1>1, ProtocolInvariant, PTL

\* No worker thread outlives the command: neither a success nor an exception
\* leaves one running.
THEOREM ThreadsEnd == Spec => []NoThreadLeft
<1>1. ProtocolInv => NoThreadLeft
  BY DEF ProtocolInv, NoThreadLeft, ThreadsKnown, ThreadOf, Using
<1> QED
  BY <1>1, ProtocolInvariant, PTL

--------------------------------------------------------------------------------
(***************************************************************************)
(* The files of stored pieces.                                             *)
(***************************************************************************)
\* What one step may do to the pieces that are stored.
StoredStay ==
    \A i \in stored : i \in stored' /\ pieces_files'[i] = pieces_files[i]

\* No step of download_file opens or writes the file of a stored piece.
LEMMA StoredStep ==
    ASSUME ProtocolInv, [Next]_vars, runs' = runs
    PROVE  StoredStay
<1> USE DEF Using
<1>0. /\ TypeOK /\ AtWorker /\ ThreadsKnown
      /\ worker \in [Peers -> Workers] /\ workers \subseteq Peers
      /\ pieces_files \in [Pieces -> Files] /\ Peers \subseteq Nat
      /\ runs \in Nat
  BY CountsAssumption DEF ProtocolInv, TypeOK, Peers
<1>1. CASE PopPiece
  BY <1>0, <1>1 DEF PopPiece, Pending, Raise, files, StoredStay, stored, in_hand, piece_idx
<1>2. CASE OpenPiece
  BY <1>0, <1>2 DEF OpenPiece, StoredStay, stored, in_hand, piece_idx
<1>3. CASE WritePiece
  BY <1>0, <1>3 DEF WritePiece, StoredStay, stored, in_hand, piece_idx
<1>4. ASSUME NEW w \in Peers, Thread(w) PROVE StoredStay
  <2>1. /\ location' = location /\ current' = current
        /\ pieces_to_download' = pieces_to_download
        /\ pieces_files' = pieces_files
        /\ \A v \in Peers \ {w} : worker'[v] = worker[v]
        /\ started(worker[w])
    BY <1>0, <1>4, ThreadOutcome DEF Thread, coordinator, files
  <2>2. location \in Using => current # w /\ current \in Peers
    BY <1>0, <2>1 DEF AtWorker, ThreadsKnown, ThreadOf, Peers
  <2>3. in_hand' = in_hand
    BY <2>1, <2>2 DEF in_hand, piece_idx
  <2> QED
    BY <2>1, <2>3 DEF StoredStay, stored
<1>5. ASSUME in_hand = {}, in_hand' = {},
             pieces_to_download' = pieces_to_download, pieces_files' = pieces_files
      PROVE  StoredStay
  BY <1>5 DEF StoredStay, stored
<1>6. CASE \/ SetupStart \/ SetupJoin \/ SetupDone \/ LoopHead \/ StartsDone
           \/ WaitsDone \/ GatherPiece \/ GatherDone \/ UnwindDone
  BY <1>5, <1>6
     DEF SetupStart, SetupJoin, SetupDone, LoopHead, StartsDone, WaitsDone,
         GatherPiece, GatherDone, UnwindDone, Raise, files, in_hand
<1>7. ASSUME NEW w \in Peers, NEW i \in Pieces, StartWorker(w, i) PROVE StoredStay
  BY <1>5, <1>7 DEF StartWorker, Raise, files, in_hand
<1>8. ASSUME NEW w \in Peers, WaitPiece(w) PROVE StoredStay
  BY <1>5, <1>8 DEF WaitPiece, AfterWait, files, in_hand
<1>9. ASSUME NEW w \in Peers, UnwindWorker(w) PROVE StoredStay
  BY <1>5, <1>9 DEF UnwindWorker, coordinator, files, in_hand
<1>10. ~Restart
  BY <1>0 DEF Restart
<1>11. CASE UNCHANGED vars
  BY <1>11 DEF vars, coordinator, files, StoredStay, stored, in_hand, piece_idx
<1> QED
  BY <1>1, <1>2, <1>3, <1>4, <1>6, <1>7, <1>8, <1>9, <1>10, <1>11
     DEF Next, Coordinator, Exited

\* Within a run a stored piece stays stored, and its file untouched, also when
\* peers announce the same piece again.
THEOREM StoredPiecesStay == Spec => StoredPieceStays
<1>1. ProtocolInv /\ [Next]_vars =>
        [runs' = runs => \A i \in stored :
           i \in stored' /\ pieces_files'[i] = pieces_files[i]]_vars
  BY StoredStep DEF StoredStay
<1> QED
  BY <1>1, ProtocolInvariant, PTL DEF Spec, StoredPieceStays

--------------------------------------------------------------------------------
(***************************************************************************)
(* What an earlier download left in .pieces.                               *)
(***************************************************************************)
\* If files can be written, a piece becomes stored only by the write of its file.
LEMMA StoredByWriting ==
    ASSUME ProtocolInv, [Next]_vars, ~DiskFails, ~WritePiece
    PROVE  stored' \subseteq stored
<1> USE DEF Using
<1>0. /\ TypeOK /\ AtWorker /\ ThreadsKnown
      /\ worker \in [Peers -> Workers] /\ workers \subseteq Peers /\ Peers \subseteq Nat
  BY CountsAssumption DEF ProtocolInv, TypeOK, Peers
<1>1. CASE PopPiece
  BY <1>1 DEF PopPiece, Raise, stored, in_hand, piece_idx
<1>2. CASE OpenPiece
  BY <1>2 DEF OpenPiece, stored, in_hand, piece_idx
<1>3. ASSUME NEW w \in Peers, Thread(w) PROVE stored' \subseteq stored
  <2>1. /\ location' = location /\ current' = current
        /\ pieces_to_download' = pieces_to_download
        /\ \A v \in Peers \ {w} : worker'[v] = worker[v]
        /\ started(worker[w])
    BY <1>0, <1>3, ThreadOutcome DEF Thread, coordinator
  <2>2. location \in Using => current # w /\ current \in Peers
    BY <1>0, <2>1 DEF AtWorker, ThreadsKnown, ThreadOf, Peers
  <2> QED
    BY <2>1, <2>2 DEF stored, in_hand, piece_idx
<1>4. ASSUME in_hand = {}, in_hand' = {}, pieces_to_download' = pieces_to_download
      PROVE  stored' \subseteq stored
  BY <1>4 DEF stored
<1>5. CASE \/ SetupStart \/ SetupJoin \/ SetupDone \/ LoopHead \/ StartsDone
           \/ WaitsDone \/ GatherPiece \/ GatherDone \/ UnwindDone
  BY <1>4, <1>5
     DEF SetupStart, SetupJoin, SetupDone, LoopHead, StartsDone, WaitsDone,
         GatherPiece, GatherDone, UnwindDone, Raise, in_hand
<1>6. ASSUME NEW w \in Peers, NEW i \in Pieces, StartWorker(w, i)
      PROVE  stored' \subseteq stored
  BY <1>4, <1>6 DEF StartWorker, Raise, in_hand
<1>7. ASSUME NEW w \in Peers, WaitPiece(w) \/ UnwindWorker(w)
      PROVE  stored' \subseteq stored
  BY <1>4, <1>7 DEF WaitPiece, AfterWait, UnwindWorker, coordinator, in_hand
<1>8. CASE Restart
  BY <1>8 DEF Restart, stored
<1>9. CASE UNCHANGED vars
  BY <1>9 DEF vars, coordinator, stored, in_hand, piece_idx
<1> QED
  BY <1>1, <1>2, <1>3, <1>5, <1>6, <1>7, <1>8, <1>9 DEF Next, Coordinator, Exited

\* The file of a stored piece was written by this run, and the pieces are put
\* together when all are stored.
WrittenHere ==
    /\ \A i \in stored : pieces_files[i].piece # Old
    /\ location \in {"gather", "done"} => pieces_to_download = {}
    /\ OutputOfThisDownload

\* Every step keeps that, if files can be written.
LEMMA NextWrittenHere ==
    ASSUME ProtocolInv, WrittenHere, [Next]_vars, ~DiskFails
    PROVE  WrittenHere'
<1>0. /\ TypeOK /\ AtWorker /\ worker \in [Peers -> Workers] /\ workers \subseteq Peers
      /\ pieces_files \in [Pieces -> Files] /\ output \in Seq(Files)
  BY DEF ProtocolInv, TypeOK
<1>1. CASE Restart
  BY <1>1 DEF Restart, WrittenHere, stored, OutputOfThisDownload
<1>2. CASE WritePiece
  <2>1. worker[current].buffer.piece # Old
    <3>1. worker[current].buffer \in Contents
      BY <1>0, <1>2 DEF WritePiece, AtWorker, Using, Workers
    <3> QED
      BY <3>1, CountsAssumption DEF Contents, Old, NoPiece, Foreign, Pieces
  <2>2. /\ location' = "wait_piece" /\ stored' \subseteq stored \cup {piece_idx}
        /\ pieces_files' = [pieces_files EXCEPT ![piece_idx] = worker[current].buffer]
        /\ output' = output
    BY <1>2 DEF WritePiece, stored, in_hand
  <2>3. \A i \in stored' : pieces_files'[i].piece # Old
    BY <1>0, <2>1, <2>2 DEF WrittenHere, stored
  <2> QED
    BY <2>2, <2>3 DEF WrittenHere, OutputOfThisDownload
<1>3. CASE GatherPiece
  <2>1. \A i \in Pieces : pieces_files[i].piece # Old
    BY <1>3 DEF GatherPiece, WrittenHere, stored, in_hand
  <2>2. OutputOfThisDownload'
    BY <1>0, <1>3, <2>1 DEF GatherPiece, WrittenHere, OutputOfThisDownload
  <2> QED
    BY <1>3, <2>1, <2>2 DEF GatherPiece, Raise, WrittenHere, stored, in_hand
<1>4. ASSUME ~Restart, ~WritePiece, ~GatherPiece PROVE WrittenHere'
  <2>1. runs' = runs /\ output' = output
    BY <1>4
       DEF Next, Coordinator, Exited, SetupStart, SetupJoin, SetupDone, LoopHead, StartWorker,
           StartsDone, WaitPiece, WaitsDone, PopPiece, OpenPiece, GatherDone, UnwindWorker,
           UnwindDone, Thread, coordinator, files, vars
  <2>2. \A i \in stored' : pieces_files'[i].piece # Old
    BY <2>1, <1>4, StoredByWriting, StoredStep DEF StoredStay, WrittenHere
  <2>3. location' \in {"gather", "done"} => pieces_to_download' = {}
    BY <1>4
       DEF WrittenHere, Next, Coordinator, Exited, SetupStart, SetupJoin, SetupDone, LoopHead,
           StartWorker, StartsDone, WaitPiece, AfterWait, WaitsDone, PopPiece, OpenPiece,
           GatherDone, UnwindWorker, UnwindDone, Thread, Raise, coordinator, vars
  <2> QED
    BY <2>1, <2>2, <2>3 DEF WrittenHere, OutputOfThisDownload
<1> QED
  BY <1>1, <1>2, <1>3, <1>4

\* If files can be written, nothing another download left in .pieces reaches the
\* output, whatever peers announce or send and however often the command is
\* killed and run again.
THEOREM OutputIsOfThisDownload ==
    ASSUME ~DiskFails
    PROVE  Spec => []OutputOfThisDownload
<1>1. Init => WrittenHere
  BY DEF Init, WrittenHere, stored, OutputOfThisDownload
<1>2. ProtocolInv /\ WrittenHere /\ [Next]_vars => WrittenHere'
  BY NextWrittenHere
<1>3. WrittenHere => OutputOfThisDownload
  BY DEF WrittenHere
<1> QED
  BY <1>1, <1>2, <1>3, ProtocolInvariant, PTL DEF Spec

--------------------------------------------------------------------------------
(***************************************************************************)
(* The coordinator as a caller of OneWorker.                               *)
(***************************************************************************)
\* Workers that setup_workers has not come to are new, those it keeps are
\* connected; the one it connects has no connection before its thread ends, nor
\* after it threw.
SetupKnown ==
    /\ location = "setup" => \A w \in Peers : w >= i_peer => worker[w] = NewWorker
    /\ location = "wait_connection" =>
         /\ \A w \in Peers : w > i_peer => worker[w] = NewWorker
         /\ LET r == worker[i_peer]
            IN  /\ r.thread \in {"connect", "ended"}
                /\ r.thread = "connect" => ~r.exception /\ ~r.is_peer_connection_established
                /\ r.exception => ~r.is_peer_connection_established
    /\ location \in {"setup", "wait_connection"} => \A w \in workers : w < i_peer
    /\ \A w \in workers : worker[w].is_peer_connection_established

\* A worker that threw is in have mode, or its thread is still to be joined and
\* its transfer incomplete, or the command ends.
ThrewKnown ==
    \A w \in Peers :
        LET r == worker[w]
        IN  /\ r.thread \in Running => ~r.is_piece_transfer_complete
            /\ r.exception /\ ~r.have_mode =>
                 \/ r.thread = "ended" /\ ~r.is_piece_transfer_complete
                 \/ location \in {"unwind", "failed"}

\* Every step keeps what is known of connections and exceptions.
LEMMA NextDriven ==
    ASSUME ProtocolInv, SetupKnown, ThrewKnown, [Next]_vars
    PROVE  SetupKnown' /\ ThrewKnown'
<1> USE DEF Using, started, HasEnded, Joinable, Running
<1>0. /\ AtWorker /\ ThreadsKnown /\ OutcomeKnown
      /\ worker \in [Peers -> Workers] /\ workers \subseteq Peers
      /\ current \in Nat /\ i_peer \in Nat /\ Peers \subseteq Nat
  BY CountsAssumption DEF ProtocolInv, TypeOK, Peers
<1> DEFINE Kept == SetupKnown' /\ ThrewKnown'
<1>1. ASSUME worker' = worker, workers' = workers,
             location' \notin {"setup", "wait_connection"},
             location \notin {"unwind", "failed"} \/ location' \in {"unwind", "failed"}
      PROVE  Kept
  BY <1>1 DEF SetupKnown, ThrewKnown
<1>2. CASE \/ SetupDone \/ LoopHead \/ StartsDone \/ WaitsDone \/ PopPiece \/ OpenPiece
           \/ WritePiece \/ GatherPiece \/ GatherDone \/ UnwindDone
  BY <1>1, <1>2
     DEF SetupDone, LoopHead, StartsDone, WaitsDone, PopPiece, OpenPiece, WritePiece,
         GatherPiece, GatherDone, UnwindDone, Raise
<1>3. CASE SetupStart
  <2>1. /\ location = "setup" /\ location' = "wait_connection" /\ i_peer \in Peers
        /\ i_peer' = i_peer /\ workers' = workers
        /\ worker' = [worker EXCEPT ![i_peer] = ConnectStarted(NewWorker)]
    BY <1>3 DEF SetupStart
  <2>2. /\ worker'[i_peer].thread = "connect" /\ ~worker'[i_peer].exception
        /\ ~worker'[i_peer].is_peer_connection_established
        /\ ~worker'[i_peer].is_piece_transfer_complete
        /\ \A w \in Peers \ {i_peer} : worker'[w] = worker[w]
    BY <1>0, <2>1 DEF ConnectStarted, NewWorker
  <2> QED
    BY <1>0, <2>1, <2>2 DEF SetupKnown, ThrewKnown
<1>4. CASE SetupJoin
  <2>1. /\ location = "wait_connection" /\ location' = "setup" /\ i_peer \in Peers
        /\ i_peer' = i_peer + 1
        /\ \A w \in Peers \ {i_peer} : worker'[w] = worker[w]
        /\ \/ /\ worker[i_peer].is_peer_connection_established
              /\ worker'[i_peer] = Joined(worker[i_peer])
              /\ workers' = workers \cup {i_peer}
           \/ worker'[i_peer] = NewWorker /\ workers' = workers
    BY <1>0, <1>4 DEF SetupJoin, AtWorker
  <2>2. /\ NewWorker.thread = "none" /\ ~NewWorker.exception
        /\ Joined(worker[i_peer]).thread = "none"
        /\ Joined(worker[i_peer]).exception = worker[i_peer].exception
        /\ Joined(worker[i_peer]).is_peer_connection_established
             = worker[i_peer].is_peer_connection_established
    BY <1>0, <2>1 DEF NewWorker, Joined, Workers
  <2>3. worker[i_peer].is_peer_connection_established => ~worker[i_peer].exception
    BY <2>1 DEF SetupKnown
  <2>4. SetupKnown'
    <3>1. \A w \in Peers : w >= i_peer + 1 => w # i_peer /\ w > i_peer
      BY <1>0
    <3>2. \A w \in Peers : w >= i_peer + 1 => worker'[w] = NewWorker
      BY <2>1, <3>1 DEF SetupKnown
    <3>3. \A w \in workers' : w < i_peer + 1
      <4>1. \A w \in workers : w < i_peer
        BY <2>1 DEF SetupKnown
      <4>2. \A w \in workers : w < i_peer + 1
        BY <1>0, <4>1
      <4>3. i_peer < i_peer + 1
        BY <1>0
      <4>4. workers' \subseteq workers \cup {i_peer}
        BY <2>1
      <4> QED
        BY <4>2, <4>3, <4>4
    <3>4. \A w \in workers' : worker'[w].is_peer_connection_established
      <4>1. \A w \in workers : w < i_peer /\ worker[w].is_peer_connection_established
        BY <2>1 DEF SetupKnown
      <4>2. \A w \in workers : worker'[w].is_peer_connection_established
        BY <1>0, <2>1, <4>1
      <4> QED
        BY <2>1, <2>2, <4>2
    <3> QED
      BY <2>1, <3>2, <3>3, <3>4 DEF SetupKnown
  <2>5. ThrewKnown'
    <3>1. ASSUME NEW w \in Peers \ {i_peer}
          PROVE  /\ worker[w].thread \in Running => ~worker[w].is_piece_transfer_complete
                 /\ ~started(worker[w])
                 /\ worker[w].exception => worker[w].have_mode
      BY <1>0, <2>1 DEF ThrewKnown, ThreadsKnown, ThreadOf
    <3> QED
      BY <2>1, <2>2, <2>3, <3>1 DEF ThrewKnown
  <2> QED
    BY <2>4, <2>5
<1>5. ASSUME NEW w \in Peers, NEW i \in Pieces, StartWorker(w, i) PROVE Kept
  <2>1. /\ w \in workers /\ ~started(worker[w]) /\ location = "start" /\ location' = "start"
        /\ workers' = workers
        /\ worker' = [worker EXCEPT ![w] = DownloadStarted(@, i)]
    BY <1>5 DEF StartWorker, IsNext, available
  <2>2. /\ worker'[w].exception = worker[w].exception
        /\ worker'[w].have_mode = worker[w].have_mode
        /\ worker'[w].is_peer_connection_established = worker[w].is_peer_connection_established
        /\ ~worker'[w].is_piece_transfer_complete
        /\ \A v \in Peers \ {w} : worker'[v] = worker[v]
    BY <1>0, <2>1 DEF DownloadStarted, Workers
  <2> QED
    BY <1>0, <2>1, <2>2 DEF SetupKnown, ThrewKnown
\* A thread is joined.
<1>6. ASSUME NEW w \in Peers, worker' = [worker EXCEPT ![w] = Joined(@)],
             workers' = workers,
             location' \notin {"setup", "wait_connection"},
             location \notin {"unwind", "failed"} \/ location' \in {"unwind", "failed"},
             \/ worker[w].exception /\ ~worker[w].have_mode => location' \in {"unwind", "failed"}
      PROVE  Kept
  <2>1. /\ worker'[w].exception = worker[w].exception
        /\ worker'[w].have_mode = worker[w].have_mode
        /\ worker'[w].is_peer_connection_established = worker[w].is_peer_connection_established
        /\ worker'[w].thread = "none"
        /\ \A v \in Peers \ {w} : worker'[v] = worker[v]
    BY <1>0, <1>6 DEF Joined, Workers
  <2> QED
    BY <1>0, <1>6, <2>1 DEF SetupKnown, ThrewKnown
<1>7. ASSUME NEW w \in Peers, WaitPiece(w) PROVE Kept
  <2>1. /\ location = "wait_piece" /\ location' = AfterWait(worker[w])
        /\ workers' = workers
        /\ worker' = [worker EXCEPT ![w] = Joined(@)]
    BY <1>7 DEF WaitPiece
  <2>2. worker[w].exception /\ ~worker[w].have_mode => ~worker[w].is_piece_transfer_complete
    BY <2>1 DEF ThrewKnown
  <2> QED
    BY <1>6, <2>1, <2>2 DEF AfterWait
<1>8. ASSUME NEW w \in Peers, UnwindWorker(w) PROVE Kept
  BY <1>6, <1>8 DEF UnwindWorker, coordinator
<1>9. ASSUME NEW w \in Peers, Thread(w) PROVE Kept
  <2>1. /\ location' = location /\ i_peer' = i_peer /\ workers' = workers
        /\ CheckConnection(w) \/ DownloadStep(w)
    BY <1>9 DEF Thread, coordinator
  <2> DEFINE r == worker[w]
             s == worker'[w]
  <2>2. /\ \A v \in Peers \ {w} : worker'[v] = worker[v]
        /\ started(r) /\ started(s) /\ ~HasEnded(r)
        /\ r.thread # "connect" => s.thread # "connect"
    BY <1>0, <2>1, ThreadOutcome
  <2>3. ~r.is_piece_transfer_complete
    BY <2>2 DEF ThrewKnown
  <2>4. /\ s.thread \in Running => ~s.is_piece_transfer_complete
        /\ s.exception => r.exception \/ (s.thread = "ended" /\ ~s.is_piece_transfer_complete)
        /\ r.have_mode => s.have_mode
        /\ r.is_peer_connection_established => s.is_peer_connection_established
    BY <1>0, <2>1, <2>3, ThreadKeeps
  <2> HIDE DEF r, s
  <2>5. ThrewKnown'
    <3>1. s.exception /\ ~s.have_mode =>
            \/ s.thread = "ended" /\ ~s.is_piece_transfer_complete
            \/ location' \in {"unwind", "failed"}
      <4>1. r.exception /\ ~r.have_mode => location \in {"unwind", "failed"}
        BY <2>2 DEF ThrewKnown, r
      <4> QED
        BY <2>1, <2>4, <4>1
    <3>2. ASSUME NEW v \in Peers \ {w}
          PROVE  /\ worker[v].thread \in Running => ~worker[v].is_piece_transfer_complete
                 /\ worker[v].exception /\ ~worker[v].have_mode =>
                      \/ worker[v].thread = "ended" /\ ~worker[v].is_piece_transfer_complete
                      \/ location \in {"unwind", "failed"}
      BY DEF ThrewKnown
    <3> QED
      BY <2>1, <2>2, <2>4, <3>1, <3>2 DEF ThrewKnown, s
  <2>6. CASE location = "wait_connection"
    <3>1. w = i_peer
      BY <1>0, <2>2, <2>6 DEF ThreadsKnown, ThreadOf, r
    <3>2. CheckConnection(w) /\ r.thread = "connect" /\ ~r.exception
            /\ ~r.is_peer_connection_established
      BY <2>1, <2>2, <2>6, <3>1
         DEF SetupKnown, CheckConnection, DownloadStep, EnterDownload, WaitHave,
             ReceiveBlock, FailBlock, FinishPiece, r
    <3>3. s.thread = "ended" /\ (s.exception => ~s.is_peer_connection_established)
      <4>1. r \in Workers
        BY <1>0 DEF r
      <4>2. \/ \E h : s = [Connected(r, h) EXCEPT !.thread = "ended"]
            \/ s = Threw(r)
        BY <1>0, <3>2 DEF CheckConnection, r, s
      <4> QED
        BY <3>2, <4>1, <4>2 DEF Connected, Threw, Workers
    <3> QED
      BY <1>0, <2>1, <2>2, <2>4, <2>5, <2>6, <3>1, <3>3 DEF SetupKnown, r, s
  <2>7. CASE location # "wait_connection"
    <3>1. location # "setup"
      BY <1>0, <2>2 DEF ThreadsKnown, ThreadOf, r
    <3> QED
      BY <1>0, <2>1, <2>2, <2>4, <2>5, <2>7, <3>1 DEF SetupKnown, r, s
  <2> QED
    BY <2>6, <2>7
<1>10. CASE Restart
  BY <1>10 DEF Restart, NewWorkers, NewWorker, SetupKnown, ThrewKnown
<1>11. CASE UNCHANGED vars
  BY <1>11 DEF vars, coordinator, SetupKnown, ThrewKnown
<1> QED
  BY <1>2, <1>3, <1>4, <1>5, <1>7, <1>8, <1>9, <1>10, <1>11
     DEF Next, Coordinator, Exited

\* The threads of OneWorker are those of this module's workers.
LEMMA SameThread ==
    ASSUME NEW w \in Peers
    PROVE  /\ CheckConnection(w) => OW!CheckConnection(w)
           /\ DownloadStep(w) => OW!DownloadStep(w)
<1>0. NoPiece = OW!NoPiece /\ Foreign = OW!Foreign /\ Pieces = OW!Pieces
  BY DEF NoPiece, OW!NoPiece, Foreign, OW!Foreign, Pieces, OW!Pieces
<1>1. /\ \A v : InterestedAnswers(v) = OW!InterestedAnswers(v)
      /\ \A r, h : Connected(r, h) = OW!Connected(r, h)
      /\ \A r : Threw(r) = OW!Threw(r)
      /\ \A r : Returned(r) = OW!Returned(r)
      /\ \A r : FrameLost(r) = OW!FrameLost(r)
      /\ \A r : MaybeFrameLost(r) = OW!MaybeFrameLost(r)
  BY <1>0 DEF InterestedAnswers, OW!InterestedAnswers, Connected, OW!Connected, Threw,
         OW!Threw, Returned, OW!Returned, FrameLost, OW!FrameLost,
         MaybeFrameLost, OW!MaybeFrameLost
<1>2. /\ \A r : Cleared(r) = OW!Cleared(r)
      /\ \A r : Recorded(r) = OW!Recorded(r)
      /\ \A r, i : WithPiece(r, i) = OW!WithPiece(r, i)
      /\ \A s, k : Without(s, k) = OW!Without(s, k)
  BY <1>0 DEF Cleared, OW!Cleared, Empty, OW!Empty, Recorded, OW!Recorded,
         WithPiece, OW!WithPiece, Without, OW!Without
<1>3. /\ \A i : piece_len(i) = OW!piece_len(i)
      /\ \A i : PieceSize(i) = OW!PieceSize(i)
      /\ \A a, b : size_sub(a, b) = OW!size_sub(a, b)
      /\ \A a, b : size_add(a, b) = OW!size_add(a, b)
  BY DEF piece_len, OW!piece_len, PieceSize, OW!PieceSize, size_sub, OW!size_sub,
         size_add, OW!size_add
<1>4. \A i, n : block_len(i, n) = OW!block_len(i, n)
  BY <1>3 DEF block_len, OW!block_len
<1>5. /\ \A r : Request(r) = OW!Request(r)
      /\ \A r : MoreToReceive(r) = OW!MoreToReceive(r)
      /\ \A r : AnyBytes(r) = OW!AnyBytes(r)
      /\ \A v, q : Answers(v, q) = OW!Answers(v, q)
  BY <1>0, <1>3, <1>4
     DEF Request, OW!Request, MoreToReceive, OW!MoreToReceive, AnyBytes, OW!AnyBytes,
         Answers, OW!Answers
<1>6. \A b, block : ostream_write(b, block) = OW!ostream_write(b, block)
  BY <1>0 DEF ostream_write, OW!ostream_write
<1>7. \A r, block : WithBlock(r, block) = OW!WithBlock(r, block)
  BY <1>3, <1>6 DEF WithBlock, OW!WithBlock
<1>8. CheckConnection(w) => OW!CheckConnection(w)
  BY <1>0, <1>1 DEF CheckConnection, OW!CheckConnection
<1>9. EnterDownload(w) => OW!EnterDownload(w)
  BY <1>0, <1>1, <1>2 DEF EnterDownload, OW!EnterDownload
<1>10. WaitHave(w) => OW!WaitHave(w)
  BY <1>0, <1>1, <1>2 DEF WaitHave, OW!WaitHave
<1>11. ReceiveBlock(w) => OW!ReceiveBlock(w)
  BY <1>2, <1>3, <1>5, <1>7 DEF ReceiveBlock, OW!ReceiveBlock
<1>12. FailBlock(w) => OW!FailBlock(w)
  BY <1>1, <1>5 DEF FailBlock, OW!FailBlock
<1>13. FinishPiece(w) => OW!FinishPiece(w)
  BY <1>1, <1>2, <1>5 DEF FinishPiece, OW!FinishPiece
<1> QED
  BY <1>8, <1>9, <1>10, <1>11, <1>12, <1>13 DEF DownloadStep, OW!DownloadStep

\* Within a run every step is one that OneWorker allows, or leaves the workers alone.
LEMMA DriveStep ==
    ASSUME ProtocolInv, SetupKnown, ThrewKnown, [Next]_vars, runs' = runs
    PROVE  OW!WorkerNext \/ UNCHANGED worker
<1> USE DEF Using, started, HasEnded, Joinable, Running
<1>0. /\ AtWorker /\ ThreadsKnown /\ runs \in Nat
      /\ worker \in [Peers -> Workers] /\ workers \subseteq Peers
      /\ i_peer \in Nat /\ Peers = OW!Peers /\ Pieces = OW!Pieces
  BY CountsAssumption DEF ProtocolInv, TypeOK, Peers, OW!Peers, Pieces, OW!Pieces
<1>1. /\ NewWorker = OW!NewWorker
      /\ \A r : ConnectStarted(r) = OW!ConnectStarted(r)
      /\ \A r, i : DownloadStarted(r, i) = OW!DownloadStarted(r, i)
      /\ \A r : Joined(r) = OW!Joined(r)
      /\ \A r : HasEnded(r) <=> OW!HasEnded(r)
      /\ \A r : started(r) <=> OW!started(r)
  BY DEF NewWorker, OW!NewWorker, Empty, OW!Empty, NoPiece, OW!NoPiece, ConnectStarted,
         OW!ConnectStarted, DownloadStarted, OW!DownloadStarted, Joined, OW!Joined,
         OW!HasEnded, OW!started, OW!Joinable, OW!Running
<1>2. CASE SetupStart
  <2>1. i_peer \in Peers /\ worker[i_peer] = NewWorker
    BY <1>0, <1>2 DEF SetupStart, SetupKnown
  <2>2. OW!StartConnect(i_peer)
    BY <1>1, <1>2, <2>1 DEF SetupStart, OW!StartConnect
  <2> QED
    BY <1>0, <2>1, <2>2 DEF OW!WorkerNext, OW!Call
<1>3. CASE SetupJoin
  <2>1. i_peer \in Peers
    BY <1>0, <1>3 DEF SetupJoin, AtWorker
  <2>2. OW!Join(i_peer) \/ OW!Discard(i_peer)
    BY <1>1, <1>3 DEF SetupJoin, OW!Join, OW!Discard
  <2> QED
    BY <1>0, <2>1, <2>2 DEF OW!WorkerNext, OW!Call
<1>4. ASSUME NEW w \in Peers, NEW i \in Pieces, StartWorker(w, i) PROVE OW!WorkerNext
  <2>1. /\ w \in workers /\ ~started(worker[w]) /\ location = "start"
        /\ worker' = [worker EXCEPT ![w] = DownloadStarted(@, i)]
    BY <1>4 DEF StartWorker, IsNext, available
  <2>2. worker[w].is_peer_connection_established
    BY <2>1 DEF SetupKnown
  <2>3. worker[w].exception => worker[w].have_mode
    BY <2>1 DEF ThrewKnown
  <2>4. OW!StartDownload(w, i)
    BY <1>1, <2>1, <2>2, <2>3 DEF OW!StartDownload, OW!Usable
  <2> QED
    BY <1>0, <2>4 DEF OW!WorkerNext, OW!Call
<1>5. ASSUME NEW w \in Peers, WaitPiece(w) \/ UnwindWorker(w) PROVE OW!WorkerNext
  <2>1. OW!Join(w)
    BY <1>1, <1>5 DEF WaitPiece, UnwindWorker, OW!Join
  <2> QED
    BY <1>0, <2>1 DEF OW!WorkerNext, OW!Call
<1>6. ASSUME NEW w \in Peers, Thread(w) PROVE OW!WorkerNext
  BY <1>0, <1>6, SameThread DEF Thread, OW!WorkerNext
<1>7. CASE \/ SetupDone \/ LoopHead \/ StartsDone \/ WaitsDone \/ PopPiece \/ OpenPiece
           \/ WritePiece \/ GatherPiece \/ GatherDone \/ UnwindDone
  BY <1>7 DEF SetupDone, LoopHead, StartsDone, WaitsDone, PopPiece, OpenPiece, WritePiece,
              GatherPiece, GatherDone, UnwindDone
<1>8. ~Restart
  BY <1>0 DEF Restart
<1>9. CASE UNCHANGED vars
  BY <1>9 DEF vars
<1> QED
  BY <1>2, <1>3, <1>4, <1>5, <1>6, <1>7, <1>8, <1>9 DEF Next, Coordinator, Exited

\* Within a run download_file starts and joins the threads of its workers only as
\* OneWorker lets a caller do: above all no worker that threw is used again unless
\* it is in have mode.
THEOREM WorkersAreDriven == Spec => DrivesWorkers
<1>1. Init => SetupKnown /\ ThrewKnown
  BY DEF Init, NewWorkers, NewWorker, SetupKnown, ThrewKnown, Running
<1>2. ProtocolInv /\ SetupKnown /\ ThrewKnown /\ [Next]_vars => SetupKnown' /\ ThrewKnown'
  BY NextDriven
<1>3. ProtocolInv /\ SetupKnown /\ ThrewKnown /\ [Next]_vars
        => [runs' = runs => OW!WorkerNext]_worker
  BY DriveStep
<1> QED
  BY <1>1, <1>2, <1>3, ProtocolInvariant, PTL DEF Spec, DrivesWorkers

--------------------------------------------------------------------------------
(***************************************************************************)
(* The data the coordinator takes from a worker.                           *)
(***************************************************************************)
\* What is known of every worker, and of the one whose piece is being stored.
WorkersSound == \A w \in Peers : WorkerSound(w, worker[w])
TakenIsComplete == location \in Using => worker[current].is_piece_transfer_complete

\* Every step keeps what is known of the workers.
LEMMA NextSound ==
    ASSUME ProtocolInv, ThrewKnown, WorkersSound, [Next]_vars
    PROVE  WorkersSound'
<1> USE DEF started, HasEnded, Joinable, Running
<1>0. /\ AtWorker /\ worker \in [Peers -> Workers] /\ workers \subseteq Peers
      /\ \A w \in Peers : worker[w] \in Workers /\ WorkerSound(w, worker[w])
  BY DEF ProtocolInv, TypeOK, WorkersSound
\* One worker changes, or none.
<1>1. ASSUME NEW w \in Peers, NEW s, WorkerSound(w, s),
             worker' = [worker EXCEPT ![w] = s]
      PROVE  WorkersSound'
  BY <1>0, <1>1 DEF WorkersSound
<1>2. ASSUME UNCHANGED worker PROVE WorkersSound'
  BY <1>2 DEF WorkersSound
<1>3. CASE SetupStart
  BY <1>1, <1>3, NewWorkerSound DEF SetupStart
<1>4. CASE SetupJoin
  <2>1. i_peer \in Peers /\ worker[i_peer].thread = "ended"
    BY <1>0, <1>4 DEF SetupJoin, AtWorker
  <2>2. WorkerSound(i_peer, Joined(worker[i_peer])) /\ WorkerSound(i_peer, NewWorker)
    BY <1>0, <2>1, SoundCalls, NewWorkerSound
  <2> QED
    BY <1>1, <1>4, <2>1, <2>2 DEF SetupJoin
<1>5. ASSUME NEW w \in Peers, NEW i \in Pieces, StartWorker(w, i) PROVE WorkersSound'
  <2>1. /\ worker[w].thread = "none" /\ location = "start"
        /\ worker' = [worker EXCEPT ![w] = DownloadStarted(@, i)]
    <3>1. ~started(worker[w]) /\ location = "start"
      BY <1>5 DEF StartWorker, IsNext, available
    <3> QED
      BY <1>0, <1>5, <3>1 DEF StartWorker, Workers
  <2>2. worker[w].exception => worker[w].have_mode
    BY <2>1 DEF ThrewKnown
  <2>3. WorkerSound(w, DownloadStarted(worker[w], i))
    BY <1>0, <2>1, <2>2, SoundCalls
  <2> QED
    BY <1>1, <2>1, <2>3
<1>6. ASSUME NEW w \in Peers, WaitPiece(w) \/ UnwindWorker(w) PROVE WorkersSound'
  <2>1. worker[w].thread = "ended" /\ worker' = [worker EXCEPT ![w] = Joined(@)]
    BY <1>6 DEF WaitPiece, UnwindWorker
  <2>2. WorkerSound(w, Joined(worker[w]))
    BY <1>0, <2>1, SoundCalls
  <2> QED
    BY <1>1, <2>1, <2>2
<1>7. ASSUME NEW w \in Peers, Thread(w) PROVE WorkersSound'
  <2>1. WorkerSound(w, worker'[w])
    BY <1>0, <1>7, SoundThread DEF Thread
  <2>2. \A v \in Peers \ {w} : worker'[v] = worker[v]
    BY <1>0, <1>7, ThreadOutcome DEF Thread
  <2> QED
    BY <1>0, <2>1, <2>2 DEF WorkersSound
<1>8. CASE Restart
  <2>1. \A w \in Peers : worker'[w] = NewWorker
    BY <1>8 DEF Restart, NewWorkers
  <2>2. \A w \in Peers : WorkerSound(w, NewWorker)
    BY NewWorkerSound
  <2> QED
    BY <2>1, <2>2 DEF WorkersSound
<1>9. CASE \/ SetupDone \/ LoopHead \/ StartsDone \/ WaitsDone \/ PopPiece \/ OpenPiece
           \/ WritePiece \/ GatherPiece \/ GatherDone \/ UnwindDone
  BY <1>2, <1>9
     DEF SetupDone, LoopHead, StartsDone, WaitsDone, PopPiece, OpenPiece, WritePiece,
         GatherPiece, GatherDone, UnwindDone
<1>10. CASE UNCHANGED vars
  BY <1>2, <1>10 DEF vars
<1> QED
  BY <1>3, <1>4, <1>5, <1>6, <1>7, <1>8, <1>9, <1>10 DEF Next, Coordinator, Exited

\* The coordinator takes data only from a worker whose transfer is complete; no
\* thread touches that worker until it is done with it.
LEMMA NextTaken ==
    ASSUME ProtocolInv, TakenIsComplete, [Next]_vars
    PROVE  TakenIsComplete'
<1> USE DEF Using
<1>0. /\ AtWorker /\ ThreadsKnown /\ worker \in [Peers -> Workers]
      /\ workers \subseteq Peers /\ current \in Nat /\ Peers \subseteq Nat
  BY CountsAssumption DEF ProtocolInv, TypeOK, Peers
<1>1. ASSUME NEW w \in Peers, WaitPiece(w) PROVE TakenIsComplete'
  <2>1. /\ current' = w /\ location' = AfterWait(worker[w])
        /\ worker' = [worker EXCEPT ![w] = Joined(@)]
    BY <1>1 DEF WaitPiece
  <2>2. worker'[w].is_piece_transfer_complete = worker[w].is_piece_transfer_complete
    BY <1>0, <2>1 DEF Joined, Workers
  <2> QED
    BY <2>1, <2>2 DEF AfterWait, TakenIsComplete
<1>2. ASSUME NEW w \in Peers, Thread(w) PROVE TakenIsComplete'
  <2>1. location' = location /\ current' = current
    BY <1>2 DEF Thread, coordinator
  <2>2. started(worker[w]) /\ \A v \in Peers \ {w} : worker'[v] = worker[v]
    BY <1>0, <1>2, ThreadOutcome DEF Thread
  <2>3. location \in Using => current # w /\ current \in Peers
    BY <1>0, <2>2 DEF AtWorker, ThreadsKnown, ThreadOf
  <2> QED
    BY <2>1, <2>2, <2>3 DEF TakenIsComplete
<1>3. CASE PopPiece \/ OpenPiece \/ WritePiece
  BY <1>3 DEF PopPiece, Raise, OpenPiece, WritePiece, TakenIsComplete
<1>4. ASSUME location' \notin Using PROVE TakenIsComplete'
  BY <1>4 DEF TakenIsComplete
<1>5. CASE \/ SetupStart \/ SetupJoin \/ SetupDone \/ LoopHead \/ StartsDone
           \/ WaitsDone \/ GatherPiece \/ GatherDone \/ UnwindDone \/ Restart
  BY <1>4, <1>5
     DEF SetupStart, SetupJoin, SetupDone, LoopHead, StartsDone, WaitsDone,
         GatherPiece, GatherDone, UnwindDone, Restart, Raise
<1>6. ASSUME NEW w \in Peers, NEW i \in Pieces, StartWorker(w, i) PROVE TakenIsComplete'
  BY <1>4, <1>6 DEF StartWorker, Raise
<1>7. ASSUME NEW w \in Peers, UnwindWorker(w) PROVE TakenIsComplete'
  BY <1>4, <1>7 DEF UnwindWorker, coordinator
<1>8. CASE UNCHANGED vars
  BY <1>8 DEF vars, coordinator, TakenIsComplete
<1> QED
  BY <1>1, <1>2, <1>3, <1>5, <1>6, <1>7, <1>8 DEF Next, Coordinator, Exited

\* What the coordinator takes was handed over by a worker without a thread.
LEMMA TakenSound ==
    ASSUME ProtocolInv, WorkersSound, TakenIsComplete
    PROVE  TakenPieceIsRight
<1>1. SUFFICES ASSUME location \in Using PROVE HandsOver(current, worker[current])
  BY DEF TakenPieceIsRight
<1>2. current \in Peers /\ current \in Nat /\ ~started(worker[current])
  BY <1>1, CountsAssumption
     DEF ProtocolInv, TypeOK, AtWorker, ThreadsKnown, ThreadOf, Using, Peers
<1> QED
  BY <1>1, <1>2 DEF WorkersSound, WorkerSound, TakenIsComplete, started, Joinable

\* Whatever is known of the workers holds in every reachable state.
LEMMA WorkersInvariant == Spec => [](ProtocolInv /\ WorkersSound /\ TakenIsComplete)
<1>1. Init => /\ SetupKnown /\ ThrewKnown
              /\ WorkersSound /\ TakenIsComplete
  <2> SUFFICES ASSUME Init PROVE SetupKnown /\ ThrewKnown /\ WorkersSound /\ TakenIsComplete
    OBVIOUS
  <2>1. SetupKnown /\ ThrewKnown /\ TakenIsComplete
    BY DEF Init, NewWorkers, NewWorker, SetupKnown, ThrewKnown, Running, TakenIsComplete,
           Using
  <2>2. \A w \in Peers : WorkerSound(w, NewWorker)
    BY NewWorkerSound
  <2> QED
    BY <2>1, <2>2 DEF Init, NewWorkers, WorkersSound
<1>2. ProtocolInv /\ SetupKnown /\ ThrewKnown /\ [Next]_vars => SetupKnown' /\ ThrewKnown'
  BY NextDriven
<1>3. ProtocolInv /\ ThrewKnown /\ WorkersSound /\ [Next]_vars => WorkersSound'
  BY NextSound
<1>4. ProtocolInv /\ TakenIsComplete /\ [Next]_vars => TakenIsComplete'
  BY NextTaken
<1> QED
  BY <1>1, <1>2, <1>3, <1>4, ProtocolInvariant, PTL DEF Spec

\* Whatever peers send, leave unanswered or announce, and whatever the disk does:
\* the data write_piece gets from a worker is all of the piece that is popped, or
\* the worker is in have mode and has nothing, or an answer to it is still due.
THEOREM TakenPiecesAreRight == Spec => []TakenPieceIsRight
<1>1. ProtocolInv /\ WorkersSound /\ TakenIsComplete => TakenPieceIsRight
  BY TakenSound
<1> QED
  BY <1>1, WorkersInvariant, PTL

\* The loop of _download_piece never runs past the end of its piece, whatever other
\* workers and their peers do: only a worker that is behind with its peer, in have
\* mode, may count more bytes than the piece has.
THEOREM RemainsDoNotWrap == Spec => []RemainDoesNotWrap
<1>1. ASSUME ProtocolInv, WorkersSound PROVE RemainDoesNotWrap
  <2>1. SUFFICES ASSUME NEW w \in Peers, worker[w].thread = "block",
                        ~(worker[w].have_mode /\ ~Undisturbed(worker[w]))
                 PROVE  worker[w].received_bytes <= piece_len(worker[w].piece_idx)
    BY DEF RemainDoesNotWrap
  <2>2. WorkerSound(w, worker[w])
    BY <1>1 DEF WorkersSound
  <2>3. Undisturbed(worker[w])
    BY <2>1, <2>2 DEF WorkerSound, Running
  <2> QED
    BY <2>1, <2>2, <2>3 DEF WorkerSound, PrefixFrom
<1> QED
  BY <1>1, WorkersInvariant, PTL

--------------------------------------------------------------------------------
(***************************************************************************)
(* If no peer announces pieces: one worker.                                *)
(***************************************************************************)
\* A step of a download keeps a worker on the piece it was started on.
LEMMA IndexDownload ==
    ASSUME worker \in [Peers -> Workers], NEW w \in Peers,
           OnIndex(worker[w]), DownloadStep(w)
    PROVE  OnIndex(worker'[w]) /\ worker'[w].index = worker[w].index
<1> DEFINE r == worker[w]
           Fits(s) == OnIndex(s) /\ s.index = r.index
<1>0. r \in Workers /\ OnIndex(r)
  OBVIOUS
<1> SUFFICES \E s : Fits(s) /\ worker' = [worker EXCEPT ![w] = s]
  BY <1>0
<1>1. CASE EnterDownload(w)
  <2> DEFINE s == WithPiece(Cleared(r), r.index)
  <2>1. r.thread = "enter" /\ ~r.is_piece_transfer_complete
    BY <1>0, <1>1 DEF EnterDownload, OnIndex
  <2>2. worker' = [worker EXCEPT ![w] = s]
    BY <1>0, <1>1 DEF EnterDownload, OnIndex, Cleared, Workers
  <2>3. /\ s.thread \in {"block", "dial"} /\ s.piece_idx = r.index /\ s.index = r.index
        /\ s.have_mode = r.have_mode /\ s.have_piece_idx = NoPiece
        /\ s.is_piece_transfer_complete = r.is_piece_transfer_complete
    BY <1>0 DEF WithPiece, Cleared, Workers
  <2> HIDE DEF s
  <2> QED
    BY <1>0, <2>1, <2>2, <2>3 DEF OnIndex
<1>2. ~WaitHave(w)
  BY <1>0 DEF WaitHave, OnIndex
<1>3. CASE ReceiveBlock(w)
  <2>1. PICK block, u :
          worker' = [worker EXCEPT ![w] = [WithBlock(r, block) EXCEPT !.unanswered = u]]
    <3>1. \A block : WithBlock(r, block) =
                       [WithBlock(r, block) EXCEPT !.unanswered = r.unanswered]
      BY <1>0 DEF WithBlock, Workers
    <3> QED
      BY <1>3, <3>1 DEF ReceiveBlock
  <2> DEFINE s == [WithBlock(r, block) EXCEPT !.unanswered = u]
  <2>2. /\ s.thread = r.thread /\ s.piece_idx = r.piece_idx /\ s.index = r.index
        /\ s.have_mode = r.have_mode /\ s.have_piece_idx = r.have_piece_idx
        /\ s.is_piece_transfer_complete = r.is_piece_transfer_complete
        /\ s.last_piece_idx = r.last_piece_idx
    BY <1>0 DEF WithBlock, Workers
  <2> HIDE DEF s
  <2> QED
    BY <1>0, <2>1, <2>2 DEF OnIndex, s
<1>4. CASE FailBlock(w)
  <2>1. r.thread = "block" /\ ~r.is_piece_transfer_complete
    BY <1>0, <1>4 DEF FailBlock, OnIndex
  <2>2. PICK t \in {[r EXCEPT !.unanswered = Append(@, Request(r))], FrameLost(r)} :
          worker' = [worker EXCEPT ![w] = Threw(t)]
    BY <1>4 DEF FailBlock
  <2>3. t \in Workers
    BY <1>0, <2>2, EndType, OpenRequestType
  <2>4. /\ t.index = r.index /\ t.have_mode = r.have_mode
        /\ t.have_piece_idx = r.have_piece_idx
        /\ t.is_piece_transfer_complete = r.is_piece_transfer_complete
    BY <1>0, <2>2 DEF FrameLost, Workers
  <2>5. /\ Threw(t).index = t.index /\ Threw(t).have_mode = t.have_mode
        /\ Threw(t).have_piece_idx = t.have_piece_idx
        /\ Threw(t).is_piece_transfer_complete = t.is_piece_transfer_complete
        /\ Threw(t).thread = "ended"
    BY <2>3 DEF Threw, Workers
  <2> QED
    BY <1>0, <2>1, <2>2, <2>4, <2>5 DEF OnIndex
<1>5. CASE FinishPiece(w)
  <2> DEFINE s == Returned(Recorded(r))
  <2>1. r.thread = "block" /\ worker' = [worker EXCEPT ![w] = s]
    BY <1>5 DEF FinishPiece
  <2>2. /\ s.index = r.index /\ s.thread = "ended" /\ s.last_piece_idx = r.piece_idx
        /\ s.have_piece_idx = NoPiece /\ s.have_mode = r.have_mode
    BY <1>0 DEF Returned, Recorded, Workers
  <2> HIDE DEF s
  <2> QED
    BY <1>0, <2>1, <2>2 DEF OnIndex
<1> QED
  BY <1>1, <1>2, <1>3, <1>4, <1>5 DEF DownloadStep

\* So does a step of check_connection.
LEMMA IndexConnection ==
    ASSUME HavePeers = {}, worker \in [Peers -> Workers], NEW w \in Peers,
           OnIndex(worker[w]), CheckConnection(w)
    PROVE  OnIndex(worker'[w])
<1> DEFINE r == worker[w]
           c == [Connected(r, NoPiece) EXCEPT !.thread = "ended"]
<1>0. r \in Workers /\ OnIndex(r) /\ r.thread = "connect" /\ ~r.is_piece_transfer_complete
  BY DEF CheckConnection, OnIndex
<1>1. worker' = [worker EXCEPT ![w] = c] \/ worker' = [worker EXCEPT ![w] = Threw(r)]
  BY DEF CheckConnection, InterestedAnswers
<1>2. /\ c.thread = "ended" /\ ~c.have_mode /\ c.have_piece_idx = NoPiece
      /\ ~c.is_piece_transfer_complete
  BY <1>0 DEF Connected, Workers, OnIndex
<1>3. /\ Threw(r).thread = "ended" /\ ~Threw(r).have_mode
      /\ Threw(r).have_piece_idx = NoPiece
      /\ ~Threw(r).is_piece_transfer_complete
  BY <1>0 DEF Threw, Workers, OnIndex
<1> HIDE DEF c
<1> QED
  BY <1>1, <1>2, <1>3 DEF OnIndex

\* And what the coordinator does with a worker.
LEMMA IndexCalls ==
    ASSUME NEW r \in Workers, OnIndex(r)
    PROVE  /\ OnIndex(Joined(r))
           /\ \A i \in Pieces : OnIndex(DownloadStarted(r, i))
<1>1. /\ Joined(r).thread = "none" /\ Joined(r).have_mode = r.have_mode
      /\ Joined(r).have_piece_idx = r.have_piece_idx
      /\ Joined(r).index = r.index /\ Joined(r).last_piece_idx = r.last_piece_idx
      /\ Joined(r).is_piece_transfer_complete = r.is_piece_transfer_complete
  BY DEF Joined, Workers
<1>2. ASSUME NEW i \in Pieces PROVE OnIndex(DownloadStarted(r, i))
  <2> DEFINE s == DownloadStarted(r, i)
  <2>1. /\ s.thread = "enter" /\ s.have_mode = r.have_mode
        /\ s.have_piece_idx = r.have_piece_idx /\ ~s.is_piece_transfer_complete
    BY DEF DownloadStarted, Workers
  <2> HIDE DEF s
  <2>2. OnIndex(s)
    BY <2>1 DEF OnIndex
  <2> QED
    BY <2>2 DEF s
<1> QED
  BY <1>1, <1>2 DEF OnIndex

\* A new worker, and one that starts to connect.
LEMMA NewOnIndex == OnIndex(NewWorker) /\ OnIndex(ConnectStarted(NewWorker))
BY DEF OnIndex, NewWorker, ConnectStarted

--------------------------------------------------------------------------------
(***************************************************************************)
(* If no peer announces pieces: all workers, and the pieces of a round.    *)
(***************************************************************************)
\* Every step keeps every worker on the piece it was started on.
LEMMA IndexWorkers ==
    ASSUME HavePeers = {}, ProtocolInv, WorkersOnIndex, [Next]_vars
    PROVE  WorkersOnIndex'
<1>0. /\ AtWorker /\ worker \in [Peers -> Workers]
      /\ \A w \in Peers : worker[w] \in Workers /\ OnIndex(worker[w])
  BY DEF ProtocolInv, TypeOK, WorkersOnIndex
<1>1. ASSUME NEW w \in Peers, NEW s, OnIndex(s), worker' = [worker EXCEPT ![w] = s]
      PROVE  WorkersOnIndex'
  BY <1>0, <1>1 DEF WorkersOnIndex
<1>2. ASSUME UNCHANGED worker PROVE WorkersOnIndex'
  BY <1>2 DEF WorkersOnIndex
<1>3. CASE SetupStart
  BY <1>1, <1>3, NewOnIndex DEF SetupStart
<1>4. CASE SetupJoin
  <2>1. i_peer \in Peers
    BY <1>0, <1>4 DEF SetupJoin, AtWorker
  <2> QED
    BY <1>0, <1>1, <1>4, <2>1, IndexCalls, NewOnIndex DEF SetupJoin
<1>5. ASSUME NEW w \in Peers, NEW i \in Pieces, StartWorker(w, i) PROVE WorkersOnIndex'
  BY <1>0, <1>1, <1>2, <1>5, IndexCalls DEF StartWorker
<1>6. ASSUME NEW w \in Peers, WaitPiece(w) \/ UnwindWorker(w) PROVE WorkersOnIndex'
  BY <1>0, <1>1, <1>6, IndexCalls DEF WaitPiece, UnwindWorker
<1>7. ASSUME NEW w \in Peers, Thread(w) PROVE WorkersOnIndex'
  <2>1. OnIndex(worker'[w])
    BY <1>0, <1>7, IndexDownload, IndexConnection DEF Thread
  <2>2. \A v \in Peers \ {w} : worker'[v] = worker[v]
    BY <1>0, <1>7, ThreadOutcome DEF Thread
  <2> QED
    BY <1>0, <2>1, <2>2 DEF WorkersOnIndex
<1>8. CASE Restart
  BY <1>8, NewOnIndex DEF Restart, NewWorkers, WorkersOnIndex
<1>9. CASE \/ SetupDone \/ LoopHead \/ StartsDone \/ WaitsDone \/ PopPiece \/ OpenPiece
           \/ WritePiece \/ GatherPiece \/ GatherDone \/ UnwindDone
  BY <1>2, <1>9
     DEF SetupDone, LoopHead, StartsDone, WaitsDone, PopPiece, OpenPiece, WritePiece,
         GatherPiece, GatherDone, UnwindDone
<1>10. CASE UNCHANGED vars
  BY <1>2, <1>10 DEF vars
<1> QED
  BY <1>3, <1>4, <1>5, <1>6, <1>7, <1>8, <1>9, <1>10 DEF Next, Coordinator, Exited

\* A step of a thread does not change which piece a worker is on, nor anything of
\* the worker whose data the coordinator uses.
LEMMA IndexThread ==
    ASSUME ProtocolInv, WorkersOnIndex, NEW w \in Peers, Thread(w),
           location # "wait_connection"
    PROVE  /\ \A v \in Peers : /\ worker'[v].index = worker[v].index
                               /\ started(worker'[v]) = started(worker[v])
           /\ location \in Using => worker'[current] = worker[current]
           /\ UNCHANGED <<coordinator, files>>
<1>0. /\ TypeOK /\ AtWorker /\ ThreadsKnown /\ OutcomeKnown
      /\ worker \in [Peers -> Workers] /\ workers \subseteq Peers /\ Peers \subseteq Nat
  BY CountsAssumption DEF ProtocolInv, TypeOK, Peers
<1>1. DownloadStep(w) /\ UNCHANGED <<coordinator, files>>
  BY <1>0 DEF Thread, CheckConnection, OutcomeKnown
<1>2. /\ \A v \in Peers \ {w} : worker'[v] = worker[v]
      /\ started(worker[w]) /\ started(worker'[w])
  BY <1>0, <1>1, ThreadOutcome
<1>3. worker'[w].index = worker[w].index
  BY <1>0, <1>1, IndexDownload DEF WorkersOnIndex
<1>4. location \in Using => current \in Peers /\ current # w
  BY <1>0, <1>2 DEF AtWorker, ThreadsKnown, ThreadOf, Using
<1>5. \A v \in Peers : started(worker'[v]) = started(worker[v])
  BY <1>2 DEF started
<1> QED
  BY <1>1, <1>2, <1>3, <1>4, <1>5

\* Every step keeps the pieces of a round apart.
LEMMA NextPieces ==
    ASSUME ProtocolInv, WorkersOnIndex, OwnPieces, NoPieceTwice, [Next]_vars
    PROVE  OwnPieces' /\ NoPieceTwice'
<1> USE DEF Using
<1>0. /\ TypeOK /\ AtWorker /\ ThreadsKnown
      /\ worker \in [Peers -> Workers] /\ workers \subseteq Peers
      /\ Peers \subseteq Nat /\ current \in Nat
  BY CountsAssumption DEF ProtocolInv, TypeOK, Peers
<1>1. CASE LoopHead
  <2>1. \A w \in Peers : ~started(worker[w])
    BY <1>0, <1>1 DEF LoopHead, ThreadsKnown, ThreadOf
  <2> QED
    BY <1>1, <2>1 DEF LoopHead, OwnPieces, NoPieceTwice
<1>2. ASSUME NEW w \in Peers, NEW i \in Pieces, StartWorker(w, i)
      PROVE  OwnPieces' /\ NoPieceTwice'
  <2>1. /\ ~started(worker[w]) /\ location = "start" /\ location' = "start"
        /\ i \in pieces_to_download /\ i \notin requested /\ error' = error
        /\ requested' = requested \cup {i} /\ pieces_to_download' = pieces_to_download
        /\ worker' = [worker EXCEPT ![w] = DownloadStarted(@, i)]
    BY <1>2 DEF StartWorker, IsNext, available, Unassigned
  <2>2. worker'[w].index = i /\ \A v \in Peers \ {w} : worker'[v] = worker[v]
    BY <1>0, <2>1 DEF DownloadStarted, Workers
  <2> QED
    BY <2>1, <2>2 DEF OwnPieces, NoPieceTwice
<1>3. CASE StartsDone
  BY <1>3 DEF StartsDone, OwnPieces, NoPieceTwice
<1>4. ASSUME NEW w \in Peers, WaitPiece(w) PROVE OwnPieces' /\ NoPieceTwice'
  <2>1. /\ started(worker[w]) /\ location = "wait_piece" /\ current' = w
        /\ location' = AfterWait(worker[w]) /\ error' \in {error, "worker", "no_exception"}
        /\ pieces_to_download' = pieces_to_download
        /\ worker' = [worker EXCEPT ![w] = Joined(worker[w])]
    BY <1>4 DEF WaitPiece, IsNext
  <2>2. /\ \A v \in Peers \ {w} : worker'[v] = worker[v]
        /\ worker'[w] = Joined(worker[w])
    BY <1>0, <2>1
  <2>3. /\ ~started(worker'[w])
        /\ worker'[w].last_piece_idx = worker[w].last_piece_idx
        /\ worker'[w].is_piece_transfer_complete = worker[w].is_piece_transfer_complete
    BY <1>0, <2>2 DEF Joined, Workers, started, Joinable, Running
  <2>4. worker[w].is_piece_transfer_complete =>
          worker[w].last_piece_idx = worker[w].index
    BY DEF WorkersOnIndex, OnIndex
  <2>5. /\ location' = "pop_piece" => worker[w].is_piece_transfer_complete
        /\ location' \in {"pop_piece", "wait_piece", "unwind"}
    BY <2>1 DEF AfterWait
  <2>6. piece_idx' = worker[w].last_piece_idx
    BY <2>1, <2>3 DEF piece_idx
  <2>7. \A v \in Peers \ {w} : started(worker[v]) =>
          /\ worker[v].index \in pieces_to_download
          /\ worker[v].index # worker[w].index
    BY <2>1 DEF OwnPieces
  <2>8. worker[w].index \in pieces_to_download
    BY <2>1 DEF OwnPieces
  <2>9. \A v \in Peers : started(worker'[v]) =>
          /\ worker'[v].index \in pieces_to_download
          /\ worker'[v].index # worker[w].index
          /\ \A u \in Peers \ {v} :
               started(worker'[u]) => worker'[u].index # worker'[v].index
    BY <2>1, <2>2, <2>3, <2>7 DEF OwnPieces
  <2>10. NoPieceTwice'
    BY <2>1 DEF NoPieceTwice
  <2> QED
    BY <2>1, <2>3, <2>4, <2>5, <2>6, <2>8, <2>9, <2>10 DEF OwnPieces
<1>5. CASE WaitsDone
  BY <1>5 DEF WaitsDone, OwnPieces, NoPieceTwice
<1>6. CASE PopPiece
  BY <1>0, <1>6 DEF PopPiece, Pending, Raise, OwnPieces, NoPieceTwice, piece_idx
<1>7. CASE OpenPiece
  BY <1>7 DEF OpenPiece, OwnPieces, NoPieceTwice
<1>8. CASE WritePiece
  BY <1>8 DEF WritePiece, OwnPieces, NoPieceTwice
<1>9. ASSUME NEW w \in Peers, Thread(w) PROVE OwnPieces' /\ NoPieceTwice'
  <2>1. CASE location = "wait_connection"
    BY <1>9, <2>1 DEF Thread, coordinator, OwnPieces, NoPieceTwice
  <2>2. CASE location # "wait_connection"
    <3>1. /\ \A v \in Peers : /\ worker'[v].index = worker[v].index
                              /\ started(worker'[v]) = started(worker[v])
          /\ location \in Using => worker'[current] = worker[current]
          /\ location' = location /\ current' = current /\ requested' = requested
          /\ pieces_to_download' = pieces_to_download /\ error' = error
      BY <1>9, <2>2, IndexThread DEF coordinator
    <3> QED
      BY <3>1 DEF OwnPieces, NoPieceTwice, piece_idx
  <2> QED
    BY <2>1, <2>2
<1>10. CASE \/ SetupStart \/ SetupJoin \/ SetupDone \/ GatherPiece \/ GatherDone
            \/ UnwindDone \/ Restart
  BY <1>10 DEF SetupStart, SetupJoin, SetupDone, GatherPiece, GatherDone, UnwindDone,
               Restart, Raise, OwnPieces, NoPieceTwice
<1>11. ASSUME NEW w \in Peers, UnwindWorker(w) PROVE OwnPieces' /\ NoPieceTwice'
  BY <1>11 DEF UnwindWorker, coordinator, OwnPieces, NoPieceTwice
<1>12. CASE UNCHANGED vars
  BY <1>12 DEF vars, coordinator, OwnPieces, NoPieceTwice, piece_idx
<1> QED
  BY <1>1, <1>2, <1>3, <1>4, <1>5, <1>6, <1>7, <1>8, <1>9, <1>10, <1>11, <1>12
     DEF Next, Coordinator, Exited

\* PiecesInv is inductive relative to ProtocolInv.
LEMMA PiecesInvariant == ASSUME HavePeers = {} PROVE Spec => []PiecesInv
<1>1. Init => PiecesInv
  BY NewOnIndex
     DEF Init, NewWorkers, PiecesInv, WorkersOnIndex, OwnPieces, NoPieceTwice, Using
<1>2. ProtocolInv /\ PiecesInv /\ [Next]_vars => PiecesInv'
  BY IndexWorkers, NextPieces DEF PiecesInv
<1> QED
  BY <1>1, <1>2, ProtocolInvariant, PTL DEF Spec

\* If no peer announces pieces, pop_piece never throws "Can download piece twice!",
\* whatever peers send, and also when the disk fails.
THEOREM NoPieceIsTwice == ASSUME HavePeers = {} PROVE Spec => []NoPieceTwice
<1>1. PiecesInv => NoPieceTwice
  BY DEF PiecesInv
<1> QED
  BY <1>1, PiecesInvariant, PTL

--------------------------------------------------------------------------------
(***************************************************************************)
(* If no peer announces pieces: the files and the output.                  *)
(***************************************************************************)
\* A piece that is written is the piece the worker downloaded, as its peer sent it.
LEMMA PieceWritten ==
    ASSUME ProtocolInv, WorkersOnIndex, TakenPieceIsRight, location \in Using
    PROVE  FromPeer(worker[current].buffer, piece_idx)
<1>1. current \in Peers
  BY DEF ProtocolInv, TypeOK, AtWorker
<1>2. ~worker[current].have_mode
  BY <1>1 DEF WorkersOnIndex, OnIndex
<1> QED
  BY <1>1, <1>2 DEF TakenPieceIsRight, HandsOver, FromPeer, piece_idx

\* Every step keeps the files and the output right.
LEMMA NextFiles ==
    ASSUME ~DiskFails, ProtocolInv, WorkersOnIndex, TakenPieceIsRight, FilesHold,
           [Next]_vars
    PROVE  FilesHold'
<1> USE DEF Using
<1>0. /\ TypeOK /\ AtWorker
      /\ pieces_files \in [Pieces -> Files] /\ output \in Seq(Files)
  BY DEF ProtocolInv, TypeOK
\* Steps that leave the files and what is stored alone.
<1>1. ASSUME stored' = stored, files' = files, gathered' = gathered,
             pieces_to_download' = pieces_to_download,
             \/ location' = location
             \/ location' \in {"unwind", "failed"}
             \/ location \notin {"done", "unwind", "failed"} /\ location' \notin {"gather", "done"}
      PROVE  FilesHold'
  BY <1>1 DEF FilesHold, files
<1>2. ASSUME in_hand = {}, in_hand' = {}, pieces_to_download' = pieces_to_download
      PROVE  stored' = stored
  BY <1>2 DEF stored
<1>3. CASE \/ SetupStart \/ SetupJoin \/ SetupDone \/ StartsDone \/ WaitsDone
           \/ UnwindDone
  <2>1. /\ in_hand = {} /\ in_hand' = {} /\ files' = files /\ gathered' = gathered
        /\ pieces_to_download' = pieces_to_download
        /\ \/ location' \in {"unwind", "failed"}
           \/ location \notin {"done", "unwind", "failed"} /\ location' \notin {"gather", "done"}
    BY <1>3
       DEF SetupStart, SetupJoin, SetupDone, StartsDone, WaitsDone, UnwindDone, Raise,
           files, in_hand
  <2> QED
    BY <1>1, <1>2, <2>1
<1>4. CASE LoopHead
  <2>1. /\ in_hand = {} /\ in_hand' = {} /\ location = "loop"
        /\ location' \in {"gather", "start"}
        /\ location' = "gather" => pieces_to_download = {}
        /\ pieces_to_download' = pieces_to_download /\ gathered' = gathered
        /\ pieces_files' = pieces_files /\ output' = output
    BY <1>4 DEF LoopHead, files, in_hand
  <2>2. stored' = stored
    BY <1>2, <2>1
  <2> QED
    BY <2>1, <2>2 DEF FilesHold
<1>5. ASSUME NEW w \in Peers, NEW i \in Pieces, StartWorker(w, i) PROVE FilesHold'
  BY <1>1, <1>2, <1>5 DEF StartWorker, Raise, files, in_hand
<1>6. ASSUME NEW w \in Peers, WaitPiece(w) PROVE FilesHold'
  BY <1>1, <1>2, <1>6 DEF WaitPiece, AfterWait, files, in_hand
<1>7. ASSUME NEW w \in Peers, UnwindWorker(w) PROVE FilesHold'
  BY <1>1, <1>2, <1>7 DEF UnwindWorker, coordinator, in_hand
<1>8. CASE PopPiece
  <2>1. CASE Pending(piece_idx)
    <3>1. stored' = stored
      BY <1>8, <2>1 DEF PopPiece, Pending, stored, in_hand, piece_idx
    <3> QED
      BY <1>8, <2>1, <3>1 DEF PopPiece, FilesHold, files
  <2>2. CASE ~Pending(piece_idx)
    BY <1>1, <1>2, <1>8, <2>2 DEF PopPiece, Raise, in_hand
  <2> QED
    BY <2>1, <2>2
<1>9. CASE OpenPiece
  <2>1. /\ location = "open_piece" /\ location' = "write_piece" /\ output' = output
        /\ gathered' = gathered /\ stored' = stored /\ piece_idx \notin stored
        /\ pieces_files' = [pieces_files EXCEPT ![piece_idx] = Empty]
    BY <1>9 DEF OpenPiece, stored, in_hand, piece_idx
  <2> QED
    BY <1>0, <2>1 DEF FilesHold, stored
<1>10. CASE WritePiece
  <2>1. FromPeer(worker[current].buffer, piece_idx)
    BY <1>10, PieceWritten DEF WritePiece
  <2>2. /\ location = "write_piece" /\ location' = "wait_piece" /\ output' = output
        /\ gathered' = gathered /\ stored' \subseteq stored \cup {piece_idx}
        /\ stored \subseteq Pieces /\ stored' \subseteq Pieces
        /\ pieces_files' = [pieces_files EXCEPT ![piece_idx] = worker[current].buffer]
    BY <1>10 DEF WritePiece, stored, in_hand, piece_idx
  <2> QED
    BY <1>0, <2>1, <2>2 DEF FilesHold
<1>11. CASE GatherPiece
  <2>1. CASE pieces_files[gathered] = Missing
    BY <1>1, <1>2, <1>11, <2>1 DEF GatherPiece, Raise, files, in_hand
  <2>2. CASE pieces_files[gathered] # Missing
    <3>1. /\ location = "gather" /\ location' = "gather" /\ gathered \in Pieces
          /\ gathered' = gathered + 1 /\ pieces_files' = pieces_files
          /\ output' = Append(output, pieces_files[gathered])
          /\ pieces_to_download' = pieces_to_download /\ in_hand = {} /\ in_hand' = {}
      BY <1>11, <2>2 DEF GatherPiece, in_hand
    <3>2. stored' = stored /\ gathered \in stored
      BY <1>2, <3>1 DEF FilesHold, stored
    <3>3. FromPeer(pieces_files[gathered], gathered) /\ pieces_files[gathered] \in Files
      BY <1>0, <3>1, <3>2 DEF FilesHold
    <3>4. /\ Len(output) = gathered /\ gathered \in Nat
          /\ \A k \in 1 .. gathered : FromPeer(output[k], k - 1)
      BY <3>1 DEF FilesHold, Pieces
    <3>5. /\ Len(output') = gathered'
          /\ \A k \in 1 .. gathered' : FromPeer(output'[k], k - 1)
      BY <1>0, <3>1, <3>3, <3>4
    <3> QED
      BY <3>1, <3>2, <3>5 DEF FilesHold
  <2> QED
    BY <2>1, <2>2
<1>12. CASE GatherDone
  <2>1. /\ in_hand = {} /\ in_hand' = {} /\ location = "gather" /\ location' = "done"
        /\ gathered \notin Pieces /\ gathered' = gathered
        /\ pieces_to_download' = pieces_to_download
        /\ pieces_files' = pieces_files /\ output' = output
    BY <1>12 DEF GatherDone, files, in_hand
  <2>2. stored' = stored
    BY <1>2, <2>1
  <2>3. gathered = PiecesCount
    BY <1>0, <2>1, CountsAssumption DEF TypeOK, Pieces
  <2> QED
    BY <2>1, <2>2, <2>3 DEF FilesHold
<1>13. CASE Restart
  <2>1. stored' = {} /\ output' = << >> /\ gathered' = 0 /\ location' = "setup"
    BY <1>13 DEF Restart, stored
  <2> QED
    BY <2>1 DEF FilesHold
<1>14. ASSUME NEW w \in Peers, Thread(w) PROVE FilesHold'
  <2>1. UNCHANGED <<coordinator, files>>
    BY <1>14 DEF Thread
  <2>2. stored' = stored
    <3>1. CASE location \in Using
      BY <1>14, <2>1, <3>1, IndexThread DEF coordinator, stored, in_hand, piece_idx
    <3>2. CASE location \notin Using
      BY <2>1, <3>2 DEF coordinator, stored, in_hand
    <3> QED
      BY <3>1, <3>2
  <2> QED
    BY <1>1, <2>1, <2>2 DEF coordinator
<1>15. CASE UNCHANGED vars
  BY <1>1, <1>15 DEF vars, coordinator, stored, in_hand, piece_idx
<1> QED
  BY <1>3, <1>4, <1>5, <1>6, <1>7, <1>8, <1>9, <1>10, <1>11, <1>12, <1>13, <1>14, <1>15
     DEF Next, Coordinator, Exited

\* FilesHold is inductive relative to ProtocolInv, PiecesInv and TakenPieceIsRight.
LEMMA FilesInvariant ==
    ASSUME HavePeers = {}, ~DiskFails PROVE Spec => [](ProtocolInv /\ PiecesInv /\ FilesHold)
<1>1. Init => FilesHold
  BY CountsAssumption DEF Init, FilesHold, stored
<1>2. ProtocolInv /\ PiecesInv /\ TakenPieceIsRight /\ FilesHold /\ [Next]_vars => FilesHold'
  BY NextFiles DEF PiecesInv
<1> QED
  BY <1>1, <1>2, ProtocolInvariant, PiecesInvariant, TakenPiecesAreRight, PTL DEF Spec

\* If no peer announces pieces and every write succeeds, the command ends with
\* success only when the output has every piece in its place, of the length the
\* code expects, with the bytes some peer sent for it, and the torrent's if that
\* peer is not corrupt; whatever an earlier run left in .pieces.
THEOREM OutputIsFromPeers ==
    ASSUME HavePeers = {}, ~DiskFails PROVE Spec => []OutputFromPeers
<1>1. FilesHold => OutputFromPeers
  BY DEF FilesHold, OutputFromPeers
<1> QED
  BY <1>1, FilesInvariant, PTL

--------------------------------------------------------------------------------
(***************************************************************************)
(* Under Seeds: the file, and the abstract download.                       *)
(***************************************************************************)
\* A piece of a peer that is not corrupt is whole.
LEMMA SeedPiece ==
    ASSUME Seeds, NEW i \in Pieces, NEW c \in Files, FromPeer(c, i)
    PROVE  c = Whole(i)
<1>1. piece_len(i) = PieceSize(i) /\ PieceSize(i) > 0
  BY PieceLenRight, PieceSizePositive DEF Seeds
<1>2. c.size = PieceSize(i) /\ c.piece = i
  BY <1>1 DEF FromPeer, IsPiece, Seeds
<1>3. c \in Contents
  BY <1>1, <1>2, CountsAssumption DEF Files, Missing, LeftOver, Old, Pieces
<1> QED
  BY <1>2, <1>3 DEF Contents, Whole

\* Then the output of a successful command is the file.
LEMMA OutputWhole ==
    ASSUME Seeds, TypeOK, OutputFromPeers PROVE OutputIsFile
<1> SUFFICES ASSUME location = "done" PROVE output = TheFile
  BY DEF OutputIsFile
<1>1. /\ output \in Seq(Files) /\ Len(output) = PiecesCount
      /\ \A k \in 1 .. PiecesCount : FromPeer(output[k], k - 1)
  BY DEF TypeOK, OutputFromPeers
<1>2. ASSUME NEW k \in 1 .. PiecesCount PROVE output[k] = Whole(k - 1)
  <2>1. k - 1 \in Pieces /\ output[k] \in Files
    BY <1>1, CountsAssumption DEF Pieces
  <2> QED
    BY <1>1, <2>1, SeedPiece
<1>3. output = [k \in 1 .. Len(output) |-> output[k]]
  BY <1>1
<1> QED
  BY <1>1, <1>2, <1>3 DEF TheFile

\* If every peer serves what it is asked for, every write succeeds and the last
\* piece is not empty, download_file ends with success only when the output is
\* the file of the torrent, whatever an earlier run left in .pieces.
THEOREM OutputIsTheFile == ASSUME Seeds PROVE Spec => []OutputIsFile
<1>1. HavePeers = {} /\ ~DiskFails
  BY DEF Seeds
<1>2. TypeOK /\ OutputFromPeers => OutputIsFile
  BY OutputWhole
<1> QED
  BY <1>1, <1>2, TypeCorrect, OutputIsFromPeers, PTL

\* The pieces FileDownload has stored: every stored file is whole.
abstract_stored == {i \in stored : pieces_files[i] = Whole(i)}
abstract_result == IF location = "done" THEN output ELSE << >>

SeedInv == ProtocolInv /\ PiecesInv /\ FilesHold /\ OutputIsFile

\* Under SeedInv these are all stored pieces.
LEMMA StoredWhole ==
    ASSUME Seeds, SeedInv PROVE abstract_stored = stored
<1>1. \A i \in stored : i \in Pieces /\ pieces_files[i] \in Files
  BY DEF SeedInv, ProtocolInv, TypeOK, stored
<1>2. \A i \in stored : pieces_files[i] = Whole(i)
  BY <1>1, SeedPiece DEF SeedInv, FilesHold
<1> QED
  BY <1>2 DEF abstract_stored

\* The same of the next state.
LEMMA StoredWholeNext ==
    ASSUME Seeds, SeedInv' PROVE abstract_stored' = stored'
<1>1. \A i \in stored' : i \in Pieces /\ pieces_files'[i] \in Files
  BY DEF SeedInv, ProtocolInv, TypeOK, stored
<1>2. \A i \in stored' : FromPeer(pieces_files'[i], i)
  BY DEF SeedInv, FilesHold
<1>3. \A i \in stored' : pieces_files'[i] = Whole(i)
  BY <1>1, <1>2, SeedPiece
<1> QED
  BY <1>3 DEF abstract_stored

\* What FileDownload is instantiated with changes only at a restart, at the end of
\* write_piece, of gather_pieces, and of the unwinding.
LEMMA AbstractStutters ==
    ASSUME Seeds, SeedInv, SeedInv', [Next]_vars,
           ~Restart, ~WritePiece, ~GatherDone, ~UnwindDone
    PROVE  /\ abstract_stored' = abstract_stored
           /\ abstract_result' = abstract_result
           /\ status' = status
<1>1. runs' = runs
  BY DEF Next, Coordinator, Exited, SetupStart, SetupJoin, SetupDone, LoopHead, StartWorker,
         StartsDone, WaitPiece, WaitsDone, PopPiece, OpenPiece, GatherPiece, UnwindWorker,
         Thread, coordinator, vars
<1>2. stored' = stored
  BY <1>1, StoredByWriting, StoredStep DEF StoredStay, Seeds, SeedInv
<1>3. abstract_stored = stored /\ abstract_stored' = stored'
  BY StoredWhole, StoredWholeNext
<1>4. \/ location' = location /\ (location = "done" => output' = output)
      \/ location \notin {"done", "failed"} /\ location' \notin {"done", "failed"}
  BY DEF Next, Coordinator, Exited, SetupStart, SetupJoin, SetupDone, LoopHead, StartWorker,
         StartsDone, WaitPiece, AfterWait, WaitsDone, PopPiece, OpenPiece, GatherPiece,
         UnwindWorker, Thread, Raise, coordinator, files, vars
<1> QED
  BY <1>2, <1>3, <1>4 DEF abstract_result, status

\* Every step of the command is a step of FileDownload, or changes nothing there.
LEMMA AbstractStep ==
    ASSUME Seeds, SeedInv, SeedInv', [Next]_vars
    PROVE  [FD!Next]_FD!vars
<1>0. abstract_stored = stored /\ abstract_stored' = stored' /\ stored \subseteq Pieces
  BY StoredWhole, StoredWholeNext DEF stored
<1> USE DEF abstract_stored, abstract_result
<1>1. CASE Restart
  <2>1. status # "done" /\ status' = "working"
    BY <1>1 DEF Restart, status
  <2>2. abstract_stored' = {} /\ abstract_result' = abstract_result
    BY <1>0, <1>1 DEF Restart, stored
  <2> QED
    BY <2>1, <2>2 DEF FD!Next, FD!Retry
<1>2. CASE WritePiece
  <2>1. status = "working" /\ status' = "working" /\ abstract_result' = abstract_result
    BY <1>2 DEF WritePiece, status
  <2>2. \/ stored' = stored
        \/ piece_idx \in Pieces \ stored /\ stored' = stored \cup {piece_idx}
    BY <1>2 DEF WritePiece, stored, in_hand
  <2> QED
    BY <1>0, <2>1, <2>2 DEF FD!Next, FD!Store, FD!vars
<1>3. CASE GatherDone
  <2>1. stored = Pieces /\ stored' = stored
    BY <1>3 DEF GatherDone, SeedInv, FilesHold, stored, in_hand
  <2>2. status = "working" /\ status' = "done" /\ abstract_result' = TheFile
    BY <1>3 DEF GatherDone, status, SeedInv, OutputIsFile, TheFile
  <2> QED
    BY <1>0, <2>1, <2>2 DEF FD!Next, FD!Finish
<1>4. CASE UnwindDone
  <2>1. status = "working" /\ status' = "failed" /\ abstract_result' = abstract_result
    BY <1>4 DEF UnwindDone, status
  <2>2. stored' = stored
    BY <1>4 DEF UnwindDone, stored, in_hand
  <2> QED
    BY <1>0, <2>1, <2>2 DEF FD!Next, FD!Fail
<1>5. CASE ~Restart /\ ~WritePiece /\ ~GatherDone /\ ~UnwindDone
  BY <1>5, AbstractStutters DEF FD!vars
<1> QED
  BY <1>1, <1>2, <1>3, <1>4, <1>5

\* If every peer serves what it is asked for and every write succeeds, the command
\* implements FileDownload: pieces are stored one at a time and never lost within
\* a run, and success is the torrent's file.
THEOREM ImplementsTheDownload == ASSUME Seeds PROVE Spec => ImplementsFileDownload
<1>1. Init => FD!Init
  BY DEF Init, FD!Init, status, stored
<1>2. SeedInv /\ SeedInv' /\ [Next]_vars => [FD!Next]_FD!vars
  BY AbstractStep
<1>3. HavePeers = {} /\ ~DiskFails
  BY DEF Seeds
<1>4. Spec => []SeedInv
  BY <1>3, FilesInvariant, OutputIsTheFile, PTL DEF SeedInv
<1> QED
  BY <1>1, <1>2, <1>4, PTL
     DEF Spec, FD!Spec, ImplementsFileDownload

================================================================================
