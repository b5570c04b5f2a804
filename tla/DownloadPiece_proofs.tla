-------------------------- MODULE DownloadPiece_proofs --------------------------
(***************************************************************************)
(* Proofs about the `download_piece` command, for any torrent and any      *)
(* piece of it.                                                            *)
(***************************************************************************)
EXTENDS DownloadPiece, PieceWorker_proofs

--------------------------------------------------------------------------------
(***************************************************************************)
(* The inductive invariant.                                                *)
(***************************************************************************)
\* The worker of the command: before its thread starts, while it runs, and when
\* it has ended.  The thread downloads the piece the user asked for, also after
\* the peer has announced another one.
FreshInv(r) ==
    /\ ~r.have_mode /\ r.have_piece_idx = NoPiece
    /\ ~r.is_peer_connection_established
    /\ r.in_frame /\ r.unanswered = << >>
    /\ ~r.is_piece_transfer_complete /\ ~r.exception
LoadingInv(r) ==
    /\ r.piece_idx = requested
    /\ r.in_frame /\ r.unanswered = << >>
    /\ ~r.is_piece_transfer_complete /\ ~r.exception
    /\ Prefix(r)
EndedInv(r) ==
    /\ r.is_piece_transfer_complete => r.buffer = Whole(requested)
    /\ r.is_piece_transfer_complete \/ r.exception
WaitInv(r) ==
    \/ r.thread = "enter" /\ FreshInv(r) /\ r.index = requested
    \/ r.thread \in {"dial", "block"} /\ LoadingInv(r)
    \/ r.thread = "ended" /\ EndedInv(r)

PieceInv ==
    LET r == worker[ThePeer]
    IN  /\ location = "start" => r.thread = "none" /\ FreshInv(r)
        /\ location = "wait" => WaitInv(r)
        /\ location \in {"done", "failed"} => r.thread = "none" /\ EndedInv(r)
        /\ location = "done" => r.is_piece_transfer_complete
        /\ location # "no_exception"

\* The peer sends the torrent's bytes, and the last piece is shorter than the
\* others.
HonestPeer ==
    /\ ThePeer \notin CorruptPeers
    /\ Length % PieceLength # 0

--------------------------------------------------------------------------------
(***************************************************************************)
(* Types.                                                                  *)
(***************************************************************************)
\* Every variable has its type, whatever the peer announces or sends.
THEOREM TypeCorrect == Spec => []TypeOK
<1>0. ThePeer \in Peers
  BY CountsAssumption DEF ThePeer, Peers
<1>1. Init => TypeOK
  BY NewWorkerType DEF Init, TypeOK
<1>2. TypeOK /\ [Next]_vars => TypeOK'
  <2> SUFFICES ASSUME TypeOK, [Next]_vars PROVE TypeOK'
    OBVIOUS
  <2> USE DEF TypeOK
  <2>1. CASE Start
    BY <1>0, <2>1, WithPieceType DEF Start
  <2>2. CASE Wait
    BY <1>0, <2>2, EndType DEF Wait
  <2>3. CASE Thread
    BY <1>0, <2>3, ThreadType DEF Thread, command
  <2>4. CASE UNCHANGED vars
    BY <2>4 DEF vars, command
  <2> QED
    BY <2>1, <2>2, <2>3, <2>4 DEF Next, Exited
<1> QED
  BY <1>1, <1>2, PTL DEF Spec

--------------------------------------------------------------------------------
(***************************************************************************)
(* The output.                                                             *)
(***************************************************************************)
\* _download_piece starts with the requested piece and an empty buffer.
LEMMA EnterLoads ==
    ASSUME NEW r \in Workers, FreshInv(r), r.index = requested
    PROVE  /\ Cleared(r).have_piece_idx = NoPiece /\ ~Cleared(r).have_mode
           /\ WaitInv(WithPiece(Cleared(r), Cleared(r).index))
<1> DEFINE c == Cleared(r)
           s == WithPiece(c, c.index)
<1>1. /\ c \in Workers /\ c.index = requested /\ c.have_piece_idx = NoPiece /\ ~c.have_mode
      /\ ~c.is_peer_connection_established /\ c.in_frame /\ c.unanswered = << >>
      /\ ~c.is_piece_transfer_complete /\ ~c.exception /\ c.buffer = Empty
  BY EndType, SMTT(30) DEF Cleared, FreshInv, Workers
<1> HIDE DEF c
<1>2. c.index \in Pieces
  BY <1>1 DEF Workers
<1>3. /\ s.thread = "dial" /\ s.piece_idx = requested /\ s.received_bytes = 0
      /\ s.buffer = Empty /\ s.in_frame /\ s.unanswered = << >>
      /\ ~s.is_piece_transfer_complete /\ ~s.exception
  BY <1>1 DEF WithPiece, Workers
<1>4. piece_len(requested) >= 0
  BY <1>1, <1>2, PieceLenType DEF Sizes
<1>5. WaitInv(s)
  BY <1>3, <1>4 DEF WaitInv, LoadingInv, Prefix, Empty
<1> QED
  BY <1>1, <1>5 DEF c

\* A step of the thread keeps the invariant: above all an announcement read while
\* connecting does not change the piece.
LEMMA ThreadWaits ==
    ASSUME HonestPeer, TypeOK, WaitInv(worker[ThePeer]),
           Dial(ThePeer) \/ DownloadStep(ThePeer)
    PROVE  WaitInv(worker'[ThePeer])
<1> DEFINE r == worker[ThePeer]
<1>0. /\ ThePeer \in Peers /\ worker \in [Peers -> Workers] /\ r \in Workers
      /\ ThePeer \notin CorruptPeers /\ Length % PieceLength # 0
  BY CountsAssumption DEF ThePeer, Peers, TypeOK, HonestPeer
<1> SUFFICES \E s : WaitInv(s) /\ worker' = [worker EXCEPT ![ThePeer] = s]
  BY <1>0
\* Every exception ends the thread.
<1>1. ASSUME NEW s \in Workers, r.thread \in {"dial", "block"},
             s.is_piece_transfer_complete = r.is_piece_transfer_complete
      PROVE  WaitInv(Threw(s))
  <2>1. ~s.is_piece_transfer_complete
    BY <1>1 DEF WaitInv, LoadingInv
  <2> QED
    BY <2>1 DEF Threw, WaitInv, EndedInv, Workers
<1>2. CASE Dial(ThePeer)
  <2>1. r.thread = "dial" /\ LoadingInv(r)
    BY <1>2 DEF Dial, WaitInv
  <2>2. ASSUME NEW h \in InterestedAnswers(ThePeer) PROVE WaitInv(Dialed(r, h))
    <3> DEFINE s == Dialed(r, h)
    <3>1. /\ s.thread = "block" /\ s.piece_idx = r.piece_idx
          /\ s.received_bytes = r.received_bytes /\ s.buffer = r.buffer
          /\ s.in_frame = r.in_frame /\ s.unanswered = r.unanswered
          /\ s.is_piece_transfer_complete = r.is_piece_transfer_complete
          /\ s.exception = r.exception
      BY <1>0 DEF Dialed, Connected, Workers
    <3> HIDE DEF s
    <3> QED
      BY <2>1, <3>1 DEF WaitInv, LoadingInv, Prefix, s
  <2> QED
    BY <1>0, <1>1, <1>2, <2>1, <2>2 DEF Dial
<1>3. CASE EnterDownload(ThePeer)
  <2>1. FreshInv(r) /\ r.index = requested
    BY <1>3 DEF EnterDownload, WaitInv
  <2> QED
    BY <1>0, <1>3, <2>1, EnterLoads DEF EnterDownload
<1>4. ~WaitHave(ThePeer)
  BY DEF WaitHave, WaitInv
<1>5. CASE ReceiveBlock(ThePeer)
  <2>1. r.thread = "block" /\ LoadingInv(r) /\ MoreToReceive(r)
    BY <1>5 DEF ReceiveBlock, WaitInv
  <2> DEFINE requests == Append(r.unanswered, Request(r))
  <2>2. DOMAIN requests = {1} /\ requests[1] = Request(r) /\ Without(requests, 1) = << >>
    BY <2>1 DEF LoadingInv, Without
  <2>3. PICK block \in Answers(ThePeer, Request(r)) :
          worker' = [worker EXCEPT ![ThePeer] =
                       [WithBlock(r, block) EXCEPT !.unanswered = << >>]]
    <3>1. PICK k \in DOMAIN requests : \E block \in Answers(ThePeer, requests[k]) :
            worker' = [worker EXCEPT ![ThePeer] =
              [WithBlock(r, block) EXCEPT !.unanswered = Without(requests, k)]]
      BY <1>5, <2>1 DEF ReceiveBlock, LoadingInv
    <3>2. k = 1
      BY <2>2
    <3> QED
      BY <2>2, <3>1, <3>2
  <2> DEFINE b == WithBlock(r, block)
             s == [b EXCEPT !.unanswered = << >>]
  <2>4. Prefix(b) /\ b \in Workers
    <3>1. block \in Blocks
      BY <1>0, RequestType, AnswersType
    <3> QED
      BY <1>0, <2>1, <3>1, PrefixBlock, WithBlockType DEF LoadingInv
  <2>5. /\ b.thread = r.thread /\ b.piece_idx = r.piece_idx /\ b.in_frame = r.in_frame
        /\ b.is_piece_transfer_complete = r.is_piece_transfer_complete
        /\ b.exception = r.exception
    BY <1>0 DEF WithBlock, Workers
  <2> HIDE DEF b
  <2>6. /\ s.thread = b.thread /\ s.piece_idx = b.piece_idx /\ s.in_frame = b.in_frame
        /\ s.unanswered = << >> /\ s.received_bytes = b.received_bytes /\ s.buffer = b.buffer
        /\ s.is_piece_transfer_complete = b.is_piece_transfer_complete
        /\ s.exception = b.exception
    BY <2>4 DEF Workers
  <2> HIDE DEF s
  <2>7. WaitInv(s)
    BY <2>1, <2>4, <2>5, <2>6 DEF WaitInv, LoadingInv, Prefix
  <2> QED
    BY <2>3, <2>7 DEF s, b
<1>6. CASE FailBlock(ThePeer)
  <2>1. r.thread = "block"
    BY <1>6 DEF FailBlock
  <2>2. PICK t \in {[r EXCEPT !.unanswered = Append(@, Request(r))], FrameLost(r)} :
          worker' = [worker EXCEPT ![ThePeer] = Threw(t)]
    BY <1>6 DEF FailBlock
  <2>3. t \in Workers
    BY <1>0, <2>2, EndType, OpenRequestType
  <2>4. t.is_piece_transfer_complete = r.is_piece_transfer_complete
    BY <1>0, <2>2 DEF FrameLost, Workers
  <2> QED
    BY <1>1, <2>1, <2>2, <2>3, <2>4
<1>7. CASE FinishPiece(ThePeer)
  <2>1. r.thread = "block" /\ LoadingInv(r) /\ ~MoreToReceive(r)
    BY <1>7 DEF FinishPiece, WaitInv
  <2>2. r.buffer = Whole(requested)
    BY <1>0, <2>1, PrefixIsPiece DEF LoadingInv
  <2> DEFINE s == Returned(Recorded(r))
  <2>3. s.thread = "ended" /\ s.is_piece_transfer_complete /\ s.buffer = r.buffer
    BY <1>0 DEF Returned, Recorded, Workers
  <2>4. worker' = [worker EXCEPT ![ThePeer] = s]
    BY <1>7 DEF FinishPiece
  <2> HIDE DEF s
  <2> QED
    BY <2>2, <2>3, <2>4 DEF WaitInv, EndedInv
<1> QED
  BY <1>2, <1>3, <1>4, <1>5, <1>6, <1>7 DEF DownloadStep

\* Every step keeps the invariant.
LEMMA NextPiece ==
    ASSUME HonestPeer, TypeOK, PieceInv, [Next]_vars
    PROVE  PieceInv'
<1> DEFINE r == worker[ThePeer]
<1>0. ThePeer \in Peers /\ worker \in [Peers -> Workers] /\ r \in Workers
  BY CountsAssumption DEF ThePeer, Peers, TypeOK
<1>1. CASE Start
  <2> DEFINE s == DownloadStarted(r, requested)
  <2>1. FreshInv(r) /\ location = "start"
    BY <1>1 DEF Start, PieceInv
  <2>2. /\ s.thread = "enter" /\ s.index = requested /\ s.have_mode = r.have_mode
        /\ s.have_piece_idx = r.have_piece_idx /\ s.in_frame = r.in_frame
        /\ s.is_peer_connection_established = r.is_peer_connection_established
        /\ s.unanswered = r.unanswered /\ ~s.is_piece_transfer_complete
        /\ s.exception = r.exception
    BY <1>0 DEF DownloadStarted, Workers
  <2>3. worker'[ThePeer] = s /\ location' = "wait" /\ requested' = requested
    BY <1>0, <1>1 DEF Start
  <2> HIDE DEF s
  <2> QED
    BY <2>1, <2>2, <2>3 DEF PieceInv, WaitInv, FreshInv
<1>2. CASE Wait
  <2> DEFINE s == Joined(r)
  <2>1. EndedInv(r) /\ location = "wait"
    BY <1>2 DEF Wait, PieceInv, WaitInv, HasEnded
  <2>2. /\ s.thread = "none" /\ s.exception = r.exception /\ s.buffer = r.buffer
        /\ s.is_piece_transfer_complete = r.is_piece_transfer_complete
    BY <1>0 DEF Joined, Workers
  <2>3. /\ worker'[ThePeer] = s /\ requested' = requested
        /\ location' = IF r.is_piece_transfer_complete THEN "done"
                       ELSE IF r.exception THEN "failed" ELSE "no_exception"
    BY <1>0, <1>2 DEF Wait
  <2> HIDE DEF s
  <2> QED
    BY <2>1, <2>2, <2>3 DEF PieceInv, EndedInv
<1>3. CASE Thread
  <2>1. location' = location /\ requested' = requested
    BY <1>3 DEF Thread, command
  <2>2. r.thread \in {"enter", "wait_have", "dial", "block"}
    BY <1>3 DEF Thread, Dial, DownloadStep, EnterDownload, WaitHave, ReceiveBlock,
                FailBlock, FinishPiece
  <2>3. location \in {"wait"} /\ WaitInv(r)
    BY <2>2 DEF PieceInv, WaitInv, TypeOK
  <2>4. WaitInv(worker'[ThePeer])
    BY <1>3, <2>3, ThreadWaits DEF Thread
  <2> QED
    BY <2>1, <2>3, <2>4 DEF PieceInv, WaitInv, FreshInv, LoadingInv, EndedInv
<1>4. CASE UNCHANGED vars
  BY <1>4 DEF vars, command, PieceInv, WaitInv, FreshInv, LoadingInv, EndedInv
<1> QED
  BY <1>1, <1>2, <1>3, <1>4 DEF Next, Exited

\* If the peer sends the torrent's bytes, download_piece succeeds only with the
\* whole piece the user asked for, also when the peer announces another piece
\* while connecting.
THEOREM OutputIsThePiece == ASSUME HonestPeer PROVE Spec => []OutputIsPiece
<1>1. Init => PieceInv
  BY CountsAssumption
     DEF Init, PieceInv, NewWorker, FreshInv, ThePeer, Peers
<1>2. TypeOK /\ PieceInv /\ [Next]_vars => PieceInv'
  BY NextPiece
<1>3. PieceInv => OutputIsPiece
  BY DEF PieceInv, EndedInv, OutputIsPiece
<1> QED
  BY <1>1, <1>2, <1>3, TypeCorrect, PTL DEF Spec

================================================================================
