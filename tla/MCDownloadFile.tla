---------------------------- MODULE MCDownloadFile ----------------------------
(***************************************************************************)
(* DownloadFile for TLC, and claims of the sources that small instances    *)
(* refute.                                                                 *)
(***************************************************************************)
EXTENDS DownloadFile

\* "Return piece data if it is stored internally": when the coordinator takes a
\* piece from a worker whose transfer is complete, the worker has data for it.
CompleteTransferHasData ==
    location = "pop_piece" => worker[current].buffer # Empty

\* "Piece received: idx {}": the bytes a worker in step with its peer hands over
\* are those of the piece it names, when all peers send the torrent's data.
BytesAreOfPiece ==
    /\ location = "pop_piece"
    /\ worker[current].in_frame
    /\ worker[current].buffer # Empty
    => worker[current].buffer.piece = piece_idx

================================================================================
