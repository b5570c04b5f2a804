---------------------- MODULE PeerConnection_worker_proofs ----------------------
(***************************************************************************)
(* Proof that PeerConnection implements OneWorker: the exchanges of        *)
(* client/piece.cpp over bytes add up to the steps of PieceWorker, for any *)
(* sizes of messages and pieces.                                           *)
(***************************************************************************)
EXTENDS PeerConnection_proofs

--------------------------------------------------------------------------------
(***************************************************************************)
(* What OneWorker sees of the worker.                                      *)
(***************************************************************************)
Shows(r, e, u) == [r EXCEPT !.in_frame = e, !.unanswered = u]

InStep == thread.is_peer_connection_established => link = "in_step"
Open ==
    IF ~InStep THEN << >>
    ELSE IF call \in {"request", "piece_body"} THEN SubSeq(outstanding, 1, Len(outstanding) - 1)
    ELSE outstanding
Shown == Shows(thread, InStep, Open)

\* Each step of a thread does to what is shown what it does to the worker.
LEMMA ShowsSame ==
    ASSUME NEW r \in Workers, NEW e, NEW u
    PROVE  /\ Threw(Shows(r, e, u)) = Shows(Threw(r), e, u)
           /\ Returned(Shows(r, e, u)) = Shows(Returned(r), e, u)
           /\ Cleared(Shows(r, e, u)) = Shows(Cleared(r), e, u)
           /\ Recorded(Shows(r, e, u)) = Shows(Recorded(r), e, u)
           /\ ConnectStarted(Shows(r, e, u)) = Shows(ConnectStarted(r), e, u)
           /\ Joined(Shows(r, e, u)) = Shows(Joined(r), e, u)
BY DEF Shows, Threw, Returned, FrameLost, Cleared, Recorded, ConnectStarted, Joined, Workers

\* What is shown differs from the worker in nothing else.
LEMMA ShowsFields ==
    ASSUME NEW r \in Workers, NEW e, NEW u
    PROVE  LET s == Shows(r, e, u)
           IN  /\ s.thread = r.thread /\ s.index = r.index /\ s.piece_idx = r.piece_idx
               /\ s.received_bytes = r.received_bytes /\ s.buffer = r.buffer
               /\ s.in_frame = e /\ s.unanswered = u
               /\ s.have_mode = r.have_mode /\ s.have_piece_idx = r.have_piece_idx
               /\ s.exception = r.exception
               /\ s.is_peer_connection_established = r.is_peer_connection_established
               /\ MoreToReceive(s) = MoreToReceive(r)
               /\ Request(s) = Request(r)
<1> DEFINE s == Shows(r, e, u)
<1>1. /\ s.thread = r.thread /\ s.index = r.index /\ s.piece_idx = r.piece_idx
      /\ s.received_bytes = r.received_bytes /\ s.buffer = r.buffer
      /\ s.in_frame = e /\ s.unanswered = u
      /\ s.have_mode = r.have_mode /\ s.have_piece_idx = r.have_piece_idx
      /\ s.exception = r.exception
      /\ s.is_peer_connection_established = r.is_peer_connection_established
  BY DEF Shows, Workers
<1> HIDE DEF s
<1>2. MoreToReceive(s) = MoreToReceive(r) /\ Request(s) = Request(r)
  BY <1>1 DEF MoreToReceive, Request
<1> QED
  BY <1>1, <1>2 DEF s

\* The same of the steps that have an argument.
LEMMA ShowsPiece ==
    ASSUME NEW r \in Workers, NEW e, NEW u
    PROVE  /\ \A i \in Pieces : WithPiece(Shows(r, e, u), i) = Shows(WithPiece(r, i), e, u)
           /\ \A i \in Pieces :
                DownloadStarted(Shows(r, e, u), i) = Shows(DownloadStarted(r, i), e, u)
           /\ \A h : Dialed(Shows(r, e, u), h) = Shows(Dialed(r, h), e, u)
           /\ \A h : [Connected(Shows(r, e, u), h) EXCEPT !.thread = "ended"]
                       = Shows([Connected(r, h) EXCEPT !.thread = "ended"], e, u)
           /\ \A block : WithBlock(Shows(r, e, u), block) = Shows(WithBlock(r, block), e, u)
<1>1. /\ r.is_peer_connection_established = Shows(r, e, u).is_peer_connection_established
      /\ r.have_mode = Shows(r, e, u).have_mode
      /\ r.have_piece_idx = Shows(r, e, u).have_piece_idx
      /\ r.received_bytes = Shows(r, e, u).received_bytes
      /\ r.buffer = Shows(r, e, u).buffer
  BY ShowsFields
<1>2. \A i \in Pieces : WithPiece(Shows(r, e, u), i) = Shows(WithPiece(r, i), e, u)
  BY <1>1 DEF WithPiece, Shows, Workers
<1>3. \A i \in Pieces :
        DownloadStarted(Shows(r, e, u), i) = Shows(DownloadStarted(r, i), e, u)
  BY <1>1 DEF DownloadStarted, Shows, Workers
<1>4. \A h : Dialed(Shows(r, e, u), h) = Shows(Dialed(r, h), e, u)
  BY <1>1, ZenonT(60) DEF Dialed, Connected, Shows, Workers
<1>5. \A h : [Connected(Shows(r, e, u), h) EXCEPT !.thread = "ended"]
               = Shows([Connected(r, h) EXCEPT !.thread = "ended"], e, u)
  BY <1>1, ZenonT(60) DEF Connected, Shows, Workers
<1>6. \A block : WithBlock(Shows(r, e, u), block) = Shows(WithBlock(r, block), e, u)
  BY <1>1 DEF WithBlock, Shows, Workers
<1> QED
  BY <1>2, <1>3, <1>4, <1>5, <1>6

\* The worker of OneWorker is what is shown.
LEMMA AbstractKnown ==
    ASSUME ConnectionInv
    PROVE  /\ AbstractWorker = [worker EXCEPT ![ThePeer] = Shown]
           /\ thread \in Workers /\ InStep \in BOOLEAN
<1>1. thread \in Workers /\ worker[ThePeer] = thread
  BY ThePeerKnown DEF ConnectionInv, Typed, thread
<1>2. InStepForWorker = InStep
  BY <1>1 DEF ConnectionInv, LinkKnown, InStepForWorker, InStep, InFrame, Workers
<1>3. InStep \in BOOLEAN
  BY <1>1 DEF InStep, Workers
<1> QED
  BY <1>1, <1>2, <1>3 DEF AbstractWorker, Shown, Shows, Open

\* And nothing else of it changes: there is one worker.
LEMMA StepKnown ==
    ASSUME ConnectionInv, ConnectionInv'
    PROVE  /\ AbstractWorker[ThePeer] = Shown
           /\ AbstractWorker' = [AbstractWorker EXCEPT ![ThePeer] = Shown']
<1>1. Peers = {ThePeer}
  BY OnePeerAssumption DEF Peers, ThePeer
<1>2. worker \in [Peers -> Workers] /\ worker' \in [Peers -> Workers]
  BY DEF ConnectionInv, Typed
<1>3. AbstractWorker = [worker EXCEPT ![ThePeer] = Shown]
  BY AbstractKnown
<1>4. AbstractWorker' = [worker' EXCEPT ![ThePeer] = Shown']
  <2>1. (ConnectionInv => AbstractWorker = [worker EXCEPT ![ThePeer] = Shown])'
    BY AbstractKnown, PTL
  <2> QED
    BY <2>1
<1> QED
  BY <1>1, <1>2, <1>3, <1>4

--------------------------------------------------------------------------------
(***************************************************************************)
(* The operators of OneWorker are those of this module.                    *)
(***************************************************************************)
LEMMA SameData ==
    /\ NoPiece = OW!NoPiece /\ Foreign = OW!Foreign /\ Pieces = OW!Pieces
    /\ Peers = OW!Peers
    /\ \A r : Request(r) = OW!Request(r)
    /\ \A r : MoreToReceive(r) = OW!MoreToReceive(r)
    /\ \A r : AnyBytes(r) = OW!AnyBytes(r)
    /\ \A v, q : Answers(v, q) = OW!Answers(v, q)
    /\ \A r, block : WithBlock(r, block) = OW!WithBlock(r, block)
    /\ \A s, k : Without(s, k) = OW!Without(s, k)
    /\ \A i : piece_len(i) = OW!piece_len(i)
<1>0. NoPiece = OW!NoPiece /\ Foreign = OW!Foreign /\ Pieces = OW!Pieces /\ Peers = OW!Peers
  BY DEF NoPiece, OW!NoPiece, Foreign, OW!Foreign, Pieces, OW!Pieces, Peers, OW!Peers
<1>1. /\ \A i : piece_len(i) = OW!piece_len(i)
      /\ \A i : PieceSize(i) = OW!PieceSize(i)
      /\ \A a, b : size_sub(a, b) = OW!size_sub(a, b)
      /\ \A a, b : size_add(a, b) = OW!size_add(a, b)
  BY DEF piece_len, OW!piece_len, PieceSize, OW!PieceSize, size_sub, OW!size_sub,
         size_add, OW!size_add
<1>2. \A i, n : block_len(i, n) = OW!block_len(i, n)
  BY <1>1 DEF block_len, OW!block_len
<1>3. /\ \A r : Request(r) = OW!Request(r)
      /\ \A r : MoreToReceive(r) = OW!MoreToReceive(r)
      /\ \A r : AnyBytes(r) = OW!AnyBytes(r)
      /\ \A v, q : Answers(v, q) = OW!Answers(v, q)
  BY <1>0, <1>1, <1>2
     DEF Request, OW!Request, MoreToReceive, OW!MoreToReceive, AnyBytes, OW!AnyBytes,
         Answers, OW!Answers
<1>4. \A b, block : ostream_write(b, block) = OW!ostream_write(b, block)
  BY <1>0 DEF ostream_write, OW!ostream_write
<1>5. \A r, block : WithBlock(r, block) = OW!WithBlock(r, block)
  BY <1>1, <1>4 DEF WithBlock, OW!WithBlock
<1>6. \A s, k : Without(s, k) = OW!Without(s, k)
  BY DEF Without, OW!Without
<1> QED
  BY <1>0, <1>1, <1>3, <1>5, <1>6

\* The same of what the threads do to a record.
LEMMA SameRecords ==
    /\ \A v : InterestedAnswers(v) = OW!InterestedAnswers(v)
    /\ \A r, h : Connected(r, h) = OW!Connected(r, h)
    /\ \A r, h : Dialed(r, h) = OW!Dialed(r, h)
    /\ \A r : Threw(r) = OW!Threw(r)
    /\ \A r : Returned(r) = OW!Returned(r)
    /\ \A r : FrameLost(r) = OW!FrameLost(r)
    /\ \A r : MaybeFrameLost(r) = OW!MaybeFrameLost(r)
    /\ \A r : Cleared(r) = OW!Cleared(r)
    /\ \A r : Recorded(r) = OW!Recorded(r)
    /\ \A r, i : WithPiece(r, i) = OW!WithPiece(r, i)
    /\ \A r : ConnectStarted(r) = OW!ConnectStarted(r)
    /\ \A r, i : DownloadStarted(r, i) = OW!DownloadStarted(r, i)
    /\ \A r : Joined(r) = OW!Joined(r)
    /\ \A r : HasEnded(r) <=> OW!HasEnded(r)
    /\ \A r : started(r) <=> OW!started(r)
    /\ \A r : Usable(r) <=> OW!Usable(r)
    /\ NewWorker = OW!NewWorker
<1>0. NoPiece = OW!NoPiece /\ Foreign = OW!Foreign /\ Pieces = OW!Pieces
  BY SameData
<1>1. /\ \A v : InterestedAnswers(v) = OW!InterestedAnswers(v)
      /\ \A r, h : Connected(r, h) = OW!Connected(r, h)
      /\ \A r : Threw(r) = OW!Threw(r)
      /\ \A r : Returned(r) = OW!Returned(r)
      /\ \A r : FrameLost(r) = OW!FrameLost(r)
      /\ \A r : MaybeFrameLost(r) = OW!MaybeFrameLost(r)
  BY <1>0 DEF InterestedAnswers, OW!InterestedAnswers, Connected, OW!Connected, Threw,
         OW!Threw, Returned, OW!Returned, FrameLost, OW!FrameLost,
         MaybeFrameLost, OW!MaybeFrameLost
<1>2. \A r, h : Dialed(r, h) = OW!Dialed(r, h)
  BY <1>1 DEF Dialed, OW!Dialed
<1>3. /\ \A r : Cleared(r) = OW!Cleared(r)
      /\ \A r : Recorded(r) = OW!Recorded(r)
      /\ \A r, i : WithPiece(r, i) = OW!WithPiece(r, i)
  BY <1>0 DEF Cleared, OW!Cleared, Empty, OW!Empty, Recorded, OW!Recorded,
         WithPiece, OW!WithPiece
<1>4. /\ \A r : ConnectStarted(r) = OW!ConnectStarted(r)
      /\ \A r, i : DownloadStarted(r, i) = OW!DownloadStarted(r, i)
      /\ \A r : Joined(r) = OW!Joined(r)
      /\ \A r : HasEnded(r) <=> OW!HasEnded(r)
      /\ \A r : started(r) <=> OW!started(r)
      /\ \A r : Usable(r) <=> OW!Usable(r)
      /\ NewWorker = OW!NewWorker
  BY <1>0 DEF NewWorker, OW!NewWorker, Empty, OW!Empty, ConnectStarted, OW!ConnectStarted,
         DownloadStarted, OW!DownloadStarted, Joined, OW!Joined, HasEnded, OW!HasEnded,
         started, OW!started, Joinable, OW!Joinable, Running, OW!Running, Usable, OW!Usable
<1> QED
  BY <1>1, <1>2, <1>3, <1>4

--------------------------------------------------------------------------------
(***************************************************************************)
(* Each step is one of OneWorker, or not seen by it.                       *)
(***************************************************************************)
\* What the invariant says of what is shown.
LEMMA ShownKnown ==
    ASSUME ConnectionInv
    PROVE  /\ thread \in Workers /\ InStep \in BOOLEAN
           /\ outstanding \in Seq(Requests)
           /\ ~thread.is_peer_connection_established => InStep /\ Open = << >>
           /\ ~InStep => Open = << >>
           /\ link = "in_step" => InStep
           /\ thread.is_peer_connection_established => (InStep <=> link = "in_step")
           /\ InStep /\ call \notin {"request", "piece_body"} => Open = outstanding
           /\ InStep /\ call \in {"request", "piece_body"} =>
                /\ Open \in Seq(Requests)
                /\ Len(Open) = Len(outstanding) - 1
                /\ Append(Open, Request(thread)) = outstanding
<1>1. thread \in Workers /\ InStep \in BOOLEAN /\ outstanding \in Seq(Requests)
  BY AbstractKnown DEF ConnectionInv, Typed
<1>2. call \in {"request", "piece_body"} => thread.is_peer_connection_established
  BY DEF ConnectionInv, CallKnown, EstablishedKnown
<1>3. ASSUME InStep, call \in {"request", "piece_body"}
      PROVE  /\ Open \in Seq(Requests)
             /\ Len(Open) = Len(outstanding) - 1
             /\ Append(Open, Request(thread)) = outstanding
  <2>1. outstanding # << >> /\ outstanding[Len(outstanding)] = Request(thread)
    BY <1>2, <1>3 DEF InStep, ConnectionInv, LinkKnown
  <2>2. Open = SubSeq(outstanding, 1, Len(outstanding) - 1)
    BY <1>3 DEF Open
  <2>3. /\ Len(outstanding) \in Nat /\ Len(outstanding) > 0
        /\ Open \in Seq(Requests) /\ Len(Open) = Len(outstanding) - 1
        /\ \A k \in 1 .. Len(outstanding) - 1 : Open[k] = outstanding[k]
    <3>1. Len(outstanding) \in Nat /\ Len(outstanding) > 0
      BY <1>1, <2>1
    <3> DEFINE n == Len(outstanding) - 1
    <3>2. n \in 0 .. Len(outstanding) /\ n \in Nat
      BY <3>1
    <3> HIDE DEF n
    <3>3. /\ SubSeq(outstanding, 1, n) \in Seq(Requests)
          /\ Len(SubSeq(outstanding, 1, n)) = n
          /\ \A k \in 1 .. n : SubSeq(outstanding, 1, n)[k] = outstanding[k]
      BY <1>1, <3>1, <3>2
    <3> QED
      BY <2>2, <3>1, <3>3 DEF n
  <2> DEFINE a == Append(Open, Request(thread))
  <2>4. /\ a \in Seq(Requests) /\ Len(a) = Len(outstanding)
        /\ \A k \in 1 .. Len(outstanding) - 1 : a[k] = outstanding[k]
        /\ a[Len(outstanding)] = outstanding[Len(outstanding)]
    BY <1>1, <2>1, <2>3, RequestType
  <2> HIDE DEF a
  <2>5. \A k \in 1 .. Len(outstanding) : a[k] = outstanding[k]
    BY <2>3, <2>4
  <2>6. a = outstanding
    <3>1. DOMAIN a = 1 .. Len(outstanding) /\ DOMAIN outstanding = 1 .. Len(outstanding)
      BY <1>1, <2>4
    <3> QED
      BY <1>1, <2>4, <2>5, <3>1
  <2> QED
    BY <2>3, <2>6 DEF a
<1>4. ~thread.is_peer_connection_established => InStep /\ Open = << >>
  BY <1>2 DEF InStep, Open, ConnectionInv, EstablishedKnown
<1>5. thread.is_peer_connection_established => (InStep <=> link = "in_step")
  BY DEF InStep
<1> QED
  BY <1>1, <1>3, <1>4, <1>5 DEF InStep, Open

\* The same for the next state.
LEMMA ShownNext ==
    ASSUME ConnectionInv, ConnectionInv'
    PROVE  /\ AbstractWorker[ThePeer] = Shown
           /\ AbstractWorker' = [AbstractWorker EXCEPT ![ThePeer] = Shown']
           /\ Shown = Shows(thread, InStep, Open)
           /\ Shown' = Shows(thread', InStep', Open')
           /\ thread' \in Workers /\ InStep' \in BOOLEAN
           /\ ~thread'.is_peer_connection_established => InStep' /\ Open' = << >>
           /\ ~InStep' => Open' = << >>
           /\ link' = "in_step" => InStep'
           /\ thread'.is_peer_connection_established => (InStep' <=> link' = "in_step")
           /\ InStep' /\ call' \notin {"request", "piece_body"} => Open' = outstanding'
<1>1. (ConnectionInv =>
         /\ thread \in Workers /\ InStep \in BOOLEAN
         /\ outstanding \in Seq(Requests)
         /\ ~thread.is_peer_connection_established => InStep /\ Open = << >>
         /\ ~InStep => Open = << >>
         /\ link = "in_step" => InStep
         /\ thread.is_peer_connection_established => (InStep <=> link = "in_step")
         /\ InStep /\ call \notin {"request", "piece_body"} => Open = outstanding
         /\ InStep /\ call \in {"request", "piece_body"} =>
              /\ Open \in Seq(Requests)
              /\ Len(Open) = Len(outstanding) - 1
              /\ Append(Open, Request(thread)) = outstanding)'
  BY ShownKnown, PTL
<1> QED
  BY <1>1, StepKnown DEF Shown

\* A step between two reads of an exchange is not seen.
LEMMA NotSeen ==
    ASSUME ConnectionInv, ConnectionInv', UNCHANGED <<worker, outstanding, link>>,
           call \in {"request", "piece_body"} <=> call' \in {"request", "piece_body"}
    PROVE  UNCHANGED AbstractWorker
<1>1. thread' = thread /\ outstanding' = outstanding /\ link' = link
  BY DEF thread
<1>2. InStep' = InStep
  BY <1>1 DEF InStep
<1>3. Open' = Open
  BY <1>1, <1>2 DEF Open
<1> QED
  BY <1>1, <1>2, <1>3 DEF AbstractWorker, InStepForWorker, InStep, ConnectionInv,
     LinkKnown, InFrame

\* What a step does to what is shown, now.
LEMMA ShownSteps ==
    ASSUME ConnectionInv
    PROVE  /\ Shown.thread = thread.thread
           /\ Threw(Shown) = Shows(Threw(thread), InStep, Open)
           /\ Returned(Shown) = Shows(Returned(thread), InStep, Open)
           /\ FrameLost(Shown) = Shows(thread, FALSE, << >>)
           /\ ConnectStarted(Shown) = Shows(ConnectStarted(thread), InStep, Open)
           /\ Joined(Shown) = Shows(Joined(thread), InStep, Open)
           /\ \A i \in Pieces : WithPiece(Shown, i) = Shows(WithPiece(thread, i), InStep, Open)
           /\ \A i \in Pieces :
                DownloadStarted(Shown, i) = Shows(DownloadStarted(thread, i), InStep, Open)
           /\ \A h : Dialed(Shown, h) = Shows(Dialed(thread, h), InStep, Open)
           /\ \A h : [Connected(Shown, h) EXCEPT !.thread = "ended"]
                       = Shows([Connected(thread, h) EXCEPT !.thread = "ended"], InStep, Open)
           /\ \A block : WithBlock(Shown, block) = Shows(WithBlock(thread, block), InStep, Open)
<1>1. thread \in Workers /\ Shown = Shows(thread, InStep, Open)
  BY ShownKnown DEF Shown
<1> DEFINE e == InStep
           u == Open
<1>2. /\ Threw(Shows(thread, e, u)) = Shows(Threw(thread), e, u)
      /\ Returned(Shows(thread, e, u)) = Shows(Returned(thread), e, u)
      /\ ConnectStarted(Shows(thread, e, u)) = Shows(ConnectStarted(thread), e, u)
      /\ Joined(Shows(thread, e, u)) = Shows(Joined(thread), e, u)
  <2> HIDE DEF e, u
  <2> QED
    BY <1>1, ShowsSame
<1>3. Shows(thread, e, u).thread = thread.thread
  <2> HIDE DEF e, u
  <2> QED
    BY <1>1, ShowsFields
<1>5. FrameLost(Shows(thread, e, u)) = Shows(thread, FALSE, << >>)
  <2> HIDE DEF e, u
  <2> QED
    BY <1>1 DEF FrameLost, Shows, Workers
<1>4. /\ \A i \in Pieces : WithPiece(Shows(thread, e, u), i) = Shows(WithPiece(thread, i), e, u)
      /\ \A i \in Pieces :
           DownloadStarted(Shows(thread, e, u), i) = Shows(DownloadStarted(thread, i), e, u)
      /\ \A h : Dialed(Shows(thread, e, u), h) = Shows(Dialed(thread, h), e, u)
      /\ \A h : [Connected(Shows(thread, e, u), h) EXCEPT !.thread = "ended"]
                  = Shows([Connected(thread, h) EXCEPT !.thread = "ended"], e, u)
      /\ \A block : WithBlock(Shows(thread, e, u), block) = Shows(WithBlock(thread, block), e, u)
  <2> HIDE DEF e, u
  <2> QED
    BY <1>1, ShowsPiece
<1> QED
  BY <1>1, <1>2, <1>3, <1>4, <1>5

\* A worker just made is shown as such.
LEMMA ShowsNew ==
    ASSUME NEW e, NEW u, e = TRUE, u = << >> PROVE Shows(NewWorker, e, u) = NewWorker
<1>1. NewWorker.in_frame = TRUE /\ NewWorker.unanswered = << >> /\ NewWorker \in Workers
  BY NewWorkerType DEF NewWorker
<1>2. ASSUME NEW r \in Workers PROVE [r EXCEPT !.in_frame = @, !.unanswered = @] = r
  BY DEF Workers
<1> QED
  BY <1>1, <1>2 DEF Shows

\* The caller starts and joins the thread.
LEMMA CallStep ==
    ASSUME ConnectionInv, ConnectionInv', Call(ThePeer), UNCHANGED connection
    PROVE  OW!Call(ThePeer)
<1>1. /\ thread \in Workers /\ InStep \in BOOLEAN /\ worker \in [Peers -> Workers]
      /\ thread = worker[ThePeer] /\ Shown = Shows(thread, InStep, Open)
      /\ AbstractWorker[ThePeer] = Shown
      /\ AbstractWorker' = [AbstractWorker EXCEPT ![ThePeer] = Shown']
      /\ Shown' = Shows(thread', InStep', Open')
      /\ link' = link /\ outstanding' = outstanding /\ call' = call
  BY ShownKnown, ShownNext DEF thread, connection, ConnectionInv, Typed
<1>2. ASSUME NEW r \in Workers, Becomes(r),
             r.is_peer_connection_established = thread.is_peer_connection_established
      PROVE  Shown' = Shows(r, InStep, Open)
  <2>1. thread' = r
    BY <1>1, <1>2, ThreadKnown
  <2>2. InStep' = InStep
    BY <1>1, <1>2, <2>1 DEF InStep
  <2>3. Open' = Open
    BY <1>1, <2>2 DEF Open
  <2> QED
    BY <1>1, <2>1, <2>2, <2>3
<1>3. CASE StartConnect(ThePeer)
  <2>1. thread = NewWorker /\ Becomes(ConnectStarted(thread)) /\ ConnectStarted(thread) \in Workers
    BY <1>1, <1>3, EndType DEF StartConnect, Becomes
  <2>2. ConnectStarted(thread).is_peer_connection_established
          = thread.is_peer_connection_established
    BY <1>1 DEF ConnectStarted, Workers
  <2>3. Shown' = ConnectStarted(Shown)
    BY <1>2, <2>1, <2>2, ShownSteps
  <2>4. Shown = NewWorker
    <3>1. ~thread.is_peer_connection_established
      BY <2>1 DEF NewWorker
    <3>2. InStep = TRUE /\ Open = << >>
      BY <1>1, <3>1, ShownKnown
    <3> QED
      BY <1>1, <2>1, <3>2, ShowsNew
  <2> QED
    BY <1>1, <2>3, <2>4, SameRecords DEF OW!Call, OW!StartConnect
<1>4. ASSUME NEW i \in Pieces, StartDownload(ThePeer, i) PROVE OW!Call(ThePeer)
  <2>1. /\ ~started(thread) /\ Usable(thread)
        /\ thread = NewWorker \/ thread.is_peer_connection_established
        /\ Becomes(DownloadStarted(thread, i)) /\ DownloadStarted(thread, i) \in Workers
    BY <1>1, <1>4, WithPieceType DEF StartDownload, Becomes
  <2>2. DownloadStarted(thread, i).is_peer_connection_established
          = thread.is_peer_connection_established
    BY <1>1 DEF DownloadStarted, Workers
  <2>3. Shown' = DownloadStarted(Shown, i)
    BY <1>2, <2>1, <2>2, ShownSteps
  <2>4. /\ ~started(Shown) /\ Usable(Shown)
        /\ Shown.is_peer_connection_established = thread.is_peer_connection_established
    BY <1>1, <2>1, ShowsFields DEF started, Usable
  <2>5. Shown = NewWorker \/ Shown.is_peer_connection_established
    <3>1. ASSUME thread = NewWorker PROVE Shown = NewWorker
      <4>1. ~thread.is_peer_connection_established
        BY <3>1 DEF NewWorker
      <4>2. InStep = TRUE /\ Open = << >>
        BY <1>1, <4>1, ShownKnown
      <4> QED
        BY <1>1, <3>1, <4>2, ShowsNew
    <3> QED
      BY <2>1, <2>4, <3>1
  <2>6. OW!StartDownload(ThePeer, i)
    BY <1>1, <2>3, <2>4, <2>5, SameRecords DEF OW!StartDownload
  <2> QED
    BY <2>6, SameData DEF OW!Call
<1>5. CASE Join(ThePeer)
  <2>1. HasEnded(thread) /\ Becomes(Joined(thread)) /\ Joined(thread) \in Workers
    BY <1>1, <1>5, EndType DEF Join, Becomes
  <2>2. Joined(thread).is_peer_connection_established = thread.is_peer_connection_established
    BY <1>1 DEF Joined, Workers
  <2>3. Shown' = Joined(Shown)
    BY <1>2, <2>1, <2>2, ShownSteps
  <2>4. HasEnded(Shown)
    BY <1>1, <2>1, ShowsFields DEF HasEnded
  <2> QED
    BY <1>1, <2>3, <2>4, SameRecords DEF OW!Call, OW!Join
<1> QED
  BY <1>3, <1>4, <1>5 DEF Call

\* _connect_to_peer throws, from check_connection_async or from _download_piece.
LEMMA ConnectThrowsStep ==
    ASSUME ConnectionInv, ConnectionInv', thread.thread \in {"connect", "dial"}, Throws
    PROVE  OW!CheckConnection(ThePeer) \/ OW!Dial(ThePeer)
<1>1. thread \in Workers /\ ~thread.is_peer_connection_established
  BY ShownKnown DEF ConnectionInv, EstablishedKnown
<1>2. thread' = Threw(thread) /\ ~thread'.is_peer_connection_established
  <2>1. Threw(thread) \in Workers /\ ~Threw(thread).is_peer_connection_established
    BY <1>1, EndType DEF Threw, Workers
  <2> QED
    BY <2>1, ThreadKnown DEF Throws, EndsAs, ConnectionInv, Typed
<1>3. Shown' = Shows(thread', InStep, Open)
  <2>1. InStep = TRUE /\ Open = << >>
    BY <1>1, ShownKnown
  <2>2. InStep' = TRUE /\ Open' = << >>
    BY <1>2, ShownNext
  <2> QED
    BY <2>1, <2>2, ShownNext
<1>4. Shown' = Threw(Shown) /\ Shown.thread = thread.thread
  BY <1>1, <1>2, <1>3, ShownSteps
<1> QED
  BY <1>4, ShownNext, SameRecords DEF OW!CheckConnection, OW!Dial

\* _connect_to_peer returns.
LEMMA ConnectedStep ==
    ASSUME ConnectionInv, ConnectionInv', thread.thread \in {"connect", "dial"},
           NEW h \in InterestedAnswers(ThePeer), ConnectedAs(h),
           link' = "in_step", outstanding' = outstanding
    PROVE  OW!CheckConnection(ThePeer) \/ OW!Dial(ThePeer)
<1>1. thread \in Workers /\ ~thread.is_peer_connection_established /\ outstanding = << >>
  BY ShownKnown DEF ConnectionInv, EstablishedKnown
<1>0. h \in Pieces \cup {NoPiece}
  BY DEF InterestedAnswers
<1> DEFINE s == IF thread.thread = "connect"
                THEN [Connected(thread, h) EXCEPT !.thread = "ended"]
                ELSE Dialed(thread, h)
<1>2. thread' = s
  <2>1. s \in Workers
    BY <1>0, <1>1, ConnectedRecord
  <2>2. Becomes(s)
    BY DEF ConnectedAs
  <2> QED
    BY <2>1, <2>2, ThreadKnown DEF ConnectionInv, Typed
<1>3. Shown' = Shows(s, InStep, Open)
  <2>1. InStep = TRUE /\ Open = << >>
    BY <1>1, ShownKnown
  <2>2. call' = "none"
    BY DEF ConnectedAs
  <2>3. InStep' = TRUE /\ Open' = << >>
    BY <1>1, <2>2, ShownNext
  <2> QED
    BY <1>2, <2>1, <2>3, ShownNext
<1>4. CASE thread.thread = "connect"
  <2>1. /\ Shown' = [Connected(Shown, h) EXCEPT !.thread = "ended"]
        /\ Shown.thread = "connect"
    BY <1>3, <1>4, ShownSteps
  <2> QED
    BY <2>1, ShownNext, SameRecords DEF OW!CheckConnection
<1>5. CASE thread.thread = "dial"
  <2>1. Shown' = Dialed(Shown, h) /\ Shown.thread = "dial"
    BY <1>3, <1>5, ShownSteps
  <2> QED
    BY <2>1, ShownNext, SameRecords DEF OW!Dial
<1> QED
  BY <1>4, <1>5

\* _wait_have or the read of a HAVE ends the download: in step with the peer, or
\* for good out of it.
LEMMA WaitEndsStep ==
    ASSUME ConnectionInv, ConnectionInv', thread.thread = "wait_have",
           Throws \/ EndsAs(Returned(thread)),
           link' = "in_step" => link = "in_step" /\ outstanding' = outstanding
    PROVE  OW!WaitHave(ThePeer)
<1>1. /\ thread \in Workers /\ thread.is_peer_connection_established
      /\ call \in {"wait_have", "have_body"} /\ call' = "none"
  BY ShownKnown DEF ConnectionInv, CallKnown, EstablishedKnown, Throws, EndsAs
<1>2. PICK r \in {Threw(thread), Returned(thread)} : thread' = r
  <2>1. PICK r \in {Threw(thread), Returned(thread)} : Becomes(r)
    BY DEF Throws, EndsAs
  <2> QED
    BY <1>1, <2>1, EndType, ThreadKnown DEF ConnectionInv, Typed
<1>3. r.is_peer_connection_established
  BY <1>1, <1>2 DEF Threw, Returned, Workers
<1>4. Shown.thread = "wait_have"
  BY ShownSteps
<1>5. CASE link' = "in_step"
  <2>1. InStep' = InStep /\ Open' = Open
    BY <1>1, <1>2, <1>3, <1>5, ShownKnown, ShownNext
  <2>2. Shown' = Shows(r, InStep, Open)
    BY <1>2, <2>1, ShownNext
  <2>3. Shown' \in {Threw(Shown), Returned(Shown)}
    BY <2>2, ShownSteps
  <2> QED
    BY <1>4, <2>3, ShownNext, SameRecords DEF OW!WaitHave, MaybeFrameLost
<1>6. CASE link' # "in_step"
  <2>1. InStep' = FALSE /\ Open' = << >>
    BY <1>2, <1>3, <1>6, ShownNext
  <2>2. Shown' = Shows(r, FALSE, << >>)
    BY <1>2, <2>1, ShownNext
  <2>3. /\ Threw(Shows(thread, FALSE, << >>)) = Shows(Threw(thread), FALSE, << >>)
        /\ Returned(Shows(thread, FALSE, << >>)) = Shows(Returned(thread), FALSE, << >>)
    BY <1>1 DEF Threw, Returned, Shows, Workers
  <2>4. Shown' \in {Threw(FrameLost(Shown)), Returned(FrameLost(Shown))}
    BY <2>2, <2>3, ShownSteps
  <2> QED
    BY <1>4, <2>4, ShownNext, SameRecords DEF OW!WaitHave, MaybeFrameLost
<1> QED
  BY <1>5, <1>6

\* _wait_have returns a piece.
LEMMA WaitPieceStep ==
    ASSUME ConnectionInv, ConnectionInv', thread.thread = "wait_have",
           NEW i \in Pieces, Becomes(WithPiece(thread, i)), call' = "none",
           UNCHANGED <<outstanding, link>>
    PROVE  OW!WaitHave(ThePeer)
<1>1. /\ thread \in Workers /\ thread.is_peer_connection_established
      /\ call \in {"wait_have", "have_body"}
  BY ShownKnown DEF ConnectionInv, CallKnown, EstablishedKnown
<1> DEFINE r == WithPiece(thread, i)
<1>2. thread' = r /\ r.is_peer_connection_established
  <2>1. r \in Workers /\ r.is_peer_connection_established
    BY <1>1, WithPieceType DEF WithPiece, Workers
  <2> QED
    BY <2>1, ThreadKnown DEF ConnectionInv, Typed
<1> HIDE DEF r
<1>3. InStep' = InStep /\ Open' = Open
  <2>1. InStep' = InStep
    BY <1>1, <1>2 DEF InStep
  <2> QED
    BY <1>1, <2>1 DEF Open
<1>4. Shown' = WithPiece(Shown, i)
  BY <1>2, <1>3, ShownNext, ShownSteps DEF r
<1> QED
  BY <1>4, ShownNext, ShownSteps, SameData, SameRecords DEF OW!WaitHave

\* A round of the block loop throws: its request stays open on a connection in
\* step, or the connection is out of step for good.
LEMMA BlockThrowsStep ==
    ASSUME ConnectionInv, ConnectionInv', thread.thread = "block",
           call \in {"request", "piece_body"}, Throws,
           link' = "in_step" =>
             /\ link = "in_step" /\ outstanding' = outstanding
             /\ Len(outstanding) <= MaxUnanswered
    PROVE  OW!FailBlock(ThePeer)
<1>1. /\ thread \in Workers /\ thread.is_peer_connection_established
      /\ MoreToReceive(thread) /\ call' = "none"
  BY ShownKnown DEF ConnectionInv, CallKnown, EstablishedKnown, Throws, EndsAs
<1>2. thread' = Threw(thread) /\ Threw(thread).is_peer_connection_established
  <2>1. Threw(thread) \in Workers /\ Threw(thread).is_peer_connection_established
    BY <1>1, EndType DEF Threw, Workers
  <2> QED
    BY <2>1, ThreadKnown DEF Throws, EndsAs, ConnectionInv, Typed
<1>3. Shown.thread = "block" /\ OW!MoreToReceive(Shown)
  <2> DEFINE e == InStep
             u == Open
  <2>1. MoreToReceive(Shows(thread, e, u)) = MoreToReceive(thread)
    <3> HIDE DEF e, u
    <3> QED
      BY <1>1, ShowsFields
  <2> QED
    BY <1>1, <2>1, ShownSteps, ShownNext, SameData
<1>4. CASE link' = "in_step"
  <2>1. link = "in_step" /\ outstanding' = outstanding /\ Len(outstanding) <= MaxUnanswered
    BY <1>4
  <2>2. InStep = TRUE /\ InStep' = TRUE
    BY <1>1, <1>2, <1>4, <2>1, ShownKnown, ShownNext
  <2>3. /\ Open \in Seq(Requests) /\ Len(Open) = Len(outstanding) - 1
        /\ Append(Open, Request(thread)) = outstanding /\ Len(outstanding) \in Nat
    BY <2>2, ShownKnown
  <2>4. Open' = outstanding
    BY <1>1, <2>1, <2>2, ShownNext
  <2>5. /\ Shown.in_frame = TRUE /\ Shown.unanswered = Open
        /\ Request(Shown) = Request(thread)
    <3> DEFINE e == InStep
               u == Open
    <3>1. /\ Shows(thread, e, u).in_frame = e /\ Shows(thread, e, u).unanswered = u
          /\ Request(Shows(thread, e, u)) = Request(thread)
      <4> HIDE DEF e, u
      <4> QED
        BY <1>1, ShowsFields
    <3> QED
      BY <2>2, <3>1, ShownNext
  <2>6. Len(Open) < MaxUnanswered
    BY <2>1, <2>3, CountsAssumption
  <2>7. Shown' = Threw([Shown EXCEPT !.unanswered = Append(@, Request(Shown))])
    <3>1. Shown' = Shows(Threw(thread), TRUE, outstanding)
      BY <1>2, <2>2, <2>4, ShownNext
    <3>2. Append(Shown.unanswered, Request(Shown)) = outstanding
      BY <2>3, <2>5
    <3>3. Shown = Shows(thread, TRUE, Open)
      BY <2>2, ShownNext
    <3>4. [Shown EXCEPT !.unanswered = outstanding] = Shows(thread, TRUE, outstanding)
      BY <1>1, <3>3 DEF Shows, Workers
    <3>5. Threw(Shows(thread, TRUE, outstanding)) = Shows(Threw(thread), TRUE, outstanding)
      BY <1>1 DEF Shows, Threw, Workers
    <3> QED
      BY <3>1, <3>2, <3>4, <3>5
  <2> QED
    BY <1>3, <2>5, <2>6, <2>7, ShownNext, SameData, SameRecords DEF OW!FailBlock
<1>5. CASE link' # "in_step"
  <2>1. InStep' = FALSE /\ Open' = << >>
    BY <1>2, <1>5, ShownNext
  <2>2. Shown' = Shows(Threw(thread), FALSE, << >>)
    BY <1>2, <2>1, ShownNext
  <2>3. Threw(Shows(thread, FALSE, << >>)) = Shows(Threw(thread), FALSE, << >>)
    BY <1>1 DEF Threw, Shows, Workers
  <2>4. Shown' = Threw(FrameLost(Shown))
    BY <2>2, <2>3, ShownSteps
  <2> QED
    BY <1>3, <2>4, ShownNext, SameRecords DEF OW!FailBlock
<1> QED
  BY <1>4, <1>5

\* Whatever call fails.
LEMMA FailStep ==
    ASSUME ConnectionInv, ConnectionInv', call # "none",
           Throws \/ (call = "wait_have" /\ EndsAs(Returned(thread))),
           link' = "in_step" =>
             /\ link = "in_step" /\ outstanding' = outstanding
             /\ Len(outstanding) <= MaxUnanswered \/ thread.thread # "block"
    PROVE  \/ OW!CheckConnection(ThePeer) \/ OW!Dial(ThePeer)
           \/ OW!DownloadStep(ThePeer)
<1>1. thread.thread \in {"connect", "dial", "wait_have", "block"}
  BY NoCall
<1>2. CASE thread.thread \in {"connect", "dial"}
  BY <1>2, ConnectThrowsStep DEF ConnectionInv, CallKnown
<1>3. CASE thread.thread = "wait_have"
  BY <1>3, WaitEndsStep DEF OW!DownloadStep
<1>4. CASE thread.thread = "block"
  <2>1. call \in {"request", "piece_body"} /\ Throws
    BY <1>4 DEF ConnectionInv, Typed, CallKnown, Calls, HeaderCalls, BodyCalls
  <2> QED
    BY <1>4, <2>1, BlockThrowsStep DEF OW!DownloadStep
<1> QED
  BY <1>1, <1>2, <1>3, <1>4

\* _download_piece goes up to its first exchange, or to a piece.
LEMMA EnterStep ==
    ASSUME ConnectionInv, ConnectionInv', Enter PROVE OW!EnterDownload(ThePeer)
<1>1. /\ thread \in Workers /\ thread.thread = "enter" /\ call = "none"
      /\ call' \in {"none", "wait_have"} /\ UNCHANGED <<outstanding, link>>
  BY ShownKnown, NoCall DEF Enter, EnterDownload, thread
<1>2. thread'.is_peer_connection_established = thread.is_peer_connection_established
  BY EnteredRecord DEF Enter, ConnectionInv, Typed
<1>3. InStep' = InStep
  BY <1>1, <1>2 DEF InStep
<1>4. Open' = Open
  BY <1>1, <1>3 DEF Open
<1> DEFINE c == Cleared(thread)
           d == Cleared(Shown)
           Entered(r) == IF r.have_piece_idx # NoPiece THEN WithPiece(r, r.have_piece_idx)
                         ELSE IF r.have_mode THEN [r EXCEPT !.thread = "wait_have"]
                         ELSE WithPiece(r, r.index)
           e == InStep
           u == Open
<1>5. c \in Workers
  BY <1>1, EndType
<1>6. d = Shows(c, e, u)
  <2>1. Cleared(Shows(thread, e, u)) = Shows(c, e, u)
    <3> HIDE DEF e, u
    <3> QED
      BY <1>1, ShowsSame
  <2> QED
    BY <2>1, ShownNext
<1>7. thread' = Entered(c)
  <2>1. worker' = [worker EXCEPT ![ThePeer] = Entered(c)]
    BY DEF Enter, EnterDownload, thread
  <2> HIDE DEF Entered, c
  <2> QED
    BY <2>1, ThePeerKnown DEF thread, ConnectionInv, Typed
<1>8. Entered(d) = Shows(Entered(c), e, u)
  <2> HIDE DEF c, d, e, u
  <2>1. /\ d.have_piece_idx = c.have_piece_idx /\ d.have_mode = c.have_mode
        /\ d.index = c.index
    BY <1>5, <1>6, ShowsFields
  <2>2. c.index \in Pieces /\ (c.have_piece_idx # NoPiece => c.have_piece_idx \in Pieces)
    BY <1>5 DEF Workers
  <2>3. \A i \in Pieces : WithPiece(d, i) = Shows(WithPiece(c, i), e, u)
    BY <1>5, <1>6, ShowsPiece
  <2>4. [d EXCEPT !.thread = "wait_have"] = Shows([c EXCEPT !.thread = "wait_have"], e, u)
    BY <1>5, <1>6 DEF Shows, Workers
  <2> QED
    BY <2>1, <2>2, <2>3, <2>4
<1>9. Shown' = Entered(d)
  <2>1. Shown' = Shows(thread', InStep, Open)
    BY <1>3, <1>4, ShownNext
  <2> QED
    BY <1>7, <1>8, <2>1
<1>10. AbstractWorker' = [AbstractWorker EXCEPT ![ThePeer] = Entered(Cleared(AbstractWorker[ThePeer]))]
  BY <1>9, ShownNext
<1>11. AbstractWorker[ThePeer].thread = "enter"
  BY <1>1, ShownNext, ShownSteps
<1>12. \A r : Cleared(r) = OW!Cleared(r)
  BY SameRecords
<1>13. \A r, i : WithPiece(r, i) = OW!WithPiece(r, i)
  BY SameRecords
<1>14. NoPiece = OW!NoPiece
  BY SameData
<1> QED
  BY <1>10, <1>11, <1>12, <1>13, <1>14 DEF OW!EnterDownload

\* A request is not seen until it is answered or given up.
LEMMA SendRequestStep ==
    ASSUME ConnectionInv, ConnectionInv', SendRequest PROVE UNCHANGED AbstractWorker
<1>1. /\ thread' = thread /\ worker' = worker /\ call = "none" /\ call' = "request"
      /\ link' = link /\ outstanding \in Seq(Requests) /\ thread \in Workers
      /\ thread.is_peer_connection_established
      /\ outstanding' = IF link = "in_step" THEN Append(outstanding, Request(thread))
                                            ELSE << >>
  BY ShownKnown DEF SendRequest, thread, ConnectionInv, EstablishedKnown
<1>2. InStep' = InStep /\ (InStep <=> link = "in_step") /\ InStep \in BOOLEAN
  BY <1>1, ShownKnown DEF InStep
<1>3. Open' = Open
  <2>1. CASE InStep
    <3>1. outstanding' = Append(outstanding, Request(thread))
      BY <1>1, <1>2, <2>1
    <3>2. Request(thread) \in Requests
      BY <1>1, RequestType
    <3>3. Len(outstanding') - 1 = Len(outstanding) /\ Len(outstanding) \in Nat
      BY <1>1, <3>1, <3>2
    <3>4. Open' = SubSeq(outstanding', 1, Len(outstanding))
      BY <1>1, <1>2, <2>1, <3>3 DEF Open
    <3>5. SubSeq(Append(outstanding, Request(thread)), 1, Len(outstanding)) = outstanding
      BY <1>1, <3>2, <3>3
    <3> QED
      BY <1>1, <2>1, <3>1, <3>4, <3>5 DEF Open
  <2>2. CASE ~InStep
    BY <1>2, <2>2 DEF Open
  <2> QED
    BY <2>1, <2>2
<1>4. Shown' = Shown
  BY <1>1, <1>2, <1>3, ShownNext
<1>5. AbstractWorker = [worker EXCEPT ![ThePeer] = Shown] /\ worker \in [Peers -> Workers]
  BY AbstractKnown DEF ConnectionInv, Typed
<1> QED
  BY <1>4, <1>5, ShownNext, ThePeerKnown

\* An open request is answered.
LEMMA TakePieceBodyStep ==
    ASSUME ConnectionInv, ConnectionInv', TakePieceBody PROVE OW!ReceiveBlock(ThePeer)
<1>1. /\ thread \in Workers /\ thread.is_peer_connection_established
      /\ thread.thread = "block" /\ MoreToReceive(thread)
      /\ call = "piece_body" /\ call' = "none" /\ header \in PieceMessages
      /\ link = "in_step" /\ link' = "in_step" /\ outstanding \in Seq(Requests)
      /\ Becomes(WithBlock(thread, header.block))
  BY ShownKnown, TakeKnown DEF TakePieceBody, ConnectionInv, CallKnown, EstablishedKnown
<1> DEFINE b == header.block
<1>2. PICK k \in DOMAIN outstanding :
         outstanding[k] = header.request /\ outstanding' = Without(outstanding, k)
  BY DEF TakePieceBody
<1>3. b \in Answers(ThePeer, outstanding[k]) /\ b \in Blocks
  BY <1>1, <1>2, PieceMessageKnown
<1> HIDE DEF b
<1>4. thread' = WithBlock(thread, b) /\ WithBlock(thread, b).is_peer_connection_established
  <2>1. WithBlock(thread, b) \in Workers /\ WithBlock(thread, b).is_peer_connection_established
    BY <1>1, <1>3, WithBlockType DEF WithBlock, Workers
  <2> QED
    BY <1>1, <2>1, ThreadKnown DEF b, ConnectionInv, Typed
<1>5. InStep = TRUE /\ InStep' = TRUE
  BY <1>1, ShownKnown, ShownNext
<1>6. Append(Open, Request(thread)) = outstanding /\ Open' = Without(outstanding, k)
  BY <1>1, <1>2, <1>5, ShownKnown, ShownNext
<1>7. /\ Shown.in_frame = TRUE /\ Shown.unanswered = Open
      /\ Request(Shown) = Request(thread) /\ MoreToReceive(Shown) = MoreToReceive(thread)
  <2>0. thread \in Workers
    BY <1>1
  <2> DEFINE e == InStep
             u == Open
  <2>1. /\ Shows(thread, e, u).in_frame = e /\ Shows(thread, e, u).unanswered = u
        /\ Request(Shows(thread, e, u)) = Request(thread)
        /\ MoreToReceive(Shows(thread, e, u)) = MoreToReceive(thread)
    <3> HIDE DEF e, u
    <3> QED
      BY <2>0, ShowsFields
  <2> QED
    BY <1>5, <2>1, ShownNext
<1> DEFINE requests == Append(Shown.unanswered, Request(Shown))
<1>8. requests = outstanding
  BY <1>6, <1>7
<1>9. Shown' = [WithBlock(Shown, b) EXCEPT !.unanswered = Without(requests, k)]
  <2> DEFINE r == WithBlock(thread, b)
             o == Without(outstanding, k)
  <2>1. Shown' = Shows(r, TRUE, o)
    BY <1>4, <1>5, <1>6, ShownNext
  <2>2. WithBlock(Shown, b) = Shows(r, TRUE, Open)
    BY <1>5, ShownSteps
  <2>3. r \in Workers
    BY <1>1, <1>3, WithBlockType
  <2> HIDE DEF r, o
  <2>4. [Shows(r, TRUE, Open) EXCEPT !.unanswered = o] = Shows(r, TRUE, o)
    BY <2>3 DEF Shows, Workers
  <2> QED
    BY <1>8, <2>1, <2>2, <2>4 DEF o
<1>10. Shown.thread = "block"
  BY <1>1, ShownSteps
<1> HIDE DEF requests
<1> DEFINE a == AbstractWorker[ThePeer]
<1>11. a = Shown /\ AbstractWorker' = [AbstractWorker EXCEPT ![ThePeer] = Shown']
  BY ShownNext
<1>12. /\ a.thread = "block" /\ OW!MoreToReceive(a) /\ a.in_frame
       /\ Append(a.unanswered, OW!Request(a)) = outstanding
       /\ b \in OW!Answers(ThePeer, outstanding[k])
       /\ AbstractWorker' = [AbstractWorker EXCEPT ![ThePeer] =
            [OW!WithBlock(a, b) EXCEPT !.unanswered = OW!Without(outstanding, k)]]
  BY <1>1, <1>3, <1>7, <1>8, <1>9, <1>10, <1>11, SameData DEF requests
<1> QED
  BY <1>12 DEF OW!ReceiveBlock

\* Out of step arbitrary bytes pass for a block.
LEMMA GarbledBlockStep ==
    ASSUME ConnectionInv, ConnectionInv', call = "request", link = "out_of_step",
           UNCHANGED <<outstanding, link>>, call' = "none",
           thread.received_bytes < piece_len(thread.piece_idx),
           NEW block \in AnyBytes(thread), Becomes(WithBlock(thread, block))
    PROVE  OW!ReceiveBlock(ThePeer)
<1>1. /\ thread \in Workers /\ thread.is_peer_connection_established
      /\ thread.thread = "block" /\ MoreToReceive(thread)
  BY ShownKnown DEF ConnectionInv, CallKnown, EstablishedKnown
<1>2. block \in Blocks
  BY <1>1, CountsAssumption DEF AnyBytes, Blocks, Sizes, Workers, Contents
<1>3. thread' = WithBlock(thread, block)
      /\ WithBlock(thread, block).is_peer_connection_established
  <2>1. /\ WithBlock(thread, block) \in Workers
        /\ WithBlock(thread, block).is_peer_connection_established
    BY <1>1, <1>2, WithBlockType DEF WithBlock, Workers
  <2> QED
    BY <2>1, ThreadKnown DEF ConnectionInv, Typed
<1>4. InStep = FALSE /\ InStep' = FALSE /\ Open = << >> /\ Open' = << >>
  BY <1>1, <1>3, ShownKnown, ShownNext
<1>5. Shown' = WithBlock(Shown, block)
  BY <1>3, <1>4, ShownNext, ShownSteps
<1>6. /\ Shown.in_frame = FALSE /\ MoreToReceive(Shown) = MoreToReceive(thread)
      /\ Shown.received_bytes = thread.received_bytes
      /\ Shown.piece_idx = thread.piece_idx /\ Shown.buffer = thread.buffer
  <2>0. thread \in Workers
    BY <1>1
  <2> DEFINE e == InStep
             u == Open
  <2>1. /\ Shows(thread, e, u).in_frame = e
        /\ MoreToReceive(Shows(thread, e, u)) = MoreToReceive(thread)
        /\ Shows(thread, e, u).received_bytes = thread.received_bytes
        /\ Shows(thread, e, u).piece_idx = thread.piece_idx
        /\ Shows(thread, e, u).buffer = thread.buffer
    <3> HIDE DEF e, u
    <3> QED
      BY <2>0, ShowsFields
  <2> QED
    BY <1>4, <2>1, ShownNext
<1>7. block \in AnyBytes(Shown)
  BY <1>6 DEF AnyBytes
<1> DEFINE a == AbstractWorker[ThePeer]
<1>8. /\ a.thread = "block" /\ OW!MoreToReceive(a) /\ ~a.in_frame
      /\ a.received_bytes < OW!piece_len(a.piece_idx)
      /\ block \in OW!AnyBytes(a)
      /\ AbstractWorker' = [AbstractWorker EXCEPT ![ThePeer] = OW!WithBlock(a, block)]
  BY <1>1, <1>5, <1>6, <1>7, ShownNext, ShownSteps, SameData
<1> QED
  BY <1>8 DEF OW!ReceiveBlock

\* The loop is over.
LEMMA FinishStep ==
    ASSUME ConnectionInv, ConnectionInv', Finish PROVE OW!FinishPiece(ThePeer)
<1>1. /\ thread \in Workers /\ thread.thread = "block" /\ ~MoreToReceive(thread)
      /\ Becomes(Returned(Recorded(thread)))
      /\ UNCHANGED <<call, outstanding, link>>
  BY ShownKnown DEF Finish, FinishPiece, connection, Becomes, thread
<1> DEFINE r == Returned(Recorded(thread))
           e == InStep
           u == Open
<1>2. /\ Recorded(thread) \in Workers /\ r \in Workers
      /\ r.is_peer_connection_established = thread.is_peer_connection_established
  <2>1. Recorded(thread) \in Workers /\ r \in Workers
    BY <1>1, EndType
  <2> QED
    BY <1>1, <2>1 DEF Returned, Recorded, Workers
<1>3. thread' = r
  BY <1>1, <1>2, ThreadKnown DEF ConnectionInv, Typed
<1>4. InStep' = InStep
  BY <1>1, <1>2, <1>3 DEF InStep
<1>5. Open' = Open
  BY <1>1, <1>4 DEF Open
<1>6. /\ Returned(Recorded(Shows(thread, e, u))) = Shows(r, e, u)
      /\ MoreToReceive(Shows(thread, e, u)) = MoreToReceive(thread)
  <2> HIDE DEF e, u
  <2> QED
    BY <1>1, <1>2, ShowsSame, ShowsFields
<1>7. Shown' = Returned(Recorded(Shown)) /\ ~MoreToReceive(Shown) /\ Shown.thread = "block"
  BY <1>1, <1>3, <1>4, <1>5, <1>6, ShownNext, ShownSteps
<1> QED
  BY <1>7, ShownNext, SameData, SameRecords DEF OW!FinishPiece

\* A call that fails leaves the connection as it is, or out of step for good.
LEMMA CallFailsStep ==
    ASSUME ConnectionInv, ConnectionInv',
           UnexpectedMessage \/ TransferAborted \/ TransferFails
    PROVE  \/ OW!CheckConnection(ThePeer) \/ OW!Dial(ThePeer)
           \/ OW!DownloadStep(ThePeer)
<1>1. link' = "in_step" => InFrame'
  BY DEF ConnectionInv, LinkKnown
<1>2. CASE UnexpectedMessage \/ TransferAborted
  <2>1. /\ call # "none" /\ FewUnanswered
        /\ Throws \/ (call = "wait_have" /\ EndsAs(Returned(thread)))
    BY <1>2 DEF UnexpectedMessage, TransferAborted, HeaderCalls
  <2>2. PICK k \in 0 .. Len(stream) : Leaves(k)
    <3>1. CASE UnexpectedMessage
      <4>1. HeaderSize \in 0 .. Len(stream) /\ Leaves(HeaderSize)
        BY <3>1, MessagesKnown DEF UnexpectedMessage, ConnectionInv, Typed
      <4> QED
        BY <4>1
    <3>2. CASE TransferAborted
      <4>1. PICK k \in 0 .. Wanted - 1 : k <= Len(stream) /\ Leaves(k)
        BY <3>2 DEF TransferAborted
      <4>2. k \in 0 .. Len(stream)
        BY <4>1, WantedKnown DEF ConnectionInv, Typed
      <4> QED
        BY <4>1, <4>2
    <3> QED
      BY <1>2, <3>1, <3>2
  <2>3. /\ link' \in {link, "out_of_step"}
        /\ link' = "in_step" => outstanding' = outstanding
    BY <2>2, LeavesKnown DEF ConnectionInv
  <2>4. link' = "in_step" => /\ link = "in_step" /\ outstanding' = outstanding
                             /\ Len(outstanding) <= MaxUnanswered
    BY <1>1, <2>1, <2>3 DEF FewUnanswered
  <2> QED
    BY <2>1, <2>4, FailStep
<1>3. CASE TransferFails
  <2>1. call # "none" /\ Throws /\ link' # "in_step"
    BY <1>3 DEF TransferFails
  <2> QED
    BY <2>1, FailStep
<1> QED
  BY <1>2, <1>3

\* Out of step, arbitrary bytes pass for a message, or for none.
LEMMA GarbledStep ==
    ASSUME ConnectionInv, ConnectionInv', Garbled
    PROVE  \/ OW!CheckConnection(ThePeer) \/ OW!Dial(ThePeer)
           \/ OW!DownloadStep(ThePeer)
<1>1. link = "out_of_step" /\ UNCHANGED <<outstanding, link>> /\ link' # "in_step"
  BY DEF Garbled
<1>2. CASE /\ call # "none"
           /\ Throws \/ (call = "wait_have" /\ EndsAs(Returned(thread)))
  BY <1>1, <1>2, FailStep
<1>3. ASSUME NEW h \in Pieces, call = "wait_have", Becomes(WithPiece(thread, h)),
             call' = "none"
      PROVE  OW!WaitHave(ThePeer)
  <2>1. thread.thread = "wait_have"
    BY <1>3 DEF ConnectionInv, CallKnown
  <2> QED
    BY <1>1, <1>3, <2>1, WaitPieceStep
<1>4. ASSUME call = "request", thread.received_bytes < piece_len(thread.piece_idx),
             NEW block \in AnyBytes(thread), Becomes(WithBlock(thread, block)),
             call' = "none"
      PROVE  OW!ReceiveBlock(ThePeer)
  BY <1>1, <1>4, GarbledBlockStep
<1> QED
  BY <1>2, <1>3, <1>4 DEF Garbled, HeaderCalls, OW!DownloadStep

\* The exchanges of _connect_to_peer are one step, its last.
LEMMA ConnectingStep ==
    ASSUME ConnectionInv, ConnectionInv', Connecting
    PROVE  \/ OW!CheckConnection(ThePeer) \/ OW!Dial(ThePeer)
           \/ OW!WaitHave(ThePeer) \/ UNCHANGED AbstractWorker
<1>1. CASE Connect
  <2>1. thread.thread \in {"connect", "dial"} /\ UNCHANGED <<outstanding, link>>
        /\ call = "none"
    BY <1>1 DEF Connect
  <2>2. CASE call' = "handshake" /\ worker' = worker
    BY <2>1, <2>2, NotSeen
  <2>3. CASE Throws
    BY <2>1, <2>3, ConnectThrowsStep
  <2> QED
    BY <1>1, <2>2, <2>3 DEF Connect
<1>2. CASE TakeHandshake
  <2>1. /\ thread.thread \in {"connect", "dial"} /\ UNCHANGED <<outstanding, link>>
        /\ call = "handshake"
    BY <1>2 DEF TakeHandshake, Take, ConnectionInv, CallKnown
  <2>2. CASE call' = "bitfield" /\ worker' = worker
    BY <2>1, <2>2, NotSeen
  <2>3. CASE Throws
    BY <2>1, <2>3, ConnectThrowsStep
  <2> QED
    BY <1>2, <2>2, <2>3 DEF TakeHandshake
<1>3. CASE TakeBitfield \/ TakeBitfieldBody \/ UnchokeForBitfield \/ TakeHave
  <2>1. /\ UNCHANGED <<worker, outstanding, link>>
        /\ call \notin {"request", "piece_body"} /\ call' \notin {"request", "piece_body"}
    BY <1>3 DEF TakeBitfield, TakeBitfieldBody, UnchokeForBitfield, TakeHave, TakeHeader, Take
  <2> QED
    BY <2>1, NotSeen
<1>4. CASE UnchokeForInterested
  <2>1. /\ thread.thread \in {"connect", "dial"} /\ ConnectedAs(NoPiece)
        /\ link' = "in_step" /\ outstanding' = outstanding
    BY <1>4 DEF UnchokeForInterested, TakeHeader, Take, ConnectionInv, CallKnown
  <2>2. NoPiece \in InterestedAnswers(ThePeer)
    BY DEF InterestedAnswers
  <2> QED
    BY <2>1, <2>2, ConnectedStep
<1>5. CASE TakeHaveBody
  <2>1. /\ thread.thread \in {"connect", "dial", "wait_have"} /\ header.index \in Pieces
        /\ link = "in_step" /\ link' = "in_step" /\ outstanding' = outstanding
        /\ header.index \in InterestedAnswers(ThePeer)
    BY <1>5, HaveKnown DEF TakeHaveBody, Take, ConnectionInv, CallKnown, InterestedAnswers
  <2>2. CASE thread.thread = "wait_have"
    BY <1>5, <2>1, <2>2, WaitPieceStep DEF TakeHaveBody
  <2>3. CASE thread.thread \in {"connect", "dial"}
    BY <1>5, <2>1, <2>3, ConnectedStep DEF TakeHaveBody
  <2> QED
    BY <2>1, <2>2, <2>3
<1> QED
  BY <1>1, <1>2, <1>3, <1>4, <1>5 DEF Connecting

\* The exchanges of _download_piece.
LEMMA DownloadingStep ==
    ASSUME ConnectionInv, ConnectionInv', Downloading
    PROVE  OW!DownloadStep(ThePeer) \/ UNCHANGED AbstractWorker
<1>1. CASE UnchokeForHave
  <2>1. /\ thread.thread = "wait_have" /\ EndsAs(Returned(thread))
        /\ link = "in_step" /\ outstanding' = outstanding
    BY <1>1 DEF UnchokeForHave, TakeHeader, Take, ConnectionInv, CallKnown
  <2> QED
    BY <2>1, WaitEndsStep DEF OW!DownloadStep
<1>2. CASE TakePieceHeader
  <2>1. /\ UNCHANGED <<worker, outstanding, link>>
        /\ call = "request" /\ call' = "piece_body"
    BY <1>2 DEF TakePieceHeader, TakeHeader, Take
  <2> QED
    BY <2>1, NotSeen
<1> QED
  BY <1>1, <1>2, EnterStep, SendRequestStep, TakePieceBodyStep, FinishStep
     DEF Downloading, OW!DownloadStep

\* Every step of the thread, of its peer and of its caller.
LEMMA NextImplements ==
    ASSUME ConnectionInv, ConnectionInv', [Next]_vars
    PROVE  [OW!WorkerNext]_AbstractWorker
<1>1. ThePeer \in OW!Peers
  BY ThePeerKnown, SameData
<1>2. CASE Call(ThePeer) /\ UNCHANGED connection
  BY <1>1, <1>2, CallStep DEF OW!WorkerNext
<1>3. CASE PeerSends
  <2>1. UNCHANGED <<worker, outstanding, link>> /\ call' = call
    BY <1>3 DEF PeerSends
  <2> QED
    BY <2>1, NotSeen
<1>4. CASE Connecting
  BY <1>1, <1>4, ConnectingStep DEF OW!WorkerNext, OW!DownloadStep
<1>5. CASE Downloading
  BY <1>1, <1>5, DownloadingStep DEF OW!WorkerNext
<1>6. CASE UnexpectedMessage \/ TransferAborted \/ TransferFails
  BY <1>1, <1>6, CallFailsStep DEF OW!WorkerNext
<1>7. CASE Garbled
  BY <1>1, <1>7, GarbledStep DEF OW!WorkerNext
<1>8. CASE UNCHANGED vars
  <2>1. UNCHANGED <<worker, outstanding, link>> /\ call' = call
    BY <1>8 DEF vars, connection
  <2> QED
    BY <2>1, NotSeen
<1> QED
  BY <1>2, <1>3, <1>4, <1>5, <1>6, <1>7, <1>8 DEF Next

\* A worker that is just made.
LEMMA InitImplements == Init => OW!WorkerInit
<1> SUFFICES ASSUME Init PROVE OW!WorkerInit
  OBVIOUS
<1>1. Peers = {ThePeer} /\ worker = [w \in Peers |-> NewWorker] /\ thread = NewWorker
  BY OnePeerAssumption DEF Init, WorkerInit, Peers, ThePeer, thread
<1>2. InStep = TRUE /\ Open = << >>
  <2>1. ~thread.is_peer_connection_established
    BY <1>1 DEF NewWorker
  <2>2. link = "in_step" /\ call = "none" /\ outstanding = << >>
    BY DEF Init
  <2> QED
    BY <2>1, <2>2 DEF InStep, Open
<1>3. Shown = NewWorker
  BY <1>1, <1>2, ShowsNew DEF Shown
<1>4. AbstractWorker = [worker EXCEPT ![ThePeer] = Shown]
  BY InitKnown, AbstractKnown
<1>5. AbstractWorker = [w \in Peers |-> NewWorker]
  BY <1>1, <1>3, <1>4
<1> QED
  BY <1>5, SameData, SameRecords DEF OW!WorkerInit

--------------------------------------------------------------------------------
\* The exchanges of client/piece.cpp over bytes, wherever a transfer stops and
\* whatever is left in the socket, add up to the steps of PieceWorker: what the
\* coordinator's model takes a worker for is what the bytes allow.
THEOREM ImplementsTheWorker == Spec => ImplementsWorker
<1>1. Init => OW!WorkerInit
  BY InitImplements
<1>2. ConnectionInv /\ ConnectionInv' /\ [Next]_vars => [OW!WorkerNext]_AbstractWorker
  BY NextImplements
<1>3. Spec => []ConnectionInv
  BY ConnectionInvariant
<1> QED
  BY <1>1, <1>2, <1>3, PTL DEF Spec, ImplementsWorker, OW!WorkerSpec

================================================================================
