# A TLA+ model of the BitTorrent client

The program is a command-line BitTorrent client in C++ (`src/src`). Its own code is about 3000 lines; asio, curl, nlohmann and others, whose sources are in `src/src/lib`, do the rest (some 370000 lines, which are not modelled). This directory holds models of its concurrent core and of its data formats, the configurations that check them with TLC, and theorems checked with TLAPS.

## 1. The system

| Part | Source (under `src/src`) | State it keeps | Operations | Modelled in |
|---|---|---|---|---|
| Piece worker | `client/piece.hpp`, `client/piece.cpp` | thread, stored exception, have mode, announced piece, buffer, connection flag, last piece | start a connection check, start a download, join, rethrow; in the thread: connect, wait for HAVE, the block loop | `PieceWorker`, `OneWorker`, `PeerConnection` |
| Coordinator | `client/download_file.cpp` | list of pending pieces, workers, progress bars, files in `.pieces`, output | set up workers, rounds of start / wait / store, gather, unwind | `DownloadFile` |
| `download_piece` | `client/client.cpp`, `main.cpp` | one worker, output file | start, wait | `DownloadPiece` |
| TCP transfer | `misc/tcp_transfer.hpp` | two timers, two error codes, buffer, event loop | exchange, read; six handlers | `TcpTransfer` |
| Message codecs | `proto/` | none | pack, unpack | `Messages` |
| Bencode | `bencode/` | none | decode, encode | `Bencode`, `Encode` |
| Metainfo | `torrent.cpp` | parsed torrent file | `from_file`, `hash`, `pieces` | `Metainfo`, `Encode` (`hash`) |
| Tracker client | `client/client.cpp`, `misc/curl.cpp`, `misc/url.hpp`, `misc/parse_ip_port.hpp` | none | fetch and decode the list of peers, handshake | `Metainfo` (decoding) |
| Other commands | `main.cpp` | none | decode, info, dump, peers, handshake | not modelled |
| SHA-1 | `misc/sha1.hpp` | digest state | update, final | not modelled |
| Progress bars | `download_file.cpp`, indicators | bar positions | set progress | lifetime only |

How the parts interact. `main` runs one command. `download` gets the peers from the tracker and calls `download_file`, the *coordinator*. It makes one `PieceWorker` per peer; a worker owns a socket, an event loop and at most one thread. The coordinator starts that thread, joins it, and only then reads what it left in the worker (`is_piece_transfer_complete`, `_exception`, `_have_mode`, `_last_piece_idx`, `_buffer`). Coordinator and threads share nothing else, except that the progress callback writes to bars the coordinator owns. A thread talks to its peer by `TcpTransfer`s, each of which runs the worker's event loop until nothing is left in it. Pieces go through files in `.pieces`, which outlive the process and are shared by all runs in that directory.

What is hard:

* workers of a round run concurrently, and may fail, stay silent, or come back with a piece nobody asked them for (have mode: the peer says which piece it will serve);
* a timeout and the event it guards may both be in the queue of the event loop; a peer's late answer stays in the socket for the next call;
* messages are read in two parts, a header of five bytes and the body it announces, and a part that has come when a read times out is lost;
* an exception unwinds `download_file` while threads run;
* the process may be killed at any step, and `.pieces` is what it was then.

What makes each part correct:

* *worker*: the buffer of a completed transfer is exactly the piece the worker names;
* *coordinator*: no piece is lost, none is overwritten, success means the whole file; every thread that is started is joined, also on failure; the command ends;
* *connection*: a worker that goes on reading does so at the start of a message, or of the body it expects;
* *formats*: encoding gives back what was decoded, and the bytes of the file where a hash is taken of them;
* *transfer*: success means all bytes; all bytes mean success; it returns whatever the peer does.

## 2. Modules

| Module | What it is |
|---|---|
| `PieceWorker` | The worker record, its bytes, and the actions of its thread, connecting as one step. Extended by the modules that drive it. |
| `OneWorker` | Abstract: what a `PieceWorker` promises and demands of whoever starts and joins it, in any order the class allows. |
| `PeerConnection` | One worker over the bytes of its connection: each exchange of `piece.cpp`, header and body. Implements `OneWorker`. |
| `DownloadFile` | The coordinator, composed with one thread per peer; properties and inductive invariants. |
| `FileDownload` | The abstract promise of the `download` command: pieces are stored one by one, success only with the file. |
| `DownloadPiece` | The `download_piece` command, composed with the same worker. |
| `TcpTransfer` | One transfer on its event loop. |
| `Bencode` | Decoding, as a function of documents. |
| `Encode` | Encoding, and `Metainfo::hash`, which hashes what is encoded. Its operators are recursive: for TLC only. |
| `Metainfo` | What `from_file`, `pieces` and `get_peers` make of a decoded document. |
| `Messages` | The pack and unpack functions of `proto/`, as operators on bytes. |
| `Decoding` | Whatever document may be given to the decoder, growing token by token, and the properties of `Bencode`, `Metainfo` and `Messages` on it. |
| `MCDownloadFile`, `MCTcpTransfer` | The modules as TLC checks them, with the claims of the sources that are refuted. |
| `MCBencode` | `Decoding` as TLC checks it: all documents up to a bound, torrent files and tracker answers; the definition of a canonical document and the properties of `Encode`. |
| `PieceWorker_proofs` | Lemmas about the steps of a worker that the proofs about its users share. |
| `PeerConnection_proofs` | Proofs about the bytes of a connection: in step, types, the data. |
| `PeerConnection_worker_proofs` | Proof that `PeerConnection` implements `OneWorker`. |
| `DownloadFile_proofs` | Proofs of what holds whatever peers and disks do, of the data the coordinator takes, and that the coordinator drives its workers as `OneWorker` demands; when no peer announces pieces, that no piece comes twice, that the output is made of what peers sent, that it is the file, and that `DownloadFile` implements `FileDownload`. |
| `DownloadPiece_proofs`, `TcpTransfer_proofs` | Proofs of the safety properties of these modules. |
| `Messages_proofs` | Proofs that packed messages are unpacked as what they were made from, and unpacked ones packed as what they were. |
| `Decoding_proofs` | Proofs of the properties of `Decoding`, for documents of any length. |

How they compose. `PeerConnection` implements `OneWorker` (`ImplementsWorker`): whatever bytes come, a worker behaves as `PieceWorker` says. `DownloadFile` moves its workers only as `OneWorker` allows (`DrivesWorkers`), which is what `PeerConnection` assumes of its caller (`Call`). So `DownloadFile` may use the worker with connecting in one step and with the connection reduced to `unanswered` and `in_frame`. `DownloadFile` in turn implements `FileDownload`, what the user is promised. All three are theorems (section 4).

Definitions whose comment begins with *Faulty* (`..._asked`, `..._kept` and so on) are not part of the specifications. Each is a plausible mistake in the definition it is named after; `PROJECT.json` ("mutants") says which property it breaks.

### Correspondence with the code

**Worker.** `worker[w]` is the record of the fields of `PieceWorker` plus the locals of `_download_piece` (`piece_idx`, `received_bytes`) and the argument of `download_piece_async` (`index`). `thread` says where the thread is: `connect` (in `check_connection_async`), `enter` (start of `_download_piece`), `dial` (in `_connect_to_peer` called from there), `wait_have`, `block` (the loop), `ended` (the function has returned but the thread is still joinable), `none`. An action is one exchange with the peer, or the code between two exchanges. In `PieceWorker` the exchanges of `_connect_to_peer` are a single step: they are sequential, none of them changes the worker before the last one, and they end in success, success with HAVE, or an exception; `PeerConnection` has them one by one.

**Bytes.** A buffer is "the first `size` bytes of piece `piece`", or foreign. `ostream_write` keeps a buffer a prefix only if the block continues it. `size_sub` and `size_add` are arithmetic on `size_t`, modulo `SizeModulus`. `unanswered` is the list of requests the peer has received and may still answer, one entry for each time a request was sent; `in_frame` says whether the next byte in the socket starts a message. When it does not, the worker may take any bytes for the block it waits for (`AnyBytes`).

**Connection.** `stream` is the sequence of bytes sent and not read, a byte being a message and a position in it; `call` is the exchange or read the thread is in, `header` the header it has accepted. `Wanted` is the number of bytes that call waits for, `Take` and `TakeHeader` its success, `TransferAborted` its timeout after any number of bytes, `TransferFails` an error of the socket, `UnexpectedMessage` a header that was not expected, of which the body stays in the socket. `Leaves(k)` says what a call that fails after `k` bytes leaves. Once a message is cut (`link` is `out_of_step`) the bytes are arbitrary, and `Garbled` lets them pass for anything a call may accept. A message is put into the stream when a read waits for it; sending earlier makes no difference, since only reads look at the stream. `AbstractWorker` is the refinement mapping: the worker with `in_frame` and `unanswered` computed from the stream and the open requests.

**Coordinator.** `location` is the place in `download_file`; `current` the position of the loop over workers, which is also how the two range-v3 views (`started`, not `started`) are modelled: the next worker after `current` that satisfies the predicate *now*. The list of pending pieces is shuffled once; here it is a set and any order is possible. `stored` is derived: pieces that are no longer pending and not in the hands of the coordinator. `pieces_files[i]` is `Missing`, `LeftOver` (from another torrent) or contents. `OpenPiece` and `WritePiece` are two steps, because the process may be killed between them. An exception takes the coordinator to `unwind`, where the vector of workers is being destroyed. `Restart` is a kill, or a failure, followed by the same command; it is possible at every step.

**Transfer.** `queue` holds the handlers of finished operations. Cancelling a timer completes the waits that are pending with "aborted" and leaves those already queued, as asio does. The read timeout of every call in the program (10 s by default, 3 s and 20 s) is longer than the 2 s of a write and both run from the construction of the transfer, so the read timer expires second. On a socket that is not open a transfer is over from the start, with an error (`NotConnected`). `async_read` asks for no bytes when none are expected (`AsyncRead`); for such a read "all bytes are there" says nothing, which is why `CompleteMeansOk` asks for at least one.

**Bencode.** A document is a sequence of bytes, a decoded value a record whose only field is named for its kind. `Decoded(used, value)` is the pair the code returns; `used` is the length of the view in `EncodedValue`. `Throws` is the `Json::type_error` of a key that is not UTF-8. `decode_bencoded_value` and its loops call one another, so they are one recursive function, `decode`, of calls: a call is `value`, `items` or `entries` on what remains of the document. `ListLoop` and `DictLoop` are the loops over `remaining_encoded_list` and `remaining_encoded_dict`, `Opened` counts the symbol a container begins with; their parameter `calls` is the function they make calls of. `to_integer` is `IsInteger` (has a value) and `FromChars` (which). `size_t` shows only in `decode_string`: a sum that wraps is larger than every document.

## 3. Runs

| Run | Instance | What it shows |
|---|---|---|
| `download_seeds` | 2 peers, 3 pieces of 3, 3, 1 bytes, blocks of 2, 2 runs of the command, fair | Peers serve what they are asked for, in parts of any size, and may fail or stay silent. `download_file` implements `FileDownload`; success means the file (`OutputIsFile`); no piece comes twice (`NoPieceTwice`); the files another download left in `.pieces` never reach the output, also when a run is killed and the command run again (`OutputOfThisDownload`); the command ends (`Termination`). |
| `download_have` | 2 peers, one may announce pieces, the other is corrupt; 2 pieces of 3 and 2 bytes, blocks of 2, one request left unanswered, disk may fail, fair | Whatever peers do: the protocol of `PieceWorker` is kept, no thread is left, a stored piece is not touched again; and what the coordinator takes from a worker is all of the piece it names, unless the worker is in have mode and had nothing to give or was behind with its peer (`TakenPieceIsRight`). No worker receives more bytes than its piece has, after which `remain_bytes` would wrap and the loop not end, unless it is in have mode and behind (`RemainDoesNotWrap`). Every step of the coordinator on a worker is one `OneWorker` allows: a worker is not started while it has a thread, nor, after an exception, unless it is in have mode (`DrivesWorkers`). Every download that is started is waited for, also when other workers of the round fail or have nothing to give (`EveryDownloadAwaited`). |
| `piece` | 1 peer that may announce pieces, 3 pieces, fair | `download_piece` outputs the piece asked for (`OutputIsPiece`) or fails; it ends, never by rethrowing a null exception (`EndsProperly`). |
| `tcp` | answers of 3 bytes, fair | The transfer properties under every order of completion, expiry and cancellation. |
| `connection` | 1 peer that may announce pieces, 2 pieces of 3 and 2 bytes, up to 8 messages, headers of 3 bytes, bodies of 0 to 3 | The exchanges of `piece.cpp` over bytes add up to the steps of `PieceWorker` (`ImplementsWorker`). Whoever goes on reading is in step with the peer (`FrameKept`); only a worker in have mode is ever used again after a message was cut (`OthersInStep`). While in step and with no request open, a transfer that counts as complete is the whole piece it names, or nothing (`CleanTransferIsRight`). |
| `bencode` | documents of up to 4 of 12 tokens, where the openings `d1:ei1e`, `d1:ed` and `d-2:a` (a key with a negative length) count as one; torrent files and tracker answers with entries present, missing or of another kind; hashes of 2 and peers of 3 bytes | What is decoded is decoded again from its encoding (`RoundTrip`); canonical documents are decoded exactly and encode to their own bytes (`DecodesCanonical`), and no others do (`EncodesCanonical`), so the hash of `info` is that of the file's bytes for a canonical file (`HashIsOfFile`); what follows a value has no influence on it, unless a key has a negative length (`ConsumedDecides`). `pieces` and `get_peers` yield what stands in the document (`PiecesAreOfFile`, `PeersAreOfAnswer`). The same bytes taken for a message lose nothing when unpacked (`UnpackedIsPacked`). |

Runs that refute a claim of the sources; each is a finding in `PROJECT.json`:

| Run | Counterexample |
|---|---|
| `download_last_piece` | Length 6, pieces of 3: `length % piece_length` is 0, the last piece is never requested, the command succeeds with 3 of 6 bytes. |
| `download_no_have` | In have mode a worker whose peer announces nothing within 20 s returns as if complete; the coordinator takes its empty buffer. |
| `download_late_answer` | A request times out in have mode; its answer comes when the next piece is requested, and is written into that piece. |
| `download_bars` | One worker fails; unwinding destroys the progress bars, then waits for workers that still report to them. |
| `tcp_write_timeout` | The write timer expires while the completed write is in the queue; the timeout handler then cancels the read. |
| `tracker_no_peers` | The answer `d1:l0:e` (`l` stands for `peers`): an empty string is text to the decoder, so `get_peers` throws where it should return no peers, and the check "No peers returned from server" in `main` is never reached. The documents of `bencode`, one property (`EmptyListIsNoPeers`). |

**Bounds.** Two workers are enough for every interaction of workers, since these meet only through the pending list and the order of joins: one succeeds while the other fails, is skipped, brings the same piece, or is ahead or behind. Three pieces with two workers give rounds with more pieces than workers and rounds with fewer. Blocks of 2 with pieces of 3 give a full block, a rest, and partial answers to both. One peer that announces pieces is enough for what announcements can do to the others: it may announce any piece, be it stored, asked of the other worker in the same round, or pending; the safety properties of `download_have` were also checked once with two such peers, where they hold, and are theorems for any number (so is `OutputOfThisDownload`, whose run has none, since it needs a disk that works). `MaxUnanswered = 1` lets one late answer meet a later request. `MaxRuns = 2` lets one run be killed at any step and another start from what it left. `SizeModulus = 64` only has to exceed the sizes by a margin for a wrapped value to be recognised. In `ReceiveBlock` a worker that is out of frame receives only while it has fewer bytes than the piece: with more, `remain_bytes` has wrapped and the code asks for blocks for ever; `FailBlock` is the way out. A transfer of 3 bytes has one, two or three partial reads; one of 0 bytes (the body of an empty message) ends when it starts, and is covered by the theorems, which are for every `Expected`. In `connection`, eight messages are the handshake, a bitfield, UNCHOKE or HAVE and five more: enough to time out on a block, announce again and receive the late answer, before or after the new one (`MaxUnanswered = 2`). A header of 3 bytes can be cut in two places, a handshake of 2 in one; a keep-alive is one byte shorter than a header, so it takes one byte of the next message, as in the code; a body of a HAVE has 1 byte, of a BITFIELD 0 or 1, of a PIECE 2 or 3. The peer stops after `MaxMessages`, hence no check for deadlock there. `bencode` stops at its longest documents. The tokens of `MCBencode` give nested lists and dictionaries, two entries in and out of order and with equal keys, strings that look like structure or are not UTF-8, superfluous and missing digits, negative numbers and lengths; `IntegerMax = 10` puts the overflow of `from_chars` at 11. For `Messages` a byte has 18 values there (`Radix`), as many as `Bytes`; its theorems hold for every radix.

**Fairness.** The coordinator and each worker thread are threads of the operating system (`WF_vars(Coordinator)`, `WF_vars(Thread(w))`); a thread's step is a transfer, which ends (that is `Returns` of `TcpTransfer`), or `connect`, which the system ends. No fairness is assumed of a peer: a failing step is always an alternative, and a peer that sends bytes does send bytes, so that the loop over a piece is finite. `FairSpec` of `TcpTransfer` assumes that time passes and the event loop runs, and nothing of the peer or the socket.

`Termination` is checked for peers that do not announce pieces. With have mode the code has no such guarantee: a worker whose connection is dead throws in each round, the coordinator passes over it, and if all workers are like that the loop does not end.

## 4. Proofs

The theorems are about the `Spec` of each module, without fairness, for every value of the constants the ASSUMEs allow: any number of peers and pieces, lengths, sizes of blocks and messages, `SizeModulus`, sets of peers, and bounds on restarts, messages and open requests. The ASSUMEs are what a well-formed torrent file satisfies (positive lengths, pieces that cover the file) and that sizes fit into `size_t`. With them every safety property of the passing runs is a theorem, except the four of `bencode` about encoding, and so are the three refinements. Seven theorems need a hypothesis more, which each names; the findings show what happens without:

| Hypothesis | Says | Needed by |
|---|---|---|
| `Seeds` | no peer announces pieces or is corrupt, the disk works, the length is no multiple of the piece length | `OutputIsTheFile`, `ImplementsTheDownload` |
| `HavePeers = {}` | no peer announces pieces | `NoPieceIsTwice` |
| `HavePeers = {}`, `~DiskFails` | no peer announces pieces, files can be opened and written | `OutputIsFromPeers` |
| `HonestPeer` | the peer is not corrupt, the length is no multiple of the piece length | `TransferIsRight` (of `PeerConnection`), `OutputIsThePiece` (of `DownloadPiece`) |
| `~DiskFails` | files can be opened and written | `OutputIsOfThisDownload` |

**Worker** (`PieceWorker_proofs`). Lemmas only: each function on the record of a worker keeps its type; each step of a thread past connecting that ends it leaves a transfer marked complete or a stored exception (`ThreadOutcome`); and a buffer that is a prefix of its piece with `received_bytes` bytes (`Prefix`) stays one when the next request is answered, and is the whole piece when the loop ends (`PrefixBlock`, `PrefixIsPiece`). The arithmetic is `PieceLenRight`: with a last piece that is not empty the code's length of it is right. `WorkerSound` is what every worker keeps, whoever its peer is: as long as its thread runs it is in step with its peer or in have mode; while it is in step and no earlier request is open, its buffer is a prefix of its piece, of bytes of its peer; and what it has when a transfer is complete may be handed over, `HandsOver` (`SoundThread` for the steps of its thread, `SoundCalls` for those of its caller).

**Connection** (`PeerConnection_proofs`). `ConnectionInv` is inductive; `FrameKept`, `OthersInStep` and the types follow from it. Its parts:

* `Framed`: at every position of the stream, the rest of the message it belongs to follows, and then the first byte of another. This is the strengthening the proofs rest on. `AtMessage` alone is not inductive, since it says nothing of the byte that is next after a header or a body is taken. Because `Framed` says at each byte where its message ends, taking any number of bytes keeps it (`FramedRest`) and so does sending a message (`FramedSent`), without induction over the stream.
* `CallKnown`: which thread makes which call, and that the header of a body is one the call has accepted.
* `LinkKnown`: a connection in step is at a message, or at the body of the header accepted; otherwise nothing is left in the stream. While an answer is waited for, the last open request is that of the current round.
* `EstablishedKnown`: a worker without a connection is in step, has sent nothing and is not in have mode, unless it has thrown.

`TransferIsRight` adds `DataInv`: on a connection in step with no earlier request open, the buffer of the block loop is a prefix of the piece; a worker that waits for an announcement has an empty buffer.

**Refinement of the worker** (`PeerConnection_worker_proofs`). `ImplementsTheWorker`: every step over bytes is a step of `OneWorker` under the mapping `AbstractWorker`, or is not seen. Exchanges before the last of `_connect_to_peer`, headers, and requests that go out are not seen; a request counts as open for `OneWorker` only once its round is given up, which is why the mapping hides the last of `outstanding` during a round. `Shows(r, e, u)` is the record that is shown, and `ShowsSame`, `ShowsPiece` say that what a thread does to its record it does to what is shown. Each call that fails is shown in step or out of step for good (`FailStep`), from `LeavesKnown`.

**Coordinator, whatever peers and the disk do** (`DownloadFile_proofs`). `ProtocolInvariant` is the inductive invariant: types; which workers may have a thread at each place of the coordinator (`ThreadsKnown`: only the one being connected; in `start` those up to `current`; while waiting those after it); and that a download that has ended is complete, or in have mode, or has stored an exception (`OutcomeKnown`). `ProtocolKept` is not inductive without these two: that `StartWorker` finds no thread rests on every earlier round having joined all it started. From it follow `TypeCorrect`, `ProtocolIsKept`, `ThreadsEnd` and, with a lemma on single steps, `StoredPiecesStay`. `OutputIsOfThisDownload` needs `WrittenHere` besides: the file of every stored piece was written in this run, and gathering starts when all are stored. `WorkersAreDriven` needs `SetupKnown` and `ThrewKnown`: before it is their turn in `setup_workers` workers are new, afterwards those that are kept are connected; and one that threw is started again only in have mode.

`TakenPiecesAreRight` is `WorkerSound` of every worker (`WorkersInvariant`) at the place where its data is taken; `RemainsDoNotWrap` is the same in the block loop, where the buffer of a worker that is not behind is a prefix of its piece.

**Coordinator, when no peer announces pieces** (the second half of `DownloadFile_proofs`). Two inductive invariants, relative to `ProtocolInv`. `PiecesInv`: a worker downloads the piece it was started on and completes no other (`OnIndex`), and the workers of a round are on different pending pieces (`OwnPieces`); `NoPieceIsTwice` follows, with corrupt peers and a failing disk. `FilesHold`, if also writes succeed: stored files are pieces as a peer sent them and the output is made of them, one by one. It needs `TakenPieceIsRight`, and `OutputIsFromPeers` follows. Under `Seeds` such an output is the file (`OutputIsTheFile`). All hold for any number of kills and restarts, since `MaxRuns` is arbitrary. `ImplementsTheDownload` goes step by step from the same invariants: `WritePiece` is `Store`, the end of `gather_pieces` is `Finish`, that of unwinding `Fail`, and `Restart` is `Retry`; no other step is seen (`AbstractStutters`).

**`download_piece`** (`DownloadPiece_proofs`). `PieceInv` follows the one worker from its start over the announcement that may come while it connects to its end: it stays on the piece asked for. `OutputIsThePiece` is that at the end.

**Transfer** (`TcpTransfer_proofs`). `TransferInv` is inductive: a transfer is writing, reading or over; it has one operation on the socket, either pending or as the only handler of its kind in the queue (`OneIo`); a pending operation has its timer waited for or expired in the queue (`Armed`); and in a plain read only its own timer can abort (`OwnTimer`, `OwnAbort`). That "no error" is stored while bytes are missing is in `Reading`; it is harmless because a transfer leaves that state only with all bytes or with an error, which is the hard part of `OkIsComplete` and `CompleteIsOk`.

**Messages** (`Messages_proofs`), for every radix of bytes of at least 2: what `pack_msg_header`, `pack_request_msg` and `pack_handshake` make is unpacked as what it was made from, for all numbers of four bytes (`HeaderArrives`, `RequestArrives`, `HandshakeArrives`); and whatever bytes are unpacked as a header, PIECE or HAVE, packing gives them back (`UnpackingLosesNothing`, the formula `PackedAgain`; for the documents of `Decoding` that is `UnpackedIsPacked`, theorem `UnpackingDocuments`). The arithmetic is in `UnpackPack` and `PackUnpack`: each of four bytes is a quotient modulo the radix, and the last quotient is below the radix because the number has four bytes. The rest is where bytes are after concatenation (`Concatenated`, `UnpackBefore`, `UnpackBehind`, `CutOut`).

**Decoding** (`Decoding_proofs`), for every set of tokens and documents of any length, `IntegerMax`, and lengths of hashes and peers; assumed is only that tokens are documents and that every byte of a document may be one of a message. Each claim about `decode` is shown by its least counterexample: the calls that a call makes have a smaller `Measure` (they are on less of the document), so that among the calls that break a claim there is one whose calls all keep it (`LeastCall`, from the well-foundedness of the order of natural numbers). In that way:

* `DecodeExists`: the recursion that defines `decode` has a solution. Solutions for the calls below a bound exist and agree with one another (`SolutionExists`, `SolutionIsUnique`), and `decode` gives each call what a solution for it gives. Without this nothing could be said about `decode`.
* `DecodedInRange`: a call uses at least one byte and none behind the document, so that the loops advance and end.
* `EntriesAreDecoded`: an entry of a dictionary is a value decoded somewhere in the document, and (`DecodedKinds`, `StandsLater`) a string that is decoded stands there as one. From these and the arithmetic of chunks (`ChunksInARow`, `PeerPacksAgain`) come `PiecesFromFile` and `PeersFromAnswer`.
* `DecidesStep`: a call gives the same for every document that agrees with its own on the bytes it uses (`Agree`), unless a negative length is among them. The hard case is a key of negative length: it takes all the rest of the document and so depends on what follows, but uses fewer bytes than it takes, perhaps none of those of the number. `NegativeKey` shows that the value decoded behind it ends behind the colon of that length, so that the length is among the bytes used all the same. `ConsumedDecidesResult` follows.

The inductive invariants were evaluated by TLC on the instances of `download_have` (`ProtocolInv`), `download_seeds`, also with a corrupt peer and a failing disk (`PiecesInv`, `FilesHold`), `connection` (`ConnectionInv` and its `DataInv`), `piece` (`PieceInv`) and `tcp` (`TransferInv`) before they were proved.

**Only model-checked.** The liveness properties `Termination`, `EveryDownloadAwaited`, `EndsProperly` and `Returns`: liveness under fairness is not within reach of the prover. `RoundTrip`, `DecodesCanonical`, `EncodesCanonical` and `HashIsOfFile`: `encode` and `Canonical` are recursive operators, which the prover cannot reason about; as functions they would have to be of values of any depth, for which there is no set. `WriteTimeoutMeansNoWrite`, `CompleteTransferHasData`, `BytesAreOfPiece`, `BarsOutliveThreads` and `EmptyListIsNoPeers` are claims that do not hold.

## 5. Not modelled, and assumptions on the outside

* Peers answer with at least one and at most the requested number of bytes, and serve only ranges within a piece; announced indexes are pieces of the torrent. The code does not check this.
* A peer sends whole messages of known kinds, the handshake first, and of answers to requests only those to requests it has received. In what cut messages are read as, anything goes. Bytes that happen to be in step again are covered by that: arbitrary bytes include the right ones.
* A timeout of `_wait_have` with the answer under way, and a write that fails, are the same to a worker: it has lost the bytes that came (`TransferAborted`), or the connection (`TransferFails`).
* The index of `download_piece` is a piece of the torrent. `main.cpp:135` takes any number: a larger one gets `piece_length` as its size, no peer serves it, and the command fails by timeout or with the connection; from 2^32 on it is cut to 32 bits in the request, which may then name a piece of the torrent.
* Two processes in the same directory: the program has no notion of another one.
* The query string for the tracker and the HTTP request: both are state of libcurl. A hash with a zero byte is cut on its way there (`url.hpp:90`, listed under hazards).
* The `handshake` command: one exchange through libcurl, whose answer is printed. What it packs and unpacks is in `Messages`.
* `SHA-1`: taken to tell all inputs apart; no property depends on more.
* A kill leaves a piece file absent, old, empty or whole; a prefix of a piece (a kill while the stream is flushed) behaves as an empty one, since the next run truncates it before it is read.
* In a torrent file: `strict` is true in all calls of `from_file`; lengths that are zero or negative are accepted by `from_file` and not considered by `PieceWorker`. Where the code reads past the end (`pieces` of a length that is no multiple of 20, a handshake with another protocol name), the operators say `undefined`.
* In bencode: UTF-8 sequences of more than one byte (they are text as ASCII is), and values decoding never yields. A cut off document ends with the zero of its `std::string`.
* Exceptions other than `std::exception`; memory exhaustion.
* The commands `decode`, `info`, `dump` and `peers`: one call of an operator of `Bencode` or `Metainfo` each, and output.
* `_try_have` and `_check_piece_hash`, which nothing calls.

## 6. Plan

1. Done: the modules of section 2, their runs, the theorems above.
2. Peers that announce pieces: what `OutputOfThisDownload` and `TakenPieceIsRight` leave open is whether a piece comes twice (the coordinator then throws) and whether all of the output is whole, which `CompleteTransferHasData` shows is not so.
