------------------------------ MODULE LogPump ------------------------------
(***************************************************************************)
(* One pod-log WebSocket on the server, internal/api/ws_logs.go: the pump  *)
(* opens a follow stream under the user's credentials, readChunks moves    *)
(* its bytes into a small channel, writeLoop moves them on to the socket,  *)
(* and watchPeerDisconnect waits for the peer to go.  The goroutines share *)
(* a context, a channel of chunks and a channel of one error.              *)
(*                                                                         *)
(* A chunk is its position in the pod's log.                               *)
(***************************************************************************)
EXTENDS Integers, Sequences, SequencesExt

CONSTANTS forwardChanDepth,  \* capacity of the channel of chunks (4)
          Tails,             \* the ?tail= values asked for
          MaxLog             \* bound on the chunks the pod writes

ASSUME LogPumpAssumption ==
  /\ forwardChanDepth \in Nat \ {0}
  /\ Tails \subseteq Nat
  /\ MaxLog \in Nat

VARIABLES
  written,   \* the chunks the pod has written so far
  finished,  \* the pod has ended: it writes no more
  conn,      \* the server's end of the WebSocket: none, open, or how it ended
  peer,      \* the browser's end is reachable
  wire,      \* the chunks written to the WebSocket and not read from it
  ctx,       \* the pump's context is alive
  body,      \* the follow stream has not been closed by the pump
  broken,    \* the follow stream failed on the API server's side
  next,      \* the next chunk the stream gives
  reader,    \* readChunks: reading, sending or done
  bytesCh,   \* the chunks in the channel
  closed,    \* readChunks has closed the channel
  errCh,     \* a read error is in the channel of errors
  writer,    \* writeLoop: selecting, writing or done
  writing,   \* the chunk writeLoop holds while it is writing
  watcher,   \* watchPeerDisconnect is running
  audit,     \* the outcomes recorded for this request
  first,     \* history: the first chunk of the stream
  sent,      \* history: the chunks written to the WebSocket
  why        \* history: what made writeLoop return

pod == <<written, finished>>
readerVars == <<next, reader, bytesCh, closed, errCh>>
writerVars == <<writer, writing, sent, why>>
streamVars == <<ctx, body, broken, first>>
connVars == <<conn, peer, wire, watcher, audit>>
pumpVars == <<readerVars, writerVars, streamVars, connVars>>

NoChunk == 0
ConnStates == {"none", "open", "refused", "internal error", "abnormal"}

(* A request that has not reached the handler yet.                         *)
Fresh ==
  /\ conn' = "none" /\ peer' = TRUE /\ wire' = <<>> /\ watcher' = FALSE
  /\ ctx' = FALSE /\ body' = FALSE /\ broken' = FALSE /\ first' = 1
  /\ next' = 1 /\ reader' = "done" /\ bytesCh' = <<>> /\ closed' = FALSE /\ errCh' = FALSE
  /\ writer' = "done" /\ writing' = NoChunk /\ sent' = <<>> /\ why' = "none"
  /\ audit' = <<>>

PumpInit ==
  /\ conn = "none" /\ peer = TRUE /\ wire = <<>> /\ watcher = FALSE
  /\ ctx = FALSE /\ body = FALSE /\ broken = FALSE /\ first = 1
  /\ next = 1 /\ reader = "done" /\ bytesCh = <<>> /\ closed = FALSE /\ errCh = FALSE
  /\ writer = "done" /\ writing = NoChunk /\ sent = <<>> /\ why = "none"
  /\ audit = <<>>
  /\ written = 0 /\ finished = FALSE

-----------------------------------------------------------------------------
(* Stream up to the pump: bad parameters or a refused upgrade, and a log   *)
(* stream that does not open, of which the peer learns by close code 1011. *)
Refuse ==
  /\ conn = "none"
  /\ conn' = "refused"
  /\ audit' = Append(audit, "denied")
  /\ UNCHANGED <<pod, readerVars, writerVars, streamVars, peer, wire, watcher>>

OpenFails ==
  /\ conn = "none"
  /\ conn' = "internal error"
  /\ \E outcome \in {"denied", "error"} : audit' = Append(audit, outcome)
  /\ UNCHANGED <<pod, readerVars, writerVars, streamVars, peer, wire, watcher>>

(* The stream starts tail chunks before the present end of the log.        *)
Start(tail) == IF tail >= written THEN 1 ELSE written - tail + 1

Open(tail) ==
  /\ conn = "none"
  /\ conn' = "open"
  /\ ctx' = TRUE
  /\ body' = TRUE
  /\ first' = Start(tail)
  /\ next' = Start(tail)
  /\ reader' = "reading"
  /\ writer' = "selecting"
  /\ watcher' = TRUE
  /\ UNCHANGED <<pod, bytesCh, closed, errCh, writing, sent, why, broken, peer,
                 wire, audit>>

-----------------------------------------------------------------------------
(* readChunks: read, send, report, and close the channel on the way out.   *)
Read ==
  /\ reader = "reading"
  /\ body /\ ~broken
  /\ next <= written
  /\ reader' = "sending"
  /\ UNCHANGED <<pod, next, bytesCh, closed, errCh, writerVars, streamVars, connVars>>

DropsWhenFull ==
  /\ reader = "sending"
  /\ bytesCh' = IF Len(bytesCh) < forwardChanDepth THEN Append(bytesCh, next) ELSE bytesCh
  /\ next' = next + 1
  /\ reader' = "reading"
  /\ UNCHANGED <<pod, closed, errCh, writerVars, streamVars, connVars>>

SendChunk ==
  /\ reader = "sending"
  /\ Len(bytesCh) < forwardChanDepth
  /\ bytesCh' = Append(bytesCh, next)
  /\ next' = next + 1
  /\ reader' = "reading"
  /\ UNCHANGED <<pod, closed, errCh, writerVars, streamVars, connVars>>

StopReader(reports) ==
  /\ reader' = "done"
  /\ closed' = TRUE
  /\ errCh' = reports
  /\ UNCHANGED <<pod, next, bytesCh, writerVars, streamVars, connVars>>

(* The send is one arm of a select, the context the other.                 *)
BlocksForever == FALSE

GivesUp == ~ctx

SendCancelled == reader = "sending" /\ GivesUp /\ StopReader(FALSE)

(* A read that ends in EOF, or because the pump closed the stream or its   *)
(* context died, is not an error; past its deadline it may pass for one.   *)
ReportsOnEOF == FALSE

ReadEnds ==
  /\ reader = "reading"
  /\ \/ ~ctx /\ \E reports \in BOOLEAN : StopReader(reports)
     \/ ~body /\ StopReader(FALSE)
     \/ finished /\ next > written /\ StopReader(ReportsOnEOF)
     \/ broken /\ StopReader(TRUE)

-----------------------------------------------------------------------------
(* writeLoop: each arm of the select, and the write of a chunk.            *)
TakeChunk ==
  /\ writer = "selecting"
  /\ bytesCh # <<>>
  /\ writing' = Head(bytesCh)
  /\ bytesCh' = Tail(bytesCh)
  /\ writer' = "writing"
  /\ UNCHANGED <<pod, next, reader, closed, errCh, sent, why, streamVars, connVars>>

WriteChunk ==
  /\ writer = "writing"
  /\ wire' = Append(wire, writing)
  /\ sent' = Append(sent, writing)
  /\ writing' = NoChunk
  /\ writer' = "selecting"
  /\ UNCHANGED <<pod, readerVars, why, streamVars, conn, peer, watcher, audit>>

(* writeLoop returns, and so do the pump and Stream: the stream is closed, *)
(* the context cancelled, one entry recorded, the connection closed with   *)
(* no close frame.                                                         *)
RecordsAgain == audit \o <<"success", "success">>

Recorded == Append(audit, "success")

Return(reason) ==
  /\ writer' = "done"
  /\ writing' = NoChunk
  /\ why' = IF ctx THEN reason ELSE "cancelled"
  /\ body' = FALSE
  /\ ctx' = FALSE
  /\ audit' = Recorded
  /\ conn' = "abnormal"
  /\ UNCHANGED <<pod, readerVars, sent, broken, first, peer, wire, watcher>>

WriterReturns ==
  \/ writer = "writing" /\ ~peer /\ Return("peer")
  \/ writer = "selecting" /\ ~peer /\ Return("peer")  \* the ping fails
  \/ writer = "selecting" /\ ~ctx /\ Return("cancelled")
  \/ writer = "selecting" /\ closed /\ bytesCh = <<>> /\ Return("drained")
  \/ writer = "selecting" /\ errCh /\ Return("error")

-----------------------------------------------------------------------------
PeerWatchEnds ==  \* the peer closed, missed its pong, or the pump is over
  /\ watcher
  /\ ~peer \/ conn # "open"
  /\ watcher' = FALSE
  /\ ctx' = FALSE
  /\ UNCHANGED <<pod, readerVars, writerVars, body, broken, first, conn, peer,
                 wire, audit>>

Deadline ==       \* logTailStreamMaxAge
  /\ ctx
  /\ ctx' = FALSE
  /\ UNCHANGED <<pod, readerVars, writerVars, body, broken, first, connVars>>

PeerGoes ==
  /\ peer
  /\ peer' = FALSE
  /\ UNCHANGED <<pod, readerVars, writerVars, streamVars, conn, wire, watcher, audit>>

StreamBreaks ==
  /\ body /\ ~broken
  /\ broken' = TRUE
  /\ UNCHANGED <<pod, readerVars, writerVars, ctx, body, first, connVars>>

PodWrites ==
  /\ ~finished
  /\ written < MaxLog
  /\ written' = written + 1
  /\ UNCHANGED <<finished, pumpVars>>

PodFinishes ==
  /\ ~finished
  /\ finished' = TRUE
  /\ UNCHANGED <<written, pumpVars>>

-----------------------------------------------------------------------------
Accept == Refuse \/ OpenFails \/ \E tail \in Tails : Open(tail)
Reader == Read \/ SendChunk \/ SendCancelled \/ ReadEnds
Writer == TakeChunk \/ WriteChunk \/ WriterReturns
World == Deadline \/ StreamBreaks \/ PodWrites \/ PodFinishes

PumpNext == Accept \/ Reader \/ Writer \/ PeerWatchEnds \/ PeerGoes \/ World

pumpAll == <<pod, pumpVars>>

PumpSpec == PumpInit /\ [][PumpNext]_pumpAll

-----------------------------------------------------------------------------
(* Every variable has its type.                                            *)
PumpTypeOK ==
  /\ written \in 0 .. MaxLog
  /\ finished \in BOOLEAN
  /\ conn \in ConnStates
  /\ {peer, ctx, body, broken, closed, errCh, watcher} \subseteq BOOLEAN
  /\ reader \in {"reading", "sending", "done"}
  /\ writer \in {"selecting", "writing", "done"}
  /\ next \in 1 .. MaxLog + 1 /\ first \in 1 .. MaxLog + 1
  /\ bytesCh \in Seq(1 .. MaxLog) /\ Len(bytesCh) <= forwardChanDepth
  /\ writing \in 0 .. MaxLog
  /\ wire \in Seq(1 .. MaxLog) /\ sent \in Seq(1 .. MaxLog)
  /\ audit \in Seq({"success", "denied", "error"})
  /\ why \in {"none", "peer", "cancelled", "drained", "error"}

Held == IF writing = NoChunk THEN <<>> ELSE <<writing>>

(* While writeLoop runs, what it has sent, what it holds and what is       *)
(* queued are together the log from the first chunk on, without a gap or a *)
(* repetition; when it has returned, what was sent still starts that way.  *)
(* A log that simply ends, its pod finished, is shown to its last chunk:   *)
(* only a peer that is gone, a cancelled context or a broken stream can    *)
(* cut it short.                                                           *)
InOrder ==
  LET whole == [i \in 1 .. next - first |-> first + i - 1]
  IN  /\ writer # "done" => sent \o Held \o bytesCh = whole
      /\ IsPrefix(sent, whole)
      /\ why # "none" /\ ~broken /\ why \notin {"peer", "cancelled"}
           => finished /\ Len(sent) = written - first + 1

(* A request leaves one audit entry, and has sent nothing to a user whose  *)
(* entry is not a success.                                                 *)
OneAuditEntry ==
  /\ conn \in {"none", "open"} => audit = <<>>
  /\ conn \notin {"none", "open"} => Len(audit) = 1
  /\ audit # <<>> /\ sent # <<>> => audit[1] = "success"

(* When the peer is gone, the context dead, the stream broken or the loop  *)
(* over, all three goroutines end: no send holds the reader for ever.      *)
GoroutinesEnd ==
  (conn \notin {"none", "refused", "internal error"}
   /\ (~peer \/ ~ctx \/ broken \/ writer = "done"))
  ~> (reader = "done" /\ writer = "done" /\ ~watcher)
=============================================================================
