-------------------------- MODULE PageStreamsProofs --------------------------
(***************************************************************************)
(* The streams of a page and the server they pass through, for every       *)
(* number of requests, users, events and applications, and every capacity, *)
(* backfill, number of retries and length of log.                          *)
(***************************************************************************)
EXTENDS PageStreams, FiniteSetTheorems, SequenceTheorems, WellFoundedInduction, TLAPS

-----------------------------------------------------------------------------
(* The order of a pod's log from the follow stream to the scrollback, and  *)
(* the audit entry of a stream, for every capacity, backfill, number of    *)
(* retries and length of log.                                              *)

(* The chunks of s are those of the log from a given one on.               *)
Counts(s, from) == \A i \in 1 .. Len(s) : s[i] = from + i - 1

(* Before the stream opens, or when it never does.                         *)
Unopened ==
  conn \in {"none", "refused", "internal error"} =>
    /\ sent = <<>> /\ wire = <<>> /\ bytesCh = <<>>
    /\ reader = "done" /\ why = "none"
    /\ ~closed /\ ~errCh /\ ~body /\ ~broken

(* The control of the three goroutines.                                    *)
Lifecycle ==
  /\ writer # "done" <=> conn = "open"
  /\ writer = "writing" <=> writing # NoChunk
  /\ conn = "open" => body /\ why = "none"
  /\ closed => reader = "done"
  /\ reader = "sending" => next <= written
  /\ first <= next /\ next <= written + 1

(* A reader that has closed the channel of a live pump was at the end of a *)
(* log that has ended, or its stream broke.                                *)
EndOfLog ==
  conn = "open" /\ ctx /\ ~broken =>
    /\ closed => finished /\ next > written
    /\ ~errCh

(* What is where, between the stream and the socket.                       *)
Chunks ==
  /\ Counts(sent, first) /\ Len(sent) <= next - first
  /\ conn = "open" =>
       /\ Len(sent) + Len(Held) + Len(bytesCh) = next - first
       /\ Counts(Held, first + Len(sent))
       /\ Counts(bytesCh, first + Len(sent) + Len(Held))

CutShortOnly ==
  why # "none" /\ ~broken /\ why \notin {"peer", "cancelled"}
    => finished /\ Len(sent) = written - first + 1

Audited ==
  /\ conn \in {"none", "open"} => audit = <<>>
  /\ conn \in {"refused", "internal error"} => Len(audit) = 1
  /\ conn = "abnormal" => audit = <<"success">>

PumpInv ==
  /\ PumpTypeOK
  /\ Unopened /\ Lifecycle /\ EndOfLog /\ Chunks /\ CutShortOnly /\ Audited

(* The scrollback sh goes on from its first n chunks without a gap, and    *)
(* not from before sh[1] where the server has rendered those n.            *)
GoesOn(sh, n, resumptions, ofServer, chunk) ==
  /\ sh[n] < chunk \/ (n = ofServer /\ sh[1] <= chunk)
  /\ n \notin resumptions => chunk = sh[n] + 1

(* The scrollback is in order but for that place and where sockets were    *)
(* opened, and all of it is in the log.                                    *)
Rising(sh, resumptions, ofServer, log) ==
  \A i \in 1 .. Len(sh) :
    /\ sh[i] <= log
    /\ i < Len(sh) => GoesOn(sh, i, resumptions, ofServer, sh[i + 1])

(* The end of the scrollback and what is on the wire are together what was *)
(* sent.                                                                   *)
Linked(sh, from, onWire) ==
  LET taken == Len(from) - Len(onWire)
      before == Len(sh) - taken
  IN  /\ taken >= 0 /\ before >= 0
      /\ \A i \in 1 .. taken : sh[before + i] = from[i]
      /\ \A i \in 1 .. Len(onWire) : onWire[i] = from[taken + i]

(* How many chunks of its stream the tab has shown, and how many others:   *)
(* those come before the first chunk of the stream.                        *)
Taken == Len(sent) - Len(wire)
Before == Len(shown) - Taken

Scrollback == Rising(shown, resumed, rendered, written) /\ saved <= written

(* The stream of a socket that goes on from the scrollback in the DOM      *)
(* starts after the last of those chunks, or, if the server has rendered   *)
(* them, not before the first.                                             *)
Joined ==
  socket # "none" /\ attached =>
    /\ Linked(shown, sent, wire)
    /\ Before \in resumed
    /\ Before > 0 =>
         /\ conn = "none" => tail = 0 \/ (Before = rendered /\ shown[1] <= Start(tail))
         /\ conn \in {"open", "abnormal"} =>
              shown[Before] < first \/ (Before = rendered /\ shown[1] <= first)

Retry == timer => socket = "none" /\ tail = 0

TabInv == TailTypeOK /\ Scrollback /\ Joined /\ Retry

-----------------------------------------------------------------------------
(* One more chunk at the end, one chunk less at the head.                  *)
LEMMA CountsAppend ==
  ASSUME NEW s \in Seq(Nat), NEW from \in Nat, Counts(s, from)
  PROVE  Counts(Append(s, from + Len(s)), from)
  BY DEF Counts

LEMMA CountsTail ==
  ASSUME NEW s \in Seq(Nat), NEW from \in Nat, s # <<>>, Counts(s, from)
  PROVE  Head(s) = from /\ Counts(Tail(s), from + 1) /\ Len(Tail(s)) = Len(s) - 1
  <1>1. Len(s) \in Nat \ {0} /\ Head(s) = s[1]
    OBVIOUS
  <1>2. \A i \in 1 .. Len(Tail(s)) : Tail(s)[i] = s[i + 1]
    OBVIOUS
  <1>. QED  BY <1>1, <1>2 DEF Counts

(* A chunk that waits, with room for it or not.                            *)
LEMMA HeldType ==
  ASSUME PumpTypeOK
  PROVE  Held \in Seq(1 .. MaxLog) /\ Len(Held) = (IF writing = NoChunk THEN 0 ELSE 1)
  <1>1. writing \in 0 .. MaxLog
    BY DEF PumpTypeOK
  <1>2. CASE writing = 0
    BY <1>2 DEF Held, NoChunk
  <1>3. CASE writing # 0
    <2>1. writing \in 1 .. MaxLog
      BY <1>1, <1>3, LogPumpAssumption
    <2>. QED  BY <1>3, <2>1 DEF Held, NoChunk
  <1>. QED  BY <1>2, <1>3

(* The operations on sequences keep what the sequences are made of.        *)
LEMMA Sequences ==
  ASSUME NEW S, NEW s \in Seq(S), NEW e \in S
  PROVE  /\ <<>> \in Seq(S) /\ Len(<<>>) = 0
         /\ Append(s, e) \in Seq(S) /\ Len(Append(s, e)) = Len(s) + 1
         /\ s # <<>> => Head(s) \in S /\ Tail(s) \in Seq(S) /\ Len(Tail(s)) = Len(s) - 1
  OBVIOUS

LEMMA HeadType ==
  ASSUME NEW S, NEW s \in Seq(S), s # <<>>
  PROVE  Head(s) \in S /\ Tail(s) \in Seq(S) /\ Len(Tail(s)) = Len(s) - 1 /\ Len(s) \in Nat
  OBVIOUS

LEMMA ElementType == ASSUME NEW S, NEW s \in Seq(S), NEW i \in 1 .. Len(s) PROVE s[i] \in S
  OBVIOUS

LEMMA Naturals == ASSUME NEW s \in Seq(1 .. MaxLog) PROVE s \in Seq(Nat) /\ Len(s) \in Nat
  <1>1. Len(s) \in Nat /\ s = [i \in 1 .. Len(s) |-> s[i]]
    OBVIOUS
  <1>2. \A i \in 1 .. Len(s) : s[i] \in Nat
    <2>1. ASSUME NEW i \in 1 .. Len(s) PROVE s[i] \in 1 .. MaxLog
      BY ElementType
    <2>. QED  BY <2>1
  <1>. QED  BY <1>1, <1>2

LEMMA Empty == ASSUME NEW S PROVE <<>> \in Seq(S) /\ Len(<<>>) = 0
  OBVIOUS

(* Each variable of the pump has its type, one at a time.                  *)
LEMMA PumpTypes ==
  ASSUME PumpTypeOK
  PROVE  /\ written \in Nat /\ written <= MaxLog /\ MaxLog \in Nat
         /\ next \in Nat /\ next >= 1 /\ next <= MaxLog + 1
         /\ first \in Nat /\ first >= 1 /\ first <= MaxLog + 1
         /\ bytesCh \in Seq(1 .. MaxLog) /\ sent \in Seq(1 .. MaxLog)
         /\ wire \in Seq(1 .. MaxLog) /\ writing \in 0 .. MaxLog
         /\ Len(bytesCh) <= forwardChanDepth /\ forwardChanDepth \in Nat
         /\ audit \in Seq({"success", "denied", "error"})
  BY LogPumpAssumption DEF PumpTypeOK

(* What the pump's steps leave alone.                                      *)
LEMMA TypeStep ==
  ASSUME PumpTypeOK, Lifecycle,
         \/ Refuse \/ OpenFails \/ (\E lines \in Tails : Open(lines))
         \/ Reader \/ Writer \/ PeerWatchEnds \/ PeerGoes \/ World
         \/ Fresh /\ UNCHANGED pod
  PROVE  PumpTypeOK'
  <1>1. ASSUME NEW outcome \in {"success", "denied", "error"}
        PROVE  Append(audit, outcome) \in Seq({"success", "denied", "error"})
    BY PumpTypes, Sequences
  <1>2. ASSUME Refuse PROVE PumpTypeOK'
    BY <1>1, <1>2 DEF Refuse, PumpTypeOK, ConnStates, pod, readerVars, writerVars, streamVars
  <1>3. ASSUME OpenFails PROVE PumpTypeOK'
    <2>1. audit' \in Seq({"success", "denied", "error"})
      BY <1>1, <1>3 DEF OpenFails
    <2>. QED
      BY <1>3, <2>1
         DEF OpenFails, PumpTypeOK, ConnStates, pod, readerVars, writerVars, streamVars
  <1>4. ASSUME NEW lines \in Tails, Open(lines) PROVE PumpTypeOK'
    <2>1. Start(lines) \in 1 .. MaxLog + 1
      BY PumpTypes, LogPumpAssumption DEF Start
    <2>. QED  BY <1>4, <2>1 DEF Open, PumpTypeOK, ConnStates, pod
  <1>5. ASSUME Read PROVE PumpTypeOK'
    BY <1>5 DEF Read, PumpTypeOK, pod, writerVars, streamVars, connVars
  <1>6. ASSUME SendChunk PROVE PumpTypeOK'
    <2>1. next <= written
      BY <1>6 DEF SendChunk, Lifecycle
    <2>2. next \in 1 .. MaxLog /\ next + 1 \in 1 .. MaxLog + 1
      BY <2>1, PumpTypes
    <2>3. Append(bytesCh, next) \in Seq(1 .. MaxLog) /\ Len(Append(bytesCh, next)) = Len(bytesCh) + 1
      BY <2>2, PumpTypes, Sequences
    <2>4. bytesCh' \in Seq(1 .. MaxLog) /\ Len(bytesCh') <= forwardChanDepth
      BY <1>6, <2>3, PumpTypes DEF SendChunk
    <2>. QED
      BY <1>6, <2>2, <2>4 DEF SendChunk, PumpTypeOK, pod, writerVars, streamVars, connVars
  <1>7. ASSUME NEW reports \in BOOLEAN, StopReader(reports) PROVE PumpTypeOK'
    BY <1>7 DEF StopReader, PumpTypeOK, pod, writerVars, streamVars, connVars
  <1>8. ASSUME TakeChunk PROVE PumpTypeOK'
    <2>1. /\ Head(bytesCh) \in 1 .. MaxLog /\ Tail(bytesCh) \in Seq(1 .. MaxLog)
          /\ Len(Tail(bytesCh)) <= forwardChanDepth
      <3>1. /\ bytesCh # <<>> /\ bytesCh \in Seq(1 .. MaxLog)
            /\ Len(bytesCh) <= forwardChanDepth /\ forwardChanDepth \in Nat
        BY <1>8, PumpTypes DEF TakeChunk
      <3>2. Len(Tail(bytesCh)) <= forwardChanDepth
        BY <3>1, HeadType
      <3>. QED  BY <3>1, <3>2, HeadType
    <2>2. writing' \in 0 .. MaxLog
      BY <1>8, <2>1, PumpTypes DEF TakeChunk
    <2>. QED  BY <1>8, <2>1, <2>2 DEF TakeChunk, PumpTypeOK, pod, streamVars, connVars
  <1>9. ASSUME WriteChunk PROVE PumpTypeOK'
    <2>1. writing \in 1 .. MaxLog
      BY <1>9, PumpTypes DEF WriteChunk, Lifecycle, NoChunk
    <2>2. Append(wire, writing) \in Seq(1 .. MaxLog) /\ Append(sent, writing) \in Seq(1 .. MaxLog)
      BY <2>1, PumpTypes, Sequences
    <2>3. NoChunk \in 0 .. MaxLog
      BY PumpTypes DEF NoChunk
    <2>. QED  BY <1>9, <2>2, <2>3 DEF WriteChunk, PumpTypeOK, pod, readerVars, streamVars
  <1>10. ASSUME NEW reason \in {"peer", "cancelled", "drained", "error"}, Return(reason)
         PROVE  PumpTypeOK'
    <2>1. NoChunk \in 0 .. MaxLog
      BY PumpTypes DEF NoChunk
    <2>2. why' \in {"none", "peer", "cancelled", "drained", "error"}
      BY <1>10 DEF Return
    <2>3. audit' \in Seq({"success", "denied", "error"})
      BY <1>1, <1>10 DEF Return, Recorded
    <2>. QED  BY <1>10, <2>1, <2>2, <2>3 DEF Return, PumpTypeOK, ConnStates, pod, readerVars
  <1>11. ASSUME PeerWatchEnds PROVE PumpTypeOK'
    BY <1>11 DEF PeerWatchEnds, PumpTypeOK, pod, readerVars, writerVars
  <1>12. ASSUME PeerGoes PROVE PumpTypeOK'
    BY <1>12 DEF PeerGoes, PumpTypeOK, pod, readerVars, writerVars, streamVars
  <1>13. ASSUME World PROVE PumpTypeOK'
    <2>1. ASSUME Deadline PROVE PumpTypeOK'
      BY <2>1 DEF Deadline, PumpTypeOK, pod, readerVars, writerVars, connVars
    <2>2. ASSUME StreamBreaks PROVE PumpTypeOK'
      BY <2>2 DEF StreamBreaks, PumpTypeOK, pod, readerVars, writerVars, connVars
    <2>3. ASSUME PodWrites PROVE PumpTypeOK'
      <3>1. written' \in 0 .. MaxLog
        BY <2>3, PumpTypes DEF PodWrites
      <3>. QED
        BY <2>3, <3>1 DEF PodWrites, PumpTypeOK, pumpVars, readerVars, writerVars, streamVars,
                          connVars
    <2>4. ASSUME PodFinishes PROVE PumpTypeOK'
      BY <2>4 DEF PodFinishes, PumpTypeOK, pumpVars, readerVars, writerVars, streamVars, connVars
    <2>. QED  BY <1>13, <2>1, <2>2, <2>3, <2>4 DEF World
  <1>14. ASSUME Fresh, UNCHANGED pod PROVE PumpTypeOK'
    <2>1. <<>> \in Seq(1 .. MaxLog) /\ <<>> \in Seq({"success", "denied", "error"})
      BY Empty
    <2>2. 1 \in 1 .. MaxLog + 1 /\ NoChunk \in 0 .. MaxLog /\ Len(<<>>) <= forwardChanDepth
      BY PumpTypes, Empty, LogPumpAssumption DEF NoChunk
    <2>. QED  BY <1>14, <2>1, <2>2 DEF Fresh, PumpTypeOK, ConnStates, pod
  <1>15. ASSUME WriterReturns PROVE PumpTypeOK'
    BY <1>10, <1>15 DEF WriterReturns
  <1>16. ASSUME SendCancelled \/ ReadEnds PROVE PumpTypeOK'
    BY <1>7, <1>16 DEF SendCancelled, ReadEnds, ReportsOnEOF
  <1>. QED
    BY <1>2, <1>3, <1>4, <1>5, <1>6, <1>8, <1>9, <1>11, <1>12, <1>13, <1>14, <1>15, <1>16
       DEF Reader, Writer

-----------------------------------------------------------------------------
(* What holds of the goroutines, of the end of the log and of the audit    *)
(* log, whichever of them takes the next step.                             *)
Control == Unopened /\ Lifecycle /\ EndOfLog /\ CutShortOnly /\ Audited

LEMMA AcceptControl ==
  ASSUME PumpInv, Accept \/ (\E lines \in Tails : Open(lines)) \/ (Fresh /\ UNCHANGED pod)
  PROVE  Control'
  <1>. USE DEF PumpInv, Control
  <1>1. ASSUME Refuse PROVE Control'
    <2>1. audit' = <<"denied">>
      BY <1>1 DEF Refuse, Audited
    <2>. QED
      BY <1>1, <2>1 DEF Refuse, Unopened, Lifecycle, EndOfLog, CutShortOnly, Audited, pod,
                        readerVars, writerVars, streamVars
  <1>2. ASSUME OpenFails PROVE Control'
    <2>1. Len(audit') = 1
      <3>1. PICK outcome : audit' = Append(<<>>, outcome)
        BY <1>2 DEF OpenFails, Audited
      <3>. QED  BY <3>1
    <2>. QED
      BY <1>2, <2>1 DEF OpenFails, Unopened, Lifecycle, EndOfLog, CutShortOnly, Audited, pod,
                        readerVars, writerVars, streamVars
  <1>3. ASSUME NEW lines \in Tails, Open(lines) PROVE Control'
    <2>1. Start(lines) \in Nat /\ Start(lines) <= written + 1
      <3>1. written \in Nat /\ lines \in Nat
        BY PumpTypes, LogPumpAssumption
      <3>. QED  BY <3>1 DEF Start
    <2>2. audit' = <<>> /\ why' = "none" /\ ~closed' /\ ~errCh' /\ ~broken'
      BY <1>3 DEF Open, Unopened, Audited
    <2>. QED
      BY <1>3, <2>1, <2>2
         DEF Open, Unopened, Lifecycle, EndOfLog, CutShortOnly, Audited, pod
  <1>4. ASSUME Fresh, UNCHANGED pod PROVE Control'
    <2>1. Lifecycle'
      BY <1>4, PumpTypes DEF Fresh, pod, Lifecycle
    <2>. QED
      BY <1>4, <2>1 DEF Fresh, Unopened, EndOfLog, CutShortOnly, Audited
  <1>. QED  BY <1>1, <1>2, <1>3, <1>4 DEF Accept

LEMMA ReaderControl == ASSUME PumpInv, Reader PROVE Control'
  <1>. USE DEF PumpInv, Control
  <1>1. ASSUME Read PROVE Control'
    BY <1>1, PumpTypes DEF Read, pod, writerVars, streamVars, connVars, Unopened, Lifecycle,
                       EndOfLog, CutShortOnly, Audited
  <1>2. ASSUME SendChunk PROVE Control'
    <2>1. Lifecycle'
      BY <1>2, PumpTypes DEF SendChunk, pod, writerVars, streamVars, connVars, Lifecycle
    <2>2. ~closed /\ conn \notin {"none", "refused", "internal error"}
      BY <1>2 DEF SendChunk, Unopened, Lifecycle
    <2>. QED
      BY <1>2, <2>1, <2>2 DEF SendChunk, pod, writerVars, streamVars, connVars, Unopened,
                              EndOfLog, CutShortOnly, Audited
  <1>3. ASSUME NEW reports \in BOOLEAN, StopReader(reports), reader # "done",
               ctx /\ ~broken => finished /\ next > written /\ ~reports
        PROVE  Control'
    BY <1>3, PumpTypes DEF StopReader, pod, writerVars, streamVars, connVars, Unopened,
                       Lifecycle, EndOfLog, CutShortOnly, Audited
  <1>4. ASSUME SendCancelled PROVE Control'
    BY <1>3, <1>4 DEF SendCancelled, GivesUp
  <1>5. ASSUME ReadEnds PROVE Control'
    <2>1. conn = "open" => body
      BY DEF Lifecycle
    <2>2. ASSUME conn # "open", NEW reports \in BOOLEAN, StopReader(reports), reader # "done"
          PROVE  Control'
      BY <2>2, PumpTypes DEF StopReader, pod, writerVars, streamVars, connVars, Unopened,
                         Lifecycle, EndOfLog, CutShortOnly, Audited
    <2>. QED  BY <1>3, <1>5, <2>1, <2>2 DEF ReadEnds, ReportsOnEOF
  <1>. QED  BY <1>1, <1>2, <1>4, <1>5 DEF Reader

LEMMA WriterControl == ASSUME PumpInv, Writer PROVE Control'
  <1>. USE DEF PumpInv, Control
  <1>1. ASSUME TakeChunk PROVE Control'
    <2>1. Head(bytesCh) # NoChunk
      BY <1>1, PumpTypes DEF TakeChunk, NoChunk
    <2>. QED
      BY <1>1, <2>1, PumpTypes DEF TakeChunk, pod, streamVars, connVars, Unopened, Lifecycle,
                               EndOfLog, CutShortOnly, Audited
  <1>2. ASSUME WriteChunk PROVE Control'
    BY <1>2, PumpTypes DEF WriteChunk, pod, readerVars, streamVars, Unopened, Lifecycle,
                       EndOfLog, CutShortOnly, Audited
  <1>3. ASSUME NEW reason \in {"peer", "cancelled", "drained", "error"}, Return(reason),
               writer # "done",
               ctx /\ ~broken /\ reason \notin {"peer", "cancelled"}
                 => finished /\ Len(sent) = written - first + 1
        PROVE  Control'
    <2>1. audit' = <<"success">>
      <3>1. audit = <<>> /\ audit' = Append(audit, "success")
        BY <1>3 DEF Return, Recorded, Audited, Lifecycle
      <3>. QED  BY <3>1
    <2>. QED
      BY <1>3, <2>1, PumpTypes DEF Return, pod, readerVars, Unopened, Lifecycle, EndOfLog,
                               CutShortOnly, Audited
  <1>4. ASSUME WriterReturns PROVE Control'
    <2>1. ASSUME writer = "selecting", closed, bytesCh = <<>>, ctx, ~broken
          PROVE  finished /\ Len(sent) = written - first + 1
      <3>1. finished /\ next > written /\ next <= written + 1 /\ conn = "open"
        BY <2>1 DEF Lifecycle, EndOfLog
      <3>2. Held = <<>> /\ Len(sent) \in Nat
        BY <2>1, PumpTypes DEF Lifecycle, Held
      <3>3. Len(sent) = next - first
        BY <2>1, <3>1, <3>2, Empty, PumpTypes DEF Chunks
      <3>. QED  BY <3>1, <3>3, PumpTypes
    <2>2. writer = "selecting" /\ errCh => ~(ctx /\ ~broken)
      BY DEF Lifecycle, EndOfLog
    <2>. QED  BY <1>3, <1>4, <2>1, <2>2 DEF WriterReturns
  <1>. QED  BY <1>1, <1>2, <1>4 DEF Writer

LEMMA WorldControl == ASSUME PumpInv, PeerWatchEnds \/ PeerGoes \/ World PROVE Control'
  <1>. USE DEF PumpInv, Control
  <1>1. ASSUME PeerWatchEnds PROVE Control'
    BY <1>1, PumpTypes DEF PeerWatchEnds, pod, readerVars, writerVars, Unopened, Lifecycle,
                       EndOfLog, CutShortOnly, Audited
  <1>2. ASSUME PeerGoes PROVE Control'
    BY <1>2, PumpTypes DEF PeerGoes, pod, readerVars, writerVars, streamVars, Unopened,
                       Lifecycle, EndOfLog, CutShortOnly, Audited
  <1>3. ASSUME Deadline PROVE Control'
    BY <1>3, PumpTypes DEF Deadline, pod, readerVars, writerVars, connVars, Unopened, Lifecycle,
                       EndOfLog, CutShortOnly, Audited
  <1>4. ASSUME StreamBreaks PROVE Control'
    BY <1>4, PumpTypes DEF StreamBreaks, pod, readerVars, writerVars, connVars, Unopened,
                       Lifecycle, EndOfLog, CutShortOnly, Audited
  <1>5. ASSUME PodWrites PROVE Control'
    <2>1. Lifecycle'
      BY <1>5, PumpTypes DEF PodWrites, pumpVars, readerVars, writerVars, streamVars, connVars,
                         Lifecycle
    <2>2. /\ ~finished
          /\ UNCHANGED <<finished, conn, sent, wire, bytesCh, reader, why, closed, errCh, body,
                         broken, ctx, audit>>
      BY <1>5 DEF PodWrites, pumpVars, readerVars, writerVars, streamVars, connVars
    <2>. QED  BY <2>1, <2>2 DEF Unopened, EndOfLog, CutShortOnly, Audited
  <1>6. ASSUME PodFinishes PROVE Control'
    BY <1>6, PumpTypes DEF PodFinishes, pumpVars, readerVars, writerVars, streamVars, connVars,
                       Unopened, Lifecycle, EndOfLog, CutShortOnly, Audited
  <1>. QED  BY <1>1, <1>2, <1>3, <1>4, <1>5, <1>6 DEF World

-----------------------------------------------------------------------------
(* Counts does not look at how the chunks got where they are.              *)
LEMMA CountsNothing == ASSUME NEW from PROVE Counts(<<>>, from)
  BY Empty DEF Counts

LEMMA CountsOne == ASSUME NEW from \in Nat PROVE Counts(<<from>>, from) /\ Len(<<from>>) = 1
  BY DEF Counts

LEMMA InNat == ASSUME PumpTypeOK
               PROVE  /\ bytesCh \in Seq(Nat) /\ sent \in Seq(Nat) /\ Held \in Seq(Nat)
                      /\ Len(bytesCh) \in Nat /\ Len(sent) \in Nat /\ Len(Held) \in Nat
                      /\ Len(wire) \in Nat
  BY PumpTypes, HeldType

(* The chunks on their way are those of the log, whatever moves.           *)
LEMMA ChunksStep ==
  ASSUME PumpInv,
         \/ Accept \/ (\E lines \in Tails : Open(lines)) \/ (Fresh /\ UNCHANGED pod)
         \/ Reader \/ Writer \/ PeerWatchEnds \/ PeerGoes \/ World
  PROVE  Chunks'
  <1>. USE DEF PumpInv
  <1>1. /\ first \in Nat /\ next \in Nat
        /\ Len(sent) \in Nat /\ Len(Held) \in Nat /\ Len(bytesCh) \in Nat
    BY PumpTypes, InNat
  <1>2. ASSUME UNCHANGED <<sent, first, next, bytesCh, writing>>, conn' = "open" => conn = "open"
        PROVE  Chunks'
    <2>1. Held' = Held
      BY <1>2 DEF Held
    <2>. QED  BY <1>2, <2>1 DEF Chunks
  <1>3. ASSUME NEW lines \in Tails, Open(lines) PROVE Chunks'
    <2>1. /\ sent' = <<>> /\ bytesCh' = <<>> /\ next' = first' /\ first' \in Nat
          /\ writing' = writing
      <3>1. Start(lines) \in Nat
        BY PumpTypes, LogPumpAssumption DEF Start
      <3>. QED  BY <1>3, <3>1 DEF Open, Unopened
    <2>2. writing = NoChunk
      BY <1>3 DEF Open, Lifecycle
    <2>3. Held' = <<>>
      BY <2>1, <2>2 DEF Held
    <2>4. Len(<<>>) = 0 /\ \A from : Counts(<<>>, from)
      BY CountsNothing, Empty
    <2>5. Len(sent') + Len(Held') + Len(bytesCh') = next' - first' /\ Len(sent') <= next' - first'
      <3>1. Len(sent') = 0 /\ Len(Held') = 0 /\ Len(bytesCh') = 0
        BY <2>1, <2>3, <2>4, Zenon
      <3>2. next' = first' /\ first' \in Nat
        BY <2>1, Zenon
      <3>3. \A k \in Nat : k - k = 0
        OBVIOUS
      <3>4. next' - first' = 0
        BY <3>2, <3>3, Zenon
      <3>5. 0 + 0 + 0 = 0 /\ 0 <= 0
        OBVIOUS
      <3>. QED  BY <3>1, <3>5, <3>4, Zenon
    <2>. QED  BY <2>1, <2>3, <2>4, <2>5 DEF Chunks
  <1>4. ASSUME Fresh PROVE Chunks'
    BY <1>4, CountsNothing, Empty DEF Fresh, Chunks
  <1>5. ASSUME SendChunk PROVE Chunks'
    <2>1. /\ bytesCh' = Append(bytesCh, next) /\ next' = next + 1
          /\ UNCHANGED <<sent, writing, first, conn>>
      BY <1>5 DEF SendChunk, writerVars, streamVars, connVars
    <2>2. Held' = Held /\ Len(bytesCh') = Len(bytesCh) + 1
      BY <2>1, PumpTypes DEF Held
    <2>3. ASSUME conn = "open"
          PROVE  Counts(Append(bytesCh, next), first + Len(sent) + Len(Held))
      <3>1. Len(sent) + Len(Held) + Len(bytesCh) = next - first
        BY <2>3 DEF Chunks
      <3>2. next = first + Len(sent) + Len(Held) + Len(bytesCh)
        BY <1>1, <3>1
      <3>3. first + Len(sent) + Len(Held) \in Nat
        BY PumpTypes, InNat
      <3>4. Counts(bytesCh, first + Len(sent) + Len(Held))
        BY <2>3 DEF Chunks
      <3>. QED  BY <3>2, <3>3, <3>4, CountsAppend, InNat
    <2>4. Len(sent) <= next' - first
      <3>1. Len(sent) <= next - first
        BY DEF Chunks
      <3>. QED  BY <1>1, <2>1, <3>1
    <2>5. conn = "open" => Len(sent) + Len(Held) + Len(bytesCh') = next' - first
      <3>1. conn = "open" => Len(sent) + Len(Held) + Len(bytesCh) = next - first
        BY DEF Chunks
      <3>. QED  BY <1>1, <2>1, <2>2, <3>1
    <2>. QED  BY <2>1, <2>2, <2>3, <2>4, <2>5 DEF Chunks
  <1>6. ASSUME TakeChunk PROVE Chunks'
    <2>1. /\ bytesCh # <<>> /\ bytesCh' = Tail(bytesCh) /\ writing' = Head(bytesCh)
          /\ UNCHANGED <<sent, next, first, conn>>
      BY <1>6 DEF TakeChunk, streamVars, connVars
    <2>2. conn = "open" /\ Held = <<>>
      BY <1>6 DEF TakeChunk, Lifecycle, Held
    <2>3. Head(bytesCh) # NoChunk
      BY <2>1, PumpTypes DEF NoChunk
    <2>4. Held' = <<Head(bytesCh)>>
      BY <2>1, <2>3 DEF Held
    <2>5. /\ Counts(bytesCh, first + Len(sent))
          /\ Len(sent) + Len(bytesCh) = next - first
      BY <2>2, PumpTypes, InNat, Empty DEF Chunks
    <2>6. /\ Head(bytesCh) = first + Len(sent)
          /\ Counts(Tail(bytesCh), first + Len(sent) + 1)
          /\ Len(Tail(bytesCh)) = Len(bytesCh) - 1
      <3>1. bytesCh \in Seq(Nat) /\ first + Len(sent) \in Nat
        BY <1>1, InNat
      <3>. QED  BY <2>1, <2>5, <3>1, CountsTail
    <2>7. Counts(Held', first + Len(sent)) /\ Len(Held') = 1
      <3>1. first + Len(sent) \in Nat
        BY <1>1
      <3>. QED  BY <2>4, <2>6, <3>1, CountsOne
    <2>8. Len(sent) + 1 + Len(bytesCh') = next - first
      <3>1. Len(bytesCh') = Len(bytesCh) - 1
        BY <2>1, <2>6, Zenon
      <3>. QED  BY <1>1, <2>5, <3>1
    <2>. QED  BY <2>1, <2>6, <2>7, <2>8 DEF Chunks
  <1>7. ASSUME WriteChunk PROVE Chunks'
    <2>1. /\ sent' = Append(sent, writing) /\ writing' = NoChunk
          /\ UNCHANGED <<bytesCh, next, first, conn>>
      BY <1>7 DEF WriteChunk, readerVars, streamVars
    <2>2. conn = "open" /\ Held = <<writing>> /\ Held' = <<>>
      BY <1>7, <2>1 DEF WriteChunk, Lifecycle, Held
    <2>3. /\ Len(sent) + 1 + Len(bytesCh) = next - first
          /\ Counts(<<writing>>, first + Len(sent))
          /\ Counts(bytesCh, first + Len(sent) + 1)
      BY <2>2, PumpTypes, InNat DEF Chunks
    <2>4. writing = first + Len(sent)
      BY <2>3, InNat, PumpTypes DEF Counts
    <2>5. Counts(sent', first) /\ Len(sent') = Len(sent) + 1
      BY <2>1, <2>4, CountsAppend, InNat, PumpTypes DEF Chunks
    <2>6. first + (Len(sent) + 1) + Len(<<>>) = first + Len(sent) + 1
      BY InNat, PumpTypes
    <2>7. Len(sent) + 1 <= next - first /\ (Len(sent) + 1) + Len(<<>>) + Len(bytesCh) = next - first
      BY <2>3, InNat, PumpTypes
    <2>. QED  BY <2>1, <2>2, <2>3, <2>5, <2>6, <2>7, CountsNothing DEF Chunks
  <1>8. ASSUME WriterReturns PROVE Chunks'
    <2>1. UNCHANGED <<sent, first, next>> /\ conn' = "abnormal"
      BY <1>8 DEF WriterReturns, Return, readerVars
    <2>. QED  BY <2>1 DEF Chunks
  <1>9. ASSUME Read \/ SendCancelled \/ ReadEnds PROVE Chunks'
    BY <1>2, <1>9 DEF Read, SendCancelled, ReadEnds, StopReader, writerVars, streamVars, connVars
  <1>10. ASSUME Refuse \/ OpenFails PROVE Chunks'
    BY <1>2, <1>10 DEF Refuse, OpenFails, readerVars, writerVars, streamVars
  <1>11. ASSUME PeerWatchEnds \/ PeerGoes \/ World PROVE Chunks'
    BY <1>2, <1>11 DEF PeerWatchEnds, PeerGoes, World, Deadline, StreamBreaks, PodWrites,
                       PodFinishes, pumpVars, readerVars, writerVars, streamVars, connVars
  <1>. QED
    BY <1>3, <1>4, <1>5, <1>6, <1>7, <1>8, <1>9, <1>10, <1>11 DEF Accept, Reader, Writer

LEMMA PumpStep ==
  ASSUME PumpInv,
         \/ Accept \/ (\E lines \in Tails : Open(lines)) \/ (Fresh /\ UNCHANGED pod)
         \/ Reader \/ Writer \/ PeerWatchEnds \/ PeerGoes \/ World
  PROVE  PumpInv'
  <1>1. PumpTypeOK /\ Lifecycle
    BY DEF PumpInv
  <1>2. PumpTypeOK'
    BY <1>1, TypeStep DEF Accept
  <1>3. Control'
    BY AcceptControl, ReaderControl, WriterControl, WorldControl
  <1>. QED  BY <1>2, <1>3, ChunksStep DEF PumpInv, Control

-----------------------------------------------------------------------------
LEMMA Concat ==
  ASSUME NEW S, NEW s \in Seq(S), NEW t \in Seq(S)
  PROVE  s \o t \in Seq(S) /\ Len(s \o t) = Len(s) + Len(t)
  OBVIOUS

LEMMA InSecond ==
  ASSUME NEW S, NEW s \in Seq(S), NEW t \in Seq(S), NEW k \in 1 .. Len(t)
  PROVE  (s \o t)[Len(s) + k] = t[k]
  OBVIOUS

(* Three runs of consecutive chunks, each where the one before it ends.    *)
LEMMA Concatenation ==
  ASSUME NEW s \in Seq(Nat), NEW t \in Seq(Nat), NEW u \in Seq(Nat),
         NEW from \in Nat, NEW n \in Nat,
         Len(s) + Len(t) + Len(u) = n,
         Counts(s, from), Counts(t, from + Len(s)), Counts(u, from + Len(s) + Len(t))
  PROVE  s \o t \o u = [i \in 1 .. n |-> from + i - 1]
  <1>1. PICK st : st = s \o t
    OBVIOUS
  <1>2. st \in Seq(Nat) /\ Len(st) = Len(s) + Len(t)
    BY <1>1
  <1>3. ASSUME NEW i \in 1 .. Len(st) PROVE st[i] = from + i - 1
    <2>1. CASE i <= Len(s)
      BY <1>1, <1>2, <1>3, <2>1 DEF Counts
    <2>2. CASE i > Len(s)
      <3>1. PICK k : k = i - Len(s)
        OBVIOUS
      <3>2. k \in 1 .. Len(t) /\ st[i] = t[k]
        BY <1>1, <1>2, <1>3, <2>2, <3>1
      <3>3. t[k] = from + Len(s) + k - 1
        BY <3>2 DEF Counts
      <3>. QED  BY <3>1, <3>2, <3>3
    <2>. QED  BY <1>2, <1>3, <2>1, <2>2
  <1>4. PICK stu : stu = st \o u
    OBVIOUS
  <1>5. stu \in Seq(Nat) /\ Len(stu) = n
    <2>1. stu \in Seq(Nat) /\ Len(stu) = Len(st) + Len(u)
      BY <1>2, <1>4, Concat
    <2>2. Len(st) + Len(u) = n
      BY <1>2
    <2>. QED  BY <2>1, <2>2
  <1>6. ASSUME NEW i \in 1 .. n PROVE stu[i] = from + i - 1
    <2>1. CASE i <= Len(st)
      BY <1>2, <1>3, <1>4, <1>5, <1>6, <2>1
    <2>2. CASE i > Len(st)
      <3>1. PICK k : k = i - Len(st)
        OBVIOUS
      <3>2. k \in 1 .. Len(u) /\ stu[i] = u[k]
        <4>1. k \in 1 .. Len(u) /\ i = Len(st) + k
          BY <1>2, <1>6, <2>2, <3>1
        <4>2. (st \o u)[Len(st) + k] = u[k]
          BY <1>2, <4>1, InSecond
        <4>. QED  BY <1>4, <4>1, <4>2
      <3>3. u[k] = from + Len(s) + Len(t) + k - 1
        BY <3>2 DEF Counts
      <3>. QED  BY <1>2, <3>1, <3>2, <3>3
    <2>. QED  BY <1>2, <1>6, <2>1, <2>2
  <1>7. stu = [i \in 1 .. n |-> from + i - 1]
    BY <1>5, <1>6
  <1>. QED  BY <1>1, <1>4, <1>7

LEMMA PrefixOfLog ==
  ASSUME NEW s \in Seq(Nat), NEW from \in Nat, NEW n \in Nat, Len(s) <= n, Counts(s, from)
  PROVE  IsPrefix(s, [i \in 1 .. n |-> from + i - 1])
  <1>1. PICK whole : whole = [i \in 1 .. n |-> from + i - 1]
    OBVIOUS
  <1>2. whole \in Seq(Int) /\ Len(whole) = n
    BY <1>1
  <1>3. SubSeq(s, 1, Len(s)) = s
    OBVIOUS
  <1>4. SubSeq(whole, 1, Len(s)) = s
    BY <1>1, <1>2 DEF Counts
  <1>. QED  BY <1>1, <1>2, <1>3, <1>4 DEF IsPrefix

(* What has been sent is the log from the first chunk on, and what is held *)
(* and queued continues it; only what CutShortOnly names cuts it short.    *)
LEMMA PumpOrder == ASSUME PumpInv PROVE InOrder
  <1>. USE DEF PumpInv
  <1>1. PICK n : n = next - first
    OBVIOUS
  <1>2. n \in Nat /\ first \in Nat
    BY <1>1, PumpTypes DEF Lifecycle
  <1>3. writer # "done" => sent \o Held \o bytesCh = [i \in 1 .. n |-> first + i - 1]
    BY <1>1, <1>2, Concatenation, InNat DEF Chunks, Lifecycle
  <1>4. IsPrefix(sent, [i \in 1 .. n |-> first + i - 1])
    BY <1>1, <1>2, PrefixOfLog, InNat DEF Chunks
  <1>. QED  BY <1>1, <1>3, <1>4 DEF InOrder, CutShortOnly

LEMMA PumpAudit == ASSUME PumpInv PROVE OneAuditEntry
  <1>1. conn \in {"none", "open", "refused", "internal error", "abnormal"}
    BY DEF PumpInv, PumpTypeOK, ConnStates
  <1>2. CASE conn = "abnormal"
    BY <1>2 DEF PumpInv, Audited, OneAuditEntry
  <1>3. CASE conn \in {"none", "open"}
    BY <1>3 DEF PumpInv, Audited, OneAuditEntry
  <1>4. CASE conn \in {"refused", "internal error"}
    BY <1>4 DEF PumpInv, Audited, Unopened, OneAuditEntry
  <1>. QED  BY <1>1, <1>2, <1>3, <1>4

-----------------------------------------------------------------------------
(* A chunk is written to the wire, and read from it.                       *)
LEMMA LinkedWrite ==
  ASSUME NEW sh \in Seq(Nat), NEW from \in Seq(Nat), NEW onWire \in Seq(Nat), NEW chunk \in Nat,
         Linked(sh, from, onWire)
  PROVE  Linked(sh, Append(from, chunk), Append(onWire, chunk))
  <1>1. PICK taken, before : taken = Len(from) - Len(onWire) /\ before = Len(sh) - taken
    OBVIOUS
  <1>2. /\ taken >= 0 /\ before >= 0 /\ taken \in Nat
        /\ \A i \in 1 .. taken : sh[before + i] = from[i]
        /\ \A i \in 1 .. Len(onWire) : onWire[i] = from[taken + i]
    BY <1>1 DEF Linked
  <1>3. PICK newFrom, newWire : newFrom = Append(from, chunk) /\ newWire = Append(onWire, chunk)
    OBVIOUS
  <1>4. /\ Len(newFrom) = Len(from) + 1 /\ Len(newWire) = Len(onWire) + 1
        /\ \A i \in 1 .. Len(from) : newFrom[i] = from[i]
        /\ \A i \in 1 .. Len(onWire) : newWire[i] = onWire[i]
        /\ newFrom[Len(from) + 1] = chunk /\ newWire[Len(onWire) + 1] = chunk
    BY <1>3
  <1>5. Len(newFrom) - Len(newWire) = taken /\ Len(from) = taken + Len(onWire)
    BY <1>1, <1>4
  <1>6. \A i \in 1 .. taken : sh[before + i] = newFrom[i]
    BY <1>2, <1>4, <1>5
  <1>7. ASSUME NEW i \in 1 .. Len(newWire) PROVE newWire[i] = newFrom[taken + i]
    <2>1. CASE i \in 1 .. Len(onWire)
      <3>1. taken + i \in 1 .. Len(from)
        <4>1. taken \in Nat /\ Len(onWire) \in Nat /\ Len(from) = taken + Len(onWire)
          BY <1>2, <1>5
        <4>. QED  BY <2>1, <4>1
      <3>2. onWire[i] = from[taken + i]
        BY <1>2, <2>1
      <3>. QED  BY <1>4, <2>1, <3>1, <3>2
    <2>2. CASE i = Len(onWire) + 1
      <3>1. taken + i = Len(from) + 1
        BY <1>2, <1>5, <2>2
      <3>. QED  BY <1>4, <2>2, <3>1
    <2>3. i \in 1 .. Len(onWire) + 1 /\ Len(onWire) \in Nat
      BY <1>4, <1>7
    <2>. QED  BY <2>1, <2>2, <2>3
  <1>8. Linked(sh, newFrom, newWire)
    BY <1>1, <1>2, <1>5, <1>6, <1>7 DEF Linked
  <1>. QED  BY <1>3, <1>8

LEMMA LinkedRead ==
  ASSUME NEW sh \in Seq(Nat), NEW from \in Seq(Nat), NEW onWire \in Seq(Nat),
         onWire # <<>>, Linked(sh, from, onWire)
  PROVE  Linked(Append(sh, Head(onWire)), from, Tail(onWire))
  <1>1. PICK taken, before : taken = Len(from) - Len(onWire) /\ before = Len(sh) - taken
    OBVIOUS
  <1>2. Len(from) \in Nat /\ Len(onWire) \in Nat /\ Len(sh) \in Nat
    OBVIOUS
  <1>3. taken \in Int /\ before \in Int
    BY <1>1, <1>2
  <1>4. /\ taken >= 0 /\ before >= 0
        /\ \A i \in 1 .. taken : sh[before + i] = from[i]
    BY <1>1 DEF Linked
  <1>5. ASSUME NEW k \in 1 .. Len(onWire) PROVE onWire[k] = from[taken + k]
    BY <1>1 DEF Linked
  <1>6. taken \in Nat /\ before \in Nat
    BY <1>3, <1>4
  <1>7. PICK newSh, newWire : newSh = Append(sh, Head(onWire)) /\ newWire = Tail(onWire)
    OBVIOUS
  <1>8. /\ Len(newSh) = Len(sh) + 1 /\ Len(newWire) = Len(onWire) - 1 /\ Len(onWire) >= 1
        /\ \A i \in 1 .. Len(sh) : newSh[i] = sh[i]
        /\ newSh[Len(sh) + 1] = onWire[1]
        /\ \A i \in 1 .. Len(newWire) : newWire[i] = onWire[i + 1]
    BY <1>7
  <1>9. /\ Len(from) - Len(newWire) = taken + 1 /\ Len(newSh) - (taken + 1) = before
        /\ Len(sh) = before + taken
    BY <1>1, <1>6, <1>8
  <1>10. ASSUME NEW i \in 1 .. taken + 1 PROVE newSh[before + i] = from[i]
    <2>1. CASE i \in 1 .. taken
      <3>1. before + i \in 1 .. Len(sh)
        BY <1>4, <1>6, <1>9, <2>1
      <3>. QED  BY <1>4, <1>6, <1>8, <2>1, <3>1
    <2>2. CASE i = taken + 1
      <3>1. before + i = Len(sh) + 1
        BY <1>4, <1>6, <1>9, <2>2
      <3>2. 1 \in 1 .. Len(onWire)
        BY <1>8, <1>2
      <3>3. onWire[1] = from[taken + 1]
        BY <1>5, <3>2
      <3>. QED  BY <1>8, <2>2, <3>1, <3>3
    <2>. QED  BY <1>4, <1>6, <1>10, <2>1, <2>2
  <1>11. ASSUME NEW i \in 1 .. Len(newWire) PROVE newWire[i] = from[taken + 1 + i]
    <2>1. i + 1 \in 1 .. Len(onWire) /\ taken + (i + 1) = taken + 1 + i
      BY <1>6, <1>8, <1>11, <1>2
    <2>2. onWire[i + 1] = from[taken + (i + 1)]
      BY <1>5, <2>1
    <2>. QED  BY <1>8, <1>11, <2>1, <2>2
  <1>12. taken + 1 >= 0 /\ before >= 0
    BY <1>4, <1>6
  <1>13. Linked(newSh, from, newWire)
    BY <1>9, <1>10, <1>11, <1>12, Zenon DEF Linked
  <1>. QED  BY <1>7, <1>13

(* One more chunk at the end of the scrollback.                            *)
LEMMA RisingAppend ==
  ASSUME NEW sh \in Seq(Nat), NEW resumptions, NEW ofServer, NEW log \in Nat, NEW chunk \in Nat,
         Rising(sh, resumptions, ofServer, log), chunk <= log,
         Len(sh) > 0 => GoesOn(sh, Len(sh), resumptions, ofServer, chunk)
  PROVE  Rising(Append(sh, chunk), resumptions, ofServer, log)
  <1>1. PICK more : more = Append(sh, chunk)
    OBVIOUS
  <1>2. /\ Len(more) = Len(sh) + 1 /\ more[Len(sh) + 1] = chunk
        /\ \A i \in 1 .. Len(sh) : more[i] = sh[i]
    BY <1>1
  <1>3. ASSUME NEW i \in 1 .. Len(more)
        PROVE  /\ more[i] <= log
               /\ i < Len(more) => GoesOn(more, i, resumptions, ofServer, more[i + 1])
    <2>1. CASE i = Len(sh) + 1
      BY <1>2, <2>1
    <2>2. CASE i = Len(sh)
      <3>1. 1 \in 1 .. Len(sh) /\ i \in 1 .. Len(sh)
        BY <1>3, <2>2
      <3>2. more[1] = sh[1] /\ more[i] = sh[i] /\ more[i + 1] = chunk /\ sh[i] <= log
        BY <1>2, <2>2, <3>1 DEF Rising
      <3>. QED  BY <2>2, <3>1, <3>2 DEF GoesOn
    <2>3. CASE i \in 1 .. Len(sh) /\ i < Len(sh)
      <3>1. i + 1 \in 1 .. Len(sh) /\ 1 \in 1 .. Len(sh)
        BY <2>3
      <3>2. more[1] = sh[1] /\ more[i] = sh[i] /\ more[i + 1] = sh[i + 1]
        BY <1>2, <2>3, <3>1
      <3>3. sh[i] <= log /\ GoesOn(sh, i, resumptions, ofServer, sh[i + 1])
        BY <2>3 DEF Rising
      <3>. QED  BY <3>2, <3>3 DEF GoesOn
    <2>. QED  BY <1>2, <1>3, <2>1, <2>2, <2>3
  <1>. QED  BY <1>1, <1>3 DEF Rising

(* More of a log, and more resumptions, make no difference; nor does it    *)
(* matter which the last chunk of the server's is, when that is the last.  *)
LEMMA RisingStays ==
  ASSUME NEW sh \in Seq(Nat), NEW resumptions, NEW ofServer, NEW log \in Nat,
         NEW others, NEW other, NEW longer \in Nat,
         Rising(sh, resumptions, ofServer, log), resumptions \subseteq others, log <= longer,
         other = ofServer \/ ofServer = Len(sh)
  PROVE  Rising(sh, others, other, longer)
  <1>1. ASSUME NEW i \in 1 .. Len(sh) PROVE sh[i] <= longer
    <2>1. sh[i] \in Nat /\ sh[i] <= log
      BY ElementType DEF Rising
    <2>. QED  BY <2>1
  <1>2. ASSUME NEW i \in 1 .. Len(sh), i < Len(sh)
        PROVE  GoesOn(sh, i, others, other, sh[i + 1])
    <2>1. GoesOn(sh, i, resumptions, ofServer, sh[i + 1])
      BY <1>2 DEF Rising
    <2>. QED  BY <1>2, <2>1 DEF GoesOn
  <1>. QED  BY <1>1, <1>2 DEF Rising

(* The end of the log that a page is rendered with.                        *)
LEMMA Rendered ==
  ASSUME PumpTypeOK, NEW seen \in 0 .. written, NEW resumptions, NEW ofServer
  PROVE  /\ LogTail(seen) \in Seq(1 .. MaxLog) /\ Len(LogTail(seen)) \in Nat
         /\ Rising(LogTail(seen), resumptions, ofServer, written)
         /\ Len(LogTail(seen)) > 0 => LogTail(seen)[1] <= Start(initialTail)
  <1>1. /\ written \in Nat /\ written <= MaxLog /\ MaxLog \in Nat /\ seen \in Nat /\ seen <= written
        /\ appLogTailLines \in Nat /\ initialTail \in Nat /\ initialTail <= appLogTailLines
    BY PumpTypes, LogPumpAssumption, LogTailAssumption
  <1>2. PICK lines : lines = IF seen < appLogTailLines THEN seen ELSE appLogTailLines
    OBVIOUS
  <1>3. lines \in Nat /\ lines <= seen /\ (seen = lines \/ lines = appLogTailLines)
    BY <1>1, <1>2
  <1>4. PICK s : s = [i \in 1 .. lines |-> seen - lines + i]
    OBVIOUS
  <1>5. LogTail(seen) = s
    BY <1>2, <1>4 DEF LogTail
  <1>6. \A i \in 1 .. lines : seen - lines + i \in 1 .. MaxLog /\ seen - lines + i <= written
    BY <1>1, <1>3
  <1>7. s \in Seq(1 .. MaxLog) /\ Len(s) = lines /\ \A i \in 1 .. lines : s[i] = seen - lines + i
    <2>1. s \in [1 .. lines -> 1 .. MaxLog]
      BY <1>4, <1>6
    <2>2. s \in Seq(1 .. MaxLog)
      BY <1>3, <2>1, SeqDef
    <2>3. DOMAIN s = 1 .. lines /\ DOMAIN s = 1 .. Len(s) /\ Len(s) \in Nat
      BY <1>4, <2>2, LenProperties
    <2>. QED  BY <1>3, <1>4, <2>2, <2>3
  <1>8. ASSUME NEW i \in 1 .. lines
        PROVE  /\ s[i] <= written
               /\ i < lines => GoesOn(s, i, resumptions, ofServer, s[i + 1])
    <2>1. s[i] = seen - lines + i /\ s[i] <= written
      BY <1>6, <1>7
    <2>2. i < lines => s[i + 1] = seen - lines + (i + 1)
      BY <1>3, <1>7
    <2>. QED  BY <1>1, <1>3, <2>1, <2>2 DEF GoesOn
  <1>9. Rising(s, resumptions, ofServer, written)
    BY <1>7, <1>8 DEF Rising
  <1>10. lines > 0 => s[1] <= Start(initialTail)
    <2>1. lines > 0 => s[1] = seen - lines + 1
      BY <1>3, <1>7
    <2>. QED  BY <1>1, <1>3, <2>1 DEF Start
  <1>. QED  BY <1>3, <1>5, <1>7, <1>9, <1>10

-----------------------------------------------------------------------------
(* The steps of the pump, seen from the tab.                               *)
Pump ==
  \/ Accept \/ (\E lines \in Tails : Open(lines)) \/ (Fresh /\ UNCHANGED pod)
  \/ Reader \/ Writer \/ PeerWatchEnds \/ PeerGoes \/ World

LEMMA ServerIsPump == ASSUME TailTypeOK, Server PROVE Pump
  BY DEF Server, Pump, TailTypeOK, Accept

(* Type correctness of the tab's own variables.                            *)
TabTypes ==
  /\ socket \in {"none", "connecting", "open"}
  /\ tail \in Tails
  /\ timer \in BOOLEAN
  /\ attempts \in 0 .. MAX_RECONNECT_ATTEMPTS
  /\ {drawn, attached} \subseteq BOOLEAN
  /\ shown \in Seq(1 .. MaxLog) /\ saved \in 0 .. MaxLog
  /\ rendered \in Nat /\ resumed \subseteq Nat /\ sockets \in 0 .. MaxSockets

(* What a snapshot keeps is a chunk of the scrollback, or what there was.  *)
LEMMA SnapshotType ==
  ASSUME TailTypeOK
  PROVE  /\ Snapshot \in 0 .. MaxLog
         /\ Snapshot = saved \/ \E i \in 1 .. Len(shown) : Snapshot = shown[i]
  <1>1. shown \in Seq(1 .. MaxLog) /\ saved \in 0 .. MaxLog
    BY DEF TailTypeOK
  <1>2. CASE shown = <<>>
    BY <1>1, <1>2 DEF Snapshot
  <1>3. CASE shown # <<>>
    <2>1. Len(shown) \in 1 .. Len(shown)
      BY <1>1, <1>3
    <2>2. Snapshot = shown[Len(shown)] /\ shown[Len(shown)] \in 1 .. MaxLog
      BY <1>1, <1>3, <2>1, ElementType DEF Snapshot, Last
    <2>. QED  BY <2>1, <2>2
  <1>. QED  BY <1>2, <1>3

LEMMA TabTypesStep == ASSUME TailTypeOK, [Next]_vars PROVE TabTypes'
  <1>. USE DEF TailTypeOK, TabTypes
  <1>1. ASSUME UNCHANGED <<tail, attempts, shown, rendered, resumed, sockets>>,
               socket' \in {"none", "connecting", "open"},
               {timer', drawn', attached'} \subseteq BOOLEAN, saved' \in {saved, Snapshot}
        PROVE  TabTypes'
    BY <1>1, SnapshotType
  <1>2. ASSUME NEW lines \in Tails, Attach(lines), shown' \in Seq(1 .. MaxLog), drawn' \in BOOLEAN,
               attempts' = attempts \/ attempts' = 0, rendered' \in Nat, resumed' \subseteq Nat
        PROVE  TabTypes'
    <2>1. sockets' \in 0 .. MaxSockets
      BY <1>2, LogTailAssumption DEF Attach
    <2>2. attempts' \in 0 .. MAX_RECONNECT_ATTEMPTS
      BY <1>2, LogTailAssumption
    <2>. QED  BY <1>2, <2>1, <2>2 DEF Attach, TimerCleared
  <1>3. ASSUME Visit PROVE TabTypes'
    <2>1. PumpTypeOK
      OBVIOUS
    <2>2. shown' \in Seq(1 .. MaxLog) /\ Len(shown') \in Nat
      BY <1>3, <2>1, Rendered DEF Visit
    <2>. QED  BY <1>2, <1>3, <2>2, LogTailAssumption DEF Visit
  <1>4. ASSUME TimerFires PROVE TabTypes'
    <2>1. Len(shown) \in Nat /\ rendered' \in Nat
      BY <1>4 DEF TimerFires, clientHistory
    <2>2. CASE drawn
      BY <1>2, <1>4, <2>1, <2>2 DEF TimerFires
    <2>3. CASE ~drawn
      BY <1>1, <1>4, <2>3 DEF TimerFires, clientHistory
    <2>. QED  BY <2>2, <2>3
  <1>5. ASSUME Leave \/ Restore PROVE TabTypes'
    <2>1. shown' \in Seq(1 .. MaxLog)
      <3>1. shown' = <<>> \/ (saved \in 1 .. MaxLog /\ shown' = <<saved>>)
        BY <1>5 DEF Leave, Restore, Undrawn
      <3>2. saved \in 1 .. MaxLog => <<saved>> \in Seq(1 .. MaxLog)
        OBVIOUS
      <3>. QED  BY <3>1, <3>2, Empty
    <2>2. saved' \in 0 .. MaxLog
      BY <1>5, SnapshotType DEF Leave, Restore
    <2>3. rendered' = 0 /\ resumed' = {}
      BY <1>5 DEF Leave, Restore, Undrawn
    <2>4. UNCHANGED <<tail, attempts, sockets>> /\ {drawn', attached'} \subseteq BOOLEAN
      BY <1>5 DEF Leave, Restore
    <2>5. socket' \in {"none", "connecting", "open"} /\ timer' \in BOOLEAN
      BY <1>5 DEF Leave, Restore
    <2>. QED  BY <2>1, <2>2, <2>3, <2>4, <2>5
  <1>6. ASSUME OnOpen PROVE TabTypes'
    <2>1. attempts' = 0
      BY <1>6 DEF OnOpen
    <2>2. 0 \in 0 .. MAX_RECONNECT_ATTEMPTS
      BY LogTailAssumption
    <2>. QED  BY <1>6, <2>1, <2>2 DEF OnOpen, domVars, clientHistory
  <1>7. ASSUME OnMessage PROVE TabTypes'
    <2>1. wire \in Seq(1 .. MaxLog) /\ wire # <<>>
      BY <1>7, PumpTypes DEF OnMessage
    <2>2. Head(wire) \in 1 .. MaxLog
      BY <2>1, HeadType
    <2>3. Append(shown, Head(wire)) \in Seq(1 .. MaxLog)
      BY <2>2, Sequences
    <2>. QED  BY <1>7, <2>3 DEF OnMessage, clientHistory
  <1>8. ASSUME OnClose PROVE TabTypes'
    <2>1. ASSUME OnAbnormalClose PROVE TabTypes'
      <3>1. attempts' \in 0 .. MAX_RECONNECT_ATTEMPTS
        BY <2>1, LogTailAssumption DEF OnAbnormalClose, MayRetry
      <3>. QED
        BY <2>1, <3>1, LogTailAssumption DEF OnAbnormalClose, RetryTail, domVars, clientHistory
    <2>2. ASSUME OnPermanentClose \/ GivesUpAfterRetries PROVE TabTypes'
      BY <1>1, <2>2 DEF OnPermanentClose, GivesUpAfterRetries, domVars, clientHistory
    <2>. QED  BY <1>8, <2>1, <2>2 DEF OnClose
  <1>9. ASSUME UNCHANGED <<clientVars, clientHistory>> PROVE TabTypes'
    BY <1>1, <1>9 DEF clientVars, domVars, clientHistory
  <1>. QED
    BY <1>3, <1>4, <1>5, <1>6, <1>7, <1>8, <1>9 DEF Next, Server, ConnectionLost, vars

(* A pending retry has no socket, and asks for no backfill.                *)
LEMMA RetryStep == ASSUME Retry, [Next]_vars PROVE Retry'
  <1>1. ASSUME NEW lines, Attach(lines) PROVE Retry'
    BY <1>1 DEF Attach, TimerCleared, Retry
  <1>2. ASSUME Visit \/ TimerFires PROVE Retry'
    BY <1>1, <1>2 DEF Visit, TimerFires, Retry
  <1>3. ASSUME Leave \/ Restore PROVE Retry'
    BY <1>3 DEF Leave, Restore, Retry
  <1>4. ASSUME OnOpen \/ OnMessage PROVE Retry'
    BY <1>4 DEF OnOpen, OnMessage, Retry
  <1>5. ASSUME OnClose PROVE Retry'
    BY <1>5 DEF OnClose, OnPermanentClose, GivesUpAfterRetries, OnAbnormalClose, RetryTail, Retry
  <1>6. ASSUME UNCHANGED <<clientVars, clientHistory>> PROVE Retry'
    BY <1>6 DEF clientVars, Retry
  <1>. QED
    BY <1>2, <1>3, <1>4, <1>5, <1>6 DEF Next, Server, ConnectionLost, vars

(* The scrollback grows by chunks of the present stream, in order.         *)
LEMMA NextChunk ==
  ASSUME PumpInv, TailTypeOK, Joined, socket = "open", attached, wire # <<>>
  PROVE  /\ Head(wire) \in Nat /\ Head(wire) <= written
         /\ Len(shown) > 0 => GoesOn(shown, Len(shown), resumed, rendered, Head(wire))
  <1>1. PICK taken, before : taken = Len(sent) - Len(wire) /\ before = Len(shown) - taken
    OBVIOUS
  <1>2. /\ Len(sent) \in Nat /\ Len(wire) \in Nat /\ Len(wire) > 0 /\ Len(shown) \in Nat
        /\ first \in Nat /\ next \in Nat /\ written \in Nat
        /\ wire \in Seq(1 .. MaxLog)
    BY PumpTypes DEF PumpInv, TailTypeOK
  <1>3. /\ taken >= 0 /\ before >= 0
        /\ \A i \in 1 .. taken : shown[before + i] = sent[i]
    BY <1>1 DEF Joined, Linked
  <1>4. ASSUME NEW i \in 1 .. Len(wire) PROVE wire[i] = sent[taken + i]
    BY <1>1, <1>4 DEF Joined, Linked
  <1>5. taken \in Nat /\ before \in Nat /\ taken + 1 \in 1 .. Len(sent) /\ Len(shown) = before + taken
    BY <1>1, <1>2, <1>3
  <1>6. ASSUME NEW i \in 1 .. Len(sent) PROVE sent[i] = first + i - 1
    BY <1>6 DEF PumpInv, Chunks, Counts
  <1>7. Head(wire) = first + taken
    <2>1. Head(wire) = wire[1] /\ 1 \in 1 .. Len(wire)
      BY <1>2
    <2>2. wire[1] = sent[taken + 1]
      BY <1>4, <2>1
    <2>3. sent[taken + 1] = first + (taken + 1) - 1
      BY <1>5, <1>6
    <2>. QED  BY <1>2, <1>5, <2>1, <2>2, <2>3
  <1>8. Head(wire) \in Nat /\ Head(wire) <= written
    <2>1. Len(sent) <= next - first /\ next <= written + 1
      BY DEF PumpInv, Chunks, Lifecycle
    <2>. QED  BY <1>2, <1>5, <1>7, <2>1
  <1>9. CASE taken = 0
    <2>1. before = Len(shown) /\ before \in resumed
      BY <1>1, <1>5, <1>9 DEF Joined, Before, Taken
    <2>2. conn \in {"open", "abnormal"}
      <3>1. conn \notin {"none", "refused", "internal error"}
        BY DEF PumpInv, Unopened
      <3>. QED  BY <3>1 DEF TailTypeOK, PumpTypeOK, ConnStates
    <2>3. Len(shown) > 0 =>
            shown[Len(shown)] < first \/ (Len(shown) = rendered /\ shown[1] <= first)
      BY <1>1, <2>1, <2>2 DEF Joined, Before, Taken
    <2>. QED  BY <1>2, <1>7, <1>8, <1>9, <2>1, <2>3 DEF GoesOn
  <1>10. CASE taken > 0
    <2>1. taken \in 1 .. taken /\ taken \in 1 .. Len(sent)
      BY <1>2, <1>5, <1>10
    <2>2. shown[before + taken] = sent[taken]
      BY <1>3, <2>1
    <2>3. sent[taken] = first + taken - 1
      BY <1>6, <2>1
    <2>4. shown[Len(shown)] = first + taken - 1
      BY <1>5, <2>2, <2>3
    <2>. QED  BY <1>2, <1>5, <1>7, <1>8, <2>4 DEF GoesOn
  <1>. QED  BY <1>5, <1>8, <1>9, <1>10

(* The scrollback stays in order, whoever moves.                           *)
LEMMA ScrollbackStep ==
  ASSUME PumpInv, TabInv, [Next]_vars
  PROVE  Scrollback'
  <1>1. shown \in Seq(Nat) /\ written \in Nat /\ saved \in Nat
    BY PumpTypes DEF PumpInv, TabInv, TailTypeOK
  <1>2. Rising(shown, resumed, rendered, written) /\ saved <= written /\ TailTypeOK
    BY DEF TabInv, Scrollback
  <1>3. ASSUME shown' = shown, resumed \subseteq resumed',
               rendered' = rendered \/ rendered = Len(shown), saved' = saved,
               written' \in Nat, written <= written'
        PROVE  Scrollback'
    <2>1. Rising(shown, resumed', rendered', written')
      BY <1>1, <1>2, <1>3, RisingStays
    <2>. QED  BY <1>1, <1>2, <1>3, <2>1 DEF Scrollback
  <1>4. ASSUME Visit PROVE Scrollback'
    <2>1. PICK seen \in 0 .. written : shown' = LogTail(seen)
      BY <1>4 DEF Visit
    <2>2. Rising(shown', resumed', rendered', written)
      BY <2>1, Rendered DEF PumpInv
    <2>. QED  BY <1>2, <1>4, <2>2 DEF Visit, Attach, pod, Scrollback
  <1>5. ASSUME TimerFires PROVE Scrollback'
    <2>1. /\ UNCHANGED <<shown, saved, written>> /\ resumed \subseteq resumed'
          /\ rendered' = rendered \/ rendered = Len(shown)
      BY <1>5 DEF TimerFires, Attach, pumpAll, pod, clientHistory
    <2>. QED  BY <1>1, <1>3, <2>1
  <1>6. ASSUME OnMessage PROVE Scrollback'
    <2>1. /\ socket = "open" /\ wire # <<>> /\ UNCHANGED <<resumed, rendered, saved, written>>
          /\ shown' = IF attached THEN Append(shown, Head(wire)) ELSE shown
      BY <1>6 DEF OnMessage, pod, clientHistory
    <2>2. CASE ~attached
      BY <1>1, <1>3, <2>1, <2>2
    <2>3. CASE attached
      <3>1. /\ Head(wire) \in Nat /\ Head(wire) <= written
            /\ Len(shown) > 0 => GoesOn(shown, Len(shown), resumed, rendered, Head(wire))
        BY <2>1, <2>3, NextChunk DEF TabInv
      <3>2. Rising(Append(shown, Head(wire)), resumed, rendered, written)
        BY <1>1, <1>2, <3>1, RisingAppend
      <3>. QED  BY <1>2, <2>1, <2>3, <3>2 DEF Scrollback
    <2>. QED  BY <2>2, <2>3
  <1>7. ASSUME Leave \/ Restore PROVE Scrollback'
    <2>1. written' = written /\ saved' <= written
      <3>1. written' = written /\ saved' \in {saved, Snapshot}
        BY <1>7 DEF Leave, Restore, pumpAll, pod
      <3>2. Snapshot <= written
        BY <1>1, <1>2, SnapshotType DEF Rising
      <3>. QED  BY <1>2, <3>1, <3>2
    <2>2. shown' = <<>> \/ shown' = <<saved>>
      BY <1>7 DEF Leave, Restore, Undrawn
    <2>3. Len(shown') \in {0, 1} /\ \A i \in 1 .. Len(shown') : shown'[i] <= written
      BY <1>1, <1>2, <2>2
    <2>. QED  BY <2>1, <2>3 DEF Scrollback, Rising
  <1>8. ASSUME OnOpen \/ OnClose \/ ConnectionLost \/ UNCHANGED vars PROVE Scrollback'
    <2>1. UNCHANGED <<shown, resumed, rendered, saved, written>>
      BY <1>8 DEF OnOpen, OnClose, OnPermanentClose, GivesUpAfterRetries, OnAbnormalClose,
                  ConnectionLost, PeerGoes, vars, pumpAll, pod, clientVars, domVars, clientHistory
    <2>. QED  BY <1>1, <1>3, <2>1
  <1>9. ASSUME Server PROVE Scrollback'
    <2>1. UNCHANGED <<shown, resumed, rendered, saved>>
      BY <1>9 DEF Server, clientVars, domVars, clientHistory
    <2>2. written' = written \/ written' = written + 1
      BY <1>9 DEF Server, Refuse, OpenFails, Open, Reader, Read, SendChunk, SendCancelled,
                  ReadEnds, StopReader, Writer, TakeChunk, WriteChunk, WriterReturns, Return,
                  PeerWatchEnds, World, Deadline, StreamBreaks, PodWrites, PodFinishes, pod
    <2>. QED  BY <1>1, <1>3, <2>1, <2>2
  <1>. QED  BY <1>4, <1>5, <1>6, <1>7, <1>8, <1>9 DEF Next

(* What the tab has shown and what is on its way stay linked.              *)
LEMMA JoinedStep ==
  ASSUME PumpInv, TabInv, [Next]_vars
  PROVE  Joined'
  <1>1. /\ shown \in Seq(Nat) /\ written \in Nat /\ sent \in Seq(Nat) /\ wire \in Seq(Nat)
        /\ Len(shown) \in Nat /\ Len(sent) \in Nat /\ Len(wire) \in Nat
    <2>1. /\ shown \in Seq(1 .. MaxLog) /\ sent \in Seq(1 .. MaxLog) /\ wire \in Seq(1 .. MaxLog)
          /\ written \in Nat
      BY PumpTypes DEF PumpInv, TabInv, TailTypeOK
    <2>. QED  BY <2>1, Naturals
  <1>2. ASSUME UNCHANGED <<sent, wire, shown, first, written>>,
               socket' # "none" /\ attached' =>
                 /\ socket # "none" /\ attached
                 /\ tail' = tail /\ resumed' = resumed /\ rendered' = rendered,
               conn' = "none" => conn = "none",
               conn' \in {"open", "abnormal"} => conn \in {"open", "abnormal"}
        PROVE  Joined'
    BY <1>2 DEF TabInv, Joined, Taken, Before, Start
  <1>3. ASSUME NEW lines, Attach(lines), shown' \in Seq(1 .. MaxLog), Len(shown') \in resumed',
               Len(shown') > 0 => lines = 0 \/ (rendered' = Len(shown') /\ shown'[1] <= Start(lines))
        PROVE  Joined'
    <2>1. /\ sent' = <<>> /\ wire' = <<>> /\ conn' = "none" /\ tail' = lines
          /\ Start(lines)' = Start(lines)
      BY <1>3 DEF Attach, Fresh, pod, Start
    <2>2. Len(shown') \in Nat
      BY <1>3
    <2>3. PICK n : n = Len(shown')
      OBVIOUS
    <2>4. Len(sent') = 0 /\ Len(wire') = 0
      BY <2>1, Empty, Zenon
    <2>5. Taken' = 0 /\ Before' = n
      BY <2>2, <2>3, <2>4 DEF Taken, Before
    <2>6. Linked(shown', sent', wire')
      BY <2>2, <2>4 DEF Linked
    <2>. QED  BY <1>3, <2>1, <2>3, <2>5, <2>6 DEF Joined
  <1>4. ASSUME Visit PROVE Joined'
    <2>1. PICK seen \in 0 .. written : shown' = LogTail(seen)
      BY <1>4 DEF Visit
    <2>2. /\ shown' \in Seq(1 .. MaxLog)
          /\ Len(shown') > 0 => shown'[1] <= Start(initialTail)
      BY <2>1, Rendered DEF PumpInv
    <2>. QED  BY <1>3, <1>4, <2>2 DEF Visit
  <1>5. ASSUME TimerFires PROVE Joined'
    <2>1. tail = 0 /\ socket = "none" /\ shown \in Seq(1 .. MaxLog)
      BY <1>5 DEF TimerFires, TabInv, Retry, TailTypeOK
    <2>2. CASE drawn
      BY <1>3, <1>5, <2>1, <2>2 DEF TimerFires
    <2>3. CASE ~drawn
      BY <1>5, <2>1, <2>3 DEF TimerFires, Joined
    <2>. QED  BY <2>2, <2>3
  <1>6. ASSUME OnMessage, ~attached PROVE Joined'
    BY <1>6 DEF OnMessage, Joined
  <1>7. ASSUME OnMessage, attached PROVE Joined'
    <2>1. /\ wire # <<>> /\ shown' = Append(shown, Head(wire)) /\ wire' = Tail(wire)
          /\ socket = "open" /\ UNCHANGED <<sent, conn, first, tail, resumed, rendered, written>>
      BY <1>7 DEF OnMessage, writerVars, streamVars, pod, clientHistory
    <2>2. Linked(shown, sent, wire)
      BY <1>7, <2>1 DEF TabInv, Joined
    <2>3. Linked(shown', sent', wire')
      BY <1>1, <2>1, <2>2, LinkedRead
    <2>4. Len(wire') = Len(wire) - 1 /\ Len(shown') = Len(shown) + 1
      BY <1>1, <2>1
    <2>5. Before' = Before
      BY <1>1, <2>1, <2>4 DEF Before, Taken
    <2>6. Before > 0 => shown'[Before] = shown[Before] /\ shown'[1] = shown[1]
      <3>1. Before \in Nat /\ Before <= Len(shown)
        BY <1>1, <2>1, <2>2 DEF Linked, Before, Taken
      <3>2. Before > 0 => Before \in 1 .. Len(shown) /\ 1 \in 1 .. Len(shown)
        BY <1>1, <3>1
      <3>. QED  BY <1>1, <2>1, <3>2
    <2>. QED  BY <1>7, <2>1, <2>3, <2>5, <2>6 DEF TabInv, Joined, Start
  <1>8. ASSUME Leave \/ Restore \/ OnClose PROVE Joined'
    BY <1>8 DEF Leave, Restore, OnClose, OnPermanentClose, GivesUpAfterRetries, OnAbnormalClose,
                Joined
  <1>9. ASSUME OnOpen \/ ConnectionLost \/ UNCHANGED vars PROVE Joined'
    <2>1. /\ UNCHANGED <<sent, wire, shown, first, written, conn, attached, tail, resumed, rendered>>
          /\ socket' # "none" => socket # "none"
      BY <1>9 DEF OnOpen, ConnectionLost, PeerGoes, vars, pumpAll, pumpVars, pod, connVars,
                  streamVars, writerVars, readerVars, clientVars, domVars, clientHistory
    <2>. QED  BY <1>2, <2>1
  <1>10. ASSUME Server PROVE Joined'
    <2>1. UNCHANGED <<socket, attached, tail, shown, resumed, rendered>>
      BY <1>10 DEF Server, clientVars, domVars, clientHistory
    <2>2. ASSUME Open(tail) PROVE Joined'
      <3>1. /\ conn = "none" /\ conn' = "open" /\ first' = Start(tail)
            /\ UNCHANGED <<sent, wire>>
        BY <2>2 DEF Open
      <3>2. Taken' = Taken /\ Before' = Before
        BY <2>1, <3>1 DEF Taken, Before
      <3>3. ASSUME socket # "none", attached, Before > 0, tail = 0
            PROVE  shown[Before] < first'
        <4>1. tail = 0
          BY <3>3
        <4>2. Before \in 1 .. Len(shown)
          BY <1>1, <3>3 DEF TabInv, Joined, TailTypeOK, Linked, Before, Taken
        <4>3. shown[Before] \in Nat /\ shown[Before] >= 1 /\ shown[Before] <= written
          <5>1. shown \in Seq(1 .. MaxLog)
            BY DEF TabInv, TailTypeOK
          <5>2. shown[Before] \in 1 .. MaxLog
            BY <4>2, <5>1, ElementType
          <5>3. shown[Before] <= written
            BY <4>2 DEF TabInv, Scrollback, Rising
          <5>. QED  BY <5>2, <5>3
        <4>4. first' = written + 1
          BY <1>1, <3>1, <4>1, <4>3 DEF Start
        <4>. QED  BY <1>1, <4>3, <4>4
      <3>4. ASSUME socket # "none", attached, Before > 0
            PROVE  tail = 0 \/ (Before = rendered /\ shown[1] <= first')
        BY <3>1, <3>4 DEF TabInv, Joined
      <3>. QED  BY <2>1, <3>1, <3>2, <3>3, <3>4 DEF TabInv, Joined
    <2>3. ASSUME WriteChunk PROVE Joined'
      <3>1. /\ sent' = Append(sent, writing) /\ wire' = Append(wire, writing)
            /\ UNCHANGED <<conn, first, written>>
        BY <2>3 DEF WriteChunk, streamVars, pod
      <3>2. writing \in Nat
        BY PumpTypes DEF PumpInv
      <3>3. socket # "none" /\ attached => Linked(shown, sent', wire')
        BY <1>1, <3>1, <3>2, LinkedWrite DEF TabInv, Joined
      <3>4. Len(sent') = Len(sent) + 1 /\ Len(wire') = Len(wire) + 1
        BY <1>1, <3>1, <3>2
      <3>5. Taken' = Taken
        BY <1>1, <3>4 DEF Taken
      <3>6. Before' = Before
        BY <2>1, <3>5 DEF Before
      <3>. QED  BY <2>1, <3>1, <3>3, <3>6 DEF TabInv, Joined, Start
    <2>4. ASSUME WriterReturns PROVE Joined'
      <3>1. conn = "open" /\ conn' = "abnormal" /\ UNCHANGED <<sent, wire, first, written>>
        BY <2>4 DEF WriterReturns, Return, PumpInv, Lifecycle, pod
      <3>. QED  BY <1>2, <2>1, <3>1
    <2>5. ASSUME Refuse \/ OpenFails PROVE Joined'
      BY <1>2, <2>1, <2>5 DEF Refuse, OpenFails, writerVars, streamVars, pod
    <2>6. ASSUME UNCHANGED <<sent, wire, conn, first, written>> PROVE Joined'
      BY <1>2, <2>1, <2>6
    <2>7. ASSUME Reader \/ TakeChunk \/ PeerWatchEnds \/ Deadline \/ StreamBreaks \/ PodFinishes
          PROVE  Joined'
      BY <2>6, <2>7 DEF Reader, Read, SendChunk, SendCancelled, ReadEnds, StopReader, TakeChunk,
                        PeerWatchEnds, Deadline, StreamBreaks, PodFinishes,
                        pod, pumpVars, connVars, streamVars, writerVars, readerVars
    <2>8. ASSUME PodWrites PROVE Joined'
      <3>1. UNCHANGED <<sent, wire, conn, first>> /\ written' = written + 1
        BY <2>8 DEF PodWrites, pumpVars, connVars, streamVars, writerVars
      <3>2. Start(tail) <= Start(tail)'
        <4>1. tail \in Nat
          BY LogPumpAssumption DEF TabInv, TailTypeOK
        <4>. QED  BY <1>1, <2>1, <3>1, <4>1 DEF Start
      <3>3. ASSUME socket # "none", attached, Before > 0, conn = "none", shown[1] <= Start(tail)
            PROVE  shown[1] <= Start(tail)'
        <4>1. Before <= Len(shown)
          BY <1>1, <3>3 DEF TabInv, Joined, Linked, Before, Taken
        <4>2. 1 \in 1 .. Len(shown) /\ shown[1] \in Nat
          BY <1>1, <3>3, <4>1 DEF Before, Taken
        <4>3. Start(tail) \in Nat /\ Start(tail)' \in Nat
          BY <1>1, <2>1, <3>1, LogPumpAssumption DEF TabInv, TailTypeOK, Start
        <4>. QED  BY <3>2, <3>3, <4>2, <4>3
      <3>4. Before' = Before /\ Linked(shown, sent, wire)' = Linked(shown, sent, wire)
        BY <2>1, <3>1 DEF Before, Taken
      <3>. QED  BY <2>1, <3>1, <3>3, <3>4 DEF TabInv, Joined
    <2>. QED  BY <1>10, <2>2, <2>3, <2>4, <2>5, <2>7, <2>8 DEF Server, Writer, World
  <1>. QED  BY <1>4, <1>5, <1>6, <1>7, <1>8, <1>9, <1>10 DEF Next

-----------------------------------------------------------------------------
(* The steps of the tab that are none of the pump's keep its invariant.    *)
LEMMA PumpInvStep ==
  ASSUME PumpInv, TabInv, [Next]_vars
  PROVE  PumpInv'
  <1>1. ASSUME Visit \/ (TimerFires /\ drawn) PROVE PumpInv'
    BY <1>1, PumpStep DEF Visit, TimerFires, Attach
  <1>2. ASSUME Server PROVE PumpInv'
    BY <1>2, PumpStep, ServerIsPump DEF Pump, TabInv
  <1>3. ASSUME ConnectionLost PROVE PumpInv'
    BY <1>3, PumpStep DEF ConnectionLost
  <1>4. ASSUME UNCHANGED <<written, finished, conn, ctx, body, broken, next, reader, bytesCh,
                           closed, errCh, writer, writing, watcher, audit, first, sent, why>>,
               wire' \in Seq(1 .. MaxLog), wire = <<>> => wire' = <<>>, peer' \in BOOLEAN
        PROVE  PumpInv'
    <2>1. Held' = Held
      BY <1>4 DEF Held
    <2>2. Control'
      BY <1>4 DEF PumpInv, Control, Unopened, Lifecycle, EndOfLog, CutShortOnly, Audited
    <2>3. Chunks'
      BY <1>4, <2>1 DEF PumpInv, Chunks
    <2>4. PumpTypeOK'
      BY <1>4 DEF PumpInv, PumpTypeOK
    <2>. QED  BY <2>2, <2>3, <2>4 DEF PumpInv, Control
  <1>5. /\ wire \in Seq(1 .. MaxLog) /\ peer \in BOOLEAN
        /\ wire # <<>> => Tail(wire) \in Seq(1 .. MaxLog)
    BY PumpTypes DEF PumpInv, PumpTypeOK
  <1>6. ASSUME Leave PROVE PumpInv'
    BY <1>4, <1>5, <1>6 DEF Leave, pod, readerVars, writerVars, streamVars
  <1>7. ASSUME OnMessage PROVE PumpInv'
    BY <1>4, <1>5, <1>7 DEF OnMessage, pod, readerVars, writerVars, streamVars
  <1>8. ASSUME OnOpen \/ OnClose \/ Restore \/ (TimerFires /\ ~drawn) \/ UNCHANGED vars
        PROVE  PumpInv'
    BY <1>4, <1>5, <1>8 DEF OnOpen, OnClose, Restore, TimerFires, OnPermanentClose, GivesUpAfterRetries,
                            OnAbnormalClose, vars, pumpAll, pumpVars, pod, connVars,
                            streamVars, writerVars, readerVars
  <1>. QED  BY <1>1, <1>2, <1>3, <1>6, <1>7, <1>8 DEF Next

LEMMA TailInvInit == Init => PumpInv /\ TabInv
  <1>. SUFFICES ASSUME Init PROVE PumpInv /\ TabInv
    OBVIOUS
  <1>1. /\ \A S : <<>> \in Seq(S)
        /\ Len(<<>>) = 0 /\ \A from : Counts(<<>>, from)
    BY Empty, CountsNothing
  <1>2. Held = <<>>
    BY DEF Init, PumpInit, Held
  <1>3. /\ 0 \in 0 .. MaxLog /\ 1 \in 1 .. MaxLog + 1 /\ 0 <= forwardChanDepth
        /\ 0 \in 0 .. MAX_RECONNECT_ATTEMPTS /\ 0 \in 0 .. MaxSockets /\ 0 \in Tails
    BY LogPumpAssumption, LogTailAssumption
  <1>4. PumpTypeOK
    BY <1>1, <1>3 DEF Init, PumpInit, PumpTypeOK, ConnStates, NoChunk
  <1>5. TailTypeOK
    BY <1>1, <1>3, <1>4 DEF Init, TailTypeOK
  <1>6. Chunks
    BY <1>1, <1>2 DEF Init, PumpInit, Chunks
  <1>7. Unopened /\ Lifecycle /\ EndOfLog /\ CutShortOnly /\ Audited
    BY LogPumpAssumption DEF Init, PumpInit, Unopened, Lifecycle, EndOfLog, CutShortOnly, Audited
  <1>8. Scrollback /\ Joined /\ Retry
    BY <1>1 DEF Init, PumpInit, Scrollback, Rising, Joined, Retry
  <1>. QED  BY <1>4, <1>5, <1>6, <1>7, <1>8 DEF PumpInv, TabInv

LEMMA TailInvHolds == Spec => [](PumpInv /\ TabInv)
  <1>1. ASSUME PumpInv, TabInv, [Next]_vars PROVE TabInv'
    <2>1. TailTypeOK'
      BY <1>1, TabTypesStep, PumpInvStep DEF TabInv, TailTypeOK, TabTypes, PumpInv
    <2>. QED  BY <1>1, <2>1, ScrollbackStep, JoinedStep, RetryStep DEF TabInv
  <1>2. PumpInv /\ TabInv /\ [Next]_vars => (PumpInv /\ TabInv)'
    BY <1>1, PumpInvStep
  <1>. QED  BY TailInvInit, <1>2, PTL DEF Spec

(* Every variable of the pump and of the tab keeps its type.               *)
THEOREM TailTyped == Spec => []TailTypeOK
  <1>1. TabInv => TailTypeOK
    BY DEF TabInv
  <1>. QED  BY TailInvHolds, <1>1, PTL

(* What the WebSocket has been sent is the log from the first chunk of the *)
(* stream on, without a gap or a repetition, and a log that simply ends is *)
(* shown to its last chunk.                                                *)
THEOREM LogInOrder == Spec => []InOrder
  BY TailInvHolds, PumpOrder, PTL

(* A log request leaves one audit entry, a success if anything was sent.   *)
THEOREM AuditedOnce == Spec => []OneAuditEntry
  BY TailInvHolds, PumpAudit, PTL

(* The scrollback repeats the log in one place only, where the backfill of *)
(* a first socket meets what the page was rendered with, and misses a part *)
(* of it only where a socket was opened; a pending retry and a live socket *)
(* exclude each other.                                                     *)
THEOREM ScrollbackIsInOrder == Spec => []ScrollbackInOrder
  <1>1. TabInv => ScrollbackInOrder
    <2>. SUFFICES ASSUME TabInv PROVE ScrollbackInOrder
      OBVIOUS
    <2>1. Len(shown) \in Nat
      BY DEF TabInv, TailTypeOK
    <2>2. ASSUME NEW i \in 1 .. Len(shown) - 1
          PROVE  GoesOn(shown, i, resumed, rendered, shown[i + 1])
      <3>1. i \in 1 .. Len(shown) /\ i < Len(shown)
        BY <2>1
      <3>. QED  BY <3>1 DEF TabInv, Scrollback, Rising
    <2>. QED  BY <2>2 DEF TabInv, Retry, GoesOn, ScrollbackInOrder
  <1>. QED  BY TailInvHolds, <1>1, PTL

-----------------------------------------------------------------------------
(* The rows of the Events tab, for every set of applications and events,   *)
(* every derivation of names and every length of list.                     *)

(* A list that is on its way is of the page it was made for.               *)
ListIsOwn == \A e \in ClusterEvents :
               loading.list[e] # NoRow => <<e, loading.app>> \in Derived

(* The frames on the wire are of the page the stream is for.               *)
FramesInScope == \A i \in 1 .. Len(frames) : frames[i].name \in Belonging(subscribed)

(* Only an open stream carries anything, and that of a page which was not  *)
(* restored is the page's.                                                 *)
Piped ==
  /\ watch => source = "open"
  /\ ~watch => feed = <<>>
  /\ source # "open" => frames = <<>>

StreamIsOwn ==
  ~restored => subscribed = page /\ (page # NoApp => source # "none" \/ retryTimer)

(* An event that is still on its way makes good whatever was lost of it,   *)
(* on whatever page.                                                       *)
InWay(way, e) == \E i \in 1 .. Len(way) : way[i].name = e

NotLost(e) == subscribed = page /\ e \notin lost

RowsCome ==
  watch => \A e \in Belonging(subscribed) :
             (NotLost(e) \/ InWay(frames \o feed, e)) => Coming(e) = Shows(e)

WatchInv ==
  WatchTypeOK /\ OnlyOwnRows /\ ListIsOwn /\ FramesInScope /\ Piped /\ StreamIsOwn /\ RowsCome

-----------------------------------------------------------------------------
(* A bounded set of numbers that is not empty has a greatest.              *)
LEMMA Greatest ==
  ASSUME NEW S \in SUBSET Nat, S # {}, NEW n \in Nat, \A i \in S : i <= n
  PROVE  Max(S) \in S /\ \A i \in S : i <= Max(S)
  <1>1. PICK T : T = {n - i : i \in S}
    OBVIOUS
  <1>2. T \subseteq Nat /\ T # {}
    <2>1. ASSUME NEW i \in S PROVE n - i \in Nat
      OBVIOUS
    <2>. QED  BY <1>1, <2>1
  <1>3. \E x \in T : \A y \in T : ~ (<<y, x>> \in OpToRel(<, Nat))
    BY <1>2, NatLessThanWellFounded, WFMin
  <1>4. PICK x \in T : \A y \in T : ~ (<<y, x>> \in OpToRel(<, Nat))
    BY <1>3
  <1>5. \A y \in T : ~ (y < x)
    BY <1>2, <1>4 DEF OpToRel
  <1>6. PICK k \in S : x = n - k
    BY <1>1
  <1>7. \A i \in S : k >= i
    BY <1>1, <1>5, <1>6
  <1>8. \E m \in S : \A i \in S : m >= i
    BY <1>7
  <1>9. Max(S) \in S /\ \A i \in S : Max(S) >= i
    BY <1>8 DEF Max
  <1>. QED  BY <1>9

-----------------------------------------------------------------------------
(* What a row will show when a sequence of frames has been applied.        *)
ComingIn(way, row, e) ==
  LET mine == {i \in DOMAIN way : way[i].name = e}
  IN  IF mine = {} THEN row ELSE way[Max(mine)].version

(* The last frame of an event says what its row will show.                 *)
IsLast(way, e, k) ==
  /\ k \in 1 .. Len(way) /\ way[k].name = e
  /\ \A i \in 1 .. Len(way) : way[i].name = e => i <= k

LEMMA SomeLast ==
  ASSUME NEW way \in Seq(Frames), NEW e, InWay(way, e)
  PROVE  \E k : IsLast(way, e, k) /\ \A row : ComingIn(way, row, e) = way[k].version
  <1>1. PICK mine : mine = {i \in DOMAIN way : way[i].name = e}
    OBVIOUS
  <1>2. Len(way) \in Nat /\ DOMAIN way = 1 .. Len(way)
    OBVIOUS
  <1>3. mine # {} /\ mine \in SUBSET Nat /\ \A i \in mine : i <= Len(way)
    BY <1>1, <1>2 DEF InWay
  <1>4. Max(mine) \in mine /\ \A i \in mine : i <= Max(mine)
    BY <1>2, <1>3, Greatest
  <1>5. IsLast(way, e, Max(mine))
    BY <1>1, <1>2, <1>4 DEF IsLast
  <1>6. \A row : ComingIn(way, row, e) = way[Max(mine)].version
    BY <1>1, <1>3 DEF ComingIn
  <1>. QED  BY <1>5, <1>6

LEMMA OneLast ==
  ASSUME NEW way \in Seq(Frames), NEW e, NEW j, NEW k, IsLast(way, e, j), IsLast(way, e, k)
  PROVE  j = k
  BY DEF IsLast

LEMMA LastSays ==
  ASSUME NEW way \in Seq(Frames), NEW e, NEW row, NEW k, IsLast(way, e, k)
  PROVE  ComingIn(way, row, e) = way[k].version /\ InWay(way, e)
  <1>1. InWay(way, e)
    BY DEF IsLast, InWay
  <1>2. PICK j : IsLast(way, e, j) /\ ComingIn(way, row, e) = way[j].version
    BY <1>1, SomeLast
  <1>. QED  BY <1>1, <1>2, OneLast

LEMMA NoneSays ==
  ASSUME NEW way \in Seq(Frames), NEW e, NEW row, ~InWay(way, e)
  PROVE  ComingIn(way, row, e) = row
  <1>1. {i \in DOMAIN way : way[i].name = e} = {}
    BY DEF InWay
  <1>. QED  BY <1>1 DEF ComingIn

(* One more frame at the end.                                              *)
LEMMA AppendSays ==
  ASSUME NEW way \in Seq(Frames), NEW frame \in Frames, NEW e, NEW row
  PROVE  /\ ComingIn(Append(way, frame), row, e)
              = IF frame.name = e THEN frame.version ELSE ComingIn(way, row, e)
         /\ InWay(Append(way, frame), e) <=> InWay(way, e) \/ frame.name = e
  <1>1. PICK more : more = Append(way, frame)
    OBVIOUS
  <1>2. /\ more \in Seq(Frames) /\ Len(more) = Len(way) + 1 /\ Len(way) \in Nat
        /\ more[Len(way) + 1] = frame
    BY <1>1
  <1>3. ASSUME NEW i \in 1 .. Len(way) PROVE more[i] = way[i]
    BY <1>1
  <1>4. CASE frame.name = e
    <2>1. IsLast(more, e, Len(way) + 1)
      BY <1>2, <1>4 DEF IsLast
    <2>2. ComingIn(more, row, e) = frame.version /\ InWay(more, e)
      BY <1>2, <2>1, LastSays
    <2>. QED  BY <1>1, <1>4, <2>2
  <1>5. CASE frame.name # e /\ InWay(way, e)
    <2>1. PICK k : IsLast(way, e, k) /\ ComingIn(way, row, e) = way[k].version
      BY <1>5, SomeLast
    <2>2. k \in 1 .. Len(more) /\ more[k] = way[k]
      BY <1>2, <1>3, <2>1 DEF IsLast
    <2>3. ASSUME NEW i \in 1 .. Len(more), more[i].name = e PROVE i <= k
      <3>1. i # Len(way) + 1
        BY <1>2, <1>5, <2>3
      <3>2. i \in 1 .. Len(way)
        BY <1>2, <2>3, <3>1
      <3>. QED  BY <1>3, <2>1, <2>3, <3>2 DEF IsLast
    <2>4. IsLast(more, e, k)
      BY <2>1, <2>2, <2>3 DEF IsLast
    <2>5. ComingIn(more, row, e) = ComingIn(way, row, e) /\ InWay(more, e)
      BY <1>2, <2>1, <2>2, <2>4, LastSays
    <2>. QED  BY <1>1, <1>5, <2>5
  <1>6. CASE frame.name # e /\ ~InWay(way, e)
    <2>1. ASSUME NEW i \in 1 .. Len(more) PROVE more[i].name # e
      <3>1. CASE i = Len(way) + 1
        BY <1>2, <1>6, <3>1
      <3>2. CASE i \in 1 .. Len(way)
        BY <1>3, <1>6, <3>2 DEF InWay
      <3>. QED  BY <1>2, <2>1, <3>1, <3>2
    <2>2. ~InWay(more, e)
      BY <2>1 DEF InWay
    <2>3. ComingIn(more, row, e) = ComingIn(way, row, e)
      BY <1>2, <1>6, <2>2, NoneSays
    <2>. QED  BY <1>1, <1>6, <2>2, <2>3
  <1>. QED  BY <1>4, <1>5, <1>6

(* One frame less, at position p.                                          *)
Without(way, less, p) ==
  /\ p \in 1 .. Len(way) /\ Len(less) = Len(way) - 1
  /\ \A i \in 1 .. p - 1 : less[i] = way[i]
  /\ \A i \in p .. Len(less) : less[i] = way[i + 1]

LEMMA OtherRemoved ==
  ASSUME NEW way \in Seq(Frames), NEW less \in Seq(Frames), NEW p, NEW e,
         Without(way, less, p), way[p].name # e
  PROVE  /\ \A row : ComingIn(less, row, e) = ComingIn(way, row, e)
         /\ InWay(less, e) <=> InWay(way, e)
  <1>1. /\ Len(way) \in Nat /\ Len(less) \in Nat /\ p \in Nat /\ p >= 1 /\ p <= Len(way)
        /\ Len(less) = Len(way) - 1
    BY DEF Without
  <1>2. ASSUME NEW i \in 1 .. Len(less), i < p PROVE less[i] = way[i]
    BY <1>1, <1>2 DEF Without
  <1>3. ASSUME NEW i \in 1 .. Len(less), i >= p PROVE less[i] = way[i + 1]
    BY <1>1, <1>3 DEF Without
  <1>4. CASE InWay(way, e)
    <2>1. PICK k : IsLast(way, e, k) /\ \A row : ComingIn(way, row, e) = way[k].version
      BY <1>4, SomeLast
    <2>2. /\ k \in 1 .. Len(way) /\ way[k].name = e /\ k # p
          /\ \A i \in 1 .. Len(way) : way[i].name = e => i <= k
      BY <2>1 DEF IsLast
    <2>3. PICK j : j = IF k < p THEN k ELSE k - 1
      OBVIOUS
    <2>4. j \in 1 .. Len(less) /\ less[j] = way[k]
      BY <1>1, <1>2, <1>3, <2>2, <2>3
    <2>5. ASSUME NEW i \in 1 .. Len(less), less[i].name = e PROVE i <= j
      <3>1. CASE i < p
        <4>1. i <= k
          BY <1>1, <1>2, <2>2, <2>5, <3>1
        <4>. QED  BY <1>1, <2>2, <2>3, <2>5, <3>1, <4>1
      <3>2. CASE i >= p
        <4>1. i + 1 <= k
          BY <1>1, <1>3, <2>2, <2>5, <3>2
        <4>. QED  BY <1>1, <2>2, <2>3, <2>5, <3>2, <4>1
      <3>. QED  BY <1>1, <3>1, <3>2
    <2>6. IsLast(less, e, j)
      BY <2>2, <2>4, <2>5 DEF IsLast
    <2>7. ASSUME NEW row PROVE ComingIn(less, row, e) = ComingIn(way, row, e)
      BY <2>1, <2>4, <2>6, LastSays
    <2>8. InWay(less, e)
      BY <2>6, LastSays
    <2>. QED  BY <1>4, <2>7, <2>8
  <1>5. CASE ~InWay(way, e)
    <2>1. ASSUME NEW i \in 1 .. Len(less) PROVE less[i].name # e
      <3>1. CASE i < p
        BY <1>1, <1>2, <1>5, <2>1, <3>1 DEF InWay
      <3>2. CASE i >= p
        BY <1>1, <1>3, <1>5, <2>1, <3>2 DEF InWay
      <3>. QED  BY <1>1, <3>1, <3>2
    <2>2. ~InWay(less, e)
      BY <2>1 DEF InWay
    <2>. QED  BY <1>5, <2>2, NoneSays
  <1>. QED  BY <1>4, <1>5

(* The first frame is applied.                                             *)
LEMMA FirstApplied ==
  ASSUME NEW way \in Seq(Frames), NEW less \in Seq(Frames), NEW e, NEW row,
         Without(way, less, 1), way[1].name = e
  PROVE  ComingIn(less, way[1].version, e) = ComingIn(way, row, e)
  <1>1. /\ Len(way) \in Nat /\ Len(less) \in Nat /\ Len(less) = Len(way) - 1
        /\ \A i \in 1 .. Len(less) : less[i] = way[i + 1]
        /\ 1 \in 1 .. Len(way)
    BY DEF Without
  <1>2. CASE InWay(less, e)
    <2>1. PICK k : IsLast(less, e, k) /\ ComingIn(less, way[1].version, e) = less[k].version
      BY <1>2, SomeLast
    <2>2. /\ k \in 1 .. Len(less) /\ less[k].name = e /\ less[k] = way[k + 1]
          /\ \A i \in 1 .. Len(less) : less[i].name = e => i <= k
      BY <1>1, <2>1 DEF IsLast
    <2>3. ASSUME NEW i \in 1 .. Len(way), way[i].name = e PROVE i <= k + 1
      <3>1. CASE i = 1
        BY <1>1, <2>2, <3>1
      <3>2. CASE i # 1
        <4>1. PICK h : h = i - 1
          OBVIOUS
        <4>2. h \in 1 .. Len(less) /\ i = h + 1
          BY <1>1, <3>2, <4>1
        <4>3. less[h].name = e
          BY <1>1, <2>3, <4>2
        <4>. QED  BY <1>1, <2>2, <4>2, <4>3
      <3>. QED  BY <3>1, <3>2
    <2>4. IsLast(way, e, k + 1)
      BY <1>1, <2>2, <2>3 DEF IsLast
    <2>. QED  BY <2>1, <2>2, <2>4, LastSays
  <1>3. CASE ~InWay(less, e)
    <2>1. ASSUME NEW i \in 1 .. Len(way), way[i].name = e PROVE i <= 1
      <3>1. CASE i # 1
        <4>1. PICK h : h = i - 1
          OBVIOUS
        <4>2. h \in 1 .. Len(less) /\ i = h + 1
          BY <1>1, <3>1, <4>1
        <4>. QED  BY <1>1, <1>3, <2>1, <4>2 DEF InWay
      <3>. QED  BY <3>1
    <2>2. IsLast(way, e, 1)
      BY <1>1, <2>1 DEF IsLast
    <2>. QED  BY <1>3, <2>2, LastSays, NoneSays
  <1>. QED  BY <1>2, <1>3

-----------------------------------------------------------------------------
(* How the frames on the wire and the events in the watch move.            *)
LEMMA Moves ==
  ASSUME NEW S, NEW s \in Seq(S), NEW u \in Seq(S)
  PROVE  /\ \A x \in S : s \o Append(u, x) = Append(s \o u, x)
         /\ u # <<>> => Append(s, Head(u)) \o Tail(u) = s \o u
         /\ s \o u \in Seq(S)
  <1>1. ASSUME NEW x \in S PROVE s \o Append(u, x) = Append(s \o u, x)
    <2>1. <<x>> \in Seq(S) /\ s \o u \in Seq(S)
      BY ConcatProperties
    <2>2. Append(u, x) = u \o <<x>> /\ Append(s \o u, x) = (s \o u) \o <<x>>
      BY <2>1, AppendIsConcat
    <2>. QED  BY <2>1, <2>2, ConcatAssociative
  <1>2. ASSUME u # <<>> PROVE Append(s, Head(u)) \o Tail(u) = s \o u
    <2>1. Head(u) \in S /\ Tail(u) \in Seq(S) /\ <<Head(u)>> \in Seq(S)
      BY <1>2
    <2>2. Append(s, Head(u)) = s \o <<Head(u)>>
      BY <2>1, AppendIsConcat
    <2>3. <<Head(u)>> \o Tail(u) = u
      BY <1>2
    <2>. QED  BY <2>1, <2>2, <2>3, ConcatAssociative
  <1>. QED  BY <1>1, <1>2, ConcatProperties

LEMMA SkipFeed ==
  ASSUME NEW s \in Seq(Frames), NEW u \in Seq(Frames), u # <<>>
  PROVE  /\ Without(s \o u, s \o Tail(u), Len(s) + 1)
         /\ (s \o u)[Len(s) + 1] = Head(u)
         /\ s \o u \in Seq(Frames) /\ s \o Tail(u) \in Seq(Frames)
  <1>1. PICK way, less, v : way = s \o u /\ less = s \o v /\ v = Tail(u)
    OBVIOUS
  <1>2. /\ v \in Seq(Frames) /\ Len(v) = Len(u) - 1 /\ Len(u) \in Nat /\ Len(u) >= 1 /\ Len(s) \in Nat
        /\ \A i \in 1 .. Len(v) : v[i] = u[i + 1]
        /\ Head(u) = u[1]
    BY <1>1
  <1>3. way \in Seq(Frames) /\ less \in Seq(Frames)
    BY <1>1, <1>2, Moves
  <1>4. Len(way) = Len(s) + Len(u) /\ Len(less) = Len(s) + Len(v)
    BY <1>1, <1>2
  <1>5. ASSUME NEW i \in 1 .. Len(s) PROVE way[i] = s[i] /\ less[i] = s[i]
    BY <1>1, <1>2
  <1>6. ASSUME NEW i \in 1 .. Len(u) PROVE way[Len(s) + i] = u[i]
    BY <1>1
  <1>7. ASSUME NEW i \in 1 .. Len(v) PROVE less[Len(s) + i] = v[i]
    BY <1>1, <1>2
  <1>8. way[Len(s) + 1] = Head(u)
    BY <1>2, <1>6
  <1>9. Without(way, less, Len(s) + 1)
    <2>1. Len(s) + 1 \in 1 .. Len(way) /\ Len(less) = Len(way) - 1
      BY <1>2, <1>4
    <2>2. \A i \in 1 .. (Len(s) + 1) - 1 : less[i] = way[i]
      BY <1>2, <1>5
    <2>3. ASSUME NEW i \in Len(s) + 1 .. Len(less) PROVE less[i] = way[i + 1]
      <3>1. PICK k : k = i - Len(s)
        OBVIOUS
      <3>2. k \in 1 .. Len(v) /\ k + 1 \in 1 .. Len(u) /\ i = Len(s) + k /\ i + 1 = Len(s) + (k + 1)
        BY <1>2, <1>4, <2>3, <3>1
      <3>3. less[Len(s) + k] = v[k]
        BY <1>7, <3>2
      <3>4. v[k] = u[k + 1]
        BY <1>2, <3>2
      <3>5. way[Len(s) + (k + 1)] = u[k + 1]
        BY <1>6, <3>2
      <3>. QED  BY <3>2, <3>3, <3>4, <3>5
    <2>. QED  BY <2>1, <2>2, <2>3 DEF Without
  <1>. QED  BY <1>1, <1>3, <1>8, <1>9

LEMMA TakeFrame ==
  ASSUME NEW s \in Seq(Frames), NEW u \in Seq(Frames), s # <<>>
  PROVE  /\ Without(s \o u, Tail(s) \o u, 1)
         /\ (s \o u)[1] = Head(s)
         /\ s \o u \in Seq(Frames) /\ Tail(s) \o u \in Seq(Frames)
  <1>1. PICK way, less, v : way = s \o u /\ less = v \o u /\ v = Tail(s)
    OBVIOUS
  <1>2. /\ v \in Seq(Frames) /\ Len(v) = Len(s) - 1 /\ Len(s) \in Nat /\ Len(s) >= 1 /\ Len(u) \in Nat
        /\ \A i \in 1 .. Len(v) : v[i] = s[i + 1]
        /\ Head(s) = s[1]
    BY <1>1
  <1>3. way \in Seq(Frames) /\ less \in Seq(Frames)
    BY <1>1, <1>2, Moves
  <1>4. Len(way) = Len(s) + Len(u) /\ Len(less) = Len(v) + Len(u)
    BY <1>1, <1>2
  <1>5. ASSUME NEW i \in 1 .. Len(s) PROVE way[i] = s[i]
    BY <1>1
  <1>6. ASSUME NEW i \in 1 .. Len(u) PROVE way[Len(s) + i] = u[i]
    BY <1>1
  <1>7. ASSUME NEW i \in 1 .. Len(less) PROVE less[i] = way[i + 1]
    <2>1. CASE i \in 1 .. Len(v)
      <3>1. less[i] = v[i] /\ i + 1 \in 1 .. Len(s)
        BY <1>1, <1>2, <2>1
      <3>. QED  BY <1>2, <1>5, <2>1, <3>1
    <2>2. CASE i > Len(v)
      <3>1. PICK k : k = i - Len(v)
        OBVIOUS
      <3>2. k \in 1 .. Len(u) /\ i = Len(v) + k /\ i + 1 = Len(s) + k
        BY <1>2, <1>4, <1>7, <2>2, <3>1
      <3>3. less[Len(v) + k] = u[k]
        BY <1>1, <1>2, <3>2
      <3>. QED  BY <1>6, <3>2, <3>3
    <2>. QED  BY <1>2, <1>7, <2>1, <2>2
  <1>8. way[1] = Head(s)
    BY <1>2, <1>5
  <1>9. Without(way, less, 1)
    <2>1. 1 \in 1 .. Len(way) /\ Len(less) = Len(way) - 1
      BY <1>2, <1>4
    <2>. QED  BY <1>7, <2>1 DEF Without
  <1>. QED  BY <1>1, <1>3, <1>8, <1>9

(* The list a watch opens with has each event that exists, once.           *)
LEMMA BacklogSays ==
  ASSUME WatchTypeOK, NEW way \in Backlog, NEW e \in ClusterEvents, NEW row
  PROVE  /\ way \in Seq(Frames)
         /\ InWay(way, e) <=> Present(e)
         /\ Present(e) => ComingIn(way, row, e) = cluster[e]
  <1>1. PICK P : P = {d \in ClusterEvents : Present(d)}
    OBVIOUS
  <1>2. IsFiniteSet(P) /\ Cardinality(P) \in Nat
    BY <1>1, FS_Subset, FS_CardinalityType, WatchProxyAssumption
  <1>3. PICK D : D = 1 .. Cardinality(P)
    OBVIOUS
  <1>4. IsFiniteSet(D) /\ Cardinality(D) = Cardinality(P)
    <2>1. Cardinality(P) \in Int /\ 1 \in Int
      BY <1>2
    <2>2. IsFiniteSet(D) /\ Cardinality(D) = IF 1 > Cardinality(P) THEN 0 ELSE Cardinality(P) - 1 + 1
      BY <1>3, <2>1, FS_Interval
    <2>. QED  BY <1>2, <2>2
  <1>5. PICK existing \in SetToSeqs(P) :
          way = [i \in DOMAIN existing |-> Frame("added", existing[i], cluster[existing[i]])]
    BY <1>1 DEF Backlog
  <1>6. existing \in [D -> P] /\ \A i, j \in D : i # j => existing[i] # existing[j]
    BY <1>3, <1>5 DEF SetToSeqs
  <1>7. existing \in Injection(D, P)
    BY <1>6 DEF Injection, IsInjective
  <1>8. existing \in Surjection(D, P)
    BY <1>2, <1>4, <1>7, FS_Injection
  <1>9. /\ Len(way) = Cardinality(P) /\ DOMAIN way = D
        /\ \A i \in D : way[i] = Frame("added", existing[i], cluster[existing[i]])
    BY <1>2, <1>3, <1>5, <1>6
  <1>10. ASSUME NEW i \in D
         PROVE  /\ way[i] \in Frames /\ way[i].name = existing[i]
                /\ way[i].version = cluster[existing[i]] /\ existing[i] \in P
    <2>1. existing[i] \in P
      BY <1>6
    <2>2. cluster[existing[i]] \in 0 .. MaxClock
      BY <1>1, <2>1, WatchProxyAssumption DEF WatchTypeOK, Present
    <2>3. way[i] = [op |-> "added", name |-> existing[i], version |-> cluster[existing[i]]]
      BY <1>9 DEF Frame
    <2>. QED  BY <1>1, <2>1, <2>2, <2>3 DEF Frames
  <1>11. way \in Seq(Frames)
    <2>1. way = [i \in D |-> way[i]]
      BY <1>5, <1>9
    <2>. QED  BY <1>2, <1>3, <1>10, <2>1
  <1>12. InWay(way, e) => Present(e)
    BY <1>1, <1>3, <1>9, <1>10 DEF InWay
  <1>13. ASSUME Present(e) PROVE InWay(way, e) /\ ComingIn(way, row, e) = cluster[e]
    <2>1. e \in P
      BY <1>1, <1>13
    <2>2. PICK k \in D : existing[k] = e
      BY <1>8, <2>1 DEF Surjection
    <2>3. \A i \in D : way[i].name = e => i = k
      BY <1>6, <1>10, <2>2
    <2>4. IsLast(way, e, k)
      BY <1>3, <1>9, <1>10, <2>2, <2>3 DEF IsLast
    <2>. QED  BY <1>10, <1>11, <2>2, <2>4, LastSays
  <1>. QED  BY <1>11, <1>12, <1>13

(* A page is rendered with rows about its own objects.                     *)
LEMMA ListsOwn ==
  ASSUME WatchTypeOK, NEW app
  PROVE  /\ ListForObject(app) \in [ClusterEvents -> 0 .. MaxClock]
         /\ \A e \in ClusterEvents : ListForObject(app)[e] # NoRow => <<e, app>> \in Derived
  <1>1. ASSUME NEW e \in Listed(app)
        PROVE  cluster[e] \in 0 .. MaxClock /\ <<e, app>> \in Derived
    BY WatchProxyAssumption DEF Listed, Representatives, Belonging, Present, WatchTypeOK
  <1>2. NoRow \in 0 .. MaxClock
    BY WatchProxyAssumption DEF NoRow
  <1>. QED  BY <1>1, <1>2 DEF ListForObject

-----------------------------------------------------------------------------
(* Each variable of the tab has its type, one at a time.                   *)
LEMMA WatchTypes ==
  ASSUME WatchTypeOK
  PROVE  /\ clock \in Nat /\ clock <= MaxClock /\ MaxClock \in Nat
         /\ cluster \in [ClusterEvents -> -1 .. MaxClock]
         /\ rows \in [ClusterEvents -> 0 .. MaxClock]
         /\ loading.list \in [ClusterEvents -> 0 .. MaxClock]
         /\ kept.list \in [ClusterEvents -> 0 .. MaxClock]
         /\ page \in Apps \cup {NoApp} /\ loading.app \in Apps \cup {NoApp}
         /\ kept.app \in Apps \cup {NoApp}
         /\ frames \in Seq(Frames) /\ feed \in Seq(Frames)
  BY WatchProxyAssumption DEF WatchTypeOK

LEMMA NoRowsType == NoRows \in [ClusterEvents -> 0 .. MaxClock]
  BY WatchProxyAssumption DEF NoRows, NoRow

LEMMA EmptyFeed == <<>> \in Seq(Frames)
  OBVIOUS

(* A change of the cluster, and the frame that tells of it.                *)
LEMMA ChangeSays ==
  ASSUME WatchTypeOK, ClusterStep
  PROVE  \E e \in ClusterEvents, op \in {"added", "modified", "removed"},
            version \in -1 .. MaxClock :
           /\ Change(e, op, version)
           /\ Frame(op, e, version) \in Frames
           /\ Frame(op, e, version).name = e
           /\ Frame(op, e, version).version = IF version > 0 THEN version ELSE NoRow
  <1>1. ASSUME NEW e \in ClusterEvents, NEW op \in {"added", "modified"},
               Change(e, op, clock + 1)
        PROVE  clock + 1 \in -1 .. MaxClock /\ clock + 1 \in 0 .. MaxClock /\ clock + 1 > 0
    BY <1>1, WatchTypes DEF Change
  <1>2. PICK e \in ClusterEvents :
          \/ Change(e, "added", clock + 1)
          \/ Change(e, "modified", clock + 1)
          \/ Change(e, "removed", Deleted)
    BY DEF ClusterStep
  <1>3. Deleted \in -1 .. MaxClock /\ ~(Deleted > 0) /\ NoRow \in 0 .. MaxClock
    BY WatchTypes DEF Deleted, NoRow
  <1>4. ASSUME NEW op \in {"added", "modified"}, Change(e, op, clock + 1)
        PROVE  /\ Frame(op, e, clock + 1) \in Frames
               /\ Frame(op, e, clock + 1).name = e
               /\ Frame(op, e, clock + 1).version = clock + 1
    BY <1>1, <1>4 DEF Frame, Frames
  <1>5. /\ Frame("removed", e, Deleted) \in Frames
        /\ Frame("removed", e, Deleted).name = e
        /\ Frame("removed", e, Deleted).version = NoRow
    BY <1>3 DEF Frame, Frames
  <1>6. CASE Change(e, "added", clock + 1)
    BY <1>1, <1>4, <1>6
  <1>7. CASE Change(e, "modified", clock + 1)
    BY <1>1, <1>4, <1>7
  <1>8. CASE Change(e, "removed", Deleted)
    BY <1>3, <1>5, <1>8
  <1>. QED  BY <1>2, <1>6, <1>7, <1>8

LEMMA FeedType ==
  ASSUME NEW s \in Seq(Frames)
  PROVE  /\ \A frame \in Frames : Append(s, frame) \in Seq(Frames)
         /\ s # <<>> => Head(s) \in Frames /\ Tail(s) \in Seq(Frames)
  OBVIOUS

(* What a page, a stream and a load are, when one is made.                 *)
LEMMA SyncTypes ==
  ASSUME WatchTypeOK, NEW app \in Apps \cup {NoApp}, SyncFromDOM(app) \/ Connect(app)
  PROVE  /\ subscribed' \in Apps \cup {NoApp} /\ source' \in {"none", "connecting", "open"}
         /\ {retryTimer', watch'} \subseteq BOOLEAN
         /\ feed' \in Seq(Frames) /\ frames' \in Seq(Frames)
  BY EmptyFeed DEF SyncFromDOM, Connect, streamOf, WatchTypeOK

LEMMA DrawTypes ==
  ASSUME WatchTypeOK, NEW entry, Draw(entry),
         entry \in {kept, Blank} \/ entry = loading
  PROVE  /\ page' \in Apps \cup {NoApp} /\ rows' \in [ClusterEvents -> 0 .. MaxClock]
         /\ lost' \subseteq ClusterEvents /\ UNCHANGED <<clock, cluster>>
  <1>1. entry.app \in Apps \cup {NoApp} /\ entry.list \in [ClusterEvents -> 0 .. MaxClock]
    BY WatchTypes, NoRowsType DEF Blank
  <1>2. lost' \subseteq ClusterEvents
    BY DEF Draw, Belonging
  <1>. QED  BY <1>1, <1>2 DEF Draw, clusterVars

LEMMA SaveTypes ==
  ASSUME WatchTypeOK, SaveCurrentPage
  PROVE  kept'.app \in Apps \cup {NoApp} /\ kept'.list \in [ClusterEvents -> 0 .. MaxClock]
  <1>1. kept' = kept \/ kept' = [app |-> page, list |-> rows]
    BY DEF SaveCurrentPage
  <1>. QED  BY <1>1, WatchTypes

LEMMA LoadTypes ==
  ASSUME WatchTypeOK, NEW by \in {"swap", "history"}, Load(by)
  PROVE  /\ loading'.app \in Apps \cup {NoApp} /\ loading'.by = by
         /\ loading'.list \in [ClusterEvents -> 0 .. MaxClock]
         /\ \A e \in ClusterEvents :
              loading'.list[e] # NoRow => <<e, loading'.app>> \in Derived
  <1>1. PICK app \in Apps \cup {NoApp} :
          \E list \in {ListForObject(app), NoRows} :
            loading' = [app |-> app, list |-> list, by |-> by]
    BY DEF Load
  <1>2. PICK list \in {ListForObject(app), NoRows} :
          loading' = [app |-> app, list |-> list, by |-> by]
    BY <1>1
  <1>3. /\ list \in [ClusterEvents -> 0 .. MaxClock]
        /\ \A e \in ClusterEvents : list[e] # NoRow => <<e, app>> \in Derived
    BY ListsOwn, NoRowsType DEF NoRows
  <1>. QED  BY <1>2, <1>3

LEMMA NoLoadTypes ==
  /\ NoLoad.app = NoApp /\ NoLoad.by = "none" /\ NoLoad.list = NoRows
  /\ NoLoad.list \in [ClusterEvents -> 0 .. MaxClock]
  BY NoRowsType DEF NoLoad

LEMMA WatchTypeStep == ASSUME WatchTypeOK, [WatchNext]_watchVars PROVE WatchTypeOK'
  <1>. USE EmptyFeed
  <1>1. ASSUME ClusterStep PROVE WatchTypeOK'
    <2>1. PICK e \in ClusterEvents, op \in {"added", "modified", "removed"},
               version \in -1 .. MaxClock :
                 Change(e, op, version) /\ Frame(op, e, version) \in Frames
      BY <1>1, ChangeSays
    <2>2. clock' \in 0 .. MaxClock
      BY <2>1, WatchTypes DEF Change
    <2>3. feed' \in Seq(Frames)
      BY <2>1, WatchTypes, FeedType DEF Change
    <2>4. cluster' \in [ClusterEvents -> -1 .. MaxClock]
      BY <2>1, WatchTypes DEF Change
    <2>. QED  BY <2>1, <2>2, <2>3, <2>4 DEF Change, WatchTypeOK, pageOf
  <1>2. ASSUME RefuseStream \/ WatchEnds \/ Reconnect PROVE WatchTypeOK'
    BY <1>2 DEF RefuseStream, WatchEnds, Reconnect, WatchTypeOK, clusterVars, pageOf
  <1>3. ASSUME AcceptStream PROVE WatchTypeOK'
    <2>1. feed' \in Seq(Frames)
      <3>1. CASE feed' \in Backlog
        <4>1. CASE ClusterEvents = {}
          <5>1. PICK existing \in SetToSeqs({}) :
                  feed' = [i \in DOMAIN existing |-> Frame("added", existing[i], cluster[existing[i]])]
            BY <3>1, <4>1 DEF Backlog
          <5>2. Cardinality({}) = 0
            BY FS_EmptySet
          <5>3. existing \in [1 .. 0 -> {}]
            BY <5>1, <5>2 DEF SetToSeqs
          <5>. QED  BY <5>1, <5>3
        <4>2. CASE ClusterEvents # {}
          BY <3>1, <4>2, BacklogSays
        <4>. QED  BY <4>1, <4>2
      <3>. QED  BY <1>3, <3>1, WatchTypes DEF AcceptStream
    <2>2. /\ source' = "open" /\ watch' \in {watch, TRUE} /\ lost' \subseteq ClusterEvents
          /\ UNCHANGED <<clock, cluster, page, rows, kept, restored, loading, subscribed,
                         retryTimer, frames>>
      <3>1. lost \subseteq ClusterEvents
        BY DEF WatchTypeOK
      <3>. QED  BY <1>3, <3>1 DEF AcceptStream, clusterVars, pageOf
    <2>. QED  BY <2>1, <2>2 DEF WatchTypeOK
  <1>4. ASSUME ForwardEvent PROVE WatchTypeOK'
    <2>1. frames' \in Seq(Frames) /\ feed' \in Seq(Frames)
      BY <1>4, WatchTypes, FeedType DEF ForwardEvent
    <2>. QED  BY <1>4, <2>1 DEF ForwardEvent, WatchTypeOK, clusterVars, pageOf
  <1>5. ASSUME HandleMessage PROVE WatchTypeOK'
    <2>1. frames' \in Seq(Frames) /\ Head(frames) \in Frames
      BY <1>5, WatchTypes, FeedType DEF HandleMessage, Dispatched
    <2>2. rows' \in [ClusterEvents -> 0 .. MaxClock]
      BY <1>5, <2>1, WatchTypes DEF HandleMessage, Frames
    <2>. QED  BY <1>5, <2>1, <2>2 DEF HandleMessage, WatchTypeOK, clusterVars
  <1>6. ASSUME RetryFires PROVE WatchTypeOK'
    <2>1. CASE subscribed = page
      <3>1. Connect(page)
        BY <1>6, <2>1 DEF RetryFires
      <3>2. /\ subscribed' \in Apps \cup {NoApp} /\ source' \in {"none", "connecting", "open"}
            /\ {retryTimer', watch'} \subseteq BOOLEAN
            /\ feed' \in Seq(Frames) /\ frames' \in Seq(Frames)
        BY <3>1, WatchTypes, SyncTypes
      <3>. QED  BY <1>6, <3>2 DEF RetryFires, WatchTypeOK, clusterVars, pageOf
    <2>2. CASE subscribed # page
      BY <1>6, <2>2 DEF RetryFires, WatchTypeOK, clusterVars, pageOf
    <2>. QED  BY <2>1, <2>2
  <1>7. ASSUME Navigate PROVE WatchTypeOK'
    BY <1>7, LoadTypes DEF Navigate, WatchTypeOK, clusterVars, pageOf, streamOf
  <1>8. ASSUME Swap PROVE WatchTypeOK'
    <2>1. /\ page' \in Apps \cup {NoApp} /\ rows' \in [ClusterEvents -> 0 .. MaxClock]
          /\ lost' \subseteq ClusterEvents /\ UNCHANGED <<clock, cluster>>
      BY <1>8, DrawTypes DEF Swap
    <2>2. /\ subscribed' \in Apps \cup {NoApp} /\ source' \in {"none", "connecting", "open"}
          /\ {retryTimer', watch'} \subseteq BOOLEAN
          /\ feed' \in Seq(Frames) /\ frames' \in Seq(Frames)
      BY <1>8, WatchTypes, SyncTypes DEF Swap
    <2>3. kept'.app \in Apps \cup {NoApp} /\ kept'.list \in [ClusterEvents -> 0 .. MaxClock]
      BY <1>8, SaveTypes DEF Swap
    <2>. QED  BY <1>8, <2>1, <2>2, <2>3, NoLoadTypes DEF Swap, WatchTypeOK
  <1>9. ASSUME PopState PROVE WatchTypeOK'
    <2>1. /\ subscribed' \in Apps \cup {NoApp} /\ source' \in {"none", "connecting", "open"}
          /\ {retryTimer', watch'} \subseteq BOOLEAN
          /\ feed' \in Seq(Frames) /\ frames' \in Seq(Frames)
      BY <1>9, WatchTypes, SyncTypes DEF PopState
    <2>2. ASSUME NEW entry \in {kept, Blank}, Draw(entry), SaveCurrentPage, restored' = TRUE,
                 UNCHANGED loading
          PROVE  WatchTypeOK'
      <3>1. /\ page' \in Apps \cup {NoApp} /\ rows' \in [ClusterEvents -> 0 .. MaxClock]
            /\ lost' \subseteq ClusterEvents /\ UNCHANGED <<clock, cluster>>
        BY <2>2, DrawTypes
      <3>2. kept'.app \in Apps \cup {NoApp} /\ kept'.list \in [ClusterEvents -> 0 .. MaxClock]
        BY <2>2, SaveTypes
      <3>. QED  BY <2>1, <2>2, <3>1, <3>2 DEF WatchTypeOK
    <2>3. ASSUME Load("history"), SaveCurrentPage,
                 UNCHANGED <<clusterVars, page, rows, restored, lost>>
          PROVE  WatchTypeOK'
      <3>1. kept'.app \in Apps \cup {NoApp} /\ kept'.list \in [ClusterEvents -> 0 .. MaxClock]
        BY <2>3, SaveTypes
      <3>. QED  BY <2>1, <2>3, <3>1, LoadTypes DEF WatchTypeOK, clusterVars
    <2>4. ASSUME UNCHANGED <<clusterVars, pageOf, loading, lost>> PROVE WatchTypeOK'
      BY <2>1, <2>4 DEF WatchTypeOK, clusterVars, pageOf
    <2>. QED  BY <1>9, <2>2, <2>3, <2>4 DEF PopState
  <1>10. ASSUME HistoryLoad PROVE WatchTypeOK'
    <2>1. /\ page' \in Apps \cup {NoApp} /\ rows' \in [ClusterEvents -> 0 .. MaxClock]
          /\ lost' \subseteq ClusterEvents /\ UNCHANGED <<clock, cluster>>
      BY <1>10, DrawTypes DEF HistoryLoad
    <2>. QED  BY <1>10, <2>1, NoLoadTypes DEF HistoryLoad, streamOf, WatchTypeOK
  <1>11. ASSUME UNCHANGED watchVars PROVE WatchTypeOK'
    BY <1>11 DEF watchVars, clusterVars, pageOf, streamOf, WatchTypeOK
  <1>. QED
    BY <1>1, <1>2, <1>3, <1>4, <1>5, <1>6, <1>7, <1>8, <1>9, <1>10, <1>11 DEF WatchNext

(* Rows, lists and frames stay with the application they are about, and    *)
(* the stream with the page, until one is restored.                        *)
Own == OnlyOwnRows /\ ListIsOwn /\ FramesInScope /\ Piped /\ StreamIsOwn

LEMMA NothingIsOwn ==
  /\ \A e \in ClusterEvents : NoRows[e] = NoRow
  /\ NoLoad.app = NoApp /\ NoLoad.list = NoRows /\ Len(<<>>) = 0
  BY EmptyFeed DEF NoLoad, NoRows

(* After syncFromDOM, or a connect, the stream is of the page it looked at.*)
LEMMA SyncIsOwn ==
  ASSUME Own, NEW app, SyncFromDOM(app) \/ Connect(app)
  PROVE  /\ FramesInScope' /\ Piped'
         /\ subscribed' = app /\ (app # NoApp => source' # "none")
         /\ UNCHANGED streamOf \/ (~watch' /\ Connect(app))
  <1>1. CASE Connect(app)
    BY <1>1, EmptyFeed DEF Connect, FramesInScope, Piped
  <1>2. CASE UNCHANGED streamOf /\ SameTarget(app)
    BY <1>2 DEF streamOf, SameTarget, Own, FramesInScope, Piped, Belonging
  <1>. QED  BY <1>1, <1>2 DEF SyncFromDOM

LEMMA OwnStep == ASSUME WatchTypeOK, Own, [WatchNext]_watchVars PROVE Own'
  <1>. USE DEF pageOf
  <1>1. ASSUME UNCHANGED <<pageOf, loading, source, subscribed, retryTimer, watch, frames>>,
               ~watch => feed' = feed
        PROVE  Own'
    BY <1>1 DEF Own, OnlyOwnRows, ListIsOwn, FramesInScope, Piped, StreamIsOwn, Belonging
  <1>2. ASSUME ClusterStep PROVE Own'
    <2>1. PICK e, op, version : Change(e, op, version)
      BY <1>2 DEF ClusterStep
    <2>. QED  BY <1>1, <2>1 DEF Change
  <1>3. ASSUME RefuseStream PROVE Own'
    BY <1>3 DEF RefuseStream, Own, OnlyOwnRows, ListIsOwn, FramesInScope, Piped, StreamIsOwn,
                Belonging
  <1>4. ASSUME AcceptStream PROVE Own'
    <2>1. /\ source = "connecting" /\ source' = "open" /\ watch' \in {watch, TRUE}
          /\ ~watch' => feed' = feed
          /\ UNCHANGED <<pageOf, loading, subscribed, retryTimer, frames>>
      BY <1>4 DEF AcceptStream
    <2>2. ~watch
      BY <2>1 DEF Own, Piped
    <2>. QED
      BY <2>1, <2>2 DEF Own, OnlyOwnRows, ListIsOwn, FramesInScope, Piped, StreamIsOwn, Belonging
  <1>5. ASSUME ForwardEvent PROVE Own'
    <2>1. /\ watch /\ source = "open"
          /\ UNCHANGED <<pageOf, loading, source, subscribed, retryTimer, watch>>
      BY <1>5 DEF ForwardEvent, Own, Piped
    <2>2. ASSUME NEW i \in 1 .. Len(frames') PROVE frames'[i].name \in Belonging(subscribed)
      <3>1. CASE frames' = frames
        BY <2>2, <3>1 DEF Own, FramesInScope
      <3>2. CASE frames' = Append(frames, Head(feed)) /\ InScope(Head(feed).name)
        <4>1. frames \in Seq(Frames)
          BY WatchTypes
        <4>2. CASE i = Len(frames) + 1
          BY <3>2, <4>1, <4>2 DEF InScope
        <4>3. CASE i \in 1 .. Len(frames)
          BY <3>2, <4>1, <4>3 DEF Own, FramesInScope
        <4>4. Len(frames') = Len(frames) + 1 /\ Len(frames) \in Nat
          BY <3>2, <4>1
        <4>. QED  BY <2>2, <4>2, <4>3, <4>4
      <3>. QED  BY <1>5, <3>1, <3>2 DEF ForwardEvent
    <2>. QED
      BY <2>1, <2>2 DEF Own, OnlyOwnRows, ListIsOwn, FramesInScope, Piped, StreamIsOwn, Belonging
  <1>6. ASSUME WatchEnds PROVE Own'
    BY <1>6 DEF WatchEnds, Own, OnlyOwnRows, ListIsOwn, FramesInScope, Piped, StreamIsOwn,
                Belonging
  <1>7. ASSUME Reconnect PROVE Own'
    BY <1>7, EmptyFeed
       DEF Reconnect, Own, OnlyOwnRows, ListIsOwn, FramesInScope, Piped, StreamIsOwn, Belonging
  <1>8. ASSUME HandleMessage PROVE Own'
    <2>1. /\ frames \in Seq(Frames) /\ frames # <<>> /\ frames' = Tail(frames)
          /\ rows' = rows \/ rows' = [rows EXCEPT ![Head(frames).name] = Head(frames).version]
          /\ source = "open"
          /\ UNCHANGED <<page, restored, loading, source, subscribed, retryTimer, watch, feed>>
      BY <1>8, WatchTypes DEF HandleMessage, Dispatched
    <2>2. /\ 1 \in 1 .. Len(frames) /\ Head(frames) = frames[1]
          /\ \A i \in 1 .. Len(frames') : i + 1 \in 1 .. Len(frames) /\ frames'[i] = frames[i + 1]
      BY <2>1
    <2>3. ~restored => <<Head(frames).name, page>> \in Derived
      BY <2>2 DEF Own, FramesInScope, StreamIsOwn, Belonging
    <2>4. OnlyOwnRows'
      BY <2>1, <2>3, WatchTypes DEF Own, OnlyOwnRows
    <2>5. FramesInScope'
      BY <2>1, <2>2 DEF Own, FramesInScope, Belonging
    <2>. QED  BY <2>1, <2>4, <2>5 DEF Own, ListIsOwn, Piped, StreamIsOwn
  <1>9. ASSUME RetryFires PROVE Own'
    <2>1. CASE subscribed = page
      <3>1. Connect(page) /\ UNCHANGED <<page, restored, loading, rows>>
        BY <1>9, <2>1 DEF RetryFires
      <3>. QED  BY <3>1, SyncIsOwn DEF Own, OnlyOwnRows, ListIsOwn, StreamIsOwn
    <2>2. CASE subscribed # page
      BY <1>9, <2>2 DEF RetryFires, Own, OnlyOwnRows, ListIsOwn, FramesInScope, Piped,
                        StreamIsOwn, Belonging
    <2>. QED  BY <2>1, <2>2
  <1>10. ASSUME Navigate PROVE Own'
    <2>1. ListIsOwn'
      BY <1>10, LoadTypes DEF Navigate, ListIsOwn
    <2>. QED
      BY <1>10, <2>1
         DEF Navigate, streamOf, Own, OnlyOwnRows, FramesInScope, Piped, StreamIsOwn, Belonging
  <1>11. ASSUME Swap PROVE Own'
    <2>1. page' = loading.app /\ rows' = loading.list /\ loading' = NoLoad
      BY <1>11 DEF Swap, Draw
    <2>2. OnlyOwnRows' /\ ListIsOwn'
      BY <2>1, NothingIsOwn DEF Own, OnlyOwnRows, ListIsOwn
    <2>3. /\ FramesInScope' /\ Piped'
          /\ subscribed' = loading.app /\ (loading.app # NoApp => source' # "none")
      BY <1>11, SyncIsOwn DEF Swap
    <2>. QED  BY <2>1, <2>2, <2>3 DEF Own, StreamIsOwn
  <1>12. ASSUME PopState PROVE Own'
    <2>1. /\ FramesInScope' /\ Piped'
          /\ subscribed' = page /\ (page # NoApp => source' # "none")
      BY <1>12, SyncIsOwn DEF PopState
    <2>2. CASE restored' = TRUE /\ UNCHANGED loading
      BY <2>1, <2>2 DEF Own, OnlyOwnRows, ListIsOwn, StreamIsOwn
    <2>3. CASE Load("history") /\ UNCHANGED <<page, rows, restored>>
      <3>1. ListIsOwn'
        BY <2>3, LoadTypes DEF ListIsOwn
      <3>. QED  BY <2>1, <2>3, <3>1 DEF Own, OnlyOwnRows, StreamIsOwn
    <2>4. CASE UNCHANGED <<page, rows, restored, loading>>
      BY <2>1, <2>4 DEF Own, OnlyOwnRows, ListIsOwn, StreamIsOwn
    <2>. QED  BY <1>12, <2>2, <2>3, <2>4 DEF PopState
  <1>13. ASSUME HistoryLoad PROVE Own'
    <2>1. ListIsOwn'
      BY <1>13, NothingIsOwn DEF HistoryLoad, ListIsOwn
    <2>. QED
      BY <1>13, <2>1
         DEF HistoryLoad, streamOf, Own, OnlyOwnRows, FramesInScope, Piped, StreamIsOwn, Belonging
  <1>14. ASSUME UNCHANGED watchVars PROVE Own'
    BY <1>1, <1>14 DEF watchVars, streamOf
  <1>. QED
    BY <1>2, <1>3, <1>4, <1>5, <1>6, <1>7, <1>8, <1>9, <1>10, <1>11, <1>12, <1>13, <1>14
       DEF WatchNext

-----------------------------------------------------------------------------
(* What is to come to a row, in this state and in the next.                *)
LEMMA ComingIs ==
  ASSUME NEW e
  PROVE  /\ Coming(e) = ComingIn(frames \o feed, rows[e], e)
         /\ Coming(e)' = ComingIn(frames' \o feed', rows'[e], e)
  BY DEF Coming, ComingIn

(* An event makes good what was lost of it, while it is on its way.        *)
LEMMA DrawComes ==
  ASSUME WatchTypeOK, RowsCome, NEW entry, Draw(entry), UNCHANGED streamOf
  PROVE  RowsCome'
  <1>1. frames \o feed \in Seq(Frames)
    BY WatchTypes, Moves
  <1>2. UNCHANGED <<watch, feed, frames, subscribed, cluster>>
    BY DEF Draw, streamOf, clusterVars
  <1>3. ASSUME watch, NEW e \in Belonging(subscribed), NotLost(e)' \/ InWay(frames \o feed, e)
        PROVE  Coming(e)' = Shows(e)
    <2>1. CASE NotLost(e)'
      BY <1>2, <1>3, <2>1 DEF Draw, NotLost, Belonging
    <2>2. CASE InWay(frames \o feed, e)
      <3>1. ComingIn(frames \o feed, rows[e], e) = Shows(e)
        BY <1>3, <2>2, ComingIs DEF RowsCome
      <3>2. PICK k : \A row : ComingIn(frames \o feed, row, e) = (frames \o feed)[k].version
        BY <1>1, <2>2, SomeLast
      <3>3. ComingIn(frames \o feed, rows'[e], e) = ComingIn(frames \o feed, rows[e], e)
        BY <3>2
      <3>. QED  BY <1>2, <3>1, <3>3, ComingIs
    <2>. QED  BY <1>3, <2>1, <2>2
  <1>. QED  BY <1>2, <1>3 DEF RowsCome, Belonging, Shows, Present

LEMMA RowsComeStep ==
  ASSUME WatchTypeOK, Own, RowsCome, [WatchNext]_watchVars
  PROVE  RowsCome'
  <1>. USE DEF pageOf, NotLost
  <1>1. frames \in Seq(Frames) /\ feed \in Seq(Frames) /\ frames \o feed \in Seq(Frames)
    BY WatchTypes, Moves
  <1>2. ASSUME NEW e \in Belonging(subscribed), watch,
               NotLost(e) \/ InWay(frames \o feed, e)
        PROVE  ComingIn(frames \o feed, rows[e], e) = Shows(e)
    BY <1>2, ComingIs DEF RowsCome
  <1>3. Belonging(subscribed) \subseteq ClusterEvents
    BY DEF Belonging
  <1>4. ASSUME UNCHANGED <<page, subscribed, watch, frames, feed, rows, lost, cluster>>
        PROVE  RowsCome'
    BY <1>4, <1>2, ComingIs DEF RowsCome, Belonging, Shows, Present
  <1>5. ASSUME ~watch' PROVE RowsCome'
    BY <1>5 DEF RowsCome
  <1>6. ASSUME ClusterStep PROVE RowsCome'
    <2>1. PICK d \in ClusterEvents, op \in {"added", "modified", "removed"},
               version \in -1 .. MaxClock :
                 /\ Change(d, op, version)
                 /\ Frame(op, d, version) \in Frames
                 /\ Frame(op, d, version).name = d
                 /\ Frame(op, d, version).version = IF version > 0 THEN version ELSE NoRow
      BY <1>6, ChangeSays
    <2>2. PICK frame : frame = Frame(op, d, version)
      OBVIOUS
    <2>3. /\ cluster' = [cluster EXCEPT ![d] = version]
          /\ watch => feed' = Append(feed, frame)
          /\ UNCHANGED <<page, subscribed, watch, rows, frames, lost>>
      BY <2>1, <2>2 DEF Change
    <2>4. ASSUME watch, NEW e \in Belonging(subscribed), NotLost(e) \/ InWay(frames' \o feed', e)
          PROVE  ComingIn(frames' \o feed', rows'[e], e) = Shows(e)'
      <3>1. frame \in Frames
        BY <2>1, <2>2
      <3>2. frames' \o feed' = Append(frames \o feed, frame)
        <4>1. frames' = frames /\ feed' = Append(feed, frame)
          BY <2>3, <2>4
        <4>2. frames \o Append(feed, frame) = Append(frames \o feed, frame)
          BY <1>1, <3>1, Moves
        <4>. QED  BY <4>1, <4>2
      <3>3. /\ ComingIn(Append(frames \o feed, frame), rows[e], e)
                 = IF frame.name = e THEN frame.version ELSE ComingIn(frames \o feed, rows[e], e)
            /\ InWay(Append(frames \o feed, frame), e) <=> InWay(frames \o feed, e) \/ frame.name = e
        <4>1. PICK way : way = frames \o feed
          OBVIOUS
        <4>2. way \in Seq(Frames)
          BY <1>1, <4>1
        <4>3. PICK row : row = rows[e]
          OBVIOUS
        <4>4. /\ ComingIn(Append(way, frame), row, e)
                   = IF frame.name = e THEN frame.version ELSE ComingIn(way, row, e)
              /\ InWay(Append(way, frame), e) <=> InWay(way, e) \/ frame.name = e
          BY <3>1, <4>2, AppendSays
        <4>. QED  BY <4>1, <4>3, <4>4
      <3>4. CASE e = d
        <4>1. cluster'[e] = version
          BY <2>3, <3>4, WatchTypes
        <4>2. Shows(e)' = IF version > 0 THEN version ELSE NoRow
          BY <4>1 DEF Shows, Present
        <4>3. ComingIn(Append(frames \o feed, frame), rows[e], e) = frame.version
          BY <2>1, <2>2, <3>3, <3>4
        <4>. QED  BY <2>1, <2>2, <2>3, <3>2, <4>2, <4>3
      <3>5. CASE e # d
        <4>1. cluster'[e] = cluster[e]
          BY <2>3, <3>5, <1>3, WatchTypes
        <4>2. Shows(e)' = Shows(e)
          BY <4>1 DEF Shows, Present
        <4>3. /\ ComingIn(Append(frames \o feed, frame), rows[e], e)
                   = ComingIn(frames \o feed, rows[e], e)
              /\ InWay(Append(frames \o feed, frame), e) <=> InWay(frames \o feed, e)
          BY <2>1, <2>2, <3>3, <3>5
        <4>4. ComingIn(frames \o feed, rows[e], e) = Shows(e)
          BY <1>2, <2>4, <3>2, <4>3
        <4>. QED  BY <2>3, <3>2, <4>2, <4>3, <4>4
      <3>. QED  BY <3>4, <3>5
    <2>. QED  BY <2>3, <2>4, ComingIs DEF RowsCome, Belonging
  <1>7. ASSUME AcceptStream PROVE RowsCome'
    <2>1. CASE watch' = TRUE /\ feed' \in Backlog
      <3>1. /\ lost' = {e \in ClusterEvents : rows[e] # NoRow /\ ~Present(e)} \/ UNCHANGED <<watch, feed, lost>>
            /\ UNCHANGED <<cluster, page, subscribed, rows, frames>>
            /\ source = "connecting"
        BY <1>7 DEF AcceptStream, clusterVars
      <3>2. ~watch /\ frames = <<>>
        BY <3>1 DEF Own, Piped
      <3>3. lost' = {e \in ClusterEvents : rows[e] # NoRow /\ ~Present(e)}
        BY <2>1, <3>1, <3>2
      <3>4. ASSUME NEW e \in Belonging(subscribed), NotLost(e)' \/ InWay(frames' \o feed', e)
            PROVE  ComingIn(frames' \o feed', rows'[e], e) = Shows(e)
        <4>1. /\ feed' \in Seq(Frames)
              /\ InWay(feed', e) <=> Present(e)
              /\ Present(e) => ComingIn(feed', rows[e], e) = cluster[e]
          BY <1>3, <2>1, BacklogSays
        <4>2. frames' \o feed' = feed'
          BY <3>1, <3>2, <4>1, ConcatEmptySeq
        <4>3. CASE Present(e)
          BY <3>1, <4>1, <4>2, <4>3 DEF Shows
        <4>4. CASE ~Present(e)
          <5>1. rows[e] = NoRow
            BY <1>3, <3>3, <3>4, <4>1, <4>2, <4>4
          <5>2. ComingIn(feed', rows[e], e) = rows[e]
            BY <4>1, <4>4, NoneSays
          <5>. QED  BY <3>1, <4>2, <4>4, <5>1, <5>2 DEF Shows
        <4>. QED  BY <4>3, <4>4
      <3>. QED  BY <3>1, <3>4, ComingIs DEF RowsCome, Belonging, Shows, Present
    <2>2. CASE UNCHANGED <<watch, feed, lost>>
      BY <1>4, <1>7, <2>2 DEF AcceptStream, clusterVars
    <2>. QED  BY <1>7, <2>1, <2>2 DEF AcceptStream
  <1>8. ASSUME ForwardEvent PROVE RowsCome'
    <2>1. /\ watch /\ feed # <<>> /\ feed' = Tail(feed)
          /\ UNCHANGED <<cluster, page, subscribed, rows, watch, lost>>
      BY <1>8 DEF ForwardEvent, clusterVars
    <2>2. Head(feed) \in Frames
      BY <1>1, <2>1, FeedType
    <2>3. CASE frames' = Append(frames, Head(feed))
      <3>1. frames' \o feed' = frames \o feed
        BY <1>1, <2>1, <2>3, Moves
      <3>. QED  BY <1>2, <2>1, <3>1, ComingIs DEF RowsCome, Belonging, Shows, Present
    <2>4. CASE frames' = frames /\ ~InScope(Head(feed).name)
      <3>1. ASSUME NEW e \in Belonging(subscribed), NotLost(e) \/ InWay(frames' \o feed', e)
            PROVE  ComingIn(frames' \o feed', rows'[e], e) = Shows(e)
        <4>1. PICK way, less, p : /\ way = frames \o feed /\ less = frames \o Tail(feed)
                                  /\ p = Len(frames) + 1
          OBVIOUS
        <4>2. /\ Without(way, less, p)
              /\ way[p] = Head(feed)
              /\ way \in Seq(Frames) /\ less \in Seq(Frames)
          BY <1>1, <2>1, <4>1, SkipFeed
        <4>3. Head(feed).name # e
          BY <2>4, <3>1 DEF InScope
        <4>4. /\ \A row : ComingIn(less, row, e) = ComingIn(way, row, e)
              /\ InWay(less, e) <=> InWay(way, e)
          <5>1. way[p].name # e
            BY <4>2, <4>3
          <5>. QED  BY <4>2, <5>1, OtherRemoved
        <4>5. ComingIn(way, rows[e], e) = Shows(e)
          BY <1>2, <2>1, <2>4, <3>1, <4>1, <4>4
        <4>. QED  BY <2>1, <2>4, <4>1, <4>4, <4>5
      <3>. QED  BY <2>1, <3>1, ComingIs DEF RowsCome, Belonging, Shows, Present
    <2>5. SseOp(Head(feed).op)
      BY <2>2 DEF SseOp, Frames
    <2>. QED  BY <1>8, <2>3, <2>4, <2>5 DEF ForwardEvent
  <1>9. ASSUME HandleMessage PROVE RowsCome'
    <2>1. PICK head : head = Head(frames)
      OBVIOUS
    <2>2. /\ frames # <<>> /\ frames' = Tail(frames)
          /\ page # NoApp => rows' = [rows EXCEPT ![head.name] = head.version]
          /\ lost' = lost \ {head.name}
          /\ UNCHANGED <<cluster, page, subscribed, watch, feed>>
      BY <1>9, <2>1 DEF HandleMessage, Dispatched, clusterVars
    <2>3. ASSUME watch, NEW e \in Belonging(subscribed), NotLost(e)' \/ InWay(frames' \o feed', e)
          PROVE  ComingIn(frames' \o feed', rows'[e], e) = Shows(e)
      <3>1. PICK way, less : way = frames \o feed /\ less = Tail(frames) \o feed
        OBVIOUS
      <3>2. /\ Without(way, less, 1) /\ way[1] = head
            /\ way \in Seq(Frames) /\ less \in Seq(Frames)
        BY <1>1, <2>1, <2>2, <3>1, TakeFrame
      <3>3. page = NoApp => InWay(less, e)
        BY <2>2, <2>3, <3>1, WatchProxyAssumption DEF Belonging
      <3>4. InWay(less, e) => \A row : ComingIn(less, row, e) = ComingIn(less, rows'[e], e)
        <4>1. ASSUME InWay(less, e)
              PROVE  \E k : \A row : ComingIn(less, row, e) = less[k].version
          BY <3>2, <4>1, SomeLast
        <4>. QED  BY <4>1
      <3>5. CASE head.name = e
        <4>1. ComingIn(less, head.version, e) = ComingIn(way, rows[e], e)
          BY <3>2, <3>5, FirstApplied
        <4>2. InWay(way, e)
          BY <3>2, <3>5 DEF InWay, Without
        <4>3. ComingIn(way, rows[e], e) = Shows(e)
          BY <1>2, <2>3, <3>1, <4>2
        <4>4. ComingIn(less, rows'[e], e) = ComingIn(less, head.version, e)
          <5>1. CASE page = NoApp
            BY <3>3, <3>4, <5>1
          <5>2. CASE page # NoApp
            BY <1>3, <2>2, <2>3, <3>5, <5>2, WatchTypes
          <5>. QED  BY <5>1, <5>2
        <4>. QED  BY <2>2, <3>1, <4>1, <4>3, <4>4
      <3>6. CASE head.name # e
        <4>1. /\ \A row : ComingIn(less, row, e) = ComingIn(way, row, e)
              /\ InWay(less, e) <=> InWay(way, e)
          <5>1. PICK p : p = 1
            OBVIOUS
          <5>2. /\ Without(way, less, p) /\ way[p].name # e
                /\ way \in Seq(Frames) /\ less \in Seq(Frames)
            BY <3>2, <3>6, <5>1
          <5>3. /\ \A row : ComingIn(less, row, e) = ComingIn(way, row, e)
                /\ InWay(less, e) <=> InWay(way, e)
            BY <5>2, OtherRemoved
          <5>. QED  BY <5>3
        <4>2. ComingIn(way, rows[e], e) = Shows(e)
          BY <1>2, <2>2, <2>3, <3>1, <3>6, <4>1
        <4>3. ComingIn(less, rows'[e], e) = ComingIn(less, rows[e], e)
          <5>1. CASE page = NoApp
            BY <3>3, <3>4, <5>1
          <5>2. CASE page # NoApp
            BY <1>3, <2>2, <2>3, <3>6, <5>2, WatchTypes
          <5>. QED  BY <5>1, <5>2
        <4>. QED  BY <2>2, <3>1, <4>1, <4>2, <4>3
      <3>. QED  BY <3>5, <3>6
    <2>. QED  BY <2>2, <2>3, ComingIs DEF RowsCome, Belonging, Shows, Present
  <1>10. ASSUME NEW app, SyncFromDOM(app), NEW entry, Draw(entry) PROVE RowsCome'
    <2>1. UNCHANGED streamOf \/ ~watch'
      BY <1>10, SyncIsOwn
    <2>. QED  BY <1>5, <1>10, <2>1, DrawComes
  <1>11. ASSUME Swap PROVE RowsCome'
    BY <1>10, <1>11 DEF Swap
  <1>12. ASSUME PopState PROVE RowsCome'
    <2>1. CASE \E entry \in {kept, Blank} : Draw(entry)
      BY <1>10, <1>12, <2>1 DEF PopState
    <2>2. CASE UNCHANGED <<clusterVars, page, rows, lost>>
      <3>1. SyncFromDOM(page)
        BY <1>12 DEF PopState
      <3>2. UNCHANGED streamOf \/ ~watch'
        BY <3>1, SyncIsOwn
      <3>. QED  BY <1>4, <1>5, <2>2, <3>2 DEF streamOf, clusterVars
    <2>. QED  BY <1>12, <2>1, <2>2 DEF PopState
  <1>13. ASSUME HistoryLoad PROVE RowsCome'
    BY <1>13, DrawComes DEF HistoryLoad
  <1>14. ASSUME RetryFires PROVE RowsCome'
    <2>1. CASE subscribed = page
      BY <1>5, <1>14, <2>1 DEF RetryFires, Connect
    <2>2. CASE subscribed # page
      BY <1>4, <1>14, <2>2 DEF RetryFires, clusterVars
    <2>. QED  BY <2>1, <2>2
  <1>15. ASSUME WatchEnds \/ Reconnect PROVE RowsCome'
    BY <1>5, <1>15 DEF WatchEnds, Reconnect
  <1>16. ASSUME RefuseStream \/ Navigate \/ UNCHANGED watchVars PROVE RowsCome'
    BY <1>4, <1>16 DEF RefuseStream, Navigate, watchVars, streamOf, clusterVars
  <1>. QED
    BY <1>6, <1>7, <1>8, <1>9, <1>11, <1>12, <1>13, <1>14, <1>15, <1>16 DEF WatchNext

-----------------------------------------------------------------------------
LEMMA WatchInvInit == WatchInit => WatchInv
  <1>. SUFFICES ASSUME WatchInit PROVE WatchInv
    OBVIOUS
  <1>1. WatchTypeOK
    <2>1. Blank.app = NoApp /\ Blank.list = NoRows /\ 0 \in 0 .. MaxClock
      BY WatchProxyAssumption DEF Blank
    <2>2. cluster \in [ClusterEvents -> -1 .. MaxClock]
      BY WatchProxyAssumption DEF WatchInit, Unborn
    <2>. QED  BY <2>1, <2>2, NoRowsType, NoLoadTypes, EmptyFeed DEF WatchInit, WatchTypeOK
  <1>2. Own
    BY NothingIsOwn DEF WatchInit, Own, OnlyOwnRows, ListIsOwn, FramesInScope, Piped, StreamIsOwn
  <1>3. RowsCome
    BY DEF WatchInit, RowsCome
  <1>. QED  BY <1>1, <1>2, <1>3 DEF Own, WatchInv

LEMMA WatchInvHolds == WatchSpec => []WatchInv
  <1>1. WatchInv /\ [WatchNext]_watchVars => WatchInv'
    BY WatchTypeStep, OwnStep, RowsComeStep DEF WatchInv, Own
  <1>. QED  BY WatchInvInit, <1>1, PTL DEF WatchSpec

(* Every variable of the Events tab keeps its type.                        *)
THEOREM WatchTyped == WatchSpec => []WatchTypeOK
  <1>1. WatchInv => WatchTypeOK
    BY DEF WatchInv
  <1>. QED  BY WatchInvHolds, <1>1, PTL

(* The Events tab of an application never shows a row about another one's  *)
(* objects, whatever retries, late frames and navigations come before it,  *)
(* until Back or Forward puts a page there whose stream it may not have.   *)
THEOREM RowsAreOwn == WatchSpec => []OnlyOwnRows
  <1>1. WatchInv => OnlyOwnRows
    BY DEF WatchInv
  <1>. QED  BY WatchInvHolds, <1>1, PTL

(* While the watch of the page is open a row shows what the cluster holds, *)
(* or is about to, but for the named losses, also on a page that Back has  *)
(* restored; and a page with an Events tab that a swap has drawn keeps a   *)
(* stream or a retry.                                                      *)
THEOREM RowsComeRight == WatchSpec => []RowsStaleOnlyByNamedLoss
  <1>1. WatchInv => RowsStaleOnlyByNamedLoss
    BY DEF WatchInv, RowsCome, NotLost, StreamIsOwn, RowsStaleOnlyByNamedLoss
  <1>. QED  BY WatchInvHolds, <1>1, PTL

-----------------------------------------------------------------------------
(* The limiter, the start and the shutdown, for every set of users,        *)
(* addresses and requests, every rate and every timeout.                   *)

(* A request in the limiter holds a bucket, and no other does.             *)
RequestOK(req) ==
  /\ req \in [phase : {"idle", "limiter", "handling", "failed"}, kind : Kinds \cup {""},
             key : Keys \cup {""}, bucket : BucketIds \cup {NoBucket}, age : 0 .. requestTimeout + 1]
  /\ req.phase # "idle" => req.kind \in Kinds
  /\ req.phase = "limiter" => req.key \in Keys /\ req.bucket \in BucketIds
  /\ req.phase # "limiter" => req.bucket = NoBucket
  /\ req.phase = "handling" => req.age <= requestTimeout

LimitsOK ==
  /\ reqs = [r \in Requests |-> reqs[r]] /\ \A r \in Requests : RequestOK(reqs[r])
  /\ eternal \in [Keys -> Int] /\ late \in [Keys -> Int]
  /\ \A k \in Keys : buckets[k].bucket = NoBucket => buckets[k] = Unlisted

(* No two keys share a bucket, in the map or in a request's hand.          *)
Apart ==
  /\ \A j, k \in Keys :
       buckets[j].bucket = buckets[k].bucket /\ buckets[j].bucket # NoBucket => j = k
  /\ \A r \in Requests, k \in Keys :
       reqs[r].phase = "limiter" /\ reqs[r].bucket = buckets[k].bucket => reqs[r].key = k

(* Until a tick passes the bucket just looked up is the one in the map.    *)
JustSeen ==
  \A r \in Requests :
    reqs[r].phase = "limiter" /\ reqs[r].age = 0 =>
      buckets[reqs[r].key] = [bucket |-> reqs[r].bucket, seen |-> 0]

(* A bucket in the map holds no more than the eternal one and what was     *)
(* taken late, which have had the time since the lookup to fill up; one    *)
(* that is not there would be full.                                        *)
Budget(k) == eternal[k] + late[k]

Covered ==
  \A k \in Keys :
    IF buckets[k].bucket = NoBucket
    THEN Budget(k) >= rateLimitBurst
    ELSE /\ tokens[buckets[k].bucket] <= Budget(k)
         /\ Least(buckets[k].seen, rateLimitBurst) <= Budget(k)

(* A request is cut off by an exit alone.                                  *)
CutByExit == cut => proc.phase = "exited" /\ proc.code = 1

ServerInv == ServerTypeOK /\ LimitsOK /\ Apart /\ JustSeen /\ Covered /\ CutByExit

-----------------------------------------------------------------------------
(* There is always a bucket for a request that arrives.                    *)

(* Keys are finitely many.                                                 *)
LEMMA KeysFinite == IsFiniteSet(Keys)
  <1>1. IsFiniteSet(Users \cup Peers)
    BY ServerAssumption, FS_Union
  <1>2. IsFiniteSet((Users \cup Peers) \cup {"dev-admin"})
    BY <1>1, FS_AddElement
  <1>3. IsFiniteSet(((Users \cup Peers) \cup {"dev-admin"}) \cup {"kubeconfig-user"})
    BY <1>2, FS_AddElement
  <1>4. IsFiniteSet((((Users \cup Peers) \cup {"dev-admin"}) \cup {"kubeconfig-user"}) \cup {"token-user"})
    BY <1>3, FS_AddElement
  <1>5. Keys = (((Users \cup Peers) \cup {"dev-admin"}) \cup {"kubeconfig-user"}) \cup {"token-user"}
    BY DEF Keys
  <1>. QED  BY <1>4, <1>5

(* Buckets are numbered.                                                   *)
LEMMA Numbers ==
  /\ Cardinality(Keys) \in Nat /\ Cardinality(Requests) \in Nat
  /\ IsFiniteSet(BucketIds) /\ BucketIds \subseteq Nat /\ NoBucket \notin BucketIds
  /\ Cardinality(BucketIds) = Cardinality(Keys) + Cardinality(Requests)
  <1>1. Cardinality(Keys) \in Nat /\ Cardinality(Requests) \in Nat
    BY KeysFinite, ServerAssumption, FS_CardinalityType
  <1>2. DEFINE n == Cardinality(Keys) + Cardinality(Requests)
  <1>3. n \in Nat
    BY <1>1
  <1>. HIDE DEF n
  <1>4. IsFiniteSet(1 .. n) /\ Cardinality(1 .. n) = IF 1 > n THEN 0 ELSE n - 1 + 1
    BY <1>3, FS_Interval
  <1>5. BucketIds = 1 .. n
    BY DEF BucketIds, n
  <1>6. Cardinality(BucketIds) = n
    BY <1>3, <1>4, <1>5
  <1>. QED  BY <1>1, <1>3, <1>4, <1>5, <1>6 DEF n, NoBucket

(* As many keys and requests as there are buckets use at most as many; one *)
(* of them, the request that arrives, uses none.                           *)
LEMMA SomeFree ==
  ASSUME NEW r0 \in Requests, reqs[r0].bucket = NoBucket
  PROVE  \E b \in BucketIds : (\A k \in Keys : buckets[k].bucket # b)
                              /\ (\A r \in Requests : reqs[r].bucket # b)
  <1>1. DEFINE f == [k \in Keys |-> buckets[k].bucket]
               g == [r \in Requests |-> reqs[r].bucket]
               F == {f[k] : k \in Keys}
               G == {g[r] : r \in Requests}
  <1>2. IsFiniteSet(F) /\ Cardinality(F) <= Cardinality(Keys)
    <2>1. f \in Surjection(Keys, F)
      BY DEF Surjection
    <2>. QED  BY <2>1, KeysFinite, FS_Surjection
  <1>3. IsFiniteSet(G) /\ Cardinality(G) <= Cardinality(Requests)
    <2>1. g \in Surjection(Requests, G)
      BY DEF Surjection
    <2>. QED  BY <2>1, ServerAssumption, FS_Surjection
  <1>4. NoBucket \in G
    BY DEF g
  <1>5. \A b : (b \notin F => \A k \in Keys : buckets[k].bucket # b)
               /\ (b \notin G => \A r \in Requests : reqs[r].bucket # b)
    BY DEF f, g
  <1>. HIDE DEF F, G
  <1>6. IsFiniteSet(F \cup G)
        /\ Cardinality(F \cup G) = Cardinality(F) + Cardinality(G) - Cardinality(F \cap G)
    BY <1>2, <1>3, FS_Union
  <1>7. IsFiniteSet(F \cap G)
    BY <1>2, FS_Subset
  <1>8. Cardinality(F) \in Nat /\ Cardinality(G) \in Nat /\ Cardinality(F \cap G) \in Nat
    BY <1>2, <1>3, <1>7, FS_CardinalityType
  <1>9. Cardinality(F \cup G) <= Cardinality(BucketIds) /\ Cardinality(F \cup G) \in Nat
    BY <1>2, <1>3, <1>6, <1>8, FS_CardinalityType, Numbers
  <1>10. ASSUME BucketIds \subseteq F \cup G PROVE FALSE
    <2>1. Cardinality(BucketIds) <= Cardinality(F \cup G)
          /\ (Cardinality(F \cup G) = Cardinality(BucketIds) => F \cup G = BucketIds)
      BY <1>6, <1>10, FS_Subset
    <2>2. F \cup G = BucketIds
      BY <2>1, <1>9, Numbers
    <2>. QED  BY <2>2, <1>4, Numbers
  <1>. QED  BY <1>5, <1>10

(* The one the limiter takes is free.                                      *)
LEMMA FreeBucketIsFree ==
  ASSUME NEW r0 \in Requests, reqs[r0].bucket = NoBucket
  PROVE  /\ FreeBucket \in BucketIds
         /\ \A k \in Keys : buckets[k].bucket # FreeBucket
         /\ \A r \in Requests : reqs[r].bucket # FreeBucket
  BY SomeFree DEF FreeBucket

(* Whoever asks, the key is one of the limiter's.                          *)
LEMMA KeyIsOne ==
  ASSUME NEW mode, NEW kind, NEW who \in Users \cup Peers
  PROVE  KeyOf(mode, kind, who) \in Keys
  <1>1. CASE kind = "upload"
    BY <1>1 DEF KeyOf, Keys
  <1>2. CASE kind # "upload" /\ mode = "dev"
    BY <1>2 DEF KeyOf, Keys
  <1>3. CASE kind # "upload" /\ mode = "byok"
    BY <1>3 DEF KeyOf, Keys
  <1>4. CASE kind # "upload" /\ mode = "token"
    BY <1>4 DEF KeyOf, Keys
  <1>5. CASE kind # "upload" /\ mode \notin {"dev", "byok", "token"}
    BY <1>5 DEF KeyOf, Keys
  <1>. QED  BY <1>1, <1>2, <1>3, <1>4, <1>5
-----------------------------------------------------------------------------
(* What the steps need of the types.                                       *)
BucketEntries == [bucket : BucketIds \cup {NoBucket}, seen : 0 .. rateLimitIdleTimeout + 1]

LEMMA ServerTypes ==
  ASSUME ServerTypeOK, LimitsOK
  PROVE  /\ reqs = [r \in Requests |-> reqs[r]] /\ buckets \in [Keys -> BucketEntries]
         /\ \A r \in Requests : RequestOK(reqs[r])
         /\ tokens \in [BucketIds -> 0 .. rateLimitBurst]
         /\ eternal \in [Keys -> Int] /\ late \in [Keys -> Int]
         /\ \A k \in Keys : eternal[k] <= rateLimitBurst /\ late[k] >= 0
         /\ \A k \in Keys : buckets[k].bucket = NoBucket => buckets[k] = Unlisted
         /\ rateLimitBurst \in Nat \ {0} /\ requestTimeout \in Nat /\ shutdownTimeout \in Nat
         /\ rateLimitIdleTimeout \in Nat /\ rateLimitIdleTimeout >= rateLimitBurst
  BY ServerAssumption DEF ServerTypeOK, LimitsOK, BucketEntries

(* The type invariant again, from what a request's own says.               *)
LEMMA TypesBack ==
  ASSUME NEW p \in [phase : {"starting", "serving", "draining", "exited"}, mode : AuthModes \cup {""},
                    accepts : BOOLEAN, age : 0 .. shutdownTimeout, code : {0, 1}],
         proc' = p, env' \in Environments \cup {Forgotten}, cut' \in BOOLEAN,
         LimitsOK', buckets' \in [Keys -> BucketEntries], tokens' \in [BucketIds -> 0 .. rateLimitBurst],
         \A k \in Keys : eternal'[k] <= rateLimitBurst /\ late'[k] >= 0
  PROVE  ServerTypeOK'
  BY DEF ServerTypeOK, LimitsOK, BucketEntries, RequestOK

(* The amounts.                                                            *)
LEMMA Amounts ==
  /\ rateLimitBurst \in Nat \ {0} /\ requestTimeout \in Nat /\ shutdownTimeout \in Nat
  /\ rateLimitIdleTimeout \in Nat /\ rateLimitIdleTimeout >= rateLimitBurst
  BY ServerAssumption

(* A request that is not there, one in the limiter, and one that runs.     *)
LEMMA IdleFields ==
  Idle.phase = "idle" /\ Idle.kind = "" /\ Idle.key = "" /\ Idle.bucket = NoBucket /\ Idle.age = 0
  BY DEF Idle

Made(ph, kind, key, b, a) == [phase |-> ph, kind |-> kind, key |-> key, bucket |-> b, age |-> a]

LEMMA MadeFields ==
  ASSUME NEW ph, NEW kind, NEW key, NEW b, NEW a
  PROVE  /\ Made(ph, kind, key, b, a).phase = ph /\ Made(ph, kind, key, b, a).kind = kind
         /\ Made(ph, kind, key, b, a).key = key /\ Made(ph, kind, key, b, a).bucket = b
         /\ Made(ph, kind, key, b, a).age = a
  BY DEF Made

LEMMA MadeOK ==
  ASSUME NEW ph \in {"idle", "limiter", "handling", "failed"}, NEW kind \in Kinds \cup {""},
         NEW key \in Keys \cup {""}, NEW b \in BucketIds \cup {NoBucket}, NEW a \in 0 .. requestTimeout + 1,
         ph # "idle" => kind \in Kinds,
         ph = "limiter" => key \in Keys /\ b \in BucketIds, ph # "limiter" => b = NoBucket,
         ph = "handling" => a <= requestTimeout
  PROVE  RequestOK(Made(ph, kind, key, b, a))
  <1>1. Made(ph, kind, key, b, a)
          \in [phase : {"idle", "limiter", "handling", "failed"}, kind : Kinds \cup {""},
              key : Keys \cup {""}, bucket : BucketIds \cup {NoBucket}, age : 0 .. requestTimeout + 1]
    BY DEF Made
  <1>2. PICK m : m = Made(ph, kind, key, b, a)
    OBVIOUS
  <1>3. m.phase = ph /\ m.kind = kind /\ m.bucket = b /\ m.age = a /\ m.key = key
    BY <1>2 DEF Made
  <1>4. RequestOK(m)
    BY <1>1, <1>2, <1>3 DEF RequestOK
  <1>. QED  BY <1>2, <1>4

LEMMA IdleOK == RequestOK(Idle)
  <1>1. 0 \in 0 .. requestTimeout + 1 /\ 0 <= requestTimeout
    BY Amounts
  <1>2. Idle = Made("idle", "", "", NoBucket, 0)
    BY DEF Idle, Made
  <1>. QED  BY <1>1, <1>2, MadeOK

LEMMA RunsOK ==
  ASSUME NEW r \in Requests, NEW kind \in Kinds, RunsIn(r, kind), reqs = [q \in Requests |-> reqs[q]]
  PROVE  /\ reqs' = [q \in Requests |-> reqs'[q]]
         /\ \A q \in Requests : q # r => reqs'[q] = reqs[q]
         /\ RequestOK(reqs'[r]) /\ reqs'[r].phase # "limiter"
  <1>1. PICK new : new = [Idle EXCEPT !.kind = kind,
             !.phase = IF kind = "logs" /\ ~GetsTheWriter(kind) THEN "failed" ELSE "handling"]
    OBVIOUS
  <1>2. RequestOK(new) /\ new.phase # "limiter"
    <2>1. PICK ph \in {"failed", "handling"} : new = Made(ph, kind, "", NoBucket, 0)
      BY <1>1 DEF Idle, Made
    <2>2. 0 \in 0 .. requestTimeout + 1 /\ 0 <= requestTimeout
      BY Amounts
    <2>. QED  BY <2>1, <2>2, MadeOK, MadeFields
  <1>3. reqs' = [reqs EXCEPT ![r] = new]
    BY <1>1 DEF RunsIn
  <1>. QED  BY <1>2, <1>3

(* Steps that touch no bucket and bring no request to the limiter.         *)
LEMMA LimitsStay ==
  ASSUME ServerInv, UNCHANGED limits, reqs' = [r \in Requests |-> reqs'[r]],
         \A r \in Requests : reqs'[r] = reqs[r] \/ (RequestOK(reqs'[r]) /\ reqs'[r].phase # "limiter")
  PROVE  /\ LimitsOK' /\ Apart' /\ JustSeen' /\ Covered'
         /\ buckets' \in [Keys -> BucketEntries] /\ tokens' \in [BucketIds -> 0 .. rateLimitBurst]
         /\ \A k \in Keys : eternal'[k] <= rateLimitBurst /\ late'[k] >= 0
  <1>1. buckets' = buckets /\ tokens' = tokens /\ eternal' = eternal /\ late' = late
    BY DEF limits
  <1>2. LimitsOK'
    BY <1>1, ServerTypes DEF ServerInv, LimitsOK
  <1>3. Apart'
    BY <1>1 DEF ServerInv, Apart
  <1>4. JustSeen'
    BY <1>1 DEF ServerInv, JustSeen
  <1>5. Covered'
    BY <1>1 DEF ServerInv, Covered, Budget
  <1>. QED  BY <1>1, <1>2, <1>3, <1>4, <1>5, ServerTypes DEF ServerInv
-----------------------------------------------------------------------------
(* One lemma per action that takes or fills tokens.                        *)

LEMMA Facts ==
  ASSUME ServerInv
  PROVE  /\ reqs = [r \in Requests |-> reqs[r]] /\ buckets \in [Keys -> BucketEntries]
         /\ \A r \in Requests : RequestOK(reqs[r])
         /\ tokens \in [BucketIds -> 0 .. rateLimitBurst]
         /\ eternal \in [Keys -> Int] /\ late \in [Keys -> Int]
         /\ \A k \in Keys : eternal[k] <= rateLimitBurst /\ late[k] >= 0
         /\ \A k \in Keys : buckets[k].bucket = NoBucket => buckets[k] = Unlisted
         /\ Apart /\ JustSeen /\ Covered /\ CutByExit
  BY ServerTypes DEF ServerInv

(* Looking a key up leaves every key its own bucket, and a new one full.   *)
LooksUp(key, b) ==
  /\ buckets' = [buckets EXCEPT ![key] = [bucket |-> b, seen |-> 0]]
  /\ \A k \in Keys \ {key} : buckets[k].bucket # b
  /\ \A q \in Requests : reqs[q].phase = "limiter" /\ reqs[q].bucket = b => reqs[q].key = key
  /\ tokens' \in [BucketIds -> 0 .. rateLimitBurst]
  /\ \A c \in BucketIds \ {b} : tokens'[c] = tokens[c]
  /\ tokens'[b] <= Budget(key) /\ Budget(key) >= 0

LEMMA LookUpKeeps ==
  ASSUME ServerInv, NEW r \in Requests, reqs[r] = Idle, NEW key \in Keys, LookUp(key)
  PROVE  \E b \in BucketIds : LooksUp(key, b)
  <1>1. CASE buckets[key].bucket = NoBucket
    <2>1. reqs[r].bucket = NoBucket
      BY IdleFields
    <2>2. FreeBucket \in BucketIds /\ (\A k \in Keys : buckets[k].bucket # FreeBucket)
          /\ (\A q \in Requests : reqs[q].bucket # FreeBucket)
      BY <2>1, FreeBucketIsFree
    <2>3. FreeBucket # buckets[key].bucket
      BY <2>2
    <2>4. buckets' = [buckets EXCEPT ![key] = [bucket |-> FreeBucket, seen |-> 0]]
          /\ tokens' = [tokens EXCEPT ![FreeBucket] = rateLimitBurst]
      BY <1>1, <2>3 DEF LookUp
    <2>5. tokens' \in [BucketIds -> 0 .. rateLimitBurst] /\ tokens'[FreeBucket] = rateLimitBurst
          /\ \A c \in BucketIds \ {FreeBucket} : tokens'[c] = tokens[c]
      BY <2>2, <2>4, Facts, Amounts
    <2>6. Budget(key) >= rateLimitBurst /\ Budget(key) \in Int
      BY <1>1, Facts DEF Covered, Budget
    <2>7. tokens'[FreeBucket] <= Budget(key) /\ Budget(key) >= 0
      BY <2>5, <2>6, Amounts
    <2>. QED  BY <2>2, <2>4, <2>5, <2>7 DEF LooksUp
  <1>2. CASE buckets[key].bucket # NoBucket
    <2>1. PICK b \in BucketIds : b = buckets[key].bucket
      BY <1>2, Facts DEF BucketEntries
    <2>2. buckets' = [buckets EXCEPT ![key] = [bucket |-> b, seen |-> 0]] /\ tokens' = tokens
      BY <1>2, <2>1 DEF LookUp
    <2>3. \A k \in Keys \ {key} : buckets[k].bucket # b
      BY <1>2, <2>1, Facts DEF Apart
    <2>4. \A q \in Requests : reqs[q].phase = "limiter" /\ reqs[q].bucket = b => reqs[q].key = key
      BY <2>1, Facts DEF Apart
    <2>5. tokens[b] <= Budget(key) /\ Budget(key) \in Int /\ tokens[b] \in Nat
      BY <1>2, <2>1, Facts DEF Covered, Budget
    <2>6. tokens'[b] <= Budget(key) /\ Budget(key) >= 0
      BY <2>2, <2>5
    <2>. QED  BY <2>1, <2>2, <2>3, <2>4, <2>6, Facts DEF LooksUp
  <1>. QED  BY <1>1, <1>2

(* A request that arrives at the limiter.                                  *)
LEMMA ArriveKeeps ==
  ASSUME ServerInv, NEW r \in Requests, ArriveLimited(r)
  PROVE  ServerInv'
  <1>1. PICK kind \in Kinds \ {"public"}, who \in Users \cup Peers, key \in Keys :
          /\ reqs[r] = Idle /\ LookUp(key)
          /\ reqs' = [reqs EXCEPT ![r] = [Idle EXCEPT !.phase = "limiter", !.kind = kind, !.key = key,
                                                      !.bucket = buckets'[key].bucket]]
    BY KeyIsOne DEF ArriveLimited
  <1>2. PICK b \in BucketIds : LooksUp(key, b)
    BY <1>1, LookUpKeeps
  <1>3. buckets'[key] = [bucket |-> b, seen |-> 0] /\ \A k \in Keys \ {key} : buckets'[k] = buckets[k]
    BY <1>2, Facts DEF LooksUp
  <1>4. buckets'[key].bucket = b /\ buckets'[key].seen = 0
    BY <1>3
  <1>5. PICK new : new = Made("limiter", kind, key, b, 0)
    OBVIOUS
  <1>6. new.phase = "limiter" /\ new.key = key /\ new.bucket = b /\ new.age = 0
    BY <1>5, MadeFields
  <1>7. reqs' = [reqs EXCEPT ![r] = new]
    <2>1. PICK c : c = buckets'[key].bucket
      OBVIOUS
    <2>2. PICK m : [Idle EXCEPT !.phase = "limiter", !.kind = kind, !.key = key, !.bucket = c]
            = m
      OBVIOUS
    <2>3. m = Made("limiter", kind, key, c, 0)
      BY <2>2 DEF Idle, Made
    <2>. QED  BY <1>1, <1>4, <1>5, <2>1, <2>2, <2>3
  <1>8. reqs'[r] = new /\ \A q \in Requests \ {r} : reqs'[q] = reqs[q]
    BY <1>7, Facts
  <1>9. proc' = proc /\ env' = env /\ eternal' = eternal /\ late' = late /\ cut' = cut
    BY DEF ArriveLimited
  <1>10. buckets' \in [Keys -> BucketEntries]
    <2>1. [bucket |-> b, seen |-> 0] \in BucketEntries
      BY Amounts DEF BucketEntries
    <2>. QED  BY <1>2, <2>1, Facts DEF LooksUp
  <1>11. RequestOK(new)
    <2>1. 0 \in 0 .. requestTimeout + 1 /\ 0 <= requestTimeout
      BY Amounts
    <2>. QED  BY <1>5, <2>1, MadeOK
  <1>12. LimitsOK'
    <2>1. reqs' = [q \in Requests |-> reqs'[q]] /\ \A q \in Requests : RequestOK(reqs'[q])
      BY <1>7, <1>8, <1>11, Facts
    <2>2. \A k \in Keys : buckets'[k].bucket = NoBucket => buckets'[k] = Unlisted
      BY <1>3, <1>4, Numbers, Facts
    <2>. QED  BY <1>9, <2>1, <2>2, Facts DEF LimitsOK
  <1>13. Apart'
    <2>1. ASSUME NEW j \in Keys, NEW k \in Keys, buckets'[j].bucket = buckets'[k].bucket,
                 buckets'[j].bucket # NoBucket
          PROVE  j = k
      BY <1>2, <1>3, <1>4, <2>1, Facts DEF Apart, LooksUp
    <2>2. ASSUME NEW q \in Requests, NEW k \in Keys, reqs'[q].phase = "limiter",
                 reqs'[q].bucket = buckets'[k].bucket
          PROVE  reqs'[q].key = k
      BY <1>2, <1>3, <1>4, <1>6, <1>8, <2>2, Facts DEF Apart, LooksUp
    <2>. QED  BY <2>1, <2>2 DEF Apart
  <1>14. JustSeen'
    <2>1. ASSUME NEW q \in Requests, reqs'[q].phase = "limiter", reqs'[q].age = 0
          PROVE  buckets'[reqs'[q].key] = [bucket |-> reqs'[q].bucket, seen |-> 0]
      <3>1. CASE q = r
        BY <1>3, <1>6, <1>8, <3>1
      <3>2. CASE q # r
        <4>1. reqs'[q] = reqs[q] /\ reqs[q].key \in Keys /\ reqs[q].bucket \in BucketIds
          BY <1>8, <2>1, <3>2, Facts DEF RequestOK
        <4>2. buckets[reqs[q].key] = [bucket |-> reqs[q].bucket, seen |-> 0]
          BY <2>1, <4>1, Facts DEF JustSeen
        <4>3. CASE reqs[q].key # key
          BY <1>3, <4>1, <4>2, <4>3
        <4>4. CASE reqs[q].key = key
          <5>1. buckets[key].bucket = reqs[q].bucket /\ buckets[key].bucket # NoBucket
            BY <4>1, <4>2, <4>4, Numbers
          <5>2. b = buckets[key].bucket
            BY <1>1, <1>4, <5>1 DEF LookUp
          <5>. QED  BY <1>3, <4>1, <4>4, <5>1, <5>2
        <4>. QED  BY <4>3, <4>4
      <3>. QED  BY <3>1, <3>2
    <2>. QED  BY <2>1 DEF JustSeen
  <1>15. Covered'
    <2>1. ASSUME NEW k \in Keys \ {key}, buckets'[k].bucket # NoBucket
          PROVE  tokens'[buckets'[k].bucket] = tokens[buckets[k].bucket]
      <3>1. buckets'[k].bucket = buckets[k].bucket /\ buckets[k].bucket \in BucketIds
        BY <1>3, <2>1, Facts DEF BucketEntries
      <3>. QED  BY <1>2, <3>1 DEF LooksUp
    <2>2. tokens'[buckets'[key].bucket] <= Budget(key)
          /\ Least(buckets'[key].seen, rateLimitBurst) <= Budget(key)
      <3>1. Least(0, rateLimitBurst) = 0
        BY Amounts DEF Least
      <3>. QED  BY <1>2, <1>4, <3>1 DEF LooksUp
    <2>3. \A k \in Keys : Budget(k)' = Budget(k)
      BY <1>9 DEF Budget
    <2>4. buckets'[key].bucket # NoBucket
      BY <1>4, Numbers
    <2>5. ASSUME NEW k \in Keys
          PROVE  IF buckets'[k].bucket = NoBucket
                 THEN Budget(k)' >= rateLimitBurst
                 ELSE /\ tokens'[buckets'[k].bucket] <= Budget(k)'
                      /\ Least(buckets'[k].seen, rateLimitBurst) <= Budget(k)'
      <3>1. CASE k = key
        BY <2>2, <2>3, <2>4, <3>1
      <3>2. CASE k # key
        BY <1>3, <2>1, <2>3, <3>2, Facts DEF Covered
      <3>. QED  BY <3>1, <3>2
    <2>. QED  BY <2>5 DEF Covered
  <1>16. ServerTypeOK'
    BY <1>2, <1>9, <1>10, <1>12, Facts, TypesBack DEF ServerTypeOK, ServerInv, LooksUp
  <1>17. CutByExit'
    BY <1>9, Facts DEF CutByExit
  <1>. QED  BY <1>12, <1>13, <1>14, <1>15, <1>16, <1>17 DEF ServerInv
(* A request that gets a token: at once, of the bucket in the map, or late,*)
(* of one that has perhaps left it.                                        *)
LEMMA AdmitKeeps ==
  ASSUME ServerInv, NEW r \in Requests, Admit(r)
  PROVE  ServerInv'
  <1>1. PICK b \in BucketIds, key \in Keys, kind \in Kinds :
          reqs[r].bucket = b /\ reqs[r].key = key /\ reqs[r].kind = kind
    BY Facts DEF Admit, RequestOK
  <1>2. reqs[r].phase = "limiter" /\ tokens[b] > 0
        /\ tokens' = [tokens EXCEPT ![b] = @ - 1] /\ eternal' = [eternal EXCEPT ![key] = @ - 1]
        /\ late' = (IF reqs[r].age > 0 THEN [late EXCEPT ![key] = @ + 1] ELSE late)
        /\ RunsIn(r, kind)
    BY <1>1 DEF Admit
  <1>3. proc' = proc /\ env' = env /\ buckets' = buckets /\ cut' = cut
    BY DEF Admit
  <1>4. tokens' \in [BucketIds -> 0 .. rateLimitBurst] /\ tokens'[b] = tokens[b] - 1
        /\ \A c \in BucketIds \ {b} : tokens'[c] = tokens[c]
    BY <1>2, Facts, Amounts
  <1>5. eternal' \in [Keys -> Int] /\ eternal'[key] = eternal[key] - 1
        /\ \A k \in Keys \ {key} : eternal'[k] = eternal[k]
    BY <1>2, Facts
  <1>6. late' \in [Keys -> Int] /\ late'[key] = (IF reqs[r].age > 0 THEN late[key] + 1 ELSE late[key])
        /\ \A k \in Keys \ {key} : late'[k] = late[k]
    BY <1>2, Facts
  <1>7. \A k \in Keys : eternal'[k] <= rateLimitBurst /\ late'[k] >= 0
    <2>1. ASSUME NEW k \in Keys PROVE eternal'[k] <= rateLimitBurst /\ late'[k] >= 0
      <3>1. eternal[k] \in Int /\ late[k] \in Int /\ eternal[k] <= rateLimitBurst /\ late[k] >= 0
        BY Facts
      <3>2. eternal'[k] = eternal[k] \/ eternal'[k] = eternal[k] - 1
        BY <1>5
      <3>3. late'[k] = late[k] \/ late'[k] = late[k] + 1
        BY <1>6
      <3>. QED  BY <3>1, <3>2, <3>3, Amounts
    <2>. QED  BY <2>1
  <1>8. /\ reqs' = [q \in Requests |-> reqs'[q]]
        /\ \A q \in Requests : q # r => reqs'[q] = reqs[q]
        /\ RequestOK(reqs'[r]) /\ reqs'[r].phase # "limiter"
    BY <1>2, Facts, RunsOK
  <1>9. LimitsOK'
    BY <1>3, <1>5, <1>6, <1>8, Facts DEF LimitsOK
  <1>10. Apart'
    BY <1>3, <1>8, Facts DEF Apart
  <1>11. JustSeen'
    BY <1>3, <1>8, Facts DEF JustSeen
  <1>12. Budget(key) \in Int
         /\ Budget(key)' = IF reqs[r].age > 0 THEN Budget(key) ELSE Budget(key) - 1
    <2>1. eternal[key] \in Int /\ late[key] \in Int
      BY Facts
    <2>. QED  BY <1>5, <1>6, <2>1 DEF Budget
  <1>13. \A k \in Keys \ {key} : Budget(k)' = Budget(k)
    BY <1>5, <1>6 DEF Budget
  <1>14. Covered'
    <2>1. ASSUME NEW k \in Keys \ {key}, buckets[k].bucket # NoBucket
          PROVE  tokens'[buckets[k].bucket] = tokens[buckets[k].bucket]
      <3>1. buckets[k].bucket \in BucketIds /\ buckets[k].bucket # b
        BY <1>1, <1>2, <2>1, Facts DEF BucketEntries, Apart
      <3>. QED  BY <1>4, <3>1
    <2>2. CASE reqs[r].age > 0
      <3>1. ASSUME buckets[key].bucket # NoBucket
            PROVE  tokens'[buckets[key].bucket] <= Budget(key)
        <4>1. buckets[key].bucket \in BucketIds /\ tokens[buckets[key].bucket] <= Budget(key)
          BY <3>1, Facts DEF BucketEntries, Covered
        <4>2. tokens'[buckets[key].bucket] <= tokens[buckets[key].bucket]
              /\ tokens[buckets[key].bucket] \in Int /\ tokens'[buckets[key].bucket] \in Int
          BY <1>4, <4>1, Facts
        <4>. QED  BY <4>1, <4>2, <1>12
      <3>. QED  BY <1>3, <1>12, <1>13, <2>1, <2>2, <3>1, Facts DEF Covered
    <2>3. CASE ~(reqs[r].age > 0)
      <3>1. reqs[r].age = 0
        <4>1. reqs[r].age \in 0 .. requestTimeout + 1
          BY Facts DEF RequestOK
        <4>. QED  BY <2>3, <4>1, Amounts
      <3>2. buckets[key] = [bucket |-> b, seen |-> 0]
        BY <1>1, <1>2, <3>1, Facts DEF JustSeen
      <3>3. buckets[key].bucket = b /\ buckets[key].seen = 0 /\ b # NoBucket
        BY <3>2, Numbers
      <3>4. tokens[b] <= Budget(key) /\ tokens[b] \in Int
        BY <3>3, Facts DEF Covered
      <3>5. Least(0, rateLimitBurst) = 0
        BY Amounts DEF Least
      <3>6. tokens'[b] <= Budget(key)' /\ Least(buckets[key].seen, rateLimitBurst) <= Budget(key)'
        <4>1. tokens[b] - 1 <= Budget(key) - 1 /\ 0 <= Budget(key) - 1
          BY <1>2, <1>12, <3>4
        <4>2. Budget(key)' = Budget(key) - 1
          BY <1>12, <2>3
        <4>3. tokens'[b] = tokens[b] - 1 /\ Least(buckets[key].seen, rateLimitBurst) = 0
          BY <1>4, <3>3, <3>5
        <4>. QED  BY <4>1, <4>2, <4>3
      <3>. QED  BY <1>3, <1>13, <2>1, <3>3, <3>6, Facts DEF Covered
    <2>. QED  BY <2>2, <2>3
  <1>15. ServerTypeOK'
    BY <1>3, <1>4, <1>7, <1>9, Facts, TypesBack DEF ServerTypeOK, ServerInv
  <1>16. CutByExit'
    BY <1>3, Facts DEF CutByExit
  <1>. QED  BY <1>9, <1>10, <1>11, <1>14, <1>15, <1>16 DEF ServerInv

(* A bucket the janitor takes has had the time to fill up: the eternal one *)
(* has it too.                                                             *)
LEMMA CollectKeeps ==
  ASSUME ServerInv, Collect
  PROVE  ServerInv'
  <1>1. proc' = proc /\ env' = env /\ reqs' = reqs /\ tokens' = tokens /\ eternal' = eternal
        /\ late' = late /\ cut' = cut
    BY DEF Collect
  <1>2. \A k \in Keys : buckets'[k] = IF Expired(k) THEN Unlisted ELSE buckets[k]
    BY DEF Collect
  <1>3. Unlisted \in BucketEntries /\ Unlisted.bucket = NoBucket
    BY Amounts DEF Unlisted, BucketEntries
  <1>4. buckets' \in [Keys -> BucketEntries]
    BY <1>3, Facts DEF Collect
  <1>5. \A k \in Keys : buckets'[k].bucket # NoBucket => buckets'[k] = buckets[k]
    BY <1>2, <1>3
  <1>6. LimitsOK'
    BY <1>1, <1>2, Facts DEF LimitsOK
  <1>7. Apart'
    <2>1. ASSUME NEW j \in Keys, NEW k \in Keys, buckets'[j].bucket = buckets'[k].bucket,
                 buckets'[j].bucket # NoBucket
          PROVE  j = k
      BY <1>5, <2>1, Facts DEF Apart
    <2>2. ASSUME NEW q \in Requests, NEW k \in Keys, reqs[q].phase = "limiter",
                 reqs[q].bucket = buckets'[k].bucket
          PROVE  reqs[q].key = k
      <3>1. reqs[q].bucket # NoBucket
        BY <2>2, Facts, Numbers DEF RequestOK
      <3>. QED  BY <1>5, <2>2, <3>1, Facts DEF Apart
    <2>. QED  BY <1>1, <2>1, <2>2 DEF Apart
  <1>8. JustSeen'
    <2>1. ASSUME NEW q \in Requests, reqs[q].phase = "limiter", reqs[q].age = 0
          PROVE  buckets'[reqs[q].key] = [bucket |-> reqs[q].bucket, seen |-> 0]
      <3>1. reqs[q].key \in Keys /\ buckets[reqs[q].key] = [bucket |-> reqs[q].bucket, seen |-> 0]
        BY <2>1, Facts DEF RequestOK, JustSeen
      <3>2. buckets[reqs[q].key].seen = 0
        BY <3>1
      <3>3. ~Expired(reqs[q].key)
        BY <3>2, Amounts DEF Expired
      <3>. QED  BY <1>2, <3>1, <3>3
    <2>. QED  BY <1>1, <2>1 DEF JustSeen
  <1>9. Covered'
    <2>1. ASSUME NEW k \in Keys, Expired(k) PROVE Budget(k) >= rateLimitBurst
      <3>1. buckets[k].bucket # NoBucket /\ buckets[k].seen > rateLimitIdleTimeout
            /\ buckets[k].seen \in Int
        BY <2>1, Facts, Amounts DEF Expired, BucketEntries
      <3>2. Least(buckets[k].seen, rateLimitBurst) <= Budget(k)
        BY <3>1, Facts DEF Covered
      <3>3. Least(buckets[k].seen, rateLimitBurst) = rateLimitBurst
        BY <3>1, Amounts DEF Least
      <3>4. eternal[k] \in Int /\ late[k] \in Int
        BY Facts
      <3>. QED  BY <3>2, <3>3, <3>4, Amounts DEF Budget
    <2>2. \A k \in Keys : Budget(k)' = Budget(k)
      BY <1>1 DEF Budget
    <2>3. ASSUME NEW k \in Keys
          PROVE  IF buckets'[k].bucket = NoBucket
                 THEN Budget(k)' >= rateLimitBurst
                 ELSE /\ tokens'[buckets'[k].bucket] <= Budget(k)'
                      /\ Least(buckets'[k].seen, rateLimitBurst) <= Budget(k)'
      <3>1. CASE Expired(k)
        BY <1>2, <1>3, <2>1, <2>2, <3>1
      <3>2. CASE ~Expired(k)
        BY <1>1, <1>2, <2>2, <3>2, Facts DEF Covered
      <3>. QED  BY <3>1, <3>2
    <2>. QED  BY <2>3 DEF Covered
  <1>10. ServerTypeOK'
    BY <1>1, <1>4, <1>6, Facts, TypesBack DEF ServerTypeOK, ServerInv
  <1>11. CutByExit'
    BY <1>1, Facts DEF CutByExit
  <1>. QED  BY <1>6, <1>7, <1>8, <1>9, <1>10, <1>11 DEF ServerInv
-----------------------------------------------------------------------------
(* Time.                                                                   *)
LEMMA Ages ==
  /\ 1 \in 0 .. requestTimeout + 1
  /\ \A a \in 0 .. requestTimeout + 1 :
       a <= requestTimeout /\ a # requestTimeout =>
         a + 1 \in 0 .. requestTimeout + 1 /\ a + 1 <= requestTimeout
  BY Amounts

LEMMA AgedOK ==
  ASSUME NEW req, RequestOK(req),
         ~(req.phase = "handling" /\ req.kind \notin Streams /\ req.age = requestTimeout)
  PROVE  /\ RequestOK(Aged(req)) /\ Aged(req).phase = req.phase
         /\ Aged(req).key = req.key /\ Aged(req).bucket = req.bucket
         /\ req.phase = "limiter" => Aged(req).age = 1
  <1>1. PICK ph, kind, key, b, a :
          req = [phase |-> ph, kind |-> kind, key |-> key, bucket |-> b, age |-> a]
    BY DEF RequestOK
  <1>2. req.phase = ph /\ req.kind = kind /\ req.key = key /\ req.bucket = b /\ req.age = a
    BY <1>1
  <1>3. /\ ph \in {"idle", "limiter", "handling", "failed"} /\ kind \in Kinds \cup {""}
        /\ key \in Keys \cup {""} /\ b \in BucketIds \cup {NoBucket} /\ a \in 0 .. requestTimeout + 1
        /\ ph # "idle" => kind \in Kinds
        /\ ph = "limiter" => key \in Keys /\ b \in BucketIds
        /\ ph # "limiter" => b = NoBucket
        /\ ph = "handling" => a <= requestTimeout
    BY <1>2 DEF RequestOK
  <1>4. CASE ph = "limiter"
    <2>1. Aged(req) = Made(ph, kind, key, b, 1)
      <3>1. Aged(req) = [req EXCEPT !.age = 1]
        BY <1>2, <1>4 DEF Aged
      <3>. QED  BY <1>1, <3>1 DEF Made
    <2>2. RequestOK(Aged(req))
      BY <1>3, <1>4, <2>1, Ages, MadeOK
    <2>3. PICK m : m = Aged(req)
      OBVIOUS
    <2>4. m.phase = ph /\ m.key = key /\ m.bucket = b /\ m.age = 1
      BY <2>1, <2>3 DEF Made
    <2>. QED  BY <1>2, <2>2, <2>3, <2>4
  <1>5. CASE ph = "handling" /\ kind \notin Streams
    <2>1. Aged(req) = Made(ph, kind, key, b, a + 1)
      <3>1. Aged(req) = [req EXCEPT !.age = @ + 1]
        BY <1>2, <1>5 DEF Aged
      <3>. QED  BY <1>1, <3>1 DEF Made
    <2>2. a # requestTimeout
      BY <1>2, <1>5
    <2>3. a + 1 \in 0 .. requestTimeout + 1 /\ a + 1 <= requestTimeout
      BY <1>3, <1>5, <2>2, Ages
    <2>4. RequestOK(Aged(req))
      BY <1>3, <1>5, <2>1, <2>3, MadeOK
    <2>5. PICK m : m = Aged(req)
      OBVIOUS
    <2>6. m.phase = ph /\ m.key = key /\ m.bucket = b
      BY <2>1, <2>5 DEF Made
    <2>. QED  BY <1>2, <1>5, <2>4, <2>5, <2>6
  <1>6. CASE ph # "limiter" /\ ~(ph = "handling" /\ kind \notin Streams)
    <2>1. Aged(req) = req
      BY <1>2, <1>6 DEF Aged
    <2>. QED  BY <1>2, <1>6, <2>1
  <1>. QED  BY <1>4, <1>5, <1>6

(* The bound of a sum of two amounts that grow by one, when the first is   *)
(* stopped at n and the second then starts anew.                           *)
Grows(e, n) == Least(e + 1, n)

LEMMA BudgetGrows ==
  ASSUME NEW n \in Nat, NEW e \in Int, e <= n, NEW l \in Nat
  PROVE  LET f == Grows(e, n)
             m == IF f = n THEN 0 ELSE l
         IN  /\ f \in Int /\ f <= n /\ m \in Nat
             /\ f + m >= n \/ f + m = e + l + 1
             /\ e + l >= n => f + m >= n
             /\ \A x \in Int : x <= e + l => Grows(x, n) <= f + m
  BY DEF Grows, Least

(* A tick.                                                                 *)
LEMMA TickKeeps ==
  ASSUME ServerInv, Tick
  PROVE  ServerInv'
  <1>1. proc' = (IF proc.phase = "draining" THEN [proc EXCEPT !.age = @ + 1] ELSE proc)
        /\ env' = env /\ cut' = cut
        /\ reqs' = [r \in Requests |-> Aged(reqs[r])]
        /\ proc.phase \in {"serving", "draining"}
        /\ (proc.phase = "draining" => proc.age < shutdownTimeout)
        /\ \A r \in Requests : ~AtDeadline(r)
    BY DEF Tick
  <1>2. \A k \in Keys : buckets'[k] = (IF buckets[k] = Unlisted THEN Unlisted
          ELSE [buckets[k] EXCEPT !.seen = Least(@ + 1, rateLimitIdleTimeout + 1)])
    BY DEF Tick
  <1>3. tokens' = [b \in BucketIds |-> Grows(tokens[b], rateLimitBurst)]
        /\ eternal' = [k \in Keys |-> Grows(eternal[k], rateLimitBurst)]
        /\ late' = [k \in Keys |-> IF eternal'[k] = rateLimitBurst THEN 0 ELSE late[k]]
    BY DEF Tick, Grows
  <1>4. \A r \in Requests :
          /\ RequestOK(reqs'[r]) /\ reqs'[r].phase = reqs[r].phase
          /\ reqs'[r].key = reqs[r].key /\ reqs'[r].bucket = reqs[r].bucket
          /\ reqs[r].phase = "limiter" => reqs'[r].age = 1
    BY <1>1, Facts, AgedOK DEF AtDeadline
  <1>5. \A k \in Keys : buckets[k].bucket = NoBucket =>
          buckets'[k] = Unlisted /\ buckets'[k].bucket = NoBucket
    BY <1>2, Facts DEF Unlisted
  <1>6. ASSUME NEW k \in Keys, buckets[k].bucket # NoBucket
        PROVE  buckets'[k] \in BucketEntries /\ buckets'[k].bucket = buckets[k].bucket
               /\ buckets'[k].seen = Least(buckets[k].seen + 1, rateLimitIdleTimeout + 1)
    <2>1. PICK b \in BucketIds, s \in 0 .. rateLimitIdleTimeout + 1 : buckets[k] = [bucket |-> b, seen |-> s]
      BY <1>6, Facts DEF BucketEntries
    <2>2. buckets[k] # Unlisted
      BY <1>6 DEF Unlisted
    <2>3. PICK t : t = Least(s + 1, rateLimitIdleTimeout + 1)
      OBVIOUS
    <2>4. buckets'[k] = [bucket |-> b, seen |-> t]
      BY <1>2, <2>1, <2>2, <2>3
    <2>5. t \in 0 .. rateLimitIdleTimeout + 1
      BY <2>3, Amounts DEF Least
    <2>6. buckets[k].seen = s /\ buckets[k].bucket = b
      BY <2>1
    <2>. QED  BY <2>3, <2>4, <2>5, <2>6 DEF BucketEntries
  <1>7. buckets' \in [Keys -> BucketEntries]
    <2>1. Unlisted \in BucketEntries
      BY Amounts DEF Unlisted, BucketEntries
    <2>2. \A k \in Keys : buckets'[k] \in BucketEntries
      BY <1>5, <1>6, <2>1
    <2>. QED  BY <2>2 DEF Tick
  <1>8. tokens' \in [BucketIds -> 0 .. rateLimitBurst]
    <2>1. ASSUME NEW x \in 0 .. rateLimitBurst PROVE Grows(x, rateLimitBurst) \in 0 .. rateLimitBurst
      BY Amounts DEF Grows, Least
    <2>. QED  BY <1>3, <2>1, Facts
  <1>9. ASSUME NEW k \in Keys
        PROVE  /\ eternal'[k] \in Int /\ eternal'[k] <= rateLimitBurst /\ late'[k] \in Nat
               /\ Budget(k)' >= rateLimitBurst \/ Budget(k)' = Budget(k) + 1
               /\ Budget(k) >= rateLimitBurst => Budget(k)' >= rateLimitBurst
               /\ \A x \in Int : x <= Budget(k) => Grows(x, rateLimitBurst) <= Budget(k)'
    <2>1. eternal[k] \in Int /\ late[k] \in Nat /\ eternal[k] <= rateLimitBurst /\ rateLimitBurst \in Nat
      BY Facts, Amounts
    <2>2. eternal'[k] = Grows(eternal[k], rateLimitBurst)
          /\ late'[k] = IF Grows(eternal[k], rateLimitBurst) = rateLimitBurst THEN 0 ELSE late[k]
      BY <1>3
    <2>. QED  BY <2>1, <2>2, BudgetGrows, SMTT(30) DEF Budget
  <1>10. LimitsOK'
    <2>1. reqs' = [r \in Requests |-> reqs'[r]]
      BY <1>1
    <2>2. eternal' \in [Keys -> Int] /\ late' \in [Keys -> Int]
      BY <1>3, <1>9
    <2>3. \A k \in Keys : buckets'[k].bucket = NoBucket => buckets'[k] = Unlisted
      BY <1>5, <1>6
    <2>. QED  BY <1>4, <2>1, <2>2, <2>3 DEF LimitsOK
  <1>11. \A k \in Keys : buckets'[k].bucket = buckets[k].bucket
    BY <1>5, <1>6
  <1>12. Apart'
    BY <1>4, <1>11, Facts DEF Apart
  <1>13. JustSeen'
    BY <1>4 DEF JustSeen
  <1>14. Covered'
    <2>1. ASSUME NEW k \in Keys, buckets[k].bucket = NoBucket PROVE Budget(k)' >= rateLimitBurst
      BY <1>9, <2>1, Facts DEF Covered
    <2>2. ASSUME NEW k \in Keys, buckets[k].bucket # NoBucket
          PROVE  tokens'[buckets[k].bucket] <= Budget(k)'
                 /\ Least(buckets'[k].seen, rateLimitBurst) <= Budget(k)'
      <3>1. buckets[k].bucket \in BucketIds /\ buckets[k].seen \in Nat
        BY <2>2, Facts, Amounts DEF BucketEntries
      <3>2. tokens[buckets[k].bucket] <= Budget(k) /\ Least(buckets[k].seen, rateLimitBurst) <= Budget(k)
        BY <2>2, Facts DEF Covered
      <3>3. tokens'[buckets[k].bucket] <= Budget(k)'
        BY <1>3, <1>9, <3>1, <3>2, Facts
      <3>4. Least(buckets[k].seen, rateLimitBurst) \in Int
            /\ Least(buckets'[k].seen, rateLimitBurst)
                 = Grows(Least(buckets[k].seen, rateLimitBurst), rateLimitBurst)
        BY <1>6, <2>2, <3>1, Amounts DEF Least, Grows
      <3>. QED  BY <1>9, <3>2, <3>3, <3>4
    <2>. QED  BY <1>11, <2>1, <2>2 DEF Covered
  <1>15. ServerTypeOK'
    <2>1. PICK p : p = IF proc.phase = "draining" THEN [proc EXCEPT !.age = @ + 1] ELSE proc
      OBVIOUS
    <2>2. p \in [phase : {"starting", "serving", "draining", "exited"}, mode : AuthModes \cup {""},
               accepts : BOOLEAN, age : 0 .. shutdownTimeout, code : {0, 1}]
      <3>1. proc \in [phase : {"starting", "serving", "draining", "exited"}, mode : AuthModes \cup {""},
               accepts : BOOLEAN, age : 0 .. shutdownTimeout, code : {0, 1}]
        BY DEF ServerInv, ServerTypeOK
      <3>2. proc.age \in 0 .. shutdownTimeout
        BY <3>1
      <3>3. CASE proc.phase = "draining"
        <4>1. proc.age + 1 \in 0 .. shutdownTimeout
          BY <1>1, <3>2, <3>3, Amounts
        <4>2. PICK t : t = proc.age + 1
          OBVIOUS
        <4>3. p = [proc EXCEPT !.age = t]
          BY <2>1, <3>3, <4>2
        <4>. QED  BY <3>1, <4>1, <4>2, <4>3
      <3>4. CASE proc.phase # "draining"
        BY <2>1, <3>1, <3>4
      <3>. QED  BY <3>3, <3>4
    <2>3. env' \in Environments \cup {Forgotten} /\ cut' \in BOOLEAN
      BY <1>1 DEF ServerTypeOK, ServerInv
    <2>4. \A k \in Keys : eternal'[k] <= rateLimitBurst /\ late'[k] >= 0
      BY <1>9
    <2>5. proc' = p
      BY <1>1, <2>1
    <2>. QED  BY <1>7, <1>8, <1>10, <2>2, <2>3, <2>4, <2>5, TypesBack
  <1>16. CutByExit'
    BY <1>1, Facts DEF CutByExit
  <1>. QED  BY <1>10, <1>12, <1>13, <1>14, <1>15, <1>16 DEF ServerInv
-----------------------------------------------------------------------------
(* The steps of the process, and of requests outside the limiter.          *)
LEMMA ProcessKeeps ==
  ASSUME ServerInv, UNCHANGED limits, UNCHANGED cut, cut => proc' = proc,
         NEW p \in [phase : {"starting", "serving", "draining", "exited"}, mode : AuthModes \cup {""},
                    accepts : BOOLEAN, age : 0 .. shutdownTimeout, code : {0, 1}],
         proc' = p, env' \in Environments \cup {Forgotten}, reqs' = [r \in Requests |-> reqs'[r]],
         \A r \in Requests : reqs'[r] = reqs[r] \/ (RequestOK(reqs'[r]) /\ reqs'[r].phase # "limiter")
  PROVE  ServerInv'
  <1>1. /\ LimitsOK' /\ Apart' /\ JustSeen' /\ Covered'
        /\ buckets' \in [Keys -> BucketEntries] /\ tokens' \in [BucketIds -> 0 .. rateLimitBurst]
        /\ \A k \in Keys : eternal'[k] <= rateLimitBurst /\ late'[k] >= 0
    BY LimitsStay
  <1>2. cut' \in BOOLEAN
    BY DEF ServerInv, ServerTypeOK
  <1>3. ServerTypeOK'
    BY <1>1, <1>2, TypesBack
  <1>4. CutByExit'
    BY Facts DEF CutByExit
  <1>. QED  BY <1>1, <1>3, <1>4 DEF ServerInv

(* An exit: with requests under way only when its code is 1.               *)
LEMMA ExitKeeps ==
  ASSUME ServerInv, NEW code \in {0, 1}, Exits(code), code = 0 => Waited = {},
         env' \in Environments \cup {Forgotten}
  PROVE  ServerInv'
  <1>1. proc' = [proc EXCEPT !.phase = "exited", !.accepts = FALSE, !.code = code]
        /\ cut' = (\E r \in Requests : reqs[r].phase # "idle")
        /\ reqs' = [r \in Requests |-> Idle] /\ UNCHANGED limits
    BY DEF Exits
  <1>2. reqs' = [r \in Requests |-> reqs'[r]] /\ \A r \in Requests : reqs'[r] = Idle
    BY <1>1
  <1>3. /\ LimitsOK' /\ Apart' /\ JustSeen' /\ Covered'
        /\ buckets' \in [Keys -> BucketEntries] /\ tokens' \in [BucketIds -> 0 .. rateLimitBurst]
        /\ \A k \in Keys : eternal'[k] <= rateLimitBurst /\ late'[k] >= 0
    BY <1>1, <1>2, IdleOK, IdleFields, LimitsStay
  <1>4. proc \in [phase : {"starting", "serving", "draining", "exited"}, mode : AuthModes \cup {""},
                  accepts : BOOLEAN, age : 0 .. shutdownTimeout, code : {0, 1}]
    BY DEF ServerInv, ServerTypeOK
  <1>5. proc' \in [phase : {"starting", "serving", "draining", "exited"}, mode : AuthModes \cup {""},
                   accepts : BOOLEAN, age : 0 .. shutdownTimeout, code : {0, 1}]
        /\ proc'.phase = "exited" /\ proc'.code = code
    BY <1>1, <1>4
  <1>6. cut' \in BOOLEAN
    BY <1>1
  <1>7. ServerTypeOK'
    BY <1>3, <1>5, <1>6, TypesBack
  <1>8. cut' => code = 1
    BY <1>1 DEF Waited
  <1>9. CutByExit'
    BY <1>5, <1>8 DEF CutByExit
  <1>. QED  BY <1>3, <1>7, <1>9 DEF ServerInv

(* Every step.                                                             *)
LEMMA ServerInvStep == ServerInv /\ [ServerNext]_serverVars => ServerInv'
  <1>. SUFFICES ASSUME ServerInv, [ServerNext]_serverVars PROVE ServerInv'
    OBVIOUS
  <1>1. reqs = [r \in Requests |-> reqs[r]] /\ \A r \in Requests : RequestOK(reqs[r])
    BY Facts
  <1>2. proc \in [phase : {"starting", "serving", "draining", "exited"}, mode : AuthModes \cup {""},
                  accepts : BOOLEAN, age : 0 .. shutdownTimeout, code : {0, 1}]
        /\ env \in Environments \cup {Forgotten}
    BY DEF ServerInv, ServerTypeOK
  <1>3. cut => proc.phase = "exited"
    BY Facts DEF CutByExit
  <1>4. ASSUME StartFails PROVE ServerInv'
    BY <1>4, ExitKeeps DEF StartFails
  <1>5. ASSUME StartServing PROVE ServerInv'
    <2>1. PICK mode : mode = resolveAuthMode(env)
      OBVIOUS
    <2>2. Valid(env, mode) /\ proc' = [proc EXCEPT !.phase = "serving", !.mode = mode, !.accepts = TRUE]
          /\ proc.phase = "starting" /\ env' = Forgotten
          /\ reqs' = reqs /\ UNCHANGED limits /\ cut' = cut
      BY <1>5, <2>1 DEF StartServing
    <2>3. mode \in AuthModes
      BY <2>2 DEF Valid, AuthModes
    <2>4. proc' \in [phase : {"starting", "serving", "draining", "exited"}, mode : AuthModes \cup {""},
                     accepts : BOOLEAN, age : 0 .. shutdownTimeout, code : {0, 1}]
      BY <1>2, <2>2, <2>3
    <2>5. ~cut
      BY <1>3, <2>2
    <2>. QED  BY <1>1, <2>2, <2>4, <2>5, ProcessKeeps
  <1>6. ASSUME ListenFails PROVE ServerInv'
    <2>1. proc' \in [phase : {"starting", "serving", "draining", "exited"}, mode : AuthModes \cup {""},
                     accepts : BOOLEAN, age : 0 .. shutdownTimeout, code : {0, 1}]
      BY <1>2, <1>6 DEF ListenFails
    <2>2. ~cut /\ env' = env /\ reqs' = reqs /\ UNCHANGED limits /\ cut' = cut
      BY <1>3, <1>6 DEF ListenFails
    <2>. QED  BY <1>1, <1>2, <2>1, <2>2, ProcessKeeps
  <1>7. ASSUME Signal PROVE ServerInv'
    <2>1. proc' \in [phase : {"starting", "serving", "draining", "exited"}, mode : AuthModes \cup {""},
                     accepts : BOOLEAN, age : 0 .. shutdownTimeout, code : {0, 1}]
      BY <1>2, <1>7 DEF Signal
    <2>2. ~cut /\ env' = env /\ reqs' = reqs /\ UNCHANGED limits /\ cut' = cut
      BY <1>3, <1>7 DEF Signal
    <2>. QED  BY <1>1, <1>2, <2>1, <2>2, ProcessKeeps
  <1>8. ASSUME Drained PROVE ServerInv'
    BY <1>2, <1>8, ExitKeeps DEF Drained
  <1>9. ASSUME DrainGivesUp PROVE ServerInv'
    <2>1. Exits(1) /\ env' \in Environments \cup {Forgotten}
      BY <1>2, <1>9 DEF DrainGivesUp
    <2>. QED  BY <2>1, ExitKeeps
  <1>10. ASSUME NEW r \in Requests, ArrivePublic(r) PROVE ServerInv'
    <2>1. RunsIn(r, "public") /\ proc' = proc /\ env' = env /\ UNCHANGED limits /\ cut' = cut
          /\ "public" \in Kinds
      BY <1>10 DEF ArrivePublic
    <2>2. /\ reqs' = [q \in Requests |-> reqs'[q]]
          /\ \A q \in Requests : q # r => reqs'[q] = reqs[q]
          /\ RequestOK(reqs'[r]) /\ reqs'[r].phase # "limiter"
      BY <1>1, <2>1, RunsOK
    <2>3. \A q \in Requests : reqs'[q] = reqs[q] \/ (RequestOK(reqs'[q]) /\ reqs'[q].phase # "limiter")
      BY <2>2
    <2>. QED  BY <1>2, <2>1, <2>2, <2>3, ProcessKeeps
  <1>11. ASSUME NEW r \in Requests, Limit(r) \/ HandlerReturns(r) PROVE ServerInv'
    <2>1. reqs' = [reqs EXCEPT ![r] = Idle] /\ proc' = proc /\ env' = env /\ UNCHANGED limits /\ cut' = cut
      BY <1>11 DEF Limit, HandlerReturns
    <2>2. /\ reqs' = [q \in Requests |-> reqs'[q]]
          /\ \A q \in Requests : reqs'[q] = reqs[q] \/ reqs'[q] = Idle
      BY <1>1, <2>1
    <2>3. \A q \in Requests : reqs'[q] = reqs[q] \/ (RequestOK(reqs'[q]) /\ reqs'[q].phase # "limiter")
      BY <2>2, IdleOK, IdleFields
    <2>. QED  BY <1>2, <2>1, <2>2, <2>3, ProcessKeeps
  <1>12. ASSUME UNCHANGED serverVars PROVE ServerInv'
    <2>1. proc' = proc /\ env' = env /\ reqs' = reqs /\ UNCHANGED limits /\ cut' = cut
      BY <1>12 DEF serverVars, limits
    <2>. QED  BY <1>1, <1>2, <2>1, ProcessKeeps
  <1>. QED  BY <1>4, <1>5, <1>6, <1>7, <1>8, <1>9, <1>10, <1>11, <1>12, ArriveKeeps, AdmitKeeps,
               CollectKeeps, TickKeeps DEF ServerNext

(* The start.                                                              *)
LEMMA ServerInvInit == ServerInit => ServerInv
  <1>. SUFFICES ASSUME ServerInit PROVE ServerInv
    OBVIOUS
  <1>1. rateLimitBurst \in Int /\ 0 \in Int /\ rateLimitBurst \in 0 .. rateLimitBurst
        /\ 0 \in 0 .. shutdownTimeout
    BY Amounts
  <1>2. proc = [phase |-> "starting", mode |-> "", accepts |-> FALSE, age |-> 0, code |-> 0]
        /\ env \in Environments /\ reqs = [r \in Requests |-> Idle] /\ buckets = [k \in Keys |-> Unlisted]
        /\ tokens = [b \in BucketIds |-> rateLimitBurst] /\ eternal = [k \in Keys |-> rateLimitBurst]
        /\ late = [k \in Keys |-> 0] /\ cut = FALSE
    BY DEF ServerInit
  <1>3. \A r \in Requests : reqs[r] = Idle
    BY <1>2
  <1>4. \A k \in Keys : buckets[k] = Unlisted /\ eternal[k] = rateLimitBurst /\ late[k] = 0
    BY <1>2
  <1>5. LimitsOK
    <2>1. eternal \in [Keys -> Int] /\ late \in [Keys -> Int]
      BY <1>2, <1>1
    <2>. QED  BY <1>2, <1>3, <1>4, <2>1, IdleOK DEF LimitsOK
  <1>6. Unlisted.bucket = NoBucket /\ Unlisted \in BucketEntries
    BY Amounts DEF Unlisted, BucketEntries
  <1>7. Apart
    BY <1>3, <1>4, <1>6, IdleFields DEF Apart
  <1>8. JustSeen
    BY <1>3, IdleFields DEF JustSeen
  <1>9. Covered
    <2>1. \A k \in Keys : Budget(k) >= rateLimitBurst
      BY <1>4, Amounts DEF Budget
    <2>. QED  BY <1>4, <1>6, <2>1 DEF Covered
  <1>10. ServerTypeOK
    <2>1. proc \in [phase : {"starting", "serving", "draining", "exited"}, mode : AuthModes \cup {""},
                    accepts : BOOLEAN, age : 0 .. shutdownTimeout, code : {0, 1}]
      BY <1>1, <1>2
    <2>2. buckets \in [Keys -> [bucket : BucketIds \cup {NoBucket}, seen : 0 .. rateLimitIdleTimeout + 1]]
      BY <1>2, <1>6 DEF BucketEntries
    <2>3. tokens \in [BucketIds -> 0 .. rateLimitBurst]
      BY <1>1, <1>2
    <2>4. \A k \in Keys : eternal[k] <= rateLimitBurst /\ late[k] >= 0
      BY <1>4, Amounts
    <2>5. \A r \in Requests :
            /\ reqs[r].phase \in {"idle", "limiter", "handling", "failed"}
            /\ reqs[r].age \in 0 .. requestTimeout + 1 /\ reqs[r].bucket \in BucketIds \cup {NoBucket}
            /\ reqs[r].phase # "idle" => reqs[r].kind \in Kinds
      BY <1>5 DEF LimitsOK, RequestOK
    <2>6. env \in Environments \cup {Forgotten} /\ cut \in BOOLEAN
      BY <1>2
    <2>. QED  BY <2>1, <2>2, <2>3, <2>4, <2>5, <2>6 DEF ServerTypeOK
  <1>11. CutByExit
    BY <1>2 DEF CutByExit
  <1>. QED  BY <1>5, <1>7, <1>8, <1>9, <1>10, <1>11 DEF ServerInv

-----------------------------------------------------------------------------
(* The inductive invariant holds in every behaviour of the process.        *)
THEOREM ServerInvariant == ServerSpec => []ServerInv
  <1>. QED  BY ServerInvInit, ServerInvStep, PTL DEF ServerSpec

(* The types of the process, its requests and its limiter (main.go,        *)
(* ratelimit.go): in particular no bucket ever has fewer tokens than none. *)
THEOREM ServerTyped == ServerSpec => []ServerTypeOK
  <1>1. ServerInv => ServerTypeOK
    BY DEF ServerInv
  <1>. QED  BY <1>1, ServerInvariant, PTL

(* The limiter holds its rate (ratelimit.go, allow, gcLoop): dropping the  *)
(* buckets of those who are idle gives no one a token that the bucket,     *)
(* kept for ever, would not have given, for every burst, every idle time   *)
(* that is no shorter, and every interleaving with requests and janitor.   *)
THEOREM RateHolds == ServerSpec => []AtMostTheRate
  <1>1. ServerInv => AtMostTheRate
    <2>. SUFFICES ASSUME ServerInv, NEW k \in Keys PROVE eternal[k] + late[k] >= 0
      BY DEF AtMostTheRate
    <2>1. Budget(k) \in Int
      BY Facts DEF Budget
    <2>2. CASE buckets[k].bucket = NoBucket
      BY <2>1, <2>2, Facts, Amounts DEF Covered, Budget
    <2>3. CASE buckets[k].bucket # NoBucket
      <3>1. tokens[buckets[k].bucket] \in 0 .. rateLimitBurst
        BY <2>3, Facts DEF BucketEntries
      <3>2. tokens[buckets[k].bucket] <= Budget(k)
        BY <2>3, Facts DEF Covered
      <3>. QED  BY <2>1, <3>1, <3>2, Amounts DEF Budget
    <2>. QED  BY <2>2, <2>3
  <1>. QED  BY <1>1, ServerInvariant, PTL

(* An exit with code 0 cut no request off (main.go, Shutdown).             *)
THEOREM CleanExit == ServerSpec => []CleanExitCutsNothing
  <1>1. ServerInv => CleanExitCutsNothing
    BY DEF ServerInv, CutByExit, CleanExitCutsNothing
  <1>. QED  BY <1>1, ServerInvariant, PTL

(* A process that begins to serve has what its mode needs (config.go,      *)
(* resolveAuthMode, validateForMode): whatever the environment holds.      *)
THEOREM StartsSoundly == ServerSpec => ConfigSound
  <1>1. ASSUME ServerInv, [ServerNext]_serverVars, proc'.phase = "serving", proc.phase = "starting"
        PROVE  StartServing
    <2>1. proc \in [phase : {"starting", "serving", "draining", "exited"}, mode : AuthModes \cup {""},
                    accepts : BOOLEAN, age : 0 .. shutdownTimeout, code : {0, 1}]
      BY <1>1 DEF ServerInv, ServerTypeOK
    <2>2. ASSUME NEW code \in {0, 1}, Exits(code) PROVE FALSE
      BY <1>1, <2>1, <2>2 DEF Exits
    <2>3. ~StartFails /\ ~Drained /\ ~DrainGivesUp
      BY <2>2 DEF StartFails, Drained, DrainGivesUp
    <2>4. ~ListenFails /\ ~Signal /\ ~Tick
      BY <1>1 DEF ListenFails, Signal, Tick
    <2>5. proc' # proc
      BY <1>1
    <2>6. ~Collect /\ \A r \in Requests :
            ~ArrivePublic(r) /\ ~ArriveLimited(r) /\ ~Admit(r) /\ ~Limit(r) /\ ~HandlerReturns(r)
      BY <2>5 DEF Collect, ArrivePublic, ArriveLimited, Admit, Limit, HandlerReturns
    <2>7. ~UNCHANGED serverVars
      BY <2>5 DEF serverVars
    <2>. QED  BY <1>1, <2>3, <2>4, <2>6, <2>7 DEF ServerNext
  <1>2. ASSUME ServerInv, StartServing
        PROVE  /\ proc'.mode = "dev" <=> env.dev \/ env.mode = "dev"
               /\ proc'.mode # "dev" => env.secret = "real"
               /\ proc'.mode \in OIDCModes => env.issuer /\ env.client
               /\ env.mode \in AuthModes /\ ~env.dev => proc'.mode = env.mode
    <2>1. PICK mode : mode = resolveAuthMode(env)
      OBVIOUS
    <2>2. mode # NoMode /\ Valid(env, mode)
          /\ proc' = [proc EXCEPT !.phase = "serving", !.mode = mode, !.accepts = TRUE]
      BY <1>2, <2>1 DEF StartServing
    <2>3. env \in Environments \cup {Forgotten}
          /\ proc \in [phase : {"starting", "serving", "draining", "exited"}, mode : AuthModes \cup {""},
                       accepts : BOOLEAN, age : 0 .. shutdownTimeout, code : {0, 1}]
      BY <1>2 DEF ServerInv, ServerTypeOK
    <2>4. proc'.mode = mode
      BY <2>2, <2>3
    <2>5. env.dev \in BOOLEAN /\ env.issuer \in BOOLEAN /\ env.client \in BOOLEAN
      <3>1. CASE env \in Environments
        <4>1. \A e \in Environments : e.dev \in BOOLEAN /\ e.issuer \in BOOLEAN /\ e.client \in BOOLEAN
          BY ServerAssumption
        <4>. QED  BY <3>1, <4>1
      <3>2. CASE env = Forgotten
        BY <3>2 DEF Forgotten
      <3>. QED  BY <2>3, <3>1, <3>2
    <2>6. CASE env.dev
      <3>1. mode = "dev"
        BY <2>1, <2>6 DEF resolveAuthMode
      <3>. QED  BY <2>4, <2>6, <3>1 DEF OIDCModes
    <2>7. CASE ~env.dev /\ env.mode # ""
      <3>1. mode = env.mode /\ env.mode \in AuthModes
        BY <2>1, <2>2, <2>7 DEF resolveAuthMode
      <3>. QED  BY <2>2, <2>4, <2>7, <3>1 DEF Valid, SecretIsSound, validateOIDCConfig, OIDCModes, UploadModes
    <2>8. CASE ~env.dev /\ env.mode = ""
      <3>1. mode = "passthrough"
        BY <2>1, <2>2, <2>8 DEF resolveAuthMode
      <3>. QED  BY <2>2, <2>4, <2>8, <3>1
                DEF Valid, SecretIsSound, validateOIDCConfig, OIDCModes, UploadModes, AuthModes
    <2>. QED  BY <2>5, <2>6, <2>7, <2>8
  <1>3. ServerInv /\ [ServerNext]_serverVars =>
          (proc'.phase = "serving" /\ proc.phase = "starting" =>
             /\ proc'.mode = "dev" <=> env.dev \/ env.mode = "dev"
             /\ proc'.mode # "dev" => env.secret = "real"
             /\ proc'.mode \in OIDCModes => env.issuer /\ env.client
             /\ env.mode \in AuthModes /\ ~env.dev => proc'.mode = env.mode)
    BY <1>1, <1>2
  <1>. QED  BY <1>3, ServerInvariant, PTL DEF ServerSpec, ConfigSound

-----------------------------------------------------------------------------
(* Composition.  A step of the page and the server together is, to each    *)
(* component, a step of its own or none: what is proved of one holds of    *)
(* the whole.                                                              *)
THEOREM StreamsCompose == StreamsSpec => Spec /\ WatchSpec /\ ServerSpec
  <1>1. StreamsInit => Init /\ WatchInit /\ ServerInit
    BY DEF StreamsInit
  <1>2. ASSUME [StreamsNext]_pageVars
        PROVE  [Next]_vars /\ [WatchNext]_watchVars /\ [ServerNext]_serverVars
    <2>1. CASE UNCHANGED pageVars
      BY <2>1 DEF pageVars
    <2>2. CASE OfLogs(Next)
      BY <2>2 DEF OfLogs
    <2>3. CASE OfEvents(WatchNext)
      BY <2>3 DEF OfEvents
    <2>4. CASE OfServer(ServerNext)
      BY <2>4 DEF OfServer
    <2>. QED  BY <1>2, <2>1, <2>2, <2>3, <2>4 DEF StreamsNext
  <1>. QED  BY <1>1, <1>2, PTL DEF StreamsSpec, Spec, WatchSpec, ServerSpec

(* Every variable of the tabs and of the server has its type, however      *)
(* their steps interleave.                                                 *)
THEOREM StreamsTyped == StreamsSpec => []StreamsTypeOK
  <1>1. TailTypeOK /\ WatchTypeOK /\ ServerTypeOK => StreamsTypeOK
    BY DEF StreamsTypeOK
  <1>. QED  BY <1>1, StreamsCompose, TailTyped, WatchTyped, ServerTyped, PTL
=============================================================================
