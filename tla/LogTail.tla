------------------------------ MODULE LogTail ------------------------------
(***************************************************************************)
(* The Logs tab, static/ts/logs.ts, on top of module LogPump: a scrollback *)
(* that the server has rendered the end of the log into (page.go), one     *)
(* socket at a time whose chunks are appended to it, and retries after an  *)
(* abnormal close.  A new socket is a new request: what is left of the old *)
(* one's goroutines goes on unseen, and ends as LogPump shows.             *)
(***************************************************************************)
EXTENDS LogPump

CONSTANTS MAX_RECONNECT_ATTEMPTS,  \* 3 in the code
          initialTail,             \* the backfill of a first connect (500)
          appLogTailLines,         \* what a page is rendered with (500)
          MaxSockets               \* bound on the sockets opened

ASSUME LogTailAssumption ==
  /\ MAX_RECONNECT_ATTEMPTS \in Nat
  /\ initialTail \in Tails /\ 0 \in Tails
  /\ appLogTailLines \in Nat /\ initialTail <= appLogTailLines
  /\ MaxSockets \in Nat

VARIABLES
  socket,     \* activeSocket: none, connecting or open
  tail,       \* the ?tail= of the socket, or of the pending retry
  timer,      \* reconnectTimer is set
  attempts,   \* reconnectAttempts
  drawn,      \* the pod's Logs tab is in the DOM
  attached,   \* the scrollback in the DOM is the one the socket appends to
  shown,      \* the chunks in the scrollback of that tab
  saved,      \* the last chunk of the tab's snapshot in the history, 0 if none
  rendered,   \* history: the length of the part of shown that the server has
              \* rendered, if a socket with a backfill goes on from it, or 0
  resumed,    \* history: the lengths shown had when a socket was opened
  sockets     \* history: the sockets opened

domVars == <<drawn, attached, shown, saved>>
clientVars == <<socket, tail, timer, attempts, domVars>>
clientHistory == <<rendered, resumed, sockets>>
vars == <<pumpAll, clientVars, clientHistory>>

Init ==
  /\ PumpInit
  /\ socket = "none" /\ tail = 0 /\ timer = FALSE /\ attempts = 0
  /\ drawn = FALSE /\ attached = FALSE /\ shown = <<>> /\ saved = 0
  /\ rendered = 0 /\ resumed = {} /\ sockets = 0

-----------------------------------------------------------------------------
(* attach: disconnect first, which clears the timer, then a new socket.    *)
TimerCleared == FALSE

Attach(lines) ==
  /\ sockets < MaxSockets
  /\ sockets' = sockets + 1
  /\ socket' = "connecting"
  /\ attached' = TRUE
  /\ tail' = lines
  /\ timer' = TimerCleared
  /\ Fresh
  /\ UNCHANGED <<pod, saved>>

(* The user opens the Logs tab, or a swap renders it again: with the end   *)
(* of the log as it was when the page was rendered, some chunks ago.  The  *)
(* socket brings its own backfill, and nothing clears what is there.       *)
LogTail(seen) ==
  LET lines == IF seen < appLogTailLines THEN seen ELSE appLogTailLines
  IN  [i \in 1 .. lines |-> seen - lines + i]

Visit ==
  /\ attempts' = 0
  /\ drawn' = TRUE
  /\ \E seen \in 0 .. written : shown' = LogTail(seen)
  /\ rendered' = Len(shown')
  /\ resumed' = {Len(shown')}
  /\ Attach(initialTail)

(* A page that htmx replaces may be kept for Back and Forward.  Of the     *)
(* Logs tab the model keeps the last chunk.                                *)
Snapshot == IF shown = <<>> THEN saved ELSE Last(shown)

Undrawn ==
  /\ shown' = <<>>
  /\ rendered' = 0
  /\ resumed' = {}

Leave ==  \* disconnect, on a page without data-log-stream: also one that failed
  /\ drawn \/ socket # "none" \/ timer
  /\ drawn' = FALSE /\ attached' = FALSE
  /\ Undrawn
  /\ saved' \in {saved, Snapshot}
  /\ socket' = "none"
  /\ timer' = FALSE
  /\ peer' = FALSE
  /\ UNCHANGED <<pod, readerVars, writerVars, streamVars, conn, wire, watcher,
                 audit, tail, attempts, sockets>>

(* Back or Forward.  logs.ts does not listen to popstate and htmx restores *)
(* the body from its snapshot with no swap of #main-content: the socket    *)
(* and the timer of the page that was there stay, and the socket goes on   *)
(* appending to a scrollback that is out of the DOM.                       *)
Restore ==
  /\ attached' = FALSE
  /\ \/ drawn' = FALSE /\ Undrawn
     \/ /\ saved # 0
        /\ drawn' = TRUE
        /\ shown' = <<saved>>
        /\ rendered' = 0
        /\ resumed' = {}
  /\ saved' \in {saved, Snapshot}
  /\ UNCHANGED <<pumpAll, socket, tail, timer, attempts, sockets>>

OnOpen ==
  /\ socket = "connecting"
  /\ conn \in {"open", "internal error", "abnormal"}
  /\ socket' = "open"
  /\ attempts' = 0
  /\ UNCHANGED <<pumpAll, tail, timer, domVars, clientHistory>>

OnMessage ==
  /\ socket = "open"
  /\ wire # <<>>
  /\ shown' = IF attached THEN Append(shown, Head(wire)) ELSE shown
  /\ wire' = Tail(wire)
  /\ UNCHANGED <<pod, readerVars, writerVars, streamVars, conn, peer, watcher, audit,
                 socket, tail, timer, attempts, drawn, attached, saved, clientHistory>>

-----------------------------------------------------------------------------
(* A close the server did not announce, or a handshake it refused, has     *)
(* code 1006; code 1011 stops the retries.                                 *)
ClosesAbnormally ==
  \/ socket = "open" /\ (~peer \/ (conn = "abnormal" /\ wire = <<>>))
  \/ socket = "connecting" /\ (~peer \/ conn = "refused")

OnPermanentClose ==
  /\ socket = "open"
  /\ conn = "internal error"
  /\ socket' = "none"
  /\ UNCHANGED <<pumpAll, tail, timer, attempts, domVars, clientHistory>>

RetriesForEver == TRUE

MayRetry == attempts < MAX_RECONNECT_ATTEMPTS

GivesUpAfterRetries ==
  /\ ClosesAbnormally
  /\ ~MayRetry
  /\ socket' = "none"
  /\ UNCHANGED <<pumpAll, tail, timer, attempts, domVars, clientHistory>>

RetriesWithBackfill == initialTail

RetryTail == 0

OnAbnormalClose ==
  /\ ClosesAbnormally
  /\ MayRetry
  /\ socket' = "none"
  /\ timer' = TRUE
  /\ tail' = RetryTail
  /\ attempts' = attempts + 1
  /\ UNCHANGED <<pumpAll, domVars, clientHistory>>

(* scheduleReconnect's timer, on a page that has the same target, or not.  *)
TimerFires ==
  /\ timer
  /\ UNCHANGED <<attempts, drawn, shown>>
  /\ IF drawn
     THEN /\ resumed' = resumed \cup {Len(shown)}
          /\ rendered' = IF rendered = Len(shown) THEN 0 ELSE rendered
          /\ Attach(tail)
     ELSE /\ timer' = FALSE
          /\ UNCHANGED <<pumpAll, socket, tail, attached, saved, clientHistory>>

-----------------------------------------------------------------------------
Server ==
  /\ \/ Refuse \/ OpenFails \/ Open(tail)
     \/ Reader \/ Writer \/ PeerWatchEnds \/ World
  /\ sockets > 0
  /\ UNCHANGED <<clientVars, clientHistory>>

ConnectionLost == socket # "none" /\ PeerGoes /\ UNCHANGED <<clientVars, clientHistory>>

OnClose == OnPermanentClose \/ GivesUpAfterRetries \/ OnAbnormalClose

Next == Visit \/ Leave \/ Restore \/ OnOpen \/ OnMessage \/ OnClose \/ TimerFires
          \/ Server \/ ConnectionLost

Spec == Init /\ [][Next]_vars

(* The scheduler runs the server's goroutines; nothing is assumed of the   *)
(* browser or the pod.  Quiet: the step is none of the browser's.          *)
Quiet(step) == step /\ UNCHANGED <<clientVars, clientHistory>>

FairSpec ==
  Spec /\ WF_vars(Quiet(Reader)) /\ WF_vars(Quiet(Writer)) /\ WF_vars(Quiet(PeerWatchEnds))

-----------------------------------------------------------------------------
(* Every variable of the tab has its type.                                 *)
TailTypeOK ==
  /\ PumpTypeOK
  /\ socket \in {"none", "connecting", "open"}
  /\ tail \in Tails
  /\ timer \in BOOLEAN
  /\ attempts \in 0 .. MAX_RECONNECT_ATTEMPTS
  /\ {drawn, attached} \subseteq BOOLEAN
  /\ shown \in Seq(1 .. MaxLog) /\ saved \in 0 .. MaxLog
  /\ rendered \in Nat /\ resumed \subseteq Nat /\ sockets \in 0 .. MaxSockets

(* The scrollback never repeats or reorders the log, and misses a part of  *)
(* it only where a socket was opened, but for one place: the backfill of a *)
(* first socket repeats what the page was rendered with, and goes back no  *)
(* further than that.  A retry repeats nothing, whatever visits, restored  *)
(* pages and timers come before it.  A pending retry and a live socket     *)
(* exclude each other: coming back to the tab before the timer fires does  *)
(* not leave two streams to write to it.                                   *)
ScrollbackInOrder ==
  /\ \A i \in 1 .. Len(shown) - 1 :
       /\ shown[i] < shown[i + 1] \/ (i = rendered /\ shown[1] <= shown[i + 1])
       /\ i \notin resumed => shown[i + 1] = shown[i] + 1
  /\ timer => socket = "none"
=============================================================================
