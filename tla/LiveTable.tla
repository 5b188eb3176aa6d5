----------------------------- MODULE LiveTable -----------------------------
(***************************************************************************)
(* One tenant page kept live: the cluster, the watch loop that feeds the   *)
(* watcher (internal/k8s/watcher.go), the SSE handlers that serve the page *)
(* (internal/api/sse.go), the connection, and the browser's EventSource    *)
(* and reducer (static/ts/sse.ts).  It composes module Watcher with both   *)
(* of its ends.                                                            *)
(*                                                                         *)
(* The page shows no filter or sort, so every row change goes through the  *)
(* reducer and none through a refetch of the fragment.                     *)
(***************************************************************************)
EXTENDS Watcher, SequencesExt, Lists

CONSTANTS Home,      \* the tenant namespace the page shows
          Apps,      \* application names
          Statuses,  \* what a row shows of a live application
          Absent,    \* no such application, no such row
          WireSize,  \* frames a connection buffers before a write blocks
          HeldSize   \* older tables that may yet be drawn

ASSUME LiveTableAssumption ==
  /\ Home \in Namespaces
  /\ IsFiniteSet(Apps)
  /\ Absent \notin Statuses
  /\ WireSize \in Nat \ {0}
  /\ HeldSize \in Nat
  /\ Changes = [op : {"added", "modified", "deleted"}, app : Apps,
                status : Statuses \cup {Absent}]

VARIABLES
  objects,    \* the HelmReleases of Home in the cluster
  watchOpen,  \* watchLoop has an open watch
  kube,       \* the changes that watch has yet to hand to processEvents
  source,     \* the page's EventSource: none yet, connecting, open, or
              \* reconnecting after it was open
  lastID,     \* its last event ID; 0 when it has none to send
  conn,       \* the channel of the handler at the other end, if any
  wire,       \* frames on their way to the browser
  rows,       \* the status shown for each application
  pending,    \* pendingDeletions: names under a delete window
  held        \* tables that may yet be drawn: lists the server has read and
              \* not delivered, snapshots htmx keeps for Back and Forward

clusterVars == <<objects, watchOpen, kube>>
browserVars == <<source, lastID, conn, wire, rows, pending, held>>
tableVars   == <<vars, clusterVars, browserVars>>

Change(op, app, status) == [op |-> op, app |-> app, status |-> status]

TableInit ==
  /\ Init
  /\ objects = [a \in Apps |-> Absent]
  /\ watchOpen = FALSE
  /\ kube = <<>>
  /\ source = "none"
  /\ lastID = 0
  /\ conn = NoChan
  /\ wire = <<>>
  /\ rows = objects
  /\ pending = {}
  /\ held = {}

-----------------------------------------------------------------------------
(* The cluster.  Its changes and the breaks of the watch are bounded so    *)
(* that a reopened watch can still hand over every object.                 *)
Room == nextEventID + Len(kube) + Cardinality(Apps) <= MaxEvents

ChangeObject(op, a, status) ==
  /\ Room
  /\ objects' = [objects EXCEPT ![a] = status]
  /\ kube' = IF watchOpen THEN Append(kube, Change(op, a, status)) ELSE kube
  /\ UNCHANGED <<vars, watchOpen, browserVars>>

CreateObject(a) == /\ objects[a] = Absent
                   /\ \E s \in Statuses : ChangeObject("added", a, s)

ModifyObject(a) == /\ objects[a] # Absent
                   /\ \E s \in Statuses \ {objects[a]} : ChangeObject("modified", a, s)

RemoveObject(a) == /\ objects[a] # Absent
                   /\ ChangeObject("deleted", a, Absent)

(* A watch opened without a resource version starts with an ADDED event    *)
(* for every object that exists.                                           *)
Relist == LET live == {a \in Apps : objects[a] # Absent}
          IN  SetToSeq({Change("added", a, objects[a]) : a \in live})

OpenWatch ==
  /\ up
  /\ ~watchOpen
  /\ fan = Idle
  /\ watchOpen' = TRUE
  /\ kube' = Relist
  /\ UNCHANGED <<vars, objects, browserVars>>

BreakWatch ==
  /\ watchOpen
  /\ Room
  /\ watchOpen' = FALSE
  /\ kube' = <<>>
  /\ UNCHANGED <<vars, objects, browserVars>>

(* processEvents hands the next change to handleEvent. *)
HandleEvent ==
  /\ kube # <<>>
  /\ Publish(Home, Head(kube))
  /\ kube' = Tail(kube)
  /\ UNCHANGED <<objects, watchOpen, browserVars>>

Fanout == FanoutStep /\ up' /\ UNCHANGED <<clusterVars, browserVars>>

-----------------------------------------------------------------------------
(* What becomes a table later: the tenant's applications as a request has  *)
(* listed them, and the rows of a page that htmx is about to replace.  The *)
(* oldest may be forgotten: a request that fails, a snapshot pushed out.   *)
Keep(table) ==
  /\ \E kept \in SUBSET held : held' = kept \cup {table}
  /\ Cardinality(held') <= HeldSize
  /\ UNCHANGED <<vars, clusterVars, source, lastID, conn, wire, rows, pending>>

ListApps == Keep(objects)

SaveSnapshot == Keep(rows)

(* What a table may be drawn from: such a list or snapshot, a list that is *)
(* drawn before anything else happens, or the empty one of a list that     *)
(* failed (buildTenantPageData drops the error).                           *)
Drawable == held \cup {objects, [a \in Apps |-> Absent]}

(* The whole document: its script starts with no EventSource and no        *)
(* pending deletions.                                                      *)
LoadPage ==
  /\ rows' \in Drawable
  /\ source' = "none"
  /\ lastID' = 0
  /\ conn' = NoChan
  /\ wire' = <<>>
  /\ pending' = {}
  /\ UNCHANGED <<vars, clusterVars, held>>

(* Only #main-content or the history's copy of the body: the answer to a   *)
(* create or an update, a link inside the tenant, Back, Forward.           *)
(* syncFromLocation finds the tenant it is connected to and keeps the      *)
(* stream, with the frames under way and the pending deletions.  While the *)
(* table is off the page nobody sees the rows, and it is drawn on return.  *)
Redraw ==
  /\ rows' \in Drawable
  /\ source' = IF source = "none" THEN "connecting" ELSE source
  /\ UNCHANGED <<vars, clusterVars, lastID, conn, wire, pending, held>>

(* syncFromLocation at a page of another tenant, or of none: disconnect(). *)
LeaveTenant ==
  /\ source # "none"
  /\ source' = "none"
  /\ lastID' = 0
  /\ conn' = NoChan
  /\ wire' = <<>>
  /\ UNCHANGED <<vars, clusterVars, rows, pending, held>>

(* initSSE, and connect() with a new EventSource. *)
OpenSource ==
  /\ source = "none"
  /\ source' = "connecting"
  /\ UNCHANGED <<vars, clusterVars, lastID, conn, wire, rows, pending, held>>

(* The request passes RequireAuth and authorizeTenant, and the handler     *)
(* subscribes with the ID the browser sent.                                *)
Stream(c) ==
  /\ source \in {"connecting", "reconnecting"}
  /\ Subscribe(c, Home, lastID)
  /\ source' = "open"
  /\ conn' = c
  /\ UNCHANGED <<clusterVars, lastID, wire, rows, pending, held>>

(* Any answer but a stream closes the EventSource for good: onerror waits  *)
(* five seconds and makes a new one, which has no last event ID.           *)
Refuse ==
  /\ source \in {"connecting", "reconnecting"}
  /\ source' = "connecting"
  /\ lastID' = 0
  /\ UNCHANGED <<vars, clusterVars, conn, wire, rows, pending, held>>

(* writeEvent, of the missed slice or of the channel.  A handler whose     *)
(* client is gone writes to nobody until it notices.                       *)
Write(c, evt) ==
  IF c = conn
  THEN Len(wire) < WireSize /\ wire' = Append(wire, evt)
  ELSE UNCHANGED wire

WriteEvent(c) ==
  /\ \/ /\ TakeMissed(c)
        /\ \E i \in DOMAIN missed[c] \ DOMAIN missed'[c] : Write(c, missed[c][i])
     \/ /\ Receive(c)
        /\ Write(c, Head(chans[c]))
  /\ UNCHANGED <<clusterVars, source, lastID, conn, rows, pending, held>>

(* The handler returns: its deadline, a failed write or a cancelled        *)
(* request.  What it wrote may still arrive.                               *)
EndStream(c) ==
  /\ Unsubscribe(c)
  /\ conn' = IF c = conn THEN NoChan ELSE conn
  /\ UNCHANGED <<clusterVars, source, lastID, wire, rows, pending, held>>

(* The browser loses the connection and reconnects by itself, sending its  *)
(* last event ID.                                                          *)
LoseConnection ==
  /\ source = "open"
  /\ source' = "reconnecting"
  /\ conn' = NoChan
  /\ wire' = <<>>
  /\ UNCHANGED <<vars, clusterVars, lastID, rows, pending, held>>

-----------------------------------------------------------------------------
(* applyChange.  The browser has stored the frame's ID whatever the        *)
(* reducer then does with the frame.                                       *)
Suppressed(change) == change.op # "deleted" /\ change.app \in pending

Apply(change, table) ==
  [table EXCEPT ![change.app] = IF change.op = "deleted" THEN Absent ELSE change.status]

(* A frame is dispatched when its blank line arrives, not, as in this slip,*)
(* when the next frame begins.                                             *)
DeliverWhenNextBegins ==
  /\ source = "open"
  /\ Len(wire) > 1
  /\ lastID' = Head(wire).EventID
  /\ rows' = Apply(Head(wire).change, rows)
  /\ wire' = Tail(wire)
  /\ UNCHANGED <<vars, clusterVars, source, conn, pending, held>>

DeliverFrame ==
  /\ source = "open"
  /\ wire # <<>>
  /\ LET evt == Head(wire)
     IN  /\ lastID' = evt.EventID
         /\ rows' = IF Suppressed(evt.change) THEN rows ELSE Apply(evt.change, rows)
         /\ pending' = IF evt.change.op = "deleted" THEN pending \ {evt.change.app}
                                                    ELSE pending
  /\ wire' = Tail(wire)
  /\ UNCHANGED <<vars, clusterVars, source, conn, held>>

(* The user deletes an application: notePendingDelete runs before the      *)
(* request, and a success response takes the row away.  The controller     *)
(* removes the HelmRelease later, or the request failed and it never does. *)
UserDelete(a) ==
  /\ rows[a] # Absent
  /\ pending' = pending \cup {a}
  /\ rows' \in {rows, [rows EXCEPT ![a] = Absent]}
  /\ UNCHANGED <<vars, clusterVars, source, lastID, conn, wire, held>>

(* PENDING_DELETE_WINDOW_MS elapses. *)
WindowEnds(a) ==
  /\ a \in pending
  /\ pending' = pending \ {a}
  /\ UNCHANGED <<vars, clusterVars, source, lastID, conn, wire, rows, held>>

-----------------------------------------------------------------------------
(* The process dies, its watch and its connections with it.                *)
Die ==
  /\ PanicOnSend \/ FatalMapAccess \/ Kill
  /\ watchOpen' = FALSE
  /\ kube' = <<>>
  /\ conn' = NoChan
  /\ UNCHANGED <<objects, source, lastID, wire, rows, pending, held>>

Reborn == Restart /\ UNCHANGED <<clusterVars, browserVars>>

ClusterNext == \E a \in Apps : CreateObject(a) \/ ModifyObject(a) \/ RemoveObject(a)

BrowserNext == \/ ListApps \/ SaveSnapshot \/ LoadPage \/ Redraw \/ LeaveTenant
               \/ OpenSource \/ Refuse \/ LoseConnection \/ DeliverFrame
               \/ \E a \in Apps : UserDelete(a) \/ WindowEnds(a)

ServerNext == \/ OpenWatch \/ BreakWatch \/ HandleEvent \/ Fanout \/ Die \/ Reborn
              \/ \E c \in Chans : Stream(c) \/ WriteEvent(c) \/ EndStream(c)

TableNext == ClusterNext \/ BrowserNext \/ ServerNext

(* The watch loop retries every two seconds for ever and its goroutine     *)
(* runs; the browser delivers what arrives and its timers fire.            *)
TableFairness ==
  /\ WF_tableVars(OpenWatch)
  /\ WF_tableVars(HandleEvent)
  /\ WF_tableVars(Fanout \/ (PanicOnSend /\ Die))
  /\ WF_tableVars(DeliverFrame)
  /\ \A a \in Apps : WF_tableVars(WindowEnds(a))

(* So do the handlers' goroutines, while their clients read.  The fan-out  *)
(* must not count on that.                                                 *)
HandlersWrite == \A c \in Chans : WF_tableVars(WriteEvent(c))

TableSpec == TableInit /\ [][TableNext]_tableVars

FairTableSpec == TableSpec /\ TableFairness

-----------------------------------------------------------------------------
(* Every variable of the composition has its type. *)
TableTypeOK ==
  /\ TypeOK
  /\ objects \in [Apps -> Statuses \cup {Absent}]
  /\ watchOpen \in BOOLEAN
  /\ kube \in Seq(Changes)
  /\ source \in {"none", "connecting", "open", "reconnecting"}
  /\ lastID \in 0 .. MaxEvents
  /\ conn \in Chans \cup {NoChan}
  /\ wire \in Seq(Events) /\ Len(wire) <= WireSize
  /\ rows \in [Apps -> Statuses \cup {Absent}]
  /\ pending \subseteq Apps
  /\ held \subseteq [Apps -> Statuses \cup {Absent}]

(* What is on its way to the page, in the order it will be applied: frames *)
(* on the wire; what the handler still has or the fan-out is about to give *)
(* it, or else what a reconnect would replay; changes not published yet.   *)
Slice(f) == Picked(f, DOMAIN f)

FromHandler(c) ==
  Slice(missed[c]) \o chans[c] \o (IF c = fan.sub \/ c \in fan.todo THEN <<fan.evt>> ELSE <<>>)

ReplayFrom(id) == IF id > 0 THEN Slice(Since(buffers[Home], id)) ELSE <<>>

ResumeID == IF wire = <<>> THEN lastID ELSE Last(wire).EventID

InFlight == wire \o (IF conn # NoChan THEN FromHandler(conn) ELSE ReplayFrom(ResumeID))

Upstream == IF watchOpen THEN kube ELSE Relist

ChangesOf(evts) == [i \in DOMAIN evts |-> evts[i].change]

ApplyAll(table, changes) ==
  LET applied[i \in 0 .. Len(changes)] ==
        IF i = 0 THEN table ELSE Apply(changes[i], applied[i - 1])
  IN  applied[Len(changes)]

Outcome == ApplyAll(rows, ChangesOf(InFlight) \o Upstream)

(* The row of a is stale for good, or until another change of a: nothing   *)
(* on its way would make it show what the cluster holds.                   *)
Stale(a) == Outcome[a] # objects[a]

(* A client that resumes after id gets everything published since: the     *)
(* process did stamp id, and the ring has not rotated past it.             *)
Covered(id) ==
  /\ 0 < id /\ id <= nextEventID
  /\ \A k \in DOMAIN published[Home] :
       published[Home][k].EventID > id =>
         \E i \in DOMAIN Since(buffers[Home], id) :
            Since(buffers[Home], id)[i] = published[Home][k]

(* The ways a row may become stale, each a step of the code: no watch is   *)
(* open to report a deletion; the page is left, or an event is published,  *)
(* while no handler serves the page and a replay would not cover it (nor   *)
(* does it cover the repeat of an event the page has had, nor a frame that *)
(* a process had sent before it died); the page's channel is full; the     *)
(* delete window hides the event, or the delete the row; the rows are      *)
(* drawn from a list or a snapshot that is older than the frames the page  *)
(* has had, and the stream that is kept does not send them again.          *)
Ghost(a) ==
  /\ \E k \in DOMAIN published[Home] : published[Home][k].change.app = a
  /\ ApplyAll(rows, ChangesOf(published[Home]) \o Upstream)[a] # objects[a]

LostInWatchGap == ~watchOpen' /\ (watchOpen \/ objects' # objects)

LostWithoutReplay ==
  /\ conn' = NoChan
  /\ conn # NoChan \/ source' # source \/ nextEventID' # nextEventID
  /\ \/ ~Covered(ResumeID)'
     \/ ResumeID > nextEventID
     \/ \E i \in Len(wire') + 1 .. Len(InFlight) :
          InFlight[i] \notin Range(Since(buffers[Home], ResumeID)')

LostByDrop == conn # NoChan /\ Drop(conn)

LostByWindow(a) ==
  \/ DeliverFrame /\ Head(wire).change.app = a /\ Suppressed(Head(wire).change)
  \/ UserDelete(a)

LostByRedraw(a) == (LoadPage \/ Redraw) /\ rows'[a] # objects[a]

(* A page that would have ended up right never loses its way but for one   *)
(* of those: whatever interleaves, Subscribe, replay, fan-out, reconnects, *)
(* redraws and the reducer lose, reorder and resurrect nothing.            *)
StaleOnlyByNamedLoss ==
  [][\A a \in Apps : Stale(a)' =>
       \/ Stale(a) \/ Ghost(a)'
       \/ LostInWatchGap \/ LostWithoutReplay \/ LostByDrop
       \/ LostByWindow(a) \/ LostByRedraw(a)]_tableVars

(* While the watch and the page's stream stay open, the page keeps coming  *)
(* to show the cluster, row by row, unless the row is stale: nothing gets  *)
(* stuck in the loop, a slice, a channel or a socket.                      *)
Converges ==
  HandlersWrite =>
  \A a \in Apps :
    <>[](conn # NoChan /\ watchOpen) => []<>(rows[a] = objects[a] \/ Stale(a))

(* The comment on pumpEvents: what happens while the browser reconnects is *)
(* replayed, so the user sees no data loss.                                *)
ReconnectLosesNothing ==
  [][source = "reconnecting" /\ HandleEvent =>
       \A a \in Apps : Stale(a)' => Stale(a)]_tableVars
=============================================================================
