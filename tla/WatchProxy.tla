----------------------------- MODULE WatchProxy -----------------------------
(***************************************************************************)
(* The Events tab of an application: the list it is rendered from          *)
(* (internal/k8s/events.go), the watch proxied under the user's            *)
(* credentials (internal/api/sse_watch.go, internal/k8s/watchproxy.go) and *)
(* the browser's reducer (static/ts/watch.ts).                             *)
(*                                                                         *)
(* The version of a cluster event is the time it was last seen at.         *)
(***************************************************************************)
EXTENDS Integers, Sequences, SequencesExt, FiniteSets

CONSTANTS ClusterEvents,  \* the names of the cluster's events
          Apps, NoApp,    \* the pages with an Events tab, and any other page
          Derived,        \* <<event, app>>: its object's name derives from the app's
          Transition,     \* the (object, reason) of each event
          appEventLimit,  \* the length of the list a page is rendered with
          MaxClock        \* bound on the changes of the cluster

ASSUME WatchProxyAssumption ==
  /\ NoApp \notin Apps
  /\ IsFiniteSet(ClusterEvents)
  /\ Derived \subseteq ClusterEvents \X Apps
  /\ DOMAIN Transition = ClusterEvents
  /\ appEventLimit \in Nat \ {0} /\ MaxClock \in Nat

VARIABLES
  clock,       \* the changes so far
  cluster,     \* the version of each event, Unborn or Deleted
  page,        \* the application whose Events tab is in the DOM
  rows,        \* the version each row of the tab shows, or NoRow
  loading,     \* the response of a page load that is under way, and for whom
  kept,        \* an Events tab in the history, as it was when it was left
  source,      \* the EventSource: none, connecting or open
  subscribed,  \* the application the EventSource or the retry is for
  retryTimer,  \* reconnectTimer is set
  watch,       \* the server has a watch open for the EventSource
  feed,        \* the events in the watch's ResultChan
  frames,      \* the frames on the wire
  restored,    \* history: the page in the DOM came with Back or Forward
  lost         \* history: the rows a named loss has left stale

streamOf == <<source, subscribed, retryTimer, watch, feed, frames>>
clusterVars == <<clock, cluster>>
pageOf == <<page, rows, kept, restored>>
watchVars == <<clusterVars, pageOf, loading, streamOf, lost>>

Unborn == 0
Deleted == -1
NoRow == 0
NoRows == [e \in ClusterEvents |-> NoRow]
NoLoad == [app |-> NoApp, list |-> NoRows, by |-> "none"]
Blank == [app |-> NoApp, list |-> NoRows]   \* a page without an Events tab

Frames == [op : {"added", "modified", "removed"}, name : ClusterEvents, version : 0 .. MaxClock]

WatchInit ==
  /\ clock = 0 /\ cluster = [e \in ClusterEvents |-> Unborn]
  /\ page = NoApp /\ rows = NoRows /\ loading = NoLoad /\ kept = Blank /\ restored = FALSE
  /\ source = "none" /\ subscribed = NoApp /\ retryTimer = FALSE
  /\ watch = FALSE /\ feed = <<>> /\ frames = <<>>
  /\ lost = {}

-----------------------------------------------------------------------------
Present(e) == cluster[e] > 0

(* NameDerivedFromRelease, of the object the event is about.               *)
Belonging(app) == {e \in ClusterEvents : <<e, app>> \in Derived}

(* ListForObject: the latest event of each transition, then the newest.    *)
Representatives(app) ==
  {e \in Belonging(app) :
     /\ Present(e)
     /\ \A f \in Belonging(app) : Transition[f] = Transition[e] => cluster[f] <= cluster[e]}

Listed(app) ==
  LET reps == Representatives(app)
  IN  {e \in reps : Cardinality({f \in reps : cluster[f] > cluster[e]}) < appEventLimit}

ListForObject(app) ==
  [e \in ClusterEvents |-> IF e \in Listed(app) THEN cluster[e] ELSE NoRow]

(* What a row will show when everything on its way has been applied.       *)
Coming(e) ==
  LET coming == frames \o feed
      mine == {i \in DOMAIN coming : coming[i].name = e}
  IN  IF mine = {} THEN rows[e] ELSE coming[Max(mine)].version

Shows(e) == IF Present(e) THEN cluster[e] ELSE NoRow

-----------------------------------------------------------------------------
(* The cluster; an open watch sees each change.  A row shows the event as  *)
(* it was when it was rendered; the frame of a removal carries no row.     *)
Frame(op, e, version) ==
  [op |-> op, name |-> e, version |-> IF op = "removed" THEN NoRow ELSE version]

Change(e, op, version) ==
  /\ clock < MaxClock
  /\ clock' = clock + 1
  /\ cluster' = [cluster EXCEPT ![e] = version]
  /\ feed' = IF watch THEN Append(feed, Frame(op, e, version)) ELSE feed
  /\ UNCHANGED <<pageOf, loading, source, subscribed, retryTimer, watch, frames, lost>>

ClusterStep ==
  \E e \in ClusterEvents :
    \/ cluster[e] = Unborn /\ Change(e, "added", clock + 1)
    \/ Present(e) /\ Change(e, "modified", clock + 1)
    \/ Present(e) /\ Change(e, "removed", Deleted)

-----------------------------------------------------------------------------
(* The server: the access review, then the watch from the cluster's present*)
(* state, which opens with one ADDED for all that exists, in any order.    *)
Authorize == {"allowed", "denied", "probe failed", "no client"}

Status(review) ==
  CASE review = "allowed" -> 200
    [] review = "denied" -> 403
    [] review = "probe failed" -> 503
    [] review = "no client" -> 500

RefuseStream ==
  /\ source = "connecting"
  /\ \E review \in Authorize : Status(review) # 200
  /\ source' = "none"          \* EventSource is CLOSED: onerror
  /\ retryTimer' = TRUE
  /\ UNCHANGED <<clusterVars, pageOf, loading, subscribed, watch, feed, frames, lost>>

Backlog ==
  {[i \in DOMAIN existing |-> Frame("added", existing[i], cluster[existing[i]])] :
     existing \in SetToSeqs({e \in ClusterEvents : Present(e)})}

AcceptStream ==
  /\ source = "connecting"
  /\ \E review \in Authorize : Status(review) = 200
  /\ source' = "open"
  /\ \/ /\ watch' = TRUE
        /\ feed' \in Backlog
        /\ lost' = {e \in ClusterEvents : rows[e] # NoRow /\ ~Present(e)}  \* nothing says it is gone
     \/ UNCHANGED <<watch, feed, lost>>  \* the watch does not open, after the 200
  /\ UNCHANGED <<clusterVars, pageOf, loading, subscribed, retryTimer, frames>>

(* forwardEvent, with the filter of the page's ?object=.                   *)
Unfiltered(e) == TRUE

InScope(e) == e \in Belonging(subscribed)

SkipsDeletes(op) == op # "removed"

SseOp(op) == op \in {"added", "modified", "removed"}

ForwardEvent ==
  /\ watch
  /\ feed # <<>>
  /\ LET event == Head(feed)
     IN  frames' = IF SseOp(event.op) /\ InScope(event.name) THEN Append(frames, event) ELSE frames
  /\ feed' = Tail(feed)
  /\ UNCHANGED <<clusterVars, pageOf, loading, source, subscribed, retryTimer, watch, lost>>

(* The watch ends, its age limit passes, or a write fails.                 *)
WatchEnds ==
  /\ watch
  /\ watch' = FALSE
  /\ feed' = <<>>
  /\ UNCHANGED <<clusterVars, pageOf, loading, source, subscribed, retryTimer, frames, lost>>

-----------------------------------------------------------------------------
(* The browser.                                                            *)
Reconnect ==    \* EventSource's own, after a response that ended
  /\ source = "open"
  /\ ~watch
  /\ source' = "connecting"
  /\ frames' = <<>>
  /\ UNCHANGED <<clusterVars, pageOf, loading, subscribed, retryTimer, watch, feed, lost>>

DispatchedByTheNext == Len(frames) > 1

Dispatched == frames # <<>>

HandleMessage ==
  /\ source = "open"
  /\ Dispatched
  /\ rows' = IF page = NoApp THEN rows
             ELSE [rows EXCEPT ![Head(frames).name] = Head(frames).version]
  /\ lost' = lost \ {Head(frames).name}
  /\ frames' = Tail(frames)
  /\ UNCHANGED <<clusterVars, page, kept, restored, loading, source, subscribed, retryTimer,
                 watch, feed>>

(* disconnect and connect: the old stream and the timer go first.          *)
Connect(app) ==
  /\ source' = IF app = NoApp THEN "none" ELSE "connecting"
  /\ subscribed' = app
  /\ retryTimer' = FALSE
  /\ watch' = FALSE /\ feed' = <<>> /\ frames' = <<>>

RetryFires ==
  /\ retryTimer
  /\ IF subscribed = page
     THEN Connect(page)
     ELSE retryTimer' = FALSE /\ UNCHANGED <<source, subscribed, watch, feed, frames>>
  /\ UNCHANGED <<clusterVars, pageOf, loading, lost>>

(* The server renders a page from a list of its own, empty if that fails.  *)
Load(by) ==
  \E app \in Apps \cup {NoApp} :
    \E list \in {ListForObject(app), NoRows} :
      loading' = [app |-> app, list |-> list, by |-> by]

Navigate == Load("swap") /\ UNCHANGED <<clusterVars, pageOf, streamOf, lost>>

(* syncFromDOM: a stream for the same target stays.                        *)
SameTarget(app) == source # "none" /\ subscribed = app

SyncFromDOM(app) == IF SameTarget(app) THEN UNCHANGED streamOf ELSE Connect(app)

(* htmx keeps the page it is about to replace, or not.                     *)
SaveCurrentPage ==
  kept' \in {kept} \cup (IF page = NoApp THEN {} ELSE {[app |-> page, list |-> rows]})

Draw(entry) ==
  /\ page' = entry.app
  /\ rows' = entry.list
  /\ lost' = IF watch' THEN {e \in Belonging(page') : Coming(e)' # Shows(e)} ELSE {}
  /\ UNCHANGED clusterVars

(* htmx:afterSwap of the main content.                                     *)
Swap ==
  /\ loading.by = "swap"
  /\ SyncFromDOM(loading.app)
  /\ Draw(loading)
  /\ SaveCurrentPage
  /\ restored' = FALSE
  /\ loading' = NoLoad

(* Back or Forward: our listener looks at the page that is still there.    *)
(* Then htmx restores the page of the history, at once or from the server, *)
(* or leaves an entry alone that it has not made; what it restores is no   *)
(* swap of the main content, and nothing looks at the page again.          *)
PopState ==
  /\ SyncFromDOM(page)
  /\ \/ /\ \E entry \in {kept, Blank} : Draw(entry)
        /\ SaveCurrentPage
        /\ restored' = TRUE
        /\ UNCHANGED loading
     \/ /\ Load("history")
        /\ SaveCurrentPage
        /\ UNCHANGED <<clusterVars, page, rows, restored, lost>>
     \/ UNCHANGED <<clusterVars, pageOf, loading, lost>>

HistoryLoad ==
  /\ loading.by = "history"
  /\ UNCHANGED streamOf
  /\ Draw(loading)
  /\ restored' = TRUE
  /\ loading' = NoLoad
  /\ UNCHANGED kept

WatchNext ==
  \/ ClusterStep
  \/ RefuseStream \/ AcceptStream \/ ForwardEvent \/ WatchEnds
  \/ Reconnect \/ HandleMessage \/ RetryFires
  \/ Navigate \/ Swap \/ PopState \/ HistoryLoad

WatchSpec == WatchInit /\ [][WatchNext]_watchVars

-----------------------------------------------------------------------------
(* Every variable of the Events tab has its type.                          *)
WatchTypeOK ==
  /\ clock \in 0 .. MaxClock
  /\ cluster \in [ClusterEvents -> -1 .. MaxClock]
  /\ {page, subscribed, loading.app, kept.app} \subseteq Apps \cup {NoApp}
  /\ {rows, loading.list, kept.list} \subseteq [ClusterEvents -> 0 .. MaxClock]
  /\ loading.by \in {"none", "swap", "history"}
  /\ source \in {"none", "connecting", "open"}
  /\ {retryTimer, watch, restored} \subseteq BOOLEAN
  /\ feed \in Seq(Frames) /\ frames \in Seq(Frames)
  /\ lost \subseteq ClusterEvents

(* The Events tab of an application never shows a row about another one's  *)
(* objects, whatever retries, late frames and navigations come before it,  *)
(* until Back or Forward puts a page there whose stream it may not have.   *)
OnlyOwnRows ==
  \A e \in ClusterEvents : rows[e] # NoRow => <<e, page>> \in Derived \/ restored

(* While the watch of the page is open every row of the tab is what the    *)
(* cluster holds, or is about to be, except for the named losses: an event *)
(* deleted while no watch ran, and a page drawn from an older list or from *)
(* the history under a stream it keeps.  A swap leaves a page that has an  *)
(* Events tab with a stream, or about to try again, and no refusal, retry  *)
(* or Back to an entry that is not restored takes it away.                 *)
RowsStaleOnlyByNamedLoss ==
  /\ watch /\ subscribed = page => \A e \in Belonging(page) \ lost : Coming(e) = Shows(e)
  /\ page # NoApp /\ ~restored => subscribed = page /\ (source # "none" \/ retryTimer)

(* When the cluster has come to rest and the watch of the page stays open, *)
(* the tab comes to show it, the named losses apart: also a page that Back *)
(* has restored under its own stream.                                      *)
TabConverges ==
  <>[](watch /\ subscribed = page /\ loading = NoLoad)
    => <>[](\A e \in Belonging(page) \ lost : rows[e] = Shows(e))
=============================================================================
