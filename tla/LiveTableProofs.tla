--------------------------- MODULE LiveTableProofs ---------------------------
(***************************************************************************)
(* That a live page drives the watcher as it may, and that its rows go     *)
(* stale for the named reasons only: for every number of applications,     *)
(* namespaces and handlers, every size of ring, channel and connection.    *)
(***************************************************************************)
EXTENDS LiveTable, WatcherFeedProofs, ListsProofs

(* The live page.  Its composition moves the watcher by the watcher's own  *)
(* actions only, so that all of the above is true of it too.  What the     *)
(* composition adds to the watcher's types:                                *)
TableTyped ==
  /\ objects \in [Apps -> Statuses \cup {Absent}]
  /\ watchOpen \in BOOLEAN
  /\ kube \in Seq(Changes)
  /\ source \in {"none", "connecting", "open", "reconnecting"}
  /\ lastID \in 0 .. MaxEvents
  /\ conn \in Chans \cup {NoChan}
  /\ wire \in Seq(Events) /\ Len(wire) <= WireSize
  /\ rows \in [Apps -> Statuses \cup {Absent}]
  /\ pending \subseteq Apps
  /\ held \subseteq [Apps -> Statuses \cup {Absent}]

TableInv == BaseInv /\ TableTyped

(* A finite set can be listed.                                             *)
LEMMA SetListed ==
  ASSUME NEW S, IsFiniteSet(S)
  PROVE  SetToSeq(S) \in Seq(S)
  <1>1. PICK f \in Bijection(1 .. Cardinality(S), S) : TRUE
    BY FS_CardinalityType DEF ExistsBijection
  <1>2. f \in [1 .. Cardinality(S) -> S] /\ IsInjective(f)
    BY DEF Bijection, Injection
  <1>3. SetToSeq(S) \in [1 .. Cardinality(S) -> S]
    BY <1>2 DEF SetToSeq
  <1>4. Cardinality(S) \in Nat
    BY FS_CardinalityType
  <1>. QED  BY <1>3, <1>4

(* So the new watch starts with one ADDED change per object.               *)
LEMMA RelistType == ASSUME TableTyped PROVE Relist \in Seq(Changes)
  <1>. DEFINE live    == {a \in Apps : objects[a] # Absent}
              changes == {Change("added", a, objects[a]) : a \in live}
              added   == [a \in live |-> Change("added", a, objects[a])]
  <1>1. IsFiniteSet(live)
    BY FS_Subset, LiveTableAssumption
  <1>2. added \in Surjection(live, changes)
    BY DEF Surjection
  <1>3. IsFiniteSet(changes)
    <2>. HIDE DEF live, changes, added
    <2>. QED  BY <1>1, <1>2, FS_Surjection
  <1>4. \A change \in changes : change \in Changes
    BY LiveTableAssumption DEF TableTyped, Change
  <1>5. SetToSeq(changes) \in Seq(changes)
    <2>. HIDE DEF changes
    <2>. QED  BY <1>3, SetListed
  <1>6. SetToSeq(changes) \in Seq(Changes)
    <2>. HIDE DEF changes
    <2>. QED  BY <1>4, <1>5
  <1>. QED  BY <1>6 DEF Relist

(* The reducer keeps a table.                                              *)
LEMMA ApplyType ==
  ASSUME NEW change \in Changes, NEW table \in [Apps -> Statuses \cup {Absent}]
  PROVE  /\ Apply(change, table) \in [Apps -> Statuses \cup {Absent}]
         /\ change.app \in Apps
  BY LiveTableAssumption DEF Apply

LEMMA TableInitTyped == TableInit => Init /\ TableTyped
  <1>. SUFFICES ASSUME TableInit PROVE Init /\ TableTyped
    OBVIOUS
  <1>1. 0 \in 0 .. MaxEvents /\ 0 <= WireSize
    BY WatcherAssumption, LiveTableAssumption
  <1>2. /\ Init /\ objects = [a \in Apps |-> Absent] /\ watchOpen = FALSE /\ lastID = 0
        /\ source = "none" /\ conn = NoChan /\ rows = objects /\ pending = {} /\ held = {}
    BY DEF TableInit
  <1>3. kube \in Seq(Changes) /\ wire \in Seq(Events) /\ Len(wire) = 0
    BY DEF TableInit
  <1>. QED  BY <1>1, <1>2, <1>3 DEF TableTyped

(* Each step of the page, the cluster or the connection is a step of the   *)
(* watcher, or none, and keeps the types.                                  *)
LEMMA ClusterStep ==
  ASSUME TableInv, ClusterNext \/ OpenWatch \/ BreakWatch
  PROVE  UNCHANGED vars /\ TableTyped'
  <1>. USE DEF TableInv, browserVars
  <1>1. ASSUME NEW a \in Apps, NEW op \in {"added", "modified", "deleted"},
               NEW status \in Statuses \cup {Absent}, ChangeObject(op, a, status)
        PROVE  UNCHANGED vars /\ TableTyped'
    <2>1. Change(op, a, status) \in Changes
      BY LiveTableAssumption DEF Change
    <2>2. kube' \in Seq(Changes)
      BY <1>1, <2>1 DEF ChangeObject, TableTyped
    <2>3. objects' \in [Apps -> Statuses \cup {Absent}]
      BY <1>1 DEF ChangeObject, TableTyped
    <2>. QED  BY <1>1, <2>2, <2>3 DEF ChangeObject, TableTyped
  <1>2. CASE ClusterNext
    BY <1>1, <1>2 DEF ClusterNext, CreateObject, ModifyObject, RemoveObject
  <1>3. CASE OpenWatch
    <2>1. kube' \in Seq(Changes)
      BY <1>3, RelistType DEF OpenWatch
    <2>. QED  BY <1>3, <2>1 DEF OpenWatch, TableTyped
  <1>4. CASE BreakWatch
    <2>1. kube' \in Seq(Changes) /\ watchOpen' = FALSE /\ UNCHANGED <<vars, objects, browserVars>>
      BY <1>4 DEF BreakWatch
    <2>. QED  BY <2>1 DEF TableTyped
  <1>. QED  BY <1>2, <1>3, <1>4

LEMMA BrowserStep ==
  ASSUME TableInv, BrowserNext
  PROVE  UNCHANGED vars /\ TableTyped'
  <1>. USE DEF TableInv, clusterVars
  <1>1. 0 \in 0 .. MaxEvents /\ 0 <= WireSize
    BY WatcherAssumption, LiveTableAssumption
  <1>2. ASSUME NEW table \in [Apps -> Statuses \cup {Absent}], Keep(table)
        PROVE  UNCHANGED vars /\ TableTyped'
    <2>1. PICK kept \in SUBSET held : held' = kept \cup {table}
      BY <1>2 DEF Keep
    <2>2. held' \subseteq [Apps -> Statuses \cup {Absent}]
      BY <2>1 DEF TableTyped
    <2>. QED  BY <1>2, <2>2 DEF Keep, TableTyped
  <1>3. CASE ListApps \/ SaveSnapshot
    BY <1>2, <1>3 DEF ListApps, SaveSnapshot, TableTyped
  <1>4. CASE LoadPage \/ Redraw
    <2>1. Drawable \subseteq [Apps -> Statuses \cup {Absent}]
      BY DEF Drawable, TableTyped
    <2>2. rows' \in [Apps -> Statuses \cup {Absent}]
      BY <1>4, <2>1 DEF LoadPage, Redraw
    <2>3. CASE LoadPage
      <3>1. /\ source' = "none" /\ lastID' = 0 /\ conn' = NoChan /\ wire' = <<>> /\ pending' = {}
            /\ UNCHANGED <<vars, clusterVars, held>>
        BY <2>3 DEF LoadPage
      <3>. QED  BY <1>1, <2>2, <3>1 DEF TableTyped
    <2>4. CASE Redraw
      <3>1. /\ source' \in {source, "connecting"}
            /\ UNCHANGED <<vars, clusterVars, lastID, conn, wire, pending, held>>
        BY <2>4 DEF Redraw
      <3>. QED  BY <2>2, <3>1 DEF TableTyped
    <2>. QED  BY <1>4, <2>3, <2>4
  <1>5. CASE LeaveTenant
    BY <1>1, <1>5 DEF LeaveTenant, TableTyped
  <1>6. CASE OpenSource
    BY <1>6 DEF OpenSource, TableTyped
  <1>7. CASE Refuse
    BY <1>1, <1>7 DEF Refuse, TableTyped
  <1>8. CASE LoseConnection
    BY <1>1, <1>8 DEF LoseConnection, TableTyped
  <1>9. CASE DeliverFrame
    <2>1. wire # <<>> /\ wire' = Tail(wire) /\ wire \in Seq(Events) /\ Len(wire) <= WireSize
      BY <1>9 DEF DeliverFrame, TableTyped
    <2>2. Head(wire) \in Events /\ wire' \in Seq(Events) /\ Len(wire') <= WireSize
      BY <2>1, LiveTableAssumption
    <2>3. Head(wire).EventID \in 0 .. MaxEvents /\ Head(wire).change \in Changes
      BY <2>2, WatcherAssumption DEF Events
    <2>4. Apply(Head(wire).change, rows) \in [Apps -> Statuses \cup {Absent}]
      BY <2>3, ApplyType DEF TableTyped
    <2>5. rows' \in [Apps -> Statuses \cup {Absent}]
      BY <1>9, <2>4 DEF DeliverFrame, TableTyped
    <2>6. pending' \subseteq Apps /\ lastID' \in 0 .. MaxEvents
      BY <1>9, <2>3 DEF DeliverFrame, TableTyped
    <2>. QED  BY <1>9, <2>2, <2>5, <2>6 DEF DeliverFrame, TableTyped
  <1>10. ASSUME NEW a \in Apps, UserDelete(a) PROVE UNCHANGED vars /\ TableTyped'
    <2>1. rows' \in [Apps -> Statuses \cup {Absent}]
      BY <1>10 DEF UserDelete, TableTyped
    <2>. QED  BY <1>10, <2>1 DEF UserDelete, TableTyped
  <1>11. ASSUME NEW a \in Apps, WindowEnds(a) PROVE UNCHANGED vars /\ TableTyped'
    BY <1>11 DEF WindowEnds, TableTyped
  <1>. QED  BY <1>6, <1>7, <1>8, <1>9, <1>10, <1>11, <1>3, <1>4, <1>5 DEF BrowserNext

LEMMA HandlerStep ==
  ASSUME TableInv, NEW c \in Chans, Stream(c) \/ WriteEvent(c) \/ EndStream(c)
  PROVE  Next /\ TableTyped'
  <1>. USE DEF TableInv, clusterVars
  <1>1. CASE Stream(c)
    <2>1. Home \in Namespaces /\ lastID \in 0 .. MaxEvents
      BY LiveTableAssumption DEF TableTyped
    <2>. QED  BY <1>1, <2>1 DEF Stream, TableTyped, Next
  <1>2. ASSUME NEW evt \in Events, Write(c, evt)
        PROVE  wire' \in Seq(Events) /\ Len(wire') <= WireSize
    <2>1. wire \in Seq(Events) /\ Len(wire) <= WireSize /\ WireSize \in Nat
      BY LiveTableAssumption DEF TableTyped
    <2>2. wire' = wire \/ (wire' = Append(wire, evt) /\ Len(wire) < WireSize)
      BY <1>2 DEF Write
    <2>. QED  BY <2>1, <2>2
  <1>3. CASE WriteEvent(c)
    <2>1. \A i \in DOMAIN missed[c] : missed[c][i] \in Events
      BY SliceType DEF BaseInv, TypeOK
    <2>2. chans[c] \in Seq(Events)
      BY DEF BaseInv, TypeOK
    <2>3. /\ TakeMissed(c) \/ Receive(c)
          /\ wire' \in Seq(Events) /\ Len(wire') <= WireSize
      <3>1. CASE \E i \in DOMAIN missed[c] \ DOMAIN missed'[c] : Write(c, missed[c][i])
        BY <1>2, <1>3, <2>1, <3>1 DEF WriteEvent
      <3>2. CASE Receive(c) /\ Write(c, Head(chans[c]))
        BY <1>2, <2>2, <3>2 DEF Receive
      <3>. QED  BY <1>3, <3>1, <3>2 DEF WriteEvent
    <2>. QED  BY <1>3, <2>3 DEF WriteEvent, TableTyped, Next
  <1>4. CASE EndStream(c)
    BY <1>4 DEF EndStream, TableTyped, Next
  <1>. QED  BY <1>1, <1>3, <1>4

LEMMA TableStep ==
  ASSUME TableInv, [TableNext]_tableVars
  PROVE  [Next]_vars /\ TableTyped'
  <1>. USE DEF TableInv
  <1>1. CASE HandleEvent
    <2>1. kube # <<>> /\ kube' = Tail(kube)
      BY <1>1 DEF HandleEvent
    <2>2. kube \in Seq(Changes)
      BY DEF TableTyped
    <2>3. Head(kube) \in Changes /\ kube' \in Seq(Changes)
      BY <2>1, <2>2
    <2>. QED
      BY <1>1, <2>3, LiveTableAssumption DEF HandleEvent, TableTyped, browserVars, Next
  <1>2. CASE Fanout
    BY <1>2 DEF Fanout, TableTyped, clusterVars, browserVars, Next
  <1>3. CASE Die
    <2>1. /\ kube' \in Seq(Changes) /\ watchOpen' = FALSE /\ conn' = NoChan
          /\ UNCHANGED <<objects, source, lastID, wire, rows, pending, held>>
      BY <1>3 DEF Die
    <2>2. Next
      BY <1>3 DEF Die, Next, FanoutStep
    <2>. QED  BY <2>1, <2>2 DEF TableTyped
  <1>4. CASE Reborn
    BY <1>4 DEF Reborn, TableTyped, clusterVars, browserVars, Next
  <1>5. CASE UNCHANGED tableVars
    BY <1>5 DEF tableVars, TableTyped, clusterVars, browserVars
  <1>. QED
    BY <1>1, <1>2, <1>3, <1>4, <1>5, ClusterStep, BrowserStep, HandlerStep
       DEF TableNext, ServerNext

LEMMA TableInductive == TableSpec => Spec /\ [](BaseInv /\ TableTyped)
  <1>1. TableInit => Init /\ BaseInv /\ TableTyped
    BY TableInitTyped, InitBase
  <1>2. BaseInv /\ TableTyped /\ [TableNext]_tableVars => [Next]_vars /\ TableTyped'
    BY TableStep DEF TableInv
  <1>3. BaseInv /\ [Next]_vars => BaseInv'
    BY TypeStep, RegisteredStep, RingStep, LoopStep DEF BaseInv
  <1>. QED  BY <1>1, <1>2, <1>3, PTL DEF TableSpec, Spec

(* Every variable of the page, the watch and the connection keeps its      *)
(* type; a browser never sends back a Last-Event-ID it was not given, and  *)
(* a new watch always starts with a list of changes.                       *)
THEOREM TableTypeCorrect == TableSpec => []TableTypeOK
  <1>1. BaseInv /\ TableTyped => TableTypeOK
    BY DEF BaseInv, TableTyped, TableTypeOK
  <1>. QED  BY <1>1, TableInductive, PTL

(* The page, its watch loop, its handlers and its connection drive the     *)
(* watcher as the watcher's own specification says: its theorems are those *)
(* of the whole, and the page is served one tenant's events, in order,     *)
(* with no gap but the stated ones.                                        *)
THEOREM TableRunsTheWatcher ==
  TableSpec => Spec /\ IsOrderedFeed /\ [](NoSilentGap /\ TenantIsolation)
  BY TableInductive, FeedOfOneTenant, GapFree, TenantsApart, PTL

-----------------------------------------------------------------------------
(* What a list of changes does to the row of one application.  The lists   *)
(* are sequences, or slices: functions on a set of indices.                *)
Shown(change) == IF change.op = "deleted" THEN Absent ELSE change.status

None(list, a) == \A i \in DOMAIN list : list[i].app # a

LastOf(list, a, status) ==
  \E i \in DOMAIN list : /\ list[i].app = a /\ Shown(list[i]) = status
                         /\ \A j \in DOMAIN list : j > i => list[j].app # a

(* After list, the row of a shows status: so says the last change of a, or *)
(* there is none and it has before.                                        *)
Ends(list, a, status, before) == LastOf(list, a, status) \/ (None(list, a) /\ before)

LEMMA SomeOrNone ==
  ASSUME NEW list, NEW a, NEW status
  PROVE  LastOf(list, a, status) => ~None(list, a)
  BY DEF LastOf, None

LEMMA Joined ==
  ASSUME NEW S, NEW s \in Seq(S), NEW t \in Seq(S), NEW a, NEW status
  PROVE  /\ None(s \o t, a) <=> None(s, a) /\ None(t, a)
         /\ LastOf(s \o t, a, status) <=>
              LastOf(t, a, status) \/ (None(t, a) /\ LastOf(s, a, status))
  <1>. DEFINE n == Len(s)
              m == Len(t)
              u == s \o t
  <1>1. /\ n \in Nat /\ m \in Nat /\ DOMAIN s = 1 .. n /\ DOMAIN t = 1 .. m
        /\ DOMAIN u = 1 .. n + m
        /\ \A i \in 1 .. n : u[i] = s[i]
        /\ \A i \in 1 .. m : u[n + i] = t[i]
    OBVIOUS
  <1>. HIDE DEF n, m, u
  <1>2. \A i \in 1 .. n + m : i \in 1 .. n \/ \E k \in 1 .. m : i = n + k
    <2>. SUFFICES ASSUME NEW i \in 1 .. n + m, i \notin 1 .. n
                  PROVE  \E k \in 1 .. m : i = n + k
      OBVIOUS
    <2>1. i - n \in 1 .. m /\ i = n + (i - n)
      BY <1>1
    <2>. QED  BY <2>1
  <1>3. None(u, a) <=> None(s, a) /\ None(t, a)
    <2>1. ASSUME None(u, a) PROVE None(s, a) /\ None(t, a)
      <3>1. \A i \in 1 .. n : i \in 1 .. n + m
        BY <1>1
      <3>2. \A k \in 1 .. m : n + k \in 1 .. n + m
        BY <1>1
      <3>. QED  BY <1>1, <2>1, <3>1, <3>2 DEF None
    <2>2. ASSUME None(s, a), None(t, a), NEW i \in 1 .. n + m PROVE u[i].app # a
      BY <1>1, <1>2, <2>2 DEF None
    <2>. QED  BY <1>1, <2>1, <2>2 DEF None
  <1>4. ASSUME LastOf(u, a, status)
        PROVE  LastOf(t, a, status) \/ (None(t, a) /\ LastOf(s, a, status))
    <2>1. PICK i \in 1 .. n + m : /\ u[i].app = a /\ Shown(u[i]) = status
                                  /\ \A j \in 1 .. n + m : j > i => u[j].app # a
      BY <1>1, <1>4 DEF LastOf
    <2>2. CASE i \in 1 .. n
      <3>1. ASSUME NEW k \in 1 .. m PROVE t[k].app # a
        <4>1. n + k \in 1 .. n + m /\ n + k > i
          BY <1>1, <2>2
        <4>. QED  BY <1>1, <2>1, <4>1
      <3>2. \A j \in 1 .. n : j > i => s[j].app # a
        BY <1>1, <2>1
      <3>. QED  BY <1>1, <2>1, <2>2, <3>1, <3>2 DEF LastOf, None
    <2>3. ASSUME NEW k \in 1 .. m, i = n + k PROVE LastOf(t, a, status)
      <3>1. ASSUME NEW j \in 1 .. m, j > k PROVE t[j].app # a
        <4>1. n + j \in 1 .. n + m /\ n + j > i
          BY <1>1, <2>3, <3>1
        <4>. QED  BY <1>1, <2>1, <4>1
      <3>. QED  BY <1>1, <2>1, <2>3, <3>1 DEF LastOf
    <2>. QED  BY <1>2, <2>2, <2>3
  <1>5. ASSUME LastOf(t, a, status) PROVE LastOf(u, a, status)
    <2>1. PICK k \in 1 .. m : /\ t[k].app = a /\ Shown(t[k]) = status
                              /\ \A j \in 1 .. m : j > k => t[j].app # a
      BY <1>1, <1>5 DEF LastOf
    <2>2. n + k \in 1 .. n + m /\ u[n + k] = t[k]
      BY <1>1
    <2>3. ASSUME NEW j \in 1 .. n + m, j > n + k PROVE u[j].app # a
      <3>1. PICK l \in 1 .. m : j = n + l
        BY <1>1, <1>2, <2>3
      <3>2. l > k
        BY <1>1, <2>3, <3>1
      <3>. QED  BY <1>1, <2>1, <3>1, <3>2
    <2>. QED  BY <1>1, <2>1, <2>2, <2>3 DEF LastOf
  <1>6. ASSUME None(t, a), LastOf(s, a, status) PROVE LastOf(u, a, status)
    <2>1. PICK k \in 1 .. n : /\ s[k].app = a /\ Shown(s[k]) = status
                              /\ \A j \in 1 .. n : j > k => s[j].app # a
      BY <1>1, <1>6 DEF LastOf
    <2>2. ASSUME NEW j \in 1 .. n + m, j > k PROVE u[j].app # a
      <3>1. CASE j \in 1 .. n
        BY <1>1, <2>1, <2>2, <3>1
      <3>2. ASSUME NEW l \in 1 .. m, j = n + l PROVE u[j].app # a
        BY <1>1, <1>6, <3>2 DEF None
      <3>. QED  BY <1>2, <3>1, <3>2
    <2>3. k \in 1 .. n + m
      BY <1>1
    <2>. QED  BY <1>1, <2>1, <2>2, <2>3 DEF LastOf
  <1>. QED  BY <1>3, <1>4, <1>5, <1>6 DEF u

LEMMA OneChange ==
  ASSUME NEW x, NEW a, NEW status
  PROVE  /\ None(<<x>>, a) <=> x.app # a
         /\ LastOf(<<x>>, a, status) <=> x.app = a /\ Shown(x) = status
  <1>1. DOMAIN <<x>> = {1} /\ <<x>>[1] = x /\ ~(1 > 1)
    OBVIOUS
  <1>. QED  BY <1>1 DEF None, LastOf

LEMMA NoChange ==
  ASSUME NEW a, NEW status
  PROVE  None(<<>>, a) /\ ~LastOf(<<>>, a, status)
  BY DEF None, LastOf

LEMMA OneMore ==
  ASSUME NEW S, NEW s \in Seq(S), NEW x \in S, NEW a, NEW status
  PROVE  /\ None(Append(s, x), a) <=> None(s, a) /\ x.app # a
         /\ LastOf(Append(s, x), a, status) <=>
              (x.app = a /\ Shown(x) = status) \/ (x.app # a /\ LastOf(s, a, status))
  <1>1. PICK t : t = <<x>>
    OBVIOUS
  <1>2. Append(s, x) = s \o t /\ t \in Seq(S)
    BY <1>1
  <1>3. /\ None(s \o t, a) <=> None(s, a) /\ None(t, a)
        /\ LastOf(s \o t, a, status) <=>
             LastOf(t, a, status) \/ (None(t, a) /\ LastOf(s, a, status))
    BY <1>2, Joined
  <1>. QED  BY <1>1, <1>2, <1>3, OneChange

LEMMA OneLess ==
  ASSUME NEW S, NEW s \in Seq(S), s # <<>>, NEW a, NEW status
  PROVE  /\ None(s, a) <=> None(Tail(s), a) /\ Head(s).app # a
         /\ LastOf(s, a, status) <=>
              \/ LastOf(Tail(s), a, status)
              \/ None(Tail(s), a) /\ Head(s).app = a /\ Shown(Head(s)) = status
  <1>1. s = <<Head(s)>> \o Tail(s) /\ <<Head(s)>> \in Seq(S) /\ Tail(s) \in Seq(S)
    OBVIOUS
  <1>2. PICK h, t : h = <<Head(s)>> /\ t = Tail(s)
    OBVIOUS
  <1>3. /\ None(h \o t, a) <=> None(h, a) /\ None(t, a)
        /\ LastOf(h \o t, a, status) <=>
             LastOf(t, a, status) \/ (None(t, a) /\ LastOf(h, a, status))
    BY <1>1, <1>2, Joined
  <1>. QED  BY <1>1, <1>2, <1>3, OneChange

(* The reducer keeps to it.                                                *)
Applied(table, changes, n, f) ==
  f = [i \in 0 .. n |-> IF i = 0 THEN table ELSE Apply(changes[i], f[i - 1])]

LEMMA AppliedExists ==
  ASSUME NEW table, NEW changes, NEW n \in Nat
  PROVE  \E f : Applied(table, changes, n, f)
  <1>. DEFINE Bad == {m \in Nat : \A b : ~Applied(table, changes, m, b)}
  <1>1. SUFFICES Bad = {}
    OBVIOUS
  <1>2. SUFFICES ASSUME Bad # {} PROVE FALSE
    OBVIOUS
  <1>3. PICK m \in Bad : \A k \in Bad : m <= k
    BY <1>2, LeastOf
  <1>4. m \in Nat /\ \A b : ~Applied(table, changes, m, b)
    BY <1>3
  <1>5. CASE m = 0
    <2>1. PICK b : b = [i \in 0 .. 0 |-> table]
      OBVIOUS
    <2>2. Applied(table, changes, 0, b)
      <3>1. \A i \in 0 .. 0 : i = 0
        OBVIOUS
      <3>. QED  BY <2>1, <3>1 DEF Applied
    <2>. QED  BY <1>4, <1>5, <2>2
  <1>6. CASE m # 0
    <2>1. m - 1 \in Nat /\ ~(m <= m - 1)
      BY <1>4, <1>6
    <2>2. PICK b : Applied(table, changes, m - 1, b)
      <3>1. m - 1 \notin Bad
        BY ONLY <1>3, <2>1
      <3>. QED  BY <2>1, <3>1
    <2>3. \A i \in 0 .. m - 1 : b[i] = IF i = 0 THEN table ELSE Apply(changes[i], b[i - 1])
      BY <2>2 DEF Applied
    <2>4. PICK c : c = [i \in 0 .. m |-> IF i < m THEN b[i] ELSE Apply(changes[m], b[m - 1])]
      OBVIOUS
    <2>5. (\A i \in 0 .. m - 1 : c[i] = b[i]) /\ c[m] = Apply(changes[m], b[m - 1]) /\ DOMAIN c = 0 .. m
      BY <1>4, <2>4
    <2>6. ASSUME NEW i \in 0 .. m PROVE c[i] = IF i = 0 THEN table ELSE Apply(changes[i], c[i - 1])
      <3>1. CASE i = m
        <4>1. c[m - 1] = b[m - 1]
          BY <1>4, <1>6, <2>5
        <4>. QED  BY <1>4, <1>6, <2>5, <3>1, <4>1
      <3>2. CASE i = 0
        BY <1>4, <1>6, <2>3, <2>5, <3>2
      <3>3. CASE i # m /\ i # 0
        <4>1. i \in 0 .. m - 1 /\ i - 1 \in 0 .. m - 1
          BY <1>4, <3>3
        <4>2. c[i] = b[i] /\ c[i - 1] = b[i - 1]
          BY <2>5, <4>1
        <4>. QED  BY <2>3, <3>3, <4>1, <4>2
      <3>. QED  BY <3>1, <3>2, <3>3
    <2>7. Applied(table, changes, m, c)
      BY <2>4, <2>5, <2>6 DEF Applied
    <2>. QED  BY <1>4, <2>7
  <1>. QED  BY <1>5, <1>6

LEMMA RowOf ==
  ASSUME NEW a \in Apps, NEW status, NEW changes \in Seq(Changes),
         NEW table \in [Apps -> Statuses \cup {Absent}]
  PROVE  ApplyAll(table, changes)[a] = status <=>
           LastOf(changes, a, status) \/ (None(changes, a) /\ table[a] = status)
  <1>1. \E f : Applied(table, changes, Len(changes), f)
    <2>1. PICK n \in Nat : n = Len(changes)
      OBVIOUS
    <2>. QED  BY <2>1, AppliedExists
  <1>2. PICK f : f = CHOOSE g : Applied(table, changes, Len(changes), g)
    OBVIOUS
  <1>3. Applied(table, changes, Len(changes), f)
    BY <1>1, <1>2
  <1>4. ApplyAll(table, changes) = f[Len(changes)]
    BY <1>2 DEF ApplyAll, Applied
  <1>5. f[0] = table /\ \A i \in 1 .. Len(changes) : f[i] = Apply(changes[i], f[i - 1])
    BY <1>3 DEF Applied
  <1>. DEFINE Right(n) ==  \* the row after the first n changes
                /\ f[n] \in [Apps -> Statuses \cup {Absent}]
                /\ f[n][a] = status <=> Ends(SubSeq(changes, 1, n), a, status, table[a] = status)
              Bad == {n \in 0 .. Len(changes) : ~Right(n)}
  <1>6. Len(changes) \in Nat /\ Bad \in SUBSET Nat
    OBVIOUS
  <1>7. ASSUME Bad # {} PROVE FALSE
    <2>1. PICK n \in Bad : \A k \in Bad : n <= k
      <3>. HIDE DEF Bad
      <3>. QED  BY <1>6, <1>7, LeastOf
    <2>2. n \in 0 .. Len(changes) /\ ~Right(n)
      BY <2>1
    <2>3. n # 0
      <3>1. SubSeq(changes, 1, 0) = <<>>
        OBVIOUS
      <3>2. Right(0)
        BY <1>5, <3>1, NoChange DEF Ends
      <3>. QED  BY <2>2, <3>2
    <2>4. n - 1 \in 0 .. Len(changes) /\ n \in 1 .. Len(changes) /\ ~(n <= n - 1)
      BY <1>6, <2>2, <2>3
    <2>5. Right(n - 1)
      BY <2>1, <2>4
    <2>6. f[n] = Apply(changes[n], f[n - 1]) /\ changes[n] \in Changes
      BY <1>5, <2>4
    <2>7. SubSeq(changes, 1, n) = Append(SubSeq(changes, 1, n - 1), changes[n])
          /\ SubSeq(changes, 1, n - 1) \in Seq(Changes)
      BY <1>6, <2>4
    <2>8. f[n] \in [Apps -> Statuses \cup {Absent}] /\ changes[n].app \in Apps
      BY <2>5, <2>6, ApplyType
    <2>9. f[n][a] = IF changes[n].app = a THEN Shown(changes[n]) ELSE f[n - 1][a]
      BY <2>5, <2>6, <2>8 DEF Apply, Shown
    <2>10. PICK s \in Seq(Changes) : s = SubSeq(changes, 1, n - 1)
      BY <2>7
    <2>11. /\ None(Append(s, changes[n]), a) <=> None(s, a) /\ changes[n].app # a
           /\ LastOf(Append(s, changes[n]), a, status) <=>
                \/ changes[n].app = a /\ Shown(changes[n]) = status
                \/ changes[n].app # a /\ LastOf(s, a, status)
      <3>. HIDE DEF Right, Bad
      <3>1. PICK x \in Changes : x = changes[n]
        BY <2>6
      <3>. QED  BY <3>1, OneMore
    <2>12. f[n - 1][a] = status <=> Ends(s, a, status, table[a] = status)
      BY <2>5, <2>10
    <2>13. f[n][a] = status <=> Ends(Append(s, changes[n]), a, status, table[a] = status)
      BY <2>9, <2>11, <2>12 DEF Ends
    <2>. QED  BY <2>2, <2>7, <2>8, <2>10, <2>13
  <1>8. Len(changes) \in 0 .. Len(changes) /\ SubSeq(changes, 1, Len(changes)) = changes
    OBVIOUS
  <1>9. Right(Len(changes))
    BY <1>7, <1>8
  <1>. QED  BY <1>4, <1>8, <1>9 DEF Ends

-----------------------------------------------------------------------------
(* The changes in lists and slices of events.                              *)
LEMMA ChangesAre ==
  ASSUME NEW s \in Seq(Events), NEW t \in Seq(Events)
  PROVE  /\ ChangesOf(s) \in Seq(Changes)
         /\ ChangesOf(s \o t) = ChangesOf(s) \o ChangesOf(t)
  <1>1. \A evt \in Events : evt.change \in Changes
    BY DEF Events
  <1>2. /\ ChangesOf(s) \in Seq(Changes) /\ Len(ChangesOf(s)) = Len(s)
        /\ \A i \in 1 .. Len(s) : ChangesOf(s)[i] = s[i].change
    BY <1>1 DEF ChangesOf
  <1>3. /\ ChangesOf(t) \in Seq(Changes) /\ Len(ChangesOf(t)) = Len(t)
        /\ \A i \in 1 .. Len(t) : ChangesOf(t)[i] = t[i].change
    BY <1>1 DEF ChangesOf
  <1>4. /\ s \o t \in Seq(Events) /\ Len(s \o t) = Len(s) + Len(t)
        /\ \A i \in 1 .. Len(s) + Len(t) :
             (s \o t)[i] = IF i <= Len(s) THEN s[i] ELSE t[i - Len(s)]
    OBVIOUS
  <1>5. /\ ChangesOf(s \o t) \in Seq(Changes) /\ Len(ChangesOf(s \o t)) = Len(s) + Len(t)
        /\ \A i \in 1 .. Len(s) + Len(t) : ChangesOf(s \o t)[i] = (s \o t)[i].change
    BY <1>1, <1>4 DEF ChangesOf
  <1>6. PICK u \in Seq(Changes), v \in Seq(Changes) : u = ChangesOf(s) /\ v = ChangesOf(t)
    BY <1>2, <1>3
  <1>7. /\ u \o v \in Seq(Changes) /\ Len(u \o v) = Len(s) + Len(t)
        /\ \A i \in 1 .. Len(s) + Len(t) :
             (u \o v)[i] = IF i <= Len(s) THEN u[i] ELSE v[i - Len(s)]
    <2>1. Len(u) = Len(s) /\ Len(v) = Len(t)
      BY <1>2, <1>3, <1>6
    <2>2. /\ u \o v \in Seq(Changes) /\ Len(u \o v) = Len(u) + Len(v)
          /\ \A i \in 1 .. Len(u) + Len(v) :
               (u \o v)[i] = IF i <= Len(u) THEN u[i] ELSE v[i - Len(u)]
      OBVIOUS
    <2>. QED  BY <2>1, <2>2
  <1>8. ASSUME NEW i \in 1 .. Len(s) + Len(t) PROVE ChangesOf(s \o t)[i] = (u \o v)[i]
    <2>1. CASE i <= Len(s)
      <3>1. i \in 1 .. Len(s)
        BY <2>1
      <3>. QED  BY <1>2, <1>4, <1>5, <1>6, <1>7, <2>1, <3>1
    <2>2. CASE ~(i <= Len(s))
      <3>1. i - Len(s) \in 1 .. Len(t)
        BY <2>2
      <3>. QED  BY <1>3, <1>4, <1>5, <1>6, <1>7, <2>2, <3>1
    <2>. QED  BY <2>1, <2>2
  <1>9. ChangesOf(s \o t) = u \o v
    <2>1. PICK w : w = ChangesOf(s \o t)
      OBVIOUS
    <2>2. w \in Seq(Changes) /\ Len(w) = Len(u \o v) /\ \A i \in 1 .. Len(w) : w[i] = (u \o v)[i]
      BY <1>5, <1>7, <1>8, <2>1
    <2>3. PICK z : z = u \o v
      OBVIOUS
    <2>4. w = z
      BY <1>7, <2>2, <2>3
    <2>. QED  BY <2>1, <2>3, <2>4
  <1>. QED  BY <1>2, <1>6, <1>9

LEMMA NoEvents == ASSUME NEW a, NEW status
                  PROVE  None(ChangesOf(<<>>), a) /\ ~LastOf(ChangesOf(<<>>), a, status)
  BY DEF None, LastOf, ChangesOf

LEMMA OneEvent ==
  ASSUME NEW x \in Events, NEW a, NEW status
  PROVE  /\ None(ChangesOf(<<x>>), a) <=> x.change.app # a
         /\ LastOf(ChangesOf(<<x>>), a, status) <=> x.change.app = a /\ Shown(x.change) = status
  <1>1. ChangesOf(<<x>>) = <<x.change>>
    BY DEF ChangesOf
  <1>2. PICK y : y = x.change
    OBVIOUS
  <1>. QED  BY <1>1, <1>2, OneChange

LEMMA JoinedEvents ==
  ASSUME NEW s \in Seq(Events), NEW t \in Seq(Events), NEW a, NEW status
  PROVE  /\ s \o t \in Seq(Events)
         /\ None(ChangesOf(s \o t), a) <=> None(ChangesOf(s), a) /\ None(ChangesOf(t), a)
         /\ LastOf(ChangesOf(s \o t), a, status) <=>
              \/ LastOf(ChangesOf(t), a, status)
              \/ None(ChangesOf(t), a) /\ LastOf(ChangesOf(s), a, status)
  <1>1. PICK u \in Seq(Changes), v \in Seq(Changes) : u = ChangesOf(s) /\ v = ChangesOf(t)
    BY ChangesAre
  <1>2. ChangesOf(s \o t) = u \o v
    BY <1>1, ChangesAre
  <1>3. /\ None(u \o v, a) <=> None(u, a) /\ None(v, a)
        /\ LastOf(u \o v, a, status) <=>
             LastOf(v, a, status) \/ (None(v, a) /\ LastOf(u, a, status))
    BY Joined
  <1>. QED  BY <1>1, <1>2, <1>3

LEMMA OneMoreEvent ==
  ASSUME NEW s \in Seq(Events), NEW x \in Events, NEW a, NEW status
  PROVE  /\ None(ChangesOf(Append(s, x)), a) <=> None(ChangesOf(s), a) /\ x.change.app # a
         /\ LastOf(ChangesOf(Append(s, x)), a, status) <=>
              \/ x.change.app = a /\ Shown(x.change) = status
              \/ x.change.app # a /\ LastOf(ChangesOf(s), a, status)
  <1>1. PICK t : t = <<x>>
    OBVIOUS
  <1>2. Append(s, x) = s \o t /\ t \in Seq(Events)
    BY <1>1
  <1>3. /\ None(ChangesOf(s \o t), a) <=> None(ChangesOf(s), a) /\ None(ChangesOf(t), a)
        /\ LastOf(ChangesOf(s \o t), a, status) <=>
             \/ LastOf(ChangesOf(t), a, status)
             \/ None(ChangesOf(t), a) /\ LastOf(ChangesOf(s), a, status)
    BY <1>2, JoinedEvents
  <1>. QED  BY <1>1, <1>2, <1>3, OneEvent

LEMMA OneLessEvent ==
  ASSUME NEW s \in Seq(Events), s # <<>>, NEW a, NEW status
  PROVE  /\ Head(s) \in Events /\ Tail(s) \in Seq(Events)
         /\ None(ChangesOf(s), a) <=> None(ChangesOf(Tail(s)), a) /\ Head(s).change.app # a
         /\ LastOf(ChangesOf(s), a, status) <=>
              \/ LastOf(ChangesOf(Tail(s)), a, status)
              \/ /\ None(ChangesOf(Tail(s)), a)
                 /\ Head(s).change.app = a /\ Shown(Head(s).change) = status
  <1>1. PICK x, h, t : x = Head(s) /\ h = <<x>> /\ t = Tail(s)
    OBVIOUS
  <1>2. x \in Events /\ h \in Seq(Events) /\ t \in Seq(Events) /\ s = h \o t
    BY <1>1
  <1>3. /\ None(ChangesOf(h \o t), a) <=> None(ChangesOf(h), a) /\ None(ChangesOf(t), a)
        /\ LastOf(ChangesOf(h \o t), a, status) <=>
             \/ LastOf(ChangesOf(t), a, status)
             \/ None(ChangesOf(t), a) /\ LastOf(ChangesOf(h), a, status)
    BY <1>2, JoinedEvents
  <1>. QED  BY <1>1, <1>2, <1>3, OneEvent

(* A slice, listed.                                                        *)
LEMMA Listed ==
  ASSUME NEW m \in MissedSlices, NEW a, NEW status
  PROVE  /\ Slice(m) \in Seq(Events)
         /\ \A i \in DOMAIN m : \E n \in DOMAIN Slice(m) : Slice(m)[n] = m[i]
         /\ None(ChangesOf(Slice(m)), a) <=> None(ChangesOf(m), a)
         /\ LastOf(ChangesOf(Slice(m)), a, status) <=> LastOf(ChangesOf(m), a, status)
  <1>1. PICK at : at = DOMAIN m
    OBVIOUS
  <1>2. at \in SUBSET Slots /\ \A i \in at : m[i] \in Events
    BY <1>1 DEF MissedSlices
  <1>3. at \in SUBSET Int /\ IsFiniteSet(at)
    <2>1. Slots \in SUBSET Int /\ IsFiniteSet(Slots)
      BY ReplayBufferAssumption, FS_Interval DEF Slots
    <2>. QED  BY <1>2, <2>1, FS_Subset
  <1>4. PICK less : less = Below(at)
    OBVIOUS
  <1>5. PICK order : order = Ranked(at, less)
    OBVIOUS
  <1>6. /\ order \in Seq(at)
        /\ \A i \in at : \E n \in DOMAIN order : order[n] = i
        /\ \A k, n \in DOMAIN order : k < n <=> <<order[k], order[n]>> \in less
    <2>1. StrictOrder(less, at)
      BY <1>3, <1>4, NumericOrder
    <2>. QED  BY <1>3, <1>5, <2>1, RankedInOrder
  <1>7. \A k, n \in DOMAIN order : order[k] \in at /\ (k < n <=> order[k] < order[n])
    <2>1. \A k \in DOMAIN order : order[k] \in at
      BY <1>6
    <2>2. \A i, j \in at : <<i, j>> \in less <=> i < j
      BY <1>4 DEF Below
    <2>. QED  BY <1>6, <2>1, <2>2
  <1>8. Slice(m) = [n \in DOMAIN order |-> m[order[n]]]
    BY <1>1, <1>4, <1>5 DEF Slice, Picked, Ascending
  <1>9. PICK list : list = Slice(m)
    OBVIOUS
  <1>10. DOMAIN list = DOMAIN order /\ \A n \in DOMAIN order : list[n] = m[order[n]]
    BY <1>8, <1>9
  <1>11. list \in Seq(Events)
    <2>1. PICK n \in Nat : DOMAIN order = 1 .. n
      BY <1>6
    <2>2. list \in [1 .. n -> Events]
      BY <1>2, <1>7, <1>8, <1>9, <2>1
    <2>. QED  BY <2>2
  <1>12. \A i \in DOMAIN m : \E n \in DOMAIN list : list[n] = m[i]
    BY <1>1, <1>6, <1>10
  <1>13. /\ DOMAIN ChangesOf(list) = DOMAIN order /\ DOMAIN ChangesOf(m) = at
         /\ \A n \in DOMAIN order : ChangesOf(list)[n] = ChangesOf(m)[order[n]]
    BY <1>1, <1>7, <1>10 DEF ChangesOf
  <1>14. None(ChangesOf(list), a) <=> None(ChangesOf(m), a)
    BY <1>6, <1>7, <1>13 DEF None
  <1>15. LastOf(ChangesOf(list), a, status) <=> LastOf(ChangesOf(m), a, status)
    <2>1. ASSUME LastOf(ChangesOf(list), a, status) PROVE LastOf(ChangesOf(m), a, status)
      <3>1. PICK n \in DOMAIN order :
              /\ ChangesOf(list)[n].app = a /\ Shown(ChangesOf(list)[n]) = status
              /\ \A j \in DOMAIN order : j > n => ChangesOf(list)[j].app # a
        BY <1>13, <2>1 DEF LastOf
      <3>2. ASSUME NEW j \in at, j > order[n] PROVE ChangesOf(m)[j].app # a
        <4>1. PICK k \in DOMAIN order : order[k] = j
          BY <1>6
        <4>2. order[n] < order[k]
          BY <1>3, <1>7, <3>2, <4>1
        <4>3. k > n
          BY <1>6, <1>7, <4>2
        <4>. QED  BY <1>13, <3>1, <4>1, <4>3
      <3>. QED  BY <1>7, <1>13, <3>1, <3>2 DEF LastOf
    <2>2. ASSUME LastOf(ChangesOf(m), a, status) PROVE LastOf(ChangesOf(list), a, status)
      <3>1. PICK i \in at :
              /\ ChangesOf(m)[i].app = a /\ Shown(ChangesOf(m)[i]) = status
              /\ \A j \in at : j > i => ChangesOf(m)[j].app # a
        BY <1>13, <2>2 DEF LastOf
      <3>2. PICK n \in DOMAIN order : order[n] = i
        BY <1>6
      <3>3. ASSUME NEW j \in DOMAIN order, j > n PROVE ChangesOf(list)[j].app # a
        <4>1. n < j
          BY <1>6, <3>3
        <4>2. order[j] \in at /\ order[j] > i
          BY <1>3, <1>7, <3>2, <4>1
        <4>. QED  BY <1>13, <3>1, <4>2
      <3>. QED  BY <1>13, <3>1, <3>2, <3>3 DEF LastOf
    <2>. QED  BY <2>1, <2>2
  <1>. QED  BY <1>9, <1>11, <1>12, <1>14, <1>15

(* A slice without its first event.                                        *)
LEMMA FirstTaken ==
  ASSUME NEW m \in MissedSlices, NEW i \in DOMAIN m, \A j \in DOMAIN m : i <= j,
         NEW rest, rest = Restrict(m, DOMAIN m \ {i}), NEW a, NEW status
  PROVE  /\ DOMAIN rest = DOMAIN m \ {i}
         /\ None(ChangesOf(m), a) <=> None(ChangesOf(rest), a) /\ m[i].change.app # a
         /\ LastOf(ChangesOf(m), a, status) <=>
              \/ LastOf(ChangesOf(rest), a, status)
              \/ /\ None(ChangesOf(rest), a)
                 /\ m[i].change.app = a /\ Shown(m[i].change) = status
  <1>1. PICK at \in SUBSET Int : at = DOMAIN m
    <2>1. Slots \in SUBSET Int
      BY ReplayBufferAssumption DEF Slots
    <2>2. DOMAIN m \in SUBSET Slots
      BY DEF MissedSlices
    <2>. QED  BY <2>1, <2>2
  <1>2. DOMAIN rest = at \ {i} /\ \A j \in DOMAIN rest : rest[j] = m[j]
    BY <1>1 DEF Restrict
  <1>3. PICK cm, cr : cm = ChangesOf(m) /\ cr = ChangesOf(rest)
    OBVIOUS
  <1>4. /\ DOMAIN cm = at /\ DOMAIN cr = at \ {i} /\ i \in at
        /\ \A j \in at \ {i} : cr[j] = cm[j]
        /\ cm[i] = m[i].change
    BY <1>1, <1>2, <1>3 DEF ChangesOf
  <1>5. \A j \in at \ {i} : i < j
    BY <1>1
  <1>6. None(cm, a) <=> None(cr, a) /\ cm[i].app # a
    BY <1>4 DEF None
  <1>7. ASSUME LastOf(cm, a, status)
        PROVE  \/ LastOf(cr, a, status)
               \/ None(cr, a) /\ cm[i].app = a /\ Shown(cm[i]) = status
    <2>1. PICK k \in at : /\ cm[k].app = a /\ Shown(cm[k]) = status
                          /\ \A j \in at : j > k => cm[j].app # a
      BY <1>4, <1>7 DEF LastOf
    <2>2. CASE k = i
      <3>1. \A j \in at \ {i} : j > i
        BY <1>1, <1>5
      <3>. QED  BY <1>4, <2>1, <2>2, <3>1 DEF None
    <2>3. CASE k # i
      BY <1>4, <2>1, <2>3 DEF LastOf
    <2>. QED  BY <2>2, <2>3
  <1>8. ASSUME LastOf(cr, a, status) PROVE LastOf(cm, a, status)
    <2>1. PICK k \in at \ {i} : /\ cr[k].app = a /\ Shown(cr[k]) = status
                                 /\ \A j \in at \ {i} : j > k => cr[j].app # a
      BY <1>4, <1>8 DEF LastOf
    <2>2. ~(i > k)
      BY <1>1, <1>5
    <2>. QED  BY <1>4, <2>1, <2>2 DEF LastOf
  <1>9. ASSUME None(cr, a), cm[i].app = a, Shown(cm[i]) = status
        PROVE  LastOf(cm, a, status)
    <2>1. ASSUME NEW j \in at, j > i PROVE cm[j].app # a
      <3>1. j \in at \ {i}
        BY <1>1, <2>1
      <3>. QED  BY <1>4, <1>9, <3>1 DEF None
    <2>. QED  BY <1>4, <1>9, <2>1 DEF LastOf
  <1>. QED  BY <1>1, <1>2, <1>3, <1>4, <1>6, <1>7, <1>8, <1>9

(* A replay that has a change of a ends as the history does.               *)
LEMMA ReplayEndsAs ==
  ASSUME NEW buf \in Ring(Events), NEW log, Stamped(log), HoldsNewest(buf, log), NEW id \in Nat,
         NEW a, NEW status, ~None(ChangesOf(Since(buf, id)), a)
  PROVE  /\ ~None(ChangesOf(log), a)
         /\ LastOf(ChangesOf(log), a, status) => LastOf(ChangesOf(Since(buf, id)), a, status)
  <1>1. /\ Len(log) \in Nat /\ DOMAIN log = 1 .. Len(log)
        /\ \A k \in 1 .. Len(log) : log[k].EventID \in Nat
        /\ \A j, k \in 1 .. Len(log) : j < k => log[j].EventID < log[k].EventID
    BY Positions DEF Stamped
  <1>2. PICK n \in Nat : n = Count(buf) /\ n <= Len(log)
    <2>1. Count(buf) = IF Len(log) < replayBufferSize THEN Len(log) ELSE replayBufferSize
      BY DEF HoldsNewest
    <2>2. Count(buf) \in Nat /\ Count(buf) <= Len(log)
      BY <1>1, <2>1, ReplayBufferAssumption
    <2>. QED  BY <2>2
  <1>3. \A i \in 0 .. n - 1 : At(buf, i) = log[Len(log) - n + 1 + i]
    BY <1>2 DEF HoldsNewest
  <1>4. PICK got : got = Since(buf, id)
    OBVIOUS
  <1>5. /\ DOMAIN got = {j \in 0 .. n - 1 : At(buf, j).EventID > id}
        /\ \A i \in DOMAIN got : got[i] = At(buf, i)
    BY <1>2, <1>4 DEF Since
  <1>6. /\ DOMAIN ChangesOf(got) = DOMAIN got /\ DOMAIN ChangesOf(log) = DOMAIN log
        /\ \A i \in DOMAIN got : ChangesOf(got)[i] = got[i].change
        /\ \A k \in DOMAIN log : ChangesOf(log)[k] = log[k].change
    BY DEF ChangesOf
  <1>7. PICK i \in DOMAIN got : got[i].change.app = a
    BY <1>4, <1>6 DEF None
  <1>8. PICK d \in Int : d = Len(log) - n + 1
    BY <1>1, <1>2
  <1>9. \A j \in 0 .. n - 1 : d + j \in 1 .. Len(log) /\ At(buf, j) = log[d + j]
    BY <1>1, <1>2, <1>3, <1>8
  <1>10. i \in 0 .. n - 1 /\ got[i] = log[d + i] /\ log[d + i].EventID > id
    BY <1>5, <1>9
  <1>11. ASSUME LastOf(ChangesOf(log), a, status) PROVE LastOf(ChangesOf(got), a, status)
    <2>1. PICK k \in 1 .. Len(log) :
            /\ log[k].change.app = a /\ Shown(log[k].change) = status
            /\ \A j \in 1 .. Len(log) : j > k => log[j].change.app # a
      BY <1>1, <1>6, <1>11 DEF LastOf
    <2>2. ~(d + i > k)
      BY <1>7, <1>9, <1>10, <2>1
    <2>3. PICK j \in 0 .. n - 1 : k = d + j /\ i <= j
      <3>1. PICK m \in Nat : m = Len(log)
        BY <1>1
      <3>2. k <= m /\ d = m - n + 1 /\ d + i <= k /\ 0 <= i
        BY <1>8, <1>10, <2>2, <3>1
      <3>3. k - d \in 0 .. n - 1 /\ i <= k - d /\ k = d + (k - d)
        BY <1>10, <3>2
      <3>. QED  BY <3>3
    <2>4. log[k].EventID > id
      <3>1. CASE d + i = k
        BY <1>10, <3>1
      <3>2. CASE d + i < k
        <4>1. log[d + i].EventID < log[k].EventID
          BY <1>1, <1>9, <1>10, <3>2
        <4>. QED  BY <1>1, <1>9, <1>10, <4>1
      <3>3. d + i = k \/ d + i < k
        BY <1>1, <1>8, <1>10, <2>2
      <3>. QED  BY <3>1, <3>2, <3>3
    <2>5. j \in DOMAIN got /\ got[j] = log[k]
      BY <1>5, <1>9, <2>3, <2>4
    <2>6. ASSUME NEW l \in DOMAIN got, l > j PROVE got[l].change.app # a
      <3>1. l \in 0 .. n - 1 /\ got[l] = log[d + l] /\ d + l \in 1 .. Len(log)
        BY <1>5, <1>9
      <3>2. d + l > k
        BY <1>8, <2>3, <2>6, <3>1
      <3>. QED  BY <2>1, <3>1, <3>2
    <2>. QED  BY <1>6, <2>1, <2>5, <2>6 DEF LastOf
  <1>12. ~None(ChangesOf(log), a)
    BY <1>1, <1>6, <1>7, <1>9, <1>10 DEF None
  <1>. QED  BY <1>4, <1>11, <1>12

-----------------------------------------------------------------------------
(* How the row of a comes to show what the cluster holds, from the changes *)
(* made last back to the table in the browser.                             *)
InLoop(c) == IF c = fan.sub \/ c \in fan.todo THEN <<fan.evt>> ELSE <<>>

OnPage(a) == Ends(ChangesOf(wire), a, objects[a], rows[a] = objects[a])

ByHandler(c, a) ==
  Ends(ChangesOf(InLoop(c)), a, objects[a],
       Ends(ChangesOf(chans[c]), a, objects[a],
            Ends(ChangesOf(missed[c]), a, objects[a], OnPage(a))))

ByReplay(a) == Ends(ChangesOf(Replay(Home, ResumeID)), a, objects[a], OnPage(a))

Settled(a) ==
  Ends(Upstream, a, objects[a], IF conn # NoChan THEN ByHandler(conn, a) ELSE ByReplay(a))

LEMMA UpstreamType == ASSUME TableTyped PROVE Upstream \in Seq(Changes)
  <1>1. Relist \in Seq(Changes) /\ kube \in Seq(Changes)
    BY RelistType DEF TableTyped
  <1>. QED  BY <1>1 DEF Upstream

LEMMA ReplayType ==
  ASSUME BaseInv, NEW id
  PROVE  /\ Replay(Home, id) \in MissedSlices
         /\ buffers[Home] \in Ring(Events) /\ published[Home] \in Seq(Events)
         /\ HoldsNewest(buffers[Home], published[Home])
  <1>1. /\ buffers[Home] \in Ring(Events) /\ published[Home] \in Seq(Events)
        /\ HoldsNewest(buffers[Home], published[Home])
    BY LiveTableAssumption DEF BaseInv, TypeOK, RingHoldsNewest
  <1>2. Since(buffers[Home], id) \in MissedSlices
    BY <1>1, SinceType
  <1>. QED  BY <1>1, <1>2, SliceType DEF Replay

LEMMA InLoopType ==
  ASSUME BaseInv, NEW c \in Chans
  PROVE  /\ InLoop(c) \in Seq(Events)
         /\ c = fan.sub \/ c \in fan.todo => fan.evt \in Events
  <1>1. ASSUME c = fan.sub \/ c \in fan.todo PROVE fan.evt \in Events
    BY <1>1, WatcherAssumption DEF BaseInv, TypeOK, LoopShape, FanoutLoops
  <1>. QED  BY <1>1 DEF InLoop

(* What a handler has, and the fan-out loop for it; what a replay has.     *)
LEMMA HandlerHas ==
  ASSUME BaseInv, NEW c \in Chans, NEW a, NEW status
  PROVE  /\ FromHandler(c) \in Seq(Events)
         /\ None(ChangesOf(FromHandler(c)), a) <=>
              /\ None(ChangesOf(missed[c]), a) /\ None(ChangesOf(chans[c]), a)
              /\ None(ChangesOf(InLoop(c)), a)
         /\ LastOf(ChangesOf(FromHandler(c)), a, status) <=>
              Ends(ChangesOf(InLoop(c)), a, status,
                   Ends(ChangesOf(chans[c]), a, status, LastOf(ChangesOf(missed[c]), a, status)))
  <1>1. missed[c] \in MissedSlices /\ chans[c] \in Seq(Events) /\ InLoop(c) \in Seq(Events)
    BY InLoopType DEF BaseInv, TypeOK
  <1>2. PICK m \in MissedSlices : m = missed[c]
    BY <1>1
  <1>3. PICK r \in Seq(Events), s \in Seq(Events), t \in Seq(Events) :
          r = Slice(m) /\ s = chans[c] /\ t = InLoop(c)
    BY <1>1, Listed
  <1>4. FromHandler(c) = (r \o s) \o t
    BY <1>2, <1>3 DEF FromHandler, InLoop
  <1>5. /\ None(ChangesOf(r), a) <=> None(ChangesOf(m), a)
        /\ LastOf(ChangesOf(r), a, status) <=> LastOf(ChangesOf(m), a, status)
    BY <1>3, Listed
  <1>6. PICK q \in Seq(Events) : q = r \o s
    <2>1. r \o s \in Seq(Events)
      OBVIOUS
    <2>. QED  BY <2>1
  <1>7. /\ None(ChangesOf(q), a) <=> None(ChangesOf(r), a) /\ None(ChangesOf(s), a)
        /\ LastOf(ChangesOf(q), a, status) <=>
             \/ LastOf(ChangesOf(s), a, status)
             \/ None(ChangesOf(s), a) /\ LastOf(ChangesOf(r), a, status)
    BY <1>6, JoinedEvents
  <1>8. /\ q \o t \in Seq(Events)
        /\ None(ChangesOf(q \o t), a) <=> None(ChangesOf(q), a) /\ None(ChangesOf(t), a)
        /\ LastOf(ChangesOf(q \o t), a, status) <=>
             \/ LastOf(ChangesOf(t), a, status)
             \/ None(ChangesOf(t), a) /\ LastOf(ChangesOf(q), a, status)
    BY JoinedEvents
  <1>. QED  BY <1>2, <1>3, <1>4, <1>5, <1>6, <1>7, <1>8 DEF Ends

LEMMA ReplayHas ==
  ASSUME BaseInv, NEW id, NEW a, NEW status
  PROVE  /\ ReplayFrom(id) \in Seq(Events)
         /\ None(ChangesOf(ReplayFrom(id)), a) <=> None(ChangesOf(Replay(Home, id)), a)
         /\ LastOf(ChangesOf(ReplayFrom(id)), a, status) <=>
              LastOf(ChangesOf(Replay(Home, id)), a, status)
         /\ \A i \in DOMAIN Replay(Home, id) :
              \E n \in DOMAIN ReplayFrom(id) : ReplayFrom(id)[n] = Replay(Home, id)[i]
  <1>1. CASE id > 0
    <2>1. PICK m \in MissedSlices : m = Replay(Home, id) /\ m = Since(buffers[Home], id)
      BY <1>1, ReplayType DEF Replay
    <2>2. ReplayFrom(id) = Slice(m)
      BY <1>1, <2>1 DEF ReplayFrom
    <2>. QED  BY <2>1, <2>2, Listed
  <1>2. CASE ~(id > 0)
    <2>1. ReplayFrom(id) = <<>> /\ Replay(Home, id) = <<>>
      BY <1>2 DEF ReplayFrom, Replay
    <2>. QED  BY <2>1
  <1>. QED  BY <1>1, <1>2

(* What is behind the wire.                                                *)
Behind == IF conn # NoChan THEN FromHandler(conn) ELSE ReplayFrom(ResumeID)

LEMMA BehindHas ==
  ASSUME TableInv, NEW a, NEW status
  PROVE  /\ wire \in Seq(Events) /\ Behind \in Seq(Events) /\ InFlight = wire \o Behind
         /\ conn # NoChan => conn \in Chans
         /\ conn # NoChan =>
              /\ None(ChangesOf(Behind), a) <=>
                   /\ None(ChangesOf(missed[conn]), a) /\ None(ChangesOf(chans[conn]), a)
                   /\ None(ChangesOf(InLoop(conn)), a)
              /\ LastOf(ChangesOf(Behind), a, status) <=>
                   Ends(ChangesOf(InLoop(conn)), a, status,
                        Ends(ChangesOf(chans[conn]), a, status,
                             LastOf(ChangesOf(missed[conn]), a, status)))
         /\ conn = NoChan =>
              /\ None(ChangesOf(Behind), a) <=> None(ChangesOf(Replay(Home, ResumeID)), a)
              /\ LastOf(ChangesOf(Behind), a, status) <=>
                   LastOf(ChangesOf(Replay(Home, ResumeID)), a, status)
  <1>1. BaseInv /\ wire \in Seq(Events) /\ conn \in Chans \cup {NoChan}
    BY DEF TableInv, TableTyped
  <1>2. InFlight = wire \o Behind
    BY DEF InFlight, Behind
  <1>3. CASE conn # NoChan
    <2>1. conn \in Chans /\ Behind = FromHandler(conn)
      BY <1>1, <1>3 DEF Behind
    <2>. QED  BY <1>1, <1>2, <1>3, <2>1, HandlerHas
  <1>4. CASE conn = NoChan
    <2>1. Behind = ReplayFrom(ResumeID)
      BY <1>4 DEF Behind
    <2>. QED  BY <1>1, <1>2, <1>4, <2>1, ReplayHas
  <1>. QED  BY <1>3, <1>4

(* So a row is stale when nothing on its way settles it.                   *)
LEMMA StaleIs == TableInv => \A a \in Apps : Stale(a) <=> ~Settled(a)
  <1>. SUFFICES ASSUME TableInv, NEW a \in Apps PROVE Stale(a) <=> ~Settled(a)
    OBVIOUS
  <1>1. PICK v : v = objects[a]
    OBVIOUS
  <1>2. PICK w \in Seq(Events), b \in Seq(Events) : w = wire /\ b = Behind
    BY BehindHas
  <1>3. PICK f \in Seq(Changes), u \in Seq(Changes) : f = ChangesOf(w \o b) /\ u = Upstream
    <2>1. PICK q \in Seq(Events) : q = w \o b
      <3>1. w \o b \in Seq(Events)
        OBVIOUS
      <3>. QED  BY <3>1
    <2>2. ChangesOf(q) \in Seq(Changes)
      BY ChangesAre
    <2>. QED  BY <2>1, <2>2, UpstreamType DEF TableInv
  <1>4. rows \in [Apps -> Statuses \cup {Absent}]
    BY DEF TableInv, TableTyped
  <1>5. Outcome = ApplyAll(rows, f \o u)
    BY <1>2, <1>3, BehindHas DEF Outcome
  <1>6. f \o u \in Seq(Changes)
    OBVIOUS
  <1>7. Outcome[a] = v <=> LastOf(f \o u, a, v) \/ (None(f \o u, a) /\ rows[a] = v)
    <2>1. PICK s \in Seq(Changes) : s = f \o u
      BY <1>6
    <2>2. PICK table \in [Apps -> Statuses \cup {Absent}] : table = rows
      BY <1>4
    <2>3. ApplyAll(table, s)[a] = v <=> LastOf(s, a, v) \/ (None(s, a) /\ table[a] = v)
      BY RowOf
    <2>. QED  BY <1>5, <2>1, <2>2, <2>3
  <1>8. /\ None(f \o u, a) <=> None(f, a) /\ None(u, a)
        /\ LastOf(f \o u, a, v) <=> LastOf(u, a, v) \/ (None(u, a) /\ LastOf(f, a, v))
    BY Joined
  <1>9. /\ None(f, a) <=> None(ChangesOf(w), a) /\ None(ChangesOf(b), a)
        /\ LastOf(f, a, v) <=>
             \/ LastOf(ChangesOf(b), a, v)
             \/ None(ChangesOf(b), a) /\ LastOf(ChangesOf(w), a, v)
    BY <1>3, JoinedEvents
  <1>10. Stale(a) <=> ~(Outcome[a] = v)
    BY <1>1 DEF Stale
  <1>11. CASE conn # NoChan
    <2>1. /\ None(ChangesOf(b), a) <=>
               /\ None(ChangesOf(missed[conn]), a) /\ None(ChangesOf(chans[conn]), a)
               /\ None(ChangesOf(InLoop(conn)), a)
          /\ LastOf(ChangesOf(b), a, v) <=>
               Ends(ChangesOf(InLoop(conn)), a, v,
                    Ends(ChangesOf(chans[conn]), a, v, LastOf(ChangesOf(missed[conn]), a, v)))
      BY <1>2, <1>11, BehindHas
    <2>2. Settled(a) <=> Ends(u, a, v, ByHandler(conn, a))
      BY <1>1, <1>3, <1>11 DEF Settled, Ends
    <2>. QED
      BY <1>1, <1>2, <1>7, <1>8, <1>9, <1>10, <2>1, <2>2 DEF ByHandler, OnPage, Ends
  <1>12. CASE conn = NoChan
    <2>1. /\ None(ChangesOf(b), a) <=> None(ChangesOf(Replay(Home, ResumeID)), a)
          /\ LastOf(ChangesOf(b), a, v) <=> LastOf(ChangesOf(Replay(Home, ResumeID)), a, v)
      BY <1>2, <1>12, BehindHas
    <2>2. Settled(a) <=> Ends(u, a, v, ByReplay(a))
      BY <1>1, <1>3, <1>12 DEF Settled, Ends
    <2>. QED
      BY <1>1, <1>2, <1>7, <1>8, <1>9, <1>10, <2>1, <2>2 DEF ByReplay, OnPage, Ends
  <1>. QED  BY <1>11, <1>12

LEMMA StaleIsNext == TableInv' => \A a \in Apps : Stale(a)' <=> ~Settled(a)'
  <1>1. (TableInv => \A a \in Apps : Stale(a) <=> ~Settled(a))'
    BY StaleIs, PTL
  <1>. QED  BY <1>1

(* If the whole history would not do, neither could a replay: else the     *)
(* history settles every row that it tells of.                             *)
BySome(a) ==
  None(ChangesOf(published[Home]), a) \/
  Ends(Upstream, a, objects[a], LastOf(ChangesOf(published[Home]), a, objects[a]))

LEMMA NoGhost == TableInv => \A a \in Apps : Ghost(a) \/ BySome(a)
  <1>. SUFFICES ASSUME TableInv, NEW a \in Apps, ~Ghost(a) PROVE BySome(a)
    OBVIOUS
  <1>1. PICK v : v = objects[a]
    OBVIOUS
  <1>2. PICK log \in Seq(Events) : log = published[Home]
    BY ReplayType DEF TableInv
  <1>3. PICK f \in Seq(Changes), u \in Seq(Changes) : f = ChangesOf(log) /\ u = Upstream
    BY UpstreamType, ChangesAre DEF TableInv
  <1>4. rows \in [Apps -> Statuses \cup {Absent}]
    BY DEF TableInv, TableTyped
  <1>5. CASE ~\E k \in DOMAIN published[Home] : published[Home][k].change.app = a
    BY <1>5 DEF BySome, None, ChangesOf
  <1>6. CASE \E k \in DOMAIN published[Home] : published[Home][k].change.app = a
    <2>1. ApplyAll(rows, f \o u)[a] = v
      BY <1>1, <1>2, <1>3, <1>6 DEF Ghost
    <2>2. f \o u \in Seq(Changes)
      OBVIOUS
    <2>3. LastOf(f \o u, a, v) \/ (None(f \o u, a) /\ rows[a] = v)
      BY <1>4, <2>1, <2>2, RowOf
    <2>4. /\ None(f \o u, a) <=> None(f, a) /\ None(u, a)
          /\ LastOf(f \o u, a, v) <=> LastOf(u, a, v) \/ (None(u, a) /\ LastOf(f, a, v))
      BY Joined
    <2>5. ~None(f, a)
      BY <1>2, <1>3, <1>6 DEF None, ChangesOf
    <2>. QED  BY <1>1, <1>2, <1>3, <2>3, <2>4, <2>5 DEF BySome, Ends
  <1>. QED  BY <1>5, <1>6

LEMMA NoGhostNext == TableInv' => \A a \in Apps : Ghost(a)' \/ BySome(a)'
  <1>1. (TableInv => \A a \in Apps : Ghost(a) \/ BySome(a))'
    BY NoGhost, PTL
  <1>. QED  BY <1>1

(* Then a replay that tells of a row settles it.                           *)
LEMMA ReplaySettles ==
  TableInv /\ AllStamped => \A id \in Nat, a \in Apps :
    BySome(a) /\ ~None(ChangesOf(Since(buffers[Home], id)), a) =>
      Ends(Upstream, a, objects[a], LastOf(ChangesOf(Since(buffers[Home], id)), a, objects[a]))
  <1>. SUFFICES ASSUME TableInv, AllStamped, NEW id \in Nat, NEW a \in Apps, BySome(a),
                       ~None(ChangesOf(Since(buffers[Home], id)), a)
                PROVE  Ends(Upstream, a, objects[a],
                            LastOf(ChangesOf(Since(buffers[Home], id)), a, objects[a]))
    OBVIOUS
  <1>1. /\ buffers[Home] \in Ring(Events) /\ Stamped(published[Home])
        /\ HoldsNewest(buffers[Home], published[Home])
    BY ReplayType, LiveTableAssumption DEF TableInv, AllStamped
  <1>2. PICK v : v = objects[a]
    OBVIOUS
  <1>3. /\ ~None(ChangesOf(published[Home]), a)
        /\ LastOf(ChangesOf(published[Home]), a, v)
             => LastOf(ChangesOf(Since(buffers[Home], id)), a, v)
    BY <1>1, ReplayEndsAs
  <1>. QED  BY <1>2, <1>3 DEF BySome, Ends

LEMMA ReplaySettlesNext ==
  TableInv' /\ AllStamped' => \A id \in Nat, a \in Apps :
    BySome(a)' /\ ~None(ChangesOf(Since(buffers'[Home], id)), a) =>
      Ends(Upstream', a, objects'[a], LastOf(ChangesOf(Since(buffers'[Home], id)), a, objects'[a]))
  <1>1. (TableInv /\ AllStamped => \A id \in Nat, a \in Apps :
           BySome(a) /\ ~None(ChangesOf(Since(buffers[Home], id)), a) =>
             Ends(Upstream, a, objects[a],
                  LastOf(ChangesOf(Since(buffers[Home], id)), a, objects[a])))'
    BY ReplaySettles, PTL
  <1>. QED  BY <1>1 DEF Ends

-----------------------------------------------------------------------------
(* The inductive invariant of the page.  Only an open EventSource has a    *)
(* handler or a frame; one that has not been open has no event ID.         *)
SourceShape ==
  /\ source # "open" => conn = NoChan /\ wire = <<>>
  /\ source \in {"none", "connecting"} => lastID = 0
  /\ conn # NoChan => tenant[conn] = Home

(* A watch lives in a process, and only an open one has changes to hand on.*)
WatchShape ==
  /\ ~watchOpen => kube = <<>>
  /\ ~up => ~watchOpen /\ nextEventID = 0 /\ \A c \in Chans : tenant[c] = Closed

(* The last change of an object that the watch has yet to hand on says     *)
(* what became of it.                                                      *)
KubeShows ==
  \A a \in Apps : None(kube, a) \/ LastOf(kube, a, objects[a])

PageInv == SourceShape /\ WatchShape /\ KubeShows

LEMMA RelistShows ==
  ASSUME TableTyped, NEW a \in Apps
  PROVE  None(Relist, a) \/ LastOf(Relist, a, objects[a])
  <1>. DEFINE live    == {b \in Apps : objects[b] # Absent}
              changes == {Change("added", b, objects[b]) : b \in live}
              added   == [b \in live |-> Change("added", b, objects[b])]
  <1>1. IsFiniteSet(live)
    BY FS_Subset, LiveTableAssumption
  <1>2. added \in Surjection(live, changes)
    BY DEF Surjection
  <1>3. IsFiniteSet(changes)
    <2>. HIDE DEF live, changes, added
    <2>. QED  BY <1>1, <1>2, FS_Surjection
  <1>4. PICK list \in Seq(changes) : list = Relist
    <2>1. Relist = SetToSeq(changes)
      BY DEF Relist
    <2>. HIDE DEF changes
    <2>. QED  BY <1>3, <2>1, SetListed
  <1>5. \A i \in DOMAIN list : list[i] \in changes
    <2>. HIDE DEF changes
    <2>. QED  OBVIOUS
  <1>6. \A x \in changes : x.app = a => Shown(x) = objects[a]
    BY DEF Change, Shown
  <1>7. ASSUME ~None(list, a) PROVE LastOf(list, a, objects[a])
    <2>. DEFINE S == {i \in DOMAIN list : list[i].app = a}
                n == Len(list)
                back == {n - i : i \in S}
    <2>1. n \in Nat /\ DOMAIN list = 1 .. n
      BY <1>4
    <2>2. back \in SUBSET Nat /\ back # {}
      BY <1>7, <2>1 DEF None
    <2>3. PICK k \in back : \A j \in back : k <= j
      <3>. HIDE DEF back
      <3>. QED  BY <2>2, LeastOf
    <2>4. PICK i \in S : k = n - i
      BY <2>3
    <2>5. ASSUME NEW j \in DOMAIN list, j > i PROVE list[j].app # a
      <3>1. CASE j \in S
        <4>1. n - j \in back /\ ~(k <= n - j)
          BY <2>1, <2>4, <2>5, <3>1
        <4>. QED  BY <2>3, <4>1
      <3>. QED  BY <3>1
    <2>. QED  BY <1>5, <1>6, <2>4, <2>5 DEF LastOf
  <1>. QED  BY <1>4, <1>7

LEMMA UpstreamShows ==
  ASSUME TableInv, KubeShows, NEW a \in Apps
  PROVE  None(Upstream, a) \/ LastOf(Upstream, a, objects[a])
  BY RelistShows DEF TableInv, KubeShows, Upstream

LEMMA PageInit == TableInit => PageInv
  <1>1. ASSUME NEW a \in Apps PROVE None(<<>>, a)
    BY NoChange
  <1>. QED  BY <1>1 DEF TableInit, Init, PageInv, SourceShape, WatchShape, KubeShows

(* A change of the cluster is handed to an open watch.                     *)
LEMMA ChangeShown ==
  ASSUME TableInv, PageInv, NEW b \in Apps, NEW op \in {"added", "modified", "deleted"},
         NEW status \in Statuses \cup {Absent}, op = "deleted" <=> status = Absent,
         ChangeObject(op, b, status), NEW a \in Apps
  PROVE  /\ objects'[a] = IF a = b THEN status ELSE objects[a]
         /\ watchOpen =>
              /\ None(kube', a) <=> None(kube, a) /\ a # b
              /\ LastOf(kube', a, objects'[a]) <=> a = b \/ LastOf(kube, a, objects[a])
  <1>1. PICK x \in Changes : x = Change(op, b, status)
    BY LiveTableAssumption DEF Change
  <1>2. x.app = b /\ Shown(x) = status
    BY <1>1 DEF Change, Shown
  <1>3. kube \in Seq(Changes) /\ objects \in [Apps -> Statuses \cup {Absent}]
    BY DEF TableInv, TableTyped
  <1>4. objects'[a] = IF a = b THEN status ELSE objects[a]
    BY <1>3 DEF ChangeObject
  <1>5. ASSUME watchOpen PROVE kube' = Append(kube, x)
    BY <1>1, <1>5 DEF ChangeObject
  <1>6. PICK v : v = objects'[a]
    OBVIOUS
  <1>7. /\ None(Append(kube, x), a) <=> None(kube, a) /\ x.app # a
        /\ LastOf(Append(kube, x), a, v) <=>
             (x.app = a /\ Shown(x) = v) \/ (x.app # a /\ LastOf(kube, a, v))
    BY <1>3, OneMore
  <1>. QED  BY <1>2, <1>4, <1>5, <1>6, <1>7

LEMMA SourceStep == ASSUME TableInv, PageInv, [TableNext]_tableVars PROVE SourceShape'
  <1>. USE DEF PageInv, SourceShape
  <1>1. /\ conn \in Chans \cup {NoChan} /\ tenant \in [Chans -> Namespaces \cup {Closed}]
        /\ Home # Closed /\ Home \in Namespaces /\ NoChan \notin Chans
    BY LiveTableAssumption, WatcherAssumption DEF TableInv, TableTyped, BaseInv, TypeOK
  <1>2. CASE ClusterNext
    BY <1>2 DEF ClusterNext, CreateObject, ModifyObject, RemoveObject, ChangeObject, vars,
                programVars, browserVars
  <1>3. CASE OpenWatch \/ BreakWatch
    BY <1>3 DEF OpenWatch, BreakWatch, vars, programVars, browserVars
  <1>4. CASE HandleEvent
    BY <1>4 DEF HandleEvent, Publish, browserVars
  <1>5. CASE Fanout
    <2>1. tenant' = tenant
      BY <1>5 DEF Fanout, FanoutStep, Pick, Send, Drop, FanoutDone, PanicOnSend, Fresh
    <2>. QED  BY <1>5, <2>1 DEF Fanout, browserVars
  <1>6. CASE Die
    BY <1>6 DEF Die
  <1>7. CASE Reborn
    <2>1. conn = NoChan
      BY <1>1, <1>7 DEF Reborn, Restart, WatchShape
    <2>. QED  BY <1>7, <2>1 DEF Reborn, browserVars
  <1>8. CASE \/ ListApps \/ SaveSnapshot \/ LoadPage \/ Redraw \/ LeaveTenant
             \/ OpenSource \/ Refuse \/ LoseConnection
    BY <1>8 DEF ListApps, SaveSnapshot, Keep, LoadPage, Redraw, LeaveTenant,
                OpenSource, Refuse, LoseConnection, vars, programVars
  <1>9. CASE DeliverFrame
    BY <1>9 DEF DeliverFrame, vars, programVars
  <1>10. ASSUME NEW a \in Apps, UserDelete(a) \/ WindowEnds(a) PROVE SourceShape'
    BY <1>10 DEF UserDelete, WindowEnds, vars, programVars
  <1>11. ASSUME NEW c \in Chans, Stream(c) PROVE SourceShape'
    BY <1>1, <1>11 DEF Stream, Subscribe
  <1>12. ASSUME NEW c \in Chans, WriteEvent(c) PROVE SourceShape'
    <2>1. UNCHANGED <<source, lastID, conn, tenant>>
      BY <1>12 DEF WriteEvent, TakeMissed, Receive
    <2>2. wire' = wire \/ c = conn
      BY <1>12 DEF WriteEvent, Write
    <2>. QED  BY <1>1, <2>1, <2>2
  <1>13. ASSUME NEW c \in Chans, EndStream(c) PROVE SourceShape'
    BY <1>1, <1>13 DEF EndStream, Unsubscribe
  <1>14. CASE UNCHANGED tableVars
    BY <1>14 DEF tableVars, vars, programVars, browserVars
  <1>. QED
    BY <1>2, <1>3, <1>4, <1>5, <1>6, <1>7, <1>8, <1>9, <1>10, <1>11, <1>12, <1>13, <1>14
       DEF TableNext, BrowserNext, ServerNext

LEMMA WatchStep == ASSUME TableInv, PageInv, [TableNext]_tableVars PROVE WatchShape'
  <1>. USE DEF PageInv, WatchShape
  <1>1. CASE ClusterNext
    BY <1>1 DEF ClusterNext, CreateObject, ModifyObject, RemoveObject, ChangeObject, vars,
                programVars
  <1>2. CASE OpenWatch \/ BreakWatch
    BY <1>2 DEF OpenWatch, BreakWatch, vars, programVars
  <1>3. CASE HandleEvent
    BY <1>3 DEF HandleEvent, Publish
  <1>4. CASE Fanout
    BY <1>4 DEF Fanout, clusterVars
  <1>5. CASE Die
    <2>1. Fresh(FALSE)
      BY <1>5 DEF Die, PanicOnSend, FatalMapAccess, Kill
    <2>. QED  BY <1>5, <2>1 DEF Die, Fresh
  <1>6. CASE Reborn
    <2>1. up' = TRUE /\ ~up
      BY <1>6 DEF Reborn, Restart, Fresh
    <2>. QED  BY <1>6, <2>1 DEF Reborn, clusterVars
  <1>7. CASE BrowserNext
    BY <1>7 DEF BrowserNext, ListApps, SaveSnapshot, Keep, LoadPage, Redraw,
                LeaveTenant, OpenSource, Refuse, LoseConnection, DeliverFrame,
                UserDelete, WindowEnds, vars, programVars, clusterVars
  <1>8. ASSUME NEW c \in Chans, Stream(c) \/ WriteEvent(c) \/ EndStream(c) PROVE WatchShape'
    <2>1. up /\ up' = up
      BY <1>8 DEF Stream, WriteEvent, EndStream, Subscribe, TakeMissed, Receive, Unsubscribe
    <2>. QED  BY <1>8, <2>1 DEF Stream, WriteEvent, EndStream, clusterVars
  <1>9. CASE UNCHANGED tableVars
    BY <1>9 DEF tableVars, vars, programVars, clusterVars
  <1>. QED
    BY <1>1, <1>2, <1>3, <1>4, <1>5, <1>6, <1>7, <1>8, <1>9 DEF TableNext, ServerNext

LEMMA KubeStep == ASSUME TableInv, PageInv, [TableNext]_tableVars PROVE KubeShows'
  <1>. USE DEF PageInv
  <1>1. TableTyped /\ kube \in Seq(Changes) /\ objects \in [Apps -> Statuses \cup {Absent}]
        /\ Absent \notin Statuses
    BY LiveTableAssumption DEF TableInv, TableTyped
  <1>2. ASSUME UNCHANGED <<objects, kube>> PROVE KubeShows'
    BY <1>2 DEF KubeShows
  <1>3. ASSUME kube' = <<>> PROVE KubeShows'
    BY <1>3, NoChange DEF KubeShows
  <1>4. CASE ClusterNext
    <2>1. PICK b \in Apps, op \in {"added", "modified", "deleted"},
               status \in Statuses \cup {Absent} :
                 (op = "deleted" <=> status = Absent) /\ ChangeObject(op, b, status)
      BY <1>1, <1>4 DEF ClusterNext, CreateObject, ModifyObject, RemoveObject
    <2>2. CASE watchOpen
      BY <2>1, <2>2, ChangeShown DEF KubeShows
    <2>3. CASE ~watchOpen
      <3>1. kube' = <<>>
        BY <2>1, <2>3 DEF ChangeObject, WatchShape
      <3>. QED  BY <1>3, <3>1
    <2>. QED  BY <2>2, <2>3
  <1>5. CASE OpenWatch
    BY <1>1, <1>5, RelistShows DEF OpenWatch, KubeShows
  <1>6. CASE BreakWatch \/ Die
    BY <1>3, <1>6 DEF BreakWatch, Die
  <1>7. CASE HandleEvent
    <2>1. kube # <<>> /\ kube' = Tail(kube) /\ objects' = objects
      BY <1>7 DEF HandleEvent
    <2>2. ASSUME NEW a \in Apps PROVE None(Tail(kube), a) \/ LastOf(Tail(kube), a, objects[a])
      <3>1. PICK v : v = objects[a]
        OBVIOUS
      <3>2. /\ None(kube, a) <=> None(Tail(kube), a) /\ Head(kube).app # a
            /\ LastOf(kube, a, v) <=>
                 \/ LastOf(Tail(kube), a, v)
                 \/ None(Tail(kube), a) /\ Head(kube).app = a /\ Shown(Head(kube)) = v
        BY <1>1, <2>1, OneLess
      <3>. QED  BY <3>1, <3>2 DEF KubeShows
    <2>. QED  BY <2>1, <2>2 DEF KubeShows
  <1>8. CASE Fanout \/ Reborn
    BY <1>2, <1>8 DEF Fanout, Reborn, clusterVars
  <1>9. CASE BrowserNext
    BY <1>2, <1>9 DEF BrowserNext, ListApps, SaveSnapshot, Keep, LoadPage, Redraw,
                LeaveTenant, OpenSource, Refuse, LoseConnection, DeliverFrame,
                UserDelete, WindowEnds, clusterVars
  <1>10. ASSUME NEW c \in Chans, Stream(c) \/ WriteEvent(c) \/ EndStream(c) PROVE KubeShows'
    BY <1>2, <1>10 DEF Stream, WriteEvent, EndStream, clusterVars
  <1>11. CASE UNCHANGED tableVars
    BY <1>2, <1>11 DEF tableVars, clusterVars
  <1>. QED
    BY <1>4, <1>5, <1>6, <1>7, <1>8, <1>9, <1>10, <1>11 DEF TableNext, ServerNext

LEMMA PageStep == TableInv /\ PageInv /\ [TableNext]_tableVars => PageInv'
  BY SourceStep, WatchStep, KubeStep DEF PageInv

LEMMA PageInductive ==
  TableSpec => [](TableInv /\ IsolationInv /\ OrderInv /\ PageInv)
  <1>1. TableInit => PageInv
    BY PageInit
  <1>2. TableInv /\ PageInv /\ [TableNext]_tableVars => PageInv'
    BY PageStep
  <1>3. BaseInv /\ TableTyped => TableInv
    BY DEF TableInv
  <1>. QED  BY <1>1, <1>2, <1>3, TableInductive, Ordered, PTL DEF TableSpec

-----------------------------------------------------------------------------
(* A settled row stays settled, step by step.                              *)
PageIsSound == TableInv /\ IsolationInv /\ OrderInv /\ PageInv /\ AllStamped

LEMMA ResumeType == ASSUME TableTyped PROVE ResumeID \in Nat
  <1>1. wire \in Seq(Events) /\ lastID \in Nat
    BY WatcherAssumption DEF TableTyped
  <1>2. ASSUME wire # <<>> PROVE Last(wire).EventID \in Nat
    <2>1. Last(wire) \in Events
      BY <1>1, <1>2 DEF Last
    <2>. QED  BY <2>1, WatcherAssumption DEF Events
  <1>. QED  BY <1>1, <1>2 DEF ResumeID

LEMMA ResumeTypeNext == TableTyped' => ResumeID' \in Nat
  <1>1. (TableTyped => ResumeID \in Nat)'
    BY ResumeType, PTL
  <1>. QED  BY <1>1

(* Nothing that matters to the row moves.                                  *)
LEMMA Unmoved ==
  ASSUME NEW a \in Apps, Settled(a), UNCHANGED <<conn, wire>>,
         objects'[a] = objects[a], rows'[a] \in {rows[a], objects[a]}, Upstream' = Upstream,
         conn # NoChan => /\ missed'[conn] = missed[conn] /\ chans'[conn] = chans[conn]
                          /\ InLoop(conn)' = InLoop(conn),
         conn = NoChan => Replay(Home, ResumeID)' = Replay(Home, ResumeID)
  PROVE  Settled(a)'
  <1>1. OnPage(a) => OnPage(a)'
    BY DEF OnPage, Ends
  <1>2. CASE conn # NoChan
    BY <1>1, <1>2 DEF Settled, ByHandler, Ends
  <1>3. CASE conn = NoChan
    BY <1>1, <1>3 DEF Settled, ByReplay, Ends
  <1>. QED  BY <1>2, <1>3

(* Frames that a replay repeats hide nothing it does not tell of.          *)
LEMMA AllRepeated ==
  ASSUME NEW w \in Seq(Events), NEW b \in Seq(Events), NEW got, NEW a,
         None(ChangesOf(got), a), NEW n \in {0, Len(w)},
         \A i \in n + 1 .. Len(w \o b) : (w \o b)[i] \in Range(got)
  PROVE  None(ChangesOf(b), a) /\ (n = 0 => None(ChangesOf(w), a))
  <1>1. \A evt \in Range(got) : evt.change.app # a
    BY DEF Range, None, ChangesOf
  <1>2. /\ Len(w) \in Nat /\ Len(b) \in Nat /\ Len(w \o b) = Len(w) + Len(b)
        /\ \A i \in 1 .. Len(w) : (w \o b)[i] = w[i]
        /\ \A i \in 1 .. Len(b) : (w \o b)[Len(w) + i] = b[i]
    OBVIOUS
  <1>3. ASSUME NEW i \in 1 .. Len(b) PROVE b[i].change.app # a
    <2>1. Len(w) + i \in n + 1 .. Len(w \o b)
      BY <1>2
    <2>. QED  BY <1>1, <1>2, <2>1
  <1>4. ASSUME n = 0, NEW i \in 1 .. Len(w) PROVE w[i].change.app # a
    <2>1. i \in n + 1 .. Len(w \o b)
      BY <1>2, <1>4
    <2>. QED  BY <1>1, <1>2, <2>1
  <1>. QED  BY <1>3, <1>4 DEF None, ChangesOf

(* The connection goes, and a replay covers what was on its way.           *)
LEMMA CutOff ==
  ASSUME TableInv, TableInv', AllStamped', NEW a \in Apps, Settled(a), BySome(a)',
         conn' = NoChan, UNCHANGED <<objects, rows>>, Upstream' = Upstream,
         wire' \in {wire, <<>>}, ResumeID' > 0,
         \A i \in Len(wire') + 1 .. Len(InFlight) :
            InFlight[i] \in Range(Since(buffers'[Home], ResumeID'))
  PROVE  Settled(a)'
  <1>1. PICK id \in Nat : id = ResumeID' /\ id > 0
    BY ResumeTypeNext DEF TableInv
  <1>2. PICK got : got = Since(buffers'[Home], id)
    OBVIOUS
  <1>3. PICK v : v = objects[a]
    OBVIOUS
  <1>4. Replay(Home, ResumeID)' = got
    BY <1>1, <1>2 DEF Replay
  <1>5. ASSUME ~None(ChangesOf(got), a) PROVE Settled(a)'
    <2>1. Ends(Upstream', a, v, LastOf(ChangesOf(got), a, v))
      BY <1>1, <1>2, <1>3, <1>5, ReplaySettlesNext DEF Ends
    <2>. QED  BY <1>3, <1>4, <2>1 DEF Settled, ByReplay, Ends
  <1>6. ASSUME None(ChangesOf(got), a) PROVE Settled(a)'
    <2>1. PICK w \in Seq(Events), b \in Seq(Events) : w = wire /\ b = Behind /\ InFlight = w \o b
      BY BehindHas
    <2>2. PICK n \in {0, Len(w)} : n = Len(wire')
      <3>1. Len(<<>>) = 0
        OBVIOUS
      <3>. QED  BY <2>1, <3>1
    <2>3. None(ChangesOf(b), a) /\ (n = 0 => None(ChangesOf(w), a))
      BY <1>1, <1>2, <1>6, <2>1, <2>2, AllRepeated
    <2>4. Settled(a) => Ends(Upstream, a, v, OnPage(a))
      <3>1. CASE conn # NoChan
        <4>1. /\ None(ChangesOf(missed[conn]), a) /\ None(ChangesOf(chans[conn]), a)
              /\ None(ChangesOf(InLoop(conn)), a)
          BY <2>1, <2>3, <3>1, BehindHas
        <4>. QED  BY <1>3, <3>1, <4>1, SomeOrNone DEF Settled, ByHandler, Ends
      <3>2. CASE conn = NoChan
        <4>1. None(ChangesOf(Replay(Home, ResumeID)), a)
          BY <2>1, <2>3, <3>2, BehindHas
        <4>. QED  BY <1>3, <3>2, <4>1, SomeOrNone DEF Settled, ByReplay, Ends
      <3>. QED  BY <3>1, <3>2
    <2>5. OnPage(a) => OnPage(a)'
      <3>1. CASE wire' = wire
        BY <3>1 DEF OnPage, Ends
      <3>2. CASE wire' # wire
        <4>1. wire' = <<>> /\ n = 0 /\ None(ChangesOf(w), a)
          BY <2>2, <2>3, <3>2
        <4>. QED  BY <2>1, <4>1, NoEvents, SomeOrNone DEF OnPage, Ends
      <3>. QED  BY <3>1, <3>2
    <2>. QED  BY <1>3, <1>4, <1>6, <2>4, <2>5 DEF Settled, ByReplay, Ends
  <1>. QED  BY <1>5, <1>6

LEMMA SettledCluster ==
  ASSUME PageIsSound, NEW a \in Apps, Settled(a), ClusterNext, ~LostInWatchGap
  PROVE  Settled(a)'
  <1>. USE DEF PageIsSound
  <1>1. /\ objects \in [Apps -> Statuses \cup {Absent}] /\ Absent \notin Statuses
    BY LiveTableAssumption DEF TableInv, TableTyped
  <1>2. PICK b \in Apps, op \in {"added", "modified", "deleted"}, status \in Statuses \cup {Absent} :
          /\ op = "deleted" <=> status = Absent
          /\ ChangeObject(op, b, status) /\ status # objects[b]
    BY <1>1 DEF ClusterNext, CreateObject, ModifyObject, RemoveObject
  <1>3. UNCHANGED <<vars, watchOpen, browserVars>> /\ objects'[b] # objects[b]
    BY <1>1, <1>2 DEF ChangeObject
  <1>4. watchOpen /\ Upstream = kube /\ Upstream' = kube'
    BY <1>3 DEF LostInWatchGap, Upstream
  <1>5. /\ objects'[a] = IF a = b THEN status ELSE objects[a]
        /\ None(kube', a) <=> None(kube, a) /\ a # b
        /\ LastOf(kube', a, objects'[a]) <=> a = b \/ LastOf(kube, a, objects[a])
    BY <1>2, <1>4, ChangeShown
  <1>6. CASE a = b
    BY <1>4, <1>5, <1>6 DEF Settled, Ends
  <1>7. CASE a # b
    <2>1. OnPage(a)' <=> OnPage(a)
      BY <1>3, <1>5, <1>7 DEF OnPage, Ends, browserVars
    <2>2. CASE conn # NoChan
      <3>1. ByHandler(conn, a)' <=> ByHandler(conn, a)
        BY <1>3, <1>5, <1>7, <2>1 DEF ByHandler, Ends, InLoop, browserVars, vars, programVars
      <3>. QED  BY <1>3, <1>4, <1>5, <1>7, <2>2, <3>1 DEF Settled, Ends, browserVars
    <2>3. CASE conn = NoChan
      <3>1. ByReplay(a)' <=> ByReplay(a)
        BY <1>3, <1>5, <1>7, <2>1 DEF ByReplay, Replay, ResumeID, Ends, browserVars, vars, programVars
      <3>. QED  BY <1>3, <1>4, <1>5, <1>7, <2>3, <3>1 DEF Settled, Ends, browserVars
    <2>. QED  BY <2>2, <2>3
  <1>. QED  BY <1>6, <1>7

LEMMA SettledWatch ==
  ASSUME NEW a \in Apps, Settled(a), OpenWatch \/ BreakWatch, ~LostInWatchGap
  PROVE  Settled(a)'
  <1>1. OpenWatch
    BY DEF BreakWatch, LostInWatchGap
  <1>2. UNCHANGED <<vars, objects, browserVars>> /\ kube' = Relist /\ watchOpen' /\ ~watchOpen
    BY <1>1 DEF OpenWatch
  <1>3. Upstream' = Upstream
    BY <1>2 DEF Upstream
  <1>. QED
    BY <1>2, <1>3, Unmoved DEF vars, programVars, browserVars, InLoop, Replay, ResumeID

LEMMA SettledHandleEvent ==
  ASSUME PageIsSound, TableInv', AllStamped', NEW a \in Apps, Settled(a), BySome(a)',
         HandleEvent, ~LostWithoutReplay
  PROVE  Settled(a)'
  <1>. USE DEF PageIsSound
  <1>1. PICK x : x = Head(kube)
    OBVIOUS
  <1>2. /\ kube # <<>> /\ kube' = Tail(kube) /\ Publish(Home, x)
        /\ UNCHANGED <<objects, watchOpen, browserVars>>
    BY <1>1 DEF HandleEvent
  <1>3. PICK evt : evt = [EventID |-> nextEventID + 1, ns |-> Home, change |-> x]
    OBVIOUS
  <1>4. /\ published' = [published EXCEPT ![Home] = Append(@, evt)]
        /\ fan' = IF Audience(Home) = {} THEN Idle
                  ELSE [evt |-> evt, map |-> TRUE, todo |-> Audience(Home),
                        done |-> {}, sub |-> NoChan]
        /\ fan = Idle /\ nextEventID' = nextEventID + 1
        /\ UNCHANGED <<subscribers, tenant, chans, missed>>
    BY <1>2, <1>3 DEF Publish
  <1>5. kube \in Seq(Changes) /\ x \in Changes /\ nextEventID \in Nat
    BY <1>1, <1>2, WatcherAssumption DEF TableInv, TableTyped, BaseInv, TypeOK
  <1>6. watchOpen /\ Upstream = kube /\ Upstream' = Tail(kube)
    BY <1>2 DEF PageInv, WatchShape, Upstream
  <1>7. PICK v : v = objects[a] /\ v = objects'[a]
    BY <1>2
  <1>8. /\ None(kube, a) <=> None(Tail(kube), a) /\ x.app # a
        /\ LastOf(kube, a, v) <=>
             \/ LastOf(Tail(kube), a, v)
             \/ None(Tail(kube), a) /\ x.app = a /\ Shown(x) = v
    BY <1>1, <1>2, <1>5, OneLess
  <1>9. OnPage(a)' <=> OnPage(a)
    BY <1>2 DEF OnPage, Ends, browserVars
  <1>10. evt.change = x /\ evt.EventID = nextEventID + 1 /\ conn' = conn /\ wire' = wire
         /\ lastID' = lastID
    BY <1>2, <1>3 DEF browserVars
  <1>11. CASE conn # NoChan
    <2>1. conn \in Chans /\ tenant[conn] = Home
      BY <1>11 DEF TableInv, TableTyped, PageInv, SourceShape
    <2>2. conn \in Audience(Home)
      BY <2>1, LiveTableAssumption DEF TableInv, BaseInv, Registered, Audience
    <2>3. InLoop(conn) = <<>> /\ InLoop(conn)' = <<evt>>
      BY <1>4, <1>10, <1>11, <2>2 DEF InLoop, Idle
    <2>4. /\ None(ChangesOf(<<evt>>), a) <=> x.app # a
          /\ LastOf(ChangesOf(<<evt>>), a, v) <=> x.app = a /\ Shown(x) = v
      <3>1. evt \in Events
        <4>1. nextEventID + 1 \in 1 .. MaxEvents
          BY <1>2, <1>5, WatcherAssumption DEF Publish
        <4>. QED  BY <1>3, <1>5, <4>1, LiveTableAssumption DEF Events
      <3>. QED  BY <1>10, <3>1, OneEvent
    <2>5. None(ChangesOf(<<>>), a) /\ ~LastOf(ChangesOf(<<>>), a, v)
      BY NoEvents
    <2>. QED
      BY <1>4, <1>6, <1>7, <1>8, <1>9, <1>10, <1>11, <2>3, <2>4, <2>5 DEF Settled, ByHandler, Ends
  <1>12. CASE conn = NoChan
    <2>1. PICK id \in Nat : id = ResumeID /\ id = ResumeID'
      BY <1>10, ResumeType DEF TableInv, ResumeID
    <2>2. PICK was, got : was = Since(buffers[Home], id) /\ got = Since(buffers'[Home], id)
      OBVIOUS
    <2>3. Covered(ResumeID)' /\ id <= nextEventID
      BY <1>4, <1>5, <1>10, <1>12, <2>1 DEF LostWithoutReplay
    <2>4. /\ 0 < id
          /\ \A k \in DOMAIN published'[Home] : published'[Home][k].EventID > id =>
               \E i \in DOMAIN got : got[i] = published'[Home][k]
      BY <2>1, <2>2, <2>3 DEF Covered
    <2>5. Replay(Home, ResumeID) = was /\ Replay(Home, ResumeID)' = got
      BY <2>1, <2>2, <2>4 DEF Replay
    <2>6. /\ buffers[Home] \in Ring(Events) /\ published[Home] \in Seq(Events)
          /\ HoldsNewest(buffers[Home], published[Home])
      BY ReplayType DEF TableInv
    <2>7. published'[Home] = Append(published[Home], evt)
      BY <1>4, LiveTableAssumption DEF TableInv, BaseInv, TypeOK
    <2>8. ASSUME ~None(ChangesOf(got), a) PROVE Settled(a)'
      <3>1. Ends(Upstream', a, v, LastOf(ChangesOf(got), a, v))
        BY <1>7, <2>2, <2>8, ReplaySettlesNext DEF Ends
      <3>. QED  BY <1>7, <1>10, <1>12, <2>5, <3>1 DEF Settled, ByReplay, Ends
    <2>9. ASSUME None(ChangesOf(got), a) PROVE Settled(a)'
      <3>1. \A i \in DOMAIN got : got[i].change.app # a
        BY <2>9 DEF None, ChangesOf
      <3>2. x.app # a
        <4>1. Len(published[Home]) + 1 \in DOMAIN published'[Home]
              /\ published'[Home][Len(published[Home]) + 1] = evt
          BY <2>6, <2>7
        <4>2. PICK i \in DOMAIN got : got[i] = evt
          BY <1>5, <1>10, <2>3, <2>4, <4>1
        <4>. QED  BY <1>10, <3>1, <4>2
      <3>3. ASSUME NEW i \in DOMAIN was PROVE was[i].change.app # a
        <4>1. PICK k \in DOMAIN published[Home] : was[i] = published[Home][k]
          BY <2>2, <2>6, SinceReplays
        <4>2. was[i].EventID > id
          BY <2>2, <2>6, SinceInOrder
        <4>3. k \in DOMAIN published'[Home] /\ published'[Home][k] = was[i]
          BY <2>6, <2>7, <4>1
        <4>4. PICK j \in DOMAIN got : got[j] = was[i]
          BY <2>4, <4>2, <4>3
        <4>. QED  BY <3>1, <4>4
      <3>4. None(ChangesOf(was), a) /\ ~LastOf(ChangesOf(was), a, v) /\ ~LastOf(ChangesOf(got), a, v)
        BY <2>9, <3>3, SomeOrNone DEF None, ChangesOf
      <3>. QED
        BY <1>6, <1>7, <1>8, <1>9, <1>10, <1>12, <2>5, <2>9, <3>2, <3>4 DEF Settled, ByReplay, Ends
    <2>. QED  BY <2>8, <2>9
  <1>. QED  BY <1>11, <1>12

LEMMA SettledFanout ==
  ASSUME PageIsSound, NEW a \in Apps, Settled(a), Fanout, ~LostByDrop
  PROVE  Settled(a)'
  <1>. USE DEF PageIsSound
  <1>1. /\ up' /\ UNCHANGED <<objects, watchOpen, kube, lastID, conn, wire, rows>>
        /\ objects'[a] = objects[a] /\ rows'[a] = rows[a]
    BY DEF Fanout, clusterVars, browserVars
  <1>2. Upstream' = Upstream
    BY <1>1 DEF Upstream, Relist
  <1>3. conn \in Chans \cup {NoChan} /\ NoChan \notin Chans /\ fan.sub \notin fan.todo
        /\ chans \in [Chans -> Seq(Events)] /\ fan \in FanoutLoops
    BY WatcherAssumption DEF TableInv, TableTyped, BaseInv, TypeOK, OrderInv
  <1>4. ASSUME UNCHANGED <<buffers, missed>>,
               conn # NoChan => chans'[conn] = chans[conn] /\ InLoop(conn)' = InLoop(conn)
        PROVE  Settled(a)'
    <2>1. Replay(Home, ResumeID)' = Replay(Home, ResumeID)
      BY <1>1, <1>4 DEF Replay, ResumeID
    <2>. QED  BY <1>1, <1>2, <1>4, <2>1, Unmoved
  <1>5. ASSUME NEW c \in Chans, Pick(c) PROVE Settled(a)'
    <2>1. /\ fan.sub = NoChan /\ c \in fan.todo /\ UNCHANGED <<buffers, missed, chans>>
          /\ fan'.todo = fan.todo \ {c} /\ fan'.sub = c /\ fan'.evt = fan.evt
      BY <1>3, <1>5 DEF Pick, FanoutLoops
    <2>2. conn # NoChan => InLoop(conn)' = InLoop(conn)
      BY <1>1, <1>3, <2>1 DEF InLoop
    <2>. QED  BY <1>4, <2>1, <2>2
  <1>6. ASSUME NEW c \in Chans, Send(c) \/ Drop(c), c # conn PROVE Settled(a)'
    <2>1. /\ fan.sub = c /\ UNCHANGED <<buffers, missed>>
          /\ fan'.todo = fan.todo /\ fan'.sub = NoChan /\ fan'.evt = fan.evt
          /\ conn # NoChan => chans'[conn] = chans[conn]
      BY <1>3, <1>6 DEF Send, Drop, FanoutLoops
    <2>2. conn # NoChan => InLoop(conn)' = InLoop(conn)
      BY <1>1, <1>3, <1>6, <2>1 DEF InLoop
    <2>. QED  BY <1>4, <2>1, <2>2
  <1>7. ASSUME NEW c \in Chans, Send(c), c = conn PROVE Settled(a)'
    <2>1. /\ fan.sub = c /\ UNCHANGED <<buffers, missed>>
          /\ fan'.todo = fan.todo /\ fan'.sub = NoChan /\ conn # NoChan
          /\ chans'[c] = Append(chans[c], fan.evt)
      BY <1>3, <1>7 DEF Send, FanoutLoops
    <2>2. InLoop(conn) = <<fan.evt>> /\ InLoop(conn)' = <<>>
      BY <1>1, <1>3, <1>7, <2>1 DEF InLoop
    <2>3. PICK evt \in Events : evt = fan.evt
      BY <2>1, InLoopType DEF TableInv
    <2>4. PICK q \in Seq(Events) : q = chans[c]
      BY <1>3
    <2>5. PICK v : v = objects[a]
      OBVIOUS
    <2>6. /\ None(ChangesOf(Append(q, evt)), a) <=> None(ChangesOf(q), a) /\ evt.change.app # a
          /\ LastOf(ChangesOf(Append(q, evt)), a, v) <=>
               \/ evt.change.app = a /\ Shown(evt.change) = v
               \/ evt.change.app # a /\ LastOf(ChangesOf(q), a, v)
      BY OneMoreEvent
    <2>7. /\ None(ChangesOf(<<evt>>), a) <=> evt.change.app # a
          /\ LastOf(ChangesOf(<<evt>>), a, v) <=> evt.change.app = a /\ Shown(evt.change) = v
      BY OneEvent
    <2>8. None(ChangesOf(<<>>), a) /\ ~LastOf(ChangesOf(<<>>), a, v)
      BY NoEvents
    <2>9. OnPage(a)' <=> OnPage(a)
      BY <1>1 DEF OnPage, Ends
    <2>. QED
      BY <1>1, <1>2, <1>7, <2>1, <2>2, <2>3, <2>4, <2>5, <2>6, <2>7, <2>8, <2>9
         DEF Settled, ByHandler, Ends
  <1>8. ASSUME NEW c \in Chans, Drop(c) PROVE Settled(a)'
    <2>1. c # conn
      BY <1>3, <1>8 DEF LostByDrop
    <2>. QED  BY <1>6, <1>8, <2>1
  <1>9. CASE FanoutDone
    <2>1. /\ fan.sub = NoChan /\ fan.todo = {} /\ fan'.sub = NoChan /\ fan'.todo = {}
          /\ UNCHANGED <<buffers, missed, chans>>
      BY <1>9 DEF FanoutDone, Idle
    <2>2. conn # NoChan => InLoop(conn)' = InLoop(conn)
      BY <1>1, <2>1 DEF InLoop
    <2>. QED  BY <1>4, <2>1, <2>2
  <1>10. ~PanicOnSend
    BY <1>1 DEF PanicOnSend, Fresh
  <1>. QED
    BY <1>5, <1>6, <1>7, <1>8, <1>9, <1>10 DEF Fanout, FanoutStep

LEMMA SettledBrowser ==
  ASSUME PageIsSound, TableInv', AllStamped', NEW a \in Apps, Settled(a), BySome(a)',
         BrowserNext, ~LostWithoutReplay, ~LostByWindow(a), ~LostByRedraw(a)
  PROVE  Settled(a)'
  <1>. USE DEF PageIsSound
  <1>1. UNCHANGED <<vars, clusterVars>>
    BY DEF BrowserNext, ListApps, SaveSnapshot, Keep, LoadPage, Redraw,
                LeaveTenant, OpenSource, Refuse, LoseConnection, DeliverFrame, UserDelete,
           WindowEnds
  <1>2. /\ UNCHANGED <<objects, nextEventID, buffers, missed, chans, fan, published>>
        /\ objects'[a] = objects[a] /\ Upstream' = Upstream
    BY <1>1 DEF vars, programVars, historyVars, clusterVars, Upstream, Relist
  <1>3. ASSUME UNCHANGED <<conn, wire, lastID>>, rows'[a] = rows[a] PROVE Settled(a)'
    BY <1>2, <1>3, Unmoved DEF InLoop, Replay, ResumeID
  <1>4. CASE LoadPage
    <2>1. rows'[a] = objects[a] /\ conn' = NoChan /\ wire' = <<>> /\ lastID' = 0
      BY <1>4 DEF LoadPage, LostByRedraw
    <2>2. Replay(Home, ResumeID)' = <<>>
      BY <2>1 DEF Replay, ResumeID
    <2>3. None(ChangesOf(<<>>), a)
      BY NoEvents
    <2>4. None(Upstream, a) \/ LastOf(Upstream, a, objects[a])
      BY UpstreamShows DEF PageInv
    <2>. QED  BY <1>2, <2>1, <2>2, <2>3, <2>4 DEF Settled, ByReplay, OnPage, Ends
  <1>5. CASE OpenSource
    BY <1>3, <1>5 DEF OpenSource
  <1>6. CASE Refuse
    <2>1. conn = NoChan /\ wire = <<>> /\ (source = "connecting" => lastID = 0)
      BY <1>6 DEF Refuse, PageInv, SourceShape
    <2>2. UNCHANGED <<conn, wire, rows>> /\ lastID' = 0 /\ source' = "connecting"
      BY <1>6 DEF Refuse
    <2>3. CASE source = "connecting"
      BY <1>3, <2>1, <2>2, <2>3
    <2>4. CASE source # "connecting"
      <3>1. ResumeID' = 0
        BY <2>1, <2>2 DEF ResumeID
      <3>2. Covered(ResumeID)'
        BY <2>1, <2>2, <2>4 DEF LostWithoutReplay
      <3>. QED  BY <3>1, <3>2 DEF Covered
    <2>. QED  BY <2>3, <2>4
  <1>7. CASE LoseConnection
    <2>1. conn' = NoChan /\ wire' = <<>> /\ UNCHANGED rows /\ source' # source
      BY <1>7 DEF LoseConnection
    <2>2. /\ Covered(ResumeID)'
          /\ \A i \in Len(wire') + 1 .. Len(InFlight) :
               InFlight[i] \in Range(Since(buffers[Home], ResumeID)')
      BY <2>1 DEF LostWithoutReplay
    <2>3. ResumeID' > 0
      BY <2>2, ResumeTypeNext DEF Covered, TableInv
    <2>. QED  BY <1>2, <2>1, <2>2, <2>3, CutOff
  <1>8. CASE DeliverFrame
    <2>1. PICK evt : evt = Head(wire)
      OBVIOUS
    <2>2. /\ wire # <<>> /\ wire \in Seq(Events) /\ wire' = Tail(wire) /\ conn' = conn
          /\ lastID' = evt.EventID
          /\ rows' = IF Suppressed(evt.change) THEN rows ELSE Apply(evt.change, rows)
      BY <1>8, <2>1 DEF DeliverFrame, TableInv, TableTyped
    <2>3. evt \in Events /\ evt.change \in Changes
      <3>1. evt \in Events
        BY <2>1, <2>2, OneLessEvent
      <3>. QED  BY <3>1 DEF Events
    <2>4. PICK v : v = objects[a]
      OBVIOUS
    <2>5. /\ None(ChangesOf(wire), a) <=> None(ChangesOf(wire'), a) /\ evt.change.app # a
          /\ LastOf(ChangesOf(wire), a, v) <=>
               \/ LastOf(ChangesOf(wire'), a, v)
               \/ None(ChangesOf(wire'), a) /\ evt.change.app = a /\ Shown(evt.change) = v
      BY <2>1, <2>2, OneLessEvent
    <2>6. rows'[a] = IF evt.change.app = a THEN Shown(evt.change) ELSE rows[a]
      <3>1. evt.change.app = a => ~Suppressed(evt.change)
        BY <1>8, <2>1 DEF LostByWindow
      <3>2. rows \in [Apps -> Statuses \cup {Absent}]
        BY DEF TableInv, TableTyped
      <3>. QED  BY <2>2, <3>1, <3>2 DEF Apply, Shown
    <2>7. OnPage(a)' <=> OnPage(a)
      BY <1>2, <2>4, <2>5, <2>6 DEF OnPage, Ends
    <2>8. ResumeID' = ResumeID
      <3>1. CASE wire' = <<>>
        <4>1. Len(wire) = 1 /\ Head(wire) = wire[1]
          <5>1. PICK t \in Seq(Events), n \in Nat : t = Tail(wire) /\ n = Len(wire)
            BY <2>2
          <5>2. Len(t) = n - 1 /\ Head(wire) = wire[1]
            BY <2>2, <5>1
          <5>3. t = <<>>
            BY <2>2, <3>1, <5>1
          <5>4. Len(t) = 0
            BY <5>3
          <5>5. n = 1
            BY <5>1, <5>2, <5>4
          <5>. QED  BY <5>1, <5>2, <5>5
        <4>2. Last(wire) = evt
          BY <2>1, <4>1 DEF Last
        <4>. QED  BY <2>2, <3>1, <4>2 DEF ResumeID
      <3>2. CASE wire' # <<>>
        <4>1. Last(Tail(wire)) = Last(wire)
          BY <2>2, <3>2 DEF Last
        <4>. QED  BY <2>2, <3>2, <4>1 DEF ResumeID
      <3>. QED  BY <3>1, <3>2
    <2>9. CASE conn # NoChan
      <3>1. ByHandler(conn, a)' <=> ByHandler(conn, a)
        BY <1>2, <2>2, <2>7 DEF ByHandler, InLoop, Ends
      <3>. QED  BY <1>2, <2>2, <2>9, <3>1 DEF Settled, Ends
    <2>10. CASE conn = NoChan
      <3>1. ByReplay(a)' <=> ByReplay(a)
        BY <1>2, <2>7, <2>8 DEF ByReplay, Replay, Ends
      <3>. QED  BY <1>2, <2>2, <2>10, <3>1 DEF Settled, Ends
    <2>. QED  BY <2>9, <2>10
  <1>9. ASSUME NEW b \in Apps, UserDelete(b) PROVE Settled(a)'
    <2>1. a # b
      BY <1>9 DEF LostByWindow
    <2>2. UNCHANGED <<conn, wire, lastID>> /\ rows'[a] = rows[a]
      BY <1>9, <2>1 DEF UserDelete, TableInv, TableTyped
    <2>. QED  BY <1>3, <2>2
  <1>10. ASSUME NEW b \in Apps, WindowEnds(b) PROVE Settled(a)'
    BY <1>3, <1>10 DEF WindowEnds
  <1>11. CASE ListApps \/ SaveSnapshot
    BY <1>3, <1>11 DEF ListApps, SaveSnapshot, Keep
  <1>12. CASE Redraw
    <2>1. UNCHANGED <<conn, wire, lastID>> /\ rows'[a] = objects[a]
      BY <1>12 DEF Redraw, LostByRedraw
    <2>. QED  BY <1>2, <2>1, Unmoved DEF InLoop, Replay, ResumeID
  <1>13. CASE LeaveTenant
    <2>1. conn' = NoChan /\ source' # source /\ lastID' = 0 /\ wire' = <<>>
      BY <1>13 DEF LeaveTenant
    <2>2. ResumeID' = 0
      BY <2>1 DEF ResumeID
    <2>3. Covered(ResumeID)'
      BY <2>1 DEF LostWithoutReplay
    <2>. QED  BY <2>2, <2>3 DEF Covered
  <1>. QED  BY <1>4, <1>5, <1>6, <1>7, <1>8, <1>9, <1>10, <1>11, <1>12, <1>13 DEF BrowserNext

LEMMA SettledStream ==
  ASSUME PageIsSound, TableInv', NEW a \in Apps, Settled(a), BySome(a)',
         NEW c \in Chans, Stream(c)
  PROVE  Settled(a)'
  <1>. USE DEF PageIsSound
  <1>1. /\ Subscribe(c, Home, lastID) /\ conn' = c
        /\ UNCHANGED <<clusterVars, lastID, wire, rows>>
    BY DEF Stream
  <1>2. conn = NoChan /\ wire = <<>> /\ ResumeID = lastID
    BY DEF Stream, PageInv, SourceShape, ResumeID
  <1>3. /\ missed' = [missed EXCEPT ![c] = Replay(Home, lastID)]
        /\ fan' = fan \/ fan' = [fan EXCEPT !.todo = @ \cup {c}]
        /\ UNCHANGED <<chans, published>> /\ tenant[c] = Closed /\ c # fan.sub
        /\ (fan' # fan => Walking(Home))
    BY <1>1 DEF Subscribe
  <1>4. missed'[c] = Replay(Home, ResumeID)
    BY <1>2, <1>3 DEF TableInv, BaseInv, TypeOK
  <1>5. chans'[c] = <<>>
    BY <1>3 DEF IsolationInv, ClosedIsEmpty
  <1>6. /\ objects' = objects /\ Upstream' = Upstream /\ c # NoChan
        /\ (OnPage(a)' <=> OnPage(a))
    BY <1>1, WatcherAssumption DEF clusterVars, Upstream, Relist, OnPage, Ends
  <1>7. PICK v : v = objects[a]
    OBVIOUS
  <1>8. None(ChangesOf(<<>>), a) /\ ~LastOf(ChangesOf(<<>>), a, v)
    BY NoEvents
  <1>9. fan \in FanoutLoops
    BY DEF TableInv, BaseInv, TypeOK
  <1>10. c \notin fan.todo
    <2>1. ASSUME c \in fan.todo PROVE FALSE
      <3>1. fan.evt # NoEvent
        BY <2>1 DEF TableInv, BaseInv, LoopShape
      <3>2. tenant[c] = fan.evt.ns /\ fan.evt.ns \in Namespaces
        BY <1>9, <2>1, <3>1 DEF IsolationInv, LoopServes, FanoutLoops, Events
      <3>. QED  BY <1>3, <3>2, WatcherAssumption
    <2>. QED  BY <2>1
  <1>11. CASE fan' = fan
    <2>1. InLoop(c)' = <<>>
      BY <1>3, <1>10, <1>11 DEF InLoop
    <2>. QED
      BY <1>1, <1>2, <1>4, <1>5, <1>6, <1>7, <1>8, <2>1 DEF Settled, ByHandler, ByReplay, Ends
  <1>12. CASE fan' # fan
    <2>1. fan'.evt = fan.evt /\ c \in fan'.todo
      BY <1>3, <1>9, <1>12 DEF FanoutLoops
    <2>2. fan.evt # NoEvent /\ fan.evt.ns = Home
      BY <1>3, <1>12 DEF Walking
    <2>3. PICK evt \in Events : evt = fan.evt
      BY <1>9, <2>2 DEF FanoutLoops
    <2>4. InLoop(c)' = <<evt>>
      BY <2>1, <2>3 DEF InLoop
    <2>5. PICK log \in Seq(Events) : log = published[Home]
      BY ReplayType DEF TableInv
    <2>6. log # <<>> /\ evt = log[Len(log)]
      BY <2>2, <2>3, <2>5 DEF IsolationInv, LoopServes
    <2>7. /\ None(ChangesOf(<<evt>>), a) <=> evt.change.app # a
          /\ LastOf(ChangesOf(<<evt>>), a, v) <=> evt.change.app = a /\ Shown(evt.change) = v
      BY OneEvent
    <2>8. CASE evt.change.app # a
      BY <1>1, <1>2, <1>4, <1>5, <1>6, <1>7, <1>8, <2>4, <2>7, <2>8
         DEF Settled, ByHandler, ByReplay, Ends
    <2>9. CASE evt.change.app = a
      <3>1. /\ Len(log) \in DOMAIN log /\ DOMAIN ChangesOf(log) = DOMAIN log
            /\ \A k \in DOMAIN log : ChangesOf(log)[k] = log[k].change /\ ~(Len(log) < k)
        BY <2>6 DEF ChangesOf
      <3>2. ~None(ChangesOf(log), a)
        BY <2>6, <2>9, <3>1 DEF None
      <3>3. LastOf(ChangesOf(log), a, v) => Shown(evt.change) = v
        <4>1. ASSUME LastOf(ChangesOf(log), a, v) PROVE Shown(evt.change) = v
          <5>1. PICK k \in DOMAIN log :
                  /\ ChangesOf(log)[k].app = a /\ Shown(ChangesOf(log)[k]) = v
                  /\ \A j \in DOMAIN log : j > k => ChangesOf(log)[j].app # a
            BY <3>1, <4>1 DEF LastOf
          <5>2. k = Len(log)
            <6>1. ~(Len(log) > k)
              BY <2>6, <2>9, <3>1, <5>1
            <6>. QED  BY <3>1, <6>1
          <5>. QED  BY <2>6, <3>1, <5>1, <5>2
        <4>. QED  BY <4>1
      <3>4. BySome(a)' => Ends(Upstream, a, v, LastOf(ChangesOf(log), a, v))
        BY <1>3, <1>6, <1>7, <2>5, <3>2 DEF BySome, Ends
      <3>. QED
        BY <1>1, <1>6, <1>7, <2>4, <2>7, <2>9, <3>3, <3>4 DEF Settled, ByHandler, Ends
    <2>. QED  BY <2>8, <2>9
  <1>. QED  BY <1>11, <1>12

LEMMA SettledWrite ==
  ASSUME PageIsSound, NEW a \in Apps, Settled(a), NEW c \in Chans, WriteEvent(c)
  PROVE  Settled(a)'
  <1>. USE DEF PageIsSound
  <1>1. /\ UNCHANGED <<objects, watchOpen, kube, lastID, conn, rows, fan, buffers>>
        /\ objects'[a] = objects[a] /\ rows'[a] = rows[a]
    BY DEF WriteEvent, TakeMissed, Receive, clusterVars
  <1>2. Upstream' = Upstream
    BY <1>1 DEF Upstream, Relist
  <1>3. /\ chans \in [Chans -> Seq(Events)] /\ missed \in [Chans -> MissedSlices]
        /\ wire \in Seq(Events) /\ conn \in Chans \cup {NoChan} /\ NoChan \notin Chans
    BY WatcherAssumption DEF TableInv, TableTyped, BaseInv, TypeOK
  <1>4. \A d \in Chans \ {c} : missed'[d] = missed[d] /\ chans'[d] = chans[d]
    BY <1>3 DEF WriteEvent, TakeMissed, Receive
  <1>5. CASE c # conn
    <2>1. wire' = wire
      BY <1>5 DEF WriteEvent, Write
    <2>2. Replay(Home, ResumeID)' = Replay(Home, ResumeID)
      BY <1>1, <2>1 DEF Replay, ResumeID
    <2>3. conn # NoChan => InLoop(conn)' = InLoop(conn)
      BY <1>1 DEF InLoop
    <2>. QED  BY <1>1, <1>2, <1>3, <1>4, <1>5, <2>1, <2>2, <2>3, Unmoved
  <1>6. CASE c = conn
    <2>1. PICK v : v = objects[a]
      OBVIOUS
    <2>2. /\ InLoop(conn)' = InLoop(conn) /\ conn # NoChan
      BY <1>1, <1>3, <1>6 DEF InLoop
    <2>3. ASSUME NEW evt \in Events, wire' = Append(wire, evt)
          PROVE  /\ None(ChangesOf(wire'), a) <=> None(ChangesOf(wire), a) /\ evt.change.app # a
                 /\ LastOf(ChangesOf(wire'), a, v) <=>
                      \/ evt.change.app = a /\ Shown(evt.change) = v
                      \/ evt.change.app # a /\ LastOf(ChangesOf(wire), a, v)
      BY <1>3, <2>3, OneMoreEvent
    <2>4. ASSUME TakeMissed(c), NEW i \in DOMAIN missed[c] \ DOMAIN missed'[c], Write(c, missed[c][i])
          PROVE  Settled(a)'
      <3>1. PICK m \in MissedSlices : m = missed[c]
        BY <1>3
      <3>2. PICK rest : rest = missed'[c]
        OBVIOUS
      <3>3. PICK j \in DOMAIN m : /\ \A k \in DOMAIN m : j <= k
                                  /\ missed' = [missed EXCEPT ![c] = Restrict(@, DOMAIN @ \ {j})]
        BY <2>4, <3>1 DEF TakeMissed
      <3>4. rest = Restrict(m, DOMAIN m \ {j}) /\ chans'[c] = chans[c]
        BY <1>3, <2>4, <3>1, <3>3, <3>2 DEF TakeMissed
      <3>5. /\ DOMAIN rest = DOMAIN m \ {j}
            /\ None(ChangesOf(m), a) <=> None(ChangesOf(rest), a) /\ m[j].change.app # a
            /\ LastOf(ChangesOf(m), a, v) <=>
                 \/ LastOf(ChangesOf(rest), a, v)
                 \/ /\ None(ChangesOf(rest), a)
                    /\ m[j].change.app = a /\ Shown(m[j].change) = v
        BY <3>3, <3>4, FirstTaken
      <3>6. i = j
        BY <2>4, <3>1, <3>5, <3>2
      <3>7. PICK evt \in Events : evt = m[j]
        BY SliceType
      <3>8. wire' = Append(wire, evt)
        BY <1>6, <2>4, <3>1, <3>6, <3>7 DEF Write
      <3>9. /\ None(ChangesOf(wire'), a) <=> None(ChangesOf(wire), a) /\ evt.change.app # a
            /\ LastOf(ChangesOf(wire'), a, v) <=>
                 \/ evt.change.app = a /\ Shown(evt.change) = v
                 \/ evt.change.app # a /\ LastOf(ChangesOf(wire), a, v)
        BY <2>3, <3>8
      <3>. QED
        BY <1>1, <1>2, <1>6, <2>1, <2>2, <3>1, <3>4, <3>5, <3>7, <3>9, <3>2
           DEF Settled, ByHandler, OnPage, Ends
    <2>5. ASSUME Receive(c), Write(c, Head(chans[c])) PROVE Settled(a)'
      <3>1. PICK q \in Seq(Events) : q = chans[c]
        BY <1>3
      <3>2. q # <<>> /\ chans'[c] = Tail(q) /\ missed[c] = <<>> /\ missed'[c] = <<>>
        BY <1>3, <2>5, <3>1 DEF Receive, Flushed
      <3>3. PICK evt : evt = Head(q)
        OBVIOUS
      <3>4. /\ evt \in Events
            /\ None(ChangesOf(q), a) <=> None(ChangesOf(Tail(q)), a) /\ evt.change.app # a
            /\ LastOf(ChangesOf(q), a, v) <=>
                 \/ LastOf(ChangesOf(Tail(q)), a, v)
                 \/ /\ None(ChangesOf(Tail(q)), a)
                    /\ evt.change.app = a /\ Shown(evt.change) = v
        BY <3>2, <3>3, OneLessEvent
      <3>5. wire' = Append(wire, evt)
        BY <1>6, <2>5, <3>1, <3>3 DEF Write
      <3>6. /\ None(ChangesOf(wire'), a) <=> None(ChangesOf(wire), a) /\ evt.change.app # a
            /\ LastOf(ChangesOf(wire'), a, v) <=>
                 \/ evt.change.app = a /\ Shown(evt.change) = v
                 \/ evt.change.app # a /\ LastOf(ChangesOf(wire), a, v)
        BY <2>3, <3>4, <3>5
      <3>7. None(ChangesOf(<<>>), a) /\ ~LastOf(ChangesOf(<<>>), a, v)
        BY NoEvents
      <3>. QED
        BY <1>1, <1>2, <1>6, <2>1, <2>2, <3>1, <3>2, <3>4, <3>6, <3>7
           DEF Settled, ByHandler, OnPage, Ends
    <2>. QED  BY <2>4, <2>5 DEF WriteEvent
  <1>. QED  BY <1>5, <1>6

LEMMA SettledEnd ==
  ASSUME PageIsSound, TableInv', AllStamped', NEW a \in Apps, Settled(a), BySome(a)',
         NEW c \in Chans, EndStream(c), ~LostWithoutReplay
  PROVE  Settled(a)'
  <1>. USE DEF PageIsSound
  <1>1. /\ Unsubscribe(c) /\ conn' = IF c = conn THEN NoChan ELSE conn
        /\ UNCHANGED <<objects, watchOpen, kube, source, lastID, wire, rows, buffers>>
    BY DEF EndStream, Unsubscribe, clusterVars
  <1>2. Upstream' = Upstream
    BY <1>1 DEF Upstream, Relist
  <1>3. CASE c = conn
    <2>1. conn # NoChan /\ conn' = NoChan
      BY <1>1, <1>3, WatcherAssumption
    <2>2. /\ Covered(ResumeID)'
          /\ \A i \in Len(wire') + 1 .. Len(InFlight) :
               InFlight[i] \in Range(Since(buffers[Home], ResumeID)')
      BY <2>1 DEF LostWithoutReplay
    <2>3. ResumeID' > 0
      BY <2>2, ResumeTypeNext DEF Covered, TableInv
    <2>. QED  BY <1>1, <1>2, <2>1, <2>2, <2>3, CutOff
  <1>4. CASE c # conn
    <2>1. /\ chans \in [Chans -> Seq(Events)] /\ missed \in [Chans -> MissedSlices]
          /\ conn \in Chans \cup {NoChan} /\ NoChan \notin Chans /\ fan \in FanoutLoops
      BY WatcherAssumption DEF TableInv, TableTyped, BaseInv, TypeOK
    <2>2. /\ fan'.todo = fan.todo \ {c} /\ fan'.sub = fan.sub /\ fan'.evt = fan.evt
          /\ \A d \in Chans \ {c} : missed'[d] = missed[d] /\ chans'[d] = chans[d]
      BY <1>1, <2>1 DEF Unsubscribe, FanoutLoops
    <2>3. conn # NoChan => InLoop(conn)' = InLoop(conn)
      BY <1>1, <1>4, <2>1, <2>2 DEF InLoop
    <2>4. Replay(Home, ResumeID)' = Replay(Home, ResumeID)
      BY <1>1 DEF Replay, ResumeID
    <2>. QED  BY <1>1, <1>2, <1>4, <2>1, <2>2, <2>3, <2>4, Unmoved
  <1>. QED  BY <1>3, <1>4

(* A process that has published nothing has nothing to replay.             *)
LEMMA NothingToReplay ==
  ASSUME TableInv, IsolationInv, nextEventID = 0, NEW id
  PROVE  Since(buffers[Home], id) = Since(NewBuffer, id)
  <1>1. PICK log \in Seq(Events) : /\ log = published[Home]
                                   /\ HoldsNewest(buffers[Home], log)
    BY ReplayType DEF TableInv
  <1>2. log = <<>>
    <2>1. ASSUME log # <<>> PROVE FALSE
      <3>1. 1 \in DOMAIN log /\ log[1] \in Events
        BY <2>1
      <3>2. log[1].EventID <= 0 /\ log[1].EventID \in Nat /\ log[1].EventID >= 1
        BY <1>1, <3>1, LiveTableAssumption, WatcherAssumption DEF IsolationInv, Growing, Events
      <3>. QED  BY <3>2
    <2>. QED  BY <2>1
  <1>3. Count(buffers[Home]) = 0
    BY <1>1, <1>2, ReplayBufferAssumption DEF HoldsNewest
  <1>4. Count(NewBuffer) = 0
    BY DEF Count, NewBuffer
  <1>5. \A b : Count(b) = 0 => Since(b, id) = <<>>
    <2>. SUFFICES ASSUME NEW b, Count(b) = 0 PROVE Since(b, id) = <<>>
      OBVIOUS
    <2>1. {j \in 0 .. Count(b) - 1 : At(b, j).EventID > id} = {}
      OBVIOUS
    <2>. QED  BY <2>1 DEF Since
  <1>. QED  BY <1>3, <1>4, <1>5

LEMMA SettledFresh ==
  ASSUME PageIsSound, NEW a \in Apps, Settled(a),
         (Die /\ ~LostInWatchGap /\ ~LostWithoutReplay) \/ Reborn
  PROVE  Settled(a)'
  <1>. USE DEF PageIsSound
  <1>1. UNCHANGED <<objects, lastID, wire, rows>> /\ \E isUp \in BOOLEAN : Fresh(isUp)
    BY DEF Die, Reborn, PanicOnSend, FatalMapAccess, Kill, Restart, clusterVars, browserVars
  <1>2. nextEventID' = 0 /\ buffers'[Home] = NewBuffer
    BY <1>1, LiveTableAssumption DEF Fresh
  <1>3. Upstream' = Upstream
    <2>1. CASE Die
      BY <1>1, <2>1 DEF Die, LostInWatchGap, Upstream, Relist, Reborn, Restart, PageInv,
                        WatchShape, clusterVars
    <2>2. CASE Reborn
      BY <2>2 DEF Reborn, clusterVars, Upstream, Relist
    <2>. QED  BY <2>1, <2>2
  <1>4. conn = NoChan /\ conn' = NoChan /\ nextEventID = 0
    <2>1. CASE Reborn
      <3>1. ~up
        BY <2>1 DEF Reborn, Restart
      <3>2. conn = NoChan
        BY <3>1, WatcherAssumption, LiveTableAssumption
           DEF PageInv, WatchShape, SourceShape, TableInv, TableTyped
      <3>. QED  BY <2>1, <3>1, <3>2 DEF Reborn, browserVars, PageInv, WatchShape
    <2>2. CASE Die /\ ~LostWithoutReplay
      <3>1. conn' = NoChan /\ ~Covered(ResumeID)'
        <4>1. ResumeID' = ResumeID /\ ResumeID \in Nat
          BY <1>1, ResumeType DEF ResumeID, TableInv
        <4>. QED  BY <1>2, <2>2, <4>1 DEF Die, Covered
      <3>. QED  BY <1>2, <3>1, <2>2 DEF LostWithoutReplay
    <2>. QED  BY <2>1, <2>2
  <1>5. Replay(Home, ResumeID)' = Replay(Home, ResumeID)
    <2>1. PICK id : id = ResumeID /\ id = ResumeID'
      BY <1>1 DEF ResumeID
    <2>2. Since(buffers[Home], id) = Since(buffers'[Home], id)
      BY <1>2, <1>4, NothingToReplay
    <2>. QED  BY <2>1, <2>2 DEF Replay
  <1>. QED  BY <1>1, <1>3, <1>4, <1>5, Unmoved

LEMMA StaysSettled ==
  ASSUME PageIsSound, TableInv', AllStamped', [TableNext]_tableVars, NEW a \in Apps,
         Settled(a), BySome(a)',
         ~LostInWatchGap, ~LostWithoutReplay, ~LostByDrop, ~LostByWindow(a), ~LostByRedraw(a)
  PROVE  Settled(a)'
  <1>1. CASE UNCHANGED tableVars
    <2>1. UNCHANGED <<objects, watchOpen, kube, lastID, conn, wire, rows, missed, chans, fan, buffers>>
      BY <1>1 DEF tableVars, vars, programVars, clusterVars, browserVars
    <2>. QED  BY <2>1, Unmoved DEF InLoop, Replay, ResumeID, Upstream, Relist
  <1>2. CASE TableNext
    BY <1>2, SettledCluster, SettledWatch, SettledHandleEvent, SettledFanout, SettledBrowser,
       SettledStream, SettledWrite, SettledEnd, SettledFresh DEF TableNext, ServerNext
  <1>. QED  BY <1>1, <1>2

(* A row that what is on its way would have settled becomes stale only by  *)
(* the losses the code accepts: a watch that is down, a replay that does   *)
(* not reach back, a full channel, a pending delete, a table drawn from an *)
(* older list or snapshot under a stream that has moved on.  Subscribe and *)
(* the fan-out, the handler's two sources, the cut of a connection, a page *)
(* that is left and returned to, a restart of the process and the order of *)
(* the frames lose nothing else, whatever the number of applications and   *)
(* handlers and whatever is buffered where.                                *)
THEOREM LossesAreNamed == TableSpec => StaleOnlyByNamedLoss
  <1>. DEFINE Sound == TableInv /\ IsolationInv /\ OrderInv /\ PageInv
  <1>1. Sound /\ Sound' /\ [TableNext]_tableVars
          => \A a \in Apps : Stale(a)' =>
               \/ Stale(a) \/ Ghost(a)'
               \/ LostInWatchGap \/ LostWithoutReplay \/ LostByDrop
               \/ LostByWindow(a) \/ LostByRedraw(a)
    <2>. SUFFICES ASSUME Sound, Sound', [TableNext]_tableVars, NEW a \in Apps, Stale(a)'
                  PROVE  \/ Stale(a) \/ Ghost(a)'
                         \/ LostInWatchGap \/ LostWithoutReplay \/ LostByDrop
               \/ LostByWindow(a) \/ LostByRedraw(a)
      OBVIOUS
    <2>1. PageIsSound /\ TableInv' /\ AllStamped'
      BY AreStamped, AreStampedNext DEF PageIsSound, TableInv, IsolationInv
    <2>2. ~Settled(a)'
      BY StaleIsNext
    <2>3. BySome(a)' \/ Ghost(a)'
      BY NoGhostNext
    <2>4. Settled(a) \/ Stale(a)
      BY StaleIs
    <2>. QED  BY <2>1, <2>2, <2>3, <2>4, StaysSettled
  <1>. QED  BY <1>1, PageInductive, PTL DEF TableSpec, StaleOnlyByNamedLoss

=============================================================================
