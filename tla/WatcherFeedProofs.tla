------------------------- MODULE WatcherFeedProofs -------------------------
(***************************************************************************)
(* That the watcher keeps tenants apart and that it implements the feed of *)
(* module EventFeed, for every number of namespaces and channels, every    *)
(* ring size and every capacity.                                           *)
(***************************************************************************)
EXTENDS WatcherFeed, WatcherProofs, FiniteSetTheorems

(* The history of a namespace is its own, and stamped in order.            *)
Growing ==
  \A ns \in Namespaces :
    /\ \A k \in DOMAIN published[ns] :
         published[ns][k].ns = ns /\ published[ns][k].EventID <= nextEventID
    /\ \A j, k \in DOMAIN published[ns] :
         j < k => published[ns][j].EventID < published[ns][k].EventID

(* The loop delivers the newest event of a namespace, to channels of that  *)
(* namespace; the one it has picked may have been closed since.            *)
LoopServes ==
  fan.evt # NoEvent =>
    /\ published[fan.evt.ns] # <<>>
    /\ fan.evt = published[fan.evt.ns][Len(published[fan.evt.ns])]
    /\ \A c \in fan.todo : tenant[c] = fan.evt.ns
    /\ fan.sub # NoChan => tenant[fan.sub] \in {fan.evt.ns, Closed}

(* Nothing is left in a channel that is closed.                            *)
ClosedIsEmpty ==
  \A c \in Chans : tenant[c] = Closed =>
    chans[c] = <<>> /\ missed[c] = <<>> /\ seen[c] = <<>>

(* Whatever a handler has or has had is from the history of its namespace. *)
Holds(c, ns) ==
  /\ \A i \in DOMAIN chans[c] : chans[c][i] \in Range(published[ns])
  /\ \A i \in DOMAIN missed[c] : missed[c][i] \in Range(published[ns])
  /\ \A i \in DOMAIN seen[c] :
       \E k \in DOMAIN published[ns] : published[ns][k].EventID = seen[c][i]

HoldsOwn == \A ns \in Namespaces, c \in Chans : tenant[c] = ns => Holds(c, ns)

IsolationInv == Growing /\ LoopServes /\ ClosedIsEmpty /\ HoldsOwn

-----------------------------------------------------------------------------
(* The history of a namespace is a sequence of stamped events.             *)
LEMMA EventsPublished ==
  ASSUME BaseInv, NEW ns \in Namespaces
  PROVE  /\ published[ns] \in Seq(Events)
         /\ \A k \in DOMAIN published[ns] : published[ns][k].EventID \in Nat
  <1>1. published[ns] \in Seq(Events)
    BY DEF BaseInv, TypeOK
  <1>2. \A evt \in Events : evt.EventID \in Nat
    BY WatcherAssumption DEF Events
  <1>. QED  BY <1>1, <1>2

(* Each event has its own position in the history of its namespace.        *)
LEMMA GrowingStep == ASSUME BaseInv, Growing, [Next]_vars PROVE Growing'
  <1>1. ASSUME NEW ns \in Namespaces, NEW change \in Changes, Publish(ns, change)
        PROVE  Growing'
    <2>1. PICK evt : evt = [EventID |-> nextEventID + 1, ns |-> ns, change |-> change]
      OBVIOUS
    <2>2. /\ published' = [published EXCEPT ![ns] = Append(@, evt)]
          /\ nextEventID' = nextEventID + 1 /\ nextEventID \in Nat
      BY <1>1, <2>1, WatcherAssumption DEF Publish, BaseInv, TypeOK
    <2>3. evt.EventID = nextEventID + 1 /\ evt.ns = ns
      BY <2>1
    <2>4. ASSUME NEW other \in Namespaces
          PROVE  /\ \A k \in DOMAIN published'[other] :
                      published'[other][k].ns = other /\ published'[other][k].EventID <= nextEventID'
                 /\ \A j, k \in DOMAIN published'[other] :
                      j < k => published'[other][j].EventID < published'[other][k].EventID
      <3>1. /\ published[other] \in Seq(Events)
            /\ \A k \in DOMAIN published[other] : published[other][k].EventID \in Nat
        BY EventsPublished
      <3>2. CASE other # ns
        <4>1. published'[other] = published[other]
          BY <2>2, <3>2 DEF BaseInv, TypeOK
        <4>2. /\ \A k \in DOMAIN published[other] :
                   published[other][k].ns = other /\ published[other][k].EventID <= nextEventID
              /\ \A j, k \in DOMAIN published[other] :
                   j < k => published[other][j].EventID < published[other][k].EventID
          BY DEF Growing
        <4>3. \A k \in DOMAIN published[other] : published[other][k].EventID <= nextEventID'
          BY <2>2, <3>1, <4>2
        <4>. QED  BY <4>1, <4>2, <4>3
      <3>3. CASE other = ns
        <4>1. /\ Len(published[other]) \in Nat
              /\ DOMAIN published[other] = 1 .. Len(published[other])
              /\ DOMAIN published'[other] = 1 .. Len(published[other]) + 1
              /\ \A k \in 1 .. Len(published[other]) : published'[other][k] = published[other][k]
              /\ published'[other][Len(published[other]) + 1] = evt
          BY <2>2, <3>1, <3>3 DEF BaseInv, TypeOK
        <4>2. \A k \in 1 .. Len(published[other]) :
                published[other][k].ns = other /\ published[other][k].EventID <= nextEventID
          BY <4>1 DEF Growing
        <4>3. ASSUME NEW k \in DOMAIN published'[other]
              PROVE  /\ published'[other][k].ns = other
                     /\ published'[other][k].EventID <= nextEventID'
          <5>1. CASE k = Len(published[other]) + 1
            BY <2>2, <2>3, <3>3, <4>1, <5>1
          <5>2. CASE k \in 1 .. Len(published[other])
            BY <2>2, <3>1, <4>1, <4>2, <5>2
          <5>. QED  BY <4>1, <5>1, <5>2
        <4>4. ASSUME NEW j \in DOMAIN published'[other], NEW k \in DOMAIN published'[other], j < k
              PROVE  published'[other][j].EventID < published'[other][k].EventID
          <5>1. j \in 1 .. Len(published[other])
            BY <4>1, <4>4
          <5>2. CASE k = Len(published[other]) + 1
            BY <2>2, <2>3, <3>1, <4>1, <4>2, <5>1, <5>2
          <5>3. CASE k \in 1 .. Len(published[other])
            BY <4>1, <4>4, <5>1, <5>3 DEF Growing
          <5>. QED  BY <4>1, <5>2, <5>3
        <4>. QED  BY <4>3, <4>4
      <3>. QED  BY <3>2, <3>3
    <2>. QED  BY <2>4 DEF Growing
  <1>2. ASSUME UNCHANGED <<published, nextEventID>> PROVE Growing'
    BY <1>2 DEF Growing
  <1>3. ASSUME NEW isUp \in BOOLEAN, Fresh(isUp) PROVE Growing'
    BY <1>3 DEF Fresh, Growing
  <1>. QED
    BY <1>1, <1>2, <1>3
       DEF Next, FanoutStep, PanicOnSend, FatalMapAccess, Kill, Restart, Subscribe,
           Unsubscribe, Pick, Send, Drop, FanoutDone, TakeMissed, Receive, vars,
           programVars, historyVars

(* The loop serves one namespace, whoever comes and goes meanwhile.        *)
LEMMA LoopServesStep ==
  ASSUME BaseInv, LoopServes, [Next]_vars
  PROVE  LoopServes'
  <1>. USE DEF BaseInv
  <1>1. ASSUME NEW c \in Chans, NEW ns \in Namespaces, NEW sinceID \in 0 .. MaxEvents,
               Subscribe(c, ns, sinceID)
        PROVE  LoopServes'
    <2>1. /\ tenant' = [tenant EXCEPT ![c] = ns] /\ tenant[c] = Closed /\ c # fan.sub
          /\ published' = published
      BY <1>1 DEF Subscribe
    <2>2. /\ fan'.evt = fan.evt /\ fan'.sub = fan.sub
          /\ fan'.todo = fan.todo \/ (Walking(ns) /\ fan'.todo = fan.todo \cup {c})
      BY <1>1 DEF Subscribe, TypeOK, FanoutLoops
    <2>3. fan.sub \in Chans \cup {NoChan} /\ fan.todo \subseteq Chans
      BY DEF TypeOK, FanoutLoops
    <2>4. ASSUME fan.evt # NoEvent
          PROVE  /\ \A d \in fan'.todo : tenant'[d] = fan.evt.ns
                 /\ fan.sub # NoChan => tenant'[fan.sub] \in {fan.evt.ns, Closed}
      <3>1. fan.evt.ns \in Namespaces
        BY <2>4 DEF TypeOK, FanoutLoops, Events
      <3>2. \A d \in fan.todo : tenant[d] = fan.evt.ns /\ d # c
        BY <2>1, <2>4, <3>1, WatcherAssumption DEF LoopServes
      <3>3. \A d \in Chans \ {c} : tenant'[d] = tenant[d]
        BY <2>1 DEF TypeOK
      <3>4. tenant'[c] = ns
        BY <2>1 DEF TypeOK
      <3>5. \A d \in fan'.todo : tenant'[d] = fan.evt.ns
        BY <2>2, <2>3, <3>2, <3>3, <3>4 DEF Walking
      <3>6. fan.sub # NoChan => tenant'[fan.sub] \in {fan.evt.ns, Closed}
        BY <2>1, <2>3, <2>4, <3>3 DEF LoopServes
      <3>. QED  BY <3>5, <3>6
    <2>. QED  BY <2>1, <2>2, <2>4 DEF LoopServes
  <1>2. ASSUME NEW c \in Chans, Unsubscribe(c) PROVE LoopServes'
    <2>1. fan'.evt = fan.evt /\ fan'.todo = fan.todo \ {c} /\ fan'.sub = fan.sub
      BY <1>2 DEF Unsubscribe, TypeOK, FanoutLoops
    <2>2. /\ tenant'[c] = Closed /\ \A d \in Chans \ {c} : tenant'[d] = tenant[d]
          /\ published' = published
      BY <1>2 DEF Unsubscribe, TypeOK
    <2>3. fan.sub \in Chans \cup {NoChan} /\ fan.todo \subseteq Chans
      BY DEF TypeOK, FanoutLoops
    <2>. QED  BY <2>1, <2>2, <2>3 DEF LoopServes
  <1>3. ASSUME NEW ns \in Namespaces, NEW change \in Changes, Publish(ns, change)
        PROVE  LoopServes'
    <2>1. PICK evt : evt = [EventID |-> nextEventID + 1, ns |-> ns, change |-> change]
      OBVIOUS
    <2>2. /\ published' = [published EXCEPT ![ns] = Append(@, evt)]
          /\ tenant' = tenant
          /\ \/ fan' = Idle
             \/ fan' = [evt |-> evt, map |-> TRUE, todo |-> subscribers[ns],
                        done |-> {}, sub |-> NoChan]
      BY <1>3, <2>1 DEF Publish, Audience
    <2>3. published'[ns] = Append(published[ns], evt)
      BY <2>2 DEF TypeOK
    <2>4. /\ published'[ns] # <<>>
          /\ published'[ns][Len(published'[ns])] = evt
      <3>1. published[ns] \in Seq(Events)
        BY DEF TypeOK
      <3>. QED  BY <2>3, <3>1
    <2>5. \A c \in subscribers[ns] : tenant[c] = ns
      BY DEF Registered, TypeOK
    <2>6. evt.ns = ns
      BY <2>1
    <2>. QED  BY <2>2, <2>4, <2>5, <2>6 DEF LoopServes, Idle
  <1>4. ASSUME NEW c \in Chans, Pick(c) PROVE LoopServes'
    <2>1. /\ fan'.evt = fan.evt /\ fan'.todo = fan.todo \ {c} /\ fan'.sub = c
          /\ c \in fan.todo
      BY <1>4 DEF Pick, TypeOK, FanoutLoops
    <2>2. tenant' = tenant /\ published' = published
      BY <1>4 DEF Pick, historyVars
    <2>. QED  BY <2>1, <2>2 DEF LoopServes
  <1>5. ASSUME NEW c \in Chans, Send(c) \/ Drop(c) PROVE LoopServes'
    <2>1. fan'.evt = fan.evt /\ fan'.todo = fan.todo /\ fan'.sub = NoChan
      BY <1>5 DEF Send, Drop, TypeOK, FanoutLoops
    <2>2. tenant' = tenant /\ published' = published
      BY <1>5 DEF Send, Drop, historyVars
    <2>. QED  BY <2>1, <2>2 DEF LoopServes
  <1>6. ASSUME fan' = Idle PROVE LoopServes'
    BY <1>6 DEF LoopServes, Idle
  <1>7. ASSUME UNCHANGED <<fan, tenant, published>> PROVE LoopServes'
    BY <1>7 DEF LoopServes
  <1>. QED
    BY <1>1, <1>2, <1>3, <1>4, <1>5, <1>6, <1>7
       DEF Next, FanoutStep, PanicOnSend, FatalMapAccess, Kill, Restart, Fresh, FanoutDone,
           TakeMissed, Receive, vars, programVars, historyVars

(* Closing clears a channel, and nothing is put into a closed one.         *)
LEMMA ClosedStep ==
  ASSUME BaseInv, ClosedIsEmpty, [Next]_vars
  PROVE  ClosedIsEmpty'
  <1>. USE DEF BaseInv
  <1>1. ASSUME NEW c \in Chans, NEW ns \in Namespaces, NEW sinceID \in 0 .. MaxEvents,
               Subscribe(c, ns, sinceID)
        PROVE  ClosedIsEmpty'
    BY <1>1, WatcherAssumption DEF Subscribe, ClosedIsEmpty, TypeOK
  <1>2. ASSUME NEW c \in Chans, Unsubscribe(c) PROVE ClosedIsEmpty'
    BY <1>2, WatcherAssumption DEF Unsubscribe, ClosedIsEmpty, TypeOK
  <1>3. ASSUME NEW c \in Chans, Send(c) \/ TakeMissed(c) \/ Receive(c) PROVE ClosedIsEmpty'
    <2>1. /\ tenant' = tenant /\ tenant[c] # Closed
          /\ \A d \in Chans \ {c} :
               chans'[d] = chans[d] /\ missed'[d] = missed[d] /\ seen'[d] = seen[d]
      BY <1>3 DEF Send, TakeMissed, Receive, TypeOK, historyVars
    <2>. QED  BY <2>1 DEF ClosedIsEmpty
  <1>4. ASSUME UNCHANGED <<tenant, chans, missed, seen>> PROVE ClosedIsEmpty'
    BY <1>4 DEF ClosedIsEmpty
  <1>5. ASSUME NEW isUp \in BOOLEAN, Fresh(isUp) PROVE ClosedIsEmpty'
    BY <1>5 DEF Fresh, ClosedIsEmpty
  <1>. QED
    BY <1>1, <1>2, <1>3, <1>4, <1>5
       DEF Next, FanoutStep, PanicOnSend, FatalMapAccess, Kill, Restart, Publish, Pick, Drop,
           FanoutDone, vars, programVars, historyVars

(* Where a handler gets its events: the ring of its namespace, when it     *)
(* subscribes, and then the loop.                                          *)
LEMMA HoldsStep ==
  ASSUME BaseInv, Growing, LoopServes, ClosedIsEmpty, HoldsOwn, [Next]_vars
  PROVE  HoldsOwn'
  <1>. USE DEF BaseInv
  <1>1. ASSUME NEW c0 \in Chans, NEW ns0 \in Namespaces, NEW sinceID \in 0 .. MaxEvents,
               Subscribe(c0, ns0, sinceID),
               NEW ns \in Namespaces, NEW c \in Chans, tenant'[c] = ns
        PROVE  Holds(c, ns)'
    <2>1. UNCHANGED <<published, chans, seen>>
      BY <1>1 DEF Subscribe
    <2>2. CASE c = c0
      <3>1. ns = ns0 /\ chans[c] = <<>> /\ seen[c] = <<>> /\ missed'[c] = Replay(ns, sinceID)
        BY <1>1, <2>2 DEF Subscribe, ClosedIsEmpty, TypeOK
      <3>2. \A i \in DOMAIN Replay(ns, sinceID) :
              \E k \in DOMAIN published[ns] : Replay(ns, sinceID)[i] = published[ns][k]
        <4>1. /\ buffers[ns] \in Ring(Events) /\ published[ns] \in Seq(Events)
              /\ HoldsNewest(buffers[ns], published[ns])
          BY DEF TypeOK, RingHoldsNewest
        <4>. QED  BY <4>1, SinceReplays DEF Replay
      <3>. QED  BY <2>1, <3>1, <3>2 DEF Holds, Range
    <2>3. CASE c # c0
      <3>1. tenant[c] = ns /\ missed'[c] = missed[c]
        BY <1>1, <2>3 DEF Subscribe, TypeOK
      <3>. QED  BY <2>1, <3>1 DEF HoldsOwn, Holds
    <2>. QED  BY <2>2, <2>3
  <1>2. ASSUME NEW c0 \in Chans, Unsubscribe(c0),
               NEW ns \in Namespaces, NEW c \in Chans, tenant'[c] = ns
        PROVE  Holds(c, ns)'
    <2>1. c # c0
      BY <1>2, WatcherAssumption DEF Unsubscribe, TypeOK
    <2>2. /\ tenant[c] = ns /\ published' = published
          /\ missed'[c] = missed[c] /\ chans'[c] = chans[c] /\ seen'[c] = seen[c]
      BY <1>2, <2>1 DEF Unsubscribe, TypeOK
    <2>. QED  BY <2>2 DEF HoldsOwn, Holds
  <1>3. ASSUME NEW ns0 \in Namespaces, NEW change \in Changes, Publish(ns0, change),
               NEW ns \in Namespaces, NEW c \in Chans, tenant'[c] = ns
        PROVE  Holds(c, ns)'
    <2>1. PICK evt : published' = [published EXCEPT ![ns0] = Append(@, evt)]
      BY <1>3 DEF Publish
    <2>2. UNCHANGED <<tenant, chans, missed, seen>>
      BY <1>3 DEF Publish
    <2>3. \A k \in DOMAIN published[ns] :
            k \in DOMAIN published'[ns] /\ published'[ns][k] = published[ns][k]
      <3>1. published[ns] \in Seq(Events)
        BY DEF TypeOK
      <3>2. published'[ns] = published[ns] \/ published'[ns] = Append(published[ns], evt)
        BY <2>1 DEF TypeOK
      <3>. QED  BY <3>1, <3>2
    <2>4. Holds(c, ns)
      BY <1>3, <2>2 DEF HoldsOwn
    <2>. QED  BY <2>2, <2>3, <2>4 DEF Holds, Range
  <1>4. ASSUME NEW c0 \in Chans, Send(c0),
               NEW ns \in Namespaces, NEW c \in Chans, tenant'[c] = ns
        PROVE  Holds(c, ns)'
    <2>1. UNCHANGED <<tenant, published, missed, seen>>
      BY <1>4 DEF Send, historyVars
    <2>2. Holds(c, ns)
      BY <1>4, <2>1 DEF HoldsOwn
    <2>3. CASE c # c0
      <3>1. chans'[c] = chans[c]
        BY <1>4, <2>3 DEF Send, TypeOK
      <3>. QED  BY <2>1, <2>2, <3>1 DEF Holds
    <2>4. CASE c = c0
      <3>1. fan.evt \in Range(published[ns])
        <4>1. fan.evt # NoEvent /\ fan.sub = c /\ fan.sub # NoChan
          BY <1>4, <2>4, WatcherAssumption DEF Send, LoopShape
        <4>2. fan.evt.ns = ns
          BY <1>4, <2>1, <4>1, WatcherAssumption DEF LoopServes
        <4>3. published[ns] \in Seq(Events) /\ published[ns] # <<>>
              /\ fan.evt = published[ns][Len(published[ns])]
          BY <4>1, <4>2 DEF LoopServes, TypeOK
        <4>. QED  BY <4>3 DEF Range
      <3>2. chans[c] \in Seq(Events) /\ chans'[c] = Append(chans[c], fan.evt)
        BY <1>4, <2>4 DEF Send, TypeOK
      <3>3. \A i \in DOMAIN chans'[c] :
              chans'[c][i] = fan.evt \/ (i \in DOMAIN chans[c] /\ chans'[c][i] = chans[c][i])
        BY <3>2
      <3>. QED  BY <2>1, <2>2, <3>1, <3>3 DEF Holds
    <2>. QED  BY <2>3, <2>4
  <1>5. ASSUME NEW c0 \in Chans, TakeMissed(c0),
               NEW ns \in Namespaces, NEW c \in Chans, tenant'[c] = ns
        PROVE  Holds(c, ns)'
    <2>1. UNCHANGED <<tenant, published, chans>>
      BY <1>5 DEF TakeMissed
    <2>2. Holds(c, ns)
      BY <1>5, <2>1 DEF HoldsOwn
    <2>3. PICK i \in DOMAIN missed[c0] :
            /\ seen' = [seen EXCEPT ![c0] = Append(@, missed[c0][i].EventID)]
            /\ missed' = [missed EXCEPT ![c0] = Restrict(@, DOMAIN @ \ {i})]
      BY <1>5 DEF TakeMissed
    <2>4. CASE c # c0
      <3>1. seen'[c] = seen[c] /\ missed'[c] = missed[c]
        BY <2>3, <2>4 DEF TypeOK
      <3>. QED  BY <2>1, <2>2, <3>1 DEF Holds
    <2>5. CASE c = c0
      <3>1. /\ seen'[c] = Append(seen[c], missed[c][i].EventID) /\ seen[c] \in Seq(Nat)
            /\ missed'[c] = Restrict(missed[c], DOMAIN missed[c] \ {i})
        BY <2>3, <2>5 DEF TypeOK
      <3>2. \A j \in DOMAIN missed'[c] : j \in DOMAIN missed[c] /\ missed'[c][j] = missed[c][j]
        BY <3>1 DEF Restrict
      <3>3. PICK k \in DOMAIN published[ns] : missed[c][i] = published[ns][k]
        BY <2>2, <2>3, <2>5 DEF Holds, Range
      <3>4. \A j \in DOMAIN seen'[c] :
              \/ seen'[c][j] = published[ns][k].EventID
              \/ j \in DOMAIN seen[c] /\ seen'[c][j] = seen[c][j]
        BY <3>1, <3>3
      <3>. QED  BY <2>1, <2>2, <3>2, <3>4 DEF Holds
    <2>. QED  BY <2>4, <2>5
  <1>6. ASSUME NEW c0 \in Chans, Receive(c0),
               NEW ns \in Namespaces, NEW c \in Chans, tenant'[c] = ns
        PROVE  Holds(c, ns)'
    <2>1. UNCHANGED <<tenant, published, missed>>
      BY <1>6 DEF Receive
    <2>2. Holds(c, ns)
      BY <1>6, <2>1 DEF HoldsOwn
    <2>3. CASE c # c0
      <3>1. seen'[c] = seen[c] /\ chans'[c] = chans[c]
        BY <1>6, <2>3 DEF Receive, TypeOK
      <3>. QED  BY <2>1, <2>2, <3>1 DEF Holds
    <2>4. CASE c = c0
      <3>1. /\ chans[c] \in Seq(Events) /\ chans[c] # <<>> /\ chans'[c] = Tail(chans[c])
            /\ seen[c] \in Seq(Nat) /\ seen'[c] = Append(seen[c], chans[c][1].EventID)
        BY <1>6, <2>4 DEF Receive, TypeOK
      <3>2. \A j \in DOMAIN chans'[c] : \E l \in DOMAIN chans[c] : chans'[c][j] = chans[c][l]
        <4>1. \A j \in DOMAIN chans'[c] : j + 1 \in DOMAIN chans[c] /\ chans'[c][j] = chans[c][j + 1]
          BY <3>1
        <4>. QED  BY <4>1
      <3>3. PICK k \in DOMAIN published[ns] : chans[c][1] = published[ns][k]
        BY <2>2, <3>1 DEF Holds, Range
      <3>4. \A j \in DOMAIN seen'[c] :
              \/ seen'[c][j] = published[ns][k].EventID
              \/ j \in DOMAIN seen[c] /\ seen'[c][j] = seen[c][j]
        BY <3>1, <3>3
      <3>. QED  BY <2>1, <2>2, <3>2, <3>4 DEF Holds
    <2>. QED  BY <2>3, <2>4
  <1>7. ASSUME UNCHANGED <<tenant, published, chans, missed, seen>> PROVE HoldsOwn'
    BY <1>7 DEF HoldsOwn, Holds
  <1>8. ASSUME NEW isUp \in BOOLEAN, Fresh(isUp) PROVE HoldsOwn'
    BY <1>8, WatcherAssumption DEF Fresh, HoldsOwn
  <1>9. (\A ns \in Namespaces, c \in Chans : tenant'[c] = ns => Holds(c, ns)') => HoldsOwn'
    BY DEF HoldsOwn
  <1>. QED
    BY <1>1, <1>2, <1>3, <1>4, <1>5, <1>6, <1>7, <1>8, <1>9
       DEF Next, FanoutStep, PanicOnSend, FatalMapAccess, Kill, Restart, Pick, Drop,
           FanoutDone, vars, programVars, historyVars

LEMMA Isolated == Spec => []IsolationInv
  <1>1. Init => IsolationInv
    BY WatcherAssumption
       DEF Init, Idle, IsolationInv, Growing, LoopServes, ClosedIsEmpty, HoldsOwn
  <1>2. BaseInv /\ IsolationInv /\ [Next]_vars => IsolationInv'
    BY GrowingStep, LoopServesStep, ClosedStep, HoldsStep DEF IsolationInv
  <1>3. IInv => BaseInv
    BY DEF IInv
  <1>. QED  BY <1>1, <1>2, <1>3, Inductive, PTL DEF Spec

(* No handler ever has or has had an event of another tenant than the one  *)
(* SSEHandler authorized, whatever channels are closed and used again, by  *)
(* whom, while the loop is under way.                                      *)
THEOREM TenantsApart == Spec => []TenantIsolation
  <1>1. BaseInv /\ IsolationInv => TenantIsolation
    BY DEF BaseInv, IsolationInv, HoldsOwn, Holds, Growing, TenantIsolation, Range
  <1>2. IInv => BaseInv
    BY DEF IInv
  <1>. QED  BY <1>1, <1>2, Isolated, Inductive, PTL

-----------------------------------------------------------------------------
(* A history in which each event has a larger ID than those before it.     *)
Stamped(log) ==
  /\ log \in Seq(Events)
  /\ \A j, k \in DOMAIN log : j < k => log[j].EventID < log[k].EventID

(* As many events as the history has are up to its k-th event: k.          *)
LEMMA Positions ==
  ASSUME NEW log, Stamped(log)
  PROVE  /\ Len(log) \in Nat /\ DOMAIN log = 1 .. Len(log)
         /\ \A k \in 1 .. Len(log) : log[k].EventID \in Nat
         /\ \A id : UpTo(log, id) \in 0 .. Len(log)
         /\ \A k \in 1 .. Len(log) : UpTo(log, log[k].EventID) = k
         /\ \A id \in Nat, k \in 1 .. Len(log) : log[k].EventID > id => UpTo(log, id) < k
         /\ \A id \in Nat : (\A k \in 1 .. Len(log) : log[k].EventID <= id)
                              => UpTo(log, id) = Len(log)
  <1>. DEFINE n == Len(log)
  <1>1. n \in Nat /\ DOMAIN log = 1 .. n
    BY DEF Stamped
  <1>2. \A k \in 1 .. n : log[k].EventID \in Nat
    <2>1. \A evt \in Events : evt.EventID \in Nat
      BY WatcherAssumption DEF Events
    <2>. QED  BY <1>1, <2>1 DEF Stamped
  <1>3. \A j, k \in 1 .. n : j < k => log[j].EventID < log[k].EventID
    BY <1>1 DEF Stamped
  <1>4. ASSUME NEW k \in 0 .. n
        PROVE  IsFiniteSet(1 .. k) /\ Cardinality(1 .. k) = k
    <2>1. k \in Int /\ k >= 0
      BY <1>1
    <2>2. IsFiniteSet(1 .. k) /\ Cardinality(1 .. k) = IF 1 > k THEN 0 ELSE k - 1 + 1
      BY <2>1, FS_Interval
    <2>. QED  BY <2>1, <2>2
  <1>5. ASSUME NEW id, NEW k \in 0 .. n, {j \in 1 .. n : log[j].EventID <= id} \subseteq 1 .. k
        PROVE  UpTo(log, id) \in 0 .. k
    <2>1. PICK S : S = {j \in 1 .. n : log[j].EventID <= id}
      OBVIOUS
    <2>2. IsFiniteSet(S) /\ Cardinality(S) <= Cardinality(1 .. k)
      BY <1>4, <1>5, <2>1, FS_Subset
    <2>3. Cardinality(S) \in Nat
      BY <2>2, FS_CardinalityType
    <2>4. UpTo(log, id) = Cardinality(S)
      BY <1>1, <2>1 DEF UpTo
    <2>. QED  BY <1>1, <1>4, <2>2, <2>3, <2>4
  <1>6. ASSUME NEW id PROVE UpTo(log, id) \in 0 .. n
    BY <1>1, <1>5
  <1>7. ASSUME NEW k \in 1 .. n PROVE UpTo(log, log[k].EventID) = k
    <2>1. ASSUME NEW j \in 1 .. n PROVE log[j].EventID <= log[k].EventID <=> j <= k
      <3>1. CASE j < k
        BY <1>1, <1>2, <1>3, <3>1
      <3>2. CASE j = k
        BY <1>1, <1>2, <3>2
      <3>3. CASE k < j
        <4>1. log[k].EventID < log[j].EventID
          BY <1>3, <3>3
        <4>. QED  BY <1>1, <1>2, <3>3, <4>1
      <3>. QED  BY <1>1, <3>1, <3>2, <3>3
    <2>2. {j \in DOMAIN log : log[j].EventID <= log[k].EventID} = 1 .. k
      BY <1>1, <2>1
    <2>3. UpTo(log, log[k].EventID) = Cardinality(1 .. k)
      BY <2>2, Zenon DEF UpTo
    <2>4. k \in 0 .. n
      BY <1>1
    <2>. QED  BY <1>4, <2>3, <2>4, Zenon
  <1>8. ASSUME NEW id \in Nat, NEW k \in 1 .. n, log[k].EventID > id
        PROVE  UpTo(log, id) < k
    <2>1. ASSUME NEW j \in 1 .. n, log[j].EventID <= id PROVE j <= k - 1
      <3>1. CASE j > k
        <4>1. log[k].EventID < log[j].EventID
          BY <1>3, <3>1
        <4>. QED  BY <1>2, <1>8, <2>1, <4>1
      <3>2. CASE j = k
        BY <1>2, <1>8, <2>1, <3>2
      <3>. QED  BY <1>1, <3>1, <3>2
    <2>2. {j \in 1 .. n : log[j].EventID <= id} \subseteq 1 .. (k - 1)
      BY <1>1, <2>1
    <2>3. k - 1 \in 0 .. n
      BY <1>1
    <2>4. UpTo(log, id) \in 0 .. (k - 1)
      BY <1>5, <2>2, <2>3
    <2>. QED  BY <1>1, <2>4
  <1>9. ASSUME NEW id \in Nat, \A k \in 1 .. n : log[k].EventID <= id
        PROVE  UpTo(log, id) = n
    <2>1. {j \in DOMAIN log : log[j].EventID <= id} = 1 .. n
      BY <1>1, <1>9
    <2>2. UpTo(log, id) = Cardinality(1 .. n)
      BY <2>1, Zenon DEF UpTo
    <2>3. n \in 0 .. n
      BY <1>1
    <2>. QED  BY <1>4, <2>2, <2>3, Zenon
  <1>. QED  BY <1>1, <1>2, <1>6, <1>7, <1>8, <1>9

(* A new event leaves the positions of the earlier ones and the start of a *)
(* client, whatever ID that came with, where they were.                    *)
LEMMA PositionsStay ==
  ASSUME NEW log, NEW evt \in Events, Stamped(log), Stamped(Append(log, evt)),
         NEW sinceID \in Nat, NEW len \in 0 .. Len(log)
  PROVE  /\ \A k \in 1 .. Len(log) : UpTo(Append(log, evt), log[k].EventID) = k
         /\ Start(Append(log, evt), sinceID, len) = Start(log, sinceID, len)
  <1>1. PICK new : new = Append(log, evt)
    OBVIOUS
  <1>2. /\ Len(log) \in Nat /\ Len(new) = Len(log) + 1 /\ DOMAIN new = 1 .. Len(new)
        /\ DOMAIN log = 1 .. Len(log)
        /\ \A k \in 1 .. Len(log) : new[k] = log[k]
        /\ new[Len(new)] = evt
    BY <1>1 DEF Stamped
  <1>3. /\ \A k \in 1 .. Len(new) : new[k].EventID \in Nat
        /\ \A k \in 1 .. Len(new) : UpTo(new, new[k].EventID) = k
    BY <1>1, Positions
  <1>4. \A k \in 1 .. Len(log) : log[k].EventID < evt.EventID
    BY <1>1, <1>2 DEF Stamped
  <1>5. CASE sinceID >= evt.EventID
    <2>1. \A k \in 1 .. Len(log) : log[k].EventID <= sinceID
      BY <1>2, <1>3, <1>4, <1>5
    <2>2. \A k \in 1 .. Len(new) : new[k].EventID <= sinceID
      BY <1>2, <1>3, <1>5, <2>1
    <2>3. UpTo(log, sinceID) = Len(log) /\ UpTo(new, sinceID) = Len(new)
      BY <1>1, <2>1, <2>2, Positions
    <2>. QED  BY <1>1, <1>2, <1>3, <2>3 DEF Start
  <1>6. CASE sinceID < evt.EventID
    <2>1. evt.EventID \in Nat
      BY <1>2, <1>3
    <2>2. {k \in DOMAIN new : new[k].EventID <= sinceID}
            = {k \in DOMAIN log : log[k].EventID <= sinceID}
      BY <1>2, <1>6, <2>1
    <2>3. UpTo(new, sinceID) = UpTo(log, sinceID)
      BY <2>2 DEF UpTo
    <2>. QED  BY <1>1, <1>2, <1>3, <2>3 DEF Start
  <1>7. evt.EventID \in Nat
    BY <1>2, <1>3
  <1>. QED  BY <1>5, <1>6, <1>7

(* The path of a feed, position by position.                               *)
Leads(path, log, start, ids) ==
  /\ path \in Seq(Nat)
  /\ Len(path) = Len(ids) + 1
  /\ path[1] = start
  /\ \A i \in 1 .. Len(ids) : path[i + 1] = UpTo(log, ids[i])

LEMMA PathShape ==
  ASSUME NEW log, Stamped(log), NEW sinceID, NEW len \in Nat, NEW ids \in Seq(Nat)
  PROVE  Leads(Path(log, sinceID, len, ids), log, Start(log, sinceID, len), ids)
  <1>1. \A id : UpTo(log, id) \in Nat
    BY Positions
  <1>2. Start(log, sinceID, len) \in Nat
    BY <1>1 DEF Start
  <1>3. PICK tail : tail = [i \in DOMAIN ids |-> UpTo(log, ids[i])]
    OBVIOUS
  <1>4. /\ tail \in Seq(Nat) /\ Len(tail) = Len(ids)
        /\ \A i \in 1 .. Len(ids) : tail[i] = UpTo(log, ids[i])
    <2>1. Len(ids) \in Nat /\ DOMAIN ids = 1 .. Len(ids)
      OBVIOUS
    <2>2. tail \in [1 .. Len(ids) -> Nat]
      BY <1>1, <1>3, <2>1
    <2>. QED  BY <1>3, <2>1, <2>2
  <1>5. Path(log, sinceID, len, ids) = <<Start(log, sinceID, len)>> \o tail
    BY <1>3 DEF Path
  <1>. QED  BY <1>2, <1>4, <1>5 DEF Leads

(* One event more moves the cursor to it, and is a repetition if that is   *)
(* where the cursor was.                                                   *)
LEMMA PathGrows ==
  ASSUME NEW log, Stamped(log), NEW sinceID, NEW len \in Nat, NEW ids \in Seq(Nat),
         NEW id \in Nat,
         NEW path, path = Path(log, sinceID, len, ids),
         NEW longer, longer = Path(log, sinceID, len, Append(ids, id))
  PROVE  /\ Cursor(longer) = UpTo(log, id)
         /\ Repeats(longer) <=> Repeats(path) \/ UpTo(log, id) = Cursor(path)
  <1>1. Len(ids) \in Nat /\ Append(ids, id) \in Seq(Nat) /\ Len(Append(ids, id)) = Len(ids) + 1
        /\ Append(ids, id)[Len(ids) + 1] = id
        /\ \A i \in 1 .. Len(ids) : Append(ids, id)[i] = ids[i]
    OBVIOUS
  <1>2. /\ path \in Seq(Nat) /\ Len(path) = Len(ids) + 1
        /\ path[1] = Start(log, sinceID, len)
        /\ \A i \in 1 .. Len(ids) : path[i + 1] = UpTo(log, ids[i])
    <2>1. Leads(path, log, Start(log, sinceID, len), ids)
      BY PathShape
    <2>. QED  BY <2>1 DEF Leads
  <1>3. /\ longer \in Seq(Nat) /\ Len(longer) = Len(ids) + 2
        /\ longer[1] = Start(log, sinceID, len)
        /\ \A i \in 1 .. Len(ids) + 1 : longer[i + 1] = UpTo(log, Append(ids, id)[i])
    <2>1. PICK more : more = Append(ids, id) /\ more \in Seq(Nat)
      BY <1>1
    <2>2. Leads(longer, log, Start(log, sinceID, len), more)
      BY <2>1, PathShape
    <2>3. Len(more) = Len(ids) + 1 /\ (Len(ids) + 1) + 1 = Len(ids) + 2
      BY <1>1, <2>1
    <2>. QED  BY <2>1, <2>2, <2>3 DEF Leads
  <1>4. longer[Len(ids) + 2] = UpTo(log, id)
    <2>1. Len(ids) + 1 \in 1 .. Len(ids) + 1 /\ (Len(ids) + 1) + 1 = Len(ids) + 2
      BY <1>1
    <2>2. longer[(Len(ids) + 1) + 1] = UpTo(log, Append(ids, id)[Len(ids) + 1])
      BY <1>3, <2>1
    <2>. QED  BY <1>1, <2>1, <2>2
  <1>5. \A i \in 1 .. Len(ids) + 1 : longer[i] = path[i]
    <2>1. ASSUME NEW i \in 1 .. Len(ids) + 1 PROVE longer[i] = path[i]
      <3>1. CASE i = 1
        BY <1>2, <1>3, <3>1
      <3>2. CASE i # 1
        <4>1. i - 1 \in 1 .. Len(ids) /\ (i - 1) + 1 = i
          BY <1>1, <3>2
        <4>2. path[i] = UpTo(log, ids[i - 1])
          BY <1>2, <4>1
        <4>3. longer[i] = UpTo(log, Append(ids, id)[i - 1])
          <5>1. i - 1 \in 1 .. Len(ids) + 1
            BY <1>1, <4>1
          <5>. QED  BY <1>3, <4>1, <5>1
        <4>. QED  BY <1>1, <4>1, <4>2, <4>3
      <3>. QED  BY <3>1, <3>2
    <2>. QED  BY <2>1
  <1>6. Cursor(path) = path[Len(ids) + 1] /\ Cursor(longer) = longer[Len(ids) + 2]
    BY <1>2, <1>3 DEF Cursor
  <1>7. /\ Repeats(path) <=> \E i \in 1 .. Len(ids) : path[i] = path[i + 1]
        /\ Repeats(longer) <=> \E i \in 1 .. Len(ids) + 1 : longer[i] = longer[i + 1]
    BY <1>1, <1>2, <1>3 DEF Repeats
  <1>8. ASSUME Repeats(longer) PROVE Repeats(path) \/ UpTo(log, id) = Cursor(path)
    <2>1. PICK i \in 1 .. Len(ids) + 1 : longer[i] = longer[i + 1]
      BY <1>7, <1>8
    <2>2. CASE i = Len(ids) + 1
      BY <1>1, <1>4, <1>5, <1>6, <2>1, <2>2
    <2>3. CASE i # Len(ids) + 1
      <3>1. i \in 1 .. Len(ids) /\ i + 1 \in 1 .. Len(ids) + 1
        BY <1>1, <2>3
      <3>. QED  BY <1>5, <1>7, <2>1, <3>1
    <2>. QED  BY <2>2, <2>3
  <1>9. ASSUME Repeats(path) PROVE Repeats(longer)
    <2>1. PICK i \in 1 .. Len(ids) : path[i] = path[i + 1]
      BY <1>7, <1>9
    <2>2. i \in 1 .. Len(ids) + 1 /\ i + 1 \in 1 .. Len(ids) + 1
      BY <1>1
    <2>. QED  BY <1>5, <1>7, <2>1, <2>2
  <1>10. ASSUME UpTo(log, id) = Cursor(path) PROVE Repeats(longer)
    <2>1. Len(ids) + 1 \in 1 .. Len(ids) + 1 /\ (Len(ids) + 1) + 1 = Len(ids) + 2
      BY <1>1
    <2>2. longer[Len(ids) + 1] = longer[(Len(ids) + 1) + 1]
      BY <1>4, <1>5, <1>6, <1>10, <2>1
    <2>. QED  BY <1>7, <2>1, <2>2
  <1>. QED  BY <1>4, <1>6, <1>8, <1>9, <1>10

-----------------------------------------------------------------------------
(* Where the handler of c stands, and whether it has had an event twice.   *)
Where(c, ns) == Cursor(PathOf(c, ns))
Again(c, ns) == Repeats(PathOf(c, ns))
Pos(ns, evt) == UpTo(published[ns], evt.EventID)

(* The slice is ahead of the handler and ends where the channel begins.    *)
SliceInOrder(c, ns) ==
  /\ missed[c] # <<>> => ~Again(c, ns)
  /\ \A i \in DOMAIN missed[c] :
       Where(c, ns) < Pos(ns, missed[c][i]) /\ Pos(ns, missed[c][i]) <= joined[c]
  /\ \A i, j \in DOMAIN missed[c] :
       i < j => Pos(ns, missed[c][i]) < Pos(ns, missed[c][j])

(* An event c may get from its channel.  It may have had it in the slice,  *)
(* if it subscribed between the stamp and the delivery; not more than once.*)
Ahead(c, ns, evt) ==
  /\ joined[c] <= Pos(ns, evt)
  /\ Where(c, ns) <= Pos(ns, evt)
  /\ Again(c, ns) => Where(c, ns) < Pos(ns, evt)

ChanInOrder(c, ns) ==
  /\ \A i \in DOMAIN chans[c] : Ahead(c, ns, chans[c][i])
  /\ \A i, j \in DOMAIN chans[c] : i < j => Pos(ns, chans[c][i]) < Pos(ns, chans[c][j])

LoopInOrder(c, ns) ==
  c \in fan.todo \/ c = fan.sub =>
    /\ Ahead(c, ns, fan.evt)
    /\ \A i \in DOMAIN chans[c] : Pos(ns, chans[c][i]) < Pos(ns, fan.evt)

InOrder(c, ns) ==
  /\ joined[c] <= Len(published[ns])
  /\ Where(c, ns) \in 0 .. Len(published[ns])
  /\ SliceInOrder(c, ns)
  /\ ChanInOrder(c, ns)
  /\ LoopInOrder(c, ns)

OrderInv ==
  /\ fan.sub \notin fan.todo
  /\ \A ns \in Namespaces, c \in Chans : tenant[c] = ns => InOrder(c, ns)

AllStamped == \A ns \in Namespaces : Stamped(published[ns])

LEMMA AreStamped == BaseInv /\ Growing => AllStamped
  BY DEF BaseInv, TypeOK, Growing, AllStamped, Stamped

LEMMA AreStampedNext == BaseInv' /\ Growing' => AllStamped'
  BY DEF BaseInv, TypeOK, Growing, AllStamped, Stamped

(* A channel no field of which changes, and that the loop does not newly   *)
(* turn to, stays in order.                                                *)
LEMMA Untouched ==
  ASSUME NEW ns \in Namespaces, NEW c \in Chans, InOrder(c, ns),
         published'[ns] = published[ns], since'[c] = since[c], joined'[c] = joined[c],
         seen'[c] = seen[c], missed'[c] = missed[c], chans'[c] = chans[c],
         c \in fan'.todo \/ c = fan'.sub =>
           (c \in fan.todo \/ c = fan.sub) /\ fan'.evt = fan.evt
  PROVE  InOrder(c, ns)'
  <1>1. /\ Where(c, ns)' = Where(c, ns) /\ (Again(c, ns)' <=> Again(c, ns))
        /\ \A evt : Pos(ns, evt)' = Pos(ns, evt)
    BY DEF Where, Again, Pos, PathOf
  <1>2. \A evt : Ahead(c, ns, evt)' <=> Ahead(c, ns, evt)
    BY <1>1 DEF Ahead
  <1>3. SliceInOrder(c, ns)'
    BY <1>1 DEF InOrder, SliceInOrder
  <1>4. ChanInOrder(c, ns)'
    BY <1>1, <1>2 DEF InOrder, ChanInOrder
  <1>5. LoopInOrder(c, ns)'
    BY <1>1, <1>2 DEF InOrder, LoopInOrder
  <1>. QED  BY <1>1, <1>3, <1>4, <1>5 DEF InOrder

(* An event of the history has a position in it.                           *)
LEMMA EventAt ==
  ASSUME AllStamped, NEW ns \in Namespaces, NEW evt \in Range(published[ns])
  PROVE  /\ Pos(ns, evt) \in 1 .. Len(published[ns]) /\ Len(published[ns]) \in Nat
         /\ evt = published[ns][Pos(ns, evt)]
         /\ evt.EventID \in Nat
  <1>1. Stamped(published[ns])
    BY DEF AllStamped
  <1>2. PICK k \in DOMAIN published[ns] : evt = published[ns][k]
    BY DEF Range
  <1>3. /\ Len(published[ns]) \in Nat /\ DOMAIN published[ns] = 1 .. Len(published[ns])
        /\ \A i \in 1 .. Len(published[ns]) : published[ns][i].EventID \in Nat
        /\ \A i \in 1 .. Len(published[ns]) : UpTo(published[ns], published[ns][i].EventID) = i
    BY <1>1, Positions
  <1>. QED  BY <1>2, <1>3 DEF Pos

LEMMA OrderSubscribe ==
  ASSUME BaseInv, IsolationInv, OrderInv, AllStamped,
         NEW c0 \in Chans, NEW ns0 \in Namespaces, NEW sinceID \in 0 .. MaxEvents,
         Subscribe(c0, ns0, sinceID)
  PROVE  OrderInv' /\ ~Again(c0, ns0)'
  <1>. USE DEF BaseInv, IsolationInv
  <1>1. /\ tenant[c0] = Closed /\ c0 # fan.sub
        /\ published' = published /\ chans' = chans /\ seen' = seen
        /\ tenant' = [tenant EXCEPT ![c0] = ns0]
        /\ missed' = [missed EXCEPT ![c0] = Replay(ns0, sinceID)]
        /\ since' = [since EXCEPT ![c0] = sinceID]
        /\ joined' = [joined EXCEPT ![c0] = Len(published[ns0])]
    BY DEF Subscribe
  <1>2. /\ fan'.evt = fan.evt /\ fan'.sub = fan.sub
        /\ fan'.todo = fan.todo \/ (Walking(ns0) /\ fan'.todo = fan.todo \cup {c0})
    BY DEF Subscribe, TypeOK, FanoutLoops
  <1>3. c0 \notin fan.todo
    <2>1. CASE fan.evt = NoEvent
      BY <2>1 DEF LoopShape
    <2>2. CASE fan.evt # NoEvent
      <3>1. fan.evt.ns \in Namespaces
        BY <2>2 DEF TypeOK, FanoutLoops, Events
      <3>. QED  BY <1>1, <2>2, <3>1, WatcherAssumption DEF LoopServes
    <2>. QED  BY <2>1, <2>2
  <1>4. fan'.sub \notin fan'.todo
    BY <1>1, <1>2 DEF OrderInv
  <1>5. ASSUME NEW c \in Chans, NEW ns \in Namespaces, tenant'[c] = ns, c # c0
        PROVE  InOrder(c, ns)'
    <2>1. InOrder(c, ns)
      BY <1>1, <1>5 DEF OrderInv, TypeOK
    <2>2. /\ since'[c] = since[c] /\ joined'[c] = joined[c] /\ missed'[c] = missed[c]
          /\ c \in fan'.todo \/ c = fan'.sub => c \in fan.todo \/ c = fan.sub
      BY <1>1, <1>2, <1>5 DEF TypeOK
    <2>. QED  BY <1>1, <1>2, <2>1, <2>2, Untouched
  <1>6. ASSUME NEW ns \in Namespaces, tenant'[c0] = ns
        PROVE  InOrder(c0, ns)' /\ ~Again(c0, ns)'
    <2>. DEFINE log == published[ns]
                n == Len(log)
    <2>1. /\ ns = ns0 /\ chans[c0] = <<>> /\ seen[c0] = <<>>
          /\ missed'[c0] = Replay(ns, sinceID)
          /\ since'[c0] = sinceID /\ joined'[c0] = n
      BY <1>1, <1>6 DEF ClosedIsEmpty, TypeOK
    <2>2. Stamped(log) /\ sinceID \in Nat
      BY WatcherAssumption DEF AllStamped
    <2>3. /\ n \in Nat /\ DOMAIN log = 1 .. n
          /\ \A k \in 1 .. n : log[k].EventID \in Nat
          /\ UpTo(log, sinceID) \in 0 .. n
          /\ \A k \in 1 .. n : UpTo(log, log[k].EventID) = k
          /\ \A k \in 1 .. n : log[k].EventID > sinceID => UpTo(log, sinceID) < k
      BY <2>2, Positions
    <2>4. Where(c0, ns)' = Start(log, sinceID, n) /\ ~Again(c0, ns)'
      <3>1. PICK path : path = Path(log, sinceID, n, <<>>)
        OBVIOUS
      <3>2. <<>> \in Seq(Nat) /\ Len(<<>>) = 0
        OBVIOUS
      <3>3. Leads(path, log, Start(log, sinceID, n), <<>>)
        BY <2>2, <2>3, <3>1, <3>2, PathShape
      <3>4. Len(path) = 1 /\ path[1] = Start(log, sinceID, n)
        BY <3>2, <3>3 DEF Leads
      <3>5. PathOf(c0, ns)' = path
        BY <1>1, <2>1, <3>1 DEF PathOf
      <3>6. Cursor(path) = Start(log, sinceID, n) /\ ~Repeats(path)
        BY <3>4 DEF Cursor, Repeats
      <3>. QED  BY <3>5, <3>6 DEF Where, Again
    <2>5. Start(log, sinceID, n) \in 0 .. n
      BY <2>3 DEF Start
    <2>6. \A evt : Pos(ns, evt)' = UpTo(log, evt.EventID)
      BY <1>1 DEF Pos
    <2>7. SliceInOrder(c0, ns)'
      <3>1. CASE sinceID = 0
        <4>1. missed'[c0] = <<>>
          BY <2>1, <3>1 DEF Replay
        <4>. QED  BY <4>1 DEF SliceInOrder
      <3>2. CASE sinceID > 0
        <4>1. PICK m : m = Since(buffers[ns], sinceID)
          OBVIOUS
        <4>2. missed'[c0] = m
          BY <2>1, <3>2, <4>1 DEF Replay
        <4>3. /\ buffers[ns] \in Ring(Events) /\ log \in Seq(Events)
              /\ HoldsNewest(buffers[ns], log)
          BY DEF TypeOK, RingHoldsNewest
        <4>4. /\ \A i \in DOMAIN m : m[i].EventID > sinceID
              /\ \A i, j \in DOMAIN m : i < j =>
                   \E k, l \in DOMAIN log : k < l /\ m[i] = log[k] /\ m[j] = log[l]
          BY <4>1, <4>3, SinceInOrder
        <4>5. \A i \in DOMAIN m : \E k \in DOMAIN log : m[i] = log[k]
          BY <4>1, <4>3, SinceReplays
        <4>6. ASSUME NEW i \in DOMAIN m
              PROVE  /\ Start(log, sinceID, n) < UpTo(log, m[i].EventID)
                     /\ UpTo(log, m[i].EventID) <= n
          <5>1. PICK k \in 1 .. n : m[i] = log[k]
            BY <2>3, <4>5, <4>6
          <5>2. UpTo(log, m[i].EventID) = k /\ UpTo(log, sinceID) < k
            BY <2>3, <4>4, <5>1
          <5>3. Start(log, sinceID, n) = UpTo(log, sinceID)
            BY <2>3, <3>2, <5>1, <5>2 DEF Start
          <5>. QED  BY <2>3, <5>1, <5>2, <5>3
        <4>7. ASSUME NEW i \in DOMAIN m, NEW j \in DOMAIN m, i < j
              PROVE  UpTo(log, m[i].EventID) < UpTo(log, m[j].EventID)
          <5>1. PICK k \in 1 .. n, l \in 1 .. n : k < l /\ m[i] = log[k] /\ m[j] = log[l]
            BY <2>3, <4>4, <4>7
          <5>. QED  BY <2>3, <5>1
        <4>. QED  BY <2>1, <2>4, <2>6, <4>2, <4>6, <4>7 DEF SliceInOrder
      <3>. QED  BY <2>2, <3>1, <3>2
    <2>8. ChanInOrder(c0, ns)'
      BY <1>1, <2>1 DEF ChanInOrder
    <2>9. LoopInOrder(c0, ns)'
      <3>1. SUFFICES ASSUME c0 \in fan'.todo
                     PROVE  /\ Ahead(c0, ns, fan.evt)'
                            /\ \A i \in DOMAIN chans[c0] : Pos(ns, chans[c0][i])' < Pos(ns, fan.evt)'
        BY <1>1, <1>2 DEF LoopInOrder
      <3>2. fan.evt # NoEvent /\ fan.evt.ns = ns
        BY <1>2, <1>3, <2>1, <3>1 DEF Walking
      <3>3. log # <<>> /\ fan.evt = log[n]
        BY <3>2 DEF LoopServes
      <3>4. UpTo(log, fan.evt.EventID) = n
        BY <2>2, <2>3, <3>3 DEF Stamped
      <3>. QED  BY <1>2, <2>1, <2>3, <2>4, <2>5, <2>6, <3>4 DEF Ahead
    <2>. QED  BY <1>1, <2>1, <2>3, <2>4, <2>5, <2>7, <2>8, <2>9 DEF InOrder
  <1>7. tenant'[c0] = ns0
    BY <1>1 DEF TypeOK
  <1>. QED  BY <1>4, <1>5, <1>6, <1>7 DEF OrderInv

LEMMA OrderUnsubscribe ==
  ASSUME BaseInv, OrderInv, NEW c0 \in Chans, Unsubscribe(c0)
  PROVE  OrderInv'
  <1>. USE DEF BaseInv
  <1>1. fan'.evt = fan.evt /\ fan'.todo = fan.todo \ {c0} /\ fan'.sub = fan.sub
    BY DEF Unsubscribe, TypeOK, FanoutLoops
  <1>2. ASSUME NEW ns \in Namespaces, NEW c \in Chans, tenant'[c] = ns PROVE InOrder(c, ns)'
    <2>1. c # c0
      BY <1>2, WatcherAssumption DEF Unsubscribe, TypeOK
    <2>2. /\ tenant[c] = ns /\ published' = published /\ since'[c] = since[c]
          /\ joined'[c] = joined[c] /\ seen'[c] = seen[c] /\ missed'[c] = missed[c]
          /\ chans'[c] = chans[c]
      BY <1>2, <2>1 DEF Unsubscribe, TypeOK
    <2>3. InOrder(c, ns)
      BY <2>2 DEF OrderInv
    <2>. QED  BY <1>1, <2>2, <2>3, Untouched
  <1>. QED  BY <1>1, <1>2 DEF OrderInv

(* A new event is behind nothing, and leaves all positions as they were.   *)
LEMMA OrderPublish ==
  ASSUME BaseInv, BaseInv', IsolationInv, OrderInv, AllStamped, AllStamped',
         NEW ns0 \in Namespaces, NEW change \in Changes, Publish(ns0, change)
  PROVE  /\ OrderInv'
         /\ \A ns \in Namespaces, c \in Chans : tenant[c] = ns =>
              /\ Where(c, ns)' = Where(c, ns)
              /\ Again(c, ns)' <=> Again(c, ns)
  <1>0. PICK evt : evt = [EventID |-> nextEventID + 1, ns |-> ns0, change |-> change]
    OBVIOUS
  <1>1. /\ published' = [published EXCEPT ![ns0] = Append(@, evt)]
        /\ fan' = Idle \/ fan' = [evt |-> evt, map |-> TRUE, todo |-> subscribers[ns0],
                                  done |-> {}, sub |-> NoChan]
        /\ UNCHANGED <<tenant, chans, missed, since, joined, seen>>
    BY <1>0 DEF Publish, Audience
  <1>2. nextEventID + 1 \in 1 .. MaxEvents
    BY WatcherAssumption DEF Publish, BaseInv, TypeOK
  <1>3. evt \in Events
    BY <1>0, <1>2 DEF Events
  <1>4. fan'.sub = NoChan /\ (fan'.todo = {} \/ (fan'.todo = subscribers[ns0] /\ fan'.evt = evt))
    BY <1>1 DEF Idle
  <1>5. fan'.sub \notin fan'.todo
    BY <1>4, WatcherAssumption DEF BaseInv, TypeOK
  <1>6. ASSUME NEW ns \in Namespaces, NEW c \in Chans, tenant[c] = ns
        PROVE  InOrder(c, ns) /\ Holds(c, ns)
    BY <1>6 DEF OrderInv, IsolationInv, HoldsOwn
  <1>7. ASSUME NEW ns \in Namespaces, NEW c \in Chans, tenant[c] = ns, ns # ns0
        PROVE  /\ InOrder(c, ns)'
               /\ Where(c, ns)' = Where(c, ns)
               /\ Again(c, ns)' <=> Again(c, ns)
    <2>1. published'[ns] = published[ns]
      BY <1>1, <1>7 DEF BaseInv, TypeOK
    <2>2. c \notin fan'.todo /\ c # fan'.sub
      BY <1>4, <1>7, WatcherAssumption DEF BaseInv, Registered
    <2>3. InOrder(c, ns)
      BY <1>6, <1>7
    <2>4. InOrder(c, ns)'
      BY <1>1, <2>1, <2>2, <2>3, Untouched
    <2>. QED  BY <1>1, <2>1, <2>4 DEF Where, Again, PathOf
  <1>8. ASSUME NEW c \in Chans, tenant[c] = ns0
        PROVE  /\ InOrder(c, ns0)'
               /\ Where(c, ns0)' = Where(c, ns0)
               /\ Again(c, ns0)' <=> Again(c, ns0)
    <2>1. InOrder(c, ns0) /\ Holds(c, ns0)
      BY <1>6, <1>8
    <2>2. PICK log, new : log = published[ns0] /\ new = published'[ns0] /\ new = Append(log, evt)
      BY <1>1 DEF BaseInv, TypeOK
    <2>3. /\ Stamped(log) /\ Stamped(new) /\ log \in Seq(Events)
      BY <2>2 DEF AllStamped, Stamped
    <2>4. /\ Len(log) \in Nat /\ DOMAIN log = 1 .. Len(log) /\ Len(new) = Len(log) + 1
          /\ new[Len(log) + 1] = evt
          /\ \A k \in 1 .. Len(log) : UpTo(log, log[k].EventID) = k
          /\ \A k \in 1 .. Len(new) : UpTo(new, new[k].EventID) = k
      <3>1. \A k \in 1 .. Len(log) : UpTo(log, log[k].EventID) = k
        BY <2>3, Positions
      <3>2. \A k \in 1 .. Len(new) : UpTo(new, new[k].EventID) = k
        BY <2>3, Positions
      <3>. QED  BY <1>3, <2>2, <2>3, <3>1, <3>2
    <2>5. since[c] \in Nat /\ joined[c] \in 0 .. Len(log) /\ seen[c] \in Seq(Nat)
      BY <2>1, <2>2, <2>4 DEF InOrder, BaseInv, TypeOK
    <2>6. /\ \A k \in 1 .. Len(log) : UpTo(new, log[k].EventID) = k
          /\ Start(new, since[c], joined[c]) = Start(log, since[c], joined[c])
      BY <1>3, <2>2, <2>3, <2>5, PositionsStay
    <2>7. \A i \in DOMAIN seen[c] : UpTo(new, seen[c][i]) = UpTo(log, seen[c][i])
      BY <2>1, <2>2, <2>4, <2>6 DEF Holds
    <2>8. Path(new, since[c], joined[c], seen[c]) = Path(log, since[c], joined[c], seen[c])
      BY <2>6, <2>7 DEF Path
    <2>9. PathOf(c, ns0)' = PathOf(c, ns0)
      BY <1>1, <2>2, <2>8 DEF PathOf
    <2>10. Where(c, ns0)' = Where(c, ns0) /\ (Again(c, ns0)' <=> Again(c, ns0))
      BY <2>9 DEF Where, Again
    <2>11. ASSUME NEW e \in Range(log)
           PROVE  Pos(ns0, e)' = Pos(ns0, e) /\ Pos(ns0, e) \in 1 .. Len(log)
      BY <2>2, <2>4, <2>6 DEF Range, Pos
    <2>12. /\ \A i \in DOMAIN missed[c] : missed[c][i] \in Range(log)
           /\ \A i \in DOMAIN chans[c] : chans[c][i] \in Range(log)
      BY <2>1, <2>2 DEF Holds
    <2>13. SliceInOrder(c, ns0)'
      BY <1>1, <2>1, <2>10, <2>11, <2>12 DEF InOrder, SliceInOrder
    <2>14. ChanInOrder(c, ns0)'
      BY <1>1, <2>1, <2>10, <2>11, <2>12 DEF InOrder, ChanInOrder, Ahead
    <2>15. LoopInOrder(c, ns0)'
      <3>1. SUFFICES ASSUME c \in fan'.todo
                     PROVE  /\ Ahead(c, ns0, evt)'
                            /\ \A i \in DOMAIN chans[c] : Pos(ns0, chans[c][i])' < Pos(ns0, evt)'
        BY <1>1, <1>4, WatcherAssumption DEF LoopInOrder
      <3>2. Pos(ns0, evt)' = Len(log) + 1
        BY <2>2, <2>4 DEF Pos
      <3>3. joined'[c] \in 0 .. Len(log) /\ Where(c, ns0)' \in 0 .. Len(log)
        BY <1>1, <2>1, <2>2, <2>5, <2>10 DEF InOrder
      <3>4. Ahead(c, ns0, evt)'
        BY <2>4, <3>2, <3>3 DEF Ahead
      <3>. QED  BY <1>1, <2>4, <2>11, <2>12, <3>2, <3>4
    <2>16. joined'[c] <= Len(new) /\ Where(c, ns0)' \in 0 .. Len(new)
      BY <1>1, <2>1, <2>2, <2>4, <2>5, <2>10 DEF InOrder
    <2>. QED  BY <2>2, <2>10, <2>13, <2>14, <2>15, <2>16 DEF InOrder
  <1>9. OrderInv'
    BY <1>1, <1>5, <1>7, <1>8 DEF OrderInv
  <1>. QED  BY <1>7, <1>8, <1>9

LEMMA OrderFanout ==
  ASSUME BaseInv, IsolationInv, OrderInv, AllStamped, NEW c0 \in Chans,
         Pick(c0) \/ Send(c0) \/ Drop(c0) \/ FanoutDone
  PROVE  OrderInv'
  <1>. USE DEF BaseInv
  <1>1. UNCHANGED <<tenant, published, since, joined, seen, missed>>
    BY DEF Pick, Send, Drop, FanoutDone, historyVars
  <1>2. /\ fan'.todo \subseteq fan.todo /\ fan'.sub \notin fan'.todo
        /\ \A c \in Chans : c \in fan'.todo \/ c = fan'.sub =>
             (c \in fan.todo \/ c = fan.sub) /\ fan'.evt = fan.evt
    <2>1. CASE Pick(c0)
      BY <2>1 DEF Pick, TypeOK, FanoutLoops
    <2>2. CASE Send(c0) \/ Drop(c0)
      <3>1. fan'.evt = fan.evt /\ fan'.todo = fan.todo /\ fan'.sub = NoChan
        BY <2>2 DEF Send, Drop, TypeOK, FanoutLoops
      <3>2. NoChan \notin fan.todo
        BY WatcherAssumption DEF TypeOK, FanoutLoops
      <3>. QED  BY <3>1, <3>2, WatcherAssumption
    <2>3. CASE FanoutDone
      BY <2>3, WatcherAssumption DEF FanoutDone, Idle
    <2>. QED  BY <2>1, <2>2, <2>3
  <1>3. ASSUME NEW ns \in Namespaces, NEW c \in Chans, tenant'[c] = ns PROVE InOrder(c, ns)'
    <2>1. InOrder(c, ns)
      BY <1>1, <1>3 DEF OrderInv
    <2>2. CASE chans'[c] = chans[c]
      BY <1>1, <1>2, <2>1, <2>2, Untouched
    <2>3. CASE Send(c0) /\ c = c0
      <3>1. /\ chans[c] \in Seq(Events) /\ chans'[c] = Append(chans[c], fan.evt)
            /\ fan.sub = c
        BY <2>3 DEF Send, TypeOK
      <3>2. c \notin fan'.todo /\ c # fan'.sub
        BY <2>3, <3>1, WatcherAssumption DEF OrderInv, Send, TypeOK, FanoutLoops
      <3>3. /\ Where(c, ns)' = Where(c, ns) /\ (Again(c, ns)' <=> Again(c, ns))
            /\ \A evt : Pos(ns, evt)' = Pos(ns, evt)
        BY <1>1 DEF Where, Again, Pos, PathOf
      <3>4. \A evt : Ahead(c, ns, evt)' <=> Ahead(c, ns, evt)
        BY <1>1, <3>3 DEF Ahead
      <3>5. /\ Ahead(c, ns, fan.evt)
            /\ \A i \in DOMAIN chans[c] : Pos(ns, chans[c][i]) < Pos(ns, fan.evt)
        BY <2>1, <3>1 DEF InOrder, LoopInOrder
      <3>6. /\ DOMAIN chans[c] = 1 .. Len(chans[c]) /\ Len(chans[c]) \in Nat
            /\ DOMAIN chans'[c] = 1 .. Len(chans[c]) + 1
            /\ chans'[c][Len(chans[c]) + 1] = fan.evt
            /\ \A i \in DOMAIN chans[c] : chans'[c][i] = chans[c][i]
        BY <3>1
      <3>7. /\ \A i \in DOMAIN chans[c] : Ahead(c, ns, chans[c][i])
            /\ \A i, j \in DOMAIN chans[c] : i < j => Pos(ns, chans[c][i]) < Pos(ns, chans[c][j])
        BY <2>1 DEF InOrder, ChanInOrder
      <3>8. \A i \in DOMAIN chans'[c] : Ahead(c, ns, chans'[c][i])
        <4>1. ASSUME NEW i \in DOMAIN chans'[c] PROVE Ahead(c, ns, chans'[c][i])
          <5>1. i = Len(chans[c]) + 1 \/ i \in DOMAIN chans[c]
            BY <3>6
          <5>. QED  BY <3>5, <3>6, <3>7, <5>1
        <4>. QED  BY <4>1
      <3>9. \A i, j \in DOMAIN chans'[c] : i < j => Pos(ns, chans'[c][i]) < Pos(ns, chans'[c][j])
        <4>1. ASSUME NEW i \in DOMAIN chans'[c], NEW j \in DOMAIN chans'[c], i < j
              PROVE  Pos(ns, chans'[c][i]) < Pos(ns, chans'[c][j])
          <5>1. i \in DOMAIN chans[c] /\ (j = Len(chans[c]) + 1 \/ j \in DOMAIN chans[c])
            BY <3>6, <4>1
          <5>. QED  BY <3>5, <3>6, <3>7, <4>1, <5>1
        <4>. QED  BY <4>1
      <3>10. ChanInOrder(c, ns)'
        BY <3>3, <3>4, <3>8, <3>9 DEF ChanInOrder
      <3>11. SliceInOrder(c, ns)'
        BY <1>1, <2>1, <3>3 DEF InOrder, SliceInOrder
      <3>. QED  BY <1>1, <2>1, <3>2, <3>3, <3>10, <3>11 DEF InOrder, LoopInOrder
    <2>4. chans'[c] = chans[c] \/ (Send(c0) /\ c = c0)
      BY DEF Pick, Send, Drop, FanoutDone, TypeOK
    <2>. QED  BY <2>2, <2>3, <2>4
  <1>. QED  BY <1>2, <1>3 DEF OrderInv

(* The loop delivers to a channel what its namespace has published.        *)
LEMMA LoopEvent ==
  ASSUME BaseInv, LoopServes, NEW ns \in Namespaces, NEW c \in Chans, tenant[c] = ns,
         c \in fan.todo \/ c = fan.sub
  PROVE  fan.evt \in Range(published[ns])
  <1>1. fan.evt # NoEvent
    BY WatcherAssumption DEF BaseInv, LoopShape
  <1>2. fan.evt.ns = ns
    BY <1>1, WatcherAssumption DEF LoopServes
  <1>3. /\ published[ns] # <<>> /\ published[ns] \in Seq(Events)
        /\ fan.evt = published[ns][Len(published[ns])]
    BY <1>1, <1>2 DEF LoopServes, BaseInv, TypeOK
  <1>. QED  BY <1>3 DEF Range

(* An event taken moves the handler to its position.                       *)
LEMMA MovesTo ==
  ASSUME BaseInv, AllStamped, NEW ns \in Namespaces, NEW c \in Chans,
         NEW evt, evt.EventID \in Nat, UNCHANGED <<published, since, joined>>,
         seen'[c] = Append(seen[c], evt.EventID)
  PROVE  /\ Where(c, ns)' = Pos(ns, evt)
         /\ Again(c, ns)' <=> Again(c, ns) \/ Pos(ns, evt) = Where(c, ns)
  <1>1. /\ Stamped(published[ns]) /\ joined[c] \in Nat /\ seen[c] \in Seq(Nat)
    BY DEF AllStamped, BaseInv, TypeOK
  <1>2. PICK path, longer :
          /\ path = Path(published[ns], since[c], joined[c], seen[c])
          /\ longer = Path(published[ns], since[c], joined[c], Append(seen[c], evt.EventID))
    OBVIOUS
  <1>3. /\ Cursor(longer) = UpTo(published[ns], evt.EventID)
        /\ Repeats(longer) <=> Repeats(path) \/ UpTo(published[ns], evt.EventID) = Cursor(path)
    BY <1>1, <1>2, PathGrows
  <1>4. PathOf(c, ns) = path /\ PathOf(c, ns)' = longer
    BY <1>2 DEF PathOf
  <1>5. /\ Where(c, ns) = Cursor(path) /\ (Again(c, ns) <=> Repeats(path))
        /\ Where(c, ns)' = Cursor(longer) /\ (Again(c, ns)' <=> Repeats(longer))
    BY <1>4 DEF Where, Again
  <1>. QED  BY <1>3, <1>5 DEF Pos

(* The handler moves on to the next event of the slice: the first time it  *)
(* sees it.                                                                *)
LEMMA OrderTakeMissed ==
  ASSUME BaseInv, IsolationInv, OrderInv, AllStamped, NEW c0 \in Chans, TakeMissed(c0)
  PROVE  /\ OrderInv'
         /\ \A ns \in Namespaces : tenant[c0] = ns =>
              \E k \in 1 .. Len(published[ns]) :
                /\ k > Where(c0, ns)
                /\ Where(c0, ns)' = k
                /\ Again(c0, ns)' <=> Again(c0, ns)
  <1>. USE DEF BaseInv
  <1>1. UNCHANGED <<tenant, published, since, joined, chans, fan>>
    BY DEF TakeMissed
  <1>2. PICK i \in DOMAIN missed[c0] :
          /\ \A j \in DOMAIN missed[c0] : i <= j
          /\ seen' = [seen EXCEPT ![c0] = Append(@, missed[c0][i].EventID)]
          /\ missed' = [missed EXCEPT ![c0] = Restrict(@, DOMAIN @ \ {i})]
    BY DEF TakeMissed
  <1>3. PICK ns \in Namespaces : tenant[c0] = ns
    BY DEF TakeMissed, TypeOK
  <1>4. InOrder(c0, ns) /\ Holds(c0, ns)
    BY <1>3 DEF OrderInv, IsolationInv, HoldsOwn
  <1>5. PICK evt \in Range(published[ns]) : evt = missed[c0][i]
    BY <1>2, <1>4 DEF Holds
  <1>6. /\ Pos(ns, evt) \in 1 .. Len(published[ns]) /\ Len(published[ns]) \in Nat
        /\ evt.EventID \in Nat
    BY EventAt
  <1>7. /\ Where(c0, ns) < Pos(ns, evt) /\ Pos(ns, evt) <= joined[c0] /\ ~Again(c0, ns)
        /\ Where(c0, ns) \in 0 .. Len(published[ns])
    BY <1>2, <1>4, <1>5 DEF InOrder, SliceInOrder
  <1>8. Where(c0, ns)' = Pos(ns, evt) /\ ~Again(c0, ns)'
    <2>1. seen'[c0] = Append(seen[c0], evt.EventID)
      BY <1>2, <1>5 DEF TypeOK
    <2>2. /\ Where(c0, ns)' = Pos(ns, evt)
          /\ Again(c0, ns)' <=> Again(c0, ns) \/ Pos(ns, evt) = Where(c0, ns)
      BY <1>1, <1>6, <2>1, MovesTo
    <2>. QED  BY <1>6, <1>7, <2>2
  <1>9. \A e : Pos(ns, e)' = Pos(ns, e)
    BY <1>1 DEF Pos
  <1>10. InOrder(c0, ns)'
    <2>1. /\ \A j \in DOMAIN missed'[c0] : j \in DOMAIN missed[c0] /\ i < j
                                           /\ missed'[c0][j] = missed[c0][j]
      <3>1. \A j \in DOMAIN missed[c0] : j \in Int
        <4>1. missed[c0] \in MissedSlices
          BY DEF TypeOK
        <4>2. PICK S \in SUBSET Slots : missed[c0] \in [S -> Events]
          BY <4>1 DEF MissedSlices
        <4>3. DOMAIN missed[c0] \subseteq Slots
          BY <4>2
        <4>. QED  BY <4>3, ReplayBufferAssumption DEF Slots
      <3>2. missed'[c0] = Restrict(missed[c0], DOMAIN missed[c0] \ {i})
        BY <1>2 DEF TypeOK
      <3>3. \A j \in DOMAIN missed'[c0] : j \in DOMAIN missed[c0] /\ j # i
                                           /\ missed'[c0][j] = missed[c0][j]
        BY <3>2 DEF Restrict
      <3>4. ASSUME NEW j \in DOMAIN missed'[c0] PROVE i < j
        <4>1. i \in Int /\ j \in Int /\ i <= j /\ i # j
          BY <1>2, <3>1, <3>3
        <4>. QED  BY <4>1
      <3>. QED  BY <3>3, <3>4
    <2>2. SliceInOrder(c0, ns)'
      <3>1. /\ \A j, k \in DOMAIN missed[c0] :
                 j < k => Pos(ns, missed[c0][j]) < Pos(ns, missed[c0][k])
            /\ \A j \in DOMAIN missed[c0] : Pos(ns, missed[c0][j]) <= joined[c0]
        BY <1>4 DEF InOrder, SliceInOrder
      <3>2. \A j \in DOMAIN missed'[c0] :
              /\ Where(c0, ns)' < Pos(ns, missed'[c0][j])
              /\ Pos(ns, missed'[c0][j]) <= joined[c0]
        BY <1>2, <1>5, <1>8, <2>1, <3>1
      <3>3. \A j, k \in DOMAIN missed'[c0] :
              j < k => Pos(ns, missed'[c0][j]) < Pos(ns, missed'[c0][k])
        BY <2>1, <3>1
      <3>. QED  BY <1>1, <1>8, <1>9, <3>2, <3>3 DEF SliceInOrder
    <2>3. \A e \in Range(published[ns]) : Ahead(c0, ns, e) => Ahead(c0, ns, e)'
      <3>1. ASSUME NEW e \in Range(published[ns]), joined[c0] <= Pos(ns, e)
            PROVE  Pos(ns, evt) <= Pos(ns, e)
        <4>1. Pos(ns, e) \in 1 .. Len(published[ns]) /\ joined[c0] \in Nat
          BY EventAt DEF TypeOK
        <4>. QED  BY <1>6, <1>7, <3>1, <4>1
      <3>. QED  BY <1>1, <1>8, <1>9, <3>1 DEF Ahead
    <2>4. ChanInOrder(c0, ns)'
      BY <1>1, <1>4, <1>9, <2>3 DEF InOrder, ChanInOrder, Holds
    <2>5. LoopInOrder(c0, ns)'
      <3>1. c0 \in fan.todo \/ c0 = fan.sub => fan.evt \in Range(published[ns])
        BY <1>3, LoopEvent DEF IsolationInv
      <3>. QED  BY <1>1, <1>4, <1>9, <2>3, <3>1 DEF InOrder, LoopInOrder
    <2>6. Where(c0, ns)' \in 0 .. Len(published[ns])
      BY <1>6, <1>8
    <2>. QED  BY <1>1, <1>4, <2>2, <2>4, <2>5, <2>6 DEF InOrder
  <1>11. ASSUME NEW other \in Namespaces, NEW c \in Chans, tenant'[c] = other, c # c0
         PROVE  InOrder(c, other)'
    <2>1. InOrder(c, other) /\ seen'[c] = seen[c] /\ missed'[c] = missed[c]
      BY <1>1, <1>2, <1>11 DEF OrderInv, TypeOK
    <2>. QED  BY <1>1, <2>1, Untouched
  <1>12. OrderInv'
    BY <1>1, <1>3, <1>10, <1>11 DEF OrderInv
  <1>. QED  BY <1>1, <1>3, <1>6, <1>7, <1>8, <1>12

(* The handler moves on to the head of its channel, which may be the event *)
(* it has last had from the slice.                                         *)
LEMMA OrderReceive ==
  ASSUME BaseInv, IsolationInv, OrderInv, AllStamped, NEW c0 \in Chans, Receive(c0)
  PROVE  /\ OrderInv'
         /\ \A ns \in Namespaces : tenant[c0] = ns =>
              \E k \in 1 .. Len(published[ns]) :
                /\ k > Where(c0, ns) \/ (k = Where(c0, ns) /\ ~Again(c0, ns))
                /\ Where(c0, ns)' = k
                /\ Again(c0, ns)' <=> Again(c0, ns) \/ k = Where(c0, ns)
  <1>. USE DEF BaseInv
  <1>1. UNCHANGED <<tenant, published, since, joined, missed, fan>> /\ missed[c0] = <<>>
    BY DEF Receive, Flushed
  <1>2. /\ chans[c0] # <<>> /\ chans[c0] \in Seq(Events)
        /\ seen' = [seen EXCEPT ![c0] = Append(@, Head(chans[c0]).EventID)]
        /\ chans' = [chans EXCEPT ![c0] = Tail(@)]
    BY DEF Receive, TypeOK
  <1>3. PICK ns \in Namespaces : tenant[c0] = ns
    BY DEF Receive, TypeOK
  <1>4. InOrder(c0, ns) /\ Holds(c0, ns)
    BY <1>3 DEF OrderInv, IsolationInv, HoldsOwn
  <1>5. PICK evt \in Range(published[ns]) : evt = chans[c0][1] /\ evt = Head(chans[c0])
    BY <1>2, <1>4 DEF Holds
  <1>6. /\ Pos(ns, evt) \in 1 .. Len(published[ns]) /\ Len(published[ns]) \in Nat
        /\ evt.EventID \in Nat
    BY EventAt
  <1>7. Ahead(c0, ns, evt)
    BY <1>2, <1>4, <1>5 DEF InOrder, ChanInOrder
  <1>8. /\ Where(c0, ns)' = Pos(ns, evt)
        /\ Again(c0, ns)' <=> Again(c0, ns) \/ Pos(ns, evt) = Where(c0, ns)
    <2>1. seen'[c0] = Append(seen[c0], evt.EventID)
      BY <1>2, <1>5 DEF TypeOK
    <2>. QED  BY <1>1, <1>6, <2>1, MovesTo
  <1>9. \A e : Pos(ns, e)' = Pos(ns, e)
    BY <1>1 DEF Pos
  <1>10. Where(c0, ns) \in 0 .. Len(published[ns])
    BY <1>4 DEF InOrder
  <1>11. InOrder(c0, ns)'
    <2>1. ASSUME NEW e \in Range(published[ns]),
                 joined[c0] <= Pos(ns, e), Pos(ns, evt) < Pos(ns, e)
          PROVE  Ahead(c0, ns, e)'
      <3>1. Pos(ns, e) \in 1 .. Len(published[ns])
        BY EventAt
      <3>. QED  BY <1>1, <1>6, <1>8, <1>9, <2>1, <3>1 DEF Ahead
    <2>2. /\ chans'[c0] = Tail(chans[c0])
          /\ \A j \in DOMAIN chans'[c0] :
               j \in Int /\ j + 1 \in DOMAIN chans[c0] /\ chans'[c0][j] = chans[c0][j + 1] /\ 1 < j + 1
          /\ 1 \in DOMAIN chans[c0]
      BY <1>2 DEF TypeOK
    <2>3. /\ \A j \in DOMAIN chans[c0] : Ahead(c0, ns, chans[c0][j])
          /\ \A j, k \in DOMAIN chans[c0] :
               j < k => Pos(ns, chans[c0][j]) < Pos(ns, chans[c0][k])
      BY <1>4 DEF InOrder, ChanInOrder
    <2>4. \A j \in DOMAIN chans'[c0] : Ahead(c0, ns, chans[c0][j])'
      <3>1. ASSUME NEW j \in DOMAIN chans'[c0] PROVE Ahead(c0, ns, chans[c0][j])'
        <4>0. PICK e \in Range(published[ns]) : e = chans[c0][j + 1]
          BY <1>4, <2>2 DEF Holds
        <4>1. Pos(ns, evt) < Pos(ns, chans[c0][j + 1])
          BY <1>5, <2>2, <2>3
        <4>2. joined[c0] <= Pos(ns, chans[c0][j + 1])
          BY <2>2, <2>3 DEF Ahead
        <4>3. Ahead(c0, ns, e)'
          BY <2>1, <4>0, <4>1, <4>2
        <4>. QED  BY <2>2, <4>0, <4>3 DEF Ahead
      <3>. QED  BY <3>1
    <2>5. \A j, k \in DOMAIN chans'[c0] :
            j < k => Pos(ns, chans'[c0][j]) < Pos(ns, chans'[c0][k])
      <3>1. ASSUME NEW j \in DOMAIN chans'[c0], NEW k \in DOMAIN chans'[c0], j < k
            PROVE  Pos(ns, chans'[c0][j]) < Pos(ns, chans'[c0][k])
        <4>1. j + 1 < k + 1
          BY <2>2, <3>1
        <4>. QED  BY <2>2, <2>3, <4>1
      <3>. QED  BY <3>1
    <2>6. ChanInOrder(c0, ns)'
      BY <1>9, <2>4, <2>5 DEF ChanInOrder
    <2>7. LoopInOrder(c0, ns)'
      <3>1. SUFFICES ASSUME c0 \in fan.todo \/ c0 = fan.sub
                     PROVE  /\ Ahead(c0, ns, fan.evt)'
                            /\ \A j \in DOMAIN chans'[c0] : Pos(ns, chans'[c0][j]) < Pos(ns, fan.evt)
        BY <1>1, <1>9 DEF LoopInOrder
      <3>2. /\ Ahead(c0, ns, fan.evt)
            /\ \A j \in DOMAIN chans[c0] : Pos(ns, chans[c0][j]) < Pos(ns, fan.evt)
        BY <1>4, <3>1 DEF InOrder, LoopInOrder
      <3>3. Pos(ns, evt) < Pos(ns, fan.evt) /\ joined[c0] <= Pos(ns, fan.evt)
        BY <1>5, <2>2, <3>2 DEF Ahead
      <3>4. Ahead(c0, ns, fan.evt)'
        <4>1. PICK e \in Range(published[ns]) : e = fan.evt
          BY <1>3, <3>1, LoopEvent DEF IsolationInv
        <4>2. Ahead(c0, ns, e)'
          BY <2>1, <3>3, <4>1
        <4>. QED  BY <1>1, <4>1, <4>2 DEF Ahead
      <3>. QED  BY <2>2, <3>2, <3>4
    <2>8. SliceInOrder(c0, ns)'
      BY <1>1 DEF SliceInOrder
    <2>. QED  BY <1>1, <1>4, <1>6, <1>8, <2>6, <2>7, <2>8 DEF InOrder
  <1>12. ASSUME NEW other \in Namespaces, NEW c \in Chans, tenant'[c] = other, c # c0
         PROVE  InOrder(c, other)'
    <2>1. InOrder(c, other) /\ seen'[c] = seen[c] /\ chans'[c] = chans[c]
      BY <1>1, <1>2, <1>12 DEF OrderInv, TypeOK
    <2>. QED  BY <1>1, <2>1, Untouched
  <1>13. OrderInv'
    BY <1>1, <1>3, <1>11, <1>12 DEF OrderInv
  <1>. QED  BY <1>1, <1>3, <1>6, <1>7, <1>8, <1>10, <1>13 DEF Ahead

LEMMA OrderStep ==
  ASSUME BaseInv, BaseInv', IsolationInv, IsolationInv', OrderInv, [Next]_vars
  PROVE  OrderInv'
  <1>1. AllStamped /\ AllStamped'
    BY AreStamped, AreStampedNext DEF IsolationInv
  <1>2. ASSUME NEW isUp \in BOOLEAN, Fresh(isUp) PROVE OrderInv'
    BY <1>2, WatcherAssumption DEF Fresh, Idle, OrderInv
  <1>3. ASSUME UNCHANGED vars PROVE OrderInv'
    <2>1. ASSUME NEW ns \in Namespaces, NEW c \in Chans, tenant'[c] = ns PROVE InOrder(c, ns)'
      <3>1. InOrder(c, ns)
        BY <1>3, <2>1 DEF OrderInv, vars, programVars
      <3>. QED  BY <1>3, <3>1, Untouched DEF vars, programVars, historyVars
    <2>. QED  BY <1>3, <2>1 DEF OrderInv, vars, programVars
  <1>4. ASSUME NEW c \in Chans,
               \/ Pick(c) \/ Send(c) \/ Drop(c) \/ FanoutDone
               \/ Unsubscribe(c) \/ TakeMissed(c) \/ Receive(c)
        PROVE  OrderInv'
    BY <1>1, <1>4, OrderFanout, OrderUnsubscribe, OrderTakeMissed, OrderReceive
  <1>5. ASSUME FanoutDone PROVE OrderInv'
    <2>1. CASE \E c \in Chans : TRUE
      BY <1>4, <1>5, <2>1
    <2>2. CASE ~\E c \in Chans : TRUE
      BY <1>5, <2>2, WatcherAssumption DEF FanoutDone, Idle, OrderInv
    <2>. QED  BY <2>1, <2>2
  <1>. QED
    BY <1>1, <1>2, <1>3, <1>4, <1>5, OrderSubscribe, OrderPublish
       DEF Next, FanoutStep, PanicOnSend, FatalMapAccess, Kill, Restart

LEMMA Ordered == Spec => [](BaseInv /\ IsolationInv /\ OrderInv)
  <1>1. Init => OrderInv
    BY WatcherAssumption DEF Init, Idle, OrderInv
  <1>2. BaseInv /\ BaseInv' /\ IsolationInv /\ IsolationInv' /\ OrderInv /\ [Next]_vars
          => OrderInv'
    BY OrderStep
  <1>3. IInv => BaseInv
    BY DEF IInv
  <1>. QED  BY <1>1, <1>2, <1>3, Inductive, Isolated, PTL DEF Spec

-----------------------------------------------------------------------------
(* The refinement.  A step that changes nothing of what c has taken or of  *)
(* the history leaves its feed where it is.                                *)
LEMMA FeedShape ==
  ASSUME NEW c
  PROVE  /\ tenant[c] = Closed => FeedOf(c) = Closed
         /\ tenant[c] # Closed =>
              FeedOf(c) = [ns |-> tenant[c], cursor |-> Where(c, tenant[c]),
                           again |-> Again(c, tenant[c])]
  BY DEF FeedOf, Where, Again

LEMMA FeedShapeNext ==
  ASSUME NEW c
  PROVE  /\ tenant'[c] = Closed => FeedOf(c)' = Closed
         /\ \A ns : tenant'[c] = ns /\ ns # Closed =>
              FeedOf(c)' = [ns |-> ns, cursor |-> Where(c, ns)', again |-> Again(c, ns)']
  BY DEF FeedOf, Where, Again

LEMMA SameFeed ==
  ASSUME NEW c, tenant'[c] = tenant[c], published' = published, since'[c] = since[c],
         joined'[c] = joined[c], seen'[c] = seen[c]
  PROVE  FeedOf(c)' = FeedOf(c)
  BY DEF FeedOf, PathOf

LEMMA OpenFeed ==
  ASSUME BaseInv, OrderInv, NEW c \in Chans, tenant[c] # Closed
  PROVE  /\ FeedOf(c) \in [ns : Namespaces, cursor : Nat, again : BOOLEAN]
         /\ FeedOf(c) # Closed
         /\ FeedOf(c).ns = tenant[c] /\ tenant[c] \in Namespaces
         /\ FeedOf(c).cursor = Where(c, tenant[c]) /\ FeedOf(c).again = Again(c, tenant[c])
  <1>1. PICK ns \in Namespaces : tenant[c] = ns
    BY DEF BaseInv, TypeOK
  <1>2. FeedOf(c) = [ns |-> ns, cursor |-> Where(c, ns), again |-> Again(c, ns)]
    BY <1>1, FeedShape
  <1>3. Where(c, ns) \in Nat
    <2>1. Len(published[ns]) \in Nat /\ Where(c, ns) \in 0 .. Len(published[ns])
      BY <1>1 DEF OrderInv, InOrder, BaseInv, TypeOK
    <2>. QED  BY <2>1
  <1>4. Again(c, ns) \in BOOLEAN
    BY DEF Again, Repeats
  <1>. QED  BY <1>1, <1>2, <1>3, <1>4, FeedAssumption

LEMMA InitFeed == Init => Feed!FeedInit
  <1>. SUFFICES ASSUME Init PROVE Feed!FeedInit
    OBVIOUS
  <1>1. \A ns \in Namespaces : Len(published[ns]) = 0
    BY DEF Init
  <1>2. \A c \in Chans : FeedOf(c) = Closed
    BY FeedShape DEF Init
  <1>. QED  BY <1>1, <1>2 DEF Feed!FeedInit

LEMMA FeedStep ==
  ASSUME BaseInv, BaseInv', IsolationInv, OrderInv, OrderInv', AllStamped, AllStamped',
         [Next]_vars
  PROVE  [Feed!FeedNext]_(Feed!feedVars)
  <1>. DEFINE length == [ns \in Namespaces |-> Len(published[ns])]
              feed   == [c \in Chans |-> FeedOf(c)]
  <1>1. ASSUME NEW c0 \in Chans, NEW ns0 \in Namespaces, NEW sinceID \in 0 .. MaxEvents,
               Subscribe(c0, ns0, sinceID)
        PROVE  Feed!FeedNext
    <2>1. /\ tenant[c0] = Closed /\ tenant'[c0] = ns0 /\ published' = published
          /\ \A c \in Chans \ {c0} : /\ tenant'[c] = tenant[c] /\ since'[c] = since[c]
                                     /\ joined'[c] = joined[c] /\ seen'[c] = seen[c]
      BY <1>1 DEF Subscribe, BaseInv, TypeOK
    <2>2. ~Again(c0, ns0)'
      BY <1>1, OrderSubscribe
    <2>3. Where(c0, ns0)' \in 0 .. Len(published[ns0])
      BY <2>1 DEF OrderInv, InOrder
    <2>4. Again(c0, ns0)' = FALSE
      BY <2>2 DEF Again, Repeats
    <2>5. FeedOf(c0)' = [ns |-> ns0, cursor |-> Where(c0, ns0)', again |-> FALSE]
      BY <2>1, <2>4, FeedShapeNext, WatcherAssumption
    <2>6. FeedOf(c0) = Closed /\ \A c \in Chans \ {c0} : FeedOf(c)' = FeedOf(c)
      BY <2>1, FeedShape, SameFeed
    <2>7. Feed!Attach(c0, ns0, Where(c0, ns0)')
      BY <2>1, <2>5, <2>6 DEF Feed!Attach
    <2>. QED  BY <2>3, <2>7 DEF Feed!FeedNext
  <1>2. ASSUME NEW c0 \in Chans, Unsubscribe(c0) PROVE Feed!FeedNext
    <2>1. /\ tenant[c0] # Closed /\ tenant'[c0] = Closed /\ published' = published
          /\ \A c \in Chans \ {c0} : /\ tenant'[c] = tenant[c] /\ since'[c] = since[c]
                                     /\ joined'[c] = joined[c] /\ seen'[c] = seen[c]
      BY <1>2 DEF Unsubscribe, BaseInv, TypeOK
    <2>2. FeedOf(c0) # Closed
      BY <2>1, OpenFeed
    <2>3. FeedOf(c0)' = Closed /\ \A c \in Chans \ {c0} : FeedOf(c)' = FeedOf(c)
      BY <2>1, FeedShapeNext, SameFeed
    <2>4. Feed!Detach(c0)
      BY <2>1, <2>2, <2>3 DEF Feed!Detach
    <2>. QED  BY <2>4 DEF Feed!FeedNext
  <1>3. ASSUME NEW ns0 \in Namespaces, NEW change \in Changes, Publish(ns0, change)
        PROVE  Feed!FeedNext
    <2>1. tenant' = tenant
      BY <1>3 DEF Publish
    <2>2. \A c \in Chans : FeedOf(c)' = FeedOf(c)
      <3>1. ASSUME NEW c \in Chans PROVE FeedOf(c)' = FeedOf(c)
        <4>1. CASE tenant[c] = Closed
          BY <2>1, <4>1, FeedShape, FeedShapeNext
        <4>2. CASE tenant[c] # Closed
          <5>1. PICK ns \in Namespaces : tenant[c] = ns
            BY <4>2 DEF BaseInv, TypeOK
          <5>2. Where(c, ns)' = Where(c, ns) /\ (Again(c, ns)' <=> Again(c, ns))
            BY <1>3, <5>1, OrderPublish
          <5>3. Again(c, ns)' = Again(c, ns)
            BY <5>2 DEF Again, Repeats
          <5>. QED  BY <2>1, <4>2, <5>1, <5>2, <5>3, FeedShape, FeedShapeNext
        <4>. QED  BY <4>1, <4>2
      <3>. QED  BY <3>1
    <2>3. /\ Len(published'[ns0]) = Len(published[ns0]) + 1
          /\ \A ns \in Namespaces \ {ns0} : published'[ns] = published[ns]
      <3>1. PICK evt : published' = [published EXCEPT ![ns0] = Append(@, evt)]
        BY <1>3 DEF Publish
      <3>2. published[ns0] \in Seq(Events)
        BY DEF BaseInv, TypeOK
      <3>. QED  BY <3>1, <3>2 DEF BaseInv, TypeOK
    <2>4. Feed!Emit(ns0)
      BY <2>2, <2>3 DEF Feed!Emit
    <2>. QED  BY <2>4 DEF Feed!FeedNext
  <1>4. ASSUME NEW c0 \in Chans, TakeMissed(c0) \/ Receive(c0) PROVE Feed!FeedNext
    <2>1. /\ tenant' = tenant /\ published' = published /\ tenant[c0] # Closed
          /\ \A c \in Chans \ {c0} : /\ tenant'[c] = tenant[c] /\ since'[c] = since[c]
                                     /\ joined'[c] = joined[c] /\ seen'[c] = seen[c]
      BY <1>4 DEF TakeMissed, Receive, BaseInv, TypeOK
    <2>2. PICK ns \in Namespaces : tenant[c0] = ns
      BY <2>1 DEF BaseInv, TypeOK
    <2>3. PICK k \in 1 .. Len(published[ns]) :
            /\ k > Where(c0, ns) \/ (k = Where(c0, ns) /\ ~Again(c0, ns))
            /\ Where(c0, ns)' = k
            /\ Again(c0, ns)' <=> Again(c0, ns) \/ k = Where(c0, ns)
      <3>1. CASE Receive(c0)
        BY <2>2, <3>1, OrderReceive
      <3>2. CASE TakeMissed(c0)
        <4>1. PICK k \in 1 .. Len(published[ns]) :
                /\ k > Where(c0, ns) /\ Where(c0, ns)' = k
                /\ Again(c0, ns)' <=> Again(c0, ns)
          BY <2>2, <3>2, OrderTakeMissed
        <4>2. Where(c0, ns) \in Nat
          BY <2>1, <2>2, OpenFeed
        <4>. QED  BY <4>1, <4>2
      <3>. QED  BY <1>4, <3>1, <3>2
    <2>4. /\ FeedOf(c0) = [ns |-> ns, cursor |-> Where(c0, ns), again |-> Again(c0, ns)]
          /\ FeedOf(c0) # Closed
      BY <2>1, <2>2, FeedShape, OpenFeed
    <2>5. Again(c0, ns)' = (Again(c0, ns) \/ k = Where(c0, ns))
      BY <2>3 DEF Again, Repeats
    <2>6. FeedOf(c0)' = [ns |-> ns, cursor |-> k, again |-> Again(c0, ns) \/ k = Where(c0, ns)]
      BY <2>1, <2>2, <2>3, <2>5, FeedShapeNext
    <2>7. \A c \in Chans \ {c0} : FeedOf(c)' = FeedOf(c)
      BY <2>1, SameFeed
    <2>8. Feed!Deliver(c0, k)
      <3>1. /\ feed[c0] = FeedOf(c0) /\ feed[c0].ns = ns
            /\ feed[c0].cursor = Where(c0, ns) /\ feed[c0].again = Again(c0, ns)
            /\ length[ns] = Len(published[ns])
        BY <2>4
      <3>2. feed[c0] # Closed /\ k <= length[feed[c0].ns]
        BY <2>3, <2>4, <3>1
      <3>3. k > feed[c0].cursor \/ (k = feed[c0].cursor /\ ~feed[c0].again)
        BY <2>3, <3>1
      <3>4. feed' = [feed EXCEPT ![c0].cursor = k, ![c0].again = @ \/ k = feed[c0].cursor]
        <4>1. PICK f, g : f = feed /\ g = feed'
          OBVIOUS
        <4>2. /\ f = [c \in Chans |-> f[c]] /\ g = [c \in Chans |-> g[c]]
              /\ f[c0] = [ns |-> ns, cursor |-> Where(c0, ns), again |-> Again(c0, ns)]
              /\ g[c0] = [ns |-> ns, cursor |-> k, again |-> Again(c0, ns) \/ k = Where(c0, ns)]
              /\ \A c \in Chans \ {c0} : g[c] = f[c]
          BY <2>4, <2>6, <2>7, <4>1
        <4>3. PICK b : b = (Again(c0, ns) \/ k = Where(c0, ns))
          OBVIOUS
        <4>4. b = (f[c0].again \/ k = f[c0].cursor)
          BY <4>2, <4>3
        <4>5. PICK mid : mid = [f EXCEPT ![c0].cursor = k]
          OBVIOUS
        <4>6. PICK h : h = [mid EXCEPT ![c0].again = b]
          OBVIOUS
        <4>7. /\ mid = [c \in Chans |-> mid[c]]
              /\ mid[c0] = [ns |-> ns, cursor |-> k, again |-> Again(c0, ns)]
              /\ \A c \in Chans \ {c0} : mid[c] = f[c]
          BY <4>2, <4>5
        <4>8. /\ h = [c \in Chans |-> h[c]]
              /\ h[c0] = [ns |-> ns, cursor |-> k, again |-> b]
              /\ \A c \in Chans \ {c0} : h[c] = f[c]
          BY <4>6, <4>7
        <4>9. g = h
          BY <4>2, <4>3, <4>8
        <4>10. h = [f EXCEPT ![c0].cursor = k, ![c0].again = @ \/ k = f[c0].cursor]
          BY <4>4, <4>5, <4>6, Zenon
        <4>. QED  BY <4>1, <4>9, <4>10
      <3>5. length' = length
        BY <2>1
      <3>. QED  BY <3>2, <3>3, <3>4, <3>5 DEF Feed!Deliver
    <2>. QED  BY <2>3, <2>4, <2>8 DEF Feed!FeedNext
  <1>5. ASSUME NEW isUp \in BOOLEAN, Fresh(isUp) PROVE Feed!FeedNext
    <2>1. \A ns \in Namespaces : Len(published'[ns]) = 0
      BY <1>5 DEF Fresh
    <2>2. \A c \in Chans : FeedOf(c)' = Closed
      BY <1>5, FeedShapeNext DEF Fresh
    <2>3. Feed!Forget
      BY <2>1, <2>2 DEF Feed!Forget, Feed!FeedInit
    <2>. QED  BY <2>3 DEF Feed!FeedNext
  <1>6. ASSUME UNCHANGED <<tenant, published, since, joined, seen>>
        PROVE  UNCHANGED Feed!feedVars
    BY <1>6, SameFeed DEF Feed!feedVars
  <1>7. ASSUME FanoutStep \/ UNCHANGED vars
        PROVE  Feed!FeedNext \/ UNCHANGED Feed!feedVars
    <2>1. ASSUME NEW c \in Chans, Pick(c) \/ Send(c) \/ Drop(c) \/ FanoutDone
          PROVE  UNCHANGED <<tenant, published, since, joined, seen>>
      BY <2>1 DEF Pick, Send, Drop, FanoutDone, historyVars
    <2>2. FanoutDone \/ UNCHANGED vars => UNCHANGED <<tenant, published, since, joined, seen>>
      BY DEF FanoutDone, vars, programVars, historyVars
    <2>. QED  BY <1>5, <1>6, <1>7, <2>1, <2>2 DEF FanoutStep, PanicOnSend
  <1>8. ASSUME FatalMapAccess \/ Kill \/ Restart PROVE Feed!FeedNext
    BY <1>5, <1>8 DEF FatalMapAccess, Kill, Restart
  <1>9. Feed!FeedNext \/ UNCHANGED Feed!feedVars
    BY <1>1, <1>2, <1>3, <1>4, <1>7, <1>8 DEF Next
  <1>. QED  BY <1>9

(* Whatever its ring, its channels and its fan-out loop do, the watcher    *)
(* gives each handler a feed of one namespace, in order and with at most   *)
(* one event twice: it implements EventFeed.                               *)
THEOREM FeedOfOneTenant == Spec => IsOrderedFeed
  <1>1. BaseInv /\ BaseInv' /\ IsolationInv /\ IsolationInv' /\ OrderInv /\ OrderInv'
          /\ [Next]_vars => [Feed!FeedNext]_(Feed!feedVars)
    BY FeedStep, AreStamped, AreStampedNext DEF IsolationInv
  <1>. QED
    BY <1>1, InitFeed, Ordered, PTL DEF Spec, IsOrderedFeed, Feed!FeedSpec
=============================================================================
