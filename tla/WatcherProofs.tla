--------------------------- MODULE WatcherProofs ---------------------------
(***************************************************************************)
(* What module Watcher's model runs check on small instances, proved for   *)
(* every set of namespaces and channels, every ring size and capacity.     *)
(***************************************************************************)
EXTENDS Watcher, ReplayBufferProofs

(* The two tables Subscribe and Unsubscribe maintain agree.                *)
Registered ==
  \A ns \in Namespaces, c \in Chans : c \in subscribers[ns] <=> tenant[c] = ns

(* Outside the fan-out loop there is nothing to send.                      *)
LoopShape == fan.evt = NoEvent => fan.todo = {} /\ fan.sub = NoChan

-----------------------------------------------------------------------------
(* A slice that lost one of its events, or that has none, is a slice.      *)
LEMMA SliceType ==
  /\ <<>> \in MissedSlices
  /\ \A m \in MissedSlices : \A i : Restrict(m, DOMAIN m \ {i}) \in MissedSlices
  /\ \A m \in MissedSlices : \A i \in DOMAIN m : m[i] \in Events
  <1>1. <<>> \in [{} -> Events]
    OBVIOUS
  <1>2. ASSUME NEW m \in MissedSlices, NEW i
        PROVE  Restrict(m, DOMAIN m \ {i}) \in MissedSlices
    <2>1. PICK S \in SUBSET Slots : m \in [S -> Events]
      BY DEF MissedSlices
    <2>2. Restrict(m, DOMAIN m \ {i}) \in [S \ {i} -> Events]
      BY <2>1 DEF Restrict
    <2>. QED  BY <2>1, <2>2 DEF MissedSlices
  <1>3. \A m \in MissedSlices : \A i \in DOMAIN m : m[i] \in Events
    BY DEF MissedSlices
  <1>. QED  BY <1>1, <1>2, <1>3 DEF MissedSlices

(* The fan-out loop keeps its type whichever of its fields a step changes. *)
LEMMA LoopType ==
  ASSUME NEW loop \in FanoutLoops, NEW S \in SUBSET Chans, NEW c \in Chans \cup {NoChan}
  PROVE  /\ [loop EXCEPT !.todo = S] \in FanoutLoops
         /\ [loop EXCEPT !.sub = c] \in FanoutLoops
  BY DEF FanoutLoops

(* What Since returns from the ring of one namespace is a slice of events. *)
LEMMA SinceType ==
  ASSUME NEW buf \in Ring(Events), NEW log \in Seq(Events), HoldsNewest(buf, log),
         NEW sinceID
  PROVE  Since(buf, sinceID) \in MissedSlices
  <1>1. /\ DOMAIN Since(buf, sinceID) \in SUBSET Slots
        /\ \A i \in DOMAIN Since(buf, sinceID) : Since(buf, sinceID)[i] \in Events
    BY SinceReplays
  <1>2. Since(buf, sinceID) = [i \in DOMAIN Since(buf, sinceID) |-> Since(buf, sinceID)[i]]
    BY DEF Since
  <1>3. Since(buf, sinceID) \in [DOMAIN Since(buf, sinceID) -> Events]
    BY <1>1, <1>2
  <1>. QED  BY <1>1, <1>3 DEF MissedSlices

-----------------------------------------------------------------------------
(* Inductive invariant, first half: types, tables and rings.               *)
BaseInv == TypeOK /\ Registered /\ RingHoldsNewest /\ LoopShape

LEMMA InitBase == Init => BaseInv
  <1>. SUFFICES ASSUME Init PROVE BaseInv
    OBVIOUS
  <1>1. TypeOK
    <2>1. NewBuffer \in Ring(Events) /\ <<>> \in MissedSlices /\ 0 \in 0 .. MaxEvents
      BY NewBufferType, SliceType, WatcherAssumption
    <2>2. Idle \in FanoutLoops
      BY DEF Idle, FanoutLoops
    <2>. QED  BY <2>1, <2>2 DEF Init, TypeOK
  <1>2. Registered
    BY WatcherAssumption DEF Init, Registered
  <1>3. RingHoldsNewest
    BY NewBufferType DEF Init, RingHoldsNewest
  <1>4. LoopShape
    BY DEF Init, Idle, LoopShape
  <1>. QED  BY <1>1, <1>2, <1>3, <1>4 DEF BaseInv

(* The death and the start of a process establish Init's values.           *)
LEMMA FreshBase == ASSUME NEW isUp \in BOOLEAN, Fresh(isUp) PROVE BaseInv'
  <1>1. TypeOK'
    <2>1. NewBuffer \in Ring(Events) /\ <<>> \in MissedSlices /\ 0 \in 0 .. MaxEvents
      BY NewBufferType, SliceType, WatcherAssumption
    <2>2. Idle \in FanoutLoops
      BY DEF Idle, FanoutLoops
    <2>. QED  BY <2>1, <2>2 DEF Fresh, TypeOK
  <1>2. Registered'
    BY WatcherAssumption DEF Fresh, Registered
  <1>3. RingHoldsNewest'
    BY NewBufferType DEF Fresh, RingHoldsNewest
  <1>4. LoopShape'
    BY DEF Fresh, Idle, LoopShape
  <1>. QED  BY <1>1, <1>2, <1>3, <1>4 DEF BaseInv

LEMMA TypeStep == ASSUME BaseInv, [Next]_vars PROVE TypeOK'
  <1>. USE DEF BaseInv
  <1>1. ASSUME NEW c \in Chans, NEW ns \in Namespaces, NEW sinceID \in 0 .. MaxEvents,
               Subscribe(c, ns, sinceID)
        PROVE  TypeOK'
    <2>1. Replay(ns, sinceID) \in MissedSlices
      <3>1. /\ buffers[ns] \in Ring(Events) /\ published[ns] \in Seq(Events)
            /\ HoldsNewest(buffers[ns], published[ns])
        BY DEF TypeOK, RingHoldsNewest
      <3>. QED  BY <3>1, SinceType, SliceType DEF Replay
    <2>2. missed' \in [Chans -> MissedSlices]
      BY <1>1, <2>1 DEF Subscribe, TypeOK
    <2>3. sinceID \in Nat /\ Len(published[ns]) \in Nat
      BY WatcherAssumption DEF TypeOK
    <2>4. fan' \in FanoutLoops
      <3>1. fan' = fan \/ fan' = [fan EXCEPT !.todo = fan.todo \cup {c}]
        BY <1>1 DEF Subscribe
      <3>2. fan \in FanoutLoops /\ fan.todo \cup {c} \in SUBSET Chans
        BY DEF TypeOK, FanoutLoops
      <3>. QED  BY <3>1, <3>2, LoopType
    <2>. QED  BY <1>1, <2>2, <2>3, <2>4 DEF Subscribe, TypeOK
  <1>2. ASSUME NEW ns \in Namespaces, NEW change \in Changes, Publish(ns, change)
        PROVE  TypeOK'
    <2>1. PICK evt : evt = [EventID |-> nextEventID + 1, ns |-> ns, change |-> change]
      OBVIOUS
    <2>2. nextEventID + 1 \in 1 .. MaxEvents
      BY <1>2, WatcherAssumption DEF Publish, TypeOK
    <2>3. evt \in Events
      BY <2>1, <2>2 DEF Events
    <2>4. Add(buffers[ns], evt) \in Ring(Events)
      BY <2>3, AddType DEF TypeOK
    <2>5. Append(published[ns], evt) \in Seq(Events)
      BY <2>3 DEF TypeOK
    <2>6. nextEventID' \in 0 .. MaxEvents
      BY <1>2, <2>2 DEF Publish
    <2>7. buffers' \in [Namespaces -> Ring(Events)] /\ published' \in [Namespaces -> Seq(Events)]
      BY <1>2, <2>1, <2>4, <2>5 DEF Publish, TypeOK
    <2>8. fan' \in FanoutLoops
      BY <1>2, <2>1, <2>3 DEF Publish, Audience, TypeOK, Idle, FanoutLoops
    <2>. QED  BY <1>2, <2>6, <2>7, <2>8 DEF Publish, TypeOK
  <1>3. ASSUME NEW c \in Chans, Pick(c) PROVE TypeOK'
    BY <1>3 DEF Pick, TypeOK, FanoutLoops, historyVars
  <1>4. ASSUME NEW c \in Chans, Send(c) PROVE TypeOK'
    <2>1. fan.evt \in Events
      BY <1>4, WatcherAssumption DEF Send, LoopShape, TypeOK, FanoutLoops
    <2>2. chans' \in [Chans -> Seq(Events)]
      <3>1. chans \in [Chans -> Seq(Events)] /\ Append(chans[c], fan.evt) \in Seq(Events)
        BY <2>1 DEF TypeOK
      <3>. QED  BY <1>4, <3>1 DEF Send
    <2>3. fan' \in FanoutLoops
      BY <1>4, LoopType DEF Send, TypeOK
    <2>. QED  BY <1>4, <2>2, <2>3 DEF Send, TypeOK, historyVars
  <1>4a. ASSUME NEW c \in Chans, Drop(c) PROVE TypeOK'
    <2>1. fan.evt \in Events
      BY <1>4a, WatcherAssumption DEF Drop, LoopShape, TypeOK, FanoutLoops
    <2>2. fan.evt.EventID \in Nat
      BY <2>1, WatcherAssumption DEF Events
    <2>3. dropped' \in [Chans -> SUBSET Nat]
      <3>1. dropped \in [Chans -> SUBSET Nat] /\ dropped[c] \cup {fan.evt.EventID} \in SUBSET Nat
        BY <2>2 DEF TypeOK
      <3>. QED  BY <1>4a, <3>1 DEF Drop
    <2>4. fan' \in FanoutLoops
      BY <1>4a, LoopType DEF Drop, TypeOK
    <2>. QED  BY <1>4a, <2>3, <2>4 DEF Drop, TypeOK
  <1>5. CASE FanoutDone
    BY <1>5 DEF FanoutDone, TypeOK, Idle, FanoutLoops, historyVars
  <1>6. ASSUME NEW c \in Chans, Unsubscribe(c) PROVE TypeOK'
    <2>1. missed' \in [Chans -> MissedSlices]
      BY <1>6, SliceType DEF Unsubscribe, TypeOK
    <2>2. fan' \in FanoutLoops
      <3>1. fan'.map \in BOOLEAN /\ fan'.todo = fan.todo \ {c}
            /\ fan' = [fan EXCEPT !.todo = fan'.todo, !.map = fan'.map]
        BY <1>6 DEF Unsubscribe, TypeOK, FanoutLoops
      <3>. QED  BY <3>1 DEF TypeOK, FanoutLoops
    <2>3. /\ subscribers' \in [Namespaces -> SUBSET Chans]
          /\ tenant' \in [Chans -> Namespaces \cup {Closed}]
      BY <1>6 DEF Unsubscribe, Remaining, TypeOK
    <2>4. /\ chans' \in [Chans -> Seq(Events)] /\ seen' \in [Chans -> Seq(Nat)]
          /\ since' \in [Chans -> Nat] /\ joined' \in [Chans -> Nat]
          /\ dropped' \in [Chans -> SUBSET Nat]
      BY <1>6 DEF Unsubscribe, TypeOK
    <2>. QED  BY <1>6, <2>1, <2>2, <2>3, <2>4 DEF Unsubscribe, TypeOK
  <1>7. ASSUME NEW c \in Chans, TakeMissed(c) PROVE TypeOK'
    <2>1. missed[c] \in MissedSlices
      BY DEF TypeOK
    <2>2. PICK i \in DOMAIN missed[c] :
            /\ seen' = [seen EXCEPT ![c] = Append(@, missed[c][i].EventID)]
            /\ missed' = [missed EXCEPT ![c] = Restrict(@, DOMAIN @ \ {i})]
      BY <1>7 DEF TakeMissed
    <2>3. missed[c][i].EventID \in Nat
      BY <2>1, SliceType, WatcherAssumption DEF Events
    <2>4. missed' \in [Chans -> MissedSlices]
      BY <2>1, <2>2, SliceType DEF TypeOK
    <2>5. seen' \in [Chans -> Seq(Nat)]
      BY <2>2, <2>3 DEF TypeOK
    <2>. QED  BY <1>7, <2>4, <2>5 DEF TakeMissed, TypeOK
  <1>8. ASSUME NEW c \in Chans, Receive(c) PROVE TypeOK'
    <2>1. chans[c] \in Seq(Events) /\ chans[c] # <<>>
      BY <1>8 DEF Receive, TypeOK
    <2>2. Head(chans[c]) \in Events /\ Tail(chans[c]) \in Seq(Events)
      BY <2>1
    <2>3. Head(chans[c]).EventID \in Nat
      BY <2>2, WatcherAssumption DEF Events
    <2>. QED  BY <1>8, <2>2, <2>3 DEF Receive, TypeOK
  <1>9. ASSUME NEW isUp \in BOOLEAN, Fresh(isUp) PROVE TypeOK'
    BY <1>9, FreshBase
  <1>10. CASE UNCHANGED vars
    BY <1>10 DEF TypeOK, vars, programVars, historyVars
  <1>. QED
    BY <1>1, <1>2, <1>3, <1>4, <1>5, <1>6, <1>7, <1>8, <1>9, <1>10, <1>4a
       DEF Next, FanoutStep, PanicOnSend, FatalMapAccess, Kill, Restart

LEMMA RegisteredStep == ASSUME BaseInv, [Next]_vars PROVE Registered'
  <1>. USE DEF BaseInv
  <1>1. ASSUME NEW c \in Chans, NEW ns \in Namespaces, NEW sinceID \in 0 .. MaxEvents,
               Subscribe(c, ns, sinceID)
        PROVE  Registered'
    BY <1>1, WatcherAssumption DEF Subscribe, Registered, TypeOK
  <1>2. ASSUME NEW c \in Chans, Unsubscribe(c) PROVE Registered'
    BY <1>2, WatcherAssumption DEF Unsubscribe, Remaining, Registered, TypeOK
  <1>3. ASSUME UNCHANGED <<subscribers, tenant>> PROVE Registered'
    BY <1>3 DEF Registered
  <1>4. ASSUME NEW isUp \in BOOLEAN, Fresh(isUp) PROVE Registered'
    BY <1>4, FreshBase
  <1>. QED
    BY <1>1, <1>2, <1>3, <1>4
       DEF Next, FanoutStep, PanicOnSend, FatalMapAccess, Kill, Restart, Publish, Pick,
           Send, Drop, FanoutDone, TakeMissed, Receive, vars, programVars, historyVars

LEMMA LoopStep == ASSUME BaseInv, [Next]_vars PROVE LoopShape'
  <1>. USE DEF BaseInv
  <1>1. ASSUME NEW c \in Chans, NEW ns \in Namespaces, NEW sinceID \in 0 .. MaxEvents,
               Subscribe(c, ns, sinceID)
        PROVE  LoopShape'
    BY <1>1 DEF Subscribe, LoopShape, Walking, TypeOK, FanoutLoops
  <1>2. ASSUME NEW ns \in Namespaces, NEW change \in Changes, Publish(ns, change)
        PROVE  LoopShape'
    <2>1. PICK evt : evt = [EventID |-> nextEventID + 1, ns |-> ns, change |-> change]
      OBVIOUS
    <2>2. nextEventID + 1 \in 1 .. MaxEvents
      BY <1>2, WatcherAssumption DEF Publish, TypeOK
    <2>3. evt # NoEvent
      BY <2>1, <2>2, NoEventAssumption DEF Events
    <2>. QED  BY <1>2, <2>1, <2>3 DEF Publish, Audience, LoopShape, Idle
  <1>3. ASSUME NEW c \in Chans, Pick(c) PROVE LoopShape'
    BY <1>3 DEF Pick, LoopShape, TypeOK, FanoutLoops
  <1>4. ASSUME NEW c \in Chans, Send(c) PROVE LoopShape'
    BY <1>4 DEF Send, LoopShape, TypeOK, FanoutLoops
  <1>4a. ASSUME NEW c \in Chans, Drop(c) PROVE LoopShape'
    BY <1>4a DEF Drop, LoopShape, TypeOK, FanoutLoops
  <1>5. ASSUME NEW c \in Chans, Unsubscribe(c) PROVE LoopShape'
    <2>1. fan'.evt = fan.evt /\ fan'.todo = fan.todo \ {c} /\ fan'.sub = fan.sub
      BY <1>5 DEF Unsubscribe, TypeOK, FanoutLoops
    <2>. QED  BY <2>1 DEF LoopShape
  <1>6. CASE FanoutDone
    BY <1>6 DEF FanoutDone, LoopShape, Idle
  <1>7. ASSUME UNCHANGED fan PROVE LoopShape'
    BY <1>7 DEF LoopShape
  <1>8. ASSUME NEW isUp \in BOOLEAN, Fresh(isUp) PROVE LoopShape'
    BY <1>8, FreshBase
  <1>. QED
    BY <1>1, <1>2, <1>3, <1>4, <1>5, <1>6, <1>7, <1>8, <1>4a
       DEF Next, FanoutStep, PanicOnSend, FatalMapAccess, Kill, Restart,
           TakeMissed, Receive, vars, programVars

LEMMA RingStep == ASSUME BaseInv, [Next]_vars PROVE RingHoldsNewest'
  <1>. USE DEF BaseInv
  <1>1. ASSUME NEW ns \in Namespaces, NEW change \in Changes, Publish(ns, change)
        PROVE  RingHoldsNewest'
    <2>1. PICK evt : evt = [EventID |-> nextEventID + 1, ns |-> ns, change |-> change]
      OBVIOUS
    <2>2. nextEventID + 1 \in 1 .. MaxEvents
      BY <1>1, WatcherAssumption DEF Publish, TypeOK
    <2>3. evt \in Events
      BY <2>1, <2>2 DEF Events
    <2>4. /\ buffers[ns] \in Ring(Events) /\ published[ns] \in Seq(Events)
          /\ HoldsNewest(buffers[ns], published[ns])
      BY DEF TypeOK, RingHoldsNewest
    <2>5. HoldsNewest(Add(buffers[ns], evt), Append(published[ns], evt))
      BY <2>3, <2>4, AddHoldsNewest
    <2>6. /\ buffers' = [buffers EXCEPT ![ns] = Add(@, evt)]
          /\ published' = [published EXCEPT ![ns] = Append(@, evt)]
      BY <1>1, <2>1 DEF Publish
    <2>7. ASSUME NEW other \in Namespaces
          PROVE  HoldsNewest(buffers'[other], published'[other])
      <3>1. CASE other = ns
        BY <2>5, <2>6, <3>1 DEF TypeOK
      <3>2. CASE other # ns
        BY <2>6, <3>2 DEF TypeOK, RingHoldsNewest
      <3>. QED  BY <3>1, <3>2
    <2>. QED  BY <2>7 DEF RingHoldsNewest
  <1>2. ASSUME UNCHANGED <<buffers, published>> PROVE RingHoldsNewest'
    BY <1>2 DEF RingHoldsNewest
  <1>3. ASSUME NEW isUp \in BOOLEAN, Fresh(isUp) PROVE RingHoldsNewest'
    BY <1>3, FreshBase
  <1>. QED
    BY <1>1, <1>2, <1>3
       DEF Next, FanoutStep, PanicOnSend, FatalMapAccess, Kill, Restart, Subscribe,
           Unsubscribe, Pick, Send, Drop, FanoutDone, TakeMissed, Receive, vars,
           programVars, historyVars

-----------------------------------------------------------------------------
(* Inductive invariant, second half: NoSilentGap.  A step that leaves the  *)
(* history and the subscription of a channel alone keeps what it is owed;  *)
(* it remains to see where each such event is after the step.              *)
LEMMA SameDebt ==
  ASSUME BaseInv, NoSilentGap, UNCHANGED <<tenant, published, since, joined>>,
         NEW ns \in Namespaces, NEW c \in Chans, tenant'[c] = ns, NEW k \in Owed(c, ns)'
  PROVE  /\ published[ns][k] \in Events /\ published'[ns][k] = published[ns][k]
         /\ k \in Int /\ joined'[c] = joined[c]
         /\ Accounted(c, ns, k)
  <1>1. k \in Owed(c, ns)
    BY DEF Owed
  <1>2. k \in DOMAIN published[ns] /\ published[ns] \in Seq(Events)
    BY <1>1 DEF Owed, BaseInv, TypeOK
  <1>3. Accounted(c, ns, k)
    BY <1>1 DEF NoSilentGap
  <1>. QED  BY <1>2, <1>3

LEMMA GapStep == ASSUME BaseInv, NoSilentGap, [Next]_vars PROVE NoSilentGap'
  <1>1. ASSUME NEW c0 \in Chans, NEW ns0 \in Namespaces, NEW sinceID \in 0 .. MaxEvents,
               Subscribe(c0, ns0, sinceID),
               NEW ns \in Namespaces, NEW c \in Chans, tenant'[c] = ns, NEW k \in Owed(c, ns)'
        PROVE  Accounted(c, ns, k)'
    <2>1. /\ published[ns] \in Seq(Events) /\ published' = published
          /\ k \in DOMAIN published[ns] /\ k \in Int
      BY <1>1 DEF Owed, Subscribe, BaseInv, TypeOK
    <2>2. CASE c = c0
      <3>1. ns = ns0 /\ joined'[c] = Len(published[ns]) /\ since'[c] = sinceID
        BY <1>1, <2>2 DEF Subscribe, BaseInv, TypeOK
      <3>2. sinceID > 0 /\ published[ns][k].EventID > sinceID
        BY <1>1, <2>1, <3>1 DEF Owed
      <3>3. missed'[c] = Since(buffers[ns], sinceID)
        BY <1>1, <2>2, <3>1, <3>2 DEF Subscribe, Replay, BaseInv, TypeOK
      <3>4. CASE k > Len(published[ns]) - replayBufferSize
        <4>1. buffers[ns] \in Ring(Events) /\ HoldsNewest(buffers[ns], published[ns])
          BY DEF BaseInv, TypeOK, RingHoldsNewest
        <4>2. \E i \in DOMAIN missed'[c] : missed'[c][i] = published[ns][k]
          BY <2>1, <3>2, <3>3, <3>4, <4>1, SinceReplays
        <4>. QED  BY <2>1, <4>2 DEF Accounted
      <3>5. CASE k <= Len(published[ns]) - replayBufferSize
        BY <2>1, <3>1, <3>5 DEF Accounted
      <3>. QED  BY <2>1, <3>4, <3>5, ReplayBufferAssumption
    <2>3. CASE c # c0
      <3>1. /\ tenant[c] = ns /\ joined'[c] = joined[c] /\ since'[c] = since[c]
            /\ missed'[c] = missed[c]
        BY <1>1, <2>3 DEF Subscribe, BaseInv, TypeOK
      <3>2. k \in Owed(c, ns)
        BY <1>1, <2>1, <3>1 DEF Owed
      <3>3. Accounted(c, ns, k)
        BY <3>1, <3>2 DEF NoSilentGap
      <3>4. seen' = seen /\ chans' = chans /\ dropped' = dropped
        BY <1>1 DEF Subscribe
      <3>5. fan'.evt = fan.evt /\ fan'.sub = fan.sub /\ fan.todo \subseteq fan'.todo
        BY <1>1 DEF Subscribe, BaseInv, TypeOK, FanoutLoops
      <3>. QED  BY <2>1, <3>1, <3>3, <3>4, <3>5 DEF Accounted
    <2>. QED  BY <2>2, <2>3
  <1>2. ASSUME NEW c0 \in Chans, Unsubscribe(c0),
               NEW ns \in Namespaces, NEW c \in Chans, tenant'[c] = ns, NEW k \in Owed(c, ns)'
        PROVE  Accounted(c, ns, k)'
    <2>1. c # c0
      BY <1>2, WatcherAssumption DEF Unsubscribe, BaseInv, TypeOK
    <2>2. /\ tenant[c] = ns /\ joined'[c] = joined[c] /\ since'[c] = since[c]
          /\ missed'[c] = missed[c] /\ chans'[c] = chans[c] /\ seen'[c] = seen[c]
          /\ dropped'[c] = dropped[c] /\ published' = published
      BY <1>2, <2>1 DEF Unsubscribe, BaseInv, TypeOK
    <2>3. k \in Owed(c, ns)
      BY <1>2, <2>2 DEF Owed
    <2>4. Accounted(c, ns, k)
      BY <2>2, <2>3 DEF NoSilentGap
    <2>5. fan'.evt = fan.evt /\ fan'.sub = fan.sub /\ fan'.todo = fan.todo \ {c0}
      BY <1>2 DEF Unsubscribe, BaseInv, TypeOK, FanoutLoops
    <2>. QED  BY <2>1, <2>2, <2>4, <2>5 DEF Accounted
  <1>3. ASSUME NEW ns0 \in Namespaces, NEW change \in Changes, Publish(ns0, change),
               NEW ns \in Namespaces, NEW c \in Chans, tenant'[c] = ns, NEW k \in Owed(c, ns)'
        PROVE  Accounted(c, ns, k)'
    <2>1. PICK evt : evt = [EventID |-> nextEventID + 1, ns |-> ns0, change |-> change]
      OBVIOUS
    <2>2. /\ published' = [published EXCEPT ![ns0] = Append(@, evt)]
          /\ fan = Idle
          /\ fan' = IF subscribers[ns0] = {} THEN Idle
                    ELSE [evt |-> evt, map |-> TRUE, todo |-> subscribers[ns0],
                          done |-> {}, sub |-> NoChan]
          /\ UNCHANGED <<tenant, chans, missed, since, joined, seen, dropped>>
      BY <1>3, <2>1 DEF Publish, Audience
    <2>3. published[ns] \in Seq(Events) /\ published[ns0] \in Seq(Events)
      BY DEF BaseInv, TypeOK
    <2>4. CASE k \in DOMAIN published[ns]
      <3>1. published'[ns][k] = published[ns][k] /\ published[ns][k] \in Events
        BY <2>2, <2>3, <2>4 DEF BaseInv, TypeOK
      <3>2. k \in Owed(c, ns) /\ tenant[c] = ns
        BY <1>3, <2>2, <2>4, <3>1 DEF Owed
      <3>3. Accounted(c, ns, k)
        BY <3>2 DEF NoSilentGap
      <3>4. fan.evt # published[ns][k]
        BY <2>2, <3>1, NoEventAssumption DEF Idle
      <3>. QED  BY <2>2, <3>1, <3>3, <3>4 DEF Accounted
    <2>5. CASE k \notin DOMAIN published[ns]
      <3>1. ns = ns0
        BY <1>3, <2>2, <2>3, <2>5 DEF Owed, BaseInv, TypeOK
      <3>2. k = Len(published[ns]) + 1 /\ published'[ns][k] = evt
        BY <1>3, <2>2, <2>3, <2>5, <3>1 DEF Owed, BaseInv, TypeOK
      <3>3. c \in subscribers[ns]
        BY <1>3, <2>2 DEF BaseInv, Registered
      <3>4. fan'.evt = evt /\ c \in fan'.todo
        BY <2>2, <3>1, <3>3
      <3>. QED  BY <3>2, <3>4 DEF Accounted
    <2>. QED  BY <2>4, <2>5
  <1>4. ASSUME NEW c0 \in Chans, Pick(c0),
               NEW ns \in Namespaces, NEW c \in Chans, tenant'[c] = ns, NEW k \in Owed(c, ns)'
        PROVE  Accounted(c, ns, k)'
    <2>1. UNCHANGED <<tenant, published, since, joined, seen, missed, chans, dropped>>
      BY <1>4 DEF Pick, historyVars
    <2>2. Accounted(c, ns, k) /\ published'[ns][k] = published[ns][k]
      BY <1>4, <2>1, SameDebt
    <2>3. fan'.evt = fan.evt /\ fan'.sub = c0 /\ fan'.todo = fan.todo \ {c0} /\ fan.sub = NoChan
      BY <1>4 DEF Pick, BaseInv, TypeOK, FanoutLoops
    <2>. QED  BY <2>1, <2>2, <2>3, WatcherAssumption DEF Accounted
  <1>5. ASSUME NEW c0 \in Chans, Send(c0),
               NEW ns \in Namespaces, NEW c \in Chans, tenant'[c] = ns, NEW k \in Owed(c, ns)'
        PROVE  Accounted(c, ns, k)'
    <2>1. UNCHANGED <<tenant, published, since, joined, seen, missed, dropped>>
      BY <1>5 DEF Send, historyVars
    <2>2. Accounted(c, ns, k) /\ published'[ns][k] = published[ns][k]
      BY <1>5, <2>1, SameDebt
    <2>3. fan'.evt = fan.evt /\ fan'.todo = fan.todo /\ fan.sub = c0
      BY <1>5 DEF Send, BaseInv, TypeOK, FanoutLoops
    <2>4. CASE c # c0
      <3>1. chans'[c] = chans[c]
        BY <1>5, <2>4 DEF Send, BaseInv, TypeOK
      <3>. QED  BY <2>1, <2>2, <2>3, <2>4, <3>1 DEF Accounted
    <2>5. CASE c = c0
      <3>1. chans[c] \in Seq(Events) /\ chans'[c] = Append(chans[c], fan.evt)
        BY <1>5, <2>5 DEF Send, BaseInv, TypeOK
      <3>2. /\ \A i \in DOMAIN chans[c] : i \in DOMAIN chans'[c] /\ chans'[c][i] = chans[c][i]
            /\ \E i \in DOMAIN chans'[c] : chans'[c][i] = fan.evt
        <4>1. Len(chans[c]) + 1 \in DOMAIN chans'[c]
          BY <3>1
        <4>. QED  BY <3>1, <4>1
      <3>. QED  BY <2>1, <2>2, <2>3, <3>2 DEF Accounted
    <2>. QED  BY <2>4, <2>5
  <1>5a. ASSUME NEW c0 \in Chans, Drop(c0),
                NEW ns \in Namespaces, NEW c \in Chans, tenant'[c] = ns, NEW k \in Owed(c, ns)'
         PROVE  Accounted(c, ns, k)'
    <2>1. UNCHANGED <<tenant, published, since, joined, seen, missed, chans>>
      BY <1>5a DEF Drop
    <2>2. Accounted(c, ns, k) /\ published'[ns][k] = published[ns][k]
      BY <1>5a, <2>1, SameDebt
    <2>3. fan'.evt = fan.evt /\ fan'.todo = fan.todo /\ fan.sub = c0
      BY <1>5a DEF Drop, BaseInv, TypeOK, FanoutLoops
    <2>4. /\ c # c0 => dropped'[c] = dropped[c]
          /\ c = c0 => dropped'[c] = dropped[c] \cup {fan.evt.EventID}
      BY <1>5a DEF Drop, BaseInv, TypeOK
    <2>. QED  BY <2>1, <2>2, <2>3, <2>4 DEF Accounted
  <1>6. ASSUME FanoutDone,
               NEW ns \in Namespaces, NEW c \in Chans, tenant'[c] = ns, NEW k \in Owed(c, ns)'
        PROVE  Accounted(c, ns, k)'
    <2>1. UNCHANGED <<tenant, published, since, joined, seen, missed, chans, dropped>>
      BY <1>6 DEF FanoutDone, historyVars
    <2>2. Accounted(c, ns, k) /\ published'[ns][k] = published[ns][k]
      BY <1>6, <2>1, SameDebt
    <2>3. c \notin fan.todo /\ c # fan.sub
      BY <1>6, WatcherAssumption DEF FanoutDone
    <2>. QED  BY <2>1, <2>2, <2>3 DEF Accounted
  <1>7. ASSUME NEW c0 \in Chans, TakeMissed(c0),
               NEW ns \in Namespaces, NEW c \in Chans, tenant'[c] = ns, NEW k \in Owed(c, ns)'
        PROVE  Accounted(c, ns, k)'
    <2>1. UNCHANGED <<tenant, published, since, joined, chans, dropped, fan>>
      BY <1>7 DEF TakeMissed
    <2>2. Accounted(c, ns, k) /\ published'[ns][k] = published[ns][k]
      BY <1>7, <2>1, SameDebt
    <2>3. PICK i \in DOMAIN missed[c0] :
            /\ seen' = [seen EXCEPT ![c0] = Append(@, missed[c0][i].EventID)]
            /\ missed' = [missed EXCEPT ![c0] = Restrict(@, DOMAIN @ \ {i})]
      BY <1>7 DEF TakeMissed
    <2>4. CASE c # c0
      <3>1. seen'[c] = seen[c] /\ missed'[c] = missed[c]
        BY <2>3, <2>4 DEF BaseInv, TypeOK
      <3>. QED  BY <2>1, <2>2, <3>1 DEF Accounted
    <2>5. CASE c = c0
      <3>1. missed[c] \in MissedSlices /\ seen[c] \in Seq(Nat)
        BY DEF BaseInv, TypeOK
      <3>2. missed[c][i].EventID \in Nat
        BY <2>3, <2>5, <3>1, SliceType, WatcherAssumption DEF Events
      <3>3. seen'[c] = Append(seen[c], missed[c][i].EventID)
        BY <2>3, <2>5 DEF BaseInv, TypeOK
      <3>4. /\ \A j \in DOMAIN seen[c] : j \in DOMAIN seen'[c] /\ seen'[c][j] = seen[c][j]
            /\ \E j \in DOMAIN seen'[c] : seen'[c][j] = missed[c][i].EventID
        <4>1. Len(seen[c]) + 1 \in DOMAIN seen'[c]
          BY <3>1, <3>2, <3>3
        <4>. QED  BY <3>1, <3>2, <3>3, <4>1
      <3>5. \A j \in DOMAIN missed[c] \ {i} :
              j \in DOMAIN missed'[c] /\ missed'[c][j] = missed[c][j]
        BY <2>3, <2>5 DEF BaseInv, TypeOK, Restrict
      <3>. QED  BY <2>1, <2>2, <3>4, <3>5 DEF Accounted
    <2>. QED  BY <2>4, <2>5
  <1>8. ASSUME NEW c0 \in Chans, Receive(c0),
               NEW ns \in Namespaces, NEW c \in Chans, tenant'[c] = ns, NEW k \in Owed(c, ns)'
        PROVE  Accounted(c, ns, k)'
    <2>1. UNCHANGED <<tenant, published, since, joined, missed, dropped, fan>>
      BY <1>8 DEF Receive
    <2>2. Accounted(c, ns, k) /\ published'[ns][k] = published[ns][k]
      BY <1>8, <2>1, SameDebt
    <2>3. CASE c # c0
      <3>1. seen'[c] = seen[c] /\ chans'[c] = chans[c]
        BY <1>8, <2>3 DEF Receive, BaseInv, TypeOK
      <3>. QED  BY <2>1, <2>2, <3>1 DEF Accounted
    <2>4. CASE c = c0
      <3>1. chans[c] \in Seq(Events) /\ chans[c] # <<>> /\ seen[c] \in Seq(Nat)
        BY <1>8, <2>4 DEF Receive, BaseInv, TypeOK
      <3>2. Head(chans[c]) = chans[c][1] /\ Head(chans[c]) \in Events
        BY <3>1
      <3>3. Head(chans[c]).EventID \in Nat
        BY <3>2, WatcherAssumption DEF Events
      <3>4. seen'[c] = Append(seen[c], Head(chans[c]).EventID) /\ chans'[c] = Tail(chans[c])
        BY <1>8, <2>4 DEF Receive, BaseInv, TypeOK
      <3>5. /\ \A j \in DOMAIN seen[c] : j \in DOMAIN seen'[c] /\ seen'[c][j] = seen[c][j]
            /\ \E j \in DOMAIN seen'[c] : seen'[c][j] = chans[c][1].EventID
        <4>1. Len(seen[c]) + 1 \in DOMAIN seen'[c]
          BY <3>1, <3>3, <3>4
        <4>. QED  BY <3>1, <3>2, <3>3, <3>4, <4>1
      <3>6. \A j \in DOMAIN chans[c] \ {1} : \E i \in DOMAIN chans'[c] : chans'[c][i] = chans[c][j]
        <4>1. ASSUME NEW j \in DOMAIN chans[c] \ {1}
              PROVE  \E i \in DOMAIN chans'[c] : chans'[c][i] = chans[c][j]
          <5>1. j \in 2 .. Len(chans[c])
            BY <3>1
          <5>2. j - 1 \in DOMAIN chans'[c] /\ chans'[c][j - 1] = chans[c][j]
            BY <3>1, <3>4, <5>1
          <5>. QED  BY <5>2
        <4>. QED  BY <4>1
      <3>. QED  BY <2>1, <2>2, <3>5, <3>6 DEF Accounted
    <2>. QED  BY <2>3, <2>4
  <1>9. ASSUME NEW isUp \in BOOLEAN, Fresh(isUp) PROVE NoSilentGap'
    BY <1>9, WatcherAssumption DEF Fresh, NoSilentGap
  <1>10. CASE UNCHANGED vars
    BY <1>10 DEF vars, programVars, historyVars, NoSilentGap, Owed, Accounted
  <1>11. CASE Next
    <2>1. (\A ns \in Namespaces, c \in Chans :
             tenant'[c] = ns => \A k \in Owed(c, ns)' : Accounted(c, ns, k)')
          => NoSilentGap'
      BY DEF NoSilentGap
    <2>. QED
      BY <1>1, <1>2, <1>3, <1>4, <1>5, <1>6, <1>7, <1>8, <1>9, <1>11, <1>5a, <2>1
         DEF Next, FanoutStep, PanicOnSend, FatalMapAccess, Kill, Restart
  <1>. QED  BY <1>10, <1>11

-----------------------------------------------------------------------------
IInv == BaseInv /\ NoSilentGap

LEMMA Inductive == Spec => []IInv
  <1>1. Init => IInv
    <2>1. Init => NoSilentGap
      BY WatcherAssumption DEF Init, NoSilentGap
    <2>. QED  BY <2>1, InitBase DEF IInv
  <1>2. IInv /\ [Next]_vars => IInv'
    <2>. SUFFICES ASSUME IInv, [Next]_vars PROVE IInv'
      OBVIOUS
    <2>1. BaseInv'
      BY TypeStep, RegisteredStep, RingStep, LoopStep DEF IInv, BaseInv
    <2>. QED  BY <2>1, GapStep DEF IInv
  <1>. QED  BY <1>1, <1>2, PTL DEF Spec

(* Type correctness of the watcher, its subscribers and its history.       *)
THEOREM TypeCorrect == Spec => []TypeOK
  <1>1. IInv => TypeOK
    BY DEF IInv, BaseInv
  <1>. QED  BY <1>1, Inductive, PTL

(* However often it wraps, the ring of a namespace is exactly the newest   *)
(* part of that namespace's history, oldest first: add and since agree on  *)
(* head and full.                                                          *)
THEOREM RingCorrect == Spec => []RingHoldsNewest
  <1>1. IInv => RingHoldsNewest
    BY DEF IInv, BaseInv
  <1>. QED  BY <1>1, Inductive, PTL

(* No interleaving of handlers and fan-out loses an event silently: what a *)
(* subscriber is owed is with it, on its way, dropped on its full channel, *)
(* or was rotated out of the ring before it subscribed.                    *)
THEOREM GapFree == Spec => []NoSilentGap
  <1>1. IInv => NoSilentGap
    BY DEF IInv
  <1>. QED  BY <1>1, Inductive, PTL
=============================================================================
