------------------------------ MODULE Watcher ------------------------------
(***************************************************************************)
(* The shared HelmRelease watcher, type Watcher of internal/k8s/watcher.go:*)
(* one goroutine (handleEvent) stamps each event, keeps it in the ring of  *)
(* its tenant namespace and fans it out to the channels subscribed to that *)
(* namespace, while any number of HTTP handlers Subscribe, read their      *)
(* channel and Unsubscribe.                                                *)
(*                                                                         *)
(* The mutex protects the stamp-and-append section and the whole of        *)
(* Subscribe and Unsubscribe, so each of those is one action.  The fan-out *)
(* loop runs after the unlock, over the very map Subscribe and Unsubscribe *)
(* change: it is the actions Pick, Send and FanoutDone, and the others     *)
(* interleave with them.                                                   *)
(***************************************************************************)
EXTENDS ReplayBuffer, FiniteSets, Functions

CONSTANTS Namespaces,          \* tenant namespaces
          Changes,             \* what an event says; opaque to the watcher
          Chans,               \* identities of subscriber channels
          NoChan,              \* "no channel": the walk is between two sends
          Closed,              \* the tenant of a channel that is not open
          eventChannelBuffer,  \* the capacity of a channel (100 in the code)
          MaxEvents            \* bound on the events of one process lifetime

ASSUME WatcherAssumption ==
  /\ eventChannelBuffer \in Nat \ {0}
  /\ MaxEvents \in Nat
  /\ NoChan \notin Chans
  /\ Closed \notin Namespaces

VARIABLES
  up,           \* the process is running
  nextEventID,  \* the last EventID stamped
  buffers,      \* the ring of each namespace
  subscribers,  \* the channels of each namespace; an absent map entry is {}
  tenant,       \* the namespace the handler of each open channel serves
  chans,        \* the events queued in each channel
  missed,       \* the rest of the slice Subscribe returned to the handler
  fan           \* the fan-out loop of handleEvent

VARIABLES       \* history: written by the actions, read by properties only
  published,    \* all events of each namespace since the process started
  since,        \* the sinceID each open channel was subscribed with
  joined,       \* Len(published) of its namespace when it was subscribed
  seen,         \* the EventIDs its handler has taken so far, in order
  dropped       \* the EventIDs the fan-out dropped on it

programVars == <<up, nextEventID, buffers, subscribers, tenant, chans, missed, fan>>
historyVars == <<published, since, joined, seen, dropped>>
vars == <<programVars, historyVars>>

Events == [EventID : 1 .. MaxEvents, ns : Namespaces, change : Changes]

ASSUME NoEventAssumption == NoEvent \notin Events

(* What since can return: see Since in module ReplayBuffer.                *)
MissedSlices == UNION {[S -> Events] : S \in SUBSET Slots}

(* evt is the event being delivered; map tells whether the map the loop    *)
(* walks is still the one in wat.subscribers (Unsubscribe drops a map it   *)
(* emptied, and a later Subscribe makes a new one); todo and done are the  *)
(* entries not yet and already yielded; sub is the one about to be sent to.*)
FanoutLoops == [evt : Events \cup {NoEvent}, map : BOOLEAN, todo : SUBSET Chans,
                done : SUBSET Chans, sub : Chans \cup {NoChan}]

Idle == [evt |-> NoEvent, map |-> FALSE, todo |-> {}, done |-> {}, sub |-> NoChan]

Walking(ns) == fan.evt # NoEvent /\ fan.map /\ fan.evt.ns = ns

-----------------------------------------------------------------------------
Fresh(isUp) ==  \* a process that has just started, or the lack of one
  /\ up' = isUp
  /\ nextEventID' = 0
  /\ buffers' = [ns \in Namespaces |-> NewBuffer]
  /\ subscribers' = [ns \in Namespaces |-> {}]
  /\ tenant' = [c \in Chans |-> Closed]
  /\ chans' = [c \in Chans |-> <<>>]
  /\ missed' = [c \in Chans |-> <<>>]
  /\ fan' = Idle
  /\ published' = [ns \in Namespaces |-> <<>>]
  /\ since' = [c \in Chans |-> 0]
  /\ joined' = [c \in Chans |-> 0]
  /\ seen' = [c \in Chans |-> <<>>]
  /\ dropped' = [c \in Chans |-> {}]

Init ==
  /\ up = TRUE
  /\ nextEventID = 0
  /\ buffers = [ns \in Namespaces |-> NewBuffer]
  /\ subscribers = [ns \in Namespaces |-> {}]
  /\ tenant = [c \in Chans |-> Closed]
  /\ chans = [c \in Chans |-> <<>>]
  /\ missed = [c \in Chans |-> <<>>]
  /\ fan = Idle
  /\ published = [ns \in Namespaces |-> <<>>]
  /\ since = [c \in Chans |-> 0]
  /\ joined = [c \in Chans |-> 0]
  /\ seen = [c \in Chans |-> <<>>]
  /\ dropped = [c \in Chans |-> {}]

-----------------------------------------------------------------------------
(* What the fan-out must still be told of, what a reconnecting client is    *)
(* given, what is left of a namespace's map when c leaves it.  Each is     *)
(* preceded by a slip of the hand that the properties below must catch.    *)
ReplayNothing(ns, sinceID) == <<>>

Replay(ns, sinceID) == IF sinceID > 0 THEN Since(buffers[ns], sinceID) ELSE <<>>

DropsWholeMap(ns, c) == IF c \in subscribers[ns] THEN {} ELSE subscribers[ns]

Remaining(ns, c) == subscribers[ns] \ {c}

AllSubscribers(ns) == UNION {subscribers[other] : other \in Namespaces}

Audience(ns) == subscribers[ns]

-----------------------------------------------------------------------------
(* A new channel is one nobody holds: not even the fan-out loop.  Whether  *)
(* a key inserted during the walk is yielded is up to the Go runtime, but  *)
(* the walk ends: it yields no more entries than there are channels.       *)
Subscribe(c, ns, sinceID) ==
  /\ up
  /\ tenant[c] = Closed
  /\ c # fan.sub
  /\ tenant' = [tenant EXCEPT ![c] = ns]
  /\ subscribers' = [subscribers EXCEPT ![ns] = @ \cup {c}]
  /\ missed' = [missed EXCEPT ![c] = Replay(ns, sinceID)]
  /\ \/ UNCHANGED fan
     \/ /\ Walking(ns)
        /\ c \notin fan.done
        /\ fan' = [fan EXCEPT !.todo = @ \cup {c}]
  /\ since' = [since EXCEPT ![c] = sinceID]
  /\ joined' = [joined EXCEPT ![c] = Len(published[ns])]
  /\ UNCHANGED <<up, nextEventID, buffers, chans, published, seen, dropped>>

(* The handler returns.  Removing the last channel of a namespace removes  *)
(* its map, which the loop may still be walking.                           *)
Unsubscribe(c) ==
  /\ up
  /\ tenant[c] # Closed
  /\ tenant' = [tenant EXCEPT ![c] = Closed]
  /\ subscribers' = [ns \in Namespaces |-> Remaining(ns, c)]
  /\ fan' = [fan EXCEPT
               !.todo = @ \ {c},
               !.map = @ /\ \A ns \in Namespaces :
                              Walking(ns) => Remaining(ns, c) # {}]
  /\ chans' = [chans EXCEPT ![c] = <<>>]
  /\ missed' = [missed EXCEPT ![c] = <<>>]
  /\ since' = [since EXCEPT ![c] = 0]
  /\ joined' = [joined EXCEPT ![c] = 0]
  /\ seen' = [seen EXCEPT ![c] = <<>>]
  /\ dropped' = [dropped EXCEPT ![c] = {}]
  /\ UNCHANGED <<up, nextEventID, buffers, published>>

-----------------------------------------------------------------------------
(* handleEvent up to the unlock.  Bookmarks and errors never get this far. *)
Publish(ns, change) ==
  LET evt == [EventID |-> nextEventID + 1, ns |-> ns, change |-> change]
  IN  /\ up
      /\ fan = Idle
      /\ nextEventID < MaxEvents
      /\ nextEventID' = nextEventID + 1
      /\ buffers' = [buffers EXCEPT ![ns] = Add(@, evt)]
      /\ fan' = IF Audience(ns) = {}
                THEN Idle
                ELSE [evt |-> evt, map |-> TRUE, todo |-> Audience(ns),
                      done |-> {}, sub |-> NoChan]
      /\ published' = [published EXCEPT ![ns] = Append(@, evt)]
      /\ UNCHANGED <<up, subscribers, tenant, chans, missed,
                     since, joined, seen, dropped>>

Pick(c) ==
  /\ up
  /\ fan.sub = NoChan
  /\ c \in fan.todo
  /\ fan' = [fan EXCEPT !.todo = @ \ {c}, !.done = @ \cup {c}, !.sub = c]
  /\ UNCHANGED <<up, nextEventID, buffers, subscribers, tenant, chans, missed,
                 historyVars>>

HasRoom(c) == Len(chans[c]) < eventChannelBuffer

(* The non-blocking send, and its default branch: a full channel loses the *)
(* event, it does not hold the loop up.                                    *)
Send(c) ==
  /\ up
  /\ fan.sub = c
  /\ tenant[c] # Closed
  /\ HasRoom(c)
  /\ chans' = [chans EXCEPT ![c] = Append(@, fan.evt)]
  /\ fan' = [fan EXCEPT !.sub = NoChan]
  /\ UNCHANGED <<up, nextEventID, buffers, subscribers, tenant, missed, historyVars>>

WaitsForRoom(c) == FALSE

Drop(c) ==
  /\ up
  /\ fan.sub = c
  /\ tenant[c] # Closed
  /\ ~HasRoom(c)
  /\ dropped' = [dropped EXCEPT ![c] = @ \cup {fan.evt.EventID}]
  /\ fan' = [fan EXCEPT !.sub = NoChan]
  /\ UNCHANGED <<up, nextEventID, buffers, subscribers, tenant, chans, missed,
                 published, since, joined, seen>>

FanoutDone ==
  /\ up
  /\ fan.evt # NoEvent
  /\ fan.sub = NoChan
  /\ fan.todo = {}
  /\ fan' = Idle
  /\ UNCHANGED <<up, nextEventID, buffers, subscribers, tenant, chans, missed,
                 historyVars>>

-----------------------------------------------------------------------------
(* The handler of a channel: it flushes the missed slice in order, then    *)
(* reads the channel.                                                      *)
TakeMissed(c) ==
  /\ up
  /\ tenant[c] # Closed
  /\ \E i \in DOMAIN missed[c] :
       /\ \A j \in DOMAIN missed[c] : i <= j
       /\ seen' = [seen EXCEPT ![c] = Append(@, missed[c][i].EventID)]
       /\ missed' = [missed EXCEPT ![c] = Restrict(@, DOMAIN @ \ {i})]
  /\ UNCHANGED <<up, nextEventID, buffers, subscribers, tenant, chans, fan,
                 published, since, joined, dropped>>

PumpsFirst(c) == TRUE

Flushed(c) == missed[c] = <<>>

Receive(c) ==
  /\ up
  /\ tenant[c] # Closed
  /\ Flushed(c)
  /\ chans[c] # <<>>
  /\ seen' = [seen EXCEPT ![c] = Append(@, Head(chans[c]).EventID)]
  /\ chans' = [chans EXCEPT ![c] = Tail(@)]
  /\ UNCHANGED <<up, nextEventID, buffers, subscribers, tenant, missed, fan,
                 published, since, joined, dropped>>

-----------------------------------------------------------------------------
(* Ways for the process to die; everything above is memory and dies too.   *)

(* A send on the channel Unsubscribe closed after the loop picked it.      *)
PanicOnSend ==
  /\ up
  /\ fan.sub # NoChan
  /\ tenant[fan.sub] = Closed
  /\ Fresh(FALSE)

(* A handler changes the map while the loop walks it, and the runtime's    *)
(* best-effort detector notices: a fatal error no recover can stop.        *)
FatalMapAccess ==
  /\ up
  /\ \E ns \in Namespaces : Walking(ns)
  /\ Fresh(FALSE)

Kill    == up /\ Fresh(FALSE)
Restart == ~up /\ Fresh(TRUE)

-----------------------------------------------------------------------------
(* What the watch goroutine does from the unlock to the end of handleEvent.*)
FanoutStep == \/ \E c \in Chans : Pick(c) \/ Send(c) \/ Drop(c)
              \/ FanoutDone
              \/ PanicOnSend

Next ==
  \/ \E c \in Chans, ns \in Namespaces, sinceID \in 0 .. MaxEvents :
       Subscribe(c, ns, sinceID)
  \/ \E ns \in Namespaces, change \in Changes : Publish(ns, change)
  \/ FanoutStep
  \/ \E c \in Chans : Unsubscribe(c) \/ TakeMissed(c) \/ Receive(c)
  \/ FatalMapAccess
  \/ Kill
  \/ Restart

Spec == Init /\ [][Next]_vars

(* The Go scheduler runs a handler that is not cancelled, which keeps      *)
(* draining its subscription.  Only EventuallySeen needs that much.        *)
HandlersRun == \A c \in Chans : WF_vars(TakeMissed(c) \/ Receive(c))

-----------------------------------------------------------------------------
(* Every variable has its type, and what belongs to a closed channel is    *)
(* cleared.                                                                *)
TypeOK ==
  /\ up \in BOOLEAN
  /\ nextEventID \in 0 .. MaxEvents
  /\ buffers \in [Namespaces -> Ring(Events)]
  /\ subscribers \in [Namespaces -> SUBSET Chans]
  /\ tenant \in [Chans -> Namespaces \cup {Closed}]
  /\ chans \in [Chans -> Seq(Events)]
  /\ missed \in [Chans -> MissedSlices]
  /\ fan \in FanoutLoops
  /\ published \in [Namespaces -> Seq(Events)]
  /\ since \in [Chans -> Nat]
  /\ joined \in [Chans -> Nat]
  /\ seen \in [Chans -> Seq(Nat)]
  /\ dropped \in [Chans -> SUBSET Nat]

(* The ring of a namespace holds exactly the newest events published for   *)
(* it, in order: replayBufferSize of them, or all while there are fewer.   *)
(* This is what add and since promise a reconnecting client.               *)
RingHoldsNewest ==
  \A ns \in Namespaces : HoldsNewest(buffers[ns], published[ns])

(* The events of its namespace a channel c of ns must hear of: everything  *)
(* published after it subscribed and, when it came with a Last-Event-ID,   *)
(* everything after that ID.                                               *)
Owed(c, ns) ==
  {k \in DOMAIN published[ns] :
     \/ k > joined[c]
     \/ since[c] > 0 /\ published[ns][k].EventID > since[c]}

(* Where such an event may be: taken by the handler, still in the slice or *)
(* the channel, on its way in the fan-out loop, or lost for one of the two *)
(* stated reasons: the channel was full, or the ring had rotated it out    *)
(* before the client came back.                                            *)
Accounted(c, ns, k) ==
  LET evt == published[ns][k]
  IN  \/ \E i \in DOMAIN seen[c] : seen[c][i] = evt.EventID
      \/ \E i \in DOMAIN missed[c] : missed[c][i] = evt
      \/ \E i \in DOMAIN chans[c] : chans[c][i] = evt
      \/ fan.evt = evt /\ (c \in fan.todo \/ c = fan.sub)
      \/ evt.EventID \in dropped[c]
      \/ k <= joined[c] - replayBufferSize

(* Subscribe leaves no gap between the replayed slice and the live channel:*)
(* whatever the fan-out and the handlers interleave, every event a         *)
(* subscriber is owed is accounted for.                                    *)
NoSilentGap ==
  \A ns \in Namespaces, c \in Chans :
    tenant[c] = ns => \A k \in Owed(c, ns) : Accounted(c, ns, k)

(* A full subscriber whose handler is stuck, a closed one, even one that   *)
(* arrives during the walk, never keeps the watch goroutine in the loop:   *)
(* no fairness of any handler is assumed.                                  *)
FanoutTerminates == fan.evt # NoEvent ~> fan.evt = NoEvent

(* A handler that stays gets to see every event it is owed, except the     *)
(* ones dropped on its full channel or rotated out before it subscribed.   *)
EventuallySeen ==
  HandlersRun =>
  \A ns \in Namespaces, c \in Chans, n \in 1 .. MaxEvents :
    (/\ tenant[c] = ns
     /\ \E k \in Owed(c, ns) : /\ published[ns][k].EventID = n
                               /\ k > joined[c] - replayBufferSize)
    ~> (\/ \E i \in DOMAIN seen[c] : seen[c][i] = n
        \/ n \in dropped[c]
        \/ tenant[c] = Closed)

(* The comment on the Watcher's fields puts subscribers under mu.  Then    *)
(* nobody could close a channel between the loop picking it and the send.  *)
NeverSendsOnClosed == fan.sub # NoChan => tenant[fan.sub] # Closed
=============================================================================
