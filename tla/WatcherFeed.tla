---------------------------- MODULE WatcherFeed ----------------------------
(***************************************************************************)
(* The watcher as an implementation of the feed of module EventFeed.       *)
(***************************************************************************)
EXTENDS Watcher

(* How many events of a history carry an EventID up to id: the position of *)
(* that event if the history has it.                                       *)
UpTo(log, id) == Cardinality({k \in DOMAIN log : log[k].EventID <= id})

(* Where a client stood that subscribed when the history was len long.     *)
Start(log, sinceID, len) ==
  IF sinceID = 0 \/ len < UpTo(log, sinceID) THEN len ELSE UpTo(log, sinceID)

(* The positions it stood at, the start included, given the IDs it took.   *)
Path(log, sinceID, len, ids) ==
  <<Start(log, sinceID, len)>> \o [i \in DOMAIN ids |-> UpTo(log, ids[i])]

PathOf(c, ns) == Path(published[ns], since[c], joined[c], seen[c])

Cursor(path) == path[Len(path)]

Repeats(path) == \E i \in 1 .. Len(path) - 1 : path[i] = path[i + 1]

FeedOf(c) ==
  IF tenant[c] = Closed
  THEN Closed
  ELSE [ns     |-> tenant[c],
        cursor |-> Cursor(PathOf(c, tenant[c])),
        again  |-> Repeats(PathOf(c, tenant[c]))]

(* The mark of a stream that is not attached is no place in a feed.        *)
ASSUME FeedAssumption == Closed \notin [ns : Namespaces, cursor : Nat, again : BOOLEAN]

Feed == INSTANCE EventFeed
          WITH Streams <- Chans,
               length  <- [ns \in Namespaces |-> Len(published[ns])],
               feed    <- [c \in Chans |-> FeedOf(c)]

(* Each subscription is an ordered feed of its own namespace: replay and   *)
(* live events never go backwards, and only one event may come twice, the  *)
(* one whose fan-out was under way when the client subscribed.             *)
IsOrderedFeed == Feed!FeedSpec

(* No handler ever holds or has taken an event of another namespace: the   *)
(* access check of SSEHandler covers everything the stream then writes.    *)
TenantIsolation ==
  \A ns \in Namespaces, c \in Chans : tenant[c] = ns =>
    /\ \A i \in DOMAIN chans[c] : chans[c][i].ns = ns
    /\ \A i \in DOMAIN missed[c] : missed[c][i].ns = ns
    /\ \A i \in DOMAIN seen[c] :
         \E k \in DOMAIN published[ns] : published[ns][k].EventID = seen[c][i]
=============================================================================
