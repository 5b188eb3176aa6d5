----------------------------- MODULE EventFeed -----------------------------
(***************************************************************************)
(* What the watcher promises the handler of a subscription, whatever its   *)
(* rings, channels and fan-out loop do: a feed of the events of one        *)
(* namespace, from a starting point on, in the order they were published.  *)
(* The feed may skip events, and may repeat one event, once.  Events are   *)
(* known by their position in the history of their namespace.              *)
(***************************************************************************)
EXTENDS Naturals

CONSTANTS Namespaces, Streams, Closed

VARIABLES length,  \* how many events each namespace has had
          feed     \* Closed, or where a stream stands

feedVars == <<length, feed>>

FeedInit == /\ length = [ns \in Namespaces |-> 0]
            /\ feed = [s \in Streams |-> Closed]

Emit(ns) == /\ length' = [length EXCEPT ![ns] = @ + 1]
            /\ UNCHANGED feed

Attach(s, ns, start) ==
  /\ feed[s] = Closed
  /\ feed' = [feed EXCEPT ![s] = [ns |-> ns, cursor |-> start, again |-> FALSE]]
  /\ UNCHANGED length

Deliver(s, k) ==
  /\ feed[s] # Closed
  /\ k <= length[feed[s].ns]
  /\ \/ k > feed[s].cursor
     \/ k = feed[s].cursor /\ ~feed[s].again
  /\ feed' = [feed EXCEPT ![s].cursor = k,
                          ![s].again = @ \/ k = feed[s].cursor]
  /\ UNCHANGED length

Detach(s) == /\ feed[s] # Closed
             /\ feed' = [feed EXCEPT ![s] = Closed]
             /\ UNCHANGED length

(* The process dies, and the history starts over with the next one. *)
Forget == FeedInit'

FeedNext ==
  \/ \E ns \in Namespaces : Emit(ns)
  \/ \E s \in Streams, ns \in Namespaces : \E start \in 0 .. length[ns] : Attach(s, ns, start)
  \/ \E s \in Streams : \/ Detach(s)
                        \/ feed[s] # Closed /\ \E k \in 1 .. length[feed[s].ns] : Deliver(s, k)
  \/ Forget

FeedSpec == FeedInit /\ [][FeedNext]_feedVars
=============================================================================
