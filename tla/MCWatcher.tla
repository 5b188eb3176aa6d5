----------------------------- MODULE MCWatcher -----------------------------
(* Watcher and its abstract feed on small instances for TLC. *)
EXTENDS WatcherFeed, TLC

Symmetry == Permutations(Chans) \cup Permutations(Namespaces)
=============================================================================
