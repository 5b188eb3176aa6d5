---------------------------- MODULE MCLiveTable ----------------------------
(* LiveTable on small instances for TLC. *)
EXTENDS LiveTable

MCChanges == [op : {"added", "modified", "deleted"}, app : Apps,
              status : Statuses \cup {Absent}]

Symmetry == Permutations(Apps) \cup Permutations(Chans) \cup Permutations(Statuses)
=============================================================================
