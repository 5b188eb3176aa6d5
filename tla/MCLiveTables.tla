---------------------------- MODULE MCLiveTables ----------------------------
(***************************************************************************)
(* Three small instances of LiveTable in one run of TLC.  A behaviour is   *)
(* about the handlers: one application, two handlers that may stream it at *)
(* a time, a process that stays up.  Or about the rows: two applications   *)
(* of one status and one handler at a time.  Or about redraws: one         *)
(* application, one handler at a time, and the table drawn from lists and  *)
(* snapshots that are older than the frames the page has had.              *)
(***************************************************************************)
EXTENDS MCLiveTable

VARIABLE about

Topics == [topic : {"handlers", "redraws"}, app : Apps] \cup [topic : {"rows"}, status : Statuses]

OneApp == \A a \in Apps \ {about.app} : objects'[a] = Absent

OneStatus == \A a \in Apps : objects'[a] \in {about.status, Absent}

OneHandler == \A c, d \in Chans : tenant'[c] # Closed /\ tenant'[d] # Closed => c = d

DrawnAtOnce == held' = {} /\ ~Redraw /\ (LoadPage => rows' = objects)

Within ==
  \/ about.topic = "handlers" /\ OneApp /\ up' /\ DrawnAtOnce
  \/ about.topic = "rows" /\ OneStatus /\ OneHandler /\ DrawnAtOnce
  \/ about.topic = "redraws" /\ OneApp /\ OneHandler

TablesInit == TableInit /\ about \in Topics

TablesSpec == TablesInit /\ [][TableNext /\ Within /\ UNCHANGED about]_<<tableVars, about>>
=============================================================================
