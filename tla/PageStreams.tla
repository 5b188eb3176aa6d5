---------------------------- MODULE PageStreams ----------------------------
(***************************************************************************)
(* The two user-credentialed streams of an application's page, its log and *)
(* its events, and the server they pass through, which sees of a stream    *)
(* only that it is one: a step is one of theirs, and leaves the others'    *)
(* state alone.                                                            *)
(***************************************************************************)
EXTENDS LogTail, WatchProxy, Server

pageVars == <<vars, watchVars, serverVars>>

OfLogs(step)   == step /\ UNCHANGED <<watchVars, serverVars>>
OfEvents(step) == step /\ UNCHANGED <<vars, serverVars>>
OfServer(step) == step /\ UNCHANGED <<vars, watchVars>>

StreamsInit == Init /\ WatchInit /\ ServerInit

StreamsNext == OfLogs(Next) \/ OfEvents(WatchNext) \/ OfServer(ServerNext)

StreamsSpec == StreamsInit /\ [][StreamsNext]_pageVars

-----------------------------------------------------------------------------
(* Every variable has its type.                                            *)
StreamsTypeOK == TailTypeOK /\ WatchTypeOK /\ ServerTypeOK
=============================================================================
