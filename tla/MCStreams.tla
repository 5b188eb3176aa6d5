------------------------------ MODULE MCStreams ------------------------------
(***************************************************************************)
(* PageStreams with one tab open at a time: a behaviour is one of the log, *)
(* of the events or of the server, whichever of them a run looks at.  One  *)
(* of the log is about the stream of one socket, or about the scrollback   *)
(* over several of them and over Back and Forward, with fewer chunks.      *)
(***************************************************************************)
EXTENDS PageStreams

CONSTANTS e1, e2, e3, app1, app2, r1, r2, Tabs

VARIABLE tab

MCDerived == {<<e1, app1>>, <<e2, app1>>, <<e2, app2>>, <<e3, app2>>}
MCTransition == (e1 :> "same") @@ (e2 :> "same") @@ (e3 :> "other")

(* Two modes stand for the four with sessions: token is as byok is, and    *)
(* impersonation-legacy as passthrough.                                    *)
MCEnvironments == [dev : BOOLEAN, mode : {"", "other", "byok", "passthrough"},
                   issuer : BOOLEAN, client : BOOLEAN, secret : Secrets]

tabVars == <<pageVars, tab>>

TabInit ==
  /\ StreamsInit
  /\ tab \in Tabs
  /\ tab # "Server" => env = CHOOSE e \in Environments : TRUE

InLogs(step) == tab \in {"Logs", "Scrollback"} /\ OfLogs(step) /\ UNCHANGED tab
InEvents(step) == tab = "Events" /\ OfEvents(step) /\ UNCHANGED tab
InServer(step) == tab = "Server" /\ OfServer(step) /\ UNCHANGED tab

(* A process in dev mode serves as one with a single user does.            *)
Within ==
  /\ tab = "Logs" => sockets' <= 1 /\ saved' = 0
  /\ tab = "Scrollback" => written' < MaxLog
  /\ tab = "Server" /\ proc'.mode = "dev" => \A r \in Requests : reqs'[r].phase = "idle"

TabNext == (InLogs(Next) /\ Within) \/ InEvents(WatchNext) \/ (InServer(ServerNext) /\ Within)

TabSpec ==
  /\ TabInit /\ [][TabNext]_tabVars
  /\ WF_tabVars(InLogs(Quiet(Reader)))
  /\ WF_tabVars(InLogs(Quiet(Writer)))
  /\ WF_tabVars(InLogs(Quiet(PeerWatchEnds)))
  /\ WF_tabVars(InEvents(ForwardEvent))
  /\ WF_tabVars(InEvents(HandleMessage))
  /\ WF_tabVars(InServer(ServerRuns))
==============================================================================
