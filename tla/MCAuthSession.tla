--------------------------- MODULE MCAuthSession ---------------------------
(* AuthSession in small deployments for TLC. *)
EXTENDS AuthSession

CONSTANTS t1, t2  \* two tabs

OIDCActs   == {"page", "api", "logout", "login"}
UploadActs == {"page", "api", "logout", "upload"}

Deployed(m, rot, who, what, wrong) ==
  [mode |-> m, rotates |-> rot, tabs |-> who, acts |-> what, faults |-> wrong]

(* Two tabs and everything that can go wrong against a provider that does  *)
(* not rotate; one orderly tab against one that does; the legacy mode; the *)
(* token mode across a restart.                                            *)
MCDeployments ==
  { Deployed("passthrough", FALSE, {t1, t2}, OIDCActs \ {"api"},
             {"refresh", "save", "reply", "expiry", "revoke"}),
    Deployed("passthrough", TRUE, {t1}, OIDCActs, {"norefresh", "revoke"}),
    Deployed("impersonation-legacy", FALSE, {t1}, OIDCActs, {"reply"}),
    Deployed("token", FALSE, {t1, t2}, UploadActs, {"reply", "expiry", "restart"}) }

RacingTabs == {Deployed("passthrough", TRUE, {t1, t2}, {"page", "login"}, {})}
=============================================================================
