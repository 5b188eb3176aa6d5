---------------------------- MODULE AuthSession ----------------------------
(***************************************************************************)
(* The sign-in session of internal/auth: everything the server knows about *)
(* a user is in a cookie the browser keeps, signed with a key each process *)
(* draws at start.  A request works on the copy of the cookie it was sent  *)
(* with, may call the identity provider to refresh the ID token, and its   *)
(* reply may replace or drop the browser's cookie; replies arrive in any   *)
(* order, or not at all.                                                   *)
(*                                                                         *)
(* A tab is one chain of requests of the browser: it follows redirects, so *)
(* a page that must sign in again goes through /auth/login, the provider   *)
(* and /auth/callback by itself.  Token n stands for the n-th answer of    *)
(* the provider, ID token and refresh token both.  Time is abstracted to   *)
(* the set of ID tokens with more than refreshLeadTime left.               *)
(***************************************************************************)
EXTENDS Naturals, FiniteSets

CONSTANTS Tabs,         \* concurrent chains of requests of one browser
          Deployments,  \* the ways the process may be deployed and used
          Uploads,      \* sizes in bytes of what users upload or paste
          MaxTokens,    \* bound on the answers of the provider
          MaxLogins,    \* bound on the sign-ins begun
          MaxRestarts,  \* bound on the process restarts
          NoCookie,     \* the browser has no session cookie
          Unset         \* a reply without a Set-Cookie header

Modes == {"passthrough", "impersonation-legacy", "byok", "token"}
StartKinds == {"page", "api", "login", "logout", "upload"}
Kinds == StartKinds \cup {"callback"}
Anomalies == {"refresh", "norefresh", "save", "reply", "restart", "expiry", "revoke"}
Phases == {"idle", "pending", "sent", "refreshing", "answered"}
Statuses == {"none", "served", "redirect", "unauthorized", "rejected", "error"}

Tokens == 1 .. MaxTokens
Session == [user : BOOLEAN, id : {0} \cup Tokens, refresh : {0} \cup Tokens,
            state : 0 .. MaxLogins, credential : {0} \cup Uploads]
Cookies == [key : 0 .. MaxRestarts, session : Session]
Requests == [phase : Phases, kind : Kinds, cookie : Cookies \cup {NoCookie},
             state : 0 .. MaxLogins, result : {0} \cup Tokens,
             status : Statuses, token : {0} \cup Tokens,
             set : Cookies \cup {NoCookie, Unset}]

(* A deployment: the authentication mode; whether the provider spends a    *)
(* refresh token when it is used; the tabs in use; the kinds of request    *)
(* users start by themselves; what may go wrong.                           *)
AllDeployments == [mode : Modes, rotates : BOOLEAN, tabs : SUBSET Tabs,
                   acts : SUBSET StartKinds, faults : SUBSET Anomalies]

ASSUME AuthSessionAssumption ==
  /\ Deployments \subseteq AllDeployments
  /\ \A d \in Deployments :
       /\ "login" \in d.acts => d.mode \in {"passthrough", "impersonation-legacy"}
       /\ "upload" \in d.acts => d.mode \in {"byok", "token"}
  /\ IsFiniteSet(Tabs)
  /\ Uploads \subseteq Nat \ {0}
  /\ MaxTokens \in Nat /\ MaxLogins \in Nat /\ MaxRestarts \in Nat
  /\ NoCookie \notin Cookies /\ Unset \notin Cookies /\ NoCookie # Unset

VARIABLES
  deployment,  \* which of them this is, fixed by configuration
  cookie,   \* the browser's session cookie
  tabs,     \* the request each tab is at
  key,      \* the signing key of the running process
  logins,   \* the sign-ins begun: the last oauth state drawn
  minted,   \* the number of answers the provider has given
  fresh,    \* the ID tokens that do not need a refresh yet
  live,     \* the refresh tokens the provider accepts
  revoked,  \* history: refresh tokens the provider has revoked
  ended     \* history: the browser has been told of a sign-out since the
            \* last sign-in, and which tabs had a request under way then

serverVars == <<deployment, key, logins>>
providerVars == <<minted, fresh, live, revoked>>
vars == <<cookie, tabs, serverVars, providerVars, ended>>

mode    == deployment.mode
Rotates == deployment.rotates
Faults  == deployment.faults

Blank == [user |-> FALSE, id |-> 0, refresh |-> 0, state |-> 0, credential |-> 0]
NoRequest == [phase |-> "idle", kind |-> "page", cookie |-> NoCookie, state |-> 0,
              result |-> 0, status |-> "none", token |-> 0, set |-> Unset]

Init ==
  /\ deployment \in Deployments
  /\ cookie = NoCookie
  /\ tabs = [t \in Tabs |-> NoRequest]
  /\ key = 0
  /\ logins = 0
  /\ minted = 0
  /\ fresh = {}
  /\ live = {}
  /\ revoked = {}
  /\ ended = [out |-> FALSE, early |-> {}]

-----------------------------------------------------------------------------
(* The session store: Get fails on a cookie of another process's key, and  *)
(* gives a blank session when there is no cookie.                          *)
GetFails(t) == tabs[t].cookie # NoCookie /\ tabs[t].cookie.key # key

SessionOf(t) == IF tabs[t].cookie = NoCookie THEN Blank ELSE tabs[t].cookie.session

Stored(session) == [key |-> key, session |-> session]

SetUser(session, id, refresh) ==
  [session EXCEPT !.user = TRUE, !.id = id, !.refresh = refresh]

Cleared == NoCookie   \* Clear: every user value deleted, and MaxAge -1

(* What securecookie makes of a session whose only large value has n bytes *)
(* (the arithmetic beside tokenMaxBytes): gob, cipher, base64, signature,  *)
(* base64 again, and it refuses the result beyond 4096.                    *)
Base64(n) == 4 * ((n + 2) \div 3)
EncodedLength(n) == Base64(Base64(n + 266) + 53)
cookieMaxLength == 4096
kubeconfigMaxBytes == 32 * 1024
tokenMaxBytes == 1500

UploadCap == IF mode = "token" THEN tokenMaxBytes ELSE kubeconfigMaxBytes

(* Save fails when the encoded cookie is too long: known for uploads, and  *)
(* for an OIDC session a matter of how long the provider's tokens are.     *)
CanSave(session) == EncodedLength(session.credential) <= cookieMaxLength
SaveMayFail(session) == "save" \in Faults /\ session.id # 0

-----------------------------------------------------------------------------
Answer(t, status, set) ==
  tabs' = [tabs EXCEPT ![t].phase = "answered", ![t].status = status, ![t].set = set]

Serve(t, token, set) ==
  tabs' = [tabs EXCEPT ![t].phase = "answered", ![t].status = "served",
                       ![t].token = token, ![t].set = set]

(* Every handler first reads the session.  HandleLogout redirects all the  *)
(* same; none of them touches a cookie it cannot read.                     *)
RefuseForeignCookie(t) ==
  /\ tabs[t].phase = "sent"
  /\ GetFails(t)
  /\ Answer(t, CASE tabs[t].kind \in {"page", "api"} -> "unauthorized"
                 [] tabs[t].kind = "logout" -> "redirect"
                 [] OTHER -> "error",
            Unset)
  /\ UNCHANGED <<cookie, serverVars, providerVars, ended>>

Handles(t, kinds) == tabs[t].phase = "sent" /\ tabs[t].kind \in kinds /\ ~GetFails(t)

-----------------------------------------------------------------------------
(* RequireAuth in the two OIDC modes.                                      *)
ServesOIDC(t) == mode \in {"passthrough", "impersonation-legacy"} /\ Handles(t, {"page", "api"})

RefuseAnonymous(t) ==
  /\ ServesOIDC(t)
  /\ ~SessionOf(t).user
  /\ Answer(t, "unauthorized", Unset)
  /\ UNCHANGED <<cookie, serverVars, providerVars, ended>>

NeedsRefresh(t) == mode = "passthrough" /\ SessionOf(t).id \notin fresh

ServeAsIs(t) ==
  /\ ServesOIDC(t)
  /\ SessionOf(t).user
  /\ ~NeedsRefresh(t)
  /\ Serve(t, SessionOf(t).id, Unset)
  /\ UNCHANGED <<cookie, serverVars, providerVars, ended>>

ClearAndRefuse(t) == Answer(t, "unauthorized", Cleared)

ClearAndRedirect(t) ==
  Answer(t, IF tabs[t].kind = "api" THEN "unauthorized" ELSE "redirect", Cleared)

Unrefreshable(t) ==
  /\ ServesOIDC(t)
  /\ SessionOf(t).user
  /\ NeedsRefresh(t)
  /\ SessionOf(t).refresh = 0
  /\ ClearAndRedirect(t)
  /\ UNCHANGED <<cookie, serverVars, providerVars, ended>>

(* oidc.Refresh as the provider sees it: a live refresh token buys a new   *)
(* answer, and is itself spent when the provider rotates.  The answer can  *)
(* fail to come back, or fail verification, all the same.                  *)
CallRefresh(t) ==
  /\ ServesOIDC(t)
  /\ SessionOf(t).user
  /\ NeedsRefresh(t)
  /\ SessionOf(t).refresh # 0
  /\ \/ /\ SessionOf(t).refresh \in live
        /\ minted < MaxTokens
        /\ minted' = minted + 1
        /\ fresh' = fresh \cup {minted + 1}
        /\ live' = IF Rotates
                   THEN (live \ {SessionOf(t).refresh}) \cup {minted + 1}
                   ELSE live
        /\ \E result \in {minted + 1} \cup (IF "refresh" \in Faults THEN {0} ELSE {}) :
             tabs' = [tabs EXCEPT ![t].phase = "refreshing", ![t].result = result]
     \/ /\ SessionOf(t).refresh \notin live
        /\ tabs' = [tabs EXCEPT ![t].phase = "refreshing", ![t].result = 0]
        /\ UNCHANGED <<minted, fresh, live>>
  /\ UNCHANGED <<cookie, serverVars, revoked, ended>>

ServesWithoutToken(t) ==
  /\ tabs[t].phase = "refreshing"
  /\ tabs[t].result = 0
  /\ Serve(t, tabs[t].result, Unset)
  /\ UNCHANGED <<cookie, serverVars, providerVars, ended>>

RefreshFails(t) ==
  /\ tabs[t].phase = "refreshing"
  /\ tabs[t].result = 0
  /\ ClearAndRedirect(t)
  /\ UNCHANGED <<cookie, serverVars, providerVars, ended>>

(* The refresh token to keep: a provider that does not rotate sends none.  *)
TakesWhatComes(t) == IF Rotates THEN tabs[t].result ELSE 0

KeepsTheOld(t) == SessionOf(t).refresh

NewRefresh(t) == IF Rotates THEN tabs[t].result ELSE SessionOf(t).refresh

(* A save error is logged, no more: the request is served either way, with *)
(* the token that has just come back.                                      *)
ServesOldToken(t) == SessionOf(t).id

RefreshedToken(t) == tabs[t].result

PersistRefreshed(t) ==
  LET session == SetUser(SessionOf(t), tabs[t].result, NewRefresh(t))
  IN  /\ tabs[t].phase = "refreshing"
      /\ tabs[t].result # 0
      /\ \/ Serve(t, RefreshedToken(t), Stored(session))
         \/ SaveMayFail(session) /\ Serve(t, RefreshedToken(t), Unset)
      /\ UNCHANGED <<cookie, serverVars, providerVars, ended>>

-----------------------------------------------------------------------------
(* HandleLogin, HandleCallback and HandleLogout.                           *)
HandleLogin(t) ==
  LET session == [SessionOf(t) EXCEPT !.state = logins + 1]
  IN  /\ Handles(t, {"login"})
      /\ logins < MaxLogins
      /\ logins' = logins + 1
      /\ \/ Answer(t, "redirect", Stored(session))
         \/ SaveMayFail(session) /\ Answer(t, "error", Unset)
      /\ UNCHANGED <<deployment, cookie, key, providerVars, ended>>

StateMatches(t) == SessionOf(t).state # 0 /\ SessionOf(t).state = tabs[t].state

RefuseState(t) ==
  /\ Handles(t, {"callback"})
  /\ ~StateMatches(t)
  /\ Answer(t, "rejected", Unset)
  /\ UNCHANGED <<cookie, serverVars, providerVars, ended>>

HandleCallback(t) ==
  /\ Handles(t, {"callback"})
  /\ StateMatches(t)
  /\ minted < MaxTokens
  /\ minted' = minted + 1
  /\ fresh' = fresh \cup {minted + 1}
  /\ \E refresh \in {minted + 1} \cup (IF "norefresh" \in Faults THEN {0} ELSE {}) :
       LET session == SetUser([SessionOf(t) EXCEPT !.state = 0], minted + 1, refresh)
       IN  /\ live' = live \cup ({refresh} \ {0})
           /\ \/ Answer(t, "redirect", Stored(session))
              \/ SaveMayFail(session) /\ Answer(t, "error", Unset)
  /\ UNCHANGED <<cookie, serverVars, revoked, ended>>

SavesWithoutClear(t) == Stored(SessionOf(t))

SignedOut(t) == Cleared

HandleLogout(t) ==
  /\ Handles(t, {"logout"})
  /\ Answer(t, "redirect", SignedOut(t))
  /\ UNCHANGED <<cookie, serverVars, providerVars, ended>>

-----------------------------------------------------------------------------
(* The modes in which the cookie carries a kubeconfig or a bearer token.   *)
ServeCredential(t) ==
  /\ mode \in {"byok", "token"}
  /\ Handles(t, {"page", "api"})
  /\ \/ SessionOf(t).credential # 0 /\ Serve(t, 0, Unset)
     \/ /\ SessionOf(t).credential = 0
        /\ Answer(t, IF tabs[t].kind = "api" THEN "unauthorized" ELSE "redirect", Unset)
  /\ UNCHANGED <<cookie, serverVars, providerVars, ended>>

(* HandleKubeconfigUpload and HandleTokenUpload: an upload that is over    *)
(* the cap, does not parse or fails the probe renders the form again;      *)
(* otherwise the session is read only now, and saved.                      *)
Upload(t) ==
  /\ mode \in {"byok", "token"}
  /\ Handles(t, {"upload"})
  /\ \/ Answer(t, "rejected", Unset)
     \/ \E size \in Uploads :
          LET session == [SetUser(SessionOf(t), 0, 0) EXCEPT !.credential = size]
          IN  /\ size <= UploadCap
              /\ IF CanSave(session) THEN Answer(t, "redirect", Stored(session))
                                     ELSE Answer(t, "error", Unset)
  /\ UNCHANGED <<cookie, serverVars, providerVars, ended>>

-----------------------------------------------------------------------------
(* The browser.                                                            *)
Start(t, kind) ==
  /\ t \in deployment.tabs
  /\ kind \in deployment.acts
  /\ tabs[t].phase = "idle"
  /\ tabs' = [tabs EXCEPT ![t] = [NoRequest EXCEPT !.phase = "sent", !.kind = kind,
                                                   !.cookie = cookie]]
  /\ UNCHANGED <<cookie, serverVars, providerVars, ended>>

Follow(t) ==
  /\ tabs[t].phase = "pending"
  /\ tabs' = [tabs EXCEPT ![t].phase = "sent", ![t].cookie = cookie]
  /\ UNCHANGED <<cookie, serverVars, providerVars, ended>>

(* Where a redirect leads.  A login goes to the provider, which sends the  *)
(* user back with the state it was given; the upload modes have a form.    *)
After(t) ==
  LET to(kind, state) == [NoRequest EXCEPT !.phase = "pending", !.kind = kind,
                                           !.state = state]
      oidc == mode \in {"passthrough", "impersonation-legacy"}
  IN  IF tabs[t].status # "redirect"
      THEN NoRequest
      ELSE CASE tabs[t].kind = "login" -> to("callback", tabs[t].set.session.state)
             [] tabs[t].kind \in {"callback", "upload"} -> to("page", 0)
             [] OTHER -> IF oidc THEN to("login", 0) ELSE NoRequest

Busy == {t \in Tabs : tabs[t].phase \in {"sent", "refreshing", "answered"}}

Deliver(t) ==
  /\ tabs[t].phase = "answered"
  /\ cookie' = IF tabs[t].set = Unset THEN cookie ELSE tabs[t].set
  /\ tabs' = [tabs EXCEPT ![t] = After(t)]
  /\ ended' = CASE tabs[t].kind = "logout" /\ tabs[t].set # Unset ->
                     [out |-> TRUE, early |-> Busy \ {t}]
                [] tabs[t].kind \in {"callback", "upload"} ->
                     [out |-> FALSE, early |-> {}]
                [] OTHER -> [ended EXCEPT !.out = @ /\ ~(t \in ended.early
                                                         /\ tabs[t].set # Unset),
                                          !.early = @ \ {t}]
  /\ UNCHANGED <<serverVars, providerVars>>

Disconnect(t) ==  \* the request or its reply is lost
  /\ "reply" \in Faults
  /\ tabs[t].phase \in {"sent", "answered"}
  /\ tabs' = [tabs EXCEPT ![t] = NoRequest]
  /\ ended' = [ended EXCEPT !.early = @ \ {t}]
  /\ UNCHANGED <<cookie, serverVars, providerVars>>

CookieExpires ==  \* sessionMaxAgeSecs after it was set
  /\ "expiry" \in Faults
  /\ cookie # NoCookie
  /\ cookie' = NoCookie
  /\ UNCHANGED <<tabs, serverVars, providerVars, ended>>

-----------------------------------------------------------------------------
(* Time, the provider and the process.                                     *)
TokenAges(n) ==
  /\ n \in fresh
  /\ fresh' = fresh \ {n}
  /\ UNCHANGED <<cookie, tabs, serverVars, minted, live, revoked, ended>>

Revoke ==
  /\ "revoke" \in Faults
  /\ live # {}
  /\ revoked' = revoked \cup live
  /\ live' = {}
  /\ UNCHANGED <<cookie, tabs, serverVars, minted, fresh, ended>>

(* A new process: what the old one was answering is gone.                  *)
Restart ==
  /\ "restart" \in Faults
  /\ key < MaxRestarts
  /\ key' = key + 1
  /\ tabs' = [t \in Tabs |-> IF t \in Busy THEN NoRequest ELSE tabs[t]]
  /\ ended' = [ended EXCEPT !.early = {}]
  /\ UNCHANGED <<deployment, cookie, logins, providerVars>>

-----------------------------------------------------------------------------
Handler(t) ==
  \/ RefuseForeignCookie(t)
  \/ RefuseAnonymous(t) \/ ServeAsIs(t) \/ Unrefreshable(t)
  \/ CallRefresh(t) \/ RefreshFails(t) \/ PersistRefreshed(t)
  \/ HandleLogin(t) \/ RefuseState(t) \/ HandleCallback(t) \/ HandleLogout(t)
  \/ ServeCredential(t) \/ Upload(t)

Browser(t) == Follow(t) \/ Deliver(t)

Next ==
  \/ \E t \in Tabs : Handler(t) \/ Browser(t) \/ Disconnect(t)
  \/ \E t \in Tabs, kind \in StartKinds : Start(t, kind)
  \/ \E n \in Tokens : TokenAges(n)
  \/ CookieExpires \/ Revoke \/ Restart

Spec == Init /\ [][Next]_vars

(* The server answers and the browser takes the answer and follows it.     *)
FairSpec == Spec /\ \A t \in Tabs : WF_vars(Handler(t)) /\ WF_vars(Browser(t))

-----------------------------------------------------------------------------
(* Every variable has its type, and a request served in passthrough mode   *)
(* has a token to go on with.                                              *)
TypeOK ==
  /\ deployment \in Deployments
  /\ cookie \in Cookies \cup {NoCookie}
  /\ tabs \in [Tabs -> Requests]
  /\ key \in 0 .. MaxRestarts
  /\ logins \in 0 .. MaxLogins
  /\ minted \in 0 .. MaxTokens
  /\ fresh \subseteq Tokens
  /\ live \subseteq Tokens
  /\ revoked \subseteq Tokens
  /\ ended \in [out : BOOLEAN, early : SUBSET Tabs]
  /\ \A t \in Tabs :
       mode = "passthrough" /\ tabs[t].status = "served" => tabs[t].token \in Tokens

(* A provider that does not rotate, and answers every sign-in with a       *)
(* refresh token, leaves every session refreshable until it revokes it:    *)
(* whatever requests refresh at once, whatever reply is lost or late, no   *)
(* cookie ends up without the refresh token it had.                        *)
StaysRefreshable ==
  /\ mode = "passthrough" /\ ~Rotates /\ "norefresh" \notin Faults
  /\ cookie # NoCookie /\ cookie.session.user
  => cookie.session.refresh \in live \cup revoked

(* A sign-out the browser has been told of is final: until the next        *)
(* sign-in it holds no identity, unless the reply to a request that was    *)
(* under way at that moment brings the old one back.                       *)
SignedOutStays ==
  ended.out /\ cookie # NoCookie
    => ~cookie.session.user /\ cookie.session.credential = 0

(* A request handed to its handler carries an ID token that needed no      *)
(* refresh when it was looked at, or the one the refresh has just brought: *)
(* never the token that was found stale.                                   *)
ServesUsableToken ==
  [][\A t \in Tabs :
       mode = "passthrough" /\ tabs[t].status = "none" /\ tabs'[t].status = "served"
         => tabs'[t].token \in fresh \cup ({tabs[t].result} \ {0})]_vars

(* One request at a time, and every reply is saved and delivered.          *)
Orderly == Cardinality(deployment.tabs) = 1 /\ Faults \subseteq {"norefresh", "revoke"}

(* A bound of the model keeps the request of t from being answered.        *)
Exhausted(t) ==
  /\ tabs[t].phase = "sent"
  /\ \/ tabs[t].kind = "login" /\ logins = MaxLogins
     \/ tabs[t].kind # "login" /\ minted = MaxTokens

(* The page of a user whose session can no longer be refreshed signs in    *)
(* again by itself and is served in the end.                               *)
SignsInAgain ==
  \A t \in Tabs :
    (/\ Orderly /\ mode = "passthrough"
     /\ tabs[t].phase = "sent" /\ tabs[t].kind = "page"
     /\ tabs[t].cookie # NoCookie /\ SessionOf(t).user)
    ~> (tabs[t].status = "served" \/ Exhausted(t))

(* The troubleshooting guide says a failed refresh means that the session  *)
(* or the refresh token was revoked.                                       *)
FailsOnlyIfRevoked ==
  \A t \in Tabs :
    tabs[t].phase = "refreshing" /\ tabs[t].result = 0
      => SessionOf(t).refresh \in revoked

(* So it is, also with a provider that spends the token at each refresh,   *)
(* in an orderly deployment: the chain of refresh tokens never breaks by   *)
(* itself.                                                                 *)
ChainUnbroken == Orderly => FailsOnlyIfRevoked
=============================================================================
