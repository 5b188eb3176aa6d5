------------------------- MODULE AuthSessionProofs -------------------------
(***************************************************************************)
(* The session cookie, for every set of tabs and deployments and any       *)
(* number of answers, sign-ins and restarts.                               *)
(***************************************************************************)
EXTENDS AuthSession, FiniteSetTheorems, TLAPS

(* What the phase of a tab says of its request.                            *)
Control ==
  \A t \in Tabs :
    /\ tabs[t].phase # "idle" => t \in deployment.tabs
    /\ tabs[t].phase = "refreshing" =>
         /\ mode = "passthrough" /\ tabs[t].kind \in {"page", "api"}
         /\ tabs[t].cookie # NoCookie /\ tabs[t].cookie.session.user
    /\ tabs[t].phase # "answered" => tabs[t].set = Unset
    /\ tabs[t].phase = "answered" /\ tabs[t].kind = "logout" =>
         tabs[t].set \in {Unset, NoCookie}
    /\ tabs[t].phase = "answered" /\ tabs[t].kind = "login" /\ tabs[t].status = "redirect" =>
         tabs[t].set \in Cookies

(* A provider that does not rotate: no copy of the cookie, in the browser, *)
(* in a request or in a reply, is without its refresh token.               *)
Keeping == mode = "passthrough" /\ ~Rotates /\ "norefresh" \notin Faults

Refreshable(c) == c \in Cookies /\ c.session.user => c.session.refresh \in live \cup revoked

KeepsRefresh ==
  Keeping => /\ Refreshable(cookie)
             /\ \A t \in Tabs : Refreshable(tabs[t].cookie) /\ Refreshable(tabs[t].set)

(* After a sign-out the requests that began later carry no identity, and   *)
(* only a sign-in puts one into a reply.                                   *)
Clean(c) == c \in Cookies => ~c.session.user /\ c.session.credential = 0

CleanSince ==
  ended.out =>
    /\ Clean(cookie)
    /\ \A t \in Busy \ ended.early :
         /\ Clean(tabs[t].cookie)
         /\ tabs[t].kind \notin {"callback", "upload"} => Clean(tabs[t].set)

(* The only tab of an orderly deployment: its request has the cookie the   *)
(* browser has, and one of the two has the refresh token that is good.     *)
Chained(c, good) == c \in Cookies => c.session.refresh \in {0} \cup good

Superseded(t) ==
  \/ tabs[t].phase = "refreshing" /\ tabs[t].result # 0
  \/ tabs[t].phase = "answered" /\ tabs[t].set # Unset

Linked(t) ==
  /\ t \in Busy => tabs[t].cookie = cookie
  /\ ~Superseded(t) => Chained(cookie, live \cup revoked)
  /\ Chained(tabs[t].set, live \cup revoked)
  /\ tabs[t].phase = "refreshing" =>
       IF tabs[t].result = 0 THEN tabs[t].cookie.session.refresh \in revoked
                             ELSE NewRefresh(t) \in {0} \cup live \cup revoked

Chain == Orderly => \A t \in deployment.tabs : Linked(t)

SessionInv == TypeOK /\ Control /\ KeepsRefresh /\ CleanSince /\ Chain

-----------------------------------------------------------------------------
(* What the types say, spelled out.                                        *)
LEMMA Types ==
  ASSUME TypeOK
  PROVE  /\ deployment \in AllDeployments /\ deployment \in Deployments
         /\ mode \in Modes /\ deployment.tabs \subseteq Tabs /\ Rotates \in BOOLEAN
         /\ cookie \in Cookies \cup {NoCookie}
         /\ tabs \in [Tabs -> Requests]
         /\ key \in 0 .. MaxRestarts /\ logins \in 0 .. MaxLogins /\ minted \in 0 .. MaxTokens
         /\ fresh \subseteq Tokens /\ live \subseteq Tokens /\ revoked \subseteq Tokens
         /\ ended.out \in BOOLEAN /\ ended.early \subseteq Tabs
         /\ ended = [out |-> ended.out, early |-> ended.early]
  BY AuthSessionAssumption DEF TypeOK, AllDeployments, mode, Rotates

LEMMA RequestFields ==
  ASSUME NEW r \in Requests
  PROVE  /\ r.phase \in Phases /\ r.kind \in Kinds /\ r.cookie \in Cookies \cup {NoCookie}
         /\ r.state \in 0 .. MaxLogins /\ r.result \in {0} \cup Tokens
         /\ r.status \in Statuses /\ r.token \in {0} \cup Tokens
         /\ r.set \in Cookies \cup {NoCookie, Unset}
  BY DEF Requests

LEMMA CookieFields ==
  ASSUME NEW c \in Cookies
  PROVE  /\ c.session \in Session /\ c.session.user \in BOOLEAN
         /\ c.session.id \in {0} \cup Tokens /\ c.session.refresh \in {0} \cup Tokens
         /\ c.session.state \in 0 .. MaxLogins /\ c.session.credential \in {0} \cup Uploads
         /\ c # NoCookie /\ c # Unset
  BY AuthSessionAssumption DEF Cookies, Session

LEMMA Sentinels == NoCookie \notin Cookies /\ Unset \notin Cookies /\ NoCookie # Unset
  BY AuthSessionAssumption

LEMMA BlankSays ==
  /\ Blank \in Session /\ ~Blank.user /\ Blank.refresh = 0 /\ Blank.credential = 0
  /\ NoRequest \in Requests /\ NoRequest.phase = "idle" /\ NoRequest.set = Unset
  /\ NoRequest.status = "none" /\ NoRequest.cookie = NoCookie
  <1>1. MaxLogins \in Nat /\ 0 \in 0 .. MaxLogins
    BY AuthSessionAssumption
  <1>. QED  BY <1>1 DEF Blank, Session, NoRequest, Requests, Phases, Kinds, StartKinds, Statuses

LEMMA SessionTyped ==
  ASSUME TypeOK, NEW t \in Tabs
  PROVE  /\ SessionOf(t) \in Session
         /\ tabs[t].cookie # NoCookie => /\ tabs[t].cookie \in Cookies
                                         /\ SessionOf(t) = tabs[t].cookie.session
         /\ tabs[t].cookie = NoCookie => SessionOf(t) = Blank
  BY Types, RequestFields, CookieFields, BlankSays DEF SessionOf

LEMMA SessionFields ==
  ASSUME NEW s \in Session
  PROVE  /\ s.user \in BOOLEAN /\ s.id \in {0} \cup Tokens /\ s.refresh \in {0} \cup Tokens
         /\ s.state \in 0 .. MaxLogins /\ s.credential \in {0} \cup Uploads
  BY DEF Session

LEMMA StoredSays ==
  ASSUME TypeOK, NEW s \in Session
  PROVE  /\ Stored(s) \in Cookies /\ Stored(s).session = s
         /\ Stored(s) # NoCookie /\ Stored(s) # Unset
  <1>1. Stored(s) \in Cookies /\ Stored(s).session = s
    BY Types DEF Stored, Cookies
  <1>. QED  BY <1>1, Sentinels

LEMMA SetUserSays ==
  ASSUME NEW s \in Session, NEW id \in {0} \cup Tokens, NEW refresh \in {0} \cup Tokens
  PROVE  /\ SetUser(s, id, refresh) \in Session
         /\ SetUser(s, id, refresh).user
         /\ SetUser(s, id, refresh).refresh = refresh
         /\ SetUser(s, id, refresh).credential = s.credential
  BY DEF SetUser, Session

LEMMA NextAnswer ==
  ASSUME TypeOK, minted < MaxTokens
  PROVE  minted + 1 \in Tokens /\ minted + 1 \in 0 .. MaxTokens
  BY Types, AuthSessionAssumption DEF Tokens

-----------------------------------------------------------------------------
(* The reply a step gives: only its own tab moves on, to "answered".       *)
OthersStay(t) == tabs' \in [Tabs -> Requests] /\ \A s \in Tabs : s # t => tabs'[s] = tabs[s]

Replies(t) ==
  /\ OthersStay(t)
  /\ tabs[t].phase \in {"sent", "refreshing"} /\ tabs'[t].phase = "answered"
  /\ tabs'[t].kind = tabs[t].kind /\ tabs'[t].cookie = tabs[t].cookie
  /\ tabs'[t].result = tabs[t].result

LEMMA TabSays ==
  ASSUME TypeOK, NEW t \in Tabs, NEW r \in Requests, tabs' = [tabs EXCEPT ![t] = r]
  PROVE  OthersStay(t) /\ tabs'[t] = r
  BY Types DEF OthersStay

LEMMA AnswerSays ==
  ASSUME TypeOK, NEW t \in Tabs, tabs[t].phase \in {"sent", "refreshing"},
         NEW status \in Statuses, NEW set \in Cookies \cup {NoCookie, Unset},
         Answer(t, status, set)
  PROVE  /\ Replies(t) /\ tabs'[t].status = status /\ tabs'[t].set = set
         /\ tabs'[t].token = tabs[t].token
  <1>1. PICK r : r = [tabs[t] EXCEPT !.phase = "answered", !.status = status, !.set = set]
    OBVIOUS
  <1>2. tabs[t] \in Requests
    BY Types
  <1>3. /\ r \in Requests /\ r.phase = "answered" /\ r.status = status /\ r.set = set
        /\ r.kind = tabs[t].kind /\ r.cookie = tabs[t].cookie /\ r.result = tabs[t].result
        /\ r.token = tabs[t].token
    BY <1>1, <1>2 DEF Requests, Phases
  <1>4. tabs' = [tabs EXCEPT ![t] = r]
    BY <1>1, <1>2, Types DEF Answer, Requests
  <1>. QED  BY <1>3, <1>4, TabSays DEF Replies

LEMMA ServeSays ==
  ASSUME TypeOK, NEW t \in Tabs, tabs[t].phase \in {"sent", "refreshing"},
         NEW token \in {0} \cup Tokens, NEW set \in Cookies \cup {NoCookie, Unset},
         Serve(t, token, set)
  PROVE  /\ Replies(t) /\ tabs'[t].status = "served" /\ tabs'[t].set = set
         /\ tabs'[t].token = token
  <1>1. PICK r : r = [tabs[t] EXCEPT !.phase = "answered", !.status = "served",
                                     !.token = token, !.set = set]
    OBVIOUS
  <1>2. tabs[t] \in Requests
    BY Types
  <1>3. /\ r \in Requests /\ r.phase = "answered" /\ r.status = "served" /\ r.set = set
        /\ r.kind = tabs[t].kind /\ r.cookie = tabs[t].cookie /\ r.result = tabs[t].result
        /\ r.token = token
    BY <1>1, <1>2 DEF Requests, Phases, Statuses
  <1>4. tabs' = [tabs EXCEPT ![t] = r]
    BY <1>1, <1>2, Types DEF Serve, Requests
  <1>. QED  BY <1>3, <1>4, TabSays DEF Replies
-----------------------------------------------------------------------------
(* A request that is handed on in passthrough mode has a token.            *)
Usable(t) == mode = "passthrough" /\ tabs'[t].status = "served"
               => tabs'[t].token \in fresh \cup ({tabs[t].result} \ {0})

Plain(t) ==
  /\ Replies(t) /\ Usable(t) /\ tabs'[t].set \in {Unset, NoCookie}
  /\ tabs[t].kind = "login" => tabs'[t].status # "redirect"

Saves(t, session) ==
  /\ Replies(t) /\ Usable(t) /\ session \in Session
  /\ tabs'[t].set \in {Unset, Stored(session)}

AnswersPlainly(t) ==
  \/ RefuseForeignCookie(t) \/ RefuseAnonymous(t) \/ ServeAsIs(t) \/ Unrefreshable(t)
  \/ RefreshFails(t) \/ RefuseState(t) \/ HandleLogout(t) \/ ServeCredential(t)

LEMMA PlainAnswer ==
  ASSUME TypeOK, NEW t \in Tabs, tabs[t].phase \in {"sent", "refreshing"},
         NEW status \in Statuses \ {"served"}, NEW set \in {Unset, NoCookie},
         Answer(t, status, set), tabs[t].kind = "login" => status # "redirect"
  PROVE  Plain(t)
  BY AnswerSays DEF Plain, Usable

LEMMA PlainSays ==
  ASSUME TypeOK, Control, NEW t \in Tabs, AnswersPlainly(t)
  PROVE  /\ Plain(t) /\ UNCHANGED <<cookie, serverVars, providerVars, ended>>
         /\ tabs[t].phase = "refreshing" => tabs[t].result = 0
  <1>. SUFFICES Plain(t)
    BY DEF Handles, ServesOIDC, AnswersPlainly, RefuseForeignCookie, RefuseAnonymous, ServeAsIs, Unrefreshable,
           RefreshFails, RefuseState, HandleLogout, ServeCredential
  <1>. USE DEF Handles, ServesOIDC
  <1>1. ASSUME RefuseForeignCookie(t) PROVE Plain(t)
    <2>1. PICK status \in Statuses \ {"served"} :
            Answer(t, status, Unset) /\ (tabs[t].kind = "login" => status # "redirect")
      BY <1>1 DEF RefuseForeignCookie, Statuses
    <2>. QED  BY <1>1, <2>1, PlainAnswer DEF RefuseForeignCookie
  <1>2. ASSUME RefuseAnonymous(t) PROVE Plain(t)
    BY <1>2, PlainAnswer DEF RefuseAnonymous, Statuses
  <1>3. ASSUME ServeAsIs(t) PROVE Plain(t)
    <2>1. SessionOf(t).id \in {0} \cup Tokens
      BY SessionTyped, SessionFields
    <2>2. Replies(t) /\ tabs'[t].set = Unset /\ tabs'[t].token = SessionOf(t).id
      BY <1>3, <2>1, ServeSays DEF ServeAsIs
    <2>3. mode = "passthrough" => SessionOf(t).id \in fresh
      BY <1>3 DEF ServeAsIs, NeedsRefresh
    <2>. QED  BY <1>3, <2>2, <2>3 DEF Plain, Usable, ServeAsIs
  <1>4. ASSUME Unrefreshable(t) PROVE Plain(t)
    <2>1. PICK status \in {"unauthorized", "redirect"} : Answer(t, status, NoCookie)
      BY <1>4 DEF Unrefreshable, ClearAndRedirect, Cleared
    <2>. QED  BY <1>4, <2>1, PlainAnswer DEF Unrefreshable, Statuses
  <1>5. ASSUME RefreshFails(t) PROVE Plain(t)
    <2>1. PICK status \in {"unauthorized", "redirect"} : Answer(t, status, NoCookie)
      BY <1>5 DEF RefreshFails, ClearAndRedirect, Cleared
    <2>2. tabs[t].kind \in {"page", "api"}
      BY <1>5 DEF RefreshFails, Control
    <2>. QED  BY <1>5, <2>1, <2>2, PlainAnswer DEF RefreshFails, Statuses
  <1>6. ASSUME RefuseState(t) PROVE Plain(t)
    BY <1>6, PlainAnswer DEF RefuseState, Statuses
  <1>7. ASSUME HandleLogout(t) PROVE Plain(t)
    BY <1>7, PlainAnswer DEF HandleLogout, SignedOut, Cleared, Statuses
  <1>8. ASSUME ServeCredential(t) PROVE Plain(t)
    <2>1. tabs[t].phase = "sent" /\ tabs[t].kind \in {"page", "api"} /\ mode \in {"byok", "token"}
      BY <1>8 DEF ServeCredential
    <2>2. CASE Serve(t, 0, Unset)
      <3>1. Replies(t) /\ tabs'[t].set = Unset
        BY <2>1, <2>2, ServeSays
      <3>. QED  BY <2>1, <3>1 DEF Plain, Usable
    <2>3. CASE Answer(t, IF tabs[t].kind = "api" THEN "unauthorized" ELSE "redirect", Unset)
      <3>1. PICK status \in {"unauthorized", "redirect"} : Answer(t, status, Unset)
        BY <2>3
      <3>. QED  BY <2>1, <3>1, PlainAnswer DEF Statuses
    <2>. QED  BY <1>8, <2>2, <2>3 DEF ServeCredential
  <1>. QED  BY <1>1, <1>2, <1>3, <1>4, <1>5, <1>6, <1>7, <1>8 DEF AnswersPlainly

(* The token endpoint: what the provider's answer does.                    *)
LEMMA RefreshSays ==
  ASSUME TypeOK, NEW t \in Tabs, CallRefresh(t)
  PROVE  /\ OthersStay(t) /\ tabs[t].phase = "sent" /\ tabs'[t].phase = "refreshing"
         /\ tabs'[t].kind = tabs[t].kind /\ tabs'[t].cookie = tabs[t].cookie
         /\ tabs'[t].set = tabs[t].set /\ tabs'[t].status = tabs[t].status
         /\ tabs'[t].token = tabs[t].token
         /\ mode = "passthrough" /\ tabs[t].kind \in {"page", "api"}
         /\ tabs[t].cookie \in Cookies /\ SessionOf(t) = tabs[t].cookie.session
         /\ SessionOf(t).user /\ SessionOf(t).refresh # 0
         /\ UNCHANGED <<cookie, serverVars, revoked, ended>>
         /\ \/ /\ SessionOf(t).refresh \in live /\ minted + 1 \in Tokens
               /\ minted' = minted + 1 /\ fresh' = fresh \cup {minted + 1}
               /\ live' = IF Rotates THEN (live \ {SessionOf(t).refresh}) \cup {minted + 1}
                                     ELSE live
               /\ \/ tabs'[t].result = minted + 1
                  \/ tabs'[t].result = 0 /\ "refresh" \in Faults
            \/ /\ SessionOf(t).refresh \notin live /\ tabs'[t].result = 0
               /\ UNCHANGED <<minted, fresh, live>>
  <1>1. /\ mode = "passthrough" /\ tabs[t].kind \in {"page", "api"} /\ tabs[t].phase = "sent"
        /\ SessionOf(t).user /\ SessionOf(t).refresh # 0
        /\ UNCHANGED <<cookie, serverVars, revoked, ended>>
    BY DEF CallRefresh, ServesOIDC, Handles, NeedsRefresh
  <1>2. tabs[t].cookie \in Cookies /\ SessionOf(t) = tabs[t].cookie.session
    BY <1>1, SessionTyped, BlankSays
  <1>3. ASSUME NEW result \in {0} \cup Tokens,
               tabs' = [tabs EXCEPT ![t].phase = "refreshing", ![t].result = result]
        PROVE  /\ OthersStay(t) /\ tabs'[t].phase = "refreshing"
               /\ tabs'[t].kind = tabs[t].kind /\ tabs'[t].cookie = tabs[t].cookie
               /\ tabs'[t].set = tabs[t].set /\ tabs'[t].status = tabs[t].status
               /\ tabs'[t].token = tabs[t].token /\ tabs'[t].result = result
    <2>1. PICK r : r = [tabs[t] EXCEPT !.phase = "refreshing", !.result = result]
      OBVIOUS
    <2>2. tabs[t] \in Requests
      BY Types
    <2>3. /\ r \in Requests /\ r.phase = "refreshing" /\ r.kind = tabs[t].kind
          /\ r.cookie = tabs[t].cookie /\ r.set = tabs[t].set /\ r.status = tabs[t].status
          /\ r.token = tabs[t].token /\ r.result = result
      BY <2>1, <2>2 DEF Requests, Phases
    <2>4. tabs' = [tabs EXCEPT ![t] = r]
      BY <1>3, <2>1, <2>2, Types DEF Requests
    <2>. QED  BY <2>3, <2>4, TabSays
  <1>4. CASE /\ SessionOf(t).refresh \in live /\ minted < MaxTokens
             /\ minted' = minted + 1 /\ fresh' = fresh \cup {minted + 1}
             /\ live' = IF Rotates THEN (live \ {SessionOf(t).refresh}) \cup {minted + 1}
                                   ELSE live
             /\ \E result \in {minted + 1} \cup (IF "refresh" \in Faults THEN {0} ELSE {}) :
                  tabs' = [tabs EXCEPT ![t].phase = "refreshing", ![t].result = result]
    <2>1. minted + 1 \in Tokens
      BY <1>4, NextAnswer
    <2>2. PICK result \in {minted + 1} \cup (IF "refresh" \in Faults THEN {0} ELSE {}) :
            tabs' = [tabs EXCEPT ![t].phase = "refreshing", ![t].result = result]
      BY <1>4
    <2>3. result = minted + 1 \/ (result = 0 /\ "refresh" \in Faults)
      BY <2>2
    <2>4. result \in {0} \cup Tokens
      BY <2>1, <2>3
    <2>5. /\ OthersStay(t) /\ tabs'[t].phase = "refreshing"
          /\ tabs'[t].kind = tabs[t].kind /\ tabs'[t].cookie = tabs[t].cookie
          /\ tabs'[t].set = tabs[t].set /\ tabs'[t].status = tabs[t].status
          /\ tabs'[t].token = tabs[t].token /\ tabs'[t].result = result
      BY <1>3, <2>2, <2>4
    <2>. QED  BY <1>1, <1>2, <1>4, <2>1, <2>3, <2>5
  <1>5. CASE /\ SessionOf(t).refresh \notin live
             /\ tabs' = [tabs EXCEPT ![t].phase = "refreshing", ![t].result = 0]
             /\ UNCHANGED <<minted, fresh, live>>
    BY <1>1, <1>2, <1>3, <1>5
  <1>. QED  BY <1>4, <1>5 DEF CallRefresh
(* The replies that save a session.                                        *)
LEMMA PersistSays ==
  ASSUME TypeOK, Control, NEW t \in Tabs, PersistRefreshed(t)
  PROVE  /\ tabs[t].phase = "refreshing" /\ tabs[t].result \in Tokens
         /\ UNCHANGED <<cookie, serverVars, providerVars, ended>>
         /\ \E session : /\ Saves(t, session)
                         /\ session.user /\ session.refresh = NewRefresh(t)
                         /\ "save" \notin Faults => tabs'[t].set = Stored(session)
  <1>1. /\ tabs[t].phase = "refreshing" /\ tabs[t].result \in Tokens
        /\ UNCHANGED <<cookie, serverVars, providerVars, ended>>
    BY Types, RequestFields DEF PersistRefreshed
  <1>2. PICK session : session = SetUser(SessionOf(t), tabs[t].result, NewRefresh(t))
    OBVIOUS
  <1>3. NewRefresh(t) \in {0} \cup Tokens
    BY Types, RequestFields, SessionTyped, SessionFields DEF NewRefresh
  <1>4. session \in Session /\ session.user /\ session.refresh = NewRefresh(t)
    <2>1. SessionOf(t) \in Session /\ tabs[t].result \in {0} \cup Tokens
      BY <1>1, SessionTyped
    <2>. QED  BY <1>2, <1>3, <2>1, SetUserSays
  <1>5. PICK set \in {Unset, Stored(session)} :
          /\ Serve(t, tabs[t].result, set)
          /\ "save" \notin Faults => set = Stored(session)
    BY <1>2 DEF PersistRefreshed, RefreshedToken, SaveMayFail
  <1>6. set \in Cookies \cup {NoCookie, Unset}
    BY <1>4, <1>5, StoredSays
  <1>7. Replies(t) /\ tabs'[t].set = set /\ tabs'[t].token = tabs[t].result
    BY <1>1, <1>5, <1>6, ServeSays
  <1>8. Usable(t)
    <2>1. tabs[t].result # 0
      BY DEF PersistRefreshed
    <2>. QED  BY <1>7, <2>1 DEF Usable
  <1>. QED  BY <1>1, <1>4, <1>5, <1>7, <1>8 DEF Saves

LEMMA SavedAnswer ==
  ASSUME TypeOK, NEW t \in Tabs, tabs[t].phase = "sent", NEW session \in Session,
         Answer(t, "redirect", Stored(session)) \/ Answer(t, "error", Unset)
  PROVE  /\ Saves(t, session)
         /\ tabs'[t].status = "redirect" => tabs'[t].set = Stored(session)
  <1>1. PICK set \in {Unset, Stored(session)}, status \in {"redirect", "error"} :
          /\ Answer(t, status, set)
          /\ status = "redirect" => set = Stored(session)
    OBVIOUS
  <1>2. set \in Cookies \cup {NoCookie, Unset} /\ status \in Statuses
    BY StoredSays DEF Statuses
  <1>3. Replies(t) /\ tabs'[t].set = set /\ tabs'[t].status = status
    BY <1>1, <1>2, AnswerSays
  <1>. QED  BY <1>1, <1>3 DEF Saves, Usable

LEMMA LoginSays ==
  ASSUME TypeOK, NEW t \in Tabs, HandleLogin(t)
  PROVE  /\ tabs[t].phase = "sent" /\ tabs[t].kind = "login"
         /\ logins' \in 0 .. MaxLogins
         /\ UNCHANGED <<deployment, cookie, key, providerVars, ended>>
         /\ \E session : /\ Saves(t, session)
                         /\ session.user = SessionOf(t).user
                         /\ session.refresh = SessionOf(t).refresh
                         /\ session.credential = SessionOf(t).credential
                         /\ tabs'[t].status = "redirect" => tabs'[t].set = Stored(session)
  <1>1. /\ tabs[t].phase = "sent" /\ tabs[t].kind = "login"
        /\ logins < MaxLogins /\ logins' = logins + 1
        /\ UNCHANGED <<deployment, cookie, key, providerVars, ended>>
    BY DEF HandleLogin, Handles
  <1>2. logins + 1 \in 0 .. MaxLogins
    BY <1>1, Types, AuthSessionAssumption
  <1>3. PICK session : session = [SessionOf(t) EXCEPT !.state = logins + 1]
    OBVIOUS
  <1>4. /\ session \in Session
        /\ session.user = SessionOf(t).user /\ session.refresh = SessionOf(t).refresh
        /\ session.credential = SessionOf(t).credential
    BY <1>2, <1>3, SessionTyped DEF Session
  <1>5. Answer(t, "redirect", Stored(session)) \/ Answer(t, "error", Unset)
    BY <1>3 DEF HandleLogin
  <1>. QED  BY <1>1, <1>2, <1>4, <1>5, SavedAnswer

LEMMA CallbackSays ==
  ASSUME TypeOK, NEW t \in Tabs, HandleCallback(t)
  PROVE  /\ tabs[t].phase = "sent" /\ tabs[t].kind = "callback"
         /\ minted + 1 \in Tokens /\ minted' = minted + 1 /\ fresh' = fresh \cup {minted + 1}
         /\ UNCHANGED <<cookie, serverVars, revoked, ended>>
         /\ \E session, refresh :
              /\ Saves(t, session) /\ session.user /\ session.refresh = refresh
              /\ refresh = minted + 1 \/ (refresh = 0 /\ "norefresh" \in Faults)
              /\ live' = live \cup ({refresh} \ {0})
  <1>1. /\ tabs[t].phase = "sent" /\ tabs[t].kind = "callback" /\ minted < MaxTokens
        /\ minted' = minted + 1 /\ fresh' = fresh \cup {minted + 1}
        /\ UNCHANGED <<cookie, serverVars, revoked, ended>>
    BY DEF HandleCallback, Handles
  <1>2. minted + 1 \in Tokens
    BY <1>1, NextAnswer
  <1>3. PICK before : before = [SessionOf(t) EXCEPT !.state = 0]
    OBVIOUS
  <1>4. before \in Session
    <2>1. 0 \in 0 .. MaxLogins
      BY AuthSessionAssumption
    <2>. QED  BY <1>3, <2>1, SessionTyped DEF Session
  <1>5. PICK refresh \in {minted + 1} \cup (IF "norefresh" \in Faults THEN {0} ELSE {}) :
          /\ live' = live \cup ({refresh} \ {0})
          /\ \/ Answer(t, "redirect", Stored(SetUser(before, minted + 1, refresh)))
             \/ Answer(t, "error", Unset)
    BY <1>3 DEF HandleCallback
  <1>6. refresh = minted + 1 \/ (refresh = 0 /\ "norefresh" \in Faults)
    BY <1>5
  <1>7. PICK session : session = SetUser(before, minted + 1, refresh)
    OBVIOUS
  <1>8. session \in Session /\ session.user /\ session.refresh = refresh
    <2>1. minted + 1 \in {0} \cup Tokens /\ refresh \in {0} \cup Tokens
      BY <1>2, <1>6
    <2>. QED  BY <1>4, <1>7, <2>1, SetUserSays
  <1>9. Saves(t, session)
    BY <1>1, <1>5, <1>7, <1>8, SavedAnswer
  <1>. QED  BY <1>1, <1>2, <1>5, <1>6, <1>8, <1>9

LEMMA UploadSays ==
  ASSUME TypeOK, NEW t \in Tabs, Upload(t)
  PROVE  /\ tabs[t].phase = "sent" /\ tabs[t].kind = "upload" /\ mode \in {"byok", "token"}
         /\ UNCHANGED <<cookie, serverVars, providerVars, ended>>
         /\ \/ Plain(t)
            \/ \E session : Saves(t, session) /\ session.refresh = 0
  <1>1. /\ tabs[t].phase = "sent" /\ tabs[t].kind = "upload" /\ mode \in {"byok", "token"}
        /\ UNCHANGED <<cookie, serverVars, providerVars, ended>>
    BY DEF Upload, Handles
  <1>2. CASE Answer(t, "rejected", Unset)
    BY <1>1, <1>2, PlainAnswer DEF Statuses
  <1>3. CASE \E size \in Uploads :
               LET session == [SetUser(SessionOf(t), 0, 0) EXCEPT !.credential = size]
               IN  \/ Answer(t, "redirect", Stored(session))
                   \/ Answer(t, "error", Unset)
    <2>1. PICK size \in Uploads :
            LET session == [SetUser(SessionOf(t), 0, 0) EXCEPT !.credential = size]
            IN  \/ Answer(t, "redirect", Stored(session))
                \/ Answer(t, "error", Unset)
      BY <1>3
    <2>2. PICK plain, session : /\ plain = SetUser(SessionOf(t), 0, 0)
                                /\ session = [plain EXCEPT !.credential = size]
      OBVIOUS
    <2>3. plain \in Session /\ plain.refresh = 0
      BY <2>2, SessionTyped, SetUserSays
    <2>4. session \in Session /\ session.refresh = 0
      BY <2>2, <2>3 DEF Session
    <2>. QED  BY <1>1, <2>1, <2>2, <2>4, SavedAnswer
  <1>. QED  BY <1>1, <1>2, <1>3 DEF Upload
-----------------------------------------------------------------------------
(* The browser's steps.                                                    *)
LEMMA StartSays ==
  ASSUME TypeOK, NEW t \in Tabs, NEW kind \in StartKinds, Start(t, kind)
  PROVE  /\ OthersStay(t) /\ t \in deployment.tabs
         /\ tabs[t].phase = "idle" /\ tabs'[t].phase = "sent"
         /\ tabs'[t].kind \in Kinds \ {"callback"} /\ tabs'[t].cookie = cookie
         /\ tabs'[t].set = Unset /\ tabs'[t].status = "none"
         /\ UNCHANGED <<cookie, serverVars, providerVars, ended>>
  <1>1. PICK r : r = [NoRequest EXCEPT !.phase = "sent", !.kind = kind, !.cookie = cookie]
    OBVIOUS
  <1>2. /\ r \in Requests /\ r.phase = "sent" /\ r.kind = kind /\ r.cookie = cookie
        /\ r.set = Unset /\ r.status = "none"
    <2>1. /\ NoRequest \in Requests /\ cookie \in Cookies \cup {NoCookie} /\ kind \in Kinds
          /\ NoRequest.set = Unset /\ NoRequest.status = "none"
      BY BlankSays, Types DEF Kinds
    <2>. QED  BY <1>1, <2>1 DEF Requests, Phases
  <1>3. kind \in Kinds \ {"callback"}
    BY DEF Kinds, StartKinds
  <1>. QED  BY <1>1, <1>2, <1>3, TabSays DEF Start

LEMMA FollowSays ==
  ASSUME TypeOK, NEW t \in Tabs, Follow(t)
  PROVE  /\ OthersStay(t)
         /\ tabs[t].phase = "pending" /\ tabs'[t].phase = "sent"
         /\ tabs'[t].kind = tabs[t].kind /\ tabs'[t].cookie = cookie
         /\ tabs'[t].set = tabs[t].set /\ tabs'[t].status = tabs[t].status
         /\ tabs'[t].token = tabs[t].token
         /\ UNCHANGED <<cookie, serverVars, providerVars, ended>>
  <1>1. PICK r : r = [tabs[t] EXCEPT !.phase = "sent", !.cookie = cookie]
    OBVIOUS
  <1>2. /\ r \in Requests /\ r.phase = "sent" /\ r.kind = tabs[t].kind /\ r.cookie = cookie
        /\ r.set = tabs[t].set /\ r.status = tabs[t].status /\ r.token = tabs[t].token
    <2>1. tabs[t] \in Requests /\ cookie \in Cookies \cup {NoCookie}
      BY Types
    <2>. QED  BY <1>1, <2>1 DEF Requests, Phases
  <1>3. tabs' = [tabs EXCEPT ![t] = r]
    <2>1. tabs[t] \in Requests /\ tabs \in [Tabs -> Requests]
      BY Types
    <2>. QED  BY <1>1, <2>1 DEF Follow, Requests
  <1>. QED  BY <1>2, <1>3, TabSays DEF Follow

(* A request that a redirect leads to, before the browser sends it.        *)
Pending(kind, state) == [NoRequest EXCEPT !.phase = "pending", !.kind = kind, !.state = state]

LEMMA PendingSays ==
  ASSUME NEW kind \in Kinds, NEW state \in 0 .. MaxLogins
  PROVE  /\ Pending(kind, state) \in Requests /\ Pending(kind, state).phase = "pending"
         /\ Pending(kind, state).set = Unset /\ Pending(kind, state).status = "none"
         /\ Pending(kind, state).cookie = NoCookie
  BY BlankSays DEF Pending, Requests, Phases

LEMMA AfterSays ==
  ASSUME TypeOK, Control, NEW t \in Tabs, tabs[t].phase = "answered"
  PROVE  /\ After(t) \in Requests /\ After(t).phase \in {"idle", "pending"}
         /\ After(t).set = Unset /\ After(t).status = "none" /\ After(t).cookie = NoCookie
  <1>1. 0 \in 0 .. MaxLogins
    BY AuthSessionAssumption
  <1>2. "callback" \in Kinds /\ "page" \in Kinds /\ "login" \in Kinds
    BY DEF Kinds, StartKinds
  <1>3. \/ After(t) = NoRequest
        \/ /\ tabs[t].status = "redirect" /\ tabs[t].kind = "login"
           /\ After(t) = Pending("callback", tabs[t].set.session.state)
        \/ After(t) = Pending("page", 0)
        \/ After(t) = Pending("login", 0)
    <2>1. CASE tabs[t].status # "redirect"
      BY <2>1 DEF After
    <2>2. CASE tabs[t].status = "redirect" /\ tabs[t].kind = "login"
      BY <2>2 DEF After, Pending
    <2>3. CASE tabs[t].status = "redirect" /\ tabs[t].kind \in {"callback", "upload"}
      BY <2>3 DEF After, Pending
    <2>4. CASE tabs[t].status = "redirect" /\ tabs[t].kind \notin {"login", "callback", "upload"}
      BY <2>4 DEF After, Pending
    <2>. QED  BY <2>1, <2>2, <2>3, <2>4
  <1>4. CASE After(t) = NoRequest
    BY <1>4, BlankSays
  <1>5. CASE /\ tabs[t].status = "redirect" /\ tabs[t].kind = "login"
             /\ After(t) = Pending("callback", tabs[t].set.session.state)
    <2>1. tabs[t].set \in Cookies
      BY <1>5 DEF Control
    <2>. QED  BY <1>2, <1>5, <2>1, CookieFields, PendingSays
  <1>6. CASE After(t) = Pending("page", 0) \/ After(t) = Pending("login", 0)
    BY <1>1, <1>2, <1>6, PendingSays
  <1>. QED  BY <1>3, <1>4, <1>5, <1>6

LEMMA DeliverSays ==
  ASSUME TypeOK, Control, NEW t \in Tabs, Deliver(t)
  PROVE  /\ OthersStay(t) /\ tabs[t].phase = "answered"
         /\ tabs'[t].phase \in {"idle", "pending"}
         /\ tabs'[t].set = Unset /\ tabs'[t].status = "none" /\ tabs'[t].cookie = NoCookie
         /\ cookie' = IF tabs[t].set = Unset THEN cookie ELSE tabs[t].set
         /\ UNCHANGED <<serverVars, providerVars>>
  <1>1. tabs' = [tabs EXCEPT ![t] = After(t)] /\ tabs[t].phase = "answered"
    BY DEF Deliver
  <1>. QED  BY <1>1, AfterSays, TabSays DEF Deliver

LEMMA DisconnectSays ==
  ASSUME TypeOK, NEW t \in Tabs, Disconnect(t)
  PROVE  /\ OthersStay(t) /\ "reply" \in Faults /\ tabs[t].phase \in {"sent", "answered"}
         /\ tabs'[t].phase = "idle" /\ tabs'[t].set = Unset /\ tabs'[t].status = "none"
         /\ tabs'[t].cookie = NoCookie
         /\ ended' = [ended EXCEPT !.early = @ \ {t}]
         /\ UNCHANGED <<cookie, serverVars, providerVars>>
  <1>1. /\ tabs' = [tabs EXCEPT ![t] = NoRequest]
        /\ "reply" \in Faults /\ tabs[t].phase \in {"sent", "answered"}
        /\ ended' = [ended EXCEPT !.early = @ \ {t}]
        /\ UNCHANGED <<cookie, serverVars, providerVars>>
    BY DEF Disconnect
  <1>. QED  BY <1>1, BlankSays, TabSays

LEMMA RestartSays ==
  ASSUME TypeOK, Restart
  PROVE  /\ tabs' \in [Tabs -> Requests] /\ "restart" \in Faults
         /\ \A t \in Tabs :
              IF t \in Busy THEN /\ tabs'[t].phase = "idle" /\ tabs'[t].set = Unset
                                 /\ tabs'[t].status = "none" /\ tabs'[t].cookie = NoCookie
                            ELSE tabs'[t] = tabs[t]
         /\ key' \in 0 .. MaxRestarts
         /\ ended' = [ended EXCEPT !.early = {}]
         /\ UNCHANGED <<deployment, cookie, logins, providerVars>>
  <1>1. \A t \in Tabs : NoRequest \in Requests /\ tabs[t] \in Requests
    BY BlankSays, Types
  <1>2. key + 1 \in 0 .. MaxRestarts
    BY Types, AuthSessionAssumption DEF Restart
  <1>. QED  BY <1>1, <1>2, BlankSays DEF Restart
-----------------------------------------------------------------------------
(* Every step is one of these.                                             *)
LEMMA Steps ==
  ASSUME [Next]_vars
  PROVE  \/ UNCHANGED vars
         \/ \E t \in Tabs :
              \/ AnswersPlainly(t) \/ CallRefresh(t) \/ PersistRefreshed(t)
              \/ HandleLogin(t) \/ HandleCallback(t) \/ Upload(t)
              \/ Follow(t) \/ Deliver(t) \/ Disconnect(t)
         \/ \E t \in Tabs, kind \in StartKinds : Start(t, kind)
         \/ \E n \in Tokens : TokenAges(n)
         \/ CookieExpires \/ Revoke \/ Restart
  BY DEF Next, Handler, Browser, AnswersPlainly

LEMMA TypedByTab ==
  ASSUME TypeOK, NEW t \in Tabs, OthersStay(t), UNCHANGED deployment,
         cookie' \in Cookies \cup {NoCookie},
         key' \in 0 .. MaxRestarts, logins' \in 0 .. MaxLogins, minted' \in 0 .. MaxTokens,
         fresh' \subseteq Tokens, live' \subseteq Tokens, revoked' \subseteq Tokens,
         ended' \in [out : BOOLEAN, early : SUBSET Tabs],
         mode = "passthrough" /\ tabs'[t].status = "served" => tabs'[t].token \in Tokens
  PROVE  TypeOK'
  <1>1. /\ deployment' \in Deployments /\ mode' = mode /\ tabs' \in [Tabs -> Requests]
    BY Types DEF OthersStay, mode
  <1>2. ASSUME NEW s \in Tabs, mode = "passthrough", tabs'[s].status = "served"
        PROVE  tabs'[s].token \in Tokens
    BY <1>2 DEF TypeOK, OthersStay
  <1>. QED  BY <1>1, <1>2 DEF TypeOK

(* Of one tab's reply, all that is left to say is what is stored where.    *)
LEMMA ReplyTyped ==
  ASSUME TypeOK, NEW t \in Tabs, Replies(t), Usable(t), UNCHANGED <<deployment, cookie, key>>,
         logins' \in 0 .. MaxLogins, minted' \in 0 .. MaxTokens,
         fresh' \subseteq Tokens, live' \subseteq Tokens, UNCHANGED <<revoked, ended>>
  PROVE  TypeOK'
  <1>1. mode = "passthrough" /\ tabs'[t].status = "served" => tabs'[t].token \in Tokens
    BY Types, RequestFields DEF Usable
  <1>2. ended' \in [out : BOOLEAN, early : SUBSET Tabs]
    BY DEF TypeOK
  <1>. QED  BY <1>1, <1>2, Types, TypedByTab DEF Replies

LEMMA TypeStep ==
  ASSUME TypeOK, Control, [Next]_vars
  PROVE  TypeOK'
  <1>. USE DEF serverVars, providerVars
  <1>0. ASSUME UNCHANGED vars PROVE TypeOK'
    BY <1>0 DEF TypeOK, vars, mode
  <1>1. ASSUME NEW t \in Tabs, AnswersPlainly(t) PROVE TypeOK'
    BY <1>1, PlainSays, ReplyTyped, Types DEF Plain
  <1>2. ASSUME NEW t \in Tabs, CallRefresh(t) PROVE TypeOK'
    <2>1. /\ OthersStay(t) /\ tabs'[t].status = tabs[t].status /\ tabs'[t].token = tabs[t].token
          /\ UNCHANGED <<cookie, deployment, key, logins, revoked, ended>>
          /\ minted' \in 0 .. MaxTokens /\ fresh' \subseteq Tokens /\ live' \subseteq Tokens
      BY <1>2, RefreshSays, Types DEF Tokens
    <2>. QED  BY <2>1, TypedByTab, Types DEF TypeOK
  <1>3. ASSUME NEW t \in Tabs, PersistRefreshed(t) PROVE TypeOK'
    BY <1>3, PersistSays, ReplyTyped, Types DEF Saves
  <1>4. ASSUME NEW t \in Tabs, HandleLogin(t) PROVE TypeOK'
    BY <1>4, LoginSays, ReplyTyped, Types DEF Saves
  <1>5. ASSUME NEW t \in Tabs, HandleCallback(t) PROVE TypeOK'
    <2>1. /\ Replies(t) /\ Usable(t) /\ UNCHANGED <<deployment, cookie, key, logins, revoked, ended>>
      BY <1>5, CallbackSays DEF Saves
    <2>2. minted' \in 0 .. MaxTokens /\ fresh' \subseteq Tokens /\ live' \subseteq Tokens
      BY <1>5, CallbackSays, Types DEF Tokens
    <2>. QED  BY <2>1, <2>2, ReplyTyped, Types
  <1>6. ASSUME NEW t \in Tabs, Upload(t) PROVE TypeOK'
    BY <1>6, UploadSays, ReplyTyped, Types DEF Saves, Plain
  <1>7. ASSUME NEW t \in Tabs, Follow(t) PROVE TypeOK'
    <2>1. /\ OthersStay(t) /\ tabs'[t].status = tabs[t].status /\ tabs'[t].token = tabs[t].token
          /\ UNCHANGED <<cookie, deployment, key, logins, minted, fresh, live, revoked, ended>>
      BY <1>7, FollowSays
    <2>. QED  BY <2>1, TypedByTab, Types DEF TypeOK
  <1>8. ASSUME NEW t \in Tabs, Deliver(t) PROVE TypeOK'
    <2>1. /\ OthersStay(t) /\ tabs'[t].status = "none"
          /\ cookie' = IF tabs[t].set = Unset THEN cookie ELSE tabs[t].set
          /\ UNCHANGED <<deployment, key, logins, minted, fresh, live, revoked>>
      BY <1>8, DeliverSays
    <2>2. cookie' \in Cookies \cup {NoCookie}
      BY <2>1, Types, RequestFields
    <2>3. ended' \in [out : BOOLEAN, early : SUBSET Tabs]
      <3>1. Busy \subseteq Tabs /\ ended.out \in BOOLEAN /\ ended.early \subseteq Tabs
        BY Types DEF Busy
      <3>2. CASE ended' = [out |-> TRUE, early |-> Busy \ {t}]
        BY <3>1, <3>2
      <3>3. CASE ended' = [out |-> FALSE, early |-> {}]
        BY <3>3
      <3>4. CASE ended' = [ended EXCEPT !.out = @ /\ ~(t \in ended.early /\ tabs[t].set # Unset),
                                        !.early = @ \ {t}]
        BY <3>1, <3>4 DEF TypeOK
      <3>. QED  BY <1>8, <3>2, <3>3, <3>4 DEF Deliver
    <2>. QED  BY <2>1, <2>2, <2>3, TypedByTab, Types
  <1>9. ASSUME NEW t \in Tabs, Disconnect(t) PROVE TypeOK'
    <2>1. /\ OthersStay(t) /\ tabs'[t].status = "none"
          /\ ended' = [ended EXCEPT !.early = @ \ {t}]
          /\ UNCHANGED <<cookie, deployment, key, logins, minted, fresh, live, revoked>>
      BY <1>9, DisconnectSays
    <2>2. ended' \in [out : BOOLEAN, early : SUBSET Tabs]
      BY <2>1 DEF TypeOK
    <2>. QED  BY <2>1, <2>2, TypedByTab, Types
  <1>10. ASSUME NEW t \in Tabs, NEW kind \in StartKinds, Start(t, kind) PROVE TypeOK'
    <2>1. /\ OthersStay(t) /\ tabs'[t].status = "none"
          /\ UNCHANGED <<cookie, deployment, key, logins, minted, fresh, live, revoked, ended>>
      BY <1>10, StartSays
    <2>. QED  BY <2>1, TypedByTab, Types DEF TypeOK
  <1>11. ASSUME NEW n \in Tokens, TokenAges(n) PROVE TypeOK'
    BY <1>11 DEF TokenAges, TypeOK, mode
  <1>12. ASSUME CookieExpires PROVE TypeOK'
    BY <1>12 DEF CookieExpires, TypeOK, mode
  <1>13. ASSUME Revoke PROVE TypeOK'
    BY <1>13 DEF Revoke, TypeOK, mode
  <1>14. ASSUME Restart PROVE TypeOK'
    <2>1. /\ tabs' \in [Tabs -> Requests] /\ key' \in 0 .. MaxRestarts
          /\ ended' = [ended EXCEPT !.early = {}]
          /\ UNCHANGED <<deployment, cookie, logins, minted, fresh, live, revoked>>
      BY <1>14, RestartSays
    <2>2. ended' \in [out : BOOLEAN, early : SUBSET Tabs]
      BY <2>1 DEF TypeOK
    <2>3. ASSUME NEW s \in Tabs, mode = "passthrough", tabs'[s].status = "served"
          PROVE  tabs'[s].token \in Tokens
      BY <1>14, <2>3, RestartSays DEF TypeOK
    <2>. QED  BY <2>1, <2>2, <2>3 DEF TypeOK, mode
  <1>. QED  BY <1>0, <1>1, <1>2, <1>3, <1>4, <1>5, <1>6, <1>7, <1>8, <1>9, <1>10, <1>11,
               <1>12, <1>13, <1>14, Steps
-----------------------------------------------------------------------------
LEMMA ControlByTab ==
  ASSUME Control, NEW t \in Tabs, OthersStay(t), UNCHANGED deployment,
         tabs'[t].phase # "idle" => t \in deployment.tabs,
         tabs'[t].phase = "refreshing" =>
           /\ mode = "passthrough" /\ tabs'[t].kind \in {"page", "api"}
           /\ tabs'[t].cookie # NoCookie /\ tabs'[t].cookie.session.user,
         tabs'[t].phase # "answered" => tabs'[t].set = Unset,
         tabs'[t].phase = "answered" /\ tabs'[t].kind = "logout" =>
           tabs'[t].set \in {Unset, NoCookie},
         tabs'[t].phase = "answered" /\ tabs'[t].kind = "login" /\ tabs'[t].status = "redirect" =>
           tabs'[t].set \in Cookies
  PROVE  Control'
  <1>1. mode' = mode /\ deployment' = deployment
    BY DEF mode
  <1>2. ASSUME NEW s \in Tabs
        PROVE  /\ tabs'[s].phase # "idle" => s \in deployment.tabs
               /\ tabs'[s].phase = "refreshing" =>
                    /\ mode = "passthrough" /\ tabs'[s].kind \in {"page", "api"}
                    /\ tabs'[s].cookie # NoCookie /\ tabs'[s].cookie.session.user
               /\ tabs'[s].phase # "answered" => tabs'[s].set = Unset
               /\ tabs'[s].phase = "answered" /\ tabs'[s].kind = "logout" =>
                    tabs'[s].set \in {Unset, NoCookie}
               /\ tabs'[s].phase = "answered" /\ tabs'[s].kind = "login"
                    /\ tabs'[s].status = "redirect" => tabs'[s].set \in Cookies
    BY DEF Control, OthersStay
  <1>. QED  BY <1>1, <1>2 DEF Control

LEMMA ControlStep ==
  ASSUME TypeOK, Control, [Next]_vars
  PROVE  Control'
  <1>. USE DEF serverVars
  <1>0. ASSUME UNCHANGED <<tabs, deployment>> PROVE Control'
    BY <1>0 DEF Control, mode
  <1>1. ASSUME NEW t \in Tabs, AnswersPlainly(t) PROVE Control'
    <2>1. Plain(t) /\ UNCHANGED deployment
      BY <1>1, PlainSays
    <2>. QED  BY <2>1, ControlByTab DEF Plain, Replies, Control
  <1>2. ASSUME NEW t \in Tabs, CallRefresh(t) PROVE Control'
    <2>1. /\ OthersStay(t) /\ tabs[t].phase = "sent" /\ tabs'[t].phase = "refreshing"
          /\ tabs'[t].kind \in {"page", "api"} /\ tabs'[t].cookie = tabs[t].cookie
          /\ tabs'[t].set = tabs[t].set /\ mode = "passthrough"
          /\ tabs[t].cookie \in Cookies /\ tabs[t].cookie.session.user
          /\ UNCHANGED deployment
      BY <1>2, RefreshSays
    <2>. QED  BY <2>1, ControlByTab, Sentinels DEF Control
  <1>3. ASSUME NEW t \in Tabs, PersistRefreshed(t) PROVE Control'
    <2>1. Replies(t) /\ tabs[t].phase = "refreshing" /\ UNCHANGED deployment
      BY <1>3, PersistSays DEF Saves
    <2>. QED  BY <2>1, ControlByTab DEF Replies, Control
  <1>4. ASSUME NEW t \in Tabs, HandleLogin(t) PROVE Control'
    <2>1. PICK session : /\ Saves(t, session)
                         /\ tabs'[t].status = "redirect" => tabs'[t].set = Stored(session)
      BY <1>4, LoginSays
    <2>2. tabs[t].kind = "login" /\ UNCHANGED deployment
      BY <1>4, LoginSays
    <2>3. Stored(session) \in Cookies
      BY <2>1, StoredSays DEF Saves
    <2>. QED  BY <2>1, <2>2, <2>3, ControlByTab DEF Saves, Replies, Control
  <1>5. ASSUME NEW t \in Tabs, HandleCallback(t) PROVE Control'
    <2>1. Replies(t) /\ tabs[t].kind = "callback" /\ UNCHANGED deployment
      BY <1>5, CallbackSays DEF Saves
    <2>. QED  BY <2>1, ControlByTab DEF Replies, Control
  <1>6. ASSUME NEW t \in Tabs, Upload(t) PROVE Control'
    <2>1. Replies(t) /\ tabs[t].kind = "upload" /\ UNCHANGED deployment
      BY <1>6, UploadSays DEF Saves, Plain
    <2>. QED  BY <2>1, ControlByTab DEF Replies, Control
  <1>7. ASSUME NEW t \in Tabs, Follow(t) PROVE Control'
    <2>1. /\ OthersStay(t) /\ tabs[t].phase = "pending" /\ tabs'[t].phase = "sent"
          /\ tabs'[t].set = tabs[t].set /\ UNCHANGED deployment
      BY <1>7, FollowSays
    <2>. QED  BY <2>1, ControlByTab DEF Control
  <1>8. ASSUME NEW t \in Tabs, Deliver(t) PROVE Control'
    <2>1. /\ OthersStay(t) /\ tabs[t].phase = "answered" /\ tabs'[t].phase \in {"idle", "pending"}
          /\ tabs'[t].set = Unset /\ UNCHANGED deployment
      BY <1>8, DeliverSays
    <2>. QED  BY <2>1, ControlByTab DEF Control
  <1>9. ASSUME NEW t \in Tabs, Disconnect(t) PROVE Control'
    <2>1. /\ OthersStay(t) /\ tabs'[t].phase = "idle"
          /\ tabs'[t].set = Unset /\ UNCHANGED deployment
      BY <1>9, DisconnectSays
    <2>. QED  BY <2>1, ControlByTab DEF Control
  <1>10. ASSUME NEW t \in Tabs, NEW kind \in StartKinds, Start(t, kind) PROVE Control'
    <2>1. /\ OthersStay(t) /\ t \in deployment.tabs /\ tabs'[t].phase = "sent"
          /\ tabs'[t].set = Unset /\ UNCHANGED deployment
      BY <1>10, StartSays
    <2>. QED  BY <2>1, ControlByTab
  <1>11. ASSUME NEW n \in Tokens, TokenAges(n) PROVE Control'
    BY <1>0, <1>11 DEF TokenAges
  <1>12. ASSUME CookieExpires PROVE Control'
    BY <1>0, <1>12 DEF CookieExpires
  <1>13. ASSUME Revoke PROVE Control'
    BY <1>0, <1>13 DEF Revoke
  <1>14. ASSUME Restart PROVE Control'
    <2>1. /\ UNCHANGED deployment
          /\ \A t \in Tabs :
              IF t \in Busy THEN tabs'[t].phase = "idle" /\ tabs'[t].set = Unset
                            ELSE tabs'[t] = tabs[t]
      BY <1>14, RestartSays
    <2>. QED  BY <2>1 DEF Control, mode
  <1>. QED  BY <1>0, <1>1, <1>2, <1>3, <1>4, <1>5, <1>6, <1>7, <1>8, <1>9, <1>10, <1>11,
               <1>12, <1>13, <1>14, Steps DEF vars

-----------------------------------------------------------------------------
(* Of the copies of the cookie only those of one tab and the browser's     *)
(* change.                                                                 *)
LEMMA KeepsByTab ==
  ASSUME KeepsRefresh, Keeping, NEW t \in Tabs, OthersStay(t),
         live \cup revoked \subseteq live' \cup revoked',
         \A c \in {cookie', tabs'[t].cookie, tabs'[t].set} :
           \/ c \in {cookie, tabs[t].cookie, tabs[t].set, NoCookie, Unset}
           \/ c \in Cookies /\ c.session.user => c.session.refresh \in live' \cup revoked'
  PROVE  KeepsRefresh'
  <1>1. ASSUME NEW c \in {cookie', tabs'[t].cookie, tabs'[t].set}
        PROVE  c \in Cookies /\ c.session.user => c.session.refresh \in live' \cup revoked'
    BY Sentinels DEF KeepsRefresh, Refreshable
  <1>2. ASSUME NEW s \in Tabs, NEW c \in {tabs'[s].cookie, tabs'[s].set}
        PROVE  c \in Cookies /\ c.session.user => c.session.refresh \in live' \cup revoked'
    BY <1>1 DEF KeepsRefresh, Refreshable, OthersStay
  <1>. QED  BY <1>1, <1>2 DEF KeepsRefresh, Refreshable
LEMMA KeepsStep ==
  ASSUME TypeOK, Control, KeepsRefresh, [Next]_vars
  PROVE  KeepsRefresh'
  <1>. USE DEF serverVars, providerVars
  <1>0. ASSUME UNCHANGED <<cookie, tabs, deployment>>,
               live \cup revoked \subseteq live' \cup revoked'
        PROVE  KeepsRefresh'
    <2>1. Keeping' <=> Keeping
      BY <1>0 DEF Keeping, mode, Rotates, Faults
    <2>2. ASSUME NEW c, Refreshable(c) PROVE Refreshable(c)'
      BY <1>0, <2>2 DEF Refreshable
    <2>. QED  BY <1>0, <2>1, <2>2 DEF KeepsRefresh, Refreshable
  <1>00. ASSUME ~Keeping, UNCHANGED deployment PROVE KeepsRefresh'
    BY <1>00 DEF KeepsRefresh, Keeping, mode, Rotates, Faults
  <1>1. ASSUME NEW t \in Tabs, AnswersPlainly(t) PROVE KeepsRefresh'
    <2>1. Plain(t) /\ UNCHANGED <<cookie, deployment, live, revoked>>
      BY <1>1, PlainSays
    <2>. QED  BY <1>00, <2>1, KeepsByTab DEF Plain, Replies
  <1>2. ASSUME NEW t \in Tabs, CallRefresh(t) PROVE KeepsRefresh'
    <2>1. /\ OthersStay(t) /\ tabs'[t].cookie = tabs[t].cookie /\ tabs'[t].set = tabs[t].set
          /\ UNCHANGED <<cookie, deployment, revoked>>
          /\ ~Rotates => live \subseteq live'
      BY <1>2, RefreshSays
    <2>. QED  BY <1>00, <2>1, KeepsByTab DEF Keeping
  <1>3. ASSUME NEW t \in Tabs, PersistRefreshed(t) PROVE KeepsRefresh'
    <2>1. PICK session : Saves(t, session) /\ session.user /\ session.refresh = NewRefresh(t)
      BY <1>3, PersistSays
    <2>2. UNCHANGED <<cookie, deployment, live, revoked>> /\ tabs[t].phase = "refreshing"
      BY <1>3, PersistSays
    <2>3. Stored(session).session = session
      BY <2>1, StoredSays DEF Saves
    <2>4. tabs[t].cookie \in Cookies /\ tabs[t].cookie.session.user
      BY <2>2, Types, RequestFields DEF Control
    <2>5. ASSUME Keeping PROVE session.refresh \in live \cup revoked
      <3>1. session.refresh = SessionOf(t).refresh
        BY <2>1, <2>5 DEF Keeping, NewRefresh
      <3>2. SessionOf(t) = tabs[t].cookie.session
        BY <2>4, Sentinels DEF SessionOf
      <3>3. Refreshable(tabs[t].cookie)
        BY <2>5 DEF KeepsRefresh
      <3>. QED  BY <2>4, <3>1, <3>2, <3>3 DEF Refreshable
    <2>. QED  BY <1>00, <2>1, <2>2, <2>3, <2>5, KeepsByTab DEF Saves, Replies
  <1>4. ASSUME NEW t \in Tabs, HandleLogin(t) PROVE KeepsRefresh'
    <2>1. PICK session : /\ Saves(t, session) /\ session.user = SessionOf(t).user
                         /\ session.refresh = SessionOf(t).refresh
      BY <1>4, LoginSays
    <2>2. UNCHANGED <<cookie, deployment, live, revoked>>
      BY <1>4, LoginSays
    <2>3. Stored(session).session = session
      BY <2>1, StoredSays DEF Saves
    <2>4. ASSUME Keeping, session.user PROVE session.refresh \in live \cup revoked
      BY <2>1, <2>4, SessionTyped, BlankSays DEF KeepsRefresh, Refreshable
    <2>. QED  BY <1>00, <2>1, <2>2, <2>3, <2>4, KeepsByTab DEF Saves, Replies
  <1>5. ASSUME NEW t \in Tabs, HandleCallback(t) PROVE KeepsRefresh'
    <2>1. PICK session, refresh :
            /\ Saves(t, session) /\ session.refresh = refresh
            /\ refresh = minted + 1 \/ (refresh = 0 /\ "norefresh" \in Faults)
            /\ live' = live \cup ({refresh} \ {0})
      BY <1>5, CallbackSays
    <2>2. UNCHANGED <<cookie, deployment, revoked>> /\ minted + 1 \in Tokens
      BY <1>5, CallbackSays
    <2>3. Stored(session).session = session
      BY <2>1, StoredSays DEF Saves
    <2>4. minted + 1 # 0
      BY <2>2 DEF Tokens
    <2>5. ASSUME Keeping PROVE session.refresh \in live'
      BY <2>1, <2>4, <2>5 DEF Keeping
    <2>. QED  BY <1>00, <2>1, <2>2, <2>3, <2>5, KeepsByTab DEF Saves, Replies
  <1>6. ASSUME NEW t \in Tabs, Upload(t) PROVE KeepsRefresh'
    <2>1. mode # "passthrough" /\ UNCHANGED deployment
      BY <1>6, UploadSays
    <2>. QED  BY <1>00, <2>1 DEF Keeping
  <1>7. ASSUME NEW t \in Tabs, Follow(t) PROVE KeepsRefresh'
    BY <1>00, <1>7, FollowSays, KeepsByTab
  <1>8. ASSUME NEW t \in Tabs, Deliver(t) PROVE KeepsRefresh'
    <2>1. /\ OthersStay(t) /\ tabs'[t].set = Unset /\ tabs'[t].cookie = NoCookie
          /\ cookie' \in {cookie, tabs[t].set}
          /\ UNCHANGED <<deployment, live, revoked>>
      BY <1>8, DeliverSays
    <2>. QED  BY <1>00, <2>1, KeepsByTab
  <1>9. ASSUME NEW t \in Tabs, Disconnect(t) PROVE KeepsRefresh'
    BY <1>00, <1>9, DisconnectSays, KeepsByTab
  <1>10. ASSUME NEW t \in Tabs, NEW kind \in StartKinds, Start(t, kind) PROVE KeepsRefresh'
    BY <1>00, <1>10, StartSays, KeepsByTab
  <1>11. ASSUME NEW n \in Tokens, TokenAges(n) PROVE KeepsRefresh'
    BY <1>0, <1>11 DEF TokenAges
  <1>12. ASSUME CookieExpires PROVE KeepsRefresh'
    <2>1. cookie' = NoCookie /\ UNCHANGED <<tabs, deployment, live, revoked>>
      BY <1>12 DEF CookieExpires
    <2>. QED  BY <2>1, Sentinels DEF KeepsRefresh, Keeping, Refreshable, mode, Rotates, Faults
  <1>13. ASSUME Revoke PROVE KeepsRefresh'
    BY <1>0, <1>13 DEF Revoke
  <1>14. ASSUME Restart PROVE KeepsRefresh'
    <2>1. /\ UNCHANGED <<cookie, deployment, live, revoked>>
          /\ \A t \in Tabs :
               \/ tabs'[t].set = Unset /\ tabs'[t].cookie = NoCookie
               \/ tabs'[t] = tabs[t]
      BY <1>14, RestartSays
    <2>. QED  BY <2>1, Sentinels DEF KeepsRefresh, Keeping, Refreshable, mode, Rotates, Faults
  <1>. QED  BY <1>0, <1>1, <1>2, <1>3, <1>4, <1>5, <1>6, <1>7, <1>8, <1>9, <1>10, <1>11,
               <1>12, <1>13, <1>14, Steps DEF vars
-----------------------------------------------------------------------------
LEMMA CleanByTab ==
  ASSUME CleanSince, NEW t \in Tabs, OthersStay(t),
         ended'.out => ended.out, ended.early \ {t} \subseteq ended'.early,
         ended.out /\ ended'.out => Clean(cookie'),
         ended.out /\ ended'.out /\ tabs'[t].phase \in {"sent", "refreshing", "answered"}
           /\ t \notin ended'.early =>
             /\ Clean(tabs'[t].cookie)
             /\ tabs'[t].kind \notin {"callback", "upload"} => Clean(tabs'[t].set)
  PROVE  CleanSince'
  <1>1. ASSUME ended'.out, NEW s \in Tabs, s \notin ended'.early,
               tabs'[s].phase \in {"sent", "refreshing", "answered"}
        PROVE  /\ Clean(tabs'[s].cookie)
               /\ tabs'[s].kind \notin {"callback", "upload"} => Clean(tabs'[s].set)
    BY <1>1 DEF CleanSince, OthersStay, Busy
  <1>. QED  BY <1>1 DEF CleanSince, Busy, Clean

(* A request that is clean says nothing in its reply, but for a sign-in.   *)
LEMMA CleanStep ==
  ASSUME TypeOK, Control, CleanSince, [Next]_vars
  PROVE  CleanSince'
  <1>. USE DEF serverVars, providerVars
  <1>1. ASSUME NEW t \in Tabs, t \in Busy, t \notin ended.early, ended.out
        PROVE  /\ Clean(tabs[t].cookie) /\ Clean(cookie)
               /\ tabs[t].kind \notin {"callback", "upload"} => Clean(tabs[t].set)
    BY <1>1 DEF CleanSince
  <1>2. Clean(NoCookie) /\ Clean(Unset)
    BY Sentinels DEF Clean
  <1>3. ended.out => Clean(cookie)
    BY DEF CleanSince
  <1>4. ASSUME UNCHANGED <<cookie, tabs, ended>> PROVE CleanSince'
    BY <1>4 DEF CleanSince, Busy, Clean
  <1>5. ASSUME NEW t \in Tabs, AnswersPlainly(t) PROVE CleanSince'
    <2>1. /\ Replies(t) /\ tabs'[t].set \in {Unset, NoCookie} /\ UNCHANGED <<cookie, ended>>
      BY <1>5, PlainSays DEF Plain
    <2>. QED  BY <1>1, <1>2, <1>3, <2>1, CleanByTab DEF Replies, Busy
  <1>6. ASSUME NEW t \in Tabs, CallRefresh(t) PROVE CleanSince'
    <2>1. /\ OthersStay(t) /\ tabs[t].phase = "sent"
          /\ tabs[t].cookie \in Cookies /\ tabs[t].cookie.session.user
          /\ UNCHANGED <<cookie, ended>>
      BY <1>6, RefreshSays
    <2>2. ended.out => t \in ended.early
      BY <1>1, <2>1 DEF Busy, Clean
    <2>. QED  BY <1>3, <2>1, <2>2, CleanByTab
  <1>7. ASSUME NEW t \in Tabs, PersistRefreshed(t) PROVE CleanSince'
    <2>1. /\ OthersStay(t) /\ tabs[t].phase = "refreshing" /\ UNCHANGED <<cookie, ended>>
      BY <1>7, PersistSays DEF Saves, Replies
    <2>2. tabs[t].cookie \in Cookies /\ tabs[t].cookie.session.user
      BY <2>1, Types, RequestFields DEF Control
    <2>3. ended.out => t \in ended.early
      BY <1>1, <2>1, <2>2 DEF Busy, Clean
    <2>. QED  BY <1>3, <2>1, <2>3, CleanByTab
  <1>8. ASSUME NEW t \in Tabs, HandleLogin(t) PROVE CleanSince'
    <2>1. PICK session : /\ Saves(t, session) /\ session.user = SessionOf(t).user
                         /\ session.credential = SessionOf(t).credential
      BY <1>8, LoginSays
    <2>2. Replies(t) /\ tabs'[t].set \in {Unset, Stored(session)} /\ UNCHANGED <<cookie, ended>>
      BY <1>8, <2>1, LoginSays DEF Saves
    <2>3. Clean(tabs[t].cookie) => Clean(Stored(session))
      <3>1. Stored(session).session = session
        BY <2>1, StoredSays DEF Saves
      <3>2. Clean(tabs[t].cookie) => ~SessionOf(t).user /\ SessionOf(t).credential = 0
        BY SessionTyped, BlankSays DEF Clean
      <3>. QED  BY <2>1, <3>1, <3>2 DEF Clean
    <2>. QED  BY <1>1, <1>2, <1>3, <2>2, <2>3, CleanByTab DEF Replies, Busy
  <1>9. ASSUME NEW t \in Tabs, HandleCallback(t) PROVE CleanSince'
    <2>1. Replies(t) /\ tabs[t].kind = "callback" /\ UNCHANGED <<cookie, ended>>
      BY <1>9, CallbackSays DEF Saves
    <2>. QED  BY <1>1, <1>3, <2>1, CleanByTab DEF Replies, Busy
  <1>10. ASSUME NEW t \in Tabs, Upload(t) PROVE CleanSince'
    <2>1. Replies(t) /\ tabs[t].kind = "upload" /\ UNCHANGED <<cookie, ended>>
      BY <1>10, UploadSays DEF Saves, Plain
    <2>. QED  BY <1>1, <1>3, <2>1, CleanByTab DEF Replies, Busy
  <1>11. ASSUME NEW t \in Tabs, Follow(t) PROVE CleanSince'
    <2>1. /\ OthersStay(t) /\ tabs'[t].cookie = cookie /\ UNCHANGED <<cookie, ended>>
          /\ tabs'[t].set = tabs[t].set /\ tabs[t].phase = "pending"
      BY <1>11, FollowSays
    <2>2. tabs'[t].set = Unset
      BY <2>1 DEF Control
    <2>. QED  BY <1>2, <1>3, <2>1, <2>2, CleanByTab
  <1>12. ASSUME NEW t \in Tabs, NEW kind \in StartKinds, Start(t, kind) PROVE CleanSince'
    <2>1. /\ OthersStay(t) /\ tabs'[t].cookie = cookie /\ UNCHANGED <<cookie, ended>>
          /\ tabs'[t].set = Unset
      BY <1>12, StartSays
    <2>. QED  BY <1>2, <1>3, <2>1, CleanByTab
  <1>13. ASSUME NEW t \in Tabs, Deliver(t) PROVE CleanSince'
    <2>1. /\ OthersStay(t) /\ tabs[t].phase = "answered" /\ tabs'[t].phase \in {"idle", "pending"}
          /\ cookie' = IF tabs[t].set = Unset THEN cookie ELSE tabs[t].set
      BY <1>13, DeliverSays
    <2>2. CASE tabs[t].kind = "logout" /\ tabs[t].set # Unset
      <3>1. ended' = [out |-> TRUE, early |-> Busy \ {t}]
        BY <1>13, <2>2 DEF Deliver
      <3>2. tabs[t].set = NoCookie
        BY <2>1, <2>2 DEF Control
      <3>3. Busy' \ ended'.early = {}
        BY <2>1, <3>1 DEF OthersStay, Busy
      <3>. QED  BY <1>2, <2>1, <2>2, <3>2, <3>3 DEF CleanSince, Clean
    <2>3. CASE tabs[t].kind \in {"callback", "upload"}
      <3>1. ended' = [out |-> FALSE, early |-> {}]
        BY <1>13, <2>3 DEF Deliver
      <3>. QED  BY <3>1 DEF CleanSince
    <2>4. CASE ~(tabs[t].kind = "logout" /\ tabs[t].set # Unset)
               /\ tabs[t].kind \notin {"callback", "upload"}
      <3>1. ended' = [ended EXCEPT !.out = @ /\ ~(t \in ended.early /\ tabs[t].set # Unset),
                                   !.early = @ \ {t}]
        BY <1>13, <2>4 DEF Deliver
      <3>2. /\ ended'.out <=> ended.out /\ ~(t \in ended.early /\ tabs[t].set # Unset)
            /\ ended'.early = ended.early \ {t}
        BY <3>1 DEF TypeOK
      <3>3. ended.out /\ ended'.out => Clean(cookie')
        BY <1>1, <1>3, <2>1, <2>4, <3>2 DEF Busy
      <3>. QED  BY <2>1, <3>2, <3>3, CleanByTab
    <2>. QED  BY <2>2, <2>3, <2>4
  <1>14. ASSUME NEW t \in Tabs, Disconnect(t) PROVE CleanSince'
    <2>1. /\ OthersStay(t) /\ tabs'[t].phase = "idle" /\ UNCHANGED cookie
          /\ ended' = [ended EXCEPT !.early = @ \ {t}]
      BY <1>14, DisconnectSays
    <2>2. ended'.out = ended.out /\ ended'.early = ended.early \ {t}
      BY <2>1 DEF TypeOK
    <2>. QED  BY <1>3, <2>1, <2>2, CleanByTab
  <1>15. ASSUME NEW n \in Tokens, TokenAges(n) PROVE CleanSince'
    BY <1>4, <1>15 DEF TokenAges
  <1>16. ASSUME CookieExpires PROVE CleanSince'
    <2>1. cookie' = NoCookie /\ UNCHANGED <<tabs, ended>>
      BY <1>16 DEF CookieExpires
    <2>. QED  BY <1>2, <2>1 DEF CleanSince, Busy, Clean
  <1>17. ASSUME Revoke PROVE CleanSince'
    BY <1>4, <1>17 DEF Revoke
  <1>18. ASSUME Restart PROVE CleanSince'
    <2>1. /\ UNCHANGED cookie /\ ended' = [ended EXCEPT !.early = {}]
          /\ \A t \in Tabs : IF t \in Busy THEN tabs'[t].phase = "idle" ELSE tabs'[t] = tabs[t]
      BY <1>18, RestartSays
    <2>2. Busy' = {} /\ ended'.out = ended.out
      BY <2>1 DEF Busy, TypeOK
    <2>. QED  BY <1>3, <2>1, <2>2 DEF CleanSince, Clean
  <1>. QED  BY <1>4, <1>5, <1>6, <1>7, <1>8, <1>9, <1>10, <1>11, <1>12, <1>13, <1>14, <1>15,
               <1>16, <1>17, <1>18, Steps DEF vars
-----------------------------------------------------------------------------
LEMMA OnlyTab ==
  ASSUME TypeOK, Orderly, NEW s \in deployment.tabs, NEW t \in deployment.tabs
  PROVE  s = t
  <1>1. IsFiniteSet(deployment.tabs)
    BY Types, AuthSessionAssumption, FS_Subset
  <1>2. \E u : deployment.tabs = {u}
    BY <1>1, FS_Singleton DEF Orderly
  <1>. QED  BY <1>2

LEMMA ChainByTab ==
  ASSUME TypeOK, UNCHANGED deployment, NEW t \in Tabs, t \in deployment.tabs,
         Orderly => Linked(t)'
  PROVE  Chain'
  <1>1. Orderly' <=> Orderly
    BY DEF Orderly, Faults
  <1>. QED  BY <1>1, OnlyTab DEF Chain

(* The chain of refresh tokens: each step hands on the one that is good.   *)
LEMMA ChainStep ==
  ASSUME TypeOK, Control, Chain, [Next]_vars
  PROVE  Chain'
  <1>. DEFINE now == live \cup revoked
              then == live' \cup revoked'
  <1>. USE DEF serverVars, providerVars
  <1>1. ASSUME NEW t \in Tabs, Orderly, tabs[t].phase # "idle"
        PROVE  t \in deployment.tabs /\ Linked(t)
    BY <1>1 DEF Control, Chain
  <1>2. \A good : Chained(NoCookie, good) /\ Chained(Unset, good)
    BY Sentinels DEF Chained
  <1>3. ASSUME NEW c, Chained(c, now), now \subseteq then
        PROVE  Chained(c, then)
    BY <1>3 DEF Chained
  <1>4. Orderly => /\ "save" \notin Faults /\ "reply" \notin Faults /\ "refresh" \notin Faults
                   /\ "restart" \notin Faults /\ "expiry" \notin Faults
    BY DEF Orderly
  <1>5. ASSUME UNCHANGED <<cookie, tabs, deployment>>,
               now \subseteq then, revoked \subseteq revoked'
        PROVE  Chain'
    <2>1. (Orderly' <=> Orderly) /\ Busy' = Busy
      BY <1>5 DEF Orderly, Faults, Busy
    <2>2. ASSUME NEW t \in deployment.tabs, Linked(t) PROVE Linked(t)'
      <3>1. /\ Superseded(t)' <=> Superseded(t)
            /\ NewRefresh(t)' = NewRefresh(t)
        BY <1>5 DEF Superseded, NewRefresh, SessionOf, Rotates
      <3>2. ~Superseded(t) => Chained(cookie', then)
        BY <1>3, <1>5, <2>2 DEF Linked
      <3>3. Chained(tabs'[t].set, then)
        BY <1>3, <1>5, <2>2 DEF Linked
      <3>. QED  BY <1>5, <2>1, <2>2, <3>1, <3>2, <3>3 DEF Linked
    <2>. QED  BY <1>5, <2>1, <2>2 DEF Chain
  <1>6. ASSUME NEW t \in Tabs, AnswersPlainly(t) PROVE Chain'
    <2>1. /\ Replies(t) /\ tabs'[t].set \in {Unset, NoCookie}
          /\ UNCHANGED <<cookie, deployment, live, revoked>>
          /\ tabs[t].phase = "refreshing" => tabs[t].result = 0
      BY <1>6, PlainSays DEF Plain
    <2>2. ASSUME Orderly PROVE Linked(t)'
      <3>1. tabs[t].cookie = cookie /\ Chained(cookie, now)
        BY <1>1, <2>1, <2>2 DEF Linked, Superseded, Replies, Busy
      <3>2. Chained(cookie', then) /\ Chained(NoCookie, then) /\ Chained(Unset, then)
        BY <1>2, <1>3, <2>1, <3>1
      <3>. QED  BY <2>1, <3>1, <3>2 DEF Linked, Replies, Chained
    <2>. QED  BY <1>1, <2>1, <2>2, ChainByTab DEF Chain, Orderly, Faults, Replies, Control
  <1>7. ASSUME NEW t \in Tabs, CallRefresh(t) PROVE Chain'
    <2>1. /\ OthersStay(t) /\ tabs[t].phase = "sent" /\ tabs'[t].phase = "refreshing"
          /\ tabs'[t].cookie = tabs[t].cookie /\ tabs'[t].set = Unset
          /\ UNCHANGED <<cookie, deployment, revoked>>
          /\ tabs[t].cookie \in Cookies /\ SessionOf(t) = tabs[t].cookie.session
          /\ SessionOf(t).refresh # 0 /\ t \in deployment.tabs
      BY <1>7, RefreshSays DEF Control
    <2>2. ASSUME Orderly PROVE Linked(t)'
      <3>1. tabs[t].cookie = cookie /\ Chained(cookie, now)
        BY <1>1, <2>1, <2>2 DEF Linked, Superseded, Busy
      <3>2. SessionOf(t).refresh \in now
        BY <2>1, <3>1 DEF Chained
      <3>3. SessionOf(t)' = SessionOf(t) /\ Rotates' = Rotates
        BY <2>1 DEF SessionOf, Rotates
      <3>4. Chained(Unset, then)
        BY Sentinels DEF Chained
      <3>5. CASE tabs'[t].result = 0
        <4>1. SessionOf(t).refresh \notin live /\ UNCHANGED live
          BY <1>4, <1>7, <2>2, <3>5, RefreshSays DEF Tokens
        <4>2. Chained(cookie', then)
          BY <1>3, <2>1, <3>1, <4>1
        <4>. QED  BY <2>1, <3>1, <3>2, <3>4, <3>5, <4>1, <4>2 DEF Linked
      <3>6. CASE tabs'[t].result # 0
        <4>1. /\ tabs'[t].result = minted + 1
              /\ live' = IF Rotates THEN (live \ {SessionOf(t).refresh}) \cup {minted + 1} ELSE live
          BY <1>7, <3>6, RefreshSays
        <4>2. NewRefresh(t)' \in then
          BY <2>1, <3>2, <3>3, <4>1 DEF NewRefresh
        <4>. QED  BY <2>1, <3>1, <3>4, <3>6, <4>2 DEF Linked, Superseded
      <3>. QED  BY <3>5, <3>6
    <2>. QED  BY <2>1, <2>2, ChainByTab
  <1>8. ASSUME NEW t \in Tabs, PersistRefreshed(t) PROVE Chain'
    <2>1. PICK session : /\ Saves(t, session) /\ session.refresh = NewRefresh(t)
                         /\ "save" \notin Faults => tabs'[t].set = Stored(session)
      BY <1>8, PersistSays
    <2>2. /\ tabs[t].phase = "refreshing" /\ tabs[t].result \in Tokens
          /\ UNCHANGED <<cookie, deployment, live, revoked>> /\ t \in deployment.tabs
      BY <1>8, PersistSays DEF Control
    <2>3. Stored(session).session = session /\ Stored(session) # Unset
      BY <2>1, StoredSays DEF Saves
    <2>4. ASSUME Orderly PROVE Linked(t)'
      <3>1. tabs[t].cookie = cookie /\ NewRefresh(t) \in {0} \cup now
        BY <1>1, <2>2, <2>4 DEF Linked, Busy, Tokens
      <3>2. tabs'[t].set = Stored(session)
        BY <1>4, <2>1, <2>4
      <3>3. Chained(tabs'[t].set, then)
        BY <2>1, <2>2, <2>3, <3>1, <3>2 DEF Chained
      <3>. QED  BY <2>1, <2>2, <2>3, <3>1, <3>2, <3>3 DEF Linked, Superseded, Saves, Replies, Chained
    <2>. QED  BY <2>2, <2>4, ChainByTab
  <1>9. ASSUME NEW t \in Tabs, NEW session, Saves(t, session), tabs[t].phase = "sent",
               UNCHANGED <<cookie, deployment, revoked>>, live \subseteq live',
               Orderly => session.refresh \in {0} \cup then
        PROVE  Chain'
    <2>1. Stored(session).session = session
      BY <1>9, StoredSays DEF Saves
    <2>2. ASSUME Orderly PROVE Linked(t)'
      <3>1. tabs[t].cookie = cookie /\ Chained(cookie, now)
        BY <1>1, <1>9, <2>2 DEF Linked, Superseded, Busy
      <3>2. Chained(cookie', then) /\ Chained(Unset, then)
        BY <1>2, <1>3, <1>9, <3>1
      <3>3. Chained(Stored(session), then)
        BY <1>9, <2>1, <2>2 DEF Chained
      <3>. QED  BY <1>9, <3>1, <3>2, <3>3 DEF Linked, Saves, Replies, Chained
    <2>. QED  BY <1>9, <2>2, ChainByTab DEF Control
  <1>10. ASSUME NEW t \in Tabs, HandleLogin(t) PROVE Chain'
    <2>1. PICK session : Saves(t, session) /\ session.refresh = SessionOf(t).refresh
      BY <1>10, LoginSays
    <2>2. tabs[t].phase = "sent" /\ UNCHANGED <<cookie, deployment, live, revoked>>
      BY <1>10, LoginSays
    <2>3. ASSUME Orderly PROVE session.refresh \in {0} \cup now
      <3>1. tabs[t].cookie = cookie /\ Chained(cookie, now)
        BY <1>1, <2>2, <2>3 DEF Linked, Superseded, Busy
      <3>. QED  BY <2>1, <3>1, SessionTyped, BlankSays DEF Chained
    <2>. QED  BY <1>9, <2>1, <2>2, <2>3
  <1>11. ASSUME NEW t \in Tabs, HandleCallback(t) PROVE Chain'
    <2>1. PICK session, refresh :
            /\ Saves(t, session) /\ session.refresh = refresh
            /\ live' = live \cup ({refresh} \ {0})
      BY <1>11, CallbackSays
    <2>2. tabs[t].phase = "sent" /\ UNCHANGED <<cookie, deployment, revoked>>
      BY <1>11, CallbackSays
    <2>3. live \subseteq live' /\ session.refresh \in {0} \cup then
      BY <2>1
    <2>. QED  BY <1>9, <2>1, <2>2, <2>3
  <1>12. ASSUME NEW t \in Tabs, Upload(t) PROVE Chain'
    <2>1. tabs[t].phase = "sent" /\ UNCHANGED <<cookie, deployment, live, revoked>>
      BY <1>12, UploadSays
    <2>2. CASE \E session : Saves(t, session) /\ session.refresh = 0
      BY <1>9, <2>1, <2>2
    <2>3. CASE Plain(t)
      <3>1. Replies(t) /\ tabs'[t].set \in {Unset, NoCookie} /\ t \in deployment.tabs
        BY <2>1, <2>3 DEF Plain, Control
      <3>2. ASSUME Orderly PROVE Linked(t)'
        <4>1. tabs[t].cookie = cookie /\ Chained(cookie, now)
          BY <1>1, <2>1, <3>2 DEF Linked, Superseded, Busy
        <4>2. Chained(cookie', then) /\ Chained(NoCookie, then) /\ Chained(Unset, then)
          BY <1>2, <1>3, <2>1, <4>1
        <4>. QED  BY <2>1, <3>1, <4>1, <4>2 DEF Linked, Replies, Chained
      <3>. QED  BY <2>1, <3>1, <3>2, ChainByTab
    <2>. QED  BY <1>12, <2>2, <2>3, UploadSays
  <1>13. ASSUME NEW t \in Tabs, OthersStay(t), t \in deployment.tabs,
                UNCHANGED <<deployment, live, revoked>>,
                tabs'[t].phase \in {"idle", "pending", "sent"}, tabs'[t].set = Unset,
                tabs'[t].phase = "sent" => tabs'[t].cookie = cookie',
                Orderly => Chained(cookie', now)
         PROVE  Chain'
    <2>1. ASSUME Orderly PROVE Linked(t)'
      <3>1. Chained(cookie', then) /\ Chained(Unset, then)
        BY <1>13, <2>1, Sentinels DEF Chained
      <3>. QED  BY <1>13, <3>1 DEF Linked, Busy, Chained
    <2>. QED  BY <1>13, <2>1, ChainByTab
  <1>14. ASSUME NEW t \in Tabs, Follow(t) PROVE Chain'
    <2>1. /\ OthersStay(t) /\ tabs[t].phase = "pending" /\ tabs'[t].phase = "sent"
          /\ tabs'[t].cookie = cookie /\ tabs'[t].set = Unset
          /\ UNCHANGED <<cookie, deployment, live, revoked>> /\ t \in deployment.tabs
      BY <1>14, FollowSays DEF Control
    <2>2. Orderly => Chained(cookie, now)
      BY <1>1, <2>1 DEF Linked, Superseded
    <2>. QED  BY <1>13, <2>1, <2>2
  <1>15. ASSUME NEW t \in Tabs, NEW kind \in StartKinds, Start(t, kind) PROVE Chain'
    <2>1. /\ OthersStay(t) /\ tabs[t].phase = "idle" /\ tabs'[t].phase = "sent"
          /\ tabs'[t].cookie = cookie /\ tabs'[t].set = Unset
          /\ UNCHANGED <<cookie, deployment, live, revoked>> /\ t \in deployment.tabs
      BY <1>15, StartSays
    <2>2. Orderly => Chained(cookie, now)
      BY <2>1 DEF Chain, Linked, Superseded
    <2>. QED  BY <1>13, <2>1, <2>2
  <1>16. ASSUME NEW t \in Tabs, Deliver(t) PROVE Chain'
    <2>1. /\ OthersStay(t) /\ tabs[t].phase = "answered" /\ tabs'[t].phase \in {"idle", "pending"}
          /\ tabs'[t].set = Unset
          /\ cookie' = IF tabs[t].set = Unset THEN cookie ELSE tabs[t].set
          /\ UNCHANGED <<deployment, live, revoked>> /\ t \in deployment.tabs
      BY <1>16, DeliverSays DEF Control
    <2>2. Orderly => Chained(cookie', now)
      BY <1>1, <2>1 DEF Linked, Superseded
    <2>. QED  BY <1>13, <2>1, <2>2
  <1>17. ASSUME NEW t \in Tabs, Disconnect(t) PROVE Chain'
    <2>1. ~Orderly /\ UNCHANGED deployment
      BY <1>4, <1>17, DisconnectSays
    <2>. QED  BY <2>1 DEF Chain, Orderly, Faults
  <1>18. ASSUME NEW n \in Tokens, TokenAges(n) PROVE Chain'
    BY <1>5, <1>18 DEF TokenAges
  <1>19. ASSUME CookieExpires PROVE Chain'
    <2>1. ~Orderly /\ UNCHANGED deployment
      BY <1>4, <1>19 DEF CookieExpires
    <2>. QED  BY <2>1 DEF Chain, Orderly, Faults
  <1>20. ASSUME Revoke PROVE Chain'
    BY <1>5, <1>20 DEF Revoke
  <1>21. ASSUME Restart PROVE Chain'
    <2>1. ~Orderly /\ UNCHANGED deployment
      BY <1>4, <1>21, RestartSays
    <2>. QED  BY <2>1 DEF Chain, Orderly, Faults
  <1>. QED  BY <1>5, <1>6, <1>7, <1>8, <1>10, <1>11, <1>12, <1>14, <1>15, <1>16, <1>17,
               <1>18, <1>19, <1>20, <1>21, Steps DEF vars
-----------------------------------------------------------------------------
LEMMA InitHolds ==
  ASSUME Init
  PROVE  SessionInv
  <1>1. 0 \in 0 .. MaxLogins /\ 0 \in 0 .. MaxRestarts /\ 0 \in 0 .. MaxTokens
    BY AuthSessionAssumption
  <1>2. TypeOK
    BY <1>1, BlankSays DEF Init, TypeOK
  <1>3. Control
    BY BlankSays DEF Init, Control
  <1>4. KeepsRefresh
    BY BlankSays, Sentinels DEF Init, KeepsRefresh, Refreshable
  <1>5. CleanSince
    BY DEF Init, CleanSince
  <1>6. Chain
    <2>1. deployment.tabs \subseteq Tabs
      BY <1>2, Types
    <2>2. ASSUME NEW t \in Tabs PROVE Linked(t)
      BY BlankSays, Sentinels DEF Init, Linked, Busy, Chained
    <2>. QED  BY <2>1, <2>2 DEF Chain
  <1>. QED  BY <1>2, <1>3, <1>4, <1>5, <1>6 DEF SessionInv

(* The inductive invariant of the session, its tabs and the provider.      *)
THEOREM SessionInvariant == Spec => []SessionInv
  <1>1. Init => SessionInv
    BY InitHolds
  <1>2. SessionInv /\ [Next]_vars => SessionInv'
    BY TypeStep, ControlStep, KeepsStep, CleanStep, ChainStep DEF SessionInv
  <1>. QED  BY <1>1, <1>2, PTL DEF Spec

(* Every variable of the session keeps its type (TypeOK), for any number   *)
(* of tabs, tokens, sign-ins and restarts.                                 *)
THEOREM SessionsTyped == Spec => []TypeOK
  BY SessionInvariant, PTL DEF SessionInv

(* A provider that does not rotate leaves every session refreshable until  *)
(* it revokes it (refreshAndUpdate, persistRefreshed).                     *)
THEOREM SessionsStayRefreshable == Spec => []StaysRefreshable
  <1>1. SessionInv => StaysRefreshable
    BY Types DEF SessionInv, StaysRefreshable, KeepsRefresh, Keeping, Refreshable
  <1>. QED  BY <1>1, SessionInvariant, PTL

(* After a sign-out no identity comes back without a sign-in, but by the   *)
(* reply to a request that was under way (HandleLogout, Clear).            *)
THEOREM SignOutIsFinal == Spec => []SignedOutStays
  <1>1. SessionInv => SignedOutStays
    BY Types DEF SessionInv, SignedOutStays, CleanSince, Clean
  <1>. QED  BY <1>1, SessionInvariant, PTL

(* With one request at a time a refresh fails only if the provider has     *)
(* revoked the token (refreshAndUpdate).                                   *)
THEOREM ChainHolds == Spec => []ChainUnbroken
  <1>1. ASSUME SessionInv, Orderly, NEW t \in Tabs, tabs[t].phase = "refreshing",
               tabs[t].result = 0
        PROVE  SessionOf(t).refresh \in revoked
    <2>1. t \in deployment.tabs /\ tabs[t].cookie # NoCookie
      BY <1>1 DEF SessionInv, Control
    <2>2. tabs[t].cookie.session.refresh \in revoked
      BY <1>1, <2>1 DEF SessionInv, Chain, Linked
    <2>. QED  BY <2>1, <2>2 DEF SessionOf
  <1>2. SessionInv => ChainUnbroken
    BY <1>1 DEF ChainUnbroken, FailsOnlyIfRevoked
  <1>. QED  BY <1>2, SessionInvariant, PTL

(* A request that is handed on has a usable token: the one that was found  *)
(* fresh, or the one the refresh brought (RequireAuth).                    *)
THEOREM HandsOnUsableTokens == Spec => ServesUsableToken
  <1>. DEFINE UsableStep == \A t \in Tabs :
                mode = "passthrough" /\ tabs[t].status = "none" /\ tabs'[t].status = "served"
                  => tabs'[t].token \in fresh \cup ({tabs[t].result} \ {0})
  <1>0. ASSUME UNCHANGED tabs PROVE UsableStep
    BY <1>0
  <1>1. ASSUME NEW t \in Tabs, OthersStay(t), Usable(t) PROVE UsableStep
    BY <1>1 DEF OthersStay, Usable
  <1>2. ASSUME NEW t \in Tabs, OthersStay(t),
               tabs'[t].status = tabs[t].status \/ tabs'[t].status # "served"
        PROVE  UsableStep
    BY <1>2 DEF OthersStay
  <1>3. ASSUME TypeOK, Control, [Next]_vars PROVE UsableStep
    <2>1. ASSUME NEW t \in Tabs,
                 \/ AnswersPlainly(t) \/ PersistRefreshed(t) \/ HandleLogin(t)
                 \/ HandleCallback(t) \/ Upload(t)
          PROVE  UsableStep
      <3>1. OthersStay(t) /\ Usable(t)
        <4>1. CASE AnswersPlainly(t)
          BY <1>3, <4>1, PlainSays DEF Plain, Replies
        <4>2. CASE PersistRefreshed(t)
          BY <1>3, <4>2, PersistSays DEF Saves, Replies
        <4>3. CASE HandleLogin(t)
          BY <1>3, <4>3, LoginSays DEF Saves, Replies
        <4>4. CASE HandleCallback(t)
          BY <1>3, <4>4, CallbackSays DEF Saves, Replies
        <4>5. CASE Upload(t)
          BY <1>3, <4>5, UploadSays DEF Saves, Plain, Replies
        <4>. QED  BY <2>1, <4>1, <4>2, <4>3, <4>4, <4>5
      <3>. QED  BY <1>1, <3>1
    <2>2. ASSUME NEW t \in Tabs, CallRefresh(t) PROVE UsableStep
      BY <1>2, <1>3, <2>2, RefreshSays
    <2>3. ASSUME NEW t \in Tabs, Follow(t) PROVE UsableStep
      BY <1>2, <1>3, <2>3, FollowSays
    <2>4. ASSUME NEW t \in Tabs, Deliver(t) PROVE UsableStep
      BY <1>2, <1>3, <2>4, DeliverSays
    <2>5. ASSUME NEW t \in Tabs, Disconnect(t) PROVE UsableStep
      BY <1>2, <1>3, <2>5, DisconnectSays
    <2>6. ASSUME NEW t \in Tabs, NEW kind \in StartKinds, Start(t, kind) PROVE UsableStep
      BY <1>2, <1>3, <2>6, StartSays
    <2>7. ASSUME Restart PROVE UsableStep
      <3>1. \A t \in Tabs : tabs'[t].status = "none" \/ tabs'[t] = tabs[t]
        BY <1>3, <2>7, RestartSays
      <3>. QED  BY <3>1
    <2>8. ASSUME \/ UNCHANGED vars \/ CookieExpires \/ Revoke
                 \/ \E n \in Tokens : TokenAges(n)
          PROVE  UsableStep
      BY <1>0, <2>8 DEF vars, CookieExpires, Revoke, TokenAges
    <2>. QED  BY <1>3, <2>1, <2>2, <2>3, <2>4, <2>5, <2>6, <2>7, <2>8, Steps
  <1>4. SessionInv /\ [Next]_vars => [UsableStep]_vars
    BY <1>3 DEF SessionInv
  <1>. QED  BY <1>4, SessionInvariant, PTL DEF Spec, ServesUsableToken
=============================================================================
