------------------------------ MODULE AppAccess ------------------------------
(***************************************************************************)
(* What else is done with an application: looking at it and at the secrets *)
(* it is reached with, and starting or stopping it.  The detail page       *)
(* (AppDetailPage, internal/handler/page.go), the reveal of one secret     *)
(* (SecretRevealFragment, fragment.go), the action buttons (actions.go,    *)
(* internal/actions) and the JSON API's Get; all go through                *)
(* ApplicationService.Get.  A request is a chain of calls to the API       *)
(* server, and the cluster changes between any two of them.                *)
(***************************************************************************)
EXTENDS Lists, Naturals, Sequences, SequencesExt, FiniteSets

CONSTANTS AppNames, AppKinds,
          KindOrder,      \* the kinds, as the releases of one name are listed
          Secrets,        \* the tenant's secrets
          Values,         \* what a secret can hold
          KeysOf,         \* the keys of each secret
          SecretTemplates,\* <<kind, name>> -> the secrets its definition names, in order
          Prefixed,       \* <<kind, name>> -> the secrets of its prefix, as listed
          NotCredentials, \* those named after a release or for certificates
          Concealed,      \* isConnectionSecret: the keys the page shows as dots
          ActionIDs,
          Registered,     \* kind -> its actions, in order
          TargetName,     \* <<kind, name>> -> the one its release makes
          MaxChanges,     \* bound on what changes in the cluster during a request
          NoData

ASSUME AppAccessAssumption ==
  /\ KindOrder \in Seq(AppKinds) /\ IsInjective(KindOrder) /\ ToSet(KindOrder) = AppKinds
  /\ NoData \notin Values /\ IsFiniteSet(Secrets)
  /\ \A k \in AppKinds : Registered[k] \in Seq(ActionIDs) /\ IsInjective(Registered[k])
  /\ \A app \in AppKinds \X AppNames :
       /\ SecretTemplates[app] \in Seq(Secrets) /\ Prefixed[app] \in Seq(Secrets)
       /\ TargetName[app] # ""

VARIABLES
  deployed,  \* the <<kind, name>> that have a release
  holds,     \* what each secret holds, or NoData
  grants,    \* the actions the user's roles permit
  visit,     \* the request under way, see NoVisit
  seen       \* history: what was held and granted since the request began, and
             \* how many changes there were

accessVars == <<deployed, holds, grants, visit, seen>>

Fields == UNION {KeysOf[s] : s \in Secrets}
Asked == {"overview", "connection", "reveal", "json", "action"}

(* phase: the next call.  what, name, arg: the request, and the field or   *)
(* action it names.  kind: of the release found.  queue: secrets or actions*)
(* still to be looked at.  info: what was read, field -> <<secret, value>>.*)
(* fellBack: the secrets are those with the prefix.  out: the values in the*)
(* answer.  buttons: the actions offered.  audit: the entries.  History:   *)
(* did, the machine the API server has acted on; unheard, its answer was   *)
(* lost; flaky, the probes that failed.                                    *)
Nothing == [f \in {} |-> NoData]
NoVisit == [phase |-> "none", what |-> "", name |-> "", arg |-> "", kind |-> "", queue |-> <<>>,
            info |-> Nothing, fellBack |-> FALSE, out |-> Nothing, buttons |-> {},
            audit |-> <<>>, did |-> "", unheard |-> FALSE, flaky |-> {}]

Held == {<<s, holds[s]>> : s \in {x \in Secrets : holds[x] # NoData}}

Unseen == [held |-> {}, ever |-> {}, always |-> {}, changes |-> 0]

AccessInit ==
  /\ deployed \in SUBSET (AppKinds \X AppNames)
  /\ holds \in [Secrets -> Values \cup {NoData}]
  /\ grants \in SUBSET ActionIDs
  /\ visit = NoVisit
  /\ seen = Unseen

(* The cluster: releases come and go, secrets rotate, roles are changed.   *)
ClusterChanges ==
  /\ \/ \E app \in AppKinds \X AppNames :
          /\ deployed' = IF app \in deployed THEN deployed \ {app} ELSE deployed \cup {app}
          /\ UNCHANGED <<holds, grants>>
     \/ \E s \in Secrets, v \in Values \cup {NoData} :
          holds' = [holds EXCEPT ![s] = v] /\ UNCHANGED <<deployed, grants>>
     \/ \E a \in ActionIDs :
          /\ grants' = IF a \in grants THEN grants \ {a} ELSE grants \cup {a}
          /\ UNCHANGED <<deployed, holds>>
  /\ visit.phase # "over" /\ seen.changes < MaxChanges
  /\ seen' = IF visit.phase = "none" THEN Unseen
             ELSE [held |-> seen.held \cup Held', ever |-> seen.ever \cup grants',
                   always |-> seen.always \cap grants', changes |-> seen.changes + 1]
  /\ UNCHANGED visit

Continues(new) == visit' = new /\ UNCHANGED <<deployed, holds, grants, seen>>
Answers(out, entries) ==
  Continues([visit EXCEPT !.phase = "over", !.queue = <<>>, !.info = Nothing,
               !.out = out, !.audit = visit.audit \o entries])

-----------------------------------------------------------------------------
(* A request comes, or is refused at once: an action whose path is not well*)
(* formed with an entry, a reveal that lacks a parameter with none.        *)
Comes ==
  /\ visit.phase = "none"
  /\ \E what \in Asked, name \in AppNames :
       \E arg \in IF what = "action" THEN ActionIDs ELSE IF what = "reveal" THEN Fields ELSE {""} :
         visit' = [NoVisit EXCEPT !.phase = "finding", !.what = what, !.name = name, !.arg = arg]
  /\ seen' = [held |-> Held, ever |-> grants, always |-> grants, changes |-> 0]
  /\ UNCHANGED <<deployed, holds, grants>>

RefusesPath ==
  /\ visit.phase = "finding" /\ visit.what \in {"reveal", "action"}
  /\ Answers(Nothing, IF visit.what = "action" THEN <<"error">> ELSE <<>>)

(* ApplicationService.Get: the first release of that name.                 *)
GetApp ==
  /\ visit.phase = "finding"
  /\ \E i \in DOMAIN KindOrder :
       /\ <<KindOrder[i], visit.name>> \in deployed
       /\ \A j \in 1 .. i - 1 : <<KindOrder[j], visit.name>> \notin deployed
       /\ Continues([visit EXCEPT !.phase = "templates", !.kind = KindOrder[i]])

LookupFails ==  \* none, not allowed, or the call fails
  /\ visit.phase = "finding"
  /\ Answers(Nothing, IF visit.what \in {"reveal", "action"} THEN <<"error">> ELSE <<>>)

(* getConnectionInfo: the secrets the definition names; none without it.   *)
ReadTemplates ==
  /\ visit.phase = "templates"
  /\ \E names \in {<<>>, SecretTemplates[<<visit.kind, visit.name>>]} :
       Continues([visit EXCEPT !.phase = "secrets", !.queue = names])

(* readSecretInto: a later secret's key replaces an earlier one's; one that*)
(* cannot be read is passed over.                                          *)
With(info, secret) ==
  [f \in DOMAIN info \cup KeysOf[secret] |->
     IF f \in KeysOf[secret] THEN <<secret, holds[secret]>> ELSE info[f]]

ReadSecretInto ==
  /\ visit.phase = "secrets" /\ visit.queue # <<>>
  /\ LET secret == Head(visit.queue)
         next == [visit EXCEPT !.queue = Tail(@)]
     IN  \/ Continues(next)
         \/ holds[secret] # NoData /\ Continues([next EXCEPT !.info = With(@, secret)])

(* Mutant: a secret that could not be read is looked for by prefix as well.*)
FallsBackShort == Cardinality(DOMAIN visit.info) < Cardinality(Fields)

FallsBack == DOMAIN visit.info = {}

(* findSecretsByPrefix, when the templates gave nothing: those there are,  *)
(* in the order they are listed; no secrets if the list fails.             *)
FindSecretsByPrefix ==
  LET prefixed == Prefixed[<<visit.kind, visit.name>>]
      wanted == {s \in ToSet(prefixed) \ NotCredentials : holds[s] # NoData}
  IN  /\ visit.phase = "secrets" /\ visit.queue = <<>> /\ FallsBack /\ ~visit.fellBack
      /\ \E names \in {<<>>} \cup InOrderOf(prefixed, wanted) :
           Continues([visit EXCEPT !.queue = names, !.fellBack = TRUE])

HasInfo == visit.phase = "secrets" /\ visit.queue = <<>> /\ (~FallsBack \/ visit.fellBack)

-----------------------------------------------------------------------------
(* SecretRevealFragment: the value just read, with its entry.  Mutant: the *)
(* entry before the look.                                                  *)
RecordsUnlooked == <<"success">>

RevealEntries == IF visit.arg \in DOMAIN visit.info THEN <<"success">> ELSE <<"denied">>

Reveal ==
  /\ HasInfo /\ visit.what = "reveal"
  /\ Answers([f \in DOMAIN visit.info \cap {visit.arg} |-> visit.info[f]], RevealEntries)

(* The JSON API's Get: the application with all it has been reached with,  *)
(* and no entry.                                                           *)
GetJSON ==
  /\ HasInfo /\ visit.what = "json"
  /\ Answers(visit.info, <<>>)

(* AppDetailPage: the connection tab has an entry, then the buttons are    *)
(* probed; no probe without a configuration for the user.                  *)
Tab(entries) ==
  LET next == [visit EXCEPT !.phase = "probing", !.audit = entries]
      all == Registered[visit.kind]
  IN  \/ Continues([next EXCEPT !.queue = all])
      \/ Continues([next EXCEPT !.flaky = ToSet(all)])

ShowTab ==
  /\ HasInfo
  /\ \/ visit.what = "connection" /\ Tab(<<"success">>)
     \/ visit.what = "overview" /\ Tab(<<>>)

(* FilterAllowed: one access review after the other; a failed one drops    *)
(* its button only.                                                        *)
KeptAnyway(action) == {action}

KeptOnError(action) == {}

Probe ==
  /\ visit.phase = "probing" /\ visit.queue # <<>>
  /\ LET action == Head(visit.queue)
         next == [visit EXCEPT !.queue = Tail(@)]
     IN  \/ Continues([next EXCEPT !.buttons = @ \cup ({action} \cap grants)])
         \/ Continues([next EXCEPT !.flaky = @ \cup {action}, !.buttons = @ \cup KeptOnError(action)])

(* The connection tab shows what is not concealed, other tabs nothing.     *)
RenderDetail ==
  /\ visit.phase = "probing" /\ visit.queue = <<>>
  /\ LET plain == IF visit.what = "connection" THEN DOMAIN visit.info \ Concealed ELSE {}
     IN  Answers([f \in plain |-> visit.info[f]], <<>>)

-----------------------------------------------------------------------------
(* InvokeAction: the action registered for the kind found.  Mutant: for any*)
(* kind.                                                                   *)
LooksInAllKinds == \E kind \in AppKinds : visit.arg \in ToSet(Registered[kind])

Lookup == visit.arg \in ToSet(Registered[visit.kind])

ResolveAction ==
  /\ HasInfo /\ visit.what = "action"
  /\ \/ ~Lookup /\ Answers(Nothing, <<"error">>)
     \/ Lookup /\ Continues([visit EXCEPT !.phase = "running", !.info = Nothing])

(* runAction: the API server checks the role and the machine, and its      *)
(* answer may not arrive; it may be there although its release is gone.    *)
RunAction ==
  /\ visit.phase = "running" /\ visit.arg \in grants
  /\ \E lost \in BOOLEAN :
       Continues([visit EXCEPT !.phase = "over", !.did = TargetName[<<visit.kind, visit.name>>],
                    !.unheard = lost, !.audit = IF lost THEN <<"error">> ELSE <<"success">>])

RunFails == visit.phase = "running" /\ Answers(Nothing, <<"error">>)

Gone ==
  /\ visit.phase = "over"
  /\ visit' = NoVisit /\ seen' = Unseen
  /\ UNCHANGED <<deployed, holds, grants>>

AccessNext ==
  \/ ClusterChanges
  \/ Comes \/ RefusesPath \/ GetApp \/ LookupFails \/ ReadTemplates \/ ReadSecretInto
  \/ FindSecretsByPrefix \/ Reveal \/ GetJSON \/ ShowTab \/ Probe \/ RenderDetail
  \/ ResolveAction \/ RunAction \/ RunFails \/ Gone

AccessSpec == AccessInit /\ [][AccessNext]_accessVars

-----------------------------------------------------------------------------
(* Properties.                                                             *)

AccessTypeOK ==
  /\ deployed \subseteq AppKinds \X AppNames
  /\ holds \in [Secrets -> Values \cup {NoData}]
  /\ grants \subseteq ActionIDs
  /\ visit.phase \in {"none", "finding", "templates", "secrets", "probing", "running", "over"}
  /\ visit.kind \in AppKinds \cup {""} /\ visit.buttons \subseteq ActionIDs
  /\ ToSet(visit.queue) \subseteq IF visit.phase = "probing" THEN ActionIDs ELSE Secrets
  /\ \A info \in {visit.info, visit.out} :
       \A f \in DOMAIN info : info[f] \in Secrets \X Values /\ f \in KeysOf[info[f][1]]

(* A reveal leaves one entry, a success exactly when the value goes out,   *)
(* and a page with values of the connection has its entry; only the JSON   *)
(* API hands them out without.  A concealed value is in no page.           *)
RevealedIsRecorded ==
  visit.phase = "over" =>
    /\ visit.what = "reveal" => Len(visit.audit) <= 1
    /\ visit.what = "reveal" => (visit.audit = <<"success">> <=> DOMAIN visit.out = {visit.arg})
    /\ visit.what # "json" /\ DOMAIN visit.out # {} => visit.audit = <<"success">>
    /\ visit.what \in {"overview", "connection"} => DOMAIN visit.out \cap Concealed = {}

(* Every value in an answer was the secret's during the request, and all   *)
(* are of one origin: the secrets the definition names, or else those of   *)
(* the application's prefix, never both (getConnectionInfo).               *)
InfoFromOneSource ==
  LET app == <<visit.kind, visit.name>>
      from == {visit.info[f][1] : f \in DOMAIN visit.info}
  IN  DOMAIN visit.info # {} =>
        /\ {visit.info[f] : f \in DOMAIN visit.info} \subseteq seen.held
        /\ \/ from \subseteq ToSet(SecretTemplates[app])
           \/ from \subseteq ToSet(Prefixed[app]) \ NotCredentials

(* One entry for a click; a success exactly when the API server has acted  *)
(* and said so; and it has acted only on the machine of the application    *)
(* named, by an action of its kind that the user's roles allow.            *)
ActionAuditIsTrue ==
  visit.phase = "over" /\ visit.what = "action" =>
    /\ Len(visit.audit) = 1
    /\ visit.audit = <<"success">> <=> visit.did # "" /\ ~visit.unheard
    /\ visit.did # "" =>
         /\ visit.did = TargetName[<<visit.kind, visit.name>>]
         /\ visit.arg \in ToSet(Registered[visit.kind]) \cap seen.ever

(* A page offers no action that was not allowed at some time while it was  *)
(* made, and each one that was allowed all the while and whose review did  *)
(* not fail (page.go: safer than a button that is refused).                *)
ButtonsWereAllowed ==
  visit.phase = "probing" /\ visit.queue = <<>> =>
    /\ visit.buttons \subseteq (seen.ever \cap ToSet(Registered[visit.kind])) \ visit.flaky
    /\ (seen.always \cap ToSet(Registered[visit.kind])) \ visit.flaky \subseteq visit.buttons
=============================================================================
