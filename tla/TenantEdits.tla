---------------------------- MODULE TenantEdits ----------------------------
(***************************************************************************)
(* Creating, editing and deleting tenants through the UI: the handlers of  *)
(* internal/handler/tenants.go, TenantEditFragment of fragment.go, and     *)
(* what internal/k8s/tenant.go calls for them.                             *)
(*                                                                         *)
(* A tenant is an object <<namespace, name>>: the namespace is the workload*)
(* namespace of its parent, and two parents may each have one of the name. *)
(***************************************************************************)
EXTENDS SpecMerge, Naturals

CONSTANTS Admins,       \* users with the tenants page open
          TenantOrder,  \* the <<namespace, name>> pairs, as the API server lists them
          Spellings,    \* status.namespace of each, and what follows tenant- in it
          rootTenant,   \* the root tenant's name
          ValidNames,   \* the names validTenantName takes
          Reserved,     \* reservedTenantSpecKeys, which the form's request carries too
          TenantFields, \* the schema's fields the form renders: paths
          TenantSpecs,  \* what other writers write
          MaxTenantWrites,  \* bound on the writes to the API server
          NoTenant, NoPin

Slots == ToSet(TenantOrder)

ASSUME TenantEditsAssumption ==
  /\ TenantOrder \in Seq(Slots) /\ IsInjective(TenantOrder)
  /\ DOMAIN Spellings = Slots
  /\ \E ns \in {s[1] : s \in Slots} : <<ns, rootTenant>> \in Slots
  /\ Reserved \subseteq Keys
  /\ TenantFields \subseteq Paths /\ IsFiniteSet(TenantFields) /\ NoneInside(TenantFields)
  /\ \A p \in TenantFields : p[1] \notin Reserved
  /\ \A spec \in TenantSpecs : IsSpec(spec)
  /\ MaxTenantWrites \in Nat /\ NoPin \notin Nat

VARIABLES
  tenants,    \* the object of each slot, or NoTenant
  writes,     \* the API server's revision
  admins      \* what each user is doing, see AtPage

tenantVars == <<tenants, writes, admins>>

(* row: the tenant whose button was clicked.  target: the one the form's   *)
(* PUT names.  shown, version: what the form is filled with and pins.      *)
(* fields: what was submitted.  base, sent: what the update has read, and  *)
(* the version it is to send.  audit: the entries recorded.  wrote,        *)
(* unheard: history, the API server carried it out and its answer was lost.*)
AtPage == [phase |-> "page", row |-> NoTenant, target |-> NoTenant, shown |-> Empty,
           version |-> NoPin, fields |-> Empty, base |-> Empty, sent |-> NoPin,
           api |-> FALSE, audit |-> <<>>, wrote |-> FALSE, unheard |-> FALSE]

TenantInit ==   \* every version is another: one counter is the whole API server's
  /\ writes = Len(TenantOrder)
  /\ \E spec \in TenantSpecs :
       tenants = [s \in Slots |-> [version |-> CHOOSE i \in DOMAIN TenantOrder : TenantOrder[i] = s,
                                  spec |-> spec]]
  /\ admins = [a \in Admins |-> AtPage]

Turns(a, new) == admins' = [admins EXCEPT ![a] = new]
At_(a, phase) == admins[a].phase = phase

(* A request to the JSON API (internal/api/tenant.go) leaves no entry.     *)
Leaves(a, entries) == IF admins[a].api THEN <<>> ELSE entries

Ends(a, entries) ==
  Turns(a, [AtPage EXCEPT !.phase = "over", !.api = admins[a].api, !.audit = Leaves(a, entries)])

Answered(a) ==  \* carried out, with its answer heard or lost
  \E lost \in BOOLEAN :
    Turns(a, [AtPage EXCEPT !.phase = "over", !.wrote = TRUE, !.unheard = lost, !.api = admins[a].api,
                !.audit = Leaves(a, IF lost THEN <<"error">> ELSE <<"success">>)])

OnlyReads == UNCHANGED <<tenants, writes>>

Stores(s, spec) ==
  /\ writes < Len(TenantOrder) + MaxTenantWrites
  /\ writes' = writes + 1
  /\ tenants' = [tenants EXCEPT ![s] = [version |-> writes + 1, spec |-> spec]]

Removes(s) == tenants' = [tenants EXCEPT ![s] = NoTenant] /\ UNCHANGED writes

OtherTenantWriter ==
  /\ \E s \in Slots : \/ \E spec \in TenantSpecs : Stores(s, spec)
                      \/ tenants[s] # NoTenant /\ s[2] # rootTenant /\ Removes(s)
  /\ UNCHANGED admins

-----------------------------------------------------------------------------
(* TenantService.Get, findTenantObj: the first object of that name, else   *)
(* the first whose workload namespace is so called.                        *)
Named(name) == {s \in Slots : tenants[s] # NoTenant /\ s[2] = name}

InNamespace(name) == {s \in Slots : tenants[s] # NoTenant /\ name \in Spellings[s]}

FirstListed(slots) ==
  TenantOrder[CHOOSE i \in DOMAIN TenantOrder :
                /\ TenantOrder[i] \in slots
                /\ \A j \in 1 .. i - 1 : TenantOrder[j] \notin slots]

FindTenant(name) ==
  IF Named(name) # {} THEN FirstListed(Named(name))
  ELSE IF InNamespace(name) # {} THEN FirstListed(InNamespace(name)) ELSE NoTenant

(* TenantEditFragment, for the row's name and namespace: the tenant by its *)
(* name, which the form's PUT will name; then the spec and version by both.*)
OpenTenantEdit(a) ==
  /\ At_(a, "page")
  /\ \E s \in Slots :
       /\ FindTenant(s[2]) # NoTenant
       /\ Turns(a, [AtPage EXCEPT !.phase = "opening", !.row = s, !.target = FindTenant(s[2])])
  /\ OnlyReads

GetSpecSnapshot(s) == IF tenants[s] = NoTenant THEN {} ELSE {tenants[s]}

SnapshotTenant(a) ==
  /\ At_(a, "opening")
  /\ \/ \E found \in GetSpecSnapshot(admins[a].row) :
          Turns(a, [admins[a] EXCEPT !.phase = "form", !.shown = found.spec,
                      !.version = found.version])
     \/ Turns(a, [admins[a] EXCEPT !.phase = "form"])  \* the read fails
  /\ OnlyReads

(* UpdateTenant: extractTenantSpec drops the reserved keys, of which the   *)
(* query string brings ns, and the empty fields.                           *)
ExtractTenantSpec(form) ==
  LET fields == {p \in DOMAIN form : p[1] \notin Reserved}
  IN  ExtractSpec([p \in fields |-> form[p]], CHOOSE o \in Orders(fields) : TRUE)

SubmitTenant(a) ==
  /\ At_(a, "form")
  /\ \E values \in [TenantFields -> Scalars \cup {Blank}], query \in Scalars :
       LET form == [p \in TenantFields \cup {<<k>> : k \in Reserved} |->
                      IF p \in TenantFields THEN values[p] ELSE query]
           spec == ExtractTenantSpec(form)
       IN  IF spec = Empty THEN Ends(a, <<>>)  \* "no fields", and no entry
           ELSE Turns(a, [admins[a] EXCEPT !.phase = "updating", !.fields = spec])
  /\ OnlyReads

-----------------------------------------------------------------------------
(* TenantService.Update: read, scrub, merge, pin, write.                   *)
SendsReadPin(a, s) == tenants[s].version

SentPin(a, s) == IF admins[a].version # NoPin THEN admins[a].version ELSE tenants[s].version

ReadTenant(a) ==
  /\ At_(a, "updating")
  /\ LET s == admins[a].target
     IN  /\ tenants[s] # NoTenant
         /\ Turns(a, [admins[a] EXCEPT !.phase = "writing", !.base = tenants[s].spec,
                        !.sent = SentPin(a, s)])
  /\ OnlyReads

UpdateTenantFails(a) ==  \* any of its calls; a conflict is recorded alike
  /\ admins[a].phase \in {"updating", "writing"}
  /\ Ends(a, <<"error">>)
  /\ OnlyReads

Unscrubbed(spec) == spec

Scrub(spec) == [k \in DOMAIN spec \ Reserved |-> spec[k]]

PutTenant(a) ==
  /\ At_(a, "writing")
  /\ tenants[admins[a].target] # NoTenant
  /\ tenants[admins[a].target].version = admins[a].sent
  /\ Stores(admins[a].target, DeepMerge(Scrub(admins[a].base), admins[a].fields))
  /\ Answered(a)

-----------------------------------------------------------------------------
(* CreateTenant: no parent means the root namespace; a name the chart or   *)
(* the root tenant rules out is denied, a name taken there is an error.    *)
(* Mutant: no return after the refusal is recorded.                        *)
DeniedFallsThrough == <<"denied", "error">>

DeniedEntries == <<"denied">>

RefusedName(name) == name \notin ValidNames \/ name = rootTenant

CreateObject(s, spec) == tenants[s] = NoTenant /\ Stores(s, spec)

CreateTenant(a) ==
  /\ At_(a, "page")
  /\ \E s \in Slots :
       \/ RefusedName(s[2]) /\ Ends(a, DeniedEntries) /\ OnlyReads
       \/ ~RefusedName(s[2]) /\ Ends(a, <<"error">>) /\ OnlyReads
       \/ ~RefusedName(s[2]) /\ (\E spec \in TenantSpecs : CreateObject(s, Scrub(spec))) /\ Answered(a)

DeleteObject(s) == s[2] # rootTenant /\ tenants[s] # NoTenant /\ Removes(s)

DeleteTenant(a) ==  \* of a row on a page that may be old
  /\ At_(a, "page")
  /\ \E s \in Slots :
       \/ s[2] = rootTenant /\ Ends(a, DeniedEntries) /\ OnlyReads
       \/ s[2] # rootTenant /\ Ends(a, <<"error">>) /\ OnlyReads
       \/ DeleteObject(s) /\ Answered(a)

(* The JSON API calls the same services, on any name.                      *)
TenantByAPI(a) ==
  /\ At_(a, "page")
  /\ Turns(a, [AtPage EXCEPT !.phase = "api", !.api = TRUE])
  /\ OnlyReads

CreateTenantByAPI(a) ==
  /\ At_(a, "api")
  /\ \/ Ends(a, <<>>) /\ OnlyReads
     \/ \E s \in Slots, spec \in TenantSpecs : CreateObject(s, spec) /\ Answered(a)

DeleteTenantByAPI(a) ==
  /\ At_(a, "api")
  /\ \E s \in Slots : DeleteObject(s) /\ Answered(a)

BackToPage(a) ==
  /\ admins[a].phase \in {"form", "over"}
  /\ Turns(a, AtPage)
  /\ OnlyReads

TenantNext ==
  \/ \E a \in Admins :
       \/ OpenTenantEdit(a) \/ SnapshotTenant(a) \/ SubmitTenant(a)
       \/ ReadTenant(a) \/ UpdateTenantFails(a) \/ PutTenant(a)
       \/ CreateTenant(a) \/ DeleteTenant(a) \/ BackToPage(a)
       \/ TenantByAPI(a) \/ CreateTenantByAPI(a) \/ DeleteTenantByAPI(a)
  \/ OtherTenantWriter

TenantSpec == TenantInit /\ [][TenantNext]_tenantVars

-----------------------------------------------------------------------------
TenantTypeOK ==
  /\ \A s \in Slots : \/ tenants[s] = NoTenant
                      \/ tenants[s].version \in 1 .. writes /\ IsSpec(tenants[s].spec)
  /\ writes \in Nat
  /\ \A a \in Admins :
       /\ admins[a].phase \in {"page", "api", "opening", "form", "updating", "writing", "over"}
       /\ {admins[a].row, admins[a].target} \subseteq Slots \cup {NoTenant}
       /\ At_(a, "writing") <=> admins[a].sent # NoPin

TenantWrites(a) == At_(a, "writing") /\ admins'[a].wrote
Before(a) == tenants[admins[a].target]
After(a) == tenants'[admins[a].target].spec

(* An update that pins a version replaces the very object its form showed, *)
(* whatever was written, deleted or created in between, and one without a  *)
(* pin the very spec it has merged into.                                   *)
NoLostTenantUpdate ==
  [][\A a \in Admins : TenantWrites(a) =>
       /\ Before(a).spec = admins[a].base
       /\ admins[a].version # NoPin =>
            /\ admins[a].target = admins[a].row
            /\ Before(a).spec = admins[a].shown]_tenantVars

(* A save leaves no reserved key in the spec, neither one stored by an     *)
(* earlier build nor one its own query string carries, and every path that *)
(* is neither reserved nor submitted as it was.                            *)
SaveScrubsAndKeeps ==
  [][\A a \in Admins : TenantWrites(a) =>
       /\ DOMAIN After(a) \cap Reserved = {}
       /\ \A p \in Paths :
            (/\ p[1] \notin Reserved
             /\ \A f \in TenantFields : ~IsPrefix(f, p) /\ ~IsPrefix(p, f))
            => At(After(a), p) = At(Before(a).spec, p)]_tenantVars

(* One entry for a request that reached the API server or was refused, and *)
(* a success exactly when it was carried out and the answer was heard; the *)
(* JSON API leaves none.                                                   *)
TenantAuditIsTrue ==
  \A a \in Admins : At_(a, "over") /\ ~admins[a].api =>
    /\ Len(admins[a].audit) <= 1
    /\ admins[a].wrote => admins[a].audit = IF admins[a].unheard THEN <<"error">>
                                                                 ELSE <<"success">>
    /\ ~admins[a].wrote => admins[a].audit # <<"success">>

(* tenants.go: the namespace disambiguates same-named tenants under        *)
(* different parents, so the form opened at a row saves that row's tenant. *)
SavesTheRowClicked ==
  \A a \in Admins : admins[a].phase \in {"updating", "writing"} => admins[a].target = admins[a].row
=============================================================================
