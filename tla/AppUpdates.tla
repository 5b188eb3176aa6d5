----------------------------- MODULE AppUpdates -----------------------------
(***************************************************************************)
(* Editing an application: the edit form of internal/handler/fragment.go,  *)
(* the mutations of internal/handler/crud.go, those of the JSON API        *)
(* (internal/api/application.go), and the calls                            *)
(* internal/k8s/application.go makes for them.  An update is three reads   *)
(* and a write, with the user's thinking time in between; only the         *)
(* resource version ties them together.                                    *)
(*                                                                         *)
(* One tenant, one application name.  Applications of different kinds may  *)
(* share the name; the kind is looked up each time from the releases that  *)
(* carry it.  What the schema's field types do to a value is left out:     *)
(* values stand for what has been converted.                               *)
(***************************************************************************)
EXTENDS SpecMerge, Naturals

CONSTANTS Editors,   \* users with the application's page open
          Listed,    \* the kinds, in the order the releases are listed
          Rendered,  \* the schema's fields the form renders: paths
          Default,   \* what the form shows for a field the spec lacks
          Typed,     \* specs users and other writers write as YAML
          MaxWrites, \* bound on the writes to the API server
          Absent,    \* no such object
          NoVersion  \* no resource version

Kinds == ToSet(Listed)

ASSUME AppUpdatesAssumption ==
  /\ Listed \in Seq(Kinds) /\ IsInjective(Listed)
  /\ Rendered \subseteq Paths /\ IsFiniteSet(Rendered) /\ NoneInside(Rendered)
  /\ Default \in Scalars \cup {Blank}
  /\ \A spec \in Typed : IsSpec(spec)
  /\ MaxWrites \in Nat
  /\ NoVersion \notin Nat

VARIABLES
  objects,   \* the application object of each kind
  releases,  \* the kinds a HelmRelease with the name's label exists for
  revision,  \* the API server's revision: the version of the last write
  editors    \* what each user is doing, see Idle

vars == <<objects, releases, revision, editors>>

Versions == 0 .. MaxWrites

(* phase: where the user's form or request is.  kind, shown, version: what *)
(* the open form is about, and pins.  incoming, replace, fields: what was  *)
(* submitted.  target, base, sent: what the update read and is to send.    *)
(* api: the request is one to the JSON API.                                *)
(* audit: the outcomes recorded for the request.  History: opened, the     *)
(* version the form shows, or the revision it was opened at if it shows    *)
(* none; wrote, the API server carried the request out; unheard, its       *)
(* answer was lost.                                                        *)
Idle == [phase |-> "idle", kind |-> Absent, shown |-> Empty, version |-> NoVersion,
         incoming |-> Empty, replace |-> FALSE, fields |-> Empty,
         target |-> Absent, base |-> Empty, sent |-> NoVersion,
         api |-> FALSE, audit |-> <<>>, opened |-> 0, wrote |-> FALSE, unheard |-> FALSE]

Init ==
  /\ revision = 0
  /\ \E k \in Kinds, spec \in Typed :
       /\ objects = [x \in Kinds |-> IF x = k THEN [version |-> 0, spec |-> spec] ELSE Absent]
       /\ releases = {k}
  /\ editors = [e \in Editors |-> Idle]

Becomes(e, new) == editors' = [editors EXCEPT ![e] = new]

Stage(e, phase) == editors[e].phase = phase

(* The handlers of the JSON API have no audit log.                         *)
Recorded(e, entries) == IF editors[e].api THEN <<>> ELSE entries

(* The request of e is over, with these entries in the audit log.          *)
Done(e, entries) ==
  Becomes(e, [Idle EXCEPT !.phase = "done", !.api = editors[e].api, !.audit = Recorded(e, entries)])

(* The API server has carried it out.  An answer that does not come in     *)
(* time (requestTimeout) is an error to the handler all the same.          *)
CarriedOut(e) ==
  \E lost \in BOOLEAN :
    Becomes(e, [Idle EXCEPT !.phase = "done", !.wrote = TRUE, !.unheard = lost, !.api = editors[e].api,
                  !.audit = Recorded(e, IF lost THEN <<"error">> ELSE <<"success">>)])

-----------------------------------------------------------------------------
(* The API server: a write must carry the object's version.                *)
Room == revision < MaxWrites

Store(k, spec) ==
  /\ Room
  /\ revision' = revision + 1
  /\ objects' = [objects EXCEPT ![k] = [version |-> revision + 1, spec |-> spec]]
  /\ UNCHANGED releases

Erase(k) == objects' = [objects EXCEPT ![k] = Absent] /\ UNCHANGED <<releases, revision>>

Reads == UNCHANGED <<objects, releases, revision>>

(* Others create, write and delete too: kubectl, other replicas, and       *)
(* controllers that only touch the status.                                 *)
OtherWrites(k) ==
  /\ \E spec \in Typed \cup (IF objects[k] = Absent THEN {} ELSE {objects[k].spec}) :
       Store(k, spec)
  /\ UNCHANGED editors

OtherDeletes(k) ==
  /\ objects[k] # Absent
  /\ Erase(k)
  /\ UNCHANGED editors

(* The release of an object comes and goes some time after it.             *)
Reconcile(k) ==
  /\ releases' = IF objects[k] = Absent THEN releases \ {k} ELSE releases \cup {k}
  /\ releases' # releases
  /\ UNCHANGED <<objects, revision, editors>>

(* findAppKind: the kind of the first release of that name.                *)
Found ==
  IF releases = {} THEN Absent
  ELSE Listed[CHOOSE i \in DOMAIN Listed :
                /\ Listed[i] \in releases
                /\ \A j \in 1 .. i - 1 : Listed[j] \notin releases]

-----------------------------------------------------------------------------
(* AppEditFragment: the application, found by name; then, by name again,   *)
(* its spec and version.  A form whose snapshot failed opens all the same, *)
(* on the schema's defaults and with no version to pin.                    *)
OpenForm(e) ==
  /\ Stage(e, "idle")
  /\ Found # Absent
  /\ Becomes(e, [Idle EXCEPT !.phase = "opening", !.kind = Found,
                          !.opened = revision])
  /\ Reads

TakeSnapshot(e) ==
  /\ Stage(e, "opening")
  /\ Found # Absent
  /\ objects[Found] # Absent
  /\ Becomes(e, [editors[e] EXCEPT !.phase = "form", !.kind = Found,
                   !.shown = objects[Found].spec, !.version = objects[Found].version,
                   !.opened = objects[Found].version])
  /\ Reads

SnapshotFails(e) ==
  /\ Stage(e, "opening")
  /\ Becomes(e, [editors[e] EXCEPT !.phase = "form"])
  /\ Reads

(* What the form shows, and sends back unless the user changes it.         *)
ShownField(e, path) ==
  LET value == At(editors[e].shown, path)
  IN  IF value \in Scalars THEN value ELSE Default

(* The PUT.  On the form tab every rendered field comes along, one of them *)
(* changed; on the YAML tab the textarea does, and only an empty document  *)
(* or one that does not parse is refused (parseYAMLSpecOrEmptyError).      *)
SubmitForm(e) ==
  /\ Stage(e, "form")
  /\ \E changed \in Rendered, value \in Scalars \cup {Blank}, order \in Orders(Rendered) :
       LET form == [p \in Rendered |-> IF p = changed THEN value ELSE ShownField(e, p)]
       IN  Becomes(e, [editors[e] EXCEPT !.phase = "loading",
                         !.incoming = ExtractSpec(form, order), !.replace = FALSE,
                         !.fields = Restrict(form, {p \in Rendered : form[p] # Blank})])
  /\ Reads

SubmitYAML(e) ==
  /\ Stage(e, "form")
  /\ \E spec \in Typed \cup {Empty} :
       Becomes(e, [editors[e] EXCEPT !.phase = "loading", !.incoming = spec,
                     !.replace = TRUE])
  /\ Reads

(* The JSON API: a body that does not decode goes no further.  An update   *)
(* merges; neither a version nor a replacement can be asked for.           *)
RequestByAPI(e) ==
  /\ Stage(e, "idle")
  /\ Becomes(e, [Idle EXCEPT !.phase = "api", !.api = TRUE])
  /\ Reads

UpdateByAPI(e) ==
  /\ Stage(e, "api")
  /\ \E spec \in Typed :
       Becomes(e, [editors[e] EXCEPT !.phase = "updating", !.incoming = spec,
                     !.fields = Tips(spec)])
  /\ Reads

-----------------------------------------------------------------------------
(* doUpdateApp.  Its first read only tells the kind, for the schema; a     *)
(* failure is shown to the user and leaves no audit entry.                 *)
LoadFails(e) ==
  /\ Stage(e, "loading")
  /\ Done(e, <<>>)
  /\ Reads

RefusesSpec(e) == editors[e].replace /\ editors[e].incoming = Empty

BuildFails(e) ==
  /\ Stage(e, "loading")
  /\ Found # Absent
  /\ \/ RefusesSpec(e) /\ Done(e, <<"denied">>)
     \/ ~editors[e].replace /\ Done(e, <<"error">>)  \* the schema's fetch
  /\ Reads

LoadForUpdate(e) ==
  /\ Stage(e, "loading")
  /\ Found # Absent
  /\ objects[Found] # Absent
  /\ ~RefusesSpec(e)
  /\ Becomes(e, [editors[e] EXCEPT !.phase = "updating"])
  /\ Reads

(* ApplicationService.Update: the kind and the object are read once more;  *)
(* the version sent is the form's, or else the one just read.              *)
SendsReadVersion(e, k) == objects[k].version

SentVersion(e, k) ==
  IF editors[e].version # NoVersion THEN editors[e].version ELSE objects[k].version

ReadForUpdate(e) ==
  /\ Stage(e, "updating")
  /\ Found # Absent
  /\ objects[Found] # Absent
  /\ Becomes(e, [editors[e] EXCEPT !.phase = "writing", !.target = Found,
                   !.base = objects[Found].spec, !.sent = SentVersion(e, Found)])
  /\ Reads

UpdateFails(e) ==  \* one of its reads, or its write, for another reason
  /\ editors[e].phase \in {"updating", "writing"}
  /\ Done(e, <<"error">>)
  /\ Reads

Current(e) == /\ objects[editors[e].target] # Absent
              /\ objects[editors[e].target].version = editors[e].sent

(* The write, of an object that is gone or has another version, or not.    *)
FallsThrough == <<"error", "success">>

ConflictEntries == <<"error">>

PutConflicts(e) ==
  /\ Stage(e, "writing")
  /\ ~Current(e)
  /\ Done(e, ConflictEntries)
  /\ Reads

Put(e) ==
  /\ Stage(e, "writing")
  /\ Current(e)
  /\ Store(editors[e].target,
           PickNextSpec(editors[e].base, editors[e].incoming, editors[e].replace))
  /\ CarriedOut(e)

-----------------------------------------------------------------------------
(* CreateApp: a name the UI does not take is denied, the schema's fetch or *)
(* the API server may fail, and a name that is taken is an error.          *)
Asks(e) == editors[e].phase \in {"idle", "api"}

CreateApp(e, k) ==
  /\ Asks(e)
  /\ \/ Done(e, <<"denied">>) /\ Reads
     \/ Done(e, <<"error">>) /\ Reads
     \/ /\ objects[k] = Absent
        /\ \E spec \in Typed : Store(k, spec)
        /\ CarriedOut(e)

(* DeleteApp: the row's kind is not sent; the first release found decides. *)
DeleteApp(e) ==
  /\ Asks(e)
  /\ \/ Done(e, <<"error">>)
     \/ Found # Absent /\ Becomes(e, [editors[e] EXCEPT !.phase = "deleting", !.target = Found])
  /\ Reads

Delete(e) ==
  /\ Stage(e, "deleting")
  /\ \/ objects[editors[e].target] = Absent /\ Done(e, <<"error">>) /\ Reads
     \/ /\ objects[editors[e].target] # Absent
        /\ Erase(editors[e].target)
        /\ CarriedOut(e)

(* The page is rendered again, or the form dismissed.                      *)
Reload(e) ==
  /\ editors[e].phase \in {"form", "done"}
  /\ Becomes(e, Idle)
  /\ Reads

-----------------------------------------------------------------------------
Update(e) == \/ LoadFails(e) \/ BuildFails(e) \/ LoadForUpdate(e)
             \/ ReadForUpdate(e) \/ UpdateFails(e) \/ PutConflicts(e) \/ Put(e)

Next ==
  \/ \E e \in Editors :
       \/ OpenForm(e) \/ TakeSnapshot(e) \/ SnapshotFails(e)
       \/ SubmitForm(e) \/ SubmitYAML(e) \/ Update(e)
       \/ RequestByAPI(e) \/ UpdateByAPI(e)
       \/ DeleteApp(e) \/ Delete(e) \/ Reload(e)
       \/ \E k \in Kinds : CreateApp(e, k)
  \/ \E k \in Kinds : OtherWrites(k) \/ OtherDeletes(k) \/ Reconcile(k)

Spec == Init /\ [][Next]_vars

-----------------------------------------------------------------------------
Phases == {"idle", "api", "opening", "form", "loading", "updating", "writing", "deleting", "done"}

(* Every variable has its type, and only an update about to write has      *)
(* something to send.                                                      *)
TypeOK ==
  /\ DOMAIN objects = Kinds
  /\ \A k \in Kinds : \/ objects[k] = Absent
                      \/ objects[k].version \in Versions /\ IsSpec(objects[k].spec)
  /\ releases \subseteq Kinds
  /\ revision \in Versions
  /\ DOMAIN editors = Editors
  /\ \A e \in Editors :
       /\ editors[e].phase \in Phases
       /\ {editors[e].kind, editors[e].target} \subseteq Kinds \cup {Absent}
       /\ \A spec \in {editors[e].shown, editors[e].incoming, editors[e].base} : IsSpec(spec)
       /\ {editors[e].version, editors[e].sent} \subseteq Versions \cup {NoVersion}
       /\ editors[e].fields \in [DOMAIN editors[e].fields -> Scalars \cup {Empty}]
       /\ DOMAIN editors[e].fields \subseteq Paths
       /\ editors[e].audit \in Seq({"success", "error", "denied"})
       /\ editors[e].opened \in Versions
       /\ {editors[e].api, editors[e].replace, editors[e].wrote, editors[e].unheard} \subseteq BOOLEAN
       /\ Stage(e, "writing") <=> editors[e].sent # NoVersion

(* The step in which an update of e is carried out, on what and with what  *)
(* result.                                                                 *)
Writes(e) == Stage(e, "writing") /\ editors'[e].wrote
Old(e)    == objects[editors[e].target]
New(e)    == objects'[editors[e].target].spec

(* Nobody's write is lost: an update replaces the very spec it has merged  *)
(* into, and one that pins a version the very object its form showed, of   *)
(* the same kind, with what it showed, however long ago that was and       *)
(* whatever happened to the name meanwhile.                                *)
NoLostUpdate ==
  [][\A e \in Editors : Writes(e) =>
       /\ Old(e).spec = editors[e].base
       /\ editors[e].version # NoVersion =>
            /\ Old(e) = [version |-> editors[e].version, spec |-> editors[e].shown]
            /\ editors[e].target = editors[e].kind]_vars

(* A save from the form tab, or an update by the JSON API, sets the fields *)
(* it submits to the values it submits (an empty map to some map) and      *)
(* leaves all else as it was, the nested and the unrendered fields too,    *)
(* whatever order the form is ranged over in.  A save from the YAML tab    *)
(* leaves exactly what was typed, deleted lines deleted, and never an      *)
(* empty spec.  A path is touched by a field that is equal to it, above it *)
(* or below it.                                                            *)
Touched(e, path) ==
  \E f \in DOMAIN editors[e].fields : IsPrefix(f, path) \/ IsPrefix(path, f)

SetAsAsked(e, path) ==
  LET value == At(New(e), path)
  IN  IF editors[e].fields[path] \in Scalars THEN value = editors[e].fields[path] ELSE value \in Maps

SavesWhatWasAsked ==
  [][\A e \in Editors : Writes(e) =>
       IF editors[e].replace THEN New(e) = editors[e].incoming /\ New(e) # Empty
       ELSE \A p \in Paths :
              /\ ~Touched(e, p) => At(New(e), p) = At(Old(e).spec, p)
              /\ p \in DOMAIN editors[e].fields => SetAsAsked(e, p)]_vars

(* The audit log tells the truth: one entry, a success exactly when the    *)
(* API server has carried the request out and said so.  An update that     *)
(* fails before its spec is built leaves none, nor does anything done by   *)
(* the JSON API.                                                           *)
AuditIsTrue ==
  \A e \in Editors : Stage(e, "done") /\ ~editors[e].api =>
    /\ Len(editors[e].audit) <= 1
    /\ editors[e].wrote => editors[e].audit = IF editors[e].unheard THEN <<"error">>
                                                                   ELSE <<"success">>
    /\ ~editors[e].wrote => editors[e].audit # <<"success">>

(* The README: optimistic locking on every update, so that a concurrent    *)
(* write gives an error and is not silently overwritten.  Of the edit form *)
(* that says: what a save overwrites is no later than what the form shows, *)
(* or than its opening.  (A JSON request has no form to compare with.)     *)
NoSilentClobber ==
  [][\A e \in Editors : Writes(e) /\ ~editors[e].api =>
                          Old(e).version <= editors[e].opened]_vars
=============================================================================
