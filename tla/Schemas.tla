------------------------------ MODULE Schemas ------------------------------
(***************************************************************************)
(* The schemas behind the forms: a cache per user name in front of the     *)
(* ApplicationDefinitions (internal/k8s/schema.go), the FormDefinitions    *)
(* laid over a schema (internal/k8s/formdefinition.go,                     *)
(* formdefinition_merge.go) and the fragments that render the result       *)
(* (internal/handler/fragment.go).                                         *)
(***************************************************************************)
EXTENDS Integers, FiniteSetsExt, Lists

CONSTANTS Askers,          \* the requests that can be under way together
          Sessions, UserOf,  \* signed-in sessions and the user name of each
          DefOrder,        \* the names of ApplicationDefinitions, as a list returns them
          KindIn,          \* the spec.application.kind of each, "" when it has none
          toLowerKind,     \* a kind -> its lower-case form
          MayGet, MayList, \* <<session, name>> it may get; sessions that may list
          Contents,        \* what a definition can say
          schemaCacheTTL,
          MaxStall,        \* bound on the time a call to the API server takes
          SchemaFields,    \* the paths of a schema's fields, as walkProperties finds them
          Overlays,        \* what a list of FormDefinitions can return, sorted by name
          NoContent        \* no such definition

AskedKinds == DOMAIN toLowerKind
Definitions == Range(DefOrder)

ASSUME SchemasAssumption ==
  /\ NoContent \notin Contents
  /\ schemaCacheTTL \in Nat \ {0} /\ MaxStall \in Nat
  /\ MayGet \subseteq Sessions \X Definitions /\ MayList \subseteq Sessions

(* A path is the keys from the top down.  walkProperties goes down          *)
(* maxNestedDepth levels and through a block at once; a key is there once. *)
maxNestedDepth == 2

ASSUME FieldsAssumption ==
  /\ SchemaFields \in Seq(Seq(STRING))
  /\ \A i \in DOMAIN SchemaFields : Len(SchemaFields[i]) \in 1 .. maxNestedDepth
  /\ \A i, j \in DOMAIN SchemaFields :
       /\ SchemaFields[i] = SchemaFields[j] => i = j
       /\ SchemaFields[i][1] = SchemaFields[j][1] =>
            \A k \in i .. j : SchemaFields[k][1] = SchemaFields[i][1]

(* An overlay's definition is [kind, fields], an entry of it [path, order, *)
(* hidden]; order is a set, empty when there is none.  A request without a *)
(* kind is refused.                                                        *)
Numbers == {order \in SUBSET Int : \A m, n \in order : m = n}
Entries == [path : Seq(STRING), order : Numbers, hidden : BOOLEAN]

ASSUME OverlaysAssumption ==
  /\ "" \notin AskedKinds
  /\ Overlays \subseteq Seq([kind : STRING, fields : Seq(Entries)])

VARIABLES
  defs,     \* the content of each definition
  since,    \* the time since it last changed, up to where it no longer matters
  cache,    \* (user, kind) -> the schema and the time since it was fetched
  asks,     \* the requests for a schema
  shown     \* the form that was rendered in this step

schemaVars == <<defs, since, cache, asks, shown>>

anonymousCacheUser == "anonymous"
Users == {UserOf[s] : s \in Sessions} \cup {anonymousCacheUser}

Longest == schemaCacheTTL + MaxStall
NoSchema == [def |-> "", content |-> NoContent]
NoEntry == [schema |-> NoSchema, age |-> 0]
NoForm == [fields |-> <<>>, kind |-> "", overlay |-> <<>>]
Quiet == [phase |-> "idle", session |-> "", kind |-> "", schema |-> NoSchema, age |-> 0]

SchemaValues == [def : Definitions \cup {""}, content : Contents \cup {NoContent}]

SchemasTypeOK ==
  /\ defs \in [Definitions -> Contents \cup {NoContent}]
  /\ since \in [Definitions -> 0 .. Longest]
  /\ cache \in [Users \X AskedKinds -> [schema : SchemaValues, age : 0 .. schemaCacheTTL]]
  /\ asks \in [Askers -> [phase : {"idle", "getting", "listing", "caching", "rendering"},
                          session : Sessions \cup {""}, kind : AskedKinds \cup {""},
                          schema : SchemaValues, age : 0 .. MaxStall]]

SchemasInit ==
  /\ defs \in [Definitions -> Contents \cup {NoContent}]
  /\ since = [d \in Definitions |-> Longest]
  /\ cache = [k \in Users \X AskedKinds |-> NoEntry]
  /\ asks = [a \in Askers |-> Quiet]
  /\ shown = NoForm

-----------------------------------------------------------------------------
(* FormDefinitions.  parseFormDefinition: one without a kind is skipped;   *)
(* parseFieldOverride: so is an entry without a path.                      *)
Parsed(def) ==
  [def EXCEPT !.fields = Picked(@, {i \in DOMAIN @ : @[i].path # <<>>})]

formDefinitionsFromList(overlay) ==
  LET sound == Picked(overlay, {i \in DOMAIN overlay : overlay[i].kind # ""})
  IN  [i \in DOMAIN sound |-> Parsed(sound[i])]

GetOverridesForKind(overlay, kind) ==
  LET parsed == formDefinitionsFromList(overlay)
      ofKind == Picked(parsed, {i \in DOMAIN parsed : parsed[i].kind = kind})
  IN  Concatenated([i \in DOMAIN ofKind |-> ofKind[i].fields])

(* Mutant: the first entry of a path stays.                                *)
FirstByPath(entries) ==
  [p \in {entries[i].path : i \in DOMAIN entries} |->
     entries[Min({i \in DOMAIN entries : entries[i].path = p})]]

OverridesByPath(entries) ==
  [p \in {entries[i].path : i \in DOMAIN entries} |->
     entries[Max({i \in DOMAIN entries : entries[i].path = p})]]

IsHidden(overrides, path) == path \in DOMAIN overrides /\ overrides[path].hidden

OrderFor(overrides, path) == IF path \in DOMAIN overrides THEN overrides[path].order ELSE {}

(* walkProperties: a hidden block takes its fields with it.                *)
Visible(overrides, path) == \A n \in DOMAIN path : ~IsHidden(overrides, SubSeq(path, 1, n))

VisibleFields(overrides) ==
  Picked(SchemaFields, {i \in DOMAIN SchemaFields : Visible(overrides, SchemaFields[i])})

(* sortByOrder, a stable sort.                                             *)
SortedByOrder(fields, overrides) ==
  LET order(i) == OrderFor(overrides, fields[i])
      less(i, j) == \/ order(i) # {} /\ order(j) = {}
                    \/ \E m \in order(i), n \in order(j) : m < n
      before == {p \in (DOMAIN fields) \X (DOMAIN fields) :
                   less(p[1], p[2]) \/ (~less(p[2], p[1]) /\ p[1] < p[2])}
      sorted == Ranked(DOMAIN fields, before)
  IN  [n \in DOMAIN sorted |-> fields[sorted[n]]]

(* groupFields: the top level, then the blocks by name, as walkProperties  *)
(* meets them.                                                             *)
GroupedFields(fields, overrides) ==
  LET top == {i \in DOMAIN fields : Len(fields[i]) = 1}
      block(i) == {j \in DOMAIN fields \ top : fields[j][1] = fields[i][1]}
      first == {i \in DOMAIN fields \ top : \A j \in block(i) : i <= j}
      keys == Ascending(first)
      group(S) == SortedByOrder(Picked(fields, S), overrides)
  IN  group(top) \o Concatenated([n \in DOMAIN keys |-> group(block(keys[n]))])

-----------------------------------------------------------------------------
(* SchemaService.Get, for a fragment or a page.                            *)

(* Mutant: all users share an entry.                                       *)
OneForAll(session) == anonymousCacheUser

cacheUserKey(session) == UserOf[session]

(* Mutant: a hit keeps an entry alive.                                     *)
HitTouches(key) == cache' = [cache EXCEPT ![key].age = 0]

CacheHit(key) == UNCHANGED cache

Ask(a) ==
  /\ asks[a] = Quiet
  /\ \E session \in Sessions, kind \in AskedKinds :
       LET key == <<cacheUserKey(session), kind>>
           asked == [Quiet EXCEPT !.session = session, !.kind = kind]
           entry == cache[key]
       IN  \/ /\ entry # NoEntry /\ entry.age < schemaCacheTTL
              /\ asks' = [asks EXCEPT ![a] = [asked EXCEPT !.phase = "rendering", !.schema = entry.schema]]
              /\ CacheHit(key)
           \/ /\ entry = NoEntry \/ entry.age >= schemaCacheTTL
              /\ asks' = [asks EXCEPT ![a] = [asked EXCEPT !.phase = "getting"]]
              /\ UNCHANGED cache
  /\ shown' = NoForm /\ UNCHANGED <<defs, since>>

(* appDefToSchema: a definition without a kind is no schema.               *)
IsSchema(def) == defs[def] # NoContent /\ KindIn[def] # ""

Read(def) == [def |-> def, content |-> defs[def]]

Moves(a, phase, schema) ==
  /\ asks' = [asks EXCEPT ![a].phase = phase, ![a].schema = schema]
  /\ shown' = NoForm /\ UNCHANGED <<defs, since, cache>>

Replied(a) == asks' = [asks EXCEPT ![a] = Quiet]

(* The definition named as the kind is in lower case, of whatever kind.    *)
GetByName(a) ==
  LET def == toLowerKind[asks[a].kind] IN
  /\ asks[a].phase = "getting"
  /\ def \in Definitions /\ <<asks[a].session, def>> \in MayGet /\ IsSchema(def)
  /\ Moves(a, "caching", Read(def))

(* It is not there, not readable, or the call fails.                       *)
GetFails(a) == asks[a].phase = "getting" /\ Moves(a, "listing", NoSchema)

FindByKind(a) ==
  LET matches(d) == IsSchema(d) /\ KindIn[d] = asks[a].kind IN
  /\ asks[a].phase = "listing" /\ asks[a].session \in MayList
  /\ \E i \in DOMAIN DefOrder :
       /\ matches(DefOrder[i]) /\ \A j \in 1 .. i - 1 : ~matches(DefOrder[j])
       /\ Moves(a, "caching", Read(DefOrder[i]))

(* An error is answered and not cached.                                    *)
SchemaNotFound(a) ==
  /\ asks[a].phase = "listing" /\ Replied(a)
  /\ shown' = NoForm /\ UNCHANGED <<defs, since, cache>>

CacheSet(a) ==
  LET key == <<cacheUserKey(asks[a].session), asks[a].kind>> IN
  /\ asks[a].phase = "caching"
  /\ cache' = [cache EXCEPT ![key] = [schema |-> asks[a].schema, age |-> 0]]
  /\ asks' = [asks EXCEPT ![a].phase = "rendering"]
  /\ shown' = NoForm /\ UNCHANGED <<defs, since>>

resolveFormOverrides(overlay, kind) == OverridesByPath(GetOverridesForKind(overlay, kind))

Form(kind, overlay) ==
  LET overrides == resolveFormOverrides(overlay, kind)
  IN  [fields |-> GroupedFields(VisibleFields(overrides), overrides),
       kind |-> kind, overlay |-> overlay]

(* With the FormDefinitions of now; none when their list fails.            *)
RenderForm(a) ==
  /\ asks[a].phase = "rendering" /\ Replied(a)
  /\ \E overlay \in Overlays \cup {<<>>} : shown' = Form(asks[a].kind, overlay)
  /\ UNCHANGED <<defs, since, cache>>

(* The YAML of what the form holds: only the field types are needed.       *)
RenderYAML(a) ==
  /\ asks[a].phase = "rendering" /\ Replied(a)
  /\ shown' = NoForm /\ UNCHANGED <<defs, since, cache>>

-----------------------------------------------------------------------------
DefinitionChanges ==
  /\ \E d \in Definitions : \E content \in (Contents \cup {NoContent}) \ {defs[d]} :
       defs' = [defs EXCEPT ![d] = content] /\ since' = [since EXCEPT ![d] = 0]
  /\ shown' = NoForm /\ UNCHANGED <<cache, asks>>

Older(age, limit) == Min({age + 1, limit})

TimePasses ==
  /\ \A a \in Askers : asks[a].phase # "idle" => asks[a].age < MaxStall
  /\ since' = [d \in Definitions |-> Older(since[d], Longest)]
  /\ cache' = [k \in DOMAIN cache |->
                 IF cache[k].schema = NoSchema THEN NoEntry ELSE [cache[k] EXCEPT !.age = Older(@, schemaCacheTTL)]]
  /\ asks' = [a \in Askers |-> IF asks[a].phase = "idle" THEN Quiet ELSE [asks[a] EXCEPT !.age = @ + 1]]
  /\ shown' = NoForm /\ UNCHANGED defs

SchemasNext ==
  \/ DefinitionChanges \/ TimePasses
  \/ \E a \in Askers : \/ Ask(a) \/ GetByName(a) \/ GetFails(a) \/ FindByKind(a) \/ SchemaNotFound(a)
                       \/ CacheSet(a) \/ RenderForm(a) \/ RenderYAML(a)

SchemasSpec == SchemasInit /\ [][SchemasNext]_schemaVars

-----------------------------------------------------------------------------
(* Properties.                                                             *)

(* What a session is shown, from the cache or not, some session of its user*)
(* name could read (schema.go: a cache entry is never shared across names).*)
OnlyOwnSchemas ==
  \A a \in Askers : asks[a].phase = "rendering" =>
    \E s \in Sessions :
      /\ UserOf[s] = UserOf[asks[a].session]
      /\ <<s, asks[a].schema.def>> \in MayGet \/ s \in MayList

(* A schema in hand is the one in the cluster, or that one changed less    *)
(* than a time to live and a stall ago: however fetches overlap, and       *)
(* though the older answer may be cached last (schema.go).                 *)
SchemaIsFresh ==
  [][\A a \in Askers : asks[a].phase # "rendering" /\ asks'[a].phase = "rendering" =>
       LET got == asks'[a].schema IN
       got.content = defs[got.def] \/ since[got.def] < schemaCacheTTL + MaxStall]_schemaVars

(* A form has each field of the schema once, but those that the last entry *)
(* for them or for their block hides, in the last FormDefinition of the    *)
(* kind by name that has one; the top level comes first, then the blocks by*)
(* name, and within each the fields with a number, by their numbers, before*)
(* the others by name (formdefinition.go, "last write wins").              *)
LastEntry(form, path) ==
  LET entry(at) == form.overlay[at[1]].fields[at[2]]
      all == {at \in Places([d \in DOMAIN form.overlay |-> form.overlay[d].fields]) :
                form.overlay[at[1]].kind = form.kind /\ entry(at).path = path}
  IN  {entry(at) : at \in {at \in all : \A other \in all :
                              other[1] < at[1] \/ (other[1] = at[1] /\ other[2] <= at[2])}}

FormFollowsOverlay ==
  LET hides(path) == \E entry \in LastEntry(shown, path) : entry.hidden
      number(path) == UNION {entry.order : entry \in LastEntry(shown, path)}
      place(path) == CHOOSE i \in DOMAIN SchemaFields : SchemaFields[i] = path
      precedes(p, q) == \* p may come before q
        IF Len(p) # Len(q) THEN Len(p) < Len(q)
        ELSE IF (Len(p) > 1 /\ p[1] # q[1]) \/ number(p) = number(q) THEN place(p) < place(q)
        ELSE number(q) = {} \/ \E m \in number(p), n \in number(q) : m < n
  IN shown # NoForm =>
       /\ Range(shown.fields) = {p \in Range(SchemaFields) : \A n \in DOMAIN p : ~hides(SubSeq(p, 1, n))}
       /\ \A i, j \in DOMAIN shown.fields : i < j => precedes(shown.fields[i], shown.fields[j])
=============================================================================
