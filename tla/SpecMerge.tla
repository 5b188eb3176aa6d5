----------------------------- MODULE SpecMerge -----------------------------
(***************************************************************************)
(* How a form or a YAML document becomes the next spec of an object:       *)
(* internal/k8s/merge.go and the form helpers of internal/handler/crud.go. *)
(*                                                                         *)
(* A spec maps keys to values, a value is a scalar (an array is one too:   *)
(* nothing looks into it) or a map of keys to scalars.  Two levels are all *)
(* the form renders (maxFieldTypeDepth), and the merge treats every level  *)
(* alike.                                                                  *)
(***************************************************************************)
EXTENDS Sequences, SequencesExt

CONSTANTS Keys,     \* the keys of a spec and of its maps
          Scalars,  \* everything that is not a map
          Blank     \* a form field left or made empty

Maps  == UNION {[ks -> Scalars] : ks \in SUBSET Keys}
Paths == {<<k>> : k \in Keys} \cup (Keys \X Keys)
Empty == [k \in {} |-> Blank]

ASSUME SpecAssumption == Scalars \cap Maps = {} /\ Blank \notin Scalars \cup Maps

IsSpec(spec) ==
  /\ DOMAIN spec \subseteq Keys
  /\ spec \in [DOMAIN spec -> Scalars \cup Maps]

IsMap(value) == value \notin Scalars

(* One level of deepMergeSpec: incoming wins key by key, but where both    *)
(* have a map the two are joined.                                          *)
Overlay(base, incoming, Join(_, _)) ==
  [k \in DOMAIN base \cup DOMAIN incoming |->
     IF k \notin DOMAIN incoming THEN base[k]
     ELSE IF k \in DOMAIN base /\ IsMap(base[k]) /\ IsMap(incoming[k])
          THEN Join(base[k], incoming[k])
          ELSE incoming[k]]

Replaced(base, incoming) == incoming

Flat(base, incoming) == Overlay(base, incoming, Replaced)

ShallowMerge(base, incoming) == Flat(base, incoming)

DeepMerge(base, incoming) == Overlay(base, incoming, Flat)

PickNextSpec(existing, incoming, replace) ==
  IF replace THEN incoming ELSE DeepMerge(existing, incoming)

(* setNestedSpec: an intermediate key that holds a scalar keeps it, and    *)
(* the field is dropped; a last key is overwritten whatever it holds.      *)
SetNested(spec, path, value) ==
  LET key   == path[1]
      child == IF key \in DOMAIN spec THEN spec[key] ELSE Empty
  IN  IF Len(path) = 1
      THEN Flat(spec, [k \in {key} |-> value])
      ELSE IF IsMap(child)
           THEN Flat(spec, [k \in {key} |-> Flat(child, [j \in {path[2]} |-> value])])
           ELSE spec

KeepsBlanks(form, order) ==
  FoldLeft(LAMBDA spec, path : SetNested(spec, path, form[path]), Empty, order)

(* extractSpecFromForm: the fields in the order the runtime ranges over    *)
(* req.Form; an empty field is as good as none.                            *)
ExtractSpec(form, order) ==
  LET built[i \in 0 .. Len(order)] ==
        IF i = 0 THEN Empty
        ELSE IF form[order[i]] = Blank THEN built[i - 1]
             ELSE SetNested(built[i - 1], order[i], form[order[i]])
  IN  built[Len(order)]

Orders(fields) == {order \in [1 .. Cardinality(fields) -> fields] : IsInjective(order)}

(* Only the leaves of a schema are rendered: with one field inside another,*)
(* what is built would depend on the order.                                *)
NoneInside(fields) == \A p, q \in fields : Len(p) < Len(q) => p[1] # q[1]

(* What a spec holds at a path: a value, or Blank for nothing.             *)
At(spec, path) ==
  IF path[1] \notin DOMAIN spec THEN Blank
  ELSE IF Len(path) = 1 THEN spec[path[1]]
  ELSE IF IsMap(spec[path[1]]) /\ path[2] \in DOMAIN spec[path[1]]
       THEN spec[path[1]][path[2]]
       ELSE Blank

(* What a document sets, and to what: its scalars and its empty maps, as a *)
(* map of the document is joined with the object's.                        *)
Tips(spec) ==
  [p \in {q \in Paths : At(spec, q) \in Scalars \cup {Empty}} |-> At(spec, p)]
=============================================================================
