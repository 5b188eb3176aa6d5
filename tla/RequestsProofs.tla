--------------------------- MODULE RequestsProofs ---------------------------
(***************************************************************************)
(* The requests about applications, tenants, schemas and secrets, for      *)
(* every number of users, of objects and of writes by others.              *)
(***************************************************************************)
EXTENDS Requests, ListsProofs

-----------------------------------------------------------------------------
(* Specs, the values in them, and the paths of those values.               *)
LEMMA PathIs ==
  ASSUME NEW p \in Paths
  PROVE  \/ \E k \in Keys : p = <<k>> /\ Len(p) = 1 /\ p[1] = k
         \/ \E k, j \in Keys : p = <<k, j>> /\ Len(p) = 2 /\ p[1] = k /\ p[2] = j
  BY DEF Paths

LEMMA PathsAbove ==
  ASSUME NEW k, NEW j
  PROVE  IsPrefix(<<k>>, <<k>>) /\ IsPrefix(<<k>>, <<k, j>>) /\ IsPrefix(<<k, j>>, <<k, j>>)
  <1>1. Len(<<k>>) = 1 /\ Len(<<k, j>>) = 2 /\ <<k>> \in Seq({k, j}) /\ <<k, j>> \in Seq({k, j})
    OBVIOUS
  <1>2. SubSeq(<<k>>, 1, 1) = SubSeq(<<k, j>>, 1, 1)
    BY <1>1
  <1>. QED  BY <1>1, <1>2 DEF IsPrefix

LEMMA MapsAre ==
  /\ \A value \in Scalars \cup Maps : IsMap(value) <=> value \in Maps
  /\ \A value \in Maps : /\ DOMAIN value \subseteq Keys
                         /\ value = [k \in DOMAIN value |-> value[k]]
                         /\ \A k \in DOMAIN value : value[k] \in Scalars
  /\ \A value : DOMAIN value \subseteq Keys /\ value \in [DOMAIN value -> Scalars] => value \in Maps
  /\ Empty \in Maps /\ DOMAIN Empty = {}
  /\ \A value \in Maps : DOMAIN value = {} => value = Empty
  /\ Blank \notin Scalars /\ Blank \notin Maps
  <1>1. \A value \in Scalars \cup Maps : IsMap(value) <=> value \in Maps
    BY SpecAssumption DEF IsMap
  <1>2. \A value \in Maps : /\ DOMAIN value \subseteq Keys
                            /\ value = [k \in DOMAIN value |-> value[k]]
                            /\ \A k \in DOMAIN value : value[k] \in Scalars
    BY DEF Maps
  <1>3. \A value : DOMAIN value \subseteq Keys /\ value \in [DOMAIN value -> Scalars] => value \in Maps
    BY DEF Maps
  <1>4. DOMAIN Empty = {} /\ Empty = [k \in {} |-> Empty[k]]
    BY DEF Empty
  <1>5. Empty \in [{} -> Scalars]
    BY DEF Empty
  <1>6. Empty \in Maps
    BY <1>3, <1>4, <1>5
  <1>7. \A value \in Maps : DOMAIN value = {} => value = Empty
    BY <1>2, <1>4
  <1>. QED  BY <1>1, <1>2, <1>3, <1>4, <1>6, <1>7, SpecAssumption

LEMMA SpecIs ==
  ASSUME NEW spec
  PROVE  IsSpec(spec) <=> /\ DOMAIN spec \subseteq Keys
                          /\ spec = [k \in DOMAIN spec |-> spec[k]]
                          /\ \A k \in DOMAIN spec : spec[k] \in Scalars \cup Maps
  BY DEF IsSpec

LEMMA FlatIs ==
  ASSUME NEW base, NEW incoming
  PROVE  Flat(base, incoming) = [k \in DOMAIN base \cup DOMAIN incoming |->
                                   IF k \in DOMAIN incoming THEN incoming[k] ELSE base[k]]
  BY DEF Flat, Overlay, Replaced

LEMMA DeepIs ==
  ASSUME NEW base, NEW incoming
  PROVE  DeepMerge(base, incoming) = [k \in DOMAIN base \cup DOMAIN incoming |->
           IF k \notin DOMAIN incoming THEN base[k]
           ELSE IF k \in DOMAIN base /\ IsMap(base[k]) /\ IsMap(incoming[k])
                THEN Flat(base[k], incoming[k])
                ELSE incoming[k]]
  BY DEF DeepMerge, Overlay

LEMMA JoinIsMap ==
  ASSUME NEW base \in Maps, NEW incoming \in Maps
  PROVE  Flat(base, incoming) \in Maps
  <1>1. PICK new : new = Flat(base, incoming)
    OBVIOUS
  <1>2. DOMAIN new = DOMAIN base \cup DOMAIN incoming /\ new \in [DOMAIN new -> Scalars]
    BY <1>1, FlatIs, MapsAre
  <1>. QED  BY <1>1, <1>2, MapsAre

(* The merge of two specs is one.                                          *)
LEMMA MergeIsSpec ==
  ASSUME NEW base, NEW incoming, IsSpec(base), IsSpec(incoming)
  PROVE  IsSpec(DeepMerge(base, incoming))
  <1>1. PICK new : new = DeepMerge(base, incoming)
    OBVIOUS
  <1>2. DOMAIN new = DOMAIN base \cup DOMAIN incoming /\ new = [k \in DOMAIN new |-> new[k]]
    BY <1>1, DeepIs
  <1>3. ASSUME NEW k \in DOMAIN new PROVE new[k] \in Scalars \cup Maps
    <2>1. CASE k \notin DOMAIN incoming
      BY <1>1, <1>2, <1>3, <2>1, DeepIs, SpecIs
    <2>2. CASE k \in DOMAIN incoming /\ k \in DOMAIN base /\ IsMap(base[k]) /\ IsMap(incoming[k])
      <3>1. new[k] = Flat(base[k], incoming[k])
        BY <1>1, <1>2, <2>2, DeepIs
      <3>2. base[k] \in Maps /\ incoming[k] \in Maps
        BY <2>2, SpecIs, MapsAre
      <3>. QED  BY <3>1, <3>2, JoinIsMap
    <2>3. CASE k \in DOMAIN incoming /\ ~(k \in DOMAIN base /\ IsMap(base[k]) /\ IsMap(incoming[k]))
      BY <1>1, <1>2, <2>3, DeepIs, SpecIs
    <2>. QED  BY <2>1, <2>2, <2>3
  <1>. QED  BY <1>1, <1>2, <1>3, SpecIs

LEMMA FlatAgain ==
  ASSUME NEW base, NEW incoming
  PROVE  Flat(Flat(base, incoming), incoming) = Flat(base, incoming)
  <1>1. PICK new : new = Flat(base, incoming)
    OBVIOUS
  <1>2. DOMAIN new = DOMAIN base \cup DOMAIN incoming
        /\ new = [k \in DOMAIN new |-> new[k]]
        /\ \A k \in DOMAIN incoming : new[k] = incoming[k]
    BY <1>1, FlatIs
  <1>3. PICK again : again = Flat(new, incoming)
    OBVIOUS
  <1>4. again = [k \in DOMAIN new \cup DOMAIN incoming |->
                   IF k \in DOMAIN incoming THEN incoming[k] ELSE new[k]]
    BY <1>3, FlatIs
  <1>5. again = [k \in DOMAIN new |-> new[k]]
    BY <1>2, <1>4
  <1>. QED  BY <1>1, <1>2, <1>3, <1>5

(* A save that is sent again changes nothing more: what a merge or a       *)
(* replacement leaves is what it leaves again of that (merge.go).          *)
THEOREM SavedTwiceAsOnce ==
  ASSUME NEW existing, NEW incoming, IsSpec(existing), IsSpec(incoming), NEW replace \in BOOLEAN,
         NEW saved, saved = PickNextSpec(existing, incoming, replace)
  PROVE  PickNextSpec(saved, incoming, replace) = saved
  <1>1. CASE replace
    BY <1>1 DEF PickNextSpec
  <1>2. CASE ~replace
    <2>1. saved = DeepMerge(existing, incoming)
      BY <1>2 DEF PickNextSpec
    <2>2. IsSpec(saved) /\ saved = [k \in DOMAIN saved |-> saved[k]]
          /\ DOMAIN saved = DOMAIN existing \cup DOMAIN incoming
      <3>1. IsSpec(saved)
        BY <2>1, MergeIsSpec
      <3>2. DOMAIN saved = DOMAIN existing \cup DOMAIN incoming
        BY <2>1, DeepIs
      <3>3. saved = [k \in DOMAIN saved |-> saved[k]]
        BY <3>1, SpecIs
      <3>. QED  BY <3>1, <3>2, <3>3
    <2>3. PICK again : again = DeepMerge(saved, incoming)
      OBVIOUS
    <2>4. DOMAIN again = DOMAIN saved /\ again = [k \in DOMAIN saved |-> again[k]]
      BY <2>2, <2>3, DeepIs
    <2>5. ASSUME NEW k \in DOMAIN saved PROVE again[k] = saved[k]
      <3>1. CASE k \notin DOMAIN incoming
        BY <2>2, <2>3, <2>5, <3>1, DeepIs
      <3>2. CASE k \in DOMAIN incoming /\ ~IsMap(incoming[k])
        BY <2>1, <2>2, <2>3, <2>5, <3>2, DeepIs
      <3>3. CASE k \in DOMAIN incoming /\ IsMap(incoming[k])
        <4>1. CASE k \in DOMAIN existing /\ IsMap(existing[k])
          <5>1. saved[k] = Flat(existing[k], incoming[k])
            BY <2>1, <2>2, <3>3, <4>1, DeepIs
          <5>2. IsMap(saved[k])
            <6>1. existing[k] \in Maps /\ incoming[k] \in Maps
              BY <3>3, <4>1, SpecIs, MapsAre
            <6>2. saved[k] \in Maps
              BY <5>1, <6>1, JoinIsMap
            <6>. QED  BY <6>2, MapsAre
          <5>3. again[k] = Flat(saved[k], incoming[k])
            BY <2>2, <2>3, <2>5, <3>3, <5>2, DeepIs
          <5>. QED  BY <5>1, <5>3, FlatAgain
        <4>2. CASE ~(k \in DOMAIN existing /\ IsMap(existing[k]))
          <5>1. saved[k] = incoming[k]
            BY <2>1, <2>2, <3>3, <4>2, <2>5, DeepIs
          <5>2. IsMap(saved[k])
            BY <3>3, <5>1
          <5>3. again[k] = Flat(incoming[k], incoming[k])
            BY <2>2, <2>3, <2>5, <3>3, <5>1, <5>2, DeepIs
          <5>4. PICK map \in Maps : map = incoming[k]
            BY <3>3, SpecIs, MapsAre
          <5>5. Flat(map, map) = [j \in DOMAIN map |-> map[j]]
            BY FlatIs
          <5>6. map = [j \in DOMAIN map |-> map[j]]
            BY MapsAre
          <5>. QED  BY <5>1, <5>3, <5>4, <5>5, <5>6
        <4>. QED  BY <4>1, <4>2
      <3>. QED  BY <3>1, <3>2, <3>3
    <2>6. again = saved
      BY <2>2, <2>4, <2>5
    <2>. QED  BY <1>2, <2>3, <2>6 DEF PickNextSpec
  <1>. QED  BY <1>1, <1>2
-----------------------------------------------------------------------------
(* What is submitted: a spec, that sets the given fields and nothing else. *)
Submits(incoming, fields) ==
  /\ IsSpec(incoming)
  /\ DOMAIN fields \subseteq Paths
  /\ \A p \in DOMAIN fields : fields[p] \in Scalars \cup {Empty} /\ At(incoming, p) = fields[p]
  /\ \A k \in DOMAIN incoming :
       \/ <<k>> \in DOMAIN fields
       \/ /\ incoming[k] \in Maps /\ DOMAIN incoming[k] # {}
          /\ \A j \in DOMAIN incoming[k] : <<k, j>> \in DOMAIN fields

(* A path no field is equal to, above or below.                            *)
Apart(fields, path) == \A f \in fields : ~IsPrefix(f, path) /\ ~IsPrefix(path, f)

LEMMA AtKey == ASSUME NEW spec, NEW k
  PROVE  At(spec, <<k>>) = IF k \in DOMAIN spec THEN spec[k] ELSE Blank
  <1>1. Len(<<k>>) = 1 /\ <<k>>[1] = k
    OBVIOUS
  <1>. QED  BY <1>1 DEF At

LEMMA AtInside == ASSUME NEW spec, NEW k, NEW j
  PROVE  At(spec, <<k, j>>) = IF k \in DOMAIN spec /\ IsMap(spec[k]) /\ j \in DOMAIN spec[k]
                              THEN spec[k][j] ELSE Blank
  <1>1. Len(<<k, j>>) = 2 /\ <<k, j>>[1] = k /\ <<k, j>>[2] = j
    OBVIOUS
  <1>. QED  BY <1>1 DEF At

(* What is not touched stays: at a key nothing is set, and inside a map    *)
(* that is joined or kept.                                                 *)
LEMMA MergeKeeps ==
  ASSUME NEW base, IsSpec(base), NEW incoming, NEW fields, Submits(incoming, fields),
         NEW p \in Paths, Apart(DOMAIN fields, p)
  PROVE  At(DeepMerge(base, incoming), p) = At(base, p)
  <1>1. PICK new : new = DeepMerge(base, incoming)
    OBVIOUS
  <1>2. DOMAIN new = DOMAIN base \cup DOMAIN incoming
    BY <1>1, DeepIs
  <1>3. CASE \E k \in Keys : p = <<k>>
    <2>1. PICK k \in Keys : p = <<k>>
      BY <1>3
    <2>2. \A j : <<k>> \notin DOMAIN fields /\ <<k, j>> \notin DOMAIN fields
      BY <2>1, PathsAbove DEF Apart
    <2>3. k \notin DOMAIN incoming
      <3>1. SUFFICES ASSUME k \in DOMAIN incoming PROVE FALSE
        OBVIOUS
      <3>2. DOMAIN incoming[k] # {} /\ \A j \in DOMAIN incoming[k] : <<k, j>> \in DOMAIN fields
        BY <2>2, <3>1 DEF Submits
      <3>. QED  BY <2>2, <3>2
    <2>4. k \in DOMAIN base => new[k] = base[k]
      BY <1>1, <2>3, DeepIs
    <2>. QED  BY <1>1, <1>2, <2>1, <2>3, <2>4, AtKey
  <1>4. CASE \E k, j \in Keys : p = <<k, j>>
    <2>1. PICK k \in Keys, j \in Keys : p = <<k, j>>
      BY <1>4
    <2>2. <<k>> \notin DOMAIN fields /\ <<k, j>> \notin DOMAIN fields
      BY <2>1, PathsAbove DEF Apart
    <2>3. k \in DOMAIN incoming => incoming[k] \in Maps /\ j \notin DOMAIN incoming[k] /\ IsMap(incoming[k])
      BY <2>2, MapsAre DEF Submits
    <2>4. CASE k \notin DOMAIN incoming
      <3>1. k \in DOMAIN base => new[k] = base[k]
        BY <1>1, <2>4, DeepIs
      <3>. QED  BY <1>1, <1>2, <2>1, <2>4, <3>1, AtInside
    <2>5. CASE k \in DOMAIN incoming /\ ~(k \in DOMAIN base /\ IsMap(base[k]))
      <3>1. new[k] = incoming[k]
        BY <1>1, <2>5, DeepIs
      <3>. QED  BY <1>1, <1>2, <2>1, <2>3, <2>5, <3>1, AtInside
    <2>6. CASE k \in DOMAIN incoming /\ k \in DOMAIN base /\ IsMap(base[k])
      <3>1. new[k] = Flat(base[k], incoming[k])
        BY <1>1, <2>3, <2>6, DeepIs
      <3>2. base[k] \in Maps
        BY <2>6, SpecIs, MapsAre
      <3>3. IsMap(new[k])
        BY <2>3, <2>6, <3>1, <3>2, JoinIsMap, MapsAre
      <3>4. j \in DOMAIN new[k] <=> j \in DOMAIN base[k]
        BY <2>3, <2>6, <3>1, FlatIs
      <3>5. j \in DOMAIN base[k] => new[k][j] = base[k][j]
        BY <2>3, <2>6, <3>1, FlatIs
      <3>. QED  BY <1>1, <1>2, <2>1, <2>6, <3>3, <3>4, <3>5, AtInside
    <2>. QED  BY <2>4, <2>5, <2>6
  <1>. QED  BY <1>3, <1>4, PathIs

(* What is submitted arrives: a scalar as it is, an empty map as some map. *)
LEMMA MergeSets ==
  ASSUME NEW base, IsSpec(base), NEW incoming, NEW fields, Submits(incoming, fields),
         NEW p \in DOMAIN fields
  PROVE  IF fields[p] \in Scalars THEN At(DeepMerge(base, incoming), p) = fields[p]
                                  ELSE At(DeepMerge(base, incoming), p) \in Maps
  <1>1. PICK new : new = DeepMerge(base, incoming)
    OBVIOUS
  <1>2. DOMAIN new = DOMAIN base \cup DOMAIN incoming
    BY <1>1, DeepIs
  <1>3. p \in Paths /\ At(incoming, p) = fields[p] /\ fields[p] \in Scalars \cup {Empty} /\ IsSpec(incoming)
    BY DEF Submits
  <1>4. At(incoming, p) # Blank
    BY <1>3, MapsAre
  <1>5. CASE \E k \in Keys : p = <<k>>
    <2>1. PICK k \in Keys : p = <<k>>
      BY <1>5
    <2>2. k \in DOMAIN incoming /\ incoming[k] = fields[p]
      BY <1>3, <1>4, <2>1, AtKey
    <2>3. At(new, p) = new[k]
      BY <1>2, <2>1, <2>2, AtKey
    <2>4. CASE k \in DOMAIN base /\ IsMap(base[k]) /\ IsMap(incoming[k])
      <3>1. new[k] = Flat(base[k], incoming[k])
        BY <1>1, <2>2, <2>4, DeepIs
      <3>2. base[k] \in Scalars \cup Maps /\ incoming[k] \in Scalars \cup Maps
        BY <1>3, <2>2, <2>4, SpecIs
      <3>3. base[k] \in Maps /\ incoming[k] \in Maps
        BY <2>4, <3>2, MapsAre
      <3>4. fields[p] \notin Scalars
        BY <2>2, <2>4 DEF IsMap
      <3>5. At(new, p) \in Maps
        BY <2>3, <3>1, <3>3, JoinIsMap
      <3>. QED  BY <1>1, <3>4, <3>5
    <2>5. CASE ~(k \in DOMAIN base /\ IsMap(base[k]) /\ IsMap(incoming[k]))
      <3>1. new[k] = incoming[k]
        BY <1>1, <2>2, <2>5, DeepIs
      <3>. QED  BY <1>1, <1>3, <2>2, <2>3, <3>1, MapsAre
    <2>. QED  BY <2>4, <2>5
  <1>6. CASE \E k, j \in Keys : p = <<k, j>>
    <2>1. PICK k \in Keys, j \in Keys : p = <<k, j>>
      BY <1>6
    <2>2. k \in DOMAIN incoming /\ IsMap(incoming[k]) /\ j \in DOMAIN incoming[k] /\ incoming[k][j] = fields[p]
      BY <1>3, <1>4, <2>1, AtInside
    <2>3. incoming[k] \in Maps /\ fields[p] \in Scalars
      BY <1>3, <2>2, SpecIs, MapsAre
    <2>4. CASE k \in DOMAIN base /\ IsMap(base[k])
      <3>1. new[k] = Flat(base[k], incoming[k])
        BY <1>1, <2>2, <2>4, DeepIs
      <3>2. base[k] \in Maps
        BY <2>4, SpecIs, MapsAre
      <3>3. IsMap(new[k]) /\ j \in DOMAIN new[k] /\ new[k][j] = fields[p]
        BY <2>2, <2>3, <3>1, <3>2, JoinIsMap, MapsAre, FlatIs
      <3>. QED  BY <1>1, <1>2, <2>1, <2>2, <2>3, <3>3, AtInside
    <2>5. CASE ~(k \in DOMAIN base /\ IsMap(base[k]))
      <3>1. new[k] = incoming[k]
        BY <1>1, <2>2, <2>5, DeepIs
      <3>. QED  BY <1>1, <1>2, <2>1, <2>2, <2>3, <3>1, AtInside
    <2>. QED  BY <2>4, <2>5
  <1>. QED  BY <1>3, <1>5, <1>6, PathIs

(* An update by the JSON API sets what its document sets.                  *)
LEMMA TipsSubmitted ==
  ASSUME NEW spec, IsSpec(spec)
  PROVE  Submits(spec, Tips(spec))
  <1>1. PICK fields : fields = Tips(spec)
    OBVIOUS
  <1>2. /\ DOMAIN fields = {p \in Paths : At(spec, p) \in Scalars \cup {Empty}}
        /\ \A p \in DOMAIN fields : fields[p] = At(spec, p)
    BY <1>1 DEF Tips
  <1>3. ASSUME NEW k \in DOMAIN spec
        PROVE  \/ <<k>> \in DOMAIN fields
               \/ /\ spec[k] \in Maps /\ DOMAIN spec[k] # {}
                  /\ \A j \in DOMAIN spec[k] : <<k, j>> \in DOMAIN fields
    <2>1. k \in Keys /\ spec[k] \in Scalars \cup Maps /\ <<k>> \in Paths
      BY <1>3, SpecIs DEF Paths
    <2>2. CASE spec[k] \in Scalars \/ spec[k] = Empty
      BY <1>2, <1>3, <2>1, <2>2, AtKey
    <2>3. CASE spec[k] \in Maps /\ spec[k] # Empty
      <3>1. DOMAIN spec[k] # {} /\ DOMAIN spec[k] \subseteq Keys /\ IsMap(spec[k])
        BY <2>3, MapsAre
      <3>2. ASSUME NEW j \in DOMAIN spec[k] PROVE <<k, j>> \in DOMAIN fields
        <4>1. <<k, j>> \in Paths
          BY <2>1, <3>1, <3>2 DEF Paths
        <4>2. At(spec, <<k, j>>) \in Scalars
          BY <1>3, <2>3, <3>1, <3>2, AtInside, MapsAre
        <4>. QED  BY <1>2, <4>1, <4>2
      <3>. QED  BY <2>3, <3>1, <3>2
    <2>. QED  BY <2>1, <2>2, <2>3
  <1>. QED  BY <1>1, <1>2, <1>3 DEF Submits
-----------------------------------------------------------------------------
(* A form: what has been built after its first fields, one by one.         *)
Grown(form, order, before, i) ==
  IF form[order[i]] = Blank THEN before ELSE SetNested(before, order[i], form[order[i]])

IsBuilt(form, order, n, built) ==
  built = [i \in 0 .. n |-> IF i = 0 THEN Empty ELSE Grown(form, order, built[i - 1], i)]

LEMMA BuiltExists ==
  ASSUME NEW form, NEW order, NEW n \in Nat
  PROVE  \E built : IsBuilt(form, order, n, built)
  <1>. DEFINE Bad == {m \in Nat : \A b : ~IsBuilt(form, order, m, b)}
  <1>1. SUFFICES Bad = {}
    OBVIOUS
  <1>2. SUFFICES ASSUME Bad # {} PROVE FALSE
    OBVIOUS
  <1>3. PICK m \in Bad : \A k \in Bad : m <= k
    BY <1>2, LeastOf
  <1>4. m \in Nat /\ \A b : ~IsBuilt(form, order, m, b)
    BY <1>3
  <1>5. CASE m = 0
    <2>1. PICK b : b = [i \in 0 .. 0 |-> Empty]
      OBVIOUS
    <2>2. IsBuilt(form, order, 0, b)
      <3>1. \A i \in 0 .. 0 : i = 0
        OBVIOUS
      <3>. QED  BY <2>1, <3>1 DEF IsBuilt
    <2>. QED  BY <1>4, <1>5, <2>2
  <1>6. CASE m # 0
    <2>1. m - 1 \in Nat /\ ~(m <= m - 1)
      BY <1>4, <1>6
    <2>2. PICK b : IsBuilt(form, order, m - 1, b)
      <3>1. m - 1 \notin Bad
        BY ONLY <1>3, <2>1
      <3>. QED  BY <2>1, <3>1
    <2>3. \A i \in 0 .. m - 1 : b[i] = IF i = 0 THEN Empty ELSE Grown(form, order, b[i - 1], i)
      BY <2>2 DEF IsBuilt
    <2>4. PICK c : c = [i \in 0 .. m |-> IF i < m THEN b[i] ELSE Grown(form, order, b[m - 1], m)]
      OBVIOUS
    <2>5. (\A i \in 0 .. m - 1 : c[i] = b[i]) /\ c[m] = Grown(form, order, b[m - 1], m) /\ DOMAIN c = 0 .. m
      BY <1>4, <2>4
    <2>6. ASSUME NEW i \in 0 .. m PROVE c[i] = IF i = 0 THEN Empty ELSE Grown(form, order, c[i - 1], i)
      <3>1. CASE i = m
        <4>1. c[m - 1] = b[m - 1]
          BY <1>4, <1>6, <2>5
        <4>. QED  BY <1>4, <1>6, <2>5, <3>1, <4>1
      <3>2. CASE i = 0
        BY <1>4, <1>6, <2>3, <2>5, <3>2
      <3>3. CASE i # m /\ i # 0
        <4>1. i \in 0 .. m - 1 /\ i - 1 \in 0 .. m - 1
          BY <1>4, <3>3
        <4>2. c[i] = b[i] /\ c[i - 1] = b[i - 1]
          BY <2>5, <4>1
        <4>. QED  BY <2>3, <3>3, <4>1, <4>2
      <3>. QED  BY <3>1, <3>2, <3>3
    <2>7. IsBuilt(form, order, m, c)
      BY <2>4, <2>5, <2>6 DEF IsBuilt
    <2>. QED  BY <1>4, <2>7
  <1>. QED  BY <1>5, <1>6

LEMMA Extracts ==
  ASSUME NEW form, NEW order, Len(order) \in Nat
  PROVE  \E built : /\ built[0] = Empty
                    /\ \A i \in 1 .. Len(order) : built[i] = Grown(form, order, built[i - 1], i)
                    /\ ExtractSpec(form, order) = built[Len(order)]
  <1>. DEFINE Built(b) == b = [i \in 0 .. Len(order) |->
                                 IF i = 0 THEN Empty
                                 ELSE IF form[order[i]] = Blank THEN b[i - 1]
                                      ELSE SetNested(b[i - 1], order[i], form[order[i]])]
  <1>1. \E b : Built(b)
    <2>1. PICK n \in Nat : n = Len(order)
      OBVIOUS
    <2>2. PICK b : IsBuilt(form, order, n, b)
      BY BuiltExists
    <2>3. Built(b)
      BY <2>1, <2>2 DEF IsBuilt, Grown
    <2>. QED  BY <2>3
  <1>2. PICK built : built = CHOOSE b : Built(b)
    OBVIOUS
  <1>3. Built(built)
    BY <1>1, <1>2
  <1>4. ExtractSpec(form, order) = built[Len(order)]
    BY <1>2 DEF ExtractSpec
  <1>. HIDE DEF Built
  <1>5. built[0] = Empty /\ \A i \in 1 .. Len(order) : built[i] = Grown(form, order, built[i - 1], i)
    BY <1>3 DEF Built, Grown
  <1>. QED  BY <1>4, <1>5
(* Every order of the fields of a form has them all.                       *)
LEMMA OrdersAre ==
  ASSUME NEW fields, IsFiniteSet(fields)
  PROVE  /\ Orders(fields) # {}
         /\ \A order \in Orders(fields) :
              /\ Len(order) \in Nat
              /\ \A i \in 1 .. Len(order) : order[i] \in fields
              /\ \A p \in fields : \E i \in 1 .. Len(order) : order[i] = p
  <1>1. PICK n \in Nat : n = Cardinality(fields) /\ ExistsBijection(1 .. n, fields)
    BY FS_CardinalityType
  <1>2. PICK f : f \in Bijection(1 .. n, fields)
    BY <1>1 DEF ExistsBijection
  <1>3. f \in Orders(fields)
    BY <1>1, <1>2 DEF Orders, Bijection, Injection
  <1>4. ASSUME NEW order \in Orders(fields)
        PROVE  /\ Len(order) = n
               /\ \A i \in 1 .. n : order[i] \in fields
               /\ \A p \in fields : \E i \in 1 .. n : order[i] = p
    <2>1. order \in [1 .. n -> fields] /\ order \in Injection(1 .. n, fields)
      BY <1>1 DEF Orders, Injection
    <2>2. IsFiniteSet(1 .. n) /\ Cardinality(1 .. n) = n
      BY FS_Interval
    <2>3. order \in Surjection(1 .. n, fields)
      BY <1>1, <2>1, <2>2, FS_Injection
    <2>4. Len(order) = n
      BY <2>1
    <2>. QED  BY <2>1, <2>3, <2>4 DEF Surjection
  <1>. QED  BY <1>1, <1>3, <1>4

(* The keys of a map, of those paths.                                      *)
Inside(paths, k) == {j \in Keys : <<k, j>> \in paths}

(* A spec that holds the values of a form at these paths, and nothing else.*)
Holds(spec, paths, form) ==
  /\ DOMAIN spec = {p[1] : p \in paths}
  /\ spec = [k \in DOMAIN spec |-> spec[k]]
  /\ \A k \in Keys : <<k>> \in paths => spec[k] = form[<<k>>]
  /\ \A k, j \in Keys : <<k, j>> \in paths =>
       spec[k] = [i \in Inside(paths, k) |-> form[<<k, i>>]]

LEMMA HeldMap ==
  ASSUME NEW paths \in SUBSET Paths, NEW form, \A p \in paths : form[p] \in Scalars, NEW k \in Keys,
         NEW map, map = [i \in Inside(paths, k) |-> form[<<k, i>>]]
  PROVE  map \in Maps /\ IsMap(map)
  <1>1. DOMAIN map = Inside(paths, k) /\ \A i \in DOMAIN map : map[i] \in Scalars
    BY DEF Inside
  <1>2. DOMAIN map \subseteq Keys /\ map \in [DOMAIN map -> Scalars]
    BY <1>1 DEF Inside
  <1>. QED  BY <1>2, MapsAre

LEMMA HoldsOneMore ==
  ASSUME NEW fields \in SUBSET Paths, NoneInside(fields), NEW paths \in SUBSET fields, NEW q \in fields,
         NEW form, \A p \in paths \cup {q} : form[p] \in Scalars,
         NEW spec, Holds(spec, paths, form)
  PROVE  Holds(SetNested(spec, q, form[q]), paths \cup {q}, form)
  <1>1. PICK new : new = SetNested(spec, q, form[q])
    OBVIOUS
  <1>2. q \in Paths /\ paths \subseteq Paths
    OBVIOUS
  <1>3. CASE \E k \in Keys : q = <<k>>
    <2>1. PICK k \in Keys : q = <<k>> /\ Len(q) = 1 /\ q[1] = k
      BY <1>3
    <2>2. new = Flat(spec, [x \in {k} |-> form[q]])
      BY <1>1, <2>1 DEF SetNested
    <2>3. DOMAIN new = DOMAIN spec \cup {k} /\ new = [x \in DOMAIN new |-> new[x]]
          /\ new[k] = form[q] /\ \A x \in DOMAIN spec \ {k} : new[x] = spec[x]
      BY <2>2, FlatIs
    <2>4. DOMAIN new = {p[1] : p \in paths \cup {q}}
      BY <2>1, <2>3 DEF Holds
    <2>5. \A x \in Keys : <<x>> \in paths \cup {q} => new[x] = form[<<x>>]
      <3>1. ASSUME NEW x \in Keys, <<x>> \in paths, x # k PROVE new[x] = form[<<x>>]
        <4>1. x \in DOMAIN spec /\ spec[x] = form[<<x>>]
          BY <3>1 DEF Holds
        <4>. QED  BY <2>3, <3>1, <4>1
      <3>2. ASSUME NEW x \in Keys, <<x>> = q PROVE x = k
        BY <2>1, <3>2
      <3>. QED  BY <2>1, <2>3, <3>1, <3>2
    <2>6. ASSUME NEW x \in Keys, NEW j \in Keys, <<x, j>> \in paths \cup {q}
          PROVE  new[x] = [i \in Inside(paths \cup {q}, x) |-> form[<<x, i>>]]
      <3>1. <<x, j>> # q /\ <<x, j>> \in paths /\ Len(<<x, j>>) = 2 /\ <<x, j>>[1] = x
        BY <2>1, <2>6
      <3>2. x # k
        BY <2>1, <3>1 DEF NoneInside
      <3>3. Inside(paths \cup {q}, x) = Inside(paths, x)
        <4>1. \A i : <<x, i>> # q
          BY <2>1
        <4>. QED  BY <4>1 DEF Inside
      <3>4. x \in DOMAIN spec /\ spec[x] = [i \in Inside(paths, x) |-> form[<<x, i>>]]
        BY <3>1 DEF Holds
      <3>. QED  BY <2>3, <3>2, <3>3, <3>4
    <2>. QED  BY <1>1, <2>3, <2>4, <2>5, <2>6 DEF Holds
  <1>4. CASE \E k, l \in Keys : q = <<k, l>>
    <2>1. PICK k \in Keys, l \in Keys : q = <<k, l>> /\ Len(q) = 2 /\ q[1] = k /\ q[2] = l
      BY <1>4
    <2>2. PICK child : child = IF k \in DOMAIN spec THEN spec[k] ELSE Empty
      OBVIOUS
    <2>3. <<k>> \notin fields
      <3>1. Len(<<k>>) = 1 /\ <<k>>[1] = k
        OBVIOUS
      <3>. QED  BY <2>1, <3>1 DEF NoneInside
    <2>4. child = [i \in Inside(paths, k) |-> form[<<k, i>>]]
      <3>1. CASE k \in DOMAIN spec
        <4>1. PICK p \in paths : p[1] = k
          BY <3>1 DEF Holds
        <4>2. p \in Paths /\ p # <<k>>
          BY <1>2, <2>3
        <4>3. PICK j \in Keys : p = <<k, j>>
          BY <4>1, <4>2, PathIs
        <4>. QED  BY <2>2, <3>1, <4>3 DEF Holds
      <3>2. CASE k \notin DOMAIN spec
        <4>1. \A j \in Keys : <<k, j>> \notin paths
          <5>1. SUFFICES ASSUME NEW j \in Keys, <<k, j>> \in paths PROVE k \in DOMAIN spec
            BY <3>2
          <5>2. <<k, j>>[1] = k
            OBVIOUS
          <5>. QED  BY <5>1, <5>2 DEF Holds
        <4>2. Inside(paths, k) = {}
          BY <4>1 DEF Inside
        <4>. QED  BY <2>2, <3>2, <4>2 DEF Empty
      <3>. QED  BY <3>1, <3>2
    <2>5. IsMap(child)
      BY <1>2, <2>4, HeldMap
    <2>6. PICK joined : joined = Flat(child, [j \in {l} |-> form[q]])
      OBVIOUS
    <2>7. new = Flat(spec, [x \in {k} |-> joined])
      BY <1>1, <2>1, <2>2, <2>5, <2>6 DEF SetNested
    <2>8. DOMAIN new = DOMAIN spec \cup {k} /\ new = [x \in DOMAIN new |-> new[x]]
          /\ new[k] = joined /\ \A x \in DOMAIN spec \ {k} : new[x] = spec[x]
      BY <2>7, FlatIs
    <2>9. joined = [i \in Inside(paths \cup {q}, k) |-> form[<<k, i>>]]
      <3>1. Inside(paths \cup {q}, k) = Inside(paths, k) \cup {l}
        BY <2>1 DEF Inside
      <3>2. joined = [i \in Inside(paths, k) \cup {l} |-> IF i \in {l} THEN form[q] ELSE child[i]]
        BY <2>4, <2>6, FlatIs
      <3>3. \A i \in Inside(paths, k) \cup {l} : (IF i \in {l} THEN form[q] ELSE child[i]) = form[<<k, i>>]
        BY <2>1, <2>4
      <3>. QED  BY <3>1, <3>2, <3>3
    <2>10. DOMAIN new = {p[1] : p \in paths \cup {q}}
      BY <2>1, <2>8 DEF Holds
    <2>11. ASSUME NEW x \in Keys, <<x>> \in paths \cup {q} PROVE new[x] = form[<<x>>]
      <3>1. <<x>> \in paths /\ x # k
        BY <2>1, <2>3, <2>11
      <3>2. x \in DOMAIN spec /\ spec[x] = form[<<x>>]
        BY <3>1 DEF Holds
      <3>. QED  BY <2>8, <3>1, <3>2
    <2>12. ASSUME NEW x \in Keys, NEW j \in Keys, <<x, j>> \in paths \cup {q}
           PROVE  new[x] = [i \in Inside(paths \cup {q}, x) |-> form[<<x, i>>]]
      <3>1. CASE x = k
        BY <2>8, <2>9, <3>1
      <3>2. CASE x # k
        <4>1. <<x, j>> \in paths
          BY <2>1, <2>12, <3>2
        <4>2. Inside(paths \cup {q}, x) = Inside(paths, x)
          <5>1. \A i : <<x, i>> # q
            BY <2>1, <3>2
          <5>. QED  BY <5>1 DEF Inside
        <4>3. x \in DOMAIN spec /\ spec[x] = [i \in Inside(paths, x) |-> form[<<x, i>>]]
          BY <4>1 DEF Holds
        <4>. QED  BY <2>8, <3>2, <4>2, <4>3
      <3>. QED  BY <3>1, <3>2
    <2>. QED  BY <1>1, <2>8, <2>10, <2>11, <2>12 DEF Holds
  <1>. QED  BY <1>2, <1>3, <1>4, PathIs
LEMMA HoldsNothing == ASSUME NEW form PROVE Holds(Empty, {}, form)
  BY DEF Holds, Empty

LEMMA ExtractHolds ==
  ASSUME NEW fields \in SUBSET Paths, IsFiniteSet(fields), NoneInside(fields),
         NEW form, \A p \in fields : form[p] \in Scalars \cup {Blank}, NEW order \in Orders(fields)
  PROVE  Holds(ExtractSpec(form, order), {p \in fields : form[p] # Blank}, form)
  <1>1. PICK n \in Nat : n = Len(order)
    BY OrdersAre
  <1>2. /\ \A i \in 1 .. n : order[i] \in fields
        /\ \A p \in fields : \E i \in 1 .. n : order[i] = p
    BY <1>1, OrdersAre
  <1>3. PICK built : /\ built[0] = Empty
                     /\ \A i \in 1 .. n : built[i] = Grown(form, order, built[i - 1], i)
                     /\ ExtractSpec(form, order) = built[n]
    BY <1>1, Extracts
  <1>. DEFINE First(m) == {p \in fields : form[p] # Blank /\ \E i \in 1 .. m : order[i] = p}
              Bad == {m \in 0 .. n : ~Holds(built[m], First(m), form)}
  <1>4. Bad = {}
    <2>1. SUFFICES ASSUME Bad # {} PROVE FALSE
      OBVIOUS
    <2>2. Bad \in SUBSET Nat
      OBVIOUS
    <2>3. PICK m \in Bad : \A x \in Bad : m <= x
      BY <2>1, <2>2, LeastOf
    <2>4. m \in 0 .. n /\ ~Holds(built[m], First(m), form)
      BY <2>3
    <2>5. m # 0
      <3>1. First(0) = {}
        OBVIOUS
      <3>. QED  BY <1>3, <2>4, <3>1, HoldsNothing
    <2>6. m - 1 \in 0 .. n /\ m \in 1 .. n /\ ~(m <= m - 1)
      BY <2>4, <2>5
    <2>7. Holds(built[m - 1], First(m - 1), form)
      <3>1. m - 1 \notin Bad
        BY ONLY <2>3, <2>6
      <3>. QED  BY <2>6, <3>1
    <2>8. built[m] = Grown(form, order, built[m - 1], m) /\ order[m] \in fields
      BY <1>2, <1>3, <2>6
    <2>9. CASE form[order[m]] = Blank
      <3>1. First(m) = First(m - 1)
        <4>1. ASSUME NEW p \in First(m) PROVE p \in First(m - 1)
          <5>1. PICK i \in 1 .. m : order[i] = p
            OBVIOUS
          <5>2. i \in 1 .. m - 1
            BY <2>6, <2>9, <5>1
          <5>. QED  BY <5>1, <5>2
        <4>2. 1 .. m - 1 \subseteq 1 .. m
          BY <2>6
        <4>. QED  BY <4>1, <4>2
      <3>. QED  BY <2>4, <2>7, <2>8, <2>9, <3>1 DEF Grown
    <2>10. CASE form[order[m]] # Blank
      <3>1. First(m) = First(m - 1) \cup {order[m]}
        <4>1. ASSUME NEW p \in First(m), p # order[m] PROVE p \in First(m - 1)
          <5>1. PICK i \in 1 .. m : order[i] = p
            OBVIOUS
          <5>2. i \in 1 .. m - 1
            BY <2>6, <4>1, <5>1
          <5>. QED  BY <5>1, <5>2
        <4>2. 1 .. m - 1 \subseteq 1 .. m /\ m \in 1 .. m
          BY <2>6
        <4>. QED  BY <2>8, <2>10, <4>1, <4>2
      <3>2. First(m - 1) \in SUBSET fields /\ \A p \in First(m - 1) \cup {order[m]} : form[p] \in Scalars
        BY <2>8, <2>10
      <3>3. PICK before, paths, q : before = built[m - 1] /\ paths = First(m - 1) /\ q = order[m]
        OBVIOUS
      <3>4. Holds(SetNested(before, q, form[q]), paths \cup {q}, form)
        BY ONLY <2>7, <2>8, <3>2, <3>3, fields \in SUBSET Paths, NoneInside(fields), HoldsOneMore
      <3>. QED  BY <2>4, <2>8, <2>10, <3>1, <3>3, <3>4 DEF Grown
    <2>. QED  BY <2>9, <2>10
  <1>5. Holds(built[n], First(n), form)
    <2>1. n \in 0 .. n
      OBVIOUS
    <2>2. \A m \in 0 .. n : Holds(built[m], First(m), form)
      BY ONLY <1>4
    <2>. QED  BY ONLY <2>1, <2>2
  <1>6. First(n) = {p \in fields : form[p] # Blank}
    BY <1>2
  <1>. QED  BY <1>3, <1>5, <1>6

(* What a form is made into sets its fields, but the empty ones, in        *)
(* whatever order they are taken.                                          *)
LEMMA FormSubmits ==
  ASSUME NEW fields \in SUBSET Paths, IsFiniteSet(fields), NoneInside(fields),
         NEW form, \A p \in fields : form[p] \in Scalars \cup {Blank}, NEW order \in Orders(fields)
  PROVE  Submits(ExtractSpec(form, order), Restrict(form, {p \in fields : form[p] # Blank}))
  <1>1. PICK paths : paths = {p \in fields : form[p] # Blank}
    OBVIOUS
  <1>2. PICK spec : spec = ExtractSpec(form, order)
    OBVIOUS
  <1>3. PICK given : given = Restrict(form, paths)
    OBVIOUS
  <1>4. paths \in SUBSET Paths /\ \A p \in paths : form[p] \in Scalars
    BY <1>1
  <1>5. DOMAIN given = paths /\ \A p \in paths : given[p] = form[p]
    BY <1>3 DEF Restrict
  <1>6. Holds(spec, paths, form)
    BY <1>1, <1>2, ExtractHolds
  <1>7. ASSUME NEW k \in DOMAIN spec
        PROVE  /\ k \in Keys
               /\ \/ <<k>> \in paths /\ spec[k] \in Scalars
                  \/ /\ spec[k] \in Maps /\ DOMAIN spec[k] # {}
                     /\ \A j \in DOMAIN spec[k] : <<k, j>> \in paths
    <2>1. PICK p \in paths : p[1] = k
      BY <1>6, <1>7 DEF Holds
    <2>2. CASE \E x \in Keys : p = <<x>> /\ p[1] = x
      <3>1. k \in Keys /\ <<k>> \in paths
        BY <2>1, <2>2
      <3>. QED  BY <1>4, <1>6, <3>1 DEF Holds
    <2>3. CASE \E x, j \in Keys : p = <<x, j>> /\ p[1] = x
      <3>1. PICK j \in Keys : p = <<k, j>> /\ k \in Keys
        BY <2>1, <2>3
      <3>2. spec[k] = [i \in Inside(paths, k) |-> form[<<k, i>>]]
        BY <1>6, <2>1, <3>1 DEF Holds
      <3>3. j \in Inside(paths, k) /\ \A i \in Inside(paths, k) : <<k, i>> \in paths
        BY <2>1, <3>1 DEF Inside
      <3>. QED  BY <1>4, <3>1, <3>2, <3>3, HeldMap
    <2>. QED  BY <1>4, <2>2, <2>3, PathIs
  <1>8. IsSpec(spec)
    <2>1. spec = [k \in DOMAIN spec |-> spec[k]]
      BY <1>6 DEF Holds
    <2>. QED  BY <1>7, <2>1, SpecIs
  <1>9. ASSUME NEW p \in paths PROVE At(spec, p) = form[p]
    <2>1. CASE \E k \in Keys : p = <<k>> /\ p[1] = k
      <3>1. PICK k \in Keys : p = <<k>> /\ p[1] = k
        BY <2>1
      <3>2. k \in DOMAIN spec /\ spec[k] = form[p]
        BY <1>6, <3>1 DEF Holds
      <3>. QED  BY <3>1, <3>2, AtKey
    <2>2. CASE \E k, j \in Keys : p = <<k, j>> /\ p[1] = k
      <3>1. PICK k \in Keys, j \in Keys : p = <<k, j>> /\ p[1] = k
        BY <2>2
      <3>2. k \in DOMAIN spec /\ spec[k] = [i \in Inside(paths, k) |-> form[<<k, i>>]]
        BY <1>6, <3>1 DEF Holds
      <3>3. IsMap(spec[k])
        BY <1>4, <3>2, HeldMap
      <3>4. j \in DOMAIN spec[k] /\ spec[k][j] = form[p]
        BY <3>1, <3>2 DEF Inside
      <3>. QED  BY <3>1, <3>2, <3>3, <3>4, AtInside
    <2>. QED  BY <1>4, <2>1, <2>2, PathIs
  <1>10. Submits(spec, given)
    BY <1>4, <1>5, <1>7, <1>8, <1>9 DEF Submits
  <1>. QED  BY <1>1, <1>2, <1>3, <1>10

-----------------------------------------------------------------------------
(* Applications.  Every write has a version of its own.                    *)
ObjectsOK(objs, rev) ==
  /\ rev \in Nat
  /\ objs = [k \in Kinds |-> objs[k]]
  /\ \A k \in Kinds : objs[k] # Absent =>
       /\ objs[k] = [version |-> objs[k].version, spec |-> objs[k].spec]
       /\ objs[k].version \in Nat /\ objs[k].version <= rev
  /\ \A j, k \in Kinds :
       objs[j] # Absent /\ objs[k] # Absent /\ objs[j].version = objs[k].version => j = k

(* A form that pins a version shows the one object that has it; an update  *)
(* has read the one that has the version it is to send.                    *)
PinsWhatItShows(objs, rev, x) ==
  x.version # NoVersion =>
    /\ x.version \in Nat /\ x.version <= rev
    /\ \A k \in Kinds : objs[k] # Absent /\ objs[k].version = x.version =>
         k = x.kind /\ objs[k].spec = x.shown

SendsWhatItRead(objs, rev, x) ==
  x.phase = "writing" =>
    /\ x.target \in Kinds /\ x.sent \in Nat /\ x.sent <= rev
    /\ x.version # NoVersion => x.sent = x.version
    /\ objs[x.target] # Absent /\ objs[x.target].version = x.sent => objs[x.target].spec = x.base

AuditOK(x) ==
  x.phase = "done" /\ ~x.api =>
    /\ Len(x.audit) <= 1
    /\ x.wrote => x.audit = IF x.unheard THEN <<"error">> ELSE <<"success">>
    /\ ~x.wrote => x.audit # <<"success">>

IsEditor(x) ==
  /\ x = [phase |-> x.phase, kind |-> x.kind, shown |-> x.shown, version |-> x.version,
          incoming |-> x.incoming, replace |-> x.replace, fields |-> x.fields,
          target |-> x.target, base |-> x.base, sent |-> x.sent,
          api |-> x.api, audit |-> x.audit, opened |-> x.opened, wrote |-> x.wrote,
          unheard |-> x.unheard]
  /\ x.wrote \in BOOLEAN /\ (x.wrote => x.phase = "done")
  /\ x.phase = "deleting" => x.target \in Kinds

EditorOK(objs, rev, x) ==
  IsEditor(x) /\ PinsWhatItShows(objs, rev, x) /\ SendsWhatItRead(objs, rev, x) /\ AuditOK(x)

EditInv ==
  /\ ObjectsOK(objects, revision) /\ releases \subseteq Kinds
  /\ editors = [e \in Editors |-> editors[e]]
  /\ \A e \in Editors : EditorOK(objects, revision, editors[e])

(* A write of a new version, and a deletion, leave every form and every    *)
(* update right: at worst what they hold is of no object any more.         *)
LEMMA StoreKeeps ==
  ASSUME NEW objs, NEW rev, ObjectsOK(objs, rev), NEW k \in Kinds, NEW spec,
         NEW new, new = [objs EXCEPT ![k] = [version |-> rev + 1, spec |-> spec]]
  PROVE  /\ ObjectsOK(new, rev + 1)
         /\ \A x : EditorOK(objs, rev, x) => EditorOK(new, rev + 1, x)
  <1>1. new[k].version = rev + 1 /\ new[k].spec = spec /\ new[k] = [version |-> rev + 1, spec |-> spec]
        /\ \A j \in Kinds \ {k} : new[j] = objs[j]
    BY DEF ObjectsOK
  <1>2. rev \in Nat /\ rev + 1 \in Nat /\ rev <= rev + 1
    BY DEF ObjectsOK
  <1>3. \A j \in Kinds : objs[j] # Absent => objs[j].version # rev + 1
    BY <1>2 DEF ObjectsOK
  <1>4. ObjectsOK(new, rev + 1)
    <2>1. new = [j \in Kinds |-> new[j]]
      BY DEF ObjectsOK
    <2>2. ASSUME NEW j \in Kinds, new[j] # Absent
          PROVE  new[j] = [version |-> new[j].version, spec |-> new[j].spec]
                 /\ new[j].version \in Nat /\ new[j].version <= rev + 1
      BY <1>1, <1>2, <2>2 DEF ObjectsOK
    <2>3. ASSUME NEW i \in Kinds, NEW j \in Kinds, new[i] # Absent, new[j] # Absent,
                 new[i].version = new[j].version
          PROVE  i = j
      BY <1>1, <1>3, <2>3 DEF ObjectsOK
    <2>. QED  BY <1>2, <2>1, <2>2, <2>3 DEF ObjectsOK
  <1>5. ASSUME NEW x, EditorOK(objs, rev, x) PROVE EditorOK(new, rev + 1, x)
    <2>1. PinsWhatItShows(new, rev + 1, x)
      BY <1>1, <1>2, <1>5 DEF EditorOK, PinsWhatItShows
    <2>2. SendsWhatItRead(new, rev + 1, x)
      BY <1>1, <1>2, <1>5 DEF EditorOK, SendsWhatItRead
    <2>. QED  BY <1>5, <2>1, <2>2 DEF EditorOK
  <1>. QED  BY <1>4, <1>5

LEMMA EraseKeeps ==
  ASSUME NEW objs, NEW rev, ObjectsOK(objs, rev), NEW k \in Kinds,
         NEW new, new = [objs EXCEPT ![k] = Absent]
  PROVE  /\ ObjectsOK(new, rev)
         /\ \A x : EditorOK(objs, rev, x) => EditorOK(new, rev, x)
  <1>1. new = [j \in Kinds |-> new[j]] /\ \A j \in Kinds : new[j] = objs[j] \/ new[j] = Absent
    BY DEF ObjectsOK
  <1>2. ObjectsOK(new, rev)
    BY <1>1 DEF ObjectsOK
  <1>3. ASSUME NEW x, EditorOK(objs, rev, x) PROVE EditorOK(new, rev, x)
    <2>1. PinsWhatItShows(new, rev, x)
      BY <1>1, <1>3 DEF EditorOK, PinsWhatItShows
    <2>2. SendsWhatItRead(new, rev, x)
      BY <1>1, <1>3 DEF EditorOK, SendsWhatItRead
    <2>. QED  BY <1>3, <2>1, <2>2 DEF EditorOK
  <1>. QED  BY <1>2, <1>3

(* The kind that is found is one there is a release for.                   *)
LEMMA FoundIsOne == releases \subseteq Kinds /\ Found # Absent => Found \in Kinds
  <1>. SUFFICES ASSUME releases \subseteq Kinds, Found # Absent PROVE Found \in Kinds
    OBVIOUS
  <1>1. PICK k : k \in releases
    BY DEF Found
  <1>2. DEFINE S == {i \in DOMAIN Listed : Listed[i] \in releases}
  <1>3. Listed \in Seq(Kinds) /\ DOMAIN Listed = 1 .. Len(Listed) /\ Len(Listed) \in Nat
    BY AppUpdatesAssumption
  <1>4. S \subseteq Nat /\ S # {}
    BY <1>1, <1>3 DEF Kinds, ToSet
  <1>5. PICK i \in S : \A j \in S : i <= j
    BY <1>4, LeastOf
  <1>6. \A j \in 1 .. i - 1 : Listed[j] \notin releases
    BY <1>3, <1>4, <1>5
  <1>7. Found \in releases
    BY <1>1, <1>5, <1>6 DEF Found
  <1>. QED  BY <1>7
(* A step of one user's request, whatever it does to the objects.          *)
LEMMA EditStep ==
  ASSUME EditInv, NEW e \in Editors, NEW new, Becomes(e, new),
         ObjectsOK(objects', revision'), releases' \subseteq Kinds,
         \A x : EditorOK(objects, revision, x) => EditorOK(objects', revision', x),
         EditorOK(objects', revision', new)
  PROVE  EditInv'
  <1>1. editors' = [editors EXCEPT ![e] = new] /\ editors = [f \in Editors |-> editors[f]]
    BY DEF Becomes, EditInv
  <1>2. editors' = [f \in Editors |-> editors'[f]]
        /\ \A f \in Editors : editors'[f] = new \/ editors'[f] = editors[f]
    BY <1>1
  <1>3. \A f \in Editors : EditorOK(objects', revision', editors'[f])
    BY <1>2 DEF EditInv
  <1>. QED  BY <1>2, <1>3 DEF EditInv

LEMMA ReadStep ==
  ASSUME EditInv, NEW e \in Editors, NEW new, Becomes(e, new), Reads,
         EditorOK(objects, revision, new)
  PROVE  EditInv'
  <1>1. objects' = objects /\ revision' = revision /\ releases' = releases
    BY DEF Reads
  <1>. QED  BY <1>1, EditStep DEF EditInv

(* A request that is over, without and with a write.                       *)
LEMMA EntriesOfEdits ==
  /\ Len(<<>>) = 0 /\ Len(<<"error">>) = 1 /\ Len(<<"denied">>) = 1 /\ Len(<<"success">>) = 1
  /\ <<>> # <<"success">> /\ <<"error">> # <<"success">> /\ <<"denied">> # <<"success">>
  OBVIOUS

LEMMA DoneOK ==
  ASSUME NEW objs, NEW rev, NEW api, NEW audit,
         ~api => audit \in {<<>>, <<"error">>, <<"denied">>},
         NEW new, new = [Idle EXCEPT !.phase = "done", !.api = api, !.audit = audit]
  PROVE  EditorOK(objs, rev, new)
  <1>1. new.phase = "done" /\ new.version = NoVersion /\ new.wrote = FALSE /\ new.audit = audit
        /\ new.api = api
    BY DEF Idle
  <1>2. IsEditor(new)
    <2>1. new = [phase |-> new.phase, kind |-> new.kind, shown |-> new.shown, version |-> new.version,
          incoming |-> new.incoming, replace |-> new.replace, fields |-> new.fields,
          target |-> new.target, base |-> new.base, sent |-> new.sent,
          api |-> new.api, audit |-> new.audit, opened |-> new.opened, wrote |-> new.wrote,
          unheard |-> new.unheard]
      BY DEF Idle
    <2>. QED  BY <1>1, <2>1 DEF IsEditor
  <1>3. AuditOK(new)
    <2>1. ~api => Len(audit) <= 1 /\ audit # <<"success">>
      BY EntriesOfEdits
    <2>. QED  BY <1>1, <2>1 DEF AuditOK
  <1>. QED  BY <1>1, <1>2, <1>3 DEF EditorOK, PinsWhatItShows, SendsWhatItRead

LEMMA CarriedOutOK ==
  ASSUME NEW objs, NEW rev, NEW api, NEW audit, NEW unheard \in BOOLEAN,
         ~api => audit = IF unheard THEN <<"error">> ELSE <<"success">>,
         NEW new, new = [Idle EXCEPT !.phase = "done", !.wrote = TRUE, !.unheard = unheard,
                           !.api = api, !.audit = audit]
  PROVE  EditorOK(objs, rev, new)
  <1>1. new.phase = "done" /\ new.version = NoVersion /\ new.wrote = TRUE /\ new.audit = audit
        /\ new.api = api /\ new.unheard = unheard
    BY DEF Idle
  <1>2. IsEditor(new)
    <2>1. new = [phase |-> new.phase, kind |-> new.kind, shown |-> new.shown, version |-> new.version,
          incoming |-> new.incoming, replace |-> new.replace, fields |-> new.fields,
          target |-> new.target, base |-> new.base, sent |-> new.sent,
          api |-> new.api, audit |-> new.audit, opened |-> new.opened, wrote |-> new.wrote,
          unheard |-> new.unheard]
      BY DEF Idle
    <2>. QED  BY <1>1, <2>1 DEF IsEditor
  <1>3. AuditOK(new)
    <2>1. ASSUME ~api PROVE Len(audit) <= 1
      <3>1. audit = <<"error">> \/ audit = <<"success">>
        BY <2>1
      <3>2. Len(<<"error">>) <= 1 /\ Len(<<"success">>) <= 1
        BY EntriesOfEdits
      <3>. QED  BY <3>1, <3>2
    <2>. QED  BY <1>1, <2>1 DEF AuditOK
  <1>. QED  BY <1>1, <1>2, <1>3 DEF EditorOK, PinsWhatItShows, SendsWhatItRead

LEMMA DoneKeeps ==
  ASSUME EditInv, NEW e \in Editors, NEW entries \in {<<>>, <<"error">>, <<"denied">>},
         Done(e, entries), Reads
  PROVE  EditInv'
  <1>1. PICK audit : audit = Recorded(e, entries)
    OBVIOUS
  <1>2. PICK api : api = editors[e].api
    OBVIOUS
  <1>3. ~api => audit \in {<<>>, <<"error">>, <<"denied">>}
    BY <1>1, <1>2 DEF Recorded
  <1>4. PICK new : new = [Idle EXCEPT !.phase = "done", !.api = api, !.audit = audit]
    OBVIOUS
  <1>5. Becomes(e, new)
    BY <1>1, <1>2, <1>4 DEF Done
  <1>6. EditorOK(objects, revision, new)
    BY <1>3, <1>4, DoneOK
  <1>. QED  BY <1>5, <1>6, ReadStep

(* The request is carried out: the objects change.                         *)
LEMMA CarriedOutKeeps ==
  ASSUME EditInv, NEW e \in Editors, CarriedOut(e),
         ObjectsOK(objects', revision'), releases' \subseteq Kinds,
         \A x : EditorOK(objects, revision, x) => EditorOK(objects', revision', x)
  PROVE  EditInv'
  <1>1. PICK unheard \in BOOLEAN :
          Becomes(e, [Idle EXCEPT !.phase = "done", !.wrote = TRUE, !.unheard = unheard, !.api = editors[e].api,
                        !.audit = Recorded(e, IF unheard THEN <<"error">> ELSE <<"success">>)])
    BY DEF CarriedOut
  <1>2. PICK audit : audit = Recorded(e, IF unheard THEN <<"error">> ELSE <<"success">>)
    OBVIOUS
  <1>3. PICK api : api = editors[e].api
    OBVIOUS
  <1>4. ~api => audit = IF unheard THEN <<"error">> ELSE <<"success">>
    BY <1>2, <1>3 DEF Recorded
  <1>5. PICK new : new = [Idle EXCEPT !.phase = "done", !.wrote = TRUE, !.unheard = unheard,
                            !.api = api, !.audit = audit]
    OBVIOUS
  <1>6. Becomes(e, new)
    BY <1>1, <1>2, <1>3, <1>5
  <1>7. EditorOK(objects', revision', new)
    BY <1>4, <1>5, CarriedOutOK
  <1>. QED  BY <1>6, <1>7, EditStep

(* The two changes of the cluster.                                         *)
LEMMA StoreStep ==
  ASSUME EditInv, NEW k \in Kinds, NEW spec, Store(k, spec)
  PROVE  /\ ObjectsOK(objects', revision') /\ releases' \subseteq Kinds
         /\ \A x : EditorOK(objects, revision, x) => EditorOK(objects', revision', x)
  BY StoreKeeps DEF Store, EditInv

LEMMA EraseStep ==
  ASSUME EditInv, NEW k \in Kinds, Erase(k)
  PROVE  /\ ObjectsOK(objects', revision') /\ releases' \subseteq Kinds
         /\ \A x : EditorOK(objects, revision, x) => EditorOK(objects', revision', x)
  BY EraseKeeps DEF Erase, EditInv

LEMMA OthersKeep ==
  ASSUME EditInv, UNCHANGED editors, ObjectsOK(objects', revision'), releases' \subseteq Kinds,
         \A x : EditorOK(objects, revision, x) => EditorOK(objects', revision', x)
  PROVE  EditInv'
  BY DEF EditInv
-----------------------------------------------------------------------------
(* One lemma per kind of step of a request.                                *)
EditorShape(x) ==
  x = [phase |-> x.phase, kind |-> x.kind, shown |-> x.shown, version |-> x.version,
       incoming |-> x.incoming, replace |-> x.replace, fields |-> x.fields,
       target |-> x.target, base |-> x.base, sent |-> x.sent,
       api |-> x.api, audit |-> x.audit, opened |-> x.opened, wrote |-> x.wrote,
       unheard |-> x.unheard]

(* A form that is opened or dismissed, and a request to the JSON API.      *)
LEMMA FreshOK ==
  ASSUME NEW objs, NEW rev, NEW new, EditorShape(new), new.phase \in {"idle", "opening", "api"},
         new.version = NoVersion, new.wrote = FALSE
  PROVE  EditorOK(objs, rev, new)
  BY DEF EditorOK, IsEditor, EditorShape, PinsWhatItShows, SendsWhatItRead, AuditOK

(* What was submitted, and what phase a request is in, matter to no object *)
(* before the request has read the one it is about.                        *)
GoesOn(x, new) ==
  /\ new.phase \in {"form", "loading", "updating"}
  /\ new.kind = x.kind /\ new.shown = x.shown /\ new.version = x.version /\ new.wrote = x.wrote

LEMMA GoesOnOK ==
  ASSUME NEW objs, NEW rev, NEW x, EditorOK(objs, rev, x), x.phase # "done",
         NEW new, EditorShape(new), GoesOn(x, new)
  PROVE  EditorOK(objs, rev, new)
  <1>1. x.wrote = FALSE
    BY DEF EditorOK, IsEditor
  <1>. QED  BY <1>1 DEF GoesOn, EditorOK, IsEditor, EditorShape, PinsWhatItShows, SendsWhatItRead, AuditOK

(* The snapshot a form is filled with.                                     *)
LEMMA SnapshotOK ==
  ASSUME NEW objs, NEW rev, ObjectsOK(objs, rev), NEW x, EditorOK(objs, rev, x), x.phase = "opening",
         NEW k \in Kinds, objs[k] # Absent,
         NEW new, new = [x EXCEPT !.phase = "form", !.kind = k,
                           !.shown = objs[k].spec, !.version = objs[k].version,
                           !.opened = objs[k].version]
  PROVE  EditorOK(objs, rev, new)
  <1>1. EditorShape(x) /\ x.wrote = FALSE
    BY DEF EditorOK, IsEditor, EditorShape
  <1>2. PICK spec, version : spec = objs[k].spec /\ version = objs[k].version
    OBVIOUS
  <1>3. new = [x EXCEPT !.phase = "form", !.kind = k, !.shown = spec, !.version = version,
                        !.opened = version]
    BY <1>2
  <1>4. new.phase = "form" /\ new.kind = k /\ new.shown = spec /\ new.version = version
        /\ new.wrote = FALSE
    BY <1>1, <1>3 DEF EditorShape
  <1>5. EditorShape(new)
    BY <1>1, <1>3 DEF EditorShape
  <1>6. PinsWhatItShows(objs, rev, new)
    BY <1>2, <1>4 DEF PinsWhatItShows, ObjectsOK
  <1>. QED  BY <1>4, <1>5, <1>6 DEF EditorOK, IsEditor, EditorShape, SendsWhatItRead, AuditOK

(* The last read of an update: the version sent is the form's, whose object*)
(* may be another by now; then there is none that has it.                  *)
LEMMA ReadOK ==
  ASSUME NEW objs, NEW rev, ObjectsOK(objs, rev), NEW x, EditorOK(objs, rev, x), x.phase = "updating",
         NEW k \in Kinds, objs[k] # Absent,
         NEW sent, sent = IF x.version # NoVersion THEN x.version ELSE objs[k].version,
         NEW new, new = [x EXCEPT !.phase = "writing", !.target = k, !.base = objs[k].spec, !.sent = sent]
  PROVE  EditorOK(objs, rev, new)
  <1>1. EditorShape(x) /\ x.wrote = FALSE
    BY DEF EditorOK, IsEditor, EditorShape
  <1>2. PICK spec : spec = objs[k].spec
    OBVIOUS
  <1>3. new = [x EXCEPT !.phase = "writing", !.target = k, !.base = spec, !.sent = sent]
    BY <1>2
  <1>4. new.phase = "writing" /\ new.target = k /\ new.base = spec /\ new.sent = sent
        /\ new.version = x.version /\ new.kind = x.kind /\ new.shown = x.shown /\ new.wrote = FALSE
    BY <1>1, <1>3 DEF EditorShape
  <1>5. EditorShape(new)
    BY <1>1, <1>3 DEF EditorShape
  <1>6. PinsWhatItShows(objs, rev, new)
    BY <1>4 DEF PinsWhatItShows, EditorOK
  <1>7. sent \in Nat /\ sent <= rev /\ (x.version # NoVersion => sent = x.version)
    BY DEF EditorOK, PinsWhatItShows, ObjectsOK
  <1>8. SendsWhatItRead(objs, rev, new)
    BY <1>2, <1>4, <1>7 DEF SendsWhatItRead
  <1>. QED  BY <1>4, <1>5, <1>6, <1>8 DEF EditorOK, IsEditor, EditorShape, AuditOK

LEMMA AsksToDeleteOK ==
  ASSUME NEW objs, NEW rev, NEW x, EditorOK(objs, rev, x), x.phase # "done", NEW k \in Kinds,
         NEW new, new = [x EXCEPT !.phase = "deleting", !.target = k]
  PROVE  EditorOK(objs, rev, new)
  <1>1. EditorShape(x) /\ x.wrote = FALSE
    BY DEF EditorOK, IsEditor, EditorShape
  <1>2. new.phase = "deleting" /\ new.target = k /\ new.kind = x.kind /\ new.shown = x.shown
        /\ new.version = x.version /\ new.wrote = FALSE
    BY <1>1 DEF EditorShape
  <1>3. EditorShape(new)
    BY <1>1 DEF EditorShape
  <1>. QED  BY <1>2, <1>3 DEF EditorOK, IsEditor, EditorShape, PinsWhatItShows, SendsWhatItRead, AuditOK
(* Every step.                                                             *)
LEMMA EditInvStep == EditInv /\ [Next]_vars => EditInv'
  <1>. SUFFICES ASSUME EditInv, [Next]_vars PROVE EditInv'
    OBVIOUS
  <1>1. ObjectsOK(objects, revision) /\ releases \subseteq Kinds /\ (Found # Absent => Found \in Kinds)
        /\ \A e \in Editors : EditorOK(objects, revision, editors[e])
    BY FoundIsOne DEF EditInv
  <1>2. \A e \in Editors : EditorShape(editors[e])
    BY <1>1 DEF EditorOK, IsEditor, EditorShape
  <1>3. ASSUME NEW e \in Editors, NEW new, EditorShape(new), new.phase \in {"idle", "opening", "api"},
               new.version = NoVersion, new.wrote = FALSE, Becomes(e, new), Reads
        PROVE  EditInv'
    <2>1. EditorOK(objects, revision, new)
      BY <1>3, FreshOK
    <2>. QED  BY <1>3, <2>1, ReadStep
  <1>4. ASSUME NEW e \in Editors, NEW new, EditorShape(new), GoesOn(editors[e], new),
               editors[e].phase # "done", Becomes(e, new), Reads
        PROVE  EditInv'
    <2>1. EditorOK(objects, revision, new)
      BY <1>1, <1>4, GoesOnOK
    <2>. QED  BY <1>4, <2>1, ReadStep
  <1>5. ASSUME NEW e \in Editors, OpenForm(e) PROVE EditInv'
    <2>1. PICK new : new = [Idle EXCEPT !.phase = "opening", !.kind = Found, !.opened = revision]
      OBVIOUS
    <2>2. EditorShape(new) /\ new.phase = "opening" /\ new.version = NoVersion /\ new.wrote = FALSE
      BY <2>1 DEF Idle, EditorShape
    <2>. QED  BY <1>3, <1>5, <2>1, <2>2 DEF OpenForm
  <1>6. ASSUME NEW e \in Editors, RequestByAPI(e) PROVE EditInv'
    <2>1. PICK new : new = [Idle EXCEPT !.phase = "api", !.api = TRUE]
      OBVIOUS
    <2>2. EditorShape(new) /\ new.phase = "api" /\ new.version = NoVersion /\ new.wrote = FALSE
      BY <2>1 DEF Idle, EditorShape
    <2>. QED  BY <1>3, <1>6, <2>1, <2>2 DEF RequestByAPI
  <1>7. ASSUME NEW e \in Editors, Reload(e) PROVE EditInv'
    <2>1. EditorShape(Idle) /\ Idle.phase = "idle" /\ Idle.version = NoVersion /\ Idle.wrote = FALSE
      BY DEF Idle, EditorShape
    <2>. QED  BY <1>3, <1>7, <2>1 DEF Reload
  <1>8. ASSUME NEW e \in Editors, TakeSnapshot(e) PROVE EditInv'
    <2>1. PICK new : new = [editors[e] EXCEPT !.phase = "form", !.kind = Found,
                       !.shown = objects[Found].spec, !.version = objects[Found].version,
                       !.opened = objects[Found].version]
      OBVIOUS
    <2>2. Becomes(e, new) /\ Reads /\ Found \in Kinds /\ objects[Found] # Absent
          /\ editors[e].phase = "opening"
      BY <1>1, <1>8, <2>1 DEF TakeSnapshot, Stage
    <2>3. EditorOK(objects, revision, new)
      BY <1>1, <2>1, <2>2, SnapshotOK
    <2>. QED  BY <2>2, <2>3, ReadStep
  <1>9. ASSUME NEW e \in Editors, SnapshotFails(e) \/ LoadForUpdate(e) PROVE EditInv'
    <2>1. PICK ph \in {"form", "updating"} :
            Becomes(e, [editors[e] EXCEPT !.phase = ph]) /\ Reads /\ editors[e].phase # "done"
      BY <1>9 DEF SnapshotFails, LoadForUpdate, Stage
    <2>2. PICK new : new = [editors[e] EXCEPT !.phase = ph]
      OBVIOUS
    <2>3. PICK x : x = editors[e]
      OBVIOUS
    <2>4. EditorShape(x) /\ new = [x EXCEPT !.phase = ph]
      BY <1>2, <2>2, <2>3
    <2>5. EditorShape(new)
      BY <2>4 DEF EditorShape
    <2>6. GoesOn(x, new)
      BY <2>1, <2>4 DEF EditorShape, GoesOn
    <2>. QED  BY <1>4, <2>1, <2>2, <2>3, <2>5, <2>6
  <1>10. ASSUME NEW e \in Editors, SubmitForm(e) PROVE EditInv'
    <2>1. PICK changed \in Rendered, value \in Scalars \cup {Blank}, order \in Orders(Rendered) :
       LET form == [p \in Rendered |-> IF p = changed THEN value ELSE ShownField(e, p)]
       IN  Becomes(e, [editors[e] EXCEPT !.phase = "loading",
                         !.incoming = ExtractSpec(form, order), !.replace = FALSE,
                         !.fields = Restrict(form, {p \in Rendered : form[p] # Blank})])
      BY <1>10 DEF SubmitForm
    <2>2. PICK form : form = [p \in Rendered |-> IF p = changed THEN value ELSE ShownField(e, p)]
      OBVIOUS
    <2>3. PICK incoming, fields : incoming = ExtractSpec(form, order)
                                 /\ fields = Restrict(form, {p \in Rendered : form[p] # Blank})
      OBVIOUS
    <2>4. PICK new : new = [editors[e] EXCEPT !.phase = "loading", !.incoming = incoming, !.replace = FALSE,
                                              !.fields = fields]
      OBVIOUS
    <2>5. Becomes(e, new)
      BY <2>1, <2>2, <2>3, <2>4
    <2>6. EditorShape(new) /\ GoesOn(editors[e], new)
      <3>1. PICK x : x = editors[e]
        OBVIOUS
      <3>2. EditorShape(x) /\ new = [x EXCEPT !.phase = "loading", !.incoming = incoming, !.replace = FALSE,
                                             !.fields = fields]
        BY <1>2, <2>4, <3>1
      <3>3. EditorShape(new)
        BY <3>2 DEF EditorShape
      <3>4. GoesOn(x, new)
        BY <3>2 DEF EditorShape, GoesOn
      <3>. QED  BY <3>1, <3>3, <3>4
    <2>7. Reads /\ editors[e].phase # "done"
      BY <1>10 DEF SubmitForm, Stage
    <2>. QED  BY <1>4, <2>5, <2>6, <2>7
  <1>11. ASSUME NEW e \in Editors, SubmitYAML(e) PROVE EditInv'
    <2>1. PICK spec \in Typed \cup {Empty} :
            Becomes(e, [editors[e] EXCEPT !.phase = "loading", !.incoming = spec, !.replace = TRUE])
      BY <1>11 DEF SubmitYAML
    <2>2. PICK new : new = [editors[e] EXCEPT !.phase = "loading", !.incoming = spec, !.replace = TRUE]
      OBVIOUS
    <2>3. EditorShape(new) /\ GoesOn(editors[e], new)
      <3>1. PICK x : x = editors[e]
        OBVIOUS
      <3>2. EditorShape(x) /\ new = [x EXCEPT !.phase = "loading", !.incoming = spec, !.replace = TRUE]
        BY <1>2, <2>2, <3>1
      <3>3. EditorShape(new)
        BY <3>2 DEF EditorShape
      <3>4. GoesOn(x, new)
        BY <3>2 DEF EditorShape, GoesOn
      <3>. QED  BY <3>1, <3>3, <3>4
    <2>4. Reads /\ editors[e].phase # "done"
      BY <1>11 DEF SubmitYAML, Stage
    <2>. QED  BY <1>4, <2>1, <2>2, <2>3, <2>4
  <1>12. ASSUME NEW e \in Editors, UpdateByAPI(e) PROVE EditInv'
    <2>1. PICK spec \in Typed :
            Becomes(e, [editors[e] EXCEPT !.phase = "updating", !.incoming = spec,
                          !.fields = Tips(spec)])
      BY <1>12 DEF UpdateByAPI
    <2>2. PICK fields : fields = Tips(spec)
      OBVIOUS
    <2>3. PICK new : new = [editors[e] EXCEPT !.phase = "updating", !.incoming = spec, !.fields = fields]
      OBVIOUS
    <2>4. EditorShape(new) /\ GoesOn(editors[e], new)
      <3>1. PICK x : x = editors[e]
        OBVIOUS
      <3>2. EditorShape(x) /\ new = [x EXCEPT !.phase = "updating", !.incoming = spec, !.fields = fields]
        BY <1>2, <2>3, <3>1
      <3>3. EditorShape(new)
        BY <3>2 DEF EditorShape
      <3>4. GoesOn(x, new)
        BY <3>2 DEF EditorShape, GoesOn
      <3>. QED  BY <3>1, <3>3, <3>4
    <2>5. Reads /\ editors[e].phase # "done"
      BY <1>12 DEF UpdateByAPI, Stage
    <2>. QED  BY <1>4, <2>1, <2>2, <2>3, <2>4, <2>5
  <1>13. ASSUME NEW e \in Editors, LoadFails(e) \/ BuildFails(e) \/ UpdateFails(e) \/ PutConflicts(e)
         PROVE  EditInv'
    <2>1. PICK entries \in {<<>>, <<"error">>, <<"denied">>} : Done(e, entries) /\ Reads
      BY <1>13 DEF LoadFails, BuildFails, UpdateFails, PutConflicts, ConflictEntries
    <2>. QED  BY <2>1, DoneKeeps
  <1>14. ASSUME NEW e \in Editors, ReadForUpdate(e) PROVE EditInv'
    <2>1. PICK sent : sent = SentVersion(e, Found)
      OBVIOUS
    <2>2. PICK new : new = [editors[e] EXCEPT !.phase = "writing", !.target = Found,
                               !.base = objects[Found].spec, !.sent = sent]
      OBVIOUS
    <2>3. Becomes(e, new) /\ Reads /\ Found \in Kinds /\ objects[Found] # Absent
          /\ editors[e].phase = "updating"
      BY <1>1, <1>14, <2>1, <2>2 DEF ReadForUpdate, Stage
    <2>4. sent = IF editors[e].version # NoVersion THEN editors[e].version ELSE objects[Found].version
      BY <2>1 DEF SentVersion
    <2>5. EditorOK(objects, revision, new)
      BY <1>1, <2>2, <2>3, <2>4, ReadOK
    <2>. QED  BY <2>3, <2>5, ReadStep
  <1>15. ASSUME NEW e \in Editors, Put(e) PROVE EditInv'
    <2>1. editors[e].target \in Kinds
      BY <1>1, <1>15 DEF Put, Stage, EditorOK, SendsWhatItRead
    <2>. QED  BY <1>15, <2>1, StoreStep, CarriedOutKeeps DEF Put
  <1>16. ASSUME NEW e \in Editors, NEW k \in Kinds, CreateApp(e, k) PROVE EditInv'
    <2>1. CASE \E entries \in {<<>>, <<"error">>, <<"denied">>} : Done(e, entries) /\ Reads
      BY <2>1, DoneKeeps
    <2>2. CASE (\E spec \in Typed : Store(k, spec)) /\ CarriedOut(e)
      BY <2>2, StoreStep, CarriedOutKeeps
    <2>. QED  BY <1>16, <2>1, <2>2 DEF CreateApp
  <1>17. ASSUME NEW e \in Editors, DeleteApp(e) PROVE EditInv'
    <2>1. CASE Done(e, <<"error">>)
      BY <1>17, <2>1, DoneKeeps DEF DeleteApp
    <2>2. CASE Found # Absent /\ Becomes(e, [editors[e] EXCEPT !.phase = "deleting", !.target = Found])
      <3>1. PICK new : new = [editors[e] EXCEPT !.phase = "deleting", !.target = Found]
        OBVIOUS
      <3>2. editors[e].phase # "done" /\ Reads
        BY <1>17 DEF DeleteApp, Asks
      <3>3. EditorOK(objects, revision, new)
        BY <1>1, <2>2, <3>1, <3>2, AsksToDeleteOK
      <3>. QED  BY <2>2, <3>1, <3>2, <3>3, ReadStep
    <2>. QED  BY <1>17, <2>1, <2>2 DEF DeleteApp
  <1>18. ASSUME NEW e \in Editors, Delete(e) PROVE EditInv'
    <2>1. CASE Done(e, <<"error">>) /\ Reads
      BY <2>1, DoneKeeps
    <2>2. CASE Erase(editors[e].target) /\ CarriedOut(e)
      <3>1. editors[e].target \in Kinds
        BY <1>1, <1>18 DEF Delete, Stage, EditorOK, IsEditor
      <3>. QED  BY <2>2, <3>1, EraseStep, CarriedOutKeeps
    <2>. QED  BY <1>18, <2>1, <2>2 DEF Delete
  <1>19. ASSUME NEW k \in Kinds, OtherWrites(k) \/ OtherDeletes(k) PROVE EditInv'
    <2>1. UNCHANGED editors /\ (Erase(k) \/ \E spec : Store(k, spec))
      BY <1>19 DEF OtherWrites, OtherDeletes
    <2>. QED  BY <2>1, StoreStep, EraseStep, OthersKeep
  <1>20. ASSUME NEW k \in Kinds, Reconcile(k) PROVE EditInv'
    BY <1>1, <1>20, OthersKeep DEF Reconcile
  <1>21. ASSUME UNCHANGED vars PROVE EditInv'
    BY <1>1, <1>21, OthersKeep DEF vars
  <1>. QED  BY <1>5, <1>6, <1>7, <1>8, <1>9, <1>10, <1>11, <1>12, <1>13, <1>14, <1>15, <1>16, <1>17,
               <1>18, <1>19, <1>20, <1>21 DEF Next, Update

LEMMA EditInvInit == Init => EditInv
  <1>. SUFFICES ASSUME Init PROVE EditInv
    OBVIOUS
  <1>1. PICK k \in Kinds, spec \in Typed :
          /\ objects = [x \in Kinds |-> IF x = k THEN [version |-> 0, spec |-> spec] ELSE Absent]
          /\ releases = {k}
    BY DEF Init
  <1>2. revision = 0 /\ editors = [e \in Editors |-> Idle]
    BY DEF Init
  <1>3. ObjectsOK(objects, revision)
    BY <1>1, <1>2 DEF ObjectsOK
  <1>4. EditorShape(Idle) /\ Idle.phase = "idle" /\ Idle.version = NoVersion /\ Idle.wrote = FALSE
    BY DEF Idle, EditorShape
  <1>5. EditorOK(objects, revision, Idle)
    BY <1>4, FreshOK
  <1>. QED  BY <1>1, <1>2, <1>3, <1>5 DEF EditInv

(* The inductive invariant of the edits.                                   *)
THEOREM EditInvariant == Spec => []EditInv
  <1>. QED  BY EditInvInit, EditInvStep, PTL DEF Spec

(* Only one step carries an update out.                                    *)
LEMMA OnlyPutUpdates ==
  ASSUME EditInv, [Next]_vars, NEW e \in Editors, Writes(e)
  PROVE  Put(e)
  <1>1. EditorOK(objects, revision, editors[e]) /\ editors[e].phase = "writing" /\ editors'[e].wrote
        /\ ObjectsOK(objects, revision) /\ editors = [f \in Editors |-> editors[f]]
    BY DEF EditInv, Writes, Stage
  <1>2. ~editors[e].wrote
    BY <1>1 DEF EditorOK, IsEditor
  <1>3. editors'[e] # editors[e]
    BY <1>1, <1>2
  <1>4. ASSUME NEW f \in Editors, f # e, NEW new, Becomes(f, new) PROVE FALSE
    BY <1>1, <1>3, <1>4 DEF Becomes
  <1>5. ASSUME NEW entries, Done(e, entries) PROVE FALSE
    <2>1. PICK api, audit : editors' = [editors EXCEPT ![e] =
                                          [Idle EXCEPT !.phase = "done", !.api = api, !.audit = audit]]
      BY <1>5 DEF Done, Becomes
    <2>2. PICK new : new = [Idle EXCEPT !.phase = "done", !.api = api, !.audit = audit]
      OBVIOUS
    <2>3. new.wrote = FALSE
      BY <2>2 DEF Idle
    <2>. QED  BY <1>1, <2>1, <2>2, <2>3
  <1>6. \A f \in Editors \ {e} :
          /\ ~OpenForm(f) /\ ~TakeSnapshot(f) /\ ~SnapshotFails(f) /\ ~SubmitYAML(f)
          /\ ~RequestByAPI(f) /\ ~UpdateByAPI(f) /\ ~Reload(f) /\ ~LoadForUpdate(f) /\ ~ReadForUpdate(f)
    BY <1>4 DEF OpenForm, TakeSnapshot, SnapshotFails, SubmitYAML, RequestByAPI, UpdateByAPI, Reload,
                LoadForUpdate, ReadForUpdate
  <1>7. \A f \in Editors \ {e} : ~SubmitForm(f)
    BY <1>4 DEF SubmitForm
  <1>8. \A f \in Editors \ {e} : \A entries : ~Done(f, entries)
    BY <1>4 DEF Done
  <1>9. \A f \in Editors \ {e} : ~CarriedOut(f)
    BY <1>4 DEF CarriedOut
  <1>10. \A f \in Editors \ {e} : ~Update(f) /\ ~DeleteApp(f) /\ ~Delete(f)
    BY <1>4, <1>6, <1>8, <1>9 DEF Update, LoadFails, BuildFails, UpdateFails, PutConflicts, Put, DeleteApp, Delete
  <1>11. \A f \in Editors \ {e}, k \in Kinds : ~CreateApp(f, k)
    BY <1>8, <1>9 DEF CreateApp
  <1>12. \A k \in Kinds : ~OtherWrites(k) /\ ~OtherDeletes(k) /\ ~Reconcile(k) /\ ~UNCHANGED vars
    BY <1>3 DEF OtherWrites, OtherDeletes, Reconcile, vars
  <1>13. /\ ~OpenForm(e) /\ ~TakeSnapshot(e) /\ ~SnapshotFails(e) /\ ~SubmitYAML(e) /\ ~SubmitForm(e)
        /\ ~RequestByAPI(e) /\ ~UpdateByAPI(e) /\ ~Reload(e) /\ ~LoadForUpdate(e) /\ ~ReadForUpdate(e)
        /\ ~LoadFails(e) /\ ~BuildFails(e) /\ ~DeleteApp(e) /\ ~Delete(e)
    BY <1>1 DEF OpenForm, TakeSnapshot, SnapshotFails, SubmitYAML, SubmitForm, RequestByAPI, UpdateByAPI,
                Reload, LoadForUpdate, ReadForUpdate, LoadFails, BuildFails, DeleteApp, Delete, Stage, Asks
  <1>14. ~UpdateFails(e) /\ ~PutConflicts(e)
    BY <1>5 DEF UpdateFails, PutConflicts
  <1>15. \A k \in Kinds : ~CreateApp(e, k)
    BY <1>1 DEF CreateApp, Asks
  <1>16. ~UNCHANGED vars
    BY <1>3 DEF vars
  <1>. QED  BY <1>6, <1>7, <1>10, <1>11, <1>12, <1>13, <1>14, <1>15, <1>16 DEF Next, Update

(* Nobody's write is lost (ApplicationService.Update): what an update      *)
(* replaces is the spec it merged into, and one that pins a version        *)
(* replaces the very object its form showed, for every number of users,    *)
(* kinds and writes.                                                       *)
THEOREM NoUpdateIsLost == Spec => NoLostUpdate
  <1>1. ASSUME EditInv, [Next]_vars, NEW e \in Editors, Writes(e)
        PROVE  /\ Old(e).spec = editors[e].base
               /\ editors[e].version # NoVersion =>
                    /\ Old(e) = [version |-> editors[e].version, spec |-> editors[e].shown]
                    /\ editors[e].target = editors[e].kind
    <2>1. EditorOK(objects, revision, editors[e]) /\ editors[e].phase = "writing" /\ editors'[e].wrote
          /\ ObjectsOK(objects, revision) /\ editors = [f \in Editors |-> editors[f]]
      BY <1>1 DEF EditInv, Writes, Stage
    <2>2. Put(e)
      BY <1>1, OnlyPutUpdates
    <2>3. Old(e) # Absent /\ Old(e).version = editors[e].sent
      BY <2>2 DEF Put, Current, Old
    <2>4. editors[e].target \in Kinds /\ Old(e) = objects[editors[e].target]
      BY <2>1 DEF EditorOK, SendsWhatItRead, Old
    <2>5. Old(e).spec = editors[e].base
      BY <2>1, <2>3, <2>4 DEF EditorOK, SendsWhatItRead
    <2>6. ASSUME editors[e].version # NoVersion
           PROVE  Old(e) = [version |-> editors[e].version, spec |-> editors[e].shown]
                  /\ editors[e].target = editors[e].kind
      <3>1. Old(e).version = editors[e].version
        BY <2>1, <2>3, <2>6 DEF EditorOK, SendsWhatItRead
      <3>2. editors[e].target = editors[e].kind /\ Old(e).spec = editors[e].shown
        BY <2>1, <2>3, <2>4, <2>6, <3>1 DEF EditorOK, PinsWhatItShows
      <3>3. Old(e) = [version |-> Old(e).version, spec |-> Old(e).spec]
        BY <2>1, <2>3, <2>4 DEF ObjectsOK
      <3>. QED  BY <3>1, <3>2, <3>3
    <2>. QED  BY <2>5, <2>6
  <1>2. EditInv /\ [Next]_vars =>
          (\A e \in Editors : Writes(e) =>
             /\ Old(e).spec = editors[e].base
             /\ editors[e].version # NoVersion =>
                  /\ Old(e) = [version |-> editors[e].version, spec |-> editors[e].shown]
                  /\ editors[e].target = editors[e].kind)
    BY <1>1
  <1>. QED  BY <1>2, EditInvariant, PTL DEF Spec, NoLostUpdate

(* The audit log tells the truth of every edit (crud.go): one entry, a     *)
(* success exactly when the API server carried it out and said so.         *)
THEOREM EditsAreAudited == Spec => []AuditIsTrue
  <1>1. EditInv => AuditIsTrue
    BY DEF EditInv, EditorOK, AuditOK, AuditIsTrue, Stage
  <1>. QED  BY <1>1, EditInvariant, PTL
-----------------------------------------------------------------------------
(* What a request holds: specs, and what was submitted with it.            *)
RequestTyped(x) ==
  /\ x.phase \in Phases
  /\ x.kind \in Kinds \cup {Absent} /\ x.target \in Kinds \cup {Absent}
  /\ x.version \in Versions \cup {NoVersion} /\ x.sent \in Versions \cup {NoVersion}
  /\ x.opened \in Versions
  /\ x.phase = "writing" <=> x.sent # NoVersion

SpecsTyped(x) ==
  /\ IsSpec(x.shown) /\ IsSpec(x.incoming) /\ IsSpec(x.base)
  /\ DOMAIN x.fields \subseteq Paths
  /\ x.fields \in [DOMAIN x.fields -> Scalars \cup {Empty}]

Submitted(x) ==
  /\ x.replace \in BOOLEAN
  /\ x.phase = "api" => ~x.replace
  /\ ~x.replace => Submits(x.incoming, x.fields)
  /\ x.replace /\ x.phase \in {"updating", "writing"} => x.incoming # Empty

EntriesTyped(x) ==
  /\ x.audit \in Seq({"success", "error", "denied"})
  /\ x.api \in BOOLEAN /\ x.wrote \in BOOLEAN /\ x.unheard \in BOOLEAN

EditorTyped(x) == RequestTyped(x) /\ SpecsTyped(x) /\ Submitted(x) /\ EntriesTyped(x)

ObjectsTyped(objs, rev) ==
  /\ rev \in Versions
  /\ \A k \in Kinds : \/ objs[k] = Absent
                      \/ objs[k].version \in Versions /\ IsSpec(objs[k].spec)

TypesInv ==
  /\ EditInv
  /\ ObjectsTyped(objects, revision)
  /\ \A e \in Editors : EditorTyped(editors[e])

(* A step that leaves the types of the objects right.                      *)
LEMMA TypesStep ==
  ASSUME TypesInv, EditInv', ObjectsTyped(objects', revision'),
         NEW e \in Editors, NEW new, Becomes(e, new), EditorTyped(new)
  PROVE  TypesInv'
  <1>1. editors' = [editors EXCEPT ![e] = new] /\ editors = [f \in Editors |-> editors[f]]
    BY DEF Becomes, TypesInv, EditInv
  <1>2. \A f \in Editors : editors'[f] = new \/ editors'[f] = editors[f]
    BY <1>1
  <1>3. \A f \in Editors : EditorTyped(editors'[f])
    BY <1>2 DEF TypesInv
  <1>. QED  BY <1>3 DEF TypesInv

LEMMA TypesRead ==
  ASSUME TypesInv, EditInv', Reads, NEW e \in Editors, NEW new, Becomes(e, new), EditorTyped(new)
  PROVE  TypesInv'
  <1>1. objects' = objects /\ revision' = revision
    BY DEF Reads
  <1>2. ObjectsTyped(objects', revision')
    BY <1>1 DEF TypesInv
  <1>. QED  BY <1>2, TypesStep

LEMMA EmptySubmitted == IsSpec(Empty) /\ Submits(Empty, Empty) /\ Empty \in [DOMAIN Empty -> Scalars \cup {Empty}]
  <1>1. DOMAIN Empty = {} /\ Empty = [k \in {} |-> Empty[k]]
    BY DEF Empty
  <1>2. IsSpec(Empty)
    BY <1>1, SpecIs
  <1>. QED  BY <1>1, <1>2 DEF Submits

LEMMA EntriesAre ==
  /\ <<>> \in Seq({"success", "error", "denied"}) /\ <<"error">> \in Seq({"success", "error", "denied"})
  /\ <<"denied">> \in Seq({"success", "error", "denied"}) /\ <<"success">> \in Seq({"success", "error", "denied"})
  OBVIOUS

(* Requests that begin and requests that are over.                         *)
LEMMA IdleTyped ==
  ASSUME NEW new, NEW phase \in Phases, phase # "writing",
         new.phase = phase, new.kind \in Kinds \cup {Absent}, new.opened \in Versions,
         new.target = Absent, new.version = NoVersion, new.sent = NoVersion,
         new.shown = Empty, new.incoming = Empty, new.base = Empty, new.fields = Empty,
         new.replace = FALSE, EntriesTyped(new)
  PROVE  EditorTyped(new)
  <1>1. RequestTyped(new)
    BY DEF RequestTyped
  <1>2. SpecsTyped(new)
    <2>1. DOMAIN Empty \subseteq Paths
      BY DEF Empty
    <2>. QED  BY <2>1, EmptySubmitted DEF SpecsTyped
  <1>3. Submitted(new)
    BY EmptySubmitted DEF Submitted
  <1>. QED  BY <1>1, <1>2, <1>3 DEF EditorTyped

Fresh(x) ==
  /\ x.target = Absent /\ x.version = NoVersion /\ x.sent = NoVersion
  /\ x.shown = Empty /\ x.incoming = Empty /\ x.base = Empty /\ x.fields = Empty
  /\ x.replace = FALSE /\ x.wrote = FALSE /\ x.unheard = FALSE /\ x.audit = <<>>

LEMMA FreshTyped ==
  ASSUME NEW new, Fresh(new), new.phase \in {"idle", "opening", "api"},
         new.kind \in Kinds \cup {Absent}, new.opened \in Versions, new.api \in BOOLEAN
  PROVE  EditorTyped(new)
  <1>1. EntriesTyped(new)
    BY EntriesAre DEF Fresh, EntriesTyped
  <1>2. new.phase \in Phases /\ new.phase # "writing"
    BY DEF Phases
  <1>. QED  BY <1>1, <1>2, IdleTyped DEF Fresh

LEMMA DoneTyped ==
  ASSUME NEW new, new.phase = "done", new.kind = Absent, new.opened = 0,
         new.target = Absent, new.version = NoVersion, new.sent = NoVersion,
         new.shown = Empty, new.incoming = Empty, new.base = Empty, new.fields = Empty,
         new.replace = FALSE, EntriesTyped(new)
  PROVE  EditorTyped(new)
  <1>1. "done" \in Phases /\ 0 \in Versions
    BY AppUpdatesAssumption DEF Phases, Versions
  <1>. QED  BY <1>1, IdleTyped

LEMMA TypesDone ==
  ASSUME TypesInv, EditInv', NEW e \in Editors, NEW entries \in {<<>>, <<"error">>, <<"denied">>},
         Done(e, entries), Reads
  PROVE  TypesInv'
  <1>1. PICK api \in BOOLEAN : api = editors[e].api
    BY DEF TypesInv, EditorTyped, EntriesTyped
  <1>2. PICK audit : audit = Recorded(e, entries)
    OBVIOUS
  <1>3. audit \in Seq({"success", "error", "denied"})
    <2>1. audit \in {<<>>, entries}
      BY <1>2 DEF Recorded
    <2>. QED  BY <2>1, EntriesAre
  <1>4. PICK new : new = [Idle EXCEPT !.phase = "done", !.api = api, !.audit = audit]
    OBVIOUS
  <1>5. /\ new.phase = "done" /\ new.kind = Absent /\ new.opened = 0
        /\ new.target = Absent /\ new.version = NoVersion /\ new.sent = NoVersion
        /\ new.shown = Empty /\ new.incoming = Empty /\ new.base = Empty /\ new.fields = Empty
        /\ new.replace = FALSE
    BY <1>4 DEF Idle
  <1>6. EditorTyped(new)
    <2>1. new.api = api /\ new.wrote = FALSE /\ new.unheard = FALSE /\ new.audit = audit
      BY <1>4 DEF Idle
    <2>2. EntriesTyped(new)
      BY <1>3, <2>1 DEF EntriesTyped
    <2>. QED  BY <1>5, <2>2, DoneTyped
  <1>7. Becomes(e, new)
    BY <1>1, <1>2, <1>4 DEF Done
  <1>. QED  BY <1>6, <1>7, TypesRead

LEMMA TypesCarriedOut ==
  ASSUME TypesInv, EditInv', NEW e \in Editors, CarriedOut(e), ObjectsTyped(objects', revision')
  PROVE  TypesInv'
  <1>1. PICK lost \in BOOLEAN :
          Becomes(e, [Idle EXCEPT !.phase = "done", !.wrote = TRUE, !.unheard = lost, !.api = editors[e].api,
                        !.audit = Recorded(e, IF lost THEN <<"error">> ELSE <<"success">>)])
    BY DEF CarriedOut
  <1>2. PICK api \in BOOLEAN : api = editors[e].api
    BY DEF TypesInv, EditorTyped, EntriesTyped
  <1>3. PICK audit : audit = Recorded(e, IF lost THEN <<"error">> ELSE <<"success">>)
    OBVIOUS
  <1>4. audit \in Seq({"success", "error", "denied"})
    <2>1. audit \in {<<>>, <<"error">>, <<"success">>}
      BY <1>3 DEF Recorded
    <2>. QED  BY <2>1, EntriesAre
  <1>5. PICK new : new = [Idle EXCEPT !.phase = "done", !.wrote = TRUE, !.unheard = lost, !.api = api,
                            !.audit = audit]
    OBVIOUS
  <1>6. EditorTyped(new)
    <2>1. /\ new.phase = "done" /\ new.kind = Absent /\ new.opened = 0
          /\ new.target = Absent /\ new.version = NoVersion /\ new.sent = NoVersion
          /\ new.shown = Empty /\ new.incoming = Empty /\ new.base = Empty /\ new.fields = Empty
          /\ new.replace = FALSE
      BY <1>5 DEF Idle
    <2>2. new.api = api /\ new.wrote = TRUE /\ new.unheard = lost /\ new.audit = audit
      BY <1>5 DEF Idle
    <2>3. EntriesTyped(new)
      BY <1>4, <2>2 DEF EntriesTyped
    <2>. QED  BY <2>1, <2>3, DoneTyped
  <1>7. Becomes(e, new)
    BY <1>1, <1>2, <1>3, <1>5
  <1>. QED  BY <1>6, <1>7, TypesStep
(* What a step of a request leaves as it was.                              *)
SameEntries(x, new) ==
  new.audit = x.audit /\ new.api = x.api /\ new.wrote = x.wrote /\ new.unheard = x.unheard

LEMMA SameEntriesTyped ==
  ASSUME NEW x, EntriesTyped(x), NEW new, SameEntries(x, new)
  PROVE  EntriesTyped(new)
  BY DEF EntriesTyped, SameEntries

LEMMA SnapshotTyped ==
  ASSUME NEW x, EditorShape(x), EditorTyped(x), x.phase = "opening",
         NEW kind \in Kinds, NEW filled, IsSpec(filled), NEW version \in Versions,
         NEW new, new = [x EXCEPT !.phase = "form", !.kind = kind, !.shown = filled, !.version = version,
                                  !.opened = version]
  PROVE  EditorTyped(new)
  <1>1. /\ new.phase = "form" /\ new.kind = kind /\ new.shown = filled /\ new.version = version
        /\ new.incoming = x.incoming /\ new.replace = x.replace /\ new.fields = x.fields
        /\ new.target = x.target /\ new.base = x.base /\ new.sent = x.sent /\ new.opened = version
    BY DEF EditorShape
  <1>2. SameEntries(x, new)
    BY DEF EditorShape, SameEntries
  <1>3. RequestTyped(new)
    BY <1>1 DEF EditorTyped, RequestTyped, Phases
  <1>4. SpecsTyped(new)
    BY <1>1 DEF EditorTyped, SpecsTyped
  <1>5. Submitted(new)
    BY <1>1 DEF EditorTyped, Submitted
  <1>. QED  BY <1>2, <1>3, <1>4, <1>5, SameEntriesTyped DEF EditorTyped

(* A request that only goes on to its next phase, or asks to delete.       *)
LEMMA PhaseTyped ==
  ASSUME NEW x, EditorShape(x), EditorTyped(x), x.phase # "writing", NEW target \in Kinds \cup {Absent},
         NEW phase \in {"form", "updating", "deleting"},
         phase = "updating" /\ x.replace => x.incoming # Empty,
         NEW new, new = [x EXCEPT !.phase = phase, !.target = target]
  PROVE  EditorTyped(new)
  <1>1. /\ new.phase = phase /\ new.kind = x.kind /\ new.shown = x.shown /\ new.version = x.version
        /\ new.incoming = x.incoming /\ new.replace = x.replace /\ new.fields = x.fields
        /\ new.target = target /\ new.base = x.base /\ new.sent = x.sent /\ new.opened = x.opened
    BY DEF EditorShape
  <1>2. SameEntries(x, new)
    BY DEF EditorShape, SameEntries
  <1>3. RequestTyped(new)
    BY <1>1 DEF EditorTyped, RequestTyped, Phases
  <1>4. SpecsTyped(new)
    BY <1>1 DEF EditorTyped, SpecsTyped
  <1>5. Submitted(new)
    BY <1>1 DEF EditorTyped, Submitted
  <1>. QED  BY <1>2, <1>3, <1>4, <1>5, SameEntriesTyped DEF EditorTyped

LEMMA SubmittedTyped ==
  ASSUME NEW x, EditorShape(x), EditorTyped(x), x.phase # "writing",
         NEW phase \in {"loading", "updating"}, NEW incoming, IsSpec(incoming), NEW replace \in BOOLEAN,
         NEW fields, DOMAIN fields \subseteq Paths, fields \in [DOMAIN fields -> Scalars \cup {Empty}],
         ~replace => Submits(incoming, fields), replace => phase = "loading",
         NEW new, new = [x EXCEPT !.phase = phase, !.incoming = incoming, !.replace = replace, !.fields = fields]
  PROVE  EditorTyped(new)
  <1>1. /\ new.phase = phase /\ new.kind = x.kind /\ new.shown = x.shown /\ new.version = x.version
        /\ new.incoming = incoming /\ new.replace = replace /\ new.fields = fields
        /\ new.target = x.target /\ new.base = x.base /\ new.sent = x.sent /\ new.opened = x.opened
    BY DEF EditorShape
  <1>2. SameEntries(x, new)
    BY DEF EditorShape, SameEntries
  <1>3. RequestTyped(new)
    BY <1>1 DEF EditorTyped, RequestTyped, Phases
  <1>4. SpecsTyped(new)
    BY <1>1 DEF EditorTyped, SpecsTyped
  <1>5. Submitted(new)
    BY <1>1 DEF EditorTyped, Submitted
  <1>. QED  BY <1>2, <1>3, <1>4, <1>5, SameEntriesTyped DEF EditorTyped

LEMMA ReadTyped ==
  ASSUME NEW x, EditorShape(x), EditorTyped(x), x.phase = "updating",
         NEW target \in Kinds, NEW base, IsSpec(base), NEW sent \in Versions,
         NEW new, new = [x EXCEPT !.phase = "writing", !.target = target, !.base = base, !.sent = sent]
  PROVE  EditorTyped(new)
  <1>1. /\ new.phase = "writing" /\ new.kind = x.kind /\ new.shown = x.shown /\ new.version = x.version
        /\ new.incoming = x.incoming /\ new.replace = x.replace /\ new.fields = x.fields
        /\ new.target = target /\ new.base = base /\ new.sent = sent /\ new.opened = x.opened
    BY DEF EditorShape
  <1>2. SameEntries(x, new)
    BY DEF EditorShape, SameEntries
  <1>3. RequestTyped(new)
    <2>1. sent # NoVersion
      BY AppUpdatesAssumption DEF Versions
    <2>. QED  BY <1>1, <2>1 DEF EditorTyped, RequestTyped, Phases
  <1>4. SpecsTyped(new)
    BY <1>1 DEF EditorTyped, SpecsTyped
  <1>5. Submitted(new)
    BY <1>1 DEF EditorTyped, Submitted
  <1>. QED  BY <1>2, <1>3, <1>4, <1>5, SameEntriesTyped DEF EditorTyped

(* The objects, whoever writes and deletes them.                           *)
LEMMA StoreTyped ==
  ASSUME TypesInv, NEW k \in Kinds, NEW spec, IsSpec(spec), Store(k, spec)
  PROVE  ObjectsTyped(objects', revision')
  <1>1. revision' = revision + 1 /\ revision' \in Versions
    BY AppUpdatesAssumption DEF Store, Room, TypesInv, ObjectsTyped, Versions
  <1>2. PICK made : made = [version |-> revision + 1, spec |-> spec]
    OBVIOUS
  <1>3. made.version = revision' /\ made.spec = spec
    BY <1>1, <1>2
  <1>4. objects' = [objects EXCEPT ![k] = made] /\ objects = [j \in Kinds |-> objects[j]]
    BY <1>2 DEF Store, TypesInv, EditInv, ObjectsOK
  <1>5. \A j \in Kinds : objects'[j] = IF j = k THEN made ELSE objects[j]
    BY <1>4
  <1>. QED  BY <1>1, <1>3, <1>5 DEF TypesInv, ObjectsTyped

LEMMA EraseTyped ==
  ASSUME TypesInv, NEW k \in Kinds, Erase(k)
  PROVE  ObjectsTyped(objects', revision')
  <1>1. \A j \in Kinds : objects'[j] = Absent \/ objects'[j] = objects[j]
    BY DEF Erase, TypesInv, EditInv, ObjectsOK
  <1>. QED  BY <1>1 DEF Erase, TypesInv, ObjectsTyped

(* What an update puts is a spec.                                          *)
LEMMA PutsASpec ==
  ASSUME NEW x, EditorTyped(x)
  PROVE  IsSpec(PickNextSpec(x.base, x.incoming, x.replace))
  <1>1. PICK base, incoming : base = x.base /\ incoming = x.incoming
    OBVIOUS
  <1>2. IsSpec(base) /\ IsSpec(incoming)
    BY <1>1 DEF EditorTyped, SpecsTyped
  <1>3. IsSpec(DeepMerge(base, incoming))
    BY <1>2, MergeIsSpec
  <1>4. \A replace : IsSpec(PickNextSpec(base, incoming, replace))
    BY <1>2, <1>3 DEF PickNextSpec
  <1>. QED  BY <1>1, <1>4

LEMMA ShownFieldIs == \A e, path : ShownField(e, path) \in Scalars \cup {Blank}
  BY AppUpdatesAssumption DEF ShownField
LEMMA TypesInvStep == TypesInv /\ [Next]_vars => TypesInv'
  <1>. SUFFICES ASSUME TypesInv, [Next]_vars PROVE TypesInv'
    OBVIOUS
  <1>1. /\ EditInv /\ EditInv' /\ ObjectsTyped(objects, revision)
        /\ \A e \in Editors : EditorTyped(editors[e]) /\ EditorOK(objects, revision, editors[e])
        /\ (Found # Absent => Found \in Kinds)
    BY EditInvStep, FoundIsOne DEF TypesInv, EditInv
  <1>2. \A e \in Editors : EditorShape(editors[e])
    BY <1>1 DEF EditorOK, IsEditor, EditorShape
  <1>3. revision \in Versions /\ Found \in Kinds \cup {Absent}
    BY <1>1 DEF ObjectsTyped
  <1>4. ASSUME NEW e \in Editors, OpenForm(e) PROVE TypesInv'
    <2>1. PICK new : new = [Idle EXCEPT !.phase = "opening", !.kind = Found, !.opened = revision]
      OBVIOUS
    <2>2. Fresh(new) /\ new.phase = "opening" /\ new.kind = Found /\ new.opened = revision /\ new.api = FALSE
      BY <2>1 DEF Idle, Fresh
    <2>3. EditorTyped(new)
      BY <1>3, <2>2, FreshTyped
    <2>. QED  BY <1>1, <1>4, <2>1, <2>3, TypesRead DEF OpenForm
  <1>5. ASSUME NEW e \in Editors, RequestByAPI(e) \/ Reload(e) PROVE TypesInv'
    <2>1. PICK new : /\ \/ new = [Idle EXCEPT !.phase = "api", !.api = TRUE]
                        \/ new = Idle
                     /\ Becomes(e, new) /\ Reads
      BY <1>5 DEF RequestByAPI, Reload
    <2>2. Fresh(new) /\ new.phase \in {"idle", "api"} /\ new.kind = Absent /\ new.opened = 0
          /\ new.api \in BOOLEAN
      <3>1. CASE new = [Idle EXCEPT !.phase = "api", !.api = TRUE]
        <4>1. Fresh(new) /\ new.phase = "api" /\ new.kind = Absent /\ new.opened = 0 /\ new.api = TRUE
          BY <3>1 DEF Idle, Fresh
        <4>. QED  BY <4>1
      <3>2. CASE new = Idle
        <4>1. Fresh(new) /\ new.phase = "idle" /\ new.kind = Absent /\ new.opened = 0 /\ new.api = FALSE
          BY <3>2 DEF Idle, Fresh
        <4>. QED  BY <4>1
      <3>. QED  BY <2>1, <3>1, <3>2
    <2>3. 0 \in Versions
      BY AppUpdatesAssumption DEF Versions
    <2>4. EditorTyped(new)
      BY <2>2, <2>3, FreshTyped
    <2>. QED  BY <1>1, <2>1, <2>4, TypesRead
  <1>6. ASSUME NEW e \in Editors, TakeSnapshot(e) PROVE TypesInv'
    <2>1. PICK kind, filled, version :
            kind = Found /\ filled = objects[Found].spec /\ version = objects[Found].version
      OBVIOUS
    <2>2. PICK new : new = [editors[e] EXCEPT !.phase = "form", !.kind = kind, !.shown = filled,
                                              !.version = version, !.opened = version]
      OBVIOUS
    <2>3. Becomes(e, new) /\ Reads /\ editors[e].phase = "opening" /\ kind \in Kinds
      BY <1>1, <1>6, <2>1, <2>2 DEF TakeSnapshot, Stage
    <2>4. version \in Versions /\ IsSpec(filled)
      BY <1>1, <1>6, <2>1 DEF TakeSnapshot, ObjectsTyped
    <2>5. EditorTyped(new)
      BY <1>1, <1>2, <2>2, <2>3, <2>4, SnapshotTyped
    <2>. QED  BY <1>1, <2>3, <2>5, TypesRead
  <1>7. ASSUME NEW e \in Editors, SnapshotFails(e) \/ LoadForUpdate(e) PROVE TypesInv'
    <2>1. PICK x : x = editors[e]
      OBVIOUS
    <2>2. EditorShape(x) /\ EditorTyped(x)
      BY <1>1, <1>2, <2>1
    <2>3. PICK phase \in {"form", "updating"} :
            /\ Becomes(e, [x EXCEPT !.phase = phase]) /\ Reads /\ x.phase \in {"opening", "loading"}
            /\ phase = "updating" => ~RefusesSpec(e)
      BY <1>7, <2>1 DEF SnapshotFails, LoadForUpdate, Stage
    <2>4. phase = "updating" /\ x.replace => x.incoming # Empty
      BY <2>1, <2>3 DEF RefusesSpec
    <2>5. PICK new : new = [x EXCEPT !.phase = phase]
      OBVIOUS
    <2>6. new = [x EXCEPT !.phase = phase, !.target = x.target]
      BY <2>2, <2>5 DEF EditorShape
    <2>7. x.target \in Kinds \cup {Absent} /\ x.phase # "writing"
      BY <2>2, <2>3 DEF EditorTyped, RequestTyped
    <2>8. EditorTyped(new)
      BY <2>2, <2>4, <2>6, <2>7, PhaseTyped
    <2>. QED  BY <1>1, <2>3, <2>5, <2>8, TypesRead
  <1>8. ASSUME NEW e \in Editors, SubmitForm(e) PROVE TypesInv'
    <2>1. PICK changed \in Rendered, value \in Scalars \cup {Blank}, order \in Orders(Rendered) :
       LET form == [p \in Rendered |-> IF p = changed THEN value ELSE ShownField(e, p)]
       IN  Becomes(e, [editors[e] EXCEPT !.phase = "loading",
                         !.incoming = ExtractSpec(form, order), !.replace = FALSE,
                         !.fields = Restrict(form, {p \in Rendered : form[p] # Blank})])
      BY <1>8 DEF SubmitForm
    <2>2. PICK form : form = [p \in Rendered |-> IF p = changed THEN value ELSE ShownField(e, p)]
      OBVIOUS
    <2>3. PICK incoming, fields : incoming = ExtractSpec(form, order)
                                 /\ fields = Restrict(form, {p \in Rendered : form[p] # Blank})
      OBVIOUS
    <2>4. PICK new : new = [editors[e] EXCEPT !.phase = "loading", !.incoming = incoming, !.replace = FALSE,
                                              !.fields = fields]
      OBVIOUS
    <2>5. Becomes(e, new) /\ Reads /\ editors[e].phase = "form"
      BY <1>8, <2>1, <2>2, <2>3, <2>4 DEF SubmitForm, Stage
    <2>6. \A p \in Rendered : form[p] \in Scalars \cup {Blank}
      BY <2>2, ShownFieldIs
    <2>7. Submits(incoming, fields)
      BY <2>3, <2>6, AppUpdatesAssumption, FormSubmits
    <2>8. /\ DOMAIN fields = {p \in Rendered : form[p] # Blank}
          /\ fields = [p \in DOMAIN fields |-> form[p]]
      BY <2>3 DEF Restrict
    <2>9. DOMAIN fields \subseteq Paths /\ fields \in [DOMAIN fields -> Scalars \cup {Empty}] /\ IsSpec(incoming)
      BY <2>6, <2>7, <2>8 DEF Submits
    <2>10. EditorTyped(new)
      BY <1>1, <1>2, <2>4, <2>5, <2>7, <2>9, SubmittedTyped
    <2>. QED  BY <1>1, <2>5, <2>10, TypesRead
  <1>9. ASSUME NEW e \in Editors, SubmitYAML(e) PROVE TypesInv'
    <2>1. PICK x : x = editors[e]
      OBVIOUS
    <2>2. PICK spec \in Typed \cup {Empty} :
            Becomes(e, [x EXCEPT !.phase = "loading", !.incoming = spec, !.replace = TRUE])
      BY <1>9, <2>1 DEF SubmitYAML
    <2>3. PICK fields : fields = x.fields
      OBVIOUS
    <2>4. EditorShape(x) /\ EditorTyped(x) /\ x.phase = "form" /\ Reads
      BY <1>1, <1>2, <1>9, <2>1 DEF SubmitYAML, Stage
    <2>5. PICK new : new = [x EXCEPT !.phase = "loading", !.incoming = spec, !.replace = TRUE]
      OBVIOUS
    <2>6. new = [x EXCEPT !.phase = "loading", !.incoming = spec, !.replace = TRUE, !.fields = fields]
      BY <2>3, <2>4, <2>5 DEF EditorShape
    <2>7. IsSpec(spec)
      BY AppUpdatesAssumption, EmptySubmitted
    <2>8. DOMAIN fields \subseteq Paths /\ fields \in [DOMAIN fields -> Scalars \cup {Empty}]
      BY <2>3, <2>4 DEF EditorTyped, SpecsTyped
    <2>9. EditorTyped(new)
      BY <2>4, <2>6, <2>7, <2>8, SubmittedTyped
    <2>. QED  BY <1>1, <2>1, <2>2, <2>4, <2>5, <2>9, TypesRead
  <1>10. ASSUME NEW e \in Editors, UpdateByAPI(e) PROVE TypesInv'
    <2>1. PICK x : x = editors[e]
      OBVIOUS
    <2>2. PICK spec \in Typed : Becomes(e, [x EXCEPT !.phase = "updating", !.incoming = spec, !.fields = Tips(spec)])
      BY <1>10, <2>1 DEF UpdateByAPI
    <2>3. EditorShape(x) /\ EditorTyped(x) /\ x.phase = "api" /\ Reads
      BY <1>1, <1>2, <1>10, <2>1 DEF UpdateByAPI, Stage
    <2>4. x.replace = FALSE
      BY <2>3 DEF EditorTyped, Submitted
    <2>5. PICK fields : fields = Tips(spec)
      OBVIOUS
    <2>6. PICK new : new = [x EXCEPT !.phase = "updating", !.incoming = spec, !.fields = fields]
      OBVIOUS
    <2>7. new = [x EXCEPT !.phase = "updating", !.incoming = spec, !.replace = FALSE, !.fields = fields]
      BY <2>3, <2>4, <2>6 DEF EditorShape
    <2>8. IsSpec(spec)
      BY AppUpdatesAssumption
    <2>9. Submits(spec, fields)
      BY <2>5, <2>8, TipsSubmitted
    <2>10. DOMAIN fields \subseteq Paths /\ fields \in [DOMAIN fields -> Scalars \cup {Empty}]
      <3>1. fields = [p \in DOMAIN fields |-> fields[p]]
        BY <2>5 DEF Tips
      <3>. QED  BY <2>9, <3>1 DEF Submits
    <2>11. EditorTyped(new)
      BY <2>3, <2>7, <2>8, <2>9, <2>10, SubmittedTyped
    <2>. QED  BY <1>1, <2>2, <2>3, <2>5, <2>6, <2>11, TypesRead
  <1>11. ASSUME NEW e \in Editors, LoadFails(e) \/ BuildFails(e) \/ UpdateFails(e) \/ PutConflicts(e)
         PROVE  TypesInv'
    <2>1. PICK entries \in {<<>>, <<"error">>, <<"denied">>} : Done(e, entries) /\ Reads
      BY <1>11 DEF LoadFails, BuildFails, UpdateFails, PutConflicts, ConflictEntries
    <2>. QED  BY <1>1, <2>1, TypesDone
  <1>12. ASSUME NEW e \in Editors, ReadForUpdate(e) PROVE TypesInv'
    <2>1. PICK target, base, sent :
            target = Found /\ base = objects[Found].spec /\ sent = SentVersion(e, Found)
      OBVIOUS
    <2>2. PICK new : new = [editors[e] EXCEPT !.phase = "writing", !.target = target, !.base = base,
                                              !.sent = sent]
      OBVIOUS
    <2>3. Becomes(e, new) /\ Reads /\ target \in Kinds /\ editors[e].phase = "updating"
      BY <1>1, <1>12, <2>1, <2>2 DEF ReadForUpdate, Stage
    <2>4. IsSpec(base) /\ objects[Found].version \in Versions
      BY <1>1, <1>12, <2>1 DEF ReadForUpdate, ObjectsTyped
    <2>5. sent \in Versions
      BY <1>1, <2>1, <2>4 DEF SentVersion, EditorTyped, RequestTyped
    <2>6. EditorTyped(new)
      BY <1>1, <1>2, <2>2, <2>3, <2>4, <2>5, ReadTyped
    <2>. QED  BY <1>1, <2>3, <2>6, TypesRead
  <1>13. ASSUME NEW e \in Editors, Put(e) PROVE TypesInv'
    <2>1. editors[e].target \in Kinds
      BY <1>1, <1>13 DEF Put, Stage, EditorOK, SendsWhatItRead
    <2>2. IsSpec(PickNextSpec(editors[e].base, editors[e].incoming, editors[e].replace))
      BY <1>1, PutsASpec
    <2>3. ObjectsTyped(objects', revision')
      BY <1>13, <2>1, <2>2, StoreTyped DEF Put
    <2>. QED  BY <1>1, <1>13, <2>3, TypesCarriedOut DEF Put
  <1>14. ASSUME NEW e \in Editors, NEW k \in Kinds, CreateApp(e, k) PROVE TypesInv'
    <2>1. CASE \E entries \in {<<>>, <<"error">>, <<"denied">>} : Done(e, entries) /\ Reads
      BY <1>1, <2>1, TypesDone
    <2>2. CASE (\E spec \in Typed : Store(k, spec)) /\ CarriedOut(e)
      <3>1. ObjectsTyped(objects', revision')
        BY <2>2, AppUpdatesAssumption, StoreTyped
      <3>. QED  BY <1>1, <2>2, <3>1, TypesCarriedOut
    <2>. QED  BY <1>14, <2>1, <2>2 DEF CreateApp
  <1>15. ASSUME NEW e \in Editors, DeleteApp(e) PROVE TypesInv'
    <2>1. CASE Done(e, <<"error">>)
      BY <1>1, <1>15, <2>1, TypesDone DEF DeleteApp
    <2>2. CASE Found # Absent /\ Becomes(e, [editors[e] EXCEPT !.phase = "deleting", !.target = Found])
      <3>1. PICK x, target : x = editors[e] /\ target = Found
        OBVIOUS
      <3>2. PICK new : new = [x EXCEPT !.phase = "deleting", !.target = target]
        OBVIOUS
      <3>3. x.phase # "writing" /\ Reads
        BY <1>15, <3>1 DEF DeleteApp, Asks
      <3>4. EditorTyped(new)
        BY <1>1, <1>2, <1>3, <3>1, <3>2, <3>3, PhaseTyped
      <3>. QED  BY <1>1, <2>2, <3>1, <3>2, <3>3, <3>4, TypesRead
    <2>. QED  BY <1>15, <2>1, <2>2 DEF DeleteApp
  <1>16. ASSUME NEW e \in Editors, Delete(e) PROVE TypesInv'
    <2>1. CASE Done(e, <<"error">>) /\ Reads
      BY <1>1, <2>1, TypesDone
    <2>2. CASE Erase(editors[e].target) /\ CarriedOut(e)
      <3>1. editors[e].target \in Kinds
        BY <1>1, <1>16 DEF Delete, Stage, EditorOK, IsEditor
      <3>2. ObjectsTyped(objects', revision')
        BY <2>2, <3>1, EraseTyped
      <3>. QED  BY <1>1, <2>2, <3>2, TypesCarriedOut
    <2>. QED  BY <1>16, <2>1, <2>2 DEF Delete
  <1>17. ASSUME UNCHANGED editors, ObjectsTyped(objects', revision') PROVE TypesInv'
    BY <1>1, <1>17 DEF TypesInv
  <1>18. ASSUME NEW k \in Kinds, OtherWrites(k) PROVE TypesInv'
    <2>1. PICK spec \in Typed \cup (IF objects[k] = Absent THEN {} ELSE {objects[k].spec}) : Store(k, spec)
      BY <1>18 DEF OtherWrites
    <2>2. IsSpec(spec)
      BY <1>1, AppUpdatesAssumption DEF ObjectsTyped
    <2>3. ObjectsTyped(objects', revision')
      BY <2>1, <2>2, StoreTyped
    <2>. QED  BY <1>17, <1>18, <2>3 DEF OtherWrites
  <1>19. ASSUME NEW k \in Kinds, OtherDeletes(k) PROVE TypesInv'
    BY <1>17, <1>19, EraseTyped DEF OtherDeletes
  <1>20. ASSUME UNCHANGED <<objects, revision, editors>> PROVE TypesInv'
    <2>1. ObjectsTyped(objects', revision')
      BY <1>1, <1>20
    <2>. QED  BY <1>17, <1>20, <2>1
  <1>21. ASSUME (\E k \in Kinds : Reconcile(k)) \/ UNCHANGED vars PROVE TypesInv'
    BY <1>20, <1>21 DEF Reconcile, vars
  <1>. QED  BY <1>4, <1>5, <1>6, <1>7, <1>8, <1>9, <1>10, <1>11, <1>12, <1>13, <1>14, <1>15, <1>16,
               <1>18, <1>19, <1>21 DEF Next, Update

LEMMA TypesInvInit == Init => TypesInv
  <1>. SUFFICES ASSUME Init PROVE TypesInv
    OBVIOUS
  <1>1. PICK k \in Kinds, spec \in Typed :
          objects = [x \in Kinds |-> IF x = k THEN [version |-> 0, spec |-> spec] ELSE Absent]
    BY DEF Init
  <1>2. 0 \in Versions /\ IsSpec(spec)
    BY AppUpdatesAssumption DEF Versions
  <1>3. revision = 0 /\ editors = [e \in Editors |-> Idle]
    BY DEF Init
  <1>4. PICK made : made = [version |-> 0, spec |-> spec]
    OBVIOUS
  <1>5. made.version = 0 /\ made.spec = spec
    BY <1>4
  <1>6. ObjectsTyped(objects, revision)
    BY <1>1, <1>2, <1>3, <1>4, <1>5 DEF ObjectsTyped
  <1>7. Fresh(Idle) /\ Idle.phase = "idle" /\ Idle.kind = Absent /\ Idle.opened = 0 /\ Idle.api = FALSE
    BY DEF Idle, Fresh
  <1>8. EditorTyped(Idle)
    BY <1>2, <1>7, FreshTyped
  <1>. QED  BY <1>3, <1>6, <1>8, EditInvInit DEF TypesInv

(* With what every request holds, the invariant is inductive too.          *)
THEOREM EditTypes == Spec => []TypesInv
  <1>. QED  BY TypesInvInit, TypesInvStep, PTL DEF Spec

(* Every variable of the edits has its type, and only an update about to   *)
(* write has something to send.                                            *)
THEOREM EditsTyped == Spec => []TypeOK
  <1>1. TypesInv => TypeOK
    <2>. SUFFICES ASSUME TypesInv PROVE TypeOK
      OBVIOUS
    <2>1. /\ DOMAIN objects = Kinds /\ releases \subseteq Kinds /\ DOMAIN editors = Editors
      BY DEF TypesInv, EditInv, ObjectsOK
    <2>2. /\ revision \in Versions
          /\ \A k \in Kinds : \/ objects[k] = Absent
                              \/ objects[k].version \in Versions /\ IsSpec(objects[k].spec)
      BY DEF TypesInv, ObjectsTyped
    <2>3. ASSUME NEW e \in Editors
          PROVE  /\ editors[e].phase \in Phases
                 /\ {editors[e].kind, editors[e].target} \subseteq Kinds \cup {Absent}
                 /\ {editors[e].version, editors[e].sent} \subseteq Versions \cup {NoVersion}
                 /\ editors[e].opened \in Versions
                 /\ Stage(e, "writing") <=> editors[e].sent # NoVersion
      BY DEF TypesInv, EditorTyped, RequestTyped, Stage
    <2>4. ASSUME NEW e \in Editors
          PROVE  /\ \A spec \in {editors[e].shown, editors[e].incoming, editors[e].base} : IsSpec(spec)
                 /\ editors[e].fields \in [DOMAIN editors[e].fields -> Scalars \cup {Empty}]
                 /\ DOMAIN editors[e].fields \subseteq Paths
      BY DEF TypesInv, EditorTyped, SpecsTyped
    <2>5. ASSUME NEW e \in Editors
          PROVE  /\ editors[e].audit \in Seq({"success", "error", "denied"})
                 /\ {editors[e].api, editors[e].wrote, editors[e].unheard} \subseteq BOOLEAN
      BY DEF TypesInv, EditorTyped, EntriesTyped
    <2>6. ASSUME NEW e \in Editors
          PROVE  {editors[e].api, editors[e].replace, editors[e].wrote, editors[e].unheard} \subseteq BOOLEAN
      BY <2>5 DEF TypesInv, EditorTyped, Submitted
    <2>. QED  BY <2>1, <2>2, <2>3, <2>4, <2>5, <2>6 DEF TypeOK
  <1>. QED  BY <1>1, EditTypes, PTL

(* A save sets what it submits and keeps the rest (pickNextSpec,           *)
(* deepMergeSpec, extractSpecFromForm): for every spec, every set of       *)
(* fields, every order a form is ranged over in and every step of others.  *)
THEOREM SavesAreWhatWasAsked == Spec => SavesWhatWasAsked
  <1>1. ASSUME TypesInv, [Next]_vars, NEW e \in Editors, Writes(e)
        PROVE  IF editors[e].replace THEN New(e) = editors[e].incoming /\ New(e) # Empty
               ELSE \A p \in Paths :
                      /\ ~Touched(e, p) => At(New(e), p) = At(Old(e).spec, p)
                      /\ p \in DOMAIN editors[e].fields => SetAsAsked(e, p)
    <2>1. PICK x : x = editors[e]
      OBVIOUS
    <2>2. EditInv /\ EditorOK(objects, revision, x) /\ EditorTyped(x) /\ x.phase = "writing"
      BY <1>1, <2>1 DEF TypesInv, EditInv, Writes, Stage
    <2>3. Put(e)
      BY <1>1, <2>2, OnlyPutUpdates
    <2>4. x.target \in Kinds /\ objects = [k \in Kinds |-> objects[k]]
      BY <2>2 DEF EditorOK, SendsWhatItRead, EditInv, ObjectsOK
    <2>5. Old(e) # Absent /\ Old(e).version = x.sent /\ Old(e) = objects[x.target]
      BY <2>1, <2>3 DEF Put, Current, Old
    <2>6. Old(e).spec = x.base
      BY <2>2, <2>5 DEF EditorOK, SendsWhatItRead
    <2>7. PICK put : put = PickNextSpec(x.base, x.incoming, x.replace)
      OBVIOUS
    <2>8. New(e) = put
      <3>1. PICK made : made = [version |-> revision + 1, spec |-> put]
        OBVIOUS
      <3>2. objects' = [objects EXCEPT ![x.target] = made]
        BY <2>1, <2>3, <2>7, <3>1 DEF Put, Store
      <3>3. objects'[x.target] = made /\ made.spec = put
        BY <2>4, <3>1, <3>2
      <3>. QED  BY <2>1, <3>3 DEF New
    <2>9. CASE x.replace
      <3>1. put = x.incoming
        BY <2>7, <2>9 DEF PickNextSpec
      <3>2. x.incoming # Empty
        BY <2>2, <2>9 DEF EditorTyped, Submitted
      <3>. QED  BY <2>1, <2>8, <2>9, <3>1, <3>2
    <2>10. CASE ~x.replace
      <3>1. PICK base, incoming, fields : base = x.base /\ incoming = x.incoming /\ fields = x.fields
        OBVIOUS
      <3>2. put = DeepMerge(base, incoming)
        BY <2>7, <2>10, <3>1 DEF PickNextSpec
      <3>3. IsSpec(base) /\ Submits(incoming, fields)
        BY <2>2, <2>10, <3>1 DEF EditorTyped, SpecsTyped, Submitted
      <3>4. ASSUME NEW p \in Paths, ~Touched(e, p) PROVE At(New(e), p) = At(Old(e).spec, p)
        <4>1. Apart(DOMAIN fields, p)
          BY <2>1, <3>1, <3>4 DEF Touched, Apart
        <4>2. At(put, p) = At(base, p)
          BY <3>2, <3>3, <4>1, MergeKeeps
        <4>. QED  BY <2>6, <2>8, <3>1, <4>2
      <3>5. ASSUME NEW p \in DOMAIN editors[e].fields PROVE SetAsAsked(e, p)
        <4>1. p \in DOMAIN fields
          BY <2>1, <3>1
        <4>2. IF fields[p] \in Scalars THEN At(put, p) = fields[p] ELSE At(put, p) \in Maps
          BY <3>2, <3>3, <4>1, MergeSets
        <4>3. At(New(e), p) = At(put, p) /\ editors[e].fields[p] = fields[p]
          BY <2>1, <2>8, <3>1
        <4>. QED  BY <4>2, <4>3 DEF SetAsAsked
      <3>. QED  BY <2>1, <2>10, <3>4, <3>5
    <2>. QED  BY <2>9, <2>10
  <1>2. TypesInv /\ [Next]_vars =>
          \A e \in Editors : Writes(e) =>
            IF editors[e].replace THEN New(e) = editors[e].incoming /\ New(e) # Empty
            ELSE \A p \in Paths :
                   /\ ~Touched(e, p) => At(New(e), p) = At(Old(e).spec, p)
                   /\ p \in DOMAIN editors[e].fields => SetAsAsked(e, p)
    BY <1>1
  <1>. QED  BY <1>2, EditTypes, PTL DEF Spec, SavesWhatWasAsked
-----------------------------------------------------------------------------
(* Tenants.  The same holds of them, for the row that was clicked.         *)
TenantsOK(objs, rev) ==
  /\ rev \in Nat
  /\ objs = [s \in Slots |-> objs[s]]
  /\ \A s \in Slots : objs[s] # NoTenant => objs[s].version \in Nat /\ objs[s].version <= rev
  /\ \A r, s \in Slots :
       objs[r] # NoTenant /\ objs[s] # NoTenant /\ objs[r].version = objs[s].version => r = s

PinsItsRow(objs, rev, x) ==
  x.version # NoPin =>
    /\ x.version \in Nat /\ x.version <= rev
    /\ \A s \in Slots : objs[s] # NoTenant /\ objs[s].version = x.version =>
         s = x.row /\ objs[s].spec = x.shown

SavesWhatItRead(objs, rev, x) ==
  x.phase = "writing" =>
    /\ x.sent \in Nat /\ x.sent <= rev
    /\ x.version # NoPin => x.sent = x.version
    /\ objs[x.target] # NoTenant /\ objs[x.target].version = x.sent => objs[x.target].spec = x.base

EntriesOK(x) ==
  x.phase = "over" /\ ~x.api =>
    /\ Len(x.audit) <= 1
    /\ x.wrote => x.audit = IF x.unheard THEN <<"error">> ELSE <<"success">>
    /\ ~x.wrote => x.audit # <<"success">>

AdminShape(x) ==
  x = [phase |-> x.phase, row |-> x.row, target |-> x.target, shown |-> x.shown,
       version |-> x.version, fields |-> x.fields, base |-> x.base, sent |-> x.sent,
       api |-> x.api, audit |-> x.audit, wrote |-> x.wrote, unheard |-> x.unheard]

IsAdmin(x) ==
  /\ AdminShape(x)
  /\ x.wrote \in BOOLEAN /\ (x.wrote => x.phase = "over")
  /\ x.phase \in {"opening", "form", "updating", "writing"} => x.target \in Slots
  /\ x.phase = "opening" => x.row \in Slots

AdminOK(objs, rev, x) ==
  IsAdmin(x) /\ PinsItsRow(objs, rev, x) /\ SavesWhatItRead(objs, rev, x) /\ EntriesOK(x)

TenantInv ==
  /\ TenantsOK(tenants, writes)
  /\ admins = [a \in Admins |-> admins[a]]
  /\ \A a \in Admins : AdminOK(tenants, writes, admins[a])

LEMMA StoresKeeps ==
  ASSUME NEW objs, NEW rev, TenantsOK(objs, rev), NEW s \in Slots, NEW spec,
         NEW new, new = [objs EXCEPT ![s] = [version |-> rev + 1, spec |-> spec]]
  PROVE  /\ TenantsOK(new, rev + 1)
         /\ \A x : AdminOK(objs, rev, x) => AdminOK(new, rev + 1, x)
  <1>1. new[s].version = rev + 1 /\ \A r \in Slots \ {s} : new[r] = objs[r]
    BY DEF TenantsOK
  <1>2. rev \in Nat /\ rev + 1 \in Nat /\ rev <= rev + 1
    BY DEF TenantsOK
  <1>3. \A r \in Slots : objs[r] # NoTenant => objs[r].version # rev + 1
    BY <1>2 DEF TenantsOK
  <1>4. TenantsOK(new, rev + 1)
    <2>1. new = [r \in Slots |-> new[r]]
      BY DEF TenantsOK
    <2>2. ASSUME NEW r \in Slots, new[r] # NoTenant
          PROVE  new[r].version \in Nat /\ new[r].version <= rev + 1
      BY <1>1, <1>2, <2>2 DEF TenantsOK
    <2>3. ASSUME NEW q \in Slots, NEW r \in Slots, new[q] # NoTenant, new[r] # NoTenant,
                 new[q].version = new[r].version
          PROVE  q = r
      BY <1>1, <1>3, <2>3 DEF TenantsOK
    <2>. QED  BY <1>2, <2>1, <2>2, <2>3 DEF TenantsOK
  <1>5. ASSUME NEW x, AdminOK(objs, rev, x) PROVE AdminOK(new, rev + 1, x)
    <2>1. PinsItsRow(new, rev + 1, x)
      BY <1>1, <1>2, <1>5 DEF AdminOK, PinsItsRow
    <2>2. SavesWhatItRead(new, rev + 1, x)
      BY <1>1, <1>2, <1>5 DEF AdminOK, IsAdmin, SavesWhatItRead
    <2>. QED  BY <1>5, <2>1, <2>2 DEF AdminOK
  <1>. QED  BY <1>4, <1>5

LEMMA RemovesKeeps ==
  ASSUME NEW objs, NEW rev, TenantsOK(objs, rev), NEW s \in Slots,
         NEW new, new = [objs EXCEPT ![s] = NoTenant]
  PROVE  /\ TenantsOK(new, rev)
         /\ \A x : AdminOK(objs, rev, x) => AdminOK(new, rev, x)
  <1>1. new = [r \in Slots |-> new[r]] /\ \A r \in Slots : new[r] = objs[r] \/ new[r] = NoTenant
    BY DEF TenantsOK
  <1>2. TenantsOK(new, rev)
    BY <1>1 DEF TenantsOK
  <1>3. ASSUME NEW x, AdminOK(objs, rev, x) PROVE AdminOK(new, rev, x)
    <2>1. PinsItsRow(new, rev, x)
      BY <1>1, <1>3 DEF AdminOK, PinsItsRow
    <2>2. SavesWhatItRead(new, rev, x)
      BY <1>1, <1>3 DEF AdminOK, IsAdmin, SavesWhatItRead
    <2>. QED  BY <1>3, <2>1, <2>2 DEF AdminOK
  <1>. QED  BY <1>2, <1>3

(* The tenant a request finds is one there can be.                         *)
LEMMA FirstIsOne ==
  ASSUME NEW S \in SUBSET Slots, S # {}
  PROVE  FirstListed(S) \in S
  <1>1. DEFINE P == {i \in DOMAIN TenantOrder : TenantOrder[i] \in S}
  <1>2. TenantOrder \in Seq(Slots) /\ DOMAIN TenantOrder = 1 .. Len(TenantOrder) /\ Len(TenantOrder) \in Nat
    BY TenantEditsAssumption
  <1>3. P \subseteq Nat /\ P # {}
    BY <1>2 DEF Slots, ToSet
  <1>4. PICK i \in P : \A j \in P : i <= j
    BY <1>3, LeastOf
  <1>5. \A j \in 1 .. i - 1 : TenantOrder[j] \notin S
    BY <1>2, <1>3, <1>4
  <1>. QED  BY <1>4, <1>5 DEF FirstListed

LEMMA FindsATenant == \A name : FindTenant(name) # NoTenant => FindTenant(name) \in Slots
  <1>1. \A name : Named(name) \subseteq Slots /\ InNamespace(name) \subseteq Slots
    BY DEF Named, InNamespace
  <1>. QED  BY <1>1, FirstIsOne DEF FindTenant

LEMMA AdminStep ==
  ASSUME TenantInv, NEW a \in Admins, NEW new, Turns(a, new), TenantsOK(tenants', writes'),
         \A x : AdminOK(tenants, writes, x) => AdminOK(tenants', writes', x),
         AdminOK(tenants', writes', new)
  PROVE  TenantInv'
  <1>1. admins' = [admins EXCEPT ![a] = new] /\ admins = [b \in Admins |-> admins[b]]
    BY DEF Turns, TenantInv
  <1>2. admins' = [b \in Admins |-> admins'[b]]
        /\ \A b \in Admins : admins'[b] = new \/ admins'[b] = admins[b]
    BY <1>1
  <1>3. \A b \in Admins : AdminOK(tenants', writes', admins'[b])
    BY <1>2 DEF TenantInv
  <1>. QED  BY <1>2, <1>3 DEF TenantInv

LEMMA AdminReads ==
  ASSUME TenantInv, NEW a \in Admins, NEW new, Turns(a, new), OnlyReads, AdminOK(tenants, writes, new)
  PROVE  TenantInv'
  <1>1. tenants' = tenants /\ writes' = writes
    BY DEF OnlyReads
  <1>. QED  BY <1>1, AdminStep DEF TenantInv

(* A request that is over, without and with a change.                      *)
LEMMA OverOK ==
  ASSUME NEW objs, NEW rev, NEW api, NEW audit, NEW wrote \in BOOLEAN, NEW unheard \in BOOLEAN,
         ~api /\ ~wrote => audit \in {<<>>, <<"error">>, <<"denied">>},
         ~api /\ wrote => audit = IF unheard THEN <<"error">> ELSE <<"success">>,
         NEW new, AdminShape(new), new.phase = "over", new.version = NoPin, new.api = api,
         new.audit = audit, new.wrote = wrote, new.unheard = unheard
  PROVE  AdminOK(objs, rev, new)
  <1>1. EntriesOK(new)
    <2>1. ~api /\ wrote => audit = <<"error">> \/ audit = <<"success">>
      OBVIOUS
    <2>2. ~api => audit = <<>> \/ audit = <<"error">> \/ audit = <<"denied">> \/ audit = <<"success">>
      BY <2>1
    <2>3. ~api /\ ~wrote => audit # <<"success">>
      BY EntriesOfEdits
    <2>4. ASSUME ~api PROVE Len(audit) <= 1
      <3>1. CASE audit = <<>>
        BY <3>1, EntriesOfEdits
      <3>2. CASE audit = <<"error">>
        BY <3>2, EntriesOfEdits
      <3>3. CASE audit = <<"denied">>
        BY <3>3, EntriesOfEdits
      <3>4. CASE audit = <<"success">>
        BY <3>4, EntriesOfEdits
      <3>. QED  BY <2>2, <2>4, <3>1, <3>2, <3>3, <3>4
    <2>. QED  BY <2>3, <2>4 DEF EntriesOK
  <1>. QED  BY <1>1 DEF AdminOK, IsAdmin, PinsItsRow, SavesWhatItRead

LEMMA EndsKeeps ==
  ASSUME TenantInv, NEW a \in Admins, NEW entries \in {<<>>, <<"error">>, <<"denied">>},
         Ends(a, entries), OnlyReads
  PROVE  TenantInv'
  <1>1. PICK audit : audit = Leaves(a, entries)
    OBVIOUS
  <1>2. PICK api : api = admins[a].api
    OBVIOUS
  <1>3. ~api => audit \in {<<>>, <<"error">>, <<"denied">>}
    BY <1>1, <1>2 DEF Leaves
  <1>4. PICK new : new = [AtPage EXCEPT !.phase = "over", !.api = api, !.audit = audit]
    OBVIOUS
  <1>5. Turns(a, new)
    BY <1>1, <1>2, <1>4 DEF Ends
  <1>6. AdminShape(new) /\ new.phase = "over" /\ new.version = NoPin /\ new.api = api
        /\ new.audit = audit /\ new.wrote = FALSE /\ new.unheard = FALSE
    BY <1>4 DEF AtPage, AdminShape
  <1>7. AdminOK(tenants, writes, new)
    BY <1>3, <1>6, OverOK
  <1>. QED  BY <1>5, <1>7, AdminReads

LEMMA AnsweredKeeps ==
  ASSUME TenantInv, NEW a \in Admins, Answered(a), TenantsOK(tenants', writes'),
         \A x : AdminOK(tenants, writes, x) => AdminOK(tenants', writes', x)
  PROVE  TenantInv'
  <1>1. PICK unheard \in BOOLEAN :
          Turns(a, [AtPage EXCEPT !.phase = "over", !.wrote = TRUE, !.unheard = unheard, !.api = admins[a].api,
                      !.audit = Leaves(a, IF unheard THEN <<"error">> ELSE <<"success">>)])
    BY DEF Answered
  <1>2. PICK audit : audit = Leaves(a, IF unheard THEN <<"error">> ELSE <<"success">>)
    OBVIOUS
  <1>3. PICK api : api = admins[a].api
    OBVIOUS
  <1>4. ~api => audit = IF unheard THEN <<"error">> ELSE <<"success">>
    BY <1>2, <1>3 DEF Leaves
  <1>5. PICK new : new = [AtPage EXCEPT !.phase = "over", !.wrote = TRUE, !.unheard = unheard,
                            !.api = api, !.audit = audit]
    OBVIOUS
  <1>6. Turns(a, new)
    BY <1>1, <1>2, <1>3, <1>5
  <1>7. AdminShape(new) /\ new.phase = "over" /\ new.version = NoPin /\ new.api = api
        /\ new.audit = audit /\ new.wrote = TRUE /\ new.unheard = unheard
    BY <1>5 DEF AtPage, AdminShape
  <1>8. AdminOK(tenants', writes', new)
    BY <1>4, <1>7, OverOK
  <1>. QED  BY <1>6, <1>8, AdminStep

(* The two changes of the cluster.                                         *)
LEMMA StoresStep ==
  ASSUME TenantInv, NEW s \in Slots, NEW spec, Stores(s, spec)
  PROVE  /\ TenantsOK(tenants', writes')
         /\ \A x : AdminOK(tenants, writes, x) => AdminOK(tenants', writes', x)
  BY StoresKeeps DEF Stores, TenantInv

LEMMA RemovesStep ==
  ASSUME TenantInv, NEW s \in Slots, Removes(s)
  PROVE  /\ TenantsOK(tenants', writes')
         /\ \A x : AdminOK(tenants, writes, x) => AdminOK(tenants', writes', x)
  BY RemovesKeeps DEF Removes, TenantInv

LEMMA OthersOnly ==
  ASSUME TenantInv, UNCHANGED admins, TenantsOK(tenants', writes'),
         \A x : AdminOK(tenants, writes, x) => AdminOK(tenants', writes', x)
  PROVE  TenantInv'
  BY DEF TenantInv
(* What a request of a form does, by phase.                                *)
LEMMA OpensOK ==
  ASSUME NEW objs, NEW rev, NEW new, AdminShape(new), new.phase \in {"page", "api", "opening"},
         new.version = NoPin, new.wrote = FALSE,
         new.phase = "opening" => new.row \in Slots /\ new.target \in Slots
  PROVE  AdminOK(objs, rev, new)
  BY DEF AdminOK, IsAdmin, PinsItsRow, SavesWhatItRead, EntriesOK

LEMMA ShowsOK ==
  ASSUME NEW objs, NEW rev, TenantsOK(objs, rev), NEW x, AdminOK(objs, rev, x), x.phase = "opening",
         objs[x.row] # NoTenant,
         NEW new, new = [x EXCEPT !.phase = "form", !.shown = objs[x.row].spec,
                           !.version = objs[x.row].version]
  PROVE  AdminOK(objs, rev, new)
  <1>1. AdminShape(x) /\ x.wrote = FALSE /\ x.row \in Slots /\ x.target \in Slots
    BY DEF AdminOK, IsAdmin
  <1>2. PICK spec, version : spec = objs[x.row].spec /\ version = objs[x.row].version
    OBVIOUS
  <1>3. new = [x EXCEPT !.phase = "form", !.shown = spec, !.version = version]
    BY <1>2
  <1>4. new.phase = "form" /\ new.row = x.row /\ new.target = x.target /\ new.shown = spec
        /\ new.version = version /\ new.wrote = FALSE
    BY <1>1, <1>3 DEF AdminShape
  <1>5. AdminShape(new)
    BY <1>1, <1>3 DEF AdminShape
  <1>6. PinsItsRow(objs, rev, new)
    BY <1>1, <1>2, <1>4 DEF TenantsOK, PinsItsRow
  <1>. QED  BY <1>1, <1>4, <1>5, <1>6 DEF AdminOK, IsAdmin, SavesWhatItRead, EntriesOK

LEMMA SubmitsOK ==
  ASSUME NEW objs, NEW rev, NEW x, AdminOK(objs, rev, x), x.phase \in {"opening", "form"},
         NEW phase \in {"form", "updating"}, NEW fields,
         NEW new, new = [x EXCEPT !.phase = phase, !.fields = fields]
  PROVE  AdminOK(objs, rev, new)
  <1>1. AdminShape(x) /\ x.wrote = FALSE /\ x.target \in Slots
    BY DEF AdminOK, IsAdmin
  <1>2. new.phase = phase /\ new.row = x.row /\ new.target = x.target /\ new.shown = x.shown
        /\ new.version = x.version /\ new.wrote = FALSE
    BY <1>1 DEF AdminShape
  <1>3. AdminShape(new)
    BY <1>1 DEF AdminShape
  <1>. QED  BY <1>1, <1>2, <1>3 DEF AdminOK, IsAdmin, PinsItsRow, SavesWhatItRead, EntriesOK

LEMMA ReadsOK ==
  ASSUME NEW objs, NEW rev, TenantsOK(objs, rev), NEW x, AdminOK(objs, rev, x), x.phase = "updating",
         objs[x.target] # NoTenant,
         NEW sent, sent = IF x.version # NoPin THEN x.version ELSE objs[x.target].version,
         NEW new, new = [x EXCEPT !.phase = "writing", !.base = objs[x.target].spec, !.sent = sent]
  PROVE  AdminOK(objs, rev, new)
  <1>1. AdminShape(x) /\ x.wrote = FALSE /\ x.target \in Slots
    BY DEF AdminOK, IsAdmin
  <1>2. PICK spec : spec = objs[x.target].spec
    OBVIOUS
  <1>3. new = [x EXCEPT !.phase = "writing", !.base = spec, !.sent = sent]
    BY <1>2
  <1>4. new.phase = "writing" /\ new.row = x.row /\ new.target = x.target /\ new.base = spec
        /\ new.sent = sent /\ new.version = x.version /\ new.shown = x.shown /\ new.wrote = FALSE
    BY <1>1, <1>3 DEF AdminShape
  <1>5. AdminShape(new)
    BY <1>1, <1>3 DEF AdminShape
  <1>6. PinsItsRow(objs, rev, new)
    BY <1>4 DEF PinsItsRow, AdminOK
  <1>7. sent \in Nat /\ sent <= rev /\ (x.version # NoPin => sent = x.version)
    BY <1>1 DEF AdminOK, PinsItsRow, TenantsOK
  <1>8. SavesWhatItRead(objs, rev, new)
    BY <1>2, <1>4, <1>7 DEF SavesWhatItRead
  <1>. QED  BY <1>1, <1>4, <1>5, <1>6, <1>8 DEF AdminOK, IsAdmin, EntriesOK

(* Every step.                                                             *)
LEMMA TenantInvStep == TenantInv /\ [TenantNext]_tenantVars => TenantInv'
  <1>. SUFFICES ASSUME TenantInv, [TenantNext]_tenantVars PROVE TenantInv'
    OBVIOUS
  <1>1. TenantsOK(tenants, writes) /\ \A a \in Admins : AdminOK(tenants, writes, admins[a])
    BY DEF TenantInv
  <1>2. \A a \in Admins : AdminShape(admins[a])
    BY <1>1 DEF AdminOK, IsAdmin
  <1>3. ASSUME NEW a \in Admins, NEW new, AdminShape(new), new.phase \in {"page", "api", "opening"},
               new.version = NoPin, new.wrote = FALSE,
               new.phase = "opening" => new.row \in Slots /\ new.target \in Slots,
               Turns(a, new), OnlyReads
        PROVE  TenantInv'
    <2>1. AdminOK(tenants, writes, new)
      BY <1>3, OpensOK
    <2>. QED  BY <1>3, <2>1, AdminReads
  <1>4. ASSUME NEW a \in Admins, OpenTenantEdit(a) PROVE TenantInv'
    <2>1. PICK s \in Slots : /\ FindTenant(s[2]) # NoTenant
                             /\ Turns(a, [AtPage EXCEPT !.phase = "opening", !.row = s, !.target = FindTenant(s[2])])
      BY <1>4 DEF OpenTenantEdit
    <2>2. PICK target \in Slots : target = FindTenant(s[2])
      BY <2>1, FindsATenant
    <2>3. PICK new : new = [AtPage EXCEPT !.phase = "opening", !.row = s, !.target = target]
      OBVIOUS
    <2>4. AdminShape(new) /\ new.phase = "opening" /\ new.version = NoPin /\ new.wrote = FALSE
          /\ new.row = s /\ new.target = target
      BY <2>3 DEF AtPage, AdminShape
    <2>. QED  BY <1>3, <1>4, <2>1, <2>2, <2>3, <2>4 DEF OpenTenantEdit
  <1>5. ASSUME NEW a \in Admins, SnapshotTenant(a) PROVE TenantInv'
    <2>1. PICK x : x = admins[a]
      OBVIOUS
    <2>2. AdminOK(tenants, writes, x) /\ x.phase = "opening" /\ OnlyReads /\ AdminShape(x)
      BY <1>1, <1>2, <1>5, <2>1 DEF SnapshotTenant, At_
    <2>3. CASE \E found \in GetSpecSnapshot(x.row) :
                 Turns(a, [x EXCEPT !.phase = "form", !.shown = found.spec, !.version = found.version])
      <3>1. tenants[x.row] # NoTenant
            /\ Turns(a, [x EXCEPT !.phase = "form", !.shown = tenants[x.row].spec,
                           !.version = tenants[x.row].version])
        BY <2>3 DEF GetSpecSnapshot
      <3>2. PICK new : new = [x EXCEPT !.phase = "form", !.shown = tenants[x.row].spec,
                                !.version = tenants[x.row].version]
        OBVIOUS
      <3>3. AdminOK(tenants, writes, new)
        BY <1>1, <2>2, <3>1, <3>2, ShowsOK
      <3>. QED  BY <2>2, <3>1, <3>2, <3>3, AdminReads
    <2>4. CASE Turns(a, [x EXCEPT !.phase = "form"])
      <3>1. PICK new : new = [x EXCEPT !.phase = "form"]
        OBVIOUS
      <3>2. PICK fields : fields = x.fields
        OBVIOUS
      <3>3. new = [x EXCEPT !.phase = "form", !.fields = fields]
        BY <2>2, <3>1, <3>2 DEF AdminShape
      <3>4. AdminOK(tenants, writes, new)
        BY <2>2, <3>3, SubmitsOK
      <3>. QED  BY <2>2, <2>4, <3>1, <3>4, AdminReads
    <2>. QED  BY <1>5, <2>1, <2>3, <2>4 DEF SnapshotTenant
  <1>6. ASSUME NEW a \in Admins, SubmitTenant(a) PROVE TenantInv'
    <2>1. At_(a, "form") /\ OnlyReads
      BY <1>6 DEF SubmitTenant
    <2>2. CASE Ends(a, <<>>)
      BY <2>1, <2>2, EndsKeeps
    <2>3. CASE \E fields : Turns(a, [admins[a] EXCEPT !.phase = "updating", !.fields = fields])
      <3>1. PICK fields : Turns(a, [admins[a] EXCEPT !.phase = "updating", !.fields = fields])
        BY <2>3
      <3>2. PICK new : new = [admins[a] EXCEPT !.phase = "updating", !.fields = fields]
        OBVIOUS
      <3>3. AdminOK(tenants, writes, new)
        BY <1>1, <2>1, <3>2, SubmitsOK DEF At_
      <3>. QED  BY <2>1, <3>1, <3>2, <3>3, AdminReads
    <2>. QED  BY <1>6, <2>2, <2>3 DEF SubmitTenant
  <1>7. ASSUME NEW a \in Admins, ReadTenant(a) PROVE TenantInv'
    <2>1. PICK x, sent : x = admins[a] /\ sent = SentPin(a, admins[a].target)
      OBVIOUS
    <2>2. PICK new : new = [x EXCEPT !.phase = "writing", !.base = tenants[x.target].spec, !.sent = sent]
      OBVIOUS
    <2>3. Turns(a, new) /\ OnlyReads /\ tenants[x.target] # NoTenant /\ x.phase = "updating"
          /\ AdminOK(tenants, writes, x)
      BY <1>1, <1>7, <2>1, <2>2 DEF ReadTenant, At_
    <2>4. sent = IF x.version # NoPin THEN x.version ELSE tenants[x.target].version
      BY <2>1 DEF SentPin
    <2>5. AdminOK(tenants, writes, new)
      BY <1>1, <2>2, <2>3, <2>4, ReadsOK
    <2>. QED  BY <2>3, <2>5, AdminReads
  <1>8. ASSUME NEW a \in Admins, UpdateTenantFails(a) PROVE TenantInv'
    BY <1>8, EndsKeeps DEF UpdateTenantFails
  <1>9. ASSUME NEW a \in Admins, PutTenant(a) PROVE TenantInv'
    <2>1. admins[a].target \in Slots
      BY <1>1, <1>9 DEF PutTenant, At_, AdminOK, IsAdmin
    <2>. QED  BY <1>9, <2>1, StoresStep, AnsweredKeeps DEF PutTenant
  <1>10. ASSUME NEW a \in Admins, NEW s \in Slots, NEW spec, CreateObject(s, spec), Answered(a) PROVE TenantInv'
    BY <1>10, StoresStep, AnsweredKeeps DEF CreateObject
  <1>11. ASSUME NEW a \in Admins, NEW s \in Slots, DeleteObject(s), Answered(a) PROVE TenantInv'
    BY <1>11, RemovesStep, AnsweredKeeps DEF DeleteObject
  <1>12. ASSUME NEW a \in Admins, NEW entries \in {<<>>, <<"error">>, <<"denied">>}, Ends(a, entries), OnlyReads
         PROVE  TenantInv'
    BY <1>12, EndsKeeps
  <1>13. ASSUME NEW a \in Admins, CreateTenant(a) PROVE TenantInv'
    BY <1>10, <1>12, <1>13 DEF CreateTenant, DeniedEntries
  <1>14. ASSUME NEW a \in Admins, DeleteTenant(a) PROVE TenantInv'
    BY <1>11, <1>12, <1>14 DEF DeleteTenant, DeniedEntries
  <1>15. ASSUME NEW a \in Admins, CreateTenantByAPI(a) \/ DeleteTenantByAPI(a) PROVE TenantInv'
    BY <1>10, <1>11, <1>12, <1>15 DEF CreateTenantByAPI, DeleteTenantByAPI
  <1>16. ASSUME NEW a \in Admins, TenantByAPI(a) PROVE TenantInv'
    <2>1. PICK new : new = [AtPage EXCEPT !.phase = "api", !.api = TRUE]
      OBVIOUS
    <2>2. AdminShape(new) /\ new.phase = "api" /\ new.version = NoPin /\ new.wrote = FALSE
      BY <2>1 DEF AtPage, AdminShape
    <2>. QED  BY <1>3, <1>16, <2>1, <2>2 DEF TenantByAPI
  <1>17. ASSUME NEW a \in Admins, BackToPage(a) PROVE TenantInv'
    <2>1. AdminShape(AtPage) /\ AtPage.phase = "page" /\ AtPage.version = NoPin /\ AtPage.wrote = FALSE
      BY DEF AtPage, AdminShape
    <2>. QED  BY <1>3, <1>17, <2>1 DEF BackToPage
  <1>18. ASSUME OtherTenantWriter PROVE TenantInv'
    BY <1>18, StoresStep, RemovesStep, OthersOnly DEF OtherTenantWriter
  <1>19. ASSUME UNCHANGED tenantVars PROVE TenantInv'
    BY <1>1, <1>19, OthersOnly DEF tenantVars
  <1>. QED  BY <1>4, <1>5, <1>6, <1>7, <1>8, <1>9, <1>13, <1>14, <1>15, <1>16, <1>17, <1>18, <1>19 DEF TenantNext

LEMMA TenantInvInit == TenantInit => TenantInv
  <1>. SUFFICES ASSUME TenantInit PROVE TenantInv
    OBVIOUS
  <1>1. PICK spec : tenants = [s \in Slots |->
                                 [version |-> CHOOSE i \in DOMAIN TenantOrder : TenantOrder[i] = s, spec |-> spec]]
    BY DEF TenantInit
  <1>2. TenantOrder \in Seq(Slots) /\ DOMAIN TenantOrder = 1 .. Len(TenantOrder) /\ Len(TenantOrder) \in Nat
    BY TenantEditsAssumption
  <1>3. ASSUME NEW s \in Slots
        PROVE  tenants[s].version \in DOMAIN TenantOrder /\ TenantOrder[tenants[s].version] = s
    <2>1. \E i \in DOMAIN TenantOrder : TenantOrder[i] = s
      BY DEF Slots, ToSet
    <2>. QED  BY <1>1, <2>1
  <1>4. writes = Len(TenantOrder) /\ admins = [a \in Admins |-> AtPage]
    BY DEF TenantInit
  <1>5. TenantsOK(tenants, writes)
    BY <1>1, <1>2, <1>3, <1>4 DEF TenantsOK
  <1>6. AdminShape(AtPage) /\ AtPage.phase = "page" /\ AtPage.version = NoPin /\ AtPage.wrote = FALSE
    BY DEF AtPage, AdminShape
  <1>7. AdminOK(tenants, writes, AtPage)
    BY <1>6, OpensOK
  <1>. QED  BY <1>4, <1>5, <1>7 DEF TenantInv

(* The inductive invariant of the requests that edit tenants, however many *)
(* admins and other writers interleave.                                    *)
THEOREM TenantInvariant == TenantSpec => []TenantInv
  <1>. QED  BY TenantInvInit, TenantInvStep, PTL DEF TenantSpec
(* Only the request that is carried out turns a waiting update into one    *)
(* that has written: it is the write itself.                               *)
LEMMA OnlyPutWrites ==
  ASSUME TenantInv, [TenantNext]_tenantVars, NEW a \in Admins, TenantWrites(a)
  PROVE  PutTenant(a)
  <1>1. AdminOK(tenants, writes, admins[a]) /\ admins[a].phase = "writing" /\ admins'[a].wrote
        /\ admins = [b \in Admins |-> admins[b]]
    BY DEF TenantInv, TenantWrites, At_
  <1>2. ~admins[a].wrote
    BY <1>1 DEF AdminOK, IsAdmin
  <1>3. admins'[a] # admins[a]
    BY <1>1, <1>2
  <1>4. ASSUME NEW b \in Admins, b # a, NEW new, Turns(b, new) PROVE FALSE
    BY <1>1, <1>3, <1>4 DEF Turns
  <1>5. ASSUME NEW entries, Ends(a, entries) PROVE FALSE
    <2>1. PICK api, audit : admins' = [admins EXCEPT ![a] =
                                         [AtPage EXCEPT !.phase = "over", !.api = api, !.audit = audit]]
      BY <1>5 DEF Ends, Turns
    <2>2. PICK new : new = [AtPage EXCEPT !.phase = "over", !.api = api, !.audit = audit]
      OBVIOUS
    <2>3. new.wrote = FALSE
      BY <2>2 DEF AtPage
    <2>. QED  BY <1>1, <2>1, <2>2, <2>3
  <1>6. \A b \in Admins \ {a} : (\A entries : ~Ends(b, entries)) /\ ~Answered(b)
    BY <1>4 DEF Ends, Answered
  <1>7. \A b \in Admins \ {a} :
          /\ ~OpenTenantEdit(b) /\ ~SnapshotTenant(b) /\ ~ReadTenant(b) /\ ~TenantByAPI(b) /\ ~BackToPage(b)
    BY <1>4 DEF OpenTenantEdit, SnapshotTenant, ReadTenant, TenantByAPI, BackToPage
  <1>8. \A b \in Admins \ {a} : ~SubmitTenant(b)
    BY <1>4, <1>6 DEF SubmitTenant
  <1>9. \A b \in Admins \ {a} :
          /\ ~UpdateTenantFails(b) /\ ~PutTenant(b) /\ ~CreateTenant(b) /\ ~DeleteTenant(b)
          /\ ~CreateTenantByAPI(b) /\ ~DeleteTenantByAPI(b)
    BY <1>6 DEF UpdateTenantFails, PutTenant, CreateTenant, DeleteTenant, CreateTenantByAPI, DeleteTenantByAPI
  <1>10. /\ ~OpenTenantEdit(a) /\ ~SnapshotTenant(a) /\ ~SubmitTenant(a) /\ ~ReadTenant(a) /\ ~CreateTenant(a)
         /\ ~DeleteTenant(a) /\ ~TenantByAPI(a) /\ ~CreateTenantByAPI(a) /\ ~DeleteTenantByAPI(a)
    BY <1>1 DEF OpenTenantEdit, SnapshotTenant, SubmitTenant, ReadTenant, CreateTenant, DeleteTenant,
                TenantByAPI, CreateTenantByAPI, DeleteTenantByAPI, At_
  <1>11. ~BackToPage(a) /\ ~UpdateTenantFails(a)
    BY <1>1, <1>5 DEF BackToPage, UpdateTenantFails
  <1>12. ~OtherTenantWriter /\ ~UNCHANGED tenantVars
    BY <1>3 DEF OtherTenantWriter, tenantVars
  <1>. QED  BY <1>7, <1>8, <1>9, <1>10, <1>11, <1>12 DEF TenantNext

(* No update of a tenant is lost either (TenantService.Update); and one    *)
(* that pins a version saves the tenant of the row that was clicked,       *)
(* though the form's request names it without a namespace.                 *)
THEOREM NoTenantUpdateIsLost == TenantSpec => NoLostTenantUpdate
  <1>1. ASSUME TenantInv, [TenantNext]_tenantVars, NEW a \in Admins, TenantWrites(a)
        PROVE  /\ Before(a).spec = admins[a].base
               /\ admins[a].version # NoPin =>
                    /\ admins[a].target = admins[a].row
                    /\ Before(a).spec = admins[a].shown
    <2>1. PutTenant(a)
      BY <1>1, OnlyPutWrites
    <2>2. AdminOK(tenants, writes, admins[a]) /\ admins[a].phase = "writing" /\ admins[a].target \in Slots
      BY <1>1 DEF TenantInv, TenantWrites, At_, AdminOK, IsAdmin
    <2>3. Before(a) # NoTenant /\ Before(a).version = admins[a].sent /\ Before(a) = tenants[admins[a].target]
      BY <2>1 DEF PutTenant, Before
    <2>4. Before(a).spec = admins[a].base
      BY <2>2, <2>3 DEF AdminOK, SavesWhatItRead
    <2>5. ASSUME admins[a].version # NoPin
          PROVE  admins[a].target = admins[a].row /\ Before(a).spec = admins[a].shown
      <3>1. Before(a).version = admins[a].version
        BY <2>2, <2>3, <2>5 DEF AdminOK, SavesWhatItRead
      <3>. QED  BY <2>2, <2>3, <2>5, <3>1 DEF AdminOK, PinsItsRow
    <2>. QED  BY <2>4, <2>5
  <1>2. TenantInv /\ [TenantNext]_tenantVars =>
          (\A a \in Admins : TenantWrites(a) =>
             /\ Before(a).spec = admins[a].base
             /\ admins[a].version # NoPin =>
                  /\ admins[a].target = admins[a].row
                  /\ Before(a).spec = admins[a].shown)
    BY <1>1
  <1>. QED  BY <1>2, TenantInvariant, PTL DEF TenantSpec, NoLostTenantUpdate

(* The audit log tells the truth of every edit of a tenant (tenants.go).   *)
THEOREM TenantEditsAreAudited == TenantSpec => []TenantAuditIsTrue
  <1>1. TenantInv => TenantAuditIsTrue
    BY DEF TenantInv, AdminOK, EntriesOK, TenantAuditIsTrue, At_
  <1>. QED  BY <1>1, TenantInvariant, PTL
(* What a request about a tenant holds: what it has read, and what a form  *)
(* has submitted, which sets the form's fields only.                       *)
FormSets(incoming) == \E fields : Submits(incoming, fields) /\ DOMAIN fields \subseteq TenantFields

AdminTyped(x) ==
  /\ x.phase \in {"page", "api", "opening", "form", "updating", "writing", "over"}
  /\ x.row \in Slots \cup {NoTenant} /\ x.target \in Slots \cup {NoTenant}
  /\ x.phase = "writing" <=> x.sent # NoPin
  /\ IsSpec(x.base) /\ FormSets(x.fields)

TenantsTyped(objs) ==
  \A s \in Slots : objs[s] # NoTenant => objs[s].version >= 1 /\ IsSpec(objs[s].spec)

TenantTypesInv ==
  /\ TenantInv
  /\ TenantsTyped(tenants)
  /\ \A a \in Admins : AdminTyped(admins[a])

LEMMA AdminTypesStep ==
  ASSUME TenantTypesInv, TenantInv', TenantsTyped(tenants'),
         NEW a \in Admins, NEW new, Turns(a, new), AdminTyped(new)
  PROVE  TenantTypesInv'
  <1>1. admins' = [admins EXCEPT ![a] = new] /\ admins = [b \in Admins |-> admins[b]]
    BY DEF Turns, TenantTypesInv, TenantInv
  <1>2. \A b \in Admins : admins'[b] = new \/ admins'[b] = admins[b]
    BY <1>1
  <1>3. \A b \in Admins : AdminTyped(admins'[b])
    BY <1>2 DEF TenantTypesInv
  <1>. QED  BY <1>3 DEF TenantTypesInv

LEMMA AdminTypesRead ==
  ASSUME TenantTypesInv, TenantInv', OnlyReads, NEW a \in Admins, NEW new, Turns(a, new), AdminTyped(new)
  PROVE  TenantTypesInv'
  <1>1. tenants' = tenants
    BY DEF OnlyReads
  <1>2. TenantsTyped(tenants')
    BY <1>1 DEF TenantTypesInv
  <1>. QED  BY <1>2, AdminTypesStep

(* A request that begins and one that is over hold nothing.                *)
LEMMA NothingHeld ==
  ASSUME NEW new, new.phase \in {"page", "api", "opening", "over"},
         new.row \in Slots \cup {NoTenant}, new.target \in Slots \cup {NoTenant},
         new.sent = NoPin, new.base = Empty, new.fields = Empty
  PROVE  AdminTyped(new)
  <1>1. IsSpec(Empty) /\ Submits(Empty, Empty) /\ DOMAIN Empty \subseteq TenantFields
    BY EmptySubmitted DEF Empty
  <1>2. FormSets(new.fields)
    BY <1>1 DEF FormSets
  <1>. QED  BY <1>1, <1>2 DEF AdminTyped

LEMMA TypesEnds ==
  ASSUME TenantTypesInv, TenantInv', NEW a \in Admins, NEW entries, Ends(a, entries), OnlyReads
  PROVE  TenantTypesInv'
  <1>1. PICK api, audit : Turns(a, [AtPage EXCEPT !.phase = "over", !.api = api, !.audit = audit])
    BY DEF Ends
  <1>2. PICK new : new = [AtPage EXCEPT !.phase = "over", !.api = api, !.audit = audit]
    OBVIOUS
  <1>3. /\ new.phase = "over" /\ new.row = NoTenant /\ new.target = NoTenant
        /\ new.sent = NoPin /\ new.base = Empty /\ new.fields = Empty
    BY <1>2 DEF AtPage
  <1>4. AdminTyped(new)
    BY <1>3, NothingHeld
  <1>. QED  BY <1>1, <1>2, <1>4, AdminTypesRead

LEMMA TypesAnswered ==
  ASSUME TenantTypesInv, TenantInv', NEW a \in Admins, Answered(a), TenantsTyped(tenants')
  PROVE  TenantTypesInv'
  <1>1. PICK unheard, api, audit :
          Turns(a, [AtPage EXCEPT !.phase = "over", !.wrote = TRUE, !.unheard = unheard, !.api = api,
                      !.audit = audit])
    BY DEF Answered
  <1>2. PICK new : new = [AtPage EXCEPT !.phase = "over", !.wrote = TRUE, !.unheard = unheard,
                            !.api = api, !.audit = audit]
    OBVIOUS
  <1>3. /\ new.phase = "over" /\ new.row = NoTenant /\ new.target = NoTenant
        /\ new.sent = NoPin /\ new.base = Empty /\ new.fields = Empty
    BY <1>2 DEF AtPage
  <1>4. AdminTyped(new)
    BY <1>3, NothingHeld
  <1>. QED  BY <1>1, <1>2, <1>4, AdminTypesStep

(* The cluster's tenants after a write and after a removal.                *)
LEMMA StoresTyped ==
  ASSUME TenantTypesInv, NEW s \in Slots, NEW spec, IsSpec(spec), Stores(s, spec)
  PROVE  TenantsTyped(tenants')
  <1>1. PICK made : made = [version |-> writes + 1, spec |-> spec]
    OBVIOUS
  <1>2. made.version = writes + 1 /\ made.spec = spec
    BY <1>1
  <1>3. writes \in Nat /\ writes + 1 >= 1 /\ tenants = [r \in Slots |-> tenants[r]]
    BY DEF TenantTypesInv, TenantInv, TenantsOK
  <1>4. tenants' = [tenants EXCEPT ![s] = made]
    BY <1>1 DEF Stores
  <1>5. \A r \in Slots : tenants'[r] = made \/ tenants'[r] = tenants[r]
    BY <1>3, <1>4
  <1>. QED  BY <1>2, <1>3, <1>5 DEF TenantTypesInv, TenantsTyped

LEMMA RemovesTyped ==
  ASSUME TenantTypesInv, NEW s \in Slots, Removes(s)
  PROVE  TenantsTyped(tenants')
  <1>1. tenants' = [tenants EXCEPT ![s] = NoTenant] /\ tenants = [r \in Slots |-> tenants[r]]
    BY DEF TenantTypesInv, TenantInv, TenantsOK, Removes
  <1>2. \A r \in Slots : tenants'[r] = NoTenant \/ tenants'[r] = tenants[r]
    BY <1>1
  <1>. QED  BY <1>2 DEF TenantTypesInv, TenantsTyped

LEMMA ScrubIsSpec ==
  ASSUME NEW spec, IsSpec(spec)
  PROVE  IsSpec(Scrub(spec)) /\ DOMAIN Scrub(spec) \cap Reserved = {}
  <1>1. PICK new : new = Scrub(spec)
    OBVIOUS
  <1>2. DOMAIN new = DOMAIN spec \ Reserved /\ new = [k \in DOMAIN new |-> new[k]]
        /\ \A k \in DOMAIN new : new[k] = spec[k]
    BY <1>1 DEF Scrub
  <1>3. IsSpec(new)
    BY <1>2, SpecIs
  <1>. QED  BY <1>1, <1>2, <1>3

(* The form's request: what its fields hold, the reserved keys left out.   *)
LEMMA TenantFormSets ==
  ASSUME NEW form, DOMAIN form = TenantFields \cup {<<k>> : k \in Reserved},
         \A p \in TenantFields : form[p] \in Scalars \cup {Blank}
  PROVE  FormSets(ExtractTenantSpec(form))
  <1>1. PICK given : given = [p \in TenantFields |-> form[p]]
    OBVIOUS
  <1>2. {p \in DOMAIN form : p[1] \notin Reserved} = TenantFields
    <2>1. \A k \in Reserved : <<k>>[1] = k
      OBVIOUS
    <2>. QED  BY <2>1, TenantEditsAssumption
  <1>3. PICK order : order = CHOOSE o \in Orders(TenantFields) : TRUE
    OBVIOUS
  <1>4. TenantFields \in SUBSET Paths /\ IsFiniteSet(TenantFields) /\ NoneInside(TenantFields)
    BY TenantEditsAssumption
  <1>5. order \in Orders(TenantFields)
    BY <1>3, <1>4, OrdersAre
  <1>6. ExtractTenantSpec(form) = ExtractSpec(given, order)
    BY <1>1, <1>2, <1>3 DEF ExtractTenantSpec
  <1>7. \A p \in TenantFields : given[p] \in Scalars \cup {Blank}
    BY <1>1
  <1>8. PICK fields : fields = Restrict(given, {p \in TenantFields : given[p] # Blank})
    OBVIOUS
  <1>9. Submits(ExtractSpec(given, order), fields)
    BY <1>4, <1>5, <1>7, <1>8, FormSubmits
  <1>10. DOMAIN fields \subseteq TenantFields
    BY <1>8 DEF Restrict
  <1>. QED  BY <1>6, <1>9, <1>10 DEF FormSets

LEMMA FormSetsFields ==
  ASSUME NEW spec, FormSets(spec)
  PROVE  IsSpec(spec) /\ DOMAIN spec \cap Reserved = {}
  <1>1. PICK fields : Submits(spec, fields) /\ DOMAIN fields \subseteq TenantFields
    BY DEF FormSets
  <1>2. ASSUME NEW k \in DOMAIN spec PROVE k \notin Reserved
    <2>1. PICK p \in DOMAIN fields : p[1] = k
      <3>1. CASE <<k>> \in DOMAIN fields
        <4>1. <<k>>[1] = k
          OBVIOUS
        <4>. QED  BY <3>1, <4>1
      <3>2. CASE DOMAIN spec[k] # {} /\ \A j \in DOMAIN spec[k] : <<k, j>> \in DOMAIN fields
        <4>1. PICK j \in DOMAIN spec[k] : <<k, j>> \in DOMAIN fields
          BY <3>2
        <4>2. <<k, j>>[1] = k
          OBVIOUS
        <4>. QED  BY <4>1, <4>2
      <3>. QED  BY <1>1, <1>2, <3>1, <3>2 DEF Submits
    <2>. QED  BY <1>1, <2>1, TenantEditsAssumption
  <1>. QED  BY <1>1, <1>2 DEF Submits

(* What an update sends.                                                   *)
LEMMA SavedIsSpec ==
  ASSUME NEW base, IsSpec(base), NEW incoming, FormSets(incoming)
  PROVE  IsSpec(DeepMerge(Scrub(base), incoming))
  BY FormSetsFields, ScrubIsSpec, MergeIsSpec

LEMMA TenantTypesStep == TenantTypesInv /\ [TenantNext]_tenantVars => TenantTypesInv'
  <1>. SUFFICES ASSUME TenantTypesInv, [TenantNext]_tenantVars PROVE TenantTypesInv'
    OBVIOUS
  <1>1. TenantInv /\ TenantInv' /\ TenantsTyped(tenants)
    BY TenantInvStep DEF TenantTypesInv
  <1>2. \A a \in Admins : AdminShape(admins[a]) /\ AdminTyped(admins[a]) /\ IsAdmin(admins[a])
    BY <1>1 DEF TenantTypesInv, TenantInv, AdminOK, IsAdmin
  <1>3. ASSUME NEW a \in Admins, NEW new, new.phase \in {"page", "api", "opening"},
               new.row \in Slots \cup {NoTenant}, new.target \in Slots \cup {NoTenant},
               new.sent = NoPin, new.base = Empty, new.fields = Empty, Turns(a, new), OnlyReads
        PROVE  TenantTypesInv'
    <2>1. AdminTyped(new)
      BY <1>3, NothingHeld
    <2>. QED  BY <1>1, <1>3, <2>1, AdminTypesRead
  <1>4. ASSUME NEW a \in Admins, OpenTenantEdit(a) PROVE TenantTypesInv'
    <2>1. PICK s \in Slots : /\ FindTenant(s[2]) # NoTenant
                             /\ Turns(a, [AtPage EXCEPT !.phase = "opening", !.row = s, !.target = FindTenant(s[2])])
      BY <1>4 DEF OpenTenantEdit
    <2>2. PICK target \in Slots : target = FindTenant(s[2])
      BY <2>1, FindsATenant
    <2>3. PICK new : new = [AtPage EXCEPT !.phase = "opening", !.row = s, !.target = target]
      OBVIOUS
    <2>4. new.phase = "opening" /\ new.row = s /\ new.target = target
          /\ new.sent = NoPin /\ new.base = Empty /\ new.fields = Empty
      BY <2>3 DEF AtPage
    <2>5. Turns(a, new)
      BY <2>1, <2>2, <2>3
    <2>6. OnlyReads
      BY <1>4 DEF OpenTenantEdit
    <2>7. new.phase \in {"page", "api", "opening"} /\ new.row \in Slots \cup {NoTenant}
          /\ new.target \in Slots \cup {NoTenant}
      BY <2>2, <2>4
    <2>. QED  BY <1>3, <2>4, <2>5, <2>6, <2>7
  <1>5. ASSUME NEW a \in Admins, SnapshotTenant(a) PROVE TenantTypesInv'
    <2>1. PICK x : x = admins[a]
      OBVIOUS
    <2>2. AdminTyped(x) /\ AdminShape(x) /\ x.phase = "opening" /\ OnlyReads
      BY <1>2, <1>5, <2>1 DEF SnapshotTenant, At_
    <2>3. PICK filled, version :
            \/ Turns(a, [x EXCEPT !.phase = "form", !.shown = filled, !.version = version])
            \/ Turns(a, [x EXCEPT !.phase = "form"])
      BY <1>5, <2>1 DEF SnapshotTenant
    <2>4. PICK new : Turns(a, new) /\ (\/ new = [x EXCEPT !.phase = "form", !.shown = filled, !.version = version]
                                       \/ new = [x EXCEPT !.phase = "form"])
      BY <2>3
    <2>5. /\ new.phase = "form" /\ new.row = x.row /\ new.target = x.target /\ new.sent = x.sent
          /\ new.base = x.base /\ new.fields = x.fields
      BY <2>2, <2>4 DEF AdminShape
    <2>6. AdminTyped(new)
      BY <2>2, <2>5 DEF AdminTyped
    <2>. QED  BY <1>1, <2>2, <2>4, <2>6, AdminTypesRead
  <1>6. ASSUME NEW a \in Admins, SubmitTenant(a) PROVE TenantTypesInv'
    <2>1. PICK x : x = admins[a]
      OBVIOUS
    <2>2. AdminTyped(x) /\ AdminShape(x) /\ x.phase = "form" /\ OnlyReads
      BY <1>2, <1>6, <2>1 DEF SubmitTenant, At_
    <2>3. PICK form :
            /\ DOMAIN form = TenantFields \cup {<<k>> : k \in Reserved}
            /\ \A p \in TenantFields : form[p] \in Scalars \cup {Blank}
            /\ \/ Ends(a, <<>>)
               \/ Turns(a, [x EXCEPT !.phase = "updating", !.fields = ExtractTenantSpec(form)])
      <3>1. PICK values \in [TenantFields -> Scalars \cup {Blank}], query \in Scalars :
              LET form == [p \in TenantFields \cup {<<k>> : k \in Reserved} |->
                             IF p \in TenantFields THEN values[p] ELSE query]
              IN  \/ Ends(a, <<>>)
                  \/ Turns(a, [x EXCEPT !.phase = "updating", !.fields = ExtractTenantSpec(form)])
        BY <1>6, <2>1 DEF SubmitTenant
      <3>2. PICK form : form = [p \in TenantFields \cup {<<k>> : k \in Reserved} |->
                                  IF p \in TenantFields THEN values[p] ELSE query]
        OBVIOUS
      <3>3. DOMAIN form = TenantFields \cup {<<k>> : k \in Reserved}
            /\ \A p \in TenantFields : form[p] \in Scalars \cup {Blank}
        BY <3>2
      <3>. QED  BY <3>1, <3>2, <3>3
    <2>4. CASE Ends(a, <<>>)
      BY <1>1, <2>2, <2>4, TypesEnds
    <2>5. CASE Turns(a, [x EXCEPT !.phase = "updating", !.fields = ExtractTenantSpec(form)])
      <3>1. PICK fields : fields = ExtractTenantSpec(form)
        OBVIOUS
      <3>2. FormSets(fields)
        BY <2>3, <3>1, TenantFormSets
      <3>3. PICK new : new = [x EXCEPT !.phase = "updating", !.fields = fields]
        OBVIOUS
      <3>4. /\ new.phase = "updating" /\ new.row = x.row /\ new.target = x.target /\ new.sent = x.sent
            /\ new.base = x.base /\ new.fields = fields
        BY <2>2, <3>3 DEF AdminShape
      <3>5. AdminTyped(new)
        BY <2>2, <3>2, <3>4 DEF AdminTyped
      <3>6. Turns(a, new)
        BY <2>5, <3>1, <3>3
      <3>. QED  BY <1>1, <2>2, <3>5, <3>6, AdminTypesRead
    <2>. QED  BY <2>3, <2>4, <2>5
  <1>7. ASSUME NEW a \in Admins, ReadTenant(a) PROVE TenantTypesInv'
    <2>1. PICK x, base, sent : /\ x = admins[a] /\ base = tenants[admins[a].target].spec
                               /\ sent = SentPin(a, admins[a].target)
      OBVIOUS
    <2>2. /\ Turns(a, [x EXCEPT !.phase = "writing", !.base = base, !.sent = sent]) /\ OnlyReads
          /\ tenants[x.target] # NoTenant /\ x.phase = "updating"
      BY <1>7, <2>1 DEF ReadTenant, At_
    <2>3. AdminTyped(x) /\ AdminShape(x) /\ x.target \in Slots
      BY <1>2, <2>1, <2>2 DEF IsAdmin
    <2>4. IsSpec(base) /\ sent \in Nat
      <3>1. tenants[x.target].version \in Nat /\ IsSpec(tenants[x.target].spec)
        BY <1>1, <2>2, <2>3 DEF TenantsTyped, TenantInv, TenantsOK
      <3>2. x.version # NoPin => x.version \in Nat
        BY <1>1, <2>1 DEF TenantInv, AdminOK, PinsItsRow
      <3>. QED  BY <2>1, <3>1, <3>2 DEF SentPin
    <2>5. PICK new : new = [x EXCEPT !.phase = "writing", !.base = base, !.sent = sent]
      OBVIOUS
    <2>6. /\ new.phase = "writing" /\ new.row = x.row /\ new.target = x.target /\ new.sent = sent
          /\ new.base = base /\ new.fields = x.fields
      BY <2>3, <2>5 DEF AdminShape
    <2>7. AdminTyped(new)
      BY <2>3, <2>4, <2>6, TenantEditsAssumption DEF AdminTyped
    <2>. QED  BY <1>1, <2>2, <2>5, <2>7, AdminTypesRead
  <1>8. ASSUME NEW a \in Admins, UpdateTenantFails(a) PROVE TenantTypesInv'
    BY <1>1, <1>8, TypesEnds DEF UpdateTenantFails
  <1>9. ASSUME NEW a \in Admins, NEW s \in Slots, NEW spec, IsSpec(spec), Stores(s, spec), Answered(a)
        PROVE  TenantTypesInv'
    BY <1>1, <1>9, StoresTyped, TypesAnswered
  <1>10. ASSUME NEW a \in Admins, PutTenant(a) PROVE TenantTypesInv'
    <2>1. admins[a].target \in Slots /\ AdminTyped(admins[a])
      BY <1>2, <1>10 DEF PutTenant, At_, IsAdmin
    <2>2. IsSpec(DeepMerge(Scrub(admins[a].base), admins[a].fields))
      BY <2>1, SavedIsSpec DEF AdminTyped
    <2>. QED  BY <1>9, <1>10, <2>1, <2>2 DEF PutTenant
  <1>11. ASSUME NEW a \in Admins, NEW s \in Slots, DeleteObject(s), Answered(a) PROVE TenantTypesInv'
    BY <1>1, <1>11, RemovesTyped, TypesAnswered DEF DeleteObject
  <1>12. \A spec \in TenantSpecs : IsSpec(spec) /\ IsSpec(Scrub(spec))
    BY TenantEditsAssumption, ScrubIsSpec
  <1>13. ASSUME NEW a \in Admins, CreateTenant(a) PROVE TenantTypesInv'
    BY <1>1, <1>9, <1>12, <1>13, TypesEnds DEF CreateTenant, CreateObject
  <1>14. ASSUME NEW a \in Admins, DeleteTenant(a) PROVE TenantTypesInv'
    BY <1>1, <1>11, <1>14, TypesEnds DEF DeleteTenant
  <1>15. ASSUME NEW a \in Admins, CreateTenantByAPI(a) \/ DeleteTenantByAPI(a) PROVE TenantTypesInv'
    BY <1>1, <1>9, <1>11, <1>12, <1>15, TypesEnds DEF CreateTenantByAPI, DeleteTenantByAPI, CreateObject
  <1>16. ASSUME NEW a \in Admins, TenantByAPI(a) \/ BackToPage(a) PROVE TenantTypesInv'
    <2>1. PICK new \in {[AtPage EXCEPT !.phase = "api", !.api = TRUE], AtPage} : Turns(a, new) /\ OnlyReads
      BY <1>16 DEF TenantByAPI, BackToPage
    <2>2. /\ new.phase \in {"page", "api"} /\ new.row = NoTenant /\ new.target = NoTenant
          /\ new.sent = NoPin /\ new.base = Empty /\ new.fields = Empty
      <3>1. CASE new = [AtPage EXCEPT !.phase = "api", !.api = TRUE]
        BY <3>1 DEF AtPage
      <3>2. CASE new = AtPage
        BY <3>2 DEF AtPage
      <3>. QED  BY <2>1, <3>1, <3>2
    <2>. QED  BY <1>3, <2>1, <2>2
  <1>17. ASSUME UNCHANGED admins, TenantsTyped(tenants') PROVE TenantTypesInv'
    BY <1>1, <1>17 DEF TenantTypesInv
  <1>18. ASSUME OtherTenantWriter PROVE TenantTypesInv'
    BY <1>12, <1>17, <1>18, StoresTyped, RemovesTyped DEF OtherTenantWriter
  <1>19. ASSUME UNCHANGED tenantVars PROVE TenantTypesInv'
    BY <1>1, <1>17, <1>19 DEF tenantVars
  <1>. QED  BY <1>4, <1>5, <1>6, <1>7, <1>8, <1>10, <1>13, <1>14, <1>15, <1>16, <1>18, <1>19 DEF TenantNext

LEMMA TenantTypesInit == TenantInit => TenantTypesInv
  <1>. SUFFICES ASSUME TenantInit PROVE TenantTypesInv
    OBVIOUS
  <1>1. PICK spec \in TenantSpecs :
          tenants = [s \in Slots |-> [version |-> CHOOSE i \in DOMAIN TenantOrder : TenantOrder[i] = s,
                                      spec |-> spec]]
    BY DEF TenantInit
  <1>2. TenantOrder \in Seq(Slots) /\ DOMAIN TenantOrder = 1 .. Len(TenantOrder) /\ IsSpec(spec)
    BY TenantEditsAssumption
  <1>3. ASSUME NEW s \in Slots PROVE tenants[s].version \in DOMAIN TenantOrder /\ tenants[s].spec = spec
    <2>1. \E i \in DOMAIN TenantOrder : TenantOrder[i] = s
      BY DEF Slots, ToSet
    <2>. QED  BY <1>1, <2>1
  <1>4. TenantsTyped(tenants)
    BY <1>2, <1>3 DEF TenantsTyped
  <1>5. /\ AtPage.phase = "page" /\ AtPage.row = NoTenant /\ AtPage.target = NoTenant
        /\ AtPage.sent = NoPin /\ AtPage.base = Empty /\ AtPage.fields = Empty
    BY DEF AtPage
  <1>6. AdminTyped(AtPage)
    BY <1>5, NothingHeld
  <1>7. admins = [a \in Admins |-> AtPage]
    BY DEF TenantInit
  <1>. QED  BY <1>4, <1>6, <1>7, TenantInvInit DEF TenantTypesInv

(* With what every request holds, the invariant is inductive too.          *)
THEOREM TenantTypes == TenantSpec => []TenantTypesInv
  <1>. QED  BY TenantTypesInit, TenantTypesStep, PTL DEF TenantSpec

(* Every variable of the tenant edits has its type, and only an update     *)
(* about to write has a version to send.                                   *)
THEOREM TenantEditsTyped == TenantSpec => []TenantTypeOK
  <1>1. TenantTypesInv => TenantTypeOK
    <2>. SUFFICES ASSUME TenantTypesInv PROVE TenantTypeOK
      OBVIOUS
    <2>1. writes \in Nat /\ \A s \in Slots : \/ tenants[s] = NoTenant
                                             \/ tenants[s].version \in 1 .. writes /\ IsSpec(tenants[s].spec)
      BY DEF TenantTypesInv, TenantInv, TenantsOK, TenantsTyped
    <2>. QED  BY <2>1 DEF TenantTypeOK, TenantTypesInv, AdminTyped, At_
  <1>. QED  BY <1>1, TenantTypes, PTL

(* Saving a tenant removes the reserved keys and keeps the rest (Update,   *)
(* extractTenantSpec): for every spec, whatever a form's request carries   *)
(* and whatever was stored.                                                *)
THEOREM TenantSavesScrub == TenantSpec => SaveScrubsAndKeeps
  <1>1. ASSUME TenantTypesInv, [TenantNext]_tenantVars, NEW a \in Admins, TenantWrites(a)
        PROVE  /\ DOMAIN After(a) \cap Reserved = {}
               /\ \A p \in Paths :
                    (/\ p[1] \notin Reserved
                     /\ \A f \in TenantFields : ~IsPrefix(f, p) /\ ~IsPrefix(p, f))
                    => At(After(a), p) = At(Before(a).spec, p)
    <2>1. PICK base, incoming : base = admins[a].base /\ incoming = admins[a].fields
      OBVIOUS
    <2>2. TenantInv /\ AdminOK(tenants, writes, admins[a]) /\ AdminTyped(admins[a]) /\ admins[a].phase = "writing"
      BY <1>1 DEF TenantTypesInv, TenantInv, TenantWrites, At_
    <2>3. PutTenant(a) /\ admins[a].target \in Slots /\ tenants = [s \in Slots |-> tenants[s]]
      BY <1>1, <2>2, OnlyPutWrites DEF AdminOK, IsAdmin, TenantInv, TenantsOK
    <2>4. Before(a).spec = base
      BY <2>1, <2>2, <2>3 DEF AdminOK, SavesWhatItRead, PutTenant, Before
    <2>5. IsSpec(base) /\ FormSets(incoming)
      BY <2>1, <2>2 DEF AdminTyped
    <2>6. PICK kept : kept = Scrub(base)
      OBVIOUS
    <2>7. IsSpec(kept) /\ DOMAIN kept \cap Reserved = {}
      BY <2>5, <2>6, ScrubIsSpec
    <2>8. PICK put : put = DeepMerge(kept, incoming)
      OBVIOUS
    <2>9. After(a) = put
      <3>1. PICK made : made = [version |-> writes + 1, spec |-> put]
        OBVIOUS
      <3>2. tenants' = [tenants EXCEPT ![admins[a].target] = made]
        BY <2>1, <2>3, <2>6, <2>8, <3>1 DEF PutTenant, Stores
      <3>3. tenants'[admins[a].target] = made /\ made.spec = put
        BY <2>3, <3>1, <3>2
      <3>. QED  BY <3>3 DEF After
    <2>10. DOMAIN put \cap Reserved = {}
      <3>1. DOMAIN put = DOMAIN kept \cup DOMAIN incoming
        BY <2>8, DeepIs
      <3>. QED  BY <2>5, <2>7, <3>1, FormSetsFields
    <2>11. ASSUME NEW p \in Paths, p[1] \notin Reserved,
                  \A f \in TenantFields : ~IsPrefix(f, p) /\ ~IsPrefix(p, f)
           PROVE  At(put, p) = At(base, p)
      <3>1. PICK fields : Submits(incoming, fields) /\ DOMAIN fields \subseteq TenantFields
        BY <2>5 DEF FormSets
      <3>2. Apart(DOMAIN fields, p)
        BY <2>11, <3>1 DEF Apart
      <3>3. At(put, p) = At(kept, p)
        BY <2>7, <2>8, <3>1, <3>2, MergeKeeps
      <3>4. At(kept, p) = At(base, p)
        <4>1. p[1] \in DOMAIN kept <=> p[1] \in DOMAIN base
          BY <2>6, <2>11 DEF Scrub
        <4>2. p[1] \in DOMAIN base => kept[p[1]] = base[p[1]]
          BY <2>6, <2>11 DEF Scrub
        <4>. QED  BY <4>1, <4>2 DEF At
      <3>. QED  BY <3>3, <3>4
    <2>. QED  BY <2>4, <2>9, <2>10, <2>11
  <1>2. TenantTypesInv /\ [TenantNext]_tenantVars =>
          \A a \in Admins : TenantWrites(a) =>
            /\ DOMAIN After(a) \cap Reserved = {}
            /\ \A p \in Paths :
                 (/\ p[1] \notin Reserved
                  /\ \A f \in TenantFields : ~IsPrefix(f, p) /\ ~IsPrefix(p, f))
                 => At(After(a), p) = At(Before(a).spec, p)
    BY <1>1
  <1>. QED  BY <1>2, TenantTypes, PTL DEF TenantSpec, SaveScrubsAndKeeps
-----------------------------------------------------------------------------
(* Looking, revealing and acting.  VisitOK collects what holds of a        *)
(* request, given what was held, and allowed ever and always, since it     *)
(* began.                                                                  *)
VisitShape(v) ==
  v = [phase |-> v.phase, what |-> v.what, name |-> v.name, arg |-> v.arg, kind |-> v.kind,
       queue |-> v.queue, info |-> v.info, fellBack |-> v.fellBack, out |-> v.out,
       buttons |-> v.buttons, audit |-> v.audit, did |-> v.did, unheard |-> v.unheard, flaky |-> v.flaky]

VisitTypes(v) ==
  /\ v.phase \in {"none", "finding", "templates", "secrets", "probing", "running", "over"}
  /\ v.phase # "none" => v.name \in AppNames
  /\ v.phase \in {"templates", "secrets", "probing", "running"} => v.kind \in AppKinds
  /\ v.kind \in AppKinds \cup {""} /\ v.buttons \subseteq ActionIDs
  /\ v.phase = "probing" => v.queue \in Seq(ActionIDs)
  /\ v.phase # "probing" => v.queue \in Seq(Secrets)

FromSecrets(info) ==
  \A f \in DOMAIN info : info[f] \in Secrets \X Values /\ f \in KeysOf[info[f][1]]

(* Nothing is recorded, answered or done before its time.                  *)
Unanswered(v) ==
  /\ v.phase \notin {"probing", "over"} => v.audit = <<>> /\ v.buttons = {} /\ v.flaky = {}
  /\ v.phase # "over" => v.did = "" /\ v.unheard = FALSE /\ DOMAIN v.out = {}
  /\ v.phase \notin {"secrets", "probing"} => DOMAIN v.info = {}
  /\ v.phase \notin {"secrets", "probing"} => v.queue = <<>>
  /\ v.phase \in {"none", "finding", "templates"} => v.fellBack = FALSE
  /\ v.phase = "probing" =>
       \/ v.what = "connection" /\ v.audit = <<"success">>
       \/ v.what = "overview" /\ v.audit = <<>>
  /\ v.phase = "running" => v.what = "action" /\ v.arg \in ToSet(Registered[v.kind])

(* The secrets read, and those still to be read, are of one origin.        *)
OneOrigin(v, held) ==
  v.phase \in {"secrets", "probing"} =>
    /\ \A f \in DOMAIN v.info : v.info[f] \in held
    /\ LET origin == IF v.fellBack THEN ToSet(Prefixed[<<v.kind, v.name>>]) \ NotCredentials
                     ELSE ToSet(SecretTemplates[<<v.kind, v.name>>])
       IN  /\ v.phase = "secrets" => ToSet(v.queue) \subseteq origin
           /\ \A f \in DOMAIN v.info : v.info[f][1] \in origin

(* Each action is asked about once, and its button follows the answer.     *)
Offers(v, ever, always) ==
  v.phase = "probing" =>
    LET all == ToSet(Registered[v.kind])
    IN  /\ v.buttons \subseteq (ever \cap all) \ v.flaky
        /\ (always \cap all) \ v.flaky \subseteq v.buttons \cup ToSet(v.queue)
        /\ ToSet(v.queue) \subseteq all /\ IsInjective(v.queue)
        /\ ToSet(v.queue) \cap (v.buttons \cup v.flaky) = {}

RevealTrue(v) ==
  v.phase = "over" =>
    /\ v.what = "reveal" => Len(v.audit) <= 1
    /\ v.what = "reveal" => (v.audit = <<"success">> <=> DOMAIN v.out = {v.arg})
    /\ v.what # "json" /\ DOMAIN v.out # {} => v.audit = <<"success">>
    /\ v.what \in {"overview", "connection"} => DOMAIN v.out \cap Concealed = {}

ActionTrue(v, ever) ==
  v.phase = "over" /\ v.what = "action" =>
    /\ Len(v.audit) = 1
    /\ v.audit = <<"success">> <=> v.did # "" /\ ~v.unheard
    /\ v.did # "" =>
         /\ v.did = TargetName[<<v.kind, v.name>>]
         /\ v.arg \in ToSet(Registered[v.kind]) \cap ever

VisitOK(v, held, ever, always) ==
  /\ VisitShape(v) /\ VisitTypes(v) /\ FromSecrets(v.info) /\ FromSecrets(v.out) /\ Unanswered(v)
  /\ OneOrigin(v, held) /\ Offers(v, ever, always) /\ RevealTrue(v) /\ ActionTrue(v, ever)

ClusterOK ==
  /\ deployed \subseteq AppKinds \X AppNames
  /\ holds = [s \in Secrets |-> holds[s]] /\ (\A s \in Secrets : holds[s] \in Values \cup {NoData})
  /\ grants \subseteq ActionIDs

Remembers ==
  /\ seen = [held |-> seen.held, ever |-> seen.ever, always |-> seen.always, changes |-> seen.changes]
  /\ visit.phase # "none" => Held \subseteq seen.held /\ grants \subseteq seen.ever /\ seen.always \subseteq grants

AccessInv ==
  ClusterOK /\ Remembers /\ VisitOK(visit, seen.held, seen.ever, seen.always)

(* What is remembered only gets weaker as the cluster changes.             *)
LEMMA VisitKeeps ==
  ASSUME NEW v, NEW held, NEW ever, NEW always, VisitOK(v, held, ever, always),
         NEW held2, held \subseteq held2, NEW ever2, ever \subseteq ever2,
         NEW always2, always2 \subseteq always
  PROVE  VisitOK(v, held2, ever2, always2)
  <1>1. OneOrigin(v, held2)
    BY DEF VisitOK, OneOrigin
  <1>2. Offers(v, ever2, always2)
    BY DEF VisitOK, Offers
  <1>3. ActionTrue(v, ever2)
    BY DEF VisitOK, ActionTrue
  <1>. QED  BY <1>1, <1>2, <1>3 DEF VisitOK

LEMMA NoVisitOK == \A held, ever, always : VisitOK(NoVisit, held, ever, always)
  <1>1. VisitShape(NoVisit) /\ NoVisit.phase = "none" /\ NoVisit.kind = "" /\ NoVisit.queue = <<>>
        /\ NoVisit.info = Nothing /\ NoVisit.out = Nothing /\ NoVisit.buttons = {} /\ NoVisit.audit = <<>>
        /\ NoVisit.did = "" /\ NoVisit.unheard = FALSE /\ NoVisit.fellBack = FALSE /\ NoVisit.flaky = {}
    BY DEF NoVisit, VisitShape
  <1>2. DOMAIN Nothing = {}
    BY DEF Nothing
  <1>3. VisitTypes(NoVisit)
    <2>1. <<>> \in Seq(Secrets)
      OBVIOUS
    <2>. QED  BY <1>1, <2>1 DEF VisitTypes
  <1>4. FromSecrets(NoVisit.info) /\ FromSecrets(NoVisit.out)
    BY <1>1, <1>2 DEF FromSecrets
  <1>5. Unanswered(NoVisit)
    BY <1>1, <1>2 DEF Unanswered
  <1>. QED  BY <1>1, <1>3, <1>4, <1>5 DEF VisitOK, OneOrigin, Offers, RevealTrue, ActionTrue

LEMMA ClusterStep == AccessInv /\ ClusterChanges => AccessInv'
  <1>. SUFFICES ASSUME AccessInv, ClusterChanges PROVE AccessInv'
    OBVIOUS
  <1>1. visit' = visit /\ visit.phase # "over"
        /\ seen' = IF visit.phase = "none" THEN Unseen
                   ELSE [held |-> seen.held \cup Held', ever |-> seen.ever \cup grants',
                         always |-> seen.always \cap grants', changes |-> seen.changes + 1]
    BY DEF ClusterChanges
  <1>2. ClusterOK'
    <2>1. CASE \E app \in AppKinds \X AppNames :
                 /\ deployed' = IF app \in deployed THEN deployed \ {app} ELSE deployed \cup {app}
                 /\ UNCHANGED <<holds, grants>>
      BY <2>1 DEF AccessInv, ClusterOK
    <2>2. CASE \E s \in Secrets, v \in Values \cup {NoData} :
                 holds' = [holds EXCEPT ![s] = v] /\ UNCHANGED <<deployed, grants>>
      BY <2>2 DEF AccessInv, ClusterOK
    <2>3. CASE \E a \in ActionIDs :
                 /\ grants' = IF a \in grants THEN grants \ {a} ELSE grants \cup {a}
                 /\ UNCHANGED <<deployed, holds>>
      BY <2>3 DEF AccessInv, ClusterOK
    <2>. QED  BY <2>1, <2>2, <2>3 DEF ClusterChanges
  <1>3. CASE visit.phase = "none"
    <2>1. VisitOK(visit, seen'.held, seen'.ever, seen'.always)
      BY <1>3 DEF AccessInv, VisitOK, OneOrigin, Offers, ActionTrue
    <2>2. Remembers'
      BY <1>1, <1>3 DEF Remembers, Unseen
    <2>. QED  BY <1>1, <1>2, <2>1, <2>2 DEF AccessInv
  <1>4. CASE visit.phase # "none"
    <2>1. PICK held, allowed, n : held = Held' /\ allowed = grants' /\ n = seen.changes + 1
      OBVIOUS
    <2>2. seen' = [held |-> seen.held \cup held, ever |-> seen.ever \cup allowed,
                   always |-> seen.always \cap allowed, changes |-> n]
      BY <1>1, <1>4, <2>1
    <2>3. seen'.held = seen.held \cup held /\ seen'.ever = seen.ever \cup allowed
          /\ seen'.always = seen.always \cap allowed
      BY <2>2
    <2>4. VisitOK(visit, seen'.held, seen'.ever, seen'.always)
      BY <2>3, VisitKeeps DEF AccessInv
    <2>5. Remembers'
      BY <2>1, <2>2, <2>3 DEF Remembers
    <2>. QED  BY <1>1, <1>2, <2>4, <2>5 DEF AccessInv
  <1>. QED  BY <1>3, <1>4

(* A step of the request itself.                                           *)
LEMMA VisitStep ==
  ASSUME AccessInv, NEW new, Continues(new), visit.phase # "none",
         VisitOK(new, seen.held, seen.ever, seen.always)
  PROVE  AccessInv'
  <1>1. visit' = new /\ deployed' = deployed /\ holds' = holds /\ grants' = grants /\ seen' = seen
    BY DEF Continues
  <1>2. ClusterOK' /\ Remembers'
    BY <1>1 DEF AccessInv, ClusterOK, Remembers, Held
  <1>. QED  BY <1>1, <1>2 DEF AccessInv
(* The request is answered without anything having been done.              *)
LEMMA AnswersOK ==
  ASSUME NEW v, NEW held, NEW ever, NEW always, VisitOK(v, held, ever, always),
         v.phase \in {"finding", "secrets", "probing", "running"},
         NEW out, FromSecrets(out), NEW audit,
         v.what = "reveal" => Len(audit) <= 1 /\ (audit = <<"success">> <=> DOMAIN out = {v.arg}),
         v.what # "json" /\ DOMAIN out # {} => audit = <<"success">>,
         v.what \in {"overview", "connection"} => DOMAIN out \cap Concealed = {},
         v.what = "action" => Len(audit) = 1 /\ audit # <<"success">>,
         NEW new, new = [v EXCEPT !.phase = "over", !.queue = <<>>, !.info = Nothing,
                           !.out = out, !.audit = audit]
  PROVE  VisitOK(new, held, ever, always)
  <1>1. VisitShape(v)
    BY DEF VisitOK
  <1>2. new.phase = "over" /\ new.what = v.what /\ new.name = v.name /\ new.arg = v.arg /\ new.kind = v.kind
        /\ new.queue = <<>> /\ new.info = Nothing /\ new.out = out /\ new.buttons = v.buttons
        /\ new.audit = audit /\ new.did = v.did /\ new.unheard = v.unheard
    BY <1>1 DEF VisitShape
  <1>3. VisitShape(new)
    BY <1>1 DEF VisitShape
  <1>4. DOMAIN Nothing = {} /\ <<>> \in Seq(Secrets)
    BY DEF Nothing
  <1>5. VisitTypes(new)
    BY <1>2, <1>4 DEF VisitOK, VisitTypes
  <1>6. FromSecrets(new.info) /\ FromSecrets(new.out)
    BY <1>2, <1>4 DEF FromSecrets
  <1>7. Unanswered(new)
    BY <1>2, <1>4 DEF Unanswered
  <1>8. RevealTrue(new)
    BY <1>2 DEF RevealTrue
  <1>9. ActionTrue(new, ever)
    BY <1>2 DEF ActionTrue, VisitOK, Unanswered
  <1>. QED  BY <1>2, <1>3, <1>5, <1>6, <1>7, <1>8, <1>9 DEF VisitOK, OneOrigin, Offers

LEMMA NoEntryBefore ==
  /\ <<>> \o <<>> = <<>> /\ <<>> \o <<"error">> = <<"error">> /\ <<>> \o <<"denied">> = <<"denied">>
  /\ <<>> \o <<"success">> = <<"success">> /\ <<"success">> \o <<>> = <<"success">>
  OBVIOUS

LEMMA AnswersStep ==
  ASSUME AccessInv, visit.phase \in {"finding", "secrets", "probing", "running"},
         NEW out, FromSecrets(out), NEW entries, Answers(out, entries),
         NEW audit, audit = visit.audit \o entries,
         visit.what = "reveal" => Len(audit) <= 1 /\ (audit = <<"success">> <=> DOMAIN out = {visit.arg}),
         visit.what # "json" /\ DOMAIN out # {} => audit = <<"success">>,
         visit.what \in {"overview", "connection"} => DOMAIN out \cap Concealed = {},
         visit.what = "action" => Len(audit) = 1 /\ audit # <<"success">>
  PROVE  AccessInv'
  <1>1. PICK new : new = [visit EXCEPT !.phase = "over", !.queue = <<>>, !.info = Nothing,
                           !.out = out, !.audit = audit]
    OBVIOUS
  <1>2. Continues(new)
    BY <1>1 DEF Answers
  <1>3. VisitOK(new, seen.held, seen.ever, seen.always)
    BY <1>1, AnswersOK DEF AccessInv
  <1>. QED  BY <1>2, <1>3, VisitStep

(* An error or a refusal.                                                  *)
LEMMA RefusalStep ==
  ASSUME AccessInv, visit.phase \in {"finding", "secrets", "running"},
         NEW entries, entries = IF visit.what \in {"reveal", "action"} THEN <<"error">> ELSE <<>>,
         Answers(Nothing, entries)
  PROVE  AccessInv'
  <1>1. DOMAIN Nothing = {} /\ FromSecrets(Nothing)
    BY DEF Nothing, FromSecrets
  <1>2. visit.audit = <<>>
    BY DEF AccessInv, VisitOK, Unanswered
  <1>3. PICK audit : audit = visit.audit \o entries
    OBVIOUS
  <1>4. visit.what \in {"reveal", "action"} => audit = <<"error">>
    BY <1>2, <1>3, NoEntryBefore
  <1>5. Len(<<"error">>) = 1 /\ <<"error">> # <<"success">>
    BY EntriesOfEdits
  <1>6. visit.what \in {"reveal", "action"} => Len(audit) = 1 /\ audit # <<"success">>
    BY <1>4, <1>5
  <1>7. Len(audit) = 1 => Len(audit) <= 1
    OBVIOUS
  <1>. QED  BY <1>1, <1>3, <1>6, <1>7, AnswersStep

(* A shown field of what was read is of a secret, as what was read is.     *)
LEMMA ShownFromSecrets ==
  ASSUME NEW info, FromSecrets(info), NEW S, NEW out, out = [f \in DOMAIN info \cap S |-> info[f]]
  PROVE  FromSecrets(out) /\ DOMAIN out = DOMAIN info \cap S
  BY DEF FromSecrets

LEMMA ComesStep == AccessInv /\ Comes => AccessInv'
  <1>. SUFFICES ASSUME AccessInv, Comes PROVE AccessInv'
    OBVIOUS
  <1>0. PICK what \in Asked, name \in AppNames : \E arg :
          visit' = [NoVisit EXCEPT !.phase = "finding", !.what = what, !.name = name, !.arg = arg]
    BY DEF Comes
  <1>1. PICK arg :
          visit' = [NoVisit EXCEPT !.phase = "finding", !.what = what, !.name = name, !.arg = arg]
    BY <1>0
  <1>2. PICK new : new = [NoVisit EXCEPT !.phase = "finding", !.what = what, !.name = name, !.arg = arg]
    OBVIOUS
  <1>3. VisitShape(new) /\ new.phase = "finding" /\ new.name = name /\ new.kind = "" /\ new.queue = <<>>
        /\ new.info = Nothing /\ new.out = Nothing /\ new.buttons = {} /\ new.audit = <<>>
        /\ new.did = "" /\ new.unheard = FALSE /\ new.flaky = {} /\ new.fellBack = FALSE
    BY <1>2 DEF NoVisit, VisitShape
  <1>4. DOMAIN Nothing = {} /\ <<>> \in Seq(Secrets)
    BY DEF Nothing
  <1>5. VisitTypes(new) /\ Unanswered(new)
    BY <1>3, <1>4 DEF VisitTypes, Unanswered
  <1>6. FromSecrets(new.info) /\ FromSecrets(new.out)
    BY <1>3, <1>4 DEF FromSecrets
  <1>7. \A held, ever, always : VisitOK(new, held, ever, always)
    BY <1>3, <1>5, <1>6 DEF VisitOK, OneOrigin, Offers, RevealTrue, ActionTrue
  <1>8. seen' = [held |-> Held, ever |-> grants, always |-> grants, changes |-> 0]
        /\ deployed' = deployed /\ holds' = holds /\ grants' = grants /\ visit' = new
    BY <1>1, <1>2 DEF Comes
  <1>9. ClusterOK' /\ Remembers'
    BY <1>8 DEF AccessInv, ClusterOK, Remembers, Held
  <1>. QED  BY <1>7, <1>8, <1>9 DEF AccessInv

LEMMA GoneStep == AccessInv /\ Gone => AccessInv'
  <1>. SUFFICES ASSUME AccessInv, Gone PROVE AccessInv'
    OBVIOUS
  <1>1. visit' = NoVisit /\ seen' = Unseen /\ deployed' = deployed /\ holds' = holds /\ grants' = grants
    BY DEF Gone
  <1>2. NoVisit.phase = "none"
    BY DEF NoVisit
  <1>3. ClusterOK' /\ Remembers'
    BY <1>1, <1>2 DEF AccessInv, ClusterOK, Remembers, Unseen
  <1>. QED  BY <1>1, <1>3, NoVisitOK DEF AccessInv

LEMMA RefusesPathStep == AccessInv /\ RefusesPath => AccessInv'
  <1>. SUFFICES ASSUME AccessInv, RefusesPath PROVE AccessInv'
    OBVIOUS
  <1>1. CASE visit.what = "action"
    BY <1>1, RefusalStep DEF RefusesPath
  <1>2. CASE visit.what = "reveal"
    <2>1. visit.phase = "finding" /\ Answers(Nothing, <<>>) /\ visit.audit = <<>>
      BY <1>2 DEF RefusesPath, AccessInv, VisitOK, Unanswered
    <2>2. DOMAIN Nothing = {} /\ FromSecrets(Nothing)
      BY DEF Nothing, FromSecrets
    <2>3. PICK audit : audit = visit.audit \o <<>>
      OBVIOUS
    <2>4. audit = <<>>
      BY <2>1, <2>3, NoEntryBefore
    <2>5. Len(audit) <= 1 /\ audit # <<"success">>
      BY <2>4, EntriesOfEdits
    <2>. QED  BY <1>2, <2>1, <2>2, <2>3, <2>5, AnswersStep
  <1>. QED  BY <1>1, <1>2 DEF RefusesPath
(* The calls that find out what the request is about.                      *)
LEMMA GetAppStep == AccessInv /\ GetApp => AccessInv'
  <1>. SUFFICES ASSUME AccessInv, GetApp PROVE AccessInv'
    OBVIOUS
  <1>1. PICK i \in DOMAIN KindOrder : Continues([visit EXCEPT !.phase = "templates", !.kind = KindOrder[i]])
    BY DEF GetApp
  <1>2. PICK v : v = visit
    OBVIOUS
  <1>3. PICK kind \in AppKinds : kind = KindOrder[i]
    <2>1. KindOrder \in Seq(AppKinds)
      BY AppAccessAssumption
    <2>. QED  BY <2>1
  <1>4. PICK new : new = [v EXCEPT !.phase = "templates", !.kind = kind]
    OBVIOUS
  <1>5. VisitOK(v, seen.held, seen.ever, seen.always) /\ VisitShape(v) /\ v.phase = "finding"
    BY <1>2 DEF AccessInv, VisitOK, GetApp
  <1>6. VisitShape(new) /\ new.phase = "templates" /\ new.name = v.name /\ new.kind = kind
        /\ new.queue = v.queue /\ new.info = v.info /\ new.out = v.out /\ new.buttons = v.buttons
        /\ new.audit = v.audit /\ new.did = v.did /\ new.unheard = v.unheard /\ new.flaky = v.flaky
        /\ new.fellBack = v.fellBack
    BY <1>4, <1>5 DEF VisitShape
  <1>7. VisitTypes(new) /\ Unanswered(new)
    BY <1>5, <1>6 DEF VisitOK, VisitTypes, Unanswered
  <1>8. FromSecrets(new.info) /\ FromSecrets(new.out)
    BY <1>5, <1>6 DEF VisitOK
  <1>9. VisitOK(new, seen.held, seen.ever, seen.always)
    BY <1>6, <1>7, <1>8 DEF VisitOK, OneOrigin, Offers, RevealTrue, ActionTrue
  <1>. QED  BY <1>1, <1>2, <1>3, <1>4, <1>5, <1>9, VisitStep

LEMMA LookupFailsStep == AccessInv /\ LookupFails => AccessInv'
  BY RefusalStep DEF LookupFails

LEMMA AccessConstants ==
  /\ \A k \in AppKinds : Registered[k] \in Seq(ActionIDs) /\ IsInjective(Registered[k])
  /\ \A k \in AppKinds, name \in AppNames :
       /\ SecretTemplates[<<k, name>>] \in Seq(Secrets) /\ Prefixed[<<k, name>>] \in Seq(Secrets)
       /\ TargetName[<<k, name>>] # ""
  <1>1. \A k \in AppKinds, name \in AppNames : <<k, name>> \in AppKinds \X AppNames
    OBVIOUS
  <1>. QED  BY <1>1, Zenon, AppAccessAssumption

LEMMA ReadTemplatesStep == AccessInv /\ ReadTemplates => AccessInv'
  <1>. SUFFICES ASSUME AccessInv, ReadTemplates PROVE AccessInv'
    OBVIOUS
  <1>1. PICK v : v = visit
    OBVIOUS
  <1>2. VisitOK(v, seen.held, seen.ever, seen.always) /\ VisitShape(v) /\ v.phase = "templates"
        /\ v.kind \in AppKinds /\ v.name \in AppNames /\ DOMAIN v.info = {}
    BY <1>1 DEF AccessInv, VisitOK, ReadTemplates, VisitTypes, Unanswered
  <1>3. PICK names : /\ names = <<>> \/ names = SecretTemplates[<<v.kind, v.name>>]
                     /\ Continues([v EXCEPT !.phase = "secrets", !.queue = names])
    BY <1>1 DEF ReadTemplates
  <1>4. names \in Seq(Secrets)
    <2>1. SecretTemplates[<<v.kind, v.name>>] \in Seq(Secrets)
      BY <1>2, AccessConstants
    <2>2. <<>> \in Seq(Secrets)
      OBVIOUS
    <2>. QED  BY <1>3, <2>1, <2>2
  <1>5. PICK new : new = [v EXCEPT !.phase = "secrets", !.queue = names]
    OBVIOUS
  <1>6. VisitShape(new) /\ new.phase = "secrets" /\ new.name = v.name /\ new.kind = v.kind
        /\ new.queue = names /\ new.info = v.info /\ new.out = v.out /\ new.buttons = v.buttons
        /\ new.audit = v.audit /\ new.did = v.did /\ new.unheard = v.unheard /\ new.flaky = v.flaky
        /\ new.fellBack = v.fellBack
    BY <1>2, <1>5 DEF VisitShape
  <1>7. ToSet(names) \subseteq ToSet(SecretTemplates[<<v.kind, v.name>>])
    BY <1>3 DEF ToSet
  <1>8. VisitTypes(new) /\ Unanswered(new)
    BY <1>2, <1>4, <1>6 DEF VisitOK, VisitTypes, Unanswered
  <1>9. OneOrigin(new, seen.held)
    BY <1>2, <1>6, <1>7 DEF VisitOK, Unanswered, OneOrigin
  <1>10. VisitOK(new, seen.held, seen.ever, seen.always)
    BY <1>2, <1>6, <1>8, <1>9 DEF VisitOK, Offers, RevealTrue, ActionTrue
  <1>. QED  BY <1>1, <1>2, <1>3, <1>5, <1>10, VisitStep

(* What remains of a list once its head is taken.                          *)
LEMMA TakesHead ==
  ASSUME NEW S, NEW q \in Seq(S), q # <<>>
  PROVE  /\ Head(q) \in S /\ Tail(q) \in Seq(S)
         /\ ToSet(q) = {Head(q)} \cup ToSet(Tail(q))
         /\ IsInjective(q) => IsInjective(Tail(q)) /\ Head(q) \notin ToSet(Tail(q))
  <1>1. Len(q) \in Nat \ {0} /\ DOMAIN q = 1 .. Len(q) /\ Head(q) = q[1]
    OBVIOUS
  <1>2. Tail(q) \in Seq(S) /\ DOMAIN Tail(q) = 1 .. Len(q) - 1
        /\ \A i \in 1 .. Len(q) - 1 : Tail(q)[i] = q[i + 1]
    OBVIOUS
  <1>3. ToSet(q) = {Head(q)} \cup ToSet(Tail(q))
    <2>1. ASSUME NEW x \in ToSet(q) PROVE x \in {Head(q)} \cup ToSet(Tail(q))
      <3>1. PICK i \in 1 .. Len(q) : x = q[i]
        BY <1>1, <2>1 DEF ToSet
      <3>2. i # 1 => i - 1 \in 1 .. Len(q) - 1 /\ Tail(q)[i - 1] = x
        BY <1>1, <1>2, <3>1
      <3>. QED  BY <1>1, <1>2, <3>1, <3>2 DEF ToSet
    <2>2. ASSUME NEW x \in ToSet(Tail(q)) PROVE x \in ToSet(q)
      <3>1. PICK i \in 1 .. Len(q) - 1 : x = q[i + 1]
        BY <1>2, <2>2 DEF ToSet
      <3>. QED  BY <1>1, <3>1 DEF ToSet
    <2>3. Head(q) \in ToSet(q)
      BY <1>1 DEF ToSet
    <2>. QED  BY <2>1, <2>2, <2>3
  <1>4. ASSUME IsInjective(q) PROVE IsInjective(Tail(q)) /\ Head(q) \notin ToSet(Tail(q))
    <2>1. \A i, j \in 1 .. Len(q) : q[i] = q[j] => i = j
      BY <1>1, <1>4 DEF IsInjective
    <2>2. ASSUME NEW i \in 1 .. Len(q) - 1, NEW j \in 1 .. Len(q) - 1, Tail(q)[i] = Tail(q)[j]
          PROVE  i = j
      BY <1>1, <1>2, <2>1, <2>2
    <2>3. \A i \in 1 .. Len(q) - 1 : Tail(q)[i] # Head(q)
      BY <1>1, <1>2, <2>1
    <2>. QED  BY <1>2, <2>2, <2>3 DEF IsInjective, ToSet
  <1>. QED  BY <1>1, <1>2, <1>3, <1>4

LEMMA ReadSecretStep == AccessInv /\ ReadSecretInto => AccessInv'
  <1>. SUFFICES ASSUME AccessInv, ReadSecretInto PROVE AccessInv'
    OBVIOUS
  <1>1. PICK v : v = visit
    OBVIOUS
  <1>2. VisitOK(v, seen.held, seen.ever, seen.always) /\ VisitShape(v) /\ v.phase = "secrets"
        /\ v.queue # <<>> /\ v.queue \in Seq(Secrets)
    BY <1>1 DEF AccessInv, VisitOK, ReadSecretInto, VisitTypes
  <1>3. PICK secret, rest : secret = Head(v.queue) /\ rest = Tail(v.queue)
    OBVIOUS
  <1>4. secret \in Secrets /\ rest \in Seq(Secrets) /\ ToSet(v.queue) = {secret} \cup ToSet(rest)
    BY <1>2, <1>3, TakesHead
  <1>5. PICK info : /\ info = v.info \/ (holds[secret] # NoData /\ info = With(v.info, secret))
                    /\ Continues([v EXCEPT !.queue = rest, !.info = info])
    <2>1. PICK next : next = [v EXCEPT !.queue = rest]
      OBVIOUS
    <2>2. next = [v EXCEPT !.queue = rest, !.info = v.info] /\ next.info = v.info
      BY <1>2, <2>1 DEF VisitShape
    <2>3. \A info : [next EXCEPT !.info = info] = [v EXCEPT !.queue = rest, !.info = info]
      BY <1>2, <2>1 DEF VisitShape
    <2>4. Continues(next) \/ (holds[secret] # NoData /\ Continues([next EXCEPT !.info = With(next.info, secret)]))
      BY <1>1, <1>3, <2>1 DEF ReadSecretInto
    <2>5. CASE Continues(next)
      BY <2>2, <2>5
    <2>6. CASE holds[secret] # NoData /\ Continues([next EXCEPT !.info = With(next.info, secret)])
      BY <2>2, <2>3, <2>6
    <2>. QED  BY <2>4, <2>5, <2>6
  <1>6. PICK new : new = [v EXCEPT !.queue = rest, !.info = info]
    OBVIOUS
  <1>7. VisitShape(new) /\ new.phase = "secrets" /\ new.name = v.name /\ new.kind = v.kind
        /\ new.queue = rest /\ new.info = info /\ new.out = v.out /\ new.buttons = v.buttons
        /\ new.audit = v.audit /\ new.did = v.did /\ new.unheard = v.unheard /\ new.flaky = v.flaky
        /\ new.fellBack = v.fellBack
    BY <1>2, <1>6 DEF VisitShape
  <1>8. \A f \in DOMAIN info : \/ f \in DOMAIN v.info /\ info[f] = v.info[f]
                               \/ /\ holds[secret] # NoData /\ f \in KeysOf[secret]
                                  /\ info[f] = <<secret, holds[secret]>>
    BY <1>5 DEF With
  <1>9. holds[secret] # NoData => <<secret, holds[secret]>> \in seen.held /\ holds[secret] \in Values
    BY <1>1, <1>2, <1>4 DEF AccessInv, ClusterOK, Remembers, Held
  <1>10. FromSecrets(info)
    BY <1>2, <1>4, <1>8, <1>9 DEF VisitOK, FromSecrets
  <1>11. OneOrigin(new, seen.held)
    <2>1. PICK origin : origin = IF v.fellBack THEN ToSet(Prefixed[<<v.kind, v.name>>]) \ NotCredentials
                                 ELSE ToSet(SecretTemplates[<<v.kind, v.name>>])
      OBVIOUS
    <2>2. ToSet(v.queue) \subseteq origin
          /\ \A f \in DOMAIN v.info : v.info[f] \in seen.held /\ v.info[f][1] \in origin
      BY <1>2, <2>1 DEF VisitOK, OneOrigin
    <2>3. secret \in origin /\ ToSet(rest) \subseteq origin
      BY <1>4, <2>2
    <2>4. <<secret, holds[secret]>>[1] = secret
      OBVIOUS
    <2>5. \A f \in DOMAIN info : info[f] \in seen.held /\ info[f][1] \in origin
      BY <1>8, <1>9, <2>2, <2>3, <2>4
    <2>. QED  BY <1>7, <2>1, <2>3, <2>5 DEF OneOrigin
  <1>12. VisitTypes(new) /\ Unanswered(new)
    BY <1>2, <1>4, <1>7 DEF VisitOK, VisitTypes, Unanswered
  <1>13. VisitOK(new, seen.held, seen.ever, seen.always)
    BY <1>2, <1>7, <1>10, <1>11, <1>12 DEF VisitOK, Offers, RevealTrue, ActionTrue
  <1>. QED  BY <1>1, <1>2, <1>5, <1>6, <1>13, VisitStep
LEMMA ListedInOrder ==
  ASSUME NEW list, NEW names \in SUBSET Secrets, NEW q \in InOrderOf(list, names)
  PROVE  q \in Seq(Secrets) /\ ToSet(q) \subseteq names
  <1>1. Cardinality(names) \in Nat
    BY AppAccessAssumption, FS_Subset, FS_CardinalityType
  <1>2. q \in [1 .. Cardinality(names) -> names]
    BY DEF InOrderOf, SetToSeqs
  <1>. QED  BY <1>1, <1>2 DEF ToSet

LEMMA FindSecretsStep == AccessInv /\ FindSecretsByPrefix => AccessInv'
  <1>. SUFFICES ASSUME AccessInv, FindSecretsByPrefix PROVE AccessInv'
    OBVIOUS
  <1>1. PICK v : v = visit
    OBVIOUS
  <1>2. VisitOK(v, seen.held, seen.ever, seen.always) /\ VisitShape(v) /\ v.phase = "secrets"
        /\ v.kind \in AppKinds /\ v.name \in AppNames /\ DOMAIN v.info = {}
    BY <1>1 DEF AccessInv, VisitOK, FindSecretsByPrefix, FallsBack, VisitTypes
  <1>3. PICK prefixed, wanted :
          /\ prefixed = Prefixed[<<v.kind, v.name>>]
          /\ wanted = {s \in ToSet(prefixed) \ NotCredentials : holds[s] # NoData}
    OBVIOUS
  <1>4. PICK names : /\ names \in {<<>>} \cup InOrderOf(prefixed, wanted)
                     /\ Continues([v EXCEPT !.queue = names, !.fellBack = TRUE])
    BY <1>1, <1>3 DEF FindSecretsByPrefix
  <1>5. prefixed \in Seq(Secrets)
    BY <1>2, <1>3, AccessConstants
  <1>6. wanted \subseteq Secrets
    BY <1>3, <1>5 DEF ToSet
  <1>7. names \in Seq(Secrets) /\ ToSet(names) \subseteq ToSet(prefixed) \ NotCredentials
    <2>1. <<>> \in Seq(Secrets) /\ ToSet(<<>>) = {}
      BY DEF ToSet
    <2>2. wanted \subseteq ToSet(prefixed) \ NotCredentials
      BY <1>3
    <2>3. CASE names = <<>>
      BY <2>1, <2>3
    <2>4. CASE names \in InOrderOf(prefixed, wanted)
      BY <1>6, <2>2, <2>4, ListedInOrder
    <2>. QED  BY <1>4, <2>3, <2>4
  <1>8. PICK new : new = [v EXCEPT !.queue = names, !.fellBack = TRUE]
    OBVIOUS
  <1>9. VisitShape(new) /\ new.phase = "secrets" /\ new.name = v.name /\ new.kind = v.kind
        /\ new.queue = names /\ new.info = v.info /\ new.out = v.out /\ new.buttons = v.buttons
        /\ new.audit = v.audit /\ new.did = v.did /\ new.unheard = v.unheard /\ new.flaky = v.flaky
        /\ new.fellBack = TRUE
    BY <1>2, <1>8 DEF VisitShape
  <1>10. VisitTypes(new) /\ Unanswered(new)
    BY <1>2, <1>7, <1>9 DEF VisitOK, VisitTypes, Unanswered
  <1>11. OneOrigin(new, seen.held)
    BY <1>2, <1>3, <1>7, <1>9 DEF OneOrigin
  <1>12. VisitOK(new, seen.held, seen.ever, seen.always)
    BY <1>2, <1>9, <1>10, <1>11 DEF VisitOK, Offers, RevealTrue, ActionTrue
  <1>. QED  BY <1>1, <1>2, <1>4, <1>8, <1>12, VisitStep

(* The answers to a reveal and to the JSON API.                            *)
LEMMA RevealStep == AccessInv /\ Reveal => AccessInv'
  <1>. SUFFICES ASSUME AccessInv, Reveal PROVE AccessInv'
    OBVIOUS
  <1>1. visit.phase = "secrets" /\ visit.what = "reveal" /\ visit.audit = <<>> /\ FromSecrets(visit.info)
    BY DEF Reveal, HasInfo, AccessInv, VisitOK, Unanswered
  <1>2. PICK out : out = [f \in DOMAIN visit.info \cap {visit.arg} |-> visit.info[f]]
    OBVIOUS
  <1>3. FromSecrets(out) /\ DOMAIN out = DOMAIN visit.info \cap {visit.arg}
    BY <1>1, <1>2, ShownFromSecrets
  <1>4. PICK entries : entries = RevealEntries
    OBVIOUS
  <1>5. Answers(out, entries)
    BY <1>2, <1>4 DEF Reveal
  <1>6. PICK audit : audit = visit.audit \o entries
    OBVIOUS
  <1>7. CASE visit.arg \in DOMAIN visit.info
    <2>1. audit = <<"success">> /\ DOMAIN out = {visit.arg}
      BY <1>1, <1>3, <1>4, <1>6, <1>7, NoEntryBefore DEF RevealEntries
    <2>2. Len(audit) <= 1
      BY <2>1, EntriesOfEdits
    <2>. QED  BY <1>1, <1>3, <1>5, <1>6, <2>1, <2>2, AnswersStep
  <1>8. CASE visit.arg \notin DOMAIN visit.info
    <2>1. audit = <<"denied">> /\ DOMAIN out = {}
      BY <1>1, <1>3, <1>4, <1>6, <1>8, NoEntryBefore DEF RevealEntries
    <2>2. Len(audit) <= 1 /\ audit # <<"success">>
      BY <2>1, EntriesOfEdits
    <2>. QED  BY <1>1, <1>3, <1>5, <1>6, <2>1, <2>2, AnswersStep
  <1>. QED  BY <1>7, <1>8

LEMMA GetJSONStep == AccessInv /\ GetJSON => AccessInv'
  <1>. SUFFICES ASSUME AccessInv, GetJSON PROVE AccessInv'
    OBVIOUS
  <1>1. visit.phase = "secrets" /\ visit.what = "json" /\ FromSecrets(visit.info)
        /\ Answers(visit.info, <<>>)
    BY DEF GetJSON, HasInfo, AccessInv, VisitOK
  <1>. QED  BY <1>1, AnswersStep

(* The page: its entry, its buttons, its fields.                           *)
LEMMA TabOK ==
  ASSUME NEW v, NEW held, NEW ever, NEW always, VisitOK(v, held, ever, always), v.phase = "secrets",
         v.queue = <<>>, NEW audit,
         \/ v.what = "connection" /\ audit = <<"success">>
         \/ v.what = "overview" /\ audit = <<>>,
         NEW queue, NEW flaky, NEW all, all = Registered[v.kind],
         (queue = all /\ flaky = {}) \/ (queue = <<>> /\ flaky = ToSet(all)),
         NEW new, new = [v EXCEPT !.phase = "probing", !.audit = audit, !.queue = queue, !.flaky = flaky]
  PROVE  VisitOK(new, held, ever, always)
  <1>1. VisitShape(v) /\ v.buttons = {} /\ v.kind \in AppKinds
    BY DEF VisitOK, Unanswered, VisitTypes
  <1>2. VisitShape(new) /\ new.phase = "probing" /\ new.name = v.name /\ new.kind = v.kind /\ new.what = v.what
        /\ new.queue = queue /\ new.info = v.info /\ new.out = v.out /\ new.buttons = {}
        /\ new.audit = audit /\ new.did = v.did /\ new.unheard = v.unheard /\ new.flaky = flaky
        /\ new.fellBack = v.fellBack
    BY <1>1 DEF VisitShape
  <1>3. all \in Seq(ActionIDs) /\ IsInjective(all)
    BY <1>1, AccessConstants
  <1>4. <<>> \in Seq(ActionIDs) /\ ToSet(<<>>) = {} /\ IsInjective(<<>>)
    BY DEF ToSet, IsInjective
  <1>5. queue \in Seq(ActionIDs) /\ IsInjective(queue) /\ ToSet(queue) \subseteq ToSet(all)
        /\ ToSet(all) \ flaky \subseteq ToSet(queue) /\ ToSet(queue) \cap flaky = {}
    BY <1>3, <1>4
  <1>6. VisitTypes(new) /\ Unanswered(new)
    BY <1>1, <1>2, <1>5 DEF VisitOK, VisitTypes, Unanswered
  <1>7. OneOrigin(new, held)
    BY <1>2 DEF VisitOK, OneOrigin
  <1>8. Offers(new, ever, always)
    BY <1>2, <1>5 DEF Offers
  <1>. QED  BY <1>2, <1>6, <1>7, <1>8 DEF VisitOK, RevealTrue, ActionTrue

LEMMA ShowTabStep == AccessInv /\ ShowTab => AccessInv'
  <1>. SUFFICES ASSUME AccessInv, ShowTab PROVE AccessInv'
    OBVIOUS
  <1>1. PICK v : v = visit
    OBVIOUS
  <1>2. VisitOK(v, seen.held, seen.ever, seen.always) /\ VisitShape(v) /\ v.phase = "secrets"
        /\ v.queue = <<>> /\ v.flaky = {}
    BY <1>1 DEF AccessInv, VisitOK, ShowTab, HasInfo, Unanswered
  <1>3. PICK entries : /\ \/ v.what = "connection" /\ entries = <<"success">>
                          \/ v.what = "overview" /\ entries = <<>>
                       /\ Tab(entries)
    BY <1>1 DEF ShowTab
  <1>4. PICK next, all : next = [v EXCEPT !.phase = "probing", !.audit = entries] /\ all = Registered[v.kind]
    OBVIOUS
  <1>5. Continues([next EXCEPT !.queue = all]) \/ Continues([next EXCEPT !.flaky = ToSet(all)])
    BY <1>1, <1>3, <1>4 DEF Tab
  <1>6. CASE Continues([next EXCEPT !.queue = all])
    <2>1. PICK new : new = [v EXCEPT !.phase = "probing", !.audit = entries, !.queue = all, !.flaky = {}]
      OBVIOUS
    <2>2. new = [next EXCEPT !.queue = all]
      BY <1>2, <1>4, <2>1 DEF VisitShape
    <2>3. VisitOK(new, seen.held, seen.ever, seen.always)
      BY <1>2, <1>3, <1>4, <2>1, TabOK
    <2>. QED  BY <1>1, <1>2, <1>6, <2>2, <2>3, VisitStep
  <1>7. CASE Continues([next EXCEPT !.flaky = ToSet(all)])
    <2>1. PICK flaky : flaky = ToSet(all)
      OBVIOUS
    <2>2. PICK new : new = [v EXCEPT !.phase = "probing", !.audit = entries, !.queue = <<>>, !.flaky = flaky]
      OBVIOUS
    <2>3. new = [next EXCEPT !.flaky = flaky]
      BY <1>2, <1>4, <2>2 DEF VisitShape
    <2>4. VisitOK(new, seen.held, seen.ever, seen.always)
      BY <1>2, <1>3, <1>4, <2>1, <2>2, TabOK
    <2>. QED  BY <1>1, <1>2, <1>7, <2>1, <2>3, <2>4, VisitStep
  <1>. QED  BY <1>5, <1>6, <1>7
LEMMA ProbedOK ==
  ASSUME NEW v, NEW held, NEW ever, NEW always, VisitOK(v, held, ever, always), v.phase = "probing",
         NEW rest \in Seq(ActionIDs), NEW buttons \in SUBSET ActionIDs, NEW flaky,
         NEW new, new = [v EXCEPT !.queue = rest, !.buttons = buttons, !.flaky = flaky],
         NEW all, all = ToSet(Registered[v.kind]),
         buttons \subseteq (ever \cap all) \ flaky, (always \cap all) \ flaky \subseteq buttons \cup ToSet(rest),
         ToSet(rest) \subseteq all, IsInjective(rest), ToSet(rest) \cap (buttons \cup flaky) = {}
  PROVE  VisitOK(new, held, ever, always)
  <1>1. VisitShape(v)
    BY DEF VisitOK
  <1>2. VisitShape(new) /\ new.phase = "probing" /\ new.name = v.name /\ new.kind = v.kind /\ new.what = v.what
        /\ new.queue = rest /\ new.info = v.info /\ new.out = v.out /\ new.buttons = buttons
        /\ new.audit = v.audit /\ new.did = v.did /\ new.unheard = v.unheard /\ new.flaky = flaky
        /\ new.fellBack = v.fellBack
    BY <1>1 DEF VisitShape
  <1>3. VisitTypes(new) /\ Unanswered(new)
    BY <1>2 DEF VisitOK, VisitTypes, Unanswered
  <1>4. OneOrigin(new, held)
    BY <1>2 DEF VisitOK, OneOrigin
  <1>5. Offers(new, ever, always)
    BY <1>2 DEF Offers
  <1>. QED  BY <1>2, <1>3, <1>4, <1>5 DEF VisitOK, RevealTrue, ActionTrue

LEMMA ProbeStep == AccessInv /\ Probe => AccessInv'
  <1>. SUFFICES ASSUME AccessInv, Probe PROVE AccessInv'
    OBVIOUS
  <1>1. PICK v : v = visit
    OBVIOUS
  <1>2. VisitOK(v, seen.held, seen.ever, seen.always) /\ VisitShape(v) /\ v.phase = "probing"
        /\ v.queue # <<>> /\ v.queue \in Seq(ActionIDs) /\ v.buttons \subseteq ActionIDs
    BY <1>1 DEF AccessInv, VisitOK, Probe, VisitTypes
  <1>3. PICK action, rest, all : action = Head(v.queue) /\ rest = Tail(v.queue) /\ all = ToSet(Registered[v.kind])
    OBVIOUS
  <1>4. /\ v.buttons \subseteq (seen.ever \cap all) \ v.flaky
        /\ (seen.always \cap all) \ v.flaky \subseteq v.buttons \cup ToSet(v.queue)
        /\ ToSet(v.queue) \subseteq all /\ IsInjective(v.queue)
        /\ ToSet(v.queue) \cap (v.buttons \cup v.flaky) = {}
    BY <1>2, <1>3 DEF VisitOK, Offers
  <1>5. /\ action \in ActionIDs /\ rest \in Seq(ActionIDs) /\ ToSet(v.queue) = {action} \cup ToSet(rest)
        /\ IsInjective(rest) /\ action \notin ToSet(rest)
    BY <1>2, <1>3, <1>4, TakesHead
  <1>6. grants \subseteq seen.ever /\ seen.always \subseteq grants
    BY <1>1, <1>2 DEF AccessInv, Remembers
  <1>7. PICK next : next = [v EXCEPT !.queue = rest]
    OBVIOUS
  <1>8. next.buttons = v.buttons /\ next.flaky = v.flaky
    BY <1>2, <1>7 DEF VisitShape
  <1>9. \/ Continues([next EXCEPT !.buttons = next.buttons \cup ({action} \cap grants)])
        \/ Continues([next EXCEPT !.flaky = next.flaky \cup {action},
                        !.buttons = next.buttons \cup KeptOnError(action)])
    BY <1>1, <1>3, <1>7 DEF Probe
  <1>10. CASE Continues([next EXCEPT !.buttons = next.buttons \cup ({action} \cap grants)])
    <2>1. PICK buttons, flaky : buttons = v.buttons \cup ({action} \cap grants) /\ flaky = v.flaky
      OBVIOUS
    <2>2. PICK new : new = [v EXCEPT !.queue = rest, !.buttons = buttons, !.flaky = flaky]
      OBVIOUS
    <2>3. new = [next EXCEPT !.buttons = buttons]
      BY <1>2, <1>7, <2>1, <2>2 DEF VisitShape
    <2>4. /\ buttons \subseteq ActionIDs /\ buttons \subseteq (seen.ever \cap all) \ flaky
          /\ (seen.always \cap all) \ flaky \subseteq buttons \cup ToSet(rest)
          /\ ToSet(rest) \subseteq all /\ ToSet(rest) \cap (buttons \cup flaky) = {}
      BY <1>2, <1>4, <1>5, <1>6, <2>1
    <2>5. VisitOK(new, seen.held, seen.ever, seen.always)
      BY <1>2, <1>3, <1>5, <2>2, <2>4, ProbedOK
    <2>. QED  BY <1>1, <1>2, <1>8, <1>10, <2>1, <2>3, <2>5, VisitStep
  <1>11. CASE Continues([next EXCEPT !.flaky = next.flaky \cup {action},
                           !.buttons = next.buttons \cup KeptOnError(action)])
    <2>1. PICK buttons, flaky : buttons = v.buttons \cup KeptOnError(action) /\ flaky = v.flaky \cup {action}
      OBVIOUS
    <2>2. PICK new : new = [v EXCEPT !.queue = rest, !.buttons = buttons, !.flaky = flaky]
      OBVIOUS
    <2>3. new = [next EXCEPT !.flaky = flaky, !.buttons = buttons]
      BY <1>2, <1>7, <2>1, <2>2 DEF VisitShape
    <2>4. /\ buttons \subseteq ActionIDs /\ buttons \subseteq (seen.ever \cap all) \ flaky
          /\ (seen.always \cap all) \ flaky \subseteq buttons \cup ToSet(rest)
          /\ ToSet(rest) \subseteq all /\ ToSet(rest) \cap (buttons \cup flaky) = {}
      BY <1>2, <1>4, <1>5, <2>1 DEF KeptOnError
    <2>5. VisitOK(new, seen.held, seen.ever, seen.always)
      BY <1>2, <1>3, <1>5, <2>2, <2>4, ProbedOK
    <2>. QED  BY <1>1, <1>2, <1>8, <1>11, <2>1, <2>3, <2>5, VisitStep
  <1>. QED  BY <1>9, <1>10, <1>11

LEMMA RenderDetailStep == AccessInv /\ RenderDetail => AccessInv'
  <1>. SUFFICES ASSUME AccessInv, RenderDetail PROVE AccessInv'
    OBVIOUS
  <1>1. visit.phase = "probing" /\ FromSecrets(visit.info)
        /\ (\/ visit.what = "connection" /\ visit.audit = <<"success">>
            \/ visit.what = "overview" /\ visit.audit = <<>>)
    BY DEF RenderDetail, AccessInv, VisitOK, Unanswered
  <1>2. PICK plain : plain = IF visit.what = "connection" THEN DOMAIN visit.info \ Concealed ELSE {}
    OBVIOUS
  <1>3. PICK out : out = [f \in DOMAIN visit.info \cap plain |-> visit.info[f]]
    OBVIOUS
  <1>4. plain = DOMAIN visit.info \cap plain
    BY <1>2
  <1>5. Answers(out, <<>>)
    BY <1>2, <1>3, <1>4 DEF RenderDetail
  <1>6. FromSecrets(out) /\ DOMAIN out = plain
    BY <1>1, <1>3, <1>4, ShownFromSecrets
  <1>7. PICK audit : audit = visit.audit \o <<>>
    OBVIOUS
  <1>8. DOMAIN out # {} => audit = <<"success">>
    BY <1>1, <1>2, <1>6, <1>7, NoEntryBefore
  <1>9. DOMAIN out \cap Concealed = {}
    BY <1>2, <1>6
  <1>10. visit.what # "reveal" /\ visit.what # "action"
    BY <1>1
  <1>. QED  BY <1>1, <1>5, <1>6, <1>7, <1>8, <1>9, <1>10, AnswersStep

(* A click.                                                                *)
LEMMA ResolveActionStep == AccessInv /\ ResolveAction => AccessInv'
  <1>. SUFFICES ASSUME AccessInv, ResolveAction PROVE AccessInv'
    OBVIOUS
  <1>1. PICK v : v = visit
    OBVIOUS
  <1>2. VisitOK(v, seen.held, seen.ever, seen.always) /\ VisitShape(v) /\ v.phase = "secrets"
        /\ v.queue = <<>> /\ v.what = "action"
    BY <1>1 DEF AccessInv, VisitOK, ResolveAction, HasInfo
  <1>3. CASE Answers(Nothing, <<"error">>)
    BY <1>1, <1>2, <1>3, RefusalStep
  <1>4. CASE Lookup /\ Continues([v EXCEPT !.phase = "running", !.info = Nothing])
    <2>1. PICK new : new = [v EXCEPT !.phase = "running", !.info = Nothing]
      OBVIOUS
    <2>2. VisitShape(new) /\ new.phase = "running" /\ new.name = v.name /\ new.kind = v.kind /\ new.what = v.what
          /\ new.queue = <<>> /\ new.info = Nothing /\ new.out = v.out /\ new.buttons = v.buttons
          /\ new.audit = v.audit /\ new.did = v.did /\ new.unheard = v.unheard /\ new.flaky = v.flaky
          /\ new.fellBack = v.fellBack /\ new.arg = v.arg
      BY <1>2, <2>1 DEF VisitShape
    <2>3. DOMAIN Nothing = {} /\ <<>> \in Seq(Secrets)
      BY DEF Nothing
    <2>4. v.arg \in ToSet(Registered[v.kind])
      BY <1>1, <1>4 DEF Lookup
    <2>5. VisitTypes(new) /\ Unanswered(new)
      BY <1>2, <2>2, <2>3, <2>4 DEF VisitOK, VisitTypes, Unanswered
    <2>6. FromSecrets(new.info)
      BY <2>2, <2>3 DEF FromSecrets
    <2>7. VisitOK(new, seen.held, seen.ever, seen.always)
      BY <1>2, <2>2, <2>5, <2>6 DEF VisitOK, OneOrigin, Offers, RevealTrue, ActionTrue
    <2>. QED  BY <1>1, <1>2, <1>4, <2>1, <2>7, VisitStep
  <1>. QED  BY <1>1, <1>3, <1>4 DEF ResolveAction

LEMMA RunActionStep == AccessInv /\ RunAction => AccessInv'
  <1>. SUFFICES ASSUME AccessInv, RunAction PROVE AccessInv'
    OBVIOUS
  <1>1. PICK v : v = visit
    OBVIOUS
  <1>2. VisitOK(v, seen.held, seen.ever, seen.always) /\ VisitShape(v) /\ v.phase = "running"
        /\ v.queue = <<>> /\ v.what = "action" /\ v.arg \in ToSet(Registered[v.kind])
        /\ v.kind \in AppKinds /\ v.name \in AppNames /\ v.arg \in grants /\ DOMAIN v.info = {}
    BY <1>1 DEF AccessInv, VisitOK, RunAction, VisitTypes, Unanswered
  <1>3. PICK target : target = TargetName[<<v.kind, v.name>>]
    OBVIOUS
  <1>4. PICK lost \in BOOLEAN :
          Continues([v EXCEPT !.phase = "over", !.did = target, !.unheard = lost,
                       !.audit = IF lost THEN <<"error">> ELSE <<"success">>])
    BY <1>1, <1>3 DEF RunAction
  <1>5. PICK audit : audit = IF lost THEN <<"error">> ELSE <<"success">>
    OBVIOUS
  <1>6. PICK new : new = [v EXCEPT !.phase = "over", !.did = target, !.unheard = lost, !.audit = audit]
    OBVIOUS
  <1>7. VisitShape(new) /\ new.phase = "over" /\ new.name = v.name /\ new.kind = v.kind /\ new.what = v.what
        /\ new.queue = v.queue /\ new.info = v.info /\ new.out = v.out /\ new.buttons = v.buttons
        /\ new.audit = audit /\ new.did = target /\ new.unheard = lost /\ new.arg = v.arg
    BY <1>2, <1>6 DEF VisitShape
  <1>8. target # ""
    BY <1>2, <1>3, AccessConstants
  <1>9. Len(audit) = 1 /\ (audit = <<"success">> <=> ~lost)
    <2>1. CASE lost
      BY <1>5, <2>1, EntriesOfEdits
    <2>2. CASE ~lost
      BY <1>5, <2>2, EntriesOfEdits
    <2>. QED  BY <2>1, <2>2
  <1>10. v.arg \in seen.ever
    BY <1>1, <1>2 DEF AccessInv, Remembers
  <1>11. ActionTrue(new, seen.ever)
    BY <1>2, <1>3, <1>7, <1>8, <1>9, <1>10 DEF ActionTrue
  <1>12. VisitTypes(new) /\ Unanswered(new)
    BY <1>2, <1>7 DEF VisitOK, VisitTypes, Unanswered
  <1>13. RevealTrue(new)
    BY <1>2, <1>7 DEF RevealTrue, VisitOK, Unanswered
  <1>14. VisitOK(new, seen.held, seen.ever, seen.always)
    BY <1>2, <1>7, <1>11, <1>12, <1>13 DEF VisitOK, OneOrigin, Offers
  <1>. QED  BY <1>1, <1>2, <1>3, <1>4, <1>5, <1>6, <1>14, VisitStep

LEMMA RunFailsStep == AccessInv /\ RunFails => AccessInv'
  <1>. SUFFICES ASSUME AccessInv, RunFails PROVE AccessInv'
    OBVIOUS
  <1>1. visit.phase = "running" /\ visit.what = "action" /\ Answers(Nothing, <<"error">>)
    BY DEF RunFails, AccessInv, VisitOK, Unanswered
  <1>. QED  BY <1>1, RefusalStep

LEMMA AccessInvStep == AccessInv /\ [AccessNext]_accessVars => AccessInv'
  <1>. SUFFICES ASSUME AccessInv, [AccessNext]_accessVars PROVE AccessInv'
    OBVIOUS
  <1>1. ASSUME UNCHANGED accessVars PROVE AccessInv'
    BY <1>1 DEF accessVars, AccessInv, ClusterOK, Remembers, Held
  <1>. QED  BY <1>1, ClusterStep, ComesStep, RefusesPathStep, GetAppStep, LookupFailsStep, ReadTemplatesStep,
               ReadSecretStep, FindSecretsStep, RevealStep, GetJSONStep, ShowTabStep, ProbeStep,
               RenderDetailStep, ResolveActionStep, RunActionStep, RunFailsStep, GoneStep DEF AccessNext

LEMMA AccessInvInit == AccessInit => AccessInv
  <1>1. NoVisit.phase = "none"
    BY DEF NoVisit
  <1>. QED  BY <1>1, NoVisitOK DEF AccessInit, AccessInv, ClusterOK, Remembers, Unseen

(* The inductive invariant of a request that looks, reveals or acts, while *)
(* the cluster changes between any two of its calls.                       *)
THEOREM AccessInvariant == AccessSpec => []AccessInv
  <1>. QED  BY AccessInvInit, AccessInvStep, PTL DEF AccessSpec

(* Type correctness of the requests that look, reveal and act.             *)
THEOREM AccessTyped == AccessSpec => []AccessTypeOK
  <1>1. ASSUME AccessInv PROVE AccessTypeOK
    <2>1. VisitTypes(visit) /\ FromSecrets(visit.info) /\ FromSecrets(visit.out)
      BY <1>1 DEF AccessInv, VisitOK
    <2>2. \A S, q : q \in Seq(S) => ToSet(q) \subseteq S
      BY DEF ToSet
    <2>3. ToSet(visit.queue) \subseteq IF visit.phase = "probing" THEN ActionIDs ELSE Secrets
      BY <2>1, <2>2 DEF VisitTypes
    <2>4. \A info \in {visit.info, visit.out} :
            \A f \in DOMAIN info : info[f] \in Secrets \X Values /\ f \in KeysOf[info[f][1]]
      BY <2>1 DEF FromSecrets
    <2>5. holds \in [Secrets -> Values \cup {NoData}]
      BY <1>1 DEF AccessInv, ClusterOK
    <2>. QED  BY <1>1, <2>1, <2>3, <2>4, <2>5 DEF AccessTypeOK, AccessInv, ClusterOK, VisitTypes
  <1>2. AccessInv => AccessTypeOK
    BY <1>1
  <1>. QED  BY <1>2, AccessInvariant, PTL

(* Whoever is shown a value of a secret has an entry in the audit log,     *)
(* the JSON API apart, and a concealed one is in no page                   *)
(* (SecretRevealFragment, AppDetailPage).                                  *)
THEOREM RevealsAreRecorded == AccessSpec => []RevealedIsRecorded
  <1>1. AccessInv => RevealedIsRecorded
    BY DEF AccessInv, VisitOK, RevealTrue, RevealedIsRecorded
  <1>. QED  BY <1>1, AccessInvariant, PTL

(* What the page shows to connect with was in the secrets meanwhile, and   *)
(* is of one origin (getConnectionInfo), however the secrets change.       *)
THEOREM ConnectionOfOneSource == AccessSpec => []InfoFromOneSource
  <1>1. ASSUME AccessInv PROVE InfoFromOneSource
    <2>1. SUFFICES ASSUME DOMAIN visit.info # {}
                   PROVE  LET app == <<visit.kind, visit.name>>
                              from == {visit.info[f][1] : f \in DOMAIN visit.info}
                          IN  /\ {visit.info[f] : f \in DOMAIN visit.info} \subseteq seen.held
                              /\ \/ from \subseteq ToSet(SecretTemplates[app])
                                 \/ from \subseteq ToSet(Prefixed[app]) \ NotCredentials
      BY DEF InfoFromOneSource
    <2>2. visit.phase \in {"secrets", "probing"}
      BY <1>1, <2>1 DEF AccessInv, VisitOK, Unanswered
    <2>. QED  BY <1>1, <2>2 DEF AccessInv, VisitOK, OneOrigin
  <1>2. AccessInv => InfoFromOneSource
    BY <1>1
  <1>. QED  BY <1>2, AccessInvariant, PTL

(* A click leaves one true entry, and acts on the machine of the           *)
(* application named only (InvokeAction, runAction).                       *)
THEOREM ActionsAreAudited == AccessSpec => []ActionAuditIsTrue
  <1>1. AccessInv => ActionAuditIsTrue
    BY DEF AccessInv, VisitOK, ActionTrue, ActionAuditIsTrue
  <1>. QED  BY <1>1, AccessInvariant, PTL

(* The buttons of a page are those that were allowed (FilterAllowed),      *)
(* whatever roles change between two access reviews.                       *)
THEOREM ButtonsAreAllowed == AccessSpec => []ButtonsWereAllowed
  <1>1. ASSUME AccessInv, visit.phase = "probing", visit.queue = <<>>
        PROVE  /\ visit.buttons \subseteq (seen.ever \cap ToSet(Registered[visit.kind])) \ visit.flaky
               /\ (seen.always \cap ToSet(Registered[visit.kind])) \ visit.flaky \subseteq visit.buttons
    <2>1. ToSet(visit.queue) = {}
      BY <1>1 DEF ToSet
    <2>. QED  BY <1>1, <2>1 DEF AccessInv, VisitOK, Offers
  <1>2. AccessInv => ButtonsWereAllowed
    BY <1>1 DEF ButtonsWereAllowed
  <1>. QED  BY <1>2, AccessInvariant, PTL
-----------------------------------------------------------------------------
(* Schemas.  Who can read a definition, and how far a copy of it can lag   *)
(* behind the cluster: a copy taken so long ago is the definition, unless  *)
(* that changed since.                                                     *)
CanRead(user, def) ==
  \E s \in Sessions : UserOf[s] = user /\ (<<s, def>> \in MayGet \/ s \in MayList)

LagsBy(ds, sn, got, age) ==
  got.def \in Definitions /\ (got.content = ds[got.def] \/ sn[got.def] <= age)

EntryOK(ds, sn, user, e) ==
  /\ e = [schema |-> e.schema, age |-> e.age] /\ e.age \in Nat
  /\ e.schema = NoSchema => e = NoEntry
  /\ e # NoEntry => CanRead(user, e.schema.def) /\ LagsBy(ds, sn, e.schema, e.age + MaxStall)

AskShape(x) ==
  x = [phase |-> x.phase, session |-> x.session, kind |-> x.kind, schema |-> x.schema, age |-> x.age]

AskOK(ds, sn, x) ==
  /\ AskShape(x) /\ x.age \in Nat /\ x.age <= MaxStall
  /\ x.phase # "idle" => x.session \in Sessions /\ x.kind \in AskedKinds
  /\ x.phase = "caching" => x.schema # NoSchema /\ LagsBy(ds, sn, x.schema, x.age)
  /\ x.phase \in {"caching", "rendering"} => CanRead(UserOf[x.session], x.schema.def)

DefsOK(ds, sn) ==
  /\ ds = [d \in Definitions |-> ds[d]] /\ sn = [d \in Definitions |-> sn[d]]
  /\ \A d \in Definitions : sn[d] \in Nat /\ sn[d] <= Longest

CacheOK(ds, sn, c) ==
  /\ c = [k \in Users \X AskedKinds |-> c[k]]
  /\ \A user \in Users, kind \in AskedKinds : EntryOK(ds, sn, user, c[<<user, kind>>])

AsksOK(ds, sn, as) ==
  /\ as = [a \in Askers |-> as[a]]
  /\ \A a \in Askers : AskOK(ds, sn, as[a])

SchemasInv == DefsOK(defs, since) /\ CacheOK(defs, since, cache) /\ AsksOK(defs, since, asks)

(* What a step hands to a form is fresh.                                   *)
HandsOutFresh ==
  \A a \in Askers : asks[a].phase # "rendering" /\ asks'[a].phase = "rendering" =>
    LET got == asks'[a].schema IN
    got.content = defs[got.def] \/ since[got.def] < schemaCacheTTL + MaxStall

LEMMA OlderByOne ==
  ASSUME NEW age \in Nat, NEW limit \in Nat
  PROVE  Older(age, limit) = IF age + 1 <= limit THEN age + 1 ELSE limit
  <1>1. PICK m : m = IF age + 1 <= limit THEN age + 1 ELSE limit
    OBVIOUS
  <1>2. m \in {age + 1, limit} /\ \A y \in {age + 1, limit} : m <= y
    BY <1>1
  <1>3. \A x \in {age + 1, limit} : (\A y \in {age + 1, limit} : x <= y) => x = m
    BY <1>1
  <1>. QED  BY <1>1, <1>2, <1>3 DEF Older, Min

(* A step of one request, which leaves the definitions as they are.        *)
LEMMA AskStep ==
  ASSUME SchemasInv, NEW a \in Askers, NEW new, asks' = [asks EXCEPT ![a] = new],
         UNCHANGED <<defs, since>>, CacheOK(defs, since, cache'), AskOK(defs, since, new),
         asks[a].phase # "rendering" /\ new.phase = "rendering" =>
           new.schema.content = defs[new.schema.def] \/ since[new.schema.def] < schemaCacheTTL + MaxStall
  PROVE  SchemasInv' /\ HandsOutFresh
  <1>1. asks = [b \in Askers |-> asks[b]] /\ defs' = defs /\ since' = since
    BY DEF SchemasInv, AsksOK
  <1>2. asks' = [b \in Askers |-> asks'[b]] /\ asks'[a] = new
        /\ \A b \in Askers \ {a} : asks'[b] = asks[b]
    BY <1>1
  <1>3. AsksOK(defs, since, asks')
    BY <1>2 DEF SchemasInv, AsksOK
  <1>4. HandsOutFresh
    <2>1. ASSUME NEW b \in Askers, asks[b].phase # "rendering", asks'[b].phase = "rendering"
          PROVE  asks'[b].schema.content = defs[asks'[b].schema.def]
                 \/ since[asks'[b].schema.def] < schemaCacheTTL + MaxStall
      <3>1. b = a
        BY <1>2, <2>1
      <3>. QED  BY <1>2, <2>1, <3>1
    <2>. QED  BY <2>1 DEF HandsOutFresh
  <1>. QED  BY <1>1, <1>3, <1>4 DEF SchemasInv

LEMMA QuietOK == \A ds, sn : AskOK(ds, sn, Quiet)
  <1>1. AskShape(Quiet) /\ Quiet.phase = "idle" /\ Quiet.age = 0
    BY DEF Quiet, AskShape
  <1>. QED  BY <1>1, SchemasAssumption DEF AskOK

LEMMA AskKeeps ==
  ASSUME SchemasInv, NEW a \in Askers, Ask(a)
  PROVE  SchemasInv' /\ HandsOutFresh
  <1>1. PICK session \in Sessions, kind \in AskedKinds :
         LET key == <<cacheUserKey(session), kind>>
             asked == [Quiet EXCEPT !.session = session, !.kind = kind]
             entry == cache[key]
         IN  \/ /\ entry # NoEntry /\ entry.age < schemaCacheTTL
                /\ asks' = [asks EXCEPT ![a] = [asked EXCEPT !.phase = "rendering", !.schema = entry.schema]]
                /\ CacheHit(key)
             \/ /\ entry = NoEntry \/ entry.age >= schemaCacheTTL
                /\ asks' = [asks EXCEPT ![a] = [asked EXCEPT !.phase = "getting"]]
                /\ UNCHANGED cache
    BY DEF Ask
  <1>2. PICK user, entry : user = UserOf[session] /\ entry = cache[<<user, kind>>]
    OBVIOUS
  <1>3. user \in Users /\ EntryOK(defs, since, user, entry)
    BY <1>2 DEF SchemasInv, CacheOK, Users
  <1>4. PICK asked : asked = [Quiet EXCEPT !.session = session, !.kind = kind]
    OBVIOUS
  <1>5. cache' = cache /\ UNCHANGED <<defs, since>> /\ CacheOK(defs, since, cache')
    BY <1>1 DEF CacheHit, Ask, SchemasInv
  <1>6. CASE entry # NoEntry /\ entry.age < schemaCacheTTL
             /\ asks' = [asks EXCEPT ![a] = [asked EXCEPT !.phase = "rendering", !.schema = entry.schema]]
    <2>1. PICK schema : schema = entry.schema
      OBVIOUS
    <2>2. PICK new : new = [Quiet EXCEPT !.session = session, !.kind = kind, !.phase = "rendering", !.schema = schema]
      OBVIOUS
    <2>3. new = [asked EXCEPT !.phase = "rendering", !.schema = schema]
      BY <1>4, <2>2 DEF Quiet
    <2>4. AskShape(new) /\ new.session = session /\ new.kind = kind /\ new.phase = "rendering"
          /\ new.schema = schema /\ new.age = 0
      BY <2>2 DEF Quiet, AskShape
    <2>5. CanRead(user, schema.def) /\ LagsBy(defs, since, schema, entry.age + MaxStall)
      BY <1>3, <1>6, <2>1 DEF EntryOK
    <2>6. AskOK(defs, since, new)
      BY <1>2, <2>4, <2>5, SchemasAssumption DEF AskOK
    <2>7. schema.content = defs[schema.def] \/ since[schema.def] < schemaCacheTTL + MaxStall
      BY <1>3, <1>6, <2>5, SchemasAssumption DEF LagsBy, EntryOK, SchemasInv, DefsOK
    <2>. QED  BY <1>5, <1>6, <2>1, <2>3, <2>4, <2>6, <2>7, AskStep
  <1>7. CASE asks' = [asks EXCEPT ![a] = [asked EXCEPT !.phase = "getting"]]
    <2>1. PICK new : new = [asked EXCEPT !.phase = "getting"]
      OBVIOUS
    <2>2. new = [Quiet EXCEPT !.session = session, !.kind = kind, !.phase = "getting"]
      BY <1>4, <2>1 DEF Quiet
    <2>3. AskShape(new) /\ new.session = session /\ new.kind = kind /\ new.phase = "getting" /\ new.age = 0
      BY <2>2 DEF Quiet, AskShape
    <2>4. AskOK(defs, since, new)
      BY <2>3, SchemasAssumption DEF AskOK
    <2>. QED  BY <1>5, <1>7, <2>1, <2>3, <2>4, AskStep
  <1>. QED  BY <1>1, <1>2, <1>4, <1>6, <1>7 DEF cacheUserKey
(* What the API server answers; a copy just taken does not lag.            *)
LEMMA MovesKeeps ==
  ASSUME SchemasInv, NEW a \in Askers, asks[a].phase \in {"getting", "listing"},
         NEW phase \in {"listing", "caching"}, NEW schema, Moves(a, phase, schema),
         phase = "caching" => /\ schema # NoSchema /\ CanRead(UserOf[asks[a].session], schema.def)
                              /\ schema.def \in Definitions /\ schema.content = defs[schema.def]
  PROVE  SchemasInv' /\ HandsOutFresh
  <1>1. PICK x : x = asks[a]
    OBVIOUS
  <1>2. AskOK(defs, since, x) /\ AskShape(x) /\ asks = [b \in Askers |-> asks[b]]
    BY <1>1 DEF SchemasInv, AsksOK, AskOK
  <1>3. PICK new : new = [x EXCEPT !.phase = phase, !.schema = schema]
    OBVIOUS
  <1>4. AskShape(new) /\ new.phase = phase /\ new.session = x.session /\ new.kind = x.kind
        /\ new.schema = schema /\ new.age = x.age
    BY <1>2, <1>3 DEF AskShape
  <1>5. asks' = [asks EXCEPT ![a] = new]
    BY <1>1, <1>2, <1>3 DEF Moves
  <1>6. AskOK(defs, since, new)
    BY <1>1, <1>2, <1>4 DEF AskOK, LagsBy
  <1>7. UNCHANGED <<defs, since>> /\ cache' = cache
    BY DEF Moves
  <1>. QED  BY <1>4, <1>5, <1>6, <1>7, AskStep DEF SchemasInv

LEMMA ReadIsSchema ==
  ASSUME NEW def \in Definitions, IsSchema(def), NEW schema, schema = Read(def)
  PROVE  schema # NoSchema /\ schema.def = def /\ schema.content = defs[def]
  BY DEF IsSchema, Read, NoSchema

LEMMA CacheSetKeeps ==
  ASSUME SchemasInv, NEW a \in Askers, CacheSet(a)
  PROVE  SchemasInv' /\ HandsOutFresh
  <1>1. PICK x : x = asks[a]
    OBVIOUS
  <1>2. AskOK(defs, since, x) /\ AskShape(x) /\ asks = [b \in Askers |-> asks[b]] /\ x.phase = "caching"
    BY <1>1 DEF SchemasInv, AsksOK, AskOK, CacheSet
  <1>3. PICK user, kind, schema : user = UserOf[x.session] /\ kind = x.kind /\ schema = x.schema
    OBVIOUS
  <1>4. /\ user \in Users /\ kind \in AskedKinds /\ schema # NoSchema /\ CanRead(user, schema.def)
        /\ LagsBy(defs, since, schema, x.age) /\ x.age \in Nat /\ x.age <= MaxStall
    BY <1>2, <1>3 DEF AskOK, Users
  <1>5. PICK entry : entry = [schema |-> schema, age |-> 0]
    OBVIOUS
  <1>6. cache' = [cache EXCEPT ![<<user, kind>>] = entry] /\ UNCHANGED <<defs, since>>
    BY <1>1, <1>3, <1>5 DEF CacheSet, cacheUserKey
  <1>7. schema.def \in Definitions
        /\ (schema.content = defs[schema.def]
              \/ (since[schema.def] \in Nat /\ since[schema.def] <= x.age))
    BY <1>4 DEF LagsBy, SchemasInv, DefsOK
  <1>8. LagsBy(defs, since, schema, 0 + MaxStall)
    BY <1>4, <1>7, SchemasAssumption DEF LagsBy
  <1>9. EntryOK(defs, since, user, entry)
    BY <1>4, <1>5, <1>8 DEF EntryOK
  <1>10. CacheOK(defs, since, cache')
    <2>1. <<user, kind>> \in Users \X AskedKinds
      BY <1>4
    <2>2. cache = [k \in Users \X AskedKinds |-> cache[k]]
          /\ \A u \in Users, k \in AskedKinds : EntryOK(defs, since, u, cache[<<u, k>>])
      BY DEF SchemasInv, CacheOK
    <2>3. cache' = [k \in Users \X AskedKinds |-> cache'[k]]
      BY <1>6, <2>2
    <2>4. ASSUME NEW u \in Users, NEW k \in AskedKinds PROVE EntryOK(defs, since, u, cache'[<<u, k>>])
      <3>1. CASE u = user /\ k = kind
        BY <1>6, <1>9, <2>1, <2>2, <3>1
      <3>2. CASE u # user \/ k # kind
        <4>1. <<u, k>> # <<user, kind>> /\ <<u, k>> \in Users \X AskedKinds
          BY <3>2
        <4>2. cache'[<<u, k>>] = cache[<<u, k>>]
          BY <1>6, <2>2, <4>1
        <4>. QED  BY <2>2, <4>2
      <3>. QED  BY <3>1, <3>2
    <2>. QED  BY <2>3, <2>4 DEF CacheOK
  <1>11. PICK new : new = [x EXCEPT !.phase = "rendering"]
    OBVIOUS
  <1>12. AskShape(new) /\ new.phase = "rendering" /\ new.session = x.session /\ new.kind = x.kind
         /\ new.schema = schema /\ new.age = x.age
    BY <1>2, <1>3, <1>11 DEF AskShape
  <1>13. asks' = [asks EXCEPT ![a] = new]
    BY <1>1, <1>2, <1>11 DEF CacheSet
  <1>14. AskOK(defs, since, new)
    BY <1>2, <1>3, <1>4, <1>12 DEF AskOK
  <1>15. schema.content = defs[schema.def] \/ since[schema.def] < schemaCacheTTL + MaxStall
    BY <1>4, <1>7, SchemasAssumption
  <1>. QED  BY <1>6, <1>10, <1>12, <1>13, <1>14, <1>15, AskStep

LEMMA RepliedKeeps ==
  ASSUME SchemasInv, NEW a \in Askers, Replied(a), UNCHANGED <<defs, since, cache>>
  PROVE  SchemasInv' /\ HandsOutFresh
  <1>1. Quiet.phase = "idle"
    BY DEF Quiet
  <1>. QED  BY <1>1, QuietOK, AskStep DEF Replied, SchemasInv

(* A definition that changes now is one that changed no time ago.          *)
LEMMA DefinitionKeeps == SchemasInv /\ DefinitionChanges => SchemasInv' /\ HandsOutFresh
  <1>. SUFFICES ASSUME SchemasInv, DefinitionChanges PROVE SchemasInv' /\ HandsOutFresh
    OBVIOUS
  <1>1. PICK d \in Definitions, content \in Contents \cup {NoContent} :
          defs' = [defs EXCEPT ![d] = content] /\ since' = [since EXCEPT ![d] = 0]
    BY DEF DefinitionChanges
  <1>2. cache' = cache /\ asks' = asks
    BY DEF DefinitionChanges
  <1>3. defs = [c \in Definitions |-> defs[c]] /\ since = [c \in Definitions |-> since[c]]
        /\ \A c \in Definitions : since[c] \in Nat /\ since[c] <= Longest
    BY DEF SchemasInv, DefsOK
  <1>4. defs' = [c \in Definitions |-> defs'[c]] /\ since' = [c \in Definitions |-> since'[c]]
        /\ since'[d] = 0 /\ \A c \in Definitions \ {d} : since'[c] = since[c] /\ defs'[c] = defs[c]
    BY <1>1, <1>3
  <1>5. 0 \in Nat /\ 0 <= Longest
    BY SchemasAssumption DEF Longest
  <1>6. DefsOK(defs', since')
    BY <1>3, <1>4, <1>5 DEF DefsOK
  <1>7. ASSUME NEW got, NEW age \in Nat, LagsBy(defs, since, got, age) PROVE LagsBy(defs', since', got, age)
    BY <1>7, <1>4 DEF LagsBy
  <1>8. \A e : e.age \in Nat => e.age + MaxStall \in Nat
    BY SchemasAssumption
  <1>9. CacheOK(defs', since', cache)
    BY <1>7, <1>8 DEF SchemasInv, CacheOK, EntryOK
  <1>10. AsksOK(defs', since', asks)
    BY <1>7 DEF SchemasInv, AsksOK, AskOK
  <1>. QED  BY <1>2, <1>6, <1>9, <1>10 DEF SchemasInv, HandsOutFresh
(* As time passes, a copy and the definition it is of age together.        *)
LEMMA TimeKeeps == SchemasInv /\ TimePasses => SchemasInv' /\ HandsOutFresh
  <1>. SUFFICES ASSUME SchemasInv, TimePasses PROVE SchemasInv' /\ HandsOutFresh
    OBVIOUS
  <1>1. schemaCacheTTL \in Nat /\ schemaCacheTTL > 0 /\ MaxStall \in Nat /\ Longest \in Nat
        /\ Longest = schemaCacheTTL + MaxStall
    BY SchemasAssumption DEF Longest
  <1>2. defs' = defs /\ since' = [d \in Definitions |-> Older(since[d], Longest)]
        /\ defs = [d \in Definitions |-> defs[d]] /\ \A d \in Definitions : since[d] \in Nat
    BY DEF TimePasses, SchemasInv, DefsOK
  <1>3. \A d \in Definitions : /\ since'[d] \in Nat /\ since'[d] <= Longest /\ since'[d] <= since[d] + 1
    BY <1>1, <1>2, OlderByOne
  <1>4. DefsOK(defs', since')
    BY <1>2, <1>3 DEF DefsOK
  <1>5. ASSUME NEW got, NEW age \in Nat, LagsBy(defs, since, got, age) PROVE LagsBy(defs', since', got, age + 1)
    <2>1. got.def \in Definitions /\ (got.content = defs[got.def] \/ since[got.def] <= age)
      BY <1>5 DEF LagsBy
    <2>2. since[got.def] <= age => since'[got.def] <= age + 1
      BY <1>2, <1>3, <2>1
    <2>. QED  BY <1>2, <2>1, <2>2 DEF LagsBy
  <1>6. CacheOK(defs', since', cache')
    <2>1. cache = [k \in Users \X AskedKinds |-> cache[k]]
      BY DEF SchemasInv, CacheOK
    <2>2. cache' = [k \in DOMAIN cache |->
                      IF cache[k].schema = NoSchema THEN NoEntry
                      ELSE [cache[k] EXCEPT !.age = Older(cache[k].age, schemaCacheTTL)]]
      BY DEF TimePasses
    <2>3. cache' = [k \in Users \X AskedKinds |-> cache'[k]]
      BY <2>1, <2>2
    <2>4. ASSUME NEW user \in Users, NEW kind \in AskedKinds
          PROVE  EntryOK(defs', since', user, cache'[<<user, kind>>])
      <3>1. PICK e : e = cache[<<user, kind>>]
        OBVIOUS
      <3>2. EntryOK(defs, since, user, e) /\ <<user, kind>> \in Users \X AskedKinds
        BY <3>1 DEF SchemasInv, CacheOK
      <3>3. cache'[<<user, kind>>] = IF e.schema = NoSchema THEN NoEntry
                                     ELSE [e EXCEPT !.age = Older(e.age, schemaCacheTTL)]
        BY <2>1, <2>2, <3>1, <3>2
      <3>4. NoEntry.schema = NoSchema /\ NoEntry.age = 0
            /\ NoEntry = [schema |-> NoEntry.schema, age |-> NoEntry.age]
        BY DEF NoEntry
      <3>5. CASE e.schema = NoSchema
        BY <3>3, <3>4, <3>5 DEF EntryOK
      <3>6. CASE e.schema # NoSchema
        <4>1. e # NoEntry /\ e.age \in Nat /\ e = [schema |-> e.schema, age |-> e.age]
              /\ CanRead(user, e.schema.def) /\ LagsBy(defs, since, e.schema, e.age + MaxStall)
          BY <3>2, <3>4, <3>6 DEF EntryOK
        <4>2. PICK age : age = Older(e.age, schemaCacheTTL)
          OBVIOUS
        <4>3. age = IF e.age + 1 <= schemaCacheTTL THEN e.age + 1 ELSE schemaCacheTTL
          BY <1>1, <4>1, <4>2, OlderByOne
        <4>4. PICK new : new = [e EXCEPT !.age = age]
          OBVIOUS
        <4>5. new.schema = e.schema /\ new.age = age /\ new = [schema |-> new.schema, age |-> new.age]
          BY <4>1, <4>4
        <4>6. LagsBy(defs', since', e.schema, (e.age + MaxStall) + 1)
          BY <1>1, <1>5, <4>1
        <4>7. LagsBy(defs', since', e.schema, age + MaxStall)
          <5>1. PICK def : def = e.schema.def
            OBVIOUS
          <5>2. def \in Definitions /\ (e.schema.content = defs'[def] \/ since'[def] <= (e.age + MaxStall) + 1)
            BY <4>6, <5>1 DEF LagsBy
          <5>3. since'[def] \in Nat /\ since'[def] <= schemaCacheTTL + MaxStall
            BY <1>1, <1>3, <5>2
          <5>4. since'[def] <= (e.age + MaxStall) + 1 => since'[def] <= age + MaxStall
            BY <1>1, <4>1, <4>3, <5>3
          <5>. QED  BY <5>1, <5>2, <5>4 DEF LagsBy
        <4>8. age \in Nat
          BY <1>1, <4>1, <4>3
        <4>9. EntryOK(defs', since', user, new)
          BY <3>6, <4>1, <4>5, <4>7, <4>8 DEF EntryOK
        <4>. QED  BY <3>3, <3>6, <4>2, <4>4, <4>9
      <3>. QED  BY <3>5, <3>6
    <2>. QED  BY <2>3, <2>4 DEF CacheOK
  <1>7. asks' = [a \in Askers |-> IF asks[a].phase = "idle" THEN Quiet
                                  ELSE [asks[a] EXCEPT !.age = asks[a].age + 1]]
        /\ \A a \in Askers : asks[a].phase # "idle" => asks[a].age < MaxStall
    BY DEF TimePasses
  <1>8. ASSUME NEW a \in Askers
        PROVE  AskOK(defs', since', asks'[a]) /\ (asks'[a].phase = "rendering" => asks[a].phase = "rendering")
    <2>1. PICK x : x = asks[a]
      OBVIOUS
    <2>2. AskOK(defs, since, x) /\ AskShape(x) /\ x.age \in Nat
      BY <2>1 DEF SchemasInv, AsksOK, AskOK
    <2>3. CASE x.phase = "idle"
      <3>1. asks'[a] = Quiet /\ Quiet.phase = "idle"
        BY <1>7, <2>1, <2>3 DEF Quiet
      <3>. QED  BY <3>1, QuietOK
    <2>4. CASE x.phase # "idle"
      <3>1. PICK new : new = [x EXCEPT !.age = x.age + 1]
        OBVIOUS
      <3>2. asks'[a] = new /\ x.age < MaxStall
        BY <1>7, <2>1, <2>4, <3>1
      <3>3. PICK age : age = x.age + 1
        OBVIOUS
      <3>4. AskShape(new) /\ new.phase = x.phase /\ new.session = x.session /\ new.kind = x.kind
            /\ new.schema = x.schema /\ new.age = age
        BY <2>2, <3>1, <3>3 DEF AskShape
      <3>5. age \in Nat /\ age <= MaxStall
        BY <1>1, <2>2, <3>2, <3>3
      <3>6. x.phase = "caching" => LagsBy(defs', since', x.schema, age)
        BY <1>5, <2>2, <3>3 DEF AskOK
      <3>7. AskOK(defs', since', new)
        BY <2>2, <3>4, <3>5, <3>6 DEF AskOK
      <3>. QED  BY <2>1, <3>2, <3>4, <3>7
    <2>. QED  BY <2>3, <2>4
  <1>9. AsksOK(defs', since', asks')
    BY <1>7, <1>8 DEF AsksOK
  <1>. QED  BY <1>4, <1>6, <1>8, <1>9 DEF SchemasInv, HandsOutFresh
LEMMA SchemasStep == SchemasInv /\ [SchemasNext]_schemaVars => SchemasInv' /\ HandsOutFresh
  <1>. SUFFICES ASSUME SchemasInv, [SchemasNext]_schemaVars PROVE SchemasInv' /\ HandsOutFresh
    OBVIOUS
  <1>1. ASSUME NEW a \in Askers, GetByName(a) PROVE SchemasInv' /\ HandsOutFresh
    <2>1. PICK def, schema : def = toLowerKind[asks[a].kind] /\ schema = Read(def)
      OBVIOUS
    <2>2. /\ asks[a].phase = "getting" /\ def \in Definitions /\ <<asks[a].session, def>> \in MayGet
          /\ IsSchema(def) /\ Moves(a, "caching", schema)
      BY <1>1, <2>1 DEF GetByName
    <2>3. asks[a].session \in Sessions
      BY <2>2 DEF SchemasInv, AsksOK, AskOK
    <2>4. schema # NoSchema /\ schema.def = def /\ schema.content = defs[def]
      BY <2>1, <2>2, ReadIsSchema
    <2>5. CanRead(UserOf[asks[a].session], schema.def)
      BY <2>2, <2>3, <2>4 DEF CanRead
    <2>. QED  BY <2>2, <2>4, <2>5, MovesKeeps
  <1>2. ASSUME NEW a \in Askers, GetFails(a) PROVE SchemasInv' /\ HandsOutFresh
    BY <1>2, MovesKeeps DEF GetFails
  <1>3. ASSUME NEW a \in Askers, FindByKind(a) PROVE SchemasInv' /\ HandsOutFresh
    <2>1. PICK i \in DOMAIN DefOrder : IsSchema(DefOrder[i]) /\ Moves(a, "caching", Read(DefOrder[i]))
      BY <1>3 DEF FindByKind
    <2>2. PICK def, schema : def = DefOrder[i] /\ schema = Read(def)
      OBVIOUS
    <2>3. def \in Definitions
      BY <2>2 DEF Definitions, Range
    <2>4. asks[a].phase = "listing" /\ asks[a].session \in MayList
      BY <1>3 DEF FindByKind
    <2>5. asks[a].session \in Sessions
      BY <2>4 DEF SchemasInv, AsksOK, AskOK
    <2>6. schema # NoSchema /\ schema.def = def /\ schema.content = defs[def]
      BY <2>1, <2>2, <2>3, ReadIsSchema
    <2>7. CanRead(UserOf[asks[a].session], schema.def)
      BY <2>4, <2>5 DEF CanRead
    <2>. QED  BY <2>1, <2>2, <2>3, <2>4, <2>6, <2>7, MovesKeeps
  <1>4. ASSUME NEW a \in Askers, SchemaNotFound(a) \/ RenderForm(a) \/ RenderYAML(a)
        PROVE  SchemasInv' /\ HandsOutFresh
    BY <1>4, RepliedKeeps DEF SchemaNotFound, RenderForm, RenderYAML
  <1>5. ASSUME UNCHANGED schemaVars PROVE SchemasInv' /\ HandsOutFresh
    BY <1>5 DEF schemaVars, SchemasInv, HandsOutFresh
  <1>. QED  BY <1>1, <1>2, <1>3, <1>4, <1>5, AskKeeps, CacheSetKeeps, DefinitionKeeps, TimeKeeps DEF SchemasNext

LEMMA SchemasInvInit == SchemasInit => SchemasInv
  <1>. SUFFICES ASSUME SchemasInit PROVE SchemasInv
    OBVIOUS
  <1>1. Longest \in Nat /\ NoEntry.schema = NoSchema /\ NoEntry.age = 0
        /\ NoEntry = [schema |-> NoEntry.schema, age |-> NoEntry.age]
    BY SchemasAssumption DEF Longest, NoEntry
  <1>2. DefsOK(defs, since)
    BY <1>1 DEF SchemasInit, DefsOK
  <1>3. \A ds, sn, user : EntryOK(ds, sn, user, NoEntry)
    BY <1>1 DEF EntryOK
  <1>4. CacheOK(defs, since, cache)
    <2>1. cache = [k \in Users \X AskedKinds |-> NoEntry]
      BY DEF SchemasInit
    <2>2. \A user \in Users, kind \in AskedKinds : cache[<<user, kind>>] = NoEntry
      BY <2>1
    <2>. QED  BY <1>3, <2>1, <2>2 DEF CacheOK
  <1>5. AsksOK(defs, since, asks)
    BY QuietOK DEF SchemasInit, AsksOK
  <1>. QED  BY <1>2, <1>4, <1>5 DEF SchemasInv

(* The inductive invariant of the schema cache and the requests between    *)
(* its two locks.                                                          *)
THEOREM SchemasInvariant == SchemasSpec => []SchemasInv
  <1>. QED  BY SchemasInvInit, SchemasStep, PTL DEF SchemasSpec

(* A schema that is shown is one some session of that user name may read   *)
(* (cacheUserKey): the cache never hands it across user names.             *)
THEOREM SchemasStayOwn == SchemasSpec => []OnlyOwnSchemas
  <1>1. ASSUME SchemasInv, NEW a \in Askers, asks[a].phase = "rendering"
        PROVE  \E s \in Sessions : /\ UserOf[s] = UserOf[asks[a].session]
                                   /\ <<s, asks[a].schema.def>> \in MayGet \/ s \in MayList
    BY <1>1 DEF SchemasInv, AsksOK, AskOK, CanRead
  <1>2. SchemasInv => OnlyOwnSchemas
    BY <1>1 DEF OnlyOwnSchemas
  <1>. QED  BY <1>2, SchemasInvariant, PTL

(* However fetches of one schema overlap, and though the older answer may  *)
(* be cached last (cacheSet), a schema in hand lags behind the cluster by  *)
(* less than a time to live and a stall.                                   *)
THEOREM SchemasStayFresh == SchemasSpec => SchemaIsFresh
  <1>1. HandsOutFresh => \A a \in Askers : asks[a].phase # "rendering" /\ asks'[a].phase = "rendering" =>
          LET got == asks'[a].schema IN
          got.content = defs[got.def] \/ since[got.def] < schemaCacheTTL + MaxStall
    BY DEF HandsOutFresh
  <1>. QED  BY <1>1, SchemasStep, SchemasInvariant, PTL DEF SchemasSpec, SchemaIsFresh

(* What each variable holds, field by field.                               *)
AskTyped(x) ==
  /\ x.phase \in {"idle", "getting", "listing", "caching", "rendering"}
  /\ x.session \in Sessions \cup {""} /\ x.kind \in AskedKinds \cup {""}
  /\ x.schema \in SchemaValues

EntryTyped(e) == e.schema \in SchemaValues /\ e.age <= schemaCacheTTL

SchemasTyped ==
  /\ \A d \in Definitions : defs[d] \in Contents \cup {NoContent}
  /\ \A k \in Users \X AskedKinds : EntryTyped(cache[k])
  /\ \A a \in Askers : AskTyped(asks[a])

LEMMA NoValues == NoSchema \in SchemaValues /\ EntryTyped(NoEntry) /\ AskTyped(Quiet)
  <1>1. NoSchema \in SchemaValues
    BY DEF NoSchema, SchemaValues
  <1>2. NoEntry.schema = NoSchema /\ NoEntry.age = 0
    BY DEF NoEntry
  <1>3. Quiet.phase = "idle" /\ Quiet.session = "" /\ Quiet.kind = "" /\ Quiet.schema = NoSchema
    BY DEF Quiet
  <1>4. 0 <= schemaCacheTTL
    BY SchemasAssumption
  <1>5. EntryTyped(NoEntry)
    BY <1>1, <1>2, <1>4 DEF EntryTyped
  <1>6. AskTyped(Quiet)
    BY <1>1, <1>3 DEF AskTyped
  <1>. QED  BY <1>1, <1>5, <1>6

LEMMA ReadValue ==
  ASSUME SchemasTyped, NEW def \in Definitions
  PROVE  Read(def) \in SchemaValues
  BY DEF SchemasTyped, Read, SchemaValues

LEMMA AskTypesStep ==
  ASSUME SchemasInv, SchemasTyped, NEW a \in Askers, NEW new, asks' = [asks EXCEPT ![a] = new],
         UNCHANGED <<defs, cache>>, AskTyped(new)
  PROVE  SchemasTyped'
  <1>1. asks = [b \in Askers |-> asks[b]] /\ defs' = defs /\ cache' = cache
    BY DEF SchemasInv, AsksOK
  <1>2. \A b \in Askers : asks'[b] = new \/ asks'[b] = asks[b]
    BY <1>1
  <1>3. \A b \in Askers : AskTyped(asks'[b])
    BY <1>2 DEF SchemasTyped
  <1>. QED  BY <1>1, <1>3 DEF SchemasTyped

LEMMA MovesTyped ==
  ASSUME SchemasInv, SchemasTyped, NEW a \in Askers, NEW phase \in {"listing", "caching"},
         NEW schema \in SchemaValues, Moves(a, phase, schema)
  PROVE  SchemasTyped'
  <1>1. PICK x : x = asks[a]
    OBVIOUS
  <1>2. AskShape(x) /\ AskTyped(x) /\ asks = [b \in Askers |-> asks[b]]
    BY <1>1 DEF SchemasInv, SchemasTyped, AsksOK, AskOK
  <1>3. PICK new : new = [x EXCEPT !.phase = phase, !.schema = schema]
    OBVIOUS
  <1>4. new.phase = phase /\ new.session = x.session /\ new.kind = x.kind /\ new.schema = schema
    BY <1>2, <1>3 DEF AskShape
  <1>5. asks' = [asks EXCEPT ![a] = new]
    BY <1>1, <1>2, <1>3 DEF Moves
  <1>6. AskTyped(new)
    BY <1>2, <1>4 DEF AskTyped
  <1>. QED  BY <1>5, <1>6, AskTypesStep DEF Moves

LEMMA AskTypes ==
  ASSUME SchemasInv, SchemasTyped, NEW a \in Askers, Ask(a)
  PROVE  SchemasTyped'
  <1>1. PICK session \in Sessions, kind \in AskedKinds, schema \in SchemaValues, phase \in {"rendering", "getting"} :
          asks' = [asks EXCEPT ![a] = [phase |-> phase, session |-> session, kind |-> kind, schema |-> schema, age |-> 0]]
    <2>1. PICK session \in Sessions, kind \in AskedKinds :
           LET key == <<cacheUserKey(session), kind>>
               asked == [Quiet EXCEPT !.session = session, !.kind = kind]
               entry == cache[key]
           IN  \/ asks' = [asks EXCEPT ![a] = [asked EXCEPT !.phase = "rendering", !.schema = entry.schema]]
               \/ asks' = [asks EXCEPT ![a] = [asked EXCEPT !.phase = "getting"]]
      BY DEF Ask
    <2>2. PICK asked, schema : /\ asked = [Quiet EXCEPT !.session = session, !.kind = kind]
                               /\ schema = cache[<<cacheUserKey(session), kind>>].schema
      OBVIOUS
    <2>3. asked = [phase |-> "idle", session |-> session, kind |-> kind, schema |-> NoSchema, age |-> 0]
      BY <2>2 DEF Quiet
    <2>4. CASE asks' = [asks EXCEPT ![a] = [asked EXCEPT !.phase = "rendering", !.schema = schema]]
      <3>1. schema \in SchemaValues
        <4>1. <<cacheUserKey(session), kind>> \in Users \X AskedKinds
          BY DEF cacheUserKey, Users
        <4>. QED  BY <2>2, <4>1 DEF SchemasTyped, EntryTyped
      <3>2. PICK new : new = [asked EXCEPT !.phase = "rendering", !.schema = schema]
        OBVIOUS
      <3>3. new.phase = "rendering" /\ new.session = session /\ new.kind = kind /\ new.schema = schema /\ new.age = 0
        BY <2>3, <3>2
      <3>4. new = [phase |-> new.phase, session |-> new.session, kind |-> new.kind, schema |-> new.schema, age |-> new.age]
        BY <2>3, <3>2
      <3>5. new = [phase |-> "rendering", session |-> session, kind |-> kind, schema |-> schema, age |-> 0]
        BY <3>3, <3>4
      <3>. QED  BY <2>4, <3>1, <3>2, <3>5
    <2>5. CASE asks' = [asks EXCEPT ![a] = [asked EXCEPT !.phase = "getting"]]
      <3>1. [asked EXCEPT !.phase = "getting"]
              = [phase |-> "getting", session |-> session, kind |-> kind, schema |-> NoSchema, age |-> 0]
        BY <2>3
      <3>. QED  BY <2>5, <3>1, NoValues
    <2>. QED  BY <2>1, <2>2, <2>4, <2>5
  <1>2. PICK new : new = [phase |-> phase, session |-> session, kind |-> kind, schema |-> schema, age |-> 0]
    OBVIOUS
  <1>3. new.phase = phase /\ new.session = session /\ new.kind = kind /\ new.schema = schema
    BY <1>2
  <1>4. AskTyped(new)
    BY <1>3 DEF AskTyped
  <1>5. defs' = defs /\ cache' = cache
    BY DEF Ask, CacheHit
  <1>. QED  BY <1>1, <1>2, <1>4, <1>5, AskTypesStep

LEMMA CacheSetTyped ==
  ASSUME SchemasInv, SchemasTyped, NEW a \in Askers, CacheSet(a)
  PROVE  SchemasTyped'
  <1>1. PICK x, key : x = asks[a] /\ key = <<cacheUserKey(x.session), x.kind>>
    OBVIOUS
  <1>2. AskShape(x) /\ AskTyped(x) /\ asks = [b \in Askers |-> asks[b]]
        /\ cache = [k \in Users \X AskedKinds |-> cache[k]]
    BY <1>1 DEF SchemasInv, SchemasTyped, AsksOK, AskOK, CacheOK
  <1>3. PICK entry, schema : entry = [schema |-> schema, age |-> 0] /\ schema = x.schema
    OBVIOUS
  <1>4. EntryTyped(entry)
    <2>1. entry.schema = schema /\ entry.age = 0 /\ 0 <= schemaCacheTTL
      BY <1>3, SchemasAssumption
    <2>. QED  BY <1>2, <1>3, <2>1 DEF EntryTyped, AskTyped
  <1>5. cache' = [cache EXCEPT ![key] = entry] /\ defs' = defs
    BY <1>1, <1>3 DEF CacheSet
  <1>6. \A k \in Users \X AskedKinds : cache'[k] = entry \/ cache'[k] = cache[k]
    BY <1>2, <1>5
  <1>7. PICK new : new = [x EXCEPT !.phase = "rendering"]
    OBVIOUS
  <1>8. new.phase = "rendering" /\ new.session = x.session /\ new.kind = x.kind /\ new.schema = x.schema
    BY <1>2, <1>7 DEF AskShape
  <1>9. AskTyped(new)
    BY <1>2, <1>8 DEF AskTyped
  <1>10. \A b \in Askers : asks'[b] = new \/ asks'[b] = asks[b]
    BY <1>1, <1>2, <1>7 DEF CacheSet
  <1>11. \A b \in Askers : AskTyped(asks'[b])
    BY <1>9, <1>10 DEF SchemasTyped
  <1>12. \A k \in Users \X AskedKinds : EntryTyped(cache'[k])
    BY <1>4, <1>6 DEF SchemasTyped
  <1>. QED  BY <1>5, <1>11, <1>12 DEF SchemasTyped

LEMMA RepliedTyped ==
  ASSUME SchemasInv, SchemasTyped, NEW a \in Askers, Replied(a), UNCHANGED <<defs, cache>>
  PROVE  SchemasTyped'
  BY NoValues, AskTypesStep DEF Replied

LEMMA TimeTyped ==
  ASSUME SchemasInv, SchemasTyped, TimePasses
  PROVE  SchemasTyped'
  <1>1. cache = [k \in Users \X AskedKinds |-> cache[k]] /\ schemaCacheTTL \in Nat /\ defs' = defs
    BY SchemasAssumption DEF SchemasInv, CacheOK, TimePasses
  <1>2. ASSUME NEW k \in Users \X AskedKinds PROVE EntryTyped(cache'[k])
    <2>1. PICK e, age : e = cache[k] /\ age = Older(e.age, schemaCacheTTL)
      OBVIOUS
    <2>2. e.age \in Nat /\ e = [schema |-> e.schema, age |-> e.age] /\ e.schema \in SchemaValues
      <3>1. PICK user \in Users, kind \in AskedKinds : k = <<user, kind>>
        OBVIOUS
      <3>. QED  BY <2>1, <3>1 DEF SchemasInv, CacheOK, EntryOK, SchemasTyped, EntryTyped
    <2>3. age <= schemaCacheTTL
      BY <1>1, <2>1, <2>2, OlderByOne
    <2>4. PICK new : new = [e EXCEPT !.age = age]
      OBVIOUS
    <2>5. new.schema = e.schema /\ new.age = age
      BY <2>2, <2>4
    <2>6. cache'[k] = NoEntry \/ cache'[k] = new
      BY <1>1, <2>1, <2>4 DEF TimePasses
    <2>7. EntryTyped(new)
      BY <2>2, <2>3, <2>5 DEF EntryTyped
    <2>. QED  BY <2>6, <2>7, NoValues
  <1>3. ASSUME NEW a \in Askers PROVE AskTyped(asks'[a])
    <2>1. PICK x : x = asks[a]
      OBVIOUS
    <2>2. AskShape(x) /\ AskTyped(x)
      BY <2>1 DEF SchemasInv, SchemasTyped, AsksOK, AskOK
    <2>3. PICK new : new = [x EXCEPT !.age = x.age + 1]
      OBVIOUS
    <2>4. new.phase = x.phase /\ new.session = x.session /\ new.kind = x.kind /\ new.schema = x.schema
      BY <2>2, <2>3 DEF AskShape
    <2>5. asks'[a] = Quiet \/ asks'[a] = new
      BY <2>1, <2>3 DEF TimePasses
    <2>6. AskTyped(new)
      BY <2>2, <2>4 DEF AskTyped
    <2>. QED  BY <2>5, <2>6, NoValues
  <1>. QED  BY <1>1, <1>2, <1>3 DEF SchemasTyped

LEMMA SchemasTypesStep == SchemasInv /\ SchemasTyped /\ [SchemasNext]_schemaVars => SchemasTyped'
  <1>. SUFFICES ASSUME SchemasInv, SchemasTyped, [SchemasNext]_schemaVars PROVE SchemasTyped'
    OBVIOUS
  <1>1. ASSUME NEW a \in Askers, GetByName(a) PROVE SchemasTyped'
    <2>1. PICK def \in Definitions : Moves(a, "caching", Read(def))
      BY <1>1 DEF GetByName
    <2>. QED  BY <2>1, ReadValue, MovesTyped
  <1>2. ASSUME NEW a \in Askers, GetFails(a) PROVE SchemasTyped'
    BY <1>2, NoValues, MovesTyped DEF GetFails
  <1>3. ASSUME NEW a \in Askers, FindByKind(a) PROVE SchemasTyped'
    <2>1. PICK i \in DOMAIN DefOrder : Moves(a, "caching", Read(DefOrder[i]))
      BY <1>3 DEF FindByKind
    <2>2. DefOrder[i] \in Definitions
      BY DEF Definitions, Range
    <2>. QED  BY <2>1, <2>2, ReadValue, MovesTyped
  <1>4. ASSUME NEW a \in Askers, SchemaNotFound(a) \/ RenderForm(a) \/ RenderYAML(a) PROVE SchemasTyped'
    BY <1>4, RepliedTyped DEF SchemaNotFound, RenderForm, RenderYAML
  <1>5. ASSUME DefinitionChanges PROVE SchemasTyped'
    <2>1. PICK d \in Definitions, content \in Contents \cup {NoContent} : defs' = [defs EXCEPT ![d] = content]
      BY <1>5 DEF DefinitionChanges
    <2>2. defs = [c \in Definitions |-> defs[c]]
      BY DEF SchemasInv, DefsOK
    <2>3. \A c \in Definitions : defs'[c] = content \/ defs'[c] = defs[c]
      BY <2>1, <2>2
    <2>. QED  BY <1>5, <2>3 DEF DefinitionChanges, SchemasTyped
  <1>6. ASSUME UNCHANGED schemaVars PROVE SchemasTyped'
    BY <1>6 DEF schemaVars, SchemasTyped
  <1>. QED  BY <1>1, <1>2, <1>3, <1>4, <1>5, <1>6, AskTypes, CacheSetTyped, TimeTyped DEF SchemasNext

LEMMA SchemasTypesInit == SchemasInit => SchemasTyped
  BY NoValues DEF SchemasInit, SchemasTyped

(* Every variable of the schema cache has its type, and no entry and no    *)
(* request is older than it may get.                                       *)
THEOREM SchemasAreTyped == SchemasSpec => []SchemasTypeOK
  <1>1. SchemasSpec => [](SchemasInv /\ SchemasTyped)
    BY SchemasInvInit, SchemasTypesInit, SchemasStep, SchemasTypesStep, PTL DEF SchemasSpec
  <1>2. SchemasInv /\ SchemasTyped => SchemasTypeOK
    <2>. SUFFICES ASSUME SchemasInv, SchemasTyped PROVE SchemasTypeOK
      OBVIOUS
    <2>1. schemaCacheTTL \in Nat /\ MaxStall \in Nat /\ Longest \in Nat
      BY SchemasAssumption DEF Longest
    <2>2. defs \in [Definitions -> Contents \cup {NoContent}] /\ since \in [Definitions -> 0 .. Longest]
      BY <2>1 DEF SchemasInv, DefsOK, SchemasTyped
    <2>3. ASSUME NEW k \in Users \X AskedKinds
          PROVE  cache[k] \in [schema : SchemaValues, age : 0 .. schemaCacheTTL]
      <3>1. PICK user \in Users, kind \in AskedKinds : k = <<user, kind>>
        OBVIOUS
      <3>2. PICK e : e = cache[k]
        OBVIOUS
      <3>3. e = [schema |-> e.schema, age |-> e.age] /\ e.age \in Nat /\ EntryTyped(e)
        BY <3>1, <3>2 DEF SchemasInv, CacheOK, EntryOK, SchemasTyped
      <3>4. e.schema \in SchemaValues /\ e.age \in 0 .. schemaCacheTTL
        BY <2>1, <3>3 DEF EntryTyped
      <3>. QED  BY <3>2, <3>3, <3>4
    <2>4. ASSUME NEW a \in Askers
          PROVE  asks[a] \in [phase : {"idle", "getting", "listing", "caching", "rendering"},
                              session : Sessions \cup {""}, kind : AskedKinds \cup {""},
                              schema : SchemaValues, age : 0 .. MaxStall]
      <3>1. PICK x : x = asks[a]
        OBVIOUS
      <3>2. AskShape(x) /\ AskTyped(x) /\ x.age \in 0 .. MaxStall
        BY <2>1, <3>1 DEF SchemasInv, SchemasTyped, AsksOK, AskOK
      <3>. QED  BY <3>1, <3>2 DEF AskShape, AskTyped
    <2>5. cache = [k \in Users \X AskedKinds |-> cache[k]] /\ asks = [a \in Askers |-> asks[a]]
      BY DEF SchemasInv, CacheOK, AsksOK
    <2>. QED  BY <2>2, <2>3, <2>4, <2>5 DEF SchemasTypeOK
  <1>. QED  BY <1>1, <1>2, PTL

-----------------------------------------------------------------------------
(* The definitions of a kind that an overlay has, and where.               *)
OverlayDefs == [kind : STRING, fields : Seq(Entries)]

HasKind(kind) == kind # ""

Pathed(def) == {i \in DOMAIN def.fields : def.fields[i].path # <<>>}

DefinitionsFor(overlay, kind) ==
  LET parsed == formDefinitionsFromList(overlay)
  IN  Picked(parsed, {i \in DOMAIN parsed : parsed[i].kind = kind})

DefinitionsAt(overlay, kind) ==
  LET parsed == formDefinitionsFromList(overlay)
      sound == Ascending({i \in DOMAIN overlay : HasKind(overlay[i].kind)})
      mine == Ascending({i \in DOMAIN parsed : parsed[i].kind = kind})
  IN  [n \in DOMAIN DefinitionsFor(overlay, kind) |-> sound[mine[n]]]

LEMMA ParsedDef ==
  ASSUME NEW def \in OverlayDefs
  PROVE  /\ Parsed(def) \in OverlayDefs /\ Parsed(def).kind = def.kind
         /\ Parsed(def).fields = Picked(def.fields, Pathed(def))
         /\ Parsed(def).fields \in Seq(Entries)
  <1>1. def.fields \in Seq(Entries) /\ def.kind \in STRING /\ def = [kind |-> def.kind, fields |-> def.fields]
    BY DEF OverlayDefs
  <1>2. PICK list : list = Picked(def.fields, Pathed(def))
    OBVIOUS
  <1>3. Pathed(def) \in SUBSET DOMAIN def.fields
    BY DEF Pathed
  <1>4. list \in Seq(Entries)
    BY <1>1, <1>2, <1>3, PickedFrom
  <1>5. Parsed(def) = [def EXCEPT !.fields = list]
    BY <1>2 DEF Parsed, Pathed
  <1>. QED  BY <1>1, <1>2, <1>4, <1>5 DEF OverlayDefs

LEMMA DefinitionsOfKind ==
  ASSUME NEW overlay \in Seq(OverlayDefs), NEW kind, HasKind(kind),
         NEW ofKind, ofKind = DefinitionsFor(overlay, kind),
         NEW at, at = DefinitionsAt(overlay, kind)
  PROVE  /\ ofKind \in Seq(OverlayDefs) /\ at \in [DOMAIN ofKind -> DOMAIN overlay]
         /\ \A n \in DOMAIN ofKind :
              overlay[at[n]].kind = kind /\ ofKind[n] = Parsed(overlay[at[n]])
         /\ \A i \in DOMAIN overlay : overlay[i].kind = kind => \E n \in DOMAIN ofKind : at[n] = i
         /\ \A m, n \in DOMAIN ofKind : m < n <=> at[m] < at[n]
  <1>1. PICK S : S = {i \in DOMAIN overlay : HasKind(overlay[i].kind)}
    OBVIOUS
  <1>2. PICK sound : sound = Picked(overlay, S)
    OBVIOUS
  <1>3. PICK up : up = Ascending(S)
    OBVIOUS
  <1>4. /\ S \in SUBSET DOMAIN overlay
        /\ \A i \in DOMAIN overlay : overlay[i] \in OverlayDefs
        /\ DOMAIN overlay \in SUBSET Int
    BY <1>1
  <1>5. /\ sound \in Seq(OverlayDefs) /\ up \in [DOMAIN sound -> S]
        /\ \A x \in S : \E n \in DOMAIN sound : up[n] = x
        /\ \A m, n \in DOMAIN sound : m < n <=> up[m] < up[n]
        /\ \A n \in DOMAIN sound : sound[n] = overlay[up[n]]
    BY <1>2, <1>3, <1>4, PickedFrom
  <1>6. PICK parsed : parsed = formDefinitionsFromList(overlay)
    OBVIOUS
  <1>7. parsed = [i \in DOMAIN sound |-> Parsed(sound[i])]
    BY <1>1, <1>2, <1>6 DEF formDefinitionsFromList, HasKind
  <1>8. /\ DOMAIN parsed = DOMAIN sound
        /\ \A i \in DOMAIN sound : /\ parsed[i] = Parsed(overlay[up[i]])
                                   /\ parsed[i] \in OverlayDefs
                                   /\ parsed[i].kind = overlay[up[i]].kind
    <2>1. \A i \in DOMAIN sound : up[i] \in S /\ overlay[up[i]] \in OverlayDefs
      BY <1>4, <1>5
    <2>. QED  BY <1>5, <1>7, <2>1, ParsedDef
  <1>9. parsed \in Seq(OverlayDefs)
    <2>1. DOMAIN sound = 1 .. Len(sound) /\ Len(sound) \in Nat
      BY <1>5
    <2>2. parsed = [i \in 1 .. Len(sound) |-> parsed[i]]
      BY <1>7, <2>1
    <2>. QED  BY <1>8, <2>1, <2>2
  <1>10. PICK R : R = {i \in DOMAIN parsed : parsed[i].kind = kind}
    OBVIOUS
  <1>11. PICK mine : mine = Ascending(R)
    OBVIOUS
  <1>12. R \in SUBSET DOMAIN parsed /\ ofKind = Picked(parsed, R)
    BY <1>6, <1>10 DEF DefinitionsFor
  <1>13. /\ ofKind \in Seq(OverlayDefs) /\ mine \in [DOMAIN ofKind -> R]
         /\ \A x \in R : \E n \in DOMAIN ofKind : mine[n] = x
         /\ \A m, n \in DOMAIN ofKind : m < n <=> mine[m] < mine[n]
         /\ \A n \in DOMAIN ofKind : ofKind[n] = parsed[mine[n]]
    BY <1>9, <1>11, <1>12, PickedFrom
  <1>14. at = [n \in DOMAIN ofKind |-> up[mine[n]]]
    BY <1>1, <1>3, <1>6, <1>10, <1>11 DEF DefinitionsAt
  <1>15. \A n \in DOMAIN ofKind : /\ at[n] = up[mine[n]] /\ mine[n] \in DOMAIN sound
                                  /\ at[n] \in S /\ parsed[mine[n]].kind = kind
    BY <1>5, <1>8, <1>10, <1>13, <1>14
  <1>16. \A n \in DOMAIN ofKind : overlay[at[n]].kind = kind /\ ofKind[n] = Parsed(overlay[at[n]])
    BY <1>8, <1>13, <1>15
  <1>17. ASSUME NEW i \in DOMAIN overlay, overlay[i].kind = kind
         PROVE  \E n \in DOMAIN ofKind : at[n] = i
    <2>1. i \in S
      BY <1>1, <1>17
    <2>2. PICK k \in DOMAIN sound : up[k] = i
      BY <1>5, <2>1
    <2>3. k \in R
      BY <1>8, <1>10, <1>17, <2>2
    <2>4. PICK n \in DOMAIN ofKind : mine[n] = k
      BY <1>13, <2>3
    <2>. QED  BY <1>15, <2>2, <2>4
  <1>18. \A m, n \in DOMAIN ofKind : m < n <=> at[m] < at[n]
    BY <1>5, <1>13, <1>15
  <1>19. at \in [DOMAIN ofKind -> DOMAIN overlay]
    BY <1>4, <1>14, <1>15
  <1>. QED  BY <1>13, <1>16, <1>17, <1>18, <1>19

-----------------------------------------------------------------------------
(* The entries of a kind, in the order they are merged in.                 *)
Earlier(x, y) == x[1] < y[1] \/ (x[1] = y[1] /\ x[2] < y[2])

FieldsFor(overlay, kind) ==
  LET ofKind == DefinitionsFor(overlay, kind) IN [i \in DOMAIN ofKind |-> ofKind[i].fields]

EntriesAt(overlay, kind) ==
  LET ds == DefinitionsAt(overlay, kind)
      turns == InTurn(FieldsFor(overlay, kind))
      place(turn) == <<ds[turn[1]], Ascending(Pathed(overlay[ds[turn[1]]]))[turn[2]]>>
  IN  [n \in DOMAIN turns |-> place(turns[n])]

LEMMA FieldsOfDefinition ==
  ASSUME NEW def \in OverlayDefs, NEW list, list = Parsed(def).fields,
         NEW up, up = Ascending(Pathed(def))
  PROVE  /\ list \in Seq(Entries) /\ up \in [DOMAIN list -> Pathed(def)]
         /\ \A x \in Pathed(def) : \E n \in DOMAIN list : up[n] = x
         /\ \A m, n \in DOMAIN list : m < n <=> up[m] < up[n]
         /\ \A n \in DOMAIN list : list[n] = def.fields[up[n]]
  <1>1. def.fields \in Seq(Entries) /\ Pathed(def) \in SUBSET DOMAIN def.fields
    BY DEF OverlayDefs, Pathed
  <1>2. list = Picked(def.fields, Pathed(def))
    BY ParsedDef
  <1>. QED  BY <1>1, <1>2, PickedFrom

LEMMA LexicalSays ==
  ASSUME NEW S, NEW x, NEW y, <<x, y>> \in Lexical(S)
  PROVE  Earlier(x, y)
  BY DEF Lexical, Earlier

LEMMA MergedEntries ==
  ASSUME NEW overlay \in Seq(OverlayDefs), NEW kind, HasKind(kind),
         NEW merged, merged = GetOverridesForKind(overlay, kind),
         NEW at, at = EntriesAt(overlay, kind)
  PROVE  /\ merged \in Seq(Entries) /\ DOMAIN at = DOMAIN merged
         /\ \A n \in DOMAIN merged :
              /\ at[n] = <<at[n][1], at[n][2]>> /\ at[n][1] \in DOMAIN overlay
              /\ overlay[at[n][1]].kind = kind /\ at[n][2] \in Pathed(overlay[at[n][1]])
              /\ merged[n] = overlay[at[n][1]].fields[at[n][2]]
         /\ \A d \in DOMAIN overlay : overlay[d].kind = kind =>
              \A e \in Pathed(overlay[d]) : \E n \in DOMAIN merged : at[n] = <<d, e>>
         /\ \A m, n \in DOMAIN merged : m < n => Earlier(at[m], at[n])
  <1>1. PICK ofKind : ofKind = DefinitionsFor(overlay, kind)
    OBVIOUS
  <1>2. PICK ds : ds = DefinitionsAt(overlay, kind)
    OBVIOUS
  <1>3. /\ ofKind \in Seq(OverlayDefs) /\ ds \in [DOMAIN ofKind -> DOMAIN overlay]
        /\ \A n \in DOMAIN ofKind : overlay[ds[n]].kind = kind /\ ofKind[n] = Parsed(overlay[ds[n]])
        /\ \A i \in DOMAIN overlay : overlay[i].kind = kind => \E n \in DOMAIN ofKind : ds[n] = i
        /\ \A m, n \in DOMAIN ofKind : m < n <=> ds[m] < ds[n]
    BY <1>1, <1>2, DefinitionsOfKind
  <1>4. PICK lists : lists = FieldsFor(overlay, kind)
    OBVIOUS
  <1>5. PICK turns : turns = InTurn(lists)
    OBVIOUS
  <1>6. lists = [i \in DOMAIN ofKind |-> ofKind[i].fields]
    BY <1>1, <1>4 DEF FieldsFor
  <1>7. PICK up : up = [i \in DOMAIN ofKind |-> Ascending(Pathed(overlay[ds[i]]))]
    OBVIOUS
  <1>8. ASSUME NEW i \in DOMAIN ofKind
         PROVE  /\ lists[i] \in Seq(Entries) /\ up[i] \in [DOMAIN lists[i] -> Pathed(overlay[ds[i]])]
                /\ \A x \in Pathed(overlay[ds[i]]) : \E n \in DOMAIN lists[i] : up[i][n] = x
                /\ \A m, n \in DOMAIN lists[i] : m < n <=> up[i][m] < up[i][n]
                /\ \A n \in DOMAIN lists[i] : lists[i][n] = overlay[ds[i]].fields[up[i][n]]
    <2>1. ds[i] \in DOMAIN overlay /\ overlay[ds[i]] \in OverlayDefs
      BY <1>3
    <2>2. PICK list : list = lists[i]
      OBVIOUS
    <2>3. list = Parsed(overlay[ds[i]]).fields
      BY <1>3, <1>6, <2>2
    <2>4. PICK u : u = up[i]
      OBVIOUS
    <2>5. u = Ascending(Pathed(overlay[ds[i]]))
      BY <1>7, <2>4
    <2>. QED  BY <2>1, <2>2, <2>3, <2>4, <2>5, FieldsOfDefinition
  <1>9. lists \in Seq(Seq(Entries)) /\ DOMAIN lists = DOMAIN ofKind
    <2>1. DOMAIN ofKind = 1 .. Len(ofKind) /\ Len(ofKind) \in Nat
      BY <1>3
    <2>2. \A i \in DOMAIN ofKind : lists[i] \in Seq(Entries)
      BY <1>8
    <2>. QED  BY <1>6, <2>1, <2>2
  <1>10. merged = Concatenated(lists)
    BY <1>1, <1>6 DEF GetOverridesForKind, DefinitionsFor
  <1>11. /\ merged \in Seq(Entries) /\ turns \in [DOMAIN merged -> Places(lists)]
         /\ \A x \in Places(lists) : \E n \in DOMAIN merged : turns[n] = x
         /\ \A m, n \in DOMAIN merged : m < n <=> <<turns[m], turns[n]>> \in Lexical(Places(lists))
         /\ \A n \in DOMAIN merged : merged[n] = lists[turns[n][1]][turns[n][2]]
    BY <1>5, <1>9, <1>10, ConcatenatedFrom
  <1>12. \A n \in DOMAIN merged :
           /\ turns[n][1] \in DOMAIN ofKind
           /\ up[turns[n][1]] = Ascending(Pathed(overlay[ds[turns[n][1]]]))
    <2>1. \A n \in DOMAIN merged : turns[n][1] \in DOMAIN ofKind
      BY <1>9, <1>11 DEF Places
    <2>. QED  BY <1>7, <2>1
  <1>13. /\ DOMAIN at = DOMAIN merged
         /\ \A n \in DOMAIN merged : at[n] = <<ds[turns[n][1]], up[turns[n][1]][turns[n][2]]>>
    BY <1>2, <1>4, <1>5, <1>11, <1>12 DEF EntriesAt
  <1>14. \A x : x \in Places(lists) <=> \E i \in DOMAIN lists : \E j \in DOMAIN lists[i] : x = <<i, j>>
    BY DEF Places
  <1>15. ASSUME NEW n \in DOMAIN merged
         PROVE  \E i \in DOMAIN ofKind : \E j \in DOMAIN lists[i] : turns[n] = <<i, j>>
    <2>1. turns[n] \in Places(lists)
      BY <1>11
    <2>. QED  BY <1>9, <1>14, <2>1
  <1>16. ASSUME NEW n \in DOMAIN merged
         PROVE  /\ at[n] = <<at[n][1], at[n][2]>> /\ at[n][1] \in DOMAIN overlay
                /\ overlay[at[n][1]].kind = kind /\ at[n][2] \in Pathed(overlay[at[n][1]])
                /\ merged[n] = overlay[at[n][1]].fields[at[n][2]]
    <2>1. PICK i \in DOMAIN ofKind : \E j \in DOMAIN lists[i] : turns[n] = <<i, j>>
      BY <1>15
    <2>2. PICK j \in DOMAIN lists[i] : turns[n] = <<i, j>>
      BY <2>1
    <2>3. PICK u : u = up[i]
      OBVIOUS
    <2>4. at[n] = <<ds[i], u[j]>> /\ merged[n] = lists[i][j]
      BY <1>11, <1>13, <2>2, <2>3
    <2>5. u[j] \in Pathed(overlay[ds[i]]) /\ lists[i][j] = overlay[ds[i]].fields[u[j]]
      BY <1>8, <2>3
    <2>. QED  BY <1>3, <2>4, <2>5
  <1>17. ASSUME NEW d \in DOMAIN overlay, overlay[d].kind = kind, NEW e \in Pathed(overlay[d])
         PROVE  \E n \in DOMAIN merged : at[n] = <<d, e>>
    <2>1. PICK i \in DOMAIN ofKind : ds[i] = d
      BY <1>3, <1>17
    <2>2. PICK u : u = up[i]
      OBVIOUS
    <2>3. PICK j \in DOMAIN lists[i] : u[j] = e
      BY <1>17, <1>8, <2>1, <2>2
    <2>4. PICK n \in DOMAIN merged : turns[n] = <<i, j>>
      BY <1>9, <1>11, <1>14
    <2>. QED  BY <1>13, <2>1, <2>2, <2>3, <2>4
  <1>18. ASSUME NEW m \in DOMAIN merged, NEW n \in DOMAIN merged, m < n
         PROVE  Earlier(at[m], at[n])
    <2>1. PICK i \in DOMAIN ofKind : \E j \in DOMAIN lists[i] : turns[m] = <<i, j>>
      BY <1>15
    <2>2. PICK k \in DOMAIN ofKind : \E l \in DOMAIN lists[k] : turns[n] = <<k, l>>
      BY <1>15
    <2>3. PICK j \in DOMAIN lists[i] : turns[m] = <<i, j>>
      BY <2>1
    <2>4. PICK l \in DOMAIN lists[k] : turns[n] = <<k, l>>
      BY <2>2
    <2>5. i < k \/ (i = k /\ j < l)
      <3>1. Earlier(turns[m], turns[n])
        BY <1>11, <1>18, LexicalSays
      <3>. QED  BY <2>3, <2>4, <3>1 DEF Earlier
    <2>6. PICK u, v : u = up[i] /\ v = up[k]
      OBVIOUS
    <2>7. at[m] = <<ds[i], u[j]>> /\ at[n] = <<ds[k], v[l]>>
      BY <1>13, <2>3, <2>4, <2>6
    <2>8. CASE i < k
      BY <1>3, <2>7, <2>8 DEF Earlier
    <2>9. CASE i = k /\ j < l
      <3>1. u = v /\ u[j] < u[l]
        BY <1>8, <2>6, <2>9
      <3>. QED  BY <2>7, <2>9, <3>1 DEF Earlier
    <2>. QED  BY <2>5, <2>8, <2>9
  <1>. QED  BY <1>11, <1>13, <1>16, <1>17, <1>18
-----------------------------------------------------------------------------
(* The entry that wins.                                                    *)
LEMMA GreatestOf ==
  ASSUME NEW n \in Nat, NEW S \in SUBSET (1 .. n), S # {}
  PROVE  Max(S) \in S /\ \A x \in S : x <= Max(S)
  <1>1. PICK T : T = {k \in Nat : \E y \in S : k = n - y}
    OBVIOUS
  <1>2. T \in SUBSET Nat /\ T # {}
    <2>1. PICK y \in S : TRUE
      OBVIOUS
    <2>2. n - y \in T
      BY <1>1
    <2>. QED  BY <1>1, <2>2
  <1>3. PICK k \in T : \A l \in T : k <= l
    BY <1>2, LeastOf
  <1>4. PICK x \in S : k = n - x
    BY <1>1
  <1>5. \A y \in S : n - y \in T
    BY <1>1
  <1>6. ASSUME NEW y \in S PROVE y <= x
    <2>1. n - x <= n - y
      BY <1>3, <1>4, <1>5
    <2>. QED  BY <2>1
  <1>. QED  BY <1>6 DEF Max

LEMMA LastWins ==
  ASSUME NEW overlay \in Seq(OverlayDefs), NEW kind, HasKind(kind), NEW path, path # <<>>,
         NEW fields, NEW form, form = [fields |-> fields, kind |-> kind, overlay |-> overlay],
         NEW overrides, overrides = resolveFormOverrides(overlay, kind)
  PROVE  /\ path \in DOMAIN overrides =>
              LastEntry(form, path) = {overrides[path]} /\ overrides[path] \in Entries
         /\ path \notin DOMAIN overrides => LastEntry(form, path) = {}
  <1>1. PICK merged : merged = GetOverridesForKind(overlay, kind)
    OBVIOUS
  <1>2. PICK at : at = EntriesAt(overlay, kind)
    OBVIOUS
  <1>3. /\ merged \in Seq(Entries) /\ DOMAIN at = DOMAIN merged
        /\ \A n \in DOMAIN merged :
             /\ at[n] = <<at[n][1], at[n][2]>> /\ at[n][1] \in DOMAIN overlay
             /\ overlay[at[n][1]].kind = kind /\ at[n][2] \in Pathed(overlay[at[n][1]])
             /\ merged[n] = overlay[at[n][1]].fields[at[n][2]]
        /\ \A d \in DOMAIN overlay : overlay[d].kind = kind =>
             \A e \in Pathed(overlay[d]) : \E n \in DOMAIN merged : at[n] = <<d, e>>
        /\ \A m, n \in DOMAIN merged : m < n => Earlier(at[m], at[n])
    BY <1>1, <1>2, MergedEntries
  <1>4. PICK mine : mine = {i \in DOMAIN merged : merged[i].path = path}
    OBVIOUS
  <1>5. /\ DOMAIN overrides = {merged[i].path : i \in DOMAIN merged}
        /\ \A p \in DOMAIN overrides : overrides[p] = merged[Max({i \in DOMAIN merged : merged[i].path = p})]
    BY <1>1 DEF resolveFormOverrides, OverridesByPath
  <1>6. path \in DOMAIN overrides <=> mine # {}
    BY <1>4, <1>5
  <1>7. PICK all : all = {x \in Places([d \in DOMAIN overlay |-> overlay[d].fields]) :
                           overlay[x[1]].kind = kind /\ overlay[x[1]].fields[x[2]].path = path}
    OBVIOUS
  <1>8. LastEntry(form, path) =
          {overlay[x[1]].fields[x[2]] : x \in {x \in all : \A other \in all :
             other[1] < x[1] \/ (other[1] = x[1] /\ other[2] <= x[2])}}
    BY <1>7 DEF LastEntry
  <1>9. \A d \in DOMAIN overlay : overlay[d] \in OverlayDefs /\ d \in Int
    OBVIOUS
  <1>10. \A d \in DOMAIN overlay : overlay[d].fields \in Seq(Entries) /\ DOMAIN overlay[d].fields \in SUBSET Int
    BY <1>9 DEF OverlayDefs
  <1>11. \A x : x \in all <=>
           \E d \in DOMAIN overlay : \E e \in DOMAIN overlay[d].fields :
             x = <<d, e>> /\ overlay[d].kind = kind /\ overlay[d].fields[e].path = path
    BY <1>7 DEF Places
  <1>12. ASSUME NEW x \in all PROVE \E n \in mine : at[n] = x /\ merged[n] = overlay[x[1]].fields[x[2]]
    <2>1. PICK d \in DOMAIN overlay : \E e \in DOMAIN overlay[d].fields :
            x = <<d, e>> /\ overlay[d].kind = kind /\ overlay[d].fields[e].path = path
      BY <1>11
    <2>2. PICK e \in DOMAIN overlay[d].fields :
            x = <<d, e>> /\ overlay[d].kind = kind /\ overlay[d].fields[e].path = path
      BY <2>1
    <2>3. e \in Pathed(overlay[d])
      BY <2>2 DEF Pathed
    <2>4. PICK n \in DOMAIN merged : at[n] = <<d, e>>
      BY <1>3, <2>2, <2>3
    <2>5. merged[n] = overlay[d].fields[e]
      BY <1>3, <2>4
    <2>. QED  BY <1>4, <2>2, <2>4, <2>5
  <1>13. ASSUME NEW n \in mine PROVE at[n] \in all /\ merged[n] = overlay[at[n][1]].fields[at[n][2]]
    <2>1. PICK d, e : at[n] = <<d, e>>
      BY <1>3, <1>4
    <2>2. /\ d \in DOMAIN overlay /\ e \in DOMAIN overlay[d].fields /\ overlay[d].kind = kind
          /\ merged[n] = overlay[d].fields[e] /\ merged[n].path = path
      BY <1>3, <1>4, <2>1 DEF Pathed
    <2>. QED  BY <1>11, <2>1, <2>2
  <1>14. ASSUME mine = {} PROVE LastEntry(form, path) = {}
    <2>1. all = {}
      BY <1>12, <1>14
    <2>. QED  BY <1>8, <2>1
  <1>15. ASSUME mine # {}
         PROVE  LastEntry(form, path) = {overrides[path]} /\ overrides[path] \in Entries
    <2>1. PICK last : last = Max(mine)
      OBVIOUS
    <2>2. last \in mine /\ \A n \in mine : n <= last /\ n \in Int
      <3>1. PICK size : size = Len(merged)
        OBVIOUS
      <3>2. size \in Nat /\ mine \in SUBSET (1 .. size)
        BY <1>3, <1>4, <3>1
      <3>3. Max(mine) \in mine /\ \A n \in mine : n <= Max(mine)
        BY <1>15, <3>2, GreatestOf
      <3>. QED  BY <2>1, <3>2, <3>3
    <2>3. overrides[path] = merged[last] /\ merged[last] \in Entries
      <3>1. path \in DOMAIN overrides
        BY <1>6, <1>15
      <3>2. overrides[path] = merged[Max({i \in DOMAIN merged : merged[i].path = path})]
        BY <1>5, <3>1
      <3>3. overrides[path] = merged[last]
        BY <1>4, <2>1, <3>2
      <3>4. last \in DOMAIN merged
        BY <1>4, <2>2
      <3>. QED  BY <1>3, <3>3, <3>4
    <2>4. \A x \in all : x[1] \in Int /\ x[2] \in Int /\ x = <<x[1], x[2]>>
      BY <1>9, <1>10, <1>11
    <2>5. PICK top : top = at[last]
      OBVIOUS
    <2>6. top \in all /\ merged[last] = overlay[top[1]].fields[top[2]]
      BY <1>13, <2>2, <2>5
    <2>7. ASSUME NEW other \in all
          PROVE  other = top \/ Earlier(other, top)
      <3>1. PICK n \in mine : at[n] = other
        BY <1>12
      <3>2. n = last \/ n < last
        BY <2>2
      <3>3. n \in DOMAIN merged /\ last \in DOMAIN merged
        BY <1>4, <2>2
      <3>. QED  BY <1>3, <2>5, <3>1, <3>2, <3>3
    <2>8. \A other \in all : other[1] < top[1] \/ (other[1] = top[1] /\ other[2] <= top[2])
      BY <2>4, <2>6, <2>7 DEF Earlier
    <2>9. ASSUME NEW x \in all, top[1] < x[1] \/ (top[1] = x[1] /\ top[2] <= x[2])
          PROVE  x = top
      BY <2>4, <2>6, <2>7, <2>9 DEF Earlier
    <2>10. {x \in all : \A other \in all :
              other[1] < x[1] \/ (other[1] = x[1] /\ other[2] <= x[2])} = {top}
      BY <2>6, <2>8, <2>9
    <2>. QED  BY <1>8, <2>3, <2>6, <2>10
  <1>. QED  BY <1>6, <1>14, <1>15
-----------------------------------------------------------------------------
(* Sorting by numbers.                                                     *)
Ordered(p, q, overrides) ==
  \/ OrderFor(overrides, p) # {} /\ OrderFor(overrides, q) = {}
  \/ \E m \in OrderFor(overrides, p), n \in OrderFor(overrides, q) : m < n

Sooner(fields, i, j, overrides) ==
  \/ Ordered(fields[i], fields[j], overrides)
  \/ ~Ordered(fields[j], fields[i], overrides) /\ i < j

Numbered(fields, overrides) == \A i \in DOMAIN fields : OrderFor(overrides, fields[i]) \in Numbers

SoonerPairs(fields, overrides) ==
  {p \in (DOMAIN fields) \X (DOMAIN fields) : Sooner(fields, p[1], p[2], overrides)}

SortedAt(fields, overrides) == Ranked(DOMAIN fields, SoonerPairs(fields, overrides))

LEMMA SoonerOrders ==
  ASSUME NEW T, NEW fields \in Seq(T), NEW overrides, Numbered(fields, overrides)
  PROVE  StrictOrder(SoonerPairs(fields, overrides), DOMAIN fields)
  <1>1. PICK D : D = DOMAIN fields
    OBVIOUS
  <1>2. D \in SUBSET Int
    BY <1>1
  <1>3. PICK order : order = [i \in D |-> OrderFor(overrides, fields[i])]
    OBVIOUS
  <1>4. PICK num : num = [i \in D |-> CHOOSE m : m \in order[i]]
    OBVIOUS
  <1>5. PICK has : has = [i \in D |-> order[i] # {}]
    OBVIOUS
  <1>6. \A i \in D : order[i] \in SUBSET Int /\ \A m, n \in order[i] : m = n
    BY <1>1, <1>3 DEF Numbered, Numbers
  <1>7. ASSUME NEW i \in D
        PROVE  (has[i] => num[i] \in Int /\ order[i] = {num[i]}) /\ (~has[i] => order[i] = {})
    <2>1. has[i] <=> order[i] # {}
      BY <1>5
    <2>2. ASSUME order[i] # {} PROVE num[i] \in Int /\ order[i] = {num[i]}
      <3>1. num[i] \in order[i]
        BY <1>4, <2>2
      <3>2. \A m \in order[i] : m = num[i]
        BY <1>6, <3>1
      <3>3. num[i] \in Int
        BY <1>6, <3>1
      <3>. QED  BY <3>1, <3>2, <3>3
    <2>. QED  BY <2>1, <2>2
  <1>8. ASSUME NEW i \in D, NEW j \in D
        PROVE  Ordered(fields[i], fields[j], overrides) <=>
                 (has[i] /\ ~has[j]) \/ (has[i] /\ has[j] /\ num[i] < num[j])
    <2>1. Ordered(fields[i], fields[j], overrides) <=>
            (order[i] # {} /\ order[j] = {}) \/ \E m \in order[i], n \in order[j] : m < n
      BY <1>3 DEF Ordered
    <2>2. order[i] # {} <=> has[i]
      BY <1>5
    <2>3. order[j] # {} <=> has[j]
      BY <1>5
    <2>4. CASE has[i] /\ has[j]
      BY <1>7, <2>1, <2>4
    <2>5. CASE ~(has[i] /\ has[j])
      BY <2>1, <2>2, <2>3, <2>5
    <2>. QED  BY <2>4, <2>5
  <1>9. PICK pairs : pairs = SoonerPairs(fields, overrides)
    OBVIOUS
  <1>10. ASSUME NEW i \in D, NEW j \in D
         PROVE  <<i, j>> \in pairs <=>
                  \/ (has[i] /\ ~has[j]) \/ (has[i] /\ has[j] /\ num[i] < num[j])
                  \/ /\ ~((has[j] /\ ~has[i]) \/ (has[i] /\ has[j] /\ num[j] < num[i]))
                     /\ i < j
    <2>1. <<i, j>> \in pairs <=> Sooner(fields, i, j, overrides)
      BY <1>1, <1>9 DEF SoonerPairs
    <2>2. Sooner(fields, i, j, overrides) <=>
            \/ Ordered(fields[i], fields[j], overrides)
            \/ ~Ordered(fields[j], fields[i], overrides) /\ i < j
      BY DEF Sooner
    <2>. QED  BY <1>8, <2>1, <2>2
  <1>11. \A i \in D : has[i] \in BOOLEAN /\ (has[i] => num[i] \in Int)
    BY <1>5, <1>7
  <1>12. \A x \in D : <<x, x>> \notin pairs
    BY <1>2, <1>10, <1>11
  <1>13. ASSUME NEW x \in D, NEW y \in D
         PROVE  x = y \/ <<x, y>> \in pairs \/ <<y, x>> \in pairs
    <2>1. x \in Int /\ y \in Int /\ (x = y \/ x < y \/ y < x)
      BY <1>2
    <2>2. CASE has[x] /\ has[y]
      BY <1>10, <1>11, <2>1, <2>2
    <2>3. CASE ~(has[x] /\ has[y])
      BY <1>10, <1>11, <2>1, <2>3
    <2>. QED  BY <2>2, <2>3
  <1>14. ASSUME NEW x \in D, NEW y \in D, NEW z \in D, <<x, y>> \in pairs, <<y, z>> \in pairs
         PROVE  <<x, z>> \in pairs
    <2>1. CASE has[x] /\ has[y] /\ has[z]
      BY <1>2, <1>10, <1>11, <1>14, <2>1
    <2>2. CASE ~(has[x] /\ has[y] /\ has[z])
      BY <1>2, <1>10, <1>11, <1>14, <2>2
    <2>. QED  BY <2>1, <2>2
  <1>. QED  BY <1>1, <1>9, <1>12, <1>13, <1>14 DEF StrictOrder

LEMMA SortedFields ==
  ASSUME NEW T, NEW fields \in Seq(T), NEW overrides, Numbered(fields, overrides),
         NEW list, list = SortedByOrder(fields, overrides),
         NEW at, at = SortedAt(fields, overrides)
  PROVE  /\ list \in Seq(T) /\ at \in [DOMAIN list -> DOMAIN fields]
         /\ \A x \in DOMAIN fields : \E n \in DOMAIN list : at[n] = x
         /\ \A m, n \in DOMAIN list : m < n <=> Sooner(fields, at[m], at[n], overrides)
         /\ \A n \in DOMAIN list : list[n] = fields[at[n]]
  <1>1. StrictOrder(SoonerPairs(fields, overrides), DOMAIN fields)
    BY SoonerOrders
  <1>2. PICK pairs : pairs = SoonerPairs(fields, overrides)
    OBVIOUS
  <1>3. IsFiniteSet(DOMAIN fields)
    <2>1. DOMAIN fields = 1 .. Len(fields) /\ Len(fields) \in Int
      OBVIOUS
    <2>. QED  BY <2>1, FS_Interval
  <1>4. /\ at \in Seq(DOMAIN fields)
        /\ \A x \in DOMAIN fields : \E n \in DOMAIN at : at[n] = x
        /\ \A m, n \in DOMAIN at : m < n <=> <<at[m], at[n]>> \in pairs
    BY <1>1, <1>2, <1>3, RankedInOrder DEF SortedAt
  <1>5. list = [n \in DOMAIN at |-> fields[at[n]]]
    BY DEF SortedByOrder, SortedAt, SoonerPairs, Sooner, Ordered
  <1>6. \A n \in DOMAIN at : at[n] \in DOMAIN fields
    BY <1>4
  <1>7. list \in Seq(T)
    <2>1. DOMAIN at = 1 .. Len(at) /\ Len(at) \in Nat
      BY <1>4
    <2>2. \A n \in 1 .. Len(at) : fields[at[n]] \in T
      BY <1>6, <2>1
    <2>. QED  BY <1>5, <2>1, <2>2
  <1>8. \A m, n \in DOMAIN at : <<at[m], at[n]>> \in pairs <=> Sooner(fields, at[m], at[n], overrides)
    BY <1>2, <1>6 DEF SoonerPairs
  <1>9. at \in [DOMAIN list -> DOMAIN fields] /\ DOMAIN list = DOMAIN at
    BY <1>4, <1>5, <1>6
  <1>10. \A m, n \in DOMAIN list : m < n <=> Sooner(fields, at[m], at[n], overrides)
    BY <1>4, <1>8, <1>9
  <1>. QED  BY <1>4, <1>5, <1>7, <1>9, <1>10

(* A group: some of the fields, sorted.                                    *)
GroupAt(fields, S, overrides) ==
  LET sorted == SortedAt(Picked(fields, S), overrides)
  IN  [n \in DOMAIN sorted |-> Ascending(S)[sorted[n]]]

LEMMA GroupSorted ==
  ASSUME NEW T, NEW fields \in Seq(T), NEW S \in SUBSET DOMAIN fields,
         NEW overrides, Numbered(fields, overrides),
         NEW list, list = SortedByOrder(Picked(fields, S), overrides),
         NEW at, at = GroupAt(fields, S, overrides)
  PROVE  /\ list \in Seq(T) /\ at \in [DOMAIN list -> S]
         /\ \A x \in S : \E n \in DOMAIN list : at[n] = x
         /\ \A m, n \in DOMAIN list : m < n <=> Sooner(fields, at[m], at[n], overrides)
         /\ \A n \in DOMAIN list : list[n] = fields[at[n]]
  <1>1. PICK some : some = Picked(fields, S)
    OBVIOUS
  <1>2. PICK up : up = Ascending(S)
    OBVIOUS
  <1>3. /\ some \in Seq(T) /\ up \in [DOMAIN some -> S]
        /\ \A x \in S : \E n \in DOMAIN some : up[n] = x
        /\ \A m, n \in DOMAIN some : m < n <=> up[m] < up[n]
        /\ \A n \in DOMAIN some : some[n] = fields[up[n]]
    BY <1>1, <1>2, PickedFrom
  <1>4. Numbered(some, overrides)
    <2>1. \A n \in DOMAIN some : up[n] \in DOMAIN fields /\ some[n] = fields[up[n]]
      BY <1>3
    <2>. QED  BY <2>1 DEF Numbered
  <1>5. PICK sorted : sorted = SortedAt(some, overrides)
    OBVIOUS
  <1>6. list = SortedByOrder(some, overrides)
    BY <1>1
  <1>7. /\ list \in Seq(T) /\ sorted \in [DOMAIN list -> DOMAIN some]
        /\ \A x \in DOMAIN some : \E n \in DOMAIN list : sorted[n] = x
        /\ \A m, n \in DOMAIN list : m < n <=> Sooner(some, sorted[m], sorted[n], overrides)
        /\ \A n \in DOMAIN list : list[n] = some[sorted[n]]
    BY <1>3, <1>4, <1>5, <1>6, SortedFields
  <1>8. at = [n \in DOMAIN list |-> up[sorted[n]]]
    BY <1>1, <1>2, <1>5, <1>7 DEF GroupAt
  <1>9. \A n \in DOMAIN list : /\ sorted[n] \in DOMAIN some /\ at[n] = up[sorted[n]]
                               /\ at[n] \in S /\ list[n] = fields[at[n]]
    BY <1>3, <1>7, <1>8
  <1>10. at \in [DOMAIN list -> S]
    BY <1>8, <1>9
  <1>11. ASSUME NEW x \in S PROVE \E n \in DOMAIN list : at[n] = x
    <2>1. PICK k \in DOMAIN some : up[k] = x
      BY <1>3
    <2>2. PICK n \in DOMAIN list : sorted[n] = k
      BY <1>7
    <2>. QED  BY <1>9, <2>1, <2>2
  <1>12. ASSUME NEW i \in DOMAIN some, NEW j \in DOMAIN some
         PROVE  Sooner(some, i, j, overrides) <=> Sooner(fields, up[i], up[j], overrides)
    <2>1. some[i] = fields[up[i]] /\ some[j] = fields[up[j]] /\ (i < j <=> up[i] < up[j])
      BY <1>3
    <2>. QED  BY <2>1 DEF Sooner
  <1>13. \A m, n \in DOMAIN list : m < n <=> Sooner(fields, at[m], at[n], overrides)
    BY <1>7, <1>9, <1>12
  <1>. QED  BY <1>7, <1>9, <1>10, <1>11, <1>13
-----------------------------------------------------------------------------
(* The order of a form: whether the i-th field may stand before the j-th.  *)
Follows(fields, i, j, overrides) ==
  IF Len(fields[i]) # Len(fields[j]) THEN Len(fields[i]) < Len(fields[j])
  ELSE IF Len(fields[i]) > 1 /\ fields[i][1] # fields[j][1] THEN i < j
  ELSE Sooner(fields, i, j, overrides)

Walked(fields) ==
  /\ fields \in Seq(Seq(STRING))
  /\ \A i \in DOMAIN fields : Len(fields[i]) \in {1, 2}
  /\ \A i, j \in DOMAIN fields : fields[i][1] = fields[j][1] =>
       \A k \in DOMAIN fields : i <= k /\ k <= j => fields[k][1] = fields[i][1]

LEMMA FormInOrder ==
  ASSUME NEW fields, Walked(fields), NEW overrides, Numbered(fields, overrides),
         NEW form, form = GroupedFields(fields, overrides)
  PROVE  /\ \A x \in DOMAIN fields : \E n \in DOMAIN form : form[n] = fields[x]
         /\ \A n \in DOMAIN form : \E x \in DOMAIN fields : form[n] = fields[x]
         /\ \A m, n \in DOMAIN form : m < n => \E x, y \in DOMAIN fields :
              form[m] = fields[x] /\ form[n] = fields[y] /\ Follows(fields, x, y, overrides)
  <1>1. PICK D : D = DOMAIN fields
    OBVIOUS
  <1>2. /\ fields \in Seq(Seq(STRING)) /\ D \in SUBSET Nat
        /\ \A i \in D : Len(fields[i]) = 1 \/ Len(fields[i]) = 2
        /\ \A i, j, k \in D : fields[i][1] = fields[j][1] /\ i <= k /\ k <= j => fields[k][1] = fields[i][1]
    BY <1>1 DEF Walked
  <1>3. IsFiniteSet(D)
    <2>1. D = 1 .. Len(fields) /\ Len(fields) \in Int
      BY <1>1, <1>2
    <2>. QED  BY <2>1, FS_Interval
  <1>4. PICK top : top = {i \in D : Len(fields[i]) = 1}
    OBVIOUS
  <1>5. PICK block : block = [i \in D |-> {j \in D \ top : fields[j][1] = fields[i][1]}]
    OBVIOUS
  <1>6. PICK first : first = {i \in D \ top : \A j \in block[i] : i <= j}
    OBVIOUS
  <1>7. PICK keys : keys = Ascending(first)
    OBVIOUS
  <1>8. PICK group : group = [S \in SUBSET D |-> SortedByOrder(Picked(fields, S), overrides)]
    OBVIOUS
  <1>9. PICK place : place = [S \in SUBSET D |-> GroupAt(fields, S, overrides)]
    OBVIOUS
  <1>10. ASSUME NEW S \in SUBSET D
         PROVE  /\ group[S] \in Seq(Seq(STRING)) /\ place[S] \in [DOMAIN group[S] -> S]
                /\ \A x \in S : \E n \in DOMAIN group[S] : place[S][n] = x
                /\ \A m, n \in DOMAIN group[S] :
                     m < n <=> Sooner(fields, place[S][m], place[S][n], overrides)
                /\ \A n \in DOMAIN group[S] : group[S][n] = fields[place[S][n]]
    <2>1. PICK list, at : list = group[S] /\ at = place[S]
      OBVIOUS
    <2>2. list = SortedByOrder(Picked(fields, S), overrides) /\ at = GroupAt(fields, S, overrides)
      BY <1>8, <1>9, <2>1
    <2>3. S \in SUBSET DOMAIN fields
      BY <1>1
    <2>4. /\ list \in Seq(Seq(STRING)) /\ at \in [DOMAIN list -> S]
          /\ \A x \in S : \E n \in DOMAIN list : at[n] = x
          /\ \A m, n \in DOMAIN list : m < n <=> Sooner(fields, at[m], at[n], overrides)
          /\ \A n \in DOMAIN list : list[n] = fields[at[n]]
      BY <1>2, <2>2, <2>3, GroupSorted
    <2>. QED  BY <2>1, <2>4
  <1>11. top \in SUBSET D /\ first \in SUBSET D /\ \A i \in D : block[i] \in SUBSET D
    BY <1>4, <1>5, <1>6
  <1>12. /\ keys \in Seq(first)
         /\ \A x \in first : \E n \in DOMAIN keys : keys[n] = x
         /\ \A m, n \in DOMAIN keys : m < n <=> keys[m] < keys[n]
    <2>1. IsFiniteSet(first) /\ first \in SUBSET Int
      <3>1. IsFiniteSet(first)
        BY <1>3, <1>11, FS_Subset
      <3>. QED  BY <1>2, <1>11, <3>1
    <2>. QED  BY <1>7, <2>1, AscendingList
  <1>13. \A n \in DOMAIN keys : keys[n] \in first /\ keys[n] \in D /\ block[keys[n]] \in SUBSET D
    BY <1>11, <1>12
  <1>14. PICK lists : lists = [n \in DOMAIN keys |-> group[block[keys[n]]]]
    OBVIOUS
  <1>15. PICK rest : rest = Concatenated(lists)
    OBVIOUS
  <1>16. PICK head : head = group[top]
    OBVIOUS
  <1>17. form = head \o rest
    <2>. DEFINE blockOf(i) == {j \in D \ top : fields[j][1] = fields[i][1]}
                groupOf(S) == SortedByOrder(Picked(fields, S), overrides)
    <2>1. first = {i \in D \ top : \A j \in blockOf(i) : i <= j}
      BY <1>5, <1>6
    <2>2. lists = [n \in DOMAIN keys |-> groupOf(blockOf(keys[n]))]
      <3>1. \A n \in DOMAIN keys : block[keys[n]] = blockOf(keys[n])
        BY <1>5, <1>13
      <3>2. \A n \in DOMAIN keys : group[block[keys[n]]] = groupOf(blockOf(keys[n]))
        BY <1>8, <1>13, <3>1
      <3>. QED  BY <1>14, <3>2
    <2>3. head = groupOf(top)
      BY <1>8, <1>11, <1>16
    <2>4. form = groupOf(top) \o Concatenated([n \in DOMAIN keys |-> groupOf(blockOf(keys[n]))])
      BY <1>1, <1>4, <1>7, <2>1 DEF GroupedFields
    <2>. HIDE DEF blockOf, groupOf
    <2>. QED  BY <1>15, <2>2, <2>3, <2>4
  <1>18. lists \in Seq(Seq(Seq(STRING))) /\ DOMAIN lists = DOMAIN keys
    <2>1. DOMAIN keys = 1 .. Len(keys) /\ Len(keys) \in Nat
      BY <1>12
    <2>2. \A n \in DOMAIN keys : lists[n] \in Seq(Seq(STRING))
      BY <1>10, <1>13, <1>14
    <2>. QED  BY <1>14, <2>1, <2>2
  <1>19. PICK turns : turns = InTurn(lists)
    OBVIOUS
  <1>20. /\ rest \in Seq(Seq(STRING)) /\ turns \in [DOMAIN rest -> Places(lists)]
         /\ \A x \in Places(lists) : \E n \in DOMAIN rest : turns[n] = x
         /\ \A m, n \in DOMAIN rest : m < n <=> <<turns[m], turns[n]>> \in Lexical(Places(lists))
         /\ \A n \in DOMAIN rest : rest[n] = lists[turns[n][1]][turns[n][2]]
    <2>1. PICK T : T = Seq(STRING)
      OBVIOUS
    <2>2. lists \in Seq(Seq(T))
      BY <1>18, <2>1
    <2>3. /\ rest \in Seq(T) /\ turns \in [DOMAIN rest -> Places(lists)]
          /\ \A x \in Places(lists) : \E n \in DOMAIN rest : turns[n] = x
          /\ \A m, n \in DOMAIN rest : m < n <=> <<turns[m], turns[n]>> \in Lexical(Places(lists))
          /\ \A n \in DOMAIN rest : rest[n] = lists[turns[n][1]][turns[n][2]]
      BY <1>15, <1>19, <2>2, ConcatenatedFrom
    <2>. QED  BY <2>1, <2>3
  <1>21. \A x : x \in Places(lists) <=> \E k \in DOMAIN lists : \E e \in DOMAIN lists[k] : x = <<k, e>>
    BY DEF Places
  <1>22. /\ head \in Seq(Seq(STRING)) /\ place[top] \in [DOMAIN head -> top]
         /\ \A x \in top : \E n \in DOMAIN head : place[top][n] = x
         /\ \A m, n \in DOMAIN head : m < n <=> Sooner(fields, place[top][m], place[top][n], overrides)
         /\ \A n \in DOMAIN head : head[n] = fields[place[top][n]]
    BY <1>10, <1>11, <1>16
  <1>23. PICK p, q : p = Len(head) /\ q = Len(rest)
    OBVIOUS
  <1>24. /\ p \in Nat /\ q \in Nat /\ DOMAIN head = 1 .. p /\ DOMAIN rest = 1 .. q
         /\ DOMAIN form = 1 .. p + q
         /\ \A n \in 1 .. p : form[n] = head[n]
         /\ \A n \in 1 .. q : form[p + n] = rest[n]
    BY <1>17, <1>20, <1>22, <1>23
  <1>25. PICK spot : spot = [n \in DOMAIN rest |-> place[block[keys[turns[n][1]]]][turns[n][2]]]
    OBVIOUS
  <1>26. ASSUME NEW n \in DOMAIN rest
         PROVE  \E k \in DOMAIN keys : \E e \in DOMAIN group[block[keys[k]]] :
                  /\ turns[n] = <<k, e>> /\ spot[n] = place[block[keys[k]]][e]
                  /\ spot[n] \in block[keys[k]] /\ rest[n] = fields[spot[n]]
    <2>1. PICK k \in DOMAIN keys : \E e \in DOMAIN lists[k] : turns[n] = <<k, e>>
      BY <1>18, <1>20, <1>21
    <2>2. PICK e \in DOMAIN lists[k] : turns[n] = <<k, e>>
      BY <2>1
    <2>3. PICK S \in SUBSET D : S = block[keys[k]]
      BY <1>13
    <2>4. lists[k] = group[S]
      BY <1>14, <2>3
    <2>5. spot[n] = place[S][e] /\ rest[n] = group[S][e]
      BY <1>20, <1>25, <2>2, <2>3, <2>4
    <2>6. place[S][e] \in S /\ group[S][e] = fields[place[S][e]]
      BY <1>10, <2>4
    <2>. QED  BY <2>2, <2>3, <2>4, <2>5, <2>6
  <1>27. \A n \in DOMAIN rest : /\ spot[n] \in D /\ rest[n] = fields[spot[n]]
                                /\ Len(fields[spot[n]]) = 2
    <2>1. ASSUME NEW n \in DOMAIN rest
          PROVE  spot[n] \in D /\ rest[n] = fields[spot[n]] /\ spot[n] \notin top
      <3>1. PICK k \in DOMAIN keys : \E e \in DOMAIN group[block[keys[k]]] :
                  /\ turns[n] = <<k, e>> /\ spot[n] = place[block[keys[k]]][e]
                  /\ spot[n] \in block[keys[k]] /\ rest[n] = fields[spot[n]]
        BY <1>26
      <3>2. spot[n] \in block[keys[k]] /\ rest[n] = fields[spot[n]] /\ keys[k] \in D
        BY <1>13, <3>1
      <3>. QED  BY <1>5, <3>2
    <2>. QED  BY <1>2, <1>4, <2>1
  <1>28. \A n \in DOMAIN head : /\ place[top][n] \in D /\ head[n] = fields[place[top][n]]
                                /\ Len(fields[place[top][n]]) = 1
    BY <1>4, <1>22
  <1>29. ASSUME NEW n \in DOMAIN form PROVE \E x \in D : form[n] = fields[x]
    <2>1. CASE n <= p
      BY <1>24, <1>28, <2>1
    <2>2. CASE n > p
      <3>1. PICK k \in 1 .. q : n = p + k
        <4>1. n - p \in 1 .. q /\ n = p + (n - p)
          BY <1>24, <2>2
        <4>. QED  BY <4>1
      <3>2. spot[k] \in D /\ form[p + k] = fields[spot[k]]
        BY <1>24, <1>27
      <3>. QED  BY <3>1, <3>2
    <2>. QED  BY <1>24, <2>1, <2>2
  <1>30. ASSUME NEW x \in D PROVE \E n \in DOMAIN form : form[n] = fields[x]
    <2>1. CASE x \in top
      <3>1. PICK n \in DOMAIN head : place[top][n] = x
        BY <1>22, <2>1
      <3>2. form[n] = head[n] /\ head[n] = fields[x]
        BY <1>22, <1>24, <3>1
      <3>3. n \in DOMAIN form
        BY <1>24, <3>1
      <3>. QED  BY <3>2, <3>3
    <2>2. CASE x \notin top
      <3>1. x \in block[x] /\ block[x] \in SUBSET Nat
        BY <1>2, <1>5, <1>11, <2>2
      <3>2. PICK i \in block[x] : \A j \in block[x] : i <= j
        BY <3>1, LeastOf
      <3>3. i \in D \ top /\ fields[i][1] = fields[x][1] /\ block[i] = block[x]
        BY <1>5, <3>2
      <3>4. i \in first
        BY <1>6, <3>2, <3>3
      <3>5. PICK k \in DOMAIN keys : keys[k] = i
        BY <1>12, <3>4
      <3>6. PICK S \in SUBSET D : S = block[i]
        BY <1>11, <3>3
      <3>7. PICK e \in DOMAIN group[S] : place[S][e] = x
        BY <1>10, <3>1, <3>3, <3>6
      <3>8. lists[k] = group[S]
        BY <1>14, <3>5, <3>6
      <3>9. PICK n \in DOMAIN rest : turns[n] = <<k, e>>
        BY <1>18, <1>20, <1>21, <3>8
      <3>10. rest[n] = group[S][e] /\ group[S][e] = fields[x]
        <4>1. rest[n] = lists[k][e]
          BY <1>20, <3>9
        <4>2. group[S][e] = fields[place[S][e]]
          BY <1>10
        <4>. QED  BY <3>7, <3>8, <4>1, <4>2
      <3>11. form[p + n] = fields[x] /\ p + n \in DOMAIN form
        BY <1>24, <3>10
      <3>. QED  BY <3>11
    <2>. QED  BY <2>1, <2>2
  <1>31. ASSUME NEW m \in DOMAIN rest, NEW n \in DOMAIN rest, m < n
         PROVE  Follows(fields, spot[m], spot[n], overrides)
    <2>1. PICK k \in DOMAIN keys : \E e \in DOMAIN group[block[keys[k]]] :
             /\ turns[m] = <<k, e>> /\ spot[m] = place[block[keys[k]]][e]
             /\ spot[m] \in block[keys[k]] /\ rest[m] = fields[spot[m]]
      BY <1>26
    <2>2. PICK e \in DOMAIN group[block[keys[k]]] :
             /\ turns[m] = <<k, e>> /\ spot[m] = place[block[keys[k]]][e]
             /\ spot[m] \in block[keys[k]]
      BY <2>1
    <2>3. PICK l \in DOMAIN keys : \E f \in DOMAIN group[block[keys[l]]] :
             /\ turns[n] = <<l, f>> /\ spot[n] = place[block[keys[l]]][f]
             /\ spot[n] \in block[keys[l]] /\ rest[n] = fields[spot[n]]
      BY <1>26
    <2>4. PICK f \in DOMAIN group[block[keys[l]]] :
             /\ turns[n] = <<l, f>> /\ spot[n] = place[block[keys[l]]][f]
             /\ spot[n] \in block[keys[l]]
      BY <2>3
    <2>5. Earlier(turns[m], turns[n])
      BY <1>20, <1>31, LexicalSays
    <2>6. k < l \/ (k = l /\ e < f)
      BY <2>2, <2>4, <2>5 DEF Earlier
    <2>7. PICK x, y : x = spot[m] /\ y = spot[n]
      OBVIOUS
    <2>8. PICK i, j : i = keys[k] /\ j = keys[l]
      OBVIOUS
    <2>9. /\ i \in first /\ j \in first /\ i \in D /\ j \in D
          /\ x \in block[i] /\ y \in block[j]
      BY <1>13, <2>2, <2>4, <2>7, <2>8
    <2>10. /\ x \in D /\ y \in D /\ fields[x][1] = fields[i][1] /\ fields[y][1] = fields[j][1]
           /\ Len(fields[x]) = 2 /\ Len(fields[y]) = 2
      BY <1>5, <1>27, <2>7, <2>9
    <2>11. CASE k = l /\ e < f
      <3>1. fields[x][1] = fields[y][1]
        BY <2>8, <2>10, <2>11
      <3>2. PICK S \in SUBSET D : S = block[keys[k]]
        BY <1>13
      <3>3. Sooner(fields, x, y, overrides)
        BY <1>10, <2>2, <2>4, <2>7, <2>11, <3>2
      <3>. QED  BY <2>7, <2>10, <3>1, <3>3 DEF Follows
    <2>12. CASE k < l
      <3>1. i < j
        BY <1>12, <2>8, <2>12
      <3>2. \A z \in block[i] : i <= z
        BY <1>6, <2>9
      <3>3. \A z \in block[j] : j <= z
        BY <1>6, <2>9
      <3>4. fields[i][1] # fields[j][1]
        <4>1. i \in D \ top /\ j \in D \ top /\ i \in Nat /\ j \in Nat
          BY <1>2, <1>6, <2>9
        <4>2. ASSUME fields[i][1] = fields[j][1] PROVE FALSE
          <5>1. i \in block[j]
            BY <1>5, <4>1, <4>2
          <5>2. j <= i
            BY <3>3, <5>1
          <5>. QED  BY <3>1, <4>1, <5>2
        <4>. QED  BY <4>2
      <3>5. x \in Nat /\ y \in Nat /\ i \in Nat /\ j \in Nat
        BY <1>2, <2>9, <2>10
      <3>6. i <= x /\ j <= y
        BY <2>9, <3>2, <3>3
      <3>7. x < y
        <4>1. ASSUME y <= x PROVE FALSE
          <5>1. i <= y
            BY <3>1, <3>5, <3>6
          <5>2. fields[y][1] = fields[i][1]
            BY <1>2, <2>9, <2>10, <4>1, <5>1
          <5>. QED  BY <2>10, <3>4, <5>2
        <4>. QED  BY <3>5, <4>1
      <3>8. fields[x][1] # fields[y][1]
        BY <2>10, <3>4
      <3>. QED  BY <2>7, <2>10, <3>7, <3>8 DEF Follows
    <2>. QED  BY <2>6, <2>11, <2>12
  <1>32. ASSUME NEW m \in DOMAIN form, NEW n \in DOMAIN form, m < n
         PROVE  \E x, y \in D :
                  form[m] = fields[x] /\ form[n] = fields[y] /\ Follows(fields, x, y, overrides)
    <2>1. m \in Nat /\ n \in Nat /\ 1 <= m /\ n <= p + q
      BY <1>24
    <2>2. CASE n <= p
      <3>1. m \in DOMAIN head /\ n \in DOMAIN head
        BY <1>24, <1>32, <2>1, <2>2
      <3>2. PICK x, y : x = place[top][m] /\ y = place[top][n]
        OBVIOUS
      <3>3. /\ x \in D /\ y \in D /\ form[m] = fields[x] /\ form[n] = fields[y]
            /\ Len(fields[x]) = 1 /\ Len(fields[y]) = 1
        BY <1>24, <1>28, <3>1, <3>2
      <3>4. Sooner(fields, x, y, overrides)
        BY <1>22, <1>32, <3>1, <3>2
      <3>5. Follows(fields, x, y, overrides)
        BY <3>3, <3>4 DEF Follows
      <3>. QED  BY <3>3, <3>5
    <2>3. CASE m <= p /\ p < n
      <3>1. m \in DOMAIN head /\ n - p \in DOMAIN rest /\ p + (n - p) = n
        BY <1>24, <2>1, <2>3
      <3>2. PICK x, y : x = place[top][m] /\ y = spot[n - p]
        OBVIOUS
      <3>3. /\ x \in D /\ y \in D /\ form[m] = fields[x] /\ form[n] = fields[y]
            /\ Len(fields[x]) = 1 /\ Len(fields[y]) = 2
        BY <1>24, <1>27, <1>28, <3>1, <3>2
      <3>4. Follows(fields, x, y, overrides)
        BY <3>3 DEF Follows
      <3>. QED  BY <3>3, <3>4
    <2>4. CASE p < m
      <3>1. PICK a, b : a = m - p /\ b = n - p
        OBVIOUS
      <3>2. /\ a \in DOMAIN rest /\ b \in DOMAIN rest /\ p + a = m /\ p + b = n /\ a < b
        BY <1>24, <1>32, <2>1, <2>4, <3>1
      <3>3. /\ spot[a] \in D /\ spot[b] \in D /\ form[m] = fields[spot[a]] /\ form[n] = fields[spot[b]]
        BY <1>24, <1>27, <3>2
      <3>4. Follows(fields, spot[a], spot[b], overrides)
        BY <1>31, <3>2
      <3>. QED  BY <3>3, <3>4
    <2>. QED  BY <1>24, <1>32, <2>1, <2>2, <2>3, <2>4
  <1>. QED  BY <1>1, <1>29, <1>30, <1>32
-----------------------------------------------------------------------------
(* The form of an overlay, of the fields it leaves visible.                *)
VisiblePlaces(overrides) == {i \in DOMAIN SchemaFields : Visible(overrides, SchemaFields[i])}

LEMMA VisibleInOrder ==
  ASSUME NEW overrides, NEW fields, fields = VisibleFields(overrides),
         NEW S, S = VisiblePlaces(overrides), NEW up, up = Ascending(S)
  PROVE  /\ Walked(fields) /\ up \in [DOMAIN fields -> S]
         /\ \A x \in S : \E n \in DOMAIN fields : up[n] = x
         /\ \A m, n \in DOMAIN fields : m < n <=> up[m] < up[n]
         /\ \A n \in DOMAIN fields : fields[n] = SchemaFields[up[n]]
  <1>1. PICK T : T = Seq(STRING)
    OBVIOUS
  <1>2. SchemaFields \in Seq(T) /\ S \in SUBSET DOMAIN SchemaFields
    BY <1>1, FieldsAssumption DEF VisiblePlaces
  <1>3. fields = Picked(SchemaFields, S)
    BY DEF VisibleFields, VisiblePlaces
  <1>4. /\ fields \in Seq(T) /\ up \in [DOMAIN fields -> S]
        /\ \A x \in S : \E n \in DOMAIN fields : up[n] = x
        /\ \A m, n \in DOMAIN fields : m < n <=> up[m] < up[n]
        /\ \A n \in DOMAIN fields : fields[n] = SchemaFields[up[n]]
    BY <1>2, <1>3, PickedFrom
  <1>5. ASSUME NEW n \in DOMAIN fields
        PROVE  up[n] \in DOMAIN SchemaFields /\ up[n] \in Int /\ Len(fields[n]) \in {1, 2}
    <2>1. up[n] \in DOMAIN SchemaFields /\ up[n] \in Int /\ fields[n] = SchemaFields[up[n]]
      BY <1>2, <1>4
    <2>2. Len(SchemaFields[up[n]]) \in 1 .. 2
      BY <2>1, FieldsAssumption DEF maxNestedDepth
    <2>. QED  BY <2>1, <2>2
  <1>6. ASSUME NEW i \in DOMAIN fields, NEW j \in DOMAIN fields, fields[i][1] = fields[j][1],
               NEW k \in DOMAIN fields, i <= k, k <= j
        PROVE  fields[k][1] = fields[i][1]
    <2>1. PICK x, y, z : x = up[i] /\ y = up[j] /\ z = up[k]
      OBVIOUS
    <2>2. /\ x \in DOMAIN SchemaFields /\ y \in DOMAIN SchemaFields /\ z \in DOMAIN SchemaFields
          /\ x \in Int /\ y \in Int /\ z \in Int
      BY <1>5, <2>1
    <2>3. i \in Int /\ j \in Int /\ k \in Int
      BY <1>4
    <2>4. ~(z < x) /\ ~(y < z)
      BY <1>4, <1>6, <2>1, <2>3
    <2>5. z \in x .. y
      BY <2>2, <2>4
    <2>6. SchemaFields[x][1] = SchemaFields[y][1]
      BY <1>4, <1>6, <2>1
    <2>7. SchemaFields[z][1] = SchemaFields[x][1]
      BY <2>2, <2>5, <2>6, FieldsAssumption
    <2>. QED  BY <1>4, <2>1, <2>7
  <1>7. Walked(fields)
    BY <1>1, <1>4, <1>5, <1>6 DEF Walked
  <1>. QED  BY <1>4, <1>7

(* Sorted as the numbers say, and by place where they say nothing.         *)
LEMMA SoonerPrecedes ==
  ASSUME NEW fields, NEW x \in Int, NEW y \in Int, NEW overrides, x < y \/ y < x,
         NEW left, left = OrderFor(overrides, fields[x]), left \in Numbers,
         NEW right, right = OrderFor(overrides, fields[y]), right \in Numbers,
         Sooner(fields, x, y, overrides)
  PROVE  IF left = right THEN x < y ELSE right = {} \/ \E m \in left, n \in right : m < n
  <1>1. left \in SUBSET Int /\ right \in SUBSET Int
        /\ (\A m, n \in left : m = n) /\ (\A m, n \in right : m = n)
    BY DEF Numbers
  <1>2. \/ left # {} /\ right = {}
        \/ \E m \in left, n \in right : m < n
        \/ /\ ~(right # {} /\ left = {}) /\ ~(\E m \in right, n \in left : m < n)
           /\ x < y
    BY DEF Sooner, Ordered
  <1>3. CASE left # {} /\ right = {}
    BY <1>3
  <1>4. CASE \E m \in left, n \in right : m < n
    <2>1. left # right
      BY <1>1, <1>4
    <2>. QED  BY <1>4, <2>1
  <1>5. CASE /\ ~(right # {} /\ left = {}) /\ ~(\E m \in right, n \in left : m < n)
             /\ x < y
    <2>1. CASE left = right
      BY <1>5, <2>1
    <2>2. CASE left # right /\ right # {}
      <3>1. PICK m \in left, n \in right : TRUE
        BY <1>5, <2>2
      <3>2. left = {m} /\ right = {n}
        BY <1>1, <3>1
      <3>3. m # n /\ ~(n < m) /\ m \in Int /\ n \in Int
        BY <1>1, <1>5, <2>2, <3>1, <3>2
      <3>4. m < n
        BY <3>3
      <3>. QED  BY <2>2, <3>1, <3>4
    <2>3. CASE left # right /\ right = {}
      BY <2>3
    <2>. QED  BY <2>1, <2>2, <2>3
  <1>. QED  BY <1>2, <1>3, <1>4, <1>5

LEMMA FormOfOverlay ==
  ASSUME NEW kind, HasKind(kind), NEW overlay \in Seq(OverlayDefs), shown = Form(kind, overlay)
  PROVE  FormFollowsOverlay
  <1>. DEFINE hides(path) == \E entry \in LastEntry(shown, path) : entry.hidden
              number(path) == UNION {entry.order : entry \in LastEntry(shown, path)}
              place(path) == CHOOSE i \in DOMAIN SchemaFields : SchemaFields[i] = path
              precedes(p, q) ==
                IF Len(p) # Len(q) THEN Len(p) < Len(q)
                ELSE IF (Len(p) > 1 /\ p[1] # q[1]) \/ number(p) = number(q) THEN place(p) < place(q)
                ELSE number(q) = {} \/ \E m \in number(p), n \in number(q) : m < n
  <1>1. PICK overrides : overrides = resolveFormOverrides(overlay, kind)
    OBVIOUS
  <1>2. PICK fields : fields = VisibleFields(overrides)
    OBVIOUS
  <1>3. PICK list : list = GroupedFields(fields, overrides)
    OBVIOUS
  <1>4. shown = [fields |-> list, kind |-> kind, overlay |-> overlay] /\ shown.fields = list
    BY <1>1, <1>2, <1>3 DEF Form
  <1>5. ASSUME NEW path, path # <<>>
        PROVE  /\ path \in DOMAIN overrides =>
                    LastEntry(shown, path) = {overrides[path]} /\ overrides[path] \in Entries
               /\ path \notin DOMAIN overrides => LastEntry(shown, path) = {}
    <2>1. PICK form : form = shown
      OBVIOUS
    <2>. QED  BY <1>1, <1>4, <1>5, <2>1, LastWins
  <1>6. ASSUME NEW path, path # <<>>
        PROVE  /\ number(path) = OrderFor(overrides, path) /\ number(path) \in Numbers
               /\ hides(path) <=> IsHidden(overrides, path)
    <2>1. CASE path \in DOMAIN overrides
      <3>1. LastEntry(shown, path) = {overrides[path]} /\ overrides[path] \in Entries
        BY <1>5, <1>6, <2>1
      <3>2. number(path) = overrides[path].order /\ (hides(path) <=> overrides[path].hidden)
        BY <3>1
      <3>3. overrides[path].order \in Numbers
        BY <3>1 DEF Entries
      <3>. QED  BY <2>1, <3>2, <3>3 DEF OrderFor, IsHidden
    <2>2. CASE path \notin DOMAIN overrides
      <3>1. LastEntry(shown, path) = {}
        BY <1>5, <1>6, <2>2
      <3>2. number(path) = {} /\ ~hides(path)
        BY <3>1
      <3>3. {} \in Numbers
        BY DEF Numbers
      <3>. QED  BY <2>2, <3>2, <3>3 DEF OrderFor, IsHidden
    <2>. QED  BY <2>1, <2>2
  <1>. HIDE DEF hides, number
  <1>7. PICK S : S = VisiblePlaces(overrides)
    OBVIOUS
  <1>8. PICK up : up = Ascending(S)
    OBVIOUS
  <1>9. /\ Walked(fields) /\ up \in [DOMAIN fields -> S]
        /\ \A x \in S : \E n \in DOMAIN fields : up[n] = x
        /\ \A m, n \in DOMAIN fields : m < n <=> up[m] < up[n]
        /\ \A n \in DOMAIN fields : fields[n] = SchemaFields[up[n]]
    BY <1>2, <1>7, <1>8, VisibleInOrder
  <1>10. ASSUME NEW i \in DOMAIN SchemaFields
         PROVE  /\ SchemaFields[i] \in Seq(STRING) /\ SchemaFields[i] # <<>>
                /\ place(SchemaFields[i]) = i
    <2>1. SchemaFields[i] \in Seq(STRING) /\ Len(SchemaFields[i]) \in 1 .. 2
      BY FieldsAssumption DEF maxNestedDepth
    <2>2. \A j \in DOMAIN SchemaFields : SchemaFields[j] = SchemaFields[i] => j = i
      BY FieldsAssumption
    <2>3. SchemaFields[i] # <<>>
      <3>1. PICK path : path = SchemaFields[i]
        OBVIOUS
      <3>2. Len(path) \in 1 .. 2
        BY <2>1, <3>1
      <3>3. Len(path) # 0
        BY <3>2
      <3>4. Len(<<>>) = 0
        OBVIOUS
      <3>. QED  BY <3>1, <3>3, <3>4
    <2>4. place(SchemaFields[i]) = i
      BY <2>2
    <2>. QED  BY <2>1, <2>3, <2>4
  <1>11. \A n \in DOMAIN fields : /\ up[n] \in DOMAIN SchemaFields /\ up[n] \in Int /\ n \in Int
                                  /\ fields[n] # <<>> /\ place(fields[n]) = up[n]
    <2>1. \A n \in DOMAIN fields : up[n] \in DOMAIN SchemaFields /\ fields[n] = SchemaFields[up[n]]
      BY <1>7, <1>9 DEF VisiblePlaces
    <2>2. DOMAIN SchemaFields \in SUBSET Int /\ DOMAIN fields \in SUBSET Int
      BY <1>9, FieldsAssumption DEF Walked
    <2>. HIDE DEF place
    <2>. QED  BY <1>10, <2>1, <2>2
  <1>12. Numbered(fields, overrides)
    BY <1>6, <1>11 DEF Numbered
  <1>13. /\ \A x \in DOMAIN fields : \E n \in DOMAIN list : list[n] = fields[x]
         /\ \A n \in DOMAIN list : \E x \in DOMAIN fields : list[n] = fields[x]
         /\ \A m, n \in DOMAIN list : m < n => \E x, y \in DOMAIN fields :
              list[m] = fields[x] /\ list[n] = fields[y] /\ Follows(fields, x, y, overrides)
    BY <1>3, <1>9, <1>12, FormInOrder
  <1>14. ASSUME NEW i \in DOMAIN SchemaFields
         PROVE  i \in S <=> \A n \in DOMAIN SchemaFields[i] : ~hides(SubSeq(SchemaFields[i], 1, n))
    <2>1. PICK path : path = SchemaFields[i]
      OBVIOUS
    <2>2. \A n \in DOMAIN path : SubSeq(path, 1, n) # <<>>
      <3>1. path \in Seq(STRING)
        BY <1>10, <2>1
      <3>2. ASSUME NEW n \in DOMAIN path PROVE Len(SubSeq(path, 1, n)) = n /\ n # 0
        BY <3>1
      <3>3. Len(<<>>) = 0
        OBVIOUS
      <3>. QED  BY <3>2, <3>3
    <2>3. \A n \in DOMAIN path : hides(SubSeq(path, 1, n)) <=> IsHidden(overrides, SubSeq(path, 1, n))
      BY <1>6, <2>2
    <2>4. i \in S <=> Visible(overrides, path)
      BY <1>7, <2>1 DEF VisiblePlaces
    <2>. QED  BY <2>1, <2>3, <2>4 DEF Visible
  <1>15. Range(list) = {p \in Range(SchemaFields) : \A n \in DOMAIN p : ~hides(SubSeq(p, 1, n))}
    <2>1. ASSUME NEW p \in Range(list)
          PROVE  p \in Range(SchemaFields) /\ \A n \in DOMAIN p : ~hides(SubSeq(p, 1, n))
      <3>1. PICK n \in DOMAIN list : list[n] = p
        BY <2>1 DEF Range
      <3>2. PICK x \in DOMAIN fields : p = fields[x]
        BY <1>13, <3>1
      <3>3. p = SchemaFields[up[x]] /\ up[x] \in S /\ up[x] \in DOMAIN SchemaFields
        BY <1>9, <1>11, <3>2
      <3>. QED  BY <1>14, <3>3 DEF Range
    <2>2. ASSUME NEW p \in Range(SchemaFields), \A n \in DOMAIN p : ~hides(SubSeq(p, 1, n))
          PROVE  p \in Range(list)
      <3>1. PICK i \in DOMAIN SchemaFields : p = SchemaFields[i]
        BY DEF Range
      <3>2. i \in S
        BY <1>14, <2>2, <3>1
      <3>3. PICK x \in DOMAIN fields : up[x] = i
        BY <1>9, <3>2
      <3>4. PICK n \in DOMAIN list : list[n] = fields[x]
        BY <1>13
      <3>. QED  BY <1>9, <3>1, <3>3, <3>4 DEF Range
    <2>. QED  BY <2>1, <2>2
  <1>16. ASSUME NEW x \in DOMAIN fields, NEW y \in DOMAIN fields, Follows(fields, x, y, overrides)
         PROVE  precedes(fields[x], fields[y])
    <2>1. PICK p, q : p = fields[x] /\ q = fields[y]
      OBVIOUS
    <2>2. /\ place(p) = up[x] /\ place(q) = up[y] /\ p # <<>> /\ q # <<>> /\ x \in Int /\ y \in Int
          /\ x < y <=> up[x] < up[y]
      <3>. HIDE DEF place
      <3>. QED  BY <1>9, <1>11, <2>1
    <2>3. /\ number(p) = OrderFor(overrides, fields[x]) /\ number(p) \in Numbers
          /\ number(q) = OrderFor(overrides, fields[y]) /\ number(q) \in Numbers
      BY <1>6, <2>1, <2>2
    <2>. HIDE DEF place
    <2>4. CASE Len(p) # Len(q)
      BY <1>16, <2>1, <2>4 DEF Follows
    <2>5. CASE Len(p) = Len(q) /\ Len(p) > 1 /\ p[1] # q[1]
      BY <1>16, <2>1, <2>2, <2>5 DEF Follows
    <2>6. CASE Len(p) = Len(q) /\ ~(Len(p) > 1 /\ p[1] # q[1])
      <3>1. Sooner(fields, x, y, overrides)
        BY <1>16, <2>1, <2>6 DEF Follows
      <3>2. x < y \/ y < x
        <4>1. ASSUME x = y PROVE FALSE
          <5>1. PICK left : left = OrderFor(overrides, fields[x])
            OBVIOUS
          <5>2. left \in Numbers
            BY <2>3, <5>1
          <5>3. \E m, n \in left : m < n
            BY <2>2, <3>1, <4>1, <5>1 DEF Sooner, Ordered
          <5>. QED  BY <5>2, <5>3 DEF Numbers
        <4>. QED  BY <2>2, <4>1
      <3>3. PICK left, right : left = number(p) /\ right = number(q)
        OBVIOUS
      <3>4. IF left = right THEN x < y ELSE right = {} \/ \E m \in left, n \in right : m < n
        BY <2>2, <2>3, <3>1, <3>2, <3>3, SoonerPrecedes
      <3>. QED  BY <2>1, <2>2, <2>6, <3>3, <3>4
    <2>. QED  BY <2>4, <2>5, <2>6
  <1>17. \A i, j \in DOMAIN list : i < j => precedes(list[i], list[j])
    <2>1. SUFFICES ASSUME NEW i \in DOMAIN list, NEW j \in DOMAIN list, i < j
                   PROVE  precedes(list[i], list[j])
      OBVIOUS
    <2>2. PICK x, y \in DOMAIN fields :
            list[i] = fields[x] /\ list[j] = fields[y] /\ Follows(fields, x, y, overrides)
      BY <1>13, <2>1
    <2>3. precedes(fields[x], fields[y])
      BY <1>16, <2>2
    <2>. HIDE DEF precedes
    <2>. QED  BY <2>2, <2>3
  <1>. HIDE DEF precedes
  <1>18. /\ Range(shown.fields) = {p \in Range(SchemaFields) : \A n \in DOMAIN p : ~hides(SubSeq(p, 1, n))}
         /\ \A i, j \in DOMAIN shown.fields : i < j => precedes(shown.fields[i], shown.fields[j])
    BY <1>4, <1>15, <1>17
  <1>. QED  BY <1>18 DEF FormFollowsOverlay, hides, number, precedes, place

(* A form on the page is one of a kind that was asked for.                 *)
ShownOK ==
  shown = NoForm \/ \E kind \in AskedKinds, overlay \in Overlays \cup {<<>>} : shown = Form(kind, overlay)

LEMMA KindsAsked == \A kind \in AskedKinds : HasKind(kind)
  BY OverlaysAssumption, Zenon DEF HasKind

LEMMA OverlaysListed == Overlays \cup {<<>>} \subseteq Seq(OverlayDefs)
  <1>1. Overlays \subseteq Seq(OverlayDefs)
    BY OverlaysAssumption DEF OverlayDefs
  <1>2. <<>> \in Seq(OverlayDefs)
    OBVIOUS
  <1>. QED  BY <1>1, <1>2

LEMMA ShownStep == SchemasInv /\ ShownOK /\ [SchemasNext]_schemaVars => ShownOK'
  <1>. SUFFICES ASSUME SchemasInv, ShownOK, [SchemasNext]_schemaVars PROVE ShownOK'
    OBVIOUS
  <1>1. ASSUME NEW a \in Askers, RenderForm(a) PROVE ShownOK'
    <2>1. asks[a].kind \in AskedKinds
      BY <1>1 DEF RenderForm, SchemasInv, AsksOK, AskOK
    <2>2. PICK overlay \in Overlays \cup {<<>>} : shown' = Form(asks[a].kind, overlay)
      BY <1>1 DEF RenderForm
    <2>3. PICK kind \in AskedKinds : shown' = Form(kind, overlay)
      BY <2>1, <2>2
    <2>. QED  BY <2>3 DEF ShownOK
  <1>2. CASE UNCHANGED schemaVars
    BY <1>2 DEF schemaVars, ShownOK
  <1>3. CASE shown' = NoForm
    BY <1>3 DEF ShownOK
  <1>4. ASSUME NEW a \in Askers, \/ Ask(a) \/ GetByName(a) \/ GetFails(a) \/ FindByKind(a)
                                 \/ SchemaNotFound(a) \/ CacheSet(a) \/ RenderYAML(a)
        PROVE  shown' = NoForm
    BY <1>4 DEF Ask, GetByName, GetFails, FindByKind, SchemaNotFound, CacheSet, RenderYAML, Moves
  <1>5. DefinitionChanges \/ TimePasses => shown' = NoForm
    BY DEF DefinitionChanges, TimePasses
  <1>. QED  BY <1>1, <1>2, <1>3, <1>4, <1>5 DEF SchemasNext

LEMMA ShownFollows == ShownOK => FormFollowsOverlay
  <1>1. CASE shown = NoForm
    BY <1>1 DEF FormFollowsOverlay
  <1>2. ASSUME NEW kind \in AskedKinds, NEW overlay \in Overlays \cup {<<>>}, shown = Form(kind, overlay)
        PROVE  FormFollowsOverlay
    <2>1. HasKind(kind) /\ overlay \in Seq(OverlayDefs)
      BY KindsAsked, OverlaysListed
    <2>. QED  BY <1>2, <2>1, FormOfOverlay
  <1>. QED  BY <1>1, <1>2 DEF ShownOK

(* Whatever the fields of the schema and the FormDefinitions are, a form   *)
(* has each field once but those hidden from it, in the order that the     *)
(* last entry for each one asks for (formdefinition_merge.go, fragment.go).*)
THEOREM FormsFollow == SchemasSpec => []FormFollowsOverlay
  <1>1. SchemasInit => ShownOK
    BY DEF SchemasInit, ShownOK
  <1>2. SchemasSpec => []ShownOK
    BY <1>1, ShownStep, SchemasInvariant, PTL DEF SchemasSpec
  <1>. QED  BY <1>2, ShownFollows, PTL

-----------------------------------------------------------------------------
(* Listings.  A list of a finite set has all of it, each once.             *)
LEMMA ListedAll ==
  ASSUME NEW list, NEW S, IsFiniteSet(S), NEW q \in InOrderOf(list, S)
  PROVE  q \in Seq(S) /\ IsInjective(q) /\ ToSet(q) = S
  <1>1. PICK D : D = 1 .. Cardinality(S)
    OBVIOUS
  <1>2. Cardinality(S) \in Nat
    BY FS_CardinalityType
  <1>3. IsFiniteSet(D) /\ Cardinality(D) = Cardinality(S)
    <2>1. IsFiniteSet(D) /\ Cardinality(D) = IF 1 > Cardinality(S) THEN 0 ELSE Cardinality(S) - 1 + 1
      BY <1>1, <1>2, FS_Interval
    <2>. QED  BY <1>2, <2>1
  <1>4. q \in [D -> S] /\ \A i, j \in D : i # j => q[i] # q[j]
    BY <1>1 DEF InOrderOf, SetToSeqs
  <1>5. q \in Injection(D, S) /\ IsInjective(q)
    BY <1>4 DEF Injection, IsInjective
  <1>6. q \in Surjection(D, S)
    BY <1>3, <1>5, FS_Injection
  <1>7. \A s \in S : \E i \in D : q[i] = s
    BY <1>6 DEF Surjection
  <1>8. DOMAIN q = D /\ q \in Seq(S)
    BY <1>1, <1>2, <1>4
  <1>. QED  BY <1>4, <1>5, <1>7, <1>8 DEF ToSet

(* Two lists without repetition, which share nothing, have none together.  *)
LEMMA JoinedApart ==
  ASSUME NEW A, NEW p \in Seq(A), NEW q \in Seq(A), IsInjective(p), IsInjective(q),
         \A i \in DOMAIN p, j \in DOMAIN q : p[i] # q[j]
  PROVE  IsInjective(p \o q)
  <1>1. DOMAIN (p \o q) = 1 .. Len(p) + Len(q)
    OBVIOUS
  <1>2. /\ DOMAIN p = 1 .. Len(p) /\ DOMAIN q = 1 .. Len(q)
        /\ Len(p) \in Nat /\ Len(q) \in Nat
    OBVIOUS
  <1>3. \A i \in 1 .. Len(p) : (p \o q)[i] = p[i]
    OBVIOUS
  <1>4. \A i \in 1 .. Len(p) + Len(q) : i \notin 1 .. Len(p) =>
          i - Len(p) \in 1 .. Len(q) /\ (p \o q)[i] = q[i - Len(p)]
    BY <1>2
  <1>5. ASSUME NEW i \in 1 .. Len(p) + Len(q), NEW j \in 1 .. Len(p) + Len(q),
               (p \o q)[i] = (p \o q)[j]
        PROVE  i = j
    <2>1. CASE i \in 1 .. Len(p) /\ j \in 1 .. Len(p)
      BY <1>2, <1>3, <1>5, <2>1 DEF IsInjective
    <2>2. CASE i \in 1 .. Len(p) /\ j \notin 1 .. Len(p)
      BY <1>2, <1>3, <1>4, <1>5, <2>2
    <2>3. CASE i \notin 1 .. Len(p) /\ j \in 1 .. Len(p)
      BY <1>2, <1>3, <1>4, <1>5, <2>3
    <2>4. CASE i \notin 1 .. Len(p) /\ j \notin 1 .. Len(p)
      <3>1. q[i - Len(p)] = q[j - Len(p)]
        BY <1>4, <1>5, <2>4
      <3>2. i - Len(p) = j - Len(p)
        BY <1>2, <1>4, <2>4, <3>1 DEF IsInjective
      <3>. QED  BY <1>2, <3>2
    <2>. QED  BY <2>1, <2>2, <2>3, <2>4
  <1>. QED  BY <1>1, <1>5 DEF IsInjective

LEMMA JoinedSet ==
  ASSUME NEW A, NEW p \in Seq(A), NEW q \in Seq(A)
  PROVE  p \o q \in Seq(A) /\ ToSet(p \o q) = ToSet(p) \cup ToSet(q)
  <1>1. /\ DOMAIN (p \o q) = 1 .. Len(p) + Len(q)
        /\ DOMAIN p = 1 .. Len(p) /\ DOMAIN q = 1 .. Len(q)
        /\ Len(p) \in Nat /\ Len(q) \in Nat
    OBVIOUS
  <1>2. \A i \in 1 .. Len(p) : i \in 1 .. Len(p) + Len(q) /\ (p \o q)[i] = p[i]
    BY <1>1
  <1>3. \A i \in 1 .. Len(q) : i + Len(p) \in 1 .. Len(p) + Len(q) /\ (p \o q)[i + Len(p)] = q[i]
    BY <1>1
  <1>4. \A i \in 1 .. Len(p) + Len(q) : i \notin 1 .. Len(p) =>
          i - Len(p) \in 1 .. Len(q) /\ (p \o q)[i] = q[i - Len(p)]
    BY <1>1
  <1>5. ToSet(p) \cup ToSet(q) \subseteq ToSet(p \o q)
    BY <1>1, <1>2, <1>3 DEF ToSet
  <1>6. ToSet(p \o q) \subseteq ToSet(p) \cup ToSet(q)
    BY <1>1, <1>2, <1>4 DEF ToSet
  <1>. QED  BY <1>5, <1>6

Pages == {"", "palette", "dashboard", "overview"}

(* What a list was asked of, and what it has of it.                        *)
Placed == [namespace : {LivesIn[t] : t \in ListableTenants} \cup {Workload[t] : t \in ListableTenants},
           settled : BOOLEAN]

Distinct(places) ==
  (\A i \in DOMAIN places : places[i].settled) =>
    \A i, j \in DOMAIN places : places[i].namespace = places[j].namespace => i = j

UnderOK(under, places, next, ever) ==
  /\ DOMAIN under \subseteq 1 .. next
  /\ \A i \in DOMAIN under :
       /\ under[i].done \in BOOLEAN
       /\ under[i].rows \in Seq(ListableApps) /\ IsInjective(under[i].rows)
       /\ \A a \in ToSet(under[i].rows) : a \in ever /\ a.tenant = places[i].namespace

(* Every row is of a list that has been appended.                          *)
RowsOK(rows, under, places, next, ever) ==
  /\ rows \in Seq(ListableApps)
  /\ \A a \in ToSet(rows) :
       /\ a \in ever
       /\ \E i \in 1 .. next : i \notin DOMAIN under /\ a.tenant = places[i].namespace
  /\ (\A i \in DOMAIN places : places[i].settled) => IsInjective(rows)

(* A list that did not fail and was not cut has what was there throughout, *)
(* and so have the rows once it is appended.                               *)
AllOf(always, rows, under, places, next, left) ==
  \A i \in 1 .. next, a \in always :
    a.tenant = places[i].namespace /\ places[i].namespace \notin left =>
      IF i \in DOMAIN under THEN under[i].done => a \in ToSet(under[i].rows)
                            ELSE a \in ToSet(rows)

LookShape(v) ==
  /\ v = [phase |-> v.phase, page |-> v.page, tenants |-> v.tenants, next |-> v.next,
          under |-> v.under, rows |-> v.rows, cut |-> v.cut, missed |-> v.missed, gone |-> v.gone]
  /\ v.phase \in {"none", "tenants", "apps", "over"}
  /\ v.page \in Pages /\ v.gone \in BOOLEAN
  /\ v.tenants \in Seq(Placed) /\ v.next \in Nat /\ v.next <= Len(v.tenants)

PhaseOK(v) ==
  /\ v.phase \in {"none", "tenants"} => v.next = 0
  /\ v.phase = "none" => ~v.gone
  /\ v.phase # "apps" => DOMAIN v.under = {}
  /\ v.phase = "over" /\ ~v.gone => v.next = Len(v.tenants)
  /\ Cardinality(DOMAIN v.under) <= paletteFanoutConcurrency

GatherOK(v, ever, always) ==
  /\ LookShape(v) /\ PhaseOK(v) /\ Distinct(v.tenants)
  /\ UnderOK(v.under, v.tenants, v.next, ever)
  /\ RowsOK(v.rows, v.under, v.tenants, v.next, ever)
  /\ AllOf(always, v.rows, v.under, v.tenants, v.next, v.missed \cup v.cut)

ShiftsOK ==
  /\ settled \subseteq crs /\ crs \subseteq ListableTenants /\ there \subseteq ListableApps
  /\ look.phase \in {"tenants", "apps"} => there \subseteq lived.ever /\ lived.always \subseteq there

ListingsInv == ShiftsOK /\ GatherOK(look, lived.ever, lived.always)

(* There are finitely many applications and tenants: they can be listed.   *)
LEMMA ListableFinite == IsFiniteSet(ListableApps) /\ IsFiniteSet(ListableTenants)
  <1>1. ASSUME NEW A, NEW s \in Seq(A)
        PROVE  IsFiniteSet(ToSet(s))
    <2>1. IsFiniteSet(DOMAIN s)
      <3>1. Len(s) \in Int /\ 1 \in Int /\ DOMAIN s = 1 .. Len(s)
        OBVIOUS
      <3>. QED  BY <3>1, FS_Interval
    <2>2. s \in Surjection(DOMAIN s, ToSet(s))
      BY DEF Surjection, ToSet
    <2>. QED  BY <2>1, <2>2, FS_Surjection
  <1>. QED  BY <1>1, ListingsAssumption DEF ListableApps, ListableTenants

(* A step of the request, which leaves the cluster as it is.               *)
LEMMA LookStep ==
  ASSUME ListingsInv, NEW new, LookTurns(new), GatherOK(new, lived.ever, lived.always),
         new.phase \in {"tenants", "apps"} => look.phase \in {"tenants", "apps"}
  PROVE  ListingsInv'
  <1>1. /\ look' = new
        /\ crs' = crs /\ settled' = settled /\ there' = there /\ lived' = lived
    BY DEF LookTurns
  <1>2. ShiftsOK'
    BY <1>1 DEF ListingsInv, ShiftsOK
  <1>. QED  BY <1>1, <1>2 DEF ListingsInv

LEMMA NothingGathered ==
  ASSUME NEW v, LookShape(v), PhaseOK(v), Distinct(v.tenants), DOMAIN v.under = {},
         v.next = 0, v.rows = <<>>, NEW ever, NEW always
  PROVE  GatherOK(v, ever, always)
  <1>1. UnderOK(v.under, v.tenants, v.next, ever)
    BY DEF UnderOK
  <1>2. RowsOK(v.rows, v.under, v.tenants, v.next, ever)
    <2>1. v.rows \in Seq(ListableApps) /\ DOMAIN v.rows = {} /\ ToSet(v.rows) = {}
      BY DEF ToSet
    <2>. QED  BY <2>1 DEF RowsOK, IsInjective
  <1>3. AllOf(always, v.rows, v.under, v.tenants, v.next, v.missed \cup v.cut)
    BY DEF AllOf
  <1>. QED  BY <1>1, <1>2, <1>3 DEF GatherOK

LEMMA NoLookShape ==
  /\ NoLook.phase = "none" /\ ~NoLook.gone /\ NoLook.tenants = <<>> /\ NoLook.next = 0
  /\ DOMAIN NoLook.under = {} /\ NoLook.rows = <<>>
  /\ \A phase \in {"none", "tenants"}, page \in Pages :
       LookShape([NoLook EXCEPT !.phase = phase, !.page = page])
  /\ LookShape(NoLook) /\ PhaseOK(NoLook) /\ Distinct(NoLook.tenants)
  <1>1. paletteFanoutConcurrency \in Nat /\ Cardinality({}) = 0
    BY ListingsAssumption, FS_EmptySet
  <1>2. /\ NoLook.phase = "none" /\ ~NoLook.gone /\ NoLook.tenants = <<>> /\ NoLook.next = 0
        /\ DOMAIN NoLook.under = {} /\ NoLook.rows = <<>>
    BY DEF NoLook
  <1>3. ASSUME NEW phase \in {"none", "tenants"}, NEW page \in Pages
        PROVE  LookShape([NoLook EXCEPT !.phase = phase, !.page = page])
    <2>1. PICK v : v = [NoLook EXCEPT !.phase = phase, !.page = page]
      OBVIOUS
    <2>2. v = [phase |-> phase, page |-> page, tenants |-> <<>>, next |-> 0,
               under |-> NoLook.under, rows |-> <<>>, cut |-> {}, missed |-> {}, gone |-> FALSE]
      BY <2>1 DEF NoLook
    <2>3. /\ v.phase = phase /\ v.page = page /\ v.tenants = <<>> /\ v.next = 0
          /\ v.under = NoLook.under /\ v.rows = <<>> /\ v.cut = {} /\ v.missed = {}
      BY <2>2
    <2>4. v.tenants \in Seq(Placed) /\ Len(v.tenants) = 0
      BY <2>3
    <2>5. v = [phase |-> v.phase, page |-> v.page, tenants |-> v.tenants, next |-> v.next,
               under |-> v.under, rows |-> v.rows, cut |-> v.cut, missed |-> v.missed, gone |-> v.gone]
      BY <2>2
    <2>6. v.gone \in BOOLEAN
      BY <2>2
    <2>. QED  BY <2>1, <2>3, <2>4, <2>5, <2>6 DEF LookShape
  <1>4. NoLook.page \in Pages
    BY DEF NoLook, Pages
  <1>5. PICK v : v = [phase |-> "none", page |-> NoLook.page, tenants |-> <<>>, next |-> 0,
                      under |-> NoLook.under, rows |-> <<>>, cut |-> {}, missed |-> {}, gone |-> FALSE]
    OBVIOUS
  <1>6. LookShape(NoLook)
    <2>1. NoLook = v
      BY <1>5 DEF NoLook
    <2>2. v.phase = "none" /\ v.page \in Pages /\ v.tenants = <<>> /\ v.next = 0
      BY <1>4, <1>5
    <2>3. v.tenants \in Seq(Placed) /\ Len(v.tenants) = 0
      BY <2>2
    <2>4. v = [phase |-> v.phase, page |-> v.page, tenants |-> v.tenants, next |-> v.next,
               under |-> v.under, rows |-> v.rows, cut |-> v.cut, missed |-> v.missed, gone |-> v.gone]
      BY <1>5
    <2>5. v.gone \in BOOLEAN
      BY <1>5
    <2>6. LookShape(v)
      BY <2>2, <2>3, <2>4, <2>5 DEF LookShape
    <2>. QED  BY <2>1, <2>6
  <1>7. PhaseOK(NoLook) /\ Distinct(NoLook.tenants)
    BY <1>1, <1>2 DEF PhaseOK, Distinct
  <1>. QED  BY <1>2, <1>3, <1>6, <1>7

LEMMA ListingsInvInit == ListingsInit => ListingsInv
  <1>. SUFFICES ASSUME ListingsInit PROVE ListingsInv
    OBVIOUS
  <1>1. settled \subseteq crs /\ crs \subseteq ListableTenants /\ there \subseteq ListableApps
    BY DEF ListingsInit
  <1>. QED  BY <1>1, NoLookShape, NothingGathered DEF ListingsInit, ListingsInv, ShiftsOK

LEMMA ShiftKeeps == ListingsInv /\ ClusterShifts => ListingsInv'
  <1>. SUFFICES ASSUME ListingsInv, ClusterShifts PROVE ListingsInv'
    OBVIOUS
  <1>1. /\ settled' \subseteq crs' /\ crs' \subseteq ListableTenants /\ there' \subseteq ListableApps
    <2>1. settled \subseteq crs /\ crs \subseteq ListableTenants /\ there \subseteq ListableApps
      BY DEF ListingsInv, ShiftsOK
    <2>2. CASE AppComesOrGoes
      BY <2>1, <2>2 DEF AppComesOrGoes
    <2>3. CASE TenantComesOrGoes
      BY <2>1, <2>3 DEF TenantComesOrGoes
    <2>. QED  BY <2>2, <2>3 DEF ClusterShifts
  <1>2. /\ look' = look /\ lived.ever \subseteq lived'.ever /\ there' \subseteq lived'.ever
        /\ lived'.always \subseteq lived.always /\ lived'.always \subseteq there'
    BY DEF ClusterShifts
  <1>3. PICK v : v = look
    OBVIOUS
  <1>4. GatherOK(v, lived.ever, lived.always)
    BY <1>3 DEF ListingsInv
  <1>5. UnderOK(v.under, v.tenants, v.next, lived'.ever)
    BY <1>2, <1>4 DEF GatherOK, UnderOK
  <1>6. RowsOK(v.rows, v.under, v.tenants, v.next, lived'.ever)
    BY <1>2, <1>4 DEF GatherOK, RowsOK
  <1>7. AllOf(lived'.always, v.rows, v.under, v.tenants, v.next, v.missed \cup v.cut)
    BY <1>2, <1>4 DEF GatherOK, AllOf
  <1>8. GatherOK(v, lived'.ever, lived'.always)
    BY <1>4, <1>5, <1>6, <1>7 DEF GatherOK
  <1>. QED  BY <1>1, <1>2, <1>3, <1>8 DEF ListingsInv, ShiftsOK

LEMMA OpenKeeps == ListingsInv /\ OpenListing => ListingsInv'
  <1>. SUFFICES ASSUME ListingsInv, OpenListing PROVE ListingsInv'
    OBVIOUS
  <1>1. PICK page \in {"palette", "dashboard", "overview"} :
          look' = [NoLook EXCEPT !.phase = "tenants", !.page = page]
    BY DEF OpenListing
  <1>2. PICK new : new = [NoLook EXCEPT !.phase = "tenants", !.page = page]
    OBVIOUS
  <1>3. LookShape(new)
    <2>1. page \in Pages
      BY DEF Pages
    <2>. QED  BY <1>2, <2>1, NoLookShape
  <1>4. /\ new.phase = "tenants" /\ new.tenants = <<>> /\ new.next = 0
        /\ DOMAIN new.under = {} /\ new.rows = <<>>
    BY <1>2 DEF NoLook
  <1>5. PhaseOK(new) /\ Distinct(new.tenants)
    <2>1. Cardinality(DOMAIN new.under) = 0 /\ paletteFanoutConcurrency \in Nat
      BY <1>4, ListingsAssumption, FS_EmptySet
    <2>. QED  BY <1>4, <2>1 DEF PhaseOK, Distinct
  <1>6. GatherOK(new, lived'.ever, lived'.always)
    BY <1>3, <1>4, <1>5, NothingGathered
  <1>7. /\ lived'.ever = there /\ lived'.always = there
        /\ crs' = crs /\ settled' = settled /\ there' = there
    BY DEF OpenListing, NoHistory
  <1>8. ShiftsOK'
    BY <1>7 DEF ListingsInv, ShiftsOK
  <1>. QED  BY <1>1, <1>2, <1>6, <1>8 DEF ListingsInv

LEMMA ShutKeeps == ListingsInv /\ ShutListing => ListingsInv'
  <1>. SUFFICES ASSUME ListingsInv, ShutListing PROVE ListingsInv'
    OBVIOUS
  <1>1. look' = NoLook /\ crs' = crs /\ settled' = settled /\ there' = there
    BY DEF ShutListing
  <1>2. ShiftsOK'
    BY <1>1, NoLookShape DEF ListingsInv, ShiftsOK
  <1>3. GatherOK(NoLook, lived'.ever, lived'.always)
    BY NoLookShape, NothingGathered
  <1>. QED  BY <1>1, <1>2, <1>3 DEF ListingsInv

(* Each tenant is listed once, and no two have one namespace of their own. *)
LEMMA ListTenantsKeeps == ListingsInv /\ ListTenants => ListingsInv'
  <1>. SUFFICES ASSUME ListingsInv, ListTenants PROVE ListingsInv'
    OBVIOUS
  <1>1. PICK v : v = look
    OBVIOUS
  <1>2. LookShape(v) /\ PhaseOK(v) /\ v.phase = "tenants" /\ RowsOK(v.rows, v.under, v.tenants, v.next, lived.ever)
    BY <1>1 DEF ListingsInv, GatherOK, ListTenants
  <1>3. PICK listed \in InOrderOf(TenantCRs, crs) :
          LookTurns([v EXCEPT !.phase = "apps",
                       !.tenants = [i \in DOMAIN listed |->
                                      [namespace |-> NamespaceOf(listed[i]),
                                       settled |-> listed[i] \in settled]]])
    BY <1>1 DEF ListTenants
  <1>4. PICK places : places = [i \in DOMAIN listed |-> [namespace |-> NamespaceOf(listed[i]),
                                                           settled |-> listed[i] \in settled]]
    OBVIOUS
  <1>5. PICK new : new = [v EXCEPT !.phase = "apps", !.tenants = places]
    OBVIOUS
  <1>6. crs \subseteq ListableTenants /\ IsFiniteSet(crs)
    BY ListableFinite, FS_Subset DEF ListingsInv, ShiftsOK
  <1>7. listed \in Seq(crs) /\ IsInjective(listed)
    BY <1>3, <1>6, ListedAll
  <1>8. /\ DOMAIN listed = 1 .. Len(listed) /\ Len(listed) \in Nat
        /\ \A i \in DOMAIN listed : listed[i] \in ListableTenants
    BY <1>6, <1>7
  <1>9. \A i \in DOMAIN listed :
          /\ places[i] \in Placed /\ (places[i].settled <=> listed[i] \in settled)
          /\ places[i].namespace = NamespaceOf(listed[i])
    <2>1. ASSUME NEW i \in DOMAIN listed
          PROVE  /\ places[i] \in Placed /\ (places[i].settled <=> listed[i] \in settled)
                 /\ places[i].namespace = NamespaceOf(listed[i])
      <3>2. PICK namespace : namespace = NamespaceOf(listed[i])
        OBVIOUS
      <3>3. namespace \in {LivesIn[t] : t \in ListableTenants} \cup {Workload[t] : t \in ListableTenants}
        BY <1>8, <3>2 DEF NamespaceOf
      <3>4. places[i] = [namespace |-> NamespaceOf(listed[i]), settled |-> listed[i] \in settled]
        BY <1>4
      <3>5. places[i].settled = (listed[i] \in settled)
        BY <3>4
      <3>6. places[i] = [namespace |-> namespace, settled |-> places[i].settled]
        BY <3>2, <3>4
      <3>7. places[i].settled \in BOOLEAN
        BY <3>5
      <3>8. places[i] \in Placed
        BY <3>3, <3>6, <3>7 DEF Placed
      <3>9. places[i].settled <=> listed[i] \in settled
        BY <3>5
      <3>10. places[i].namespace = NamespaceOf(listed[i])
        BY <3>4
      <3>. QED  BY <3>8, <3>9, <3>10
    <2>. QED  BY <2>1
  <1>10. places \in Seq(Placed) /\ DOMAIN places = DOMAIN listed
    BY <1>4, <1>8, <1>9
  <1>11. Distinct(places)
    <2>1. ASSUME \A i \in DOMAIN places : places[i].settled,
                 NEW i \in DOMAIN places, NEW j \in DOMAIN places,
                 places[i].namespace = places[j].namespace
          PROVE  i = j
      <3>1. Workload[listed[i]] = Workload[listed[j]]
        BY <1>9, <1>10, <2>1 DEF NamespaceOf
      <3>2. listed[i] = listed[j]
        BY <1>8, <1>10, <3>1, ListingsAssumption
      <3>. QED  BY <1>7, <1>10, <3>2 DEF IsInjective
    <2>. QED  BY <2>1 DEF Distinct
  <1>12. /\ new = [phase |-> "apps", page |-> v.page, tenants |-> places, next |-> v.next,
                   under |-> v.under, rows |-> v.rows, cut |-> v.cut, missed |-> v.missed, gone |-> v.gone]
    BY <1>2, <1>5 DEF LookShape
  <1>13. LookShape(new) /\ PhaseOK(new)
    <2>1. v.next = 0 /\ Len(places) \in Nat
      BY <1>2, <1>10 DEF PhaseOK
    <2>2. /\ new.phase = "apps" /\ new.page = v.page /\ new.gone = v.gone /\ new.next = v.next
          /\ new.tenants = places /\ new.under = v.under
      BY <1>12
    <2>3. LookShape(new)
      <3>1. new = [phase |-> new.phase, page |-> new.page, tenants |-> new.tenants, next |-> new.next,
                   under |-> new.under, rows |-> new.rows, cut |-> new.cut, missed |-> new.missed,
                   gone |-> new.gone]
        BY <1>12
      <3>2. v.page \in Pages /\ v.gone \in BOOLEAN
        BY <1>2 DEF LookShape
      <3>. QED  BY <1>10, <2>1, <2>2, <3>1, <3>2 DEF LookShape
    <2>. QED  BY <1>2, <2>2, <2>3 DEF PhaseOK
  <1>14. new.rows = <<>>
    <2>1. v.next = 0
      BY <1>2 DEF PhaseOK
    <2>2. ToSet(v.rows) = {} /\ v.rows \in Seq(ListableApps)
      BY <1>2, <2>1 DEF RowsOK
    <2>3. Len(v.rows) = 0
      <3>1. ASSUME Len(v.rows) # 0
            PROVE  v.rows[1] \in ToSet(v.rows)
        BY <2>2, <3>1 DEF ToSet
      <3>. QED  BY <2>2, <3>1
    <2>. QED  BY <1>12, <2>2, <2>3
  <1>15. DOMAIN new.under = {} /\ new.next = 0 /\ Distinct(new.tenants)
    BY <1>2, <1>11, <1>12 DEF PhaseOK
  <1>16. GatherOK(new, lived.ever, lived.always)
    BY <1>13, <1>14, <1>15, NothingGathered
  <1>. QED  BY <1>1, <1>2, <1>3, <1>4, <1>5, <1>16, LookStep
(* What a step changes of the request, the rest being as before.           *)
Turned(v, phase, gone) ==
  [phase |-> phase, page |-> v.page, tenants |-> v.tenants, next |-> v.next,
   under |-> v.under, rows |-> v.rows, cut |-> v.cut, missed |-> v.missed, gone |-> gone]

LEMMA LookTurnsTo ==
  ASSUME ListingsInv, NEW phase \in {"tenants", "apps", "over"}, NEW gone \in BOOLEAN,
         look.phase # "none", phase \in {"tenants", "apps"} => look.phase \in {"tenants", "apps"},
         LookTurns(Turned(look, phase, gone)),
         phase # "apps" => DOMAIN look.under = {},
         phase = "tenants" => look.next = 0,
         phase = "over" /\ ~gone => look.next = Len(look.tenants)
  PROVE  ListingsInv'
  <1>1. PICK v : v = look
    OBVIOUS
  <1>2. PICK new : new = Turned(v, phase, gone)
    OBVIOUS
  <1>3. GatherOK(v, lived.ever, lived.always)
    BY <1>1 DEF ListingsInv
  <1>4. LookShape(v)
    BY <1>3 DEF GatherOK
  <1>5. /\ new.phase = phase /\ new.page = v.page /\ new.tenants = v.tenants /\ new.next = v.next
        /\ new.under = v.under /\ new.rows = v.rows /\ new.cut = v.cut /\ new.missed = v.missed
    BY <1>2 DEF Turned
  <1>6. new.gone = gone
    BY <1>2 DEF Turned
  <1>7. new = [phase |-> new.phase, page |-> new.page, tenants |-> new.tenants, next |-> new.next,
               under |-> new.under, rows |-> new.rows, cut |-> new.cut, missed |-> new.missed,
               gone |-> new.gone]
    BY <1>2 DEF Turned
  <1>8. LookShape(new)
    <2>1. new.gone \in BOOLEAN
      BY <1>6
    <2>. QED  BY <1>4, <1>5, <1>7, <2>1 DEF LookShape
  <1>9. PhaseOK(new)
    BY <1>1, <1>3, <1>5, <1>6 DEF GatherOK, PhaseOK
  <1>10. GatherOK(new, lived.ever, lived.always)
    BY <1>3, <1>5, <1>8, <1>9 DEF GatherOK
  <1>. QED  BY <1>1, <1>2, <1>5, <1>10, LookStep

LEMMA TurnsKeep ==
  ASSUME ListingsInv, ListTenantsFails \/ ClientGone \/ AnswerListing
  PROVE  ListingsInv'
  <1>1. PICK v : v = look
    OBVIOUS
  <1>2. PICK left \in BOOLEAN : left = TRUE
    OBVIOUS
  <1>3. LookShape(v) /\ PhaseOK(v) /\ v.gone \in BOOLEAN
    BY <1>1 DEF ListingsInv, GatherOK, LookShape
  <1>4. \A phase : [v EXCEPT !.phase = phase] = Turned(v, phase, v.gone)
    BY <1>3 DEF LookShape, Turned
  <1>5. \A gone : [v EXCEPT !.gone = gone] = Turned(v, v.phase, gone)
    BY <1>3 DEF LookShape, Turned
  <1>6. \A phase, gone : [v EXCEPT !.phase = phase, !.gone = gone] = Turned(v, phase, gone)
    <2>1. ASSUME NEW phase, NEW gone
          PROVE  [v EXCEPT !.phase = phase, !.gone = gone] = Turned(v, phase, gone)
      <3>1. PICK w : w = [v EXCEPT !.phase = phase]
        OBVIOUS
      <3>2. w = Turned(v, phase, v.gone)
        BY <1>4, <3>1
      <3>3. [w EXCEPT !.gone = gone] = Turned(v, phase, gone)
        BY <3>2 DEF Turned
      <3>4. [v EXCEPT !.phase = phase, !.gone = gone] = [w EXCEPT !.gone = gone]
        BY <3>1
      <3>. QED  BY <3>3, <3>4
    <2>. QED  BY <2>1
  <1>7. CASE ListTenantsFails
    <2>1. v.phase = "tenants" /\ DOMAIN v.under = {} /\ v.next = 0
      BY <1>1, <1>3, <1>7 DEF ListTenantsFails, PhaseOK
    <2>2. CASE v.page = "palette"
      <3>1. LookTurns([v EXCEPT !.phase = "over", !.gone = left])
        BY <1>1, <1>2, <1>7, <2>2 DEF ListTenantsFails
      <3>2. LookTurns(Turned(v, "over", left))
        BY <1>6, <3>1
      <3>. QED  BY <1>1, <1>2, <2>1, <3>2, LookTurnsTo
    <2>3. CASE v.page # "palette"
      <3>1. LookTurns([v EXCEPT !.phase = "apps"])
        BY <1>1, <1>7, <2>3 DEF ListTenantsFails
      <3>2. LookTurns(Turned(v, "apps", v.gone))
        BY <1>4, <3>1
      <3>. QED  BY <1>1, <1>3, <2>1, <3>2, LookTurnsTo
    <2>. QED  BY <2>2, <2>3
  <1>8. CASE ClientGone
    <2>1. v.phase = "apps" /\ LookTurns([v EXCEPT !.gone = left])
      BY <1>1, <1>2, <1>8 DEF ClientGone
    <2>2. LookTurns(Turned(v, "apps", left))
      BY <1>5, <2>1
    <2>. QED  BY <1>1, <2>1, <2>2, LookTurnsTo
  <1>9. CASE AnswerListing
    <2>1. /\ v.phase = "apps" /\ DOMAIN v.under = {} /\ v.next = Len(v.tenants)
          /\ LookTurns([v EXCEPT !.phase = "over"])
      BY <1>1, <1>9 DEF AnswerListing
    <2>2. LookTurns(Turned(v, "over", v.gone))
      BY <1>4, <2>1
    <2>. QED  BY <1>1, <1>3, <2>1, <2>2, LookTurnsTo
  <1>. QED  BY <1>7, <1>8, <1>9

(* A list is started: it has nothing yet, and one more is under way.       *)
LEMMA StartListKeeps == ListingsInv /\ StartList => ListingsInv'
  <1>. SUFFICES ASSUME ListingsInv, StartList PROVE ListingsInv'
    OBVIOUS
  <1>1. PICK v : v = look
    OBVIOUS
  <1>2. /\ GatherOK(v, lived.ever, lived.always) /\ LookShape(v) /\ PhaseOK(v)
        /\ v.phase = "apps" /\ v.next < Len(v.tenants)
        /\ Cardinality(DOMAIN v.under) < AtOnce(v.page)
    BY <1>1 DEF ListingsInv, GatherOK, StartList
  <1>3. PICK n : n = v.next + 1
    OBVIOUS
  <1>4. PICK under : under = [i \in DOMAIN v.under \cup {n} |->
                                IF i \in DOMAIN v.under THEN v.under[i] ELSE [done |-> FALSE, rows |-> <<>>]]
    OBVIOUS
  <1>5. PICK new : new = [v EXCEPT !.next = n, !.under = under]
    OBVIOUS
  <1>6. LookTurns(new)
    BY <1>1, <1>3, <1>4, <1>5 DEF StartList
  <1>7. new = [phase |-> "apps", page |-> v.page, tenants |-> v.tenants, next |-> n,
               under |-> under, rows |-> v.rows, cut |-> v.cut, missed |-> v.missed, gone |-> v.gone]
    BY <1>2, <1>5 DEF LookShape
  <1>8. /\ v.next \in Nat /\ n \in Nat /\ n = v.next + 1 /\ n <= Len(v.tenants)
        /\ v.tenants \in Seq(Placed) /\ DOMAIN v.under \subseteq 1 .. v.next
    BY <1>2, <1>3 DEF LookShape, GatherOK, UnderOK
  <1>9. LookShape(new)
    BY <1>2, <1>7, <1>8 DEF LookShape
  <1>10. DOMAIN under = DOMAIN v.under \cup {n} /\ n \notin DOMAIN v.under /\ ~under[n].done
         /\ under[n] = [done |-> FALSE, rows |-> <<>>] /\ \A i \in DOMAIN v.under : under[i] = v.under[i]
    BY <1>4, <1>8
  <1>11. PhaseOK(new)
    <2>1. IsFiniteSet(DOMAIN v.under) /\ Cardinality(DOMAIN v.under) \in Nat
      <3>1. v.next \in Int /\ 1 \in Int
        BY <1>8
      <3>2. IsFiniteSet(1 .. v.next)
        BY <3>1, FS_Interval
      <3>. QED  BY <1>8, <3>2, FS_Subset, FS_CardinalityType
    <2>2. Cardinality(DOMAIN under) = Cardinality(DOMAIN v.under) + 1
      BY <1>10, <2>1, FS_AddElement
    <2>3. AtOnce(v.page) \in Nat /\ AtOnce(v.page) <= paletteFanoutConcurrency
      BY ListingsAssumption DEF AtOnce
    <2>4. Cardinality(DOMAIN under) <= paletteFanoutConcurrency
      <3>1. paletteFanoutConcurrency \in Nat
        BY ListingsAssumption
      <3>. QED  BY <1>2, <2>1, <2>2, <2>3, <3>1
    <2>. QED  BY <1>7, <2>4 DEF PhaseOK
  <1>12. UnderOK(under, v.tenants, n, lived.ever)
    <2>1. \A i \in DOMAIN under : i \in 1 .. n
      BY <1>8, <1>10
    <2>2. ASSUME NEW i \in DOMAIN under
          PROVE  /\ under[i].done \in BOOLEAN
                 /\ under[i].rows \in Seq(ListableApps) /\ IsInjective(under[i].rows)
                 /\ \A a \in ToSet(under[i].rows) : a \in lived.ever /\ a.tenant = v.tenants[i].namespace
      <3>1. CASE i \in DOMAIN v.under
        BY <1>2, <1>10, <3>1 DEF GatherOK, UnderOK
      <3>2. CASE i = n
        <4>1. under[i] = [done |-> FALSE, rows |-> <<>>]
          BY <1>10, <3>2
        <4>2. under[i].done \in BOOLEAN /\ under[i].rows = <<>>
          BY <4>1
        <4>3. <<>> \in Seq(ListableApps) /\ IsInjective(<<>>) /\ ToSet(<<>>) = {}
          BY DEF IsInjective, ToSet
        <4>. QED  BY <4>2, <4>3
      <3>. QED  BY <1>10, <3>1, <3>2
    <2>. QED  BY <2>1, <2>2 DEF UnderOK
  <1>13. RowsOK(v.rows, under, v.tenants, n, lived.ever)
    <2>1. RowsOK(v.rows, v.under, v.tenants, v.next, lived.ever)
      BY <1>2 DEF GatherOK
    <2>2. \A i \in 1 .. v.next : i \in 1 .. n /\ (i \notin DOMAIN v.under => i \notin DOMAIN under)
      BY <1>8, <1>10
    <2>. QED  BY <2>1, <2>2 DEF RowsOK
  <1>14. AllOf(lived.always, v.rows, under, v.tenants, n, v.missed \cup v.cut)
    <2>1. AllOf(lived.always, v.rows, v.under, v.tenants, v.next, v.missed \cup v.cut)
      BY <1>2 DEF GatherOK
    <2>2. \A i \in 1 .. n : i = n \/ (i \in 1 .. v.next /\ (i \in DOMAIN under <=> i \in DOMAIN v.under))
      BY <1>8, <1>10
    <2>3. \A i \in 1 .. n : i # n =>
            /\ i \in 1 .. v.next /\ (i \in DOMAIN under <=> i \in DOMAIN v.under)
            /\ i \in DOMAIN v.under => under[i] = v.under[i]
      BY <1>10, <2>2
    <2>4. n \in DOMAIN under /\ ~under[n].done
      BY <1>10
    <2>. QED  BY <2>1, <2>3, <2>4 DEF AllOf
  <1>15. GatherOK(new, lived.ever, lived.always)
    BY <1>2, <1>7, <1>9, <1>11, <1>12, <1>13, <1>14 DEF GatherOK
  <1>. QED  BY <1>1, <1>2, <1>6, <1>7, <1>15, LookStep
(* What is known of one list under way.                                    *)
LEMMA UnderWay ==
  ASSUME ListingsInv, NEW i \in DOMAIN look.under, NEW v, v = look
  PROVE  /\ GatherOK(v, lived.ever, lived.always) /\ LookShape(v) /\ PhaseOK(v)
         /\ v.phase = "apps" /\ i \in 1 .. v.next /\ v.next \in Nat /\ i \in DOMAIN v.tenants
         /\ there \subseteq ListableApps /\ there \subseteq lived.ever /\ lived.always \subseteq there
  <1>1. GatherOK(v, lived.ever, lived.always) /\ LookShape(v) /\ PhaseOK(v)
    BY DEF ListingsInv, GatherOK
  <1>2. v.phase = "apps" /\ i \in 1 .. v.next /\ v.next \in Nat /\ v.next <= Len(v.tenants)
        /\ v.tenants \in Seq(Placed)
    BY <1>1 DEF GatherOK, PhaseOK, UnderOK, LookShape
  <1>3. i \in DOMAIN v.tenants
    BY <1>2
  <1>. QED  BY <1>1, <1>2, <1>3 DEF ListingsInv, ShiftsOK

(* The list is answered: all there is in that tenant, unless it is cut.    *)
LEMMA ListAppsKeeps ==
  ASSUME ListingsInv, NEW i \in DOMAIN look.under, ListApps(i)
  PROVE  ListingsInv'
  <1>1. PICK v : v = look
    OBVIOUS
  <1>2. /\ GatherOK(v, lived.ever, lived.always) /\ LookShape(v) /\ PhaseOK(v)
        /\ v.phase = "apps" /\ i \in 1 .. v.next /\ v.next \in Nat /\ i \in DOMAIN v.tenants
        /\ there \subseteq ListableApps /\ there \subseteq lived.ever /\ lived.always \subseteq there
    BY <1>1, UnderWay
  <1>3. PICK namespace, S : namespace = v.tenants[i].namespace /\ S = {a \in there : a.tenant = namespace}
    OBVIOUS
  <1>4. PICK listed \in InOrderOf(AppOrder, S) :
          LookTurns([v EXCEPT
             !.under[i] = [done |-> TRUE,
                           rows |-> IF IsCut(listed) THEN SubSeq(listed, 1, AppListLimit)
                                                     ELSE listed],
             !.cut = IF IsCut(listed) THEN @ \cup {namespace} ELSE @])
    BY <1>1, <1>3 DEF ListApps
  <1>5. PICK rows, cut : /\ rows = IF IsCut(listed) THEN SubSeq(listed, 1, AppListLimit) ELSE listed
                         /\ cut = IF IsCut(listed) THEN v.cut \cup {namespace} ELSE v.cut
    OBVIOUS
  <1>6. PICK answer : answer = [done |-> TRUE, rows |-> rows]
    OBVIOUS
  <1>7. PICK new : new = [v EXCEPT !.under[i] = answer, !.cut = cut]
    OBVIOUS
  <1>8. LookTurns(new)
    BY <1>4, <1>5, <1>6, <1>7
  <1>9. IsFiniteSet(S) /\ S \subseteq ListableApps
    BY <1>2, <1>3, ListableFinite, FS_Subset
  <1>10. listed \in Seq(S) /\ IsInjective(listed) /\ ToSet(listed) = S
    BY <1>9, ListedAll
  <1>11. /\ rows \in Seq(S) /\ IsInjective(rows) /\ ToSet(rows) \subseteq S
         /\ ~IsCut(listed) => ToSet(rows) = S
    <2>1. CASE ~IsCut(listed)
      BY <1>5, <1>10, <2>1
    <2>2. CASE IsCut(listed)
      <3>1. AppListLimit \in Nat /\ Len(listed) \in Nat /\ AppListLimit < Len(listed)
        BY <1>10, <2>2, ListingsAssumption DEF IsCut
      <3>2. rows = SubSeq(listed, 1, AppListLimit)
        BY <1>5, <2>2
      <3>3. DOMAIN rows = 1 .. AppListLimit /\ rows \in Seq(S)
            /\ \A j \in 1 .. AppListLimit : j \in DOMAIN listed /\ rows[j] = listed[j]
        BY <1>10, <3>1, <3>2
      <3>4. IsInjective(rows)
        BY <1>10, <3>3 DEF IsInjective
      <3>5. ToSet(rows) \subseteq S
        BY <1>10, <3>3 DEF ToSet
      <3>. QED  BY <2>2, <3>3, <3>4, <3>5
    <2>. QED  BY <2>1, <2>2
  <1>12. PICK under : under = [v.under EXCEPT ![i] = answer]
    OBVIOUS
  <1>13. new = [phase |-> "apps", page |-> v.page, tenants |-> v.tenants, next |-> v.next,
                under |-> under, rows |-> v.rows, cut |-> cut, missed |-> v.missed, gone |-> v.gone]
    BY <1>2, <1>7, <1>12 DEF LookShape
  <1>14. LookShape(new)
    BY <1>2, <1>13 DEF LookShape
  <1>15. /\ DOMAIN under = DOMAIN v.under /\ i \in DOMAIN v.under /\ under[i] = answer
         /\ \A j \in DOMAIN v.under \ {i} : under[j] = v.under[j]
    BY <1>1, <1>12
  <1>16. answer.done \in BOOLEAN /\ answer.rows = rows
    BY <1>6
  <1>17. PhaseOK(new)
    BY <1>2, <1>13, <1>15 DEF PhaseOK
  <1>18. UnderOK(under, v.tenants, v.next, lived.ever)
    <2>1. UnderOK(v.under, v.tenants, v.next, lived.ever)
      BY <1>2 DEF GatherOK
    <2>2. /\ answer.done \in BOOLEAN /\ answer.rows \in Seq(ListableApps) /\ IsInjective(answer.rows)
          /\ \A a \in ToSet(answer.rows) : a \in lived.ever /\ a.tenant = v.tenants[i].namespace
      <3>1. rows \in Seq(ListableApps)
        BY <1>9, <1>11
      <3>2. \A a \in ToSet(rows) : a \in lived.ever /\ a.tenant = v.tenants[i].namespace
        BY <1>2, <1>3, <1>11
      <3>. QED  BY <1>11, <1>16, <3>1, <3>2
    <2>. QED  BY <1>15, <2>1, <2>2 DEF UnderOK
  <1>19. RowsOK(v.rows, under, v.tenants, v.next, lived.ever)
    BY <1>2, <1>15 DEF GatherOK, RowsOK
  <1>20. AllOf(lived.always, v.rows, under, v.tenants, v.next, v.missed \cup cut)
    <2>1. AllOf(lived.always, v.rows, v.under, v.tenants, v.next, v.missed \cup v.cut)
      BY <1>2 DEF GatherOK
    <2>2. v.cut \subseteq cut /\ (IsCut(listed) => namespace \in cut)
      BY <1>5
    <2>3. ASSUME NEW a \in lived.always, a.tenant = namespace, namespace \notin v.missed \cup cut
          PROVE  a \in ToSet(answer.rows)
      BY <1>2, <1>3, <1>11, <1>16, <2>2, <2>3
    <2>4. ASSUME NEW j \in 1 .. v.next, NEW a \in lived.always,
                 a.tenant = v.tenants[j].namespace, v.tenants[j].namespace \notin v.missed \cup cut
          PROVE  IF j \in DOMAIN under THEN under[j].done => a \in ToSet(under[j].rows)
                                       ELSE a \in ToSet(v.rows)
      <3>1. CASE j = i
        BY <1>3, <1>15, <2>3, <2>4, <3>1
      <3>2. CASE j # i
        BY <1>15, <2>1, <2>2, <2>4, <3>2 DEF AllOf
      <3>. QED  BY <3>1, <3>2
    <2>. QED  BY <2>4 DEF AllOf
  <1>21. GatherOK(new, lived.ever, lived.always)
    BY <1>2, <1>13, <1>14, <1>17, <1>18, <1>19, <1>20 DEF GatherOK
  <1>. QED  BY <1>1, <1>2, <1>8, <1>13, <1>21, LookStep

(* One list less under way.                                                *)
Less(v, under, rows, missed) ==
  [phase |-> "apps", page |-> v.page, tenants |-> v.tenants, next |-> v.next,
   under |-> under, rows |-> rows, cut |-> v.cut, missed |-> missed, gone |-> v.gone]

LEMMA OneLeft ==
  ASSUME NEW under, NEW i
  PROVE  /\ DOMAIN LeftOut(under, i) = DOMAIN under \ {i}
         /\ \A j \in DOMAIN under \ {i} : LeftOut(under, i)[j] = under[j]
  BY DEF LeftOut

LEMMA OneLess ==
  ASSUME NEW v, NEW under, NEW rows, NEW missed, LookShape(v), PhaseOK(v), v.phase = "apps",
         DOMAIN v.under \subseteq 1 .. v.next, DOMAIN under \subseteq DOMAIN v.under
  PROVE  LookShape(Less(v, under, rows, missed)) /\ PhaseOK(Less(v, under, rows, missed))
  <1>. DEFINE new == Less(v, under, rows, missed)
  <1>1. LookShape(new)
    BY DEF LookShape, Less
  <1>2. v.next \in Int /\ 1 \in Int
    BY DEF LookShape
  <1>3. IsFiniteSet(1 .. v.next)
    BY <1>2, FS_Interval
  <1>4. IsFiniteSet(DOMAIN v.under)
    BY <1>3, FS_Subset
  <1>5. /\ Cardinality(DOMAIN v.under) \in Nat /\ Cardinality(DOMAIN under) \in Nat
        /\ Cardinality(DOMAIN under) <= Cardinality(DOMAIN v.under)
    BY <1>4, FS_CardinalityType, FS_Subset
  <1>6. PhaseOK(new)
    <2>1. paletteFanoutConcurrency \in Nat
      BY ListingsAssumption
    <2>2. Cardinality(DOMAIN under) <= paletteFanoutConcurrency
      BY <1>5, <2>1 DEF PhaseOK
    <2>. QED  BY <2>2 DEF PhaseOK, Less
  <1>. QED  BY <1>1, <1>6

LEMMA ListAppsFailsKeeps ==
  ASSUME ListingsInv, NEW i \in DOMAIN look.under, ListAppsFails(i)
  PROVE  ListingsInv'
  <1>1. PICK v : v = look
    OBVIOUS
  <1>2. /\ GatherOK(v, lived.ever, lived.always) /\ LookShape(v) /\ PhaseOK(v)
        /\ v.phase = "apps" /\ i \in 1 .. v.next /\ v.next \in Nat /\ i \in DOMAIN v.tenants
    BY <1>1, UnderWay
  <1>3. PICK namespace, under, missed :
          /\ namespace = v.tenants[i].namespace /\ under = LeftOut(v.under, i)
          /\ missed = v.missed \cup {namespace}
    OBVIOUS
  <1>4. PICK new : new = [v EXCEPT !.under = under, !.missed = missed]
    OBVIOUS
  <1>5. LookTurns(new)
    BY <1>1, <1>3, <1>4 DEF ListAppsFails, AfterFailure
  <1>6. new = Less(v, under, v.rows, missed)
    BY <1>2, <1>4 DEF LookShape, Less
  <1>7. /\ LookShape(new) /\ PhaseOK(new)
        /\ DOMAIN under = DOMAIN v.under \ {i} /\ \A j \in DOMAIN under : under[j] = v.under[j]
    <2>1. DOMAIN v.under \subseteq 1 .. v.next /\ i \in DOMAIN v.under
      BY <1>1, <1>2 DEF GatherOK, UnderOK
    <2>2. DOMAIN under = DOMAIN v.under \ {i} /\ \A j \in DOMAIN under : under[j] = v.under[j]
      BY <1>3, OneLeft
    <2>3. LookShape(Less(v, under, v.rows, missed)) /\ PhaseOK(Less(v, under, v.rows, missed))
      BY <1>2, <2>1, <2>2, OneLess
    <2>. QED  BY <1>6, <2>2, <2>3
  <1>8. UnderOK(under, v.tenants, v.next, lived.ever)
    BY <1>2, <1>7 DEF GatherOK, UnderOK
  <1>9. RowsOK(v.rows, under, v.tenants, v.next, lived.ever)
    BY <1>2, <1>7 DEF GatherOK, RowsOK
  <1>10. AllOf(lived.always, v.rows, under, v.tenants, v.next, missed \cup v.cut)
    <2>1. AllOf(lived.always, v.rows, v.under, v.tenants, v.next, v.missed \cup v.cut)
      BY <1>2 DEF GatherOK
    <2>2. ASSUME NEW j \in 1 .. v.next, NEW a \in lived.always,
                 a.tenant = v.tenants[j].namespace, v.tenants[j].namespace \notin missed \cup v.cut
          PROVE  IF j \in DOMAIN under THEN under[j].done => a \in ToSet(under[j].rows)
                                       ELSE a \in ToSet(v.rows)
      <3>1. j # i /\ v.tenants[j].namespace \notin v.missed \cup v.cut
        BY <1>3, <2>2
      <3>. QED  BY <1>7, <2>1, <2>2, <3>1 DEF AllOf
    <2>. QED  BY <2>2 DEF AllOf
  <1>11. GatherOK(new, lived.ever, lived.always)
    BY <1>2, <1>6, <1>7, <1>8, <1>9, <1>10 DEF GatherOK, Less
  <1>. QED  BY <1>1, <1>2, <1>5, <1>6, <1>11, LookStep DEF Less

(* Its rows are appended: no other list has had a row of that tenant.      *)
LEMMA AppendRowsKeeps ==
  ASSUME ListingsInv, NEW i \in DOMAIN look.under, AppendRows(i)
  PROVE  ListingsInv'
  <1>1. PICK v : v = look
    OBVIOUS
  <1>2. /\ GatherOK(v, lived.ever, lived.always) /\ LookShape(v) /\ PhaseOK(v)
        /\ v.phase = "apps" /\ i \in 1 .. v.next /\ v.next \in Nat /\ i \in DOMAIN v.tenants
    BY <1>1, UnderWay
  <1>3. PICK more, under, rows :
          /\ more = v.under[i].rows /\ under = LeftOut(v.under, i) /\ rows = v.rows \o more
    OBVIOUS
  <1>4. PICK new : new = [v EXCEPT !.under = under, !.rows = rows]
    OBVIOUS
  <1>5. LookTurns(new)
    BY <1>1, <1>3, <1>4 DEF AppendRows
  <1>6. new = Less(v, under, rows, v.missed)
    BY <1>2, <1>4 DEF LookShape, Less
  <1>7. DOMAIN v.under \subseteq 1 .. v.next /\ i \in DOMAIN v.under /\ v.under[i].done
    BY <1>1, <1>2 DEF GatherOK, UnderOK, AppendRows
  <1>8. /\ LookShape(new) /\ PhaseOK(new)
        /\ DOMAIN under = DOMAIN v.under \ {i} /\ \A j \in DOMAIN under : under[j] = v.under[j]
    <2>1. DOMAIN under = DOMAIN v.under \ {i} /\ \A j \in DOMAIN under : under[j] = v.under[j]
      BY <1>3, OneLeft
    <2>2. LookShape(Less(v, under, rows, v.missed)) /\ PhaseOK(Less(v, under, rows, v.missed))
      BY <1>2, <1>7, <2>1, OneLess
    <2>. QED  BY <1>6, <2>1, <2>2
  <1>9. /\ more \in Seq(ListableApps) /\ IsInjective(more)
        /\ \A a \in ToSet(more) : a \in lived.ever /\ a.tenant = v.tenants[i].namespace
    BY <1>2, <1>3, <1>7 DEF GatherOK, UnderOK
  <1>10. RowsOK(v.rows, v.under, v.tenants, v.next, lived.ever) /\ v.rows \in Seq(ListableApps)
    BY <1>2 DEF GatherOK, RowsOK
  <1>11. rows \in Seq(ListableApps) /\ ToSet(rows) = ToSet(v.rows) \cup ToSet(more)
    BY <1>3, <1>9, <1>10, JoinedSet
  <1>12. UnderOK(under, v.tenants, v.next, lived.ever)
    BY <1>2, <1>8 DEF GatherOK, UnderOK
  <1>13. ASSUME \A j \in DOMAIN v.tenants : v.tenants[j].settled
         PROVE  IsInjective(rows)
    <2>1. IsInjective(v.rows) /\ Distinct(v.tenants)
      BY <1>2, <1>10, <1>13 DEF RowsOK, GatherOK
    <2>2. ASSUME NEW a \in ToSet(v.rows)
          PROVE  a.tenant # v.tenants[i].namespace
      <3>1. PICK j \in 1 .. v.next : j \notin DOMAIN v.under /\ a.tenant = v.tenants[j].namespace
        BY <1>10, <2>2 DEF RowsOK
      <3>2. v.next <= Len(v.tenants) /\ v.tenants \in Seq(Placed)
        BY <1>2 DEF LookShape
      <3>3. j # i /\ j \in DOMAIN v.tenants
        BY <1>2, <1>7, <3>1, <3>2
      <3>. QED  BY <1>2, <1>13, <2>1, <3>1, <3>3 DEF Distinct
    <2>3. ASSUME NEW m \in DOMAIN v.rows, NEW n \in DOMAIN more
          PROVE  v.rows[m] # more[n]
      <3>1. v.rows[m] \in ToSet(v.rows) /\ more[n] \in ToSet(more)
        BY DEF ToSet
      <3>. QED  BY <1>9, <2>2, <3>1
    <2>. QED  BY <1>3, <1>9, <1>10, <2>1, <2>3, JoinedApart
  <1>14. RowsOK(rows, under, v.tenants, v.next, lived.ever)
    <2>1. ASSUME NEW a \in ToSet(rows)
          PROVE  a \in lived.ever /\ \E j \in 1 .. v.next : j \notin DOMAIN under /\ a.tenant = v.tenants[j].namespace
      <3>1. CASE a \in ToSet(v.rows)
        BY <1>8, <1>10, <3>1 DEF RowsOK
      <3>2. CASE a \in ToSet(more)
        BY <1>2, <1>8, <1>9, <3>2
      <3>. QED  BY <1>11, <2>1, <3>1, <3>2
    <2>. QED  BY <1>11, <1>13, <2>1 DEF RowsOK
  <1>15. AllOf(lived.always, rows, under, v.tenants, v.next, v.missed \cup v.cut)
    <2>1. AllOf(lived.always, v.rows, v.under, v.tenants, v.next, v.missed \cup v.cut)
      BY <1>2 DEF GatherOK
    <2>2. ASSUME NEW j \in 1 .. v.next, NEW a \in lived.always,
                 a.tenant = v.tenants[j].namespace, v.tenants[j].namespace \notin v.missed \cup v.cut
          PROVE  IF j \in DOMAIN under THEN under[j].done => a \in ToSet(under[j].rows)
                                       ELSE a \in ToSet(rows)
      <3>1. CASE j = i
        BY <1>3, <1>7, <1>8, <1>11, <2>1, <2>2, <3>1 DEF AllOf
      <3>2. CASE j # i
        BY <1>8, <1>11, <2>1, <2>2, <3>2 DEF AllOf
      <3>. QED  BY <3>1, <3>2
    <2>. QED  BY <2>2 DEF AllOf
  <1>16. GatherOK(new, lived.ever, lived.always)
    BY <1>2, <1>6, <1>8, <1>12, <1>14, <1>15 DEF GatherOK, Less
  <1>. QED  BY <1>1, <1>2, <1>5, <1>6, <1>16, LookStep DEF Less

LEMMA ListingsStep == ListingsInv /\ [ListingsNext]_listingVars => ListingsInv'
  <1>. SUFFICES ASSUME ListingsInv, [ListingsNext]_listingVars PROVE ListingsInv'
    OBVIOUS
  <1>1. CASE UNCHANGED listingVars
    BY <1>1 DEF listingVars, ListingsInv, ShiftsOK
  <1>2. CASE \E i \in DOMAIN look.under : ListApps(i) \/ ListAppsFails(i) \/ AppendRows(i)
    BY <1>2, ListAppsKeeps, ListAppsFailsKeeps, AppendRowsKeeps
  <1>. QED  BY <1>1, <1>2, ShiftKeeps, OpenKeeps, ListTenantsKeeps, TurnsKeep, StartListKeeps, ShutKeeps
            DEF ListingsNext

(* The inductive invariant of the listings.                                *)
THEOREM ListingsInvariant == ListingsSpec => []ListingsInv
  <1>. QED  BY ListingsInvInit, ListingsStep, PTL DEF ListingsSpec

(* Type correctness of the listings; no more lists are under way than the  *)
(* palette allows itself (paletteFanoutConcurrency).                       *)
THEOREM ListingsTyped == ListingsSpec => []ListingsTypeOK
  <1>1. ASSUME ListingsInv PROVE ListingsTypeOK
    <2>1. PICK v : v = look
      OBVIOUS
    <2>2. /\ settled \subseteq crs /\ crs \subseteq ListableTenants /\ there \subseteq ListableApps
          /\ LookShape(v) /\ PhaseOK(v) /\ DOMAIN v.under \subseteq 1 .. v.next /\ v.rows \in Seq(ListableApps)
      BY <1>1, <2>1 DEF ListingsInv, ShiftsOK, GatherOK, UnderOK, RowsOK
    <2>3. v.next \in 0 .. Len(v.tenants) /\ Cardinality(DOMAIN v.under) <= paletteFanoutConcurrency
      BY <2>2 DEF LookShape, PhaseOK
    <2>4. ToSet(v.rows) \subseteq ListableApps
      BY <2>2 DEF ToSet
    <2>5. /\ v.phase \in {"none", "tenants", "apps", "over"} /\ v.page \in Pages /\ v.gone \in BOOLEAN
      BY <2>2 DEF LookShape
    <2>. QED  BY <2>1, <2>2, <2>3, <2>4, <2>5 DEF ListingsTypeOK, Pages
  <1>2. ListingsInv => ListingsTypeOK
    BY <1>1
  <1>. QED  BY <1>2, ListingsInvariant, PTL

(* However the lists overlap and the cluster changes, an answer has only   *)
(* what was there meanwhile, all of what was there throughout unless its   *)
(* list failed or was cut, and nothing twice when every tenant had its     *)
(* namespace (fanoutAppLists, aggregateApps).                              *)
THEOREM ListsGatherAll == ListingsSpec => []GathersAll
  <1>1. ASSUME ListingsInv PROVE GathersAll
    <2>1. PICK v : v = look
      OBVIOUS
    <2>2. /\ GatherOK(v, lived.ever, lived.always)
          /\ RowsOK(v.rows, v.under, v.tenants, v.next, lived.ever)
          /\ AllOf(lived.always, v.rows, v.under, v.tenants, v.next, v.missed \cup v.cut)
          /\ LookShape(v) /\ PhaseOK(v)
      BY <1>1, <2>1 DEF ListingsInv, GatherOK
    <2>3. ASSUME v.phase = "over", ~v.gone
          PROVE  /\ ToSet(v.rows) \subseteq lived.ever
                 /\ \A a \in lived.always :
                      a.tenant \in {v.tenants[i].namespace : i \in DOMAIN v.tenants} \ (v.missed \cup v.cut)
                      => a \in ToSet(v.rows)
                 /\ (\A i \in DOMAIN v.tenants : v.tenants[i].settled) => IsInjective(v.rows)
      <3>1. DOMAIN v.under = {} /\ DOMAIN v.tenants = 1 .. v.next
        BY <2>2, <2>3 DEF PhaseOK, LookShape
      <3>2. ASSUME NEW a \in lived.always, NEW i \in DOMAIN v.tenants,
                   a.tenant = v.tenants[i].namespace, a.tenant \notin v.missed \cup v.cut
            PROVE  a \in ToSet(v.rows)
        BY <2>2, <3>1, <3>2 DEF AllOf
      <3>. QED  BY <2>2, <3>2 DEF RowsOK
    <2>. QED  BY <2>1, <2>3 DEF GathersAll
  <1>2. ListingsInv => GathersAll
    BY <1>1
  <1>. QED  BY <1>2, ListingsInvariant, PTL
-----------------------------------------------------------------------------
(* Composition.  A step of all requests together is, to each component, a  *)
(* step of its own or none: what is proved of one holds of the whole.      *)
THEOREM RequestsCompose ==
  RequestsSpec => Spec /\ TenantSpec /\ SchemasSpec /\ AccessSpec /\ ListingsSpec
  <1>1. RequestsInit => Init /\ TenantInit /\ SchemasInit /\ AccessInit /\ ListingsInit
    BY DEF RequestsInit
  <1>2. ASSUME [RequestsNext]_requestVars
        PROVE  /\ [Next]_vars /\ [TenantNext]_tenantVars /\ [SchemasNext]_schemaVars
               /\ [AccessNext]_accessVars /\ [ListingsNext]_listingVars
    <2>1. CASE UNCHANGED requestVars
      BY <2>1 DEF requestVars
    <2>2. CASE OfApplications(Next)
      BY <2>2 DEF OfApplications
    <2>3. CASE OfTenants(TenantNext)
      BY <2>3 DEF OfTenants
    <2>4. CASE OfSchemas(SchemasNext)
      BY <2>4 DEF OfSchemas
    <2>5. CASE OfAccess(AccessNext)
      BY <2>5 DEF OfAccess
    <2>6. CASE OfListings(ListingsNext)
      BY <2>6 DEF OfListings
    <2>. QED  BY <1>2, <2>1, <2>2, <2>3, <2>4, <2>5, <2>6 DEF RequestsNext
  <1>. QED  BY <1>1, <1>2, PTL DEF RequestsSpec, Spec, TenantSpec, SchemasSpec, AccessSpec, ListingsSpec

(* Every variable of every component has its type, however their requests  *)
(* interleave.                                                             *)
THEOREM RequestsTyped == RequestsSpec => []RequestsTypeOK
  <1>1. TypeOK /\ TenantTypeOK /\ SchemasTypeOK /\ AccessTypeOK /\ ListingsTypeOK => RequestsTypeOK
    BY DEF RequestsTypeOK
  <1>. QED  BY <1>1, RequestsCompose, EditsTyped, TenantEditsTyped, SchemasAreTyped, AccessTyped,
               ListingsTyped, PTL

(* The audit log tells the truth about every request of every user: edits  *)
(* of applications and of tenants, secrets revealed and actions run        *)
(* (internal/handler).                                                     *)
THEOREM AuditsAreTrue == RequestsSpec => []EveryAuditIsTrue
  <1>1. AuditIsTrue /\ TenantAuditIsTrue /\ RevealedIsRecorded /\ ActionAuditIsTrue => EveryAuditIsTrue
    BY DEF EveryAuditIsTrue
  <1>. QED  BY <1>1, RequestsCompose, EditsAreAudited, TenantEditsAreAudited, RevealsAreRecorded,
               ActionsAreAudited, PTL
=============================================================================
