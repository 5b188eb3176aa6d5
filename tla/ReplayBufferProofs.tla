------------------------- MODULE ReplayBufferProofs -------------------------
(***************************************************************************)
(* Lemmas about the ring of module ReplayBuffer, for every size.           *)
(***************************************************************************)
EXTENDS ReplayBuffer, TLAPS

(* An event added to a ring of Event leaves a ring of Event. *)
LEMMA AddType ==
  ASSUME NEW Event, NEW buf \in Ring(Event), NEW evt \in Event
  PROVE  Add(buf, evt) \in Ring(Event)
  <1>1. buf.head \in Slots
    BY DEF Ring
  <1>2. (buf.head + 1) % replayBufferSize \in Slots
    BY <1>1, ReplayBufferAssumption, SMT DEF Slots
  <1>. QED  BY <1>1, <1>2 DEF Ring, Add

(* A tenant's ring starts as an empty ring, which remembers nothing. *)
LEMMA NewBufferType ==
  ASSUME NEW Event
  PROVE  NewBuffer \in Ring(Event) /\ HoldsNewest(NewBuffer, <<>>)
  <1>1. 0 \in Slots
    BY ReplayBufferAssumption DEF Slots
  <1>2. NewBuffer \in Ring(Event)
    BY <1>1 DEF NewBuffer, Ring
  <1>3. Count(NewBuffer) = 0
    BY DEF NewBuffer, Count
  <1>. QED  BY <1>2, <1>3, ReplayBufferAssumption DEF HoldsNewest

(* Slot j is the i-th of the chronological walk. *)
IsSlot(buf, i, j) ==
  /\ j \in Slots
  /\ \/ ~buf.full /\ j = i
     \/ buf.full /\ j = buf.head + i
     \/ buf.full /\ j = buf.head + i - replayBufferSize

(* The walk reads the slot that the wrap-around arithmetic selects. *)
LEMMA AtSlot ==
  ASSUME NEW Event, NEW buf \in Ring(Event), NEW i \in 0 .. Count(buf) - 1
  PROVE  /\ \E j \in Slots : IsSlot(buf, i, j)
         /\ \A j \in Slots : IsSlot(buf, i, j) => At(buf, i) = buf.events[j]
  <1>1. /\ buf.head \in 0 .. replayBufferSize - 1 /\ buf.full \in BOOLEAN
        /\ i \in Int /\ 0 <= i /\ i < replayBufferSize /\ (~buf.full => i < buf.head)
    BY ReplayBufferAssumption DEF Ring, Slots, Count
  <1>2. (0 + i) % replayBufferSize = i
    BY <1>1, ReplayBufferAssumption, SMT
  <1>3. (buf.head + i) % replayBufferSize =
          IF buf.head + i < replayBufferSize THEN buf.head + i
                                             ELSE buf.head + i - replayBufferSize
    BY <1>1, ReplayBufferAssumption, SMT
  <1>4. \E j \in Slots : IsSlot(buf, i, j)
    <2>1. CASE ~buf.full
      BY <1>1, <2>1, ReplayBufferAssumption DEF IsSlot, Slots
    <2>2. CASE buf.full /\ buf.head + i < replayBufferSize
      <3>1. buf.head + i \in Slots
        BY <1>1, <2>2, ReplayBufferAssumption DEF Slots
      <3>. QED  BY <2>2, <3>1 DEF IsSlot
    <2>3. CASE buf.full /\ buf.head + i >= replayBufferSize
      <3>1. buf.head + i - replayBufferSize \in Slots
        BY <1>1, <2>3, ReplayBufferAssumption DEF Slots
      <3>. QED  BY <2>3, <3>1 DEF IsSlot
    <2>. QED  BY <1>1, <2>1, <2>2, <2>3, ReplayBufferAssumption
  <1>5. ASSUME NEW j \in Slots, IsSlot(buf, i, j)
        PROVE  At(buf, i) = buf.events[j]
    <2>1. CASE ~buf.full
      BY <1>2, <1>5, <2>1 DEF IsSlot, At
    <2>2. CASE buf.full
      <3>1. (buf.head + i) % replayBufferSize = j
        BY <1>1, <1>3, <1>5, <2>2, ReplayBufferAssumption DEF IsSlot, Slots
      <3>. QED  BY <2>2, <3>1 DEF At
    <2>. QED  BY <2>1, <2>2
  <1>. QED  BY <1>4, <1>5

(* The fields after an append. *)
LEMMA AddFields ==
  ASSUME NEW Event, NEW buf \in Ring(Event), NEW evt \in Event
  PROVE  /\ buf.head + 1 < replayBufferSize
              => Add(buf, evt).head = buf.head + 1 /\ Add(buf, evt).full = buf.full
         /\ buf.head + 1 = replayBufferSize
              => Add(buf, evt).head = 0 /\ Add(buf, evt).full
         /\ Add(buf, evt).events[buf.head] = evt
         /\ \A j \in Slots \ {buf.head} : Add(buf, evt).events[j] = buf.events[j]
  <1>1. /\ buf.head \in 0 .. replayBufferSize - 1 /\ buf.full \in BOOLEAN
        /\ buf.events \in [Slots -> Event \cup {NoEvent}] /\ buf.head \in Slots
    BY DEF Ring, Slots
  <1>2. (buf.head + 1) % replayBufferSize =
          IF buf.head + 1 < replayBufferSize THEN buf.head + 1 ELSE 0
    BY <1>1, ReplayBufferAssumption, SMT
  <1>3. /\ Add(buf, evt).head = (buf.head + 1) % replayBufferSize
        /\ Add(buf, evt).full = (buf.full \/ (buf.head + 1) % replayBufferSize = 0)
        /\ Add(buf, evt).events = [buf.events EXCEPT ![buf.head] = evt]
    BY DEF Add
  <1>4. CASE buf.head + 1 < replayBufferSize
    <2>1. (buf.head + 1) % replayBufferSize = buf.head + 1 /\ buf.head + 1 # 0
      BY <1>1, <1>2, <1>4, ReplayBufferAssumption
    <2>. QED  BY <1>1, <1>3, <1>4, <2>1, ReplayBufferAssumption
  <1>5. CASE buf.head + 1 = replayBufferSize
    <2>1. (buf.head + 1) % replayBufferSize = 0
      BY <1>1, <1>2, <1>5, ReplayBufferAssumption
    <2>2. Add(buf, evt).head = 0 /\ Add(buf, evt).full
      BY <1>1, <1>3, <2>1
    <2>. QED  BY <1>1, <1>3, <1>5, <2>2, ReplayBufferAssumption
  <1>. QED  BY <1>1, <1>4, <1>5, ReplayBufferAssumption

(* HoldsNewest with each index of the history as a variable of its own. *)
LEMMA HoldsNewestAt ==
  ASSUME NEW buf, NEW log, Len(log) \in Nat, Count(buf) \in Nat
  PROVE  HoldsNewest(buf, log) <=>
           /\ Len(log) < replayBufferSize => Count(buf) = Len(log)
           /\ Len(log) >= replayBufferSize => Count(buf) = replayBufferSize
           /\ \A i \in 0 .. Count(buf) - 1, k \in Int :
                k = Len(log) - Count(buf) + 1 + i => At(buf, i) = log[k]
  BY ReplayBufferAssumption DEF HoldsNewest

(* add keeps the ring the newest part of the history: what was the i-th    *)
(* event stays the i-th while the ring fills up and becomes the i-1-th     *)
(* afterwards, in the slot it was in; the new one takes the slot at head.  *)
LEMMA AddHoldsNewest ==
  ASSUME NEW Event, NEW buf \in Ring(Event), NEW evt \in Event,
         NEW log \in Seq(Event), HoldsNewest(buf, log)
  PROVE  HoldsNewest(Add(buf, evt), Append(log, evt))
  <1>1. /\ replayBufferSize \in Nat \ {0} /\ Len(log) \in Nat
        /\ buf.head \in 0 .. replayBufferSize - 1 /\ buf.full \in BOOLEAN
        /\ buf.head \in Slots
    BY ReplayBufferAssumption DEF Ring, Slots
  <1>2. /\ Len(Append(log, evt)) = Len(log) + 1
        /\ Append(log, evt)[Len(log) + 1] = evt
        /\ \A k \in 1 .. Len(log) : Append(log, evt)[k] = log[k]
    OBVIOUS
  <1>3. Count(buf) \in Nat /\ (buf.full => Count(buf) = replayBufferSize)
        /\ (~buf.full => Count(buf) = buf.head)
    BY <1>1 DEF Count
  <1>4. /\ Len(log) < replayBufferSize => Count(buf) = Len(log)
        /\ Len(log) >= replayBufferSize => Count(buf) = replayBufferSize
    BY <1>1, <1>3, HoldsNewestAt
  <1>5. \A i \in 0 .. Count(buf) - 1, k \in Int :
          k = Len(log) - Count(buf) + 1 + i => At(buf, i) = log[k]
    BY <1>1, <1>3, HoldsNewestAt
  <1>6. PICK new : new = Add(buf, evt)
    OBVIOUS
  <1>7. /\ new \in Ring(Event)
        /\ new.head \in 0 .. replayBufferSize - 1 /\ new.full \in BOOLEAN
    BY <1>6, AddType DEF Ring, Slots
  <1>8. /\ buf.head + 1 < replayBufferSize => new.head = buf.head + 1 /\ new.full = buf.full
        /\ buf.head + 1 = replayBufferSize => new.head = 0 /\ new.full
    BY <1>6, AddFields
  <1>9. /\ new.events[buf.head] = evt
        /\ \A j \in Slots \ {buf.head} : new.events[j] = buf.events[j]
    BY <1>6, AddFields
  <1>10. /\ Count(new) \in Nat
         /\ new.full => Count(new) = replayBufferSize
         /\ ~new.full => Count(new) = new.head
         /\ Len(log) + 1 < replayBufferSize => Count(new) = Len(log) + 1
         /\ Len(log) + 1 >= replayBufferSize => Count(new) = replayBufferSize
    BY <1>1, <1>3, <1>4, <1>7, <1>8 DEF Count
  <1>11. ASSUME NEW i \in 0 .. Count(new) - 1, NEW k \in Int,
                k = Len(log) + 1 - Count(new) + 1 + i
         PROVE  At(new, i) = Append(log, evt)[k]
    <2>1. CASE k = Len(log) + 1
      <3>1. IsSlot(new, i, buf.head)
        <4>1. i = Count(new) - 1
          BY <1>1, <1>10, <1>11, <2>1
        <4>. QED  BY <1>1, <1>3, <1>4, <1>7, <1>8, <1>10, <4>1 DEF IsSlot
      <3>2. At(new, i) = new.events[buf.head]
        BY <1>1, <1>7, <3>1, AtSlot
      <3>. QED  BY <1>2, <1>9, <2>1, <3>2
    <2>2. CASE k # Len(log) + 1
      <3>1. k \in 1 .. Len(log)
        BY <1>1, <1>10, <1>11, <2>2
      <3>2. Count(new) \in {Count(buf), Count(buf) + 1}
        BY <1>1, <1>3, <1>4, <1>10
      <3>3. PICK i0 \in 0 .. Count(buf) - 1 :
              /\ k = Len(log) - Count(buf) + 1 + i0
              /\ Count(new) = Count(buf) => i0 = i + 1
              /\ Count(new) = Count(buf) + 1 => i0 = i
        <4>1. CASE Count(new) = Count(buf)
          <5>1. i + 1 \in 0 .. Count(buf) - 1 /\ k = Len(log) - Count(buf) + 1 + (i + 1)
            BY <1>1, <1>3, <1>11, <3>1, <4>1
          <5>. QED  BY <1>3, <4>1, <5>1
        <4>2. CASE Count(new) = Count(buf) + 1
          <5>1. i \in 0 .. Count(buf) - 1 /\ k = Len(log) - Count(buf) + 1 + i
            BY <1>1, <1>3, <1>11, <3>1, <4>2
          <5>. QED  BY <1>3, <4>2, <5>1
        <4>. QED  BY <3>2, <4>1, <4>2
      <3>4. PICK j \in Slots : IsSlot(buf, i0, j)
        BY AtSlot
      <3>5. j # buf.head /\ IsSlot(new, i, j)
        <4>1. i0 \in Int /\ 0 <= i0 /\ i0 < Count(buf) /\ i \in Int
          BY <1>3, <1>10
        <4>2. CASE ~buf.full /\ ~new.full
          <5>1. Count(new) = Count(buf) + 1
            BY <1>1, <1>3, <1>7, <1>8, <1>10, <4>2
          <5>2. i0 = i /\ i0 < buf.head
            BY <1>1, <1>3, <3>3, <4>1, <4>2, <5>1
          <5>3. j = i
            BY <3>4, <4>2, <5>2 DEF IsSlot
          <5>. QED  BY <1>1, <4>1, <4>2, <5>2, <5>3 DEF IsSlot
        <4>3. CASE ~buf.full /\ new.full
          <5>1. new.head = 0 /\ buf.head + 1 = replayBufferSize
            <6>1. CASE buf.head + 1 < replayBufferSize
              BY <1>8, <4>3, <6>1
            <6>. QED  BY <1>1, <1>8, <6>1
          <5>2. Count(new) = Count(buf) + 1
            BY <1>1, <1>3, <1>10, <4>3, <5>1
          <5>3. i0 = i /\ i0 < buf.head
            BY <1>1, <1>3, <3>3, <4>1, <4>3, <5>2
          <5>4. j = i
            BY <3>4, <4>3, <5>3 DEF IsSlot
          <5>. QED  BY <1>1, <3>4, <4>1, <4>3, <5>1, <5>3, <5>4 DEF IsSlot
        <4>4. CASE buf.full
          <5>0. new.full
            <6>1. CASE buf.head + 1 < replayBufferSize
              BY <1>8, <4>4, <6>1
            <6>. QED  BY <1>1, <1>8, <6>1
          <5>1. new.full /\ i0 = i + 1 /\ i0 < replayBufferSize
            BY <1>1, <1>3, <1>10, <3>3, <4>1, <4>4, <5>0
          <5>2. j \in Int /\ (j = buf.head + i0 \/ j = buf.head + i0 - replayBufferSize)
            BY <1>1, <3>4, <4>4 DEF IsSlot, Slots
          <5>3. \/ new.head = buf.head + 1
                \/ new.head = 0 /\ buf.head + 1 = replayBufferSize
            BY <1>1, <1>8
          <5>4. j # buf.head
            BY <1>1, <4>1, <5>1, <5>2
          <5>5. j = new.head + i \/ j = new.head + i - replayBufferSize
            BY <1>1, <3>4, <4>1, <5>1, <5>2, <5>3 DEF Slots
          <5>. QED  BY <3>4, <5>1, <5>4, <5>5 DEF IsSlot
        <4>. QED  BY <1>1, <1>7, <4>2, <4>3, <4>4
      <3>6. At(new, i) = new.events[j] /\ At(buf, i0) = buf.events[j]
        BY <1>7, <3>4, <3>5, AtSlot
      <3>7. At(buf, i0) = log[k]
        BY <1>5, <3>3
      <3>. QED  BY <1>2, <1>9, <3>1, <3>5, <3>6, <3>7
    <2>. QED  BY <2>1, <2>2
  <1>12. PICK log2 : log2 = Append(log, evt)
    OBVIOUS
  <1>13. Len(log2) = Len(log) + 1
    BY <1>2, <1>12
  <1>14. \A i \in 0 .. Count(new) - 1, k \in Int :
           k = Len(log2) - Count(new) + 1 + i => At(new, i) = log2[k]
    <2>1. ASSUME NEW i \in 0 .. Count(new) - 1, NEW k \in Int,
                 k = Len(log2) - Count(new) + 1 + i
          PROVE  At(new, i) = log2[k]
      <3>1. k = Len(log) + 1 - Count(new) + 1 + i
        BY <1>1, <1>10, <1>13, <2>1
      <3>. QED  BY <1>11, <1>12, <3>1
    <2>. QED  BY <2>1
  <1>15. Len(log2) \in Nat /\ HoldsNewest(new, log2)
    BY <1>1, <1>10, <1>13, <1>14, HoldsNewestAt
  <1>. QED  BY <1>6, <1>12, <1>15

(* since returns events of the history, and every one that is newer than   *)
(* sinceID and among the replayBufferSize newest.                          *)
LEMMA SinceReplays ==
  ASSUME NEW Event, NEW buf \in Ring(Event), NEW log \in Seq(Event),
         HoldsNewest(buf, log), NEW sinceID
  PROVE  /\ DOMAIN Since(buf, sinceID) \subseteq Slots
         /\ \A i \in DOMAIN Since(buf, sinceID) :
              \E k \in DOMAIN log : Since(buf, sinceID)[i] = log[k]
         /\ \A k \in DOMAIN log :
              log[k].EventID > sinceID /\ k > Len(log) - replayBufferSize =>
                \E i \in DOMAIN Since(buf, sinceID) : Since(buf, sinceID)[i] = log[k]
  <1>1. /\ replayBufferSize \in Nat \ {0} /\ Len(log) \in Nat
        /\ Count(buf) \in 0 .. replayBufferSize /\ Count(buf) <= Len(log)
    BY ReplayBufferAssumption DEF HoldsNewest
  <1>2. \A i \in 0 .. Count(buf) - 1 : At(buf, i) = log[Len(log) - Count(buf) + 1 + i]
    BY DEF HoldsNewest
  <1>3. /\ DOMAIN Since(buf, sinceID)
              = {j \in 0 .. Count(buf) - 1 : At(buf, j).EventID > sinceID}
        /\ \A i \in DOMAIN Since(buf, sinceID) : Since(buf, sinceID)[i] = At(buf, i)
    BY DEF Since
  <1>4. DOMAIN Since(buf, sinceID) \subseteq Slots
    BY <1>1, <1>3 DEF Slots
  <1>5. ASSUME NEW i \in DOMAIN Since(buf, sinceID)
        PROVE  \E k \in DOMAIN log : Since(buf, sinceID)[i] = log[k]
    <2>1. i \in 0 .. Count(buf) - 1 /\ Since(buf, sinceID)[i] = At(buf, i)
      BY <1>3
    <2>2. Len(log) - Count(buf) + 1 + i \in DOMAIN log
      BY <1>1, <2>1
    <2>. QED  BY <1>2, <2>1, <2>2
  <1>6. ASSUME NEW k \in DOMAIN log, log[k].EventID > sinceID,
               k > Len(log) - replayBufferSize
        PROVE  \E i \in DOMAIN Since(buf, sinceID) : Since(buf, sinceID)[i] = log[k]
    <2>1. k \in 1 .. Len(log)
      OBVIOUS
    <2>2. PICK j \in 0 .. Count(buf) - 1 : Len(log) - Count(buf) + 1 + j = k
      <3>1. Count(buf) = IF Len(log) < replayBufferSize THEN Len(log) ELSE replayBufferSize
        BY DEF HoldsNewest
      <3>2. k - 1 - (Len(log) - Count(buf)) \in 0 .. Count(buf) - 1
        BY <1>1, <1>6, <2>1, <3>1
      <3>. QED  BY <1>1, <2>1, <3>2
    <2>3. At(buf, j) = log[k]
      BY <1>2, <2>2
    <2>. QED  BY <1>3, <1>6, <2>3
  <1>. QED  BY <1>4, <1>5, <1>6

(* What it returns is in the order of the history, and newer than sinceID. *)
LEMMA SinceInOrder ==
  ASSUME NEW Event, NEW buf \in Ring(Event), NEW log \in Seq(Event),
         HoldsNewest(buf, log), NEW sinceID
  PROVE  /\ \A i \in DOMAIN Since(buf, sinceID) : Since(buf, sinceID)[i].EventID > sinceID
         /\ \A i, j \in DOMAIN Since(buf, sinceID) : i < j =>
              \E k, l \in DOMAIN log :
                k < l /\ Since(buf, sinceID)[i] = log[k] /\ Since(buf, sinceID)[j] = log[l]
  <1>1. /\ Len(log) \in Nat /\ Count(buf) \in Nat /\ Count(buf) <= Len(log)
    BY ReplayBufferAssumption DEF HoldsNewest
  <1>2. \A i \in 0 .. Count(buf) - 1 : At(buf, i) = log[Len(log) - Count(buf) + 1 + i]
    BY DEF HoldsNewest
  <1>3. /\ DOMAIN Since(buf, sinceID)
              = {j \in 0 .. Count(buf) - 1 : At(buf, j).EventID > sinceID}
        /\ \A i \in DOMAIN Since(buf, sinceID) : Since(buf, sinceID)[i] = At(buf, i)
    BY DEF Since
  <1>4. ASSUME NEW i \in DOMAIN Since(buf, sinceID), NEW j \in DOMAIN Since(buf, sinceID), i < j
        PROVE  \E k, l \in DOMAIN log :
                 k < l /\ Since(buf, sinceID)[i] = log[k] /\ Since(buf, sinceID)[j] = log[l]
    <2>1. i \in 0 .. Count(buf) - 1 /\ j \in 0 .. Count(buf) - 1
      BY <1>3
    <2>2. PICK k \in DOMAIN log, l \in DOMAIN log :
            k = Len(log) - Count(buf) + 1 + i /\ l = Len(log) - Count(buf) + 1 + j
      BY <1>1, <2>1
    <2>. QED  BY <1>1, <1>2, <1>3, <1>4, <2>1, <2>2
  <1>. QED  BY <1>3, <1>4
=============================================================================
