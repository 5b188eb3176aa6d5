---------------------------- MODULE ReplayBuffer ----------------------------
(***************************************************************************)
(* The per-tenant ring of recent events, type replayBuffer of              *)
(* internal/k8s/watcher.go.  The ring is a value: Add returns the ring     *)
(* after an append, Since the events a reconnecting client missed.  Every  *)
(* call happens under the watcher's mutex, so each is atomic.              *)
(***************************************************************************)
EXTENDS Integers, Sequences

CONSTANTS replayBufferSize,  \* the number of slots (128 in the code)
          NoEvent            \* the zero WatchEvent of an unused slot

ASSUME ReplayBufferAssumption == replayBufferSize \in Nat \ {0}

Slots == 0 .. replayBufferSize - 1

Ring(Event) == [events : [Slots -> Event \cup {NoEvent}],
                head   : Slots,
                full   : BOOLEAN]

(* A nil slice answers Since like a fresh one, so a tenant that has no     *)
(* buffer yet and one whose buffer is still nil are both NewBuffer.        *)
NewBuffer == [events |-> [i \in Slots |-> NoEvent], head |-> 0, full |-> FALSE]

(* Two slips in add: head runs off the slots; full is forgotten again.     *)
AddWithoutWrap(buf, evt) ==
  [events |-> [buf.events EXCEPT ![buf.head] = evt],
   head   |-> buf.head + 1,
   full   |-> buf.head + 1 = replayBufferSize]

AddForgetsFull(buf, evt) ==
  LET next == (buf.head + 1) % replayBufferSize
  IN  [events |-> [buf.events EXCEPT ![buf.head] = evt],
       head   |-> next,
       full   |-> next = 0]

Add(buf, evt) ==
  LET next == (buf.head + 1) % replayBufferSize
  IN  [events |-> [buf.events EXCEPT ![buf.head] = evt],
       head   |-> next,
       full   |-> buf.full \/ next = 0]

(* The chronological walk of since: Count slots, the oldest at index 0.    *)
Count(buf) == IF buf.full THEN replayBufferSize ELSE buf.head

At(buf, i) ==
  LET start == IF buf.full THEN buf.head ELSE 0
  IN  buf.events[(start + i) % replayBufferSize]

(* The slice since returns, as a function from the loop index at which an  *)
(* event is appended to that event: the order of the slice is the order of *)
(* the indices.                                                            *)
Since(buf, sinceID) ==
  [i \in {j \in 0 .. Count(buf) - 1 : At(buf, j).EventID > sinceID} |-> At(buf, i)]

-----------------------------------------------------------------------------
(* buf is what remains of the history log (every event ever added, oldest  *)
(* first): the newest Count(buf) of them, in order, and never fewer than   *)
(* the ring has slots for.                                                 *)
HoldsNewest(buf, log) ==
  /\ Count(buf) = IF Len(log) < replayBufferSize THEN Len(log) ELSE replayBufferSize
  /\ \A i \in 0 .. Count(buf) - 1 : At(buf, i) = log[Len(log) - Count(buf) + 1 + i]
=============================================================================
