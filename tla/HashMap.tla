------------------------------ MODULE HashMap ------------------------------
(***************************************************************************)
(* The open-addressing hash map of hashmap.c as operators on its value: a  *)
(* fixed array of slots, linear probing, tombstones, and a load limit of   *)
(* three quarters.  Hash stands for fnv1a; the mask of the code is the     *)
(* remainder, since the capacity is a power of two.                        *)
(***************************************************************************)
EXTENDS Integers, FiniteSetsExt

CONSTANTS Keys,      \* the keys in use (client ids)
          Capacity,  \* number of slots
          Hash       \* fnv1a of each key

ASSUME CapacityAssumption == Capacity \in {2^n : n \in 2 .. 20}
ASSUME HashAssumption == Hash \in [Keys -> Nat]

SlotIndex == 0 .. Capacity - 1

Null == -1   \* no value

Occupied(k, v) == [state |-> "OCCUPIED", key |-> {k}, value |-> v]
Empty   == [state |-> "EMPTY",   key |-> {}, value |-> Null]
Deleted == [state |-> "DELETED", key |-> {}, value |-> Null]

InitMap == [slots |-> [i \in SlotIndex |-> Empty], count |-> 0]

\* The slot of the j-th probe for k.
At(k, j) == (Hash[k] + j) % Capacity

\* The probes of a set in which a slot satisfies a test, and the first of them;
\* Capacity when there is none.
Probes(m, k, Test(_)) == {j \in SlotIndex : Test(m.slots[At(k, j)])}
First(js) == IF js = {} THEN Capacity ELSE Min(js)

Holds(slot, k) == slot.state = "OCCUPIED" /\ slot.key = {k}

\* Where the probe loops end: at the key, or at a slot that was never used.
Stop(m, k) == First(Probes(m, k, LAMBDA s : Holds(s, k) \/ s.state = "EMPTY"))

Found(m, k) == /\ Stop(m, k) < Capacity
               /\ Holds(m.slots[At(k, Stop(m, k))], k)

Get(m, k) == IF Found(m, k) THEN m.slots[At(k, Stop(m, k))].value ELSE Null

AtLimit(m) == m.count * 4 >= Capacity * 3

Insert(m, i, k, v) ==
  [slots |-> [m.slots EXCEPT ![i] = Occupied(k, v)], count |-> m.count + 1]

\* put() returns 0: below the load limit, and a slot to be found.
CanPut(m, k) ==
  /\ ~AtLimit(m)
  /\ Found(m, k) \/ \E i \in SlotIndex : m.slots[i].state # "OCCUPIED"

\* Overwrites the key, or takes the first tombstone of the probe chain, or the
\* slot that ends it.
Put(m, k, v) ==
  LET stop == Stop(m, k)
      tomb == First(Probes(m, k, LAMBDA s : s.state = "DELETED"))
  IN IF Found(m, k) THEN [m EXCEPT !.slots[At(k, stop)].value = v]
     ELSE Insert(m, At(k, IF tomb < stop THEN tomb ELSE stop), k, v)

\* Mutant of Remove: the slot is emptied, which cuts the probe chain.
Remove_Empties(m, k) ==
  IF ~Found(m, k) THEN m
  ELSE [slots |-> [m.slots EXCEPT ![At(k, Stop(m, k))] = Empty],
        count |-> m.count - 1]

Remove(m, k) ==
  IF ~Found(m, k) THEN m
  ELSE [slots |-> [m.slots EXCEPT ![At(k, Stop(m, k))] = Deleted],
        count |-> m.count - 1]
=============================================================================
