--------------------------- MODULE PresenceProofs ---------------------------
(***************************************************************************)
(* Proofs about the two halves of presence.c, for every set of clients,    *)
(* every capacity and hash, and every bound.                               *)
(*                                                                         *)
(* Presence: the map of hashmap.c does what a map does, whatever its keys  *)
(* hash to (parts 1 and 2); the pool and the map stay two views of one     *)
(* set, also through the sweep of end_sync (3 and 4); and a SYNC makes     *)
(* that set the server's (5 and 6).                                        *)
(*                                                                         *)
(* OwnPresence: the last presence frame that is on its way, or with none   *)
(* on its way the member of the server, is what the client believes; or a  *)
(* re-entry is coming that will make it so (7 to 9).                       *)
(***************************************************************************)
EXTENDS Presence, OwnPresence, WellFoundedInduction, FiniteSetTheorems, TLAPS

(* Part 1: the probe sequence.                                             *)

LEMMA Sizes ==
  /\ Capacity \in Nat \ {0} /\ \E q \in Nat : Capacity = 4 * q
  /\ Null \notin SlotIndex /\ 0 \in SlotIndex
<1>1. Capacity \in Nat /\ Capacity >= 4
  BY CapacityAssumption
<1>2. \E q \in Nat : Capacity = 4 * q
  BY CapacityAssumption
<1>3. Null \notin SlotIndex /\ 0 \in SlotIndex
  BY <1>1 DEF Null, SlotIndex
<1>4. QED
  BY <1>1, <1>2, <1>3

LEMMA MinIn ==
  ASSUME NEW S, S \subseteq Nat, S # {}
  PROVE  Min(S) \in S /\ \A y \in S : Min(S) <= y
<1> DEFINE Below == OpToRel(<, Nat)
<1>1. IsWellFoundedOn(Below, Nat)
  BY NatLessThanWellFounded
<1>2. \A x, y \in Nat : x < y => <<x, y>> \in Below
  BY DEF OpToRel
<1> HIDE DEF Below
<1>3. PICK x \in S : \A y \in S : <<y, x>> \notin Below
  BY <1>1, WFMin
<1>4. \A y \in S : x <= y
  <2> TAKE y \in S
  <2>1. x \in Nat /\ y \in Nat
    OBVIOUS
  <2>2. ~(y < x)
    BY <1>2, <1>3, <2>1, Zenon
  <2>3. QED
    BY <2>1, <2>2
<1>5. \E z \in S : \A y \in S : z <= y
  BY <1>4
<1>6. QED
  BY <1>5 DEF Min

LEMMA Remainder ==
  ASSUME NEW n \in Nat \ {0}, NEW q \in Nat, NEW r \in 0 .. n - 1
  PROVE  (n * q + r) % n = r
OBVIOUS

\* The probes of a key go on from its first one and wrap around.
LEMMA ProbeAt ==
  ASSUME NEW k \in Keys, NEW j \in SlotIndex
  PROVE  At(k, j) = IF At(k, 0) + j < Capacity THEN At(k, 0) + j
                                               ELSE At(k, 0) + j - Capacity
<1> DEFINE n == Capacity
           x == Hash[k]
           q == x \div n
           r == x % n
<1>1. n \in Nat \ {0} /\ x \in Nat /\ j \in 0 .. n - 1
  BY Sizes, HashAssumption DEF SlotIndex
<1>2. x = n * q + r
  BY <1>1, SMTT(30)
<1>3. q \in Nat /\ r \in 0 .. n - 1
  BY <1>1
<1> HIDE DEF n, x, q, r
<1>4. x + j = n * q + (r + j)
  BY <1>1, <1>2, <1>3
<1>5. CASE r + j < n
  <2>1. r + j \in 0 .. n - 1
    BY <1>1, <1>3, <1>5
  <2>2. (x + j) % n = r + j
    BY <1>1, <1>3, <1>4, <2>1, Remainder
  <2>3. QED
    BY <1>1, <1>5, <2>2 DEF At, r, n, x
<1>6. CASE ~(r + j < n)
  <2>1. r + j - n \in 0 .. n - 1
    BY <1>1, <1>3, <1>6
  <2>2. x + j = n * (q + 1) + (r + j - n)
    BY <1>1, <1>3, <1>4
  <2>3. q + 1 \in Nat
    BY <1>3
  <2>4. (x + j) % n = r + j - n
    BY <1>1, <2>1, <2>2, <2>3, Remainder
  <2>5. QED
    BY <1>1, <1>6, <2>4 DEF At, r, n, x
<1>7. QED
  BY <1>5, <1>6

\* They meet every slot, each once.
LEMMA ProbesAll ==
  ASSUME NEW k \in Keys
  PROVE  /\ \A j \in SlotIndex : At(k, j) \in SlotIndex
         /\ \A i, j \in SlotIndex : At(k, i) = At(k, j) => i = j
         /\ \A i \in SlotIndex : \E j \in SlotIndex : At(k, j) = i
<1>1. Capacity \in Nat \ {0} /\ Hash[k] \in Nat /\ 0 \in SlotIndex
  BY Sizes, HashAssumption
<1>2. At(k, 0) \in SlotIndex
  BY <1>1 DEF At, SlotIndex
<1>3. \A j \in SlotIndex : At(k, j) = IF At(k, 0) + j < Capacity THEN At(k, 0) + j
                                        ELSE At(k, 0) + j - Capacity
  BY ProbeAt
<1> DEFINE a == At(k, 0)
<1>4. a \in SlotIndex
  BY <1>2
<1>5. \A j \in SlotIndex : At(k, j) = IF a + j < Capacity THEN a + j ELSE a + j - Capacity
  BY <1>3
<1> HIDE DEF a
<1>6. \A j \in SlotIndex : At(k, j) \in SlotIndex
  BY <1>1, <1>4, <1>5 DEF SlotIndex
<1>7. \A i, j \in SlotIndex : At(k, i) = At(k, j) => i = j
  BY <1>1, <1>4, <1>5 DEF SlotIndex
<1>8. ASSUME NEW i \in SlotIndex
      PROVE  \E j \in SlotIndex : At(k, j) = i
  <2> DEFINE j == IF a <= i THEN i - a ELSE i - a + Capacity
  <2>1. j \in SlotIndex
    BY <1>1, <1>4 DEF SlotIndex
  <2>2. (IF a + j < Capacity THEN a + j ELSE a + j - Capacity) = i
    BY <1>1, <1>4 DEF SlotIndex
  <2>3. QED
    BY <1>5, <2>1, <2>2
<1>9. QED
  BY <1>6, <1>7, <1>8

(* Part 2: the map.                                                        *)

SlotValue == {Empty, Deleted} \cup {Occupied(k, e) : k \in Keys, e \in SlotIndex}

IsMap(m) == m \in [slots : [SlotIndex -> SlotValue], count : Int]

\* A key is in one slot, and no slot before it in its probe sequence was never used.
OneSlot(m) ==
  \A k \in Keys : \A i, j \in SlotIndex :
    Holds(m.slots[i], k) /\ Holds(m.slots[j], k) => i = j

ChainOK(m) ==
  \A k \in Keys : \A j \in SlotIndex :
    Holds(m.slots[At(k, j)], k) => \A i \in 0 .. j - 1 : m.slots[At(k, i)].state # "EMPTY"

MapOK(m) == IsMap(m) /\ OneSlot(m) /\ ChainOK(m)

\* The key is in the map, with the value e.
Leads(m, k, e) == \E i \in SlotIndex : m.slots[i] = Occupied(k, e)

LEMMA SlotKinds ==
  /\ \A k, e : Holds(Occupied(k, e), k) /\ Occupied(k, e).value = e
                 /\ Occupied(k, e).state = "OCCUPIED"
  /\ \A k : ~Holds(Empty, k) /\ ~Holds(Deleted, k)
  /\ Empty.state = "EMPTY" /\ Deleted.state = "DELETED"
  /\ \A s \in SlotValue, k \in Keys : Holds(s, k) => \E e \in SlotIndex : s = Occupied(k, e)
  /\ \A s \in SlotValue : s.state = "OCCUPIED" => \E k \in Keys : Holds(s, k)
  /\ \A s \in SlotValue : s.state = "EMPTY" => s = Empty
  /\ \A k, l, e, f : Occupied(k, e) = Occupied(l, f) => k = l /\ e = f
  /\ \A k, l, e : Holds(Occupied(k, e), l) => k = l
<1>1. \A k, e : Holds(Occupied(k, e), k) /\ Occupied(k, e).value = e
                  /\ Occupied(k, e).state = "OCCUPIED"
  BY DEF Holds, Occupied
<1>2. /\ \A k : ~Holds(Empty, k) /\ ~Holds(Deleted, k)
      /\ Empty.state = "EMPTY" /\ Deleted.state = "DELETED"
  BY DEF Holds, Empty, Deleted
<1>3. \A k, l, e : Holds(Occupied(k, e), l) => k = l
  BY DEF Holds, Occupied
<1>4. \A s \in SlotValue : \/ s = Empty \/ s = Deleted
                           \/ \E k \in Keys, e \in SlotIndex : s = Occupied(k, e)
  BY DEF SlotValue
<1>5. \A k, l, e, f : Occupied(k, e) = Occupied(l, f) => k = l /\ e = f
  BY <1>1, <1>3
<1>6. QED
  BY <1>1, <1>2, <1>3, <1>4, <1>5

LEMMA SlotTypes ==
  ASSUME NEW m, IsMap(m)
  PROVE  \A i \in SlotIndex : m.slots[i] \in SlotValue
BY DEF IsMap

\* The first probe of a set of probes.
LEMMA FirstIn ==
  ASSUME NEW js \in SUBSET SlotIndex
  PROVE  /\ js = {} => First(js) = Capacity
         /\ js # {} => First(js) \in js /\ \A y \in js : First(js) <= y
<1>1. js \subseteq Nat
  BY Sizes DEF SlotIndex
<1>2. QED
  BY <1>1, MinIn DEF First

\* Where the probe loops end, said without First.
Ends(m, k, j) == Holds(m.slots[At(k, j)], k) \/ m.slots[At(k, j)].state = "EMPTY"

LEMMA StopIs ==
  ASSUME NEW m, NEW k
  PROVE  \/ Stop(m, k) = Capacity /\ \A j \in SlotIndex : ~Ends(m, k, j)
         \/ /\ Stop(m, k) \in SlotIndex /\ Ends(m, k, Stop(m, k))
            /\ \A j \in SlotIndex : Ends(m, k, j) => Stop(m, k) <= j
<1> DEFINE js == {j \in SlotIndex : Ends(m, k, j)}
<1>1. Stop(m, k) = First(js)
  BY DEF Stop, Probes, Ends
<1>2. js \in SUBSET SlotIndex
  OBVIOUS
<1>3. CASE js = {}
  BY <1>1, <1>2, <1>3, FirstIn
<1>4. CASE js # {}
  BY <1>1, <1>2, <1>4, FirstIn
<1>5. QED
  BY <1>3, <1>4

\* The loops find a key that is in the map, in its slot, and no other.
LEMMA FindsKey ==
  ASSUME NEW m, MapOK(m), NEW k \in Keys, NEW j \in SlotIndex,
         Holds(m.slots[At(k, j)], k)
  PROVE  Stop(m, k) = j /\ Found(m, k)
<1>1. Ends(m, k, j)
  BY DEF Ends
<1>2. /\ Stop(m, k) \in SlotIndex /\ Ends(m, k, Stop(m, k)) /\ Stop(m, k) <= j
  BY <1>1, StopIs
<1> DEFINE s == Stop(m, k)
<1>3. s \in SlotIndex /\ Ends(m, k, s) /\ s <= j
  BY <1>2
<1> HIDE DEF s
<1>4. Capacity \in Nat
  BY Sizes
<1>5. CASE Holds(m.slots[At(k, s)], k)
  <2>1. At(k, s) = At(k, j)
    BY <1>3, <1>5, ProbesAll DEF MapOK, OneSlot
  <2>2. s = j
    BY <1>3, <2>1, ProbesAll
  <2>3. QED
    BY <1>4, <2>2 DEF s, Found, SlotIndex
<1>6. CASE ~Holds(m.slots[At(k, s)], k)
  <2>1. m.slots[At(k, s)].state = "EMPTY" /\ s # j
    BY <1>3, <1>6 DEF Ends
  <2>2. s \in 0 .. j - 1
    BY <1>3, <1>4, <2>1 DEF SlotIndex
  <2>3. QED
    BY <2>1, <2>2 DEF MapOK, ChainOK
<1>7. QED
  BY <1>5, <1>6

LEMMA FoundKey ==
  ASSUME NEW m, MapOK(m), NEW k \in Keys
  PROVE  /\ Found(m, k) <=> \E e \in SlotIndex : Leads(m, k, e)
         /\ Found(m, k) => /\ At(k, Stop(m, k)) \in SlotIndex
                           /\ Holds(m.slots[At(k, Stop(m, k))], k)
<1>1. Capacity \in Nat
  BY Sizes
<1>2. ASSUME Found(m, k)
      PROVE  /\ At(k, Stop(m, k)) \in SlotIndex /\ Holds(m.slots[At(k, Stop(m, k))], k)
             /\ \E e \in SlotIndex : Leads(m, k, e)
  <2>1. Stop(m, k) \in SlotIndex /\ Holds(m.slots[At(k, Stop(m, k))], k)
    BY <1>1, <1>2, StopIs DEF Found
  <2>2. At(k, Stop(m, k)) \in SlotIndex
    BY <2>1, ProbesAll
  <2>3. PICK e \in SlotIndex : m.slots[At(k, Stop(m, k))] = Occupied(k, e)
    BY <2>1, <2>2, SlotTypes, SlotKinds DEF MapOK
  <2>4. QED
    BY <2>1, <2>2, <2>3 DEF Leads
<1>3. ASSUME NEW e \in SlotIndex, Leads(m, k, e)
      PROVE  Found(m, k)
  <2>1. PICK i \in SlotIndex : m.slots[i] = Occupied(k, e)
    BY <1>3 DEF Leads
  <2>2. PICK j \in SlotIndex : At(k, j) = i
    BY ProbesAll
  <2>3. Holds(m.slots[At(k, j)], k)
    BY <2>1, <2>2, SlotKinds
  <2>4. QED
    BY <2>3, FindsKey
<1>4. QED
  BY <1>2, <1>3

\* get() gives the value of a key that is in the map, and none otherwise.
LEMMA GetIs ==
  ASSUME NEW m, MapOK(m), NEW k \in Keys
  PROVE  /\ \A e \in SlotIndex : Get(m, k) = e <=> Leads(m, k, e)
         /\ Get(m, k) = Null <=> ~Found(m, k)
         /\ Get(m, k) # Null => Get(m, k) \in SlotIndex
<1>1. CASE Found(m, k)
  <2> DEFINE i == At(k, Stop(m, k))
  <2>1. i \in SlotIndex /\ Holds(m.slots[i], k)
    BY <1>1, FoundKey
  <2>2. Get(m, k) = m.slots[i].value
    BY <1>1 DEF Get
  <2> HIDE DEF i
  <2>3. PICK e \in SlotIndex : m.slots[i] = Occupied(k, e)
    BY <2>1, SlotTypes, SlotKinds DEF MapOK
  <2>4. Get(m, k) = e
    BY <2>2, <2>3, SlotKinds
  <2>5. \A f \in SlotIndex : Leads(m, k, f) => f = e
    <3> SUFFICES ASSUME NEW f \in SlotIndex, Leads(m, k, f) PROVE f = e
      OBVIOUS
    <3>1. PICK j \in SlotIndex : m.slots[j] = Occupied(k, f)
      BY DEF Leads
    <3>2. j = i
      BY <2>1, <3>1, SlotKinds DEF MapOK, OneSlot
    <3>3. QED
      BY <2>3, <3>1, <3>2, SlotKinds
  <2>6. Leads(m, k, e)
    BY <2>1, <2>3 DEF Leads
  <2>7. QED
    BY <1>1, <2>3, <2>4, <2>5, <2>6, Sizes
<1>2. CASE ~Found(m, k)
  <2>1. Get(m, k) = Null
    BY <1>2 DEF Get
  <2>2. QED
    BY <1>2, <2>1, FoundKey, Sizes
<1>3. QED
  BY <1>1, <1>2

\* A key goes into a slot that holds none, with no slot before it that was never used.
LEMMA InsertIs ==
  ASSUME NEW m, MapOK(m), NEW k \in Keys, NEW v \in SlotIndex, ~Found(m, k),
         NEW t \in SlotIndex, m.slots[At(k, t)].state # "OCCUPIED",
         \A i \in 0 .. t - 1 : m.slots[At(k, i)].state # "EMPTY"
  PROVE  LET n == Insert(m, At(k, t), k, v)
         IN /\ MapOK(n) /\ n.count = m.count + 1
            /\ \A c \in Keys, e \in SlotIndex :
                 Leads(n, c, e) <=> Leads(m, c, e) \/ (c = k /\ e = v)
<1> DEFINE x == At(k, t)
           n == Insert(m, x, k, v)
<1>0. x \in SlotIndex
  BY ProbesAll
<1>1. IsMap(m)
  BY DEF MapOK
<1>2. Occupied(k, v) \in SlotValue
  BY DEF SlotValue
<1>3. n = [slots |-> [m.slots EXCEPT ![x] = Occupied(k, v)], count |-> m.count + 1]
  BY DEF Insert
<1>4. m.slots \in [SlotIndex -> SlotValue] /\ m.count \in Int
  BY <1>1 DEF IsMap
<1> HIDE DEF n
<1>5. /\ n.slots[x] = Occupied(k, v)
      /\ \A i \in SlotIndex : i # x => n.slots[i] = m.slots[i]
  BY <1>0, <1>3, <1>4
<1>6. IsMap(n) /\ n.count = m.count + 1
  BY <1>0, <1>2, <1>3, <1>4 DEF IsMap
<1>7. \A e \in SlotIndex : ~Leads(m, k, e)
  BY FoundKey
<1>8. \A i \in SlotIndex : ~Holds(m.slots[i], k)
  <2> SUFFICES ASSUME NEW i \in SlotIndex, Holds(m.slots[i], k) PROVE FALSE
    OBVIOUS
  <2>1. PICK e \in SlotIndex : m.slots[i] = Occupied(k, e)
    BY <1>1, SlotTypes, SlotKinds
  <2>2. QED
    BY <1>7, <2>1 DEF Leads
<1>9. m.slots[x].state # "OCCUPIED"
  OBVIOUS
<1>10. \A c \in Keys : ~Holds(m.slots[x], c)
  BY <1>9 DEF Holds
<1>11. \A c \in Keys, i \in SlotIndex :
         Holds(n.slots[i], c) <=> \/ i # x /\ Holds(m.slots[i], c)
                                  \/ i = x /\ c = k
  BY <1>5, SlotKinds
<1> HIDE DEF x
<1>12. OneSlot(n)
  BY <1>8, <1>11 DEF MapOK, OneSlot
<1>13. \A i \in SlotIndex : n.slots[i].state = "EMPTY" => m.slots[i].state = "EMPTY"
  BY <1>5, SlotKinds
<1>14. ChainOK(n)
  <2> SUFFICES ASSUME NEW c \in Keys, NEW j \in SlotIndex, Holds(n.slots[At(c, j)], c),
                      NEW i \in 0 .. j - 1
               PROVE  n.slots[At(c, i)].state # "EMPTY"
    BY DEF ChainOK
  <2>1. i \in SlotIndex
    BY Sizes DEF SlotIndex
  <2>2. At(c, i) \in SlotIndex /\ At(c, j) \in SlotIndex
    BY <2>1, ProbesAll
  <2>3. CASE Holds(m.slots[At(c, j)], c)
    <3>1. m.slots[At(c, i)].state # "EMPTY"
      BY <2>3 DEF MapOK, ChainOK
    <3>2. QED
      BY <1>13, <2>2, <3>1
  <2>4. CASE ~Holds(m.slots[At(c, j)], c)
    <3>1. At(c, j) = x /\ c = k
      BY <1>11, <2>2, <2>4
    <3>2. j = t
      BY <3>1, ProbesAll DEF x
    <3>3. m.slots[At(c, i)].state # "EMPTY"
      BY <3>1, <3>2
    <3>4. QED
      BY <1>13, <2>2, <3>3
  <2>5. QED
    BY <2>3, <2>4
<1>15. ASSUME NEW c \in Keys, NEW e \in SlotIndex
       PROVE  Leads(n, c, e) <=> Leads(m, c, e) \/ (c = k /\ e = v)
  <2>1. ASSUME Leads(n, c, e) PROVE Leads(m, c, e) \/ (c = k /\ e = v)
    <3>1. PICK i \in SlotIndex : n.slots[i] = Occupied(c, e)
      BY <2>1 DEF Leads
    <3>2. CASE i = x
      BY <1>5, <3>1, <3>2, SlotKinds
    <3>3. CASE i # x
      BY <1>5, <3>1, <3>3 DEF Leads
    <3>4. QED
      BY <3>2, <3>3
  <2>2. ASSUME Leads(m, c, e) PROVE Leads(n, c, e)
    <3>1. PICK i \in SlotIndex : m.slots[i] = Occupied(c, e)
      BY <2>2 DEF Leads
    <3>2. i # x
      BY <1>10, <3>1, SlotKinds
    <3>3. QED
      BY <1>5, <3>1, <3>2 DEF Leads
  <2>3. ASSUME c = k, e = v PROVE Leads(n, c, e)
    BY <1>0, <1>5, <2>3 DEF Leads
  <2>4. QED
    BY <2>1, <2>2, <2>3
<1>16. MapOK(n)
  BY <1>6, <1>12, <1>14 DEF MapOK
<1>17. n = Insert(m, At(k, t), k, v)
  BY DEF n, x
<1>18. QED
  BY <1>6, <1>15, <1>16, <1>17

\* put() of a key that is not in the map adds it and leaves the others.
LEMMA PutIs ==
  ASSUME NEW m, MapOK(m), NEW k \in Keys, NEW v \in SlotIndex, ~Found(m, k), CanPut(m, k)
  PROVE  /\ MapOK(Put(m, k, v)) /\ Put(m, k, v).count = m.count + 1
         /\ \A c \in Keys, e \in SlotIndex :
              Leads(Put(m, k, v), c, e) <=> Leads(m, c, e) \/ (c = k /\ e = v)
<1> DEFINE js == {j \in SlotIndex : m.slots[At(k, j)].state = "DELETED"}
           tomb == First(js)
           stop == Stop(m, k)
           t == IF tomb < stop THEN tomb ELSE stop
<1>1. Put(m, k, v) = Insert(m, At(k, t), k, v)
  BY DEF Put, Probes
<1>2. Capacity \in Nat
  BY Sizes
<1>3. \/ tomb = Capacity /\ js = {}
      \/ tomb \in js /\ \A y \in js : tomb <= y
  <2>1. js \in SUBSET SlotIndex
    OBVIOUS
  <2>2. QED
    BY <2>1, FirstIn
<1>4. \/ stop = Capacity /\ \A j \in SlotIndex : ~Ends(m, k, j)
      \/ stop \in SlotIndex /\ Ends(m, k, stop) /\ \A j \in SlotIndex : Ends(m, k, j) => stop <= j
  BY StopIs
<1> HIDE DEF js, tomb, stop
<1>5. \A j \in js : j \in SlotIndex /\ m.slots[At(k, j)].state = "DELETED"
  BY DEF js
<1>6. t \in SlotIndex /\ m.slots[At(k, t)].state # "OCCUPIED"
  <2>1. CASE tomb < stop
    <3>1. tomb \in js
      BY <1>2, <1>3, <1>4, <2>1 DEF SlotIndex
    <3>2. QED
      BY <1>5, <2>1, <3>1
  <2>2. CASE ~(tomb < stop) /\ stop \in SlotIndex
    <3>1. Ends(m, k, stop)
      BY <1>2, <1>4, <2>2 DEF SlotIndex
    <3>2. ~Holds(m.slots[At(k, stop)], k)
      BY <1>2, <2>2 DEF Found, stop, SlotIndex
    <3>3. QED
      BY <2>2, <3>1, <3>2 DEF Ends
  <2>3. CASE ~(tomb < stop) /\ stop = Capacity
    <3>1. js = {}
      BY <1>2, <1>3, <1>5, <2>3 DEF SlotIndex
    <3>2. \A j \in SlotIndex : ~Ends(m, k, j)
      BY <1>2, <1>4, <2>3 DEF SlotIndex
    <3>3. PICK i \in SlotIndex : m.slots[i].state # "OCCUPIED"
      BY DEF CanPut
    <3>4. PICK j \in SlotIndex : At(k, j) = i
      BY ProbesAll
    <3>5. m.slots[i] \in SlotValue
      BY SlotTypes DEF MapOK
    <3>6. m.slots[i].state \in {"EMPTY", "DELETED"}
      BY <3>3, <3>5, SlotKinds DEF SlotValue
    <3>7. QED
      BY <3>1, <3>2, <3>4, <3>6 DEF js, Ends
  <2>4. QED
    BY <1>4, <2>1, <2>2, <2>3
<1>7. \A i \in 0 .. t - 1 : m.slots[At(k, i)].state # "EMPTY"
  <2> SUFFICES ASSUME NEW i \in 0 .. t - 1 PROVE ~Ends(m, k, i)
    BY DEF Ends
  <2>1. i \in SlotIndex /\ i < t
    BY <1>2, <1>6 DEF SlotIndex
  <2>2. t <= stop
    BY <1>2, <1>3, <1>4, <1>5 DEF SlotIndex
  <2>3. i < stop
    BY <1>2, <1>4, <1>6, <2>1, <2>2 DEF SlotIndex
  <2>4. QED
    BY <1>2, <1>4, <2>1, <2>3 DEF SlotIndex
<1> HIDE DEF t
<1>8. QED
  BY <1>1, <1>6, <1>7, InsertIs

\* remove() takes the key out and leaves the others: the tombstone keeps their chains.
LEMMA RemoveIs ==
  ASSUME NEW m, MapOK(m), NEW k \in Keys
  PROVE  /\ MapOK(Remove(m, k))
         /\ Remove(m, k).count = IF Found(m, k) THEN m.count - 1 ELSE m.count
         /\ \A c \in Keys, e \in SlotIndex :
              Leads(Remove(m, k), c, e) <=> Leads(m, c, e) /\ c # k
<1>1. CASE ~Found(m, k)
  <2>1. Remove(m, k) = m
    BY <1>1 DEF Remove
  <2>2. \A e \in SlotIndex : ~Leads(m, k, e)
    BY <1>1, FoundKey
  <2>3. QED
    BY <1>1, <2>1, <2>2
<1>2. CASE Found(m, k)
  <2> DEFINE x == At(k, Stop(m, k))
             n == Remove(m, k)
  <2>1. x \in SlotIndex /\ Holds(m.slots[x], k)
    BY <1>2, FoundKey
  <2>2. n = [slots |-> [m.slots EXCEPT ![x] = Deleted], count |-> m.count - 1]
    BY <1>2 DEF Remove
  <2>3. IsMap(m) /\ m.slots \in [SlotIndex -> SlotValue] /\ m.count \in Int
    BY DEF MapOK, IsMap
  <2>4. Deleted \in SlotValue
    BY DEF SlotValue
  <2> HIDE DEF n, x
  <2>5. /\ n.slots[x] = Deleted
        /\ \A i \in SlotIndex : i # x => n.slots[i] = m.slots[i]
    BY <2>1, <2>2, <2>3
  <2>6. IsMap(n) /\ n.count = m.count - 1
    BY <2>1, <2>2, <2>3, <2>4 DEF IsMap
  <2>7. \A c \in Keys, i \in SlotIndex :
          Holds(n.slots[i], c) => i # x /\ Holds(m.slots[i], c)
    BY <2>5, SlotKinds
  <2>8. OneSlot(n)
    BY <2>7 DEF MapOK, OneSlot
  <2>9. \A i \in SlotIndex : n.slots[i].state = "EMPTY" => m.slots[i].state = "EMPTY"
    BY <2>5, SlotKinds
  <2>10. ChainOK(n)
    <3> SUFFICES ASSUME NEW c \in Keys, NEW j \in SlotIndex, Holds(n.slots[At(c, j)], c),
                        NEW i \in 0 .. j - 1
                 PROVE  n.slots[At(c, i)].state # "EMPTY"
      BY DEF ChainOK
    <3>1. i \in SlotIndex
      BY Sizes DEF SlotIndex
    <3>2. At(c, i) \in SlotIndex /\ At(c, j) \in SlotIndex
      BY <3>1, ProbesAll
    <3>3. m.slots[At(c, i)].state # "EMPTY"
      BY <2>7, <3>2 DEF MapOK, ChainOK
    <3>4. QED
      BY <2>9, <3>2, <3>3
  <2>11. ASSUME NEW c \in Keys, NEW e \in SlotIndex
         PROVE  Leads(n, c, e) <=> Leads(m, c, e) /\ c # k
    <3>1. ASSUME Leads(n, c, e) PROVE Leads(m, c, e) /\ c # k
      <4>1. PICK i \in SlotIndex : n.slots[i] = Occupied(c, e)
        BY <3>1 DEF Leads
      <4>2. i # x /\ m.slots[i] = Occupied(c, e)
        BY <2>5, <4>1, SlotKinds
      <4>3. c # k
        BY <2>1, <4>2, SlotKinds DEF MapOK, OneSlot
      <4>4. QED
        BY <4>2, <4>3 DEF Leads
    <3>2. ASSUME Leads(m, c, e), c # k PROVE Leads(n, c, e)
      <4>1. PICK i \in SlotIndex : m.slots[i] = Occupied(c, e)
        BY <3>2 DEF Leads
      <4>2. i # x
        BY <2>1, <3>2, <4>1, SlotKinds
      <4>3. QED
        BY <2>5, <4>1, <4>2 DEF Leads
    <3>3. QED
      BY <3>1, <3>2
  <2>12. MapOK(n)
    BY <2>6, <2>8, <2>10 DEF MapOK
  <2>13. n = Remove(m, k)
    BY DEF n
  <2>14. QED
    BY <1>2, <2>6, <2>11, <2>12, <2>13
<1>3. QED
  BY <1>1, <1>2

\* put() of a key that is in the map overwrites its value in place.
LEMMA OverwriteIs ==
  ASSUME NEW m, MapOK(m), NEW k \in Keys, NEW v \in SlotIndex, Found(m, k)
  PROVE  /\ MapOK(Put(m, k, v)) /\ Put(m, k, v).count = m.count
         /\ \A c \in Keys, e \in SlotIndex :
              Leads(Put(m, k, v), c, e) <=> (c # k /\ Leads(m, c, e)) \/ (c = k /\ e = v)
<1> DEFINE x == At(k, Stop(m, k))
           n == Put(m, k, v)
<1>1. x \in SlotIndex /\ Holds(m.slots[x], k)
  BY FoundKey
<1>2. n = [m EXCEPT !.slots[x].value = v]
  BY DEF Put
<1>3. m \in [slots : [SlotIndex -> SlotValue], count : Int]
  BY DEF MapOK, IsMap
<1> HIDE DEF x, n
<1>4. PICK f \in SlotIndex : m.slots[x] = Occupied(k, f)
  BY <1>1, SlotTypes, SlotKinds DEF MapOK
<1>5. [m.slots[x] EXCEPT !.value = v] = Occupied(k, v)
  BY <1>4 DEF Occupied
<1>6. n.count = m.count /\ n.slots = [m.slots EXCEPT ![x] = [m.slots[x] EXCEPT !.value = v]]
        /\ n = [slots |-> n.slots, count |-> m.count]
  BY <1>1, <1>2, <1>3
<1>7. m.slots \in [SlotIndex -> SlotValue] /\ m.count \in Int
  BY <1>3
<1>8. /\ n.slots[x] = Occupied(k, v)
      /\ \A i \in SlotIndex : i # x => n.slots[i] = m.slots[i]
  BY <1>1, <1>5, <1>6, <1>7
<1>9. IsMap(n)
  <2>1. Occupied(k, v) \in SlotValue
    BY DEF SlotValue
  <2>2. n.slots \in [SlotIndex -> SlotValue]
    BY <1>1, <1>5, <1>6, <1>7, <2>1
  <2>3. QED
    BY <1>6, <1>7, <2>2 DEF IsMap
<1>10. \A c \in Keys, i \in SlotIndex : Holds(n.slots[i], c) <=> Holds(m.slots[i], c)
  BY <1>4, <1>8, SlotKinds
<1>11. \A i \in SlotIndex : n.slots[i].state = "EMPTY" => m.slots[i].state = "EMPTY"
  BY <1>8, SlotKinds
<1>12. OneSlot(n)
  BY <1>10 DEF MapOK, OneSlot
<1>13. ChainOK(n)
  <2> SUFFICES ASSUME NEW c \in Keys, NEW j \in SlotIndex, Holds(n.slots[At(c, j)], c),
                      NEW i \in 0 .. j - 1
               PROVE  n.slots[At(c, i)].state # "EMPTY"
    BY DEF ChainOK
  <2>1. i \in SlotIndex
    BY Sizes DEF SlotIndex
  <2>2. At(c, i) \in SlotIndex /\ At(c, j) \in SlotIndex
    BY <2>1, ProbesAll
  <2>3. m.slots[At(c, i)].state # "EMPTY"
    BY <1>10, <2>2 DEF MapOK, ChainOK
  <2>4. QED
    BY <1>11, <2>2, <2>3
<1>14. ASSUME NEW c \in Keys, NEW e \in SlotIndex
       PROVE  Leads(n, c, e) <=> (c # k /\ Leads(m, c, e)) \/ (c = k /\ e = v)
  <2>1. ASSUME Leads(n, c, e) PROVE (c # k /\ Leads(m, c, e)) \/ (c = k /\ e = v)
    <3>1. PICK i \in SlotIndex : n.slots[i] = Occupied(c, e)
      BY <2>1 DEF Leads
    <3>2. CASE i = x
      BY <1>8, <3>1, <3>2, SlotKinds
    <3>3. CASE i # x
      <4>1. m.slots[i] = Occupied(c, e)
        BY <1>8, <3>1, <3>3
      <4>2. c # k
        BY <1>1, <3>3, <4>1, SlotKinds DEF MapOK, OneSlot
      <4>3. QED
        BY <4>1, <4>2 DEF Leads
    <3>4. QED
      BY <3>2, <3>3
  <2>2. ASSUME c # k, Leads(m, c, e) PROVE Leads(n, c, e)
    <3>1. PICK i \in SlotIndex : m.slots[i] = Occupied(c, e)
      BY <2>2 DEF Leads
    <3>2. i # x
      BY <1>1, <2>2, <3>1, SlotKinds
    <3>3. QED
      BY <1>8, <3>1, <3>2 DEF Leads
  <2>3. ASSUME c = k, e = v PROVE Leads(n, c, e)
    BY <1>1, <1>8, <2>3 DEF Leads
  <2>4. QED
    BY <2>1, <2>2, <2>3
<1>15. MapOK(n)
  BY <1>9, <1>12, <1>13 DEF MapOK
<1>16. n = Put(m, k, v)
  BY DEF n
<1>17. QED
  BY <1>6, <1>14, <1>15, <1>16

\* Two keys' values are the same when they lead to the same ones.
LEMMA SameGet ==
  ASSUME NEW m, MapOK(m), NEW n, MapOK(n), NEW c \in Keys,
         \A e \in SlotIndex : Leads(n, c, e) <=> Leads(m, c, e)
  PROVE  Get(n, c) = Get(m, c)
<1>1. CASE Get(m, c) = Null
  <2>1. ~Found(n, c)
    BY <1>1, GetIs, FoundKey
  <2>2. QED
    BY <1>1, <2>1, GetIs
<1>2. CASE Get(m, c) # Null
  <2>1. Get(m, c) \in SlotIndex /\ Leads(m, c, Get(m, c))
    BY <1>2, GetIs
  <2>2. Leads(n, c, Get(m, c))
    BY <2>1
  <2>3. QED
    BY <2>1, <2>2, GetIs
<1>3. QED
  BY <1>1, <1>2

\* After ably_hashmap_put, get() gives the new value of its key and the old one of
\* every other, for any hash, however chains overlap, wrap and hold tombstones.
THEOREM PutThenGet ==
  ASSUME NEW m, MapOK(m), NEW k \in Keys, NEW v \in SlotIndex, CanPut(m, k)
  PROVE  /\ MapOK(Put(m, k, v))
         /\ \A c \in Keys : Get(Put(m, k, v), c) = IF c = k THEN v ELSE Get(m, c)
<1> DEFINE n == Put(m, k, v)
<1>1. /\ MapOK(n)
      /\ \A c \in Keys, e \in SlotIndex :
           Leads(n, c, e) <=> (c # k /\ Leads(m, c, e)) \/ (c = k /\ e = v)
  <2>1. CASE Found(m, k)
    BY <2>1, OverwriteIs
  <2>2. CASE ~Found(m, k)
    <3>1. /\ MapOK(n)
          /\ \A c \in Keys, e \in SlotIndex : Leads(n, c, e) <=> Leads(m, c, e) \/ (c = k /\ e = v)
      BY <2>2, PutIs
    <3>2. \A e \in SlotIndex : ~Leads(m, k, e)
      BY <2>2, FoundKey
    <3>3. QED
      BY <3>1, <3>2
  <2>3. QED
    BY <2>1, <2>2
<1> HIDE DEF n
<1>2. ASSUME NEW c \in Keys
      PROVE  Get(n, c) = IF c = k THEN v ELSE Get(m, c)
  <2>1. CASE c = k
    <3>1. Leads(n, c, v)
      BY <1>1, <2>1
    <3>2. QED
      BY <1>1, <2>1, <3>1, GetIs
  <2>2. CASE c # k
    <3>1. \A e \in SlotIndex : Leads(n, c, e) <=> Leads(m, c, e)
      BY <1>1, <2>2
    <3>2. QED
      BY <1>1, <2>2, <3>1, SameGet
  <2>3. QED
    BY <2>1, <2>2
<1>3. QED
  BY <1>1, <1>2 DEF n

\* After ably_hashmap_remove, get() finds its key no more and every other as before:
\* the tombstone keeps the chains that went through the slot.
THEOREM RemoveThenGet ==
  ASSUME NEW m, MapOK(m), NEW k \in Keys
  PROVE  /\ MapOK(Remove(m, k))
         /\ \A c \in Keys : Get(Remove(m, k), c) = IF c = k THEN Null ELSE Get(m, c)
<1> DEFINE n == Remove(m, k)
<1>1. /\ MapOK(n)
      /\ \A c \in Keys, e \in SlotIndex : Leads(n, c, e) <=> Leads(m, c, e) /\ c # k
  BY RemoveIs
<1> HIDE DEF n
<1>2. ASSUME NEW c \in Keys
      PROVE  Get(n, c) = IF c = k THEN Null ELSE Get(m, c)
  <2>1. CASE c = k
    <3>1. ~Found(n, c)
      BY <1>1, <2>1, FoundKey
    <3>2. QED
      BY <1>1, <2>1, <3>1, GetIs
  <2>2. CASE c # k
    <3>1. \A e \in SlotIndex : Leads(n, c, e) <=> Leads(m, c, e)
      BY <1>1, <2>2
    <3>2. QED
      BY <1>1, <2>2, <3>1, SameGet
  <2>3. QED
    BY <2>1, <2>2
<1>3. QED
  BY <1>1, <1>2 DEF n

(* Part 3: the pool and its map.                                           *)

Entries == {Free} \cup [client : {{c} : c \in Keys}, stale : BOOLEAN]
Of(p) == UNION {p[i].client : i \in Pool}

\* Every entry in use is in the map under its client, and nothing else is.
Linked(p, m) == \A c \in Keys, e \in SlotIndex : Leads(m, c, e) <=> p[e].client = {c}

Paired(p, m) ==
  /\ p \in [Pool -> Entries] /\ MapOK(m) /\ Linked(p, m)
  /\ IsFiniteSet(Of(p)) /\ m.count = Cardinality(Of(p))

LEMMA EntryKinds ==
  /\ Free \in Entries /\ Free.client = {} /\ Free.stale = FALSE
  /\ \A c \in Keys : Member(c) \in Entries /\ Member(c).client = {c} /\ Member(c).stale = FALSE
  /\ \A x \in Entries : (x.client = {} /\ x.stale = FALSE) \/ \E c \in Keys : x.client = {c}
  /\ \A x \in Entries : x.stale \in BOOLEAN
  /\ \A x \in Entries : \A b \in BOOLEAN :
       x.client # {} => /\ [x EXCEPT !.stale = b] \in Entries
                        /\ [x EXCEPT !.stale = b].client = x.client
                        /\ [x EXCEPT !.stale = b].stale = b
  /\ \A x \in Entries : x.client = {} => [x EXCEPT !.stale = FALSE] = Free
<1>1. Free \in Entries /\ Free.client = {} /\ Free.stale = FALSE
  BY DEF Entries, Free
<1>2. \A c \in Keys : Member(c) \in Entries /\ Member(c).client = {c} /\ Member(c).stale = FALSE
  BY DEF Entries, Member
<1>3. \A x \in Entries : x = Free \/ x \in [client : {{c} : c \in Keys}, stale : BOOLEAN]
  BY DEF Entries
<1>4. \A x \in Entries : (x.client = {} /\ x.stale = FALSE) \/ \E c \in Keys : x.client = {c}
  BY <1>1, <1>3
<1>5. \A x \in Entries : x.stale \in BOOLEAN
  BY <1>1, <1>3
<1>6. ASSUME NEW x \in Entries, NEW b \in BOOLEAN, x.client # {}
      PROVE  /\ [x EXCEPT !.stale = b] \in Entries
             /\ [x EXCEPT !.stale = b].client = x.client
             /\ [x EXCEPT !.stale = b].stale = b
  <2>1. x \in [client : {{c} : c \in Keys}, stale : BOOLEAN]
    BY <1>1, <1>3, <1>6
  <2>2. [x EXCEPT !.stale = b] \in [client : {{c} : c \in Keys}, stale : BOOLEAN]
    BY <2>1
  <2>3. QED
    BY <2>1, <2>2 DEF Entries
<1>7. ASSUME NEW x \in Entries, x.client = {}
      PROVE  [x EXCEPT !.stale = FALSE] = Free
  <2>1. x = Free
    BY <1>3, <1>7
  <2>2. Free \in [client : {{}}, stale : BOOLEAN]
    BY DEF Free
  <2>3. [Free EXCEPT !.stale = FALSE] \in [client : {{}}, stale : {FALSE}]
    BY <2>2
  <2> DEFINE y == [Free EXCEPT !.stale = FALSE]
  <2>6. y \in [client : {{}}, stale : {FALSE}]
    BY <2>3
  <2> HIDE DEF y
  <2>7. y = [client |-> {}, stale |-> FALSE]
    BY <2>6
  <2>4. y = Free
    BY <2>7 DEF Free
  <2>5. QED
    BY <2>1, <2>4 DEF y
<1>8. QED
  BY <1>1, <1>2, <1>4, <1>5, <1>6, <1>7

LEMMA OfMeans ==
  ASSUME NEW p \in [Pool -> Entries]
  PROVE  /\ \A c : c \in Of(p) <=> c \in Keys /\ \E i \in Pool : p[i].client = {c}
         /\ \A c : c \in Stale(p) <=>
                     c \in Keys /\ \E i \in Pool : p[i].stale /\ p[i].client = {c}
<1>1. \A i \in Pool : p[i].client = {} \/ \E c \in Keys : p[i].client = {c}
  BY EntryKinds
<1>2. \A c : c \in Of(p) <=> \E i \in Pool : c \in p[i].client
  BY DEF Of
<1>3. \A c : c \in Stale(p) <=> \E i \in Pool : p[i].stale /\ c \in p[i].client
  BY DEF Stale
<1>4. \A c, i : i \in Pool => (c \in p[i].client <=> c \in Keys /\ p[i].client = {c})
  BY <1>1
<1>5. QED
  BY <1>2, <1>3, <1>4

\* get() leads to the entry of a client, which has one only.
LEMMA PairedGet ==
  ASSUME NEW p, NEW m, Paired(p, m), NEW c \in Keys
  PROVE  /\ Get(m, c) = Null <=> c \notin Of(p)
         /\ Get(m, c) = Null <=> ~Found(m, c)
         /\ Get(m, c) # Null => Get(m, c) \in Pool /\ p[Get(m, c)].client = {c}
         /\ \A i \in Pool : p[i].client = {c} => i = Get(m, c)
<1>0. p \in [Pool -> Entries] /\ MapOK(m) /\ Linked(p, m)
  BY DEF Paired
<1>1. \A i \in Pool : p[i].client = {c} => i = Get(m, c)
  BY <1>0, GetIs DEF Linked, Pool
<1>2. Get(m, c) # Null => Get(m, c) \in Pool /\ p[Get(m, c)].client = {c}
  BY <1>0, GetIs DEF Linked, Pool
<1>3. Get(m, c) = Null <=> c \notin Of(p)
  <2>1. c \in Of(p) <=> \E i \in Pool : p[i].client = {c}
    BY <1>0, OfMeans
  <2>2. Null \notin Pool
    BY Sizes DEF Pool
  <2>3. QED
    BY <1>1, <1>2, <2>1, <2>2
<1>4. QED
  BY <1>0, <1>1, <1>2, <1>3, GetIs

LEMMA PairedMatches ==
  Paired(pool, map) => MapMatchesPool
<1> SUFFICES ASSUME Paired(pool, map) PROVE MapMatchesPool
  OBVIOUS
<1>1. Members = Of(pool)
  BY DEF Members, Of
<1>2. \A c \in Keys : LET e == Get(map, c)
                      IN IF c \in Members THEN e # Null /\ pool[e].client = {c}
                         ELSE e = Null
  BY <1>1, PairedGet
<1>3. \A i, j \in Pool : InUse(i) /\ pool[i].client = pool[j].client => i = j
  <2> SUFFICES ASSUME NEW i \in Pool, NEW j \in Pool, InUse(i),
                      pool[i].client = pool[j].client
               PROVE  i = j
    OBVIOUS
  <2>1. pool[i] \in Entries
    BY DEF Paired
  <2>2. PICK c \in Keys : pool[i].client = {c}
    BY <2>1, EntryKinds DEF InUse
  <2>3. i = Get(map, c)
    BY <2>2, PairedGet
  <2>4. pool[j].client = {c}
    BY <2>2, Zenon
  <2>5. j = Get(map, c)
    BY <2>4, PairedGet
  <2>6. QED
    BY <2>3, <2>5, Zenon
<1>4. map.count = Cardinality(Members)
  BY <1>1 DEF Paired
<1>5. QED
  BY <1>2, <1>3, <1>4 DEF MapMatchesPool

\* A change of stale marks is none to the map.
LEMMA MarkPaired ==
  ASSUME NEW p, NEW m, Paired(p, m), NEW q \in [Pool -> Entries],
         \A i \in Pool : q[i].client = p[i].client
  PROVE  Paired(q, m) /\ Of(q) = Of(p)
<1>1. Of(q) = Of(p)
  BY DEF Of
<1>2. Linked(q, m)
  BY DEF Paired, Linked, Pool
<1>3. QED
  BY <1>1, <1>2 DEF Paired

(* Part 4: the handlers.                                                   *)

\* What upsert_member comes to, and remove_member, and end_sync.
Upserts(c, p) ==
  /\ Paired(pool', map')
  /\ Of(pool') = Of(pool) \/ (Of(pool') = Of(pool) \cup {c} /\ ~AtLimit(map))
  /\ Stale(pool') = Stale(p) \ {c}
  /\ \/ c \in Of(pool') /\ (refused' = refused \ {c} \/ (c \in Of(pool) /\ refused' = refused))
     \/ c \notin Of(pool') /\ refused' = refused \cup {c}

\* Of two pools the second has nothing stale of c, in e, and is the first elsewhere.
Cleared(p, q, c, e) ==
  /\ \A i \in Pool : i # e => q[i] = p[i] /\ p[i].client # {c}
  /\ q[e].client = {} \/ (q[e].client = {c} /\ ~q[e].stale)
  /\ p[e].client = {} \/ p[e].client = {c}

LEMMA StaleAfter ==
  ASSUME NEW p \in [Pool -> Entries], NEW q \in [Pool -> Entries], NEW c \in Keys,
         NEW e \in Pool, Cleared(p, q, c, e)
  PROVE  Stale(q) = Stale(p) \ {c}
<1>0. /\ \A i \in Pool : i # e => q[i] = p[i] /\ p[i].client # {c}
      /\ q[e].client = {} \/ (q[e].client = {c} /\ ~q[e].stale)
      /\ p[e].client = {} \/ p[e].client = {c}
  BY DEF Cleared
<1>1. \A d : d \in Stale(p) <=> d \in Keys /\ \E i \in Pool : p[i].stale /\ p[i].client = {d}
  BY OfMeans
<1>2. \A d : d \in Stale(q) <=> d \in Keys /\ \E i \in Pool : q[i].stale /\ q[i].client = {d}
  BY OfMeans
<1>3. c \notin Stale(q)
  BY <1>0, <1>2
<1>4. ASSUME NEW d, d # c
      PROVE  d \in Stale(q) <=> d \in Stale(p)
  <2>1. q[e].client # {d} /\ p[e].client # {d}
    BY <1>0, <1>4
  <2>2. ASSUME d \in Stale(q) PROVE d \in Stale(p)
    <3>1. PICK i \in Pool : q[i].stale /\ q[i].client = {d}
      BY <1>2, <2>2
    <3>2. q[i] = p[i]
      BY <1>0, <2>1, <3>1
    <3>3. QED
      BY <1>1, <1>2, <2>2, <3>1, <3>2
  <2>3. ASSUME d \in Stale(p) PROVE d \in Stale(q)
    <3>1. PICK i \in Pool : p[i].stale /\ p[i].client = {d}
      BY <1>1, <2>3
    <3>2. q[i] = p[i]
      BY <1>0, <2>1, <3>1
    <3>3. QED
      BY <1>1, <1>2, <2>3, <3>1, <3>2
  <2>4. QED
    BY <2>2, <2>3
<1>5. QED
  BY <1>3, <1>4

LEMMA UpsertIs ==
  ASSUME Paired(pool, map), NEW c \in Keys, NEW p \in [Pool -> Entries],
         \A i \in Pool : p[i].client = pool[i].client,
         UpsertMember(c, p)
  PROVE  Upserts(c, p)
<1> DEFINE e == Get(map, c)
<1>1. Paired(p, map) /\ Of(p) = Of(pool)
  BY MarkPaired
<1>2. /\ e = Null <=> c \notin Of(p)
      /\ e = Null <=> ~Found(map, c)
      /\ e # Null => e \in Pool /\ p[e].client = {c}
      /\ \A i \in Pool : p[i].client = {c} => i = e
  BY <1>1, PairedGet
<1>3. \/ /\ e # Null /\ pool' = [p EXCEPT ![e].stale = FALSE]
         /\ map' = map /\ refused' = refused
      \/ /\ e = Null /\ FreeEntries # {} /\ CanPut(map, c)
         /\ pool' = [p EXCEPT ![Min(FreeEntries)] = Member(c)]
         /\ map' = Put(map, c, Min(FreeEntries)) /\ refused' = refused \ {c}
      \/ e = Null /\ pool' = p /\ refused' = refused \cup {c} /\ map' = map
  BY DEF UpsertMember
<1> HIDE DEF e
<1>4. CASE /\ e # Null /\ pool' = [p EXCEPT ![e].stale = FALSE]
           /\ map' = map /\ refused' = refused
  <2>1. e \in Pool /\ p[e].client = {c} /\ c \in Of(p)
    BY <1>2, <1>4
  <2> DEFINE q == [p EXCEPT ![e].stale = FALSE]
             x == p[e]
  <2>2. x \in Entries /\ x.client = {c}
    BY <2>1
  <2>3. /\ [x EXCEPT !.stale = FALSE] \in Entries
        /\ [x EXCEPT !.stale = FALSE].client = {c}
        /\ [x EXCEPT !.stale = FALSE].stale = FALSE
    BY <2>2, EntryKinds
  <2>4. q = [p EXCEPT ![e] = [x EXCEPT !.stale = FALSE]]
    OBVIOUS
  <2>5. pool' = q
    BY <1>4
  <2> HIDE DEF x, q
  <2>6. q \in [Pool -> Entries] /\ q[e] = [x EXCEPT !.stale = FALSE]
        /\ \A i \in Pool : i # e => q[i] = p[i]
    BY <2>1, <2>3, <2>4
  <2>7. \A i \in Pool : q[i].client = p[i].client
    BY <2>1, <2>3, <2>6
  <2>8. Paired(q, map) /\ Of(q) = Of(p)
    BY <1>1, <2>6, <2>7, MarkPaired
  <2>9. Stale(q) = Stale(p) \ {c}
    <3>1. Cleared(p, q, c, e)
      BY <1>2, <2>1, <2>3, <2>6 DEF Cleared
    <3>2. QED
      BY <2>1, <2>6, <3>1, StaleAfter
  <2>10. QED
    BY <1>1, <1>4, <2>1, <2>5, <2>8, <2>9 DEF Upserts
<1>5. CASE /\ e = Null /\ FreeEntries # {} /\ CanPut(map, c)
           /\ pool' = [p EXCEPT ![Min(FreeEntries)] = Member(c)]
           /\ map' = Put(map, c, Min(FreeEntries)) /\ refused' = refused \ {c}
  <2> DEFINE f == Min(FreeEntries)
             q == [p EXCEPT ![f] = Member(c)]
  <2>1. f \in Pool /\ p[f].client = {}
    <3>1. FreeEntries \subseteq Nat
      BY Sizes DEF FreeEntries, Pool, SlotIndex
    <3>2. f \in FreeEntries
      BY <1>5, <3>1, MinIn
    <3>3. QED
      BY <3>2 DEF FreeEntries, InUse
  <2>2. pool' = q /\ map' = Put(map, c, f)
    BY <1>5
  <2> HIDE DEF f
  <2>3. /\ q \in [Pool -> Entries] /\ q[f].client = {c} /\ ~q[f].stale
        /\ \A i \in Pool : i # f => q[i] = p[i]
    BY <2>1, EntryKinds
  <2> HIDE DEF q
  <2>4. ~Found(map, c) /\ c \notin Of(p) /\ f \in SlotIndex
    BY <1>2, <1>5, <2>1 DEF Pool
  <2>5. MapOK(map) /\ CanPut(map, c) /\ Linked(p, map)
    BY <1>1, <1>5 DEF Paired
  <2> DEFINE n == Put(map, c, f)
  <2>6. /\ MapOK(n) /\ n.count = map.count + 1
        /\ \A d \in Keys, i \in SlotIndex : Leads(n, d, i) <=> Leads(map, d, i) \/ (d = c /\ i = f)
    BY <2>4, <2>5, PutIs
  <2> HIDE DEF n
  <2>7. Of(q) = Of(p) \cup {c}
    <3>1. \A d : d \in Of(p) <=> d \in Keys /\ \E i \in Pool : p[i].client = {d}
      BY OfMeans
    <3>2. \A d : d \in Of(q) <=> d \in Keys /\ \E i \in Pool : q[i].client = {d}
      BY <2>3, OfMeans
    <3>3. ASSUME NEW d \in Keys
          PROVE  (\E i \in Pool : q[i].client = {d})
                   <=> d = c \/ \E i \in Pool : p[i].client = {d}
      <4>1. {d} = {c} <=> d = c
        OBVIOUS
      <4>2. CASE d = c
        BY <2>1, <2>3, <4>2
      <4>3. CASE d # c
        <5>1. q[f].client # {d}
          BY <2>3, <4>1, <4>3
        <5>2. p[f].client # {d}
          BY <1>1, <2>1
        <5>3. \A i \in Pool : q[i].client = {d} <=> p[i].client = {d}
          BY <2>3, <5>1, <5>2
        <5>4. QED
          BY <4>3, <5>3
      <4>4. QED
        BY <4>2, <4>3
    <3>4. \A d : d \in Of(q) <=> d \in Of(p) \cup {c}
      BY <3>1, <3>2, <3>3
    <3>5. QED
      BY <3>4
  <2>8. Linked(q, n)
    <3> SUFFICES ASSUME NEW d \in Keys, NEW i \in SlotIndex
                 PROVE  Leads(n, d, i) <=> q[i].client = {d}
      BY DEF Linked
    <3>1. Leads(map, d, i) <=> p[i].client = {d}
      BY <2>5 DEF Linked
    <3>2. CASE i = f
      BY <2>1, <2>3, <2>6, <3>1, <3>2
    <3>3. CASE i # f
      BY <2>3, <2>6, <3>1, <3>3 DEF Pool
    <3>4. QED
      BY <3>2, <3>3
  <2>9. IsFiniteSet(Of(q)) /\ n.count = Cardinality(Of(q))
    BY <1>1, <2>4, <2>6, <2>7, FS_AddElement DEF Paired
  <2>10. Paired(q, n)
    BY <2>3, <2>6, <2>8, <2>9 DEF Paired
  <2>11. Stale(q) = Stale(p) \ {c}
    <3>1. \A i \in Pool : i # f => p[i].client # {c}
      BY <1>2, <1>5, Sizes DEF Pool
    <3>2. Cleared(p, q, c, f)
      BY <2>1, <2>3, <3>1 DEF Cleared
    <3>3. QED
      BY <2>1, <2>3, <3>2, StaleAfter
  <2>12. c \in Of(q)
    BY <2>7
  <2>13. pool' = q /\ map' = n
    BY <2>2 DEF n
  <2>14. ~AtLimit(map)
    BY <1>5 DEF CanPut
  <2>15. QED
    BY <1>1, <1>5, <2>7, <2>10, <2>11, <2>12, <2>13, <2>14 DEF Upserts
<1>6. CASE e = Null /\ pool' = p /\ refused' = refused \cup {c} /\ map' = map
  <2>1. c \notin Of(p)
    BY <1>2, <1>6
  <2>2. Stale(p) = Stale(p) \ {c}
    BY <2>1, OfMeans
  <2>3. QED
    BY <1>1, <1>6, <2>1, <2>2 DEF Upserts
<1>7. QED
  BY <1>3, <1>4, <1>5, <1>6

Removes(c) ==
  /\ Paired(pool', map') /\ Of(pool') = Of(pool) \ {c}
  /\ Stale(pool') = Stale(pool) \ {c} /\ refused' = refused \ {c}

\* One member goes, out of the pool and out of the map.
LEMMA DropIs ==
  ASSUME NEW p, NEW m, Paired(p, m), NEW c \in Keys, NEW e \in Pool, p[e].client = {c}
  PROVE  LET q == [p EXCEPT ![e] = Free]
         IN /\ Paired(q, Remove(m, c)) /\ Of(q) = Of(p) \ {c}
            /\ Stale(q) = Stale(p) \ {c}
<1> DEFINE q == [p EXCEPT ![e] = Free]
           n == Remove(m, c)
<1>1. p \in [Pool -> Entries] /\ MapOK(m) /\ Linked(p, m)
  BY DEF Paired
<1>2. /\ q \in [Pool -> Entries] /\ q[e].client = {} /\ ~q[e].stale
      /\ \A i \in Pool : i # e => q[i] = p[i]
  BY <1>1, EntryKinds
<1>3. /\ c \in Of(p) /\ Found(m, c)
      /\ \A i \in Pool : p[i].client = {c} => i = e
  <2>1. c \in Of(p)
    BY <1>1, OfMeans
  <2>2. e = Get(m, c)
    BY PairedGet
  <2>3. QED
    BY <2>1, <2>2, PairedGet
<1>4. /\ MapOK(n) /\ n.count = m.count - 1
      /\ \A d \in Keys, i \in SlotIndex : Leads(n, d, i) <=> Leads(m, d, i) /\ d # c
  BY <1>1, <1>3, RemoveIs
<1> HIDE DEF q, n
<1>5. Of(q) = Of(p) \ {c}
  <2>1. \A d : d \in Of(p) <=> d \in Keys /\ \E i \in Pool : p[i].client = {d}
    BY <1>1, OfMeans
  <2>2. \A d : d \in Of(q) <=> d \in Keys /\ \E i \in Pool : q[i].client = {d}
    BY <1>2, OfMeans
  <2>3. QED
    BY <1>2, <1>3, <2>1, <2>2
<1>6. Linked(q, n)
  <2> SUFFICES ASSUME NEW d \in Keys, NEW i \in SlotIndex
               PROVE  Leads(n, d, i) <=> q[i].client = {d}
    BY DEF Linked
  <2>1. Leads(m, d, i) <=> p[i].client = {d}
    BY <1>1 DEF Linked
  <2>2. CASE i = e
    BY <1>2, <1>4, <2>1, <2>2
  <2>3. CASE i # e
    <3>1. i \in Pool /\ q[i] = p[i] /\ p[i].client # {c}
      BY <1>2, <1>3, <2>3 DEF Pool
    <3>2. QED
      BY <1>4, <2>1, <3>1
  <2>4. QED
    BY <2>2, <2>3
<1>7. IsFiniteSet(Of(q)) /\ n.count = Cardinality(Of(q))
  BY <1>3, <1>4, <1>5, FS_RemoveElement DEF Paired
<1>8. Stale(q) = Stale(p) \ {c}
  <2>1. Cleared(p, q, c, e)
    BY <1>2, <1>3 DEF Cleared
  <2>2. QED
    BY <1>1, <1>2, <2>1, StaleAfter
<1>9. Paired(q, n)
  BY <1>2, <1>4, <1>6, <1>7 DEF Paired
<1>10. QED
  BY <1>5, <1>8, <1>9 DEF q, n

LEMMA RemoveMemberIs ==
  ASSUME Paired(pool, map), NEW c \in Keys, RemoveMember(c)
  PROVE  Removes(c)
<1> DEFINE e == Get(map, c)
<1>1. /\ pool' = IF e = Null THEN pool ELSE [pool EXCEPT ![e] = Free]
      /\ map' = Remove(map, c) /\ refused' = refused \ {c}
  BY DEF RemoveMember
<1>2. /\ e = Null <=> c \notin Of(pool)
      /\ e = Null <=> ~Found(map, c)
      /\ e # Null => e \in Pool /\ pool[e].client = {c}
  BY PairedGet
<1> HIDE DEF e
<1>3. CASE e = Null
  <2>1. map' = map /\ pool' = pool
    BY <1>1, <1>2, <1>3 DEF Remove
  <2>2. c \notin Stale(pool)
    BY <1>2, <1>3, OfMeans DEF Paired
  <2>3. QED
    BY <1>1, <1>2, <1>3, <2>1, <2>2 DEF Removes
<1>4. CASE e # Null
  BY <1>1, <1>2, <1>4, DropIs DEF Removes
<1>5. QED
  BY <1>3, <1>4

\* The maps of end_sync, one for each entry it has gone through, are well defined.
Runs(g, m, p, n) ==
  g = [i \in 0 .. n |-> IF i = 0 THEN m ELSE DropStale(g[i - 1], p[i - 1])]

LEMMA RunExists ==
  ASSUME NEW m, NEW p
  PROVE  \A n \in 0 .. Capacity : \E g : Runs(g, m, p, n)
<1> DEFINE bad == {n \in 0 .. Capacity : ~\E g : Runs(g, m, p, n)}
           z == Min(bad)
<1>1. SUFFICES ASSUME bad # {} PROVE FALSE
  OBVIOUS
<1>2. Capacity \in Nat /\ bad \subseteq Nat
  BY Sizes
<1>3. z \in bad /\ \A y \in bad : z <= y
  BY <1>1, <1>2, MinIn
<1>4. /\ z \in 0 .. Capacity /\ ~\E g : Runs(g, m, p, z)
      /\ \A y \in 0 .. Capacity : y < z => \E g : Runs(g, m, p, y)
  BY <1>2, <1>3
<1> HIDE DEF z, bad
<1>5. CASE z = 0
  <2> DEFINE h == [i \in 0 .. z |-> m]
  <2>1. h = [i \in 0 .. z |-> IF i = 0 THEN m ELSE DropStale(h[i - 1], p[i - 1])]
    BY <1>5
  <2>2. QED
    BY <1>4, <2>1 DEF Runs
<1>6. CASE z # 0
  <2>1. z - 1 \in 0 .. Capacity /\ z - 1 < z
    BY <1>2, <1>4, <1>6
  <2>2. PICK g : Runs(g, m, p, z - 1)
    BY <1>4, <2>1
  <2> DEFINE h == [i \in 0 .. z |-> IF i = z THEN DropStale(g[i - 1], p[i - 1]) ELSE g[i]]
  <2>3. g = [i \in 0 .. z - 1 |-> IF i = 0 THEN m ELSE DropStale(g[i - 1], p[i - 1])]
    BY <2>2 DEF Runs
  <2>4. \A i \in 0 .. z : h[i] = IF i = 0 THEN m ELSE DropStale(h[i - 1], p[i - 1])
    <3> SUFFICES ASSUME NEW i \in 0 .. z
                 PROVE  h[i] = IF i = 0 THEN m ELSE DropStale(h[i - 1], p[i - 1])
      OBVIOUS
    <3>1. CASE i = z
      <4>1. i - 1 \in 0 .. z /\ i - 1 # z
        BY <1>4, <1>6, <3>1
      <4>2. h[i - 1] = g[i - 1] /\ h[i] = DropStale(g[i - 1], p[i - 1])
        BY <3>1, <4>1
      <4>3. QED
        BY <1>6, <3>1, <4>2
    <3>2. CASE i # z
      <4>1. i \in 0 .. z - 1 /\ h[i] = g[i]
        BY <1>4, <3>2
      <4>2. g[i] = IF i = 0 THEN m ELSE DropStale(g[i - 1], p[i - 1])
        BY <2>3, <4>1
      <4>3. CASE i = 0
        BY <4>1, <4>2, <4>3
      <4>4. CASE i # 0
        <5>1. i - 1 \in 0 .. z /\ i - 1 # z
          BY <1>4, <4>1, <4>4
        <5>2. h[i - 1] = g[i - 1]
          BY <5>1
        <5>3. QED
          BY <4>1, <4>2, <4>4, <5>2
      <4>5. QED
        BY <4>3, <4>4
    <3>3. QED
      BY <3>1, <3>2
  <2>5. h = [i \in 0 .. z |-> h[i]]
    OBVIOUS
  <2> HIDE DEF h
  <2>6. [i \in 0 .. z |-> h[i]]
          = [i \in 0 .. z |-> IF i = 0 THEN m ELSE DropStale(h[i - 1], p[i - 1])]
    BY <2>4
  <2>7. Runs(h, m, p, z)
    BY <2>5, <2>6 DEF Runs
  <2>8. QED
    BY <1>4, <2>7
<1>7. QED
  BY <1>5, <1>6

LEMMA RunOfEndSync ==
  ASSUME NEW m, NEW p
  PROVE  \E g : Runs(g, m, p, Capacity) /\ DropAllStale(m, p) = g[Capacity]
<1> DEFINE f == CHOOSE g : g = [n \in 0 .. Capacity |->
                                  IF n = 0 THEN m ELSE DropStale(g[n - 1], p[n - 1])]
<1>1. DropAllStale(m, p) = f[Capacity]
  BY DEF DropAllStale
<1>2. Capacity \in 0 .. Capacity
  BY Sizes
<1>3. \E g : Runs(g, m, p, Capacity)
  BY <1>2, RunExists
<1>4. \E g : g = [n \in 0 .. Capacity |->
                    IF n = 0 THEN m ELSE DropStale(g[n - 1], p[n - 1])]
  BY <1>3 DEF Runs
<1>5. Runs(f, m, p, Capacity)
  BY <1>4 DEF Runs
<1>6. QED
  BY <1>1, <1>5

\* The pool when end_sync has gone through the first n entries.
Swept(p, n) == [i \in Pool |-> IF i < n /\ p[i].stale THEN Free ELSE p[i]]

LEMMA SweepStep ==
  ASSUME NEW p \in [Pool -> Entries], NEW k \in Pool, NEW m, Paired(Swept(p, k), m)
  PROVE  Paired(Swept(p, k + 1), DropStale(m, p[k]))
<1> DEFINE q == Swept(p, k)
<1>1. Capacity \in Nat /\ k \in Nat
  BY Sizes DEF Pool, SlotIndex
<1>2. q[k] = p[k]
  BY <1>1 DEF Swept
<1>3. CASE ~p[k].stale
  <2>1. \A i \in Pool : (i < k + 1 /\ p[i].stale) <=> (i < k /\ p[i].stale)
    BY <1>1, <1>3 DEF Pool, SlotIndex
  <2>2. Swept(p, k + 1) = q
    BY <2>1 DEF Swept
  <2>3. QED
    BY <1>3, <2>2 DEF DropStale
<1>4. CASE p[k].stale
  <2>1. PICK c \in Keys : p[k].client = {c}
    BY <1>4, EntryKinds
  <2>2. DropStale(m, p[k]) = Remove(m, c)
    <3>1. (CHOOSE d \in p[k].client : TRUE) = c
      BY <2>1
    <3>2. QED
      BY <1>4, <3>1 DEF DropStale
  <2>3. Swept(p, k + 1) = [q EXCEPT ![k] = Free]
    <3>1. \A i \in Pool : (i < k + 1 /\ p[i].stale) <=> (i = k \/ (i < k /\ p[i].stale))
      BY <1>1, <1>4 DEF Pool, SlotIndex
    <3>2. \A i \in Pool : (IF i < k + 1 /\ p[i].stale THEN Free ELSE p[i])
                            = IF i = k THEN Free ELSE q[i]
      BY <3>1 DEF Swept
    <3>3. [q EXCEPT ![k] = Free] = [i \in Pool |-> IF i = k THEN Free ELSE q[i]]
      BY DEF Swept
    <3>4. QED
      BY <3>2, <3>3 DEF Swept
  <2>4. q[k].client = {c}
    BY <1>2, <2>1
  <2> HIDE DEF q
  <2>5. Paired(q, m)
    BY DEF q
  <2>6. Paired([q EXCEPT ![k] = Free], Remove(m, c))
    BY <2>4, <2>5, DropIs
  <2>7. QED
    BY <2>2, <2>3, <2>6
<1>5. QED
  BY <1>3, <1>4

\* end_sync leaves the pool and the map paired, with the members that were not stale.
LEMMA SweepIs ==
  ASSUME NEW p, NEW m, Paired(p, m)
  PROVE  LET q == [i \in Pool |-> IF p[i].stale THEN Free ELSE p[i]]
         IN /\ Paired(q, DropAllStale(m, p)) /\ Of(q) = Of(p) \ Stale(p) /\ Stale(q) = {}
<1> DEFINE q == [i \in Pool |-> IF p[i].stale THEN Free ELSE p[i]]
<1>0. p \in [Pool -> Entries] /\ Capacity \in Nat
  BY Sizes DEF Paired
<1>1. PICK g : Runs(g, m, p, Capacity) /\ DropAllStale(m, p) = g[Capacity]
  BY RunOfEndSync
<1>2. \A n \in 0 .. Capacity : g[n] = IF n = 0 THEN m ELSE DropStale(g[n - 1], p[n - 1])
  BY <1>1 DEF Runs
<1>3. \A n \in 0 .. Capacity : Paired(Swept(p, n), g[n])
  <2> DEFINE bad == {n \in 0 .. Capacity : ~Paired(Swept(p, n), g[n])}
             z == Min(bad)
  <2>1. SUFFICES ASSUME bad # {} PROVE FALSE
    OBVIOUS
  <2>2. bad \subseteq Nat
    BY <1>0
  <2>3. z \in bad /\ \A y \in bad : z <= y
    BY <2>1, <2>2, MinIn
  <2>4. /\ z \in 0 .. Capacity /\ ~Paired(Swept(p, z), g[z])
        /\ \A y \in 0 .. Capacity : y < z => Paired(Swept(p, y), g[y])
    BY <1>0, <2>3
  <2> HIDE DEF z, bad
  <2>5. CASE z = 0
    <3>1. \A i \in Pool : ~(i < z)
      BY <1>0, <2>5 DEF Pool, SlotIndex
    <3>2. Swept(p, z) = [i \in Pool |-> p[i]]
      BY <3>1 DEF Swept
    <3>3. Swept(p, z) = p
      BY <1>0, <3>2
    <3>4. g[z] = m
      BY <1>2, <2>4, <2>5
    <3>5. QED
      BY <2>4, <3>3, <3>4
  <2>6. CASE z # 0
    <3>1. z - 1 \in Pool /\ z - 1 \in 0 .. Capacity /\ z - 1 < z /\ (z - 1) + 1 = z
      BY <1>0, <2>4, <2>6 DEF Pool, SlotIndex
    <3>2. Paired(Swept(p, z - 1), g[z - 1])
      BY <2>4, <3>1
    <3>3. Paired(Swept(p, (z - 1) + 1), DropStale(g[z - 1], p[z - 1]))
      BY <1>0, <3>1, <3>2, SweepStep
    <3>4. g[z] = DropStale(g[z - 1], p[z - 1])
      BY <1>2, <2>4, <2>6
    <3>5. QED
      BY <2>4, <3>1, <3>3, <3>4
  <2>7. QED
    BY <2>5, <2>6
<1>4. Swept(p, Capacity) = q
  <2>1. \A i \in Pool : i < Capacity
    BY <1>0 DEF Pool, SlotIndex
  <2>2. QED
    BY <2>1 DEF Swept
<1>5. Paired(q, DropAllStale(m, p))
  <2>1. Capacity \in 0 .. Capacity
    BY <1>0
  <2>2. Paired(Swept(p, Capacity), g[Capacity])
    BY <1>3, <2>1
  <2>3. QED
    BY <1>1, <1>4, <2>2
<1>6. q \in [Pool -> Entries]
  BY <1>5 DEF Paired
<1>7. \A i \in Pool : q[i] = IF p[i].stale THEN Free ELSE p[i]
  OBVIOUS
<1> HIDE DEF q
<1>8. Stale(q) = {}
  <2>1. \A i \in Pool : ~q[i].stale
    BY <1>7, EntryKinds
  <2>2. QED
    BY <1>6, <2>1, OfMeans
<1>9. Of(q) = Of(p) \ Stale(p)
  <2>1. \A c : c \in Of(q) <=> c \in Keys /\ \E i \in Pool : q[i].client = {c}
    BY <1>6, OfMeans
  <2>2. \A c : c \in Of(p) <=> c \in Keys /\ \E i \in Pool : p[i].client = {c}
    BY <1>0, OfMeans
  <2>3. \A c : c \in Stale(p) <=> c \in Keys /\ \E i \in Pool : p[i].stale /\ p[i].client = {c}
    BY <1>0, OfMeans
  <2>4. \A c \in Keys : \A i, j \in Pool : p[i].client = {c} /\ p[j].client = {c} => i = j
    <3> SUFFICES ASSUME NEW c \in Keys, NEW i \in Pool, NEW j \in Pool,
                        p[i].client = {c}, p[j].client = {c}
                 PROVE  i = j
      OBVIOUS
    <3>1. i = Get(m, c)
      BY PairedGet
    <3>2. j = Get(m, c)
      BY PairedGet
    <3>3. QED
      BY <3>1, <3>2, Zenon
  <2>5. ASSUME NEW c, c \in Of(q) PROVE c \in Of(p) /\ c \notin Stale(p)
    <3>1. PICK i \in Pool : c \in Keys /\ q[i].client = {c}
      BY <2>1, <2>5
    <3>2. ~p[i].stale /\ p[i].client = {c}
      BY <1>7, <3>1, EntryKinds
    <3>3. QED
      BY <2>2, <2>3, <2>4, <3>1, <3>2
  <2>6. ASSUME NEW c, c \in Of(p), c \notin Stale(p) PROVE c \in Of(q)
    <3>1. PICK i \in Pool : c \in Keys /\ p[i].client = {c}
      BY <2>2, <2>6
    <3>2. ~p[i].stale
      BY <2>3, <2>6, <3>1
    <3>3. QED
      BY <1>7, <2>1, <3>1, <3>2
  <2>7. QED
    BY <2>5, <2>6
<1>10. QED
  BY <1>5, <1>8, <1>9 DEF q

\* begin_sync marks every member, unless a SYNC is under way.
LEMMA BeginIs ==
  ASSUME Paired(pool, map)
  PROVE  /\ BeginSync \in [Pool -> Entries] /\ Paired(BeginSync, map)
         /\ \A i \in Pool : BeginSync[i].client = pool[i].client
         /\ Of(BeginSync) = Of(pool)
         /\ Stale(BeginSync) = IF syncing THEN Stale(pool) ELSE Of(pool)
<1> DEFINE q == [i \in Pool |-> [pool[i] EXCEPT !.stale = InUse(i)]]
<1>0. pool \in [Pool -> Entries]
  BY DEF Paired
<1>1. CASE syncing
  BY <1>0, <1>1 DEF BeginSync
<1>2. CASE ~syncing
  <2>1. BeginSync = q
    BY <1>2 DEF BeginSync
  <2>2. \A i \in Pool : /\ q[i] \in Entries /\ q[i].client = pool[i].client
                        /\ q[i].client # {} => q[i].stale
    <3> SUFFICES ASSUME NEW i \in Pool
                 PROVE  /\ q[i] \in Entries /\ q[i].client = pool[i].client
                        /\ q[i].client # {} => q[i].stale
      OBVIOUS
    <3>1. q[i] = [pool[i] EXCEPT !.stale = InUse(i)] /\ pool[i] \in Entries
      BY <1>0
    <3>2. CASE InUse(i)
      <4>1. q[i] = [pool[i] EXCEPT !.stale = TRUE] /\ pool[i].client # {}
        BY <3>1, <3>2 DEF InUse
      <4>2. QED
        BY <3>1, <4>1, EntryKinds
    <3>3. CASE ~InUse(i)
      <4>1. q[i] = [pool[i] EXCEPT !.stale = FALSE] /\ pool[i].client = {}
        BY <3>1, <3>3 DEF InUse
      <4>2. q[i] = Free
        BY <3>1, <4>1, EntryKinds
      <4>3. QED
        BY <4>1, <4>2, EntryKinds
    <3>4. QED
      BY <3>2, <3>3
  <2>3. q \in [Pool -> Entries]
    BY <2>2
  <2> HIDE DEF q
  <2>4. Paired(q, map) /\ Of(q) = Of(pool)
    BY <2>2, <2>3, MarkPaired
  <2>5. Stale(q) = Of(q)
    <3>1. \A c : c \in Of(q) <=> c \in Keys /\ \E i \in Pool : q[i].client = {c}
      BY <2>3, OfMeans
    <3>2. \A c : c \in Stale(q) <=> c \in Keys /\ \E i \in Pool : q[i].stale /\ q[i].client = {c}
      BY <2>3, OfMeans
    <3>3. \A c, i : i \in Pool /\ q[i].client = {c} => q[i].stale
      BY <2>2
    <3>4. QED
      BY <3>1, <3>2, <3>3
  <2>6. QED
    BY <1>2, <2>1, <2>2, <2>3, <2>4, <2>5
<1>3. QED
  BY <1>1, <1>2

(* Part 5: the set.                                                        *)

Room(m) == m.count \in Nat /\ m.count * 4 <= Capacity * 3

\* The set the client keeps, and what its subscribers know of it.
SetOK ==
  /\ Paired(pool, map) /\ Room(map) /\ refused \subseteq Keys
  /\ Of(pool) \cap refused = {} /\ view = Of(pool) \cup refused

LEMMA RoomStep ==
  ASSUME Paired(pool, map), Room(map), Paired(pool', map'), NEW c,
         Of(pool') \subseteq Of(pool) \/ (Of(pool') = Of(pool) \cup {c} /\ ~AtLimit(map))
  PROVE  Room(map')
<1>1. /\ IsFiniteSet(Of(pool)) /\ map.count = Cardinality(Of(pool))
      /\ IsFiniteSet(Of(pool')) /\ map'.count = Cardinality(Of(pool'))
  BY DEF Paired
<1>2. map'.count \in Nat /\ map.count \in Nat
  BY <1>1, FS_CardinalityType
<1>3. PICK q \in Nat : Capacity = 4 * q
  BY Sizes
<1>4. map.count * 4 <= Capacity * 3
  BY DEF Room
<1>5. CASE Of(pool') \subseteq Of(pool)
  <2>1. map'.count <= map.count
    BY <1>1, <1>5, FS_Subset
  <2>2. QED
    BY <1>2, <1>3, <1>4, <2>1 DEF Room
<1>6. CASE Of(pool') = Of(pool) \cup {c} /\ ~AtLimit(map)
  <2>1. map'.count <= map.count + 1
    <3>1. CASE c \in Of(pool)
      <4>1. Of(pool') = Of(pool)
        BY <1>6, <3>1
      <4>2. QED
        BY <1>1, <1>2, <4>1
    <3>2. CASE c \notin Of(pool)
      BY <1>1, <1>2, <1>6, <3>2, FS_AddElement
    <3>3. QED
      BY <3>1, <3>2
  <2>2. map.count * 4 < Capacity * 3
    BY <1>2, <1>3, <1>6 DEF AtLimit
  <2>3. QED
    BY <1>2, <1>3, <2>1, <2>2 DEF Room
<1>7. QED
  BY <1>5, <1>6

LEMMA UpsertSet ==
  ASSUME SetOK, NEW c \in Keys, NEW p \in [Pool -> Entries],
         \A i \in Pool : p[i].client = pool[i].client,
         UpsertMember(c, p), view' = view \cup {c}
  PROVE  SetOK' /\ Upserts(c, p)
<1>1. Upserts(c, p)
  BY UpsertIs DEF SetOK
<1> DEFINE old == Of(pool)
           new == Of(pool')
<1>2. /\ Paired(pool', map')
      /\ new = old \/ (new = old \cup {c} /\ ~AtLimit(map))
      /\ \/ c \in new /\ (refused' = refused \ {c} \/ (c \in old /\ refused' = refused))
         \/ c \notin new /\ refused' = refused \cup {c}
  BY <1>1 DEF Upserts
<1>3. /\ Paired(pool, map) /\ Room(map) /\ refused \subseteq Keys
      /\ old \cap refused = {} /\ view = old \cup refused
  BY DEF SetOK
<1>4. Room(map')
  BY <1>2, <1>3, RoomStep
<1> HIDE DEF old, new
<1>5. refused' \subseteq Keys /\ new \cap refused' = {} /\ view' = new \cup refused'
  BY <1>2, <1>3
<1>6. QED
  BY <1>1, <1>2, <1>4, <1>5 DEF SetOK, new

LEMMA RemoveSet ==
  ASSUME SetOK, NEW c \in Keys, RemoveMember(c), view' = view \ {c}
  PROVE  SetOK' /\ Removes(c)
<1>1. Removes(c)
  BY RemoveMemberIs DEF SetOK
<1>2. /\ Paired(pool', map') /\ Of(pool') = Of(pool) \ {c} /\ refused' = refused \ {c}
  BY <1>1 DEF Removes
<1>3. /\ Paired(pool, map) /\ Room(map) /\ refused \subseteq Keys
      /\ Of(pool) \cap refused = {} /\ view = Of(pool) \cup refused
  BY DEF SetOK
<1>4. Room(map')
  BY <1>2, <1>3, RoomStep
<1>5. QED
  BY <1>1, <1>2, <1>3, <1>4 DEF SetOK

\* What goes at the end of a SYNC.
Leaving == IF syncing THEN Stale(pool) ELSE Of(pool)

Sweeps ==
  /\ Of(pool') = Of(pool) \ Leaving /\ Stale(pool') = {}
  /\ syncing' = FALSE /\ refused' = refused /\ synthetic' = Leaving

LEMMA SweepSet ==
  ASSUME SetOK, EndSync(BeginSync)
  PROVE  SetOK' /\ Sweeps
<1> DEFINE p == BeginSync
           q == [i \in Pool |-> IF p[i].stale THEN Free ELSE p[i]]
<1>1. /\ Paired(pool, map) /\ Room(map) /\ refused \subseteq Keys
      /\ Of(pool) \cap refused = {} /\ view = Of(pool) \cup refused
  BY DEF SetOK
<1>2. Paired(p, map) /\ Of(p) = Of(pool) /\ Stale(p) = Leaving
  BY <1>1, BeginIs DEF Leaving
<1>3. /\ pool' = q /\ map' = DropAllStale(map, p)
      /\ synthetic' = Stale(p) /\ view' = view \ Stale(p)
      /\ syncing' = FALSE /\ refused' = refused
  BY DEF EndSync
<1>4. Paired(q, DropAllStale(map, p)) /\ Of(q) = Of(p) \ Stale(p) /\ Stale(q) = {}
  <2> HIDE DEF p
  <2>1. QED
    BY <1>2, SweepIs
<1> HIDE DEF p, q
<1>5. Sweeps
  BY <1>2, <1>3, <1>4 DEF Sweeps
<1>6. Paired(pool', map') /\ Of(pool') = Of(pool) \ Leaving /\ view' = view \ Leaving
  BY <1>2, <1>3, <1>4
<1>7. Room(map')
  BY <1>1, <1>6, RoomStep
<1>8. Leaving \subseteq Of(pool)
  BY <1>1, OfMeans DEF Leaving, Paired
<1>9. refused' = refused
  BY <1>3
<1>10. QED
  BY <1>1, <1>5, <1>6, <1>7, <1>8, <1>9 DEF SetOK

LEMMA SameSet ==
  ASSUME SetOK, UNCHANGED setVars
  PROVE  SetOK' /\ pool' = pool /\ refused' = refused /\ syncing' = syncing
           /\ synthetic' = synthetic
<1>1. /\ pool' = pool /\ map' = map /\ refused' = refused /\ view' = view
      /\ syncing' = syncing /\ synthetic' = synthetic
  BY DEF setVars
<1>2. QED
  BY <1>1 DEF SetOK

(* Part 6: the SYNC.                                                       *)

Flags ==
  /\ pres \in BOOLEAN /\ syncing \in BOOLEAN /\ link \in BOOLEAN
  /\ whole \in BOOLEAN /\ synced \in BOOLEAN
  /\ srvSync \in {"none", "owed", "paging"}
  /\ srv \subseteq Keys /\ todo \subseteq Keys /\ synthetic \subseteq Keys

\* Where a SYNC may be under way, and for whom.
PhaseInv ==
  /\ srvSync # "none" \/ synced => link
  /\ whole => pres /\ srvSync = "paging" /\ syncing
  /\ srvSync = "owed" \/ ~pres => ~syncing
  /\ synced => pres /\ srvSync = "none"
  /\ todo \subseteq srv /\ (srvSync # "paging" => todo = {})

\* Members a SYNC has named, or that came meanwhile, are those of the server, but
\* for the ones in pages to come; after the SYNC all are.
Kept == Of(pool) \ Stale(pool)

ExactInv ==
  /\ whole => Kept \subseteq srv /\ (srv \ todo) \ refused \subseteq Kept
  /\ synced => Of(pool) = srv \ refused

IInv == SetOK /\ Flags /\ PhaseInv /\ ExactInv

LEMMA EnsurePresStep ==
  ASSUME IInv, EnsurePres
  PROVE  IInv'
<1>1. /\ pres' = TRUE /\ ~pres /\ UNCHANGED setVars
      /\ link' = link /\ srv' = srv /\ srvSync' = srvSync /\ todo' = todo
      /\ whole' = whole /\ synced' = synced
  BY DEF EnsurePres, srvVars
<1>2. SetOK' /\ pool' = pool /\ refused' = refused /\ syncing' = syncing
        /\ synthetic' = synthetic
  BY <1>1, SameSet DEF IInv
<1>3. Flags'
  BY <1>1, <1>2 DEF IInv, Flags
<1>4. PhaseInv'
  BY <1>1, <1>2 DEF IInv, PhaseInv, Flags
<1>5. ExactInv'
  BY <1>1, <1>2 DEF IInv, ExactInv, Kept
<1>6. QED
  BY <1>2, <1>3, <1>4, <1>5 DEF IInv

LEMMA DisconnectStep ==
  ASSUME IInv, Disconnect
  PROVE  IInv'
<1>1. /\ pres' = pres /\ UNCHANGED setVars
      /\ link' = FALSE /\ srv' = srv /\ srvSync' = "none" /\ todo' = {}
      /\ whole' = FALSE /\ synced' = FALSE
  BY DEF Disconnect
<1>2. SetOK' /\ pool' = pool /\ refused' = refused /\ syncing' = syncing
        /\ synthetic' = synthetic
  BY <1>1, SameSet DEF IInv
<1>3. Flags'
  BY <1>1, <1>2 DEF IInv, Flags
<1>4. PhaseInv'
  BY <1>1, <1>2 DEF IInv, PhaseInv, Flags
<1>5. ExactInv'
  BY <1>1 DEF ExactInv
<1>6. QED
  BY <1>2, <1>3, <1>4, <1>5 DEF IInv

LEMMA LeavingKeys ==
  SetOK => Leaving \subseteq Keys
BY OfMeans DEF SetOK, Paired, Leaving

LEMMA AttachedStep ==
  ASSUME IInv, Attached
  PROVE  IInv'
<1>1. /\ pres' = pres /\ link' = TRUE /\ srv' = srv /\ todo' = {}
      /\ srvSync' = IF srv = {} THEN "none" ELSE "owed"
      /\ whole' = FALSE /\ synced' = FALSE
  BY DEF Attached
<1>2. CASE pres /\ srv # {}
  <2>1. EndSync(BeginSync)
    BY <1>2 DEF Attached
  <2>2. SetOK' /\ Sweeps
    BY <2>1, SweepSet DEF IInv
  <2>3. syncing' = FALSE /\ synthetic' \subseteq Keys
    BY <2>2, LeavingKeys DEF Sweeps, IInv
  <2>4. Flags'
    BY <1>1, <2>3 DEF IInv, Flags
  <2>5. PhaseInv'
    BY <1>1, <2>3 DEF IInv, PhaseInv, Flags
  <2>6. ExactInv'
    BY <1>1 DEF ExactInv
  <2>7. QED
    BY <2>2, <2>4, <2>5, <2>6 DEF IInv
<1>3. CASE ~(pres /\ srv # {})
  <2>1. UNCHANGED setVars
    BY <1>3 DEF Attached
  <2>2. SetOK' /\ syncing' = syncing /\ synthetic' = synthetic
    BY <2>1, SameSet DEF IInv
  <2>3. Flags'
    BY <1>1, <2>2 DEF IInv, Flags
  <2>4. PhaseInv'
    BY <1>1, <1>3, <2>2 DEF IInv, PhaseInv, Flags
  <2>5. ExactInv'
    BY <1>1 DEF ExactInv
  <2>6. QED
    BY <2>2, <2>3, <2>4, <2>5 DEF IInv
<1>4. QED
  BY <1>2, <1>3

LEMMA ElsewhereStep ==
  ASSUME IInv, NEW c \in Keys, Elsewhere(c)
  PROVE  IInv'
<1>1. /\ pres' = pres /\ UNCHANGED setVars /\ ~link
      /\ link' = link /\ srvSync' = srvSync /\ todo' = todo
      /\ whole' = whole /\ synced' = synced
      /\ srv' = IF c \in srv THEN srv \ {c} ELSE srv \cup {c}
  BY DEF Elsewhere
<1>2. SetOK' /\ pool' = pool /\ refused' = refused /\ syncing' = syncing
        /\ synthetic' = synthetic
  BY <1>1, SameSet DEF IInv
<1>3. ~synced /\ ~whole /\ srvSync = "none" /\ todo = {}
  BY <1>1 DEF IInv, PhaseInv, Flags
<1>4. Flags'
  BY <1>1, <1>2 DEF IInv, Flags
<1>5. PhaseInv'
  BY <1>1, <1>2, <1>3 DEF IInv, PhaseInv, Flags
<1>6. ExactInv'
  BY <1>1, <1>3 DEF ExactInv
<1>7. QED
  BY <1>2, <1>4, <1>5, <1>6 DEF IInv

LEMMA RecvEnterStep ==
  ASSUME IInv, NEW c \in Keys, RecvEnter(c)
  PROVE  IInv'
<1>1. /\ pres' = pres /\ link' = link /\ srvSync' = srvSync /\ todo' = todo
      /\ whole' = whole /\ synced' = synced /\ srv' = srv \cup {c}
  BY DEF RecvEnter
<1>2. CASE pres
  <2>1. /\ UpsertMember(c, pool) /\ view' = view \cup {c}
        /\ synthetic' = {} /\ syncing' = syncing
    BY <1>2 DEF RecvEnter
  <2>2. SetOK' /\ Upserts(c, pool)
    BY <2>1, UpsertSet DEF IInv, SetOK, Paired
  <2>3. Flags'
    BY <1>1, <2>1 DEF IInv, Flags
  <2>4. PhaseInv'
    BY <1>1, <2>1 DEF IInv, PhaseInv, Flags
  <2>5. /\ Of(pool') = Of(pool) \/ Of(pool') = Of(pool) \cup {c}
        /\ Stale(pool') = Stale(pool) \ {c}
        /\ \/ c \in Of(pool') /\ (refused' = refused \ {c} \/ (c \in Of(pool) /\ refused' = refused))
           \/ c \notin Of(pool') /\ refused' = refused \cup {c}
    BY <2>2 DEF Upserts
  <2>6. whole' => Kept' \subseteq srv' /\ (srv' \ todo') \ refused' \subseteq Kept'
    BY <1>1, <2>5 DEF IInv, ExactInv, Kept
  <2>7. Of(pool) \cap refused = {}
    BY DEF IInv, SetOK
  <2>8. synced' => Of(pool') = srv' \ refused'
    BY <1>1, <2>5, <2>7 DEF IInv, ExactInv
  <2>9. ExactInv'
    BY <2>6, <2>8 DEF ExactInv
  <2>10. QED
    BY <2>2, <2>3, <2>4, <2>9 DEF IInv
<1>3. CASE ~pres
  <2>1. UNCHANGED setVars
    BY <1>3 DEF RecvEnter
  <2>2. SetOK' /\ syncing' = syncing /\ synthetic' = synthetic
    BY <2>1, SameSet DEF IInv
  <2>3. ~whole /\ ~synced
    BY <1>3 DEF IInv, PhaseInv
  <2>4. Flags'
    BY <1>1, <2>2 DEF IInv, Flags
  <2>5. PhaseInv'
    BY <1>1, <2>2 DEF IInv, PhaseInv, Flags
  <2>6. ExactInv'
    BY <1>1, <2>3 DEF ExactInv
  <2>7. QED
    BY <2>2, <2>4, <2>5, <2>6 DEF IInv
<1>4. QED
  BY <1>2, <1>3

LEMMA RecvLeaveStep ==
  ASSUME IInv, NEW c \in Keys, RecvLeave(c)
  PROVE  IInv'
<1>1. /\ pres' = pres /\ link' = link /\ srvSync' = srvSync /\ todo' = todo \ {c}
      /\ whole' = whole /\ synced' = synced /\ srv' = srv \ {c}
  BY DEF RecvLeave
<1>2. CASE pres
  <2>1. /\ RemoveMember(c) /\ view' = view \ {c}
        /\ synthetic' = {} /\ syncing' = syncing
    BY <1>2 DEF RecvLeave
  <2>2. SetOK' /\ Removes(c)
    BY <2>1, RemoveSet DEF IInv
  <2>3. Flags'
    BY <1>1, <2>1 DEF IInv, Flags
  <2>4. PhaseInv'
    BY <1>1, <2>1 DEF IInv, PhaseInv, Flags
  <2>5. /\ Of(pool') = Of(pool) \ {c} /\ Stale(pool') = Stale(pool) \ {c}
        /\ refused' = refused \ {c}
    BY <2>2 DEF Removes
  <2>6. ExactInv'
    BY <1>1, <2>5 DEF IInv, ExactInv, Kept
  <2>7. QED
    BY <2>2, <2>3, <2>4, <2>6 DEF IInv
<1>3. CASE ~pres
  <2>1. UNCHANGED setVars
    BY <1>3 DEF RecvLeave
  <2>2. SetOK' /\ syncing' = syncing /\ synthetic' = synthetic
    BY <2>1, SameSet DEF IInv
  <2>3. ~whole /\ ~synced
    BY <1>3 DEF IInv, PhaseInv
  <2>4. Flags'
    BY <1>1, <2>2 DEF IInv, Flags
  <2>5. PhaseInv'
    BY <1>1, <2>2 DEF IInv, PhaseInv, Flags
  <2>6. ExactInv'
    BY <1>1, <2>3 DEF ExactInv
  <2>7. QED
    BY <2>2, <2>4, <2>5, <2>6 DEF IInv
<1>4. QED
  BY <1>2, <1>3

LEMMA RecvSyncStep ==
  ASSUME IInv, NEW c \in Keys, RecvSync(c)
  PROVE  IInv'
<1>1. /\ pres' = pres /\ link' = link /\ srv' = srv /\ synced' = synced
      /\ srvSync' = "paging" /\ todo' = Remaining \ {c} /\ c \in Remaining
      /\ link /\ srvSync # "none"
  BY DEF RecvSync
<1>2. whole' \in BOOLEAN /\ (whole' => pres /\ (srvSync = "owed" \/ whole))
  BY Zenon DEF RecvSync
<1>3. Remaining \subseteq srv /\ c \in srv /\ ~synced
  BY <1>1 DEF Remaining, IInv, PhaseInv
<1>4. CASE pres
  <2>1. /\ UpsertMember(c, BeginSync) /\ view' = view \cup {c}
        /\ synthetic' = {} /\ syncing' = TRUE
    BY <1>4 DEF RecvSync
  <2>2. /\ BeginSync \in [Pool -> Entries]
        /\ \A i \in Pool : BeginSync[i].client = pool[i].client
        /\ Stale(BeginSync) = IF syncing THEN Stale(pool) ELSE Of(pool)
    BY BeginIs DEF IInv, SetOK
  <2>3. SetOK' /\ Upserts(c, BeginSync)
    BY <2>1, <2>2, UpsertSet DEF IInv
  <2>4. /\ Of(pool') = Of(pool) \/ Of(pool') = Of(pool) \cup {c}
        /\ Stale(pool') = (IF syncing THEN Stale(pool) ELSE Of(pool)) \ {c}
        /\ \/ c \in Of(pool') /\ (refused' = refused \ {c} \/ (c \in Of(pool) /\ refused' = refused))
           \/ c \notin Of(pool') /\ refused' = refused \cup {c}
    BY <2>2, <2>3 DEF Upserts
  <2>5. Flags'
    BY <1>1, <1>2, <1>3, <2>1 DEF IInv, Flags
  <2>6. PhaseInv'
    <3>1. link' /\ pres' /\ ~synced' /\ syncing' /\ srvSync' = "paging"
      BY <1>1, <1>3, <1>4, <2>1, Zenon
    <3>2. todo' \subseteq srv'
      BY <1>1, <1>3
    <3>3. QED
      BY <3>1, <3>2 DEF PhaseInv
  <2>7. whole' => Kept' \subseteq srv' /\ (srv' \ todo') \ refused' \subseteq Kept'
    <3>1. CASE srvSync = "owed"
      <4>1. ~syncing /\ todo' = srv \ {c}
        BY <1>1, <3>1 DEF Remaining, IInv, PhaseInv
      <4>2. Stale(pool') = Of(pool) \ {c}
        BY <2>4, <4>1
      <4>3. Kept' \subseteq {c} /\ (c \in Of(pool') => c \in Kept')
        BY <2>4, <4>2 DEF Kept
      <4>4. QED
        BY <1>1, <1>3, <2>4, <4>1, <4>3
    <3>2. CASE srvSync # "owed"
      <4>1. todo' = todo \ {c}
        BY <1>1, <3>2 DEF Remaining
      <4>2. SUFFICES ASSUME whole
                     PROVE  Kept' \subseteq srv' /\ (srv' \ todo') \ refused' \subseteq Kept'
        BY <1>2, <3>2
      <4>3. syncing /\ Kept \subseteq srv /\ (srv \ todo) \ refused \subseteq Kept
        BY <4>2 DEF IInv, PhaseInv, ExactInv
      <4>4. Stale(pool') = Stale(pool) \ {c}
        BY <2>4, <4>3
      <4>5. QED
        BY <1>1, <1>3, <2>4, <4>1, <4>3, <4>4 DEF Kept
    <3>3. QED
      BY <3>1, <3>2
  <2>8. ExactInv'
    BY <1>1, <1>3, <2>7 DEF ExactInv
  <2>9. QED
    BY <2>3, <2>5, <2>6, <2>8 DEF IInv
<1>5. CASE ~pres
  <2>1. UNCHANGED setVars
    BY <1>5 DEF RecvSync
  <2>2. SetOK' /\ syncing' = syncing /\ synthetic' = synthetic
    BY <2>1, SameSet DEF IInv
  <2>3. ~whole'
    BY <1>2, <1>5
  <2>4. Flags'
    BY <1>1, <1>2, <1>3, <2>2 DEF IInv, Flags
  <2>5. PhaseInv'
    BY <1>1, <1>3, <1>5, <2>2, <2>3 DEF IInv, PhaseInv, Flags
  <2>6. ExactInv'
    BY <1>1, <1>3, <2>3 DEF ExactInv
  <2>7. QED
    BY <2>2, <2>4, <2>5, <2>6 DEF IInv
<1>6. QED
  BY <1>4, <1>5

LEMMA RecvSyncEndStep ==
  ASSUME IInv, RecvSyncEnd
  PROVE  IInv'
<1>1. /\ pres' = pres /\ link' = link /\ srv' = srv /\ whole' = FALSE
      /\ srvSync' = "none" /\ todo' = {} /\ Remaining = {}
      /\ link /\ srvSync # "none"
  BY DEF RecvSyncEnd
<1>2. synced' \in BOOLEAN /\ (synced' => pres /\ (srvSync = "owed" \/ whole))
  BY Zenon DEF RecvSyncEnd
<1>3. CASE pres
  <2>1. EndSync(BeginSync)
    BY <1>3 DEF RecvSyncEnd
  <2>2. SetOK' /\ Sweeps
    BY <2>1, SweepSet DEF IInv
  <2>3. /\ syncing' = FALSE /\ synthetic' \subseteq Keys
        /\ Of(pool') = Of(pool) \ Leaving /\ refused' = refused
    BY <2>2, LeavingKeys DEF Sweeps, IInv
  <2>4. Flags'
    BY <1>1, <1>2, <2>3 DEF IInv, Flags
  <2>5. PhaseInv'
    BY <1>1, <1>2, <2>3 DEF IInv, PhaseInv, Flags
  <2>6. ASSUME synced' PROVE Of(pool') = srv' \ refused'
    <3>1. CASE srvSync = "owed"
      <4>1. srv = {} /\ ~syncing
        BY <1>1, <3>1 DEF Remaining, IInv, PhaseInv
      <4>2. Of(pool') = {}
        BY <2>3, <4>1 DEF Leaving
      <4>3. QED
        BY <1>1, <4>1, <4>2
    <3>2. CASE srvSync # "owed"
      <4>1. whole /\ todo = {}
        BY <1>1, <1>2, <2>6, <3>2 DEF Remaining
      <4>2. syncing /\ Kept \subseteq srv /\ (srv \ todo) \ refused \subseteq Kept
        BY <4>1 DEF IInv, PhaseInv, ExactInv
      <4>3. Of(pool') = Kept
        BY <2>3, <4>2 DEF Leaving, Kept
      <4>4. Of(pool) \cap refused = {}
        BY DEF IInv, SetOK
      <4>5. Kept \subseteq Of(pool)
        BY DEF Kept
      <4>6. QED
        BY <1>1, <2>3, <4>1, <4>2, <4>3, <4>4, <4>5
    <3>3. QED
      BY <3>1, <3>2
  <2>7. ExactInv'
    BY <1>1, <2>6 DEF ExactInv
  <2>8. QED
    BY <2>2, <2>4, <2>5, <2>7 DEF IInv
<1>4. CASE ~pres
  <2>1. UNCHANGED setVars
    BY <1>4 DEF RecvSyncEnd
  <2>2. SetOK' /\ syncing' = syncing /\ synthetic' = synthetic
    BY <2>1, SameSet DEF IInv
  <2>3. ~synced'
    BY <1>2, <1>4
  <2>4. Flags'
    BY <1>1, <1>2, <2>2 DEF IInv, Flags
  <2>5. PhaseInv'
    BY <1>1, <1>4, <2>2, <2>3 DEF IInv, PhaseInv, Flags
  <2>6. ExactInv'
    BY <1>1, <2>3 DEF ExactInv
  <2>7. QED
    BY <2>2, <2>4, <2>5, <2>6 DEF IInv
<1>5. QED
  BY <1>3, <1>4

LEMMA InitSet ==
  Init => IInv
<1> SUFFICES ASSUME Init PROVE IInv
  OBVIOUS
<1>1. /\ pres = FALSE /\ syncing = FALSE /\ link = FALSE /\ srv = {} /\ srvSync = "none"
      /\ todo = {} /\ whole = FALSE /\ synced = FALSE /\ refused = {} /\ view = {}
      /\ synthetic = {} /\ pool = [i \in Pool |-> Free] /\ map = InitMap
  BY DEF Init
<1>2. map.slots = [i \in SlotIndex |-> Empty] /\ map.count = 0
        /\ map = [slots |-> [i \in SlotIndex |-> Empty], count |-> 0]
  BY <1>1 DEF InitMap
<1>3. MapOK(map)
  <2>1. Empty \in SlotValue
    BY DEF SlotValue
  <2>2. IsMap(map)
    BY <1>2, <2>1 DEF IsMap
  <2>3. \A k : \A i \in SlotIndex : ~Holds(map.slots[i], k)
    BY <1>2, SlotKinds
  <2>4. OneSlot(map)
    BY <2>3 DEF OneSlot
  <2>5. ChainOK(map)
    BY <2>3, ProbesAll DEF ChainOK
  <2>6. QED
    BY <2>2, <2>4, <2>5 DEF MapOK
<1>4. \A k \in Keys, e \in SlotIndex : ~Leads(map, k, e)
  BY <1>2, SlotKinds DEF Leads
<1>5. pool \in [Pool -> Entries] /\ \A i \in Pool : pool[i].client = {}
  BY <1>1, EntryKinds
<1>6. Of(pool) = {}
  BY <1>5 DEF Of
<1>7. Linked(pool, map)
  BY <1>4, <1>5 DEF Linked, Pool
<1>8. IsFiniteSet(Of(pool)) /\ Cardinality(Of(pool)) = 0
  BY <1>6, FS_EmptySet
<1>9. Paired(pool, map)
  BY <1>2, <1>3, <1>5, <1>7, <1>8 DEF Paired
<1>10. Room(map)
  BY <1>2, Sizes DEF Room
<1>11. SetOK
  BY <1>1, <1>6, <1>9, <1>10 DEF SetOK
<1>12. Flags
  BY <1>1 DEF Flags
<1>13. PhaseInv
  BY <1>1 DEF PhaseInv
<1>14. ExactInv
  BY <1>1 DEF ExactInv
<1>15. QED
  BY <1>11, <1>12, <1>13, <1>14 DEF IInv

LEMMA StepSet ==
  IInv /\ [Next]_vars => IInv'
<1> SUFFICES ASSUME IInv, [Next]_vars PROVE IInv'
  OBVIOUS
<1>1. CASE UNCHANGED vars
  <2>1. /\ UNCHANGED setVars /\ pres' = pres /\ link' = link /\ srv' = srv
        /\ srvSync' = srvSync /\ todo' = todo /\ whole' = whole /\ synced' = synced
    BY <1>1 DEF vars, setVars
  <2>2. SetOK' /\ pool' = pool /\ refused' = refused /\ syncing' = syncing
          /\ synthetic' = synthetic
    BY <2>1, SameSet DEF IInv
  <2>3. Flags'
    BY <2>1, <2>2 DEF IInv, Flags
  <2>4. PhaseInv'
    BY <2>1, <2>2 DEF IInv, PhaseInv
  <2>5. PhaseInv' /\ Kept' = Kept
    BY <2>1, <2>2 DEF IInv, PhaseInv, Kept
  <2>6. ExactInv'
    BY <2>1, <2>2, <2>5 DEF IInv, ExactInv
  <2>7. QED
    BY <2>2, <2>3, <2>4, <2>6 DEF IInv
<1>2. CASE Next
  BY <1>2, EnsurePresStep, DisconnectStep, AttachedStep, RecvSyncEndStep, ElsewhereStep,
     RecvEnterStep, RecvLeaveStep, RecvSyncStep DEF Next
<1>3. QED
  BY <1>1, <1>2

\* The pool, the map, what the subscribers know and the phase of the SYNC fit
\* together in every reachable state.
THEOREM SetInvariant ==
  Spec => []IInv
BY InitSet, StepSet, PTL DEF Spec

\* What presence.c keeps in its variables; the map never passes its load limit.
THEOREM TypeCorrect ==
  Spec => []TypeOK
<1>1. IInv => TypeOK
  <2> SUFFICES ASSUME IInv PROVE TypeOK
    OBVIOUS
  <2>1. SetOK /\ Flags
    BY DEF IInv
  <2>2. \A i \in Pool : pool[i] \in {Free} \cup [client : {{c} : c \in Keys}, stale : BOOLEAN]
    BY <2>1 DEF SetOK, Paired, Entries
  <2>3. map.count \in 0 .. Capacity /\ map.count * 4 <= Capacity * 3
    BY <2>1, Sizes DEF SetOK, Room
  <2>4. refused \subseteq Keys /\ view \subseteq Keys
    BY <2>1, OfMeans DEF SetOK, Paired
  <2>5. /\ pres \in BOOLEAN /\ syncing \in BOOLEAN /\ link \in BOOLEAN
        /\ whole \in BOOLEAN /\ synced \in BOOLEAN
    BY <2>1, Zenon DEF Flags
  <2>6. /\ srvSync \in {"none", "owed", "paging"}
        /\ \A cs \in {srv, todo, refused, view, synthetic} : cs \subseteq Keys
    BY <2>1, <2>4 DEF Flags
  <2>7. QED
    BY <2>2, <2>3, <2>5, <2>6, Zenon DEF TypeOK
<1>2. QED
  BY <1>1, SetInvariant, PTL

\* The open-addressing map with its tombstones and the pool with its reused
\* entries are two views of one set, for every capacity, hash and set of clients:
\* get() finds every member and nobody else, through any puts, removes and sweeps.
THEOREM PoolAndMap ==
  Spec => []MapMatchesPool
<1>1. IInv => MapMatchesPool
  BY PairedMatches DEF IInv, SetOK
<1>2. QED
  BY <1>1, SetInvariant, PTL

\* A SYNC that the client saw from its first page leaves exactly the server's
\* members, save those there was no room for, whatever an earlier connection or a
\* SYNC that was cut short had left, and PRESENCE frames keep it so.
THEOREM SyncExact ==
  Spec => []SyncedIsExact
<1>1. IInv => SyncedIsExact
  BY DEF IInv, ExactInv, SyncedIsExact, Members, Of
<1>2. QED
  BY <1>1, SetInvariant, PTL

\* Who follows the events, with the LEAVEs that end_sync makes up, knows the
\* members that get_members returns and those there was no room for.
THEOREM EventsExact ==
  Spec => []EventsMatchSet
<1>1. IInv => EventsMatchSet
  BY DEF IInv, SetOK, EventsMatchSet, Members, Of
<1>2. QED
  BY <1>1, SetInvariant, PTL

(* Part 7: the client's own entry, and what its variables hold.            *)

Answer == {"fresh", "resumed", "detached"}

AppStates == {Idle}
               \cup [pc : {"ensure", "setEntered", "setData", "send"}, data : Data]
               \cup [pc : {"clear", "sendLeave"}]
SvcStates == [pc : {"dial", "loop", "onDisconnect", "reenter"}]
               \cup [pc : {"reenterSend"}, frame : Frame]

\* What a call has done when it gets to a place.
CallInv ==
  /\ app.pc \in {"setData", "send", "clear"} => entered
  /\ app.pc = "sendLeave" => ~entered
  /\ app.pc = "setEntered" => own_pres = "ready"

TypeInv == OwnTypeOK /\ app \in AppStates /\ svc \in SvcStates /\ CallInv

(* What the client believes of the channel.                                *)

Offline == svc.pc \in {"dial", "onDisconnect"}

\* News that the server has detached the channel is on its way, behind position i.
NewsAfter(i) == \E j \in DOMAIN inbox : i < j /\ inbox[j] = "detached"

ChannelInv ==
  /\ Offline => inbox = << >>
  /\ svc.pc = "dial" => ~attached
  /\ ~srvAtt => /\ srvOwn = None
                /\ \A i \in DOMAIN inbox : inbox[i] # "detached" => NewsAfter(i)
                /\ attached /\ ~Offline => NewsAfter(0)

(* What the server will believe of the client.                             *)

\* The last word on the member is v.
Says(v) ==
  \/ /\ srvOwn = v
     /\ \A i \in DOMAIN ring : ring[i].kind # "PRESENCE"
  \/ \E i \in DOMAIN ring :
       /\ ring[i] = Presence(v)
       /\ \A j \in DOMAIN ring : i < j => ring[j].kind # "PRESENCE"

\* The entry is going to be entered again, or the server has no use for it.
Reentry == \/ ~srvAtt \/ svc.pc \in {"reenter", "reenterSend"}
           \/ \E i \in DOMAIN inbox : inbox[i] = "fresh"

FollowInv ==
  app.pc = "idle" /\ causes = {} => /\ ~entered => Says(None)
                                    /\ entered => Says(In(data)) \/ Reentry

OwnInv == ChannelInv /\ FollowInv

LEMMA FrameKinds ==
  /\ Attach \in Frame /\ Attach.kind = "ATTACH"
  /\ Junk \in Frame /\ Junk.kind = "JUNK"
  /\ \A v \in Values : /\ Presence(v) \in Frame /\ Presence(v).kind = "PRESENCE"
                       /\ Presence(v).member = v
  /\ \A f \in Frame : f.kind = "PRESENCE" => f.member \in Values /\ f = Presence(f.member)
  /\ None \in Values /\ \A d \in Data : In(d) \in Values
<1>1. Attach.kind = "ATTACH" /\ Junk.kind = "JUNK"
  BY DEF Attach, Junk
<1>2. \A v : Presence(v).kind = "PRESENCE" /\ Presence(v).member = v
  BY DEF Presence
<1>3. Attach \in Frame /\ Junk \in Frame /\ \A v \in Values : Presence(v) \in Frame
  BY DEF Frame
<1>4. \A f \in Frame : \/ f = Attach \/ f = Junk
                       \/ \E v \in Values : f = Presence(v)
  BY DEF Frame
<1>5. None \in Values /\ \A d \in Data : In(d) \in Values
  BY DEF Values
<1>6. QED
  BY <1>1, <1>2, <1>3, <1>4, <1>5

LEMMA FlagsStep ==
  ASSUME TypeInv, [OwnNext]_ownVars
  PROVE  attached' \in BOOLEAN /\ entered' \in BOOLEAN /\ srvAtt' \in BOOLEAN
<1> attached \in BOOLEAN /\ entered \in BOOLEAN /\ srvAtt \in BOOLEAN
  BY Zenon DEF TypeInv, OwnTypeOK
<1> QED
  BY Zenon DEF EnterBegin, UpdateBegin, LeaveBegin, CallBegin, EnsureAlloc,
     EnsureInit, SetData, SetEntered, EnterSend, LeaveClear, LeaveSend,
     CallSend, Connect, Lose, OnDisconnect, AttachSend, Drain, ServerDetach,
     RecvDetached, RecvAttached, ReenterRead, ReenterSend, Handle, OwnNext, ownVars,
     own, ownSrvVars

\* What a call may say next.
LEMMA AppStep ==
  ASSUME TypeInv, [OwnNext]_ownVars
  PROVE  app' \in AppStates /\ data' \in Data /\ own_pres' \in {"none", "raw", "ready"}
<1>1. app \in AppStates /\ data \in Data /\ own_pres \in {"none", "raw", "ready"}
  BY DEF TypeInv, OwnTypeOK
<1>2. CASE UNCHANGED app /\ UNCHANGED data
  BY <1>1, <1>2 DEF EnterBegin, UpdateBegin, LeaveBegin, CallBegin,
     EnsureAlloc, EnsureInit, SetData, SetEntered, EnterSend, LeaveClear,
     LeaveSend, CallSend, Connect, Lose, OnDisconnect, AttachSend, Drain,
     ServerDetach, RecvDetached, RecvAttached, ReenterRead, ReenterSend,
     Handle, OwnNext, ownVars, own, ownSrvVars, Idle
<1>3. CASE EnterBegin \/ UpdateBegin \/ LeaveBegin
  BY <1>1, <1>3 DEF EnterBegin, UpdateBegin, LeaveBegin, CallBegin, own, AppStates
<1>4. CASE SetData
  BY <1>1, <1>4 DEF SetData, AppStates, Idle
<1>5. CASE SetEntered
  BY <1>1, <1>5 DEF SetEntered, AppStates, Idle
<1>6. CASE EnterSend \/ LeaveSend \/ LeaveClear
  BY <1>1, <1>6 DEF EnterSend, LeaveSend, LeaveClear, CallSend, own, AppStates, Idle
<1>7. \/ UNCHANGED app /\ UNCHANGED data
      \/ EnterBegin \/ UpdateBegin \/ LeaveBegin \/ SetData \/ SetEntered
      \/ EnterSend \/ LeaveSend \/ LeaveClear
  BY DEF EnsureAlloc, EnsureInit, Connect, Lose, OnDisconnect, AttachSend,
     Drain, ServerDetach, RecvDetached, RecvAttached, ReenterRead,
     ReenterSend, OwnNext, ownVars, own
<1>8. QED
  BY <1>2, <1>3, <1>4, <1>5, <1>6, <1>7

\* What happens to the ring: a frame joins it if there is room, or leaves it.
LEMMA RingCases ==
  ASSUME TypeInv, [OwnNext]_ownVars
  PROVE  \/ UNCHANGED ring
         \/ \E f \in Frame : ~RingFull /\ ring' = Append(ring, f)
         \/ ring # << >> /\ ring' = Tail(ring)
<1>1. data \in Data /\ (svc.pc = "reenterSend" => svc.frame \in Frame)
  BY DEF TypeInv, OwnTypeOK, SvcStates
<1>2. CASE EnterSend \/ LeaveSend
  BY <1>1, <1>2, FrameKinds DEF EnterSend, LeaveSend, CallSend, Enqueue
<1>3. CASE AttachSend
  BY <1>3, FrameKinds DEF AttachSend
<1>4. CASE ReenterSend
  BY <1>1, <1>4 DEF ReenterSend, Enqueue
<1>5. CASE Drain \/ Lose
  BY <1>5 DEF Drain, Lose
<1>6. CASE UNCHANGED ring
  BY <1>6
<1>7. \/ UNCHANGED ring \/ Drain \/ Lose
      \/ EnterSend \/ LeaveSend \/ AttachSend \/ ReenterSend
  BY DEF EnterBegin, UpdateBegin, LeaveBegin, CallBegin, EnsureAlloc,
     EnsureInit, SetData, SetEntered, LeaveClear, Connect, OnDisconnect,
     ServerDetach, RecvDetached, RecvAttached, ReenterRead, OwnNext, ownVars
<1>8. QED
  BY <1>2, <1>3, <1>4, <1>5, <1>6, <1>7

LEMMA RingStep ==
  ASSUME TypeInv, [OwnNext]_ownVars
  PROVE  ring' \in Seq(Frame) /\ Len(ring') <= RingSize
<1>1. ring \in Seq(Frame) /\ Len(ring) <= RingSize /\ RingSize \in Nat
  BY OwnPresenceAssumption DEF TypeInv, OwnTypeOK
<1>2. CASE UNCHANGED ring
  BY <1>1, <1>2
<1>3. ASSUME NEW f \in Frame, ~RingFull, ring' = Append(ring, f)
      PROVE  ring' \in Seq(Frame) /\ Len(ring') <= RingSize
  BY <1>1, <1>3 DEF RingFull
<1>4. CASE ring # << >> /\ ring' = Tail(ring)
  BY <1>1, <1>4
<1>5. QED
  BY <1>2, <1>3, <1>4, RingCases

\* What happens to the frames that arrive.
LEMMA InboxCases ==
  ASSUME [OwnNext]_ownVars
  PROVE  \/ UNCHANGED inbox
         \/ inbox' = << >>
         \/ \E a \in Answer : Handle(a)
         \/ /\ svc.pc = "loop" /\ srvAtt'
            /\ \E a \in {"fresh", "resumed"} : inbox' = Append(inbox, a)
         \/ /\ ~Offline /\ ~srvAtt'
            /\ inbox' = Append(inbox, "detached")
<1>1. CASE Drain
  BY <1>1, Zenon DEF Drain, ownSrvVars
<1>2. CASE ServerDetach
  BY <1>2, Zenon DEF ServerDetach, Offline
<1>3. CASE ~Drain /\ ~ServerDetach
  BY <1>3 DEF EnterBegin, UpdateBegin, LeaveBegin, CallBegin, EnsureAlloc,
     EnsureInit, SetData, SetEntered, EnterSend, LeaveClear, LeaveSend,
     CallSend, Connect, Lose, OnDisconnect, AttachSend, RecvDetached,
     RecvAttached, ReenterRead, ReenterSend, OwnNext, ownVars, ownSrvVars, Answer
<1>4. QED
  BY <1>1, <1>2, <1>3

LEMMA InboxStep ==
  ASSUME TypeInv, [OwnNext]_ownVars
  PROVE  inbox' \in Seq(Answer)
<1>1. inbox \in Seq(Answer)
  BY DEF TypeInv, OwnTypeOK, Answer
<1>2. \A a \in Answer : Append(inbox, a) \in Seq(Answer)
  BY <1>1
<1>3. << >> \in Seq(Answer) /\ (inbox # << >> => Tail(inbox) \in Seq(Answer))
  BY <1>1
<1>4. {"fresh", "resumed", "detached"} = Answer
  BY DEF Answer
<1>5. QED
  BY <1>1, <1>2, <1>3, <1>4, InboxCases DEF Handle

\* What the service thread may do next.
LEMMA SvcStep ==
  ASSUME TypeInv, [OwnNext]_ownVars
  PROVE  svc' \in SvcStates
<1>1. svc \in SvcStates /\ data \in Data
  BY DEF TypeInv, OwnTypeOK
<1>2. CASE ReenterRead
  <2>1. \/ svc' = [pc |-> "loop"]
        \/ \E f \in Frame : svc' = [pc |-> "reenterSend", frame |-> f]
    BY <1>1, <1>2, FrameKinds DEF ReenterRead
  <2>2. QED
    BY <2>1 DEF SvcStates
<1>3. CASE UNCHANGED svc \/ svc' \in [pc : {"dial", "loop", "onDisconnect", "reenter"}]
  BY <1>1, <1>3 DEF SvcStates
<1>4. ReenterRead \/ UNCHANGED svc
        \/ svc' \in [pc : {"dial", "loop", "onDisconnect", "reenter"}]
  BY DEF EnterBegin, UpdateBegin, LeaveBegin, CallBegin, EnsureAlloc,
     EnsureInit, SetData, SetEntered, EnterSend, LeaveClear, LeaveSend,
     CallSend, Connect, Lose, OnDisconnect, AttachSend, Drain, ServerDetach,
     RecvDetached, RecvAttached, ReenterSend, Handle, OwnNext, ownVars, own, ownSrvVars
<1>5. QED
  BY <1>2, <1>3, <1>4

\* The member of the server is one of a client.
LEMMA SrvStep ==
  ASSUME TypeInv, [OwnNext]_ownVars
  PROVE  srvOwn' \in Values
<1>1. ring \in Seq(Frame) /\ srvOwn \in Values
  BY DEF TypeInv, OwnTypeOK
<1>2. CASE Drain
  <2>1. Head(ring) \in Frame
    BY <1>1, <1>2 DEF Drain
  <2>2. Head(ring).kind = "PRESENCE" => Head(ring).member \in Values
    BY <2>1, FrameKinds
  <2>3. UNCHANGED srvOwn \/ (Head(ring).kind = "PRESENCE" /\ srvOwn' = Head(ring).member)
    BY <1>2 DEF Drain, ownSrvVars
  <2>4. QED
    BY <1>1, <2>2, <2>3
<1>3. CASE ~Drain
  <2>1. UNCHANGED srvOwn \/ srvOwn' = None
    BY <1>3 DEF EnterBegin, UpdateBegin, LeaveBegin, CallBegin, EnsureAlloc,
       EnsureInit, SetData, SetEntered, EnterSend, LeaveClear, LeaveSend,
       CallSend, Connect, Lose, OnDisconnect, AttachSend, ServerDetach,
       RecvDetached, RecvAttached, ReenterRead, ReenterSend, Handle, OwnNext, ownVars,
       own, ownSrvVars
  <2>2. QED
    BY <1>1, <2>1, FrameKinds
<1>4. QED
  BY <1>2, <1>3

LEMMA CallStep ==
  ASSUME TypeInv, [OwnNext]_ownVars
  PROVE  CallInv' /\ (entered' => own_pres' = "ready")
<1>1. /\ app \in AppStates /\ CallInv
      /\ entered \in BOOLEAN /\ (entered => own_pres = "ready")
  BY DEF TypeInv, OwnTypeOK
<1>2. CASE EnterBegin \/ UpdateBegin \/ LeaveBegin
  BY <1>1, <1>2 DEF EnterBegin, UpdateBegin, LeaveBegin, CallBegin, own, CallInv
<1>3. CASE EnsureAlloc \/ EnsureInit
  BY <1>1, <1>3 DEF EnsureAlloc, EnsureInit, own, CallInv
<1>4. CASE SetData
  <2>1. app'.pc \in {"setEntered", "send"} /\ (app'.pc = "send" => app.pc = "setData")
          /\ (app'.pc = "setEntered" => own_pres = "ready")
    BY <1>1, <1>4 DEF SetData, AppStates, Idle
  <2>2. UNCHANGED <<entered, own_pres>>
    BY <1>4 DEF SetData
  <2>3. QED
    BY <1>1, <2>1, <2>2 DEF CallInv
<1>5. CASE SetEntered
  <2>1. app'.pc = "send" /\ own_pres' = "ready" /\ entered'
    BY <1>1, <1>5 DEF SetEntered, AppStates, Idle, CallInv
  <2>2. QED
    BY <2>1 DEF CallInv
<1>6. CASE LeaveClear
  BY <1>6 DEF LeaveClear, CallInv
<1>7. CASE EnterSend \/ LeaveSend
  BY <1>1, <1>7 DEF EnterSend, LeaveSend, CallSend, own, CallInv, Idle
<1>8. CASE UNCHANGED <<app, entered, own_pres>>
  BY <1>1, <1>8 DEF CallInv
<1>9. \/ EnterBegin \/ UpdateBegin \/ LeaveBegin \/ EnsureAlloc \/ EnsureInit
      \/ SetData \/ SetEntered \/ LeaveClear \/ EnterSend \/ LeaveSend
      \/ UNCHANGED <<app, entered, own_pres>>
  BY DEF Connect, Lose, OnDisconnect, AttachSend, Drain, ServerDetach,
     RecvDetached, RecvAttached, ReenterRead, ReenterSend, OwnNext, ownVars, own
<1>10. QED
  BY <1>2, <1>3, <1>4, <1>5, <1>6, <1>7, <1>8, <1>9

LEMMA CountersStep ==
  ASSUME TypeInv, [OwnNext]_ownVars
  PROVE  /\ calls' \in 0 .. MaxCalls /\ events' \in 0 .. MaxEvents
         /\ causes' \subseteq {"full", "lost", "overtaken"}
<1>1. /\ calls \in 0 .. MaxCalls /\ events \in 0 .. MaxEvents
      /\ causes \subseteq {"full", "lost", "overtaken"}
  BY DEF TypeInv, OwnTypeOK
<1>2. calls' = calls \/ (calls < MaxCalls /\ calls' = calls + 1)
  BY DEF EnterBegin, UpdateBegin, LeaveBegin, CallBegin, EnsureAlloc,
     EnsureInit, SetData, SetEntered, EnterSend, LeaveClear, LeaveSend,
     CallSend, Connect, Lose, OnDisconnect, AttachSend, Drain, ServerDetach,
     RecvDetached, RecvAttached, ReenterRead, ReenterSend, Handle, OwnNext, ownVars,
     own, ownSrvVars
<1>3. events' = events \/ (events < MaxEvents /\ events' = events + 1)
  BY DEF EnterBegin, UpdateBegin, LeaveBegin, CallBegin, EnsureAlloc,
     EnsureInit, SetData, SetEntered, EnterSend, LeaveClear, LeaveSend,
     CallSend, Connect, Lose, OnDisconnect, AttachSend, Drain, ServerDetach,
     RecvDetached, RecvAttached, ReenterRead, ReenterSend, Handle, OwnNext, ownVars,
     own, ownSrvVars
<1>4. \/ causes' = causes \/ causes' = {}
      \/ \E c \in {"full", "lost", "overtaken"} : causes' = causes \cup {c}
  BY DEF EnterBegin, UpdateBegin, LeaveBegin, CallBegin, EnsureAlloc,
     EnsureInit, SetData, SetEntered, EnterSend, LeaveClear, LeaveSend,
     CallSend, Connect, Lose, OnDisconnect, AttachSend, Drain, ServerDetach,
     RecvDetached, RecvAttached, ReenterRead, ReenterSend, Handle, OwnNext, ownVars,
     own, ownSrvVars
<1>5. calls' \in 0 .. MaxCalls /\ events' \in 0 .. MaxEvents
  BY <1>1, <1>2, <1>3, LimitAssumption
<1>6. causes' \subseteq {"full", "lost", "overtaken"}
  BY <1>1, <1>4
<1>7. QED
  BY <1>5, <1>6

LEMMA TypeStep ==
  ASSUME TypeInv, [OwnNext]_ownVars
  PROVE  TypeInv'
<1>1. attached' \in BOOLEAN /\ entered' \in BOOLEAN /\ srvAtt' \in BOOLEAN
  BY FlagsStep, Zenon
<1>2. /\ app' \in AppStates /\ data' \in Data /\ own_pres' \in {"none", "raw", "ready"}
      /\ svc' \in SvcStates /\ srvOwn' \in Values
  BY AppStep, SvcStep, SrvStep, Zenon
<1>3. ring' \in Seq(Frame) /\ Len(ring') <= RingSize
        /\ inbox' \in Seq({"fresh", "resumed", "detached"})
  BY RingStep, InboxStep, Zenon DEF Answer
<1>4. CallInv' /\ (entered' => own_pres' = "ready")
  BY CallStep, Zenon
<1>5. /\ calls' \in 0 .. MaxCalls /\ events' \in 0 .. MaxEvents
      /\ causes' \subseteq {"full", "lost", "overtaken"}
  BY CountersStep, Zenon
<1>6. QED
  BY <1>1, <1>2, <1>3, <1>4, <1>5, Zenon DEF TypeInv, OwnTypeOK

LEMMA TypeInit == OwnInit => TypeInv
<1> SUFFICES ASSUME OwnInit PROVE TypeInv
  OBVIOUS
<1>1. attached \in BOOLEAN /\ entered \in BOOLEAN /\ srvAtt \in BOOLEAN
        /\ ~entered
  BY Zenon DEF OwnInit
<1>2. /\ app \in AppStates /\ svc \in SvcStates /\ CallInv
      /\ own_pres \in {"none", "raw", "ready"} /\ data \in Data /\ srvOwn \in Values
  BY FrameKinds DEF OwnInit, AppStates, SvcStates, CallInv, Idle
<1>3. /\ ring \in Seq(Frame) /\ Len(ring) <= RingSize
      /\ inbox \in Seq({"fresh", "resumed", "detached"})
      /\ calls \in 0 .. MaxCalls /\ events \in 0 .. MaxEvents
      /\ causes \subseteq {"full", "lost", "overtaken"}
  BY OwnPresenceAssumption, LimitAssumption DEF OwnInit
<1>4. QED
  BY <1>1, <1>2, <1>3 DEF TypeInv, OwnTypeOK

\* The fields hold what presence.c keeps in them: own_entered is set only on an
\* entry that has been set up.
THEOREM OwnTypeInvariant == OwnSpec => []OwnTypeOK
<1>1. TypeInv /\ [OwnNext]_ownVars => TypeInv'
  BY TypeStep
<1>2. TypeInv => OwnTypeOK
  BY DEF TypeInv
<1>3. QED
  BY TypeInit, <1>1, <1>2, PTL DEF OwnSpec

(* Part 8: what the client believes of the channel.                        *)

\* A position of a queue after a frame has joined it, or left it.
LEMMA AfterAppend ==
  ASSUME NEW S, NEW q \in Seq(S), NEW x \in S
  PROVE  /\ Len(q) + 1 \in DOMAIN Append(q, x) /\ Append(q, x)[Len(q) + 1] = x
         /\ \A i \in DOMAIN q : /\ i \in Nat /\ i < Len(q) + 1
                                /\ i \in DOMAIN Append(q, x) /\ Append(q, x)[i] = q[i]
         /\ \A i \in DOMAIN Append(q, x) : i \in DOMAIN q \/ i = Len(q) + 1
OBVIOUS

LEMMA AfterTail ==
  ASSUME NEW S, NEW q \in Seq(S), q # << >>
  PROVE  /\ 1 \in DOMAIN q /\ Head(q) = q[1] /\ Head(q) \in S
         /\ \A i \in DOMAIN Tail(q) :
              i \in Nat \ {0} /\ i + 1 \in DOMAIN q /\ Tail(q)[i] = q[i + 1]
         /\ \A i \in DOMAIN q :
              i \in Nat \ {0} /\ (i # 1 => i - 1 \in DOMAIN Tail(q) /\ Tail(q)[i - 1] = q[i])
OBVIOUS

\* The service thread is online or offline, and the view of the channel stays,
\* in every other step.
LEMMA ViewCases ==
  ASSUME [OwnNext]_ownVars
  PROVE  \/ Drain \/ ServerDetach \/ Connect \/ Lose \/ OnDisconnect
         \/ RecvDetached \/ RecvAttached("fresh") \/ RecvAttached("resumed")
         \/ /\ UNCHANGED <<attached, srvAtt, srvOwn, inbox>>
            /\ Offline' <=> Offline
            /\ svc'.pc = "dial" => svc.pc = "dial"
BY DEF EnterBegin, UpdateBegin, LeaveBegin, CallBegin, EnsureAlloc,
   EnsureInit, SetData, SetEntered, EnterSend, LeaveClear, LeaveSend,
   CallSend, AttachSend, ReenterRead, ReenterSend, OwnNext, ownVars, ownSrvVars,
   Offline

LEMMA ChannelStep ==
  ASSUME TypeInv, ChannelInv, [OwnNext]_ownVars
  PROVE  ChannelInv'
<1>1. inbox \in Seq(Answer)
  BY DEF TypeInv, OwnTypeOK, Answer
<1>2. CASE Drain
  <2>1. UNCHANGED <<attached, svc>> /\ svc.pc = "loop"
    BY <1>2 DEF Drain
  <2>2. \/ srvAtt' = TRUE
        \/ UNCHANGED <<srvAtt, inbox>> /\ srvOwn' = IF srvAtt THEN Head(ring).member ELSE srvOwn
        \/ UNCHANGED <<srvAtt, inbox, srvOwn>>
    BY <1>2, Zenon DEF Drain, ownSrvVars
  <2>3. ~srvAtt' => ~srvAtt /\ UNCHANGED <<srvOwn, inbox>>
    BY <2>2, Zenon
  <2>4. ~Offline /\ ~Offline' /\ svc'.pc # "dial"
    BY <2>1 DEF Offline
  <2>5. QED
    BY <2>1, <2>3, <2>4 DEF ChannelInv, NewsAfter
<1>3. CASE ServerDetach
  <2>1. /\ svc' = svc /\ ~Offline /\ attached' = attached /\ ~srvAtt'
        /\ srvOwn' = None /\ inbox' = Append(inbox, "detached")
    BY <1>3, Zenon DEF ServerDetach, Offline
  <2>2. "detached" \in Answer
    BY DEF Answer
  <2>3. NewsAfter(0)' /\ \A i \in DOMAIN inbox' : inbox'[i] # "detached" => NewsAfter(i)'
    BY <1>1, <2>1, <2>2, AfterAppend DEF NewsAfter
  <2>4. QED
    BY <2>1, <2>3 DEF ChannelInv, Offline
<1>4. CASE Connect
  <2>1. svc.pc = "dial" /\ svc'.pc = "loop" /\ UNCHANGED <<attached, inbox>>
    BY <1>4 DEF Connect
  <2>2. ~srvAtt' => srvOwn' = None \/ (~srvAtt /\ srvOwn' = srvOwn)
    BY <1>4, Zenon DEF Connect
  <2>3. inbox = << >> /\ ~attached
    BY <2>1 DEF ChannelInv, Offline
  <2>4. QED
    BY <2>1, <2>2, <2>3 DEF ChannelInv, Offline
<1>5. CASE Lose
  BY <1>5 DEF Lose, ChannelInv, Offline
<1>6. CASE OnDisconnect
  BY <1>6 DEF OnDisconnect, ownSrvVars, ChannelInv, Offline
<1>7. ASSUME NEW a, Handle(a)
      PROVE  /\ inbox # << >> /\ inbox' = Tail(inbox) /\ inbox[1] = a
             /\ svc.pc = "loop" /\ ~Offline
             /\ \A i \in DOMAIN inbox' : NewsAfter(i + 1) => NewsAfter(i)'
             /\ NewsAfter(1) => NewsAfter(0)'
  <2>1. inbox # << >> /\ inbox' = Tail(inbox) /\ inbox[1] = a /\ svc.pc = "loop"
    BY <1>1, <1>7, AfterTail DEF Handle
  <2>2. ASSUME NEW i \in Nat, NewsAfter(i + 1)
        PROVE  NewsAfter(i)'
    <3>1. PICK j \in DOMAIN inbox : i + 1 < j /\ inbox[j] = "detached"
      BY <2>2 DEF NewsAfter
    <3>2. j - 1 \in DOMAIN inbox' /\ inbox'[j - 1] = "detached" /\ i < j - 1
      BY <1>1, <2>1, <3>1, AfterTail
    <3>3. QED
      BY <3>2 DEF NewsAfter
  <2>3. \A i \in DOMAIN inbox' : i \in Nat
    BY <1>1, <2>1, AfterTail
  <2>4. NewsAfter(1) => NewsAfter(0)'
    <3>1. 0 + 1 = 1
      OBVIOUS
    <3>2. NewsAfter(0 + 1) => NewsAfter(0)'
      BY <2>2
    <3>3. QED
      BY <3>1, <3>2
  <2>5. QED
    BY <2>1, <2>2, <2>3, <2>4 DEF Offline
<1>8. CASE RecvDetached
  <2>1. Handle("detached") /\ ~attached' /\ UNCHANGED <<svc, srvAtt, srvOwn>>
    BY <1>8, Zenon DEF RecvDetached
  <2>2. \A i \in DOMAIN inbox' : i + 1 \in DOMAIN inbox /\ inbox'[i] = inbox[i + 1]
    BY <1>1, <1>7, <2>1, AfterTail
  <2>3. QED
    BY <1>7, <2>1, <2>2 DEF ChannelInv, Offline
<1>9. ASSUME NEW a \in {"fresh", "resumed"}, RecvAttached(a)
      PROVE  ChannelInv'
  <2>1. Handle(a) /\ UNCHANGED <<srvAtt, srvOwn>> /\ svc'.pc \in {"reenter", "loop"}
    BY <1>9 DEF RecvAttached
  <2>2. \A i \in DOMAIN inbox' : i + 1 \in DOMAIN inbox /\ inbox'[i] = inbox[i + 1]
    BY <1>1, <1>7, <2>1, AfterTail
  <2>3. ~srvAtt => NewsAfter(1)
    BY <1>1, <1>7, <2>1, AfterTail DEF ChannelInv
  <2>4. QED
    BY <1>7, <2>1, <2>2, <2>3 DEF ChannelInv, Offline
<1>10. CASE /\ UNCHANGED <<attached, srvAtt, srvOwn, inbox>>
            /\ Offline' <=> Offline
            /\ svc'.pc = "dial" => svc.pc = "dial"
  BY <1>10 DEF ChannelInv, NewsAfter
<1>11. QED
  BY <1>2, <1>3, <1>4, <1>5, <1>6, <1>8, <1>9, <1>10, ViewCases

(* Part 9: what the server will believe of the client.                     *)

\* A presence frame that joins the ring has the last word, ...
LEMMA SaysPresence ==
  ASSUME ring \in Seq(Frame), NEW v \in Values, ring' = Append(ring, Presence(v))
  PROVE  Says(v)'
<1>1. Presence(v) \in Frame
  BY FrameKinds
<1>2. Len(ring) + 1 \in DOMAIN ring' /\ ring'[Len(ring) + 1] = Presence(v)
        /\ \A j \in DOMAIN ring' : ~(Len(ring) + 1 < j)
  BY <1>1
<1>3. QED
  BY <1>2 DEF Says

\* ... another frame leaves it to whoever had it, ...
LEMMA SaysOther ==
  ASSUME ring \in Seq(Frame), NEW f \in Frame, f.kind # "PRESENCE",
         ring' = Append(ring, f), UNCHANGED srvOwn, NEW v, Says(v)
  PROVE  Says(v)'
<1>1. /\ \A i \in DOMAIN ring : i \in DOMAIN ring' /\ ring'[i] = ring[i]
      /\ \A i \in DOMAIN ring' : (i \in DOMAIN ring /\ ring'[i] = ring[i]) \/ ring'[i] = f
  BY AfterAppend
<1>2. QED
  BY <1>1 DEF Says

\* ... and a frame that leaves the ring passes it on to the server.
LEMMA SaysDrained ==
  ASSUME ring \in Seq(Frame), ring # << >>, ring' = Tail(ring), NEW v, Says(v),
         \/ Head(ring).kind # "PRESENCE" /\ UNCHANGED srvOwn
         \/ Head(ring).kind = "PRESENCE" /\ srvOwn' = Head(ring).member
         \/ srvOwn' = v
  PROVE  Says(v)'
<1>1. /\ 1 \in DOMAIN ring /\ Head(ring) = ring[1]
      /\ \A i \in DOMAIN ring' :
           i \in Nat \ {0} /\ i + 1 \in DOMAIN ring /\ ring'[i] = ring[i + 1]
      /\ \A i \in DOMAIN ring : /\ i \in Nat \ {0}
           /\ i # 1 => i - 1 \in DOMAIN ring' /\ ring'[i - 1] = ring[i]
  BY AfterTail
<1>2. CASE srvOwn = v /\ \A i \in DOMAIN ring : ring[i].kind # "PRESENCE"
  BY <1>1, <1>2 DEF Says
<1>3. ASSUME NEW i \in DOMAIN ring, ring[i] = Presence(v),
             \A j \in DOMAIN ring : i < j => ring[j].kind # "PRESENCE"
      PROVE  Says(v)'
  <2>1. CASE i = 1
    <3>1. \A j \in DOMAIN ring' : ring'[j].kind # "PRESENCE"
      BY <1>1, <1>3, <2>1
    <3>2. srvOwn' = v
      BY <1>1, <1>3, <2>1 DEF Presence
    <3>3. QED
      BY <3>1, <3>2 DEF Says
  <2>2. CASE i # 1
    <3>1. i - 1 \in DOMAIN ring' /\ ring'[i - 1] = Presence(v)
      BY <1>1, <1>3, <2>2
    <3>2. \A j \in DOMAIN ring' : i - 1 < j => ring'[j].kind # "PRESENCE"
      BY <1>1, <1>3
    <3>3. QED
      BY <3>1, <3>2 DEF Says
  <2>3. QED
    BY <2>1, <2>2
<1>4. QED
  BY <1>2, <1>3 DEF Says

\* Forgetting a member no frame speaks of leaves the client with none.
LEMMA SaysForgotten ==
  ASSUME UNCHANGED ring, srvOwn' = None, Says(None)
  PROVE  Says(None)'
BY DEF Says

LEMMA SaysSame ==
  ASSUME UNCHANGED <<ring, srvOwn>>, NEW v, Says(v)
  PROVE  Says(v)'
BY DEF Says

\* The last word of the application: its frame, if the ring takes it.
LEMMA FollowCall ==
  ASSUME TypeInv, EnterSend \/ LeaveSend
  PROVE  FollowInv'
<1>1. ring \in Seq(Frame) /\ data \in Data /\ CallInv
  BY DEF TypeInv, OwnTypeOK
<1>2. UNCHANGED <<entered, data>>
  BY DEF EnterSend, LeaveSend, CallSend, own
<1> SUFFICES ASSUME causes' = {}
             PROVE  (~entered => Says(None)') /\ (entered => Says(In(data))')
  BY <1>2, Zenon DEF FollowInv
<1>3. ~RingFull
  BY DEF EnterSend, LeaveSend, CallSend
<1>4. CASE EnterSend
  <2>1. entered /\ ring' = Append(ring, Presence(In(data)))
    BY <1>1, <1>3, <1>4 DEF EnterSend, CallSend, Enqueue, CallInv
  <2>2. In(data) \in Values
    BY <1>1, FrameKinds
  <2>3. PICK v \in Values : v = In(data)
    BY <2>2
  <2>4. Says(v)'
    BY <1>1, <2>1, <2>3, SaysPresence
  <2>5. In(data)' = v
    BY <1>2, <2>3 DEF In
  <2>6. QED
    BY <2>1, <2>4, <2>5
<1>5. CASE LeaveSend
  <2>1. ~entered /\ ring' = Append(ring, Presence(None))
    BY <1>1, <1>3, <1>5 DEF LeaveSend, CallSend, Enqueue, CallInv
  <2>2. Says(None)'
    BY <1>1, <2>1, SaysPresence, FrameKinds
  <2>3. QED
    BY <2>1, <2>2
<1>6. QED
  BY <1>4, <1>5

\* A re-entry that is enqueued while no call is in progress is either the entry
\* of the client or a cause.
LEMMA FollowReenter ==
  ASSUME TypeInv, ReenterSend
  PROVE  FollowInv'
<1>1. ring \in Seq(Frame) /\ data \in Data
  BY DEF TypeInv, OwnTypeOK
<1>2. UNCHANGED <<entered, data, app>>
  BY DEF ReenterSend, own
<1> SUFFICES ASSUME causes' = {}, app.pc = "idle"
             PROVE  (~entered => Says(None)') /\ (entered => Says(In(data))')
  BY <1>2, Zenon DEF FollowInv
<1>3. ~RingFull /\ svc.frame = Presence(Own)
  BY Zenon DEF ReenterSend, Overtaken
<1>4. Own \in Values
  BY <1>1, FrameKinds DEF Own
<1>5. PICK v \in Values : v = Own
  BY <1>4
<1>6. ring' = Append(ring, Presence(v))
  BY <1>3, <1>5 DEF ReenterSend, Enqueue
<1>7. Says(v)'
  BY <1>1, <1>6, SaysPresence
<1>8. (~entered => v = None) /\ (entered => v = In(data)')
  BY <1>2, <1>5 DEF Own, In
<1>9. QED
  BY <1>7, <1>8, Zenon

\* The steps after which a call is in progress claim nothing.
LEMMA InProgress ==
  ASSUME TypeInv,
         \/ EnterBegin \/ UpdateBegin \/ LeaveBegin \/ EnsureAlloc \/ EnsureInit
         \/ SetData \/ SetEntered \/ LeaveClear
  PROVE  app'.pc # "idle"
<1>1. app \in AppStates
  BY DEF TypeInv
<1>2. QED
  BY <1>1 DEF EnterBegin, UpdateBegin, LeaveBegin, CallBegin, EnsureAlloc,
     EnsureInit, SetData, SetEntered, LeaveClear, AppStates, Idle

\* In the other steps no call returns: what was going to be said is said still,
\* and an entry that was going to be entered again still is.
LEMMA FollowKept ==
  ASSUME TypeInv, FollowInv, UNCHANGED <<app, entered, data>>,
         causes' = {} => /\ causes = {}
                         /\ ~entered => (Says(None) => Says(None)')
                         /\ entered => /\ Reentry => Reentry'
                                       /\ \A v : Says(v) => Says(v)' \/ Reentry'
  PROVE  FollowInv'
<1>1. PICK v : v = In(data)
  OBVIOUS
<1>2. v = In(data)'
  BY <1>1 DEF In
<1>3. CASE app.pc = "idle" /\ causes' = {}
  <2>1. (~entered => Says(None)) /\ (entered => Says(v) \/ Reentry)
    BY <1>1, <1>3, Zenon DEF FollowInv
  <2>2. (~entered => Says(None)') /\ (entered => Says(v)' \/ Reentry')
    BY <1>3, <2>1, Zenon
  <2>3. QED
    BY <1>2, <2>2, Zenon DEF FollowInv
<1>4. QED
  BY <1>3, Zenon DEF FollowInv

LEMMA FollowConnection ==
  ASSUME TypeInv, ChannelInv, FollowInv,
         Connect \/ Lose \/ OnDisconnect \/ ServerDetach
  PROVE  FollowInv'
<1>1. CASE Connect
  <2>1. UNCHANGED <<app, entered, data, causes, ring, inbox>> /\ svc.pc = "dial"
    BY <1>1 DEF Connect, own
  <2>2. UNCHANGED <<srvAtt, srvOwn>> \/ (~srvAtt' /\ srvOwn' = None)
    BY <1>1, Zenon DEF Connect
  <2>3. Says(None) => Says(None)'
    BY <2>1, <2>2, SaysSame, SaysForgotten
  <2>4. \A v : Says(v) => Says(v)' \/ Reentry'
    BY <2>1, <2>2, SaysSame DEF Reentry
  <2>5. Reentry => Reentry'
    BY <2>1, <2>2 DEF Reentry
  <2>6. QED
    BY <2>1, <2>3, <2>4, <2>5, FollowKept
<1>2. CASE Lose
  <2>1. UNCHANGED <<app, entered, data, srvOwn, srvAtt>> /\ svc.pc = "loop"
    BY <1>2 DEF Lose, own
  <2>2. causes' = {} => causes = {} /\ UNCHANGED ring
                          /\ ~\E i \in DOMAIN inbox : inbox[i] = "fresh"
    BY <1>2, Zenon DEF Lose
  <2>3. causes' = {} => (Reentry => Reentry')
    BY <2>1, <2>2 DEF Reentry
  <2>4. causes' = {} => \A v : Says(v) => Says(v)'
    BY <2>1, <2>2, SaysSame
  <2>5. QED
    BY <2>1, <2>2, <2>3, <2>4, FollowKept
<1>3. CASE OnDisconnect
  <2>1. /\ UNCHANGED <<app, entered, data, causes, ring, srvAtt, srvOwn, inbox>>
        /\ svc.pc = "onDisconnect"
    BY <1>3 DEF OnDisconnect, own, ownSrvVars
  <2>2. (Reentry => Reentry') /\ \A v : Says(v) => Says(v)'
    BY <2>1, SaysSame DEF Reentry
  <2>3. QED
    BY <2>1, <2>2, FollowKept
<1>4. CASE ServerDetach
  <2>1. UNCHANGED <<app, entered, data, causes, ring>>
    BY <1>4 DEF ServerDetach, own
  <2>2. ~srvAtt' /\ srvOwn' = None
    BY <1>4, Zenon DEF ServerDetach
  <2>3. Reentry' /\ (Says(None) => Says(None)')
    BY <2>1, <2>2, SaysForgotten DEF Reentry
  <2>4. QED
    BY <2>1, <2>3, FollowKept
<1>5. QED
  BY <1>1, <1>2, <1>3, <1>4

LEMMA FollowFrames ==
  ASSUME TypeInv, ChannelInv, FollowInv, AttachSend \/ Drain
  PROVE  FollowInv'
<1>1. ring \in Seq(Frame) /\ inbox \in Seq(Answer)
  BY DEF TypeInv, OwnTypeOK, Answer
<1>2. CASE AttachSend
  <2>1. /\ UNCHANGED <<app, entered, data, causes, svc, srvAtt, srvOwn, inbox>>
        /\ ring' = Append(ring, Attach)
    BY <1>2 DEF AttachSend, own, ownSrvVars
  <2>2. \A v : Says(v) => Says(v)'
    BY <1>1, <2>1, SaysOther, FrameKinds
  <2>3. Reentry => Reentry'
    BY <2>1 DEF Reentry
  <2>4. QED
    BY <2>1, <2>2, <2>3, FollowKept
<1>3. CASE Drain
  <2>1. /\ UNCHANGED <<app, entered, data, causes, svc>> /\ svc.pc = "loop"
        /\ ring # << >> /\ ring' = Tail(ring)
    BY <1>3, Zenon DEF Drain, own
  <2>2. CASE /\ Head(ring).kind = "ATTACH" /\ srvAtt' = TRUE /\ UNCHANGED srvOwn
             /\ inbox' = Append(inbox, IF srvAtt THEN "resumed" ELSE "fresh")
    <3>1. \A v : Says(v) => Says(v)'
      BY <1>1, <2>1, <2>2, SaysDrained
    <3>2. {"resumed", "fresh"} \subseteq Answer
      BY DEF Answer
    <3>3. CASE ~srvAtt
      <4>1. inbox' = Append(inbox, "fresh")
        BY <2>2, <3>3
      <4>2. Reentry'
        BY <1>1, <3>2, <4>1, AfterAppend DEF Reentry
      <4>3. QED
        BY <2>1, <3>1, <4>2, FollowKept
    <3>4. CASE srvAtt
      <4>1. inbox' = Append(inbox, "resumed")
        BY <2>2, <3>4
      <4>2. \A i \in DOMAIN inbox : i \in DOMAIN inbox' /\ inbox'[i] = inbox[i]
        BY <1>1, <3>2, <4>1, AfterAppend
      <4>3. Reentry => Reentry'
        BY <2>1, <3>4, <4>2 DEF Reentry
      <4>4. QED
        BY <2>1, <3>1, <4>3, FollowKept
    <3>5. QED
      BY <3>3, <3>4
  <2>3. CASE /\ Head(ring).kind = "PRESENCE" /\ UNCHANGED <<srvAtt, inbox>>
             /\ srvOwn' = IF srvAtt THEN Head(ring).member ELSE srvOwn
    <3>1. Reentry => Reentry'
      BY <2>1, <2>3 DEF Reentry
    <3>2. CASE ~srvAtt
      <4>1. Reentry' /\ srvOwn = None
        BY <2>3, <3>2 DEF Reentry, ChannelInv
      <4>2. srvOwn' = None
        BY <2>3, <3>2, <4>1
      <4>3. Says(None) => Says(None)'
        BY <1>1, <2>1, <4>2, SaysDrained
      <4>4. QED
        BY <2>1, <4>1, <4>3, FollowKept
    <3>3. CASE srvAtt
      <4>1. srvOwn' = Head(ring).member
        BY <2>3, <3>3
      <4>2. \A v : Says(v) => Says(v)'
        BY <1>1, <2>1, <2>3, <4>1, SaysDrained
      <4>3. QED
        BY <2>1, <3>1, <4>2, FollowKept
    <3>4. QED
      BY <3>2, <3>3
  <2>4. CASE Head(ring).kind = "JUNK" /\ UNCHANGED <<srvAtt, inbox, srvOwn>>
    <3>1. \A v : Says(v) => Says(v)'
      BY <1>1, <2>1, <2>4, SaysDrained
    <3>2. Reentry => Reentry'
      BY <2>1, <2>4 DEF Reentry
    <3>3. QED
      BY <2>1, <3>1, <3>2, FollowKept
  <2>5. QED
    BY <1>3, <2>2, <2>3, <2>4, Zenon DEF Drain, ownSrvVars
<1>4. QED
  BY <1>2, <1>3

LEMMA FollowAnswers ==
  ASSUME TypeInv, FollowInv,
         \/ RecvDetached \/ RecvAttached("fresh") \/ RecvAttached("resumed")
         \/ ReenterRead
  PROVE  FollowInv'
<1>1. inbox \in Seq(Answer) /\ (entered => own_pres = "ready")
  BY DEF TypeInv, OwnTypeOK, Answer
<1>2. UNCHANGED <<app, entered, data, causes, ring, srvOwn, srvAtt, own_pres>>
  BY DEF RecvDetached, RecvAttached, ReenterRead, own, ownSrvVars
<1>3. \A v : Says(v) => Says(v)'
  BY <1>2, SaysSame
<1>4. entered /\ Reentry => Reentry'
  <2>1. CASE RecvAttached("fresh")
    BY <1>1, <2>1 DEF RecvAttached, Reentry
  <2>2. CASE RecvDetached \/ RecvAttached("resumed")
    <3>1. PICK a \in {"detached", "resumed"} : Handle(a)
      BY <2>2 DEF RecvDetached, RecvAttached
    <3>2. svc.pc = "loop" /\ inbox # << >> /\ inbox' = Tail(inbox) /\ inbox[1] = a
      BY <1>1, <3>1, AfterTail DEF Handle
    <3>3. ASSUME NEW i \in DOMAIN inbox, inbox[i] = "fresh"
          PROVE  i - 1 \in DOMAIN inbox' /\ inbox'[i - 1] = "fresh"
      BY <1>1, <3>2, <3>3, AfterTail
    <3>4. QED
      BY <1>2, <3>2, <3>3 DEF Reentry
  <2>3. CASE ReenterRead
    BY <1>1, <2>3 DEF ReenterRead, Reentry
  <2>4. QED
    BY <2>1, <2>2, <2>3
<1>5. QED
  BY <1>2, <1>3, <1>4, FollowKept

LEMMA FollowStep ==
  ASSUME TypeInv, ChannelInv, FollowInv, [OwnNext]_ownVars
  PROVE  FollowInv'
<1>1. CASE UNCHANGED ownVars
  BY <1>1, SaysSame, FollowKept DEF ownVars, own, ownSrvVars, Reentry
<1>2. QED
  BY <1>1, FollowCall, FollowReenter, InProgress, FollowConnection,
     FollowFrames, FollowAnswers DEF OwnNext, FollowInv

\* With everything sent and handled, the server has the member that the client
\* believes it is, unless a frame was refused, lost or overtaken.
THEOREM ServerFollowsEntry == OwnSpec => []OwnEntryFollows
<1>1. OwnInit => ChannelInv /\ FollowInv
  BY DEF OwnInit, ChannelInv, FollowInv, Offline, Says
<1>2. TypeInv /\ ChannelInv /\ FollowInv /\ [OwnNext]_ownVars
        => TypeInv' /\ ChannelInv' /\ FollowInv'
  BY TypeStep, ChannelStep, FollowStep
<1>3. TypeInv /\ ChannelInv /\ FollowInv => OwnEntryFollows
  <2> SUFFICES ASSUME ChannelInv, FollowInv, attached, app.pc = "idle",
                      svc.pc = "loop", ring = << >>, inbox = << >>, causes = {}
               PROVE  srvOwn = Own
    BY DEF OwnEntryFollows
  <2>1. srvAtt /\ ~Reentry
    BY DEF ChannelInv, Offline, NewsAfter, Reentry
  <2>2. \A v : Says(v) => srvOwn = v
    BY DEF Says
  <2>3. QED
    BY <2>1, <2>2 DEF FollowInv, Own
<1>4. QED
  BY TypeInit, <1>1, <1>2, <1>3, PTL DEF OwnSpec
=============================================================================
