------------------------------ MODULE Presence ------------------------------
(***************************************************************************)
(* The presence set of a channel (presence.c): a pool of members, a hash   *)
(* map from client id to pool entry, and the SYNC state machine, driven by *)
(* the ATTACHED, PRESENCE and SYNC frames of the server.                   *)
(*                                                                         *)
(* Only the service thread changes the set, so a frame is one step.  A     *)
(* frame with several messages does what as many frames with one message   *)
(* do, so a PRESENCE frame carries one message and a SYNC page one member, *)
(* or none.  Members are stored with the action PRESENT, always; data and  *)
(* timestamps are not modelled.                                            *)
(*                                                                         *)
(* The server is external: it knows who is present, sends its changes as   *)
(* PRESENCE, and after an ATTACHED with HAS_PRESENCE the set in pages, the *)
(* members it has when it starts on the first.                             *)
(***************************************************************************)
EXTENDS HashMap

Pool == SlotIndex   \* ABLY_MAX_PRESENCE_MEMBERS entries, as many as map slots

Free == [client |-> {}, stale |-> FALSE]
Member(c) == [client |-> {c}, stale |-> FALSE]

VARIABLES
  pres,       \* channel->pres was created
  pool,       \* pres->pool; client is {} when in_use is 0
  map,        \* pres->map
  syncing,    \* pres->syncing
  link,       \* the channel is attached on a connection
  srv,        \* the server's presence set
  srvSync,    \* "none", "owed" (no page sent yet) or "paging"
  todo,       \* members of the server's set not yet in a page
  whole,      \* history: pres has seen every page of this SYNC
  synced,     \* history: a SYNC seen as a whole has ended on this connection
  refused,    \* history: clients there was no room for
  view,       \* history: who is present according to the subscribers' events
  synthetic   \* history: clients for which the latest frame made up a LEAVE

setVars  == <<pool, map, syncing, refused, view, synthetic>>
srvVars  == <<link, srv, srvSync, todo, whole, synced>>
vars     == <<pres, pool, map, syncing, link, srv, srvSync, todo, whole, synced,
              refused, view, synthetic>>

Init ==
  /\ pres = FALSE
  /\ pool = [i \in Pool |-> Free] /\ map = InitMap /\ syncing = FALSE
  /\ link = FALSE /\ srv = {} /\ srvSync = "none" /\ todo = {}
  /\ whole = FALSE /\ synced = FALSE
  /\ refused = {} /\ view = {} /\ synthetic = {}

InUse(i) == pool[i].client # {}
Members == UNION {pool[i].client : i \in Pool}

-----------------------------------------------------------------------------
(* The handlers.  Each says what becomes of the pool and the map, starting *)
(* from a pool p whose stale marks begin_sync may just have set.           *)

FreeEntries == {i \in Pool : ~InUse(i)}

\* upsert_member with clear_stale, which every caller sets.
UpsertMember(c, p) ==
  LET e == Get(map, c)
  IN \/ /\ e # Null
        /\ pool' = [p EXCEPT ![e].stale = FALSE]
        /\ UNCHANGED <<map, refused>>
     \/ /\ e = Null /\ FreeEntries # {} /\ CanPut(map, c)
        /\ pool' = [p EXCEPT ![Min(FreeEntries)] = Member(c)]
        /\ map' = Put(map, c, Min(FreeEntries))
        /\ refused' = refused \ {c}
     \/ /\ e = Null /\ (FreeEntries = {} \/ ~CanPut(map, c))
        /\ pool' = p
        /\ refused' = refused \cup {c}
        /\ UNCHANGED map

\* remove_member.
RemoveMember(c) ==
  LET e == Get(map, c)
  IN /\ pool' = IF e = Null THEN pool ELSE [pool EXCEPT ![e] = Free]
     /\ map' = Remove(map, c)
     /\ refused' = refused \ {c}

\* Mutant of BeginSync: only the first entry is marked.
BeginSync_FirstOnly ==
  IF syncing THEN pool ELSE [pool EXCEPT ![0].stale = InUse(0)]

\* The pool after begin_sync, which runs unless a SYNC is under way.
BeginSync ==
  IF syncing THEN pool
  ELSE [i \in Pool |-> [pool[i] EXCEPT !.stale = InUse(i)]]

Stale(p) == UNION {p[i].client : i \in {j \in Pool : p[j].stale}}

\* What end_sync does to the map for one entry, and for all of them in their order.
DropStale(m, entry) ==
  IF entry.stale THEN Remove(m, CHOOSE c \in entry.client : TRUE) ELSE m

DropAllStale(m, p) ==
  LET after[n \in 0 .. Capacity] ==
        IF n = 0 THEN m ELSE DropStale(after[n - 1], p[n - 1])
  IN after[Capacity]

\* Mutant of EndSync: members go without an event.
EndSync_Silent(p) ==
  /\ pool' = [i \in Pool |-> IF p[i].stale THEN Free ELSE p[i]]
  /\ map' = DropAllStale(map, p)
  /\ synthetic' = Stale(p) /\ UNCHANGED view
  /\ syncing' = FALSE
  /\ UNCHANGED refused

\* end_sync: a LEAVE for every member still stale.
EndSync(p) ==
  /\ pool' = [i \in Pool |-> IF p[i].stale THEN Free ELSE p[i]]
  /\ map' = DropAllStale(map, p)
  /\ synthetic' = Stale(p) /\ view' = view \ Stale(p)
  /\ syncing' = FALSE
  /\ UNCHANGED refused

-----------------------------------------------------------------------------
(* Application and connection.                                             *)

\* ensure_pres, from enter() or presence_subscribe().
EnsurePres ==
  /\ ~pres
  /\ pres' = TRUE
  /\ UNCHANGED <<setVars, srvVars>>

\* ably_channel_on_disconnect leaves the presence state as it is.
Disconnect ==
  /\ link
  /\ link' = FALSE
  /\ srvSync' = "none" /\ todo' = {}
  /\ whole' = FALSE /\ synced' = FALSE
  /\ UNCHANGED <<pres, setVars, srv>>

\* ATTACHED, also on a channel that is attached already.  With HAS_PRESENCE it
\* is handled as a SYNC frame that has neither members nor a syncSerial, hence
\* as the first and the last page of one; the server then owes a SYNC.
Attached ==
  /\ link' = TRUE
  /\ srvSync' = IF srv = {} THEN "none" ELSE "owed"
  /\ todo' = {}
  /\ whole' = FALSE /\ synced' = FALSE
  /\ IF pres /\ srv # {}
     THEN EndSync(BeginSync)
     ELSE UNCHANGED setVars
  /\ UNCHANGED <<pres, srv>>

\* Somebody enters or leaves while the channel is not attached.
Elsewhere(c) ==
  /\ ~link
  /\ srv' = IF c \in srv THEN srv \ {c} ELSE srv \cup {c}
  /\ UNCHANGED <<pres, setVars, link, srvSync, todo, whole, synced>>

-----------------------------------------------------------------------------
(* Frames.                                                                 *)

\* PRESENCE with ENTER, UPDATE or PRESENT.
RecvEnter(c) ==
  /\ link
  /\ srv' = srv \cup {c}
  /\ IF pres
     THEN /\ UpsertMember(c, pool)
          /\ view' = view \cup {c}
          /\ synthetic' = {}
          /\ UNCHANGED syncing
     ELSE UNCHANGED setVars
  /\ UNCHANGED <<pres, link, srvSync, todo, whole, synced>>

\* PRESENCE with LEAVE or ABSENT.
RecvLeave(c) ==
  /\ link /\ c \in srv
  /\ srv' = srv \ {c} /\ todo' = todo \ {c}
  /\ IF pres
     THEN /\ RemoveMember(c)
          /\ view' = view \ {c}
          /\ synthetic' = {}
          /\ UNCHANGED syncing
     ELSE UNCHANGED setVars
  /\ UNCHANGED <<pres, link, srvSync, whole, synced>>

\* What the server has yet to send when it writes the next page.
Remaining == IF srvSync = "owed" THEN srv ELSE todo

\* SYNC with a cursor: the page of one member, more to follow.
RecvSync(c) ==
  /\ link /\ srvSync # "none" /\ c \in Remaining
  /\ srvSync' = "paging" /\ todo' = Remaining \ {c}
  /\ whole' = (pres /\ (srvSync = "owed" \/ whole))
  /\ IF pres
     THEN /\ UpsertMember(c, BeginSync)
          /\ view' = view \cup {c}
          /\ synthetic' = {}
          /\ syncing' = TRUE
     ELSE UNCHANGED setVars
  /\ UNCHANGED <<pres, link, srv, synced>>

\* SYNC without a cursor: the last page, with nobody left to name.
RecvSyncEnd ==
  /\ link /\ srvSync # "none" /\ Remaining = {}
  /\ srvSync' = "none" /\ todo' = {}
  /\ whole' = FALSE
  /\ synced' = (pres /\ (srvSync = "owed" \/ whole))
  /\ IF pres THEN EndSync(BeginSync) ELSE UNCHANGED setVars
  /\ UNCHANGED <<pres, link, srv>>

Next ==
  \/ EnsurePres \/ Disconnect \/ Attached \/ RecvSyncEnd
  \/ \E c \in Keys : Elsewhere(c) \/ RecvEnter(c) \/ RecvLeave(c) \/ RecvSync(c)

Spec == Init /\ [][Next]_vars

-----------------------------------------------------------------------------
\* What each variable holds; the map stays at or below its load limit.
TypeOK ==
  /\ pres \in BOOLEAN /\ syncing \in BOOLEAN /\ link \in BOOLEAN
  /\ whole \in BOOLEAN /\ synced \in BOOLEAN
  /\ \A i \in Pool : pool[i] \in {Free} \cup [client : {{c} : c \in Keys}, stale : BOOLEAN]
  /\ map.count \in 0 .. Capacity /\ map.count * 4 <= Capacity * 3
  /\ srvSync \in {"none", "owed", "paging"}
  /\ \A cs \in {srv, todo, refused, view, synthetic} : cs \subseteq Keys

\* The pool and the map are two views of one set: each entry in use is found
\* under its client id, each client id found leads to an entry of that client
\* (no pointer to a freed or reused entry), nobody has two entries, and count
\* is the number of members.  Removals leave tombstones, entries are reused and
\* probe chains overlap and wrap around.
MapMatchesPool ==
  /\ \A c \in Keys : LET e == Get(map, c)
                     IN IF c \in Members THEN e # Null /\ pool[e].client = {c}
                        ELSE e = Null
  /\ \A i, j \in Pool : InUse(i) /\ pool[i].client = pool[j].client => i = j
  /\ map.count = Cardinality(Members)

\* After a SYNC that was seen from its first page, and through all PRESENCE
\* frames that follow on this connection, the local set is the server's, save
\* for clients there was no room for; whatever an earlier connection, or a SYNC
\* that it cut short, left behind.
SyncedIsExact == synced => Members = srv \ refused

\* A subscriber that follows the events, the LEAVEs made up by end_sync
\* included, knows of the members that get_members returns and of those there
\* was no room for, and of nobody else.
EventsMatchSet == view = Members \cup refused

\* presence.h:22, a LEAVE is made up for members "still-stale" after the "SYNC
\* with empty cursor": for nobody whom the server has in the set.
NoFalseLeave == synthetic \cap srv = {}
=============================================================================
