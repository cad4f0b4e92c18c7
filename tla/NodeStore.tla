------------------------------ MODULE NodeStore ------------------------------
(***************************************************************************)
(* NodeAdvertStore and its three users in BotService: the contact sync     *)
(* (at start and periodically), a direct message from a contact, and the   *)
(* node query.  A store maps the key of a node to the wall-clock time it   *)
(* was last seen.  Its file is rewritten in place after a sync and after a *)
(* direct message: opening it empties it, then the rows are written, and   *)
(* the process may die in between.  No other task runs meanwhile: nothing  *)
(* here awaits.  An absent, empty or half-written file is loaded as no     *)
(* nodes, so a file is a store too, and those three are the empty one.     *)
(***************************************************************************)
EXTENDS Integers, FiniteSets

CONSTANTS
    Nodes,       \* public keys
    Retention,   \* _retention_sec; 0: nodes do not expire
    MaxStored,   \* _max_stored
    MaxClock     \* bound: the horizon

ASSUME StoreAssumption ==
    /\ IsFiniteSet(Nodes)
    /\ Retention \in Nat
    /\ MaxStored \in Nat \ {0}

VARIABLES
    clock,     \* time.time()
    up,        \* the process is running
    items,     \* _items
    file,      \* what load() would read
    writing,   \* write_text has emptied the file and not written it yet
    stale,     \* the last save of this process failed
    steady,    \* history: the wall clock was never set back
    seen       \* history: when each node was last reported to this process

vars == <<clock, up, items, file, writing, stale, steady, seen>>

Never == -1
NoNodes == [k \in {} |-> 0]

Keep(st, K) == [k \in K |-> st[k]]

(* Fault: expired nodes stay as long as there is room for them.            *)
PurgeWhenFull(st, t) ==
    IF Retention > 0 /\ Cardinality(DOMAIN st) > MaxStored
    THEN Keep(st, {k \in DOMAIN st : st[k] >= t - Retention})
    ELSE st

(* purge_and_trim: drop the expired, then keep the newest.  Equal times    *)
(* are kept in an order of the dict that is not modelled.                  *)
Purge(st, t) ==
    IF Retention > 0
    THEN Keep(st, {k \in DOMAIN st : st[k] >= t - Retention})
    ELSE st

(* Fault: the oldest are kept instead of the newest.                       *)
TrimsNewest(st) ==
    IF Cardinality(DOMAIN st) <= MaxStored
    THEN {st}
    ELSE {Keep(st, K) : K \in {L \in SUBSET DOMAIN st :
                                /\ Cardinality(L) = MaxStored
                                /\ \A k \in L, d \in DOMAIN st \ L : st[k] <= st[d]}}

Trims(st) ==
    IF Cardinality(DOMAIN st) <= MaxStored
    THEN {st}
    ELSE {Keep(st, K) : K \in {L \in SUBSET DOMAIN st :
                                /\ Cardinality(L) = MaxStored
                                /\ \A k \in L, d \in DOMAIN st \ L : st[k] >= st[d]}}

PurgeAndTrim(st, t) == Trims(Purge(st, t))

(* Fault: a new node is entered without the time it was seen.              *)
UpsertUndated(st, K, t) ==
    [k \in DOMAIN st \cup K |-> IF k \in DOMAIN st THEN t ELSE Never]

Upsert(st, K, t) == [k \in DOMAIN st \cup K |-> IF k \in K THEN t ELSE st[k]]

Init ==
    /\ clock = 0
    /\ up = FALSE
    /\ items = NoNodes
    /\ file = NoNodes
    /\ writing = FALSE
    /\ stale = FALSE
    /\ steady = TRUE
    /\ seen = [k \in Nodes |-> Never]

Idle == up /\ ~ writing

(* BotService.__init__: load() reads the file, purges and trims, and does  *)
(* not save.                                                               *)
Load ==
    /\ ~ up
    /\ up' = TRUE
    /\ items' \in PurgeAndTrim(file, clock)
    /\ seen' = [k \in Nodes |-> IF k \in DOMAIN file THEN file[k] ELSE Never]
    /\ stale' = FALSE
    /\ UNCHANGED <<clock, file, writing, steady>>

(* Fault: a save whose failure is not noticed, or that is left out.        *)
BeginSaveBlindly ==
    \/ /\ file' = NoNodes
       /\ writing' = TRUE
       /\ UNCHANGED stale
    \/ UNCHANGED <<file, writing, stale>>

(* save(): open for writing, which empties the file, or fail to open it.   *)
BeginSave ==
    \/ /\ file' = NoNodes
       /\ writing' = TRUE
       /\ UNCHANGED stale
    \/ /\ stale' = TRUE
       /\ UNCHANGED <<file, writing>>

(* The nodes of K are upserted with one time, then purge, trim and save.   *)
Report(K) ==
    /\ Idle
    /\ items' \in PurgeAndTrim(Upsert(items, K, clock), clock)
    /\ seen' = [k \in Nodes |-> IF k \in K THEN clock ELSE seen[k]]
    /\ BeginSave
    /\ UNCHANGED <<clock, up, steady>>

(* refresh_node_store_from_contacts: whatever contacts the companion or    *)
(* the library's cache had, none at all included.                          *)
Sync == \E K \in SUBSET Nodes : Report(K)

(* _on_contact_msg from a contact with a key; an error of the save is      *)
(* logged and the message is handled.                                      *)
DirectMessage == \E k \in Nodes : Report({k})

(* _node_query_lines purges the store in memory and does not save.         *)
Query ==
    /\ Idle
    /\ items' \in PurgeAndTrim(items, clock)
    /\ UNCHANGED <<clock, up, file, writing, stale, steady, seen>>

WriteDone ==
    /\ writing
    /\ file' = items
    /\ writing' = FALSE
    /\ stale' = FALSE
    /\ UNCHANGED <<clock, up, items, steady, seen>>

(* The disk is full: the file stays empty or torn, the store lives on.     *)
WriteFailed ==
    /\ writing
    /\ writing' = FALSE
    /\ stale' = TRUE
    /\ UNCHANGED <<clock, up, items, file, steady, seen>>

Crash ==
    /\ up
    /\ up' = FALSE
    /\ items' = NoNodes
    /\ writing' = FALSE
    /\ stale' = FALSE
    /\ seen' = [k \in Nodes |-> Never]
    /\ UNCHANGED <<clock, file, steady>>

Tick ==
    /\ clock < MaxClock
    /\ clock' = clock + 1
    /\ UNCHANGED <<up, items, file, writing, stale, steady, seen>>

SetBack ==
    /\ clock > 0
    /\ clock' = clock - 1
    /\ steady' = FALSE
    /\ UNCHANGED <<up, items, file, writing, stale, seen>>

Next ==
    \/ Load \/ Sync \/ DirectMessage \/ Query
    \/ WriteDone \/ WriteFailed \/ Crash
    \/ Tick \/ SetBack

Spec == Init /\ [][Next]_vars

-----------------------------------------------------------------------------
TypeOK ==
    /\ clock \in Nat
    /\ up \in BOOLEAN
    /\ DOMAIN items \subseteq Nodes /\ items \in [DOMAIN items -> Nat]
    /\ DOMAIN file \subseteq Nodes /\ file \in [DOMAIN file -> Nat]
    /\ writing \in BOOLEAN
    /\ stale \in BOOLEAN /\ steady \in BOOLEAN
    /\ seen \in [Nodes -> Nat \cup {Never}]

(* max_stored bounds the store and the file in every state.                *)
SizeBounded ==
    /\ Cardinality(DOMAIN items) <= MaxStored
    /\ Cardinality(DOMAIN file) <= MaxStored

(* A crash between two operations forgets no node that is in memory: what  *)
(* is in memory is in the file, with the same time, unless the last save   *)
(* failed.  The purges that do not save (load, query) only ever shrink the *)
(* memory, and do not break this even when the clock is set back.          *)
MemoryIsOnDisk ==
    up /\ ~ writing /\ ~ stale =>
        /\ DOMAIN items \subseteq DOMAIN file
        /\ \A k \in DOMAIN items : file[k] = items[k]

Missing(k) == seen[k] # Never /\ k \notin DOMAIN items
Unexpired(k) == Retention = 0 \/ seen[k] >= clock - Retention

(* A node that was reported within the retention and is not in the store   *)
(* had to make room: the store is full of nodes no older than it.          *)
OldestMadeRoom ==
    \A k \in Nodes : up /\ Missing(k) /\ Unexpired(k) =>
        /\ Cardinality(DOMAIN items) = MaxStored
        /\ \A j \in DOMAIN items : items[j] >= seen[k]

(* README.md:122-123: nodes are kept for the retention, and the oldest go  *)
(* when there are too many; as long as the wall clock is not set back.     *)
FreshestStay == steady => OldestMadeRoom

(* That nodes are dropped at every operation, and the file rewritten in    *)
(* place, cannot be told from a store that forgets nothing: what is in the *)
(* store are the newest of all nodes ever reported, and a restart has what *)
(* was saved last, or nothing.  A save takes effect when the file is       *)
(* emptied; that it may still fail is what is unsure then.                 *)
Memory ==
    INSTANCE NodeMemory WITH
        reported <- seen,
        answer <- items,
        saved <- IF writing THEN items ELSE file,
        unsure <- writing

MemorySpec == Memory!Spec
=============================================================================
