--------------------------- MODULE NodeStoreProofs ---------------------------
(***************************************************************************)
(* Theorems about NodeStore, for every set of nodes, retention and size.   *)
(***************************************************************************)
EXTENDS NodeStore, FiniteSetTheorems, TLAPS

IsStore(st) == DOMAIN st \subseteq Nodes /\ st \in [DOMAIN st -> Nat]

Fits(st) == Cardinality(DOMAIN st) <= MaxStored

(* What purge_and_trim does to a store.                                    *)
LEMMA PurgeFacts ==
  ASSUME NEW st, IsStore(st), NEW t \in Nat
  PROVE  /\ IsStore(Purge(st, t))
         /\ DOMAIN Purge(st, t) \subseteq DOMAIN st
         /\ \A k \in DOMAIN Purge(st, t) : Purge(st, t)[k] = st[k]
         /\ \A k \in DOMAIN st :
              Retention = 0 \/ st[k] >= t - Retention => k \in DOMAIN Purge(st, t)
         /\ \A k \in DOMAIN Purge(st, t) : Retention = 0 \/ st[k] >= t - Retention
<1> USE StoreAssumption
<1>1. CASE Retention > 0
  BY <1>1 DEF IsStore, Purge, Keep
<1>2. CASE Retention = 0
  BY <1>2 DEF IsStore, Purge
<1> QED
  BY <1>1, <1>2

LEMMA TrimFacts ==
  ASSUME NEW st, IsStore(st), NEW r \in Trims(st)
  PROVE  /\ IsStore(r)
         /\ DOMAIN r \subseteq DOMAIN st
         /\ \A k \in DOMAIN r : r[k] = st[k]
         /\ Fits(r)
         /\ \A d \in DOMAIN st \ DOMAIN r :
              /\ Cardinality(DOMAIN r) = MaxStored
              /\ \A k \in DOMAIN r : r[k] >= st[d]
         /\ Cardinality(DOMAIN st) >= MaxStored => Cardinality(DOMAIN r) = MaxStored
<1> USE StoreAssumption
<1>0. Cardinality(DOMAIN st) \in Nat
  BY FS_Subset, FS_CardinalityType DEF IsStore
<1>1. CASE Fits(st)
  BY <1>0, <1>1 DEF Trims, Fits
<1>2. CASE ~ Fits(st)
  <2>1. PICK L \in SUBSET DOMAIN st :
          /\ Cardinality(L) = MaxStored
          /\ \A k \in L, d \in DOMAIN st \ L : st[k] >= st[d]
          /\ r = Keep(st, L)
    BY <1>2 DEF Trims, Fits
  <2>2. DOMAIN r = L /\ \A k \in L : r[k] = st[k]
    BY <2>1 DEF Keep
  <2> QED
    BY <2>1, <2>2 DEF IsStore, Fits, Keep
<1> QED
  BY <1>1, <1>2

LEMMA PurgeAndTrimFacts ==
  ASSUME NEW st, IsStore(st), NEW t \in Nat, NEW r \in PurgeAndTrim(st, t)
  PROVE  /\ IsStore(r)
         /\ DOMAIN r \subseteq DOMAIN st
         /\ \A k \in DOMAIN r : r[k] = st[k]
         /\ Fits(r)
  BY PurgeFacts, TrimFacts DEF PurgeAndTrim

LEMMA UpsertFacts ==
  ASSUME NEW st, IsStore(st), NEW K \in SUBSET Nodes, NEW t \in Nat
  PROVE  /\ IsStore(Upsert(st, K, t))
         /\ DOMAIN Upsert(st, K, t) = DOMAIN st \cup K
         /\ \A k \in K : Upsert(st, K, t)[k] = t
         /\ \A k \in DOMAIN st \ K : Upsert(st, K, t)[k] = st[k]
  BY DEF IsStore, Upsert

-----------------------------------------------------------------------------
(* The strengthening for everything but freshness holds whatever the clock *)
(* does.                                                                   *)
StoreInv == TypeOK /\ SizeBounded /\ MemoryIsOnDisk

LEMMA EmptyFits == Cardinality(DOMAIN NoNodes) <= MaxStored /\ IsStore(NoNodes)
<1>1. DOMAIN NoNodes = {}
  BY DEF NoNodes
<1>2. Cardinality({}) = 0
  BY FS_EmptySet
<1> QED
  BY <1>1, <1>2, StoreAssumption DEF IsStore, NoNodes

LEMMA InitStore == Init => StoreInv
<1> SUFFICES ASSUME Init PROVE StoreInv
  OBVIOUS
<1>1. TypeOK
  BY EmptyFits DEF Init, TypeOK, IsStore
<1>2. SizeBounded
  BY EmptyFits DEF Init, SizeBounded
<1>3. MemoryIsOnDisk
  BY DEF Init, MemoryIsOnDisk
<1> QED
  BY <1>1, <1>2, <1>3 DEF StoreInv

LEMMA ReportStore ==
  ASSUME StoreInv, NEW K \in SUBSET Nodes, Report(K) PROVE StoreInv'
<1> DEFINE st == Upsert(items, K, clock)
<1>1. IsStore(items) /\ IsStore(file) /\ clock \in Nat
  BY DEF StoreInv, TypeOK, IsStore
<1>2. IsStore(st)
  BY <1>1, UpsertFacts
<1>3. IsStore(items') /\ Fits(items')
  BY <1>1, <1>2, PurgeAndTrimFacts DEF Report
<1>4. IsStore(file') /\ Fits(file')
  BY <1>1, EmptyFits DEF Report, BeginSave, Fits, StoreInv, SizeBounded
<1>5. seen' \in [Nodes -> Nat \cup {Never}]
  BY <1>1 DEF Report, StoreInv, TypeOK
<1>6. writing' \in BOOLEAN /\ stale' \in BOOLEAN /\ (writing' \/ stale')
  BY DEF Report, BeginSave, StoreInv, TypeOK
<1> QED
  BY <1>1, <1>3, <1>4, <1>5, <1>6
     DEF Report, StoreInv, TypeOK, SizeBounded, MemoryIsOnDisk, IsStore, Fits

LEMMA StepStore == StoreInv /\ [Next]_vars => StoreInv'
<1> USE StoreAssumption
<1> SUFFICES ASSUME StoreInv, [Next]_vars PROVE StoreInv'
  OBVIOUS
<1>0. IsStore(items) /\ IsStore(file) /\ clock \in Nat
  BY DEF StoreInv, TypeOK, IsStore
<1>1. CASE Load
  <2>1. /\ IsStore(items') /\ Fits(items') /\ DOMAIN items' \subseteq DOMAIN file
        /\ \A k \in DOMAIN items' : items'[k] = file[k]
    BY <1>0, <1>1, PurgeAndTrimFacts DEF Load
  <2>2. seen' \in [Nodes -> Nat \cup {Never}]
    BY <1>0, <1>1 DEF Load, IsStore
  <2> QED
    BY <1>1, <2>1, <2>2
       DEF Load, StoreInv, TypeOK, SizeBounded, MemoryIsOnDisk, IsStore, Fits
<1>2. CASE Sync
  BY <1>2, ReportStore DEF Sync
<1>3. CASE DirectMessage
  <2>1. PICK k \in Nodes : Report({k})
    BY <1>3 DEF DirectMessage
  <2> QED
    BY <2>1, ReportStore
<1>4. CASE Query
  <2>1. /\ IsStore(items') /\ Fits(items') /\ DOMAIN items' \subseteq DOMAIN items
        /\ \A k \in DOMAIN items' : items'[k] = items[k]
    BY <1>0, <1>4, PurgeAndTrimFacts DEF Query
  <2> QED
    BY <1>4, <2>1
       DEF Query, Idle, StoreInv, TypeOK, SizeBounded, MemoryIsOnDisk, IsStore, Fits
<1>5. CASE WriteDone
  BY <1>5 DEF WriteDone, StoreInv, TypeOK, SizeBounded, MemoryIsOnDisk
<1>6. CASE WriteFailed
  BY <1>6 DEF WriteFailed, StoreInv, TypeOK, SizeBounded, MemoryIsOnDisk
<1>7. CASE Crash
  BY <1>7, EmptyFits
     DEF Crash, StoreInv, TypeOK, SizeBounded, MemoryIsOnDisk, IsStore, Never
<1>8. CASE Tick
  BY <1>8 DEF Tick, StoreInv, TypeOK, SizeBounded, MemoryIsOnDisk
<1>9. CASE SetBack
  <2>1. clock > 0 /\ clock' = clock - 1 /\ steady' = FALSE
    BY <1>9 DEF SetBack
  <2>2. clock' \in Nat
    BY <1>0, <2>1
  <2> QED
    BY <1>9, <2>1, <2>2 DEF SetBack, StoreInv, TypeOK, SizeBounded, MemoryIsOnDisk
<1>10. CASE UNCHANGED vars
  BY <1>10 DEF vars, StoreInv, TypeOK, SizeBounded, MemoryIsOnDisk
<1> QED
  BY <1>1, <1>2, <1>3, <1>4, <1>5, <1>6, <1>7, <1>8, <1>9, <1>10 DEF Next

LEMMA StoreInvariant == Spec => []StoreInv
  BY InitStore, StepStore, PTL DEF Spec

(* Whatever is loaded, synchronised, purged or broken off, the store and   *)
(* its file are tables of nodes with the times they were last heard.       *)
THEOREM TypeCorrect == Spec => []TypeOK
<1>1. StoreInv => TypeOK
  BY DEF StoreInv
<1> QED
  BY <1>1, StoreInvariant, PTL

(* Neither the store nor its file ever holds more than max_stored nodes.   *)
THEOREM SizeIsBounded == Spec => []SizeBounded
<1>1. StoreInv => SizeBounded
  BY DEF StoreInv
<1> QED
  BY <1>1, StoreInvariant, PTL

(* A crash between two operations forgets no node that was in memory,      *)
(* whatever the clock did, unless the last save had failed.                *)
THEOREM MemoryStaysOnDisk == Spec => []MemoryIsOnDisk
<1>1. StoreInv => MemoryIsOnDisk
  BY DEF StoreInv
<1> QED
  BY <1>1, StoreInvariant, PTL

-----------------------------------------------------------------------------
(* Freshness needs a clock that is not set back.  Then no time in the      *)
(* store, the file or the history lies in the future (NoFuture), and the   *)
(* time of a stored node is the last time it was reported (InStep): so a   *)
(* node just upserted is among the newest, and makes room for itself.      *)
NoFuture ==
    /\ \A k \in DOMAIN items : items[k] <= clock
    /\ \A k \in DOMAIN file : file[k] <= clock
    /\ \A k \in Nodes : seen[k] <= clock

InStep == \A k \in DOMAIN items : items[k] = seen[k]

FreshInv == StoreInv /\ NoFuture /\ InStep /\ OldestMadeRoom

(* What OldestMadeRoom says of a store, a history and a time.                *)
Fresh(st, sn, t) ==
    \A k \in Nodes :
      /\ sn[k] # Never
      /\ k \notin DOMAIN st
      /\ Retention = 0 \/ sn[k] >= t - Retention
      => /\ Cardinality(DOMAIN st) >= MaxStored
         /\ \A j \in DOMAIN st : st[j] >= sn[k]

LEMMA PurgeAndTrimFresh ==
  ASSUME NEW st, IsStore(st), NEW t \in Nat,
         NEW sn \in [Nodes -> Nat \cup {Never}],
         \A k \in DOMAIN st : st[k] = sn[k],
         Fresh(st, sn, t),
         NEW r \in PurgeAndTrim(st, t),
         NEW k \in Nodes, sn[k] # Never, k \notin DOMAIN r,
         Retention = 0 \/ sn[k] >= t - Retention
  PROVE  /\ Cardinality(DOMAIN r) = MaxStored
         /\ \A j \in DOMAIN r : r[j] >= sn[k]
<1> USE StoreAssumption
<1> DEFINE pu == Purge(st, t)
<1>1. r \in Trims(pu) /\ IsStore(pu)
  BY PurgeFacts DEF PurgeAndTrim
<1>2. CASE k \in DOMAIN st
  <2>1. k \in DOMAIN pu /\ pu[k] = sn[k]
    BY <1>2, PurgeFacts
  <2> HIDE DEF pu
  <2> QED
    BY <1>1, <2>1, TrimFacts
<1>3. CASE k \notin DOMAIN st
  <2>1. /\ Cardinality(DOMAIN st) >= MaxStored
        /\ \A j \in DOMAIN st : st[j] >= sn[k]
    BY <1>3 DEF Fresh
  <2>2. \A j \in DOMAIN st : Retention = 0 \/ st[j] >= t - Retention
    <3>1. TAKE j \in DOMAIN st
    <3>2. st[j] \in Nat /\ sn[k] \in Nat /\ Retention \in Nat /\ st[j] >= sn[k]
      BY <2>1 DEF IsStore, Never
    <3> QED
      BY <3>2
  <2>3. DOMAIN pu = DOMAIN st /\ \A j \in DOMAIN pu : pu[j] = st[j]
    <3>1. /\ DOMAIN pu \subseteq DOMAIN st
          /\ \A j \in DOMAIN pu : pu[j] = st[j]
          /\ \A j \in DOMAIN st :
               Retention = 0 \/ st[j] >= t - Retention => j \in DOMAIN pu
      BY PurgeFacts
    <3> HIDE DEF pu
    <3> QED
      BY <2>2, <3>1
  <2> HIDE DEF pu
  <2>4. Cardinality(DOMAIN r) = MaxStored
    BY <1>1, <2>1, <2>3, TrimFacts
  <2>5. \A j \in DOMAIN r : j \in DOMAIN pu /\ r[j] = pu[j]
    BY <1>1, TrimFacts
  <2> QED
    BY <2>1, <2>3, <2>4, <2>5
<1> QED
  BY <1>2, <1>3

LEMMA FreshNow == FreshInv /\ up => Fresh(items, seen, clock)
  BY StoreAssumption DEF FreshInv, OldestMadeRoom, Fresh, Missing, Unexpired

LEMMA InitFresh == Init => FreshInv
<1> SUFFICES ASSUME Init PROVE FreshInv
  OBVIOUS
<1>1. DOMAIN items = {} /\ DOMAIN file = {}
  BY DEF Init, NoNodes
<1> QED
  BY <1>1, InitStore DEF Init, FreshInv, NoFuture, InStep, OldestMadeRoom, Never

LEMMA ReportFresh ==
  ASSUME FreshInv, NEW K \in SUBSET Nodes, Report(K)
  PROVE  NoFuture' /\ InStep' /\ OldestMadeRoom'
<1> USE StoreAssumption
<1> DEFINE st == Upsert(items, K, clock)
<1>1. IsStore(items) /\ clock \in Nat /\ seen \in [Nodes -> Nat \cup {Never}]
  BY DEF FreshInv, StoreInv, TypeOK, IsStore
<1>2. /\ IsStore(st)
      /\ DOMAIN st = DOMAIN items \cup K
      /\ \A k \in K : st[k] = clock
      /\ \A k \in DOMAIN items \ K : st[k] = items[k]
  <2>1. IsStore(st)
    BY <1>1, UpsertFacts
  <2> QED
    BY <2>1 DEF Upsert
<1>3. items' \in PurgeAndTrim(st, clock) /\ clock' = clock
      /\ seen' = [k \in Nodes |-> IF k \in K THEN clock ELSE seen[k]]
  BY DEF Report
<1> HIDE DEF st
<1>4. seen' \in [Nodes -> Nat \cup {Never}]
  BY <1>1, <1>3
<1>5. \A k \in DOMAIN st : st[k] = seen'[k]
  BY <1>1, <1>2, <1>3 DEF FreshInv, InStep, IsStore
<1>6. DOMAIN items' \subseteq DOMAIN st /\ \A k \in DOMAIN items' : items'[k] = st[k]
  BY <1>1, <1>2, <1>3, PurgeAndTrimFacts
<1>7. Fresh(st, seen', clock)
  <2> SUFFICES ASSUME NEW k \in Nodes, seen'[k] # Never, k \notin DOMAIN st,
                      Retention = 0 \/ seen'[k] >= clock - Retention
               PROVE  /\ Cardinality(DOMAIN st) >= MaxStored
                      /\ \A j \in DOMAIN st : st[j] >= seen'[k]
    BY DEF Fresh
  <2>1. k \notin K /\ k \notin DOMAIN items /\ seen'[k] = seen[k]
    BY <1>2, <1>3
  <2>2. /\ Cardinality(DOMAIN items) >= MaxStored
        /\ \A j \in DOMAIN items : items[j] >= seen[k]
    BY <2>1, FreshNow DEF Fresh, Report, Idle
  <2>3. \A j \in DOMAIN st : st[j] >= seen'[k]
    BY <1>1, <1>2, <2>1, <2>2 DEF FreshInv, NoFuture
  <2>4. Cardinality(DOMAIN items) <= Cardinality(DOMAIN st)
    BY <1>2, FS_Subset DEF IsStore
  <2>5. Cardinality(DOMAIN items) \in Nat /\ Cardinality(DOMAIN st) \in Nat
    BY <1>1, <1>2, FS_Subset, FS_CardinalityType DEF IsStore
  <2> QED
    BY <2>2, <2>3, <2>4, <2>5
<1>8. OldestMadeRoom'
  BY <1>1, <1>2, <1>3, <1>4, <1>5, <1>7, PurgeAndTrimFresh
     DEF OldestMadeRoom, Missing, Unexpired
<1>9. InStep'
  BY <1>5, <1>6 DEF InStep
<1>10. NoFuture'
  <2>1. \A k \in DOMAIN items' : items'[k] <= clock
    BY <1>1, <1>2, <1>6 DEF FreshInv, NoFuture
  <2>2. \A k \in DOMAIN file' : file'[k] <= clock
    BY DEF Report, BeginSave, NoNodes, FreshInv, NoFuture
  <2>3. \A k \in Nodes : seen'[k] <= clock
    BY <1>1, <1>3 DEF FreshInv, NoFuture
  <2> QED
    BY <1>3, <2>1, <2>2, <2>3 DEF NoFuture
<1> QED
  BY <1>8, <1>9, <1>10

LEMMA StepFresh == FreshInv /\ [Next]_vars /\ steady' => FreshInv'
<1> USE StoreAssumption
<1> SUFFICES ASSUME FreshInv, [Next]_vars, steady' PROVE NoFuture' /\ InStep' /\ OldestMadeRoom'
  BY StepStore DEF FreshInv
<1>0. /\ IsStore(items) /\ IsStore(file) /\ clock \in Nat
      /\ seen \in [Nodes -> Nat \cup {Never}]
  BY DEF FreshInv, StoreInv, TypeOK, IsStore
<1>1. CASE Load
  <2>1. /\ items' \in PurgeAndTrim(file, clock) /\ clock' = clock /\ file' = file
        /\ seen' = [k \in Nodes |-> IF k \in DOMAIN file THEN file[k] ELSE Never]
    BY <1>1 DEF Load
  <2>2. /\ DOMAIN items' \subseteq DOMAIN file
        /\ \A k \in DOMAIN items' : items'[k] = file[k]
    BY <1>0, <2>1, PurgeAndTrimFacts
  <2>3. seen' \in [Nodes -> Nat \cup {Never}] /\ \A k \in DOMAIN file : file[k] = seen'[k]
    BY <1>0, <2>1 DEF IsStore
  <2>4. Fresh(file, seen', clock)
    BY <2>1 DEF Fresh
  <2>5. OldestMadeRoom'
    BY <1>0, <2>1, <2>3, <2>4, PurgeAndTrimFresh DEF OldestMadeRoom, Missing, Unexpired
  <2>6. InStep'
    BY <2>2, <2>3 DEF InStep
  <2>7. NoFuture'
    BY <1>0, <2>1, <2>2 DEF FreshInv, NoFuture, Never, IsStore
  <2> QED
    BY <2>5, <2>6, <2>7
<1>2. CASE Sync
  BY <1>2, ReportFresh DEF Sync
<1>3. CASE DirectMessage
  <2>1. PICK k \in Nodes : Report({k})
    BY <1>3 DEF DirectMessage
  <2> QED
    BY <2>1, ReportFresh
<1>4. CASE Query
  <2>1. /\ items' \in PurgeAndTrim(items, clock) /\ up
        /\ UNCHANGED <<clock, up, file, seen>>
    BY <1>4 DEF Query, Idle
  <2>2. /\ DOMAIN items' \subseteq DOMAIN items
        /\ \A k \in DOMAIN items' : items'[k] = items[k]
    BY <1>0, <2>1, PurgeAndTrimFacts
  <2>3. \A k \in DOMAIN items : items[k] = seen[k]
    BY DEF FreshInv, InStep
  <2>4. OldestMadeRoom'
    BY <1>0, <2>1, <2>3, FreshNow, PurgeAndTrimFresh DEF OldestMadeRoom, Missing, Unexpired
  <2> QED
    BY <2>1, <2>2, <2>4 DEF FreshInv, NoFuture, InStep
<1>5. CASE WriteDone
  BY <1>5 DEF WriteDone, FreshInv, NoFuture, InStep, OldestMadeRoom, Missing, Unexpired
<1>6. CASE WriteFailed
  BY <1>6 DEF WriteFailed, FreshInv, NoFuture, InStep, OldestMadeRoom, Missing, Unexpired
<1>7. CASE Crash
  <2>1. DOMAIN items' = {}
    BY <1>7 DEF Crash, NoNodes
  <2>2. NoFuture'
    BY <1>0, <1>7, <2>1 DEF Crash, FreshInv, NoFuture, Never
  <2> QED
    BY <1>7, <2>1, <2>2 DEF Crash, InStep, OldestMadeRoom
<1>8. CASE Tick
  <2>1. /\ clock' = clock + 1 /\ UNCHANGED <<up, items, file, seen>>
    BY <1>8 DEF Tick
  <2>2. NoFuture' /\ InStep'
    BY <1>0, <2>1 DEF FreshInv, NoFuture, InStep, IsStore, Never
  <2>3. ASSUME NEW k \in Nodes, Unexpired(k)' PROVE Unexpired(k)
    BY <1>0, <2>1, <2>3 DEF Unexpired, Never
  <2> QED
    BY <2>1, <2>2, <2>3 DEF FreshInv, OldestMadeRoom, Missing
<1>9. CASE SetBack
  BY <1>9 DEF SetBack
<1>10. CASE UNCHANGED vars
  BY <1>10 DEF vars, FreshInv, NoFuture, InStep, OldestMadeRoom, Missing, Unexpired
<1> QED
  BY <1>1, <1>2, <1>3, <1>4, <1>5, <1>6, <1>7, <1>8, <1>9, <1>10 DEF Next

LEMMA SteadyBefore == StoreInv /\ [Next]_vars /\ steady' => steady
  BY DEF StoreInv, TypeOK, Next, vars, Load, Sync, DirectMessage, Report, Query,
         WriteDone, WriteFailed, Crash, Tick, SetBack

(* Over a clock that is not set back, the store always holds the newest    *)
(* nodes reported within the retention.                                    *)
THEOREM FreshestAreKept == Spec => []FreshestStay
<1> DEFINE SteadyInv == StoreInv /\ (steady => FreshInv)
<1>1. Init => SteadyInv
  BY InitFresh DEF FreshInv
<1>2. SteadyInv /\ [Next]_vars => SteadyInv'
  BY StepStore, SteadyBefore, StepFresh
<1>3. SteadyInv => FreshestStay
  BY DEF FreshInv, FreshestStay
<1> HIDE DEF SteadyInv
<1> QED
  BY <1>1, <1>2, <1>3, PTL DEF Spec

-----------------------------------------------------------------------------
(* The refinement.  The file that is being written was emptied, and no     *)
(* process writes that is not running; and the time of a stored node is    *)
(* the last one reported even when the clock was set back.                 *)
Emptied == writing => file = NoNodes /\ up

MemoryInv == StoreInv /\ (steady => FreshInv) /\ InStep /\ Emptied

Saved == IF writing THEN items ELSE file

LEMMA SameCount == \A S : Memory!Cardinality(S) = Cardinality(S)
  BY DEF Cardinality, Memory!Cardinality, IsFiniteSet, Memory!IsFiniteSet

(* What purge_and_trim leaves of a store in step with the reports is an    *)
(* answer, whatever the clock did.                                         *)
LEMMA AnswerIsSound ==
  ASSUME NEW st, IsStore(st), NEW t \in Nat, NEW sn,
         \A k \in DOMAIN st : st[k] = sn[k],
         NEW r \in PurgeAndTrim(st, t)
  PROVE  /\ Memory!Sound(r, sn, t)
         /\ \A k \in DOMAIN r : r[k] = sn[k]
<1> DEFINE pu == Purge(st, t)
<1>1. /\ r \in Trims(pu) /\ IsStore(pu)
      /\ \A k \in DOMAIN pu : k \in DOMAIN st /\ pu[k] = st[k]
      /\ \A k \in DOMAIN pu : Retention = 0 \/ st[k] >= t - Retention
  BY PurgeFacts DEF PurgeAndTrim
<1> HIDE DEF pu
<1>2. /\ IsStore(r) /\ Fits(r)
      /\ \A k \in DOMAIN r : k \in DOMAIN pu /\ r[k] = pu[k]
  BY <1>1, TrimFacts
<1>3. \A k \in DOMAIN r : /\ k \in Nodes /\ r[k] = sn[k] /\ sn[k] \in Nat
                          /\ Retention = 0 \/ sn[k] >= t - Retention
  BY <1>1, <1>2 DEF IsStore
<1>4. \A k \in DOMAIN r : k \in Nodes /\ Memory!Alive(k, sn, t)
  BY <1>3 DEF Memory!Alive, Memory!Never
<1> QED
  BY <1>2, <1>3, <1>4, SameCount DEF Memory!Sound, Fits

(* The store over which an operation purges is in step with the reports.   *)
LEMMA OperationsAnswer ==
  ASSUME MemoryInv,
         Load \/ Query \/ \E K \in SUBSET Nodes : Report(K)
  PROVE  Memory!Sound(items', seen', clock) /\ InStep' /\ clock' = clock
<1>0. /\ IsStore(items) /\ IsStore(file) /\ clock \in Nat
      /\ \A k \in DOMAIN items : items[k] = seen[k]
  BY DEF MemoryInv, StoreInv, TypeOK, IsStore, InStep
<1>1. CASE Load
  <2>1. \A k \in DOMAIN file : file[k] = seen'[k]
    BY <1>0, <1>1 DEF Load, IsStore
  <2> QED
    BY <1>0, <1>1, <2>1, AnswerIsSound DEF Load, InStep
<1>2. CASE Query
  <2>1. items' \in PurgeAndTrim(items, clock) /\ seen' = seen /\ clock' = clock
    BY <1>2 DEF Query
  <2> QED
    BY <1>0, <2>1, AnswerIsSound DEF InStep
<1>3. ASSUME NEW K \in SUBSET Nodes, Report(K)
      PROVE  Memory!Sound(items', seen', clock) /\ InStep' /\ clock' = clock
  <2> DEFINE st == Upsert(items, K, clock)
  <2>1. /\ IsStore(st)
        /\ DOMAIN st = DOMAIN items \cup K
        /\ \A k \in K : st[k] = clock
        /\ \A k \in DOMAIN items \ K : st[k] = items[k]
    <3>1. IsStore(st)
      BY <1>0, UpsertFacts
    <3> QED
      BY <3>1 DEF Upsert
  <2>2. items' \in PurgeAndTrim(st, clock) /\ clock' = clock
        /\ seen' = [k \in Nodes |-> IF k \in K THEN clock ELSE seen[k]]
    BY <1>3 DEF Report
  <2> HIDE DEF st
  <2>3. \A k \in DOMAIN st : st[k] = seen'[k]
    BY <1>0, <2>1, <2>2 DEF IsStore
  <2> QED
    BY <1>0, <2>1, <2>2, <2>3, AnswerIsSound DEF InStep
<1> QED
  BY <1>1, <1>2, <1>3

LEMMA InitMemory == Init => MemoryInv /\ Memory!Init
<1> SUFFICES ASSUME Init PROVE MemoryInv /\ Memory!Init
  OBVIOUS
<1>1. FreshInv /\ Emptied
  BY InitFresh DEF Init, Emptied
<1>2. MemoryInv
  BY <1>1 DEF MemoryInv, FreshInv
<1> QED
  BY <1>2 DEF Init, Memory!Init, Memory!NoReports, Memory!Nothing, Memory!Never,
              NoNodes, Never

LEMMA MemoryInvStep == ASSUME MemoryInv, [Next]_vars PROVE MemoryInv'
<1>1. StoreInv' /\ (steady' => FreshInv')
  BY StepStore, SteadyBefore, StepFresh DEF MemoryInv
<1>2. Emptied'
  BY DEF MemoryInv, Emptied, Next, vars, Load, Sync, DirectMessage, Report, BeginSave,
         Idle, Query, WriteDone, WriteFailed, Crash, Tick, SetBack
<1>3. InStep'
  <2>1. CASE Load \/ Sync \/ DirectMessage \/ Query
    BY <2>1, OperationsAnswer DEF Sync, DirectMessage
  <2>2. CASE Crash
    BY <2>2 DEF Crash, InStep, NoNodes
  <2>3. CASE WriteDone \/ WriteFailed \/ Tick \/ SetBack \/ UNCHANGED vars
    <3>1. UNCHANGED <<items, seen>>
      BY <2>3 DEF WriteDone, WriteFailed, Tick, SetBack, vars
    <3> QED
      BY <3>1 DEF MemoryInv, InStep
  <2> QED
    BY <2>1, <2>2, <2>3 DEF Next
<1> QED
  BY <1>1, <1>2, <1>3 DEF MemoryInv

LEMMA AnswerIsNewest ==
  ASSUME MemoryInv', up', clock' = clock, steady'
  PROVE  Memory!Newest(items', seen', clock)
<1>1. OldestMadeRoom'
  BY DEF MemoryInv, FreshInv
<1>2. ASSUME NEW k \in Nodes, Memory!Alive(k, seen', clock), k \notin DOMAIN items'
      PROVE  Missing(k)' /\ Unexpired(k)'
  BY <1>2 DEF Missing, Unexpired, Memory!Alive, Memory!Never, Never
<1> QED
  BY <1>1, <1>2, SameCount DEF OldestMadeRoom, Memory!Newest

LEMMA Answers ==
  ASSUME MemoryInv, [Next]_vars, up', steady' = steady,
         Load \/ Query \/ \E K \in SUBSET Nodes : Report(K)
  PROVE  Memory!Answered
<1>1. Memory!Sound(items', seen', clock) /\ clock' = clock
  BY OperationsAnswer
<1>2. steady => Memory!Newest(items', seen', clock)
  BY <1>1, MemoryInvStep, AnswerIsNewest
<1> QED
  BY <1>1, <1>2 DEF Memory!Answered

LEMMA ReportIsReport ==
  ASSUME MemoryInv, NEW K \in SUBSET Nodes, Report(K), [Next]_vars
  PROVE  Memory!Report(K)
<1>1. Memory!Answered
  BY Answers DEF Report, Idle
<1>2. \/ Saved' = items' /\ writing' = TRUE
      \/ UNCHANGED <<Saved, writing>>
  BY DEF Report, BeginSave, Saved, Idle
<1> QED
  BY <1>1, <1>2 DEF Report, Idle, Memory!Report, Memory!Never, Never, Saved

LEMMA MemoryStep ==
  ASSUME MemoryInv, [Next]_vars PROVE [Memory!Next]_(Memory!vars)
<1>0. MemoryInv' /\ writing \in BOOLEAN /\ steady \in BOOLEAN /\ clock \in Nat
  BY MemoryInvStep DEF MemoryInv, StoreInv, TypeOK
<1>1. CASE Load
  <2>1. Memory!Answered
    BY <1>1, Answers DEF Load
  <2>2. Saved = file /\ Saved' = file /\ writing' = writing
    BY <1>1 DEF Load, Saved, MemoryInv, Emptied
  <2>3. Memory!Start
    BY <1>1, <2>1, <2>2 DEF Load, Memory!Start, Memory!Never, Never, Saved
  <2> QED
    BY <2>3 DEF Memory!Next
<1>2. CASE Sync
  BY <1>2, ReportIsReport DEF Sync, Memory!Next
<1>3. CASE DirectMessage
  <2>1. PICK k \in Nodes : Report({k})
    BY <1>3 DEF DirectMessage
  <2> QED
    BY <2>1, ReportIsReport DEF Memory!Next
<1>4. CASE Query
  <2>1. Memory!Answered
    BY <1>4, Answers DEF Query, Idle
  <2>2. Memory!Ask
    BY <1>4, <2>1 DEF Query, Idle, Memory!Ask
  <2> QED
    BY <2>2 DEF Memory!Next
<1>5. CASE WriteDone
  <2>1. Memory!Settle
    BY <1>5 DEF WriteDone, Memory!Settle
  <2> QED
    BY <2>1 DEF Memory!Next
<1>6. CASE WriteFailed
  <2>1. Memory!Settle
    BY <1>6 DEF WriteFailed, Memory!Settle, Memory!Nothing, MemoryInv, Emptied, NoNodes
  <2> QED
    BY <2>1 DEF Memory!Next
<1>7. CASE Crash
  <2>1. Memory!Crash
    BY <1>7 DEF Crash, Memory!Crash, Memory!Nothing, Memory!NoReports, Memory!Never,
                Never, MemoryInv, Emptied, NoNodes
  <2> QED
    BY <2>1 DEF Memory!Next
<1>8. CASE Tick \/ SetBack
  <2>1. steady' = (steady /\ clock' >= clock)
    <3>1. (clock' >= clock /\ steady' = steady) \/ (~ (clock' >= clock) /\ steady' = FALSE)
      BY <1>0, <1>8 DEF Tick, SetBack
    <3> QED
      BY <1>0, <3>1, Zenon
  <2>2. Memory!Time
    BY <1>8, <2>1 DEF Tick, SetBack, Memory!Time
  <2> QED
    BY <2>2 DEF Memory!Next
<1>9. CASE UNCHANGED vars
  BY <1>9 DEF vars, Memory!vars
<1> QED
  BY <1>1, <1>2, <1>3, <1>4, <1>5, <1>6, <1>7, <1>8, <1>9 DEF Next

(* Purging at every operation and rewriting the file in place cannot be    *)
(* told from a store that never forgets: what the bot tells are the newest *)
(* unexpired nodes of all that were reported since the start, and of those *)
(* a restart began with, which are the ones saved last, or none.           *)
THEOREM NothingIsForgotten == Spec => MemorySpec
<1>1. Init => Memory!Init /\ MemoryInv
  BY InitMemory
<1>2. MemoryInv /\ [Next]_vars => MemoryInv' /\ [Memory!Next]_(Memory!vars)
  BY MemoryInvStep, MemoryStep
<1> QED
  BY <1>1, <1>2, PTL DEF Spec, MemorySpec, Memory!Spec
=============================================================================
