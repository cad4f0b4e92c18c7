-------------------------- MODULE StationsDbProofs --------------------------
(***************************************************************************)
(* Theorems about StationsDb, for any number of requests, attempts and     *)
(* restarts, and whatever the clock does.                                  *)
(***************************************************************************)
EXTENDS StationsDb, SequenceTheorems, TLAPS

LEMMA TailFacts ==
  ASSUME NEW q \in Seq(Requests), q # <<>>
  PROVE  /\ Head(q) \in Requests /\ Head(q) = q[1]
         /\ Tail(q) \in Seq(Requests)
         /\ Len(Tail(q)) = Len(q) - 1
         /\ \A i \in 1 .. Len(Tail(q)) : Tail(q)[i] = q[i + 1]
  BY HeadTailProperties

LEMMA AppendFacts ==
  ASSUME NEW q \in Seq(Requests), NEW r \in Requests
  PROVE  /\ Append(q, r) \in Seq(Requests)
         /\ Append(q, r) # <<>>
         /\ Len(Append(q, r)) = Len(q) + 1
         /\ Append(q, r)[Len(q) + 1] = r
         /\ \A i \in 1 .. Len(q) : Append(q, r)[i] = q[i]
  BY AppendProperties

-----------------------------------------------------------------------------
(* Who waits is in the queue; who copies or downloads is the head of it,   *)
(* and the path is not known yet.                                          *)
InQueue(q, r) == \E i \in 1 .. Len(q) : q[i] = r

Critical(r) == pc[r] \in {"copying", "downloading"}

LockHeld ==
    \A r \in Requests :
        /\ pc[r] = "waiting" => InQueue(queue, r)
        /\ Critical(r) => queue # <<>> /\ Head(queue) = r /\ local = None

(* A path that is known is that of a database, and there is a part of one  *)
(* only while somebody copies or after a copy was broken off.              *)
FilesSound ==
    /\ bundled.holds \in {"unusable", "whole"}
    /\ local = "bundled" => bundled.holds = "whole"
    /\ local = "file" => file.holds # "unusable"
    /\ file.holds = "torn" => cut \/ Copying
    /\ Copying => bundled.holds = "whole"

StationsInv == TypeOK /\ LockHeld /\ FilesSound /\ HandedOutIsComplete

LEMMA InitStations == Init => StationsInv
<1> SUFFICES ASSUME Init PROVE StationsInv
  OBVIOUS
<1>1. TypeOK
  <2>1. now \in 0 .. MaxTime /\ file \in Files /\ bundled \in Files
    BY DEF Init
  <2>2. queue \in Seq(Requests)
    BY DEF Init
  <2>3. local \in Paths \cup {None} /\ lives \in Nat /\ tries \in 0 .. Retries
    BY StationsAssumption DEF Init
  <2>4. /\ pc \in [Requests -> {"idle", "waiting", "copying", "downloading", "done", "failed"}]
        /\ given \in [Requests -> Contents \cup {None}]
    BY DEF Init
  <2>5. cut \in BOOLEAN
    BY DEF Init
  <2> QED
    BY <2>1, <2>2, <2>3, <2>4, <2>5 DEF TypeOK
<1>2. LockHeld
  BY DEF Init, LockHeld, Critical
<1>3. FilesSound
  BY DEF Init, FilesSound, Copying, None
<1>4. HandedOutIsComplete
  BY DEF Init, HandedOutIsComplete
<1> QED
  BY <1>1, <1>2, <1>3, <1>4 DEF StationsInv

-----------------------------------------------------------------------------
(* The lock is released by its holder: the others stay in their order.     *)
LEMMA ReleaseKeepsQueue ==
  ASSUME NEW q \in Seq(Requests), q # <<>>, NEW r \in Requests,
         InQueue(q, r), r # Head(q)
  PROVE  InQueue(Tail(q), r)
<1>1. PICK i \in 1 .. Len(q) : q[i] = r
  BY DEF InQueue
<1>2. i # 1 /\ Len(q) \in Nat
  BY <1>1, TailFacts
<1>3. i - 1 \in 1 .. Len(Tail(q)) /\ Tail(q)[i - 1] = r
  BY <1>1, <1>2, TailFacts
<1> QED
  BY <1>3 DEF InQueue

(* Whoever gets the lock, at once or after waiting, does not find anybody  *)
(* else in it.                                                             *)
LEMMA LockedStations ==
  ASSUME StationsInv, NEW r \in Requests, NEW q \in Seq(Requests),
         q # <<>>, Head(q) = r, ~ Copying,
         \A s \in Requests : ~ Critical(s),
         \A s \in Requests \ {r} : pc[s] = "waiting" => InQueue(q, s),
         Locked(r, q), UNCHANGED <<now, bundled, cut, lives>>
  PROVE  StationsInv'
<1> USE StationsAssumption
<1>0. TypeOK /\ LockHeld /\ FilesSound /\ HandedOutIsComplete
  BY DEF StationsInv
<1>1. /\ Tail(q) \in Seq(Requests)
      /\ \A s \in Requests \ {r} : pc[s] = "waiting" => InQueue(Tail(q), s)
  BY TailFacts, ReleaseKeepsQueue
<1>2. CASE /\ local # None
           /\ HandOut(r, Known)
           /\ queue' = Tail(q)
           /\ UNCHANGED <<file, local, tries>>
  <2>1. Known \in Files /\ Known.holds # "unusable" /\ (Known.holds = "torn" => cut)
    BY <1>0, <1>2 DEF Known, TypeOK, FilesSound, Paths
  <2>2. TypeOK'
    BY <1>0, <1>1, <1>2, <2>1 DEF HandOut, TypeOK, Files
  <2>3. LockHeld'
    BY <1>0, <1>1, <1>2 DEF HandOut, LockHeld, Critical, TypeOK
  <2>4. FilesSound'
    BY <1>0, <1>2 DEF HandOut, FilesSound, Copying, TypeOK
  <2>5. HandedOutIsComplete'
    BY <1>0, <1>2, <2>1 DEF HandOut, HandedOutIsComplete, TypeOK, Files, Contents
  <2> QED
    BY <2>2, <2>3, <2>4, <2>5 DEF StationsInv
<1>3. CASE /\ local = None
           /\ Valid(file)
           /\ local' = "file"
           /\ HandOut(r, file)
           /\ queue' = Tail(q)
           /\ UNCHANGED <<file, tries>>
  <2>1. file.holds \in {"torn", "whole"} /\ (file.holds = "torn" => cut)
    BY <1>0, <1>3 DEF Valid, FilesSound
  <2>2. TypeOK'
    BY <1>0, <1>1, <1>3 DEF HandOut, TypeOK, Files, Paths
  <2>3. LockHeld'
    BY <1>0, <1>1, <1>3 DEF HandOut, LockHeld, Critical, TypeOK
  <2>4. FilesSound'
    BY <1>0, <1>3, <2>1 DEF HandOut, FilesSound, Copying, TypeOK
  <2>5. HandedOutIsComplete'
    BY <1>0, <1>3, <2>1 DEF HandOut, HandedOutIsComplete, TypeOK
  <2> QED
    BY <2>2, <2>3, <2>4, <2>5 DEF StationsInv
<1>4. CASE /\ local = None
           /\ ~ Valid(file) /\ Valid(bundled)
           /\ file' \in {file} \cup [holds : {"unusable", "torn"}, mtime : {now}]
           /\ pc' = [pc EXCEPT ![r] = "copying"]
           /\ queue' = q
           /\ UNCHANGED <<local, tries, given>>
  <2>1. file' \in Files /\ pc'[r] = "copying" /\ bundled.holds = "whole"
    BY <1>0, <1>4 DEF TypeOK, Files, Contents, Valid, FilesSound
  <2>2. TypeOK'
    BY <1>0, <1>4, <2>1 DEF TypeOK
  <2>3. LockHeld'
    BY <1>0, <1>4 DEF LockHeld, Critical, TypeOK
  <2>4. FilesSound'
    BY <1>0, <1>4, <2>1 DEF FilesSound, Copying, None
  <2>5. HandedOutIsComplete'
    BY <1>0, <1>4 DEF HandedOutIsComplete, TypeOK
  <2> QED
    BY <2>2, <2>3, <2>4, <2>5 DEF StationsInv
<1>5. CASE /\ local = None
           /\ ~ Valid(file) /\ ~ Valid(bundled)
           /\ pc' = [pc EXCEPT ![r] = "downloading"]
           /\ tries' = 1
           /\ queue' = q
           /\ UNCHANGED <<file, local, given>>
  <2>1. TypeOK'
    BY <1>0, <1>5 DEF TypeOK
  <2>2. LockHeld'
    BY <1>0, <1>5 DEF LockHeld, Critical, TypeOK
  <2>3. FilesSound'
    BY <1>0, <1>5 DEF FilesSound, Copying, TypeOK
  <2>4. HandedOutIsComplete'
    BY <1>0, <1>5 DEF HandedOutIsComplete, TypeOK
  <2> QED
    BY <2>1, <2>2, <2>3, <2>4 DEF StationsInv
<1> QED
  BY <1>2, <1>3, <1>4, <1>5 DEF Locked

LEMMA AskStations ==
  ASSUME StationsInv, NEW r \in Requests, Ask(r) PROVE StationsInv'
<1> USE StationsAssumption
<1>0. TypeOK /\ LockHeld /\ FilesSound /\ HandedOutIsComplete
  BY DEF StationsInv
<1>1. pc[r] = "idle" /\ ~ Copying /\ UNCHANGED <<now, bundled, cut, lives>>
  BY DEF Ask
<1>2. CASE /\ local # None
           /\ HandOut(r, Known)
           /\ UNCHANGED <<file, local, queue, tries>>
  <2>1. Known \in Files /\ Known.holds # "unusable" /\ (Known.holds = "torn" => cut)
    BY <1>0, <1>1, <1>2 DEF Known, TypeOK, FilesSound, Paths
  <2>2. TypeOK'
    BY <1>0, <1>1, <1>2, <2>1 DEF HandOut, TypeOK, Files
  <2>3. LockHeld'
    BY <1>0, <1>1, <1>2 DEF HandOut, LockHeld, Critical, InQueue, TypeOK
  <2>4. FilesSound'
    BY <1>0, <1>1, <1>2 DEF HandOut, FilesSound, Copying, TypeOK
  <2>5. HandedOutIsComplete'
    BY <1>0, <1>1, <1>2, <2>1 DEF HandOut, HandedOutIsComplete, TypeOK, Files, Contents
  <2> QED
    BY <2>2, <2>3, <2>4, <2>5 DEF StationsInv
<1>3. CASE local = None /\ queue = <<>> /\ Locked(r, <<r>>)
  <2>1. <<r>> \in Seq(Requests) /\ <<r>> # <<>> /\ Head(<<r>>) = r
    OBVIOUS
  <2>2. \A s \in Requests : ~ Critical(s) /\ pc[s] # "waiting"
    BY <1>0, <1>3 DEF LockHeld, InQueue
  <2> QED
    BY <1>1, <1>3, <2>1, <2>2, LockedStations
<1>4. CASE /\ local = None /\ queue # <<>>
           /\ queue' = Append(queue, r)
           /\ pc' = [pc EXCEPT ![r] = "waiting"]
           /\ UNCHANGED <<file, local, tries, given>>
  <2>1. queue \in Seq(Requests) /\ Len(queue) \in Nat \ {0}
    BY <1>0, <1>4, EmptySeq DEF TypeOK
  <2>2. /\ queue' \in Seq(Requests) /\ queue' # <<>>
        /\ Len(queue') = Len(queue) + 1
        /\ queue'[Len(queue) + 1] = r
        /\ \A i \in 1 .. Len(queue) : queue'[i] = queue[i]
    BY <1>4, <2>1, AppendFacts
  <2>3. Head(queue') = Head(queue)
    BY <1>4, <2>1, <2>2, TailFacts
  <2>4. TypeOK'
    BY <1>0, <1>1, <1>4, <2>2 DEF TypeOK
  <2>5. LockHeld'
    <3> SUFFICES ASSUME NEW s \in Requests
                 PROVE  /\ pc'[s] = "waiting" => InQueue(queue', s)
                        /\ Critical(s)' => queue' # <<>> /\ Head(queue') = s /\ local' = None
      BY DEF LockHeld
    <3>1. CASE s = r
      <4>1. pc'[s] = "waiting" /\ Len(queue) + 1 \in 1 .. Len(queue')
        BY <1>0, <1>4, <2>1, <2>2, <3>1 DEF TypeOK
      <4> QED
        BY <2>2, <3>1, <4>1 DEF Critical, InQueue
    <3>2. CASE s # r
      <4>1. pc'[s] = pc[s]
        BY <1>0, <1>4, <3>2 DEF TypeOK
      <4>2. InQueue(queue, s) => InQueue(queue', s)
        BY <2>1, <2>2 DEF InQueue
      <4> QED
        BY <1>0, <1>4, <2>2, <2>3, <4>1, <4>2 DEF LockHeld, Critical
    <3> QED
      BY <3>1, <3>2
  <2>6. FilesSound'
    BY <1>0, <1>1, <1>4 DEF FilesSound, Copying, TypeOK
  <2>7. HandedOutIsComplete'
    BY <1>0, <1>1, <1>4 DEF HandedOutIsComplete, TypeOK
  <2> QED
    BY <2>4, <2>5, <2>6, <2>7 DEF StationsInv
<1> QED
  BY <1>2, <1>3, <1>4 DEF Ask

LEMMA AcquireStations ==
  ASSUME StationsInv, NEW r \in Requests, Acquire(r) PROVE StationsInv'
<1>0. TypeOK /\ LockHeld /\ pc[r] = "waiting" /\ Head(queue) = r
  BY DEF StationsInv, Acquire
<1>1. queue \in Seq(Requests) /\ queue # <<>>
  BY <1>0 DEF TypeOK, LockHeld, InQueue
<1>2. \A s \in Requests : ~ Critical(s)
  BY <1>0 DEF LockHeld, Critical
<1>3. \A s \in Requests \ {r} : pc[s] = "waiting" => InQueue(queue, s)
  BY <1>0 DEF LockHeld
<1> QED
  BY <1>0, <1>1, <1>2, <1>3, LockedStations DEF Acquire

-----------------------------------------------------------------------------
(* The holder of the lock is alone in it, and leaves it with a database.   *)
LEMMA HolderFacts ==
  ASSUME StationsInv, NEW r \in Requests, Critical(r)
  PROVE  /\ queue \in Seq(Requests) /\ queue # <<>> /\ Head(queue) = r
         /\ local = None
         /\ Tail(queue) \in Seq(Requests)
         /\ \A s \in Requests \ {r} :
              ~ Critical(s) /\ (pc[s] = "waiting" => InQueue(Tail(queue), s))
<1>0. TypeOK /\ LockHeld
  BY DEF StationsInv
<1>1. queue \in Seq(Requests) /\ queue # <<>> /\ Head(queue) = r /\ local = None
  BY <1>0 DEF TypeOK, LockHeld
<1>2. \A s \in Requests \ {r} : ~ Critical(s) /\ (pc[s] = "waiting" => InQueue(queue, s))
  BY <1>0, <1>1 DEF LockHeld
<1> QED
  BY <1>1, <1>2, TailFacts, ReleaseKeepsQueue

LEMMA KeepStations ==
  ASSUME StationsInv, NEW r \in Requests, Critical(r),
         NEW path \in Paths, NEW f \in Files, Keep(r, path, f),
         f.holds \in {"empty", "whole"},
         path = "file" => f = file',
         path = "bundled" => f = bundled,
         file' \in Files, file'.holds = "torn" => cut',
         cut' \in BOOLEAN, cut => cut',
         UNCHANGED <<now, bundled, tries, lives>>
  PROVE  StationsInv'
<1>0. TypeOK /\ LockHeld /\ FilesSound /\ HandedOutIsComplete
  BY DEF StationsInv
<1>1. /\ local' = path
      /\ pc' = [pc EXCEPT ![r] = "done"]
      /\ given' = [given EXCEPT ![r] = f.holds]
      /\ queue' = Tail(queue)
  BY DEF Keep, HandOut, Release
<1>2. /\ Tail(queue) \in Seq(Requests)
      /\ \A s \in Requests \ {r} :
           ~ Critical(s) /\ (pc[s] = "waiting" => InQueue(Tail(queue), s))
  BY HolderFacts
<1>3. f.holds \in Contents
  BY DEF Contents
<1>4. TypeOK'
  BY <1>0, <1>1, <1>2, <1>3 DEF TypeOK
<1>5. LockHeld'
  BY <1>0, <1>1, <1>2 DEF LockHeld, Critical, TypeOK
<1>6. ~ Copying'
  BY <1>0, <1>1, <1>2 DEF Copying, Critical, TypeOK
<1>7. FilesSound'
  BY <1>0, <1>1, <1>6 DEF FilesSound, Paths
<1>8. HandedOutIsComplete'
  BY <1>0, <1>1 DEF HandedOutIsComplete, TypeOK
<1> QED
  BY <1>4, <1>5, <1>7, <1>8 DEF StationsInv

LEMMA CopyStations ==
  ASSUME StationsInv, NEW r \in Requests, Copied(r) \/ CopyFailed(r)
  PROVE  StationsInv'
<1>0. TypeOK /\ FilesSound /\ pc[r] = "copying"
  BY DEF StationsInv, Copied, CopyFailed
<1>1. Critical(r) /\ bundled \in Files /\ bundled.holds = "whole"
  BY <1>0 DEF Critical, TypeOK, FilesSound, Copying
<1>2. CASE Copied(r)
  <2>1. /\ file' = bundled /\ Keep(r, "file", file')
        /\ UNCHANGED <<now, bundled, tries, cut, lives>>
    BY <1>2 DEF Copied
  <2>2. cut' \in BOOLEAN
    BY <1>0, <2>1 DEF TypeOK
  <2> QED
    BY <1>1, <2>1, <2>2, KeepStations DEF Paths
<1>3. CASE CopyFailed(r)
  <2>1. /\ file' \in {file, [bundled EXCEPT !.mtime = now]}
        /\ Keep(r, "bundled", bundled)
        /\ cut' = TRUE
        /\ UNCHANGED <<now, bundled, tries, lives>>
    BY <1>3 DEF CopyFailed
  <2>2. file' \in Files
    BY <1>0, <2>1 DEF TypeOK, Files
  <2>3. cut' \in BOOLEAN /\ cut'
    BY <2>1
  <2> QED
    BY <1>1, <2>1, <2>2, <2>3, KeepStations DEF Paths
<1> QED
  BY <1>2, <1>3

LEMMA DownloadStations ==
  ASSUME StationsInv, NEW r \in Requests, Downloaded(r) \/ DownloadFailed(r)
  PROVE  StationsInv'
<1> USE StationsAssumption
<1>0. TypeOK /\ LockHeld /\ FilesSound /\ HandedOutIsComplete
  BY DEF StationsInv
<1>1. pc[r] = "downloading" /\ ~ Copying /\ Critical(r)
  BY DEF Downloaded, DownloadFailed, Critical
<1>2. cut \in BOOLEAN /\ (file.holds = "torn" => cut)
  BY <1>0, <1>1 DEF TypeOK, FilesSound
<1>3. CASE Downloaded(r)
  <2>1. /\ file' \in [holds : {"empty", "whole"}, mtime : {now}]
        /\ Keep(r, "file", file')
        /\ UNCHANGED <<now, bundled, tries, cut, lives>>
    BY <1>3 DEF Downloaded
  <2>2. file' \in Files /\ file'.holds \in {"empty", "whole"}
    BY <1>0, <2>1 DEF TypeOK, Files, Contents
  <2>3. cut' \in BOOLEAN /\ (cut => cut')
    BY <1>2, <2>1
  <2> QED
    BY <1>1, <2>1, <2>2, <2>3, KeepStations DEF Paths
<1>4. CASE DownloadFailed(r)
  <2>0. UNCHANGED <<now, file, bundled, cut, lives>>
    BY <1>4 DEF DownloadFailed
  <2>1. CASE tries < Retries /\ tries' = tries + 1 /\ UNCHANGED <<local, queue, pc, given>>
    <3>1. TypeOK'
      BY <1>0, <2>0, <2>1 DEF TypeOK
    <3>2. LockHeld'
      BY <1>0, <2>0, <2>1 DEF LockHeld, Critical, InQueue
    <3>3. FilesSound' /\ HandedOutIsComplete'
      BY <1>0, <2>0, <2>1 DEF FilesSound, HandedOutIsComplete, Copying
    <3> QED
      BY <3>1, <3>2, <3>3 DEF StationsInv
  <2>2. CASE tries = Retries /\ Valid(bundled) /\ Keep(r, "bundled", bundled) /\ UNCHANGED tries
    <3>1. bundled \in Files /\ bundled.holds = "whole"
      BY <1>0, <2>2 DEF TypeOK, FilesSound, Valid
    <3>2. file' \in Files /\ (file'.holds = "torn" => cut') /\ cut' \in BOOLEAN /\ (cut => cut')
      BY <1>0, <1>2, <2>0 DEF TypeOK
    <3> QED
      BY <1>1, <2>0, <2>2, <3>1, <3>2, KeepStations DEF Paths
  <2>3. CASE /\ tries = Retries /\ ~ Valid(bundled)
             /\ pc' = [pc EXCEPT ![r] = "failed"]
             /\ Release
             /\ UNCHANGED <<local, tries, given>>
    <3>1. /\ Tail(queue) \in Seq(Requests) /\ queue' = Tail(queue)
          /\ \A s \in Requests \ {r} :
               ~ Critical(s) /\ (pc[s] = "waiting" => InQueue(Tail(queue), s))
      BY <1>1, <2>3, HolderFacts DEF Release
    <3>2. TypeOK'
      BY <1>0, <2>0, <2>3, <3>1 DEF TypeOK
    <3>3. LockHeld'
      BY <1>0, <2>0, <2>3, <3>1 DEF LockHeld, Critical, TypeOK
    <3>4. FilesSound' /\ HandedOutIsComplete'
      BY <1>0, <1>1, <2>0, <2>3 DEF FilesSound, HandedOutIsComplete, Copying, TypeOK
    <3> QED
      BY <3>2, <3>3, <3>4 DEF StationsInv
  <2> QED
    BY <1>4, <2>1, <2>2, <2>3 DEF DownloadFailed
<1> QED
  BY <1>3, <1>4

-----------------------------------------------------------------------------
LEMMA EnvironmentStations ==
  ASSUME StationsInv, Crash \/ Clock \/ UNCHANGED vars PROVE StationsInv'
<1>0. TypeOK /\ LockHeld /\ FilesSound /\ HandedOutIsComplete
  BY DEF StationsInv
<1>1. CASE Crash
  <2>1. <<>> \in Seq(Requests)
    OBVIOUS
  <2>2. lives' \in Nat /\ tries' \in 0 .. Retries
    BY <1>0, <1>1, StationsAssumption DEF Crash, TypeOK
  <2>3. cut' \in BOOLEAN
    BY <1>0, <1>1 DEF Crash, TypeOK, Copying
  <2>4. /\ now' \in 0 .. MaxTime /\ file' \in Files /\ bundled' \in Files
        /\ queue' \in Seq(Requests) /\ local' \in Paths \cup {None}
    BY <1>0, <1>1, <2>1 DEF Crash, TypeOK
  <2>5. /\ pc' \in [Requests -> {"idle", "waiting", "copying", "downloading", "done", "failed"}]
        /\ given' \in [Requests -> Contents \cup {None}]
    BY <1>1 DEF Crash
  <2>6. TypeOK'
    BY <2>2, <2>3, <2>4, <2>5 DEF TypeOK
  <2>7. LockHeld'
    BY <1>1 DEF Crash, LockHeld, Critical
  <2>8. ~ Copying' /\ (file'.holds = "torn" => cut')
    BY <1>0, <1>1 DEF Crash, FilesSound, Copying
  <2>9. FilesSound'
    BY <1>0, <1>1, <2>8 DEF Crash, FilesSound, None
  <2>10. HandedOutIsComplete'
    BY <1>1 DEF Crash, HandedOutIsComplete
  <2> QED
    BY <2>6, <2>7, <2>9, <2>10 DEF StationsInv
<1>2. CASE Clock
  <2>1. TypeOK'
    BY <1>0, <1>2 DEF Clock, TypeOK
  <2>2. LockHeld'
    BY <1>0, <1>2 DEF Clock, LockHeld, Critical, InQueue
  <2>3. FilesSound' /\ HandedOutIsComplete'
    BY <1>0, <1>2 DEF Clock, FilesSound, HandedOutIsComplete, Copying
  <2> QED
    BY <2>1, <2>2, <2>3 DEF StationsInv
<1>3. CASE UNCHANGED vars
  <2>1. TypeOK'
    BY <1>0, <1>3 DEF vars, TypeOK
  <2>2. LockHeld'
    BY <1>0, <1>3 DEF vars, LockHeld, Critical, InQueue
  <2>3. FilesSound' /\ HandedOutIsComplete'
    BY <1>0, <1>3 DEF vars, FilesSound, HandedOutIsComplete, Copying
  <2> QED
    BY <2>1, <2>2, <2>3 DEF StationsInv
<1> QED
  BY <1>1, <1>2, <1>3

LEMMA StepStations == StationsInv /\ [Next]_vars => StationsInv'
<1> SUFFICES ASSUME StationsInv, [Next]_vars PROVE StationsInv'
  OBVIOUS
<1>1. ASSUME NEW r \in Requests, RequestStep(r) PROVE StationsInv'
  BY <1>1, AskStations, AcquireStations, CopyStations, DownloadStations DEF RequestStep
<1> QED
  BY <1>1, EnvironmentStations DEF Next

(* The variables keep their types: the lock's queue holds requests only,   *)
(* and nobody makes more attempts than METEOSTAT_DOWNLOAD_RETRIES.         *)
THEOREM TypeCorrect == Spec => []TypeOK
<1>1. StationsInv => TypeOK
  BY DEF StationsInv
<1> QED
  BY <1>1, InitStations, StepStations, PTL DEF Spec

(* Whatever is broken off, and however the clock is set, no request gets   *)
(* less than a whole database, unless a copy of the bundled one was cut.   *)
THEOREM CompleteIsHandedOut == Spec => []HandedOutIsComplete
<1>1. StationsInv => HandedOutIsComplete
  BY DEF StationsInv
<1> QED
  BY <1>1, InitStations, StepStations, PTL DEF Spec

(* While the process lives, the path that is known stays, and its file is  *)
(* not written: who copies or downloads holds the lock and knows no path.  *)
THEOREM FetchedOnceOnly == Spec => FetchedOnce
<1> DEFINE Stays == local # None /\ lives' = lives => local' = local /\ file' = file
<1>1. ASSUME StationsInv, NEW r \in Requests, RequestStep(r), local # None PROVE Stays
  <2>1. ~ Critical(r)
    BY <1>1, HolderFacts
  <2>2. CASE Ask(r)
    BY <1>1, <2>2 DEF Ask
  <2>3. CASE Acquire(r)
    BY <1>1, <2>3 DEF Acquire, Locked
  <2> QED
    BY <1>1, <2>1, <2>2, <2>3
    DEF RequestStep, Copied, CopyFailed, Downloaded, DownloadFailed, Critical
<1>2. StationsInv /\ Crash => Stays
  BY DEF StationsInv, TypeOK, Crash
<1>3. Clock \/ UNCHANGED vars => Stays
  BY DEF Clock, vars
<1>4. StationsInv /\ [Next]_vars => [Stays]_vars
  BY <1>1, <1>2, <1>3 DEF Next
<1> QED
  BY <1>4, InitStations, StepStations, PTL DEF Spec, FetchedOnce
=============================================================================
