----------------------------- MODULE StationsDb -----------------------------
(***************************************************************************)
(* _meteostat_ensure_stations_db: the station database of the Meteostat    *)
(* provider, which all weather requests share.  It is taken from the disk, *)
(* copied from the image, or downloaded, by one request at a time, and the *)
(* path is then kept for the life of the process.  The process may die at  *)
(* any moment and be started again, and the wall clock may be set to any   *)
(* time.                                                                   *)
(***************************************************************************)
EXTENDS Integers, Sequences

CONSTANTS
    Requests,
    Retries,     \* METEOSTAT_DOWNLOAD_RETRIES
    Refresh,     \* METEOSTAT_STATIONS_DB_REFRESH_SEC
    MaxTime,     \* bound: the latest time of the wall clock
    MaxLives     \* bound: how often the process is started

ASSUME StationsAssumption ==
    /\ Retries \in Nat \ {0}
    /\ Refresh \in Nat
    /\ MaxTime \in Nat /\ MaxLives \in Nat

(* What a file holds: nothing readable or less than the smallest size; a   *)
(* part of a database of which the test query notices nothing; a database  *)
(* without a station; all of it.                                           *)
Contents == {"unusable", "torn", "empty", "whole"}
Files == [holds : Contents, mtime : 0 .. MaxTime]

VARIABLES
    now,      \* time.time()
    file,     \* the file at _meteostat_stations_db_path()
    bundled,  \* the one of the image, METEOSTAT_STATIONS_DB_BUNDLED_PATH
    local,    \* _meteostat_db_local_path
    queue,    \* _meteostat_lock: its holder and those who wait for it
    pc,       \* where each request is
    tries,    \* download attempts of the one that holds the lock
    given,    \* history: what the path handed out stood for
    cut,      \* history: a copy was broken off
    lives     \* how often the process was started

vars == <<now, file, bundled, local, queue, pc, tries, given, cut, lives>>

Paths == {"file", "bundled"}
None == "none"

(* Absent files are unusable ones.  No database starts out torn.           *)
Init ==
    /\ now \in 0 .. MaxTime
    /\ file \in {f \in Files : f.holds # "torn"}
    /\ bundled \in {f \in Files : f.holds \in {"unusable", "whole"}}
    /\ local = None
    /\ queue = <<>>
    /\ pc = [r \in Requests |-> "idle"]
    /\ tries = 0
    /\ given = [r \in Requests |-> None]
    /\ cut = FALSE
    /\ lives = 1

-----------------------------------------------------------------------------
(* _meteostat_stations_db_is_valid.                                        *)
Valid(f) ==
    /\ f.holds \in {"torn", "whole"}
    /\ now - f.mtime < Refresh

(* While a copy is made the event loop runs nothing else.                  *)
Copying == \E r \in Requests : pc[r] = "copying"

Known == IF local = "file" THEN file ELSE bundled

(* The request goes on with the path of this file, and queries it at once. *)
HandOut(r, f) ==
    /\ pc' = [pc EXCEPT ![r] = "done"]
    /\ given' = [given EXCEPT ![r] = f.holds]

Release == queue' = Tail(queue)

Keep(r, path, f) ==
    /\ local' = path
    /\ HandOut(r, f)
    /\ Release

(* Fault: who got the lock does not look again whether the path is known.  *)
LockedUnaware(r, q) ==
    \/ /\ Valid(file)
       /\ local' = "file"
       /\ HandOut(r, file)
       /\ queue' = Tail(q)
       /\ UNCHANGED <<file, tries>>
    \/ /\ ~ Valid(file)
       /\ pc' = [pc EXCEPT ![r] = "downloading"]
       /\ tries' = 1
       /\ queue' = q
       /\ UNCHANGED <<file, local, given>>

(* Under the lock: somebody else may have found the database meanwhile.    *)
(* To copy the bundled one the file is emptied, unless it cannot be opened *)
(* or its directory made; what a reader would find from then on is         *)
(* whatever was written so far.                                            *)
Locked(r, q) ==
    \/ /\ local # None
       /\ HandOut(r, Known)
       /\ queue' = Tail(q)
       /\ UNCHANGED <<file, local, tries>>
    \/ /\ local = None
       /\ Valid(file)
       /\ local' = "file"
       /\ HandOut(r, file)
       /\ queue' = Tail(q)
       /\ UNCHANGED <<file, tries>>
    \/ /\ local = None
       /\ ~ Valid(file) /\ Valid(bundled)
       /\ file' \in {file} \cup [holds : {"unusable", "torn"}, mtime : {now}]
       /\ pc' = [pc EXCEPT ![r] = "copying"]
       /\ queue' = q
       /\ UNCHANGED <<local, tries, given>>
    \/ /\ local = None
       /\ ~ Valid(file) /\ ~ Valid(bundled)
       /\ pc' = [pc EXCEPT ![r] = "downloading"]
       /\ tries' = 1
       /\ queue' = q
       /\ UNCHANGED <<file, local, given>>

(* A request comes.  It needs no lock if the path is known, and does not   *)
(* wait for a free one.                                                    *)
Ask(r) ==
    /\ pc[r] = "idle" /\ ~ Copying
    /\ \/ /\ local # None
          /\ HandOut(r, Known)
          /\ UNCHANGED <<file, local, queue, tries>>
       \/ /\ local = None /\ queue = <<>>
          /\ Locked(r, <<r>>)
       \/ /\ local = None /\ queue # <<>>
          /\ queue' = Append(queue, r)
          /\ pc' = [pc EXCEPT ![r] = "waiting"]
          /\ UNCHANGED <<file, local, tries, given>>
    /\ UNCHANGED <<now, bundled, cut, lives>>

(* The lock is handed to the one that has waited longest.                  *)
Acquire(r) ==
    /\ pc[r] = "waiting" /\ ~ Copying
    /\ Head(queue) = r
    /\ Locked(r, queue)
    /\ UNCHANGED <<now, bundled, cut, lives>>

(* shutil.copy2 keeps the time of the original.                            *)
Copied(r) ==
    /\ pc[r] = "copying"
    /\ file' = bundled
    /\ Keep(r, "file", file')
    /\ UNCHANGED <<now, bundled, tries, cut, lives>>

(* An OSError, as of a full disk: what was written so far stays, which is  *)
(* all of it if only its time could not be set.                            *)
CopyFailed(r) ==
    /\ pc[r] = "copying"
    /\ file' \in {file, [bundled EXCEPT !.mtime = now]}
    /\ Keep(r, "bundled", bundled)
    /\ cut' = TRUE
    /\ UNCHANGED <<now, bundled, tries, lives>>

(* Faults of a download that fails: it was written in place, it leaves the *)
(* lock held, or one attempt more is made.                                 *)
DownloadFailedInPlace(r) ==
    /\ pc[r] = "downloading" /\ ~ Copying
    /\ file' \in [holds : {"unusable", "torn"}, mtime : {now}]
    /\ pc' = [pc EXCEPT ![r] = "failed"]
    /\ Release
    /\ UNCHANGED <<now, bundled, local, tries, given, cut, lives>>

DownloadFailedHolding(r) ==
    /\ pc[r] = "downloading" /\ ~ Copying
    /\ IF tries < Retries
       THEN tries' = tries + 1 /\ UNCHANGED pc
       ELSE pc' = [pc EXCEPT ![r] = "failed"] /\ UNCHANGED tries
    /\ UNCHANGED <<now, file, bundled, local, queue, given, cut, lives>>

DownloadFailedOnceMore(r) ==
    /\ pc[r] = "downloading" /\ ~ Copying
    /\ IF tries <= Retries
       THEN tries' = tries + 1 /\ UNCHANGED <<queue, pc>>
       ELSE pc' = [pc EXCEPT ![r] = "failed"] /\ Release /\ UNCHANGED tries
    /\ UNCHANGED <<now, file, bundled, local, given, cut, lives>>

(* The download was complete: it goes to a temporary file, whose size is   *)
(* tested and which is queried, but need not have a single station, and    *)
(* takes the place of the file in one step.                                *)
Downloaded(r) ==
    /\ pc[r] = "downloading" /\ ~ Copying
    /\ file' \in [holds : {"empty", "whole"}, mtime : {now}]
    /\ Keep(r, "file", file')
    /\ UNCHANGED <<now, bundled, tries, cut, lives>>

(* HTTP, the disk or the test query failed.  After the last attempt the    *)
(* bundled database may do, though it did not before: if the clock was set *)
(* back.                                                                   *)
DownloadFailed(r) ==
    /\ pc[r] = "downloading" /\ ~ Copying
    /\ \/ /\ tries < Retries
          /\ tries' = tries + 1
          /\ UNCHANGED <<local, queue, pc, given>>
       \/ /\ tries = Retries /\ Valid(bundled)
          /\ Keep(r, "bundled", bundled)
          /\ UNCHANGED tries
       \/ /\ tries = Retries /\ ~ Valid(bundled)
          /\ pc' = [pc EXCEPT ![r] = "failed"]
          /\ Release
          /\ UNCHANGED <<local, tries, given>>
    /\ UNCHANGED <<now, file, bundled, cut, lives>>

-----------------------------------------------------------------------------
(* The environment: the process dies and is started again with the files   *)
(* it left; the clock goes on or is set.                                   *)
Crash ==
    /\ lives < MaxLives
    /\ lives' = lives + 1
    /\ cut' = (cut \/ Copying)
    /\ local' = None
    /\ queue' = <<>>
    /\ pc' = [r \in Requests |-> "idle"]
    /\ tries' = 0
    /\ given' = [r \in Requests |-> None]
    /\ UNCHANGED <<now, file, bundled>>

Clock ==
    /\ now' \in 0 .. MaxTime
    /\ UNCHANGED <<file, bundled, local, queue, pc, tries, given, cut, lives>>

RequestStep(r) ==
    Ask(r) \/ Acquire(r) \/ Copied(r) \/ CopyFailed(r) \/ Downloaded(r) \/ DownloadFailed(r)

Next ==
    \/ \E r \in Requests : RequestStep(r)
    \/ Crash
    \/ Clock

Spec == Init /\ [][Next]_vars

(* A copy ends, every await of a download has a timeout, and the lock goes *)
(* to the next in the queue.                                               *)
FairSpec ==
    /\ Spec
    /\ \A r \in Requests :
         /\ WF_vars(Acquire(r))
         /\ WF_vars(Copied(r) \/ CopyFailed(r) \/ Downloaded(r) \/ DownloadFailed(r))

-----------------------------------------------------------------------------
TypeOK ==
    /\ now \in 0 .. MaxTime
    /\ file \in Files /\ bundled \in Files
    /\ local \in Paths \cup {None}
    /\ queue \in Seq(Requests)
    /\ pc \in [Requests -> {"idle", "waiting", "copying", "downloading", "done", "failed"}]
    /\ tries \in 0 .. Retries
    /\ given \in [Requests -> Contents \cup {None}]
    /\ cut \in BOOLEAN /\ lives \in Nat

(* weather_cmd.py:624-635: whatever is broken off, a request is handed a   *)
(* complete database.  The one way to a part of one is the copy of the     *)
(* bundled file, which is not atomic (546).                                *)
HandedOutIsComplete ==
    \A r \in Requests : pc[r] = "done" =>
        given[r] \in {"whole", "empty"} \/ (given[r] = "torn" /\ cut)

(* weather_cmd.py:527 "downloading or copying it once": as long as the     *)
(* process lives every request gets the same path, and the file is not     *)
(* written again under those who read it.                                  *)
FetchedOnce ==
    [][local # None /\ lives' = lives => local' = local /\ file' = file]_vars

(* No request is left waiting for the lock, however the one that holds it  *)
(* fares: the attempts are bounded, and a failure releases it too.         *)
EveryLookupEnds ==
    \A r \in Requests :
        pc[r] \in {"waiting", "copying", "downloading"} ~> pc[r] \in {"done", "failed", "idle"}
=============================================================================
