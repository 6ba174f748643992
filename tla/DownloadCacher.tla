---------------------------- MODULE DownloadCacher ----------------------------
(***************************************************************************)
(* The download cache of the CMake runtime, for one URL: processes that    *)
(* configure sketches call cached_download() for the same plugin.  A lock  *)
(* file next to the cached file orders them.  The lock belongs to the file *)
(* that was opened, not to its name, and the name is removed after use.    *)
(* Wherever a process is, it may be killed; the system frees its lock.     *)
(***************************************************************************)
EXTENDS Naturals, FiniteSets

CONSTANTS
    Procs,       \* the CMake processes
    MaxCalls,    \* bound: the calls of cached_download() of a process
    Forces,      \* whether a call asks for it: the values of FORCE_UPDATE
    GivesResult, \* whether a call gives a RESULT_VARIABLE
    Fails,       \* whether a download may fail
    Crashes,     \* whether a process may be killed
    Clears       \* whether clear_download_cache() is called

ASSUME CacherAssumption ==
    /\ IsFiniteSet(Procs) /\ MaxCalls \in Nat
    /\ Forces \subseteq BOOLEAN /\ GivesResult \subseteq BOOLEAN
    /\ Fails \in BOOLEAN /\ Crashes \in BOOLEAN /\ Clears \in BOOLEAN

NoFile == 0

VARIABLES
    name,   \* the file that the lock file's name stands for, or NoFile
    cached, \* the cached file: exists, whole, and the processes writing to it
    call,   \* call[p]: where it is, and the lock file it opened
    calls,  \* calls[p]: bound, the calls it made
    seen    \* history: downloads begun (counted up to 2), and whether there was a
            \* failure, a crash, a clearing, a forced update of a cached file

cacherVars == <<name, cached, call, calls, seen>>

\* The lock files there can be at a time, for the model they are numbers.
Files == 1 .. Cardinality(Procs) + 1

Places == {"out", "locking", "checking", "download?", "downloading", "failed",
           "releasing", "removing", "dead"}

Absent == [exists |-> FALSE, whole |-> FALSE, writers |-> {}]
Outside == [at |-> "out", lock |-> NoFile, owns |-> FALSE, force |-> FALSE, result |-> FALSE,
            fetched |-> FALSE, error |-> FALSE, got |-> "nothing"]

CallStates == [at : Places, lock : Files \cup {NoFile}, owns : BOOLEAN, force : BOOLEAN,
               result : BOOLEAN, fetched : BOOLEAN, error : BOOLEAN,
               got : {"nothing", "whole", "partial", "missing"}]

CacherTypeOK ==
    /\ name \in Files \cup {NoFile}
    /\ cached \in [exists : BOOLEAN, whole : BOOLEAN, writers : SUBSET Procs]
    /\ call \in [Procs -> CallStates]
    /\ calls \in [Procs -> 0..MaxCalls]
    /\ seen \in [begun : 0..2, failed : BOOLEAN, crashed : BOOLEAN, cleared : BOOLEAN,
                  forced : BOOLEAN]

CacherInit ==
    /\ name = NoFile
    /\ cached = Absent
    /\ call = [p \in Procs |-> Outside]
    /\ calls = [p \in Procs |-> 0]
    /\ seen = [begun |-> 0, failed |-> FALSE, crashed |-> FALSE, cleared |-> FALSE,
             forced |-> FALSE]

\* Opening a name for writing creates the file if there is none.
Fresh == CHOOSE f \in Files : \A p \in Procs : call[p].lock # f
Opened == IF name = NoFile THEN Fresh ELSE name
Opens == name' = Opened

Goes(p, place) == call' = [call EXCEPT ![p].at = place]
-----------------------------------------------------------------------------
(* cached_download()                                                       *)

\* file(TOUCH) and the opening in file(LOCK)
Asks(p, force, result) ==
    /\ call[p].at = "out" /\ calls[p] < MaxCalls
    /\ Opens
    /\ call' = [call EXCEPT ![p] = [Outside EXCEPT !.at = "locking", !.lock = Opened,
                                                   !.force = force, !.result = result]]
    /\ calls' = [calls EXCEPT ![p] = @ + 1]
    /\ UNCHANGED <<cached, seen>>

Taken(f) == \E q \in Procs : call[q].owns /\ call[q].lock = f

\* A variant of Locks: an existing lock file is not waited for.
Locks_Always(p) ==
    /\ call[p].at = "locking"
    /\ call' = [call EXCEPT ![p].at = "checking", ![p].owns = ~Taken(call[p].lock)]
    /\ UNCHANGED <<name, cached, calls, seen>>

Locks(p) ==
    /\ call[p].at = "locking" /\ ~Taken(call[p].lock)
    /\ call' = [call EXCEPT ![p].at = "checking", ![p].owns = TRUE]
    /\ UNCHANGED <<name, cached, calls, seen>>

\* A variant of Known: nothing counts as downloaded before.
Known_Never == FALSE

Known == cached.exists

\* set (${index} -1) sets a variable of the name "1": index stays what it was, and
\* what FORCE_UPDATE removed is not downloaded again.
Checks(p) ==
    /\ call[p].at = "checking"
    /\ cached' = IF Known /\ call[p].force THEN Absent ELSE cached
    /\ seen' = [seen EXCEPT !.forced = @ \/ (Known /\ call[p].force)]
    /\ Goes(p, IF Known THEN "releasing" ELSE "download?")
    /\ UNCHANGED <<name, calls>>

\* file(DOWNLOAD) truncates the file or creates it, and then fills it.
BeginsDownload(p) ==
    /\ call[p].at = "download?"
    /\ cached' = [exists |-> TRUE, whole |-> FALSE, writers |-> cached.writers \cup {p}]
    /\ seen' = [seen EXCEPT !.begun = IF @ < 2 THEN @ + 1 ELSE @]
    /\ Goes(p, "downloading")
    /\ UNCHANGED <<name, calls>>

\* Its last byte is written; the file is whole if nobody else is writing to it.
Filled(p) ==
    IF p \notin cached.writers THEN cached
    ELSE [cached EXCEPT !.writers = @ \ {p}, !.whole = cached.writers = {p}]

EndsDownload(p) ==
    /\ call[p].at = "downloading"
    /\ cached' = Filled(p)
    /\ call' = [call EXCEPT ![p].at = "releasing", ![p].fetched = TRUE]
    /\ UNCHANGED <<name, calls, seen>>

FailsDownload(p) ==
    /\ call[p].at = "downloading" /\ Fails
    /\ cached' = Absent
    /\ seen' = [seen EXCEPT !.failed = TRUE]
    /\ call' = [call EXCEPT ![p].at = "failed", ![p].error = TRUE]
    /\ UNCHANGED <<name, calls>>

\* A variant of Gives: a failed download is tried again, from the lock on.
Gives_Again(p) ==
    /\ call[p].at = "failed"
    /\ name' = NoFile
    /\ Goes(p, "locking")
    /\ UNCHANGED <<cached, calls, seen>>

\* The name of the lock is removed while the lock is held.  Without a variable
\* for the result the process ends here.
Gives(p) ==
    /\ call[p].at = "failed"
    /\ name' = NoFile
    /\ call' = IF call[p].result THEN [call EXCEPT ![p].at = "releasing"]
               ELSE [call EXCEPT ![p] = [Outside EXCEPT !.at = "dead"]]
    /\ UNCHANGED <<cached, calls, seen>>

\* file(LOCK ... RELEASE) opens the name too, before it frees the lock.
Releases(p) ==
    /\ call[p].at = "releasing"
    /\ Opens
    /\ call' = [call EXCEPT ![p].at = "removing", ![p].owns = FALSE]
    /\ UNCHANGED <<cached, calls, seen>>

Unnamed == NoFile

\* The call returns the path, whatever is there.
Returns(p) ==
    /\ call[p].at = "removing"
    /\ name' = Unnamed
    /\ call' = [call EXCEPT ![p].at = "out", ![p].lock = NoFile,
                            ![p].got = IF ~cached.exists THEN "missing"
                                       ELSE IF cached.whole THEN "whole" ELSE "partial"]
    /\ UNCHANGED <<cached, calls, seen>>
-----------------------------------------------------------------------------
Crash(p) ==
    /\ Crashes /\ call[p].at \notin {"out", "dead"}
    /\ call' = [call EXCEPT ![p] = [Outside EXCEPT !.at = "dead"]]
    /\ cached' = [cached EXCEPT !.writers = @ \ {p}]
    /\ seen' = [seen EXCEPT !.crashed = TRUE]
    /\ UNCHANGED <<name, calls>>

\* clear_download_cache() takes no lock.
ClearCache ==
    /\ Clears /\ ~seen.cleared      \* bound: once
    /\ name' = NoFile
    /\ cached' = Absent
    /\ seen' = [seen EXCEPT !.cleared = TRUE]
    /\ UNCHANGED <<call, calls>>

Proceed(p) == \/ Locks(p) \/ Checks(p) \/ BeginsDownload(p) \/ EndsDownload(p)
              \/ FailsDownload(p) \/ Gives(p) \/ Releases(p) \/ Returns(p)

CacherNext ==
    \/ \E p \in Procs, force \in Forces, result \in GivesResult : Asks(p, force, result)
    \/ \E p \in Procs : Proceed(p)
    \/ \E p \in Procs : Crash(p)
    \/ ClearCache

CacherSpec == CacherInit /\ [][CacherNext]_cacherVars

\* A process that can go on does; a download ends, one way or the other.
CacherFairSpec == CacherSpec /\ \A p \in Procs : WF_cacherVars(Proceed(p))
-----------------------------------------------------------------------------
(* What it is for                                                          *)

Undisturbed == ~seen.failed /\ ~seen.crashed /\ ~seen.cleared /\ ~seen.forced

\* While no download fails, nobody is killed, forces an update or clears the
\* cache, a file that a call returned is whole, also if the call had to wait for
\* the process that fetched it and whose lock file is gone.
ReturnedIsWhole ==
    Undisturbed => \A p \in Procs : call[p].got \in {"nothing", "whole"}

\* And it was fetched once, however many processes asked for it at a time.
FetchedOnce == Undisturbed => seen.begun <= 1

\* No lock file is left behind once all calls are over and nobody was killed:
\* the two files the repository's caching test counts.
NoLockLeft ==
    (~seen.crashed /\ \A p \in Procs : call[p].at \in {"out", "dead"}) => name = NoFile

(* The inductive invariant.                                                *)

Inside(p) == call[p].at \notin {"out", "dead"}
Owning == {"checking", "download?", "downloading", "failed", "releasing"}

\* A process has a lock file open while it is in a call, owns its lock in the
\* middle of it, and shares the ownership of a lock file with nobody.
LockInv ==
    /\ \A p \in Procs : /\ (call[p].lock # NoFile) <=> Inside(p)
                        /\ call[p].owns <=> (call[p].at \in Owning)
    /\ \A p, q \in Procs :
          (call[p].owns /\ call[q].owns /\ call[p].lock = call[q].lock) => p = q

\* What is whole or written to exists.
CacheInv == (cached.whole \/ cached.writers # {}) => cached.exists

\* Until the file is whole, everybody in a call has the one lock file open whose
\* name there is, so that one process at most is past the lock; the file exists
\* from when that process begins to fetch it.  After that nobody fetches it.
FetchInv ==
    Undisturbed =>
        /\ seen.begun = IF cached.exists THEN 1 ELSE 0
        /\ \A p \in Procs : /\ call[p].at \notin {"failed", "dead"}
                            /\ (p \in cached.writers) <=> (call[p].at = "downloading")
                            /\ call[p].got \in {"nothing", "whole"}
        /\ cached.exists => \A p \in Procs : call[p].at # "download?"
        /\ cached.exists => (cached.whole <=> cached.writers = {})
        /\ ~cached.whole =>
              \A p \in Procs : /\ call[p].got = "nothing"
                               /\ Inside(p) => call[p].lock = name
                               /\ call[p].at \notin {"releasing", "removing"}

\* Locks, cache and calls fit together, whoever fails, is killed, forces an update
\* or clears the cache; what the calls leave follows.
CacherInv == CacherTypeOK /\ LockInv /\ CacheInv /\ FetchInv /\ ReturnedIsWhole /\ NoLockLeft

\* Whoever fails, is killed or clears the cache, a call ends: nobody waits for
\* the lock of a process that will never free it.
CallsReturn ==
    \A p \in Procs : call[p].at = "locking" ~> call[p].at \in {"out", "dead"}

\* "Download file is locked until the file has been downloaded and cached"
OneDownloadAtATime ==
    \A p, q \in Procs : (call[p].at = "downloading" /\ call[q].at = "downloading") => p = q

\* FORCE_UPDATE: "whether an already cached download should be re-downloaded and
\* cached".
ForcedIsFetched ==
    \A p \in Procs : (call[p].got # "nothing" /\ call[p].force /\ ~call[p].error)
                         => call[p].fetched

\* "check if plugin has already been downloaded and cached before": what a call
\* takes from the cache was downloaded to its end.
CachedWasDownloaded ==
    \A p \in Procs : (call[p].got # "nothing" /\ ~call[p].force /\ ~call[p].error)
                         => call[p].got # "partial"
=============================================================================
