----------------------------- MODULE CCacheStats -----------------------------
(***************************************************************************)
(* CCache/stats.c and cleanup.c: the counters of one subdirectory of the   *)
(* cache, which drivers update under a lock, and the cleanup that a driver *)
(* starts when the counters exceed the limits.                             *)
(*                                                                         *)
(* A cache has 16 such subdirectories (the first digit of the hash) that   *)
(* share nothing; one of them is modelled.  What a driver stores is a file *)
(* with a size in kilobytes; that it is done by a copy and a rename is the *)
(* business of module CCache.                                              *)
(***************************************************************************)
EXTENDS Integers, Sequences, SequencesExt, FiniteSets

CONSTANTS
    Proc,           \* processes: drivers, and "ccache -c" and the like
    Nobody,         \* holder of a free lock
    File,           \* the names that cached files of the subdirectory may have
    Size,           \* [File -> kilobytes]
    DefaultMax,     \* DEFAULT_MAXSIZE / 16, in kilobytes
    FLimits,        \* the arguments of -F, numbers of files of the whole cache
    MLimits,        \* the arguments of -M, kilobytes
    NoStats,        \* the processes that run with CCACHE_NOSTATS
    Faults,         \* may unlink(2) fail, a store break off, a process crash?
    MaxCount        \* bound: counters from which no further compile starts

ASSUME SizeAssumption == Size \in [File -> Nat \ {0}]
ASSUME LimitsAssumption ==
    /\ DefaultMax \in Nat
    /\ FLimits \subseteq Nat
    /\ MLimits \subseteq Nat
ASSUME ProcAssumption ==
    /\ Nobody \notin Proc
    /\ NoStats \subseteq Proc
    /\ Faults \in BOOLEAN
    /\ MaxCount \in Nat

VARIABLES
    dir,        \* the cached files, the least recently used (mtime) first
    stats,      \* the counters in the file "stats"
    lock,       \* the process that holds the lock on that file, or Nobody
    pc,         \* [Proc -> where the process is]
    job,        \* [Proc -> what the process wants to do to the counters]
    counters,   \* [Proc -> its counters[], read and changed but not written]
    batch,      \* [Proc -> files this compile put into the cache so far]
    files,      \* [Proc -> cleanup.c: files[i..], found and not yet treated]
    total,      \* [Proc -> cleanup.c: total_size, kilobytes of what is left]
    done        \* the updates that ended since the counters were zeroed

vars == <<dir, stats, lock, pc, job, counters, batch, files, total, done>>

\* A file of n kilobytes is n blocks, and the size of a list of files the number
\* of their blocks.
Blocks(f) == {f} \X (1 .. Size[f])
KB(fs) == Cardinality(UNION {Blocks(f) : f \in ToSet(fs)})

\* The counters; the two dozen for reasons not to cache are one, "errors".
Counters == [hits : Nat, misses : Nat, errors : Nat,
             numfiles : Nat, totalsize : Nat, maxfiles : Nat, maxsize : Nat]

\* memset(counters, 0), and stats_default() for a file that is not there or
\* empty
Default == [hits |-> 0, misses |-> 0, errors |-> 0, numfiles |-> 0,
            totalsize |-> 0, maxfiles |-> 0, maxsize |-> DefaultMax]

NoUpdates == [hits |-> 0, misses |-> 0, errors |-> 0]

Events == DOMAIN NoUpdates
Jobs == [kind : {"update"}, stat : Events, n : Nat, size : Nat]
        \cup [kind : {"sizes"}, n : Nat, size : Nat]
        \cup [kind : {"maxfiles", "maxsize"}, n : Nat]
        \cup [kind : {"zero"}]

Update(e, n, s) == [kind |-> "update", stat |-> e, n |-> n, size |-> s]
NoJob == [kind |-> "zero"]

Init ==
    /\ dir = <<>>
    /\ stats = Default
    /\ lock = Nobody
    /\ pc = [p \in Proc |-> "idle"]
    /\ job = [p \in Proc |-> NoJob]
    /\ counters = [p \in Proc |-> Default]
    /\ batch = [p \in Proc |-> <<>>]
    /\ files = [p \in Proc |-> <<>>]
    /\ total = [p \in Proc |-> 0]
    /\ done = NoUpdates

Goto(p, l) == pc' = [pc EXCEPT ![p] = l]
Want(p, j) == job' = [job EXCEPT ![p] = j]

\* stats_update_size(): nothing at all with CCACHE_NOSTATS
Count(p, e, n, s) ==
    IF p \in NoStats THEN Goto(p, "idle") /\ UNCHANGED job
    ELSE Goto(p, "lock") /\ Want(p, Update(e, n, s))

\* Bound: how long the histories are that are looked at.
MayCompile(p) ==
    /\ pc[p] = "idle"
    /\ \A e \in Events : stats[e] < MaxCount /\ done[e] < MaxCount
    /\ stats.numfiles < MaxCount

-----------------------------------------------------------------------------
(* Drivers. *)

\* from_cache(): x_utimes() makes the file the most recently used one
Hit(p) ==
    /\ MayCompile(p)
    /\ \E f \in ToSet(dir) : dir' = Append(RemoveFirst(dir, f), f)
    /\ Count(p, "hits", 0, 0)
    /\ UNCHANGED <<stats, lock, counters, batch, files, total, done>>

\* one commit of to_cache(), over an older file of that name or not
Store(p) ==
    /\ MayCompile(p) \/ pc[p] = "storing"
    /\ \E f \in File \ ToSet(batch[p]) :
          /\ dir' = Append(RemoveFirst(dir, f), f)
          /\ batch' = [batch EXCEPT ![p] = Append(@, f)]
    /\ Goto(p, "storing")
    /\ UNCHANGED <<stats, lock, job, counters, files, total, done>>

\* mutant of Tocache: the files of the compile are not counted
TocacheSizeOnly(p) ==
    /\ pc[p] = "storing"
    /\ Count(p, "misses", 0, KB(batch[p]))
    /\ batch' = [batch EXCEPT ![p] = <<>>]
    /\ UNCHANGED <<dir, stats, lock, counters, files, total, done>>

\* stats_tocache(): every file of the compile is in the cache
Tocache(p) ==
    /\ pc[p] = "storing"
    /\ Count(p, "misses", Len(batch[p]), KB(batch[p]))
    /\ batch' = [batch EXCEPT ![p] = <<>>]
    /\ UNCHANGED <<dir, stats, lock, counters, files, total, done>>

\* a later step of to_cache() fails: the files that it did put into the cache
\* stay there and are not counted
Broken(p) ==
    /\ Faults
    /\ pc[p] = "storing"
    /\ Count(p, "errors", 0, 0)
    /\ batch' = [batch EXCEPT ![p] = <<>>]
    /\ UNCHANGED <<dir, stats, lock, counters, files, total, done>>

-----------------------------------------------------------------------------
(* Changing the counters, under the lock. *)

Changed(c, j) ==
    CASE j.kind = "update" -> [c EXCEPT ![j.stat] = @ + 1,
                                        !.numfiles = @ + j.n,
                                        !.totalsize = @ + j.size]
      [] j.kind = "sizes"  -> [c EXCEPT !.numfiles = j.n, !.totalsize = j.size]
      [] j.kind = "maxfiles" -> [c EXCEPT !.maxfiles = j.n]
      [] j.kind = "maxsize"  -> [c EXCEPT !.maxsize = j.n]
      [] j.kind = "zero"   -> [c EXCEPT !.hits = 0, !.misses = 0, !.errors = 0]

\* mutant of Read: lock_fd() is not waited for
ReadUnlocked(p) ==
    /\ pc[p] = "lock"
    /\ lock' = p
    /\ counters' = [counters EXCEPT ![p] = Changed(stats, job[p])]
    /\ Goto(p, "write")
    /\ UNCHANGED <<dir, stats, job, batch, files, total, done>>

\* safe_open(), lock_fd(), stats_read_fd(), and the change in memory
Read(p) ==
    /\ pc[p] = "lock"
    /\ lock = Nobody
    /\ lock' = p
    /\ counters' = [counters EXCEPT ![p] = Changed(stats, job[p])]
    /\ Goto(p, "write")
    /\ UNCHANGED <<dir, stats, job, batch, files, total, done>>

Exceeded(c) ==
    \/ c.maxfiles # 0 /\ c.numfiles > c.maxfiles
    \/ c.maxsize # 0 /\ c.totalsize > c.maxsize

\* back in main(), or the end of the process: its memory goes
End(p) ==
    /\ Goto(p, "idle")
    /\ Want(p, NoJob)
    /\ counters' = [counters EXCEPT ![p] = Default]
    /\ batch' = [batch EXCEPT ![p] = <<>>]
    /\ files' = [files EXCEPT ![p] = <<>>]
    /\ total' = [total EXCEPT ![p] = 0]

\* mutant of Write: the file is not closed, so the lock is kept
WriteKeepsLock(p) ==
    /\ pc[p] = "write"
    /\ stats' = counters[p]
    /\ done' = IF job[p].kind = "update" THEN [done EXCEPT ![job[p].stat] = @ + 1]
               ELSE IF job[p].kind = "zero" THEN NoUpdates ELSE done
    /\ IF job[p].kind = "update" /\ Exceeded(counters[p])
       THEN Goto(p, "traverse") /\ UNCHANGED <<job, counters, batch, files, total>>
       ELSE End(p)
    /\ UNCHANGED <<dir, lock>>

\* write_stats() and close(), which gives the lock back; an update of a
\* driver goes on to the cleanup when a limit is exceeded
Write(p) ==
    /\ pc[p] = "write"
    /\ stats' = counters[p]
    /\ lock' = Nobody
    /\ done' = IF job[p].kind = "update" THEN [done EXCEPT ![job[p].stat] = @ + 1]
               ELSE IF job[p].kind = "zero" THEN NoUpdates ELSE done
    /\ IF job[p].kind = "update" /\ Exceeded(counters[p])
       THEN Goto(p, "traverse") /\ UNCHANGED <<job, counters, batch, files, total>>
       ELSE End(p)
    /\ UNCHANGED dir

-----------------------------------------------------------------------------
(* cleanup_dir() *)

\* mutants of Traverse: the sizes are not summed up; sorted in descending order
TraverseUnsized(p) ==
    /\ pc[p] = "traverse"
    /\ files' = [files EXCEPT ![p] = dir]
    /\ total' = [total EXCEPT ![p] = 0]
    /\ Goto(p, "clean")
    /\ UNCHANGED <<dir, stats, lock, job, counters, batch, done>>
TraverseNewestFirst(p) ==
    /\ pc[p] = "traverse"
    /\ files' = [files EXCEPT ![p] = Reverse(dir)]
    /\ total' = [total EXCEPT ![p] = KB(dir)]
    /\ Goto(p, "clean")
    /\ UNCHANGED <<dir, stats, lock, job, counters, batch, done>>

\* traverse() and qsort(): what is in the subdirectory now, by mtime
Traverse(p) ==
    /\ pc[p] = "traverse"
    /\ files' = [files EXCEPT ![p] = dir]
    /\ total' = [total EXCEPT ![p] = KB(dir)]
    /\ Goto(p, "clean")
    /\ UNCHANGED <<dir, stats, lock, job, counters, batch, done>>

\* LIMIT_MULTIPLE, 0.8, of a limit, as a size_t
Threshold(n) == (n * 4) \div 5

\* mutant of Enough: one limit is enough
EnoughOfOne(p) ==
    \/ Threshold(counters[p].maxsize) = 0
    \/ total[p] < Threshold(counters[p].maxsize)
    \/ Threshold(counters[p].maxfiles) = 0
    \/ Len(files[p]) < Threshold(counters[p].maxfiles)

\* where the loop of sort_and_clean() breaks
Enough(p) ==
    /\ \/ Threshold(counters[p].maxsize) = 0
       \/ total[p] < Threshold(counters[p].maxsize)
    /\ \/ Threshold(counters[p].maxfiles) = 0
       \/ Len(files[p]) < Threshold(counters[p].maxfiles)

\* One round of the loop.  A file that another process removed (ENOENT) counts
\* as removed, one that cannot be removed keeps its size but not its place.
CleanOne(p) ==
    /\ pc[p] = "clean"
    /\ files[p] # <<>> /\ ~Enough(p)
    /\ LET f == Head(files[p])
       IN  \/ /\ dir' = RemoveFirst(dir, f)
              /\ total' = [total EXCEPT ![p] = @ - Size[f]]
           \/ Faults /\ UNCHANGED <<dir, total>>
    /\ files' = [files EXCEPT ![p] = Tail(@)]
    /\ UNCHANGED <<stats, lock, pc, job, counters, batch, done>>

\* stats_set_sizes(): what the loop left
CleanEnd(p) ==
    /\ pc[p] = "clean"
    /\ files[p] = <<>> \/ Enough(p)
    /\ Want(p, [kind |-> "sizes", n |-> Len(files[p]), size |-> total[p]])
    /\ Goto(p, "lock")
    /\ UNCHANGED <<dir, stats, lock, counters, batch, files, total, done>>

-----------------------------------------------------------------------------
(* ccache -c, -C, -z, -F and -M, by whichever process is free. *)

\* cleanup_all(): stats_read() has the file open for reading only, so its
\* lock_fd() fails and the limits are read whoever holds the lock
CleanupAll(p) ==
    /\ pc[p] = "idle"
    /\ counters' = [counters EXCEPT ![p] = stats]
    /\ Goto(p, "traverse")
    /\ UNCHANGED <<dir, stats, lock, job, batch, files, total, done>>

\* wipe_all(): traverse() with wipe_fn(), then cleanup_all()
WipeAll(p) ==
    /\ pc[p] = "idle"
    /\ files' = [files EXCEPT ![p] = dir]
    /\ Goto(p, "wipe")
    /\ UNCHANGED <<dir, stats, lock, job, counters, batch, total, done>>

Wipe(p) ==
    /\ pc[p] = "wipe"
    /\ IF files[p] # <<>>
       THEN /\ dir' = RemoveFirst(dir, Head(files[p]))
            /\ files' = [files EXCEPT ![p] = Tail(@)]
            /\ UNCHANGED <<pc, counters>>
       ELSE /\ counters' = [counters EXCEPT ![p] = stats]
            /\ Goto(p, "traverse")
            /\ UNCHANGED <<dir, files>>
    /\ UNCHANGED <<stats, lock, job, batch, total, done>>

\* stats_zero() and stats_set_limits(), in this subdirectory
Command(p) ==
    /\ pc[p] = "idle"
    /\ \E j \in {[kind |-> "zero"]}
               \cup {[kind |-> "maxfiles", n |-> v \div 16] : v \in FLimits}
               \cup {[kind |-> "maxsize", n |-> v \div 16] : v \in MLimits} :
          Want(p, j)
    /\ Goto(p, "lock")
    /\ UNCHANGED <<dir, stats, lock, counters, batch, files, total, done>>

\* a process is killed; the system closes its files
Crash(p) ==
    /\ Faults
    /\ pc[p] # "idle"
    /\ End(p)
    /\ lock' = IF lock = p THEN Nobody ELSE lock
    /\ UNCHANGED <<dir, stats, done>>

Run(p) ==
    \/ Tocache(p) \/ Broken(p) \/ Write(p)
    \/ Traverse(p) \/ CleanOne(p) \/ CleanEnd(p) \/ Wipe(p)

Start(p) == Hit(p) \/ Store(p) \/ CleanupAll(p) \/ WipeAll(p) \/ Command(p)

Next == \E p \in Proc : Run(p) \/ Read(p) \/ Start(p) \/ Crash(p)

\* The system runs every process and lets those that wait for a lock (F_SETLKW)
\* have it in turn.
Fairness == \A p \in Proc : WF_vars(Run(p)) /\ SF_vars(Read(p))

Spec == Init /\ [][Next]_vars /\ Fairness

-----------------------------------------------------------------------------
(* Properties. *)

IsDir(d) == d \in Seq(File) /\ IsInjective(d)

TypeOK ==
    /\ IsDir(dir)
    /\ stats \in Counters
    /\ lock \in Proc \cup {Nobody}
    /\ pc \in [Proc -> {"idle", "storing", "lock", "write", "traverse", "clean",
                         "wipe"}]
    /\ job \in [Proc -> Jobs]
    /\ counters \in [Proc -> Counters]
    /\ batch \in [Proc -> Seq(File)] /\ files \in [Proc -> Seq(File)]
    /\ \A p \in Proc : IsInjective(batch[p]) /\ IsInjective(files[p])
    /\ total \in [Proc -> Nat]
    /\ done \in [Events -> Nat]

\* README and "ccache -s": hits and misses are counted, each exactly once,
\* while other drivers, cleanups, -z, -F and -M rewrite the same file with
\* counters that they read before.
EveryUpdateCounts == \A e \in Events : stats[e] = done[e]

\* When nothing runs, the counters know of at least what is there, so that
\* the limits are noticed.  (They may know of more: a file that was stored
\* twice counts twice until the next cleanup.)
SizesCoverFiles ==
    (\A p \in Proc : pc[p] = "idle") =>
        stats.numfiles >= Len(dir) /\ stats.totalsize >= KB(dir)

Fits(d, c) ==
    /\ c.maxfiles # 0 => Len(d) <= c.maxfiles
    /\ c.maxsize # 0 => KB(d) <= c.maxsize

\* ccache.yo: "ccache keeps the cache below the specified limits at runtime".
\* A driver that updates the counters leaves the subdirectory within the
\* limits, those that were lowered since the last compile included.
KeepsBelowLimits ==
    [][\A p \in Proc :
          pc[p] = "write" /\ pc'[p] = "idle" /\ job[p].kind \in {"update", "sizes"}
          => Fits(dir, stats')]_vars

\* A cleanup takes what was not used for longest: nothing older stays.
OldestFirst ==
    [][\A p \in Proc : pc[p] = "clean" /\ dir' # dir => dir' = Tail(dir)]_vars

\* Every process ends: it gets the lock, and the loops over the files end.
EveryProcessEnds == \A p \in Proc : pc[p] # "idle" ~> pc[p] = "idle"
=============================================================================
