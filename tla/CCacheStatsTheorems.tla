------------------------- MODULE CCacheStatsTheorems -------------------------
(***************************************************************************)
(* The counters of the cache: no update is lost, for any number of         *)
(* processes; and, where processes take turns, the totals cover the files, *)
(* the limits are kept and the oldest files go first.                      *)
(*                                                                         *)
(* The first argument is the lock's: whoever is about to write read what   *)
(* is still in the file.  The second is about what a process knows of the  *)
(* directory at each of its steps, from the lists it took and its counts.  *)
(***************************************************************************)
EXTENDS CCacheStats, FiniteSetTheorems, TLAPS

Fields == {"hits", "misses", "errors", "numfiles", "totalsize", "maxfiles", "maxsize"}

IsCounters(c) ==
    /\ c = [x \in Fields |-> c[x]]
    /\ \A e \in Events : c[e] \in Nat

IsJob(j) ==
    /\ j.kind \in {"update", "sizes", "maxfiles", "maxsize", "zero"}
    /\ j.kind = "update" => j.stat \in Events

\* What a job makes of the number of an event.
After(n, j, e) == IF j.kind = "update" /\ j.stat = e THEN n + 1
                  ELSE IF j.kind = "zero" THEN 0 ELSE n

Types ==
    /\ IsCounters(stats)
    /\ pc = [p \in Proc |-> pc[p]]
    /\ job = [p \in Proc |-> job[p]]
    /\ counters = [p \in Proc |-> counters[p]]
    /\ \A p \in Proc : IsJob(job[p])
    /\ done \in [Events -> Nat]

\* The holder of the lock knows the file, and only the holder writes.
Locked ==
    \A p \in Proc : pc[p] = "write" =>
        lock = p /\ counters[p] = Changed(stats, job[p])

LockInv == Types /\ Locked /\ EveryUpdateCounts

-----------------------------------------------------------------------------
LEMMA EventsAre == Events = {"hits", "misses", "errors"}
  BY DEF Events, NoUpdates

\* Whatever a job does to the sizes and limits, it counts its event.
LEMMA ChangedCounts ==
    ASSUME NEW c, IsCounters(c), NEW j, IsJob(j)
    PROVE  /\ IsCounters(Changed(c, j))
           /\ \A e \in Events : Changed(c, j)[e] = After(c[e], j, e)
  <1>1. CASE j.kind = "update"
    <2>1. PICK n, s : Changed(c, j) = [c EXCEPT ![j.stat] = @ + 1,
                                                !.numfiles = n, !.totalsize = s]
      BY <1>1 DEF Changed
    <2>2. j.stat \in Events
      BY <1>1 DEF IsJob
    <2> DEFINE d == Changed(c, j)
               i == [c EXCEPT ![j.stat] = @ + 1]
    <2>3. /\ i = [x \in Fields |-> i[x]]
          /\ \A x \in Fields : i[x] = IF x = j.stat THEN c[x] + 1 ELSE c[x]
      BY <2>2, EventsAre DEF IsCounters, Fields
    <2>4. d = [[i EXCEPT !.numfiles = n] EXCEPT !.totalsize = s]
      BY <2>1
    <2> HIDE DEF d, i
    <2>5. /\ d = [x \in Fields |-> d[x]]
          /\ \A e \in Events : d[e] = i[e]
      BY <2>3, <2>4, EventsAre DEF Fields
    <2>6. \A e \in Events : d[e] = After(c[e], j, e) /\ d[e] \in Nat
      BY <1>1, <2>3, <2>5, EventsAre DEF After, IsCounters, Fields
    <2> QED BY <2>5, <2>6 DEF d, IsCounters
  <1>2. CASE j.kind = "sizes"
    BY <1>2, EventsAre DEF Changed, IsCounters, Fields, After
  <1>3. CASE j.kind = "maxfiles"
    BY <1>3, EventsAre DEF Changed, IsCounters, Fields, After
  <1>4. CASE j.kind = "maxsize"
    BY <1>4, EventsAre DEF Changed, IsCounters, Fields, After
  <1>5. CASE j.kind = "zero"
    BY <1>5, EventsAre DEF Changed, IsCounters, Fields, After
  <1> QED BY <1>1, <1>2, <1>3, <1>4, <1>5 DEF IsJob

LEMMA InitLockInv == Init => LockInv
  BY EventsAre DEF Init, LockInv, Types, Locked, EveryUpdateCounts, IsCounters, IsJob,
     Default, NoUpdates, NoJob, Fields

\* Steps that leave the counters and the lock alone, and do not write next.
LEMMA AsideStep ==
    ASSUME LockInv, NEW p \in Proc, UNCHANGED <<stats, lock, done>>,
           \E l : l # "write" /\ pc' = [pc EXCEPT ![p] = l],
           job' = job \/ \E j : IsJob(j) /\ job' = [job EXCEPT ![p] = j],
           counters' = counters \/ \E c : counters' = [counters EXCEPT ![p] = c]
    PROVE  LockInv'
  <1>1. \A q \in Proc \ {p} : pc'[q] = pc[q] /\ job'[q] = job[q] /\ counters'[q] = counters[q]
    BY DEF LockInv, Types
  <1>2. pc'[p] # "write" /\ IsJob(job'[p])
    BY DEF LockInv, Types
  <1>3. Types'
    BY <1>1, <1>2 DEF LockInv, Types
  <1>4. Locked'
    BY <1>1, <1>2 DEF LockInv, Locked
  <1> QED BY <1>3, <1>4 DEF LockInv, EveryUpdateCounts

LEMMA ReadStep ==
    ASSUME LockInv, NEW p \in Proc, Read(p)
    PROVE  LockInv'
  <1>1. /\ lock = Nobody /\ lock' = p /\ UNCHANGED <<stats, job, done>>
        /\ counters' = [counters EXCEPT ![p] = Changed(stats, job[p])]
        /\ pc' = [pc EXCEPT ![p] = "write"]
    BY DEF Read, Goto
  <1>2. \A q \in Proc : pc[q] # "write"
    BY <1>1, ProcAssumption DEF LockInv, Locked
  <1>3. \A q \in Proc \ {p} : pc'[q] = pc[q]
    BY <1>1 DEF LockInv, Types
  <1>4. counters'[p] = Changed(stats, job[p])
    BY <1>1 DEF LockInv, Types
  <1>5. Types'
    BY <1>1 DEF LockInv, Types
  <1>6. Locked'
    BY <1>1, <1>2, <1>3, <1>4 DEF Locked
  <1> QED BY <1>1, <1>5, <1>6 DEF LockInv, EveryUpdateCounts

LEMMA WriteStep ==
    ASSUME LockInv, NEW p \in Proc, Write(p)
    PROVE  LockInv'
  <1>1. /\ pc[p] = "write" /\ stats' = counters[p]
        /\ done' = IF job[p].kind = "update" THEN [done EXCEPT ![job[p].stat] = @ + 1]
                   ELSE IF job[p].kind = "zero" THEN NoUpdates ELSE done
        /\ \E l \in {"traverse", "idle"} : pc' = [pc EXCEPT ![p] = l]
        /\ job' = job \/ job' = [job EXCEPT ![p] = NoJob]
        /\ counters' = counters \/ counters' = [counters EXCEPT ![p] = Default]
    BY DEF Write, End, Goto, Want
  <1>2. IsJob(job[p]) /\ IsCounters(stats) /\ IsJob(NoJob) /\ done \in [Events -> Nat]
    BY DEF LockInv, Types, IsJob, NoJob
  <1>3. stats' = Changed(stats, job[p]) /\ lock = p
    BY <1>1 DEF LockInv, Locked
  <1>4. IsCounters(stats') /\ \A e \in Events : stats'[e] = After(stats[e], job[p], e)
    BY <1>2, <1>3, ChangedCounts
  <1>5. done' \in [Events -> Nat] /\ \A e \in Events : done'[e] = After(done[e], job[p], e)
    <2>1. NoUpdates \in [Events -> Nat] /\ \A e \in Events : NoUpdates[e] = 0
      BY EventsAre DEF NoUpdates
    <2> QED BY <1>1, <1>2, <2>1 DEF After, IsJob
  <1>6. EveryUpdateCounts'
    BY <1>4, <1>5 DEF LockInv, EveryUpdateCounts
  <1>7. Types'
    BY <1>1, <1>2, <1>4, <1>5 DEF LockInv, Types
  <1>8. Locked'
    <2>1. \A q \in Proc \ {p} : pc'[q] = pc[q] /\ pc[q] # "write"
      BY <1>1, <1>3 DEF LockInv, Types, Locked
    <2>2. pc'[p] # "write"
      BY <1>1 DEF LockInv, Types
    <2> QED BY <2>1, <2>2 DEF Locked
  <1> QED BY <1>6, <1>7, <1>8 DEF LockInv

LEMMA CrashStep ==
    ASSUME LockInv, NEW p \in Proc, Crash(p)
    PROVE  LockInv'
  <1>1. /\ pc' = [pc EXCEPT ![p] = "idle"] /\ job' = [job EXCEPT ![p] = NoJob]
        /\ counters' = [counters EXCEPT ![p] = Default]
        /\ lock' = (IF lock = p THEN Nobody ELSE lock) /\ UNCHANGED <<stats, done>>
    BY DEF Crash, End, Goto, Want
  <1>2. IsJob(NoJob)
    BY DEF IsJob, NoJob
  <1>3. \A q \in Proc \ {p} : pc'[q] = pc[q] /\ job'[q] = job[q] /\ counters'[q] = counters[q]
    BY <1>1 DEF LockInv, Types
  <1>4. pc'[p] # "write"
    BY <1>1 DEF LockInv, Types
  <1>5. Types'
    BY <1>1, <1>2 DEF LockInv, Types
  <1>6. Locked'
    BY <1>1, <1>3, <1>4 DEF LockInv, Locked
  <1> QED BY <1>1, <1>5, <1>6 DEF LockInv, EveryUpdateCounts

LEMMA NextLockInv ==
    ASSUME LockInv, [Next]_vars
    PROVE  LockInv'
  <1>1. ASSUME NEW p \in Proc, Run(p) \/ Start(p), ~Write(p)
        PROVE  LockInv'
    <2>1. UNCHANGED <<stats, lock, done>>
      BY <1>1 DEF Run, Start, Tocache, Broken, Traverse, CleanOne, CleanEnd, Wipe,
                  Hit, Store, CleanupAll, WipeAll, Command
    <2>2. \E l : l # "write" /\ pc' = [pc EXCEPT ![p] = l]
      <3>1. CASE CleanOne(p) \/ (Wipe(p) /\ files[p] # <<>>)
        <4>1. pc' = [pc EXCEPT ![p] = pc[p]] /\ pc[p] # "write"
          BY <3>1 DEF CleanOne, Wipe, LockInv, Types
        <4> QED BY <4>1
      <3>2. CASE ~CleanOne(p) /\ ~(Wipe(p) /\ files[p] # <<>>)
        BY <1>1, <3>2 DEF Run, Start, Tocache, Broken, Traverse, CleanEnd, Wipe, Hit,
                          Store, CleanupAll, WipeAll, Command, Goto, Count
      <3> QED BY <3>1, <3>2
    <2>3. job' = job \/ \E j : IsJob(j) /\ job' = [job EXCEPT ![p] = j]
      BY <1>1, EventsAre DEF Run, Start, Tocache, Broken, Traverse, CleanOne, CleanEnd, Wipe,
                  Hit, Store, CleanupAll, WipeAll, Command, Want, Count, IsJob, Update
    <2>4. counters' = counters \/ \E c : counters' = [counters EXCEPT ![p] = c]
      BY <1>1 DEF Run, Start, Tocache, Broken, Traverse, CleanOne, CleanEnd, Wipe,
                  Hit, Store, CleanupAll, WipeAll, Command
    <2> QED BY <2>1, <2>2, <2>3, <2>4, AsideStep
  <1>2. CASE UNCHANGED vars
    BY <1>2 DEF vars, LockInv, Types, Locked, EveryUpdateCounts
  <1> QED BY <1>1, <1>2, ReadStep, WriteStep, CrashStep DEF Next, Run

\* stats_update(), stats_set_sizes(), stats_zero() and stats_set_limits() all
\* rewrite the whole file; each compile is nevertheless counted exactly once.
THEOREM EveryCompileCounted == Spec => []EveryUpdateCounts
  <1>1. Init => LockInv
    BY InitLockInv
  <1>2. LockInv /\ [Next]_vars => LockInv'
    BY NextLockInv
  <1>3. LockInv => EveryUpdateCounts
    BY DEF LockInv
  <1> QED BY <1>1, <1>2, <1>3, PTL DEF Spec

-----------------------------------------------------------------------------
(* Lists of files without repetition, and their sizes. *)

BlocksOf(S) == UNION {Blocks(f) : f \in S}

LEMMA FilesOfList ==
    ASSUME NEW d, IsDir(d)
    PROVE  /\ ToSet(d) \subseteq File /\ IsFiniteSet(ToSet(d))
           /\ Len(d) \in Nat /\ DOMAIN d = 1 .. Len(d)
           /\ KB(d) = Cardinality(BlocksOf(ToSet(d)))
  <1>1. ToSet(d) = {d[i] : i \in 1 .. Len(d)} /\ DOMAIN d = 1 .. Len(d) /\ Len(d) \in Nat
    BY DEF IsDir, ToSet
  <1>2. IsFiniteSet(1 .. Len(d))
    BY <1>1, FS_Interval
  <1> DEFINE g == [i \in 1 .. Len(d) |-> d[i]]
  <1>3. g \in Surjection(1 .. Len(d), ToSet(d))
    BY <1>1 DEF Surjection
  <1>4. IsFiniteSet(ToSet(d))
    BY <1>2, <1>3, FS_Surjection
  <1> QED BY <1>1, <1>4 DEF IsDir, KB, BlocksOf

LEMMA SizeOfFiles ==
    ASSUME NEW S \in SUBSET File, IsFiniteSet(S)
    PROVE  IsFiniteSet(BlocksOf(S)) /\ Cardinality(BlocksOf(S)) \in Nat
  <1> DEFINE B == {Blocks(f) : f \in S}
             g == [f \in S |-> Blocks(f)]
  <1>1. g \in Surjection(S, B)
    BY DEF Surjection
  <1>2. IsFiniteSet(B)
    BY <1>1, FS_Surjection
  <1>3. ASSUME NEW f \in S PROVE IsFiniteSet(Blocks(f))
    <2>1. IsFiniteSet(1 .. Size[f])
      BY FS_Interval, SizeAssumption
    <2>2. IsFiniteSet({f})
      BY FS_Singleton
    <2> QED BY <2>1, <2>2, FS_Product DEF Blocks
  <1>4. IsFiniteSet(UNION B)
    BY <1>2, <1>3, FS_UNION
  <1> QED BY <1>4, FS_CardinalityType DEF BlocksOf

LEMMA SizeOfOneMore ==
    ASSUME NEW S \in SUBSET File, IsFiniteSet(S), NEW f \in File, f \notin S
    PROVE  Cardinality(BlocksOf(S \cup {f})) = Cardinality(BlocksOf(S)) + Size[f]
  <1>1. Size[f] \in Nat
    BY SizeAssumption
  <1>2. IsFiniteSet(Blocks(f)) /\ Cardinality(Blocks(f)) = Size[f]
    <2>1. IsFiniteSet(1 .. Size[f]) /\ Cardinality(1 .. Size[f]) = Size[f]
      BY <1>1, FS_Interval, SMTT(30)
    <2>2. IsFiniteSet({f}) /\ Cardinality({f}) = 1
      BY FS_Singleton
    <2>3. /\ IsFiniteSet({f} \X (1 .. Size[f]))
          /\ Cardinality({f} \X (1 .. Size[f])) = Cardinality({f}) * Cardinality(1 .. Size[f])
      BY ONLY <2>1, <2>2, FS_Product, ZenonT(60)
    <2>4. 1 * Size[f] = Size[f]
      BY <1>1
    <2> QED BY ONLY <2>1, <2>2, <2>3, <2>4 DEF Blocks
  <1>3. IsFiniteSet(BlocksOf(S)) /\ Cardinality(BlocksOf(S)) \in Nat
    BY SizeOfFiles
  <1>4. BlocksOf(S \cup {f}) = BlocksOf(S) \cup Blocks(f)
    BY DEF BlocksOf
  <1>5. BlocksOf(S) \cap Blocks(f) = {}
    BY DEF BlocksOf, Blocks
  <1>6. Cardinality(BlocksOf(S) \cap Blocks(f)) = 0
    BY <1>5, FS_EmptySet
  <1>7. Cardinality(BlocksOf(S) \cup Blocks(f))
        = Cardinality(BlocksOf(S)) + Cardinality(Blocks(f)) - Cardinality(BlocksOf(S) \cap Blocks(f))
    BY <1>2, <1>3, FS_Union
  <1>8. Cardinality(BlocksOf(S) \cup Blocks(f)) = Cardinality(BlocksOf(S)) + Size[f]
    BY <1>1, <1>2, <1>3, <1>6, <1>7
  <1> QED BY <1>4, <1>8

LEMMA SizeOfFewer ==
    ASSUME NEW S \in SUBSET File, IsFiniteSet(S), NEW T \in SUBSET S
    PROVE  Cardinality(BlocksOf(T)) <= Cardinality(BlocksOf(S))
  <1>1. BlocksOf(T) \subseteq BlocksOf(S)
    BY DEF BlocksOf
  <1> QED BY <1>1, SizeOfFiles, FS_Subset

LEMMA EmptyList ==
    IsDir(<<>>) /\ Len(<<>>) = 0 /\ KB(<<>>) = 0 /\ ToSet(<<>>) = {}
  <1>1. ToSet(<<>>) = {} /\ IsDir(<<>>) /\ Len(<<>>) = 0
    BY DEF ToSet, IsDir, IsInjective
  <1> QED BY <1>1, FS_EmptySet DEF KB

LEMMA ListSize == ASSUME NEW d, IsDir(d) PROVE KB(d) \in Nat
  BY FilesOfList, SizeOfFiles

\* a file more
LEMMA Longer ==
    ASSUME NEW d, IsDir(d), NEW f \in File, f \notin ToSet(d)
    PROVE  /\ IsDir(Append(d, f)) /\ Len(Append(d, f)) = Len(d) + 1
           /\ ToSet(Append(d, f)) = ToSet(d) \cup {f}
           /\ KB(Append(d, f)) = KB(d) + Size[f]
  <1> DEFINE a == Append(d, f)
  <1>1. d \in Seq(File) /\ a \in Seq(File) /\ Len(a) = Len(d) + 1 /\ DOMAIN a = 1 .. Len(d) + 1
        /\ a[Len(d) + 1] = f /\ \A i \in 1 .. Len(d) : a[i] = d[i]
    BY DEF IsDir
  <1> HIDE DEF a
  <1>2. Len(d) \in Nat /\ DOMAIN d = 1 .. Len(d)
    BY FilesOfList
  <1>3. \A i \in DOMAIN d : d[i] # f
    BY DEF ToSet
  <1>4. IsDir(a)
    BY <1>1, <1>2, <1>3 DEF IsDir, IsInjective
  <1>5. ToSet(a) = ToSet(d) \cup {f}
    BY <1>1, <1>2 DEF ToSet
  <1>6. KB(a) = KB(d) + Size[f]
    BY <1>4, <1>5, FilesOfList, SizeOfOneMore
  <1> QED BY <1>1, <1>4, <1>5, <1>6 DEF a

\* the first file taken off
LEMMA TailOfList ==
    ASSUME NEW d, IsDir(d), d # <<>>
    PROVE  /\ IsDir(Tail(d)) /\ Len(Tail(d)) = Len(d) - 1 /\ Head(d) \in ToSet(d)
           /\ ToSet(Tail(d)) = ToSet(d) \ {Head(d)}
           /\ KB(d) = KB(Tail(d)) + Size[Head(d)]
  <1> DEFINE t == Tail(d)
  <1>1. /\ d \in Seq(File) /\ t \in Seq(File) /\ Len(t) = Len(d) - 1 /\ DOMAIN t = 1 .. Len(d) - 1
        /\ Head(d) = d[1] /\ \A i \in 1 .. Len(d) - 1 : t[i] = d[i + 1]
        /\ Len(d) \in Nat /\ Len(d) # 0 /\ DOMAIN d = 1 .. Len(d)
    BY DEF IsDir
  <1> HIDE DEF t
  <1>2. \A i, j \in 1 .. Len(d) : d[i] = d[j] => i = j
    BY <1>1 DEF IsDir, IsInjective
  <1>3. IsDir(t)
    BY <1>1, <1>2 DEF IsDir, IsInjective
  <1>4. Head(d) \in ToSet(d) /\ Head(d) \in File
    BY <1>1 DEF ToSet
  <1>5. ToSet(t) = ToSet(d) \ {Head(d)}
    <2>1. \A x \in ToSet(t) : x \in ToSet(d) /\ x # Head(d)
      BY <1>1, <1>2 DEF ToSet
    <2>2. ASSUME NEW x \in ToSet(d), x # Head(d)
          PROVE  x \in ToSet(t)
      <3>1. PICK i \in 1 .. Len(d) : d[i] = x
        BY <1>1 DEF ToSet
      <3>2. i - 1 \in 1 .. Len(d) - 1 /\ t[i - 1] = x
        BY <1>1, <2>2, <3>1
      <3> QED BY <1>1, <3>2 DEF ToSet
    <2> QED BY <2>1, <2>2
  <1>6. ToSet(d) = ToSet(t) \cup {Head(d)} /\ Head(d) \notin ToSet(t)
    BY <1>4, <1>5
  <1>7. KB(d) = KB(t) + Size[Head(d)]
    BY <1>3, <1>4, <1>6, FilesOfList, SizeOfOneMore
  <1> QED BY <1>1, <1>3, <1>4, <1>5, <1>7 DEF t

\* a file taken out, wherever it stands
LEMMA Behind ==
    ASSUME NEW S, NEW d \in Seq(S), NEW k \in 1 .. Len(d)
    PROVE  LET b == SubSeq(d, k + 1, Len(d))
           IN  b \in Seq(S) /\ Len(b) = Len(d) - k /\ \A i \in 1 .. Len(d) - k : b[i] = d[i + k]
  <1> DEFINE b == SubSeq(d, k + 1, Len(d))
  <1>1. Len(b) = Len(d) - k
    OBVIOUS
  <1>2. b \in Seq(S)
    OBVIOUS
  <1>3. ASSUME NEW i \in 1 .. Len(d) - k
        PROVE  b[i] = d[i + k]
    <2>1. i \in 1 .. Len(d) - (k + 1) + 1 /\ (k + 1) + i - 1 = i + k
      OBVIOUS
    <2> QED BY <2>1
  <1> QED BY <1>1, <1>2, <1>3

LEMMA Joined ==
    ASSUME NEW S, NEW a \in Seq(S), NEW b \in Seq(S)
    PROVE  /\ a \o b \in Seq(S) /\ Len(a \o b) = Len(a) + Len(b)
           /\ DOMAIN (a \o b) = 1 .. Len(a) + Len(b)
           /\ \A i \in 1 .. Len(a) + Len(b) :
                 (a \o b)[i] = IF i <= Len(a) THEN a[i] ELSE b[i - Len(a)]
  OBVIOUS

LEMMA WithoutOne ==
    ASSUME NEW S, NEW d \in Seq(S), NEW k \in 1 .. Len(d)
    PROVE  LET r == RemoveAt(d, k)
           IN  /\ r \in Seq(S) /\ Len(r) = Len(d) - 1 /\ DOMAIN r = 1 .. Len(d) - 1
               /\ \A i \in 1 .. Len(d) - 1 : r[i] = IF i < k THEN d[i] ELSE d[i + 1]
  <1> DEFINE a == SubSeq(d, 1, k - 1)
             b == SubSeq(d, k + 1, Len(d))
  <1>1. a \in Seq(S) /\ Len(a) = k - 1 /\ \A i \in 1 .. k - 1 : a[i] = d[i]
    OBVIOUS
  <1>2. b \in Seq(S) /\ Len(b) = Len(d) - k /\ \A i \in 1 .. Len(d) - k : b[i] = d[i + k]
    BY Behind
  <1>3. Len(d) \in Nat /\ k \in Nat /\ k <= Len(d) /\ k >= 1
    OBVIOUS
  <1> HIDE DEF a, b
  <1> DEFINE c == a \o b
  <1>4. Len(a) + Len(b) = Len(d) - 1
    BY <1>1, <1>2, <1>3
  <1>5. /\ c \in Seq(S) /\ Len(c) = Len(d) - 1 /\ DOMAIN c = 1 .. Len(d) - 1
        /\ \A i \in 1 .. Len(d) - 1 : c[i] = IF i <= Len(a) THEN a[i] ELSE b[i - Len(a)]
    <2>1. /\ c \in Seq(S) /\ Len(c) = Len(a) + Len(b) /\ DOMAIN c = 1 .. Len(a) + Len(b)
          /\ \A i \in 1 .. Len(a) + Len(b) : c[i] = IF i <= Len(a) THEN a[i] ELSE b[i - Len(a)]
      BY <1>1, <1>2, Joined
    <2> QED BY <2>1, <1>4
  <1> HIDE DEF c
  <1>6. \A i \in 1 .. Len(d) - 1 : c[i] = IF i < k THEN d[i] ELSE d[i + 1]
    <2> TAKE i \in 1 .. Len(d) - 1
    <2>1. CASE i < k
      BY <1>1, <1>3, <1>5, <2>1
    <2>2. CASE i >= k
      <3>1. ~(i <= k - 1) /\ i - (k - 1) \in 1 .. Len(d) - k /\ i - (k - 1) + k = i + 1
        BY <1>3, <2>2
      <3>2. c[i] = b[i - (k - 1)]
        BY <1>1, <1>5, <3>1
      <3>3. b[i - (k - 1)] = d[i + 1]
        BY <1>2, <3>1
      <3>4. ~(i < k)
        BY <1>3, <2>2
      <3> QED BY <3>2, <3>3, <3>4
    <2> QED BY <1>3, <2>1, <2>2
  <1> QED BY <1>5, <1>6 DEF RemoveAt, a, b, c

LEMMA PlaceOf ==
    ASSUME NEW d, IsDir(d), NEW f \in ToSet(d)
    PROVE  \E i \in 1 .. Len(d) : d[i] = f /\ RemoveFirst(d, f) = RemoveAt(d, i)
  <1> DEFINE I == {i \in 1 .. Len(d) : d[i] = f}
  <1>1. PICK i \in 1 .. Len(d) : d[i] = f
    BY FilesOfList DEF ToSet
  <1>2. \A j \in 1 .. Len(d) : d[j] = f => j = i
    BY <1>1, FilesOfList DEF IsDir, IsInjective
  <1>3. I = {i} /\ i \in Nat
    BY <1>1, <1>2
  <1>4. Min({i}) = i
    BY <1>3 DEF Min
  <1>5. SelectInSeq(d, LAMBDA v : v = f) = i
    BY <1>3, <1>4 DEF SelectInSeq
  <1> QED BY <1>1, <1>5 DEF RemoveFirst

LEMMA TakenOut ==
    ASSUME NEW d, IsDir(d), NEW f
    PROVE  /\ IsDir(RemoveFirst(d, f))
           /\ Len(RemoveFirst(d, f)) = IF f \in ToSet(d) THEN Len(d) - 1 ELSE Len(d)
           /\ ToSet(RemoveFirst(d, f)) = ToSet(d) \ {f}
  <1>1. CASE f \notin ToSet(d)
    <2>1. ~ \E i \in 1 .. Len(d) : d[i] = f
      BY <1>1, FilesOfList DEF ToSet
    <2>2. RemoveFirst(d, f) = d
      BY <2>1 DEF RemoveFirst
    <2> QED BY <1>1, <2>2
  <1>2. CASE f \in ToSet(d)
    <2>1. PICK k \in 1 .. Len(d) : d[k] = f /\ RemoveFirst(d, f) = RemoveAt(d, k)
      BY <1>2, PlaceOf
    <2> DEFINE r == SubSeq(d, 1, k - 1) \o SubSeq(d, k + 1, Len(d))
    <2>2. /\ d \in Seq(File) /\ Len(d) \in Nat /\ DOMAIN d = 1 .. Len(d)
          /\ \A i, j \in 1 .. Len(d) : d[i] = d[j] => i = j
      BY FilesOfList DEF IsDir, IsInjective
    <2>3. /\ r \in Seq(File) /\ Len(r) = Len(d) - 1 /\ DOMAIN r = 1 .. Len(d) - 1
          /\ \A i \in 1 .. Len(d) - 1 : r[i] = IF i < k THEN d[i] ELSE d[i + 1]
      BY <2>1, <2>2, WithoutOne DEF RemoveAt
    <2> HIDE DEF r
    <2>4. IsDir(r)
      BY <2>2, <2>3 DEF IsDir, IsInjective
    <2>5. ToSet(r) = {d[i] : i \in (1 .. Len(d)) \ {k}}
      <3>1. \A i \in (1 .. Len(d)) \ {k} : \E j \in 1 .. Len(d) - 1 : r[j] = d[i]
        <4> TAKE i \in (1 .. Len(d)) \ {k}
        <4>1. CASE i < k
          BY <2>2, <2>3, <4>1
        <4>2. CASE i > k
          <5>1. i - 1 \in 1 .. Len(d) - 1 /\ r[i - 1] = d[i]
            BY <2>1, <2>2, <2>3, <4>2
          <5> QED BY <5>1
        <4> QED BY <4>1, <4>2, <2>1
      <3>2. \A j \in 1 .. Len(d) - 1 : \E i \in (1 .. Len(d)) \ {k} : r[j] = d[i]
        <4> TAKE j \in 1 .. Len(d) - 1
        <4>1. CASE j < k
          BY <2>2, <2>3, <4>1
        <4>2. CASE j >= k
          <5>1. j + 1 \in (1 .. Len(d)) \ {k} /\ r[j] = d[j + 1]
            BY <2>1, <2>2, <2>3, <4>2
          <5> HIDE DEF r
          <5> QED BY ONLY <5>1, Zenon
        <4> QED BY <4>1, <4>2, <2>1
      <3>3. ToSet(r) = {r[j] : j \in 1 .. Len(d) - 1}
        BY <2>3 DEF ToSet
      <3> HIDE DEF r
      <3> DEFINE S == {d[i] : i \in (1 .. Len(d)) \ {k}}
      <3>4. \A j \in 1 .. Len(d) - 1 : r[j] \in S
        BY ONLY <3>2
      <3>5. \A i \in (1 .. Len(d)) \ {k} : d[i] \in {r[j] : j \in 1 .. Len(d) - 1}
        BY ONLY <3>1
      <3>6. {r[j] : j \in 1 .. Len(d) - 1} \subseteq S
        <4> HIDE DEF S
        <4> QED BY ONLY <3>4
      <3>7. S \subseteq {r[j] : j \in 1 .. Len(d) - 1}
        BY ONLY <3>5
      <3> HIDE DEF S
      <3>8. ToSet(r) = S
        BY ONLY <3>3, <3>6, <3>7
      <3> QED BY <3>8 DEF S
    <2>6. ToSet(d) \ {f} = {d[i] : i \in (1 .. Len(d)) \ {k}}
      BY <2>1, <2>2 DEF ToSet
    <2> QED BY <1>2, <2>1, <2>3, <2>4, <2>5, <2>6 DEF RemoveAt, r
  <1> QED BY <1>1, <1>2

LEMMA OldestTakenOut ==
    ASSUME NEW d, IsDir(d), d # <<>>
    PROVE  RemoveFirst(d, Head(d)) = Tail(d)
  <1>1. PICK k \in 1 .. Len(d) : d[k] = Head(d) /\ RemoveFirst(d, Head(d)) = RemoveAt(d, k)
    BY TailOfList, PlaceOf
  <1>2. /\ d \in Seq(File) /\ Len(d) \in Nat /\ Len(d) # 0 /\ DOMAIN d = 1 .. Len(d)
        /\ d[1] = Head(d)
    BY FilesOfList DEF IsDir
  <1>3. k = 1
    BY <1>1, <1>2 DEF IsDir, IsInjective
  <1>4. RemoveAt(d, 1) = Tail(d)
    BY <1>2 DEF RemoveAt
  <1> QED BY <1>1, <1>3, <1>4

LEMMA SmallerList ==
    ASSUME NEW d, NEW e, IsDir(d), IsDir(e), ToSet(e) \subseteq ToSet(d)
    PROVE  KB(e) <= KB(d)
  BY FilesOfList, SizeOfFewer

\* a file stored, over an older one of that name or not
LEMMA Stored ==
    ASSUME NEW d, IsDir(d), NEW f \in File
    PROVE  LET s == Append(RemoveFirst(d, f), f)
           IN  /\ IsDir(s) /\ ToSet(s) = ToSet(d) \cup {f}
               /\ Len(s) = IF f \in ToSet(d) THEN Len(d) ELSE Len(d) + 1
               /\ KB(s) = IF f \in ToSet(d) THEN KB(d) ELSE KB(d) + Size[f]
  <1> DEFINE r == RemoveFirst(d, f)
  <1>1. /\ IsDir(r) /\ ToSet(r) = ToSet(d) \ {f}
        /\ Len(r) = IF f \in ToSet(d) THEN Len(d) - 1 ELSE Len(d)
    BY TakenOut
  <1>2. IsDir(Append(r, f)) /\ Len(Append(r, f)) = Len(r) + 1 /\ ToSet(Append(r, f)) = ToSet(r) \cup {f}
    BY <1>1, Longer
  <1>3. ToSet(Append(r, f)) = ToSet(d) \cup {f}
    BY <1>1, <1>2
  <1>4. Len(d) \in Nat
    BY FilesOfList
  <1>5. KB(Append(r, f)) = IF f \in ToSet(d) THEN KB(d) ELSE KB(d) + Size[f]
    <2>1. KB(Append(r, f)) = Cardinality(BlocksOf(ToSet(d) \cup {f})) /\ KB(d) = Cardinality(BlocksOf(ToSet(d)))
      BY <1>2, <1>3, FilesOfList
    <2>2. CASE f \in ToSet(d)
      <3>1. ToSet(d) \cup {f} = ToSet(d)
        BY <2>2
      <3> QED BY <2>1, <2>2, <3>1
    <2>3. CASE f \notin ToSet(d)
      BY <2>1, <2>3, FilesOfList, SizeOfOneMore
    <2> QED BY <2>2, <2>3
  <1> HIDE DEF r
  <1>6. Len(Append(r, f)) = IF f \in ToSet(d) THEN Len(d) ELSE Len(d) + 1
    BY <1>1, <1>2, <1>4
  <1> QED BY <1>2, <1>3, <1>5, <1>6 DEF r

-----------------------------------------------------------------------------
(* Types: a total that goes down stays above the size of the files that are left. *)

SizeInv ==
    /\ TypeOK
    /\ \A p \in Proc : pc[p] = "clean" => total[p] >= KB(files[p])

LEMMA JobTypes ==
    /\ NoJob \in Jobs
    /\ \A e \in Events, n, s \in Nat : Update(e, n, s) \in Jobs
    /\ \A n, s \in Nat : [kind |-> "sizes", n |-> n, size |-> s] \in Jobs
    /\ \A n \in Nat, k \in {"maxfiles", "maxsize"} : [kind |-> k, n |-> n] \in Jobs
  BY DEF Jobs, NoJob, Update

LEMMA DefaultTypes == Default \in Counters /\ NoUpdates \in [Events -> Nat]
  BY LimitsAssumption, EventsAre DEF Default, Counters, NoUpdates

LEMMA ChangedTypes ==
    ASSUME NEW c \in Counters, NEW j \in Jobs
    PROVE  Changed(c, j) \in Counters
  <1>1. CASE j.kind = "update"
    <2>1. j \in [kind : {"update"}, stat : Events, n : Nat, size : Nat]
      BY <1>1 DEF Jobs
    <2>2. j.stat \in Events /\ j.n \in Nat /\ j.size \in Nat
      BY <2>1
    <2>3. Changed(c, j) = [c EXCEPT ![j.stat] = @ + 1, !.numfiles = @ + j.n, !.totalsize = @ + j.size]
      BY <1>1 DEF Changed
    <2>7. /\ c.hits \in Nat /\ c.misses \in Nat /\ c.errors \in Nat
          /\ c.numfiles \in Nat /\ c.totalsize \in Nat /\ c.maxfiles \in Nat /\ c.maxsize \in Nat
      BY DEF Counters
    <2>4. CASE j.stat = "hits"
      <3>1. Changed(c, j) = [hits |-> c.hits + 1, misses |-> c.misses, errors |-> c.errors,
                             numfiles |-> c.numfiles + j.n, totalsize |-> c.totalsize + j.size,
                             maxfiles |-> c.maxfiles, maxsize |-> c.maxsize]
        BY <2>2, <2>3, <2>4, ZenonT(60) DEF Counters
      <3> QED BY <2>2, <2>7, <3>1 DEF Counters
    <2>5. CASE j.stat = "misses"
      <3>1. Changed(c, j) = [hits |-> c.hits, misses |-> c.misses + 1, errors |-> c.errors,
                             numfiles |-> c.numfiles + j.n, totalsize |-> c.totalsize + j.size,
                             maxfiles |-> c.maxfiles, maxsize |-> c.maxsize]
        BY <2>2, <2>3, <2>5, ZenonT(60) DEF Counters
      <3> QED BY <2>2, <2>7, <3>1 DEF Counters
    <2>6. CASE j.stat = "errors"
      <3>1. Changed(c, j) = [hits |-> c.hits, misses |-> c.misses, errors |-> c.errors + 1,
                             numfiles |-> c.numfiles + j.n, totalsize |-> c.totalsize + j.size,
                             maxfiles |-> c.maxfiles, maxsize |-> c.maxsize]
        BY <2>2, <2>3, <2>6, ZenonT(60) DEF Counters
      <3> QED BY <2>2, <2>7, <3>1 DEF Counters
    <2> QED BY <2>2, <2>4, <2>5, <2>6, EventsAre
  <1>2. CASE j.kind = "sizes"
    BY <1>2 DEF Jobs, Changed, Counters
  <1>3. CASE j.kind \in {"maxfiles", "maxsize"}
    BY <1>3 DEF Jobs, Changed, Counters
  <1>4. CASE j.kind = "zero"
    BY <1>4 DEF Changed, Counters
  <1> QED BY <1>1, <1>2, <1>3, <1>4 DEF Jobs

LEMMA CountTypes ==
    ASSUME TypeOK, NEW p \in Proc, NEW e \in Events, NEW n \in Nat, NEW s \in Nat, Count(p, e, n, s)
    PROVE  /\ pc' \in [Proc -> {"idle", "storing", "lock", "write", "traverse", "clean", "wipe"}]
           /\ job' \in [Proc -> Jobs]
           /\ pc'[p] # "clean" /\ \A q \in Proc \ {p} : pc'[q] = pc[q]
  <1>1. Update(e, n, s) \in Jobs
    BY JobTypes
  <1> QED BY <1>1 DEF TypeOK, Count, Goto, Want

LEMMA InitSizes == Init => SizeInv
  BY EmptyList, DefaultTypes, JobTypes DEF Init, SizeInv, TypeOK, IsDir

LEMMA CompileSizes ==
    ASSUME SizeInv, NEW p \in Proc, Hit(p) \/ Store(p) \/ Tocache(p) \/ Broken(p)
    PROVE  SizeInv'
  <1> USE DEF SizeInv, TypeOK, IsDir, IsDir
  <1>1. CASE Hit(p)
    <2>1. PICK f \in ToSet(dir) : dir' = Append(RemoveFirst(dir, f), f)
      BY <1>1 DEF Hit
    <2>2. IsDir(dir')
      BY <2>1, FilesOfList, Stored
    <2>3. UNCHANGED <<stats, lock, counters, batch, files, total, done>>
      BY <1>1 DEF Hit
    <2>4. pc' \in [Proc -> {"idle", "storing", "lock", "write", "traverse", "clean", "wipe"}]
          /\ job' \in [Proc -> Jobs] /\ \A q \in Proc : pc'[q] = "clean" => pc[q] = "clean"
      BY <1>1, CountTypes, EventsAre DEF Hit
    <2> QED BY <2>2, <2>3, <2>4
  <1>2. CASE Store(p)
    <2>1. PICK f \in File \ ToSet(batch[p]) :
              /\ dir' = Append(RemoveFirst(dir, f), f)
              /\ batch' = [batch EXCEPT ![p] = Append(@, f)]
      BY <1>2 DEF Store
    <2>2. IsDir(dir') /\ IsDir(Append(batch[p], f))
      BY <2>1, Stored, Longer
    <2>3. UNCHANGED <<stats, lock, job, counters, files, total, done>>
          /\ pc' = [pc EXCEPT ![p] = "storing"]
      BY <1>2 DEF Store, Goto
    <2>4. \A q \in Proc : IsDir(batch'[q])
      <3>1. batch'[p] = Append(batch[p], f) /\ \A q \in Proc \ {p} : batch'[q] = batch[q]
        BY <2>1
      <3> QED BY <2>2, <3>1
    <2>5. batch' \in [Proc -> Seq(File)]
      BY <2>1, <2>2
    <2> QED BY <2>2, <2>3, <2>4, <2>5
  <1>3. CASE Tocache(p)
    <2>1. Len(batch[p]) \in Nat /\ KB(batch[p]) \in Nat
      BY ListSize, FilesOfList
    <2>2. /\ pc' \in [Proc -> {"idle", "storing", "lock", "write", "traverse", "clean", "wipe"}]
          /\ job' \in [Proc -> Jobs] /\ \A q \in Proc : pc'[q] = "clean" => pc[q] = "clean"
      BY <1>3, <2>1, CountTypes, EventsAre DEF Tocache
    <2> QED BY <1>3, <2>2, EmptyList DEF Tocache
  <1>4. CASE Broken(p)
    <2>2. /\ pc' \in [Proc -> {"idle", "storing", "lock", "write", "traverse", "clean", "wipe"}]
          /\ job' \in [Proc -> Jobs] /\ \A q \in Proc : pc'[q] = "clean" => pc[q] = "clean"
      BY <1>4, CountTypes, EventsAre DEF Broken
    <2> QED BY <1>4, <2>2, EmptyList DEF Broken
  <1> QED BY <1>1, <1>2, <1>3, <1>4

LEMMA EndSizes ==
    ASSUME SizeInv, NEW p \in Proc, End(p), dir' = dir, stats' \in Counters,
           lock' \in Proc \cup {Nobody}, done' \in [Events -> Nat]
    PROVE  SizeInv'
  BY EmptyList, DefaultTypes, JobTypes DEF SizeInv, TypeOK, IsDir, End, Goto, Want

LEMMA CounterSizes ==
    ASSUME SizeInv, NEW p \in Proc, Read(p) \/ Write(p) \/ Crash(p) \/ CleanupAll(p) \/ Command(p)
    PROVE  SizeInv'
  <1>1. CASE Read(p)
    BY <1>1, ChangedTypes DEF SizeInv, TypeOK, IsDir, Read, Goto
  <1>2. CASE Write(p)
    <2>1. stats' \in Counters /\ lock' = Nobody /\ dir' = dir
      BY <1>2 DEF SizeInv, TypeOK, IsDir, Write
    <2>2. done' \in [Events -> Nat]
      <3>1. job[p].kind = "update" => job[p].stat \in Events
        <4>1. job[p] \in Jobs
          BY DEF SizeInv, TypeOK
        <4> QED BY ONLY <4>1 DEF Jobs
      <3>2. done \in [Events -> Nat]
        BY DEF SizeInv, TypeOK
      <3>3. done' = IF job[p].kind = "update" THEN [done EXCEPT ![job[p].stat] = @ + 1]
                    ELSE IF job[p].kind = "zero" THEN NoUpdates ELSE done
        BY <1>2 DEF Write
      <3> QED BY ONLY <3>1, <3>2, <3>3, DefaultTypes
    <2>3. CASE End(p)
      BY <2>1, <2>2, <2>3, EndSizes
    <2>4. CASE Goto(p, "traverse") /\ UNCHANGED <<job, counters, batch, files, total>>
      BY <2>1, <2>2, <2>4 DEF SizeInv, TypeOK, IsDir, Goto
    <2> QED BY <1>2, <2>3, <2>4 DEF Write
  <1>3. CASE Crash(p)
    BY <1>3, EndSizes DEF SizeInv, TypeOK, IsDir, Crash
  <1>4. CASE CleanupAll(p)
    BY <1>4 DEF SizeInv, TypeOK, IsDir, CleanupAll, Goto
  <1>5. CASE Command(p)
    <2>1. PICK j \in {[kind |-> "zero"]}
               \cup {[kind |-> "maxfiles", n |-> v \div 16] : v \in FLimits}
               \cup {[kind |-> "maxsize", n |-> v \div 16] : v \in MLimits} : Want(p, j)
      BY <1>5 DEF Command
    <2>2. j \in Jobs
      <3>1. \A v \in FLimits \cup MLimits : v \div 16 \in Nat
        BY LimitsAssumption
      <3> QED BY <2>1, <3>1, JobTypes DEF NoJob
    <2>3. /\ job' = [job EXCEPT ![p] = j] /\ pc' = [pc EXCEPT ![p] = "lock"]
          /\ UNCHANGED <<dir, stats, lock, counters, batch, files, total, done>>
      BY <1>5, <2>1 DEF Command, Goto, Want
    <2>4. job' \in [Proc -> Jobs]
      BY <2>2, <2>3 DEF SizeInv, TypeOK
    <2>5. /\ pc' \in [Proc -> {"idle", "storing", "lock", "write", "traverse", "clean", "wipe"}]
          /\ \A q \in Proc : pc'[q] = "clean" => pc[q] = "clean"
      BY <2>3 DEF SizeInv, TypeOK
    <2> QED BY <2>3, <2>4, <2>5 DEF SizeInv, TypeOK, IsDir
  <1> QED BY <1>1, <1>2, <1>3, <1>4, <1>5

LEMMA CleanSizes ==
    ASSUME SizeInv, NEW p \in Proc, Traverse(p) \/ CleanOne(p) \/ CleanEnd(p)
    PROVE  SizeInv'
  <1> USE DEF SizeInv, TypeOK, IsDir, IsDir
  <1>1. CASE Traverse(p)
    <2>1. /\ files' = [files EXCEPT ![p] = dir] /\ total' = [total EXCEPT ![p] = KB(dir)]
          /\ pc' = [pc EXCEPT ![p] = "clean"]
          /\ UNCHANGED <<dir, stats, lock, job, counters, batch, done>>
      BY <1>1 DEF Traverse, Goto
    <2>2. KB(dir) \in Nat
      BY ListSize
    <2>3. TypeOK'
      BY <2>1, <2>2
    <2>4. \A q \in Proc : pc'[q] = "clean" => total'[q] >= KB(files'[q])
      BY <2>1, <2>2
    <2> QED BY ONLY <2>3, <2>4 DEF SizeInv
  <1>2. CASE CleanOne(p)
    <2> DEFINE f == Head(files[p])
    <2>1. /\ IsDir(Tail(files[p])) /\ f \in File
          /\ KB(files[p]) = KB(Tail(files[p])) + Size[f] /\ Size[f] \in Nat
      BY <1>2, TailOfList, FilesOfList, SizeAssumption DEF CleanOne
    <2>2. KB(Tail(files[p])) \in Nat
      BY <2>1, ListSize
    <2>3. IsDir(dir')
      BY <1>2, TakenOut DEF CleanOne
    <2>4. /\ files' = [files EXCEPT ![p] = Tail(@)] /\ pc[p] = "clean"
          /\ total' = [total EXCEPT ![p] = @ - Size[f]] \/ total' = total
          /\ UNCHANGED <<stats, lock, pc, job, counters, batch, done>>
      BY <1>2 DEF CleanOne
    <2>5. total[p] \in Nat /\ total[p] >= KB(files[p])
      BY <2>4
    <2>6. total'[p] \in Nat /\ total'[p] >= KB(Tail(files[p]))
      <3> HIDE DEF f
      <3> QED BY <2>1, <2>2, <2>4, <2>5
    <2>7. total' \in [Proc -> Nat] /\ \A q \in Proc \ {p} : total'[q] = total[q]
      BY <2>4, <2>6
    <2> HIDE DEF f
    <2> QED BY <2>1, <2>3, <2>4, <2>6, <2>7
  <1>3. CASE CleanEnd(p)
    BY <1>3, FilesOfList, JobTypes DEF CleanEnd, Goto, Want
  <1> QED BY <1>1, <1>2, <1>3

LEMMA WipeSizes ==
    ASSUME SizeInv, NEW p \in Proc, WipeAll(p) \/ Wipe(p)
    PROVE  SizeInv'
  <1> USE DEF SizeInv, TypeOK, IsDir, IsDir
  <1>1. CASE WipeAll(p)
    BY <1>1 DEF WipeAll, Goto
  <1>2. CASE Wipe(p) /\ files[p] # <<>>
    <2>1. IsDir(Tail(files[p])) /\ IsDir(dir')
      BY <1>2, TailOfList, TakenOut DEF Wipe
    <2> QED BY <1>2, <2>1 DEF Wipe
  <1>3. CASE Wipe(p) /\ files[p] = <<>>
    BY <1>3 DEF Wipe, Goto
  <1> QED BY <1>1, <1>2, <1>3

\* stats.c, cleanup.c: counters, sizes and lists stay what the structs declare for any
\* number of processes; total_size, which a cleanup counts down file by file, does
\* not get below zero, whatever other processes remove meanwhile.
THEOREM CountersTyped == Spec => []TypeOK
  <1>1. Init => SizeInv
    BY InitSizes
  <1>2. SizeInv /\ [Next]_vars => SizeInv'
    <2>1. ASSUME SizeInv, UNCHANGED vars
          PROVE  SizeInv'
      BY <2>1 DEF vars, SizeInv, TypeOK
    <2> QED BY <2>1, CompileSizes, CounterSizes, CleanSizes, WipeSizes DEF Next, Run, Start
  <1>3. SizeInv => TypeOK
    BY DEF SizeInv
  <1> QED BY <1>1, <1>2, <1>3, PTL DEF Spec

-----------------------------------------------------------------------------
(* The limits, for one process at a time. *)

\* Two processes: a file that is stored while another one cleans up is not counted
\* (cleanup.c:122).  A compile that breaks off, or does not count, leaves files that
\* are not known.
OneProcess == (\E p : Proc = {p}) /\ Faults = FALSE /\ NoStats = {}

\* 80 % of a limit of one is zero, which stands for "no limit" (cleanup.c:111).
NoLimitOfOne == DefaultMax # 1 /\ \A v \in FLimits \cup MLimits : v \div 16 # 1

Covers(c, d) == c.numfiles >= Len(d) /\ c.totalsize >= KB(d)
SameLimits(c) == c.maxfiles = stats.maxfiles /\ c.maxsize = stats.maxsize
Roomy(c) == c.maxfiles # 1 /\ c.maxsize # 1

\* What the process knows of the directory, wherever it is.
Knows(p) ==
    /\ pc[p] # "storing" => batch[p] = <<>>
    /\ pc[p] \in {"idle", "traverse", "wipe"} => Covers(stats, dir)
    /\ pc[p] = "storing" => /\ ToSet(batch[p]) \subseteq ToSet(dir)
                            /\ stats.numfiles + Len(batch[p]) >= Len(dir)
                            /\ stats.totalsize + KB(batch[p]) >= KB(dir)
    /\ pc[p] \in {"lock", "write"} =>
          LET c == Changed(stats, job[p])
          IN  Covers(c, dir) /\ Roomy(c) /\ (job[p].kind = "sizes" => Fits(dir, c))
    /\ pc[p] \in {"traverse", "clean"} => SameLimits(counters[p])
    /\ pc[p] \in {"clean", "wipe"} => files[p] = dir
    /\ pc[p] = "clean" => total[p] = KB(dir)

LimitsInv == SizeInv /\ LockInv /\ Roomy(stats) /\ \A p \in Proc : Knows(p)

LEMMA ThresholdBelow ==
    ASSUME NEW n \in Nat, n # 0, n # 1
    PROVE  Threshold(n) # 0 /\ Threshold(n) <= n
  BY DEF Threshold

LEMMA ChangedUpdate ==
    ASSUME NEW c \in Counters, NEW e \in Events, NEW n \in Nat, NEW s \in Nat
    PROVE  LET d == Changed(c, Update(e, n, s))
           IN  /\ d.numfiles = c.numfiles + n /\ d.totalsize = c.totalsize + s
               /\ d.maxfiles = c.maxfiles /\ d.maxsize = c.maxsize
  <1>1. Changed(c, Update(e, n, s)) = [c EXCEPT ![e] = @ + 1, !.numfiles = @ + n, !.totalsize = @ + s]
    BY DEF Changed, Update
  <1> QED BY <1>1, EventsAre DEF Counters

LEMMA InitLimits == ASSUME OneProcess, NoLimitOfOne PROVE Init => LimitsInv
  <1>1. Init => Covers(stats, dir) /\ Roomy(stats)
    BY EmptyList, LimitsAssumption DEF Init, NoLimitOfOne, Covers, Roomy, Default
  <1> QED BY <1>1, InitSizes, InitLockInv DEF Init, LimitsInv, Knows

\* from_cache() and to_cache()
LEMMA CompileLimits ==
    ASSUME OneProcess, LimitsInv, NEW p \in Proc, Hit(p) \/ Store(p) \/ Tocache(p) \/ Broken(p)
    PROVE  Knows(p)'
  <1>1. /\ IsDir(dir) /\ IsDir(batch[p]) /\ stats \in Counters /\ KB(dir) \in Nat /\ Len(dir) \in Nat
        /\ KB(batch[p]) \in Nat /\ Len(batch[p]) \in Nat /\ Roomy(stats) /\ Knows(p)
        /\ ToSet(batch[p]) \subseteq File /\ ToSet(dir) \subseteq File
        /\ stats.numfiles \in Nat /\ stats.totalsize \in Nat
    <2>1. IsDir(dir) /\ IsDir(batch[p]) /\ stats \in Counters
      BY DEF LimitsInv, SizeInv, TypeOK, IsDir
    <2> QED BY <2>1, ListSize, FilesOfList DEF LimitsInv, Counters
  <1>2. pc \in [Proc -> {"idle", "storing", "lock", "write", "traverse", "clean", "wipe"}]
        /\ job \in [Proc -> Jobs] /\ batch \in [Proc -> Seq(File)]
    BY DEF LimitsInv, SizeInv, TypeOK
  <1>3. \A e \in Events, n, s \in Nat : Count(p, e, n, s) =>
          pc'[p] = "lock" /\ job'[p] = Update(e, n, s)
    BY <1>2 DEF Count, Goto, Want, OneProcess
  <1>4. \A e \in Events, n, s \in Nat : Update(e, n, s).kind = "update"
    BY DEF Update
  <1>5. CASE Hit(p)
    <2>1. PICK f \in ToSet(dir) : dir' = Append(RemoveFirst(dir, f), f)
      BY <1>5 DEF Hit
    <2>2. Len(dir') = Len(dir) /\ KB(dir') = KB(dir)
      BY <1>1, <2>1, Stored
    <2>3. pc[p] = "idle" /\ UNCHANGED <<stats, batch>> /\ pc'[p] = "lock" /\ job'[p] = Update("hits", 0, 0)
      BY <1>3, <1>5, EventsAre DEF Hit, MayCompile
    <2>4. Covers(stats, dir)
      BY <1>1, <2>3 DEF Knows
    <2>5. LET c == Changed(stats', job'[p]) IN Covers(c, dir') /\ Roomy(c)
      <3> DEFINE c == Changed(stats', job'[p])
      <3>1. /\ c.numfiles = stats.numfiles + 0 /\ c.totalsize = stats.totalsize + 0
            /\ c.maxfiles = stats.maxfiles /\ c.maxsize = stats.maxsize
        <4>1. "hits" \in Events /\ 0 \in Nat /\ c = Changed(stats, Update("hits", 0, 0))
             /\ stats \in Counters /\ 0 \in Nat /\ 0 \in Nat
          BY <1>1, <2>3, EventsAre
        <4> HIDE DEF c
        <4> QED BY ONLY <4>1, ChangedUpdate
      <3> HIDE DEF c
      <3>2. Covers(c, dir') /\ Roomy(c)
        BY <1>1, <2>2, <2>4, <3>1 DEF Covers, Roomy
      <3> QED BY <3>2 DEF c
    <2>6. job'[p].kind # "sizes" /\ batch'[p] = <<>>
      BY <1>1, <1>4, <2>3, EventsAre DEF Knows
    <2> QED BY <2>3, <2>5, <2>6 DEF Knows
  <1>6. CASE Store(p)
    <2>1. PICK f \in File \ ToSet(batch[p]) :
              /\ dir' = Append(RemoveFirst(dir, f), f)
              /\ batch' = [batch EXCEPT ![p] = Append(@, f)]
      BY <1>6 DEF Store
    <2>2. batch'[p] = Append(batch[p], f) /\ pc'[p] = "storing" /\ stats' = stats
      BY <1>2, <1>6, <2>1 DEF Store, Goto
    <2>3. /\ Len(batch'[p]) = Len(batch[p]) + 1 /\ KB(batch'[p]) = KB(batch[p]) + Size[f]
          /\ ToSet(batch'[p]) = ToSet(batch[p]) \cup {f}
      BY <1>1, <2>1, <2>2, Longer
    <2>4. /\ Len(dir') <= Len(dir) + 1 /\ KB(dir') <= KB(dir) + Size[f] /\ Size[f] \in Nat
          /\ Len(dir') \in Nat /\ KB(dir') \in Nat
          /\ ToSet(dir') = ToSet(dir) \cup {f}
      <3>1. Size[f] \in Nat
        BY SizeAssumption
      <3>2. IsDir(dir') /\ ToSet(dir') = ToSet(dir) \cup {f}
            /\ Len(dir') = (IF f \in ToSet(dir) THEN Len(dir) ELSE Len(dir) + 1)
            /\ KB(dir') = (IF f \in ToSet(dir) THEN KB(dir) ELSE KB(dir) + Size[f])
        BY <1>1, <2>1, Stored
      <3> QED BY <1>1, <3>1, <3>2
    <2>5. /\ ToSet(batch[p]) \subseteq ToSet(dir)
          /\ stats.numfiles + Len(batch[p]) >= Len(dir)
          /\ stats.totalsize + KB(batch[p]) >= KB(dir)
      <3>1. CASE pc[p] = "storing"
        BY <1>1, <3>1 DEF Knows
      <3>2. CASE pc[p] = "idle"
        BY <1>1, <3>2, EmptyList DEF Knows, Covers
      <3> QED BY <1>6, <3>1, <3>2 DEF Store, MayCompile
    <2>6. /\ ToSet(batch'[p]) \subseteq ToSet(dir')
          /\ stats.numfiles + Len(batch'[p]) >= Len(dir')
          /\ stats.totalsize + KB(batch'[p]) >= KB(dir')
      <3>1. ToSet(batch'[p]) \subseteq ToSet(dir')
        BY <2>3, <2>4, <2>5
      <3>0. /\ Len(dir) \in Nat /\ Len(batch[p]) \in Nat /\ stats.numfiles \in Nat
            /\ KB(dir) \in Nat /\ KB(batch[p]) \in Nat /\ stats.totalsize \in Nat
        BY <1>1
      <3>2. stats.numfiles + Len(batch'[p]) >= Len(dir')
        BY ONLY <2>3, <2>4, <2>5, <3>0, SMTT(30)
      <3>3. stats.totalsize + KB(batch'[p]) >= KB(dir')
        BY ONLY <2>3, <2>4, <2>5, <3>0, SMTT(30)
      <3> QED BY <3>1, <3>2, <3>3
    <2> QED BY <2>2, <2>6 DEF Knows
  <1>7. CASE Tocache(p)
    <2>1. /\ pc[p] = "storing" /\ UNCHANGED <<stats, dir>> /\ batch'[p] = <<>> /\ pc'[p] = "lock"
          /\ job'[p] = Update("misses", Len(batch[p]), KB(batch[p]))
      BY <1>1, <1>2, <1>3, <1>7, EventsAre DEF Tocache
    <2>2. /\ stats.numfiles + Len(batch[p]) >= Len(dir)
          /\ stats.totalsize + KB(batch[p]) >= KB(dir)
      BY <1>1, <2>1 DEF Knows
    <2>3. LET c == Changed(stats', job'[p]) IN Covers(c, dir') /\ Roomy(c)
      <3> DEFINE c == Changed(stats', job'[p])
      <3>1. /\ c.numfiles = stats.numfiles + Len(batch[p]) /\ c.totalsize = stats.totalsize + KB(batch[p])
            /\ c.maxfiles = stats.maxfiles /\ c.maxsize = stats.maxsize
        <4>1. "misses" \in Events /\ c = Changed(stats, Update("misses", Len(batch[p]), KB(batch[p])))
             /\ stats \in Counters /\ Len(batch[p]) \in Nat /\ KB(batch[p]) \in Nat
          BY <1>1, <2>1, EventsAre
        <4> HIDE DEF c
        <4> QED BY ONLY <4>1, ChangedUpdate
      <3> HIDE DEF c
      <3>2. Covers(c, dir') /\ Roomy(c)
        BY <1>1, <2>1, <2>2, <3>1 DEF Covers, Roomy
      <3> QED BY <3>2 DEF c
    <2>4. job'[p].kind # "sizes"
      BY <1>1, <1>4, <2>1, EventsAre
    <2> QED BY <2>1, <2>3, <2>4 DEF Knows
  <1>8. CASE Broken(p)
    BY <1>8 DEF Broken, OneProcess
  <1> QED BY <1>5, <1>6, <1>7, <1>8

\* stats.c
LEMMA CounterLimits ==
    ASSUME OneProcess, NoLimitOfOne, LimitsInv, NEW p \in Proc,
           Read(p) \/ Write(p) \/ Crash(p) \/ CleanupAll(p) \/ Command(p)
    PROVE  Roomy(stats') /\ Knows(p)'
  <1>1. /\ pc \in [Proc -> {"idle", "storing", "lock", "write", "traverse", "clean", "wipe"}]
        /\ job \in [Proc -> Jobs] /\ batch \in [Proc -> Seq(File)] /\ counters \in [Proc -> Counters]
        /\ stats \in Counters /\ Roomy(stats) /\ Knows(p) /\ Locked
    BY DEF LimitsInv, LockInv, SizeInv, TypeOK
  <1>2. CASE Read(p)
    BY <1>1, <1>2 DEF Read, Goto, Knows
  <1>3. CASE Write(p)
    <2>1. /\ stats' = Changed(stats, job[p]) /\ dir' = dir /\ stats' = counters[p]
          /\ pc[p] = "write"
      BY <1>1, <1>3 DEF Write, Locked
    <2>2. Covers(stats', dir') /\ Roomy(stats')
      BY <1>1, <2>1 DEF Knows
    <2>3. CASE End(p)
      <3>1. pc'[p] = "idle" /\ batch'[p] = <<>>
        BY <1>1, <2>3 DEF End, Goto
      <3> QED BY <2>2, <3>1 DEF Knows
    <2>4. CASE Goto(p, "traverse") /\ UNCHANGED <<job, counters, batch, files, total>>
      <3>1. pc'[p] = "traverse" /\ counters'[p] = stats' /\ batch'[p] = <<>>
        BY <1>1, <2>1, <2>4 DEF Goto, Knows
      <3> QED BY <2>2, <3>1 DEF Knows, SameLimits
    <2> QED BY <1>3, <2>2, <2>3, <2>4 DEF Write
  <1>4. CASE Crash(p)
    BY <1>4 DEF Crash, OneProcess
  <1>5. CASE CleanupAll(p)
    <2>1. pc[p] = "idle" /\ pc'[p] = "traverse" /\ counters'[p] = stats /\ UNCHANGED <<dir, stats, batch>>
      BY <1>1, <1>5 DEF CleanupAll, Goto
    <2> QED BY <1>1, <2>1 DEF Knows, SameLimits
  <1>6. CASE Command(p)
    <2>1. PICK j \in {[kind |-> "zero"]}
               \cup {[kind |-> "maxfiles", n |-> v \div 16] : v \in FLimits}
               \cup {[kind |-> "maxsize", n |-> v \div 16] : v \in MLimits} : Want(p, j)
      BY <1>6 DEF Command
    <2>2. pc[p] = "idle" /\ pc'[p] = "lock" /\ job'[p] = j /\ UNCHANGED <<dir, stats, batch>>
      BY <1>1, <1>6, <2>1 DEF Command, Goto, Want
    <2>3. LET c == Changed(stats, j)
          IN  /\ c.numfiles = stats.numfiles /\ c.totalsize = stats.totalsize
              /\ Roomy(c) /\ j.kind # "sizes"
      <3>1. CASE j.kind = "zero"
        BY <1>1, <3>1 DEF Changed, Counters, Roomy
      <3>2. CASE j.kind = "maxfiles"
        <4>1. j.n # 1
          BY <2>1, <3>2 DEF NoLimitOfOne
        <4> QED BY <1>1, <3>2, <4>1 DEF Changed, Counters, Roomy
      <3>3. CASE j.kind = "maxsize"
        <4>1. j.n # 1
          BY <2>1, <3>3 DEF NoLimitOfOne
        <4> QED BY <1>1, <3>3, <4>1 DEF Changed, Counters, Roomy
      <3> QED BY <2>1, <3>1, <3>2, <3>3
    <2> QED BY <1>1, <2>2, <2>3 DEF Knows, Covers
  <1> QED BY <1>1, <1>2, <1>3, <1>4, <1>5, <1>6 DEF Read, CleanupAll, Command

\* sort_and_clean() stops below the limits.
LEMMA EnoughFits ==
    ASSUME LimitsInv, NEW p \in Proc, pc[p] = "clean", files[p] = <<>> \/ Enough(p)
    PROVE  Fits(dir, stats)
  <1>1. /\ files[p] = dir /\ total[p] = KB(dir) /\ SameLimits(counters[p]) /\ Roomy(stats)
        /\ IsDir(dir) /\ stats \in Counters
    BY DEF LimitsInv, Knows, SizeInv, TypeOK, IsDir
  <1>2. stats.maxfiles \in Nat /\ stats.maxsize \in Nat /\ Len(dir) \in Nat /\ KB(dir) \in Nat
    BY <1>1, ListSize, FilesOfList DEF Counters
  <1>3. CASE dir = <<>>
    BY <1>2, <1>3, EmptyList DEF Fits
  <1>4. CASE Enough(p)
    <2>1. stats.maxfiles # 0 => Len(dir) <= stats.maxfiles
      <3>1. SUFFICES ASSUME stats.maxfiles # 0 PROVE Len(dir) <= stats.maxfiles
        OBVIOUS
      <3>2. Threshold(stats.maxfiles) # 0 /\ Threshold(stats.maxfiles) <= stats.maxfiles
        BY <1>1, <1>2, <3>1, ThresholdBelow DEF Roomy
      <3>3. Len(dir) < Threshold(stats.maxfiles)
        BY <1>1, <1>4, <3>2 DEF Enough, SameLimits
      <3>4. Threshold(stats.maxfiles) \in Int
        BY <1>2 DEF Threshold
      <3> QED BY <1>2, <3>2, <3>3, <3>4
    <2>2. stats.maxsize # 0 => KB(dir) <= stats.maxsize
      <3>1. SUFFICES ASSUME stats.maxsize # 0 PROVE KB(dir) <= stats.maxsize
        OBVIOUS
      <3>2. Threshold(stats.maxsize) # 0 /\ Threshold(stats.maxsize) <= stats.maxsize
        BY <1>1, <1>2, <3>1, ThresholdBelow DEF Roomy
      <3>3. KB(dir) < Threshold(stats.maxsize)
        BY <1>1, <1>4, <3>2 DEF Enough, SameLimits
      <3>4. Threshold(stats.maxsize) \in Int
        BY <1>2 DEF Threshold
      <3> QED BY <1>2, <3>2, <3>3, <3>4
    <2> QED BY <2>1, <2>2 DEF Fits
  <1> QED BY <1>1, <1>3, <1>4

\* cleanup.c
LEMMA CleanLimits ==
    ASSUME OneProcess, LimitsInv, NEW p \in Proc,
           Traverse(p) \/ CleanOne(p) \/ CleanEnd(p) \/ WipeAll(p) \/ Wipe(p)
    PROVE  Knows(p)'
  <1>1. /\ pc \in [Proc -> {"idle", "storing", "lock", "write", "traverse", "clean", "wipe"}]
        /\ job \in [Proc -> Jobs] /\ counters \in [Proc -> Counters] /\ total \in [Proc -> Nat]
        /\ batch \in [Proc -> Seq(File)] /\ files \in [Proc -> Seq(File)]
        /\ stats \in Counters /\ Roomy(stats) /\ Knows(p) /\ IsDir(dir)
        /\ stats.numfiles \in Nat /\ stats.totalsize \in Nat
    BY DEF LimitsInv, SizeInv, TypeOK, Counters
  <1>2. CASE Traverse(p)
    <2>1. /\ pc[p] = "traverse" /\ pc'[p] = "clean" /\ files'[p] = dir /\ total'[p] = KB(dir)
          /\ UNCHANGED <<dir, stats, counters, batch>>
      BY <1>1, <1>2 DEF Traverse, Goto
    <2> QED BY <1>1, <2>1 DEF Knows, SameLimits
  <1>3. CASE CleanOne(p)
    <2>1. /\ pc[p] = "clean" /\ files[p] = dir /\ total[p] = KB(dir) /\ dir # <<>>
          /\ dir' = RemoveFirst(dir, Head(dir)) /\ total'[p] = total[p] - Size[Head(dir)]
          /\ files'[p] = Tail(dir) /\ UNCHANGED <<pc, stats, counters, batch>>
      BY <1>1, <1>3 DEF CleanOne, Knows, OneProcess
    <2>2. IsDir(Tail(dir)) /\ KB(dir) = KB(Tail(dir)) + Size[Head(dir)] /\ Head(dir) \in File
      BY <1>1, <2>1, TailOfList, FilesOfList
    <2>3. KB(Tail(dir)) \in Nat /\ Size[Head(dir)] \in Nat
      BY <2>2, ListSize, SizeAssumption
    <2>4. dir' = Tail(dir) /\ total'[p] = KB(Tail(dir))
      BY <1>1, <2>1, <2>2, <2>3, OldestTakenOut
    <2> QED BY <1>1, <2>1, <2>4 DEF Knows, SameLimits
  <1>4. CASE CleanEnd(p)
    <2>1. /\ pc[p] = "clean" /\ pc'[p] = "lock" /\ UNCHANGED <<dir, stats, batch>>
          /\ job'[p] = [kind |-> "sizes", n |-> Len(dir), size |-> KB(dir)]
          /\ files[p] = <<>> \/ Enough(p)
      BY <1>1, <1>4 DEF CleanEnd, Goto, Want, Knows
    <2>2. Fits(dir, stats)
      BY <2>1, EnoughFits
    <2>3. LET c == Changed(stats, job'[p])
          IN  /\ c.numfiles = Len(dir) /\ c.totalsize = KB(dir)
              /\ c.maxfiles = stats.maxfiles /\ c.maxsize = stats.maxsize
      <3> DEFINE j == [kind |-> "sizes", n |-> Len(dir), size |-> KB(dir)]
      <3>1. j.kind = "sizes" /\ j.n = Len(dir) /\ j.size = KB(dir) /\ job'[p] = j
        BY <2>1
      <3> HIDE DEF j
      <3>2. Changed(stats, j) = [stats EXCEPT !.numfiles = Len(dir), !.totalsize = KB(dir)]
        BY <3>1 DEF Changed
      <3> QED BY <1>1, <3>1, <3>2 DEF Counters
    <2>4. Len(dir) \in Nat /\ KB(dir) \in Nat
      BY <1>1, ListSize, FilesOfList
    <2>5. LET c == Changed(stats', job'[p]) IN Covers(c, dir') /\ Roomy(c) /\ Fits(dir', c)
      BY <1>1, <2>1, <2>2, <2>3, <2>4 DEF Covers, Roomy, Fits
    <2> QED BY <1>1, <2>1, <2>5 DEF Knows
  <1>5. CASE WipeAll(p)
    <2>1. pc[p] = "idle" /\ pc'[p] = "wipe" /\ files'[p] = dir /\ UNCHANGED <<dir, stats, batch>>
      BY <1>1, <1>5 DEF WipeAll, Goto
    <2> QED BY <1>1, <2>1 DEF Knows
  <1>6. CASE Wipe(p) /\ files[p] # <<>>
    <2>1. /\ pc[p] = "wipe" /\ files[p] = dir /\ dir # <<>> /\ dir' = RemoveFirst(dir, Head(dir))
          /\ files'[p] = Tail(dir) /\ UNCHANGED <<pc, stats, batch>>
      BY <1>1, <1>6 DEF Wipe, Knows
    <2>2. dir' = Tail(dir)
      BY <1>1, <2>1, OldestTakenOut
    <2>3. /\ KB(Tail(dir)) <= KB(dir) /\ Len(Tail(dir)) <= Len(dir)
          /\ KB(Tail(dir)) \in Nat /\ KB(dir) \in Nat /\ Len(Tail(dir)) \in Nat /\ Len(dir) \in Nat
      <3>1. IsDir(Tail(dir)) /\ ToSet(Tail(dir)) \subseteq ToSet(dir) /\ Len(Tail(dir)) = Len(dir) - 1
        BY <1>1, <2>1, TailOfList
      <3> QED BY <1>1, <3>1, SmallerList, ListSize, FilesOfList
    <2>4. Covers(stats, dir)
      BY <1>1, <2>1 DEF Knows
    <2>5. Covers(stats', dir')
      <3>1. stats' = stats /\ stats.numfiles >= Len(dir) /\ stats.totalsize >= KB(dir)
        BY <2>1, <2>4 DEF Covers
      <3>2. stats.numfiles >= Len(Tail(dir)) /\ stats.totalsize >= KB(Tail(dir))
        BY <1>1, <2>3, <3>1
      <3> QED BY <2>2, <3>1, <3>2 DEF Covers
    <2> QED BY <1>1, <2>1, <2>2, <2>5 DEF Knows
  <1>7. CASE Wipe(p) /\ files[p] = <<>>
    <2>1. /\ pc[p] = "wipe" /\ pc'[p] = "traverse" /\ counters'[p] = stats
          /\ UNCHANGED <<dir, stats, batch>>
      BY <1>1, <1>7 DEF Wipe, Goto
    <2> QED BY <1>1, <2>1 DEF Knows, SameLimits
  <1> QED BY <1>2, <1>3, <1>4, <1>5, <1>6, <1>7

LEMMA NextLimits ==
    ASSUME OneProcess, NoLimitOfOne, LimitsInv, [Next]_vars
    PROVE  LimitsInv'
  <1>1. SizeInv'
    <2>1. ASSUME UNCHANGED vars
          PROVE  SizeInv'
      BY <2>1 DEF vars, LimitsInv, SizeInv, TypeOK
    <2> QED BY <2>1, CompileSizes, CounterSizes, CleanSizes, WipeSizes DEF LimitsInv, Next, Run, Start
  <1>2. LockInv'
    BY NextLockInv DEF LimitsInv
  <1>3. CASE UNCHANGED vars
    <2>1. Roomy(stats)' /\ \A p \in Proc : Knows(p)'
      BY <1>3 DEF vars, LimitsInv, Knows, Roomy, SameLimits, Covers, Fits
    <2> QED BY <1>1, <1>2, <2>1 DEF LimitsInv
  <1>4. CASE Next
    <2>1. PICK p \in Proc : Run(p) \/ Read(p) \/ Start(p) \/ Crash(p)
      BY <1>4 DEF Next
    <2>2. Proc = {p}
      BY DEF OneProcess
    <2>3. Roomy(stats)' /\ Knows(p)'
      <3>1. CASE Hit(p) \/ Store(p) \/ Tocache(p) \/ Broken(p)
        BY <3>1, CompileLimits DEF LimitsInv, Hit, Store, Tocache, Broken
      <3>2. CASE Read(p) \/ Write(p) \/ Crash(p) \/ CleanupAll(p) \/ Command(p)
        BY <3>2, CounterLimits
      <3>3. CASE Traverse(p) \/ CleanOne(p) \/ CleanEnd(p) \/ WipeAll(p) \/ Wipe(p)
        BY <3>3, CleanLimits DEF LimitsInv, Traverse, CleanOne, CleanEnd, WipeAll, Wipe
      <3> QED BY <2>1, <3>1, <3>2, <3>3 DEF Run, Start
    <2> QED BY <1>1, <1>2, <2>2, <2>3 DEF LimitsInv
  <1> QED BY <1>3, <1>4

\* stats.c: the counters know of at least the files that are there, whenever nothing
\* runs, so that the next driver notices when a limit is exceeded.
THEOREM SizesStayCovered == ASSUME OneProcess, NoLimitOfOne PROVE Spec => []SizesCoverFiles
  <1>1. Init => LimitsInv
    BY InitLimits
  <1>2. LimitsInv /\ [Next]_vars => LimitsInv'
    BY NextLimits
  <1>3. LimitsInv => SizesCoverFiles
    BY DEF LimitsInv, Knows, Covers, SizesCoverFiles, OneProcess
  <1> QED BY <1>1, <1>2, <1>3, PTL DEF Spec

\* ccache.yo, "keeps the cache below the specified limits at runtime": a driver that
\* updates the counters, or a cleanup that ends, leaves the subdirectory within them.
THEOREM LimitsAreKept == ASSUME OneProcess, NoLimitOfOne PROVE Spec => KeepsBelowLimits
  <1> DEFINE Kept == \A p \in Proc :
                pc[p] = "write" /\ pc'[p] = "idle" /\ job[p].kind \in {"update", "sizes"}
                => Fits(dir, stats')
  <1>1. Init => LimitsInv
    BY InitLimits
  <1>2. LimitsInv /\ [Next]_vars => LimitsInv'
    BY NextLimits
  <1>3. LimitsInv /\ [Next]_vars => [Kept]_vars
    <2> SUFFICES ASSUME LimitsInv, Next, NEW p \in Proc,
                        pc[p] = "write", pc'[p] = "idle", job[p].kind \in {"update", "sizes"}
                 PROVE  Fits(dir, stats')
      OBVIOUS
    <2>1. \A q \in Proc : q = p
      BY DEF OneProcess
    <2>2. Write(p)
      <3>1. pc \in [Proc -> {"idle", "storing", "lock", "write", "traverse", "clean", "wipe"}]
        BY DEF LimitsInv, SizeInv, TypeOK
      <3>2. Run(p) \/ Read(p) \/ Start(p) \/ Crash(p)
        BY <2>1 DEF Next
      <3> QED BY <3>1, <3>2 DEF OneProcess, Run, Start, Read, Crash, Tocache, Broken, Traverse,
             CleanOne, CleanEnd, Wipe, Hit, Store, CleanupAll, WipeAll, Command, MayCompile
    <2>3. stats' = Changed(stats, job[p]) /\ counters[p] = stats' /\ Knows(p) /\ stats' \in Counters
      BY <2>2 DEF Write, LimitsInv, LockInv, Locked, SizeInv, TypeOK
    <2>4. CASE job[p].kind = "sizes"
      BY <2>3, <2>4 DEF Knows
    <2>5. CASE job[p].kind = "update"
      <3>1. ~Exceeded(stats')
        <4>1. pc \in [Proc -> {"idle", "storing", "lock", "write", "traverse", "clean", "wipe"}]
          BY DEF LimitsInv, SizeInv, TypeOK
        <4> QED BY <2>2, <2>3, <2>5, <4>1 DEF Write, Goto
      <3>2. Covers(stats', dir)
        BY <2>3 DEF Knows
      <3>3. /\ stats'.maxfiles \in Nat /\ stats'.maxsize \in Nat
            /\ stats'.numfiles \in Nat /\ stats'.totalsize \in Nat
        BY <2>3 DEF Counters
      <3>4. KB(dir) \in Nat /\ Len(dir) \in Nat
        BY ListSize, FilesOfList DEF LimitsInv, SizeInv, TypeOK
      <3> QED BY <3>1, <3>2, <3>3, <3>4 DEF Exceeded, Covers, Fits
    <2> QED BY <2>4, <2>5
  <1> QED BY <1>1, <1>2, <1>3, PTL DEF Spec, KeepsBelowLimits

\* cleanup.c, sort_and_clean(): what is removed is what was not used for longest.
THEOREM OldestGoFirst == ASSUME OneProcess, NoLimitOfOne PROVE Spec => OldestFirst
  <1> DEFINE Oldest == \A p \in Proc : pc[p] = "clean" /\ dir' # dir => dir' = Tail(dir)
  <1>1. Init => LimitsInv
    BY InitLimits
  <1>2. LimitsInv /\ [Next]_vars => LimitsInv'
    BY NextLimits
  <1>3. LimitsInv /\ [Next]_vars => [Oldest]_vars
    <2> SUFFICES ASSUME LimitsInv, Next, NEW p \in Proc, pc[p] = "clean", dir' # dir
                 PROVE  dir' = Tail(dir)
      OBVIOUS
    <2>1. Run(p) \/ Read(p) \/ Start(p) \/ Crash(p)
      BY DEF OneProcess, Next
    <2>2. CleanOne(p)
      BY <2>1 DEF Run, Start, Read, Crash, Write, Tocache, Broken, Traverse, CleanEnd, Wipe, Hit,
                  Store, CleanupAll, WipeAll, Command, MayCompile
    <2>3. files[p] = dir /\ dir # <<>> /\ IsDir(dir) /\ dir' = RemoveFirst(dir, Head(dir))
      BY <2>2 DEF CleanOne, LimitsInv, Knows, SizeInv, TypeOK
    <2> QED BY <2>3, OldestTakenOut
  <1> QED BY <1>1, <1>2, <1>3, PTL DEF Spec, OldestFirst
=============================================================================
