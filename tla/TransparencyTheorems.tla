------------------------- MODULE TransparencyTheorems -------------------------
(***************************************************************************)
(* Drivers that share a cache give their callers what compilers that share *)
(* nothing would have given, for any number of trees, versions and         *)
(* generated files: a run that ended left the files, the messages and the  *)
(* status of one of the versions that its source had during the run, and   *)
(* the whole implements PlainCompiler.                                     *)
(*                                                                         *)
(* On top of what stands in the cache (RightInv) and of where the          *)
(* temporary files are (NamesInv), the invariant says that no message and  *)
(* no output holds anything that its reader would not expect, that only    *)
(* versions that compile have entries, and which of the generated files    *)
(* are in place at which step of a run.                                    *)
(***************************************************************************)
EXTENDS NamesTheorems

\* The environments for which ccache is transparent: copies, preprocessed
\* text, one kind of build, and no "ccache -C" meanwhile.
Alike == ~WIPE /\ \A t, u \in Tree : Env[t].zlib = Env[u].zlib

Zlib == \E t \in Tree : Env[t].zlib

\* What is under the names of the cache.
CachePure ==
    \A k \in Key :
        /\ \A d \in Contents(fs, Err(k)) : ~d.pp /\ (d.gz => Zlib)
        /\ Fails(k) => ~Has(fs, Err(k))
        /\ \A i \in Files : \A d \in Contents(fs, Obj(k, i)) : d.gz => Zlib

\* What is under a tree's own names.
OwnPure(t) ==
    /\ \A d \in Contents(fs, CErr(t)) : ~d.pp /\ ~d.gz
    /\ \A d \in Contents(fs, Tmp(t, 0)) : ~d.pp /\ (d.gz => Zlib)
    /\ \A d \in Contents(fs, Fd(t)) : ~d.pp /\ (d.gz => Zlib) /\ d.of = key[t]
    /\ \A i \in Files :
          /\ \A d \in Contents(fs, Tmp(t, i)) : d.gz => Zlib
          /\ \A d \in Contents(fs, Out(t, i)) : ~d.gz

\* Where the driver can be with a version that compiles, or does not.
OnTheWay(t) ==
    /\ pc[t] \in Holding \cup {"write"} \/ Compiled(t) => ~Fails(key[t])
    /\ pc[t] = "status" => Fails(key[t])
    /\ pc[t] \in {"list", "retrieve", "rlink", "rcopy", "bad", "idle"} => first[t]
    /\ Busy(t) => Has(fs, Cpp(t)) /\ Has(fs, ITmp(t))

\* The version that a run has hashed, compiles and answers for is one that
\* the source had since the run began.
OfTheRun(t) ==
    /\ pc[t] # "idle" =>
          told[t] = NoReply /\ source[t] \in seen[t] /\ key[t] \in seen[t]
    /\ pc[t] = "execend" => read[t] \in seen[t]
    /\ pc[t] = "idle" /\ told[t] # NoReply =>
          /\ told[t].err.of \in seen[t] /\ told[t].pre = 1 /\ ~told[t].err.gz
          /\ told[t].status = (IF Fails(told[t].err.of) THEN 1 ELSE 0)

\* The generated files that are in place.
InPlaceAt(p, b, n, r) ==
    IF \/ IsCompiled(p) \/ p = "deliver"
       \/ p \in {"open", "stat", "test"} /\ ~b
       \/ p = "idle" /\ r.status = 0
    THEN Files
    ELSE IF p \in {"list", "retrieve", "rlink", "rcopy"} THEN {i \in Files : i < n}
    ELSE {}

Version(t) == IF pc[t] = "idle" THEN told[t].err.of ELSE key[t]

OutsReady(t) ==
    \A i \in InPlaceAt(pc[t], first[t], file[t], told[t]) :
        Contents(fs, Out(t, i)) = {Output(Version(t), i)}

TreeRight(t) == OwnPure(t) /\ OnTheWay(t) /\ OfTheRun(t) /\ OutsReady(t)

TransInv == CachePure /\ \A t \in Tree : TreeRight(t)

-----------------------------------------------------------------------------
\* The invariant says what the checked property says.
LEMMA TransInvImpliesSameAsCompiler ==
    ASSUME TypeInv, TransInv
    PROVE  SameAsCompiler
  <1> SUFFICES ASSUME NEW t \in Tree, Answered(t)
               PROVE  told[t].err.of \in seen[t] /\ LikeCompiler(t, told[t].err.of)
    BY DEF SameAsCompiler
  <1> DEFINE v == told[t].err.of
  <1>1. pc[t] = "idle" /\ told[t] # NoReply /\ TreeRight(t)
    BY DEF Answered, TransInv
  <1>2. told[t] \in Replies
    BY <1>1 DEF TypeInv, Locals
  <1>3. /\ v \in seen[t] /\ told[t].pre = 1 /\ ~told[t].err.gz
        /\ told[t].status = (IF Fails(v) THEN 1 ELSE 0)
    BY <1>1 DEF TreeRight, OfTheRun
  <1>4. told[t].err = [Stderr(v, told[t].err.pp) EXCEPT !.gz = FALSE]
    <2>1. told[t].err \in ErrData
      BY <1>2 DEF Replies
    <2>2. told[t].err = [of |-> v, pp |-> told[t].err.pp, gz |-> told[t].err.gz]
      BY <2>1 DEF ErrData
    <2>3. told[t].err.gz = FALSE
      BY <1>3, <2>1 DEF ErrData
    <2> QED BY <2>2, <2>3 DEF Stderr
  <1>5. ASSUME ~Fails(v), NEW i \in Files
        PROVE  Has(fs, Out(t, i)) /\ Data(fs, Out(t, i)) = Output(v, i)
    <2>1. told[t].status = 0
      BY <1>3, <1>5
    <2>2. i \in InPlaceAt(pc[t], first[t], file[t], told[t])
      BY <1>1, <2>1 DEF InPlaceAt
    <2>3. Contents(fs, Out(t, i)) = {Output(v, i)}
      BY <1>1, <2>2 DEF TreeRight, OutsReady, Version
    <2> QED BY <2>3, ContentsHas
  <1> QED BY <1>3, <1>4, <1>5 DEF LikeCompiler

LEMMA InitTrans == Init => TransInv
  <1> SUFFICES ASSUME Init PROVE TransInv
    OBVIOUS
  <1>1. \A n : Contents(fs, n) = {} /\ ~Has(fs, n)
    BY DEF Init, Contents, Has
  <1>2. ASSUME NEW t \in Tree PROVE TreeRight(t)
    <2>1. pc[t] = "idle" /\ first[t] /\ told[t] = NoReply /\ told[t].status # 0
      BY <1>2 DEF Init, NoReply
    <2>2. InPlaceAt(pc[t], first[t], file[t], told[t]) = {}
      BY <2>1 DEF InPlaceAt, IsCompiled
    <2> QED BY <1>1, <2>1, <2>2 DEF TreeRight, OwnPure, OnTheWay, OfTheRun, OutsReady,
               Compiled, IsCompiled, Busy, IsBusy, Holding
  <1> QED BY <1>1, <1>2 DEF TransInv, CachePure

-----------------------------------------------------------------------------
(* A step of one tree and the other trees. *)

Mine(u) == {ITmp(u), Cpp(u), CErr(u), Fd(u), Tmp(u, 0)}
           \cup {Tmp(u, i) : i \in Files} \cup {Out(u, i) : i \in Files}

Elsewhere(t) ==
    \A u \in Tree \ {t} :
        /\ source'[u] = source[u] /\ pc'[u] = pc[u] /\ key'[u] = key[u]
        /\ file'[u] = file[u] /\ first'[u] = first[u] /\ read'[u] = read[u]
        /\ told'[u] = told[u] /\ seen'[u] = seen[u]

\* The names that a step of t's driver may touch.
Touches(t) == \A n : n \notin Makes(t) => Contents(fs', n) = Contents(fs, n)

LEMMA OthersRight ==
    ASSUME TransInv, NEW t \in Tree, Elsewhere(t), Touches(t), NEW u \in Tree \ {t}
    PROVE  TreeRight(u)'
  <1>1. \A n \in Mine(u) : Contents(fs', n) = Contents(fs, n)
    BY NotMade DEF Touches, Mine
  <1>2. \A n \in Mine(u) : Has(fs', n) <=> Has(fs, n)
    BY <1>1, ContentsHas
  <1>3. TreeRight(u)
    BY DEF TransInv
  <1>4. OwnPure(u)'
    BY <1>1, <1>3 DEF TreeRight, OwnPure, Elsewhere, Mine
  <1>5. OnTheWay(u)' /\ OfTheRun(u)'
    BY <1>2, <1>3 DEF TreeRight, OnTheWay, OfTheRun, Elsewhere, Mine, Compiled, Busy
  <1>6. OutsReady(u)'
    <2>1. \A i \in InPlaceAt(pc[u], first[u], file[u], told[u]) : i \in Files
      BY DEF InPlaceAt
    <2> QED BY <1>1, <1>3, <2>1 DEF TreeRight, OutsReady, Version, Elsewhere, Mine
  <1> QED BY <1>4, <1>5, <1>6 DEF TreeRight

LEMMA StepTrans ==
    ASSUME TransInv, NEW t \in Tree, Elsewhere(t), Touches(t),
           CachePure', TreeRight(t)'
    PROVE  TransInv'
  BY OthersRight DEF TransInv

\* Steps that only remove files.
Shrinks(ns) == \A n : Contents(fs', n) = IF n \in ns THEN {} ELSE Contents(fs, n)

LEMMA RemovingTrans ==
    ASSUME TransInv, NEW t \in Tree, Elsewhere(t), NEW ns \in SUBSET Makes(t),
           Shrinks(ns), key'[t] = key[t], OnTheWay(t)', OfTheRun(t)', OutsReady(t)'
    PROVE  TransInv'
  <1>1. \A n : Contents(fs', n) \subseteq Contents(fs, n)
    BY DEF Shrinks
  <1>2. \A n : Has(fs', n) => Has(fs, n)
    BY <1>1, ContentsHas
  <1>3. Touches(t)
    BY DEF Shrinks, Touches
  <1>4. CachePure'
    BY <1>1, <1>2 DEF TransInv, CachePure
  <1>5. OwnPure(t)'
    BY <1>1 DEF TransInv, TreeRight, OwnPure
  <1> QED BY <1>3, <1>4, <1>5, StepTrans DEF TreeRight

\* What the compiler's writes leave under each name.
LEMMA ContentsWriteOuts ==
    ASSUME NEW s, NEW K, Conforms(s, Names, AnyData, K), Own(s),
           NEW t \in Tree, NEW v, NEW done
    PROVE  /\ \A n : n \notin Outs(t) =>
                 Contents(WriteOuts(s, t, v, done), n) = Contents(s, n)
           /\ \A i \in Files : Contents(WriteOuts(s, t, v, done), Out(t, i)) =
                                  {[Output(v, i) EXCEPT !.whole = done]}
  <1> DEFINE D(i) == [Output(v, i) EXCEPT !.whole = done]
             M(f) == \E i \in Files : Out(t, i) \in f.names
             C(f) == CHOOSE i \in Files : Out(t, i) \in f.names
             W(f) == IF M(f) THEN [f EXCEPT !.data = D(C(f))] ELSE f
             old == {W(f) : f \in s}
             N(i) == [names |-> {Out(t, i)}, data |-> D(i)]
             new == {N(i) : i \in {j \in Files : ~Has(s, Out(t, j))}}
  <1>1. WriteOuts(s, t, v, done) = old \cup new
    BY DEF WriteOuts
  <1>2. \A i \in Files : N(i).names = {Out(t, i)} /\ N(i).data = D(i)
    OBVIOUS
  <1>3. \A i, j \in Files : Out(t, i) = Out(t, j) => i = j
    BY DEF Out
  <1> HIDE DEF D, N
  <1>4. ASSUME NEW f \in s, NEW i \in Files, Out(t, i) \in f.names
        PROVE  W(f).names = {Out(t, i)} /\ W(f).data = D(i) /\ f.names = {Out(t, i)}
    <2>1. C(f) \in Files /\ Out(t, C(f)) \in f.names /\ M(f)
      BY <1>4
    <2> HIDE DEF C, M
    <2>2. f.names = {Out(t, i)} /\ C(f) = i
      BY <1>3, <1>4, <2>1 DEF Own
    <2>3. W(f) = [f EXCEPT !.data = D(i)] /\ f \in [names : SUBSET Names, data : AnyData]
      BY <2>1, <2>2 DEF Conforms
    <2> QED BY <2>2, <2>3
  <1>5. ASSUME NEW f \in s, ~M(f) PROVE W(f) = f
    BY <1>5
  <1>6. \A f : f \in old \cup new <=> \/ \E g \in s : f = W(g)
                                      \/ \E i \in Files : ~Has(s, Out(t, i)) /\ f = N(i)
    OBVIOUS
  <1> HIDE DEF W, old, new
  <1>7. ASSUME NEW n, n \notin Outs(t)
        PROVE  Contents(old \cup new, n) = Contents(s, n)
    <2>1. \A i \in Files : n # Out(t, i)
      BY <1>7 DEF Outs
    <2>2. ASSUME NEW g \in s
          PROVE  n \in W(g).names <=> n \in g.names
      BY <1>4, <1>5, <2>1
    <2>3. ASSUME NEW g \in s, n \in g.names
          PROVE  W(g) = g
      BY <1>4, <1>5, <2>1, <2>3
    <2>4. \A d : d \in Contents(old \cup new, n) <=>
                    \E f \in old \cup new : n \in f.names /\ f.data = d
      BY DEF Contents
    <2>5. \A d : d \in Contents(s, n) <=> \E f \in s : n \in f.names /\ f.data = d
      BY DEF Contents
    <2>6. \A d : d \in Contents(old \cup new, n) => d \in Contents(s, n)
      BY <1>2, <1>6, <2>1, <2>2, <2>3, <2>4, <2>5
    <2>7. \A d : d \in Contents(s, n) => d \in Contents(old \cup new, n)
      BY <1>6, <2>2, <2>3, <2>4, <2>5
    <2> QED BY <2>6, <2>7
  <1>8. ASSUME NEW i \in Files
        PROVE  Contents(old \cup new, Out(t, i)) = {D(i)}
    <2>1. \A d : d \in Contents(old \cup new, Out(t, i)) <=>
                    \E f \in old \cup new : Out(t, i) \in f.names /\ f.data = d
      BY DEF Contents
    <2>2. ASSUME NEW f \in old \cup new, Out(t, i) \in f.names
          PROVE  f.data = D(i)
      <3>1. CASE \E g \in s : f = W(g)
        <4>1. PICK g \in s : f = W(g)
          BY <3>1
        <4>2. M(g)
          BY <1>5, <2>2, <4>1
        <4>3. PICK j \in Files : Out(t, j) \in g.names
          BY <4>2
        <4> QED BY <1>3, <1>4, <2>2, <4>1, <4>3
      <3>2. CASE \E j \in Files : f = N(j)
        BY <1>2, <1>3, <2>2, <3>2
      <3> QED BY <1>6, <3>1, <3>2
    <2>3. \E f \in old \cup new : Out(t, i) \in f.names
      <3>1. CASE Has(s, Out(t, i))
        <4>1. PICK g \in s : Out(t, i) \in g.names
          BY <3>1 DEF Has
        <4> QED BY <1>4, <1>6, <4>1
      <3>2. CASE ~Has(s, Out(t, i))
        BY <1>2, <1>6, <3>2
      <3> QED BY <3>1, <3>2
    <2> QED BY <2>1, <2>2, <2>3
  <1> QED BY <1>1, <1>7, <1>8 DEF D

LEMMA ContentsLogged ==
    ASSUME NEW s, NEW t \in Tree, NEW v, NEW n
    PROVE  /\ n \notin {COut(t), CErr(t), CLst(t)} =>
                 Contents(Logged(s, t, v), n) = Contents(s, n)
           /\ Contents(Logged(s, t, v), CErr(t)) =
                 Contents(s, CErr(t)) \cup {Stderr(v, Env[t].input # "cpp")}
  <1> DEFINE e == Stderr(v, Env[t].input # "cpp")
             a == Create(s, COut(t), [of |-> v])
             b == Create(a, CErr(t), e)
             c == Create(b, CLst(t), [of |-> v])
  <1>1. COut(t) # CErr(t) /\ CErr(t) # CLst(t)
    BY DEF COut, CErr, CLst
  <1>2. \A m : Contents(a, m) = IF m = COut(t) THEN Contents(s, m) \cup {[of |-> v]}
                                ELSE Contents(s, m)
    BY ContentsCreate
  <1> HIDE DEF a, e
  <1>3. \A m : Contents(b, m) = IF m = CErr(t) THEN Contents(a, m) \cup {e}
                                ELSE Contents(a, m)
    BY ContentsCreate
  <1> HIDE DEF b
  <1>4. \A m : Contents(c, m) = IF m = CLst(t) THEN Contents(b, m) \cup {[of |-> v]}
                                ELSE Contents(b, m)
    BY ContentsCreate
  <1> HIDE DEF c
  <1>5. Logged(s, t, v) = IF SWIG THEN c ELSE b
    BY DEF Logged, a, b, c, e
  <1> QED BY <1>1, <1>2, <1>3, <1>4, <1>5 DEF e

-----------------------------------------------------------------------------
(* One lemma per kind of action, on all that is known of a tree before it. *)
Inv == TypeInv /\ RightInv /\ NamesInv /\ TransInv

Known(t) ==
    /\ Usual(t) /\ TreeRight(t) /\ CachePure /\ Own(fs)
    /\ Conforms(fs, Names, AnyData, Allowed(pc, key))
    /\ source \in [Tree -> Key] /\ key \in [Tree -> Key] /\ read \in [Tree -> Key]
    /\ told \in [Tree -> Replies \cup {NoReply}] /\ seen \in [Tree -> SUBSET Key]
    /\ Env[t].input = "cpp"

LEMMA TheKnown ==
    ASSUME Copying, Inv, NEW t \in Tree
    PROVE  Known(t)
  BY TheUsual DEF Inv, Known, TransInv, RightInv, TypeInv, Locals, Copying

LEMMA TheMade ==
    ASSUME NEW t \in Tree
    PROVE  /\ {ITmp(t), Cpp(t), COut(t), CErr(t), CLst(t), Fd(t), Tmp(t, 0)} \subseteq Makes(t)
           /\ \A i \in Files : Out(t, i) \in Makes(t) /\ Tmp(t, i) \in Makes(t)
           /\ \A k \in Key : Err(k) \in Makes(t) /\ Lst(k) \in Makes(t)
           /\ \A k \in Key, i \in Files : Obj(k, i) \in Makes(t)
           /\ Outs(t) \subseteq Makes(t)
  BY DEF Makes, Entries, Temps, Tmps, Outs

\* Which names differ, as far as the following needs it.
LEMMA Apart ==
    ASSUME NEW t \in Tree, NEW i
    PROVE  /\ \A k, j : Out(t, i) \notin {ITmp(t), Cpp(t), COut(t), CErr(t), CLst(t), Fd(t),
                                       Err(k), Lst(k), Obj(k, j), Tmp(t, j)}
           /\ \A j : Out(t, i) = Out(t, j) <=> i = j
           /\ \A k, j : {ITmp(t), Cpp(t)} \cap {COut(t), CErr(t), CLst(t), Fd(t), Err(k), Lst(k),
                                       Obj(k, j), Tmp(t, j), Out(t, j)} = {}
           /\ ITmp(t) # Cpp(t)
  <1>1. \A j : Out(t, i) = Out(t, j) <=> i = j
    BY DEF Out
  <1>2. \A k, j : /\ Out(t, i)[1] = "out" /\ ITmp(t)[1] = "itmp" /\ Cpp(t)[1] = "cpp"
                  /\ Out(t, j)[1] = "out" /\ Tmp(t, j)[1] = "tmp"
                  /\ COut(t)[1] = "cout" /\ CErr(t)[1] = "cerr" /\ CLst(t)[1] = "clst"
                  /\ Fd(t)[1] = "fd" /\ Err(k)[1] = "err" /\ Lst(k)[1] = "lst"
                  /\ Obj(k, j)[1] = "obj"
    BY Heads
  <1>3. ASSUME NEW k, NEW j
        PROVE  Out(t, i) \notin {ITmp(t), Cpp(t), COut(t), CErr(t), CLst(t), Fd(t),
                                Err(k), Lst(k), Obj(k, j), Tmp(t, j)}
    BY <1>2
  <1>4. ASSUME NEW k, NEW j
        PROVE  {ITmp(t), Cpp(t)} \cap {COut(t), CErr(t), CLst(t), Fd(t), Err(k), Lst(k),
                                      Obj(k, j), Tmp(t, j), Out(t, j)} = {}
    BY <1>2
  <1> QED BY <1>1, <1>2, <1>3, <1>4

LEMMA Shrinking ==
    ASSUME TypeInv, NEW ns
    PROVE  /\ fs' = Remove(fs, ns) => Shrinks(ns)
           /\ fs' = fs => Shrinks({})
  BY ContentsRemove DEF TypeInv, Sorted, Shrinks

LEMMA ShrinkingHas ==
    ASSUME NEW ns, Shrinks(ns)
    PROVE  \A n : Has(fs', n) <=> Has(fs, n) /\ n \notin ns
  BY ContentsHas DEF Shrinks

\* from_cache(): looking at the entry
LEMMA LooksOnlyTrans ==
    ASSUME Copying, Inv, NEW t \in Tree, LooksOnly(t)
    PROVE  TransInv'
  <1> USE DEF Goto, SetFile
  <1>1. Known(t)
    BY TheKnown
  <1>2. /\ UNCHANGED <<source, key, first, read, told, seen>>
        /\ file' = file \/ file' = [file EXCEPT ![t] = 1]
        /\ \E l \in Labels : pc' = [pc EXCEPT ![t] = l]
    BY DEF LooksOnly, StatObject, TestEntry, Drop, OpenList, Retrieve, DropFreed,
           Missed, Labels
  <1>3. Elsewhere(t)
    BY <1>1, <1>2 DEF Elsewhere, Known, Usual
  <1>4. pc[t] \in Looking /\ pc[t] \notin {"open", "rlink", "rcopy", "deliver"}
    BY DEF LooksOnly, StatObject, TestEntry, Drop, OpenList, Retrieve, DropFreed,
           Looking, Holding
  <1> DEFINE R == InPlaceAt(pc[t], first[t], file[t], told[t])
             Q == InPlaceAt(pc'[t], first'[t], file'[t], told'[t])
  <1>5. PICK ns : /\ ns \subseteq {Fd(t), Err(key[t]), Out(t, file[t])}
                  /\ Out(t, file[t]) \in ns => file[t] \in Files
                  /\ Shrinks(ns)
                  /\ \A i \in Q : i \in R /\ Out(t, i) \notin ns
                  /\ \/ pc'[t] \in Holding /\ pc[t] \in Holding
                     \/ pc'[t] \in {"drop", "compile", "exec"}
                  /\ pc'[t] \in {"list", "retrieve", "rlink", "rcopy", "bad"} => first[t]
    <2> USE DEF Known, Usual
    <2>1. CASE StatObject(t)
      <3>1. CASE Has(fs, Obj(key[t], 1))
        <4>1. fs' = fs /\ pc'[t] = "test" /\ pc[t] = "stat" /\ file' = file
          BY <1>1, <2>1, <3>1 DEF StatObject
        <4>2. Q = R
          BY <1>2, <4>1 DEF InPlaceAt, IsCompiled
        <4> QED BY <4>1, <4>2, Shrinking DEF Inv, Holding
      <3>2. CASE ~Has(fs, Obj(key[t], 1))
        <4>1. fs' = Remove(fs, {Fd(t)}) /\ pc'[t] = "drop"
          BY <1>1, <2>1, <3>2 DEF StatObject
        <4>2. Q = {}
          BY <4>1 DEF InPlaceAt, IsCompiled
        <4> QED BY <4>1, <4>2, Shrinking, Apart DEF Inv
      <3> QED BY <3>1, <3>2
    <2>2. CASE TestEntry(t)
      <3>1. pc[t] = "test" /\ file'[t] = 1
        BY <1>1, <2>2 DEF TestEntry
      <3>2. CASE fs' = Remove(fs, {Fd(t)}) /\ pc'[t] = "drop"
        <4>1. Q = {}
          BY <3>2 DEF InPlaceAt, IsCompiled
        <4> QED BY <3>2, <4>1, Shrinking, Apart DEF Inv
      <3>3. CASE fs' = fs /\ pc'[t] = "deliver" /\ ~first[t]
        <4>1. Q = R
          BY <3>1, <3>3 DEF InPlaceAt, IsCompiled
        <4> QED BY <3>1, <3>3, <4>1, Shrinking DEF Inv, Holding
      <3>4. CASE fs' = fs /\ pc'[t] \in {"list", "retrieve"} /\ first[t]
        <4>1. Q = {}
          BY <3>1, <3>4 DEF InPlaceAt, IsCompiled, Files
        <4> QED BY <3>1, <3>4, <4>1, Shrinking DEF Inv, Holding
      <3> QED BY <1>1, <2>2, <3>2, <3>3, <3>4 DEF TestEntry
    <2>3. CASE Drop(t)
      <3>1. fs' = Remove(fs, {Err(key[t])}) /\ pc'[t] \in {"compile", "exec"}
        BY <1>1, <2>3 DEF Drop, Missed
      <3>2. Q = {}
        BY <3>1 DEF InPlaceAt, IsCompiled
      <3> QED BY <3>1, <3>2, Shrinking, Apart DEF Inv
    <2>4. CASE OpenList(t)
      <3>1. fs' = fs /\ pc'[t] \in {"retrieve", "bad"} /\ pc[t] = "list" /\ file' = file
        BY <1>1, <2>4 DEF OpenList
      <3>2. Q \subseteq R /\ first[t]
        BY <1>1, <1>2, <3>1 DEF InPlaceAt, IsCompiled, TreeRight, OnTheWay
      <3> QED BY <3>1, <3>2, Shrinking DEF Inv, Holding
    <2>5. CASE Retrieve(t)
      <3>1. /\ fs' = Remove(fs, {Out(t, file[t])}) /\ pc'[t] \in {"rlink", "rcopy"}
            /\ pc[t] = "retrieve" /\ file' = file
        BY <1>1, <2>5 DEF Retrieve
      <3>2. Q = R /\ first[t] /\ R = {i \in Files : i < file[t]} /\ file[t] \in Files
        BY <1>1, <1>2, <3>1 DEF InPlaceAt, IsCompiled, TreeRight, OnTheWay, InHand
      <3> HIDE DEF R, Q
      <3>3. \A i \in R : i # file[t]
        BY <3>2, Numbers
      <3> QED BY <3>1, <3>2, <3>3, Shrinking, Apart DEF Inv, Holding
    <2>6. CASE DropFreed(t)
      <3>1. /\ pc'[t] \in {"compile", "exec"}
            /\ fs' = Remove(fs, {Fd(t)}) \/ fs' = Remove(fs, {Fd(t), Err(key[t])})
        BY <1>1, <2>6 DEF DropFreed, Missed
      <3>2. Q = {}
        BY <3>1 DEF InPlaceAt, IsCompiled
      <3> QED BY <3>1, <3>2, Shrinking, Apart DEF Inv
    <2> QED BY <2>1, <2>2, <2>3, <2>4, <2>5, <2>6 DEF LooksOnly
  <1> HIDE DEF R, Q
  <1>6. Cpp(t) \notin ns /\ ITmp(t) \notin ns /\ ns \in SUBSET Makes(t)
    <2>1. key[t] \in Key
      BY <1>1 DEF Known, Usual
    <2>2. /\ {Cpp(t), ITmp(t)} \cap {Fd(t), Err(key[t]), Out(t, file[t])} = {}
          /\ Fd(t) \in Makes(t) /\ Err(key[t]) \in Makes(t)
          /\ file[t] \in Files => Out(t, file[t]) \in Makes(t)
      BY <2>1, Apart, TheMade
    <2> QED BY <1>5, <2>2
  <1>7. Busy(t) /\ ~Compiled(t) /\ pc[t] # "idle" /\ pc[t] # "execend"
    BY <1>4 DEF Busy, IsBusy, Compiled, IsCompiled, Looking, Holding
  <1>8. OnTheWay(t)'
    <2>1. Has(fs', Cpp(t)) /\ Has(fs', ITmp(t))
      BY <1>1, <1>5, <1>6, <1>7, ShrinkingHas DEF Known, TreeRight, OnTheWay
    <2>2. ~Compiled(t)' /\ pc'[t] \notin {"write", "status", "idle"}
      BY <1>5 DEF Holding, Compiled, IsCompiled
    <2>3. pc'[t] \in Holding => ~Fails(key[t])
      BY <1>1, <1>5 DEF Known, TreeRight, OnTheWay, Holding
    <2> QED BY <1>2, <1>5, <2>1, <2>2, <2>3 DEF OnTheWay
  <1>9. OfTheRun(t)'
    BY <1>1, <1>2, <1>5, <1>7 DEF Known, TreeRight, OfTheRun, Holding
  <1>10. OutsReady(t)'
    <2>1. pc'[t] # "idle"
      BY <1>5 DEF Holding
    <2>2. ASSUME NEW i \in Q PROVE Contents(fs', Out(t, i)) = {Output(key[t], i)}
      <3>1. i \in R /\ Out(t, i) \notin ns
        BY <1>5
      <3>2. Contents(fs, Out(t, i)) = {Output(key[t], i)}
        BY <1>1, <1>7, <3>1 DEF Known, TreeRight, OutsReady, Version, R
      <3> QED BY <1>5, <3>1, <3>2 DEF Shrinks
    <2> QED BY <1>2, <2>1, <2>2 DEF OutsReady, Version, Q
  <1> QED BY <1>2, <1>3, <1>5, <1>6, <1>8, <1>9, <1>10, RemovingTrans DEF Inv

LEMMA OpenStderrTrans ==
    ASSUME Copying, Inv, NEW t \in Tree, OpenStderr(t)
    PROVE  TransInv'
  <1>1. Known(t)
    BY TheKnown
  <1>2. /\ UNCHANGED <<source, key, file, first, read, told, seen>> /\ pc[t] = "open"
        /\ key[t] \in Key /\ \E l : pc' = [pc EXCEPT ![t] = l]
    BY <1>1 DEF OpenStderr, Goto, Known, Usual
  <1>3. Elsewhere(t)
    BY <1>1, <1>2 DEF Elsewhere, Known, Usual
  <1>4. Has(fs, Cpp(t)) /\ Has(fs, ITmp(t))
    BY <1>1, <1>2 DEF Known, TreeRight, OnTheWay, Busy, IsBusy
  <1>5. CASE Has(fs, Err(key[t]))
    <2>1. fs' = Link(fs, Err(key[t]), Fd(t)) /\ pc'[t] = "stat"
      BY <1>1, <1>5 DEF OpenStderr, Goto, Known, Usual
    <2>2. ~Fails(key[t])
      BY <1>1, <1>2, <1>5 DEF Known, CachePure
    <2>3. \A n : Contents(fs', n) = IF n = Fd(t)
                    THEN Contents(fs, Err(key[t])) \cup Contents(fs, Fd(t))
                    ELSE Contents(fs, n)
      BY <1>1, <2>1, ContentsLink DEF Known, Usual
    <2>4. Touches(t)
      BY <2>3, TheMade DEF Touches
    <2>5. /\ \A n \in {Cpp(t), ITmp(t)} : n # Fd(t)
          /\ \A k \in Key : Err(k) # Fd(t) /\ \A i : Obj(k, i) # Fd(t)
          /\ CErr(t) # Fd(t) /\ \A i : Tmp(t, i) # Fd(t) /\ Out(t, i) # Fd(t)
      BY Heads
    <2>6. CachePure'
      <3>1. \A k \in Key : /\ Contents(fs', Err(k)) = Contents(fs, Err(k))
                           /\ \A i : Contents(fs', Obj(k, i)) = Contents(fs, Obj(k, i))
                           /\ Has(fs', Err(k)) => Has(fs, Err(k))
        BY <2>3, <2>5, ContentsHas
      <3> QED BY <1>1, <3>1 DEF Known, CachePure
    <2>7. OwnPure(t)'
      <3>1. \A d \in Contents(fs, Err(key[t])) : d.of = key[t] /\ ~d.pp /\ (d.gz => Zlib)
        <4>1. Contents(fs, Err(key[t])) \subseteq Allowed(pc, key)[Err(key[t])]
          BY <1>1, ContentsConform DEF Known
        <4> QED BY <1>1, <1>2, <4>1, ErrAllowed DEF Known, CachePure
      <3>2. \A d \in Contents(fs', Fd(t)) : ~d.pp /\ (d.gz => Zlib) /\ d.of = key'[t]
        BY <1>1, <1>2, <2>3, <3>1 DEF Known, TreeRight, OwnPure
      <3>3. /\ Contents(fs', CErr(t)) = Contents(fs, CErr(t))
            /\ \A i : /\ Contents(fs', Tmp(t, i)) = Contents(fs, Tmp(t, i))
                      /\ Contents(fs', Out(t, i)) = Contents(fs, Out(t, i))
        BY <2>3, <2>5
      <3> QED BY <1>1, <3>2, <3>3 DEF Known, TreeRight, OwnPure
    <2>8. OnTheWay(t)'
      <3>1. Has(fs', Cpp(t)) /\ Has(fs', ITmp(t))
        BY <1>4, <2>3, <2>5, ContentsHas
      <3> QED BY <1>2, <2>1, <2>2, <3>1 DEF OnTheWay, Compiled, IsCompiled
    <2>9. OfTheRun(t)'
      BY <1>1, <1>2, <2>1 DEF Known, TreeRight, OfTheRun
    <2>10. OutsReady(t)'
      <3>1. InPlaceAt("stat", first[t], file[t], told[t]) = InPlaceAt(pc[t], first[t], file[t], told[t])
        BY <1>2 DEF InPlaceAt, IsCompiled
      <3>2. \A i : Contents(fs', Out(t, i)) = Contents(fs, Out(t, i))
        BY <2>3, <2>5
      <3> QED BY <1>1, <1>2, <2>1, <3>1, <3>2 DEF Known, TreeRight, OutsReady, Version
    <2> QED BY <1>3, <2>4, <2>6, <2>7, <2>8, <2>9, <2>10, StepTrans DEF Inv, TreeRight
  <1>6. CASE ~Has(fs, Err(key[t]))
    <2>1. fs' = fs /\ pc'[t] \in {"compile", "exec"}
      BY <1>1, <1>6 DEF OpenStderr, Goto, Known, Usual, Missed
    <2>2. Shrinks({})
      BY <2>1, Shrinking DEF Inv
    <2>3. OnTheWay(t)' /\ OfTheRun(t)'
      BY <1>1, <1>2, <1>4, <2>1 DEF Known, TreeRight, OnTheWay, OfTheRun, Holding,
                                    Compiled, IsCompiled
    <2>4. OutsReady(t)'
      BY <2>1 DEF OutsReady, InPlaceAt, IsCompiled
    <2> QED BY <1>2, <1>3, <2>2, <2>3, <2>4, RemovingTrans DEF Inv
  <1> QED BY <1>5, <1>6

\* What a driver reads from the cache is readable, of whatever build.
LEMMA UnpackedIs ==
    ASSUME Alike, NEW t \in Tree, NEW d \in OutData \cup ErrData, d.gz => Zlib
    PROVE  Unpacked(t, d) = [d EXCEPT !.gz = FALSE] /\ Unpacked(t, d).of = d.of
  <1>1. d.gz => Env[t].zlib
    BY DEF Alike, Zlib
  <1>2. (d.gz /\ ~Env[t].zlib) = FALSE
    BY <1>1
  <1>3. Unpacked(t, d) = [d EXCEPT !.gz = d.gz /\ ~Env[t].zlib]
    BY DEF Unpacked
  <1>4. Unpacked(t, d) = [d EXCEPT !.gz = FALSE]
    BY <1>2, <1>3
  <1>5. [d EXCEPT !.gz = FALSE].of = d.of
    BY DEF OutData, ErrData
  <1> QED BY <1>4, <1>5

LEMMA OutputIs ==
    ASSUME NEW d \in OutData, d.whole
    PROVE  [d EXCEPT !.gz = FALSE] = Output(d.of, d.part)
  <1>1. d = [of |-> d.of, part |-> d.part, gz |-> d.gz, whole |-> TRUE]
    BY DEF OutData
  <1> DEFINE e == [d EXCEPT !.gz = FALSE]
  <1>2. /\ DOMAIN e = {"of", "part", "gz", "whole"}
        /\ e = [x \in DOMAIN e |-> e[x]]
    BY <1>1
  <1>3. e["of"] = d.of /\ e["part"] = d.part /\ e["gz"] = FALSE /\ e["whole"] = TRUE
    BY <1>1
  <1> HIDE DEF e
  <1>4. e = [of |-> d.of, part |-> d.part, gz |-> FALSE, whole |-> TRUE]
    BY <1>2, <1>3
  <1> QED BY <1>4 DEF Output, e

\* retrieve_from_cache(): one more of the generated files is in place.
LEMMA RetrieveCopyTrans ==
    ASSUME Copying, Alike, Inv, NEW t \in Tree, RetrieveCopy(t)
    PROVE  TransInv'
  <1> DEFINE o == Obj(key[t], file[t])
             x == Out(t, file[t])
             m == Remove(fs, {x})
  <1>1. Known(t) /\ TypeInv
    BY TheKnown DEF Inv
  <1>2. /\ UNCHANGED <<source, key, first, read, told, seen>> /\ pc[t] = "rcopy"
        /\ key[t] \in Key /\ file[t] \in Files /\ first[t] /\ ~Fails(key[t])
        /\ Has(fs, Cpp(t)) /\ Has(fs, ITmp(t))
    BY <1>1 DEF RetrieveCopy, Known, Usual, InHand, TreeRight, OnTheWay, Holding, Busy, IsBusy
  <1>3. /\ \E l : pc' = [pc EXCEPT ![t] = l]
        /\ \E n : file' = [file EXCEPT ![t] = n] \/ file' = file
    BY DEF RetrieveCopy, Retrieved, Goto, SetFile
  <1>4. Elsewhere(t)
    BY <1>1, <1>2, <1>3 DEF Elsewhere, Known, Usual
  <1>5. CASE pc'[t] = "bad" /\ fs' = fs
    <2>1. Shrinks({})
      BY <1>1, <1>5, Shrinking
    <2>2. OnTheWay(t)' /\ OfTheRun(t)'
      BY <1>1, <1>2, <1>5 DEF Known, TreeRight, OnTheWay, OfTheRun, Compiled, IsCompiled
    <2>3. OutsReady(t)'
      BY <1>5 DEF OutsReady, InPlaceAt, IsCompiled
    <2> QED BY <1>2, <1>4, <2>1, <2>2, <2>3, RemovingTrans DEF Inv
  <1>6. CASE /\ Has(fs, o) /\ Retrieved(t)
             /\ fs' = Create(m, x, Unpacked(t, Data(fs, o)))
    <2> DEFINE d == Data(fs, o)
               w == Output(key[t], file[t])
    <2>1. Unpacked(t, d) = w
      <3>1. d \in Contents(fs, o)
        BY <1>6, ContentsHas
      <3>2. d \in Allowed(pc, key)[o]
        BY <1>1, <3>1, ContentsConform DEF Known
      <3>3. d \in OutData /\ d.part = file[t] /\ d.of = key[t] /\ d.whole
        BY <1>2, <3>2, ObjIs
      <3>4. d.gz => Zlib
        BY <1>1, <1>2, <3>1 DEF Known, CachePure
      <3> HIDE DEF d
      <3> QED BY <3>3, <3>4, UnpackedIs, OutputIs
    <2>2. \A n : Contents(m, n) = IF n = x THEN {} ELSE Contents(fs, n)
      BY <1>1, ContentsRemove DEF Known
    <2> HIDE DEF d, m
    <2>3. fs' = Create(m, x, w)
      BY <1>6, <2>1 DEF d
    <2> HIDE DEF w
    <2>4. \A n : Contents(fs', n) = IF n = x THEN {w} ELSE Contents(fs, n)
      BY <2>2, <2>3, ContentsCreate
    <2>5. Touches(t)
      BY <1>2, <2>4, TheMade DEF Touches
    <2>6. \A n \in {ITmp(t), Cpp(t), CErr(t), Fd(t)} \cup {Err(k) : k \in Key} :
              n # x
      BY Apart
    <2>7. \A i, k : x # Obj(k, i) /\ x # Tmp(t, i) /\ (Out(t, i) = x <=> i = file[t])
      BY Apart
    <2>8. CachePure'
      <3>1. \A k \in Key : /\ Contents(fs', Err(k)) = Contents(fs, Err(k))
                           /\ \A i : Contents(fs', Obj(k, i)) = Contents(fs, Obj(k, i))
                           /\ Has(fs', Err(k)) => Has(fs, Err(k))
        BY <2>4, <2>6, <2>7, ContentsHas
      <3> QED BY <1>1, <3>1 DEF Known, CachePure
    <2>9. OwnPure(t)'
      <3>1. /\ Contents(fs', CErr(t)) = Contents(fs, CErr(t))
            /\ Contents(fs', Fd(t)) = Contents(fs, Fd(t))
            /\ \A i : Contents(fs', Tmp(t, i)) = Contents(fs, Tmp(t, i))
        BY <2>4, <2>6, <2>7
      <3>2. \A i \in Files : \A e \in Contents(fs', Out(t, i)) : ~e.gz
        BY <1>1, <2>4 DEF Known, TreeRight, OwnPure, w, Output
      <3> QED BY <1>1, <1>2, <3>1, <3>2 DEF Known, TreeRight, OwnPure
    <2>10. /\ \/ pc'[t] = "retrieve" /\ file'[t] = file[t] + 1
              \/ pc'[t] = "deliver" /\ file[t] = NFiles
      BY <1>1, <1>2, <1>6, FilesAssumption DEF Retrieved, Goto, SetFile, Known, Usual, Files
    <2>11. OnTheWay(t)'
      <3>1. Has(fs', Cpp(t)) /\ Has(fs', ITmp(t))
        BY <1>2, <2>4, <2>6, ContentsHas
      <3> QED BY <1>2, <2>10, <3>1 DEF OnTheWay, Compiled, IsCompiled
    <2>12. OfTheRun(t)'
      BY <1>1, <1>2, <2>10 DEF Known, TreeRight, OfTheRun
    <2>13. OutsReady(t)'
      <3>1. InPlaceAt(pc[t], first[t], file[t], told[t]) = {i \in Files : i < file[t]}
        BY <1>2 DEF InPlaceAt, IsCompiled
      <3>2. \A i \in InPlaceAt(pc'[t], first'[t], file'[t], told'[t]) :
                (i \in Files /\ i < file[t]) \/ i = file[t]
        <4>1. CASE pc'[t] = "retrieve" /\ file'[t] = file[t] + 1
          BY <1>2, <4>1, Numbers DEF InPlaceAt, IsCompiled, Files
        <4>2. CASE pc'[t] = "deliver" /\ file[t] = NFiles
          BY <1>2, <4>2, Numbers DEF InPlaceAt, IsCompiled, Files
        <4> QED BY <2>10, <4>1, <4>2
      <3>3. ASSUME NEW i, (i \in Files /\ i < file[t]) \/ i = file[t]
            PROVE  Contents(fs', Out(t, i)) = {Output(key[t], i)}
        <4>1. CASE i = file[t]
          BY <2>4, <4>1 DEF w
        <4>2. CASE i # file[t]
          <5>1. Contents(fs, Out(t, i)) = {Output(key[t], i)}
            BY <1>1, <1>2, <3>1, <3>3, <4>2 DEF Known, TreeRight, OutsReady, Version
          <5> QED BY <2>4, <2>7, <4>2, <5>1
        <4> QED BY <4>1, <4>2
      <3> QED BY <1>2, <2>10, <3>2, <3>3 DEF OutsReady, Version
    <2> QED BY <1>4, <2>5, <2>8, <2>9, <2>11, <2>12, <2>13, StepTrans DEF Inv, TreeRight
  <1> QED BY <1>1, <1>5, <1>6 DEF RetrieveCopy, Known, Usual, Goto

\* The driver goes to l and to the i-th file; what it knows stays.
Moves(t, l) ==
    /\ pc' = [pc EXCEPT ![t] = l]
    /\ \/ file' = file \/ \E n : file' = [file EXCEPT ![t] = n]
    /\ \/ first' = first \/ \E b : first' = [first EXCEPT ![t] = b]
    /\ UNCHANGED <<source, key, read, seen>>

LEMMA MovesElsewhere ==
    ASSUME NEW t \in Tree, Known(t), NEW l, Moves(t, l),
           told' = told \/ \E r : told' = [told EXCEPT ![t] = r]
    PROVE  Elsewhere(t) /\ pc'[t] = l /\ key'[t] = key[t] /\ seen'[t] = seen[t]
  BY DEF Moves, Elsewhere, Known, Usual

\* The answer of a run that delivers or whose compile failed.
LEMMA AnswerTrans ==
    ASSUME Copying, Inv, NEW t \in Tree, NEW d \in ErrData, NEW s \in {0, 1},
           NEW gone \in SUBSET (Makes(t) \ Outs(t)),
           Exit(t, [status |-> s, err |-> d, pre |-> Before(t) + Within(d)], gone),
           UNCHANGED <<source, key, read, seen>>,
           Busy(t), d.of = key[t], ~d.pp, ~d.gz,
           s = (IF Fails(key[t]) THEN 1 ELSE 0),
           s = 0 => pc[t] = "deliver"
    PROVE  TransInv'
  <1> DEFINE r == [status |-> s, err |-> d, pre |-> Before(t) + Within(d)]
  <1>1. Known(t) /\ TypeInv
    BY TheKnown DEF Inv
  <1>2. Before(t) + Within(d) = 1
    BY <1>1 DEF Before, Within, Known, TreeRight, OnTheWay
  <1>3. r.status = s /\ r.err = d /\ r.pre = 1 /\ r # NoReply
    BY <1>2 DEF NoReply
  <1> HIDE DEF r
  <1>4. /\ Moves(t, "idle") /\ told' = [told EXCEPT ![t] = r] /\ fs' = Remove(fs, gone)
        /\ first' = [first EXCEPT ![t] = TRUE]
    BY DEF Exit, End, Goto, SetFile, Moves, r
  <1>5. /\ Elsewhere(t) /\ pc'[t] = "idle" /\ key'[t] = key[t] /\ seen'[t] = seen[t]
        /\ told'[t] = r /\ first'[t]
    BY <1>1, <1>4, MovesElsewhere DEF Known, Usual
  <1>6. Shrinks(gone)
    BY <1>1, <1>4, Shrinking
  <1>7. key[t] \in seen[t]
    BY <1>1 DEF Known, TreeRight, OfTheRun, Busy, IsBusy
  <1>8. OnTheWay(t)' /\ OfTheRun(t)'
    BY <1>3, <1>5, <1>7 DEF OnTheWay, OfTheRun, Holding, Busy, IsBusy, Compiled, IsCompiled
  <1>9. OutsReady(t)'
    <2>1. InPlaceAt(pc'[t], first'[t], file'[t], told'[t]) = IF s = 0 THEN Files ELSE {}
      BY <1>3, <1>5 DEF InPlaceAt, IsCompiled
    <2>2. ASSUME s = 0, NEW i \in Files
          PROVE  Contents(fs', Out(t, i)) = {Output(key[t], i)}
      <3>1. Contents(fs, Out(t, i)) = {Output(key[t], i)}
        BY <1>1, <2>2 DEF Known, TreeRight, OutsReady, Version, InPlaceAt
      <3> QED BY <1>6, <3>1 DEF Shrinks, Outs
    <2> QED BY <1>3, <1>5, <2>1, <2>2 DEF OutsReady, Version
  <1> QED BY <1>5, <1>6, <1>8, <1>9, RemovingTrans DEF Inv

LEMMA DeliverTrans ==
    ASSUME Copying, Alike, Inv, NEW t \in Tree, Deliver(t)
    PROVE  TransInv'
  <1> DEFINE e == Data(fs, Fd(t))
             d == Unpacked(t, e)
  <1>1. Known(t) /\ pc[t] = "deliver" /\ Has(fs, Fd(t)) /\ UNCHANGED <<source, key, read, seen>>
    BY TheKnown DEF Inv, Deliver, TypeInv, FdHeld, Holding
  <1>2. e \in Contents(fs, Fd(t)) /\ e \in ErrData
    <2>1. e \in Contents(fs, Fd(t))
      BY <1>1, ContentsHas
    <2>2. e \in Kind[Fd(t)] /\ Kind[Fd(t)] = ErrData
      BY <1>1, DataConforms, KindOf, Numbers DEF Known, Usual
    <2> QED BY <2>1, <2>2
  <1>3. ~e.pp /\ (e.gz => Zlib) /\ e.of = key[t]
    BY <1>1, <1>2 DEF Known, TreeRight, OwnPure
  <1> HIDE DEF e
  <1>4. d = [e EXCEPT !.gz = FALSE]
    BY <1>2, <1>3, UnpackedIs
  <1>5. d \in ErrData /\ d.of = key[t] /\ ~d.pp /\ ~d.gz
    BY <1>2, <1>3, <1>4 DEF ErrData
  <1>6. Exit(t, [status |-> 0, err |-> d, pre |-> Before(t) + Within(d)],
             {ITmp(t), Cpp(t), Fd(t)})
    BY DEF Deliver, e
  <1>7. {ITmp(t), Cpp(t), Fd(t)} \in SUBSET (Makes(t) \ Outs(t))
    <2>1. {ITmp(t), Cpp(t), Fd(t)} \subseteq Makes(t)
      BY TheMade
    <2>2. \A n \in Outs(t) : n[1] = "out"
      BY Heads DEF Outs
    <2>3. ITmp(t)[1] # "out" /\ Cpp(t)[1] # "out" /\ Fd(t)[1] # "out"
      BY Heads
    <2> QED BY ONLY <2>1, <2>2, <2>3
  <1>8. Busy(t) /\ ~Fails(key[t])
    BY <1>1 DEF Busy, IsBusy, Known, TreeRight, OnTheWay, Holding
  <1> HIDE DEF d
  <1> QED BY <1>1, <1>5, <1>6, <1>7, <1>8, AnswerTrans

LEMMA CompileFailedTrans ==
    ASSUME Copying, Inv, NEW t \in Tree, CompileFailed(t)
    PROVE  TransInv'
  <1>1. Known(t) /\ TypeInv /\ pc[t] = "status" /\ UNCHANGED <<source, key, read, seen>>
        /\ Busy(t) /\ Fails(key[t])
    BY TheKnown DEF Inv, CompileFailed, Known, TreeRight, OnTheWay, Busy, IsBusy
  <1>2. CASE Has(fs, CErr(t))
    <2> DEFINE d == Data(fs, CErr(t))
               gone == {COut(t), Cpp(t), CErr(t), ITmp(t)}
    <2>1. d \in Contents(fs, CErr(t))
      BY <1>2, ContentsHas
    <2>2. d \in ErrData /\ d.of = key[t]
      BY <1>1, <1>2, DataConforms, OwnAllowed DEF Known, Busy
    <2>3. ~d.pp /\ ~d.gz
      BY <1>1, <2>1 DEF Known, TreeRight, OwnPure
    <2>4. Exit(t, [status |-> 1, err |-> d, pre |-> Before(t) + Within(d)], gone)
      BY <1>2 DEF CompileFailed
    <2>5. gone \in SUBSET (Makes(t) \ Outs(t))
      BY TheMade, Heads DEF Outs
    <2>6. 1 \in {0, 1} /\ 1 = (IF Fails(key[t]) THEN 1 ELSE 0) /\ 1 # 0
      BY <1>1
    <2> HIDE DEF d, gone
    <2> QED BY <1>1, <2>2, <2>3, <2>4, <2>5, <2>6, AnswerTrans
  <1>3. CASE ~Has(fs, CErr(t))
    <2> DEFINE gone == {COut(t), CLst(t)} \cup IF SWIG THEN {} ELSE Outs(t)
    <2>1. fs' = Remove(fs, gone) /\ Moves(t, "exec") /\ told' = told
      BY <1>3 DEF CompileFailed, Goto, Moves
    <2>2. gone \in SUBSET Makes(t)
      BY TheMade
    <2> HIDE DEF gone
    <2>3. Shrinks(gone)
      BY <1>1, <2>1, Shrinking
    <2>4. Elsewhere(t) /\ pc'[t] = "exec" /\ key'[t] = key[t] /\ seen'[t] = seen[t]
      BY <1>1, <2>1, MovesElsewhere
    <2>5. OnTheWay(t)' /\ OfTheRun(t)'
      BY <1>1, <2>1, <2>4 DEF OnTheWay, OfTheRun, Holding, Busy, IsBusy, Compiled,
                              IsCompiled, Known, TreeRight
    <2>6. OutsReady(t)'
      BY <2>4 DEF OutsReady, InPlaceAt, IsCompiled
    <2> QED BY <2>2, <2>3, <2>4, <2>5, <2>6, RemovingTrans DEF Inv
  <1> QED BY <1>2, <1>3

LEMMA StdoutTrans ==
    ASSUME Copying, Inv, NEW t \in Tree, StdoutSeen(t) \/ StdoutEmpty(t)
    PROVE  TransInv'
  <1>1. Known(t) /\ TypeInv /\ pc[t] \in {"stdout", "status"} /\ told' = told
    BY TheKnown DEF Inv, StdoutSeen, StdoutEmpty
  <1>2. Busy(t) /\ Has(fs, Cpp(t)) /\ Has(fs, ITmp(t)) /\ key[t] \in Key
    BY <1>1 DEF Busy, IsBusy, Known, TreeRight, OnTheWay, Usual
  <1>3. CASE StdoutSeen(t)
    <2> DEFINE gone == {COut(t), CErr(t), CLst(t)} \cup IF SWIG THEN {} ELSE Outs(t)
    <2>1. fs' = Remove(fs, gone) /\ Moves(t, "exec")
      BY <1>3 DEF StdoutSeen, Goto, Moves
    <2>2. gone \in SUBSET Makes(t)
      BY TheMade
    <2> HIDE DEF gone
    <2>3. Shrinks(gone)
      BY <1>1, <2>1, Shrinking
    <2>4. Elsewhere(t) /\ pc'[t] = "exec" /\ key'[t] = key[t] /\ seen'[t] = seen[t]
      BY <1>1, <2>1, MovesElsewhere
    <2>5. OnTheWay(t)' /\ OfTheRun(t)'
      BY <1>1, <2>1, <2>4 DEF OnTheWay, OfTheRun, Holding, Busy, IsBusy, Compiled,
                              IsCompiled, Known, TreeRight, Moves
    <2>6. OutsReady(t)'
      BY <2>4 DEF OutsReady, InPlaceAt, IsCompiled
    <2> QED BY <2>2, <2>3, <2>4, <2>5, <2>6, RemovingTrans DEF Inv
  <1>4. CASE StdoutEmpty(t)
    <2>1. fs' = Remove(fs, {COut(t)}) /\ Moves(t, "commit") /\ pc[t] = "stdout"
      BY <1>4 DEF StdoutEmpty, Goto, SetFile, Moves
    <2>2. Shrinks({COut(t)}) /\ {COut(t)} \in SUBSET Makes(t)
      BY <1>1, <2>1, Shrinking, TheMade
    <2>3. Elsewhere(t) /\ pc'[t] = "commit" /\ key'[t] = key[t] /\ seen'[t] = seen[t]
      BY <1>1, <2>1, MovesElsewhere
    <2>4. OnTheWay(t)'
      <3>1. Cpp(t) # COut(t) /\ ITmp(t) # COut(t)
        BY Heads
      <3>2. Has(fs', Cpp(t)) /\ Has(fs', ITmp(t))
        BY <1>2, <2>2, <3>1, ShrinkingHas
      <3> QED BY <1>1, <2>1, <2>3, <3>2 DEF OnTheWay, Known, TreeRight, Holding,
                 Compiled, IsCompiled
    <2>5. OfTheRun(t)'
      BY <1>1, <2>1, <2>3 DEF OfTheRun, Known, TreeRight, Moves
    <2>6. OutsReady(t)'
      <3>1. \A i \in Files : Contents(fs, Out(t, i)) = {Output(key[t], i)}
        BY <1>1, <2>1 DEF Known, TreeRight, OutsReady, Version, InPlaceAt, IsCompiled
      <3>2. \A i : Out(t, i) # COut(t)
        BY Apart
      <3>3. InPlaceAt(pc'[t], first'[t], file'[t], told'[t]) = Files
        BY <2>3 DEF InPlaceAt, IsCompiled
      <3> QED BY <2>2, <2>3, <3>1, <3>2, <3>3 DEF OutsReady, Version, Shrinks
    <2> QED BY <2>2, <2>3, <2>4, <2>5, <2>6, RemovingTrans DEF Inv
  <1> QED BY <1>3, <1>4

LEMMA CrashTrans ==
    ASSUME Copying, Inv, NEW t \in Tree, Crash(t)
    PROVE  TransInv'
  <1> DEFINE gone == Temps(t) \cup Tmps(t) \cup {Fd(t)}
  <1>1. /\ Known(t) /\ TypeInv /\ pc[t] # "idle"
        /\ pc' = [pc EXCEPT ![t] = "idle"] /\ file' = [file EXCEPT ![t] = 0]
        /\ first' = [first EXCEPT ![t] = TRUE] /\ seen' = [seen EXCEPT ![t] = {}]
        /\ UNCHANGED <<source, key, read, told>> /\ fs' = Remove(fs, gone)
    BY TheKnown DEF Inv, Crash, End, Goto, SetFile
  <1>2. gone \in SUBSET Makes(t)
    BY DEF Makes
  <1> HIDE DEF gone
  <1>3. Elsewhere(t) /\ Shrinks(gone)
    BY <1>1, Shrinking DEF Elsewhere, Known, Usual
  <1>4. pc'[t] = "idle" /\ first'[t] /\ told'[t] = NoReply /\ key'[t] = key[t]
    BY <1>1 DEF Known, Usual, TreeRight, OfTheRun
  <1>5. told'[t].status # 0
    BY <1>4 DEF NoReply
  <1>6. OnTheWay(t)' /\ OfTheRun(t)'
    BY <1>4 DEF OnTheWay, OfTheRun, Holding, Busy, IsBusy, Compiled, IsCompiled
  <1>7. OutsReady(t)'
    BY <1>4, <1>5 DEF OutsReady, InPlaceAt, IsCompiled
  <1> QED BY <1>2, <1>3, <1>4, <1>6, <1>7, RemovingTrans DEF Inv

-----------------------------------------------------------------------------
(* The steps that write files outside of the cache. *)

\* They leave nothing compressed in an output, and in tmp_stderr nothing that
\* the preprocessor said.
LEMMA WritingTrans ==
    ASSUME Inv, NEW t \in Tree, Elsewhere(t),
           \A n : n \notin Outs(t) \cup Temps(t) =>
              /\ Contents(fs', n) \subseteq Contents(fs, n)
              /\ n \notin Makes(t) => Contents(fs', n) = Contents(fs, n),
           \A i \in Files : \A d \in Contents(fs', Out(t, i)) : ~d.gz,
           \A d \in Contents(fs', CErr(t)) : ~d.pp /\ ~d.gz,
           key'[t] = key[t] \/ ~Has(fs, Fd(t)),
           OnTheWay(t)', OfTheRun(t)', OutsReady(t)'
    PROVE  TransInv'
  <1>1. Outs(t) \subseteq Makes(t) /\ Temps(t) \subseteq Makes(t)
    BY DEF Makes
  <1>2. Touches(t)
    BY <1>1 DEF Touches
  <1>3. /\ \A k : Err(k) \notin Outs(t) \cup Temps(t) /\ \A i : Obj(k, i) \notin Outs(t) \cup Temps(t)
        /\ Fd(t) \notin Outs(t) \cup Temps(t)
        /\ \A i : Tmp(t, i) \notin Outs(t) \cup Temps(t)
    <2>5. \A n \in Outs(t) \cup Temps(t) : n[1] \in {"out", "itmp", "cpp", "cout", "cerr", "clst"}
      BY Heads DEF Outs, Temps
    <2>1. ASSUME NEW k PROVE Err(k) \notin Outs(t) \cup Temps(t)
      BY ONLY <2>5, Heads
    <2>2. ASSUME NEW k, NEW i PROVE Obj(k, i) \notin Outs(t) \cup Temps(t)
      BY ONLY <2>5, Heads
    <2>3. Fd(t) \notin Outs(t) \cup Temps(t)
      BY ONLY <2>5, Heads
    <2>4. ASSUME NEW i PROVE Tmp(t, i) \notin Outs(t) \cup Temps(t)
      BY ONLY <2>5, Heads
    <2> QED BY <2>1, <2>2, <2>3, <2>4
  <1>4. CachePure'
    <2>1. \A k \in Key : /\ Contents(fs', Err(k)) \subseteq Contents(fs, Err(k))
                         /\ \A i : Contents(fs', Obj(k, i)) \subseteq Contents(fs, Obj(k, i))
                         /\ Has(fs', Err(k)) => Has(fs, Err(k))
      BY <1>3, ContentsHas
    <2> QED BY <2>1 DEF Inv, TransInv, CachePure
  <1>5. OwnPure(t)'
    <2>1. Contents(fs', Fd(t)) \subseteq Contents(fs, Fd(t))
      BY <1>3
    <2>2. \A i : Contents(fs', Tmp(t, i)) \subseteq Contents(fs, Tmp(t, i))
      BY <1>3
    <2>3. key'[t] = key[t] \/ Contents(fs, Fd(t)) = {}
      BY ContentsHas
    <2> QED BY <2>1, <2>2, <2>3 DEF Inv, TransInv, TreeRight, OwnPure
  <1> QED BY <1>2, <1>4, <1>5, StepTrans DEF Inv, TreeRight

LEMMA WholeOutput ==
    ASSUME NEW v, NEW i
    PROVE  [Output(v, i) EXCEPT !.whole = TRUE] = Output(v, i)
  <1> DEFINE e == [Output(v, i) EXCEPT !.whole = TRUE]
  <1>1. /\ DOMAIN e = {"of", "part", "gz", "whole"}
        /\ e = [x \in DOMAIN e |-> e[x]]
    BY DEF Output
  <1>2. e["of"] = v /\ e["part"] = i /\ e["gz"] = FALSE /\ e["whole"] = TRUE
    BY DEF Output
  <1> HIDE DEF e
  <1>3. e = [of |-> v, part |-> i, gz |-> FALSE, whole |-> TRUE]
    BY <1>1, <1>2
  <1> QED BY <1>3 DEF Output, e

\* Only outputs differ between fs and s; only outputs and the log do.
Wrote(t, s) ==
    /\ \A n : n \notin Outs(t) => Contents(s, n) = Contents(fs, n)
    /\ \A i \in Files : \A d \in Contents(s, Out(t, i)) : ~d.gz

WroteAll(t, s) ==
    /\ \A n : n \notin Outs(t) \cup Temps(t) => Contents(s, n) = Contents(fs, n)
    /\ \A n \in {ITmp(t), Cpp(t)} : Contents(s, n) = Contents(fs, n)
    /\ \A i \in Files : \A d \in Contents(s, Out(t, i)) : ~d.gz
    /\ \A d \in Contents(s, CErr(t)) : ~d.pp /\ ~d.gz

LEMMA WroteOuts ==
    ASSUME NEW t \in Tree, Known(t), NEW v, NEW b
    PROVE  Wrote(t, fs) /\ Wrote(t, WriteOuts(fs, t, v, b))
  <1> DEFINE D(i) == [Output(v, i) EXCEPT !.whole = b]
             w == WriteOuts(fs, t, v, b)
  <1>1. Wrote(t, fs)
    BY DEF Wrote, Known, TreeRight, OwnPure
  <1>2. \A i \in Files : ~D(i).gz
    BY DEF Output
  <1>3. Conforms(fs, Names, AnyData, Allowed(pc, key)) /\ Own(fs)
    BY DEF Known
  <1>4. /\ \A n : n \notin Outs(t) => Contents(w, n) = Contents(fs, n)
        /\ \A i \in Files : Contents(w, Out(t, i)) = {D(i)}
    BY <1>3, ContentsWriteOuts
  <1> HIDE DEF D, w
  <1>5. Wrote(t, w)
    BY <1>2, <1>4 DEF Wrote
  <1> QED BY <1>1, <1>5 DEF w

LEMMA WroteLog ==
    ASSUME NEW t \in Tree, Known(t), NEW s, Wrote(t, s), NEW v
    PROVE  /\ WroteAll(t, s) /\ WroteAll(t, Logged(s, t, v))
           /\ \A i \in Files : Contents(Logged(s, t, v), Out(t, i)) = Contents(s, Out(t, i))
  <1> DEFINE e == Stderr(v, Env[t].input # "cpp")
             x == Logged(s, t, v)
  <1>1. ~e.pp /\ ~e.gz
    BY DEF Known, Stderr
  <1>2. /\ \A n : n \notin {COut(t), CErr(t), CLst(t)} => Contents(x, n) = Contents(s, n)
        /\ Contents(x, CErr(t)) = Contents(s, CErr(t)) \cup {e}
    BY ContentsLogged
  <1> HIDE DEF e, x
  <1>3. {ITmp(t), Cpp(t), COut(t), CErr(t), CLst(t)} = Temps(t)
    BY DEF Temps
  <1>4. \A i \in Files : Out(t, i) \notin {COut(t), CErr(t), CLst(t)}
    BY Apart
  <1>5. CErr(t) \notin Outs(t) /\ ITmp(t) \notin Outs(t) /\ Cpp(t) \notin Outs(t)
    BY Heads DEF Outs
  <1>6. \A n \in {ITmp(t), Cpp(t)} : n \notin {COut(t), CErr(t), CLst(t)}
    BY Heads
  <1>7. \A d \in Contents(fs, CErr(t)) : ~d.pp /\ ~d.gz
    BY DEF Known, TreeRight, OwnPure
  <1>8. WroteAll(t, s)
    BY <1>5, <1>7 DEF Wrote, WroteAll
  <1>9. \A i \in Files : Contents(x, Out(t, i)) = Contents(s, Out(t, i))
    BY <1>2, <1>4
  <1>10. WroteAll(t, x)
    <2>1. \A d \in Contents(x, CErr(t)) : ~d.pp /\ ~d.gz
      BY <1>1, <1>2, <1>5, <1>7 DEF Wrote
    <2>2. \A n \in {ITmp(t), Cpp(t)} : Contents(x, n) = Contents(fs, n)
      BY <1>2, <1>5, <1>6 DEF Wrote
    <2>3. \A n : n \notin Outs(t) \cup Temps(t) => Contents(x, n) = Contents(fs, n)
      BY <1>2, <1>3 DEF Wrote
    <2> QED BY <1>9, <2>1, <2>2, <2>3 DEF Wrote, WroteAll
  <1> QED BY <1>8, <1>9, <1>10 DEF x

\* execute(): the compiler reads the text that was hashed.
LEMMA CompileTrans ==
    ASSUME Copying, Inv, NEW t \in Tree, Compile(t)
    PROVE  TransInv'
  <1>1. Known(t) /\ pc[t] = "compile" /\ UNCHANGED <<source, key, file, first, told, seen>>
        /\ Has(fs, Cpp(t)) /\ Has(fs, ITmp(t))
    BY TheKnown DEF Compile, Known, TreeRight, OnTheWay, Busy, IsBusy
  <1>2. Data(fs, ITmp(t)).of = key[t]
    <2>1. Data(fs, ITmp(t)) \in Allowed(pc, key)[ITmp(t)]
      BY <1>1, DataConforms DEF Known
    <2> QED BY <1>1, <2>1, OwnAllowed DEF IsBusy
  <1>3. /\ read' = [read EXCEPT ![t] = key[t]]
        /\ \/ /\ pc' = [pc EXCEPT ![t] = "status"] /\ Fails(key[t])
              /\ \E s \in Failing(fs, t, key[t]) : fs' = Logged(s, t, key[t])
           \/ /\ pc' = [pc EXCEPT ![t] = "write"] /\ ~Fails(key[t])
              /\ fs' = WriteOuts(fs, t, key[t], FALSE)
    BY <1>1, <1>2 DEF Compile, Goto, Known
  <1>4. PICK s : /\ s = fs \/ s = WriteOuts(fs, t, key[t], FALSE)
                 /\ fs' = s \/ fs' = Logged(s, t, key[t])
    BY <1>3 DEF Failing
  <1>5. Elsewhere(t) /\ pc'[t] \in {"status", "write"} /\ key'[t] = key[t]
    BY <1>1, <1>3 DEF Elsewhere, Known, Usual
  <1>6. WroteAll(t, fs')
    <2>1. Wrote(t, s)
      BY <1>1, <1>4, WroteOuts
    <2> QED BY <1>1, <1>4, <2>1, WroteLog
  <1>7. OnTheWay(t)'
    <2>1. Has(fs', ITmp(t)) /\ Has(fs', Cpp(t))
      BY <1>1, <1>6, ContentsHas DEF WroteAll
    <2>2. pc'[t] = "status" => Fails(key[t])
      BY <1>1, <1>3 DEF Known, Usual
    <2>3. pc'[t] = "write" => ~Fails(key[t])
      BY <1>1, <1>3 DEF Known, Usual
    <2> QED BY <1>5, <2>1, <2>2, <2>3 DEF OnTheWay, Holding, Compiled, IsCompiled
  <1>8. OfTheRun(t)'
    BY <1>1, <1>5 DEF OfTheRun, Known, TreeRight
  <1>9. OutsReady(t)'
    BY <1>5 DEF OutsReady, InPlaceAt, IsCompiled
  <1> QED BY <1>5, <1>6, <1>7, <1>8, <1>9, WritingTrans DEF WroteAll

LEMMA CompileEndTrans ==
    ASSUME Copying, Inv, NEW t \in Tree, CompileEnd(t)
    PROVE  TransInv'
  <1> DEFINE w == WriteOuts(fs, t, key[t], TRUE)
  <1>1. Known(t) /\ pc[t] = "write" /\ UNCHANGED <<source, key, file, first, read, told, seen>>
        /\ Has(fs, Cpp(t)) /\ Has(fs, ITmp(t)) /\ ~Fails(key[t]) /\ read[t] = key[t]
        /\ pc' = [pc EXCEPT ![t] = "stdout"]
    BY TheKnown DEF CompileEnd, Goto, Known, TreeRight, OnTheWay, Busy, IsBusy, Inv,
                    RightInv, Written
  <1>2. fs' = Logged(w, t, key[t])
    BY <1>1 DEF CompileEnd
  <1>3. Elsewhere(t) /\ pc'[t] = "stdout" /\ key'[t] = key[t]
    BY <1>1 DEF Elsewhere, Known, Usual
  <1> HIDE DEF w
  <1>4. /\ WroteAll(t, fs')
        /\ \A i \in Files : Contents(fs', Out(t, i)) = {Output(key[t], i)}
    <2>1. Wrote(t, w)
      BY <1>1, WroteOuts DEF w
    <2>2. \A i \in Files : Contents(w, Out(t, i)) = {Output(key[t], i)}
      <3>1. Conforms(fs, Names, AnyData, Allowed(pc, key)) /\ Own(fs)
        BY <1>1 DEF Known
      <3>2. \A v, b : \A i \in Files : Contents(WriteOuts(fs, t, v, b), Out(t, i)) =
                                            {[Output(v, i) EXCEPT !.whole = b]}
        BY <3>1, ContentsWriteOuts
      <3>3. \A i \in Files : Contents(w, Out(t, i)) =
                                {[Output(key[t], i) EXCEPT !.whole = TRUE]}
        BY <3>2, Zenon DEF w
      <3> QED BY <3>3, WholeOutput
    <2> QED BY <1>1, <1>2, <2>1, <2>2, WroteLog
  <1>5. OnTheWay(t)'
    <2>1. Has(fs', ITmp(t)) /\ Has(fs', Cpp(t))
      BY <1>1, <1>4, ContentsHas DEF WroteAll
    <2> QED BY <1>1, <1>3, <2>1 DEF OnTheWay, Holding, Compiled, IsCompiled
  <1>6. OfTheRun(t)'
    BY <1>1, <1>3 DEF OfTheRun, Known, TreeRight
  <1>7. OutsReady(t)'
    <2>1. InPlaceAt(pc'[t], first'[t], file'[t], told'[t]) \subseteq Files
      BY DEF InPlaceAt
    <2> QED BY <1>3, <1>4, <2>1 DEF OutsReady, Version
  <1> QED BY <1>3, <1>4, <1>5, <1>6, <1>7, WritingTrans DEF WroteAll

\* failed(): the answer is that of the version which the compiler read.
LEMMA ExecTrans ==
    ASSUME Copying, Inv, NEW t \in Tree, Exec(t)
    PROVE  TransInv'
  <1> DEFINE s == Remove(fs, {ITmp(t), Cpp(t)})
  <1>1. /\ Known(t) /\ pc[t] = "exec" /\ UNCHANGED <<source, file, first, told, seen>>
        /\ pc' = [pc EXCEPT ![t] = "execend"]
        /\ key' = [key EXCEPT ![t] = source[t]] /\ read' = [read EXCEPT ![t] = source[t]]
    BY TheKnown DEF Exec, Goto
  <1>2. fs' = s \/ fs' = WriteOuts(s, t, source[t], FALSE)
    BY DEF Exec, Failing
  <1>3. Conforms(s, Names, AnyData, Allowed(pc, key)) /\ Own(s)
    BY <1>1, RemoveConforms, OwnRemove DEF Known
  <1>4. \A n : Contents(s, n) = IF n \in {ITmp(t), Cpp(t)} THEN {} ELSE Contents(fs, n)
    BY <1>1, ContentsRemove DEF Known
  <1> HIDE DEF s
  <1>5. \A v, b : /\ \A n : n \notin Outs(t) => Contents(WriteOuts(s, t, v, b), n) = Contents(s, n)
                  /\ \A i \in Files : Contents(WriteOuts(s, t, v, b), Out(t, i)) =
                                         {[Output(v, i) EXCEPT !.whole = b]}
    BY <1>3, ContentsWriteOuts
  <1>6. /\ \A n : n \notin Outs(t) => Contents(fs', n) = Contents(s, n)
        /\ \A i \in Files : \A d \in Contents(fs', Out(t, i)) : ~d.gz
    <2>1. \A v, b, i : ~[Output(v, i) EXCEPT !.whole = b].gz
      BY DEF Output
    <2>2. \A i \in Files : Out(t, i) \notin {ITmp(t), Cpp(t)}
      BY Apart
    <2>3. CASE fs' = s
      BY <1>1, <1>4, <2>2, <2>3 DEF Known, TreeRight, OwnPure
    <2>4. CASE fs' = WriteOuts(s, t, source[t], FALSE)
      <3> DEFINE D(i) == [Output(source[t], i) EXCEPT !.whole = FALSE]
      <3>1. \A n : n \notin Outs(t) => Contents(fs', n) = Contents(s, n)
        <4>1. \A v, b, n : n \notin Outs(t) =>
                  Contents(WriteOuts(s, t, v, b), n) = Contents(s, n)
          BY <1>5
        <4> QED BY ONLY <2>4, <4>1, Zenon
      <3>2. \A i \in Files : Contents(fs', Out(t, i)) = {D(i)}
        <4>1. \A v, b : \A i \in Files :
                  Contents(WriteOuts(s, t, v, b), Out(t, i)) = {[Output(v, i) EXCEPT !.whole = b]}
          BY <1>5
        <4> QED BY ONLY <2>4, <4>1, Zenon
      <3>3. \A i : ~D(i).gz
        BY <2>1
      <3> HIDE DEF D
      <3> QED BY <3>1, <3>2, <3>3
    <2> QED BY <1>2, <2>3, <2>4
  <1>7. Elsewhere(t) /\ pc'[t] = "execend" /\ key'[t] = source[t] /\ read'[t] = source[t]
    BY <1>1 DEF Elsewhere, Known, Usual
  <1>8. ~Has(fs, Fd(t))
    BY <1>1 DEF Known, Usual, InPlace, Holding
  <1>9. OnTheWay(t)' /\ OfTheRun(t)'
    BY <1>1, <1>7 DEF OnTheWay, OfTheRun, Holding, Busy, IsBusy, Compiled, IsCompiled,
                      Known, TreeRight
  <1>10. OutsReady(t)'
    BY <1>7 DEF OutsReady, InPlaceAt, IsCompiled
  <1>11. ITmp(t) \in Temps(t) /\ Cpp(t) \in Temps(t) /\ CErr(t) \notin Outs(t)
         /\ CErr(t) \notin {ITmp(t), Cpp(t)}
    BY Heads DEF Temps, Outs
  <1>12. \A d \in Contents(fs', CErr(t)) : ~d.pp /\ ~d.gz
    BY <1>1, <1>4, <1>6, <1>11 DEF Known, TreeRight, OwnPure
  <1>13. \A n : n \notin Outs(t) \cup Temps(t) => Contents(fs', n) = Contents(fs, n)
    BY <1>4, <1>6, <1>11
  <1> QED BY <1>6, <1>7, <1>8, <1>9, <1>10, <1>12, <1>13, WritingTrans

LEMMA ExecEndTrans ==
    ASSUME Copying, Inv, NEW t \in Tree, ExecEnd(t)
    PROVE  TransInv'
  <1> DEFINE r == [status |-> IF Fails(read[t]) THEN 1 ELSE 0,
                   err |-> Stderr(read[t], TRUE), pre |-> 1]
             w == WriteOuts(fs, t, read[t], TRUE)
  <1>1. /\ Known(t) /\ pc[t] = "execend" /\ UNCHANGED <<source, key, read, seen>>
        /\ pc' = [pc EXCEPT ![t] = "idle"] /\ file' = [file EXCEPT ![t] = 0]
        /\ first' = [first EXCEPT ![t] = TRUE] /\ told' = [told EXCEPT ![t] = r]
    BY TheKnown DEF ExecEnd, End, Goto, SetFile
  <1>2. fs' = IF Fails(read[t]) THEN fs ELSE w
    BY DEF ExecEnd
  <1>3. /\ r.status = (IF Fails(read[t]) THEN 1 ELSE 0) /\ r.pre = 1
        /\ r.err.of = read[t] /\ ~r.err.gz /\ r # NoReply
    BY DEF Stderr, NoReply
  <1> HIDE DEF r
  <1>4. Elsewhere(t) /\ pc'[t] = "idle" /\ key'[t] = key[t] /\ told'[t] = r /\ first'[t]
    BY <1>1 DEF Elsewhere, Known, Usual
  <1>5. Wrote(t, fs) /\ Wrote(t, w)
    BY <1>1, WroteOuts
  <1>6. \A i \in Files : Contents(w, Out(t, i)) = {Output(read[t], i)}
    <2>1. Conforms(fs, Names, AnyData, Allowed(pc, key)) /\ Own(fs)
      BY <1>1 DEF Known
    <2>2. \A v, b : \A i \in Files : Contents(WriteOuts(fs, t, v, b), Out(t, i)) =
                                          {[Output(v, i) EXCEPT !.whole = b]}
      BY <2>1, ContentsWriteOuts
    <2>3. \A i \in Files : Contents(w, Out(t, i)) =
                                {[Output(read[t], i) EXCEPT !.whole = TRUE]}
      BY <2>2, Zenon
    <2> QED BY <2>3, WholeOutput
  <1> HIDE DEF w
  <1>7. WroteAll(t, fs')
    BY <1>1, <1>2, <1>5, WroteLog
  <1>8. OnTheWay(t)'
    BY <1>4 DEF OnTheWay, Holding, Busy, IsBusy, Compiled, IsCompiled
  <1>9. OfTheRun(t)'
    BY <1>1, <1>3, <1>4 DEF OfTheRun, Known, TreeRight
  <1>10. OutsReady(t)'
    <2>1. InPlaceAt(pc'[t], first'[t], file'[t], told'[t]) =
             IF Fails(read[t]) THEN {} ELSE Files
      BY <1>3, <1>4 DEF InPlaceAt, IsCompiled
    <2> QED BY <1>2, <1>3, <1>4, <1>6, <2>1 DEF OutsReady, Version
  <1> QED BY <1>4, <1>7, <1>8, <1>9, <1>10, WritingTrans DEF WroteAll

\* A new run, on the version that the source has now.
LEMMA FindHashTrans ==
    ASSUME Copying, Inv, NEW t \in Tree, FindHash(t)
    PROVE  TransInv'
  <1> DEFINE s == Remove(fs, Temps(t) \cup Tmps(t))
             d == [of |-> source[t]]
             a == Create(s, ITmp(t), d)
             b == Create(a, Cpp(t), d)
  <1>1. /\ Known(t) /\ pc[t] = "idle" /\ UNCHANGED <<source, file, first>>
        /\ told' = [told EXCEPT ![t] = NoReply] /\ seen' = [seen EXCEPT ![t] = {source[t]}]
        /\ key' = [key EXCEPT ![t] = source[t]] /\ read' = [read EXCEPT ![t] = source[t]]
        /\ first[t]
    BY TheKnown DEF FindHash, Known, TreeRight, OnTheWay
  <1>2. \/ fs' = s /\ pc' = [pc EXCEPT ![t] = "exec"]
        \/ fs' = b /\ pc' = [pc EXCEPT ![t] = "open"]
    BY <1>1 DEF FindHash, Goto, Known
  <1>3. \A n : Contents(s, n) = IF n \in Temps(t) \cup Tmps(t) THEN {} ELSE Contents(fs, n)
    BY <1>1, ContentsRemove DEF Known
  <1> HIDE DEF s, d
  <1>4. \A n : Contents(a, n) = IF n = ITmp(t) THEN Contents(s, n) \cup {d} ELSE Contents(s, n)
    BY ContentsCreate
  <1> HIDE DEF a
  <1>5. \A n : Contents(b, n) = IF n = Cpp(t) THEN Contents(a, n) \cup {d} ELSE Contents(a, n)
    BY ContentsCreate
  <1> HIDE DEF b
  <1>6. /\ ITmp(t) \in Temps(t) /\ Cpp(t) \in Temps(t) /\ CErr(t) \in Temps(t)
        /\ CErr(t) # ITmp(t) /\ CErr(t) # Cpp(t) /\ Cpp(t) # ITmp(t)
        /\ Temps(t) \subseteq Makes(t) /\ Tmps(t) \subseteq Makes(t)
        /\ \A i \in Files : Out(t, i) \notin Temps(t) \cup Tmps(t)
    BY Heads DEF Temps, Makes, Tmps
  <1>7. Elsewhere(t) /\ pc'[t] \in {"exec", "open"}
    BY <1>1, <1>2 DEF Elsewhere, Known, Usual
  <1>8. /\ told'[t] = NoReply /\ seen'[t] = {source[t]} /\ key'[t] = source[t] /\ first'[t]
        /\ source'[t] = source[t]
    BY <1>1 DEF Known, Usual
  <1>9. ~Has(fs, Fd(t))
    BY <1>1 DEF Known, Usual, InPlace, Holding
  <1>10. \A n : n \notin {ITmp(t), Cpp(t)} => Contents(fs', n) = Contents(s, n)
    BY <1>2, <1>4, <1>5
  <1>11. \A n : n \notin Outs(t) \cup Temps(t) =>
              /\ Contents(fs', n) \subseteq Contents(fs, n)
              /\ n \notin Makes(t) => Contents(fs', n) = Contents(fs, n)
    BY <1>3, <1>6, <1>10
  <1>12. \A i \in Files : \A e \in Contents(fs', Out(t, i)) : ~e.gz
    BY <1>1, <1>3, <1>6, <1>10 DEF Known, TreeRight, OwnPure
  <1>13. Contents(fs', CErr(t)) = {}
    BY <1>3, <1>6, <1>10
  <1>14. OnTheWay(t)'
    <2>1. pc'[t] = "open" => Has(fs', Cpp(t)) /\ Has(fs', ITmp(t))
      <3>1. pc'[t] = "open" => fs' = b
        BY <1>1, <1>2 DEF Known, Usual
      <3>2. Has(b, Cpp(t)) /\ Has(b, ITmp(t))
        BY <1>4, <1>5, ContentsHas
      <3> QED BY <3>1, <3>2
    <2> QED BY <1>7, <1>8, <2>1 DEF OnTheWay, Holding, Busy, IsBusy, Compiled, IsCompiled
  <1>15. OfTheRun(t)'
    BY <1>7, <1>8 DEF OfTheRun
  <1>16. OutsReady(t)'
    BY <1>7, <1>8 DEF OutsReady, InPlaceAt, IsCompiled
  <1> QED BY <1>7, <1>9, <1>11, <1>12, <1>13, <1>14, <1>15, <1>16, WritingTrans

-----------------------------------------------------------------------------
(* The surroundings of the drivers. *)

LEMMA EditTrans ==
    ASSUME Inv, NEW t \in Tree, Edit(t)
    PROVE  TransInv'
  <1>1. /\ source \in [Tree -> Key] /\ seen \in [Tree -> SUBSET Key] /\ TransInv
    BY DEF Inv, TypeInv, Locals
  <1>2. PICK k \in Key : /\ source' = [source EXCEPT ![t] = k]
                         /\ seen' = IF pc[t] = "idle" THEN seen
                                    ELSE [seen EXCEPT ![t] = @ \cup {k}]
    BY DEF Edit
  <1>3. UNCHANGED <<fs, pc, key, file, first, read, told>>
    BY DEF Edit
  <1>4. /\ \A u \in Tree : seen[u] \subseteq seen'[u]
        /\ \A u \in Tree : pc[u] # "idle" /\ source[u] \in seen[u] => source'[u] \in seen'[u]
    BY <1>1, <1>2
  <1>5. ASSUME NEW u \in Tree PROVE TreeRight(u)'
    <2>1. TreeRight(u)
      BY <1>1 DEF TransInv
    <2>2. OfTheRun(u)'
      BY <1>3, <1>4, <2>1 DEF TreeRight, OfTheRun
    <2>3. OwnPure(u)' /\ OnTheWay(u)' /\ OutsReady(u)'
      BY <1>3, <2>1 DEF TreeRight, OwnPure, OnTheWay, OutsReady, Version, Compiled, Busy
    <2> QED BY <2>2, <2>3 DEF TreeRight
  <1>6. CachePure'
    BY <1>1, <1>3 DEF TransInv, CachePure
  <1> QED BY <1>5, <1>6 DEF TransInv

\* A cleanup removes what runs do not depend on.
LEMMA CleanTrans ==
    ASSUME Inv, Clean
    PROVE  TransInv'
  <1>1. PICK n \in CacheNames : fs' = Remove(fs, {n})
    BY DEF Clean
  <1>2. UNCHANGED <<source, pc, key, file, first, read, told, seen>>
    BY DEF Clean
  <1>3. Shrinks({n})
    BY <1>1, Shrinking DEF Inv
  <1>4. \A m : Contents(fs', m) \subseteq Contents(fs, m) /\ (Has(fs', m) => Has(fs, m))
    BY <1>3, ShrinkingHas DEF Shrinks
  <1>5. \A u : /\ n # ITmp(u) /\ n # Cpp(u) /\ \A i : n # Out(u, i)
    BY Heads DEF CacheNames, Tmps
  <1>6. CachePure'
    BY <1>4 DEF Inv, TransInv, CachePure
  <1>7. ASSUME NEW u \in Tree PROVE TreeRight(u)'
    <2>1. TreeRight(u)
      BY DEF Inv, TransInv
    <2>2. OwnPure(u)'
      BY <1>2, <1>4, <2>1 DEF TreeRight, OwnPure
    <2>3. OnTheWay(u)' /\ OfTheRun(u)'
      BY <1>2, <1>3, <1>5, <2>1, ShrinkingHas DEF TreeRight, OnTheWay, OfTheRun, Compiled, Busy
    <2>4. OutsReady(u)'
      BY <1>2, <1>3, <1>5, <2>1 DEF TreeRight, OutsReady, Version, Shrinks
    <2> QED BY <2>2, <2>3, <2>4 DEF TreeRight
  <1> QED BY <1>6, <1>7 DEF TransInv

LEMMA StutterTrans ==
    ASSUME TransInv, UNCHANGED vars
    PROVE  TransInv'
  <1>1. CachePure'
    BY DEF vars, TransInv, CachePure
  <1>2. ASSUME NEW u \in Tree PROVE TreeRight(u)'
    BY DEF vars, TransInv, TreeRight, OwnPure, OnTheWay, OfTheRun, OutsReady,
           Version, Compiled, Busy
  <1> QED BY <1>1, <1>2 DEF TransInv

-----------------------------------------------------------------------------
(* The steps that store. *)

\* What such a step may do to the files: the entry's, and its temporary ones.
Stores(t) ==
    /\ \A n : n \notin Makes(t) => Contents(fs', n) = Contents(fs, n)
    /\ \A n \in {ITmp(t), Cpp(t)} \cup Outs(t) : Contents(fs', n) = Contents(fs, n)
    /\ Contents(fs', CErr(t)) \subseteq Contents(fs, CErr(t))
    /\ Contents(fs', Fd(t)) \subseteq Contents(fs, Fd(t))
    /\ \A k \in Key : \/ Contents(fs', Err(k)) \subseteq Contents(fs, Err(k))
                      \/ /\ k = key[t]
                         /\ \A d \in Contents(fs', Err(k)) : ~d.pp /\ (d.gz => Zlib)
    /\ \A k \in Key, i \in Files : \A d \in Contents(fs', Obj(k, i)) : d.gz => Zlib
    /\ \A d \in Contents(fs', Tmp(t, 0)) : ~d.pp /\ (d.gz => Zlib)
    /\ \A i \in Files : \A d \in Contents(fs', Tmp(t, i)) : d.gz => Zlib

LEMMA StoringTrans ==
    ASSUME Inv, NEW t \in Tree, Known(t), Compiled(t), NEW l, Moves(t, l), told' = told,
           l = "exec" \/ IsCompiled(l) \/ (l = "open" /\ ~first'[t]),
           Stores(t)
    PROVE  TransInv'
  <1>1. Elsewhere(t) /\ pc'[t] = l /\ key'[t] = key[t] /\ seen'[t] = seen[t]
    BY MovesElsewhere
  <1>2. ~Fails(key[t]) /\ Busy(t) /\ pc[t] # "idle"
    BY DEF Known, TreeRight, OnTheWay, Busy, IsBusy, Compiled, IsCompiled
  <1>3. Touches(t)
    BY DEF Touches, Stores
  <1>4. CachePure'
    <2>1. ASSUME NEW k \in Key
          PROVE  /\ \A d \in Contents(fs', Err(k)) : ~d.pp /\ (d.gz => Zlib)
                 /\ Fails(k) => ~Has(fs', Err(k))
      <3>1. CASE Contents(fs', Err(k)) \subseteq Contents(fs, Err(k))
        BY <3>1, ContentsHas DEF Known, CachePure
      <3>2. CASE k = key[t] /\ \A d \in Contents(fs', Err(k)) : ~d.pp /\ (d.gz => Zlib)
        BY <1>2, <3>2
      <3> QED BY <3>1, <3>2 DEF Stores
    <2> QED BY <2>1 DEF CachePure, Stores
  <1>5. OwnPure(t)'
    <2>1. \A i \in Files : Contents(fs', Out(t, i)) = Contents(fs, Out(t, i))
      BY DEF Outs, Stores
    <2> QED BY <1>1, <2>1 DEF Known, TreeRight, OwnPure, Stores
  <1>6. OnTheWay(t)'
    <2>1. Has(fs', ITmp(t)) /\ Has(fs', Cpp(t))
      BY <1>2, ContentsHas DEF Known, TreeRight, OnTheWay, Stores
    <2> QED BY <1>1, <1>2, <2>1 DEF OnTheWay, Holding, IsCompiled
  <1>7. OfTheRun(t)'
    BY <1>1, <1>2 DEF OfTheRun, Known, TreeRight, Moves, IsCompiled
  <1>8. OutsReady(t)'
    <2>1. \A i \in Files : Contents(fs, Out(t, i)) = {Output(key[t], i)}
      BY <1>2 DEF Known, TreeRight, OutsReady, Version, InPlaceAt, Compiled
    <2>2. InPlaceAt(pc'[t], first'[t], file'[t], told'[t]) \subseteq Files /\ pc'[t] # "idle"
      BY <1>1 DEF InPlaceAt, IsCompiled
    <2> QED BY <1>1, <2>1, <2>2 DEF OutsReady, Version, Outs, Stores
  <1> QED BY <1>1, <1>3, <1>4, <1>5, <1>6, <1>7, <1>8, StepTrans DEF Inv, TreeRight

\* Where the files of an entry are, among the names.
LEMMA EntriesApart ==
    ASSUME NEW t \in Tree, NEW n \in Entries
    PROVE  /\ n \in Makes(t)
           /\ n \notin {ITmp(t), Cpp(t), COut(t), CErr(t), CLst(t), Fd(t)} \cup Outs(t)
           /\ \A i : n # Tmp(t, i)
  <1>1. n[1] \in {"obj", "err", "lst"}
    BY Heads DEF Entries
  <1> QED BY <1>1, Heads DEF Makes, Outs

LEMMA StoreDropTrans ==
    ASSUME Inv, NEW t \in Tree, Known(t), Compiled(t), NEW l, Moves(t, l), told' = told,
           l = "exec" \/ IsCompiled(l) \/ (l = "open" /\ ~first'[t]),
           fs' = fs \/ fs' = Remove(fs, {CLst(t)}) \/ fs' = Remove(fs, {Dest(t)})
    PROVE  TransInv'
  <1>1. Dest(t) \in Entries
    BY DestNames DEF Inv
  <1>2. PICK ns : ns \subseteq {CLst(t), Dest(t)} /\ Shrinks(ns)
    BY Shrinking DEF Inv
  <1>3. /\ CLst(t) \in Makes(t) /\ Dest(t) \in Makes(t)
        /\ \A n \in {ITmp(t), Cpp(t)} \cup Outs(t) : n \notin {CLst(t), Dest(t)}
    BY <1>1, EntriesApart, TheMade, Heads DEF Outs
  <1>4. \A n : Contents(fs', n) \subseteq Contents(fs, n)
    BY <1>2 DEF Shrinks
  <1>5. /\ \A n : n \notin Makes(t) => Contents(fs', n) = Contents(fs, n)
        /\ \A n \in {ITmp(t), Cpp(t)} \cup Outs(t) : Contents(fs', n) = Contents(fs, n)
    BY <1>2, <1>3 DEF Shrinks
  <1>6. \A k \in Key, i \in Files : \A d \in Contents(fs', Obj(k, i)) : d.gz => Zlib
    BY <1>4 DEF Known, CachePure
  <1>7. /\ \A d \in Contents(fs', Tmp(t, 0)) : ~d.pp /\ (d.gz => Zlib)
        /\ \A i \in Files : \A d \in Contents(fs', Tmp(t, i)) : d.gz => Zlib
    BY <1>4 DEF Known, TreeRight, OwnPure
  <1>8. Stores(t)
    BY <1>4, <1>5, <1>6, <1>7 DEF Stores
  <1> QED BY <1>8, StoringTrans

\* commit_to_cache() but for the copy itself
LEMMA CommitTrans ==
    ASSUME Copying, Inv, NEW t \in Tree, Commit(t) \/ CopyUnlink(t) \/ Stored(t)
    PROVE  TransInv'
  <1>1. Known(t) /\ Compiled(t) /\ told' = told
    BY TheKnown DEF Compiled, IsCompiled, Commit, CopyUnlink, Stored
  <1>2. \E l : /\ Moves(t, l)
               /\ l = "exec" \/ IsCompiled(l) \/ (l = "open" /\ ~first'[t])
               /\ fs' = fs \/ fs' = Remove(fs, {CLst(t)}) \/ fs' = Remove(fs, {Dest(t)})
    <2>1. CASE Commit(t)
      BY <2>1 DEF Copying, Commit, GiveUp, Goto, Moves, IsCompiled
    <2>2. CASE CopyUnlink(t)
      BY <2>2 DEF CopyUnlink, Goto, Moves, IsCompiled
    <2>3. CASE Stored(t)
      <3>1. CASE GiveUp(t) /\ UNCHANGED <<file, first>>
        BY <2>3, <3>1 DEF Stored, GiveUp, Goto, Moves
      <3>2. CASE ~(GiveUp(t) /\ UNCHANGED <<file, first>>)
        <4>1. /\ fs' = fs /\ first' = [first EXCEPT ![t] = file[t] # 0]
              /\ \/ file[t] = 0 /\ Goto(t, "open") /\ UNCHANGED file
                 \/ \E l \in {"commit", "putlist", "puterr"} :
                       Goto(t, l) /\ \E n : SetFile(t, n)
          BY <2>3, <3>2 DEF Stored
        <4>2. file[t] = 0 => ~first'[t]
          BY <1>1, <4>1 DEF Known, Usual
        <4>3. first' = first \/ \E b : first' = [first EXCEPT ![t] = b]
          BY <4>1
        <4> QED BY <2>3, <4>1, <4>2, <4>3 DEF Stored, Goto, SetFile, Moves, IsCompiled
      <3> QED BY <3>1, <3>2
    <2> QED BY <2>1, <2>2, <2>3
  <1> QED BY <1>1, <1>2, StoreDropTrans

\* What the compiler left is copied, and compressed only by a zlib build.
LEMMA CopyToTmpTrans ==
    ASSUME Copying, Inv, NEW t \in Tree, CopyToTmp(t)
    PROVE  TransInv'
  <1>1. Known(t) /\ Compiled(t) /\ told' = told /\ file[t] \in {0} \cup Files
    BY TheKnown DEF Compiled, IsCompiled, CopyToTmp, Known, Usual, InHand
  <1>2. CASE GiveUp(t)
    <2>1. Moves(t, "exec") /\ fs' = Remove(fs, {CLst(t)})
      BY <1>2 DEF CopyToTmp, GiveUp, Goto, Moves
    <2> QED BY <1>1, <2>1, StoreDropTrans
  <1>3. CASE /\ Has(fs, From(t)) /\ Goto(t, "unlink")
             /\ fs' = Create(fs, Tmp(t, file[t]), Packed(t, Data(fs, From(t))))
    <2> DEFINE d == Data(fs, From(t))
               e == Packed(t, d)
               m == Tmp(t, file[t])
    <2>1. d \in Contents(fs, From(t))
      BY <1>3, ContentsHas
    <2>2. d \in Allowed(pc, key)[From(t)]
      BY <1>3, DataConforms DEF Inv, RightInv
    <2>3. Env[t].zlib \in BOOLEAN /\ (Env[t].zlib => Zlib)
      BY EnvAssumption DEF Envs, Zlib
    <2>4. /\ file[t] = 0 => ~e.pp /\ (e.gz => Zlib)
          /\ file[t] \in Files => (e.gz => Zlib)
      <3>1. CASE file[t] = 0
        <4>1. From(t) = CErr(t)
          BY <3>1 DEF From
        <4>2. d \in ErrData
          BY <1>1, <2>2, <4>1, OwnAllowed
        <4>3. ~d.pp /\ ~d.gz
          BY <1>1, <2>1, <4>1 DEF Known, TreeRight, OwnPure
        <4> HIDE DEF d
        <4>4. ~e.pp /\ (e.gz => Env[t].zlib)
          BY <2>3, <4>2, <4>3 DEF Packed, ErrData
        <4> QED BY <2>3, <3>1, <4>4, Numbers
      <3>2. CASE file[t] \in Files
        <4>1. From(t) = Out(t, file[t])
          BY <3>2, Numbers DEF From
        <4>2. d \in OutData
          <5>1. d \in Kind[From(t)]
            BY <1>3, DataConforms DEF Known, Inv, TypeInv, Sorted
          <5>2. Kind[Out(t, file[t])] = {x \in OutData : x.part = file[t]}
            BY <3>2, OutKind
          <5> QED BY <4>1, <5>1, <5>2
        <4>3. ~d.gz
          BY <1>1, <2>1, <3>2, <4>1 DEF Known, TreeRight, OwnPure
        <4> HIDE DEF d
        <4>4. e.gz => Env[t].zlib
          BY <2>3, <4>2, <4>3 DEF Packed, OutData
        <4> QED BY <2>3, <3>2, <4>4, Numbers
      <3> QED BY <1>1, <3>1, <3>2
    <2> HIDE DEF d, e
    <2>5. fs' = Create(fs, m, e)
      BY <1>3 DEF d, e
    <2> HIDE DEF m
    <2>6. \A n : Contents(fs', n) = IF n = m THEN Contents(fs, n) \cup {e} ELSE Contents(fs, n)
      BY <2>5, ContentsCreate
    <2>7. /\ m \in Makes(t)
          /\ \A n \in {ITmp(t), Cpp(t), CErr(t), Fd(t)} \cup Outs(t) : n # m
          /\ \A k, i : Err(k) # m /\ Obj(k, i) # m
          /\ \A i \in {0} \cup Files : Tmp(t, i) = m <=> i = file[t]
      <3>1. m \in Makes(t)
        BY <1>1, TheMade DEF m
      <3>2. m[1] = "tmp" /\ \A n \in Outs(t) : n[1] = "out"
        BY Heads DEF m, Outs
      <3>3. \A k, i : Err(k) # m /\ Obj(k, i) # m
        BY <3>2, Heads
      <3>4. \A i \in {0} \cup Files : Tmp(t, i) = m <=> i = file[t]
        BY DEF m, Tmp
      <3> QED BY <3>1, <3>2, <3>3, <3>4, Heads
    <2>8. /\ \A x \in Contents(fs', Tmp(t, 0)) : ~x.pp /\ (x.gz => Zlib)
          /\ \A i \in Files : \A x \in Contents(fs', Tmp(t, i)) : x.gz => Zlib
      BY <1>1, <2>4, <2>6, <2>7 DEF Known, TreeRight, OwnPure
    <2>9. \A k \in Key : /\ Contents(fs', Err(k)) = Contents(fs, Err(k))
                         /\ \A i \in Files : Contents(fs', Obj(k, i)) = Contents(fs, Obj(k, i))
      BY <2>6, <2>7
    <2>10. \A k \in Key, i \in Files : \A x \in Contents(fs', Obj(k, i)) : x.gz => Zlib
      BY <1>1, <2>9 DEF Known, CachePure
    <2>11. Moves(t, "unlink") /\ IsCompiled("unlink")
      BY <1>3 DEF CopyToTmp, Goto, Moves, IsCompiled
    <2>12. Stores(t)
      BY <2>6, <2>7, <2>8, <2>9, <2>10 DEF Stores
    <2> QED BY <1>1, <2>11, <2>12, StoringTrans
  <1> QED BY <1>2, <1>3 DEF CopyToTmp

\* rename(2) and link(2) give a file that was made for this entry its name.
LEMMA CopyRenameTrans ==
    ASSUME Copying, Inv, NEW t \in Tree, CopyRename(t)
    PROVE  TransInv'
  <1>1. Known(t) /\ Compiled(t) /\ Busy(t) /\ told' = told /\ file[t] \in {0} \cup Files
        /\ key[t] \in Key
    BY TheKnown DEF Compiled, IsCompiled, Busy, IsBusy, CopyRename, GiveUp, Known, Usual, InHand
  <1>2. CASE GiveUp(t)
    <2>1. Moves(t, "exec") /\ fs' = Remove(fs, {CLst(t)})
      BY <1>2 DEF CopyRename, GiveUp, Goto, Moves
    <2> QED BY <1>1, <2>1, StoreDropTrans
  <1>3. CASE /\ fs' = Remove(Rename(fs, Tmp(t, file[t]), Dest(t)),
                             IF file[t] = 0 THEN {CErr(t)} ELSE {})
             /\ Goto(t, "stored")
    <2> DEFINE a == Tmp(t, file[t])
               b == Dest(t)
               s == Rename(fs, a, b)
               ns == IF file[t] = 0 THEN {CErr(t)} ELSE {}
    <2>1. /\ a # b /\ b \in Names /\ Allowed(pc, key)[a] \subseteq Allowed(pc, key)[b]
      BY <1>1, FromAllowed DEF Inv
    <2>2. fs' = Remove(s, ns) /\ ns \subseteq {CErr(t)}
      BY <1>3
    <2>3. /\ b \in Entries /\ a \in Makes(t)
          /\ b = Err(key[t]) <=> file[t] = 0
      <3>1. b \in Entries /\ a \in Makes(t)
        BY <1>1, DestNames, TheMade DEF Inv
      <3>2. b = Err(key[t]) <=> file[t] = 0
        BY <1>1, Numbers DEF Dest, Err, Obj, Lst
      <3> QED BY <3>1, <3>2
    <2>4. \A d \in Contents(fs, a) : (d.gz => Zlib) /\ (file[t] = 0 => ~d.pp)
      BY <1>1 DEF Known, TreeRight, OwnPure
    <2>5. /\ \A n \in {ITmp(t), Cpp(t), CErr(t), Fd(t)} \cup Outs(t) : n # a
          /\ \A k, i : a # Err(k) /\ a # Obj(k, i)
      <3>1. a[1] = "tmp" /\ \A n \in Outs(t) : n[1] = "out"
        BY Heads DEF Outs
      <3> HIDE DEF a
      <3> QED BY <3>1, Heads
    <2> HIDE DEF a, b, ns
    <2>6. Conforms(s, Names, AnyData, Allowed(pc, key))
      BY <1>1, <2>1, RenameConforms DEF Known
    <2>7. \A n : Contents(s, n) =
              IF n = a THEN {} ELSE IF n = b THEN Contents(fs, a) ELSE Contents(fs, n)
      BY <1>1, <2>1, ContentsRename DEF Known
    <2> HIDE DEF s
    <2>8. \A n : Contents(fs', n) = IF n \in ns THEN {} ELSE Contents(s, n)
      BY <2>2, <2>6, ContentsRemove
    <2>9. \A n : n # b => Contents(fs', n) \subseteq Contents(fs, n)
      BY <2>7, <2>8
    <2>10. Contents(fs', b) \subseteq Contents(fs, a)
      BY <2>1, <2>7, <2>8
    <2>11. /\ \A n \in {ITmp(t), Cpp(t), CErr(t), Fd(t)} \cup Outs(t) : n # b
           /\ \A i : b # Tmp(t, i)
           /\ \A n \in {ITmp(t), Cpp(t)} \cup Outs(t) : n # CErr(t)
           /\ CErr(t) \in Makes(t) /\ b \in Makes(t)
      <3>1. \A n \in {ITmp(t), Cpp(t)} \cup Outs(t) : n # CErr(t)
        BY Heads DEF Outs
      <3> QED BY <2>3, <3>1, EntriesApart, TheMade
    <2>12. /\ \A n : n \notin Makes(t) => Contents(fs', n) = Contents(fs, n)
           /\ \A n \in {ITmp(t), Cpp(t)} \cup Outs(t) : Contents(fs', n) = Contents(fs, n)
      BY <2>2, <2>3, <2>5, <2>7, <2>8, <2>11
    <2>13. \A k \in Key : \/ Contents(fs', Err(k)) \subseteq Contents(fs, Err(k))
                          \/ /\ k = key[t]
                             /\ \A d \in Contents(fs', Err(k)) : ~d.pp /\ (d.gz => Zlib)
      <3> SUFFICES ASSUME NEW k \in Key, Err(k) = b
                   PROVE  /\ k = key[t]
                          /\ \A d \in Contents(fs', Err(k)) : ~d.pp /\ (d.gz => Zlib)
        BY <2>9
      <3>1. k = key[t] /\ file[t] = 0
        <4>1. Err(k)[1] = "err" /\ Err(k)[2] = k
          BY DEF Err
        <4>2. b = Err(key[t])
          BY <2>3, <4>1, Numbers DEF Dest, Obj, Lst, b, Err
        <4> QED BY <2>3, <4>2 DEF Err
      <3> QED BY <2>4, <2>10, <3>1
    <2>14. \A k \in Key, i \in Files : \A d \in Contents(fs', Obj(k, i)) : d.gz => Zlib
      BY <1>1, <2>4, <2>9, <2>10 DEF Known, CachePure
    <2>15. /\ \A d \in Contents(fs', Tmp(t, 0)) : ~d.pp /\ (d.gz => Zlib)
           /\ \A i \in Files : \A d \in Contents(fs', Tmp(t, i)) : d.gz => Zlib
      BY <1>1, <2>9, <2>11 DEF Known, TreeRight, OwnPure
    <2>16. Stores(t)
      BY <2>9, <2>11, <2>12, <2>13, <2>14, <2>15 DEF Stores
    <2>17. Moves(t, "stored") /\ IsCompiled("stored")
      BY <1>3 DEF CopyRename, Goto, Moves, IsCompiled
    <2> QED BY <1>1, <2>16, <2>17, StoringTrans
  <1> QED BY <1>2, <1>3 DEF CopyRename

LEMMA ContentsSafeRename ==
    ASSUME NEW K, NEW s, Conforms(s, Names, AnyData, K), NEW a, NEW b \in Names,
           a # b, K[a] \subseteq K[b], NEW n
    PROVE  Contents(SafeRename(s, a, b), n) =
              IF n = a THEN {} ELSE IF n = b /\ ~Has(s, b) THEN Contents(s, a)
              ELSE Contents(s, n)
  <1> DEFINE l == IF Has(s, b) THEN s ELSE Link(s, a, b)
  <1>1. \A f \in s : a \in f.names => f.data \in K[b]
    BY DEF Conforms
  <1>2. Conforms(l, Names, AnyData, K)
    BY <1>1, LinkConforms
  <1>3. \A m : Contents(l, m) = IF m = b /\ ~Has(s, b) THEN Contents(s, a) ELSE Contents(s, m)
    <2>1. CASE Has(s, b)
      BY <2>1
    <2>2. CASE ~Has(s, b)
      <3>1. Contents(s, b) = {}
        BY <2>2, ContentsHas
      <3> QED BY <2>2, <3>1, ContentsLink
    <2> QED BY <2>1, <2>2
  <1>4. SafeRename(s, a, b) = Remove(l, {a})
    BY DEF SafeRename
  <1> HIDE DEF l
  <1> QED BY <1>2, <1>3, <1>4, ContentsRemove

LEMMA PutTrans ==
    ASSUME Copying, Inv, NEW t \in Tree, PutList(t) \/ PutStderr(t)
    PROVE  TransInv'
  <1>1. Known(t) /\ Compiled(t) /\ Busy(t) /\ told' = told /\ key[t] \in Key
    BY TheKnown DEF Compiled, IsCompiled, Busy, IsBusy, PutList, PutStderr, GiveUp, Known, Usual
  <1>2. CASE GiveUp(t)
    <2>1. Moves(t, "exec") /\ fs' = Remove(fs, {CLst(t)})
      BY <1>2 DEF PutList, PutStderr, GiveUp, Goto, Moves
    <2> QED BY <1>1, <2>1, StoreDropTrans
  <1>3. CASE fs' = fs /\ Goto(t, "copy") /\ PutStderr(t)
    <2>1. Moves(t, "copy") /\ IsCompiled("copy")
      BY <1>3 DEF PutStderr, Goto, Moves, IsCompiled
    <2> QED BY <1>1, <1>3, <2>1, StoreDropTrans
  <1>4. ASSUME NEW a \in {CLst(t), CErr(t)}, NEW b \in {Lst(key[t]), Err(key[t])},
               a = CErr(t) <=> b = Err(key[t]),
               fs' = SafeRename(fs, a, b), Goto(t, "stored")
        PROVE  TransInv'
    <2>1. /\ b \in Entries /\ b \in Names /\ a \in Makes(t) /\ a # b
      BY <1>1, TheMade, KindOf, Numbers, Heads DEF Entries
    <2>2. Allowed(pc, key)[a] \subseteq Allowed(pc, key)[b]
      <3>1. Allowed(pc, key)[CLst(t)] = TextData /\ Allowed(pc, key)[Lst(key[t])] = TextData
        BY <1>1, PlainAllowed
      <3>2. Allowed(pc, key)[CErr(t)] = {d \in ErrData : d.of = key[t]}
        BY <1>1, OwnAllowed DEF Busy
      <3>3. Allowed(pc, key)[Err(key[t])] = {d \in ErrData : d.of = key[t]}
        BY <1>1, ErrIs
      <3> QED BY <1>4, <3>1, <3>2, <3>3
    <2>3. \A n : Contents(fs', n) =
              IF n = a THEN {} ELSE IF n = b /\ ~Has(fs, b) THEN Contents(fs, a)
              ELSE Contents(fs, n)
      BY <1>1, <1>4, <2>1, <2>2, ContentsSafeRename DEF Known
    <2>4. /\ \A n \in {ITmp(t), Cpp(t), CErr(t), Fd(t)} \cup Outs(t) : n # b
          /\ \A i : b # Tmp(t, i)
          /\ \A n \in {ITmp(t), Cpp(t)} \cup Outs(t) : n # a
          /\ b \in Makes(t)
          /\ \A k, i : b # Obj(k, i)
      <3>1. \A n \in {ITmp(t), Cpp(t)} \cup Outs(t) : n # CErr(t) /\ n # CLst(t)
        BY Heads DEF Outs
      <3>2. \A k, i : b # Obj(k, i)
        BY Heads
      <3> QED BY <1>4, <2>1, <3>1, <3>2, EntriesApart
    <2>5. /\ \A n : n \notin Makes(t) => Contents(fs', n) = Contents(fs, n)
          /\ \A n \in {ITmp(t), Cpp(t)} \cup Outs(t) : Contents(fs', n) = Contents(fs, n)
      BY <2>1, <2>3, <2>4
    <2>6. \A n : n # b => Contents(fs', n) \subseteq Contents(fs, n)
      BY <2>3
    <2>7. \A k \in Key : \/ Contents(fs', Err(k)) \subseteq Contents(fs, Err(k))
                         \/ /\ k = key[t]
                            /\ \A d \in Contents(fs', Err(k)) : ~d.pp /\ (d.gz => Zlib)
      <3> SUFFICES ASSUME NEW k \in Key, Err(k) = b
                   PROVE  \/ Contents(fs', b) \subseteq Contents(fs, b)
                          \/ /\ k = key[t]
                             /\ \A d \in Contents(fs', b) : ~d.pp /\ (d.gz => Zlib)
        BY <2>6
      <3>1. k = key[t] /\ a = CErr(t)
        <4>1. b # Lst(key[t])
          BY Heads
        <4> QED BY <1>4, <4>1 DEF Err
      <3>2. \A d \in Contents(fs, a) : ~d.pp /\ ~d.gz
        BY <1>1, <3>1 DEF Known, TreeRight, OwnPure
      <3> QED BY <2>1, <2>3, <3>1, <3>2
    <2>8. \A k \in Key, i \in Files : \A d \in Contents(fs', Obj(k, i)) : d.gz => Zlib
      BY <1>1, <2>4, <2>6 DEF Known, CachePure
    <2>9. /\ \A d \in Contents(fs', Tmp(t, 0)) : ~d.pp /\ (d.gz => Zlib)
          /\ \A i \in Files : \A d \in Contents(fs', Tmp(t, i)) : d.gz => Zlib
      BY <1>1, <2>4, <2>6 DEF Known, TreeRight, OwnPure
    <2>10. Stores(t)
      BY <2>4, <2>5, <2>6, <2>7, <2>8, <2>9 DEF Stores
    <2>11. Moves(t, "stored") /\ IsCompiled("stored")
      BY <1>4 DEF PutList, PutStderr, Goto, Moves, IsCompiled
    <2> QED BY <1>1, <2>10, <2>11, StoringTrans
  <1>5. CLst(t) # CErr(t) /\ Lst(key[t]) # Err(key[t])
    BY Heads
  <1> QED BY <1>2, <1>3, <1>4, <1>5 DEF PutList, PutStderr

-----------------------------------------------------------------------------
LEMMA NextTrans ==
    ASSUME Copying, Alike, Inv, [Next]_vars
    PROVE  TransInv'
  <1>1. ASSUME NEW t \in Tree, Step(t) PROVE TransInv'
    <2>1. ~RetrieveLink(t) /\ ~CommitLink(t)
      BY NoLinkRight DEF Inv
    <2> QED BY <1>1, <2>1, LooksOnlyTrans, OpenStderrTrans, RetrieveCopyTrans, DeliverTrans,
               CompileTrans, CompileEndTrans, StdoutTrans, CompileFailedTrans, CommitTrans,
               CopyToTmpTrans, CopyRenameTrans, PutTrans, ExecTrans, ExecEndTrans
               DEF Step, LooksOnly
  <1>2. ~Wipe
    BY DEF Alike, Wipe
  <1> QED BY <1>1, <1>2, FindHashTrans, EditTrans, CrashTrans, CleanTrans, StutterTrans
          DEF Next, Inv

LEMMA AlwaysInv ==
    ASSUME Copying, Alike
    PROVE  Spec => []Inv
  <1>1. Init => Inv
    BY InitTypeInv, InitRight, InitNames, InitTrans DEF Inv
  <1>2. Inv /\ [Next]_vars => Inv'
    BY NextTypeInv, NextRight, NextNames, NextTrans DEF Inv
  <1> QED BY <1>1, <1>2, PTL DEF Spec

\* A run that ended left the files, the status and the messages, complete and
\* once, that the compiler makes of one of the versions which its source had
\* during the run: whatever other trees' drivers, cleanups, editors and
\* crashes did to the cache while from_cache() and to_cache() used it.
THEOREM RunsAreTransparent ==
    ASSUME Copying, Alike
    PROVE  Spec => []SameAsCompiler
  <1>1. Inv => SameAsCompiler
    BY TransInvImpliesSameAsCompiler DEF Inv
  <1> QED BY <1>1, AlwaysInv, PTL

-----------------------------------------------------------------------------
(* Compilers that share nothing. *)

\* A tree's result is that of the version whose messages it was told.
Told(t) == IF Answered(t) THEN told[t].err.of ELSE NoReply

LEMMA ResultIsTold ==
    ASSUME Inv, NEW t \in Tree
    PROVE  Result(t) = Told(t)
  <1>1. CASE ~Answered(t)
    BY <1>1 DEF Result, Told
  <1>2. CASE Answered(t)
    <2> DEFINE vs == {v \in seen[t] : LikeCompiler(t, v)}
    <2>1. SameAsCompiler
      BY TransInvImpliesSameAsCompiler DEF Inv
    <2>2. vs # {}
      BY <1>2, <2>1 DEF SameAsCompiler
    <2>3. ASSUME NEW v \in vs PROVE v = told[t].err.of
      BY <2>3 DEF LikeCompiler, Stderr
    <2>4. (CHOOSE v \in vs : TRUE) = told[t].err.of
      BY <2>2, <2>3
    <2> QED BY <1>2, <2>2, <2>4 DEF Result, Told
  <1> QED BY <1>1, <1>2

LEMMA ToldOfSeen ==
    ASSUME Inv, NEW t \in Tree, Answered(t)
    PROVE  Told(t) \in seen[t]
  BY DEF Told, Answered, Inv, TransInv, TreeRight, OfTheRun

\* What a step of t's driver does to what its caller sees.
LEMMA StepSeen ==
    ASSUME Copying, Inv, NEW t \in Tree, Step(t)
    PROVE  /\ UNCHANGED <<source, seen>>
           /\ pc[t] # "idle"
           /\ \A u \in Tree \ {t} : pc'[u] = pc[u] /\ told'[u] = told[u]
           /\ pc'[t] = "idle" => told'[t] # NoReply
  <1> USE DEF Goto, SetFile, End, Exit
  <1>1. pc \in [Tree -> Labels] /\ told \in [Tree -> Replies \cup {NoReply}]
    BY DEF Inv, TypeInv, Locals
  <1>2. \A s, e, p : s \in {0, 1} => [status |-> s, err |-> e, pre |-> p] # NoReply
    BY DEF NoReply
  <1>3. CASE Deliver(t) \/ CompileFailed(t)
    BY <1>1, <1>2, <1>3 DEF Deliver, CompileFailed
  <1>4. CASE ExecEnd(t)
    BY <1>1, <1>2, <1>4 DEF ExecEnd
  <1>5. CASE ~Deliver(t) /\ ~CompileFailed(t) /\ ~ExecEnd(t)
    <2>1. Missed(t) # "idle"
      BY DEF Missed
    <2>2. /\ UNCHANGED <<source, seen, told>> /\ pc[t] # "idle"
          /\ \E l : pc' = [pc EXCEPT ![t] = l] /\ l # "idle"
      BY <1>1, <1>5, <2>1, ZenonT(60) DEF Step, OpenStderr, StatObject, TestEntry, Drop, OpenList, Retrieve,
           RetrieveLink, RetrieveCopy, Retrieved, DropFreed, Compile, CompileEnd,
           StdoutSeen, StdoutEmpty, Commit, CommitLink, CopyToTmp, CopyUnlink,
           CopyRename, Stored, PutList, PutStderr, GiveUp, Exec
    <2> QED BY <1>1, <2>2
  <1> QED BY <1>3, <1>4, <1>5

\* Every step of the drivers is a step of such compilers, or none.
LEMMA NextRefines ==
    ASSUME Copying, Inv, [Next]_vars, Inv', Alike,
           \A u \in Tree : Result(u) = Told(u) /\ Result(u)' = Told(u)',
           \A u \in Tree : Answered(u)' => Told(u)' \in seen'[u]
    PROVE  [Alone!Next]_(Alone!vars)
  <1> DEFINE w == [u \in Tree |-> pc[u] # "idle"]
             x == [u \in Tree |-> pc'[u] # "idle"]
             r == [u \in Tree |-> Told(u)]
             q == [u \in Tree |-> Told(u)']
  <1>1. /\ source \in [Tree -> Key] /\ seen \in [Tree -> SUBSET Key] /\ pc \in [Tree -> Labels]
        /\ told \in [Tree -> Replies \cup {NoReply}]
    BY DEF Inv, TypeInv, Locals
  <1>2. /\ [u \in Tree |-> Result(u)] = r
        /\ [u \in Tree |-> Result(u)'] = q
    OBVIOUS
  <1>3. ASSUME NEW t \in Tree, \A u \in Tree \ {t} : pc'[u] = pc[u] /\ told'[u] = told[u]
        PROVE  /\ x = [w EXCEPT ![t] = pc'[t] # "idle"]
               /\ q = [r EXCEPT ![t] = Told(t)']
    <2>1. \A u \in Tree \ {t} : x[u] = w[u] /\ q[u] = r[u]
      BY <1>3 DEF Told, Answered
    <2> QED BY <2>1
  <1>4. (UNCHANGED <<source, seen>> /\ x = w /\ q = r) => UNCHANGED Alone!vars
    BY <1>2 DEF Alone!vars
  <1>5. ASSUME NEW t \in Tree, Step(t)
        PROVE  [Alone!Next]_(Alone!vars)
    <2>1. /\ UNCHANGED <<source, seen>> /\ pc[t] # "idle"
          /\ x = [w EXCEPT ![t] = pc'[t] # "idle"] /\ q = [r EXCEPT ![t] = Told(t)']
          /\ pc'[t] = "idle" => told'[t] # NoReply
      BY <1>3, <1>5, StepSeen
    <2>2. CASE pc'[t] # "idle"
      <3>1. Told(t) = NoReply /\ Told(t)' = NoReply
        BY <2>1, <2>2 DEF Told, Answered
      <3>2. x = w /\ q = r
        BY <2>1, <2>2, <3>1
      <3> QED BY <1>4, <2>1, <3>2
    <2>3. CASE pc'[t] = "idle"
      <3>1. Answered(t)'
        BY <2>1, <2>3 DEF Answered
      <3>2. Told(t)' \in seen[t]
        BY <2>1, <3>1
      <3>3. w[t] /\ x = [w EXCEPT ![t] = FALSE]
        BY <2>1, <2>3
      <3>4. Alone!Answer(t)
        BY <1>2, <2>1, <3>2, <3>3 DEF Alone!Answer
      <3> QED BY <3>4 DEF Alone!Next
    <2> QED BY <2>2, <2>3
  <1>6. ASSUME NEW t \in Tree, FindHash(t)
        PROVE  Alone!Ask(t)
    <2>1. /\ pc[t] = "idle" /\ UNCHANGED source
          /\ seen' = [seen EXCEPT ![t] = {source[t]}]
          /\ told' = [told EXCEPT ![t] = NoReply]
          /\ pc' = [pc EXCEPT ![t] = "exec"] \/ pc' = [pc EXCEPT ![t] = "open"]
      BY <1>6 DEF FindHash, Goto
    <2>2. \A u \in Tree \ {t} : pc'[u] = pc[u] /\ told'[u] = told[u]
      BY <1>1, <2>1
    <2>3. pc'[t] # "idle" /\ Told(t)' = NoReply
      BY <1>1, <2>1 DEF Told, Answered
    <2>4. ~w[t] /\ x = [w EXCEPT ![t] = TRUE] /\ q = [r EXCEPT ![t] = NoReply]
      BY <1>3, <2>1, <2>2, <2>3
    <2> QED BY <1>2, <2>1, <2>4 DEF Alone!Ask
  <1>7. ASSUME NEW t \in Tree, Edit(t)
        PROVE  Alone!Edit(t)
    <2>1. /\ UNCHANGED <<pc, told>>
          /\ \E k \in Key \ {source[t]} :
                /\ source' = [source EXCEPT ![t] = k]
                /\ seen' = IF w[t] THEN [seen EXCEPT ![t] = @ \cup {k}] ELSE seen
      BY <1>7 DEF Edit
    <2>2. x = w /\ q = r
      BY <2>1 DEF Told, Answered
    <2> QED BY <1>2, <2>1, <2>2 DEF Alone!Edit
  <1>8. ASSUME NEW t \in Tree, Crash(t)
        PROVE  Alone!Die(t)
    <2>1. /\ pc[t] # "idle" /\ UNCHANGED <<source, told>>
          /\ seen' = [seen EXCEPT ![t] = {}]
          /\ pc' = [pc EXCEPT ![t] = "idle"]
      BY <1>8 DEF Crash, End, Goto
    <2>2. told[t] = NoReply
      BY <2>1 DEF Inv, TransInv, TreeRight, OfTheRun
    <2>3. \A u \in Tree \ {t} : pc'[u] = pc[u] /\ told'[u] = told[u]
      BY <1>1, <2>1
    <2>4. pc'[t] = "idle" /\ Told(t)' = NoReply /\ Told(t) = NoReply
      BY <1>1, <2>1, <2>2 DEF Told, Answered
    <2>5. q = [r EXCEPT ![t] = NoReply] /\ r[t] = NoReply
      BY <1>3, <2>3, <2>4
    <2>6. q = r
      BY <2>5
    <2>7. w[t] /\ x = [w EXCEPT ![t] = FALSE]
      BY <1>3, <2>1, <2>3, <2>4
    <2> QED BY <1>2, <2>1, <2>6, <2>7 DEF Alone!Die
  <1>9. CASE Clean \/ UNCHANGED vars
    <2>1. UNCHANGED <<source, pc, told, seen>>
      BY <1>9 DEF Clean, vars
    <2>2. x = w /\ q = r
      BY <2>1 DEF Told, Answered
    <2> QED BY <1>4, <2>1, <2>2
  <1>10. ~Wipe
    BY DEF Alike, Wipe
  <1> QED BY <1>5, <1>6, <1>7, <1>8, <1>9, <1>10 DEF Next, Alone!Next

\* What the refinement needs of a state: the result that a tree holds is the
\* one it was told, and was made from a version its source had during the run.
HoldsTold ==
    \A t \in Tree : Result(t) = Told(t) /\ (Answered(t) => Told(t) \in seen[t])

\* ccache.yo: drivers that share a cache, with editors, cleanups and crashes
\* between any two of their steps, do nothing that compilers without a cache
\* could not do: each run of ccache() ends with the result of compiling one of
\* the versions its source had meanwhile, and never changes another tree's.
THEOREM CacheImplementsCompiler ==
    ASSUME Copying, Alike
    PROVE  Spec => ImplementsCompiler
  <1>1. Init => Alone!Init
    <2> SUFFICES ASSUME Init PROVE Alone!Init
      OBVIOUS
    <2>1. /\ source \in [Tree -> Key] /\ seen = [t \in Tree |-> {}]
          /\ pc = [t \in Tree |-> "idle"] /\ told = [t \in Tree |-> NoReply]
      BY DEF Init
    <2>2. \A t \in Tree : Result(t) = NoReply
      BY <2>1 DEF Result, Answered
    <2>3. [t \in Tree |-> Result(t)] = [t \in Tree |-> NoReply]
      BY <2>2
    <2>4. [t \in Tree |-> pc[t] # "idle"] = [t \in Tree |-> FALSE]
      BY <2>1
    <2> QED BY <2>1, <2>3, <2>4 DEF Alone!Init
  <1>2. Inv => HoldsTold
    BY ResultIsTold, ToldOfSeen DEF HoldsTold
  <1>3. Inv /\ HoldsTold /\ Inv' /\ HoldsTold' /\ [Next]_vars => [Alone!Next]_(Alone!vars)
    BY NextRefines DEF HoldsTold
  <1>4. Spec => []Inv
    BY AlwaysInv
  <1> QED BY <1>1, <1>2, <1>3, <1>4, PTL DEF Spec, ImplementsCompiler, Alone!Safety
=============================================================================
