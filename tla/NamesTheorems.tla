---------------------------- MODULE NamesTheorems ----------------------------
(***************************************************************************)
(* No name of a file stands for two inodes, and a run that ended left no   *)
(* temporary file behind, for any number of trees, versions and generated  *)
(* files, for any environments and with "ccache -C" running in between.    *)
(*                                                                         *)
(* Neither is inductive.  link(2), open(2) with O_EXCL and the descriptor  *)
(* of fopen() take a name that must not be there, so the invariant says at *)
(* which steps of a run each temporary name may be there at all.           *)
(***************************************************************************)
EXTENDS CCacheTheorems

\* from_cache()
Looking == {"open", "drop"} \cup Holding

\* Where the driver of t is while its temporary files exist.  tmp_stderr and
\* tmp_outfiles may outlive the error paths of to_cache(), but not into the
\* next compile: that one belongs to a new run, or a run would look for a
\* first time again.
InPlace(t) ==
    /\ Has(fs, ITmp(t)) \/ Has(fs, Cpp(t)) => pc[t] \notin {"idle", "execend"}
    /\ Has(fs, COut(t)) => pc[t] \in {"stdout", "status"}
    /\ Has(fs, CErr(t)) \/ Has(fs, CLst(t)) =>
          pc[t] \notin {"compile", "write"} /\ ~(pc[t] \in Looking /\ first[t])
    /\ Has(fs, Fd(t)) => pc[t] \in Holding
    /\ \A i \in {0} \cup Files : Has(fs, Tmp(t, i)) =>
          pc[t] \in {"unlink", "rename"} /\ i = file[t]
    /\ pc[t] = "rlink" => ~Has(fs, Out(t, file[t]))

NamesInv == OneInode(fs) /\ \A t \in Tree : InPlace(t)

LEMMA NamesInvImpliesOneInodePerName == NamesInv => OneInodePerName
  BY DEF NamesInv, OneInode, OneInodePerName

LEMMA NamesInvImpliesNoStrayTemps == NamesInv => NoStrayTemps
  <1> SUFFICES ASSUME NamesInv, NEW t \in Tree, Answered(t)
               PROVE  /\ ~Has(fs, ITmp(t)) /\ ~Has(fs, Cpp(t)) /\ ~Has(fs, COut(t))
                      /\ ~Has(fs, Fd(t)) /\ \A n \in Tmps(t) : ~Has(fs, n)
    BY DEF NoStrayTemps
  <1>1. pc[t] = "idle" /\ InPlace(t)
    BY DEF Answered, NamesInv
  <1>2. \A i \in {0} \cup Files : ~Has(fs, Tmp(t, i))
    BY <1>1 DEF InPlace
  <1>3. ~Has(fs, ITmp(t)) /\ ~Has(fs, Cpp(t)) /\ ~Has(fs, COut(t)) /\ ~Has(fs, Fd(t))
    BY <1>1 DEF InPlace, Holding
  <1> QED BY <1>2, <1>3 DEF Tmps

-----------------------------------------------------------------------------
\* The class of a name is its first component.
LEMMA Heads ==
    ASSUME NEW t, NEW k, NEW i
    PROVE  /\ Obj(k, i)[1] = "obj" /\ Err(k)[1] = "err" /\ Lst(k)[1] = "lst"
           /\ Tmp(t, i)[1] = "tmp" /\ Out(t, i)[1] = "out" /\ ITmp(t)[1] = "itmp"
           /\ Cpp(t)[1] = "cpp" /\ COut(t)[1] = "cout" /\ CErr(t)[1] = "cerr"
           /\ CLst(t)[1] = "clst" /\ Fd(t)[1] = "fd"
  BY DEF Obj, Err, Lst, Tmp, Out, ITmp, Cpp, COut, CErr, CLst, Fd

\* The names that a driver makes: the entries', its own and no other tree's.
Entries  == {Obj(k, i) : k \in Key, i \in Files}
            \cup {Err(k) : k \in Key} \cup {Lst(k) : k \in Key}
Makes(t) == Entries \cup Temps(t) \cup Tmps(t) \cup {Fd(t)} \cup Outs(t)

LEMMA NotMade ==
    ASSUME NEW t \in Tree, NEW u \in Tree \ {t}
    PROVE  /\ \A n \in {ITmp(u), Cpp(u), COut(u), CErr(u), CLst(u), Fd(u)} : n \notin Makes(t)
           /\ \A i \in {0} \cup Files : Tmp(u, i) \notin Makes(t)
           /\ \A i : Out(u, i) \notin Makes(t)
  BY DEF Makes, Entries, Temps, Tmps, Outs,
         Obj, Err, Lst, Tmp, Out, ITmp, Cpp, COut, CErr, CLst, Fd

\* A step of t's driver keeps the invariant when it does so for t, and makes
\* nothing but its own names.
LEMMA StepNames ==
    ASSUME NamesInv, NEW t \in Tree, OneInode(fs)', InPlace(t)',
           \A u \in Tree \ {t} : pc'[u] = pc[u] /\ file'[u] = file[u] /\ first'[u] = first[u],
           \A n : Has(fs', n) => Has(fs, n) \/ n \in Makes(t)
    PROVE  NamesInv'
  <1> SUFFICES ASSUME NEW u \in Tree \ {t}
               PROVE  InPlace(u)'
    BY DEF NamesInv
  <1>1. InPlace(u)
    BY DEF NamesInv
  <1>2. /\ \A n \in {ITmp(u), Cpp(u), COut(u), CErr(u), CLst(u), Fd(u)} : Has(fs', n) => Has(fs, n)
        /\ \A i \in {0} \cup Files : Has(fs', Tmp(u, i)) => Has(fs, Tmp(u, i))
        /\ \A i : Has(fs', Out(u, i)) => Has(fs, Out(u, i))
    BY NotMade
  <1> QED BY <1>1, <1>2 DEF InPlace

\* Its label and its loop variables are all that a step changes otherwise.
Others(t) == \A u \in Tree \ {t} :
                pc'[u] = pc[u] /\ file'[u] = file[u] /\ first'[u] = first[u]

LEMMA RemovingNames ==
    ASSUME TypeInv, NamesInv, NEW t \in Tree, NEW ns,
           fs' = fs \/ fs' = Remove(fs, ns), Others(t), InPlace(t)'
    PROVE  NamesInv'
  <1>1. OneInode(fs')
    BY RemoveOneInode DEF NamesInv
  <1>2. \A n : Has(fs', n) => Has(fs, n)
    BY HasRemove DEF TypeInv, Sorted
  <1> QED BY <1>1, <1>2, StepNames DEF Others

-----------------------------------------------------------------------------
\* The compiler opens its outputs: all of them are there afterwards.
LEMMA WriteOutsNames ==
    ASSUME NEW s, NEW K, Conforms(s, Names, AnyData, K), OneInode(s),
           NEW t, NEW v, NEW done
    PROVE  /\ OneInode(WriteOuts(s, t, v, done))
           /\ \A n : Has(WriteOuts(s, t, v, done), n) <=> Has(s, n) \/ n \in Outs(t)
  <1> DEFINE D(i) == [Output(v, i) EXCEPT !.whole = done]
             Mine(f) == \E i \in Files : Out(t, i) \in f.names
             C(f) == CHOOSE i \in Files : Out(t, i) \in f.names
             W(f) == IF Mine(f) THEN [f EXCEPT !.data = D(C(f))] ELSE f
             old == {W(f) : f \in s}
             N(i) == [names |-> {Out(t, i)}, data |-> D(i)]
             new == {N(i) : i \in {j \in Files : ~Has(s, Out(t, j))}}
  <1>1. WriteOuts(s, t, v, done) = old \cup new
    BY DEF WriteOuts
  <1>2. \A i \in Files : N(i).names = {Out(t, i)}
    OBVIOUS
  <1>3. ASSUME NEW f \in s PROVE W(f).names = f.names
    <2>1. f \in [names : SUBSET Names, data : AnyData]
      BY DEF Conforms
    <2> HIDE DEF D, C, Mine
    <2> QED BY <2>1
  <1>4. \A i, j \in Files : Out(t, i) = Out(t, j) => i = j
    BY DEF Out
  <1> HIDE DEF W, N
  <1>5. ASSUME NEW f \in old \cup new, NEW g \in old \cup new, f # g,
               NEW n, n \in f.names, n \in g.names
        PROVE  FALSE
    <2>1. CASE f \in old /\ g \in old
      <3>1. PICK a \in s, b \in s : f = W(a) /\ g = W(b)
        BY <2>1
      <3> QED BY <1>3, <1>5, <3>1 DEF OneInode
    <2>2. CASE f \in new /\ g \in new
      <3>1. PICK i \in Files, j \in Files : f = N(i) /\ g = N(j)
        BY <2>2
      <3> QED BY <1>2, <1>4, <1>5, <3>1
    <2>3. ASSUME NEW a \in old, NEW b \in new, n \in a.names, n \in b.names
          PROVE  FALSE
      <3>1. PICK c \in s : a = W(c)
        OBVIOUS
      <3>2. PICK i \in Files : b = N(i) /\ ~Has(s, Out(t, i))
        OBVIOUS
      <3> QED BY <1>2, <1>3, <2>3, <3>1, <3>2 DEF Has
    <2> QED BY <1>5, <2>1, <2>2, <2>3
  <1>6. ASSUME NEW n PROVE Has(old \cup new, n) <=> Has(s, n) \/ n \in Outs(t)
    <2>1. (\E f \in old : n \in f.names) <=> Has(s, n)
      BY <1>3 DEF Has
    <2>2. (\E f \in new : n \in f.names) <=> \E i \in Files : n = Out(t, i) /\ ~Has(s, n)
      BY <1>2
    <2>3. n \in Outs(t) <=> \E i \in Files : n = Out(t, i)
      BY DEF Outs
    <2> HIDE DEF old, new
    <2> QED BY <2>1, <2>2, <2>3 DEF Has
  <1> HIDE DEF old, new
  <1> QED BY <1>1, <1>5, <1>6 DEF OneInode

LEMMA LoggedNames ==
    ASSUME NEW s, OneInode(s), NEW t, NEW v,
           ~Has(s, COut(t)), ~Has(s, CErr(t)), ~Has(s, CLst(t))
    PROVE  /\ OneInode(Logged(s, t, v))
           /\ \A n : Has(Logged(s, t, v), n) =>
                 Has(s, n) \/ n \in {COut(t), CErr(t), CLst(t)}
  <1> DEFINE e == Stderr(v, Env[t].input # "cpp")
             a == Create(s, COut(t), [of |-> v])
             b == Create(a, CErr(t), e)
             c == Create(b, CLst(t), [of |-> v])
  <1>1. OneInode(a) /\ \A n : Has(a, n) <=> Has(s, n) \/ n = COut(t)
    BY CreateOneInode, HasCreate
  <1>2. COut(t) # CErr(t) /\ COut(t) # CLst(t) /\ CErr(t) # CLst(t)
    BY DEF COut, CErr, CLst
  <1> HIDE DEF a
  <1>3. OneInode(b) /\ \A n : Has(b, n) <=> Has(a, n) \/ n = CErr(t)
    BY <1>1, <1>2, CreateOneInode, HasCreate
  <1> HIDE DEF b
  <1>4. OneInode(c) /\ \A n : Has(c, n) <=> Has(b, n) \/ n = CLst(t)
    BY <1>1, <1>2, <1>3, CreateOneInode, HasCreate
  <1> HIDE DEF c
  <1>5. Logged(s, t, v) = IF SWIG THEN c ELSE b
    BY DEF Logged, a, b, c
  <1> QED BY <1>1, <1>3, <1>4, <1>5

-----------------------------------------------------------------------------
(* One lemma per kind of action.  What every action of t's driver can rely *)
(* on: where its names are, and what removing does to them.                *)
Usual(t) ==
    /\ InPlace(t) /\ OneInode(fs) /\ Conforms(fs, Names, AnyData, Kind)
    /\ pc \in [Tree -> Labels] /\ file \in [Tree -> 0 .. List]
    /\ first \in [Tree -> BOOLEAN] /\ key[t] \in Key
    /\ InHand(pc[t], file[t])

LEMMA TheUsual ==
    ASSUME TypeInv, NamesInv, NEW t \in Tree
    PROVE  Usual(t)
  BY DEF TypeInv, NamesInv, Locals, Sorted, FilesInHand, Usual

\* from_cache(), and the steps of to_cache() that only remove files
LooksOnly(t) == StatObject(t) \/ TestEntry(t) \/ Drop(t) \/ OpenList(t)
                \/ Retrieve(t) \/ DropFreed(t)

LEMMA LooksOnlyNames ==
    ASSUME TypeInv, NamesInv, NEW t \in Tree, LooksOnly(t)
    PROVE  NamesInv'
  <1> USE DEF Goto, SetFile
  <1>1. Usual(t)
    BY TheUsual
  <1>2. /\ first' = first /\ (file' = file \/ file' = [file EXCEPT ![t] = 1])
        /\ \E l \in Labels : pc' = [pc EXCEPT ![t] = l]
    BY DEF LooksOnly, StatObject, TestEntry, Drop, OpenList, Retrieve, DropFreed,
           Missed, Labels
  <1>3. Others(t)
    BY <1>1, <1>2 DEF Others, Usual
  <1>4. PICK ns : /\ fs' = fs \/ fs' = Remove(fs, ns)
                  /\ pc'[t] \in Holding
                     \/ (pc'[t] \in {"drop", "compile", "exec"} /\ ~Has(fs', Fd(t)))
                  /\ pc'[t] = "compile" => first[t]
                  /\ pc'[t] = "rlink" => ~Has(fs', Out(t, file'[t]))
    <2>1. CASE StatObject(t)
      BY <1>1, <2>1, HasRemove DEF StatObject, Usual, Holding
    <2>2. CASE TestEntry(t)
      BY <1>1, <2>2, HasRemove DEF TestEntry, Usual, Holding
    <2>3. CASE Drop(t)
      BY <1>1, <2>3, HasRemove DEF Drop, Usual, InPlace, Holding, Missed
    <2>4. CASE OpenList(t)
      BY <1>1, <2>4 DEF OpenList, Usual, Holding
    <2>5. CASE Retrieve(t)
      BY <1>1, <2>5, HasRemove DEF Retrieve, Usual, Holding
    <2>6. CASE DropFreed(t)
      BY <1>1, <2>6, HasRemove DEF DropFreed, Usual, Holding, Missed
    <2> QED BY <2>1, <2>2, <2>3, <2>4, <2>5, <2>6 DEF LooksOnly
  <1>5. pc[t] \in Looking /\ pc[t] \notin {"unlink", "rename", "stdout", "status"}
    BY DEF LooksOnly, StatObject, TestEntry, Drop, OpenList, Retrieve, DropFreed,
           Looking, Holding
  <1>6. \A n : Has(fs', n) => Has(fs, n)
    BY <1>1, <1>4, HasRemove DEF Usual
  <1>7. InPlace(t)'
    BY <1>1, <1>2, <1>4, <1>5, <1>6 DEF InPlace, Usual, Looking, Holding
  <1> QED BY <1>3, <1>4, <1>7, RemovingNames

LEMMA OpenStderrNames ==
    ASSUME TypeInv, NamesInv, NEW t \in Tree, OpenStderr(t)
    PROVE  NamesInv'
  <1>1. Usual(t)
    BY TheUsual
  <1>2. UNCHANGED <<first, file>> /\ pc[t] = "open"
    BY DEF OpenStderr
  <1>3. CASE Has(fs, Err(key[t]))
    <2>1. fs' = Link(fs, Err(key[t]), Fd(t)) /\ pc' = [pc EXCEPT ![t] = "stat"]
      BY <1>3 DEF OpenStderr, Goto
    <2>2. ~Has(fs, Fd(t))
      BY <1>1, <1>2 DEF Usual, InPlace, Holding
    <2>3. OneInode(fs') /\ \A n : Has(fs', n) <=> Has(fs, n) \/ n = Fd(t)
      BY <1>1, <1>3, <2>1, <2>2, LinkOneInode, HasLink DEF Usual
    <2>4. \A i : Fd(t) \notin {ITmp(t), Cpp(t), COut(t), CErr(t), CLst(t), Tmp(t, i)}
      BY Heads
    <2>5. InPlace(t)'
      BY <1>1, <1>2, <2>1, <2>3, <2>4 DEF InPlace, Usual, Looking, Holding
    <2>6. Others(t)
      BY <1>1, <1>2, <2>1 DEF Others, Usual
    <2> QED BY <2>3, <2>5, <2>6, StepNames DEF Others, Makes
  <1>4. CASE ~Has(fs, Err(key[t]))
    <2>1. fs' = fs /\ pc' = [pc EXCEPT ![t] = Missed(t)]
      BY <1>4 DEF OpenStderr, Goto
    <2>2. Others(t)
      BY <1>1, <1>2, <2>1 DEF Others, Usual
    <2>3. InPlace(t)'
      BY <1>1, <1>2, <2>1 DEF InPlace, Usual, Looking, Holding, Missed
    <2> QED BY <2>1, <2>2, <2>3, RemovingNames
  <1> QED BY <1>3, <1>4

\* retrieve_from_cache(): the name to be made was removed before.
LEMMA RetrieveNames ==
    ASSUME TypeInv, NamesInv, NEW t \in Tree, RetrieveLink(t) \/ RetrieveCopy(t)
    PROVE  NamesInv'
  <1> DEFINE o == Obj(key[t], file[t])
             x == Out(t, file[t])
  <1>1. Usual(t)
    BY TheUsual
  <1>2. /\ first' = first /\ pc[t] \in {"rlink", "rcopy"} /\ file[t] \in Files
        /\ file[t] \in 0 .. List
    BY <1>1 DEF RetrieveLink, RetrieveCopy, Usual, InHand
  <1>3. /\ \/ pc' = [pc EXCEPT ![t] = "retrieve"] /\ file' = [file EXCEPT ![t] = @ + 1]
           \/ \E l \in {"deliver", "bad", "rcopy"} :
                 pc' = [pc EXCEPT ![t] = l] /\ file' = file
    BY DEF RetrieveLink, RetrieveCopy, Retrieved, Goto, SetFile
  <1>4. Others(t)
    BY <1>1, <1>2, <1>3 DEF Others, Usual
  <1>5. /\ OneInode(fs') /\ \A n : Has(fs', n) => Has(fs, n) \/ n = x
    <2>1. CASE fs' = fs
      BY <1>1, <2>1 DEF Usual
    <2>2. CASE pc[t] = "rlink" /\ fs' = Link(fs, o, x)
      <3>1. ~Has(fs, x)
        BY <1>1, <2>2 DEF Usual, InPlace
      <3> QED BY <1>1, <2>2, <3>1, LinkOneInode, HasLink DEF Usual
    <2>3. CASE fs' = Create(Remove(fs, {x}), x, Unpacked(t, Data(fs, o)))
      <3> DEFINE r == Remove(fs, {x})
                 d == Unpacked(t, Data(fs, o))
      <3>1. OneInode(r) /\ \A n : Has(r, n) <=> Has(fs, n) /\ n # x
        BY <1>1, RemoveOneInode, HasRemove DEF Usual
      <3> HIDE DEF r, d
      <3>2. fs' = Create(r, x, d)
        BY <2>3 DEF r, d
      <3> QED BY <3>1, <3>2, CreateOneInode, HasCreate
    <2> QED BY <2>1, <2>2, <2>3 DEF RetrieveLink, RetrieveCopy
  <1>6. x \in Makes(t)
    BY <1>2 DEF Makes, Outs
  <1>7. \A i : x \notin {ITmp(t), Cpp(t), COut(t), CErr(t), CLst(t), Fd(t), Tmp(t, i)}
    BY Heads
  <1>8. InPlace(t)'
    BY <1>1, <1>2, <1>3, <1>5, <1>7 DEF InPlace, Usual, Looking, Holding
  <1> QED BY <1>4, <1>5, <1>6, <1>8, StepNames DEF Others

\* The rest of from_cache(), the failing end of to_cache(), failed() without
\* its compile, and the death of a driver: files are removed, none is made.
Ends(t) == Deliver(t) \/ StdoutSeen(t) \/ StdoutEmpty(t) \/ CompileFailed(t) \/ Crash(t)

LEMMA EndsNames ==
    ASSUME TypeInv, NamesInv, NEW t \in Tree, Ends(t)
    PROVE  NamesInv'
  <1> USE DEF Goto, SetFile, End, Exit
  <1>1. Usual(t)
    BY TheUsual
  <1>2. \E l \in {"idle", "exec", "commit"} : pc' = [pc EXCEPT ![t] = l]
    BY DEF Ends, Deliver, StdoutSeen, StdoutEmpty, CompileFailed, Crash
  <1>3. /\ first' = first \/ first' = [first EXCEPT ![t] = TRUE]
        /\ file' = file \/ \E n \in {0, 1} : file' = [file EXCEPT ![t] = n]
    BY DEF Ends, Deliver, StdoutSeen, StdoutEmpty, CompileFailed, Crash
  <1>4. Others(t)
    BY <1>1, <1>2, <1>3 DEF Others, Usual
  <1>5. /\ ITmp(t) \in Temps(t) /\ Cpp(t) \in Temps(t) /\ COut(t) \in Temps(t)
        /\ \A i \in {0} \cup Files : Tmp(t, i) \in Tmps(t)
    BY DEF Temps, Tmps
  <1>6. PICK ns : /\ fs' = Remove(fs, ns) \/ fs' = fs
                  /\ pc'[t] = "idle" => ~Has(fs', ITmp(t)) /\ ~Has(fs', Cpp(t))
                  /\ ~Has(fs', COut(t)) /\ ~Has(fs', Fd(t))
                  /\ \A i \in {0} \cup Files : ~Has(fs', Tmp(t, i))
    <2>1. CASE Deliver(t)
      <3>1. fs' = Remove(fs, {ITmp(t), Cpp(t), Fd(t)}) /\ pc[t] = "deliver"
        BY <2>1 DEF Deliver
      <3>2. ~Has(fs, COut(t)) /\ \A i \in {0} \cup Files : ~Has(fs, Tmp(t, i))
        BY <1>1, <3>1 DEF Usual, InPlace
      <3> QED BY <1>1, <3>1, <3>2, HasRemove DEF Usual
    <2>2. CASE StdoutSeen(t) \/ StdoutEmpty(t)
      <3>1. /\ pc[t] \in {"stdout", "status"} /\ pc'[t] # "idle"
            /\ \E ns : fs' = Remove(fs, ns) /\ COut(t) \in ns
        BY <1>1, <2>2 DEF StdoutSeen, StdoutEmpty, Usual
      <3>2. ~Has(fs, Fd(t)) /\ \A i \in {0} \cup Files : ~Has(fs, Tmp(t, i))
        BY <1>1, <3>1 DEF Usual, InPlace, Holding
      <3> QED BY <1>1, <3>1, <3>2, HasRemove DEF Usual
    <2>3. CASE CompileFailed(t)
      <3>1. /\ pc[t] = "status"
            /\ \E ns : /\ fs' = Remove(fs, ns) /\ COut(t) \in ns
                       /\ pc'[t] = "idle" => ITmp(t) \in ns /\ Cpp(t) \in ns
        <4>1. CASE Has(fs, CErr(t))
          BY <2>3, <4>1 DEF CompileFailed
        <4>2. CASE ~Has(fs, CErr(t))
          BY <1>1, <2>3, <4>2 DEF CompileFailed, Usual
        <4> QED BY <4>1, <4>2
      <3>2. ~Has(fs, Fd(t)) /\ \A i \in {0} \cup Files : ~Has(fs, Tmp(t, i))
        BY <1>1, <3>1 DEF Usual, InPlace, Holding
      <3> QED BY <1>1, <3>1, <3>2, HasRemove DEF Usual
    <2>4. CASE Crash(t)
      BY <1>1, <1>5, <2>4, HasRemove DEF Crash, Usual
    <2> QED BY <2>1, <2>2, <2>3, <2>4 DEF Ends
  <1>7. InPlace(t)'
    BY <1>1, <1>2, <1>6 DEF InPlace, Usual, Looking, Holding
  <1> QED BY <1>4, <1>6, <1>7, RemovingNames

\* execute(): a run compiles at most once, so what it logs was not there.
LEMMA CompileNames ==
    ASSUME TypeInv, NamesInv, NEW t \in Tree, Compile(t) \/ CompileEnd(t)
    PROVE  NamesInv'
  <1> USE DEF Goto
  <1>1. Usual(t)
    BY TheUsual
  <1>2. /\ UNCHANGED <<first, file>> /\ pc[t] \in {"compile", "write"}
        /\ \E l \in {"status", "write", "stdout"} : pc' = [pc EXCEPT ![t] = l]
    BY DEF Compile, CompileEnd
  <1>3. Others(t)
    BY <1>1, <1>2 DEF Others, Usual
  <1>4. /\ ~Has(fs, COut(t)) /\ ~Has(fs, CErr(t)) /\ ~Has(fs, CLst(t))
        /\ ~Has(fs, Fd(t)) /\ \A i \in {0} \cup Files : ~Has(fs, Tmp(t, i))
    BY <1>1, <1>2 DEF Usual, InPlace, Holding
  <1>5. /\ COut(t) \notin Outs(t) /\ CErr(t) \notin Outs(t) /\ CLst(t) \notin Outs(t)
        /\ Fd(t) \notin Outs(t) /\ \A i : Tmp(t, i) \notin Outs(t)
        /\ \A i : {Fd(t), Tmp(t, i)} \cap {COut(t), CErr(t), CLst(t)} = {}
    BY Heads DEF Outs
  <1> DEFINE Opened(s) == OneInode(s) /\ \A n : Has(s, n) => Has(fs, n) \/ n \in Outs(t)
  <1>6. Opened(fs) /\ \A v, b : Opened(WriteOuts(fs, t, v, b))
    BY <1>1, WriteOutsNames DEF Usual
  <1>7. ASSUME NEW s, Opened(s), NEW v
        PROVE  /\ OneInode(Logged(s, t, v))
               /\ \A n : Has(Logged(s, t, v), n) =>
                     Has(fs, n) \/ n \in Outs(t) \cup {COut(t), CErr(t), CLst(t)}
    <2>1. ~Has(s, COut(t)) /\ ~Has(s, CErr(t)) /\ ~Has(s, CLst(t))
      BY <1>4, <1>5, <1>7
    <2> QED BY <1>7, <2>1, LoggedNames
  <1>8. \/ Opened(fs') /\ pc'[t] = "write"
        \/ /\ \E s, v : Opened(s) /\ fs' = Logged(s, t, v)
           /\ pc'[t] \in {"stdout", "status"}
    <2>1. CASE Compile(t)
      <3> DEFINE v == IF Env[t].input = "cpp" THEN Data(fs, ITmp(t)).of ELSE source[t]
      <3>1. \/ fs' = Logged(fs, t, key[t]) /\ pc' = [pc EXCEPT ![t] = "status"]
            \/ /\ \E s \in Failing(fs, t, v) : fs' = Logged(s, t, v)
               /\ pc' = [pc EXCEPT ![t] = "status"]
            \/ fs' = WriteOuts(fs, t, v, FALSE) /\ pc' = [pc EXCEPT ![t] = "write"]
        BY <2>1 DEF Compile
      <3> HIDE DEF v, Opened
      <3>2. \A s \in Failing(fs, t, v) : Opened(s)
        BY <1>6 DEF Failing
      <3>3. \A l : pc' = [pc EXCEPT ![t] = l] => pc'[t] = l
        BY <1>1 DEF Usual
      <3> QED BY <1>6, <3>1, <3>2, <3>3, ZenonT(60)
    <2>2. CASE CompileEnd(t)
      <3> HIDE DEF Opened
      <3> QED BY <1>1, <1>6, <2>2 DEF CompileEnd, Usual
    <2> QED BY <2>1, <2>2
  <1>9. OneInode(fs') /\ \A n : Has(fs', n) =>
                            Has(fs, n) \/ n \in Outs(t) \cup {COut(t), CErr(t), CLst(t)}
    BY <1>7, <1>8
  <1>10. pc'[t] = "write" =>
            ~Has(fs', COut(t)) /\ ~Has(fs', CErr(t)) /\ ~Has(fs', CLst(t))
    BY <1>4, <1>5, <1>8
  <1> HIDE DEF Opened
  <1>11. InPlace(t)'
    BY <1>1, <1>2, <1>4, <1>5, <1>8, <1>9, <1>10 DEF InPlace, Usual, Looking, Holding
  <1>12. Outs(t) \cup {COut(t), CErr(t), CLst(t)} \subseteq Makes(t)
    BY DEF Makes, Temps
  <1> QED BY <1>3, <1>9, <1>11, <1>12, StepNames DEF Others

\* The cache file that is filled is an entry's, not one of the driver's own.
LEMMA DestNames ==
    ASSUME TypeInv, NEW t \in Tree
    PROVE  /\ Dest(t)[1] \in {"obj", "err", "lst"}
           /\ Dest(t) \in Entries
  <1>1. key[t] \in Key /\ file[t] \in 0 .. List
    BY DEF TypeInv, Locals
  <1>2. file[t] = 0 \/ file[t] = List \/ file[t] \in Files
    BY <1>1, Numbers
  <1> QED BY <1>1, <1>2, Heads DEF Dest, Entries

\* commit_to_cache() and the rest of to_cache(), but for the copy itself
Puts(t) == Commit(t) \/ CommitLink(t) \/ CopyUnlink(t) \/ Stored(t)
           \/ PutList(t) \/ PutStderr(t)

LEMMA PutsNames ==
    ASSUME TypeInv, NamesInv, NEW t \in Tree, Puts(t)
    PROVE  NamesInv'
  <1> USE DEF Goto, SetFile, GiveUp
  <1>1. Usual(t)
    BY TheUsual
  <1>2. pc[t] \in {"commit", "link", "unlink", "stored", "putlist", "puterr"}
    BY DEF Puts, Commit, CommitLink, CopyUnlink, Stored, PutList, PutStderr
  <1>3. \/ /\ pc[t] = "unlink" /\ pc' = [pc EXCEPT ![t] = "rename"]
           /\ UNCHANGED <<file, first>>
        \/ /\ pc[t] = "stored" /\ pc' = [pc EXCEPT ![t] = "open"]
           /\ first' = [first EXCEPT ![t] = FALSE] /\ file' = file
        \/ /\ pc[t] # "unlink"
           /\ \E l \in {"commit", "link", "copy", "stored", "putlist", "puterr", "exec"} :
                 pc' = [pc EXCEPT ![t] = l]
           /\ first' = first \/ \E b : first' = [first EXCEPT ![t] = b]
           /\ file' = file \/ \E n : file' = [file EXCEPT ![t] = n]
    <2>1. CASE Stored(t)
      BY <2>1 DEF Stored
    <2> QED BY <2>1 DEF Puts, Commit, CommitLink, CopyUnlink, PutList, PutStderr
  <1>4. Others(t)
    BY <1>1, <1>3 DEF Others, Usual
  <1>5. OneInode(fs') /\ \A n : Has(fs', n) => Has(fs, n) \/ n \in Entries
    <2>1. CASE fs' = fs \/ \E ns : fs' = Remove(fs, ns)
      BY <1>1, <2>1, RemoveOneInode, HasRemove DEF Usual
    <2>2. CASE ~Has(fs, Dest(t)) /\ fs' = Link(fs, From(t), Dest(t))
      BY <1>1, <2>2, LinkOneInode, HasLink, DestNames DEF Usual
    <2>3. ASSUME NEW a, NEW b \in Entries, fs' = SafeRename(fs, a, b)
          PROVE  OneInode(fs') /\ \A n : Has(fs', n) => Has(fs, n) \/ n \in Entries
      <3> DEFINE l == IF Has(fs, b) THEN fs ELSE Link(fs, a, b)
      <3>1. /\ OneInode(l) /\ \A n : Has(l, n) => Has(fs, n) \/ n = b
        BY <1>1, LinkOneInode, HasLink DEF Usual
      <3>2. fs' = Remove(l, {a})
        BY <2>3 DEF SafeRename
      <3> HIDE DEF l
      <3>3. \A n : Has(fs', n) => Has(l, n)
        <4> SUFFICES ASSUME NEW n, NEW f \in fs', n \in f.names
                     PROVE  Has(l, n)
          BY DEF Has
        <4>1. PICK g \in l : f = [g EXCEPT !.names = @ \ {a}]
          BY <3>2 DEF Remove
        <4>2. f.names = g.names \/ f.names = g.names \ {a}
          BY <4>1
        <4> QED BY <4>2 DEF Has
      <3> QED BY <3>1, <3>2, <3>3, RemoveOneInode
    <2>4. Lst(key[t]) \in Entries /\ Err(key[t]) \in Entries
      BY <1>1 DEF Usual, Entries
    <2> QED BY <2>1, <2>2, <2>3, <2>4 DEF Puts, Commit, CommitLink, CopyUnlink,
               Stored, PutList, PutStderr
  <1>6. \A i : {ITmp(t), Cpp(t), COut(t), CErr(t), CLst(t), Fd(t), Tmp(t, i)} \cap Entries = {}
    BY Heads DEF Entries
  <1>7. InPlace(t)'
    BY <1>1, <1>2, <1>3, <1>5, <1>6 DEF InPlace, Usual, Looking, Holding
  <1> QED BY <1>4, <1>5, <1>7, StepNames DEF Others, Makes

\* copy_file_to_cache(): the temporary file of the file in hand, no other.
LEMMA CopyNames ==
    ASSUME TypeInv, NamesInv, NEW t \in Tree, CopyToTmp(t) \/ CopyRename(t)
    PROVE  NamesInv'
  <1> DEFINE m == Tmp(t, file[t])
  <1> USE DEF Goto, GiveUp
  <1>1. Usual(t)
    BY TheUsual
  <1>2. /\ UNCHANGED <<file, first>> /\ pc[t] \in {"copy", "rename"}
        /\ file[t] \in {0} \cup Files
        /\ \E l \in {"unlink", "stored", "exec"} : pc' = [pc EXCEPT ![t] = l]
    BY <1>1 DEF CopyToTmp, CopyRename, Usual, InHand
  <1>3. Others(t)
    BY <1>1, <1>2 DEF Others, Usual
  <1>4. m \in Makes(t) /\ Dest(t) \in Makes(t)
    BY <1>2, DestNames DEF Makes, Tmps
  <1>5. /\ \A i \in {0} \cup Files : Tmp(t, i) = m <=> i = file[t]
        /\ \A n \in {ITmp(t), Cpp(t), COut(t), CErr(t), CLst(t), Fd(t)} : n # m /\ n # Dest(t)
        /\ \A i \in {0} \cup Files : Tmp(t, i) # Dest(t)
    BY Heads, DestNames DEF Tmp
  <1>6. /\ ~Has(fs, Fd(t)) /\ ~Has(fs, COut(t))
        /\ \A i \in {0} \cup Files : Has(fs, Tmp(t, i)) => pc[t] = "rename" /\ i = file[t]
    BY <1>1, <1>2 DEF Usual, InPlace, Holding
  <1>7. CASE pc'[t] = "exec"
    <2>1. \E ns : fs' = fs \/ fs' = Remove(fs, ns)
      BY <1>1, <1>7 DEF CopyToTmp, CopyRename, Usual
    <2>2. \A i \in {0} \cup Files : ~Has(fs', Tmp(t, i))
      <3>1. \A i \in {0} \cup Files : ~Has(fs, Tmp(t, i))
        BY <1>1, <1>6, <1>7 DEF CopyToTmp, CopyRename, Usual
      <3> QED BY <1>1, <2>1, <3>1, HasRemove DEF Usual
    <2>3. \A n : Has(fs', n) => Has(fs, n)
      BY <1>1, <2>1, HasRemove DEF Usual
    <2>4. InPlace(t)'
      BY <1>1, <1>2, <1>6, <1>7, <2>2, <2>3 DEF InPlace, Usual, Looking, Holding
    <2> QED BY <1>3, <2>1, <2>4, RemovingNames
  <1>8. CASE pc'[t] = "unlink"
    <2> DEFINE d == Packed(t, Data(fs, From(t)))
    <2>1. fs' = Create(fs, m, d) /\ pc[t] = "copy"
      BY <1>1, <1>8 DEF CopyToTmp, CopyRename, Usual
    <2> HIDE DEF d, m
    <2>2. ~Has(fs, m)
      BY <1>2, <1>6, <2>1 DEF m
    <2>3. OneInode(fs') /\ \A n : Has(fs', n) <=> Has(fs, n) \/ n = m
      BY <1>1, <2>1, <2>2, CreateOneInode, HasCreate DEF Usual
    <2>4. InPlace(t)'
      BY <1>1, <1>2, <1>5, <1>6, <1>8, <2>1, <2>3 DEF InPlace, Usual, Looking, Holding
    <2> QED BY <1>3, <1>4, <2>3, <2>4, StepNames DEF Others
  <1>9. CASE pc'[t] = "stored"
    <2> DEFINE r == Remove(fs, {Dest(t)})
               l == Link(r, m, Dest(t))
               s == Rename(fs, m, Dest(t))
    <2>1. PICK ns : fs' = Remove(s, ns)
      BY <1>1, <1>9 DEF CopyToTmp, CopyRename, Usual
    <2> HIDE DEF m
    <2>2. /\ m \in Names /\ Dest(t) \in Names /\ m # Dest(t)
          /\ Kind[m] \subseteq Kind[Dest(t)]
      BY <1>2, DestKind DEF m
    <2>3. Conforms(r, Names, AnyData, Kind) /\ \A n : Has(r, n) => Has(fs, n)
      BY <1>1, RemoveConforms, HasRemove DEF Usual
    <2>4. \A f \in r : m \in f.names => f.data \in Kind[Dest(t)]
      BY <2>2, <2>3 DEF Conforms
    <2> HIDE DEF r
    <2>5. /\ Conforms(l, Names, AnyData, Kind)
          /\ \A n : Has(l, n) => Has(fs, n) \/ n = Dest(t)
      BY <2>2, <2>3, <2>4, LinkConforms, HasLink
    <2> HIDE DEF l
    <2>6. s = Remove(l, {m})
      BY DEF Rename, l, r
    <2> HIDE DEF s
    <2>7. /\ Conforms(s, Names, AnyData, Kind)
          /\ \A n : Has(s, n) => n # m /\ (Has(fs, n) \/ n = Dest(t))
      BY <2>5, <2>6, RemoveConforms, HasRemove
    <2>8. OneInode(s)
      BY <1>1, RenameOneInode DEF Usual, s
    <2>9. OneInode(fs') /\ \A n : Has(fs', n) => n # m /\ (Has(fs, n) \/ n = Dest(t))
      BY <2>1, <2>7, <2>8, RemoveOneInode, HasRemove
    <2>10. InPlace(t)'
      BY <1>1, <1>2, <1>5, <1>6, <1>9, <2>9 DEF InPlace, Usual, Looking, Holding, m
    <2> QED BY <1>3, <1>4, <2>9, <2>10, StepNames DEF Others
  <1> QED BY <1>1, <1>2, <1>7, <1>8, <1>9 DEF Usual

\* failed(): the compiler writes its outputs; i_tmpfile and cpp_stderr are
\* removed before the exec().
LEMMA ExecNames ==
    ASSUME TypeInv, NamesInv, NEW t \in Tree, Exec(t) \/ ExecEnd(t)
    PROVE  NamesInv'
  <1> USE DEF Goto, SetFile, End
  <1>1. Usual(t)
    BY TheUsual
  <1>2. /\ pc[t] \in {"exec", "execend"}
        /\ \E l \in {"idle", "execend"} : pc' = [pc EXCEPT ![t] = l]
        /\ file' = file \/ file' = [file EXCEPT ![t] = 0]
        /\ first' = first \/ first' = [first EXCEPT ![t] = TRUE]
    BY DEF Exec, ExecEnd
  <1>3. Others(t)
    BY <1>1, <1>2 DEF Others, Usual
  <1> DEFINE r == Remove(fs, {ITmp(t), Cpp(t)})
  <1>4. PICK s, v, done :
            /\ s \in {fs, r}
            /\ fs' = s \/ fs' = WriteOuts(s, t, v, done)
            /\ ~Has(s, ITmp(t)) /\ ~Has(s, Cpp(t))
    <2>1. CASE Exec(t)
      <3>1. ~Has(r, ITmp(t)) /\ ~Has(r, Cpp(t))
        BY <1>1, HasRemove DEF Usual
      <3>2. \E v, done : fs' = r \/ fs' = WriteOuts(r, t, v, done)
        BY <2>1 DEF Exec, Failing
      <3> QED BY <3>1, <3>2
    <2>2. CASE ExecEnd(t)
      <3>1. ~Has(fs, ITmp(t)) /\ ~Has(fs, Cpp(t))
        BY <1>1, <2>2 DEF ExecEnd, Usual, InPlace
      <3>2. \E v, done : fs' = fs \/ fs' = WriteOuts(fs, t, v, done)
        BY <2>2 DEF ExecEnd
      <3> QED BY <3>1, <3>2
    <2> QED BY <2>1, <2>2
  <1>5. /\ OneInode(s) /\ Conforms(s, Names, AnyData, Kind)
        /\ \A n : Has(s, n) => Has(fs, n)
    BY <1>1, <1>4, RemoveOneInode, RemoveConforms, HasRemove DEF Usual
  <1>6. OneInode(fs') /\ \A n : Has(fs', n) => Has(s, n) \/ n \in Outs(t)
    BY <1>4, <1>5, WriteOutsNames
  <1>7. /\ \A i : {ITmp(t), Cpp(t), COut(t), Fd(t), Tmp(t, i)} \cap Outs(t) = {}
        /\ Outs(t) \subseteq Makes(t)
    BY Heads DEF Outs, Makes
  <1>8. InPlace(t)'
    <2>1. ~Has(fs', ITmp(t)) /\ ~Has(fs', Cpp(t))
      BY <1>4, <1>6, <1>7
    <2>2. ~Has(fs', COut(t)) /\ ~Has(fs', Fd(t)) /\ \A i \in {0} \cup Files : ~Has(fs', Tmp(t, i))
      BY <1>1, <1>2, <1>5, <1>6, <1>7 DEF InPlace, Usual, Holding
    <2> QED BY <1>1, <1>2, <2>1, <2>2 DEF InPlace, Usual, Looking, Holding
  <1> QED BY <1>3, <1>5, <1>6, <1>7, <1>8, StepNames DEF Others

\* A new run makes i_tmpfile and cpp_stderr; what an earlier run may have
\* left is out of its sight.
LEMMA FindHashNames ==
    ASSUME TypeInv, NamesInv, NEW t \in Tree, FindHash(t)
    PROVE  NamesInv'
  <1> DEFINE s == Remove(fs, Temps(t) \cup Tmps(t))
             d == [of |-> source[t]]
             a == IF Env[t].input = "direct" THEN s ELSE Create(s, ITmp(t), d)
             b == IF Env[t].input = "cpp2" THEN a ELSE Create(a, Cpp(t), d)
  <1>1. Usual(t)
    BY TheUsual
  <1>2. /\ UNCHANGED <<file, first>> /\ pc[t] = "idle"
        /\ \E l \in {"exec", "open"} : pc' = [pc EXCEPT ![t] = l]
        /\ fs' = s \/ fs' = b
    BY DEF FindHash, Goto
  <1>3. Others(t)
    BY <1>1, <1>2 DEF Others, Usual
  <1>4. /\ {ITmp(t), Cpp(t), COut(t), CErr(t), CLst(t)} \subseteq Temps(t)
        /\ \A i \in {0} \cup Files : Tmp(t, i) \in Tmps(t)
        /\ ITmp(t) \in Makes(t) /\ Cpp(t) \in Makes(t)
    BY DEF Temps, Tmps, Makes
  <1>5. /\ OneInode(s)
        /\ \A n : Has(s, n) <=> Has(fs, n) /\ n \notin Temps(t) \cup Tmps(t)
    BY <1>1, RemoveOneInode, HasRemove DEF Usual
  <1>6. \A n \in {COut(t), CErr(t), CLst(t), Fd(t)} : n # ITmp(t) /\ n # Cpp(t)
    BY Heads
  <1>7. ITmp(t) # Cpp(t) /\ \A i : Tmp(t, i) # ITmp(t) /\ Tmp(t, i) # Cpp(t)
    BY Heads
  <1> HIDE DEF s, d
  <1>8. OneInode(a) /\ \A n : Has(a, n) => Has(s, n) \/ n = ITmp(t)
    BY <1>4, <1>5, CreateOneInode, HasCreate
  <1>9. ~Has(a, Cpp(t))
    BY <1>4, <1>5, <1>7, <1>8
  <1> HIDE DEF a
  <1>10. OneInode(b) /\ \A n : Has(b, n) => Has(a, n) \/ n = Cpp(t)
    BY <1>8, <1>9, CreateOneInode, HasCreate
  <1> HIDE DEF b
  <1>11. OneInode(fs') /\ \A n : Has(fs', n) => Has(s, n) \/ n = ITmp(t) \/ n = Cpp(t)
    BY <1>2, <1>5, <1>8, <1>10
  <1>12. /\ ~Has(fs', COut(t)) /\ ~Has(fs', CErr(t)) /\ ~Has(fs', CLst(t))
         /\ ~Has(fs', Fd(t)) /\ \A i \in {0} \cup Files : ~Has(fs', Tmp(t, i))
    <2>1. ~Has(fs, Fd(t))
      BY <1>1, <1>2 DEF Usual, InPlace, Holding
    <2> QED BY <1>4, <1>5, <1>6, <1>7, <1>11, <2>1
  <1>13. InPlace(t)'
    BY <1>1, <1>2, <1>12 DEF InPlace, Usual, Looking, Holding
  <1>14. \A n : Has(fs', n) => Has(fs, n) \/ n \in Makes(t)
    BY <1>4, <1>5, <1>11
  <1> QED BY <1>3, <1>11, <1>13, <1>14, StepNames DEF Others

\* Cleanups, the editor and stuttering.
LEMMA OutsideNames ==
    ASSUME TypeInv, NamesInv,
           \/ \E t \in Tree : Edit(t)
           \/ Clean \/ Wipe \/ UNCHANGED vars
    PROVE  NamesInv'
  <1>1. UNCHANGED <<pc, file, first>> /\ (fs' = fs \/ \E ns : fs' = Remove(fs, ns))
    BY DEF Edit, Clean, Wipe, vars
  <1>2. OneInode(fs') /\ \A n : Has(fs', n) => Has(fs, n)
    BY <1>1, RemoveOneInode, HasRemove DEF TypeInv, Sorted, NamesInv
  <1> QED BY <1>1, <1>2 DEF NamesInv, InPlace

-----------------------------------------------------------------------------
LEMMA NextNames ==
    ASSUME TypeInv, NamesInv, [Next]_vars
    PROVE  NamesInv'
  <1>1. ASSUME NEW t \in Tree, Step(t) PROVE NamesInv'
    BY <1>1, OpenStderrNames, LooksOnlyNames, RetrieveNames, EndsNames, CompileNames,
       PutsNames, CopyNames, ExecNames DEF Step, LooksOnly, Ends, Puts
  <1>2. ASSUME NEW t \in Tree, Crash(t) PROVE NamesInv'
    BY <1>2, EndsNames DEF Ends
  <1> QED BY <1>1, <1>2, FindHashNames, OutsideNames DEF Next

LEMMA InitNames == Init => NamesInv
  BY DEF Init, NamesInv, OneInode, InPlace, Has

\* Both invariants hold along every behaviour.
LEMMA AlwaysNames == Spec => [](TypeInv /\ NamesInv)
  <1> DEFINE I == TypeInv /\ NamesInv
  <1>1. Init => I
    BY InitTypeInv, InitNames
  <1>2. I /\ [Next]_vars => I'
    BY NextTypeInv, NextNames
  <1> QED BY <1>1, <1>2, PTL DEF Spec

\* Every path through from_cache(), the copy functions and execute() closes
\* the descriptor and consumes the temporary file that it opened before the
\* same run, or the next one, opens it again: no name stands for two inodes.
THEOREM NamesStayUnique == Spec => []OneInodePerName
  BY AlwaysNames, NamesInvImpliesOneInodePerName, PTL

\* A run that answered has removed i_tmpfile, cpp_stderr, tmp_stdout and the
\* half-filled copy in the cache and has closed the stderr entry, whichever
\* of the ways through from_cache(), to_cache() and failed() it took.
THEOREM RunsCleanUp == Spec => []NoStrayTemps
  BY AlwaysNames, NamesInvImpliesNoStrayTemps, PTL
=============================================================================
