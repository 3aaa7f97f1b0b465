--------------------------- MODULE CCacheTheorems ---------------------------
(***************************************************************************)
(* Theorems about CCache, for any number of trees, versions and generated  *)
(* files and for any environments, and lemmas about the operators of       *)
(* FileSystem that they and those of other modules rest on.                *)
(***************************************************************************)
EXTENDS CCache, TLAPS

(***************************************************************************)
(* What the operators of FileSystem preserve.  K assigns to every name the *)
(* set of data that an inode of that name may hold; a set of inodes        *)
(* conforms when every inode's data is allowed for each of its names.      *)
(***************************************************************************)
Conforms(is, N, D, K) ==
    /\ is \subseteq [names : SUBSET N, data : D]
    /\ \A f \in is : \A n \in f.names : f.data \in K[n]

\* Reading a file that exists yields data that its name allows.
LEMMA DataConforms ==
    ASSUME NEW N, NEW D, NEW K, NEW is, Conforms(is, N, D, K),
           NEW n, Has(is, n)
    PROVE  Data(is, n) \in K[n] /\ Data(is, n) \in D
  <1>1. PICK f \in is : n \in f.names
    BY DEF Has
  <1>2. LET g == CHOOSE g \in is : n \in g.names
        IN  g \in is /\ n \in g.names
    BY <1>1
  <1> QED BY <1>2 DEF Data, Conforms

\* unlink and close cannot break conformance.
LEMMA RemoveConforms ==
    ASSUME NEW N, NEW D, NEW K, NEW is, Conforms(is, N, D, K), NEW ns
    PROVE  Conforms(Remove(is, ns), N, D, K)
  <1>1. \A f \in Remove(is, ns) : \E g \in is :
            f = [g EXCEPT !.names = @ \ ns]
    BY DEF Remove
  <1> SUFFICES ASSUME NEW f \in Remove(is, ns)
               PROVE  /\ f \in [names : SUBSET N, data : D]
                      /\ \A n \in f.names : f.data \in K[n]
    BY DEF Conforms
  <1>2. PICK g \in is : f = [g EXCEPT !.names = @ \ ns]
    BY <1>1
  <1>3. g \in [names : SUBSET N, data : D] /\ \A n \in g.names : g.data \in K[n]
    BY DEF Conforms
  <1>4. f.names = g.names \ ns /\ f.data = g.data
    BY <1>2, <1>3
  <1> QED BY <1>2, <1>3, <1>4

\* A new name of an inode must allow the inode's data.
LEMMA LinkConforms ==
    ASSUME NEW N, NEW D, NEW K, NEW is, Conforms(is, N, D, K),
           NEW a, NEW b \in N,
           \A f \in is : a \in f.names => f.data \in K[b]
    PROVE  Conforms(Link(is, a, b), N, D, K)
  <1> SUFFICES ASSUME NEW f \in Link(is, a, b)
               PROVE  /\ f \in [names : SUBSET N, data : D]
                      /\ \A n \in f.names : f.data \in K[n]
    BY DEF Conforms
  <1>1. PICK g \in is : f = IF a \in g.names
                            THEN [g EXCEPT !.names = @ \cup {b}] ELSE g
    BY DEF Link
  <1>2. g \in [names : SUBSET N, data : D] /\ \A n \in g.names : g.data \in K[n]
    BY DEF Conforms
  <1>3. CASE a \in g.names
    <2>1. f.names = g.names \cup {b} /\ f.data = g.data
      BY <1>1, <1>2, <1>3
    <2> QED BY <1>1, <1>2, <1>3, <2>1
  <1>4. CASE a \notin g.names
    BY <1>1, <1>2, <1>4
  <1> QED BY <1>3, <1>4

\* A new file must hold data that its name allows.
LEMMA CreateConforms ==
    ASSUME NEW N, NEW D, NEW K, NEW is, Conforms(is, N, D, K),
           NEW n \in N, NEW d \in D, d \in K[n]
    PROVE  Conforms(Create(is, n, d), N, D, K)
  BY DEF Conforms, Create

\* A renamed file must hold data that the new name allows.
LEMMA RenameConforms ==
    ASSUME NEW N, NEW D, NEW K, NEW is, Conforms(is, N, D, K),
           NEW a, NEW b \in N, a # b, K[a] \subseteq K[b]
    PROVE  Conforms(Rename(is, a, b), N, D, K)
  <1>1. Conforms(Remove(is, {b}), N, D, K)
    BY RemoveConforms
  <1>2. \A f \in Remove(is, {b}) : a \in f.names => f.data \in K[b]
    BY <1>1 DEF Conforms
  <1>3. Conforms(Link(Remove(is, {b}), a, b), N, D, K)
    BY <1>1, <1>2, LinkConforms
  <1> QED BY <1>3, RemoveConforms DEF Rename

\* The allowed data may grow for the names that exist.
LEMMA WeakenConforms ==
    ASSUME NEW N, NEW D, NEW K, NEW L, NEW is, Conforms(is, N, D, K),
           \A f \in is : \A n \in f.names : f.data \in K[n] => f.data \in L[n]
    PROVE  Conforms(is, N, D, L)
  BY DEF Conforms

\* Which names exist afterwards.
LEMMA HasRemove ==
    ASSUME NEW N, NEW D, NEW K, NEW is, Conforms(is, N, D, K), NEW ns, NEW n
    PROVE  Has(Remove(is, ns), n) <=> Has(is, n) /\ n \notin ns
  <1>1. \A g \in is : [g EXCEPT !.names = @ \ ns].names = g.names \ ns
    BY DEF Conforms
  <1>2. ASSUME Has(Remove(is, ns), n) PROVE Has(is, n) /\ n \notin ns
    BY <1>1, <1>2 DEF Has, Remove
  <1>3. ASSUME Has(is, n), n \notin ns PROVE Has(Remove(is, ns), n)
    <2>1. PICK g \in is : n \in g.names
      BY <1>3 DEF Has
    <2> DEFINE f == [g EXCEPT !.names = @ \ ns]
    <2>2. n \in f.names /\ f.names # {}
      BY <1>1, <1>3, <2>1
    <2>3. f \in Remove(is, ns)
      BY <2>2 DEF Remove
    <2> QED BY <2>2, <2>3 DEF Has
  <1> QED BY <1>2, <1>3

LEMMA HasLink ==
    ASSUME NEW N, NEW D, NEW K, NEW is, Conforms(is, N, D, K), NEW a, NEW b, NEW n
    PROVE  Has(Link(is, a, b), n) <=> Has(is, n) \/ (n = b /\ Has(is, a))
  <1> DEFINE F(g) == IF a \in g.names THEN [g EXCEPT !.names = @ \cup {b}] ELSE g
  <1>1. \A g \in is : F(g).names = g.names \cup IF a \in g.names THEN {b} ELSE {}
    BY DEF Conforms
  <1>2. Link(is, a, b) = {F(g) : g \in is}
    BY DEF Link
  <1> HIDE DEF F
  <1> QED BY <1>1, <1>2 DEF Has

LEMMA HasCreate ==
    ASSUME NEW is, NEW m, NEW d, NEW n
    PROVE  Has(Create(is, m, d), n) <=> Has(is, n) \/ n = m
  <1> DEFINE g == [names |-> {m}, data |-> d]
  <1>1. g.names = {m}
    OBVIOUS
  <1>2. Create(is, m, d) = is \cup {g}
    BY DEF Create
  <1> HIDE DEF g
  <1>3. (\E f \in is \cup {g} : n \in f.names) <=> (\E f \in is : n \in f.names) \/ n \in g.names
    OBVIOUS
  <1> QED BY <1>1, <1>2, <1>3 DEF Has

-----------------------------------------------------------------------------
(* A name reaches one inode.  The system calls keep it so when a name that *)
(* they make is not there before.                                          *)
OneInode(is) == \A f, g \in is : f # g => f.names \cap g.names = {}

LEMMA RemoveOneInode ==
    ASSUME NEW is, OneInode(is), NEW ns
    PROVE  OneInode(Remove(is, ns))
  <1> SUFFICES ASSUME NEW f \in Remove(is, ns), NEW g \in Remove(is, ns), f # g,
                      NEW n, n \in f.names, n \in g.names
               PROVE  FALSE
    BY DEF OneInode
  <1>1. PICK a \in is : f = [a EXCEPT !.names = @ \ ns]
    BY DEF Remove
  <1>2. PICK b \in is : g = [b EXCEPT !.names = @ \ ns]
    BY DEF Remove
  <1>3. /\ f.names = a.names \ ns \/ f.names = a.names
        /\ g.names = b.names \ ns \/ g.names = b.names
    BY <1>1, <1>2
  <1>4. a # b
    BY <1>1, <1>2
  <1> QED BY <1>3, <1>4 DEF OneInode

LEMMA LinkOneInode ==
    ASSUME NEW is, OneInode(is), NEW a, NEW b, ~Has(is, b)
    PROVE  OneInode(Link(is, a, b))
  <1> SUFFICES ASSUME NEW f \in Link(is, a, b), NEW g \in Link(is, a, b), f # g,
                      NEW n, n \in f.names, n \in g.names
               PROVE  FALSE
    BY DEF OneInode
  <1>1. PICK c \in is : f = IF a \in c.names
                            THEN [c EXCEPT !.names = @ \cup {b}] ELSE c
    BY DEF Link
  <1>2. PICK d \in is : g = IF a \in d.names
                            THEN [d EXCEPT !.names = @ \cup {b}] ELSE d
    BY DEF Link
  <1>3. c # d /\ b \notin c.names /\ b \notin d.names
    BY <1>1, <1>2 DEF Has
  <1>4. /\ f.names = c.names \/ (a \in c.names /\ f.names = c.names \cup {b})
        /\ g.names = d.names \/ (a \in d.names /\ g.names = d.names \cup {b})
    BY <1>1, <1>2
  <1>5. c.names \cap d.names = {}
    BY <1>3 DEF OneInode
  <1> QED BY <1>3, <1>4, <1>5

LEMMA CreateOneInode ==
    ASSUME NEW is, OneInode(is), NEW n, NEW d, ~Has(is, n)
    PROVE  OneInode(Create(is, n, d))
  <1> DEFINE e == [names |-> {n}, data |-> d]
  <1>1. e.names = {n} /\ Create(is, n, d) = is \cup {e}
    BY DEF Create
  <1>2. \A f \in is : n \notin f.names
    BY DEF Has
  <1> HIDE DEF e
  <1> QED BY <1>1, <1>2 DEF OneInode

LEMMA RenameOneInode ==
    ASSUME NEW N, NEW D, NEW K, NEW is, Conforms(is, N, D, K), OneInode(is),
           NEW a, NEW b
    PROVE  OneInode(Rename(is, a, b))
  <1>1. OneInode(Remove(is, {b})) /\ ~Has(Remove(is, {b}), b)
    BY RemoveOneInode, HasRemove
  <1> QED BY <1>1, LinkOneInode, RemoveOneInode DEF Rename

-----------------------------------------------------------------------------
(* What is found under a name: no datum or one, and two only where a name  *)
(* could stand for two inodes.                                             *)
Contents(is, n) == {f.data : f \in {g \in is : n \in g.names}}

LEMMA ContentsHas ==
    ASSUME NEW is, NEW n
    PROVE  /\ Has(is, n) <=> Contents(is, n) # {}
           /\ Has(is, n) => Data(is, n) \in Contents(is, n)
  <1>1. Has(is, n) <=> Contents(is, n) # {}
    BY DEF Has, Contents
  <1>2. ASSUME Has(is, n) PROVE Data(is, n) \in Contents(is, n)
    <2>1. PICK f \in is : n \in f.names
      BY <1>2 DEF Has
    <2>2. LET g == CHOOSE g \in is : n \in g.names
          IN  g \in is /\ n \in g.names
      BY <2>1
    <2> QED BY <2>2 DEF Data, Contents
  <1> QED BY <1>1, <1>2

LEMMA ContentsConform ==
    ASSUME NEW N, NEW D, NEW K, NEW is, Conforms(is, N, D, K), NEW n
    PROVE  Contents(is, n) \subseteq K[n] /\ Contents(is, n) \subseteq D
  BY DEF Conforms, Contents

LEMMA ContentsRemove ==
    ASSUME NEW N, NEW D, NEW K, NEW is, Conforms(is, N, D, K), NEW ns, NEW n
    PROVE  Contents(Remove(is, ns), n) = IF n \in ns THEN {} ELSE Contents(is, n)
  <1> DEFINE E(g) == [g EXCEPT !.names = @ \ ns]
  <1>1. \A g \in is : E(g).names = g.names \ ns /\ E(g).data = g.data
    BY DEF Conforms
  <1>2. \A f : f \in Remove(is, ns) <=> \E g \in is : f = E(g) /\ f.names # {}
    BY DEF Remove
  <1> HIDE DEF E
  <1>3. \A d : (\E f \in Remove(is, ns) : n \in f.names /\ f.data = d)
                <=> \E g \in is : n \in g.names \ ns /\ g.data = d
    BY <1>1, <1>2
  <1>4. \A d : d \in Contents(Remove(is, ns), n) <=>
                  \E f \in Remove(is, ns) : n \in f.names /\ f.data = d
    BY DEF Contents
  <1>5. \A d : d \in Contents(is, n) <=> \E g \in is : n \in g.names /\ g.data = d
    BY DEF Contents
  <1> QED BY <1>3, <1>4, <1>5

LEMMA ContentsLink ==
    ASSUME NEW N, NEW D, NEW K, NEW is, Conforms(is, N, D, K), NEW a, NEW b, NEW n
    PROVE  Contents(Link(is, a, b), n) =
              IF n = b THEN Contents(is, a) \cup Contents(is, b) ELSE Contents(is, n)
  <1> DEFINE E(g) == IF a \in g.names THEN [g EXCEPT !.names = @ \cup {b}] ELSE g
  <1>1. \A g \in is : /\ E(g).names = g.names \cup IF a \in g.names THEN {b} ELSE {}
                      /\ E(g).data = g.data
    BY DEF Conforms
  <1>2. \A f : f \in Link(is, a, b) <=> \E g \in is : f = E(g)
    BY DEF Link
  <1> HIDE DEF E
  <1>3. \A d : (\E f \in Link(is, a, b) : n \in f.names /\ f.data = d)
                <=> \E g \in is : /\ n \in g.names \/ (n = b /\ a \in g.names)
                                  /\ g.data = d
    BY <1>1, <1>2
  <1>4. \A d : d \in Contents(Link(is, a, b), n) <=>
                  \E f \in Link(is, a, b) : n \in f.names /\ f.data = d
    BY DEF Contents
  <1>5. \A d, m : d \in Contents(is, m) <=> \E g \in is : m \in g.names /\ g.data = d
    BY DEF Contents
  <1> QED BY <1>3, <1>4, <1>5

LEMMA ContentsCreate ==
    ASSUME NEW is, NEW m, NEW e, NEW n
    PROVE  Contents(Create(is, m, e), n) =
              IF n = m THEN Contents(is, n) \cup {e} ELSE Contents(is, n)
  <1> DEFINE g == [names |-> {m}, data |-> e]
  <1>1. g.names = {m} /\ g.data = e /\ Create(is, m, e) = is \cup {g}
    BY DEF Create
  <1> HIDE DEF g
  <1>2. \A d, s : d \in Contents(s, n) <=> \E f \in s : n \in f.names /\ f.data = d
    BY DEF Contents
  <1>3. \A d : d \in Contents(Create(is, m, e), n) <=>
                  d \in Contents(is, n) \/ (n = m /\ d = e)
    BY <1>1, <1>2
  <1> QED BY <1>3

LEMMA ContentsRename ==
    ASSUME NEW N, NEW D, NEW K, NEW is, Conforms(is, N, D, K),
           NEW a, NEW b \in N, a # b, K[a] \subseteq K[b], NEW n
    PROVE  Contents(Rename(is, a, b), n) =
              IF n = a THEN {} ELSE IF n = b THEN Contents(is, a) ELSE Contents(is, n)
  <1> DEFINE r == Remove(is, {b})
             l == Link(r, a, b)
  <1>1. Conforms(r, N, D, K)
        /\ \A m : Contents(r, m) = IF m = b THEN {} ELSE Contents(is, m)
    BY RemoveConforms, ContentsRemove
  <1> HIDE DEF r
  <1>2. \A f \in r : a \in f.names => f.data \in K[b]
    BY <1>1 DEF Conforms
  <1>3. Conforms(l, N, D, K)
        /\ \A m : Contents(l, m) =
                    IF m = b THEN Contents(r, a) \cup Contents(r, b) ELSE Contents(r, m)
    BY <1>1, <1>2, LinkConforms, ContentsLink
  <1> HIDE DEF l
  <1>4. Contents(Remove(l, {a}), n) = IF n = a THEN {} ELSE Contents(l, n)
    BY <1>3, ContentsRemove
  <1>5. Rename(is, a, b) = Remove(l, {a})
    BY DEF Rename, l, r
  <1> QED BY <1>1, <1>3, <1>4, <1>5

-----------------------------------------------------------------------------
(* The data that belongs under a name: a generated file under the names of *)
(* its number, messages under those of stderr, and other text.             *)
AnyData == OutData \cup ErrData \cup TextData

OutNames(i) == {Obj(k, i) : k \in Key} \cup {Out(t, i) : t \in Tree}
               \cup {Tmp(t, i) : t \in Tree}
ErrNames  == {Err(k) : k \in Key} \cup {CErr(t) : t \in Tree}
             \cup {Fd(t) : t \in Tree} \cup {Tmp(t, 0) : t \in Tree}
TextNames == {ITmp(t) : t \in Tree} \cup {Cpp(t) : t \in Tree}
             \cup {COut(t) : t \in Tree} \cup {CLst(t) : t \in Tree}
             \cup {Lst(k) : k \in Key}

Kind == [n \in Names |->
            IF n \in ErrNames THEN ErrData
            ELSE IF n \in TextNames THEN TextData
            ELSE {d \in OutData : n \in OutNames(d.part)}]

-----------------------------------------------------------------------------
\* The three kinds of data are different records.
LEMMA DataDisjoint ==
    /\ OutData \cap ErrData = {}
    /\ OutData \cap TextData = {}
    /\ ErrData \cap TextData = {}
  <1>1. \A d \in OutData : DOMAIN d = {"of", "part", "gz", "whole"}
    BY DEF OutData
  <1>2. \A d \in ErrData : DOMAIN d = {"of", "pp", "gz"}
    BY DEF ErrData
  <1>3. \A d \in TextData : DOMAIN d = {"of"}
    BY DEF TextData
  <1> QED BY <1>1, <1>2, <1>3

\* Names of different classes differ.
LEMMA NamesDistinct ==
    ASSUME NEW t \in Tree, NEW u \in Tree, NEW k \in Key, NEW l \in Key,
           NEW i \in Nat, NEW j \in Nat
    PROVE  /\ Obj(k, i) = Obj(l, j) <=> k = l /\ i = j
           /\ Out(t, i) = Out(u, j) <=> t = u /\ i = j
           /\ Tmp(t, i) = Tmp(u, j) <=> t = u /\ i = j
           /\ Fd(t) = Fd(u) <=> t = u
           /\ Err(k) = Err(l) <=> k = l
           /\ CErr(t) = CErr(u) <=> t = u
           /\ ITmp(t) = ITmp(u) <=> t = u
           /\ Obj(k, i) \notin ErrNames \cup TextNames
           /\ Out(t, i) \notin ErrNames \cup TextNames
           /\ i # 0 => Tmp(t, i) \notin ErrNames \cup TextNames
           /\ Fd(t) \notin {Obj(k, i), Err(k), Lst(k), Tmp(u, i), Out(u, i),
                            ITmp(u), Cpp(u), COut(u), CErr(u), CLst(u)}
  BY DEF Obj, Err, Lst, Tmp, Out, ITmp, Cpp, COut, CErr, CLst, Fd,
         ErrNames, TextNames

\* Every name that the actions use is one of Names, with its kind.
LEMMA KindOf ==
    ASSUME NEW t \in Tree, NEW k \in Key, NEW i \in Files
    PROVE  /\ Obj(k, i) \in Names /\ Out(t, i) \in Names /\ Tmp(t, i) \in Names
           /\ Tmp(t, 0) \in Names /\ Fd(t) \in Names
           /\ Err(k) \in Names /\ Lst(k) \in Names
           /\ ITmp(t) \in Names /\ Cpp(t) \in Names /\ COut(t) \in Names
           /\ CErr(t) \in Names /\ CLst(t) \in Names
           /\ Kind[Obj(k, i)] = {d \in OutData : d.part = i}
           /\ Kind[Out(t, i)] = {d \in OutData : d.part = i}
           /\ Kind[Tmp(t, i)] = {d \in OutData : d.part = i}
           /\ Kind[Tmp(t, 0)] = ErrData /\ Kind[Err(k)] = ErrData
           /\ Kind[CErr(t)] = ErrData /\ Kind[Fd(t)] = ErrData
           /\ Kind[ITmp(t)] = TextData /\ Kind[Cpp(t)] = TextData
           /\ Kind[COut(t)] = TextData /\ Kind[CLst(t)] = TextData
           /\ Kind[Lst(k)] = TextData
  <1>1. /\ Obj(k, i) \in Names /\ Out(t, i) \in Names /\ Tmp(t, i) \in Names
        /\ Tmp(t, 0) \in Names /\ Fd(t) \in Names
        /\ Err(k) \in Names /\ Lst(k) \in Names
        /\ ITmp(t) \in Names /\ Cpp(t) \in Names /\ COut(t) \in Names
        /\ CErr(t) \in Names /\ CLst(t) \in Names
    BY DEF Names, CacheNames, Outs, Temps, Tmps
  <1>2. i \in Nat /\ i # 0
    BY FilesAssumption DEF Files
  <1>3. \A n \in {Obj(k, i), Out(t, i), Tmp(t, i)} :
            Kind[n] = {d \in OutData : n \in OutNames(d.part)}
    BY <1>1, <1>2, NamesDistinct DEF Kind
  <1>4. \A d \in OutData : d.part \in Nat
    BY FilesAssumption DEF OutData, Files
  <1>5. \A j \in Nat : /\ Obj(k, i) \in OutNames(j) <=> j = i
                       /\ Out(t, i) \in OutNames(j) <=> j = i
                       /\ Tmp(t, i) \in OutNames(j) <=> j = i
    BY <1>2 DEF OutNames, Obj, Out, Tmp
  <1>6. /\ Kind[Tmp(t, 0)] = ErrData /\ Kind[Err(k)] = ErrData
        /\ Kind[CErr(t)] = ErrData /\ Kind[Fd(t)] = ErrData
    BY <1>1 DEF Kind, ErrNames
  <1>7. /\ {ITmp(t), Cpp(t), COut(t), CLst(t), Lst(k)} \cap ErrNames = {}
        /\ {ITmp(t), Cpp(t), COut(t), CLst(t), Lst(k)} \subseteq TextNames
    BY DEF ErrNames, TextNames, ITmp, Cpp, COut, CLst, Lst, Err, CErr, Fd, Tmp
  <1>8. \A n \in {ITmp(t), Cpp(t), COut(t), CLst(t), Lst(k)} : Kind[n] = TextData
    BY <1>1, <1>7 DEF Kind
  <1> QED BY <1>1, <1>3, <1>4, <1>5, <1>6, <1>8

-----------------------------------------------------------------------------
(* The compiler's writes. *)

\* Compressing and decompressing do not change what data is.
LEMMA PackedKind ==
    ASSUME NEW t \in Tree, NEW i \in Files
    PROVE  /\ \A d \in OutData : /\ Packed(t, d) \in OutData
                                 /\ Packed(t, d).part = d.part
                                 /\ Unpacked(t, d) \in OutData
                                 /\ Unpacked(t, d).part = d.part
           /\ \A d \in ErrData : /\ Packed(t, d) \in ErrData
                                 /\ Unpacked(t, d) \in ErrData
  <1>1. Env[t].zlib \in BOOLEAN /\ Env[t].nocompress \in BOOLEAN
    BY EnvAssumption DEF Envs
  <1>2. ASSUME NEW d \in OutData
        PROVE  /\ Packed(t, d) \in OutData /\ Packed(t, d).part = d.part
               /\ Unpacked(t, d) \in OutData /\ Unpacked(t, d).part = d.part
    BY <1>1 DEF Packed, Unpacked, OutData
  <1>3. ASSUME NEW d \in ErrData
        PROVE  Packed(t, d) \in ErrData /\ Unpacked(t, d) \in ErrData
    BY <1>1 DEF Packed, Unpacked, ErrData
  <1> QED BY <1>2, <1>3

\* A name that may hold one generated file may hold any with that number.
LEMMA SamePart ==
    ASSUME NEW n \in Names, NEW d \in OutData, d \in Kind[n],
           NEW e \in OutData, e.part = d.part
    PROVE  e \in Kind[n]
  BY DataDisjoint DEF Kind

\* The compiler truncates or writes its outputs, and whatever else the inodes
\* are called keeps data of its kind; no name disappears.
LEMMA WriteOutsConforms ==
    ASSUME NEW s, Conforms(s, Names, AnyData, Kind),
           NEW t \in Tree, NEW v \in Key, NEW done \in BOOLEAN
    PROVE  /\ Conforms(WriteOuts(s, t, v, done), Names, AnyData, Kind)
           /\ \A n : Has(s, n) => Has(WriteOuts(s, t, v, done), n)
  <1> DEFINE D(i) == [Output(v, i) EXCEPT !.whole = done]
             Mine(f) == \E i \in Files : Out(t, i) \in f.names
             C(f) == CHOOSE i \in Files : Out(t, i) \in f.names
             W(f) == IF Mine(f) THEN [f EXCEPT !.data = D(C(f))] ELSE f
             old == {W(f) : f \in s}
             new == {[names |-> {Out(t, i)}, data |-> D(i)] :
                         i \in {j \in Files : ~Has(s, Out(t, j))}}
  <1>1. WriteOuts(s, t, v, done) = old \cup new
    BY DEF WriteOuts
  <1>2. \A i \in Files : D(i) \in OutData /\ D(i).part = i /\ D(i) \in AnyData
    BY DEF Output, OutData, AnyData
  <1>3. ASSUME NEW f \in s
        PROVE  /\ W(f) \in [names : SUBSET Names, data : AnyData]
               /\ \A n \in W(f).names : W(f).data \in Kind[n]
               /\ W(f).names = f.names
    <2>1. f \in [names : SUBSET Names, data : AnyData]
          /\ \A n \in f.names : f.data \in Kind[n]
      BY DEF Conforms
    <2>2. CASE Mine(f)
      <3>1. C(f) \in Files /\ Out(t, C(f)) \in f.names
        BY <2>2
      <3> HIDE DEF C, Mine
      <3>2. f.data \in OutData /\ f.data.part = C(f)
        BY <3>1, <2>1, KindOf
      <3>3. D(C(f)) \in OutData /\ D(C(f)).part = C(f) /\ D(C(f)) \in AnyData
        BY <1>2, <3>1
      <3> HIDE DEF D
      <3>4. W(f) = [f EXCEPT !.data = D(C(f))]
        BY <2>2
      <3>5. W(f).names = f.names /\ W(f).data = D(C(f))
            /\ W(f) \in [names : SUBSET Names, data : AnyData]
        BY <3>4, <3>3, <2>1
      <3>6. \A n \in f.names : n \in Names
        BY <2>1
      <3> QED BY <3>2, <3>3, <3>5, <3>6, <2>1, SamePart
    <2>3. CASE ~Mine(f)
      BY <2>1, <2>3
    <2> QED BY <2>2, <2>3
  <1>4. ASSUME NEW g \in new
        PROVE  /\ g \in [names : SUBSET Names, data : AnyData]
               /\ \A n \in g.names : g.data \in Kind[n]
    <2>1. PICK i \in Files : g = [names |-> {Out(t, i)}, data |-> D(i)]
      OBVIOUS
    <2>2. D(i) \in AnyData /\ D(i) \in Kind[Out(t, i)] /\ Out(t, i) \in Names
      BY <1>2, KindOf, ZenonT(60)
    <2> HIDE DEF D
    <2> QED BY <2>1, <2>2
  <1>5. ASSUME NEW n, Has(s, n) PROVE Has(old \cup new, n)
    <2>1. PICK f \in s : n \in f.names
      BY <1>5 DEF Has
    <2>2. n \in W(f).names /\ W(f) \in old
      BY <2>1, <1>3
    <2> HIDE DEF W, new
    <2> QED BY <2>2 DEF Has
  <1> HIDE DEF W, new
  <1> QED BY <1>1, <1>3, <1>4, <1>5 DEF Conforms

LEMMA FailingConforms ==
    ASSUME NEW s, Conforms(s, Names, AnyData, Kind),
           NEW t \in Tree, NEW v \in Key, NEW r \in Failing(s, t, v)
    PROVE  Conforms(r, Names, AnyData, Kind) /\ \A n : Has(s, n) => Has(r, n)
  BY WriteOutsConforms DEF Failing

LEMMA LoggedConforms ==
    ASSUME NEW s, Conforms(s, Names, AnyData, Kind), NEW t \in Tree, NEW v \in Key
    PROVE  /\ Conforms(Logged(s, t, v), Names, AnyData, Kind)
           /\ \A n : Has(s, n) => Has(Logged(s, t, v), n)
  <1> DEFINE e == Stderr(v, Env[t].input # "cpp")
             a == Create(s, COut(t), [of |-> v])
             b == Create(a, CErr(t), e)
             c == Create(b, CLst(t), [of |-> v])
  <1>1. [of |-> v] \in TextData /\ [of |-> v] \in AnyData
    BY DEF TextData, AnyData
  <1>2. e \in ErrData /\ e \in AnyData
    BY DEF Stderr, ErrData, AnyData
  <1>3. PICK i \in Files : TRUE
    BY FilesAssumption DEF Files
  <1>4. /\ COut(t) \in Names /\ CErr(t) \in Names /\ CLst(t) \in Names
        /\ Kind[COut(t)] = TextData /\ Kind[CErr(t)] = ErrData
        /\ Kind[CLst(t)] = TextData
    BY <1>3, KindOf
  <1>5. Conforms(a, Names, AnyData, Kind)
    BY <1>1, <1>4, CreateConforms
  <1>6. Conforms(b, Names, AnyData, Kind)
    BY <1>2, <1>4, <1>5, CreateConforms
  <1>7. Conforms(c, Names, AnyData, Kind)
    BY <1>1, <1>4, <1>6, CreateConforms
  <1>8. \A n : Has(s, n) => Has(b, n) /\ Has(c, n)
    BY HasCreate
  <1> HIDE DEF c
  <1>9. Logged(s, t, v) = IF SWIG THEN c ELSE b
    BY DEF Logged, c
  <1> QED BY <1>6, <1>7, <1>8, <1>9

-----------------------------------------------------------------------------
(* The type invariant is not inductive: what a driver reports is of the    *)
(* right type because the descriptor it reads is still open, and because   *)
(* what lies under a name is of the name's kind, in the cache too, where   *)
(* every driver and every cleanup can get at it.                           *)

Locals ==
    /\ source \in [Tree -> Key]
    /\ pc \in [Tree -> Labels]
    /\ key \in [Tree -> Key]
    /\ file \in [Tree -> 0 .. List]
    /\ first \in [Tree -> BOOLEAN]
    /\ read \in [Tree -> Key]
    /\ told \in [Tree -> Replies \cup {NoReply}]
    /\ seen \in [Tree -> SUBSET Key]

\* Which file is in hand at which step of the copy loops.
InHand(p, n) ==
    /\ p \in {"list", "retrieve", "rlink", "rcopy", "commit", "link"} => n \in Files
    /\ p \in {"copy", "unlink", "rename"} => n \in {0} \cup Files
    /\ p = "putlist" => n = List
    /\ p = "puterr" => n = 0

FilesInHand == \A t \in Tree : InHand(pc[t], file[t])

Holding == {"stat", "test", "list", "retrieve", "rlink", "rcopy", "bad", "deliver"}

FdHeld == \A t \in Tree : pc[t] \in Holding => Has(fs, Fd(t))

Sorted == Conforms(fs, Names, AnyData, Kind)

TypeInv == Locals /\ FilesInHand /\ Sorted /\ FdHeld

LEMMA TypeInvImpliesTypeOK == TypeInv => TypeOK
  BY DEF TypeInv, Locals, FilesInHand, InHand, Sorted, Conforms, TypeOK, AnyData

LEMMA InitTypeInv == Init => TypeInv
  <1> SUFFICES ASSUME Init PROVE TypeInv
    OBVIOUS
  <1>1. 0 \in 0 .. List
    BY FilesAssumption DEF List
  <1>2. Locals
    BY <1>1 DEF Init, Locals, Labels
  <1> QED BY <1>2 DEF Init, TypeInv, FilesInHand, InHand, Sorted, Conforms,
                      FdHeld, Holding

\* Removing anything but open descriptors is harmless.
LEMMA RemoveHarmless ==
    ASSUME Sorted, NEW ns, fs' = Remove(fs, ns)
    PROVE  /\ Sorted'
           /\ \A u \in Tree : Fd(u) \notin ns /\ Has(fs, Fd(u)) => Has(fs, Fd(u))'
  <1>1. Sorted'
    BY RemoveConforms DEF Sorted
  <1>2. \A n : Has(fs', n) <=> Has(fs, n) /\ n \notin ns
    BY HasRemove DEF Sorted
  <1> QED BY <1>1, <1>2

\* None of the names that are removed for other reasons is a descriptor.
LEMMA NoFd ==
    ASSUME NEW t \in Tree, NEW u \in Tree
    PROVE  /\ Fd(u) \notin Temps(t) /\ Fd(u) \notin Outs(t) /\ Fd(u) \notin Tmps(t)
           /\ Fd(u) \notin CacheNames
           /\ \A k \in Key : Fd(u) # Err(k) /\ Fd(u) # Lst(k)
           /\ \A k \in Key, i \in Nat : Fd(u) # Obj(k, i)
           /\ \A i \in Nat : Fd(u) # Out(t, i) /\ Fd(u) # Tmp(t, i)
           /\ Fd(u) # ITmp(t) /\ Fd(u) # Cpp(t) /\ Fd(u) # COut(t)
           /\ Fd(u) # CErr(t) /\ Fd(u) # CLst(t)
           /\ u # t => Fd(u) # Fd(t)
  BY DEF Temps, Outs, Tmps, CacheNames, Fd, Err, Lst, Obj, Out, Tmp, ITmp, Cpp,
         COut, CErr, CLst

\* Where copies come from and go to.
LEMMA DestKind ==
    ASSUME TypeInv, NEW t \in Tree
    PROVE  /\ Dest(t) \in Names /\ Fd(t) # Dest(t)
           /\ \A u \in Tree : Fd(u) # Dest(t) /\ Fd(u) # From(t)
           /\ file[t] \in {0} \cup Files =>
                /\ From(t) \in Names /\ Tmp(t, file[t]) \in Names
                /\ Kind[From(t)] = Kind[Dest(t)]
                /\ Kind[Tmp(t, file[t])] = Kind[Dest(t)]
                /\ Tmp(t, file[t]) # Dest(t)
                /\ \A d \in Kind[From(t)] :
                       Packed(t, d) \in AnyData /\ Packed(t, d) \in Kind[Dest(t)]
  <1>1. key[t] \in Key /\ file[t] \in 0 .. List
    BY DEF TypeInv, Locals
  <1>2. file[t] = 0 \/ file[t] = List \/ file[t] \in Files
    BY <1>1, FilesAssumption DEF List, Files
  <1>3. NFiles \in Nat /\ NFiles # 0 /\ 1 \in Files
    BY FilesAssumption DEF Files
  <1>4. CASE file[t] = 0
    <2>1. Dest(t) = Err(key[t]) /\ From(t) = CErr(t)
      BY <1>4 DEF Dest, From
    <2>2. Tmp(t, 0) # Err(key[t])
      BY DEF Tmp, Err
    <2>3. \A d \in ErrData : Packed(t, d) \in ErrData
      BY <1>3, PackedKind
    <2> QED BY <1>1, <1>3, <1>4, <2>1, <2>2, <2>3, KindOf, NoFd DEF AnyData
  <1>5. CASE file[t] = List
    <2>1. file[t] # 0 /\ file[t] \notin {0} \cup Files /\ file[t] \in Nat
      BY <1>3, <1>5 DEF List, Files
    <2>2. Dest(t) = Lst(key[t]) /\ From(t) = Out(t, file[t])
      BY <1>5, <2>1 DEF Dest, From
    <2> QED BY <1>1, <1>3, <2>1, <2>2, KindOf, NoFd
  <1>6. CASE file[t] \in Files
    <2>1. file[t] # 0 /\ file[t] # List /\ file[t] \in Nat
      BY <1>3, <1>6 DEF List, Files
    <2>2. Dest(t) = Obj(key[t], file[t]) /\ From(t) = Out(t, file[t])
      BY <2>1 DEF Dest, From
    <2>3. Tmp(t, file[t]) # Obj(key[t], file[t])
      BY DEF Tmp, Obj
    <2>4. \A d \in OutData : Packed(t, d) \in OutData /\ Packed(t, d).part = d.part
      BY <1>6, PackedKind
    <2>5. /\ Dest(t) \in Names /\ From(t) \in Names /\ Tmp(t, file[t]) \in Names
          /\ Kind[Dest(t)] = {d \in OutData : d.part = file[t]}
          /\ Kind[From(t)] = {d \in OutData : d.part = file[t]}
          /\ Kind[Tmp(t, file[t])] = {d \in OutData : d.part = file[t]}
      BY <1>1, <1>6, <2>2, KindOf
    <2>6. \A u \in Tree : Fd(u) # Dest(t) /\ Fd(u) # From(t)
      BY <1>1, <2>1, <2>2, NoFd
    <2>7. \A d \in Kind[From(t)] :
              Packed(t, d) \in AnyData /\ Packed(t, d) \in Kind[Dest(t)]
      BY <2>4, <2>5 DEF AnyData
    <2> QED BY <2>2, <2>3, <2>5, <2>6, <2>7
  <1> QED BY <1>2, <1>4, <1>5, <1>6

-----------------------------------------------------------------------------
(* One step per action: what it does to the variables other than fs, and to *)
(* fs.                                                                      *)

LocalStep(t) ==
    /\ Locals'
    /\ InHand(pc[t], file[t])'
    /\ \A u \in Tree \ {t} : pc'[u] = pc[u] /\ file'[u] = file[u]

FsStep(t) ==
    /\ Sorted'
    /\ \A u \in Tree \ {t} : Has(fs, Fd(u)) => Has(fs, Fd(u))'
    /\ (pc[t] \in Holding => Has(fs, Fd(t)))'

LEMMA StepTypeInv ==
    ASSUME TypeInv, NEW t \in Tree, LocalStep(t), FsStep(t)
    PROVE  TypeInv'
  <1>1. FilesInHand'
    BY DEF TypeInv, FilesInHand, LocalStep
  <1>2. FdHeld'
    BY DEF TypeInv, FdHeld, LocalStep, FsStep
  <1> QED BY <1>1, <1>2 DEF TypeInv, LocalStep, FsStep

\* The numbers of files.
LEMMA Numbers ==
    /\ NFiles \in Nat /\ NFiles # 0 /\ List \in Nat /\ List # 0
    /\ 1 \in Files /\ Files \subseteq 0 .. List
    /\ {0, 1, List} \subseteq 0 .. List /\ List \notin Files /\ 0 \notin Files
    /\ \A n \in 0 .. List : n < NFiles /\ n # 0 => n \in Files /\ n + 1 \in Files
    /\ \A n \in 0 .. List : n = 0 \/ n \in Files \/ n = List
  BY FilesAssumption DEF Files, List

\* Removing names that are not descriptors of drivers that look at an entry.
LEMMA RemoveStep ==
    ASSUME TypeInv, NEW t \in Tree, NEW ns, fs' = Remove(fs, ns),
           \A u \in Tree \ {t} : Fd(u) \notin ns,
           pc'[t] \in Holding => pc[t] \in Holding /\ Fd(t) \notin ns
    PROVE  FsStep(t)
  <1>1. Sorted /\ FdHeld
    BY DEF TypeInv
  <1>2. Sorted' /\ \A u \in Tree : Fd(u) \notin ns /\ Has(fs, Fd(u)) => Has(fs, Fd(u))'
    BY <1>1, RemoveHarmless
  <1> QED BY <1>1, <1>2 DEF FsStep, FdHeld

\* Steps that only add files or names.
LEMMA GrowStep ==
    ASSUME TypeInv, NEW t \in Tree, Sorted', \A n : Has(fs, n) => Has(fs, n)',
           pc'[t] \in Holding => pc[t] \in Holding
    PROVE  FsStep(t)
  BY DEF TypeInv, FdHeld, FsStep

LEMMA SameStep ==
    ASSUME TypeInv, NEW t \in Tree, fs' = fs,
           pc'[t] \in Holding => pc[t] \in Holding
    PROVE  FsStep(t)
  BY DEF TypeInv, FdHeld, FsStep, Sorted

\* from_cache(), up to the retrieval
LookAt(t) == OpenStderr(t) \/ StatObject(t) \/ TestEntry(t) \/ Drop(t)
             \/ OpenList(t) \/ DropFreed(t)

LEMMA LookStep ==
    ASSUME TypeInv, NEW t \in Tree, LookAt(t)
    PROVE  TypeInv'
  <1> USE DEF Goto, SetFile
  <1>0. Locals /\ Sorted /\ pc \in [Tree -> Labels] /\ file \in [Tree -> 0 .. List]
        /\ key[t] \in Key /\ InHand(pc[t], file[t])
    BY DEF TypeInv, Locals, FilesInHand
  <1>1. Missed(t) \in {"compile", "exec"}
    BY DEF Missed
  <1>2. LocalStep(t)
    <2>1. UNCHANGED <<source, key, first, read, told, seen>>
      BY DEF LookAt, OpenStderr, StatObject, TestEntry, Drop, OpenList, DropFreed
    <2>2. \E l \in {"compile", "exec", "stat", "test", "drop", "list",
                    "retrieve", "deliver", "bad"} :
             /\ pc' = [pc EXCEPT ![t] = l]
             /\ l \in {"list", "retrieve"} => file'[t] \in Files
      <3>1. CASE OpenStderr(t) \/ StatObject(t) \/ Drop(t) \/ DropFreed(t)
        BY <1>1, <3>1 DEF OpenStderr, StatObject, Drop, DropFreed
      <3>2. CASE TestEntry(t)
        BY <1>0, <3>2, Numbers DEF TestEntry
      <3>3. CASE OpenList(t)
        <4>1. file' = file /\ pc[t] = "list"
          BY <3>3 DEF OpenList
        <4> QED BY <1>0, <3>3, <4>1 DEF OpenList, InHand
      <3> QED BY <3>1, <3>2, <3>3 DEF LookAt
    <2>3. file' = file \/ file' = [file EXCEPT ![t] = 1]
      BY DEF LookAt, OpenStderr, StatObject, TestEntry, Drop, OpenList, DropFreed
    <2> QED BY <1>0, <2>1, <2>2, <2>3, Numbers DEF LocalStep, Locals, Labels, InHand
  <1>3. FsStep(t)
    <2>1. CASE fs' = fs /\ ~OpenStderr(t)
      <3>1. pc'[t] \in Holding => pc[t] \in Holding
        BY <1>0, <1>1, <2>1 DEF LookAt, StatObject, TestEntry, Drop, OpenList,
                                DropFreed, Holding
      <3> QED BY <2>1, <3>1, SameStep
    <2>2. CASE OpenStderr(t)
      <3>1. CASE Has(fs, Err(key[t]))
        <4>1. fs' = Link(fs, Err(key[t]), Fd(t))
          BY <2>2, <3>1 DEF OpenStderr
        <4>2. /\ Fd(t) \in Names /\ Kind[Fd(t)] = Kind[Err(key[t])]
          BY <1>0, Numbers, KindOf
        <4>3. \A f \in fs : Err(key[t]) \in f.names => f.data \in Kind[Fd(t)]
          BY <1>0, <4>2 DEF Sorted, Conforms
        <4>4. Sorted'
          BY <1>0, <4>1, <4>2, <4>3, LinkConforms DEF Sorted
        <4>5. \A n : Has(fs', n) <=> Has(fs, n) \/ n = Fd(t)
          BY <1>0, <3>1, <4>1, HasLink DEF Sorted
        <4> QED BY <4>4, <4>5 DEF FsStep
      <3>2. CASE ~Has(fs, Err(key[t]))
        BY <1>0, <1>1, <2>2, <3>2, SameStep DEF OpenStderr, Holding
      <3> QED BY <3>1, <3>2
    <2>3. CASE fs' # fs /\ ~OpenStderr(t)
      <3>1. \E ns \in SUBSET {Fd(t), Err(key[t])} :
               /\ fs' = Remove(fs, ns)
               /\ pc'[t] \notin Holding
        BY <1>0, <1>1, <2>3 DEF LookAt, StatObject, TestEntry, Drop, OpenList,
                                DropFreed, Holding
      <3> QED BY <1>0, <3>1, RemoveStep, NoFd
    <2> QED BY <2>1, <2>2, <2>3
  <1> QED BY <1>2, <1>3, StepTypeInv

\* find_hash()
LEMMA FindHashStep ==
    ASSUME TypeInv, NEW t \in Tree, FindHash(t)
    PROVE  TypeInv'
  <1> DEFINE s == Remove(fs, Temps(t) \cup Tmps(t))
             d == [of |-> source[t]]
             a == IF Env[t].input = "direct" THEN s ELSE Create(s, ITmp(t), d)
             b == IF Env[t].input = "cpp2" THEN a ELSE Create(a, Cpp(t), d)
  <1>0. Locals /\ Sorted /\ pc[t] = "idle" /\ source[t] \in Key /\ pc \in [Tree -> Labels]
    BY DEF TypeInv, Locals, FindHash
  <1>1. LocalStep(t)
    <2>1. /\ UNCHANGED <<source, file, first>>
          /\ told' = [told EXCEPT ![t] = NoReply]
          /\ seen' = [seen EXCEPT ![t] = {source[t]}]
          /\ key'  = [key EXCEPT ![t] = source[t]]
          /\ read' = [read EXCEPT ![t] = source[t]]
      BY DEF FindHash
    <2>2. \E l \in {"exec", "open"} : pc' = [pc EXCEPT ![t] = l]
      BY DEF FindHash, Goto
    <2> QED BY <1>0, <2>1, <2>2 DEF LocalStep, Locals, Labels, InHand
  <1>2. FsStep(t)
    <2>1. fs' \in {s, b}
      BY DEF FindHash
    <2>2. d \in TextData /\ d \in AnyData
      BY <1>0 DEF TextData, AnyData
    <2>3. /\ ITmp(t) \in Names /\ Cpp(t) \in Names
          /\ d \in Kind[ITmp(t)] /\ d \in Kind[Cpp(t)]
      BY <1>0, <2>2, Numbers, KindOf
    <2>4. Conforms(s, Names, AnyData, Kind)
      BY <1>0, RemoveConforms DEF Sorted
    <2> HIDE DEF s, d
    <2>5. Conforms(a, Names, AnyData, Kind) /\ \A n : Has(s, n) => Has(a, n)
      BY <2>2, <2>3, <2>4, CreateConforms, HasCreate
    <2> HIDE DEF a
    <2>6. Conforms(b, Names, AnyData, Kind) /\ \A n : Has(a, n) => Has(b, n)
      BY <2>2, <2>3, <2>5, CreateConforms, HasCreate
    <2> HIDE DEF b
    <2>7. \A u \in Tree : Has(fs, Fd(u)) => Has(s, Fd(u))
      BY <1>0, NoFd, HasRemove DEF s, Sorted
    <2>8. pc'[t] \notin Holding
      BY <1>0 DEF FindHash, Goto, Holding
    <2> QED BY <2>1, <2>4, <2>5, <2>6, <2>7, <2>8 DEF FsStep, Sorted
  <1> QED BY <1>1, <1>2, StepTypeInv

\* retrieve_from_cache()
LEMMA RetrieveStep ==
    ASSUME TypeInv, NEW t \in Tree, Retrieve(t) \/ RetrieveLink(t) \/ RetrieveCopy(t)
    PROVE  TypeInv'
  <1> DEFINE o == Obj(key[t], file[t])
             n == Out(t, file[t])
  <1> USE DEF Goto, SetFile
  <1>0. Locals /\ Sorted /\ FdHeld /\ pc \in [Tree -> Labels] /\ file \in [Tree -> 0 .. List]
        /\ key[t] \in Key /\ file[t] \in Files /\ pc[t] \in {"retrieve", "rlink", "rcopy"}
    BY DEF TypeInv, Locals, FilesInHand, InHand, Retrieve, RetrieveLink, RetrieveCopy
  <1>1. /\ o \in Names /\ n \in Names /\ Kind[o] = Kind[n]
        /\ Kind[o] = {d \in OutData : d.part = file[t]}
    BY <1>0, KindOf
  <1>2. LocalStep(t)
    <2>1. UNCHANGED <<source, key, first, read, told, seen>>
      BY DEF Retrieve, RetrieveLink, RetrieveCopy
    <2>2. \/ /\ \E l \in {"rlink", "rcopy", "bad", "deliver"} : pc' = [pc EXCEPT ![t] = l]
             /\ file' = file
          \/ /\ pc' = [pc EXCEPT ![t] = "retrieve"]
             /\ file' = [file EXCEPT ![t] = @ + 1]
             /\ file[t] < NFiles
      BY DEF Retrieve, RetrieveLink, RetrieveCopy, Retrieved
    <2>3. file[t] \in 0 .. List /\ file[t] # 0
      BY <1>0, Numbers
    <2>4. file[t] < NFiles => file[t] + 1 \in Files /\ file[t] + 1 \in 0 .. List
      BY <2>3, Numbers
    <2> QED BY <1>0, <2>1, <2>2, <2>4 DEF LocalStep, Locals, Labels, InHand
  <1>3. FsStep(t)
    <2>1. CASE fs' = fs
      BY <1>0, <2>1, SameStep DEF Holding
    <2>2. CASE fs' = Remove(fs, {n})
      <3>1. \A u \in Tree : Fd(u) # n
        BY <1>0, Numbers, NoFd
      <3> QED BY <1>0, <2>2, <3>1, RemoveStep DEF Holding
    <2>3. CASE Has(fs, o) /\ fs' = Link(fs, o, n)
      <3>1. \A f \in fs : o \in f.names => f.data \in Kind[n]
        BY <1>0, <1>1 DEF Sorted, Conforms
      <3>2. Sorted'
        BY <1>0, <1>1, <2>3, <3>1, LinkConforms DEF Sorted
      <3>3. \A m : Has(fs, m) => Has(fs, m)'
        BY <1>0, <2>3, HasLink DEF Sorted
      <3> QED BY <1>0, <3>2, <3>3, GrowStep DEF Holding
    <2>4. CASE Has(fs, o) /\ fs' = Create(Remove(fs, {n}), n, Unpacked(t, Data(fs, o)))
      <3> DEFINE d == Unpacked(t, Data(fs, o))
                 s == Remove(fs, {n})
      <3>1. Data(fs, o) \in Kind[o]
        BY <1>0, <2>4, DataConforms DEF Sorted
      <3>2. d \in AnyData /\ d \in Kind[n]
        BY <1>0, <1>1, <3>1, PackedKind DEF AnyData
      <3>3. Conforms(s, Names, AnyData, Kind)
            /\ \A m : Has(s, m) <=> Has(fs, m) /\ m # n
        BY <1>0, RemoveConforms, HasRemove DEF Sorted
      <3> HIDE DEF d, s, n, o
      <3>4. fs' = Create(s, n, d)
        BY <2>4 DEF d, s
      <3>5. Sorted'
        BY <1>1, <3>2, <3>3, <3>4, CreateConforms DEF Sorted
      <3>6. \A m : Has(fs, m) => Has(fs, m)'
        BY <3>3, <3>4, HasCreate
      <3> QED BY <1>0, <3>5, <3>6, GrowStep DEF Holding
    <2> QED BY <2>1, <2>2, <2>3, <2>4 DEF Retrieve, RetrieveLink, RetrieveCopy
  <1> QED BY <1>2, <1>3, StepTypeInv

\* exit(): what is reported was read from a file of messages.
LEMMA ExitStep ==
    ASSUME TypeInv, NEW t \in Tree, NEW r \in Replies, NEW gone, Exit(t, r, gone),
           UNCHANGED <<source, key, read, seen>>,
           \A u \in Tree \ {t} : Fd(u) \notin gone
    PROVE  TypeInv'
  <1>0. Locals /\ pc \in [Tree -> Labels]
    BY DEF TypeInv, Locals
  <1>1. LocalStep(t)
    BY <1>0, Numbers DEF Exit, End, Goto, SetFile, LocalStep, Locals, Labels, InHand
  <1>2. FsStep(t)
    <2>1. pc'[t] \notin Holding
      BY <1>0 DEF Exit, End, Goto, Holding
    <2> QED BY <2>1, RemoveStep DEF Exit
  <1> QED BY <1>1, <1>2, StepTypeInv

LEMMA ReplyType ==
    ASSUME NEW t \in Tree, NEW d \in ErrData, NEW st \in {0, 1}
    PROVE  [status |-> st, err |-> d, pre |-> Before(t) + Within(d)] \in Replies
  <1>1. Before(t) \in 0 .. 1 /\ Within(d) \in 0 .. 1
    BY DEF Before, Within
  <1>2. Before(t) + Within(d) \in 0 .. 2
    BY <1>1
  <1> HIDE DEF Before, Within
  <1> QED BY <1>2 DEF Replies

LEMMA DeliverStep ==
    ASSUME TypeInv, NEW t \in Tree, Deliver(t) \/ CompileFailed(t)
    PROVE  TypeInv'
  <1>0. Locals /\ Sorted /\ FdHeld /\ pc \in [Tree -> Labels]
    BY DEF TypeInv, Locals
  <1>1. Kind[Fd(t)] = ErrData /\ Kind[CErr(t)] = ErrData
    <2>1. key[t] \in Key
      BY <1>0 DEF Locals
    <2> QED BY <2>1, Numbers, KindOf
  <1>2. CASE Deliver(t)
    <2> DEFINE d == Unpacked(t, Data(fs, Fd(t)))
               r == [status |-> 0, err |-> d, pre |-> Before(t) + Within(d)]
    <2>1. Has(fs, Fd(t))
      BY <1>0, <1>2 DEF Deliver, FdHeld, Holding
    <2>2. Data(fs, Fd(t)) \in ErrData
      BY <1>0, <1>1, <2>1, DataConforms DEF Sorted
    <2>3. d \in ErrData
      BY <2>2, Numbers, PackedKind
    <2>4. Exit(t, r, {ITmp(t), Cpp(t), Fd(t)})
      BY <1>2 DEF Deliver
    <2>5. UNCHANGED <<source, key, read, seen>>
      BY <1>2 DEF Deliver
    <2> HIDE DEF d
    <2>6. r \in Replies
      BY <2>3, ReplyType
    <2> HIDE DEF r
    <2>7. \A u \in Tree \ {t} : Fd(u) \notin {ITmp(t), Cpp(t), Fd(t)}
      BY NoFd
    <2> QED BY <2>4, <2>5, <2>6, <2>7, ExitStep
  <1>3. CASE CompileFailed(t) /\ Has(fs, CErr(t))
    <2> DEFINE d == Data(fs, CErr(t))
               r == [status |-> 1, err |-> d, pre |-> Before(t) + Within(d)]
    <2>1. d \in ErrData
      BY <1>0, <1>1, <1>3, DataConforms DEF Sorted
    <2>2. Exit(t, r, {COut(t), Cpp(t), CErr(t), ITmp(t)})
      BY <1>3 DEF CompileFailed
    <2>3. UNCHANGED <<source, key, read, seen>>
      BY <1>3 DEF CompileFailed
    <2> HIDE DEF d
    <2>4. r \in Replies
      BY <2>1, ReplyType
    <2> HIDE DEF r
    <2>5. \A u \in Tree \ {t} : Fd(u) \notin {COut(t), Cpp(t), CErr(t), ITmp(t)}
      BY NoFd
    <2> QED BY <2>2, <2>3, <2>4, <2>5, ExitStep
  <1>4. CASE CompileFailed(t) /\ ~Has(fs, CErr(t))
    <2>1. /\ UNCHANGED <<source, key, read, seen, file, first, told>>
          /\ pc' = [pc EXCEPT ![t] = "exec"]
          /\ \E ns \in SUBSET ({COut(t), CLst(t)} \cup Outs(t)) : fs' = Remove(fs, ns)
      BY <1>4 DEF CompileFailed, Goto
    <2>2. LocalStep(t)
      BY <1>0, <2>1 DEF LocalStep, Locals, Labels, InHand
    <2>3. FsStep(t)
      <3>1. pc'[t] \notin Holding
        BY <1>0, <2>1 DEF Holding
      <3> QED BY <2>1, <3>1, RemoveStep, NoFd
    <2> QED BY <2>2, <2>3, StepTypeInv
  <1> QED BY <1>2, <1>3, <1>4

\* execute()
LEMMA CompileStep ==
    ASSUME TypeInv, NEW t \in Tree, Compile(t) \/ CompileEnd(t)
    PROVE  TypeInv'
  <1>0. /\ Locals /\ Sorted /\ pc \in [Tree -> Labels] /\ source[t] \in Key
        /\ key[t] \in Key /\ read[t] \in Key /\ read \in [Tree -> Key]
        /\ pc[t] \in {"compile", "write"}
    BY DEF TypeInv, Locals, Compile, CompileEnd
  <1>1. Conforms(fs, Names, AnyData, Kind)
    BY <1>0 DEF Sorted
  <1>2. Has(fs, ITmp(t)) => Data(fs, ITmp(t)).of \in Key
    <2>1. Kind[ITmp(t)] = TextData
      BY <1>0, Numbers, KindOf
    <2>2. Has(fs, ITmp(t)) => Data(fs, ITmp(t)) \in TextData
      BY <1>1, <2>1, DataConforms
    <2> QED BY <2>2 DEF TextData
  <1>3. /\ \E v \in Key : read' = [read EXCEPT ![t] = v]
        /\ \E v \in Key : \/ fs' = Logged(fs, t, v)
                          \/ fs' = WriteOuts(fs, t, v, FALSE)
                          \/ \E s \in Failing(fs, t, v) : fs' = Logged(s, t, v)
                          \/ fs' = Logged(WriteOuts(fs, t, v, TRUE), t, v)
        /\ \E l \in {"status", "write", "stdout"} : pc' = [pc EXCEPT ![t] = l]
        /\ UNCHANGED <<source, key, file, first, told, seen>>
    <2>1. CASE CompileEnd(t)
      <3>1. read' = [read EXCEPT ![t] = read[t]]
        BY <1>0, <2>1 DEF CompileEnd
      <3> QED BY <1>0, <2>1, <3>1 DEF CompileEnd, Goto
    <2>2. CASE Compile(t) /\ Env[t].input = "cpp" /\ ~Has(fs, ITmp(t))
      BY <1>0, <2>2 DEF Compile, Goto
    <2>3. CASE Compile(t) /\ ~(Env[t].input = "cpp" /\ ~Has(fs, ITmp(t)))
      <3> DEFINE v == IF Env[t].input = "cpp" THEN Data(fs, ITmp(t)).of ELSE source[t]
      <3>1. v \in Key
        BY <1>0, <1>2, <2>3
      <3>2. /\ read' = [read EXCEPT ![t] = v]
            /\ IF Fails(v)
               THEN /\ \E s \in Failing(fs, t, v) : fs' = Logged(s, t, v)
                    /\ Goto(t, "status")
               ELSE /\ fs' = WriteOuts(fs, t, v, FALSE)
                    /\ Goto(t, "write")
            /\ UNCHANGED <<source, key, file, first, told, seen>>
        BY <2>3 DEF Compile
      <3> HIDE DEF v
      <3> QED BY <3>1, <3>2 DEF Goto
    <2> QED BY <2>1, <2>2, <2>3
  <1>4. LocalStep(t)
    BY <1>0, <1>3 DEF LocalStep, Locals, Labels, InHand
  <1>5. FsStep(t)
    <2>1. /\ Conforms(fs', Names, AnyData, Kind)
          /\ \A n : Has(fs, n) => Has(fs', n)
      <3>1. PICK v \in Key : \/ fs' = Logged(fs, t, v)
                             \/ fs' = WriteOuts(fs, t, v, FALSE)
                             \/ \E s \in Failing(fs, t, v) : fs' = Logged(s, t, v)
                             \/ fs' = Logged(WriteOuts(fs, t, v, TRUE), t, v)
        BY <1>3
      <3>2. \A b \in BOOLEAN : /\ Conforms(WriteOuts(fs, t, v, b), Names, AnyData, Kind)
                               /\ \A n : Has(fs, n) => Has(WriteOuts(fs, t, v, b), n)
        BY <1>1, WriteOutsConforms
      <3>3. \A s \in Failing(fs, t, v) : /\ Conforms(s, Names, AnyData, Kind)
                                         /\ \A n : Has(fs, n) => Has(s, n)
        BY <1>1, FailingConforms
      <3>4. ASSUME NEW s, Conforms(s, Names, AnyData, Kind),
                   \A n : Has(fs, n) => Has(s, n), fs' = Logged(s, t, v)
            PROVE  /\ Conforms(fs', Names, AnyData, Kind)
                   /\ \A n : Has(fs, n) => Has(fs', n)
        BY <3>4, LoggedConforms
      <3> QED BY <1>1, <3>1, <3>2, <3>3, <3>4
    <2>2. pc'[t] \notin Holding
      BY <1>0, <1>3 DEF Holding
    <2>3. Sorted' /\ \A n : Has(fs, n) => Has(fs, n)'
      BY <2>1 DEF Sorted
    <2> QED BY <2>2, <2>3, GrowStep
  <1> QED BY <1>4, <1>5, StepTypeInv

LEMMA StdoutStep ==
    ASSUME TypeInv, NEW t \in Tree, StdoutSeen(t) \/ StdoutEmpty(t)
    PROVE  TypeInv'
  <1>0. Locals /\ pc \in [Tree -> Labels] /\ file \in [Tree -> 0 .. List]
    BY DEF TypeInv, Locals
  <1>1. /\ UNCHANGED <<source, key, first, read, told, seen>>
        /\ \/ file' = file /\ pc' = [pc EXCEPT ![t] = "exec"]
           \/ file' = [file EXCEPT ![t] = 1] /\ pc' = [pc EXCEPT ![t] = "commit"]
        /\ \E ns \in SUBSET ({COut(t), CErr(t), CLst(t)} \cup Outs(t)) :
              fs' = Remove(fs, ns)
    BY DEF StdoutSeen, StdoutEmpty, Goto, SetFile
  <1>2. LocalStep(t)
    BY <1>0, <1>1, Numbers DEF LocalStep, Locals, Labels, InHand
  <1>3. FsStep(t)
    <2>1. pc'[t] \notin Holding
      BY <1>0, <1>1 DEF Holding
    <2> QED BY <1>1, <2>1, RemoveStep, NoFd
  <1> QED BY <1>2, <1>3, StepTypeInv

\* commit_to_cache() and copy_file_to_cache()
PutFile(t) == Commit(t) \/ CommitLink(t) \/ CopyToTmp(t) \/ CopyUnlink(t) \/ CopyRename(t)

LEMMA PutFileStep ==
    ASSUME TypeInv, NEW t \in Tree, PutFile(t)
    PROVE  TypeInv'
  <1> USE DEF PutFile, Goto
  <1>0. /\ Locals /\ Sorted /\ pc \in [Tree -> Labels] /\ InHand(pc[t], file[t])
        /\ Conforms(fs, Names, AnyData, Kind)
        /\ pc[t] \in {"commit", "link", "copy", "unlink", "rename"}
        /\ file[t] \in {0} \cup Files
    BY DEF TypeInv, Locals, FilesInHand, InHand, Sorted, Commit, CommitLink,
           CopyToTmp, CopyUnlink, CopyRename
  <1>1. /\ Dest(t) \in Names /\ From(t) \in Names /\ Tmp(t, file[t]) \in Names
        /\ Kind[From(t)] = Kind[Dest(t)] /\ Kind[Tmp(t, file[t])] = Kind[Dest(t)]
        /\ Tmp(t, file[t]) # Dest(t)
        /\ \A u \in Tree : Fd(u) # Dest(t) /\ Fd(u) # CLst(t) /\ Fd(u) # CErr(t)
                           /\ Fd(u) # Tmp(t, file[t])
        /\ \A d \in Kind[From(t)] :
              Packed(t, d) \in AnyData /\ Packed(t, d) \in Kind[Dest(t)]
    <2>1. file[t] \in Nat
      BY <1>0 DEF Files
    <2>2. \A u \in Tree : Fd(u) # CLst(t) /\ Fd(u) # CErr(t) /\ Fd(u) # Tmp(t, file[t])
      BY <2>1, NoFd
    <2> QED BY <1>0, <2>2, DestKind
  <1>2. /\ UNCHANGED <<source, key, file, first, read, told, seen>>
        /\ \E l \in {"link", "copy", "unlink", "rename", "stored", "exec"} :
              pc' = [pc EXCEPT ![t] = l]
    BY DEF Commit, CommitLink, CopyToTmp, CopyUnlink, CopyRename, GiveUp
  <1>3. LocalStep(t)
    <2>1. pc'[t] = "link" => file[t] \in Files
      BY <1>0 DEF Commit, CommitLink, CopyToTmp, CopyUnlink, CopyRename, GiveUp,
                  InHand, Locals
    <2> QED BY <1>0, <1>2, <2>1 DEF LocalStep, Locals, Labels, InHand
  <1>4. pc'[t] \notin Holding
    BY <1>0, <1>2 DEF Holding
  <1>5. FsStep(t)
    <2>1. CASE fs' = fs
      BY <1>4, <2>1, SameStep
    <2>2. CASE fs' = Remove(fs, {Dest(t)}) \/ fs' = Remove(fs, {CLst(t)})
      BY <1>1, <1>4, <2>2, RemoveStep
    <2>3. CASE fs' = Link(fs, From(t), Dest(t))
      <3>1. \A f \in fs : From(t) \in f.names => f.data \in Kind[Dest(t)]
        BY <1>0, <1>1 DEF Conforms
      <3>2. Sorted'
        BY <1>0, <1>1, <2>3, <3>1, LinkConforms DEF Sorted
      <3>3. \A n : Has(fs, n) => Has(fs', n)
        BY <1>0, <2>3, HasLink
      <3> QED BY <1>4, <3>2, <3>3, GrowStep
    <2>4. CASE /\ Has(fs, From(t))
               /\ fs' = Create(fs, Tmp(t, file[t]), Packed(t, Data(fs, From(t))))
      <3> DEFINE d == Packed(t, Data(fs, From(t)))
      <3>1. Data(fs, From(t)) \in Kind[From(t)]
        BY <1>0, <2>4, DataConforms
      <3>2. d \in AnyData /\ d \in Kind[Tmp(t, file[t])]
        BY <1>1, <3>1
      <3> HIDE DEF d
      <3>3. fs' = Create(fs, Tmp(t, file[t]), d)
        BY <2>4 DEF d
      <3>4. Sorted'
        BY <1>0, <1>1, <3>2, <3>3, CreateConforms DEF Sorted
      <3>5. \A n : Has(fs, n) => Has(fs', n)
        BY <3>3, HasCreate
      <3> QED BY <1>4, <3>4, <3>5, GrowStep
    <2>5. CASE \E ns \in {{}, {CErr(t)}} :
                  fs' = Remove(Rename(fs, Tmp(t, file[t]), Dest(t)), ns)
      <3> DEFINE m == Tmp(t, file[t])
                 r == Remove(fs, {Dest(t)})
                 l == Link(r, m, Dest(t))
                 s == Remove(l, {m})
      <3>1. PICK ns \in {{}, {CErr(t)}} : fs' = Remove(s, ns)
        BY <2>5 DEF Rename
      <3>2. Conforms(s, Names, AnyData, Kind)
        BY <1>0, <1>1, RenameConforms DEF Rename
      <3>3. Conforms(r, Names, AnyData, Kind)
            /\ \A n : Has(r, n) <=> Has(fs, n) /\ n # Dest(t)
        BY <1>0, RemoveConforms, HasRemove
      <3>4. \A f \in r : m \in f.names => f.data \in Kind[Dest(t)]
        BY <1>1, <3>3 DEF Conforms
      <3> HIDE DEF m, r
      <3>5. Conforms(l, Names, AnyData, Kind) /\ \A n : Has(r, n) => Has(l, n)
        BY <1>1, <3>3, <3>4, LinkConforms, HasLink
      <3> HIDE DEF l
      <3>6. \A n : Has(s, n) <=> Has(l, n) /\ n # m
        BY <3>5, HasRemove
      <3> HIDE DEF s
      <3>7. Conforms(fs', Names, AnyData, Kind)
            /\ \A n : Has(fs', n) <=> Has(s, n) /\ n \notin ns
        BY <3>1, <3>2, RemoveConforms, HasRemove
      <3>8. \A u \in Tree : Has(fs, Fd(u)) => Has(fs', Fd(u))
        BY <1>1, <3>3, <3>5, <3>6, <3>7 DEF m
      <3> QED BY <1>4, <3>7, <3>8 DEF FsStep, Sorted
    <2> QED BY <2>1, <2>2, <2>3, <2>4, <2>5 DEF Commit, CommitLink, CopyToTmp,
               CopyUnlink, CopyRename, GiveUp
  <1> QED BY <1>3, <1>5, StepTypeInv

\* The rest of to_cache().
LEMMA SafeRenameConforms ==
    ASSUME Sorted, NEW a, NEW b \in Names, Kind[a] = Kind[b]
    PROVE  /\ Conforms(SafeRename(fs, a, b), Names, AnyData, Kind)
           /\ \A n : Has(fs, n) /\ n # a => Has(SafeRename(fs, a, b), n)
  <1> DEFINE l == IF Has(fs, b) THEN fs ELSE Link(fs, a, b)
  <1>1. \A f \in fs : a \in f.names => f.data \in Kind[b]
    BY DEF Sorted, Conforms
  <1>2. Conforms(l, Names, AnyData, Kind) /\ \A n : Has(fs, n) => Has(l, n)
    BY <1>1, LinkConforms, HasLink DEF Sorted
  <1> HIDE DEF l
  <1>3. SafeRename(fs, a, b) = Remove(l, {a})
    BY DEF SafeRename, l
  <1> QED BY <1>2, <1>3, RemoveConforms, HasRemove

LEMMA StoredStep ==
    ASSUME TypeInv, NEW t \in Tree, Stored(t) \/ PutList(t) \/ PutStderr(t)
    PROVE  TypeInv'
  <1> USE DEF Goto, SetFile, GiveUp
  <1>0. /\ Locals /\ Sorted /\ pc \in [Tree -> Labels] /\ InHand(pc[t], file[t])
        /\ file \in [Tree -> 0 .. List] /\ file[t] \in 0 .. List /\ key[t] \in Key
        /\ pc[t] \in {"stored", "putlist", "puterr"}
    BY DEF TypeInv, Locals, FilesInHand, Stored, PutList, PutStderr
  <1>1. LocalStep(t)
    <2>1. UNCHANGED <<source, key, read, told, seen>>
      BY DEF Stored, PutList, PutStderr
    <2>2. first' = first \/ \E b \in BOOLEAN : first' = [first EXCEPT ![t] = b]
      BY DEF Stored, PutList, PutStderr
    <2>3. \/ /\ file' = file
             /\ \E l \in {"exec", "open", "stored"} : pc' = [pc EXCEPT ![t] = l]
          \/ /\ file' = file /\ file[t] = 0 /\ pc' = [pc EXCEPT ![t] = "copy"]
          \/ /\ file' = [file EXCEPT ![t] = @ + 1] /\ file[t] < NFiles /\ file[t] # 0
             /\ pc' = [pc EXCEPT ![t] = "commit"]
          \/ /\ file' = [file EXCEPT ![t] = List] /\ pc' = [pc EXCEPT ![t] = "putlist"]
          \/ /\ file' = [file EXCEPT ![t] = 0] /\ pc' = [pc EXCEPT ![t] = "puterr"]
      <3>1. CASE Stored(t)
        BY <1>0, <3>1 DEF Stored
      <3>2. CASE PutList(t)
        BY <1>0, <3>2 DEF PutList
      <3>3. CASE PutStderr(t)
        BY <1>0, <3>3 DEF PutStderr, InHand
      <3> QED BY <3>1, <3>2, <3>3
    <2>4. file[t] < NFiles /\ file[t] # 0 => file[t] + 1 \in Files /\ file[t] + 1 \in 0 .. List
      BY <1>0, Numbers
    <2> QED BY <1>0, <2>1, <2>2, <2>3, <2>4, Numbers DEF LocalStep, Locals, Labels, InHand
  <1>2. pc'[t] \notin Holding
    BY <1>0 DEF Stored, PutList, PutStderr, Holding
  <1>3. FsStep(t)
    <2>1. CASE fs' = fs
      BY <1>2, <2>1, SameStep
    <2>2. CASE fs' = Remove(fs, {CLst(t)})
      BY <1>2, <2>2, NoFd, RemoveStep
    <2>3. ASSUME NEW a, NEW b \in Names, Kind[a] = Kind[b], \A u \in Tree : Fd(u) # a,
                 fs' = SafeRename(fs, a, b)
          PROVE  FsStep(t)
      BY <1>0, <1>2, <2>3, SafeRenameConforms DEF FsStep, Sorted
    <2>4. /\ Lst(key[t]) \in Names /\ Kind[CLst(t)] = Kind[Lst(key[t])]
          /\ Err(key[t]) \in Names /\ Kind[CErr(t)] = Kind[Err(key[t])]
      BY <1>0, Numbers, KindOf
    <2>5. \/ fs' = fs \/ fs' = Remove(fs, {CLst(t)})
          \/ fs' = SafeRename(fs, CLst(t), Lst(key[t]))
          \/ fs' = SafeRename(fs, CErr(t), Err(key[t]))
      BY DEF Stored, PutList, PutStderr
    <2> QED BY <2>1, <2>2, <2>3, <2>4, <2>5, NoFd
  <1> QED BY <1>1, <1>3, StepTypeInv

\* failed()
LEMMA ExecStep ==
    ASSUME TypeInv, NEW t \in Tree, Exec(t) \/ ExecEnd(t)
    PROVE  TypeInv'
  <1>0. /\ Locals /\ Sorted /\ pc \in [Tree -> Labels] /\ source[t] \in Key
        /\ read[t] \in Key /\ Conforms(fs, Names, AnyData, Kind)
    BY DEF TypeInv, Locals, Sorted
  <1>1. LocalStep(t)
    <2>1. CASE Exec(t)
      BY <1>0, <2>1 DEF Exec, Goto, LocalStep, Locals, Labels, InHand
    <2>2. CASE ExecEnd(t)
      <3> DEFINE r == [status |-> IF Fails(read[t]) THEN 1 ELSE 0,
                       err |-> Stderr(read[t], TRUE), pre |-> 1]
      <3>1. r \in Replies
        BY <1>0 DEF Replies, Stderr, ErrData
      <3>2. told' = [told EXCEPT ![t] = r] /\ UNCHANGED <<source, key, read, seen>>
        BY <2>2 DEF ExecEnd
      <3> HIDE DEF r
      <3>3. /\ pc' = [pc EXCEPT ![t] = "idle"] /\ file' = [file EXCEPT ![t] = 0]
            /\ first' = [first EXCEPT ![t] = TRUE]
        BY <2>2 DEF ExecEnd, End, Goto, SetFile
      <3> QED BY <1>0, <3>1, <3>2, <3>3, Numbers DEF LocalStep, Locals, Labels, InHand
    <2> QED BY <2>1, <2>2
  <1>2. pc'[t] \notin Holding
    BY <1>0 DEF Exec, ExecEnd, End, Goto, Holding
  <1>3. FsStep(t)
    <2>1. CASE Exec(t)
      <3> DEFINE s == Remove(fs, {ITmp(t), Cpp(t)})
      <3>1. Conforms(s, Names, AnyData, Kind)
            /\ \A n : Has(s, n) <=> Has(fs, n) /\ n \notin {ITmp(t), Cpp(t)}
        BY <1>0, RemoveConforms, HasRemove
      <3>2. fs' \in Failing(s, t, source[t]) \/ fs' = WriteOuts(s, t, source[t], FALSE)
        BY <2>1 DEF Exec
      <3> HIDE DEF s
      <3>3. Conforms(fs', Names, AnyData, Kind) /\ \A n : Has(s, n) => Has(fs', n)
        <4>1. CASE fs' \in Failing(s, t, source[t])
          BY <1>0, <3>1, <4>1, FailingConforms
        <4>2. CASE fs' = WriteOuts(s, t, source[t], FALSE)
          BY <1>0, <3>1, <4>2, WriteOutsConforms
        <4> QED BY <3>2, <4>1, <4>2
      <3> QED BY <1>2, <3>1, <3>3, NoFd DEF FsStep, Sorted
    <2>2. CASE ExecEnd(t)
      <3>1. fs' = fs \/ fs' = WriteOuts(fs, t, read[t], TRUE)
        BY <2>2 DEF ExecEnd
      <3>2. Conforms(fs', Names, AnyData, Kind) /\ \A n : Has(fs, n) => Has(fs', n)
        BY <1>0, <3>1, WriteOutsConforms
      <3> QED BY <1>2, <3>2 DEF FsStep, Sorted
    <2> QED BY <2>1, <2>2
  <1> QED BY <1>1, <1>3, StepTypeInv

\* The surroundings of the drivers.
LEMMA EditStep ==
    ASSUME TypeInv, NEW t \in Tree, Edit(t)
    PROVE  TypeInv'
  <1>1. Locals /\ seen \in [Tree -> SUBSET Key] /\ source \in [Tree -> Key]
    BY DEF TypeInv, Locals
  <1>2. /\ \E k \in Key : source' = [source EXCEPT ![t] = k]
        /\ seen' = seen \/ \E k \in Key : seen' = [seen EXCEPT ![t] = @ \cup {k}]
        /\ UNCHANGED <<fs, pc, key, file, first, read, told>>
    BY DEF Edit
  <1>3. source' \in [Tree -> Key] /\ seen' \in [Tree -> SUBSET Key]
    BY <1>1, <1>2
  <1> QED BY <1>1, <1>2, <1>3 DEF TypeInv, Locals, FilesInHand, Sorted, FdHeld

LEMMA CrashStep ==
    ASSUME TypeInv, NEW t \in Tree, Crash(t)
    PROVE  TypeInv'
  <1>0. Locals /\ pc \in [Tree -> Labels]
    BY DEF TypeInv, Locals
  <1>1. LocalStep(t)
    BY <1>0, Numbers DEF Crash, End, Goto, SetFile, LocalStep, Locals, Labels, InHand
  <1>2. FsStep(t)
    <2>1. pc'[t] \notin Holding
      BY <1>0 DEF Crash, End, Goto, Holding
    <2>2. \A u \in Tree \ {t} : Fd(u) \notin Temps(t) \cup Tmps(t) \cup {Fd(t)}
      BY NoFd
    <2> QED BY <2>1, <2>2, RemoveStep DEF Crash
  <1> QED BY <1>1, <1>2, StepTypeInv

LEMMA CleanStep ==
    ASSUME TypeInv, Clean \/ Wipe
    PROVE  TypeInv'
  <1>1. /\ UNCHANGED <<source, pc, key, file, first, read, told, seen>>
        /\ \E n \in CacheNames \cup UNION {Temps(t) : t \in Tree} : fs' = Remove(fs, {n})
    BY DEF Clean, Wipe
  <1>2. \A u \in Tree : Fd(u) \notin CacheNames \cup UNION {Temps(t) : t \in Tree}
    BY NoFd
  <1>3. Sorted' /\ \A u \in Tree : Has(fs, Fd(u)) => Has(fs', Fd(u))
    BY <1>1, <1>2, RemoveHarmless DEF TypeInv
  <1> QED BY <1>1, <1>3 DEF TypeInv, Locals, FilesInHand, FdHeld

LEMMA StutterStep ==
    ASSUME TypeInv, UNCHANGED vars
    PROVE  TypeInv'
  BY DEF TypeInv, vars, Locals, FilesInHand, Sorted, FdHeld

LEMMA NextTypeInv ==
    ASSUME TypeInv, [Next]_vars
    PROVE  TypeInv'
  <1>1. ASSUME NEW t \in Tree, Step(t) PROVE TypeInv'
    BY <1>1, LookStep, RetrieveStep, DeliverStep, CompileStep, StdoutStep,
       PutFileStep, StoredStep, ExecStep DEF Step, LookAt, PutFile
  <1> QED BY <1>1, FindHashStep, EditStep, CrashStep, CleanStep, StutterStep DEF Next

-----------------------------------------------------------------------------
\* Type correctness: the variables keep their types, the loops over the
\* generated files stay within them, and what main() reports was read from a
\* stderr file, for any number of trees, versions and files.
THEOREM TypeCorrect == Spec => []TypeOK
  <1>1. Init => TypeInv
    BY InitTypeInv
  <1>2. TypeInv /\ [Next]_vars => TypeInv'
    BY NextTypeInv
  <1>3. TypeInv => TypeOK
    BY TypeInvImpliesTypeOK
  <1> QED BY <1>1, <1>2, <1>3, PTL DEF Spec

-----------------------------------------------------------------------------
(***************************************************************************)
(* What stands in the cache is right, for any number of trees, versions    *)
(* and generated files, as long as every driver copies into and out of the *)
(* cache and compiles the text that it hashed.  Compression, CCACHE_       *)
(* READONLY and CCACHE_RECACHE may differ from tree to tree.               *)
(*                                                                         *)
(* CacheRight is not inductive.  A file gets its name in the cache by the  *)
(* rename of a temporary file, which was filled from the compiler's output *)
(* or stderr, which was made from i_tmpfile, which was preprocessed from   *)
(* the version that was hashed: the invariant says for each of these what  *)
(* it holds while a run is on its way, and that the outputs are nobody     *)
(* else's inodes, so that writing them again changes nothing in the cache. *)
(***************************************************************************)

Copying == \A t \in Tree : ~Env[t].hardlink /\ Env[t].input = "cpp"

\* Between find_hash() and the end of the run, or the exec() of failed().
IsBusy(l) == l \notin {"idle", "exec", "execend"}
Busy(t) == IsBusy(pc[t])

\* Between the end of the compiler and the second look at the cache.
IsCompiled(l) == l \in {"stdout", "commit", "copy", "unlink", "rename",
                        "stored", "putlist", "puterr"}
Compiled(t) == IsCompiled(pc[t])

\* What a name may hold when the drivers are at p and work on the versions h.
RightData(p, h, n) ==
    {d \in Kind[n] :
        /\ \A k \in Key, i \in Files : n = Obj(k, i) => d.of = k /\ d.whole
        /\ \A k \in Key : n = Err(k) => d.of = k
        /\ \A t \in Tree : IsBusy(p[t]) =>
              /\ n \in {ITmp(t), CErr(t)} \cup Tmps(t) => d.of = h[t]
              /\ n \in Tmps(t) \ {Tmp(t, 0)} => d.whole
        /\ \A t \in Tree, i \in Files :
              IsCompiled(p[t]) /\ n = Out(t, i) => d.of = h[t] /\ d.whole}

Allowed(p, h) == [n \in Names |-> RightData(p, h, n)]

\* The outputs are inodes without another name.
Own(s) == \A f \in s : \A t \in Tree, i \in Files :
             Out(t, i) \in f.names => f.names = {Out(t, i)}

NoLinks == \A t \in Tree : pc[t] \notin {"rlink", "link"}

Written == \A t \in Tree : pc[t] = "write" => read[t] = key[t]

RightInv ==
    /\ NoLinks
    /\ Written
    /\ Own(fs)
    /\ Conforms(fs, Names, AnyData, Allowed(pc, key))

-----------------------------------------------------------------------------
\* What each name may hold.
LEMMA ObjAllowed ==
    ASSUME NEW p, NEW h, NEW k \in Key, NEW i \in Files, NEW d \in Allowed(p, h)[Obj(k, i)]
    PROVE  d \in OutData /\ d.of = k /\ d.part = i /\ d.whole
  <1>1. i \in Nat
    BY DEF Files
  <1>2. Obj(k, i) \in Names
    BY DEF Names, CacheNames
  <1>3. Obj(k, i) \notin ErrNames /\ Obj(k, i) \notin TextNames
    BY DEF Obj, ErrNames, TextNames, Err, Lst, Tmp, ITmp, Cpp, COut, CErr, CLst, Fd
  <1>4. d \in OutData /\ Obj(k, i) \in OutNames(d.part)
    BY <1>2, <1>3 DEF Allowed, RightData, Kind
  <1>5. d.part = i
    BY <1>4 DEF OutNames, Obj, Out, Tmp
  <1> QED BY <1>2, <1>4, <1>5 DEF Allowed, RightData

LEMMA ErrAllowed ==
    ASSUME NEW p, NEW h, NEW k \in Key, NEW d \in Allowed(p, h)[Err(k)]
    PROVE  d.of = k
  <1>1. Err(k) \in Names
    BY DEF Names, CacheNames
  <1> QED BY <1>1 DEF Allowed, RightData

LEMMA RightInvImpliesCacheRight == RightInv => CacheRight
  <1> SUFFICES ASSUME RightInv, NEW f \in fs, NEW k \in Key
               PROVE  /\ \A i \in Files : Obj(k, i) \in f.names =>
                            f.data.of = k /\ f.data.part = i /\ f.data.whole
                      /\ Err(k) \in f.names => f.data.of = k
    BY DEF CacheRight
  <1>1. \A n \in f.names : f.data \in Allowed(pc, key)[n]
    BY DEF RightInv, Conforms
  <1> QED BY <1>1, ObjAllowed, ErrAllowed

\* The names that are not restricted further than by their kind.
LEMMA PlainAllowed ==
    ASSUME NEW p, NEW h, NEW t \in Tree, NEW k \in Key
    PROVE  /\ Allowed(p, h)[Fd(t)] = ErrData
           /\ Allowed(p, h)[Cpp(t)] = TextData /\ Allowed(p, h)[COut(t)] = TextData
           /\ Allowed(p, h)[CLst(t)] = TextData /\ Allowed(p, h)[Lst(k)] = TextData
  <1>1. ASSUME NEW n \in {Fd(t), Cpp(t), COut(t), CLst(t), Lst(k)}
        PROVE  n \in Names /\ RightData(p, h, n) = Kind[n]
    <2>1. n \in Names
      BY Numbers, KindOf
    <2>2. /\ \A l \in Key, i \in Files : n # Obj(l, i) /\ n # Err(l)
          /\ \A u \in Tree : n # ITmp(u) /\ n # CErr(u) /\ n \notin Tmps(u)
          /\ \A u \in Tree, i \in Files : n # Out(u, i)
      BY DEF Fd, Cpp, COut, CLst, Lst, Obj, Err, ITmp, CErr, Tmps, Tmp, Out
    <2>3. \A l \in Key : n # Err(l)
      BY <2>2, Numbers
    <2> QED BY <2>1, <2>2, <2>3 DEF RightData
  <1>2. \A n \in {Fd(t), Cpp(t), COut(t), CLst(t), Lst(k)} : Allowed(p, h)[n] = Kind[n]
    BY <1>1 DEF Allowed
  <1> QED BY <1>2, Numbers, KindOf

LEMMA ErrIs ==
    ASSUME NEW p, NEW h, NEW t \in Tree, NEW k \in Key
    PROVE  Err(k) \in Names /\ Allowed(p, h)[Err(k)] = {d \in ErrData : d.of = k}
  <1>1. Err(k) \in Names /\ Kind[Err(k)] = ErrData
    BY Numbers, KindOf
  <1>2. /\ \A l \in Key, i \in Files : Err(k) # Obj(l, i)
        /\ \A l \in Key : Err(k) = Err(l) <=> k = l
        /\ \A u \in Tree : Err(k) # ITmp(u) /\ Err(k) # CErr(u) /\ Err(k) \notin Tmps(u)
        /\ \A u \in Tree, i \in Files : Err(k) # Out(u, i)
    BY DEF Obj, Err, ITmp, CErr, Tmps, Tmp, Out
  <1>3. RightData(p, h, Err(k)) = {d \in ErrData : d.of = k}
    BY <1>1, <1>2 DEF RightData
  <1> QED BY <1>1, <1>3 DEF Allowed

LEMMA ObjIs ==
    ASSUME NEW p, NEW h, NEW t \in Tree, NEW k \in Key, NEW i \in Files
    PROVE  /\ Obj(k, i) \in Names
           /\ Allowed(p, h)[Obj(k, i)] = {d \in OutData : d.part = i /\ d.of = k /\ d.whole}
  <1>1. Obj(k, i) \in Names /\ Kind[Obj(k, i)] = {d \in OutData : d.part = i}
    BY KindOf
  <1>2. /\ \A l \in Key, j \in Files : Obj(k, i) = Obj(l, j) <=> k = l /\ i = j
        /\ \A l \in Key : Obj(k, i) # Err(l)
        /\ \A u \in Tree : Obj(k, i) # ITmp(u) /\ Obj(k, i) # CErr(u)
        /\ \A u \in Tree : Obj(k, i) \notin Tmps(u)
        /\ \A u \in Tree, j \in Files : Obj(k, i) # Out(u, j)
    BY DEF Obj, Err, ITmp, CErr, Tmps, Tmp, Out
  <1>3. RightData(p, h, Obj(k, i)) = {d \in OutData : d.part = i /\ d.of = k /\ d.whole}
    BY <1>1, <1>2 DEF RightData
  <1> QED BY <1>1, <1>3 DEF Allowed

\* What a run's own files hold on its way.
LEMMA OwnAllowed ==
    ASSUME NEW p, NEW h, NEW t \in Tree
    PROVE  /\ Allowed(p, h)[ITmp(t)] = {d \in TextData : IsBusy(p[t]) => d.of = h[t]}
           /\ Allowed(p, h)[CErr(t)] = {d \in ErrData : IsBusy(p[t]) => d.of = h[t]}
           /\ Allowed(p, h)[Tmp(t, 0)] = {d \in ErrData : IsBusy(p[t]) => d.of = h[t]}
  <1> DEFINE S == {ITmp(t), CErr(t), Tmp(t, 0)}
  <1>1. \A n \in S : n \in Names
    BY Numbers DEF Names, CacheNames, Temps, Tmps
  <1>2. /\ Kind[ITmp(t)] = TextData /\ Kind[CErr(t)] = ErrData
        /\ Kind[Tmp(t, 0)] = ErrData
    BY <1>1 DEF Kind, ErrNames, TextNames, ITmp, CErr, Tmp, Err, Fd
  <1>3. ASSUME NEW n \in S
        PROVE  RightData(p, h, n) = {d \in Kind[n] : IsBusy(p[t]) => d.of = h[t]}
    <2>1. /\ \A l \in Key, i \in Files : n # Obj(l, i)
          /\ \A l \in Key : n # Err(l)
          /\ \A u \in Tree, i \in Files : n # Out(u, i)
      BY DEF ITmp, CErr, Tmp, Obj, Err, Out
    <2>2. \A u \in Tree : n \in {ITmp(u), CErr(u)} \cup Tmps(u) <=> u = t
      BY DEF ITmp, CErr, Tmps, Tmp
    <2>3. \A u \in Tree : n \notin Tmps(u) \ {Tmp(u, 0)}
      BY DEF ITmp, CErr, Tmps, Tmp
    <2> QED BY <2>1, <2>2, <2>3 DEF RightData
  <1> QED BY <1>1, <1>2, <1>3 DEF Allowed

LEMMA OutKind ==
    ASSUME NEW t \in Tree, NEW i \in Files
    PROVE  /\ Out(t, i) \in Names /\ Tmp(t, i) \in Names
           /\ i # 0 /\ i \in {0} \cup Files
           /\ Kind[Out(t, i)] = {d \in OutData : d.part = i}
           /\ Kind[Tmp(t, i)] = {d \in OutData : d.part = i}
  <1>1. i \in Nat /\ i # 0 /\ i \in {0} \cup Files
    BY Numbers DEF Files
  <1>2. Out(t, i) \in Names /\ Tmp(t, i) \in Names
    BY <1>1 DEF Names, CacheNames, Outs, Tmps
  <1>3. \A d \in OutData : d.part \in Nat
    BY DEF OutData, Files
  <1>4. \A n \in {Out(t, i), Tmp(t, i)} : n \notin ErrNames /\ n \notin TextNames
    BY <1>1 DEF Out, Tmp, ErrNames, TextNames, Err, Lst, ITmp, Cpp, COut, CErr, CLst, Fd
  <1>5. \A j \in Nat : /\ Out(t, i) \in OutNames(j) <=> j = i
                       /\ Tmp(t, i) \in OutNames(j) <=> j = i
    BY <1>1 DEF OutNames, Obj, Out, Tmp
  <1>6. /\ Kind[Out(t, i)] = {d \in OutData : d.part = i}
        /\ Kind[Tmp(t, i)] = {d \in OutData : d.part = i}
    BY <1>2, <1>3, <1>4, <1>5 DEF Kind
  <1> QED BY <1>1, <1>2, <1>6

LEMMA OutAnyAllowed ==
    ASSUME NEW p, NEW h, NEW t \in Tree, NEW i \in Files, ~IsCompiled(p[t])
    PROVE  \A d : d \in Allowed(p, h)[Out(t, i)] <=> d \in OutData /\ d.part = i
  <1>1. /\ \A l \in Key, j \in Files : Out(t, i) # Obj(l, j)
        /\ \A l \in Key : Out(t, i) # Err(l)
        /\ \A u \in Tree : Out(t, i) \notin {ITmp(u), CErr(u)} \cup Tmps(u)
        /\ \A u \in Tree, j \in Files : Out(t, i) = Out(u, j) <=> t = u /\ i = j
    BY DEF Out, Obj, Err, ITmp, CErr, Tmps, Tmp
  <1>2. RightData(p, h, Out(t, i)) = Kind[Out(t, i)]
    BY <1>1 DEF RightData
  <1> QED BY <1>2, OutKind DEF Allowed

LEMMA OutAllowed ==
    ASSUME NEW p, NEW h, NEW t \in Tree, NEW i \in Files, IsCompiled(p[t])
    PROVE  Allowed(p, h)[Out(t, i)] =
              {d \in OutData : d.part = i /\ d.of = h[t] /\ d.whole}
  <1>1. /\ \A l \in Key, j \in Files : Out(t, i) # Obj(l, j)
        /\ \A l \in Key : Out(t, i) # Err(l)
        /\ \A u \in Tree : Out(t, i) \notin {ITmp(u), CErr(u)} \cup Tmps(u)
        /\ \A u \in Tree, j \in Files : Out(t, i) = Out(u, j) <=> t = u /\ i = j
    BY DEF Out, Obj, Err, ITmp, CErr, Tmps, Tmp
  <1>2. RightData(p, h, Out(t, i)) = {d \in Kind[Out(t, i)] : d.of = h[t] /\ d.whole}
    BY <1>1 DEF RightData
  <1> QED BY <1>2, OutKind DEF Allowed

LEMMA TmpAllowed ==
    ASSUME NEW p, NEW h, NEW t \in Tree, NEW i \in Files, IsBusy(p[t])
    PROVE  Allowed(p, h)[Tmp(t, i)] =
              {d \in OutData : d.part = i /\ d.of = h[t] /\ d.whole}
  <1>1. /\ \A l \in Key, j \in Files : Tmp(t, i) # Obj(l, j)
        /\ \A l \in Key : Tmp(t, i) # Err(l)
        /\ \A u \in Tree, j \in Files : Tmp(t, i) # Out(u, j)
    BY DEF Out, Obj, Err, Tmp
  <1>2. /\ \A u \in Tree : Tmp(t, i) \in {ITmp(u), CErr(u)} \cup Tmps(u) <=> u = t
        /\ \A u \in Tree : Tmp(t, i) \in Tmps(u) \ {Tmp(u, 0)} <=> u = t
    BY OutKind DEF ITmp, CErr, Tmps, Tmp
  <1>3. RightData(p, h, Tmp(t, i)) = {d \in Kind[Tmp(t, i)] : d.of = h[t] /\ d.whole}
    BY <1>1, <1>2 DEF RightData
  <1> QED BY <1>3, OutKind DEF Allowed

-----------------------------------------------------------------------------
\* A step of one tree that starts no run and does not pass the end of the
\* compiler allows what was allowed before.
Onward(t) ==
    /\ \A u \in Tree \ {t} : pc'[u] = pc[u] /\ key'[u] = key[u]
    /\ Busy(t)' => Busy(t) /\ key'[t] = key[t]
    /\ Compiled(t)' => Compiled(t)

LEMMA AllowedGrows ==
    ASSUME NEW t \in Tree, Onward(t)
    PROVE  \A n \in Names : Allowed(pc, key)[n] \subseteq Allowed(pc', key')[n]
  <1>1. \A u \in Tree : IsBusy(pc'[u]) => IsBusy(pc[u]) /\ key'[u] = key[u]
    BY DEF Onward, Busy
  <1>2. \A u \in Tree : IsCompiled(pc'[u]) => IsCompiled(pc[u]) /\ key'[u] = key[u]
    BY <1>1 DEF Onward, Compiled, IsCompiled, IsBusy
  <1>3. ASSUME NEW n \in Names, NEW d \in RightData(pc, key, n)
        PROVE  d \in RightData(pc', key', n)
    BY <1>1, <1>2 DEF RightData
  <1> QED BY <1>3 DEF Allowed

LEMMA StillAllowed ==
    ASSUME RightInv, NEW t \in Tree, Onward(t)
    PROVE  Conforms(fs, Names, AnyData, Allowed(pc', key'))
  <1>1. \A f \in fs : f.names \subseteq Names
    BY DEF RightInv, Conforms
  <1>2. \A f \in fs : \A n \in f.names : f.data \in Allowed(pc, key)[n] => f.data \in Allowed(pc', key')[n]
    BY <1>1, AllowedGrows
  <1> QED BY <1>2, WeakenConforms DEF RightInv

\* What the system calls do to the outputs' inodes.
LEMMA OwnRemove ==
    ASSUME NEW s, Own(s), NEW ns
    PROVE  Own(Remove(s, ns))
  <1> SUFFICES ASSUME NEW f \in Remove(s, ns), NEW t \in Tree, NEW i \in Files,
                      Out(t, i) \in f.names
               PROVE  f.names = {Out(t, i)}
    BY DEF Own
  <1>1. PICK g \in s : f = [g EXCEPT !.names = @ \ ns]
    BY DEF Remove
  <1>2. f.names = g.names \ ns \/ f.names = g.names
    BY <1>1
  <1>3. g.names = {Out(t, i)}
    BY <1>2 DEF Own
  <1> QED BY <1>2, <1>3

LEMMA OwnLink ==
    ASSUME NEW s, Own(s), NEW a, NEW b,
           \A t \in Tree, i \in Files : a # Out(t, i) /\ b # Out(t, i)
    PROVE  Own(Link(s, a, b))
  <1> SUFFICES ASSUME NEW f \in Link(s, a, b), NEW t \in Tree, NEW i \in Files,
                      Out(t, i) \in f.names
               PROVE  f.names = {Out(t, i)}
    BY DEF Own
  <1>1. PICK g \in s : f = IF a \in g.names
                           THEN [g EXCEPT !.names = @ \cup {b}] ELSE g
    BY DEF Link
  <1>2. CASE a \notin g.names
    BY <1>1, <1>2 DEF Own
  <1>3. CASE a \in g.names
    <2>1. f.names = g.names \cup {b} \/ f.names = g.names
      BY <1>1
    <2>2. g.names = {Out(t, i)}
      BY <2>1 DEF Own
    <2> QED BY <1>3, <2>2
  <1> QED BY <1>2, <1>3

LEMMA OwnCreate ==
    ASSUME NEW s, Own(s), NEW n, NEW d
    PROVE  Own(Create(s, n, d))
  <1> SUFFICES ASSUME NEW f \in Create(s, n, d), NEW t \in Tree, NEW i \in Files,
                      Out(t, i) \in f.names
               PROVE  f.names = {Out(t, i)}
    BY DEF Own
  <1>1. f \in s \/ f = [names |-> {n}, data |-> d]
    BY DEF Create
  <1> QED BY <1>1 DEF Own

\* The compiler's writes: only inodes that are its outputs and nothing else.
LEMMA WriteOutsRight ==
    ASSUME NEW s, NEW K, NEW L, Conforms(s, Names, AnyData, K), Own(s),
           NEW t \in Tree, NEW v \in Key, NEW done \in BOOLEAN,
           \A n \in Names \ Outs(t) : K[n] \subseteq L[n],
           \A i \in Files : [Output(v, i) EXCEPT !.whole = done] \in L[Out(t, i)]
    PROVE  /\ Conforms(WriteOuts(s, t, v, done), Names, AnyData, L)
           /\ Own(WriteOuts(s, t, v, done))
  <1> DEFINE D(i) == [Output(v, i) EXCEPT !.whole = done]
             Mine(f) == \E i \in Files : Out(t, i) \in f.names
             C(f) == CHOOSE i \in Files : Out(t, i) \in f.names
             W(f) == IF Mine(f) THEN [f EXCEPT !.data = D(C(f))] ELSE f
             old == {W(f) : f \in s}
             new == {[names |-> {Out(t, i)}, data |-> D(i)] :
                         i \in {j \in Files : ~Has(s, Out(t, j))}}
  <1>1. WriteOuts(s, t, v, done) = old \cup new
    BY DEF WriteOuts
  <1>2. \A i \in Files : D(i) \in AnyData /\ D(i) \in L[Out(t, i)] /\ Out(t, i) \in Names
    BY OutKind DEF Output, OutData, AnyData
  <1>3. ASSUME NEW f \in s
        PROVE  /\ W(f) \in [names : SUBSET Names, data : AnyData]
               /\ \A n \in W(f).names : W(f).data \in L[n]
               /\ W(f).names = f.names
    <2>1. f \in [names : SUBSET Names, data : AnyData] /\ \A n \in f.names : f.data \in K[n]
      BY DEF Conforms
    <2>2. CASE Mine(f)
      <3>1. C(f) \in Files /\ Out(t, C(f)) \in f.names
        BY <2>2
      <3> HIDE DEF C, Mine
      <3>2. f.names = {Out(t, C(f))}
        BY <3>1 DEF Own
      <3>3. W(f) = [f EXCEPT !.data = D(C(f))]
        BY <2>2
      <3>4. D(C(f)) \in AnyData /\ D(C(f)) \in L[Out(t, C(f))]
        BY <1>2, <3>1
      <3> HIDE DEF D, W
      <3>5. W(f).names = f.names /\ W(f).data = D(C(f))
            /\ W(f) \in [names : SUBSET Names, data : AnyData]
        BY <3>3, <3>4, <2>1
      <3> QED BY <3>2, <3>4, <3>5
    <2>3. CASE ~Mine(f)
      <3>1. \A n \in f.names : n \in Names \ Outs(t)
        BY <2>1, <2>3 DEF Outs
      <3> QED BY <2>1, <2>3, <3>1
    <2> QED BY <2>2, <2>3
  <1>4. ASSUME NEW g \in new
        PROVE  /\ g \in [names : SUBSET Names, data : AnyData]
               /\ \A n \in g.names : g.data \in L[n]
               /\ \E i \in Files : g.names = {Out(t, i)}
    <2>1. PICK i \in Files : g = [names |-> {Out(t, i)}, data |-> D(i)]
      OBVIOUS
    <2>2. D(i) \in AnyData /\ D(i) \in L[Out(t, i)] /\ Out(t, i) \in Names
      BY <1>2
    <2> HIDE DEF D
    <2> QED BY <2>1, <2>2
  <1>5. Own(old \cup new)
    <2> HIDE DEF W, new
    <2>1. \A f \in s : \A u \in Tree, i \in Files :
              Out(u, i) \in W(f).names => W(f).names = {Out(u, i)}
      BY <1>3 DEF Own
    <2>2. \A g \in new : \A u \in Tree, i \in Files :
              Out(u, i) \in g.names => g.names = {Out(u, i)}
      BY <1>4
    <2> QED BY <2>1, <2>2 DEF Own
  <1> HIDE DEF W, new
  <1> QED BY <1>1, <1>3, <1>4, <1>5 DEF Conforms

LEMMA LoggedRight ==
    ASSUME NEW s, NEW L, Conforms(s, Names, AnyData, L), Own(s),
           NEW t \in Tree, NEW v \in Key,
           L[COut(t)] = TextData, L[CLst(t)] = TextData,
           \A b \in BOOLEAN : Stderr(v, b) \in L[CErr(t)]
    PROVE  Conforms(Logged(s, t, v), Names, AnyData, L) /\ Own(Logged(s, t, v))
  <1> DEFINE e == Stderr(v, Env[t].input # "cpp")
             a == Create(s, COut(t), [of |-> v])
             b == Create(a, CErr(t), e)
             c == Create(b, CLst(t), [of |-> v])
  <1>1. [of |-> v] \in TextData /\ [of |-> v] \in AnyData
    BY DEF TextData, AnyData
  <1>2. e \in AnyData /\ e \in L[CErr(t)]
    BY DEF Stderr, ErrData, AnyData
  <1>3. COut(t) \in Names /\ CErr(t) \in Names /\ CLst(t) \in Names
    BY DEF Names, Temps
  <1> HIDE DEF e
  <1>4. Conforms(a, Names, AnyData, L) /\ Own(a)
    BY <1>1, <1>3, CreateConforms, OwnCreate
  <1> HIDE DEF a
  <1>5. Conforms(b, Names, AnyData, L) /\ Own(b)
    BY <1>2, <1>3, <1>4, CreateConforms, OwnCreate
  <1> HIDE DEF b
  <1>6. Conforms(c, Names, AnyData, L) /\ Own(c)
    BY <1>1, <1>3, <1>5, CreateConforms, OwnCreate
  <1> HIDE DEF c
  <1>7. Logged(s, t, v) = IF SWIG THEN c ELSE b
    BY DEF Logged, a, b, c, e
  <1> QED BY <1>5, <1>6, <1>7

-----------------------------------------------------------------------------
(* One step per action: where the driver goes, and the files. *)

Goes(t, l) ==
    /\ pc' = [pc EXCEPT ![t] = l]
    /\ l \notin {"rlink", "link", "write"}
    /\ IsBusy(l) => Busy(t) /\ key' = key
    /\ IsCompiled(l) => Compiled(t)

RightFs == Own(fs') /\ Conforms(fs', Names, AnyData, Allowed(pc', key'))

\* The conjuncts of the invariant about one tree.
LEMMA GoesRight ==
    ASSUME TypeInv, RightInv, NEW t \in Tree, NEW l, Goes(t, l), RightFs,
           \A u \in Tree \ {t} : read'[u] = read[u] /\ key'[u] = key[u]
    PROVE  RightInv'
  <1>1. pc \in [Tree -> Labels]
    BY DEF TypeInv, Locals
  <1>2. NoLinks' /\ Written'
    BY <1>1 DEF Goes, RightInv, NoLinks, Written
  <1> QED BY <1>2 DEF RightInv, RightFs

LEMMA GoesOnward ==
    ASSUME TypeInv, NEW t \in Tree, NEW l, Goes(t, l),
           \A u \in Tree \ {t} : key'[u] = key[u]
    PROVE  Onward(t)
  <1>1. pc \in [Tree -> Labels] /\ key \in [Tree -> Key]
    BY DEF TypeInv, Locals
  <1> QED BY <1>1 DEF Goes, Onward, Busy, Compiled

\* Steps that only remove names.
LEMMA RemovingRight ==
    ASSUME TypeInv, RightInv, NEW t \in Tree, NEW l, Goes(t, l),
           UNCHANGED <<key, read>>,
           fs' = fs \/ \E ns : fs' = Remove(fs, ns)
    PROVE  RightInv'
  <1>1. Conforms(fs, Names, AnyData, Allowed(pc', key')) /\ Own(fs)
    BY GoesOnward, StillAllowed DEF RightInv
  <1>2. RightFs
    BY <1>1, RemoveConforms, OwnRemove DEF RightFs
  <1> QED BY <1>2, GoesRight

Removing(t) ==
    \/ StatObject(t) \/ TestEntry(t) \/ Drop(t) \/ OpenList(t) \/ Retrieve(t)
    \/ DropFreed(t) \/ Deliver(t) \/ StdoutSeen(t) \/ StdoutEmpty(t)
    \/ CompileFailed(t) \/ Commit(t) \/ CopyUnlink(t) \/ Stored(t) \/ Crash(t)

LEMMA RemovingStepRight ==
    ASSUME Copying, TypeInv, RightInv, NEW t \in Tree, Removing(t)
    PROVE  RightInv'
  <1> USE DEF Goto, Exit, End, GiveUp
  <1>1. ~Env[t].hardlink /\ Missed(t) \in {"compile", "exec"}
    BY DEF Copying, Missed
  <1>2. UNCHANGED <<key, read>>
    BY DEF Removing, StatObject, TestEntry, Drop, OpenList, Retrieve, DropFreed,
           Deliver, StdoutSeen, StdoutEmpty, CompileFailed, Commit, CopyUnlink,
           Stored, Crash
  <1>3. fs' = fs \/ \E ns : fs' = Remove(fs, ns)
    <2>1. CASE Deliver(t)
      BY <2>1 DEF Deliver
    <2>2. CASE CompileFailed(t)
      BY <2>2 DEF CompileFailed
    <2>3. CASE ~Deliver(t) /\ ~CompileFailed(t)
      BY <2>3 DEF Removing, StatObject, TestEntry, Drop, OpenList, Retrieve, DropFreed,
           StdoutSeen, StdoutEmpty, Commit, CopyUnlink, Stored, Crash
    <2> QED BY <2>1, <2>2, <2>3
  <1>4. \E l : Goes(t, l)
    <2> USE DEF Goes, Busy, IsBusy, Compiled, IsCompiled
    <2>1. CASE StatObject(t) \/ TestEntry(t) \/ OpenList(t)
      BY <1>2, <2>1 DEF StatObject, TestEntry, OpenList
    <2>2. CASE Drop(t) \/ DropFreed(t)
      BY <1>1, <1>2, <2>2 DEF Drop, DropFreed
    <2>3. CASE Retrieve(t) \/ Commit(t)
      BY <1>1, <1>2, <2>3 DEF Retrieve, Commit
    <2>4. CASE Deliver(t) \/ CompileFailed(t) \/ Crash(t)
      BY <1>2, <2>4 DEF Deliver, CompileFailed, Crash
    <2>5. CASE StdoutSeen(t) \/ StdoutEmpty(t) \/ CopyUnlink(t) \/ Stored(t)
      BY <1>2, <2>5 DEF StdoutSeen, StdoutEmpty, CopyUnlink, Stored
    <2> QED BY <2>1, <2>2, <2>3, <2>4, <2>5 DEF Removing
  <1> QED BY <1>2, <1>3, <1>4, RemovingRight

LEMMA OpenStderrRight ==
    ASSUME TypeInv, RightInv, NEW t \in Tree, OpenStderr(t)
    PROVE  RightInv'
  <1>1. UNCHANGED <<key, read>> /\ key[t] \in Key
    BY DEF OpenStderr, TypeInv, Locals
  <1>2. PICK l \in {"stat", "compile", "exec"} : Goes(t, l)
    BY <1>1 DEF OpenStderr, Goto, Missed, Goes, Busy, IsBusy, IsCompiled
  <1>3. Conforms(fs, Names, AnyData, Allowed(pc', key')) /\ Own(fs)
    BY <1>1, <1>2, GoesOnward, StillAllowed DEF RightInv
  <1>4. CASE fs' = fs
    BY <1>1, <1>2, <1>3, <1>4, GoesRight DEF RightFs
  <1>5. CASE fs' = Link(fs, Err(key[t]), Fd(t))
    <2>1. Fd(t) \in Names /\ Allowed(pc', key')[Fd(t)] = ErrData
      BY <1>1, PlainAllowed, Numbers, KindOf
    <2>2. \A f \in fs : Err(key[t]) \in f.names => f.data \in ErrData
      BY <1>1, ErrIs DEF RightInv, Conforms
    <2>3. \A u \in Tree, i \in Files : Err(key[t]) # Out(u, i) /\ Fd(t) # Out(u, i)
      BY DEF Err, Out, Fd
    <2>4. RightFs
      BY <1>3, <1>5, <2>1, <2>2, <2>3, LinkConforms, OwnLink DEF RightFs
    <2> QED BY <1>1, <1>2, <2>4, GoesRight
  <1> QED BY <1>4, <1>5 DEF OpenStderr

\* No driver that copies links.
LEMMA NoLinkRight ==
    ASSUME RightInv, NEW t \in Tree
    PROVE  ~RetrieveLink(t) /\ ~CommitLink(t)
  BY DEF RightInv, NoLinks, RetrieveLink, CommitLink

\* The premises that all the following steps share.
LEMMA StayRight ==
    ASSUME TypeInv, RightInv, NEW t \in Tree, NEW l, Goes(t, l), key' = key
    PROVE  Conforms(fs, Names, AnyData, Allowed(pc', key')) /\ Own(fs)
  BY GoesOnward, StillAllowed DEF RightInv

LEMMA RetrieveCopyRight ==
    ASSUME TypeInv, RightInv, NEW t \in Tree, RetrieveCopy(t)
    PROVE  RightInv'
  <1> DEFINE o == Obj(key[t], file[t])
             n == Out(t, file[t])
  <1>1. UNCHANGED <<key, read>> /\ key[t] \in Key /\ file[t] \in Files /\ pc[t] = "rcopy"
        /\ pc \in [Tree -> Labels]
    BY DEF RetrieveCopy, TypeInv, Locals, FilesInHand, InHand
  <1>2. PICK l \in {"retrieve", "deliver", "bad"} : Goes(t, l)
    BY <1>1 DEF RetrieveCopy, Retrieved, Goto, Goes, Busy, IsBusy, IsCompiled
  <1>3. Conforms(fs, Names, AnyData, Allowed(pc', key')) /\ Own(fs)
    BY <1>1, <1>2, StayRight
  <1>4. CASE fs' = fs
    BY <1>1, <1>2, <1>3, <1>4, GoesRight DEF RightFs
  <1>5. CASE /\ Has(fs, o)
             /\ fs' = Create(Remove(fs, {n}), n, Unpacked(t, Data(fs, o)))
    <2> DEFINE d == Unpacked(t, Data(fs, o))
    <2>1. Data(fs, o) \in Kind[o] /\ Kind[o] = {e \in OutData : e.part = file[t]}
      BY <1>1, <1>5, KindOf, DataConforms DEF TypeInv, Sorted
    <2>2. d \in OutData /\ d.part = file[t] /\ d \in AnyData
      BY <1>1, <2>1, PackedKind DEF AnyData
    <2> HIDE DEF d
    <2>3. ~IsCompiled(pc'[t])
      BY <1>1, <1>2 DEF Goes, IsCompiled
    <2>4. n \in Names /\ d \in Allowed(pc', key')[n]
      <3>1. ASSUME NEW p, NEW h, NEW i \in Files, ~IsCompiled(p[t]), d.part = i
            PROVE  d \in Allowed(p, h)[Out(t, i)]
        BY <2>2, <3>1, OutAnyAllowed
      <3> QED BY <1>1, <2>2, <2>3, <3>1, OutKind
    <2>5. Conforms(Remove(fs, {n}), Names, AnyData, Allowed(pc', key')) /\ Own(Remove(fs, {n}))
      BY <1>3, RemoveConforms, OwnRemove
    <2>6. fs' = Create(Remove(fs, {n}), n, d)
      BY <1>5 DEF d
    <2> HIDE DEF n
    <2>7. RightFs
      BY <2>2, <2>4, <2>5, <2>6, CreateConforms, OwnCreate DEF RightFs
    <2> QED BY <1>1, <1>2, <2>7, GoesRight
  <1> QED BY <1>4, <1>5 DEF RetrieveCopy

\* What is copied into the cache was made from the version that was hashed.
LEMMA FromAllowed ==
    ASSUME TypeInv, RightInv, NEW t \in Tree, Busy(t), Compiled(t),
           file[t] \in {0} \cup Files
    PROVE  /\ Dest(t) \in Names /\ Tmp(t, file[t]) \in Names
           /\ Allowed(pc, key)[Tmp(t, file[t])] \subseteq Allowed(pc, key)[Dest(t)]
           /\ \A d \in Allowed(pc, key)[From(t)] :
                 /\ Packed(t, d) \in AnyData
                 /\ Packed(t, d) \in Allowed(pc, key)[Tmp(t, file[t])]
           /\ Tmp(t, file[t]) # Dest(t)
           /\ \A u \in Tree, i \in Files : Dest(t) # Out(u, i) /\ Tmp(t, file[t]) # Out(u, i)
  <1>1. key[t] \in Key /\ IsBusy(pc[t]) /\ IsCompiled(pc[t])
    BY DEF TypeInv, Locals, Busy, Compiled
  <1>2. /\ Dest(t) \in Names /\ Tmp(t, file[t]) \in Names /\ Tmp(t, file[t]) # Dest(t)
    BY DestKind
  <1>3. \A u \in Tree, i \in Files : Dest(t) # Out(u, i) /\ Tmp(t, file[t]) # Out(u, i)
    BY DEF Dest, Err, Lst, Obj, Out, Tmp
  <1>4. CASE file[t] = 0
    <2>1. Dest(t) = Err(key[t]) /\ From(t) = CErr(t)
      BY <1>4 DEF Dest, From
    <2>2. /\ Allowed(pc, key)[Tmp(t, 0)] = {d \in ErrData : d.of = key[t]}
          /\ Allowed(pc, key)[CErr(t)] = {d \in ErrData : d.of = key[t]}
          /\ Allowed(pc, key)[Err(key[t])] = {d \in ErrData : d.of = key[t]}
      BY <1>1, OwnAllowed, ErrIs
    <2>3. \A d \in ErrData : Packed(t, d) \in ErrData /\ Packed(t, d).of = d.of
      <3>1. Env[t].zlib \in BOOLEAN /\ Env[t].nocompress \in BOOLEAN
        BY EnvAssumption DEF Envs
      <3> QED BY <3>1 DEF Packed, ErrData
    <2> QED BY <1>2, <1>3, <1>4, <2>1, <2>2, <2>3 DEF AnyData
  <1>5. CASE file[t] \in Files
    <2>1. file[t] # 0 /\ file[t] # List
      BY <1>5, Numbers
    <2>2. Dest(t) = Obj(key[t], file[t]) /\ From(t) = Out(t, file[t])
      BY <2>1 DEF Dest, From
    <2> DEFINE S == {d \in OutData : d.part = file[t] /\ d.of = key[t] /\ d.whole}
    <2>3. /\ Allowed(pc, key)[Tmp(t, file[t])] = S
          /\ Allowed(pc, key)[Out(t, file[t])] = S
          /\ Allowed(pc, key)[Obj(key[t], file[t])] = S
      <3>1. Allowed(pc, key)[Tmp(t, file[t])] = S /\ Allowed(pc, key)[Out(t, file[t])] = S
        BY <1>1, <1>5, OutAllowed, TmpAllowed
      <3>2. Allowed(pc, key)[Obj(key[t], file[t])] = S
        BY <1>1, <1>5, ObjIs
      <3> QED BY <3>1, <3>2
    <2>4. \A d \in S : Packed(t, d) \in S /\ Packed(t, d) \in AnyData
      <3>1. Env[t].zlib \in BOOLEAN /\ Env[t].nocompress \in BOOLEAN
        BY EnvAssumption DEF Envs
      <3> QED BY <3>1 DEF Packed, OutData, AnyData
    <2> HIDE DEF S
    <2> QED BY <1>2, <1>3, <2>2, <2>3, <2>4
  <1> QED BY <1>4, <1>5

LEMMA CopyToTmpRight ==
    ASSUME TypeInv, RightInv, NEW t \in Tree, CopyToTmp(t)
    PROVE  RightInv'
  <1>1. /\ UNCHANGED <<key, read>> /\ Busy(t) /\ Compiled(t)
        /\ file[t] \in {0} \cup Files /\ pc \in [Tree -> Labels]
    BY DEF CopyToTmp, TypeInv, Locals, FilesInHand, InHand, Busy, IsBusy, Compiled, IsCompiled
  <1>2. PICK l \in {"unlink", "exec"} : Goes(t, l)
    BY <1>1 DEF CopyToTmp, GiveUp, Goto, Goes, IsBusy, IsCompiled
  <1>3. Conforms(fs, Names, AnyData, Allowed(pc', key')) /\ Own(fs)
    BY <1>1, <1>2, StayRight
  <1>4. CASE GiveUp(t)
    BY <1>1, <1>2, <1>4, RemovingRight DEF GiveUp
  <1>5. CASE /\ Has(fs, From(t)) /\ Goto(t, "unlink")
             /\ fs' = Create(fs, Tmp(t, file[t]), Packed(t, Data(fs, From(t))))
    <2> DEFINE d == Packed(t, Data(fs, From(t)))
               n == Tmp(t, file[t])
    <2>1. Data(fs, From(t)) \in Allowed(pc, key)[From(t)]
      BY <1>5, DataConforms DEF RightInv
    <2>2. d \in AnyData /\ d \in Allowed(pc, key)[n] /\ n \in Names
      BY <1>1, <2>1, FromAllowed
    <2>3. Allowed(pc, key)[n] \subseteq Allowed(pc', key')[n]
      BY <1>1, <1>2, <2>2, GoesOnward, AllowedGrows
    <2> HIDE DEF d, n
    <2>4. fs' = Create(fs, n, d)
      BY <1>5 DEF d, n
    <2>5. RightFs
      BY <1>3, <2>2, <2>3, <2>4, CreateConforms, OwnCreate DEF RightFs
    <2> QED BY <1>1, <1>2, <2>5, GoesRight
  <1> QED BY <1>4, <1>5 DEF CopyToTmp

LEMMA CopyRenameRight ==
    ASSUME TypeInv, RightInv, NEW t \in Tree, CopyRename(t)
    PROVE  RightInv'
  <1>1. /\ UNCHANGED <<key, read>> /\ Busy(t) /\ Compiled(t)
        /\ file[t] \in {0} \cup Files /\ pc \in [Tree -> Labels]
    BY DEF CopyRename, TypeInv, Locals, FilesInHand, InHand, GiveUp, Busy, IsBusy,
           Compiled, IsCompiled
  <1>2. PICK l \in {"stored", "exec"} : Goes(t, l)
    BY <1>1 DEF CopyRename, GiveUp, Goto, Goes, IsBusy, IsCompiled
  <1>3. Conforms(fs, Names, AnyData, Allowed(pc, key)) /\ Own(fs)
    BY DEF RightInv
  <1>4. CASE GiveUp(t)
    BY <1>1, <1>2, <1>4, RemovingRight DEF GiveUp
  <1>5. CASE \E ns : fs' = Remove(Rename(fs, Tmp(t, file[t]), Dest(t)), ns)
    <2> DEFINE a == Tmp(t, file[t])
               b == Dest(t)
               r == Remove(fs, {b})
               s == Rename(fs, a, b)
    <2>1. /\ a # b /\ b \in Names /\ Allowed(pc, key)[a] \subseteq Allowed(pc, key)[b]
          /\ \A u \in Tree, i \in Files : a # Out(u, i) /\ b # Out(u, i)
      BY <1>1, FromAllowed
    <2> HIDE DEF a, b
    <2>2. Conforms(s, Names, AnyData, Allowed(pc, key))
      BY <1>3, <2>1, RenameConforms
    <2>3. Own(r)
      BY <1>3, OwnRemove
    <2>4. Own(Link(r, a, b))
      BY <2>1, <2>3, OwnLink
    <2>5. Own(s)
      BY <2>4, OwnRemove DEF Rename
    <2> HIDE DEF s
    <2>6. Own(fs') /\ Conforms(fs', Names, AnyData, Allowed(pc, key))
      BY <1>5, <2>2, <2>5, RemoveConforms, OwnRemove DEF s, a, b
    <2>7. \A n \in Names : Allowed(pc, key)[n] \subseteq Allowed(pc', key')[n]
      BY <1>1, <1>2, GoesOnward, AllowedGrows
    <2>8. Conforms(fs', Names, AnyData, Allowed(pc', key'))
      <3>1. \A f \in fs' : f.names \subseteq Names
        BY <2>6 DEF Conforms
      <3> QED BY <2>6, <2>7, <3>1, WeakenConforms
    <2> QED BY <1>1, <1>2, <2>6, <2>8, GoesRight DEF RightFs
  <1> QED BY <1>4, <1>5 DEF CopyRename

LEMMA PutRight ==
    ASSUME TypeInv, RightInv, NEW t \in Tree, PutList(t) \/ PutStderr(t)
    PROVE  RightInv'
  <1>1. /\ UNCHANGED <<key, read>> /\ Busy(t) /\ Compiled(t) /\ key[t] \in Key
        /\ pc \in [Tree -> Labels]
    BY DEF PutList, PutStderr, TypeInv, Locals, GiveUp, Busy, IsBusy, Compiled, IsCompiled
  <1>2. PICK l \in {"stored", "copy", "exec"} : Goes(t, l)
    BY <1>1 DEF PutList, PutStderr, GiveUp, Goto, Goes, IsBusy, IsCompiled
  <1>3. Conforms(fs, Names, AnyData, Allowed(pc', key')) /\ Own(fs)
    BY <1>1, <1>2, StayRight
  <1>4. CASE fs' = fs \/ \E ns : fs' = Remove(fs, ns)
    BY <1>1, <1>2, <1>4, RemovingRight
  <1>5. ASSUME NEW a, NEW b \in Names, fs' = SafeRename(fs, a, b),
               \A u \in Tree, i \in Files : a # Out(u, i) /\ b # Out(u, i),
               Allowed(pc, key)[a] \subseteq Allowed(pc', key')[b]
        PROVE  RightInv'
    <2>1. \A f \in fs : a \in f.names => f.data \in Allowed(pc', key')[b]
      BY <1>5 DEF RightInv, Conforms
    <2> DEFINE l1 == IF Has(fs, b) THEN fs ELSE Link(fs, a, b)
    <2>2. Conforms(l1, Names, AnyData, Allowed(pc', key')) /\ Own(l1)
      BY <1>3, <1>5, <2>1, LinkConforms, OwnLink
    <2>3. fs' = Remove(l1, {a})
      BY <1>5 DEF SafeRename
    <2> HIDE DEF l1
    <2>4. RightFs
      BY <2>2, <2>3, RemoveConforms, OwnRemove DEF RightFs
    <2> QED BY <1>1, <1>2, <2>4, GoesRight
  <1>6. /\ Lst(key[t]) \in Names /\ Err(key[t]) \in Names
        /\ Allowed(pc, key)[CLst(t)] \subseteq Allowed(pc', key')[Lst(key[t])]
        /\ Allowed(pc, key)[CErr(t)] \subseteq Allowed(pc', key')[Err(key[t])]
    <2>1. Lst(key[t]) \in Names /\ Err(key[t]) \in Names
      BY <1>1 DEF Names, CacheNames
    <2>2. Allowed(pc, key)[CLst(t)] = TextData /\ Allowed(pc', key')[Lst(key[t])] = TextData
      BY <1>1, PlainAllowed
    <2>3. Allowed(pc, key)[CErr(t)] = {d \in ErrData : d.of = key[t]}
      BY <1>1, OwnAllowed DEF Busy
    <2>4. Allowed(pc', key')[Err(key[t])] = {d \in ErrData : d.of = key[t]}
      BY <1>1, ErrIs
    <2> QED BY <2>1, <2>2, <2>3, <2>4
  <1>7. \A u \in Tree, i \in Files :
            /\ CLst(t) # Out(u, i) /\ Lst(key[t]) # Out(u, i)
            /\ CErr(t) # Out(u, i) /\ Err(key[t]) # Out(u, i)
    BY DEF CLst, Lst, CErr, Err, Out
  <1>8. \/ fs' = fs \/ \E ns : fs' = Remove(fs, ns)
        \/ fs' = SafeRename(fs, CLst(t), Lst(key[t]))
        \/ fs' = SafeRename(fs, CErr(t), Err(key[t]))
    BY DEF PutList, PutStderr, GiveUp
  <1> QED BY <1>4, <1>5, <1>6, <1>7, <1>8

-----------------------------------------------------------------------------
(* The steps that write files. *)

LEMMA WritingRight ==
    ASSUME NEW p, NEW h, NEW s, Conforms(s, Names, AnyData, Allowed(p, h)), Own(s),
           NEW t \in Tree, ~IsCompiled(p[t]), NEW v \in Key, NEW done \in BOOLEAN
    PROVE  /\ Conforms(WriteOuts(s, t, v, done), Names, AnyData, Allowed(p, h))
           /\ Own(WriteOuts(s, t, v, done))
  <1>1. ASSUME NEW i \in Files
        PROVE  [Output(v, i) EXCEPT !.whole = done] \in Allowed(p, h)[Out(t, i)]
    <2> DEFINE d == [Output(v, i) EXCEPT !.whole = done]
    <2>1. d \in OutData /\ d.part = i
      BY DEF Output, OutData
    <2> HIDE DEF d
    <2>2. d \in Allowed(p, h)[Out(t, i)]
      BY <2>1, OutAnyAllowed
    <2> QED BY <2>2 DEF d
  <1> QED BY <1>1, WriteOutsRight

\* What execute() leaves is allowed when it is about the version hashed.
LEMMA LoggingRight ==
    ASSUME NEW p, NEW h, NEW s, Conforms(s, Names, AnyData, Allowed(p, h)), Own(s),
           NEW t \in Tree, h[t] \in Key
    PROVE  /\ Conforms(Logged(s, t, h[t]), Names, AnyData, Allowed(p, h))
           /\ Own(Logged(s, t, h[t]))
  <1>1. Allowed(p, h)[COut(t)] = TextData /\ Allowed(p, h)[CLst(t)] = TextData
    BY PlainAllowed
  <1>2. Allowed(p, h)[CErr(t)] = {d \in ErrData : IsBusy(p[t]) => d.of = h[t]}
    BY OwnAllowed
  <1>3. \A b \in BOOLEAN : Stderr(h[t], b) \in ErrData /\ Stderr(h[t], b).of = h[t]
    BY DEF Stderr, ErrData
  <1>4. \A b \in BOOLEAN : Stderr(h[t], b) \in Allowed(p, h)[CErr(t)]
    BY <1>2, <1>3
  <1> QED BY <1>1, <1>4, LoggedRight

LEMMA CompileRight ==
    ASSUME Copying, TypeInv, RightInv, NEW t \in Tree, Compile(t)
    PROVE  RightInv'
  <1>1. /\ pc \in [Tree -> Labels] /\ key[t] \in Key /\ read \in [Tree -> Key]
        /\ pc[t] = "compile" /\ key' = key /\ Env[t].input = "cpp"
    BY DEF Copying, TypeInv, Locals, Compile
  <1>2. Has(fs, ITmp(t)) => Data(fs, ITmp(t)).of = key[t]
    <2>1. Has(fs, ITmp(t)) => Data(fs, ITmp(t)) \in Allowed(pc, key)[ITmp(t)]
      BY DataConforms DEF RightInv
    <2> QED BY <1>1, <2>1, OwnAllowed DEF IsBusy
  <1>3. read' = [read EXCEPT ![t] = key[t]]
    BY <1>1, <1>2 DEF Compile
  <1>4. \/ /\ pc' = [pc EXCEPT ![t] = "status"]
           /\ \E s \in Failing(fs, t, key[t]) : fs' = Logged(s, t, key[t])
        \/ /\ pc' = [pc EXCEPT ![t] = "write"]
           /\ fs' = WriteOuts(fs, t, key[t], FALSE)
    BY <1>1, <1>2 DEF Compile, Goto, Failing
  <1>5. Onward(t)
    BY <1>1, <1>4 DEF Onward, Busy, IsBusy, Compiled, IsCompiled
  <1>6. Conforms(fs, Names, AnyData, Allowed(pc', key')) /\ Own(fs)
    BY <1>5, StillAllowed DEF RightInv
  <1>7. ~IsCompiled(pc'[t]) /\ key'[t] = key[t]
    BY <1>1, <1>4 DEF IsCompiled
  <1>8. \A s \in Failing(fs, t, key[t]) :
            Conforms(s, Names, AnyData, Allowed(pc', key')) /\ Own(s)
    BY <1>1, <1>6, <1>7, WritingRight DEF Failing
  <1>9. RightFs
    <2>1. \A s \in Failing(fs, t, key[t]) :
              /\ Conforms(Logged(s, t, key[t]), Names, AnyData, Allowed(pc', key'))
              /\ Own(Logged(s, t, key[t]))
      BY <1>1, <1>7, <1>8, LoggingRight
    <2>2. /\ Conforms(WriteOuts(fs, t, key[t], FALSE), Names, AnyData, Allowed(pc', key'))
          /\ Own(WriteOuts(fs, t, key[t], FALSE))
      BY <1>1, <1>6, <1>7, WritingRight
    <2> QED BY <1>4, <2>1, <2>2 DEF RightFs
  <1>10. NoLinks' /\ Written'
    BY <1>1, <1>3, <1>4 DEF RightInv, NoLinks, Written
  <1> QED BY <1>9, <1>10 DEF RightInv, RightFs

\* The compiler ends: from here on the outputs are whole and of the version
\* that was hashed.
LEMMA CompileEndRight ==
    ASSUME TypeInv, RightInv, NEW t \in Tree, CompileEnd(t)
    PROVE  RightInv'
  <1> DEFINE w == WriteOuts(fs, t, key[t], TRUE)
  <1>1. /\ pc \in [Tree -> Labels] /\ key[t] \in Key /\ pc[t] = "write"
        /\ UNCHANGED <<key, read>> /\ pc' = [pc EXCEPT ![t] = "stdout"]
        /\ read[t] = key[t] /\ fs' = Logged(w, t, key[t])
    BY DEF TypeInv, Locals, CompileEnd, Goto, RightInv, Written
  <1>2. \A u \in Tree : /\ IsBusy(pc'[u]) => IsBusy(pc[u])
                        /\ u # t /\ IsCompiled(pc'[u]) => IsCompiled(pc[u])
    BY <1>1 DEF IsBusy, IsCompiled
  <1>3. ASSUME NEW n \in Names \ Outs(t), NEW d \in RightData(pc, key, n)
        PROVE  d \in RightData(pc', key', n)
    <2>1. \A i \in Files : n # Out(t, i)
      BY DEF Outs
    <2> QED BY <1>1, <1>2, <2>1 DEF RightData
  <1>4. \A n \in Names \ Outs(t) : Allowed(pc, key)[n] \subseteq Allowed(pc', key')[n]
    BY <1>3 DEF Allowed
  <1>5. ASSUME NEW i \in Files
        PROVE  [Output(key[t], i) EXCEPT !.whole = TRUE] \in Allowed(pc', key')[Out(t, i)]
    <2> DEFINE d == [Output(key[t], i) EXCEPT !.whole = TRUE]
    <2>1. d \in OutData /\ d.part = i /\ d.of = key[t] /\ d.whole
      BY <1>1 DEF Output, OutData
    <2>2. IsCompiled(pc'[t]) /\ key'[t] = key[t]
      BY <1>1 DEF IsCompiled
    <2> HIDE DEF d
    <2>3. d \in Allowed(pc', key')[Out(t, i)]
      BY <2>1, <2>2, OutAllowed
    <2> QED BY <2>3 DEF d
  <1>6. Conforms(w, Names, AnyData, Allowed(pc', key')) /\ Own(w)
    BY <1>1, <1>4, <1>5, WriteOutsRight DEF RightInv
  <1> HIDE DEF w
  <1>7. RightFs
    BY <1>1, <1>6, LoggingRight DEF RightFs
  <1>8. NoLinks' /\ Written'
    BY <1>1 DEF RightInv, NoLinks, Written
  <1> QED BY <1>7, <1>8 DEF RightInv, RightFs

\* A new run, on the version that the source has now.
LEMMA FindHashRight ==
    ASSUME TypeInv, RightInv, NEW t \in Tree, FindHash(t)
    PROVE  RightInv'
  <1> DEFINE s == Remove(fs, Temps(t) \cup Tmps(t))
             d == [of |-> source[t]]
             a == IF Env[t].input = "direct" THEN s ELSE Create(s, ITmp(t), d)
             b == IF Env[t].input = "cpp2" THEN a ELSE Create(a, Cpp(t), d)
  <1>1. /\ pc \in [Tree -> Labels] /\ source[t] \in Key /\ key \in [Tree -> Key]
        /\ read \in [Tree -> Key]
        /\ pc[t] = "idle" /\ key' = [key EXCEPT ![t] = source[t]]
        /\ read' = [read EXCEPT ![t] = source[t]]
        /\ \E l \in {"exec", "open"} : pc' = [pc EXCEPT ![t] = l]
    BY DEF TypeInv, Locals, FindHash, Goto
  <1>2. fs' = s \/ fs' = b
    BY DEF FindHash
  <1>3. Conforms(s, Names, AnyData, Allowed(pc, key)) /\ Own(s)
    BY RemoveConforms, OwnRemove DEF RightInv
  <1>4. ASSUME NEW f \in s, NEW n \in f.names
        PROVE  n \in Names /\ n \notin Temps(t) \cup Tmps(t)
    <2>1. Has(s, n)
      BY DEF Has
    <2>2. n \notin Temps(t) \cup Tmps(t)
      BY <2>1, HasRemove DEF RightInv
    <2> QED BY <1>3, <2>2 DEF Conforms
  <1>5. ASSUME NEW n \in Names \ (Temps(t) \cup Tmps(t)), NEW e \in RightData(pc, key, n)
        PROVE  e \in RightData(pc', key', n)
    <2>1. n \notin {ITmp(t), CErr(t)} \cup Tmps(t)
      BY DEF Temps
    <2>2. ~IsCompiled(pc'[t])
      BY <1>1 DEF IsCompiled
    <2>3. \A u \in Tree \ {t} : pc'[u] = pc[u] /\ key'[u] = key[u]
      BY <1>1
    <2> QED BY <2>1, <2>2, <2>3 DEF RightData
  <1>6. Conforms(s, Names, AnyData, Allowed(pc', key'))
    <2>1. \A f \in s : \A n \in f.names :
              f.data \in Allowed(pc, key)[n] => f.data \in Allowed(pc', key')[n]
      BY <1>4, <1>5 DEF Allowed
    <2> QED BY <1>3, <2>1, WeakenConforms
  <1> HIDE DEF s
  <1>7. d \in AnyData /\ d \in TextData /\ d.of = key'[t]
    BY <1>1 DEF AnyData, TextData
  <1>8. ITmp(t) \in Names /\ Cpp(t) \in Names
    BY DEF Names, Temps
  <1>9. d \in Allowed(pc', key')[ITmp(t)]
    BY <1>7, OwnAllowed
  <1>10. d \in Allowed(pc', key')[Cpp(t)]
    BY <1>1, <1>7, PlainAllowed
  <1> HIDE DEF d
  <1>11. Conforms(a, Names, AnyData, Allowed(pc', key')) /\ Own(a)
    BY <1>3, <1>6, <1>7, <1>8, <1>9, CreateConforms, OwnCreate
  <1> HIDE DEF a
  <1>12. Conforms(b, Names, AnyData, Allowed(pc', key')) /\ Own(b)
    BY <1>7, <1>8, <1>10, <1>11, CreateConforms, OwnCreate
  <1>13. RightFs
    BY <1>2, <1>3, <1>6, <1>12 DEF RightFs
  <1>14. NoLinks' /\ Written'
    BY <1>1 DEF RightInv, NoLinks, Written
  <1> QED BY <1>13, <1>14 DEF RightInv, RightFs

\* failed(): the compiler writes its outputs, whatever they were.
LEMMA ExecRight ==
    ASSUME TypeInv, RightInv, NEW t \in Tree, Exec(t) \/ ExecEnd(t)
    PROVE  RightInv'
  <1>1. /\ pc \in [Tree -> Labels] /\ source[t] \in Key /\ read[t] \in Key
        /\ key \in [Tree -> Key] /\ read \in [Tree -> Key]
    BY DEF TypeInv, Locals
  <1>2. /\ \A u \in Tree \ {t} : read'[u] = read[u] /\ key'[u] = key[u]
        /\ \E l \in {"execend", "idle"} : Goes(t, l)
    BY <1>1 DEF Exec, ExecEnd, End, Goto, Goes, IsBusy, IsCompiled
  <1>3. Conforms(fs, Names, AnyData, Allowed(pc', key')) /\ Own(fs)
    BY <1>2, GoesOnward, StillAllowed DEF RightInv
  <1>4. ~IsCompiled(pc'[t])
    BY <1>1, <1>2 DEF Goes, IsCompiled
  <1>5. PICK s \in {fs, Remove(fs, {ITmp(t), Cpp(t)})}, v \in Key, done \in BOOLEAN :
            fs' = s \/ fs' = WriteOuts(s, t, v, done)
    BY <1>1 DEF Exec, ExecEnd, Failing
  <1>6. Conforms(s, Names, AnyData, Allowed(pc', key')) /\ Own(s)
    BY <1>3, RemoveConforms, OwnRemove
  <1>7. RightFs
    BY <1>4, <1>5, <1>6, WritingRight DEF RightFs
  <1> QED BY <1>2, <1>7, GoesRight

\* The surroundings of the drivers.
LEMMA OutsideRight ==
    ASSUME RightInv,
           \/ \E t \in Tree : Edit(t)
           \/ Clean \/ Wipe \/ UNCHANGED vars
    PROVE  RightInv'
  <1>1. UNCHANGED <<pc, key, read>> /\ (fs' = fs \/ \E ns : fs' = Remove(fs, ns))
    BY DEF Edit, Clean, Wipe, vars
  <1>2. Conforms(fs', Names, AnyData, Allowed(pc, key)) /\ Own(fs')
    BY <1>1, RemoveConforms, OwnRemove DEF RightInv
  <1> QED BY <1>1, <1>2 DEF RightInv, NoLinks, Written

-----------------------------------------------------------------------------
LEMMA NextRight ==
    ASSUME Copying, TypeInv, RightInv, [Next]_vars
    PROVE  RightInv'
  <1>1. ASSUME NEW t \in Tree, Step(t) PROVE RightInv'
    BY <1>1, RemovingStepRight, OpenStderrRight, NoLinkRight, RetrieveCopyRight,
       CompileRight, CompileEndRight, CopyToTmpRight, CopyRenameRight, PutRight,
       ExecRight DEF Step, Removing
  <1>2. ASSUME NEW t \in Tree, Crash(t) PROVE RightInv'
    BY <1>2, RemovingStepRight DEF Removing
  <1> QED BY <1>1, <1>2, FindHashRight, OutsideRight DEF Next

LEMMA InitRight == Init => RightInv
  BY DEF Init, RightInv, NoLinks, Written, Own, Conforms

\* When every driver copies and compiles what it hashed, a file under its
\* final name in the cache is complete and belongs to the version that the
\* name stands for: from_cache() cannot deliver another version's output,
\* whatever other drivers, cleanups, editors and crashes do in between.
THEOREM CacheStaysRight ==
    ASSUME Copying
    PROVE  Spec => []CacheRight
  <1> DEFINE I == TypeInv /\ RightInv
  <1>1. Init => I
    BY InitTypeInv, InitRight
  <1>2. I /\ [Next]_vars => I'
    BY NextTypeInv, NextRight
  <1>3. I => CacheRight
    BY RightInvImpliesCacheRight
  <1> QED BY <1>1, <1>2, <1>3, PTL DEF Spec
=============================================================================
