----------------------------- MODULE NameTables -----------------------------
(***************************************************************************)
(* The tables behind %rename, %ignore and %feature (Source/Swig/naming.c), *)
(* and the hash tables they are kept in (Source/DOH/hash.c).               *)
(*                                                                         *)
(* A directive names a member of a class ("B::f"), of any class ("*::f"),  *)
(* a global ("::f") or whatever has the name ("f"), perhaps with a         *)
(* declarator.  A class copies the entries of its bases when it is parsed: *)
(* Swig_name_object_inherit() walks through the table and adds to it.  A   *)
(* table holds entries [declarator -> object]; the object of a directive   *)
(* is its number, %clear... leaves an entry with nothing in it.            *)
(***************************************************************************)
EXTENDS Integers, SequencesExt

CONSTANTS
    Class, Base,        \* classes, and the bases of each in their order
    Member, Decl,       \* names of members, declarators
    Named,              \* the names that directives have, a subset of Key
    Hashval,            \* [Key -> Nat], the hash values of the names
    HASH_INIT_SIZE,     \* 7 in the code
    MaxEntries          \* bound: directives

Prefix == Class \cup {"", "::", "*"}
Key    == Prefix \X Member
start  == "start"       \* stands for no declarator
Cleared == << >>    \* an entry of %clear...
Free   == <<"", "">>    \* no node

VARIABLES
    size, chain,        \* hashsize, and the keys in each bucket
    item,               \* [keys in the table -> [declarators -> objects]]
    todo,               \* the classes that remain to be parsed
    loops,              \* <<base, derived>> for each Swig_name_object_inherit() to come
    index, current,     \* the iterator of the one that runs
    given,              \* history: the directives, as item
    grown               \* history: the table was resized in a loop

vars == <<size, chain, item, todo, loops, index, current, given, grown>>

Nodes == UNION {ToSet(chain[b]) : b \in DOMAIN chain}

NamesTypeOK ==
    /\ size \in Nat \ {0} /\ DOMAIN chain = 0..(size - 1)
    /\ Nodes \subseteq Key /\ Nodes = DOMAIN item /\ DOMAIN given \subseteq Key
    /\ \A k \in DOMAIN item : DOMAIN item[k] \subseteq Decl \cup {start}
    /\ todo \in SUBSET Class
    /\ \A l \in ToSet(loops) : l \in Class \X Class
    /\ index \in -1..size /\ current \in Key \cup {Free} /\ grown \in BOOLEAN

Init ==
    /\ size = HASH_INIT_SIZE /\ chain = [b \in 0..(HASH_INIT_SIZE - 1) |-> << >>]
    /\ item = << >> /\ todo = Class /\ loops = << >>
    /\ index = -1 /\ current = Free /\ given = << >> /\ grown = FALSE

-----------------------------------------------------------------------------
(***************************************************************************)
(* Hash tables.                                                            *)
(***************************************************************************)
Prime(n) == \A p \in 3..((n \div 2) - 1) : p % 2 = 1 => n % p # 0
NewSize(n) == CHOOSE m \in (2 * n + 1)..(4 * n + 9) :
                  /\ m % 2 = 1 /\ Prime(m)
                  /\ \A k \in (2 * n + 1)..(m - 1) : k % 2 = 1 => ~Prime(k)

\* mutant of Rehashed: the buckets keep their nodes
Rehashed_Stays(c, n) == [b \in 0..(n - 1) |-> IF b \in DOMAIN c THEN c[b] ELSE << >>]

\* resize(): bucket by bucket, each node goes to the front of its new one
Rehashed(c, n) ==
    LET nodes == FlattenSeq([b \in 1..size |-> c[b - 1]])
    IN [b \in 0..(n - 1) |-> Reverse(SelectSeq(nodes, LAMBDA k : Hashval[k] % n = b))]

\* Hash_setattr() appends a new key to its bucket
Insert(k) ==
    LET b == Hashval[k] % size
        longer == [chain EXCEPT ![b] = Append(@, k)]
    IN IF k \in ToSet(chain[b]) THEN UNCHANGED <<size, chain>>
       ELSE IF Cardinality(Nodes) + 1 < 2 * size THEN chain' = longer /\ UNCHANGED size
       ELSE size' = NewSize(size) /\ chain' = Rehashed(longer, NewSize(size))

Put(k, objects) == item' = (k :> objects) @@ item
At(table, k) == IF k \in DOMAIN table THEN table[k] ELSE << >>

-----------------------------------------------------------------------------
(***************************************************************************)
(* Directives and classes.  Directives for a class come before it.         *)
(***************************************************************************)
\* Swig_name_object_set() and Swig_feature_set()
Directive(k, d, object) ==
    /\ loops = << >> /\ (k[1] \in Class => k[1] \in todo)
    /\ Cardinality({<<j, e>> \in Named \X (Decl \cup {start}) : e \in DOMAIN At(given, j)}) < MaxEntries
    /\ d \notin DOMAIN At(given, k)
    /\ Insert(k) /\ Put(k, (d :> object) @@ At(item, k))
    /\ given' = (k :> ((d :> object) @@ At(given, k))) @@ given
    /\ UNCHANGED <<todo, loops, index, current, grown>>

\* make_inherit_list(): Swig_name_inherit() for every base
ParseClass(c) ==
    /\ loops = << >> /\ c \in todo /\ ToSet(Base[c]) \cap todo = {}
    /\ todo' = todo \ {c}
    /\ loops' = [i \in 1..Len(Base[c]) |-> <<Base[c][i], c>>]
    /\ UNCHANGED <<size, chain, item, index, current, given, grown>>

\* Hash_nextiter(): the rest of the bucket, then the next one that is not empty
NextBucket == LET more == {b \in (index + 1)..(size - 1) : chain[b] # << >>}
              IN IF more = {} THEN size ELSE CHOOSE b \in more : \A c \in more : b <= c
After(k) == LET c == CHOOSE c \in Range(chain) : k \in ToSet(c)
                n == CHOOSE n \in DOMAIN c : c[n] = k
            IN IF n = Len(c) THEN Free ELSE c[n + 1]

\* mutant of Inherited: the entries of a later base win
Copied_Over(mine, theirs) == theirs @@ mine
\* the entries of a base that the derived class does not have
Copied(mine, theirs) == mine @@ theirs

\* one turn of the loop in Swig_name_object_inherit()
Visit ==
    LET k == IF current # Free THEN current ELSE chain[NextBucket][1]
        copy == <<loops[1][2], k[2]>> IN
    /\ loops # << >> /\ (current # Free \/ NextBucket < size)
    /\ index' = IF current # Free THEN index ELSE NextBucket
    /\ current' = After(k)
    /\ IF k[1] = loops[1][1]
       THEN Insert(copy) /\ Put(copy, Copied(At(item, copy), item[k]))
       ELSE UNCHANGED <<size, chain, item>>
    /\ grown' = (grown \/ size' # size)
    /\ UNCHANGED <<todo, loops, given>>

LoopEnds ==
    /\ loops # << >> /\ current = Free /\ NextBucket = size
    /\ loops' = Tail(loops) /\ index' = -1
    /\ UNCHANGED <<size, chain, item, todo, current, given, grown>>

Next ==
    \/ \E k \in Named, d \in Decl \cup {start} : \E object \in {Cleared, <<k[1], k[2], d>>} :
           Directive(k, d, object)
    \/ \E c \in Class : ParseClass(c)
    \/ Visit \/ LoopEnds

Spec == Init /\ [][Next]_vars

-----------------------------------------------------------------------------
(***************************************************************************)
(* Lookups, for a declaration of a class or (prefix "::") of no class.     *)
(***************************************************************************)
\* name_object_get(): the declarator first, then the entry without one
Entry(k, d) ==
    LET found == SelectSeq(<<d, start>>, LAMBDA e : e \in DOMAIN At(item, k))
    IN IF found = << >> THEN Cleared ELSE item[k][found[1]]

\* Swig_name_object_get()
Swig_name_object_get(p, m, d) ==
    LET keys == (IF p \in Class THEN <<<<p, m>>, <<"*", m>>>> ELSE <<<<"::", m>>>>) \o <<<<"", m>>>>
        found == SelectSeq(keys, LAMBDA k : Entry(k, d) # Cleared)
    IN IF found = << >> THEN Cleared ELSE Entry(found[1], d)

\* Swig_features_get(), merge_features(): what comes later replaces what was there
Merged(keys, d) ==
    LET objects == FlattenSeq([n \in 1..Len(keys) |->
                       [e \in 1..2 |-> LET f == <<start, d>>[e] IN
                            IF f \in DOMAIN At(item, keys[n]) THEN item[keys[n]][f] ELSE Cleared]])
        there == SelectSeq(objects, LAMBDA o : o # Cleared)
    IN IF there = << >> THEN Cleared ELSE Last(there)

\* mutant of Swig_features_get: "*::f" comes last
Swig_features_get_Star(p, m, d) ==
    Merged(<<<<"", m>>>> \o (IF p \in Class THEN <<<<p, m>>, <<"*", m>>>> ELSE <<<<"::", m>>>>), d)

Swig_features_get(p, m, d) ==
    Merged(<<<<"", m>>>> \o (IF p \in Class THEN <<<<"*", m>>, <<p, m>>>> ELSE <<<<"::", m>>>>), d)

-----------------------------------------------------------------------------
(***************************************************************************)
(* Properties.                                                             *)
(***************************************************************************)
\* hash.c: a key stands in its bucket, once, however often the table was resized.
KeysAreFound ==
    \A k \in Nodes : \A b \in DOMAIN chain :
        Len(SelectSeq(chain[b], LAMBDA j : j = k)) = IF b = Hashval[k] % size THEN 1 ELSE 0

\* SWIGPlus.html:2380 "the first renaming rule found on a depth-first traversal of the
\* class hierarchy is used": the loops through the table give this, if it does not grow
\* meanwhile.
DepthFirst[c \in Class] ==
    <<c>> \o FlattenSeq([i \in 1..Len(Base[c]) |-> DepthFirst[Base[c][i]]])

BasesAreInherited ==
    loops = << >> /\ ~grown =>
        \A c \in Class \ todo, m \in Member, d \in Decl \cup {start} :
            LET rules == SelectSeq(DepthFirst[c], LAMBDA x : d \in DOMAIN At(given, <<x, m>>))
            IN IF rules = << >> THEN d \notin DOMAIN At(item, <<c, m>>)
               ELSE d \in DOMAIN At(item, <<c, m>>) /\ item[<<c, m>>][d] = given[<<rules[1], m>>][d]

\* SWIGPlus.html:2345 "Name matching tries to find the most specific match": the scope
\* counts before the declarator; %rename and %feature follow the same rules.
MostSpecific ==
    loops = << >> =>
    \A p \in Class \cup {"::"}, m \in Member, d \in Decl :
        LET scope == IF p \in Class THEN <<"", "*", p>> ELSE <<"", "::">>
            decl  == <<start, d>>
            Object(r) == item[<<scope[r[1]], m>>][decl[r[2]]]
            rules == {r \in (DOMAIN scope) \X {1, 2} :
                          /\ decl[r[2]] \in DOMAIN At(item, <<scope[r[1]], m>>)
                          /\ Object(r) # Cleared}
            best == CHOOSE r \in rules : \A q \in rules : 2 * q[1] + q[2] <= 2 * r[1] + r[2]
            object == IF rules = {} THEN Cleared ELSE Object(best)
        IN /\ Swig_features_get(p, m, d) = object
           /\ (\A k \in Key : Cleared \notin Range(At(item, k)))
                  => Swig_name_object_get(p, m, d) = object
=============================================================================
