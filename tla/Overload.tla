------------------------------ MODULE Overload ------------------------------
(***************************************************************************)
(* How overloaded methods are told apart: Source/Modules/overload.cxx.     *)
(* Swig_overload_rank() sorts the declarations of a name and marks those   *)
(* that others shadow; the dispatch functions then test the arguments of a *)
(* call in that order.                                                     *)
(***************************************************************************)
EXTENDS Naturals, Sequences

CONSTANTS
    precedence,   \* precedence[t]: tmap:typecheck:precedence of type t
    Derived,      \* <<t1, t2>>: t1 is a class derived from t2
    Argument,     \* the arguments that can be told apart
    typecheck,    \* typecheck[t]: tmap:typecheck of type t, the text of a test
    Checks,       \* Checks[c]: the arguments that pass the test c
    MaxArgs,      \* bound: arguments of a call
    Signature,    \* the declarations that may stand in the interface file
    nnodes        \* as many have the name

\* Declarations have types with a typecheck rule, and only parameters behind the
\* required ones have default arguments; a name with one declaration is not overloaded.
ASSUME SignatureAssumption ==
    /\ \A t \in DOMAIN precedence : precedence[t] \in Nat
    /\ \A d \in Signature : /\ d.parms \in Seq(DOMAIN precedence)
                            /\ d.req \in 0..Len(d.parms)
    /\ nnodes \in Nat /\ nnodes >= 2
    /\ MaxArgs \in Nat

\* cplus_inherit_types() records a class as derived from the bases of its bases.  Pointers
\* and references to classes have precedence 0.
ASSUME DerivedAssumption ==
    /\ \A t \in DOMAIN precedence : <<t, t>> \notin Derived
    /\ \A t, u, w \in DOMAIN precedence :
          <<t, u>> \in Derived /\ <<u, w>> \in Derived => <<t, w>> \in Derived
    /\ \A t, u \in DOMAIN precedence :
          <<t, u>> \in Derived => precedence[t] = 0 /\ precedence[u] = 0

VARIABLES
    decl,         \* the declarations of one name in the order of the file
    nodes,        \* the same as nodes[], indices of decl
    error,        \* the declarations that are marked as shadowed
    script,       \* script_lang_wrapping
    sort,         \* "argc", "types", "done"
    left, right   \* i and j of the loops, from 1

rankVars == <<decl, nodes, error, script, sort, left, right>>

-----------------------------------------------------------------------------
Node(k) == decl[nodes[k]]

RankInit ==
    /\ decl \in [1..nnodes -> Signature]
    /\ \A k, l \in 1..nnodes : k # l => \/ decl[k].parms # decl[l].parms
                                        \/ decl[k].const # decl[l].const
    /\ nodes = [k \in 1..nnodes |-> k]
    /\ error = {}
    /\ script \in BOOLEAN
    /\ sort = "argc" /\ left = 1 /\ right = 2

\* the two loops over pairs i < j
Turn ==
    IF right < nnodes THEN right' = right + 1 /\ UNCHANGED <<left, sort>>
    ELSE IF left < nnodes - 1 THEN left' = left + 1 /\ right' = left + 2 /\ UNCHANGED sort
    ELSE left' = 1 /\ right' = 2 /\ sort' = IF sort = "argc" THEN "types" ELSE "done"

Exchange == nodes' = [nodes EXCEPT ![left] = nodes[right], ![right] = nodes[left]]

\* "Sort the declarations by required argument count"
SortArgc ==
    /\ sort = "argc" /\ Turn
    /\ IF Node(left).req > Node(right).req THEN Exchange ELSE UNCHANGED nodes
    /\ UNCHANGED <<decl, error, script>>

\* mutant of Differ: any other type tells them apart
Differ_Types(p, q) == {k \in 1..p.req : p.parms[k] # q.parms[k]}

\* the parameters that tell two declarations with as many required ones apart: of
\* other precedence, or of another class
Differ(p, q) ==
    {k \in 1..p.req :
        \/ precedence[p.parms[k]] # precedence[q.parms[k]]
        \/ precedence[p.parms[k]] = 0 /\ p.parms[k] # q.parms[k]}

Least(S) == CHOOSE k \in S : \A l \in S : k <= l

\* mutant of Before: the classes are not looked at
Before_NoSubtype(q, p) ==
    LET D == Differ(p, q)
    IN D # {} /\ precedence[p.parms[Least(D)]] > precedence[q.parms[Least(D)]]

\* should q stand before p?  The first of them decides
Before(q, p) ==
    LET D == Differ(p, q)
        s == p.parms[Least(D)]
        t == q.parms[Least(D)]
    IN D # {} /\ (precedence[s] > precedence[t] \/ <<t, s>> \in Derived)

\* declarations that differ by const only: a script language keeps the other one
ConstOnly(p, q) == p.parms = q.parms /\ p.const /\ ~q.const

\* "Sort the declarations by argument types"
SortTypes ==
    /\ sort = "types" /\ Turn
    /\ LET p == Node(left)
           q == Node(right)
           shadows == Differ(p, q) = {}
           exchange == Before(q, p) \/ (shadows /\ script /\ ConstOnly(p, q))
       IN IF p.req # q.req THEN UNCHANGED <<nodes, error>>
          ELSE /\ IF exchange THEN Exchange ELSE UNCHANGED nodes
               /\ error' = error \cup (IF shadows THEN {nodes'[right]} ELSE {})
    /\ UNCHANGED <<decl, script>>

RankNext == SortArgc \/ SortTypes

RankSpec == RankInit /\ [][RankNext]_rankVars

-----------------------------------------------------------------------------
(***************************************************************************)
(* The code that is made of the ranking, as functions of a call.           *)
(***************************************************************************)
InRange(n, d) == d.req <= n /\ n <= Len(d.parms)

Accepts(d, v, ks) == \A k \in ks : v[k] \in Checks[typecheck[d.parms[k]]]

\* 0: no declaration takes the call
FirstOf(S) == IF S = {} THEN 0 ELSE nodes[Least(S)]

\* Swig_overload_dispatch()
Dispatch(v) ==
    FirstOf({k \in DOMAIN nodes : InRange(Len(v), Node(k)) /\ Accepts(Node(k), v, DOMAIN v)})

\* the wrappers that "collide with the current one based on argument number"
Colliders(k) ==
    {l \in (k + 1)..nnodes :
        LET p == Node(k)
            q == Node(l)
        IN \/ InRange(q.req, p)
           \/ InRange(Len(q.parms), p)
           \/ q.req <= p.req /\ Len(q.parms) >= Len(p.parms)}

CheckOf(k, n) == typecheck[Node(k).parms[n]]

\* mutant of TypeChecked: a check is emitted when all of them make another one
TypeChecked_All(k) ==
    {n \in DOMAIN Node(k).parms :
        \A l \in Colliders(k) :
            n <= Len(Node(l).parms) /\ CheckOf(l, n) # CheckOf(k, n)}

\* a check is left out when all of them make the same one
TypeChecked(k) ==
    {n \in DOMAIN Node(k).parms :
        \E l \in Colliders(k) :
            n <= Len(Node(l).parms) /\ CheckOf(l, n) # CheckOf(k, n)}

\* Swig_overload_dispatch_fast()
FastDispatch(v) ==
    FirstOf({k \in DOMAIN nodes :
        InRange(Len(v), Node(k)) /\ Accepts(Node(k), v, TypeChecked(k) \cap DOMAIN v)})

-----------------------------------------------------------------------------
\* The list holds each declaration once.
RankTypeOK ==
    /\ decl \in [1..nnodes -> Signature]
    /\ nodes \in [1..nnodes -> 1..nnodes]
    /\ \A k \in 1..nnodes : \E l \in 1..nnodes : nodes[l] = k
    /\ error \subseteq 1..nnodes /\ script \in BOOLEAN
    /\ sort \in {"argc", "types", "done"}
    /\ left \in 1..(nnodes - 1) /\ right \in (left + 1)..nnodes

Calls == UNION {[1..n -> Argument] : n \in 0..MaxArgs}

Matching(v) ==
    {k \in DOMAIN decl : InRange(Len(v), decl[k]) /\ Accepts(decl[k], v, DOMAIN v)}

\* -fastdispatch leaves out checks: a call that some declaration takes still goes
\* to the one that the full dispatch function finds.
FastIsRight ==
    sort = "done" => \A v \in Calls : Matching(v) # {} => FastDispatch(v) = Dispatch(v)

MoreSpecific(d, e) ==
    \E n \in 1..e.req :
        /\ Differ(d, e) \cap 1..(n - 1) = {}
        /\ \/ precedence[d.parms[n]] < precedence[e.parms[n]]
           \/ <<d.parms[n], e.parms[n]>> \in Derived

\* SWIGPlus.html:1938: of the declarations that take a call, none with as many
\* required parameters is for a class derived from the one that is used, unless an
\* earlier parameter is for something else.
MostSpecific ==
    sort = "done" =>
        \A v \in Calls : LET k == Dispatch(v) IN
            k # 0 => \A l \in Matching(v) :
                decl[l].req = decl[k].req => ~MoreSpecific(decl[l], decl[k])

\* the warnings 509, 512 and 516: a declaration nobody is warned about is the one
\* that some call is sent to (of declarations without default arguments).
NoneLostSilently ==
    sort = "done" /\ (\A d \in DOMAIN decl : decl[d].req = Len(decl[d].parms)) =>
        \A k \in DOMAIN decl \ error : \E v \in Calls : Dispatch(v) = k
=============================================================================
