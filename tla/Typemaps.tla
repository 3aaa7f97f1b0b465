------------------------------ MODULE Typemaps ------------------------------
(***************************************************************************)
(* The typemaps of SWIG, Source/Swig/typemap.c: the directives that enter, *)
(* clear and copy them, and the search for the typemap of a parameter.     *)
(* A typemap is stored for a method and the types and names of one or more *)
(* parameters; the table is keyed by both at once, which is what the       *)
(* "tmap:in-int+foo:" keys of the nested hash tables amount to.            *)
(***************************************************************************)
EXTENDS Naturals, Sequences, SequencesExt

CONSTANTS
    TmapMethod,       \* "in", "check", ...
    TmapCode,         \* codes of typemaps
    SwigType, Name,   \* a parameter is <<type, name>>; NoName is a name
    Resolved,         \* Resolved[t]: {}, or the type that t is a typedef of
    OwnTypes,         \* OwnTypes[p]: what typemap_search() looks at for a parameter, in
                      \* this order: its type and what that reduces to
    DefaultTypes,     \* DefaultTypes[p]: and behind these, its default types
    Parms,            \* lists of parameters that directives name
    Asked,            \* lists of parameters that a typemap is looked for
    MaxDirectives     \* bound: directives in the interface file

NoCode == "no code"
NoNode == "no node"
NoName == ""

Parm == SwigType \X Name

\* The search begins with the parameter as it is.
ASSUME TypemapAssumption ==
    /\ NoCode \notin TmapCode /\ NoNode \notin TmapCode
    /\ NoName \in Name
    /\ Resolved \in [SwigType -> SUBSET SwigType]
    /\ OwnTypes \in [Parm -> Seq(Parm)] /\ DefaultTypes \in [Parm -> Seq(Parm)]
    /\ \A p \in Parm : OwnTypes[p] # <<>> /\ OwnTypes[p][1] = p
    /\ Parms \subseteq Seq(Parm) \ {<<>>}
    /\ Asked \subseteq Seq(Parm)
    /\ MaxDirectives \in Nat

VARIABLES
    tmaps,       \* <<method, parameters>> -> a code, or NoCode when the node has none
    types,       \* the nodes of the tables [type] and [type][name], as parameters
    rules,       \* history: the typemaps that the directives have put in force
    applied,     \* history: was the last directive %apply?
    directives   \* their number

mapVars == <<tmaps, types, rules, applied, directives>>

-----------------------------------------------------------------------------
MapInit ==
    /\ tmaps = [k \in {} |-> NoCode] /\ rules = [k \in {} |-> NoCode]
    /\ types = {} /\ applied = FALSE /\ directives = 0

get_typemap(k) == IF k \in DOMAIN tmaps THEN tmaps[k] ELSE NoNode

\* set_typemap(): the nodes for the parameters
NodesFor(ps) == UNION {{p, <<p[1], NoName>>} : p \in ToSet(ps)}

\* a node for every leading part
Leading(m, ps) == {<<m, SubSeq(ps, 1, n)>> : n \in 1..Len(ps)}

\* Swig_typemap_register(): the code goes into the last node
Registered(m, ps, code) ==
    [k \in DOMAIN tmaps \cup Leading(m, ps) |->
        IF k = <<m, ps>> THEN code ELSE IF k \in DOMAIN tmaps THEN tmaps[k] ELSE NoCode]

InForce(k, code) ==
    IF code = NoCode THEN Restrict(rules, DOMAIN rules \ {k})
    ELSE [l \in DOMAIN rules \cup {k} |-> IF l = k THEN code ELSE rules[l]]

Directive(apply) ==
    /\ directives < MaxDirectives
    /\ directives' = directives + 1
    /\ applied' = apply

\* %typemap(m) ps { code }
Register(m, ps, code) ==
    /\ Directive(FALSE)
    /\ tmaps' = Registered(m, ps, code)
    /\ types' = types \cup NodesFor(ps)
    /\ rules' = InForce(<<m, ps>>, code)

\* %typemap(m) ps;  Swig_typemap_clear()
Clear(m, ps) ==
    /\ Directive(FALSE) /\ <<m, ps>> \in DOMAIN tmaps
    /\ tmaps' = [tmaps EXCEPT ![<<m, ps>>] = NoCode]
    /\ rules' = InForce(<<m, ps>>, NoCode)
    /\ UNCHANGED types

\* %typemap(m) ps = src;  Swig_typemap_copy()
Copy(m, src, ps) ==
    /\ Directive(FALSE) /\ Len(src) = Len(ps) /\ <<m, src>> \in DOMAIN tmaps
    /\ tmaps' = Registered(m, ps, tmaps[<<m, src>>])
    /\ types' = types \cup NodesFor(ps)
    /\ rules' = InForce(<<m, ps>>, tmaps[<<m, src>>])

\* the parameters that %apply takes the typemaps of: when the last one's type and
\* name have no node, the type that it is a typedef of
Source(src) ==
    IF Last(src) \in types \/ Resolved[Last(src)[1]] = {} THEN src
    ELSE Append(Front(src), <<CHOOSE t \in Resolved[Last(src)[1]] : TRUE, Last(src)[2]>>)

\* %apply src { ps };  Swig_typemap_apply().  The test that the target has no code yet
\* looks at the node of the parameter, which never has any.
Apply(src, ps) ==
    LET from == Source(src)
        ms   == {m \in TmapMethod : get_typemap(<<m, from>>) \in TmapCode}
        Over(f, others) == [k \in DOMAIN f \cup others |->
            IF \E m \in ms : k = <<m, ps>> THEN tmaps[<<k[1], from>>]
            ELSE IF k \in DOMAIN f THEN f[k] ELSE NoCode]
    IN /\ Directive(TRUE) /\ Len(src) = Len(ps)
       /\ tmaps' = Over(tmaps, UNION {Leading(m, ps) : m \in ms})
       /\ rules' = Over(rules, {<<m, ps>> : m \in ms})
       /\ types' = types \cup NodesFor(<<Last(ps)>>) \cup (IF ms = {} THEN {} ELSE NodesFor(ps))

\* %clear ps;  Swig_typemap_clear_apply()
ClearApply(ps) ==
    /\ Directive(FALSE)
    /\ LET ks == {<<m, ps>> : m \in TmapMethod} \cap DOMAIN tmaps
       IN /\ ks # {}
          /\ tmaps' = [k \in DOMAIN tmaps |-> IF k \in ks THEN NoCode ELSE tmaps[k]]
          /\ rules' = Restrict(rules, DOMAIN rules \ ks)
    /\ UNCHANGED types

MapNext ==
    \/ \E m \in TmapMethod, ps \in Parms, code \in TmapCode : Register(m, ps, code)
    \/ \E m \in TmapMethod, ps \in Parms : Clear(m, ps)
    \/ \E m \in TmapMethod, src \in Parms, ps \in Parms : src # ps /\ Copy(m, src, ps)
    \/ \E src \in Parms, ps \in Parms : src # ps /\ Apply(src, ps)
    \/ \E ps \in Parms : ClearApply(ps)

MapSpec == MapInit /\ [][MapNext]_mapVars

-----------------------------------------------------------------------------
\* the node of a parameter behind others
NodeOf(m, before, q) == get_typemap(<<m, Append(before, q)>>)

\* the first node with such a code
FirstWith(codes, m, before, qs) ==
    LET k == SelectInSeq(qs, LAMBDA q : NodeOf(m, before, q) \in codes)
    IN IF k = 0 THEN NoNode ELSE NodeOf(m, before, qs[k])

\* mutant of typemap_search: a node ends the search, with code or not
typemap_search_Any(m, before, p) ==
    FirstWith(TmapCode \cup {NoCode}, m, before, OwnTypes[p] \o DefaultTypes[p])

\* typemap_search() for a parameter behind others: the first node with code; else a
\* default type's node, with code or not; else a node without code
typemap_search(m, before, p) ==
    LET own     == FirstWith(TmapCode, m, before, OwnTypes[p])
        default == FirstWith(TmapCode \cup {NoCode}, m, before, DefaultTypes[p])
    IN IF own # NoNode THEN own
       ELSE IF default # NoNode THEN default
       ELSE FirstWith({NoCode}, m, before, OwnTypes[p])

NoTypemap == [code |-> NoNode, n |-> 0]

\* mutant of typemap_search_multi: the first parameter's own typemap is preferred
typemap_search_multi_One(m, ps) ==
    LET one == IF ps = <<>> THEN NoNode ELSE typemap_search(m, <<>>, ps[1])
    IN IF one \in TmapCode THEN [code |-> one, n |-> 1] ELSE NoTypemap

\* typemap_search_multi(): a typemap for more parameters is preferred
typemap_search_multi(m, ps) ==
    LET from[k \in 1..(Len(ps) + 1)] ==
            IF k > Len(ps) THEN NoTypemap
            ELSE LET one  == typemap_search(m, SubSeq(ps, 1, k - 1), ps[k])
                     more == from[k + 1]
                     code == IF more.code = NoNode THEN one ELSE more.code
                 IN IF one = NoNode \/ code = NoCode THEN NoTypemap
                    ELSE [code |-> code, n |-> more.n + 1]
    IN from[1]

-----------------------------------------------------------------------------
MapTypeOK ==
    /\ DOMAIN tmaps \subseteq TmapMethod \X Seq(Parm)
    /\ \A k \in DOMAIN tmaps : tmaps[k] \in TmapCode \cup {NoCode}
    /\ types \subseteq Parm
    /\ DOMAIN rules \subseteq DOMAIN tmaps
    /\ applied \in BOOLEAN
    /\ directives \in 0..MaxDirectives

\* the typemap that is in force for a parameter behind others
Rule(m, before, p) ==
    LET qs == OwnTypes[p] \o DefaultTypes[p]
        k  == SelectInSeq(qs, LAMBDA q : <<m, Append(before, q)>> \in DOMAIN rules)
    IN IF k = 0 THEN NoNode ELSE rules[<<m, Append(before, qs[k])>>]

\* nodes of default types that %clear or a typemap for more parameters has left without
\* code hide the typemaps behind them
Hides(m, ps) ==
    \E n \in 1..Len(ps) : LET qs == DefaultTypes[ps[n]] IN
        \E k \in DOMAIN qs : NodeOf(m, SubSeq(ps, 1, n - 1), qs[k]) = NoCode

\* Typemaps.html, 10.3 and 10.9: "only the first match found is actually used", of the
\* typemaps that are in force, and one for several parameters takes as many as it can,
\* when it is in force for the first ones as they are and for the last one.  Other nodes
\* without code do not hide what is behind them.
SearchIsRight ==
    directives > 0 => \A m \in TmapMethod, ps \in Asked :
        LET found == {n \in 1..Len(ps) : Rule(m, SubSeq(ps, 1, n - 1), ps[n]) # NoNode}
            n     == Max(found)
        IN ~Hides(m, ps) =>
            typemap_search_multi(m, ps) =
                IF found = {} THEN NoTypemap
                ELSE [code |-> Rule(m, SubSeq(ps, 1, n - 1), ps[n]), n |-> n]
=============================================================================
