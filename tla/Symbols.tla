------------------------------ MODULE Symbols ------------------------------
(***************************************************************************)
(* The overloaded methods of one name in SWIG's symbol tables: parser.y    *)
(* puts the members of a base class, of an %extend that comes too early,   *)
(* of the derived class and of an %extend that comes late into the tables  *)
(* of symbol.c; typepass.cxx replaces using declarations by the methods    *)
(* they bring and takes out what is not wrapped.  The list of the methods  *)
(* is what the language modules write wrappers and dispatch functions by.  *)
(* All members are functions, templates of functions or using              *)
(* declarations; nothing is private and there are no directors.            *)
(***************************************************************************)
EXTENDS Naturals, SequencesExt

CONSTANTS
    Declared,  \* [Place -> what may be declared there: type, decl, protected]
    MaxDecls   \* bound: [Place -> number of declarations]

VARIABLES
    place,     \* what the parser reads; at last "pass", the type pass
    tab,       \* the symbol tables: node, a sequence of nodes with their attributes
               \* "sym:..." (0 is none), and first, the entry of a scope's "symtab"
    base,      \* the name in the base class's "csymtab", with its "csym:nextSibling"s
    tree,      \* the nodes of a place, in the order of the parse tree
    symTodo,      \* the nodes the type pass has not seen
    unmended       \* a using declaration that stood among others brought no method

vars == <<place, tab, base, tree, symTodo, unmended>>

Place == {"Base", "ext", "D", "late"}
Scope(p) == IF p = "late" THEN "D" ELSE p      \* extend_directive: the class's table

Node(d) == [type |-> d.type, decl |-> d.decl, protected |-> d.protected,
            prev |-> 0, next |-> 0, overloaded |-> 0, overname |-> << >>,
            scope |-> "", error |-> FALSE, children |-> << >>]

Init ==
    /\ place = "Base"
    /\ tab = [node |-> << >>, first |-> [s \in {"Base", "ext", "D"} |-> 0]]
    /\ base = << >> /\ tree = [p \in Place |-> << >>] /\ symTodo = << >> /\ unmended = FALSE

-----------------------------------------------------------------------------
(***************************************************************************)
(* symbol.c.                                                               *)
(***************************************************************************)
\* n and the nodes behind it, link is "next" or "prev"
Walk(t, n, link) ==
    SelectSeq(FoldLeft(LAMBDA list, i : IF Last(list) = 0 THEN list
                                        ELSE Append(list, t.node[Last(list)][link]),
                       <<n>>, t.node),
              LAMBDA m : m # 0)

\* the node that n is in conflict with in a scope, or 0
Conflict(t, n, s) ==
    LET d == t.node[n]
        Differs(c) == \/ "using" \in {d.type, t.node[t.first[s]].type}
                      \/ t.node[c].decl # d.decl \/ t.node[c].type # d.type
        same == SelectSeq(Walk(t, t.first[s], "next"), LAMBDA c : ~Differs(c))
    IN IF same = << >> THEN 0 ELSE same[1]

\* Swig_symbol_add()
Add(t, n, s) ==
    LET c     == t.first[s]
        chain == Walk(t, c, "next")
        cl    == Last(chain)
        added == [t EXCEPT !.node[n].scope = s, !.node[n].overname = <<Len(chain)>>]
    IN IF Conflict(t, n, s) # 0 THEN t
       ELSE IF c = 0 THEN [added EXCEPT !.first[s] = n]
       ELSE [added EXCEPT !.node[cl].next = n, !.node[n].prev = cl,
                          !.node[cl].overloaded = c, !.node[n].overloaded = c]

\* p and n (0 is none) become neighbours
Link(t, p, n) ==
    LET forth == IF p = 0 THEN t ELSE [t EXCEPT !.node[p].next = n]
    IN IF n = 0 THEN forth ELSE [forth EXCEPT !.node[n].prev = p]

\* the links of the nodes on both sides of n go past it
Unlink(t, n) ==
    [Link(t, t.node[n].prev, t.node[n].next) EXCEPT
        !.node[n] = [@ EXCEPT !.prev = 0, !.next = 0, !.overloaded = 0]]

\* Op(t, list[k], k) for every k in turn
ForEach(t, list, Op(_, _, _)) ==
    FoldLeft(LAMBDA u, k : Op(u, list[k], k), t, [k \in DOMAIN list |-> k])

\* mutant of Swig_symbol_remove: the others keep their numbers
Swig_symbol_remove_Keeps(t, n) ==
    LET m == t.node[n] IN
    [Unlink(t, n) EXCEPT !.first[m.scope] = IF m.prev = 0 THEN m.next ELSE @,
                         !.node[n].scope = "", !.node[n].overname = << >>]

Swig_symbol_remove(t, n) ==
    LET m == t.node[n]
        removed == [Unlink(t, n) EXCEPT !.first[m.scope] = IF m.prev = 0 THEN m.next ELSE @,
                                        !.node[n].scope = "", !.node[n].overname = << >>]
        chain == Walk(removed, Last(Walk(removed, m.next, "prev")), "next")
    IN IF m.next = 0 THEN removed
       ELSE ForEach(removed, chain, LAMBDA u, c, k : [u EXCEPT !.node[c].overname = <<k - 1>>])

-----------------------------------------------------------------------------
(***************************************************************************)
(* parser.y.                                                               *)
(***************************************************************************)
\* Swig_symbol_cadd(): a template stays in front
Cadd(n, d) ==
    IF d.type = "template" /\ base # << >> /\ tab.node[base[1]].type # "template"
    THEN <<n>> \o base ELSE Append(base, n)

\* add_symbols(); C++ has no two equal declarations in a class
Declare(d) ==
    /\ Len(tree[place]) < MaxDecls[place]
    /\ \A m \in ToSet(tree[place]) :
           <<tab.node[m].type, tab.node[m].decl>> # <<d.type, d.decl>>
    /\ LET n == Len(tab.node) + 1
           t == [tab EXCEPT !.node = Append(@, Node(d))]
           c == Conflict(t, n, Scope(place))
       IN /\ tab' = IF c = 0 THEN Add(t, n, Scope(place))
                    ELSE [t EXCEPT !.node[n].error = TRUE]
          /\ tree' = [tree EXCEPT ![place] = Append(@, n)]
          /\ base' = IF place = "Base" THEN Cadd(n, d) ELSE base
    /\ UNCHANGED <<place, symTodo, unmended>>

\* merge_extensions(): what an earlier %extend says takes precedence over the class
Merge(t, n) ==
    LET removed == Swig_symbol_remove(t, n)
        csym    == Conflict(removed, n, "D")
    IN IF t.node[n].error THEN t
       ELSE IF csym = 0 THEN Add(removed, n, "D")
       ELSE Add(Swig_symbol_remove([removed EXCEPT !.node[csym].error = TRUE], csym), n, "D")

\* the end of a class or of an %extend
EndOfClass ==
    /\ place # "pass"
    /\ place' = CASE place = "Base" -> "ext" [] place = "ext" -> "D"
                  [] place = "D" -> "late" [] OTHER -> "pass"
    /\ tab' = IF place = "D" THEN FoldLeft(Merge, tab, tree["ext"]) ELSE tab
    /\ symTodo' = IF place = "late" THEN tree["D"] \o tree["ext"] \o tree["late"] ELSE symTodo
    /\ UNCHANGED <<base, tree, unmended>>

-----------------------------------------------------------------------------
(***************************************************************************)
(* typepass.cxx.                                                           *)
(***************************************************************************)
Unwanted(m) == m.error \/ m.type = "template" \/ (m.type = "cdecl" /\ m.protected)

\* clean_overloaded()
CleanOne(found, nn) ==
    LET first == IF found.first = 0 THEN nn ELSE found.first IN
    IF Unwanted(found.t.node[nn]) THEN [found EXCEPT !.t = Unlink(@, nn)]
    ELSE [t |-> [found.t EXCEPT !.node[nn].overloaded = first], first |-> first]

\* mutant of clean_overloaded: only the method itself is looked at
clean_overloaded_One(t, n) == IF Unwanted(t.node[n]) THEN Unlink(t, n) ELSE t

clean_overloaded(t, n) ==
    LET end == FoldLeft(CleanOne, [t |-> t, first |-> 0],
                        Walk(t, t.node[n].overloaded, "next"))
        alone == end.first = 0 \/ end.t.node[end.first].next = 0
    IN IF alone THEN [end.t EXCEPT !.node[n].overloaded = 0] ELSE end.t

\* usingDeclaration(): the base class's methods that no method here overrides
Brought(t, n) ==
    LET here == {t.node[m].decl : m \in ToSet(Walk(t, t.node[n].overloaded, "next"))} IN
    SelectSeq(base, LAMBDA c : t.node[c].type = "cdecl" /\ t.node[c].decl \notin here)

\* ... whose copies become the children of n
Copies(t, n) ==
    LET new == Brought(t, n)
        At(k) == Len(t.node) + k
        Copied(k) == [Node(t.node[new[k]]) EXCEPT
            !.protected = FALSE, !.overname = t.node[new[k]].overname,
            !.prev = IF k = 1 THEN 0 ELSE At(k - 1),
            !.next = IF k = Len(new) THEN 0 ELSE At(k + 1),
            !.overloaded = IF Len(new) = 1 THEN 0 ELSE At(1)]
        first == Len(new) > 1 /\ t.node[n].overloaded = 0
    IN [t EXCEPT !.node = [t.node EXCEPT
            ![n].children = [k \in 1..Len(new) |-> At(k)],
            ![n].overloaded = IF first THEN n ELSE @,
            ![n].overname = IF first THEN <<0>> ELSE @] \o [k \in 1..Len(new) |-> Copied(k)]]

\* mutant of NewFirst: the nodes behind a using declaration that was the first one keep it
NewFirst_Stale(t, n, fc) == t

\* a using declaration that was the first one: the first child is it now
NewFirst(t, n, fc) ==
    IF t.node[n].overloaded # n THEN t
    ELSE ForEach(t, Walk(t, t.node[n].next, "next"),
                 LAMBDA u, c, k : [u EXCEPT !.node[c].overloaded = fc])

\* the children take the place of n in the list
Replace(t, n) ==
    LET m == t.node[n]
        children == m.children
        fc == children[1]
        over == IF m.overloaded = n THEN fc ELSE m.overloaded
        Child(u, c, k) == [u EXCEPT !.node[c].overloaded = over,
                                    !.node[c].overname = Append(m.overname, k - 1)]
        named == ForEach(NewFirst(t, n, fc), children, Child)
        linked == Link(Link(named, Last(children), m.next), m.prev, fc)
    IN [linked EXCEPT !.node[n] =
            [@ EXCEPT !.prev = 0, !.next = 0, !.overloaded = 0, !.overname = << >>]]

\* it is left where it is when it names nothing or a template
Known == base # << >> /\ tab.node[base[1]].type = "cdecl"

usingDeclaration(t, n) ==
    LET copied == Copies(t, n) IN
    IF ~Known THEN t
    ELSE IF copied.node[n].overloaded = 0 THEN copied
    ELSE IF copied.node[n].children = << >>
    THEN [Unlink(t, n) EXCEPT !.node[n].overname = << >>]
    ELSE Replace(copied, n)

\* emit_one() in the type pass.  A using declaration leaves disorder when the base class has
\* no such method, when Swig_symbol_remove() left it a node that is gone as the first one,
\* when it stands first and brings nothing, and among templates only.
Visit ==
    /\ place = "pass" /\ symTodo # << >>
    /\ LET n == symTodo[1]
           m == tab.node[n]
           list == Walk(tab, m.overloaded, "next")
           disorder == \/ ~Known
                       \/ m.overloaded # Last(Walk(tab, n, "prev"))
                       \/ m.prev = 0 /\ Brought(tab, n) = << >>
                       \/ \A c \in ToSet(list) : tab.node[c].type # "cdecl"
       IN /\ tab' = IF m.error \/ m.type = "template" THEN tab
                    ELSE IF m.type = "using" THEN usingDeclaration(tab, n)
                    ELSE clean_overloaded(tab, n)
          /\ unmended' =
                (unmended \/ (m.type = "using" /\ ~m.error /\ m.overloaded # 0 /\ disorder))
    /\ symTodo' = Tail(symTodo)
    /\ UNCHANGED <<place, base, tree>>

Next ==
    \/ place \in Place /\ \E d \in Declared[place] : Declare(d)
    \/ EndOfClass
    \/ Visit

Spec == Init /\ [][Next]_vars

-----------------------------------------------------------------------------
\* the methods that get wrappers, in the order in which they do
Wrapped ==
    LET Those(n) == IF tab.node[n].type = "using" THEN tab.node[n].children ELSE <<n>> IN
    SelectSeq(FoldLeft(LAMBDA list, n : list \o Those(n), << >>,
                       tree["D"] \o tree["ext"] \o tree["late"]),
              LAMBDA n : tab.node[n].type = "cdecl" /\ ~Unwanted(tab.node[n]))

\* the wrapper functions have names of their own; the dispatch function is written with the
\* last of them, once, and the list leads it to all the others
Dispatched ==
    LET list == Wrapped
        last == tab.node[Last(list)]
    IN /\ \A n \in ToSet(list) : tab.node[n].overloaded # 0
       /\ \A n, m \in ToSet(list) : n # m => tab.node[n].overname # tab.node[m].overname
       /\ \A n \in ToSet(list) : tab.node[n].next = 0 <=> n = Last(list)
       /\ ToSet(list) \subseteq ToSet(Walk(tab, last.overloaded, "next"))

\* symbol.c:112 "sym:overloaded -- Set to the first symbol if overloaded", and
\* CHANGES:952 "Fix using statements using a base class method where the methods were
\* overloaded.  Depending on the order of the using statements and method declarations,
\* these were previously generating uncompileable wrappers".
UsingKeepsOverloads ==
    place = "pass" /\ symTodo = << >> =>
        \/ Wrapped = << >>
        \/ Len(Wrapped) = 1 /\ tab.node[Wrapped[1]].overloaded = 0
        \/ Dispatched

\* symbol.c, parser.y, typepass.cxx: after base classes, extensions before and behind the
\* class, using declarations, templates and protected methods, every method that is wrapped
\* has a wrapper of its own and one dispatch function finds them all, unless a using
\* declaration left the list in disorder.
OverloadsRight == unmended \/ UsingKeepsOverloads
=============================================================================
