------------------------------ MODULE TypeTable ------------------------------
(***************************************************************************)
(* Lib/swigrun.swg and Lib/swiginit.swg: the type tables of the SWIG       *)
(* modules that a process has loaded.                                      *)
(*                                                                         *)
(* Every module brings static structures for the types it knows and for    *)
(* the casts between them.  Loading links them into what is there: modules *)
(* in a ring, one structure per type name, one list of casts per type.     *)
(* Lists change again at every conversion, which moves the cast it finds   *)
(* to the front.  The initialization is that of Lua and Tcl (SWIG_init in  *)
(* Lib/lua/luaruntime.swg and Lib/tcl/tclinit.swg), where client data is   *)
(* static and an interpreter is a lua_State or a Tcl_Interp.               *)
(***************************************************************************)
EXTENDS Naturals, Sequences, SequencesExt, FiniteSets

CONSTANTS
    Interp,         \* interpreters of the process
    Module,         \* generated modules (shared libraries)
    Zero,           \* the null pointer
    Names,          \* Names[m]: the names of m's types, as type_initial lists them
    Row,            \* Row[m][n]: the names that m's cast_initial has for type n
    Equivalent,     \* <<u, n>>: the cast from u to n has no converter
    Class           \* Class[m]: the types whose static clientdata is a class of m

Known(m) == ToSet(Names[m])

\* Type names are numbers, strcmp() is <.  The generator sorts the table of a
\* module, lists each type of a row in it too, once, and every type in its own row.
ASSUME TablesAssumption ==
    /\ IsFiniteSet(Module)
    /\ \A m \in Module :
          /\ Names[m] \in Seq(Nat)
          /\ \A j, k \in DOMAIN Names[m] : j < k => Names[m][j] < Names[m][k]
          /\ \A n \in Known(m) :
                /\ Row[m][n] \in Seq(Known(m))
                /\ IsInjective(Row[m][n])
                /\ n \in ToSet(Row[m][n])

\* The static structures: swig_type_info <<module, name>> and swig_cast_info
\* <<module, to, from>>.
Type == UNION {{<<m, n>> : n \in Known(m)} : m \in Module}
Cast == UNION {{<<t[1], t[2], u>> : u \in ToSet(Row[t[1]][t[2]])} : t \in Type}

ASSUME ZeroAssumption == Zero \notin Module \cup Type \cup Cast

VARIABLES
    head,           \* [Interp -> SWIG_GetModule(interp)]
    next,           \* [Module -> swig_module.next]
    typeOf,         \* typeOf[m][n]: the structure m uses for the type named n
    table,          \* the fields of the structures, see TypesTypeOK
    propagated,     \* modules where init_run is set
    loading         \* the SWIG_init() that is running: the loop it is in, its
                    \* module, "i", "cast" and "type"

typesVars == <<head, next, typeOf, table, propagated, loading>>

AtRest == [at |-> "end", module |-> Zero, i |-> 1, cast |-> 1, type |-> Zero]

TypesInit ==
    /\ head = [i \in Interp |-> Zero]
    /\ next = [m \in Module |-> Zero]
    /\ typeOf = [m \in Module |-> [n \in Known(m) |-> Zero]]
    /\ table = [cast |-> [t \in Type |-> Zero],
                clientdata |-> [t \in Type |-> IF t[2] \in Class[t[1]] THEN t[1] ELSE Zero],
                of |-> [c \in Cast |-> <<c[1], c[3]>>],
                nxt |-> [c \in Cast |-> Zero],
                prev |-> [c \in Cast |-> Zero]]
    /\ propagated = {}
    /\ loading = AtRest

-----------------------------------------------------------------------------
(* Following pointers. *)

\* x, f[x], f[f[x]] and so on
Walk(f, x) ==
    LET a[k \in Nat] == IF k = 0 THEN x
                        ELSE IF a[k - 1] = Zero THEN Zero ELSE f[a[k - 1]]
    IN  a

Steps(f) == 0 .. Cardinality(DOMAIN f)

\* whether y is reached from x along f
Returns(f, x, y) == \E k \in Steps(f) : Walk(f, x)[k] = y

\* what lies from x to y, without y
Path(f, x, y) ==
    LET n == CHOOSE k \in Steps(f) : /\ Walk(f, x)[k] = y
                                     /\ \A j \in 0 .. k - 1 : Walk(f, x)[j] # y
    IN  [k \in 1 .. n |-> Walk(f, x)[k - 1]]

\* for (cast = ty->cast; cast; cast = cast->next)
Casts(h, ty) == Path(h.nxt, h.cast[ty], Zero)

\* do ... while (iter != end)
Ring(nx, start, end) == <<start>> \o Path(nx, nx[start], end)

\* the first element of a list that is in S
FirstIn(list, S) ==
    LET k == SelectInSeq(list, LAMBDA x : x \in S)
    IN  IF k = 0 THEN Zero ELSE list[k]

-----------------------------------------------------------------------------
(* Lib/swigrun.swg. *)

\* SWIG_MangledTypeQueryModule(): the bisection of one module's table, from l to r;
\* the position of the name, or 0
Search(names, name) ==
    LET in[p \in (0 .. Len(names)) \X (0 .. Len(names) - 1)] ==
            LET l == p[1]
                r == p[2]
                i == (l + r) \div 2
            IN  IF l > r THEN 0
                ELSE IF name = names[i + 1] THEN i + 1
                ELSE IF name > names[i + 1] THEN in[<<i + 1, r>>]
                ELSE IF i = 0 THEN 0 ELSE in[<<l, i - 1>>]
    IN  IF names = << >> THEN 0 ELSE in[<<0, Len(names) - 1>>]

\* SWIG_MangledTypeQueryModule(start, end, name)
MangledTypeQueryModule(start, end, name) ==
    LET m == FirstIn(Ring(next, start, end), {k \in Module : Search(Names[k], name) # 0})
    IN  IF m = Zero THEN Zero ELSE typeOf[m][name]

\* SWIG_TypeCheck() and SWIG_TypeCheckStruct(): the first cast of type ty that
\* starts from one of the structures in "from" ...
TypeCheck(h, from, ty) == FirstIn(Casts(h, ty), {c \in Cast : h.of[c] \in from})

\* mutant of ToFront: iter->next->prev is not set
ToFrontKeepsPrev(h, iter, ty) ==
    LET first == h.cast[ty]
    IN  IF iter \in {first, Zero} THEN h
        ELSE [h EXCEPT
                !.nxt = [@ EXCEPT ![h.prev[iter]] = h.nxt[iter], ![iter] = first],
                !.prev = [@ EXCEPT ![iter] = Zero, ![first] = iter],
                !.cast[ty] = iter]

\* ... which is moved to the front of the list
ToFront(h, iter, ty) ==
    LET first == h.cast[ty]
        after == h.nxt[iter]
    IN  IF iter \in {first, Zero} THEN h
        ELSE [h EXCEPT
                !.nxt = [@ EXCEPT ![h.prev[iter]] = after, ![iter] = first],
                !.prev = [c \in Cast |-> CASE c = iter  -> Zero
                                           [] c = first -> iter
                                           [] c = after -> h.prev[iter]
                                           [] OTHER     -> h.prev[c]],
                !.cast[ty] = iter]

OfName(name) == {t \in Type : t[2] = name}

\* mutant of Reached: no recursion
ReachedOne(h, ti) == {ti}

\* the types that have a cast to t without converter
Same(h, t) ==
    {h.of[c] : c \in {d \in ToSet(Casts(h, t)) : <<d[3], d[2]>> \in Equivalent}}

\* SWIG_TypeClientData(): the types that the recursion reaches, those that are
\* the same as ti by casts without converter and have no client data
Reached(h, ti) ==
    LET r[k \in Nat] == IF k = 0 THEN {ti}
                        ELSE r[k - 1] \cup {s \in UNION {Same(h, t) : t \in r[k - 1]} :
                                              h.clientdata[s] = Zero}
    IN  r[Cardinality(Type)]

TypeClientData(h, ti, data) ==
    LET all == Reached(h, ti)
    IN  [h EXCEPT !.clientdata = [t \in Type |-> IF t \in all THEN data ELSE h.clientdata[t]]]

-----------------------------------------------------------------------------
(* Lib/swiginit.swg: SWIG_InitializeModule() and SWIG_PropagateClientData(). *)

\* "if (type->cast) { ... } type->cast = cast;"
AddCast(h, c, type) ==
    LET first == h.cast[type]
    IN  IF first = Zero THEN [h EXCEPT !.cast[type] = c]
        ELSE [h EXCEPT !.cast[type] = c, !.prev[first] = c, !.nxt[c] = first]

\* what a module that is being loaded finds in the others
Loaded(m, name) ==
    IF next[m] = m THEN Zero ELSE MangledTypeQueryModule(next[m], m, name)

\* mutant of InsertCast: casts that are there are added again
InsertCastAgain(h, c, type) ==
    LET ret == Loaded(c[1], h.of[c][2])
    IN  AddCast(IF ret = Zero \/ type # <<c[1], c[2]>> THEN h ELSE [h EXCEPT !.of[c] = ret],
                c, type)

\* one turn of "while (cast->type)" for a type whose structure is "type"
InsertCast(h, c, type) ==
    LET ret   == Loaded(c[1], h.of[c][2])
        ocast == TypeCheck(h, OfName(ret[2]), type)
    IN  IF ret = Zero THEN AddCast(h, c, type)
        ELSE IF type = <<c[1], c[2]>> THEN AddCast([h EXCEPT !.of[c] = ret], c, type)
        ELSE IF ocast = Zero THEN AddCast(h, c, type)
        ELSE ToFront(h, ocast, type)

\* the structure that module m uses for its type n
TypeFor(m, n) == LET type == Loaded(m, n) IN IF type = Zero THEN <<m, n>> ELSE type

\* mutant of Joined: module_head->next is set first
JoinedSwapped(i, m) ==
    IF head[i] = Zero THEN IF next[m] = Zero THEN [next EXCEPT ![m] = m] ELSE next
    ELSE [next EXCEPT ![head[i]] = m, ![m] = m]

\* the ring once m, initialized before or not, is in the list of interpreter i
Joined(i, m) ==
    IF head[i] = Zero THEN IF next[m] = Zero THEN [next EXCEPT ![m] = m] ELSE next
    ELSE [next EXCEPT ![m] = next[head[i]], ![head[i]] = m]

\* "the interpreter has loaded a SWIG module, but has it loaded this one?"
Found(i, m) == head[i] # Zero /\ Returns(next, head[i], m)

\* the beginning of SWIG_PropagateClientData(), with its test of init_run
StartClasses(m) ==
    /\ loading' = IF m \in propagated THEN AtRest
                  ELSE [AtRest EXCEPT !.at = "classes", !.module = m]
    /\ propagated' = propagated \cup {m}

\* SWIG_init(L), when the library of m is loaded into interpreter i, up to the
\* loops.  Where the list does not come back to its head, the search for m does
\* not end.
SWIG_init(i, m) ==
    /\ loading = AtRest
    /\ head[i] # Zero /\ ~Found(i, m) => Returns(next, next[head[i]], head[i])
    /\ next' = IF Found(i, m) THEN next ELSE Joined(i, m)
    /\ head' = [head EXCEPT ![i] = IF @ = Zero THEN m ELSE @]
    /\ IF next[m] = Zero /\ ~Found(i, m)
       THEN /\ loading' = [AtRest EXCEPT !.at = "types", !.module = m]
            /\ UNCHANGED propagated
       ELSE StartClasses(m)
    /\ UNCHANGED <<typeOf, table>>

\* name, own structure and row of the type that the loops are at
typeName     == Names[loading.module][loading.i]
typeInitial  == <<loading.module, typeName>>
castInitial  == Row[loading.module][typeName]

\* "for (i = 0; i < swig_module.size; ++i)": the structure to use
NextType ==
    /\ loading.at = "types" /\ loading.i <= Len(Names[loading.module])
    /\ LET type == TypeFor(loading.module, typeName)
       IN  /\ loading' = [loading EXCEPT !.at = "casts", !.cast = 1, !.type = type]
           /\ table' = IF table.clientdata[typeInitial] = Zero THEN table
                       ELSE [table EXCEPT !.clientdata[type] = table.clientdata[typeInitial]]
    /\ UNCHANGED <<head, next, typeOf, propagated>>

\* "while (cast->type)"
NextCast ==
    /\ loading.at = "casts" /\ loading.cast <= Len(castInitial)
    /\ table' = InsertCast(table, <<loading.module, typeName, castInitial[loading.cast]>>, loading.type)
    /\ loading' = [loading EXCEPT !.cast = @ + 1]
    /\ UNCHANGED <<head, next, typeOf, propagated>>

\* "swig_module.types[i] = type;"
EndCasts ==
    /\ loading.at = "casts" /\ loading.cast > Len(castInitial)
    /\ typeOf' = [typeOf EXCEPT ![loading.module][typeName] = loading.type]
    /\ loading' = [loading EXCEPT !.at = "types", !.i = @ + 1]
    /\ UNCHANGED <<head, next, table, propagated>>

EndTypes ==
    /\ loading.at = "types" /\ loading.i > Len(Names[loading.module])
    /\ StartClasses(loading.module)
    /\ UNCHANGED <<head, next, typeOf, table>>

\* one turn of the loop in SWIG_PropagateClientData(), which is "like calling
\* SWIG_TypeClientData(type, clientdata) a second time"
NextClass ==
    /\ loading.at = "classes" /\ loading.i <= Len(Names[loading.module])
    /\ LET type == typeOf[loading.module][typeName]
           data == table.clientdata[type]
       IN  table' = IF data = Zero THEN table ELSE TypeClientData(table, type, data)
    /\ loading' = [loading EXCEPT !.i = @ + 1]
    /\ UNCHANGED <<head, next, typeOf, propagated>>

EndClasses ==
    /\ loading.at = "classes" /\ loading.i > Len(Names[loading.module])
    /\ loading' = AtRest
    /\ UNCHANGED <<head, next, typeOf, table, propagated>>

-----------------------------------------------------------------------------
(* What wrappers do with the tables. *)

Initialized == {m \in Module : next[m] # Zero}
InUse == (UNION {{typeOf[m][n] : n \in Known(m)} : m \in Initialized}) \ {Zero}

\* SWIG_Lua_ConvertPtr(): an object of type "from" is passed as a "type"
ConvertPtr(from, type) ==
    /\ loading = AtRest
    /\ table' = ToFront(table, TypeCheck(table, {from}, type), type)
    /\ UNCHANGED <<head, next, typeOf, propagated, loading>>

\* the same by name, SWIG_TypeCheck(), as Tcl does
ConvertPtrByName(from, type) ==
    /\ loading = AtRest
    /\ table' = ToFront(table, TypeCheck(table, OfName(from), type), type)
    /\ UNCHANGED <<head, next, typeOf, propagated, loading>>

TypesNext ==
    \/ \E i \in Interp, m \in Module : SWIG_init(i, m)
    \/ NextType \/ NextCast \/ EndCasts \/ EndTypes \/ NextClass \/ EndClasses
    \/ \E from, type \in InUse : ConvertPtr(from, type) \/ ConvertPtrByName(from[2], type)

TypesSpec == TypesInit /\ [][TypesNext]_typesVars

-----------------------------------------------------------------------------
(* Properties. *)

Ptr(S) == S \cup {Zero}

TypesTypeOK ==
    /\ head \in [Interp -> Ptr(Module)]
    /\ next \in [Module -> Ptr(Module)]
    /\ DOMAIN typeOf = Module /\ \A m \in Module : typeOf[m] \in [Known(m) -> Ptr(Type)]
    /\ table \in [cast : [Type -> Ptr(Cast)], clientdata : [Type -> Ptr(Module)],
                  of : [Cast -> Type], nxt : [Cast -> Ptr(Cast)],
                  prev : [Cast -> Ptr(Cast)]]
    /\ propagated \subseteq Module
    /\ loading \in [at : {"end", "types", "casts", "classes"}, module : Ptr(Module),
                    i : Nat, cast : Nat, type : Ptr(Type)]

\* swiginit.swg:17-18, "if this type has been already loaded, ... use the
\* loaded structure instead of the generated one": modules that know a type
\* use one structure for it, whatever the order of loading.
OneStructurePerType ==
    \A m1, m2 \in Initialized : \A n \in Known(m1) \cap Known(m2) :
        typeOf[m1][n] = typeOf[m2][n] /\ typeOf[m1][n][2] = n

\* Every cast of every loaded module is in the list of its type, and once:
\* merging the rows of several modules and moving entries to the front lose
\* nothing and repeat nothing.
EveryCastOnce ==
    \A m \in Initialized : \A n \in Known(m) : \A u \in ToSet(Row[m][n]) :
        LET list  == Casts(table, typeOf[m][n])
            IsIt(k) == table.of[list[k]][2] = u
        IN  /\ Returns(table.nxt, table.cast[typeOf[m][n]], Zero)
            /\ \E k \in DOMAIN list : IsIt(k) /\ \A l \in DOMAIN list \ {k} : ~IsIt(l)

\* SWIG_TypeCheck() unlinks a cast by its "prev" pointer, which nothing else
\* reads and AddCast maintains for the old head only: it is right for each
\* cast of a list but the first.
PrevIsRight ==
    \A t \in InUse : LET list == Casts(table, t)
                     IN  \A k \in 2 .. Len(list) : table.prev[list[k]] = list[k - 1]

\* swiginit.swg:25, SWIG_InitializeModule(): whatever the order of loading, a type
\* has one structure, its list of casts has each cast once, and swigrun.swg:284,
\* SWIG_TypeCheck() can move them to the front.
TablesAgree ==
    loading = AtRest => OneStructurePerType /\ EveryCastOnce /\ PrevIsRight

\* swiginit.swg:208, what SWIG_PropagateClientData() is for: when a type has a class,
\* so has every type that converts to it without a converter, although the type, the
\* class and the cast may come from three modules.
ClassesAreShared ==
    loading = AtRest =>
        \A t \in InUse : table.clientdata[t] # Zero =>
            \A s \in Same(table, t) : table.clientdata[s] # Zero

\* swiginit.swg:25-26, "making sure the type pointer in the swig_cast_info
\* struct is correct": it is the structure that the modules use, the one that
\* SWIG_TypeCheckStruct() compares with.
CastsAreCorrect ==
    loading = AtRest =>
        \A t \in InUse : \A c \in ToSet(Casts(table, t)) : table.of[c] \in InUse

\* swigrun.swg:203-205, CHANGES:2143 (modules in several interpreters): the
\* modules of an interpreter are a ring, so that the searches of the type
\* tables (swigrun.swg:417) end.
SearchesEnd ==
    \A i \in Interp : head[i] # Zero => Returns(next, next[head[i]], head[i])

=============================================================================
