------------------------------ MODULE MCSwig ------------------------------
(***************************************************************************)
(* Instances of the models of SWIG for TLC.  A behaviour is one of the     *)
(* part that `part' names; the variables of the others keep their initial  *)
(* values.  The modules that the proofs are about are extended.            *)
(***************************************************************************)
EXTENDS CppConditional, PyDirectors, PyObjects, RubyObjects, JavaObjects, WrapperCode,
        Fragments, Overload, Typemaps, TypeReductions, TypeTable, SequencesExt, TLC

CONSTANTS
    Parts,                  \* the parts a run looks at
    Unary, MaxTokens,       \* of CppExpr
    mA, mB, mC, mD          \* of TypeTable

VARIABLES
    part,
    xStack, status, tokens, late,                                       \* CppExpr
    size, chain, item, todo, loops, index, current, given, grown,       \* NameTables
    macros, failed,                                                     \* Macros
    bases, members, flags, abstract, marks,                             \* Allocate
    place, tab, base, tree, symTodo, unmended                           \* Symbols

-----------------------------------------------------------------------------
Number == ("0" :> 0) @@ ("2" :> 2)

\* the types of a module like Lua's: two classes, B derived from A, and another one, C,
\* int and long with the precedence of integers, and double
Precedences == [A |-> 0, B |-> 0, C |-> 0, int |-> 70, long |-> 70, double |-> 90]
Inheritance == {<<"B", "A">>}
\* their typecheck typemaps, one for all integers, and what passes them of instances of the
\* classes, a null pointer, an integer and a floating point number
Typechecks == [A |-> "isA", B |-> "isB", C |-> "isC", int |-> "integer", long |-> "integer",
               double |-> "number"]
Arguments  == {"a", "b", "c", "null", "1", "1.5"}
Passing    == [isA |-> {"a", "b", "null"}, isB |-> {"b", "null"}, isC |-> {"c", "null"},
               integer |-> {"1"}, number |-> {"1", "1.5"}]
\* overloaded declarations of up to two parameters
Takes(parms, req, const) == [parms |-> parms, req |-> req, const |-> const]
Declarations ==
    {Takes(<< >>, 0, FALSE), Takes(<<"A">>, 1, TRUE), Takes(<<"int">>, 1, TRUE)}
    \cup {Takes(<<t>>, 1, FALSE) : t \in {"A", "B", "C", "int", "long", "double"}}
    \cup {Takes(<<t, u>>, 2, FALSE) : t \in {"A", "B"}, u \in {"A", "B", "long"}}
    \cup {Takes(<<t, "int">>, 1, FALSE) : t \in {"A", "B", "long"}}

TypesAndNames == Types \X {"", "x"}
Resolutions == [t \in Types |-> resolved(t)]
OfOwnTypes == [p \in TypesAndNames |-> WithName(Reductions(p[1]), p[2])]
OfDefaultTypes == [p \in TypesAndNames |-> WithName(defaults(p[1]), p[2])]
OfDirectives ==
    {<<p>> : p \in {<<"int", "">>, <<"int", "x">>, <<"Integer", "x">>, <<"int [ANY]", "">>,
                    <<"SWIGTYPE [ANY]", "">>, <<"SWIGTYPE *", "">>, <<"SWIGTYPE", "">>}}
    \cup {<<<<"int", "x">>, <<"int", "">>>>, <<<<"const Integer", "x">>, <<"SWIGTYPE", "">>>>}
OfFunctions ==
    LET parms == {<<"int", "">>} \cup {"int", "const Integer", "int [4]", "Foo *"} \X {"x"}
    IN {<<p>> : p \in parms}
       \cup {<<<<t, "x">>, q>> : t \in {"int", "const Integer"}, q \in parms \ ({"int", "int [4]"} \X {"x"})}

FragLists  == {<<n>> : n \in Frag} \cup {<<"a", "c">>}
FragKwargs == {<< >>, <<<<"b">>, <<"c">>>>} \cup {<<l>> : l \in FragLists \ {<<"b">>}}

\* 1 is a base class, 2 a class derived from it, 3 and 4 are other names of the base
\* class (typedefs).  mA and mB pass pointers and know no inheritance, mC wraps the
\* classes and mD the typedefs.
Modules   == {mA, mB, mC, mD}
TypeNames == [m \in Modules |->
    CASE m = mA -> <<2, 4>> [] m = mB -> <<1, 4>> [] m = mC -> <<1, 2>> [] m = mD -> <<1, 2, 3, 4>>]
Rows == [m \in Modules |->
    CASE m = mA -> (2 :> <<2>>) @@ (4 :> <<4>>)
      [] m = mB -> (1 :> <<1>>) @@ (4 :> <<4>>)
      [] m = mC -> (1 :> <<2, 1>>) @@ (2 :> <<2>>)
      [] m = mD -> (1 :> <<1, 3, 2>>) @@ (2 :> <<2>>) @@ (3 :> <<3, 1, 4>>) @@ (4 :> <<4, 3>>)]
Classes == [m \in Modules |-> IF m = mC THEN {1, 2} ELSE {}]
Typedefs == {<<3, 1>>, <<1, 3>>, <<3, 4>>, <<4, 3>>} \cup {<<n, n>> : n \in 1..4}

\* D is derived from A and B; whatever can be said of f in any of them, or of g in A
Parsed   == {"A", "B", "D"}
Parents  == [c \in Parsed |-> IF c = "D" THEN <<"A", "B">> ELSE << >>]
Scopes   == Parsed \cup {"", "::", "*"}
Directives == (Scopes \X {"f"}) \cup {<<"A", "g">>}
Hashes   == [k \in Scopes \X {"f", "g"} |->
    (CASE k[1] = "A" -> 0 [] k[1] = "B" -> 3 [] k[1] = "D" -> 6
       [] k[1] = "" -> 1 [] k[1] = "*" -> 4 [] OTHER -> 5) + (IF k[2] = "g" THEN 5 ELSE 0)]

\* values that call each other and themselves, and the short texts that use them
MacroValues == [m \in {"a", "f", "g"} |->
    IF m = "a"
    THEN {<<"n">>, <<"a">>, <<"f">>, <<"n", "a">>, <<"f", "(", "n", ")">>, <<"g", "(", "a", ")">>}
    ELSE {<<"x">>, <<"x", "x">>, <<"a">>, <<"g">>, <<"g", "x">>, <<"f", "(", "x", ")">>,
          <<"f", "(", "a", ")">>, <<"g", "(", "x", ")">>, <<"a", "(", "x", ")">>}]
TextsOf(lengths) == UNION {[1..k -> {"a", "f", "g", "n", "(", ")"}] : k \in lengths}
MacroTexts == TextsOf(1..2) \cup {<<"f">> \o s : s \in TextsOf({2})}
              \cup {<<"f", "(">> \o s \o <<")">> : s \in TextsOf(2..3)}

\* three C++ classes: 2 may be derived from 1, and 3 from both
Through(b, access) == <<b, access>>
BaseLists == <<{<< >>}, {<< >>, <<Through(1, "public")>>},
               {<< >>, <<Through(2, "public")>>, <<Through(2, "private")>>,
                <<Through(1, "public"), Through(2, "public")>>,
                <<Through(2, "protected"), Through(1, "public")>>}>>
Nothing == [ctor |-> "none", copy |-> "none", dtor |-> "none", assign |-> "none",
            new |-> "none", methods |-> << >>]
Declares(virtual, pure, access, type) ==
    [virtual |-> virtual, pure |-> pure, access |-> access, type |-> type]
MethodSets == {"int" :> Declares(TRUE, TRUE, "public", "base"),
               "int" :> Declares(TRUE, FALSE, "public", "derived"),
               "int" :> Declares(FALSE, FALSE, "public", "base"),
               "int" :> Declares(FALSE, FALSE, "private", "base"),
               "long" :> Declares(FALSE, FALSE, "public", "base"),
               ("int" :> Declares(TRUE, FALSE, "public", "base"))
                   @@ ("long" :> Declares(TRUE, TRUE, "public", "base"))}
\* "other" is a constructor with parameters
ClassMembers ==
    {[Nothing EXCEPT !.ctor = a] : a \in {"none", "public", "protected", "private", "other"}}
    \cup {[Nothing EXCEPT !.copy = a] : a \in {"public", "protected"}}
    \cup {[Nothing EXCEPT !.dtor = a] : a \in {"protected", "private"}}
    \cup {[Nothing EXCEPT !.assign = a, !.new = a] : a \in {"public", "private"}}
    \cup {[Nothing EXCEPT !.methods = m] : m \in MethodSets}

\* methods of one name: in a base class, an %extend in front of the class, the class and
\* an %extend behind it
Function(type) == [type |-> "cdecl", decl |-> type, protected |-> FALSE]
Template == [type |-> "template", decl |-> "int", protected |-> FALSE]
Using    == [type |-> "using", decl |-> "", protected |-> FALSE]
Methods  ==
    [p \in {"Base", "ext", "D", "late"} |->
        CASE p = "Base" -> {Function("int"), Function("double"), Template}
          [] p = "ext"  -> {Function("int"), Function("char")}
          [] p = "late" -> {Function("int"), Function("long")}
          [] OTHER -> {Function("int"), Function("double"), Template, Using,
                       [Function("char") EXCEPT !.protected = TRUE]}]
MaxMethods == [p \in {"Base", "ext", "D", "late"} |->
                   CASE p = "D" -> 3 [] p = "late" -> 1 [] OTHER -> 2]

Ex == INSTANCE CppExpr WITH Number <- Number, Binary <- {"*", "-", "==", "&&", "||"},
                            stack <- xStack
Nt == INSTANCE NameTables WITH Class <- Parsed, Base <- Parents, Member <- {"f", "g"},
                               Decl <- {"int"}, Named <- Directives, Hashval <- Hashes,
                               HASH_INIT_SIZE <- 2, MaxEntries <- 3
Ma == INSTANCE Macros WITH Objects <- {"a"}, Functions <- {"f", "g"}, Values <- MacroValues,
                           Texts <- MacroTexts, symbols <- macros
Al == INSTANCE Allocate WITH Class <- 1..3, Members <- ClassMembers,
    virtual_elimination_mode <- TRUE
Sy == INSTANCE Symbols WITH Declared <- Methods, MaxDecls <- MaxMethods

-----------------------------------------------------------------------------
(***************************************************************************)
(* Bounds of these instances, besides the constants.                       *)
(***************************************************************************)
\* the files that are open have MaxLine lines together: one is long or some are short
FewLines == FoldLeft(LAMBDA n, g : n + g.line, f.line, callers) <= MaxLine

\* the threads have MaxOpen frames together: while one is deep in calls, others are not
MaxOpen == 7
FewFrames == MapThenSumSet(LAMBDA t : Len(stack[t]), Thread) <= MaxOpen

\* one name has an entry of %clear...
FewCleared == Cardinality({k \in DOMAIN given : Nt!Cleared \in Range(given[k])}) <= 1

\* Objects that are not made yet and free addresses are all alike: the first one is taken.
PyObjOrder == SetToSeq(PyObj)
ThisOrder  == SetToSeq(This)
InstOrder  == SetToSeq(Inst)
ObjOrder   == SetToSeq(Obj)
ProxyOrder == SetToSeq(Proxy)
FirstTaken(order, before, after, free) ==
    \A k \in 2..Len(order) : before[order[k]] = free /\ after[order[k]] # free
        => \A j \in 1..(k - 1) : after[order[j]] # free
PyFirstTaken ==
    /\ FirstTaken(PyObjOrder, life, life', "unborn")
    /\ FirstTaken(ThisOrder, this, this', NULL) /\ FirstTaken(InstOrder, inst, inst', NULL)
JavaFirstTaken ==
    FirstTaken(ObjOrder, cpp, cpp', "none") /\ FirstTaken(ProxyOrder, proxy, proxy', "none")

-----------------------------------------------------------------------------
exVars == <<xStack, status, tokens, late>>
ntVars == <<size, chain, item, todo, loops, index, current, given, grown>>
maVars == <<macros, failed>>
alVars == <<bases, members, flags, abstract, marks>>
syVars == <<place, tab, base, tree, symTodo, unmended>>

SwigInit ==
    /\ part \in Parts
    /\ Init /\ Ex!Init /\ MapInit /\ FragInit /\ TypesInit /\ PyInit /\ RubyInit /\ JavaInit
    /\ Nt!Init /\ Ma!Init /\ Al!Init /\ Sy!Init
    /\ IF part = "wrapper" THEN WrapInit
       ELSE /\ lang = "perl" /\ parm = << >> /\ at = 1 /\ mem = << >>
            /\ result = "none" /\ ends = "running"
    /\ IF part = "overload" THEN RankInit
       ELSE /\ decl = << >> /\ nodes = << >> /\ error = {} /\ script = FALSE
            /\ sort = "argc" /\ left = 1 /\ right = 2
    /\ DirInit /\ (part # "directors" => over = {})

SwigNext ==
    /\ UNCHANGED part
    /\ IF part = "conditionals" THEN Next /\ FewLines' ELSE UNCHANGED vars
    /\ IF part = "expressions" THEN Ex!Next ELSE UNCHANGED exVars
    /\ IF part = "wrapper" THEN WrapNext ELSE UNCHANGED wrapVars
    /\ IF part = "overload" THEN RankNext ELSE UNCHANGED rankVars
    /\ IF part = "typemaps" THEN MapNext ELSE UNCHANGED mapVars
    /\ IF part = "fragments" THEN FragNext ELSE UNCHANGED fragVars
    /\ IF part = "types" THEN TypesNext ELSE UNCHANGED typesVars
    /\ IF part = "python" THEN PyNext /\ PyFirstTaken ELSE UNCHANGED pyVars
    /\ IF part = "ruby" THEN RubyNext ELSE UNCHANGED rubyVars
    /\ IF part = "directors" THEN DirNext /\ FewFrames' ELSE UNCHANGED dirVars
    /\ IF part = "java" THEN JavaNext /\ JavaFirstTaken ELSE UNCHANGED javaVars
    /\ IF part = "names" THEN Nt!Next /\ FewCleared' ELSE UNCHANGED ntVars
    /\ IF part = "macros" THEN Ma!Next ELSE UNCHANGED maVars
    /\ IF part = "classes" THEN Al!Next ELSE UNCHANGED alVars
    /\ IF part = "symbols" THEN Sy!Next ELSE UNCHANGED syVars

SwigSpec == SwigInit /\ [][SwigNext]_<<part, vars, exVars, wrapVars, rankVars, mapVars, fragVars,
                                      typesVars, pyVars, rubyVars, dirVars, javaVars, ntVars, maVars,
                                      alVars, syVars>>

-----------------------------------------------------------------------------
(***************************************************************************)
(* Properties.  The parts' modules say what they are about.                *)
(***************************************************************************)
\* The state is what the C structs, the generated code and the tables can hold.
TypesOK ==
    CASE part = "conditionals" -> CondTypeOK
      [] part = "expressions"  -> Ex!ExprTypeOK
      [] part = "wrapper"      -> WrapTypeOK
      [] part = "overload"     -> RankTypeOK
      [] part = "typemaps"     -> MapTypeOK
      [] part = "fragments"    -> FragTypeOK
      [] part = "types"        -> TypesTypeOK
      [] part = "python"       -> PyTypeOK
      [] part = "ruby"         -> RubyTypeOK
      [] part = "directors"    -> DirTypeOK
      [] part = "java"         -> JavaTypeOK
      [] part = "names"        -> Nt!NamesTypeOK
      [] OTHER -> TRUE

\* expr.c, Preprocessor_expr(): it reports exactly what is no expression, never runs into
\* its assertions, and evaluates an expression as its operators bind, unless one came late.
EvaluatorRight ==
    part = "expressions" => Ex!RejectsNonExpressions /\ Ex!RightUnlessLate

\* expr.c:36 "Low values have higher precedence": the value of every condition.
PrecedenceRespected == part = "expressions" => Ex!PrecedenceRespected

\* Typemaps.html:3822 "%apply does not overwrite a typemap rule if it is already defined
\* for the target datatype": Swig_typemap_apply().
ApplyKeeps == [][part = "typemaps" /\ applied' =>
                     \A k \in DOMAIN rules : k \in DOMAIN rules' /\ rules'[k] = rules[k]]_rules

\* naming.c, Swig_name_object_inherit(), on DOH's hash tables: a class has what its bases
\* have been given in %rename and %feature, and a declaration gets what is most specific.
NamesRight == part = "names" => Nt!KeysAreFound /\ Nt!BasesAreInherited /\ Nt!MostSpecific

\* cpp.c, expand_macro(): macros that call each other end where C says that they end.
ExpandsAsC == part = "macros" => Ma!ExpandsAsC

\* allocate.cxx, classDeclaration(): what the pass concludes about a class, its special
\* members, its abstract methods and what they override, is what C++ says of it.
ClassesRight == part = "classes" => Al!ClassesRight

\* symbol.c, typepass.cxx and overload.cxx: overloaded methods have wrappers of their own, one
\* dispatch function finds them all, and one that it never calls has been warned about.
OverloadsRight == (part = "symbols" => Sy!OverloadsRight) /\ NoneLostSilently
=============================================================================
