------------------------------ MODULE Allocate ------------------------------
(***************************************************************************)
(* What SWIG concludes about C++ classes: the pass of allocate.cxx finds   *)
(* out which constructors and destructors there are, which classes are     *)
(* abstract and which methods override others.  The classes come in the    *)
(* order of their declarations.  They have methods of one name, told apart *)
(* by their parameters, and may declare the special members.  There are no *)
(* directors, no %extend, no using and no virtual inheritance.             *)
(***************************************************************************)
EXTENDS Integers, SequencesExt

CONSTANTS
    Class,              \* 1..n
    BaseLists,          \* [Class -> the lists of <<class, access>> it may be derived from]
    Members,            \* the special members and methods a class may have
    virtual_elimination_mode    \* -fvirtual

VARIABLES
    bases, members,     \* [declared classes -> list of bases], [... -> members]
    flags,              \* [declared classes -> the attributes "allocate:..."]
    abstract,           \* [declared classes -> <<class, parameters>> not implemented]
    marks               \* [declared classes -> [parameters -> attributes of the method]]

vars == <<bases, members, flags, abstract, marks>>

Declared == DOMAIN bases
Methods(c) == members[c].methods    \* [parameters -> type, virtual, pure, access]

Init == bases = << >> /\ members = << >> /\ flags = << >> /\ abstract = << >> /\ marks = << >>

-----------------------------------------------------------------------------
\* cplus_inherit_types(): the public bases, then the protected ones, then the private ones
With(list, access) == SelectSeq(list, LAMBDA b : b[2] = access)
allbases(list) == With(list, "public") \o With(list, "protected") \o With(list, "private")
Bases(list) == FoldLeft(LAMBDA names, b : Append(names, b[1]), << >>, allbases(list))

\* the order in which the bases are searched: all of a list, then what is behind each
RECURSIVE SearchOrder(_)
SearchOrder(list) ==
    FoldLeft(LAMBDA order, b : order \o SearchOrder(Bases(bases[b])), list, list)
\* ... and that of is_abstract_inherit(): a base and what is behind it, then the next
RECURSIVE DepthFirst(_)
DepthFirst(list) ==
    FoldLeft(LAMBDA order, b : Append(order, b) \o DepthFirst(Bases(bases[b])), << >>, list)

-----------------------------------------------------------------------------
(***************************************************************************)
(* Methods: function_is_defined_in_bases(), for one method of a class and  *)
(* what was found so far.                                                  *)
(***************************************************************************)
Unmarked(method) == [virtual |-> method.virtual, override |-> 0, hides |-> 0,
                     covariant |-> "", ignore |-> FALSE]

\* mutant of is_non_public_base: protected bases are forgotten
is_non_public_base_Private(list, b) == <<b, "private">> \in ToSet(list)

is_non_public_base(list, b) == {<<b, "private">>, <<b, "protected">>} \cap ToSet(list) # {}

\* function_is_defined_in_bases_seek(): a base class b has a method like m, too
Seek(found, list, m, overloaded, b, base, mark) ==
    LET matches == m.type = base.type \/ m.type = "derived"
        both == m.access = "public" /\ base.access = "public"
        open == both /\ ~is_non_public_base(list, b)
        covariant == IF mark.covariant = "" /\ m.type # base.type THEN base.type
                     ELSE mark.covariant
        attr == found.attr
    IN IF found.ends \/ ~matches THEN found
       ELSE [ends |-> both,
             attr |->
                IF ~mark.virtual THEN [attr EXCEPT !.hides = IF open THEN b ELSE @]
                ELSE [attr EXCEPT
                        !.virtual = TRUE,
                        !.override = IF open THEN b ELSE @,
                        !.covariant = IF covariant = "" THEN @ ELSE covariant,
                        !.ignore = @ \/ (/\ virtual_elimination_mode
                                         /\ open /\ covariant = "" /\ ~overloaded)]]

function_is_defined_in_bases(list, methods, s) ==
    LET overloaded == \E t \in (DOMAIN methods) \ {s} : methods[t].access = "public" IN
    FoldLeft(LAMBDA found, b :
                 IF s \notin DOMAIN Methods(b) THEN found
                 ELSE Seek(found, list, methods[s], overloaded, b, Methods(b)[s], marks[b][s]),
             [ends |-> FALSE, attr |-> Unmarked(methods[s])],
             SearchOrder(Bases(list))).attr

-----------------------------------------------------------------------------
(***************************************************************************)
(* Abstract classes.                                                       *)
(***************************************************************************)
Pure(c, methods) == {<<c, s>> : s \in {t \in DOMAIN methods : methods[t].pure}}

\* check_implemented(), in the scope of a class and the scopes it inherits
Implemented(list, methods, s) ==
    \/ s \in DOMAIN methods /\ ~methods[s].pure
    \/ \E b \in ToSet(SearchOrder(Bases(list))) : s \in DOMAIN Methods(b) /\ ~Methods(b)[s].pure

\* mutant of is_abstract_inherit: only the direct bases are asked
is_abstract_inherit_Direct(list, methods) ==
    UNION {{m \in abstract[b[1]] : ~Implemented(list, methods, m[2])} : b \in ToSet(list)}

\* is_abstract_inherit(): what the first abstract base leaves open
is_abstract_inherit(list, methods) ==
    LET Open(b) == {m \in abstract[b] : ~Implemented(list, methods, m[2])}
        open == SelectSeq(DepthFirst(Bases(list)), LAMBDA b : Open(b) # {})
    IN IF open = << >> THEN {} ELSE Open(open[1])

-----------------------------------------------------------------------------
(***************************************************************************)
(* Special members.                                                        *)
(***************************************************************************)
\* constructorDeclaration(), destructorDeclaration(), cDeclaration()
Own(m) ==
    (IF m.ctor # "none" \/ m.copy # "none" THEN {"has_constructor"} ELSE {})
    \cup (IF m.ctor = "public" THEN {"default_constructor"} ELSE {})
    \cup (IF m.ctor = "protected" THEN {"default_base_constructor"} ELSE {})
    \cup (IF m.copy # "none" THEN {"has_copy_constructor"} ELSE {})
    \cup (IF m.copy = "public" THEN {"copy_constructor"} ELSE {})
    \cup (IF m.copy = "protected" THEN {"copy_base_constructor"} ELSE {})
    \cup (IF m.dtor # "none" THEN {"has_destructor"} ELSE {})
    \cup (IF m.dtor = "public" THEN {"default_destructor"} ELSE {})
    \cup (IF m.dtor = "protected" THEN {"default_base_destructor"} ELSE {})
    \cup (IF m.assign # "none" THEN {"has_assign"} ELSE {})
    \cup (IF m.assign \in {"private", "protected"} THEN {"noassign"} ELSE {})
    \cup (IF m.new # "none" THEN {"has_new"} ELSE {})
    \cup (IF m.new \in {"private", "protected"} THEN {"nonew"} ELSE {})

\* mutant of Implicit: the bases' protected members do not count
Implicit_Public(own, list, has, kind, base) ==
    IF has \notin own /\ \A b \in ToSet(list) : kind \in flags[b[1]] THEN {kind} ELSE {}

\* classDeclaration(): a class without one of its own has it if all bases do
Implicit(own, list, has, kind, base) ==
    IF has \notin own /\ \A b \in ToSet(list) : {kind, base} \cap flags[b[1]] # {} THEN {kind}
    ELSE {}

\* ... and what the last base with an operator forbids is forbidden
Forbidden(own, list, has, no) ==
    LET with == SelectSeq(allbases(list), LAMBDA b : has \in flags[b[1]])
    IN IF has \notin own /\ with # << >> /\ no \in flags[Last(with)[1]] THEN {no} ELSE {}

classDeclaration(c, list, m) ==
    LET own == Own(m) IN
    /\ bases' = Append(bases, list)
    /\ members' = Append(members, m)
    /\ marks' = Append(marks, [s \in DOMAIN m.methods |->
                                   function_is_defined_in_bases(list, m.methods, s)])
    /\ abstract' = Append(abstract, IF Pure(c, m.methods) # {} THEN Pure(c, m.methods)
                                    ELSE is_abstract_inherit(list, m.methods))
    /\ flags' = Append(flags,
          own \cup Implicit(own, list, "has_constructor", "default_constructor",
                                 "default_base_constructor")
              \cup Implicit(own, list, "has_copy_constructor", "copy_constructor",
                                 "copy_base_constructor")
              \cup Implicit(own, list, "has_destructor", "default_destructor",
                                 "default_base_destructor")
              \cup Forbidden(own, list, "has_assign", "noassign")
              \cup Forbidden(own, list, "has_new", "nonew"))

\* an overriding method has the type of the one it overrides, or a covariant one
LegalMethods(list, m) ==
    \A b \in ToSet(SearchOrder(Bases(list))), s \in DOMAIN m.methods :
        s \in DOMAIN Methods(b) /\ marks[b][s].virtual
            => m.methods[s].type \in {Methods(b)[s].type, "derived"}

Next == LET c == Len(bases) + 1 IN
        /\ c \in Class
        /\ \E list \in BaseLists[c], m \in Members :
               LegalMethods(list, m) /\ classDeclaration(c, list, m)

Spec == Init /\ [][Next]_vars

-----------------------------------------------------------------------------
\* lang.cxx: a method of a wrapped class is wrapped
WrapsMethod(c, s) ==
    s \in DOMAIN Methods(c) /\ Methods(c)[s].access = "public" /\ ~marks[c][s].ignore

-----------------------------------------------------------------------------
(***************************************************************************)
(* What C++ says.                                                          *)
(***************************************************************************)
Usable == {"public", "protected"}

RECURSIVE Destructor(_)
Destructor(c) ==
    IF members[c].dtor # "none" THEN members[c].dtor
    ELSE IF \A b \in ToSet(bases[c]) : Destructor(b[1]) \in Usable THEN "public" ELSE "deleted"

RECURSIVE Constructor(_)
Constructor(c) ==
    IF members[c].ctor # "none" \/ members[c].copy # "none" THEN members[c].ctor
    ELSE IF \A b \in ToSet(bases[c]) : Constructor(b[1]) \in Usable /\ Destructor(b[1]) \in Usable
    THEN "public" ELSE "deleted"

RECURSIVE Copy(_)
Copy(c) ==
    IF members[c].copy # "none" THEN members[c].copy
    ELSE IF \A b \in ToSet(bases[c]) : Copy(b[1]) \in Usable /\ Destructor(b[1]) \in Usable
    THEN "public" ELSE "deleted"

RECURSIVE Assignment(_)
Assignment(c) ==
    IF members[c].assign # "none" THEN members[c].assign
    ELSE IF \A b \in ToSet(bases[c]) : Assignment(b[1]) \in Usable THEN "public" ELSE "deleted"

\* the operators new that the name means in a class
RECURSIVE New(_)
New(c) == IF members[c].new # "none" THEN {c} ELSE UNION {New(b[1]) : b \in ToSet(bases[c])}
MayNew(c) == New(c) = {} \/ \E b \in Class : New(c) = {b} /\ members[b].new = "public"

\* parameters of pure virtual methods that have no final overrider
RECURSIVE Unimplemented(_)
Unimplemented(c) ==
    {s \in DOMAIN Methods(c) : Methods(c)[s].pure}
    \cup (UNION {Unimplemented(b[1]) : b \in ToSet(bases[c])} \ DOMAIN Methods(c))

RECURSIVE Virtual(_, _)
Virtual(c, s) ==
    \/ s \in DOMAIN Methods(c) /\ Methods(c)[s].virtual
    \/ \E b \in ToSet(bases[c]) : Virtual(b[1], s)

-----------------------------------------------------------------------------
(***************************************************************************)
(* Properties.                                                             *)
(***************************************************************************)
Behind(c) == ToSet(SearchOrder(Bases(bases[c])))
Passed(c) ==
    UNION {{b[1]} \cup Behind(b[1]) : b \in {d \in ToSet(bases[c]) : d[2] = "public"}}
\* inheritance that is not public and that is_non_public_base() does not see
Overlooked(c, s) ==
    \/ \E b \in ToSet(bases[c]) : b[2] # "public" /\
           ~(s \in DOMAIN Methods(b[1]) /\ Methods(b[1])[s].access = "public")
    \/ \E d \in Behind(c) : \E b \in ToSet(bases[d]) : b[2] # "public"

\* constructors are taken to exist where C++ has them, but the destructor of
\* the bases is not asked
ConstructorsRight(c) ==
    (\A b \in Behind(c) : Destructor(b) \in Usable) =>
        /\ "default_constructor" \in flags[c] <=> Constructor(c) = "public"
        /\ "copy_constructor" \in flags[c] <=> Copy(c) = "public"

DestructorsRight(c) == "default_destructor" \in flags[c] <=> Destructor(c) = "public"

\* what a base forbids is found when it is the only base with the operator,
\* and its own operator
OneDeclares(c, with) ==
    /\ Cardinality({b \in ToSet(bases[c]) : b[1] \in with}) < 2
    /\ \A b \in ToSet(bases[c]) : Behind(b[1]) \cap with = {}
OperatorsRight(c) ==
    /\ "noassign" \in flags[c] => Assignment(c) # "public"
    /\ OneDeclares(c, {d \in Declared : members[d].assign # "none"}) =>
           (Assignment(c) # "public" => "noassign" \in flags[c])
    /\ OneDeclares(c, {d \in Declared : members[d].new # "none"}) =>
           ("nonew" \in flags[c] <=> ~MayNew(c))

\* a class that is not abstract is not taken to be; an abstract one is found,
\* unless some base, related or not, implements a method of this kind
AbstractRight(c) ==
    /\ abstract[c] # {} => Unimplemented(c) # {}
    /\ Unimplemented(c) # {} /\ abstract[c] = {} =>
           \A s \in Unimplemented(c) : \E b \in Behind(c) \cup {c} :
               s \in DOMAIN Methods(b) /\ ~Methods(b)[s].pure

\* a method is virtual when C++ says so, unless a method that is not virtual
\* was found first; the method it overrides is virtual, and a method that is
\* left out can be called through a base
MethodsRight(c) == \A s \in DOMAIN Methods(c) :
    LET mark == marks[c][s] IN
    /\ mark.virtual => Virtual(c, s)
    /\ Virtual(c, s) /\ ~mark.virtual =>
           \E b \in Behind(c) : s \in DOMAIN Methods(b) /\ ~marks[b][s].virtual
    /\ mark.override # 0 => mark.virtual /\ marks[mark.override][s].virtual
    /\ mark.hides # 0 => ~marks[mark.hides][s].virtual
    /\ mark.ignore /\ ~Overlooked(c, s) => \E b \in Passed(c) : WrapsMethod(b, s)

\* What the pass of allocate.cxx concludes about a class is what C++ says of
\* it: which special members it has, whether it is abstract, which methods are
\* virtual and what can be left out.
ClassesRight == \A c \in Declared :
    /\ ConstructorsRight(c) /\ DestructorsRight(c) /\ OperatorsRight(c)
    /\ AbstractRight(c) /\ MethodsRight(c)
=============================================================================
