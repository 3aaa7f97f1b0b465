---------------------------- MODULE RubyObjects ----------------------------
(***************************************************************************)
(* Object tracking in Ruby: Lib/ruby/rubytracking.swg, rubyrun.swg and the *)
(* functions Source/Modules/ruby.cxx writes for a class with %trackobjects.*)
(* A table maps the address of a C++ object to the Ruby object that wraps  *)
(* it; the table does not keep the Ruby object alive, the garbage collector*)
(* takes it some time after the last variable is gone, and addresses are   *)
(* used again.  C++ code that deletes an object does what the manual asks  *)
(* of a %freefunc: SWIG_RubyUnlinkObjects() and SWIG_RubyRemoveTracking(). *)
(***************************************************************************)
EXTENDS Naturals

CONSTANTS
    Address,    \* addresses of C++ objects
    Val,        \* addresses of Ruby objects
    RubyType,   \* swig types an object can be returned as
    BadArgs,    \* may a disowning conversion be given an object of a wrong class?
    Nil

VARIABLES
    heap,       \* [Address -> "free", "ruby" or "cpp"]: who has to delete the object there
    data,       \* Ruby objects: DATA_PTR, type and dfree, or Nil
    trackings,  \* swig_ruby_trackings
    var         \* Ruby objects that a variable refers to

rubyVars == <<heap, data, trackings, var>>

Live == {v \in Val : data[v] # Nil}
Untracked(p) == [q \in DOMAIN trackings \ {p} |-> trackings[q]]
Tracked(p, v) == [q \in DOMAIN trackings \cup {p} |-> IF q = p THEN v ELSE trackings[q]]

RubyInit ==
    /\ heap = [p \in Address |-> "free"]
    /\ data = [v \in Val |-> Nil]
    /\ trackings = << >>
    /\ var = {}

\* Data_Wrap_Struct() and SWIG_RubyAddTracking()
Wrap(v, p, t, dfree) ==
    /\ data[v] = Nil
    /\ data' = [data EXCEPT ![v] = [ptr |-> p, type |-> t, dfree |-> dfree]]
    /\ trackings' = Tracked(p, v)
    /\ var' = var \cup {v}

\* Foo.new
New(v, p, t) ==
    /\ heap[p] = "free"
    /\ heap' = [heap EXCEPT ![p] = "ruby"]
    /\ Wrap(v, p, t, "destroy")

SWIG_RubyInstanceFor(p) == IF p \in DOMAIN trackings THEN trackings[p] ELSE Nil

\* the object that the table holds, if it has the right type
SWIG_Ruby_NewPointerObj(v, p, t, own) ==
    LET old == SWIG_RubyInstanceFor(p) IN
    IF old # Nil /\ data[old].type = t
    THEN var' = var \cup {old} /\ UNCHANGED <<data, trackings>>
    ELSE Wrap(v, p, t, IF own THEN "destroy" ELSE "untrack")

\* C++ returns an object of its own, or one that Ruby gets
Return(v, p, t) == heap[p] # "free" /\ SWIG_Ruby_NewPointerObj(v, p, t, FALSE) /\ UNCHANGED heap
ReturnNew(v, p, t, owner) ==
    /\ heap[p] = "free"
    /\ heap' = [heap EXCEPT ![p] = owner]
    /\ SWIG_Ruby_NewPointerObj(v, p, t, owner = "ruby")

\* SWIG_Ruby_ConvertPtrAndOwn() with SWIG_POINTER_DISOWN: dfree is changed
\* before the class is looked at; a stale object is reported
ConvertDisown(v, right) ==
    /\ v \in var /\ data[v].ptr # Nil /\ data[v].dfree = "destroy"
    /\ data' = [data EXCEPT ![v].dfree = "untrack"]
    /\ heap' = IF right THEN [heap EXCEPT ![data[v].ptr] = "cpp"] ELSE heap
    /\ UNCHANGED <<trackings, var>>

DropVar(v) == v \in var /\ var' = var \ {v} /\ UNCHANGED <<heap, data, trackings>>

\* the collector frees an object and calls its dfree with DATA_PTR
CollectValue(v) ==
    /\ v \in Live \ var
    /\ data' = [data EXCEPT ![v] = Nil]
    /\ LET p == data[v].ptr IN
        /\ trackings' = IF p = Nil THEN trackings ELSE Untracked(p)
        /\ heap' = IF p # Nil /\ data[v].dfree = "destroy"
                   THEN [heap EXCEPT ![p] = "free"] ELSE heap
    /\ UNCHANGED var

\* mutant of CppDelete: the Ruby object is not unlinked
CppDelete_Linked(p) ==
    /\ heap[p] = "cpp"
    /\ heap' = [heap EXCEPT ![p] = "free"]
    /\ trackings' = Untracked(p)
    /\ UNCHANGED <<data, var>>

\* C++ deletes an object: SWIG_RubyUnlinkObjects(), SWIG_RubyRemoveTracking()
CppDelete(p) ==
    /\ heap[p] = "cpp"
    /\ heap' = [heap EXCEPT ![p] = "free"]
    /\ LET v == SWIG_RubyInstanceFor(p) IN
        data' = IF v = Nil THEN data ELSE [data EXCEPT ![v].ptr = Nil]
    /\ trackings' = Untracked(p)
    /\ UNCHANGED var

RubyNext ==
    \/ \E v \in Val, p \in Address, t \in RubyType :
        \/ New(v, p, t)
        \/ Return(v, p, t)
        \/ \E owner \in {"ruby", "cpp"} : ReturnNew(v, p, t, owner)
    \/ \E v \in Val :
        \/ \E right \in IF BadArgs THEN BOOLEAN ELSE {TRUE} : ConvertDisown(v, right)
        \/ DropVar(v)
        \/ CollectValue(v)
    \/ \E p \in Address : CppDelete(p)

RubySpec == RubyInit /\ [][RubyNext]_rubyVars

-----------------------------------------------------------------------------
RubyTypeOK ==
    /\ heap \in [Address -> {"free", "ruby", "cpp"}]
    /\ data \in [Val -> {Nil} \cup [ptr : Address \cup {Nil}, type : RubyType,
                                    dfree : {"destroy", "untrack"}]]
    /\ DOMAIN trackings \subseteq Address /\ \A p \in DOMAIN trackings : trackings[p] \in Val
    /\ var \subseteq Val

\* rubyrun.swg:296 "... return a reference to a Ruby object that no longer exists
\* thereby crashing Ruby": the table only names Ruby objects that exist and wrap
\* the object at that address.
TableRight ==
    \A p \in DOMAIN trackings : data[trackings[p]] # Nil /\ data[trackings[p]].ptr = p

\* Ruby.html, "Object Tracking": no Ruby object leads to a C++ object that was
\* deleted, although its address is used again.
NoStalePointer ==
    \A v \in Live : data[v].ptr # Nil =>
        heap[data[v].ptr] # "free" /\ (data[v].dfree = "destroy" <=> heap[data[v].ptr] = "ruby")

\* Ruby.html:10323 "to ensure a one-to-one mapping from Ruby to C++ objects": no
\* two Ruby objects of a type wrap one C++ object.
OneToOne ==
    \A v, w \in Live :
        data[v].ptr = data[w].ptr /\ data[v].type = data[w].type /\ data[v].ptr # Nil => v = w

\* An object that Ruby has to delete has a Ruby object that will do it.
OwnerKnown ==
    \A p \in Address : heap[p] = "ruby" =>
        \E v \in Live : data[v].ptr = p /\ data[v].dfree = "destroy"

\* rubytracking.swg: Ruby objects and C++ objects find each other, and nothing that is gone.
TrackingRight == TableRight /\ NoStalePointer /\ OneToOne /\ OwnerKnown
=============================================================================
