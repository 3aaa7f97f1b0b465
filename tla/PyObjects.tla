----------------------------- MODULE PyObjects -----------------------------
(***************************************************************************)
(* Who destroys a wrapped C++ object: Lib/python/pyrun.swg (SwigPyObject), *)
(* Lib/python/director.swg and the proxy code Source/Modules/python.cxx    *)
(* writes.  A proxy instance has one reference to a SwigPyObject, which    *)
(* has a pointer, an ownership flag and a link to another SwigPyObject; a  *)
(* director, a C++ object with virtual methods in Python, knows its proxy. *)
(* Reference counts are kept as the code keeps them; RefsRight compares    *)
(* them with the references there are.                                     *)
(*                                                                         *)
(* A Py_DECREF or a delete can lead to others: `pyTodo' is what is still to  *)
(* be done of those that run, and each step does the first of it.          *)
(*                                                                         *)
(* The Python program is one that uses ownership as the manual says: it    *)
(* gives away what it owns and takes back what it gave.                    *)
(***************************************************************************)
EXTENDS Naturals, FiniteSets, Sequences, SequencesExt

CONSTANTS
    PyObj,      \* C++ objects
    Inst,       \* addresses of proxy instances
    This,       \* addresses of SwigPyObjects
    MaxBases,   \* bound: wrapped base classes that one instance initialises
    ArgsFail,   \* may an argument after a disowned one fail to convert?
    NULL

VARIABLES
    life,       \* of a C++ object: "unborn", "alive", "dead", "twice" destroyed
    pyCpp,      \* C++ objects that C++ code has to delete
    kept,       \* the keys with own = 1 of each director's ownership map
    self,       \* swig_self of a director, NULL for other objects
    pyDisowned, \* directors with swig_disown_flag
    this,       \* memory: SwigPyObjects
    inst,       \* memory: proxy instances
    pyHeld,     \* instances that a Python variable refers to
    pyTodo      \* what is still to be done of the calls that run, in order

pyVars == <<life, pyCpp, kept, self, pyDisowned, this, inst, pyHeld, pyTodo>>

PyAlive == {o \in PyObj : life[o] = "alive"}
InMemory(memory) == {a \in DOMAIN memory : memory[a] # NULL}

\* what can be in pyTodo
DecrefInst(i) == <<"Py_DECREF of an instance", i>>
DecrefThis(s) == <<"Py_DECREF of a SwigPyObject", s>>
PyObject_DEL(s) == <<"PyObject_DEL", s>>
Delete(o) == <<"delete", o>>

Idle == pyTodo = <<>>
First(task) == pyTodo # <<>> /\ Head(pyTodo) = task
Instead(tasks) == pyTodo' = tasks \o Tail(pyTodo)

-----------------------------------------------------------------------------
PyInit ==
    /\ life = [o \in PyObj |-> "unborn"]
    /\ pyCpp = {} /\ pyDisowned = {} /\ pyHeld = {}
    /\ kept = [o \in PyObj |-> {}]
    /\ self = [o \in PyObj |-> NULL]
    /\ this = [s \in This |-> NULL]
    /\ inst = [i \in Inst |-> NULL]
    /\ pyTodo = <<>>

SwigPyObject_New(o, own) == [ptr |-> o, own |-> own, next |-> NULL, rc |-> 1]

\* SWIG_Python_NewPointerObj() and SWIG_Python_NewShadowInstance()
NewPointerObj(i, o, own) ==
    /\ inst[i] = NULL
    /\ \E s \in This :
        /\ this[s] = NULL
        /\ this' = [this EXCEPT ![s] = SwigPyObject_New(o, own)]
        /\ inst' = [inst EXCEPT ![i] = [this |-> s, rc |-> 1, bases |-> {o}]]
    /\ pyHeld' = pyHeld \cup {i}

\* i = Foo(): __init__ of a proxy class; Foo may be a director class
InitShadowInstance(i, o, director) ==
    /\ Idle /\ life[o] = "unborn"
    /\ NewPointerObj(i, o, TRUE)
    /\ life' = [life EXCEPT ![o] = "alive"]
    /\ self' = [self EXCEPT ![o] = IF director THEN i ELSE NULL]
    /\ UNCHANGED <<pyCpp, kept, pyDisowned, pyTodo>>

\* mutant of InitBase: it replaces `this' instead of appending to it
InitBase_Replaces(i, o) ==
    /\ Idle /\ life[o] = "unborn" /\ i \in pyHeld /\ Cardinality(inst[i].bases) < MaxBases
    /\ \E s \in This :
        /\ this[s] = NULL
        /\ this' = [this EXCEPT ![s] = SwigPyObject_New(o, TRUE)]
        /\ inst' = [inst EXCEPT ![i].bases = @ \cup {o}, ![i].this = s]
    /\ life' = [life EXCEPT ![o] = "alive"]
    /\ UNCHANGED <<pyCpp, kept, self, pyDisowned, pyHeld, pyTodo>>

\* __init__ of a further base class: SWIG_Python_InitShadowInstance() finds a
\* `this' and calls SwigPyObject_append()
InitBase(i, o) ==
    /\ Idle /\ life[o] = "unborn" /\ i \in pyHeld /\ Cardinality(inst[i].bases) < MaxBases
    /\ \E s \in This :
        /\ this[s] = NULL
        /\ this' = [this EXCEPT ![s] = SwigPyObject_New(o, TRUE),
                                ![inst[i].this].next = s]
    /\ life' = [life EXCEPT ![o] = "alive"]
    /\ inst' = [inst EXCEPT ![i].bases = @ \cup {o}]
    /\ UNCHANGED <<pyCpp, kept, self, pyDisowned, pyHeld, pyTodo>>

\* a function that makes an object (%newobject, or a result by value)
ReturnOwned(i, o) ==
    /\ Idle /\ life[o] = "unborn"
    /\ NewPointerObj(i, o, TRUE)
    /\ life' = [life EXCEPT ![o] = "alive"]
    /\ UNCHANGED <<pyCpp, kept, self, pyDisowned, pyTodo>>

\* a function that returns a pointer to an object
ReturnPointer(i, o) ==
    /\ Idle /\ o \in PyAlive /\ self[o] = NULL
    /\ NewPointerObj(i, o, FALSE)
    /\ UNCHANGED <<life, pyCpp, kept, self, pyDisowned, pyTodo>>

\* ... to a director: the original proxy is returned
ReturnDirector(o) ==
    /\ Idle /\ o \in PyAlive /\ self[o] # NULL /\ self[o] \notin pyHeld
    /\ pyHeld' = pyHeld \cup {self[o]}
    /\ inst' = [inst EXCEPT ![self[o]].rc = @ + 1]
    /\ UNCHANGED <<life, pyCpp, kept, self, pyDisowned, this, pyTodo>>

\* the SwigPyObjects of an instance; the link of a link stays empty
Chain(i) == {inst[i].this, this[inst[i].this].next} \ {NULL}

\* a call that takes one of the instance's objects over: the conversion clears
\* the flag, then the other arguments are converted, then the call is made
Pass(i, s, ok) ==
    /\ Idle /\ i \in pyHeld /\ s \in Chain(i) /\ this[s].own
    /\ self[this[s].ptr] = NULL
    /\ this' = [this EXCEPT ![s].own = FALSE]
    /\ pyCpp' = IF ok THEN pyCpp \cup {this[s].ptr} ELSE pyCpp
    /\ UNCHANGED <<life, kept, self, pyDisowned, inst, pyHeld, pyTodo>>

\* i.thisown = 1
Acquire(i) ==
    /\ Idle /\ i \in pyHeld
    /\ LET s == inst[i].this IN
        /\ this[s].ptr \in pyCpp \ pyDisowned
        /\ this' = [this EXCEPT ![s].own = TRUE]
        /\ pyCpp' = pyCpp \ {this[s].ptr}
    /\ UNCHANGED <<life, kept, self, pyDisowned, inst, pyHeld, pyTodo>>

\* mutants of Disown: thisown stays set; a second call adds a reference again
Disown_Keeps(i) ==
    /\ Idle /\ i \in pyHeld
    /\ LET o == this[inst[i].this].ptr IN
          /\ self[o] = i /\ (this[inst[i].this].own \/ o \in pyDisowned)
          /\ pyCpp' = pyCpp \cup {o}
          /\ pyDisowned' = pyDisowned \cup {o}
          /\ inst' = IF o \in pyDisowned THEN inst ELSE [inst EXCEPT ![i].rc = @ + 1]
    /\ UNCHANGED <<life, kept, self, this, pyHeld, pyTodo>>

Disown_Twice(i) ==
    /\ Idle /\ i \in pyHeld
    /\ LET s == inst[i].this
           o == this[s].ptr
       IN /\ self[o] = i /\ (this[s].own \/ o \in pyDisowned)
          /\ this' = [this EXCEPT ![s].own = FALSE]
          /\ pyCpp' = pyCpp \cup {o}
          /\ pyDisowned' = pyDisowned \cup {o}
          /\ inst' = [inst EXCEPT ![i].rc = @ + 1]
    /\ UNCHANGED <<life, kept, self, pyHeld, pyTodo>>

\* i.__disown__(): thisown = 0 and Director::swig_disown(); it may be called again
Disown(i) ==
    /\ Idle /\ i \in pyHeld
    /\ LET s == inst[i].this
           o == this[s].ptr
       IN /\ self[o] = i /\ (this[s].own \/ o \in pyDisowned)
          /\ this' = [this EXCEPT ![s].own = FALSE]
          /\ pyCpp' = pyCpp \cup {o}
          /\ pyDisowned' = pyDisowned \cup {o}
          /\ inst' = IF o \in pyDisowned THEN inst ELSE [inst EXCEPT ![i].rc = @ + 1]
    /\ UNCHANGED <<life, kept, self, pyHeld, pyTodo>>

\* a director's method returns instance i to C++ (directorout)
DirectorOut(d, i) ==
    /\ Idle /\ d \in PyAlive /\ self[d] # NULL /\ i \in pyHeld
    /\ LET s == inst[i].this IN
        /\ this[s].ptr \in PyAlive /\ this[s].ptr # d /\ self[this[s].ptr] = NULL
        /\ this' = [this EXCEPT ![s].own = FALSE]
        /\ kept' = [kept EXCEPT ![d] = IF this[s].own THEN @ \cup {this[s].ptr} ELSE @]
    /\ UNCHANGED <<life, pyCpp, self, pyDisowned, inst, pyHeld, pyTodo>>

\* ... and the method was called from Python: the wrapper makes a new proxy and
\* takes the ownership out of the map (directorfree)
DirectorFree(d, i, o) ==
    /\ Idle /\ d \in PyAlive /\ o \in kept[d]
    /\ NewPointerObj(i, o, TRUE)
    /\ kept' = [kept EXCEPT ![d] = @ \ {o}]
    /\ UNCHANGED <<life, pyCpp, self, pyDisowned, pyTodo>>

\* C++ deletes what it has to
CppDeletes(o) ==
    /\ Idle /\ o \in pyCpp
    /\ pyCpp' = pyCpp \ {o}
    /\ pyTodo' = <<Delete(o)>>
    /\ UNCHANGED <<life, kept, self, pyDisowned, this, inst, pyHeld>>

\* a Python variable goes away
Drop(i) ==
    /\ Idle /\ i \in pyHeld
    /\ pyHeld' = pyHeld \ {i}
    /\ pyTodo' = <<DecrefInst(i)>>
    /\ UNCHANGED <<life, pyCpp, kept, self, pyDisowned, this, inst>>

\* delete of a C++ object; ~Director() releases the proxy
Destroy(o) ==
    /\ First(Delete(o))
    /\ IF o \in PyAlive
       THEN /\ life' = [life EXCEPT ![o] = "dead"]
            /\ pyDisowned' = pyDisowned \ {o}
            /\ Instead(IF o \in pyDisowned THEN <<DecrefInst(self[o])>> ELSE <<>>)
       ELSE life' = [life EXCEPT ![o] = "twice"] /\ Instead(<<>>) /\ UNCHANGED pyDisowned
    /\ UNCHANGED <<pyCpp, kept, self, this, inst, pyHeld>>

\* the last reference to an instance: its `this' is released
ReleaseInst(i) ==
    /\ First(DecrefInst(i))
    /\ IF inst[i].rc > 1
       THEN inst' = [inst EXCEPT ![i].rc = @ - 1] /\ Instead(<<>>)
       ELSE inst' = [inst EXCEPT ![i] = NULL] /\ Instead(<<DecrefThis(inst[i].this)>>)
    /\ UNCHANGED <<life, pyCpp, kept, self, pyDisowned, this, pyHeld>>

\* the destroy method converts its argument with SWIG_POINTER_DISOWN
SwigPyObject_dealloc(s) ==
    /\ this' = [this EXCEPT ![s].own = FALSE]
    /\ Instead((IF this[s].own THEN <<Delete(this[s].ptr)>> ELSE <<>>)
               \o (IF this[s].next # NULL THEN <<DecrefThis(this[s].next)>> ELSE <<>>)
               \o <<PyObject_DEL(s)>>)

ReleaseThis(s) ==
    /\ First(DecrefThis(s))
    /\ IF this[s].rc > 1
       THEN this' = [this EXCEPT ![s].rc = @ - 1] /\ Instead(<<>>)
       ELSE SwigPyObject_dealloc(s)
    /\ UNCHANGED <<life, pyCpp, kept, self, pyDisowned, inst, pyHeld>>

Free(s) ==
    /\ First(PyObject_DEL(s))
    /\ this' = [this EXCEPT ![s] = NULL] /\ Instead(<<>>)
    /\ UNCHANGED <<life, pyCpp, kept, self, pyDisowned, inst, pyHeld>>

PyNext ==
    \/ \E i \in Inst, o \in PyObj :
        \/ \E director \in BOOLEAN : InitShadowInstance(i, o, director)
        \/ InitBase(i, o)
        \/ ReturnOwned(i, o)
        \/ ReturnPointer(i, o)
        \/ \E d \in PyObj : DirectorFree(d, i, o)
    \/ \E i \in Inst :
        \/ \E s \in This, ok \in IF ArgsFail THEN BOOLEAN ELSE {TRUE} : Pass(i, s, ok)
        \/ Acquire(i)
        \/ Disown(i)
        \/ \E d \in PyObj : DirectorOut(d, i)
        \/ Drop(i)
        \/ ReleaseInst(i)
    \/ \E s \in This : ReleaseThis(s) \/ Free(s)
    \/ \E o \in PyObj : ReturnDirector(o) \/ CppDeletes(o) \/ Destroy(o)

PySpec == PyInit /\ [][PyNext]_pyVars

-----------------------------------------------------------------------------
(***************************************************************************)
(* Properties                                                              *)
(***************************************************************************)
\* Memory holds what the structs declare.
PyTypeOK ==
    /\ life \in [PyObj -> {"unborn", "alive", "dead", "twice"}]
    /\ pyCpp \in SUBSET PyObj /\ pyDisowned \in SUBSET PyObj /\ pyHeld \in SUBSET Inst
    /\ kept \in [PyObj -> SUBSET PyObj] /\ self \in [PyObj -> Inst \cup {NULL}]
    /\ this \in [This -> {NULL} \cup [ptr : PyObj, own : BOOLEAN, next : This \cup {NULL},
                                      rc : Nat \ {0}]]
    /\ inst \in [Inst -> {NULL} \cup [this : This, rc : Nat \ {0}, bases : SUBSET PyObj]]
    /\ \A k \in DOMAIN pyTodo :
        pyTodo[k] \in {DecrefInst(i) : i \in Inst} \cup {DecrefThis(s) : s \in This}
                     \cup {PyObject_DEL(s) : s \in This} \cup {Delete(o) : o \in PyObj}

Pending(task) == task \in ToSet(pyTodo)
Count(holds) == IF holds THEN 1 ELSE 0

\* what a director kept when it was destroyed: its map goes, GCItem_Object deletes nothing
Abandoned == UNION {kept[d] : d \in PyObj \ PyAlive}

\* pyrun.swg, director.swg: at all times exactly one party has to destroy a C++
\* object: one SwigPyObject with own = 1, or C++, or a director that keeps it, as
\* long as there is that director, or a call that is about to.  With none it leaks,
\* with two it is deleted twice.
OneOwner ==
    \A o \in PyObj :
        Cardinality({s \in InMemory(this) : this[s].own /\ this[s].ptr = o})
        + Cardinality({d \in PyAlive : o \in kept[d]})
        + Count(o \in pyCpp) + Count(Pending(Delete(o)))
        = Count(o \in PyAlive \ Abandoned)

\* The links of structures whose deallocation has not yet come to PyObject_DEL().
Linked == {s \in InMemory(this) : ~Pending(PyObject_DEL(s))}

\* The counts are the references there are: none is forgotten, none is
\* released twice.
RefsRight ==
    /\ \A s \in Linked :
        this[s].rc = Cardinality({i \in InMemory(inst) : inst[i].this = s})
                   + Cardinality({r \in Linked : this[r].next = s})
                   + Count(Pending(DecrefThis(s)))
    /\ \A i \in InMemory(inst) :
        inst[i].rc = Count(i \in pyHeld) + Cardinality({o \in pyDisowned : self[o] = i})
                   + Count(Pending(DecrefInst(i)))

\* pyrun.swg:476: whatever the order of drops, deletes and disowning calls, no
\* object is destroyed twice, no structure is used after it was freed, and none
\* is kept for ever.
DestroyedOnce ==
    /\ \A o \in PyObj : life[o] # "twice"
    /\ \A i \in InMemory(inst) : inst[i].this \in Linked
    /\ \A s \in Linked : this[s].next \in Linked \cup {NULL}
    /\ \A s \in This : Pending(DecrefThis(s)) \/ Pending(PyObject_DEL(s)) => s \in InMemory(this)
    /\ pyHeld \subseteq InMemory(inst)
    /\ \A o \in pyDisowned : self[o] \in InMemory(inst)
    /\ RefsRight

\* pyrun.swg:609 "appends another 'this' object": every base class that an
\* instance has initialised can be found by a conversion of the instance.  It is
\* so for two of them: the link of a third replaces that of the second.
BasesReachable ==
    \A i \in InMemory(inst) : inst[i].bases \subseteq {this[s].ptr : s \in Chain(i)}
=============================================================================
