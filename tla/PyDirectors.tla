---------------------------- MODULE PyDirectors ----------------------------
(***************************************************************************)
(* Calls across the languages in a threaded Python module with directors:  *)
(* the wrappers and the director methods that Source/Modules/python.cxx    *)
(* writes, Lib/python/director.swg and pythreads.swg.  There is one object *)
(* of a director class; Python's subclass overrides some of its methods,   *)
(* "pub" is public, "prot" is protected (module option dirprot).  A thread *)
(* is a stack of the frames that are open: of Python code, of C++ code, of *)
(* a base class's implementation, of a director method.                    *)
(***************************************************************************)
EXTENDS Naturals, Sequences, SequencesExt

CONSTANTS
    PyThread,  \* threads that Python code started
    CThread,   \* threads that C++ code started (test-suite/director_thread.i)
    None,      \* nobody
    MaxFrames,  \* bound: frames of a thread
    MaxNames   \* bound: Python names for the object

VARIABLES
    over,      \* the methods that are overridden in Python
    stack,     \* stack[t]: the frames, the innermost one last
    gil,       \* the thread that has the global interpreter lock
    wait,      \* wait[t]: stands in PyGILState_Ensure() or PyEval_RestoreThread()
    err,       \* err[t]: a Python error or a C++ exception is passed on
    inner,     \* SwigDirector_X::inner["prot"]
    names,     \* Python names for the object
    disowned,  \* swig_disown_flag
    refs,      \* ob_refcnt of swig_self
    read       \* read[t]: the ob_refcnt that Py_INCREF() has read

dirVars == <<over, stack, gil, wait, err, inner, names, disowned, refs, read>>

Thread == PyThread \cup CThread
Method == {"pub", "prot"}

-----------------------------------------------------------------------------
\* via: who called, "super" is Base.m(self) and "other" another proxy's m();
\* had: the thread had the lock before the block; called: Python is (or was) called
Frame(kind, m, via) == [kind |-> kind, m |-> m, via |-> via, had |-> FALSE, called |-> FALSE]

DirInit ==
    /\ over \in SUBSET Method
    /\ stack = [t \in Thread |->
           <<Frame(IF t \in PyThread THEN "py" ELSE "cpp", "none", "none")>>]
    /\ gil = None
    /\ wait = [t \in Thread |-> t \in PyThread]
    /\ err = [t \in Thread |-> FALSE]
    /\ inner = FALSE
    /\ names = 1 /\ disowned = FALSE /\ refs = 1
    /\ read = [t \in Thread |-> 0]

Top(t) == Last(stack[t])
Runs(t, kind) == ~wait[t] /\ read[t] = 0 /\ Top(t).kind = kind
Calm(t, kind) == Runs(t, kind) /\ ~err[t]

Push(t, f) == stack' = [stack EXCEPT ![t] = Append(@, f)]
Pop(t) == Len(stack[t]) > 1 /\ stack' = [stack EXCEPT ![t] = Front(@)]

Released(t) == IF gil = t THEN None ELSE gil

object == <<names, disowned, refs, read>>

\* PyGILState_Ensure(), PyEval_RestoreThread() and the interpreter's own requests
Take(t) ==
    /\ wait[t] /\ gil = None
    /\ gil' = t /\ wait' = [wait EXCEPT ![t] = FALSE]
    /\ UNCHANGED <<over, stack, err, inner, object>>

\* the interpreter lets other threads run between two instructions
Switch(t) ==
    /\ Runs(t, "py")
    /\ gil' = Released(t) /\ wait' = [wait EXCEPT ![t] = TRUE]
    /\ UNCHANGED <<over, stack, err, inner, object>>

-----------------------------------------------------------------------------
\* SWIG_PYTHON_THREAD_BEGIN_BLOCK of a director method
Enter(t, st, m, via) ==
    /\ stack' = [stack EXCEPT ![t] = Append(st, [Frame("dir", m, via) EXCEPT !.had = gil = t])]
    /\ wait' = [wait EXCEPT ![t] = gil # t]

\* mutants of Upcall: the test is missing; it is that of octave.cxx
Upcall_Never(via) == FALSE
Upcall_Director(via) == TRUE

\* is the method called for the object that the director knows as its self?
Upcall(via) == via \in {"self", "super", "dir"}

\* functionWrapper() of a director method, called on top of the frames st: it keeps
\* the lock.  A protected method needs swig_get_inner(), in; upcall is
\* swig_get_self() == obj0.
Wrapper(t, st, m, via, in) ==
    IF m = "prot" /\ ~in
    THEN /\ err' = [err EXCEPT ![t] = TRUE]
         /\ stack' = [stack EXCEPT ![t] = st] /\ UNCHANGED wait
    ELSE /\ UNCHANGED err
         /\ IF Upcall(via)
            THEN stack' = [stack EXCEPT ![t] = Append(st, Frame("base", m, via))] /\ UNCHANGED wait
            ELSE Enter(t, st, m, via)

\* a method of the Python object is called: what Python looks up for self.m is the
\* override or else the wrapper
LookUp(t, st, m, via, in) ==
    IF via \in {"self", "dir"} /\ m \in over
    THEN stack' = [stack EXCEPT ![t] = Append(st, Frame("py", m, via))] /\ UNCHANGED <<wait, err>>
    ELSE Wrapper(t, st, m, via, in)

CallMethod(t, m, via) ==
    /\ Calm(t, "py") /\ Len(stack[t]) < MaxFrames
    /\ LookUp(t, stack[t], m, via, inner)
    /\ UNCHANGED <<over, gil, inner, object>>

\* functionWrapper() of another function: THREAD_BEGIN_ALLOW around the call
CallFunction(t) ==
    /\ Calm(t, "py") /\ Len(stack[t]) < MaxFrames
    /\ Push(t, Frame("cpp", "none", "none"))
    /\ gil' = Released(t)
    /\ UNCHANGED <<over, wait, err, inner, object>>

\* an override returns or raises an exception; other Python code may catch one
PyReturn(t) ==
    /\ Runs(t, "py") /\ Pop(t)
    /\ \E e \in BOOLEAN : err' = [err EXCEPT ![t] = e]
    /\ UNCHANGED <<over, gil, wait, inner, object>>

Catch(t) ==
    /\ err[t] /\ (Runs(t, "py") \/ Runs(t, "cpp"))
    /\ err' = [err EXCEPT ![t] = FALSE]
    /\ UNCHANGED <<over, stack, gil, wait, inner, object>>

-----------------------------------------------------------------------------
\* C++ code calls the virtual method
Virtual(t, m) ==
    /\ Calm(t, "cpp") \/ Calm(t, "base")
    /\ Len(stack[t]) < MaxFrames
    /\ Enter(t, stack[t], m, "virtual")
    /\ UNCHANGED <<over, gil, err, inner, object>>

\* THREAD_END_ALLOW, by end() or by the destructor when an exception is passed on
\* to the module's %exception code; a mutant without the destructor
FunctionReturns_NoEnd(t) ==
    /\ Runs(t, "cpp") /\ Pop(t)
    /\ wait' = [wait EXCEPT ![t] = ~err[t]]
    /\ UNCHANGED <<over, gil, err, inner, object>>

FunctionReturns(t) ==
    /\ Runs(t, "cpp") /\ Pop(t)
    /\ wait' = [wait EXCEPT ![t] = TRUE]
    /\ UNCHANGED <<over, gil, err, inner, object>>

\* the wrapper of a director method catches a DirectorException: SWIG_fail
BaseReturns(t) ==
    /\ Runs(t, "base") /\ Pop(t)
    /\ UNCHANGED <<over, gil, wait, err, inner, object>>

\* classDirectorMethod(): the method of the Python object is called
DirectorCalls(t) ==
    /\ Calm(t, "dir") /\ ~Top(t).called /\ Len(stack[t]) < MaxFrames
    /\ LET m  == Top(t).m
           st == [stack[t] EXCEPT ![Len(stack[t])].called = TRUE]
       IN /\ inner' = (inner \/ m = "prot")
          /\ LookUp(t, st, m, "dir", inner')
    /\ UNCHANGED <<over, gil, object>>

\* mutant of DirectorReturns: swig_set_inner(false) stands behind the error handling
DirectorReturns_Early(t) ==
    /\ Runs(t, "dir") /\ Top(t).called /\ Pop(t)
    /\ inner' = (inner /\ (err[t] \/ Top(t).m # "prot"))
    /\ gil' = IF Top(t).had THEN gil ELSE Released(t)
    /\ UNCHANGED <<over, wait, err, object>>

\* it has returned; an error becomes a DirectorMethodException, which leaves
\* through ~SWIG_Python_Thread_Block()
DirectorReturns(t) ==
    /\ Runs(t, "dir") /\ Top(t).called /\ Pop(t)
    /\ inner' = (inner /\ Top(t).m # "prot")
    /\ gil' = IF Top(t).had THEN gil ELSE Released(t)
    /\ UNCHANGED <<over, wait, err, object>>

-----------------------------------------------------------------------------
\* Python code binds or drops a name for the object
Bind(t) ==
    /\ Calm(t, "py") /\ names < MaxNames
    /\ names' = names + 1 /\ refs' = refs + 1
    /\ UNCHANGED <<over, stack, gil, wait, err, inner, disowned, read>>

Unbind(t) ==
    /\ Calm(t, "py") /\ names > 1
    /\ names' = names - 1 /\ refs' = refs - 1
    /\ UNCHANGED <<over, stack, gil, wait, err, inner, disowned, read>>

\* swig_disown() in the wrapper disown_X(), which has let the lock go: the
\* Py_INCREF() reads the count and writes it
DisownReads(t) ==
    /\ Calm(t, "cpp") /\ Len(stack[t]) > 1 /\ ~disowned
    /\ disowned' = TRUE
    /\ read' = [read EXCEPT ![t] = refs]
    /\ UNCHANGED <<over, stack, gil, wait, err, inner, names, refs>>

DisownWrites(t) ==
    /\ read[t] # 0
    /\ refs' = read[t] + 1
    /\ read' = [read EXCEPT ![t] = 0]
    /\ UNCHANGED <<over, stack, gil, wait, err, inner, names, disowned>>

DirNext ==
    \E t \in Thread :
        \/ Take(t)
        \/ Switch(t)
        \/ \E m \in Method, via \in {"self", "super", "other"} : CallMethod(t, m, via)
        \/ CallFunction(t)
        \/ PyReturn(t)
        \/ Catch(t)
        \/ \E m \in Method : Virtual(t, m)
        \/ FunctionReturns(t)
        \/ BaseReturns(t)
        \/ DirectorCalls(t)
        \/ DirectorReturns(t)
        \/ Bind(t)
        \/ Unbind(t)
        \/ DisownReads(t)
        \/ DisownWrites(t)

DirSpec == DirInit /\ [][DirNext]_dirVars

-----------------------------------------------------------------------------
DirTypeOK ==
    /\ over \subseteq Method /\ gil \in Thread \cup {None}
    /\ \A t \in Thread : \A i \in DOMAIN stack[t] :
           stack[t][i].kind \in {"py", "cpp", "base", "dir"}
    /\ wait \in [Thread -> BOOLEAN] /\ err \in [Thread -> BOOLEAN]
    /\ inner \in BOOLEAN /\ disowned \in BOOLEAN
    /\ names \in 1..MaxNames /\ refs \in Nat

\* pythreads.swg: Python's code, the wrappers and the director methods run with the
\* lock, whatever way the thread came back to them (an exception's through the
\* blocks included); other C++ code runs without it, and nobody waits for a lock he
\* has.
LockIsRight ==
    \A t \in Thread : (gil = t) <=> ~(wait[t] \/ Top(t).kind = "cpp")

\* python.cxx:2157 "otherwise try to resolve the method in python.  without this
\* check an infinite loop is set up between the director and shadow class method
\* calls": a director method never calls itself, and what Python has overridden
\* runs, unless Python code asks for the base class's method.
OverridesRun ==
    \A t \in Thread : \A i \in 2..Len(stack[t]) :
        LET f == stack[t][i] IN
        /\ f.kind = "dir" => stack[t][i - 1].kind # "dir" /\ f.via # "super"
        /\ f.kind = "base" /\ f.m \in over => f.via = "super"

\* swig_set_inner(): nobody reaches a protected method through its wrapper when the
\* director does not stand in a call of it.
ProtectedOutside ==
    inner => \E t \in Thread : \E i \in DOMAIN stack[t] :
                 stack[t][i].kind = "dir" /\ stack[t][i].m = "prot"

\* director.swg:402 "increase the reference count of the wrapped python object": it
\* counts Python's names and the reference of a disowned director.
ReferencesCounted ==
    (\A t \in Thread : read[t] = 0) => refs = names + (IF disowned THEN 1 ELSE 0)
=============================================================================
