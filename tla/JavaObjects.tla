---------------------------- MODULE JavaObjects ----------------------------
(***************************************************************************)
(* Directors in Java: the proxy classes of Lib/java/java.swg, as           *)
(* Source/Modules/java.cxx writes them, and Lib/java/director.swg.  A      *)
(* proxy has the address of its C++ object and a flag whether Java has to  *)
(* delete it; the object keeps its proxy with a JNI reference, weak while  *)
(* Java owns the object and global while C++ does.                         *)
(*                                                                         *)
(* Threads of the program call each other's code as deep as they like; the *)
(* virtual machine finalizes what nothing refers to in a thread of its     *)
(* own.  The program is one that deletes what it owns, and nothing that is *)
(* in a call.                                                              *)
(***************************************************************************)
EXTENDS Naturals, Sequences, FiniteSets

CONSTANTS
    Obj, Proxy,
    JavaThread,     \* of the program
    Finalizer,  \* the thread of the virtual machine
    MaxCalls,   \* bound: calls of a thread in each other
    Null

JavaThreads == JavaThread \cup {Finalizer}

VARIABLES
    cpp,        \* of a C++ object: "none", "alive", "dying", "dead", "twice" deleted
    cppOwns,    \* objects that the program's C++ code has to delete
    jthis,      \* JObjectWrapper::jthis_, the proxy it refers to or Null
    weak,       \* objects with weak_global_
    jniRefs,    \* the JNI references there are: <<object, "weak" or "global">>
    proxy,      \* of a proxy: "none", "live", "finalized", "gone"
    swigCPtr, swigCMemOwn,
    held,       \* proxies that a Java variable refers to
    lost,       \* history: objects whose call did not arrive
    jstack       \* calls of a thread, the innermost last

javaVars == <<cpp, cppOwns, jthis, weak, jniRefs, proxy, swigCPtr, swigCMemOwn, held, lost,
              jstack>>
cppVars   == <<cpp, cppOwns, jthis, weak, jniRefs>>
proxyVars == <<proxy, swigCPtr, swigCMemOwn, held>>

JavaTypeOK ==
    /\ cpp \in [Obj -> {"none", "alive", "dying", "dead", "twice"}]
    /\ cppOwns \subseteq Obj /\ weak \subseteq Obj /\ lost \subseteq Obj
    /\ jthis \in [Obj -> Proxy \cup {Null}]
    /\ jniRefs \subseteq Obj \X {"weak", "global"}
    /\ proxy \in [Proxy -> {"none", "live", "finalized", "gone"}]
    /\ swigCPtr \in [Proxy -> Obj \cup {Null}]
    /\ swigCMemOwn \in [Proxy -> BOOLEAN]
    /\ held \subseteq {p \in Proxy : proxy[p] # "none"}
    /\ \A t \in JavaThreads : \A n \in DOMAIN jstack[t] : jstack[t][n].of \in Obj \cup Proxy

-----------------------------------------------------------------------------
(***************************************************************************)
(* Threads.                                                                *)
(***************************************************************************)
Activation(f, x, at) == [call |-> f, of |-> x, at |-> at]
Innermost(t) ==
    IF jstack[t] = << >> THEN Activation("program", Null, "") ELSE jstack[t][Len(jstack[t])]
Below(t) == SubSeq(jstack[t], 1, Len(jstack[t]) - 1)
Invoke(t, f) == jstack' = [jstack EXCEPT ![t] = Append(@, f)]
Goto(t, f) == jstack' = [jstack EXCEPT ![t] = Append(Below(t), f)]
GotoAndCall(t, f, g) == jstack' = [jstack EXCEPT ![t] = Below(t) \o <<f, g>>]
Leave(t) == jstack' = [jstack EXCEPT ![t] = Below(t)]

InCall(x, calls) ==
    \E t \in JavaThreads : \E n \in DOMAIN jstack[t] :
        jstack[t][n].of = x /\ jstack[t][n].call \in calls

\* delete() is synchronized
MonitorFree(t, p) == \A u \in JavaThreads \ {t} :
    \A n \in DOMAIN jstack[u] : jstack[u][n].call = "delete" => jstack[u][n].of # p

\* the program's own code, at the outermost level or in an override
ProgramRuns(t) ==
    /\ t \in JavaThread /\ Innermost(t).call \in {"program", "upcall"}
    /\ Len(jstack[t]) < MaxCalls

Reachable(p) ==
    \/ p \in held
    \/ \E o \in Obj : jthis[o] = p /\ <<o, "global">> \in jniRefs
    \/ InCall(p, {"delete", "disconnect", "release", "take", "upcall"})

JavaInit ==
    /\ cpp = [o \in Obj |-> "none"] /\ cppOwns = {}
    /\ jthis = [o \in Obj |-> Null] /\ weak = {} /\ jniRefs = {}
    /\ proxy = [p \in Proxy |-> "none"] /\ swigCPtr = [p \in Proxy |-> Null]
    /\ swigCMemOwn = [p \in Proxy |-> FALSE] /\ held = {} /\ lost = {}
    /\ jstack = [t \in JavaThreads |-> << >>]

-----------------------------------------------------------------------------
\* the constructor of a proxy class, with the directorconnect code of its javaconstruct
\* typemap; weakref is FALSE for classes with SWIG_DIRECTOR_OWNED, which C++ code deletes
Construct(t, p, o, weakref) ==
    /\ ProgramRuns(t) /\ proxy[p] = "none" /\ cpp[o] = "none"
    /\ cpp' = [cpp EXCEPT ![o] = "alive"]
    /\ cppOwns' = IF weakref THEN cppOwns ELSE cppOwns \cup {o}
    /\ proxy' = [proxy EXCEPT ![p] = "live"] /\ held' = held \cup {p}
    /\ swigCPtr' = [swigCPtr EXCEPT ![p] = o]
    /\ swigCMemOwn' = [swigCMemOwn EXCEPT ![p] = TRUE]
    /\ jthis' = [jthis EXCEPT ![o] = p]
    /\ weak' = IF weakref THEN weak \cup {o} ELSE weak
    /\ jniRefs' = jniRefs \cup {<<o, IF weakref THEN "weak" ELSE "global">>}
    /\ UNCHANGED <<lost, jstack>>

(***************************************************************************)
(* delete(), and what the destructor of the object does.                   *)
(***************************************************************************)
CallDelete(t, p) ==
    /\ ProgramRuns(t) /\ p \in held /\ MonitorFree(t, p) /\ ~InCall(p, {"release", "take"})
    /\ swigCMemOwn[p] => /\ swigCPtr[p] \in {o \in Obj \ cppOwns : cpp[o] = "alive"}
                          /\ ~InCall(p, {"upcall"})
    /\ Invoke(t, Activation("delete", p, "test"))
    /\ UNCHANGED <<cppVars, proxyVars, lost>>

\* delete of an object, whoever wants it
Dies(o) == cpp' = [cpp EXCEPT ![o] = IF @ = "alive" THEN "dying" ELSE "twice"]

DeleteTest(t) ==
    LET p == Innermost(t).of
        o == swigCPtr[p] IN
    /\ Innermost(t).call = "delete" /\ Innermost(t).at = "test"
    /\ IF o # Null /\ swigCMemOwn[p]
       THEN /\ swigCMemOwn' = [swigCMemOwn EXCEPT ![p] = FALSE]
            /\ Dies(o)
            /\ GotoAndCall(t, Activation("delete", p, "clear"), Activation("dtor", o, "disconnect"))
       ELSE Goto(t, Activation("delete", p, "clear")) /\ UNCHANGED <<swigCMemOwn, cpp>>
    /\ UNCHANGED <<cppOwns, jthis, weak, jniRefs, proxy, swigCPtr, held, lost>>

DeleteClear(t) ==
    /\ Innermost(t).call = "delete" /\ Innermost(t).at = "clear"
    /\ swigCPtr' = [swigCPtr EXCEPT ![Innermost(t).of] = Null]
    /\ Leave(t)
    /\ UNCHANGED <<cppVars, proxy, swigCMemOwn, held, lost>>

\* C++ code deletes what it owns
DeleteInCpp(t, o) ==
    /\ ProgramRuns(t) /\ o \in cppOwns /\ cpp[o] = "alive"
    /\ ~InCall(jthis[o], {"upcall", "release", "take"})
    /\ cppOwns' = cppOwns \ {o} /\ Dies(o)
    /\ Invoke(t, Activation("dtor", o, "disconnect"))
    /\ UNCHANGED <<jthis, weak, jniRefs, proxyVars, lost>>

\* ~SwigDirector_X(): swig_disconnect_director_self() calls swigDirectorDisconnect()
DtorDisconnect(t) ==
    LET o == Innermost(t).of
        p == jthis[o] IN
    /\ Innermost(t).call = "dtor" /\ Innermost(t).at = "disconnect"
    /\ IF p # Null /\ proxy[p] # "gone"
       THEN GotoAndCall(t, Activation("dtor", o, "release"), Activation("disconnect", p, "own"))
       ELSE Goto(t, Activation("dtor", o, "release"))
    /\ UNCHANGED <<cppVars, proxyVars, lost>>

\* a disconnect method that leaves the address
Disconnect_OwnOnly(t) ==
    LET p == Innermost(t).of IN
    /\ Innermost(t).call = "disconnect" /\ Innermost(t).at = "own"
    /\ swigCMemOwn' = [swigCMemOwn EXCEPT ![p] = FALSE]
    /\ Leave(t)
    /\ UNCHANGED <<cppVars, proxy, swigCPtr, held, lost>>

Disconnect(t) ==
    LET p == Innermost(t).of IN
    /\ Innermost(t).call = "disconnect" /\ Innermost(t).at = "own"
    /\ swigCMemOwn' = [swigCMemOwn EXCEPT ![p] = FALSE]
    /\ Goto(t, Activation("disconnect", p, "delete"))
    /\ UNCHANGED <<cppVars, proxy, swigCPtr, held, lost>>

DisconnectDelete(t) ==
    LET p == Innermost(t).of IN
    /\ Innermost(t).call = "disconnect" /\ Innermost(t).at = "delete" /\ MonitorFree(t, p)
    /\ Goto(t, Activation("delete", p, "test"))
    /\ UNCHANGED <<cppVars, proxyVars, lost>>

\* JObjectWrapper::release() in ~Director()
DtorRelease(t) ==
    LET o == Innermost(t).of IN
    /\ Innermost(t).call = "dtor" /\ Innermost(t).at = "release"
    /\ jniRefs' = IF jthis[o] = Null \/ (o \in weak /\ proxy[jthis[o]] = "gone") THEN jniRefs
                  ELSE jniRefs \ {<<o, IF o \in weak THEN "weak" ELSE "global">>}
    /\ jthis' = [jthis EXCEPT ![o] = Null]
    /\ weak' = weak \cup {o}
    /\ cpp' = [cpp EXCEPT ![o] = IF @ = "dying" THEN "dead" ELSE @]
    /\ Leave(t)
    /\ UNCHANGED <<cppOwns, proxyVars, lost>>

-----------------------------------------------------------------------------
(***************************************************************************)
(* swigReleaseOwnership() and swigTakeOwnership(), with                    *)
(* java_change_ownership().                                                *)
(***************************************************************************)
ReleaseOwnership(t, p) ==
    /\ ProgramRuns(t) /\ p \in held /\ swigCMemOwn[p]
    /\ swigCPtr[p] \in {o \in Obj \ cppOwns : cpp[o] = "alive"}
    /\ ~InCall(p, {"delete", "release", "take"})
    /\ swigCMemOwn' = [swigCMemOwn EXCEPT ![p] = FALSE]
    /\ Invoke(t, Activation("release", p, ""))
    /\ UNCHANGED <<cppVars, proxy, swigCPtr, held, lost>>

\* a change of the owner that keeps the weak reference
ChangeToCpp_Weak(t) ==
    /\ Innermost(t).call = "release"
    /\ cppOwns' = cppOwns \cup {swigCPtr[Innermost(t).of]}
    /\ Leave(t)
    /\ UNCHANGED <<cpp, jthis, weak, jniRefs, proxyVars, lost>>

\* ... after which C++ code has to delete the object
ChangeToCpp(t) ==
    LET o == swigCPtr[Innermost(t).of] IN
    /\ Innermost(t).call = "release"
    /\ IF o \in weak
       THEN /\ jniRefs' = (jniRefs \ {<<o, "weak">>}) \cup {<<o, "global">>}
            /\ weak' = weak \ {o}
       ELSE UNCHANGED <<jniRefs, weak>>
    /\ cppOwns' = cppOwns \cup {o}
    /\ Leave(t)
    /\ UNCHANGED <<cpp, jthis, proxyVars, lost>>

\* C++ code gives the object back
TakeOwnership(t, p) ==
    /\ ProgramRuns(t) /\ p \in held /\ swigCPtr[p] \in cppOwns
    /\ ~InCall(p, {"delete", "release", "take", "disconnect"})
    /\ cppOwns' = cppOwns \ {swigCPtr[p]}
    /\ swigCMemOwn' = [swigCMemOwn EXCEPT ![p] = TRUE]
    /\ Invoke(t, Activation("take", p, ""))
    /\ UNCHANGED <<cpp, jthis, weak, jniRefs, proxy, swigCPtr, held, lost>>

ChangeToJava(t) ==
    LET o == swigCPtr[Innermost(t).of] IN
    /\ Innermost(t).call = "take"
    /\ IF o \notin weak
       THEN /\ jniRefs' = (jniRefs \ {<<o, "global">>}) \cup {<<o, "weak">>}
            /\ weak' = weak \cup {o}
       ELSE UNCHANGED <<jniRefs, weak>>
    /\ Leave(t)
    /\ UNCHANGED <<cpp, cppOwns, jthis, proxyVars, lost>>

(***************************************************************************)
(* A director method: swig_get_self() and the call of the override.        *)
(***************************************************************************)
DirectorUpcall(t, o) ==
    LET p == jthis[o] IN
    /\ ProgramRuns(t) /\ cpp[o] = "alive"
    /\ o \in cppOwns \/ \E q \in held : swigCPtr[q] = o
    /\ IF p # Null /\ proxy[p] # "gone"
       THEN Invoke(t, Activation("upcall", p, "")) /\ UNCHANGED lost
       ELSE lost' = lost \cup {o} /\ UNCHANGED jstack
    /\ UNCHANGED <<cppVars, proxyVars>>

UpcallReturns(t) ==
    /\ Innermost(t).call = "upcall"
    /\ Leave(t)
    /\ UNCHANGED <<cppVars, proxyVars, lost>>

-----------------------------------------------------------------------------
(***************************************************************************)
(* Java variables and the garbage collector.                               *)
(***************************************************************************)
DropProxy(p) ==
    /\ p \in held /\ ~InCall(p, {"upcall"})
    /\ held' = held \ {p}
    /\ UNCHANGED <<cppVars, proxy, swigCPtr, swigCMemOwn, lost, jstack>>

Finalize(p) ==
    /\ proxy[p] = "live" /\ ~Reachable(p) /\ jstack[Finalizer] = << >>
    /\ proxy' = [proxy EXCEPT ![p] = "finalized"]
    /\ Invoke(Finalizer, Activation("delete", p, "test"))
    /\ UNCHANGED <<cppVars, swigCPtr, swigCMemOwn, held, lost>>

CollectProxy(p) ==
    /\ proxy[p] = "finalized" /\ ~Reachable(p)
    /\ proxy' = [proxy EXCEPT ![p] = "gone"]
    /\ UNCHANGED <<cppVars, swigCPtr, swigCMemOwn, held, lost, jstack>>

JavaNext ==
    \/ \E t \in JavaThreads : \/ DeleteTest(t) \/ DeleteClear(t) \/ DtorDisconnect(t)
                          \/ Disconnect(t) \/ DisconnectDelete(t) \/ DtorRelease(t)
                          \/ ChangeToCpp(t) \/ ChangeToJava(t) \/ UpcallReturns(t)
    \/ \E t \in JavaThread, p \in Proxy : \/ CallDelete(t, p)
                                      \/ ReleaseOwnership(t, p) \/ TakeOwnership(t, p)
                                      \/ \E o \in Obj, w \in BOOLEAN : Construct(t, p, o, w)
    \/ \E t \in JavaThread, o \in Obj : DeleteInCpp(t, o) \/ DirectorUpcall(t, o)
    \/ \E p \in Proxy : DropProxy(p) \/ Finalize(p) \/ CollectProxy(p)

JavaSpec == JavaInit /\ [][JavaNext]_javaVars

-----------------------------------------------------------------------------
(***************************************************************************)
(* Properties.                                                             *)
(***************************************************************************)
\* java.swg, delete() and swigDirectorDisconnect(): whether delete(), the finalizer or C++
\* code comes first, the object is deleted once, and nobody is left to delete it only after.
DeletedOnce ==
    \A o \in Obj :
        /\ cpp[o] # "twice"
        /\ cpp[o] = "alive" => \/ o \in cppOwns
                               \/ \E p \in Proxy : /\ swigCPtr[p] = o /\ proxy[p] # "gone"
                                                   /\ swigCMemOwn[p] \/ InCall(p, {"release"})

\* director.swg, swig_disconnect_director_self(): no proxy keeps the address of an object
\* that is gone.
NoStaleAddress == \A p \in Proxy : swigCPtr[p] # Null => cpp[swigCPtr[p]] # "dead"

\* director.swg, java_change_ownership(): an object that C++ code uses finds its proxy, the
\* garbage collector notwithstanding (java.cxx:3789 "null upcall object").
UpcallsArrive == lost = {}

\* director.swg, JObjectWrapper: a reference is of the kind weak_global_ says, there is one
\* as long as the object lives and none later.
ReferencesRight ==
    \A o \in Obj :
        CASE cpp[o] = "alive" -> {r \in jniRefs : r[1] = o} =
                                     {<<o, IF o \in weak THEN "weak" ELSE "global">>}
          [] cpp[o] \in {"none", "dead"} -> ~ \E r \in jniRefs : r[1] = o
          [] OTHER -> TRUE

\* java.swg, delete() and swigDirectorDisconnect(): an object is deleted once, by whoever
\* comes first, and no proxy keeps the address of one that is gone.
JavaDestroysOnce == DeletedOnce /\ NoStaleAddress

\* director.swg, java_change_ownership(): a proxy that C++ code needs is not collected, and
\* no reference to it is left behind or given back as the wrong kind.
JavaUpcallsArrive == UpcallsArrive /\ ReferencesRight
=============================================================================
