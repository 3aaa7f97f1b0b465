---------------------------- MODULE PlainCompiler ----------------------------
(***************************************************************************)
(* What ccache promises its caller: a build tree asks for its source to be *)
(* compiled and is given the result of compiling one of the versions that  *)
(* the source had while it waited.  There is no cache, and what happens in *)
(* one tree never touches the result of another.                           *)
(***************************************************************************)
CONSTANTS Tree, Key, None

VARIABLES
    source,     \* [Tree -> Key] the version in the tree's source file
    waiting,    \* [Tree -> BOOLEAN] a compile was asked for
    seen,       \* [Tree -> versions of the source since it was asked for]
    result      \* [Tree -> the version whose result the tree holds, or None]

vars == <<source, waiting, seen, result>>

Init ==
    /\ source \in [Tree -> Key]
    /\ waiting = [t \in Tree |-> FALSE]
    /\ seen = [t \in Tree |-> {}]
    /\ result = [t \in Tree |-> None]

Ask(t) ==
    /\ ~waiting[t]
    /\ waiting' = [waiting EXCEPT ![t] = TRUE]
    /\ seen' = [seen EXCEPT ![t] = {source[t]}]
    /\ result' = [result EXCEPT ![t] = None]
    /\ UNCHANGED source

Edit(t) ==
    /\ \E k \in Key \ {source[t]} :
          /\ source' = [source EXCEPT ![t] = k]
          /\ seen' = IF waiting[t] THEN [seen EXCEPT ![t] = @ \cup {k}] ELSE seen
    /\ UNCHANGED <<waiting, result>>

Answer(t) ==
    /\ waiting[t]
    /\ waiting' = [waiting EXCEPT ![t] = FALSE]
    /\ \E v \in seen[t] : result' = [result EXCEPT ![t] = v]
    /\ UNCHANGED <<source, seen>>

\* the compiler is killed
Die(t) ==
    /\ waiting[t]
    /\ waiting' = [waiting EXCEPT ![t] = FALSE]
    /\ seen' = [seen EXCEPT ![t] = {}]
    /\ UNCHANGED <<source, result>>

Next == \E t \in Tree : Ask(t) \/ Edit(t) \/ Answer(t) \/ Die(t)

Safety == Init /\ [][Next]_vars

Spec == Safety /\ \A t \in Tree : WF_vars(Answer(t))
=============================================================================
