---------------------------- MODULE Conditionals ----------------------------
(***************************************************************************)
(* What #if, #ifdef, #elif, #else and #endif promise: conditional groups   *)
(* nest, of the branches of a group at most one is processed, and a text   *)
(* line is passed on exactly when a branch of every open group is.         *)
(***************************************************************************)
EXTENDS Naturals, Sequences

CONSTANTS
    Sym,        \* names that #define and #undef are used with
    Lines       \* line numbers

VARIABLES
    groups,     \* open groups, the outermost first: a state and a line
    symbols,    \* defined names
    passed,     \* was the last line passed on?
    errors,     \* was a misplaced directive reported?
    includers   \* the groups of the files that include this one, the first file first

vars == <<groups, symbols, passed, errors, includers>>

Top == groups[Len(groups)]

\* every open group is in a branch that is processed
Active == \A k \in 1..Len(groups) : groups[k].state = "live"

Opened(holds) == IF ~Active THEN "done" ELSE IF holds THEN "live" ELSE "waiting"

\* a group leaves a branch, or enters the first one whose condition holds
Turned(state, holds) ==
    CASE state = "live"    -> "done"
      [] state = "waiting" -> IF holds THEN "live" ELSE "waiting"
      [] state = "done"    -> "done"

Init ==
    /\ groups = << >> /\ includers = << >> /\ symbols = {}
    /\ passed = FALSE /\ errors = FALSE

Open(holds, line) ==
    /\ groups' = Append(groups, [state |-> Opened(holds), line |-> line])
    /\ passed' = FALSE
    /\ UNCHANGED <<symbols, errors, includers>>

Turn(holds, line) ==
    /\ groups' = IF groups = << >> THEN groups
                 ELSE [groups EXCEPT ![Len(groups)] =
                         [state |-> Turned(Top.state, holds), line |-> line]]
    /\ errors' = (errors \/ groups = << >>)
    /\ passed' = FALSE
    /\ UNCHANGED <<symbols, includers>>

Close ==
    /\ groups' = IF groups = << >> THEN groups ELSE SubSeq(groups, 1, Len(groups) - 1)
    /\ errors' = (errors \/ groups = << >>)
    /\ passed' = FALSE
    /\ UNCHANGED <<symbols, includers>>

Define(x, on) ==
    /\ symbols' = IF ~Active THEN symbols ELSE IF on THEN symbols \cup {x} ELSE symbols \ {x}
    /\ passed' = FALSE
    /\ UNCHANGED <<groups, errors, includers>>

Text ==
    /\ passed' = Active
    /\ UNCHANGED <<groups, symbols, errors, includers>>

\* a file is included where the text is processed; its groups are its own.  A
\* file that is imported sees the name `mark'.
Include(mark) ==
    /\ Active
    /\ includers' = Append(includers, groups)
    /\ groups' = << >>
    /\ symbols' = symbols \cup mark
    /\ passed' = FALSE
    /\ UNCHANGED errors

\* the end of the file: every group that is still open is an error
EndOfFile(mark) ==
    /\ includers # << >>
    /\ includers' = SubSeq(includers, 1, Len(includers) - 1)
    /\ groups' = includers[Len(includers)]
    /\ symbols' = symbols \ mark
    /\ errors' = (errors \/ groups # << >>)
    /\ passed' = FALSE

Next ==
    \/ \E line \in Lines, holds \in BOOLEAN : Open(holds, line) \/ Turn(holds, line)
    \/ Close
    \/ \E x \in Sym, on \in BOOLEAN : Define(x, on)
    \/ Text
    \/ \E mark \in SUBSET Sym : Include(mark) \/ EndOfFile(mark)

Spec == Init /\ [][Next]_vars
=============================================================================
