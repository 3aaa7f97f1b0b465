--------------------------- MODULE CppConditional ---------------------------
(***************************************************************************)
(* The directives in Preprocessor_parse() (Source/Preprocessor/cpp.c).     *)
(* The function does not keep a stack of conditional groups: `allow',      *)
(* `level', `mask' and `start_level' stand for all of them.  They are      *)
(* locals, %include and %import parse the named file by a recursive call.  *)
(* A step is a line; a condition is 1 or 0, macros are only names.         *)
(***************************************************************************)
EXTENDS Integers, Sequences, FiniteSets

CONSTANTS
    Sym,        \* names that the files define, undefine and ask for
    SWIGIMPORTED,
    CondLines,  \* entries of cond_lines (256): a bound, the code does not test it
    MaxLine,    \* bound: lines of a file
    MaxDepth    \* bound: files that include each other

ASSUME CppAssumption ==
    /\ CondLines \in Nat \ {0} /\ MaxLine \in Nat \ {0} /\ MaxDepth \in Nat
    /\ SWIGIMPORTED \notin Sym

VARIABLES
    f,              \* locals of the running call
    callers,        \* locals of the calls that wait for it
    symbols,        \* the hash table of macros
    imported_depth,
    passed,         \* addline() copied the last line; else it is a blank line
    errors          \* Swig_error_count() > 0

vars == <<f, callers, symbols, imported_depth, passed, errors>>

Locals == [allow |-> 1, level |-> 0, mask |-> 0, start_level |-> 0,
           cond_lines |-> [k \in 0..(CondLines - 1) |-> 0], line |-> 1, import |-> 0]

Init ==
    /\ f = Locals /\ callers = << >>
    /\ symbols = {} /\ imported_depth = 0
    /\ passed = FALSE /\ errors = FALSE

-----------------------------------------------------------------------------
\* what every directive line does
Line(g) ==
    /\ f.line < MaxLine
    /\ f' = [g EXCEPT !.line = f.line + 1]
    /\ passed' = FALSE
    /\ UNCHANGED <<callers, imported_depth>>

\* #if, #ifdef and #ifndef; a condition that cannot be evaluated does not hold
If(holds) ==
    /\ f.level < CondLines
    /\ LET g == [f EXCEPT !.cond_lines[f.level] = f.line, !.level = f.level + 1] IN
        Line(IF f.allow = 1
             THEN [g EXCEPT !.start_level = f.level + 1, !.allow = holds, !.mask = 1]
             ELSE g)
    /\ UNCHANGED <<symbols, errors>>

\* #else is #elif with a condition that holds, in all but its error message
Elif(holds) ==
    /\ LET g == [f EXCEPT !.cond_lines[f.level - 1] = f.line] IN
        Line(CASE f.level = 0 -> f
               [] f.level > 0 /\ f.allow = 1 -> [g EXCEPT !.allow = 0, !.mask = 0]
               [] f.level > 0 /\ f.allow = 0 /\ f.level = f.start_level
                    -> [g EXCEPT !.allow = holds * f.mask]
               [] OTHER -> g)
    /\ errors' = (errors \/ f.level = 0)
    /\ UNCHANGED symbols

\* mutants of Endif: start_level stays; a group behind the last processed one sets allow
Endif_Stays ==
    /\ Line(CASE f.level = 0 -> f
              [] f.level > 0 /\ f.level - 1 < f.start_level
                   -> [f EXCEPT !.level = f.level - 1, !.allow = 1]
              [] OTHER -> [f EXCEPT !.level = f.level - 1])
    /\ errors' = (errors \/ f.level = 0)
    /\ UNCHANGED symbols

Endif_Early ==
    /\ Line(CASE f.level = 0 -> f
              [] f.level > 0 /\ f.level - 1 <= f.start_level
                   -> [f EXCEPT !.level = f.level - 1, !.allow = 1,
                                !.start_level = f.level - 1]
              [] OTHER -> [f EXCEPT !.level = f.level - 1])
    /\ errors' = (errors \/ f.level = 0)
    /\ UNCHANGED symbols

Endif ==
    /\ Line(CASE f.level = 0 -> f
              [] f.level > 0 /\ f.level - 1 < f.start_level
                   -> [f EXCEPT !.level = f.level - 1, !.allow = 1,
                                !.start_level = f.start_level - 1]
              [] OTHER -> [f EXCEPT !.level = f.level - 1])
    /\ errors' = (errors \/ f.level = 0)
    /\ UNCHANGED symbols

\* #define and #undef
Define(x, on) ==
    /\ Line(f)
    /\ symbols' = IF f.allow = 0 THEN symbols ELSE IF on THEN symbols \cup {x} ELSE symbols \ {x}
    /\ UNCHANGED errors

\* add_chunk()
Text ==
    /\ f.line < MaxLine
    /\ f' = [f EXCEPT !.line = f.line + 1]
    /\ passed' = (f.allow = 1)
    /\ UNCHANGED <<callers, symbols, imported_depth, errors>>

\* %include and %import, with push_imported()
Include(import) ==
    /\ f.allow = 1 /\ Len(callers) < MaxDepth
    /\ callers' = Append(callers, f)
    /\ f' = [Locals EXCEPT !.import = import]
    /\ symbols' = IF import = 1 /\ imported_depth = 0 THEN symbols \cup {SWIGIMPORTED} ELSE symbols
    /\ imported_depth' = imported_depth + import
    /\ passed' = FALSE
    /\ UNCHANGED errors

\* mutant of EndOfFile: the end of a nested %import takes the macro away
EndOfFile_Nested ==
    /\ callers # << >>
    /\ callers' = SubSeq(callers, 1, Len(callers) - 1)
    /\ f' = callers[Len(callers)]
    /\ symbols' = IF f.import = 1 THEN symbols \ {SWIGIMPORTED} ELSE symbols
    /\ imported_depth' = imported_depth - f.import
    /\ errors' = (errors \/ f.level > 0)
    /\ passed' = FALSE

\* ... the end of that file: a "Missing #endif" for each level that is open,
\* and pop_imported()
EndOfFile ==
    /\ callers # << >>
    /\ callers' = SubSeq(callers, 1, Len(callers) - 1)
    /\ f' = callers[Len(callers)]
    /\ symbols' = IF f.import = 1 /\ imported_depth = 1 THEN symbols \ {SWIGIMPORTED} ELSE symbols
    /\ imported_depth' = imported_depth - f.import
    /\ errors' = (errors \/ f.level > 0)
    /\ passed' = FALSE

Next ==
    \/ \E holds \in 0..1 : If(holds) \/ Elif(holds)
    \/ Endif
    \/ \E x \in Sym, on \in BOOLEAN : Define(x, on)
    \/ Text
    \/ \E import \in 0..1 : Include(import)
    \/ EndOfFile

Spec == Init /\ [][Next]_vars

-----------------------------------------------------------------------------
(***************************************************************************)
(* Properties                                                              *)
(***************************************************************************)
\* The groups that the locals of a call stand for: below start_level every group
\* is in a branch that is processed, above it none is.
Group(g, k) ==
    [line |-> g.cond_lines[k - 1],
     state |-> IF k < g.start_level THEN "live"
               ELSE IF k > g.start_level THEN "done"
               ELSE IF g.allow = 1 THEN "live"
               ELSE IF g.mask = 1 THEN "waiting" ELSE "done"]

Groups(g) == [k \in 1..g.level |-> Group(g, k)]

Abstract == INSTANCE Conditionals
    WITH Sym <- Sym \cup {SWIGIMPORTED},
         Lines <- 1..MaxLine,
         groups <- Groups(f),
         includers <- [c \in 1..Len(callers) |-> Groups(callers[c])]

\* cpp.c:1222 "All code inside false conditionals is changed to blank lines": the
\* four locals implement nested groups, whatever the files hold, misplaced
\* directives and missing #endifs included.
ImplementsConditionals == Abstract!Spec

LocalsType ==
    [allow : 0..1, level : 0..CondLines, mask : 0..1, start_level : 0..CondLines,
     cond_lines : [0..(CondLines - 1) -> 0..MaxLine], line : 1..MaxLine, import : 0..1]

\* start_level is the level of the last group whose enclosing groups are all in a
\* branch that is processed; allow says that this group is, too, and then it is
\* the last group.
LevelsOK(g) ==
    /\ g.start_level <= g.level
    /\ IF g.allow = 1 THEN g.start_level = g.level ELSE g.start_level > 0
    /\ \A k \in 0..(g.level - 1) : g.cond_lines[k] > 0

\* The locals of every call are right; a call waits where text is processed.
CondTypeOK ==
    /\ f \in LocalsType /\ LevelsOK(f)
    /\ callers \in Seq(LocalsType)
    /\ \A c \in 1..Len(callers) : LevelsOK(callers[c]) /\ callers[c].allow = 1
    /\ symbols \subseteq Sym \cup {SWIGIMPORTED}
    /\ imported_depth \in Int /\ passed \in BOOLEAN /\ errors \in BOOLEAN

\* the calls that read a file that %import names
Call(c) == IF c <= Len(callers) THEN callers[c] ELSE f
Imports == {c \in 1..(Len(callers) + 1) : Call(c).import = 1}

\* cpp.c:1195 "helper functions for defining and undefining SWIGIMPORTED (when
\* %importing a file)": the macro is there exactly while a file is read that an
\* %import led to, however %include and %import are nested.
ImportedMarked ==
    /\ imported_depth = Cardinality(Imports)
    /\ SWIGIMPORTED \in symbols <=> Imports # {}
=============================================================================
