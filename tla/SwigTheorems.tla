---------------------------- MODULE SwigTheorems ----------------------------
(***************************************************************************)
(* Proofs about what swig itself does.                                     *)
(*                                                                         *)
(* CppConditional, for any number of names, groups and lines: the names of *)
(* the actions are the ones of Preprocessor_parse()'s directives.          *)
(*                                                                         *)
(* WrapperCode, for any number of parameters: what the wrapper functions   *)
(* of the eighteen language modules take and give back.                    *)
(*                                                                         *)
(* Fragments, for any fragments, whichever way they need each other.       *)
(*                                                                         *)
(* Overload, for any number of declarations, any types and classes: what   *)
(* the two sorts make of the list, and where the dispatch functions send a *)
(* call.                                                                   *)
(*                                                                         *)
(* Typemaps, for any directives, any types, names and lists of parameters: *)
(* what is in the tables and what is found in them.                        *)
(***************************************************************************)
EXTENDS CppConditional, WrapperCode, Fragments, Overload, Typemaps, FiniteSetTheorems,
        SequenceTheorems, WellFoundedInduction, TLAPS

-----------------------------------------------------------------------------
(***************************************************************************)
(* The locals                                                              *)
(***************************************************************************)
\* A call starts with no open group.
LEMMA LocalsInit == Locals \in LocalsType /\ LevelsOK(Locals) /\ Locals.allow = 1
BY CppAssumption DEF Locals, LocalsType, LevelsOK

\* The fields of the locals.
LEMMA LocalsFields ==
    ASSUME NEW g \in LocalsType
    PROVE  /\ g.allow \in 0..1 /\ g.mask \in 0..1 /\ g.import \in 0..1
           /\ g.level \in 0..CondLines /\ g.start_level \in 0..CondLines
           /\ g.cond_lines \in [0..(CondLines - 1) -> 0..MaxLine]
           /\ g.line \in 1..MaxLine
BY DEF LocalsType

\* a line of the running call
LEMMA LineTyped ==
    ASSUME CondTypeOK, NEW g \in LocalsType, LevelsOK(g), Line(g),
           symbols' \subseteq Sym \cup {SWIGIMPORTED}, errors' \in BOOLEAN
    PROVE  CondTypeOK'
<1>1. f.line + 1 \in 1..MaxLine
    <2>1. f \in LocalsType /\ f.line < MaxLine
        BY DEF CondTypeOK, Line
    <2>2. QED
        BY <2>1, LocalsFields, CppAssumption
<1>2. f' = [g EXCEPT !.line = f.line + 1]
    BY DEF Line
<1>3. f' \in LocalsType
    BY <1>1, <1>2 DEF LocalsType
<1>4. LevelsOK(f')
    BY <1>2 DEF LocalsType, LevelsOK
<1>5. QED
    BY <1>3, <1>4 DEF Line, CondTypeOK, LevelsOK

\* the changes the directives make
LEMMA Opened ==
    ASSUME NEW g \in LocalsType, NEW c \in [0..(CondLines - 1) -> 0..MaxLine],
           NEW l \in 0..CondLines
    PROVE  [g EXCEPT !.cond_lines = c, !.level = l] \in LocalsType
BY DEF LocalsType

\* ... to allow, mask and start_level
LEMMA Entered ==
    ASSUME NEW g \in LocalsType, NEW s \in 0..CondLines, NEW a \in 0..1
    PROVE  /\ [g EXCEPT !.start_level = s, !.allow = a, !.mask = 1] \in LocalsType
           /\ [g EXCEPT !.allow = a] \in LocalsType
           /\ [g EXCEPT !.allow = 0, !.mask = 0] \in LocalsType
<1>1. 0 \in 0..1 /\ 1 \in 0..1
    OBVIOUS
<1>2. [g EXCEPT !.start_level = s, !.allow = a, !.mask = 1] \in LocalsType
    BY <1>1, Zenon DEF LocalsType
<1>3. [g EXCEPT !.allow = a] \in LocalsType
    BY Zenon DEF LocalsType
<1>4. [g EXCEPT !.allow = 0, !.mask = 0] \in LocalsType
    BY <1>1, Zenon DEF LocalsType
<1>5. QED
    BY <1>2, <1>3, <1>4

\* ... and by #endif
LEMMA Left ==
    ASSUME NEW g \in LocalsType, NEW l \in 0..CondLines, NEW s \in 0..CondLines
    PROVE  /\ [g EXCEPT !.level = l, !.allow = 1, !.start_level = s] \in LocalsType
           /\ [g EXCEPT !.level = l] \in LocalsType
<1>1. 1 \in 0..1
    OBVIOUS
<1>2. [g EXCEPT !.level = l, !.allow = 1, !.start_level = s] \in LocalsType
    BY <1>1, Zenon DEF LocalsType
<1>3. [g EXCEPT !.level = l] \in LocalsType
    BY Zenon DEF LocalsType
<1>4. QED
    BY <1>2, <1>3

\* writing the line of a directive: level is the index of a new group or of the last
LEMMA CondLineWritten ==
    ASSUME NEW g \in LocalsType, LevelsOK(g), NEW i \in 0..(CondLines - 1),
           i = g.level \/ i = g.level - 1
    PROVE  LET c == [g.cond_lines EXCEPT ![i] = g.line] IN
           /\ c \in [0..(CondLines - 1) -> 0..MaxLine]
           /\ \A k \in 0..i : c[k] > 0
<1>1. g.level \in 0..CondLines /\ g.line \in 0..MaxLine /\ g.line > 0
    BY LocalsFields, CppAssumption
<1>2. g.cond_lines \in [0..(CondLines - 1) -> 0..MaxLine]
    BY LocalsFields
<1>3. \A k \in 0..i : k = i \/ (k \in 0..(g.level - 1) /\ g.cond_lines[k] > 0)
    BY <1>1 DEF LevelsOK
<1>4. 0..i \subseteq 0..(CondLines - 1)
    BY CppAssumption
<1>5. QED
    BY <1>1, <1>2, <1>3, <1>4

-----------------------------------------------------------------------------
(***************************************************************************)
(* The directives                                                          *)
(***************************************************************************)
\* #if keeps the locals right.
LEMMA IfTyped ==
    ASSUME CondTypeOK, NEW holds \in 0..1, If(holds)
    PROVE  CondTypeOK'
<1> DEFINE c == [f.cond_lines EXCEPT ![f.level] = f.line]
           g == [f EXCEPT !.cond_lines = c, !.level = f.level + 1]
           h == IF f.allow = 1
                THEN [g EXCEPT !.start_level = f.level + 1, !.allow = holds, !.mask = 1]
                ELSE g
<1>1. f \in LocalsType /\ LevelsOK(f) /\ f.level < CondLines
    BY DEF CondTypeOK, If
<1>2. f.level \in 0..(CondLines - 1) /\ f.level + 1 \in 0..CondLines
      /\ f.start_level \in 0..CondLines /\ f.allow \in 0..1
    BY <1>1, LocalsFields, CppAssumption
<1>3. c \in [0..(CondLines - 1) -> 0..MaxLine] /\ \A k \in 0..f.level : c[k] > 0
    BY <1>1, <1>2, CondLineWritten
<1>4. Line(h)
    BY DEF If
<1> HIDE DEF c
<1>5. g \in LocalsType
    BY <1>1, <1>2, <1>3, Opened
<1>6. /\ g.level = f.level + 1 /\ g.cond_lines = c
      /\ g.allow = f.allow /\ g.start_level = f.start_level
    BY <1>1 DEF LocalsType
<1> HIDE DEF g
<1>7. h \in LocalsType
    BY <1>2, <1>5, Entered
<1>8. /\ h.level = f.level + 1 /\ h.cond_lines = c
      /\ IF f.allow = 1 THEN h.allow = holds /\ h.start_level = f.level + 1
                        ELSE h.allow = f.allow /\ h.start_level = f.start_level
    BY <1>5, <1>6 DEF LocalsType
<1> HIDE DEF h
<1>9. LevelsOK(h)
    BY <1>1, <1>2, <1>3, <1>8 DEF LevelsOK
<1>10. symbols' \subseteq Sym \cup {SWIGIMPORTED} /\ errors' \in BOOLEAN
    BY DEF If, CondTypeOK
<1>11. QED
    BY <1>4, <1>7, <1>9, <1>10, LineTyped

\* #elif and #else do.
LEMMA ElifTyped ==
    ASSUME CondTypeOK, NEW holds \in 0..1, Elif(holds)
    PROVE  CondTypeOK'
<1> DEFINE c == [f.cond_lines EXCEPT ![f.level - 1] = f.line]
           g == [f EXCEPT !.cond_lines = c]
           v == holds * f.mask
           h == CASE f.level = 0 -> f
                  [] f.level > 0 /\ f.allow = 1 -> [g EXCEPT !.allow = 0, !.mask = 0]
                  [] f.level > 0 /\ f.allow = 0 /\ f.level = f.start_level
                       -> [g EXCEPT !.allow = v]
                  [] OTHER -> g
<1>1. f \in LocalsType /\ LevelsOK(f)
    BY DEF CondTypeOK
<1>2. f.level \in 0..CondLines /\ f.start_level \in 0..CondLines
      /\ f.allow \in 0..1 /\ v \in 0..1
    <2>1. f.mask \in 0..1
        BY <1>1, LocalsFields
    <2>2. v \in 0..1
        <3>1. CASE f.mask = 0
            BY <3>1
        <3>2. CASE f.mask = 1
            BY <3>2
        <3>3. QED
            BY <2>1, <3>1, <3>2
    <2>3. QED
        BY <1>1, <2>2, LocalsFields
<1>3. Line(h)
    BY DEF Elif
<1>4. symbols' \subseteq Sym \cup {SWIGIMPORTED} /\ errors' \in BOOLEAN
    BY DEF Elif, CondTypeOK
<1> HIDE DEF v
<1>5. CASE f.level = 0
    <2>1. h = f
        BY <1>5
    <2>2. QED
        BY <1>1, <1>3, <1>4, <2>1, LineTyped
<1>6. CASE f.level > 0
    <2>1. c \in [0..(CondLines - 1) -> 0..MaxLine] /\ \A k \in 0..(f.level - 1) : c[k] > 0
        <3>1. f.level - 1 \in 0..(CondLines - 1)
            BY <1>2, <1>6, CppAssumption
        <3>2. QED
            BY <1>1, <3>1, CondLineWritten
    <2> HIDE DEF c
    <2>2. g \in LocalsType
        BY <1>1, <2>1 DEF LocalsType
    <2>3. /\ g.level = f.level /\ g.cond_lines = c
          /\ g.allow = f.allow /\ g.start_level = f.start_level
        BY <1>1 DEF LocalsType
    <2> HIDE DEF g
    <2>4. \/ f.allow = 1 /\ h = [g EXCEPT !.allow = 0, !.mask = 0]
          \/ f.allow = 0 /\ f.level = f.start_level /\ h = [g EXCEPT !.allow = v]
          \/ f.allow = 0 /\ h = g
        BY <1>2, <1>6
    <2> HIDE DEF h
    <2>5. h \in LocalsType
        BY <1>2, <2>2, <2>4, Entered
    <2>6. h.level = f.level /\ h.cond_lines = c /\ h.start_level = f.start_level
          /\ (h.allow = 1 => f.level = f.start_level)
        <3>1. CASE f.allow = 1 /\ h = [g EXCEPT !.allow = 0, !.mask = 0]
            BY <2>2, <2>3, <3>1 DEF LocalsType
        <3>2. CASE f.allow = 0 /\ f.level = f.start_level /\ h = [g EXCEPT !.allow = v]
            BY <2>2, <2>3, <3>2 DEF LocalsType
        <3>3. CASE f.allow = 0 /\ h = g
            BY <2>2, <2>3, <3>3 DEF LocalsType
        <3>4. QED
            BY <2>4, <3>1, <3>2, <3>3
    <2>7. LevelsOK(h)
        BY <1>1, <1>2, <1>6, <2>1, <2>6 DEF LevelsOK
    <2>8. QED
        BY <1>3, <1>4, <2>5, <2>7, LineTyped
<1>7. QED
    BY <1>2, <1>5, <1>6

\* #endif does.
LEMMA EndifTyped ==
    ASSUME CondTypeOK, Endif
    PROVE  CondTypeOK'
<1> DEFINE h == CASE f.level = 0 -> f
                  [] f.level > 0 /\ f.level - 1 < f.start_level
                       -> [f EXCEPT !.level = f.level - 1, !.allow = 1,
                                    !.start_level = f.start_level - 1]
                  [] OTHER -> [f EXCEPT !.level = f.level - 1]
<1>1. f \in LocalsType /\ LevelsOK(f)
    BY DEF CondTypeOK
<1>2. f.level \in 0..CondLines /\ f.start_level \in 0..CondLines /\ f.allow \in 0..1
      /\ f.start_level <= f.level
    BY <1>1, LocalsFields DEF LevelsOK
<1>3. Line(h)
    BY DEF Endif
<1>4. symbols' \subseteq Sym \cup {SWIGIMPORTED} /\ errors' \in BOOLEAN
    BY DEF Endif, CondTypeOK
<1>5. \/ f.level = 0 /\ h = f
      \/ /\ f.level > 0 /\ f.start_level = f.level
         /\ h = [f EXCEPT !.level = f.level - 1, !.allow = 1, !.start_level = f.start_level - 1]
      \/ f.level > 0 /\ f.start_level < f.level /\ h = [f EXCEPT !.level = f.level - 1]
    BY <1>2
<1> HIDE DEF h
<1>6. h \in LocalsType
    <2>1. f.level > 0 => f.level - 1 \in 0..CondLines
        BY <1>2, CppAssumption
    <2>2. f.start_level = f.level /\ f.level > 0 => f.start_level - 1 \in 0..CondLines
        BY <1>2, CppAssumption
    <2>3. CASE h = f
        BY <1>1, <2>3
    <2>4. CASE /\ f.level > 0 /\ f.start_level = f.level
               /\ h = [f EXCEPT !.level = f.level - 1, !.allow = 1, !.start_level = f.start_level - 1]
        <3>1. f.level - 1 \in 0..CondLines /\ f.start_level - 1 \in 0..CondLines
            BY <2>1, <2>2, <2>4
        <3>2. \A l, k \in 0..CondLines :
                 [f EXCEPT !.level = l, !.allow = 1, !.start_level = k] \in LocalsType
            BY <1>1, Left
        <3>3. QED
            BY <2>4, <3>1, <3>2, Zenon
    <2>5. CASE f.level > 0 /\ h = [f EXCEPT !.level = f.level - 1]
        <3>1. f.level - 1 \in 0..CondLines
            BY <2>1, <2>5
        <3>2. \A l \in 0..CondLines : [f EXCEPT !.level = l] \in LocalsType
            BY <1>1, <1>2, Left
        <3>3. QED
            BY <2>5, <3>1, <3>2, Zenon
    <2>6. QED
        BY <1>5, <2>3, <2>4, <2>5
<1>7. LevelsOK(h)
    <2>1. h.cond_lines = f.cond_lines /\ h.level <= f.level
          /\ \/ h = f
             \/ h.level = f.level - 1 /\ h.allow = 1 /\ h.start_level = f.level - 1
             \/ /\ h.level = f.level - 1 /\ h.allow = f.allow /\ h.start_level = f.start_level
                /\ f.start_level < f.level
        <3>1. CASE f.level = 0 /\ h = f
            BY <3>1
        <3>2. CASE /\ f.level > 0 /\ f.start_level = f.level
                   /\ h = [f EXCEPT !.level = f.level - 1, !.allow = 1,
                                    !.start_level = f.start_level - 1]
            BY <1>1, <1>2, <3>2 DEF LocalsType
        <3>3. CASE f.level > 0 /\ f.start_level < f.level /\ h = [f EXCEPT !.level = f.level - 1]
            BY <1>1, <1>2, <3>3 DEF LocalsType
        <3>4. QED
            BY <1>5, <3>1, <3>2, <3>3
    <2>2. QED
        BY <1>1, <1>2, <2>1 DEF LevelsOK
<1>8. QED
    BY <1>3, <1>4, <1>6, <1>7, LineTyped

\* Every step does.
LEMMA TypeStep == CondTypeOK /\ [Next]_vars => CondTypeOK'
<1> SUFFICES ASSUME CondTypeOK, [Next]_vars PROVE CondTypeOK'
    OBVIOUS
<1> USE CppAssumption
<1>0. f \in LocalsType /\ LevelsOK(f)
    BY DEF CondTypeOK
<1>1. ASSUME NEW holds \in 0..1, If(holds) PROVE CondTypeOK'
    BY <1>1, IfTyped
<1>2. ASSUME NEW holds \in 0..1, Elif(holds) PROVE CondTypeOK'
    BY <1>2, ElifTyped
<1>3. ASSUME Endif PROVE CondTypeOK'
    BY <1>3, EndifTyped
<1>4. ASSUME NEW x \in Sym, NEW on \in BOOLEAN, Define(x, on) PROVE CondTypeOK'
    <2>1. symbols' \subseteq Sym \cup {SWIGIMPORTED} /\ errors' \in BOOLEAN /\ Line(f)
        BY <1>4 DEF Define, CondTypeOK
    <2>2. QED
        BY <1>0, <2>1, LineTyped
<1>5. ASSUME Text PROVE CondTypeOK'
    <2>1. f' \in LocalsType /\ LevelsOK(f')
        BY SMTT(20), <1>0, <1>5 DEF Text, LocalsType, LevelsOK
    <2>2. QED
        BY <1>0, <1>5, <2>1 DEF Text, CondTypeOK, LocalsType, LevelsOK
<1>6. ASSUME NEW import \in 0..1, Include(import) PROVE CondTypeOK'
    <2>1. f' \in LocalsType /\ LevelsOK(f')
        BY <1>6, LocalsInit DEF Include, LocalsType, LevelsOK, Locals
    <2>2. callers' \in Seq(LocalsType)
        BY <1>0, <1>6 DEF Include, CondTypeOK
    <2>3. \A c \in 1..Len(callers') : LevelsOK(callers'[c]) /\ callers'[c].allow = 1
        BY <1>0, <1>6 DEF Include, CondTypeOK
    <2>4. symbols' \subseteq Sym \cup {SWIGIMPORTED} /\ imported_depth' \in Int
        BY <1>6 DEF Include, CondTypeOK
    <2>5. passed' \in BOOLEAN /\ errors' \in BOOLEAN
        BY <1>6 DEF Include, CondTypeOK
    <2>6. QED
        BY <2>1, <2>2, <2>3, <2>4, <2>5 DEF CondTypeOK, LevelsOK
<1>7. ASSUME EndOfFile PROVE CondTypeOK'
    <2>1. Len(callers) \in Nat \ {0} /\ f' = callers[Len(callers)]
        BY <1>7 DEF EndOfFile, CondTypeOK
    <2>2. f' \in LocalsType /\ LevelsOK(f')
        BY <2>1 DEF CondTypeOK
    <2>3. callers' \in Seq(LocalsType) /\ Len(callers') = Len(callers) - 1
          /\ \A c \in 1..Len(callers') : callers'[c] = callers[c]
        <3>1. callers \in Seq(LocalsType) /\ callers' = SubSeq(callers, 1, Len(callers) - 1)
            BY <1>7 DEF EndOfFile, CondTypeOK
        <3>2. /\ Len(callers) - 1 \in Int
              /\ \A i \in 1..(Len(callers) - 1) : callers[i] \in LocalsType
            BY <2>1, <3>1
        <3> DEFINE n == Len(callers) - 1
        <3>3. /\ SubSeq(callers, 1, n) \in Seq(LocalsType)
              /\ Len(SubSeq(callers, 1, n)) = IF 1 <= n THEN n - 1 + 1 ELSE 0
              /\ \A i \in 1..(n - 1 + 1) : SubSeq(callers, 1, n)[i] = callers[1 + i - 1]
            BY <3>2, SubSeqProperties
        <3>4. n \in Nat /\ callers' = SubSeq(callers, 1, n)
            BY <2>1, <3>1
        <3> HIDE DEF n
        <3>5. Len(callers') = n /\ callers' \in Seq(LocalsType)
            BY <3>3, <3>4
        <3>6. \A i \in 1..n : callers'[i] = callers[i]
            BY <3>3, <3>4
        <3>7. QED
            BY <3>5, <3>6 DEF n
    <2>4. \A c \in 1..Len(callers') : LevelsOK(callers'[c]) /\ callers'[c].allow = 1
        BY <2>1, <2>3 DEF CondTypeOK
    <2>5. imported_depth' \in Int /\ symbols' \subseteq Sym \cup {SWIGIMPORTED}
        BY <1>0, <1>7, LocalsFields DEF EndOfFile, CondTypeOK
    <2>6. passed' \in BOOLEAN /\ errors' \in BOOLEAN
        BY <1>7 DEF EndOfFile, CondTypeOK
    <2>7. QED
        BY <2>2, <2>3, <2>4, <2>5, <2>6 DEF CondTypeOK, LevelsOK
<1>8. CASE UNCHANGED vars
    BY <1>8 DEF vars, CondTypeOK, LevelsOK
<1>9. QED
    BY <1>1, <1>2, <1>3, <1>4, <1>5, <1>6, <1>7, <1>8 DEF Next

\* cpp.c:1234: the locals that stand for the open conditionals are consistent
\* after any sequence of directives and included files.
THEOREM LocalsAreRight == Spec => []CondTypeOK
<1>1. Init => CondTypeOK
    <2> SUFFICES ASSUME Init PROVE CondTypeOK
        OBVIOUS
    <2>1. callers \in Seq(LocalsType) /\ Len(callers) = 0
        BY DEF Init
    <2>2. symbols \subseteq Sym \cup {SWIGIMPORTED} /\ imported_depth \in Int
        BY DEF Init
    <2>3. passed \in BOOLEAN /\ errors \in BOOLEAN
        BY DEF Init
    <2>4. f \in LocalsType /\ LevelsOK(f)
        BY LocalsInit DEF Init
    <2>5. QED
        BY <2>1, <2>2, <2>3, <2>4 DEF CondTypeOK
<1>2. QED
    BY <1>1, TypeStep, PTL DEF Spec

-----------------------------------------------------------------------------
(***************************************************************************)
(* The groups that the locals stand for                                    *)
(***************************************************************************)
\* what a directive does to the locals, field by field
LEMMA IfEffect ==
    ASSUME f \in LocalsType, NEW holds \in 0..1, If(holds)
    PROVE  /\ f'.level = f.level + 1 /\ f'.cond_lines = [f.cond_lines EXCEPT ![f.level] = f.line]
           /\ f.allow = 1 => f'.allow = holds /\ f'.mask = 1 /\ f'.start_level = f.level + 1
           /\ f.allow # 1 => f'.allow = f.allow /\ f'.mask = f.mask /\ f'.start_level = f.start_level
<1>1. CASE f.allow = 1
    BY <1>1 DEF If, Line, LocalsType
<1>2. CASE f.allow # 1
    BY <1>2 DEF If, Line, LocalsType
<1>3. QED
    BY <1>1, <1>2

\* ... #elif and #else
LEMMA ElifEffect ==
    ASSUME f \in LocalsType, NEW holds \in 0..1, Elif(holds), f.level > 0
    PROVE  /\ f'.level = f.level /\ f'.cond_lines = [f.cond_lines EXCEPT ![f.level - 1] = f.line]
           /\ f'.start_level = f.start_level
           /\ f.allow = 1 => f'.allow = 0 /\ f'.mask = 0
           /\ f.allow = 0 => /\ f'.mask = f.mask
               /\ f'.allow = IF f.level = f.start_level THEN holds * f.mask ELSE 0
<1>1. CASE f.allow = 1
    BY <1>1 DEF Elif, Line, LocalsType
<1>2. CASE f.allow = 0
    BY <1>2 DEF Elif, Line, LocalsType
<1>3. QED
    BY <1>1, <1>2 DEF LocalsType

\* ... #endif
LEMMA EndifEffect ==
    ASSUME f \in LocalsType, Endif, f.level > 0
    PROVE  /\ f'.level = f.level - 1 /\ f'.cond_lines = f.cond_lines
           /\ IF f.level - 1 < f.start_level
              THEN f'.allow = 1 /\ f'.start_level = f.start_level - 1
              ELSE f'.allow = f.allow /\ f'.start_level = f.start_level /\ f'.mask = f.mask
BY DEF Endif, Line, LocalsType

\* a group as Groups() makes it
GroupType == [line : 0..MaxLine, state : {"live", "waiting", "done"}]

\* Groups(g) is a stack of g.level groups.
LEMMA GroupsAreSeq ==
    ASSUME NEW g \in LocalsType
    PROVE  /\ Groups(g) \in Seq(GroupType) /\ Len(Groups(g)) = g.level
           /\ \A k \in 1..g.level : Groups(g)[k] = Group(g, k)
<1>1. g.level \in Nat
    BY LocalsFields, CppAssumption
<1>2. \A k \in 1..g.level : Group(g, k) \in GroupType
    <2> SUFFICES ASSUME NEW k \in 1..g.level PROVE Group(g, k) \in GroupType
        OBVIOUS
    <2>1. k - 1 \in 0..(CondLines - 1)
        BY LocalsFields, CppAssumption
    <2>2. g.cond_lines[k - 1] \in 0..MaxLine
        BY <2>1, LocalsFields
    <2>3. QED
        BY <2>2 DEF Group, GroupType
<1>3. QED
    BY <1>1, <1>2 DEF Groups

\* allow says that every open group is in a branch that is processed.
LEMMA AllowIsActive ==
    ASSUME f \in LocalsType, LevelsOK(f)
    PROVE  Abstract!Active <=> f.allow = 1
<1>0. /\ f.level \in Nat /\ f.start_level \in Nat /\ f.allow \in 0..1
      /\ f.start_level <= f.level
      /\ IF f.allow = 1 THEN f.start_level = f.level ELSE f.start_level > 0
    BY LocalsFields, CppAssumption DEF LevelsOK
<1>1. Abstract!Active <=> \A k \in 1..f.level : Group(f, k).state = "live"
    BY GroupsAreSeq DEF Abstract!Active
<1>2. ASSUME f.allow = 1, NEW k \in 1..f.level PROVE Group(f, k).state = "live"
    BY <1>0, <1>2 DEF Group
<1>3. ASSUME f.allow = 0 PROVE Group(f, f.start_level).state # "live"
    BY <1>0, <1>3 DEF Group
<1>4. QED
    BY <1>0, <1>1, <1>2, <1>3

\* #if pushes the group that the C standard says.
LEMMA IfOpens ==
    ASSUME CondTypeOK, CondTypeOK', NEW holds \in 0..1, If(holds)
    PROVE  Abstract!Open(holds = 1, f.line)
<1>0. f \in LocalsType /\ f' \in LocalsType /\ LevelsOK(f)
    BY DEF CondTypeOK
<1>f. /\ f.level \in 0..(CondLines - 1) /\ f.start_level \in Nat /\ f.allow \in 0..1
      /\ f.start_level <= f.level /\ f.line \in 0..MaxLine
      /\ f.cond_lines \in [0..(CondLines - 1) -> 0..MaxLine]
      /\ IF f.allow = 1 THEN f.start_level = f.level ELSE f.start_level > 0
    BY <1>0, LocalsFields, CppAssumption DEF LevelsOK, If
<1>e. /\ f'.level = f.level + 1 /\ f'.cond_lines = [f.cond_lines EXCEPT ![f.level] = f.line]
      /\ f.allow = 1 => f'.allow = holds /\ f'.mask = 1 /\ f'.start_level = f.level + 1
      /\ f.allow # 1 => f'.allow = f.allow /\ f'.mask = f.mask /\ f'.start_level = f.start_level
    BY <1>0, IfEffect
<1> DEFINE new == [state |-> Abstract!Opened(holds = 1), line |-> f.line]
<1>1. ASSUME NEW k \in 1..f.level PROVE Group(f', k) = Group(f, k)
    <2>1. f'.cond_lines[k - 1] = f.cond_lines[k - 1]
        BY <1>f, <1>e
    <2>2. QED
        BY <1>f, <1>e, <2>1 DEF Group
<1>2. Group(f', f.level + 1) = new
    <2>1. f'.cond_lines[f.level] = f.line
        BY <1>f, <1>e
    <2>2. Abstract!Active <=> f.allow = 1
        BY <1>0, AllowIsActive
    <2>3. QED
        BY <1>f, <1>e, <2>1, <2>2 DEF Group, Abstract!Opened
<1>3. Groups(f') = Append(Groups(f), new)
    <2>1. new \in GroupType
        BY <1>f DEF GroupType, Abstract!Opened
    <2>2. /\ Groups(f) \in Seq(GroupType) /\ Len(Groups(f)) = f.level
          /\ \A k \in 1..f.level : Groups(f)[k] = Group(f, k)
        BY <1>0, GroupsAreSeq
    <2>3. /\ Groups(f') \in Seq(GroupType) /\ Len(Groups(f')) = f'.level
          /\ \A k \in 1..f'.level : Groups(f')[k] = Group(f', k)
        BY <1>0, GroupsAreSeq
    <2> HIDE DEF new
    <2>4. QED
        BY <1>f, <1>e, <1>1, <1>2, <2>1, <2>2, <2>3, SeqEqual
<1>4. UNCHANGED <<symbols, errors, callers>> /\ passed' = FALSE
    BY DEF If, Line
<1>5. QED
    BY <1>3, <1>4 DEF Abstract!Open

\* #elif and #else turn the innermost group.
LEMMA ElifTurns ==
    ASSUME CondTypeOK, CondTypeOK', NEW holds \in 0..1, Elif(holds)
    PROVE  Abstract!Turn(holds = 1, f.line)
<1>0. f \in LocalsType /\ f' \in LocalsType /\ LevelsOK(f)
    BY DEF CondTypeOK
<1>f. /\ f.level \in 0..CondLines /\ f.start_level \in Nat /\ f.allow \in 0..1 /\ f.mask \in 0..1
      /\ f.start_level <= f.level /\ f.line \in 0..MaxLine
      /\ f.cond_lines \in [0..(CondLines - 1) -> 0..MaxLine]
      /\ IF f.allow = 1 THEN f.start_level = f.level ELSE f.start_level > 0
    BY <1>0, LocalsFields, CppAssumption DEF LevelsOK
<1>g. /\ Groups(f) \in Seq(GroupType) /\ Len(Groups(f)) = f.level
      /\ \A k \in 1..f.level : Groups(f)[k] = Group(f, k)
    BY <1>0, GroupsAreSeq
<1>h. /\ Groups(f') \in Seq(GroupType) /\ Len(Groups(f')) = f'.level
      /\ \A k \in 1..f'.level : Groups(f')[k] = Group(f', k)
    BY <1>0, GroupsAreSeq
<1>1. symbols' = symbols /\ callers' = callers /\ passed' = FALSE
    BY DEF Elif, Line
<1>2. errors' = (errors \/ Groups(f) = << >>)
    BY <1>f, <1>g DEF Elif
<1>3. CASE f.level = 0
    <2>1. f'.level = 0
        BY <1>0, <1>3 DEF Elif, Line, LocalsType
    <2>2. Groups(f) = << >> /\ Groups(f') = << >>
        BY <1>3, <1>g, <1>h, <2>1
    <2>3. QED
        BY <1>1, <1>2, <2>2 DEF Abstract!Turn
<1>4. CASE f.level > 0
    <2> DEFINE new == [state |-> Abstract!Turned(Group(f, f.level).state, holds = 1),
                       line |-> f.line]
    <2>e. /\ f'.level = f.level /\ f'.cond_lines = [f.cond_lines EXCEPT ![f.level - 1] = f.line]
          /\ f'.start_level = f.start_level
          /\ f.allow = 1 => f'.allow = 0 /\ f'.mask = 0
          /\ f.allow = 0 => /\ f'.mask = f.mask
                            /\ f'.allow = IF f.level = f.start_level THEN holds * f.mask ELSE 0
        BY <1>0, <1>4, ElifEffect
    <2>1. ASSUME NEW k \in 1..(f.level - 1) PROVE Group(f', k) = Group(f, k)
        <3>1. f'.cond_lines[k - 1] = f.cond_lines[k - 1]
            BY <1>f, <2>e
        <3>2. QED
            BY <1>f, <2>e, <3>1 DEF Group
    <2>2. Group(f', f.level) = new
        <3>1. f'.cond_lines[f.level - 1] = f.line
            <4>1. f.level - 1 \in 0..(CondLines - 1)
                BY <1>f, <1>4, CppAssumption
            <4>2. QED
                BY <1>f, <2>e, <4>1
        <3>2. f.mask = 0 \/ f.mask = 1
            BY <1>f
        <3>3. holds * 0 = 0 /\ holds * 1 = holds
            OBVIOUS
        <3>4. QED
            BY <1>f, <1>4, <2>e, <3>1, <3>2, <3>3 DEF Group, Abstract!Turned
    <2>3. Groups(f') = [Groups(f) EXCEPT ![f.level] = new]
        <3>1. new \in GroupType
            BY <1>f DEF GroupType, Abstract!Turned, Group
        <3> HIDE DEF new
        <3> DEFINE t == [Groups(f) EXCEPT ![f.level] = new]
        <3>2. t \in Seq(GroupType) /\ Len(t) = f.level
              /\ \A k \in 1..f.level : t[k] = IF k = f.level THEN new ELSE Groups(f)[k]
            BY <1>f, <1>g, <1>4, <3>1, ExceptSeq
        <3>3. \A k \in 1..f.level : Groups(f')[k] = t[k]
            BY <1>f, <1>g, <1>h, <2>e, <2>1, <2>2, <3>2
        <3> HIDE DEF t
        <3>4. Groups(f') = t
            BY SMTT(20), <1>h, <2>e, <3>2, <3>3, SeqEqual
        <3>5. QED
            BY <3>4 DEF t
    <2>4. Groups(f) # << >> /\ Abstract!Top = Group(f, f.level) /\ Len(Groups(f)) = f.level
        BY <1>f, <1>g, <1>4 DEF Abstract!Top
    <2>5. QED
        BY <1>1, <1>2, <2>3, <2>4 DEF Abstract!Turn
<1>5. QED
    BY <1>f, <1>3, <1>4

\* #endif pops it.
LEMMA EndifCloses ==
    ASSUME CondTypeOK, CondTypeOK', Endif
    PROVE  Abstract!Close
<1>0. f \in LocalsType /\ f' \in LocalsType /\ LevelsOK(f)
    BY DEF CondTypeOK
<1>f. /\ f.level \in 0..CondLines /\ f.start_level \in Nat /\ f.allow \in 0..1
      /\ f.start_level <= f.level
      /\ IF f.allow = 1 THEN f.start_level = f.level ELSE f.start_level > 0
    BY <1>0, LocalsFields, CppAssumption DEF LevelsOK
<1>g. /\ Groups(f) \in Seq(GroupType) /\ Len(Groups(f)) = f.level
      /\ \A k \in 1..f.level : Groups(f)[k] = Group(f, k)
    BY <1>0, GroupsAreSeq
<1>h. /\ Groups(f') \in Seq(GroupType) /\ Len(Groups(f')) = f'.level
      /\ \A k \in 1..f'.level : Groups(f')[k] = Group(f', k)
    BY <1>0, GroupsAreSeq
<1>1. symbols' = symbols /\ callers' = callers /\ passed' = FALSE
    BY DEF Endif, Line
<1>2. errors' = (errors \/ Groups(f) = << >>)
    BY <1>f, <1>g DEF Endif
<1>3. CASE f.level = 0
    <2>1. f'.level = 0
        BY <1>0, <1>3 DEF Endif, Line, LocalsType
    <2>2. Groups(f) = << >> /\ Groups(f') = << >>
        BY <1>3, <1>g, <1>h, <2>1
    <2>3. QED
        BY <1>1, <1>2, <2>2 DEF Abstract!Close
<1>4. CASE f.level > 0
    <2>e. /\ f'.level = f.level - 1 /\ f'.cond_lines = f.cond_lines
          /\ IF f.level - 1 < f.start_level
             THEN f'.allow = 1 /\ f'.start_level = f.start_level - 1
             ELSE f'.allow = f.allow /\ f'.start_level = f.start_level /\ f'.mask = f.mask
        BY <1>0, <1>4, EndifEffect
    <2>1. ASSUME NEW k \in 1..(f.level - 1) PROVE Group(f', k) = Group(f, k)
        BY <1>f, <2>e DEF Group
    <2>2. SubSeq(Groups(f), 1, f.level - 1) = Groups(f')
        <3> DEFINE n == f.level - 1
        <3>1. n \in Nat /\ n < f.level /\ f'.level = n
            BY <1>f, <1>4, <2>e
        <3>2. \A i \in 1..n : Groups(f)[i] \in GroupType /\ Groups(f)[i] = Groups(f')[i]
            BY <1>g, <1>h, <2>1, <3>1
        <3> HIDE DEF n
        <3>3. /\ SubSeq(Groups(f), 1, n) \in Seq(GroupType)
              /\ Len(SubSeq(Groups(f), 1, n)) = IF 1 <= n THEN n - 1 + 1 ELSE 0
              /\ \A i \in 1..(n - 1 + 1) : SubSeq(Groups(f), 1, n)[i] = Groups(f)[1 + i - 1]
            BY <3>1, <3>2, SubSeqProperties
        <3>4. Len(SubSeq(Groups(f), 1, n)) = n
              /\ \A i \in 1..n : SubSeq(Groups(f), 1, n)[i] = Groups(f)[i]
            BY <3>1, <3>3
        <3>5. SubSeq(Groups(f), 1, n) = Groups(f')
            BY <1>h, <3>1, <3>2, <3>3, <3>4, SeqEqual
        <3>6. QED
            BY <3>5 DEF n
    <2>3. Groups(f) # << >> /\ Len(Groups(f)) = f.level
        BY <1>f, <1>g, <1>4
    <2>4. QED
        BY <1>1, <1>2, <2>2, <2>3 DEF Abstract!Close
<1>5. QED
    BY <1>f, <1>3, <1>4

\* The groups depend on five locals.
LEMMA SameGroups ==
    ASSUME NEW g, NEW h, h.level = g.level, h.cond_lines = g.cond_lines, h.allow = g.allow,
           h.start_level = g.start_level, h.mask = g.mask
    PROVE  Groups(h) = Groups(g)
BY DEF Groups, Group

\* The groups of the waiting calls.
LEMMA Includers ==
    ASSUME NEW s \in Seq(LocalsType)
    PROVE  LET t == [c \in 1..Len(s) |-> Groups(s[c])] IN
           /\ t \in Seq(Seq(GroupType)) /\ Len(t) = Len(s)
           /\ \A c \in 1..Len(s) : t[c] = Groups(s[c])
<1>1. \A c \in 1..Len(s) : Groups(s[c]) \in Seq(GroupType)
    BY GroupsAreSeq
<1>2. QED
    BY <1>1

\* #define, #undef and text only look at the groups.
LEMMA LineIsText ==
    ASSUME CondTypeOK
    PROVE  /\ \A x \in Sym, on \in BOOLEAN : Define(x, on) => Abstract!Define(x, on)
           /\ Text => Abstract!Text
<1>0. f \in LocalsType /\ LevelsOK(f)
    BY DEF CondTypeOK
<1>1. f.allow \in 0..1 /\ (Abstract!Active <=> f.allow = 1)
    BY <1>0, LocalsFields, AllowIsActive
<1>2. f' = [f EXCEPT !.line = f.line + 1] => Groups(f') = Groups(f)
    <2> SUFFICES ASSUME f' = [f EXCEPT !.line = f.line + 1] PROVE Groups(f') = Groups(f)
        OBVIOUS
    <2>1. /\ f'.level = f.level /\ f'.cond_lines = f.cond_lines /\ f'.allow = f.allow
          /\ f'.start_level = f.start_level /\ f'.mask = f.mask
        BY <1>0 DEF LocalsType
    <2>2. QED
        BY <2>1, SameGroups
<1>3. ASSUME NEW x \in Sym, NEW on \in BOOLEAN, Define(x, on) PROVE Abstract!Define(x, on)
    <2>1. Groups(f') = Groups(f) /\ callers' = callers /\ errors' = errors /\ passed' = FALSE
        BY <1>2, <1>3 DEF Define, Line
    <2>2. symbols' = IF f.allow = 0 THEN symbols
                     ELSE IF on THEN symbols \cup {x} ELSE symbols \ {x}
        BY <1>3 DEF Define
    <2>3. QED
        BY <1>1, <2>1, <2>2 DEF Abstract!Define
<1>4. ASSUME Text PROVE Abstract!Text
    <2>1. /\ Groups(f') = Groups(f) /\ callers' = callers /\ symbols' = symbols
          /\ errors' = errors /\ passed' = (f.allow = 1)
        BY <1>2, <1>4 DEF Text
    <2>2. (f.allow = 1) = Abstract!Active
        BY <1>1 DEF Abstract!Active
    <2>3. QED
        BY <2>1, <2>2 DEF Abstract!Text
<1>5. QED
    BY <1>3, <1>4

\* %include and %import start with no group.
LEMMA IncludeIncludes ==
    ASSUME CondTypeOK, CondTypeOK', NEW import \in 0..1, Include(import)
    PROVE  \E mark \in SUBSET (Sym \cup {SWIGIMPORTED}) : Abstract!Include(mark)
<1>0. f \in LocalsType /\ LevelsOK(f) /\ f.allow = 1 /\ callers \in Seq(LocalsType)
      /\ callers' \in Seq(LocalsType)
    BY DEF CondTypeOK, Include
<1>1. Abstract!Active
    BY <1>0, AllowIsActive
<1> DEFINE mark == IF import = 1 /\ imported_depth = 0 THEN {SWIGIMPORTED} ELSE {}
           inc(s) == [c \in 1..Len(s) |-> Groups(s[c])]
<1>2. symbols' = symbols \cup mark /\ passed' = FALSE /\ errors' = errors
    BY DEF Include
<1>3. Groups(f') = << >>
    <2>1. f' \in LocalsType /\ f'.level = 0
        BY DEF Include, Locals, CondTypeOK
    <2>2. QED
        BY <2>1, GroupsAreSeq
<1>4. inc(callers') = Append(inc(callers), Groups(f))
    <2>1. /\ inc(callers) \in Seq(Seq(GroupType)) /\ Len(inc(callers)) = Len(callers)
          /\ \A c \in 1..Len(callers) : inc(callers)[c] = Groups(callers[c])
        BY <1>0, Includers
    <2>2. /\ inc(callers') \in Seq(Seq(GroupType)) /\ Len(inc(callers')) = Len(callers')
          /\ \A c \in 1..Len(callers') : inc(callers')[c] = Groups(callers'[c])
        BY <1>0, Includers
    <2>3. Groups(f) \in Seq(GroupType)
        BY <1>0, GroupsAreSeq
    <2>4. Len(callers') = Len(callers) + 1 /\ callers'[Len(callers) + 1] = f
          /\ \A c \in 1..Len(callers) : callers'[c] = callers[c]
        BY <1>0 DEF Include
    <2> HIDE DEF inc
    <2>5. QED
        BY <1>0, <2>1, <2>2, <2>3, <2>4, SeqEqual, AppendProperties
<1>5. Abstract!Include(mark)
    BY <1>1, <1>2, <1>3, <1>4 DEF Abstract!Include
<1>6. QED
    BY <1>5

\* The end of a file gives the includer its groups back.
LEMMA EndEnds ==
    ASSUME CondTypeOK, CondTypeOK', EndOfFile
    PROVE  \E mark \in SUBSET (Sym \cup {SWIGIMPORTED}) : Abstract!EndOfFile(mark)
<1>0. /\ f \in LocalsType /\ LevelsOK(f) /\ callers \in Seq(LocalsType) /\ callers # << >>
      /\ f' = callers[Len(callers)] /\ callers' = SubSeq(callers, 1, Len(callers) - 1)
      /\ callers' \in Seq(LocalsType)
    BY DEF CondTypeOK, EndOfFile
<1> DEFINE mark == IF f.import = 1 /\ imported_depth = 1 THEN {SWIGIMPORTED} ELSE {}
           inc(s) == [c \in 1..Len(s) |-> Groups(s[c])]
           n == Len(callers) - 1
<1>1. n \in Nat /\ Len(callers) = n + 1
    BY <1>0
<1>2. symbols' = symbols \ mark /\ passed' = FALSE
    BY DEF EndOfFile
<1>3. errors' = (errors \/ Groups(f) # << >>)
    <2>1. f.level \in Nat
        BY <1>0, LocalsFields, CppAssumption
    <2>2. f.level > 0 <=> Groups(f) # << >>
        BY <1>0, <2>1, GroupsAreSeq
    <2>3. QED
        BY <2>2 DEF EndOfFile
<1>i. /\ inc(callers) \in Seq(Seq(GroupType)) /\ Len(inc(callers)) = Len(callers)
      /\ \A c \in 1..Len(callers) : inc(callers)[c] = Groups(callers[c])
    BY <1>0, Includers
<1>j. /\ inc(callers') \in Seq(Seq(GroupType)) /\ Len(inc(callers')) = Len(callers')
      /\ \A c \in 1..Len(callers') : inc(callers')[c] = Groups(callers'[c])
    BY <1>0, Includers
<1>4. /\ inc(callers) # << >>
      /\ Groups(f') = inc(callers)[Len(inc(callers))]
    BY <1>0, <1>1, <1>i
<1>5. inc(callers') = SubSeq(inc(callers), 1, Len(inc(callers)) - 1)
    <2>1. \A i \in 1..n : callers[i] \in LocalsType /\ inc(callers)[i] \in Seq(GroupType)
        BY <1>0, <1>1, <1>i
    <2>2. callers' = SubSeq(callers, 1, n) /\ Len(inc(callers)) - 1 = n
        BY <1>0, <1>i
    <2> HIDE DEF inc, n
    <2>3. /\ Len(SubSeq(callers, 1, n)) = IF 1 <= n THEN n - 1 + 1 ELSE 0
          /\ \A i \in 1..(n - 1 + 1) : SubSeq(callers, 1, n)[i] = callers[1 + i - 1]
        BY <1>1, <2>1, SubSeqProperties
    <2>4. Len(callers') = n /\ \A i \in 1..n : callers'[i] = callers[i]
        BY <1>1, <2>2, <2>3
    <2>5. /\ SubSeq(inc(callers), 1, n) \in Seq(Seq(GroupType))
          /\ Len(SubSeq(inc(callers), 1, n)) = IF 1 <= n THEN n - 1 + 1 ELSE 0
          /\ \A i \in 1..(n - 1 + 1) : SubSeq(inc(callers), 1, n)[i] = inc(callers)[1 + i - 1]
        BY <1>1, <2>1, SubSeqProperties
    <2>6. Len(SubSeq(inc(callers), 1, n)) = n
          /\ \A i \in 1..n : SubSeq(inc(callers), 1, n)[i] = inc(callers)[i]
        BY <1>1, <2>5
    <2>7. \A i \in 1..n : inc(callers')[i] = SubSeq(inc(callers), 1, n)[i]
        BY <1>1, <1>i, <1>j, <2>4, <2>6
    <2>8. inc(callers') = SubSeq(inc(callers), 1, n)
        BY <1>1, <1>j, <2>4, <2>5, <2>6, <2>7, SeqEqual
    <2>9. QED
        BY <2>2, <2>8
<1>6. Abstract!EndOfFile(mark)
    BY <1>2, <1>3, <1>4, <1>5 DEF Abstract!EndOfFile
<1>7. QED
    BY <1>6

\* Every step of the code is a step of the groups.
LEMMA AbstractStep ==
    CondTypeOK /\ CondTypeOK' /\ [Next]_vars => [Abstract!Next]_(Abstract!vars)
<1> SUFFICES ASSUME CondTypeOK, CondTypeOK', [Next]_vars
             PROVE  [Abstract!Next]_(Abstract!vars)
    OBVIOUS
<1>0. f.line \in 1..MaxLine
    BY LocalsFields DEF CondTypeOK
<1>1. ASSUME NEW holds \in 0..1, If(holds) PROVE Abstract!Next
    <2>1. Abstract!Open(holds = 1, f.line) /\ (holds = 1) \in BOOLEAN
        BY <1>1, IfOpens
    <2>2. QED
        BY <1>0, <2>1 DEF Abstract!Next
<1>2. ASSUME NEW holds \in 0..1, Elif(holds) PROVE Abstract!Next
    <2>1. Abstract!Turn(holds = 1, f.line) /\ (holds = 1) \in BOOLEAN
        BY <1>2, ElifTurns
    <2>2. QED
        BY <1>0, <2>1 DEF Abstract!Next
<1>3. ASSUME Endif PROVE Abstract!Next
    BY <1>3, EndifCloses DEF Abstract!Next
<1>4. ASSUME NEW x \in Sym, NEW on \in BOOLEAN, Define(x, on) PROVE Abstract!Next
    <2>1. Abstract!Define(x, on)
        BY <1>4, LineIsText
    <2>2. QED
        BY <2>1 DEF Abstract!Next
<1>5. ASSUME Text PROVE Abstract!Next
    BY <1>5, LineIsText DEF Abstract!Next
<1>6. ASSUME NEW import \in 0..1, Include(import) PROVE Abstract!Next
    BY <1>6, IncludeIncludes DEF Abstract!Next
<1>7. ASSUME EndOfFile PROVE Abstract!Next
    BY <1>7, EndEnds DEF Abstract!Next
<1>8. CASE UNCHANGED vars
    BY <1>8 DEF vars, Abstract!vars
<1>9. QED
    BY <1>1, <1>2, <1>3, <1>4, <1>5, <1>6, <1>7, <1>8 DEF Next

\* cpp.c:1222: for every number of nested conditionals and included files, allow,
\* level, mask and start_level behave like a stack of conditional groups.
THEOREM ConditionalsImplemented == Spec => ImplementsConditionals
<1>1. Init => Abstract!Init
    <2> SUFFICES ASSUME Init PROVE Abstract!Init
        OBVIOUS
    <2>1. f \in LocalsType /\ f.level = 0 /\ callers = << >>
        BY LocalsInit DEF Init, Locals
    <2>2. Groups(f) = << >>
        BY <2>1, GroupsAreSeq
    <2>3. [c \in 1..Len(callers) |-> Groups(callers[c])] = << >>
        BY <2>1
    <2>4. QED
        BY <2>2, <2>3 DEF Init, Abstract!Init
<1>2. Spec => []CondTypeOK
    BY LocalsAreRight
<1>3. QED
    BY <1>1, <1>2, AbstractStep, PTL DEF Spec, ImplementsConditionals, Abstract!Spec

-----------------------------------------------------------------------------
(***************************************************************************)
(* %import                                                                 *)
(***************************************************************************)
\* There are finitely many calls.
LEMMA ImportsFinite ==
    ASSUME CondTypeOK
    PROVE  Len(callers) \in Nat /\ IsFiniteSet(Imports) /\ Cardinality(Imports) \in Nat
<1>1. Len(callers) \in Nat
    BY DEF CondTypeOK
<1>2. IsFiniteSet(1..(Len(callers) + 1))
    BY <1>1, FS_Interval
<1>3. IsFiniteSet(Imports)
    BY <1>2, FS_Subset DEF Imports
<1>4. QED
    BY <1>1, <1>3, FS_CardinalityType

\* a line of the running call
LEMMA LineMarked ==
    ASSUME CondTypeOK, ImportedMarked, UNCHANGED <<callers, imported_depth>>,
           f'.import = f.import, SWIGIMPORTED \in symbols' <=> SWIGIMPORTED \in symbols
    PROVE  ImportedMarked'
<1>1. Imports' = Imports
    BY DEF Imports, Call
<1>2. QED
    BY <1>1 DEF ImportedMarked

\* Every step keeps imported_depth the number of imports.
LEMMA MarkedStep ==
    ASSUME CondTypeOK, CondTypeOK', ImportedMarked, [Next]_vars
    PROVE  ImportedMarked'
<1> USE CppAssumption
<1>0. f \in LocalsType /\ f' \in LocalsType /\ callers \in Seq(LocalsType)
      /\ Len(callers) \in Nat
    BY DEF CondTypeOK
<1>1. ASSUME NEW holds \in 0..1, If(holds) PROVE ImportedMarked'
    <2>1. f'.import = f.import
        BY <1>0, <1>1 DEF If, Line, LocalsType
    <2>2. QED
        BY <1>1, <2>1, LineMarked DEF If, Line
<1>2. ASSUME NEW holds \in 0..1, Elif(holds) PROVE ImportedMarked'
    <2>1. f'.import = f.import
        <3>1. CASE f.level = 0
            BY <1>0, <1>2, <3>1 DEF Elif, Line, LocalsType
        <3>2. CASE f.level > 0 /\ f.allow = 1
            BY <1>0, <1>2, <3>2 DEF Elif, Line, LocalsType
        <3>3. CASE f.level > 0 /\ f.allow # 1 /\ f.level = f.start_level
            BY <1>0, <1>2, <3>3 DEF Elif, Line, LocalsType
        <3>4. CASE f.level > 0 /\ f.allow # 1 /\ f.level # f.start_level
            BY <1>0, <1>2, <3>4 DEF Elif, Line, LocalsType
        <3>5. QED
            BY <1>0, <3>1, <3>2, <3>3, <3>4, LocalsFields
    <2>2. UNCHANGED <<callers, imported_depth, symbols>>
        BY <1>2 DEF Elif, Line
    <2>3. QED
        BY <2>1, <2>2, LineMarked
<1>3. ASSUME Endif PROVE ImportedMarked'
    <2>1. f'.import = f.import
        BY <1>0, <1>3 DEF Endif, Line, LocalsType
    <2>2. UNCHANGED <<callers, imported_depth, symbols>>
        BY <1>3 DEF Endif, Line
    <2>3. QED
        BY <2>1, <2>2, LineMarked
<1>4. ASSUME NEW x \in Sym, NEW on \in BOOLEAN, Define(x, on) PROVE ImportedMarked'
    <2>1. f'.import = f.import /\ UNCHANGED <<callers, imported_depth>>
        BY <1>0, <1>4 DEF Define, Line, LocalsType
    <2>2. SWIGIMPORTED \in symbols' <=> SWIGIMPORTED \in symbols
        BY <1>4 DEF Define
    <2>3. QED
        BY <2>1, <2>2, LineMarked
<1>5. ASSUME Text PROVE ImportedMarked'
    <2>1. f'.import = f.import
        BY <1>0, <1>5 DEF Text, LocalsType
    <2>2. QED
        BY <1>5, <2>1, LineMarked DEF Text
<1>6. ASSUME NEW import \in 0..1, Include(import) PROVE ImportedMarked'
    <2>1. /\ f'.import = import /\ callers' = Append(callers, f)
          /\ Len(callers') = Len(callers) + 1 /\ callers'[Len(callers) + 1] = f
          /\ \A c \in 1..Len(callers) : callers'[c] = callers[c]
        BY <1>0, <1>6 DEF Include, Locals
    <2> DEFINE new == Len(callers) + 2
    <2>2. Imports' = IF import = 1 THEN Imports \cup {new} ELSE Imports
        <3>1. Imports' = {c \in 1..(Len(callers') + 1) :
                            (IF c <= Len(callers') THEN callers'[c] ELSE f').import = 1}
            BY DEF Imports, Call
        <3>2. Imports = {c \in 1..(Len(callers) + 1) :
                            (IF c <= Len(callers) THEN callers[c] ELSE f).import = 1}
            BY DEF Imports, Call
        <3>3. \A c \in 1..(Len(callers) + 1) :
                (IF c <= Len(callers') THEN callers'[c] ELSE f')
                = (IF c <= Len(callers) THEN callers[c] ELSE f)
            BY <1>0, <2>1
        <3>4. (IF new <= Len(callers') THEN callers'[new] ELSE f') = f'
            BY <1>0, <2>1
        <3>5. /\ 1..(Len(callers') + 1) = 1..(Len(callers) + 1) \cup {new}
              /\ new \notin 1..(Len(callers) + 1)
            BY <1>0, <2>1
        <3> HIDE DEF new
        <3>6. \A c : c \in Imports' <=> c \in Imports \/ (c = new /\ import = 1)
            BY <2>1, <3>1, <3>2, <3>3, <3>4, <3>5
        <3>7. QED
            BY <3>6
    <2>3. new \notin Imports /\ IsFiniteSet(Imports) /\ Cardinality(Imports) \in Nat
        BY <1>0, ImportsFinite DEF Imports
    <2>4. Cardinality(Imports \cup {new}) = Cardinality(Imports) + 1
        BY <2>3, FS_AddElement
    <2>5. Imports = {} <=> Cardinality(Imports) = 0
        BY <2>3, FS_EmptySet
    <2>6. imported_depth' = imported_depth + import
          /\ symbols' = IF import = 1 /\ imported_depth = 0
                        THEN symbols \cup {SWIGIMPORTED} ELSE symbols
        BY <1>6 DEF Include
    <2> HIDE DEF new
    <2>7. CASE import = 1
        BY <2>2, <2>3, <2>4, <2>5, <2>6, <2>7 DEF ImportedMarked
    <2>8. CASE import = 0
        BY <2>2, <2>3, <2>6, <2>8 DEF ImportedMarked
    <2>9. QED
        BY <2>7, <2>8
<1>7. ASSUME EndOfFile PROVE ImportedMarked'
    <2> DEFINE n == Len(callers) - 1
               last == Len(callers) + 1
    <2>1. /\ n \in Nat /\ Len(callers) = n + 1 /\ last = n + 2
          /\ f' = callers[n + 1] /\ callers' = SubSeq(callers, 1, n)
        BY <1>0, <1>7 DEF EndOfFile
    <2>2. \A i \in 1..n : callers[i] \in LocalsType
        BY <1>0, <2>1
    <2>3. Len(callers') = n /\ \A i \in 1..n : callers'[i] = callers[i]
        <3> HIDE DEF n
        <3>1. /\ Len(SubSeq(callers, 1, n)) = IF 1 <= n THEN n - 1 + 1 ELSE 0
              /\ \A i \in 1..(n - 1 + 1) : SubSeq(callers, 1, n)[i] = callers[1 + i - 1]
            BY <2>1, <2>2, SubSeqProperties
        <3>2. QED
            BY <2>1, <3>1
    <2> HIDE DEF n, last
    <2>4. Imports' = Imports \ {last}
        <3>1. \A c \in 1..(n + 1) : Call(c)' = Call(c)
            BY <2>1, <2>3 DEF Call
        <3>2. 1..(Len(callers) + 1) = 1..(n + 1) \cup {last} /\ last \notin 1..(n + 1)
            BY <2>1
        <3>3. QED
            BY <2>1, <2>3, <3>1, <3>2 DEF Imports
    <2>5. last \in Imports <=> f.import = 1
        BY <1>0, <2>1 DEF Imports, Call, last
    <2>6. IsFiniteSet(Imports) /\ Cardinality(Imports) \in Nat
        BY ImportsFinite
    <2>7. last \in Imports => Cardinality(Imports \ {last}) = Cardinality(Imports) - 1
        BY <2>6, FS_RemoveElement
    <2>8. IsFiniteSet(Imports') /\ (Imports' = {} <=> Cardinality(Imports') = 0)
        BY <2>4, <2>6, FS_RemoveElement, FS_EmptySet
    <2>9. imported_depth' = imported_depth - f.import /\ f.import \in 0..1
          /\ symbols' = IF f.import = 1 /\ imported_depth = 1
                        THEN symbols \ {SWIGIMPORTED} ELSE symbols
        BY <1>0, <1>7, LocalsFields DEF EndOfFile
    <2>10. CASE f.import = 1
        BY <2>4, <2>5, <2>6, <2>7, <2>8, <2>9, <2>10 DEF ImportedMarked
    <2>11. CASE f.import = 0
        <3>1. Imports' = Imports
            BY <2>4, <2>5, <2>11
        <3>2. QED
            BY <3>1, <2>6, <2>9, <2>11 DEF ImportedMarked
    <2>12. QED
        BY <2>9, <2>10, <2>11
<1>8. CASE UNCHANGED vars
    BY <1>8, LineMarked DEF vars
<1>9. QED
    BY <1>1, <1>2, <1>3, <1>4, <1>5, <1>6, <1>7, <1>8 DEF Next

\* cpp.c:1195: however %import and %include are nested, SWIGIMPORTED is defined
\* exactly while a file is read that an %import led to.
THEOREM ImportedIsMarked == Spec => []ImportedMarked
<1>1. Init => ImportedMarked
    <2> SUFFICES ASSUME Init PROVE ImportedMarked
        OBVIOUS
    <2>1. Imports = {}
        BY DEF Init, Imports, Call, Locals
    <2>2. QED
        BY <2>1, FS_EmptySet DEF Init, ImportedMarked
<1>2. QED
    BY <1>1, LocalsAreRight, MarkedStep, PTL DEF Spec

-----------------------------------------------------------------------------
(* The wrapper functions. *)

\* What was taken, before the cleanup and behind it.
Taken(m) == \A p \in DOMAIN parm : m[p] \in {"none", "held"} /\ (m[p] = "held" => parm[p] # "parsed")
GivenBack(m) == \A p \in DOMAIN parm :
    m[p] \in {"none", "held", "freed"} /\ (m[p] = "held" => lang = "tcl" /\ parm[p] = "hidden")

NoFreearg == {"allegrocl", "cffi"}
NoNewfree == {"r", "allegrocl", "cffi"}

WrapInv ==
    /\ lang \in DOMAIN Written /\ at \in 1..(Len(W.code) + 1)
    /\ ends \in {"running", "returned", "failed", "left"}
    /\ ends = "running" /\ at <= 8 => Taken(mem)
    /\ ends \in {"running", "returned"} /\ at > 8 => lang \in NoFreearg \/ GivenBack(mem)
    /\ ends = "failed" => lang = "octave" \/ GivenBack(mem)
    /\ ends = "returned" => at > 10
    /\ result = IF at <= 5 THEN "none" ELSE IF at <= 9 \/ lang \in NoNewfree THEN "made" ELSE "freed"

\* What the eighteen modules have in common.
LEMMA WrittenCode ==
    ASSUME lang \in DOMAIN Written
    PROVE  /\ W.code = Code \/ W.code = Append(Code, "directorfree")
           /\ W.leaves \subseteq Errors
           /\ ~W.clean /\ lang # "octave" => W.leaves = Errors
           /\ W.skips \subseteq {"parsed", "hidden"} /\ ("hidden" \in W.skips => lang = "tcl")
           /\ "freearg" \in W.lacks => lang \in NoFreearg
           /\ "newfree" \in W.lacks <=> lang \in NoNewfree
<1> USE DEF W, Written, WithLabel, NoLabel, Lacking, NoFreearg, NoNewfree, Errors
<1>1. CASE lang = "python" BY <1>1 DEF python_code
<1>2. CASE lang = "tcl" BY <1>2 DEF tcl_code
<1>3. CASE lang = "perl" BY <1>3 DEF perl_code
<1>4. CASE lang = "lua" BY <1>4 DEF lua_code
<1>5. CASE lang = "php" BY <1>5 DEF php_code
<1>6. CASE lang = "ruby" BY <1>6 DEF ruby_code
<1>7. CASE lang = "octave" BY <1>7 DEF octave_code
<1>8. CASE lang = "chicken" BY <1>8 DEF chicken_code
<1>9. CASE lang = "guile" BY <1>9 DEF guile_code
<1>10. CASE lang = "mzscheme" BY <1>10 DEF mzscheme_code
<1>11. CASE lang = "ocaml" BY <1>11 DEF ocaml_code
<1>12. CASE lang = "pike" BY <1>12 DEF pike_code
<1>13. CASE lang = "java" BY <1>13 DEF java_code
<1>14. CASE lang = "csharp" BY <1>14 DEF csharp_code
<1>15. CASE lang = "modula3" BY <1>15 DEF modula3_code
<1>16. CASE lang = "r" BY <1>16 DEF r_code
<1>17. CASE lang = "allegrocl" BY <1>17 DEF allegrocl_code
<1>18. CASE lang = "cffi" BY <1>18 DEF cffi_code
<1> QED BY <1>1, <1>2, <1>3, <1>4, <1>5, <1>6, <1>7, <1>8, <1>9, <1>10, <1>11, <1>12, <1>13,
           <1>14, <1>15, <1>16, <1>17, <1>18

\* Where the code stands.
LEMMA Places ==
    ASSUME lang \in DOMAIN Written
    PROVE  /\ Len(W.code) \in {10, 11}
           /\ \A i \in 1..Len(W.code) :
                 /\ W.code[i] = "hidden" <=> i = 1
                 /\ W.code[i] = "count" <=> i = 2
                 /\ W.code[i] = "in" <=> i = 3
                 /\ W.code[i] = "check" <=> i = 4
                 /\ W.code[i] = "action" <=> i = 5
                 /\ W.code[i] = "out" <=> i = 6
                 /\ W.code[i] = "argout" <=> i = 7
                 /\ W.code[i] = "freearg" <=> i = 8
                 /\ W.code[i] = "newfree" <=> i = 9
                 /\ W.code[i] = "ret" <=> i = 10
                 /\ W.code[i] = "directorfree" <=> i = 11
<1> DEFINE At(s) == /\ s[1] = "hidden" /\ s[2] = "count" /\ s[3] = "in" /\ s[4] = "check"
                    /\ s[5] = "action" /\ s[6] = "out" /\ s[7] = "argout" /\ s[8] = "freearg"
                    /\ s[9] = "newfree" /\ s[10] = "ret"
<1>1. Len(Code) = 10 /\ At(Code)
    BY DEF Code
<1> DEFINE long == Append(Code, "directorfree")
<1>2. Len(long) = 11 /\ long[11] = "directorfree"
    BY DEF Code
<1>3. At(long)
    BY DEF Code
<1> HIDE DEF long
<1>4. W.code = Code \/ W.code = long
    BY WrittenCode DEF long
<1>5. At(W.code) /\ (Len(W.code) = 10 \/ (Len(W.code) = 11 /\ W.code[11] = "directorfree"))
    BY <1>1, <1>2, <1>3, <1>4
<1> HIDE DEF At
<1>6. Len(W.code) \in {10, 11}
    BY <1>5
<1>7. ASSUME NEW i \in 1..Len(W.code)
       PROVE  /\ W.code[i] = "hidden" <=> i = 1
              /\ W.code[i] = "count" <=> i = 2
              /\ W.code[i] = "in" <=> i = 3
              /\ W.code[i] = "check" <=> i = 4
              /\ W.code[i] = "action" <=> i = 5
              /\ W.code[i] = "out" <=> i = 6
              /\ W.code[i] = "argout" <=> i = 7
              /\ W.code[i] = "freearg" <=> i = 8
              /\ W.code[i] = "newfree" <=> i = 9
              /\ W.code[i] = "ret" <=> i = 10
              /\ W.code[i] = "directorfree" <=> i = 11
    <2>1. i \in 1..11
        <3> DEFINE l == Len(W.code)
        <3>1. l = 10 \/ l = 11
            BY <1>6
        <3> HIDE DEF l
        <3>2. 1..l \subseteq 1..11
            BY <3>1
        <3> QED BY <3>2 DEF l
    <2> DEFINE c == W.code
    <2> HIDE DEF c
    <2>5. At(c)
        BY <1>5 DEF c
    <2>2. CASE i \in 1..5
        <3>1. i = 1 \/ i = 2 \/ i = 3 \/ i = 4 \/ i = 5
            BY ONLY <2>2
        <3> QED BY ONLY <2>5, <3>1, SMTT(30) DEF At, c
    <2>3. CASE i \in 6..10
        <3>1. i = 6 \/ i = 7 \/ i = 8 \/ i = 9 \/ i = 10
            BY ONLY <2>3
        <3> QED BY ONLY <2>5, <3>1, SMTT(30) DEF At, c
    <2>4. CASE i = 11
        BY <1>5, <2>4
    <2> QED BY <2>1, <2>2, <2>3, <2>4
<1> QED BY <1>6, <1>7

\* The cleanup releases what was taken.
LEMMA CleanupReleases ==
    ASSUME lang \in DOMAIN Written, NEW m, Taken(m)
    PROVE  GivenBack(Cleanup(m))
BY WrittenCode DEF Taken, GivenBack, Cleanup

\* Where a piece of code runs, and that the next one follows.
LEMMA RunsAt ==
    ASSUME WrapInv, NEW c, Reaches(c)
    PROVE  /\ at \in 1..Len(W.code) /\ ends = "running" /\ W.code[at] = c
           /\ Then => /\ at' = at + 1 /\ at' \in 1..(Len(W.code)' + 1) /\ lang' = lang /\ parm' = parm
                      /\ ends' = ends
BY Places DEF WrapInv, Reaches, Then, W

LEMMA WrapStarts == WrapInit => WrapInv
<1> SUFFICES ASSUME WrapInit PROVE WrapInv
    OBVIOUS
<1>1. lang \in DOMAIN Written /\ at = 1 /\ ends = "running" /\ result = "none"
      /\ mem = [p \in DOMAIN parm |-> "none"]
    BY DEF WrapInit
<1>2. 1 \in 1..(Len(W.code) + 1)
    BY <1>1, Places
<1> QED BY <1>1, <1>2 DEF WrapInv, Taken

\* The way of a call that goes on.
LEMMA CodeKeeps ==
    ASSUME WrapInv, NEW c, Reaches(c), Then,
           c \in {"hidden", "in"} => Taken(mem)',
           c \in {"count", "check", "ret", "directorfree", "action", "out", "argout", "newfree"} =>
               Taken(mem)' = Taken(mem) /\ GivenBack(mem)' = GivenBack(mem),
           c = "freearg" => lang \in NoFreearg \/ GivenBack(mem)',
           result' = IF c = "action" THEN "made"
                     ELSE IF c = "newfree" /\ lang \notin NoNewfree THEN "freed" ELSE result
    PROVE  WrapInv'
<1>1. /\ at \in 1..Len(W.code) /\ ends = "running" /\ W.code[at] = c /\ Len(W.code) \in {10, 11}
      /\ at' = at + 1 /\ lang' = lang /\ parm' = parm /\ ends' = ends
      /\ at' \in 1..(Len(W.code)' + 1)
    BY RunsAt, Places DEF WrapInv
<1>2. /\ c = "hidden" <=> at = 1
      /\ c = "in" <=> at = 3
      /\ c = "action" <=> at = 5
      /\ c = "freearg" <=> at = 8
      /\ c = "newfree" <=> at = 9
    BY <1>1, Places DEF WrapInv
<1>3. c \in {"hidden", "in", "count", "check", "ret", "directorfree", "action", "out", "argout",
             "newfree", "freearg"}
    <2>1. at \in 1..11
        BY <1>1
    <2>2. at = 1 \/ at = 2 \/ at = 3 \/ at = 4 \/ at = 5 \/ at = 6 \/ at = 7 \/ at = 8 \/ at = 9
          \/ at = 10 \/ at = 11
        BY <2>1
    <2> QED BY <1>1, <2>2, Places DEF WrapInv
<1>4. at' <= 8 => Taken(mem)'
    BY <1>1, <1>2, <1>3 DEF WrapInv
<1>5. at' > 8 => lang \in NoFreearg \/ GivenBack(mem)'
    BY <1>1, <1>2, <1>3 DEF WrapInv
<1>6. result' = IF at' <= 5 THEN "none" ELSE IF at' <= 9 \/ lang \in NoNewfree THEN "made" ELSE "freed"
    BY <1>1, <1>2 DEF WrapInv
<1> QED BY <1>1, <1>4, <1>5, <1>6 DEF WrapInv

\* The cleanup behind the label, or none.
LEMMA ErrorKeeps ==
    ASSUME WrapInv, NEW c, c \in Errors, Do(c), Error(c), NEW m, Taken(m),
           mem' = IF c \notin W.leaves /\ W.clean THEN Cleanup(m) ELSE m
    PROVE  WrapInv'
<1>1. lang' = lang /\ parm' = parm /\ at' = at /\ result' = result
      /\ ends' = IF c \in W.leaves THEN "left" ELSE "failed"
    BY DEF Error
<1>2. at \in 1..(Len(W.code) + 1) /\ lang \in DOMAIN Written /\ W' = W
    BY <1>1 DEF WrapInv, W
<1>3. ends' = "failed" => lang = "octave" \/ GivenBack(mem)'
    <2> SUFFICES ASSUME ends' = "failed", lang # "octave" PROVE GivenBack(mem)'
        OBVIOUS
    <2>1. c \notin W.leaves /\ W.clean
        BY <1>1, <1>2, WrittenCode
    <2>2. mem' = Cleanup(m) /\ GivenBack(Cleanup(m))
        BY <1>2, <2>1, CleanupReleases
    <2> QED BY <1>1, <2>2 DEF GivenBack
<1> QED BY <1>1, <1>2, <1>3 DEF WrapInv

\* Nothing was freed yet.
LEMMA UsedKeeps ==
    ASSUME Taken(mem), Then, mem' = Used(mem)
    PROVE  Taken(mem)' = Taken(mem) /\ GivenBack(mem)' = GivenBack(mem)
<1>1. parm' = parm /\ lang' = lang
    BY DEF Then
<1>2. \A p \in DOMAIN parm : mem'[p] = mem[p]
    BY DEF Taken, Used
<1> QED BY <1>1, <1>2 DEF Taken, GivenBack

LEMMA WrapKeeps == WrapInv /\ [WrapNext]_wrapVars => WrapInv'
<1> SUFFICES ASSUME WrapInv, [WrapNext]_wrapVars PROVE WrapInv'
    OBVIOUS
<1>0. lang \in DOMAIN Written
    BY DEF WrapInv
<1>1. CASE Hidden
    <2>1. Reaches("hidden") /\ Then /\ result' = result
        BY <1>1 DEF Hidden, Do
    <2>2. at = 1 /\ Taken(mem) /\ parm' = parm
        BY <2>1, RunsAt, Places DEF WrapInv, Then
    <2>3. Taken(mem)'
        BY <1>1, <2>2 DEF Hidden, Hold, Taken
    <2> QED BY <2>1, <2>3, CodeKeeps
<1>2. ASSUME NEW n \in 0..Len(parm), NEW given \in BOOLEAN, In(n, given)
      PROVE  WrapInv'
    <2> DEFINE ps == {p \in 1..n : parm[p] = "visible" \/ (parm[p] = "optional" /\ given)}
               m  == [p \in DOMAIN parm |-> IF p \in ps THEN "held" ELSE mem[p]]
    <2>1. Reaches("in")
        BY <1>2 DEF In, Do
    <2>2. at = 3 /\ Taken(mem)
        BY <2>1, RunsAt, Places DEF WrapInv
    <2>3. Taken(m)
        BY <2>2 DEF Taken
    <2>4. CASE n = Len(parm)
        <3>1. mem' = m /\ Then /\ result' = result
            BY <1>2, <2>4 DEF In
        <3> HIDE DEF m
        <3>2. Taken(mem)'
            BY <2>3, <3>1 DEF Taken, Then
        <3> QED BY <2>1, <3>1, <3>2, CodeKeeps
    <2>5. CASE n # Len(parm)
        <3>1. Error("in") /\ mem' = IF "in" \notin W.leaves /\ W.clean THEN Cleanup(m) ELSE m
            BY <1>2, <2>5 DEF In
        <3> HIDE DEF m
        <3>2. Do("in") /\ "in" \in Errors
            BY <1>2 DEF In, Errors
        <3> QED BY <2>3, <3>1, <3>2, ErrorKeeps
    <2> QED BY <2>4, <2>5
<1>3. ASSUME NEW c \in Errors \ {"in"}, Fails(c)
      PROVE  WrapInv'
    <2>1. Do(c) /\ Reaches(c) /\ Error(c) /\ mem' = IF c \notin W.leaves /\ W.clean THEN Cleanup(mem) ELSE mem
        BY <1>3 DEF Fails, Do
    <2>2. at <= 7
        BY <1>0, <2>1, RunsAt, Places DEF Errors
    <2>3. Taken(mem)
        BY <2>1, <2>2, RunsAt DEF WrapInv
    <2> QED BY <2>1, <2>3, ErrorKeeps
<1>4. ASSUME NEW c \in {"count", "check", "ret", "directorfree"}, Passes(c)
      PROVE  WrapInv'
    <2>1. Reaches(c) /\ Then /\ mem' = mem /\ result' = result
        BY <1>4 DEF Passes, Do
    <2>2. Taken(mem)' = Taken(mem) /\ GivenBack(mem)' = GivenBack(mem)
        BY <2>1 DEF Taken, GivenBack, Then
    <2> QED BY <2>1, <2>2, CodeKeeps
<1>5. ASSUME NEW c \in {"count", "check", "argout", "freearg", "newfree", "ret"}, Lacks(c)
      PROVE  WrapInv'
    <2>1. Reaches(c) /\ c \in W.lacks /\ Then /\ mem' = mem /\ result' = result
        BY <1>5 DEF Lacks
    <2>2. Taken(mem)' = Taken(mem) /\ GivenBack(mem)' = GivenBack(mem)
        BY <2>1 DEF Taken, GivenBack, Then
    <2>3. c = "freearg" => lang \in NoFreearg
        BY <1>0, <2>1, WrittenCode
    <2>4. c = "newfree" => lang \in NoNewfree
        BY <1>0, <2>1, WrittenCode
    <2> QED BY <2>1, <2>2, <2>3, <2>4, CodeKeeps
<1>6. CASE Action
    <2>1. Reaches("action") /\ Then /\ mem' = Used(mem) /\ result' = "made"
        BY <1>6 DEF Action, Do
    <2>2. Taken(mem)
        BY <1>0, <2>1, RunsAt, Places DEF WrapInv
    <2>3. Taken(mem)' = Taken(mem) /\ GivenBack(mem)' = GivenBack(mem)
        BY <2>1, <2>2, UsedKeeps
    <2> QED BY <2>1, <2>3, CodeKeeps
<1>7. CASE Argout
    <2>1. Reaches("argout") /\ Then /\ mem' = Used(mem) /\ result' = result
        BY <1>7 DEF Argout, Do
    <2>2. Taken(mem)
        BY <1>0, <2>1, RunsAt, Places DEF WrapInv
    <2>3. Taken(mem)' = Taken(mem) /\ GivenBack(mem)' = GivenBack(mem)
        BY <2>1, <2>2, UsedKeeps
    <2> QED BY <2>1, <2>3, CodeKeeps
<1>8. CASE Out
    <2>1. Reaches("out") /\ Then /\ mem' = mem /\ result' = IF result = "made" THEN "made" ELSE "spoilt"
        BY <1>8 DEF Out, Do
    <2>2. result = "made"
        BY <1>0, <2>1, RunsAt, Places DEF WrapInv
    <2>3. Taken(mem)' = Taken(mem) /\ GivenBack(mem)' = GivenBack(mem)
        BY <2>1 DEF Taken, GivenBack, Then
    <2> QED BY <2>1, <2>2, <2>3, CodeKeeps
<1>9. CASE Freearg
    <2>1. Reaches("freearg") /\ Then /\ mem' = Cleanup(mem) /\ result' = result
        BY <1>9 DEF Freearg, Do
    <2>2. Taken(mem)
        BY <1>0, <2>1, RunsAt, Places DEF WrapInv
    <2>3. GivenBack(mem)'
        BY <1>0, <2>1, <2>2, CleanupReleases DEF GivenBack, Then
    <2> QED BY <2>1, <2>3, CodeKeeps
<1>10. CASE Newfree
    <2>1. Reaches("newfree") /\ "newfree" \notin W.lacks /\ Then /\ mem' = mem
          /\ result' = IF result = "made" THEN "freed" ELSE "spoilt"
        BY <1>10 DEF Newfree, Do
    <2>2. result = "made" /\ lang \notin NoNewfree
        BY <1>0, <2>1, RunsAt, Places, WrittenCode DEF WrapInv
    <2>3. Taken(mem)' = Taken(mem) /\ GivenBack(mem)' = GivenBack(mem)
        BY <2>1 DEF Taken, GivenBack, Then
    <2> QED BY <2>1, <2>2, <2>3, CodeKeeps
<1>11. CASE ReturnResult
    <2>1. ends = "running" /\ at = Len(W.code) + 1 /\ ends' = "returned" /\ lang' = lang /\ parm' = parm
          /\ at' = at /\ mem' = mem /\ result' = result
        BY <1>11 DEF ReturnResult
    <2>2. W' = W
        BY <2>1 DEF W
    <2>4. at \in 1..(Len(W.code) + 1) /\ Len(W.code) \in {10, 11}
        BY <1>0, Places DEF WrapInv
    <2>5. at > 10
        <3> DEFINE l == Len(W.code)
        <3>1. at = l + 1 /\ (l = 10 \/ l = 11)
            BY <2>1, <2>4
        <3> HIDE DEF l
        <3> QED BY <3>1
    <2>3. GivenBack(mem)' = GivenBack(mem)
        BY <2>1 DEF GivenBack
    <2> QED BY <2>1, <2>2, <2>3, <2>4, <2>5 DEF WrapInv
<1>12. CASE UNCHANGED wrapVars
    BY <1>12 DEF WrapInv, wrapVars, W, Taken, GivenBack
<1> QED BY <1>1, <1>2, <1>3, <1>4, <1>5, <1>6, <1>7, <1>8, <1>9, <1>10, <1>11, <1>12 DEF WrapNext

LEMMA WrapInvHolds == WrapSpec => []WrapInv
BY WrapStarts, WrapKeeps, PTL DEF WrapSpec

LEMMA WrapInvSuffices == WrapInv => CallsRelease
BY Places DEF WrapInv, CallsRelease, ReturnReleases, FailReleases, NewResultFreed, Leaks, GivenBack,
              NoFreearg, NoNewfree

\* emit.cxx, functionWrapper(): whatever a module wrote, for any number of parameters of
\* any kind, a call that returns has released what its typemaps took and the result that
\* was made, each once and after its last use; so has one that fails through the label,
\* wherever it failed.
THEOREM CallsStayReleased == WrapSpec => []CallsRelease
BY WrapInvHolds, WrapInvSuffices, PTL

-----------------------------------------------------------------------------
(* Fragments. *)

\* What a frame still has to look at, and what it is looking at.
Ahead(fr) == ToSet(fr.list) \cup Mentions(fr.lists)
Inner(k) == IF k < Len(calls) THEN calls[k + 1].for ELSE {}

Frames == [for : SUBSET Frag, list : Seq(Frag), lists : Seq(Seq(Frag))]

FragTypes ==
    /\ \A n \in DOMAIN fragments : n \in Frag /\ fragments[n] \in Seq(Seq(Frag))
    /\ out \in Seq(Frag) /\ \A n : n \in ignore <=> \E j \in 1..Len(out) : out[j] = n
    /\ ignore \subseteq DOMAIN fragments /\ looking_fragments \subseteq DOMAIN fragments
    /\ calls \in Seq(Frames) /\ asked \in Seq(Lists)

\* The frames: SWIG's call, and in it fragments each of which the one around it needs.
Nested ==
    /\ \A k \in 1..Len(calls) : \/ k = 1 /\ calls[k].for = {}
                                \/ k > 1 /\ \E n \in Frag : calls[k].for = {n}
    /\ \A k, l \in 1..Len(calls) : \A n \in calls[k].for \cap calls[l].for : k = l
    /\ \A n : n \in looking_fragments <=> \E k \in 1..Len(calls) : n \in calls[k].for
    /\ looking_fragments \cap ignore = {}
    /\ \A k \in 1..Len(calls) : \A n \in calls[k].for : Ahead(calls[k]) \cup Inner(k) \subseteq Needs(n)

OneName(fr) == Len(fr.list) <= 1 /\ \A k \in 1..Len(fr.lists) : Len(fr.lists[k]) = 1
OneNames == Singles => \A k \in 1..Len(calls) : k > 1 => OneName(calls[k])

\* What a fragment needs is written before it, or is still to come.
NeedsCome ==
    \A k \in 1..Len(calls) : \A n \in calls[k].for : \A d \in Needs(n) :
        /\ Acyclic => d \in Ahead(calls[k]) \cup Inner(k) \cup ignore \cup missing
        /\ Singles => d \in Ahead(calls[k]) \cup looking_fragments \cup ignore \cup missing

NeedsWritten ==
    \A k \in 1..Len(out) : \A d \in Needs(out[k]) \ missing :
        /\ Acyclic => \E j \in 1..(k - 1) : out[j] = d
        /\ Singles => d \in looking_fragments \cup ignore

AskedCome ==
    \A k \in 1..Len(asked) : \A d \in ToSet(asked[k]) :
        d \in ignore \cup missing \/ (Calling /\ d \in Ahead(calls[1]) \cup Inner(1))

FragInv ==
    FragTypes /\ Nested /\ OneNames /\ NeedsCome /\ NeedsWritten /\ AskedCome
    /\ \A j, k \in 1..Len(out) : out[j] = out[k] => j = k

-----------------------------------------------------------------------------
\* A list is its first name and the rest; the arguments are the first list and the rest.
LEMMA HeadAndTail ==
    ASSUME NEW S, NEW s \in Seq(S), s # <<>>
    PROVE  /\ Head(s) \in S /\ Tail(s) \in Seq(S)
           /\ ToSet(s) = {Head(s)} \cup ToSet(Tail(s))
<1>1. Len(s) \in Nat \ {0} /\ Head(s) = s[1] /\ Head(s) \in S /\ Tail(s) \in Seq(S)
      /\ Len(Tail(s)) = Len(s) - 1 /\ \A k \in 1..(Len(s) - 1) : Tail(s)[k] = s[k + 1]
    OBVIOUS
<1>2. DOMAIN s = 1..Len(s) /\ DOMAIN Tail(s) = 1..(Len(s) - 1)
    BY <1>1
<1>3. ASSUME NEW x \in ToSet(s) PROVE x = Head(s) \/ x \in ToSet(Tail(s))
    <2>1. PICK k \in 1..Len(s) : x = s[k]
        BY <1>2 DEF ToSet
    <2>2. CASE k = 1
        BY <1>1, <2>1, <2>2
    <2>3. CASE k # 1
        <3>1. k - 1 \in 1..(Len(s) - 1) /\ (k - 1) + 1 = k
            BY <1>1, <2>1, <2>3
        <3>2. Tail(s)[k - 1] = x
            BY <1>1, <2>1, <3>1
        <3> QED BY <1>2, <3>1, <3>2 DEF ToSet
    <2> QED BY <2>2, <2>3
<1>4. Head(s) \in ToSet(s)
    BY <1>1, <1>2 DEF ToSet
<1>5. ASSUME NEW x \in ToSet(Tail(s)) PROVE x \in ToSet(s)
    <2>1. PICK k \in 1..(Len(s) - 1) : x = Tail(s)[k]
        BY <1>2 DEF ToSet
    <2>2. k + 1 \in 1..Len(s) /\ x = s[k + 1]
        BY <1>1, <2>1
    <2> QED BY <1>2, <2>2 DEF ToSet
<1> QED BY <1>1, <1>3, <1>4, <1>5

LEMMA MentionsTail ==
    ASSUME NEW s \in Seq(Seq(Frag)), s # <<>>
    PROVE  /\ Head(s) \in Seq(Frag) /\ Tail(s) \in Seq(Seq(Frag))
           /\ Mentions(s) = ToSet(Head(s)) \cup Mentions(Tail(s))
<1>1. ASSUME NEW t PROVE Mentions(t) = UNION {ToSet(l) : l \in ToSet(t)}
    <2>1. \A x : x \in Mentions(t) <=> \E k \in DOMAIN t : x \in ToSet(t[k])
        BY DEF Mentions
    <2>2. \A l : l \in ToSet(t) <=> \E k \in DOMAIN t : l = t[k]
        BY DEF ToSet
    <2> QED BY <2>1, <2>2
<1>2. Head(s) \in Seq(Frag) /\ Tail(s) \in Seq(Seq(Frag)) /\ ToSet(s) = {Head(s)} \cup ToSet(Tail(s))
    BY HeadAndTail
<1> QED BY <1>1, <1>2

LEMMA Empty == ToSet(<<>>) = {} /\ Mentions(<<>>) = {}
BY DEF ToSet, Mentions

\* What depends on the fragments that are registered.
LEMMA SameFragments ==
    ASSUME fragments' = fragments
    PROVE  Acyclic' = Acyclic /\ Singles' = Singles /\ \A n : Needs(n)' = Needs(n)
<1>1. \A n : Needs(n)' = Needs(n)
    BY DEF Needs
<1> QED BY <1>1 DEF Acyclic, Singles

\* fragment.c:117: only fragments that need each other lead back to one that is being emitted.
LEMMA CircleNeeds ==
    ASSUME FragInv, NEW n, Calling, n \in Ahead(Current), n \in looking_fragments
    PROVE  ~Acyclic
<1> DEFINE L == Len(calls)
<1>1. L \in Nat \ {0} /\ calls[L] \in Frames /\ Current = calls[L]
    BY DEF FragInv, FragTypes, Calling, Current
<1>2. PICK k \in 1..L : n \in calls[k].for
    BY DEF FragInv, Nested
<1> DEFINE S == UNION {calls[j].for : j \in k..L}
<1> SUFFICES ASSUME Acyclic PROVE FALSE
    OBVIOUS
<1>3. n \in S /\ S \in SUBSET Frag
    <2>1. k \in k..L /\ k..L \subseteq 1..L
        BY <1>1, <1>2
    <2>2. \A j \in 1..L : calls[j].for \subseteq Frag
        BY DEF FragInv, Nested
    <2> QED BY <1>2, <2>1, <2>2
<1>4. ASSUME NEW m \in S PROVE Needs(m) \cap S # {}
    <2>1. PICK j \in k..L : m \in calls[j].for
        OBVIOUS
    <2>2. j \in 1..L /\ k > 1
        BY <1>1, <1>2, <2>1 DEF FragInv, Nested
    <2>3. Ahead(calls[j]) \cup Inner(j) \subseteq Needs(m)
        BY <2>1, <2>2 DEF FragInv, Nested
    <2>4. CASE j = L
        BY <1>1, <1>3, <2>3, <2>4
    <2>5. CASE j # L
        <3>1. j < L /\ j + 1 \in k..L /\ j + 1 \in 1..L /\ j + 1 > 1
            BY <1>1, <2>1, <2>2, <2>5
        <3>2. PICK p \in Frag : calls[j + 1].for = {p}
            BY <3>1 DEF FragInv, Nested
        <3>3. p \in Inner(j) /\ p \in S
            BY <3>1, <3>2 DEF Inner
        <3> QED BY <2>3, <3>3
    <2> QED BY <2>4, <2>5
<1> QED BY <1>3, <1>4 DEF Acyclic

\* The outermost call is for no fragment, and when it looks at its list none is being emitted.
LEMMA Outermost ==
    ASSUME FragInv, Len(calls) = 1
    PROVE  looking_fragments = {} /\ calls[1].for = {}
BY DEF FragInv, Nested

-----------------------------------------------------------------------------
LEMMA FragStarts == FragInit => FragInv
BY DEF FragInit, FragInv, FragTypes, Nested, OneNames, NeedsCome, NeedsWritten, AskedCome

\* A fragment that is registered is not written, and no frame is open.
LEMMA RegisterKeeps ==
    ASSUME FragInv, NEW n \in Frag, NEW kwargs \in Kwargs, Swig_fragment_register(n, kwargs)
    PROVE  FragInv'
<1>1. calls = <<>> /\ n \notin DOMAIN fragments
      /\ fragments' = [m \in DOMAIN fragments \cup {n} |-> IF m = n THEN kwargs ELSE fragments[m]]
      /\ ignore' = ignore /\ looking_fragments' = looking_fragments /\ out' = out
      /\ missing' = missing /\ asked' = asked /\ calls' = calls
    BY DEF Swig_fragment_register
<1>2. \A m \in DOMAIN fragments : m # n /\ Needs(m)' = Needs(m)
    BY <1>1 DEF Needs
<1>3. \A m : Needs(m) \subseteq Needs(m)'
    BY <1>1 DEF Needs
<1>4. Acyclic' => Acyclic
    BY <1>3 DEF Acyclic
<1>5. Singles' => Singles
    <2> SUFFICES ASSUME Singles', NEW m \in DOMAIN fragments PROVE \A k \in DOMAIN fragments[m] : Len(fragments[m][k]) = 1
        BY DEF Singles
    <2>1. m \in DOMAIN fragments' /\ fragments'[m] = fragments[m]
        BY <1>1
    <2> QED BY <2>1 DEF Singles
<1>6. FragTypes'
    BY <1>1, FragAssumption DEF FragInv, FragTypes
<1>7. Len(calls) = 0 /\ ~Calling
    BY <1>1 DEF Calling
<1>8. NeedsWritten'
    <2>1. \A k \in 1..Len(out) : out[k] \in DOMAIN fragments
        BY DEF FragInv, FragTypes
    <2> QED BY <1>1, <1>2, <1>4, <1>5, <2>1 DEF FragInv, NeedsWritten
<1> QED BY <1>1, <1>6, <1>7, <1>8 DEF FragInv, Nested, OneNames, NeedsCome, AskedCome, Calling

LEMMA CallKeeps ==
    ASSUME FragInv, NEW list \in Lists, Swig_fragment_emit(list)
    PROVE  FragInv'
<1>1. calls = <<>> /\ asked' = Append(asked, list)
      /\ calls' = <<[for |-> {}, list |-> list, lists |-> <<>>]>>
      /\ fragments' = fragments /\ ignore' = ignore /\ looking_fragments' = looking_fragments
      /\ out' = out /\ missing' = missing
    BY DEF Swig_fragment_emit
<1>2. Acyclic' = Acyclic /\ Singles' = Singles /\ \A n : Needs(n)' = Needs(n)
    BY <1>1, SameFragments
<1> DEFINE fr == [for |-> {}, list |-> list, lists |-> <<>>]
<1>3. Len(calls) = 0 /\ Len(calls') = 1 /\ calls'[1] = fr /\ calls' \in Seq(Frames) /\ Calling'
      /\ \A k \in 1..1 : k = 1
    BY <1>1, FragAssumption DEF Frames, Calling
<1>4. FragTypes'
    BY <1>1, <1>3 DEF FragInv, FragTypes
<1>5. Nested'
    BY <1>1, <1>3 DEF FragInv, Nested
<1>6. OneNames' /\ NeedsCome'
    BY <1>3 DEF OneNames, NeedsCome
<1>7. NeedsWritten'
    BY <1>1, <1>2 DEF FragInv, NeedsWritten
<1>8. AskedCome'
    <2>1. Ahead(calls[1])' = ToSet(list) \cup Mentions(<<>>)
        BY <1>3 DEF Ahead
    <2> SUFFICES ASSUME NEW k \in 1..Len(asked'), NEW d \in ToSet(asked'[k])
                 PROVE  d \in ignore \cup missing \/ d \in ToSet(list)
        BY <1>1, <1>3, <2>1 DEF AskedCome
    <2>2. asked \in Seq(Lists) /\ Len(asked') = Len(asked) + 1 /\ asked'[Len(asked) + 1] = list
          /\ \A l \in 1..Len(asked) : asked'[l] = asked[l]
        BY <1>1 DEF FragInv, FragTypes
    <2>3. k = Len(asked) + 1 \/ k \in 1..Len(asked)
        BY <2>2
    <2> QED BY <1>1, <2>2, <2>3 DEF FragInv, AskedCome, Calling
<1> QED BY <1>1, <1>4, <1>5, <1>6, <1>7, <1>8 DEF FragInv

\* The innermost call looks at its list: the frame changes to fr.
LEMMA FrameKeeps ==
    ASSUME FragInv, Calling, NEW fr \in Frames, Rest(fr), fr.for = Current.for,
           Ahead(fr) \subseteq Ahead(Current),
           fragments' = fragments, ignore' = ignore, looking_fragments' = looking_fragments,
           out' = out, asked' = asked, missing \subseteq missing',
           Acyclic \/ Len(calls) = 1 => Ahead(Current) \subseteq Ahead(fr) \cup ignore \cup missing',
           Singles => Ahead(Current) \subseteq Ahead(fr) \cup ignore \cup missing' \cup looking_fragments,
           OneName(Current) => OneName(fr)
    PROVE  FragInv'
<1> DEFINE L == Len(calls)
<1>1. L \in Nat \ {0} /\ calls[L] \in Frames /\ Current = calls[L]
    BY DEF FragInv, FragTypes, Calling, Current
<1>2. calls' = [calls EXCEPT ![L] = fr] /\ calls \in Seq(Frames)
    BY DEF Rest, FragInv, FragTypes
<1>3. Len(calls') = L /\ calls' \in Seq(Frames) /\ calls'[L] = fr
      /\ \A k \in 1..L : k # L => calls'[k] = calls[k]
    BY <1>1, <1>2
<1>4. \A k \in 1..L : calls'[k].for = calls[k].for
    BY <1>1, <1>3
<1>5. \A k \in 1..L : Inner(k)' = Inner(k)
    <2> SUFFICES ASSUME NEW k \in 1..L PROVE Inner(k)' = Inner(k)
        OBVIOUS
    <2>1. k < L => k + 1 \in 1..L
        BY <1>1
    <2> QED BY <1>3, <1>4, <2>1 DEF Inner
<1>6. \A k \in 1..L : Ahead(calls'[k]) \subseteq Ahead(calls[k])
    BY <1>1, <1>3
<1>7. Acyclic' = Acyclic /\ Singles' = Singles /\ \A n : Needs(n)' = Needs(n)
    BY SameFragments
<1>16. Calling'
    BY <1>1, <1>3 DEF Calling
<1> DEFINE ahead(k) == Ahead(calls'[k])
<1>17. \A k \in 1..L : Ahead(calls[k])' = ahead(k)
    BY DEF Ahead
<1>8. \A k \in 1..L :
         /\ Acyclic \/ L = 1 => Ahead(calls[k]) \subseteq ahead(k) \cup ignore \cup missing'
         /\ Singles => Ahead(calls[k]) \subseteq ahead(k) \cup ignore \cup missing' \cup looking_fragments
         /\ ahead(k) \subseteq Ahead(calls[k])
    BY <1>1, <1>3
<1>15. L # 1 => ahead(1) = Ahead(calls[1])
    BY <1>1, <1>3
<1> HIDE DEF ahead
<1>9. FragTypes'
    BY <1>3 DEF FragInv, FragTypes
<1>10. Nested'
    <2>1. \A k \in 1..L : \A n \in calls[k].for : ahead(k) \cup Inner(k)' \subseteq Needs(n)'
        BY <1>5, <1>7, <1>8 DEF FragInv, Nested
    <2> QED BY <1>3, <1>4, <1>17, <2>1, SMTT(30) DEF FragInv, Nested
<1>11. OneNames'
    BY <1>1, <1>3, <1>7 DEF FragInv, OneNames, OneName
<1>12. NeedsCome'
    <2> SUFFICES ASSUME NEW k \in 1..L, NEW n \in calls[k].for, NEW d \in Needs(n)
                 PROVE  /\ Acyclic => d \in ahead(k) \cup Inner(k) \cup ignore \cup missing'
                        /\ Singles => d \in ahead(k) \cup looking_fragments \cup ignore \cup missing'
        BY <1>3, <1>4, <1>5, <1>7, <1>17 DEF NeedsCome
    <2>1. /\ Acyclic => d \in Ahead(calls[k]) \cup Inner(k) \cup ignore \cup missing
          /\ Singles => d \in Ahead(calls[k]) \cup looking_fragments \cup ignore \cup missing
        BY DEF FragInv, NeedsCome
    <2> QED BY <1>8, <2>1
<1>13. NeedsWritten'
    BY <1>7 DEF FragInv, NeedsWritten
<1>14. AskedCome'
    <2> SUFFICES ASSUME NEW k \in 1..Len(asked), NEW d \in ToSet(asked[k])
                 PROVE  d \in ignore \cup missing' \/ d \in ahead(1) \cup Inner(1)
        BY <1>1, <1>3, <1>5, <1>16, <1>17 DEF AskedCome
    <2>1. d \in ignore \cup missing \/ d \in Ahead(calls[1]) \cup Inner(1)
        BY DEF FragInv, AskedCome
    <2>2. 1 \in 1..L
        BY <1>1
    <2>3. CASE L = 1
        BY <1>8, <2>1, <2>2, <2>3
    <2>4. CASE L # 1
        BY <1>15, <2>1, <2>4
    <2> QED BY <2>3, <2>4
<1> QED BY <1>9, <1>10, <1>11, <1>12, <1>13, <1>14 DEF FragInv

-----------------------------------------------------------------------------
LEMMA Frame ==
    ASSUME FragInv, Calling
    PROVE  Len(calls) \in Nat \ {0} /\ Current \in Frames /\ Current = calls[Len(calls)]
BY DEF FragInv, FragTypes, Calling, Current

LEMMA LookAhead ==
    ASSUME FragInv, NEW n, Looks(n)
    PROVE  /\ Calling /\ Current \in Frames /\ OnLooks \in Frames
           /\ OnLooks.for = Current.for /\ OnLooks.lists = Current.lists
           /\ Ahead(Current) = Ahead(OnLooks) \cup {n}
           /\ OneName(Current) => OneName(OnLooks)
<1>1. Calling /\ Current.list # <<>> /\ n = Head(Current.list) /\ Current \in Frames
    BY Frame DEF Looks
<1>2. Current.list \in Seq(Frag)
    BY <1>1 DEF Frames
<1>3. Tail(Current.list) \in Seq(Frag) /\ ToSet(Current.list) = {n} \cup ToSet(Tail(Current.list))
      /\ Len(Tail(Current.list)) <= Len(Current.list) /\ Len(Current.list) \in Nat
      /\ Len(Tail(Current.list)) \in Nat
    BY <1>1, <1>2, HeadAndTail
<1>4. OnLooks \in Frames /\ OnLooks.for = Current.for /\ OnLooks.lists = Current.lists
      /\ OnLooks.list = Tail(Current.list)
    BY <1>1, <1>3 DEF OnLooks, Frames
<1> QED BY <1>1, <1>3, <1>4 DEF Ahead, OneName

LEMMA CircleKeeps ==
    ASSUME FragInv, NEW n, Circle(n)
    PROVE  FragInv'
<1> DEFINE fr == [Current EXCEPT !.list = <<>>]
<1>1. Looks(n) /\ n \in looking_fragments /\ Rest(fr) /\ fragments' = fragments /\ ignore' = ignore
      /\ looking_fragments' = looking_fragments /\ out' = out /\ missing' = missing /\ asked' = asked
    BY DEF Circle
<1>2. Calling /\ Current \in Frames /\ Ahead(Current) = Ahead(OnLooks) \cup {n}
    BY <1>1, LookAhead
<1>3. fr \in Frames /\ fr.for = Current.for /\ fr.lists = Current.lists /\ fr.list = <<>>
    <2>1. Current.for \in SUBSET Frag /\ Current.lists \in Seq(Seq(Frag)) /\ <<>> \in Seq(Frag)
        BY <1>2 DEF Frames
    <2>2. fr = [for |-> Current.for, list |-> <<>>, lists |-> Current.lists]
        BY <1>2 DEF Frames
    <2> HIDE DEF fr
    <2> QED BY <2>1, <2>2 DEF Frames
<1>4. ~Acyclic /\ Len(calls) # 1
    BY <1>1, <1>2, CircleNeeds, Outermost
<1>5. Ahead(fr) \subseteq Ahead(Current) /\ (OneName(Current) => OneName(fr))
    BY <1>3, Empty DEF Ahead, OneName
<1>6. Singles => Ahead(Current) \subseteq Ahead(fr) \cup looking_fragments
    <2> SUFFICES ASSUME Singles PROVE Ahead(Current) \subseteq Ahead(fr) \cup looking_fragments
        OBVIOUS
    <2>1. Len(calls) \in Nat \ {0} /\ Current = calls[Len(calls)]
        BY <1>2, Frame
    <2>2. OneName(Current)
        BY <1>4, <2>1 DEF FragInv, OneNames
    <2>3. Current.list \in Seq(Frag) /\ Current.list # <<>> /\ n = Head(Current.list)
        BY <1>1, <1>2 DEF Looks, Frames
    <2>4. Tail(Current.list) = <<>>
        BY <2>2, <2>3 DEF OneName
    <2>5. ToSet(Current.list) = {n} \cup ToSet(<<>>)
        BY <2>3, <2>4, HeadAndTail
    <2>6. ToSet(Current.list) = {n}
        BY <2>5, Empty
    <2> QED BY <1>1, <1>3, <2>6 DEF Ahead
<1> HIDE DEF fr
<1> QED BY <1>1, <1>2, <1>3, <1>4, <1>5, <1>6, FrameKeeps

LEMMA LookKeeps ==
    ASSUME FragInv, NEW n, NotFound(n) \/ Emitted(n)
    PROVE  FragInv'
<1>1. Looks(n) /\ Rest(OnLooks) /\ fragments' = fragments /\ ignore' = ignore
      /\ looking_fragments' = looking_fragments /\ out' = out /\ asked' = asked
      /\ missing \subseteq missing' /\ n \in ignore \cup missing'
    BY DEF NotFound, Emitted
<1> QED BY <1>1, LookAhead, FrameKeeps

LEMMA ArgumentKeeps ==
    ASSUME FragInv, NextArgument
    PROVE  FragInv'
<1> DEFINE fr == [Current EXCEPT !.list = Head(Current.lists), !.lists = Tail(@)]
<1>1. Calling /\ Current.list = <<>> /\ Current.lists # <<>> /\ Rest(fr) /\ fragments' = fragments
      /\ ignore' = ignore /\ looking_fragments' = looking_fragments /\ out' = out
      /\ missing' = missing /\ asked' = asked
    BY DEF NextArgument
<1>2. Current \in Frames /\ Current.lists \in Seq(Seq(Frag))
    BY <1>1, Frame DEF Frames
<1>3. Head(Current.lists) \in Seq(Frag) /\ Tail(Current.lists) \in Seq(Seq(Frag))
      /\ Mentions(Current.lists) = ToSet(Head(Current.lists)) \cup Mentions(Tail(Current.lists))
    BY <1>1, <1>2, MentionsTail
<1>4. fr \in Frames /\ fr.for = Current.for /\ fr.list = Head(Current.lists) /\ fr.lists = Tail(Current.lists)
    BY <1>2, <1>3 DEF Frames
<1> HIDE DEF fr
<1>5. Ahead(fr) = Ahead(Current)
    BY <1>1, <1>3, <1>4, Empty DEF Ahead
<1>6. OneName(Current) => OneName(fr)
    <2> SUFFICES ASSUME OneName(Current) PROVE OneName(fr)
        OBVIOUS
    <2> DEFINE s == Current.lists
    <2>1. s \in Seq(Seq(Frag)) /\ s # <<>> /\ \A k \in 1..Len(s) : Len(s[k]) = 1
        BY <1>1, <1>2 DEF OneName
    <2> HIDE DEF s
    <2>2. Len(s) \in Nat \ {0} /\ Head(s) = s[1] /\ Len(Tail(s)) = Len(s) - 1
          /\ \A k \in 1..(Len(s) - 1) : Tail(s)[k] = s[k + 1]
        BY <2>1
    <2>3. Len(Head(s)) = 1
        BY <2>1, <2>2
    <2>4. \A k \in 1..Len(Tail(s)) : Len(Tail(s)[k]) = 1
        <3> TAKE k \in 1..Len(Tail(s))
        <3>1. k + 1 \in 1..Len(s) /\ Tail(s)[k] = s[k + 1]
            BY <2>2
        <3> QED BY <2>1, <3>1
    <2>5. fr.list = Head(s) /\ fr.lists = Tail(s)
        BY <1>4 DEF s
    <2>6. Len(fr.list) = 1
        BY <2>3, <2>5
    <2>7. \A k \in 1..Len(fr.lists) : Len(fr.lists[k]) = 1
        BY <2>4, <2>5
    <2> QED BY <2>6, <2>7 DEF OneName
<1> QED BY <1>1, <1>2, <1>4, <1>5, <1>6, FrameKeeps

LEMMA EmitKeeps ==
    ASSUME FragInv, NEW n \in Frag, Emit(n)
    PROVE  FragInv'
<1>0. PICK L \in Nat : L = Len(calls)
    BY DEF FragInv, FragTypes
<1> USE <1>0
<1> DEFINE fr == [for |-> {n}, list |-> <<>>, lists |-> fragments[n]]
<1>1. /\ Looks(n) /\ n \notin looking_fragments /\ n \in DOMAIN fragments /\ n \notin ignore
      /\ looking_fragments' = looking_fragments \cup {n}
      /\ calls' = Append([calls EXCEPT ![L] = OnLooks], fr)
      /\ fragments' = fragments /\ ignore' = ignore /\ out' = out /\ missing' = missing
      /\ asked' = asked
    BY <1>0 DEF Emit
<1>2. /\ Calling /\ Current \in Frames /\ OnLooks \in Frames /\ OnLooks.for = Current.for
      /\ Ahead(Current) = Ahead(OnLooks) \cup {n} /\ (OneName(Current) => OneName(OnLooks))
    BY <1>1, LookAhead
<1>3. L \in Nat \ {0} /\ Current = calls[L] /\ calls \in Seq(Frames) /\ Len(calls) = L
    BY <1>0, <1>2, Frame DEF FragInv, FragTypes
<1>4. fr \in Frames /\ fr.for = {n} /\ fr.list = <<>> /\ fr.lists = fragments[n]
      /\ fragments[n] \in Seq(Seq(Frag))
    <2>1. fragments[n] \in Seq(Seq(Frag)) /\ <<>> \in Seq(Frag)
        BY <1>1 DEF FragInv, FragTypes
    <2> QED BY <2>1 DEF Frames
<1> HIDE DEF fr
<1>5. Len(calls') = L + 1 /\ calls' \in Seq(Frames) /\ calls'[L] = OnLooks /\ calls'[L + 1] = fr
      /\ \A k \in 1..L : k # L => calls'[k] = calls[k]
    <2> DEFINE c == [calls EXCEPT ![L] = OnLooks]
    <2>1. c \in Seq(Frames) /\ Len(c) = L /\ c[L] = OnLooks /\ \A k \in 1..L : k # L => c[k] = calls[k]
        BY <1>2, <1>3
    <2>2. calls' = Append(c, fr)
        BY <1>1
    <2> HIDE DEF c
    <2>3. Len(calls') = L + 1 /\ calls' \in Seq(Frames) /\ calls'[L + 1] = fr
          /\ \A k \in 1..L : calls'[k] = c[k]
        BY <1>3, <1>4, <2>1, <2>2
    <2> QED BY <1>3, <2>1, <2>3
<1>6. \A k \in 1..(L + 1) : k = L + 1 \/ k \in 1..L
    BY <1>3
<1>7. \A k \in 1..L : calls'[k].for = calls[k].for
    BY <1>2, <1>3, <1>5
<1>8. Acyclic' = Acyclic /\ Singles' = Singles /\ \A m : Needs(m)' = Needs(m)
    BY <1>1, SameFragments
<1> DEFINE ahead(k) == Ahead(calls'[k])
<1>9. \A k : Ahead(calls[k])' = ahead(k)
    BY DEF Ahead
<1>10. /\ \A k \in 1..L : k # L => ahead(k) = Ahead(calls[k])
       /\ Ahead(calls[L]) = ahead(L) \cup {n} /\ ahead(L + 1) = Needs(n)
    BY <1>1, <1>2, <1>3, <1>4, <1>5, Empty DEF Ahead, Needs
<1> HIDE DEF ahead
<1>11. /\ \A k \in 1..L : k # L => Inner(k)' = Inner(k)
       /\ Inner(L) = {} /\ Inner(L)' = {n} /\ Inner(L + 1)' = {}
    <2>1. ASSUME NEW k \in 1..L, k # L PROVE Inner(k)' = Inner(k)
        <3>1. k + 1 \in 1..L /\ k < L /\ k < L + 1
            BY <1>3, <2>1
        <3> QED BY <1>5, <1>7, <3>1 DEF Inner
    <2>2. Inner(L) = {} /\ Inner(L + 1)' = {}
        BY <1>3, <1>5 DEF Inner
    <2>3. Inner(L)' = {n}
        BY <1>3, <1>4, <1>5 DEF Inner
    <2> QED BY <2>1, <2>2, <2>3
<1>12. FragTypes'
    BY <1>1, <1>5 DEF FragInv, FragTypes
<1>13. Nested'
    <2>1. \A k \in 1..(L + 1) : \/ k = 1 /\ calls'[k].for = {}
                                \/ k > 1 /\ \E m \in Frag : calls'[k].for = {m}
        <3> TAKE k \in 1..(L + 1)
        <3>1. CASE k = L + 1
            <4>1. k > 1 /\ calls'[k].for = {n}
                BY <1>3, <1>4, <1>5, <3>1
            <4> QED BY <4>1
        <3>2. CASE k \in 1..L
            BY <1>7, <3>2 DEF FragInv, Nested
        <3> QED BY <1>6, <3>1, <3>2
    <2>2. \A k \in 1..L : n \notin calls[k].for
        BY <1>1 DEF FragInv, Nested
    <2>3. \A k, l \in 1..(L + 1) : \A m \in calls'[k].for \cap calls'[l].for : k = l
        <3> TAKE k, l \in 1..(L + 1)
        <3>1. calls'[L + 1].for = {n}
            BY <1>4, <1>5
        <3>2. CASE k = L + 1 /\ l = L + 1
            BY <3>2
        <3>3. CASE k = L + 1 /\ l \in 1..L
            BY <1>7, <2>2, <3>1, <3>3
        <3>4. CASE k \in 1..L /\ l = L + 1
            BY <1>7, <2>2, <3>1, <3>4
        <3>5. CASE k \in 1..L /\ l \in 1..L
            BY <1>7, <3>5 DEF FragInv, Nested
        <3> QED BY <1>6, <3>2, <3>3, <3>4, <3>5
    <2>4. \A m : m \in looking_fragments' <=> \E k \in 1..(L + 1) : m \in calls'[k].for
        <3>1. \A k \in 1..L : k \in 1..(L + 1)
            BY <1>3
        <3>2. L + 1 \in 1..(L + 1)
            BY <1>3
        <3>3. \A m : m \in looking_fragments <=> \E k \in 1..L : m \in calls[k].for
            BY DEF FragInv, Nested
        <3>4. looking_fragments' = looking_fragments \cup {n}
            BY <1>1
        <3>5. calls'[L + 1].for = {n}
            BY <1>4, <1>5
        <3> TAKE m
        <3>6. CASE m = n
            BY <3>2, <3>4, <3>5, <3>6
        <3>7. CASE m # n
            BY <1>6, <1>7, <3>1, <3>3, <3>4, <3>5, <3>7
        <3> QED BY <3>6, <3>7
    <2>5. looking_fragments' \cap ignore' = {}
        BY <1>1 DEF FragInv, Nested
    <2>6. \A k \in 1..(L + 1) : \A m \in calls'[k].for : ahead(k) \cup Inner(k)' \subseteq Needs(m)'
        <3> SUFFICES ASSUME NEW k \in 1..(L + 1), NEW m \in calls'[k].for
                     PROVE  ahead(k) \cup Inner(k)' \subseteq Needs(m)
            BY <1>8
        <3>1. CASE k = L + 1
            <4>1. m = n
                BY <1>4, <1>5, <3>1
            <4> QED BY <1>10, <1>11, <3>1, <4>1
        <3>2. CASE k \in 1..L
            <4>1. Ahead(calls[k]) \cup Inner(k) \subseteq Needs(m)
                BY <1>7, <3>2 DEF FragInv, Nested
            <4>2. CASE k = L
                <5>1. ahead(L) \cup {n} \subseteq Needs(m)
                    BY <1>10, <4>1, <4>2
                <5> QED BY <1>11, <4>2, <5>1
            <4>3. CASE k # L
                BY <1>10, <1>11, <3>2, <4>1, <4>3
            <4> QED BY <4>2, <4>3
        <3> QED BY <1>6, <3>1, <3>2
    <2> QED BY <1>5, <1>9, <2>1, <2>3, <2>4, <2>5, <2>6 DEF Nested
<1>14. OneNames'
    <2> SUFFICES ASSUME Singles, NEW k \in 1..(L + 1), k > 1 PROVE OneName(calls'[k])
        BY <1>5, <1>8 DEF OneNames, OneName
    <2>1. CASE k = L + 1
        <3>1. \A l \in 1..Len(fragments[n]) : Len(fragments[n][l]) = 1
            BY <1>1, <1>4 DEF Singles
        <3> QED BY <1>4, <1>5, <2>1, <3>1 DEF OneName
    <2>2. CASE k \in 1..L
        BY <1>2, <1>3, <1>5, <2>2 DEF FragInv, OneNames
    <2> QED BY <1>6, <2>1, <2>2
<1>15. NeedsCome'
    <2> SUFFICES ASSUME NEW k \in 1..(L + 1), NEW m \in calls'[k].for, NEW d \in Needs(m)
                 PROVE  /\ Acyclic => d \in ahead(k) \cup Inner(k)' \cup ignore \cup missing
                        /\ Singles => d \in ahead(k) \cup looking_fragments' \cup ignore \cup missing
        BY <1>1, <1>5, <1>8, <1>9 DEF NeedsCome
    <2>1. CASE k = L + 1
        BY <1>4, <1>5, <1>10, <2>1
    <2>2. CASE k \in 1..L
        <3>1. /\ Acyclic => d \in Ahead(calls[k]) \cup Inner(k) \cup ignore \cup missing
              /\ Singles => d \in Ahead(calls[k]) \cup looking_fragments \cup ignore \cup missing
            BY <1>7, <2>2 DEF FragInv, NeedsCome
        <3>2. CASE k = L
            <4>1. Ahead(calls[k]) = ahead(k) \cup {n} /\ Inner(k) = {} /\ Inner(k)' = {n}
                BY <1>10, <1>11, <3>2
            <4> QED BY <1>1, <3>1, <4>1
        <3>3. CASE k # L
            <4>1. Ahead(calls[k]) = ahead(k) /\ Inner(k)' = Inner(k)
                BY <1>10, <1>11, <2>2, <3>3
            <4> QED BY <1>1, <3>1, <4>1
        <3> QED BY <3>2, <3>3
    <2> QED BY <1>6, <2>1, <2>2
<1>16. NeedsWritten'
    BY <1>1, <1>8 DEF FragInv, NeedsWritten
<1>17. AskedCome'
    <2> SUFFICES ASSUME NEW k \in 1..Len(asked), NEW d \in ToSet(asked[k])
                 PROVE  d \in ignore \cup missing \/ d \in ahead(1) \cup Inner(1)'
        <3>1. Calling'
            BY <1>3, <1>5 DEF Calling
        <3> QED BY <1>1, <1>9, <3>1 DEF AskedCome
    <2>1. d \in ignore \cup missing \/ d \in Ahead(calls[1]) \cup Inner(1)
        BY DEF FragInv, AskedCome
    <2>2. 1 \in 1..L
        BY <1>3
    <2>3. CASE L = 1
        <3>1. Ahead(calls[1]) = ahead(1) \cup {n} /\ Inner(1) = {} /\ Inner(1)' = {n}
            BY <1>10, <1>11, <2>3
        <3> QED BY <2>1, <3>1
    <2>4. CASE L # 1
        <3>1. Ahead(calls[1]) = ahead(1) /\ Inner(1)' = Inner(1)
            BY <1>10, <1>11, <2>2, <2>4
        <3> QED BY <2>1, <3>1
    <2> QED BY <2>3, <2>4
<1> QED BY <1>1, <1>12, <1>13, <1>14, <1>15, <1>16, <1>17 DEF FragInv

LEMMA DoneKeeps ==
    ASSUME FragInv, Done
    PROVE  FragInv'
<1>0. PICK L \in Nat : L = Len(calls)
    BY DEF FragInv, FragTypes
<1> USE <1>0
<1>1. /\ Calling /\ Current.list = <<>> /\ Current.lists = <<>>
      /\ calls' = SubSeq(calls, 1, L - 1)
      /\ IF Current.for = {} THEN UNCHANGED <<out, ignore>> ELSE \E n \in Current.for : Writes(n)
      /\ looking_fragments' = looking_fragments \ Current.for
      /\ fragments' = fragments /\ missing' = missing /\ asked' = asked
    BY <1>0 DEF Done
<1>2. L \in Nat \ {0} /\ Current = calls[L] /\ Current \in Frames /\ calls \in Seq(Frames)
      /\ Len(calls) = L
    BY <1>0, <1>1, Frame DEF FragInv, FragTypes
<1>3. Ahead(calls[L]) = {} /\ Inner(L) = {}
    BY <1>1, <1>2, Empty DEF Ahead, Inner
<1>4. Len(calls') = L - 1 /\ calls' \in Seq(Frames) /\ \A k \in 1..(L - 1) : calls'[k] = calls[k]
    <2>1. 1 \in Nat /\ L - 1 \in Nat /\ L - 1 <= L
        BY <1>2
    <2>2. calls' \in Seq(Frames)
        <3>1. \A k \in 1..(L - 1) : k \in 1..L
            BY <1>2
        <3> QED BY <1>1, <1>2, <2>1, <3>1
    <2>3. Len(calls') = L - 1
        BY <1>1, <1>2, <2>1
    <2>4. \A k \in 1..(L - 1) : calls'[k] = calls[k]
        BY <1>1, <1>2, <2>1
    <2> QED BY <2>2, <2>3, <2>4
<1>5. \A k \in 1..(L - 1) : k \in 1..L /\ k # L /\ k < L
    BY <1>2
<1>6. Acyclic' = Acyclic /\ Singles' = Singles /\ \A m : Needs(m)' = Needs(m)
    BY <1>1, SameFragments
<1>7. \A k \in 1..(L - 1) : Ahead(calls[k])' = Ahead(calls[k])
    BY <1>4 DEF Ahead
<1>8. CASE L = 1
    <2>1. Current.for = {} /\ Len(calls') = 0 /\ ~Calling' /\ Inner(1) = {}
        BY <1>2, <1>3, <1>4, <1>8, Outermost DEF Calling
    <2>2. out' = out /\ ignore' = ignore /\ looking_fragments' = {}
        BY <1>1, <1>8, <2>1, Outermost
    <2>3. looking_fragments = {}
        BY <1>8, Outermost
    <2>7. FragTypes'
        BY <1>1, <1>4, <2>2, <2>3 DEF FragInv, FragTypes
    <2>8. Nested'
        BY <2>1, <2>2 DEF Nested
    <2>4. OneNames' /\ NeedsCome'
        BY <2>1 DEF OneNames, NeedsCome
    <2>5. NeedsWritten'
        BY <1>1, <1>6, <2>2, <2>3 DEF FragInv, NeedsWritten
    <2>6. AskedCome'
        BY <1>1, <1>2, <1>3, <1>8, <2>1, <2>2 DEF FragInv, AskedCome
    <2> QED BY <2>2, <2>4, <2>5, <2>6, <2>7, <2>8 DEF FragInv
<1>9. CASE L # 1
    <2>0. L \in 1..L /\ L > 1
        BY <1>2, <1>9
    <2>1. PICK n \in Frag : Current.for = {n}
        BY <1>2, <2>0 DEF FragInv, Nested
    <2>2. out' = Append(out, n) /\ ignore' = ignore \cup {n}
          /\ looking_fragments' = looking_fragments \ {n}
        BY <1>1, <2>1 DEF Writes
    <2>3. n \in looking_fragments /\ n \notin ignore /\ n \in DOMAIN fragments
        BY <1>2, <2>1 DEF FragInv, Nested, FragTypes
    <2>4. out \in Seq(Frag) /\ Len(out) \in Nat /\ out' \in Seq(Frag) /\ Len(out') = Len(out) + 1
          /\ out'[Len(out) + 1] = n /\ \A k \in 1..Len(out) : out'[k] = out[k]
        BY <2>1, <2>2 DEF FragInv, FragTypes
    <2>5. \A k \in 1..(Len(out) + 1) : k = Len(out) + 1 \/ k \in 1..Len(out)
        BY <2>4
    <2>6. \A k \in 1..Len(out) : k \in 1..(Len(out) + 1) /\ out[k] # n
        BY <2>3, <2>4 DEF FragInv, FragTypes
    <2>7. FragTypes'
        <3>1. \A m : m \in ignore' <=> \E j \in 1..Len(out') : out'[j] = m
            <4>1. Len(out) + 1 \in 1..(Len(out) + 1)
                BY <2>4
            <4>2. \A m : m \in ignore <=> \E j \in 1..Len(out) : out[j] = m
                BY DEF FragInv, FragTypes
            <4> QED BY <2>2, <2>4, <2>5, <2>6, <4>1, <4>2
        <3> QED BY <1>1, <1>4, <2>2, <2>3, <2>4, <3>1 DEF FragInv, FragTypes
    <2>8. \A k \in 1..L : n \in calls[k].for => k = L
        BY <1>2, <2>1 DEF FragInv, Nested
    <2>9. \A k \in 1..(L - 1) : Inner(k)' \subseteq Inner(k) /\ Inner(k) \subseteq Inner(k)' \cup {n}
        <3> TAKE k \in 1..(L - 1)
        <3>1. CASE k = L - 1
            <4>1. k + 1 = L /\ k < L /\ ~(k < L - 1)
                BY <1>2, <3>1
            <4> QED BY <1>2, <1>4, <2>1, <4>1 DEF Inner
        <3>2. CASE k # L - 1
            <4>1. k + 1 \in 1..(L - 1) /\ k < L /\ k < L - 1
                BY <1>2, <3>2
            <4> QED BY <1>4, <4>1 DEF Inner
        <3> QED BY <3>1, <3>2
    <2>10. Nested'
        <3>1. \A m : m \in looking_fragments' <=> \E k \in 1..(L - 1) : m \in calls'[k].for
            <4>1. \A k \in 1..L : k = L \/ k \in 1..(L - 1)
                BY <1>2
            <4>2. \A m : m \in looking_fragments <=> \E k \in 1..L : m \in calls[k].for
                BY DEF FragInv, Nested
            <4> QED BY <1>2, <1>4, <1>5, <2>1, <2>2, <2>8, <4>1, <4>2
        <3>2. looking_fragments' \cap ignore' = {}
            BY <2>2 DEF FragInv, Nested
        <3>3. \A k \in 1..(L - 1) : \A m \in calls'[k].for : (Ahead(calls[k]) \cup Inner(k))' \subseteq Needs(m)'
            BY <1>4, <1>5, <1>6, <1>7, <2>9 DEF FragInv, Nested
        <3>4. \A k \in 1..(L - 1) : \/ k = 1 /\ calls'[k].for = {}
                                    \/ k > 1 /\ \E m \in Frag : calls'[k].for = {m}
            <4> TAKE k \in 1..(L - 1)
            <4>1. k \in 1..L /\ calls'[k] = calls[k]
                BY <1>4, <1>5
            <4>2. \/ k = 1 /\ calls[k].for = {}
                  \/ k > 1 /\ \E m \in Frag : calls[k].for = {m}
                BY <4>1 DEF FragInv, Nested
            <4> QED BY <4>1, <4>2
        <3>5. \A k, l \in 1..(L - 1) : \A m \in calls'[k].for \cap calls'[l].for : k = l
            BY <1>4, <1>5 DEF FragInv, Nested
        <3>6. \A k \in 1..(L - 1) : (Ahead(calls[k]) \cup Inner(k))' = Ahead(calls'[k]) \cup Inner(k)'
            BY DEF Ahead
        <3> QED BY <1>4, <3>1, <3>2, <3>3, <3>4, <3>5, <3>6 DEF Nested
    <2>11. OneNames'
        BY <1>4, <1>5, <1>6 DEF FragInv, OneNames, OneName
    <2>12. NeedsCome'
        <3> SUFFICES ASSUME NEW k \in 1..(L - 1), NEW m \in calls[k].for, NEW d \in Needs(m)
                     PROVE  /\ Acyclic => d \in Ahead(calls[k]) \cup Inner(k)' \cup ignore' \cup missing
                            /\ Singles => d \in Ahead(calls[k]) \cup looking_fragments' \cup ignore' \cup missing
            BY <1>1, <1>4, <1>6, <1>7 DEF NeedsCome
        <3>1. /\ Acyclic => d \in Ahead(calls[k]) \cup Inner(k) \cup ignore \cup missing
              /\ Singles => d \in Ahead(calls[k]) \cup looking_fragments \cup ignore \cup missing
            BY <1>5 DEF FragInv, NeedsCome
        <3> QED BY <2>2, <2>9, <3>1
    <2>13. NeedsWritten'
        <3> SUFFICES ASSUME NEW k \in 1..(Len(out) + 1), NEW d \in Needs(out'[k]) \ missing
                     PROVE  /\ Acyclic => \E j \in 1..(k - 1) : out'[j] = d
                            /\ Singles => d \in looking_fragments' \cup ignore'
            BY <1>1, <1>6, <2>4 DEF NeedsWritten
        <3>1. CASE k = Len(out) + 1
            <4>1. d \in Needs(n) /\ n \in calls[L].for /\ L \in 1..L /\ k - 1 = Len(out)
                BY <1>2, <2>1, <2>4, <3>1
            <4>2. /\ Acyclic => d \in ignore
                  /\ Singles => d \in looking_fragments \cup ignore
                BY <1>3, <4>1 DEF FragInv, NeedsCome
            <4>3. d \in ignore => \E j \in 1..Len(out) : out[j] = d
                BY DEF FragInv, FragTypes
            <4> QED BY <2>2, <2>4, <4>1, <4>2, <4>3
        <3>2. CASE k \in 1..Len(out)
            <4>1. \A j \in 1..(k - 1) : j \in 1..Len(out)
                BY <2>4, <3>2
            <4>2. /\ Acyclic => \E j \in 1..(k - 1) : out[j] = d
                  /\ Singles => d \in looking_fragments \cup ignore
                BY <2>4, <3>2 DEF FragInv, NeedsWritten
            <4> QED BY <2>2, <2>4, <4>1, <4>2
        <3> QED BY <2>5, <3>1, <3>2
    <2>14. AskedCome'
        <3>1. 1 \in 1..(L - 1) /\ Calling'
            BY <1>2, <1>4, <1>9 DEF Calling
        <3> SUFFICES ASSUME NEW k \in 1..Len(asked), NEW d \in ToSet(asked[k])
                     PROVE  d \in ignore' \cup missing \/ d \in Ahead(calls[1]) \cup Inner(1)'
            BY <1>1, <1>7, <3>1 DEF AskedCome
        <3>2. d \in ignore \cup missing \/ d \in Ahead(calls[1]) \cup Inner(1)
            BY DEF FragInv, AskedCome
        <3> QED BY <2>2, <2>9, <3>1, <3>2
    <2>15. \A j, k \in 1..Len(out') : out'[j] = out'[k] => j = k
        BY <2>4, <2>5, <2>6 DEF FragInv
    <2> QED BY <2>7, <2>10, <2>11, <2>12, <2>13, <2>14, <2>15 DEF FragInv
<1> QED BY <1>8, <1>9

-----------------------------------------------------------------------------
LEMMA FragKeeps == FragInv /\ [FragNext]_fragVars => FragInv'
<1> SUFFICES ASSUME FragInv, [FragNext]_fragVars PROVE FragInv'
    OBVIOUS
<1>1. CASE UNCHANGED fragVars
    <2>1. fragments' = fragments /\ ignore' = ignore /\ looking_fragments' = looking_fragments
          /\ out' = out /\ missing' = missing /\ asked' = asked /\ calls' = calls
        BY <1>1 DEF fragVars
    <2>2. Acyclic' = Acyclic /\ Singles' = Singles /\ \A m : Needs(m)' = Needs(m)
        BY <2>1, SameFragments
    <2>3. \A k : Inner(k)' = Inner(k) /\ Ahead(calls[k])' = Ahead(calls[k])
        BY <2>1 DEF Inner, Ahead
    <2>4. FragTypes'
        BY <2>1 DEF FragInv, FragTypes
    <2>5. Nested' /\ OneNames'
        BY <2>1, <2>2, <2>3 DEF FragInv, Nested, OneNames, OneName
    <2>6. NeedsCome'
        BY <2>1, <2>2, <2>3 DEF FragInv, NeedsCome
    <2>7. NeedsWritten' /\ AskedCome'
        BY <2>1, <2>2, <2>3 DEF FragInv, NeedsWritten, AskedCome, Calling
    <2> QED BY <2>1, <2>4, <2>5, <2>6, <2>7 DEF FragInv
<1> QED BY <1>1, RegisterKeeps, CallKeeps, CircleKeeps, LookKeeps, EmitKeeps, ArgumentKeeps, DoneKeeps
        DEF FragNext

LEMMA FragInvSuffices == FragInv => NeedsFirst
<1> SUFFICES ASSUME FragInv PROVE NeedsFirst
    OBVIOUS
<1>1. DOMAIN out = 1..Len(out) /\ DOMAIN asked = 1..Len(asked)
    BY DEF FragInv, FragTypes
<1>2. OnceEach
    BY <1>1 DEF FragInv, OnceEach
<1>3. ~Calling => looking_fragments = {}
    <2>1. ~Calling => Len(calls) = 0
        BY DEF Calling
    <2> QED BY <2>1 DEF FragInv, Nested
<1>4. InOrder
    BY <1>1, <1>3 DEF FragInv, FragTypes, NeedsWritten, InOrder
<1>5. AskedAreThere
    BY <1>1 DEF FragInv, AskedCome, AskedAreThere
<1> QED BY <1>2, <1>4, <1>5 DEF NeedsFirst

\* fragment.c, Swig_fragment_emit(): for any fragments, however they need each other, and any
\* lists that are asked for, each fragment is written once and, when no fragments need each
\* other, behind all that it needs; nothing that was asked for is left out.
THEOREM NeedsStayFirst == FragSpec => []NeedsFirst
<1>1. FragSpec => []FragInv
    BY FragStarts, FragKeeps, PTL DEF FragSpec
<1> QED BY <1>1, FragInvSuffices, PTL

-----------------------------------------------------------------------------
(***************************************************************************)
(* The order in which overloaded declarations are tried                    *)
(***************************************************************************)
\* The least element of a set of numbers.
LEMMA LeastNumber ==
    ASSUME NEW T \in SUBSET Nat, T # {}
    PROVE  \E m \in T : \A n \in T : m <= n
  <1> DEFINE U == {1 .. n : n \in T}
             R == StrictSubsetOrdering(Nat)
  <1>1. U \subseteq FiniteSubsetsOf(Nat)
    <2>1. ASSUME NEW n \in T
          PROVE  1 .. n \in FiniteSubsetsOf(Nat)
      <3>1. IsFiniteSet(1 .. n)
        BY FS_Interval
      <3> QED BY <3>1 DEF FiniteSubsetsOf
    <2> QED BY <2>1
  <1>2. U # {}
    OBVIOUS
  <1>3. IsWellFoundedOn(R, FiniteSubsetsOf(Nat))
    BY FS_StrictSubsetOrderingWellFounded
  <1>4. PICK x \in U : \A y \in U : ~(<<y, x>> \in R)
    <2> HIDE DEF U, R
    <2> QED BY <1>1, <1>2, <1>3, WFMin
  <1>5. PICK m \in T : x = 1 .. m
    OBVIOUS
  <1>6. ASSUME NEW n \in T, n < m
        PROVE  FALSE
    <2>1. 1 .. n \subseteq 1 .. m /\ 1 .. n # 1 .. m
      <3>1. m \in 1 .. m /\ m \notin 1 .. n
        BY <1>6
      <3> QED BY <1>6, <3>1
    <2>2. <<1 .. n, 1 .. m>> \in R
      BY <2>1 DEF StrictSubsetOrdering
    <2> QED BY <1>4, <1>5, <2>2
  <1> QED BY <1>6

\* Least() gives it.
LEMMA LeastIs ==
    ASSUME NEW S \in SUBSET Nat, S # {}
    PROVE  Least(S) \in S /\ \A l \in S : Least(S) <= l
BY LeastNumber DEF Least

-----------------------------------------------------------------------------
(***************************************************************************)
(* What the two sorts have in common.  R is the order they sort by: a set  *)
(* of pairs of declarations, <<k, l>> if k belongs before l.               *)
(***************************************************************************)
IsOrder(R) ==
    /\ \A k \in 1..nnodes : <<k, k>> \notin R
    /\ \A k, l, m \in 1..nnodes : <<k, l>> \in R /\ <<l, m>> \in R => <<k, m>> \in R

\* The places before a have nothing behind them that belongs before them, and place a has
\* nothing of the kind before place b.
SortedTo(R, a, b) ==
    /\ \A k \in 1..(a - 1), l \in 1..nnodes : k < l => <<nodes[l], nodes[k]>> \notin R
    /\ \A l \in (a + 1)..(b - 1) : <<nodes[l], nodes[a]>> \notin R

Sorted(R) == \A k, l \in 1..nnodes : k < l => <<nodes[l], nodes[k]>> \notin R

\* The places the loops are at.
LEMMA PlacesTyped ==
    ASSUME RankTypeOK
    PROVE  /\ left \in 1..nnodes /\ right \in 1..nnodes /\ left < right
           /\ nodes \in [1..nnodes -> 1..nnodes]
<1>1. nodes \in [1..nnodes -> 1..nnodes]
    BY DEF RankTypeOK
<1>2. left \in 1..nnodes /\ right \in 1..nnodes /\ left < right
    BY SignatureAssumption DEF RankTypeOK
<1>3. QED
    BY <1>1, <1>2

\* An exchange leaves each declaration in the list.
LEMMA ExchangeTyped ==
    ASSUME RankTypeOK, Exchange
    PROVE  /\ nodes' \in [1..nnodes -> 1..nnodes]
           /\ \A k \in 1..nnodes : \E l \in 1..nnodes : nodes'[l] = k
           /\ nodes'[left] = nodes[right] /\ nodes'[right] = nodes[left]
           /\ \A l \in 1..nnodes : l # left /\ l # right => nodes'[l] = nodes[l]
<1> USE SignatureAssumption
<1>1. left \in 1..nnodes /\ right \in 1..nnodes /\ left < right
    BY PlacesTyped
<1>2. nodes \in [1..nnodes -> 1..nnodes]
    BY PlacesTyped
<1>3. /\ nodes' \in [1..nnodes -> 1..nnodes]
      /\ nodes'[left] = nodes[right] /\ nodes'[right] = nodes[left]
      /\ \A l \in 1..nnodes : l # left /\ l # right => nodes'[l] = nodes[l]
    BY <1>1, <1>2 DEF Exchange
<1>4. ASSUME NEW k \in 1..nnodes
      PROVE  \E l \in 1..nnodes : nodes'[l] = k
    <2>1. PICK l \in 1..nnodes : nodes[l] = k
        BY DEF RankTypeOK
    <2>2. CASE l = left
        BY <1>1, <1>3, <2>1, <2>2
    <2>3. CASE l = right
        BY <1>1, <1>3, <2>1, <2>3
    <2>4. CASE l # left /\ l # right
        BY <1>3, <2>1, <2>4
    <2>5. QED
        BY <2>2, <2>3, <2>4
<1>5. QED
    BY <1>3, <1>4

\* One comparison: the pair is exchanged if it must be, and otherwise only if whatever
\* belongs before the one that comes to the front belongs before the other as well.
LEMMA ComparisonSorts ==
    ASSUME NEW R, IsOrder(R), RankTypeOK, SortedTo(R, left, right),
           \/ Exchange /\ \A m \in 1..nnodes :
                  <<m, nodes[right]>> \in R => <<m, nodes[left]>> \in R
           \/ nodes' = nodes /\ <<nodes[right], nodes[left]>> \notin R
    PROVE  /\ \A k \in 1..(left - 1), l \in 1..nnodes :
                  k < l => <<nodes'[l], nodes'[k]>> \notin R
           /\ \A l \in (left + 1)..right : <<nodes'[l], nodes'[left]>> \notin R
<1> USE SignatureAssumption
<1>1. left \in 1..nnodes /\ right \in 1..nnodes /\ left < right
    BY PlacesTyped
<1>2. nodes \in [1..nnodes -> 1..nnodes]
    BY PlacesTyped
<1>3. CASE nodes' = nodes /\ <<nodes[right], nodes[left]>> \notin R
    <2>1. \A l \in (left + 1)..right : l = right \/ l \in (left + 1)..(right - 1)
        BY <1>1
    <2>2. QED
        BY <1>1, <1>3, <2>1 DEF SortedTo
<1>4. CASE Exchange /\ \A m \in 1..nnodes :
                  <<m, nodes[right]>> \in R => <<m, nodes[left]>> \in R
    <2>1. /\ nodes'[left] = nodes[right] /\ nodes'[right] = nodes[left]
          /\ \A l \in 1..nnodes : l # left /\ l # right => nodes'[l] = nodes[l]
        BY <1>4, ExchangeTyped
    <2>2. ASSUME NEW k \in 1..(left - 1), NEW l \in 1..nnodes, k < l
          PROVE  <<nodes'[l], nodes'[k]>> \notin R
        <3>1. nodes'[k] = nodes[k]
            BY <1>1, <2>1
        <3>2. \E m \in 1..nnodes : k < m /\ nodes'[l] = nodes[m]
            BY <1>1, <2>1, <2>2
        <3>3. QED
            BY <3>1, <3>2 DEF SortedTo
    <2>3. ASSUME NEW l \in (left + 1)..right
          PROVE  <<nodes'[l], nodes'[left]>> \notin R
        <3>1. <<nodes[left], nodes[right]>> \notin R
            BY <1>1, <1>2, <1>4 DEF IsOrder
        <3>2. CASE l = right
            BY <2>1, <3>1, <3>2
        <3>3. CASE l # right
            <4>1. l \in (left + 1)..(right - 1) /\ l \in 1..nnodes /\ l # left
                BY <1>1, <3>3
            <4>2. <<nodes[l], nodes[left]>> \notin R
                BY <4>1 DEF SortedTo
            <4>3. nodes'[l] = nodes[l] /\ nodes[l] \in 1..nnodes
                BY <1>2, <2>1, <3>3, <4>1
            <4>4. QED
                BY <1>4, <2>1, <4>2, <4>3
        <3>4. QED
            BY <3>2, <3>3
    <2>4. QED
        BY <2>2, <2>3
<1>5. QED
    BY <1>3, <1>4

\* Then the loops turn to the next pair, or they are done and the list is sorted.
LEMMA TurnSorts ==
    ASSUME NEW R, RankTypeOK, Turn,
           \A k \in 1..(left - 1), l \in 1..nnodes :
               k < l => <<nodes'[l], nodes'[k]>> \notin R,
           \A l \in (left + 1)..right : <<nodes'[l], nodes'[left]>> \notin R
    PROVE  /\ left' \in 1..(nnodes - 1) /\ right' \in (left' + 1)..nnodes
           /\ \/ sort' = sort /\ SortedTo(R, left, right)'
              \/ /\ sort' = IF sort = "argc" THEN "types" ELSE "done"
                 /\ left' = 1 /\ right' = 2 /\ Sorted(R)'
<1> USE SignatureAssumption
<1>1. left \in 1..(nnodes - 1) /\ right \in (left + 1)..nnodes
    BY DEF RankTypeOK
<1>2. CASE right < nnodes
    <2>1. right' = right + 1 /\ left' = left /\ sort' = sort
        BY <1>2 DEF Turn
    <2>2. QED
        BY <1>1, <1>2, <2>1 DEF SortedTo
<1>3. CASE right = nnodes /\ left < nnodes - 1
    <2>1. left' = left + 1 /\ right' = left + 2 /\ sort' = sort
        BY <1>3 DEF Turn
    <2>2. ASSUME NEW k \in 1..left, NEW l \in 1..nnodes, k < l
          PROVE  <<nodes'[l], nodes'[k]>> \notin R
        BY <1>1, <1>3, <2>2
    <2>3. QED
        BY <1>1, <1>3, <2>1, <2>2 DEF SortedTo
<1>4. CASE right = nnodes /\ left = nnodes - 1
    <2>1. /\ left' = 1 /\ right' = 2
          /\ sort' = IF sort = "argc" THEN "types" ELSE "done"
        BY <1>4 DEF Turn
    <2>2. ASSUME NEW k \in 1..nnodes, NEW l \in 1..nnodes, k < l
          PROVE  <<nodes'[l], nodes'[k]>> \notin R
        <3>1. CASE k < left
            BY <1>1, <2>2, <3>1
        <3>2. CASE k = left
            BY <1>1, <1>4, <2>2, <3>2
        <3>3. k <= left
            BY <1>1, <1>4, <2>2
        <3>4. QED
            BY <1>1, <3>1, <3>2, <3>3
    <2>3. QED
        BY <2>1, <2>2 DEF Sorted
<1>5. QED
    BY <1>1, <1>2, <1>3, <1>4

-----------------------------------------------------------------------------
(***************************************************************************)
(* The orders of the two sorts.                                            *)
(***************************************************************************)
\* Types the sort does not tell apart, and a type that belongs before another one.
Same(s, t) == precedence[s] = precedence[t] /\ (precedence[s] # 0 \/ s = t)
Precedes(s, t) == precedence[s] < precedence[t] \/ <<s, t>> \in Derived

ByArgc  == {x \in (1..nnodes) \X (1..nnodes) : decl[x[1]].req < decl[x[2]].req}
ByTypes == {x \in (1..nnodes) \X (1..nnodes) :
                decl[x[1]].req = decl[x[2]].req /\ Before(decl[x[1]], decl[x[2]])}

\* The required parameters of a declaration have types.
LEMMA Parameters ==
    ASSUME NEW d \in Signature
    PROVE  /\ d.req \in Nat /\ Len(d.parms) \in Nat /\ d.req <= Len(d.parms)
           /\ DOMAIN d.parms = 1..Len(d.parms)
           /\ \A k \in 1..d.req : d.parms[k] \in DOMAIN precedence
BY SignatureAssumption

\* Precedes is an order, and Same goes with it.
LEMMA TypesOrdered ==
    /\ \A s, t \in DOMAIN precedence : Same(s, t) => Same(t, s)
    /\ \A s, t, u \in DOMAIN precedence : Same(s, t) /\ Same(t, u) => Same(s, u)
    /\ \A s, t \in DOMAIN precedence : Precedes(s, t) => ~Same(s, t)
    /\ \A s, t, u \in DOMAIN precedence : Precedes(s, t) /\ Precedes(t, u) => Precedes(s, u)
    /\ \A s, t, u \in DOMAIN precedence : Precedes(s, t) /\ Same(t, u) => Precedes(s, u)
    /\ \A s, t, u \in DOMAIN precedence : Same(s, t) /\ Precedes(t, u) => Precedes(s, u)
<1> USE DEF Same, Precedes
<1>1. \A t \in DOMAIN precedence : precedence[t] \in Nat
    BY SignatureAssumption
<1>2. \A s, t \in DOMAIN precedence : Precedes(s, t) => ~Same(s, t)
    BY <1>1, DerivedAssumption
<1>3. ASSUME NEW s \in DOMAIN precedence, NEW t \in DOMAIN precedence,
             NEW u \in DOMAIN precedence, Precedes(s, t), Precedes(t, u)
      PROVE  Precedes(s, u)
    BY <1>1, <1>3, DerivedAssumption
<1>4. ASSUME NEW s \in DOMAIN precedence, NEW t \in DOMAIN precedence,
             NEW u \in DOMAIN precedence, Precedes(s, t), Same(t, u)
      PROVE  Precedes(s, u)
    BY <1>1, <1>4, DerivedAssumption
<1>5. ASSUME NEW s \in DOMAIN precedence, NEW t \in DOMAIN precedence,
             NEW u \in DOMAIN precedence, Same(s, t), Precedes(t, u)
      PROVE  Precedes(s, u)
    BY <1>1, <1>5, DerivedAssumption
<1>6. QED
    BY <1>1, <1>2, <1>3, <1>4, <1>5

\* Parameters that differ are the ones whose types are not the same to the sort.
LEMMA DifferIs ==
    ASSUME NEW p \in Signature, NEW q \in Signature, p.req = q.req, NEW k \in 1..p.req
    PROVE  k \in Differ(p, q) <=> ~Same(p.parms[k], q.parms[k])
BY SignatureAssumption DEF Differ, Same

\* The first parameter that differs decides.
LEMMA BeforeIs ==
    ASSUME NEW p \in Signature, NEW q \in Signature, p.req = q.req
    PROVE  Before(q, p) <=>
               \E n \in 1..p.req :
                   /\ \A m \in 1..(n - 1) : Same(p.parms[m], q.parms[m])
                   /\ Precedes(q.parms[n], p.parms[n])
<1> DEFINE D == Differ(p, q)
<1>1. D \in SUBSET (1..p.req) /\ p.req \in Nat /\ D \in SUBSET Nat
    BY Parameters DEF Differ
<1>2. \A k \in 1..p.req : /\ p.parms[k] \in DOMAIN precedence
                          /\ q.parms[k] \in DOMAIN precedence
    BY Parameters
<1>3. \A k \in 1..p.req : k \in D <=> ~Same(p.parms[k], q.parms[k])
    BY DifferIs
<1>4. ASSUME D # {}
      PROVE  Least(D) \in 1..p.req /\ Least(D) \in D /\ \A m \in 1..p.req : m < Least(D) => m \notin D
    <2>1. Least(D) \in D /\ \A l \in D : Least(D) <= l
        BY <1>1, <1>4, LeastIs
    <2>2. QED
        BY <1>1, <2>1
<1>5. ASSUME Before(q, p)
      PROVE  \E n \in 1..p.req : /\ \A m \in 1..(n - 1) : Same(p.parms[m], q.parms[m])
                                 /\ Precedes(q.parms[n], p.parms[n])
    <2>1. D # {} /\ Precedes(q.parms[Least(D)], p.parms[Least(D)])
        <3>1. D # {} /\ \/ precedence[p.parms[Least(D)]] > precedence[q.parms[Least(D)]]
                        \/ <<q.parms[Least(D)], p.parms[Least(D)]>> \in Derived
            BY <1>5 DEF Before
        <3>2. Least(D) \in 1..p.req
            BY <1>4, <3>1
        <3>3. QED
            BY <1>2, <3>1, <3>2, SignatureAssumption DEF Precedes
    <2>2. \A m \in 1..(Least(D) - 1) : Same(p.parms[m], q.parms[m])
        BY <1>1, <1>3, <1>4, <2>1
    <2>3. QED
        BY <1>4, <2>1, <2>2
<1>6. ASSUME NEW n \in 1..p.req, \A m \in 1..(n - 1) : Same(p.parms[m], q.parms[m]),
             Precedes(q.parms[n], p.parms[n])
      PROVE  Before(q, p)
    <2>1. n \in D
        BY <1>2, <1>3, <1>6, TypesOrdered
    <2>2. \A m \in D : n <= m
        BY <1>1, <1>3, <1>6
    <2>3. Least(D) = n
        <3>1. Least(D) \in D /\ Least(D) <= n
            BY <1>1, <2>1, LeastIs
        <3>2. QED
            BY <1>1, <2>1, <2>2, <3>1
    <2>4. QED
        BY <1>2, <1>6, <2>1, <2>3, SignatureAssumption DEF Before, Precedes
<1>7. QED
    BY <1>5, <1>6

\* Before is an order of the declarations with as many required parameters, and
\* declarations that nothing tells apart stand in the same place of it.
LEMMA BeforeOrders ==
    /\ \A d \in Signature : ~Before(d, d)
    /\ \A d, e, g \in Signature : d.req = e.req /\ e.req = g.req
           => (Before(d, e) /\ Before(e, g) => Before(d, g))
    /\ \A d, e, g \in Signature : d.req = e.req /\ e.req = g.req
           => (Before(d, e) /\ Differ(g, e) = {} => Before(d, g))
<1> DEFINE Types(d) == \A k \in 1..d.req : d.parms[k] \in DOMAIN precedence
<1>1. \A d \in Signature : d.req \in Nat /\ Types(d)
    BY Parameters
<1>2. ASSUME NEW d \in Signature, Before(d, d)
      PROVE  FALSE
    <2>1. PICK n \in 1..d.req : Precedes(d.parms[n], d.parms[n])
        BY <1>2, BeforeIs
    <2>2. ~Same(d.parms[n], d.parms[n])
        BY <1>1, <2>1, TypesOrdered
    <2>3. QED
        BY <2>2 DEF Same
<1>3. ASSUME NEW d \in Signature, NEW e \in Signature, NEW g \in Signature,
             d.req = e.req, e.req = g.req, Before(d, e), Before(e, g)
      PROVE  Before(d, g)
    <2>1. PICK n \in 1..e.req : /\ \A m \in 1..(n - 1) : Same(e.parms[m], d.parms[m])
                                /\ Precedes(d.parms[n], e.parms[n])
        BY <1>3, BeforeIs
    <2>2. PICK l \in 1..g.req : /\ \A m \in 1..(l - 1) : Same(g.parms[m], e.parms[m])
                                /\ Precedes(e.parms[l], g.parms[l])
        BY <1>3, BeforeIs
    <2>3. d.req \in Nat /\ Types(d) /\ Types(e) /\ Types(g)
        BY <1>1
    <2>4. CASE n < l
        <3>1. \A m \in 1..(n - 1) : Same(g.parms[m], d.parms[m])
            BY <1>3, <2>1, <2>2, <2>3, <2>4, TypesOrdered
        <3>2. Precedes(d.parms[n], g.parms[n])
            BY <1>3, <2>1, <2>2, <2>3, <2>4, TypesOrdered
        <3>3. QED
            BY <1>3, <3>1, <3>2, BeforeIs
    <2>5. CASE n = l
        <3>1. \A m \in 1..(n - 1) : Same(g.parms[m], d.parms[m])
            BY <1>3, <2>1, <2>2, <2>3, <2>5, TypesOrdered
        <3>2. Precedes(d.parms[n], g.parms[n])
            BY <1>3, <2>1, <2>2, <2>3, <2>5, TypesOrdered
        <3>3. QED
            BY <1>3, <3>1, <3>2, BeforeIs
    <2>6. CASE l < n
        <3>1. \A m \in 1..(l - 1) : Same(g.parms[m], d.parms[m])
            BY <1>3, <2>1, <2>2, <2>3, <2>6, TypesOrdered
        <3>2. Precedes(d.parms[l], g.parms[l])
            <4>1. Same(e.parms[l], d.parms[l])
                BY <1>3, <2>1, <2>3, <2>6
            <4>2. QED
                BY <1>3, <2>2, <2>3, <4>1, TypesOrdered
        <3>3. QED
            BY <1>3, <3>1, <3>2, BeforeIs
    <2>7. QED
        BY <1>3, <2>3, <2>4, <2>5, <2>6
<1>4. ASSUME NEW d \in Signature, NEW e \in Signature, NEW g \in Signature,
             d.req = e.req, e.req = g.req, Before(d, e), Differ(g, e) = {}
      PROVE  Before(d, g)
    <2>1. PICK n \in 1..e.req : /\ \A m \in 1..(n - 1) : Same(e.parms[m], d.parms[m])
                                /\ Precedes(d.parms[n], e.parms[n])
        BY <1>4, BeforeIs
    <2>2. d.req \in Nat /\ Types(d) /\ Types(e) /\ Types(g)
        BY <1>1
    <2>3. \A m \in 1..g.req : Same(g.parms[m], e.parms[m])
        BY <1>4, DifferIs
    <2>4. \A m \in 1..(n - 1) : Same(g.parms[m], d.parms[m])
        BY <1>4, <2>1, <2>2, <2>3, TypesOrdered
    <2>5. Precedes(d.parms[n], g.parms[n])
        BY <1>4, <2>1, <2>2, <2>3, TypesOrdered
    <2>6. QED
        BY <1>4, <2>4, <2>5, BeforeIs
<1>5. QED
    BY <1>2, <1>3, <1>4

\* Both orders are.
LEMMA OrdersAreOrders ==
    ASSUME RankTypeOK
    PROVE  IsOrder(ByArgc) /\ IsOrder(ByTypes)
<1>1. \A k \in 1..nnodes : decl[k] \in Signature /\ decl[k].req \in Nat
    BY Parameters DEF RankTypeOK
<1>2. IsOrder(ByArgc)
    BY <1>1 DEF IsOrder, ByArgc
<1>3. IsOrder(ByTypes)
    BY <1>1, BeforeOrders DEF IsOrder, ByTypes
<1>4. QED
    BY <1>2, <1>3

-----------------------------------------------------------------------------
(***************************************************************************)
(* The two sorts                                                           *)
(***************************************************************************)
\* What the loops have sorted so far: the first sort stays sorted in the second one.
RankInv ==
    /\ RankTypeOK
    /\ sort = "argc"  => SortedTo(ByArgc, left, right)
    /\ sort # "argc"  => Sorted(ByArgc)
    /\ sort = "types" => SortedTo(ByTypes, left, right)
    /\ sort = "done"  => Sorted(ByTypes)

\* Nothing is sorted yet.
LEMMA RankStarts == RankInit => RankInv
<1> SUFFICES ASSUME RankInit
             PROVE  RankInv
    OBVIOUS
<1>1. RankTypeOK
    BY SignatureAssumption DEF RankInit, RankTypeOK
<1>2. SortedTo(ByArgc, left, right)
    BY DEF RankInit, SortedTo
<1>3. QED
    BY <1>1, <1>2 DEF RankInit, RankInv

\* A comparison of the first sort.
LEMMA SortArgcKeeps ==
    ASSUME RankInv, SortArgc
    PROVE  RankInv'
<1> USE SignatureAssumption
<1>1. RankTypeOK /\ sort = "argc" /\ SortedTo(ByArgc, left, right) /\ IsOrder(ByArgc)
    BY OrdersAreOrders DEF RankInv, SortArgc
<1>2. left \in 1..nnodes /\ right \in 1..nnodes /\ nodes \in [1..nnodes -> 1..nnodes]
    BY <1>1, PlacesTyped
<1>3. \A k \in 1..nnodes : decl[k] \in Signature /\ decl[k].req \in Nat
    BY <1>1, Parameters DEF RankTypeOK
<1>4. \/ Exchange /\ <<nodes[right], nodes[left]>> \in ByArgc
      \/ nodes' = nodes /\ <<nodes[right], nodes[left]>> \notin ByArgc
    BY <1>2, <1>3 DEF SortArgc, Node, ByArgc
<1>5. /\ \A k \in 1..(left - 1), l \in 1..nnodes :
             k < l => <<nodes'[l], nodes'[k]>> \notin ByArgc
      /\ \A l \in (left + 1)..right : <<nodes'[l], nodes'[left]>> \notin ByArgc
    <2>1. \/ Exchange /\ \A m \in 1..nnodes :
                 <<m, nodes[right]>> \in ByArgc => <<m, nodes[left]>> \in ByArgc
          \/ nodes' = nodes /\ <<nodes[right], nodes[left]>> \notin ByArgc
        BY <1>1, <1>2, <1>4 DEF IsOrder
    <2>2. QED
        BY <1>1, <2>1, ComparisonSorts
<1>6. /\ left' \in 1..(nnodes - 1) /\ right' \in (left' + 1)..nnodes
      /\ \/ sort' = "argc" /\ SortedTo(ByArgc, left, right)'
         \/ sort' = "types" /\ left' = 1 /\ right' = 2 /\ Sorted(ByArgc)'
    <2>1. ByArgc' = ByArgc
        BY DEF SortArgc, ByArgc
    <2>2. /\ left' \in 1..(nnodes - 1) /\ right' \in (left' + 1)..nnodes
          /\ \/ sort' = sort /\ SortedTo(ByArgc, left, right)'
             \/ /\ sort' = IF sort = "argc" THEN "types" ELSE "done"
                /\ left' = 1 /\ right' = 2 /\ Sorted(ByArgc)'
        BY <1>1, <1>5, <2>1, TurnSorts DEF SortArgc, SortedTo, Sorted
    <2>3. QED
        BY <1>1, <2>2
<1>7. /\ nodes' \in [1..nnodes -> 1..nnodes]
      /\ \A k \in 1..nnodes : \E l \in 1..nnodes : nodes'[l] = k
    BY <1>1, <1>4, ExchangeTyped DEF RankTypeOK
<1>8. RankTypeOK'
    BY <1>1, <1>6, <1>7 DEF RankTypeOK, SortArgc
<1>9. CASE sort' = "argc" /\ SortedTo(ByArgc, left, right)'
    BY <1>8, <1>9 DEF RankInv
<1>10. CASE sort' = "types" /\ left' = 1 /\ right' = 2 /\ Sorted(ByArgc)'
    <2>1. SortedTo(ByTypes, left, right)'
        BY <1>10 DEF SortedTo
    <2>2. QED
        BY <1>8, <1>10, <2>1 DEF RankInv
<1>11. QED
    BY <1>6, <1>9, <1>10

\* A comparison of the second sort: only declarations with as many required parameters are
\* exchanged.
LEMMA SortTypesKeeps ==
    ASSUME RankInv, SortTypes
    PROVE  RankInv'
<1> USE SignatureAssumption
<1> DEFINE p == decl[nodes[left]]
           q == decl[nodes[right]]
<1>1. /\ RankTypeOK /\ sort = "types" /\ Sorted(ByArgc)
      /\ SortedTo(ByTypes, left, right) /\ IsOrder(ByTypes)
    BY OrdersAreOrders DEF RankInv, SortTypes
<1>2. left \in 1..nnodes /\ right \in 1..nnodes /\ nodes \in [1..nnodes -> 1..nnodes]
    BY <1>1, PlacesTyped
<1>3. \A k \in 1..nnodes : decl[k] \in Signature /\ decl[k].req \in Nat
    BY <1>1, Parameters DEF RankTypeOK
<1>4. \/ Exchange /\ p.req = q.req /\ (Before(q, p) \/ Differ(p, q) = {})
      \/ nodes' = nodes /\ (p.req # q.req \/ ~Before(q, p))
    BY DEF SortTypes, Node
<1>5. \/ Exchange /\ \A m \in 1..nnodes :
             <<m, nodes[right]>> \in ByTypes => <<m, nodes[left]>> \in ByTypes
      \/ nodes' = nodes /\ <<nodes[right], nodes[left]>> \notin ByTypes
    <2>1. CASE Exchange /\ p.req = q.req /\ (Before(q, p) \/ Differ(p, q) = {})
        <3>1. ASSUME NEW m \in 1..nnodes, <<m, nodes[right]>> \in ByTypes
              PROVE  <<m, nodes[left]>> \in ByTypes
            <4>1. decl[m].req = q.req /\ Before(decl[m], q)
                BY <3>1 DEF ByTypes
            <4>2. Before(decl[m], p)
                BY <1>2, <1>3, <2>1, <4>1, BeforeOrders
            <4>3. QED
                BY <1>2, <2>1, <4>1, <4>2 DEF ByTypes
        <3>2. QED
            BY <2>1, <3>1
    <2>2. CASE nodes' = nodes /\ (p.req # q.req \/ ~Before(q, p))
        BY <2>2 DEF ByTypes
    <2>3. QED
        BY <1>4, <2>1, <2>2
<1>6. /\ left' \in 1..(nnodes - 1) /\ right' \in (left' + 1)..nnodes
      /\ \/ sort' = "types" /\ SortedTo(ByTypes, left, right)'
         \/ sort' = "done" /\ Sorted(ByTypes)'
    <2>1. ByTypes' = ByTypes
        BY DEF SortTypes, ByTypes
    <2>2. /\ \A k \in 1..(left - 1), l \in 1..nnodes :
                 k < l => <<nodes'[l], nodes'[k]>> \notin ByTypes
          /\ \A l \in (left + 1)..right : <<nodes'[l], nodes'[left]>> \notin ByTypes
        BY <1>1, <1>5, ComparisonSorts
    <2>3. /\ left' \in 1..(nnodes - 1) /\ right' \in (left' + 1)..nnodes
          /\ \/ sort' = sort /\ SortedTo(ByTypes, left, right)'
             \/ /\ sort' = IF sort = "argc" THEN "types" ELSE "done"
                /\ left' = 1 /\ right' = 2 /\ Sorted(ByTypes)'
        BY <1>1, <2>1, <2>2, TurnSorts DEF SortTypes, SortedTo, Sorted
    <2>4. QED
        BY <1>1, <2>3
<1>7. /\ nodes' \in [1..nnodes -> 1..nnodes]
      /\ \A k \in 1..nnodes : \E l \in 1..nnodes : nodes'[l] = k
    BY <1>1, <1>4, ExchangeTyped DEF RankTypeOK
<1>8. RankTypeOK'
    <2>1. error' \subseteq 1..nnodes
        <3>1. nodes'[right] \in 1..nnodes /\ error \subseteq 1..nnodes
            BY <1>1, <1>2, <1>7 DEF RankTypeOK
        <3>2. error' = error \/ error' = error \cup {nodes'[right]} \/ error' = error \cup {}
            BY DEF SortTypes
        <3>3. QED
            BY <3>1, <3>2
    <2>2. QED
        BY <1>1, <1>6, <1>7, <2>1 DEF RankTypeOK, SortTypes
<1>9. Sorted(ByArgc)'
    <2>1. \A l \in 1..nnodes : nodes'[l] \in 1..nnodes /\ decl[nodes'[l]].req = decl[nodes[l]].req
        BY <1>1, <1>2, <1>4, <1>7, ExchangeTyped
    <2>2. decl' = decl
        BY DEF SortTypes
    <2>3. QED
        BY <1>1, <1>2, <1>3, <2>1, <2>2 DEF Sorted, ByArgc
<1>10. QED
    BY <1>6, <1>8, <1>9 DEF RankInv

\* RankInv is inductive.
LEMMA RankKeeps == RankInv /\ [RankNext]_rankVars => RankInv'
<1> SUFFICES ASSUME RankInv, [RankNext]_rankVars
             PROVE  RankInv'
    OBVIOUS
<1>1. CASE SortArgc
    BY <1>1, SortArgcKeeps
<1>2. CASE SortTypes
    BY <1>2, SortTypesKeeps
<1>3. CASE UNCHANGED rankVars
    <2>1. RankTypeOK' = RankTypeOK
        BY <1>3 DEF rankVars, RankTypeOK
    <2>2. ByArgc' = ByArgc /\ ByTypes' = ByTypes
        BY <1>3 DEF rankVars, ByArgc, ByTypes
    <2>3. QED
        BY <1>3, <2>1, <2>2 DEF rankVars, RankInv, SortedTo, Sorted
<1>4. QED
    BY <1>1, <1>2, <1>3 DEF RankNext

-----------------------------------------------------------------------------
(***************************************************************************)
(* The dispatch functions                                                  *)
(***************************************************************************)
\* The places of the list whose declarations take a call.
Taking(v) == {k \in DOMAIN nodes : InRange(Len(v), Node(k)) /\ Accepts(Node(k), v, DOMAIN v)}

\* The arguments of a call.
LEMMA CallIs ==
    ASSUME NEW v \in Calls
    PROVE  Len(v) \in Nat /\ DOMAIN v = 1..Len(v)
<1>1. PICK n \in 0..MaxArgs : v \in [1..n -> Argument]
    BY DEF Calls
<1>2. n \in Nat
    BY SignatureAssumption
<1>3. DOMAIN v = 1..n /\ Len(v) = n
    BY <1>1, <1>2
<1>4. QED
    BY <1>2, <1>3

\* A declaration takes a call if and only if some place of the list does.
LEMMA MatchingIsTaking ==
    ASSUME RankTypeOK, NEW v
    PROVE  /\ Taking(v) \subseteq 1..nnodes
           /\ \A l \in Matching(v) : \E k \in Taking(v) : nodes[k] = l
           /\ \A k \in Taking(v) : nodes[k] \in Matching(v)
<1>1. DOMAIN nodes = 1..nnodes /\ DOMAIN decl = 1..nnodes
    BY DEF RankTypeOK
<1>2. Taking(v) \subseteq 1..nnodes
    BY <1>1 DEF Taking
<1>3. ASSUME NEW l \in Matching(v)
      PROVE  \E k \in Taking(v) : nodes[k] = l
    <2>1. l \in 1..nnodes
        BY <1>1 DEF Matching
    <2>2. PICK k \in 1..nnodes : nodes[k] = l
        BY <2>1 DEF RankTypeOK
    <2>3. k \in Taking(v)
        BY <1>1, <2>2 DEF Matching, Taking, Node
    <2>4. QED
        BY <2>2, <2>3
<1>4. ASSUME NEW k \in Taking(v)
      PROVE  nodes[k] \in Matching(v)
    <2>1. nodes[k] \in 1..nnodes
        BY <1>2 DEF RankTypeOK
    <2>2. QED
        BY <1>1, <2>1 DEF Matching, Taking, Node
<1>5. QED
    BY <1>2, <1>3, <1>4

\* Two declarations that take as many arguments collide.
LEMMA InRangeCollides ==
    ASSUME RankTypeOK, NEW n \in Nat, NEW k \in 1..nnodes, NEW l \in (k + 1)..nnodes,
           InRange(n, Node(k)), InRange(n, Node(l))
    PROVE  l \in Colliders(k)
<1>1. k \in Nat /\ l \in 1..nnodes
    BY SignatureAssumption
<1>2. Node(k) \in Signature /\ Node(l) \in Signature
    BY <1>1 DEF RankTypeOK, Node
<1>3. /\ Node(k).req \in Nat /\ Len(Node(k).parms) \in Nat
      /\ Node(l).req \in Nat /\ Len(Node(l).parms) \in Nat
    BY <1>2, Parameters
<1>4. QED
    BY <1>3 DEF Colliders, InRange

\* overload.cxx:586 "if all the wrappers have the same type check on this argument we can
\* optimize it out": for any declarations of a name and any typecheck typemaps,
\* Swig_overload_dispatch_fast() sends a call that some declaration takes where
\* Swig_overload_dispatch() does.
THEOREM FastStaysRight == RankSpec => []FastIsRight
<1>1. ASSUME RankTypeOK
      PROVE  FastIsRight
    <2> SUFFICES ASSUME NEW v \in Calls, Matching(v) # {}
                 PROVE  FastDispatch(v) = Dispatch(v)
        BY DEF FastIsRight
    <2> DEFINE F == {k \in DOMAIN nodes :
                        /\ InRange(Len(v), Node(k))
                        /\ Accepts(Node(k), v, TypeChecked(k) \cap DOMAIN v)}
    <2>1. FastDispatch(v) = FirstOf(F) /\ Dispatch(v) = FirstOf(Taking(v))
        BY DEF FastDispatch, Dispatch, Taking
    <2>2. DOMAIN nodes = 1..nnodes /\ nnodes \in Nat
        BY <1>1, SignatureAssumption DEF RankTypeOK
    <2>3. Taking(v) # {}
        BY <1>1, MatchingIsTaking
    <2>4. Taking(v) \subseteq F /\ F \in SUBSET Nat /\ F \subseteq 1..nnodes
        BY <2>2 DEF Taking, Accepts
    <2>5. Taking(v) \in SUBSET Nat
        BY <2>4
    <2> DEFINE k == Least(F)
               l == Least(Taking(v))
    <2>6. k \in F /\ \A m \in F : k <= m
        <3>1. F # {}
            BY <2>3, <2>4
        <3> HIDE DEF F
        <3>2. QED
            BY <2>4, <3>1, LeastIs
    <2>7. l \in Taking(v) /\ \A m \in Taking(v) : l <= m
        BY <2>3, <2>5, LeastIs
    <2>8. k \in Taking(v)
        <3>1. CASE k = l
            BY <2>7, <3>1
        <3>2. CASE k # l
            <4>1. k \in 1..nnodes /\ l \in (k + 1)..nnodes
                <5>1. k \in 1..nnodes /\ l \in 1..nnodes /\ k <= l
                    BY <2>4, <2>6, <2>7
                <5> HIDE DEF k, l
                <5>2. QED
                    BY <2>2, <3>2, <5>1
            <4>2. InRange(Len(v), Node(k)) /\ InRange(Len(v), Node(l))
                BY <2>6, <2>7 DEF Taking
            <4>3. Accepts(Node(k), v, TypeChecked(k) \cap DOMAIN v) /\ Accepts(Node(l), v, DOMAIN v)
                BY <2>6, <2>7 DEF Taking
            <4> HIDE DEF k, l
            <4>4. Len(v) \in Nat /\ DOMAIN v = 1..Len(v)
                BY CallIs
            <4>5. l \in Colliders(k)
                BY <1>1, <4>1, <4>2, <4>4, InRangeCollides
            <4>6. /\ Len(Node(k).parms) \in Nat /\ DOMAIN Node(k).parms = 1..Len(Node(k).parms)
                  /\ Len(Node(l).parms) \in Nat
                <5>1. l \in 1..nnodes
                    BY <2>2, <4>1
                <5>2. Node(k) \in Signature /\ Node(l) \in Signature
                    BY <1>1, <4>1, <5>1 DEF RankTypeOK, Node
                <5>3. QED
                    BY <5>2, Parameters
            <4>7. ASSUME NEW n \in DOMAIN v
                  PROVE  v[n] \in Checks[CheckOf(k, n)]
                <5>1. CASE n \in TypeChecked(k)
                    BY <4>3, <5>1 DEF Accepts, CheckOf
                <5>2. CASE n \notin TypeChecked(k)
                    <6>1. n \in DOMAIN Node(k).parms /\ n <= Len(Node(l).parms)
                        BY <4>2, <4>4, <4>6 DEF InRange
                    <6>2. CheckOf(l, n) = CheckOf(k, n)
                        BY <4>5, <5>2, <6>1 DEF TypeChecked
                    <6>3. QED
                        BY <4>3, <6>2 DEF Accepts, CheckOf
                <5>3. QED
                    BY <5>1, <5>2
            <4>8. QED
                BY <2>2, <4>1, <4>2, <4>7 DEF Taking, Accepts, CheckOf
        <3>3. QED
            BY <3>1, <3>2
    <2>9. k = l
        <3>1. k \in Nat /\ l \in Nat /\ k <= l /\ l <= k
            BY <2>4, <2>5, <2>6, <2>7, <2>8
        <3> HIDE DEF k, l
        <3>2. QED
            BY <3>1
    <2>10. QED
        BY <2>1, <2>3, <2>4, <2>9 DEF FirstOf
<1>2. RankInv => RankTypeOK
    BY DEF RankInv
<1>3. QED
    BY <1>1, <1>2, RankStarts, RankKeeps, PTL DEF RankSpec

\* A declaration that is more specific belongs before the other.
LEMMA MoreSpecificBefore ==
    ASSUME NEW d \in Signature, NEW e \in Signature, d.req = e.req, MoreSpecific(d, e)
    PROVE  Before(d, e)
<1>1. PICK n \in 1..e.req :
          Differ(d, e) \cap 1..(n - 1) = {} /\ Precedes(d.parms[n], e.parms[n])
    BY DEF MoreSpecific, Precedes
<1>2. e.req \in Nat /\ \A m \in 1..e.req : /\ d.parms[m] \in DOMAIN precedence
                                         /\ e.parms[m] \in DOMAIN precedence
    BY Parameters
<1>3. ASSUME NEW m \in 1..(n - 1)
      PROVE  Same(e.parms[m], d.parms[m])
    <2>1. m \in 1..e.req /\ m \notin Differ(d, e)
        BY <1>1, <1>2
    <2>2. Same(d.parms[m], e.parms[m])
        BY <2>1, DifferIs
    <2>3. QED
        BY <1>2, <2>1, <2>2, TypesOrdered
<1>4. QED
    BY <1>1, <1>3, BeforeIs

\* Swig_overload_rank(), for any declarations of a name and any classes: of those that take
\* a call, none with as many required parameters is more specific than the one used.
THEOREM RankingIsMostSpecific == RankSpec => []MostSpecific
<1>1. ASSUME RankInv
      PROVE  MostSpecific
    <2> SUFFICES ASSUME sort = "done", NEW v \in Calls, Dispatch(v) # 0,
                        NEW l \in Matching(v), decl[l].req = decl[Dispatch(v)].req,
                        MoreSpecific(decl[l], decl[Dispatch(v)])
                 PROVE  FALSE
        BY DEF MostSpecific
    <2>1. RankTypeOK /\ Sorted(ByTypes)
        BY <1>1 DEF RankInv
    <2>2. /\ nnodes \in Nat /\ nodes \in [1..nnodes -> 1..nnodes]
          /\ decl \in [1..nnodes -> Signature] /\ Taking(v) \subseteq 1..nnodes
        BY <2>1, MatchingIsTaking, SignatureAssumption DEF RankTypeOK
    <2>3. Taking(v) # {} /\ Dispatch(v) = nodes[Least(Taking(v))]
        BY DEF Dispatch, FirstOf, Taking
    <2>4. PICK a \in Taking(v) : Dispatch(v) = nodes[a] /\ \A b \in Taking(v) : a <= b
        <3>1. Taking(v) \in SUBSET Nat
            BY <2>2
        <3>2. QED
            BY <2>3, <3>1, LeastIs
    <2>5. PICK b \in Taking(v) : nodes[b] = l
        BY <2>1, MatchingIsTaking
    <2>6. a \in 1..nnodes /\ b \in 1..nnodes /\ a <= b
        BY <2>2, <2>4, <2>5
    <2>7. l \in 1..nnodes /\ nodes[a] \in 1..nnodes
        BY <2>2, <2>5, <2>6
    <2>8. decl[l] \in Signature /\ decl[nodes[a]] \in Signature
        BY <2>2, <2>7
    <2>9. Before(decl[l], decl[nodes[a]])
        BY <2>4, <2>8, MoreSpecificBefore
    <2>10. CASE a = b
        BY <2>5, <2>8, <2>9, <2>10, BeforeOrders
    <2>11. CASE a # b
        <3>1. <<nodes[b], nodes[a]>> \in ByTypes
            BY <2>4, <2>5, <2>7, <2>9 DEF ByTypes
        <3>2. QED
            BY <2>1, <2>2, <2>6, <2>11, <3>1 DEF Sorted
    <2>12. QED
        BY <2>10, <2>11
<1>2. QED
    BY <1>1, RankStarts, RankKeeps, PTL DEF RankSpec

\* The list of declarations stays a list of all of them, and the indices stay within it.
THEOREM RankTyped == RankSpec => []RankTypeOK
<1>1. RankInv => RankTypeOK
    BY DEF RankInv
<1>2. QED
    BY <1>1, RankStarts, RankKeeps, PTL DEF RankSpec

\* The loop over the types breaks off where the number of required parameters changes: by
\* then the list is sorted by it, and stays so.
THEOREM ArgcStaysSorted ==
    RankSpec => [](sort # "argc" => \A k, l \in 1..nnodes : k < l => Node(k).req <= Node(l).req)
<1> DEFINE Rising == sort # "argc" => \A k, l \in 1..nnodes : k < l => Node(k).req <= Node(l).req
<1>1. ASSUME RankInv
      PROVE  Rising
    <2> SUFFICES ASSUME sort # "argc", NEW k \in 1..nnodes, NEW l \in 1..nnodes, k < l
                 PROVE  Node(k).req <= Node(l).req
        OBVIOUS
    <2>1. RankTypeOK /\ Sorted(ByArgc)
        BY <1>1 DEF RankInv
    <2>2. nodes[k] \in 1..nnodes /\ nodes[l] \in 1..nnodes
        BY <2>1, PlacesTyped
    <2>3. decl[nodes[k]].req \in Nat /\ decl[nodes[l]].req \in Nat
        BY <2>1, <2>2, Parameters DEF RankTypeOK
    <2>4. <<nodes[l], nodes[k]>> \notin ByArgc
        BY <2>1 DEF Sorted
    <2>5. QED
        BY <2>2, <2>3, <2>4 DEF ByArgc, Node
<1>2. QED
    BY <1>1, RankStarts, RankKeeps, PTL DEF RankSpec

-----------------------------------------------------------------------------
(***************************************************************************)
(* The directives of Typemaps                                              *)
(***************************************************************************)
\* the typemaps in force are the nodes with code
RulesAreNodes ==
    /\ DOMAIN rules = {k \in DOMAIN tmaps : tmaps[k] # NoCode}
    /\ \A k \in DOMAIN rules : rules[k] = tmaps[k]

\* a node for several parameters has one for each leading part of them in front of it
PartsHaveNodes == \A k \in DOMAIN tmaps : Leading(k[1], k[2]) \subseteq DOMAIN tmaps

MapInv == MapTypeOK /\ RulesAreNodes /\ PartsHaveNodes

\* Lists of parameters and their leading parts.
LEMMA LeadingParts ==
    ASSUME NEW m \in TmapMethod, NEW ps \in Seq(Parm), ps # <<>>
    PROVE  /\ <<m, ps>> \in Leading(m, ps)
           /\ Leading(m, ps) \subseteq TmapMethod \X Seq(Parm)
           /\ \A k \in Leading(m, ps) : Leading(k[1], k[2]) \subseteq Leading(m, ps)
<1>1. Len(ps) \in Nat /\ Len(ps) >= 1 /\ \A k \in 1..Len(ps) : ps[k] \in Parm
    OBVIOUS
<1>2. ASSUME NEW n \in 1..Len(ps)
      PROVE  /\ SubSeq(ps, 1, n) \in Seq(Parm) /\ Len(SubSeq(ps, 1, n)) = n
             /\ \A i \in 1..n : SubSeq(ps, 1, n)[i] = ps[i]
    <2>1. \A i \in 1..n : ps[i] \in Parm
        BY <1>1
    <2>2. n \in Int
        BY <1>1
    <2>3. QED
        BY <1>2, <1>1, <2>1, <2>2, SubSeqProperties
<1>3. <<m, ps>> \in Leading(m, ps)
    <2>1. SubSeq(ps, 1, Len(ps)) = ps
        BY SubSeqFull
    <2>2. Len(ps) \in 1..Len(ps)
        BY <1>1
    <2>3. QED
        BY <2>1, <2>2 DEF Leading
<1>4. ASSUME NEW k \in Leading(m, ps)
      PROVE  Leading(k[1], k[2]) \subseteq Leading(m, ps)
    <2>1. PICK n \in 1..Len(ps) : k = <<m, SubSeq(ps, 1, n)>>
        BY DEF Leading
    <2>2. Leading(k[1], k[2]) = {<<m, SubSeq(SubSeq(ps, 1, n), 1, l)>> : l \in 1..n}
        BY <1>2, <2>1 DEF Leading
    <2>3. ASSUME NEW l \in 1..n
          PROVE  SubSeq(SubSeq(ps, 1, n), 1, l) = SubSeq(ps, 1, l) /\ l \in 1..Len(ps)
        <3>1. l \in 1..Len(ps) /\ 1 \in 1..Len(ps) /\ n - 1 + 1 = n /\ l \in 1..(n - 1 + 1)
            BY <1>1
        <3>2. 1 \in 1..(n - 1 + 1) /\ 1 + l - 1 = l /\ 1 + 1 - 1 = 1
            BY <1>1
        <3>3. SubSeq(SubSeq(ps, 1, n), 1, l) = SubSeq(ps, 1 + 1 - 1, 1 + l - 1)
            BY <3>1, <3>2, SubSeqOfSubSeq
        <3>4. QED
            BY <3>1, <3>2, <3>3
    <2>4. QED
        BY <2>2, <2>3 DEF Leading
<1>5. QED
    BY <1>2, <1>3, <1>4 DEF Leading

\* What is put in force when a node is given code or loses it.
LEMMA NodeGiven ==
    ASSUME MapInv, NEW m \in TmapMethod, NEW ps \in Parms, NEW code \in TmapCode \cup {NoCode},
           tmaps' = Registered(m, ps, code), rules' = InForce(<<m, ps>>, code)
    PROVE  /\ DOMAIN tmaps' \subseteq TmapMethod \X Seq(Parm)
           /\ \A k \in DOMAIN tmaps' : tmaps'[k] \in TmapCode \cup {NoCode}
           /\ RulesAreNodes' /\ PartsHaveNodes'
<1>1. ps \in Seq(Parm) /\ ps # <<>>
    BY TypemapAssumption
<1>2. /\ DOMAIN tmaps' = DOMAIN tmaps \cup Leading(m, ps)
      /\ \A k \in DOMAIN tmaps' : tmaps'[k] = IF k = <<m, ps>> THEN code
                                           ELSE IF k \in DOMAIN tmaps THEN tmaps[k] ELSE NoCode
    BY DEF Registered
<1>3. /\ <<m, ps>> \in Leading(m, ps)
      /\ Leading(m, ps) \subseteq TmapMethod \X Seq(Parm)
      /\ \A k \in Leading(m, ps) : Leading(k[1], k[2]) \subseteq Leading(m, ps)
    BY <1>1, LeadingParts
<1>4. DOMAIN tmaps' \subseteq TmapMethod \X Seq(Parm)
    BY <1>2, <1>3 DEF MapInv, MapTypeOK
<1>5. \A k \in DOMAIN tmaps' : tmaps'[k] \in TmapCode \cup {NoCode}
    BY <1>2 DEF MapInv, MapTypeOK
<1>6. RulesAreNodes'
    <2>1. /\ DOMAIN rules = {k \in DOMAIN tmaps : tmaps[k] # NoCode}
          /\ \A k \in DOMAIN rules : rules[k] = tmaps[k]
        BY DEF MapInv, RulesAreNodes
    <2>2. CASE code = NoCode
        <3>1. /\ DOMAIN rules' = DOMAIN rules \ {<<m, ps>>}
              /\ \A k \in DOMAIN rules' : rules'[k] = rules[k]
            BY <2>2 DEF InForce, Restrict
        <3>2. <<m, ps>> \in DOMAIN tmaps' /\ tmaps'[<<m, ps>>] = NoCode
            BY <1>2, <1>3, <2>2
        <3>3. ASSUME NEW k, k # <<m, ps>>
              PROVE  /\ k \in DOMAIN rules' <=> k \in DOMAIN tmaps' /\ tmaps'[k] # NoCode
                     /\ k \in DOMAIN rules' => rules'[k] = tmaps'[k]
            BY <1>2, <2>1, <3>1, <3>3
        <3>4. QED
            BY <3>1, <3>2, <3>3 DEF RulesAreNodes
    <2>3. CASE code # NoCode
        <3>1. /\ DOMAIN rules' = DOMAIN rules \cup {<<m, ps>>}
              /\ \A k \in DOMAIN rules' : rules'[k] = IF k = <<m, ps>> THEN code ELSE rules[k]
            BY <2>3 DEF InForce
        <3>2. /\ <<m, ps>> \in DOMAIN rules' /\ <<m, ps>> \in DOMAIN tmaps'
              /\ tmaps'[<<m, ps>>] = code /\ rules'[<<m, ps>>] = code
            BY <1>2, <1>3, <3>1
        <3>3. ASSUME NEW k, k # <<m, ps>>
              PROVE  /\ k \in DOMAIN rules' <=> k \in DOMAIN tmaps' /\ tmaps'[k] # NoCode
                     /\ k \in DOMAIN rules' => rules'[k] = tmaps'[k]
            BY <1>2, <2>1, <3>1, <3>3
        <3>4. QED
            BY <2>3, <3>2, <3>3 DEF RulesAreNodes
    <2>4. QED
        BY <2>2, <2>3
<1>7. PartsHaveNodes'
    <2>1. \A k \in DOMAIN tmaps : Leading(k[1], k[2]) \subseteq DOMAIN tmaps
        BY DEF MapInv, PartsHaveNodes
    <2>2. \A k \in DOMAIN tmaps' : Leading(k[1], k[2]) \subseteq DOMAIN tmaps'
        BY <1>2, <1>3, <2>1
    <2>3. QED
        BY <2>2 DEF PartsHaveNodes, Leading
<1>8. QED
    BY <1>4, <1>5, <1>6, <1>7

\* The tables [type] and [type][name] hold parameters.
LEMMA NodesForTyped ==
    ASSUME NEW ps \in Seq(Parm)
    PROVE  NodesFor(ps) \subseteq Parm
<1>1. \A p \in ToSet(ps) : p \in Parm
    BY DEF ToSet
<1>2. \A p \in Parm : <<p[1], NoName>> \in Parm
    BY TypemapAssumption DEF Parm
<1>3. QED
    BY <1>1, <1>2 DEF NodesFor

\* The directives are counted up to the bound.
LEMMA DirectiveTyped ==
    ASSUME MapTypeOK, NEW apply \in BOOLEAN, Directive(apply)
    PROVE  applied' \in BOOLEAN /\ directives' \in 0..MaxDirectives
<1>1. applied' \in BOOLEAN
    BY DEF Directive
<1>2. MaxDirectives \in Nat /\ directives \in 0..MaxDirectives
    BY TypemapAssumption DEF MapTypeOK
<1>3. directives' \in 0..MaxDirectives
    BY <1>2 DEF Directive
<1>4. QED
    BY <1>1, <1>3

LEMMA MapStarts == MapInit => MapInv
<1> SUFFICES ASSUME MapInit
             PROVE  MapInv
    OBVIOUS
<1>1. DOMAIN tmaps = {} /\ DOMAIN rules = {}
    BY DEF MapInit
<1>2. types \subseteq Parm /\ applied \in BOOLEAN
    BY DEF MapInit
<1>3. directives \in 0..MaxDirectives
    BY TypemapAssumption DEF MapInit
<1>4. MapTypeOK
    BY <1>1, <1>2, <1>3 DEF MapTypeOK
<1>5. QED
    BY <1>1, <1>4 DEF MapInv, RulesAreNodes, PartsHaveNodes

LEMMA TypemapRegisterKeeps ==
    ASSUME MapInv, NEW m \in TmapMethod, NEW ps \in Parms, NEW code \in TmapCode,
           Register(m, ps, code)
    PROVE  MapInv'
<1>1. /\ DOMAIN tmaps' \subseteq TmapMethod \X Seq(Parm)
      /\ \A k \in DOMAIN tmaps' : tmaps'[k] \in TmapCode \cup {NoCode}
      /\ RulesAreNodes' /\ PartsHaveNodes'
    BY NodeGiven DEF Register
<1>2. types' \subseteq Parm
    BY NodesForTyped, TypemapAssumption DEF Register, MapInv, MapTypeOK
<1>3. applied' \in BOOLEAN /\ directives' \in 0..MaxDirectives
    BY DirectiveTyped DEF Register, MapInv
<1>4. DOMAIN rules' \subseteq DOMAIN tmaps'
    BY <1>1 DEF RulesAreNodes
<1>5. QED
    BY <1>1, <1>2, <1>3, <1>4 DEF MapInv, MapTypeOK

LEMMA CopyKeeps ==
    ASSUME MapInv, NEW m \in TmapMethod, NEW src \in Parms, NEW ps \in Parms, Copy(m, src, ps)
    PROVE  MapInv'
<1>1. tmaps[<<m, src>>] \in TmapCode \cup {NoCode}
    BY DEF Copy, MapInv, MapTypeOK
<1>2. /\ DOMAIN tmaps' \subseteq TmapMethod \X Seq(Parm)
      /\ \A k \in DOMAIN tmaps' : tmaps'[k] \in TmapCode \cup {NoCode}
      /\ RulesAreNodes' /\ PartsHaveNodes'
    BY <1>1, NodeGiven DEF Copy
<1>3. types' \subseteq Parm
    BY NodesForTyped, TypemapAssumption DEF Copy, MapInv, MapTypeOK
<1>4. applied' \in BOOLEAN /\ directives' \in 0..MaxDirectives
    BY DirectiveTyped DEF Copy, MapInv
<1>5. DOMAIN rules' \subseteq DOMAIN tmaps'
    BY <1>2 DEF RulesAreNodes
<1>6. QED
    BY <1>2, <1>3, <1>4, <1>5 DEF MapInv, MapTypeOK

\* Nodes that lose their code.
LEMMA NodesCleared ==
    ASSUME MapInv, NEW K \in SUBSET DOMAIN tmaps,
           tmaps' = [k \in DOMAIN tmaps |-> IF k \in K THEN NoCode ELSE tmaps[k]],
           rules' = Restrict(rules, DOMAIN rules \ K), UNCHANGED types, Directive(FALSE)
    PROVE  MapInv'
<1>1. /\ DOMAIN tmaps' = DOMAIN tmaps
      /\ \A k \in DOMAIN tmaps : tmaps'[k] = IF k \in K THEN NoCode ELSE tmaps[k]
    OBVIOUS
<1>2. /\ DOMAIN rules' = DOMAIN rules \ K
      /\ \A k \in DOMAIN rules' : rules'[k] = rules[k]
    BY DEF Restrict
<1>3. RulesAreNodes'
    BY <1>1, <1>2 DEF MapInv, RulesAreNodes
<1>4. PartsHaveNodes'
    BY <1>1 DEF MapInv, PartsHaveNodes, Leading
<1>5. applied' \in BOOLEAN /\ directives' \in 0..MaxDirectives
    BY DirectiveTyped DEF MapInv
<1>6. DOMAIN rules' \subseteq DOMAIN tmaps'
    BY <1>1, <1>2 DEF MapInv, MapTypeOK
<1>7. QED
    BY <1>1, <1>3, <1>4, <1>5, <1>6 DEF MapInv, MapTypeOK

LEMMA ClearKeeps ==
    ASSUME MapInv, NEW m \in TmapMethod, NEW ps \in Parms, Clear(m, ps)
    PROVE  MapInv'
<1> DEFINE K == {<<m, ps>>}
<1>1. tmaps' = [k \in DOMAIN tmaps |-> IF k \in K THEN NoCode ELSE tmaps[k]]
    BY DEF Clear
<1>2. rules' = Restrict(rules, DOMAIN rules \ K)
    BY DEF Clear, InForce
<1>3. K \in SUBSET DOMAIN tmaps
    BY DEF Clear
<1> HIDE DEF K
<1>4. QED
    BY <1>1, <1>2, <1>3, NodesCleared DEF Clear

LEMMA ClearApplyKeeps ==
    ASSUME MapInv, NEW ps \in Parms, ClearApply(ps)
    PROVE  MapInv'
<1> DEFINE K == {<<m, ps>> : m \in TmapMethod} \cap DOMAIN tmaps
<1>1. /\ tmaps' = [k \in DOMAIN tmaps |-> IF k \in K THEN NoCode ELSE tmaps[k]]
      /\ rules' = Restrict(rules, DOMAIN rules \ K)
      /\ K \in SUBSET DOMAIN tmaps
    BY DEF ClearApply
<1> HIDE DEF K
<1>2. QED
    BY <1>1, NodesCleared DEF ClearApply

LEMMA ApplyKeepsNodes ==
    ASSUME MapInv, NEW src \in Parms, NEW ps \in Parms, Apply(src, ps)
    PROVE  MapInv'
<1> DEFINE from == Source(src)
           ms == {m \in TmapMethod : get_typemap(<<m, from>>) \in TmapCode}
           parts == UNION {Leading(m, ps) : m \in ms}
           targets == {<<m, ps>> : m \in ms}
<1>1. ps \in Seq(Parm) /\ ps # <<>>
    BY TypemapAssumption
<1>2. \A m \in ms : <<m, from>> \in DOMAIN tmaps /\ tmaps[<<m, from>>] \in TmapCode
    BY TypemapAssumption DEF get_typemap
<1>3. /\ DOMAIN tmaps' = DOMAIN tmaps \cup parts
      /\ \A k \in DOMAIN tmaps' : tmaps'[k] =
            IF \E m \in ms : k = <<m, ps>> THEN tmaps[<<k[1], from>>]
            ELSE IF k \in DOMAIN tmaps THEN tmaps[k] ELSE NoCode
    BY DEF Apply
<1>4. /\ DOMAIN rules' = DOMAIN rules \cup targets
      /\ \A k \in DOMAIN rules' : rules'[k] =
            IF \E m \in ms : k = <<m, ps>> THEN tmaps[<<k[1], from>>]
            ELSE IF k \in DOMAIN rules THEN rules[k] ELSE NoCode
    BY DEF Apply
<1>5. \A m \in ms : /\ <<m, ps>> \in Leading(m, ps)
                    /\ Leading(m, ps) \subseteq TmapMethod \X Seq(Parm)
                    /\ \A k \in Leading(m, ps) : Leading(k[1], k[2]) \subseteq Leading(m, ps)
    BY <1>1, LeadingParts
<1>6. types' \subseteq Parm
    <2>1. <<Last(ps)>> \in Seq(Parm)
        BY <1>1 DEF Last
    <2>2. NodesFor(<<Last(ps)>>) \subseteq Parm /\ NodesFor(ps) \subseteq Parm
        BY <1>1, <2>1, NodesForTyped
    <2>3. types' \subseteq types \cup NodesFor(<<Last(ps)>>) \cup NodesFor(ps)
        BY DEF Apply
    <2>4. QED
        BY <2>2, <2>3 DEF MapInv, MapTypeOK
<1>7. applied' \in BOOLEAN /\ directives' \in 0..MaxDirectives
    BY DirectiveTyped DEF Apply, MapInv
<1> HIDE DEF ms, from
<1>8. ASSUME NEW m \in ms
      PROVE  /\ <<m, ps>> \in DOMAIN tmaps' /\ <<m, ps>> \in DOMAIN rules'
             /\ tmaps'[<<m, ps>>] = tmaps[<<m, from>>] /\ rules'[<<m, ps>>] = tmaps[<<m, from>>]
             /\ tmaps[<<m, from>>] \in TmapCode
    BY <1>2, <1>3, <1>4, <1>5
<1>9. ASSUME NEW k \in DOMAIN tmaps', k \notin targets
      PROVE  tmaps'[k] = IF k \in DOMAIN tmaps THEN tmaps[k] ELSE NoCode
    BY <1>3, <1>9
<1>10. DOMAIN tmaps' \subseteq TmapMethod \X Seq(Parm)
    <2>1. parts \subseteq TmapMethod \X Seq(Parm)
        BY <1>5
    <2>2. DOMAIN tmaps \subseteq TmapMethod \X Seq(Parm)
        BY DEF MapInv, MapTypeOK
    <2> HIDE DEF parts
    <2>3. QED
        BY <1>3, <2>1, <2>2
<1>11. \A k \in DOMAIN tmaps' : tmaps'[k] \in TmapCode \cup {NoCode}
    BY <1>8, <1>9 DEF MapInv, MapTypeOK
<1>12. RulesAreNodes'
    <2>1. ASSUME NEW k
          PROVE  /\ k \in DOMAIN rules' <=> k \in DOMAIN tmaps' /\ tmaps'[k] # NoCode
                 /\ k \in DOMAIN rules' => rules'[k] = tmaps'[k]
        <3>1. CASE k \in targets
            <4>1. PICK m \in ms : k = <<m, ps>>
                BY <3>1
            <4>2. tmaps[<<m, from>>] # NoCode
                BY <1>8, TypemapAssumption
            <4>3. QED
                BY <1>8, <4>1, <4>2
        <3>2. CASE k \notin targets
            <4>1. k \in DOMAIN rules' <=> k \in DOMAIN rules
                BY <1>4, <3>2
            <4>2. k \in DOMAIN rules => rules'[k] = rules[k]
                BY <1>4, <3>2
            <4>3. k \in DOMAIN tmaps => k \in DOMAIN tmaps'
                BY <1>3
            <4>4. QED
                BY <1>9, <3>2, <4>1, <4>2, <4>3 DEF MapInv, RulesAreNodes
        <3>3. QED
            BY <3>1, <3>2
    <2>2. QED
        BY <2>1 DEF RulesAreNodes
<1>13. PartsHaveNodes'
    <2>1. \A k \in DOMAIN tmaps : Leading(k[1], k[2]) \subseteq DOMAIN tmaps
        BY DEF MapInv, PartsHaveNodes
    <2>2. ASSUME NEW k \in parts
          PROVE  Leading(k[1], k[2]) \subseteq parts
        <3>1. PICK m \in ms : k \in Leading(m, ps)
            OBVIOUS
        <3>2. Leading(k[1], k[2]) \subseteq Leading(m, ps) /\ Leading(m, ps) \subseteq parts
            BY <1>5, <3>1
        <3>3. QED
            BY <3>2
    <2> HIDE DEF parts
    <2>4. \A k \in DOMAIN tmaps' : Leading(k[1], k[2]) \subseteq DOMAIN tmaps'
        BY <1>3, <2>1, <2>2
    <2>5. QED
        BY <2>4 DEF PartsHaveNodes, Leading
<1>14. DOMAIN rules' \subseteq DOMAIN tmaps'
    BY <1>12 DEF RulesAreNodes
<1>15. QED
    BY <1>6, <1>7, <1>10, <1>11, <1>12, <1>13, <1>14 DEF MapInv, MapTypeOK

\* A directive leaves the typemaps in force and the nodes as each other's image.
LEMMA MapKeeps == MapInv /\ [MapNext]_mapVars => MapInv'
<1> SUFFICES ASSUME MapInv, [MapNext]_mapVars
             PROVE  MapInv'
    OBVIOUS
<1>1. ASSUME NEW m \in TmapMethod, NEW ps \in Parms, NEW code \in TmapCode, Register(m, ps, code)
      PROVE  MapInv'
    BY <1>1, TypemapRegisterKeeps
<1>2. ASSUME NEW m \in TmapMethod, NEW ps \in Parms, Clear(m, ps)
      PROVE  MapInv'
    BY <1>2, ClearKeeps
<1>3. ASSUME NEW m \in TmapMethod, NEW src \in Parms, NEW ps \in Parms, Copy(m, src, ps)
      PROVE  MapInv'
    BY <1>3, CopyKeeps
<1>4. ASSUME NEW src \in Parms, NEW ps \in Parms, Apply(src, ps)
      PROVE  MapInv'
    BY <1>4, ApplyKeepsNodes
<1>5. ASSUME NEW ps \in Parms, ClearApply(ps)
      PROVE  MapInv'
    BY <1>5, ClearApplyKeeps
<1>6. ASSUME UNCHANGED mapVars
      PROVE  MapInv'
    BY <1>6 DEF mapVars, MapInv, MapTypeOK, RulesAreNodes, PartsHaveNodes, Leading
<1>7. QED
    BY <1>1, <1>2, <1>3, <1>4, <1>5, <1>6 DEF MapNext

-----------------------------------------------------------------------------
(***************************************************************************)
(* The searches of Typemaps                                                *)
(***************************************************************************)
\* The first number of a set, and the last one.
LEMMA MinIs ==
    ASSUME NEW S \in SUBSET Nat, S # {}
    PROVE  Min(S) \in S /\ \A k \in S : Min(S) <= k
BY LeastNumber DEF Min

LEMMA MaxIs ==
    ASSUME NEW n \in Nat, NEW S \in SUBSET (1..n), S # {}
    PROVE  Max(S) \in S /\ \A k \in S : Max(S) >= k
<1> DEFINE T == {b \in Nat : \A k \in S : k <= b}
<1>1. n \in T
    OBVIOUS
<1>2. PICK b \in T : \A c \in T : b <= c
    <2>1. T \in SUBSET Nat /\ T # {}
        BY <1>1
    <2> HIDE DEF T
    <2>2. QED
        BY <2>1, LeastNumber
<1>3. b \in S
    <2> SUFFICES ASSUME b \notin S
                 PROVE  FALSE
        OBVIOUS
    <2>1. PICK k \in S : TRUE
        OBVIOUS
    <2>2. k >= 1 /\ k <= b /\ b \in Nat /\ k \in Nat
        BY <1>2
    <2>3. b - 1 \in Nat
        BY <2>2
    <2>4. \A l \in S : l <= b - 1
        BY <1>2
    <2>5. b - 1 \in T
        BY <2>3, <2>4
    <2>6. QED
        BY <1>2, <2>2, <2>5
<1>4. \E m \in S : \A k \in S : m >= k
    BY <1>2, <1>3
<1>5. QED
    BY <1>4 DEF Max

\* What is found in a list of candidates.
LEMMA FirstWithIs ==
    ASSUME NEW codes, NoNode \notin codes, NEW m, NEW before, NEW qs \in Seq(Parm)
    PROVE  \/ /\ FirstWith(codes, m, before, qs) = NoNode
              /\ \A k \in 1..Len(qs) : NodeOf(m, before, qs[k]) \notin codes
           \/ \E k \in 1..Len(qs) :
                 /\ FirstWith(codes, m, before, qs) = NodeOf(m, before, qs[k])
                 /\ NodeOf(m, before, qs[k]) \in codes
                 /\ \A l \in 1..(k - 1) : NodeOf(m, before, qs[l]) \notin codes
<1> DEFINE S == {k \in 1..Len(qs) : NodeOf(m, before, qs[k]) \in codes}
           k == SelectInSeq(qs, LAMBDA q : NodeOf(m, before, q) \in codes)
<1>1. k = IF S # {} THEN Min(S) ELSE 0
    BY DEF SelectInSeq
<1>2. FirstWith(codes, m, before, qs) = IF k = 0 THEN NoNode ELSE NodeOf(m, before, qs[k])
    BY DEF FirstWith
<1>3. S \in SUBSET Nat /\ Len(qs) \in Nat
    OBVIOUS
<1>4. CASE S = {}
    BY <1>1, <1>2, <1>4
<1>5. CASE S # {}
    <2>1. Min(S) \in S /\ \A l \in S : Min(S) <= l
        <3> HIDE DEF S
        <3>1. QED
            BY <1>3, <1>5, MinIs
    <2>2. k = Min(S) /\ k \in 1..Len(qs) /\ NodeOf(m, before, qs[k]) \in codes
        BY <1>1, <1>5, <2>1
    <2>3. ASSUME NEW l \in 1..(k - 1)
          PROVE  NodeOf(m, before, qs[l]) \notin codes
        <3>1. l \in 1..Len(qs) /\ l < k
            <4> HIDE DEF k
            <4>1. QED
                BY <1>3, <2>2
        <3>2. l \notin S
            <4>1. \A j \in S : k <= j
                BY <2>1, <2>2
            <4>2. k \in Nat
                BY <2>2
            <4> HIDE DEF S, k
            <4>3. QED
                BY <3>1, <4>1, <4>2
        <3>3. QED
            BY <3>1, <3>2
    <2>4. k # 0
        BY <2>2
    <2> HIDE DEF k, S
    <2>5. QED
        BY <1>2, <2>2, <2>3, <2>4
<1>6. QED
    BY <1>4, <1>5

\* The typemap in force is the first node with code.
LEMMA RuleIsFirst ==
    ASSUME MapInv, NEW m, NEW before, NEW p \in Parm
    PROVE  Rule(m, before, p) = FirstWith(TmapCode, m, before, OwnTypes[p] \o DefaultTypes[p])
<1> DEFINE qs == OwnTypes[p] \o DefaultTypes[p]
           K == {k \in 1..Len(qs) : NodeOf(m, before, qs[k]) \in TmapCode}
           L == {k \in 1..Len(qs) : <<m, Append(before, qs[k])>> \in DOMAIN rules}
<1>1. ASSUME NEW q
      PROVE  /\ NodeOf(m, before, q) \in TmapCode <=> <<m, Append(before, q)>> \in DOMAIN rules
             /\ <<m, Append(before, q)>> \in DOMAIN rules =>
                    rules[<<m, Append(before, q)>>] = NodeOf(m, before, q)
    <2> DEFINE key == <<m, Append(before, q)>>
    <2>1. NodeOf(m, before, q) = IF key \in DOMAIN tmaps THEN tmaps[key] ELSE NoNode
        BY DEF NodeOf, get_typemap
    <2>2. key \in DOMAIN tmaps => tmaps[key] \in TmapCode \cup {NoCode}
        BY DEF MapInv, MapTypeOK
    <2>3. /\ key \in DOMAIN rules <=> key \in DOMAIN tmaps /\ tmaps[key] # NoCode
          /\ key \in DOMAIN rules => rules[key] = tmaps[key]
        BY DEF MapInv, RulesAreNodes
    <2>4. NoNode \notin TmapCode /\ NoCode \notin TmapCode
        BY TypemapAssumption
    <2>5. QED
        BY <2>1, <2>2, <2>3, <2>4
<1>2. K = L
    BY <1>1
<1>3. SelectInSeq(qs, LAMBDA q : NodeOf(m, before, q) \in TmapCode) =
      IF K # {} THEN Min(K) ELSE 0
    BY DEF SelectInSeq
<1>4. SelectInSeq(qs, LAMBDA q : <<m, Append(before, q)>> \in DOMAIN rules) =
      IF L # {} THEN Min(L) ELSE 0
    BY DEF SelectInSeq
<1> DEFINE k == IF K # {} THEN Min(K) ELSE 0
<1>5. /\ FirstWith(TmapCode, m, before, qs) = IF k = 0 THEN NoNode ELSE NodeOf(m, before, qs[k])
      /\ Rule(m, before, p) = IF k = 0 THEN NoNode ELSE rules[<<m, Append(before, qs[k])>>]
    <2>1. SelectInSeq(qs, LAMBDA q : NodeOf(m, before, q) \in TmapCode) = k
        BY <1>3
    <2>2. SelectInSeq(qs, LAMBDA q : <<m, Append(before, q)>> \in DOMAIN rules) = k
        BY <1>2, <1>4
    <2> HIDE DEF k
    <2>3. FirstWith(TmapCode, m, before, qs) = IF k = 0 THEN NoNode ELSE NodeOf(m, before, qs[k])
        BY <2>1 DEF FirstWith
    <2>4. Rule(m, before, p) = IF k = 0 THEN NoNode ELSE rules[<<m, Append(before, qs[k])>>]
        BY <2>2 DEF Rule
    <2>5. QED
        BY <2>3, <2>4
<1>6. k # 0 => <<m, Append(before, qs[k])>> \in DOMAIN rules
    <2>1. K \in SUBSET Nat
        <3>1. K \subseteq 1..Len(qs)
            OBVIOUS
        <3>2. 1..Len(qs) \subseteq Nat
            <4>1. OwnTypes[p] \in Seq(Parm) /\ DefaultTypes[p] \in Seq(Parm)
                BY TypemapAssumption
            <4>2. qs \in Seq(Parm)
                BY <4>1, ConcatProperties
            <4> HIDE DEF qs
            <4>3. Len(qs) \in Nat
                BY <4>2
            <4>4. QED
                BY <4>3
        <3>3. QED
            BY <3>1, <3>2
    <2>2. K # {} => Min(K) \in K
        <3> HIDE DEF K
        <3>1. QED
            BY <2>1, MinIs
    <2>3. QED
        BY <1>2, <2>2
<1> HIDE DEF k, qs
<1>7. FirstWith(TmapCode, m, before, qs) = Rule(m, before, p)
    BY <1>1, <1>5, <1>6
<1>8. QED
    BY <1>7 DEF qs

\* One list behind the other.
LEMMA Concatenated ==
    ASSUME NEW s \in Seq(Parm), NEW t \in Seq(Parm)
    PROVE  /\ s \o t \in Seq(Parm) /\ Len(s \o t) = Len(s) + Len(t)
           /\ \A k \in 1..Len(s) : k \in 1..Len(s \o t) /\ (s \o t)[k] = s[k]
           /\ \A k \in 1..Len(t) : /\ Len(s) + k \in 1..Len(s \o t)
                                  /\ (s \o t)[Len(s) + k] = t[k]
           /\ \A k \in 1..Len(s \o t) : k \in 1..Len(s) \/ k - Len(s) \in 1..Len(t)
<1> DEFINE u == s \o t
           a == Len(s)
           b == Len(t)
<1>1. a \in Nat /\ b \in Nat
    OBVIOUS
<1>2. /\ u \in Seq(Parm) /\ Len(u) = a + b
      /\ \A i \in 1..(a + b) : u[i] = IF i <= a THEN s[i] ELSE t[i - a]
    BY ConcatProperties
<1> HIDE DEF u, a, b
<1>3. \A k \in 1..a : k \in 1..Len(u) /\ u[k] = s[k]
    BY <1>1, <1>2
<1>4. ASSUME NEW k \in 1..b
      PROVE  a + k \in 1..Len(u) /\ u[a + k] = t[k]
    <2> DEFINE i == a + k
    <2>1. i \in 1..(a + b) /\ ~(i <= a) /\ i - a = k
        BY <1>1
    <2> HIDE DEF i
    <2>2. u[i] = t[i - a]
        BY <1>2, <2>1
    <2>3. i \in 1..Len(u) /\ u[i] = t[k]
        BY <1>2, <2>1, <2>2
    <2>4. QED
        BY <2>3 DEF i
<1>5. \A k \in 1..Len(u) : k \in 1..a \/ k - a \in 1..b
    BY <1>1, <1>2
<1>6. QED
    BY <1>2, <1>3, <1>4, <1>5 DEF u, a, b

\* typemap_search() finds the typemap in force, if no node of a default type is without
\* code, and a node if the parameter itself has one.
LEMMA SearchIsRule ==
    ASSUME MapInv, NEW m, NEW before, NEW p \in Parm,
           \A k \in DOMAIN DefaultTypes[p] : NodeOf(m, before, DefaultTypes[p][k]) # NoCode
    PROVE  LET one  == typemap_search(m, before, p)
               rule == Rule(m, before, p)
           IN /\ rule # NoNode => one = rule /\ one \in TmapCode
              /\ rule = NoNode => one \in {NoNode, NoCode}
              /\ <<m, Append(before, p)>> \in DOMAIN tmaps => one # NoNode
<1> DEFINE own == FirstWith(TmapCode, m, before, OwnTypes[p])
           default == FirstWith(TmapCode \cup {NoCode}, m, before, DefaultTypes[p])
           bare == FirstWith({NoCode}, m, before, OwnTypes[p])
           qs == OwnTypes[p] \o DefaultTypes[p]
           rule == FirstWith(TmapCode, m, before, qs)
           N(q) == NodeOf(m, before, q)
<1>1. NoNode \notin TmapCode /\ NoNode \notin TmapCode \cup {NoCode} /\ NoNode \notin {NoCode}
    BY TypemapAssumption DEF NoNode, NoCode
<1>2. /\ OwnTypes[p] \in Seq(Parm) /\ DefaultTypes[p] \in Seq(Parm)
      /\ OwnTypes[p] # <<>> /\ OwnTypes[p][1] = p
    BY TypemapAssumption
<1>3. /\ Len(OwnTypes[p]) \in Nat /\ Len(DefaultTypes[p]) \in Nat /\ Len(OwnTypes[p]) >= 1
      /\ DOMAIN DefaultTypes[p] = 1..Len(DefaultTypes[p])
    BY <1>2
<1>4. /\ qs \in Seq(Parm) /\ Len(qs) = Len(OwnTypes[p]) + Len(DefaultTypes[p])
      /\ \A k \in 1..Len(qs) : \/ k \in 1..Len(OwnTypes[p])
                                \/ k - Len(OwnTypes[p]) \in 1..Len(DefaultTypes[p])
    BY <1>2, Concatenated
<1>5. Rule(m, before, p) = rule
    BY RuleIsFirst
<1>6. typemap_search(m, before, p) =
      IF own # NoNode THEN own ELSE IF default # NoNode THEN default ELSE bare
    BY DEF typemap_search
<1>7. \/ own = NoNode /\ \A k \in 1..Len(OwnTypes[p]) : N(OwnTypes[p][k]) \notin TmapCode
      \/ \E k \in 1..Len(OwnTypes[p]) : /\ own = N(OwnTypes[p][k]) /\ N(OwnTypes[p][k]) \in TmapCode
                                   /\ \A l \in 1..(k - 1) : N(OwnTypes[p][l]) \notin TmapCode
    BY <1>1, <1>2, FirstWithIs
<1>8. \/ /\ default = NoNode
         /\ \A k \in 1..Len(DefaultTypes[p]) : N(DefaultTypes[p][k]) \notin TmapCode \cup {NoCode}
      \/ \E k \in 1..Len(DefaultTypes[p]) :
            /\ default = N(DefaultTypes[p][k]) /\ N(DefaultTypes[p][k]) \in TmapCode \cup {NoCode}
            /\ \A l \in 1..(k - 1) : N(DefaultTypes[p][l]) \notin TmapCode \cup {NoCode}
    BY <1>1, <1>2, FirstWithIs
<1>9. \/ bare = NoNode /\ \A k \in 1..Len(OwnTypes[p]) : N(OwnTypes[p][k]) # NoCode
      \/ bare = NoCode
    <2>1. \/ bare = NoNode /\ \A k \in 1..Len(OwnTypes[p]) : N(OwnTypes[p][k]) \notin {NoCode}
          \/ \E k \in 1..Len(OwnTypes[p]) :
                /\ bare = N(OwnTypes[p][k]) /\ N(OwnTypes[p][k]) \in {NoCode}
                /\ \A l \in 1..(k - 1) : N(OwnTypes[p][l]) \notin {NoCode}
        BY <1>1, <1>2, FirstWithIs
    <2>2. QED
        BY <2>1
<1>10. \/ rule = NoNode /\ \A k \in 1..Len(qs) : N(qs[k]) \notin TmapCode
       \/ \E k \in 1..Len(qs) : /\ rule = N(qs[k]) /\ N(qs[k]) \in TmapCode
                                /\ \A l \in 1..(k - 1) : N(qs[l]) \notin TmapCode
    BY <1>1, <1>4, FirstWithIs
<1> HIDE DEF own, default, bare, qs, rule, N
<1>11. \A k \in 1..Len(OwnTypes[p]) : qs[k] = OwnTypes[p][k] /\ k \in 1..Len(qs)
    BY <1>2, Concatenated DEF qs
<1>12. \A k \in 1..Len(DefaultTypes[p]) : /\ qs[Len(OwnTypes[p]) + k] = DefaultTypes[p][k]
                                     /\ Len(OwnTypes[p]) + k \in 1..Len(qs)
    BY <1>2, Concatenated DEF qs
<1>13. \A k \in 1..Len(DefaultTypes[p]) : N(DefaultTypes[p][k]) # NoCode
    BY <1>3 DEF N
<1> USE DEF N
<1>14. N(p) # NoNode <=> <<m, Append(before, p)>> \in DOMAIN tmaps
    <2>1. <<m, Append(before, p)>> \in DOMAIN tmaps =>
              tmaps[<<m, Append(before, p)>>] \in TmapCode \cup {NoCode}
        BY DEF MapInv, MapTypeOK
    <2>2. QED
        BY <1>1, <2>1 DEF NodeOf, get_typemap
<1>15. N(p) # NoNode => N(p) \in TmapCode \cup {NoCode}
    BY DEF NodeOf, get_typemap, MapInv, MapTypeOK
<1>16. 1 \in 1..Len(OwnTypes[p])
    BY <1>3
<1> HIDE DEF N
<1>17. CASE own # NoNode
    <2>1. PICK k \in 1..Len(OwnTypes[p]) : /\ own = N(OwnTypes[p][k]) /\ N(OwnTypes[p][k]) \in TmapCode
                                      /\ \A l \in 1..(k - 1) : N(OwnTypes[p][l]) \notin TmapCode
        BY <1>7, <1>17
    <2>2. PICK j \in 1..Len(qs) : /\ rule = N(qs[j]) /\ N(qs[j]) \in TmapCode
                                  /\ \A l \in 1..(j - 1) : N(qs[l]) \notin TmapCode
        BY <1>10, <1>11, <2>1
    <2>3. j <= k
        <3>1. k \notin 1..(j - 1)
            BY <1>11, <2>1, <2>2
        <3>2. QED
            BY <1>3, <1>4, <3>1
    <2>4. j \in 1..Len(OwnTypes[p])
        BY <1>3, <2>3
    <2>5. k <= j
        BY <1>3, <1>11, <2>1, <2>2, <2>4
    <2>6. k = j
        BY <1>3, <2>3, <2>4, <2>5
    <2>7. own = rule
        BY <1>11, <2>1, <2>2, <2>6
    <2>8. QED
        BY <1>1, <1>5, <1>6, <1>17, <2>1, <2>7
<1>18. CASE own = NoNode /\ default # NoNode
    <2>0. \A k \in 1..Len(OwnTypes[p]) : N(OwnTypes[p][k]) \notin TmapCode
        BY <1>1, <1>7, <1>18
    <2>1. PICK k \in 1..Len(DefaultTypes[p]) :
              /\ default = N(DefaultTypes[p][k]) /\ N(DefaultTypes[p][k]) \in TmapCode
              /\ \A l \in 1..(k - 1) : N(DefaultTypes[p][l]) \notin TmapCode
        BY <1>8, <1>13, <1>18
    <2>2. PICK j \in 1..Len(qs) : /\ rule = N(qs[j]) /\ N(qs[j]) \in TmapCode
                                  /\ \A l \in 1..(j - 1) : N(qs[l]) \notin TmapCode
        BY <1>10, <1>12, <2>1
    <2>3. j <= Len(OwnTypes[p]) + k
        <3>1. Len(OwnTypes[p]) + k \notin 1..(j - 1)
            BY <1>12, <2>1, <2>2
        <3>2. QED
            BY <1>3, <1>4, <3>1
    <2>4. j > Len(OwnTypes[p])
        <3>1. j \notin 1..Len(OwnTypes[p])
            BY <1>11, <2>0, <2>2
        <3>2. QED
            BY <1>3, <1>4, <3>1
    <2> DEFINE i == j - Len(OwnTypes[p])
    <2>5. i \in 1..Len(DefaultTypes[p]) /\ i <= k /\ j = Len(OwnTypes[p]) + i /\ i \in Nat
        BY <1>3, <1>4, <2>3, <2>4
    <2> HIDE DEF i
    <2>6. N(DefaultTypes[p][i]) \in TmapCode
        BY <1>12, <2>2, <2>5
    <2>7. i = k
        <3>1. i \notin 1..(k - 1)
            BY <2>1, <2>6
        <3>2. QED
            BY <1>3, <2>5, <3>1
    <2>8. default = rule
        BY <1>12, <2>1, <2>2, <2>5, <2>7
    <2>9. QED
        BY <1>1, <1>5, <1>6, <1>18, <2>1, <2>8
<1>19. CASE own = NoNode /\ default = NoNode
    <2>1. \A k \in 1..Len(OwnTypes[p]) : N(OwnTypes[p][k]) \notin TmapCode
        BY <1>1, <1>7, <1>19
    <2>2. \A k \in 1..Len(DefaultTypes[p]) : N(DefaultTypes[p][k]) \notin TmapCode
        BY <1>1, <1>8, <1>19
    <2>3. ASSUME NEW k \in 1..Len(qs)
          PROVE  N(qs[k]) \notin TmapCode
        <3>1. CASE k \in 1..Len(OwnTypes[p])
            BY <1>11, <2>1, <3>1
        <3>2. CASE k - Len(OwnTypes[p]) \in 1..Len(DefaultTypes[p])
            <4>1. k = Len(OwnTypes[p]) + (k - Len(OwnTypes[p]))
                BY <1>3
            <4>2. QED
                BY <1>12, <2>2, <3>2, <4>1
        <3>3. QED
            BY <1>4, <3>1, <3>2
    <2>4. rule = NoNode
        BY <1>10, <2>3
    <2>5. N(p) # NoNode => bare = NoCode
        BY <1>2, <1>9, <1>15, <1>16, <2>1
    <2>6. NoCode # NoNode
        BY <1>1
    <2>7. bare \in {NoNode, NoCode}
        BY <1>9
    <2>8. QED
        BY <1>5, <1>6, <1>14, <1>19, <2>4, <2>5, <2>6, <2>7
<1>20. QED
    BY <1>17, <1>18, <1>19

\* the typemap in force for the parameter at k of a list
RuleAt(m, ps, k) == Rule(m, SubSeq(ps, 1, k - 1), ps[k])

RulesFrom(m, ps, k) == {n \in k..Len(ps) : RuleAt(m, ps, n) # NoNode}

\* what is found from the parameter at k on
LongestFrom(m, ps, k) ==
    IF RulesFrom(m, ps, k) = {} THEN NoTypemap
    ELSE [code |-> RuleAt(m, ps, Max(RulesFrom(m, ps, k))),
          n    |-> Max(RulesFrom(m, ps, k)) - k + 1]

\* what a call of typemap_search_multi() makes of the one for the rest of the list
Makes(m, ps, k, more) ==
    LET one  == typemap_search(m, SubSeq(ps, 1, k - 1), ps[k])
        code == IF more.code = NoNode THEN one ELSE more.code
    IN IF one = NoNode \/ code = NoCode THEN NoTypemap ELSE [code |-> code, n |-> more.n + 1]

\* Where a typemap for several parameters is found, the search for each parameter in front
\* of the last one comes to a node.
LEMMA NodesInFront ==
    ASSUME MapInv, NEW m, NEW ps \in Seq(Parm), NEW n \in 1..Len(ps),
           RuleAt(m, ps, n) # NoNode, NEW k \in 1..(n - 1)
    PROVE  <<m, Append(SubSeq(ps, 1, k - 1), ps[k])>> \in DOMAIN tmaps
<1> DEFINE B == SubSeq(ps, 1, n - 1)
<1>1. Len(ps) \in Nat /\ n \in Nat /\ k \in Nat /\ \A i \in 1..Len(ps) : ps[i] \in Parm
    OBVIOUS
<1>2. B \in Seq(Parm) /\ Len(B) = n - 1 /\ k \in 1..Len(B)
    <2>1. \A i \in 1..(n - 1) : ps[i] \in Parm
        BY <1>1
    <2>2. n - 1 \in Int /\ 1 <= n - 1 /\ n - 1 - 1 + 1 = n - 1
        BY <1>1
    <2>3. B \in Seq(Parm) /\ Len(B) = IF 1 <= n - 1 THEN n - 1 - 1 + 1 ELSE 0
        BY <2>1, <2>2, SubSeqProperties
    <2> HIDE DEF B
    <2>4. QED
        BY <2>2, <2>3
<1>3. PICK q \in Parm : <<m, Append(B, q)>> \in DOMAIN tmaps
    <2>1. ps[n] \in Parm
        BY <1>1
    <2>2. OwnTypes[ps[n]] \in Seq(Parm) /\ DefaultTypes[ps[n]] \in Seq(Parm) /\ NoNode \notin TmapCode
        BY <2>1, TypemapAssumption
    <2> DEFINE qs == OwnTypes[ps[n]] \o DefaultTypes[ps[n]]
    <2>3. qs \in Seq(Parm)
        BY <2>2, Concatenated
    <2>4. FirstWith(TmapCode, m, B, qs) # NoNode
        BY <2>1, RuleIsFirst DEF RuleAt
    <2> HIDE DEF qs, B
    <2>5. PICK j \in 1..Len(qs) : NodeOf(m, B, qs[j]) \in TmapCode
        BY <2>2, <2>3, <2>4, FirstWithIs
    <2>6. qs[j] \in Parm
        BY <2>3
    <2>7. <<m, Append(B, qs[j])>> \in DOMAIN tmaps
        BY <2>2, <2>5 DEF NodeOf, get_typemap
    <2>8. QED
        BY <2>6, <2>7
<1>4. <<m, SubSeq(Append(B, q), 1, k)>> \in DOMAIN tmaps
    <2> DEFINE s == Append(B, q)
    <2>1. Len(s) = n
        BY <1>1, <1>2, AppendProperties
    <2>2. Leading(m, s) \subseteq DOMAIN tmaps
        <3> HIDE DEF s
        <3>1. <<m, s>> \in DOMAIN tmaps
            BY <1>3 DEF s
        <3>2. <<m, s>>[1] = m /\ <<m, s>>[2] = s
            OBVIOUS
        <3>3. QED
            BY <3>1, <3>2 DEF MapInv, PartsHaveNodes
    <2> HIDE DEF s
    <2>3. k \in 1..Len(s)
        BY <1>1, <2>1
    <2>4. <<m, SubSeq(s, 1, k)>> \in Leading(m, s)
        BY <2>3 DEF Leading
    <2>5. QED
        BY <2>2, <2>4 DEF s
<1>5. SubSeq(Append(B, q), 1, k) = SubSeq(B, 1, k)
    <2>1. Append(B, q) = B \o <<q>> /\ <<q>> \in Seq(Parm)
        BY <1>2, AppendIsConcat
    <2>2. 1 \in 1..Len(B)
        BY <1>1, <1>2
    <2>3. SubSeq(B \o <<q>>, 1, k) = SubSeq(B, 1, k)
        BY <1>2, <2>1, <2>2, SubSeqOfConcat1
    <2>4. QED
        BY <2>1, <2>3
<1>6. SubSeq(B, 1, k) = SubSeq(ps, 1, k)
    <2>1. 1 \in 1..Len(ps) /\ n - 1 \in 1..Len(ps)
        BY <1>1
    <2>2. 1 \in 1..(n - 1 - 1 + 1) /\ k \in 1..(n - 1 - 1 + 1)
        BY <1>1
    <2>3. SubSeq(SubSeq(ps, 1, n - 1), 1, k) = SubSeq(ps, 1 + 1 - 1, 1 + k - 1)
        BY <2>1, <2>2, SubSeqOfSubSeq
    <2>4. 1 + 1 - 1 = 1 /\ 1 + k - 1 = k
        BY <1>1
    <2>5. QED
        BY <2>3, <2>4
<1>7. SubSeq(ps, 1, k) = Append(SubSeq(ps, 1, k - 1), ps[k])
    <2>1. 1 \in 1..Len(ps) /\ k \in 1..Len(ps)
        BY <1>1
    <2>2. SubSeq(ps, 1, k) = SubSeq(ps, 1, k - 1) \o <<ps[k]>>
        BY <2>1, SubSeqRecursiveSecond
    <2>3. \A i \in 1..(k - 1) : ps[i] \in Parm
        BY <1>1
    <2>4. SubSeq(ps, 1, k - 1) \in Seq(Parm)
        BY <1>1, <2>3, SubSeqProperties
    <2>5. ps[k] \in Parm
        BY <1>1, <2>1
    <2>6. QED
        BY <2>2, <2>4, <2>5, AppendIsConcat
<1>8. QED
    BY <1>4, <1>5, <1>6, <1>7

\* One call of typemap_search_multi().
LEMMA OneCallFinds ==
    ASSUME MapInv, NEW m \in TmapMethod, NEW ps \in Seq(Parm), ~Hides(m, ps),
           NEW k \in 1..Len(ps)
    PROVE  Makes(m, ps, k, LongestFrom(m, ps, k + 1)) = LongestFrom(m, ps, k)
<1> DEFINE B == SubSeq(ps, 1, k - 1)
           one == typemap_search(m, B, ps[k])
           rest == RulesFrom(m, ps, k + 1)
           all == RulesFrom(m, ps, k)
<1>1. Len(ps) \in Nat /\ k \in Nat /\ k >= 1 /\ ps[k] \in Parm
    OBVIOUS
<1>2. NoNode \notin TmapCode /\ NoCode \notin TmapCode
    BY TypemapAssumption
<1>3. /\ RuleAt(m, ps, k) # NoNode => one = RuleAt(m, ps, k) /\ one \in TmapCode
      /\ RuleAt(m, ps, k) = NoNode => one \in {NoNode, NoCode}
      /\ <<m, Append(B, ps[k])>> \in DOMAIN tmaps => one # NoNode
    <2>1. \A j \in DOMAIN DefaultTypes[ps[k]] : NodeOf(m, B, DefaultTypes[ps[k]][j]) # NoCode
        BY DEF Hides
    <2> HIDE DEF B
    <2>2. /\ Rule(m, B, ps[k]) # NoNode => one = Rule(m, B, ps[k]) /\ one \in TmapCode
          /\ Rule(m, B, ps[k]) = NoNode => one \in {NoNode, NoCode}
          /\ <<m, Append(B, ps[k])>> \in DOMAIN tmaps => one # NoNode
        BY <1>1, <2>1, SearchIsRule
    <2>3. QED
        BY <2>2 DEF RuleAt, B
<1>4. /\ rest \subseteq all /\ all \subseteq rest \cup {k}
      /\ k \in all <=> RuleAt(m, ps, k) # NoNode
      /\ rest \subseteq (k + 1)..Len(ps)
    BY <1>1 DEF RulesFrom
<1>5. rest \in SUBSET (1..Len(ps)) /\ all \in SUBSET (1..Len(ps))
    BY <1>1 DEF RulesFrom
<1>6. Makes(m, ps, k, LongestFrom(m, ps, k + 1)) =
      LET more == LongestFrom(m, ps, k + 1)
          code == IF more.code = NoNode THEN one ELSE more.code
      IN IF one = NoNode \/ code = NoCode THEN NoTypemap ELSE [code |-> code, n |-> more.n + 1]
    BY DEF Makes
<1>7. CASE rest # {}
    <2> DEFINE n == Max(rest)
    <2>1. n \in rest /\ \A j \in rest : n >= j
        <3> HIDE DEF rest
        <3>1. QED
            BY <1>1, <1>5, <1>7, MaxIs
    <2>2. n \in Nat /\ n > k /\ n \in 1..Len(ps) /\ k \in 1..(n - 1)
        BY <1>1, <1>4, <2>1
    <2>3. Max(all) = n
        <3>1. all # {} /\ n \in all /\ \A j \in all : n >= j
            <4>1. \A j \in rest \cup {k} : n >= j
                BY <1>1, <2>1, <2>2
            <4>2. QED
                BY <1>4, <2>1, <4>1
        <3> HIDE DEF all, n
        <3>2. Max(all) \in all /\ \A j \in all : Max(all) >= j
            BY <1>1, <1>5, <3>1, MaxIs
        <3>3. Max(all) >= n /\ n >= Max(all)
            BY <3>1, <3>2
        <3>4. Max(all) \in 1..Len(ps)
            BY <1>5, <3>2
        <3>5. QED
            BY <1>1, <2>2, <3>3, <3>4
    <2>4. RuleAt(m, ps, n) # NoNode
        BY <2>1 DEF RulesFrom
    <2>5. RuleAt(m, ps, n) \in TmapCode
        <3>1. ps[n] \in Parm
            BY <2>2
        <3>2. OwnTypes[ps[n]] \in Seq(Parm) /\ DefaultTypes[ps[n]] \in Seq(Parm)
            BY <3>1, TypemapAssumption
        <3>3. OwnTypes[ps[n]] \o DefaultTypes[ps[n]] \in Seq(Parm)
            BY <3>2, Concatenated
        <3> DEFINE C == SubSeq(ps, 1, n - 1)
                   qs == OwnTypes[ps[n]] \o DefaultTypes[ps[n]]
        <3>4. RuleAt(m, ps, n) = FirstWith(TmapCode, m, C, qs)
            BY <3>1, RuleIsFirst DEF RuleAt
        <3> HIDE DEF C, qs, n
        <3>5. FirstWith(TmapCode, m, C, qs) # NoNode => FirstWith(TmapCode, m, C, qs) \in TmapCode
            <4>1. qs \in Seq(Parm)
                BY <3>3 DEF qs
            <4>2. QED
                BY <1>2, <4>1, FirstWithIs
        <3>6. QED
            BY <2>4, <3>4, <3>5
    <2>6. one # NoNode
        BY <1>3, <2>2, <2>4, NodesInFront
    <2>7. LongestFrom(m, ps, k + 1) = [code |-> RuleAt(m, ps, n), n |-> n - (k + 1) + 1]
        BY <1>7 DEF LongestFrom
    <2>8. all # {}
        BY <1>4, <1>7
    <2>9. LongestFrom(m, ps, k) = [code |-> RuleAt(m, ps, n), n |-> n - k + 1]
        BY <2>3, <2>8 DEF LongestFrom
    <2>10. n - (k + 1) + 1 + 1 = n - k + 1
        BY <1>1, <2>2
    <2> HIDE DEF n, one, rest, all
    <2>11. QED
        BY <1>2, <1>6, <2>4, <2>5, <2>6, <2>7, <2>9, <2>10
<1>8. CASE rest = {}
    <2>1. LongestFrom(m, ps, k + 1) = NoTypemap
        BY <1>8 DEF LongestFrom
    <2>2. Makes(m, ps, k, LongestFrom(m, ps, k + 1)) =
          IF one \in {NoNode, NoCode} THEN NoTypemap ELSE [code |-> one, n |-> 1]
        <3> HIDE DEF one
        <3>1. QED
            BY <1>6, <2>1 DEF NoTypemap
    <2>3. CASE RuleAt(m, ps, k) = NoNode
        <3>1. all = {}
            BY <1>4, <1>8, <2>3
        <3>2. LongestFrom(m, ps, k) = NoTypemap
            BY <3>1 DEF LongestFrom
        <3>3. QED
            BY <1>3, <2>2, <2>3, <3>2
    <2>4. CASE RuleAt(m, ps, k) # NoNode
        <3>1. all = {k}
            BY <1>4, <1>8, <2>4
        <3>2. Max({k}) = k
            BY <1>1 DEF Max
        <3>3. LongestFrom(m, ps, k) = [code |-> RuleAt(m, ps, k), n |-> k - k + 1]
            BY <3>1, <3>2 DEF LongestFrom
        <3>4. k - k + 1 = 1
            BY <1>1
        <3> HIDE DEF one
        <3>5. QED
            BY <1>2, <1>3, <2>2, <2>4, <3>3, <3>4
    <2>5. QED
        BY <2>3, <2>4
<1>9. QED
    BY <1>7, <1>8

\* typemap_search_multi() finds the typemap in force for the most parameters.
LEMMA MultiFindsLongest ==
    ASSUME MapInv, NEW m \in TmapMethod, NEW ps \in Seq(Parm), ~Hides(m, ps)
    PROVE  typemap_search_multi(m, ps) = LongestFrom(m, ps, 1)
<1> DEFINE L == Len(ps)
           G(k) == LongestFrom(m, ps, k)
           Is(u) == u = [k \in 1..(L + 1) |->
                            IF k > L THEN NoTypemap ELSE Makes(m, ps, k, u[k + 1])]
           g == [k \in 1..(L + 1) |-> G(k)]
           from == CHOOSE u : Is(u)
<1>1. L \in Nat
    OBVIOUS
<1>2. typemap_search_multi(m, ps) = from[1]
    BY DEF typemap_search_multi, Makes
<1>3. \A k \in 1..L : Makes(m, ps, k, G(k + 1)) = G(k)
    BY OneCallFinds
<1>4. G(L + 1) = NoTypemap
    <2>1. RulesFrom(m, ps, L + 1) = {}
        <3>1. (L + 1)..L = {}
            BY <1>1
        <3>2. QED
            BY <3>1 DEF RulesFrom
    <2>2. QED
        BY <2>1 DEF LongestFrom
<1> HIDE DEF G, L
<1>5. Is(g)
    <2> DEFINE h == [k \in 1..(L + 1) |-> IF k > L THEN NoTypemap ELSE Makes(m, ps, k, g[k + 1])]
    <2>1. ASSUME NEW k \in 1..(L + 1)
          PROVE  G(k) = IF k > L THEN NoTypemap ELSE Makes(m, ps, k, g[k + 1])
        <3>1. CASE k > L
            <4>1. k = L + 1
                BY <1>1, <3>1
            <4>2. QED
                BY <1>4, <3>1, <4>1
        <3>2. CASE ~(k > L)
            <4>1. k \in 1..L /\ k + 1 \in 1..(L + 1)
                BY <1>1, <3>2
            <4>2. g[k + 1] = G(k + 1)
                BY <4>1
            <4>3. QED
                BY <1>3, <3>2, <4>1, <4>2
        <3>3. QED
            BY <3>1, <3>2
    <2>2. g = h
        BY <2>1
    <2>3. QED
        BY <2>2
<1>6. Is(from)
    <2> HIDE DEF Is, g
    <2>1. QED
        BY <1>5
<1> HIDE DEF from, g
<1>7. \A k \in 1..(L + 1) : from[k] = IF k > L THEN NoTypemap ELSE Makes(m, ps, k, from[k + 1])
    BY <1>6
<1>8. \A k \in 1..(L + 1) : from[k] = G(k)
    <2> SUFFICES ASSUME NEW c \in 1..(L + 1), from[c] # G(c)
                 PROVE  FALSE
        OBVIOUS
    <2> DEFINE T == {d \in 0..L : from[L + 1 - d] # G(L + 1 - d)}
    <2>1. L + 1 - c \in T
        <3>1. L + 1 - c \in 0..L /\ L + 1 - (L + 1 - c) = c
            BY <1>1
        <3>2. QED
            BY <3>1
    <2>2. PICK d \in T : \A e \in T : d <= e
        <3>1. T \in SUBSET Nat /\ T # {}
            <4>1. T \subseteq 0..L /\ 0..L \subseteq Nat
                BY <1>1
            <4> HIDE DEF T
            <4>2. QED
                BY <2>1, <4>1
        <3> HIDE DEF T
        <3>2. QED
            BY <3>1, LeastNumber
    <2> DEFINE k == L + 1 - d
    <2>3. d \in 0..L /\ from[k] # G(k) /\ k \in 1..(L + 1)
        BY <1>1, <2>2
    <2>4. CASE d = 0
        <3>1. k = L + 1 /\ k > L
            BY <1>1, <2>4
        <3>2. QED
            BY <1>4, <1>7, <2>3, <3>1
    <2>5. CASE d # 0
        <3>1. d - 1 \in 0..L /\ ~(d <= d - 1) /\ L + 1 - (d - 1) = k + 1 /\ k \in 1..L /\ ~(k > L)
            BY <1>1, <2>3, <2>5
        <3>2. d - 1 \notin T
            BY <2>2, <3>1
        <3>3. from[k + 1] = G(k + 1)
            BY <3>1, <3>2
        <3> HIDE DEF k, T
        <3>4. QED
            BY <1>3, <1>7, <2>3, <3>1, <3>3
    <2>6. QED
        BY <2>4, <2>5
<1>9. 1 \in 1..(L + 1)
    BY <1>1
<1>10. QED
    BY <1>2, <1>8, <1>9 DEF G

\* typemap_search() and typemap_search_multi(), for any directives, types and lists of
\* parameters: what is found is the first typemap in force, for as many parameters as
\* possible, and nodes without code do not hide it unless they are of default types.
THEOREM SearchStaysRight == MapSpec => []SearchIsRight
<1>1. ASSUME MapInv
      PROVE  SearchIsRight
    <2> SUFFICES ASSUME NEW m \in TmapMethod, NEW ps \in Asked, ~Hides(m, ps)
                 PROVE  LET found == {n \in 1..Len(ps) : Rule(m, SubSeq(ps, 1, n - 1), ps[n]) # NoNode}
                            n     == Max(found)
                        IN typemap_search_multi(m, ps) =
                               IF found = {} THEN NoTypemap
                               ELSE [code |-> Rule(m, SubSeq(ps, 1, n - 1), ps[n]), n |-> n]
        BY DEF SearchIsRight
    <2>1. ps \in Seq(Parm) /\ Len(ps) \in Nat
        BY TypemapAssumption
    <2>2. typemap_search_multi(m, ps) = LongestFrom(m, ps, 1)
        BY <1>1, <2>1, MultiFindsLongest
    <2> DEFINE found == RulesFrom(m, ps, 1)
               n == Max(found)
    <2>3. found = {j \in 1..Len(ps) : Rule(m, SubSeq(ps, 1, j - 1), ps[j]) # NoNode}
        BY DEF RulesFrom, RuleAt
    <2>4. found # {} => n \in Nat /\ n - 1 + 1 = n
        <3>1. found \in SUBSET (1..Len(ps))
            BY <2>3
        <3> HIDE DEF found
        <3>2. found # {} => n \in 1..Len(ps)
            BY <2>1, <3>1, MaxIs
        <3> HIDE DEF n
        <3>3. QED
            BY <2>1, <3>2
    <2>5. LongestFrom(m, ps, 1) =
          IF found = {} THEN NoTypemap
          ELSE [code |-> Rule(m, SubSeq(ps, 1, n - 1), ps[n]), n |-> n - 1 + 1]
        BY DEF LongestFrom, RuleAt
    <2> HIDE DEF found, n
    <2>6. typemap_search_multi(m, ps) =
          IF found = {} THEN NoTypemap
          ELSE [code |-> Rule(m, SubSeq(ps, 1, n - 1), ps[n]), n |-> n]
        BY <2>2, <2>4, <2>5
    <2>7. QED
        BY <2>3, <2>6 DEF n
<1>2. QED
    BY <1>1, MapStarts, MapKeeps, PTL DEF MapSpec

\* The nested tables of typemap.c, for any directives: a node for several parameters has
\* one for each leading part of them, and codes are where a typemap is in force.
THEOREM TablesOfTypemaps == MapSpec => [](MapTypeOK /\ RulesAreNodes /\ PartsHaveNodes)
BY MapStarts, MapKeeps, PTL DEF MapSpec, MapInv
=============================================================================
