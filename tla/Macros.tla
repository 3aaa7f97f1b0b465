------------------------------- MODULE Macros -------------------------------
(***************************************************************************)
(* Macros of the preprocessor (Source/Preprocessor/cpp.c).  A text is      *)
(* replaced by walking along it once: find_args() takes the arguments of a *)
(* call out of the same text, expand_macro() walks along the value, with   *)
(* the macro marked as `expanded', and nothing is looked at again.  C      *)
(* rescans the value together with the text behind it.                     *)
(*                                                                         *)
(* A text is a sequence of names and parentheses.  A macro takes one       *)
(* argument or none; # and ##, defined() and SWIG's own %define macros are *)
(* left out.                                                               *)
(***************************************************************************)
EXTENDS Naturals, SequencesExt

CONSTANTS
    Objects, Functions, \* names of macros without and with an argument
    Values,             \* [names -> the values that they may have]
    Texts               \* the texts to look at

VARIABLES symbols,      \* the hash table of macros: [defined names -> value]
          failed        \* an error was reported

vars == <<symbols, failed>>

param == "x"            \* the name of every argument

Init == symbols = << >> /\ failed = FALSE

\* Preprocessor_define(): another value for a defined macro is an error
Define(m, value) ==
    /\ symbols' = IF m \in DOMAIN symbols THEN symbols ELSE (m :> value) @@ symbols
    /\ failed' = (failed \/ (m \in DOMAIN symbols /\ symbols[m] # value))

Preprocessor_undef(m) ==
    /\ symbols' = [n \in (DOMAIN symbols) \ {m} |-> symbols[n]]
    /\ UNCHANGED failed

Next == \E m \in Objects \cup Functions : \/ \E value \in Values[m] : Define(m, value)
                                          \/ Preprocessor_undef(m)

Spec == Init /\ [][Next]_vars

-----------------------------------------------------------------------------
\* the parenthesis that closes the first one of a text; 0 if there is none
Close(s) ==
    LET Depth(n) == Len(SelectSeq(SubSeq(s, 1, n), LAMBDA t : t = "("))
                    - Len(SelectSeq(SubSeq(s, 1, n), LAMBDA t : t = ")"))
        ends == {n \in DOMAIN s : s[n] = ")" /\ Depth(n) = 0}
    IN IF ends = {} THEN 0 ELSE CHOOSE n \in ends : \A k \in ends : n <= k

IsCall(s) == s # << >> /\ s[1] = "("

\* what the C text would be is in doubt from here on: see ExpandsAsC
Doubt == "?"

Substitute(value, arg) ==
    FlattenSeq([n \in DOMAIN value |-> IF value[n] = param THEN arg ELSE <<value[n]>>])

RECURSIVE Preprocessor_replace(_, _)

\* mutant of expand_macro: the value is not looked at
expand_macro_Once(m, arg, expanded) ==
    IF m \in expanded \/ (m \in Functions /\ arg = << >>) THEN <<m>>
    ELSE Substitute(symbols[m], Preprocessor_replace(arg, expanded))

\* expand_macro() with an argument, or << >> for none
expand_macro(m, arg, expanded) ==
    LET reparg == Preprocessor_replace(arg, expanded) IN
    CASE m \in expanded -> <<m>> \o (IF arg = << >> THEN << >> ELSE <<"(">> \o arg \o <<")", Doubt>>)
      [] m \notin expanded /\ m \in Functions /\ arg = << >> -> <<m>>
      [] OTHER -> Preprocessor_replace(Substitute(symbols[m], reparg), expanded \cup {m})
                  \o (IF ToSet(reparg) \cap (DOMAIN symbols \ expanded) # {} THEN <<Doubt>> ELSE << >>)

\* Preprocessor_replace(); `expanded' are the macros that are marked
Preprocessor_replace(s, expanded) ==
    IF s = << >> THEN << >>
    ELSE IF s[1] \notin DOMAIN symbols THEN <<s[1]>> \o Preprocessor_replace(Tail(s), expanded)
    ELSE IF s[1] \in Functions /\ IsCall(Tail(s))
    THEN LET end == IF Close(Tail(s)) = 0 THEN Len(s) + 1 ELSE Close(Tail(s)) + 1
             arg == SubSeq(s, 3, end - 1) IN
         expand_macro(s[1], arg, expanded)
         \o (IF arg = << >> \/ end > Len(s) THEN <<Doubt>> ELSE << >>)
         \o Preprocessor_replace(SubSeq(s, end + 1, Len(s)), expanded)
    ELSE expand_macro(s[1], << >>, expanded)
         \o (IF s[1] \in Functions /\ Len(s) = 1 /\ expanded # {} THEN <<Doubt>> ELSE << >>)
         \o Preprocessor_replace(Tail(s), expanded)

-----------------------------------------------------------------------------
(***************************************************************************)
(* What C asks for (6.10.3): a name is not replaced where it comes from    *)
(* its own replacement, so each token of a text has a set of names.        *)
(***************************************************************************)
Named(s, hidden) == [n \in DOMAIN s |-> <<s[n], hidden>>]
Tokens(ts) == [n \in DOMAIN ts |-> ts[n][1]]

RECURSIVE C_expand(_)
C_expand(ts) ==
    LET m == ts[1][1]
        rest == Tail(ts)
        Hide(s, names) == [n \in DOMAIN s |-> <<s[n][1], s[n][2] \cup names>>]
        value == [n \in DOMAIN symbols[m] |-> <<symbols[m][n], {}>>]
        end == Close(Tokens(rest))
        arg == C_expand(SubSeq(rest, 2, end - 1))
    IN IF ts = << >> THEN << >>
       ELSE IF m \in DOMAIN symbols /\ m \notin ts[1][2] /\ m \in Objects
       THEN C_expand(Hide(value, ts[1][2] \cup {m}) \o rest)
       ELSE IF m \in DOMAIN symbols /\ m \notin ts[1][2] /\ IsCall(Tokens(rest)) /\ end # 0
       THEN C_expand(Hide(FlattenSeq([n \in DOMAIN value |->
                             IF value[n][1] = param THEN arg ELSE <<value[n]>>]),
                          (ts[1][2] \cap rest[end][2]) \cup {m})
                     \o SubSeq(rest, end + 1, Len(rest)))
       ELSE <<ts[1]>> \o C_expand(rest)

-----------------------------------------------------------------------------
\* cpp.c, expand_macro(): a text becomes what C makes of it, whatever the macros call; in
\* doubt are calls without an argument or an end, a call of a macro in its own value, and
\* one whose parentheses are behind the value that has its name.
ExpandsAsC ==
    \A s \in Texts : LET r == Preprocessor_replace(s, {})
                     IN Doubt \in ToSet(r) \/ r = Tokens(C_expand(Named(s, {})))
=============================================================================
