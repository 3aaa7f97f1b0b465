----------------------------- MODULE MCTypeTable -----------------------------
(* Instances of TypeTable for TLC with modules that are loaded in several     *)
(* interpreters or know no inheritance; MCSwig has the one with everything.   *)
(* The types: 1 a base class, 2 a class derived from it, 3 another class.     *)
EXTENDS TypeTable, TLC

CONSTANTS i1, i2, A, B, C

TwoInterps   == {i1, i2}
TwoModules   == {A, B}
ThreeModules == {A, B, C}

\* modules that share no type
Apart == [m \in Module |-> CASE m = A -> 1 :> <<1>> [] m = B -> 2 :> <<2>>
                             [] m = C -> 3 :> <<3>>]

\* A knows both classes by name, B that one is the base of the other: the instance for
\* which CastsAreCorrect fails (see README.md)
Opaque == [m \in Module |->
    IF m = A THEN (1 :> <<1>>) @@ (2 :> <<2>>) ELSE (1 :> <<1, 2>>) @@ (2 :> <<2>>)]

NamesApart  == [m \in Module |-> CASE m = A -> <<1>> [] m = B -> <<2>> [] m = C -> <<3>>]
BothNames == [m \in Module |-> <<1, 2>>]

NoClasses == [m \in Module |-> {}]
SameName == {<<n, n>> : n \in 1..3}
==============================================================================
