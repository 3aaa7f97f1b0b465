------------------------------ MODULE MCCCache ------------------------------
(* Instances of CCache for TLC. *)
EXTENDS CCache, TLC

CONSTANTS t1, t2, k1, k2, k3, k4

OneTree  == {t1}
TwoTrees == {t1, t2}
OneKey   == {k1}
TwoKeys  == {k1, k2}
FourKeys == {k1, k2, k3, k4}

Plain == [zlib |-> FALSE, nocompress |-> FALSE, hardlink |-> FALSE,
          readonly |-> FALSE, recache |-> FALSE, input |-> "cpp"]
Zlib     == [Plain EXCEPT !.zlib = TRUE]
HardLink == [Plain EXCEPT !.nocompress = TRUE, !.hardlink = TRUE]

AllPlain    == [t \in Tree |-> Plain]
AllZlib     == [t \in Tree |-> Zlib]
\* environments for which the cache is not transparent (see README.md)
AllHardLink == [t \in Tree |-> HardLink]
AllCpp2     == [t \in Tree |-> [Plain EXCEPT !.input = "cpp2"]]
PlainAndZlib == [t \in Tree |-> IF t = t1 THEN Plain ELSE Zlib]
CppAndCpp2   == [t \in Tree |-> IF t = t1 THEN Plain
                                ELSE [Plain EXCEPT !.input = "cpp2"]]
ReaderAndRecacher == [t \in Tree |-> IF t = t1 THEN [HardLink EXCEPT !.readonly = TRUE]
                                     ELSE [HardLink EXCEPT !.recache = TRUE]]

AllOk       == [k \in Key |-> "ok"]
AllVerdicts == [k \in Key |-> CASE k = k1 -> "ok"   [] k = k2 -> "fail"
                                [] k = k3 -> "stdout" [] k = k4 -> "cppfail"]

TreeSymmetry == Permutations(Tree)
AllSymmetry  == Permutations(Tree) \cup Permutations(Key)
=============================================================================
