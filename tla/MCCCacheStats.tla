---------------------------- MODULE MCCCacheStats ----------------------------
(* Instances of CCacheStats for TLC: at most three files, two of 1 KB and one of 2. *)
EXTENDS CCacheStats

CONSTANTS p1, p2, a, b, c

Alone  == {p1}
Pair   == {p1, p2}
ThreeFiles == {a, b, c}
OneName    == {a}
Sizes  == [f \in File |-> IF f = c THEN 2 ELSE 1]
None   == {}

\* -F 32 and -M 48: two files and three kilobytes in each subdirectory
TwoEach  == {0, 32}
ThreeKB  == {0, 48}
\* -F 16: one file in each subdirectory
OneEach  == {16}
==============================================================================
