--------------------------- MODULE TypeReductions ---------------------------
(***************************************************************************)
(* The types of a small interface file, and what the functions of stype.c  *)
(* and typesys.c that typemap_search() calls make of them.  Integer is a   *)
(* typedef of int; Foo is a class.                                         *)
(***************************************************************************)
EXTENDS Naturals, Sequences, SequencesExt

Types == {"int", "Integer", "const Integer", "const int", "int [4]", "int [ANY]", "Foo *",
          "SWIGTYPE", "SWIGTYPE *", "SWIGTYPE []", "SWIGTYPE [ANY]"}

\* SwigType_strip_qualifiers(), SwigType_typedef_resolve(), strip_arrays(), where they
\* have a result of their own
stripped(t) == CASE t = "const Integer" -> "Integer" [] t = "const int" -> "int" [] OTHER -> t
resolved(t) == CASE t = "Integer" -> {"int"} [] t = "const Integer" -> {"const int"} [] OTHER -> {}
arrays(t) == CASE t = "int [4]"     -> <<t, "int [ANY]">>
               [] t = "SWIGTYPE []" -> <<t, "SWIGTYPE [ANY]">>
               [] OTHER -> <<t>>

\* SwigType_default(): an array of any dimension, one without, a pointer, anything
SwigType_default(t) ==
    CASE t = "SWIGTYPE" -> {}
      [] t \in {"int [4]", "int [ANY]"} -> {"SWIGTYPE [ANY]"}
      [] t = "SWIGTYPE [ANY]" -> {"SWIGTYPE []"}
      [] t \in {"SWIGTYPE []", "Foo *"} -> {"SWIGTYPE *"}
      [] OTHER -> {"SWIGTYPE"}

\* the types that the loop behind it goes through
RECURSIVE defaults(_)
defaults(t) == FlattenSeq(SetToSeq({<<d>> \o defaults(d) : d \in SwigType_default(t)}))

\* the types that the inner loop of typemap_search() comes to
RECURSIVE Reductions(_)
Reductions(t) ==
    arrays(t) \o (IF stripped(t) # t THEN arrays(stripped(t)) ELSE <<>>)
              \o FlattenSeq(SetToSeq({Reductions(r) : r \in resolved(t)}))

\* each type with the name, if there is one, and without it
WithName(ts, name) ==
    FlattenSeq([k \in DOMAIN ts |-> IF name = "" THEN <<<<ts[k], "">>>>
                                    ELSE <<<<ts[k], name>>, <<ts[k], "">>>>])
=============================================================================
