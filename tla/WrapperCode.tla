---------------------------- MODULE WrapperCode ----------------------------
(***************************************************************************)
(* The C function that a language module writes around a wrapped function: *)
(* Source/Modules/emit.cxx and the functionWrapper() of each module.  The  *)
(* function is the code of the typemaps, in the order in which the module  *)
(* emits it.  What a module wrote is a constant record; a behaviour is one *)
(* call of the function it wrote, for a module and parameters of any kind. *)
(***************************************************************************)
EXTENDS Naturals, Sequences

CONSTANT MaxParms   \* bound: parameters of the wrapped function

VARIABLES
    lang,
    parm,       \* per parameter: "visible", "optional", "hidden" (numinputs=0), "parsed" (in:parse)
    at,         \* the index of the code that runs next
    mem,        \* per parameter: "none", "held" by the wrapper, "freed", "spoilt": freed
                \* twice, or used after it was freed
    result,     \* of a %newobject function with a newfree typemap: "none", "made", "freed",
                \* "spoilt"
    ends        \* "running", "returned", "failed" through the label, "left" otherwise

wrapVars == <<lang, parm, at, mem, result, ends>>

-----------------------------------------------------------------------------
(***************************************************************************)
(* What the modules write.  code: the typemaps on the way of a call that   *)
(* succeeds; lacks: those among them that the module does not look for;    *)
(* clean: does the argument cleanup stand behind a label `fail:'; leaves:  *)
(* the code whose errors do not `goto fail', but return or jump out of the *)
(* function; skips: parameters without cleanup code.                       *)
(***************************************************************************)
Code == <<"hidden", "count", "in", "check", "action", "out", "argout", "freearg", "newfree",
          "ret">>

Errors == {"count", "in", "check", "action", "out", "argout"}

WithLabel == [code |-> Code, lacks |-> {}, clean |-> TRUE, leaves |-> {}, skips |-> {}]
NoLabel   == [WithLabel EXCEPT !.clean = FALSE, !.leaves = Errors]
Lacking(written, codes) == [written EXCEPT !.lacks = codes]

\* no cleanup for what PyArg_ParseTuple() converts
python_code == [WithLabel EXCEPT !.code = Append(Code, "directorfree"), !.skips = {"parsed"}]
\* nor, in Tcl, for hidden parameters
tcl_code == [WithLabel EXCEPT !.skips = {"parsed", "hidden"}]
\* mutant of perl_code: cleanup stands only behind the label
perl_code_Late == Lacking(WithLabel, {"freearg"})
perl_code == WithLabel
\* mutant of lua_code: the result is deleted before it is converted
lua_code_Early == [WithLabel EXCEPT !.code =
    <<"hidden", "count", "in", "check", "action", "newfree", "out", "argout", "freearg", "ret">>]
lua_code == WithLabel
\* WRONG_PARAM_COUNT returns
php_code == [WithLabel EXCEPT !.leaves = {"count"}]
\* SWIG_Error() is rb_raise()
ruby_code == [WithLabel EXCEPT !.code = Append(Code, "directorfree"), !.leaves = Errors]
\* the code falls into the label
octave_code == [WithLabel EXCEPT !.clean = FALSE]

\* its label is compiled out (USE_FAIL), swig_barf() and C_bad_argc() do not return
chicken_code == NoLabel
guile_code == Lacking(NoLabel, {"count"})
mzscheme_code == Lacking(NoLabel, {"count"})
\* looks for a typemap "swig_result" instead of "ret"
ocaml_code == Lacking(NoLabel, {"count", "ret"})
pike_code == Lacking(NoLabel, {"count"})
java_code == Lacking(NoLabel, {"count"})
csharp_code == Lacking(NoLabel, {"count"})
modula3_code == Lacking(NoLabel, {"count"})
\* no check and no newfree typemaps
r_code == Lacking(NoLabel, {"count", "check", "newfree", "ret"})
\* no typemap but in and out, no label, no cleanup
allegrocl_code == Lacking(NoLabel, {"count", "check", "argout", "freearg", "newfree", "ret"})
cffi_code == Lacking(NoLabel, {"count", "check", "argout", "freearg", "newfree", "ret"})

Written ==
    [python |-> python_code, tcl |-> tcl_code, perl |-> perl_code, lua |-> lua_code,
     php |-> php_code, ruby |-> ruby_code, octave |-> octave_code, chicken |-> chicken_code,
     guile |-> guile_code, mzscheme |-> mzscheme_code, ocaml |-> ocaml_code,
     pike |-> pike_code, java |-> java_code, csharp |-> csharp_code,
     modula3 |-> modula3_code, r |-> r_code, allegrocl |-> allegrocl_code,
     cffi |-> cffi_code]

W == Written[lang]

-----------------------------------------------------------------------------
Kinds(l) == {"visible", "optional", "hidden"}
            \cup (IF l \in {"python", "tcl"} THEN {"parsed"} ELSE {})

WrapInit ==
    /\ lang \in DOMAIN Written
    /\ parm \in UNION {[1..n -> Kinds(lang)] : n \in 0..MaxParms}
    /\ at = 1
    /\ mem = [p \in DOMAIN parm |-> "none"]
    /\ result = "none" /\ ends = "running"

Hold(ps) == mem' = [p \in DOMAIN parm |-> IF p \in ps THEN "held" ELSE mem[p]]

\* the argument cleanup: the freearg typemaps do nothing for what was not taken
Cleanup(m) ==
    [p \in DOMAIN parm |->
        IF parm[p] \in W.skips \/ m[p] = "none" THEN m[p]
        ELSE IF m[p] = "held" THEN "freed" ELSE "spoilt"]

Reaches(c) == ends = "running" /\ at <= Len(W.code) /\ W.code[at] = c
Do(c) == Reaches(c) /\ c \notin W.lacks

Then == at' = at + 1 /\ UNCHANGED <<lang, parm, ends>>

\* SWIG_fail or what the typemap does instead
Error(c) ==
    /\ ends' = IF c \in W.leaves THEN "left" ELSE "failed"
    /\ UNCHANGED <<lang, parm, at, result>>

\* emit_attach_parmmaps(): the code of hidden parameters comes first
Hidden == Do("hidden") /\ Hold({p \in DOMAIN parm : parm[p] = "hidden"}) /\ Then /\ UNCHANGED result

\* mutant of Fails: no cleanup behind the label
Fails_Dirty(c) == Do(c) /\ Error(c) /\ UNCHANGED mem

Fails(c) ==
    /\ Do(c) /\ Error(c)
    /\ mem' = IF c \notin W.leaves /\ W.clean THEN Cleanup(mem) ELSE mem

\* the call and the argout typemaps read the arguments
Used(m) == [p \in DOMAIN parm |-> IF m[p] = "freed" THEN "spoilt" ELSE m[p]]

\* code that takes and gives back nothing: the number of arguments, check, ret
Passes(c) == Do(c) /\ Then /\ UNCHANGED <<mem, result>>

\* there is no such code
Lacks(c) == Reaches(c) /\ c \in W.lacks /\ Then /\ UNCHANGED <<mem, result>>

\* the in typemaps in order, n of them; an optional argument need not be there
In(n, given) ==
    /\ Do("in")
    /\ LET ps == {p \in 1..n : parm[p] = "visible" \/ (parm[p] = "optional" /\ given)}
           m  == [p \in DOMAIN parm |-> IF p \in ps THEN "held" ELSE mem[p]]
       IN IF n = Len(parm)
          THEN mem' = m /\ Then /\ UNCHANGED result
          ELSE /\ Error("in")
               /\ mem' = IF "in" \notin W.leaves /\ W.clean THEN Cleanup(m) ELSE m

\* emit_action()
Action == Do("action") /\ result' = "made" /\ mem' = Used(mem) /\ Then

Argout == Do("argout") /\ mem' = Used(mem) /\ Then /\ UNCHANGED result

\* the out typemap reads the result
Out ==
    /\ Do("out") /\ Then /\ UNCHANGED mem
    /\ result' = IF result = "made" THEN "made" ELSE "spoilt"

Freearg == Do("freearg") /\ mem' = Cleanup(mem) /\ Then /\ UNCHANGED result

Newfree ==
    /\ Do("newfree")
    /\ result' = IF result = "made" THEN "freed" ELSE "spoilt"
    /\ Then /\ UNCHANGED mem

ReturnResult ==
    /\ ends = "running" /\ at = Len(W.code) + 1
    /\ ends' = "returned"
    /\ UNCHANGED <<lang, parm, at, mem, result>>

WrapNext ==
    \/ Hidden
    \/ \E n \in 0..Len(parm), given \in BOOLEAN : In(n, given)
    \/ \E c \in Errors \ {"in"} : Fails(c)
    \/ \E c \in {"count", "check", "ret", "directorfree"} : Passes(c)
    \/ \E c \in {"count", "check", "argout", "freearg", "newfree", "ret"} : Lacks(c)
    \/ Action
    \/ Out
    \/ Argout
    \/ Freearg
    \/ Newfree
    \/ ReturnResult

WrapSpec == WrapInit /\ [][WrapNext]_wrapVars

-----------------------------------------------------------------------------
Leaks == {p \in DOMAIN parm : mem[p] = "held"}

WrapTypeOK ==
    /\ lang \in DOMAIN Written /\ at \in 1..(Len(W.code) + 1)
    /\ \A p \in DOMAIN parm : mem[p] \in {"none", "held", "freed", "spoilt"}
    /\ result \in {"none", "made", "freed", "spoilt"}
    /\ ends \in {"running", "returned", "failed", "left"}

\* Typemaps.html:2248 "inserted at the end of the wrapper function, just before
\* control is returned back to the target language", for calls that succeed: what
\* the in typemaps took is released once.  The modules for Common Lisp know no
\* freearg typemap, the one for Tcl forgets the hidden parameters.
ReturnReleases ==
    ends = "returned" /\ lang \notin {"allegrocl", "cffi"} =>
        /\ \A p \in Leaks : lang = "tcl" /\ parm[p] = "hidden"
        /\ \A p \in DOMAIN parm : mem[p] # "spoilt"

\* For calls that fail on the way through the label: in whatever typemap it was,
\* the parameters before and behind it are released, and none twice.
FailReleases ==
    ends = "failed" /\ lang # "octave" =>
        /\ \A p \in Leaks : lang = "tcl" /\ parm[p] = "hidden"
        /\ \A p \in DOMAIN parm : mem[p] # "spoilt"

\* emit.cxx and Typemaps.html, "newfree": a new result is deleted, once, and after
\* the out typemap has converted it.  R and Common Lisp have no such typemap.
NewResultFreed ==
    /\ result # "spoilt"
    /\ ends = "returned" /\ lang \notin {"r", "allegrocl", "cffi"} => result = "freed"

\* emit.cxx, functionWrapper(): a call that returns has released its arguments, and a
\* %newobject result that was converted; a call that fails through the label has done so
\* wherever it failed.
CallsRelease == ReturnReleases /\ NewResultFreed /\ FailReleases
=============================================================================
