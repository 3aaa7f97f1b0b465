----------------------------- MODULE Fragments -----------------------------
(***************************************************************************)
(* Code fragments, Source/Swig/fragment.c.  A fragment is registered with  *)
(* its "fragment" arguments, each a list of names; whoever asks for a      *)
(* fragment gets those written first, and each one is written once.        *)
(* Swig_fragment_emit() calls itself: a frame is what it still has to do   *)
(* for one fragment.                                                       *)
(***************************************************************************)
EXTENDS Naturals, Sequences, SequencesExt

CONSTANTS
    Frag,       \* names
    Kwargs,     \* values of the "fragment" arguments: sequences of lists of names
    Lists,      \* lists that typemaps and %fragment ask for
    MaxAsked    \* bound: lists asked for

ASSUME FragAssumption == Kwargs \subseteq Seq(Seq(Frag)) /\ Lists \subseteq Seq(Frag)

VARIABLES
    fragments,  \* name -> "fragment" arguments, of those registered
    ignore,     \* names whose code has become "ignore": they have been written
    looking_fragments,
    out,        \* what was written
    missing,    \* names reported as not found
    asked,      \* history: the lists asked for
    calls       \* frames, innermost last: [for, the fragment, if any, list, the rest of
                \* the list it looks at, lists, the arguments behind it]

fragVars == <<fragments, ignore, looking_fragments, out, missing, asked, calls>>

FragInit ==
    /\ fragments = [n \in {} |-> <<>>] /\ ignore = {} /\ looking_fragments = {}
    /\ out = <<>> /\ missing = {} /\ asked = <<>> /\ calls = <<>>

\* Swig_fragment_register(): the first definition of a name stays
Swig_fragment_register(n, kwargs) ==
    /\ calls = <<>> /\ n \notin DOMAIN fragments
    /\ fragments' = [m \in DOMAIN fragments \cup {n} |-> IF m = n THEN kwargs ELSE fragments[m]]
    /\ UNCHANGED <<ignore, looking_fragments, out, missing, asked, calls>>

Swig_fragment_emit(list) ==
    /\ calls = <<>> /\ Len(asked) < MaxAsked
    /\ asked' = Append(asked, list)
    /\ calls' = <<[for |-> {}, list |-> list, lists |-> <<>>]>>
    /\ UNCHANGED <<fragments, ignore, looking_fragments, out, missing>>

Current == calls[Len(calls)]
Calling == calls # <<>>
Rest(f) == calls' = [calls EXCEPT ![Len(calls)] = f]

\* the next name of the list that is looked at
Looks(n) == Calling /\ Current.list # <<>> /\ n = Head(Current.list)
OnLooks  == [Current EXCEPT !.list = Tail(@)]

\* a name that is being emitted ends its list
Circle(n) ==
    /\ Looks(n) /\ n \in looking_fragments
    /\ Rest([Current EXCEPT !.list = <<>>])
    /\ UNCHANGED <<fragments, ignore, looking_fragments, out, missing, asked>>

NotFound(n) ==
    /\ Looks(n) /\ n \notin looking_fragments /\ n \notin DOMAIN fragments
    /\ missing' = missing \cup {n}
    /\ Rest(OnLooks)
    /\ UNCHANGED <<fragments, ignore, looking_fragments, out, asked>>

Emitted(n) ==
    /\ Looks(n) /\ n \notin looking_fragments /\ n \in DOMAIN fragments /\ n \in ignore
    /\ Rest(OnLooks)
    /\ UNCHANGED <<fragments, ignore, looking_fragments, out, missing, asked>>

Writes(n) == out' = Append(out, n) /\ ignore' = ignore \cup {n}

\* mutant of Emit: the code is written before the fragments that it needs
Emit_Early(n) ==
    /\ Looks(n) /\ n \notin looking_fragments /\ n \in DOMAIN fragments \ ignore
    /\ Writes(n)
    /\ calls' = Append([calls EXCEPT ![Len(calls)] = OnLooks],
                       [for |-> {}, list |-> <<>>, lists |-> fragments[n]])
    /\ UNCHANGED <<fragments, looking_fragments, missing, asked>>

\* what a fragment needs comes first
Emit(n) ==
    /\ Looks(n) /\ n \notin looking_fragments /\ n \in DOMAIN fragments \ ignore
    /\ looking_fragments' = looking_fragments \cup {n}
    /\ calls' = Append([calls EXCEPT ![Len(calls)] = OnLooks],
                       [for |-> {n}, list |-> <<>>, lists |-> fragments[n]])
    /\ UNCHANGED <<fragments, ignore, out, missing, asked>>

NextArgument ==
    /\ Calling /\ Current.list = <<>> /\ Current.lists # <<>>
    /\ Rest([Current EXCEPT !.list = Head(Current.lists), !.lists = Tail(@)])
    /\ UNCHANGED <<fragments, ignore, looking_fragments, out, missing, asked>>

\* ... then its code
Done ==
    /\ Calling /\ Current.list = <<>> /\ Current.lists = <<>>
    /\ calls' = SubSeq(calls, 1, Len(calls) - 1)
    /\ IF Current.for = {} THEN UNCHANGED <<out, ignore>> ELSE \E n \in Current.for : Writes(n)
    /\ looking_fragments' = looking_fragments \ Current.for
    /\ UNCHANGED <<fragments, missing, asked>>

FragNext ==
    \/ \E n \in Frag, kwargs \in Kwargs : Swig_fragment_register(n, kwargs)
    \/ \E list \in Lists : Swig_fragment_emit(list)
    \/ \E n \in Frag : Circle(n) \/ NotFound(n) \/ Emitted(n) \/ Emit(n)
    \/ NextArgument
    \/ Done

FragSpec == FragInit /\ [][FragNext]_fragVars

-----------------------------------------------------------------------------
Mentions(lists) == UNION {ToSet(lists[k]) : k \in DOMAIN lists}
Needs(n) == IF n \in DOMAIN fragments THEN Mentions(fragments[n]) ELSE {}

\* in every set of fragments there is one that needs none of them
Acyclic == \A s \in SUBSET Frag \ {{}} : \E n \in s : Needs(n) \cap s = {}
Singles == \A n \in DOMAIN fragments : \A k \in DOMAIN fragments[n] : Len(fragments[n][k]) = 1

FragTypeOK ==
    /\ DOMAIN fragments \subseteq Frag /\ ignore \subseteq Frag /\ missing \subseteq Frag
    /\ looking_fragments \subseteq Frag /\ ToSet(out) = ignore /\ asked \in Seq(Lists)
    /\ \A k \in DOMAIN calls : calls[k].for \subseteq looking_fragments

\* fragment.c:150: a fragment is written once, however often and in whichever circles it is
\* asked for.
OnceEach == \A j, k \in DOMAIN out : out[j] = out[k] => j = k

\* fragment.c:117, Typemaps.html "Fragment libraries": a fragment stands behind the fragments
\* it needs.  When fragments need each other that cannot be, but in the end they are all
\* written, unless a list of several names leads back to a fragment that is being emitted.
InOrder ==
    \A k \in DOMAIN out, d \in Frag : d \in Needs(out[k]) \ missing =>
        /\ Acyclic => \E j \in 1..(k - 1) : out[j] = d
        /\ Singles /\ ~Calling => \E j \in DOMAIN out : out[j] = d

\* ... and so are those that were asked for.
AskedAreThere == ~Calling => \A k \in DOMAIN asked : ToSet(asked[k]) \subseteq ignore \cup missing

\* fragment.c: each fragment once, in order, and none that was needed or asked for is left out.
NeedsFirst == OnceEach /\ InOrder /\ AskedAreThere
=============================================================================
