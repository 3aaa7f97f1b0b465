--------------------------- MODULE JavaTheorems ---------------------------
(***************************************************************************)
(* Proofs about JavaObjects, for any number of objects, proxies and        *)
(* threads and for calls in each other as deep as MaxCalls says: what      *)
(* directors in Java destroy, and whom they call.                          *)
(*                                                                         *)
(* The invariant says which calls of delete(), of destructors and of       *)
(* swigDirectorDisconnect() may be open in each other and in which         *)
(* threads, because what a call has read or cleared matters until the      *)
(* calls below it are over.                                                *)
(***************************************************************************)
EXTENDS JavaObjects, TLAPS

Apart == Finalizer \notin JavaThread /\ Null \notin Obj /\ Null \notin Proxy

ActivationType ==
    [call : {"delete"}, of : Proxy, at : {"test", "clear"}]
    \cup [call : {"disconnect"}, of : Proxy, at : {"own", "delete"}]
    \cup [call : {"dtor"}, of : Obj, at : {"disconnect", "release"}]
    \cup [call : {"release", "take", "upcall"}, of : Proxy, at : {""}]

\* f is the n-th of s, the n-th open call of thread t
Has(s, n, f) == n \in DOMAIN s /\ s[n] = f
Open(t, n, f) == Has(jstack[t], n, f)

JavaTypes ==
    /\ cpp \in [Obj -> {"none", "alive", "dying", "dead", "twice"}]
    /\ cppOwns \subseteq Obj /\ weak \subseteq Obj
    /\ jthis \in [Obj -> Proxy \cup {Null}]
    /\ jniRefs \subseteq Obj \X {"weak", "global"}
    /\ proxy \in [Proxy -> {"none", "live", "finalized", "gone"}]
    /\ swigCPtr \in [Proxy -> Obj \cup {Null}]
    /\ swigCMemOwn \in [Proxy -> BOOLEAN]
    /\ held \subseteq Proxy
    /\ jstack \in [JavaThreads -> Seq(ActivationType)]

\* a proxy and an object that know each other belong together
Linked ==
    /\ \A p \in Proxy, o \in Obj : swigCPtr[p] = o =>
           jthis[o] = p /\ cpp[o] \in {"alive", "dying"}
    /\ \A p \in Proxy, o \in Obj : jthis[o] = p => proxy[p] # "none"
    /\ \A p \in Proxy : \A o, u \in Obj : jthis[o] = p /\ jthis[u] = p => o = u
    /\ \A p \in held : proxy[p] = "live"

\* an object that lives is C++'s, or its proxy's, or on its way from one to the other
Owned ==
    /\ \A o \in cppOwns : cpp[o] = "alive" /\ o \notin weak
    /\ \A o \in Obj : cpp[o] = "alive" =>
           \E p \in Proxy :
               /\ jthis[o] = p
               /\ \/ o \in cppOwns
                  \/ /\ swigCPtr[p] = o
                     /\ \/ swigCMemOwn[p]
                        \/ \E t \in JavaThreads, n \in Nat, f \in ActivationType :
                               Open(t, n, f) /\ f.call = "release" /\ f.of = p
    /\ \A p \in Proxy, o \in Obj : swigCMemOwn[p] /\ swigCPtr[p] = o =>
           cpp[o] = "alive" \/ o \notin weak
    /\ \A o \in Obj : cpp[o] # "twice"

Referred ==
    /\ \A o \in Obj : cpp[o] \in {"alive", "dying"} =>
           /\ o \in weak => <<o, "weak">> \in jniRefs /\ <<o, "global">> \notin jniRefs
           /\ o \notin weak => <<o, "weak">> \notin jniRefs /\ <<o, "global">> \in jniRefs
    /\ \A o \in Obj : cpp[o] \notin {"alive", "dying"} =>
           <<o, "weak">> \notin jniRefs /\ <<o, "global">> \notin jniRefs
    /\ \A o \in Obj : cpp[o] = "none" => o \notin weak
    /\ \A o \in Obj : <<o, "global">> \in jniRefs =>
           \E p \in Proxy : jthis[o] = p /\ proxy[p] = "live"

\* what the collector took does not matter any more
Collected ==
    \A p \in Proxy :
        /\ proxy[p] = "gone" => swigCPtr[p] = Null
        /\ proxy[p] = "finalized" =>
               \/ swigCPtr[p] = Null
               \/ \E n \in Nat, f \in ActivationType :
                      Open(Finalizer, n, f) /\ f.call = "delete" /\ f.of = p

\* overrides call, and are called by, what the program calls; all other calls stand on
\* those that make them
Ordered ==
    /\ \A t \in JavaThreads : \A n, m \in Nat : \A f, g \in ActivationType :
           Open(t, n, f) /\ Open(t, m, g) /\ m < n /\ f.call = "upcall" => g.call = "upcall"
    /\ \A t \in JavaThreads : \A n \in Nat : \A f, g \in ActivationType :
           Open(t, n, f) /\ Open(t, n + 1, g) =>
               \/ f.call = "upcall"
               \/ f.call = "delete" /\ f.at = "clear" /\ g.call = "dtor"
               \/ /\ f.call = "dtor" /\ f.at = "release"
                  /\ g.call \in {"disconnect", "delete"} /\ jthis[f.of] = g.of
    /\ \A t \in JavaThreads : \A n \in Nat : \A f \in ActivationType :
           Open(t, n, f) /\ f.call = "disconnect" =>
               \E g \in ActivationType : n > 1 /\ Open(t, n - 1, g) /\ g.call = "dtor"

\* delete() was called for a proxy, and may clear its address
InDelete(f) ==
    /\ f.call # "dtor" => proxy[f.of] # "none"
    /\ f.call = "delete" => \A o \in Obj : swigCPtr[f.of] = o =>
          /\ f.at = "test" /\ swigCMemOwn[f.of] => cpp[o] = "alive" /\ o \notin cppOwns
          /\ f.at = "clear" /\ cpp[o] = "alive" => o \in cppOwns
    /\ f.call = "disconnect" /\ f.at = "delete" => ~swigCMemOwn[f.of]

Deletes ==
    \A t \in JavaThreads, n \in Nat, f \in ActivationType : Open(t, n, f) => InDelete(f)

\* an object whose owner changes is alive
Transfers ==
    \A t \in JavaThreads, n \in Nat, f \in ActivationType :
        Open(t, n, f) /\ f.call \in {"release", "take"} =>
            /\ proxy[f.of] = "live"
            /\ \E o \in Obj : swigCPtr[f.of] = o /\ cpp[o] = "alive" /\ o \notin cppOwns

\* an object in its destructor has its proxy, which gives the address away
InDestructor(t, n, f) ==
    /\ cpp[f.of] = "dying"
    /\ \E p \in Proxy :
        /\ jthis[f.of] = p /\ proxy[p] # "gone"
        /\ \/ f.of \notin weak
           \/ \E g \in ActivationType :
                  n > 1 /\ Open(t, n - 1, g) /\ g.call = "delete" /\ g.of = p
        /\ f.at = "release" =>
               swigCPtr[p] = Null \/ \E g \in ActivationType : Open(t, n + 1, g)

Destructs ==
    \A t \in JavaThreads, n \in Nat, f \in ActivationType :
        Open(t, n, f) /\ f.call = "dtor" => InDestructor(t, n, f)

\* what excludes each other
Exclusive ==
    \A t, u \in JavaThreads : \A n, m \in Nat : \A f, g \in ActivationType :
        Open(t, n, f) /\ Open(u, m, g) /\ f.of = g.of =>
            /\ f.call = "dtor" /\ g.call = "dtor" => t = u /\ n = m
            /\ f.call = "delete" /\ g.call = "delete" => t = u
            /\ f.call \in {"release", "take"} /\ g.call \in {"release", "take", "delete"}
                   => t = u /\ n = m

JavaInv == JavaTypes /\ Linked /\ Owned /\ Referred /\ Collected /\ Ordered
           /\ Deletes /\ Transfers /\ Destructs /\ Exclusive /\ UpcallsArrive

-----------------------------------------------------------------------------
(* The calls of a thread. *)

\* What a sequence has.
LEMMA HasMembers ==
    ASSUME NEW S, NEW s \in Seq(S)
    PROVE  /\ \A n, f : Has(s, n, f) => n \in Nat /\ n > 0 /\ n <= Len(s) /\ f \in S
           /\ \A n, f, g : Has(s, n, f) /\ Has(s, n, g) => f = g
           /\ \A n \in 1..Len(s) : Has(s, n, s[n])
<1>1. DOMAIN s = 1..Len(s) /\ Len(s) \in Nat /\ \A n \in 1..Len(s) : s[n] \in S
    OBVIOUS
<1> QED BY <1>1 DEF Has

\* What it has when something is appended.
LEMMA HasAppended ==
    ASSUME NEW S, NEW s \in Seq(S), NEW f \in S
    PROVE  /\ Append(s, f) \in Seq(S) /\ Len(Append(s, f)) = Len(s) + 1
           /\ \A n \in Nat : \A g :
                 Has(Append(s, f), n, g) <=> Has(s, n, g) \/ (n = Len(s) + 1 /\ g = f)
<1>1. DOMAIN s = 1..Len(s) /\ Len(s) \in Nat
    OBVIOUS
<1>2. /\ Append(s, f) \in Seq(S) /\ Len(Append(s, f)) = Len(s) + 1
      /\ DOMAIN Append(s, f) = 1..(Len(s) + 1)
      /\ Append(s, f)[Len(s) + 1] = f
    OBVIOUS
<1>3. \A n \in 1..Len(s) : Append(s, f)[n] = s[n]
    OBVIOUS
<1>4. ASSUME NEW n \in Nat, NEW g
      PROVE  Has(Append(s, f), n, g) <=> Has(s, n, g) \/ (n = Len(s) + 1 /\ g = f)
    <2>1. CASE n \in 1..Len(s)
        <3>1. n \in 1..(Len(s) + 1) /\ n # Len(s) + 1
            BY <1>1, <2>1
        <3> QED BY <1>1, <1>2, <1>3, <2>1, <3>1 DEF Has
    <2>2. CASE n = Len(s) + 1
        <3>1. n \in 1..(Len(s) + 1) /\ n \notin 1..Len(s)
            BY <1>1, <2>2
        <3> QED BY <1>1, <1>2, <2>2, <3>1 DEF Has
    <2>3. CASE n \notin 1..Len(s) /\ n # Len(s) + 1
        <3>1. n \notin 1..(Len(s) + 1)
            BY <1>1, <2>3
        <3> QED BY <1>1, <1>2, <2>3, <3>1 DEF Has
    <2> QED BY <2>1, <2>2, <2>3
<1> QED BY <1>2, <1>4

LEMMA Shortened ==
    \A l, n \in Nat : l > 0 => (n \in 1..(l - 1) <=> n \in 1..l /\ n # l)
OBVIOUS

\* What is left of it without the last.
LEMMA HasLeft ==
    ASSUME NEW S, NEW s \in Seq(S), Len(s) > 0
    PROVE  /\ SubSeq(s, 1, Len(s) - 1) \in Seq(S)
           /\ Len(SubSeq(s, 1, Len(s) - 1)) = Len(s) - 1
           /\ \A n \in Nat : \A g :
                 Has(SubSeq(s, 1, Len(s) - 1), n, g) <=> Has(s, n, g) /\ n # Len(s)
<1> DEFINE b == SubSeq(s, 1, Len(s) - 1)
<1>1. DOMAIN s = 1..Len(s) /\ Len(s) \in Nat
    OBVIOUS
<1>2. b \in Seq(S) /\ Len(b) = Len(s) - 1 /\ DOMAIN b = 1..(Len(s) - 1)
    BY <1>1
<1>3. \A n \in 1..(Len(s) - 1) : b[n] = s[n]
    BY <1>1
<1> HIDE DEF b
<1>4. ASSUME NEW n \in Nat, NEW g
      PROVE  Has(b, n, g) <=> Has(s, n, g) /\ n # Len(s)
    <2>1. CASE n \in 1..(Len(s) - 1)
        <3>1. n \in 1..Len(s) /\ n # Len(s)
            BY <1>1, <2>1, Shortened
        <3> QED BY <1>1, <1>2, <1>3, <2>1, <3>1 DEF Has
    <2>2. CASE n \notin 1..(Len(s) - 1)
        <3>1. n \notin 1..Len(s) \/ n = Len(s)
            BY <1>1, <2>2, Shortened
        <3> QED BY <1>1, <1>2, <2>2, <3>1 DEF Has
    <2> QED BY <2>1, <2>2
<1> QED BY <1>2, <1>4 DEF b

\* What is open, and the last of it.
LEMMA OpenCalls ==
    ASSUME JavaTypes, NEW t \in JavaThreads
    PROVE  /\ \A n, f : Open(t, n, f) =>
                 n \in Nat /\ n > 0 /\ n <= Len(jstack[t]) /\ f \in ActivationType
           /\ \A n, f, g : Open(t, n, f) /\ Open(t, n, g) => f = g
           /\ \A n \in 1..Len(jstack[t]) : Open(t, n, jstack[t][n])
           /\ jstack[t] \in Seq(ActivationType) /\ Len(jstack[t]) \in Nat
           /\ Innermost(t).call # "program" =>
                  /\ Len(jstack[t]) > 0 /\ Innermost(t) \in ActivationType
                  /\ Open(t, Len(jstack[t]), Innermost(t))
           /\ Innermost(t).call = "program" => Len(jstack[t]) = 0
<1>1. jstack[t] \in Seq(ActivationType) /\ Len(jstack[t]) \in Nat
    BY DEF JavaTypes
<1>2. CASE jstack[t] = << >>
    BY <1>1, <1>2, HasMembers DEF Open, Innermost, Activation
<1>3. CASE jstack[t] # << >>
    <2>1. Len(jstack[t]) > 0 /\ Innermost(t) = jstack[t][Len(jstack[t])]
        BY <1>1, <1>3 DEF Innermost
    <2>2. Innermost(t) \in ActivationType
        BY <1>1, <2>1
    <2>3. Innermost(t).call # "program"
        BY <2>2 DEF ActivationType
    <2>4. Len(jstack[t]) \in 1..Len(jstack[t])
        BY <1>1, <2>1
    <2> QED BY <1>1, <2>1, <2>2, <2>3, <2>4, HasMembers DEF Open
<1> QED BY <1>2, <1>3

\* The fields of an open call.
LEMMA Activations ==
    /\ \A f \in ActivationType :
           /\ f.call \in {"delete", "disconnect", "dtor", "release", "take", "upcall"}
           /\ f.call = "dtor" => f.of \in Obj /\ f.at \in {"disconnect", "release"}
           /\ f.call # "dtor" => f.of \in Proxy
           /\ f.call = "delete" => f.at \in {"test", "clear"}
           /\ f.call = "disconnect" => f.at \in {"own", "delete"}
    /\ \A c, x, a : /\ Activation(c, x, a).call = c
                    /\ Activation(c, x, a).of = x
                    /\ Activation(c, x, a).at = a
    /\ \A p \in Proxy :
           /\ \A a \in {"test", "clear"} : Activation("delete", p, a) \in ActivationType
           /\ \A a \in {"own", "delete"} : Activation("disconnect", p, a) \in ActivationType
           /\ \A c \in {"release", "take", "upcall"} : Activation(c, p, "") \in ActivationType
    /\ \A o \in Obj, a \in {"disconnect", "release"} :
           Activation("dtor", o, a) \in ActivationType
BY DEF ActivationType, Activation

\* The calls of a thread become s.
LEMMA Rewritten ==
    ASSUME JavaTypes, NEW t \in JavaThreads, NEW s \in Seq(ActivationType),
           jstack' = [jstack EXCEPT ![t] = s]
    PROVE  /\ jstack' \in [JavaThreads -> Seq(ActivationType)]
           /\ \A u \in JavaThreads : \A n, g :
                 Open(u, n, g)' <=> IF u = t THEN Has(s, n, g) ELSE Open(u, n, g)
<1>1. jstack' \in [JavaThreads -> Seq(ActivationType)]
    BY DEF JavaTypes
<1>2. jstack'[t] = s /\ \A u \in JavaThreads \ {t} : jstack'[u] = jstack[u]
    BY DEF JavaTypes
<1>3. ASSUME NEW u \in JavaThreads, NEW n, NEW g
      PROVE  Open(u, n, g)' <=> IF u = t THEN Has(s, n, g) ELSE Open(u, n, g)
    BY <1>2 DEF Open, Has
<1> QED BY <1>1, <1>3

\* A call, f, is opened on the l calls of a thread.
Opens(t, l, f) ==
    /\ l \in Nat
    /\ \A n \in Nat, g \in ActivationType : Open(t, n, g) => n <= l
    /\ l > 0 => \E g \in ActivationType : Open(t, l, g)
    /\ \A u \in JavaThreads, n \in Nat, g \in ActivationType :
           Open(u, n, g)' <=> Open(u, n, g) \/ (u = t /\ n = l + 1 /\ g = f)

LEMMA Invoked ==
    ASSUME JavaTypes, NEW t \in JavaThreads, NEW f \in ActivationType, Invoke(t, f)
    PROVE  /\ jstack' \in [JavaThreads -> Seq(ActivationType)]
           /\ \E l \in Nat : l = Len(jstack[t]) /\ Opens(t, l, f)
<1>1. jstack[t] \in Seq(ActivationType) /\ Len(jstack[t]) \in Nat
    BY OpenCalls
<1>2. PICK l \in Nat : l = Len(jstack[t])
    BY <1>1
<1>3. /\ Append(jstack[t], f) \in Seq(ActivationType)
      /\ \A n \in Nat : \A g : Has(Append(jstack[t], f), n, g) <=>
                                Open(t, n, g) \/ (n = l + 1 /\ g = f)
    BY <1>1, <1>2, HasAppended DEF Open
<1>4. jstack' = [jstack EXCEPT ![t] = Append(jstack[t], f)]
    BY DEF Invoke
<1>5. /\ jstack' \in [JavaThreads -> Seq(ActivationType)]
      /\ \A u \in JavaThreads : \A n, g :
            Open(u, n, g)' <=> IF u = t THEN Has(Append(jstack[t], f), n, g) ELSE Open(u, n, g)
    BY <1>3, <1>4, Rewritten
<1>6. ASSUME NEW u \in JavaThreads, NEW n \in Nat, NEW g \in ActivationType
      PROVE  Open(u, n, g)' <=> Open(u, n, g) \/ (u = t /\ n = l + 1 /\ g = f)
    BY <1>3, <1>5
<1>7. l > 0 => \E g \in ActivationType : Open(t, l, g)
    <2> SUFFICES ASSUME l > 0 PROVE \E g \in ActivationType : Open(t, l, g)
        OBVIOUS
    <2>1. l \in 1..Len(jstack[t])
        BY <1>2
    <2> QED BY <2>1, OpenCalls
<1>8. \A n \in Nat, g \in ActivationType : Open(t, n, g) => n <= l
    BY <1>2, OpenCalls
<1> QED BY <1>2, <1>5, <1>6, <1>7, <1>8 DEF Opens

\* The last of a thread's l calls, f, becomes g.
Turns(t, l, f, g) ==
    /\ l \in Nat /\ l > 0 /\ Open(t, l, f)
    /\ \A n \in Nat, h \in ActivationType : Open(t, n, h) => n <= l
    /\ \A u \in JavaThreads, n \in Nat, h \in ActivationType :
           Open(u, n, h)' <=> \/ Open(u, n, h) /\ ~(u = t /\ n = l)
                              \/ u = t /\ n = l /\ h = g

LEMMA Turned ==
    ASSUME JavaTypes, NEW t \in JavaThreads, NEW g \in ActivationType, Goto(t, g),
           Innermost(t).call # "program"
    PROVE  /\ jstack' \in [JavaThreads -> Seq(ActivationType)]
           /\ \E l \in Nat, f \in ActivationType : f = Innermost(t) /\ Turns(t, l, f, g)
<1>1. /\ jstack[t] \in Seq(ActivationType) /\ Len(jstack[t]) \in Nat /\ Len(jstack[t]) > 0
      /\ Innermost(t) \in ActivationType /\ Open(t, Len(jstack[t]), Innermost(t))
    BY OpenCalls
<1>2. PICK l \in Nat, f \in ActivationType : l = Len(jstack[t]) /\ f = Innermost(t)
    BY <1>1
<1>3. /\ Below(t) \in Seq(ActivationType) /\ Len(Below(t)) = l - 1
      /\ \A n \in Nat : \A h : Has(Below(t), n, h) <=> Open(t, n, h) /\ n # l
    BY <1>1, <1>2, HasLeft DEF Below, Open
<1>4. /\ Append(Below(t), g) \in Seq(ActivationType)
      /\ \A n \in Nat : \A h : Has(Append(Below(t), g), n, h) <=>
                                (Open(t, n, h) /\ n # l) \/ (n = l /\ h = g)
    BY <1>2, <1>3, HasAppended
<1>5. /\ jstack' \in [JavaThreads -> Seq(ActivationType)]
      /\ \A u \in JavaThreads : \A n, h :
            Open(u, n, h)' <=> IF u = t THEN Has(Append(Below(t), g), n, h) ELSE Open(u, n, h)
    BY <1>4, Rewritten DEF Goto
<1>6. ASSUME NEW u \in JavaThreads, NEW n \in Nat, NEW h \in ActivationType
      PROVE  Open(u, n, h)' <=> \/ Open(u, n, h) /\ ~(u = t /\ n = l)
                                \/ u = t /\ n = l /\ h = g
    BY <1>4, <1>5
<1>7. \A n \in Nat, h \in ActivationType : Open(t, n, h) => n <= l
    BY <1>2, OpenCalls
<1>8. l > 0 /\ Open(t, l, f)
    BY <1>1, <1>2
<1>9. Turns(t, l, f, g)
    BY <1>6, <1>7, <1>8 DEF Turns
<1> QED BY <1>2, <1>5, <1>9

\* ... and calls h
TurnsAndCalls(t, l, f, g, h) ==
    /\ l \in Nat /\ l > 0 /\ Open(t, l, f)
    /\ \A n \in Nat, i \in ActivationType : Open(t, n, i) => n <= l
    /\ \A u \in JavaThreads, n \in Nat, i \in ActivationType :
           Open(u, n, i)' <=> \/ Open(u, n, i) /\ ~(u = t /\ n = l)
                              \/ u = t /\ n = l /\ i = g
                              \/ u = t /\ n = l + 1 /\ i = h

LEMMA TurnedAndCalled ==
    ASSUME JavaTypes, NEW t \in JavaThreads, NEW g \in ActivationType, NEW h \in ActivationType,
           GotoAndCall(t, g, h), Innermost(t).call # "program"
    PROVE  /\ jstack' \in [JavaThreads -> Seq(ActivationType)]
           /\ \E l \in Nat, f \in ActivationType :
                  f = Innermost(t) /\ TurnsAndCalls(t, l, f, g, h)
<1>1. /\ jstack[t] \in Seq(ActivationType) /\ Len(jstack[t]) \in Nat /\ Len(jstack[t]) > 0
      /\ Innermost(t) \in ActivationType /\ Open(t, Len(jstack[t]), Innermost(t))
    BY OpenCalls
<1>2. PICK l \in Nat, f \in ActivationType : l = Len(jstack[t]) /\ f = Innermost(t)
    BY <1>1
<1>3. /\ Below(t) \in Seq(ActivationType) /\ Len(Below(t)) = l - 1
      /\ \A n \in Nat : \A i : Has(Below(t), n, i) <=> Open(t, n, i) /\ n # l
    BY <1>1, <1>2, HasLeft DEF Below, Open
<1>4. /\ Append(Below(t), g) \in Seq(ActivationType) /\ Len(Append(Below(t), g)) = l
      /\ \A n \in Nat : \A i : Has(Append(Below(t), g), n, i) <=>
                                (Open(t, n, i) /\ n # l) \/ (n = l /\ i = g)
    BY <1>2, <1>3, HasAppended
<1>5. Below(t) \o <<g, h>> = Append(Append(Below(t), g), h)
    BY <1>3
<1>6. /\ Append(Append(Below(t), g), h) \in Seq(ActivationType)
      /\ \A n \in Nat : \A i : Has(Append(Append(Below(t), g), h), n, i) <=>
             (Open(t, n, i) /\ n # l) \/ (n = l /\ i = g) \/ (n = l + 1 /\ i = h)
    <2> DEFINE s == Append(Below(t), g)
    <2>1. s \in Seq(ActivationType) /\ Len(s) = l
        BY <1>4
    <2>2. \A n \in Nat : \A i : Has(s, n, i) <=> (Open(t, n, i) /\ n # l) \/ (n = l /\ i = g)
        BY <1>4
    <2> HIDE DEF s
    <2>3. /\ Append(s, h) \in Seq(ActivationType)
          /\ \A n \in Nat : \A i : Has(Append(s, h), n, i) <=> Has(s, n, i) \/ (n = l + 1 /\ i = h)
        BY <2>1, HasAppended
    <2> QED BY <2>2, <2>3 DEF s
<1>7. jstack' = [jstack EXCEPT ![t] = Append(Append(Below(t), g), h)]
    BY <1>5 DEF GotoAndCall
<1>8. /\ jstack' \in [JavaThreads -> Seq(ActivationType)]
      /\ \A u \in JavaThreads : \A n, i :
            Open(u, n, i)' <=> IF u = t THEN Has(Append(Append(Below(t), g), h), n, i)
                               ELSE Open(u, n, i)
    BY <1>6, <1>7, Rewritten
<1>9. \A n \in Nat, i \in ActivationType : Open(t, n, i) => n <= l
    BY <1>2, OpenCalls
<1>10. ASSUME NEW u \in JavaThreads, NEW n \in Nat, NEW i \in ActivationType
      PROVE  Open(u, n, i)' <=> \/ Open(u, n, i) /\ ~(u = t /\ n = l)
                                \/ u = t /\ n = l /\ i = g
                                \/ u = t /\ n = l + 1 /\ i = h
    BY <1>6, <1>8
<1>11. l > 0 /\ Open(t, l, f)
    BY <1>1, <1>2
<1>12. TurnsAndCalls(t, l, f, g, h)
    BY <1>9, <1>10, <1>11 DEF TurnsAndCalls
<1> QED BY <1>2, <1>8, <1>12

\* ... or returns
Ends(t, l, f) ==
    /\ l \in Nat /\ l > 0 /\ Open(t, l, f)
    /\ \A n \in Nat, h \in ActivationType : Open(t, n, h) => n <= l
    /\ \A u \in JavaThreads, n \in Nat, h \in ActivationType :
           Open(u, n, h)' <=> Open(u, n, h) /\ ~(u = t /\ n = l)

LEMMA Ended ==
    ASSUME JavaTypes, NEW t \in JavaThreads, Leave(t), Innermost(t).call # "program"
    PROVE  /\ jstack' \in [JavaThreads -> Seq(ActivationType)]
           /\ \E l \in Nat, f \in ActivationType : f = Innermost(t) /\ Ends(t, l, f)
<1>1. /\ jstack[t] \in Seq(ActivationType) /\ Len(jstack[t]) \in Nat /\ Len(jstack[t]) > 0
      /\ Innermost(t) \in ActivationType /\ Open(t, Len(jstack[t]), Innermost(t))
    BY OpenCalls
<1>2. PICK l \in Nat, f \in ActivationType : l = Len(jstack[t]) /\ f = Innermost(t)
    BY <1>1
<1>3. /\ Below(t) \in Seq(ActivationType)
      /\ \A n \in Nat : \A h : Has(Below(t), n, h) <=> Open(t, n, h) /\ n # l
    BY <1>1, <1>2, HasLeft DEF Below, Open
<1>4. /\ jstack' \in [JavaThreads -> Seq(ActivationType)]
      /\ \A u \in JavaThreads : \A n, h :
            Open(u, n, h)' <=> IF u = t THEN Has(Below(t), n, h) ELSE Open(u, n, h)
    BY <1>3, Rewritten DEF Leave
<1>5. ASSUME NEW u \in JavaThreads, NEW n \in Nat, NEW h \in ActivationType
      PROVE  Open(u, n, h)' <=> Open(u, n, h) /\ ~(u = t /\ n = l)
    BY <1>3, <1>4
<1>6. \A n \in Nat, h \in ActivationType : Open(t, n, h) => n <= l
    BY <1>2, OpenCalls
<1> QED BY <1>1, <1>2, <1>4, <1>5, <1>6 DEF Ends

\* InCall() and MonitorFree() ask for open calls.
LEMMA InCalls ==
    ASSUME JavaTypes, NEW x, NEW calls
    PROVE  InCall(x, calls) <=>
               \E t \in JavaThreads, n \in Nat, f \in ActivationType :
                   Open(t, n, f) /\ f.of = x /\ f.call \in calls
<1>1. \A t \in JavaThreads : jstack[t] \in Seq(ActivationType)
    BY DEF JavaTypes
<1>2. ASSUME NEW t \in JavaThreads, NEW n \in DOMAIN jstack[t]
      PROVE  Open(t, n, jstack[t][n]) /\ n \in Nat /\ jstack[t][n] \in ActivationType
    <2>1. n \in 1..Len(jstack[t]) /\ Len(jstack[t]) \in Nat
        BY <1>1
    <2> QED BY <1>1, <2>1 DEF Open, Has
<1>3. ASSUME NEW t \in JavaThreads, NEW n \in Nat, NEW f \in ActivationType, Open(t, n, f)
      PROVE  n \in DOMAIN jstack[t] /\ jstack[t][n] = f
    BY <1>3 DEF Open, Has
<1> QED BY <1>2, <1>3 DEF InCall

LEMMA Monitors ==
    ASSUME JavaTypes, NEW t \in JavaThreads, NEW p, MonitorFree(t, p)
    PROVE  \A u \in JavaThreads, n \in Nat, f \in ActivationType :
               Open(u, n, f) /\ f.call = "delete" /\ f.of = p => u = t
BY DEF MonitorFree, Open, Has

\* Where the program runs, all that is open are overrides.
LEMMA ProgramFrames ==
    ASSUME JavaTypes, Ordered, NEW t \in JavaThread, ProgramRuns(t)
    PROVE  \A n \in Nat, f \in ActivationType : Open(t, n, f) => f.call = "upcall"
<1>1. t \in JavaThreads /\ Innermost(t).call \in {"program", "upcall"}
    BY DEF ProgramRuns, JavaThreads
<1>2. SUFFICES ASSUME NEW n \in Nat, NEW f \in ActivationType, Open(t, n, f)
               PROVE  f.call = "upcall"
    OBVIOUS
<1>3. n > 0 /\ n <= Len(jstack[t]) /\ Len(jstack[t]) \in Nat
    BY <1>1, <1>2, OpenCalls
<1>4. /\ Innermost(t) \in ActivationType /\ Innermost(t).call = "upcall"
      /\ Open(t, Len(jstack[t]), Innermost(t))
    BY <1>1, <1>3, OpenCalls
<1>5. CASE n = Len(jstack[t])
    BY <1>1, <1>2, <1>4, <1>5, OpenCalls
<1>6. CASE n < Len(jstack[t])
    BY <1>1, <1>2, <1>3, <1>4, <1>6 DEF Ordered
<1> QED BY <1>3, <1>5, <1>6

\* What a destructor calls.
LEMMA OnDestructors ==
    ASSUME Ordered
    PROVE  \A t \in JavaThreads, n \in Nat : \A f, g \in ActivationType :
               Open(t, n, f) /\ Open(t, n + 1, g) /\ f.call = "dtor" =>
                   /\ f.at = "release" /\ g.call \in {"disconnect", "delete"}
                   /\ jthis[f.of] = g.of
BY DEF Ordered

\* Where swigDirectorDisconnect() runs, its object is in the destructor.
LEMMA UnderDisconnect ==
    ASSUME JavaInv, NEW t \in JavaThreads, NEW n \in Nat, NEW f \in ActivationType,
           Open(t, n, f), f.call = "disconnect"
    PROVE  \E o \in Obj : jthis[o] = f.of /\ cpp[o] = "dying" /\ n > 1
                        /\ \E g \in ActivationType : Open(t, n - 1, g) /\ g.call = "dtor" /\ g.of = o
<1>1. JavaTypes /\ Ordered /\ Destructs
    BY DEF JavaInv
<1>2. PICK g \in ActivationType : n > 1 /\ Open(t, n - 1, g) /\ g.call = "dtor"
    BY <1>1 DEF Ordered
<1>3. n - 1 \in Nat /\ (n - 1) + 1 = n
    BY <1>2
<1>4. jthis[g.of] = f.of
    BY <1>1, <1>2, <1>3, OnDestructors
<1>5. cpp[g.of] = "dying"
    BY <1>1, <1>2, <1>3 DEF Destructs, InDestructor
<1>6. g.of \in Obj
    BY <1>2, Activations
<1> QED BY <1>2, <1>4, <1>5, <1>6

\* What a destructor needs of its proxy and of the calls around it.
LEMMA StaysInDestructor ==
    ASSUME NEW t \in JavaThreads, NEW n \in Nat, NEW f \in ActivationType, InDestructor(t, n, f),
           cpp'[f.of] = cpp[f.of], jthis'[f.of] = jthis[f.of], f.of \notin weak => f.of \notin weak',
           \A p \in Proxy : jthis[f.of] = p =>
               /\ proxy[p] # "gone" => proxy'[p] # "gone"
               /\ swigCPtr[p] = Null => swigCPtr'[p] = Null,
           \A g \in ActivationType : n > 1 /\ Open(t, n - 1, g) /\ g.call = "delete" =>
               \E h \in ActivationType : Open(t, n - 1, h)' /\ h.call = "delete" /\ h.of = g.of,
           \A p \in Proxy : \A g \in ActivationType :
               jthis[f.of] = p /\ Open(t, n + 1, g) =>
                   swigCPtr'[p] = Null \/ \E h \in ActivationType : Open(t, n + 1, h)'
    PROVE  InDestructor(t, n, f)'
<1>1. PICK p \in Proxy :
          /\ cpp[f.of] = "dying" /\ jthis[f.of] = p /\ proxy[p] # "gone"
          /\ \/ f.of \notin weak
             \/ \E g \in ActivationType :
                    n > 1 /\ Open(t, n - 1, g) /\ g.call = "delete" /\ g.of = p
          /\ f.at = "release" => swigCPtr[p] = Null \/ \E g \in ActivationType : Open(t, n + 1, g)
    BY DEF InDestructor
<1>2. \/ f.of \notin weak'
      \/ \E g \in ActivationType : n > 1 /\ Open(t, n - 1, g)' /\ g.call = "delete" /\ g.of = p
    BY <1>1
<1>3. f.at = "release" => swigCPtr'[p] = Null \/ \E g \in ActivationType : Open(t, n + 1, g)'
    BY <1>1
<1> QED BY <1>1, <1>2, <1>3 DEF InDestructor

-----------------------------------------------------------------------------
(* The order of the calls, and what they exclude. *)

\* A call opened where the program runs.
LEMMA OpensInOrder ==
    ASSUME JavaTypes, Ordered, Exclusive, NEW t \in JavaThreads, NEW l \in Nat,
           NEW f \in ActivationType, Opens(t, l, f),
           \A n \in Nat, g \in ActivationType : Open(t, n, g) => g.call = "upcall",
           f.call # "disconnect", UNCHANGED jthis,
           \A u \in JavaThreads, n \in Nat, g \in ActivationType : Open(u, n, g) /\ g.of = f.of =>
               /\ f.call = "dtor" => g.call # "dtor"
               /\ f.call = "delete" => /\ g.call = "delete" => u = t
                                       /\ g.call \notin {"release", "take"}
               /\ f.call \in {"release", "take"} => g.call \notin {"release", "take", "delete"}
    PROVE  Ordered' /\ Exclusive'
<1>1. \A u \in JavaThreads, n \in Nat, g \in ActivationType :
          Open(u, n, g)' <=> Open(u, n, g) \/ (u = t /\ n = l + 1 /\ g = f)
    BY DEF Opens
<1>2. \A n \in Nat, g \in ActivationType : Open(t, n, g) => n <= l
    BY DEF Opens
<1>3. ASSUME NEW u \in JavaThreads, NEW n \in Nat, NEW m \in Nat, NEW g \in ActivationType,
             NEW h \in ActivationType, Open(u, n, g)', Open(u, m, h)', m < n, g.call = "upcall"
      PROVE  h.call = "upcall"
    BY <1>1, <1>2, <1>3 DEF Ordered
<1>4. ASSUME NEW u \in JavaThreads, NEW n \in Nat, NEW g \in ActivationType,
             NEW h \in ActivationType, Open(u, n, g)', Open(u, n + 1, h)'
      PROVE  \/ g.call = "upcall"
             \/ g.call = "delete" /\ g.at = "clear" /\ h.call = "dtor"
             \/ /\ g.call = "dtor" /\ g.at = "release"
                /\ h.call \in {"disconnect", "delete"} /\ jthis'[g.of] = h.of
    <2>1. CASE u = t /\ n + 1 = l + 1
        BY <1>1, <1>2, <1>4, <2>1
    <2>2. CASE ~(u = t /\ n = l)
        <3>1. Open(u, n, g) /\ Open(u, n + 1, h)
            BY <1>1, <1>2, <1>4, <2>2
        <3> QED BY <3>1 DEF Ordered
    <2> QED BY <2>1, <2>2
<1>5. ASSUME NEW u \in JavaThreads, NEW n \in Nat, NEW g \in ActivationType,
             Open(u, n, g)', g.call = "disconnect"
      PROVE  \E h \in ActivationType : n > 1 /\ Open(u, n - 1, h)' /\ h.call = "dtor"
    <2>1. Open(u, n, g)
        BY <1>1, <1>5
    <2>2. PICK h \in ActivationType : n > 1 /\ Open(u, n - 1, h) /\ h.call = "dtor"
        BY <1>5, <2>1 DEF Ordered
    <2> QED BY <1>1, <2>2
<1>6. Ordered'
    BY <1>3, <1>4, <1>5 DEF Ordered
<1>7. Exclusive'
    <2> SUFFICES ASSUME NEW u \in JavaThreads, NEW v \in JavaThreads, NEW n \in Nat, NEW m \in Nat,
                        NEW g \in ActivationType, NEW h \in ActivationType,
                        Open(u, n, g)', Open(v, m, h)', g.of = h.of
                 PROVE  /\ g.call = "dtor" /\ h.call = "dtor" => u = v /\ n = m
                        /\ g.call = "delete" /\ h.call = "delete" => u = v
                        /\ g.call \in {"release", "take"} /\ h.call \in {"release", "take", "delete"}
                               => u = v /\ n = m
        BY DEF Exclusive
    <2>1. CASE Open(u, n, g) /\ Open(v, m, h)
        BY <2>1 DEF Exclusive
    <2>2. CASE Open(u, n, g) /\ v = t /\ m = l + 1 /\ h = f
        BY <2>2
    <2>3. CASE u = t /\ n = l + 1 /\ g = f /\ Open(v, m, h)
        BY <2>3
    <2> QED BY <1>1, <2>1, <2>2, <2>3
<1> QED BY <1>6, <1>7

\* A call that goes on, or becomes another one for the same proxy.
LEMMA TurnsInOrder ==
    ASSUME JavaTypes, Ordered, Exclusive, NEW t \in JavaThreads, NEW l \in Nat,
           NEW f \in ActivationType, NEW g \in ActivationType, Turns(t, l, f, g),
           UNCHANGED jthis, f.of = g.of,
           f.call \in {"delete", "disconnect"}, g.call \in {"delete", f.call},
           f.call = g.call \/
               \A u \in JavaThreads, n \in Nat, h \in ActivationType : Open(u, n, h) /\ h.of = f.of =>
                   /\ h.call = "delete" => u = t
                   /\ h.call \notin {"release", "take"}
    PROVE  Ordered' /\ Exclusive'
<1>1. \A u \in JavaThreads, n \in Nat, h \in ActivationType :
          Open(u, n, h)' <=> \/ Open(u, n, h) /\ ~(u = t /\ n = l)
                             \/ u = t /\ n = l /\ h = g
    BY DEF Turns
<1>2. Open(t, l, f) /\ \A n \in Nat, h \in ActivationType : Open(t, n, h) => n <= l
    BY DEF Turns
<1>3. ASSUME NEW u \in JavaThreads, NEW n \in Nat, NEW m \in Nat, NEW h \in ActivationType,
             NEW i \in ActivationType, Open(u, n, h)', Open(u, m, i)', m < n, h.call = "upcall"
      PROVE  i.call = "upcall"
    BY <1>1, <1>2, <1>3 DEF Ordered
<1>4. ASSUME NEW u \in JavaThreads, NEW n \in Nat, NEW h \in ActivationType,
             NEW i \in ActivationType, Open(u, n, h)', Open(u, n + 1, i)'
      PROVE  \/ h.call = "upcall"
             \/ h.call = "delete" /\ h.at = "clear" /\ i.call = "dtor"
             \/ /\ h.call = "dtor" /\ h.at = "release"
                /\ i.call \in {"disconnect", "delete"} /\ jthis'[h.of] = i.of
    <2>1. CASE u = t /\ n + 1 = l
        <3>1. Open(u, n, h) /\ i = g
            BY <1>1, <1>2, <1>4, <2>1
        <3>2. \/ h.call = "upcall"
              \/ h.call = "delete" /\ h.at = "clear" /\ f.call = "dtor"
              \/ /\ h.call = "dtor" /\ h.at = "release"
                 /\ f.call \in {"disconnect", "delete"} /\ jthis[h.of] = f.of
            BY <1>2, <2>1, <3>1 DEF Ordered
        <3> QED BY <3>1, <3>2
    <2>2. CASE ~(u = t /\ n + 1 = l)
        <3>1. Open(u, n, h) /\ Open(u, n + 1, i)
            BY <1>1, <1>2, <1>4, <2>2
        <3> QED BY <3>1 DEF Ordered
    <2> QED BY <2>1, <2>2
<1>5. ASSUME NEW u \in JavaThreads, NEW n \in Nat, NEW h \in ActivationType,
             Open(u, n, h)', h.call = "disconnect"
      PROVE  \E i \in ActivationType : n > 1 /\ Open(u, n - 1, i)' /\ i.call = "dtor"
    <2>1. \E i \in ActivationType : Open(u, n, i) /\ i.call = "disconnect"
        BY <1>1, <1>2, <1>5
    <2>2. PICK i \in ActivationType : n > 1 /\ Open(u, n - 1, i) /\ i.call = "dtor"
        BY <2>1 DEF Ordered
    <2>3. ~(u = t /\ n - 1 = l) /\ n - 1 \in Nat
        BY <1>2, <2>1, <2>2
    <2> QED BY <1>1, <2>2, <2>3
<1>6. Ordered'
    BY <1>3, <1>4, <1>5 DEF Ordered
<1>7. Exclusive'
    <2> SUFFICES ASSUME NEW u \in JavaThreads, NEW v \in JavaThreads, NEW n \in Nat, NEW m \in Nat,
                        NEW h \in ActivationType, NEW i \in ActivationType,
                        Open(u, n, h)', Open(v, m, i)', h.of = i.of
                 PROVE  /\ h.call = "dtor" /\ i.call = "dtor" => u = v /\ n = m
                        /\ h.call = "delete" /\ i.call = "delete" => u = v
                        /\ h.call \in {"release", "take"} /\ i.call \in {"release", "take", "delete"}
                               => u = v /\ n = m
        BY DEF Exclusive
    <2>1. CASE Open(u, n, h) /\ Open(v, m, i)
        BY <2>1 DEF Exclusive
    <2>2. CASE Open(u, n, h) /\ v = t /\ m = l /\ i = g
        BY <1>2, <2>2 DEF Exclusive
    <2>3. CASE u = t /\ n = l /\ h = g /\ Open(v, m, i)
        BY <1>2, <2>3 DEF Exclusive
    <2> QED BY <1>1, <2>1, <2>2, <2>3
<1> QED BY <1>6, <1>7

\* delete() enters the destructor, and the destructor swigDirectorDisconnect().
LEMMA CallsInOrder ==
    ASSUME JavaTypes, Ordered, Exclusive, NEW t \in JavaThreads, NEW l \in Nat,
           NEW f \in ActivationType, NEW g \in ActivationType, NEW h \in ActivationType,
           TurnsAndCalls(t, l, f, g, h), UNCHANGED jthis, f.of = g.of, f.call = g.call,
           \/ f.call = "delete" /\ g.at = "clear" /\ h.call = "dtor"
           \/ f.call = "dtor" /\ g.at = "release" /\ h.call = "disconnect" /\ jthis[f.of] = h.of,
           \A u \in JavaThreads, n \in Nat, i \in ActivationType :
               Open(u, n, i) /\ i.call = "dtor" /\ h.call = "dtor" => i.of # h.of
    PROVE  Ordered' /\ Exclusive'
<1>1. \A u \in JavaThreads, n \in Nat, i \in ActivationType :
          Open(u, n, i)' <=> \/ Open(u, n, i) /\ ~(u = t /\ n = l)
                             \/ u = t /\ n = l /\ i = g
                             \/ u = t /\ n = l + 1 /\ i = h
    BY DEF TurnsAndCalls
<1>2. /\ Open(t, l, f) /\ l > 0
      /\ \A n \in Nat, i \in ActivationType : Open(t, n, i) => n <= l
    BY DEF TurnsAndCalls
<1>3. ASSUME NEW u \in JavaThreads, NEW n \in Nat, NEW m \in Nat, NEW i \in ActivationType,
             NEW j \in ActivationType, Open(u, n, i)', Open(u, m, j)', m < n, i.call = "upcall"
      PROVE  j.call = "upcall"
    BY <1>1, <1>2, <1>3 DEF Ordered
<1>4. ASSUME NEW u \in JavaThreads, NEW n \in Nat, NEW i \in ActivationType,
             NEW j \in ActivationType, Open(u, n, i)', Open(u, n + 1, j)'
      PROVE  \/ i.call = "upcall"
             \/ i.call = "delete" /\ i.at = "clear" /\ j.call = "dtor"
             \/ /\ i.call = "dtor" /\ i.at = "release"
                /\ j.call \in {"disconnect", "delete"} /\ jthis'[i.of] = j.of
    <2>1. CASE u = t /\ n + 1 = l
        <3>1. Open(u, n, i) /\ j = g
            BY <1>1, <1>2, <1>4, <2>1
        <3>2. \/ i.call = "upcall"
              \/ i.call = "delete" /\ i.at = "clear" /\ f.call = "dtor"
              \/ /\ i.call = "dtor" /\ i.at = "release"
                 /\ f.call \in {"disconnect", "delete"} /\ jthis[i.of] = f.of
            BY <1>2, <2>1, <3>1 DEF Ordered
        <3> QED BY <3>1, <3>2
    <2>2. CASE u = t /\ n = l
        <3>1. i = g /\ j = h
            BY <1>1, <1>2, <1>4, <2>2
        <3> QED BY <3>1
    <2>3. CASE ~(u = t /\ n + 1 = l) /\ ~(u = t /\ n = l)
        <3>1. Open(u, n, i) /\ Open(u, n + 1, j)
            BY <1>1, <1>2, <1>4, <2>3
        <3> QED BY <3>1 DEF Ordered
    <2> QED BY <2>1, <2>2, <2>3
<1>5. ASSUME NEW u \in JavaThreads, NEW n \in Nat, NEW i \in ActivationType,
             Open(u, n, i)', i.call = "disconnect"
      PROVE  \E j \in ActivationType : n > 1 /\ Open(u, n - 1, j)' /\ j.call = "dtor"
    <2>1. CASE u = t /\ n = l + 1
        <3>1. i = h /\ g.call = "dtor" /\ n - 1 = l /\ n > 1
            BY <1>1, <1>2, <1>5, <2>1
        <3> QED BY <1>1, <2>1, <3>1
    <2>2. CASE ~(u = t /\ n = l + 1)
        <3>1. Open(u, n, i)
            BY <1>1, <1>2, <1>5, <2>2
        <3>2. PICK j \in ActivationType : n > 1 /\ Open(u, n - 1, j) /\ j.call = "dtor"
            BY <1>5, <3>1 DEF Ordered
        <3>3. ~(u = t /\ n - 1 = l) /\ n - 1 \in Nat
            BY <1>2, <3>1, <3>2
        <3> QED BY <1>1, <3>2, <3>3
    <2> QED BY <2>1, <2>2
<1>6. Ordered'
    BY <1>3, <1>4, <1>5 DEF Ordered
<1>7. Exclusive'
    <2> SUFFICES ASSUME NEW u \in JavaThreads, NEW v \in JavaThreads, NEW n \in Nat, NEW m \in Nat,
                        NEW i \in ActivationType, NEW j \in ActivationType,
                        Open(u, n, i)', Open(v, m, j)', i.of = j.of
                 PROVE  /\ i.call = "dtor" /\ j.call = "dtor" => u = v /\ n = m
                        /\ i.call = "delete" /\ j.call = "delete" => u = v
                        /\ i.call \in {"release", "take"} /\ j.call \in {"release", "take", "delete"}
                               => u = v /\ n = m
        BY DEF Exclusive
    <2>1. ASSUME NEW w \in JavaThreads, NEW k \in Nat, NEW e \in ActivationType, Open(w, k, e)',
                 ~(w = t /\ k = l + 1)
          PROVE  \E d \in ActivationType : Open(w, k, d) /\ d.call = e.call /\ d.of = e.of
        BY <1>1, <1>2, <2>1
    <2>2. CASE ~(u = t /\ n = l + 1) /\ ~(v = t /\ m = l + 1)
        BY <2>1, <2>2 DEF Exclusive
    <2>3. CASE u = t /\ n = l + 1
        <3>1. i = h
            BY <1>1, <1>2, <2>3
        <3> QED BY <2>1, <2>3, <3>1
    <2>4. CASE v = t /\ m = l + 1
        <3>1. j = h
            BY <1>1, <1>2, <2>4
        <3> QED BY <2>1, <2>4, <3>1
    <2> QED BY <2>2, <2>3, <2>4
<1> QED BY <1>6, <1>7

\* A call that returns.
LEMMA EndsInOrder ==
    ASSUME JavaTypes, Ordered, Exclusive, NEW t \in JavaThreads, NEW l \in Nat,
           NEW f \in ActivationType, Ends(t, l, f),
           \A o \in Obj : jthis'[o] = jthis[o] \/ (f.call = "dtor" /\ f.of = o)
    PROVE  Ordered' /\ Exclusive'
<1>1. \A u \in JavaThreads, n \in Nat, g \in ActivationType :
          Open(u, n, g)' <=> Open(u, n, g) /\ ~(u = t /\ n = l)
    BY DEF Ends
<1>2. Open(t, l, f) /\ \A n \in Nat, h \in ActivationType : Open(t, n, h) => n <= l
    BY DEF Ends
<1>3. ASSUME NEW u \in JavaThreads, NEW n \in Nat, NEW g \in ActivationType,
             NEW h \in ActivationType, Open(u, n, g)', Open(u, n + 1, h)'
      PROVE  \/ g.call = "upcall"
             \/ g.call = "delete" /\ g.at = "clear" /\ h.call = "dtor"
             \/ /\ g.call = "dtor" /\ g.at = "release"
                /\ h.call \in {"disconnect", "delete"} /\ jthis'[g.of] = h.of
    <2>1. Open(u, n, g) /\ Open(u, n + 1, h) /\ ~(u = t /\ n = l)
        BY <1>1, <1>3
    <2>2. \/ g.call = "upcall"
          \/ g.call = "delete" /\ g.at = "clear" /\ h.call = "dtor"
          \/ /\ g.call = "dtor" /\ g.at = "release"
             /\ h.call \in {"disconnect", "delete"} /\ jthis[g.of] = h.of
        BY <2>1 DEF Ordered
    <2>3. g.call = "dtor" => g.of \in Obj
        BY Activations
    <2>4. ~(g.call = "dtor" /\ f.call = "dtor" /\ g.of = f.of)
        BY <1>2, <2>1 DEF Exclusive
    <2> QED BY <2>2, <2>3, <2>4
<1>4. ASSUME NEW u \in JavaThreads, NEW n \in Nat, NEW g \in ActivationType,
             Open(u, n, g)', g.call = "disconnect"
      PROVE  \E h \in ActivationType : n > 1 /\ Open(u, n - 1, h)' /\ h.call = "dtor"
    <2>1. Open(u, n, g)
        BY <1>1, <1>4
    <2>2. PICK h \in ActivationType : n > 1 /\ Open(u, n - 1, h) /\ h.call = "dtor"
        BY <1>4, <2>1 DEF Ordered
    <2>3. ~(u = t /\ n - 1 = l) /\ n - 1 \in Nat
        BY <1>2, <2>1, <2>2
    <2> QED BY <1>1, <2>2, <2>3
<1>5. Ordered'
    BY <1>1, <1>3, <1>4 DEF Ordered
<1>6. Exclusive'
    BY <1>1 DEF Exclusive
<1> QED BY <1>5, <1>6

\* A place has one call.
LEMMA OneCall ==
    ASSUME JavaTypes
    PROVE  \A t \in JavaThreads : \A n, f, g : Open(t, n, f) /\ Open(t, n, g) => f = g
BY OpenCalls

-----------------------------------------------------------------------------
(* The steps of the program and of the calls. *)

LEMMA JavaStarts == ASSUME Apart, JavaInit PROVE JavaInv
<1>1. \A t \in JavaThreads : \A n, f : ~Open(t, n, f)
    BY DEF JavaInit, Open, Has
<1>2. JavaTypes
    BY DEF JavaInit, JavaTypes
<1>3. Linked /\ Owned /\ Referred /\ Collected /\ UpcallsArrive
    BY DEF JavaInit, Apart, Linked, Owned, Referred, Collected, UpcallsArrive
<1>4. Ordered /\ Deletes /\ Transfers /\ Destructs /\ Exclusive
    BY <1>1 DEF Ordered, Deletes, Transfers, Destructs, Exclusive
<1> QED BY <1>2, <1>3, <1>4 DEF JavaInv

\* java.cxx, classDirectorMethod(): the way back from an override.
LEMMA UpcallReturnsKeeps == ASSUME JavaInv, NEW t \in JavaThreads, UpcallReturns(t) PROVE JavaInv'
<1>1. /\ jstack' \in [JavaThreads -> Seq(ActivationType)]
      /\ \E l \in Nat, f \in ActivationType : f = Innermost(t) /\ Ends(t, l, f)
    BY Ended DEF JavaInv, UpcallReturns
<1>2. PICK l \in Nat, f \in ActivationType : f = Innermost(t) /\ Ends(t, l, f)
    BY <1>1
<1>3. f.call = "upcall" /\ UNCHANGED <<cppVars, proxyVars, lost>>
    BY <1>2 DEF UpcallReturns
<1>4. /\ Open(t, l, f) /\ \A n \in Nat, g \in ActivationType : Open(t, n, g) => n <= l
      /\ \A u \in JavaThreads, n \in Nat, g \in ActivationType :
             Open(u, n, g)' <=> Open(u, n, g) /\ ~(u = t /\ n = l)
    BY <1>2 DEF Ends
<1>5. \A u \in JavaThreads, n \in Nat, g \in ActivationType :
          Open(u, n, g) /\ g.call # "upcall" => Open(u, n, g)'
    BY <1>3, <1>4, OneCall DEF JavaInv
<1>6. JavaTypes' /\ Linked' /\ Referred' /\ UpcallsArrive'
    BY <1>1, <1>3 DEF JavaInv, JavaTypes, Linked, Referred, UpcallsArrive, cppVars, proxyVars
<1>7. Owned'
    BY <1>3, <1>5 DEF JavaInv, Owned, cppVars, proxyVars
<1>8. Collected'
    BY <1>3, <1>5 DEF JavaInv, Collected, cppVars, proxyVars, JavaThreads
<1>9. Deletes' /\ Transfers'
    BY <1>3, <1>4 DEF JavaInv, Deletes, InDelete, Transfers, cppVars, proxyVars
<1>10. Destructs'
    <2> SUFFICES ASSUME NEW u \in JavaThreads, NEW n \in Nat, NEW e \in ActivationType,
                        Open(u, n, e)', e.call = "dtor"
                 PROVE  InDestructor(u, n, e)'
        BY DEF Destructs
    <2>1. Open(u, n, e) /\ InDestructor(u, n, e)
        BY <1>4 DEF JavaInv, Destructs
    <2>2. n > 1 => n - 1 \in Nat
        OBVIOUS
    <2>3. \A g \in ActivationType : Open(u, n + 1, g) => g.call # "upcall"
        BY <2>1, OnDestructors DEF JavaInv
    <2>4. \A g \in ActivationType : n > 1 /\ Open(u, n - 1, g) /\ g.call = "delete" =>
              Open(u, n - 1, g)'
        BY <1>5, <2>2
    <2>5. \A g \in ActivationType : Open(u, n + 1, g) => Open(u, n + 1, g)'
        BY <1>5, <2>3
    <2> QED BY <1>3, <2>1, <2>4, <2>5, StaysInDestructor DEF cppVars, proxyVars
<1>11. Ordered' /\ Exclusive'
    <2>1. \A o \in Obj : jthis'[o] = jthis[o] \/ (f.call = "dtor" /\ f.of = o)
        BY <1>3 DEF cppVars
    <2> QED BY <1>2, <2>1, EndsInOrder DEF JavaInv
<1> QED BY <1>6, <1>7, <1>8, <1>9, <1>10, <1>11 DEF JavaInv

\* director.swg, java_change_ownership(): C++ code becomes the owner.
LEMMA ChangeToCppKeeps == ASSUME JavaInv, NEW t \in JavaThreads, ChangeToCpp(t) PROVE JavaInv'
<1>1. /\ jstack' \in [JavaThreads -> Seq(ActivationType)]
      /\ \E l \in Nat, f \in ActivationType : f = Innermost(t) /\ Ends(t, l, f)
    BY Ended DEF JavaInv, ChangeToCpp
<1>2. PICK l \in Nat, f \in ActivationType : f = Innermost(t) /\ Ends(t, l, f)
    BY <1>1
<1>3. f.call = "release" /\ f.of \in Proxy
    BY <1>2, Activations DEF ChangeToCpp
<1>4. /\ Open(t, l, f) /\ \A n \in Nat, g \in ActivationType : Open(t, n, g) => n <= l
      /\ \A u \in JavaThreads, n \in Nat, g \in ActivationType :
             Open(u, n, g)' <=> Open(u, n, g) /\ ~(u = t /\ n = l)
    BY <1>2 DEF Ends
<1>5. \A u \in JavaThreads, n \in Nat, g \in ActivationType :
          Open(u, n, g) /\ (g.call # "release" \/ g.of # f.of) => Open(u, n, g)'
    BY <1>3, <1>4, OneCall DEF JavaInv
<1>6. PICK o \in Obj : swigCPtr[f.of] = o /\ cpp[o] = "alive" /\ o \notin cppOwns
    BY <1>3, <1>4 DEF JavaInv, Transfers
<1>7. /\ IF o \in weak
         THEN jniRefs' = (jniRefs \ {<<o, "weak">>}) \cup {<<o, "global">>} /\ weak' = weak \ {o}
         ELSE UNCHANGED <<jniRefs, weak>>
      /\ cppOwns' = cppOwns \cup {o} /\ UNCHANGED <<cpp, jthis, proxy, swigCPtr, swigCMemOwn, held, lost>>
    BY <1>2, <1>6 DEF ChangeToCpp, proxyVars
<1>8. jthis[o] = f.of /\ proxy[f.of] = "live"
    BY <1>3, <1>4, <1>6 DEF JavaInv, Linked, Transfers
<1>9. weak' = weak \ {o}
    BY <1>7
<1>10. JavaTypes'
    BY <1>1, <1>7 DEF JavaInv, JavaTypes
<1>11. Linked' /\ UpcallsArrive'
    BY <1>7 DEF JavaInv, Linked, UpcallsArrive
<1>12. Owned'
    BY <1>3, <1>5, <1>6, <1>7, <1>8, <1>9 DEF JavaInv, Owned
<1>13. Referred'
    BY <1>3, <1>6, <1>7, <1>8, <1>9 DEF JavaInv, Referred
<1>14. Collected'
    BY <1>5, <1>7 DEF JavaInv, Collected, JavaThreads
<1>15. ASSUME NEW u \in JavaThreads, NEW n \in Nat, NEW g \in ActivationType, Open(u, n, g)',
              g.call \in {"delete", "release", "take"}
       PROVE  swigCPtr[g.of] # o
    <2>1. Open(u, n, g) /\ ~(u = t /\ n = l) /\ g.of \in Proxy
        BY <1>4, <1>15, Activations, ZenonT(60)
    <2>2. g.of # f.of
        BY <1>3, <1>4, <1>15, <2>1 DEF JavaInv, Exclusive
    <2> QED BY <1>8, <2>1, <2>2 DEF JavaInv, Linked
<1>16. Deletes'
    BY <1>4, <1>7, <1>15 DEF JavaInv, Deletes, InDelete
<1>17. Transfers'
    BY <1>4, <1>7, <1>15 DEF JavaInv, Transfers
<1>18. Destructs'
    <2> SUFFICES ASSUME NEW u \in JavaThreads, NEW n \in Nat, NEW e \in ActivationType,
                        Open(u, n, e)', e.call = "dtor"
                 PROVE  InDestructor(u, n, e)'
        BY DEF Destructs
    <2>1. Open(u, n, e) /\ InDestructor(u, n, e)
        BY <1>4 DEF JavaInv, Destructs
    <2>2. n > 1 => n - 1 \in Nat
        OBVIOUS
    <2>3. \A g \in ActivationType : Open(u, n + 1, g) => g.call # "release"
        BY <2>1, OnDestructors DEF JavaInv
    <2>4. \A g \in ActivationType : n > 1 /\ Open(u, n - 1, g) /\ g.call = "delete" =>
              Open(u, n - 1, g)'
        BY <1>5, <2>2
    <2>5. \A g \in ActivationType : Open(u, n + 1, g) => Open(u, n + 1, g)'
        BY <1>5, <2>3
    <2> QED BY <1>7, <1>9, <2>1, <2>4, <2>5, StaysInDestructor
<1>19. Ordered' /\ Exclusive'
    BY <1>2, <1>7, EndsInOrder DEF JavaInv
<1> QED BY <1>10, <1>11, <1>12, <1>13, <1>14, <1>16, <1>17, <1>18, <1>19 DEF JavaInv

\* java.cxx, java_change_ownership() and swigTakeOwnership(): the proxy becomes the owner.
LEMMA ChangeToJavaKeeps == ASSUME JavaInv, NEW t \in JavaThreads, ChangeToJava(t) PROVE JavaInv'
<1>1. /\ jstack' \in [JavaThreads -> Seq(ActivationType)]
      /\ \E l \in Nat, f \in ActivationType : f = Innermost(t) /\ Ends(t, l, f)
    BY Ended DEF JavaInv, ChangeToJava
<1>2. PICK l \in Nat, f \in ActivationType : f = Innermost(t) /\ Ends(t, l, f)
    BY <1>1
<1>3. f.call = "take" /\ f.of \in Proxy
    BY <1>2, Activations DEF ChangeToJava
<1>4. /\ Open(t, l, f) /\ \A n \in Nat, g \in ActivationType : Open(t, n, g) => n <= l
      /\ \A u \in JavaThreads, n \in Nat, g \in ActivationType :
             Open(u, n, g)' <=> Open(u, n, g) /\ ~(u = t /\ n = l)
    BY <1>2 DEF Ends
<1>5. \A u \in JavaThreads, n \in Nat, g \in ActivationType :
          Open(u, n, g) /\ g.call # "take" => Open(u, n, g)'
    BY <1>3, <1>4, OneCall DEF JavaInv
<1>6. PICK o \in Obj : swigCPtr[f.of] = o /\ cpp[o] = "alive" /\ o \notin cppOwns
    BY <1>3, <1>4 DEF JavaInv, Transfers
<1>7. /\ IF o \notin weak
         THEN jniRefs' = (jniRefs \ {<<o, "global">>}) \cup {<<o, "weak">>} /\ weak' = weak \cup {o}
         ELSE UNCHANGED <<jniRefs, weak>>
      /\ UNCHANGED <<cpp, cppOwns, jthis, proxy, swigCPtr, swigCMemOwn, held, lost>>
    BY <1>2, <1>6 DEF ChangeToJava, proxyVars
<1>8. weak' = weak \cup {o}
    BY <1>7
<1>9. JavaTypes'
    BY <1>1, <1>7 DEF JavaInv, JavaTypes
<1>10. Linked' /\ UpcallsArrive'
    BY <1>7 DEF JavaInv, Linked, UpcallsArrive
<1>11. Owned'
    BY <1>5, <1>6, <1>7, <1>8 DEF JavaInv, Owned
<1>12. Referred'
    BY <1>6, <1>7, <1>8 DEF JavaInv, Referred
<1>13. Collected'
    BY <1>5, <1>7 DEF JavaInv, Collected, JavaThreads
<1>14. Deletes' /\ Transfers'
    BY <1>4, <1>7 DEF JavaInv, Deletes, InDelete, Transfers
<1>15. Destructs'
    <2> SUFFICES ASSUME NEW u \in JavaThreads, NEW n \in Nat, NEW e \in ActivationType,
                        Open(u, n, e)', e.call = "dtor"
                 PROVE  InDestructor(u, n, e)'
        BY DEF Destructs
    <2>1. Open(u, n, e) /\ InDestructor(u, n, e)
        BY <1>4 DEF JavaInv, Destructs
    <2>2. n > 1 => n - 1 \in Nat
        OBVIOUS
    <2>3. \A g \in ActivationType : Open(u, n + 1, g) => g.call # "take"
        BY <2>1, OnDestructors DEF JavaInv
    <2>4. \A g \in ActivationType : n > 1 /\ Open(u, n - 1, g) /\ g.call = "delete" =>
              Open(u, n - 1, g)'
        BY <1>5, <2>2
    <2>5. \A g \in ActivationType : Open(u, n + 1, g) => Open(u, n + 1, g)'
        BY <1>5, <2>3
    <2>6. e.of # o
        BY <1>6, <2>1 DEF InDestructor
    <2> QED BY <1>7, <1>8, <2>1, <2>4, <2>5, <2>6, StaysInDestructor
<1>16. Ordered' /\ Exclusive'
    BY <1>2, <1>7, EndsInOrder DEF JavaInv
<1> QED BY <1>9, <1>10, <1>11, <1>12, <1>13, <1>14, <1>15, <1>16 DEF JavaInv

\* java.swg, delete(): the proxy forgets the address, and delete() returns.
LEMMA DeleteClearKeeps == ASSUME JavaInv, Apart, NEW t \in JavaThreads, DeleteClear(t) PROVE JavaInv'
<1>1. /\ jstack' \in [JavaThreads -> Seq(ActivationType)]
      /\ \E l \in Nat, f \in ActivationType : f = Innermost(t) /\ Ends(t, l, f)
    BY Ended DEF JavaInv, DeleteClear
<1>2. PICK l \in Nat, f \in ActivationType : f = Innermost(t) /\ Ends(t, l, f)
    BY <1>1
<1>3. f.call = "delete" /\ f.at = "clear" /\ f.of \in Proxy
    BY <1>2, Activations DEF DeleteClear
<1>4. /\ Open(t, l, f) /\ \A n \in Nat, g \in ActivationType : Open(t, n, g) => n <= l
      /\ \A u \in JavaThreads, n \in Nat, g \in ActivationType :
             Open(u, n, g)' <=> Open(u, n, g) /\ ~(u = t /\ n = l)
    BY <1>2 DEF Ends
<1>5. \A u \in JavaThreads, n \in Nat, g \in ActivationType :
          Open(u, n, g) /\ (g.call # "delete" \/ g.of # f.of) => Open(u, n, g)'
    BY <1>3, <1>4, OneCall DEF JavaInv
<1>6. /\ UNCHANGED <<cpp, cppOwns, jthis, weak, jniRefs, proxy, swigCMemOwn, held, lost>>
      /\ swigCPtr' = [swigCPtr EXCEPT ![f.of] = Null]
    BY <1>2 DEF DeleteClear, cppVars
<1>7. Null \notin Obj /\ swigCPtr \in [Proxy -> Obj \cup {Null}]
    BY DEF Apart, JavaInv, JavaTypes
<1>8. \A p \in Proxy : swigCPtr'[p] = IF p = f.of THEN Null ELSE swigCPtr[p]
    BY <1>3, <1>6, <1>7
<1>9. JavaTypes'
    BY <1>1, <1>3, <1>6, <1>7 DEF JavaInv, JavaTypes
<1>10. Linked' /\ Referred' /\ UpcallsArrive'
    BY <1>6, <1>7, <1>8 DEF JavaInv, Linked, Referred, UpcallsArrive
<1>11. Owned'
    <2>1. \A o \in Obj : swigCPtr[f.of] = o /\ cpp[o] = "alive" => o \in cppOwns
        BY <1>3, <1>4 DEF JavaInv, Deletes, InDelete
    <2> QED BY <1>3, <1>5, <1>6, <1>7, <1>8, <2>1 DEF JavaInv, Owned
<1>12. Collected'
    BY <1>5, <1>6, <1>8 DEF JavaInv, Collected, JavaThreads
<1>13. Deletes'
    <2>1. ASSUME NEW g \in ActivationType, InDelete(g) PROVE InDelete(g)'
        BY <1>6, <1>7, <1>8, <2>1, Activations DEF InDelete
    <2> QED BY <1>4, <2>1 DEF JavaInv, Deletes
<1>14. Transfers'
    <2> SUFFICES ASSUME NEW u \in JavaThreads, NEW n \in Nat, NEW g \in ActivationType,
                        Open(u, n, g)', g.call \in {"release", "take"}
                 PROVE  /\ proxy'[g.of] = "live"
                        /\ \E o \in Obj : swigCPtr'[g.of] = o /\ cpp'[o] = "alive" /\ o \notin cppOwns'
        BY DEF Transfers
    <2>1. Open(u, n, g) /\ g.of \in Proxy
        BY <1>4, Activations
    <2>2. g.of # f.of
        BY <1>3, <1>4, <2>1 DEF JavaInv, Exclusive
    <2> QED BY <1>6, <1>8, <2>1, <2>2 DEF JavaInv, Transfers
<1>15. Destructs'
    <2> SUFFICES ASSUME NEW u \in JavaThreads, NEW n \in Nat, NEW e \in ActivationType,
                        Open(u, n, e)', e.call = "dtor"
                 PROVE  InDestructor(u, n, e)'
        BY DEF Destructs
    <2>1. Open(u, n, e) /\ InDestructor(u, n, e)
        BY <1>4 DEF JavaInv, Destructs
    <2>2. n > 1 => n - 1 \in Nat
        OBVIOUS
    <2>3. ASSUME NEW g \in ActivationType, n > 1, Open(u, n - 1, g)
          PROVE  Open(u, n - 1, g)'
        BY <1>4, <2>1, <2>2, <2>3
    <2>4. ASSUME NEW p \in Proxy, NEW g \in ActivationType, jthis[e.of] = p, Open(u, n + 1, g)
          PROVE  swigCPtr'[p] = Null \/ \E h \in ActivationType : Open(u, n + 1, h)'
        <3>1. jthis[e.of] = g.of
            BY <2>1, <2>4, OnDestructors DEF JavaInv
        <3> QED BY <1>5, <1>8, <2>4, <3>1
    <2>5. \A p \in Proxy : swigCPtr[p] = Null => swigCPtr'[p] = Null
        BY <1>8
    <2> QED BY <1>6, <2>1, <2>3, <2>4, <2>5, StaysInDestructor
<1>16. Ordered' /\ Exclusive'
    BY <1>2, <1>6, EndsInOrder DEF JavaInv
<1> QED BY <1>9, <1>10, <1>11, <1>12, <1>13, <1>14, <1>15, <1>16 DEF JavaInv

\* director.swg, JObjectWrapper::release(): the end of the object.
LEMMA DtorReleaseKeeps == ASSUME JavaInv, Apart, NEW t \in JavaThreads, DtorRelease(t) PROVE JavaInv'
<1>1. /\ jstack' \in [JavaThreads -> Seq(ActivationType)]
      /\ \E l \in Nat, f \in ActivationType : f = Innermost(t) /\ Ends(t, l, f)
    BY Ended DEF JavaInv, DtorRelease
<1>2. PICK l \in Nat, f \in ActivationType : f = Innermost(t) /\ Ends(t, l, f)
    BY <1>1
<1>3. f.call = "dtor" /\ f.at = "release" /\ f.of \in Obj
    BY <1>2, Activations DEF DtorRelease
<1>4. /\ Open(t, l, f) /\ \A n \in Nat, g \in ActivationType : Open(t, n, g) => n <= l
      /\ \A u \in JavaThreads, n \in Nat, g \in ActivationType :
             Open(u, n, g)' <=> Open(u, n, g) /\ ~(u = t /\ n = l)
    BY <1>2 DEF Ends
<1>5. \A u \in JavaThreads, n \in Nat, g \in ActivationType :
          Open(u, n, g) /\ g.call # "dtor" => Open(u, n, g)'
    BY <1>3, <1>4, OneCall DEF JavaInv
<1>6. /\ cpp[f.of] = "dying"
      /\ \E p \in Proxy : jthis[f.of] = p /\ proxy[p] # "gone" /\ swigCPtr[p] = Null
    <2>1. InDestructor(t, l, f)
        BY <1>3, <1>4 DEF JavaInv, Destructs
    <2>2. \A g \in ActivationType : ~Open(t, l + 1, g)
        BY <1>4
    <2> QED BY <1>3, <2>1, <2>2 DEF InDestructor
<1>7. PICK p \in Proxy : jthis[f.of] = p /\ proxy[p] # "gone" /\ swigCPtr[p] = Null
    BY <1>6
<1>8. /\ jniRefs' = jniRefs \ {<<f.of, IF f.of \in weak THEN "weak" ELSE "global">>}
      /\ jthis' = [jthis EXCEPT ![f.of] = Null] /\ weak' = weak \cup {f.of}
      /\ cpp' = [cpp EXCEPT ![f.of] = "dead"]
      /\ UNCHANGED <<cppOwns, proxy, swigCPtr, swigCMemOwn, held, lost>>
    <2>1. f.of \in DOMAIN cpp
        BY <1>3 DEF JavaInv, JavaTypes
    <2> QED BY <1>2, <1>6, <1>7, <2>1 DEF DtorRelease, Apart, proxyVars
<1>9. /\ \A o \in Obj : cpp'[o] = IF o = f.of THEN "dead" ELSE cpp[o]
      /\ \A o \in Obj : jthis'[o] = IF o = f.of THEN Null ELSE jthis[o]
    BY <1>8 DEF JavaInv, JavaTypes
<1>10. \A q \in Proxy : swigCPtr[q] # f.of
    BY <1>3, <1>7 DEF JavaInv, Linked, Apart
<1>11. JavaTypes'
    BY <1>1, <1>3, <1>8 DEF JavaInv, JavaTypes
<1>12. Linked' /\ UpcallsArrive'
    BY <1>3, <1>8, <1>9, <1>10 DEF JavaInv, Linked, UpcallsArrive, Apart
<1>13. Owned'
    BY <1>3, <1>5, <1>6, <1>8, <1>9, <1>10 DEF JavaInv, Owned
<1>14. Referred'
    <2>1. /\ <<f.of, "weak">> \notin jniRefs' /\ <<f.of, "global">> \notin jniRefs'
          /\ f.of \in weak'
        BY <1>3, <1>6, <1>8 DEF JavaInv, Referred
    <2>2. \A o \in Obj \ {f.of} :
              /\ <<o, "weak">> \in jniRefs' <=> <<o, "weak">> \in jniRefs
              /\ <<o, "global">> \in jniRefs' <=> <<o, "global">> \in jniRefs
              /\ o \in weak' <=> o \in weak
        BY <1>8
    <2> QED BY <1>3, <1>8, <1>9, <2>1, <2>2 DEF JavaInv, Referred
<1>15. Collected'
    BY <1>5, <1>8 DEF JavaInv, Collected, JavaThreads
<1>16. Deletes'
    <2>1. ASSUME NEW g \in ActivationType, InDelete(g) PROVE InDelete(g)'
        <3>1. g.call # "dtor" => g.of \in Proxy
            BY Activations
        <3>2. g.call # "dtor" => \A o \in Obj : swigCPtr[g.of] = o => cpp'[o] = cpp[o]
            BY <1>9, <1>10, <3>1
        <3> QED BY <1>8, <2>1, <3>2 DEF InDelete
    <2> QED BY <1>4, <2>1 DEF JavaInv, Deletes
<1>17. Transfers'
    BY <1>4, <1>6, <1>8, <1>9 DEF JavaInv, Transfers
<1>18. Destructs'
    <2> SUFFICES ASSUME NEW u \in JavaThreads, NEW n \in Nat, NEW e \in ActivationType,
                        Open(u, n, e)', e.call = "dtor"
                 PROVE  InDestructor(u, n, e)'
        BY DEF Destructs
    <2>1. Open(u, n, e) /\ InDestructor(u, n, e) /\ ~(u = t /\ n = l)
        BY <1>4 DEF JavaInv, Destructs
    <2>2. n > 1 => n - 1 \in Nat
        OBVIOUS
    <2>3. \A g \in ActivationType : Open(u, n + 1, g) => g.call # "dtor"
        BY <2>1, OnDestructors DEF JavaInv
    <2>4. \A g \in ActivationType : n > 1 /\ Open(u, n - 1, g) /\ g.call = "delete" =>
              Open(u, n - 1, g)'
        BY <1>5, <2>2
    <2>5. \A g \in ActivationType : Open(u, n + 1, g) => Open(u, n + 1, g)'
        BY <1>5, <2>3
    <2>6. e.of # f.of
        BY <1>3, <1>4, <2>1 DEF JavaInv, Exclusive
    <2>7. e.of \in Obj
        BY Activations
    <2> QED BY <1>8, <1>9, <2>1, <2>4, <2>5, <2>6, <2>7, StaysInDestructor
<1>19. Ordered' /\ Exclusive'
    BY <1>2, <1>3, <1>9, EndsInOrder DEF JavaInv
<1> QED BY <1>11, <1>12, <1>13, <1>14, <1>15, <1>16, <1>17, <1>18, <1>19 DEF JavaInv

\* swigDirectorDisconnect(): the proxy does not own the object any more.
LEMMA DisconnectKeeps == ASSUME JavaInv, NEW t \in JavaThreads, Disconnect(t) PROVE JavaInv'
<1>1. Innermost(t) \in ActivationType /\ Innermost(t).call = "disconnect"
    BY OpenCalls DEF JavaInv, Disconnect
<1>2. PICK g \in ActivationType : g = Activation("disconnect", Innermost(t).of, "delete")
    BY <1>1, Activations
<1>3. /\ jstack' \in [JavaThreads -> Seq(ActivationType)]
      /\ \E l \in Nat, f \in ActivationType : f = Innermost(t) /\ Turns(t, l, f, g)
    BY <1>1, <1>2, Turned DEF JavaInv, Disconnect
<1>4. PICK l \in Nat, f \in ActivationType : f = Innermost(t) /\ Turns(t, l, f, g)
    BY <1>3
<1>5. /\ f.call = "disconnect" /\ f.of \in Proxy
      /\ g.call = "disconnect" /\ g.of = f.of
    <2>1. f.of \in Proxy
        BY <1>1, <1>4, Activations
    <2> QED BY <1>1, <1>2, <1>4, <2>1 DEF Activation
<1>6. /\ Open(t, l, f) /\ \A n \in Nat, h \in ActivationType : Open(t, n, h) => n <= l
      /\ \A u \in JavaThreads, n \in Nat, h \in ActivationType :
             Open(u, n, h)' <=> \/ Open(u, n, h) /\ ~(u = t /\ n = l)
                                \/ u = t /\ n = l /\ h = g
    BY <1>4 DEF Turns
<1>7. \A u \in JavaThreads, n \in Nat, h \in ActivationType :
          Open(u, n, h) /\ h.call # "disconnect" => Open(u, n, h)'
    BY <1>5, <1>6, OneCall DEF JavaInv
<1>8. /\ UNCHANGED <<cpp, cppOwns, jthis, weak, jniRefs, proxy, swigCPtr, held, lost>>
      /\ swigCMemOwn' = [swigCMemOwn EXCEPT ![f.of] = FALSE]
    BY <1>4 DEF Disconnect, cppVars
<1>9. \A p \in Proxy : swigCMemOwn'[p] = IF p = f.of THEN FALSE ELSE swigCMemOwn[p]
    BY <1>5, <1>8 DEF JavaInv, JavaTypes
<1>10. JavaTypes'
    BY <1>3, <1>5, <1>8 DEF JavaInv, JavaTypes
<1>11. Linked' /\ Referred' /\ UpcallsArrive'
    BY <1>8 DEF JavaInv, Linked, Referred, UpcallsArrive
<1>12. Owned'
    <2>1. PICK o \in Obj : jthis[o] = f.of /\ cpp[o] = "dying"
        BY <1>5, <1>6, UnderDisconnect
    <2>2. \A u \in Obj : cpp[u] = "alive" => jthis[u] # f.of
        BY <1>5, <2>1 DEF JavaInv, Linked
    <2> QED BY <1>7, <1>8, <1>9, <2>2 DEF JavaInv, Owned
<1>13. Collected'
    BY <1>7, <1>8 DEF JavaInv, Collected, JavaThreads
<1>14. Deletes'
    <2>1. ASSUME NEW h \in ActivationType, InDelete(h) PROVE InDelete(h)'
        <3>1. h.call # "dtor" => h.of \in Proxy
            BY Activations
        <3> QED BY <1>8, <1>9, <2>1, <3>1 DEF InDelete
    <2>2. InDelete(g)'
        <3>1. proxy[f.of] # "none"
            BY <1>5, <1>6 DEF JavaInv, Deletes, InDelete
        <3> QED BY <1>5, <1>8, <1>9, <3>1 DEF InDelete
    <2> QED BY <1>6, <2>1, <2>2 DEF JavaInv, Deletes
<1>15. Transfers'
    BY <1>5, <1>6, <1>8 DEF JavaInv, Transfers
<1>16. Destructs'
    <2> SUFFICES ASSUME NEW u \in JavaThreads, NEW n \in Nat, NEW e \in ActivationType,
                        Open(u, n, e)', e.call = "dtor"
                 PROVE  InDestructor(u, n, e)'
        BY DEF Destructs
    <2>1. Open(u, n, e) /\ InDestructor(u, n, e)
        BY <1>5, <1>6 DEF JavaInv, Destructs
    <2>2. n > 1 => n - 1 \in Nat
        OBVIOUS
    <2>3. \A h \in ActivationType : n > 1 /\ Open(u, n - 1, h) /\ h.call = "delete" =>
              Open(u, n - 1, h)'
        BY <1>7, <2>2
    <2>4. \A h \in ActivationType : Open(u, n + 1, h) =>
              \E i \in ActivationType : Open(u, n + 1, i)'
        BY <1>6
    <2> QED BY <1>8, <2>1, <2>3, <2>4, StaysInDestructor
<1>17. Ordered' /\ Exclusive'
    BY <1>4, <1>5, <1>8, TurnsInOrder DEF JavaInv
<1> QED BY <1>10, <1>11, <1>12, <1>13, <1>14, <1>15, <1>16, <1>17 DEF JavaInv

\* ... and calls delete(), when nobody else is in it.
LEMMA DisconnectDeleteKeeps ==
    ASSUME JavaInv, NEW t \in JavaThreads, DisconnectDelete(t) PROVE JavaInv'
<1>1. Innermost(t) \in ActivationType /\ Innermost(t).call = "disconnect"
    BY OpenCalls DEF JavaInv, DisconnectDelete
<1>2. PICK g \in ActivationType : g = Activation("delete", Innermost(t).of, "test")
    BY <1>1, Activations
<1>3. /\ jstack' \in [JavaThreads -> Seq(ActivationType)]
      /\ \E l \in Nat, f \in ActivationType : f = Innermost(t) /\ Turns(t, l, f, g)
    BY <1>1, <1>2, Turned DEF JavaInv, DisconnectDelete
<1>4. PICK l \in Nat, f \in ActivationType : f = Innermost(t) /\ Turns(t, l, f, g)
    BY <1>3
<1>5. /\ f.call = "disconnect" /\ f.at = "delete" /\ f.of \in Proxy
      /\ g.call = "delete" /\ g.at = "test" /\ g.of = f.of
    <2>1. f.of \in Proxy
        BY <1>1, <1>4, Activations
    <2> QED BY <1>1, <1>2, <1>4, <2>1 DEF Activation, DisconnectDelete
<1>6. /\ Open(t, l, f) /\ \A n \in Nat, h \in ActivationType : Open(t, n, h) => n <= l
      /\ \A u \in JavaThreads, n \in Nat, h \in ActivationType :
             Open(u, n, h)' <=> \/ Open(u, n, h) /\ ~(u = t /\ n = l)
                                \/ u = t /\ n = l /\ h = g
    BY <1>4 DEF Turns
<1>7. \A u \in JavaThreads, n \in Nat, h \in ActivationType :
          Open(u, n, h) /\ h.call # "disconnect" => Open(u, n, h)'
    BY <1>5, <1>6, OneCall DEF JavaInv
<1>8. UNCHANGED <<cpp, cppOwns, jthis, weak, jniRefs, proxy, swigCPtr, swigCMemOwn, held, lost>>
    BY DEF DisconnectDelete, cppVars, proxyVars
<1>9. JavaTypes' /\ Linked' /\ Referred' /\ UpcallsArrive'
    BY <1>3, <1>8 DEF JavaInv, JavaTypes, Linked, Referred, UpcallsArrive
<1>10. Owned'
    BY <1>7, <1>8 DEF JavaInv, Owned
<1>11. Collected'
    BY <1>7, <1>8 DEF JavaInv, Collected, JavaThreads
<1>12. Deletes'
    <2>1. InDelete(f)
        BY <1>6 DEF JavaInv, Deletes
    <2>2. InDelete(g)'
        BY <1>5, <1>8, <2>1 DEF InDelete
    <2>3. \A h \in ActivationType : InDelete(h) => InDelete(h)'
        BY <1>8 DEF InDelete
    <2> QED BY <1>6, <2>2, <2>3 DEF JavaInv, Deletes
<1>13. Transfers'
    BY <1>5, <1>6, <1>8 DEF JavaInv, Transfers
<1>14. Destructs'
    <2> SUFFICES ASSUME NEW u \in JavaThreads, NEW n \in Nat, NEW e \in ActivationType,
                        Open(u, n, e)', e.call = "dtor"
                 PROVE  InDestructor(u, n, e)'
        BY DEF Destructs
    <2>1. Open(u, n, e) /\ InDestructor(u, n, e)
        BY <1>5, <1>6 DEF JavaInv, Destructs
    <2>2. n > 1 => n - 1 \in Nat
        OBVIOUS
    <2>3. \A h \in ActivationType : n > 1 /\ Open(u, n - 1, h) /\ h.call = "delete" =>
              Open(u, n - 1, h)'
        BY <1>7, <2>2
    <2>4. \A h \in ActivationType : Open(u, n + 1, h) =>
              \E i \in ActivationType : Open(u, n + 1, i)'
        BY <1>6
    <2> QED BY <1>8, <2>1, <2>3, <2>4, StaysInDestructor
<1>15. Ordered' /\ Exclusive'
    <2>1. MonitorFree(t, f.of)
        BY <1>4 DEF DisconnectDelete
    <2>2. PICK o \in Obj : jthis[o] = f.of /\ cpp[o] = "dying"
        BY <1>5, <1>6, UnderDisconnect
    <2>3. ASSUME NEW u \in JavaThreads, NEW n \in Nat, NEW h \in ActivationType,
                 Open(u, n, h), h.of = f.of, h.call \in {"release", "take"}
          PROVE  FALSE
        <3>1. PICK i \in Obj : swigCPtr[f.of] = i /\ cpp[i] = "alive"
            BY <2>3 DEF JavaInv, Transfers
        <3> QED BY <1>5, <2>2, <3>1 DEF JavaInv, Linked
    <2>4. \A u \in JavaThreads, n \in Nat, h \in ActivationType :
              Open(u, n, h) /\ h.of = f.of /\ h.call = "delete" => u = t
        BY <2>1, Monitors DEF JavaInv
    <2> QED BY <1>4, <1>5, <1>8, <2>3, <2>4, TurnsInOrder DEF JavaInv
<1> QED BY <1>9, <1>10, <1>11, <1>12, <1>13, <1>14, <1>15 DEF JavaInv

\* director.swg, swig_disconnect_director_self(): the destructor finds its proxy.
LEMMA DtorDisconnectKeeps ==
    ASSUME JavaInv, Apart, NEW t \in JavaThreads, DtorDisconnect(t) PROVE JavaInv'
<1>1. /\ Innermost(t) \in ActivationType /\ Innermost(t).call = "dtor" /\ Innermost(t).of \in Obj
      /\ Len(jstack[t]) \in Nat /\ Open(t, Len(jstack[t]), Innermost(t))
    BY OpenCalls, Activations DEF JavaInv, DtorDisconnect
<1>2. PICK p \in Proxy : jthis[Innermost(t).of] = p /\ proxy[p] # "gone"
    BY <1>1 DEF JavaInv, Destructs, InDestructor
<1>3. PICK g \in ActivationType, h \in ActivationType :
          g = Activation("dtor", Innermost(t).of, "release") /\ h = Activation("disconnect", p, "own")
    BY <1>1, Activations
<1>4. GotoAndCall(t, g, h)
    BY <1>2, <1>3 DEF DtorDisconnect, Apart
<1>5. /\ jstack' \in [JavaThreads -> Seq(ActivationType)]
      /\ \E l \in Nat, f \in ActivationType : f = Innermost(t) /\ TurnsAndCalls(t, l, f, g, h)
    BY <1>1, <1>4, TurnedAndCalled DEF JavaInv
<1>6. PICK l \in Nat, f \in ActivationType : f = Innermost(t) /\ TurnsAndCalls(t, l, f, g, h)
    BY <1>5
<1>7. /\ f.call = "dtor" /\ f.of \in Obj /\ jthis[f.of] = p
      /\ g.call = "dtor" /\ g.of = f.of /\ g.at = "release"
      /\ h.call = "disconnect" /\ h.of = p /\ h.at = "own"
    BY <1>1, <1>2, <1>3, <1>6 DEF Activation
<1>8. /\ Open(t, l, f) /\ \A n \in Nat, i \in ActivationType : Open(t, n, i) => n <= l
      /\ \A u \in JavaThreads, n \in Nat, i \in ActivationType :
             Open(u, n, i)' <=> \/ Open(u, n, i) /\ ~(u = t /\ n = l)
                                \/ u = t /\ n = l /\ i = g
                                \/ u = t /\ n = l + 1 /\ i = h
    BY <1>6 DEF TurnsAndCalls
<1>9. \A u \in JavaThreads, n \in Nat, i \in ActivationType :
          Open(u, n, i) /\ i.call # "dtor" => Open(u, n, i)'
    BY <1>7, <1>8, OneCall DEF JavaInv
<1>10. UNCHANGED <<cpp, cppOwns, jthis, weak, jniRefs, proxy, swigCPtr, swigCMemOwn, held, lost>>
    BY DEF DtorDisconnect, cppVars, proxyVars
<1>11. JavaTypes' /\ Linked' /\ Referred' /\ UpcallsArrive'
    BY <1>5, <1>10 DEF JavaInv, JavaTypes, Linked, Referred, UpcallsArrive
<1>12. Owned'
    BY <1>9, <1>10 DEF JavaInv, Owned
<1>13. Collected'
    BY <1>9, <1>10 DEF JavaInv, Collected, JavaThreads
<1>14. Deletes'
    <2>1. proxy[p] # "none"
        BY <1>7 DEF JavaInv, Linked
    <2>2. InDelete(g)' /\ InDelete(h)'
        BY <1>7, <1>10, <2>1 DEF InDelete
    <2>3. \A i \in ActivationType : InDelete(i) => InDelete(i)'
        BY <1>10 DEF InDelete
    <2> QED BY <1>8, <2>2, <2>3 DEF JavaInv, Deletes
<1>15. Transfers'
    BY <1>7, <1>8, <1>10 DEF JavaInv, Transfers
<1>16. Destructs'
    <2> SUFFICES ASSUME NEW u \in JavaThreads, NEW n \in Nat, NEW e \in ActivationType,
                        Open(u, n, e)', e.call = "dtor"
                 PROVE  InDestructor(u, n, e)'
        BY DEF Destructs
    <2>1. n > 1 => n - 1 \in Nat
        OBVIOUS
    <2>2. \A i \in ActivationType : n > 1 /\ Open(u, n - 1, i) /\ i.call = "delete" =>
              Open(u, n - 1, i)'
        BY <1>9, <2>1
    <2>3. CASE u = t /\ n = l
        <3>1. InDestructor(t, l, f) /\ e = g
            BY <1>7, <1>8, <2>3 DEF JavaInv, Destructs
        <3>2. Open(t, l + 1, h)'
            BY <1>8
        <3>3. \/ f.of \notin weak
              \/ \E i \in ActivationType : n > 1 /\ Open(u, n - 1, i) /\ i.call = "delete" /\ i.of = p
            BY <1>7, <2>3, <3>1 DEF InDestructor
        <3>4. cpp[f.of] = "dying" /\ proxy[p] # "gone"
            BY <1>7, <3>1 DEF InDestructor
        <3> QED BY <1>7, <1>10, <2>2, <2>3, <3>1, <3>2, <3>3, <3>4 DEF InDestructor
    <2>4. CASE ~(u = t /\ n = l)
        <3>1. Open(u, n, e) /\ InDestructor(u, n, e)
            BY <1>7, <1>8, <2>4 DEF JavaInv, Destructs
        <3>2. \A i \in ActivationType :
                  Open(u, n + 1, i) => \E j \in ActivationType : Open(u, n + 1, j)'
            BY <1>8
        <3> QED BY <1>10, <2>2, <3>1, <3>2, StaysInDestructor
    <2> QED BY <2>3, <2>4
<1>17. Ordered' /\ Exclusive'
    BY <1>6, <1>7, <1>10, CallsInOrder DEF JavaInv
<1> QED BY <1>11, <1>12, <1>13, <1>14, <1>15, <1>16, <1>17 DEF JavaInv

\* java.swg, delete(): nothing to destroy.
LEMMA DeleteNothingKeeps ==
    ASSUME JavaInv, Apart, NEW t \in JavaThreads, DeleteTest(t),
           ~(swigCPtr[Innermost(t).of] # Null /\ swigCMemOwn[Innermost(t).of])
    PROVE  JavaInv'
<1>1. /\ Innermost(t) \in ActivationType /\ Innermost(t).call = "delete"
      /\ Innermost(t).at = "test" /\ Innermost(t).of \in Proxy
    BY OpenCalls, Activations DEF JavaInv, DeleteTest
<1>2. PICK g \in ActivationType : g = Activation("delete", Innermost(t).of, "clear")
    BY <1>1, Activations
<1>3. Goto(t, g)
    BY <1>2 DEF DeleteTest
<1>4. /\ jstack' \in [JavaThreads -> Seq(ActivationType)]
      /\ \E l \in Nat, f \in ActivationType : f = Innermost(t) /\ Turns(t, l, f, g)
    BY <1>1, <1>3, Turned DEF JavaInv
<1>5. PICK l \in Nat, f \in ActivationType : f = Innermost(t) /\ Turns(t, l, f, g)
    BY <1>4
<1>6. /\ f.call = "delete" /\ f.at = "test" /\ f.of \in Proxy
      /\ g.call = "delete" /\ g.at = "clear" /\ g.of = f.of
    BY <1>1, <1>2, <1>5 DEF Activation
<1>7. /\ Open(t, l, f) /\ \A n \in Nat, h \in ActivationType : Open(t, n, h) => n <= l
      /\ \A u \in JavaThreads, n \in Nat, h \in ActivationType :
             Open(u, n, h)' <=> \/ Open(u, n, h) /\ ~(u = t /\ n = l)
                                \/ u = t /\ n = l /\ h = g
    BY <1>5 DEF Turns
<1>8. \A u \in JavaThreads, n \in Nat, h \in ActivationType : Open(u, n, h) =>
          \E i \in ActivationType : Open(u, n, i)' /\ i.call = h.call /\ i.of = h.of
    <2> SUFFICES ASSUME NEW u \in JavaThreads, NEW n \in Nat, NEW h \in ActivationType, Open(u, n, h)
                 PROVE  \E i \in ActivationType : Open(u, n, i)' /\ i.call = h.call /\ i.of = h.of
        OBVIOUS
    <2>1. CASE u = t /\ n = l
        <3>1. h = f
            BY <1>7, <2>1, OneCall DEF JavaInv
        <3>2. Open(u, n, g)'
            BY <1>7, <2>1
        <3> QED BY <1>6, <3>1, <3>2
    <2>2. CASE ~(u = t /\ n = l)
        BY <1>7, <2>2
    <2> QED BY <2>1, <2>2
<1>9. UNCHANGED <<cpp, cppOwns, jthis, weak, jniRefs, proxy, swigCPtr, swigCMemOwn, held, lost>>
    BY DEF DeleteTest
<1>10. JavaTypes' /\ Linked' /\ Referred' /\ UpcallsArrive'
    BY <1>4, <1>9 DEF JavaInv, JavaTypes, Linked, Referred, UpcallsArrive
<1>11. Owned'
    BY <1>8, <1>9 DEF JavaInv, Owned
<1>12. Collected'
    BY <1>8, <1>9 DEF JavaInv, Collected, JavaThreads
<1>13. Deletes'
    <2>1. ASSUME NEW o \in Obj, swigCPtr[f.of] = o, cpp[o] = "alive", o \notin cppOwns PROVE FALSE
        <3>1. jthis[o] = f.of
            BY <1>6, <2>1 DEF JavaInv, Linked
        <3>2. ~swigCMemOwn[f.of]
            BY <1>5, <2>1 DEF Apart
        <3>3. \E u \in JavaThreads, n \in Nat, h \in ActivationType :
                  Open(u, n, h) /\ h.call = "release" /\ h.of = f.of
            BY <2>1, <3>1, <3>2 DEF JavaInv, Owned
        <3> QED BY <1>6, <1>7, <3>3, OneCall DEF JavaInv, Exclusive
    <2>2. proxy[f.of] # "none"
        BY <1>6, <1>7 DEF JavaInv, Deletes, InDelete
    <2>3. InDelete(g)'
        BY <1>6, <1>9, <2>1, <2>2 DEF InDelete
    <2>4. \A h \in ActivationType : InDelete(h) => InDelete(h)'
        BY <1>9 DEF InDelete
    <2> QED BY <1>7, <2>3, <2>4 DEF JavaInv, Deletes
<1>14. Transfers'
    BY <1>6, <1>7, <1>9 DEF JavaInv, Transfers
<1>15. Destructs'
    <2> SUFFICES ASSUME NEW u \in JavaThreads, NEW n \in Nat, NEW e \in ActivationType,
                        Open(u, n, e)', e.call = "dtor"
                 PROVE  InDestructor(u, n, e)'
        BY DEF Destructs
    <2>1. Open(u, n, e) /\ InDestructor(u, n, e)
        BY <1>6, <1>7 DEF JavaInv, Destructs
    <2>2. n > 1 => n - 1 \in Nat
        OBVIOUS
    <2>3. \A h \in ActivationType : n > 1 /\ Open(u, n - 1, h) /\ h.call = "delete" =>
              \E i \in ActivationType : Open(u, n - 1, i)' /\ i.call = "delete" /\ i.of = h.of
        BY <1>8, <2>2
    <2>4. \A h \in ActivationType : Open(u, n + 1, h) =>
              \E i \in ActivationType : Open(u, n + 1, i)'
        BY <1>8
    <2> QED BY <1>9, <2>1, <2>3, <2>4, StaysInDestructor
<1>16. Ordered' /\ Exclusive'
    BY <1>5, <1>6, <1>9, TurnsInOrder DEF JavaInv
<1> QED BY <1>10, <1>11, <1>12, <1>13, <1>14, <1>15, <1>16 DEF JavaInv

\* ... or the object, whose destructor delete() enters.
LEMMA DeleteObjectKeeps ==
    ASSUME JavaInv, Apart, NEW t \in JavaThreads, DeleteTest(t),
           swigCPtr[Innermost(t).of] # Null /\ swigCMemOwn[Innermost(t).of]
    PROVE  JavaInv'
<1>1. /\ Innermost(t) \in ActivationType /\ Innermost(t).call = "delete"
      /\ Innermost(t).at = "test" /\ Innermost(t).of \in Proxy
      /\ Len(jstack[t]) \in Nat /\ Open(t, Len(jstack[t]), Innermost(t))
    BY OpenCalls, Activations DEF JavaInv, DeleteTest
<1>2. PICK o \in Obj : swigCPtr[Innermost(t).of] = o
    BY <1>1 DEF JavaInv, JavaTypes
<1>3. cpp[o] = "alive" /\ o \notin cppOwns /\ jthis[o] = Innermost(t).of
    <2>1. InDelete(Innermost(t))
        BY <1>1 DEF JavaInv, Deletes
    <2> QED BY <1>1, <1>2, <2>1 DEF InDelete, JavaInv, Linked
<1>4. PICK g \in ActivationType, h \in ActivationType :
          g = Activation("delete", Innermost(t).of, "clear") /\ h = Activation("dtor", o, "disconnect")
    BY <1>1, Activations
<1>5. GotoAndCall(t, g, h)
    BY <1>2, <1>4 DEF DeleteTest
<1>6. /\ jstack' \in [JavaThreads -> Seq(ActivationType)]
      /\ \E l \in Nat, f \in ActivationType : f = Innermost(t) /\ TurnsAndCalls(t, l, f, g, h)
    BY <1>1, <1>5, TurnedAndCalled DEF JavaInv
<1>7. PICK l \in Nat, f \in ActivationType : f = Innermost(t) /\ TurnsAndCalls(t, l, f, g, h)
    BY <1>6
<1>8. /\ f.call = "delete" /\ f.of \in Proxy /\ jthis[o] = f.of /\ swigCPtr[f.of] = o
      /\ g.call = "delete" /\ g.of = f.of /\ g.at = "clear"
      /\ h.call = "dtor" /\ h.of = o /\ h.at = "disconnect"
    BY <1>1, <1>2, <1>3, <1>4, <1>7 DEF Activation
<1>9. /\ Open(t, l, f) /\ l > 0 /\ \A n \in Nat, i \in ActivationType : Open(t, n, i) => n <= l
      /\ \A u \in JavaThreads, n \in Nat, i \in ActivationType :
             Open(u, n, i)' <=> \/ Open(u, n, i) /\ ~(u = t /\ n = l)
                                \/ u = t /\ n = l /\ i = g
                                \/ u = t /\ n = l + 1 /\ i = h
    BY <1>7 DEF TurnsAndCalls
<1>10. \A u \in JavaThreads, n \in Nat, i \in ActivationType : Open(u, n, i) =>
           \E j \in ActivationType : Open(u, n, j)' /\ j.call = i.call /\ j.of = i.of
    BY <1>8, <1>9, OneCall DEF JavaInv
<1>11. /\ UNCHANGED <<cppOwns, jthis, weak, jniRefs, proxy, swigCPtr, held, lost>>
       /\ swigCMemOwn' = [swigCMemOwn EXCEPT ![f.of] = FALSE]
       /\ cpp' = [cpp EXCEPT ![o] = "dying"]
    <2>1. o \in DOMAIN cpp
        BY DEF JavaInv, JavaTypes
    <2> QED BY <1>2, <1>3, <1>7, <2>1 DEF DeleteTest, Dies
<1>12. /\ \A p \in Proxy : swigCMemOwn'[p] = IF p = f.of THEN FALSE ELSE swigCMemOwn[p]
       /\ \A u \in Obj : cpp'[u] = IF u = o THEN "dying" ELSE cpp[u]
    BY <1>8, <1>11 DEF JavaInv, JavaTypes
<1>13. \A p \in Proxy : p # f.of => swigCPtr[p] # o
    BY <1>8 DEF JavaInv, Linked
<1>14. JavaTypes'
    BY <1>6, <1>8, <1>11 DEF JavaInv, JavaTypes
<1>15. Linked' /\ UpcallsArrive'
    BY <1>11, <1>12 DEF JavaInv, Linked, UpcallsArrive
<1>16. Referred'
    BY <1>3, <1>11, <1>12 DEF JavaInv, Referred
<1>17. Owned'
    <2>1. \A u \in Obj : cpp'[u] = "alive" => cpp[u] = "alive" /\ u # o /\ jthis[u] # f.of
        BY <1>8, <1>12 DEF JavaInv, Linked
    <2>2. \A u \in Obj : cpp'[u] # "twice" /\ (cpp'[u] = "none" => u \notin weak)
        BY <1>12 DEF JavaInv, Owned, Referred
    <2>3. \A u \in cppOwns : cpp'[u] = "alive" /\ u \notin weak
        BY <1>3, <1>12 DEF JavaInv, JavaTypes, Owned
    <2>4. ASSUME NEW p \in Proxy, NEW u \in Obj, swigCMemOwn'[p], swigCPtr[p] = u
          PROVE  cpp'[u] = "alive" \/ u \notin weak
        <3>1. p # f.of /\ swigCMemOwn[p] /\ u # o
            BY <1>12, <1>13, <2>4
        <3> QED BY <1>12, <2>4, <3>1 DEF JavaInv, Owned
    <2>5. ASSUME NEW u \in Obj, cpp'[u] = "alive", u \notin cppOwns
          PROVE  \E p \in Proxy : jthis[u] = p /\ swigCPtr[p] = u /\
                     \/ swigCMemOwn'[p]
                     \/ \E v \in JavaThreads, n \in Nat, i \in ActivationType :
                            Open(v, n, i)' /\ i.call = "release" /\ i.of = p
        <3>1. PICK p \in Proxy : /\ jthis[u] = p /\ swigCPtr[p] = u
                                 /\ \/ swigCMemOwn[p]
                                    \/ \E v \in JavaThreads, n \in Nat, i \in ActivationType :
                                           Open(v, n, i) /\ i.call = "release" /\ i.of = p
            BY <2>1, <2>5 DEF JavaInv, Owned
        <3>2. p # f.of
            BY <2>1, <2>5, <3>1
        <3>3. CASE swigCMemOwn[p]
            BY <1>12, <3>1, <3>2, <3>3
        <3>4. CASE \E v \in JavaThreads, n \in Nat, i \in ActivationType :
                       Open(v, n, i) /\ i.call = "release" /\ i.of = p
            <4>1. \E v \in JavaThreads, n \in Nat, i \in ActivationType :
                      Open(v, n, i)' /\ i.call = "release" /\ i.of = p
                BY <1>10, <3>4
            <4> QED BY <3>1, <4>1
        <3> QED BY <3>1, <3>3, <3>4
    <2>6. \A u \in cppOwns : cpp'[u] = "alive" => \E p \in Proxy : jthis[u] = p
        BY <2>1 DEF JavaInv, JavaTypes, Owned
    <2>7. \A u \in Obj : cpp'[u] = "alive" =>
              \E p \in Proxy :
                  /\ jthis[u] = p
                  /\ \/ u \in cppOwns
                     \/ /\ swigCPtr[p] = u
                        /\ \/ swigCMemOwn'[p]
                           \/ \E v \in JavaThreads, n \in Nat, i \in ActivationType :
                                  Open(v, n, i)' /\ i.call = "release" /\ i.of = p
        BY <2>5, <2>6
    <2> QED BY <1>11, <2>2, <2>3, <2>4, <2>7 DEF Owned
<1>18. Collected'
    <2>1. \A n \in Nat, i \in ActivationType : Open(Finalizer, n, i) =>
              \E j \in ActivationType : Open(Finalizer, n, j)' /\ j.call = i.call /\ j.of = i.of
        BY <1>10 DEF JavaThreads
    <2> QED BY <1>11, <2>1 DEF JavaInv, Collected
<1>19. Deletes'
    <2>1. ASSUME NEW i \in ActivationType, InDelete(i) PROVE InDelete(i)'
        <3>1. i.call # "dtor" => i.of \in Proxy
            BY Activations
        <3>2. i.call # "dtor" /\ i.of # f.of =>
                  /\ swigCMemOwn'[i.of] = swigCMemOwn[i.of]
                  /\ \A u \in Obj : swigCPtr[i.of] = u => cpp'[u] = cpp[u]
            <4>1. i.call # "dtor" /\ i.of # f.of => swigCMemOwn'[i.of] = swigCMemOwn[i.of]
                BY <1>12, <3>1
            <4>2. i.call # "dtor" /\ i.of # f.of =>
                      \A u \in Obj : swigCPtr[i.of] = u => cpp'[u] = cpp[u]
                BY <1>12, <1>13, <3>1
            <4> QED BY <4>1, <4>2
        <3>3. i.of = f.of => ~swigCMemOwn'[i.of] /\ \A u \in Obj : swigCPtr[i.of] = u => cpp'[u] = "dying"
            <4>1. ~swigCMemOwn'[f.of]
                BY <1>8, <1>12
            <4>2. \A u \in Obj : swigCPtr[f.of] = u => cpp'[u] = "dying"
                BY <1>8, <1>12
            <4> QED BY <4>1, <4>2
        <3>4. CASE i.of # f.of \/ i.call = "dtor"
            BY <1>11, <2>1, <3>2, <3>4 DEF InDelete
        <3>5. CASE i.of = f.of /\ i.call # "dtor"
            BY <1>11, <2>1, <3>3, <3>5 DEF InDelete
        <3> QED BY <3>4, <3>5
    <2>2. proxy[f.of] # "none"
        BY <1>8, <1>9 DEF JavaInv, Deletes, InDelete
    <2>3. InDelete(g)' /\ InDelete(h)'
        BY <1>8, <1>11, <1>12, <2>2 DEF InDelete
    <2> QED BY <1>9, <2>1, <2>3 DEF JavaInv, Deletes
<1>20. Transfers'
    <2> SUFFICES ASSUME NEW u \in JavaThreads, NEW n \in Nat, NEW i \in ActivationType,
                        Open(u, n, i)', i.call \in {"release", "take"}
                 PROVE  /\ proxy'[i.of] = "live"
                        /\ \E v \in Obj : swigCPtr'[i.of] = v /\ cpp'[v] = "alive" /\ v \notin cppOwns'
        BY DEF Transfers
    <2>1. Open(u, n, i) /\ ~(u = t /\ n = l)
        BY <1>8, <1>9
    <2>2. i.of # f.of
        BY <1>8, <1>9, <2>1 DEF JavaInv, Exclusive
    <2>3. i.of \in Proxy
        BY Activations
    <2> QED BY <1>11, <1>12, <1>13, <2>1, <2>2, <2>3 DEF JavaInv, Transfers
<1>21. Destructs'
    <2> SUFFICES ASSUME NEW u \in JavaThreads, NEW n \in Nat, NEW e \in ActivationType,
                        Open(u, n, e)', e.call = "dtor"
                 PROVE  InDestructor(u, n, e)'
        BY DEF Destructs
    <2>1. CASE u = t /\ n = l + 1
        <3>1. e = h /\ n > 1 /\ n - 1 = l
            BY <1>9, <2>1
        <3>2. Open(t, l, g)'
            BY <1>9
        <3>3. proxy[f.of] # "gone"
            BY <1>8 DEF JavaInv, Collected, Apart
        <3> QED BY <1>8, <1>11, <1>12, <2>1, <3>1, <3>2, <3>3 DEF InDestructor
    <2>2. CASE ~(u = t /\ n = l + 1)
        <3>1. Open(u, n, e)
            BY <1>8, <1>9, <2>2
        <3>2. InDestructor(u, n, e)
            BY <3>1 DEF JavaInv, Destructs
        <3>3. n > 1 => n - 1 \in Nat
            OBVIOUS
        <3>4. \A i \in ActivationType : n > 1 /\ Open(u, n - 1, i) /\ i.call = "delete" =>
                  \E j \in ActivationType : Open(u, n - 1, j)' /\ j.call = "delete" /\ j.of = i.of
            BY <1>10, <3>3
        <3>5. \A i \in ActivationType : Open(u, n + 1, i) =>
                  \E j \in ActivationType : Open(u, n + 1, j)'
            BY <1>10
        <3>6. e.of # o
            BY <1>3, <3>2 DEF InDestructor
        <3>7. e.of \in Obj
            BY Activations
        <3> QED BY <1>11, <1>12, <3>2, <3>4, <3>5, <3>6, <3>7, StaysInDestructor
    <2> QED BY <2>1, <2>2
<1>22. Ordered' /\ Exclusive'
    <2>1. \A u \in JavaThreads, n \in Nat, i \in ActivationType :
              Open(u, n, i) /\ i.call = "dtor" => i.of # o
        BY <1>3 DEF JavaInv, Destructs, InDestructor
    <2> QED BY <1>7, <1>8, <1>11, <2>1, CallsInOrder DEF JavaInv
<1> QED BY <1>14, <1>15, <1>16, <1>17, <1>18, <1>19, <1>20, <1>21, <1>22 DEF JavaInv

\* What opening a call leaves as it was, when the program's data stay.
LEMMA OpensKeeps ==
    ASSUME JavaInv, NEW t \in JavaThreads, NEW l \in Nat, NEW f \in ActivationType, Opens(t, l, f),
           jstack' \in [JavaThreads -> Seq(ActivationType)],
           UNCHANGED <<cpp, cppOwns, jthis, weak, jniRefs, proxy, swigCPtr, swigCMemOwn, held, lost>>,
           f.call \in {"delete", "upcall"}, InDelete(f)
    PROVE  /\ JavaTypes' /\ Linked' /\ Owned' /\ Referred' /\ Collected'
           /\ Deletes' /\ Transfers' /\ Destructs' /\ UpcallsArrive'
<1>1. \A u \in JavaThreads, n \in Nat, g \in ActivationType :
          Open(u, n, g)' <=> Open(u, n, g) \/ (u = t /\ n = l + 1 /\ g = f)
    BY DEF Opens
<1>2. JavaTypes' /\ Linked' /\ Referred' /\ UpcallsArrive'
    BY DEF JavaInv, JavaTypes, Linked, Referred, UpcallsArrive
<1>3. Owned'
    BY <1>1 DEF JavaInv, Owned
<1>4. Collected'
    BY <1>1 DEF JavaInv, Collected, JavaThreads
<1>5. Deletes'
    <2>1. \A g \in ActivationType : InDelete(g) => InDelete(g)'
        BY DEF InDelete
    <2> QED BY <1>1, <2>1 DEF JavaInv, Deletes
<1>6. Transfers'
    BY <1>1 DEF JavaInv, Transfers
<1>7. Destructs'
    <2> SUFFICES ASSUME NEW u \in JavaThreads, NEW n \in Nat, NEW e \in ActivationType,
                        Open(u, n, e)', e.call = "dtor"
                 PROVE  InDestructor(u, n, e)'
        BY DEF Destructs
    <2>1. InDestructor(u, n, e)
        BY <1>1 DEF JavaInv, Destructs
    <2>2. n > 1 => n - 1 \in Nat
        OBVIOUS
    <2>3. \A g \in ActivationType : n > 1 /\ Open(u, n - 1, g) => Open(u, n - 1, g)'
        BY <1>1, <2>2
    <2>4. \A g \in ActivationType : Open(u, n + 1, g) => Open(u, n + 1, g)'
        BY <1>1
    <2> QED BY <2>1, <2>3, <2>4, StaysInDestructor
<1> QED BY <1>2, <1>3, <1>4, <1>5, <1>6, <1>7

\* The program calls delete().
LEMMA CallDeleteKeeps ==
    ASSUME JavaInv, NEW t \in JavaThread, NEW p \in Proxy, CallDelete(t, p) PROVE JavaInv'
<1>1. t \in JavaThreads /\ ProgramRuns(t)
    BY DEF CallDelete, JavaThreads
<1>2. PICK f \in ActivationType : f = Activation("delete", p, "test")
    BY Activations
<1>3. f.call = "delete" /\ f.of = p /\ f.at = "test"
    BY <1>2 DEF Activation
<1>4. PICK l \in Nat : Opens(t, l, f) /\ jstack' \in [JavaThreads -> Seq(ActivationType)]
    BY <1>1, <1>2, Invoked DEF JavaInv, CallDelete
<1>5. UNCHANGED <<cpp, cppOwns, jthis, weak, jniRefs, proxy, swigCPtr, swigCMemOwn, held, lost>>
    BY DEF CallDelete, cppVars, proxyVars
<1>6. InDelete(f)
    <2>1. proxy[p] = "live"
        BY DEF CallDelete, JavaInv, Linked
    <2>2. swigCMemOwn[p] => swigCPtr[p] \in {o \in Obj \ cppOwns : cpp[o] = "alive"}
        BY DEF CallDelete
    <2> QED BY <1>3, <2>1, <2>2 DEF InDelete
<1>7. /\ JavaTypes' /\ Linked' /\ Owned' /\ Referred' /\ Collected'
      /\ Deletes' /\ Transfers' /\ Destructs' /\ UpcallsArrive'
    BY <1>1, <1>3, <1>4, <1>5, <1>6, OpensKeeps
<1>8. Ordered' /\ Exclusive'
    <2>1. \A n \in Nat, g \in ActivationType : Open(t, n, g) => g.call = "upcall"
        BY <1>1, ProgramFrames DEF JavaInv
    <2>2. \A u \in JavaThreads, n \in Nat, g \in ActivationType :
              Open(u, n, g) /\ g.of = p => g.call \notin {"release", "take"}
        BY InCalls DEF JavaInv, CallDelete
    <2>3. \A u \in JavaThreads, n \in Nat, g \in ActivationType :
              Open(u, n, g) /\ g.call = "delete" /\ g.of = p => u = t
        BY <1>1, Monitors DEF JavaInv, CallDelete
    <2> QED BY <1>1, <1>3, <1>4, <1>5, <2>1, <2>2, <2>3, OpensInOrder DEF JavaInv
<1> QED BY <1>7, <1>8 DEF JavaInv

\* java.cxx, classDirectorMethod(): an object that C++ code uses has its proxy.
LEMMA DirectorUpcallKeeps ==
    ASSUME JavaInv, Apart, NEW t \in JavaThread, NEW o \in Obj, DirectorUpcall(t, o) PROVE JavaInv'
<1>1. t \in JavaThreads /\ ProgramRuns(t)
    BY DEF DirectorUpcall, JavaThreads
<1>2. PICK p \in Proxy : jthis[o] = p /\ (o \in cppOwns \/ swigCPtr[p] = o)
    BY DEF DirectorUpcall, JavaInv, Owned
<1>3. proxy[p] = "live"
    <2>1. CASE o \in cppOwns
        <3>1. o \notin weak /\ cpp[o] = "alive"
            BY <2>1 DEF JavaInv, Owned
        <3>2. <<o, "global">> \in jniRefs
            BY <3>1 DEF JavaInv, Referred
        <3> QED BY <1>2, <3>2 DEF JavaInv, Referred
    <2>2. CASE \E q \in held : swigCPtr[q] = o
        <3>1. PICK q \in held : swigCPtr[q] = o
            BY <2>2
        <3>2. q \in Proxy
            BY <3>1 DEF JavaInv, JavaTypes
        <3> QED BY <1>2, <3>1, <3>2 DEF JavaInv, Linked
    <2> QED BY <2>1, <2>2 DEF DirectorUpcall
<1>4. PICK f \in ActivationType : f = Activation("upcall", p, "")
    BY Activations
<1>5. f.call = "upcall" /\ f.of = p
    BY <1>4 DEF Activation
<1>6. /\ Invoke(t, f)
      /\ UNCHANGED <<cpp, cppOwns, jthis, weak, jniRefs, proxy, swigCPtr, swigCMemOwn, held, lost>>
    BY <1>2, <1>3, <1>4 DEF DirectorUpcall, Apart, cppVars, proxyVars
<1>7. PICK l \in Nat : Opens(t, l, f) /\ jstack' \in [JavaThreads -> Seq(ActivationType)]
    BY <1>1, <1>6, Invoked DEF JavaInv
<1>8. InDelete(f)
    BY <1>3, <1>5 DEF InDelete
<1>9. /\ JavaTypes' /\ Linked' /\ Owned' /\ Referred' /\ Collected'
      /\ Deletes' /\ Transfers' /\ Destructs' /\ UpcallsArrive'
    BY <1>1, <1>5, <1>6, <1>7, <1>8, OpensKeeps
<1>10. Ordered' /\ Exclusive'
    <2>1. \A n \in Nat, g \in ActivationType : Open(t, n, g) => g.call = "upcall"
        BY <1>1, ProgramFrames DEF JavaInv
    <2> QED BY <1>1, <1>5, <1>6, <1>7, <2>1, OpensInOrder DEF JavaInv
<1> QED BY <1>9, <1>10 DEF JavaInv

\* Java variables.
LEMMA DropProxyKeeps == ASSUME JavaInv, NEW p \in Proxy, DropProxy(p) PROVE JavaInv'
<1>1. /\ UNCHANGED <<cpp, cppOwns, jthis, weak, jniRefs, proxy, swigCPtr, swigCMemOwn, lost, jstack>>
      /\ held' \subseteq held
    BY DEF DropProxy, cppVars
<1>2. JavaTypes' /\ Linked' /\ Referred' /\ UpcallsArrive'
    BY <1>1 DEF JavaInv, JavaTypes, Linked, Referred, UpcallsArrive
<1>3. Owned' /\ Collected'
    BY <1>1 DEF JavaInv, Owned, Collected, Open
<1>4. Ordered' /\ Exclusive'
    BY <1>1 DEF JavaInv, Ordered, Exclusive, Open
<1>5. Deletes' /\ Transfers' /\ Destructs'
    BY <1>1 DEF JavaInv, Deletes, InDelete, Transfers, Destructs, InDestructor, Open
<1> QED BY <1>2, <1>3, <1>4, <1>5 DEF JavaInv

\* C++ code deletes what it owns.
LEMMA DeleteInCppKeeps ==
    ASSUME JavaInv, NEW t \in JavaThread, NEW o \in Obj, DeleteInCpp(t, o) PROVE JavaInv'
<1>1. t \in JavaThreads /\ ProgramRuns(t)
    BY DEF DeleteInCpp, JavaThreads
<1>2. /\ o \in cppOwns /\ cpp[o] = "alive" /\ o \notin weak
      /\ cppOwns' = cppOwns \ {o} /\ cpp' = [cpp EXCEPT ![o] = "dying"]
      /\ UNCHANGED <<jthis, weak, jniRefs, proxy, swigCPtr, swigCMemOwn, held, lost>>
    <2>1. o \in DOMAIN cpp
        BY DEF JavaInv, JavaTypes
    <2> QED BY <2>1 DEF DeleteInCpp, Dies, JavaInv, Owned, proxyVars
<1>3. \A u \in Obj : cpp'[u] = IF u = o THEN "dying" ELSE cpp[u]
    BY <1>2 DEF JavaInv, JavaTypes
<1>4. PICK f \in ActivationType : f = Activation("dtor", o, "disconnect")
    BY Activations
<1>5. f.call = "dtor" /\ f.of = o /\ f.at = "disconnect"
    BY <1>4 DEF Activation
<1>6. PICK l \in Nat : Opens(t, l, f) /\ jstack' \in [JavaThreads -> Seq(ActivationType)]
    BY <1>1, <1>4, Invoked DEF JavaInv, DeleteInCpp
<1>7. \A u \in JavaThreads, n \in Nat, g \in ActivationType :
          Open(u, n, g)' <=> Open(u, n, g) \/ (u = t /\ n = l + 1 /\ g = f)
    BY <1>6 DEF Opens
<1>8. JavaTypes'
    BY <1>2, <1>6 DEF JavaInv, JavaTypes
<1>9. Linked' /\ UpcallsArrive'
    BY <1>2, <1>3 DEF JavaInv, Linked, UpcallsArrive
<1>10. Referred'
    BY <1>2, <1>3 DEF JavaInv, Referred
<1>11. Owned'
    <2>1. \A u \in cppOwns' : cpp'[u] = "alive" /\ u \notin weak
        BY <1>2, <1>3 DEF JavaInv, JavaTypes, Owned
    <2>2. \A p \in Proxy, u \in Obj : swigCMemOwn[p] /\ swigCPtr[p] = u =>
              cpp'[u] = "alive" \/ u \notin weak
        BY <1>2, <1>3 DEF JavaInv, Owned
    <2>3. \A u \in Obj : cpp'[u] # "twice"
        BY <1>3 DEF JavaInv, Owned
    <2>4. \A u \in Obj : cpp'[u] = "alive" =>
              \E p \in Proxy :
                  /\ jthis[u] = p
                  /\ \/ u \in cppOwns'
                     \/ /\ swigCPtr[p] = u
                        /\ \/ swigCMemOwn[p]
                           \/ \E v \in JavaThreads, n \in Nat, g \in ActivationType :
                                  Open(v, n, g)' /\ g.call = "release" /\ g.of = p
        BY <1>2, <1>3, <1>7 DEF JavaInv, Owned
    <2> QED BY <1>2, <2>1, <2>2, <2>3, <2>4 DEF Owned
<1>12. Collected'
    BY <1>2, <1>7 DEF JavaInv, Collected, JavaThreads
<1>13. Deletes'
    <2>1. \A g \in ActivationType : InDelete(g) => InDelete(g)'
        BY <1>2, <1>3 DEF InDelete
    <2>2. InDelete(f)'
        BY <1>5 DEF InDelete
    <2> QED BY <1>7, <2>1, <2>2 DEF JavaInv, Deletes
<1>14. Transfers'
    BY <1>2, <1>3, <1>5, <1>7 DEF JavaInv, Transfers
<1>15. Destructs'
    <2> SUFFICES ASSUME NEW u \in JavaThreads, NEW n \in Nat, NEW e \in ActivationType,
                        Open(u, n, e)', e.call = "dtor"
                 PROVE  InDestructor(u, n, e)'
        BY DEF Destructs
    <2>1. CASE e = f
        <3>1. PICK p \in Proxy : jthis[o] = p
            BY <1>2 DEF JavaInv, Owned
        <3>2. <<o, "global">> \in jniRefs
            BY <1>2 DEF JavaInv, Referred
        <3>3. proxy[p] = "live"
            BY <3>1, <3>2 DEF JavaInv, Referred
        <3> QED BY <1>2, <1>3, <1>5, <2>1, <3>1, <3>3 DEF InDestructor
    <2>2. CASE Open(u, n, e)
        <3>1. InDestructor(u, n, e)
            BY <2>2 DEF JavaInv, Destructs
        <3>2. n > 1 => n - 1 \in Nat
            OBVIOUS
        <3>3. \A g \in ActivationType : n > 1 /\ Open(u, n - 1, g) => Open(u, n - 1, g)'
            BY <1>7, <3>2
        <3>4. \A g \in ActivationType : Open(u, n + 1, g) => Open(u, n + 1, g)'
            BY <1>7
        <3>5. e.of # o
            BY <1>2, <3>1 DEF InDestructor
        <3>6. e.of \in Obj
            BY Activations
        <3> QED BY <1>2, <1>3, <3>1, <3>3, <3>4, <3>5, <3>6, StaysInDestructor
    <2> QED BY <1>7, <2>1, <2>2
<1>16. Ordered' /\ Exclusive'
    <2>1. \A n \in Nat, g \in ActivationType : Open(t, n, g) => g.call = "upcall"
        BY <1>1, ProgramFrames DEF JavaInv
    <2>2. \A u \in JavaThreads, n \in Nat, g \in ActivationType : Open(u, n, g) /\ g.of = o =>
              g.call # "dtor"
        BY <1>2 DEF JavaInv, Destructs, InDestructor
    <2> QED BY <1>1, <1>2, <1>5, <1>6, <2>1, <2>2, OpensInOrder DEF JavaInv
<1> QED BY <1>8, <1>9, <1>10, <1>11, <1>12, <1>13, <1>14, <1>15, <1>16 DEF JavaInv

\* swigReleaseOwnership(): nobody owns the object until java_change_ownership() returns.
LEMMA ReleaseOwnershipKeeps ==
    ASSUME JavaInv, NEW t \in JavaThread, NEW p \in Proxy, ReleaseOwnership(t, p) PROVE JavaInv'
<1>1. t \in JavaThreads /\ ProgramRuns(t)
    BY DEF ReleaseOwnership, JavaThreads
<1>2. PICK o \in Obj : swigCPtr[p] = o /\ o \notin cppOwns /\ cpp[o] = "alive"
    BY DEF ReleaseOwnership
<1>3. /\ p \in held /\ swigCMemOwn' = [swigCMemOwn EXCEPT ![p] = FALSE]
      /\ UNCHANGED <<cpp, cppOwns, jthis, weak, jniRefs, proxy, swigCPtr, held, lost>>
    BY DEF ReleaseOwnership, cppVars
<1>4. \A q \in Proxy : swigCMemOwn'[q] = IF q = p THEN FALSE ELSE swigCMemOwn[q]
    BY <1>3 DEF JavaInv, JavaTypes
<1>5. PICK f \in ActivationType : f = Activation("release", p, "")
    BY Activations
<1>6. f.call = "release" /\ f.of = p
    BY <1>5 DEF Activation
<1>7. PICK l \in Nat : Opens(t, l, f) /\ jstack' \in [JavaThreads -> Seq(ActivationType)]
    BY <1>1, <1>5, Invoked DEF JavaInv, ReleaseOwnership
<1>8. \A u \in JavaThreads, n \in Nat, g \in ActivationType :
          Open(u, n, g)' <=> Open(u, n, g) \/ (u = t /\ n = l + 1 /\ g = f)
    BY <1>7 DEF Opens
<1>9. JavaTypes'
    BY <1>3, <1>7 DEF JavaInv, JavaTypes
<1>10. Linked' /\ Referred' /\ UpcallsArrive'
    BY <1>3 DEF JavaInv, Linked, Referred, UpcallsArrive
<1>11. Owned'
    <2>4. l + 1 \in Nat
        OBVIOUS
    <2>1. Open(t, l + 1, f)'
        BY <1>1, <1>8, <2>4
    <2>2. ASSUME NEW u \in Obj, cpp[u] = "alive"
          PROVE  \E q \in Proxy :
                     /\ jthis[u] = q
                     /\ \/ u \in cppOwns
                        \/ /\ swigCPtr[q] = u
                           /\ \/ swigCMemOwn'[q]
                              \/ \E v \in JavaThreads, n \in Nat, g \in ActivationType :
                                     Open(v, n, g)' /\ g.call = "release" /\ g.of = q
        <3>1. PICK q \in Proxy :
                     /\ jthis[u] = q
                     /\ \/ u \in cppOwns
                        \/ /\ swigCPtr[q] = u
                           /\ \/ swigCMemOwn[q]
                              \/ \E v \in JavaThreads, n \in Nat, g \in ActivationType :
                                     Open(v, n, g) /\ g.call = "release" /\ g.of = q
            BY <2>2 DEF JavaInv, Owned
        <3>2. CASE q = p
            BY <1>1, <1>6, <2>1, <2>4, <3>1, <3>2
        <3>3. CASE q # p
            BY <1>4, <1>8, <3>1, <3>3
        <3> QED BY <3>2, <3>3
    <2>3. \A q \in Proxy : swigCMemOwn'[q] => swigCMemOwn[q]
        BY <1>4
    <2> QED BY <1>3, <2>2, <2>3 DEF JavaInv, Owned
<1>12. Collected'
    BY <1>3, <1>8 DEF JavaInv, Collected, JavaThreads
<1>13. proxy[p] = "live"
    BY <1>3 DEF JavaInv, Linked
<1>14. Deletes'
    <2>1. ASSUME NEW g \in ActivationType, InDelete(g) PROVE InDelete(g)'
        <3>1. g.call # "dtor" => g.of \in Proxy
            BY Activations
        <3> QED BY <1>3, <1>4, <2>1, <3>1 DEF InDelete
    <2>2. InDelete(f)'
        BY <1>3, <1>6, <1>13 DEF InDelete
    <2> QED BY <1>8, <2>1, <2>2 DEF JavaInv, Deletes
<1>15. Transfers'
    BY <1>2, <1>3, <1>6, <1>8, <1>13 DEF JavaInv, Transfers
<1>16. Destructs'
    <2> SUFFICES ASSUME NEW u \in JavaThreads, NEW n \in Nat, NEW e \in ActivationType,
                        Open(u, n, e)', e.call = "dtor"
                 PROVE  InDestructor(u, n, e)'
        BY DEF Destructs
    <2>1. InDestructor(u, n, e)
        BY <1>6, <1>8 DEF JavaInv, Destructs
    <2>2. n > 1 => n - 1 \in Nat
        OBVIOUS
    <2>3. \A g \in ActivationType : n > 1 /\ Open(u, n - 1, g) => Open(u, n - 1, g)'
        BY <1>8, <2>2
    <2>4. \A g \in ActivationType : Open(u, n + 1, g) => Open(u, n + 1, g)'
        BY <1>8
    <2> QED BY <1>3, <2>1, <2>3, <2>4, StaysInDestructor
<1>17. Ordered' /\ Exclusive'
    <2>1. \A n \in Nat, g \in ActivationType : Open(t, n, g) => g.call = "upcall"
        BY <1>1, ProgramFrames DEF JavaInv
    <2>2. \A u \in JavaThreads, n \in Nat, g \in ActivationType :
              Open(u, n, g) /\ g.of = p => g.call \notin {"delete", "release", "take"}
        BY InCalls DEF JavaInv, ReleaseOwnership
    <2> QED BY <1>1, <1>3, <1>6, <1>7, <2>1, <2>2, OpensInOrder DEF JavaInv
<1> QED BY <1>9, <1>10, <1>11, <1>12, <1>14, <1>15, <1>16, <1>17 DEF JavaInv

\* swigTakeOwnership(): the proxy owns the object before its reference is weak.
LEMMA TakeOwnershipKeeps ==
    ASSUME JavaInv, NEW t \in JavaThread, NEW p \in Proxy, TakeOwnership(t, p) PROVE JavaInv'
<1>1. t \in JavaThreads /\ ProgramRuns(t)
    BY DEF TakeOwnership, JavaThreads
<1>2. PICK o \in Obj : /\ swigCPtr[p] = o /\ o \in cppOwns /\ cpp[o] = "alive"
                       /\ o \notin weak /\ jthis[o] = p
    <2>1. PICK o \in Obj : swigCPtr[p] = o /\ o \in cppOwns
        BY DEF TakeOwnership, JavaInv, JavaTypes
    <2>2. cpp[o] = "alive" /\ o \notin weak
        BY <2>1 DEF JavaInv, Owned
    <2>3. jthis[o] = p
        BY <2>1 DEF JavaInv, Linked
    <2> QED BY <2>1, <2>2, <2>3
<1>3. /\ p \in held /\ swigCMemOwn' = [swigCMemOwn EXCEPT ![p] = TRUE] /\ cppOwns' = cppOwns \ {o}
      /\ UNCHANGED <<cpp, jthis, weak, jniRefs, proxy, swigCPtr, held, lost>>
    BY <1>2 DEF TakeOwnership
<1>4. \A q \in Proxy : swigCMemOwn'[q] = IF q = p THEN TRUE ELSE swigCMemOwn[q]
    BY <1>3 DEF JavaInv, JavaTypes
<1>5. PICK f \in ActivationType : f = Activation("take", p, "")
    BY Activations
<1>6. f.call = "take" /\ f.of = p
    BY <1>5 DEF Activation
<1>7. PICK l \in Nat : Opens(t, l, f) /\ jstack' \in [JavaThreads -> Seq(ActivationType)]
    BY <1>1, <1>5, Invoked DEF JavaInv, TakeOwnership
<1>8. \A u \in JavaThreads, n \in Nat, g \in ActivationType :
          Open(u, n, g)' <=> Open(u, n, g) \/ (u = t /\ n = l + 1 /\ g = f)
    BY <1>7 DEF Opens
<1>9. \A u \in JavaThreads, n \in Nat, g \in ActivationType :
          Open(u, n, g) /\ g.of = p => g.call \notin {"delete", "release", "take", "disconnect"}
    BY InCalls DEF JavaInv, TakeOwnership
<1>10. JavaTypes'
    BY <1>3, <1>7 DEF JavaInv, JavaTypes
<1>11. Linked' /\ Referred' /\ UpcallsArrive'
    BY <1>3 DEF JavaInv, Linked, Referred, UpcallsArrive
<1>12. Owned'
    <2>1. ASSUME NEW u \in Obj, cpp[u] = "alive"
          PROVE  \E q \in Proxy :
                     /\ jthis[u] = q
                     /\ \/ u \in cppOwns'
                        \/ /\ swigCPtr[q] = u
                           /\ \/ swigCMemOwn'[q]
                              \/ \E v \in JavaThreads, n \in Nat, g \in ActivationType :
                                     Open(v, n, g)' /\ g.call = "release" /\ g.of = q
        <3>1. CASE u = o
            BY <1>2, <1>4, <3>1
        <3>2. CASE u # o
            <4>1. PICK q \in Proxy :
                     /\ jthis[u] = q
                     /\ \/ u \in cppOwns
                        \/ /\ swigCPtr[q] = u
                           /\ \/ swigCMemOwn[q]
                              \/ \E v \in JavaThreads, n \in Nat, g \in ActivationType :
                                     Open(v, n, g) /\ g.call = "release" /\ g.of = q
                BY <2>1 DEF JavaInv, Owned
            <4> QED BY <1>3, <1>4, <1>8, <3>2, <4>1
        <3> QED BY <3>1, <3>2
    <2>2. \A q \in Proxy, u \in Obj : swigCMemOwn'[q] /\ swigCPtr[q] = u =>
              cpp[u] = "alive" \/ u \notin weak
        BY <1>2, <1>4 DEF JavaInv, Owned
    <2> QED BY <1>3, <2>1, <2>2 DEF JavaInv, Owned
<1>13. Collected'
    BY <1>3, <1>8 DEF JavaInv, Collected, JavaThreads
<1>14. proxy[p] = "live"
    BY <1>3 DEF JavaInv, Linked
<1>15. \A q \in Proxy : q # p => swigCPtr[q] # o
    BY <1>2 DEF JavaInv, Linked
<1>16. Deletes'
    <2>1. ASSUME NEW g \in ActivationType, InDelete(g), g.of # p \/ g.call \notin {"delete", "disconnect"}
          PROVE  InDelete(g)'
        <3>1. g.call # "dtor" => g.of \in Proxy
            BY Activations
        <3>2. CASE g.call \in {"delete", "disconnect"}
            <4>1. swigCMemOwn'[g.of] = swigCMemOwn[g.of] /\ swigCPtr[g.of] # o
                BY <1>4, <1>15, <2>1, <3>1, <3>2
            <4> QED BY <1>3, <2>1, <4>1 DEF InDelete
        <3>3. CASE g.call \notin {"delete", "disconnect"}
            BY <1>3, <2>1, <3>3 DEF InDelete
        <3> QED BY <3>2, <3>3
    <2>2. InDelete(f)'
        BY <1>3, <1>6, <1>14 DEF InDelete
    <2> QED BY <1>8, <1>9, <2>1, <2>2 DEF JavaInv, Deletes
<1>17. Transfers'
    BY <1>2, <1>3, <1>6, <1>8, <1>14 DEF JavaInv, Transfers
<1>18. Destructs'
    <2> SUFFICES ASSUME NEW u \in JavaThreads, NEW n \in Nat, NEW e \in ActivationType,
                        Open(u, n, e)', e.call = "dtor"
                 PROVE  InDestructor(u, n, e)'
        BY DEF Destructs
    <2>1. InDestructor(u, n, e)
        BY <1>6, <1>8 DEF JavaInv, Destructs
    <2>2. n > 1 => n - 1 \in Nat
        OBVIOUS
    <2>3. \A g \in ActivationType : n > 1 /\ Open(u, n - 1, g) => Open(u, n - 1, g)'
        BY <1>8, <2>2
    <2>4. \A g \in ActivationType : Open(u, n + 1, g) => Open(u, n + 1, g)'
        BY <1>8
    <2> QED BY <1>3, <2>1, <2>3, <2>4, StaysInDestructor
<1>19. Ordered' /\ Exclusive'
    <2>1. \A n \in Nat, g \in ActivationType : Open(t, n, g) => g.call = "upcall"
        BY <1>1, ProgramFrames DEF JavaInv
    <2> QED BY <1>1, <1>3, <1>6, <1>7, <1>9, <2>1, OpensInOrder DEF JavaInv
<1> QED BY <1>10, <1>11, <1>12, <1>13, <1>16, <1>17, <1>18, <1>19 DEF JavaInv

\* The virtual machine finalizes a proxy that nothing refers to: the object, if the proxy
\* owns it, has a weak reference and is alive.
LEMMA FinalizeKeeps == ASSUME JavaInv, Apart, NEW p \in Proxy, Finalize(p) PROVE JavaInv'
<1>1. Finalizer \in JavaThreads /\ \A n, g : ~Open(Finalizer, n, g)
    BY DEF Finalize, JavaThreads, Open, Has
<1>2. /\ proxy[p] = "live" /\ proxy' = [proxy EXCEPT ![p] = "finalized"]
      /\ UNCHANGED <<cpp, cppOwns, jthis, weak, jniRefs, swigCPtr, swigCMemOwn, held, lost>>
    BY DEF Finalize, cppVars
<1>3. \A q \in Proxy : proxy'[q] = IF q = p THEN "finalized" ELSE proxy[q]
    BY <1>2 DEF JavaInv, JavaTypes
<1>4. /\ p \notin held
      /\ \A o \in Obj : jthis[o] = p => <<o, "global">> \notin jniRefs
      /\ ~InCall(p, {"delete", "disconnect", "release", "take", "upcall"})
    BY DEF Finalize, Reachable
<1>5. \A u \in JavaThreads, n \in Nat, g \in ActivationType :
          Open(u, n, g) /\ g.of = p => g.call \notin {"delete", "disconnect", "release", "take", "upcall"}
    BY <1>4, InCalls DEF JavaInv
<1>6. PICK f \in ActivationType : f = Activation("delete", p, "test")
    BY Activations
<1>7. f.call = "delete" /\ f.of = p /\ f.at = "test"
    BY <1>6 DEF Activation
<1>8. PICK l \in Nat : Opens(Finalizer, l, f) /\ jstack' \in [JavaThreads -> Seq(ActivationType)]
    BY <1>1, <1>6, Invoked DEF JavaInv, Finalize
<1>9. \A u \in JavaThreads, n \in Nat, g \in ActivationType :
          Open(u, n, g)' <=> Open(u, n, g) \/ (u = Finalizer /\ n = l + 1 /\ g = f)
    BY <1>8 DEF Opens
<1>10. JavaTypes'
    BY <1>2, <1>8 DEF JavaInv, JavaTypes
<1>11. Linked' /\ UpcallsArrive'
    BY <1>2, <1>3, <1>4 DEF JavaInv, JavaTypes, Linked, UpcallsArrive
<1>12. Referred'
    BY <1>2, <1>3, <1>4 DEF JavaInv, Referred
<1>13. Owned'
    BY <1>2, <1>9 DEF JavaInv, Owned
<1>14. Collected'
    <2>1. l + 1 \in Nat
        OBVIOUS
    <2>2. Open(Finalizer, l + 1, f)'
        BY <1>1, <1>9, <2>1
    <2>3. \A n \in Nat, g \in ActivationType : ~Open(Finalizer, n, g)
        BY <1>1
    <2>4. \A q \in Proxy : q # p /\ proxy[q] = "finalized" => swigCPtr[q] = Null
        BY <2>3 DEF JavaInv, Collected
    <2> QED BY <1>2, <1>3, <1>7, <2>1, <2>2, <2>4 DEF JavaInv, Collected
<1>15. Deletes'
    <2>1. ASSUME NEW g \in ActivationType, InDelete(g) PROVE InDelete(g)'
        <3>1. g.call # "dtor" => g.of \in Proxy
            BY Activations
        <3> QED BY <1>2, <1>3, <2>1, <3>1 DEF InDelete
    <2>2. ASSUME NEW o \in Obj, swigCPtr[p] = o, swigCMemOwn[p]
          PROVE  cpp[o] = "alive" /\ o \notin cppOwns
        <3>1. jthis[o] = p /\ cpp[o] \in {"alive", "dying"}
            BY <2>2 DEF JavaInv, Linked
        <3>2. o \in weak
            BY <1>4, <3>1 DEF JavaInv, Referred
        <3> QED BY <2>2, <3>2 DEF JavaInv, Owned
    <2>3. InDelete(f)'
        BY <1>2, <1>3, <1>7, <2>2 DEF InDelete
    <2> QED BY <1>9, <2>1, <2>3 DEF JavaInv, Deletes
<1>16. Transfers'
    <2>1. \A u \in JavaThreads, n \in Nat, g \in ActivationType :
              Open(u, n, g)' /\ g.call \in {"release", "take"} => Open(u, n, g) /\ g.of # p
        BY <1>5, <1>7, <1>9
    <2>2. \A g \in ActivationType : g.call \in {"release", "take"} => g.of \in Proxy
        BY Activations
    <2> QED BY <1>2, <1>3, <2>1, <2>2 DEF JavaInv, Transfers
<1>17. Destructs'
    <2> SUFFICES ASSUME NEW u \in JavaThreads, NEW n \in Nat, NEW e \in ActivationType,
                        Open(u, n, e)', e.call = "dtor"
                 PROVE  InDestructor(u, n, e)'
        BY DEF Destructs
    <2>1. InDestructor(u, n, e)
        BY <1>7, <1>9 DEF JavaInv, Destructs
    <2>2. n > 1 => n - 1 \in Nat
        OBVIOUS
    <2>3. \A g \in ActivationType : n > 1 /\ Open(u, n - 1, g) => Open(u, n - 1, g)'
        BY <1>9, <2>2
    <2>4. \A g \in ActivationType : Open(u, n + 1, g) => Open(u, n + 1, g)'
        BY <1>9
    <2>5. \A q \in Proxy : proxy[q] # "gone" => proxy'[q] # "gone"
        BY <1>3
    <2> QED BY <1>2, <2>1, <2>3, <2>4, <2>5, StaysInDestructor
<1>18. Ordered' /\ Exclusive'
    BY <1>1, <1>2, <1>5, <1>7, <1>8, OpensInOrder DEF JavaInv
<1> QED BY <1>10, <1>11, <1>12, <1>13, <1>14, <1>15, <1>16, <1>17, <1>18 DEF JavaInv

\* A proxy is taken when its finalizer has run, and an object in its destructor still has it.
LEMMA CollectProxyKeeps == ASSUME JavaInv, NEW p \in Proxy, CollectProxy(p) PROVE JavaInv'
<1>1. /\ proxy[p] = "finalized" /\ proxy' = [proxy EXCEPT ![p] = "gone"]
      /\ UNCHANGED <<cpp, cppOwns, jthis, weak, jniRefs, swigCPtr, swigCMemOwn, held, lost, jstack>>
    BY DEF CollectProxy, cppVars
<1>2. \A q \in Proxy : proxy'[q] = IF q = p THEN "gone" ELSE proxy[q]
    BY <1>1 DEF JavaInv, JavaTypes
<1>3. \A u \in JavaThreads, n \in Nat, g \in ActivationType : Open(u, n, g) /\ g.of = p =>
          g.call # "delete"
    <2>1. ~InCall(p, {"delete", "disconnect", "release", "take", "upcall"})
        BY DEF CollectProxy, Reachable
    <2> QED BY <2>1, InCalls DEF JavaInv
<1>4. \A u \in JavaThreads : \A n, g : Open(u, n, g)' <=> Open(u, n, g)
    BY <1>1 DEF Open
<1>5. JavaTypes'
    BY <1>1 DEF JavaInv, JavaTypes
<1>6. Linked' /\ UpcallsArrive'
    BY <1>1, <1>2 DEF JavaInv, JavaTypes, Linked, UpcallsArrive
<1>7. Referred'
    BY <1>1, <1>2 DEF JavaInv, Referred
<1>8. Owned'
    BY <1>1, <1>4 DEF JavaInv, Owned
<1>9. Collected'
    <2>1. swigCPtr[p] = Null
        BY <1>1, <1>3 DEF JavaInv, Collected, JavaThreads
    <2> QED BY <1>1, <1>2, <1>4, <2>1 DEF JavaInv, Collected, JavaThreads
<1>10. Deletes'
    <2>1. ASSUME NEW g \in ActivationType, InDelete(g) PROVE InDelete(g)'
        <3>1. g.call # "dtor" => g.of \in Proxy
            BY Activations
        <3> QED BY <1>1, <1>2, <2>1, <3>1 DEF InDelete
    <2> QED BY <1>4, <2>1 DEF JavaInv, Deletes
<1>11. Transfers'
    <2>1. \A g \in ActivationType : g.call \in {"release", "take"} => g.of \in Proxy
        BY Activations
    <2> QED BY <1>1, <1>2, <1>4, <2>1 DEF JavaInv, Transfers
<1>12. Destructs'
    <2> SUFFICES ASSUME NEW u \in JavaThreads, NEW n \in Nat, NEW e \in ActivationType,
                        Open(u, n, e)', e.call = "dtor"
                 PROVE  InDestructor(u, n, e)'
        BY DEF Destructs
    <2>1. InDestructor(u, n, e) /\ e.of \in Obj
        BY <1>4, Activations DEF JavaInv, Destructs
    <2>2. n > 1 => n - 1 \in Nat
        OBVIOUS
    <2>3. jthis[e.of] # p
        <3>1. e.of \notin weak => <<e.of, "global">> \in jniRefs
            BY <2>1 DEF JavaInv, Referred, InDestructor
        <3>2. jthis[e.of] = p => e.of \in weak
            BY <1>1, <2>1, <3>1 DEF JavaInv, Referred
        <3> QED BY <1>3, <2>1, <2>2, <3>2 DEF InDestructor
    <2>4. \A g \in ActivationType : n > 1 /\ Open(u, n - 1, g) => Open(u, n - 1, g)'
        BY <1>4
    <2>5. \A g \in ActivationType : Open(u, n + 1, g) => Open(u, n + 1, g)'
        BY <1>4
    <2>6. \A q \in Proxy : jthis[e.of] = q /\ proxy[q] # "gone" => proxy'[q] # "gone"
        BY <1>2, <2>3
    <2> QED BY <1>1, <2>1, <2>4, <2>5, <2>6, StaysInDestructor
<1>13. Ordered' /\ Exclusive'
    BY <1>1 DEF JavaInv, Ordered, Exclusive, Open
<1> QED BY <1>5, <1>6, <1>7, <1>8, <1>9, <1>10, <1>11, <1>12, <1>13 DEF JavaInv

\* A new proxy has a new object.
LEMMA ConstructKeeps ==
    ASSUME JavaInv, Apart, NEW t \in JavaThread, NEW p \in Proxy, NEW o \in Obj, NEW w \in BOOLEAN,
           Construct(t, p, o, w)
    PROVE  JavaInv'
<1>1. /\ proxy[p] = "none" /\ cpp[o] = "none"
      /\ UNCHANGED <<lost, jstack>>
      /\ cppOwns' = IF w THEN cppOwns ELSE cppOwns \cup {o}
      /\ held' = held \cup {p}
      /\ weak' = IF w THEN weak \cup {o} ELSE weak
      /\ jniRefs' = jniRefs \cup {<<o, IF w THEN "weak" ELSE "global">>}
    BY DEF Construct
<1>2. /\ \A u \in Obj : cpp'[u] = IF u = o THEN "alive" ELSE cpp[u]
      /\ \A u \in Obj : jthis'[u] = IF u = o THEN p ELSE jthis[u]
      /\ \A q \in Proxy : proxy'[q] = IF q = p THEN "live" ELSE proxy[q]
      /\ \A q \in Proxy : swigCPtr'[q] = IF q = p THEN o ELSE swigCPtr[q]
      /\ \A q \in Proxy : swigCMemOwn'[q] = IF q = p THEN TRUE ELSE swigCMemOwn[q]
    BY DEF Construct, JavaInv, JavaTypes
<1>3. /\ \A u \in Obj : jthis[u] # p /\ swigCPtr[p] # u
      /\ \A q \in Proxy : swigCPtr[q] # o
    BY <1>1 DEF JavaInv, Linked
<1>4. /\ o \notin weak /\ o \notin cppOwns
      /\ <<o, "weak">> \notin jniRefs /\ <<o, "global">> \notin jniRefs
    BY <1>1 DEF JavaInv, Referred, Owned
<1>5. \A u \in JavaThreads : \A n, g : Open(u, n, g)' <=> Open(u, n, g)
    BY <1>1 DEF Open
<1>6. \A u \in JavaThreads, n \in Nat, g \in ActivationType : Open(u, n, g) =>
          /\ g.call = "dtor" => g.of # o /\ g.of \in Obj
          /\ g.call # "dtor" => g.of # p /\ g.of \in Proxy
    <2>1. \A u \in JavaThreads, n \in Nat, g \in ActivationType :
              Open(u, n, g) /\ g.call = "dtor" => g.of # o
        BY <1>1 DEF JavaInv, Destructs, InDestructor
    <2>2. \A u \in JavaThreads, n \in Nat, g \in ActivationType :
              Open(u, n, g) /\ g.call # "dtor" => g.of # p
        BY <1>1 DEF JavaInv, Deletes, InDelete
    <2>3. \A g \in ActivationType : (g.call = "dtor" => g.of \in Obj) /\ (g.call # "dtor" =>
              g.of \in Proxy)
        BY Activations
    <2> QED BY <2>1, <2>2, <2>3
<1>7. JavaTypes'
    BY DEF Construct, JavaInv, JavaTypes
<1>8. Linked'
    <2>1. \A q \in Proxy, u \in Obj : swigCPtr'[q] = u =>
              jthis'[u] = q /\ cpp'[u] \in {"alive", "dying"}
        BY <1>2, <1>3 DEF JavaInv, Linked
    <2>2. \A q \in Proxy, u \in Obj : jthis'[u] = q => proxy'[q] # "none"
        BY <1>2 DEF JavaInv, Linked
    <2>3. \A q \in Proxy : \A u, v \in Obj : jthis'[u] = q /\ jthis'[v] = q => u = v
        BY <1>2, <1>3 DEF JavaInv, Linked
    <2>4. \A q \in held' : proxy'[q] = "live"
        BY <1>1, <1>2 DEF JavaInv, JavaTypes, Linked
    <2> QED BY <2>1, <2>2, <2>3, <2>4 DEF Linked
<1>9. Owned'
    <2>1. \A u \in cppOwns' : cpp'[u] = "alive" /\ u \notin weak'
        BY <1>1, <1>2, <1>4 DEF JavaInv, JavaTypes, Owned
    <2>2. ASSUME NEW u \in Obj, cpp'[u] = "alive"
          PROVE  \E q \in Proxy :
                     /\ jthis'[u] = q
                     /\ \/ u \in cppOwns'
                        \/ /\ swigCPtr'[q] = u
                           /\ \/ swigCMemOwn'[q]
                              \/ \E v \in JavaThreads, n \in Nat, g \in ActivationType :
                                     Open(v, n, g)' /\ g.call = "release" /\ g.of = q
        <3>1. CASE u = o
            BY <1>2, <3>1
        <3>2. CASE u # o
            <4>1. PICK q \in Proxy :
                     /\ jthis[u] = q
                     /\ \/ u \in cppOwns
                        \/ /\ swigCPtr[q] = u
                           /\ \/ swigCMemOwn[q]
                              \/ \E v \in JavaThreads, n \in Nat, g \in ActivationType :
                                     Open(v, n, g) /\ g.call = "release" /\ g.of = q
                BY <1>2, <2>2, <3>2 DEF JavaInv, Owned
            <4>2. q # p
                BY <1>3, <4>1
            <4>3. /\ jthis'[u] = q /\ swigCPtr'[q] = swigCPtr[q] /\ swigCMemOwn'[q] = swigCMemOwn[q]
                  /\ u \in cppOwns => u \in cppOwns'
                BY <1>1, <1>2, <3>2, <4>1, <4>2
            <4> QED BY <1>5, <4>1, <4>3
        <3> QED BY <3>1, <3>2
    <2>3. \A q \in Proxy, u \in Obj : swigCMemOwn'[q] /\ swigCPtr'[q] = u =>
              cpp'[u] = "alive" \/ u \notin weak'
        <3>1. \A u \in Obj : u # o => (u \in weak' => u \in weak) /\ cpp'[u] = cpp[u]
            BY <1>1, <1>2
        <3>2. \A q \in Proxy, u \in Obj : u # o /\ swigCPtr'[q] = u => q # p /\ swigCPtr[q] = u
            BY <1>2
        <3>4. \A q \in Proxy, u \in Obj : swigCMemOwn[q] /\ swigCPtr[q] = u =>
                  cpp[u] = "alive" \/ u \notin weak
            BY DEF JavaInv, Owned
        <3>3. \A q \in Proxy, u \in Obj :
                  u # o /\ swigCMemOwn'[q] /\ swigCPtr'[q] = u => cpp[u] = "alive" \/ u \notin weak
            BY <1>2, <3>2, <3>4
        <3> QED BY <1>2, <3>1, <3>3
    <2>4. \A u \in Obj : cpp'[u] # "twice"
        BY <1>2 DEF JavaInv, Owned
    <2> QED BY <2>1, <2>2, <2>3, <2>4 DEF Owned
<1>10. Referred'
    <2>1. \A u \in Obj : \A k \in {"weak", "global"} : <<u, k>> \in jniRefs' <=>
              <<u, k>> \in jniRefs \/ (u = o /\ k = IF w THEN "weak" ELSE "global")
        BY <1>1
    <2>2. \A u \in Obj : u \in weak' <=> u \in weak \/ (u = o /\ w)
        BY <1>1
    <2>3. \A u \in Obj : cpp'[u] \in {"alive", "dying"} =>
              /\ u \in weak' => <<u, "weak">> \in jniRefs' /\ <<u, "global">> \notin jniRefs'
              /\ u \notin weak' => <<u, "weak">> \notin jniRefs' /\ <<u, "global">> \in jniRefs'
        BY <1>2, <1>4, <2>1, <2>2 DEF JavaInv, Referred
    <2>4. \A u \in Obj : cpp'[u] \notin {"alive", "dying"} =>
              <<u, "weak">> \notin jniRefs' /\ <<u, "global">> \notin jniRefs' 
        BY <1>2, <2>1 DEF JavaInv, Referred
    <2>5. \A u \in Obj : cpp'[u] = "none" => u \notin weak'
        BY <1>2, <2>2 DEF JavaInv, Referred
    <2>6. \A u \in Obj : <<u, "global">> \in jniRefs' =>
              \E q \in Proxy : jthis'[u] = q /\ proxy'[q] = "live"
        <3> SUFFICES ASSUME NEW u \in Obj, <<u, "global">> \in jniRefs'
                     PROVE  \E q \in Proxy : jthis'[u] = q /\ proxy'[q] = "live"
            OBVIOUS
        <3>1. CASE u = o
            BY <1>2, <3>1
        <3>2. CASE u # o
            <4>1. PICK q \in Proxy : jthis[u] = q /\ proxy[q] = "live"
                BY <2>1, <3>2 DEF JavaInv, Referred
            <4> QED BY <1>2, <3>2, <4>1
        <3> QED BY <3>1, <3>2
    <2> QED BY <2>3, <2>4, <2>5, <2>6 DEF Referred
<1>11. Collected' /\ UpcallsArrive'
    BY <1>1, <1>2, <1>5 DEF JavaInv, Collected, UpcallsArrive, JavaThreads
<1>12. Ordered'
    <2>1. \A u \in JavaThreads, n \in Nat, g \in ActivationType :
              Open(u, n, g) /\ g.call = "dtor" => jthis'[g.of] = jthis[g.of]
        BY <1>2, <1>6
    <2> QED BY <1>5, <2>1 DEF JavaInv, Ordered
<1>13. Exclusive'
    BY <1>5 DEF JavaInv, Exclusive
<1>14. Deletes'
    <2> SUFFICES ASSUME NEW u \in JavaThreads, NEW n \in Nat, NEW g \in ActivationType, Open(u, n, g)
                 PROVE  InDelete(g)'
        BY <1>5 DEF Deletes
    <2>1. InDelete(g)
        BY DEF JavaInv, Deletes
    <2>2. CASE g.call = "dtor"
        BY <2>2 DEF InDelete
    <2>3. CASE g.call # "dtor"
        <3>1. g.of \in Proxy /\ g.of # p
            BY <1>6, <2>3
        <3>2. /\ proxy'[g.of] = proxy[g.of] /\ swigCPtr'[g.of] = swigCPtr[g.of]
              /\ swigCMemOwn'[g.of] = swigCMemOwn[g.of]
            BY <1>2, <3>1
        <3>3. \A v \in Obj :
                  swigCPtr[g.of] = v => v # o /\ cpp'[v] = cpp[v] /\ (v \in cppOwns' <=> v \in cppOwns)
            BY <1>1, <1>2, <1>3, <3>1
        <3> QED BY <2>1, <3>2, <3>3 DEF InDelete
    <2> QED BY <2>2, <2>3
<1>15. Transfers'
    <2>1. \A q \in Proxy, u \in Obj : q # p /\ swigCPtr[q] = u =>
              proxy'[q] = proxy[q] /\ swigCPtr'[q] = u /\ cpp'[u] = cpp[u] /\ (u \in cppOwns' <=> u \in cppOwns)
        BY <1>1, <1>2, <1>3
    <2> QED BY <1>2, <1>5, <1>6, <2>1 DEF JavaInv, Transfers
<1>16. Destructs'
    <2> SUFFICES ASSUME NEW u \in JavaThreads, NEW n \in Nat, NEW e \in ActivationType,
                        Open(u, n, e), e.call = "dtor"
                 PROVE  InDestructor(u, n, e)'
        BY <1>5 DEF Destructs
    <2>1. InDestructor(u, n, e) /\ e.of \in Obj /\ e.of # o
        BY <1>6 DEF JavaInv, Destructs
    <2>2. cpp'[e.of] = cpp[e.of] /\ jthis'[e.of] = jthis[e.of] /\ (e.of \notin weak => e.of \notin weak')
        BY <1>1, <1>2, <2>1
    <2>3. \A q \in Proxy :
              jthis[e.of] = q => q # p /\ proxy'[q] = proxy[q] /\ swigCPtr'[q] = swigCPtr[q]
        BY <1>2, <1>3, <2>1
    <2> QED BY <1>5, <2>1, <2>2, <2>3, StaysInDestructor
<1> QED BY <1>7, <1>8, <1>9, <1>10, <1>11, <1>12, <1>13, <1>14, <1>15, <1>16 DEF JavaInv

-----------------------------------------------------------------------------
(* Objects and proxies, whatever the threads do. *)

LEMMA JavaInvHolds == ASSUME Apart PROVE JavaSpec => []JavaInv
<1>1. JavaInit => JavaInv
    BY JavaStarts
<1>2. ASSUME JavaInv, [JavaNext]_javaVars PROVE JavaInv'
    <2>1. ASSUME NEW t \in JavaThreads, DeleteTest(t) PROVE JavaInv'
        BY <1>2, <2>1, DeleteNothingKeeps, DeleteObjectKeeps
    <2>2. ASSUME NEW t \in JavaThreads, \/ DeleteClear(t) \/ DtorDisconnect(t) \/ Disconnect(t)
                                        \/ DisconnectDelete(t) \/ DtorRelease(t)
          PROVE  JavaInv'
        BY <1>2, <2>2, DeleteClearKeeps, DtorDisconnectKeeps, DisconnectKeeps,
           DisconnectDeleteKeeps, DtorReleaseKeeps
    <2>3. ASSUME NEW t \in JavaThreads, ChangeToCpp(t) \/ ChangeToJava(t) \/ UpcallReturns(t)
          PROVE  JavaInv'
        BY <1>2, <2>3, ChangeToCppKeeps, ChangeToJavaKeeps, UpcallReturnsKeeps
    <2>4. ASSUME NEW t \in JavaThread, NEW p \in Proxy,
                 CallDelete(t, p) \/ ReleaseOwnership(t, p) \/ TakeOwnership(t, p)
          PROVE  JavaInv'
        BY <1>2, <2>4, CallDeleteKeeps, ReleaseOwnershipKeeps, TakeOwnershipKeeps
    <2>5. ASSUME NEW t \in JavaThread, NEW p \in Proxy, NEW o \in Obj, NEW w \in BOOLEAN,
                 Construct(t, p, o, w)
          PROVE  JavaInv'
        BY <1>2, <2>5, ConstructKeeps
    <2>6. ASSUME NEW t \in JavaThread, NEW o \in Obj, DeleteInCpp(t, o) \/ DirectorUpcall(t, o)
          PROVE  JavaInv'
        BY <1>2, <2>6, DeleteInCppKeeps, DirectorUpcallKeeps
    <2>7. ASSUME NEW p \in Proxy, DropProxy(p) \/ Finalize(p) \/ CollectProxy(p) PROVE JavaInv'
        BY <1>2, <2>7, DropProxyKeeps, FinalizeKeeps, CollectProxyKeeps
    <2>8. ASSUME UNCHANGED javaVars PROVE JavaInv'
        <3>1. JavaTypes' /\ Linked' /\ Owned' /\ Referred' /\ Collected' /\ UpcallsArrive'
            BY <1>2, <2>8 DEF javaVars, JavaInv, JavaTypes, Linked, Owned, Referred, Collected,
               UpcallsArrive, Open
        <3>2. Ordered' /\ Exclusive'
            BY <1>2, <2>8 DEF javaVars, JavaInv, Ordered, Exclusive, Open
        <3>3. Deletes' /\ Transfers' /\ Destructs'
            BY <1>2, <2>8 DEF javaVars, JavaInv, Deletes, InDelete, Transfers, Destructs,
               InDestructor, Open
        <3> QED BY <3>1, <3>2, <3>3 DEF JavaInv
    <2> QED BY <1>2, <2>1, <2>2, <2>3, <2>4, <2>5, <2>6, <2>7, <2>8 DEF JavaNext
<1> QED BY <1>1, <1>2, PTL DEF JavaSpec

\* java.swg, delete() and swigDirectorDisconnect(): whichever of delete(), the finalizer and
\* C++ code comes first in whatever threads, an object is deleted once, somebody is left to
\* delete it as long as it lives, and no proxy keeps the address of one that is gone.
THEOREM JavaStaysDestroyedOnce == ASSUME Apart PROVE JavaSpec => []JavaDestroysOnce
<1>1. ASSUME JavaInv PROVE JavaDestroysOnce
    <2>1. \A o \in Obj : cpp[o] # "twice"
        BY <1>1 DEF JavaInv, Owned
    <2>2. ASSUME NEW o \in Obj, cpp[o] = "alive", o \notin cppOwns
          PROVE  \E p \in Proxy : /\ swigCPtr[p] = o /\ proxy[p] # "gone"
                                  /\ swigCMemOwn[p] \/ InCall(p, {"release"})
        <3>1. PICK p \in Proxy :
                  /\ swigCPtr[p] = o
                  /\ \/ swigCMemOwn[p]
                     \/ \E t \in JavaThreads, n \in Nat, f \in ActivationType :
                            Open(t, n, f) /\ f.call = "release" /\ f.of = p
            BY <1>1, <2>2 DEF JavaInv, Owned
        <3>2. proxy[p] # "gone"
            BY <1>1, <3>1 DEF JavaInv, Collected, Apart
        <3>3. ~swigCMemOwn[p] => InCall(p, {"release"})
            BY <1>1, <3>1, InCalls DEF JavaInv
        <3> QED BY <3>1, <3>2, <3>3
    <2>3. NoStaleAddress
        <3>1. ASSUME NEW p \in Proxy, swigCPtr[p] # Null PROVE cpp[swigCPtr[p]] # "dead"
            BY <1>1, <3>1 DEF JavaInv, JavaTypes, Linked
        <3> QED BY <3>1 DEF NoStaleAddress
    <2> QED BY <2>1, <2>2, <2>3 DEF JavaDestroysOnce, DeletedOnce
<1> QED BY <1>1, JavaInvHolds, PTL

\* director.swg, java_change_ownership() and JObjectWrapper: whatever the collector does, an
\* object that C++ code uses finds its proxy, and the references to it are of the kind
\* weak_global_ says, one as long as it lives and none later.
THEOREM JavaUpcallsKeepArriving == ASSUME Apart PROVE JavaSpec => []JavaUpcallsArrive
<1>1. ASSUME JavaInv PROVE JavaUpcallsArrive
    <2> SUFFICES ASSUME NEW o \in Obj
                 PROVE  CASE cpp[o] = "alive" -> {r \in jniRefs : r[1] = o} =
                                                     {<<o, IF o \in weak THEN "weak" ELSE "global">>}
                          [] cpp[o] \in {"none", "dead"} -> ~ \E r \in jniRefs : r[1] = o
                          [] OTHER -> TRUE
        BY <1>1 DEF JavaUpcallsArrive, ReferencesRight, JavaInv
    <2>1. \A r \in jniRefs : r[1] = o => r = <<o, "weak">> \/ r = <<o, "global">>
        BY <1>1 DEF JavaInv, JavaTypes
    <2>2. CASE cpp[o] = "alive"
        <3>1. /\ o \in weak => <<o, "weak">> \in jniRefs /\ <<o, "global">> \notin jniRefs
              /\ o \notin weak => <<o, "weak">> \notin jniRefs /\ <<o, "global">> \in jniRefs
            BY <1>1, <2>2 DEF JavaInv, Referred
        <3>2. \A k : <<o, k>>[1] = o
            OBVIOUS
        <3>3. CASE o \in weak
            BY <2>1, <2>2, <3>1, <3>2, <3>3
        <3>4. CASE o \notin weak
            BY <2>1, <2>2, <3>1, <3>2, <3>4
        <3> QED BY <3>3, <3>4
    <2>3. CASE cpp[o] \in {"none", "dead"}
        <3>1. <<o, "weak">> \notin jniRefs /\ <<o, "global">> \notin jniRefs
            BY <1>1, <2>3 DEF JavaInv, Referred
        <3> QED BY <2>1, <2>3, <3>1
    <2> QED BY <2>2, <2>3
<1> QED BY <1>1, JavaInvHolds, PTL
=============================================================================
