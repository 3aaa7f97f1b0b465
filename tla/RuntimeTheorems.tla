-------------------------- MODULE RuntimeTheorems --------------------------
(***************************************************************************)
(* Proofs about the code that SWIG adds to a module at run time.           *)
(*                                                                         *)
(* RubyObjects, for any number of addresses and Ruby objects, when the     *)
(* wrapped classes are returned as one type and a disowning conversion is  *)
(* only given objects of the right class: TLC refutes the statements       *)
(* without either (see README.md).                                         *)
(*                                                                         *)
(* PyDirectors, for any number of threads, frames and names: the           *)
(* interpreter lock, the order of the calls, the protected methods.        *)
(*                                                                         *)
(* PyObjects, for any number of objects, instances and SwigPyObjects: the  *)
(* owners of an object, the reference counts, the bases of an instance,    *)
(* when an instance has two wrapped bases at most and no call fails behind *)
(* an argument that it took over (TLC refutes them without either).        *)
(***************************************************************************)
EXTENDS RubyObjects, PyDirectors, PyObjects, FiniteSetTheorems, TLAPS

(* Object tracking in Ruby. *)
RightClasses ==
    /\ BadArgs = FALSE
    /\ \A t, u \in RubyType : t = u
    /\ Nil \notin Address /\ Nil \notin Val
    /\ Nil \notin [ptr : Address \cup {Nil}, type : RubyType, dfree : {"destroy", "untrack"}]

Wraps(v, p) == data[v] # Nil /\ data[v].ptr = p
Tracks(p, v) == p \in DOMAIN trackings /\ trackings[p] = v

\* the table holds exactly the Ruby objects that wrap something
Matching == \A v \in Val, p \in Address : Wraps(v, p) <=> Tracks(p, v)

\* a Ruby object with a variable has not been collected
VarsLive == var \subseteq Live

TrackInv == RubyTypeOK /\ Matching /\ NoStalePointer /\ OwnerKnown /\ VarsLive

-----------------------------------------------------------------------------
\* rubytracking.swg, SWIG_RubyInitializeTrackings(): the table starts empty.
LEMMA InitTracks == ASSUME RightClasses PROVE RubyInit => TrackInv
BY DEF RubyInit, RightClasses, TrackInv, RubyTypeOK, Matching, Wraps, Tracks, NoStalePointer, OwnerKnown, VarsLive, Live

\* rubytracking.swg, SWIG_RubyAddTracking(): a new Ruby object for an address that no
\* other one wraps keeps the table right, if it deletes what it has to delete.
LEMMA WrapTracks ==
    ASSUME RightClasses, TrackInv, NEW v \in Val, NEW p \in Address, NEW t \in RubyType,
           NEW d \in {"destroy", "untrack"}, Wrap(v, p, t, d), p \notin DOMAIN trackings,
           heap' \in [Address -> {"free", "ruby", "cpp"}],
           \A q \in Address \ {p} : heap'[q] = heap[q],
           heap'[p] = IF d = "destroy" THEN "ruby" ELSE "cpp"
    PROVE  TrackInv'
<1>1. data'[v] = [ptr |-> p, type |-> t, dfree |-> d] /\ data'[v] # Nil
    BY DEF Wrap, TrackInv, RubyTypeOK, RightClasses
<1>2. \A w \in Val \ {v} : data'[w] = data[w]
    BY DEF Wrap, TrackInv, RubyTypeOK
<1>3. /\ DOMAIN trackings' = DOMAIN trackings \cup {p} /\ trackings'[p] = v
      /\ \A q \in DOMAIN trackings : trackings'[q] = trackings[q]
    BY DEF Wrap, Tracked
<1>4. \A w \in Val : ~Wraps(w, p)
    BY DEF TrackInv, Matching, Tracks
<1>5. RubyTypeOK'
    BY <1>3 DEF Wrap, Tracked, TrackInv, RubyTypeOK
<1>6. Matching'
    BY <1>1, <1>2, <1>3, <1>4 DEF Wrap, TrackInv, Matching, Wraps, Tracks
<1>7. NoStalePointer'
    BY <1>1, <1>2, <1>4 DEF TrackInv, NoStalePointer, Live, Wraps, RubyTypeOK
<1>8. OwnerKnown'
    BY <1>1, <1>2, <1>4 DEF TrackInv, OwnerKnown, Live, Wraps, Wrap, RubyTypeOK
<1>9. VarsLive'
    BY <1>1, <1>2 DEF TrackInv, VarsLive, Live, Wrap
<1> QED BY <1>5, <1>6, <1>7, <1>8, <1>9 DEF TrackInv

-----------------------------------------------------------------------------
\* rubyrun.swg, SWIG_Ruby_NewPointerObj(): with one type, a tracked address gets no second
\* Ruby object.
LEMMA PointerObjTracks ==
    ASSUME RightClasses, TrackInv, NEW v \in Val, NEW p \in Address, NEW t \in RubyType, NEW own \in BOOLEAN,
           SWIG_Ruby_NewPointerObj(v, p, t, own),
           heap' \in [Address -> {"free", "ruby", "cpp"}],
           \A q \in Address \ {p} : heap'[q] = heap[q],
           heap[p] = "free" => heap'[p] = IF own THEN "ruby" ELSE "cpp",
           heap[p] # "free" => heap' = heap /\ ~own
    PROVE  TrackInv'
<1>1. CASE p \in DOMAIN trackings
  <2>1. trackings[p] \in Val /\ Wraps(trackings[p], p)
      BY <1>1 DEF TrackInv, RubyTypeOK, Matching, Tracks
  <2>2. heap[p] # "free"
      BY <2>1 DEF TrackInv, NoStalePointer, Live, Wraps, RightClasses
  <2>3. UNCHANGED <<data, trackings>> /\ var' = var \cup {trackings[p]}
      BY <1>1, <2>1 DEF SWIG_Ruby_NewPointerObj, SWIG_RubyInstanceFor, RightClasses, TrackInv, RubyTypeOK,
                        Wraps
  <2> QED
      BY <2>1, <2>2, <2>3 DEF TrackInv, RubyTypeOK, Matching, Wraps, Tracks, NoStalePointer,
                              OwnerKnown, VarsLive, Live
<1>2. CASE p \notin DOMAIN trackings
  <2>1. Wrap(v, p, t, IF own THEN "destroy" ELSE "untrack")
      BY <1>2 DEF SWIG_Ruby_NewPointerObj, SWIG_RubyInstanceFor
  <2>2. heap'[p] = IF own THEN "ruby" ELSE "cpp"
    <3>1. heap[p] # "ruby"
        BY <1>2 DEF TrackInv, Matching, Wraps, Tracks, OwnerKnown, Live
    <3> QED BY <3>1 DEF TrackInv, RubyTypeOK
  <2>3. CASE own
      BY <1>2, <2>1, <2>2, <2>3, WrapTracks
  <2>4. CASE ~own
      BY <1>2, <2>1, <2>2, <2>4, WrapTracks
  <2> QED BY <2>3, <2>4
<1> QED BY <1>1, <1>2

\* ruby.cxx, the generated dfree and SWIG_RubyRemoveTracking(): a collected object leaves
\* the table, and what it has to delete goes with it.
LEMMA CollectTracks == ASSUME RightClasses, TrackInv, NEW v \in Val, CollectValue(v) PROVE TrackInv'
<1>1. data' = [data EXCEPT ![v] = Nil] /\ v \in Live /\ UNCHANGED var
    BY DEF CollectValue
<1>2. CASE data[v].ptr = Nil
    BY <1>1, <1>2 DEF CollectValue, RightClasses, TrackInv, RubyTypeOK, Matching, Wraps, Tracks,
                      NoStalePointer, OwnerKnown, VarsLive, Live
<1>3. CASE data[v].ptr # Nil
  <2> DEFINE p == data[v].ptr
  <2>1. p \in Address /\ Tracks(p, v)
      BY <1>1, <1>3 DEF TrackInv, RubyTypeOK, Matching, Wraps, Live
  <2>2. trackings' = Untracked(p)
      BY <1>3 DEF CollectValue
  <2>3. heap' = IF data[v].dfree = "destroy" THEN [heap EXCEPT ![p] = "free"] ELSE heap
      BY <1>3 DEF CollectValue
  <2>4. \A w \in Val \ {v} : ~Wraps(w, p)
      BY <2>1 DEF TrackInv, Matching, Tracks
  <2>5. RubyTypeOK'
      BY <1>1, <2>2, <2>3 DEF TrackInv, RubyTypeOK, Untracked
  <2>6. Matching'
      BY <1>1, <2>1, <2>2, <2>4 DEF TrackInv, RubyTypeOK, Matching, Wraps, Tracks, Untracked
  <2>7. NoStalePointer'
      BY <1>1, <2>1, <2>3, <2>4 DEF TrackInv, RubyTypeOK, NoStalePointer, Wraps, Live
  <2>8. OwnerKnown'
      BY <1>1, <2>1, <2>3, <2>4 DEF TrackInv, RubyTypeOK, NoStalePointer, OwnerKnown, Wraps, Live
  <2>9. VarsLive'
      BY <1>1 DEF CollectValue, TrackInv, VarsLive, RubyTypeOK, Live
  <2> QED BY <2>5, <2>6, <2>7, <2>8, <2>9 DEF TrackInv
<1> QED BY <1>2, <1>3

\* rubytracking.swg, SWIG_RubyUnlinkObjects() and SWIG_RubyRemoveTracking(): C++ code that
\* deletes an object takes it away from the one Ruby object that wraps it.
LEMMA DeleteTracks == ASSUME RightClasses, TrackInv, NEW p \in Address, CppDelete(p) PROVE TrackInv'
<1>1. heap[p] = "cpp" /\ heap' = [heap EXCEPT ![p] = "free"] /\ UNCHANGED var
    BY DEF CppDelete
<1>2. trackings' = Untracked(p)
    BY DEF CppDelete
<1>3. CASE p \notin DOMAIN trackings
  <2>1. data' = data
      BY <1>3 DEF CppDelete, SWIG_RubyInstanceFor
  <2>2. \A w \in Val : ~Wraps(w, p)
      BY <1>3 DEF TrackInv, Matching, Tracks
  <2> QED
      BY <1>1, <1>2, <1>3, <2>1, <2>2 DEF TrackInv, RubyTypeOK, Untracked, Matching, Wraps, Tracks,
                                          NoStalePointer, OwnerKnown, VarsLive, Live
<1>4. CASE p \in DOMAIN trackings
  <2> DEFINE v == trackings[p]
  <2>1. v \in Val /\ Wraps(v, p) /\ data' = [data EXCEPT ![v].ptr = Nil]
      BY <1>4 DEF CppDelete, SWIG_RubyInstanceFor, TrackInv, RubyTypeOK, Matching, Tracks, RightClasses
  <2>2. \A w \in Val \ {v} : ~Wraps(w, p)
      BY <1>4 DEF TrackInv, Matching, Tracks
  <2>3. data'[v] # Nil /\ data'[v].ptr = Nil /\ \A w \in Val \ {v} : data'[w] = data[w]
      BY <2>1 DEF TrackInv, RubyTypeOK, Wraps, RightClasses
  <2>4. RubyTypeOK'
      BY <1>1, <1>2, <2>1 DEF TrackInv, RubyTypeOK, Untracked, Wraps
  <2>5. Matching'
    <3> SUFFICES ASSUME NEW w \in Val, NEW q \in Address PROVE Wraps(w, q)' <=> Tracks(q, w)'
        BY DEF Matching
    <3>1. Tracks(q, w)' <=> q # p /\ Tracks(q, w)
        BY <1>2 DEF Tracks, Untracked
    <3>2. Wraps(w, q)' <=> q # p /\ Wraps(w, q)
        BY <2>1, <2>2, <2>3 DEF Wraps, RightClasses
    <3> QED BY <3>1, <3>2 DEF TrackInv, Matching
  <2>6. NoStalePointer'
      BY <1>1, <2>2, <2>3 DEF TrackInv, RubyTypeOK, NoStalePointer, Wraps, Live
  <2>7. OwnerKnown'
      BY <1>1, <2>1, <2>2, <2>3 DEF TrackInv, RubyTypeOK, OwnerKnown, Wraps, Live
  <2>8. VarsLive'
      BY <1>1, <2>1, <2>3 DEF TrackInv, VarsLive, Live, Wraps
  <2> QED BY <2>4, <2>5, <2>6, <2>7, <2>8 DEF TrackInv
<1> QED BY <1>3, <1>4
-----------------------------------------------------------------------------
\* rubyrun.swg and rubytracking.swg: every step keeps the table and the Ruby objects in
\* agreement.
LEMMA StepTracks == ASSUME RightClasses, TrackInv, [RubyNext]_rubyVars PROVE TrackInv'
<1>1. ASSUME NEW v \in Val, NEW p \in Address, NEW t \in RubyType, New(v, p, t) PROVE TrackInv'
  <2>1. p \notin DOMAIN trackings
      BY <1>1 DEF New, TrackInv, RubyTypeOK, Matching, Wraps, Tracks, NoStalePointer, Live, RightClasses
  <2>2. heap' = [heap EXCEPT ![p] = "ruby"] /\ Wrap(v, p, t, "destroy")
      BY <1>1 DEF New
  <2>3. /\ heap' \in [Address -> {"free", "ruby", "cpp"}]
        /\ \A q \in Address \ {p} : heap'[q] = heap[q]
        /\ heap'[p] = "ruby"
      BY <2>2 DEF TrackInv, RubyTypeOK
  <2> QED BY <2>1, <2>2, <2>3, WrapTracks
<1>2. ASSUME NEW v \in Val, NEW p \in Address, NEW t \in RubyType, Return(v, p, t) PROVE TrackInv'
  <2>1. SWIG_Ruby_NewPointerObj(v, p, t, FALSE) /\ heap' = heap /\ heap[p] # "free"
      BY <1>2 DEF Return
  <2>2. heap' \in [Address -> {"free", "ruby", "cpp"}]
      BY <2>1 DEF TrackInv, RubyTypeOK
  <2> QED BY <2>1, <2>2, PointerObjTracks
<1>3. ASSUME NEW v \in Val, NEW p \in Address, NEW t \in RubyType, NEW owner \in {"ruby", "cpp"},
             ReturnNew(v, p, t, owner)
      PROVE  TrackInv'
  <2>1. SWIG_Ruby_NewPointerObj(v, p, t, owner = "ruby") /\ heap[p] = "free"
      BY <1>3 DEF ReturnNew
  <2>2. heap' = [heap EXCEPT ![p] = owner]
      BY <1>3 DEF ReturnNew
  <2>3. /\ heap' \in [Address -> {"free", "ruby", "cpp"}]
        /\ \A q \in Address \ {p} : heap'[q] = heap[q]
        /\ heap'[p] = IF owner = "ruby" THEN "ruby" ELSE "cpp"
      BY <2>2 DEF TrackInv, RubyTypeOK
  <2> QED BY <2>1, <2>3, PointerObjTracks
<1>4. ASSUME NEW v \in Val, ConvertDisown(v, TRUE) PROVE TrackInv'
  <2> DEFINE p == data[v].ptr
  <2>1. data[v] # Nil /\ p \in Address /\ Wraps(v, p) /\ data[v].dfree = "destroy"
      BY <1>4 DEF ConvertDisown, TrackInv, VarsLive, Live, RubyTypeOK, Wraps
  <2>2. UNCHANGED <<trackings, var>> /\ heap' = [heap EXCEPT ![p] = "cpp"]
      BY <1>4 DEF ConvertDisown
  <2>3. data' = [data EXCEPT ![v].dfree = "untrack"]
      BY <1>4 DEF ConvertDisown
  <2>4. /\ data'[v] # Nil /\ data'[v].ptr = p /\ data'[v].dfree = "untrack"
        /\ \A w \in Val \ {v} : data'[w] = data[w]
      BY <2>1, <2>3 DEF TrackInv, RubyTypeOK, RightClasses
  <2>5. \A w \in Val \ {v} : ~Wraps(w, p)
      BY <2>1 DEF TrackInv, Matching, Tracks
  <2>6. RubyTypeOK'
      BY <2>1, <2>2, <2>3 DEF TrackInv, RubyTypeOK
  <2>7. Matching'
    <3>1. \A w \in Val, q \in Address : Wraps(w, q)' <=> Wraps(w, q)
        BY <2>1, <2>4 DEF Wraps
    <3> QED BY <2>2, <3>1 DEF TrackInv, Matching, Tracks
  <2>8. NoStalePointer'
      BY <2>1, <2>2, <2>4, <2>5 DEF TrackInv, RubyTypeOK, NoStalePointer, Wraps, Live
  <2>9. OwnerKnown'
      BY <2>1, <2>2, <2>4, <2>5 DEF TrackInv, RubyTypeOK, OwnerKnown, Wraps, Live
  <2>10. VarsLive'
      BY <2>2, <2>4 DEF TrackInv, VarsLive, Live
  <2> QED BY <2>6, <2>7, <2>8, <2>9, <2>10 DEF TrackInv
<1>5. ASSUME NEW v \in Val, DropVar(v) PROVE TrackInv'
    BY <1>5 DEF DropVar, TrackInv, RubyTypeOK, Matching, Wraps, Tracks, NoStalePointer, OwnerKnown, VarsLive, Live
<1>6. CASE UNCHANGED rubyVars
    BY <1>6 DEF rubyVars, TrackInv, RubyTypeOK, Matching, Wraps, Tracks, NoStalePointer, OwnerKnown, VarsLive, Live
<1> QED
    BY <1>1, <1>2, <1>3, <1>4, <1>5, <1>6, CollectTracks, DeleteTracks DEF RubyNext, RightClasses

-----------------------------------------------------------------------------
\* rubytracking.swg: whatever C++ code, Ruby code and the collector do in any order, the
\* table and the pointers are right at every moment.  TrackInv, with the agreement of the
\* table and the Ruby objects in both directions, is inductive.
THEOREM TrackInvHolds == ASSUME RightClasses PROVE RubySpec => []TrackInv
<1>1. RubyInit => TrackInv
    BY InitTracks
<1>2. TrackInv /\ [RubyNext]_rubyVars => TrackInv'
    BY StepTracks
<1> QED BY <1>1, <1>2, PTL DEF RubySpec

\* rubyrun.swg:296: the table never names a Ruby object that no longer exists; no Ruby
\* object leads to a deleted C++ object; no two wrap the same; who has to delete an object
\* is there.
THEOREM TrackingStaysRight ==
    ASSUME RightClasses
    PROVE  RubySpec => []TrackingRight
<1>1. TrackInv => TableRight
    BY DEF TrackInv, RubyTypeOK, Matching, Wraps, Tracks, TableRight
<1>2. TrackInv => OneToOne
    BY DEF TrackInv, RubyTypeOK, Matching, Wraps, Tracks, OneToOne, Live
<1>3. TrackInv => NoStalePointer /\ OwnerKnown
    BY DEF TrackInv
<1>4. TrackInv => TrackingRight
    BY <1>1, <1>2, <1>3 DEF TrackingRight
<1> QED BY <1>4, TrackInvHolds, PTL

-----------------------------------------------------------------------------
(* Directors and threads in Python. *)
NoneIsNoThread == None \notin Thread

FrameType == [kind : {"py", "cpp", "base", "dir"}, m : Method \cup {"none"},
              via : {"none", "self", "super", "other", "virtual", "dir"},
              had : BOOLEAN, called : BOOLEAN]

\* g stands on f: who can call whom, and what a director method remembers of the lock
Above(g, f) ==
    /\ g.kind = "cpp" => f.kind = "py"
    /\ g.kind \in {"py", "base"} => f.kind \in {"py", "dir"}
    /\ g.kind = "dir" => /\ f.kind # "dir" /\ g.via # "super"
                         /\ g.had <=> f.kind # "cpp"
    /\ g.kind = "base" /\ g.m \in over => g.via = "super"

Stacks == Seq(FrameType)
StackOK(st) == Len(st) > 0 /\ \A n \in 2..Len(st) : Above(st[n], st[n - 1])

CallTypes ==
    /\ gil \in Thread \cup {None} /\ wait \in [Thread -> BOOLEAN]
    /\ err \in [Thread -> BOOLEAN] /\ inner \in BOOLEAN
    /\ stack \in [Thread -> Stacks]

\* who waits for the lock comes back to Python, a wrapper or a director method
Waiting == \A t \in Thread : wait[t] => Top(t).kind # "cpp"

CallInv == CallTypes /\ (\A t \in Thread : StackOK(stack[t])) /\ Waiting /\ LockIsRight

-----------------------------------------------------------------------------
\* python.cxx: a frame that is called keeps the order of the frames.
LEMMA Pushed ==
    ASSUME NEW st \in Stacks, StackOK(st), NEW g \in FrameType, Above(g, st[Len(st)])
    PROVE  /\ Append(st, g) \in Stacks /\ StackOK(Append(st, g))
           /\ Last(Append(st, g)) = g
<1>1. Append(st, g) \in Stacks /\ Len(Append(st, g)) = Len(st) + 1
    BY DEF Stacks
<1>2. Append(st, g)[Len(st) + 1] = g /\ \A n \in 1..Len(st) : Append(st, g)[n] = st[n]
    BY DEF Stacks
<1>3. Len(st) \in Nat /\ Len(st) > 0
    BY DEF Stacks, StackOK
<1>4. ASSUME NEW n \in 2..(Len(st) + 1)
      PROVE  Above(Append(st, g)[n], Append(st, g)[n - 1])
    <2>1. CASE n = Len(st) + 1
        BY <2>1, <1>2, <1>3
    <2>2. CASE n # Len(st) + 1
        <3>1. n \in 2..Len(st) /\ n \in 1..Len(st) /\ n - 1 \in 1..Len(st)
            BY <2>2, <1>3
        <3> QED BY <3>1, <1>2 DEF StackOK
    <2> QED BY <2>1, <2>2
<1> QED BY <1>1, <1>2, <1>3, <1>4 DEF StackOK, Last

\* python.cxx: so does one that returns; it comes back to one that could call it.
LEMMA Popped ==
    ASSUME NEW st \in Stacks, StackOK(st), Len(st) > 1
    PROVE  /\ Front(st) \in Stacks /\ StackOK(Front(st))
           /\ Above(Last(st), Last(Front(st)))
<1>1. Len(st) \in Nat
    BY DEF Stacks
<1>2. Front(st) \in Stacks /\ Len(Front(st)) = Len(st) - 1
    BY <1>1 DEF Front, Stacks
<1>3. \A n \in 1..(Len(st) - 1) : Front(st)[n] = st[n]
    BY <1>1 DEF Front, Stacks
<1>4. \A n \in 2..(Len(st) - 1) : n \in 1..(Len(st) - 1) /\ n - 1 \in 1..(Len(st) - 1)
    BY <1>1
<1>5. Len(st) - 1 \in 1..(Len(st) - 1) /\ Len(st) \in 2..Len(st)
    BY <1>1
<1>6. \A n \in 2..Len(Front(st)) : Above(Front(st)[n], Front(st)[n - 1])
    BY <1>1, <1>2, <1>3, <1>4 DEF StackOK
<1>7. Above(st[Len(st)], st[Len(st) - 1])
    BY <1>5 DEF StackOK
<1> QED BY <1>1, <1>2, <1>3, <1>5, <1>6, <1>7 DEF StackOK, Last

\* pythreads.swg: the frames of thread t become st, it waits if w holds, and the lock is
\* where it has to be; the other threads notice nothing.
LEMMA OneThread ==
    ASSUME CallInv, NEW t \in Thread, NEW st \in Stacks, StackOK(st), NEW w \in BOOLEAN,
           stack' = [stack EXCEPT ![t] = st], wait' = [wait EXCEPT ![t] = w],
           w => Last(st).kind # "cpp",
           gil' \in Thread \cup {None}, (gil' = t) <=> ~(w \/ Last(st).kind = "cpp"),
           \A u \in Thread \ {t} : gil' = u <=> gil = u,
           err' \in [Thread -> BOOLEAN], inner' \in BOOLEAN, over' = over
    PROVE  CallInv'
<1>1. CallTypes'
    BY DEF CallInv, CallTypes
<1>2. stack'[t] = st /\ wait'[t] = w
    BY DEF CallInv, CallTypes
<1>3. \A u \in Thread \ {t} : stack'[u] = stack[u] /\ wait'[u] = wait[u]
    BY DEF CallInv, CallTypes
<1>4. ASSUME NEW u \in Thread PROVE StackOK(stack'[u])
    BY <1>2, <1>3 DEF CallInv
<1>5. (\A u \in Thread : StackOK(stack[u]))'
    BY <1>4 DEF StackOK, Above
<1>6. Waiting'
    BY <1>2, <1>3 DEF CallInv, Waiting, Top
<1>7. LockIsRight'
    BY <1>2, <1>3 DEF CallInv, LockIsRight, Top
<1> QED BY <1>1, <1>5, <1>6, <1>7 DEF CallInv

\* director.swg: before any call there is one frame per thread.
LEMMA InitCalls == ASSUME NoneIsNoThread PROVE DirInit => CallInv
<1> SUFFICES ASSUME DirInit PROVE CallInv
    OBVIOUS
<1>1. \A t \in Thread : stack[t] \in Stacks /\ Len(stack[t]) = 1
                        /\ Last(stack[t]).kind = IF t \in PyThread THEN "py" ELSE "cpp"
    BY DEF DirInit, Stacks, FrameType, Frame, Last
<1>2. stack \in [Thread -> Stacks]
    BY <1>1 DEF DirInit
<1>3. CallTypes
    <2>1. wait \in [Thread -> BOOLEAN]
        <3>1. wait = [t \in Thread |-> t \in PyThread]
            BY DEF DirInit
        <3>2. \A t \in Thread : (t \in PyThread) \in BOOLEAN
            OBVIOUS
        <3> QED BY <3>1, <3>2, Zenon
    <2>2. err \in [Thread -> BOOLEAN] /\ inner \in BOOLEAN
        BY DEF DirInit
    <2> QED BY <1>2, <2>1, <2>2 DEF DirInit, CallTypes
<1>4. ASSUME NEW t \in Thread PROVE StackOK(stack[t])
    <2>1. Len(stack[t]) = 1
        BY <1>1
    <2>2. \A n \in 2..1 : FALSE
        OBVIOUS
    <2> QED BY <2>1, <2>2 DEF StackOK
<1>5. Waiting
    BY <1>1 DEF DirInit, Waiting, Top
<1>6. LockIsRight
    BY <1>1, NoneIsNoThread DEF DirInit, LockIsRight, Top, NoneIsNoThread
<1> QED BY <1>3, <1>4, <1>5, <1>6 DEF CallInv

\* what the steps of a thread find
LEMMA Running ==
    ASSUME NoneIsNoThread, CallInv, NEW t \in Thread
    PROVE  /\ stack[t] \in Stacks /\ StackOK(stack[t]) /\ Top(t) = stack[t][Len(stack[t])]
           /\ Top(t) \in FrameType /\ wait[t] \in BOOLEAN /\ err[t] \in BOOLEAN
           /\ (gil = t) <=> ~(wait[t] \/ Top(t).kind = "cpp")
           /\ Released(t) \in Thread \cup {None} /\ Released(t) # t
           /\ \A u \in Thread \ {t} : Released(t) = u <=> gil = u
           /\ stack = [stack EXCEPT ![t] = stack[t]] /\ wait = [wait EXCEPT ![t] = wait[t]]
<1>1. stack[t] \in Stacks /\ StackOK(stack[t]) /\ wait[t] \in BOOLEAN /\ err[t] \in BOOLEAN
    BY DEF CallInv, CallTypes
<1>2. Top(t) = stack[t][Len(stack[t])]
    BY DEF Top, Last
<1>3. Top(t) \in FrameType
    BY <1>1, <1>2 DEF StackOK, Stacks
<1>4. (gil = t) <=> ~(wait[t] \/ Top(t).kind = "cpp")
    BY DEF CallInv, LockIsRight
<1>5. /\ Released(t) \in Thread \cup {None} /\ Released(t) # t
      /\ \A u \in Thread \ {t} : Released(t) = u <=> gil = u
    BY NoneIsNoThread DEF NoneIsNoThread, Released, CallInv, CallTypes
<1>6. stack = [stack EXCEPT ![t] = stack[t]] /\ wait = [wait EXCEPT ![t] = wait[t]]
    BY DEF CallInv, CallTypes
<1> QED BY <1>1, <1>2, <1>3, <1>4, <1>5, <1>6

-----------------------------------------------------------------------------
\* pythreads.swg: the lock is taken by who waits for it, and only let go in Python code.
LEMMA TakeSwitch ==
    ASSUME NoneIsNoThread, CallInv, NEW t \in Thread, Take(t) \/ Switch(t)
    PROVE  CallInv'
<1>1. CASE Take(t)
    <2>1. Top(t).kind # "cpp"
        BY <1>1 DEF Take, CallInv, Waiting
    <2>2. stack' = [stack EXCEPT ![t] = stack[t]] /\ wait' = [wait EXCEPT ![t] = FALSE]
        BY <1>1, Running DEF Take
    <2>3. gil' = t /\ \A u \in Thread \ {t} : gil' = u <=> gil = u
        BY <1>1, NoneIsNoThread DEF Take, NoneIsNoThread
    <2>4. err' \in [Thread -> BOOLEAN] /\ inner' \in BOOLEAN /\ over' = over
        BY <1>1 DEF Take, CallInv, CallTypes
    <2>5. Last(stack[t]).kind # "cpp"
        BY <2>1 DEF Top
    <2> QED BY <2>2, <2>3, <2>4, <2>5, Running, OneThread
<1>2. CASE Switch(t)
    <2>1. stack' = [stack EXCEPT ![t] = stack[t]] /\ wait' = [wait EXCEPT ![t] = TRUE]
        BY <1>2, Running DEF Switch
    <2>2. Last(stack[t]).kind = "py"
        BY <1>2 DEF Switch, Runs, Top
    <2>3. /\ gil' \in Thread \cup {None} /\ gil' # t
          /\ \A u \in Thread \ {t} : gil' = u <=> gil = u
        BY <1>2, Running DEF Switch
    <2>4. err' \in [Thread -> BOOLEAN] /\ inner' \in BOOLEAN /\ over' = over
        BY <1>2 DEF Switch, CallInv, CallTypes
    <2>5. stack[t] \in Stacks /\ StackOK(stack[t])
        BY Running
    <2> QED BY <2>1, <2>2, <2>3, <2>4, <2>5, OneThread
<1> QED BY <1>1, <1>2

\* functionWrapper(): a wrapper that lets the lock go is called with it, and has it
\* again behind the call, with an error, too.
LEMMA Functions ==
    ASSUME NoneIsNoThread, CallInv, NEW t \in Thread, CallFunction(t) \/ FunctionReturns(t)
    PROVE  CallInv'
<1>1. CASE CallFunction(t)
    <2> DEFINE g == Frame("cpp", "none", "none")
    <2>1. g \in FrameType /\ g.kind = "cpp"
        BY DEF Frame, FrameType
    <2>2. Top(t).kind = "py" /\ ~wait[t]
        BY <1>1 DEF CallFunction, Calm, Runs
    <2>3. Above(g, stack[t][Len(stack[t])])
        BY <2>1, <2>2, Running DEF Above, Frame
    <2>4. /\ Append(stack[t], g) \in Stacks /\ StackOK(Append(stack[t], g))
          /\ Last(Append(stack[t], g)) = g
        BY <2>1, <2>3, Running, Pushed
    <2>5. /\ stack' = [stack EXCEPT ![t] = Append(stack[t], g)]
          /\ wait' = [wait EXCEPT ![t] = wait[t]]
        BY <1>1, Running DEF CallFunction, Push, CallInv, CallTypes
    <2>6. /\ gil' \in Thread \cup {None} /\ gil' # t
          /\ \A u \in Thread \ {t} : gil' = u <=> gil = u
        BY <1>1, Running DEF CallFunction
    <2>7. err' \in [Thread -> BOOLEAN] /\ inner' \in BOOLEAN /\ over' = over
        BY <1>1 DEF CallFunction, CallInv, CallTypes
    <2> HIDE DEF g
    <2>8. /\ (gil' = t) <=> ~(wait[t] \/ Last(Append(stack[t], g)).kind = "cpp")
          /\ wait[t] \in BOOLEAN
        BY <2>1, <2>4, <2>6, Running
    <2> QED BY <2>2, <2>4, <2>5, <2>6, <2>7, <2>8, OneThread
<1>2. CASE FunctionReturns(t)
    <2>1. Top(t).kind = "cpp" /\ Len(stack[t]) > 1
        BY <1>2 DEF FunctionReturns, Runs, Pop
    <2>2. /\ Front(stack[t]) \in Stacks /\ StackOK(Front(stack[t]))
          /\ Above(Top(t), Last(Front(stack[t])))
        BY <2>1, Running, Popped DEF Top
    <2>3. Last(Front(stack[t])).kind = "py"
        BY <2>1, <2>2 DEF Above
    <2>4. stack' = [stack EXCEPT ![t] = Front(stack[t])]
        BY <1>2 DEF FunctionReturns, Pop, CallInv, CallTypes
    <2> QED BY <1>2, <2>1, <2>2, <2>3, <2>4, Running, OneThread
            DEF FunctionReturns, CallInv, CallTypes
<1> QED BY <1>1, <1>2

\* director.swg: a return to Python, to a wrapper or to a director method keeps the lock.
LEMMA Returns ==
    ASSUME NoneIsNoThread, CallInv, NEW t \in Thread,
           PyReturn(t) \/ BaseReturns(t) \/ DirectorReturns(t)
    PROVE  CallInv'
<1>1. Len(stack[t]) > 1 /\ ~wait[t] /\ stack' = [stack EXCEPT ![t] = Front(stack[t])]
    BY DEF PyReturn, BaseReturns, DirectorReturns, Pop, Runs, CallInv, CallTypes
<1>2. /\ Front(stack[t]) \in Stacks /\ StackOK(Front(stack[t]))
      /\ Above(Top(t), Last(Front(stack[t])))
    BY <1>1, Running, Popped DEF Top
<1>3. wait' = [wait EXCEPT ![t] = wait[t]]
    BY Running DEF PyReturn, BaseReturns, DirectorReturns
<1>4. err' \in [Thread -> BOOLEAN] /\ inner' \in BOOLEAN /\ over' = over
    BY DEF PyReturn, BaseReturns, DirectorReturns, CallInv, CallTypes
<1>5. CASE PyReturn(t) \/ BaseReturns(t)
    <2>1. Top(t).kind \in {"py", "base"} /\ gil' = gil
        BY <1>5 DEF PyReturn, BaseReturns, Runs
    <2>2. Last(Front(stack[t])).kind # "cpp" /\ Top(t).kind # "cpp"
        BY <1>2, <2>1 DEF Above
    <2> QED BY <1>1, <1>2, <1>3, <1>4, <2>1, <2>2, Running, OneThread DEF CallInv, CallTypes
<1>6. CASE DirectorReturns(t)
    <2>1. Top(t).kind = "dir" /\ gil' = IF Top(t).had THEN gil ELSE Released(t)
        BY <1>6 DEF DirectorReturns, Runs
    <2>2. Top(t).had <=> Last(Front(stack[t])).kind # "cpp"
        BY <1>2, <2>1 DEF Above
    <2>3. gil = t
        BY <1>1, <2>1, Running
    <2> QED BY <1>1, <1>2, <1>3, <1>4, <2>1, <2>2, <2>3, Running, OneThread DEF CallInv, CallTypes
<1> QED BY <1>5, <1>6

\* the same stack, but the director method on it has called Python
SameFrames(t, st) ==
    /\ st \in Stacks /\ StackOK(st) /\ st[Len(st)].kind = Top(t).kind
    /\ ~wait[t] /\ over' = over /\ gil' = gil
    /\ err' \in [Thread -> BOOLEAN] /\ inner' \in BOOLEAN

\* python.cxx: Python code or a base class's method is called where the lock is held.
LEMMA CallsWithLock ==
    ASSUME NoneIsNoThread, CallInv, NEW t \in Thread, NEW st, SameFrames(t, st),
           Top(t).kind \in {"py", "dir"}, NEW g \in FrameType, g.kind \in {"py", "base"},
           g.kind = "base" /\ g.m \in over => g.via = "super",
           stack' = [stack EXCEPT ![t] = Append(st, g)], wait' = wait
    PROVE  CallInv'
<1>1. Above(g, st[Len(st)])
    BY DEF SameFrames, Above
<1>2. /\ Append(st, g) \in Stacks /\ StackOK(Append(st, g)) /\ Last(Append(st, g)) = g
    BY <1>1, Pushed DEF SameFrames
<1>3. wait' = [wait EXCEPT ![t] = FALSE]
    BY Running DEF SameFrames
<1>4. gil' = t /\ gil' \in Thread \cup {None}
    BY Running DEF SameFrames
<1>5. \A u \in Thread \ {t} : gil' = u <=> gil = u
    BY DEF SameFrames
<1> QED BY <1>2, <1>3, <1>4, <1>5, OneThread DEF SameFrames

\* SWIG_Python_Thread_Block: a director method is called with or without the lock.
LEMMA DirectorEntered ==
    ASSUME NoneIsNoThread, CallInv, NEW t \in Thread, NEW st, SameFrames(t, st),
           Top(t).kind # "dir", NEW m \in Method \cup {"none"}, NEW via \in {"other", "virtual"},
           Enter(t, st, m, via)
    PROVE  CallInv'
<1> DEFINE g == [Frame("dir", m, via) EXCEPT !.had = gil = t]
<1>1. (gil = t) <=> Top(t).kind # "cpp"
    BY Running DEF SameFrames
<1>2. /\ Frame("dir", m, via) \in FrameType /\ Frame("dir", m, via).kind = "dir"
      /\ Frame("dir", m, via).via = via
    BY DEF Frame, FrameType
<1>3. \A f \in FrameType, b \in BOOLEAN :
          /\ [f EXCEPT !.had = b] \in FrameType /\ [f EXCEPT !.had = b].kind = f.kind
          /\ [f EXCEPT !.had = b].via = f.via /\ ([f EXCEPT !.had = b].had <=> b)
    BY DEF FrameType
<1>4. g \in FrameType /\ g.kind = "dir" /\ g.via = via /\ (g.had <=> gil = t)
    BY <1>2, <1>3
<1>5. Above(g, st[Len(st)])
    BY <1>1, <1>4 DEF SameFrames, Above
<1>6. /\ Append(st, g) \in Stacks /\ StackOK(Append(st, g)) /\ Last(Append(st, g)) = g
    BY <1>4, <1>5, Pushed DEF SameFrames
<1>7. /\ stack' = [stack EXCEPT ![t] = Append(st, g)]
      /\ wait' = [wait EXCEPT ![t] = gil # t]
    BY DEF Enter
<1>8. gil' \in Thread \cup {None} /\ (gil' = t <=> ~(gil # t))
    BY DEF SameFrames, CallInv, CallTypes
<1>9. \A u \in Thread \ {t} : gil' = u <=> gil = u
    BY DEF SameFrames
<1> HIDE DEF g
<1>10. \/ gil = t /\ wait' = [wait EXCEPT ![t] = FALSE]
       \/ gil # t /\ wait' = [wait EXCEPT ![t] = TRUE]
    BY <1>7
<1> QED BY <1>4, <1>6, <1>7, <1>8, <1>9, <1>10, OneThread DEF SameFrames

\* python.cxx:2157: whichever function self.m finds is called with the lock.
LEMMA LookedUp ==
    ASSUME NoneIsNoThread, CallInv, NEW t \in Thread, NEW st, SameFrames(t, st),
           Top(t).kind \in {"py", "dir"}, NEW m \in Method \cup {"none"}, NEW in \in BOOLEAN,
           NEW via \in {"self", "super", "other", "dir"},
           Top(t).kind = "dir" => via = "dir", LookUp(t, st, m, via, in)
    PROVE  CallInv'
<1>1. CASE via \in {"self", "dir"} /\ m \in over
    <2>1. /\ stack' = [stack EXCEPT ![t] = Append(st, Frame("py", m, via))] /\ wait' = wait
        BY <1>1 DEF LookUp
    <2>2. Frame("py", m, via) \in FrameType /\ Frame("py", m, via).kind = "py"
        BY DEF Frame, FrameType
    <2> QED BY <2>1, <2>2, CallsWithLock
<1>2. CASE ~(via \in {"self", "dir"} /\ m \in over)
    <2>1. Wrapper(t, st, m, via, in)
        BY <1>2 DEF LookUp
    <2>2. CASE m = "prot" /\ ~in
        <3>1. stack' = [stack EXCEPT ![t] = st] /\ wait' = [wait EXCEPT ![t] = FALSE]
            BY <2>1, <2>2, Running DEF Wrapper, SameFrames
        <3>2. gil' = t /\ gil' \in Thread \cup {None} /\ Last(st).kind # "cpp"
            BY Running DEF SameFrames, Last
        <3>3. \A u \in Thread \ {t} : gil' = u <=> gil = u
            BY DEF SameFrames
        <3> QED BY <3>1, <3>2, <3>3, OneThread DEF SameFrames
    <2>3. CASE ~(m = "prot" /\ ~in) /\ Upcall(via)
        <3>1. /\ stack' = [stack EXCEPT ![t] = Append(st, Frame("base", m, via))]
              /\ wait' = wait
            BY <2>1, <2>3 DEF Wrapper
        <3>2. /\ Frame("base", m, via) \in FrameType /\ Frame("base", m, via).kind = "base"
              /\ Frame("base", m, via).m = m /\ Frame("base", m, via).via = via
            BY DEF Frame, FrameType
        <3>3. m \in over => via = "super"
            BY <1>2, <2>3 DEF Upcall
        <3> QED BY <3>1, <3>2, <3>3, CallsWithLock
    <2>4. CASE ~(m = "prot" /\ ~in) /\ ~Upcall(via)
        <3>1. Enter(t, st, m, via) /\ via = "other"
            BY <2>1, <2>4 DEF Wrapper, Upcall
        <3> QED BY <3>1, DirectorEntered
    <2> QED BY <2>2, <2>3, <2>4
<1> QED BY <1>1, <1>2

\* director.swg: calls from Python, from C++ and from director methods.
LEMMA Calls ==
    ASSUME NoneIsNoThread, CallInv, NEW t \in Thread,
           \/ \E m \in Method, via \in {"self", "super", "other"} : CallMethod(t, m, via)
           \/ \E m \in Method : Virtual(t, m)
           \/ DirectorCalls(t)
    PROVE  CallInv'
<1>1. ASSUME NEW m \in Method, NEW via \in {"self", "super", "other"}, CallMethod(t, m, via)
      PROVE  CallInv'
    <2>1. Top(t).kind = "py" /\ ~wait[t] /\ over' = over /\ gil' = gil /\ inner' = inner
          /\ LookUp(t, stack[t], m, via, inner)
        BY <1>1 DEF CallMethod, Calm, Runs
    <2>2. err' \in [Thread -> BOOLEAN]
        BY <2>1 DEF LookUp, Wrapper, Enter, CallInv, CallTypes
    <2>3. SameFrames(t, stack[t]) /\ inner \in BOOLEAN
        BY <2>1, <2>2, Running DEF SameFrames, CallInv, CallTypes
    <2> QED BY <2>1, <2>3, LookedUp
<1>2. ASSUME NEW m \in Method, Virtual(t, m)
      PROVE  CallInv'
    <2>1. Top(t).kind \in {"cpp", "base"} /\ ~wait[t] /\ over' = over /\ gil' = gil
          /\ inner' = inner /\ err' = err /\ Enter(t, stack[t], m, "virtual")
        BY <1>2 DEF Virtual, Calm, Runs
    <2>2. SameFrames(t, stack[t])
        BY <2>1, Running DEF SameFrames, CallInv, CallTypes
    <2> QED BY <2>1, <2>2, DirectorEntered
<1>3. CASE DirectorCalls(t)
    <2> DEFINE n == Len(stack[t])
               st == [stack[t] EXCEPT ![n].called = TRUE]
    <2>1. Top(t).kind = "dir" /\ ~wait[t] /\ over' = over /\ gil' = gil
          /\ inner' = (inner \/ Top(t).m = "prot")
          /\ LookUp(t, st, Top(t).m, "dir", inner')
        BY <1>3 DEF DirectorCalls, Calm, Runs
    <2>2. stack[t] \in Seq(FrameType) /\ n \in 1..n /\ n \in Nat
        BY Running DEF StackOK, Stacks
    <2>3. st \in Seq(FrameType) /\ Len(st) = n
        <3> DEFINE h == [stack[t][n] EXCEPT !.called = TRUE]
        <3>1. h \in FrameType
            <4>1. stack[t][n] \in FrameType
                BY <2>2
            <4>2. \A f \in FrameType : [f EXCEPT !.called = TRUE] \in FrameType
                BY DEF FrameType
            <4> QED BY <4>1, <4>2
        <3>2. st = [stack[t] EXCEPT ![n] = h]
            BY <2>2
        <3> HIDE DEF h
        <3>3. [stack[t] EXCEPT ![n] = h] \in Seq(FrameType)
              /\ Len([stack[t] EXCEPT ![n] = h]) = n
            BY <2>2, <3>1
        <3> QED BY <3>2, <3>3
    <2>4. \A k \in 1..n : st[k].kind = stack[t][k].kind /\ st[k].via = stack[t][k].via
                          /\ st[k].had = stack[t][k].had /\ st[k].m = stack[t][k].m
        BY <2>2
    <2>5. \A k \in 2..n : k \in 1..n /\ k - 1 \in 1..n
        BY <2>2
    <2>6. StackOK(st)
        BY <2>2, <2>3, <2>4, <2>5, Running DEF StackOK, Above
    <2>7. st[Len(st)].kind = "dir"
        BY <2>1, <2>2, <2>3, <2>4, Running
    <2>8. inner' \in BOOLEAN
        BY <2>1 DEF CallInv, CallTypes
    <2>9. err' \in [Thread -> BOOLEAN]
        BY <2>1 DEF LookUp, Wrapper, Enter, CallInv, CallTypes
    <2>10. SameFrames(t, st)
        BY <2>1, <2>3, <2>6, <2>7, <2>8, <2>9 DEF SameFrames, Stacks
    <2>11. Top(t).m \in Method \cup {"none"}
        BY Running DEF FrameType
    <2> QED BY <2>1, <2>8, <2>10, <2>11, LookedUp
<1> QED BY <1>1, <1>2, <1>3

\* director.swg:402, an except clause, a Python name: they call nothing.
LEMMA Others ==
    ASSUME CallInv, NEW t \in Thread,
           \/ Catch(t) \/ Bind(t) \/ Unbind(t) \/ DisownReads(t) \/ DisownWrites(t)
    PROVE  CallInv'
<1>1. over' = over /\ stack' = stack /\ gil' = gil /\ wait' = wait /\ inner' = inner
    BY DEF Catch, Bind, Unbind, DisownReads, DisownWrites
<1>2. err' \in [Thread -> BOOLEAN]
    BY DEF Catch, Bind, Unbind, DisownReads, DisownWrites, CallInv, CallTypes
<1>3. CallTypes'
    BY <1>1, <1>2 DEF CallInv, CallTypes
<1>4. (\A u \in Thread : StackOK(stack[u]))'
    BY <1>1 DEF CallInv, StackOK, Above
<1>5. Waiting' /\ LockIsRight'
    BY <1>1 DEF CallInv, Waiting, LockIsRight, Top
<1> QED BY <1>3, <1>4, <1>5 DEF CallInv

\* the whole program: each step keeps the lock and the frames in order.
THEOREM CallInvHolds == ASSUME NoneIsNoThread PROVE DirSpec => []CallInv
<1>1. DirInit => CallInv
    BY InitCalls
<1>2. CallInv /\ [DirNext]_dirVars => CallInv'
    <2> SUFFICES ASSUME CallInv, [DirNext]_dirVars PROVE CallInv'
        OBVIOUS
    <2>1. CASE UNCHANGED dirVars
        <3>1. over' = over /\ stack' = stack /\ gil' = gil /\ wait' = wait /\ err' = err
              /\ inner' = inner
            BY <2>1 DEF dirVars
        <3> QED BY <3>1 DEF CallInv, CallTypes, StackOK, Above, Waiting, LockIsRight, Top
    <2>2. ASSUME NEW t \in Thread,
                 \/ Take(t) \/ Switch(t)
                 \/ CallFunction(t) \/ FunctionReturns(t)
                 \/ PyReturn(t) \/ BaseReturns(t) \/ DirectorReturns(t)
                 \/ \E m \in Method, via \in {"self", "super", "other"} : CallMethod(t, m, via)
                 \/ \E m \in Method : Virtual(t, m)
                 \/ DirectorCalls(t)
                 \/ Catch(t) \/ Bind(t) \/ Unbind(t) \/ DisownReads(t) \/ DisownWrites(t)
          PROVE  CallInv'
        <3>1. CASE Take(t) \/ Switch(t)
            BY <3>1, TakeSwitch
        <3>2. CASE CallFunction(t) \/ FunctionReturns(t)
            BY <3>2, Functions
        <3>3. CASE PyReturn(t) \/ BaseReturns(t) \/ DirectorReturns(t)
            BY <3>3, Returns
        <3>4. CASE \/ \E m \in Method, via \in {"self", "super", "other"} : CallMethod(t, m, via)
                   \/ \E m \in Method : Virtual(t, m)
                   \/ DirectorCalls(t)
            BY <3>4, Calls
        <3>5. CASE \/ Catch(t) \/ Bind(t) \/ Unbind(t) \/ DisownReads(t) \/ DisownWrites(t)
            BY <3>5, Others
        <3> QED BY <2>2, <3>1, <3>2, <3>3, <3>4, <3>5
    <2> QED BY <2>1, <2>2 DEF DirNext
<1> QED BY <1>1, <1>2, PTL DEF DirSpec

\* pythreads.swg: any number of threads of Python and of C++, calls nested to any
\* depth: the lock is held by the one thread that runs Python code or a wrapper.
THEOREM LockStaysRight == ASSUME NoneIsNoThread PROVE DirSpec => []LockIsRight
<1>1. CallInv => LockIsRight
    BY DEF CallInv
<1> QED BY <1>1, CallInvHolds, PTL

\* python.cxx:2157: so is the order in which the methods are found.
THEOREM OverridesStay == ASSUME NoneIsNoThread PROVE DirSpec => []OverridesRun
<1>1. CallInv => OverridesRun
    BY DEF CallInv, StackOK, Above, OverridesRun
<1> QED BY <1>1, CallInvHolds, PTL

-----------------------------------------------------------------------------
(* Protected methods. *)

\* a director method of a protected method is open
InProtected(st) == \E i \in 1..Len(st) : st[i].kind = "dir" /\ st[i].m = "prot"

\* director.swg: a call keeps the frames that are open, a return takes the last one away.
LEMMA ProtectedKept ==
    ASSUME NEW st \in Stacks
    PROVE  /\ \A g \in FrameType : InProtected(st) => InProtected(Append(st, g))
           /\ InProtected(st) /\ Len(st) > 1 =>
                  InProtected(Front(st)) \/ (Last(st).kind = "dir" /\ Last(st).m = "prot")
<1>1. Len(st) \in Nat
    BY DEF Stacks
<1>2. ASSUME NEW g \in FrameType, InProtected(st)
      PROVE  InProtected(Append(st, g))
    <2>1. Len(Append(st, g)) = Len(st) + 1 /\ \A n \in 1..Len(st) : Append(st, g)[n] = st[n]
        BY DEF Stacks
    <2> QED BY <1>1, <1>2, <2>1 DEF InProtected
<1>3. ASSUME InProtected(st), Len(st) > 1, ~(Last(st).kind = "dir" /\ Last(st).m = "prot")
      PROVE  InProtected(Front(st))
    <2>0. Len(Front(st)) = Len(st) - 1
        BY <1>1, <1>3 DEF Front, Stacks
    <2>1. \A n \in 1..(Len(st) - 1) : Front(st)[n] = st[n]
        BY <1>1 DEF Front, Stacks
    <2>2. PICK i \in 1..Len(st) : st[i].kind = "dir" /\ st[i].m = "prot"
        BY <1>3 DEF InProtected
    <2>3. i # Len(st)
        BY <1>3, <2>2 DEF Last
    <2>4. i \in 1..(Len(st) - 1)
        BY <1>1, <2>2, <2>3
    <2> QED BY <1>1, <2>0, <2>1, <2>2, <2>4 DEF InProtected
<1> QED BY <1>2, <1>3

ProtectedHeld == inner => \E t \in Thread : InProtected(stack[t])

\* Only the frames of one thread change, and they stay inside if they were.
LEMMA ProtectedStep ==
    ASSUME CallInv, ProtectedHeld, NEW t \in Thread, NEW st,
           stack' = [stack EXCEPT ![t] = st],
           inner' => \/ InProtected(st)
                     \/ inner /\ (InProtected(stack[t]) => InProtected(st))
    PROVE  ProtectedHeld'
<1>1. stack'[t] = st /\ \A u \in Thread \ {t} : stack'[u] = stack[u]
    BY DEF CallInv, CallTypes
<1>2. CASE ~inner'
    BY <1>2 DEF ProtectedHeld
<1>3. CASE InProtected(st)
    BY <1>1, <1>3 DEF ProtectedHeld, InProtected
<1>4. CASE inner /\ (InProtected(stack[t]) => InProtected(st))
    <2>1. PICK u \in Thread : InProtected(stack[u])
        BY <1>4 DEF ProtectedHeld
    <2>2. InProtected(stack'[u])
        BY <1>1, <1>4, <2>1
    <2> QED BY <2>2 DEF ProtectedHeld, InProtected
<1> QED BY <1>2, <1>3, <1>4

\* python.cxx: what a call of a method does to the frames.
LEMMA LookUpFrames ==
    ASSUME NEW t \in Thread, NEW st \in Stacks, StackOK(st), st[Len(st)].kind \in {"py", "dir"},
           NEW m \in Method \cup {"none"},
           NEW via \in {"self", "super", "other", "dir"}, NEW in \in BOOLEAN,
           LookUp(t, st, m, via, in)
    PROVE  \/ stack' = [stack EXCEPT ![t] = st]
           \/ \E g \in FrameType : stack' = [stack EXCEPT ![t] = Append(st, g)]
<1>1. /\ Frame("py", m, via) \in FrameType /\ Frame("base", m, via) \in FrameType
      /\ Frame("dir", m, via) \in FrameType
    BY DEF Frame, FrameType
<1>2. \A f \in FrameType, b \in BOOLEAN : [f EXCEPT !.had = b] \in FrameType
    BY DEF FrameType
<1>3. [Frame("dir", m, via) EXCEPT !.had = gil = t] \in FrameType
    BY <1>1, <1>2
<1> QED BY <1>1, <1>3 DEF LookUp, Wrapper, Enter

\* director.swg, swig_set_inner(): a step leaves the mark only while a call is open.
LEMMA NextProtected ==
    ASSUME NoneIsNoThread, CallInv, ProtectedHeld, [DirNext]_dirVars
    PROVE  ProtectedHeld'
<1>1. CASE UNCHANGED dirVars
    BY <1>1 DEF dirVars, ProtectedHeld, InProtected
<1>2. ASSUME NEW t \in Thread,
             \/ Take(t) \/ Switch(t) \/ Catch(t)
             \/ Bind(t) \/ Unbind(t) \/ DisownReads(t) \/ DisownWrites(t)
      PROVE  ProtectedHeld'
    <2>1. UNCHANGED <<stack, inner>>
        BY <1>2 DEF Take, Switch, Catch, Bind, Unbind, DisownReads, DisownWrites
    <2> QED BY <2>1 DEF ProtectedHeld, InProtected
<1>3. ASSUME NEW t \in Thread, CallFunction(t) \/ \E m \in Method : Virtual(t, m)
      PROVE  ProtectedHeld'
    <2>1. PICK g \in FrameType : inner' = inner /\ stack' = [stack EXCEPT ![t] = Append(stack[t], g)]
        <3>1. CASE CallFunction(t)
            BY <3>1 DEF CallFunction, Push, Frame, FrameType, CallInv, CallTypes
        <3>2. ASSUME NEW m \in Method, Virtual(t, m)
              PROVE  \E g \in FrameType :
                         inner' = inner /\ stack' = [stack EXCEPT ![t] = Append(stack[t], g)]
            <4>1. \A f \in FrameType, b \in BOOLEAN : [f EXCEPT !.had = b] \in FrameType
                BY DEF FrameType
            <4>2. Frame("dir", m, "virtual") \in FrameType
                BY DEF Frame, FrameType
            <4>3. [Frame("dir", m, "virtual") EXCEPT !.had = gil = t] \in FrameType
                BY <4>1, <4>2
            <4> QED BY <3>2, <4>3 DEF Virtual, Enter
        <3> QED BY <1>3, <3>1, <3>2
    <2>2. stack[t] \in Stacks
        BY Running
    <2> QED BY <2>1, <2>2, ProtectedKept, ProtectedStep
<1>4. ASSUME NEW t \in Thread, PyReturn(t) \/ BaseReturns(t) \/ FunctionReturns(t) \/ DirectorReturns(t)
      PROVE  ProtectedHeld'
    <2>1. Len(stack[t]) > 1 /\ stack' = [stack EXCEPT ![t] = Front(stack[t])] /\ stack[t] \in Stacks
        BY <1>4, Running DEF PyReturn, BaseReturns, FunctionReturns, DirectorReturns, Pop
    <2>2. inner' => inner /\ ~(Top(t).kind = "dir" /\ Top(t).m = "prot")
        BY <1>4 DEF PyReturn, BaseReturns, FunctionReturns, DirectorReturns, Runs
    <2>3. inner' => inner /\ (InProtected(stack[t]) => InProtected(Front(stack[t])))
        BY <2>1, <2>2, ProtectedKept DEF Top
    <2> QED BY <2>1, <2>3, ProtectedStep
<1>5. ASSUME NEW t \in Thread, NEW m \in Method, NEW via \in {"self", "super", "other"},
             CallMethod(t, m, via)
      PROVE  ProtectedHeld'
    <2>1. /\ stack[t] \in Stacks /\ StackOK(stack[t]) /\ stack[t][Len(stack[t])].kind = "py"
          /\ inner' = inner /\ inner \in BOOLEAN /\ LookUp(t, stack[t], m, via, inner)
        BY <1>5, Running DEF CallMethod, Calm, Runs, CallInv, CallTypes
    <2>2. \/ stack' = [stack EXCEPT ![t] = stack[t]]
          \/ \E g \in FrameType : stack' = [stack EXCEPT ![t] = Append(stack[t], g)]
        BY <2>1, LookUpFrames
    <2> QED BY <2>1, <2>2, ProtectedKept, ProtectedStep
<1>6. ASSUME NEW t \in Thread, DirectorCalls(t)
      PROVE  ProtectedHeld'
    <2> DEFINE n == Len(stack[t])
               st == [stack[t] EXCEPT ![n].called = TRUE]
    <2>1. /\ Top(t).kind = "dir" /\ inner' = (inner \/ Top(t).m = "prot")
          /\ LookUp(t, st, Top(t).m, "dir", inner')
        BY <1>6 DEF DirectorCalls, Calm, Runs
    <2>2. /\ stack[t] \in Seq(FrameType) /\ n \in 1..n /\ n \in Nat /\ Top(t) = stack[t][n]
          /\ Top(t) \in FrameType /\ StackOK(stack[t])
        BY Running DEF StackOK, Stacks
    <2>3. [stack[t][n] EXCEPT !.called = TRUE] \in FrameType
        BY <2>2 DEF FrameType
    <2>4. st \in Seq(FrameType) /\ Len(st) = n
        BY <2>2, <2>3
    <2>5. \A k \in 1..n : st[k].kind = stack[t][k].kind /\ st[k].via = stack[t][k].via
                          /\ st[k].had = stack[t][k].had /\ st[k].m = stack[t][k].m
        BY <2>2
    <2>6. StackOK(st)
        <3>1. \A k \in 2..n : k \in 1..n /\ k - 1 \in 1..n
            BY <2>2
        <3> QED BY <2>2, <2>4, <2>5, <3>1 DEF StackOK, Above
    <2>7. (InProtected(stack[t]) => InProtected(st)) /\ (Top(t).m = "prot" => InProtected(st))
        BY <2>1, <2>2, <2>4, <2>5 DEF InProtected
    <2>8. st[Len(st)].kind = "dir" /\ Top(t).m \in Method \cup {"none"} /\ inner' \in BOOLEAN
        BY <2>1, <2>2, <2>4, <2>5 DEF FrameType, CallInv, CallTypes
    <2> HIDE DEF st
    <2>9. \/ stack' = [stack EXCEPT ![t] = st]
          \/ \E g \in FrameType : stack' = [stack EXCEPT ![t] = Append(st, g)]
        BY <2>1, <2>4, <2>6, <2>8, LookUpFrames DEF Stacks
    <2>10. \A g \in FrameType : InProtected(st) => InProtected(Append(st, g))
        BY <2>4, ProtectedKept DEF Stacks
    <2> QED BY <2>1, <2>7, <2>9, <2>10, ProtectedStep
<1> QED BY <1>1, <1>2, <1>3, <1>4, <1>5, <1>6 DEF DirNext

\* director.swg, swig_set_inner(): for any number of threads and any nesting, errors on
\* every way included, the mark that lets a wrapper call a protected method is only set
\* while the director stands in a call of that method.
THEOREM ProtectedStays == ASSUME NoneIsNoThread PROVE DirSpec => []ProtectedOutside
<1>1. DirInit => ProtectedHeld
    BY DEF DirInit, ProtectedHeld
<1>2. CallInv /\ ProtectedHeld /\ [DirNext]_dirVars => ProtectedHeld'
    BY NextProtected
<1>3. CallInv /\ ProtectedHeld => ProtectedOutside
    BY DEF ProtectedHeld, InProtected, ProtectedOutside, CallInv, CallTypes, Stacks
<1> QED BY <1>1, <1>2, <1>3, CallInvHolds, PTL DEF DirSpec

-----------------------------------------------------------------------------
(* Python objects. *)

\* Two wrapped bases at most (with three one is lost), and no call fails behind an
\* argument that it took over; NULL is no address.
TwoBases ==
    /\ MaxBases = 2 /\ ArgsFail = FALSE
    /\ NULL \notin PyObj /\ NULL \notin Inst /\ NULL \notin This
    /\ NULL \notin [ptr : PyObj, own : BOOLEAN, next : This \cup {NULL}, rc : {1}]
    /\ NULL \notin [this : This, rc : Nat \ {0}, bases : SUBSET PyObj]

Task == {DecrefInst(i) : i \in Inst} \cup {DecrefThis(s) : s \in This}
        \cup {PyObject_DEL(s) : s \in This} \cup {Delete(o) : o \in PyObj}

PyTypes ==
    /\ life \in [PyObj -> {"unborn", "alive", "dead"}]
    /\ pyCpp \subseteq PyObj /\ pyDisowned \subseteq PyObj /\ pyHeld \subseteq Inst
    /\ kept \in [PyObj -> SUBSET PyObj] /\ self \in [PyObj -> Inst \cup {NULL}]
    /\ this \in [This -> {NULL} \cup [ptr : PyObj, own : BOOLEAN, next : This \cup {NULL},
                                      rc : {1}]]
    /\ inst \in [Inst -> {NULL} \cup [this : This, rc : Nat \ {0}, bases : SUBSET PyObj]]
    /\ pyTodo \in Seq(Task)

\* No task is there twice, and a Py_DECREF of an instance ends what is to be done.
Tasks ==
    /\ \A j, k \in 1..Len(pyTodo) : pyTodo[j] = pyTodo[k] => j = k
    /\ \A i \in Inst : Pending(DecrefInst(i)) => Len(pyTodo) = 1
    /\ \A o \in pyDisowned : Pending(Delete(o)) => Len(pyTodo) = 1

\* What refers to a SwigPyObject: an instance, the link of another one, or a call.
InstRef(i, s) == inst[i] # NULL /\ inst[i].this = s
LinkRef(r, s) == this[r] # NULL /\ this[r].next = s /\ ~Pending(PyObject_DEL(r))
CallRef(s)    == Pending(DecrefThis(s)) \/ Pending(PyObject_DEL(s))

ReferredOnce(s) ==
    /\ \A i, j \in Inst : InstRef(i, s) /\ InstRef(j, s) => i = j
    /\ \A r, q \in This : LinkRef(r, s) /\ LinkRef(q, s) => r = q
    /\ \A i \in Inst : InstRef(i, s) => ~CallRef(s) /\ \A r \in This : ~LinkRef(r, s)
    /\ \A r \in This : LinkRef(r, s) => ~CallRef(s)
    /\ ~(Pending(DecrefThis(s)) /\ Pending(PyObject_DEL(s)))
    /\ this[s] # NULL <=> \/ \E i \in Inst : InstRef(i, s)
                          \/ \E r \in This : LinkRef(r, s)
                          \/ CallRef(s)

OneReferrer == \A s \in This : ReferredOnce(s)

Chains ==
    \A i \in Inst : inst[i] # NULL =>
        LET s == inst[i].this
            n == this[s].next
        IN \/ n = NULL /\ inst[i].bases = {this[s].ptr}
           \/ /\ n \in This /\ inst[i].bases = {this[s].ptr, this[n].ptr}
              /\ this[n].next = NULL /\ this[n].ptr # this[s].ptr

\* Who has to destroy an object: a SwigPyObject, a director, C++, or a call that does.
Owns(s, o)  == this[s] # NULL /\ this[s].own /\ this[s].ptr = o
Keeps(d, o) == life[d] = "alive" /\ o \in kept[d]
Left(o)     == \E d \in PyObj : life[d] # "alive" /\ o \in kept[d]

OwnedOnce(o) ==
    /\ \A r, s \in This : Owns(r, o) /\ Owns(s, o) => r = s
    /\ \A d, e \in PyObj : Keeps(d, o) /\ Keeps(e, o) => d = e
    /\ \A s \in This : Owns(s, o) => /\ \A d \in PyObj : ~Keeps(d, o)
                                     /\ o \notin pyCpp /\ ~Pending(Delete(o))
    /\ \A d \in PyObj : Keeps(d, o) => o \notin pyCpp /\ ~Pending(Delete(o))
    /\ ~(o \in pyCpp /\ Pending(Delete(o)))
    /\ life[o] = "alive" /\ ~Left(o) <=> \/ \E s \in This : Owns(s, o)
                                         \/ \E d \in PyObj : Keeps(d, o)
                                         \/ o \in pyCpp \/ Pending(Delete(o))

OnePossessor ==
    /\ \A o \in PyObj : OwnedOnce(o)
    /\ \A s \in This : this[s] # NULL /\ this[s].own => ~Pending(PyObject_DEL(s))

\* Objects that were not constructed yet are not known anywhere.
Born ==
    /\ \A s \in This : this[s] # NULL => life[this[s].ptr] # "unborn"
    /\ \A d, o \in PyObj : o \in kept[d] => life[o] # "unborn" /\ life[d] # "unborn"
    /\ \A o \in PyObj : life[o] = "unborn" => self[o] = NULL

\* References to an instance.
Counted ==
    \A i \in Inst :
        (IF inst[i] = NULL THEN 0 ELSE inst[i].rc)
        = Count(i \in pyHeld) + Count(\E o \in pyDisowned : self[o] = i)
          + Count(Pending(DecrefInst(i)))

Proxies(o) == self[o] \in Inst /\ inst[self[o]] # NULL /\ this[inst[self[o]].this].ptr = o

\* A director that was disowned has its proxy, and so has one that was not until the
\* proxy goes and deletes it.
Directed ==
    /\ \A o \in pyDisowned : /\ life[o] = "alive" /\ Proxies(o)
                             /\ o \in pyCpp \/ Pending(Delete(o))
    /\ \A o \in PyObj : life[o] = "alive" /\ self[o] # NULL =>
          \/ Pending(Delete(o))
          \/ \E s \in This : /\ Pending(DecrefThis(s))
                             /\ this[s] # NULL /\ this[s].own /\ this[s].ptr = o
          \/ Proxies(o) /\ (this[inst[self[o]].this].own \/ o \in pyDisowned)

PyInv == PyTypes /\ Tasks /\ OneReferrer /\ Chains /\ OnePossessor /\ Born /\ Counted /\ Directed

-----------------------------------------------------------------------------
\* What is in memory.
LEMMA Structures ==
    ASSUME TwoBases, PyTypes
    PROVE  /\ \A s \in This : this[s] # NULL =>
                  /\ this[s].ptr \in PyObj /\ this[s].own \in BOOLEAN
                  /\ this[s].next \in This \cup {NULL} /\ this[s].rc = 1
                  /\ this[s] = [ptr |-> this[s].ptr, own |-> this[s].own,
                                next |-> this[s].next, rc |-> this[s].rc]
           /\ \A i \in Inst : inst[i] # NULL =>
                  /\ inst[i].this \in This /\ inst[i].rc \in Nat \ {0}
                  /\ inst[i].bases \subseteq PyObj
           /\ \A o \in PyObj, b \in BOOLEAN : SwigPyObject_New(o, b) # NULL
           /\ \A s \in This, o \in PyObj : [this |-> s, rc |-> 1, bases |-> {o}] # NULL
           /\ DOMAIN this = This /\ DOMAIN inst = Inst
BY DEF TwoBases, PyTypes, SwigPyObject_New

\* One task is done, others come instead.
LEMMA TaskDone ==
    ASSUME PyTypes, Tasks, NEW task, First(task), NEW tasks \in Seq(Task), Instead(tasks),
           \A j, k \in 1..Len(tasks) : tasks[j] = tasks[k] => j = k,
           \A k \in 1..Len(tasks) : ~Pending(tasks[k])
    PROVE  /\ pyTodo' \in Seq(Task) /\ Len(pyTodo') = Len(tasks) + Len(pyTodo) - 1
           /\ \A j, k \in 1..Len(pyTodo') : pyTodo'[j] = pyTodo'[k] => j = k
           /\ \A x : Pending(x)' <=> x \in ToSet(tasks) \/ (Pending(x) /\ x # task)
           /\ Pending(task) /\ Len(pyTodo) \in Nat \ {0}
<1> DEFINE m == Len(tasks)
           l == Len(pyTodo)
<1>1. /\ l \in Nat \ {0} /\ m \in Nat /\ pyTodo[1] = task
      /\ DOMAIN tasks = 1..m /\ DOMAIN pyTodo = 1..l
    BY DEF PyTypes, First
<1>2. /\ Tail(pyTodo) \in Seq(Task) /\ Len(Tail(pyTodo)) = l - 1
      /\ \A k \in 1..(l - 1) : Tail(pyTodo)[k] = pyTodo[k + 1]
    BY <1>1 DEF PyTypes, First
<1>3. /\ pyTodo' \in Seq(Task) /\ Len(pyTodo') = m + l - 1
      /\ \A k \in 1..m : pyTodo'[k] = tasks[k]
      /\ \A k \in (m + 1)..(m + l - 1) : pyTodo'[k] = pyTodo[k - m + 1]
    BY <1>1, <1>2 DEF Instead
<1>4. DOMAIN pyTodo' = 1..(m + l - 1)
    BY <1>1, <1>3
<1>5. \A x : x \in ToSet(tasks) <=> \E k \in 1..m : tasks[k] = x
    BY <1>1 DEF ToSet
<1>6. \A x : Pending(x) <=> \E k \in 1..l : pyTodo[k] = x
    BY <1>1 DEF Pending, ToSet
<1>7. \A x : Pending(x)' <=> \E k \in 1..(m + l - 1) : pyTodo'[k] = x
    BY <1>4 DEF Pending, ToSet
<1>8. \A j, k \in 1..l : pyTodo[j] = pyTodo[k] => j = k
    BY DEF Tasks
<1> HIDE DEF m, l
<1>9. ASSUME NEW x PROVE Pending(x)' <=> x \in ToSet(tasks) \/ (Pending(x) /\ x # task)
    <2>1. ASSUME Pending(x)' PROVE x \in ToSet(tasks) \/ (Pending(x) /\ x # task)
        <3>1. PICK k \in 1..(m + l - 1) : pyTodo'[k] = x
            BY <2>1, <1>7
        <3>2. CASE k \in 1..m
            BY <3>1, <3>2, <1>3, <1>5
        <3>3. CASE k \in (m + 1)..(m + l - 1)
            <4>1. k - m + 1 \in 1..l /\ k - m + 1 # 1 /\ pyTodo[k - m + 1] = x
                BY <3>1, <3>3, <1>1, <1>3
            <4> QED BY <4>1, <1>1, <1>6, <1>8
        <3> QED BY <3>1, <3>2, <3>3, <1>1
    <2>2. ASSUME x \in ToSet(tasks) PROVE Pending(x)'
        BY <2>2, <1>1, <1>3, <1>5, <1>7
    <2>3. ASSUME Pending(x), x # task PROVE Pending(x)'
        <3>1. PICK k \in 1..l : pyTodo[k] = x
            BY <2>3, <1>6
        <3>2. k # 1 /\ k + m - 1 \in (m + 1)..(m + l - 1) /\ (k + m - 1) - m + 1 = k
            BY <3>1, <2>3, <1>1
        <3>3. pyTodo'[k + m - 1] = x
            BY <3>1, <3>2, <1>3
        <3>4. k + m - 1 \in 1..(m + l - 1)
            BY <3>2, <1>1
        <3> QED BY <3>3, <3>4, <1>7
    <2> QED BY <2>1, <2>2, <2>3
<1>10. ASSUME NEW j \in 1..(m + l - 1), NEW k \in 1..(m + l - 1), pyTodo'[j] = pyTodo'[k]
       PROVE  j = k
    <2>1. CASE j \in 1..m /\ k \in 1..m
        BY <1>10, <2>1, <1>3 DEF m
    <2>2. CASE j \in (m + 1)..(m + l - 1) /\ k \in (m + 1)..(m + l - 1)
        <3>1. /\ j - m + 1 \in 1..l /\ k - m + 1 \in 1..l
              /\ pyTodo[j - m + 1] = pyTodo[k - m + 1]
            BY <1>10, <2>2, <1>1, <1>3
        <3>2. j - m + 1 = k - m + 1
            BY <3>1, <1>8
        <3> QED BY <3>2, <1>1
    <2>3. \A a \in 1..m, b \in (m + 1)..(m + l - 1) : pyTodo'[a] # pyTodo'[b]
        <3> SUFFICES ASSUME NEW a \in 1..m, NEW b \in (m + 1)..(m + l - 1),
                            pyTodo'[a] = pyTodo'[b]
                     PROVE  FALSE
            OBVIOUS
        <3>1. b - m + 1 \in 1..l /\ pyTodo[b - m + 1] = tasks[a]
            BY <1>1, <1>3
        <3>2. ~Pending(tasks[a])
            BY DEF m
        <3> QED BY <3>1, <3>2, <1>6
    <2>4. /\ j \in 1..m \/ j \in (m + 1)..(m + l - 1)
          /\ k \in 1..m \/ k \in (m + 1)..(m + l - 1)
        BY <1>1
    <2> QED BY <1>10, <2>1, <2>2, <2>3, <2>4
<1>11. Pending(task)
    BY <1>1, <1>6
<1> QED BY <1>1, <1>3, <1>9, <1>10, <1>11 DEF m, l

\* Tasks differ.
LEMMA TaskNames ==
    /\ \A i, j : /\ DecrefInst(i) = DecrefInst(j) <=> i = j
                 /\ DecrefThis(i) = DecrefThis(j) <=> i = j
                 /\ PyObject_DEL(i) = PyObject_DEL(j) <=> i = j
                 /\ Delete(i) = Delete(j) <=> i = j
    /\ \A i, j : /\ DecrefInst(i) # DecrefThis(j) /\ DecrefInst(i) # PyObject_DEL(j)
                 /\ DecrefInst(i) # Delete(j) /\ DecrefThis(i) # PyObject_DEL(j)
                 /\ DecrefThis(i) # Delete(j) /\ PyObject_DEL(i) # Delete(j)
    /\ \A i \in Inst : DecrefInst(i) \in Task
    /\ \A s \in This : DecrefThis(s) \in Task /\ PyObject_DEL(s) \in Task
    /\ \A o \in PyObj : Delete(o) \in Task
BY DEF Task, DecrefInst, DecrefThis, PyObject_DEL, Delete

\* Nothing is pending between two calls.
LEMMA NothingPending == ASSUME Idle PROVE \A x : ~Pending(x)
BY DEF Idle, Pending, ToSet

\* A call that runs begins with one task.
LEMMA OneTask ==
    ASSUME NEW task \in Task, pyTodo' = <<task>>
    PROVE  pyTodo' \in Seq(Task) /\ Len(pyTodo') = 1 /\ \A x : Pending(x)' <=> x = task
<1>1. pyTodo' \in Seq(Task) /\ Len(pyTodo') = 1 /\ pyTodo'[1] = task /\ DOMAIN pyTodo' = 1..1
    OBVIOUS
<1> QED BY <1>1 DEF Pending, ToSet

\* Between two calls every director that lives has its proxy.
LEMMA HasProxy ==
    ASSUME PyInv, Idle
    PROVE  \A o \in PyObj : life[o] = "alive" /\ self[o] # NULL =>
               Proxies(o) /\ (this[inst[self[o]].this].own \/ o \in pyDisowned)
BY NothingPending DEF PyInv, Directed

LEMMA PyStarts == ASSUME TwoBases PROVE PyInit => PyInv
<1> SUFFICES ASSUME PyInit PROVE PyInv
    OBVIOUS
<1>1. PyTypes /\ Tasks /\ \A x : ~Pending(x)
    BY NothingPending DEF PyInit, PyTypes, Tasks, Idle
<1>4. OneReferrer /\ Chains
    BY <1>1 DEF PyInit, OneReferrer, ReferredOnce, InstRef, LinkRef, CallRef, Chains
<1>5. OnePossessor /\ Born
    BY <1>1 DEF PyInit, OnePossessor, OwnedOnce, Owns, Keeps, Born
<1>6. Counted
    BY <1>1 DEF PyInit, Counted, Count
<1>7. Directed
    BY DEF PyInit, Directed
<1> QED BY <1>1, <1>4, <1>5, <1>6, <1>7 DEF PyInv

\* The structures of an instance: it alone refers to the first, the first to the second.
LEMMA InChain ==
    ASSUME TwoBases, PyInv, NEW i \in Inst, inst[i] # NULL
    PROVE  LET s == inst[i].this
               n == this[s].next
           IN /\ s \in This /\ this[s] # NULL
              /\ ~Pending(PyObject_DEL(s)) /\ ~Pending(DecrefThis(s))
              /\ \A j \in Inst : inst[j] # NULL /\ inst[j].this = s => j = i
              /\ \A r \in This : this[r] # NULL /\ this[r].next = s => Pending(PyObject_DEL(r))
              /\ n \in This \cup {NULL}
              /\ n \in This =>
                    /\ this[n] # NULL /\ n # s
                    /\ ~Pending(PyObject_DEL(n)) /\ ~Pending(DecrefThis(n))
                    /\ \A j \in Inst : inst[j] # NULL => inst[j].this # n
                    /\ \A r \in This : this[r] # NULL /\ this[r].next = n /\ r # s
                                      => Pending(PyObject_DEL(r))
<1> DEFINE s == inst[i].this
           n == this[s].next
<1>1. s \in This
    BY Structures DEF PyInv
<1>2. ReferredOnce(s) /\ InstRef(i, s)
    BY <1>1 DEF PyInv, OneReferrer, InstRef
<1>3. this[s] # NULL
    BY <1>2 DEF ReferredOnce
<1>6. /\ ~Pending(PyObject_DEL(s)) /\ ~Pending(DecrefThis(s))
      /\ \A r \in This : this[r] # NULL /\ this[r].next = s => Pending(PyObject_DEL(r))
      /\ \A j \in Inst : inst[j] # NULL /\ inst[j].this = s => j = i
    BY <1>2 DEF ReferredOnce, InstRef, LinkRef, CallRef
<1>8. n \in This \cup {NULL}
    BY <1>1, <1>3, Structures DEF PyInv
<1>9. ASSUME n \in This
      PROVE  /\ this[n] # NULL /\ n # s
             /\ ~Pending(PyObject_DEL(n)) /\ ~Pending(DecrefThis(n))
             /\ \A j \in Inst : inst[j] # NULL => inst[j].this # n
             /\ \A r \in This : this[r] # NULL /\ this[r].next = n /\ r # s
                               => Pending(PyObject_DEL(r))
    <2>1. LinkRef(s, n) /\ ReferredOnce(n)
        BY <1>1, <1>3, <1>6, <1>9 DEF LinkRef, PyInv, OneReferrer
    <2>2. this[n] # NULL /\ ~CallRef(n) /\ \A j \in Inst : ~InstRef(j, n)
        BY <1>1, <2>1 DEF ReferredOnce
    <2>3. n # s
        BY <1>2, <2>2
    <2>4. \A r \in This : LinkRef(r, n) => r = s
        BY <1>1, <2>1 DEF ReferredOnce
    <2> QED BY <2>2, <2>3, <2>4 DEF CallRef, InstRef, LinkRef
<1> QED BY <1>1, <1>3, <1>6, <1>8, <1>9

\* What a step does that makes and frees nothing.
Same ==
    /\ \A s \in This : /\ this'[s] = NULL <=> this[s] = NULL
                       /\ this[s] # NULL => /\ this'[s].next = this[s].next
                                            /\ this'[s].ptr = this[s].ptr
    /\ \A i \in Inst : /\ inst'[i] = NULL <=> inst[i] = NULL
                       /\ inst[i] # NULL => /\ inst'[i].this = inst[i].this
                                            /\ inst'[i].bases = inst[i].bases
    /\ \A s \in This : /\ Pending(DecrefThis(s))' <=> Pending(DecrefThis(s))
                       /\ Pending(PyObject_DEL(s))' <=> Pending(PyObject_DEL(s))

LEMMA SameStructures ==
    ASSUME TwoBases, PyInv, Same
    PROVE  OneReferrer' /\ Chains'
<1>1. \A s \in This : /\ \A i \in Inst : InstRef(i, s)' <=> InstRef(i, s)
                      /\ \A r \in This : LinkRef(r, s)' <=> LinkRef(r, s)
                      /\ CallRef(s)' <=> CallRef(s)
    BY DEF InstRef, LinkRef, CallRef, Same
<1>2. OneReferrer'
    BY <1>1 DEF PyInv, OneReferrer, ReferredOnce, Same
<1>3. \A i \in Inst : inst[i] # NULL =>
          /\ inst[i].this \in This /\ this[inst[i].this] # NULL
          /\ this[inst[i].this].next \in This => this[this[inst[i].this].next] # NULL
    BY InChain
<1>5. Chains'
    <2> SUFFICES ASSUME NEW i \in Inst, inst'[i] # NULL
                 PROVE  LET s == inst'[i].this
                            n == this'[s].next
                        IN \/ n = NULL /\ inst'[i].bases = {this'[s].ptr}
                           \/ /\ n \in This /\ inst'[i].bases = {this'[s].ptr, this'[n].ptr}
                              /\ this'[n].next = NULL /\ this'[n].ptr # this'[s].ptr
        BY DEF Chains
    <2>1. inst[i] # NULL /\ inst'[i].this = inst[i].this /\ inst'[i].bases = inst[i].bases
        BY DEF Same
    <2> QED BY <2>1, <1>3 DEF PyInv, Chains, Same
<1> QED BY <1>2, <1>5

\* No step of a call makes or frees a task, and none leaves one: then Tasks is as it was.
LEMMA StillIdle ==
    ASSUME PyTypes, Idle, pyTodo' = pyTodo
    PROVE  pyTodo' \in Seq(Task) /\ Tasks' /\ \A x : ~Pending(x) /\ ~Pending(x)'
<1>1. \A x : ~Pending(x) /\ ~Pending(x)'
    BY DEF Idle, Pending, ToSet
<1>2. pyTodo' = <<>> /\ pyTodo' \in Seq(Task)
    BY DEF PyTypes, Idle
<1>3. Len(pyTodo') = 0
    BY <1>2
<1> QED BY <1>1, <1>2, <1>3 DEF Tasks

\* The proxies stay.
LEMMA SameProxies ==
    ASSUME TwoBases, PyInv, Same, self' = self
    PROVE  \A o \in PyObj : Proxies(o) => Proxies(o)' /\ inst'[self[o]].this = inst[self[o]].this
<1> SUFFICES ASSUME NEW o \in PyObj, Proxies(o)
             PROVE  Proxies(o)' /\ inst'[self[o]].this = inst[self[o]].this
    OBVIOUS
<1>1. inst[self[o]].this \in This /\ this[inst[self[o]].this] # NULL
    BY InChain DEF Proxies
<1> QED BY <1>1 DEF Proxies, Same

\* pyrun.swg: the flag of one structure changes.
LEMMA OwnSet ==
    ASSUME TwoBases, PyTypes, NEW s \in This, this[s] # NULL, NEW b \in BOOLEAN,
           this' = [this EXCEPT ![s].own = b]
    PROVE  /\ this' \in [This -> {NULL} \cup [ptr : PyObj, own : BOOLEAN,
                                             next : This \cup {NULL}, rc : {1}]]
           /\ \A r \in This : /\ this'[r] = NULL <=> this[r] = NULL
                              /\ this[r] # NULL => /\ this'[r].next = this[r].next
                                                   /\ this'[r].ptr = this[r].ptr
                              /\ r # s => this'[r] = this[r]
           /\ this'[s].own = b
<1> DEFINE R == [ptr : PyObj, own : BOOLEAN, next : This \cup {NULL}, rc : {1}]
<1>1. this \in [This -> {NULL} \cup R] /\ this[s] \in R /\ NULL \notin R
    BY DEF PyTypes, TwoBases
<1>2. [this[s] EXCEPT !.own = b] \in R
    BY <1>1
<1>3. /\ this'[s] = [this[s] EXCEPT !.own = b] /\ \A r \in This \ {s} : this'[r] = this[r]
      /\ DOMAIN this' = This
    BY <1>1
<1>4. /\ this'[s].own = b /\ this'[s].next = this[s].next /\ this'[s].ptr = this[s].ptr
    BY <1>1, <1>3
<1>5. this' \in [This -> {NULL} \cup R]
    BY <1>1, <1>2, <1>3
<1>6. \A r \in This : /\ this'[r] = NULL <=> this[r] = NULL
                      /\ this[r] # NULL => /\ this'[r].next = this[r].next
                                           /\ this'[r].ptr = this[r].ptr
                      /\ r # s => this'[r] = this[r]
    BY <1>1, <1>2, <1>3, <1>4
<1> QED BY <1>4, <1>5, <1>6

\* One more reference to an instance, or one less.
LEMMA CountSet ==
    ASSUME TwoBases, PyTypes, NEW i \in Inst, inst[i] # NULL, NEW n, inst[i].rc + n \in Nat \ {0},
           inst' = [inst EXCEPT ![i].rc = @ + n]
    PROVE  /\ inst' \in [Inst -> {NULL} \cup [this : This, rc : Nat \ {0}, bases : SUBSET PyObj]]
           /\ \A j \in Inst : /\ inst'[j] = NULL <=> inst[j] = NULL
                              /\ inst[j] # NULL => /\ inst'[j].this = inst[j].this
                                                   /\ inst'[j].bases = inst[j].bases
                              /\ j # i => inst'[j] = inst[j]
           /\ inst'[i].rc = inst[i].rc + n
<1> DEFINE R == [this : This, rc : Nat \ {0}, bases : SUBSET PyObj]
<1>1. inst \in [Inst -> {NULL} \cup R] /\ inst[i] \in R /\ NULL \notin R
    BY DEF PyTypes, TwoBases
<1>2. [inst[i] EXCEPT !.rc = @ + n] \in R
    BY <1>1
<1>3. /\ inst'[i] = [inst[i] EXCEPT !.rc = @ + n]
      /\ \A j \in Inst \ {i} : inst'[j] = inst[j]
      /\ DOMAIN inst' = Inst
    BY <1>1
<1>4. /\ inst'[i].rc = inst[i].rc + n /\ inst'[i].this = inst[i].this
      /\ inst'[i].bases = inst[i].bases
    BY <1>1, <1>3
<1> QED BY <1>1, <1>2, <1>3, <1>4

\* pyrun.swg, SWIG_POINTER_DISOWN: a call takes an object over.
LEMMA PassKeeps ==
    ASSUME TwoBases, PyInv, NEW i \in Inst, NEW s \in This, Pass(i, s, TRUE)
    PROVE  PyInv'
<1> DEFINE o == this[s].ptr
<1>0. /\ PyTypes /\ Idle /\ inst[i] # NULL /\ pyTodo' = pyTodo
    BY DEF PyInv, Pass, Counted, Count
<1>1. \A x : ~Pending(x) /\ ~Pending(x)'
    BY <1>0, StillIdle
<1>2. this[s] # NULL /\ this[s].own /\ o \in PyObj /\ self[o] = NULL
    BY <1>0, InChain, Structures DEF Pass, Chain
<1>3. this' = [this EXCEPT ![s].own = FALSE] /\ pyCpp' = pyCpp \cup {o}
    BY DEF Pass
<1>4. /\ this' \in [This -> {NULL} \cup [ptr : PyObj, own : BOOLEAN, next : This \cup {NULL},
                                         rc : {1}]]
      /\ \A r \in This : /\ this'[r] = NULL <=> this[r] = NULL
                         /\ this[r] # NULL => /\ this'[r].next = this[r].next
                                              /\ this'[r].ptr = this[r].ptr
                         /\ r # s => this'[r] = this[r]
      /\ this'[s].own = FALSE
    BY <1>0, <1>2, <1>3, OwnSet
<1> HIDE DEF o
<1>5. PyTypes' /\ Tasks'
    BY <1>0, <1>2, <1>3, <1>4, StillIdle DEF PyTypes, Pass
<1>6. Same /\ OneReferrer' /\ Chains'
    <2>1. Same
        BY <1>0, <1>1, <1>4 DEF Same, Pass
    <2> QED BY <2>1, SameStructures
<1>7. OnePossessor'
    <2>1. OwnedOnce(o) /\ Owns(s, o)
        BY <1>2 DEF PyInv, OnePossessor, Owns, o
    <2>2. UNCHANGED <<life, kept>> /\ \A u \in PyObj : Left(u)' <=> Left(u)
        BY DEF Pass, Left
    <2>3. ASSUME NEW u \in PyObj PROVE OwnedOnce(u)'
        <3>1. OwnedOnce(u) /\ \A d \in PyObj : Keeps(d, u)' <=> Keeps(d, u)
            BY <2>2 DEF PyInv, OnePossessor, Keeps
        <3>2. CASE u = o
            <4>1. \A r \in This : ~Owns(r, u)'
                BY <1>4, <2>1, <3>2 DEF OwnedOnce, Owns
            <4> QED BY <1>1, <1>3, <2>1, <2>2, <3>1, <3>2, <4>1 DEF OwnedOnce
        <3>3. CASE u # o
            <4>1. \A r \in This : Owns(r, u)' <=> Owns(r, u)
                BY <1>2, <1>4, <3>3 DEF Owns, o
            <4> QED BY <1>1, <1>3, <2>2, <3>1, <3>3, <4>1 DEF OwnedOnce
        <3> QED BY <3>2, <3>3
    <2> QED BY <1>1, <2>3 DEF OnePossessor
<1>8. Born'
    BY <1>4 DEF PyInv, Born, Pass
<1>9. Counted'
    BY <1>0, <1>1 DEF PyInv, Counted, Count, Pass
<1>10. Directed'
    <2>1. \A u \in PyObj : self[u] # NULL => u # o
        BY <1>2
    <2>2. \A u \in PyObj : Proxies(u) /\ u # o =>
              /\ Proxies(u)'
              /\ this'[inst[self[u]].this].own = this[inst[self[u]].this].own
        <3> SUFFICES ASSUME NEW u \in PyObj, Proxies(u), u # o
                     PROVE  /\ Proxies(u)'
                            /\ this'[inst[self[u]].this].own = this[inst[self[u]].this].own
            OBVIOUS
        <3>1. inst[self[u]].this \in This /\ inst[self[u]].this # s
            BY InChain DEF Proxies, o
        <3>2. self' = self
            BY DEF Pass
        <3> QED BY <1>4, <1>6, <3>1, <3>2, SameProxies
    <2>3. \A u \in pyDisowned : u # o
        BY <1>0, <1>2 DEF PyInv, Directed, Proxies, TwoBases
    <2>4. \A u \in PyObj : life[u] = "alive" /\ self[u] # NULL =>
               Proxies(u) /\ (this[inst[self[u]].this].own \/ u \in pyDisowned)
        BY <1>0, HasProxy
    <2>5. UNCHANGED <<life, self, inst, pyDisowned>> /\ pyCpp \subseteq pyCpp'
        BY <1>3 DEF Pass
    <2>6. \A u \in pyDisowned : life[u] = "alive" /\ Proxies(u) /\ u \in pyCpp /\ u \in PyObj
        BY <1>0, <1>1 DEF PyInv, Directed, PyTypes
    <2> QED BY <2>1, <2>2, <2>3, <2>4, <2>5, <2>6 DEF Directed
<1> QED BY <1>5, <1>6, <1>7, <1>8, <1>9, <1>10 DEF PyInv

\* pyrun.swg, SwigPyObject_acquire(): Python takes an object back.
LEMMA AcquireKeeps ==
    ASSUME TwoBases, PyInv, NEW i \in Inst, Acquire(i)
    PROVE  PyInv'
<1> DEFINE s == inst[i].this
           o == this[s].ptr
<1>0. /\ PyTypes /\ Idle /\ inst[i] # NULL /\ pyTodo' = pyTodo
    BY DEF PyInv, Acquire, Counted, Count
<1>1. \A x : ~Pending(x) /\ ~Pending(x)'
    BY <1>0, StillIdle
<1>2. s \in This /\ this[s] # NULL /\ o \in PyObj /\ o \in pyCpp \ pyDisowned
    BY <1>0, InChain, Structures DEF Acquire
<1>3. this' = [this EXCEPT ![s].own = TRUE] /\ pyCpp' = pyCpp \ {o}
    BY DEF Acquire
<1>4. /\ this' \in [This -> {NULL} \cup [ptr : PyObj, own : BOOLEAN, next : This \cup {NULL},
                                         rc : {1}]]
      /\ \A r \in This : /\ this'[r] = NULL <=> this[r] = NULL
                         /\ this[r] # NULL => /\ this'[r].next = this[r].next
                                              /\ this'[r].ptr = this[r].ptr
                         /\ r # s => this'[r] = this[r]
      /\ this'[s].own = TRUE
    BY <1>0, <1>2, <1>3, OwnSet
<1> HIDE DEF s, o
<1>5. PyTypes' /\ Tasks'
    BY <1>0, <1>2, <1>3, <1>4, StillIdle DEF PyTypes, Acquire
<1>6. Same /\ OneReferrer' /\ Chains'
    <2>1. Same
        BY <1>0, <1>1, <1>4 DEF Same, Acquire
    <2> QED BY <2>1, SameStructures
<1>7. OnePossessor'
    <2>1. OwnedOnce(o)
        BY <1>2 DEF PyInv, OnePossessor
    <2>2. UNCHANGED <<life, kept>> /\ \A u \in PyObj : Left(u)' <=> Left(u)
        BY DEF Acquire, Left
    <2>3. ASSUME NEW u \in PyObj PROVE OwnedOnce(u)'
        <3>1. OwnedOnce(u) /\ \A d \in PyObj : Keeps(d, u)' <=> Keeps(d, u)
            BY <2>2 DEF PyInv, OnePossessor, Keeps
        <3>2. CASE u = o
            <4>1. \A r \in This : Owns(r, u)' <=> r = s
                BY <1>2, <1>4, <2>1, <3>2 DEF OwnedOnce, Owns, o
            <4> QED BY <1>1, <1>2, <1>3, <2>1, <2>2, <3>1, <3>2, <4>1 DEF OwnedOnce
        <3>3. CASE u # o
            <4>1. \A r \in This : Owns(r, u)' <=> Owns(r, u)
                BY <1>2, <1>4, <3>3 DEF Owns, o
            <4> QED BY <1>1, <1>3, <2>2, <3>1, <3>3, <4>1 DEF OwnedOnce
        <3> QED BY <3>2, <3>3
    <2> QED BY <1>1, <2>3 DEF OnePossessor
<1>8. Born'
    BY <1>4 DEF PyInv, Born, Acquire
<1>9. Counted'
    BY <1>0, <1>1 DEF PyInv, Counted, Count, Acquire
<1>10. Directed'
    <2>1. \A u \in PyObj : life[u] = "alive" /\ self[u] # NULL =>
               Proxies(u) /\ (this[inst[self[u]].this].own \/ u \in pyDisowned)
        BY <1>0, HasProxy
    <2>2. ASSUME NEW u \in PyObj, Proxies(u)
          PROVE  /\ Proxies(u)'
                 /\ this[inst[self[u]].this].own => this'[inst'[self[u]].this].own
        <3>1. self' = self /\ inst' = inst
            BY DEF Acquire
        <3>2. inst[self[u]].this \in This
            BY <2>2, InChain DEF Proxies
        <3> QED BY <1>4, <1>6, <2>2, <3>1, <3>2, SameProxies
    <2>3. UNCHANGED <<life, self, pyDisowned>>
        BY DEF Acquire
    <2>4. \A u \in pyDisowned : life[u] = "alive" /\ Proxies(u) /\ u \in pyCpp' /\ u \in PyObj
        BY <1>0, <1>1, <1>2, <1>3 DEF PyInv, Directed, PyTypes
    <2> QED BY <2>1, <2>2, <2>3, <2>4 DEF Directed
<1> QED BY <1>5, <1>6, <1>7, <1>8, <1>9, <1>10 DEF PyInv

\* director.swg, swig_disown(): C++ takes a director over, which keeps its proxy.
LEMMA DisownKeeps ==
    ASSUME TwoBases, PyInv, NEW i \in Inst, Disown(i)
    PROVE  PyInv'
<1> DEFINE s == inst[i].this
           o == this[s].ptr
<1>0. /\ PyTypes /\ Idle /\ inst[i] # NULL /\ pyTodo' = pyTodo
    BY DEF PyInv, Disown, Counted, Count
<1>1. \A x : ~Pending(x) /\ ~Pending(x)'
    BY <1>0, StillIdle
<1>2. /\ s \in This /\ this[s] # NULL /\ o \in PyObj /\ self[o] = i /\ Proxies(o)
      /\ this[s].own \/ o \in pyDisowned
    BY <1>0, InChain, Structures DEF Disown, Proxies
<1>3. /\ this' = [this EXCEPT ![s].own = FALSE] /\ pyCpp' = pyCpp \cup {o}
      /\ pyDisowned' = pyDisowned \cup {o}
      /\ inst' = IF o \in pyDisowned THEN inst ELSE [inst EXCEPT ![i].rc = @ + 1]
    BY DEF Disown
<1>4. /\ this' \in [This -> {NULL} \cup [ptr : PyObj, own : BOOLEAN, next : This \cup {NULL},
                                         rc : {1}]]
      /\ \A r \in This : /\ this'[r] = NULL <=> this[r] = NULL
                         /\ this[r] # NULL => /\ this'[r].next = this[r].next
                                              /\ this'[r].ptr = this[r].ptr
                         /\ r # s => this'[r] = this[r]
      /\ this'[s].own = FALSE
    BY <1>0, <1>2, <1>3, OwnSet
<1>40. /\ inst' \in [Inst -> {NULL} \cup [this : This, rc : Nat \ {0}, bases : SUBSET PyObj]]
       /\ \A j \in Inst : /\ inst'[j] = NULL <=> inst[j] = NULL
                          /\ inst[j] # NULL => /\ inst'[j].this = inst[j].this
                                               /\ inst'[j].bases = inst[j].bases
                          /\ j # i => inst'[j] = inst[j]
       /\ inst'[i].rc = inst[i].rc + (IF o \in pyDisowned THEN 0 ELSE 1)
    <2>1. CASE o \in pyDisowned
        BY <1>0, <1>3, <2>1, Structures DEF PyTypes
    <2>2. CASE o \notin pyDisowned
        <3>1. inst[i].rc + 1 \in Nat \ {0}
            BY <1>0, Structures
        <3>2. inst' = [inst EXCEPT ![i].rc = @ + 1]
            BY <1>3, <2>2
        <3> QED BY <1>0, <2>2, <3>1, <3>2, CountSet, ZenonT(60)
    <2> QED BY <2>1, <2>2
<1> HIDE DEF s, o
<1>5. PyTypes' /\ Tasks'
    BY <1>0, <1>2, <1>3, <1>4, <1>40, StillIdle DEF PyTypes, Disown
<1>6. Same /\ OneReferrer' /\ Chains'
    <2>1. Same
        BY <1>0, <1>1, <1>4, <1>40 DEF Same
    <2> QED BY <2>1, SameStructures
<1>70. \A u \in pyDisowned : life[u] = "alive" /\ Proxies(u) /\ u \in pyCpp /\ u \in PyObj
    BY <1>0, <1>1 DEF PyInv, Directed, PyTypes
<1>7. OnePossessor' /\ life[o] = "alive"
    <2>1. OwnedOnce(o) /\ (Owns(s, o) \/ o \in pyCpp)
        BY <1>2, <1>70 DEF PyInv, OnePossessor, Owns, o
    <2>2. UNCHANGED <<life, kept>> /\ \A u \in PyObj : Left(u)' <=> Left(u)
        BY DEF Disown, Left
    <2>3. ASSUME NEW u \in PyObj PROVE OwnedOnce(u)'
        <3>1. OwnedOnce(u) /\ \A d \in PyObj : Keeps(d, u)' <=> Keeps(d, u)
            BY <2>2 DEF PyInv, OnePossessor, Keeps
        <3>2. CASE u = o
            <4>1. \A r \in This : ~Owns(r, u)'
                BY <1>2, <1>4, <2>1, <3>2 DEF OwnedOnce, Owns
            <4>2. \A d \in PyObj : ~Keeps(d, u)
                BY <1>2, <2>1, <3>2 DEF OwnedOnce
            <4>3. life[u] = "alive" /\ ~Left(u)
                BY <1>2, <2>1, <3>2 DEF OwnedOnce
            <4> QED BY <1>1, <1>3, <2>2, <3>1, <3>2, <4>1, <4>2, <4>3 DEF OwnedOnce
        <3>3. CASE u # o
            <4>1. \A r \in This : Owns(r, u)' <=> Owns(r, u)
                BY <1>2, <1>4, <3>3 DEF Owns, o
            <4> QED BY <1>1, <1>3, <2>2, <3>1, <3>3, <4>1 DEF OwnedOnce
        <3> QED BY <3>2, <3>3
    <2>4. life[o] = "alive"
        BY <1>2, <2>1 DEF OwnedOnce
    <2> QED BY <1>1, <2>3, <2>4 DEF OnePossessor
<1>8. Born'
    BY <1>4 DEF PyInv, Born, Disown
<1>9. Counted'
    <2>1. \A u \in pyDisowned : self[u] = i => u = o
        BY <1>70 DEF Proxies, s, o
    <2>2. UNCHANGED <<self, pyHeld>>
        BY DEF Disown
    <2>3. ASSUME NEW j \in Inst
          PROVE  (IF inst'[j] = NULL THEN 0 ELSE inst'[j].rc)
                 = Count(j \in pyHeld) + Count(\E u \in pyDisowned' : self[u] = j) + Count(FALSE)
        <3>1. (IF inst[j] = NULL THEN 0 ELSE inst[j].rc)
                 = Count(j \in pyHeld) + Count(\E u \in pyDisowned : self[u] = j) + Count(FALSE)
            BY <1>1 DEF PyInv, Counted, Count
        <3>2. CASE j # i
            BY <1>2, <1>3, <1>40, <3>1, <3>2
        <3>3. CASE j = i
            <4>1. \E u \in pyDisowned' : self[u] = j
                BY <1>2, <1>3, <3>3
            <4>2. (\E u \in pyDisowned : self[u] = j) <=> o \in pyDisowned
                BY <1>2, <2>1, <3>3
            <4>3. inst[i].rc \in Nat
                BY <1>0, Structures
            <4> QED BY <1>0, <1>40, <3>1, <3>3, <4>1, <4>2, <4>3 DEF Count
        <3> QED BY <3>2, <3>3
    <2> QED BY <1>1, <2>2, <2>3 DEF Counted, Count
<1>10. Directed'
    <2>1. \A u \in PyObj : life[u] = "alive" /\ self[u] # NULL =>
               Proxies(u) /\ (this[inst[self[u]].this].own \/ u \in pyDisowned)
        BY <1>0, HasProxy
    <2>2. ASSUME NEW u \in PyObj, Proxies(u)
          PROVE  /\ Proxies(u)'
                 /\ u # o /\ this[inst[self[u]].this].own => this'[inst'[self[u]].this].own
        <3>1. self' = self
            BY DEF Disown
        <3>2. inst[self[u]].this \in This /\ (u # o => inst[self[u]].this # s)
            BY <2>2, InChain DEF Proxies, o
        <3> QED BY <1>4, <1>6, <2>2, <3>1, <3>2, SameProxies
    <2>3. UNCHANGED <<life, self>>
        BY DEF Disown
    <2> QED BY <1>2, <1>3, <1>7, <1>70, <2>1, <2>2, <2>3 DEF Directed
<1> QED BY <1>5, <1>6, <1>7, <1>8, <1>9, <1>10 DEF PyInv

\* swigtype.swg, directorout: a director keeps what its Python method returned.
LEMMA DirectorOutKeeps ==
    ASSUME TwoBases, PyInv, NEW d \in PyObj, NEW i \in Inst, DirectorOut(d, i)
    PROVE  PyInv'
<1> DEFINE s == inst[i].this
           o == this[s].ptr
<1>0. /\ PyTypes /\ Idle /\ inst[i] # NULL /\ pyTodo' = pyTodo
    BY DEF PyInv, DirectorOut, Counted, Count
<1>1. \A x : ~Pending(x) /\ ~Pending(x)'
    BY <1>0, StillIdle
<1>2. /\ s \in This /\ this[s] # NULL /\ o \in PyObj /\ self[o] = NULL /\ life[o] = "alive"
      /\ life[d] = "alive" /\ this[s].own \in BOOLEAN
    BY <1>0, InChain, Structures DEF DirectorOut, PyAlive
<1>3. /\ this' = [this EXCEPT ![s].own = FALSE]
      /\ kept' = [kept EXCEPT ![d] = IF this[s].own THEN @ \cup {o} ELSE @]
    BY DEF DirectorOut
<1>4. /\ this' \in [This -> {NULL} \cup [ptr : PyObj, own : BOOLEAN, next : This \cup {NULL},
                                         rc : {1}]]
      /\ \A r \in This : /\ this'[r] = NULL <=> this[r] = NULL
                         /\ this[r] # NULL => /\ this'[r].next = this[r].next
                                              /\ this'[r].ptr = this[r].ptr
                         /\ r # s => this'[r] = this[r]
      /\ this'[s].own = FALSE
    BY <1>0, <1>2, <1>3, OwnSet
<1>40. /\ kept' \in [PyObj -> SUBSET PyObj]
       /\ \A e \in PyObj \ {d} : kept'[e] = kept[e]
       /\ kept'[d] = IF this[s].own THEN kept[d] \cup {o} ELSE kept[d]
    BY <1>0, <1>2, <1>3 DEF PyTypes
<1> HIDE DEF s, o
<1>5. PyTypes' /\ Tasks'
    BY <1>0, <1>2, <1>4, <1>40, StillIdle DEF PyTypes, DirectorOut
<1>6. Same /\ OneReferrer' /\ Chains'
    <2>1. Same
        BY <1>0, <1>1, <1>4 DEF Same, DirectorOut
    <2> QED BY <2>1, SameStructures
<1>7. OnePossessor'
    <2>1. OwnedOnce(o) /\ (this[s].own => Owns(s, o))
        BY <1>2 DEF PyInv, OnePossessor, Owns, o
    <2>2. UNCHANGED <<life, pyCpp>> /\ \A u \in PyObj : Left(u)' <=> Left(u)
        BY <1>2, <1>40 DEF DirectorOut, Left
    <2>3. ASSUME NEW u \in PyObj PROVE OwnedOnce(u)'
        <3>1. OwnedOnce(u)
            BY DEF PyInv, OnePossessor
        <3>2. CASE u = o /\ this[s].own
            <4>1. \A r \in This : ~Owns(r, u)'
                BY <1>2, <1>4, <2>1, <3>2 DEF OwnedOnce, Owns
            <4>2. \A e \in PyObj : Keeps(e, u)' <=> e = d
                BY <1>2, <1>40, <2>1, <2>2, <3>2 DEF OwnedOnce, Keeps
            <4>3. life[u] = "alive" /\ ~Left(u) /\ u \notin pyCpp
                BY <1>2, <2>1, <3>2 DEF OwnedOnce
            <4> QED BY <1>1, <2>2, <3>1, <3>2, <4>1, <4>2, <4>3 DEF OwnedOnce
        <3>3. CASE ~(u = o /\ this[s].own)
            <4>1. \A r \in This : Owns(r, u)' <=> Owns(r, u)
                BY <1>2, <1>4, <3>3 DEF Owns, o
            <4>2. \A e \in PyObj : Keeps(e, u)' <=> Keeps(e, u)
                BY <1>40, <2>2, <3>3 DEF Keeps
            <4> QED BY <1>1, <2>2, <3>1, <4>1, <4>2 DEF OwnedOnce
        <3> QED BY <3>2, <3>3
    <2> QED BY <1>1, <2>3 DEF OnePossessor
<1>8. Born'
    <2>1. \A e, u \in PyObj : u \in kept'[e] => life[u] # "unborn" /\ life[e] # "unborn"
        BY <1>2, <1>40 DEF PyInv, Born
    <2>2. life' = life /\ self' = self /\ Born
        BY DEF DirectorOut, PyInv
    <2>3. \A r \in This : this'[r] # NULL => this[r] # NULL /\ this'[r].ptr = this[r].ptr
        BY <1>4
    <2> QED BY ONLY <2>1, <2>2, <2>3 DEF Born
<1>9. Counted'
    BY <1>0, <1>1 DEF PyInv, Counted, Count, DirectorOut
<1>10. Directed'
    <2>1. \A u \in PyObj : life[u] = "alive" /\ self[u] # NULL =>
               Proxies(u) /\ (this[inst[self[u]].this].own \/ u \in pyDisowned)
        BY <1>0, HasProxy
    <2>2. ASSUME NEW u \in PyObj, Proxies(u)
          PROVE  /\ Proxies(u)'
                 /\ u # o /\ this[inst[self[u]].this].own => this'[inst'[self[u]].this].own
        <3>1. self' = self
            BY DEF DirectorOut
        <3>2. inst[self[u]].this \in This /\ (u # o => inst[self[u]].this # s)
            BY <2>2, InChain DEF Proxies, o
        <3> QED BY <1>4, <1>6, <2>2, <3>1, <3>2, SameProxies
    <2>3. UNCHANGED <<life, self, pyDisowned, pyCpp>> /\ \A u \in PyObj : self[u] # NULL => u # o
        BY <1>2 DEF DirectorOut
    <2>4. \A u \in pyDisowned : life[u] = "alive" /\ Proxies(u) /\ u \in pyCpp /\ u \in PyObj
        BY <1>0, <1>1 DEF PyInv, Directed, PyTypes
    <2> QED BY <2>1, <2>2, <2>3, <2>4 DEF Directed
<1> QED BY <1>5, <1>6, <1>7, <1>8, <1>9, <1>10 DEF PyInv

\* python.cxx: a call returns the director's own proxy.
LEMMA ReturnDirectorKeeps ==
    ASSUME TwoBases, PyInv, NEW o \in PyObj, ReturnDirector(o)
    PROVE  PyInv'
<1> DEFINE i == self[o]
<1>0. /\ PyTypes /\ Idle /\ pyTodo' = pyTodo /\ i \in Inst /\ inst[i] # NULL /\ i \notin pyHeld
    BY HasProxy DEF PyInv, ReturnDirector, PyAlive, Proxies
<1>1. \A x : ~Pending(x) /\ ~Pending(x)'
    BY <1>0, StillIdle
<1>2. /\ inst' = [inst EXCEPT ![i].rc = @ + 1] /\ inst[i].rc + 1 \in Nat \ {0}
      /\ pyHeld' = pyHeld \cup {i} /\ UNCHANGED <<life, pyCpp, kept, self, pyDisowned, this>>
    BY <1>0, Structures DEF ReturnDirector
<1>3. /\ inst' \in [Inst -> {NULL} \cup [this : This, rc : Nat \ {0}, bases : SUBSET PyObj]]
       /\ \A j \in Inst : /\ inst'[j] = NULL <=> inst[j] = NULL
                          /\ inst[j] # NULL => /\ inst'[j].this = inst[j].this
                                               /\ inst'[j].bases = inst[j].bases
                          /\ j # i => inst'[j] = inst[j]
       /\ inst'[i].rc = inst[i].rc + 1
    BY <1>0, <1>2, CountSet
<1> HIDE DEF i
<1>5. PyTypes' /\ Tasks'
    BY <1>0, <1>2, <1>3, StillIdle DEF PyTypes
<1>6. Same /\ OneReferrer' /\ Chains'
    <2>1. Same
        BY <1>1, <1>2, <1>3 DEF Same
    <2> QED BY <2>1, SameStructures
<1>7. OnePossessor' /\ Born'
    BY <1>1, <1>2 DEF PyInv, OnePossessor, OwnedOnce, Owns, Keeps, Left, Born
<1>9. Counted'
    BY <1>0, <1>1, <1>2, <1>3, Structures DEF PyInv, Counted, Count
<1>10. Directed'
    <2>1. \A u \in PyObj : Proxies(u) => Proxies(u)' /\ inst'[self[u]].this = inst[self[u]].this
        BY <1>2, <1>6, SameProxies
    <2>2. pyDisowned \subseteq PyObj
        BY <1>0 DEF PyTypes
    <2> QED BY <1>1, <1>2, <2>1, <2>2 DEF PyInv, Directed
<1> QED BY <1>5, <1>6, <1>7, <1>9, <1>10 DEF PyInv

\* delete in C++ code.
LEMMA CppDeletesKeeps ==
    ASSUME TwoBases, PyInv, NEW o \in PyObj, CppDeletes(o)
    PROVE  PyInv'
<1>0. /\ PyTypes /\ Idle /\ pyTodo' = <<Delete(o)>> /\ pyCpp' = pyCpp \ {o} /\ o \in pyCpp
      /\ UNCHANGED <<life, kept, self, pyDisowned, this, inst, pyHeld>>
    BY DEF PyInv, CppDeletes
<1>1. /\ pyTodo' \in Seq(Task) /\ Len(pyTodo') = 1 /\ \A x : Pending(x)' <=> x = Delete(o)
      /\ \A x : ~Pending(x)
    BY <1>0, OneTask, NothingPending DEF Task
<1>2. /\ \A u : Pending(Delete(u))' <=> u = o
      /\ \A j : ~Pending(DecrefInst(j))' /\ ~Pending(DecrefThis(j))' /\ ~Pending(PyObject_DEL(j))'
    <2>1. \A u : Pending(Delete(u))' <=> u = o
        BY <1>1, TaskNames
    <2>2. \A j : /\ DecrefInst(j) # Delete(o) /\ DecrefThis(j) # Delete(o)
                 /\ PyObject_DEL(j) # Delete(o)
        BY TaskNames
    <2> QED BY <1>1, <2>1, <2>2
<1>3. PyTypes' /\ Tasks'
    BY <1>0, <1>1 DEF PyTypes, Tasks
<1>4. OneReferrer' /\ Chains'
    <2>1. Same
        BY <1>0, <1>1, <1>2 DEF Same
    <2> QED BY <2>1, SameStructures
<1>5. OnePossessor'
    <2>1. \A u \in PyObj : OwnedOnce(u)'
        <3> SUFFICES ASSUME NEW u \in PyObj PROVE OwnedOnce(u)'
            OBVIOUS
        <3>1. OwnedOnce(u)
            BY DEF PyInv, OnePossessor
        <3>2. /\ \A s \in This : Owns(s, u)' <=> Owns(s, u)
              /\ \A d \in PyObj : Keeps(d, u)' <=> Keeps(d, u)
              /\ Left(u)' <=> Left(u)
            BY <1>0 DEF Owns, Keeps, Left
        <3> QED BY <1>0, <1>1, <1>2, <3>1, <3>2 DEF OwnedOnce
    <2> QED BY <1>2, <2>1 DEF OnePossessor
<1>6. Born' /\ Counted'
    BY <1>0, <1>1, <1>2 DEF PyInv, Born, Counted, Count
<1>7. Directed'
    BY <1>0, <1>1, <1>2 DEF PyInv, Directed, Proxies, PyTypes
<1> QED BY <1>3, <1>4, <1>5, <1>6, <1>7 DEF PyInv

\* A Python variable goes away.
LEMMA DropKeeps ==
    ASSUME TwoBases, PyInv, NEW i \in Inst, Drop(i)
    PROVE  PyInv'
<1>0. /\ PyTypes /\ Idle /\ pyTodo' = <<DecrefInst(i)>> /\ pyHeld' = pyHeld \ {i} /\ i \in pyHeld
      /\ UNCHANGED <<life, pyCpp, kept, self, pyDisowned, this, inst>>
    BY DEF PyInv, Drop
<1>1. /\ pyTodo' \in Seq(Task) /\ Len(pyTodo') = 1 /\ \A x : Pending(x)' <=> x = DecrefInst(i)
      /\ \A x : ~Pending(x)
    BY <1>0, OneTask, NothingPending DEF Task
<1>2. /\ \A j : Pending(DecrefInst(j))' <=> j = i
      /\ \A j : ~Pending(Delete(j))' /\ ~Pending(DecrefThis(j))' /\ ~Pending(PyObject_DEL(j))'
    BY <1>1, TaskNames
<1>3. PyTypes' /\ Tasks'
    BY <1>0, <1>1 DEF PyTypes, Tasks
<1>4. OneReferrer' /\ Chains'
    <2>1. Same
        BY <1>0, <1>1, <1>2 DEF Same
    <2> QED BY <2>1, SameStructures
<1>5. OnePossessor' /\ Born'
    BY <1>0, <1>1, <1>2 DEF PyInv, OnePossessor, OwnedOnce, Owns, Keeps, Left, Born
<1>6. Counted'
    BY <1>0, <1>1, <1>2 DEF PyInv, Counted, Count
<1>7. Directed'
    BY <1>0, <1>1, <1>2 DEF PyInv, Directed, Proxies, PyTypes
<1> QED BY <1>3, <1>4, <1>5, <1>6, <1>7 DEF PyInv

\* What a new proxy changes.
Fresh(i, s, o, own) ==
    /\ this[s] = NULL /\ this'[s] # NULL
    /\ this'[s].ptr = o /\ this'[s].own = own /\ this'[s].next = NULL
    /\ \A r \in This \ {s} : this'[r] = this[r]
    /\ inst[i] = NULL /\ inst'[i] # NULL
    /\ inst'[i].this = s /\ inst'[i].bases = {o} /\ inst'[i].rc = 1
    /\ \A j \in Inst \ {i} : inst'[j] = inst[j]
    /\ pyHeld' = pyHeld \cup {i} /\ pyTodo' = pyTodo

\* pyrun.swg, SWIG_Python_NewPointerObj(): nothing refers to the new proxy yet.
LEMMA NewProxy ==
    ASSUME TwoBases, PyInv, Idle, pyTodo' = pyTodo,
           NEW i \in Inst, NEW o \in PyObj, NEW own \in BOOLEAN, NewPointerObj(i, o, own)
    PROVE  /\ this' \in [This -> {NULL} \cup [ptr : PyObj, own : BOOLEAN,
                                             next : This \cup {NULL}, rc : {1}]]
           /\ inst' \in [Inst -> {NULL} \cup [this : This, rc : Nat \ {0}, bases : SUBSET PyObj]]
           /\ \E s \in This : Fresh(i, s, o, own)
<1>0. PyTypes
    BY DEF PyInv
<1>1. PICK s \in This : /\ this[s] = NULL
                        /\ this' = [this EXCEPT ![s] = SwigPyObject_New(o, own)]
                        /\ inst' = [inst EXCEPT ![i] = [this |-> s, rc |-> 1, bases |-> {o}]]
    BY DEF NewPointerObj
<1>2. SwigPyObject_New(o, own) \in [ptr : PyObj, own : BOOLEAN, next : This \cup {NULL}, rc : {1}]
    BY DEF SwigPyObject_New
<1>3. [this |-> s, rc |-> 1, bases |-> {o}] \in [this : This, rc : Nat \ {0}, bases : SUBSET PyObj]
    OBVIOUS
<1>4. /\ this' \in [This -> {NULL} \cup [ptr : PyObj, own : BOOLEAN,
                                         next : This \cup {NULL}, rc : {1}]]
      /\ this'[s] = SwigPyObject_New(o, own) /\ \A r \in This \ {s} : this'[r] = this[r]
    BY <1>0, <1>1, <1>2 DEF PyTypes
<1>5. /\ inst' \in [Inst -> {NULL} \cup [this : This, rc : Nat \ {0}, bases : SUBSET PyObj]]
      /\ inst'[i] = [this |-> s, rc |-> 1, bases |-> {o}]
      /\ \A j \in Inst \ {i} : inst'[j] = inst[j]
    BY <1>0, <1>1, <1>3 DEF PyTypes
<1>6. /\ inst'[i].this = s /\ inst'[i].bases = {o} /\ inst'[i].rc = 1 /\ inst'[i] # NULL
    BY <1>3, <1>5 DEF TwoBases
<1>7. /\ this'[s].ptr = o /\ this'[s].own = own /\ this'[s].next = NULL /\ this'[s] # NULL
    BY <1>2, <1>4 DEF SwigPyObject_New, TwoBases
<1>8. Fresh(i, s, o, own)
    BY <1>1, <1>4, <1>5, <1>6, <1>7 DEF Fresh, NewPointerObj
<1> QED BY <1>4, <1>5, <1>8

LEMMA FreshKeeps ==
    ASSUME TwoBases, PyInv, Idle,
           NEW i \in Inst, NEW s \in This, NEW o \in PyObj, NEW own, Fresh(i, s, o, own),
           pyDisowned' = pyDisowned, \A u \in pyDisowned : self'[u] = self[u]
    PROVE  /\ OneReferrer' /\ Chains' /\ Counted'
           /\ \A u \in PyObj : Proxies(u) /\ self'[u] = self[u] =>
                 /\ Proxies(u)'
                 /\ this'[inst'[self'[u]].this].own = this[inst[self[u]].this].own
           /\ \A r \in This : \A u : Owns(r, u)' <=> Owns(r, u) \/ (r = s /\ u = o /\ own)
<1>0. PyTypes /\ pyTodo' = pyTodo
    BY DEF PyInv, Fresh
<1>1. \A x : ~Pending(x) /\ ~Pending(x)'
    BY <1>0, StillIdle
<1>2. /\ this[s] = NULL /\ this'[s] # NULL
      /\ this'[s].ptr = o /\ this'[s].own = own /\ this'[s].next = NULL
      /\ \A r \in This \ {s} : this'[r] = this[r]
    BY DEF Fresh
<1>3. /\ inst[i] = NULL /\ inst'[i] # NULL
      /\ inst'[i].this = s /\ inst'[i].bases = {o} /\ inst'[i].rc = 1
      /\ \A j \in Inst \ {i} : inst'[j] = inst[j]
    BY DEF Fresh
<1>4. NULL \notin This
    BY DEF TwoBases
<1>5. /\ \A j \in Inst : ~InstRef(j, s)
      /\ \A r \in This : ~LinkRef(r, s)
    BY <1>2 DEF PyInv, OneReferrer, ReferredOnce
<1>6. \A r \in This : /\ \A j \in Inst : InstRef(j, r)' <=> InstRef(j, r) \/ (j = i /\ r = s)
                      /\ \A q \in This : LinkRef(q, r)' <=> LinkRef(q, r)
                      /\ ~CallRef(r) /\ ~CallRef(r)'
                      /\ ~Pending(DecrefThis(r))' /\ ~Pending(PyObject_DEL(r))'
    <2>1. \A r \in This, j \in Inst : InstRef(j, r)' <=> InstRef(j, r) \/ (j = i /\ r = s)
        BY <1>3 DEF InstRef
    <2>2. \A r, q \in This : LinkRef(q, r)' <=> LinkRef(q, r)
        BY <1>1, <1>2, <1>4 DEF LinkRef
    <2> QED BY <1>1, <2>1, <2>2 DEF CallRef
<1>7. OneReferrer'
    <2> SUFFICES ASSUME NEW r \in This PROVE ReferredOnce(r)'
        BY DEF OneReferrer
    <2>1. ReferredOnce(r)
        BY DEF PyInv, OneReferrer
    <2>2. CASE r = s
        BY <1>2, <1>5, <1>6, <2>2 DEF ReferredOnce
    <2>3. CASE r # s
        BY <1>2, <1>6, <2>1, <2>3 DEF ReferredOnce
    <2> QED BY <2>2, <2>3
<1>8. \A j \in Inst : inst[j] # NULL =>
          /\ inst[j].this \in This \ {s}
          /\ this[inst[j].this].next \in This => this[inst[j].this].next # s
    BY <1>2, InChain
<1>9. Chains'
    <2> SUFFICES ASSUME NEW j \in Inst, inst'[j] # NULL
                 PROVE  LET t == inst'[j].this
                            n == this'[t].next
                        IN \/ n = NULL /\ inst'[j].bases = {this'[t].ptr}
                           \/ /\ n \in This /\ inst'[j].bases = {this'[t].ptr, this'[n].ptr}
                              /\ this'[n].next = NULL /\ this'[n].ptr # this'[t].ptr
        BY DEF Chains
    <2>1. CASE j = i
        BY <1>2, <1>3, <2>1
    <2>2. CASE j # i
        <3>1. inst'[j] = inst[j] /\ inst[j] # NULL
            BY <1>3, <2>2
        <3> QED BY <1>2, <1>8, <3>1 DEF PyInv, Chains
    <2> QED BY <2>1, <2>2
<1>10. Counted'
    <2>1. i \notin pyHeld /\ ~(\E u \in pyDisowned : self[u] = i)
        BY <1>3 DEF PyInv, Counted, Count
    <2>2. pyHeld' = pyHeld \cup {i}
        BY DEF Fresh
    <2>3. ASSUME NEW j \in Inst
          PROVE  (IF inst'[j] = NULL THEN 0 ELSE inst'[j].rc)
                 = Count(j \in pyHeld') + Count(\E u \in pyDisowned : self'[u] = j) + Count(FALSE)
        <3>1. (IF inst[j] = NULL THEN 0 ELSE inst[j].rc)
                 = Count(j \in pyHeld) + Count(\E u \in pyDisowned : self[u] = j) + Count(FALSE)
            BY <1>1 DEF PyInv, Counted, Count
        <3>2. (\E u \in pyDisowned : self'[u] = j) <=> (\E u \in pyDisowned : self[u] = j)
            OBVIOUS
        <3>3. CASE j = i
            BY <1>3, <2>1, <2>2, <3>2, <3>3 DEF Count
        <3>4. CASE j # i
            BY <1>3, <2>2, <3>1, <3>2, <3>4 DEF Count
        <3> QED BY <3>3, <3>4
    <2> QED BY <1>1, <2>3 DEF Counted, Count
<1>11. ASSUME NEW u \in PyObj, Proxies(u), self'[u] = self[u]
       PROVE  /\ Proxies(u)'
              /\ this'[inst'[self'[u]].this].own = this[inst[self[u]].this].own
    <2>1. self[u] \in Inst \ {i} /\ inst[self[u]].this \in This \ {s}
        BY <1>3, <1>8, <1>11 DEF Proxies
    <2> QED BY <1>2, <1>3, <1>11, <2>1 DEF Proxies
<1>12. \A r \in This : \A u : Owns(r, u)' <=> Owns(r, u) \/ (r = s /\ u = o /\ own)
    BY <1>2 DEF Owns
<1> QED BY <1>7, <1>9, <1>10, <1>11, <1>12

\* i = Foo(), or a function makes an object and returns it.
LEMMA InitKeeps ==
    ASSUME TwoBases, PyInv, NEW i \in Inst, NEW o \in PyObj, NEW director \in BOOLEAN,
           InitShadowInstance(i, o, director)
    PROVE  PyInv'
<1>0. /\ PyTypes /\ Idle /\ pyTodo' = pyTodo /\ life[o] = "unborn"
      /\ NewPointerObj(i, o, TRUE) /\ life' = [life EXCEPT ![o] = "alive"]
      /\ self' = [self EXCEPT ![o] = IF director THEN i ELSE NULL]
      /\ UNCHANGED <<pyCpp, kept, pyDisowned>>
    BY DEF PyInv, InitShadowInstance
<1>1. \A x : ~Pending(x) /\ ~Pending(x)'
    BY <1>0, StillIdle
<1>2. /\ this' \in [This -> {NULL} \cup [ptr : PyObj, own : BOOLEAN,
                                         next : This \cup {NULL}, rc : {1}]]
      /\ inst' \in [Inst -> {NULL} \cup [this : This, rc : Nat \ {0}, bases : SUBSET PyObj]]
    BY <1>0, NewProxy
<1>3. PICK s \in This : Fresh(i, s, o, TRUE)
    BY <1>0, NewProxy
<1>4. \A u \in pyDisowned : life[u] = "alive" /\ Proxies(u) /\ u \in pyCpp /\ u \in PyObj
    BY <1>0, <1>1 DEF PyInv, Directed, PyTypes
<1>5. /\ life' \in [PyObj -> {"unborn", "alive", "dead"}] /\ life'[o] = "alive"
      /\ \A u \in PyObj \ {o} : life'[u] = life[u] /\ self'[u] = self[u]
      /\ self' \in [PyObj -> Inst \cup {NULL}] /\ self'[o] = IF director THEN i ELSE NULL
    BY <1>0 DEF PyTypes
<1>6. \A u \in pyDisowned : u # o /\ self'[u] = self[u]
    BY <1>0, <1>4, <1>5
<1>7. /\ OneReferrer' /\ Chains' /\ Counted'
      /\ \A u \in PyObj : Proxies(u) /\ self'[u] = self[u] =>
            /\ Proxies(u)'
            /\ this'[inst'[self'[u]].this].own = this[inst[self[u]].this].own
      /\ \A r \in This : \A u : Owns(r, u)' <=> Owns(r, u) \/ (r = s /\ u = o)
    <2>1. /\ Idle /\ Fresh(i, s, o, TRUE) /\ pyDisowned' = pyDisowned
          /\ \A u \in pyDisowned : self'[u] = self[u]
        BY <1>0, <1>3, <1>6
    <2>2. OneReferrer' /\ Chains' /\ Counted'
        BY <2>1, FreshKeeps
    <2>3. \A u \in PyObj : Proxies(u) /\ self'[u] = self[u] =>
            /\ Proxies(u)'
            /\ this'[inst'[self'[u]].this].own = this[inst[self[u]].this].own
        BY <2>1, FreshKeeps
    <2>4. \A r \in This : \A u : Owns(r, u)' <=> Owns(r, u) \/ (r = s /\ u = o /\ TRUE)
        BY <2>1, FreshKeeps
    <2> QED BY <2>2, <2>3, <2>4
<1>8. PyTypes' /\ Tasks'
    <2>1. pyHeld' \subseteq Inst
        BY <1>0, <1>3 DEF PyTypes, Fresh
    <2> QED BY <1>0, <1>2, <1>5, <2>1, StillIdle DEF PyTypes
<1>9. OnePossessor'
    <2>1. \A d, u \in PyObj : u \in kept[d] => d # o /\ u # o
        BY <1>0 DEF PyInv, Born
    <2>2. \A u \in PyObj : /\ \A d \in PyObj : Keeps(d, u)' <=> Keeps(d, u)
                           /\ Left(u)' <=> Left(u)
        BY <1>0, <1>5, <2>1 DEF Keeps, Left
    <2>3. ASSUME NEW u \in PyObj PROVE OwnedOnce(u)'
        <3>1. OwnedOnce(u)
            BY DEF PyInv, OnePossessor
        <3>2. CASE u = o
            <4>1. /\ \A r \in This : ~Owns(r, u)
                  /\ \A d \in PyObj : ~Keeps(d, u) /\ u \notin pyCpp /\ ~Left(u)
                BY <1>0, <2>1, <3>1, <3>2 DEF OwnedOnce, Left
            <4> QED BY <1>0, <1>1, <1>5, <1>7, <2>2, <3>2, <4>1 DEF OwnedOnce
        <3>3. CASE u # o
            BY <1>0, <1>1, <1>5, <1>7, <2>2, <3>1, <3>3 DEF OwnedOnce
        <3> QED BY <3>2, <3>3
    <2> QED BY <1>1, <2>3 DEF OnePossessor
<1>10. Born'
    <2>1. \A r \in This : this'[r] # NULL => life'[this'[r].ptr] # "unborn"
        <3> SUFFICES ASSUME NEW r \in This, this'[r] # NULL
                     PROVE  life'[this'[r].ptr] # "unborn"
            OBVIOUS
        <3>1. CASE r = s
            BY <1>3, <1>5, <3>1 DEF Fresh
        <3>2. CASE r # s
            <4>1. this'[r] = this[r] /\ this[r].ptr \in PyObj
                BY <1>0, <1>3, <3>2, Structures DEF Fresh
            <4> QED BY <1>5, <4>1 DEF PyInv, Born
        <3> QED BY <3>1, <3>2
    <2>2. \A d, u \in PyObj : u \in kept'[d] => life'[u] # "unborn" /\ life'[d] # "unborn"
        BY <1>0, <1>5 DEF PyInv, Born
    <2>3. \A u \in PyObj : life'[u] = "unborn" => self'[u] = NULL
        BY <1>5 DEF PyInv, Born
    <2> QED BY <2>1, <2>2, <2>3 DEF Born
<1>11. Directed'
    <2>1. \A u \in PyObj : life[u] = "alive" /\ self[u] # NULL =>
               Proxies(u) /\ (this[inst[self[u]].this].own \/ u \in pyDisowned)
        BY <1>0, HasProxy
    <2>2. \A u \in pyDisowned' : /\ life'[u] = "alive" /\ Proxies(u)'
                                 /\ u \in pyCpp' \/ Pending(Delete(u))'
        BY <1>0, <1>4, <1>5, <1>6, <1>7
    <2>3. ASSUME NEW u \in PyObj, life'[u] = "alive", self'[u] # NULL
          PROVE  Proxies(u)' /\ (this'[inst'[self'[u]].this].own \/ u \in pyDisowned')
        <3>1. CASE u = o
            <4>1. self'[u] = i
                BY <1>5, <2>3, <3>1
            <4> QED BY <1>3, <3>1, <4>1 DEF Proxies, Fresh
        <3>2. CASE u # o
            BY <1>0, <1>5, <1>7, <2>1, <2>3, <3>2
        <3> QED BY <3>1, <3>2
    <2> QED BY <2>2, <2>3 DEF Directed
<1> QED BY <1>7, <1>8, <1>9, <1>10, <1>11 DEF PyInv

LEMMA ReturnOwnedKeeps ==
    ASSUME TwoBases, PyInv, NEW i \in Inst, NEW o \in PyObj, ReturnOwned(i, o)
    PROVE  PyInv'
<1>1. self[o] = NULL /\ self \in [PyObj -> Inst \cup {NULL}]
    BY DEF PyInv, PyTypes, Born, ReturnOwned
<1>2. self = [self EXCEPT ![o] = NULL]
    BY <1>1
<1>3. InitShadowInstance(i, o, FALSE)
    BY <1>2 DEF InitShadowInstance, ReturnOwned
<1> QED BY <1>3, InitKeeps

\* A function returns a pointer to an object that lives.
LEMMA ReturnPointerKeeps ==
    ASSUME TwoBases, PyInv, NEW i \in Inst, NEW o \in PyObj, ReturnPointer(i, o)
    PROVE  PyInv'
<1>0. /\ PyTypes /\ Idle /\ pyTodo' = pyTodo /\ life[o] = "alive" /\ NewPointerObj(i, o, FALSE)
      /\ UNCHANGED <<life, pyCpp, kept, self, pyDisowned>>
    BY DEF PyInv, ReturnPointer, PyAlive
<1>1. \A x : ~Pending(x) /\ ~Pending(x)'
    BY <1>0, StillIdle
<1>2. /\ this' \in [This -> {NULL} \cup [ptr : PyObj, own : BOOLEAN,
                                         next : This \cup {NULL}, rc : {1}]]
      /\ inst' \in [Inst -> {NULL} \cup [this : This, rc : Nat \ {0}, bases : SUBSET PyObj]]
    BY <1>0, NewProxy
<1>3. PICK s \in This : Fresh(i, s, o, FALSE)
    BY <1>0, NewProxy
<1>4. /\ OneReferrer' /\ Chains' /\ Counted'
      /\ \A u \in PyObj : Proxies(u) =>
            /\ Proxies(u)'
            /\ this'[inst'[self'[u]].this].own = this[inst[self[u]].this].own
      /\ \A r \in This : \A u : Owns(r, u)' <=> Owns(r, u)
    BY <1>0, <1>3, FreshKeeps
<1>5. PyTypes' /\ Tasks'
    <2>1. pyHeld' \subseteq Inst
        BY <1>0, <1>3 DEF PyTypes, Fresh
    <2> QED BY <1>0, <1>2, <2>1, StillIdle DEF PyTypes
<1>6. OnePossessor'
    <2>1. ASSUME NEW u \in PyObj PROVE OwnedOnce(u)'
        <3>1. OwnedOnce(u)
            BY DEF PyInv, OnePossessor
        <3>2. /\ \A d \in PyObj : Keeps(d, u)' <=> Keeps(d, u)
              /\ Left(u)' <=> Left(u)
            BY <1>0 DEF Keeps, Left
        <3> QED BY <1>0, <1>1, <1>4, <3>1, <3>2 DEF OwnedOnce
    <2> QED BY <1>1, <2>1 DEF OnePossessor
<1>7. Born'
    <2>1. \A r \in This : this'[r] # NULL => life[this'[r].ptr] # "unborn"
        BY <1>0, <1>3 DEF PyInv, Born, Fresh
    <2> QED BY <1>0, <2>1 DEF PyInv, Born
<1>8. Directed'
    <2>1. \A u \in PyObj : life[u] = "alive" /\ self[u] # NULL =>
               Proxies(u) /\ (this[inst[self[u]].this].own \/ u \in pyDisowned)
        BY <1>0, HasProxy
    <2>2. \A u \in pyDisowned : life[u] = "alive" /\ Proxies(u) /\ u \in pyCpp /\ u \in PyObj
        BY <1>0, <1>1 DEF PyInv, Directed, PyTypes
    <2> QED BY <1>0, <1>4, <2>1, <2>2 DEF Directed
<1> QED BY <1>4, <1>5, <1>6, <1>7, <1>8 DEF PyInv

\* director.swg, directorfree: a director passes what it kept on to a new proxy.
LEMMA DirectorFreeKeeps ==
    ASSUME TwoBases, PyInv, NEW d \in PyObj, NEW i \in Inst, NEW o \in PyObj, DirectorFree(d, i, o)
    PROVE  PyInv'
<1>0. /\ PyTypes /\ Idle /\ pyTodo' = pyTodo /\ life[d] = "alive" /\ o \in kept[d]
      /\ NewPointerObj(i, o, TRUE) /\ kept' = [kept EXCEPT ![d] = @ \ {o}]
      /\ UNCHANGED <<life, pyCpp, self, pyDisowned>>
    BY DEF PyInv, DirectorFree, PyAlive
<1>1. \A x : ~Pending(x) /\ ~Pending(x)'
    BY <1>0, StillIdle
<1>2. /\ this' \in [This -> {NULL} \cup [ptr : PyObj, own : BOOLEAN,
                                         next : This \cup {NULL}, rc : {1}]]
      /\ inst' \in [Inst -> {NULL} \cup [this : This, rc : Nat \ {0}, bases : SUBSET PyObj]]
    BY <1>0, NewProxy
<1>3. PICK s \in This : Fresh(i, s, o, TRUE)
    BY <1>0, NewProxy
<1>4. /\ OneReferrer' /\ Chains' /\ Counted'
      /\ \A u \in PyObj : Proxies(u) =>
            /\ Proxies(u)'
            /\ this'[inst'[self'[u]].this].own = this[inst[self[u]].this].own
      /\ \A r \in This : \A u : Owns(r, u)' <=> Owns(r, u) \/ (r = s /\ u = o)
    <2>1. /\ Idle /\ Fresh(i, s, o, TRUE) /\ pyDisowned' = pyDisowned
          /\ \A u \in pyDisowned : self'[u] = self[u]
        BY <1>0, <1>3
    <2>2. OneReferrer' /\ Chains' /\ Counted'
        BY <2>1, FreshKeeps
    <2>3. \A u \in PyObj : Proxies(u) /\ self'[u] = self[u] =>
            /\ Proxies(u)'
            /\ this'[inst'[self'[u]].this].own = this[inst[self[u]].this].own
        BY <2>1, FreshKeeps
    <2>4. \A r \in This : \A u : Owns(r, u)' <=> Owns(r, u) \/ (r = s /\ u = o /\ TRUE)
        BY <2>1, FreshKeeps
    <2> QED BY <1>0, <2>2, <2>3, <2>4
<1>40. /\ kept' \in [PyObj -> SUBSET PyObj] /\ kept'[d] = kept[d] \ {o}
       /\ \A e \in PyObj \ {d} : kept'[e] = kept[e]
    BY <1>0 DEF PyTypes
<1>5. PyTypes' /\ Tasks'
    <2>1. pyHeld' \subseteq Inst
        BY <1>0, <1>3 DEF PyTypes, Fresh
    <2> QED BY <1>0, <1>2, <1>40, <2>1, StillIdle DEF PyTypes
<1>6. OnePossessor'
    <2>1. OwnedOnce(o) /\ Keeps(d, o)
        BY <1>0 DEF PyInv, OnePossessor, Keeps
    <2>2. \A u \in PyObj : Left(u)' <=> Left(u)
        BY <1>0, <1>40 DEF Left
    <2>3. ASSUME NEW u \in PyObj PROVE OwnedOnce(u)'
        <3>1. CASE u = o
            <4>1. \A e \in PyObj : ~Keeps(e, u)'
                BY <1>0, <1>40, <2>1, <3>1 DEF OwnedOnce, Keeps
            <4>2. \A r \in This : Owns(r, u)' <=> r = s
                BY <1>4, <2>1, <3>1 DEF OwnedOnce
            <4>3. life[u] = "alive" /\ ~Left(u) /\ u \notin pyCpp
                BY <2>1, <3>1 DEF OwnedOnce
            <4> QED BY <1>0, <1>1, <2>2, <4>1, <4>2, <4>3 DEF OwnedOnce
        <3>2. CASE u # o
            <4>1. OwnedOnce(u) /\ \A e \in PyObj : Keeps(e, u)' <=> Keeps(e, u)
                BY <1>0, <1>40, <3>2 DEF PyInv, OnePossessor, Keeps
            <4> QED BY <1>0, <1>1, <1>4, <2>2, <3>2, <4>1 DEF OwnedOnce
        <3> QED BY <3>1, <3>2
    <2> QED BY <1>1, <2>3 DEF OnePossessor
<1>7. Born'
    <2>1. \A r \in This : this'[r] # NULL => life[this'[r].ptr] # "unborn"
        BY <1>0, <1>3 DEF PyInv, Born, Fresh
    <2>2. \A e, u \in PyObj : u \in kept'[e] => life[u] # "unborn" /\ life[e] # "unborn"
        BY <1>40 DEF PyInv, Born
    <2> QED BY <1>0, <2>1, <2>2 DEF PyInv, Born
<1>8. Directed'
    <2>1. \A u \in PyObj : life[u] = "alive" /\ self[u] # NULL =>
               Proxies(u) /\ (this[inst[self[u]].this].own \/ u \in pyDisowned)
        BY <1>0, HasProxy
    <2>2. \A u \in pyDisowned : life[u] = "alive" /\ Proxies(u) /\ u \in pyCpp /\ u \in PyObj
        BY <1>0, <1>1 DEF PyInv, Directed, PyTypes
    <2> QED BY <1>0, <1>4, <2>1, <2>2 DEF Directed
<1> QED BY <1>4, <1>5, <1>6, <1>7, <1>8 DEF PyInv

LEMMA PairHasTwo == ASSUME NEW a, NEW b, a # b PROVE Cardinality({a, b}) = 2
<1> DEFINE S == {a}
<1>1. IsFiniteSet(S) /\ Cardinality(S) = 1
    BY FS_Singleton
<1>2. b \notin S /\ S \cup {b} = {a, b}
    OBVIOUS
<1> HIDE DEF S
<1>3. Cardinality(S \cup {b}) = 2
    BY <1>1, <1>2, FS_AddElement
<1> QED BY <1>2, <1>3

\* pyrun.swg, SwigPyObject_append(): a second base of an instance.
LEMMA InitBaseKeeps ==
    ASSUME TwoBases, PyInv, NEW i \in Inst, NEW o \in PyObj, InitBase(i, o)
    PROVE  PyInv'
<1> DEFINE t == inst[i].this
<1>0. /\ PyTypes /\ Idle /\ pyTodo' = pyTodo /\ life[o] = "unborn" /\ inst[i] # NULL
      /\ life' = [life EXCEPT ![o] = "alive"] /\ inst' = [inst EXCEPT ![i].bases = @ \cup {o}]
      /\ UNCHANGED <<pyCpp, kept, self, pyDisowned, pyHeld>>
    BY DEF PyInv, InitBase, Counted, Count
<1>1. \A x : ~Pending(x) /\ ~Pending(x)'
    BY <1>0, StillIdle
<1>2. PICK s \in This : /\ this[s] = NULL
                        /\ this' = [this EXCEPT ![s] = SwigPyObject_New(o, TRUE), ![t].next = s]
    BY DEF InitBase
<1>3. /\ t \in This /\ this[t] # NULL /\ this[t].ptr \in PyObj /\ t # s
      /\ \A j \in Inst : inst[j] # NULL /\ inst[j].this = t => j = i
      /\ \A r \in This : this[r] # NULL => this[r].next # t
    BY <1>0, <1>1, <1>2, InChain, Structures
<1>4. this[t].next = NULL /\ inst[i].bases = {this[t].ptr}
    <2>1. ASSUME NEW n \in This, inst[i].bases = {this[t].ptr, this[n].ptr},
                 this[n].ptr # this[t].ptr
          PROVE  FALSE
        <3> DEFINE a == this[t].ptr
                   b == this[n].ptr
        <3>3. a # b /\ inst[i].bases = {a, b}
            BY <2>1
        <3> HIDE DEF a, b
        <3>4. Cardinality({a, b}) = 2
            BY <3>3, PairHasTwo
        <3>1. Cardinality(inst[i].bases) = 2
            BY <3>3, <3>4
        <3>2. Cardinality(inst[i].bases) < 2
            BY DEF InitBase, TwoBases
        <3> QED BY <3>1, <3>2
    <2> QED BY <1>0, <2>1 DEF PyInv, Chains
<1> HIDE DEF t
<1> DEFINE R == [ptr : PyObj, own : BOOLEAN, next : This \cup {NULL}, rc : {1}]
<1>5. /\ this' \in [This -> {NULL} \cup R] /\ this'[s] = SwigPyObject_New(o, TRUE)
      /\ this'[t] = [this[t] EXCEPT !.next = s] /\ this'[t] \in R
      /\ \A r \in This \ {s, t} : this'[r] = this[r]
    <2>1. this \in [This -> {NULL} \cup R] /\ this[t] \in R
        BY <1>0, <1>3 DEF PyTypes
    <2>2. SwigPyObject_New(o, TRUE) \in R /\ [this[t] EXCEPT !.next = s] \in R
        BY <2>1 DEF SwigPyObject_New
    <2> HIDE DEF R
    <2> QED BY <1>2, <1>3, <2>1, <2>2
<1>6. /\ this'[s] # NULL /\ this'[s].ptr = o /\ this'[s].own = TRUE /\ this'[s].next = NULL
      /\ this'[t] # NULL /\ this'[t].ptr = this[t].ptr /\ this'[t].own = this[t].own
      /\ this'[t].next = s
    <2>1. this'[s] \in R /\ this'[s].ptr = o /\ this'[s].own = TRUE /\ this'[s].next = NULL
        BY <1>5 DEF SwigPyObject_New
    <2>2. this[t] \in R
        BY <1>0, <1>3 DEF PyTypes
    <2>3. this'[t].ptr = this[t].ptr /\ this'[t].own = this[t].own /\ this'[t].next = s
        BY <1>5, <2>2
    <2> QED BY <1>5, <2>1, <2>3 DEF TwoBases
<1> DEFINE Q == [this : This, rc : Nat \ {0}, bases : SUBSET PyObj]
<1>7. /\ inst' \in [Inst -> {NULL} \cup Q] /\ inst'[i] # NULL
      /\ inst'[i].this = t /\ inst'[i].rc = inst[i].rc /\ inst'[i].bases = inst[i].bases \cup {o}
      /\ \A j \in Inst \ {i} : inst'[j] = inst[j]
    <2>1. inst \in [Inst -> {NULL} \cup Q] /\ inst[i] \in Q /\ NULL \notin Q
        BY <1>0 DEF PyTypes, TwoBases
    <2>2. [inst[i] EXCEPT !.bases = @ \cup {o}] \in Q
        BY <2>1
    <2>3. /\ inst'[i] = [inst[i] EXCEPT !.bases = @ \cup {o}] /\ inst' \in [Inst -> {NULL} \cup Q]
          /\ \A j \in Inst \ {i} : inst'[j] = inst[j]
        BY <1>0, <2>1, <2>2
    <2> QED BY <2>1, <2>2, <2>3 DEF t
<1>8. /\ life' \in [PyObj -> {"unborn", "alive", "dead"}] /\ life'[o] = "alive"
      /\ \A u \in PyObj \ {o} : life'[u] = life[u]
      /\ self[o] = NULL
    BY <1>0 DEF PyTypes, PyInv, Born
<1>9. PyTypes' /\ Tasks'
    BY <1>0, <1>5, <1>7, <1>8, StillIdle DEF PyTypes
<1> HIDE DEF R, Q
<1>10. /\ NULL \notin This
       /\ \A j \in Inst : ~InstRef(j, s)
       /\ \A r \in This : ~LinkRef(r, s)
    BY <1>2 DEF PyInv, OneReferrer, ReferredOnce, TwoBases
<1>11. \A r \in This : /\ \A j \in Inst : InstRef(j, r)' <=> InstRef(j, r)
                       /\ \A q \in This : LinkRef(q, r)' <=> LinkRef(q, r) \/ (q = t /\ r = s)
                       /\ ~CallRef(r) /\ ~CallRef(r)'
                       /\ ~Pending(DecrefThis(r))' /\ ~Pending(PyObject_DEL(r))'
    <2>1. \A r \in This, j \in Inst : InstRef(j, r)' <=> InstRef(j, r)
        BY <1>0, <1>7 DEF InstRef, t
    <2>2. ASSUME NEW r \in This, NEW q \in This
          PROVE  LinkRef(q, r)' <=> LinkRef(q, r) \/ (q = t /\ r = s)
        <3>1. CASE q = s
            BY <1>2, <1>3, <1>6, <1>10, <3>1 DEF LinkRef
        <3>2. CASE q = t
            BY <1>1, <1>3, <1>4, <1>6, <1>10, <3>2 DEF LinkRef
        <3>3. CASE q \notin {s, t}
            BY <1>1, <1>5, <3>3 DEF LinkRef
        <3> QED BY <3>1, <3>2, <3>3
    <2> QED BY <1>1, <2>1, <2>2 DEF CallRef
<1>12. OneReferrer'
    <2> SUFFICES ASSUME NEW r \in This PROVE ReferredOnce(r)'
        BY DEF OneReferrer
    <2>1. ReferredOnce(r)
        BY DEF PyInv, OneReferrer
    <2>2. CASE r = s
        BY <1>3, <1>6, <1>10, <1>11, <2>2 DEF ReferredOnce
    <2>3. CASE r # s
        <3>1. this'[r] # NULL <=> this[r] # NULL
            BY <1>3, <1>5, <1>6, <2>3
        <3> QED BY <1>11, <2>1, <2>3, <3>1 DEF ReferredOnce
    <2> QED BY <2>2, <2>3
<1>13. \A j \in Inst \ {i} : inst[j] # NULL =>
          /\ inst[j].this \in This \ {s, t}
          /\ this[inst[j].this].next \in This => this[inst[j].this].next \notin {s, t}
    <2> SUFFICES ASSUME NEW j \in Inst \ {i}, inst[j] # NULL
                 PROVE  /\ inst[j].this \in This \ {s, t}
                        /\ this[inst[j].this].next \in This
                              => this[inst[j].this].next \notin {s, t}
        OBVIOUS
    <2>1. /\ inst[j].this \in This /\ this[inst[j].this] # NULL
          /\ this[inst[j].this].next \in This => this[this[inst[j].this].next] # NULL
        BY InChain
    <2> QED BY <1>2, <1>3, <2>1
<1>14. Chains'
    <2> SUFFICES ASSUME NEW j \in Inst, inst'[j] # NULL
                 PROVE  LET q == inst'[j].this
                            n == this'[q].next
                        IN \/ n = NULL /\ inst'[j].bases = {this'[q].ptr}
                           \/ /\ n \in This /\ inst'[j].bases = {this'[q].ptr, this'[n].ptr}
                              /\ this'[n].next = NULL /\ this'[n].ptr # this'[q].ptr
        BY DEF Chains
    <2>1. CASE j = i
        <3>1. this[t].ptr # o
            BY <1>0, <1>3 DEF PyInv, Born
        <3> QED BY <1>4, <1>6, <1>7, <2>1, <3>1
    <2>2. CASE j # i
        <3>1. inst'[j] = inst[j] /\ inst[j] # NULL
            BY <1>7, <2>2
        <3> QED BY <1>5, <1>13, <2>2, <3>1 DEF PyInv, Chains
    <2> QED BY <2>1, <2>2
<1>15. OnePossessor'
    <2>1. \A d, u \in PyObj : u \in kept[d] => d # o /\ u # o
        BY <1>0 DEF PyInv, Born
    <2>2. \A u \in PyObj : /\ \A d \in PyObj : Keeps(d, u)' <=> Keeps(d, u)
                           /\ Left(u)' <=> Left(u)
        <3>1. \A d, u \in PyObj : Keeps(d, u)' <=> Keeps(d, u)
            BY <1>0, <1>8, <2>1 DEF Keeps
        <3>2. \A u \in PyObj : Left(u)' <=> Left(u)
            BY <1>0, <1>8, <2>1 DEF Left
        <3> QED BY <3>1, <3>2
    <2>3. \A r \in This : \A u : Owns(r, u)' <=> Owns(r, u) \/ (r = s /\ u = o)
        <3> SUFFICES ASSUME NEW r \in This, NEW u
                     PROVE  Owns(r, u)' <=> Owns(r, u) \/ (r = s /\ u = o)
            OBVIOUS
        <3>1. CASE r = s
            BY <1>2, <1>6, <3>1 DEF Owns
        <3>2. CASE r = t
            <4>1. this[t] # NULL /\ t # s
                BY <1>3
            <4> QED BY <1>6, <3>2, <4>1 DEF Owns
        <3>3. CASE r \notin {s, t}
            BY <1>5, <3>3 DEF Owns
        <3> QED BY <3>1, <3>2, <3>3
    <2>4. ASSUME NEW u \in PyObj PROVE OwnedOnce(u)'
        <3>1. OwnedOnce(u)
            BY DEF PyInv, OnePossessor
        <3>2. CASE u = o
            <4>1. /\ \A r \in This : ~Owns(r, u)
                  /\ \A d \in PyObj : ~Keeps(d, u) /\ u \notin pyCpp /\ ~Left(u)
                BY <1>0, <2>1, <3>1, <3>2 DEF OwnedOnce, Left
            <4> QED BY <1>0, <1>1, <1>8, <2>2, <2>3, <3>2, <4>1 DEF OwnedOnce
        <3>3. CASE u # o
            BY <1>0, <1>1, <1>8, <2>2, <2>3, <3>1, <3>3 DEF OwnedOnce
        <3> QED BY <3>2, <3>3
    <2> QED BY <1>1, <2>4 DEF OnePossessor
<1>16. Born'
    <2>1. ASSUME NEW r \in This, this'[r] # NULL PROVE life'[this'[r].ptr] # "unborn"
        <3>1. CASE r = s
            BY <1>6, <1>8, <3>1
        <3>2. CASE r # s
            <4>1. this[r] # NULL /\ this'[r].ptr = this[r].ptr /\ this[r].ptr \in PyObj
                BY <1>0, <1>3, <1>5, <1>6, <2>1, <3>2, Structures
            <4> QED BY <1>8, <4>1 DEF PyInv, Born
        <3> QED BY <3>1, <3>2
    <2>2. \A d, u \in PyObj : u \in kept'[d] => life'[u] # "unborn" /\ life'[d] # "unborn"
        BY <1>0, <1>8 DEF PyInv, Born
    <2>3. \A u \in PyObj : life'[u] = "unborn" => self'[u] = NULL
        BY <1>0, <1>8 DEF PyInv, Born
    <2> QED BY <2>1, <2>2, <2>3 DEF Born
<1>17. Counted'
    <2>1. \A j \in Inst : (IF inst'[j] = NULL THEN 0 ELSE inst'[j].rc)
                          = (IF inst[j] = NULL THEN 0 ELSE inst[j].rc)
        BY <1>0, <1>7
    <2> QED BY <1>0, <1>1, <2>1 DEF PyInv, Counted, Count
<1>18. Directed'
    <2>1. \A u \in PyObj : life[u] = "alive" /\ self[u] # NULL =>
               Proxies(u) /\ (this[inst[self[u]].this].own \/ u \in pyDisowned)
        BY <1>0, HasProxy
    <2>2. \A u \in pyDisowned : life[u] = "alive" /\ Proxies(u) /\ u \in pyCpp /\ u \in PyObj
        BY <1>0, <1>1 DEF PyInv, Directed, PyTypes
    <2>3. ASSUME NEW u \in PyObj, Proxies(u)
          PROVE  Proxies(u)' /\ this'[inst'[self[u]].this].own = this[inst[self[u]].this].own
        <3>1. CASE self[u] = i
            BY <1>0, <1>6, <1>7, <2>3, <3>1 DEF Proxies, t
        <3>2. CASE self[u] # i
            BY <1>0, <1>5, <1>7, <1>13, <2>3, <3>2 DEF Proxies
        <3> QED BY <3>1, <3>2
    <2> QED BY <1>0, <1>8, <2>1, <2>2, <2>3 DEF Directed
<1> QED BY <1>9, <1>12, <1>14, <1>15, <1>16, <1>17, <1>18 DEF PyInv

LEMMA OnlyTask ==
    ASSUME PyTypes, Len(pyTodo) = 1, NEW x, NEW y, Pending(x), Pending(y)
    PROVE  x = y
BY DEF PyTypes, Pending, ToSet

\* One task is done and nothing comes instead.
LEMMA JustDone ==
    ASSUME PyTypes, Tasks, NEW task, First(task), Instead(<<>>)
    PROVE  /\ pyTodo' \in Seq(Task) /\ Len(pyTodo') = Len(pyTodo) - 1
           /\ \A j, k \in 1..Len(pyTodo') : pyTodo'[j] = pyTodo'[k] => j = k
           /\ \A x : Pending(x)' <=> Pending(x) /\ x # task
           /\ Pending(task) /\ Len(pyTodo) \in Nat \ {0}
<1> DEFINE tasks == <<>>
<1>1. tasks \in Seq(Task) /\ Len(tasks) = 0 /\ ToSet(tasks) = {}
    BY DEF ToSet
<1>2. Instead(tasks)
    OBVIOUS
<1> HIDE DEF tasks
<1>3. /\ \A k \in 1..Len(tasks) : ~Pending(tasks[k])
      /\ \A j, k \in 1..Len(tasks) : tasks[j] = tasks[k] => j = k
    BY <1>1
<1>4. /\ pyTodo' \in Seq(Task) /\ Len(pyTodo') = Len(tasks) + Len(pyTodo) - 1
      /\ \A j, k \in 1..Len(pyTodo') : pyTodo'[j] = pyTodo'[k] => j = k
      /\ \A x : Pending(x)' <=> x \in ToSet(tasks) \/ (Pending(x) /\ x # task)
      /\ Pending(task) /\ Len(pyTodo) \in Nat \ {0}
    BY <1>1, <1>2, <1>3, TaskDone
<1>5. Len(pyTodo') = Len(pyTodo) - 1 /\ \A x : x \notin ToSet(tasks)
    BY <1>1, <1>4
<1> QED BY <1>4, <1>5

\* ... or one does.
LEMMA OneInstead ==
    ASSUME PyTypes, Tasks, NEW task, First(task), NEW t \in Task, Instead(<<t>>), ~Pending(t)
    PROVE  /\ pyTodo' \in Seq(Task) /\ Len(pyTodo') = Len(pyTodo)
           /\ \A j, k \in 1..Len(pyTodo') : pyTodo'[j] = pyTodo'[k] => j = k
           /\ \A x : Pending(x)' <=> x = t \/ (Pending(x) /\ x # task)
           /\ Pending(task) /\ Len(pyTodo) \in Nat \ {0}
<1> DEFINE tasks == <<t>>
<1>1. /\ tasks \in Seq(Task) /\ Len(tasks) = 1 /\ tasks[1] = t
      /\ \A x : x \in ToSet(tasks) <=> x = t
    BY DEF ToSet
<1>2. Instead(tasks)
    OBVIOUS
<1> HIDE DEF tasks
<1>3. /\ \A k \in 1..Len(tasks) : ~Pending(tasks[k])
      /\ \A j, k \in 1..Len(tasks) : tasks[j] = tasks[k] => j = k
    BY <1>1
<1>4. /\ pyTodo' \in Seq(Task) /\ Len(pyTodo') = Len(tasks) + Len(pyTodo) - 1
      /\ \A j, k \in 1..Len(pyTodo') : pyTodo'[j] = pyTodo'[k] => j = k
      /\ \A x : Pending(x)' <=> x \in ToSet(tasks) \/ (Pending(x) /\ x # task)
      /\ Pending(task) /\ Len(pyTodo) \in Nat \ {0}
    BY <1>1, <1>2, <1>3, TaskDone
<1> QED BY <1>1, <1>4

\* pyrun.swg, SwigPyObject_dealloc(): PyObject_DEL() of a structure that nothing refers to.
LEMMA FreeKeeps ==
    ASSUME TwoBases, PyInv, NEW s \in This, Free(s)
    PROVE  PyInv'
<1>0. /\ PyTypes /\ Tasks /\ First(PyObject_DEL(s)) /\ Instead(<<>>)
      /\ this' = [this EXCEPT ![s] = NULL]
      /\ UNCHANGED <<life, pyCpp, kept, self, pyDisowned, inst, pyHeld>>
    BY DEF PyInv, Free
<1>1. /\ pyTodo' \in Seq(Task) /\ Len(pyTodo') = Len(pyTodo) - 1
      /\ \A j, k \in 1..Len(pyTodo') : pyTodo'[j] = pyTodo'[k] => j = k
      /\ \A x : Pending(x)' <=> Pending(x) /\ x # PyObject_DEL(s)
      /\ Pending(PyObject_DEL(s)) /\ Len(pyTodo) \in Nat \ {0}
    BY <1>0, JustDone
<1>2. /\ \A j : Pending(DecrefInst(j))' <=> Pending(DecrefInst(j))
      /\ \A j : Pending(DecrefThis(j))' <=> Pending(DecrefThis(j))
      /\ \A j : Pending(Delete(j))' <=> Pending(Delete(j))
      /\ \A j : Pending(PyObject_DEL(j))' <=> Pending(PyObject_DEL(j)) /\ j # s
    <2>1. /\ \A j : DecrefInst(j) # PyObject_DEL(s) /\ DecrefThis(j) # PyObject_DEL(s)
          /\ \A j : Delete(j) # PyObject_DEL(s)
          /\ \A j : PyObject_DEL(j) = PyObject_DEL(s) <=> j = s
        BY TaskNames
    <2> QED BY <1>1, <2>1
<1>3. /\ this' \in [This -> {NULL} \cup [ptr : PyObj, own : BOOLEAN,
                                         next : This \cup {NULL}, rc : {1}]]
      /\ this'[s] = NULL /\ \A r \in This \ {s} : this'[r] = this[r]
    BY <1>0 DEF PyTypes
<1>4. /\ this[s] # NULL /\ ~this[s].own /\ ~Pending(DecrefThis(s))
      /\ \A j \in Inst : ~InstRef(j, s)
      /\ \A r \in This : ~LinkRef(r, s)
    <2>1. ReferredOnce(s) /\ CallRef(s)
        BY <1>1 DEF PyInv, OneReferrer, CallRef
    <2>2. this[s] # NULL /\ ~Pending(DecrefThis(s))
        BY <1>1, <2>1 DEF ReferredOnce
    <2>3. ~this[s].own
        BY <1>1, <2>2 DEF PyInv, OnePossessor
    <2> QED BY <2>1, <2>2, <2>3 DEF ReferredOnce
<1>5. PyTypes' /\ Tasks'
    <2>1. \A j \in Inst : ~Pending(DecrefInst(j))
        BY <1>0, <1>1, OnlyTask, TaskNames DEF Tasks
    <2>2. \A u \in pyDisowned : ~Pending(Delete(u))
        BY <1>0, <1>1, OnlyTask, TaskNames DEF Tasks, PyTypes
    <2> QED BY <1>0, <1>1, <1>2, <1>3, <2>1, <2>2 DEF PyTypes, Tasks
<1>6. OneReferrer'
    <2> SUFFICES ASSUME NEW r \in This PROVE ReferredOnce(r)'
        BY DEF OneReferrer
    <2>1. /\ \A j \in Inst : InstRef(j, r)' <=> InstRef(j, r)
          /\ \A q \in This : LinkRef(q, r)' <=> LinkRef(q, r)
        <3>1. \A j \in Inst : InstRef(j, r)' <=> InstRef(j, r)
            BY <1>0 DEF InstRef
        <3>2. ASSUME NEW q \in This PROVE LinkRef(q, r)' <=> LinkRef(q, r)
            <4>1. CASE q = s
                BY <1>1, <1>3, <4>1 DEF LinkRef
            <4>2. CASE q # s
                BY <1>2, <1>3, <4>2 DEF LinkRef
            <4> QED BY <4>1, <4>2
        <3> QED BY <3>1, <3>2
    <2>2. CASE r = s
        BY <1>2, <1>3, <1>4, <2>1, <2>2 DEF ReferredOnce, CallRef
    <2>3. CASE r # s
        <3>1. ReferredOnce(r) /\ (CallRef(r)' <=> CallRef(r)) /\ this'[r] = this[r]
            BY <1>2, <1>3, <2>3 DEF PyInv, OneReferrer, CallRef
        <3> QED BY <1>2, <2>1, <2>3, <3>1 DEF ReferredOnce
    <2> QED BY <2>2, <2>3
<1>7. \A j \in Inst : inst[j] # NULL =>
          /\ inst[j].this \in This \ {s}
          /\ this[inst[j].this].next \in This => this[inst[j].this].next # s
    <2> SUFFICES ASSUME NEW j \in Inst, inst[j] # NULL
                 PROVE  /\ inst[j].this \in This \ {s}
                        /\ this[inst[j].this].next \in This => this[inst[j].this].next # s
        OBVIOUS
    <2> QED BY <1>1, InChain
<1>8. Chains'
    <2> SUFFICES ASSUME NEW j \in Inst, inst[j] # NULL
                 PROVE  LET t == inst[j].this
                            n == this'[t].next
                        IN \/ n = NULL /\ inst[j].bases = {this'[t].ptr}
                           \/ /\ n \in This /\ inst[j].bases = {this'[t].ptr, this'[n].ptr}
                              /\ this'[n].next = NULL /\ this'[n].ptr # this'[t].ptr
        BY <1>0 DEF Chains
    <2> QED BY <1>3, <1>7 DEF PyInv, Chains
<1>9. OnePossessor'
    <2>1. \A r \in This : \A u : Owns(r, u)' <=> Owns(r, u)
        BY <1>3, <1>4 DEF Owns
    <2>2. ASSUME NEW u \in PyObj PROVE OwnedOnce(u)'
        <3>1. /\ \A d \in PyObj : Keeps(d, u)' <=> Keeps(d, u)
              /\ Left(u)' <=> Left(u)
            BY <1>0 DEF Keeps, Left
        <3> QED BY <1>0, <1>2, <2>1, <3>1 DEF PyInv, OnePossessor, OwnedOnce
    <2>3. \A r \in This : this'[r] # NULL /\ this'[r].own => ~Pending(PyObject_DEL(r))'
        BY <1>2, <1>3 DEF PyInv, OnePossessor
    <2> QED BY <2>2, <2>3 DEF OnePossessor
<1>10. Born'
    BY <1>0, <1>3 DEF PyInv, Born
<1>11. Counted'
    BY <1>0, <1>2 DEF PyInv, Counted, Count
<1>12. Directed'
    <2>1. ASSUME NEW u \in PyObj, Proxies(u)
          PROVE  Proxies(u)' /\ this'[inst[self[u]].this] = this[inst[self[u]].this]
        BY <1>0, <1>3, <1>7, <2>1 DEF Proxies
    <2>2. \A u \in pyDisowned : u \in PyObj
        BY <1>0 DEF PyTypes
    <2>3. \A r \in This : Pending(DecrefThis(r)) => this'[r] = this[r] /\ Pending(DecrefThis(r))'
        BY <1>2, <1>3, <1>4
    <2> QED BY <1>0, <1>2, <2>1, <2>2, <2>3 DEF PyInv, Directed
<1> QED BY <1>5, <1>6, <1>8, <1>9, <1>10, <1>11, <1>12 DEF PyInv

\* delete of an object; the one task that a disowned director leaves is the Py_DECREF
\* of its proxy.
LEMMA DestroyKeeps ==
    ASSUME TwoBases, PyInv, NEW o \in PyObj, Destroy(o)
    PROVE  PyInv'
<1>0. /\ PyTypes /\ Tasks /\ First(Delete(o))
      /\ UNCHANGED <<pyCpp, kept, self, this, inst, pyHeld>>
    BY DEF PyInv, Destroy
<1>1. Pending(Delete(o))
    BY <1>0 DEF First, Pending, ToSet, PyTypes
<1>2. /\ life[o] = "alive" /\ ~Left(o) /\ OwnedOnce(o) /\ o \notin pyCpp
      /\ \A r \in This : ~Owns(r, o)
      /\ \A d \in PyObj : ~Keeps(d, o)
    BY <1>1 DEF PyInv, OnePossessor, OwnedOnce
<1>3. /\ life' = [life EXCEPT ![o] = "dead"] /\ pyDisowned' = pyDisowned \ {o}
      /\ Instead(IF o \in pyDisowned THEN <<DecrefInst(self[o])>> ELSE <<>>)
    BY <1>2 DEF Destroy, PyAlive
<1>4. /\ life' \in [PyObj -> {"unborn", "alive", "dead"}] /\ life'[o] = "dead"
      /\ \A u \in PyObj \ {o} : life'[u] = life[u]
    BY <1>0, <1>3 DEF PyTypes
<1>5. o \in pyDisowned => /\ Len(pyTodo) = 1 /\ \A x : Pending(x) <=> x = Delete(o)
                          /\ Proxies(o) /\ self[o] \in Inst
    <2> HAVE o \in pyDisowned
    <2>1. Len(pyTodo) = 1
        BY <1>1 DEF PyInv, Tasks
    <2>2. \A x : Pending(x) <=> x = Delete(o)
        BY <1>0, <1>1, <2>1, OnlyTask
    <2>3. Proxies(o) /\ self[o] \in Inst
        BY DEF PyInv, Directed, Proxies
    <2> QED BY <2>1, <2>2, <2>3
<1>50. \A j \in Inst : ~Pending(DecrefInst(j))
    <2> SUFFICES ASSUME NEW j \in Inst, Pending(DecrefInst(j)) PROVE FALSE
        OBVIOUS
    <2>1. Len(pyTodo) = 1
        BY <1>0 DEF Tasks
    <2>2. DecrefInst(j) = Delete(o)
        BY <1>0, <1>1, <2>1, OnlyTask
    <2> QED BY <2>2, TaskNames
<1>6. /\ pyTodo' \in Seq(Task)
      /\ Len(pyTodo') = IF o \in pyDisowned THEN 1 ELSE Len(pyTodo) - 1
      /\ \A j, k \in 1..Len(pyTodo') : pyTodo'[j] = pyTodo'[k] => j = k
      /\ \A x : Pending(x)' <=> \/ o \in pyDisowned /\ x = DecrefInst(self[o])
                                \/ Pending(x) /\ x # Delete(o)
      /\ Len(pyTodo) \in Nat \ {0}
    <2>1. CASE o \in pyDisowned
        <3>1. DecrefInst(self[o]) \in Task /\ ~Pending(DecrefInst(self[o]))
            BY <1>5, <2>1, TaskNames
        <3>2. Instead(<<DecrefInst(self[o])>>)
            BY <1>3, <2>1
        <3> QED BY <1>0, <1>5, <2>1, <3>1, <3>2, OneInstead
    <2>2. CASE o \notin pyDisowned
        <3>1. Instead(<<>>)
            BY <1>3, <2>2
        <3> QED BY <1>0, <2>2, <3>1, JustDone
    <2> QED BY <2>1, <2>2
<1>7. /\ \A j : Pending(DecrefThis(j))' <=> Pending(DecrefThis(j))
      /\ \A j : Pending(PyObject_DEL(j))' <=> Pending(PyObject_DEL(j))
      /\ \A j : Pending(Delete(j))' <=> Pending(Delete(j)) /\ j # o
      /\ \A j \in Inst : Pending(DecrefInst(j))' <=> o \in pyDisowned /\ j = self[o]
    <2>1. \A j \in Inst : ~Pending(DecrefInst(j))
        BY <1>50
    <2>2. /\ \A j : DecrefThis(j) # DecrefInst(self[o]) /\ DecrefThis(j) # Delete(o)
          /\ \A j : PyObject_DEL(j) # DecrefInst(self[o]) /\ PyObject_DEL(j) # Delete(o)
          /\ \A j : Delete(j) # DecrefInst(self[o]) /\ (Delete(j) = Delete(o) <=> j = o)
          /\ \A j : DecrefInst(j) = DecrefInst(self[o]) <=> j = self[o]
        BY TaskNames
    <2>3. \A j : Pending(DecrefThis(j))' <=> Pending(DecrefThis(j))
        BY <1>6, <2>2
    <2>4. \A j : Pending(PyObject_DEL(j))' <=> Pending(PyObject_DEL(j))
        BY <1>6, <2>2
    <2>5. \A j : Pending(Delete(j))' <=> Pending(Delete(j)) /\ j # o
        BY <1>6, <2>2
    <2>6. \A j \in Inst : Pending(DecrefInst(j))' <=> o \in pyDisowned /\ j = self[o]
        BY <1>6, <2>1, <2>2
    <2> QED BY <2>3, <2>4, <2>5, <2>6
<1>8. PyTypes' /\ Tasks'
    <2>1. \A u \in pyDisowned \ {o} : ~Pending(Delete(u))
        BY <1>0, <1>1, OnlyTask, TaskNames DEF Tasks, PyTypes
    <2> QED BY <1>0, <1>3, <1>4, <1>6, <1>7, <2>1 DEF PyTypes, Tasks
<1>9. Same /\ OneReferrer' /\ Chains'
    <2>1. Same
        BY <1>0, <1>7 DEF Same
    <2> QED BY <2>1, SameStructures
<1>10. OnePossessor'
    <2>1. \A r \in This : \A u : Owns(r, u)' <=> Owns(r, u)
        BY <1>0 DEF Owns
    <2>2. \A d, u \in PyObj : Keeps(d, u)' <=> Keeps(d, u) /\ d # o
        BY <1>0, <1>4 DEF Keeps
    <2>3. \A u \in PyObj : Left(u)' <=> Left(u) \/ Keeps(o, u)
        BY <1>0, <1>2, <1>4 DEF Left, Keeps
    <2>4. ASSUME NEW u \in PyObj PROVE OwnedOnce(u)'
        <3>1. OwnedOnce(u)
            BY DEF PyInv, OnePossessor
        <3>2. CASE u = o
            BY <1>0, <1>2, <1>4, <1>7, <2>1, <2>2, <3>2 DEF OwnedOnce
        <3>3. CASE u # o /\ Keeps(o, u)
            <4>1. /\ \A r \in This : ~Owns(r, u)
                  /\ \A d \in PyObj : Keeps(d, u) <=> d = o
                  /\ u \notin pyCpp /\ ~Pending(Delete(u))
                BY <3>1, <3>3 DEF OwnedOnce
            <4> QED BY <1>0, <1>7, <2>1, <2>2, <2>3, <3>3, <4>1 DEF OwnedOnce
        <3>4. CASE u # o /\ ~Keeps(o, u)
            <4>1. /\ \A d \in PyObj : Keeps(d, u)' <=> Keeps(d, u)
                  /\ Left(u)' <=> Left(u)
                BY <2>2, <2>3, <3>4
            <4> QED BY <1>0, <1>4, <1>7, <2>1, <3>1, <3>4, <4>1 DEF OwnedOnce
        <3> QED BY <3>2, <3>3, <3>4
    <2> QED BY <1>0, <1>7, <2>4 DEF PyInv, OnePossessor
<1>11. Born'
    <2>1. \A u \in PyObj : life'[u] = "unborn" <=> life[u] = "unborn"
        BY <1>2, <1>4
    <2>2. \A r \in This : this[r] # NULL => this[r].ptr \in PyObj
        BY <1>0, Structures
    <2> QED BY <1>0, <2>1, <2>2 DEF PyInv, Born
<1>12. Counted'
    <2>1. \A u \in pyDisowned : self[u] = self[o] /\ o \in pyDisowned => u = o
        BY DEF PyInv, Directed, Proxies
    <2>2. \A j \in Inst : ~Pending(DecrefInst(j))
        BY <1>50
    <2>3. ASSUME NEW j \in Inst
          PROVE  (IF inst[j] = NULL THEN 0 ELSE inst[j].rc)
                 = Count(j \in pyHeld) + Count(\E u \in pyDisowned' : self[u] = j)
                   + Count(o \in pyDisowned /\ j = self[o])
        <3>1. (IF inst[j] = NULL THEN 0 ELSE inst[j].rc)
                 = Count(j \in pyHeld) + Count(\E u \in pyDisowned : self[u] = j)
            BY <2>2 DEF PyInv, Counted, Count
        <3>2. CASE o \in pyDisowned /\ j = self[o]
            <4>1. /\ \E u \in pyDisowned : self[u] = j
                  /\ ~(\E u \in pyDisowned' : self[u] = j)
                BY <1>3, <2>1, <3>2
            <4> QED BY <3>1, <3>2, <4>1 DEF Count
        <3>3. CASE ~(o \in pyDisowned /\ j = self[o])
            <4>1. (\E u \in pyDisowned' : self[u] = j) <=> (\E u \in pyDisowned : self[u] = j)
                BY <1>3, <3>3
            <4> QED BY <3>1, <3>3, <4>1 DEF Count
        <3> QED BY <3>2, <3>3
    <2> QED BY <1>0, <1>7, <2>3 DEF Counted, Count
<1>13. Directed'
    <2>1. \A u \in PyObj : Proxies(u)' <=> Proxies(u)
        BY <1>0 DEF Proxies
    <2>2. pyDisowned \subseteq PyObj
        BY <1>0 DEF PyTypes
    <2> QED BY <1>0, <1>3, <1>4, <1>7, <2>1, <2>2 DEF PyInv, Directed
<1> QED BY <1>8, <1>9, <1>10, <1>11, <1>12, <1>13 DEF PyInv

\* Py_DECREF of a proxy: the last one frees it and goes on with its structure.
LEMMA ReleaseInstKeeps ==
    ASSUME TwoBases, PyInv, NEW i \in Inst, ReleaseInst(i)
    PROVE  PyInv'
<1> DEFINE t == inst[i].this
<1>0. /\ PyTypes /\ Tasks /\ First(DecrefInst(i))
      /\ UNCHANGED <<life, pyCpp, kept, self, pyDisowned, this, pyHeld>>
    BY DEF PyInv, ReleaseInst
<1>1. Pending(DecrefInst(i)) /\ Len(pyTodo) = 1 /\ \A x : Pending(x) <=> x = DecrefInst(i)
    <2>1. Pending(DecrefInst(i))
        BY <1>0 DEF First, Pending, ToSet, PyTypes
    <2>2. Len(pyTodo) = 1
        BY <1>0, <2>1 DEF Tasks
    <2> QED BY <1>0, <2>1, <2>2, OnlyTask
<1>2. /\ \A j : Pending(DecrefInst(j)) <=> j = i
      /\ \A j : ~Pending(DecrefThis(j)) /\ ~Pending(PyObject_DEL(j)) /\ ~Pending(Delete(j))
    BY <1>1, TaskNames
<1>3. inst[i] # NULL /\ inst[i].rc \in Nat \ {0} /\ t \in This /\ this[t] # NULL
    <2>1. inst[i] # NULL
        BY <1>1 DEF PyInv, Counted, Count
    <2> QED BY <1>0, <2>1, Structures, InChain
<1>4. inst[i].rc = Count(i \in pyHeld) + Count(\E u \in pyDisowned : self[u] = i) + 1
    BY <1>1, <1>3 DEF PyInv, Counted, Count
<1> HIDE DEF t
<1>5. \A u \in pyDisowned : life[u] = "alive" /\ Proxies(u) /\ u \in pyCpp /\ u \in PyObj
    BY <1>0, <1>2 DEF PyInv, Directed, PyTypes
<1>6. \A u \in PyObj : life[u] = "alive" /\ self[u] # NULL =>
          Proxies(u) /\ (this[inst[self[u]].this].own \/ u \in pyDisowned)
    BY <1>2 DEF PyInv, Directed
<1>7. CASE inst[i].rc > 1
    <2>1. inst' = [inst EXCEPT ![i].rc = @ - 1] /\ Instead(<<>>)
        BY <1>7 DEF ReleaseInst
    <2>2. /\ pyTodo' \in Seq(Task) /\ Len(pyTodo') = 0 /\ \A x : ~Pending(x)'
        BY <1>0, <1>1, <2>1, JustDone
    <2>3. /\ inst' \in [Inst -> {NULL} \cup [this : This, rc : Nat \ {0}, bases : SUBSET PyObj]]
          /\ \A j \in Inst : /\ inst'[j] = NULL <=> inst[j] = NULL
                             /\ inst[j] # NULL => /\ inst'[j].this = inst[j].this
                                                  /\ inst'[j].bases = inst[j].bases
                             /\ j # i => inst'[j] = inst[j]
          /\ inst'[i].rc = inst[i].rc - 1
        <3>1. inst[i].rc + (-1) \in Nat \ {0} /\ inst[i].rc - 1 = inst[i].rc + (-1)
            BY <1>3, <1>7
        <3>2. inst' = [inst EXCEPT ![i].rc = @ + (-1)]
            BY <2>1, <3>1
        <3> QED BY <1>0, <1>3, <3>1, <3>2, CountSet
    <2>4. PyTypes' /\ Tasks'
        BY <1>0, <2>2, <2>3 DEF PyTypes, Tasks
    <2>5. Same /\ OneReferrer' /\ Chains'
        <3>1. Same
            BY <1>0, <1>2, <2>2, <2>3 DEF Same
        <3> QED BY <3>1, SameStructures
    <2>6. OnePossessor' /\ Born'
        BY <1>0, <1>2, <2>2 DEF PyInv, OnePossessor, OwnedOnce, Owns, Keeps, Left, Born
    <2>7. Counted'
        <3>1. ASSUME NEW j \in Inst
              PROVE  (IF inst'[j] = NULL THEN 0 ELSE inst'[j].rc)
                     = Count(j \in pyHeld) + Count(\E u \in pyDisowned : self[u] = j)
            <4>1. CASE j = i
                BY <1>3, <1>4, <2>3, <4>1 DEF Count
            <4>2. CASE j # i
                BY <1>2, <2>3, <4>2 DEF PyInv, Counted, Count
            <4> QED BY <4>1, <4>2
        <3> QED BY <1>0, <2>2, <3>1 DEF Counted, Count
    <2>8. Directed'
        <3>1. \A u \in PyObj : Proxies(u) => Proxies(u)' /\ inst'[self[u]].this = inst[self[u]].this
            BY <1>0, <2>5, SameProxies
        <3> QED BY <1>0, <1>5, <1>6, <3>1 DEF Directed
    <2> QED BY <2>4, <2>5, <2>6, <2>7, <2>8 DEF PyInv
<1>8. CASE ~(inst[i].rc > 1)
    <2>1. inst' = [inst EXCEPT ![i] = NULL] /\ Instead(<<DecrefThis(t)>>)
        BY <1>8 DEF ReleaseInst, t
    <2>2. /\ pyTodo' \in Seq(Task) /\ Len(pyTodo') = 1 /\ \A x : Pending(x)' <=> x = DecrefThis(t)
          /\ \A j, k \in 1..Len(pyTodo') : pyTodo'[j] = pyTodo'[k] => j = k
        <3>1. DecrefThis(t) \in Task /\ ~Pending(DecrefThis(t))
            BY <1>2, <1>3, TaskNames
        <3> QED BY <1>0, <1>1, <2>1, <3>1, OneInstead
    <2>3. /\ \A j : Pending(DecrefThis(j))' <=> j = t
          /\ \A j : ~Pending(DecrefInst(j))' /\ ~Pending(PyObject_DEL(j))' /\ ~Pending(Delete(j))'
        <3>1. /\ \A j : DecrefThis(j) = DecrefThis(t) <=> j = t
              /\ \A j : DecrefInst(j) # DecrefThis(t) /\ PyObject_DEL(j) # DecrefThis(t)
              /\ \A j : Delete(j) # DecrefThis(t)
            BY TaskNames
        <3> QED BY <2>2, <3>1
    <2>4. i \notin pyHeld /\ ~(\E u \in pyDisowned : self[u] = i)
        BY <1>3, <1>4, <1>8 DEF Count
    <2>5. /\ inst' \in [Inst -> {NULL} \cup [this : This, rc : Nat \ {0}, bases : SUBSET PyObj]]
          /\ inst'[i] = NULL /\ \A j \in Inst \ {i} : inst'[j] = inst[j]
        BY <1>0, <2>1 DEF PyTypes
    <2>6. PyTypes' /\ Tasks'
        BY <1>0, <2>2, <2>3, <2>5 DEF PyTypes, Tasks
    <2>7. OneReferrer'
        <3> SUFFICES ASSUME NEW r \in This PROVE ReferredOnce(r)'
            BY DEF OneReferrer
        <3>1. /\ \A j \in Inst : InstRef(j, r)' <=> InstRef(j, r) /\ j # i
              /\ InstRef(i, r) <=> r = t
              /\ \A q \in This : LinkRef(q, r)' <=> LinkRef(q, r)
            <4>1. \A j \in Inst : InstRef(j, r)' <=> InstRef(j, r) /\ j # i
                BY <2>5 DEF InstRef
            <4>2. InstRef(i, r) <=> r = t
                BY <1>3 DEF InstRef, t
            <4>3. \A q \in This : LinkRef(q, r)' <=> LinkRef(q, r)
                BY <1>0, <1>2, <2>3 DEF LinkRef
            <4> QED BY <4>1, <4>2, <4>3
        <3>2. ReferredOnce(r) /\ ~CallRef(r) /\ (CallRef(r)' <=> r = t)
            BY <1>2, <2>3 DEF PyInv, OneReferrer, CallRef
        <3>3. CASE r = t
            BY <1>0, <1>3, <2>3, <3>1, <3>2, <3>3 DEF ReferredOnce
        <3>4. CASE r # t
            BY <1>0, <2>3, <3>1, <3>2, <3>4 DEF ReferredOnce
        <3> QED BY <3>3, <3>4
    <2>8. Chains'
        BY <1>0, <2>5 DEF PyInv, Chains
    <2>9. OnePossessor' /\ Born'
        BY <1>0, <1>2, <2>3 DEF PyInv, OnePossessor, OwnedOnce, Owns, Keeps, Left, Born
    <2>10. Counted'
        <3>1. ASSUME NEW j \in Inst
              PROVE  (IF inst'[j] = NULL THEN 0 ELSE inst'[j].rc)
                     = Count(j \in pyHeld) + Count(\E u \in pyDisowned : self[u] = j)
            <4>1. CASE j = i
                BY <2>4, <2>5, <4>1 DEF Count
            <4>2. CASE j # i
                BY <1>2, <2>5, <4>2 DEF PyInv, Counted, Count
            <4> QED BY <4>1, <4>2
        <3> QED BY <1>0, <2>3, <3>1 DEF Counted, Count
    <2>11. Directed'
        <3>1. \A u \in PyObj : Proxies(u) /\ self[u] # i =>
                  Proxies(u)' /\ inst'[self[u]].this = inst[self[u]].this
            BY <1>0, <2>5 DEF Proxies
        <3>2. \A u \in pyDisowned : self[u] # i
            BY <2>4
        <3>3. ASSUME NEW u \in PyObj, life[u] = "alive", self[u] = i, self[u] # NULL
              PROVE  this[t].own /\ this[t].ptr = u
            <4>1. u \notin pyDisowned
                BY <3>2, <3>3
            <4>2. Proxies(u) /\ this[inst[self[u]].this].own
                BY <1>6, <3>3, <4>1
            <4> QED BY <3>3, <4>2 DEF Proxies, t
        <3>4. \A u \in pyDisowned' : /\ life'[u] = "alive" /\ Proxies(u)'
                                     /\ u \in pyCpp' \/ Pending(Delete(u))'
            BY <1>0, <1>5, <3>1, <3>2
        <3>5. ASSUME NEW u \in PyObj, life'[u] = "alive", self'[u] # NULL
              PROVE  \/ \E r \in This : /\ Pending(DecrefThis(r))'
                                        /\ this'[r] # NULL /\ this'[r].own /\ this'[r].ptr = u
                     \/ Proxies(u)' /\ (this'[inst'[self'[u]].this].own \/ u \in pyDisowned')
            <4>1. CASE self[u] = i
                <5>1. this[t].own /\ this[t].ptr = u
                    BY <1>0, <3>3, <3>5, <4>1
                <5> QED BY <1>0, <1>3, <2>3, <5>1
            <4>2. CASE self[u] # i
                BY <1>0, <1>6, <3>1, <3>5, <4>2
            <4> QED BY <4>1, <4>2
        <3> QED BY <3>4, <3>5 DEF Directed
    <2> QED BY <2>6, <2>7, <2>8, <2>9, <2>10, <2>11 DEF PyInv
<1> QED BY <1>7, <1>8

\* A task or none, and tasks in order.
Distinct(p) == \A j, k \in 1..Len(p) : p[j] = p[k] => j = k

LEMMA Perhaps ==
    ASSUME NEW b \in BOOLEAN, NEW x, b => x \in Task, NEW p, p = IF b THEN <<x>> ELSE <<>>
    PROVE  /\ p \in Seq(Task)
           /\ Distinct(p)
           /\ \A y : y \in ToSet(p) <=> b /\ y = x
<1>1. CASE b
    <2>1. p \in Seq(Task) /\ Len(p) = 1 /\ p[1] = x /\ DOMAIN p = 1..1
        BY <1>1
    <2> QED BY <1>1, <2>1 DEF ToSet, Distinct
<1>2. CASE ~b
    <2>1. p \in Seq(Task) /\ Len(p) = 0 /\ DOMAIN p = {}
        BY <1>2
    <2> QED BY <1>2, <2>1 DEF ToSet, Distinct
<1> QED BY <1>1, <1>2

LEMMA Joined ==
    ASSUME NEW p \in Seq(Task), NEW q \in Seq(Task), NEW pq, pq = p \o q,
           Distinct(p),
           Distinct(q),
           \A x \in ToSet(p) : x \notin ToSet(q)
    PROVE  /\ pq \in Seq(Task)
           /\ Distinct(pq)
           /\ \A x : x \in ToSet(pq) <=> x \in ToSet(p) \/ x \in ToSet(q)
<1> DEFINE l == Len(p)
           m == Len(q)
<1>1. /\ l \in Nat /\ m \in Nat /\ pq \in Seq(Task) /\ Len(pq) = l + m
      /\ \A k \in 1..l : pq[k] = p[k]
      /\ \A k \in 1..m : pq[l + k] = q[k]
      /\ DOMAIN p = 1..l /\ DOMAIN q = 1..m /\ DOMAIN pq = 1..(l + m)
    OBVIOUS
<1>2. /\ \A x : x \in ToSet(p) <=> \E k \in 1..l : p[k] = x
      /\ \A x : x \in ToSet(q) <=> \E k \in 1..m : q[k] = x
      /\ \A x : x \in ToSet(pq) <=> \E k \in 1..(l + m) : pq[k] = x
    BY <1>1 DEF ToSet
<1>3. /\ \A j, k \in 1..l : p[j] = p[k] => j = k
      /\ \A j, k \in 1..m : q[j] = q[k] => j = k
    BY DEF Distinct
<1> HIDE DEF l, m
<1>4. \A k \in 1..(l + m) : k \in 1..l \/ (k - l \in 1..m /\ l + (k - l) = k)
    BY <1>1
<1>5. \A k \in 1..m : l + k \in 1..(l + m)
    BY <1>1
<1>6. \A k \in 1..l : k \in 1..(l + m)
    BY <1>1
<1>7. ASSUME NEW x PROVE x \in ToSet(pq) <=> x \in ToSet(p) \/ x \in ToSet(q)
    <2>1. ASSUME x \in ToSet(pq) PROVE x \in ToSet(p) \/ x \in ToSet(q)
        <3>1. PICK k \in 1..(l + m) : pq[k] = x
            BY <1>2, <2>1
        <3>2. CASE k \in 1..l
            BY <1>1, <1>2, <3>1, <3>2
        <3>3. CASE k - l \in 1..m /\ l + (k - l) = k
            <4>1. q[k - l] = x
                BY <1>1, <3>1, <3>3
            <4> QED BY <1>2, <3>3, <4>1
        <3> QED BY <1>4, <3>2, <3>3
    <2>2. ASSUME x \in ToSet(p) PROVE x \in ToSet(pq)
        BY <1>1, <1>2, <1>6, <2>2
    <2>3. ASSUME x \in ToSet(q) PROVE x \in ToSet(pq)
        <3>1. PICK k \in 1..m : q[k] = x
            BY <1>2, <2>3
        <3> QED BY <1>1, <1>2, <1>5, <3>1
    <2> QED BY <2>1, <2>2, <2>3
<1>8. ASSUME NEW j \in 1..(l + m), NEW k \in 1..(l + m), pq[j] = pq[k] PROVE j = k
    <2>1. CASE j \in 1..l /\ k \in 1..l
        BY <1>1, <1>3, <1>8, <2>1
    <2>2. CASE /\ j - l \in 1..m /\ l + (j - l) = j
               /\ k - l \in 1..m /\ l + (k - l) = k
        <3>1. q[j - l] = q[k - l]
            BY <1>1, <1>8, <2>2
        <3>2. j - l = k - l
            BY <1>3, <2>2, <3>1
        <3> QED BY <2>2, <3>2
    <2>3. \A a \in 1..l, b \in 1..m : pq[a] # pq[l + b]
        BY <1>1, <1>2
    <2> QED BY <1>4, <1>8, <2>1, <2>2, <2>3
<1> QED BY <1>1, <1>7, <1>8 DEF Distinct

\* pyrun.swg, SwigPyObject_dealloc(): what it leaves to be done.
StillToDo(s, o, n, own) ==
    (IF own THEN <<Delete(o)>> ELSE <<>>)
    \o (IF n # NULL THEN <<DecrefThis(n)>> ELSE <<>>) \o <<PyObject_DEL(s)>>

LEMMA DeallocTasks ==
    ASSUME NEW s \in This, NEW o \in PyObj, NEW n \in This \cup {NULL}, NULL \notin This,
           NEW own \in BOOLEAN, n # s, NEW tasks, tasks = StillToDo(s, o, n, own)
    PROVE  /\ tasks \in Seq(Task)
           /\ \A j, k \in 1..Len(tasks) : tasks[j] = tasks[k] => j = k
           /\ \A x : x \in ToSet(tasks) <=> \/ own /\ x = Delete(o)
                                            \/ n # NULL /\ x = DecrefThis(n)
                                            \/ x = PyObject_DEL(s)
           /\ \A k \in 1..Len(tasks) : tasks[k] \in ToSet(tasks)
<1> DEFINE linked == n # NULL
           a == Delete(o)
           b == DecrefThis(n)
           c == PyObject_DEL(s)
           first == IF own THEN <<a>> ELSE <<>>
           second == IF linked THEN <<b>> ELSE <<>>
           third == <<c>>
           both == first \o second
<1>1. /\ a \in Task /\ c \in Task /\ (linked => b \in Task) /\ linked \in BOOLEAN
      /\ a # b /\ a # c /\ b # c
    BY TaskNames
<1>2. tasks = both \o third /\ both = first \o second /\ (linked <=> n # NULL)
    BY DEF StillToDo
<1>3. /\ first = IF own THEN <<a>> ELSE <<>>
      /\ second = IF linked THEN <<b>> ELSE <<>>
    OBVIOUS
<1>4. /\ third \in Seq(Task) /\ Len(third) = 1 /\ third[1] = c
      /\ \A y : y \in ToSet(third) <=> y = c
    <2>1. third \in Seq(Task) /\ Len(third) = 1 /\ third[1] = c /\ DOMAIN third = 1..1
        BY <1>1
    <2> HIDE DEF third
    <2> QED BY <2>1 DEF ToSet
<1>5. Distinct(third)
    BY <1>4 DEF Distinct
<1> HIDE DEF linked, first, second, third, both
<1> HIDE DEF a, b, c
<1>6. /\ first \in Seq(Task)
      /\ Distinct(first)
      /\ \A y : y \in ToSet(first) <=> own /\ y = a
    BY <1>1, <1>3, Perhaps
<1>7. /\ second \in Seq(Task)
      /\ Distinct(second)
      /\ \A y : y \in ToSet(second) <=> linked /\ y = b
    BY <1>1, <1>3, Perhaps
<1>8. \A x \in ToSet(first) : x \notin ToSet(second)
    BY <1>1, <1>6, <1>7
<1>9. /\ both \in Seq(Task)
      /\ Distinct(both)
      /\ \A x : x \in ToSet(both) <=> x \in ToSet(first) \/ x \in ToSet(second)
    <2>1. /\ first \in Seq(Task) /\ second \in Seq(Task) /\ both = first \o second
          /\ Distinct(first)
          /\ Distinct(second)
        BY <1>2, <1>6, <1>7
    <2> QED BY <1>8, <2>1, Joined
<1>10. \A x \in ToSet(both) : x \notin ToSet(third)
    BY <1>1, <1>4, <1>6, <1>7, <1>9
<1>11. /\ tasks \in Seq(Task)
       /\ Distinct(tasks)
       /\ \A x : x \in ToSet(tasks) <=> x \in ToSet(both) \/ x \in ToSet(third)
    BY <1>2, <1>4, <1>5, <1>9, <1>10, Joined
<1>12. \A x : x \in ToSet(tasks) <=> \/ own /\ x = Delete(o)
                                     \/ n # NULL /\ x = DecrefThis(n)
                                     \/ x = PyObject_DEL(s)
    <2>1. \A x : x \in ToSet(tasks) <=> (own /\ x = a) \/ (linked /\ x = b) \/ x = c
        BY <1>4, <1>6, <1>7, <1>9, <1>11
    <2> QED BY <1>2, <2>1 DEF a, b, c
<1>13. \A k \in 1..Len(tasks) : tasks[k] \in ToSet(tasks)
    <2>1. DOMAIN tasks = 1..Len(tasks)
        BY <1>11
    <2> QED BY <2>1 DEF ToSet
<1> QED BY <1>11, <1>12, <1>13 DEF Distinct

\* Py_DECREF of a structure: it is always the last one.
LEMMA ReleaseThisKeeps ==
    ASSUME TwoBases, PyInv, NEW s \in This, ReleaseThis(s)
    PROVE  PyInv'
<1> DEFINE o == this[s].ptr
           n == this[s].next
           own == this[s].own
<1>0. /\ PyTypes /\ Tasks /\ First(DecrefThis(s)) /\ NULL \notin This
      /\ UNCHANGED <<life, pyCpp, kept, self, pyDisowned, inst, pyHeld>>
    BY DEF PyInv, ReleaseThis, TwoBases
<1>1. Pending(DecrefThis(s))
    BY <1>0 DEF First, Pending, ToSet, PyTypes
<1>2. /\ this[s] # NULL /\ ~Pending(PyObject_DEL(s))
      /\ \A j \in Inst : ~InstRef(j, s)
      /\ \A r \in This : ~LinkRef(r, s)
    BY <1>1 DEF PyInv, OneReferrer, ReferredOnce, CallRef
<1>3. o \in PyObj /\ n \in This \cup {NULL} /\ own \in BOOLEAN /\ this[s].rc = 1 /\ n # s
    <2>1. n # s
        BY <1>2 DEF LinkRef
    <2> QED BY <1>0, <1>2, <2>1, Structures
<1>4. /\ this' = [this EXCEPT ![s].own = FALSE]
      /\ Instead(StillToDo(s, o, n, own))
    BY <1>3 DEF ReleaseThis, SwigPyObject_dealloc, StillToDo
<1>5. own => /\ OwnedOnce(o) /\ Owns(s, o) /\ ~Pending(Delete(o)) /\ o \notin pyCpp
             /\ o \notin pyDisowned /\ \A d \in PyObj : ~Keeps(d, o)
    <2> HAVE own
    <2>1. OwnedOnce(o) /\ Owns(s, o)
        BY <1>2, <1>3 DEF PyInv, OnePossessor, Owns
    <2>2. ~Pending(Delete(o)) /\ o \notin pyCpp /\ \A d \in PyObj : ~Keeps(d, o)
        BY <2>1 DEF OwnedOnce
    <2> QED BY <2>1, <2>2 DEF PyInv, Directed
<1>6. n # NULL => /\ n \in This /\ ~Pending(DecrefThis(n)) /\ LinkRef(s, n)
                  /\ ReferredOnce(n) /\ ~Pending(PyObject_DEL(n))
    <2> HAVE n # NULL
    <2>1. n \in This /\ LinkRef(s, n) /\ ReferredOnce(n)
        BY <1>2, <1>3 DEF PyInv, OneReferrer, LinkRef
    <2> QED BY <2>1 DEF ReferredOnce, CallRef
<1>7. /\ this' \in [This -> {NULL} \cup [ptr : PyObj, own : BOOLEAN, next : This \cup {NULL},
                                         rc : {1}]]
      /\ \A r \in This : /\ this'[r] = NULL <=> this[r] = NULL
                         /\ this[r] # NULL => /\ this'[r].next = this[r].next
                                              /\ this'[r].ptr = this[r].ptr
                         /\ r # s => this'[r] = this[r]
      /\ this'[s].own = FALSE
    BY <1>0, <1>2, <1>4, OwnSet
<1> HIDE DEF o, n, own
<1> DEFINE tasks == StillToDo(s, o, n, own)
<1>9. /\ Instead(tasks)
      /\ tasks = StillToDo(s, o, n, own)
    BY <1>4
<1> HIDE DEF tasks
<1>8. /\ tasks \in Seq(Task)
      /\ \A j, k \in 1..Len(tasks) : tasks[j] = tasks[k] => j = k
      /\ \A x : x \in ToSet(tasks) <=> \/ own /\ x = Delete(o)
                                       \/ n # NULL /\ x = DecrefThis(n)
                                       \/ x = PyObject_DEL(s)
      /\ \A k \in 1..Len(tasks) : tasks[k] \in ToSet(tasks)
    <2>1. /\ o \in PyObj /\ n \in This \cup {NULL} /\ NULL \notin This
          /\ own \in BOOLEAN /\ n # s
        BY <1>0, <1>3 DEF o, n, own
    <2> QED BY <1>9, <2>1, DeallocTasks
<1>10. \A k \in 1..Len(tasks) : ~Pending(tasks[k])
    BY <1>2, <1>5, <1>6, <1>8
<1>11. /\ pyTodo' \in Seq(Task)
       /\ \A j, k \in 1..Len(pyTodo') : pyTodo'[j] = pyTodo'[k] => j = k
       /\ \A x : Pending(x)' <=> x \in ToSet(tasks) \/ (Pending(x) /\ x # DecrefThis(s))
    BY <1>0, <1>8, <1>9, <1>10, TaskDone
<1>12. /\ \A j : Pending(DecrefInst(j))' <=> Pending(DecrefInst(j))
       /\ \A j : Pending(Delete(j))' <=> (own /\ j = o) \/ Pending(Delete(j))
       /\ \A j : Pending(DecrefThis(j))' <=> \/ n # NULL /\ j = n
                                             \/ Pending(DecrefThis(j)) /\ j # s
       /\ \A j : Pending(PyObject_DEL(j))' <=> j = s \/ Pending(PyObject_DEL(j))
    <2>1. /\ \A j : /\ DecrefInst(j) # Delete(o) /\ DecrefInst(j) # DecrefThis(n)
                    /\ DecrefInst(j) # PyObject_DEL(s) /\ DecrefInst(j) # DecrefThis(s)
          /\ \A j : /\ Delete(j) = Delete(o) <=> j = o
                    /\ Delete(j) # DecrefThis(n) /\ Delete(j) # PyObject_DEL(s)
                    /\ Delete(j) # DecrefThis(s)
          /\ \A j : /\ DecrefThis(j) = DecrefThis(n) <=> j = n
                    /\ DecrefThis(j) = DecrefThis(s) <=> j = s
                    /\ DecrefThis(j) # Delete(o) /\ DecrefThis(j) # PyObject_DEL(s)
          /\ \A j : /\ PyObject_DEL(j) = PyObject_DEL(s) <=> j = s
                    /\ PyObject_DEL(j) # Delete(o) /\ PyObject_DEL(j) # DecrefThis(n)
                    /\ PyObject_DEL(j) # DecrefThis(s)
        BY TaskNames
    <2>2. \A j : Pending(DecrefInst(j))' <=> Pending(DecrefInst(j))
        BY <1>8, <1>11, <2>1
    <2>3. \A j : Pending(Delete(j))' <=> (own /\ j = o) \/ Pending(Delete(j))
        BY <1>8, <1>11, <2>1
    <2>4. \A j : Pending(DecrefThis(j))' <=> \/ n # NULL /\ j = n
                                             \/ Pending(DecrefThis(j)) /\ j # s
        BY <1>3, <1>8, <1>11, <2>1 DEF n
    <2>5. \A j : Pending(PyObject_DEL(j))' <=> j = s \/ Pending(PyObject_DEL(j))
        BY <1>8, <1>11, <2>1
    <2> QED BY <2>2, <2>3, <2>4, <2>5
<1>13. PyTypes' /\ Tasks'
    <2>1. \A j \in Inst : ~Pending(DecrefInst(j))
        <3> SUFFICES ASSUME NEW j \in Inst, Pending(DecrefInst(j)) PROVE FALSE
            OBVIOUS
        <3>1. DecrefInst(j) = DecrefThis(s)
            BY <1>0, <1>1, OnlyTask DEF Tasks
        <3> QED BY <3>1, TaskNames
    <2>2. \A u \in pyDisowned : ~Pending(Delete(u))
        <3> SUFFICES ASSUME NEW u \in pyDisowned, Pending(Delete(u)) PROVE FALSE
            OBVIOUS
        <3>1. Delete(u) = DecrefThis(s)
            BY <1>0, <1>1, OnlyTask DEF Tasks, PyTypes
        <3> QED BY <3>1, TaskNames
    <2> QED BY <1>0, <1>5, <1>7, <1>11, <1>12, <2>1, <2>2 DEF PyTypes, Tasks
<1>14. OneReferrer'
    <2> SUFFICES ASSUME NEW r \in This PROVE ReferredOnce(r)'
        BY DEF OneReferrer
    <2>1. ReferredOnce(r)
        BY DEF PyInv, OneReferrer
    <2>2. /\ \A j \in Inst : InstRef(j, r)' <=> InstRef(j, r)
          /\ \A q \in This : LinkRef(q, r)' <=> LinkRef(q, r) /\ q # s
        <3>1. \A j \in Inst : InstRef(j, r)' <=> InstRef(j, r)
            BY <1>0 DEF InstRef
        <3>2. \A q \in This : LinkRef(q, r)' <=> LinkRef(q, r) /\ q # s
            BY <1>7, <1>12 DEF LinkRef
        <3> QED BY <3>1, <3>2
    <2>3. CASE r = s
        <3>1. Pending(PyObject_DEL(r))' /\ ~Pending(DecrefThis(r))'
            BY <1>3, <1>12, <2>3 DEF n
        <3>2. this'[r] # NULL
            BY <1>2, <1>7, <2>3
        <3> QED BY <1>2, <2>2, <2>3, <3>1, <3>2 DEF ReferredOnce, CallRef
    <2>4. CASE n # NULL /\ r = n
        <3>1. Pending(DecrefThis(r))' /\ ~Pending(PyObject_DEL(r))'
            BY <1>3, <1>6, <1>12, <2>4 DEF n
        <3>2. /\ LinkRef(s, r) /\ \A j \in Inst : ~InstRef(j, r)
              /\ \A q \in This : LinkRef(q, r) => q = s
              /\ this'[r] # NULL
            BY <1>6, <1>7, <2>1, <2>4 DEF ReferredOnce
        <3> QED BY <2>2, <3>1, <3>2 DEF ReferredOnce, CallRef
    <2>5. CASE r # s /\ ~(n # NULL /\ r = n)
        <3>1. ~LinkRef(s, r)
            BY <1>0, <2>5 DEF LinkRef, n
        <3>2. /\ Pending(DecrefThis(r))' <=> Pending(DecrefThis(r))
              /\ Pending(PyObject_DEL(r))' <=> Pending(PyObject_DEL(r))
            BY <1>12, <2>5
        <3>3. \A q \in This : LinkRef(q, r)' <=> LinkRef(q, r)
            BY <2>2, <3>1
        <3>4. this'[r] # NULL <=> this[r] # NULL
            BY <1>7
        <3> QED BY <2>1, <2>2, <3>2, <3>3, <3>4 DEF ReferredOnce, CallRef
    <2> QED BY <2>3, <2>4, <2>5
<1>15. \A j \in Inst : inst[j] # NULL =>
          /\ inst[j].this \in This \ {s} /\ this[inst[j].this] # NULL
          /\ this[inst[j].this].next \in This => this[this[inst[j].this].next] # NULL
    BY <1>1, InChain
<1>16. Chains'
    <2> SUFFICES ASSUME NEW j \in Inst, inst[j] # NULL
                 PROVE  LET t == inst[j].this
                            m == this'[t].next
                        IN \/ m = NULL /\ inst[j].bases = {this'[t].ptr}
                           \/ /\ m \in This /\ inst[j].bases = {this'[t].ptr, this'[m].ptr}
                              /\ this'[m].next = NULL /\ this'[m].ptr # this'[t].ptr
        BY <1>0 DEF Chains
    <2> QED BY <1>7, <1>15 DEF PyInv, Chains
<1>17. OnePossessor'
    <2>1. ASSUME NEW u \in PyObj PROVE OwnedOnce(u)'
        <3>1. OwnedOnce(u)
            BY DEF PyInv, OnePossessor
        <3>2. /\ \A d \in PyObj : Keeps(d, u)' <=> Keeps(d, u)
              /\ Left(u)' <=> Left(u)
            BY <1>0 DEF Keeps, Left
        <3>3. CASE own /\ u = o
            <4>1. \A r \in This : Owns(r, u)' <=> FALSE
                BY <1>5, <1>7, <3>3 DEF OwnedOnce, Owns
            <4>2. life[u] = "alive" /\ ~Left(u) /\ u \notin pyCpp /\ \A d \in PyObj : ~Keeps(d, u)
                BY <1>5, <3>1, <3>3 DEF OwnedOnce
            <4> QED BY <1>0, <1>12, <3>2, <3>3, <4>1, <4>2 DEF OwnedOnce
        <3>4. CASE ~(own /\ u = o)
            <4>1. \A r \in This : Owns(r, u)' <=> Owns(r, u)
                <5>1. ~Owns(s, u) /\ ~Owns(s, u)'
                    BY <1>7, <3>4 DEF Owns, own, o
                <5>2. \A r \in This \ {s} : Owns(r, u)' <=> Owns(r, u)
                    BY <1>7 DEF Owns
                <5> QED BY <5>1, <5>2
            <4> QED BY <1>0, <1>12, <3>1, <3>2, <3>4, <4>1 DEF OwnedOnce
        <3> QED BY <3>3, <3>4
    <2>2. \A r \in This : this'[r] # NULL /\ this'[r].own => ~Pending(PyObject_DEL(r))'
        BY <1>7, <1>12 DEF PyInv, OnePossessor
    <2> QED BY <2>1, <2>2 DEF OnePossessor
<1>18. Born'
    BY <1>0, <1>7 DEF PyInv, Born
<1>19. Counted'
    BY <1>0, <1>12 DEF PyInv, Counted, Count
<1>20. Directed'
    <2>1. ASSUME NEW u \in PyObj, Proxies(u)
          PROVE  Proxies(u)' /\ this'[inst[self[u]].this] = this[inst[self[u]].this]
        BY <1>0, <1>7, <1>15, <2>1 DEF Proxies
    <2>2. \A u \in pyDisowned' : /\ life'[u] = "alive" /\ Proxies(u)'
                                 /\ u \in pyCpp' \/ Pending(Delete(u))'
        BY <1>0, <1>12, <2>1 DEF PyInv, Directed, PyTypes
    <2>3. ASSUME NEW u \in PyObj, life[u] = "alive", self[u] # NULL
          PROVE  \/ Pending(Delete(u))'
                 \/ \E r \in This : /\ Pending(DecrefThis(r))'
                                    /\ this'[r] # NULL /\ this'[r].own /\ this'[r].ptr = u
                 \/ Proxies(u)' /\ (this'[inst[self[u]].this].own \/ u \in pyDisowned)
        <3>1. CASE Pending(Delete(u))
            BY <1>12, <3>1
        <3>2. ASSUME NEW r \in This, Pending(DecrefThis(r)), this[r] # NULL, this[r].own,
                     this[r].ptr = u
              PROVE  \/ Pending(Delete(u))'
                     \/ /\ Pending(DecrefThis(r))'
                        /\ this'[r] # NULL /\ this'[r].own /\ this'[r].ptr = u
            <4>1. CASE r = s
                BY <1>12, <3>2, <4>1 DEF o, own
            <4>2. CASE r # s
                BY <1>7, <1>12, <3>2, <4>2
            <4> QED BY <4>1, <4>2
        <3>3. CASE Proxies(u) /\ (this[inst[self[u]].this].own \/ u \in pyDisowned)
            BY <2>1, <3>3
        <3> QED BY <2>3, <3>1, <3>2, <3>3 DEF PyInv, Directed
    <2> QED BY <1>0, <2>2, <2>3 DEF Directed
<1> QED BY <1>13, <1>14, <1>16, <1>17, <1>18, <1>19, <1>20 DEF PyInv

LEMMA PyKeeps == ASSUME TwoBases PROVE PyInv /\ [PyNext]_pyVars => PyInv'
<1> SUFFICES ASSUME PyInv, [PyNext]_pyVars PROVE PyInv'
    OBVIOUS
<1>1. CASE UNCHANGED pyVars
    <2>1. \A x : Pending(x)' <=> Pending(x)
        BY <1>1 DEF pyVars, Pending
    <2>2. PyTypes' /\ Tasks'
        BY <1>1 DEF pyVars, PyInv, PyTypes, Tasks, Pending
    <2>3. OneReferrer' /\ Chains'
        BY <1>1, <2>1 DEF pyVars, PyInv, OneReferrer, ReferredOnce, InstRef, LinkRef, CallRef,
                         Chains
    <2>4. OnePossessor' /\ Born'
        BY <1>1, <2>1 DEF pyVars, PyInv, OnePossessor, OwnedOnce, Owns, Keeps, Left, Born
    <2>5. Counted' /\ Directed'
        BY <1>1, <2>1 DEF pyVars, PyInv, Counted, Directed, Proxies
    <2> QED BY <2>2, <2>3, <2>4, <2>5 DEF PyInv
<1>2. CASE PyNext
    <2>1. ASSUME NEW i \in Inst, NEW o \in PyObj,
                 \/ \E director \in BOOLEAN : InitShadowInstance(i, o, director)
                 \/ InitBase(i, o)
                 \/ ReturnOwned(i, o)
                 \/ ReturnPointer(i, o)
                 \/ \E d \in PyObj : DirectorFree(d, i, o)
          PROVE  PyInv'
        BY <2>1, InitKeeps, InitBaseKeeps, ReturnOwnedKeeps, ReturnPointerKeeps, DirectorFreeKeeps
    <2>2. ASSUME NEW i \in Inst, NEW s \in This, NEW ok \in IF ArgsFail THEN BOOLEAN ELSE {TRUE},
                 Pass(i, s, ok)
          PROVE  PyInv'
        <3>1. ok = TRUE
            BY DEF TwoBases
        <3>2. Pass(i, s, TRUE)
            BY <2>2, <3>1
        <3> QED BY <3>2, PassKeeps
    <2>3. ASSUME NEW i \in Inst,
                 \/ Acquire(i)
                 \/ Disown(i)
                 \/ \E d \in PyObj : DirectorOut(d, i)
                 \/ Drop(i)
                 \/ ReleaseInst(i)
          PROVE  PyInv'
        BY <2>3, AcquireKeeps, DisownKeeps, DirectorOutKeeps, DropKeeps, ReleaseInstKeeps
    <2>4. ASSUME NEW s \in This, ReleaseThis(s) \/ Free(s)
          PROVE  PyInv'
        BY <2>4, ReleaseThisKeeps, FreeKeeps
    <2>5. ASSUME NEW o \in PyObj, ReturnDirector(o) \/ CppDeletes(o) \/ Destroy(o)
          PROVE  PyInv'
        BY <2>5, ReturnDirectorKeeps, CppDeletesKeeps, DestroyKeeps
    <2> QED BY <1>2, <2>1, <2>2, <2>3, <2>4, <2>5 DEF PyNext
<1> QED BY <1>1, <1>2

LEMMA AlwaysPyInv == ASSUME TwoBases PROVE PySpec => []PyInv
BY PyStarts, PyKeeps, PTL DEF PySpec

LEMMA AtMostOne ==
    ASSUME NEW S, \A x, y \in S : x = y
    PROVE  Cardinality(S) = IF S = {} THEN 0 ELSE 1
<1>1. CASE S = {}
    BY <1>1, FS_EmptySet
<1>2. CASE S # {}
    <2>1. PICK x : x \in S
        BY <1>2
    <2>2. S = {x}
        BY <2>1
    <2> QED BY <1>2, <2>2, FS_Singleton
<1> QED BY <1>1, <1>2

\* pyrun.swg, director.swg: one party, and not two, has to destroy an object.
THEOREM OwnersStay == ASSUME TwoBases PROVE PySpec => []OneOwner
<1>1. ASSUME PyInv PROVE OneOwner
    <2> USE <1>1
    <2> SUFFICES ASSUME NEW o \in PyObj
                 PROVE  Cardinality({s \in InMemory(this) : this[s].own /\ this[s].ptr = o})
                        + Cardinality({d \in PyAlive : o \in kept[d]})
                        + Count(o \in pyCpp) + Count(Pending(Delete(o)))
                        = Count(o \in PyAlive \ Abandoned)
        BY DEF OneOwner
    <2> DEFINE A == {s \in InMemory(this) : this[s].own /\ this[s].ptr = o}
               B == {d \in PyAlive : o \in kept[d]}
    <2>1. OwnedOnce(o)
        BY DEF PyInv, OnePossessor
    <2>2. /\ \A s : s \in A <=> s \in This /\ Owns(s, o)
          /\ \A d : d \in B <=> d \in PyObj /\ Keeps(d, o)
        BY Structures DEF PyInv, InMemory, Owns, Keeps, PyAlive
    <2>3. o \in PyAlive \ Abandoned <=> life[o] = "alive" /\ ~Left(o)
        BY DEF PyAlive, Abandoned, Left
    <2> HIDE DEF A, B
    <2>4. /\ \A x, y \in A : x = y
          /\ \A x, y \in B : x = y
        BY <2>1, <2>2 DEF OwnedOnce
    <2>5. /\ Cardinality(A) = IF A = {} THEN 0 ELSE 1
          /\ Cardinality(B) = IF B = {} THEN 0 ELSE 1
        BY <2>4, AtMostOne
    <2>6. /\ A # {} <=> \E s \in This : Owns(s, o)
          /\ B # {} <=> \E d \in PyObj : Keeps(d, o)
        BY <2>2
    <2>7. /\ A # {} => B = {} /\ o \notin pyCpp /\ ~Pending(Delete(o))
          /\ B # {} => o \notin pyCpp /\ ~Pending(Delete(o))
          /\ ~(o \in pyCpp /\ Pending(Delete(o)))
          /\ life[o] = "alive" /\ ~Left(o) <=> A # {} \/ B # {} \/ o \in pyCpp \/ Pending(Delete(o))
        BY <2>1, <2>6 DEF OwnedOnce
    <2>8. Cardinality(A) + Cardinality(B) + Count(o \in pyCpp) + Count(Pending(Delete(o)))
          = Count(o \in PyAlive \ Abandoned)
        BY <2>3, <2>5, <2>7 DEF Count
    <2> QED BY <2>8 DEF A, B
<1> QED BY <1>1, AlwaysPyInv, PTL

\* pyrun.swg:476: no object is destroyed twice, and the counts are the references.
THEOREM StaysDestroyedOnce == ASSUME TwoBases PROVE PySpec => []DestroyedOnce
<1>1. ASSUME PyInv PROVE DestroyedOnce
    <2> USE <1>1
    <2>1. /\ PyTypes /\ NULL \notin This
          /\ \A s : s \in Linked <=> s \in This /\ this[s] # NULL /\ ~Pending(PyObject_DEL(s))
          /\ \A i : i \in InMemory(inst) <=> i \in Inst /\ inst[i] # NULL
          /\ \A s : s \in InMemory(this) <=> s \in This /\ this[s] # NULL
        BY Structures DEF PyInv, TwoBases, Linked, InMemory
    <2>2. \A o \in PyObj : life[o] # "twice"
        BY <2>1 DEF PyTypes
    <2>3. \A i \in InMemory(inst) : inst[i].this \in Linked
        BY <2>1, InChain
    <2>4. ASSUME NEW s \in Linked PROVE this[s].next \in Linked \cup {NULL}
        <3>1. s \in This /\ this[s] # NULL /\ ~Pending(PyObject_DEL(s))
            BY <2>1
        <3>2. this[s].next \in This \cup {NULL}
            BY <2>1, <3>1, Structures
        <3>3. CASE this[s].next \in This
            <4>1. LinkRef(s, this[s].next) /\ ReferredOnce(this[s].next)
                BY <3>1, <3>3 DEF PyInv, OneReferrer, LinkRef
            <4>2. this[this[s].next] # NULL /\ ~CallRef(this[s].next)
                BY <3>1, <4>1 DEF ReferredOnce
            <4> QED BY <2>1, <3>3, <4>2 DEF CallRef
        <3> QED BY <3>2, <3>3
    <2>5. \A s \in This : Pending(DecrefThis(s)) \/ Pending(PyObject_DEL(s)) => s \in InMemory(this)
        BY <2>1 DEF PyInv, OneReferrer, ReferredOnce, CallRef
    <2>6. pyHeld \subseteq InMemory(inst)
        BY <2>1 DEF PyInv, PyTypes, Counted, Count
    <2>7. \A o \in pyDisowned : self[o] \in InMemory(inst)
        BY <2>1 DEF PyInv, Directed, Proxies
    <2>8. ASSUME NEW s \in Linked
          PROVE  this[s].rc = Cardinality({i \in InMemory(inst) : inst[i].this = s})
                              + Cardinality({r \in Linked : this[r].next = s})
                              + Count(Pending(DecrefThis(s)))
        <3> DEFINE A == {i \in InMemory(inst) : inst[i].this = s}
                   B == {r \in Linked : this[r].next = s}
        <3>1. s \in This /\ this[s] # NULL /\ ~Pending(PyObject_DEL(s))
            BY <2>1
        <3>2. /\ \A i : i \in A <=> i \in Inst /\ InstRef(i, s)
              /\ \A r : r \in B <=> r \in This /\ LinkRef(r, s)
            BY <2>1 DEF InstRef, LinkRef
        <3> HIDE DEF A, B
        <3>3. ReferredOnce(s)
            BY <3>1 DEF PyInv, OneReferrer
        <3>4. /\ \A x, y \in A : x = y
              /\ \A x, y \in B : x = y
            BY <3>2, <3>3 DEF ReferredOnce
        <3>5. /\ Cardinality(A) = IF A = {} THEN 0 ELSE 1
              /\ Cardinality(B) = IF B = {} THEN 0 ELSE 1
            BY <3>4, AtMostOne
        <3>6. /\ A # {} => B = {} /\ ~Pending(DecrefThis(s))
              /\ B # {} => ~Pending(DecrefThis(s))
              /\ A # {} \/ B # {} \/ Pending(DecrefThis(s))
            BY <3>1, <3>2, <3>3 DEF ReferredOnce, CallRef
        <3>7. this[s].rc = 1
            BY <2>1, <3>1, Structures
        <3>8. this[s].rc = Cardinality(A) + Cardinality(B) + Count(Pending(DecrefThis(s)))
            BY <3>5, <3>6, <3>7 DEF Count
        <3> QED BY <3>8 DEF A, B
    <2>9. ASSUME NEW i \in InMemory(inst)
          PROVE  inst[i].rc = Count(i \in pyHeld) + Cardinality({o \in pyDisowned : self[o] = i})
                              + Count(Pending(DecrefInst(i)))
        <3> DEFINE A == {o \in pyDisowned : self[o] = i}
        <3>1. \A x, y \in A : x = y
            BY DEF PyInv, Directed, Proxies
        <3>2. A # {} <=> \E o \in pyDisowned : self[o] = i
            OBVIOUS
        <3> HIDE DEF A
        <3>3. Cardinality(A) = IF A = {} THEN 0 ELSE 1
            BY <3>1, AtMostOne
        <3>4. inst[i].rc = Count(i \in pyHeld) + Count(\E o \in pyDisowned : self[o] = i)
                           + Count(Pending(DecrefInst(i)))
            BY <2>1 DEF PyInv, Counted
        <3>5. Count(\E o \in pyDisowned : self[o] = i) = Cardinality(A)
            BY <3>2, <3>3 DEF Count
        <3>6. inst[i].rc = Count(i \in pyHeld) + Cardinality(A) + Count(Pending(DecrefInst(i)))
            BY <3>4, <3>5
        <3> QED BY <3>6 DEF A
    <2> QED BY <2>2, <2>3, <2>4, <2>5, <2>6, <2>7, <2>8, <2>9 DEF DestroyedOnce, RefsRight
<1> QED BY <1>1, AlwaysPyInv, PTL
=============================================================================
