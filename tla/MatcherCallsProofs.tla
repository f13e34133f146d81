------------------------- MODULE MatcherCallsProofs -------------------------
(***************************************************************************)
(* The shared engine behind New, for any number of goroutines, of matches  *)
(* and of buffers.                                                         *)
(***************************************************************************)
EXTENDS MatcherCalls, TLAPS, FiniteSetTheorems

Failed == [engine |-> {}, err |-> TRUE]
First == [engine |-> {<<"embedded", 1>>}, err |-> FALSE]

Loaded == loads = 1 /\ embedded \in {Failed, First}
NotLoaded == loads = 0 /\ embedded = [engine |-> {}, err |-> FALSE]

Stages == {"new", "load", "loaded", "ready", "tokenize", "offsets", "collect", "end"}

Shape ==
    /\ pc \in [Callers -> Stages]
    /\ matcher = [c \in Callers |-> matcher[c]]
    /\ requests \in [Callers -> {"New", "NewFromReader", "nil option", "nil reader"}]
    /\ once \in {"new", "running", "done"}

Loading(c) == pc[c] \in {"load", "loaded"}

(* Who is in the function of the Once, and how far the load has come.      *)
OnceState ==
    /\ once = "new" => NotLoaded /\ \A c \in Callers : ~Loading(c)
    /\ once = "running" =>
          \E c \in Callers : /\ Loading(c) /\ \A d \in Callers \ {c} : ~Loading(d)
                             /\ pc[c] = "load" => NotLoaded
                             /\ pc[c] = "loaded" => Loaded
    /\ once = "done" => Loaded /\ \A c \in Callers : ~Loading(c)

(* What New has returned to those that are past it.                        *)
Returned(c) ==
    requests[c] = "New" /\ pc[c] \notin {"new", "load", "loaded"} =>
        once = "done" /\ matcher[c] = embedded

IInv == Shape /\ OnceState /\ \A c \in Callers : Returned(c)

-----------------------------------------------------------------------------
LEMMA InitIInv == Init => IInv
BY CallsAssumption
   DEF Init, IInv, Shape, Stages, OnceState, Loading, NotLoaded, Returned, Nothing

(* A step of a goroutine that is past New, or the garbage collector's.     *)
LEMMA MatchIInv ==
    ASSUME IInv, UNCHANGED <<requests, onceVars, matcher>>,
           pc' \in [Callers -> Stages],
           \A c \in Callers :
              pc'[c] = pc[c] \/ /\ pc[c] \notin {"new", "load", "loaded"}
                                /\ pc'[c] \notin {"new", "load", "loaded"}
    PROVE  IInv'
<1> USE DEF onceVars
<1>1. Shape'
  BY DEF IInv, Shape
<1>2. \A c \in Callers : Loading(c)' <=> Loading(c)
  BY DEF Loading
<1>3. OnceState'
  BY <1>2 DEF IInv, OnceState, Loading, Loaded, NotLoaded
<1>4. ASSUME NEW c \in Callers PROVE Returned(c)'
  BY DEF IInv, Returned
<1> QED BY <1>1, <1>3, <1>4 DEF IInv

LEMMA RefuseIInv ==
    ASSUME IInv, NEW c \in Callers, Refuse(c)
    PROVE  IInv'
<1> USE DEF Refuse, Goto, onceVars
<1>1. \A d \in Callers \ {c} : matcher'[d] = matcher[d]
  BY DEF IInv, Shape
<1>2. matcher' = [d \in Callers |-> matcher'[d]]
  BY DEF IInv, Shape
<1>3. Shape'
  BY <1>2 DEF IInv, Shape, Stages
<1>4. OnceState'
  BY DEF IInv, Shape, OnceState, Loading, Loaded, NotLoaded
<1>5. ASSUME NEW d \in Callers PROVE Returned(d)'
  BY <1>1 DEF IInv, Shape, Returned
<1> QED BY <1>3, <1>4, <1>5 DEF IInv

LEMMA NewFromReaderIInv ==
    ASSUME IInv, NEW c \in Callers, NewFromReader(c)
    PROVE  IInv'
<1> USE DEF NewFromReader, Goto, onceVars
<1>1. \A d \in Callers \ {c} : matcher'[d] = matcher[d] /\ pc'[d] = pc[d]
  BY DEF IInv, Shape
<1>2. matcher' = [d \in Callers |-> matcher'[d]] /\ pc'[c] \in {"ready", "end"}
  BY DEF IInv, Shape
<1>3. Shape'
  BY <1>2 DEF IInv, Shape, Stages
<1>4. OnceState'
  BY <1>1, <1>2 DEF IInv, Shape, OnceState, Loading, Loaded, NotLoaded
<1>5. ASSUME NEW d \in Callers PROVE Returned(d)'
  BY <1>1 DEF IInv, Shape, Returned
<1> QED BY <1>3, <1>4, <1>5 DEF IInv

LEMMA OnceBeginIInv ==
    ASSUME IInv, NEW c \in Callers, OnceBegin(c)
    PROVE  IInv'
<1> USE DEF OnceBegin, MayRun, Goto
<1>1. Shape'
  BY DEF IInv, Shape, Stages
<1>2. OnceState'
  BY DEF IInv, Shape, OnceState, Loading, Loaded, NotLoaded
<1>3. ASSUME NEW d \in Callers PROVE Returned(d)'
  BY DEF IInv, Shape, Returned
<1> QED BY <1>1, <1>2, <1>3 DEF IInv

(* Only the goroutine that runs the function loads the corpus.             *)
LEMMA LoaderRuns ==
    ASSUME IInv, NEW c \in Callers, Loading(c)
    PROVE  /\ once = "running" /\ \A d \in Callers \ {c} : ~Loading(d)
           /\ pc[c] = "load" => NotLoaded
           /\ pc[c] = "loaded" => Loaded
BY DEF IInv, Shape, OnceState

LEMMA LoadCorpusIInv ==
    ASSUME IInv, NEW c \in Callers, LoadCorpus(c)
    PROVE  IInv'
<1> USE DEF LoadCorpus, Goto
<1>1. once = "running" /\ NotLoaded /\ \A d \in Callers \ {c} : ~Loading(d)
  BY LoaderRuns DEF Loading
<1>2. Loaded'
  <2>1. loads' = 1
    BY <1>1 DEF NotLoaded
  <2>2. CASE corpusLoads
    BY <2>1, <2>2 DEF Loaded, First
  <2>3. CASE ~corpusLoads
    <3>1. embedded' = [embedded EXCEPT !.err = TRUE]
      BY <2>3
    <3> QED BY <1>1, <2>1, <3>1 DEF Loaded, Failed, NotLoaded
  <2> QED BY <2>2, <2>3
<1>3. Shape'
  BY DEF IInv, Shape, Stages
<1>4. pc'[c] = "loaded" /\ \A d \in Callers \ {c} : pc'[d] = pc[d]
  BY DEF IInv, Shape
<1>5. OnceState'
  BY <1>1, <1>2, <1>4 DEF OnceState, Loading
<1>6. ASSUME NEW d \in Callers PROVE Returned(d)'
  BY <1>1, <1>4 DEF IInv, Returned
<1> QED BY <1>3, <1>5, <1>6 DEF IInv

LEMMA OnceEndIInv ==
    ASSUME IInv, NEW c \in Callers, OnceEnd(c)
    PROVE  IInv'
<1> USE DEF OnceEnd, Goto
<1>1. once = "running" /\ Loaded /\ \A d \in Callers \ {c} : ~Loading(d)
  BY LoaderRuns DEF Loading
<1>2. pc'[c] = "new" /\ \A d \in Callers \ {c} : pc'[d] = pc[d]
  BY DEF IInv, Shape
<1>3. Shape'
  BY DEF IInv, Shape, Stages
<1>4. OnceState'
  BY <1>1, <1>2 DEF OnceState, Loading, Loaded
<1>5. ASSUME NEW d \in Callers PROVE Returned(d)'
  BY <1>1, <1>2 DEF IInv, Returned
<1> QED BY <1>3, <1>4, <1>5 DEF IInv

(* The matcher of a New that returns an error.                             *)
LEMMA FailedFields == [Nothing EXCEPT !.err = TRUE] = Failed
<1>1. ASSUME NEW engine, NEW before, NEW after
      PROVE  [[engine |-> engine, err |-> before] EXCEPT !.err = after]
                = [engine |-> engine, err |-> after]
  OBVIOUS
<1> QED BY <1>1, Zenon DEF Nothing, Failed

LEMMA NewIInv ==
    ASSUME IInv, NEW c \in Callers, New(c)
    PROVE  IInv'
<1> USE DEF New, Goto, onceVars
<1>1. Loaded
  BY DEF IInv, OnceState
<1>2. matcher' = [matcher EXCEPT ![c] = embedded]
  <2>1. CASE embedded = Failed
    <3>1. [Nothing EXCEPT !.err = TRUE] = Failed
      BY FailedFields
    <3>2. embedded.err
      BY <2>1 DEF Failed
    <3>3. matcher' = [matcher EXCEPT ![c] = IF embedded.err THEN [Nothing EXCEPT !.err = TRUE]
                                            ELSE embedded]
      OBVIOUS
    <3> QED BY <2>1, <3>1, <3>2, <3>3
  <2>2. CASE embedded = First
    <3>1. ~embedded.err
      BY <2>2 DEF First
    <3>2. matcher' = [matcher EXCEPT ![c] = IF embedded.err THEN [Nothing EXCEPT !.err = TRUE]
                                            ELSE embedded]
      OBVIOUS
    <3> QED BY <3>1, <3>2
  <2> QED BY <1>1, <2>1, <2>2 DEF Loaded
<1>3. matcher' = [d \in Callers |-> matcher'[d]]
  BY <1>2 DEF IInv, Shape
<1>4. /\ pc'[c] \in {"ready", "end"} /\ matcher'[c] = embedded
      /\ \A d \in Callers \ {c} : pc'[d] = pc[d] /\ matcher'[d] = matcher[d]
  BY <1>2 DEF IInv, Shape
<1>5. Shape'
  BY <1>3 DEF IInv, Shape, Stages
<1>6. OnceState'
  BY <1>1, <1>4 DEF IInv, OnceState, Loading, Loaded
<1>7. ASSUME NEW d \in Callers PROVE Returned(d)'
  BY <1>4 DEF IInv, Returned
<1> QED BY <1>5, <1>6, <1>7 DEF IInv

LEMMA StepIInv == IInv /\ [Next]_vars => IInv'
<1> SUFFICES ASSUME IInv, [Next]_vars PROVE IInv'
  OBVIOUS
<1>1. ASSUME NEW c \in Callers, Act(c) PROVE IInv'
  <2> DEFINE Step(to) == /\ to \in Stages /\ pc' = [pc EXCEPT ![c] = to]
                         /\ UNCHANGED <<requests, onceVars, matcher>>
                         /\ to \notin {"new", "load", "loaded"}
                         /\ pc[c] \notin {"new", "load", "loaded"}
  <2>0. ASSUME NEW to, Step(to) PROVE IInv'
    <3>1. pc \in [Callers -> Stages]
      BY DEF IInv, Shape
    <3>2. /\ pc' \in [Callers -> Stages]
          /\ \A d \in Callers :
                pc'[d] = pc[d] \/ /\ pc[d] \notin {"new", "load", "loaded"}
                                  /\ pc'[d] \notin {"new", "load", "loaded"}
      BY <2>0, <3>1
    <3> QED BY <2>0, <3>2, MatchIInv
  <2>1. CASE Refuse(c)
    BY <2>1, RefuseIInv
  <2>2. CASE NewFromReader(c)
    BY <2>2, NewFromReaderIInv
  <2>3. CASE OnceBegin(c)
    BY <2>3, OnceBeginIInv
  <2>4. CASE LoadCorpus(c)
    BY <2>4, LoadCorpusIInv
  <2>5. CASE OnceEnd(c)
    BY <2>5, OnceEndIInv
  <2>6. CASE New(c)
    BY <2>6, NewIInv
  <2>7. CASE Get(c)
    <3>1. Step("tokenize")
      BY <2>7 DEF Get, Goto, Stages
    <3> QED BY <2>0, <3>1
  <2>8. CASE AppendToken(c)
    <3>1. pc' = pc /\ UNCHANGED <<requests, onceVars, matcher>>
      BY <2>8 DEF AppendToken
    <3> QED BY <3>1, MatchIInv DEF IInv, Shape
  <2>9. CASE EndTokenize(c)
    <3>1. Step(IF tokens[c].len = 0 THEN "collect" ELSE "offsets")
      BY <2>9 DEF EndTokenize, Goto, Stages
    <3> QED BY <2>0, <3>1
  <2>10. CASE MakeOffsets(c)
    <3>1. Step("collect")
      BY <2>10 DEF MakeOffsets, Goto, Stages
    <3> QED BY <2>0, <3>1
  <2>11. CASE NoOffsets(c) \/ Cancel(c)
    <3>1. Step("collect")
      BY <2>11 DEF NoOffsets, Cancel, Goto, Stages
    <3> QED BY <2>0, <3>1
  <2>12. CASE Put(c)
    <3>1. Step("ready")
      BY <2>12 DEF Put, Goto, Stages
    <3> QED BY <2>0, <3>1
  <2> QED BY <1>1, <2>1, <2>2, <2>3, <2>4, <2>5, <2>6, <2>7, <2>8, <2>9, <2>10, <2>11,
             <2>12 DEF Act
<1>2. CASE Drop
  BY <1>2, MatchIInv DEF Drop, IInv, Shape
<1>3. CASE Over \/ UNCHANGED vars
  BY <1>3, MatchIInv DEF Over, vars, onceVars, IInv, Shape
<1> QED BY <1>1, <1>2, <1>3 DEF Next

LEMMA Invariant == Spec => []IInv
BY InitIInv, StepIInv, PTL DEF Spec

-----------------------------------------------------------------------------
(* However many goroutines call New, and in whatever order, the embedded   *)
(* corpus is decoded at most once, and all of them have its engine or all  *)
(* of them its error: loadEmbeddedEngine and New.                          *)
THEOREM LoadedOnce == Spec => []OneEngine
<1>1. IInv => OneEngine
  <2> SUFFICES ASSUME IInv PROVE OneEngine
    OBVIOUS
  <2>1. loads <= 1
    <3>1. NotLoaded \/ Loaded
      BY DEF IInv, Shape, OnceState, Loading
    <3> QED BY <3>1 DEF Loaded, NotLoaded
  <2>2. ASSUME NEW c \in Callers, requests[c] = "New", pc[c] \in {"ready", "end"}
        PROVE  matcher[c] = embedded /\ Loaded
    BY <2>2 DEF IInv, OnceState, Returned
  <2>3. ASSUME Loaded PROVE embedded.err <=> embedded.engine = {}
    <3>1. Failed.err /\ Failed.engine = {}
      BY DEF Failed
    <3>2. ~First.err /\ First.engine # {}
      BY DEF First
    <3> QED BY <2>3, <3>1, <3>2 DEF Loaded
  <2> QED BY <2>1, <2>2, <2>3 DEF OneEngine
<1> QED BY <1>1, Invariant, PTL

-----------------------------------------------------------------------------
(* The buffers.  Memory without a bound: there is always another array.    *)
MemoryUnbounded == Arrays \subseteq Nat \ {Nowhere} /\ ~IsFiniteSet(Arrays)

Working == {"tokenize", "offsets", "collect"}
Live(c) == pc[c] \in Working

Cells == {<<>>} \cup (Callers \X Nat)
Slices == [array : Arrays \cup {Nowhere}, len : Nat]
Scratches == [ids : Slices, offsets : Slices]

(* The arrays a call may write to, by the buffer they are for.             *)
IdArrays(c) == {scratch[c].ids.array, previous[c].ids.array, tokens[c].array}
OffsetArrays(c) == {scratch[c].offsets.array, previous[c].offsets.array}
Own(c) == IdArrays(c) \cup OffsetArrays(c)

BufferTypes ==
    /\ memory \in [Arrays -> Seq(Cells)]
    /\ calls \in [Callers -> Nat]
    /\ scratch \in [Callers -> Scratches] /\ previous \in [Callers -> Scratches]
    /\ tokens \in [Callers -> Slices]
    /\ pool \in Seq(Scratches)

(* What a call has written is in its buffers, which are two.               *)
CallOK(c) ==
    /\ IdArrays(c) \cap OffsetArrays(c) \subseteq {Nowhere}
    /\ tokens[c].len <= Cap(tokens[c])
    /\ scratch[c].offsets.len <= Cap(scratch[c].offsets)
    /\ \A i \in 1..tokens[c].len : memory[tokens[c].array][i] = Self(c)
    /\ pc[c] = "offsets" => tokens[c].len > 0
    /\ pc[c] # "collect" => scratch[c].offsets.len = 0
    /\ \A i \in 1..scratch[c].offsets.len : memory[scratch[c].offsets.array][i] = Self(c)

PooledOK(s) ==
    /\ s.ids.len = 0 /\ s.offsets.len = 0
    /\ Cap(s.ids) <= TokenCap /\ Cap(s.offsets) <= TokenCap
    /\ {s.ids.array} \cap {s.offsets.array} \subseteq {Nowhere}

(* No array is in two calls, in two pooled scratches, or in both.          *)
CallsApart ==
    \A c, d \in Callers :
        Live(c) /\ Live(d) /\ c # d => Own(c) \cap Own(d) \subseteq {Nowhere}
PoolApart ==
    \A i, j \in DOMAIN pool :
        i # j => ArraysOf(pool[i]) \cap ArraysOf(pool[j]) \subseteq {Nowhere}
CallsPoolApart ==
    \A c \in Callers : \A i \in DOMAIN pool :
        Live(c) => Own(c) \cap ArraysOf(pool[i]) \subseteq {Nowhere}

BufferInv ==
    /\ BufferTypes
    /\ IsFiniteSet(InUse)
    /\ \A c \in Callers : Live(c) => CallOK(c)
    /\ \A i \in DOMAIN pool : PooledOK(pool[i])
    /\ CallsApart /\ PoolApart /\ CallsPoolApart

-----------------------------------------------------------------------------
LEMMA LeastElement ==
    ASSUME NEW T \in SUBSET Nat, T # {}
    PROVE  \E x \in T : \A y \in T : x <= y
<1> DEFINE R == {ss \in Nat \X Nat : ss[1] < ss[2]}
<1>1. IsWellFoundedOn(R, Nat)
  <2>1. IsWellFoundedOn(OpToRel(<, Nat), Nat)
    BY NatLessThanWellFounded
  <2>2. R = OpToRel(<, Nat)
    BY DEF OpToRel
  <2> QED BY <2>1, <2>2
<1> HIDE DEF R
<1>2. PICK x \in T : \A y \in T : ~(<<y, x>> \in R)
  BY <1>1, WFMin
<1>3. ASSUME NEW y \in T PROVE x <= y
  <2>1. ~(<<y, x>> \in R) /\ y \in Nat /\ x \in Nat
    BY <1>2
  <2>2. ~(y < x)
    BY <2>1 DEF R
  <2> QED BY <2>1, <2>2
<1> QED BY <1>3

(* A fresh array is one that nothing refers to.                            *)
LEMMA FreshOK ==
    ASSUME MemoryUnbounded, NEW taken, IsFiniteSet(taken)
    PROVE  Fresh(taken) \in Arrays /\ Fresh(taken) \notin taken
           /\ Fresh(taken) # Nowhere /\ IsFiniteSet(taken \cup {Fresh(taken)})
<1>1. Arrays \ taken # {}
  <2>1. ASSUME Arrays \subseteq taken PROVE FALSE
    BY <2>1, FS_Subset DEF MemoryUnbounded
  <2> QED BY <2>1
<1>2. \E a \in Arrays \ taken : \A b \in Arrays \ taken : a <= b
  BY <1>1, LeastElement DEF MemoryUnbounded
<1>3. Fresh(taken) \in Arrays \ taken
  BY <1>2 DEF Fresh
<1> QED BY <1>3, FS_AddElement DEF MemoryUnbounded

(* What a live call refers to is among the arrays of the calls.            *)
LEMMA OwnInCalls ==
    ASSUME NEW D, NEW d \in D, Live(d)
    PROVE  Own(d) \subseteq CallArrays(D)
<1>1. Own(d) = ArraysOf(scratch[d]) \cup ArraysOf(previous[d])
                   \cup {tokens[d].array}
  BY DEF Own, IdArrays, OffsetArrays, ArraysOf
<1>2. d \in {e \in D : pc[e] \in {"tokenize", "offsets", "collect"}}
  BY DEF Live, Working
<1> QED BY <1>1, <1>2 DEF CallArrays

(* What calls and the pool refer to is in use.                             *)
LEMMA InUseOK ==
    /\ \A c \in Callers : Live(c) => Own(c) \subseteq InUse
    /\ \A i \in DOMAIN pool : ArraysOf(pool[i]) \subseteq InUse
    /\ \A a \in InUse : \/ \E c \in Callers : Live(c) /\ a \in Own(c)
                        \/ \E i \in DOMAIN pool : a \in ArraysOf(pool[i])
BY SMTT(30) DEF InUse, CallArrays, PoolArrays, ArraysOf, Own, IdArrays, OffsetArrays, Live, Working

LEMMA SliceTypes ==
    ASSUME BufferTypes, NEW c \in Callers
    PROVE  /\ tokens[c] \in Slices /\ scratch[c] \in Scratches /\ previous[c] \in Scratches
           /\ scratch[c].ids \in Slices /\ scratch[c].offsets \in Slices
           /\ previous[c].ids \in Slices /\ previous[c].offsets \in Slices
BY DEF BufferTypes, Scratches

LEMMA CapType ==
    ASSUME BufferTypes, NEW s \in Slices
    PROVE  Cap(s) \in Nat
BY DEF BufferTypes, Slices, Cap

LEMMA InitBuffers ==
    ASSUME Init
    PROVE  BufferInv
<1>1. PoolArrays = {}
  BY DEF Init, PoolArrays
<1>2. \A c \in Callers : ~Live(c)
  BY DEF Init, Live, Working
<1>3. CallArrays(Callers) = {}
  BY <1>2 DEF CallArrays, Live, Working
<1>4. IsFiniteSet(InUse)
  BY <1>1, <1>3, FS_EmptySet DEF InUse
<1>5. BufferTypes
  BY DEF Init, BufferTypes, Scratches, Slices, Cells, EmptyScratch, NilSlice
<1> QED BY <1>2, <1>4, <1>5 DEF Init, BufferInv, CallsApart, PoolApart, CallsPoolApart

-----------------------------------------------------------------------------
(* What a step leaves alone.                                               *)
Same(d) ==
    /\ pc'[d] = pc[d] /\ scratch'[d] = scratch[d] /\ previous'[d] = previous[d]
    /\ tokens'[d] = tokens[d] /\ calls'[d] = calls[d]

Untouched(arrays) == \A a \in Arrays \cap arrays : memory'[a] = memory[a]

LEMMA SameOwn ==
    ASSUME NEW d, Same(d)
    PROVE  /\ IdArrays(d)' = IdArrays(d) /\ OffsetArrays(d)' = OffsetArrays(d)
           /\ Own(d)' = Own(d) /\ Live(d)' = Live(d) /\ Self(d)' = Self(d)
BY DEF Same, IdArrays, OffsetArrays, Own, Live, Self

LEMMA CapKept ==
    ASSUME NEW s \in Slices, Untouched({s.array})
    PROVE  Cap(s)' = Cap(s)
BY DEF Slices, Untouched, Cap

LEMMA ContentKept ==
    ASSUME BufferTypes, NEW s \in Slices, Untouched({s.array}), s.len <= Cap(s)
    PROVE  \A i \in 1..s.len : memory'[s.array][i] = memory[s.array][i]
<1>1. CASE s.array = Nowhere
  BY <1>1 DEF Cap, Slices
<1>2. CASE s.array \in Arrays
  BY <1>2 DEF Untouched
<1> QED BY <1>1, <1>2 DEF Slices

LEMMA CallKept ==
    ASSUME BufferTypes, NEW d \in Callers, Same(d), Untouched(Own(d)), CallOK(d)
    PROVE  CallOK(d)'
<1>1. tokens[d] \in Slices /\ scratch[d].offsets \in Slices
  BY SliceTypes
<1>2. Untouched({tokens[d].array}) /\ Untouched({scratch[d].offsets.array})
  BY DEF Untouched, Own, IdArrays, OffsetArrays
<1>3. /\ Cap(tokens[d])' = Cap(tokens[d])
      /\ Cap(scratch[d].offsets)' = Cap(scratch[d].offsets)
  <2>1. tokens'[d] = tokens[d] /\ scratch'[d] = scratch[d]
    BY DEF Same
  <2>2. \A s \in Slices : Untouched({s.array}) => Cap(s)' = Cap(s)
    BY CapKept
  <2> QED BY <1>1, <1>2, <2>1, <2>2 DEF Cap
<1>4. /\ \A i \in 1..tokens[d].len : memory'[tokens[d].array][i] = memory[tokens[d].array][i]
      /\ \A i \in 1..scratch[d].offsets.len :
             memory'[scratch[d].offsets.array][i] = memory[scratch[d].offsets.array][i]
  BY <1>1, <1>2, ContentKept DEF CallOK
<1> QED BY <1>3, <1>4, SameOwn DEF CallOK, Same

LEMMA PooledKept ==
    ASSUME NEW s \in Scratches, Untouched(ArraysOf(s)), PooledOK(s)
    PROVE  PooledOK(s)'
<1>1. s.ids \in Slices /\ s.offsets \in Slices
  BY DEF Scratches
<1>2. Untouched({s.ids.array}) /\ Untouched({s.offsets.array})
  BY DEF Untouched, ArraysOf
<1>3. Cap(s.ids)' = Cap(s.ids) /\ Cap(s.offsets)' = Cap(s.offsets)
  BY <1>1, <1>2, CapKept
<1> QED BY <1>3 DEF PooledOK

(* A step of a call that is and stays under way, may turn to an array that *)
(* nothing refers to, and writes to no others' arrays.                     *)
CallStep(c, fresh) ==
    /\ Live(c) /\ Live(c)' /\ CallOK(c)'
    /\ BufferTypes' /\ pool' = pool
    /\ \A d \in Callers \ {c} : Same(d)
    /\ IsFiniteSet(fresh) /\ fresh \cap InUse \subseteq {Nowhere}
    /\ Own(c)' \subseteq Own(c) \cup fresh
    /\ Untouched(Arrays \ (Own(c) \cup fresh))

LEMMA CallStepBuffers ==
    ASSUME BufferInv, MemoryUnbounded, NEW c \in Callers, NEW fresh, CallStep(c, fresh)
    PROVE  BufferInv'
<1> USE DEF CallStep
<1>1. BufferTypes /\ CallsApart /\ PoolApart /\ CallsPoolApart /\ Nowhere \notin Arrays
  BY DEF BufferInv, MemoryUnbounded
<1>2. ASSUME NEW d \in Callers \ {c}, Live(d)
      PROVE  /\ Own(d) \cap (Own(c) \cup fresh) \subseteq {Nowhere}
             /\ Untouched(Own(d))
  <2>1. Own(d) \cap (Own(c) \cup fresh) \subseteq {Nowhere}
    BY <1>1, <1>2, InUseOK DEF CallsApart
  <2> QED BY <1>1, <2>1 DEF Untouched
<1>3. ASSUME NEW i \in DOMAIN pool
      PROVE  /\ ArraysOf(pool[i]) \cap (Own(c) \cup fresh) \subseteq {Nowhere}
             /\ Untouched(ArraysOf(pool[i]))
  <2>1. ArraysOf(pool[i]) \cap (Own(c) \cup fresh) \subseteq {Nowhere}
    BY <1>1, InUseOK DEF CallsPoolApart
  <2> QED BY <1>1, <2>1 DEF Untouched
<1>4. ASSUME NEW d \in Callers, Live(d)'
      PROVE  CallOK(d)'
  <2>1. CASE d = c
    BY <2>1
  <2>2. CASE d # c
    <3>1. Same(d) /\ Live(d)
      BY <1>4, <2>2, SameOwn
    <3> QED BY <1>1, <1>2, <2>2, <3>1, CallKept DEF BufferInv
  <2> QED BY <2>1, <2>2
<1>5. (\A i \in DOMAIN pool : PooledOK(pool[i]))'
  <2>1. ASSUME NEW i \in DOMAIN pool
        PROVE  PooledOK(pool[i])'
    <3>1. pool[i] \in Scratches /\ PooledOK(pool[i]) /\ Untouched(ArraysOf(pool[i]))
      BY <1>3 DEF BufferInv, BufferTypes
    <3>2. \A s \in Scratches : Untouched(ArraysOf(s)) /\ PooledOK(s) => PooledOK(s)'
      BY PooledKept
    <3> QED BY <3>1, <3>2 DEF PooledOK, Cap
  <2> QED BY <2>1
<1>6. \A d \in Callers \ {c} : Own(d)' = Own(d) /\ Live(d)' = Live(d)
  BY SameOwn
<1>7. CallsApart'
  BY <1>1, <1>2, <1>6 DEF CallsApart
<1>8. PoolApart'
  BY <1>1 DEF PoolApart, ArraysOf
<1>9. CallsPoolApart'
  BY <1>1, <1>3, <1>6 DEF CallsPoolApart, ArraysOf
<1>10. IsFiniteSet(InUse')
  <2>1. InUse' \subseteq InUse \cup fresh
    <3> SUFFICES ASSUME NEW a \in InUse' PROVE a \in InUse \cup fresh
      OBVIOUS
    <3>1. \/ \E d \in Callers : Live(d)' /\ a \in Own(d)'
          \/ \E i \in DOMAIN pool' : a \in ArraysOf(pool'[i])
      BY SMTT(30) DEF InUse, CallArrays, PoolArrays, ArraysOf, Own, IdArrays, OffsetArrays,
             Live, Working
    <3>2. ASSUME NEW d \in Callers, Live(d)', a \in Own(d)' PROVE a \in InUse \cup fresh
      BY <1>6, <3>2, InUseOK
    <3>3. ASSUME NEW i \in DOMAIN pool', a \in ArraysOf(pool'[i]) PROVE a \in InUse
      BY <3>3, InUseOK
    <3> QED BY <3>1, <3>2, <3>3
  <2>2. IsFiniteSet(InUse \cup fresh)
    BY FS_Union DEF BufferInv
  <2> QED BY <2>1, <2>2, FS_Subset
<1> QED BY <1>4, <1>5, <1>7, <1>8, <1>9, <1>10 DEF BufferInv

-----------------------------------------------------------------------------
LEMMA SelfIsCell ==
    ASSUME BufferTypes, NEW c \in Callers
    PROVE  Self(c) \in Cells
BY DEF BufferTypes, Self, Cells

LEMMA EndTokenizeBuffers ==
    ASSUME BufferInv, MemoryUnbounded, pc \in [Callers -> Stages],
           NEW c \in Callers, EndTokenize(c)
    PROVE  BufferInv'
<1>1. /\ pc[c] = "tokenize" /\ pc' = [pc EXCEPT ![c] = IF tokens[c].len = 0 THEN "collect"
                                                     ELSE "offsets"]
      /\ scratch' = [scratch EXCEPT ![c].ids = tokens[c]]
      /\ UNCHANGED <<calls, previous, tokens, pool, memory>>
  BY DEF EndTokenize, Goto
<1>2. BufferTypes /\ CallOK(c) /\ Live(c)
  BY <1>1 DEF BufferInv, Live, Working
<1>3. tokens[c] \in Slices /\ scratch[c] \in Scratches /\ tokens[c].len \in Nat
  BY <1>2, SliceTypes DEF Slices
<1>4. /\ scratch' = [scratch EXCEPT ![c] = [scratch[c] EXCEPT !.ids = tokens[c]]]
      /\ scratch \in [Callers -> Scratches]
  BY <1>1, <1>2 DEF BufferTypes
<1>5. /\ scratch'[c] = [scratch[c] EXCEPT !.ids = tokens[c]]
      /\ \A d \in Callers \ {c} : scratch'[d] = scratch[d]
  BY <1>4
<1>6. /\ scratch'[c] \in Scratches /\ scratch'[c].ids = tokens[c]
      /\ scratch'[c].offsets = scratch[c].offsets
  BY <1>3, <1>5 DEF Scratches
<1>7. BufferTypes'
  BY <1>1, <1>2, <1>4, <1>6 DEF BufferTypes
<1>8. pc'[c] = (IF tokens[c].len = 0 THEN "collect" ELSE "offsets")
      /\ \A d \in Callers \ {c} : pc'[d] = pc[d]
  BY <1>1
<1>9. IdArrays(c)' \subseteq IdArrays(c) /\ OffsetArrays(c)' = OffsetArrays(c)
  BY <1>1, <1>6 DEF IdArrays, OffsetArrays
<1>10. CallOK(c)'
  BY <1>1, <1>2, <1>3, <1>6, <1>8, <1>9, SMTT(30) DEF CallOK, Cap, Self
<1>11. CallStep(c, {})
  BY <1>1, <1>2, <1>5, <1>7, <1>8, <1>9, <1>10, FS_EmptySet
     DEF CallStep, Live, Working, Same, Own, Untouched
<1> QED BY <1>11, CallStepBuffers

(* To go on without a buffer of offsets.                                   *)
LEMMA NoOffsetsBuffers ==
    ASSUME BufferInv, MemoryUnbounded, pc \in [Callers -> Stages],
           NEW c \in Callers, NoOffsets(c) \/ Cancel(c)
    PROVE  BufferInv'
<1>1. /\ pc[c] = "offsets" /\ pc' = [pc EXCEPT ![c] = "collect"]
      /\ UNCHANGED <<calls, scratch, previous, tokens, pool, memory>>
  BY DEF NoOffsets, Cancel, Goto, callVars
<1>2. BufferTypes /\ CallOK(c) /\ Live(c)
  BY <1>1 DEF BufferInv, Live, Working
<1>3. pc'[c] = "collect" /\ \A d \in Callers \ {c} : pc'[d] = pc[d]
  BY <1>1
<1>4. CallOK(c)'
  BY <1>1, <1>2, <1>3 DEF CallOK, Cap, Self, IdArrays, OffsetArrays
<1>5. BufferTypes' /\ Own(c)' = Own(c)
  BY <1>1, <1>2 DEF BufferTypes, Own, IdArrays, OffsetArrays
<1>6. CallStep(c, {})
  BY <1>1, <1>2, <1>3, <1>4, <1>5, FS_EmptySet
     DEF CallStep, Live, Working, Same, Untouched
<1> QED BY <1>6, CallStepBuffers

LEMMA BlankOK ==
    ASSUME NEW k \in Nat
    PROVE  Blank(k) \in Seq(Cells) /\ Len(Blank(k)) = k
BY DEF Blank, Cells

(* What append makes of an array that has become too small.                *)
LEMMA Grown ==
    ASSUME NEW old \in Seq(Cells), NEW token \in Cells
    PROVE  LET grown == Append(old, token) \o Blank(Len(old) - 1)
           IN  /\ grown \in Seq(Cells) /\ Len(grown) >= Len(old) + 1
               /\ \A i \in 1..Len(old) : grown[i] = old[i]
               /\ grown[Len(old) + 1] = token
<1> DEFINE blank == Blank(Len(old) - 1)
           longer == Append(old, token)
<1>1. blank \in Seq(Cells)
  <2>1. CASE Len(old) = 0
    <3>1. 1..(Len(old) - 1) = 1..0
      BY <2>1
    <3>2. blank = Blank(0)
      BY <3>1 DEF Blank
    <3> QED BY <3>2, BlankOK
  <2>2. CASE Len(old) >= 1
    BY <2>2, BlankOK
  <2> QED BY <2>1, <2>2
<1> HIDE DEF blank
<1>2. longer \in Seq(Cells) /\ Len(longer) = Len(old) + 1
      /\ longer[Len(old) + 1] = token /\ \A i \in 1..Len(old) : longer[i] = old[i]
  OBVIOUS
<1> HIDE DEF longer
<1>3. /\ longer \o blank \in Seq(Cells) /\ Len(longer \o blank) >= Len(old) + 1
      /\ \A i \in 1..(Len(old) + 1) : (longer \o blank)[i] = longer[i]
  BY <1>1, <1>2
<1> QED BY <1>2, <1>3 DEF longer, blank

LEMMA AppendTokenBuffers ==
    ASSUME BufferInv, MemoryUnbounded, pc \in [Callers -> Stages],
           NEW c \in Callers, AppendToken(c)
    PROVE  BufferInv'
<1> DEFINE slice == tokens[c]
           inPlace == slice.len < Cap(slice)
           array == IF inPlace THEN slice.array ELSE Fresh(InUse)
           fresh == IF inPlace THEN {} ELSE {Fresh(InUse)}
<1>1. /\ pc[c] = "tokenize" /\ memory' = Appended(slice, Self(c), array)
      /\ tokens' = [tokens EXCEPT ![c] = [array |-> array, len |-> slice.len + 1]]
      /\ UNCHANGED <<pc, calls, scratch, previous, pool>>
  BY DEF AppendToken
<1>2. BufferTypes /\ CallOK(c) /\ Live(c) /\ IsFiniteSet(InUse)
  BY <1>1 DEF BufferInv, Live, Working
<1>3. /\ slice \in Slices /\ slice.len \in Nat /\ Cap(slice) \in Nat
      /\ slice.len <= Cap(slice) /\ Self(c) \in Cells
  BY <1>2, SliceTypes, CapType, SelfIsCell DEF Slices, CallOK
<1>4. /\ array \in Arrays /\ array # Nowhere
      /\ IsFiniteSet(fresh) /\ fresh \cap InUse \subseteq {Nowhere}
      /\ array \in {slice.array} \cup fresh
  <2>1. CASE inPlace
    BY <2>1, <1>3, FS_EmptySet DEF Slices, Cap, MemoryUnbounded
  <2>2. CASE ~inPlace
    <3>1. array = Fresh(InUse) /\ fresh = {Fresh(InUse)}
      BY <2>2
    <3>2. /\ Fresh(InUse) \in Arrays /\ Fresh(InUse) \notin InUse
          /\ Fresh(InUse) # Nowhere
      BY <1>2, FreshOK
    <3>3. IsFiniteSet({Fresh(InUse)})
      BY FS_Singleton
    <3> QED BY <3>1, <3>2, <3>3
  <2> QED BY <2>1, <2>2
<1>5. array \notin OffsetArrays(c)
  <2>1. CASE inPlace
    BY <2>1, <1>2, <1>4 DEF CallOK, IdArrays
  <2>2. CASE ~inPlace
    BY <2>2, <1>2, FreshOK, InUseOK DEF Own
  <2> QED BY <2>1, <2>2
<1>6. /\ memory' \in [Arrays -> Seq(Cells)] /\ slice.len + 1 <= Len(memory'[array])
      /\ \A a \in Arrays \ {array} : memory'[a] = memory[a]
      /\ \A i \in 1..(slice.len + 1) : memory'[array][i] = Self(c)
  <2>1. CASE inPlace
    <3>1. slice.array # Nowhere /\ Cap(slice) = Len(memory[array])
      BY <2>1, <1>4 DEF Cap
    <3>2. memory' = [memory EXCEPT ![array] = [memory[array] EXCEPT ![slice.len + 1] = Self(c)]]
      BY <2>1, <1>1 DEF Appended
    <3>3. memory[array] \in Seq(Cells)
      BY <1>2, <1>4 DEF BufferTypes
    <3>4. /\ memory'[array] = [memory[array] EXCEPT ![slice.len + 1] = Self(c)]
          /\ \A a \in Arrays \ {array} : memory'[a] = memory[a]
      BY <3>2, <1>2, <1>4 DEF BufferTypes
    <3>5. slice.len + 1 \in 1..Len(memory[array])
      BY <2>1, <3>1, <1>3
    <3>6. memory'[array] \in Seq(Cells) /\ Len(memory'[array]) = Len(memory[array])
      BY <3>3, <3>4, <3>5, <1>3
    <3>7. \A i \in 1..slice.len : memory[array][i] = Self(c)
      BY <2>1, <1>2 DEF CallOK
    <3>8. \A i \in 1..(slice.len + 1) : memory'[array][i] = Self(c)
      BY <3>3, <3>4, <3>5, <3>7, <1>3
    <3>9. memory' \in [Arrays -> Seq(Cells)]
      BY <3>2, <3>4, <3>6, <1>2 DEF BufferTypes
    <3> QED BY <3>4, <3>5, <3>6, <3>8, <3>9, <1>3
  <2>2. CASE ~inPlace
    <3> DEFINE old == IF slice.array = Nowhere THEN <<>> ELSE memory[slice.array]
               grown == Append(old, Self(c)) \o Blank(Len(old) - 1)
    <3>1. old \in Seq(Cells) /\ Len(old) = Cap(slice) /\ slice.len = Len(old)
      BY <2>2, <1>2, <1>3 DEF BufferTypes, Slices, Cap
    <3>2. /\ grown \in Seq(Cells) /\ Len(grown) >= Len(old) + 1
          /\ \A i \in 1..Len(old) : grown[i] = old[i]
          /\ grown[Len(old) + 1] = Self(c)
      BY <3>1, <1>3, Grown
    <3>3. memory' = [memory EXCEPT ![array] = grown]
      BY <2>2, <1>1 DEF Appended
    <3>4. \A i \in 1..slice.len : old[i] = Self(c)
      BY <3>1, <1>2 DEF CallOK, Cap
    <3> HIDE DEF grown, old
    <3>5. \A i \in 1..(slice.len + 1) : grown[i] = Self(c)
      BY <3>1, <3>2, <3>4, <1>3
    <3> QED BY <3>1, <3>2, <3>3, <3>5, <1>2, <1>4 DEF BufferTypes
  <2> QED BY <2>1, <2>2
<1> HIDE DEF array, fresh
<1>7. /\ tokens'[c] = [array |-> array, len |-> slice.len + 1]
      /\ \A d \in Callers \ {c} : tokens'[d] = tokens[d]
      /\ tokens' \in [Callers -> Slices]
  BY <1>1, <1>2, <1>3, <1>4 DEF BufferTypes, Slices
<1> HIDE DEF slice
<1>8. tokens'[c].array = array /\ tokens'[c].len = slice.len + 1
  BY <1>7
<1>9. BufferTypes'
  BY <1>1, <1>2, <1>6, <1>7 DEF BufferTypes
<1>10. /\ IdArrays(c)' \subseteq IdArrays(c) \cup fresh /\ OffsetArrays(c)' = OffsetArrays(c)
       /\ IdArrays(c)' \subseteq IdArrays(c) \cup {array}
  BY <1>1, <1>4, <1>8 DEF IdArrays, OffsetArrays, slice
<1>11. CallOK(c)'
  <2>1. IdArrays(c)' \cap OffsetArrays(c)' \subseteq {Nowhere}
    BY <1>2, <1>5, <1>10 DEF CallOK
  <2>2. tokens'[c].len <= Cap(tokens[c])'
    BY <1>4, <1>6, <1>8 DEF Cap
  <2>3. \A i \in 1..tokens'[c].len : memory'[tokens'[c].array][i] = Self(c)'
    BY <1>1, <1>6, <1>8 DEF Self
  <2>4. scratch[c].offsets.len = 0 /\ scratch[c].offsets \in Slices
    BY <1>1, <1>2, SliceTypes DEF CallOK
  <2>5. Cap(scratch[c].offsets)' \in Nat
    BY <1>1, <1>6, <2>4 DEF Cap, Slices
  <2> QED BY <1>1, <1>3, <2>1, <2>2, <2>3, <2>4, <2>5 DEF CallOK
<1>12. CallStep(c, fresh)
  <2>1. Live(c)' /\ pool' = pool /\ \A d \in Callers \ {c} : Same(d)
    BY <1>1, <1>2, <1>7 DEF Live, Same
  <2>2. Own(c)' \subseteq Own(c) \cup fresh
    BY <1>10 DEF Own
  <2>3. Untouched(Arrays \ (Own(c) \cup fresh))
    BY <1>4, <1>6 DEF Untouched, Own, IdArrays, slice
  <2> QED BY <1>2, <1>4, <1>9, <1>11, <2>1, <2>2, <2>3 DEF CallStep
<1> QED BY <1>12, CallStepBuffers

LEMMA MakeOffsetsBuffers ==
    ASSUME BufferInv, MemoryUnbounded, pc \in [Callers -> Stages],
           NEW c \in Callers, MakeOffsets(c)
    PROVE  BufferInv'
<1> DEFINE slice == scratch[c].offsets
           count == tokens[c].len
           small == Cap(slice) < count
           array == IF small THEN Fresh(InUse) ELSE slice.array
           fresh == IF small THEN {Fresh(InUse)} ELSE {}
           size  == IF small THEN count ELSE Cap(slice)
           cells == [i \in 1..size |-> IF i <= count THEN Self(c)
                                       ELSE IF small THEN <<>> ELSE memory[array][i]]
           made  == [array |-> array, len |-> count]
<1>1. /\ pc[c] = "offsets" /\ pc' = [pc EXCEPT ![c] = "collect"]
      /\ memory' = [memory EXCEPT ![array] = cells]
      /\ scratch' = [scratch EXCEPT ![c] = [scratch[c] EXCEPT !.offsets = made]]
      /\ UNCHANGED <<calls, previous, tokens, pool>>
  BY DEF MakeOffsets, Goto
<1>2. BufferTypes /\ CallOK(c) /\ Live(c) /\ IsFiniteSet(InUse)
  BY <1>1 DEF BufferInv, Live, Working
<1>3. /\ slice \in Slices /\ scratch[c] \in Scratches /\ count \in Nat /\ count > 0
      /\ Cap(slice) \in Nat /\ Self(c) \in Cells
  BY <1>1, <1>2, SliceTypes, CapType, SelfIsCell DEF Slices, CallOK
<1>4. /\ array \in Arrays /\ array # Nowhere
      /\ IsFiniteSet(fresh) /\ fresh \cap InUse \subseteq {Nowhere}
      /\ array \in {slice.array} \cup fresh
  <2>1. CASE ~small
    BY <2>1, <1>3, FS_EmptySet DEF Slices, Cap, MemoryUnbounded
  <2>2. CASE small
    <3>1. array = Fresh(InUse) /\ fresh = {Fresh(InUse)}
      BY <2>2
    <3>2. /\ Fresh(InUse) \in Arrays /\ Fresh(InUse) \notin InUse
          /\ Fresh(InUse) # Nowhere
      BY <1>2, FreshOK
    <3>3. IsFiniteSet({Fresh(InUse)})
      BY FS_Singleton
    <3> QED BY <3>1, <3>2, <3>3
  <2> QED BY <2>1, <2>2
<1>5. array \notin IdArrays(c)
  <2>1. CASE ~small
    BY <2>1, <1>2, <1>4 DEF CallOK, OffsetArrays
  <2>2. CASE small
    BY <2>2, <1>2, FreshOK, InUseOK DEF Own
  <2> QED BY <2>1, <2>2
<1>6. size \in Nat /\ size >= count
  BY <1>3
<1>7. cells \in Seq(Cells) /\ Len(cells) = size
  <2>1. ASSUME NEW i \in 1..size PROVE cells[i] \in Cells
    <3>1. ~small => memory[array][i] \in Cells
      BY <1>2, <1>4 DEF BufferTypes, Cap
    <3> QED BY <3>1, <1>3 DEF Cells
  <2> HIDE DEF size, array, small, count
  <2> QED BY <2>1, <1>6
<1>8. \A i \in 1..count : cells[i] = Self(c)
  BY <1>3, <1>6
<1> HIDE DEF cells, array, fresh, size, small
<1>9. /\ memory' \in [Arrays -> Seq(Cells)] /\ memory'[array] = cells
      /\ \A a \in Arrays \ {array} : memory'[a] = memory[a]
  BY <1>1, <1>2, <1>4, <1>7 DEF BufferTypes
<1>10. made \in Slices /\ made.array = array /\ made.len = count
  BY <1>3, <1>4 DEF Slices
<1> HIDE DEF made
<1>11. /\ scratch'[c] = [scratch[c] EXCEPT !.offsets = made]
       /\ \A d \in Callers \ {c} : scratch'[d] = scratch[d]
  BY <1>1, <1>2 DEF BufferTypes
<1>12. /\ scratch'[c] \in Scratches /\ scratch'[c].offsets = made
       /\ scratch'[c].ids = scratch[c].ids
  BY <1>3, <1>10, <1>11 DEF Scratches
<1>13. BufferTypes'
  BY <1>1, <1>2, <1>9, <1>12 DEF BufferTypes
<1>14. pc'[c] = "collect" /\ \A d \in Callers \ {c} : pc'[d] = pc[d]
  BY <1>1
<1>15. /\ IdArrays(c)' = IdArrays(c)
       /\ OffsetArrays(c)' \subseteq OffsetArrays(c) \cup {array}
       /\ OffsetArrays(c)' \subseteq OffsetArrays(c) \cup fresh
  BY <1>1, <1>4, <1>10, <1>12 DEF IdArrays, OffsetArrays
<1>16. CallOK(c)'
  <2>1. IdArrays(c)' \cap OffsetArrays(c)' \subseteq {Nowhere}
    BY <1>2, <1>5, <1>15 DEF CallOK
  <2>2. Untouched({tokens[c].array})
    BY <1>5, <1>9 DEF Untouched, IdArrays
  <2>3. tokens[c] \in Slices /\ tokens[c].len <= Cap(tokens[c])
    BY <1>2, SliceTypes DEF CallOK
  <2>4. Cap(tokens[c])' = Cap(tokens[c])
    BY <1>1, <2>2, <2>3 DEF Cap, Slices, Untouched
  <2>5. \A i \in 1..tokens[c].len : memory'[tokens[c].array][i] = memory[tokens[c].array][i]
    BY <1>2, <2>2, <2>3, ContentKept
  <2>6. /\ Self(c)' = Self(c) /\ tokens'[c] = tokens[c]
        /\ scratch'[c].offsets.array = array /\ scratch'[c].offsets.len = count
    BY <1>1, <1>10, <1>12 DEF Self
  <2>7. scratch'[c].offsets.len <= Cap(scratch[c].offsets)'
    BY <1>4, <1>6, <1>7, <1>9, <2>6 DEF Cap
  <2>8. \A i \in 1..scratch'[c].offsets.len :
            memory'[scratch'[c].offsets.array][i] = Self(c)'
    BY <1>8, <1>9, <2>6
  <2>9. tokens'[c].len <= Cap(tokens[c])'
    BY <2>3, <2>4, <2>6
  <2>10. \A i \in 1..tokens'[c].len : memory'[tokens'[c].array][i] = Self(c)'
    BY <1>2, <2>5, <2>6 DEF CallOK
  <2> QED BY <1>14, <2>1, <2>7, <2>8, <2>9, <2>10 DEF CallOK
<1>17. CallStep(c, fresh)
  <2>1. Live(c)' /\ pool' = pool /\ \A d \in Callers \ {c} : Same(d)
    BY <1>1, <1>11, <1>14 DEF Live, Working, Same
  <2>2. Own(c)' \subseteq Own(c) \cup fresh
    BY <1>15 DEF Own
  <2>3. Untouched(Arrays \ (Own(c) \cup fresh))
    BY <1>4, <1>9 DEF Untouched, Own, OffsetArrays
  <2> QED BY <1>2, <1>4, <1>13, <1>16, <2>1, <2>2, <2>3 DEF CallStep
<1> QED BY <1>17, CallStepBuffers

-----------------------------------------------------------------------------
(* A scratch that is taken out of the pool, or made: what remains of the   *)
(* pool are other elements of it, and nothing else refers to its arrays.   *)
Taken(s, from) ==
    /\ s \in Scratches /\ PooledOK(s) /\ ArraysOf(s) \subseteq InUse \cup {Nowhere}
    /\ pool' \in Seq(Scratches)
    /\ \A j \in DOMAIN pool' : from[j] \in DOMAIN pool /\ pool'[j] = pool[from[j]]
    /\ \A j, k \in DOMAIN pool' : j # k => from[j] # from[k]
    /\ \A j \in DOMAIN pool' : ArraysOf(s) \cap ArraysOf(pool'[j]) \subseteq {Nowhere}
    /\ \A d \in Callers : Live(d) => Own(d) \cap ArraysOf(s) \subseteq {Nowhere}

LEMMA RemovedOK ==
    ASSUME NEW q \in Seq(Scratches), NEW i \in 1..Len(q)
    PROVE  LET rest == SubSeq(q, 1, i - 1) \o SubSeq(q, i + 1, Len(q))
           IN  /\ rest \in Seq(Scratches) /\ Len(rest) = Len(q) - 1
               /\ \A j \in 1..Len(rest) : rest[j] = q[IF j < i THEN j ELSE j + 1]
<1> DEFINE head == SubSeq(q, 1, i - 1)
           tail == SubSeq(q, i + 1, Len(q))
<1>1. /\ head \in Seq(Scratches) /\ Len(head) = i - 1
      /\ \A j \in 1..(i - 1) : head[j] = q[j]
  OBVIOUS
<1>2. /\ tail \in Seq(Scratches) /\ Len(tail) = Len(q) - i
      /\ \A j \in 1..(Len(q) - i) : tail[j] = q[i + j]
  <2>1. /\ i \in 1..Len(q) /\ Len(q) \in Nat /\ q \in [1..Len(q) -> Scratches]
    OBVIOUS
  <2>2. tail = [j \in 1..(Len(q) - i) |-> q[i + j]]
    <3>1. \A m, n \in Int : SubSeq(q, m, n) = [j \in 1..(1 + n - m) |-> q[j + m - 1]]
      OBVIOUS
    <3>2. tail = [j \in 1..(1 + Len(q) - (i + 1)) |-> q[j + (i + 1) - 1]]
      BY <2>1, <3>1
    <3> HIDE DEF tail
    <3>3. 1 + Len(q) - (i + 1) = Len(q) - i
      BY <2>1
    <3>4. \A j \in 1..(Len(q) - i) : j + (i + 1) - 1 = i + j
      BY <2>1
    <3> QED BY <3>2, <3>3, <3>4
  <2> HIDE DEF tail
  <2>3. \A j \in 1..(Len(q) - i) : q[i + j] \in Scratches
    BY <2>1
  <2>4. Len(q) - i \in Nat
    BY <2>1
  <2> DEFINE n == Len(q) - i
  <2>5. tail = [j \in 1..n |-> q[i + j]] /\ n \in Nat
        /\ \A j \in 1..n : q[i + j] \in Scratches
    BY <2>2, <2>3, <2>4
  <2>6. tail \in Seq(Scratches) /\ Len(tail) = n
    <3> HIDE DEF n
    <3> QED BY <2>5
  <2> QED BY <2>2, <2>6
<1> HIDE DEF head, tail
<1>0. i \in 1..Len(q) /\ Len(q) \in Nat /\ i \in Int /\ i - 1 + (Len(q) - i) = Len(q) - 1
  OBVIOUS
<1>3. head \o tail \in Seq(Scratches) /\ Len(head \o tail) = Len(q) - 1
  <2>1. Len(head \o tail) = Len(head) + Len(tail)
    <3>1. ASSUME NEW S, NEW a \in Seq(S), NEW b \in Seq(S)
          PROVE  Len(a \o b) = Len(a) + Len(b)
      OBVIOUS
    <3> QED BY <1>1, <1>2, <3>1
  <2> QED BY <1>0, <1>1, <1>2, <2>1
<1>4. ASSUME NEW j \in 1..(Len(q) - 1)
      PROVE  (head \o tail)[j] = q[IF j < i THEN j ELSE j + 1]
  <2>1. CASE j < i
    <3>1. j \in 1..(i - 1)
      BY <2>1
    <3>2. (head \o tail)[j] = head[j]
      BY <1>1, <1>2, <3>1
    <3> QED BY <1>1, <2>1, <3>1, <3>2
  <2>2. CASE j >= i
    <3>1. j - (i - 1) \in 1..(Len(q) - i) /\ i + (j - (i - 1)) = j + 1
      BY <2>2
    <3>2. (head \o tail)[j] = tail[j - (i - 1)]
      BY <1>1, <1>2, <2>2
    <3> QED BY <1>2, <2>2, <3>1, <3>2
  <2>3. j < i \/ j >= i
    BY <1>0
  <2> QED BY <2>1, <2>2, <2>3
<1> QED BY <1>3, <1>4 DEF head, tail

LEMMA TakenOK ==
    ASSUME BufferInv, NEW c \in Callers, Get(c)
    PROVE  \E from : Taken(scratch'[c], from)
<1>1. BufferTypes /\ PoolApart /\ CallsPoolApart
  BY DEF BufferInv
<1>2. CASE scratch' = [scratch EXCEPT ![c] = EmptyScratch] /\ pool' = pool
  <2> DEFINE from == [j \in DOMAIN pool |-> j]
  <2>1. scratch'[c] = EmptyScratch
    BY <1>1, <1>2 DEF BufferTypes
  <2>2. EmptyScratch \in Scratches /\ PooledOK(EmptyScratch)
        /\ ArraysOf(EmptyScratch) = {Nowhere}
    <3>1. NilSlice \in Slices /\ NilSlice.array = Nowhere /\ NilSlice.len = 0
      BY DEF NilSlice, Slices
    <3>2. EmptyScratch \in Scratches /\ EmptyScratch.ids = NilSlice
          /\ EmptyScratch.offsets = NilSlice
      BY <3>1 DEF EmptyScratch, Scratches
    <3>3. Cap(NilSlice) = 0
      BY <3>1 DEF Cap
    <3>4. TokenCap >= 0
      <4>1. TokenCap \in Nat
        BY CallsAssumption, Zenon
      <4> QED BY <4>1
    <3> QED BY <3>1, <3>2, <3>3, <3>4 DEF PooledOK, ArraysOf
  <2>3. Taken(EmptyScratch, from)
    BY <1>1, <1>2, <2>2 DEF Taken, BufferTypes
  <2> QED BY <2>1, <2>3
<1>3. ASSUME NEW i \in DOMAIN pool, scratch' = [scratch EXCEPT ![c] = pool[i]],
             pool' = SubSeq(pool, 1, i - 1) \o SubSeq(pool, i + 1, Len(pool))
      PROVE  \E from : Taken(scratch'[c], from)
  <2> DEFINE from == [j \in 1..(Len(pool) - 1) |-> IF j < i THEN j ELSE j + 1]
  <2>1. scratch'[c] = pool[i] /\ pool \in Seq(Scratches) /\ i \in 1..Len(pool)
    BY <1>1, <1>3 DEF BufferTypes
  <2>2. /\ pool' \in Seq(Scratches) /\ Len(pool') = Len(pool) - 1
        /\ \A j \in 1..Len(pool') : pool'[j] = pool[IF j < i THEN j ELSE j + 1]
    BY <1>3, <2>1, RemovedOK
  <2>3. DOMAIN pool' = 1..(Len(pool) - 1) /\ DOMAIN pool = 1..Len(pool)
    BY <2>1, <2>2
  <2>4. \A j \in DOMAIN pool' : /\ from[j] \in DOMAIN pool /\ from[j] # i
                                /\ pool'[j] = pool[from[j]]
    BY <2>1, <2>2, <2>3
  <2>5. \A j, k \in DOMAIN pool' : j # k => from[j] # from[k]
    BY <2>1, <2>3
  <2> HIDE DEF from
  <2>6. pool[i] \in Scratches /\ PooledOK(pool[i]) /\ ArraysOf(pool[i]) \subseteq InUse
    BY <2>1, InUseOK DEF BufferInv
  <2>7. \A j \in DOMAIN pool' : ArraysOf(pool[i]) \cap ArraysOf(pool'[j]) \subseteq {Nowhere}
    BY <1>1, <2>4 DEF PoolApart
  <2>8. \A d \in Callers : Live(d) => Own(d) \cap ArraysOf(pool[i]) \subseteq {Nowhere}
    BY <1>1 DEF CallsPoolApart
  <2>9. Taken(pool[i], from)
    BY <2>2, <2>4, <2>5, <2>6, <2>7, <2>8 DEF Taken
  <2> QED BY <2>1, <2>9
<1> QED BY <1>2, <1>3 DEF Get

LEMMA GetBuffers ==
    ASSUME BufferInv, MemoryUnbounded, pc \in [Callers -> Stages], NEW c \in Callers, Get(c)
    PROVE  BufferInv'
<1> DEFINE s == scratch'[c]
<1>1. PICK from : Taken(s, from)
  BY TakenOK
<1>2. /\ pc[c] = "ready" /\ pc' = [pc EXCEPT ![c] = "tokenize"]
      /\ previous' = [previous EXCEPT ![c] = s]
      /\ tokens' = [tokens EXCEPT ![c] = Rewound(s.ids)]
      /\ calls' = [calls EXCEPT ![c] = calls[c] + 1]
      /\ memory' = memory
      /\ \E t : scratch' = [scratch EXCEPT ![c] = t]
  BY DEF Get, Goto
<1>3. BufferTypes /\ CallsApart /\ PoolApart /\ CallsPoolApart /\ ~Live(c)
      /\ Nowhere \notin Arrays
  BY <1>2 DEF BufferInv, Live, Working, MemoryUnbounded
<1>4. s \in Scratches /\ s.ids \in Slices /\ s.offsets \in Slices /\ PooledOK(s)
      /\ s.ids.len = 0 /\ s.offsets.len = 0
  BY <1>1 DEF Taken, Scratches, PooledOK
<1>5. Rewound(s.ids) = s.ids
  BY <1>4 DEF Rewound, Slices
<1>6. /\ previous'[c] = s /\ tokens'[c] = s.ids /\ pc'[c] = "tokenize"
      /\ \A d \in Callers \ {c} : Same(d)
  BY <1>2, <1>3, <1>5 DEF BufferTypes, Same
<1>7. scratch' \in [Callers -> Scratches]
  <2>1. PICK t : scratch' = [scratch EXCEPT ![c] = t]
    BY <1>2
  <2>2. s = t
    BY <2>1, <1>3 DEF BufferTypes
  <2> QED BY <1>3, <1>4, <2>1, <2>2 DEF BufferTypes
<1>8. BufferTypes'
  BY <1>1, <1>2, <1>3, <1>4, <1>5, <1>7 DEF BufferTypes, Taken
<1> HIDE DEF s
<1>9. /\ IdArrays(c)' = {s.ids.array} /\ OffsetArrays(c)' = {s.offsets.array}
      /\ Own(c)' = ArraysOf(s)
  BY <1>6 DEF IdArrays, OffsetArrays, Own, ArraysOf, s
<1>10. \A d \in Callers \ {c} : Own(d)' = Own(d) /\ Live(d)' = Live(d)
  BY <1>6, SameOwn
<1>11. CallOK(c)'
  <2>1. Cap(s.ids) \in Nat /\ Cap(s.offsets) \in Nat
    BY <1>3, <1>4, CapType
  <2>2. Cap(tokens[c])' \in Nat /\ Cap(scratch[c].offsets)' \in Nat
    BY <1>2, <1>6, <2>1 DEF Cap, s
  <2> QED BY <1>4, <1>6, <1>9, <2>2 DEF CallOK, PooledOK, s
<1>12. ASSUME NEW d \in Callers, Live(d)'
       PROVE  CallOK(d)'
  <2>1. CASE d = c
    BY <1>11, <2>1
  <2>2. CASE d # c
    BY <1>2, <1>3, <1>6, <1>10, <1>12, <2>2, CallKept DEF BufferInv, Untouched
  <2> QED BY <2>1, <2>2
<1>13. (\A i \in DOMAIN pool : PooledOK(pool[i]))'
  BY <1>1, <1>2 DEF Taken, BufferInv, PooledOK, Cap
<1>14. CallsApart' /\ CallsPoolApart'
  <2>1. CallsApart'
    BY <1>1, <1>3, <1>9, <1>10 DEF CallsApart, Taken
  <2>2. ASSUME NEW d \in Callers, NEW i \in DOMAIN pool', Live(d)'
        PROVE  Own(d)' \cap ArraysOf(pool'[i]) \subseteq {Nowhere}
    <3>1. CASE d = c
      BY <1>1, <1>9, <3>1 DEF Taken
    <3>2. CASE d # c
      BY <1>1, <1>3, <1>10, <2>2, <3>2 DEF CallsPoolApart, Taken
    <3> QED BY <3>1, <3>2
  <2> QED BY <2>1, <2>2 DEF CallsPoolApart, ArraysOf
<1>15. PoolApart'
  BY <1>1, <1>3 DEF PoolApart, Taken, ArraysOf
<1>16. IsFiniteSet(InUse')
  <2>1. InUse' \subseteq InUse \cup {Nowhere}
    <3> SUFFICES ASSUME NEW a \in InUse' PROVE a \in InUse \cup {Nowhere}
      OBVIOUS
    <3>1. \/ \E d \in Callers : Live(d)' /\ a \in Own(d)'
          \/ \E i \in DOMAIN pool' : a \in ArraysOf(pool'[i])
      BY DEF InUse, CallArrays, PoolArrays, ArraysOf, Own, IdArrays, OffsetArrays,
             Live, Working
    <3>2. ASSUME NEW d \in Callers, Live(d)', a \in Own(d)' PROVE a \in InUse \cup {Nowhere}
      BY <1>1, <1>9, <1>10, <3>2, InUseOK DEF Taken
    <3>3. ASSUME NEW i \in DOMAIN pool', a \in ArraysOf(pool'[i]) PROVE a \in InUse
      BY <1>1, <3>3, InUseOK DEF Taken
    <3> QED BY <3>1, <3>2, <3>3
  <2>2. IsFiniteSet(InUse \cup {Nowhere})
    BY FS_AddElement DEF BufferInv
  <2> QED BY <2>1, <2>2, FS_Subset
<1> QED BY <1>8, <1>12, <1>13, <1>14, <1>15, <1>16 DEF BufferInv

-----------------------------------------------------------------------------
(* What the pool keeps of one buffer: an array of the call that is small   *)
(* enough, or the one that is made for it.                                 *)
LEMMA KeptOK ==
    ASSUME BufferTypes, NEW current \in Slices, NEW reserve \in Slices, NEW array
    PROVE  /\ Kept(current, reserve, array).len = 0
           /\ \/ Kept(current, reserve, array).array = array
              \/ /\ Kept(current, reserve, array).array \in
                        {Nowhere, current.array, reserve.array}
                 /\ Cap(Kept(current, reserve, array)) <= TokenCap
<1>1. \A s \in Slices : /\ Rewound(s).len = 0 /\ Rewound(s).array = s.array
                        /\ Cap(Rewound(s)) = Cap(s)
  BY DEF Rewound, Slices, Cap
<1>2. NilSlice.array = Nowhere /\ NilSlice.len = 0 /\ Cap(NilSlice) = 0
  BY DEF NilSlice, Cap
<1>3. TokenCap \in Nat
  BY CallsAssumption, Zenon
<1>4. Cap(current) \in Nat /\ Cap(reserve) \in Nat
  BY CapType
<1> DEFINE k == RetainBuffer(current, reserve)
           made == [array |-> array, len |-> 0]
<1>5. /\ k.len = 0 /\ k.array \in {Nowhere, current.array, reserve.array}
      /\ Cap(k) <= TokenCap
  <2>1. CASE Cap(current) <= TokenCap
    BY <1>1, <2>1 DEF RetainBuffer
  <2>2. CASE ~(Cap(current) <= TokenCap) /\ Cap(reserve) = TokenCap
    BY <1>1, <1>3, <2>2 DEF RetainBuffer
  <2>3. CASE ~(Cap(current) <= TokenCap) /\ Cap(reserve) # TokenCap
    BY <1>2, <1>3, <2>3 DEF RetainBuffer
  <2> QED BY <2>1, <2>2, <2>3
<1>6. Kept(current, reserve, array) = k \/ Kept(current, reserve, array) = made
  BY DEF Kept
<1>7. made.array = array /\ made.len = 0
  OBVIOUS
<1> HIDE DEF k, made
<1> QED BY <1>5, <1>6, <1>7

(* The last step of a call: its buffers, or fresh ones, go to the pool.    *)
PutStep(c, kept, fresh) ==
    /\ Live(c) /\ ~Live(c)' /\ BufferTypes'
    /\ \A d \in Callers \ {c} : Same(d)
    /\ pool' = Append(pool, kept) /\ kept \in Scratches /\ PooledOK(kept)'
    /\ IsFiniteSet(fresh) /\ fresh \cap InUse = {} /\ ArraysOf(kept) \subseteq Own(c) \cup fresh \cup {Nowhere}
    /\ Untouched((PoolArrays \cup CallArrays(Callers \ {c})) \ fresh)

LEMMA PutStepBuffers ==
    ASSUME BufferInv, MemoryUnbounded, NEW c \in Callers, NEW kept, NEW fresh,
           PutStep(c, kept, fresh)
    PROVE  BufferInv'
<1> USE DEF PutStep
<1>1. BufferTypes /\ CallsApart /\ PoolApart /\ CallsPoolApart /\ Nowhere \notin Arrays
  BY DEF BufferInv, MemoryUnbounded
<1>2. \A d \in Callers \ {c} : Own(d)' = Own(d) /\ Live(d)' = Live(d)
  BY SameOwn
<1>3. ASSUME NEW d \in Callers \ {c}, Live(d)
      PROVE  /\ Own(d) \cap (Own(c) \cup fresh) \subseteq {Nowhere}
             /\ Untouched(Own(d))
  <2>1. Own(d) \subseteq InUse /\ Own(d) \cap Own(c) \subseteq {Nowhere}
    BY <1>1, <1>3, InUseOK DEF CallsApart
  <2>2. Own(d) \subseteq CallArrays(Callers \ {c})
    <3>1. PICK D : D = Callers \ {c}
      OBVIOUS
    <3>2. Own(d) \subseteq CallArrays(D)
      BY <1>3, <3>1, OwnInCalls
    <3> QED BY <3>1, <3>2
  <2> QED BY <2>1, <2>2 DEF Untouched
<1>4. ASSUME NEW i \in DOMAIN pool
      PROVE  /\ ArraysOf(pool[i]) \cap (Own(c) \cup fresh) \subseteq {Nowhere}
             /\ Untouched(ArraysOf(pool[i]))
  <2>1. ArraysOf(pool[i]) \subseteq InUse /\ ArraysOf(pool[i]) \cap Own(c) \subseteq {Nowhere}
    BY <1>1, InUseOK DEF CallsPoolApart
  <2>2. ArraysOf(pool[i]) \subseteq PoolArrays
    BY DEF PoolArrays
  <2> QED BY <2>1, <2>2 DEF Untouched
<1>5. /\ DOMAIN pool' = 1..(Len(pool) + 1) /\ DOMAIN pool = 1..Len(pool) /\ Len(pool) \in Nat
      /\ pool'[Len(pool) + 1] = kept
      /\ \A i \in DOMAIN pool : pool'[i] = pool[i]
  BY <1>1 DEF BufferTypes
<1>6. \A i \in DOMAIN pool' : \/ pool'[i] = kept /\ i = Len(pool) + 1
                              \/ i \in DOMAIN pool /\ pool'[i] = pool[i]
  <2>1. \A n \in Nat : \A i \in 1..(n + 1) : i = n + 1 \/ i \in 1..n
    OBVIOUS
  <2> QED BY <1>5, <2>1
<1>7. ASSUME NEW d \in Callers, Live(d)'
      PROVE  CallOK(d)'
  <2>1. d # c /\ Same(d) /\ Live(d)
    BY <1>2, <1>7
  <2> QED BY <1>1, <1>3, <2>1, CallKept DEF BufferInv
<1>8. ASSUME NEW i \in DOMAIN pool'
      PROVE  PooledOK(pool[i])'
  <2>1. CASE pool'[i] = kept
    BY <2>1 DEF PooledOK, Cap
  <2>2. CASE i \in DOMAIN pool /\ pool'[i] = pool[i]
    <3>1. pool[i] \in Scratches /\ PooledOK(pool[i]) /\ Untouched(ArraysOf(pool[i]))
      BY <1>1, <1>4, <2>2 DEF BufferInv, BufferTypes
    <3>2. \A s \in Scratches : Untouched(ArraysOf(s)) /\ PooledOK(s) => PooledOK(s)'
      BY PooledKept
    <3> QED BY <2>2, <3>1, <3>2 DEF PooledOK, Cap
  <2> QED BY <1>6, <2>1, <2>2
<1>9. CallsApart'
  BY <1>1, <1>2 DEF CallsApart
<1>10. ASSUME NEW i \in DOMAIN pool', NEW j \in DOMAIN pool', i # j
       PROVE  ArraysOf(pool'[i]) \cap ArraysOf(pool'[j]) \subseteq {Nowhere}
  <2>1. CASE i \in DOMAIN pool /\ pool'[i] = pool[i] /\ j \in DOMAIN pool /\ pool'[j] = pool[j]
    BY <1>1, <1>10, <2>1 DEF PoolApart
  <2>2. CASE pool'[i] = kept /\ j \in DOMAIN pool /\ pool'[j] = pool[j]
    BY <1>4, <2>2
  <2>3. CASE i \in DOMAIN pool /\ pool'[i] = pool[i] /\ pool'[j] = kept
    BY <1>4, <2>3
  <2> QED BY <1>6, <1>10, <2>1, <2>2, <2>3
<1>11. ASSUME NEW d \in Callers, NEW i \in DOMAIN pool', Live(d)'
       PROVE  Own(d)' \cap ArraysOf(pool'[i]) \subseteq {Nowhere}
  <2>1. d # c /\ Live(d) /\ Own(d)' = Own(d)
    BY <1>2, <1>11
  <2>2. CASE pool'[i] = kept
    BY <1>3, <2>1, <2>2
  <2>3. CASE i \in DOMAIN pool /\ pool'[i] = pool[i]
    BY <1>1, <2>1, <2>3 DEF CallsPoolApart
  <2> QED BY <1>6, <2>2, <2>3
<1>12. PoolApart' /\ CallsPoolApart'
  BY <1>10, <1>11 DEF PoolApart, CallsPoolApart, ArraysOf
<1>13. IsFiniteSet(InUse')
  <2>1. InUse' \subseteq InUse \cup (fresh \cup {Nowhere})
    <3> SUFFICES ASSUME NEW a \in InUse' PROVE a \in InUse \cup (fresh \cup {Nowhere})
      OBVIOUS
    <3>1. \/ \E d \in Callers : Live(d)' /\ a \in Own(d)'
          \/ \E i \in DOMAIN pool' : a \in ArraysOf(pool'[i])
      BY SMTT(30) DEF InUse, CallArrays, PoolArrays, ArraysOf, Own, IdArrays, OffsetArrays,
             Live, Working
    <3>2. ASSUME NEW d \in Callers, Live(d)', a \in Own(d)' PROVE a \in InUse
      BY <1>2, <3>2, InUseOK
    <3>3. ASSUME NEW i \in DOMAIN pool', a \in ArraysOf(pool'[i])
          PROVE  a \in InUse \cup (fresh \cup {Nowhere})
      BY <1>6, <3>3, InUseOK
    <3> QED BY <3>1, <3>2, <3>3
  <2>2. IsFiniteSet(fresh \cup {Nowhere})
    BY FS_AddElement
  <2>3. IsFiniteSet(InUse \cup (fresh \cup {Nowhere}))
    BY <2>2, FS_Union DEF BufferInv
  <2> QED BY <2>1, <2>3, FS_Subset
<1> QED BY <1>7, <1>8, <1>9, <1>12, <1>13 DEF BufferInv

(* One buffer that goes to the pool, and the capacity it has there.        *)
LEMMA KeptFits ==
    ASSUME NEW kept \in Slices, NEW fresh, NEW array \in fresh,
           BufferTypes, Nowhere \notin fresh,
           \/ kept.array = array
           \/ kept.array \notin fresh /\ Cap(kept) <= TokenCap,
           kept.array \in fresh => memory'[kept.array] = Blank(TokenCap),
           kept.array \notin fresh => Untouched({kept.array})
    PROVE  Cap(kept)' <= TokenCap
<1>1. TokenCap \in Nat
  BY CallsAssumption, Zenon
<1>2. CASE kept.array = array
  <2>1. Len(Blank(TokenCap)) = TokenCap
    BY <1>1, BlankOK
  <2> QED BY <1>1, <1>2, <2>1 DEF Cap
<1>3. CASE kept.array \notin fresh /\ Cap(kept) <= TokenCap
  <2>1. Cap(kept)' = Cap(kept)
    BY <1>3, CapKept
  <2> QED BY <1>3, <2>1
<1> QED BY <1>2, <1>3

LEMMA PutBuffers ==
    ASSUME BufferInv, MemoryUnbounded, pc \in [Callers -> Stages], NEW c \in Callers, Put(c)
    PROVE  BufferInv'
<1>1. PICK first, second, ids, offsets :
         /\ first = Fresh(InUse) /\ second = Fresh(InUse \cup {first})
         /\ ids = Kept(scratch[c].ids, previous[c].ids, first)
         /\ offsets = Kept(scratch[c].offsets, previous[c].offsets, second)
  OBVIOUS
<1> DEFINE fresh == {first, second}
           kept  == [ids |-> ids, offsets |-> offsets]
           used  == PoolArrays \cup CallArrays(Callers \ {c}) \cup ArraysOf(kept)
<1>2. /\ pc[c] = "collect" /\ pc' = [pc EXCEPT ![c] = "ready"]
      /\ pool' = Append(pool, kept)
      /\ scratch' = [scratch EXCEPT ![c] = EmptyScratch]
      /\ previous' = [previous EXCEPT ![c] = EmptyScratch]
      /\ tokens' = [tokens EXCEPT ![c] = NilSlice] /\ calls' = calls
      /\ memory' = [a \in Arrays |-> IF a \in used
                                     THEN IF a \in ArraysOf(kept) \cap fresh
                                          THEN Blank(TokenCap) ELSE memory[a]
                                     ELSE <<>>]
  <2>1. kept = Retained(c, <<first, second>>)
    BY <1>1 DEF Retained
  <2> HIDE DEF kept
  <2>2. Put(c)
    OBVIOUS
  <2> QED BY <1>1, <2>1, <2>2 DEF Put, Goto, Pooled, Collected
<1>3. /\ BufferTypes /\ CallOK(c) /\ Live(c) /\ IsFiniteSet(InUse)
      /\ TokenCap \in Nat /\ Nowhere \notin Arrays
  <2>1. TokenCap \in Nat
    BY CallsAssumption, Zenon
  <2> QED BY <1>2, <2>1 DEF BufferInv, Live, Working, MemoryUnbounded
<1>4. /\ first \in Arrays /\ second \in Arrays /\ first # second
      /\ first \notin InUse /\ second \notin InUse
      /\ first # Nowhere /\ second # Nowhere
  <2>1. first \in Arrays /\ first \notin InUse /\ first # Nowhere
        /\ IsFiniteSet(InUse \cup {first})
    BY <1>1, <1>3, FreshOK
  <2>2. second \in Arrays /\ second \notin InUse \cup {first} /\ second # Nowhere
    BY <1>1, <2>1, FreshOK
  <2> QED BY <2>1, <2>2
<1>5. kept.ids = ids /\ kept.offsets = offsets /\ ArraysOf(kept) = {ids.array, offsets.array}
  BY DEF ArraysOf
<1> HIDE DEF kept
<1>6. /\ scratch[c].ids \in Slices /\ scratch[c].offsets \in Slices
      /\ previous[c].ids \in Slices /\ previous[c].offsets \in Slices
  BY <1>3, SliceTypes
<1>7. /\ ids.len = 0
      /\ \/ ids.array = first
         \/ /\ ids.array \in {Nowhere} \cup IdArrays(c) /\ Cap(ids) <= TokenCap
  BY <1>1, <1>3, <1>6, KeptOK DEF IdArrays
<1>8. /\ offsets.len = 0
      /\ \/ offsets.array = second
         \/ /\ offsets.array \in {Nowhere} \cup OffsetArrays(c) /\ Cap(offsets) <= TokenCap
  BY <1>1, <1>3, <1>6, KeptOK DEF OffsetArrays
<1>9. IdArrays(c) \cup OffsetArrays(c) \subseteq (Arrays \cup {Nowhere}) \cap InUse
  <2>1. IdArrays(c) \cup OffsetArrays(c) \subseteq Arrays \cup {Nowhere}
    BY <1>3, <1>6, SliceTypes DEF IdArrays, OffsetArrays, Slices
  <2> QED BY <1>3, <2>1, InUseOK DEF Own
<1>10. ids \in Slices /\ offsets \in Slices
  <2>1. Kept(scratch[c].ids, previous[c].ids, first) \in Slices
    BY <1>4, <1>6 DEF Kept, RetainBuffer, Rewound, NilSlice, Slices
  <2>2. Kept(scratch[c].offsets, previous[c].offsets, second) \in Slices
    BY <1>4, <1>6 DEF Kept, RetainBuffer, Rewound, NilSlice, Slices
  <2> QED BY <1>1, <2>1, <2>2
<1>11. kept \in Scratches
  BY <1>10 DEF Scratches, kept
<1>12. memory' \in [Arrays -> Seq(Cells)]
  <2>1. Blank(TokenCap) \in Seq(Cells) /\ <<>> \in Seq(Cells)
    BY <1>3, BlankOK
  <2>2. \A a \in Arrays : memory[a] \in Seq(Cells)
    BY <1>3 DEF BufferTypes
  <2> HIDE DEF used
  <2> QED BY <1>2, <2>1, <2>2
<1>13. /\ \A a \in ArraysOf(kept) \cap fresh : memory'[a] = Blank(TokenCap)
       /\ Untouched(used \ fresh)
  BY <1>2, <1>4 DEF Untouched
<1>14. PooledOK(kept)'
  <2>1. Cap(ids)' <= TokenCap
    <3>1. ids.array \in fresh => memory'[ids.array] = Blank(TokenCap)
      BY <1>5, <1>13
    <3>2. ids.array \notin fresh => Untouched({ids.array})
      BY <1>5, <1>13 DEF Untouched
    <3>3. ids.array = first \/ (ids.array \notin fresh /\ Cap(ids) <= TokenCap)
      BY <1>4, <1>7, <1>9
    <3> QED BY <1>3, <1>4, <1>10, <3>1, <3>2, <3>3, KeptFits
  <2>2. Cap(offsets)' <= TokenCap
    <3>1. offsets.array \in fresh => memory'[offsets.array] = Blank(TokenCap)
      BY <1>5, <1>13
    <3>2. offsets.array \notin fresh => Untouched({offsets.array})
      BY <1>5, <1>13 DEF Untouched
    <3>3. offsets.array = second \/ (offsets.array \notin fresh /\ Cap(offsets) <= TokenCap)
      BY <1>4, <1>8, <1>9
    <3> QED BY <1>3, <1>4, <1>10, <3>1, <3>2, <3>3, KeptFits
  <2>3. {ids.array} \cap {offsets.array} \subseteq {Nowhere}
    BY <1>3, <1>4, <1>7, <1>8, <1>9 DEF CallOK
  <2>4. /\ Cap(kept.ids)' <= TokenCap /\ Cap(kept.offsets)' <= TokenCap
    BY <1>5, <2>1, <2>2
  <2> QED BY <1>5, <1>7, <1>8, <2>3, <2>4 DEF PooledOK
<1>15. NilSlice \in Slices /\ EmptyScratch \in Scratches
  BY DEF NilSlice, EmptyScratch, Slices, Scratches
<1>16. BufferTypes'
  BY <1>2, <1>3, <1>11, <1>12, <1>15 DEF BufferTypes
<1>17. PutStep(c, kept, fresh)
  <2>1. ~Live(c)' /\ \A d \in Callers \ {c} : Same(d)
    BY <1>2, <1>3 DEF BufferTypes, Live, Working, Same
  <2>2. IsFiniteSet(fresh)
    <3>1. IsFiniteSet({first}) /\ fresh = {first} \cup {second}
      BY FS_Singleton
    <3> QED BY <3>1, FS_AddElement
  <2>3. Untouched((PoolArrays \cup CallArrays(Callers \ {c})) \ fresh)
    BY <1>13 DEF Untouched
  <2>4. ArraysOf(kept) \subseteq Own(c) \cup fresh \cup {Nowhere}
    BY <1>5, <1>7, <1>8 DEF Own
  <2> QED BY <1>2, <1>3, <1>4, <1>11, <1>14, <1>16, <2>1, <2>2, <2>3, <2>4 DEF PutStep
<1> QED BY <1>17, PutStepBuffers

-----------------------------------------------------------------------------
(* Steps that only forget: no call begins, none changes, the pool stays or *)
(* is emptied, and what is still in use is as it was.                      *)
QuietStep ==
    /\ BufferTypes'
    /\ \A d \in Callers : Live(d)' => Live(d) /\ Same(d)
    /\ pool' \in {pool, <<>>}
    /\ Untouched(CallArrays(Callers)) /\ (pool' = pool => memory' = memory)

LEMMA QuietBuffers ==
    ASSUME BufferInv, QuietStep
    PROVE  BufferInv'
<1> USE DEF QuietStep
<1>1. BufferTypes /\ CallsApart /\ PoolApart /\ CallsPoolApart
  BY DEF BufferInv
<1>2. \A i \in DOMAIN pool' : pool' = pool /\ i \in DOMAIN pool /\ pool'[i] = pool[i]
  OBVIOUS
<1>3. \A d \in Callers : Live(d)' => Own(d)' = Own(d) /\ Live(d) /\ Same(d)
  BY SameOwn
<1>4. ASSUME NEW d \in Callers, Live(d)'
      PROVE  CallOK(d)'
  <2>1. Live(d) /\ Same(d)
    BY <1>4
  <2>2. Own(d) \subseteq CallArrays(Callers)
    BY <2>1, OwnInCalls
  <2> QED BY <1>1, <2>1, <2>2, CallKept DEF BufferInv, Untouched
<1>5. (\A i \in DOMAIN pool : PooledOK(pool[i]))'
  BY <1>2 DEF BufferInv, PooledOK, Cap
<1>6. CallsApart'
  BY <1>1, <1>3 DEF CallsApart
<1>7. PoolApart' /\ CallsPoolApart'
  BY <1>1, <1>2, <1>3 DEF PoolApart, CallsPoolApart, ArraysOf
<1>8. IsFiniteSet(InUse')
  <2>1. ASSUME NEW a \in InUse' PROVE a \in InUse
    <3>1. \/ \E d \in Callers : Live(d)' /\ a \in Own(d)'
          \/ \E i \in DOMAIN pool' : a \in ArraysOf(pool'[i])
      BY DEF InUse, CallArrays, PoolArrays, ArraysOf, Own, IdArrays, OffsetArrays,
             Live, Working
    <3> QED BY <1>2, <1>3, <3>1, InUseOK
  <2> QED BY <2>1, FS_Subset DEF BufferInv
<1> QED BY <1>4, <1>5, <1>6, <1>7, <1>8 DEF BufferInv

LEMMA DropBuffers ==
    ASSUME BufferInv, Drop
    PROVE  BufferInv'
<1>1. BufferTypes
  BY DEF BufferInv
<1>2. /\ pool' = <<>> /\ pool # <<>> /\ UNCHANGED <<pc, calls, scratch, previous, tokens>>
      /\ memory' = [a \in Arrays |-> IF a \in CallArrays(Callers) THEN memory[a] ELSE <<>>]
  BY DEF Drop, Collected, callVars
<1>3. BufferTypes' /\ Untouched(CallArrays(Callers))
  BY <1>1, <1>2 DEF BufferTypes, Untouched
<1> QED BY <1>2, <1>3, QuietBuffers DEF QuietStep, Live, Same

LEMMA StepBuffers ==
    ASSUME MemoryUnbounded, IInv, BufferInv, [Next]_vars
    PROVE  BufferInv'
<1>1. pc \in [Callers -> Stages] /\ BufferTypes
  BY DEF IInv, Shape, BufferInv
<1>2. ASSUME UNCHANGED <<callVars, pool, memory>>,
             \A d \in Callers : Live(d)' => pc'[d] = pc[d]
      PROVE  BufferInv'
  <2>1. QuietStep
    BY <1>1, <1>2 DEF QuietStep, callVars, Live, Same, BufferTypes, Untouched
  <2> QED BY <2>1, QuietBuffers
<1>3. ASSUME NEW c \in Callers, Act(c) PROVE BufferInv'
  <2>1. CASE \/ Refuse(c) \/ NewFromReader(c) \/ OnceBegin(c) \/ LoadCorpus(c)
             \/ OnceEnd(c) \/ New(c)
    <3>1. /\ UNCHANGED <<callVars, pool, memory>>
          /\ \E to \in Stages \ Working : pc' = [pc EXCEPT ![c] = to]
      BY <2>1 DEF Refuse, NewFromReader, OnceBegin, LoadCorpus, OnceEnd, New, Goto,
                  Stages, Working
    <3>2. \A d \in Callers : Live(d)' => pc'[d] = pc[d]
      BY <1>1, <3>1 DEF Live
    <3> QED BY <1>2, <3>1, <3>2
  <2>2. CASE Get(c)
    BY <1>1, <2>2, GetBuffers
  <2>3. CASE AppendToken(c)
    BY <1>1, <2>3, AppendTokenBuffers
  <2>4. CASE EndTokenize(c)
    BY <1>1, <2>4, EndTokenizeBuffers
  <2>5. CASE MakeOffsets(c)
    BY <1>1, <2>5, MakeOffsetsBuffers
  <2>6. CASE NoOffsets(c) \/ Cancel(c)
    BY <1>1, <2>6, NoOffsetsBuffers
  <2>7. CASE Put(c)
    BY <1>1, <2>7, PutBuffers
  <2> QED BY <1>3, <2>1, <2>2, <2>3, <2>4, <2>5, <2>6, <2>7 DEF Act
<1>4. CASE Drop
  BY <1>4, DropBuffers
<1>5. CASE Over \/ UNCHANGED vars
  BY <1>2, <1>5 DEF Over, vars
<1> QED BY <1>3, <1>4, <1>5 DEF Next

(* Whatever other calls do, and whenever the garbage collector empties the *)
(* pool, what a call of Match has written to its buffers stays there until *)
(* it is done with them, and the pool keeps no buffer above the limit: for *)
(* any number of goroutines, calls and tokens, as long as there is memory. *)
THEOREM Owned ==
    ASSUME MemoryUnbounded
    PROVE  Spec => []BuffersOwned
<1>1. BufferInv => BuffersOwned
  <2> SUFFICES ASSUME BufferInv PROVE BuffersOwned
    OBVIOUS
  <2>1. ASSUME NEW c \in Callers, pc[c] \in Working
        PROVE  /\ \A i \in 1..tokens[c].len : memory[tokens[c].array][i] = Self(c)
               /\ \A i \in 1..scratch[c].offsets.len :
                     memory[scratch[c].offsets.array][i] = Self(c)
    BY <2>1 DEF BufferInv, Live, CallOK
  <2>2. \A i \in DOMAIN pool :
            Cap(pool[i].ids) <= TokenCap /\ Cap(pool[i].offsets) <= TokenCap
    BY DEF BufferInv, PooledOK
  <2> QED BY <2>1, <2>2 DEF BuffersOwned, Working
<1>2. Init => BufferInv
  BY InitBuffers
<1>3. IInv /\ BufferInv /\ [Next]_vars => BufferInv'
  BY StepBuffers
<1> QED BY <1>1, <1>2, <1>3, Invariant, PTL DEF Spec
=============================================================================
