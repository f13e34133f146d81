---------------------------- MODULE MatcherCalls ----------------------------
(***************************************************************************)
(* Goroutines that make matchers and match with them (matcher.go,          *)
(* reader.go).  New loads the embedded corpus once for the process and     *)
(* remembers the error if that fails; NewFromReader makes an engine of its *)
(* own.  Match borrows its buffers from a pool: append may move a buffer   *)
(* to a larger array, and what goes back to the pool is decided by the     *)
(* capacities at the beginning and the end of the call.                    *)
(*                                                                         *)
(* Buffers are slices: an array and a length.  Of the five of matchScratch *)
(* there are two here: ids, which append grows as unknownAfter,            *)
(* stopwordAfter and word, and offsets, which is made as large as needed.  *)
(* A token is the call that writes it.                                     *)
(***************************************************************************)
EXTENDS Integers, Sequences, FiniteSets

CONSTANTS
    Callers,     \* goroutines
    Requests,    \* what they call: "New" or "NewFromReader", options
    MaxCalls,    \* of Match, of each goroutine (a bound of the model)
    MaxTokens,   \* of an input (a bound of the model)
    TokenCap,    \* matchScratchTokenCap
    Arrays       \* memory (a bound of the model)

ASSUME CallsAssumption ==
    /\ MaxCalls \in [Callers -> Nat] /\ MaxTokens \in Nat /\ TokenCap \in Nat
    /\ Requests \subseteq [Callers -> {"New", "NewFromReader", "nil option", "nil reader"}]

VARIABLES
    requests,
    corpusLoads,  \* whether the corpus can be decoded
    once,         \* embeddedEngineOnce: "new", "running" or "done"
    runner,       \* who runs its function
    embedded,     \* embeddedEngine and embeddedEngineErr
    loads,        \* calls of LoadRuntime
    pc,
    matcher,      \* what New returned
    calls,        \* calls of Match begun
    left,         \* tokens of the input not yet read
    scratch, previous, tokens,  \* of the call: the borrowed one, the copy
                                \* that the deferred put has, tokens.IDs
    canceled,
    pool,         \* the scratches in matchScratchPool
    memory        \* the contents of each array, and its capacity

onceVars == <<once, runner, embedded, loads>>
callVars == <<calls, left, scratch, previous, tokens, canceled>>
vars == <<requests, corpusLoads, onceVars, pc, matcher, callVars, pool, memory>>

-----------------------------------------------------------------------------
Nowhere == 0
NilSlice == [array |-> Nowhere, len |-> 0]
EmptyScratch == [ids |-> NilSlice, offsets |-> NilSlice]

(* Arrays that something still refers to: the others are garbage.          *)
ArraysOf(s) == {s.ids.array, s.offsets.array}
PoolArrays == UNION {ArraysOf(pool[i]) : i \in DOMAIN pool}
CallArrays(callers) ==
    UNION {ArraysOf(scratch[c]) \cup ArraysOf(previous[c]) \cup {tokens[c].array} :
              c \in {d \in callers : pc[d] \in {"tokenize", "offsets", "collect"}}}
InUse == PoolArrays \cup CallArrays(Callers)

Collected(used, arrays) == [a \in Arrays |-> IF a \in used THEN arrays[a] ELSE <<>>]

Cap(slice) == IF slice.array = Nowhere THEN 0 ELSE Len(memory[slice.array])
Rewound(slice) == [slice EXCEPT !.len = 0]

Blank(n) == [i \in 1..n |-> <<>>]
Fresh(taken) == CHOOSE a \in Arrays \ taken : \A b \in Arrays \ taken : a <= b

Self(c) == <<c, calls[c]>>
Nothing == [engine |-> {}, err |-> FALSE]

Init ==
    /\ requests \in Requests /\ corpusLoads \in BOOLEAN
    /\ once = "new" /\ runner = {} /\ embedded = Nothing /\ loads = 0
    /\ pc = [c \in Callers |-> "new"]
    /\ matcher = [c \in Callers |-> Nothing]
    /\ calls = [c \in Callers |-> 0] /\ left = [c \in Callers |-> 0]
    /\ scratch = [c \in Callers |-> EmptyScratch]
    /\ previous = [c \in Callers |-> EmptyScratch]
    /\ tokens = [c \in Callers |-> NilSlice]
    /\ canceled = [c \in Callers |-> FALSE]
    /\ pool = <<>> /\ memory = [a \in Arrays |-> <<>>]

Goto(c, from, to) == pc[c] = from /\ pc' = [pc EXCEPT ![c] = to]

-----------------------------------------------------------------------------
(* New and NewFromReader.                                                  *)
Refuse(c) ==
    /\ requests[c] \in {"nil option", "nil reader"}
    /\ Goto(c, "new", "end")
    /\ matcher' = [matcher EXCEPT ![c].err = TRUE]
    /\ UNCHANGED <<requests, corpusLoads, onceVars, callVars, pool, memory>>

(* An engine of its own, unless what it reads is not a corpus.             *)
NewFromReader(c) ==
    /\ requests[c] = "NewFromReader"
    /\ \E reads \in BOOLEAN :
          /\ Goto(c, "new", IF reads THEN "ready" ELSE "end")
          /\ matcher' = [matcher EXCEPT ![c] =
                            IF reads THEN [engine |-> {<<c, 0>>}, err |-> FALSE]
                            ELSE [Nothing EXCEPT !.err = TRUE]]
    /\ UNCHANGED <<requests, corpusLoads, onceVars, callVars, pool, memory>>

(* Mutant of MayRun: a test of embeddedEngine instead of the Once.         *)
MayRunUnlocked(c) == embedded = Nothing

MayRun(c) == once = "new"

OnceBegin(c) ==
    /\ requests[c] = "New" /\ MayRun(c)
    /\ Goto(c, "new", "load")
    /\ once' = "running" /\ runner' = runner \cup {c}
    /\ UNCHANGED <<requests, corpusLoads, embedded, loads, matcher, callVars, pool, memory>>

(* LoadRuntime and newMatchEngine: an engine of this load, or an error.    *)
LoadCorpus(c) ==
    /\ Goto(c, "load", "loaded")
    /\ loads' = loads + 1
    /\ embedded' = IF corpusLoads THEN [engine |-> {<<"embedded", loads'>>}, err |-> FALSE]
                   ELSE [embedded EXCEPT !.err = TRUE]
    /\ UNCHANGED <<requests, corpusLoads, once, runner, matcher, callVars, pool, memory>>

OnceEnd(c) ==
    /\ Goto(c, "loaded", "new")
    /\ once' = "done" /\ runner' = runner \ {c}
    /\ UNCHANGED <<requests, corpusLoads, embedded, loads, matcher, callVars, pool, memory>>

(* Do returns when the function has returned, whoever ran it.              *)
New(c) ==
    /\ requests[c] = "New" /\ once = "done"
    /\ Goto(c, "new", IF embedded.err THEN "end" ELSE "ready")
    /\ matcher' = [matcher EXCEPT ![c] = IF embedded.err THEN [Nothing EXCEPT !.err = TRUE]
                                         ELSE embedded]
    /\ UNCHANGED <<requests, corpusLoads, onceVars, callVars, pool, memory>>

-----------------------------------------------------------------------------
(* Match takes a scratch of the pool, or a new one, and defers its return. *)
Get(c) ==
    /\ calls[c] < MaxCalls[c]
    /\ Goto(c, "ready", "tokenize")
    /\ \E n \in 0..MaxTokens : left' = [left EXCEPT ![c] = n]
    /\ \/ /\ scratch' = [scratch EXCEPT ![c] = EmptyScratch]
          /\ UNCHANGED pool
       \/ \E i \in DOMAIN pool :
             /\ scratch' = [scratch EXCEPT ![c] = pool[i]]
             /\ pool' = SubSeq(pool, 1, i - 1) \o SubSeq(pool, i + 1, Len(pool))
    /\ previous' = [previous EXCEPT ![c] = scratch'[c]]
    /\ tokens' = [tokens EXCEPT ![c] = Rewound(scratch'[c].ids)]
    /\ calls' = [calls EXCEPT ![c] = @ + 1]
    /\ canceled' = [canceled EXCEPT ![c] = FALSE]
    /\ UNCHANGED <<requests, corpusLoads, onceVars, matcher, memory>>

(* append: in place as long as there is room, else in an array of twice    *)
(* the size.                                                               *)
Appended(slice, token, array) ==
    IF slice.len < Cap(slice)
    THEN [memory EXCEPT ![slice.array][slice.len + 1] = token]
    ELSE LET old   == IF slice.array = Nowhere THEN <<>> ELSE memory[slice.array]
             grown == Append(old, token) \o Blank(Len(old) - 1)
         IN  [memory EXCEPT ![array] = grown]

AppendToken(c) ==
    LET slice == tokens[c]
        array == IF slice.len < Cap(slice) THEN slice.array ELSE Fresh(InUse)
    IN  /\ pc[c] = "tokenize" /\ left[c] > 0
        /\ memory' = Appended(slice, Self(c), array)
        /\ tokens' = [tokens EXCEPT ![c] = [array |-> array, len |-> slice.len + 1]]
        /\ left' = [left EXCEPT ![c] = @ - 1]
        /\ UNCHANGED <<requests, corpusLoads, onceVars, pc, matcher, calls, scratch,
                       previous, canceled, pool>>

(* The slices go into the scratch when the input has been read; without    *)
(* tokens the rest of the call does not use them.                          *)
EndTokenize(c) ==
    /\ left[c] = 0
    /\ Goto(c, "tokenize", IF tokens[c].len = 0 THEN "collect" ELSE "offsets")
    /\ scratch' = [scratch EXCEPT ![c].ids = tokens[c]]
    /\ UNCHANGED <<requests, corpusLoads, onceVars, matcher, calls, left, previous,
                   tokens, canceled, pool, memory>>

(* Offsets are needed for matches of the automaton only; their buffer is   *)
(* made anew unless it is large enough.                                    *)
MakeOffsets(c) ==
    LET slice == scratch[c].offsets
        count == tokens[c].len
        array == IF Cap(slice) < count THEN Fresh(InUse) ELSE slice.array
        size  == IF Cap(slice) < count THEN count ELSE Cap(slice)
    IN  /\ Goto(c, "offsets", "collect")
        /\ memory' = [memory EXCEPT ![array] =
                         [i \in 1..size |-> IF i <= count THEN Self(c)
                                            ELSE IF Cap(slice) < count THEN <<>> ELSE @[i]]]
        /\ scratch' = [scratch EXCEPT ![c].offsets = [array |-> array, len |-> count]]
        /\ UNCHANGED <<requests, corpusLoads, onceVars, matcher, calls, left, previous,
                       tokens, canceled, pool>>

NoOffsets(c) ==
    /\ Goto(c, "offsets", "collect")
    /\ UNCHANGED <<requests, corpusLoads, onceVars, matcher, callVars, pool, memory>>

(* A canceled context ends the call after any of its loops.                *)
Cancel(c) ==
    /\ Goto(c, "offsets", "collect")
    /\ canceled' = [canceled EXCEPT ![c] = TRUE]
    /\ UNCHANGED <<requests, corpusLoads, onceVars, matcher, calls, left, scratch,
                   previous, tokens, pool, memory>>

(* Mutant of RetainBuffer: the reserve is not looked at before it is kept. *)
RetainLarger(current, reserve) ==
    IF Cap(current) <= TokenCap \/ Cap(reserve) # TokenCap
    THEN Rewound(current) ELSE Rewound(reserve)

(* What the pool keeps of a buffer: itself, or an array of the limit's     *)
(* size, the one of the beginning of the call or (Nowhere) a new one.      *)
RetainBuffer(current, reserve) ==
    IF Cap(current) <= TokenCap THEN Rewound(current)
    ELSE IF Cap(reserve) = TokenCap THEN Rewound(reserve)
    ELSE NilSlice

(* Mutant of Pooled: an explicit put beside the deferred one.              *)
PooledTwice(s) == pool \o <<s, s>>

Pooled(s) == Append(pool, s)

Kept(current, reserve, array) ==
    LET kept == RetainBuffer(current, reserve)
    IN  IF kept = NilSlice /\ Cap(current) > TokenCap
        THEN [array |-> array, len |-> 0] ELSE kept

Retained(c, allocated) ==
    [ids |-> Kept(scratch[c].ids, previous[c].ids, allocated[1]),
     offsets |-> Kept(scratch[c].offsets, previous[c].offsets, allocated[2])]

(* The deferred putMatchScratch, on every return after the Get.            *)
Put(c) ==
    LET first     == Fresh(InUse)
        allocated == <<first, Fresh(InUse \cup {first})>>
        kept      == Retained(c, allocated)
        used      == PoolArrays \cup CallArrays(Callers \ {c}) \cup ArraysOf(kept)
    IN  /\ Goto(c, "collect", "ready")
        /\ pool' = Pooled(kept)
        /\ scratch' = [scratch EXCEPT ![c] = EmptyScratch]
        /\ previous' = [previous EXCEPT ![c] = EmptyScratch]
        /\ tokens' = [tokens EXCEPT ![c] = NilSlice]
        /\ memory' = Collected(used, [a \in Arrays |->
                                 IF a \in ArraysOf(kept) \cap {allocated[1], allocated[2]}
                                 THEN Blank(TokenCap) ELSE memory[a]])
        /\ UNCHANGED <<requests, corpusLoads, onceVars, matcher, calls, left, canceled>>

(* The garbage collector may empty the pool at any time.                   *)
Drop ==
    /\ pool # <<>>
    /\ pool' = <<>>
    /\ memory' = Collected(CallArrays(Callers), memory)
    /\ UNCHANGED <<requests, corpusLoads, onceVars, pc, matcher, callVars>>

Over ==
    /\ \A c \in Callers : pc[c] = "end" \/ (pc[c] = "ready" /\ calls[c] = MaxCalls[c])
    /\ UNCHANGED vars

Act(c) ==
    \/ Refuse(c) \/ NewFromReader(c) \/ OnceBegin(c) \/ LoadCorpus(c) \/ OnceEnd(c)
    \/ New(c) \/ Get(c) \/ AppendToken(c) \/ EndTokenize(c) \/ MakeOffsets(c)
    \/ NoOffsets(c) \/ Cancel(c) \/ Put(c)

Next == (\E c \in Callers : Act(c)) \/ Drop \/ Over

Spec == Init /\ [][Next]_vars

-----------------------------------------------------------------------------
(* However many goroutines call New at once, the corpus is decoded once,   *)
(* and all of them get that engine, or all of them its error, none nothing *)
(* and none before it is complete.                                         *)
OneEngine ==
    LET returned == {c \in Callers : requests[c] = "New" /\ pc[c] \in {"ready", "end"}}
    IN  /\ loads <= 1
        /\ \A c \in returned : matcher[c].err <=> matcher[c].engine = {}
        /\ \A c, d \in returned : matcher[c] = matcher[d]

(* What a call has written to a buffer is there until it is done with it:  *)
(* no buffer belongs to two calls, or to a call and the pool, even when    *)
(* append moved it, the call was canceled, or the pool was emptied.  And   *)
(* whatever the calls needed, the pool only keeps buffers of bounded size: *)
(* putMatchScratch and retainBuffer.                                       *)
BuffersOwned ==
    /\ \A c \in Callers : pc[c] \in {"tokenize", "offsets", "collect"} =>
          LET written == IF pc[c] = "collect" THEN {tokens[c], scratch[c].offsets}
                         ELSE {tokens[c]}
          IN  \A slice \in written : \A i \in 1..slice.len :
                  memory[slice.array][i] = Self(c)
    /\ \A i \in DOMAIN pool :
          Cap(pool[i].ids) <= TokenCap /\ Cap(pool[i].offsets) <= TokenCap
=============================================================================
