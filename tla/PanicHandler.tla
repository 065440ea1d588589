----------------------------- MODULE PanicHandler -----------------------------
(***************************************************************************)
(* The panic recovery of src/recovery/panic_recovery.go: functions that    *)
(* run under RecoverWithFunc, RecoverWithContext or SafeGo, functions that *)
(* defer Recover itself, panics, the statistics and the handlers.          *)
(*                                                                         *)
(* A goroutine is its stack of such functions, innermost last. A panic     *)
(* unwinds the stack and ends the process if nothing absorbs it. The       *)
(* deferred function of a guard can only absorb a panic if getGoroutineID  *)
(* returns, and that depends on how many bytes it compares.                *)
(***************************************************************************)
EXTENDS Naturals, Sequences, FiniteSets

CONSTANTS
    Goroutines,
    None,
    Setter,         \* the goroutine that adds and removes handlers
    StackLen,       \* length of what runtime.Stack writes
    MaxDepth,       \* bound of the stacks
    MaxCounted,     \* bound of the statistics
    MaxHandlers     \* bound of the handlers

ASSUME PanicAssumption ==
    /\ None \notin Goroutines \cup {Setter} /\ Setter \notin Goroutines
    /\ StackLen \in Nat \ {0}
    /\ MaxDepth \in Nat /\ MaxCounted \in Nat /\ MaxHandlers \in Nat

VARIABLES
    enabled,    \* ph.enabled, which no lock protects
    recovered,  \* the counts of ph.recovered, all goroutines together
    handlers,   \* ph.handlers, the two words of a slice: its array and its length
    store,      \* what the lock's holder is storing in handlers
    mutex,      \* holder of ph.mu
    stack,      \* what each goroutine is in
    panicking,  \* the goroutines that a panic is unwinding
    pc,         \* "running", or where the goroutine is in Recover
    read,       \* the count a goroutine increments
    crashed,    \* the process has ended by a panic
    counted     \* history: calls of Recover counted since ResetStats

statVars == <<recovered, counted, read>>
sliceVars == <<handlers, store>>
vars == <<enabled, statVars, sliceVars, mutex, stack, panicking, pc, crashed>>

\* A function under RecoverWithFunc with recovery enabled, with recovery
\* disabled, and one that defers Recover.
Frame == {"guard", "plain", "record"}

-----------------------------------------------------------------------------
(* getGoroutineID compares windows of the stack with "goroutine ", whose   *)
(* ten bytes are at the start, and slices past the end if none matches.    *)

Literal == 10

\* Mutant: as many bytes as the literal has.
WindowOfLiteral == 10

Window == 9

Matches(i) == Window = Literal /\ i = 0

IdFound(n) == \E i \in 0 .. n - 1 : Matches(i) /\ \A k \in 0 .. i : k + Window <= n

-----------------------------------------------------------------------------
Init ==
    /\ enabled \in BOOLEAN
    /\ recovered = 0 /\ counted = 0
    /\ \E n \in 0 .. MaxHandlers : handlers = [array |-> n, len |-> n]
    /\ store = handlers
    /\ mutex = None
    /\ stack = [g \in Goroutines |-> <<>>]
    /\ panicking = {}
    /\ pc = [g \in Goroutines |-> "running"]
    /\ read = [g \in Goroutines |-> 0]
    /\ crashed = FALSE

Top(g) == stack[g][Len(stack[g])]

Runs(g) == ~crashed /\ pc[g] = "running"

Push(g, frame) ==
    /\ Runs(g) /\ g \notin panicking
    /\ Len(stack[g]) < MaxDepth
    /\ stack' = [stack EXCEPT ![g] = Append(@, frame)]
    /\ UNCHANGED <<enabled, statVars, sliceVars, mutex, panicking, pc, crashed>>

\* RecoverWithFunc, RecoverWithContext and SafeGo look at the flag once.
Call(g) == Push(g, IF enabled THEN "guard" ELSE "plain")

Expected == {p \in Goroutines \X (1 .. MaxDepth) :
                p[2] <= Len(stack[p[1]]) /\ stack[p[1]][p[2]] = "record"}

DeferRecover(g) ==
    /\ counted + Cardinality(Expected) < MaxCounted
    /\ Push(g, "record")

Pop(g) == stack' = [stack EXCEPT ![g] = SubSeq(@, 1, Len(@) - 1)]

\* recover() returns nil in the deferred function of a guard.
Return(g) ==
    /\ Runs(g) /\ g \notin panicking
    /\ stack[g] # <<>> /\ Top(g) # "record"
    /\ Pop(g)
    /\ UNCHANGED <<enabled, statVars, sliceVars, mutex, panicking, pc, crashed>>

Panic(g) ==
    /\ Runs(g) /\ g \notin panicking
    /\ panicking' = panicking \cup {g}
    /\ UNCHANGED <<enabled, statVars, sliceVars, mutex, stack, pc, crashed>>

Crash(g) ==
    /\ Runs(g) /\ g \in panicking
    /\ stack[g] = <<>>
    /\ crashed' = TRUE
    /\ UNCHANGED <<enabled, statVars, sliceVars, mutex, stack, panicking, pc>>

\* A guard recovers the panic and captures it. If that panics in turn the
\* stack is unwound further; if not, Recover is called, and then the error
\* returned.
Unwind(g) ==
    /\ Runs(g) /\ g \in panicking
    /\ stack[g] # <<>> /\ Top(g) # "record"
    /\ IF Top(g) = "guard" /\ IdFound(StackLen)
       THEN /\ panicking' = panicking \ {g}
            /\ pc' = [pc EXCEPT ![g] = "recover"]
            /\ UNCHANGED stack
       ELSE Pop(g) /\ UNCHANGED <<panicking, pc>>
    /\ UNCHANGED <<enabled, statVars, sliceVars, mutex, crashed>>

-----------------------------------------------------------------------------
(* Recover. Deferred by hand it runs whether or not there is a panic, and  *)
(* does not end one.                                                       *)

RunDeferred(g) ==
    /\ Runs(g)
    /\ stack[g] # <<>> /\ Top(g) = "record"
    /\ pc' = [pc EXCEPT ![g] = "recover"]
    /\ UNCHANGED <<enabled, statVars, sliceVars, mutex, stack, panicking, crashed>>

LookAtFlag(g) ==
    /\ ~crashed /\ pc[g] = "recover"
    /\ IF enabled THEN pc' = [pc EXCEPT ![g] = "lock"] /\ UNCHANGED stack
                  ELSE pc' = [pc EXCEPT ![g] = "running"] /\ Pop(g)
    /\ UNCHANGED <<enabled, statVars, sliceVars, mutex, panicking, crashed>>

\* Mutant: the count is incremented without the lock.
FreeAlways == TRUE

Free == mutex = None

Lock(g) ==
    /\ ~crashed /\ pc[g] = "lock"
    /\ Free
    /\ mutex' = g
    /\ read' = [read EXCEPT ![g] = recovered]
    /\ pc' = [pc EXCEPT ![g] = "count"]
    /\ UNCHANGED <<enabled, recovered, counted, sliceVars, stack, panicking, crashed>>

\* Mutant: the lock is kept.
UnlockNever == UNCHANGED mutex

Unlock == mutex' = None

Count(g) ==
    /\ ~crashed /\ pc[g] = "count"
    /\ recovered' = read[g] + 1
    /\ counted' = counted + 1
    /\ Unlock
    /\ read' = [read EXCEPT ![g] = 0]
    /\ pc' = [pc EXCEPT ![g] = "handlers"]
    /\ UNCHANGED <<enabled, sliceVars, stack, panicking, crashed>>

\* The handlers are read without the lock and launched; their own panics are
\* contained. A length that is not the array's, read while handlers is being
\* stored, makes the loop run past the array, which is one more panic.
CallHandlers(g) ==
    /\ ~crashed /\ pc[g] = "handlers"
    /\ panicking' = IF handlers.len > handlers.array THEN panicking \cup {g} ELSE panicking
    /\ pc' = [pc EXCEPT ![g] = "running"]
    /\ Pop(g)
    /\ UNCHANGED <<enabled, statVars, sliceVars, mutex, crashed>>

-----------------------------------------------------------------------------
(* The other methods. *)

SetEnabled ==
    /\ ~crashed
    /\ enabled' = ~enabled
    /\ UNCHANGED <<statVars, sliceVars, mutex, stack, panicking, pc, crashed>>

ResetStats ==
    /\ ~crashed /\ mutex = None
    /\ recovered' = 0 /\ counted' = 0
    /\ UNCHANGED <<enabled, read, sliceVars, mutex, stack, panicking, pc, crashed>>

SetHandlers(slice) ==
    /\ ~crashed /\ mutex = None
    /\ mutex' = Setter
    /\ store' = slice
    /\ UNCHANGED <<enabled, statVars, handlers, stack, panicking, pc, crashed>>

\* append stores into the array while there is room, and else copies it.
AddHandler ==
    /\ handlers.len < MaxHandlers
    /\ SetHandlers([array |-> IF handlers.len < handlers.array THEN handlers.array
                              ELSE IF handlers.array = 0 THEN 1 ELSE 2 * handlers.array,
                    len |-> handlers.len + 1])

RemoveHandlers == SetHandlers([array |-> 0, len |-> 0])

\* The two words of the slice are stored one by one, in either order.
StoreWord ==
    /\ ~crashed /\ mutex = Setter
    /\ \E word \in {"array", "len"} :
          /\ handlers[word] # store[word]
          /\ handlers' = [handlers EXCEPT ![word] = store[word]]
    /\ UNCHANGED <<enabled, statVars, store, mutex, stack, panicking, pc, crashed>>

HandlersSet ==
    /\ ~crashed /\ mutex = Setter
    /\ handlers = store
    /\ Unlock
    /\ UNCHANGED <<enabled, statVars, sliceVars, stack, panicking, pc, crashed>>

Recover(g) == LookAtFlag(g) \/ Lock(g) \/ Count(g) \/ CallHandlers(g)

Next ==
    \/ \E g \in Goroutines :
          \/ Call(g) \/ DeferRecover(g) \/ Return(g) \/ Panic(g)
          \/ Unwind(g) \/ RunDeferred(g) \/ Crash(g)
          \/ Recover(g)
    \/ SetEnabled \/ ResetStats
    \/ AddHandler \/ RemoveHandlers \/ StoreWord \/ HandlersSet

Spec == Init /\ [][Next]_vars

(***************************************************************************)
(* Goroutines run; nobody is obliged to return or to panic. The mutex      *)
(* hands itself to whoever has waited for it long.                         *)
(***************************************************************************)
FairSpec ==
    /\ Spec
    /\ \A g \in Goroutines :
          /\ WF_vars(g \in panicking /\ (Unwind(g) \/ RunDeferred(g) \/ Crash(g)))
          /\ WF_vars(LookAtFlag(g) \/ Count(g) \/ CallHandlers(g))
          /\ SF_vars(Lock(g))
    /\ WF_vars(StoreWord \/ HandlersSet)

-----------------------------------------------------------------------------
Slice == [array : Nat, len : Nat]

(* Variables within their types; the holder of the lock is the one who is  *)
(* counting.                                                               *)
TypeOK ==
    /\ enabled \in BOOLEAN
    /\ recovered \in Nat /\ counted \in Nat
    /\ handlers \in Slice /\ store \in Slice
    /\ mutex \in Goroutines \cup {Setter, None}
    /\ stack \in [Goroutines -> Seq(Frame)]
    /\ panicking \subseteq Goroutines
    /\ pc \in [Goroutines -> {"running", "recover", "lock", "count", "handlers"}]
    /\ read \in [Goroutines -> Nat]
    /\ crashed \in BOOLEAN
    /\ \A g \in Goroutines :
          /\ pc[g] = "count" <=> mutex = g
          /\ pc[g] # "running" => stack[g] # <<>>

(* However calls of Recover and ResetStats overlap, with the flag going    *)
(* and coming, the statistics have every call that found it set.           *)
EveryRecoverCounted == recovered = counted

(* No panic is ever absorbed: neither a guard, nor a function that defers  *)
(* Recover (main.go:34), nor SafeGo keeps it from going on (lines 103 and  *)
(* 234), whatever SetEnabled did in between.                               *)
NothingAbsorbed ==
    [][\A g \in panicking : g \in panicking']_vars

(* A panic in any goroutine ends the process, however deep in guards it is *)
(* raised, and though the statistics and the handlers need locks others    *)
(* hold.                                                                   *)
PanicEndsProcess == panicking # {} ~> crashed
=============================================================================
