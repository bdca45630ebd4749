----------------------------- MODULE TaskManager -----------------------------
(***************************************************************************)
(* The task manager of pkg/safe/groutine.go: one mutex, one WaitGroup and  *)
(* one context, used by any number of goroutines at once.  Callers are the *)
(* goroutines that hold the manager, Tasks the goroutines it starts; a     *)
(* task of Nesting starts further tasks through the same manager.          *)
(***************************************************************************)
EXTENDS Naturals, FiniteSets

CONSTANTS
    Callers,    \* goroutines that call GoCtx and Close
    Tasks,      \* the tasks a run of the program starts (a bound)
    Nesting,    \* the tasks that call GoCtx themselves
    NoOne       \* the mutex is free

Actors == Callers \union Tasks

ASSUME TaskAssumption ==
    /\ IsFiniteSet(Tasks) /\ IsFiniteSet(Callers) /\ Nesting \subseteq Tasks
    /\ Callers \intersect Tasks = {} /\ NoOne \notin Actors

VARIABLES
    lock,       \* p.lock: its holder
    cancelled,  \* p.ctx is done
    wg,         \* the counter of p.waitGroup
    at,         \* the call each goroutine makes next
    task,       \* the life of every task
    crashed     \* a panic has ended the process

vars == <<lock, cancelled, wg, at, task, crashed>>

Running == {t \in Tasks : task[t] = "run"}
Starting == {a \in Actors : at[a] \in {"goLock", "goAdd", "goSpawn"}}

Goto(a, place) == at' = [at EXCEPT ![a] = place]

-----------------------------------------------------------------------------
(* GoCtx.                                                                  *)

CallGoCtx(a) ==
    /\ at[a] = "idle"
    /\ a \in Callers \/ a \in Nesting \intersect Running
    /\ Cardinality(Starting) < Cardinality({t \in Tasks : task[t] = "new"})
    /\ Goto(a, "goLock")
    /\ UNCHANGED <<lock, cancelled, wg, task, crashed>>

(* Mutant: GoCtx without the mutex.                                        *)
GoCtxNoLock(a) ==
    /\ at[a] = "goLock"
    /\ Goto(a, "goAdd")
    /\ UNCHANGED <<lock, cancelled, wg, task, crashed>>

GoCtxLock(a) ==
    /\ at[a] = "goLock" /\ lock = NoOne
    /\ lock' = a
    /\ Goto(a, "goAdd")
    /\ UNCHANGED <<cancelled, wg, task, crashed>>

(* Mutant: the task is not counted.                                        *)
GoCtxNoAdd(a) ==
    /\ at[a] = "goAdd"
    /\ Goto(a, "goSpawn")
    /\ UNCHANGED <<lock, cancelled, wg, task, crashed>>

GoCtxAdd(a) ==
    /\ at[a] = "goAdd"
    /\ wg' = wg + 1
    /\ Goto(a, "goSpawn")
    /\ UNCHANGED <<lock, cancelled, task, crashed>>

(* The go statement, and the deferred unlock.                              *)
GoCtxSpawn(a) ==
    /\ at[a] = "goSpawn"
    /\ \E t \in Tasks : task[t] = "new" /\ task' = [task EXCEPT ![t] = "run"]
    /\ lock' = NoOne
    /\ Goto(a, "idle")
    /\ UNCHANGED <<cancelled, wg, crashed>>

-----------------------------------------------------------------------------
(* Close.                                                                  *)

CallClose(c) ==
    /\ at[c] = "idle"
    /\ Goto(c, "closeLock")
    /\ UNCHANGED <<lock, cancelled, wg, task, crashed>>

CloseLock(c) ==
    /\ at[c] = "closeLock" /\ lock = NoOne
    /\ lock' = c
    /\ Goto(c, "closeCancel")
    /\ UNCHANGED <<cancelled, wg, task, crashed>>

(* Mutant: the tasks are not told to end.                                  *)
CloseNoCancel(c) ==
    /\ at[c] = "closeCancel"
    /\ Goto(c, "closeWait")
    /\ UNCHANGED <<lock, cancelled, wg, task, crashed>>

CloseCancel(c) ==
    /\ at[c] = "closeCancel"
    /\ cancelled' = TRUE
    /\ Goto(c, "closeWait")
    /\ UNCHANGED <<lock, wg, task, crashed>>

(* Mutant: Close does not wait.                                            *)
CloseNoWait(c) ==
    /\ at[c] = "closeWait"
    /\ lock' = NoOne
    /\ Goto(c, "idle")
    /\ UNCHANGED <<cancelled, wg, task, crashed>>

(* Wait returns, and the deferred unlock.                                  *)
CloseReturn(c) ==
    /\ at[c] = "closeWait" /\ wg = 0
    /\ lock' = NoOne
    /\ Goto(c, "idle")
    /\ UNCHANGED <<cancelled, wg, task, crashed>>

-----------------------------------------------------------------------------
(* The goroutines themselves, and the parent context.                      *)

(* Mutant: Done is skipped.                                                *)
FinishNoDone(t) ==
    /\ task[t] = "run" /\ at[t] = "idle"
    /\ task' = [task EXCEPT ![t] = "done"]
    /\ UNCHANGED <<lock, cancelled, wg, at, crashed>>

(* The task returns and its deferred Done runs.                            *)
Finish(t) ==
    /\ task[t] = "run" /\ at[t] = "idle"
    /\ task' = [task EXCEPT ![t] = "done"]
    /\ wg' = wg - 1
    /\ UNCHANGED <<lock, cancelled, at, crashed>>

(* The task panics: its deferred Done runs first, and a Close may see it.  *)
Panic(t) ==
    /\ task[t] = "run" /\ at[t] = "idle"
    /\ task' = [task EXCEPT ![t] = "panic"]
    /\ wg' = wg - 1
    /\ UNCHANGED <<lock, cancelled, at, crashed>>

(* GoWithRecovery hands the value to Sugar().Panic, which panics again and *)
(* ends the process.                                                       *)
Repanic(t) ==
    /\ task[t] = "panic"
    /\ task' = [u \in Tasks |-> IF task[u] = "new" THEN "new" ELSE "done"]
    /\ wg' = 0 /\ crashed' = TRUE
    /\ UNCHANGED <<lock, cancelled, at>>

CancelParent ==
    /\ ~cancelled /\ cancelled' = TRUE
    /\ UNCHANGED <<lock, wg, at, task, crashed>>

-----------------------------------------------------------------------------
Init ==
    /\ lock = NoOne /\ cancelled = FALSE /\ wg = 0 /\ crashed = FALSE
    /\ at = [a \in Actors |-> "idle"]
    /\ task = [t \in Tasks |-> "new"]

GoCtx(a) == CallGoCtx(a) \/ GoCtxLock(a) \/ GoCtxAdd(a) \/ GoCtxSpawn(a)
Close(c) == CallClose(c) \/ CloseLock(c) \/ CloseCancel(c) \/ CloseReturn(c)

Next ==
    /\ ~crashed
    /\ \/ \E a \in Actors : GoCtx(a)
       \/ \E c \in Callers : Close(c)
       \/ \E t \in Tasks : Finish(t) \/ Panic(t) \/ Repanic(t)
       \/ CancelParent

Spec == Init /\ [][Next]_vars

(* Goroutines are scheduled, the mutex starves nobody, and a task obeys    *)
(* its context: it returns once that is done.                              *)
Fairness ==
    /\ \A a \in Actors : /\ SF_vars(~crashed /\ GoCtxLock(a))
                         /\ WF_vars(~crashed /\ (GoCtxAdd(a) \/ GoCtxSpawn(a)))
    /\ \A c \in Callers : /\ SF_vars(~crashed /\ CloseLock(c))
                          /\ WF_vars(~crashed /\ (CloseCancel(c) \/ CloseReturn(c)))
    /\ \A t \in Tasks : WF_vars(~crashed /\ cancelled /\ Finish(t))

FairSpec == Spec /\ Fairness

-----------------------------------------------------------------------------
(* Properties.                                                             *)

(* Every variable has its type; the WaitGroup counter never goes negative, *)
(* which would panic in Done.                                              *)
TypeOK ==
    /\ lock \in Actors \union {NoOne}
    /\ cancelled \in BOOLEAN /\ crashed \in BOOLEAN /\ wg \in Nat
    /\ at \in [Actors -> {"idle", "goLock", "goAdd", "goSpawn",
                          "closeLock", "closeCancel", "closeWait"}]
    /\ task \in [Tasks -> {"new", "run", "panic", "done"}]

(* Close returns only when every task has returned or panicked, those      *)
(* started while it waited for the mutex included (groutine.go:59-65).     *)
CloseWaits ==
    [][\A c \in Callers : at[c] = "closeWait" /\ at'[c] = "idle" => Running' = {}]_vars

(* The rule of sync.WaitGroup that the mutex is there for: no Add while a  *)
(* Wait is under way (groutine.go:48-65).                                  *)
NoAddDuringWait ==
    [][wg' > wg => \A c \in Callers : at[c] # "closeWait"]_vars

(* Of the manager's own calls only a nested GoCtx can hold up Close:       *)
(* whoever has the mutex can go on, or is a Close that has cancelled the   *)
(* context and waits for running tasks, each of which is free to return    *)
(* unless it starts tasks itself and so waits for the mutex.  A task that  *)
(* calls Close, or ignores its context, is not among the tasks considered  *)
(* (groutine.go:48-65).                                                    *)
OnlyNestingBlocks ==
    ~crashed /\ lock # NoOne =>
       \/ at[lock] \in {"goAdd", "closeCancel"}
       \/ at[lock] = "goSpawn" /\ \E t \in Tasks : task[t] = "new"
       \/ at[lock] = "closeWait" /\ wg = 0
       \/ /\ at[lock] = "closeWait" /\ cancelled /\ Running # {}
          /\ \A t \in Running : at[t] = "idle" \/ (at[t] = "goLock" /\ t \in Nesting)

(* No task outlives its context: "all coroutine should be exited after CTX *)
(* is cleared by cancel" (groutine.go:23-25).                              *)
AllExit == \A t \in Tasks : cancelled /\ task[t] = "run" ~> task[t] # "run"

(* Every Close returns, or the process is gone (groutine.go:59-65).        *)
CloseReturns == \A c \in Callers : at[c] = "closeLock" ~> at[c] = "idle" \/ crashed

=============================================================================
