-------------------------- MODULE TaskManagerProofs --------------------------
(***************************************************************************)
(* Proofs about TaskManager, for any number of callers and tasks.          *)
(***************************************************************************)
EXTENDS TaskManager, FiniteSetTheorems, TLAPS

Holding == {"goAdd", "goSpawn", "closeCancel", "closeWait"}

(* Whoever is between Lock and Unlock holds the mutex.                     *)
Excluded == \A a \in Actors : at[a] \in Holding => lock = a

(* The WaitGroup counts the running tasks, and the one that GoCtx has      *)
(* added but not started yet.                                              *)
Counted ==
    ~crashed => wg = Cardinality(Running) + (IF \E a \in Actors : at[a] = "goSpawn"
                                              THEN 1 ELSE 0)

IInv == TypeOK /\ Excluded /\ Counted

-----------------------------------------------------------------------------
(* The running tasks are finitely many.                                    *)
LEMMA RunningFinite ==
    IsFiniteSet(Running) /\ Cardinality(Running) \in Nat
<1>1. Running \subseteq Tasks /\ IsFiniteSet(Tasks)
  BY TaskAssumption DEF Running
<1> QED
  BY <1>1, FS_Subset, FS_CardinalityType

(* Moving a goroutine changes its place and no other.                      *)
LEMMA GotoEffect ==
    ASSUME TypeOK, NEW a \in Actors, NEW place, Goto(a, place)
    PROVE  at'[a] = place /\ \A b \in Actors : b # a => at'[b] = at[b]
  BY DEF TypeOK, Goto

(* Starting a new task makes one more run.                                 *)
LEMMA OneMoreRuns ==
    ASSUME TypeOK, NEW t \in Tasks, task[t] = "new", task' = [task EXCEPT ![t] = "run"]
    PROVE  Cardinality(Running') = Cardinality(Running) + 1
<1>1. Running' = Running \union {t} /\ t \notin Running
  BY DEF Running, TypeOK
<1> QED
  BY <1>1, RunningFinite, FS_AddElement

(* The end of a running task leaves one less.                              *)
LEMMA OneLessRuns ==
    ASSUME TypeOK, NEW t \in Tasks, task[t] = "run", NEW end \in {"done", "panic"},
           task' = [task EXCEPT ![t] = end]
    PROVE  Cardinality(Running') = Cardinality(Running) - 1 /\ Cardinality(Running) > 0
<1>1. Running' = Running \ {t} /\ t \in Running
  BY DEF Running, TypeOK
<1>2. IsFiniteSet(Running) /\ Cardinality(Running) \in Nat
  BY RunningFinite
<1>3. Cardinality(Running) # 0
  BY <1>1, <1>2, FS_EmptySet
<1>4. Cardinality(Running \ {t}) = Cardinality(Running) - 1
  BY <1>1, <1>2, FS_RemoveElement
<1> QED
  BY <1>1, <1>2, <1>3, <1>4

(* The initial state satisfies the invariant.                              *)
LEMMA InitInv == Init => IInv
<1> SUFFICES ASSUME Init PROVE IInv
  OBVIOUS
<1>1. TypeOK /\ Excluded
  BY DEF Init, TypeOK, Excluded, Holding
<1>2. Running = {}
  BY DEF Init, Running
<1>3. Cardinality(Running) = 0
  BY <1>2, FS_EmptySet
<1> QED
  BY <1>1, <1>3 DEF IInv, Counted, Init

(* GoCtx keeps the invariant.                                              *)
LEMMA GoCtxInv ==
    ASSUME IInv, ~crashed, NEW a \in Actors, GoCtx(a)
    PROVE  IInv'
<1> USE DEF IInv
<1>1. CASE CallGoCtx(a)
  <2>1. at'[a] = "goLock" /\ at[a] = "idle" /\ \A b \in Actors : b # a => at'[b] = at[b]
    BY <1>1, GotoEffect DEF CallGoCtx
  <2>2. TypeOK' /\ Running' = Running
    BY <1>1 DEF CallGoCtx, Goto, TypeOK, Running
  <2>3. Excluded'
    BY <1>1, <2>1 DEF CallGoCtx, Excluded, Holding
  <2>4. Counted'
    BY <1>1, <2>1, <2>2 DEF CallGoCtx, Counted
  <2> QED
    BY <2>2, <2>3, <2>4
<1>2. CASE GoCtxLock(a)
  <2>1. at'[a] = "goAdd" /\ at[a] = "goLock" /\ \A b \in Actors : b # a => at'[b] = at[b]
    BY <1>2, GotoEffect DEF GoCtxLock
  <2>2. TypeOK' /\ Running' = Running
    BY <1>2 DEF GoCtxLock, Goto, TypeOK, Running
  <2>3. Excluded'
    BY <1>2, <2>1, TaskAssumption DEF GoCtxLock, Excluded, Holding
  <2>4. Counted'
    BY <1>2, <2>1, <2>2 DEF GoCtxLock, Counted
  <2> QED
    BY <2>2, <2>3, <2>4
<1>3. CASE GoCtxAdd(a)
  <2>1. at'[a] = "goSpawn" /\ at[a] = "goAdd" /\ \A b \in Actors : b # a => at'[b] = at[b]
    BY <1>3, GotoEffect DEF GoCtxAdd
  <2>2. TypeOK' /\ Running' = Running
    BY <1>3 DEF GoCtxAdd, Goto, TypeOK, Running
  <2>3. Excluded'
    BY <1>3, <2>1 DEF GoCtxAdd, Excluded, Holding
  <2>4. ~ \E b \in Actors : at[b] = "goSpawn"
    BY <2>1 DEF Excluded, Holding
  <2>5. Counted'
    BY <1>3, <2>1, <2>2, <2>4, RunningFinite DEF GoCtxAdd, Counted
  <2> QED
    BY <2>2, <2>3, <2>5
<1>4. CASE GoCtxSpawn(a)
  <2>1. at'[a] = "idle" /\ at[a] = "goSpawn" /\ \A b \in Actors : b # a => at'[b] = at[b]
    BY <1>4, GotoEffect DEF GoCtxSpawn
  <2>2. TypeOK'
    BY <1>4 DEF GoCtxSpawn, Goto, TypeOK
  <2>3. \A b \in Actors : at'[b] \notin Holding
    BY <2>1, TaskAssumption DEF Excluded, Holding
  <2>4. Cardinality(Running') = Cardinality(Running) + 1
    BY <1>4, OneMoreRuns DEF GoCtxSpawn
  <2>5. Counted'
    BY <1>4, <2>1, <2>3, <2>4, RunningFinite DEF GoCtxSpawn, Counted, Holding
  <2> QED
    BY <2>2, <2>3, <2>5 DEF Excluded
<1> QED
  BY <1>1, <1>2, <1>3, <1>4 DEF GoCtx

(* Close keeps the invariant.                                              *)
LEMMA CloseInv ==
    ASSUME IInv, ~crashed, NEW c \in Callers, Close(c)
    PROVE  IInv'
<1> USE DEF IInv
<1>0. c \in Actors
  BY DEF Actors
<1>1. PICK from, to \in {"idle", "closeLock", "closeCancel", "closeWait"} :
         /\ at'[c] = to /\ at[c] = from
         /\ \A b \in Actors : b # c => at'[b] = at[b]
  BY <1>0, GotoEffect DEF Close, CallClose, CloseLock, CloseCancel, CloseReturn
<1>2. TypeOK' /\ Running' = Running /\ UNCHANGED <<wg, crashed>>
  BY <1>0 DEF Close, CallClose, CloseLock, CloseCancel, CloseReturn, Goto, TypeOK, Running
<1>3. Excluded'
  <2>1. CASE CallClose(c) \/ CloseCancel(c)
    BY <1>0, <2>1, GotoEffect DEF CallClose, CloseCancel, Excluded, Holding
  <2>2. CASE CloseLock(c)
    BY <1>0, <2>2, GotoEffect, TaskAssumption DEF CloseLock, Excluded, Holding
  <2>3. CASE CloseReturn(c)
    BY <1>0, <2>3, GotoEffect DEF CloseReturn, Excluded, Holding
  <2> QED
    BY <2>1, <2>2, <2>3 DEF Close
<1>4. (\E b \in Actors : at'[b] = "goSpawn") <=> \E b \in Actors : at[b] = "goSpawn"
  BY <1>0, <1>1
<1>5. Counted'
  BY <1>2, <1>4 DEF Counted
<1> QED
  BY <1>2, <1>3, <1>5

(* Every step keeps the invariant.                                         *)
LEMMA NextInv == IInv /\ [Next]_vars => IInv'
<1> SUFFICES ASSUME IInv, [Next]_vars PROVE IInv'
  OBVIOUS
<1> USE DEF IInv
<1>1. ASSUME ~crashed, NEW t \in Tasks, Finish(t) \/ Panic(t) PROVE IInv'
  <2>0. /\ task[t] = "run" /\ wg' = wg - 1 /\ UNCHANGED <<lock, cancelled, at, crashed>>
        /\ \E end \in {"done", "panic"} : task' = [task EXCEPT ![t] = end]
    BY <1>1 DEF Finish, Panic
  <2>1. Cardinality(Running') = Cardinality(Running) - 1 /\ Cardinality(Running) > 0
    BY <2>0, OneLessRuns
  <2>2. wg' \in Nat /\ Counted'
    BY <1>1, <2>0, <2>1, RunningFinite DEF Counted
  <2> QED
    BY <2>0, <2>2 DEF TypeOK, Excluded
<1>2. ASSUME NEW t \in Tasks, Repanic(t) PROVE IInv'
  BY <1>2 DEF Repanic, TypeOK, Excluded, Counted
<1>3. CASE CancelParent
  BY <1>3 DEF CancelParent, TypeOK, Excluded, Counted, Running
<1>4. CASE UNCHANGED vars
  BY <1>4 DEF vars, TypeOK, Excluded, Counted, Running
<1> QED
  BY <1>1, <1>2, <1>3, <1>4, GoCtxInv, CloseInv DEF Next

(* IInv is an invariant: the WaitGroup is exact and the mutex excludes.    *)
THEOREM Invariance == Spec => []IInv
  BY InitInv, NextInv, PTL DEF Spec

(* Types hold in every reachable state; in particular the WaitGroup counter*)
(* never goes below zero, whatever GoCtx, Close and the tasks do.          *)
THEOREM TypeCorrect == Spec => []TypeOK
<1>1. IInv => TypeOK
  BY DEF IInv
<1> QED
  BY <1>1, Invariance, PTL

(* When Close returns every task has ended.                                *)
THEOREM CloseIsComplete == Spec => CloseWaits
<1> DEFINE Step == \A c \in Callers : at[c] = "closeWait" /\ at'[c] = "idle" => Running' = {}
<1>1. IInv /\ [Next]_vars => [Step]_vars
  <2> SUFFICES ASSUME IInv, Next, NEW c \in Callers, at[c] = "closeWait", at'[c] = "idle"
               PROVE  Running' = {}
    OBVIOUS
  <2>0. c \in Actors /\ TypeOK
    BY DEF Actors, IInv
  <2>1. CloseReturn(c)
    <3>1. ASSUME NEW a \in Actors, GoCtx(a) PROVE FALSE
      BY <2>0, <3>1 DEF GoCtx, CallGoCtx, GoCtxLock, GoCtxAdd, GoCtxSpawn, Goto, TypeOK
    <3>2. ASSUME NEW d \in Callers, Close(d) PROVE CloseReturn(c)
      BY <2>0, <3>2 DEF Close, CallClose, CloseLock, CloseCancel, CloseReturn, Goto, TypeOK, Actors
    <3>3. ASSUME NEW t \in Tasks, Finish(t) \/ Panic(t) \/ Repanic(t) PROVE FALSE
      BY <3>3 DEF Finish, Panic, Repanic
    <3>4. CASE CancelParent
      BY <3>4 DEF CancelParent
    <3> QED
      BY <3>1, <3>2, <3>3, <3>4 DEF Next
  <2>2. ~ \E a \in Actors : at[a] = "goSpawn"
    BY <2>0 DEF IInv, Excluded, Holding
  <2>3. Cardinality(Running) = 0
    BY <2>1, <2>2, RunningFinite DEF IInv, Counted, CloseReturn, Next
  <2>4. Running = {}
    BY <2>3, RunningFinite, FS_EmptySet
  <2> QED
    BY <2>1, <2>4 DEF CloseReturn, Running
<1> QED
  BY <1>1, Invariance, PTL DEF Spec, CloseWaits

(* No Add happens while a Close waits.                                     *)
THEOREM WaitGroupRule == Spec => NoAddDuringWait
<1> DEFINE Step == wg' > wg => \A c \in Callers : at[c] # "closeWait"
<1>1. IInv /\ [Next]_vars => [Step]_vars
  <2> SUFFICES ASSUME IInv, Next, wg' > wg, NEW c \in Callers, at[c] = "closeWait"
               PROVE  FALSE
    OBVIOUS
  <2>0. c \in Actors /\ TypeOK /\ lock = c
    BY DEF Actors, IInv, Excluded, Holding
  <2>1. wg \in Nat
    BY <2>0 DEF TypeOK
  <2>2. wg' # wg /\ wg' # wg - 1 /\ wg' # 0
    BY <2>1
  <2>3. PICK a \in Actors : GoCtxAdd(a)
    <3>1. ASSUME NEW d \in Callers, Close(d) PROVE FALSE
      BY <2>2, <3>1 DEF Close, CallClose, CloseLock, CloseCancel, CloseReturn
    <3>2. ASSUME NEW t \in Tasks, Finish(t) \/ Panic(t) \/ Repanic(t) PROVE FALSE
      BY <2>2, <3>2 DEF Finish, Panic, Repanic
    <3>3. CASE CancelParent
      BY <2>2, <3>3 DEF CancelParent
    <3>4. ASSUME NEW a \in Actors, GoCtx(a) PROVE GoCtxAdd(a)
      BY <2>2, <3>4 DEF GoCtx, CallGoCtx, GoCtxLock, GoCtxSpawn
    <3> QED
      BY <3>1, <3>2, <3>3, <3>4 DEF Next
  <2> QED
    BY <2>0, <2>3 DEF GoCtxAdd, IInv, Excluded, Holding
<1> QED
  BY <1>1, Invariance, PTL DEF Spec, NoAddDuringWait

-----------------------------------------------------------------------------
(* Who can hold up whom.                                                   *)

New == {t \in Tasks : task[t] = "new"}

(* The holder of the mutex is on its way to the unlock.                    *)
Held == lock # NoOne => at[lock] \in Holding

(* A Close that waits has cancelled the context.                           *)
Told == \A c \in Callers : at[c] = "closeWait" => cancelled

(* A task that is not at rest is running, and inside a nested GoCtx.       *)
Placed ==
    ~crashed => \A t \in Tasks : at[t] = "idle" \/ (/\ at[t] \in {"goLock", "goAdd", "goSpawn"}
                                                    /\ t \in Nesting /\ task[t] = "run")

(* There is a task left for every GoCtx under way.                         *)
Room == Cardinality(Starting) <= Cardinality(New)

FlowInv == IInv /\ Held /\ Told /\ Placed /\ Room

(* Both sets are finite.                                                   *)
LEMMA StartingFinite ==
    /\ IsFiniteSet(Starting) /\ Cardinality(Starting) \in Nat
    /\ IsFiniteSet(New) /\ Cardinality(New) \in Nat
<1>1. IsFiniteSet(Actors)
  BY TaskAssumption, FS_Union DEF Actors
<1>2. Starting \subseteq Actors /\ New \subseteq Tasks
  BY DEF Starting, New
<1> QED
  BY <1>1, <1>2, TaskAssumption, FS_Subset, FS_CardinalityType

(* The initial state satisfies the invariant.                              *)
LEMMA InitFlow == Init => FlowInv
<1> SUFFICES ASSUME Init PROVE FlowInv
  OBVIOUS
<1>1. Held /\ Told /\ Placed
  BY DEF Init, Held, Told, Placed, Actors
<1>2. Starting = {}
  BY DEF Init, Starting
<1>3. Cardinality(Starting) = 0
  BY <1>2, FS_EmptySet
<1>4. Room
  BY <1>3, StartingFinite DEF Room
<1> QED
  BY <1>1, <1>4, InitInv DEF FlowInv

(* GoCtx leaves room for every GoCtx under way.                            *)
LEMMA GoCtxRoom ==
    ASSUME FlowInv, ~crashed, NEW a \in Actors, GoCtx(a)
    PROVE  Room'
<1>0. TypeOK /\ Room
  BY DEF FlowInv, IInv
<1>1. CASE CallGoCtx(a)
  <2>1. Starting' = Starting \union {a} /\ a \notin Starting /\ New' = New
    BY <1>0, <1>1 DEF CallGoCtx, Goto, TypeOK, Starting, New
  <2>2. Cardinality(Starting') = Cardinality(Starting) + 1
    BY <2>1, StartingFinite, FS_AddElement
  <2> QED
    BY <1>1, <2>1, <2>2, StartingFinite DEF CallGoCtx, Room, New
<1>2. CASE GoCtxLock(a) \/ GoCtxAdd(a)
  <2>1. Starting' = Starting /\ New' = New
    BY <1>0, <1>2 DEF GoCtxLock, GoCtxAdd, Goto, TypeOK, Starting, New
  <2> QED
    BY <1>0, <2>1 DEF Room
<1>3. CASE GoCtxSpawn(a)
  <2>1. Starting' = Starting \ {a} /\ a \in Starting
    BY <1>0, <1>3 DEF GoCtxSpawn, Goto, TypeOK, Starting
  <2>2. PICK t \in Tasks : task[t] = "new" /\ task' = [task EXCEPT ![t] = "run"]
    BY <1>3 DEF GoCtxSpawn
  <2>3. New' = New \ {t} /\ t \in New
    BY <1>0, <2>2 DEF New, TypeOK
  <2>4. Cardinality(Starting') = Cardinality(Starting) - 1
    BY <2>1, StartingFinite, FS_RemoveElement
  <2>5. Cardinality(New') = Cardinality(New) - 1
    BY <2>3, StartingFinite, FS_RemoveElement
  <2> QED
    BY <1>0, <2>4, <2>5, StartingFinite DEF Room
<1> QED
  BY <1>1, <1>2, <1>3 DEF GoCtx

(* GoCtx keeps the invariant.                                              *)
LEMMA GoCtxFlow ==
    ASSUME FlowInv, ~crashed, NEW a \in Actors, GoCtx(a)
    PROVE  FlowInv'
<1>0. IInv /\ TypeOK /\ Held /\ Told /\ Placed /\ IInv' /\ crashed' = crashed
  BY GoCtxInv DEF FlowInv, IInv, GoCtx, CallGoCtx, GoCtxLock, GoCtxAdd, GoCtxSpawn
<1>1. /\ at[a] # "closeWait" /\ at'[a] # "closeWait" /\ cancelled' = cancelled
      /\ \A b \in Actors : b # a => at'[b] = at[b]
  BY <1>0, GotoEffect DEF GoCtx, CallGoCtx, GoCtxLock, GoCtxAdd, GoCtxSpawn
<1>2. Told'
  BY <1>0, <1>1 DEF Told, Actors
<1>3. Held'
  <2>1. CASE CallGoCtx(a)
    BY <1>0, <1>1, <2>1 DEF CallGoCtx, Held, Holding, TypeOK
  <2>2. CASE GoCtxLock(a) \/ GoCtxAdd(a) \/ GoCtxSpawn(a)
    BY <1>0, <1>1, <2>2, GotoEffect DEF GoCtxLock, GoCtxAdd, GoCtxSpawn, Held, Holding, TypeOK
  <2> QED
    BY <2>1, <2>2 DEF GoCtx
<1>4. Placed'
  <2> SUFFICES ASSUME NEW t \in Tasks, at'[t] # "idle"
               PROVE  at'[t] \in {"goLock", "goAdd", "goSpawn"} /\ t \in Nesting /\ task'[t] = "run"
    BY DEF Placed
  <2>0. t \in Actors
    BY DEF Actors
  <2>1. task[t] = "run" => task'[t] = "run"
    BY <1>0 DEF GoCtx, CallGoCtx, GoCtxLock, GoCtxAdd, GoCtxSpawn, TypeOK
  <2>2. CASE t # a
    BY <1>0, <1>1, <2>0, <2>1, <2>2 DEF Placed
  <2>3. CASE t = a /\ CallGoCtx(a)
    BY <1>0, <2>0, <2>1, <2>3, GotoEffect, TaskAssumption DEF CallGoCtx, Running
  <2>4. CASE t = a /\ ~CallGoCtx(a)
    BY <1>0, <2>0, <2>1, <2>4, GotoEffect DEF Placed, GoCtx, GoCtxLock, GoCtxAdd, GoCtxSpawn
  <2> QED
    BY <2>2, <2>3, <2>4
<1> QED
  BY <1>0, <1>2, <1>3, <1>4, GoCtxRoom DEF FlowInv

(* Close keeps the invariant.                                              *)
LEMMA CloseFlow ==
    ASSUME FlowInv, ~crashed, NEW c \in Callers, Close(c)
    PROVE  FlowInv'
<1>0. /\ IInv /\ TypeOK /\ Held /\ Told /\ Placed /\ Room /\ IInv'
      /\ crashed' = crashed /\ task' = task /\ c \in Actors
  BY CloseInv DEF FlowInv, IInv, Close, CallClose, CloseLock, CloseCancel, CloseReturn, Actors
<1>1. /\ at[c] \in {"idle", "closeLock", "closeCancel", "closeWait"}
      /\ at'[c] \in {"idle", "closeLock", "closeCancel", "closeWait"}
      /\ \A b \in Actors : b # c => at'[b] = at[b]
  BY <1>0, GotoEffect DEF Close, CallClose, CloseLock, CloseCancel, CloseReturn
<1>2. Told'
  <2>1. cancelled => cancelled'
    BY DEF Close, CallClose, CloseLock, CloseCancel, CloseReturn
  <2>2. at'[c] = "closeWait" => cancelled'
    BY <1>0, GotoEffect DEF Close, CallClose, CloseLock, CloseCancel, CloseReturn
  <2> QED
    BY <1>0, <1>1, <2>1, <2>2 DEF Told, Actors
<1>3. Held'
  <2>1. CASE CallClose(c)
    BY <1>0, <1>1, <2>1 DEF CallClose, Held, Holding, TypeOK
  <2>2. CASE CloseLock(c) \/ CloseCancel(c) \/ CloseReturn(c)
    BY <1>0, <1>1, <2>2, GotoEffect DEF CloseLock, CloseCancel, CloseReturn, Held, Holding, TypeOK
  <2> QED
    BY <2>1, <2>2 DEF Close
<1>4. Placed'
  BY <1>0, <1>1, TaskAssumption DEF Placed, Actors
<1>5. Starting' = Starting /\ New' = New
  BY <1>0, <1>1 DEF Starting, New
<1> QED
  BY <1>0, <1>2, <1>3, <1>4, <1>5 DEF FlowInv, Room

(* Every step keeps the invariant.                                         *)
LEMMA NextFlow == FlowInv /\ [Next]_vars => FlowInv'
<1> SUFFICES ASSUME FlowInv, [Next]_vars PROVE FlowInv'
  OBVIOUS
<1>0. IInv' /\ TypeOK /\ Held /\ Told /\ Placed /\ Room
  BY NextInv DEF FlowInv, IInv
<1>1. ASSUME NEW t \in Tasks, Finish(t) \/ Panic(t) PROVE FlowInv'
  <2>0. /\ task[t] = "run" /\ at[t] = "idle" /\ UNCHANGED <<lock, cancelled, at, crashed>>
        /\ \E end \in {"done", "panic"} : task' = [task EXCEPT ![t] = end]
    BY <1>1 DEF Finish, Panic
  <2>1. New' = New /\ Starting' = Starting
    BY <1>0, <2>0 DEF New, Starting, TypeOK
  <2>2. Placed'
    BY <1>0, <2>0 DEF Placed, TypeOK
  <2> QED
    BY <1>0, <2>0, <2>1, <2>2 DEF FlowInv, Held, Told, Room
<1>2. ASSUME NEW t \in Tasks, Repanic(t) PROVE FlowInv'
  <2>1. New' = New /\ Starting' = Starting
    BY <1>0, <1>2 DEF Repanic, New, Starting
  <2> QED
    BY <1>0, <1>2, <2>1 DEF Repanic, FlowInv, Held, Told, Room, Placed
<1>3. CASE CancelParent
  <2>1. New' = New /\ Starting' = Starting
    BY <1>3 DEF CancelParent, New, Starting
  <2> QED
    BY <1>0, <1>3, <2>1 DEF CancelParent, FlowInv, Held, Told, Room, Placed
<1>4. CASE UNCHANGED vars
  <2>1. New' = New /\ Starting' = Starting
    BY <1>4 DEF vars, New, Starting
  <2> QED
    BY <1>0, <1>4, <2>1 DEF vars, FlowInv, Held, Told, Room, Placed
<1> QED
  BY <1>1, <1>2, <1>3, <1>4, GoCtxFlow, CloseFlow DEF Next

(* Whoever waits for the mutex, or for the tasks with the mutex in hand,   *)
(* waits for a goroutine that can go on, unless a task calls GoCtx itself: *)
(* for any number of goroutines the mutex, the counter and the context     *)
(* leave no other way to hold up Close.                                    *)
THEOREM CloseIsNotHeldUp == Spec => []OnlyNestingBlocks
<1>1. FlowInv => OnlyNestingBlocks
  <2> SUFFICES ASSUME FlowInv, ~crashed, lock # NoOne
               PROVE  \/ at[lock] \in {"goAdd", "closeCancel"}
                      \/ at[lock] = "goSpawn" /\ \E t \in Tasks : task[t] = "new"
                      \/ at[lock] = "closeWait" /\ wg = 0
                      \/ /\ at[lock] = "closeWait" /\ cancelled /\ Running # {}
                         /\ \A t \in Running : at[t] = "idle" \/ (at[t] = "goLock" /\ t \in Nesting)
    BY DEF OnlyNestingBlocks
  <2>0. /\ TypeOK /\ Excluded /\ Counted /\ Held /\ Told /\ Placed /\ Room
        /\ lock \in Actors /\ at[lock] \in Holding
    BY DEF FlowInv, IInv, TypeOK, Held
  <2>1. CASE at[lock] = "goSpawn"
    <3>1. lock \in Starting
      BY <2>0, <2>1 DEF Starting
    <3>2. Cardinality(Starting) # 0
      BY <3>1, StartingFinite, FS_EmptySet
    <3>3. Cardinality(New) # 0
      BY <2>0, <3>2, StartingFinite DEF Room
    <3>4. New # {}
      BY <3>3, FS_EmptySet
    <3> QED
      BY <2>1, <3>4 DEF New
  <2>2. CASE at[lock] = "closeWait"
    <3>1. lock \in Callers
      BY <2>0, <2>2 DEF Placed, Actors
    <3>2. \A t \in Running : at[t] = "idle" \/ (at[t] = "goLock" /\ t \in Nesting)
      BY <2>0, <3>1, TaskAssumption DEF Placed, Excluded, Holding, Running, Actors
    <3>3. ~ \E a \in Actors : at[a] = "goSpawn"
      BY <2>0, <2>2 DEF Excluded, Holding
    <3>4. wg = Cardinality(Running)
      BY <2>0, <3>3, RunningFinite DEF Counted
    <3>5. wg # 0 => Running # {}
      BY <3>4, FS_EmptySet
    <3> QED
      BY <2>0, <2>2, <3>1, <3>2, <3>5 DEF Told
  <2> QED
    BY <2>0, <2>1, <2>2 DEF Holding
<1> QED
  BY <1>1, InitFlow, NextFlow, PTL DEF Spec

=============================================================================
