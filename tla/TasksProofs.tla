----------------------------- MODULE TasksProofs -----------------------------
(***************************************************************************)
(* Proofs about Tasks, for any requests, users and pool size, and without  *)
(* the bounds of the run.                                                  *)
(***************************************************************************)
EXTENDS Tasks, FiniteSetTheorems, TLAPS

Asked(r) == [assignee |-> AssigneeID[r], status |-> "open"]

\* What is known of a request at each of its steps.
Progress(r) ==
  /\ step[r] \in {"new", "begun", "checked", "inserted"} => row[r] = NoTask
  /\ step[r] \in {"stored", "reloaded"} => Stored(r)
  /\ step[r] # "answered" => answer[r] = "none"
  /\ step[r] \notin {"new"} \union Over => member \subseteq access[r]
  /\ step[r] \in {"new", "begun"} => task[r] = Asked(r)
  /\ step[r] = "checked" =>
       \/ task[r].assignee = Empty
       \/ task[r] = Asked(r) /\ AssigneeID[r] \in access[r]
  /\ step[r] = "inserted" => task[r] = Asked(r) /\ AssigneeID[r] \in access[r]

\* What is stored, told and answered, request by request.
Outcome(r) ==
  /\ Stored(r) => row[r] = Asked(r) /\ AssigneeID[r] \in access[r]
  /\ r \in events => Stored(r)
  /\ answer[r] = "ok" => Stored(r)
  /\ answer[r] = "error" /\ Stored(r) => r \in unsure

TasksInv ==
  /\ TypeOK
  /\ IsFiniteSet(pool)
  /\ \A r \in Request : Progress(r) /\ Outcome(r)

-----------------------------------------------------------------------------
LEMMA AskedIsTask ==
  ASSUME NEW r \in Request
  PROVE  Asked(r) \in Task /\ Asked(r) # NoTask
BY TasksAssumption DEF Asked, Task, Status

LEMMA InitHolds == Init => TasksInv
<1> SUFFICES ASSUME Init PROVE TasksInv
  OBVIOUS
<1>1. IsFiniteSet(pool) /\ Cardinality(pool) = 0
  BY FS_EmptySet DEF Init
<1>2. TypeOK
  BY <1>1, AskedIsTask, TasksAssumption DEF Init, TypeOK, Asked, Over
<1>3. ASSUME NEW r \in Request PROVE Progress(r) /\ Outcome(r)
  BY <1>3 DEF Init, Progress, Outcome, Stored, Asked, Over
<1> QED BY <1>1, <1>2, <1>3 DEF TasksInv

-----------------------------------------------------------------------------
(* The pool.                                                                *)

LEMMA PoolGrows ==
  ASSUME TypeOK, IsFiniteSet(pool), Free, NEW r \in Request
  PROVE  IsFiniteSet(pool \union {r}) /\ Cardinality(pool \union {r}) <= MaxOpen
<1>1. Cardinality(pool) \in Nat
  BY FS_CardinalityType
<1>2. /\ IsFiniteSet(pool \union {r})
      /\ \/ Cardinality(pool \union {r}) = Cardinality(pool)
         \/ Cardinality(pool \union {r}) = Cardinality(pool) + 1
  BY FS_AddElement
<1>3. Cardinality(pool \union {r}) \in Nat
  BY <1>2, FS_CardinalityType
<1> QED BY <1>1, <1>2, <1>3, TasksAssumption DEF Free

LEMMA PoolShrinks ==
  ASSUME TypeOK, IsFiniteSet(pool), NEW r \in Request
  PROVE  IsFiniteSet(pool \ {r}) /\ Cardinality(pool \ {r}) <= MaxOpen
<1>1. Cardinality(pool) \in Nat /\ Cardinality(pool) <= MaxOpen
  BY FS_CardinalityType DEF TypeOK
<1>2. /\ IsFiniteSet(pool \ {r})
      /\ Cardinality(pool \ {r}) <= Cardinality(pool)
  BY <1>1, FS_RemoveElement
<1>3. Cardinality(pool \ {r}) \in Nat
  BY <1>2, FS_CardinalityType
<1> QED BY <1>1, <1>2, <1>3, TasksAssumption

LEMMA PoolEmpties == IsFiniteSet({}) /\ Cardinality({}) <= MaxOpen
BY FS_EmptySet, TasksAssumption

LEMMA PoolSteps ==
  ASSUME NEW r \in Request, AssignTask(r)
  PROVE  \/ pool' \in {pool, pool \ {r}}
         \/ Begin(r) /\ pool' = pool \union {r}
<1>1. CASE Begin(r)
  <2>1. pool' = pool \ {r} \/ pool' = pool \union {r}
    BY <1>1 DEF Begin, Fail
  <2> QED BY <1>1, <2>1
<1>2. CASE BeforeCreate(r) \/ Reload(r) \/ Tell(r)
  BY <1>2 DEF BeforeCreate, Reload, Tell, dbVars, countVars
<1>3. CASE Insert(r) \/ Commit(r)
  BY <1>3 DEF Insert, Commit, Fail
<1> QED BY <1>1, <1>2, <1>3 DEF AssignTask

LEMMA PoolNext ==
  ASSUME TasksInv, [Next]_vars
  PROVE  IsFiniteSet(pool') /\ Cardinality(pool') <= MaxOpen
<1>1. ASSUME NEW r \in Request, AssignTask(r)
      PROVE  IsFiniteSet(pool') /\ Cardinality(pool') <= MaxOpen
  <2>1. Begin(r) => Free
    BY DEF Begin
  <2> QED BY <1>1, <2>1, PoolSteps, PoolGrows, PoolShrinks DEF TasksInv, TypeOK
<1>2. CASE Crash
  BY <1>2, PoolEmpties DEF Crash
<1>3. CASE Change \/ UNCHANGED vars
  BY <1>3 DEF Change, vars, TasksInv, TypeOK
<1> QED BY <1>1, <1>2, <1>3 DEF Next

-----------------------------------------------------------------------------
(* The steps.                                                               *)

LEMMA CountTyped ==
  ASSUME Fails \/ Works, failures \in 0 .. MaxFailures
  PROVE  failures' \in 0 .. MaxFailures
BY TasksAssumption DEF Fails, Works

\* The requests that do not take the step are where they were.
LEMMA OthersStay ==
  ASSUME TasksInv, NEW r \in Request, AssignTask(r), NEW q \in Request, q # r
  PROVE  Progress(q)' /\ Outcome(q)'
<1> USE DEF TasksInv, TypeOK
<1>1. Progress(q) /\ Outcome(q)
  OBVIOUS
<1>2. /\ step'[q] = step[q] /\ row'[q] = row[q] /\ task'[q] = task[q]
      /\ answer'[q] = answer[q] /\ access'[q] = access[q]
      /\ q \in events' <=> q \in events
      /\ q \in unsure' <=> q \in unsure
      /\ member' = member
  <2>1. CASE Begin(r)
    BY <2>1 DEF Begin, Fail, dbVars
  <2>2. CASE BeforeCreate(r)
    BY <2>2 DEF BeforeCreate, dbVars
  <2>3. CASE Insert(r)
    BY <2>3 DEF Insert, Fail, dbVars
  <2>4. CASE Commit(r)
    BY <2>4 DEF Commit, Fail
  <2>5. CASE Reload(r)
    BY <2>5 DEF Reload, dbVars
  <2>6. CASE Tell(r)
    BY <2>6 DEF Tell, dbVars
  <2> QED BY <2>1, <2>2, <2>3, <2>4, <2>5, <2>6 DEF AssignTask
<1> QED BY <1>1, <1>2 DEF Progress, Outcome, Stored, Asked

LEMMA BeginStep ==
  ASSUME TasksInv, NEW r \in Request, Begin(r)
  PROVE  TypeOK' /\ Progress(r)' /\ Outcome(r)'
<1> USE DEF TasksInv
<1>1. TypeOK'
  BY PoolGrows, PoolShrinks, CountTyped DEF Begin, Fail, Works, TypeOK, dbVars, Over
<1>2. Progress(r)' /\ Outcome(r)'
  BY DEF Begin, Fail, TypeOK, dbVars, Over, Progress, Outcome, Stored, Asked
<1> QED BY <1>1, <1>2

LEMMA BeforeCreateStep ==
  ASSUME TasksInv, NEW r \in Request, BeforeCreate(r)
  PROVE  TypeOK' /\ Progress(r)' /\ Outcome(r)'
<1> USE DEF TasksInv
<1>1. Checked(r, 0) \in Task /\ Checked(r, 1) \in Task
  BY DEF Checked, TypeOK, Task, Status
<1>2. TypeOK'
  <2>1. step[r] = "begun" /\ step' = [step EXCEPT ![r] = "checked"]
    BY DEF BeforeCreate
  <2>2. task' \in [Request -> Task]
    BY <1>1 DEF BeforeCreate, TypeOK
  <2>3. refused' \in [Request -> BOOLEAN]
    BY DEF BeforeCreate, TypeOK
  <2>4. failures' \in 0 .. MaxFailures
    <3>1. Fails \/ Works
      BY DEF BeforeCreate
    <3> QED BY <3>1, CountTyped DEF TypeOK
  <2>5. UNCHANGED <<dbVars, changes, pool, events, answer, access, unsure>>
    BY DEF BeforeCreate
  <2>6. pool' = {q \in Request : step'[q] \in {"begun", "checked", "inserted"}}
    BY <2>1, <2>5 DEF TypeOK
  <2> QED BY <2>1, <2>2, <2>3, <2>4, <2>5, <2>6 DEF TypeOK, dbVars, Over
<1>3. \/ task'[r].assignee = Empty
      \/ task'[r] = Asked(r) /\ AssigneeID[r] \in access[r]
  BY TasksAssumption DEF BeforeCreate, Checked, TypeOK, Progress, Asked, Over
<1>4. /\ step[r] = "begun" /\ step'[r] = "checked"
      /\ UNCHANGED <<member, row, events, answer, access, unsure>>
  BY DEF BeforeCreate, TypeOK, dbVars
<1>5. Progress(r)' /\ Outcome(r)'
  BY <1>3, <1>4 DEF Over, Progress, Outcome, Stored, Asked
<1> QED BY <1>2, <1>5

LEMMA InsertStep ==
  ASSUME TasksInv, NEW r \in Request, Insert(r)
  PROVE  TypeOK' /\ Progress(r)' /\ Outcome(r)'
<1> USE DEF TasksInv
<1>1. TypeOK'
  BY PoolShrinks, CountTyped DEF Insert, Fail, TypeOK, dbVars, Over
<1>2. Progress(r)' /\ Outcome(r)'
  BY DEF Insert, Fail, TypeOK, dbVars, Over, Progress, Outcome, Stored, Asked
<1> QED BY <1>1, <1>2

LEMMA CommitStep ==
  ASSUME TasksInv, NEW r \in Request, Commit(r)
  PROVE  TypeOK' /\ Progress(r)' /\ Outcome(r)'
<1> USE DEF TasksInv
<1>1. TypeOK'
  <2>1. /\ step'[r] \in {"stored", "answered"} /\ pool' = pool \ {r}
        /\ step' = [step EXCEPT ![r] = step'[r]]
        /\ row' \in [Request -> Task \union {NoTask}]
        /\ answer' \in [Request -> {"none", "ok", "error"}]
        /\ unsure' \subseteq Request
    BY DEF Commit, Fail, TypeOK
  <2>2. step[r] = "inserted" /\ failures' \in 0 .. MaxFailures
        /\ UNCHANGED <<member, changes, task, refused, events, access>>
    BY CountTyped DEF Commit, TypeOK
  <2> QED BY <2>1, <2>2, PoolShrinks DEF TypeOK, Over
<1>2. /\ step[r] = "inserted" /\ row[r] = NoTask
      /\ task[r] = Asked(r) /\ task[r] # NoTask /\ AssigneeID[r] \in access[r]
      /\ answer[r] = "none" /\ r \notin events /\ member \subseteq access[r]
  BY AskedIsTask DEF Commit, Progress, Outcome, Stored, Over
<1>3. /\ UNCHANGED <<member, task, events, access>>
      /\ \/ row'[r] = task[r] /\ step'[r] = "stored" /\ answer'[r] = "none"
         \/ row'[r] = NoTask /\ step'[r] = "answered" /\ answer'[r] = "error"
         \/ /\ row'[r] = task[r] /\ step'[r] = "answered" /\ answer'[r] = "error"
            /\ r \in unsure'
  BY <1>2 DEF Commit, Fail, TypeOK
<1>4. Progress(r)' /\ Outcome(r)'
  BY <1>2, <1>3 DEF Over, Progress, Outcome, Stored, Asked
<1> QED BY <1>1, <1>4

LEMMA ReloadStep ==
  ASSUME TasksInv, NEW r \in Request, Reload(r)
  PROVE  TypeOK' /\ Progress(r)' /\ Outcome(r)'
<1> USE DEF TasksInv
<1>1. TypeOK'
  BY CountTyped DEF Reload, TypeOK, dbVars, Over
<1>2. Progress(r)' /\ Outcome(r)'
  BY DEF Reload, TypeOK, dbVars, Over, Progress, Outcome, Stored, Asked
<1> QED BY <1>1, <1>2

LEMMA TellStep ==
  ASSUME TasksInv, NEW r \in Request, Tell(r)
  PROVE  TypeOK' /\ Progress(r)' /\ Outcome(r)'
<1> USE DEF TasksInv
<1>1. TypeOK'
  BY DEF Tell, TypeOK, dbVars, countVars, Over
<1>2. Progress(r)' /\ Outcome(r)'
  BY DEF Tell, TypeOK, dbVars, countVars, Over, Progress, Outcome, Stored, Asked
<1> QED BY <1>1, <1>2

\* Access is only ever gained by a request that is running.
LEMMA ChangeStep ==
  ASSUME TasksInv, Change
  PROVE  TypeOK' /\ \A r \in Request : Progress(r)' /\ Outcome(r)'
<1> USE DEF TasksInv
<1>1. TypeOK'
  BY TasksAssumption DEF Change, TypeOK
<1>2. ASSUME NEW r \in Request PROVE Progress(r)' /\ Outcome(r)'
  <2>1. Progress(r) /\ Outcome(r)
    OBVIOUS
  <2>2. access[r] \subseteq access'[r]
    BY DEF Change, TypeOK
  <2>3. step[r] \notin {"new"} \union Over => member' \subseteq access'[r]
    BY <2>1 DEF Change, TypeOK, Progress
  <2> QED BY <2>1, <2>2, <2>3 DEF Change, Progress, Outcome, Stored, Asked
<1> QED BY <1>1, <1>2

LEMMA CrashStep ==
  ASSUME TasksInv, Crash
  PROVE  TypeOK' /\ \A r \in Request : Progress(r)' /\ Outcome(r)'
<1> USE DEF TasksInv
<1>1. TypeOK'
  BY PoolEmpties, CountTyped DEF Crash, TypeOK, dbVars, Over
<1>2. ASSUME NEW r \in Request PROVE Progress(r)' /\ Outcome(r)'
  BY DEF Crash, TypeOK, dbVars, Over, Progress, Outcome, Stored, Asked
<1> QED BY <1>1, <1>2

LEMMA NextHolds == TasksInv /\ [Next]_vars => TasksInv'
<1> SUFFICES ASSUME TasksInv, [Next]_vars PROVE TasksInv'
  OBVIOUS
<1>1. ASSUME NEW r \in Request, AssignTask(r)
      PROVE  TypeOK' /\ \A q \in Request : Progress(q)' /\ Outcome(q)'
  <2>1. TypeOK' /\ Progress(r)' /\ Outcome(r)'
    BY <1>1, BeginStep, BeforeCreateStep, InsertStep, CommitStep, ReloadStep, TellStep
       DEF AssignTask
  <2> QED BY <1>1, <2>1, OthersStay
<1>2. CASE Change \/ Crash
  BY <1>2, ChangeStep, CrashStep, PoolNext DEF TasksInv
<1>3. CASE UNCHANGED vars
  BY <1>3 DEF vars, dbVars, countVars, TasksInv, TypeOK, Progress, Outcome, Stored,
              Asked
<1> QED BY <1>1, <1>2, <1>3, PoolNext DEF Next, TasksInv

LEMMA InvHolds == Spec => []TasksInv
BY InitHolds, NextHolds, PTL DEF Spec

-----------------------------------------------------------------------------
\* Types; the requests that hold a connection are those inside a transaction,
\* never more than the pool has.
THEOREM TypeCorrect == Spec => []TypeOK
<1>1. TasksInv => TypeOK
  BY DEF TasksInv
<1> QED BY <1>1, InvHolds, PTL

\* A stored task that names an assignee names the person it was meant for, who
\* had access to the document at some moment of the request.
THEOREM AssigneesHadAccess == Spec => []AssigneeHadAccess
<1>1. TasksInv => AssigneeHadAccess
  BY DEF TasksInv, AssigneeHadAccess, Outcome, Asked
<1> QED BY <1>1, InvHolds, PTL

\* A task_assigned event is put in Hub.Broadcast for stored tasks only.
THEOREM EventsAreTrue == Spec => []OnlyStoredTasksAreTold
<1>1. TasksInv => OnlyStoredTasksAreTold
  BY DEF TasksInv, TypeOK, OnlyStoredTasksAreTold, Outcome
<1> QED BY <1>1, InvHolds, PTL

\* After 200 the task is stored, after 500 it is not, unless the answer of a
\* COMMIT was lost.
THEOREM ClientsCanTrust == Spec => []AnswersAreTrue
<1>1. TasksInv => AnswersAreTrue
  BY DEF TasksInv, AnswersAreTrue, Outcome
<1> QED BY <1>1, InvHolds, PTL
=============================================================================
