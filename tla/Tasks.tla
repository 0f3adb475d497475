-------------------------------- MODULE Tasks --------------------------------
(***************************************************************************)
(* POST /api/docs/:id/tasks on one document: sync/handler.go AssignTask,   *)
(* store.go CreateTask with the hook model.go BeforeCreate, over a bounded *)
(* pool of database connections, while other requests change who is a      *)
(* member of the document.                                                 *)
(*                                                                         *)
(* Create runs in a transaction of its own, and the hook's count and the   *)
(* insert are two statements of it at READ COMMITTED.  The hook ignores    *)
(* the error of its count, but Postgres does not: after a failed statement *)
(* it refuses the rest of the transaction.                                 *)
(***************************************************************************)
EXTENDS Naturals, FiniteSets

CONSTANTS
  Request,      \* the POST requests
  User,
  AssigneeID,   \* the assignee each request names, or Empty
  Empty,        \* "", which is no value of a uuid column
  NoTask,
  MaxOpen,      \* DBMaxOpen, the size of the pool
  MaxChanges,   \* bound: changes of membership
  MaxFailures   \* bound: failing statements, lost answers and crashes

ASSUME TasksAssumption ==
  /\ AssigneeID \in [Request -> User \union {Empty}]
  /\ Empty \notin User
  /\ NoTask \notin [assignee : User \union {Empty}, status : {"open", "unassigned"}]
  /\ MaxOpen \in Nat \ {0} /\ MaxChanges \in Nat /\ MaxFailures \in Nat

VARIABLES
  member,    \* users with a row in document_members
  step,      \* where the handler goroutine of each request is
  pool,      \* requests that hold a connection
  task,      \* CreateTask's task: assignee and status
  refused,   \* Postgres refuses the rest of the request's transaction
  row,       \* the committed row of each request's task
  events,    \* requests whose task_assigned event was put in Hub.Broadcast
  answer,    \* what the client got
  changes, failures,
  \* history:
  access,    \* users that were members at some moment of the request
  unsure     \* requests whose COMMIT was carried out and its answer lost

dbVars == <<member, row>>
countVars == <<changes, failures>>
vars == <<dbVars, countVars, step, pool, task, refused, events, answer,
          access, unsure>>

Status == {"open", "unassigned"}
Task == [assignee : User \union {Empty}, status : Status]
Over == {"answered", "dead"}

Init ==
  /\ member \in SUBSET User
  /\ step = [r \in Request |-> "new"]
  /\ pool = {}
  /\ task = [r \in Request |-> [assignee |-> AssigneeID[r], status |-> "open"]]
  /\ refused = [r \in Request |-> FALSE]
  /\ row = [r \in Request |-> NoTask]
  /\ events = {}
  /\ answer = [r \in Request |-> "none"]
  /\ changes = 0 /\ failures = 0
  /\ access = [r \in Request |-> {}]
  /\ unsure = {}

-----------------------------------------------------------------------------
(* Who has access: other requests, not in the repository.                   *)

Change ==
  /\ changes < MaxChanges
  /\ changes' = changes + 1
  /\ \/ \E u \in User \ member :
          /\ member' = member \union {u}
          /\ access' = [r \in Request |->
               IF step[r] \in {"new"} \union Over THEN access[r] ELSE access[r] \union {u}]
     \/ \E u \in member : member' = member \ {u} /\ UNCHANGED access
  /\ UNCHANGED <<row, failures, step, pool, task, refused, events, answer, unsure>>

-----------------------------------------------------------------------------
(* A request.                                                               *)

Fails == failures < MaxFailures /\ failures' = failures + 1
Works == UNCHANGED failures

Free == Cardinality(pool) < MaxOpen

\* Mutant of Fail: the transaction is not rolled back.
FailKeepsConnection(r) ==
  /\ step' = [step EXCEPT ![r] = "answered"]
  /\ answer' = [answer EXCEPT ![r] = "error"]
  /\ pool' = pool

\* Mutant of Fail: the handler does not look at the error.
FailGoesOn(r) ==
  /\ step' = [step EXCEPT ![r] = "reloaded"]
  /\ UNCHANGED answer
  /\ pool' = pool \ {r}

\* CreateTask returns an error: rolled back, connection released, status 500.
Fail(r) ==
  /\ step' = [step EXCEPT ![r] = "answered"]
  /\ answer' = [answer EXCEPT ![r] = "error"]
  /\ pool' = pool \ {r}

\* BEGIN, on a connection of the pool, waiting for one while it is exhausted.
Begin(r) ==
  /\ step[r] = "new"
  /\ Free
  /\ \/ /\ Works
        /\ step' = [step EXCEPT ![r] = "begun"]
        /\ pool' = pool \union {r}
        /\ UNCHANGED answer
     \/ Fails /\ Fail(r)
  /\ access' = [access EXCEPT ![r] = member]
  /\ UNCHANGED <<dbVars, changes, task, refused, events, unsure>>

\* Mutant of CanCount: the hook queries the pool and not its transaction.
CanCountOnPool(r) == Free

\* The hook has its transaction's connection.
CanCount(r) == r \in pool

\* Mutant of Checked: the hook trusts the request.
CheckedNever(r, count) == task[r]

\* An assignee that the count did not find is replaced by none.
Checked(r, count) ==
  IF count = 0 /\ task[r].assignee # Empty
    THEN [assignee |-> Empty, status |-> "unassigned"] ELSE task[r]

\* BeforeCreate.  A query that fails leaves the count at 0, as does one that
\* compares a uuid with an empty string.
BeforeCreate(r) ==
  /\ step[r] = "begun"
  /\ CanCount(r)
  /\ \/ /\ Works
        /\ task[r].assignee # Empty
        /\ task' = [task EXCEPT ![r] =
             Checked(r, IF task[r].assignee \in member THEN 1 ELSE 0)]
        /\ UNCHANGED refused
     \/ /\ IF task[r].assignee = Empty THEN Works ELSE Fails
        /\ task' = [task EXCEPT ![r] = Checked(r, 0)]
        /\ refused' = [refused EXCEPT ![r] = TRUE]
  /\ step' = [step EXCEPT ![r] = "checked"]
  /\ UNCHANGED <<dbVars, changes, pool, events, answer, access, unsure>>

\* INSERT: assignee_id is a uuid, for which "" is no value.
Insert(r) ==
  /\ step[r] = "checked"
  /\ \/ /\ Works
        /\ ~refused[r] /\ task[r].assignee # Empty
        /\ step' = [step EXCEPT ![r] = "inserted"]
        /\ UNCHANGED <<pool, answer>>
     \/ /\ IF refused[r] \/ task[r].assignee = Empty THEN Works ELSE Fails
        /\ Fail(r)
  /\ UNCHANGED <<dbVars, changes, task, refused, events, access, unsure>>

\* COMMIT: done and known, not done, or done with its answer lost.
Commit(r) ==
  /\ step[r] = "inserted"
  /\ \/ /\ Works
        /\ row' = [row EXCEPT ![r] = task[r]]
        /\ step' = [step EXCEPT ![r] = "stored"]
        /\ pool' = pool \ {r}
        /\ UNCHANGED <<answer, unsure>>
     \/ Fails /\ Fail(r) /\ UNCHANGED <<row, unsure>>
     \/ /\ Fails /\ Fail(r)
        /\ row' = [row EXCEPT ![r] = task[r]]
        /\ unsure' = unsure \union {r}
  /\ UNCHANGED <<member, changes, task, refused, events, access>>

\* Mutant of Reload: CreateTask returns the error of its second query.
ReloadOrFail(r) ==
  /\ step[r] = "stored"
  /\ Free
  /\ \/ /\ Works
        /\ step' = [step EXCEPT ![r] = "reloaded"]
        /\ UNCHANGED <<pool, answer>>
     \/ Fails /\ Fail(r)
  /\ UNCHANGED <<dbVars, changes, pool, task, refused, events, access, unsure>>

\* The second query of CreateTask, on a connection it gives back at once; its
\* error is ignored.
Reload(r) ==
  /\ step[r] = "stored"
  /\ Free
  /\ Works \/ Fails
  /\ step' = [step EXCEPT ![r] = "reloaded"]
  /\ UNCHANGED <<dbVars, changes, pool, task, refused, events, answer, access, unsure>>

\* The non-blocking send to Hub.Broadcast, dropped when its buffer is full.
Tell(r) ==
  /\ step[r] = "reloaded"
  /\ events' = events \union {r} \/ UNCHANGED events
  /\ step' = [step EXCEPT ![r] = "answered"]
  /\ answer' = [answer EXCEPT ![r] = "ok"]
  /\ UNCHANGED <<dbVars, countVars, pool, task, refused, access, unsure>>

\* The process dies: its transactions are rolled back, its requests are gone.
Crash ==
  /\ Fails
  /\ step' = [r \in Request |->
       IF step[r] \in {"new", "answered"} THEN step[r] ELSE "dead"]
  /\ pool' = {}
  /\ UNCHANGED <<dbVars, changes, task, refused, events, answer, access, unsure>>

AssignTask(r) ==
  \/ Begin(r) \/ BeforeCreate(r) \/ Insert(r) \/ Commit(r) \/ Reload(r) \/ Tell(r)

Next == Change \/ Crash \/ \E r \in Request : AssignTask(r)

Spec == Init /\ [][Next]_vars

\* The database answers, and the pool serves waiting requests in turn.
FairSpec == Spec /\ \A r \in Request : WF_vars(AssignTask(r))

-----------------------------------------------------------------------------
TypeOK ==
  /\ member \subseteq User
  /\ step \in [Request -> {"new", "begun", "checked", "inserted", "stored", "reloaded"}
                            \union Over]
  /\ pool = {r \in Request : step[r] \in {"begun", "checked", "inserted"}}
  /\ Cardinality(pool) <= MaxOpen
  /\ task \in [Request -> Task]
  /\ refused \in [Request -> BOOLEAN]
  /\ row \in [Request -> Task \union {NoTask}]
  /\ events \subseteq Request
  /\ answer \in [Request -> {"none", "ok", "error"}]
  /\ changes \in 0 .. MaxChanges /\ failures \in 0 .. MaxFailures
  /\ access \in [Request -> SUBSET User]
  /\ unsure \subseteq Request

Stored(r) == row[r] # NoTask

\* A stored task that names an assignee names the person it was meant for, who
\* had access to the document while it was being stored, if not any more when
\* it was.  (What becomes of a task whose assignee has no access is not said.)
AssigneeHadAccess ==
  \A r \in Request : Stored(r) /\ row[r].assignee # Empty =>
    /\ row[r] = [assignee |-> AssigneeID[r], status |-> "open"]
    /\ AssigneeID[r] \in access[r]

\* Collaborators hear of stored tasks only.
OnlyStoredTasksAreTold == \A r \in events : Stored(r)

\* The client can believe its answer: after 200 the task is stored, and after
\* 500 it is not and may be sent again, unless a COMMIT's answer was lost.
AnswersAreTrue ==
  \A r \in Request :
    /\ answer[r] = "ok" => Stored(r)
    /\ answer[r] = "error" /\ Stored(r) => r \in unsure

\* However many requests there are for the connections of the pool, none waits
\* for one for ever: a request that holds one never needs a second.
EveryRequestAnswered ==
  \A r \in Request : step[r] # "new" ~> step[r] \in Over
=============================================================================
