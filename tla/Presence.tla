------------------------------ MODULE Presence ------------------------------
(***************************************************************************)
(* REST handlers asking the hub who is online (hub.go OnlineInDoc, called  *)
(* by GetAnalytics) while the Hub goroutine changes the same Go map without*)
(* any synchronisation.                                                    *)
(*                                                                         *)
(* A Go map write is not atomic.  The runtime marks the map while it       *)
(* rearranges it, and a range statement that sees the mark kills the       *)
(* process, which no recover can stop; the mark is read without            *)
(* synchronisation, so a range may also miss it and read what is being     *)
(* rearranged.  An assignment first makes the key visible and then stores  *)
(* the value.  A range visits every key that is there from beginning to    *)
(* end once; one that is inserted meanwhile it may visit or skip.          *)
(***************************************************************************)
EXTENDS Naturals, Sequences

CONSTANTS
  User, Doc,
  Call,        \* calls of OnlineInDoc
  Asks,        \* the docID each call is made with
  None,        \* no entry, no document, no user
  Unset,       \* a key whose value has not been stored yet
  MaxChanges   \* bound: how often the hub changes the map

ASSUME PresenceAssumption ==
  /\ Asks \in [Call -> Doc]
  /\ {None, Unset} \intersect (User \union Doc) = {} /\ None # Unset
  /\ MaxChanges \in Nat

VARIABLES
  clients,  \* the map: what a reader finds under each user, a client's DocID
  run,      \* where Hub.Run is, and the map operation it is in
  changes,  \* how many it has begun
  call,     \* where each call is
  must,     \* keys its range has still to visit
  may,      \* keys inserted since it began and not visited
  uid,      \* the key its range has just moved to; Unset: deleted since
  users,    \* what OnlineInDoc has collected
  thrown,   \* fatal error: concurrent map iteration and map write
  \* history, from the beginning of the call to its end:
  seen,     \* users that were registered on the document at some moment
  stayed,   \* users that were all the time
  churned   \* users inserted or deleted

iterVars == <<call, must, may, uid, users>>
historyVars == <<seen, stayed, churned>>
vars == <<clients, run, changes, iterVars, thrown, historyVars>>

Ready == [at |-> "select", user |-> None, doc |-> None]

On(d) == {u \in User : clients[u] = d}
Keys == {u \in User : clients[u] # None}

\* The user whose entry is being inserted or deleted.
Churning ==
  IF run.at = "select" \/ (run.doc # None /\ clients[run.user] \in Doc)
    THEN {} ELSE {run.user}

Init ==
  /\ clients = [u \in User |-> None]
  /\ run = Ready
  /\ changes = 0
  /\ call = [r \in Call |-> "idle"]
  /\ must = [r \in Call |-> {}]
  /\ may = [r \in Call |-> {}]
  /\ uid = [r \in Call |-> None]
  /\ users = [r \in Call |-> <<>>]
  /\ thrown = FALSE
  /\ seen = [r \in Call |-> {}]
  /\ stayed = [r \in Call |-> {}]
  /\ churned = [r \in Call |-> {}]

-----------------------------------------------------------------------------
(* The Hub goroutine.                                                       *)

\* Mutant of Change: Unregister does not look the user up before it deletes.
ChangeBlindly(u, d) ==
  /\ ~thrown
  /\ run.at = "select"
  /\ changes < MaxChanges
  /\ run' = [at |-> "writing", user |-> u, doc |-> d]
  /\ changes' = changes + 1
  /\ churned' = [r \in Call |->
       IF call[r] = "ranging" /\ None \in {d, clients[u]}
         THEN churned[r] \union {u} ELSE churned[r]]
  /\ UNCHANGED <<clients, iterVars, thrown, seen, stayed>>

\* Register assigns an entry, for a user without one or in place of an older
\* connection's; Unregister and eviction delete one that is there.
Change(u, d) ==
  /\ ~thrown
  /\ run.at = "select"
  /\ changes < MaxChanges
  /\ d = None => clients[u] # None
  /\ run' = [at |-> "writing", user |-> u, doc |-> d]
  /\ changes' = changes + 1
  /\ churned' = [r \in Call |->
       IF call[r] = "ranging" /\ None \in {d, clients[u]}
         THEN churned[r] \union {u} ELSE churned[r]]
  /\ UNCHANGED <<clients, iterVars, thrown, seen, stayed>>

\* Mutant of InPlace: Register deletes the old entry and inserts a new one.
Never(u) == FALSE

InPlace(u) == clients[u] # None

\* Ranges in progress lose a deleted key, and are free to visit a new one.
Forget(u, new) ==
  /\ must' = [r \in Call |-> must[r] \ {u}]
  /\ may' = [r \in Call |-> IF new /\ call[r] = "ranging" THEN may[r] \union {u}
                                                        ELSE may[r] \ {u}]

Delete ==
  /\ ~thrown
  /\ run.at = "writing" /\ run.doc = None
  /\ clients' = [clients EXCEPT ![run.user] = None]
  /\ Forget(run.user, FALSE)
  /\ run' = Ready
  /\ stayed' = [r \in Call |-> stayed[r] \ {run.user}]
  /\ uid' = [r \in Call |-> IF uid[r] = run.user THEN Unset ELSE uid[r]]
  /\ UNCHANGED <<changes, call, users, thrown, seen, churned>>

\* The map has made room for the key; the value is stored next.
MakeRoom ==
  /\ ~thrown
  /\ run.at = "writing" /\ run.doc # None
  /\ IF InPlace(run.user)
       THEN UNCHANGED <<clients, must, may>>
       ELSE /\ clients' = [clients EXCEPT ![run.user] = Unset]
            /\ Forget(run.user, TRUE)
  /\ run' = [run EXCEPT !.at = "storing"]
  /\ UNCHANGED <<changes, call, uid, users, thrown, historyVars>>

StoreValue ==
  /\ ~thrown
  /\ run.at = "storing"
  /\ clients' = [clients EXCEPT ![run.user] = run.doc]
  /\ run' = Ready
  /\ seen' = [r \in Call |->
       IF run.doc = Asks[r] THEN seen[r] \union {run.user} ELSE seen[r]]
  /\ stayed' = [r \in Call |->
       IF run.doc = Asks[r] THEN stayed[r] ELSE stayed[r] \ {run.user}]
  /\ UNCHANGED <<changes, iterVars, thrown, churned>>

-----------------------------------------------------------------------------
(* A REST goroutine in OnlineInDoc.                                         *)

Begin(r) ==
  /\ ~thrown
  /\ call[r] = "idle"
  /\ \/ call' = [call EXCEPT ![r] = "ranging"]
     \/ run.at = "writing" /\ call' = [call EXCEPT ![r] = "torn"]
  /\ must' = [must EXCEPT ![r] = Keys]
  /\ seen' = [seen EXCEPT ![r] = On(Asks[r])]
  /\ stayed' = [stayed EXCEPT ![r] = On(Asks[r])]
  /\ churned' = [churned EXCEPT ![r] = Churning]
  /\ UNCHANGED <<clients, run, changes, may, uid, users, thrown>>

\* The range statement while the map is being written: the runtime notices
\* and throws, or does not, and what this call returns may be anything.
RangeInWrite(r) ==
  /\ ~thrown
  /\ call[r] = "ranging" /\ uid[r] = None
  /\ run.at = "writing"
  /\ \/ thrown' = TRUE /\ UNCHANGED call
     \/ call' = [call EXCEPT ![r] = "torn"] /\ UNCHANGED thrown
  /\ UNCHANGED <<clients, run, changes, must, may, uid, users, historyVars>>

NextKey(r) ==
  /\ ~thrown
  /\ call[r] = "ranging" /\ uid[r] = None
  /\ run.at # "writing"
  /\ \E u \in must[r] \union may[r] :
       /\ uid' = [uid EXCEPT ![r] = u]
       /\ must' = [must EXCEPT ![r] = @ \ {u}]
       /\ may' = [may EXCEPT ![r] = @ \ {u}]
  /\ UNCHANGED <<clients, run, changes, call, users, thrown, historyVars>>

\* Mutant of Matches: the document is not compared.
MatchesAny(u, d) == TRUE

Matches(u, d) == clients[u] = d

\* The loop body.  A client that is not stored yet is a nil pointer: reading
\* its DocID panics, and net/http aborts the request.  The place of a deleted
\* key is being cleared, is cleared, or has been given to another key.
Body(r) ==
  /\ ~thrown
  /\ call[r] = "ranging" /\ uid[r] # None
  /\ LET u == uid[r]
     IN  \/ /\ u = Unset \/ run = [at |-> "writing", user |-> u, doc |-> None]
            /\ call' \in {[call EXCEPT ![r] = end] : end \in {"aborted", "torn"}}
            /\ UNCHANGED users
         \/ /\ u # Unset /\ clients[u] = Unset
            /\ call' = [call EXCEPT ![r] = "aborted"]
            /\ UNCHANGED users
         \/ /\ u # Unset /\ clients[u] # Unset
            /\ users' = IF Matches(u, Asks[r])
                          THEN [users EXCEPT ![r] = Append(@, u)] ELSE users
            /\ UNCHANGED call
  /\ uid' = [uid EXCEPT ![r] = None]
  /\ UNCHANGED <<clients, run, changes, must, may, thrown, historyVars>>

Return(r) ==
  /\ ~thrown
  /\ call[r] = "ranging" /\ uid[r] = None
  /\ run.at # "writing"
  /\ must[r] = {}
  /\ call' = [call EXCEPT ![r] = "returned"]
  /\ UNCHANGED <<clients, run, changes, must, may, uid, users, thrown, historyVars>>

Next ==
  \/ \E u \in User, d \in Doc \union {None} : Change(u, d)
  \/ Delete \/ MakeRoom \/ StoreValue
  \/ \E r \in Call :
       Begin(r) \/ RangeInWrite(r) \/ NextKey(r) \/ Body(r) \/ Return(r)

Spec == Init /\ [][Next]_vars

-----------------------------------------------------------------------------
\* Unregister and eviction delete an entry that is there, once: the Send channel
\* they close with it is open.
DeletesEntry ==
  run.at = "writing" /\ run.doc = None => clients[run.user] \in Doc

TypeOK ==
  /\ clients \in [User -> Doc \union {None, Unset}]
  /\ run \in [at : {"select", "writing", "storing"},
              user : User \union {None}, doc : Doc \union {None}]
  /\ DeletesEntry
  /\ changes \in 0 .. MaxChanges
  /\ call \in [Call -> {"idle", "ranging", "returned", "aborted", "torn"}]
  /\ must \in [Call -> SUBSET User] /\ may \in [Call -> SUBSET User]
  /\ \A r \in Call : must[r] \union may[r] \subseteq Keys
  /\ uid \in [Call -> User \union {None, Unset}]
  /\ users \in [Call -> Seq(User)]
  /\ thrown \in BOOLEAN
  /\ \A h \in {seen, stayed, churned} : h \in [Call -> SUBSET User]

Listed(r) == {users[r][i] : i \in DOMAIN users[r]}

\* Whom the hub names was on that document at some moment of the call, and
\* whoever was there all the time is named, reconnecting included: what a call
\* returns while the map changes lies between the two.
ListedIsBounded ==
  \A r \in Call : call[r] = "returned" =>
    stayed[r] \subseteq Listed(r) /\ Listed(r) \subseteq seen[r]

\* online_count is the length of the list: nobody is counted twice who did
\* not leave and come back during the call.
CountedOnce ==
  \A r \in Call : \A i, j \in DOMAIN users[r] :
    users[r][i] = users[r][j] => i = j \/ users[r][i] \in churned[r]

\* A call meets a nil client, which aborts its request, only if some user came
\* or went during it: a newer connection that takes the place of an older one,
\* a tab refresh, never shows a nil.  (It is a map write all the same, and the
\* range may throw over it.)
AbortNeedsChurn ==
  \A r \in Call : call[r] = "aborted" => churned[r] # {}
=============================================================================
