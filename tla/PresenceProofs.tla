---------------------------- MODULE PresenceProofs ----------------------------
(***************************************************************************)
(* What Presence does for any number of users, documents and calls.        *)
(*                                                                         *)
(* The argument: as long as a call is ranging, everything the hub does to  *)
(* the map is recorded in one of two places.  A key that was there from the*)
(* start is still to be visited, being visited, or listed (so nobody who   *)
(* stayed is forgotten); and a key that comes or goes is in churned before *)
(* the range can notice (so a second visit, a cleared place and a nil      *)
(* client are always over a user in churned).                              *)
(***************************************************************************)
EXTENDS Presence, TLAPS

-----------------------------------------------------------------------------
(* The inductive invariant.                                                 *)

\* The operation the hub is in: it has a user, deletes only an entry that is
\* there, stores only into a place that was made; and the only entry without a
\* value is the one it is about to store into.
RunOK ==
  /\ run.at # "select" =>
       /\ run.user \in User
       /\ run.doc = None => run.at = "writing"
       /\ run.at = "storing" \/ run.doc = None => clients[run.user] # None
  /\ \A u \in User : clients[u] = Unset => run.at = "storing" /\ run.user = u

\* A call that ranges has recorded everyone on its document and everyone who
\* comes or goes; the key it has moved to is there, and not to be visited again.
RangeOK(r) ==
  /\ Churning \subseteq churned[r]
  /\ On(Asks[r]) \subseteq seen[r]
  /\ uid[r] \in User => clients[uid[r]] # None /\ uid[r] \notin must[r] \union may[r]
  /\ uid[r] = Unset => churned[r] # {}
  /\ stayed[r] \subseteq Listed(r) \union must[r] \union {uid[r]}
  /\ Listed(r) \intersect (must[r] \union may[r] \union {uid[r]}) \subseteq churned[r]

\* What is so at any time of a call.
CallOK(r) ==
  /\ stayed[r] \subseteq On(Asks[r])
  /\ Listed(r) \subseteq seen[r]
  /\ call[r] = "idle" => users[r] = <<>> /\ uid[r] = None
  /\ call[r] = "ranging" => RangeOK(r)
  /\ call[r] = "returned" => stayed[r] \subseteq Listed(r)
  /\ call[r] = "aborted" => churned[r] # {}
  /\ \A i, j \in DOMAIN users[r] :
       users[r][i] = users[r][j] => i = j \/ users[r][i] \in churned[r]

CallsOK == \A r \in Call : CallOK(r)

PresenceInv == TypeOK /\ RunOK /\ CallsOK

-----------------------------------------------------------------------------
(* The types, and the operation of the hub.                                 *)

\* Adding a user to a list adds it to those listed.
LEMMA ListedMore ==
  ASSUME NEW q \in Seq(User), NEW u \in User
  PROVE  /\ Append(q, u) \in Seq(User)
         /\ {Append(q, u)[i] : i \in DOMAIN Append(q, u)}
              = {q[i] : i \in DOMAIN q} \union {u}
         /\ DOMAIN Append(q, u) = DOMAIN q \union {Len(q) + 1}
         /\ Len(q) + 1 \notin DOMAIN q
         /\ \A i \in DOMAIN q : Append(q, u)[i] = q[i]
         /\ Append(q, u)[Len(q) + 1] = u
<1>1. /\ DOMAIN Append(q, u) = 1 .. Len(q) + 1
      /\ DOMAIN q = 1 .. Len(q) /\ Len(q) \in Nat
      /\ \A i \in 1 .. Len(q) : Append(q, u)[i] = q[i]
      /\ Append(q, u)[Len(q) + 1] = u
      /\ Append(q, u) \in Seq(User)
  OBVIOUS
<1>2. 1 .. Len(q) + 1 = (1 .. Len(q)) \union {Len(q) + 1} /\ Len(q) + 1 \notin 1 .. Len(q)
  BY <1>1
<1> QED BY <1>1, <1>2

LEMMA PresenceInit == Init => PresenceInv
<1> SUFFICES ASSUME Init PROVE PresenceInv
  OBVIOUS
<1>1. TypeOK
  <2>0. DeletesEntry
    BY DEF Init, Ready, DeletesEntry
  <2>1. /\ clients \in [User -> Doc \union {None, Unset}]
        /\ run \in [at : {"select", "writing", "storing"},
                    user : User \union {None}, doc : Doc \union {None}]
        /\ changes \in 0 .. MaxChanges
        /\ thrown \in BOOLEAN
    <3>1. clients \in [User -> Doc \union {None, Unset}]
      BY DEF Init
    <3>2. run \in [at : {"select", "writing", "storing"},
                  user : User \union {None}, doc : Doc \union {None}]
      BY DEF Init, Ready
    <3>3. changes \in 0 .. MaxChanges
      <4>1. MaxChanges \in Nat
        BY PresenceAssumption
      <4> QED BY <4>1 DEF Init
    <3>4. thrown \in BOOLEAN
      BY DEF Init
    <3> QED BY <3>1, <3>2, <3>3, <3>4
  <2>2. /\ call \in [Call -> {"idle", "ranging", "returned", "aborted", "torn"}]
        /\ must \in [Call -> SUBSET User] /\ may \in [Call -> SUBSET User]
        /\ \A r \in Call : must[r] \union may[r] \subseteq Keys
        /\ uid \in [Call -> User \union {None, Unset}]
        /\ users \in [Call -> Seq(User)]
    BY DEF Init
  <2>3. \A h \in {seen, stayed, churned} : h \in [Call -> SUBSET User]
    BY DEF Init
  <2> QED BY <2>0, <2>1, <2>2, <2>3 DEF TypeOK
<1>2. RunOK
  BY PresenceAssumption DEF Init, RunOK, Ready
<1>3. ASSUME NEW r \in Call PROVE CallOK(r)
  BY <1>3 DEF Init, CallOK, Listed
<1> QED BY <1>1, <1>2, <1>3 DEF PresenceInv, CallsOK

LEMMA RunNext ==
  ASSUME TypeOK, RunOK, [Next]_vars
  PROVE  RunOK'
<1> USE PresenceAssumption DEF TypeOK, RunOK
<1>1. ASSUME NEW u \in User, NEW d \in Doc \union {None}, Change(u, d)
      PROVE  RunOK'
  BY <1>1 DEF Change
<1>2. CASE Delete
  BY <1>2 DEF Delete, Ready
<1>3. CASE MakeRoom
  <2>1. run.user \in User /\ run.at = "writing" /\ run.doc # None
    BY <1>3 DEF MakeRoom
  <2>2. run' = [run EXCEPT !.at = "storing"]
    BY <1>3 DEF MakeRoom
  <2>3. run'.at = "storing" /\ run'.user = run.user /\ run'.doc = run.doc
    BY <2>2
  <2>4. \/ clients[run.user] # None /\ clients' = clients
        \/ clients' = [clients EXCEPT ![run.user] = Unset]
    BY <1>3 DEF MakeRoom, InPlace
  <2>5. \A u \in User : u # run.user => clients'[u] = clients[u]
    BY <2>4
  <2>6. clients'[run.user] # None
    BY <2>1, <2>4
  <2> QED BY <2>1, <2>3, <2>5, <2>6
<1>4. CASE StoreValue
  BY <1>4 DEF StoreValue, Ready
<1>5. ASSUME UNCHANGED <<clients, run>>
      PROVE  RunOK'
  BY <1>5
<1> QED BY <1>1, <1>2, <1>3, <1>4, <1>5
        DEF Next, vars, Begin, RangeInWrite, NextKey, Body, Return

\* Every step keeps the types.
LEMMA TypesNext ==
  ASSUME TypeOK, RunOK, [Next]_vars
  PROVE  TypeOK'
<1>00. DeletesEntry'
  <2>1. RunOK'
    BY RunNext
  <2>2. clients' \in [User -> Doc \union {None, Unset}]
    BY DEF TypeOK, Next, vars, iterVars, Change, Delete, MakeRoom, StoreValue, Begin,
           RangeInWrite, NextKey, Body, Return
  <2> QED BY <2>1, <2>2 DEF RunOK, DeletesEntry
<1> USE <1>00 DEF TypeOK
<1>0. /\ seen \in [Call -> SUBSET User] /\ stayed \in [Call -> SUBSET User]
      /\ churned \in [Call -> SUBSET User]
  OBVIOUS
<1>1. ASSUME NEW u \in User, NEW d \in Doc \union {None}, Change(u, d)
      PROVE  TypeOK'
  BY <1>0, <1>1, PresenceAssumption DEF Change, iterVars, Keys
<1>2. CASE Delete
  BY <1>0, <1>2, PresenceAssumption DEF Delete, Forget, Ready, RunOK, Keys
<1>3. CASE MakeRoom
  <2>1. run' = [run EXCEPT !.at = "storing"] /\ run.user \in User
    BY <1>3 DEF MakeRoom, RunOK
  <2>2. run' \in [at : {"select", "writing", "storing"},
                 user : User \union {None}, doc : Doc \union {None}]
    BY <2>1
  <2>3. CASE UNCHANGED <<clients, must, may>>
    BY <1>0, <1>3, <2>2, <2>3 DEF MakeRoom, Keys, historyVars
  <2>4. CASE clients' = [clients EXCEPT ![run.user] = Unset] /\ Forget(run.user, TRUE)
    <3>1. clients' \in [User -> Doc \union {None, Unset}]
      BY <2>4
    <3>2. must' \in [Call -> SUBSET User] /\ may' \in [Call -> SUBSET User]
      BY <2>1, <2>4 DEF Forget
    <3>3. \A r \in Call : must'[r] \union may'[r] \subseteq Keys'
      BY <2>1, <2>4, PresenceAssumption DEF Forget, Keys
    <3> QED BY <1>0, <1>3, <2>2, <3>1, <3>2, <3>3 DEF MakeRoom, historyVars
  <2> QED BY <1>3, <2>3, <2>4 DEF MakeRoom
<1>4. CASE StoreValue
  BY <1>0, <1>4, PresenceAssumption DEF StoreValue, iterVars, Ready, RunOK, Keys
<1>5. ASSUME NEW r \in Call, Begin(r)
      PROVE  TypeOK'
  <2>1. Keys \subseteq User /\ On(Asks[r]) \subseteq User /\ Churning \subseteq User
    BY DEF Keys, On, Churning, RunOK
  <2>2. must' \in [Call -> SUBSET User] /\ \A q \in Call : must'[q] \subseteq Keys'
    BY <1>5, <2>1 DEF Begin, Keys
  <2>3. /\ seen' \in [Call -> SUBSET User] /\ stayed' \in [Call -> SUBSET User]
        /\ churned' \in [Call -> SUBSET User]
    BY <1>0, <1>5, <2>1 DEF Begin
  <2>4. call' \in [Call -> {"idle", "ranging", "returned", "aborted", "torn"}]
    BY <1>5 DEF Begin
  <2> QED BY <1>5, <2>2, <2>3, <2>4 DEF Begin, Keys
<1>6. ASSUME NEW r \in Call, RangeInWrite(r)
      PROVE  TypeOK'
  BY <1>0, <1>6, PresenceAssumption DEF RangeInWrite, Keys, historyVars
<1>7. ASSUME NEW r \in Call, NextKey(r)
      PROVE  TypeOK'
  BY <1>0, <1>7, PresenceAssumption DEF NextKey, Keys, historyVars
<1>8. ASSUME NEW r \in Call, Body(r)
      PROVE  TypeOK'
  <2>1. PICK u \in User \union {Unset} : u = uid[r]
    BY <1>8 DEF Body
  <2>2. users' = users \/ (u \in User /\ users' = [users EXCEPT ![r] = Append(@, u)])
    BY <1>8, <2>1 DEF Body
  <2>3. users' \in [Call -> Seq(User)]
    <3>1. PICK q \in Seq(User) : q = users[r]
      OBVIOUS
    <3>2. CASE users' = users
      BY <3>2
    <3>3. CASE u \in User /\ users' = [users EXCEPT ![r] = Append(@, u)]
      <4>1. Append(q, u) \in Seq(User)
        BY <3>3, ListedMore
      <4>2. users' = [users EXCEPT ![r] = Append(q, u)]
        BY <3>1, <3>3
      <4> QED BY <4>1, <4>2
    <3> QED BY <2>2, <3>2, <3>3
  <2>4. call' \in [Call -> {"idle", "ranging", "returned", "aborted", "torn"}]
    <3>1. call' = call \/ \E end \in {"aborted", "torn"} : call' = [call EXCEPT ![r] = end]
      BY <1>8 DEF Body
    <3> QED BY <3>1
  <2>5. uid' \in [Call -> User \union {None, Unset}]
    BY <1>8 DEF Body
  <2>6. UNCHANGED <<clients, run, changes, must, may, thrown, historyVars>>
    BY <1>8 DEF Body
  <2> QED BY <1>0, <2>3, <2>4, <2>5, <2>6 DEF Keys, historyVars
<1>9. ASSUME NEW r \in Call, Return(r)
      PROVE  TypeOK'
  BY <1>0, <1>9, PresenceAssumption DEF Return, Keys, historyVars
<1>10. CASE UNCHANGED vars
  BY <1>0, <1>10 DEF vars, iterVars, historyVars, Keys
<1> QED BY <1>1, <1>2, <1>3, <1>4, <1>5, <1>6, <1>7, <1>8, <1>9, <1>10 DEF Next

-----------------------------------------------------------------------------
(* The calls: one lemma for the steps of the hub, one for those of a call.  *)

\* TypeOK, with the quantifier over the history variables resolved.
LEMMA Types ==
  ASSUME TypeOK
  PROVE  /\ clients \in [User -> Doc \union {None, Unset}]
         /\ call \in [Call -> {"idle", "ranging", "returned", "aborted", "torn"}]
         /\ must \in [Call -> SUBSET User] /\ may \in [Call -> SUBSET User]
         /\ \A r \in Call : must[r] \union may[r] \subseteq Keys
         /\ uid \in [Call -> User \union {None, Unset}]
         /\ users \in [Call -> Seq(User)]
         /\ seen \in [Call -> SUBSET User] /\ stayed \in [Call -> SUBSET User]
         /\ churned \in [Call -> SUBSET User]
BY DEF TypeOK

\* A step of the hub.
LEMMA HubStep ==
  ASSUME PresenceInv, NEW r \in Call,
         \/ \E u \in User, d \in Doc \union {None} : Change(u, d)
         \/ Delete \/ MakeRoom \/ StoreValue
  PROVE  CallOK(r)'
<1> USE PresenceAssumption DEF CallOK, Listed
<1>0. /\ TypeOK /\ RunOK /\ CallOK(r) /\ Asks[r] \in Doc
      /\ None \notin User /\ Unset \notin User /\ None \notin Doc /\ Unset \notin Doc
      /\ None # Unset
  BY DEF PresenceInv, CallsOK
<1>1. ASSUME NEW u \in User, NEW d \in Doc \union {None}, Change(u, d)
      PROVE  CallOK(r)'
  <2>1. /\ UNCHANGED <<clients, call, must, may, uid, users, seen, stayed>>
        /\ churned[r] \subseteq churned'[r]
    BY <1>0, <1>1, Types DEF Change, iterVars
  <2>2. call[r] = "ranging" => Churning' \subseteq churned'[r]
    <3>1. clients[u] \in Doc \union {None}
      BY <1>0, <1>1, Types DEF Change, RunOK
    <3>2. Churning' \subseteq IF None \in {d, clients[u]} THEN {u} ELSE {}
      BY <1>1, <2>1, <3>1, <1>0 DEF Change, Churning
    <3>3. call[r] = "ranging" /\ None \in {d, clients[u]} => u \in churned'[r]
      BY <1>0, <1>1, Types DEF Change
    <3> QED BY <3>2, <3>3
  <2> QED BY <1>0, <2>1, <2>2 DEF RangeOK, On
<1>2. CASE Delete
  <2>1. PICK u \in User : u = run.user
    BY <1>0, <1>2 DEF Delete, RunOK
  <2>2. /\ clients' = [clients EXCEPT ![u] = None]
        /\ must'[r] = must[r] \ {u} /\ may'[r] = may[r] \ {u}
        /\ stayed'[r] = stayed[r] \ {u}
        /\ uid'[r] = IF uid[r] = u THEN Unset ELSE uid[r]
        /\ UNCHANGED <<call, users, seen, churned>>
        /\ Churning = {u} /\ Churning' = {}
    BY <1>2, <2>1 DEF Delete, Forget, Churning, Ready
  <2>3. On(Asks[r])' = On(Asks[r]) \ {u}
    BY <1>0, <2>2, Types DEF On
  <2>4. call[r] = "ranging" => RangeOK(r)'
    <3> SUFFICES ASSUME call[r] = "ranging" PROVE RangeOK(r)'
      OBVIOUS
    <3>1. u \in churned[r]
      BY <1>0, <2>2 DEF RangeOK
    <3>2. uid'[r] \in User => clients'[uid'[r]] # None /\ uid'[r] \notin must'[r] \union may'[r]
      BY <1>0, <2>2, Types DEF RangeOK
    <3>3. stayed'[r] \subseteq Listed(r)' \union must'[r] \union {uid'[r]}
      BY <1>0, <2>2 DEF RangeOK
    <3>4. Listed(r)' \subseteq User
      BY <1>0, <2>2, Types
    <3>5. Listed(r)' \intersect (must'[r] \union may'[r] \union {uid'[r]}) \subseteq churned'[r]
      BY <1>0, <2>2, <3>4 DEF RangeOK
    <3> QED BY <1>0, <2>2, <2>3, <3>1, <3>2, <3>3, <3>5 DEF RangeOK
  <2>5. call[r] = "returned" => stayed'[r] \subseteq Listed(r)'
    BY <1>0, <2>2
  <2>6. call[r] = "idle" => uid'[r] = None
    BY <1>0, <2>2
  <2> QED BY <1>0, <2>2, <2>3, <2>4, <2>5, <2>6
<1>3. CASE MakeRoom
  <2>1. PICK u \in User : u = run.user
    BY <1>0, <1>3 DEF MakeRoom, RunOK
  <2>2. /\ UNCHANGED <<call, users, uid, seen, stayed, churned>>
        /\ run'.at = "storing" /\ run'.user = u /\ run'.doc = run.doc
    BY <1>0, <1>3, <2>1 DEF MakeRoom, historyVars, TypeOK
  <2>3. CASE UNCHANGED <<clients, must, may>>
    <3>1. Churning' = Churning
      BY <1>3, <2>1, <2>2, <2>3 DEF MakeRoom, Churning
    <3> QED BY <1>0, <2>2, <2>3, <3>1 DEF RangeOK, On
  <2>4. CASE /\ clients[u] = None
             /\ clients' = [clients EXCEPT ![u] = Unset]
             /\ Forget(u, TRUE)
    <3>1. Churning = {u} /\ Churning' = {u}
      BY <1>0, <1>3, <2>1, <2>2, <2>4, Types DEF MakeRoom, Churning
    <3>2. On(Asks[r])' = On(Asks[r]) /\ u \notin On(Asks[r])
      BY <1>0, <2>4, Types DEF On
    <3>3. must'[r] = must[r] \ {u} /\ may'[r] \subseteq may[r] \union {u}
      BY <2>4 DEF Forget
    <3>4. call[r] = "ranging" => RangeOK(r)'
      <4> SUFFICES ASSUME call[r] = "ranging" PROVE RangeOK(r)'
        OBVIOUS
      <4>1. u \in churned[r]
        BY <1>0, <3>1 DEF RangeOK
      <4>2. uid'[r] \in User => clients'[uid'[r]] # None /\ uid'[r] \notin must'[r] \union may'[r]
        BY <1>0, <2>2, <2>4, <3>3, Types DEF RangeOK
      <4>3. stayed'[r] \subseteq Listed(r)' \union must'[r] \union {uid'[r]}
        BY <1>0, <2>2, <3>2, <3>3 DEF RangeOK
      <4>4. Listed(r)' \intersect (must'[r] \union may'[r] \union {uid'[r]}) \subseteq churned'[r]
        BY <1>0, <2>2, <3>3, <4>1 DEF RangeOK
      <4> QED BY <1>0, <2>2, <3>1, <3>2, <4>1, <4>2, <4>3, <4>4 DEF RangeOK
    <3> QED BY <1>0, <2>2, <3>2, <3>4
  <2> QED BY <1>3, <2>1, <2>3, <2>4 DEF MakeRoom, InPlace
<1>4. CASE StoreValue
  <2>1. PICK u \in User : u = run.user
    BY <1>0, <1>4 DEF StoreValue, RunOK
  <2>2. PICK d \in Doc : d = run.doc
    BY <1>0, <1>4 DEF StoreValue, RunOK, TypeOK
  <2>3. /\ clients' = [clients EXCEPT ![u] = d]
        /\ seen'[r] = IF d = Asks[r] THEN seen[r] \union {u} ELSE seen[r]
        /\ stayed'[r] = IF d = Asks[r] THEN stayed[r] ELSE stayed[r] \ {u}
        /\ UNCHANGED <<call, must, may, uid, users, churned>>
        /\ Churning' = {}
    BY <1>4, <2>1, <2>2 DEF StoreValue, iterVars, Churning, Ready
  <2>4. On(Asks[r])' = IF d = Asks[r] THEN On(Asks[r]) \union {u} ELSE On(Asks[r]) \ {u}
    BY <1>0, <2>3, Types DEF On
  <2>5. call[r] = "ranging" => RangeOK(r)'
    <3> SUFFICES ASSUME call[r] = "ranging" PROVE RangeOK(r)'
      OBVIOUS
    <3>1. uid'[r] \in User => clients'[uid'[r]] # None /\ uid'[r] \notin must'[r] \union may'[r]
      BY <1>0, <2>3, Types DEF RangeOK
    <3>2. stayed'[r] \subseteq Listed(r)' \union must'[r] \union {uid'[r]}
      BY <1>0, <2>3 DEF RangeOK
    <3>3. Listed(r)' \intersect (must'[r] \union may'[r] \union {uid'[r]}) \subseteq churned'[r]
      BY <1>0, <2>3 DEF RangeOK
    <3> QED BY <1>0, <2>3, <2>4, <3>1, <3>2, <3>3 DEF RangeOK
  <2> QED BY <1>0, <2>3, <2>4, <2>5
<1> QED BY <1>1, <1>2, <1>3, <1>4

\* A step that leaves the map and all that belongs to a call as they are.
LEMMA CallKept ==
  ASSUME NEW r \in Call, CallOK(r), UNCHANGED <<clients, run>>,
         /\ call'[r] = call[r] /\ must'[r] = must[r] /\ may'[r] = may[r]
         /\ uid'[r] = uid[r] /\ users'[r] = users[r]
         /\ seen'[r] = seen[r] /\ stayed'[r] = stayed[r] /\ churned'[r] = churned[r]
  PROVE  CallOK(r)'
<1>1. Churning' = Churning /\ On(Asks[r])' = On(Asks[r]) /\ Listed(r)' = Listed(r)
  BY DEF Churning, On, Listed
<1> QED BY <1>1 DEF CallOK, RangeOK

\* A step of the call itself.
LEMMA OwnStep ==
  ASSUME PresenceInv, NEW r \in Call,
         Begin(r) \/ RangeInWrite(r) \/ NextKey(r) \/ Body(r) \/ Return(r)
  PROVE  CallOK(r)'
<1>0. /\ TypeOK /\ RunOK /\ CallOK(r) /\ Asks[r] \in Doc
      /\ None \notin User /\ Unset \notin User /\ None \notin Doc /\ Unset \notin Doc
      /\ None # Unset
  BY PresenceAssumption DEF PresenceInv, CallsOK
<1>1. CASE Begin(r)
  <2>1. /\ UNCHANGED <<clients, run, may, uid, users>>
        /\ call'[r] \in {"ranging", "torn"}
        /\ must'[r] = Keys
        /\ seen'[r] = On(Asks[r]) /\ stayed'[r] = On(Asks[r])
        /\ churned'[r] = Churning
        /\ users[r] = <<>> /\ uid[r] = None
    BY <1>0, <1>1, Types DEF Begin, CallOK
  <2>2. Listed(r)' = {} /\ On(Asks[r])' = On(Asks[r]) /\ Churning' = Churning
    BY <2>1 DEF Listed, On, Churning
  <2>3. On(Asks[r]) \subseteq Keys
    BY <1>0 DEF On, Keys
  <2>4. RangeOK(r)'
    BY <1>0, <2>1, <2>2, <2>3 DEF RangeOK
  <2> QED BY <2>1, <2>2, <2>4 DEF CallOK
<1>2. CASE RangeInWrite(r)
  <2>1. CASE UNCHANGED call
    BY <1>0, <1>2, <2>1, CallKept DEF RangeInWrite, historyVars
  <2>2. CASE call' = [call EXCEPT ![r] = "torn"]
    BY <1>0, <1>2, <2>2, Types DEF RangeInWrite, historyVars, CallOK, On, Listed
  <2> QED BY <1>2, <2>1, <2>2 DEF RangeInWrite
<1>3. CASE NextKey(r)
  <2>1. PICK u \in must[r] \union may[r] :
          /\ uid' = [uid EXCEPT ![r] = u]
          /\ must' = [must EXCEPT ![r] = @ \ {u}]
          /\ may' = [may EXCEPT ![r] = @ \ {u}]
    BY <1>3 DEF NextKey
  <2>2. /\ uid'[r] = u /\ must'[r] = must[r] \ {u} /\ may'[r] = may[r] \ {u}
        /\ call[r] = "ranging" /\ uid[r] = None /\ u \in User /\ clients[u] # None
        /\ UNCHANGED <<clients, run, call, users, seen, stayed, churned>>
    BY <1>0, <1>3, <2>1, Types DEF NextKey, historyVars, Keys
  <2>3. On(Asks[r])' = On(Asks[r]) /\ Churning' = Churning /\ Listed(r)' = Listed(r)
        /\ Listed(r) \subseteq User
    BY <1>0, <2>2, Types DEF On, Churning, Listed
  <2>4. RangeOK(r)'
    <3>1. RangeOK(r) /\ stayed[r] \subseteq User
      BY <1>0, <2>2, Types DEF CallOK
    <3>2. stayed'[r] \subseteq Listed(r)' \union must'[r] \union {uid'[r]}
      BY <1>0, <2>2, <2>3, <3>1 DEF RangeOK
    <3>3. Listed(r)' \intersect (must'[r] \union may'[r] \union {uid'[r]}) \subseteq churned'[r]
      BY <1>0, <2>2, <2>3, <3>1 DEF RangeOK
    <3>4. uid'[r] \in User => clients'[uid'[r]] # None /\ uid'[r] \notin must'[r] \union may'[r]
      BY <2>2
    <3>5. Churning' \subseteq churned'[r] /\ On(Asks[r])' \subseteq seen'[r]
      BY <2>2, <2>3, <3>1 DEF RangeOK
    <3> QED BY <1>0, <2>2, <3>2, <3>3, <3>4, <3>5 DEF RangeOK
  <2> QED BY <1>0, <2>2, <2>3, <2>4 DEF CallOK
<1>4. CASE Body(r)
  <2>1. PICK u \in User \union {Unset} : u = uid[r]
    BY <1>0, <1>4, Types DEF Body
  <2>2. /\ UNCHANGED <<clients, run, must, may, seen, stayed, churned>>
        /\ uid'[r] = None /\ call[r] = "ranging"
        /\ On(Asks[r])' = On(Asks[r]) /\ Churning' = Churning
    BY <1>0, <1>4, Types DEF Body, historyVars, On, Churning
  <2>3. CASE /\ UNCHANGED users
             /\ call'[r] \in {"aborted", "torn"}
             /\ u = Unset \/ u \in Churning
    <3>1. churned[r] # {}
      BY <1>0, <2>1, <2>2, <2>3 DEF CallOK, RangeOK
    <3> QED BY <1>0, <2>2, <2>3, <3>1 DEF CallOK, Listed
  <2>4. CASE /\ u # Unset /\ clients[u] # Unset /\ UNCHANGED call
             /\ users' = IF Matches(u, Asks[r])
                           THEN [users EXCEPT ![r] = Append(@, u)] ELSE users
    <3>1. u \in User /\ clients[u] # None
      BY <1>0, <2>1, <2>2, <2>4 DEF CallOK, RangeOK
    <3>2. CASE clients[u] # Asks[r]
      <4>1. UNCHANGED users /\ Listed(r)' = Listed(r) /\ Listed(r) \subseteq User
        BY <1>0, <2>4, <3>2, Types DEF Matches, Listed
      <4>2. u \notin stayed[r]
        BY <1>0, <3>2 DEF CallOK, On
      <4>3. RangeOK(r)'
        BY <1>0, <2>1, <2>2, <4>1, <4>2 DEF CallOK, RangeOK
      <4> QED BY <1>0, <2>2, <2>4, <4>1, <4>3 DEF CallOK
    <3>3. CASE clients[u] = Asks[r]
      <4>1. PICK q \in Seq(User) : q = users[r]
        BY <1>0, Types
      <4>2. users'[r] = Append(q, u)
        BY <1>0, <2>4, <3>3, <4>1, Types DEF Matches
      <4>3. /\ Listed(r)' = Listed(r) \union {u}
            /\ DOMAIN users'[r] = DOMAIN users[r] \union {Len(q) + 1}
            /\ Len(q) + 1 \notin DOMAIN users[r]
            /\ \A i \in DOMAIN users[r] : users'[r][i] = users[r][i]
            /\ users'[r][Len(q) + 1] = u
        BY <3>1, <4>1, <4>2, ListedMore DEF Listed
      <4>4. u \in seen[r]
        BY <1>0, <2>2, <3>1, <3>3 DEF CallOK, RangeOK, On
      <4>5. u \in Listed(r) => u \in churned[r]
        BY <1>0, <2>1, <2>2 DEF CallOK, RangeOK
      <4>6. u \notin must[r] \union may[r] /\ Listed(r) \subseteq User
        BY <1>0, <2>1, <2>2, <3>1, Types DEF CallOK, RangeOK, Listed
      <4>7. RangeOK(r)'
        BY <1>0, <2>1, <2>2, <3>1, <4>3, <4>6 DEF CallOK, RangeOK
      <4>8. \A i, j \in DOMAIN users'[r] :
              users'[r][i] = users'[r][j] => i = j \/ users'[r][i] \in churned'[r]
        <5>1. \A i \in DOMAIN users[r] : users[r][i] \in Listed(r)
          BY DEF Listed
        <5> QED BY <1>0, <2>2, <4>3, <4>5, <5>1 DEF CallOK
      <4> QED BY <1>0, <2>2, <2>4, <4>3, <4>4, <4>7, <4>8 DEF CallOK
    <3> QED BY <3>2, <3>3
  <2>5. run = [at |-> "writing", user |-> u, doc |-> None] => u \in Churning
    BY DEF Churning
  <2>6. u # Unset /\ clients[u] = Unset => u \in Churning
    BY <1>0 DEF RunOK, Churning
  <2> QED BY <1>0, <1>4, <2>1, <2>3, <2>4, <2>5, <2>6, Types DEF Body
<1>5. CASE Return(r)
  <2>1. /\ UNCHANGED <<clients, run, must, may, uid, users, seen, stayed, churned>>
        /\ call[r] = "ranging" /\ call'[r] = "returned" /\ uid[r] = None /\ must[r] = {}
    BY <1>0, <1>5, Types DEF Return, historyVars
  <2>2. On(Asks[r])' = On(Asks[r]) /\ Listed(r)' = Listed(r)
    BY <2>1 DEF On, Listed
  <2>3. stayed[r] \subseteq User
    BY <1>0, Types
  <2> QED BY <1>0, <2>1, <2>2, <2>3 DEF CallOK, RangeOK
<1> QED BY <1>1, <1>2, <1>3, <1>4, <1>5

LEMMA PresenceNext == PresenceInv /\ [Next]_vars => PresenceInv'
<1> SUFFICES ASSUME PresenceInv, [Next]_vars PROVE PresenceInv'
  OBVIOUS
<1>1. TypeOK' /\ RunOK'
  BY TypesNext, RunNext DEF PresenceInv
<1>2. ASSUME NEW r \in Call PROVE CallOK(r)'
  <2>0. TypeOK /\ CallOK(r)
    BY DEF PresenceInv, CallsOK
  <2>1. CASE UNCHANGED vars
    BY <2>0, <2>1, CallKept DEF vars, iterVars, historyVars
  <2>2. CASE (\E u \in User, d \in Doc \union {None} : Change(u, d))
               \/ Delete \/ MakeRoom \/ StoreValue
    BY <2>2, HubStep
  <2>3. ASSUME NEW q \in Call,
               Begin(q) \/ RangeInWrite(q) \/ NextKey(q) \/ Body(q) \/ Return(q)
        PROVE  CallOK(r)'
    <3>1. CASE q = r
      BY <2>3, <3>1, OwnStep
    <3>2. CASE q # r
      <4>1. /\ UNCHANGED <<clients, run>>
            /\ call'[r] = call[r] /\ must'[r] = must[r] /\ may'[r] = may[r]
            /\ uid'[r] = uid[r] /\ users'[r] = users[r]
            /\ seen'[r] = seen[r] /\ stayed'[r] = stayed[r] /\ churned'[r] = churned[r]
        <5>1. CASE Begin(q)
          BY <2>0, <3>2, <5>1, Types DEF Begin
        <5>2. CASE RangeInWrite(q)
          BY <2>0, <3>2, <5>2, Types DEF RangeInWrite, historyVars
        <5>3. CASE NextKey(q)
          BY <2>0, <3>2, <5>3, Types DEF NextKey, historyVars
        <5>4. CASE Body(q)
          BY <2>0, <3>2, <5>4, Types DEF Body, historyVars
        <5>5. CASE Return(q)
          BY <2>0, <3>2, <5>5, Types DEF Return, historyVars
        <5> QED BY <2>3, <5>1, <5>2, <5>3, <5>4, <5>5
      <4> QED BY <2>0, <4>1, CallKept
    <3> QED BY <3>1, <3>2
  <2> QED BY <2>1, <2>2, <2>3 DEF Next
<1> QED BY <1>1, <1>2 DEF PresenceInv, CallsOK

LEMMA PresenceInvariant == Spec => []PresenceInv
<1> QED BY PresenceInit, PresenceNext, PTL DEF Spec

-----------------------------------------------------------------------------
(* The theorems.                                                            *)

\* Every variable keeps its type, and no range is left with a key that the map
\* does not have.
THEOREM TypeCorrect == Spec => []TypeOK
<1>1. PresenceInv => TypeOK
  BY DEF PresenceInv
<1> QED BY <1>1, PresenceInvariant, PTL

\* OnlineInDoc names everyone who was on the document all the time, and nobody
\* who never was, whatever the hub does to the map meanwhile.
THEOREM ListIsBounded == Spec => []ListedIsBounded
<1>1. PresenceInv => ListedIsBounded
  BY DEF PresenceInv, CallsOK, CallOK, ListedIsBounded
<1> QED BY <1>1, PresenceInvariant, PTL

\* online_count counts nobody twice who did not leave and come back meanwhile.
THEOREM CountsOnce == Spec => []CountedOnce
<1>1. PresenceInv => CountedOnce
  BY DEF PresenceInv, CallsOK, CallOK, CountedOnce
<1> QED BY <1>1, PresenceInvariant, PTL

\* A call is aborted by a nil client only if some user was inserted into the map
\* or deleted from it while the call ranged.  Of the runtime's fatal error, which
\* any write can bring about, this says nothing.
THEOREM AbortsNeedChurn == Spec => []AbortNeedsChurn
<1>1. PresenceInv => AbortNeedsChurn
  BY DEF PresenceInv, CallsOK, CallOK, AbortNeedsChurn
<1> QED BY <1>1, PresenceInvariant, PTL
===============================================================================
