----------------------------- MODULE StoreProofs -----------------------------
(***************************************************************************)
(* Theorems about Store, for any documents, updates and servers, and any   *)
(* number of crashes and failed transactions.                              *)
(***************************************************************************)
EXTENDS Store, FiniteSetTheorems, SequenceTheorems, TLAPS

\* The deployment the documentation asks for: one compactor.
OneServer == \A s, t \in Server : s = t

-----------------------------------------------------------------------------
(* Sequences of updates.                                                    *)

\* Concatenation appends the elements, keeps the first part in place, and
\* repeats nothing if the parts are free of repetitions and disjoint.
LEMMA ConcatElements ==
  ASSUME NEW S, NEW a \in Seq(S), NEW b \in Seq(S)
  PROVE  /\ a \o b \in Seq(S)
         /\ Elements(a \o b) = Elements(a) \union Elements(b)
         /\ IsPrefixOf(a, a \o b)
         /\ Injective(a) /\ Injective(b) /\ Elements(a) \intersect Elements(b) = {}
              => Injective(a \o b)
<1>1. /\ a \o b \in Seq(S)
      /\ Len(a) \in Nat /\ Len(b) \in Nat
      /\ DOMAIN a = 1 .. Len(a) /\ DOMAIN b = 1 .. Len(b)
      /\ DOMAIN (a \o b) = 1 .. Len(a) + Len(b)
      /\ Len(a \o b) = Len(a) + Len(b)
      /\ \A i \in 1 .. Len(a) : (a \o b)[i] = a[i]
      /\ \A i \in 1 .. Len(a) + Len(b) : i > Len(a) => (a \o b)[i] = b[i - Len(a)]
      /\ \A i \in 1 .. Len(b) : (a \o b)[i + Len(a)] = b[i]
  OBVIOUS
<1>2. Elements(a \o b) = Elements(a) \union Elements(b)
  <2>1. ASSUME NEW x \in Elements(a \o b)
        PROVE  x \in Elements(a) \union Elements(b)
    <3>1. PICK i \in 1 .. Len(a) + Len(b) : x = (a \o b)[i]
      BY <1>1, <2>1 DEF Elements
    <3>2. CASE i <= Len(a)
      <4>1. i \in DOMAIN a /\ x = a[i]
        BY <1>1, <3>1, <3>2
      <4> QED BY <4>1 DEF Elements
    <3>3. CASE i > Len(a)
      <4>1. i - Len(a) \in DOMAIN b /\ x = b[i - Len(a)]
        BY <1>1, <3>1, <3>3
      <4> QED BY <4>1 DEF Elements
    <3>4. i \in Int /\ Len(a) \in Int
      BY <1>1
    <3>5. i <= Len(a) \/ i > Len(a)
      BY <3>4
    <3> QED BY <3>2, <3>3, <3>5
  <2>2. Elements(a) \subseteq Elements(a \o b)
    <3>1. \A i \in 1 .. Len(a) : i \in 1 .. Len(a) + Len(b) /\ (a \o b)[i] = a[i]
      BY <1>1
    <3> QED BY <1>1, <3>1 DEF Elements
  <2>3. Elements(b) \subseteq Elements(a \o b)
    <3>1. \A i \in 1 .. Len(b) :
            i + Len(a) \in 1 .. Len(a) + Len(b) /\ (a \o b)[i + Len(a)] = b[i]
      BY <1>1
    <3>2. ASSUME NEW i \in DOMAIN b
          PROVE  i + Len(a) \in DOMAIN (a \o b) /\ b[i] = (a \o b)[i + Len(a)]
      BY <1>1, <3>1
    <3> QED BY <3>2, Zenon DEF Elements
  <2> QED BY <2>1, <2>2, <2>3
<1>3. IsPrefixOf(a, a \o b)
  BY <1>1 DEF IsPrefixOf
<1>4. ASSUME Injective(a), Injective(b), Elements(a) \intersect Elements(b) = {}
      PROVE  Injective(a \o b)
  <2>1. SUFFICES ASSUME NEW i \in 1 .. Len(a) + Len(b), NEW j \in 1 .. Len(a) + Len(b),
                        (a \o b)[i] = (a \o b)[j], i <= j
                 PROVE  i = j
    BY <1>1 DEF Injective
  <2>2. CASE j <= Len(a)
    <3>1. i \in DOMAIN a /\ j \in DOMAIN a /\ a[i] = a[j]
      BY <1>1, <2>1, <2>2
    <3> QED BY <1>4, <3>1 DEF Injective
  <2>3. CASE i > Len(a)
    <3>1. /\ i - Len(a) \in DOMAIN b /\ j - Len(a) \in DOMAIN b
          /\ b[i - Len(a)] = b[j - Len(a)]
      BY <1>1, <2>1, <2>3
    <3>2. i - Len(a) = j - Len(a)
      BY <1>4, <3>1 DEF Injective
    <3> QED BY <1>1, <3>2
  <2>4. CASE i <= Len(a) /\ j > Len(a)
    <3>1. /\ i \in DOMAIN a /\ j - Len(a) \in DOMAIN b
          /\ a[i] = b[j - Len(a)]
      BY <1>1, <2>1, <2>4
    <3>2. a[i] \in Elements(a) /\ b[j - Len(a)] \in Elements(b)
      BY <3>1 DEF Elements
    <3> QED BY <1>4, <3>1, <3>2
  <2> QED BY <1>1, <2>2, <2>3, <2>4
<1> QED BY <1>1, <1>2, <1>3, <1>4

\* What the second statement returns: the pending updates, each once.
LEMMA ByCreationReads ==
  ASSUME NEW S \in SUBSET Update, NEW b \in ByCreation(S)
  PROVE  /\ b \in Seq(Update)
         /\ Elements(b) = S
         /\ Injective(b)
         /\ b \in Abstract!Orderings(S)
<1>1. IsFiniteSet(S) /\ Cardinality(S) \in Nat
  BY StoreAssumption, FS_Subset, FS_CardinalityType
<1>2. /\ b \in [1 .. Cardinality(S) -> S]
      /\ Elements(b) = S
      /\ Injective(b)
  BY DEF ByCreation
<1>3. b \in Seq(Update)
  <2>1. b \in [1 .. Cardinality(S) -> Update]
    BY <1>2
  <2> DEFINE n == Cardinality(S)
  <2>2. n \in Nat /\ b \in [1 .. n -> Update]
    BY <1>1, <2>1
  <2> HIDE DEF n
  <2> QED BY <2>2
<1>4. b \in Abstract!Orderings(S)
  <2>1. Abstract!Cardinality(S) = Cardinality(S)
    BY DEF Abstract!Cardinality, Cardinality
  <2> QED BY <1>2, <2>1 DEF Abstract!Orderings, Abstract!Elements, Elements, Injective
<1> QED BY <1>2, <1>3, <1>4

-----------------------------------------------------------------------------
(* Types.                                                                   *)

LEMMA TypeInit == Init => TypeOK
<1> SUFFICES ASSUME Init PROVE TypeOK
  OBVIOUS
<1>1. <<>> \in Seq(Update)
  OBVIOUS
<1>2. /\ blob \in [Doc -> Seq(Update)]
      /\ base \in [Server -> Seq(Update)]
      /\ batch \in [Server -> Seq(Update)]
  BY <1>1 DEF Init
<1>3. HasBatch
  BY DEF Init, HasBatch
<1> QED BY <1>2, <1>3, StoreAssumption DEF Init, TypeOK, RowState

\* The pending updates are read before the transaction is about to write, and
\* only if there are any.
LEMMA BatchNext == TypeOK /\ [Next]_vars => HasBatch'
<1> DEFINE Own(t) == batch[t] # <<>> /\ \A u \in Elements(batch[t]) : DocOf[u] = doc[t]
<1> SUFFICES ASSUME TypeOK, [Next]_vars, NEW t \in Server,
                    pc'[t] \in {"batched", "written"}
             PROVE  Own(t)'
  BY DEF HasBatch
<1>0. ASSUME pc[t] \in {"batched", "written"}, batch'[t] = batch[t], doc'[t] = doc[t]
      PROVE  Own(t)'
  BY <1>0 DEF TypeOK, HasBatch
<1>1. ASSUME NEW s \in Server, ReadPending(s)
      PROVE  Own(t)'
  <2>1. PICK b \in ByCreation(Pending(doc[s])) : batch' = [batch EXCEPT ![s] = b]
    BY <1>1 DEF ReadPending
  <2>2. /\ pc' = [pc EXCEPT ![s] = IF Pending(doc[s]) = {} THEN "pass" ELSE "batched"]
        /\ doc' = doc
    BY <1>1 DEF ReadPending
  <2>3. Elements(b) = Pending(doc[s])
    BY DEF ByCreation
  <2>4. Elements(<<>>) = {}
    BY DEF Elements
  <2>5. CASE t = s
    <3>1. pc'[s] = IF Pending(doc[s]) = {} THEN "pass" ELSE "batched"
      BY <2>2 DEF TypeOK
    <3>2. Pending(doc[s]) # {}
      BY <2>5, <3>1
    <3>3. batch'[s] = b
      BY <2>1 DEF TypeOK
    <3>4. b # <<>>
      BY <2>3, <2>4, <3>2
    <3>5. \A u \in Elements(b) : DocOf[u] = doc[s]
      BY <2>3 DEF Pending
    <3> QED BY <2>2, <2>5, <3>3, <3>4, <3>5
  <2>6. CASE t # s
    <3>1. pc[t] \in {"batched", "written"} /\ batch'[t] = batch[t]
      BY <2>1, <2>2, <2>6 DEF TypeOK
    <3> QED BY <1>0, <2>2, <3>1
  <2> QED BY <2>5, <2>6
<1>2. ASSUME NEW s \in Server,
             \/ Tick(s) \/ EndPass(s) \/ WriteBlob(s) \/ Commit(s) \/ Abort(s) \/ Crash(s)
      PROVE  Own(t)'
  <2>1. /\ batch' = batch /\ doc' = doc
        /\ \/ \E q \in {"idle", "pass"} : pc' = [pc EXCEPT ![s] = q]
           \/ pc' = [pc EXCEPT ![s] = "written"] /\ pc[s] = "batched"
    BY <1>2 DEF Tick, EndPass, WriteBlob, Commit, Abort, Crash
  <2>2. pc[t] \in {"batched", "written"}
    BY <2>1 DEF TypeOK
  <2> QED BY <1>0, <2>1, <2>2
<1>3. ASSUME NEW s \in Server, NEW d \in Doc, ReadBlob(s, d)
      PROVE  Own(t)'
  <2>1. CASE UNCHANGED <<pc, doc>>
    <3>1. batch' = batch
      BY <1>3 DEF ReadBlob
    <3> QED BY <1>0, <2>1, <3>1
  <2>2. CASE pc' = [pc EXCEPT ![s] = "blobRead"] /\ doc' = [doc EXCEPT ![s] = d]
    <3>1. t # s /\ batch' = batch
      BY <1>3, <2>2 DEF ReadBlob, TypeOK
    <3>2. pc[t] \in {"batched", "written"} /\ doc'[t] = doc[t]
      BY <2>2, <3>1 DEF TypeOK
    <3> QED BY <1>0, <3>1, <3>2
  <2> QED BY <1>3, <2>1, <2>2 DEF ReadBlob
<1>4. ASSUME UNCHANGED <<pc, doc, batch>>
      PROVE  Own(t)'
  BY <1>0, <1>4
<1> HIDE DEF Own
<1> QED BY <1>1, <1>2, <1>3, <1>4
        DEF Next, Compactor, StartAppend, FinishAppend, vars, passVars

LEMMA TypeNext == TypeOK /\ [Next]_vars => TypeOK'
<1> SUFFICES ASSUME TypeOK, [Next]_vars
             PROVE  TypeOK'
  OBVIOUS
<1>0. HasBatch'
  BY BatchNext
<1> USE <1>0, StoreAssumption DEF TypeOK
<1>1. ASSUME NEW u \in Update, StartAppend(u)
      PROVE  TypeOK'
  <2> DEFINE seen == {v \in Update : stamp[v] > 0}
  <2>1. 1 + Cardinality(seen) \in Nat
    <3>1. seen \subseteq Update
      OBVIOUS
    <3> HIDE DEF seen
    <3>2. IsFiniteSet(seen)
      BY <3>1, FS_Subset
    <3>3. Cardinality(seen) \in Nat
      BY <3>2, FS_CardinalityType
    <3> QED BY <3>3
  <2>2. row' \in [Update -> RowState]
    BY <1>1 DEF StartAppend, RowState
  <2> HIDE DEF seen
  <2>3. stamp' = [stamp EXCEPT ![u] = 1 + Cardinality(seen)]
    BY <1>1 DEF StartAppend, seen
  <2> QED BY <1>1, <2>1, <2>2, <2>3 DEF StartAppend, passVars
<1>2. ASSUME NEW u \in Update, FinishAppend(u)
      PROVE  TypeOK'
  BY <1>2 DEF FinishAppend, passVars, RowState
<1>3. ASSUME NEW s \in Server, Tick(s) \/ EndPass(s)
      PROVE  TypeOK'
  <2>1. CASE Tick(s)
    BY <2>1 DEF Tick, rowVars
  <2>2. CASE EndPass(s)
    BY <2>2 DEF EndPass, rowVars
  <2> QED BY <1>3, <2>1, <2>2
<1>4. ASSUME NEW s \in Server, NEW d \in Doc, ReadBlob(s, d)
      PROVE  TypeOK'
  <2>1. UNCHANGED <<rowVars, blob, batch, crashes, aborts>>
    BY <1>4 DEF ReadBlob
  <2>2. todo' \in [Server -> SUBSET Doc]
    <3>1. todo' = [todo EXCEPT ![s] = @ \ {d}]
      BY <1>4 DEF ReadBlob
    <3> QED BY <3>1
  <2>3. doc' \in [Server -> Doc] /\ base' \in [Server -> Seq(Update)]
    <3>1. doc' = doc \/ doc' = [doc EXCEPT ![s] = d]
      BY <1>4 DEF ReadBlob
    <3>2. base' = base \/ base' = [base EXCEPT ![s] = blob[d]]
      BY <1>4 DEF ReadBlob
    <3>3. PICK b \in Seq(Update) : b = blob[d]
      OBVIOUS
    <3>4. doc' \in [Server -> Doc]
      BY <3>1
    <3>5. base' \in [Server -> Seq(Update)]
      BY <3>2, <3>3
    <3> QED BY <3>4, <3>5
  <2>4. pc' = pc \/ pc' = [pc EXCEPT ![s] = "blobRead"]
    BY <1>4 DEF ReadBlob
  <2>5. \A t \in Server : pc'[t] = "idle" => pc[t] = "idle" /\ todo'[t] = todo[t]
    <3>1. pc[s] = "pass" /\ (\A t \in Server : t # s => todo'[t] = todo[t])
      BY <1>4 DEF ReadBlob
    <3> QED BY <2>4, <3>1
  <2>6. pc' \in [Server -> {"idle", "pass", "blobRead", "batched", "written"}]
    BY <2>4
  <2> QED BY <2>1, <2>2, <2>3, <2>5, <2>6 DEF rowVars
<1>5. ASSUME NEW s \in Server, ReadPending(s)
      PROVE  TypeOK'
  <2>1. PICK b \in ByCreation(Pending(doc[s])) : batch' = [batch EXCEPT ![s] = b]
    BY <1>5 DEF ReadPending
  <2>2. Pending(doc[s]) \in SUBSET Update
    BY DEF Pending
  <2>3. b \in Seq(Update)
    BY <2>2, ByCreationReads
  <2>4. batch' \in [Server -> Seq(Update)]
    BY <2>1, <2>3
  <2>5. pc' \in [Server -> {"idle", "pass", "blobRead", "batched", "written"}]
    BY <1>5 DEF ReadPending
  <2>6. \A t \in Server : pc'[t] = "idle" => pc[t] = "idle"
    BY <1>5 DEF ReadPending
  <2> QED BY <1>5, <2>4, <2>5, <2>6 DEF ReadPending, rowVars
<1>6. ASSUME NEW s \in Server, WriteBlob(s) \/ Abort(s)
      PROVE  TypeOK'
  <2>1. CASE WriteBlob(s)
    BY <2>1 DEF WriteBlob, rowVars
  <2>2. CASE Abort(s)
    <3>1. aborts' \in 0 .. MaxAborts
      BY <2>2 DEF Abort
    <3>2. pc' \in [Server -> {"idle", "pass", "blobRead", "batched", "written"}]
      BY <2>2 DEF Abort
    <3>3. \A t \in Server : pc'[t] = "idle" => pc[t] = "idle"
      BY <2>2 DEF Abort
    <3>4. UNCHANGED <<rowVars, blob, todo, doc, base, batch, crashes>>
      BY <2>2 DEF Abort
    <3> QED BY <3>1, <3>2, <3>3, <3>4 DEF rowVars
  <2> QED BY <1>6, <2>1, <2>2
<1>7. ASSUME NEW s \in Server, Commit(s)
      PROVE  TypeOK'
  <2>1. base[s] \o batch[s] \in Seq(Update)
    BY ConcatElements
  <2>2. blob' \in [Doc -> Seq(Update)]
    BY <1>7, <2>1 DEF Commit
  <2>3. row' \in [Update -> RowState]
    BY <1>7 DEF Commit, RowState
  <2> QED BY <1>7, <2>2, <2>3 DEF Commit
<1>8. ASSUME NEW s \in Server, Crash(s)
      PROVE  TypeOK'
  BY <1>8 DEF Crash, RowState
<1>9. CASE UNCHANGED vars
  BY <1>9 DEF vars, rowVars, passVars
<1> QED BY <1>1, <1>2, <1>3, <1>4, <1>5, <1>6, <1>7, <1>8, <1>9 DEF Next, Compactor

\* Every variable keeps its type, an idle compactor has nothing left to do, and
\* one that is about to write a document has updates to put in it.
THEOREM TypeCorrect == Spec => []TypeOK
  BY TypeInit, TypeNext, PTL DEF Spec

-----------------------------------------------------------------------------
(* Any number of compactors: nothing is merged twice.                       *)

Reading(s) == pc[s] \in {"blobRead", "batched", "written"}
Holding(s) == pc[s] \in {"batched", "written"}

\* What a blob holds is marked; what a transaction read into base is marked
\* too; what it read into batch was not, so the two are disjoint.
BlobSound(d) ==
  /\ Injective(blob[d])
  /\ \A u \in Elements(blob[d]) : u \in Update /\ row[u] = "compacted" /\ DocOf[u] = d

BaseSound(s) ==
  Reading(s) =>
    /\ Injective(base[s])
    /\ \A u \in Elements(base[s]) :
         u \in Update /\ row[u] = "compacted" /\ DocOf[u] = doc[s]

BatchSound(s) ==
  Holding(s) =>
    /\ Injective(batch[s])
    /\ \A u \in Elements(batch[s]) :
         /\ u \in Update /\ DocOf[u] = doc[s]
         /\ row[u] \in {"pending", "compacted"}
         /\ u \notin Elements(base[s])

Sound ==
  /\ \A d \in Doc : BlobSound(d)
  /\ \A s \in Server : BaseSound(s) /\ BatchSound(s)

\* Steps that neither merge nor read, and only let rows move forward.
LEMMA SoundForward ==
  ASSUME TypeOK, Sound, UNCHANGED <<blob, base, batch, doc>>,
         \A u \in Update :
           /\ row[u] = "compacted" => row'[u] = "compacted"
           /\ row[u] = "pending" => row'[u] \in {"pending", "compacted"},
         \A s \in Server :
           /\ pc'[s] \in {"blobRead", "batched", "written"} => Reading(s)
           /\ pc'[s] \in {"batched", "written"} => Holding(s)
  PROVE  Sound'
<1>1. \A d \in Doc : BlobSound(d)'
  BY DEF Sound, BlobSound, Injective, Elements
<1>2. \A s \in Server : BaseSound(s)'
  BY DEF Sound, BaseSound, Reading, Injective, Elements
<1>3. ASSUME NEW s \in Server, Holding(s)'
      PROVE  BatchSound(s)'
  <2>1. Holding(s)
    BY <1>3 DEF Holding
  <2>2. BatchSound(s)
    BY DEF Sound
  <2>3. Elements(batch[s])' = Elements(batch[s]) /\ Elements(base[s])' = Elements(base[s])
    BY DEF Elements
  <2>4. Injective(batch[s])'
    BY <2>1, <2>2 DEF BatchSound, Injective
  <2>5. ASSUME NEW u \in Elements(batch[s])
        PROVE  /\ u \in Update /\ DocOf[u] = doc'[s]
               /\ row'[u] \in {"pending", "compacted"}
               /\ u \notin Elements(base[s])
    BY <2>1, <2>2 DEF BatchSound
  <2> QED BY <2>3, <2>4, <2>5 DEF BatchSound
<1>4. \A s \in Server : BatchSound(s)'
  BY <1>3 DEF BatchSound
<1> QED BY <1>1, <1>2, <1>4 DEF Sound

LEMMA SoundReadBlob ==
  ASSUME TypeOK, Sound, NEW s \in Server, NEW d \in Doc, ReadBlob(s, d)
  PROVE  Sound'
<1>1. CASE d \in Broken
  <2>1. UNCHANGED <<blob, base, batch, doc, row, pc>>
    BY <1>1 DEF ReadBlob, rowVars
  <2> QED BY <2>1, SoundForward DEF Reading, Holding
<1>2. CASE d \notin Broken
  <2>1. /\ pc' = [pc EXCEPT ![s] = "blobRead"]
        /\ doc' = [doc EXCEPT ![s] = d]
        /\ base' = [base EXCEPT ![s] = blob[d]]
        /\ UNCHANGED <<row, blob, batch>>
    BY <1>2 DEF ReadBlob, rowVars
  <2>2. \A e \in Doc : BlobSound(e)'
    BY <2>1 DEF Sound, BlobSound, Injective, Elements
  <2>3. ASSUME NEW t \in Server
        PROVE  BaseSound(t)' /\ BatchSound(t)'
    <3>1. CASE t = s
      <4>1. base'[s] = blob[d] /\ doc'[s] = d /\ pc'[s] = "blobRead"
        BY <2>1 DEF TypeOK
      <4>2. BlobSound(d)
        BY DEF Sound
      <4>3. BaseSound(s)'
        BY <2>1, <4>1, <4>2 DEF BlobSound, BaseSound
      <4> QED BY <3>1, <4>1, <4>3 DEF BatchSound, Holding
    <3>2. CASE t # s
      <4>1. /\ base'[t] = base[t] /\ doc'[t] = doc[t] /\ pc'[t] = pc[t]
            /\ batch'[t] = batch[t]
        BY <2>1, <3>2 DEF TypeOK
      <4>2. BaseSound(t) /\ BatchSound(t)
        BY DEF Sound
      <4> QED BY <2>1, <4>1, <4>2 DEF BaseSound, BatchSound, Reading, Holding,
                                      Injective, Elements
    <3> QED BY <3>1, <3>2
  <2> QED BY <2>2, <2>3 DEF Sound
<1> QED BY <1>1, <1>2

LEMMA SoundReadPending ==
  ASSUME TypeOK, Sound, NEW s \in Server, ReadPending(s)
  PROVE  Sound'
<1>1. PICK b \in ByCreation(Pending(doc[s])) : batch' = [batch EXCEPT ![s] = b]
  BY DEF ReadPending
<1>2. Injective(b) /\ Elements(b) = Pending(doc[s])
  <2>1. Pending(doc[s]) \in SUBSET Update
    BY DEF Pending
  <2> QED BY <2>1, ByCreationReads
<1>3. /\ UNCHANGED <<row, blob, doc, base>>
      /\ pc[s] = "blobRead"
      /\ \A t \in Server : t # s => pc'[t] = pc[t] /\ batch'[t] = batch[t]
      /\ batch'[s] = b
  BY <1>1 DEF ReadPending, rowVars, TypeOK
<1>4. \A d \in Doc : BlobSound(d)'
  BY <1>3 DEF Sound, BlobSound, Injective, Elements
<1>5. ASSUME NEW t \in Server
      PROVE  BaseSound(t)'
  <2>1. Reading(t)' => Reading(t)
    BY <1>3 DEF Reading
  <2> QED BY <1>3, <2>1 DEF Sound, BaseSound, Injective, Elements
<1>6. ASSUME NEW t \in Server
      PROVE  BatchSound(t)'
  <2>1. CASE t = s
    <3>1. BaseSound(s) /\ Reading(s)
      BY <1>3 DEF Sound, Reading
    <3>2. \A u \in Pending(doc[s]) :
            /\ u \in Update /\ DocOf[u] = doc[s] /\ row[u] = "pending"
            /\ u \notin Elements(base[s])
      BY <3>1 DEF Pending, BaseSound
    <3> QED BY <1>2, <1>3, <2>1, <3>2 DEF BatchSound
  <2>2. CASE t # s
    BY <1>3, <2>2 DEF Sound, BatchSound, Holding, Injective, Elements
  <2> QED BY <2>1, <2>2
<1> QED BY <1>4, <1>5, <1>6 DEF Sound

LEMMA SoundCommit ==
  ASSUME TypeOK, Sound, NEW s \in Server, Commit(s)
  PROVE  Sound'
<1> DEFINE new == base[s] \o batch[s]
<1>1. /\ pc[s] = "written"
      /\ pc' = [pc EXCEPT ![s] = "pass"]
      /\ blob' = [blob EXCEPT ![doc[s]] = new]
      /\ row' = [u \in Update |-> IF u \in Elements(batch[s]) THEN "compacted" ELSE row[u]]
      /\ UNCHANGED <<doc, base, batch>>
  BY DEF Commit
<1>2. /\ BaseSound(s) /\ Reading(s)
      /\ BatchSound(s) /\ Holding(s)
  BY <1>1 DEF Sound, Reading, Holding
<1>3. /\ Elements(new) = Elements(base[s]) \union Elements(batch[s])
      /\ Injective(new)
  <2>1. base[s] \in Seq(Update) /\ batch[s] \in Seq(Update)
    BY DEF TypeOK
  <2>2. Elements(base[s]) \intersect Elements(batch[s]) = {}
    BY <1>2 DEF BatchSound
  <2> QED BY <1>2, <2>1, <2>2, ConcatElements DEF BaseSound, BatchSound
<1> HIDE DEF new
<1>4. \A u \in Update :
        /\ row[u] = "compacted" => row'[u] = "compacted"
        /\ row[u] = "pending" => row'[u] \in {"pending", "compacted"}
        /\ u \in Elements(batch[s]) => row'[u] = "compacted"
  BY <1>1
<1>5. ASSUME NEW d \in Doc
      PROVE  BlobSound(d)'
  <2>1. CASE d = doc[s]
    <3>1. blob'[d] = new
      BY <1>1, <2>1 DEF TypeOK
    <3>2. \A u \in Elements(new) : u \in Update /\ row'[u] = "compacted" /\ DocOf[u] = d
      BY <1>2, <1>3, <1>4, <2>1 DEF BaseSound, BatchSound
    <3> QED BY <1>3, <3>1, <3>2 DEF BlobSound
  <2>2. CASE d # doc[s]
    <3>1. blob'[d] = blob[d]
      BY <1>1, <2>2 DEF TypeOK
    <3> QED BY <1>4, <3>1 DEF Sound, BlobSound
  <2> QED BY <2>1, <2>2
<1>6. ASSUME NEW t \in Server
      PROVE  BaseSound(t)' /\ BatchSound(t)'
  <2>1. /\ Reading(t)' => Reading(t)
        /\ Holding(t)' => Holding(t)
    BY <1>1 DEF Reading, Holding, TypeOK
  <2>2. BaseSound(t) /\ BatchSound(t)
    BY DEF Sound
  <2>3. BaseSound(t)'
    BY <1>1, <1>4, <2>1, <2>2 DEF BaseSound
  <2>4. BatchSound(t)'
    BY <1>1, <1>4, <2>1, <2>2 DEF BatchSound
  <2> QED BY <2>3, <2>4
<1> QED BY <1>5, <1>6 DEF Sound

LEMMA SoundInit == Init => Sound
<1> SUFFICES ASSUME Init PROVE Sound
  OBVIOUS
<1>1. Injective(<<>>) /\ Elements(<<>>) = {}
  BY DEF Injective, Elements
<1>2. /\ \A d \in Doc : blob[d] = <<>>
      /\ \A s \in Server : pc[s] = "idle"
  BY DEF Init
<1> QED BY <1>1, <1>2 DEF Sound, BlobSound, BaseSound, BatchSound, Reading, Holding

LEMMA SoundNext == TypeOK /\ Sound /\ [Next]_vars => Sound'
<1> SUFFICES ASSUME TypeOK, Sound, [Next]_vars
             PROVE  Sound'
  OBVIOUS
<1>1. ASSUME NEW s \in Server, NEW d \in Doc, ReadBlob(s, d)
      PROVE  Sound'
  BY <1>1, SoundReadBlob
<1>2. ASSUME NEW s \in Server, ReadPending(s)
      PROVE  Sound'
  BY <1>2, SoundReadPending
<1>3. ASSUME NEW s \in Server, Commit(s)
      PROVE  Sound'
  BY <1>3, SoundCommit
<1>4. ASSUME NEW u \in Update, StartAppend(u) \/ FinishAppend(u)
      PROVE  Sound'
  <2>1. /\ UNCHANGED <<blob, base, batch, doc, pc>>
        /\ row[u] \in {"none", "writing"}
        /\ \E r \in RowState : row' = [row EXCEPT ![u] = r]
    BY <1>4 DEF StartAppend, FinishAppend, passVars, RowState
  <2>2. \A v \in Update :
          /\ row[v] = "compacted" => row'[v] = "compacted"
          /\ row[v] = "pending" => row'[v] \in {"pending", "compacted"}
    BY <2>1 DEF TypeOK
  <2> QED BY <2>1, <2>2, SoundForward DEF Reading, Holding
<1>5. ASSUME NEW s \in Server, Tick(s) \/ EndPass(s) \/ WriteBlob(s) \/ Abort(s)
      PROVE  Sound'
  <2>1. /\ UNCHANGED <<blob, base, batch, doc, row>>
        /\ \/ pc' = [pc EXCEPT ![s] = "pass"]
           \/ pc' = [pc EXCEPT ![s] = "idle"]
           \/ pc[s] = "batched" /\ pc' = [pc EXCEPT ![s] = "written"]
    BY <1>5 DEF Tick, EndPass, WriteBlob, Abort, rowVars
  <2>2. \A t \in Server :
          /\ pc'[t] \in {"blobRead", "batched", "written"} => Reading(t)
          /\ pc'[t] \in {"batched", "written"} => Holding(t)
    BY <2>1 DEF Reading, Holding, TypeOK
  <2> QED BY <2>1, <2>2, SoundForward
<1>6. ASSUME NEW s \in Server, Crash(s)
      PROVE  Sound'
  <2>1. /\ UNCHANGED <<blob, base, batch, doc>>
        /\ pc' = [pc EXCEPT ![s] = "idle"]
        /\ \A u \in Update : row[u] # "writing" => row'[u] = row[u]
    BY <1>6 DEF Crash
  <2>2. \A t \in Server :
          /\ pc'[t] \in {"blobRead", "batched", "written"} => Reading(t)
          /\ pc'[t] \in {"batched", "written"} => Holding(t)
    BY <2>1 DEF Reading, Holding, TypeOK
  <2> QED BY <2>1, <2>2, SoundForward
<1>7. CASE UNCHANGED vars
  BY <1>7, SoundForward DEF vars, rowVars, passVars, Reading, Holding
<1> QED BY <1>1, <1>2, <1>3, <1>4, <1>5, <1>6, <1>7 DEF Next, Compactor

\* However many servers run their compactor at once, and whatever crashes,
\* no update is concatenated twice into its document.
THEOREM NoDoubleMerge == Spec => []NeverMergedTwice
<1>1. Sound => NeverMergedTwice
  BY DEF Sound, BlobSound, NeverMergedTwice
<1> QED BY <1>1, TypeInit, TypeNext, SoundInit, SoundNext, PTL DEF Spec

-----------------------------------------------------------------------------
(* One compactor: marks and blob agree, and the log is implemented.         *)

\* What the transaction read is still true when it commits.
Fresh(s) ==
  /\ Reading(s) => base[s] = blob[doc[s]]
  /\ Holding(s) =>
       /\ \A u \in Elements(batch[s]) : row[u] = "pending"
       /\ batch[s] \in Abstract!Orderings(Elements(batch[s]))

Exact ==
  /\ \A s \in Server : Fresh(s)
  /\ \A u \in Update : row[u] = "compacted" => u \in Elements(blob[DocOf[u]])

LEMMA ExactInit == Init => Exact
<1> SUFFICES ASSUME Init PROVE Exact
  OBVIOUS
<1>1. /\ \A s \in Server : pc[s] = "idle"
      /\ \A u \in Update : row[u] = "none"
  BY DEF Init
<1> QED BY <1>1 DEF Exact, Fresh, Reading, Holding

\* Steps that do not touch what the compactor has read, and compact nothing.
LEMMA ExactForward ==
  ASSUME TypeOK, Sound, Exact, UNCHANGED <<blob, base, batch, doc>>,
         \A u \in Update :
           /\ row'[u] = "compacted" => row[u] = "compacted"
           /\ row[u] = "pending" => row'[u] = "pending",
         \A s \in Server :
           /\ pc'[s] \in {"blobRead", "batched", "written"} => Reading(s)
           /\ pc'[s] \in {"batched", "written"} => Holding(s)
  PROVE  Exact'
<1>1. ASSUME NEW s \in Server
      PROVE  Fresh(s)'
  <2>1. Fresh(s)
    BY DEF Exact
  <2>2. Reading(s)' => base'[s] = blob'[doc'[s]]
    BY <2>1 DEF Fresh, Reading
  <2>3. ASSUME Holding(s)'
        PROVE  /\ \A u \in Elements(batch[s]) : row'[u] = "pending"
               /\ batch[s] \in Abstract!Orderings(Elements(batch[s]))
    <3>1. Holding(s)
      BY <2>3 DEF Holding
    <3>2. Elements(batch[s]) \subseteq Update
      BY <3>1 DEF Sound, BatchSound
    <3> QED BY <2>1, <3>1, <3>2 DEF Fresh
  <2>4. Elements(batch[s])' = Elements(batch[s])
    BY DEF Elements
  <2>5. batch[s] \in Abstract!Orderings(Elements(batch[s])) =>
          (batch[s] \in Abstract!Orderings(Elements(batch[s])))'
    BY <2>4 DEF Abstract!Orderings, Abstract!Elements
  <2> QED BY <2>2, <2>3, <2>4, <2>5 DEF Fresh
<1>2. \A u \in Update : row'[u] = "compacted" => u \in Elements(blob[DocOf[u]])
  BY DEF Exact
<1>3. \A d : Elements(blob[d])' = Elements(blob[d])
  BY DEF Elements
<1> QED BY <1>1, <1>2, <1>3 DEF Exact

LEMMA ExactReadBlob ==
  ASSUME TypeOK, Sound, Exact, OneServer,
         NEW s \in Server, NEW d \in Doc, ReadBlob(s, d)
  PROVE  Exact'
<1>1. CASE d \in Broken
  <2>1. UNCHANGED <<blob, base, batch, doc, row, pc>>
    BY <1>1 DEF ReadBlob, rowVars
  <2> QED BY <2>1, ExactForward DEF Reading, Holding
<1>2. CASE d \notin Broken
  <2>1. /\ pc'[s] = "blobRead" /\ doc'[s] = d /\ base'[s] = blob[d]
        /\ UNCHANGED <<row, blob, batch>>
    BY <1>2 DEF ReadBlob, rowVars, TypeOK
  <2>2. Fresh(s)'
    BY <2>1 DEF Fresh, Holding
  <2>3. \A t \in Server : Fresh(t)'
    BY <2>2 DEF OneServer
  <2>4. \A e : Elements(blob[e])' = Elements(blob[e])
    BY <2>1 DEF Elements
  <2> QED BY <2>1, <2>3, <2>4 DEF Exact
<1> QED BY <1>1, <1>2

LEMMA ExactReadPending ==
  ASSUME TypeOK, Sound, Exact, OneServer, NEW s \in Server, ReadPending(s)
  PROVE  Exact'
<1>1. PICK b \in ByCreation(Pending(doc[s])) : batch' = [batch EXCEPT ![s] = b]
  BY DEF ReadPending
<1>2. /\ Elements(b) = Pending(doc[s])
      /\ b \in Abstract!Orderings(Elements(b))
  <2>1. Pending(doc[s]) \in SUBSET Update
    BY DEF Pending
  <2> QED BY <2>1, ByCreationReads
<1>3. /\ UNCHANGED <<row, blob, doc, base>>
      /\ pc[s] = "blobRead"
      /\ batch'[s] = b
  BY <1>1 DEF ReadPending, rowVars, TypeOK
<1>4. base'[s] = blob'[doc'[s]]
  BY <1>3 DEF Exact, Fresh, Reading
<1>5. \A u \in Elements(b) : row'[u] = "pending"
  BY <1>2, <1>3 DEF Pending
<1>6. Fresh(s)'
  BY <1>2, <1>3, <1>4, <1>5 DEF Fresh
<1>7. \A t \in Server : Fresh(t)'
  BY <1>6 DEF OneServer
<1>8. \A e : Elements(blob[e])' = Elements(blob[e])
  BY <1>3 DEF Elements
<1> QED BY <1>3, <1>7, <1>8 DEF Exact

\* The committed transaction in terms of the state before it.
LEMMA CommitEffect ==
  ASSUME TypeOK, Sound, Exact, NEW s \in Server, Commit(s)
  PROVE  /\ doc[s] \in Doc
         /\ blob' = [blob EXCEPT ![doc[s]] = @ \o batch[s]]
         /\ batch[s] \in Seq(Update)
         /\ batch[s] \in Abstract!Orderings(Elements(batch[s]))
         /\ \A u \in Elements(batch[s]) :
              u \in Update /\ row[u] = "pending" /\ DocOf[u] = doc[s]
         /\ row' = [u \in Update |->
                      IF u \in Elements(batch[s]) THEN "compacted" ELSE row[u]]
<1>1. /\ pc[s] = "written"
      /\ blob' = [blob EXCEPT ![doc[s]] = base[s] \o batch[s]]
      /\ row' = [u \in Update |-> IF u \in Elements(batch[s]) THEN "compacted" ELSE row[u]]
  BY DEF Commit
<1>2. Fresh(s) /\ Reading(s) /\ Holding(s) /\ BatchSound(s)
  BY <1>1 DEF Exact, Sound, Reading, Holding
<1>3. base[s] = blob[doc[s]]
  BY <1>2 DEF Fresh
<1> QED BY <1>1, <1>2, <1>3 DEF Fresh, BatchSound, TypeOK

LEMMA ExactCommit ==
  ASSUME TypeOK, Sound, Exact, OneServer, NEW s \in Server, Commit(s)
  PROVE  Exact'
<1>0. /\ doc[s] \in Doc /\ batch[s] \in Seq(Update)
      /\ blob' = [blob EXCEPT ![doc[s]] = @ \o batch[s]]
      /\ blob \in [Doc -> Seq(Update)]
  BY CommitEffect DEF TypeOK
<1>1. pc'[s] = "pass"
  BY DEF Commit, TypeOK
<1>2. Fresh(s)'
  BY <1>1 DEF Fresh, Reading, Holding
<1>3. \A t \in Server : Fresh(t)'
  BY <1>2 DEF OneServer
<1>4. ASSUME NEW u \in Update, row'[u] = "compacted"
      PROVE  u \in Elements(blob'[DocOf[u]])
  <2>1. DocOf[u] \in Doc
    BY StoreAssumption
  <2>2. CASE DocOf[u] = doc[s]
    <3>1. blob'[DocOf[u]] = blob[doc[s]] \o batch[s]
      BY <1>0, <2>2
    <3>2. Elements(blob'[DocOf[u]]) = Elements(blob[doc[s]]) \union Elements(batch[s])
      <4>1. PICK p, b \in Seq(Update) : p = blob[doc[s]] /\ b = batch[s]
        BY DEF TypeOK
      <4>2. Elements(p \o b) = Elements(p) \union Elements(b)
        BY ConcatElements
      <4> QED BY <3>1, <4>1, <4>2
    <3>3. row[u] = "compacted" \/ u \in Elements(batch[s])
      BY <1>4, CommitEffect
    <3> QED BY <2>2, <3>2, <3>3 DEF Exact
  <2>3. CASE DocOf[u] # doc[s]
    <3>1. blob'[DocOf[u]] = blob[DocOf[u]]
      BY <1>0, <2>1, <2>3
    <3>2. row[u] = "compacted"
      BY <1>4, <2>3, CommitEffect
    <3> QED BY <3>1, <3>2 DEF Exact
  <2> QED BY <2>2, <2>3
<1>5. \A u \in Update : row'[u] = "compacted" => (u \in Elements(blob[DocOf[u]]))'
  BY <1>4
<1> QED BY <1>3, <1>5 DEF Exact

LEMMA ExactNext ==
  ASSUME OneServer
  PROVE  TypeOK /\ Sound /\ Exact /\ [Next]_vars => Exact'
<1> SUFFICES ASSUME TypeOK, Sound, Exact, [Next]_vars
             PROVE  Exact'
  OBVIOUS
<1>1. ASSUME NEW s \in Server, NEW d \in Doc, ReadBlob(s, d)
      PROVE  Exact'
  BY <1>1, ExactReadBlob
<1>2. ASSUME NEW s \in Server, ReadPending(s)
      PROVE  Exact'
  BY <1>2, ExactReadPending
<1>3. ASSUME NEW s \in Server, Commit(s)
      PROVE  Exact'
  BY <1>3, ExactCommit
<1>4. ASSUME NEW u \in Update, StartAppend(u) \/ FinishAppend(u)
      PROVE  Exact'
  <2>1. /\ UNCHANGED <<blob, base, batch, doc, pc>>
        /\ row[u] \in {"none", "writing"}
        /\ \E r \in RowState \ {"compacted"} : row' = [row EXCEPT ![u] = r]
    BY <1>4 DEF StartAppend, FinishAppend, passVars, RowState
  <2>2. \A v \in Update :
          /\ row'[v] = "compacted" => row[v] = "compacted"
          /\ row[v] = "pending" => row'[v] = "pending"
    BY <2>1 DEF TypeOK
  <2> QED BY <2>1, <2>2, ExactForward DEF Reading, Holding
<1>5. ASSUME NEW s \in Server, Tick(s) \/ EndPass(s) \/ WriteBlob(s) \/ Abort(s)
      PROVE  Exact'
  <2>1. /\ UNCHANGED <<blob, base, batch, doc, row>>
        /\ \/ pc' = [pc EXCEPT ![s] = "pass"]
           \/ pc' = [pc EXCEPT ![s] = "idle"]
           \/ pc[s] = "batched" /\ pc' = [pc EXCEPT ![s] = "written"]
    BY <1>5 DEF Tick, EndPass, WriteBlob, Abort, rowVars
  <2>2. \A t \in Server :
          /\ pc'[t] \in {"blobRead", "batched", "written"} => Reading(t)
          /\ pc'[t] \in {"batched", "written"} => Holding(t)
    BY <2>1 DEF Reading, Holding, TypeOK
  <2> QED BY <2>1, <2>2, ExactForward
<1>6. ASSUME NEW s \in Server, Crash(s)
      PROVE  Exact'
  <2>1. /\ UNCHANGED <<blob, base, batch, doc>>
        /\ pc' = [pc EXCEPT ![s] = "idle"]
        /\ row' = [u \in Update |->
                     IF Home[u] = s /\ row[u] = "writing" THEN "lost" ELSE row[u]]
    BY <1>6 DEF Crash
  <2>3. ASSUME NEW u \in Update
        PROVE  row'[u] = IF Home[u] = s /\ row[u] = "writing" THEN "lost" ELSE row[u]
    BY <2>1
  <2>2. \A t \in Server :
          /\ pc'[t] \in {"blobRead", "batched", "written"} => Reading(t)
          /\ pc'[t] \in {"batched", "written"} => Holding(t)
    BY <2>1 DEF Reading, Holding, TypeOK
  <2> QED BY <2>1, <2>2, <2>3, ExactForward
<1>7. CASE UNCHANGED vars
  BY <1>7, ExactForward DEF vars, rowVars, passVars, Reading, Holding
<1> QED BY <1>1, <1>2, <1>3, <1>4, <1>5, <1>6, <1>7 DEF Next, Compactor

LEMMA OneServerInvariant ==
  ASSUME OneServer
  PROVE  Spec => [](TypeOK /\ Sound /\ Exact)
<1>1. TypeOK /\ Sound /\ Exact /\ [Next]_vars => (TypeOK /\ Sound /\ Exact)'
  BY TypeNext, SoundNext, ExactNext
<1>2. Init => TypeOK /\ Sound /\ Exact
  BY TypeInit, SoundInit, ExactInit
<1> QED BY <1>1, <1>2, PTL DEF Spec

\* With the single compactor the documentation asks for, a row is marked
\* exactly if its payload is in its document's blob, at every moment.
THEOREM MarksAreExact ==
  ASSUME OneServer
  PROVE  Spec => []CompactedIsMerged
<1>1. Sound /\ Exact => CompactedIsMerged
  BY DEF Sound, BlobSound, Exact, CompactedIsMerged
<1> QED BY <1>1, OneServerInvariant, PTL

\* With one compactor a joiner's blob only ever grows at its end.
THEOREM BlobGrows ==
  ASSUME OneServer
  PROVE  Spec => BlobOnlyGrows
<1>1. TypeOK /\ Sound /\ Exact /\ [Next]_vars =>
        [\A d \in Doc : IsPrefixOf(LoadBlob(d), LoadBlob(d)')]_vars
  <2> SUFFICES ASSUME TypeOK, Sound, Exact, [Next]_vars, NEW d \in Doc
               PROVE  IsPrefixOf(blob[d], blob'[d])
    BY DEF LoadBlob
  <2>1. IsPrefixOf(blob[d], blob[d])
    BY DEF IsPrefixOf, TypeOK
  <2>2. ASSUME NEW s \in Server, Commit(s)
        PROVE  IsPrefixOf(blob[d], blob'[d])
    <3>1. CASE d = doc[s]
      <4>1. blob'[d] = blob[d] \o batch[s]
        <5>1. blob' = [blob EXCEPT ![doc[s]] = @ \o batch[s]]
          BY <2>2, CommitEffect
        <5> QED BY <3>1, <5>1 DEF TypeOK
      <4>2. blob[d] \in Seq(Update) /\ batch[s] \in Seq(Update)
        BY DEF TypeOK
      <4> QED BY <4>1, <4>2, ConcatElements
    <3>2. CASE d # doc[s]
      <4>1. blob'[d] = blob[d]
        BY <2>2, <3>2, CommitEffect DEF TypeOK
      <4> QED BY <2>1, <4>1
    <3> QED BY <3>1, <3>2
  <2>3. (\A s \in Server : ~Commit(s)) => blob' = blob
    BY DEF Next, Compactor, StartAppend, FinishAppend, Tick, EndPass, ReadBlob,
           ReadPending, WriteBlob, Abort, Crash, vars
  <2> QED BY <2>1, <2>2, <2>3
<1> QED BY <1>1, OneServerInvariant, PTL DEF Spec, BlobOnlyGrows

-----------------------------------------------------------------------------
(* Refinement: commits are the only visible steps of the compactor.         *)

Waiting == {u \in Update : row[u] = "pending"}

LEMMA CommitMerges ==
  ASSUME TypeOK, Sound, Exact, NEW s \in Server, Commit(s)
  PROVE  Abstract!Next
<1> DEFINE S == Elements(batch[s])
           P == {u \in Waiting : DocOf[u] = doc[s]}
<1>1. /\ doc[s] \in Doc
      /\ blob' = [blob EXCEPT ![doc[s]] = @ \o batch[s]]
      /\ batch[s] \in Abstract!Orderings(S)
      /\ \A u \in S : u \in Update /\ row[u] = "pending" /\ DocOf[u] = doc[s]
      /\ row' = [u \in Update |-> IF u \in S THEN "compacted" ELSE row[u]]
  BY CommitEffect
<1>2. S \in SUBSET P
  BY <1>1 DEF Waiting
<1> HIDE DEF S
<1>3. Waiting' = Waiting \ S
  <2>1. \A u \in Update : row'[u] = "pending" <=> row[u] = "pending" /\ u \notin S
    BY <1>1
  <2> QED BY <2>1 DEF Waiting
<1>4. PICK d \in Doc : d = doc[s]
  BY <1>1
<1>5. Abstract!Merge(d)
  <2>1. blob' = [blob EXCEPT ![d] = @ \o batch[s]]
    BY <1>1, <1>4
  <2>2. S \in SUBSET {u \in Waiting : DocOf[u] = d}
    BY <1>2, <1>4
  <2> QED BY <1>1, <1>3, <2>1, <2>2 DEF Abstract!Merge, Waiting
<1> QED BY <1>5 DEF Abstract!Next

LEMMA FinishLogs ==
  ASSUME TypeOK, Sound, NEW u \in Update, FinishAppend(u)
  PROVE  Abstract!Log(u) \/ UNCHANGED <<Waiting, blob>>
<1>1. /\ row[u] = "writing"
      /\ blob' = blob
      /\ row' = [row EXCEPT ![u] = "pending"] \/ row' = [row EXCEPT ![u] = "lost"]
  BY DEF FinishAppend
<1>2. CASE row' = [row EXCEPT ![u] = "lost"]
  <2>1. Waiting' = Waiting
    BY <1>1, <1>2 DEF Waiting, TypeOK
  <2> QED BY <1>1, <2>1
<1>3. CASE row' = [row EXCEPT ![u] = "pending"]
  <2>1. Waiting' = Waiting \union {u}
    BY <1>1, <1>3 DEF Waiting, TypeOK
  <2>2. u \notin Elements(blob[DocOf[u]])
    <3>1. DocOf[u] \in Doc
      BY StoreAssumption
    <3> QED BY <1>1, <3>1 DEF Sound, BlobSound
  <2>3. u \notin Waiting
    BY <1>1 DEF Waiting
  <2> QED BY <1>1, <2>1, <2>2, <2>3 DEF Abstract!Log, Abstract!Elements, Elements, Waiting
<1> QED BY <1>1, <1>2, <1>3

\* With one compactor the store implements the atomic, exactly-once log.
THEOREM ImplementsUpdateLog ==
  ASSUME OneServer
  PROVE  Spec => RefinesUpdateLog
<1>1. Init => Abstract!Init
  BY DEF Init, Abstract!Init
<1>2. TypeOK /\ Sound /\ Exact /\ [Next]_vars => [Abstract!Next]_(Abstract!logVars)
  <2> SUFFICES ASSUME TypeOK, Sound, Exact, [Next]_vars
               PROVE  Abstract!Next \/ UNCHANGED <<Waiting, blob>>
    BY DEF Abstract!logVars, Waiting
  <2>1. ASSUME NEW s \in Server, Commit(s)
        PROVE  Abstract!Next
    BY <2>1, CommitMerges
  <2>2. ASSUME NEW u \in Update, FinishAppend(u)
        PROVE  Abstract!Next \/ UNCHANGED <<Waiting, blob>>
    BY <2>2, FinishLogs DEF Abstract!Next
  <2>3. ASSUME NEW u \in Update, StartAppend(u)
        PROVE  UNCHANGED <<Waiting, blob>>
    BY <2>3 DEF StartAppend, Waiting, TypeOK
  <2>4. ASSUME NEW s \in Server, Crash(s)
        PROVE  UNCHANGED <<Waiting, blob>>
    <3>1. /\ blob' = blob
          /\ row' = [u \in Update |->
                       IF Home[u] = s /\ row[u] = "writing" THEN "lost" ELSE row[u]]
      BY <2>4 DEF Crash
    <3>2. ASSUME NEW u \in Update
          PROVE  row'[u] = IF Home[u] = s /\ row[u] = "writing" THEN "lost" ELSE row[u]
      BY <3>1
    <3>3. \A u \in Update : row'[u] = "pending" <=> row[u] = "pending"
      BY <3>2
    <3> QED BY <3>1, <3>3 DEF Waiting
  <2>5. ASSUME NEW s \in Server, NEW d \in Doc,
               \/ Tick(s) \/ EndPass(s) \/ ReadBlob(s, d) \/ ReadPending(s)
               \/ WriteBlob(s) \/ Abort(s)
        PROVE  UNCHANGED <<Waiting, blob>>
    BY <2>5 DEF Tick, EndPass, ReadBlob, ReadPending, WriteBlob, Abort, rowVars, Waiting
  <2>6. ASSUME NEW s \in Server, Compactor(s) \/ Abort(s) \/ Crash(s)
        PROVE  Abstract!Next \/ UNCHANGED <<Waiting, blob>>
    <3>1. doc[s] \in Doc
      BY DEF TypeOK
    <3> QED BY <2>1, <2>4, <2>5, <2>6, <3>1 DEF Compactor
  <2>7. CASE UNCHANGED vars
    BY <2>7 DEF vars, rowVars, Waiting
  <2> QED BY <2>2, <2>3, <2>6, <2>7 DEF Next
<1> QED BY <1>1, <1>2, OneServerInvariant, PTL DEF Spec, RefinesUpdateLog, Abstract!Spec
=============================================================================
