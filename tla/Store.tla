-------------------------------- MODULE Store --------------------------------
(***************************************************************************)
(* The update log of document/store.go: AppendUpdate goroutines (started   *)
(* by sync/handler.go HandleUpdate), the compactor goroutine of each       *)
(* server (StartCompactor) and the SnapshotState transaction it runs per   *)
(* document, against one Postgres database.                                *)
(*                                                                         *)
(* Transactions are READ COMMITTED, the default of Postgres and of the     *)
(* code: each statement sees what is committed when it starts, an UPDATE   *)
(* waits for another transaction's lock on the row, and a rollback leaves  *)
(* nothing.  Rows survive crashes; goroutines do not.                      *)
(***************************************************************************)
EXTENDS Sequences, FiniteSets, Naturals

CONSTANTS
  Server,       \* the running server processes, one compactor each
  Doc, Update,
  DocOf,        \* Update.DocID
  Home,         \* the server that received the update
  Broken,       \* documents whose row SnapshotState cannot read (soft-deleted)
  MaxCrashes, MaxAborts  \* bounds on crashes and on failing transactions

ASSUME StoreAssumption ==
  /\ IsFiniteSet(Update)
  /\ DocOf \in [Update -> Doc]
  /\ Home \in [Update -> Server]
  /\ Broken \subseteq Doc
  /\ MaxCrashes \in Nat /\ MaxAborts \in Nat

VARIABLES
  row,     \* [Update -> state of the update and of its row]
  stamp,   \* Update.CreatedAt as a rank, 0 before the goroutine runs
  blob,    \* Document.Blob: the payloads concatenated into it
  pc,      \* where each compactor is
  todo,    \* docIDs: documents of this pass not tried yet
  doc,     \* docID of the running SnapshotState
  base,    \* doc.Blob as the transaction read it
  batch,   \* updates as the transaction read them
  crashes, aborts

rowVars == <<row, stamp>>
passVars == <<pc, todo, doc, base, batch>>
vars == <<rowVars, blob, passVars, crashes, aborts>>

RowState == {"none",       \* the frame has not arrived
             "writing",    \* its AppendUpdate goroutine is running
             "lost",       \* the insert failed, or died with the process
             "pending",    \* inserted, compacted_at is NULL
             "compacted"}  \* compacted_at is set

Elements(s) == {s[i] : i \in DOMAIN s}
Injective(s) == \A i, j \in DOMAIN s : s[i] = s[j] => i = j

\* Mutant of Pending: WHERE compacted_at IS NULL, for whatever document.
PendingAnywhere(d) == {u \in Update : row[u] = "pending"}

Pending(d) == {u \in Update : DocOf[u] = d /\ row[u] = "pending"}

Init ==
  /\ row = [u \in Update |-> "none"]
  /\ stamp = [u \in Update |-> 0]
  /\ blob = [d \in Doc |-> <<>>]
  /\ pc = [s \in Server |-> "idle"]
  /\ todo = [s \in Server |-> {}]
  /\ doc \in [Server -> Doc]
  /\ base = [s \in Server |-> <<>>]
  /\ batch = [s \in Server |-> <<>>]
  /\ crashes = 0 /\ aborts = 0

-----------------------------------------------------------------------------
(* AppendUpdate: stamped with time.Now(), inserted, error dropped.          *)

StartAppend(u) ==
  /\ row[u] = "none"
  /\ row' = [row EXCEPT ![u] = "writing"]
  /\ stamp' = [stamp EXCEPT ![u] = 1 + Cardinality({v \in Update : stamp[v] > 0})]
  /\ UNCHANGED <<blob, passVars, crashes, aborts>>

FinishAppend(u) ==
  /\ row[u] = "writing"
  /\ \E r \in {"pending", "lost"} : row' = [row EXCEPT ![u] = r]
  /\ UNCHANGED <<stamp, blob, passVars, crashes, aborts>>

-----------------------------------------------------------------------------
(* StartCompactor.                                                          *)

\* SELECT DISTINCT doc_id ... WHERE compacted_at IS NULL.
Tick(s) ==
  /\ pc[s] = "idle"
  /\ pc' = [pc EXCEPT ![s] = "pass"]
  /\ todo' = [todo EXCEPT ![s] = {d \in Doc : Pending(d) # {}}]
  /\ UNCHANGED <<rowVars, blob, doc, base, batch, crashes, aborts>>

EndPass(s) ==
  /\ pc[s] = "pass"
  /\ todo[s] = {}
  /\ pc' = [pc EXCEPT ![s] = "idle"]
  /\ UNCHANGED <<rowVars, blob, todo, doc, base, batch, crashes, aborts>>

\* Mutant of ReadBlob: the first error ends the pass.
ReadBlobOrGiveUp(s, d) ==
  /\ pc[s] = "pass"
  /\ d \in todo[s]
  /\ IF d \in Broken
       THEN /\ todo' = [todo EXCEPT ![s] = {}]
            /\ UNCHANGED <<pc, doc, base>>
       ELSE /\ todo' = [todo EXCEPT ![s] = @ \ {d}]
            /\ pc' = [pc EXCEPT ![s] = "blobRead"]
            /\ doc' = [doc EXCEPT ![s] = d]
            /\ base' = [base EXCEPT ![s] = blob[d]]
  /\ UNCHANGED <<rowVars, blob, batch, crashes, aborts>>

\* SnapshotState, first statement: read the blob.  A document that cannot be
\* read is an error: logged, and the pass goes on with the next one.
ReadBlob(s, d) ==
  /\ pc[s] = "pass"
  /\ d \in todo[s]
  /\ todo' = [todo EXCEPT ![s] = @ \ {d}]
  /\ IF d \in Broken
       THEN UNCHANGED <<pc, doc, base>>
       ELSE /\ pc' = [pc EXCEPT ![s] = "blobRead"]
            /\ doc' = [doc EXCEPT ![s] = d]
            /\ base' = [base EXCEPT ![s] = blob[d]]
  /\ UNCHANGED <<rowVars, blob, batch, crashes, aborts>>

\* The rows of S by created_at.
ByCreation(S) ==
  {b \in [1 .. Cardinality(S) -> S] :
     /\ Elements(b) = S
     /\ Injective(b)
     /\ \A i, j \in DOMAIN b : i < j => stamp[b[i]] <= stamp[b[j]]}

\* Second statement: read the pending updates; none is a commit of nothing.
ReadPending(s) ==
  /\ pc[s] = "blobRead"
  /\ \E b \in ByCreation(Pending(doc[s])) : batch' = [batch EXCEPT ![s] = b]
  /\ pc' = [pc EXCEPT ![s] = IF Pending(doc[s]) = {} THEN "pass" ELSE "batched"]
  /\ UNCHANGED <<rowVars, blob, todo, doc, base, crashes, aborts>>

\* Third statement: UPDATE the document, waiting for its row lock.  The new
\* blob is not visible to others before the commit.
WriteBlob(s) ==
  /\ pc[s] = "batched"
  /\ \A t \in Server : pc[t] = "written" => doc[t] # doc[s]
  /\ pc' = [pc EXCEPT ![s] = "written"]
  /\ UNCHANGED <<rowVars, blob, todo, doc, base, batch, crashes, aborts>>

\* Mutant of Commit: WHERE doc_id = ? AND compacted_at IS NULL instead of the ids.
CommitMarksAll(s) ==
  /\ pc[s] = "written"
  /\ pc' = [pc EXCEPT ![s] = "pass"]
  /\ blob' = [blob EXCEPT ![doc[s]] = base[s] \o batch[s]]
  /\ row' = [u \in Update |-> IF u \in Pending(doc[s]) THEN "compacted" ELSE row[u]]
  /\ UNCHANGED <<stamp, todo, doc, base, batch, crashes, aborts>>

\* Mutant of Commit: the existing blob is not carried over.
CommitBatchOnly(s) ==
  /\ pc[s] = "written"
  /\ pc' = [pc EXCEPT ![s] = "pass"]
  /\ blob' = [blob EXCEPT ![doc[s]] = batch[s]]
  /\ row' = [u \in Update |-> IF u \in Elements(batch[s]) THEN "compacted" ELSE row[u]]
  /\ UNCHANGED <<stamp, todo, doc, base, batch, crashes, aborts>>

\* Fourth statement and commit: the rows read above, by id, get compacted_at.
Commit(s) ==
  /\ pc[s] = "written"
  /\ pc' = [pc EXCEPT ![s] = "pass"]
  /\ blob' = [blob EXCEPT ![doc[s]] = base[s] \o batch[s]]
  /\ row' = [u \in Update |-> IF u \in Elements(batch[s]) THEN "compacted" ELSE row[u]]
  /\ UNCHANGED <<stamp, todo, doc, base, batch, crashes, aborts>>

\* Mutant of Abort: the blob was written outside the transaction.
AbortKeepsBlob(s) ==
  /\ pc[s] \in {"blobRead", "batched", "written"}
  /\ aborts < MaxAborts
  /\ aborts' = aborts + 1
  /\ pc' = [pc EXCEPT ![s] = "pass"]
  /\ blob' = IF pc[s] = "written"
               THEN [blob EXCEPT ![doc[s]] = base[s] \o batch[s]] ELSE blob
  /\ UNCHANGED <<rowVars, todo, doc, base, batch, crashes>>

\* Any statement or the commit fails: rollback, logged, next document.
Abort(s) ==
  /\ pc[s] \in {"blobRead", "batched", "written"}
  /\ aborts < MaxAborts
  /\ aborts' = aborts + 1
  /\ pc' = [pc EXCEPT ![s] = "pass"]
  /\ UNCHANGED <<rowVars, blob, todo, doc, base, batch, crashes>>

-----------------------------------------------------------------------------
\* The process dies and restarts: its inserts under way are gone, its open
\* transaction is rolled back, its compactor waits for its first tick.
Crash(s) ==
  /\ crashes < MaxCrashes
  /\ crashes' = crashes + 1
  /\ row' = [u \in Update |->
               IF Home[u] = s /\ row[u] = "writing" THEN "lost" ELSE row[u]]
  /\ pc' = [pc EXCEPT ![s] = "idle"]
  /\ todo' = [todo EXCEPT ![s] = {}]
  /\ UNCHANGED <<stamp, blob, doc, base, batch, aborts>>

Compactor(s) ==
  \/ Tick(s) \/ EndPass(s)
  \/ \E d \in Doc : ReadBlob(s, d)
  \/ ReadPending(s) \/ WriteBlob(s) \/ Commit(s)

Next ==
  \/ \E u \in Update : StartAppend(u) \/ FinishAppend(u)
  \/ \E s \in Server : Compactor(s) \/ Abort(s) \/ Crash(s)

Spec == Init /\ [][Next]_vars

\* The ticker fires again and again and Postgres answers.
FairSpec == Spec /\ \A s \in Server : WF_vars(Compactor(s))

-----------------------------------------------------------------------------
\* What a joiner is sent.
LoadBlob(d) == blob[d]

\* A compactor that is about to write has updates of that document to write:
\* when another one was faster, the transaction has already ended.
HasBatch ==
  \A s \in Server : pc[s] \in {"batched", "written"} =>
    batch[s] # <<>> /\ \A u \in Elements(batch[s]) : DocOf[u] = doc[s]

TypeOK ==
  /\ row \in [Update -> RowState]
  /\ stamp \in [Update -> Nat]
  /\ blob \in [Doc -> Seq(Update)]
  /\ pc \in [Server -> {"idle", "pass", "blobRead", "batched", "written"}]
  /\ todo \in [Server -> SUBSET Doc]
  /\ \A s \in Server : pc[s] = "idle" => todo[s] = {}
  /\ doc \in [Server -> Doc]
  /\ base \in [Server -> Seq(Update)]
  /\ batch \in [Server -> Seq(Update)] /\ HasBatch
  /\ crashes \in 0 .. MaxCrashes
  /\ aborts \in 0 .. MaxAborts

\* No payload is in a blob twice, even with several compactors and crashes
\* between any two statements: the transaction reads the blob before the
\* pending updates, so what the blob holds is no longer pending by then.
NeverMergedTwice == \A d \in Doc : Injective(blob[d])

\* compacted_at and the blob agree, whatever failed or crashed in between:
\* an update is marked exactly if its payload is in its own document.
CompactedIsMerged ==
  /\ \A u \in Update : row[u] = "compacted" => u \in Elements(blob[DocOf[u]])
  /\ \A d \in Doc : \A u \in Elements(blob[d]) : row[u] = "compacted" /\ DocOf[u] = d

IsPrefixOf(s, t) == Len(s) <= Len(t) /\ \A i \in DOMAIN s : t[i] = s[i]

\* Nothing merged into a document ever disappears from it or moves: what one
\* joiner was sent is the beginning of what every later one is sent.
BlobOnlyGrows == [][\A d \in Doc : IsPrefixOf(LoadBlob(d), LoadBlob(d)')]_vars

-----------------------------------------------------------------------------
Abstract == INSTANCE UpdateLog WITH
  pending <- {u \in Update : row[u] = "pending"},
  merged <- blob

\* One compactor implements the log whose entries move to the document
\* atomically, each exactly once.
RefinesUpdateLog == Abstract!Spec
=============================================================================
