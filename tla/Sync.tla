--------------------------------- MODULE Sync ---------------------------------
(***************************************************************************)
(* What a browser has of its document: sync/handler.go, which sends every  *)
(* diff down two roads that meet again in a joining browser.  HandleUpdate *)
(* broadcasts a diff through the hub (module Hub) and logs it in the       *)
(* background; the log is merged into the stored document later (module    *)
(* UpdateLog, which Store implements); OnJoin reads the stored document    *)
(* and queues it behind what the hub sent meanwhile.                       *)
(*                                                                         *)
(* Hub's actions are used as they are.  Hub says when HandleUpdate runs,   *)
(* this module what its AppendUpdate goroutine then does, and which diffs  *)
(* the payload Blob of OnJoin holds.                                       *)
(***************************************************************************)
EXTENDS Hub, FiniteSets

CONSTANT NotLoaded

VARIABLES
  pending,  \* rows of the updates table whose compacted_at is NULL
  merged,   \* Document.Blob
  loaded,   \* what LoadBlob returned to each connection's OnJoin
  \* history:
  before,   \* what was merged when the connection was upgraded
  missed,   \* diffs the hub routed while the connection was not registered
  dropped   \* diffs that found the Broadcast buffer full

logVars == <<pending, merged>>
historyVars == <<before, missed, dropped>>
syncVars == <<vars, logVars, loaded, historyVars>>

Diff == UNION {{c} \X (1 .. MaxFrames[c]) : c \in Conn}

Log == INSTANCE UpdateLog WITH
  Update <- Diff,
  DocOf <- [f \in Diff |-> DocOf[f[1]]]

Stored(c) == Log!Elements(merged[DocOf[c]])

SyncInit ==
  /\ Init
  /\ Log!Init
  /\ loaded = [c \in Conn |-> NotLoaded]
  /\ before = [c \in Conn |-> {}]
  /\ missed = [c \in Conn |-> {}]
  /\ dropped = {}

-----------------------------------------------------------------------------
Accept(c) ==
  /\ Upgrade(c)
  /\ before' = [before EXCEPT ![c] = Stored(c)]
  /\ UNCHANGED <<logVars, loaded, missed, dropped>>

\* Mutant of MayLoad: the document is read before the hub is told.
MayLoadEarly(c) == handler[c] = "new"

MayLoad(c) == handler[c] = "joining"

\* The query inside OnJoin; whatever happens until the send is not in it.
LoadBlob(c) ==
  /\ ~panicked
  /\ MayLoad(c)
  /\ loaded[c] = NotLoaded
  /\ loaded' = [loaded EXCEPT ![c] = Stored(c)]
  /\ UNCHANGED <<vars, logVars, historyVars>>

\* OnJoin sends what was loaded.  If the query failed there is nothing to
\* send: the error is logged and the connection goes on without.
FinishJoin(c) ==
  /\ OnJoin(c)
  /\ loaded[c] = NotLoaded <=> handler'[c] = "reading" /\ send' = send
  /\ UNCHANGED <<logVars, loaded, historyVars>>

\* HandleUpdate; its AppendUpdate goroutine is Persist.
Handle(c) ==
  /\ ReadFrame(c)
  /\ dropped' = IF broadcastQ' = broadcastQ
                  THEN dropped \union {<<c, appends'[c]>>} ELSE dropped
  /\ UNCHANGED <<logVars, loaded, before, missed>>

Handled(f) == f[2] <= appends[f[1]]

\* The insert, at any time after HandleUpdate started it, in any order, or
\* never when it fails.
Persist(f) ==
  /\ Handled(f)
  /\ Log!Log(f)
  /\ UNCHANGED <<vars, loaded, historyVars>>

\* A compaction commits.
Compact(d) ==
  /\ Log!Merge(d)
  /\ UNCHANGED <<vars, loaded, historyVars>>

\* Connections that will read the diff's document and cannot get it live.
Route ==
  /\ HubBroadcast
  /\ LET msg == Head(broadcastQ)
         late(c) == /\ handler[c] \in {"new", "joining", "reading"} /\ ~closed[c]
                    /\ clients[UserOf[c]] # c
                    /\ DocOf[c] = msg.DocID /\ UserOf[c] # msg.SenderID
     IN  missed' = [c \in Conn |->
           IF late(c) THEN missed[c] \union {msg.Payload} ELSE missed[c]]
  /\ UNCHANGED <<logVars, loaded, before, dropped>>

\* The rest of Hub: neither diffs nor the log are involved.
Rest ==
  /\ \/ HubRegister \/ HubUnregister
     \/ \E c \in Conn :
          \/ ReadError(c) \/ SendUnregister(c) \/ CloseConn(c)
          \/ WriteFrame(c) \/ WriterReturns(c) \/ Disconnect(c)
     \/ \E u \in User, d \in Doc : AssignTask(u, d)
  /\ UNCHANGED <<logVars, loaded, historyVars>>

SyncNext ==
  \/ Route
  \/ \E c \in Conn : Accept(c) \/ LoadBlob(c) \/ FinishJoin(c) \/ Handle(c)
  \/ \E f \in Diff : Persist(f)
  \/ \E d \in Doc : Compact(d)
  \/ Rest

SyncSpec == SyncInit /\ [][SyncNext]_syncVars

-----------------------------------------------------------------------------
\* A connection in good health: read, registered, not evicted, not broken, of
\* a server that is alive.
Established(c) ==
  /\ ~panicked
  /\ handler[c] = "reading"
  /\ clients[UserOf[c]] = c
  /\ ~closed[c]
  /\ conn[c] = "open"

\* The diffs other people made to its document so far.
Due(c) == {f \in Diff : Handled(f) /\ DocOf[f[1]] = DocOf[c] /\ UserOf[f[1]] # UserOf[c]}

Carries(q, f) == \E i \in DOMAIN q : q[i] = f
Queued(f) == \E i \in DOMAIN broadcastQ : broadcastQ[i].Payload = f

SyncTypeOK ==
  /\ TypeOK
  /\ pending \subseteq Diff
  /\ merged \in [Doc -> Seq(Diff)]
  /\ loaded \in [Conn -> (SUBSET Diff) \union {NotLoaded}]
  /\ before \in [Conn -> SUBSET Diff]
  /\ missed \in [Conn -> SUBSET Frame]
  /\ dropped \subseteq Diff

\* A browser in good health has every diff of its document, in the document
\* it was sent on joining or live, or will get it live, with three exceptions
\* and no other: the diff found the Broadcast buffer full; or it was routed
\* before the hub registered the browser and was not merged yet when the
\* browser connected; or it was routed before that and the query of OnJoin
\* failed, which ws_handler.go:87-89 logs before it lets the browser go on.
GapsAreExplained ==
  \A c \in Conn : Established(c) =>
    \A f \in Due(c) :
      \/ loaded[c] # NotLoaded /\ f \in loaded[c]
      \/ Carries(wire[c], f) \/ Carries(send[c], f) \/ Queued(f)
      \/ f \in dropped
      \/ f \in missed[c] /\ (f \notin before[c] \/ loaded[c] = NotLoaded)
=============================================================================
