------------------------------ MODULE SyncProofs ------------------------------
(***************************************************************************)
(* Theorems about Sync, for any users, documents, connections, capacities  *)
(* and any overlap of connections.                                         *)
(***************************************************************************)
EXTENDS Sync, HubProofs, FiniteSetTheorems

-----------------------------------------------------------------------------
(* Sync is Hub with more to see.                                            *)

\* What a step does to the connection layer is a step of Hub.
LEMMA StepOfHub == [SyncNext]_syncVars => [Next]_vars
<1> SUFFICES ASSUME [SyncNext]_syncVars PROVE [Next]_vars
  OBVIOUS
<1>1. CASE Route
  BY <1>1 DEF Route, Next
<1>2. ASSUME NEW c \in Conn, Accept(c) \/ FinishJoin(c) \/ Handle(c)
      PROVE  Next
  BY <1>2 DEF Accept, FinishJoin, Handle, Next
<1>3. ASSUME NEW c \in Conn, LoadBlob(c)
      PROVE  UNCHANGED vars
  BY <1>3 DEF LoadBlob
<1>4. ASSUME NEW f \in Diff, Persist(f)
      PROVE  UNCHANGED vars
  BY <1>4 DEF Persist
<1>5. ASSUME NEW d \in Doc, Compact(d)
      PROVE  UNCHANGED vars
  BY <1>5 DEF Compact
<1>6. CASE Rest
  BY <1>6 DEF Rest, Next
<1>7. CASE UNCHANGED syncVars
  BY <1>7 DEF syncVars
<1> QED BY <1>1, <1>2, <1>3, <1>4, <1>5, <1>6, <1>7 DEF SyncNext

\* Every behaviour of the two roads together is one of the hub: all that is
\* proved of Hub, delivery in order included, holds here.
THEOREM SyncImplementsHub == SyncSpec => Spec
<1>1. SyncInit => Init
  BY DEF SyncInit
<1> QED BY <1>1, StepOfHub, PTL DEF SyncSpec, Spec

-----------------------------------------------------------------------------
(* Types.                                                                   *)

\* The log is finite, so that a merge puts a sequence of diffs in the blob.
LogTyped == SyncTypeOK /\ IsFiniteSet(pending)

HistoryTyped ==
  /\ loaded \in [Conn -> (SUBSET Diff) \union {NotLoaded}]
  /\ before \in [Conn -> SUBSET Diff]
  /\ missed \in [Conn -> SUBSET Frame]
  /\ dropped \subseteq Diff

\* A merge puts more diffs behind those a document has.
LEMMA MergeExtends ==
  ASSUME LogTyped, NEW d \in Doc, Log!Merge(d)
  PROVE  /\ merged' \in [Doc -> Seq(Diff)]
         /\ pending' \subseteq pending
         /\ \A e \in Doc : Elems(merged[e]) \subseteq Elems(merged'[e])
<1>0. PICK S \in SUBSET pending : \E s \in Log!Orderings(S) :
        merged' = [merged EXCEPT ![d] = @ \o s] /\ pending' = pending \ S
  BY DEF Log!Merge
<1>1. PICK s \in Log!Orderings(S) :
        merged' = [merged EXCEPT ![d] = @ \o s] /\ pending' = pending \ S
  BY <1>0
<1>2. Cardinality(S) \in Nat
  BY FS_Subset, FS_CardinalityType DEF LogTyped
<1>3. s \in [1 .. Cardinality(S) -> S] /\ S \subseteq Diff
  <2>1. s \in [1 .. Cardinality(S) -> S]
    BY Zenon DEF Log!Orderings, Log!Cardinality, Cardinality
  <2> QED BY <2>1 DEF LogTyped, SyncTypeOK
<1>4. s \in Seq(Diff)
  BY <1>2, <1>3
<1>5. merged \in [Doc -> Seq(Diff)]
  BY DEF LogTyped, SyncTypeOK
<1>6. merged[d] \o s \in Seq(Diff) /\ Elems(merged[d]) \subseteq Elems(merged[d] \o s)
  <2>1. merged[d] \in Seq(Diff)
    BY <1>5
  <2>2. \A q \in Seq(Diff) : /\ DOMAIN q = 1 .. Len(q)
                             /\ DOMAIN (q \o s) = 1 .. Len(q) + Len(s)
                             /\ \A i \in 1 .. Len(q) : (q \o s)[i] = q[i]
                             /\ Len(q) \in Nat /\ Len(s) \in Nat
                             /\ q \o s \in Seq(Diff)
    BY <1>4
  <2>3. PICK q \in Seq(Diff) : q = merged[d]
    BY <2>1
  <2>4. q \o s \in Seq(Diff) /\ \A i \in DOMAIN q : i \in DOMAIN (q \o s) /\ (q \o s)[i] = q[i]
    BY <2>2
  <2>5. Elems(q) \subseteq Elems(q \o s)
    BY <2>4 DEF Elems
  <2> QED BY <2>3, <2>4, <2>5
<1> QED BY <1>1, <1>5, <1>6

\* What the log does in a step: new entries come from Persist, and what a
\* document has it keeps.
LEMMA LogStep ==
  ASSUME LogTyped, [SyncNext]_syncVars
  PROVE  /\ merged' \in [Doc -> Seq(Diff)]
         /\ pending' \subseteq Diff /\ IsFiniteSet(pending')
         /\ \A c \in Conn : Stored(c) \subseteq Stored(c)'
<1> SUFFICES /\ merged' \in [Doc -> Seq(Diff)]
             /\ pending' \subseteq Diff /\ IsFiniteSet(pending')
             /\ \A e \in Doc : Elems(merged[e]) \subseteq Elems(merged'[e])
  BY HubAssumption DEF Stored, Log!Elements, Elems
<1>1. ASSUME NEW f \in Diff, Persist(f)
      PROVE  merged' = merged /\ pending' = pending \union {f}
  BY <1>1 DEF Persist, Log!Log
<1>2. ASSUME NEW d \in Doc, Compact(d)
      PROVE  Log!Merge(d)
  BY <1>2 DEF Compact
<1>3. ASSUME ~\E f \in Diff : Persist(f), ~\E d \in Doc : Compact(d)
      PROVE  UNCHANGED logVars
  BY <1>3 DEF SyncNext, syncVars, Route, Accept, LoadBlob, FinishJoin, Handle, Rest
<1>4. CASE \E f \in Diff : Persist(f)
  BY <1>1, <1>4, FS_AddElement DEF LogTyped, SyncTypeOK
<1>5. CASE \E d \in Doc : Compact(d)
  <2>1. PICK d \in Doc : Log!Merge(d)
    BY <1>2, <1>5
  <2> QED BY <2>1, MergeExtends, FS_Subset DEF LogTyped, SyncTypeOK
<1>6. CASE UNCHANGED logVars
  BY <1>6 DEF logVars, LogTyped, SyncTypeOK
<1> QED BY <1>3, <1>4, <1>5, <1>6

LEMMA LogTypedInit == SyncInit => LogTyped
<1> SUFFICES ASSUME SyncInit PROVE LogTyped
  OBVIOUS
<1>1. TypeOK
  BY TypeInit DEF SyncInit
<1>2. /\ pending = {} /\ merged = [d \in Doc |-> <<>>]
      /\ IsFiniteSet({})
  BY FS_EmptySet DEF SyncInit, Log!Init
<1>3. \A d \in Doc : merged[d] \in Seq(Diff)
  BY <1>2
<1> QED BY <1>1, <1>2, <1>3 DEF SyncInit, LogTyped, SyncTypeOK

LEMMA LogTypedNext == LogTyped /\ [SyncNext]_syncVars => LogTyped'
<1> SUFFICES ASSUME LogTyped, [SyncNext]_syncVars PROVE LogTyped'
  OBVIOUS
<1>1. TypeOK'
  BY StepOfHub, TypeNext DEF LogTyped, SyncTypeOK
<1>2. /\ merged' \in [Doc -> Seq(Diff)]
      /\ pending' \subseteq Diff /\ IsFiniteSet(pending')
  BY LogStep
<1>3. \A c \in Conn : Stored(c) \subseteq Diff
  BY HubAssumption DEF Stored, Log!Elements, LogTyped, SyncTypeOK
<1>4. HistoryTyped'
  <2> USE DEF LogTyped, SyncTypeOK, HistoryTyped
  <2>1. CASE Route
    <3>1. Head(broadcastQ) \in Message
      BY <2>1, ChannelReceive DEF Route, HubBroadcast, TypeOK
    <3>2. Head(broadcastQ).Payload \in Frame
      BY <3>1 DEF Message
    <3>3. /\ UNCHANGED <<loaded, before, dropped>>
          /\ missed' \in [Conn -> SUBSET Frame]
      BY <2>1, <3>2 DEF Route
    <3> QED BY <3>3
  <2>2. ASSUME NEW c \in Conn, Accept(c)
        PROVE  HistoryTyped'
    BY <1>3, <2>2 DEF Accept
  <2>3. ASSUME NEW c \in Conn, LoadBlob(c)
        PROVE  HistoryTyped'
    BY <1>3, <2>3 DEF LoadBlob, historyVars
  <2>4. ASSUME NEW c \in Conn, Handle(c)
        PROVE  HistoryTyped'
    <3>1. appends[c] \in Nat /\ appends[c] < MaxFrames[c] /\ appends'[c] = appends[c] + 1
      BY <2>4 DEF Handle, ReadFrame, HandleUpdate, TypeOK
    <3>2. <<c, appends'[c]>> \in Diff
      BY <3>1, HubAssumption DEF Diff
    <3> QED BY <2>4, <3>2 DEF Handle
  <2>5. CASE UNCHANGED <<loaded, historyVars>>
    BY <2>5 DEF historyVars
  <2> QED BY <2>1, <2>2, <2>3, <2>4, <2>5
          DEF SyncNext, syncVars, FinishJoin, Persist, Compact, Rest
<1> QED BY <1>1, <1>2, <1>4 DEF LogTyped, SyncTypeOK, HistoryTyped

\* What the roads carry stays within its type, and the log stays finite.
THEOREM SyncTypeCorrect == SyncSpec => []SyncTypeOK
<1>1. LogTyped => SyncTypeOK
  BY DEF LogTyped
<1> QED BY <1>1, LogTypedInit, LogTypedNext, PTL DEF SyncSpec

-----------------------------------------------------------------------------
(* Which road a diff takes to a browser: the invariant behind               *)
(* GapsAreExplained.                                                        *)

\* A connection nobody has opened yet has left no trace.
Fresh(c) ==
  handler[c] = "new" =>
    /\ ~InQueue(c, registerQ) /\ ~InQueue(c, unregisterQ) /\ clients[UserOf[c]] # c
    /\ ~closed[c] /\ writer[c] = "none" /\ conn[c] = "none"

\* The document is read after the hub was told: what was merged when the
\* connection was upgraded is in what OnJoin sends.
LoadsEnough(c) ==
  /\ handler[c] = "new" => loaded[c] = NotLoaded
  /\ handler[c] # "new" => before[c] \subseteq Stored(c)
  /\ loaded[c] # NotLoaded => before[c] \subseteq loaded[c]

\* The connection is, or may become, established.
Watching(c) ==
  /\ ~panicked /\ ~closed[c]
  /\ \/ handler[c] = "new"
     \/ handler[c] \in {"joining", "reading"} /\ conn[c] = "open"

\* The diff is on the live road to c, or it is known why not.
Tracked(c, f) ==
  \/ f \in Elems(wire[c]) \union Elems(send[c])
  \/ \E m \in Elems(broadcastQ) : m.Payload = f
  \/ f \in dropped \union missed[c]

Roads(c) ==
  /\ Fresh(c)
  /\ LoadsEnough(c)
  /\ Watching(c) => \A f \in Due(c) : Tracked(c, f)

RoadsMeet == \A c \in Conn : Roads(c)

AllFresh == \A c \in Conn : Fresh(c)

LEMMA FreshInit == Init => AllFresh
<1> SUFFICES ASSUME Init, NEW c \in Conn PROVE Fresh(c)
  BY DEF AllFresh
<1>1. ~InQueue(c, <<>>)
  BY DEF InQueue
<1>2. clients[UserOf[c]] # c
  BY HubAssumption DEF Init
<1> QED BY <1>1, <1>2 DEF Init, Fresh

\* The hub only ever handles connections it was told of.
LEMMA FreshNext == TypeOK /\ AllFresh /\ [Next]_vars => AllFresh'
<1> SUFFICES ASSUME TypeOK, AllFresh, [Next]_vars, NEW c \in Conn, handler'[c] = "new"
             PROVE  Fresh(c)'
  BY DEF AllFresh, Fresh
<1>0. UserOf[c] \in User /\ c # None
  BY HubAssumption
<1>1. CASE HubRegister
  <2>1. PICK d \in Conn : d = Head(registerQ)
    BY <1>1, ChannelReceive DEF HubRegister, TypeOK
  <2>2. /\ InQueue(d, registerQ)
        /\ \A e : InQueue(e, Tail(registerQ)) => InQueue(e, registerQ)
    BY <1>1, <2>1, ChannelReceive DEF HubRegister, TypeOK
  <2>3. /\ registerQ' = Tail(registerQ)
        /\ clients' = [clients EXCEPT ![UserOf[d]] = d]
        /\ UNCHANGED <<unregisterQ, handler, writer, conn>>
    BY <1>1, <2>1 DEF HubRegister, connVars
  <2>4. closed' = closed \/ \E u \in User : /\ clients[u] # None
                                            /\ closed' = [closed EXCEPT ![clients[u]] = TRUE]
    <3>1. UserOf[d] \in User
      BY HubAssumption
    <3> QED BY <1>1, <2>1, <3>1 DEF HubRegister, CloseSend
  <2>5. Fresh(c) /\ d # c
    BY <2>2, <2>3 DEF AllFresh, Fresh
  <2>6. ~closed'[c]
    <3>1. handler[c] = "new" /\ ~closed[c] /\ clients[UserOf[c]] # c
      BY <2>3, <2>5 DEF Fresh
    <3>2. \A u \in User : clients[u] # c
      BY <1>0, <3>1 DEF TypeOK
    <3> QED BY <2>4, <3>1, <3>2 DEF TypeOK
  <2>7. clients'[UserOf[c]] # c
    BY <1>0, <2>3, <2>5 DEF TypeOK, Fresh
  <2> QED BY <2>2, <2>3, <2>5, <2>6, <2>7 DEF Fresh
<1>2. CASE HubUnregister
  <2>1. PICK d \in Conn : d = Head(unregisterQ)
    BY <1>2, ChannelReceive DEF HubUnregister, TypeOK
  <2>2. /\ InQueue(d, unregisterQ)
        /\ \A e : InQueue(e, Tail(unregisterQ)) => InQueue(e, unregisterQ)
    BY <1>2, <2>1, ChannelReceive DEF HubUnregister, TypeOK
  <2>3. /\ unregisterQ' = Tail(unregisterQ)
        /\ clients' = clients \/ clients' = [clients EXCEPT ![UserOf[d]] = None]
        /\ closed' = closed \/ closed' = [closed EXCEPT ![d] = TRUE]
        /\ UNCHANGED <<registerQ, handler, writer, conn>>
    BY <1>2, <2>1 DEF HubUnregister, CloseSend, connVars
  <2>4. Fresh(c) /\ d # c
    BY <2>2, <2>3 DEF AllFresh, Fresh
  <2> QED BY <1>0, <2>2, <2>3, <2>4 DEF Fresh, TypeOK
<1>3. CASE HubBroadcast
  <2>1. UNCHANGED <<registerQ, unregisterQ, handler, writer, conn>>
    BY <1>3 DEF HubBroadcast, connVars
  <2>2. Fresh(c)
    BY DEF AllFresh
  <2>3. \/ UNCHANGED <<clients, closed>>
        \/ Evict({d \in Receivers(Head(broadcastQ)) : Full(d)})
    BY <1>3 DEF HubBroadcast
  <2>4. c \notin Receivers(Head(broadcastQ))
    BY <2>1, <2>2 DEF Receivers, Fresh
  <2>5. ~closed'[c] /\ clients'[UserOf[c]] # c
    BY <1>0, <2>1, <2>2, <2>3, <2>4 DEF Evict, Fresh
  <2> QED BY <2>1, <2>2, <2>5 DEF Fresh
<1>4. ASSUME NEW d \in Conn, Upgrade(d)
      PROVE  Fresh(c)'
  <2>1. handler'[d] = "joining" /\ d # c /\ handler[c] = "new"
    BY <1>4 DEF Upgrade, TypeOK
  <2>2. InQueue(c, registerQ') <=> InQueue(c, registerQ)
    BY <1>4, <2>1, ChannelSend DEF Upgrade, TypeOK
  <2>3. /\ conn'[c] = conn[c]
        /\ UNCHANGED <<clients, unregisterQ, closed, writer>>
    BY <1>4, <2>1 DEF Upgrade, TypeOK
  <2> QED BY <2>1, <2>2, <2>3 DEF AllFresh, Fresh
<1>5. ASSUME NEW d \in Conn, SendUnregister(d)
      PROVE  Fresh(c)'
  <2>1. d # c /\ handler[c] = "new"
    BY <1>5 DEF SendUnregister, TypeOK
  <2>2. InQueue(c, unregisterQ') <=> InQueue(c, unregisterQ)
    BY <1>5, <2>1, ChannelSend DEF SendUnregister, TypeOK
  <2> QED BY <1>5, <2>1, <2>2 DEF SendUnregister, AllFresh, Fresh
<1>6. ASSUME NEW d \in Conn,
             \/ OnJoin(d) \/ ReadFrame(d) \/ ReadError(d) \/ CloseConn(d)
             \/ WriteFrame(d) \/ WriterReturns(d) \/ Disconnect(d)
      PROVE  Fresh(c)'
  <2>1. UNCHANGED <<clients, registerQ, unregisterQ, closed>>
    BY <1>6 DEF OnJoin, ReadFrame, ReadError, CloseConn, WriteFrame, WriterReturns,
                Disconnect, chanVars
  <2>2. /\ handler[c] = "new"
        /\ Fresh(c) => writer'[c] = writer[c] /\ conn'[c] = conn[c]
    BY <1>6 DEF OnJoin, StartPumps, ReadFrame, ReadError, CloseConn, WriteFrame,
                WriterReturns, StopWriter, Disconnect, Fresh, TypeOK
  <2> QED BY <2>1, <2>2 DEF AllFresh, Fresh
<1>7. CASE UNCHANGED vars \/ \E u \in User, d \in Doc : AssignTask(u, d)
  BY <1>7 DEF AssignTask, vars, chanVars, connVars, AllFresh, Fresh
<1> QED BY <1>1, <1>2, <1>3, <1>4, <1>5, <1>6, <1>7 DEF Next

LEMMA LoadsEnoughNext ==
  ASSUME LogTyped, AllFresh, [SyncNext]_syncVars, NEW c \in Conn, LoadsEnough(c)
  PROVE  LoadsEnough(c)'
<1>1. Stored(c) \subseteq Stored(c)'
  BY LogStep
<1>2. CASE Accept(c)
  <2>1. /\ handler[c] = "new" /\ handler'[c] = "joining"
        /\ before'[c] = Stored(c) /\ loaded' = loaded
    BY <1>2 DEF Accept, Upgrade, LogTyped, SyncTypeOK, TypeOK
  <2> QED BY <1>1, <2>1 DEF LoadsEnough
<1>3. CASE LoadBlob(c)
  <2>1. /\ handler[c] = "joining" /\ handler' = handler
        /\ loaded'[c] = Stored(c) /\ before' = before
    BY <1>3 DEF LoadBlob, MayLoad, vars, connVars, historyVars, LogTyped, SyncTypeOK
  <2> QED BY <1>1, <2>1 DEF LoadsEnough
<1>4. ASSUME ~Accept(c), ~LoadBlob(c)
      PROVE  /\ before'[c] = before[c] /\ loaded'[c] = loaded[c]
             /\ handler'[c] = "new" <=> handler[c] = "new"
  <2>1. before'[c] = before[c] /\ loaded'[c] = loaded[c]
    <3>1. ASSUME NEW d \in Conn, Accept(d) \/ LoadBlob(d)
          PROVE  before'[c] = before[c] /\ loaded'[c] = loaded[c]
      BY <1>4, <3>1 DEF Accept, LoadBlob, historyVars, LogTyped, SyncTypeOK
    <3>2. CASE UNCHANGED <<before, loaded>>
      BY <3>2
    <3> QED BY <3>1, <3>2 DEF SyncNext, syncVars, Route, FinishJoin, Handle, Persist,
                              Compact, Rest, historyVars
  <2>2. handler'[c] = "new" <=> handler[c] = "new"
    <3>1. ASSUME NEW d \in Conn, Accept(d)
          PROVE  handler'[c] = handler[c]
      BY <1>4, <3>1 DEF Accept, Upgrade, LogTyped, SyncTypeOK, TypeOK
    <3>2. ASSUME NEW d \in Conn, FinishJoin(d) \/ Handle(d)
          PROVE  handler'[c] = "new" <=> handler[c] = "new"
      BY <3>2 DEF FinishJoin, OnJoin, StartPumps, Handle, ReadFrame, LogTyped,
                  SyncTypeOK, TypeOK
    <3>3. CASE Rest
      <4>1. \/ handler' = handler
            \/ \E d \in Conn, h \in {"leaving", "closing", "done"} :
                 handler[d] # "new" /\ handler' = [handler EXCEPT ![d] = h]
        BY <3>3 DEF Rest, HubRegister, HubUnregister, ReadError, SendUnregister,
                    CloseConn, WriteFrame, WriterReturns, Disconnect, AssignTask,
                    connVars
      <4> QED BY <4>1 DEF LogTyped, SyncTypeOK, TypeOK
    <3>4. CASE Route \/ UNCHANGED vars
      BY <3>4 DEF Route, HubBroadcast, vars, connVars
    <3> QED BY <3>1, <3>2, <3>3, <3>4 DEF SyncNext, syncVars, LoadBlob, Persist, Compact
  <2> QED BY <2>1, <2>2
<1>5. CASE ~Accept(c) /\ ~LoadBlob(c)
  BY <1>1, <1>4, <1>5 DEF LoadsEnough
<1> QED BY <1>2, <1>3, <1>5

\* A connection that is watching has been watching since it was opened.
LEMMA WatchingBack ==
  ASSUME TypeOK, AllFresh, [Next]_vars, NEW c \in Conn, Watching(c)'
  PROVE  Watching(c)
<1>1. ~panicked /\ ~closed[c]
  <2>1. panicked => panicked'
    BY DEF Next, vars, HubRegister, HubUnregister, HubBroadcast, Upgrade, OnJoin,
           ReadFrame, ReadError, SendUnregister, CloseConn, WriteFrame, WriterReturns,
           Disconnect, AssignTask
  <2>2. closed[c] => closed'[c]
    <3>1. CASE HubRegister
      BY <3>1 DEF HubRegister, CloseSend, TypeOK
    <3>2. CASE HubUnregister
      BY <3>2 DEF HubUnregister, CloseSend, TypeOK
    <3>3. CASE HubBroadcast
      BY <3>3 DEF HubBroadcast, Evict, TypeOK
    <3>4. CASE UNCHANGED closed
      BY <3>4
    <3> QED BY <3>1, <3>2, <3>3, <3>4
            DEF Next, vars, chanVars, Upgrade, OnJoin, ReadFrame, ReadError,
                SendUnregister, CloseConn, WriteFrame, WriterReturns, Disconnect,
                AssignTask
  <2> QED BY <2>1, <2>2 DEF Watching
<1>2. \/ handler[c] = "new"
      \/ handler[c] \in {"joining", "reading"} /\ conn[c] = "open"
  <2>1. ASSUME NEW d \in Conn, Upgrade(d)
        PROVE  handler[c] = "new" \/ (handler[c] \in {"joining", "reading"} /\ conn[c] = "open")
    BY <2>1 DEF Upgrade, Watching, TypeOK
  <2>2. ASSUME NEW d \in Conn,
               \/ OnJoin(d) \/ ReadFrame(d) \/ ReadError(d) \/ SendUnregister(d)
               \/ CloseConn(d) \/ WriteFrame(d) \/ WriterReturns(d) \/ Disconnect(d)
        PROVE  handler[c] = "new" \/ (handler[c] \in {"joining", "reading"} /\ conn[c] = "open")
    <3>1. \/ handler' = handler
          \/ handler' = [handler EXCEPT ![d] = "reading"] /\ handler[d] = "joining"
          \/ \E h \in {"leaked", "leaving", "closing", "done"} :
               handler' = [handler EXCEPT ![d] = h]
      BY <2>2 DEF OnJoin, StartPumps, ReadFrame, ReadError, SendUnregister, CloseConn,
                  WriteFrame, WriterReturns, Disconnect
    <3>2. conn' = conn \/ conn' = [conn EXCEPT ![d] = "down"]
      BY <2>2 DEF OnJoin, ReadFrame, ReadError, SendUnregister, CloseConn, WriteFrame,
                  WriterReturns, StopWriter, Disconnect
    <3>3. /\ handler'[c] = "new" => handler[c] = "new"
          /\ handler'[c] \in {"joining", "reading"} => handler[c] \in {"joining", "reading"}
          /\ conn'[c] = "open" => conn[c] = "open"
      BY <3>1, <3>2 DEF TypeOK
    <3> QED BY <3>3 DEF Watching
  <2>3. CASE UNCHANGED <<handler, conn>>
    BY <2>3 DEF Watching
  <2> QED BY <2>1, <2>2, <2>3 DEF Next, vars, connVars, HubRegister, HubUnregister,
                                  HubBroadcast, AssignTask
<1> QED BY <1>1, <1>2 DEF Watching

\* A diff on the live road stays on it if nothing is taken off.
LEMMA TrackedKept ==
  ASSUME NEW c \in Conn, NEW f, Tracked(c, f),
         Elems(wire[c]) \union Elems(send[c]) \subseteq Elems(wire'[c]) \union Elems(send'[c]),
         Elems(broadcastQ) \subseteq Elems(broadcastQ'),
         dropped \subseteq dropped', missed[c] \subseteq missed'[c]
  PROVE  Tracked(c, f)'
BY DEF Tracked

\* Routing sends the diff on, evicts the receiver, or finds it unregistered.
LEMMA TrackedRoute ==
  ASSUME LogTyped, Delivery, Route, NEW c \in Conn, Watching(c), Watching(c)',
         NEW f \in Due(c), Tracked(c, f)
  PROVE  Tracked(c, f)'
<1> PICK msg \in Message : msg = Head(broadcastQ)
  BY ChannelReceive DEF Route, HubBroadcast, LogTyped, SyncTypeOK, TypeOK
<1>1. /\ broadcastQ # <<>> /\ broadcastQ' = Tail(broadcastQ) /\ panicked' = panicked
      /\ UNCHANGED <<wire, handler, dropped>>
  BY DEF Route, HubBroadcast, connVars, Watching
<1>2. Elems(broadcastQ) = Elems(broadcastQ') \union {msg}
  BY <1>1, ReceiveFirst DEF LogTyped, SyncTypeOK, TypeOK
<1>3. missed[c] \subseteq missed'[c]
  BY DEF Route
<1>4. Elems(send[c]) \subseteq Elems(send'[c])
  <2>1. CASE send'[c] = send[c]
    BY <2>1
  <2>2. CASE send'[c] = Append(send[c], msg.Payload)
    <3>1. PICK p \in Payload : p = msg.Payload
      BY DEF Message, Payload
    <3>2. send[c] \in Seq(Payload)
      BY DEF LogTyped, SyncTypeOK, TypeOK
    <3>3. Elems(Append(send[c], p)) = Elems(send[c]) \union {p}
      BY <3>1, <3>2, SendLast
    <3> QED BY <2>2, <3>1, <3>3
  <2>3. \/ send' = send
        \/ send' = [d \in Conn |->
             IF d \in Receivers(msg) \ {e \in Receivers(msg) : Full(e)}
               THEN Append(send[d], msg.Payload) ELSE send[d]]
    BY DEF Route, HubBroadcast
  <2> QED BY <2>1, <2>2, <2>3
<1>5. CASE msg.Payload # f
  BY <1>1, <1>2, <1>3, <1>4, <1>5 DEF Tracked
<1>6. CASE msg.Payload = f
  <2>1. /\ f \in Diff /\ f[1] \in Conn
        /\ DocOf[f[1]] = DocOf[c] /\ UserOf[f[1]] # UserOf[c]
    BY DEF Due, Diff
  <2>2. Genuine(msg)
    BY <1>2 DEF Delivery, QueueOK
  <2>3. msg.DocID = DocOf[c] /\ msg.SenderID # UserOf[c]
    BY <1>6, <2>1, <2>2 DEF Genuine, RoomAbs!Author, RoomAbs!Place
  <2>4. CASE clients[UserOf[c]] # c
    <3>1. missed'[c] = missed[c] \union {f}
      BY <1>6, <2>3, <2>4 DEF Route, Watching
    <3> QED BY <3>1 DEF Tracked
  <2>5. CASE clients[UserOf[c]] = c
    <3>1. c \in Receivers(msg)
      BY <2>3, <2>5 DEF Receivers
    <3> DEFINE slow == {d \in Receivers(msg) : Full(d)}
    <3>2. /\ send' = [d \in Conn |-> IF d \in Receivers(msg) \ slow
                                       THEN Append(send[d], msg.Payload) ELSE send[d]]
          /\ Evict(slow)
      BY DEF Route, HubBroadcast, Watching
    <3>3. c \notin slow
      BY <3>2 DEF Evict, Watching
    <3>4. send'[c] = Append(send[c], f)
      BY <1>6, <3>1, <3>2, <3>3
    <3>5. f \in Elems(send'[c])
      <4>1. send[c] \in Seq(Payload)
        BY DEF LogTyped, SyncTypeOK, TypeOK
      <4>2. Len(send[c]) + 1 \in DOMAIN Append(send[c], f)
            /\ Append(send[c], f)[Len(send[c]) + 1] = f
        BY <4>1
      <4> QED BY <3>4, <4>2 DEF Elems
    <3> QED BY <3>5 DEF Tracked
  <2> QED BY <2>4, <2>5
<1> QED BY <1>5, <1>6

\* A new diff is offered to the hub, or found the buffer full.
LEMMA TrackedHandle ==
  ASSUME LogTyped, NEW c \in Conn, NEW d \in Conn, Handle(d),
         NEW f \in Due(c)', \A g \in Due(c) : Tracked(c, g)
  PROVE  Tracked(c, f)'
<1>1. /\ appends[d] \in Nat /\ appends' = [appends EXCEPT ![d] = @ + 1]
      /\ appends[d] < MaxFrames[d] /\ MaxFrames[d] \in Nat
      /\ UNCHANGED <<wire, send, missed>>
  BY HubAssumption DEF Handle, ReadFrame, HandleUpdate, LogTyped, SyncTypeOK, TypeOK
<1>2. appends'[d] = appends[d] + 1 /\ \A e \in Conn : e # d => appends'[e] = appends[e]
  BY <1>1 DEF LogTyped, SyncTypeOK, TypeOK
<1>3. PICK g : g = <<d, appends'[d]>>
  OBVIOUS
<1>4. PICK m \in Message : /\ m = [SenderID |-> UserOf[d], DocID |-> DocOf[d], Payload |-> g]
                           /\ m.Payload = g
  <2>1. g \in Frame /\ UserOf[d] \in User /\ DocOf[d] \in Doc
    BY <1>1, <1>2, <1>3, HubAssumption DEF Frame
  <2>2. [SenderID |-> UserOf[d], DocID |-> DocOf[d], Payload |-> g] \in Message
    BY <2>1 DEF Message
  <2> QED BY <2>2
<1>5. Offer(m)
  BY <1>2, <1>3, <1>4 DEF Handle, ReadFrame, HandleUpdate
<1>6. dropped' = IF broadcastQ' = broadcastQ THEN dropped \union {g} ELSE dropped
  BY <1>3 DEF Handle
<1>7. CASE broadcastQ' = broadcastQ
  <2>1. f \in Due(c) \/ f = g
    BY <1>1, <1>2, <1>3 DEF Due, Handled, Diff
  <2> QED BY <1>1, <1>6, <1>7, <2>1 DEF Tracked
<1>8. CASE broadcastQ' = Append(broadcastQ, m) /\ dropped' = dropped
  <2>1. f \in Due(c) \/ f = g
    BY <1>1, <1>2, <1>3 DEF Due, Handled, Diff
  <2>2. Elems(broadcastQ') = Elems(broadcastQ) \union {m}
    BY <1>8, SendLast DEF LogTyped, SyncTypeOK, TypeOK
  <2> QED BY <1>1, <1>4, <1>8, <2>1, <2>2 DEF Tracked
<1> QED BY <1>5, <1>6, <1>7, <1>8 DEF Offer

LEMMA TrackedNext ==
  ASSUME LogTyped, Delivery, AllFresh, [SyncNext]_syncVars,
         NEW c \in Conn, Watching(c)',
         Watching(c) => \A f \in Due(c) : Tracked(c, f)
  PROVE  \A f \in Due(c)' : Tracked(c, f)'
<1>1. Watching(c)
  BY StepOfHub, WatchingBack DEF LogTyped, SyncTypeOK
<1>2. \A f \in Due(c) : Tracked(c, f)
  BY <1>1
<1>3. ASSUME NEW d \in Conn, Handle(d), NEW f \in Due(c)'
      PROVE  Tracked(c, f)'
  BY <1>2, <1>3, TrackedHandle
<1>4. ASSUME ~\E d \in Conn : Handle(d)
      PROVE  Due(c)' = Due(c)
  <2>1. appends' = appends
    BY <1>4 DEF SyncNext, syncVars, vars, connVars, Route, HubBroadcast, Accept,
                Upgrade, LoadBlob, FinishJoin, OnJoin, Persist, Compact, Rest,
                HubRegister, HubUnregister, ReadError, SendUnregister, CloseConn,
                WriteFrame, WriterReturns, Disconnect, AssignTask
  <2> QED BY <2>1 DEF Due, Handled
<1>5. CASE Route
  <2>1. appends' = appends
    BY <1>5 DEF Route, HubBroadcast, connVars
  <2>2. Due(c)' = Due(c)
    BY <2>1 DEF Due, Handled
  <2> QED BY <1>1, <1>2, <1>5, <2>2, TrackedRoute
<1>6. ASSUME NEW f \in Due(c), [SyncNext]_syncVars,
             ~Route, ~\E d \in Conn : Handle(d)
      PROVE  Tracked(c, f)'
  <2>1. UNCHANGED <<dropped, missed>>
    BY <1>6 DEF SyncNext, syncVars, historyVars, Accept, LoadBlob, FinishJoin, Persist,
                Compact, Rest
  <2>2. ASSUME NEW d \in Conn, WriteFrame(d)
        PROVE  Tracked(c, f)'
    <3>1. /\ writer[d] = "running" /\ send[d] # <<>>
          /\ send' = [send EXCEPT ![d] = Tail(@)]
          /\ wire' = IF conn[d] = "open"
                       THEN [wire EXCEPT ![d] = Append(@, Head(send[d]))] ELSE wire
          /\ broadcastQ' = broadcastQ
      BY <2>2 DEF WriteFrame
    <3>2. CASE d # c
      <4>1. send'[c] = send[c] /\ wire'[c] = wire[c]
        BY <3>1, <3>2 DEF LogTyped, SyncTypeOK, TypeOK
      <4> QED BY <1>2, <2>1, <3>1, <4>1, TrackedKept
    <3>3. CASE d = c
      <4>1. conn[c] = "open"
        BY <1>1, <3>1, <3>3 DEF AllFresh, Fresh, Watching
      <4>2. PICK p \in Payload : p = Head(send[c])
        BY <3>1, <3>3, ChannelReceive DEF LogTyped, SyncTypeOK, TypeOK
      <4>3. send'[c] = Tail(send[c]) /\ wire'[c] = Append(wire[c], p)
        BY <3>1, <3>3, <4>1, <4>2 DEF LogTyped, SyncTypeOK, TypeOK
      <4>4. Elems(send[c]) = Elems(send'[c]) \union {p}
        BY <3>1, <3>3, <4>2, <4>3, ReceiveFirst DEF LogTyped, SyncTypeOK, TypeOK
      <4>5. Elems(wire'[c]) = Elems(wire[c]) \union {p}
        BY <4>3, SendLast DEF LogTyped, SyncTypeOK, TypeOK
      <4> QED BY <1>2, <2>1, <3>1, <4>4, <4>5, TrackedKept
    <3> QED BY <3>2, <3>3
  <2>3. ASSUME NEW d \in Conn, FinishJoin(d)
        PROVE  Tracked(c, f)'
    <3>1. /\ send' = send \/ send' = [send EXCEPT ![d] = Append(@, Blob)]
          /\ UNCHANGED <<wire, broadcastQ>>
      BY <2>3 DEF FinishJoin, OnJoin
    <3>2. Elems(send[c]) \subseteq Elems(send'[c])
      <4>1. send[c] \in Seq(Payload) /\ Blob \in Payload
        BY DEF LogTyped, SyncTypeOK, TypeOK, Payload
      <4>2. send'[c] = send[c] \/ send'[c] = Append(send[c], Blob)
        BY <3>1 DEF LogTyped, SyncTypeOK, TypeOK
      <4>3. Elems(Append(send[c], Blob)) = Elems(send[c]) \union {Blob}
        BY <4>1, SendLast
      <4> QED BY <4>2, <4>3
    <3> QED BY <1>2, <2>1, <3>1, <3>2, TrackedKept
  <2>4. ASSUME NEW u \in User, NEW d \in Doc, AssignTask(u, d)
        PROVE  Tracked(c, f)'
    <3>1. PICK s \in User \X Doc : s = <<u, d>>
      OBVIOUS
    <3>2. PICK k \in Nat : k = tasks[s] + 1
      BY DEF LogTyped, SyncTypeOK, TypeOK
    <3>3. PICK m \in Message : m = [SenderID |-> u, DocID |-> d, Payload |-> <<s, k>>]
      BY DEF Message, Frame
    <3>4. UNCHANGED <<wire, send>> /\ Offer(m)
      BY <2>4, <3>1, <3>2, <3>3 DEF AssignTask, connVars
    <3>5. Elems(broadcastQ) \subseteq Elems(broadcastQ')
      BY <3>4, SendLast DEF Offer, LogTyped, SyncTypeOK, TypeOK
    <3> QED BY <1>2, <2>1, <3>4, <3>5, TrackedKept
  <2>5. CASE UNCHANGED <<wire, send, broadcastQ>>
    BY <1>2, <2>1, <2>5, TrackedKept
  <2> QED BY <1>6, <2>2, <2>3, <2>4, <2>5
          DEF SyncNext, syncVars, vars, chanVars, connVars, Accept, Upgrade, LoadBlob,
              Persist, Compact, Rest, HubRegister, HubUnregister, ReadError,
              SendUnregister, CloseConn, WriterReturns, Disconnect
<1> QED BY <1>2, <1>3, <1>4, <1>5, <1>6

Inductive == LogTyped /\ Delivery /\ AllFresh /\ RoadsMeet

LEMMA RoadsInit == SyncInit => Inductive
<1> SUFFICES ASSUME SyncInit PROVE Inductive
  OBVIOUS
<1>1. LogTyped /\ Delivery /\ AllFresh
  BY LogTypedInit, DeliveryInit, FreshInit DEF SyncInit
<1>2. ASSUME NEW c \in Conn
      PROVE  Roads(c)
  <2>1. LoadsEnough(c)
    BY DEF SyncInit, Init, LoadsEnough
  <2>2. Due(c) = {}
    <3>1. \A f \in Diff : f[1] \in Conn /\ f[2] > 0 /\ f[2] \in Nat
      BY HubAssumption DEF Diff
    <3>2. \A d \in Conn : appends[d] = 0
      BY DEF SyncInit, Init
    <3>3. \A f \in Diff : ~Handled(f)
      BY <3>1, <3>2 DEF Handled
    <3> QED BY <3>3 DEF Due
  <2> QED BY <1>1, <2>1, <2>2 DEF AllFresh, Roads
<1> QED BY <1>1, <1>2 DEF Inductive, RoadsMeet

LEMMA RoadsNext == Inductive /\ [SyncNext]_syncVars => Inductive'
<1> SUFFICES ASSUME Inductive, [SyncNext]_syncVars PROVE Inductive'
  OBVIOUS
<1>1. LogTyped' /\ Delivery' /\ AllFresh'
  BY StepOfHub, LogTypedNext, DeliveryNext, FreshNext DEF Inductive, LogTyped, SyncTypeOK
<1>2. ASSUME NEW c \in Conn
      PROVE  Roads(c)'
  <2>1. Roads(c)
    BY DEF Inductive, RoadsMeet
  <2>2. LoadsEnough(c)'
    BY <2>1, LoadsEnoughNext DEF Inductive, Roads
  <2>3. Watching(c)' => \A f \in Due(c)' : Tracked(c, f)'
    BY <2>1, TrackedNext DEF Inductive, Roads
  <2>4. Fresh(c)'
    BY <1>1 DEF AllFresh
  <2> QED BY <2>2, <2>3, <2>4 DEF Roads
<1> QED BY <1>1, <1>2 DEF Inductive, RoadsMeet

\* A healthy browser has, or will get live, every diff of its document, except
\* those the full Broadcast buffer dropped, and among those routed before the
\* hub knew the browser the ones merged after it connected, or all of them if
\* its OnJoin could not read the document.
THEOREM GapsExplained == SyncSpec => []GapsAreExplained
<1>1. Inductive => GapsAreExplained
  <2> SUFFICES ASSUME Inductive, NEW c \in Conn, Established(c), NEW f \in Due(c),
                      ~(loaded[c] # NotLoaded /\ f \in loaded[c])
               PROVE  \/ Carries(wire[c], f) \/ Carries(send[c], f) \/ Queued(f)
                      \/ f \in dropped
                      \/ f \in missed[c] /\ (f \notin before[c] \/ loaded[c] = NotLoaded)
    BY DEF GapsAreExplained
  <2>1. Watching(c)
    BY DEF Established, Watching
  <2>2. Tracked(c, f)
    BY <2>1 DEF Inductive, RoadsMeet, Roads
  <2>3. loaded[c] = NotLoaded \/ f \notin before[c]
    BY DEF Inductive, RoadsMeet, Roads, LoadsEnough
  <2> QED BY <2>2, <2>3 DEF Tracked, Elems, Carries, Queued
<1> QED BY <1>1, RoadsInit, RoadsNext, PTL DEF SyncSpec
=============================================================================
