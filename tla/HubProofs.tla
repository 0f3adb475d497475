------------------------------ MODULE HubProofs ------------------------------
(***************************************************************************)
(* Theorems about Hub, for every set of users, documents and connections   *)
(* and every channel capacity.                                             *)
(***************************************************************************)
EXTENDS Hub, TLAPS

-----------------------------------------------------------------------------
(* A Go channel as a sequence: what a send and a receive do to it.         *)

\* A send adds exactly the sent element; it stays free of duplicates if the
\* element was not buffered before.
LEMMA ChannelSend ==
  ASSUME NEW S, NEW q \in Seq(S), NEW e \in S
  PROVE  /\ Append(q, e) \in Seq(S)
         /\ Len(Append(q, e)) = Len(q) + 1
         /\ \A c : InQueue(c, Append(q, e)) <=> InQueue(c, q) \/ c = e
         /\ NoDup(q) /\ ~InQueue(e, q) => NoDup(Append(q, e))
<1>1. /\ Append(q, e) \in Seq(S)
      /\ Len(Append(q, e)) = Len(q) + 1
      /\ DOMAIN Append(q, e) = 1 .. Len(q) + 1
      /\ DOMAIN q = 1 .. Len(q)
      /\ \A i \in 1 .. Len(q) : Append(q, e)[i] = q[i]
      /\ Append(q, e)[Len(q) + 1] = e
      /\ Len(q) \in Nat
  OBVIOUS
<1>2. ASSUME NEW c
      PROVE  InQueue(c, Append(q, e)) <=> InQueue(c, q) \/ c = e
  BY <1>1 DEF InQueue
<1>3. NoDup(q) /\ ~InQueue(e, q) => NoDup(Append(q, e))
  BY <1>1 DEF NoDup, InQueue
<1> QED BY <1>1, <1>2, <1>3

\* A receive takes the oldest element away and keeps the others.
LEMMA ChannelReceive ==
  ASSUME NEW S, NEW q \in Seq(S), q # <<>>
  PROVE  /\ Head(q) \in S
         /\ Tail(q) \in Seq(S)
         /\ Len(Tail(q)) <= Len(q)
         /\ InQueue(Head(q), q)
         /\ \A c : InQueue(c, Tail(q)) => InQueue(c, q)
         /\ \A c : InQueue(c, q) => c = Head(q) \/ InQueue(c, Tail(q))
         /\ NoDup(q) => NoDup(Tail(q)) /\ ~InQueue(Head(q), Tail(q))
<1>1. /\ Len(q) \in Nat \ {0}
      /\ Head(q) = q[1]
      /\ Head(q) \in S
      /\ Tail(q) \in Seq(S)
      /\ Len(Tail(q)) = Len(q) - 1
      /\ DOMAIN q = 1 .. Len(q)
      /\ DOMAIN Tail(q) = 1 .. Len(q) - 1
      /\ \A i \in 1 .. Len(q) - 1 : Tail(q)[i] = q[i + 1]
  OBVIOUS
<1>2. InQueue(Head(q), q)
  BY <1>1 DEF InQueue
<1>3. ASSUME NEW c, InQueue(c, Tail(q))
      PROVE  InQueue(c, q)
  <2>1. PICK i \in 1 .. Len(q) - 1 : Tail(q)[i] = c
    BY <1>1, <1>3 DEF InQueue
  <2>2. i + 1 \in 1 .. Len(q) /\ q[i + 1] = c
    BY <1>1, <2>1
  <2> QED BY <1>1, <2>2 DEF InQueue
<1>4. ASSUME NEW c, InQueue(c, q), c # Head(q)
      PROVE  InQueue(c, Tail(q))
  <2>1. PICK i \in 1 .. Len(q) : q[i] = c
    BY <1>1, <1>4 DEF InQueue
  <2>2. i - 1 \in 1 .. Len(q) - 1 /\ Tail(q)[i - 1] = c
    BY <1>1, <1>4, <2>1
  <2> QED BY <1>1, <2>2 DEF InQueue
<1>5. ASSUME NoDup(q)
      PROVE  NoDup(Tail(q)) /\ ~InQueue(Head(q), Tail(q))
  <2>1. \A i, j \in 1 .. Len(q) : q[i] = q[j] => i = j
    BY <1>1, <1>5 DEF NoDup
  <2>2. ASSUME NEW i \in 1 .. Len(q) - 1, NEW j \in 1 .. Len(q) - 1,
               Tail(q)[i] = Tail(q)[j]
        PROVE  i = j
    <3>1. i + 1 \in 1 .. Len(q) /\ j + 1 \in 1 .. Len(q) /\ q[i + 1] = q[j + 1]
      BY <1>1, <2>2
    <3>2. i + 1 = j + 1
      BY <2>1, <3>1
    <3> QED BY <3>2
  <2>3. ASSUME NEW i \in 1 .. Len(q) - 1
        PROVE  Tail(q)[i] # Head(q)
    <3>1. i + 1 \in 1 .. Len(q) /\ 1 \in 1 .. Len(q) /\ i + 1 # 1
      BY <1>1
    <3> QED BY <1>1, <2>1, <3>1
  <2> QED BY <1>1, <2>2, <2>3 DEF NoDup, InQueue
<1> QED BY <1>1, <1>2, <1>3, <1>4, <1>5

-----------------------------------------------------------------------------
(* Types.                                                                   *)

LEMMA TypeInit == Init => TypeOK
<1> SUFFICES ASSUME Init PROVE TypeOK
  OBVIOUS
<1>1. \A S : <<>> \in Seq(S) /\ Len(<<>>) = 0
  OBVIOUS
<1>2. /\ registerQ \in Seq(Conn) /\ Len(registerQ) <= RegisterCap
      /\ unregisterQ \in Seq(Conn) /\ Len(unregisterQ) <= UnregisterCap
      /\ broadcastQ \in Seq(Message) /\ Len(broadcastQ) <= BroadcastCap
  BY <1>1, HubAssumption DEF Init
<1>3. /\ send \in [Conn -> Seq(Payload)] /\ \A c \in Conn : Len(send[c]) <= SendCap
      /\ wire \in [Conn -> Seq(Payload)]
  BY <1>1, HubAssumption DEF Init
<1> QED BY <1>2, <1>3, HubAssumption DEF Init, TypeOK

LEMMA TypeNext == TypeOK /\ [Next]_vars => TypeOK'
<1> SUFFICES ASSUME TypeOK, [Next]_vars
             PROVE  TypeOK'
  OBVIOUS
<1> USE HubAssumption DEF TypeOK
<1>1. CASE HubRegister
  <2>1. /\ Head(registerQ) \in Conn /\ Tail(registerQ) \in Seq(Conn)
        /\ Len(Tail(registerQ)) <= RegisterCap
    BY <1>1, ChannelReceive DEF HubRegister
  <2>2. clients' = [clients EXCEPT ![UserOf[Head(registerQ)]] = Head(registerQ)]
    BY <1>1 DEF HubRegister
  <2>3. closed' \in [Conn -> BOOLEAN] /\ panicked' \in BOOLEAN
    BY <1>1 DEF HubRegister, CloseSend
  <2>4. /\ clients' \in [User -> Conn \union {None}]
        /\ \A u \in User : clients'[u] # None => UserOf[clients'[u]] = u
    BY <2>1, <2>2
  <2>5. /\ registerQ' = Tail(registerQ)
        /\ UNCHANGED <<unregisterQ, broadcastQ, send, connVars, tasks>>
    BY <1>1 DEF HubRegister
  <2> QED BY <2>1, <2>3, <2>4, <2>5 DEF connVars
<1>2. CASE HubUnregister
  <2>1. /\ Head(unregisterQ) \in Conn /\ Tail(unregisterQ) \in Seq(Conn)
        /\ Len(Tail(unregisterQ)) <= UnregisterCap
    BY <1>2, ChannelReceive DEF HubUnregister
  <2>2. \/ clients' = clients
        \/ clients' = [clients EXCEPT ![UserOf[Head(unregisterQ)]] = None]
    BY <1>2 DEF HubUnregister
  <2>3. closed' \in [Conn -> BOOLEAN] /\ panicked' \in BOOLEAN
    BY <1>2 DEF HubUnregister, CloseSend
  <2>4. /\ clients' \in [User -> Conn \union {None}]
        /\ \A u \in User : clients'[u] # None => UserOf[clients'[u]] = u
    BY <2>1, <2>2
  <2>5. /\ unregisterQ' = Tail(unregisterQ)
        /\ UNCHANGED <<registerQ, broadcastQ, send, connVars, tasks>>
    BY <1>2 DEF HubUnregister
  <2> QED BY <2>1, <2>3, <2>4, <2>5 DEF connVars
<1>3. CASE HubBroadcast
  <2>1. /\ Head(broadcastQ) \in Message /\ Tail(broadcastQ) \in Seq(Message)
        /\ Len(Tail(broadcastQ)) <= BroadcastCap
    BY <1>3, ChannelReceive DEF HubBroadcast
  <2> DEFINE msg == Head(broadcastQ)
             slow == {c \in Receivers(msg) : Full(c)}
  <2>2. CASE UNCHANGED <<clients, send, closed>> /\ panicked' = TRUE
    BY <1>3, <2>1, <2>2 DEF HubBroadcast, connVars
  <2>3. CASE /\ send' = [c \in Conn |-> IF c \in Receivers(msg) \ slow
                                         THEN Append(send[c], msg.Payload) ELSE send[c]]
             /\ Evict(slow)
             /\ UNCHANGED panicked
    <3>1. ASSUME NEW c \in Conn
          PROVE  send'[c] \in Seq(Payload) /\ Len(send'[c]) <= SendCap
      <4>1. msg.Payload \in Payload
        BY <2>1 DEF Message, Payload
      <4>2. send[c] \in Seq(Payload) /\ Len(send[c]) <= SendCap
        OBVIOUS
      <4>3. CASE c \in Receivers(msg) \ slow
        <5>1. Len(send[c]) < SendCap
          BY <4>2, <4>3 DEF Full
        <5> QED BY <2>3, <4>1, <4>2, <4>3, <5>1
      <4>4. CASE c \notin Receivers(msg) \ slow
        BY <2>3, <4>2, <4>4
      <4> QED BY <4>3, <4>4
    <3>2. closed' \in [Conn -> BOOLEAN]
      BY <2>3 DEF Evict
    <3>3. /\ clients' \in [User -> Conn \union {None}]
          /\ \A u \in User : clients'[u] # None => UserOf[clients'[u]] = u
      BY <2>3 DEF Evict
    <3>4. send' \in [Conn -> Seq(Payload)] /\ \A c \in Conn : Len(send'[c]) <= SendCap
      BY <2>3, <3>1
    <3> QED BY <1>3, <2>1, <2>3, <3>2, <3>3, <3>4 DEF HubBroadcast, connVars
  <2> QED BY <1>3, <2>2, <2>3 DEF HubBroadcast
<1>4. ASSUME NEW c \in Conn, Upgrade(c)
      PROVE  TypeOK'
  <2>1. /\ Append(registerQ, c) \in Seq(Conn)
        /\ Len(Append(registerQ, c)) <= RegisterCap
    BY <1>4, ChannelSend DEF Upgrade
  <2>2. overlapped' \in BOOLEAN
    BY <1>4 DEF Upgrade
  <2> QED BY <1>4, <2>1, <2>2 DEF Upgrade
<1>5. ASSUME NEW c \in Conn, OnJoin(c)
      PROVE  TypeOK'
  <2>1. /\ send' \in [Conn -> Seq(Payload)]
        /\ \A d \in Conn : Len(send'[d]) <= SendCap
    <3>1. CASE UNCHANGED send
      BY <3>1
    <3>2. CASE /\ ~Full(c)
               /\ send' = [send EXCEPT ![c] = Append(@, Blob)]
      <4>1. send[c] \in Seq(Payload) /\ Blob \in Payload
        BY DEF Payload
      <4>2. /\ Append(send[c], Blob) \in Seq(Payload)
            /\ Len(Append(send[c], Blob)) <= SendCap
        BY <3>2, <4>1, ChannelSend DEF Full
      <4> QED BY <3>2, <4>2
    <3> QED BY <1>5, <3>1, <3>2 DEF OnJoin
  <2>2. /\ handler' \in [Conn -> {"new", "joining", "reading", "leaving", "closing",
                                   "done", "leaked"}]
        /\ writer' \in [Conn -> {"none", "running", "done"}]
    BY <1>5 DEF OnJoin, StartPumps
  <2> QED BY <1>5, <2>1, <2>2 DEF OnJoin
<1>6. ASSUME NEW m \in Message, Offer(m)
      PROVE  broadcastQ' \in Seq(Message) /\ Len(broadcastQ') <= BroadcastCap
  BY <1>6, ChannelSend DEF Offer
<1>7. ASSUME NEW c \in Conn, ReadFrame(c)
      PROVE  TypeOK'
  <2> DEFINE f == <<c, appends[c] + 1>>
             m == [SenderID |-> UserOf[c], DocID |-> DocOf[c], Payload |-> f]
  <2>1. m \in Message
    BY DEF Message, Frame
  <2>2. Offer(m)
    BY <1>7 DEF ReadFrame, HandleUpdate
  <2>3. broadcastQ' \in Seq(Message) /\ Len(broadcastQ') <= BroadcastCap
    BY <1>6, <2>1, <2>2
  <2>4. appends' \in [Conn -> Nat] /\ edits' \in [Doc -> [User -> Nat]]
    <3>1. /\ appends' = [appends EXCEPT ![c] = @ + 1]
          /\ edits' = [edits EXCEPT ![DocOf[c]][UserOf[c]] = @ + 1]
      BY <1>7 DEF ReadFrame, HandleUpdate
    <3>2. DocOf[c] \in Doc /\ UserOf[c] \in User
      OBVIOUS
    <3>3. edits[DocOf[c]] \in [User -> Nat]
      BY <3>2
    <3> DEFINE row == [edits[DocOf[c]] EXCEPT ![UserOf[c]] = edits[DocOf[c]][UserOf[c]] + 1]
    <3>4. row \in [User -> Nat]
      BY <3>2, <3>3
    <3>5. edits' = [edits EXCEPT ![DocOf[c]] = row]
      BY <3>1, Zenon
    <3>6. appends' \in [Conn -> Nat]
      <4>1. PICK n \in Nat : n = appends[c]
        OBVIOUS
      <4>2. n + 1 \in Nat /\ appends' = [appends EXCEPT ![c] = n + 1]
        BY <3>1, <4>1
      <4> QED BY <4>2
    <3> HIDE DEF row
    <3> QED BY <3>4, <3>5, <3>6
  <2>5. UNCHANGED <<clients, registerQ, unregisterQ, send, closed, handler, writer,
                    conn, wire, tasks, panicked, overlapped>>
    BY <1>7 DEF ReadFrame
  <2> QED BY <2>3, <2>4, <2>5
<1>8. ASSUME NEW c \in Conn, ReadError(c) \/ CloseConn(c) \/ Disconnect(c)
      PROVE  TypeOK'
  <2>1. CASE ReadError(c)
    BY <2>1 DEF ReadError, chanVars
  <2>2. CASE CloseConn(c)
    BY <2>2 DEF CloseConn, chanVars
  <2>3. CASE Disconnect(c)
    BY <2>3 DEF Disconnect, chanVars
  <2> QED BY <1>8, <2>1, <2>2, <2>3
<1>9. ASSUME NEW c \in Conn, SendUnregister(c)
      PROVE  TypeOK'
  <2>1. /\ Append(unregisterQ, c) \in Seq(Conn)
        /\ Len(Append(unregisterQ, c)) <= UnregisterCap
    BY <1>9, ChannelSend DEF SendUnregister
  <2> QED BY <1>9, <2>1 DEF SendUnregister
<1>10. ASSUME NEW c \in Conn, WriteFrame(c)
       PROVE  TypeOK'
  <2>1. /\ Head(send[c]) \in Payload /\ Tail(send[c]) \in Seq(Payload)
        /\ Len(Tail(send[c])) <= SendCap
    BY <1>10, ChannelReceive DEF WriteFrame
  <2>2. Append(wire[c], Head(send[c])) \in Seq(Payload)
    BY <2>1
  <2> QED BY <1>10, <2>1, <2>2 DEF WriteFrame
<1>11. ASSUME NEW c \in Conn, WriterReturns(c)
       PROVE  TypeOK'
  BY <1>11 DEF WriterReturns, StopWriter, chanVars
<1>12. ASSUME NEW u \in User, NEW d \in Doc, AssignTask(u, d)
       PROVE  TypeOK'
  <2> DEFINE f == <<<<u, d>>, tasks[<<u, d>>] + 1>>
             m == [SenderID |-> u, DocID |-> d, Payload |-> f]
  <2>1. m \in Message
    BY DEF Message, Frame
  <2>2. Offer(m)
    BY <1>12 DEF AssignTask
  <2>3. broadcastQ' \in Seq(Message) /\ Len(broadcastQ') <= BroadcastCap
    BY <1>6, <2>1, <2>2
  <2>4. tasks' \in [User \X Doc -> Nat]
    BY <1>12 DEF AssignTask
  <2> QED BY <1>12, <2>3, <2>4 DEF AssignTask, connVars
<1>13. CASE UNCHANGED vars
  BY <1>13 DEF vars, chanVars, connVars
<1> QED BY <1>1, <1>2, <1>3, <1>4, <1>5, <1>7, <1>8, <1>9, <1>10, <1>11, <1>12,
           <1>13 DEF Next

\* Every variable keeps its type and no channel ever exceeds its capacity.
THEOREM TypeCorrect == Spec => []TypeOK
  BY TypeInit, TypeNext, PTL DEF Spec

-----------------------------------------------------------------------------
(* The discipline the hub depends on, kept while no connections overlap.    *)

\* Steps that leave the registry, the request channels and the closed flags
\* alone and move handlers only forward.
LEMMA OrderlyForward ==
  ASSUME Orderly,
         UNCHANGED <<clients, registerQ, unregisterQ, closed, panicked>>,
         \A c \in Conn :
           /\ handler'[c] = "new" => handler[c] = "new"
           /\ handler'[c] \in {"joining", "reading"} =>
                handler[c] \in {"joining", "reading"}
           /\ handler'[c] \in {"joining", "reading", "leaving"} =>
                handler[c] \in {"joining", "reading", "leaving"}
  PROVE  Orderly'
<1>1. \A c \in Conn : Held(c)' => Held(c)
  BY DEF Held, InQueue
<1>2. OneHeldPerUser'
  BY <1>1 DEF Orderly, OneHeldPerUser
<1>3. ASSUME NEW c \in Conn
      PROVE  ConnOK(c)'
  <2>1. ConnOK(c)
    BY DEF Orderly
  <2>2. InQueue(c, registerQ') <=> InQueue(c, registerQ)
    OBVIOUS
  <2>3. InQueue(c, unregisterQ') <=> InQueue(c, unregisterQ)
    OBVIOUS
  <2> QED BY <1>1, <2>1, <2>2, <2>3 DEF ConnOK
<1> QED BY <1>2, <1>3 DEF Orderly, NoDup

\* The next client to register has no predecessor in the map, so nothing is
\* closed.
LEMMA OrderlyRegister ==
  ASSUME TypeOK, Orderly, HubRegister
  PROVE  Orderly'
<1> DEFINE c == Head(registerQ)
<1>1. /\ c \in Conn
      /\ InQueue(c, registerQ)
      /\ ~InQueue(c, Tail(registerQ))
      /\ NoDup(Tail(registerQ))
      /\ \A d : InQueue(d, Tail(registerQ)) => InQueue(d, registerQ)
      /\ \A d : InQueue(d, registerQ) => d = c \/ InQueue(d, Tail(registerQ))
  BY ChannelReceive DEF HubRegister, TypeOK, Orderly
<1> HIDE DEF c
<1>2. /\ clients[UserOf[c]] = None
      /\ ~closed[c]
      /\ Held(c)
  BY <1>1 DEF Orderly, ConnOK, Held
<1>3. /\ UNCHANGED <<closed, panicked, unregisterQ, handler>>
      /\ clients' = [clients EXCEPT ![UserOf[c]] = c]
      /\ registerQ' = Tail(registerQ)
  BY <1>2 DEF HubRegister, c, connVars
<1>4. UserOf[c] \in User /\ c # None
  BY <1>1, HubAssumption
<1>5. ASSUME NEW d \in Conn, Held(d)'
      PROVE  Held(d)
  <2>1. CASE d = c
    BY <1>2, <2>1
  <2>2. CASE d # c
    <3>1. UserOf[d] \in User
      BY HubAssumption
    <3>2. clients'[UserOf[d]] = d => clients[UserOf[d]] = d
      BY <1>3, <1>4, <2>2, <3>1 DEF TypeOK
    <3> QED BY <1>1, <1>3, <1>5, <3>2 DEF Held
  <2> QED BY <2>1, <2>2
<1>6. OneHeldPerUser'
  BY <1>5 DEF Orderly, OneHeldPerUser
<1>7. ASSUME NEW d \in Conn
      PROVE  ConnOK(d)'
  <2>1. ConnOK(d)
    BY DEF Orderly
  <2>2. UserOf[d] \in User
    BY HubAssumption
  <2>3. CASE d = c
    <3>1. clients'[UserOf[d]] = c
      BY <1>3, <1>4, <2>3 DEF TypeOK
    <3> QED BY <1>1, <1>2, <1>3, <2>1, <2>3, <3>1 DEF ConnOK, Held
  <2>4. CASE d # c
    <3>1. InQueue(d, registerQ') <=> InQueue(d, registerQ)
      BY <1>1, <1>3, <2>4
    <3>2. InQueue(d, registerQ) => UserOf[d] # UserOf[c]
      BY <1>2, <2>4, <1>1 DEF Orderly, OneHeldPerUser, Held
    <3>3. UserOf[d] # UserOf[c] => clients'[UserOf[d]] = clients[UserOf[d]]
      BY <1>3, <2>2 DEF TypeOK
    <3>4. clients[UserOf[d]] = d => UserOf[d] # UserOf[c]
      BY <1>2, <1>4, <2>4, HubAssumption
    <3>5. clients'[UserOf[d]] = d <=> clients[UserOf[d]] = d
      BY <1>3, <1>4, <2>2, <2>4, <3>3, <3>4 DEF TypeOK
    <3>6. Held(d)' => Held(d)
      BY <1>5
    <3> QED BY <1>3, <2>1, <3>1, <3>2, <3>3, <3>5, <3>6 DEF ConnOK
  <2> QED BY <2>3, <2>4
<1> QED BY <1>1, <1>3, <1>6, <1>7 DEF Orderly, NoDup

\* The entry an Unregister request finds is the requester's own, and open.
LEMMA OrderlyUnregister ==
  ASSUME TypeOK, Orderly, HubUnregister
  PROVE  Orderly'
<1> DEFINE c == Head(unregisterQ)
<1>1. /\ c \in Conn
      /\ InQueue(c, unregisterQ)
      /\ ~InQueue(c, Tail(unregisterQ))
      /\ NoDup(Tail(unregisterQ))
      /\ \A d : InQueue(d, Tail(unregisterQ)) => InQueue(d, unregisterQ)
  BY ChannelReceive DEF HubUnregister, TypeOK, Orderly
<1>2. /\ unregisterQ' = Tail(unregisterQ)
      /\ UNCHANGED <<registerQ, handler>>
  BY DEF HubUnregister, connVars
<1>3. CASE clients[UserOf[c]] = None
  <2>1. UNCHANGED <<clients, closed, panicked>>
    BY <1>3 DEF HubUnregister
  <2>2. \A d \in Conn : Held(d)' => Held(d)
    BY <1>1, <1>2, <2>1 DEF Held
  <2>3. OneHeldPerUser'
    BY <2>2 DEF Orderly, OneHeldPerUser
  <2>4. \A d \in Conn : ConnOK(d)'
    BY <1>1, <1>2, <2>1, <2>2 DEF Orderly, ConnOK
  <2> QED BY <1>1, <1>2, <2>1, <2>3, <2>4 DEF Orderly, NoDup
<1>4. CASE clients[UserOf[c]] # None
  <2>1. UserOf[c] \in User /\ None \notin Conn
    BY <1>1, HubAssumption
  <2>2. clients[UserOf[c]] = c
    <3> DEFINE x == clients[UserOf[c]]
    <3>1. x \in Conn /\ UserOf[x] = UserOf[c]
      BY <1>4, <2>1 DEF TypeOK
    <3>2. Held(x) /\ Held(c)
      BY <1>1, <3>1 DEF Held
    <3> QED BY <1>1, <3>1, <3>2 DEF Orderly, OneHeldPerUser
  <2>3. ~closed[c] /\ handler[c] # "new" /\ ~InQueue(c, registerQ)
    BY <1>1, <1>4, <2>2 DEF Orderly, ConnOK, Held
  <2>4. /\ clients' = [clients EXCEPT ![UserOf[c]] = None]
        /\ closed' = [closed EXCEPT ![c] = TRUE]
        /\ UNCHANGED panicked
    BY <1>4, <2>3 DEF HubUnregister, CloseSend, c
  <2> HIDE DEF c
  <2>5. ASSUME NEW d \in Conn
        PROVE  /\ clients'[UserOf[d]] = d => clients[UserOf[d]] = d /\ d # c
               /\ d # c => closed'[d] = closed[d]
               /\ d # c /\ clients[UserOf[d]] = d => clients'[UserOf[d]] = d
               /\ clients[UserOf[d]] = None => clients'[UserOf[d]] = None
    <3>1. UserOf[d] \in User
      BY HubAssumption
    <3>2. clients[UserOf[d]] = d /\ d # c => UserOf[d] # UserOf[c]
      BY <2>2
    <3> QED BY <1>1, <2>1, <2>2, <2>4, <3>1, <3>2 DEF TypeOK
  <2>6. \A d \in Conn : Held(d)' => Held(d)
    BY <1>1, <1>2, <2>5 DEF Held
  <2>7. OneHeldPerUser'
    BY <2>6 DEF Orderly, OneHeldPerUser
  <2>8. ASSUME NEW d \in Conn
        PROVE  ConnOK(d)'
    <3>1. ConnOK(d)
      BY DEF Orderly
    <3>2. CASE d = c
      <4>1. closed'[c] = TRUE
        BY <1>1, <2>4 DEF TypeOK
      <4>2. clients'[UserOf[c]] # c
        BY <1>1, <2>5
      <4>3. ~InQueue(c, registerQ') /\ ~InQueue(c, unregisterQ')
        BY <1>1, <1>2, <2>3
      <4> QED BY <1>2, <2>3, <3>2, <4>1, <4>2, <4>3 DEF ConnOK
    <3>3. CASE d # c
      <4>1. InQueue(d, registerQ') <=> InQueue(d, registerQ)
        BY <1>2
      <4>2. InQueue(d, unregisterQ') => InQueue(d, unregisterQ)
        BY <1>1, <1>2
      <4> QED BY <1>2, <2>5, <2>6, <3>1, <3>3, <4>1, <4>2 DEF ConnOK
    <3> QED BY <3>2, <3>3
  <2> QED BY <1>1, <1>2, <2>4, <2>7, <2>8 DEF Orderly, NoDup
<1> QED BY <1>3, <1>4

\* Whatever the map holds is open, so the pass sends safely; an evicted
\* client leaves the map in the step that closes it.
LEMMA OrderlyBroadcast ==
  ASSUME TypeOK, Orderly, HubBroadcast
  PROVE  Orderly'
<1> DEFINE to == Receivers(Head(broadcastQ))
           slow == {c \in to : Full(c)}
<1>1. \A c \in to : c \in Conn /\ clients[UserOf[c]] = c /\ ~closed[c]
  BY DEF Receivers, Orderly, ConnOK
<1>2. Evict(slow) /\ UNCHANGED <<panicked, registerQ, unregisterQ, handler>>
  BY <1>1 DEF HubBroadcast, connVars
<1>3. \A c \in slow : c \in Conn /\ clients[UserOf[c]] = c
  BY <1>1
<1> HIDE DEF to, slow
<1>4. ASSUME NEW c \in Conn
      PROVE  /\ closed'[c] <=> closed[c] \/ c \in slow
             /\ clients'[UserOf[c]] = c <=> clients[UserOf[c]] = c /\ c \notin slow
             /\ clients[UserOf[c]] = None => clients'[UserOf[c]] = None
  <2>1. UserOf[c] \in User /\ None \notin Conn
    BY HubAssumption
  <2> QED BY <1>2, <2>1 DEF Evict, TypeOK
<1>5. \A c \in Conn : Held(c)' => Held(c)
  BY <1>2, <1>4 DEF Held
<1>6. OneHeldPerUser'
  BY <1>5 DEF Orderly, OneHeldPerUser
<1>7. ASSUME NEW c \in Conn
      PROVE  ConnOK(c)'
  <2>1. ConnOK(c)
    BY DEF Orderly
  <2>2. InQueue(c, registerQ') <=> InQueue(c, registerQ)
    BY <1>2
  <2>3. InQueue(c, unregisterQ') <=> InQueue(c, unregisterQ)
    BY <1>2
  <2>4. c \in slow => Held(c) /\ ~InQueue(c, registerQ)
    <3>1. c \in slow => clients[UserOf[c]] = c /\ c # None
      BY <1>3, HubAssumption
    <3> QED BY <2>1, <3>1 DEF ConnOK, Held
  <2> QED BY <1>2, <1>4, <1>5, <2>1, <2>2, <2>3, <2>4 DEF ConnOK
<1> QED BY <1>2, <1>6, <1>7 DEF Orderly, NoDup

\* A new connection does not overlap one of the same user: it is the only
\* one the server then holds.
LEMMA OrderlyUpgrade ==
  ASSUME TypeOK, Orderly, NEW c \in Conn, Upgrade(c), ~overlapped'
  PROVE  Orderly'
<1>1. \A d \in Conn : UserOf[d] = UserOf[c] => ~Held(d)
  BY DEF Upgrade
<1>2. /\ UNCHANGED <<clients, unregisterQ, closed, panicked>>
      /\ registerQ' = Append(registerQ, c)
      /\ handler' = [handler EXCEPT ![c] = "joining"]
      /\ handler[c] = "new"
  BY DEF Upgrade
<1>3. /\ \A d : InQueue(d, registerQ') <=> InQueue(d, registerQ) \/ d = c
      /\ NoDup(registerQ')
  <2>1. ~InQueue(c, registerQ)
    BY <1>1 DEF Held
  <2> QED BY <1>2, <2>1, ChannelSend DEF TypeOK, Orderly
<1>4. \A d \in Conn : d # c => handler'[d] = handler[d]
  BY <1>2 DEF TypeOK
<1>5. \A d \in Conn : d # c /\ Held(d)' => Held(d)
  BY <1>2, <1>3, <1>4 DEF Held
<1>6. OneHeldPerUser'
  BY <1>1, <1>5 DEF Orderly, OneHeldPerUser
<1>7. ASSUME NEW d \in Conn
      PROVE  ConnOK(d)'
  <2>1. ConnOK(d)
    BY DEF Orderly
  <2>2. CASE d = c
    <3>1. clients[UserOf[c]] = None
      <4> DEFINE x == clients[UserOf[c]]
      <4>1. UserOf[c] \in User
        BY HubAssumption
      <4>2. x # None => x \in Conn /\ UserOf[x] = UserOf[c] /\ Held(x)
        BY <4>1 DEF TypeOK, Held
      <4> QED BY <1>1, <4>2
    <3>2. /\ handler'[c] = "joining"
          /\ ~closed[c]
          /\ ~InQueue(c, unregisterQ)
          /\ c # None
      BY <1>1, <1>2, <2>1, <2>2, HubAssumption DEF ConnOK, Held, TypeOK
    <3> QED BY <1>2, <1>3, <2>2, <3>1, <3>2 DEF ConnOK
  <2>3. CASE d # c
    BY <1>2, <1>3, <1>4, <1>5, <2>1, <2>3 DEF ConnOK
  <2> QED BY <2>2, <2>3
<1> QED BY <1>2, <1>3, <1>6, <1>7 DEF Orderly, NoDup

\* The handler asks for its own removal, once.
LEMMA OrderlySendUnregister ==
  ASSUME TypeOK, Orderly, NEW c \in Conn, SendUnregister(c)
  PROVE  Orderly'
<1>1. /\ UNCHANGED <<clients, registerQ, closed, panicked>>
      /\ unregisterQ' = Append(unregisterQ, c)
      /\ handler' = [handler EXCEPT ![c] = "closing"]
      /\ handler[c] = "leaving"
  BY DEF SendUnregister
<1>2. Held(c) /\ ~InQueue(c, unregisterQ)
  BY <1>1 DEF Orderly, ConnOK, Held
<1>3. /\ \A d : InQueue(d, unregisterQ') <=> InQueue(d, unregisterQ) \/ d = c
      /\ NoDup(unregisterQ')
  BY <1>1, <1>2, ChannelSend DEF TypeOK, Orderly
<1>4. /\ handler'[c] = "closing"
      /\ \A d \in Conn : d # c => handler'[d] = handler[d]
  BY <1>1 DEF TypeOK
<1>5. \A d \in Conn : Held(d)' => Held(d)
  BY <1>1, <1>2, <1>3, <1>4 DEF Held
<1>6. OneHeldPerUser'
  BY <1>5 DEF Orderly, OneHeldPerUser
<1>7. ASSUME NEW d \in Conn
      PROVE  ConnOK(d)'
  <2>1. ConnOK(d)
    BY DEF Orderly
  <2> QED BY <1>1, <1>3, <1>4, <1>5, <2>1 DEF ConnOK
<1> QED BY <1>1, <1>3, <1>6, <1>7 DEF Orderly, NoDup

LEMMA DisciplineInit == Init => HubDiscipline
<1> SUFFICES ASSUME Init PROVE Orderly
  BY DEF HubDiscipline
<1>1. \A c : ~InQueue(c, registerQ) /\ ~InQueue(c, unregisterQ)
  <2>1. registerQ = <<>> /\ unregisterQ = <<>> /\ \A i \in DOMAIN <<>> : FALSE
    BY DEF Init
  <2> QED BY <2>1 DEF InQueue
<1>2. \A c \in Conn : clients[UserOf[c]] = None /\ c # None
  BY HubAssumption DEF Init
<1>3. \A c \in Conn : ~Held(c) /\ handler[c] = "new" /\ ~closed[c]
  BY <1>1, <1>2 DEF Init, Held
<1>4. OneHeldPerUser
  BY <1>3 DEF OneHeldPerUser
<1>5. \A c \in Conn : ConnOK(c)
  BY <1>1, <1>2, <1>3 DEF ConnOK
<1> QED BY <1>4, <1>5 DEF Init, Orderly, NoDup

LEMMA DisciplineNext == TypeOK /\ HubDiscipline /\ [Next]_vars => HubDiscipline'
<1> SUFFICES ASSUME TypeOK, HubDiscipline, [Next]_vars, ~overlapped'
             PROVE  Orderly'
  BY DEF HubDiscipline
<1>1. Orderly
  <2>1. overlapped => overlapped'
    BY DEF Next, vars, connVars, HubRegister, HubUnregister, HubBroadcast, Upgrade,
           OnJoin, ReadFrame, ReadError, SendUnregister, CloseConn, WriteFrame,
           WriterReturns, Disconnect, AssignTask
  <2> QED BY <2>1 DEF HubDiscipline
<1>2. CASE HubRegister
  BY <1>1, <1>2, OrderlyRegister
<1>3. CASE HubUnregister
  BY <1>1, <1>3, OrderlyUnregister
<1>4. CASE HubBroadcast
  BY <1>1, <1>4, OrderlyBroadcast
<1>5. ASSUME NEW c \in Conn, Upgrade(c)
      PROVE  Orderly'
  BY <1>1, <1>5, OrderlyUpgrade
<1>6. ASSUME NEW c \in Conn, SendUnregister(c)
      PROVE  Orderly'
  BY <1>1, <1>6, OrderlySendUnregister
<1>7. ASSUME NEW c \in Conn,
             \/ OnJoin(c) \/ ReadFrame(c) \/ ReadError(c) \/ CloseConn(c)
             \/ WriteFrame(c) \/ WriterReturns(c) \/ Disconnect(c)
      PROVE  Orderly'
  <2>1. UNCHANGED <<clients, registerQ, unregisterQ, closed, panicked>>
    BY <1>7 DEF OnJoin, ReadFrame, ReadError, CloseConn, WriteFrame, WriterReturns,
                Disconnect, chanVars
  <2>2. \/ UNCHANGED handler
        \/ /\ handler[c] = "joining"
           /\ \E h \in {"reading", "leaked"} : handler' = [handler EXCEPT ![c] = h]
        \/ handler[c] = "reading" /\ handler' = [handler EXCEPT ![c] = "leaving"]
        \/ handler[c] = "closing" /\ handler' = [handler EXCEPT ![c] = "done"]
    BY <1>7 DEF OnJoin, StartPumps, ReadFrame, ReadError, CloseConn, WriteFrame,
                WriterReturns, Disconnect
  <2>3. \A d \in Conn :
          /\ handler'[d] = "new" => handler[d] = "new"
          /\ handler'[d] \in {"joining", "reading"} =>
               handler[d] \in {"joining", "reading"}
          /\ handler'[d] \in {"joining", "reading", "leaving"} =>
               handler[d] \in {"joining", "reading", "leaving"}
    BY <2>2 DEF TypeOK
  <2> QED BY <1>1, <2>1, <2>3, OrderlyForward
<1>8. CASE UNCHANGED vars \/ \E u \in User, d \in Doc : AssignTask(u, d)
  <2>1. UNCHANGED <<clients, registerQ, unregisterQ, closed, panicked, handler>>
    BY <1>8 DEF AssignTask, vars, chanVars, connVars
  <2> QED BY <1>1, <2>1, OrderlyForward
<1> QED BY <1>2, <1>3, <1>4, <1>5, <1>6, <1>7, <1>8 DEF Next

\* As long as no user's connections overlap, the hub goroutine has not
\* panicked, the registry holds only open clients, at most one per user, and
\* no request is in a channel twice.
THEOREM DisciplineHolds == Spec => []HubDiscipline
  BY TypeInit, TypeNext, DisciplineInit, DisciplineNext, PTL DEF Spec

\* The process dies only after two connections of one user overlapped: with
\* any number of users, documents and connections, any buffer sizes and any
\* interleaving, a server without reconnects racing a cleanup keeps running.
THEOREM NoPanicWithoutOverlap == Spec => []PanicNeedsOverlap
<1>1. HubDiscipline => PanicNeedsOverlap
  BY DEF HubDiscipline, Orderly, PanicNeedsOverlap
<1> QED BY <1>1, DisciplineHolds, PTL

\* Without overlap a connection that is still read is in the registry, on
\* its way there, or has its channel closed.
THEOREM NobodyDeaf == Spec => []NoDeafConnection
<1>1. HubDiscipline => NoDeafConnection
  BY DEF HubDiscipline, Orderly, ConnOK, NoDeafConnection
<1> QED BY <1>1, DisciplineHolds, PTL

-----------------------------------------------------------------------------
(* What is on the way to a browser: the invariant behind RefinesRoom.       *)

\* The set of what a channel or a socket holds, in any order.
Elems(q) == {q[i] : i \in DOMAIN q}

\* q is in the order given by R, a set of pairs.
Ordered(q, R) == \A i, j \in DOMAIN q : i < j => <<q[i], q[j]>> \in R

\* p may reach a browser before r: it is not a second copy of the stored
\* document, and not a later frame or event of the same source.
Ahead(p, r) ==
  /\ ~(p = Blob /\ r = Blob)
  /\ p # Blob /\ r # Blob /\ p[1] = r[1] => p[2] < r[2]

PayloadOrder == {x \in Payload \X Payload : Ahead(x[1], x[2])}
MessageOrder == {x \in Message \X Message : Ahead(x[1].Payload, x[2].Payload)}

Posted(s) == IF s \in Conn THEN appends[s] ELSE tasks[s]

\* The message is what its author posted, where they posted it.
Genuine(m) ==
  /\ m.SenderID = RoomAbs!Author(m.Payload[1])
  /\ m.DocID = RoomAbs!Place(m.Payload[1])
  /\ m.Payload[2] \in 1 .. Posted(m.Payload[1])

\* Another user posted p on the document of c.
Meant(c, p) ==
  p # Blob =>
    /\ RoomAbs!Place(p[1]) = DocOf[c]
    /\ RoomAbs!Author(p[1]) # UserOf[c]
    /\ p[2] \in 1 .. Posted(p[1])

\* What c was sent, in its Send channel or on its socket, is meant for it, in
\* order, and ahead of what Hub.Broadcast holds; OnJoin sends the document.
LineOK(c) ==
  /\ \A p \in Elems(wire[c]) \union Elems(send[c]) : Meant(c, p)
  /\ Ordered(send[c], PayloadOrder)
  /\ \A p \in Elems(wire[c]), r \in Elems(send[c]) : Ahead(p, r)
  /\ \A p \in Elems(wire[c]) \union Elems(send[c]), m \in Elems(broadcastQ) :
       Ahead(p, m.Payload)
  /\ handler[c] \in {"new", "joining"} =>
       Blob \notin Elems(wire[c]) \union Elems(send[c])

QueueOK ==
  /\ \A m \in Elems(broadcastQ) : Genuine(m)
  /\ Ordered(broadcastQ, MessageOrder)

Delivery == QueueOK /\ \A c \in Conn : LineOK(c)

\* A send puts the element last.
LEMMA SendLast ==
  ASSUME NEW S, NEW q \in Seq(S), NEW e \in S
  PROVE  /\ Elems(Append(q, e)) = Elems(q) \union {e}
         /\ \A R : Ordered(q, R) /\ (\A p \in Elems(q) : <<p, e>> \in R)
                    => Ordered(Append(q, e), R)
<1>1. /\ DOMAIN Append(q, e) = 1 .. Len(q) + 1
      /\ DOMAIN q = 1 .. Len(q)
      /\ \A i \in 1 .. Len(q) : Append(q, e)[i] = q[i]
      /\ Append(q, e)[Len(q) + 1] = e
      /\ Len(q) \in Nat
  OBVIOUS
<1>2. Elems(Append(q, e)) = Elems(q) \union {e}
  BY <1>1 DEF Elems
<1>3. ASSUME NEW R, Ordered(q, R), \A p \in Elems(q) : <<p, e>> \in R
      PROVE  Ordered(Append(q, e), R)
  BY <1>1, <1>3 DEF Ordered, Elems
<1> QED BY <1>2, <1>3

\* A receive takes the element everything else comes after.
LEMMA ReceiveFirst ==
  ASSUME NEW S, NEW q \in Seq(S), q # <<>>
  PROVE  /\ Elems(q) = Elems(Tail(q)) \union {Head(q)}
         /\ \A R : Ordered(q, R) =>
              /\ Ordered(Tail(q), R)
              /\ \A p \in Elems(Tail(q)) : <<Head(q), p>> \in R
<1>1. /\ Len(q) \in Nat \ {0}
      /\ Head(q) = q[1]
      /\ DOMAIN q = 1 .. Len(q)
      /\ DOMAIN Tail(q) = 1 .. Len(q) - 1
      /\ \A i \in 1 .. Len(q) - 1 : Tail(q)[i] = q[i + 1]
  OBVIOUS
<1>2. Elems(q) = Elems(Tail(q)) \union {Head(q)}
  <2>1. ASSUME NEW i \in 1 .. Len(q)
        PROVE  q[i] \in Elems(Tail(q)) \union {Head(q)}
    <3>1. CASE i = 1
      BY <1>1, <3>1
    <3>2. CASE i # 1
      <4>1. i - 1 \in 1 .. Len(q) - 1 /\ Tail(q)[i - 1] = q[i]
        BY <1>1, <3>2
      <4> QED BY <1>1, <4>1 DEF Elems
    <3> QED BY <3>1, <3>2
  <2>2. ASSUME NEW i \in 1 .. Len(q) - 1
        PROVE  Tail(q)[i] \in Elems(q)
    BY <1>1 DEF Elems
  <2>3. Head(q) \in Elems(q)
    BY <1>1 DEF Elems
  <2> QED BY <1>1, <2>1, <2>2, <2>3 DEF Elems
<1>3. ASSUME NEW R, Ordered(q, R)
      PROVE  /\ Ordered(Tail(q), R)
             /\ \A p \in Elems(Tail(q)) : <<Head(q), p>> \in R
  <2>1. \A i, j \in 1 .. Len(q) : i < j => <<q[i], q[j]>> \in R
    BY <1>1, <1>3 DEF Ordered
  <2>2. ASSUME NEW i \in 1 .. Len(q) - 1, NEW j \in 1 .. Len(q) - 1, i < j
        PROVE  <<Tail(q)[i], Tail(q)[j]>> \in R
    <3>1. i + 1 \in 1 .. Len(q) /\ j + 1 \in 1 .. Len(q) /\ i + 1 < j + 1
      BY <1>1, <2>2
    <3>2. <<q[i + 1], q[j + 1]>> \in R
      BY <2>1, <3>1
    <3> QED BY <1>1, <3>2
  <2>3. ASSUME NEW i \in 1 .. Len(q) - 1
        PROVE  <<Head(q), Tail(q)[i]>> \in R
    <3>1. 1 \in 1 .. Len(q) /\ i + 1 \in 1 .. Len(q) /\ 1 < i + 1
      BY <1>1
    <3>2. <<q[1], q[i + 1]>> \in R
      BY <2>1, <3>1
    <3> QED BY <1>1, <3>2
  <2> QED BY <1>1, <2>2, <2>3 DEF Ordered, Elems
<1> QED BY <1>2, <1>3

LEMMA ElemsIn ==
  ASSUME NEW S, NEW q \in Seq(S)
  PROVE  Elems(q) \subseteq S
BY DEF Elems

Source == Conn \union (User \X Doc)

\* Sources only post more.
PostedGrows == \A s \in Source : Posted(s) <= Posted(s)'

LEMMA PostedType == TypeOK => \A s \in Source : Posted(s) \in Nat
BY DEF TypeOK, Posted, Source

LEMMA PostedSame == UNCHANGED <<appends, tasks>> /\ TypeOK => PostedGrows
BY PostedType DEF Posted, PostedGrows

\* What was posted stays posted.
LEMMA StillPosted ==
  ASSUME TypeOK, TypeOK', PostedGrows, NEW f \in Frame, f[2] \in 1 .. Posted(f[1])
  PROVE  f[2] \in 1 .. Posted(f[1])'
<1>1. f[1] \in Source /\ f[2] \in Nat
  BY DEF Frame, Source
<1>2. Posted(f[1]) \in Nat /\ Posted(f[1])' \in Nat
  BY <1>1 DEF TypeOK, Posted, Source
<1> QED BY <1>1, <1>2 DEF PostedGrows

\* A step that adds nothing for c to any channel keeps its line.
LEMMA LineKept ==
  ASSUME TypeOK, TypeOK', PostedGrows, NEW c \in Conn, LineOK(c),
         wire'[c] = wire[c], send'[c] = send[c],
         Elems(broadcastQ') \subseteq Elems(broadcastQ),
         handler'[c] \in {"new", "joining"} => handler[c] \in {"new", "joining"}
  PROVE  LineOK(c)'
<1>1. ASSUME NEW p \in Elems(wire[c]) \union Elems(send[c])
      PROVE  Meant(c, p)'
  <2>1. p \in Payload
    BY ElemsIn DEF TypeOK
  <2>2. p # Blob => p \in Frame
    BY <2>1 DEF Payload
  <2> QED BY <2>2, StillPosted DEF LineOK, Meant
<1> QED BY <1>1 DEF LineOK

LEMMA QueueKept ==
  ASSUME TypeOK, TypeOK', PostedGrows, QueueOK,
         Elems(broadcastQ') \subseteq Elems(broadcastQ),
         Ordered(broadcastQ', MessageOrder)
  PROVE  QueueOK'
<1>1. ASSUME NEW m \in Elems(broadcastQ)
      PROVE  Genuine(m)'
  <2>1. m \in Message
    BY ElemsIn DEF TypeOK
  <2>2. m.Payload \in Frame
    BY <2>1 DEF Message
  <2> QED BY <2>2, StillPosted DEF QueueOK, Genuine
<1> QED BY <1>1 DEF QueueOK

\* Posting: the new frame or event comes after all there is of its source.
LEMMA DeliveryOffer ==
  ASSUME TypeOK, TypeOK', Delivery, NEW s \in Source,
         NEW k \in Nat, k = Posted(s) + 1, Posted(s)' = k,
         Offer([SenderID |-> RoomAbs!Author(s), DocID |-> RoomAbs!Place(s),
                Payload |-> <<s, k>>]),
         \A t \in Source \ {s} : Posted(t)' = Posted(t),
         UNCHANGED <<wire, send, handler>>
  PROVE  Delivery'
<1> DEFINE f == <<s, k>>
<1>1. /\ Posted(s) \in Nat
      /\ f \in Frame /\ f[1] = s /\ f[2] = k /\ f # Blob
  BY PostedType, HubAssumption DEF Frame, Source
<1>2. PostedGrows
  BY PostedType DEF PostedGrows
<1>3. PICK m \in Message :
        m = [SenderID |-> RoomAbs!Author(s), DocID |-> RoomAbs!Place(s), Payload |-> f]
  BY <1>1, HubAssumption DEF Message, Source, RoomAbs!Author, RoomAbs!Place
<1>4. m.Payload = f /\ Genuine(m)'
  BY <1>1, <1>3 DEF Genuine
<1>5. broadcastQ' = broadcastQ \/ broadcastQ' = Append(broadcastQ, m)
  BY <1>3 DEF Offer
<1> HIDE DEF f
<1>6. CASE broadcastQ' = broadcastQ
  BY <1>2, <1>6, QueueKept, LineKept DEF Delivery, QueueOK
<1>7. CASE broadcastQ' = Append(broadcastQ, m)
  <2>1. Elems(broadcastQ') = Elems(broadcastQ) \union {m}
    BY <1>7, SendLast DEF TypeOK
  <2>2. ASSUME NEW n \in Elems(broadcastQ)
        PROVE  <<n, m>> \in MessageOrder /\ Genuine(n)'
    <3>0. n \in Message /\ Genuine(n)
      BY ElemsIn DEF TypeOK, Delivery, QueueOK
    <3>1. n.Payload \in Frame
      BY <3>0 DEF Message
    <3>2. n.Payload[1] = s => n.Payload[2] < k
      BY <1>1, <3>0, <3>1 DEF Genuine, Frame
    <3>3. Genuine(n)'
      BY <1>2, <3>0, <3>1, StillPosted DEF Genuine
    <3> QED BY <1>1, <1>4, <3>0, <3>2, <3>3 DEF MessageOrder, Ahead
  <2>3. QueueOK'
    <3>1. Ordered(broadcastQ', MessageOrder)
      BY <1>7, <2>2, SendLast DEF TypeOK, Delivery, QueueOK
    <3> QED BY <1>4, <2>1, <2>2, <3>1 DEF QueueOK
  <2>4. ASSUME NEW c \in Conn
        PROVE  LineOK(c)'
    <3>1. ASSUME NEW p \in Elems(wire[c]) \union Elems(send[c])
          PROVE  Meant(c, p)' /\ Ahead(p, f)
      <4>1. p \in Payload /\ Meant(c, p)
        BY ElemsIn DEF TypeOK, Delivery, LineOK
      <4>2. p # Blob => p \in Frame /\ p[2] \in 1 .. Posted(p[1])
        BY <4>1 DEF Payload, Meant
      <4>3. Meant(c, p)'
        BY <1>2, <4>1, <4>2, StillPosted DEF Meant
      <4>4. Ahead(p, f)
        BY <1>1, <4>2 DEF Ahead
      <4> QED BY <4>3, <4>4
    <3> QED BY <1>4, <2>1, <3>1 DEF Delivery, LineOK
  <2> QED BY <2>3, <2>4 DEF Delivery
<1> QED BY <1>5, <1>6, <1>7

\* Routing: the oldest message goes behind what its receivers were sent before.
LEMMA DeliveryBroadcast ==
  ASSUME TypeOK, TypeOK', Delivery, HubBroadcast
  PROVE  Delivery'
<1> PICK msg \in Message : msg = Head(broadcastQ)
  BY ChannelReceive DEF HubBroadcast, TypeOK
<1>1. /\ broadcastQ # <<>> /\ broadcastQ' = Tail(broadcastQ)
      /\ UNCHANGED <<wire, handler, appends, tasks>>
  BY DEF HubBroadcast, connVars
<1>2. /\ Elems(broadcastQ) = Elems(broadcastQ') \union {msg}
      /\ Ordered(broadcastQ', MessageOrder)
      /\ \A m \in Elems(broadcastQ') : <<msg, m>> \in MessageOrder
  BY <1>1, ReceiveFirst DEF TypeOK, Delivery, QueueOK
<1>3. PostedGrows
  BY <1>1, PostedSame
<1>4. msg.Payload \in Frame /\ msg.Payload # Blob /\ Genuine(msg)
  BY <1>2, HubAssumption DEF Message, Frame, Delivery, QueueOK
<1>5. QueueOK'
  BY <1>2, <1>3, QueueKept DEF Delivery
<1>6. ASSUME NEW c \in Conn
      PROVE  LineOK(c)'
  <2>1. CASE send'[c] = send[c]
    BY <1>1, <1>2, <1>3, <2>1, LineKept DEF Delivery
  <2>2. CASE c \in Receivers(msg) /\ send'[c] = Append(send[c], msg.Payload)
    <3>1. msg.Payload \in Payload /\ send[c] \in Seq(Payload)
      BY <1>4 DEF Payload, TypeOK
    <3>2. Elems(send'[c]) = Elems(send[c]) \union {msg.Payload}
      <4>1. PICK f \in Payload : f = msg.Payload
        BY <3>1
      <4>2. Elems(Append(send[c], f)) = Elems(send[c]) \union {f}
        BY <3>1, SendLast
      <4> QED BY <2>2, <4>1, <4>2
    <3>3. \A p \in Elems(wire[c]) \union Elems(send[c]) : p \in Payload /\ Meant(c, p)'
      <4>1. ASSUME NEW p \in Elems(wire[c]) \union Elems(send[c])
            PROVE  p \in Payload /\ Meant(c, p)'
        <5>1. p \in Payload /\ Meant(c, p)
          BY ElemsIn DEF TypeOK, Delivery, LineOK
        <5>2. p # Blob => p \in Frame
          BY <5>1 DEF Payload
        <5> QED BY <1>3, <5>1, <5>2, StillPosted DEF Meant
      <4> QED BY <4>1
    <3>4. Meant(c, msg.Payload)'
      <4>1. Meant(c, msg.Payload)
        BY <1>4, <2>2 DEF Meant, Genuine, Receivers
      <4> QED BY <1>3, <1>4, <4>1, StillPosted DEF Meant
    <3>5. \A p \in Elems(wire[c]) \union Elems(send[c]) : Ahead(p, msg.Payload)
      BY <1>2 DEF Delivery, LineOK
    <3>6. Ordered(send'[c], PayloadOrder)
      <4>1. \A p \in Elems(send[c]) : <<p, msg.Payload>> \in PayloadOrder
        BY <3>1, <3>3, <3>5 DEF PayloadOrder
      <4> QED BY <2>2, <3>1, <4>1, SendLast DEF Delivery, LineOK
    <3>7. \A m \in Elems(broadcastQ') : Ahead(msg.Payload, m.Payload)
      BY <1>2 DEF MessageOrder
    <3> QED BY <1>1, <1>2, <1>4, <3>2, <3>3, <3>4, <3>5, <3>6, <3>7 DEF Delivery, LineOK
  <2>3. \/ send' = send
        \/ send' = [d \in Conn |->
             IF d \in Receivers(msg) \ {e \in Receivers(msg) : Full(e)}
               THEN Append(send[d], msg.Payload) ELSE send[d]]
    BY DEF HubBroadcast
  <2> QED BY <2>1, <2>2, <2>3
<1> QED BY <1>5, <1>6 DEF Delivery

\* WritePump takes the oldest payload off the channel.
LEMMA DeliveryWrite ==
  ASSUME TypeOK, TypeOK', Delivery, NEW c \in Conn, WriteFrame(c)
  PROVE  Delivery'
<1>1. /\ send[c] # <<>>
      /\ send' = [send EXCEPT ![c] = Tail(@)]
      /\ wire' = [wire EXCEPT ![c] = Append(@, Head(send[c]))] \/ wire' = wire
      /\ UNCHANGED <<broadcastQ, handler, appends, tasks>>
  BY DEF WriteFrame
<1>2. PostedGrows
  BY <1>1, PostedSame
<1>3. QueueOK'
  BY <1>1, <1>2, QueueKept DEF Delivery, QueueOK
<1>4. ASSUME NEW d \in Conn, d # c
      PROVE  LineOK(d)'
  BY <1>1, <1>2, <1>4, LineKept DEF Delivery, TypeOK
<1>5. LineOK(c)'
  <2>1. send[c] \in Seq(Payload) /\ send'[c] = Tail(send[c]) /\ LineOK(c)
    BY <1>1 DEF TypeOK, Delivery
  <2>2. PICK h : h = Head(send[c])
    OBVIOUS
  <2>3. /\ Elems(send[c]) = Elems(send'[c]) \union {h}
        /\ Ordered(send'[c], PayloadOrder)
        /\ \A p \in Elems(send'[c]) : Ahead(h, p)
    <3>1. /\ Elems(send[c]) = Elems(send'[c]) \union {h}
          /\ Ordered(send'[c], PayloadOrder)
          /\ \A p \in Elems(send'[c]) : <<h, p>> \in PayloadOrder
      BY <1>1, <2>1, <2>2, ReceiveFirst DEF LineOK
    <3> QED BY <3>1 DEF PayloadOrder
  <2>4. Elems(wire'[c]) \subseteq Elems(wire[c]) \union {h}
    <3>1. wire[c] \in Seq(Payload) /\ h \in Payload
      BY <2>1, <2>3, ElemsIn DEF TypeOK
    <3>2. wire'[c] = wire[c] \/ wire'[c] = Append(wire[c], h)
      BY <1>1, <2>2 DEF TypeOK
    <3> QED BY <3>1, <3>2, SendLast
  <2>5. ASSUME NEW p \in Elems(wire[c]) \union Elems(send[c])
        PROVE  Meant(c, p)'
    <3>1. p \in Payload /\ Meant(c, p)
      BY <2>1, ElemsIn DEF TypeOK, LineOK
    <3>2. p # Blob => p \in Frame
      BY <3>1 DEF Payload
    <3> QED BY <1>2, <3>1, <3>2, StillPosted DEF Meant
  <2>6. /\ \A p \in Elems(wire'[c]), r \in Elems(send'[c]) : Ahead(p, r)
        /\ \A p \in Elems(wire'[c]) \union Elems(send'[c]), m \in Elems(broadcastQ') :
             Ahead(p, m.Payload)
        /\ handler'[c] \in {"new", "joining"} =>
             Blob \notin Elems(wire'[c]) \union Elems(send'[c])
    BY <1>1, <2>1, <2>3, <2>4 DEF LineOK
  <2> QED BY <2>3, <2>4, <2>5, <2>6 DEF LineOK
<1> QED BY <1>3, <1>4, <1>5 DEF Delivery

\* OnJoin sends the stored document behind what the hub sent meanwhile.
LEMMA DeliveryJoin ==
  ASSUME TypeOK, TypeOK', Delivery, NEW c \in Conn, OnJoin(c)
  PROVE  Delivery'
<1>1. /\ handler[c] = "joining"
      /\ UNCHANGED <<wire, broadcastQ, appends, tasks>>
      /\ \/ send' = send
         \/ send' = [send EXCEPT ![c] = Append(@, Blob)] /\ handler'[c] = "reading"
      /\ \A d \in Conn : d # c => handler'[d] = handler[d]
  <2>1. \E h \in {"reading", "leaked"} :
          /\ handler' = [handler EXCEPT ![c] = h]
          /\ \/ send' = send
             \/ send' = [send EXCEPT ![c] = Append(@, Blob)] /\ h = "reading"
    BY DEF OnJoin, StartPumps
  <2>2. handler[c] = "joining" /\ UNCHANGED <<wire, broadcastQ, appends, tasks>>
    BY DEF OnJoin
  <2> QED BY <2>1, <2>2 DEF TypeOK
<1>2. PostedGrows
  BY <1>1, PostedSame
<1>3. QueueOK'
  BY <1>1, <1>2, QueueKept DEF Delivery, QueueOK
<1>4. ASSUME NEW d \in Conn, send'[d] = send[d]
      PROVE  LineOK(d)'
  BY <1>1, <1>2, <1>4, LineKept DEF Delivery
<1>5. ASSUME send' = [send EXCEPT ![c] = Append(@, Blob)], handler'[c] = "reading"
      PROVE  LineOK(c)'
  <2>1. /\ send[c] \in Seq(Payload) /\ Blob \in Payload /\ LineOK(c)
        /\ send'[c] = Append(send[c], Blob)
    BY <1>5 DEF TypeOK, Delivery, Payload
  <2>2. Elems(send'[c]) = Elems(send[c]) \union {Blob}
    BY <2>1, SendLast
  <2>3. \A p \in Elems(wire[c]) \union Elems(send[c]) : p \in Payload /\ Ahead(p, Blob)
    BY <1>1, <2>1, ElemsIn DEF TypeOK, LineOK, Ahead
  <2>4. Ordered(send'[c], PayloadOrder)
    <3>1. \A p \in Elems(send[c]) : <<p, Blob>> \in PayloadOrder
      BY <2>1, <2>3 DEF PayloadOrder
    <3> QED BY <2>1, <3>1, SendLast DEF LineOK
  <2>5. ASSUME NEW p \in Elems(wire[c]) \union Elems(send'[c])
        PROVE  Meant(c, p)'
    <3>1. p \in Payload /\ Meant(c, p)
      BY <2>1, <2>2, <2>3 DEF LineOK, Meant
    <3>2. p # Blob => p \in Frame
      BY <3>1 DEF Payload
    <3> QED BY <1>2, <3>1, <3>2, StillPosted DEF Meant
  <2>6. ASSUME NEW m \in Elems(broadcastQ)
        PROVE  Ahead(Blob, m.Payload)
    <3>1. m \in Message
      BY ElemsIn DEF TypeOK
    <3> QED BY <3>1, HubAssumption DEF Message, Frame, Ahead
  <2> QED BY <1>1, <1>5, <2>1, <2>2, <2>3, <2>4, <2>5, <2>6 DEF LineOK
<1> QED BY <1>1, <1>3, <1>4, <1>5 DEF Delivery, TypeOK

LEMMA DeliveryInit == Init => Delivery
<1> SUFFICES ASSUME Init PROVE Delivery
  OBVIOUS
<1>1. Elems(<<>>) = {} /\ \A R : Ordered(<<>>, R)
  BY DEF Elems, Ordered
<1>2. QueueOK
  BY <1>1 DEF Init, QueueOK
<1>3. ASSUME NEW c \in Conn
      PROVE  LineOK(c)
  <2>1. wire[c] = <<>> /\ send[c] = <<>>
    BY DEF Init
  <2> QED BY <1>1, <2>1 DEF LineOK
<1> QED BY <1>2, <1>3 DEF Delivery

LEMMA DeliveryNext == TypeOK /\ Delivery /\ [Next]_vars => Delivery'
<1> SUFFICES ASSUME TypeOK, Delivery, [Next]_vars
             PROVE  Delivery'
  OBVIOUS
<1>0. TypeOK'
  BY TypeNext
<1>1. CASE HubBroadcast
  BY <1>0, <1>1, DeliveryBroadcast
<1>2. ASSUME NEW c \in Conn, WriteFrame(c)
      PROVE  Delivery'
  BY <1>0, <1>2, DeliveryWrite
<1>3. ASSUME NEW c \in Conn, OnJoin(c)
      PROVE  Delivery'
  BY <1>0, <1>3, DeliveryJoin
<1>4. ASSUME NEW c \in Conn, ReadFrame(c)
      PROVE  Delivery'
  <2>1. PICK k \in Nat : k = Posted(c) + 1
    BY DEF TypeOK, Posted
  <2>2. /\ c \in Source
        /\ RoomAbs!Author(c) = UserOf[c] /\ RoomAbs!Place(c) = DocOf[c]
        /\ Posted(c) = appends[c]
    BY DEF Source, RoomAbs!Author, RoomAbs!Place, Posted
  <2>3. /\ appends' = [appends EXCEPT ![c] = @ + 1]
        /\ Offer([SenderID |-> RoomAbs!Author(c), DocID |-> RoomAbs!Place(c),
                  Payload |-> <<c, k>>])
        /\ UNCHANGED <<wire, send, handler, tasks>>
    BY <1>4, <2>1, <2>2 DEF ReadFrame, HandleUpdate
  <2>4. Posted(c)' = k /\ \A t \in Source \ {c} : Posted(t)' = Posted(t)
    BY <2>1, <2>3 DEF TypeOK, Posted
  <2> QED BY <1>0, <2>1, <2>2, <2>3, <2>4, DeliveryOffer
<1>5. ASSUME NEW u \in User, NEW d \in Doc, AssignTask(u, d)
      PROVE  Delivery'
  <2>1. PICK s \in Source : s = <<u, d>>
    BY DEF Source
  <2>2. /\ s \notin Conn /\ s \in User \X Doc
        /\ RoomAbs!Author(s) = u /\ RoomAbs!Place(s) = d
        /\ Posted(s) = tasks[s]
    BY <2>1, HubAssumption DEF RoomAbs!Author, RoomAbs!Place, Posted
  <2>3. PICK k \in Nat : k = Posted(s) + 1
    BY <2>2 DEF TypeOK
  <2>4. /\ tasks' = [tasks EXCEPT ![s] = @ + 1]
        /\ Offer([SenderID |-> RoomAbs!Author(s), DocID |-> RoomAbs!Place(s),
                  Payload |-> <<s, k>>])
        /\ UNCHANGED <<wire, send, handler, appends>>
    BY <1>5, <2>1, <2>2, <2>3 DEF AssignTask, connVars
  <2>5. Posted(s)' = k /\ \A t \in Source \ {s} : Posted(t)' = Posted(t)
    BY <2>2, <2>3, <2>4 DEF TypeOK, Posted, Source
  <2> QED BY <1>0, <2>3, <2>4, <2>5, DeliveryOffer
<1>6. ASSUME UNCHANGED <<wire, send, broadcastQ, appends, tasks>>,
             \A c \in Conn : handler'[c] \in {"new", "joining"} =>
                               handler[c] \in {"new", "joining"}
      PROVE  Delivery'
  <2>1. PostedGrows
    BY <1>6, PostedSame
  <2>2. QueueOK'
    BY <1>0, <1>6, <2>1, QueueKept DEF Delivery, QueueOK
  <2>3. \A c \in Conn : LineOK(c)'
    BY <1>0, <1>6, <2>1, LineKept DEF Delivery
  <2> QED BY <2>2, <2>3 DEF Delivery
<1>7. CASE HubRegister \/ HubUnregister \/ UNCHANGED vars
  <2>1. UNCHANGED <<wire, send, broadcastQ, appends, tasks, handler>>
    BY <1>7 DEF HubRegister, HubUnregister, vars, chanVars, connVars
  <2> QED BY <1>6, <2>1
<1>8. ASSUME NEW c \in Conn,
             \/ Upgrade(c) \/ ReadError(c) \/ SendUnregister(c) \/ CloseConn(c)
             \/ WriterReturns(c) \/ Disconnect(c)
      PROVE  Delivery'
  <2>1. UNCHANGED <<wire, send, broadcastQ, appends, tasks>>
    BY <1>8 DEF Upgrade, ReadError, SendUnregister, CloseConn, WriterReturns,
                Disconnect, chanVars
  <2>2. \/ handler' = handler
        \/ handler' = [handler EXCEPT ![c] = "joining"] /\ handler[c] = "new"
        \/ \E h \in {"leaving", "closing", "done"} : handler' = [handler EXCEPT ![c] = h]
    BY <1>8 DEF Upgrade, ReadError, SendUnregister, CloseConn, WriterReturns,
                Disconnect
  <2>3. \A d \in Conn : handler'[d] \in {"new", "joining"} =>
                          handler[d] \in {"new", "joining"}
    BY <2>2 DEF TypeOK
  <2> QED BY <1>6, <2>1, <2>3
<1> QED BY <1>1, <1>2, <1>3, <1>4, <1>5, <1>7, <1>8 DEF Next

LEMMA DeliveryInvariant == Spec => [](TypeOK /\ Delivery)
BY TypeInit, TypeNext, DeliveryInit, DeliveryNext, PTL DEF Spec

\* The socket takes what the room may hand over next.
LEMMA WriteReceives ==
  ASSUME TypeOK, Delivery, NEW c \in Conn, WriteFrame(c)
  PROVE  RoomAbs!Next \/ UNCHANGED <<wire, appends, tasks>>
<1>1. send[c] # <<>> /\ UNCHANGED <<appends, tasks>>
  BY DEF WriteFrame
<1>2. CASE wire' = wire
  BY <1>1, <1>2
<1>3. CASE wire' # wire
  <2>1. PICK p \in Payload : p = Head(send[c])
    BY <1>1, ChannelReceive DEF TypeOK
  <2>2. wire' = [wire EXCEPT ![c] = Append(@, p)]
    BY <1>3, <2>1 DEF WriteFrame
  <2>3. p \in Elems(send[c])
    BY <1>1, <2>1, ReceiveFirst DEF TypeOK
  <2>4. Meant(c, p) /\ \A i \in DOMAIN wire[c] : Ahead(wire[c][i], p)
    BY <2>3 DEF Delivery, LineOK, Elems
  <2>5. CASE p = Blob
    <3>1. RoomAbs!ReceiveBlob(c)
      BY <1>1, <2>2, <2>4, <2>5 DEF RoomAbs!ReceiveBlob, Ahead
    <3> QED BY <3>1 DEF RoomAbs!Next, RoomAbs!Source
  <2>6. CASE p # Blob
    <3>1. PICK s \in Source, k \in Nat : p = <<s, k>>
      BY <2>6 DEF Payload, Frame, Source
    <3>2. /\ RoomAbs!Place(s) = DocOf[c] /\ RoomAbs!Author(s) # UserOf[c]
          /\ k \in 1 .. Posted(s)
      BY <2>4, <2>6, <3>1 DEF Meant
    <3>3. RoomAbs!Newer(c, s, k)
      BY <2>4, <2>6, <3>1 DEF RoomAbs!Newer, Ahead
    <3>4. RoomAbs!Receive(c, s, k)
      BY <1>1, <2>2, <3>1, <3>2, <3>3 DEF RoomAbs!Receive
    <3>5. k \in 1 .. (IF s \in Conn THEN appends[s] ELSE tasks[s])
      BY <3>2 DEF Posted
    <3> QED BY <3>4, <3>5 DEF RoomAbs!Next, RoomAbs!Source, Source
  <2> QED BY <2>5, <2>6
<1> QED BY <1>2, <1>3

\* The hub delivers as the room promises, however connections overlap: what a
\* browser gets is another user's, of its own document, never a second time and
\* never out of its author's order, whatever is dropped, evicted or broken.
THEOREM ImplementsRoom == Spec => RefinesRoom
<1>1. Init => RoomAbs!Init
  BY DEF Init, RoomAbs!Init, RoomAbs!Source
<1>2. TypeOK /\ Delivery /\ [Next]_vars => [RoomAbs!Next]_(RoomAbs!roomVars)
  <2> SUFFICES ASSUME TypeOK, Delivery, [Next]_vars
               PROVE  RoomAbs!Next \/ UNCHANGED <<wire, appends, tasks>>
    BY DEF RoomAbs!roomVars
  <2>1. ASSUME NEW c \in Conn, WriteFrame(c)
        PROVE  RoomAbs!Next \/ UNCHANGED <<wire, appends, tasks>>
    BY <2>1, WriteReceives
  <2>2. ASSUME NEW c \in Conn, ReadFrame(c)
        PROVE  RoomAbs!Next
    <3>1. appends' = [appends EXCEPT ![c] = @ + 1] /\ UNCHANGED <<wire, tasks>>
      BY <2>2 DEF ReadFrame, HandleUpdate
    <3>2. \A s \in Conn \union (User \X Doc) :
            (IF s \in Conn THEN appends'[s] ELSE tasks'[s]) =
              IF s = c THEN appends[c] + 1 ELSE IF s \in Conn THEN appends[s] ELSE tasks[s]
      BY <3>1 DEF TypeOK
    <3>3. RoomAbs!Post(c)
      BY <3>1, <3>2 DEF RoomAbs!Post
    <3> QED BY <3>3 DEF RoomAbs!Next, RoomAbs!Source
  <2>3. ASSUME NEW u \in User, NEW d \in Doc, AssignTask(u, d)
        PROVE  RoomAbs!Next
    <3>1. tasks' = [tasks EXCEPT ![<<u, d>>] = @ + 1] /\ UNCHANGED <<wire, appends>>
      BY <2>3 DEF AssignTask, connVars
    <3>2. <<u, d>> \in User \X Doc /\ <<u, d>> \notin Conn
      BY HubAssumption
    <3>3. RoomAbs!Post(<<u, d>>)
      BY <3>1, <3>2 DEF RoomAbs!Post, TypeOK
    <3> QED BY <3>2, <3>3 DEF RoomAbs!Next, RoomAbs!Source
  <2>4. ASSUME NEW c \in Conn,
               \/ Upgrade(c) \/ OnJoin(c) \/ ReadError(c) \/ SendUnregister(c)
               \/ CloseConn(c) \/ WriterReturns(c) \/ Disconnect(c)
        PROVE  UNCHANGED <<wire, appends, tasks>>
    BY <2>4 DEF Upgrade, OnJoin, ReadError, SendUnregister, CloseConn, WriterReturns,
                Disconnect
  <2>5. CASE HubRegister \/ HubUnregister \/ HubBroadcast \/ UNCHANGED vars
    BY <2>5 DEF HubRegister, HubUnregister, HubBroadcast, vars, connVars
  <2> QED BY <2>1, <2>2, <2>3, <2>4, <2>5 DEF Next
<1> QED BY <1>1, <1>2, DeliveryInvariant, PTL DEF Spec, RefinesRoom, RoomAbs!Spec
=============================================================================
