--------------------------------- MODULE Hub ---------------------------------
(***************************************************************************)
(* The connection layer of one EqualInk server process: the Hub goroutine  *)
(* (hub/hub.go), the clients it routes to (hub/client.go), and for every   *)
(* WebSocket connection the HTTP handler that becomes its ReadPump         *)
(* (api/ws_handler.go, ws/read_pump.go, sync/handler.go HandleUpdate) and  *)
(* its WritePump (ws/write_pump.go).  REST requests that post to the hub   *)
(* (sync/handler.go AssignTask) come from users with or without one.       *)
(*                                                                         *)
(* Go channels are sequences with a capacity.  A panic on the Hub          *)
(* goroutine is not recovered and takes the process down: panicked stays   *)
(* TRUE and no action is enabled any more.  All of this state is in RAM,   *)
(* so a restarted process is simply Init again.                            *)
(***************************************************************************)
EXTENDS Naturals, Sequences

CONSTANTS
  Conn,          \* connections, each with its own *hub.Client
  User, Doc,
  UserOf, DocOf, \* the Client fields UserID and DocID
  None,          \* "no entry" in the clients map
  Blob,          \* the payload OnJoin sends: the stored document
  RegisterCap, UnregisterCap, BroadcastCap, SendCap,  \* 64, 64, 512, 256
  MaxFrames,     \* bound: how many frames each connection's browser sends
  MaxTasks       \* bound: how many tasks each user assigns in each document

ASSUME HubAssumption ==
  /\ UserOf \in [Conn -> User]
  /\ DocOf \in [Conn -> Doc]
  /\ None \notin Conn
  /\ {RegisterCap, UnregisterCap, BroadcastCap, SendCap} \subseteq Nat \ {0}
  /\ MaxFrames \in [Conn -> Nat]
  /\ MaxTasks \in [User \X Doc -> Nat]
  /\ Conn \intersect (User \X Doc) = {}
  /\ Blob \notin (Conn \union (User \X Doc)) \X Nat

VARIABLES
  clients,      \* Hub.clients: [User -> Conn or None]
  registerQ,    \* Hub.Register
  unregisterQ,  \* Hub.Unregister
  broadcastQ,   \* Hub.Broadcast
  send,         \* Client.Send: the buffered payloads
  closed,       \* Client.Send has been closed
  handler,      \* where the HTTP handler goroutine of the connection is
  writer,       \* where its WritePump goroutine is
  conn,         \* the socket: none yet, open, or down (peer gone or closed)
  wire,         \* payloads written to the socket, i.e. what the browser got
  appends,      \* frames of the connection handed to go AppendUpdate
  edits,        \* Tracker.Record calls per document and user
  tasks,        \* task_assigned events posted per user and document
  panicked,     \* the Hub goroutine has panicked
  overlapped    \* history: some user opened a connection while the server
                \* still held an earlier one of theirs

chanVars == <<registerQ, unregisterQ, broadcastQ, send, closed>>
connVars == <<handler, writer, conn, wire, appends, edits, overlapped>>
vars == <<clients, chanVars, connVars, tasks, panicked>>

\* <<s, k>> is the k-th frame of connection s, or the k-th task event of
\* s = <<user, document>>.
Frame == (Conn \union (User \X Doc)) \X Nat
Payload == Frame \union {Blob}
Message == [SenderID : User, DocID : Doc, Payload : Frame]

InQueue(c, q) == \E i \in DOMAIN q : q[i] = c

\* The server still has something of connection c: a handler that will
\* (or did not yet) unregister it, a queued hub request, or a map entry.
Held(c) ==
  \/ handler[c] \in {"joining", "reading", "leaving"}
  \/ InQueue(c, registerQ)
  \/ InQueue(c, unregisterQ)
  \/ clients[UserOf[c]] = c

Init ==
  /\ clients = [u \in User |-> None]
  /\ registerQ = <<>>
  /\ unregisterQ = <<>>
  /\ broadcastQ = <<>>
  /\ send = [c \in Conn |-> <<>>]
  /\ closed = [c \in Conn |-> FALSE]
  /\ handler = [c \in Conn |-> "new"]
  /\ writer = [c \in Conn |-> "none"]
  /\ conn = [c \in Conn |-> "none"]
  /\ wire = [c \in Conn |-> <<>>]
  /\ appends = [c \in Conn |-> 0]
  /\ edits = [d \in Doc |-> [u \in User |-> 0]]
  /\ tasks = [s \in User \X Doc |-> 0]
  /\ panicked = FALSE
  /\ overlapped = FALSE

-----------------------------------------------------------------------------
(* The Hub goroutine: Hub.Run's select takes any ready case.               *)

\* close(client.Send): closing a closed channel panics.
CloseSend(c) ==
  IF closed[c]
    THEN panicked' = TRUE /\ UNCHANGED closed
    ELSE closed' = [closed EXCEPT ![c] = TRUE] /\ UNCHANGED panicked

HubRegister ==
  /\ ~panicked
  /\ registerQ # <<>>
  /\ LET c == Head(registerQ)
         old == clients[UserOf[c]]
     IN  /\ IF old # None THEN CloseSend(old) ELSE UNCHANGED <<closed, panicked>>
         /\ clients' = [clients EXCEPT ![UserOf[c]] = c]
  /\ registerQ' = Tail(registerQ)
  /\ UNCHANGED <<unregisterQ, broadcastQ, send, connVars, tasks>>

\* Mutant of HubUnregister: the entry stays in the map.
HubUnregisterForgets ==
  /\ ~panicked
  /\ unregisterQ # <<>>
  /\ LET c == Head(unregisterQ)
     IN  IF clients[UserOf[c]] # None THEN CloseSend(c)
                                      ELSE UNCHANGED <<closed, panicked>>
  /\ unregisterQ' = Tail(unregisterQ)
  /\ UNCHANGED <<clients, registerQ, broadcastQ, send, connVars, tasks>>

\* The map is looked up by user: the entry found may belong to another
\* connection of that user.
HubUnregister ==
  /\ ~panicked
  /\ unregisterQ # <<>>
  /\ LET c == Head(unregisterQ)
     IN  IF clients[UserOf[c]] # None
           THEN /\ clients' = [clients EXCEPT ![UserOf[c]] = None]
                /\ CloseSend(c)
           ELSE UNCHANGED <<clients, closed, panicked>>
  /\ unregisterQ' = Tail(unregisterQ)
  /\ UNCHANGED <<registerQ, broadcastQ, send, connVars, tasks>>

\* Mutant of Receivers: the document is not compared.
ReceiversAnywhere(msg) ==
  {c \in Conn : clients[UserOf[c]] = c /\ UserOf[c] # msg.SenderID}

\* Registered clients on the message's document, the sender's own excluded.
Receivers(msg) ==
  {c \in Conn : /\ clients[UserOf[c]] = c
                /\ UserOf[c] # msg.SenderID
                /\ DocOf[c] = msg.DocID}

Full(c) == Len(send[c]) >= SendCap

\* Mutant of Evict: the registry entry is not deleted.
EvictKeepsEntry(slow) ==
  /\ closed' = [c \in Conn |-> closed[c] \/ c \in slow]
  /\ UNCHANGED clients

\* Mutant of Evict: the channel is not closed.
EvictKeepsOpen(slow) ==
  /\ clients' = [u \in User |-> IF clients[u] \in slow THEN None ELSE clients[u]]
  /\ UNCHANGED closed

\* Mutant of Evict: a full channel only loses the message.
EvictNobody(slow) == UNCHANGED <<clients, closed>>

\* Slow consumers: channel closed and registry entry deleted.
Evict(slow) ==
  /\ closed' = [c \in Conn |-> closed[c] \/ c \in slow]
  /\ clients' = [u \in User |-> IF clients[u] \in slow THEN None ELSE clients[u]]

\* One pass over the clients map: a non-blocking send to each receiver.
\* Sending on a closed channel panics, wherever in the pass it happens.
HubBroadcast ==
  /\ ~panicked
  /\ broadcastQ # <<>>
  /\ LET msg == Head(broadcastQ)
         to == Receivers(msg)
         slow == {c \in to : Full(c)}
     IN  IF \E c \in to : closed[c]
           THEN panicked' = TRUE /\ UNCHANGED <<clients, send, closed>>
           ELSE /\ send' = [c \in Conn |->
                              IF c \in to \ slow THEN Append(send[c], msg.Payload)
                                                 ELSE send[c]]
                /\ Evict(slow)
                /\ UNCHANGED panicked
  /\ broadcastQ' = Tail(broadcastQ)
  /\ UNCHANGED <<registerQ, unregisterQ, connVars, tasks>>

-----------------------------------------------------------------------------
(* The HTTP handler goroutine of a connection (WSHandler, then ReadPump).   *)

\* Upgrade, NewClient, and the (blocking) send h.Register <- client.  A
\* request refused before that (token, doc, access, failed upgrade) changes
\* nothing: its connection stays "new".
Upgrade(c) ==
  /\ ~panicked
  /\ handler[c] = "new"
  /\ Len(registerQ) < RegisterCap
  /\ registerQ' = Append(registerQ, c)
  /\ conn' = [conn EXCEPT ![c] = "open"]
  /\ handler' = [handler EXCEPT ![c] = "joining"]
  /\ overlapped' = (overlapped \/ \E d \in Conn : UserOf[d] = UserOf[c] /\ Held(d))
  /\ UNCHANGED <<clients, unregisterQ, broadcastQ, send, closed, writer, wire,
                 appends, edits, tasks, panicked>>

\* go WritePump; this goroutine goes on as ReadPump.
StartPumps(c) ==
  /\ handler' = [handler EXCEPT ![c] = "reading"]
  /\ writer' = [writer EXCEPT ![c] = "running"]

\* OnJoin puts the stored document on Client.Send, blocking while it is
\* full, or reports a database error that is only logged.  If the hub has
\* closed the channel meanwhile the send panics; net/http recovers that
\* panic, so the goroutine ends with no pump and nobody left to unregister.
OnJoin(c) ==
  /\ ~panicked
  /\ handler[c] = "joining"
  /\ \/ StartPumps(c) /\ UNCHANGED send
     \/ /\ ~closed[c] /\ ~Full(c)
        /\ send' = [send EXCEPT ![c] = Append(@, Blob)]
        /\ StartPumps(c)
     \/ /\ closed[c]
        /\ handler' = [handler EXCEPT ![c] = "leaked"]
        /\ UNCHANGED <<send, writer>>
  /\ UNCHANGED <<clients, registerQ, unregisterQ, broadcastQ, closed, conn,
                 wire, appends, edits, tasks, panicked, overlapped>>

\* Mutant of Offer: the bound of the buffer is not enforced.
OfferAlways(msg) == broadcastQ' = Append(broadcastQ, msg)

\* The non-blocking send to Hub.Broadcast: dropped when the buffer is full.
Offer(msg) ==
  broadcastQ' = IF Len(broadcastQ) < BroadcastCap
                  THEN Append(broadcastQ, msg) ELSE broadcastQ

\* HandleUpdate: persist (fire and forget), broadcast, track.
HandleUpdate(c, payload) ==
  /\ appends' = [appends EXCEPT ![c] = @ + 1]
  /\ Offer([SenderID |-> UserOf[c], DocID |-> DocOf[c], Payload |-> payload])
  /\ edits' = [edits EXCEPT ![DocOf[c]][UserOf[c]] = @ + 1]

\* ReadPump takes one binary frame; frames already buffered are still read
\* after the socket broke or WritePump closed it.
ReadFrame(c) ==
  /\ ~panicked
  /\ handler[c] = "reading"
  /\ appends[c] < MaxFrames[c]
  /\ HandleUpdate(c, <<c, appends[c] + 1>>)
  /\ UNCHANGED <<clients, registerQ, unregisterQ, send, closed, handler, writer,
                 conn, wire, tasks, panicked, overlapped>>

\* Peer gone, read deadline, read limit, or the socket closed by WritePump.
ReadError(c) ==
  /\ ~panicked
  /\ handler[c] = "reading"
  /\ handler' = [handler EXCEPT ![c] = "leaving"]
  /\ UNCHANGED <<clients, chanVars, writer, conn, wire, appends, edits, tasks,
                 panicked, overlapped>>

\* Deferred cleanup, first half: h.Unregister <- client (blocking).
SendUnregister(c) ==
  /\ ~panicked
  /\ handler[c] = "leaving"
  /\ Len(unregisterQ) < UnregisterCap
  /\ unregisterQ' = Append(unregisterQ, c)
  /\ handler' = [handler EXCEPT ![c] = "closing"]
  /\ UNCHANGED <<clients, registerQ, broadcastQ, send, closed, writer, conn,
                 wire, appends, edits, tasks, panicked, overlapped>>

\* Deferred cleanup, second half: conn.Close().
CloseConn(c) ==
  /\ ~panicked
  /\ handler[c] = "closing"
  /\ handler' = [handler EXCEPT ![c] = "done"]
  /\ conn' = [conn EXCEPT ![c] = "down"]
  /\ UNCHANGED <<clients, chanVars, writer, wire, appends, edits, tasks, panicked,
                 overlapped>>

-----------------------------------------------------------------------------
(* The WritePump goroutine, and the network.                                *)

\* A receive from Send; the error of the data write is ignored.
WriteFrame(c) ==
  /\ ~panicked
  /\ writer[c] = "running"
  /\ send[c] # <<>>
  /\ send' = [send EXCEPT ![c] = Tail(@)]
  /\ wire' = IF conn[c] = "open"
               THEN [wire EXCEPT ![c] = Append(@, Head(send[c]))] ELSE wire
  /\ UNCHANGED <<clients, registerQ, unregisterQ, broadcastQ, closed, handler,
                 writer, conn, appends, edits, tasks, panicked, overlapped>>

\* Mutant of StopWriter: WritePump returns without closing the socket.
StopWriterOnly(c) ==
  /\ writer' = [writer EXCEPT ![c] = "done"]
  /\ UNCHANGED conn

\* Return from WritePump: the deferred conn.Close().
StopWriter(c) ==
  /\ writer' = [writer EXCEPT ![c] = "done"]
  /\ conn' = [conn EXCEPT ![c] = "down"]

\* Send is closed and drained, or a ping cannot be written.
WriterReturns(c) ==
  /\ ~panicked
  /\ writer[c] = "running"
  /\ \/ closed[c] /\ send[c] = <<>>
     \/ conn[c] # "open"
  /\ StopWriter(c)
  /\ UNCHANGED <<clients, chanVars, handler, wire, appends, edits, tasks, panicked,
                 overlapped>>

\* The browser goes away, or the network does.
Disconnect(c) ==
  /\ ~panicked
  /\ conn[c] = "open"
  /\ conn' = [conn EXCEPT ![c] = "down"]
  /\ UNCHANGED <<clients, chanVars, handler, writer, wire, appends, edits, tasks,
                 panicked, overlapped>>

-----------------------------------------------------------------------------
\* POST /api/docs/:id/tasks, once the task is stored: the other people on the
\* document are told through the same channel.  A refused or failed insert
\* returns before this point and changes nothing here.
AssignTask(u, d) ==
  /\ ~panicked
  /\ tasks[<<u, d>>] < MaxTasks[<<u, d>>]
  /\ tasks' = [tasks EXCEPT ![<<u, d>>] = @ + 1]
  /\ Offer([SenderID |-> u, DocID |-> d,
            Payload |-> <<<<u, d>>, tasks[<<u, d>>] + 1>>])
  /\ UNCHANGED <<clients, registerQ, unregisterQ, send, closed, connVars, panicked>>

-----------------------------------------------------------------------------
Next ==
  \/ HubRegister
  \/ HubUnregister
  \/ HubBroadcast
  \/ \E c \in Conn :
       \/ Upgrade(c) \/ OnJoin(c)
       \/ ReadFrame(c) \/ ReadError(c) \/ SendUnregister(c) \/ CloseConn(c)
       \/ WriteFrame(c) \/ WriterReturns(c) \/ Disconnect(c)
  \/ \E u \in User, d \in Doc : AssignTask(u, d)

Spec == Init /\ [][Next]_vars

\* The hub never blocks and Go's select picks among ready cases at random;
\* goroutines run, OnJoin unless it is
\* blocked on a full channel; a broken or closed socket fails the next read (at the
\* latest when PongWait expires) and the next ping.
Fairness ==
  /\ WF_vars(HubRegister) /\ WF_vars(HubUnregister) /\ WF_vars(HubBroadcast)
  /\ \A c \in Conn :
       /\ WF_vars((closed[c] \/ ~Full(c)) /\ OnJoin(c))
       /\ WF_vars(conn[c] # "open" /\ ReadError(c))
       /\ WF_vars(SendUnregister(c)) /\ WF_vars(CloseConn(c))
       /\ WF_vars(WriteFrame(c)) /\ WF_vars(WriterReturns(c))

FairSpec == Spec /\ Fairness

-----------------------------------------------------------------------------
(* Properties.                                                              *)

TypeOK ==
  /\ clients \in [User -> Conn \union {None}]
  /\ \A u \in User : clients[u] # None => UserOf[clients[u]] = u
  /\ registerQ \in Seq(Conn) /\ Len(registerQ) <= RegisterCap
  /\ unregisterQ \in Seq(Conn) /\ Len(unregisterQ) <= UnregisterCap
  /\ broadcastQ \in Seq(Message) /\ Len(broadcastQ) <= BroadcastCap
  /\ send \in [Conn -> Seq(Payload)] /\ \A c \in Conn : Len(send[c]) <= SendCap
  /\ closed \in [Conn -> BOOLEAN]
  /\ handler \in [Conn -> {"new", "joining", "reading", "leaving", "closing",
                           "done", "leaked"}]
  /\ writer \in [Conn -> {"none", "running", "done"}]
  /\ conn \in [Conn -> {"none", "open", "down"}]
  /\ wire \in [Conn -> Seq(Payload)]
  /\ appends \in [Conn -> Nat]
  /\ edits \in [Doc -> [User -> Nat]]
  /\ tasks \in [User \X Doc -> Nat]
  /\ panicked \in BOOLEAN
  /\ overlapped \in BOOLEAN

\* What the hub relies on, and has as long as nobody's connections overlap:
\* one live connection per user, nothing closed in the map or waiting to get
\* into it, and every connection at most once in each channel.  This is the
\* inductive invariant behind the two properties that follow.
NoDup(q) == \A i, j \in DOMAIN q : q[i] = q[j] => i = j

OneHeldPerUser ==
  \A c, d \in Conn : UserOf[c] = UserOf[d] /\ Held(c) /\ Held(d) => c = d

ConnOK(c) ==
  /\ handler[c] = "new" => ~Held(c) /\ ~closed[c]
  /\ InQueue(c, registerQ) => ~closed[c] /\ clients[UserOf[c]] = None
  /\ clients[UserOf[c]] = c => ~closed[c]
  /\ handler[c] \in {"joining", "reading", "leaving"} => ~InQueue(c, unregisterQ)
  /\ handler[c] \in {"joining", "reading"} =>
       InQueue(c, registerQ) \/ clients[UserOf[c]] = c \/ closed[c]

Orderly ==
  /\ ~panicked
  /\ NoDup(registerQ) /\ NoDup(unregisterQ)
  /\ OneHeldPerUser
  /\ \A c \in Conn : ConnOK(c)

HubDiscipline == ~overlapped => Orderly

\* The hub closes a channel twice, or sends on a closed one, only if some
\* user opened a connection while the server still held an earlier one.
PanicNeedsOverlap == panicked => overlapped

\* Without overlapping connections nobody is silently cut off: a connection
\* that is still being read is registered, about to be, or has its Send
\* channel closed, which ends it and makes the browser reconnect.
NoDeafConnection ==
  \A c \in Conn :
    handler[c] \in {"joining", "reading"} /\ ~overlapped =>
      InQueue(c, registerQ) \/ clients[UserOf[c]] = c \/ closed[c]

-----------------------------------------------------------------------------
RoomAbs == INSTANCE Room WITH
  posted <- [s \in Conn \union (User \X Doc) |->
               IF s \in Conn THEN appends[s] ELSE tasks[s]],
  inbox <- wire

\* The connection layer implements best-effort ordered delivery: what a
\* browser gets is never its own user's, never another document's, never
\* twice and never out of its author's order.
RefinesRoom == RoomAbs!Spec
=============================================================================
