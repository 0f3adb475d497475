-------------------------------- MODULE MCHub --------------------------------
(***************************************************************************)
(* Instances of Hub for TLC: who opens which connection on which document, *)
(* and who posts how much.                                                 *)
(***************************************************************************)
EXTENDS Hub, TLC

CONSTANTS c1, c2, alice, bob, d1, d2

\* Alice reconnects, or opens a second tab; bob has no connection.
TabsUserOf == (c1 :> alice) @@ (c2 :> alice)
TabsFrames == (c1 :> 1) @@ (c2 :> 0)

\* Both connections in the same document, or in a document each.
BothInD1 == (c1 :> d1) @@ (c2 :> d1)
EachInOne == (c1 :> d1) @@ (c2 :> d2)

\* Bob assigns a task in d1.
OneTask == [s \in User \X Doc |-> IF s = <<bob, d1>> THEN 1 ELSE 0]

-----------------------------------------------------------------------------
\* What the documentation says of the hub and the code does not do.

\* hub.go:59, "It runs forever until the process exits."
RunsForever == ~panicked

-----------------------------------------------------------------------------
\* Liveness.

\* Nothing is left of the connection: its goroutines have returned and the
\* hub has taken its request to unregister.  A leaked handler has returned
\* too, without ever starting a writer or unregistering.
Over(c) ==
  /\ handler[c] \in {"done", "leaked"}
  /\ writer[c] # "running"
  /\ ~InQueue(c, unregisterQ)

\* The leak: the hub filled Send while the handler was joining, so OnJoin
\* (ws_handler.go:87) waits for room that only the WritePump, which starts
\* after it, could make, and nothing reads the socket, which is gone.  The
\* next message for the connection evicts it and so ends this.
Stuck(c) ==
  handler[c] = "joining" /\ Full(c) /\ ~closed[c] /\ conn[c] = "down"

\* A connection that starts to end does end, whether the hub closes its Send,
\* its ReadPump returns or its socket breaks: closing Send stops the WritePump,
\* which closes the socket, which ends the ReadPump, whose cleanup gets through
\* the bounded Unregister channel and closes the socket, which stops the
\* WritePump.  The one exception is a join blocked on a full Send.
EveryConnectionEnds ==
  \A c \in Conn :
    closed[c] \/ handler[c] \in {"leaving", "closing", "done"} \/ conn[c] = "down"
      ~> Over(c) \/ panicked \/ Stuck(c)

\* A connection in good health: read, registered, not evicted, not broken.
Established(c) ==
  /\ handler[c] = "reading"
  /\ clients[UserOf[c]] = c
  /\ ~closed[c]
  /\ conn[c] = "open"

\* Live delivery gets through: a message the hub has taken in reaches every
\* healthy connection it is meant for, or that connection is cut off.
QueuedIsDelivered ==
  \A c \in {c \in Conn : DocOf[c] = d1} :
    LET msg == [SenderID |-> bob, DocID |-> d1, Payload |-> <<<<bob, d1>>, 1>>]
    IN  InQueue(msg, broadcastQ) /\ c \in Receivers(msg) /\ Established(c)
          ~> InQueue(msg.Payload, wire[c]) \/ ~Established(c)
=============================================================================
