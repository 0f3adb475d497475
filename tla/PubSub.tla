-------------------------------- MODULE PubSub --------------------------------
(***************************************************************************)
(* Several server processes joined by the Redis bridge of pubsub/redis.go, *)
(* wired as its comments and the README's data flow say, for no code calls *)
(* it: a connection's ReadPump offers a diff to its own hub and then       *)
(* publishes it; every server, the publisher's included, subscribes to all *)
(* documents and offers what it receives to its own hub.                   *)
(*                                                                         *)
(* Redis fans a PUBLISH out to the subscribers' buffers at once and keeps  *)
(* nothing.  Its client repeats a PUBLISH that got no answer; the first    *)
(* one may have been carried out, or be carried out later.                 *)
(*                                                                         *)
(* The hubs are reduced to who is in their maps and what they do with a    *)
(* message: it goes to the other registered users of the document in order,*)
(* and a client that cannot take it is evicted.  The panic of a hub is in  *)
(* Hub, with the channels a registration waits in.                         *)
(***************************************************************************)
EXTENDS Naturals, SequencesExt

CONSTANTS
  Server, Conn, User, Doc,
  Home,          \* the server each connection is on
  UserOf, DocOf,
  BroadcastCap,  \* capacity of each Hub.Broadcast, 512
  MaxFrames,     \* bound: diffs each browser sends
  MaxTimeouts    \* bound: PUBLISH commands without an answer

ASSUME PubSubAssumption ==
  /\ Home \in [Conn -> Server]
  /\ UserOf \in [Conn -> User] /\ DocOf \in [Conn -> Doc]
  /\ BroadcastCap \in Nat \ {0}
  /\ MaxFrames \in [Conn -> Nat] /\ MaxTimeouts \in Nat

VARIABLES
  handled,     \* diffs HandleUpdate has taken from each connection
  publishing,  \* its ReadPump is inside Publish
  late,        \* unanswered PUBLISH commands Redis may still carry out
  channel,     \* messages on their way to each server's Subscribe goroutine
  broadcastQ,  \* Hub.Broadcast of each server
  registered,  \* connections a hub has taken from its Register channel
  gone,        \* those of them that it has taken out of its map since
  left,        \* connections whose ReadPump has ended and unregistered
  inbox,       \* payloads each connection was sent
  timeouts,
  \* history:
  dropped,     \* diffs that found the Broadcast of their own server full
  missed,      \* diffs its hub routed before each connection was registered
  asked        \* how often Redis was asked to publish each diff

bridgeVars == <<handled, publishing, late, channel, broadcastQ, timeouts, dropped, asked>>
clientVars == <<registered, gone, left, inbox, missed>>
vars == <<bridgeVars, clientVars>>

\* <<c, k>> is the k-th diff of connection c.
Diff == UNION {{c} \X (1 .. MaxFrames[c]) : c \in Conn}
Message == [SenderID : User, DocID : Doc, Payload : Diff]

Init ==
  /\ handled = [c \in Conn |-> 0]
  /\ publishing = [c \in Conn |-> FALSE]
  /\ late = {}
  /\ channel = [s \in Server |-> <<>>]
  /\ broadcastQ = [s \in Server |-> <<>>]
  /\ registered = {} /\ gone = {} /\ left = {}
  /\ inbox = [c \in Conn |-> <<>>]
  /\ timeouts = 0
  /\ dropped = {}
  /\ missed = [c \in Conn |-> {}]
  /\ asked = [f \in Diff |-> 0]

-----------------------------------------------------------------------------
(* The publishing side.                                                     *)

\* Mutant of Offered: the bound of the buffer is not enforced.
OfferedAlways(q, msg) == Append(q, msg)

\* Mutant of Offered: a full buffer loses its oldest message instead.
OfferedDropsOldest(q, msg) ==
  Append(IF Len(q) < BroadcastCap THEN q ELSE Tail(q), msg)

\* A non-blocking send to a Hub.Broadcast.
Offered(q, msg) == IF Len(q) < BroadcastCap THEN Append(q, msg) ELSE q

\* The message of the diff a connection has just sent.
Msg(c, k) == [SenderID |-> UserOf[c], DocID |-> DocOf[c], Payload |-> <<c, k>>]

\* Mutant of Envelope: the sender is left out.
EnvelopeUnsigned(msg) ==
  [sender_id |-> CHOOSE u \in User : u # msg.SenderID,
   doc_id |-> msg.DocID, payload |-> msg.Payload]

\* The JSON object published, and the message made of it on arrival.
Envelope(msg) ==
  [sender_id |-> msg.SenderID, doc_id |-> msg.DocID, payload |-> msg.Payload]
Opened(env) ==
  [SenderID |-> env.sender_id, DocID |-> env.doc_id, Payload |-> env.payload]

\* The broadcast in HandleUpdate.  Its background insert and its count touch
\* neither a hub nor Redis.
BroadcastLocally(s, msg) ==
  /\ broadcastQ' = [broadcastQ EXCEPT ![s] = Offered(@, msg)]
  /\ dropped' = IF Len(broadcastQ[s]) < BroadcastCap
                   THEN dropped ELSE dropped \union {msg.Payload}

\* "Called from sync/handler.go AFTER local Hub.Broadcast": the call is not in
\* handler.go, so where it is made is what the comment on Publish says.
ThenPublish(c, msg) ==
  /\ publishing' = [publishing EXCEPT ![c] = TRUE]
  /\ asked' = [asked EXCEPT ![msg.Payload] = 1]

HandleUpdate(c) ==
  /\ c \notin left /\ ~publishing[c]
  /\ handled[c] < MaxFrames[c]
  /\ LET msg == Msg(c, handled[c] + 1)
     IN  BroadcastLocally(Home[c], msg) /\ ThenPublish(c, msg)
  /\ handled' = [handled EXCEPT ![c] = @ + 1]
  /\ UNCHANGED <<late, channel, timeouts, clientVars>>

FanOut(msg) == channel' = [s \in Server |-> Append(channel[s], Envelope(msg))]

Publish(c) ==
  /\ publishing[c]
  /\ FanOut(Msg(c, handled[c]))
  /\ publishing' = [publishing EXCEPT ![c] = FALSE]
  /\ UNCHANGED <<handled, late, broadcastQ, timeouts, dropped, asked, clientVars>>

\* No connection to Redis, or no attempt left: Publish returns an error.
PublishFails(c) ==
  /\ publishing[c]
  /\ publishing' = [publishing EXCEPT ![c] = FALSE]
  /\ UNCHANGED <<handled, late, channel, broadcastQ, timeouts, dropped, asked,
                 clientVars>>

\* The PUBLISH is not answered in time, and the Redis client tries again.
PublishTimesOut(c) ==
  /\ publishing[c]
  /\ timeouts < MaxTimeouts
  /\ LET msg == Msg(c, handled[c])
     IN  /\ late' = late \union {<<timeouts, msg>>}
         /\ asked' = [asked EXCEPT ![msg.Payload] = @ + 1]
  /\ timeouts' = timeouts + 1
  /\ UNCHANGED <<handled, publishing, channel, broadcastQ, dropped, clientVars>>

\* Redis carries out the first PUBLISH after all.
PublishedLate ==
  /\ \E attempt \in late : FanOut(attempt[2]) /\ late' = late \ {attempt}
  /\ UNCHANGED <<handled, publishing, broadcastQ, timeouts, dropped, asked,
                 clientVars>>

-----------------------------------------------------------------------------
(* The subscribing side.                                                    *)

\* Mutant of Ready: a goroutine for each message.
ReadyAny(q) == DOMAIN q

\* Positions in the channel that the range statement may take next.
Ready(q) == DOMAIN q \intersect {1}

\* Mutant of Relay: what is received is handled like a diff from a browser.
RelayRepublishes(s) ==
  /\ \E i \in Ready(channel[s]) :
       /\ Len(channel[s]) < 4
       /\ channel' = [t \in Server |->
            Append(IF t = s THEN RemoveAt(channel[t], i) ELSE channel[t], channel[s][i])]
       /\ broadcastQ' = [broadcastQ EXCEPT ![s] = Offered(@, Opened(channel[s][i]))]
  /\ UNCHANGED <<handled, publishing, late, timeouts, dropped, asked, clientVars>>

\* An iteration of Subscribe's loop.
Relay(s) ==
  /\ \E i \in Ready(channel[s]) :
       /\ channel' = [channel EXCEPT ![s] = RemoveAt(@, i)]
       /\ broadcastQ' = [broadcastQ EXCEPT ![s] = Offered(@, Opened(channel[s][i]))]
  /\ UNCHANGED <<handled, publishing, late, timeouts, dropped, asked, clientVars>>

\* The subscription was down, the client's buffer overflowed, or the message
\* cannot be unmarshalled and is skipped.
Lose(s) ==
  /\ channel[s] # <<>>
  /\ channel' = [channel EXCEPT ![s] = Tail(@)]
  /\ UNCHANGED <<handled, publishing, late, broadcastQ, timeouts, dropped, asked,
                 clientVars>>

-----------------------------------------------------------------------------
(* The hubs.                                                                *)

\* The clients in the maps of the hubs.
Clients == registered \ gone

\* The map is keyed by user: a user has one client on a server.
Session(c) == {d \in Clients : Home[d] = Home[c] /\ UserOf[d] = UserOf[c]}

\* The hub takes a new client, in place of the user's former one.
Register(c) ==
  /\ c \notin registered
  /\ registered' = registered \union {c}
  /\ gone' = gone \union Session(c)
  /\ UNCHANGED <<bridgeVars, left, inbox, missed>>

\* A ReadPump ends, and the hub takes whichever client of its user is in the
\* map out of it.  The unregistration may overtake the registration.
Unregister(c) ==
  /\ c \notin left /\ ~publishing[c]
  /\ left' = left \union {c}
  /\ gone' = gone \union Session(c)
  /\ UNCHANGED <<bridgeVars, registered, inbox, missed>>

\* The hub takes a message.
Route(s) ==
  /\ broadcastQ[s] # <<>>
  /\ LET msg == Head(broadcastQ[s])
         to == {c \in Clients : /\ Home[c] = s
                                /\ UserOf[c] # msg.SenderID
                                /\ DocOf[c] = msg.DocID}
     IN  /\ \E slow \in SUBSET to :
              /\ inbox' = [c \in Conn |->
                   IF c \in to \ slow THEN Append(inbox[c], msg.Payload) ELSE inbox[c]]
              /\ gone' = gone \union slow
         /\ missed' = [c \in Conn |->
              IF Home[c] = s /\ c \notin registered
                THEN missed[c] \union {msg.Payload} ELSE missed[c]]
  /\ broadcastQ' = [broadcastQ EXCEPT ![s] = Tail(@)]
  /\ UNCHANGED <<handled, publishing, late, channel, timeouts, dropped, asked,
                 registered, left>>

Next ==
  \/ \E c \in Conn :
       \/ HandleUpdate(c) \/ Publish(c) \/ PublishFails(c) \/ PublishTimesOut(c)
       \/ Register(c) \/ Unregister(c)
  \/ PublishedLate
  \/ \E s \in Server : Relay(s) \/ Lose(s) \/ Route(s)

Spec == Init /\ [][Next]_vars

-----------------------------------------------------------------------------
TypeOK ==
  /\ handled \in [Conn -> Nat] /\ \A c \in Conn : handled[c] <= MaxFrames[c]
  /\ publishing \in [Conn -> BOOLEAN]
  /\ late \subseteq Nat \X Message
  /\ channel \in [Server -> Seq([sender_id : User, doc_id : Doc, payload : Diff])]
  /\ broadcastQ \in [Server -> Seq(Message)]
  /\ \A s \in Server : Len(broadcastQ[s]) <= BroadcastCap
  /\ registered \subseteq Conn /\ gone \subseteq registered /\ left \subseteq Conn
  /\ inbox \in [Conn -> Seq(Diff)]
  /\ timeouts \in 0 .. MaxTimeouts
  /\ dropped \subseteq Diff /\ missed \in [Conn -> SUBSET Diff]
  /\ asked \in [Diff -> Nat]

Copies(c, f) == {i \in DOMAIN inbox[c] : inbox[c][i] = f}
Remote(c, f) == Home[f[1]] # Home[c]

\* Two roads lead to a browser and Redis echoes to the publisher: still nobody
\* is sent their own diff back, on whatever server their connections are, nor a
\* diff of another document.
OnlyToOthersOnTheDocument ==
  \A c \in Conn : \A i \in DOMAIN inbox[c] :
    LET author == inbox[c][i][1]
    IN  UserOf[author] # UserOf[c] /\ DocOf[author] = DocOf[c]

\* A browser gets a diff as often as Redis was asked to publish it, and once
\* more on the author's own server, never more: the bridge has no loop.
CopiesAreBounded ==
  \A c \in Conn, f \in Diff :
    Cardinality(Copies(c, f)) <= asked[f] + (IF Remote(c, f) THEN 0 ELSE 1)

\* On the other servers the bridge keeps what one hub promises (Room): an
\* author's diffs arrive in order and at most once, as long as none of the
\* PUBLISH commands concerned went unanswered.
BridgeKeepsOrder ==
  \A c \in Conn : \A i, j \in DOMAIN inbox[c] :
    LET f == inbox[c][i]  g == inbox[c][j]
    IN  i < j /\ f[1] = g[1] /\ Remote(c, f) =>
          f[2] < g[2] \/ asked[f] > 1 \/ asked[g] > 1

\* On the author's own server an echo never overtakes: a diff first arrives
\* after a newer one only if the hub's buffer was full when it was handled, or
\* if the browser was not registered yet when its hub first routed it.
EchoesComeSecond ==
  \A c \in Conn : \A i, j \in DOMAIN inbox[c] :
    LET f == inbox[c][i]  g == inbox[c][j]
    IN  (i < j /\ f[1] = g[1] /\ g[2] < f[2] /\ ~Remote(c, f)
           /\ \A n \in Copies(c, g) : j <= n)
          => g \in dropped \/ g \in missed[c]
=============================================================================
