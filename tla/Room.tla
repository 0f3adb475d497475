-------------------------------- MODULE Room --------------------------------
(***************************************************************************)
(* What the hub promises to the browsers of a document, without channels,  *)
(* goroutines or registry: best-effort, at-most-once, per-source ordered   *)
(* delivery, to the other users of the same document only.                 *)
(*                                                                         *)
(* A source is a connection (its binary frames) or a pair <<user, document>>*)
(* (the task events the user posts there).  <<s, k>> is the k-th payload of *)
(* source s.  Payloads may be skipped: full Broadcast buffer, eviction,    *)
(* broken socket.                                                          *)
(***************************************************************************)
EXTENDS Naturals, Sequences

CONSTANTS Conn, User, Doc, UserOf, DocOf, Blob

VARIABLES
  posted,   \* [Source -> Nat]: how many payloads the server took from each
  inbox     \* [Conn -> Seq]: the payloads each browser received, in order

roomVars == <<posted, inbox>>

Source == Conn \union (User \X Doc)
Author(s) == IF s \in Conn THEN UserOf[s] ELSE s[1]
Place(s) == IF s \in Conn THEN DocOf[s] ELSE s[2]

Init ==
  /\ posted = [s \in Source |-> 0]
  /\ inbox = [c \in Conn |-> <<>>]

Post(s) ==
  /\ posted' = [posted EXCEPT ![s] = @ + 1]
  /\ UNCHANGED inbox

\* Every payload of source s that c already holds is older than k.
Newer(c, s, k) ==
  \A i \in DOMAIN inbox[c] :
    inbox[c][i] # Blob /\ inbox[c][i][1] = s => inbox[c][i][2] < k

Receive(c, s, k) ==
  /\ Place(s) = DocOf[c]
  /\ Author(s) # UserOf[c]
  /\ Newer(c, s, k)
  /\ inbox' = [inbox EXCEPT ![c] = Append(@, <<s, k>>)]
  /\ UNCHANGED posted

\* The joiner's copy of the stored document, sent at most once.
ReceiveBlob(c) ==
  /\ \A i \in DOMAIN inbox[c] : inbox[c][i] # Blob
  /\ inbox' = [inbox EXCEPT ![c] = Append(@, Blob)]
  /\ UNCHANGED posted

Next ==
  \E s \in Source :
    \/ Post(s)
    \/ \E c \in Conn :
         \/ ReceiveBlob(c)
         \/ \E k \in 1 .. posted[s] : Receive(c, s, k)

Spec == Init /\ [][Next]_roomVars
=============================================================================
