----------------------------- MODULE PubSubProofs -----------------------------
(***************************************************************************)
(* What PubSub does for any number of servers, connections and diffs, any  *)
(* capacity of the hubs, and any number of unanswered PUBLISH commands.    *)
(*                                                                         *)
(* The argument follows what a connection was sent and will be sent along  *)
(* the road it takes: the channel of its server's Subscribe goroutine, that*)
(* server's Hub.Broadcast, the connection's inbox.  Order, completeness    *)
(* and number of copies are stated for the road as a whole; each step moves*)
(* the first payload of a stage to the end of the next, or loses it.       *)
(***************************************************************************)
EXTENDS PubSub, FiniteSetTheorems, TLAPS

-----------------------------------------------------------------------------
(* Sequences as channels.                                                   *)

\* The set of what a channel holds, in any order.
Elems(q) == {q[i] : i \in DOMAIN q}

\* q is in the order given by R, a set of pairs.
Ordered(q, R) == \A i, j \in DOMAIN q : i < j => <<q[i], q[j]>> \in R

\* What N[e] says comes before e is in X, or in q before e.
Closed(q, N, X) == \A j \in DOMAIN q : N[q[j]] \subseteq X \union {q[i] : i \in 1 .. j - 1}

\* How often q holds e.
Count(q, e) == Cardinality({i \in DOMAIN q : q[i] = e})

-----------------------------------------------------------------------------
(* The road to a connection.                                                *)

\* The payloads in a Hub.Broadcast, and in a channel from Redis.
Payloads(q) == [i \in DOMAIN q |-> q[i].Payload]
Carried(q) == [i \in DOMAIN q |-> Opened(q[i]).Payload]

Queued(c) == Payloads(broadcastQ[Home[c]])
Coming(c) == Carried(channel[Home[c]])
Road(c) == Elems(inbox[c]) \union Elems(Queued(c)) \union Elems(Coming(c))

\* Three stages of a road are in the order R, each and one after the other.
Aligned(i, q, h, R) ==
  /\ Ordered(i, R) /\ Ordered(q, R) /\ Ordered(h, R)
  /\ \A f \in Elems(i), g \in Elems(q) \union Elems(h) : <<f, g>> \in R
  /\ \A f \in Elems(q), g \in Elems(h) : <<f, g>> \in R

\* The diff is one that HandleUpdate has taken.
Known(f) == f[2] <= handled[f[1]]

\* Its author is another user on the document of c.
Wanted(c, f) == UserOf[f[1]] # UserOf[c] /\ DocOf[f[1]] = DocOf[c]

\* Its ReadPump is inside Publish.
Owed(f) == publishing[f[1]] /\ f[2] = handled[f[1]]

\* The message is what its author's connection sent.
Genuine(m) ==
  /\ m.SenderID = UserOf[m.Payload[1]]
  /\ m.DocID = DocOf[m.Payload[1]]
  /\ Known(m.Payload)

\* Nothing is forged on the way; Redis is asked for what was handled, and what
\* it may still carry out it was asked for again.
Honest ==
  /\ \A c \in Conn : publishing[c] => handled[c] # 0
  /\ \A f \in Diff : asked[f] # 0 <=> Known(f)
  /\ \A x \in late : Genuine(x[2]) /\ asked[x[2].Payload] > 1
  /\ \A s \in Server :
       /\ \A m \in Elems(broadcastQ[s]) : Genuine(m)
       /\ \A e \in Elems(channel[s]) : Genuine(Opened(e))
  /\ \A c \in Conn : \A f \in Elems(inbox[c]) : Known(f) /\ Wanted(c, f)

\* The order in which server s is promised the diffs of the other servers.
Precedes(s) ==
  {x \in Diff \X Diff :
     x[1][1] = x[2][1] /\ Home[x[1][1]] # s =>
       x[1][2] < x[2][2] \/ asked[x[1]] > 1 \/ asked[x[2]] > 1}

\* The road is in that order, and stays so when the diff that is being
\* published joins it.
RoadInOrder(c) ==
  /\ Aligned(inbox[c], Queued(c), Coming(c), Precedes(Home[c]))
  /\ \A f \in Road(c) : Remote(c, f) /\ Owed(f) => asked[f] > 1

\* Neither has the hub had no room for f, nor routed it before c registered.
Due(c, f) == f \notin dropped /\ f \notin missed[c]

\* The diffs that the hub took before f and should have sent c before it.
Sooner(c) ==
  [f \in Diff |-> {g \in Diff : /\ ~Remote(c, g) /\ Wanted(c, g) /\ Due(c, g)
                                /\ g[1] = f[1] /\ g[2] < f[2]}]

\* Whatever is on the road behind Redis, what an author on the same server
\* sent sooner and the hub had room for is ahead of it, unless the hub routed
\* it before the connection was registered.
RoadClosed(c) ==
  /\ Closed(inbox[c], Sooner(c), {})
  /\ c \notin gone =>
       /\ Closed(Queued(c), Sooner(c), Elems(inbox[c]))
       /\ \A f \in Diff : ~Remote(c, f) /\ Wanted(c, f) /\ Known(f) /\ Due(c, f)
                            => f \in Elems(inbox[c]) \union Elems(Queued(c))

\* The copies of f that Redis may still be asked for: late, and the next one.
Late(f) == {x \in late : x[2].Payload = f}
Pending(f) == Cardinality(Late(f)) + (IF Owed(f) THEN 1 ELSE 0)

\* Copies on the road and copies to come, against what Redis was asked for.
RoadCounted(c) ==
  \A f \in Diff :
    Count(inbox[c], f) + Count(Queued(c), f) + Count(Coming(c), f) + Pending(f)
      <= asked[f] + (IF Remote(c, f) THEN 0 ELSE 1)

-----------------------------------------------------------------------------
(* Lemmas about channels: a send, a receive, and a conversion of all that is*)
(* in one.                                                                  *)

\* A send puts the element last.
LEMMA SendLast ==
  ASSUME NEW S, NEW q \in Seq(S), NEW e \in S
  PROVE  /\ Elems(Append(q, e)) = Elems(q) \union {e}
         /\ \A R : Ordered(q, R) /\ (\A f \in Elems(q) : <<f, e>> \in R)
                    => Ordered(Append(q, e), R)
         /\ \A N, X : Closed(q, N, X) /\ N[e] \subseteq X \union Elems(q)
                       => Closed(Append(q, e), N, X)
<1>1. /\ DOMAIN Append(q, e) = 1 .. Len(q) + 1
      /\ DOMAIN q = 1 .. Len(q)
      /\ \A i \in 1 .. Len(q) : Append(q, e)[i] = q[i]
      /\ Append(q, e)[Len(q) + 1] = e
      /\ Len(q) \in Nat
  OBVIOUS
<1>2. Elems(Append(q, e)) = Elems(q) \union {e}
  BY <1>1 DEF Elems
<1>3. ASSUME NEW R, Ordered(q, R), \A f \in Elems(q) : <<f, e>> \in R
      PROVE  Ordered(Append(q, e), R)
  BY <1>1, <1>3 DEF Ordered, Elems
<1>4. ASSUME NEW N, NEW X, Closed(q, N, X), N[e] \subseteq X \union Elems(q)
      PROVE  Closed(Append(q, e), N, X)
  <2>1. ASSUME NEW j \in 1 .. Len(q) + 1
        PROVE  N[Append(q, e)[j]] \subseteq X \union {Append(q, e)[i] : i \in 1 .. j - 1}
    <3>1. {Append(q, e)[i] : i \in 1 .. j - 1} = {q[i] : i \in 1 .. j - 1}
      BY <1>1
    <3>2. CASE j = Len(q) + 1
      <4>1. 1 .. j - 1 = DOMAIN q
        BY <1>1, <3>2
      <4> QED BY <1>1, <1>4, <3>1, <3>2, <4>1 DEF Elems
    <3>3. CASE j # Len(q) + 1
      <4>1. j \in DOMAIN q /\ Append(q, e)[j] = q[j]
        BY <1>1, <3>3
      <4> QED BY <1>4, <3>1, <4>1 DEF Closed
    <3> QED BY <3>2, <3>3
  <2> QED BY <1>1, <2>1 DEF Closed
<1> QED BY <1>2, <1>3, <1>4

\* A receive takes the element everything else comes after.
LEMMA ReceiveFirst ==
  ASSUME NEW S, NEW q \in Seq(S), q # <<>>
  PROVE  /\ Head(q) \in S
         /\ Elems(q) = Elems(Tail(q)) \union {Head(q)}
         /\ \A R : Ordered(q, R) =>
              /\ Ordered(Tail(q), R)
              /\ \A f \in Elems(Tail(q)) : <<Head(q), f>> \in R
         /\ \A N, X : Closed(q, N, X) =>
              /\ N[Head(q)] \subseteq X
              /\ Closed(Tail(q), N, X \union {Head(q)})
<1>1. /\ Len(q) \in Nat \ {0}
      /\ Head(q) = q[1] /\ Head(q) \in S
      /\ DOMAIN q = 1 .. Len(q)
      /\ DOMAIN Tail(q) = 1 .. Len(q) - 1
      /\ \A i \in 1 .. Len(q) - 1 : Tail(q)[i] = q[i + 1]
  OBVIOUS
<1>2. \A i \in 1 .. Len(q) : i = 1 \/ (i - 1 \in 1 .. Len(q) - 1 /\ Tail(q)[i - 1] = q[i])
  BY <1>1
<1>3. \A i \in 1 .. Len(q) - 1 : i + 1 \in 1 .. Len(q) /\ 1 < i + 1
  BY <1>1
<1>4. 1 \in 1 .. Len(q)
  BY <1>1
<1>5. Elems(q) = Elems(Tail(q)) \union {Head(q)}
  <2>1. ASSUME NEW f \in Elems(q) PROVE f \in Elems(Tail(q)) \union {Head(q)}
    <3>1. PICK i \in 1 .. Len(q) : f = q[i]
      BY <1>1 DEF Elems
    <3>2. CASE i = 1
      BY <1>1, <3>1, <3>2
    <3>3. CASE i # 1
      <4>1. i - 1 \in DOMAIN Tail(q) /\ Tail(q)[i - 1] = f
        BY <1>1, <1>2, <3>1, <3>3
      <4> QED BY <4>1 DEF Elems
    <3> QED BY <3>2, <3>3
  <2>2. ASSUME NEW f \in Elems(Tail(q)) PROVE f \in Elems(q)
    BY <1>1, <1>3 DEF Elems
  <2>3. Head(q) \in Elems(q)
    BY <1>1, <1>4 DEF Elems
  <2> QED BY <2>1, <2>2, <2>3
<1>6. ASSUME NEW R, Ordered(q, R)
      PROVE  /\ Ordered(Tail(q), R)
             /\ \A f \in Elems(Tail(q)) : <<Head(q), f>> \in R
  <2>1. \A i, j \in 1 .. Len(q) : i < j => <<q[i], q[j]>> \in R
    BY <1>1, <1>6 DEF Ordered
  <2>2. ASSUME NEW i \in 1 .. Len(q) - 1, NEW j \in 1 .. Len(q) - 1, i < j
        PROVE  <<Tail(q)[i], Tail(q)[j]>> \in R
    <3>1. i + 1 \in 1 .. Len(q) /\ j + 1 \in 1 .. Len(q) /\ i + 1 < j + 1
      BY <1>1, <2>2
    <3>2. <<q[i + 1], q[j + 1]>> \in R
      BY <2>1, <3>1
    <3> QED BY <1>1, <3>2
  <2>3. ASSUME NEW i \in 1 .. Len(q) - 1
        PROVE  <<Head(q), Tail(q)[i]>> \in R
    BY <1>1, <1>3, <1>4, <2>1
  <2> QED BY <1>1, <2>2, <2>3 DEF Ordered, Elems
<1>7. ASSUME NEW N, NEW X, Closed(q, N, X)
      PROVE  /\ N[Head(q)] \subseteq X
             /\ Closed(Tail(q), N, X \union {Head(q)})
  <2>1. N[q[1]] \subseteq X
    <3>1. {q[i] : i \in 1 .. 1 - 1} = {}
      OBVIOUS
    <3>2. N[q[1]] \subseteq X \union {q[i] : i \in 1 .. 1 - 1}
      BY <1>1, <1>4, <1>7 DEF Closed
    <3> QED BY <3>1, <3>2
  <2>2. ASSUME NEW j \in 1 .. Len(q) - 1
        PROVE  N[Tail(q)[j]] \subseteq
                 (X \union {Head(q)}) \union {Tail(q)[i] : i \in 1 .. j - 1}
    <3>1. j + 1 \in DOMAIN q /\ Tail(q)[j] = q[j + 1] /\ (j + 1) - 1 = j
      BY <1>1
    <3>2. N[q[j + 1]] \subseteq X \union {q[i] : i \in 1 .. (j + 1) - 1}
      BY <1>7, <3>1 DEF Closed
    <3>3. ASSUME NEW i \in 1 .. j
          PROVE  q[i] \in {Head(q)} \union {Tail(q)[n] : n \in 1 .. j - 1}
      <4>1. CASE i = 1
        BY <1>1, <4>1
      <4>2. CASE i # 1
        <5>1. i - 1 \in 1 .. j - 1 /\ i \in 1 .. Len(q)
          BY <1>1, <4>2
        <5> QED BY <1>2, <4>2, <5>1
      <4> QED BY <4>1, <4>2
    <3> QED BY <3>1, <3>2, <3>3
  <2> QED BY <1>1, <2>1, <2>2 DEF Closed
<1> QED BY <1>1, <1>5, <1>6, <1>7

\* Elements that nothing comes after need not be remembered.
LEMMA ClosedWithout ==
  ASSUME NEW q, NEW N, NEW X, NEW e, Closed(q, N, X \union {e}),
         \A f \in Elems(q) : e \notin N[f]
  PROVE  Closed(q, N, X)
BY DEF Closed, Elems

\* Less to come before is less to find.
LEMMA ClosedLess ==
  ASSUME NEW q, NEW N, NEW M, NEW X, NEW Y, Closed(q, N, X), X \subseteq Y,
         \A f \in Elems(q) : M[f] \subseteq N[f]
  PROVE  Closed(q, M, Y)
BY DEF Closed, Elems

\* Taking the first element out is a receive.
LEMMA RemoveFirstOne ==
  ASSUME NEW S, NEW q \in Seq(S), NEW i \in Ready(q)
  PROVE  q # <<>> /\ i = 1 /\ q[i] = Head(q) /\ RemoveAt(q, i) = Tail(q)
<1>1. i = 1 /\ 1 \in DOMAIN q
  BY DEF Ready
<1>2. q # <<>> /\ Head(q) = q[1]
  BY <1>1
<1>3. SubSeq(q, 1, 1 - 1) = <<>>
  OBVIOUS
<1>4. SubSeq(q, 1 + 1, Len(q)) = Tail(q)
  BY <1>2
<1>5. <<>> \o Tail(q) = Tail(q)
  BY <1>2
<1> QED BY <1>1, <1>2, <1>3, <1>4, <1>5 DEF RemoveAt

\* A channel of converted elements is sent to and received from like the other.
LEMMA Converted ==
  ASSUME NEW S, NEW T, NEW g \in [S -> T], NEW q \in Seq(S), NEW p,
         p = [i \in DOMAIN q |-> g[q[i]]]
  PROVE  /\ p \in Seq(T)
         /\ \A e \in S : [i \in DOMAIN Append(q, e) |-> g[Append(q, e)[i]]] = Append(p, g[e])
         /\ q # <<>> => /\ p # <<>> /\ Head(p) = g[Head(q)]
                        /\ [i \in DOMAIN Tail(q) |-> g[Tail(q)[i]]] = Tail(p)
<1>1. /\ p \in Seq(T) /\ Len(p) = Len(q) /\ Len(q) \in Nat
      /\ DOMAIN p = 1 .. Len(q) /\ DOMAIN q = 1 .. Len(q)
  OBVIOUS
<1>2. ASSUME NEW e \in S
      PROVE  [i \in DOMAIN Append(q, e) |-> g[Append(q, e)[i]]] = Append(p, g[e])
  OBVIOUS
<1>3. ASSUME q # <<>>
      PROVE  /\ p # <<>> /\ Head(p) = g[Head(q)]
             /\ [i \in DOMAIN Tail(q) |-> g[Tail(q)[i]]] = Tail(p)
  BY <1>1, <1>3
<1> QED BY <1>1, <1>2, <1>3

-----------------------------------------------------------------------------
(* Lemmas about counting.                                                   *)

\* Places(q, f): where q holds f.
Places(q, f) == {i \in DOMAIN q : q[i] = f}

LEMMA CountIsNat ==
  ASSUME NEW S, NEW q \in Seq(S), NEW f
  PROVE  /\ IsFiniteSet(Places(q, f)) /\ Count(q, f) \in Nat
         /\ f \notin Elems(q) => Count(q, f) = 0
<1>1. DOMAIN q = 1 .. Len(q) /\ Len(q) \in Int /\ 1 \in Int
  OBVIOUS
<1>2. IsFiniteSet(1 .. Len(q))
  BY <1>1, FS_Interval
<1>3. Places(q, f) \in SUBSET (1 .. Len(q))
  BY <1>1 DEF Places
<1>4. IsFiniteSet(Places(q, f))
  BY <1>2, <1>3, FS_Subset
<1>5. Count(q, f) = Cardinality(Places(q, f))
  BY DEF Count, Places
<1>6. f \notin Elems(q) => Places(q, f) = {}
  BY DEF Places, Elems
<1> QED BY <1>4, <1>5, <1>6, FS_CardinalityType, FS_EmptySet

\* A send adds one copy.
LEMMA CountSend ==
  ASSUME NEW S, NEW q \in Seq(S), NEW e \in S, NEW f
  PROVE  Count(Append(q, e), f) = Count(q, f) + (IF e = f THEN 1 ELSE 0)
<1>1. /\ DOMAIN Append(q, e) = 1 .. Len(q) + 1
      /\ DOMAIN q = 1 .. Len(q) /\ Len(q) \in Nat
      /\ \A i \in 1 .. Len(q) : Append(q, e)[i] = q[i]
      /\ Append(q, e)[Len(q) + 1] = e
  OBVIOUS
<1>2. 1 .. Len(q) + 1 = (1 .. Len(q)) \union {Len(q) + 1} /\ Len(q) + 1 \notin 1 .. Len(q)
  BY <1>1
<1>3. Places(Append(q, e), f)
        = IF e = f THEN Places(q, f) \union {Len(q) + 1} ELSE Places(q, f)
  BY <1>1, <1>2 DEF Places
<1>4. IsFiniteSet(Places(q, f)) /\ Len(q) + 1 \notin Places(q, f)
  BY <1>1, <1>2, CountIsNat DEF Places
<1>5. Cardinality(Places(q, f) \union {Len(q) + 1}) = Cardinality(Places(q, f)) + 1
  BY <1>4, FS_AddElement
<1>6. Count(q, f) \in Nat
  BY CountIsNat
<1>7. /\ Count(q, f) = Cardinality(Places(q, f))
      /\ Count(Append(q, e), f) = Cardinality(Places(Append(q, e), f))
  BY DEF Count, Places
<1> QED BY <1>3, <1>5, <1>6, <1>7

\* A receive takes one copy.
LEMMA CountReceive ==
  ASSUME NEW S, NEW q \in Seq(S), q # <<>>, NEW f
  PROVE  Count(q, f) = Count(Tail(q), f) + (IF Head(q) = f THEN 1 ELSE 0)
<1>1. /\ Len(q) \in Nat \ {0}
      /\ Head(q) = q[1]
      /\ Tail(q) \in Seq(S)
      /\ DOMAIN q = 1 .. Len(q)
      /\ DOMAIN Tail(q) = 1 .. Len(q) - 1
      /\ \A i \in 1 .. Len(q) - 1 : Tail(q)[i] = q[i + 1]
  OBVIOUS
<1> DEFINE Rest == Places(q, f) \ {1}
           shift == [i \in Places(Tail(q), f) |-> i + 1]
<1>2. shift \in [Places(Tail(q), f) -> Rest]
  BY <1>1 DEF Places
<1>3. \A i, j \in Places(Tail(q), f) : shift[i] = shift[j] => i = j
  BY <1>1 DEF Places
<1>4. ASSUME NEW j \in Rest
      PROVE  \E i \in Places(Tail(q), f) : shift[i] = j
  <2>1. j \in 2 .. Len(q) /\ q[j] = f
    BY <1>1 DEF Places
  <2>2. j - 1 \in 1 .. Len(q) - 1 /\ (j - 1) + 1 = j
    BY <1>1, <2>1
  <2>3. j - 1 \in Places(Tail(q), f)
    BY <1>1, <2>1, <2>2 DEF Places
  <2> QED BY <2>2, <2>3
<1>5. shift \in Bijection(Places(Tail(q), f), Rest)
  BY <1>2, <1>3, <1>4 DEF Bijection, Injection, Surjection, IsInjective
<1>6. IsFiniteSet(Places(Tail(q), f)) /\ IsFiniteSet(Places(q, f))
  BY <1>1, CountIsNat
<1>7. Cardinality(Rest) = Cardinality(Places(Tail(q), f))
  <2>1. ExistsBijection(Places(Tail(q), f), Rest)
    BY <1>5 DEF ExistsBijection
  <2> QED BY <1>6, <2>1, FS_Bijection
<1>8. /\ Count(q, f) = Cardinality(Places(q, f))
      /\ Count(Tail(q), f) = Cardinality(Places(Tail(q), f))
      /\ Count(q, f) \in Nat /\ Count(Tail(q), f) \in Nat
  <2>1. Count(q, f) \in Nat /\ Count(Tail(q), f) \in Nat
    BY <1>1, CountIsNat
  <2> QED BY <2>1 DEF Count, Places
<1>9. 1 \in Places(q, f) <=> Head(q) = f
  <2>1. 1 \in DOMAIN q /\ Head(q) = q[1]
    BY <1>1
  <2> QED BY <2>1 DEF Places
<1>10. Cardinality(Rest) = IF 1 \in Places(q, f) THEN Count(q, f) - 1 ELSE Count(q, f)
  BY <1>6, <1>8, FS_RemoveElement
<1> QED BY <1>7, <1>8, <1>9, <1>10

-----------------------------------------------------------------------------
(* The types.                                                               *)

Json == [sender_id : User, doc_id : Doc, payload : Diff]

LEMMA DiffIs ==
  /\ \A f \in Diff : /\ f[1] \in Conn /\ f[2] \in 1 .. MaxFrames[f[1]]
                     /\ MaxFrames[f[1]] \in Nat /\ f[2] \in Nat \ {0}
                     /\ f = <<f[1], f[2]>>
  /\ \A c \in Conn : \A k \in 1 .. MaxFrames[c] : <<c, k>> \in Diff
<1>1. ASSUME NEW f \in Diff
      PROVE  /\ f[1] \in Conn /\ f[2] \in 1 .. MaxFrames[f[1]]
             /\ MaxFrames[f[1]] \in Nat /\ f[2] \in Nat \ {0}
             /\ f = <<f[1], f[2]>>
  <2>1. PICK c \in Conn : f \in {c} \X (1 .. MaxFrames[c])
    BY DEF Diff
  <2>2. MaxFrames[c] \in Nat
    BY PubSubAssumption
  <2>3. f[1] = c /\ f[2] \in 1 .. MaxFrames[c] /\ f = <<f[1], f[2]>>
    BY <2>1
  <2> QED BY <2>2, <2>3
<1>2. ASSUME NEW c \in Conn, NEW k \in 1 .. MaxFrames[c]
      PROVE  <<c, k>> \in Diff
  <2>1. <<c, k>> \in {c} \X (1 .. MaxFrames[c])
    OBVIOUS
  <2> QED BY <2>1 DEF Diff
<1> QED BY <1>1, <1>2

\* The message of a diff carries it.
LEMMA MsgIs ==
  ASSUME NEW c \in Conn, NEW k \in 1 .. MaxFrames[c]
  PROVE  /\ Msg(c, k) \in Message
         /\ Msg(c, k).Payload = <<c, k>> /\ <<c, k>> \in Diff
         /\ Msg(c, k).SenderID = UserOf[c] /\ Msg(c, k).DocID = DocOf[c]
BY DiffIs, PubSubAssumption DEF Msg, Message

\* What is made of the JSON object on arrival is what was published.
LEMMA EnvelopeIs ==
  /\ \A m \in Message : Envelope(m) \in Json /\ Opened(Envelope(m)) = m
  /\ \A e \in Json : Opened(e) \in Message
BY DEF Message, Json, Envelope, Opened

\* An offer is a send, or nothing if the buffer is full.
LEMMA OfferedIs ==
  ASSUME NEW q \in Seq(Message), NEW m \in Message, Len(q) <= BroadcastCap
  PROVE  /\ Offered(q, m) = q \/ Offered(q, m) = Append(q, m)
         /\ Len(q) < BroadcastCap => Offered(q, m) = Append(q, m)
         /\ Offered(q, m) \in Seq(Message) /\ Len(Offered(q, m)) <= BroadcastCap
         /\ Elems(Offered(q, m)) \subseteq Elems(q) \union {m}
<1>1. BroadcastCap \in Nat
  BY PubSubAssumption
<1>2. Len(Append(q, m)) = Len(q) + 1 /\ Append(q, m) \in Seq(Message) /\ Len(q) \in Nat
  OBVIOUS
<1>3. Elems(Append(q, m)) = Elems(q) \union {m}
  BY SendLast
<1> QED BY <1>1, <1>2, <1>3 DEF Offered

\* What the channels hold, with the record sets closed.
LEMMA ChannelTypes ==
  ASSUME TypeOK
  PROVE  channel \in [Server -> Seq(Json)] /\ broadcastQ \in [Server -> Seq(Message)]
BY DEF TypeOK, Json

LEMMA TypeInit == Init => TypeOK
BY PubSubAssumption DEF Init, TypeOK

LEMMA TypeNext ==
  ASSUME TypeOK, Honest, [Next]_vars
  PROVE  TypeOK'
<1>0. MaxTimeouts \in Nat /\ \A c \in Conn : Home[c] \in Server /\ MaxFrames[c] \in Nat
  BY PubSubAssumption
<1>1. ASSUME NEW c \in Conn, HandleUpdate(c)
      PROVE  TypeOK'
  <2>1. PICK k \in 1 .. MaxFrames[c] : k = handled[c] + 1
    BY <1>0, <1>1 DEF HandleUpdate, BroadcastLocally, ThenPublish, clientVars, TypeOK
  <2>2. PICK m \in Message : m = Msg(c, k) /\ m.Payload \in Diff
    BY MsgIs
  <2>3. PICK s \in Server : s = Home[c]
    BY <1>0
  <2>4. PICK q \in Seq(Message) : q = Offered(broadcastQ[s], m) /\ Len(q) <= BroadcastCap
    BY OfferedIs DEF TypeOK
  <2>5. /\ broadcastQ' = [broadcastQ EXCEPT ![s] = q]
        /\ dropped' \subseteq dropped \union {m.Payload}
        /\ asked' = [asked EXCEPT ![m.Payload] = 1]
        /\ handled' = [handled EXCEPT ![c] = k]
        /\ publishing' = [publishing EXCEPT ![c] = TRUE]
        /\ UNCHANGED <<late, channel, timeouts, registered, gone, left, inbox, missed>>
    BY <1>1, <2>1, <2>2, <2>3, <2>4 DEF HandleUpdate, BroadcastLocally, ThenPublish, clientVars
  <2>6. handled' \in [Conn -> Nat] /\ \A d \in Conn : handled'[d] <= MaxFrames[d]
    BY <1>0, <2>5 DEF TypeOK
  <2>7. broadcastQ' \in [Server -> Seq(Message)]
        /\ \A t \in Server : Len(broadcastQ'[t]) <= BroadcastCap
    BY <2>4, <2>5 DEF TypeOK
  <2> QED BY <2>2, <2>5, <2>6, <2>7 DEF TypeOK
<1>2. ASSUME NEW m \in Message, FanOut(m)
      PROVE  channel' \in [Server -> Seq(Json)]
  <2>1. PICK e \in Json : e = Envelope(m)
    BY EnvelopeIs
  <2>2. channel' = [s \in Server |-> Append(channel[s], e)]
    BY <1>2, <2>1 DEF FanOut
  <2>3. \A s \in Server : Append(channel[s], e) \in Seq(Json)
    BY <2>1, ChannelTypes
  <2> QED BY <2>2, <2>3
<1>3. ASSUME NEW c \in Conn, publishing[c]
      PROVE  /\ Msg(c, handled[c]) \in Message
             /\ Msg(c, handled[c]).Payload \in Diff
  <2>1. handled[c] \in 1 .. MaxFrames[c]
    BY <1>0, <1>3 DEF Honest, TypeOK
  <2> QED BY <2>1, MsgIs
<1>4. ASSUME NEW c \in Conn, Publish(c)
      PROVE  TypeOK'
  <2>1. channel' \in [Server -> Seq(Json)]
    BY <1>2, <1>3, <1>4 DEF Publish, clientVars
  <2> QED BY <1>4, <2>1 DEF Publish, clientVars, TypeOK, Json
<1>5. ASSUME NEW c \in Conn, PublishFails(c)
      PROVE  TypeOK'
  BY <1>5 DEF PublishFails, clientVars, TypeOK
<1>6. ASSUME NEW c \in Conn, PublishTimesOut(c)
      PROVE  TypeOK'
  <2>1. PICK m \in Message : m = Msg(c, handled[c]) /\ m.Payload \in Diff
    BY <1>3, <1>6 DEF PublishTimesOut, clientVars
  <2>2. /\ late' = late \union {<<timeouts, m>>}
        /\ asked' = [asked EXCEPT ![m.Payload] = @ + 1]
        /\ timeouts' = timeouts + 1 /\ timeouts < MaxTimeouts
        /\ UNCHANGED <<handled, publishing, channel, broadcastQ, dropped, registered, gone, left,
                       inbox, missed>>
    BY <1>6, <2>1 DEF PublishTimesOut, clientVars
  <2>3. timeouts \in Nat /\ timeouts' \in 0 .. MaxTimeouts
    BY <1>0, <2>2 DEF TypeOK
  <2>4. asked' \in [Diff -> Nat]
    BY <2>1, <2>2 DEF TypeOK
  <2>5. late' \subseteq Nat \X Message
    BY <2>1, <2>2, <2>3 DEF TypeOK
  <2> QED BY <2>2, <2>3, <2>4, <2>5 DEF TypeOK
<1>7. CASE PublishedLate
  <2>1. PICK a \in late : FanOut(a[2]) /\ late' = late \ {a}
    BY <1>7 DEF PublishedLate, clientVars
  <2>2. a[2] \in Message
    BY <2>1 DEF TypeOK
  <2>3. channel' \in [Server -> Seq(Json)]
    BY <1>2, <2>1, <2>2
  <2> QED BY <1>7, <2>1, <2>3 DEF PublishedLate, clientVars, TypeOK, Json
<1>8. ASSUME NEW s \in Server, Relay(s)
      PROVE  TypeOK'
  <2>1. PICK i \in Ready(channel[s]) :
          /\ channel' = [channel EXCEPT ![s] = RemoveAt(@, i)]
          /\ broadcastQ' = [broadcastQ EXCEPT ![s] = Offered(@, Opened(channel[s][i]))]
    BY <1>8 DEF Relay, clientVars
  <2>2. channel[s] \in Seq(Json) /\ channel[s] # <<>>
        /\ channel[s][i] = Head(channel[s]) /\ RemoveAt(channel[s], i) = Tail(channel[s])
    BY <2>1, RemoveFirstOne DEF TypeOK, Json
  <2>3. PICK m \in Message : m = Opened(Head(channel[s]))
    BY <2>2, EnvelopeIs
  <2>4. PICK q \in Seq(Message) : q = Offered(broadcastQ[s], m) /\ Len(q) <= BroadcastCap
    BY OfferedIs DEF TypeOK
  <2>5. channel' = [channel EXCEPT ![s] = Tail(@)] /\ broadcastQ' = [broadcastQ EXCEPT ![s] = q]
    BY <2>1, <2>2, <2>3, <2>4
  <2>6. channel' \in [Server -> Seq(Json)]
    <3>1. Tail(channel[s]) \in Seq(Json)
      BY <2>2
    <3> QED BY <2>5, <3>1, ChannelTypes
  <2>7. broadcastQ' \in [Server -> Seq(Message)]
        /\ \A t \in Server : Len(broadcastQ'[t]) <= BroadcastCap
    BY <2>4, <2>5 DEF TypeOK
  <2> QED BY <1>8, <2>6, <2>7 DEF Relay, clientVars, TypeOK, Json
<1>9. ASSUME NEW s \in Server, Lose(s)
      PROVE  TypeOK'
  <2>1. channel' \in [Server -> Seq(Json)]
    <3>1. Tail(channel[s]) \in Seq(Json)
      BY <1>9, ChannelTypes DEF Lose, clientVars
    <3> QED BY <1>9, <3>1, ChannelTypes DEF Lose, clientVars
  <2> QED BY <1>9, <2>1 DEF Lose, clientVars, TypeOK, Json
<1>10. ASSUME NEW s \in Server, Route(s)
       PROVE  TypeOK'
  <2>1. PICK m \in Message : m = Head(broadcastQ[s]) /\ m.Payload \in Diff
    <3>1. Head(broadcastQ[s]) \in Message
      BY <1>10, ChannelTypes DEF Route
    <3> QED BY <3>1 DEF Message
  <2>2. /\ \E to \in SUBSET registered : /\ gone' \subseteq gone \union to
             /\ inbox' = [c \in Conn |-> IF c \in to \ gone'
                                           THEN Append(inbox[c], m.Payload) ELSE inbox[c]]
        /\ broadcastQ' = [broadcastQ EXCEPT ![s] = Tail(@)]
        /\ UNCHANGED <<handled, publishing, late, channel, timeouts, dropped, asked,
                       registered, left>>
    <3>1. PICK slow \in SUBSET {c \in Clients : /\ Home[c] = s
                                                     /\ UserOf[c] # m.SenderID
                                                     /\ DocOf[c] = m.DocID} :
            /\ inbox' = [c \in Conn |->
                 IF c \in {d \in Clients : /\ Home[d] = s
                                                  /\ UserOf[d] # m.SenderID
                                                  /\ DocOf[d] = m.DocID} \ slow
                   THEN Append(inbox[c], m.Payload) ELSE inbox[c]]
            /\ gone' = gone \union slow
      BY <1>10, <2>1 DEF Route
    <3> DEFINE to == {c \in Clients : /\ Home[c] = s
                                             /\ UserOf[c] # m.SenderID
                                             /\ DocOf[c] = m.DocID}
    <3>2. to \ slow = to \ gone'
      BY <3>1 DEF Clients
    <3>3. inbox' = [c \in Conn |-> IF c \in to \ gone'
                                     THEN Append(inbox[c], m.Payload) ELSE inbox[c]]
      BY <3>1, <3>2
    <3>4. to \in SUBSET registered /\ gone' \subseteq gone \union to
      BY <3>1 DEF Clients
    <3>5. /\ broadcastQ' = [broadcastQ EXCEPT ![s] = Tail(@)]
          /\ UNCHANGED <<handled, publishing, late, channel, timeouts, dropped, asked,
                         registered, left>>
      BY <1>10 DEF Route
    <3> HIDE DEF to
    <3> QED BY <3>3, <3>4, <3>5
  <2>3. inbox' \in [Conn -> Seq(Diff)] /\ gone' \subseteq registered'
    BY <2>1, <2>2 DEF TypeOK
  <2>5. missed' \in [Conn -> SUBSET Diff]
    <3>1. missed' = [c \in Conn |-> IF Home[c] = s /\ c \notin registered
                                     THEN missed[c] \union {m.Payload} ELSE missed[c]]
      BY <1>10, <2>1 DEF Route
    <3> QED BY <2>1, <3>1 DEF TypeOK
  <2>4. broadcastQ' \in [Server -> Seq(Message)]
        /\ \A t \in Server : Len(broadcastQ'[t]) <= BroadcastCap
    <3>1. Tail(broadcastQ[s]) \in Seq(Message) /\ Len(Tail(broadcastQ[s])) <= BroadcastCap
      BY <1>0, <1>10, PubSubAssumption DEF Route, TypeOK
    <3> QED BY <2>2, <3>1 DEF TypeOK
  <2> QED BY <2>2, <2>3, <2>4, <2>5 DEF TypeOK
<1>11. ASSUME NEW c \in Conn, Register(c) \/ Unregister(c)
       PROVE  TypeOK'
  <2>1. /\ registered' \subseteq Conn /\ gone' \subseteq registered' /\ left' \subseteq Conn
    BY <1>11 DEF Register, Unregister, Session, Clients, TypeOK
  <2>2. UNCHANGED <<bridgeVars, inbox, missed>>
    BY <1>11 DEF Register, Unregister
  <2> QED BY <2>1, <2>2 DEF bridgeVars, TypeOK
<1>12. CASE UNCHANGED vars
  BY <1>12 DEF vars, bridgeVars, clientVars, TypeOK
<1> QED BY <1>1, <1>4, <1>5, <1>6, <1>7, <1>8, <1>9, <1>10, <1>11, <1>12 DEF Next

-----------------------------------------------------------------------------
(* What a step does to the road of one connection.                          *)

LEMMA RoadTyped ==
  ASSUME TypeOK, NEW c \in Conn
  PROVE  /\ inbox[c] \in Seq(Diff) /\ Queued(c) \in Seq(Diff) /\ Coming(c) \in Seq(Diff)
         /\ \A f \in Elems(Queued(c)) : \E m \in Elems(broadcastQ[Home[c]]) :
              m \in Message /\ f = m.Payload
         /\ \A f \in Elems(Coming(c)) : \E e \in Elems(channel[Home[c]]) :
              e \in Json /\ f = Opened(e).Payload
         /\ Home[c] \in Server
<1>0. Home[c] \in Server
  BY PubSubAssumption
<1>1. PICK q \in Seq(Message) : q = broadcastQ[Home[c]]
  BY <1>0, ChannelTypes
<1>2. PICK h \in Seq(Json) : h = channel[Home[c]]
  BY <1>0, ChannelTypes
<1>3. q \in [1 .. Len(q) -> Message] /\ h \in [1 .. Len(h) -> Json]
      /\ Len(q) \in Nat /\ Len(h) \in Nat
  OBVIOUS
<1>4. /\ DOMAIN Queued(c) = 1 .. Len(q) /\ \A i \in 1 .. Len(q) : Queued(c)[i] = q[i].Payload
      /\ DOMAIN Coming(c) = 1 .. Len(h) /\ \A i \in 1 .. Len(h) : Coming(c)[i] = Opened(h[i]).Payload
  BY <1>1, <1>2, <1>3 DEF Queued, Coming, Payloads, Carried
<1>5. /\ \A i \in 1 .. Len(q) : q[i] \in Message /\ Queued(c)[i] \in Diff
      /\ \A i \in 1 .. Len(h) : h[i] \in Json /\ Coming(c)[i] \in Diff
  BY <1>3, <1>4 DEF Message, Json, Opened
<1>6. Queued(c) \in Seq(Diff) /\ Coming(c) \in Seq(Diff)
  <2>1. Queued(c) = [i \in 1 .. Len(q) |-> Queued(c)[i]]
    BY <1>1, <1>3 DEF Queued, Payloads
  <2>2. Coming(c) = [i \in 1 .. Len(h) |-> Coming(c)[i]]
    BY <1>2, <1>3 DEF Coming, Carried
  <2> QED BY <1>3, <1>5, <2>1, <2>2
<1>7. \A f \in Elems(Queued(c)) : \E m \in Elems(q) : m \in Message /\ f = m.Payload
  BY <1>3, <1>4, <1>5 DEF Elems
<1>8. \A f \in Elems(Coming(c)) : \E e \in Elems(h) : e \in Json /\ f = Opened(e).Payload
  BY <1>3, <1>4, <1>5 DEF Elems
<1> QED BY <1>0, <1>1, <1>2, <1>6, <1>7, <1>8 DEF TypeOK

\* Conversion follows sends and receives.
LEMMA PayloadsFollow ==
  ASSUME NEW q \in Seq(Message)
  PROVE  /\ \A m \in Message : Payloads(Append(q, m)) = Append(Payloads(q), m.Payload)
         /\ q # <<>> => /\ Payloads(q) # <<>> /\ Head(Payloads(q)) = Head(q).Payload
                        /\ Payloads(Tail(q)) = Tail(Payloads(q))
<1> DEFINE g == [m \in Message |-> m.Payload]
<1>1. g \in [Message -> Diff]
  BY DEF Message
<1>2. Payloads(q) = [i \in DOMAIN q |-> g[q[i]]]
  BY DEF Payloads
<1>3. ASSUME NEW m \in Message
      PROVE  Payloads(Append(q, m)) = Append(Payloads(q), m.Payload)
  <2>1. Append(q, m) \in Seq(Message)
    OBVIOUS
  <2>2. Payloads(Append(q, m)) = [i \in DOMAIN Append(q, m) |-> g[Append(q, m)[i]]]
    BY <2>1 DEF Payloads
  <2> QED BY <1>1, <1>2, <2>2, Converted
<1>4. ASSUME q # <<>>
      PROVE  /\ Payloads(q) # <<>> /\ Head(Payloads(q)) = Head(q).Payload
             /\ Payloads(Tail(q)) = Tail(Payloads(q))
  <2>1. Tail(q) \in Seq(Message) /\ Head(q) \in Message
    BY <1>4
  <2>2. Payloads(Tail(q)) = [i \in DOMAIN Tail(q) |-> g[Tail(q)[i]]]
    BY <2>1 DEF Payloads
  <2>3. g[Head(q)] = Head(q).Payload
    BY <2>1
  <2> HIDE DEF g
  <2> QED BY <1>1, <1>2, <1>4, <2>2, <2>3, Converted
<1> QED BY <1>3, <1>4

LEMMA CarriedFollow ==
  ASSUME NEW q \in Seq(Json)
  PROVE  /\ \A m \in Message : Carried(Append(q, Envelope(m))) = Append(Carried(q), m.Payload)
         /\ q # <<>> => /\ Carried(q) # <<>> /\ Head(Carried(q)) = Opened(Head(q)).Payload
                        /\ Carried(Tail(q)) = Tail(Carried(q))
<1> DEFINE o == [e \in Json |-> Opened(e).Payload]
<1>1. o \in [Json -> Diff]
  BY DEF Json, Opened
<1>2. Carried(q) = [i \in DOMAIN q |-> o[q[i]]]
  BY DEF Carried
<1>3. ASSUME NEW m \in Message
      PROVE  Carried(Append(q, Envelope(m))) = Append(Carried(q), m.Payload)
  <2>1. PICK e \in Json : e = Envelope(m) /\ o[e] = m.Payload
    BY EnvelopeIs
  <2>2. Append(q, e) \in Seq(Json)
    OBVIOUS
  <2>3. Carried(Append(q, e)) = [i \in DOMAIN Append(q, e) |-> o[Append(q, e)[i]]]
    BY <2>2 DEF Carried
  <2> QED BY <1>1, <1>2, <2>1, <2>3, Converted
<1>4. ASSUME q # <<>>
      PROVE  /\ Carried(q) # <<>> /\ Head(Carried(q)) = Opened(Head(q)).Payload
             /\ Carried(Tail(q)) = Tail(Carried(q))
  <2>1. Tail(q) \in Seq(Json) /\ Head(q) \in Json
    BY <1>4
  <2>2. Carried(Tail(q)) = [i \in DOMAIN Tail(q) |-> o[Tail(q)[i]]]
    BY <2>1 DEF Carried
  <2>3. o[Head(q)] = Opened(Head(q)).Payload
    BY <2>1
  <2> HIDE DEF o
  <2> QED BY <1>1, <1>2, <1>4, <2>2, <2>3, Converted
<1> QED BY <1>3, <1>4

\* HandleUpdate sends a new diff along the road of its own server's connections,
\* unless the hub has no room.
LEMMA HandleRoad ==
  ASSUME TypeOK, Honest, NEW a \in Conn, HandleUpdate(a), NEW c \in Conn
  PROVE  \E f \in Diff :
    /\ f = <<a, handled[a] + 1>> /\ ~Known(f) /\ ~publishing[a]
    /\ handled' = [handled EXCEPT ![a] = f[2]]
    /\ publishing' = [publishing EXCEPT ![a] = TRUE]
    /\ asked' = [asked EXCEPT ![f] = 1]
    /\ UNCHANGED <<late, channel, timeouts, registered, gone, left, inbox, missed>>
    /\ Coming(c)' = Coming(c)
    /\ dropped \subseteq dropped' /\ dropped' \subseteq dropped \union {f}
    /\ \/ Queued(c)' = Queued(c) /\ (Home[a] = Home[c] => f \in dropped')
       \/ Queued(c)' = Append(Queued(c), f) /\ Home[a] = Home[c]
<1>1. MaxFrames[a] \in Nat /\ Home[a] \in Server
  BY PubSubAssumption
<1>2. PICK k \in 1 .. MaxFrames[a] : k = handled[a] + 1
  BY <1>1 DEF HandleUpdate, BroadcastLocally, ThenPublish, clientVars, TypeOK
<1>3. PICK m \in Message : m = Msg(a, k) /\ m.Payload = <<a, k>>
  BY MsgIs
<1>4. PICK f \in Diff : f = m.Payload /\ f = <<a, k>> /\ f[1] = a /\ f[2] = k
  BY <1>3, MsgIs
<1>5. ~Known(f)
  BY <1>2, <1>4 DEF Known, TypeOK
<1>6. /\ broadcastQ' = [broadcastQ EXCEPT ![Home[a]] = Offered(@, m)]
      /\ dropped' = IF Len(broadcastQ[Home[a]]) < BroadcastCap
                      THEN dropped ELSE dropped \union {f}
      /\ asked' = [asked EXCEPT ![f] = 1]
      /\ handled' = [handled EXCEPT ![a] = f[2]]
      /\ publishing' = [publishing EXCEPT ![a] = TRUE] /\ ~publishing[a]
      /\ UNCHANGED <<late, channel, timeouts, registered, gone, left, inbox, missed>>
  BY <1>2, <1>3, <1>4 DEF HandleUpdate, BroadcastLocally, ThenPublish, clientVars
<1>7. Coming(c)' = Coming(c)
  BY <1>6 DEF Coming
<1>8. CASE Home[a] # Home[c]
  <2>1. Queued(c)' = Queued(c)
    BY <1>6, <1>8, RoadTyped DEF Queued, TypeOK
  <2> QED BY <1>2, <1>4, <1>5, <1>6, <1>7, <1>8, <2>1
<1>9. CASE Home[a] = Home[c]
  <2>1. PICK q \in Seq(Message) : q = broadcastQ[Home[c]] /\ Len(q) <= BroadcastCap
    BY RoadTyped, ChannelTypes DEF TypeOK
  <2>2. broadcastQ'[Home[c]] = Offered(q, m)
    BY <1>6, <1>9, <2>1, RoadTyped, ChannelTypes
  <2>3. CASE Len(q) < BroadcastCap
    <3>1. broadcastQ'[Home[c]] = Append(q, m)
      BY <2>1, <2>2, <2>3, OfferedIs
    <3>2. Queued(c)' = Append(Queued(c), f)
      BY <1>4, <2>1, <3>1, PayloadsFollow DEF Queued
    <3> QED BY <1>2, <1>4, <1>5, <1>6, <1>7, <1>9, <3>2
  <2>4. CASE ~(Len(q) < BroadcastCap)
    <3>1. Queued(c)' = Queued(c)
      BY <2>1, <2>2, <2>4 DEF Queued, Offered
    <3>2. f \in dropped'
      BY <1>6, <1>9, <2>1, <2>4
    <3> QED BY <1>2, <1>4, <1>5, <1>6, <1>7, <1>9, <3>1, <3>2
  <2> QED BY <2>3, <2>4
<1> QED BY <1>8, <1>9

\* A PUBLISH that Redis carries out puts the diff at the end of every road.
LEMMA FanOutRoad ==
  ASSUME TypeOK, NEW m \in Message, FanOut(m), NEW c \in Conn
  PROVE  Coming(c)' = Append(Coming(c), m.Payload)
<1>1. PICK q \in Seq(Json) : q = channel[Home[c]]
  BY RoadTyped, ChannelTypes
<1>2. channel'[Home[c]] = Append(q, Envelope(m))
  BY <1>1, RoadTyped DEF FanOut
<1> QED BY <1>1, <1>2, CarriedFollow DEF Coming

\* What is being published is the newest diff.
LEMMA OwedMsg ==
  ASSUME TypeOK, Honest, NEW a \in Conn, publishing[a]
  PROVE  \E m \in Message, f \in Diff :
           /\ m = Msg(a, handled[a]) /\ m.Payload = f /\ Genuine(m)
           /\ f = <<a, handled[a]>> /\ Owed(f) /\ Known(f) /\ asked[f] # 0
<1>1. handled[a] \in 1 .. MaxFrames[a]
  BY PubSubAssumption DEF Honest, TypeOK
<1>2. PICK m \in Message : m = Msg(a, handled[a])
  BY <1>1, MsgIs
<1>3. PICK f \in Diff : f = <<a, handled[a]>> /\ f[1] = a /\ f[2] = handled[a]
  BY <1>1, MsgIs
<1>4. m.Payload = f /\ m.SenderID = UserOf[a] /\ m.DocID = DocOf[a]
  BY <1>1, <1>2, <1>3, MsgIs
<1>5. Known(f) /\ Owed(f)
  BY <1>3 DEF Known, Owed, TypeOK
<1> QED BY <1>2, <1>3, <1>4, <1>5 DEF Genuine, Honest

\* A hub that takes a client or gives one up moves no diff.
LEMMA MapRoad ==
  ASSUME NEW a \in Conn, Register(a) \/ Unregister(a), NEW c \in Conn
  PROVE  /\ UNCHANGED <<handled, publishing, late, channel, broadcastQ, timeouts, dropped,
                        asked, inbox, missed>>
         /\ gone \subseteq gone'
         /\ Queued(c)' = Queued(c) /\ Coming(c)' = Coming(c)
<1>1. /\ UNCHANGED <<handled, publishing, late, channel, broadcastQ, timeouts, dropped,
                     asked, inbox, missed>>
      /\ gone \subseteq gone'
  BY DEF Register, Unregister, bridgeVars
<1> QED BY <1>1 DEF Queued, Coming

\* Subscribe's loop takes the first diff of the last stage to the next one, if
\* the hub has room.
LEMMA RelayRoad ==
  ASSUME TypeOK, NEW s \in Server, Relay(s), NEW c \in Conn
  PROVE  /\ UNCHANGED <<handled, publishing, late, timeouts, dropped, asked, inbox, gone, missed>>
         /\ \/ s # Home[c] /\ Queued(c)' = Queued(c) /\ Coming(c)' = Coming(c)
            \/ /\ s = Home[c] /\ Coming(c) # <<>> /\ Coming(c)' = Tail(Coming(c))
               /\ \/ Queued(c)' = Queued(c)
                  \/ Queued(c)' = Append(Queued(c), Head(Coming(c)))
<1>1. PICK i \in Ready(channel[s]) :
        /\ channel' = [channel EXCEPT ![s] = RemoveAt(@, i)]
        /\ broadcastQ' = [broadcastQ EXCEPT ![s] = Offered(@, Opened(channel[s][i]))]
  BY DEF Relay, clientVars
<1>2. UNCHANGED <<handled, publishing, late, timeouts, dropped, asked, inbox, gone, missed>>
  BY DEF Relay, clientVars
<1>3. CASE s # Home[c]
  <2>1. channel'[Home[c]] = channel[Home[c]] /\ broadcastQ'[Home[c]] = broadcastQ[Home[c]]
    BY <1>1, <1>3, RoadTyped, ChannelTypes
  <2> QED BY <1>2, <1>3, <2>1 DEF Queued, Coming
<1>4. CASE s = Home[c]
  <2>1. PICK h \in Seq(Json) : h = channel[s]
    BY ChannelTypes
  <2>2. PICK q \in Seq(Message) : q = broadcastQ[s] /\ Len(q) <= BroadcastCap
    BY ChannelTypes DEF TypeOK
  <2>3. h # <<>> /\ h[i] = Head(h) /\ RemoveAt(h, i) = Tail(h)
    BY <1>1, <2>1, RemoveFirstOne
  <2>4. PICK m \in Message : m = Opened(Head(h))
    BY <2>3, EnvelopeIs
  <2>5. channel'[s] = Tail(h) /\ broadcastQ'[s] = Offered(q, m)
    BY <1>1, <2>1, <2>2, <2>3, <2>4, ChannelTypes
  <2>6. Offered(q, m) = q \/ Offered(q, m) = Append(q, m)
    BY <2>2, OfferedIs
  <2>7. Coming(c) # <<>> /\ Head(Coming(c)) = m.Payload /\ Coming(c)' = Tail(Coming(c))
    BY <1>4, <2>1, <2>3, <2>4, <2>5, CarriedFollow DEF Coming
  <2>8. Queued(c)' = Queued(c) \/ Queued(c)' = Append(Queued(c), m.Payload)
    BY <1>4, <2>2, <2>5, <2>6, PayloadsFollow DEF Queued
  <2> QED BY <1>2, <1>4, <2>7, <2>8
<1> QED BY <1>3, <1>4

LEMMA LoseRoad ==
  ASSUME TypeOK, NEW s \in Server, Lose(s), NEW c \in Conn
  PROVE  /\ UNCHANGED <<handled, publishing, late, timeouts, dropped, asked, inbox, gone, missed>>
         /\ Queued(c)' = Queued(c)
         /\ \/ Coming(c)' = Coming(c)
            \/ Coming(c) # <<>> /\ Coming(c)' = Tail(Coming(c))
<1>1. Queued(c)' = Queued(c)
  BY DEF Lose, clientVars, Queued
<1>2. PICK h \in Seq(Json) : h = channel[Home[c]]
  BY RoadTyped, ChannelTypes
<1>3. channel'[Home[c]] = h \/ (h # <<>> /\ channel'[Home[c]] = Tail(h))
  BY <1>2, RoadTyped, ChannelTypes DEF Lose, clientVars
<1>4. \/ Coming(c)' = Coming(c)
      \/ Coming(c) # <<>> /\ Coming(c)' = Tail(Coming(c))
  BY <1>2, <1>3, CarriedFollow DEF Coming
<1> QED BY <1>1, <1>4 DEF Lose, clientVars

\* The hub takes a diff to those it is meant for and can reach.
LEMMA RouteRoad ==
  ASSUME TypeOK, Honest, NEW s \in Server, Route(s), NEW c \in Conn
  PROVE  /\ UNCHANGED <<handled, publishing, late, channel, timeouts, dropped, asked>>
         /\ gone \subseteq gone' /\ missed[c] \subseteq missed'[c]
         /\ Coming(c)' = Coming(c)
         /\ \/ s # Home[c] /\ Queued(c)' = Queued(c) /\ inbox'[c] = inbox[c]
            \/ \E f \in Diff :
                 /\ s = Home[c] /\ Queued(c) # <<>> /\ f = Head(Queued(c)) /\ Known(f)
                 /\ Queued(c)' = Tail(Queued(c))
                 /\ \/ /\ inbox'[c] = inbox[c]
                       /\ c \in gone' \/ ~Wanted(c, f) \/ f \in missed'[c]
                    \/ inbox'[c] = Append(inbox[c], f) /\ c \notin gone /\ Wanted(c, f)
<1>1. PICK q \in Seq(Message) : q = broadcastQ[s] /\ q # <<>>
  BY ChannelTypes DEF Route
<1>2. PICK m \in Message : m = Head(q) /\ m.Payload \in Diff
  <2>1. Head(q) \in Message
    BY <1>1
  <2> QED BY <2>1 DEF Message
<1>3. Genuine(m)
  <2>1. m \in Elems(q)
    BY <1>1, <1>2, ReceiveFirst
  <2> QED BY <1>1, <2>1 DEF Honest
<1>4. UNCHANGED <<handled, publishing, late, channel, timeouts, dropped, asked>>
      /\ broadcastQ' = [broadcastQ EXCEPT ![s] = Tail(@)]
  BY DEF Route
<1>5. /\ gone \subseteq gone' /\ missed[c] \subseteq missed'[c]
      /\ \/ inbox'[c] = inbox[c]
            /\ ~(/\ c \notin gone' /\ Home[c] = s /\ m.Payload \notin missed'[c]
                 /\ UserOf[c] # m.SenderID /\ DocOf[c] = m.DocID)
         \/ /\ inbox'[c] = Append(inbox[c], m.Payload)
            /\ c \notin gone /\ Home[c] = s
            /\ UserOf[c] # m.SenderID /\ DocOf[c] = m.DocID
  <2>1. PICK x : x = m.Payload
    OBVIOUS
  <2>2. missed'[c] = IF Home[c] = s /\ c \notin registered
                       THEN missed[c] \union {x} ELSE missed[c]
    BY <1>1, <1>2, <2>1 DEF Route
  <2>3. PICK slow \in SUBSET Clients :
          /\ gone' = gone \union slow
          /\ inbox'[c] = IF /\ c \in Clients /\ c \notin slow /\ Home[c] = s
                            /\ UserOf[c] # m.SenderID /\ DocOf[c] = m.DocID
                           THEN Append(inbox[c], x) ELSE inbox[c]
    BY <1>1, <1>2, <2>1 DEF Route
  <2>4. c \in Clients <=> c \in registered /\ c \notin gone
    BY DEF Clients
  <2> QED BY <2>1, <2>2, <2>3, <2>4
<1>6. Coming(c)' = Coming(c)
  BY <1>4 DEF Coming
<1>7. CASE s # Home[c]
  <2>1. Queued(c)' = Queued(c)
    BY <1>4, <1>7, RoadTyped, ChannelTypes DEF Queued
  <2> QED BY <1>4, <1>5, <1>6, <1>7, <2>1
<1>8. CASE s = Home[c]
  <2>1. PICK f \in Diff : f = m.Payload
    BY <1>2
  <2>2. broadcastQ'[s] = Tail(q)
    BY <1>1, <1>4, ChannelTypes
  <2>3. Queued(c) # <<>> /\ Head(Queued(c)) = f /\ Queued(c)' = Tail(Queued(c))
    BY <1>1, <1>2, <1>8, <2>1, <2>2, PayloadsFollow DEF Queued
  <2>4. Known(f) /\ (UserOf[c] # m.SenderID /\ DocOf[c] = m.DocID <=> Wanted(c, f))
    BY <1>3, <2>1 DEF Genuine, Wanted
  <2> QED BY <1>4, <1>5, <1>6, <1>8, <2>1, <2>3, <2>4
<1> QED BY <1>7, <1>8

-----------------------------------------------------------------------------
(* Honesty.                                                                 *)

LEMMA HonestInit == Init => Honest
<1> SUFFICES ASSUME Init PROVE Honest
  OBVIOUS
<1>1. \A f \in Diff : asked[f] = 0 /\ ~Known(f)
  BY DiffIs DEF Init, Known
<1>2. /\ \A s \in Server : Elems(broadcastQ[s]) = {} /\ Elems(channel[s]) = {}
      /\ \A c \in Conn : Elems(inbox[c]) = {}
  BY DEF Init, Elems
<1> QED BY <1>1, <1>2 DEF Init, Honest

\* What was handled stays handled.
LEMMA HandledGrows ==
  ASSUME TypeOK, [Next]_vars
  PROVE  \A c \in Conn : handled[c] <= handled'[c]
<1>1. ASSUME NEW c \in Conn, HandleUpdate(c)
      PROVE  \A d \in Conn : handled[d] <= handled'[d]
  BY <1>1 DEF HandleUpdate, BroadcastLocally, ThenPublish, clientVars, TypeOK
<1>2. ASSUME UNCHANGED handled
      PROVE  \A d \in Conn : handled[d] <= handled'[d]
  BY <1>2 DEF TypeOK
<1> QED BY <1>1, <1>2 DEF Next, vars, bridgeVars, clientVars, Register, Unregister,
                          Publish, PublishFails, PublishTimesOut, PublishedLate,
                          Relay, Lose, Route

LEMMA GenuineKept ==
  ASSUME TypeOK, TypeOK', [Next]_vars
  PROVE  /\ \A f \in Diff : Known(f) => Known(f)'
         /\ \A m \in Message : Genuine(m) => Genuine(m)'
<1>1. ASSUME NEW f \in Diff, Known(f)
      PROVE  Known(f)'
  <2>1. PICK a \in Conn, k \in Nat : a = f[1] /\ k = f[2]
    BY DiffIs
  <2>2. /\ handled[a] \in Nat /\ handled'[a] \in Nat
        /\ handled[a] <= handled'[a] /\ k <= handled[a]
    BY <1>1, <2>1, HandledGrows DEF Known, TypeOK
  <2> QED BY <2>1, <2>2 DEF Known
<1>2. ASSUME NEW m \in Message, Genuine(m)
      PROVE  Genuine(m)'
  <2>1. m.Payload \in Diff
    BY DEF Message
  <2> QED BY <1>1, <1>2, <2>1 DEF Genuine
<1> QED BY <1>1, <1>2

LEMMA HonestNext ==
  ASSUME TypeOK, TypeOK', Honest, [Next]_vars
  PROVE  Honest'
<1> DEFINE Counters == /\ \A c \in Conn : publishing[c] => handled[c] # 0
                       /\ \A f \in Diff : asked[f] # 0 <=> Known(f)
           Again == \A x \in late : Genuine(x[2]) /\ asked[x[2].Payload] > 1
           Hubs == \A s \in Server : \A m \in Elems(broadcastQ[s]) : Genuine(m)
           Channels == \A s \in Server : \A e \in Elems(channel[s]) : Genuine(Opened(e))
           Boxes == \A c \in Conn : \A f \in Elems(inbox[c]) : Known(f) /\ Wanted(c, f)
<1>0. /\ Counters /\ Again /\ Hubs /\ Channels /\ Boxes
      /\ \A x \in late : x[2] \in Message /\ x[2].Payload \in Diff
      /\ \A s \in Server : /\ \A m \in Elems(broadcastQ[s]) : m \in Message
                           /\ \A e \in Elems(channel[s]) : Opened(e) \in Message
      /\ \A c \in Conn : \A f \in Elems(inbox[c]) : f \in Diff
  <2>1. Counters /\ Again /\ Hubs /\ Channels /\ Boxes
    BY DEF Honest
  <2>2. \A x \in late : x[2] \in Message /\ x[2].Payload \in Diff
    <3>1. \A m \in Message : m.Payload \in Diff
      BY DEF Message
    <3> QED BY <3>1 DEF TypeOK
  <2>3. \A s \in Server : \A m \in Elems(broadcastQ[s]) : m \in Message
    BY ChannelTypes DEF Elems
  <2>4. \A s \in Server : \A e \in Elems(channel[s]) : e \in Json
    BY ChannelTypes DEF Elems
  <2>5. \A c \in Conn : \A f \in Elems(inbox[c]) : f \in Diff
    BY DEF Elems, TypeOK
  <2> QED BY <2>1, <2>2, <2>3, <2>4, <2>5, EnvelopeIs
<1>1. /\ UNCHANGED broadcastQ => Hubs'
      /\ UNCHANGED channel => Channels'
      /\ UNCHANGED inbox => Boxes'
  BY <1>0, GenuineKept DEF Wanted
<1>2. UNCHANGED <<handled, publishing, asked>> => Counters'
  BY <1>0 DEF Known
<1>3. late' \subseteq late /\ UNCHANGED asked => Again'
  BY <1>0, GenuineKept
<1>4. ASSUME NEW m \in Message, FanOut(m), Genuine(m)
      PROVE  Channels'
  <2>1. PICK e \in Json : e = Envelope(m) /\ Opened(e) = m
    BY EnvelopeIs
  <2>2. ASSUME NEW s \in Server
        PROVE  \A d \in Elems(channel'[s]) : Genuine(Opened(d))'
    <3>1. PICK q \in Seq(Json) : q = channel[s]
      BY ChannelTypes
    <3>2. channel'[s] = Append(q, e)
      BY <1>4, <2>1, <3>1 DEF FanOut
    <3>3. Elems(channel'[s]) = Elems(q) \union {e}
      BY <3>2, SendLast
    <3>4. \A d \in Elems(q) : Opened(d) \in Message /\ Genuine(Opened(d))
      BY <1>0, <3>1
    <3>5. \A d \in Elems(channel'[s]) : Opened(d) \in Message /\ Genuine(Opened(d))
      BY <1>4, <2>1, <3>3, <3>4
    <3>6. UNCHANGED Opened(e)
      OBVIOUS
    <3> QED BY <3>5, GenuineKept DEF Genuine, Opened
  <2> QED BY <2>2
<1>5. ASSUME NEW a \in Conn, HandleUpdate(a)
      PROVE  Honest'
  <2>1. PICK f \in Diff :
          /\ f = <<a, handled[a] + 1>> /\ ~Known(f)
          /\ handled' = [handled EXCEPT ![a] = f[2]]
          /\ publishing' = [publishing EXCEPT ![a] = TRUE]
          /\ asked' = [asked EXCEPT ![f] = 1]
          /\ UNCHANGED <<late, channel, timeouts, registered, gone, left, inbox, missed>>
    BY <1>5, HandleRoad
  <2>2. f[1] = a /\ f[2] = handled[a] + 1
    BY <2>1
  <2>3. Counters'
    <3>1. \A c \in Conn : publishing'[c] => handled'[c] # 0
      BY <1>0, <2>1, <2>2 DEF TypeOK
    <3>2. ASSUME NEW g \in Diff
          PROVE  asked'[g] # 0 <=> Known(g)'
      <4>1. CASE g = f
        BY <2>1, <2>2, <4>1 DEF Known, TypeOK
      <4>2. CASE g # f
        <5>1. g[1] # a \/ g[2] # handled[a] + 1
          BY <2>1, <4>2, DiffIs
        <5>2. Known(g)' <=> Known(g)
          BY <2>1, <2>2, <5>1, DiffIs DEF Known, TypeOK
        <5> QED BY <1>0, <2>1, <4>2, <5>2 DEF TypeOK
      <4> QED BY <4>1, <4>2
    <3> QED BY <3>1, <3>2
  <2>4. Again'
    <3>1. ASSUME NEW x \in late
          PROVE  x[2].Payload # f
      BY <1>0, <2>1 DEF Genuine
    <3> QED BY <1>0, <2>1, <3>1, GenuineKept DEF TypeOK
  <2>5. Hubs'
    <3>1. PICK m \in Message : m = Msg(a, handled[a] + 1) /\ Genuine(m)'
      <4>1. handled[a] + 1 \in 1 .. MaxFrames[a]
        BY <2>1, <2>2, DiffIs
      <4>2. PICK m \in Message : /\ m = Msg(a, handled[a] + 1) /\ m.Payload = f
                                /\ m.SenderID = UserOf[a] /\ m.DocID = DocOf[a]
        BY <2>1, <4>1, MsgIs
      <4>3. Known(f)'
        BY <2>1, <2>2 DEF Known, TypeOK
      <4>4. Genuine(m)'
        BY <2>2, <4>2, <4>3 DEF Genuine
      <4> QED BY <4>2, <4>4
    <3>2. broadcastQ' = [broadcastQ EXCEPT ![Home[a]] = Offered(@, m)]
      BY <1>5, <3>1 DEF HandleUpdate, BroadcastLocally, ThenPublish, clientVars
    <3>3. ASSUME NEW s \in Server
          PROVE  Elems(broadcastQ'[s]) \subseteq Elems(broadcastQ[s]) \union {m}
      <4>1. CASE s = Home[a]
        <5>1. PICK q \in Seq(Message) : q = broadcastQ[s] /\ Len(q) <= BroadcastCap
          BY ChannelTypes DEF TypeOK
        <5>2. broadcastQ'[s] = Offered(q, m)
          BY <3>2, <4>1, <5>1, ChannelTypes
        <5> QED BY <5>1, <5>2, OfferedIs
      <4>2. CASE s # Home[a]
        BY <3>2, <4>2, ChannelTypes
      <4> QED BY <4>1, <4>2
    <3> QED BY <1>0, <3>1, <3>3, GenuineKept
  <2> QED BY <1>1, <2>1, <2>3, <2>4, <2>5 DEF Honest
<1>6. ASSUME NEW a \in Conn, Publish(a)
      PROVE  Honest'
  <2>1. Channels'
    BY <1>4, <1>6, OwedMsg DEF Publish, clientVars
  <2>2. /\ publishing' = [publishing EXCEPT ![a] = FALSE]
        /\ UNCHANGED <<handled, late, broadcastQ, inbox, timeouts, dropped, asked>>
    BY <1>6 DEF Publish, clientVars
  <2>3. Counters'
    BY <1>0, <2>2 DEF Known, TypeOK
  <2> QED BY <1>1, <1>3, <2>1, <2>2, <2>3 DEF Honest
<1>7. ASSUME NEW a \in Conn, PublishFails(a)
      PROVE  Honest'
  <2>1. /\ publishing' = [publishing EXCEPT ![a] = FALSE]
        /\ UNCHANGED <<handled, late, channel, broadcastQ, inbox, asked>>
    BY <1>7 DEF PublishFails, clientVars
  <2>2. Counters'
    BY <1>0, <2>1 DEF Known, TypeOK
  <2> QED BY <1>1, <1>3, <2>1, <2>2 DEF Honest
<1>8. ASSUME NEW a \in Conn, PublishTimesOut(a)
      PROVE  Honest'
  <2>1. PICK m \in Message, f \in Diff : /\ m = Msg(a, handled[a]) /\ m.Payload = f
                                         /\ Genuine(m) /\ Known(f) /\ asked[f] # 0
    BY <1>8, OwedMsg DEF PublishTimesOut, clientVars
  <2>2. /\ late' = late \union {<<timeouts, m>>}
        /\ asked' = [asked EXCEPT ![f] = @ + 1]
        /\ UNCHANGED <<handled, publishing, channel, broadcastQ, inbox>>
    BY <1>8, <2>1 DEF PublishTimesOut, clientVars
  <2>3. asked'[f] > 1 /\ \A g \in Diff : asked'[g] >= asked[g] /\ asked[g] \in Nat
        /\ asked'[g] \in Nat /\ (g # f => asked'[g] = asked[g])
    BY <2>1, <2>2 DEF TypeOK
  <2>4. Counters'
    <3>1. \A g \in Diff : Known(g)' <=> Known(g)
      BY <2>2 DEF Known
    <3> QED BY <1>0, <2>1, <2>2, <2>3, <3>1
  <2>5. Again'
    <3>1. ASSUME NEW x \in late'
          PROVE  x[2] \in Message /\ Genuine(x[2]) /\ asked'[x[2].Payload] > 1
      <4>1. CASE x \in late
        BY <1>0, <2>3, <4>1
      <4>2. CASE x = <<timeouts, m>>
        BY <2>1, <2>3, <4>2
      <4> QED BY <2>2, <4>1, <4>2
    <3> QED BY <3>1, GenuineKept
  <2> QED BY <1>1, <2>2, <2>4, <2>5 DEF Honest
<1>9. CASE PublishedLate
  <2>1. PICK x \in late : FanOut(x[2]) /\ late' = late \ {x}
    BY <1>9 DEF PublishedLate, clientVars
  <2>2. Channels'
    BY <1>0, <1>4, <2>1
  <2>3. UNCHANGED <<handled, publishing, broadcastQ, inbox, asked>>
    BY <1>9 DEF PublishedLate, clientVars
  <2> QED BY <1>1, <1>2, <1>3, <2>1, <2>2, <2>3 DEF Honest
<1>10. ASSUME NEW s \in Server, channel[s] # <<>>,
              channel' = [channel EXCEPT ![s] = Tail(@)]
       PROVE  Channels'
  <2>1. ASSUME NEW t \in Server
        PROVE  Elems(channel'[t]) \subseteq Elems(channel[t])
    <3>1. PICK q \in Seq(Json) : q = channel[t]
      BY ChannelTypes
    <3>2. channel'[t] = q \/ (q # <<>> /\ channel'[t] = Tail(q))
      BY <1>10, <3>1, ChannelTypes
    <3> QED BY <3>1, <3>2, ReceiveFirst
  <2>2. ASSUME NEW t \in Server, NEW e \in Elems(channel'[t])
        PROVE  Genuine(Opened(e))'
    <3>1. PICK m \in Message : m = Opened(e) /\ Genuine(m)
      BY <1>0, <2>1, <2>2
    <3> QED BY <3>1, GenuineKept DEF Genuine, Opened
  <2> QED BY <2>2
<1>11. ASSUME NEW s \in Server, Relay(s)
       PROVE  Honest'
  <2>1. PICK i \in Ready(channel[s]) :
          /\ channel' = [channel EXCEPT ![s] = RemoveAt(@, i)]
          /\ broadcastQ' = [broadcastQ EXCEPT ![s] = Offered(@, Opened(channel[s][i]))]
    BY <1>11 DEF Relay, clientVars
  <2>2. PICK h \in Seq(Json) : h = channel[s]
    BY ChannelTypes
  <2>3. h # <<>> /\ h[i] = Head(h) /\ RemoveAt(h, i) = Tail(h)
    BY <2>1, <2>2, RemoveFirstOne
  <2>4. PICK m \in Message : m = Opened(Head(h)) /\ Genuine(m)
    <3>1. Head(h) \in Elems(h)
      BY <2>3, ReceiveFirst
    <3> QED BY <1>0, <2>2, <3>1
  <2>5. /\ channel' = [channel EXCEPT ![s] = Tail(@)]
        /\ broadcastQ' = [broadcastQ EXCEPT ![s] = Offered(@, m)]
    BY <2>1, <2>2, <2>3, <2>4
  <2>6. ASSUME NEW t \in Server
        PROVE  Elems(broadcastQ'[t]) \subseteq Elems(broadcastQ[t]) \union {m}
    <3>1. PICK q \in Seq(Message) : q = broadcastQ[t] /\ Len(q) <= BroadcastCap
      BY ChannelTypes DEF TypeOK
    <3>2. broadcastQ'[t] = q \/ broadcastQ'[t] = Offered(q, m)
      BY <2>5, <3>1, ChannelTypes
    <3> QED BY <3>1, <3>2, OfferedIs
  <2>7. Hubs'
    BY <1>0, <2>4, <2>6, GenuineKept
  <2>8. UNCHANGED <<handled, publishing, late, inbox, asked>>
    BY <1>11 DEF Relay, clientVars
  <2> QED BY <1>1, <1>2, <1>3, <1>10, <2>2, <2>3, <2>5, <2>7, <2>8 DEF Honest
<1>12. ASSUME NEW s \in Server, Lose(s)
       PROVE  Honest'
  BY <1>1, <1>2, <1>3, <1>10, <1>12 DEF Lose, clientVars, Honest
<1>13. ASSUME NEW s \in Server, Route(s)
       PROVE  Honest'
  <2>1. /\ broadcastQ[s] # <<>> /\ broadcastQ' = [broadcastQ EXCEPT ![s] = Tail(@)]
        /\ UNCHANGED <<handled, publishing, late, channel, asked>>
    BY <1>13 DEF Route
  <2>2. Hubs'
    <3>1. ASSUME NEW t \in Server
          PROVE  Elems(broadcastQ'[t]) \subseteq Elems(broadcastQ[t])
      <4>1. PICK q \in Seq(Message) : q = broadcastQ[t]
        BY ChannelTypes
      <4>2. broadcastQ'[t] = q \/ (q # <<>> /\ broadcastQ'[t] = Tail(q))
        BY <2>1, <4>1, ChannelTypes
      <4> QED BY <4>1, <4>2, ReceiveFirst
    <3> QED BY <1>0, <3>1, GenuineKept
  <2>3. Boxes'
    <3>1. ASSUME NEW c \in Conn, NEW f \in Elems(inbox'[c])
          PROVE  f \in Diff /\ Known(f) /\ Wanted(c, f)
      <4>1. CASE inbox'[c] = inbox[c]
        BY <1>0, <3>1, <4>1
      <4>2. ASSUME NEW g \in Diff, inbox'[c] = Append(inbox[c], g), Known(g), Wanted(c, g)
            PROVE  f \in Diff /\ Known(f) /\ Wanted(c, f)
        <5>1. PICK q \in Seq(Diff) : q = inbox[c]
          BY RoadTyped
        <5>2. Elems(inbox'[c]) = Elems(q) \union {g}
          BY <4>2, <5>1, SendLast
        <5> QED BY <1>0, <3>1, <4>2, <5>1, <5>2
      <4> QED BY <1>13, <4>1, <4>2, RouteRoad
    <3> QED BY <3>1, GenuineKept DEF Wanted
  <2> QED BY <1>1, <1>2, <1>3, <2>1, <2>2, <2>3 DEF Honest
<1>14. ASSUME NEW a \in Conn, Register(a) \/ Unregister(a)
       PROVE  Honest'
  BY <1>1, <1>2, <1>3, <1>14, MapRoad DEF Honest
<1>15. CASE UNCHANGED vars
  BY <1>1, <1>2, <1>3, <1>15 DEF vars, bridgeVars, clientVars, Honest
<1> QED BY <1>5, <1>6, <1>7, <1>8, <1>9, <1>11, <1>12, <1>13, <1>14, <1>15 DEF Next

\* What is on the road was handled, and is meant for whom it has reached.
LEMMA RoadHonest ==
  ASSUME TypeOK, Honest, NEW c \in Conn
  PROVE  /\ \A f \in Road(c) : f \in Diff /\ Known(f)
         /\ \A f \in Elems(inbox[c]) : Wanted(c, f)
<1>1. /\ \A m \in Message : m.Payload \in Diff
      /\ \A m \in Message : Genuine(m) => Known(m.Payload)
  BY DEF Message, Genuine
<1>2. ASSUME NEW f \in Elems(Queued(c)) PROVE f \in Diff /\ Known(f)
  BY <1>1, RoadTyped DEF Honest
<1>3. ASSUME NEW f \in Elems(Coming(c)) PROVE f \in Diff /\ Known(f)
  BY <1>1, RoadTyped, EnvelopeIs DEF Honest
<1>4. ASSUME NEW f \in Elems(inbox[c]) PROVE f \in Diff /\ Known(f) /\ Wanted(c, f)
  <2>1. f \in Diff
    BY RoadTyped DEF Elems
  <2> QED BY <2>1 DEF Honest
<1> QED BY <1>2, <1>3, <1>4 DEF Road

-----------------------------------------------------------------------------
(* Order.                                                                   *)

\* A road grows in order if what joins it comes after what is there.
LEMMA AlignedJoin ==
  ASSUME NEW S, NEW i \in Seq(S), NEW q \in Seq(S), NEW h \in Seq(S), NEW f \in S, NEW R,
         Aligned(i, q, h, R), \A g \in Elems(i) \union Elems(q) : <<g, f>> \in R
  PROVE  /\ (\A g \in Elems(h) : <<g, f>> \in R) => Aligned(i, q, Append(h, f), R)
         /\ (\A g \in Elems(h) : <<f, g>> \in R) => Aligned(i, Append(q, f), h, R)
<1>1. /\ Elems(Append(h, f)) = Elems(h) \union {f}
      /\ Elems(Append(q, f)) = Elems(q) \union {f}
  BY SendLast
<1>2. ASSUME \A g \in Elems(h) : <<g, f>> \in R
      PROVE  Aligned(i, q, Append(h, f), R)
  <2>1. Ordered(Append(h, f), R)
    BY <1>2, SendLast DEF Aligned
  <2> QED BY <1>1, <2>1 DEF Aligned
<1>3. ASSUME \A g \in Elems(h) : <<f, g>> \in R
      PROVE  Aligned(i, Append(q, f), h, R)
  <2>1. Ordered(Append(q, f), R)
    BY SendLast DEF Aligned
  <2> QED BY <1>1, <1>3, <2>1 DEF Aligned
<1> QED BY <1>2, <1>3

\* It stays in order if the first of a stage is lost or moves to the next one.
LEMMA AlignedMove ==
  ASSUME NEW S, NEW i \in Seq(S), NEW q \in Seq(S), NEW h \in Seq(S), NEW R,
         Aligned(i, q, h, R)
  PROVE  /\ h # <<>> => /\ Aligned(i, q, Tail(h), R)
                        /\ Aligned(i, Append(q, Head(h)), Tail(h), R)
         /\ q # <<>> => /\ Aligned(i, Tail(q), h, R)
                        /\ Aligned(Append(i, Head(q)), Tail(q), h, R)
<1>1. ASSUME h # <<>>
      PROVE  /\ Aligned(i, q, Tail(h), R)
             /\ Aligned(i, Append(q, Head(h)), Tail(h), R)
  <2>0. Head(h) \in S /\ Tail(h) \in Seq(S)
    BY <1>1
  <2>1. PICK f \in S, t \in Seq(S) : f = Head(h) /\ t = Tail(h)
    BY <2>0
  <2>2. /\ Elems(h) = Elems(t) \union {f} /\ Ordered(t, R)
        /\ \A g \in Elems(t) : <<f, g>> \in R
    BY <1>1, <2>1, ReceiveFirst DEF Aligned
  <2>3. Aligned(i, q, t, R)
    BY <2>2 DEF Aligned
  <2>4. \A g \in Elems(i) \union Elems(q) : <<g, f>> \in R
    BY <2>2 DEF Aligned
  <2> QED BY <2>1, <2>2, <2>3, <2>4, AlignedJoin
<1>2. ASSUME q # <<>>
      PROVE  /\ Aligned(i, Tail(q), h, R)
             /\ Aligned(Append(i, Head(q)), Tail(q), h, R)
  <2>0. Head(q) \in S /\ Tail(q) \in Seq(S)
    BY <1>2
  <2>1. PICK f \in S, t \in Seq(S) : f = Head(q) /\ t = Tail(q)
    BY <2>0
  <2>2. /\ Elems(q) = Elems(t) \union {f} /\ Ordered(t, R)
        /\ \A g \in Elems(t) : <<f, g>> \in R
    BY <1>2, <2>1, ReceiveFirst DEF Aligned
  <2>3. Aligned(i, t, h, R)
    BY <2>2 DEF Aligned
  <2>4. Ordered(Append(i, f), R) /\ Elems(Append(i, f)) = Elems(i) \union {f}
    BY <2>2, SendLast DEF Aligned
  <2>5. Aligned(Append(i, f), t, h, R)
    BY <2>2, <2>3, <2>4 DEF Aligned
  <2> QED BY <2>1, <2>3, <2>5
<1> QED BY <1>1, <1>2

\* What leaves a stage, or moves on, was on the road.
LEMMA RoadMove ==
  ASSUME NEW S, NEW i \in Seq(S), NEW q \in Seq(S), q # <<>>
  PROVE  /\ Elems(Tail(q)) \subseteq Elems(q)
         /\ Elems(Append(i, Head(q))) \union Elems(Tail(q)) = Elems(i) \union Elems(q)
<1>1. PICK f \in S : f = Head(q)
  OBVIOUS
<1>2. Elems(q) = Elems(Tail(q)) \union {f}
  BY <1>1, ReceiveFirst
<1>3. Elems(Append(i, f)) = Elems(i) \union {f}
  BY SendLast
<1> QED BY <1>1, <1>2, <1>3

\* Redis is asked for a diff once more, or for the first time.
LEMMA AskedGrows ==
  ASSUME TypeOK, TypeOK', Honest, [Next]_vars
  PROVE  /\ \A f \in Diff : asked[f] > 1 => asked'[f] > 1
         /\ \A s \in Server : Precedes(s) \subseteq Precedes(s)'
<1>1. ASSUME NEW f \in Diff, asked[f] > 1
      PROVE  asked'[f] > 1
  <2>1. asked[f] \in Nat
    BY DEF TypeOK
  <2>2. ASSUME NEW a \in Conn, HandleUpdate(a)
        PROVE  asked'[f] > 1
    <3>1. PICK g \in Diff : ~Known(g) /\ asked' = [asked EXCEPT ![g] = 1]
      BY <2>2, HandleRoad
    <3>2. f # g
      BY <1>1, <3>1 DEF Honest
    <3> QED BY <1>1, <3>1, <3>2 DEF TypeOK
  <2>3. ASSUME NEW a \in Conn, PublishTimesOut(a)
        PROVE  asked'[f] > 1
    <3>1. PICK g \in Diff : asked' = [asked EXCEPT ![g] = @ + 1]
      BY <2>3, OwedMsg DEF PublishTimesOut, clientVars
    <3> QED BY <1>1, <2>1, <3>1 DEF TypeOK
  <2>4. CASE UNCHANGED asked
    BY <1>1, <2>4
  <2> QED BY <2>2, <2>3, <2>4 DEF Next, vars, bridgeVars, clientVars, Register,
                                  Unregister, Publish, PublishFails, PublishedLate,
                                  Relay, Lose, Route
<1>2. ASSUME NEW s \in Server
      PROVE  Precedes(s) \subseteq Precedes(s)'
  BY <1>1 DEF Precedes
<1> QED BY <1>1, <1>2

\* The road as constants, in the order of the step's end.
LEMMA RoadIs ==
  ASSUME TypeOK, TypeOK', Honest, [Next]_vars, NEW c \in Conn, RoadInOrder(c)
  PROVE  \E i, q, h \in Seq(Diff) : \E R \in SUBSET (Diff \X Diff) :
           /\ i = inbox[c] /\ q = Queued(c) /\ h = Coming(c)
           /\ R = Precedes(Home[c])' /\ Aligned(i, q, h, R)
           /\ Elems(i) \union Elems(q) \union Elems(h) = Road(c)
<1>1. PICK R \in SUBSET (Diff \X Diff) : R = Precedes(Home[c])'
  BY DEF Precedes
<1>2. PICK i, q, h \in Seq(Diff) : i = inbox[c] /\ q = Queued(c) /\ h = Coming(c)
  BY RoadTyped
<1>3. Aligned(i, q, h, Precedes(Home[c]))
  BY <1>2 DEF RoadInOrder
<1>4. Precedes(Home[c]) \subseteq R
  BY <1>1, AskedGrows, RoadTyped
<1>5. Aligned(i, q, h, R)
  BY <1>3, <1>4 DEF Aligned, Ordered
<1> QED BY <1>1, <1>2, <1>5 DEF Road

\* Nothing joins the road, and no PUBLISH begins.
LEMMA NothingJoins ==
  ASSUME TypeOK, TypeOK', Honest, [Next]_vars, NEW c \in Conn, RoadInOrder(c),
         Road(c)' \subseteq Road(c), UNCHANGED handled,
         \A a \in Conn : publishing'[a] => publishing[a]
  PROVE  \A f \in Road(c)' : Remote(c, f)' /\ Owed(f)' => asked'[f] > 1
<1> TAKE f \in Road(c)'
<1>1. f \in Road(c) /\ f \in Diff /\ f[1] \in Conn
  BY RoadHonest, DiffIs
<1>2. Owed(f)' => Owed(f)
  BY <1>1 DEF Owed
<1>3. Remote(c, f)' <=> Remote(c, f)
  BY DEF Remote
<1> QED BY <1>1, <1>2, <1>3, AskedGrows DEF RoadInOrder

\* Redis carries out a PUBLISH.
LEMMA OrderFanOut ==
  ASSUME TypeOK, TypeOK', Honest, [Next]_vars, NEW c \in Conn, RoadInOrder(c),
         NEW m \in Message, NEW f \in Diff, m.Payload = f, FanOut(m),
         UNCHANGED <<handled, broadcastQ, inbox, asked>>, Known(f),
         \A a \in Conn : publishing'[a] => publishing[a],
         \/ asked[f] > 1
         \/ Owed(f) /\ ~publishing'[f[1]]
  PROVE  RoadInOrder(c)'
<1>1. PICK i, q, h \in Seq(Diff), R \in SUBSET (Diff \X Diff) :
        /\ i = inbox[c] /\ q = Queued(c) /\ h = Coming(c)
        /\ R = Precedes(Home[c])' /\ Aligned(i, q, h, R)
        /\ Elems(i) \union Elems(q) \union Elems(h) = Road(c)
  BY RoadIs
<1>2. inbox'[c] = i /\ Queued(c)' = q /\ Coming(c)' = Append(h, f)
  BY <1>1, FanOutRoad DEF Queued
<1>3. Road(c)' = Road(c) \union {f}
  <2>1. Elems(Append(h, f)) = Elems(h) \union {f}
    BY SendLast
  <2> QED BY <1>1, <1>2, <2>1 DEF Road
<1>4. ASSUME NEW g \in Road(c)
      PROVE  <<g, f>> \in R
  <2>1. g \in Diff /\ Known(g)
    BY RoadHonest
  <2>2. PICK a \in Conn, k \in Nat, n \in Nat :
          f[1] = a /\ f[2] = k /\ (g[1] = a => g[2] = n)
    BY <2>1, DiffIs
  <2>3. CASE g[1] = f[1] /\ Home[g[1]] # Home[c]
    <3>1. CASE asked[f] > 1
      BY <1>1, <2>1, <3>1 DEF Precedes
    <3>2. CASE Owed(f)
      <4>1. n <= k /\ (n = k => Owed(g))
        BY <2>1, <2>2, <2>3, <3>2 DEF Known, Owed
      <4>2. Owed(g) => asked[g] > 1
        BY <2>3 DEF RoadInOrder, Remote
      <4>3. g[2] < f[2] \/ asked[g] > 1
        BY <2>2, <2>3, <4>1, <4>2
      <4> QED BY <1>1, <2>1, <4>3 DEF Precedes
    <3> QED BY <3>1, <3>2
  <2>4. CASE ~(g[1] = f[1] /\ Home[g[1]] # Home[c])
    BY <1>1, <2>1, <2>4 DEF Precedes
  <2> QED BY <2>3, <2>4
<1>5. Aligned(i, q, Append(h, f), R)
  <2>1. \A g \in Elems(i) \union Elems(q) : <<g, f>> \in R
    BY <1>1, <1>4
  <2>2. \A g \in Elems(h) : <<g, f>> \in R
    BY <1>1, <1>4
  <2> QED BY <1>1, <2>1, <2>2, AlignedJoin
<1>6. ASSUME NEW g \in Road(c)', Remote(c, g)', Owed(g)'
      PROVE  asked'[g] > 1
  <2>1. g \in Diff /\ g[1] \in Conn
    BY <1>3, RoadHonest, DiffIs
  <2>2. Owed(g) /\ Remote(c, g)
    BY <1>6, <2>1 DEF Owed, Remote
  <2>3. g = f => asked[f] > 1
    BY <1>6 DEF Owed
  <2>4. g # f => asked[g] > 1
    BY <1>3, <2>2 DEF RoadInOrder
  <2> QED BY <2>3, <2>4
<1> QED BY <1>1, <1>2, <1>5, <1>6 DEF RoadInOrder

LEMMA OrderNext ==
  ASSUME TypeOK, TypeOK', Honest, [Next]_vars, NEW c \in Conn, RoadInOrder(c)
  PROVE  RoadInOrder(c)'
<1>1. PICK i, q, h \in Seq(Diff), R \in SUBSET (Diff \X Diff) :
        /\ i = inbox[c] /\ q = Queued(c) /\ h = Coming(c)
        /\ R = Precedes(Home[c])' /\ Aligned(i, q, h, R)
        /\ Elems(i) \union Elems(q) \union Elems(h) = Road(c)
  BY RoadIs
<1>2. ASSUME UNCHANGED <<inbox, Queued(c), Coming(c), handled>>,
             \A a \in Conn : publishing'[a] => publishing[a]
      PROVE  RoadInOrder(c)'
  <2>1. Road(c)' = Road(c)
    BY <1>2 DEF Road
  <2> QED BY <1>1, <1>2, <2>1, NothingJoins DEF RoadInOrder
<1>3. ASSUME NEW a \in Conn, HandleUpdate(a)
      PROVE  RoadInOrder(c)'
  <2>1. PICK f \in Diff :
          /\ f = <<a, handled[a] + 1>> /\ ~Known(f)
          /\ handled' = [handled EXCEPT ![a] = f[2]]
          /\ publishing' = [publishing EXCEPT ![a] = TRUE]
          /\ asked' = [asked EXCEPT ![f] = 1]
          /\ UNCHANGED inbox /\ Coming(c)' = h
          /\ Queued(c)' = q \/ (Queued(c)' = Append(q, f) /\ Home[a] = Home[c])
    BY <1>1, <1>3, HandleRoad
  <2>2. f[1] = a /\ f[2] = handled[a] + 1
    BY <2>1
  <2>3. CASE Queued(c)' = q
    <3>1. Road(c)' = Road(c)
      BY <1>1, <2>1, <2>3 DEF Road
    <3>2. ASSUME NEW g \in Road(c), Remote(c, g)', Owed(g)'
          PROVE  asked'[g] > 1
      <4>1. g \in Diff /\ Known(g) /\ g[1] \in Conn
        BY RoadHonest, DiffIs
      <4>2. g[1] # a
        BY <2>1, <2>2, <3>2, <4>1 DEF Owed, Known, TypeOK
      <4>3. Owed(g) /\ Remote(c, g) /\ g # f
        BY <2>1, <2>2, <3>2, <4>1, <4>2 DEF Owed, Remote, TypeOK
      <4>4. asked[g] > 1
        BY <4>3 DEF RoadInOrder
      <4> QED BY <4>1, <4>4, AskedGrows
    <3> QED BY <1>1, <2>1, <2>3, <3>1, <3>2 DEF RoadInOrder
  <2>4. CASE Queued(c)' = Append(q, f) /\ Home[a] = Home[c]
    <3>1. Elems(Append(q, f)) = Elems(q) \union {f}
      BY SendLast
    <3>2. Road(c)' = Road(c) \union {f}
      BY <1>1, <2>1, <2>4, <3>1 DEF Road
    <3>3. ASSUME NEW g \in Road(c)
          PROVE  <<g, f>> \in R /\ <<f, g>> \in R
      BY <1>1, <2>2, <2>4, RoadHonest DEF Precedes
    <3>4. Aligned(i, Append(q, f), h, R)
      <4>1. \A g \in Elems(i) \union Elems(q) : <<g, f>> \in R
        BY <1>1, <3>3
      <4>2. \A g \in Elems(h) : <<f, g>> \in R
        BY <1>1, <3>3
      <4> QED BY <1>1, <4>1, <4>2, AlignedJoin
    <3>5. ASSUME NEW g \in Road(c)', Remote(c, g)', Owed(g)'
          PROVE  asked'[g] > 1
      <4>1. g \in Diff /\ g[1] \in Conn /\ g[1] # a
        BY <2>2, <2>4, <3>2, <3>5, RoadHonest, DiffIs DEF Remote
      <4>2. Owed(g) /\ Remote(c, g) /\ g # f /\ g \in Road(c)
        BY <2>1, <2>2, <3>2, <3>5, <4>1 DEF Owed, Remote, TypeOK
      <4>3. asked[g] > 1
        BY <4>2 DEF RoadInOrder
      <4> QED BY <4>1, <4>3, AskedGrows
    <3> QED BY <1>1, <2>1, <2>4, <3>4, <3>5 DEF RoadInOrder
  <2> QED BY <2>1, <2>3, <2>4
<1>4. ASSUME NEW a \in Conn, Publish(a)
      PROVE  RoadInOrder(c)'
  <2>1. PICK m \in Message, f \in Diff :
          /\ m = Msg(a, handled[a]) /\ m.Payload = f
          /\ f = <<a, handled[a]>> /\ Owed(f) /\ Known(f)
    BY <1>4, OwedMsg DEF Publish, clientVars
  <2>2. FanOut(m) /\ publishing' = [publishing EXCEPT ![a] = FALSE]
        /\ UNCHANGED <<handled, broadcastQ, inbox, asked>>
    BY <1>4, <2>1 DEF Publish, clientVars
  <2>3. ~publishing'[f[1]] /\ \A d \in Conn : publishing'[d] => publishing[d]
    BY <2>1, <2>2 DEF TypeOK
  <2> QED BY <2>1, <2>2, <2>3, OrderFanOut
<1>5. CASE PublishedLate
  <2>1. PICK x \in late : FanOut(x[2])
    BY <1>5 DEF PublishedLate, clientVars
  <2>2. PICK m \in Message : m = x[2] /\ Genuine(m) /\ asked[m.Payload] > 1
    BY <2>1 DEF Honest, TypeOK
  <2>3. PICK f \in Diff : f = m.Payload /\ Known(f)
    BY <2>2 DEF Message, Genuine
  <2> QED BY <1>5, <2>1, <2>2, <2>3, OrderFanOut DEF PublishedLate, clientVars
<1>6. ASSUME NEW a \in Conn, PublishFails(a) \/ PublishTimesOut(a)
      PROVE  RoadInOrder(c)'
  BY <1>2, <1>6 DEF PublishFails, clientVars, PublishTimesOut, Queued, Coming, TypeOK
<1>7. ASSUME NEW s \in Server, Relay(s) \/ Lose(s)
      PROVE  RoadInOrder(c)'
  <2>1. /\ UNCHANGED <<handled, publishing, inbox, asked>>
        /\ \/ Queued(c)' = q /\ Coming(c)' = h
           \/ /\ h # <<>> /\ Coming(c)' = Tail(h)
              /\ Queued(c)' = q \/ Queued(c)' = Append(q, Head(h))
    BY <1>1, <1>7, RelayRoad, LoseRoad
  <2>2. Aligned(i, Queued(c)', Coming(c)', R)
    BY <1>1, <2>1, AlignedMove
  <2>3. Road(c)' \subseteq Road(c)
    <3>1. h # <<>> => /\ Elems(Tail(h)) \subseteq Elems(h)
                      /\ Elems(Append(q, Head(h))) \union Elems(Tail(h)) = Elems(q) \union Elems(h)
      BY RoadMove
    <3> QED BY <1>1, <2>1, <3>1 DEF Road
  <2> QED BY <1>1, <2>1, <2>2, <2>3, NothingJoins DEF RoadInOrder
<1>8. ASSUME NEW s \in Server, Route(s)
      PROVE  RoadInOrder(c)'
  <2>1. /\ UNCHANGED <<handled, publishing, asked>> /\ Coming(c)' = h
        /\ \/ Queued(c)' = q /\ inbox'[c] = i
           \/ /\ q # <<>> /\ Queued(c)' = Tail(q)
              /\ inbox'[c] = i \/ inbox'[c] = Append(i, Head(q))
    BY <1>1, <1>8, RouteRoad
  <2>2. Aligned(inbox'[c], Queued(c)', h, R)
    BY <1>1, <2>1, AlignedMove
  <2>3. Road(c)' \subseteq Road(c)
    <3>1. q # <<>> => /\ Elems(Tail(q)) \subseteq Elems(q)
                      /\ Elems(Append(i, Head(q))) \union Elems(Tail(q)) = Elems(i) \union Elems(q)
      BY RoadMove
    <3> QED BY <1>1, <2>1, <3>1 DEF Road
  <2> QED BY <1>1, <2>1, <2>2, <2>3, NothingJoins DEF RoadInOrder
<1>9. ASSUME NEW a \in Conn, Register(a) \/ Unregister(a)
      PROVE  RoadInOrder(c)'
  BY <1>2, <1>9, MapRoad
<1>10. CASE UNCHANGED vars
  BY <1>2, <1>10 DEF vars, bridgeVars, clientVars, Queued, Coming
<1> QED BY <1>3, <1>4, <1>5, <1>6, <1>7, <1>8, <1>9, <1>10 DEF Next

-----------------------------------------------------------------------------
(* Completeness: what was sent sooner on the same server is ahead.          *)

LEMMA SoonerShrinks ==
  ASSUME [Next]_vars, TypeOK, Honest, NEW c \in Conn
  PROVE  /\ \A f \in Diff : Due(c, f)' => Due(c, f)
         /\ \A f \in Diff : Sooner(c)'[f] \subseteq Sooner(c)[f]
<1>1. dropped \subseteq dropped'
  <2>1. ASSUME NEW a \in Conn, HandleUpdate(a)
        PROVE  dropped \subseteq dropped'
    BY <2>1, HandleRoad
  <2> QED BY <2>1 DEF Next, vars, bridgeVars, clientVars, Register, Unregister,
                      Publish, PublishFails, PublishTimesOut, PublishedLate, Relay,
                      Lose, Route
<1>2. missed[c] \subseteq missed'[c]
  <2>1. ASSUME NEW a \in Conn, HandleUpdate(a)
        PROVE  missed[c] \subseteq missed'[c]
    BY <2>1, HandleRoad
  <2>2. ASSUME NEW s \in Server, Route(s)
        PROVE  missed[c] \subseteq missed'[c]
    BY <2>2, RouteRoad
  <2> QED BY <2>1, <2>2 DEF Next, vars, bridgeVars, clientVars, Register,
                            Unregister, Publish, PublishFails, PublishTimesOut,
                            PublishedLate, Relay, Lose
<1>3. \A f \in Diff : Due(c, f)' => Due(c, f)
  BY <1>1, <1>2 DEF Due
<1>4. \A f, g \in Diff : g \in Sooner(c)'[f] => g \in Sooner(c)[f]
  BY <1>3 DEF Sooner, Remote, Wanted
<1>5. \A f \in Diff : Sooner(c)'[f] \subseteq Diff
  BY DEF Sooner
<1> QED BY <1>3, <1>4, <1>5

\* What was sent sooner than a diff that was handled is with c or on its way.
LEMMA KnownSooner ==
  ASSUME TypeOK, NEW c \in Conn, RoadClosed(c), c \notin gone,
         NEW f \in Diff, Known(f)
  PROVE  Sooner(c)[f] \subseteq Elems(inbox[c]) \union Elems(Queued(c))
<1> SUFFICES ASSUME NEW g \in Sooner(c)[f]
             PROVE  g \in Elems(inbox[c]) \union Elems(Queued(c))
  OBVIOUS
<1>1. /\ g \in Diff /\ ~Remote(c, g) /\ Wanted(c, g) /\ Due(c, g)
      /\ g[1] = f[1] /\ g[2] < f[2]
  BY DEF Sooner
<1>2. PICK a \in Conn, k \in Nat, n \in Nat : a = f[1] /\ a = g[1] /\ k = f[2] /\ n = g[2]
  BY <1>1, DiffIs
<1>3. handled[a] \in Nat /\ n < k /\ k <= handled[a]
  BY <1>1, <1>2 DEF Known, TypeOK
<1>4. Known(g)
  BY <1>2, <1>3 DEF Known
<1> QED BY <1>1, <1>4 DEF RoadClosed

LEMMA ClosedNext ==
  ASSUME TypeOK, TypeOK', Honest, [Next]_vars, NEW c \in Conn, RoadClosed(c)
  PROVE  RoadClosed(c)'
<1>1. PICK i, q, h \in Seq(Diff) : i = inbox[c] /\ q = Queued(c) /\ h = Coming(c)
  BY RoadTyped
<1>2. PICK N, M \in [Diff -> SUBSET Diff] : N = Sooner(c) /\ M = Sooner(c)'
  BY DEF Sooner
<1>3. /\ \A f \in Diff : M[f] \subseteq N[f]
      /\ \A f \in Diff : Due(c, f)' => Due(c, f)
      /\ Elems(i) \subseteq Diff /\ Elems(q) \subseteq Diff
      /\ Closed(i, N, {})
      /\ c \notin gone =>
           /\ Closed(q, N, Elems(i))
           /\ \A f \in Diff : Known(f) => N[f] \subseteq Elems(i) \union Elems(q)
           /\ \A f \in Diff : ~Remote(c, f) /\ Wanted(c, f) /\ Known(f) /\ Due(c, f)
                                => f \in Elems(i) \union Elems(q)
  <2>1. /\ \A f \in Diff : M[f] \subseteq N[f]
        /\ \A f \in Diff : Due(c, f)' => Due(c, f)
    BY <1>2, SoonerShrinks
  <2>3. Elems(i) \subseteq Diff /\ Elems(q) \subseteq Diff
    BY DEF Elems
  <2>4. /\ Closed(i, N, {})
        /\ c \notin gone =>
             /\ Closed(q, N, Elems(i))
             /\ \A f \in Diff : ~Remote(c, f) /\ Wanted(c, f) /\ Known(f) /\ Due(c, f)
                                  => f \in Elems(i) \union Elems(q)
    BY <1>1, <1>2 DEF RoadClosed
  <2>5. c \notin gone => \A f \in Diff : Known(f) => N[f] \subseteq Elems(i) \union Elems(q)
    BY <1>1, <1>2, KnownSooner
  <2> QED BY <2>1, <2>3, <2>4, <2>5
<1>4. Closed(i, M, {})
  BY <1>3, ClosedLess
<1>5. c \notin gone => Closed(q, M, Elems(i))
  BY <1>3, ClosedLess
<1>6. ASSUME UNCHANGED inbox[c], gone \subseteq gone',
             NEW f \in Diff, Queued(c)' = q \/ Queued(c)' = Append(q, f),
             c \notin gone => M[f] \subseteq Elems(i) \union Elems(q),
             \A g \in Diff : ~Remote(c, g) /\ Wanted(c, g) /\ Known(g)' /\ Due(c, g)'
                               => Known(g) \/ (g = f /\ Queued(c)' = Append(q, f))
      PROVE  RoadClosed(c)'
  <2>1. Elems(Append(q, f)) = Elems(q) \union {f}
    BY SendLast
  <2>2. Closed(inbox[c], Sooner(c), {})'
    BY <1>1, <1>2, <1>4, <1>6
  <2>3. ASSUME c \notin gone'
        PROVE  Closed(Queued(c), Sooner(c), Elems(inbox[c]))'
    <3>1. Closed(Append(q, f), M, Elems(i))
      BY <1>5, <1>6, <2>3, SendLast
    <3> QED BY <1>1, <1>2, <1>5, <1>6, <2>3, <3>1
  <2>4. ASSUME c \notin gone', NEW g \in Diff,
               ~Remote(c, g), Wanted(c, g), Known(g)', Due(c, g)'
        PROVE  g \in Elems(inbox'[c]) \union Elems(Queued(c)')
    <3>1. CASE Known(g)
      <4>1. g \in Elems(i) \union Elems(q)
        BY <1>3, <1>6, <2>4, <3>1
      <4> QED BY <1>1, <1>6, <2>1, <4>1
    <3>2. CASE g = f /\ Queued(c)' = Append(q, f)
      BY <2>1, <3>2
    <3> QED BY <1>6, <2>4, <3>1, <3>2
  <2> QED BY <1>6, <2>2, <2>3, <2>4 DEF RoadClosed, Remote, Wanted
<1>7. ASSUME UNCHANGED <<inbox[c], handled, Queued(c)>>, gone \subseteq gone'
      PROVE  RoadClosed(c)'
  <2>1. \A g \in Diff : Known(g)' <=> Known(g)
    BY <1>7 DEF Known
  <2>2. Closed(inbox[c], Sooner(c), {})'
    BY <1>1, <1>2, <1>4, <1>7
  <2>3. c \notin gone' => Closed(Queued(c), Sooner(c), Elems(inbox[c]))'
    BY <1>1, <1>2, <1>5, <1>7
  <2>4. ASSUME c \notin gone', NEW g \in Diff,
               ~Remote(c, g), Wanted(c, g), Known(g)', Due(c, g)'
        PROVE  g \in Elems(inbox'[c]) \union Elems(Queued(c)')
    BY <1>1, <1>3, <1>7, <2>1, <2>4
  <2> QED BY <1>7, <2>2, <2>3, <2>4 DEF RoadClosed, Remote, Wanted
<1>8. ASSUME NEW a \in Conn, HandleUpdate(a)
      PROVE  RoadClosed(c)'
  <2>1. PICK f \in Diff :
          /\ f = <<a, handled[a] + 1>> /\ ~Known(f)
          /\ handled' = [handled EXCEPT ![a] = f[2]]
          /\ UNCHANGED <<inbox, gone>>
          /\ \/ Queued(c)' = q /\ (Home[a] = Home[c] => f \in dropped')
             \/ Queued(c)' = Append(q, f) /\ Home[a] = Home[c]
    BY <1>1, <1>8, HandleRoad
  <2>2. f[1] = a /\ f[2] = handled[a] + 1 /\ handled[a] \in Nat
    BY <2>1 DEF TypeOK
  <2>3. ASSUME NEW g \in Diff, Known(g)'
        PROVE  Known(g) \/ g = f
    <3>1. CASE g[1] # a
      BY <2>1, <2>3, <3>1, DiffIs DEF Known, TypeOK
    <3>2. CASE g[1] = a
      <4>1. PICK n \in Nat : n = g[2] /\ g = <<a, n>>
        BY <3>2, DiffIs
      <4>2. n <= handled[a] + 1
        BY <2>1, <2>2, <2>3, <3>2, <4>1 DEF Known, TypeOK
      <4>3. n <= handled[a] \/ n = handled[a] + 1
        BY <2>2, <4>2
      <4> QED BY <2>1, <3>2, <4>1, <4>3 DEF Known
    <3> QED BY <3>1, <3>2
  <2>4. c \notin gone => M[f] \subseteq Elems(i) \union Elems(q)
    <3> SUFFICES ASSUME c \notin gone, NEW g \in M[f]
                 PROVE  g \in Elems(i) \union Elems(q)
      OBVIOUS
    <3>1. /\ g \in Diff /\ ~Remote(c, g) /\ Wanted(c, g) /\ Due(c, g)
          /\ g[1] = a /\ g[2] < handled[a] + 1
      BY <1>2, <1>3, <2>2 DEF Sooner, Remote, Wanted
    <3>2. g[2] \in Nat
      BY <3>1, DiffIs
    <3>3. Known(g)
      BY <2>2, <3>1, <3>2 DEF Known
    <3> QED BY <1>3, <3>1, <3>3
  <2>5. ~Remote(c, f) => Home[a] = Home[c]
    BY <2>2 DEF Remote
  <2>6. ASSUME NEW g \in Diff,
               ~Remote(c, g), Wanted(c, g), Known(g)', Due(c, g)'
        PROVE  Known(g) \/ (g = f /\ Queued(c)' = Append(q, f))
    <3>1. CASE g = f
      BY <2>1, <2>5, <2>6, <3>1 DEF Due
    <3>2. CASE g # f
      BY <2>3, <2>6, <3>2
    <3> QED BY <3>1, <3>2
  <2>7. UNCHANGED inbox[c] /\ gone \subseteq gone' /\ (Queued(c)' = q \/ Queued(c)' = Append(q, f))
    BY <2>1
  <2> QED BY <1>6, <2>4, <2>6, <2>7
<1>9. ASSUME NEW s \in Server, Relay(s)
      PROVE  RoadClosed(c)'
  <2>1. /\ UNCHANGED <<handled, inbox, gone>>
        /\ \/ Queued(c)' = q
           \/ h # <<>> /\ Queued(c)' = Append(q, Head(h))
    BY <1>1, <1>9, RelayRoad
  <2>2. CASE Queued(c)' = q
    BY <1>1, <1>7, <2>1, <2>2
  <2>3. CASE h # <<>> /\ Queued(c)' = Append(q, Head(h))
    <3>1. Head(h) \in Elems(h)
      BY <2>3, ReceiveFirst
    <3>2. PICK f \in Diff : f = Head(h) /\ Known(f)
      BY <1>1, <3>1, RoadHonest DEF Road
    <3>3. \A g \in Diff : Known(g)' <=> Known(g)
      BY <2>1 DEF Known
    <3> QED BY <1>3, <1>6, <2>1, <2>3, <3>2, <3>3
  <2> QED BY <2>1, <2>2, <2>3
<1>10. ASSUME NEW s \in Server, Route(s)
       PROVE  RoadClosed(c)'
  <2>0. UNCHANGED handled /\ gone \subseteq gone'
        /\ \A g \in Diff : Known(g)' <=> Known(g)
    BY <1>10, RouteRoad DEF Known
  <2>1. CASE Queued(c)' = q /\ inbox'[c] = i
    <3>1. Closed(inbox[c], Sooner(c), {})'
      BY <1>2, <1>4, <2>1
    <3>2. c \notin gone' => Closed(Queued(c), Sooner(c), Elems(inbox[c]))'
      BY <1>2, <1>5, <2>0, <2>1
    <3>3. ASSUME c \notin gone', NEW g \in Diff,
                 ~Remote(c, g), Wanted(c, g), Known(g)', Due(c, g)'
          PROVE  g \in Elems(inbox'[c]) \union Elems(Queued(c)')
      BY <1>3, <2>0, <2>1, <3>3
    <3> QED BY <3>1, <3>2, <3>3 DEF RoadClosed, Remote, Wanted
  <2>2. ASSUME NEW f \in Diff, q # <<>>, f = Head(q), Queued(c)' = Tail(q),
               \/ inbox'[c] = i /\ (c \in gone' \/ ~Wanted(c, f) \/ f \in missed'[c])
               \/ inbox'[c] = Append(i, f) /\ c \notin gone /\ Wanted(c, f)
        PROVE  RoadClosed(c)'
    <3>0. Tail(q) \in Seq(Diff)
      BY <2>2
    <3>1. PICK t \in Seq(Diff) : t = Tail(q)
      BY <3>0
    <3>2. Elems(q) = Elems(t) \union {f} /\ Elems(t) \subseteq Diff
      BY <1>3, <2>2, <3>1, ReceiveFirst
    <3>3. c \notin gone => N[f] \subseteq Elems(i) /\ Closed(t, N, Elems(i) \union {f})
      BY <1>3, <2>2, <3>1, ReceiveFirst
    <3>4. CASE inbox'[c] = i
      <4>1. Closed(inbox[c], Sooner(c), {})'
        BY <1>2, <1>4, <3>4
      <4>2. c \notin gone' => ~Wanted(c, f) \/ ~Due(c, f)'
        <5>1. CASE inbox'[c] = Append(i, f)
          <6>1. Len(Append(i, f)) = Len(i) + 1 /\ Len(i) \in Nat
            OBVIOUS
          <6>2. Append(i, f) = i
            BY <3>4, <5>1
          <6>3. Len(i) = Len(i) + 1
            BY <6>1, <6>2
          <6> QED BY <6>1, <6>3
        <5> QED BY <2>2, <5>1 DEF Due
      <4>3. ASSUME c \notin gone'
            PROVE  Closed(Queued(c), Sooner(c), Elems(inbox[c]))'
        <5>1. \A g \in Elems(t) : f \notin M[g]
          <6>1. \A g \in Diff : f \in M[g] => Wanted(c, f) /\ Due(c, f)'
            BY <1>2 DEF Sooner, Wanted
          <6> QED BY <3>2, <4>2, <4>3, <6>1
        <5>2. Closed(t, M, Elems(i) \union {f})
          BY <1>3, <2>0, <3>2, <3>3, <4>3, ClosedLess
        <5>3. Closed(t, M, Elems(i))
          BY <5>1, <5>2, ClosedWithout
        <5> QED BY <1>2, <2>2, <3>1, <3>4, <5>3
      <4>4. ASSUME c \notin gone', NEW g \in Diff,
                   ~Remote(c, g), Wanted(c, g), Known(g)', Due(c, g)'
            PROVE  g \in Elems(inbox'[c]) \union Elems(Queued(c)')
        <5>1. g \in Elems(i) \union Elems(q) /\ g # f
          BY <1>3, <2>0, <4>2, <4>4
        <5> QED BY <2>2, <3>1, <3>2, <3>4, <5>1
      <4> QED BY <4>1, <4>3, <4>4 DEF RoadClosed, Remote, Wanted
    <3>5. CASE inbox'[c] = Append(i, f) /\ c \notin gone
      <4>1. Elems(Append(i, f)) = Elems(i) \union {f}
        BY SendLast
      <4>2. Closed(inbox[c], Sooner(c), {})'
        <5>1. M[f] \subseteq {} \union Elems(i)
          BY <1>3, <3>3, <3>5
        <5>2. Closed(Append(i, f), M, {})
          BY <1>4, <5>1, SendLast
        <5> QED BY <1>2, <3>5, <5>2
      <4>3. Closed(Queued(c), Sooner(c), Elems(inbox[c]))'
        <5>1. Closed(t, M, Elems(i) \union {f})
          BY <1>3, <3>2, <3>3, <3>5, ClosedLess
        <5> QED BY <1>2, <2>2, <3>1, <3>5, <4>1, <5>1
      <4>4. ASSUME NEW g \in Diff,
                   ~Remote(c, g), Wanted(c, g), Known(g)', Due(c, g)'
            PROVE  g \in Elems(inbox'[c]) \union Elems(Queued(c)')
        <5>1. g \in Elems(i) \union Elems(q)
          BY <1>3, <2>0, <3>5, <4>4
        <5> QED BY <2>2, <3>1, <3>2, <3>5, <4>1, <5>1
      <4> QED BY <4>2, <4>3, <4>4 DEF RoadClosed, Remote, Wanted
    <3> QED BY <2>2, <3>4, <3>5
  <2> QED BY <1>1, <1>10, <2>1, <2>2, RouteRoad
<1>11. ASSUME NEW a \in Conn, Publish(a) \/ PublishFails(a) \/ PublishTimesOut(a)
       PROVE  RoadClosed(c)'
  BY <1>7, <1>11 DEF Publish, clientVars, PublishFails, PublishTimesOut, Queued
<1>12. CASE PublishedLate
  BY <1>7, <1>12 DEF PublishedLate, clientVars, Queued
<1>13. ASSUME NEW s \in Server, Lose(s)
       PROVE  RoadClosed(c)'
  BY <1>7, <1>13 DEF Lose, clientVars, Queued
<1>14. ASSUME NEW a \in Conn, Register(a) \/ Unregister(a)
       PROVE  RoadClosed(c)'
  BY <1>7, <1>14, MapRoad
<1>15. CASE UNCHANGED vars
  BY <1>7, <1>15 DEF vars, bridgeVars, clientVars, Queued
<1> QED BY <1>8, <1>9, <1>10, <1>11, <1>12, <1>13, <1>14, <1>15 DEF Next

-----------------------------------------------------------------------------
(* Copies.                                                                  *)

\* A diff that nobody has sent yet is nowhere.
LEMMA NoneBefore ==
  ASSUME TypeOK, Honest, NEW c \in Conn, NEW f \in Diff, ~Known(f)
  PROVE  /\ Count(inbox[c], f) = 0 /\ Count(Queued(c), f) = 0 /\ Count(Coming(c), f) = 0
         /\ Late(f) = {}
<1>1. f \notin Road(c)
  BY RoadHonest
<1>2. Late(f) = {}
  BY DEF Honest, Genuine, Late
<1> QED BY <1>1, <1>2, CountIsNat, RoadTyped DEF Road

LEMMA FiniteNext ==
  ASSUME IsFiniteSet(late), [Next]_vars
  PROVE  IsFiniteSet(late')
<1>1. ASSUME NEW a \in Conn, PublishTimesOut(a)
      PROVE  IsFiniteSet(late')
  BY <1>1, FS_AddElement DEF PublishTimesOut, clientVars
<1>2. CASE PublishedLate
  BY <1>2, FS_RemoveElement DEF PublishedLate, clientVars
<1> QED BY <1>1, <1>2 DEF Next, vars, bridgeVars, clientVars, Register, Unregister,
                          HandleUpdate, Publish, PublishFails, Relay, Lose, Route

\* Redis carries out a PUBLISH that was pending: one more on the way, one less
\* to come.
LEMMA CountFanOut ==
  ASSUME TypeOK, NEW c \in Conn, RoadCounted(c), NEW m \in Message, NEW g \in Diff,
         m.Payload = g, FanOut(m), UNCHANGED <<inbox, broadcastQ, asked>>,
         \A f \in Diff :
           Pending(f) \in Nat /\ Pending(f)' \in Nat
             /\ Pending(f)' + (IF g = f THEN 1 ELSE 0) <= Pending(f)
  PROVE  RoadCounted(c)'
<1>1. PICK i, q, h \in Seq(Diff) : i = inbox[c] /\ q = Queued(c) /\ h = Coming(c)
  BY RoadTyped
<1>2. inbox'[c] = i /\ Queued(c)' = q /\ Coming(c)' = Append(h, g)
  BY <1>1, FanOutRoad DEF Queued
<1>3. ASSUME NEW f \in Diff
      PROVE  Count(i, f) + Count(q, f) + Count(Append(h, g), f) + Pending(f)'
               <= asked'[f] + (IF Remote(c, f) THEN 0 ELSE 1)
  <2>1. Count(Append(h, g), f) = Count(h, f) + (IF g = f THEN 1 ELSE 0)
    BY CountSend
  <2>2. Count(i, f) \in Nat /\ Count(q, f) \in Nat /\ Count(h, f) \in Nat /\ asked[f] \in Nat
    BY CountIsNat DEF TypeOK
  <2>3. Count(i, f) + Count(q, f) + Count(h, f) + Pending(f)
          <= asked[f] + (IF Remote(c, f) THEN 0 ELSE 1)
    BY <1>1 DEF RoadCounted
  <2>4. asked'[f] = asked[f]
    OBVIOUS
  <2>5. PICK x, y, z, k, v, w, n \in Nat :
          /\ x = Count(i, f) /\ y = Count(q, f) /\ z = Count(h, f)
          /\ k = (IF Remote(c, f) THEN 0 ELSE 1) /\ n = asked[f]
          /\ v = Pending(f) /\ w = Pending(f)'
    BY <2>2
  <2>6. w + (IF g = f THEN 1 ELSE 0) <= v
    BY <2>5
  <2>7. x + y + z + v <= n + k
    BY <2>3, <2>5
  <2>8. x + y + (z + (IF g = f THEN 1 ELSE 0)) + w <= n + k
    BY <2>6, <2>7
  <2> QED BY <2>1, <2>4, <2>5, <2>8
<1> QED BY <1>2, <1>3 DEF RoadCounted, Remote

\* Nothing joins the road and nothing is asked for.
LEMMA CountMove ==
  ASSUME TypeOK, NEW c \in Conn, RoadCounted(c), UNCHANGED asked,
         \A f \in Diff : Pending(f) \in Nat /\ Pending(f)' \in Nat /\ Pending(f)' <= Pending(f),
         \A f \in Diff :
           LET there == Count(inbox[c], f) + Count(Queued(c), f) + Count(Coming(c), f)
           IN  there \in Nat /\ there' \in Nat /\ there' <= there
  PROVE  RoadCounted(c)'
<1>1. ASSUME NEW f \in Diff
      PROVE  (Count(inbox[c], f) + Count(Queued(c), f) + Count(Coming(c), f) + Pending(f)
               <= asked[f] + (IF Remote(c, f) THEN 0 ELSE 1))'
  <2>1. PICK x, y, u, v \in Nat :
          /\ x = Count(inbox[c], f) + Count(Queued(c), f) + Count(Coming(c), f)
          /\ y = (Count(inbox[c], f) + Count(Queued(c), f) + Count(Coming(c), f))'
          /\ u = Pending(f) /\ v = Pending(f)' /\ y <= x /\ v <= u
    OBVIOUS
  <2>2. x + u <= asked[f] + (IF Remote(c, f) THEN 0 ELSE 1)
    BY <2>1 DEF RoadCounted
  <2>3. asked[f] \in Nat
    BY DEF TypeOK
  <2>4. y + v <= asked[f] + (IF Remote(c, f) THEN 0 ELSE 1)
    BY <2>1, <2>2, <2>3
  <2> QED BY <2>1, <2>4 DEF Remote
<1> QED BY <1>1 DEF RoadCounted

LEMMA CountNext ==
  ASSUME TypeOK, TypeOK', Honest, [Next]_vars, IsFiniteSet(late),
         NEW c \in Conn, RoadCounted(c)
  PROVE  RoadCounted(c)'
<1>1. PICK i, q, h \in Seq(Diff) : i = inbox[c] /\ q = Queued(c) /\ h = Coming(c)
  BY RoadTyped
<1>2. \A f \in Diff :
        /\ IsFiniteSet(Late(f)) /\ Cardinality(Late(f)) \in Nat
        /\ IsFiniteSet(Late(f))' /\ Cardinality(Late(f)') \in Nat
        /\ Pending(f) \in Nat /\ Pending(f)' \in Nat
  <2>1. ASSUME NEW f \in Diff
        PROVE  IsFiniteSet(Late(f)) /\ IsFiniteSet(Late(f))'
    <3>1. Late(f) \in SUBSET late /\ Late(f)' \in SUBSET late'
      BY DEF Late
    <3> QED BY <3>1, FiniteNext, FS_Subset
  <2> QED BY <2>1, FS_CardinalityType DEF Pending
<1>3. \A f \in Diff : Count(i, f) \in Nat /\ Count(q, f) \in Nat /\ Count(h, f) \in Nat
  BY CountIsNat
<1>4. ASSUME UNCHANGED <<late, handled>>, \A a \in Conn : publishing'[a] => publishing[a]
      PROVE  \A f \in Diff : Pending(f)' <= Pending(f)
  <2>1. ASSUME NEW f \in Diff
        PROVE  Pending(f)' <= Pending(f)
    <3>1. Late(f)' = Late(f)
      BY <1>4 DEF Late
    <3>2. Owed(f)' => Owed(f)
      BY <1>4, DiffIs DEF Owed
    <3> QED BY <1>2, <3>1, <3>2 DEF Pending
  <2> QED BY <2>1
<1>5. ASSUME UNCHANGED <<late, handled, publishing, asked>>,
             \A f \in Diff : LET there == Count(inbox[c], f) + Count(Queued(c), f) + Count(Coming(c), f)
                             IN  there' \in Nat /\ there' <= there
      PROVE  RoadCounted(c)'
  <2>1. \A f \in Diff : Pending(f)' <= Pending(f)
    BY <1>4, <1>5
  <2>2. \A f \in Diff :
           LET there == Count(inbox[c], f) + Count(Queued(c), f) + Count(Coming(c), f)
           IN  there \in Nat /\ there' \in Nat /\ there' <= there
    BY <1>1, <1>3, <1>5
  <2> QED BY <1>2, <1>5, <2>1, <2>2, CountMove
<1>6. ASSUME NEW a \in Conn, HandleUpdate(a)
      PROVE  RoadCounted(c)'
  <2>1. PICK g \in Diff :
          /\ g = <<a, handled[a] + 1>> /\ ~Known(g) /\ ~publishing[a]
          /\ handled' = [handled EXCEPT ![a] = g[2]]
          /\ publishing' = [publishing EXCEPT ![a] = TRUE]
          /\ asked' = [asked EXCEPT ![g] = 1]
          /\ UNCHANGED <<late, inbox>> /\ Coming(c)' = h
          /\ Queued(c)' = q \/ (Queued(c)' = Append(q, g) /\ Home[a] = Home[c])
    BY <1>1, <1>6, HandleRoad
  <2>2. g[1] = a /\ g[2] = handled[a] + 1
    BY <2>1
  <2>3. ASSUME NEW f \in Diff
        PROVE  Count(i, f) + Count(Queued(c)', f) + Count(h, f) + Pending(f)'
                 <= asked'[f] + (IF Remote(c, f) THEN 0 ELSE 1)
    <3>1. Late(f)' = Late(f)
      BY <2>1 DEF Late
    <3>2. Count(Append(q, g), f) = Count(q, f) + (IF g = f THEN 1 ELSE 0)
      BY CountSend
    <3>3. CASE f = g
      <4>1. /\ Count(i, f) = 0 /\ Count(q, f) = 0 /\ Count(h, f) = 0
            /\ Cardinality(Late(f)) = 0
        BY <1>1, <2>1, <3>3, NoneBefore, FS_EmptySet
      <4>2. Pending(f)' <= 1
        BY <3>1, <4>1 DEF Pending
      <4>3. asked'[f] = 1
        BY <2>1, <3>3 DEF TypeOK
      <4>4. Count(Queued(c)', f) = 0 \/ (Count(Queued(c)', f) = 1 /\ ~Remote(c, f))
        <5>1. CASE Queued(c)' = q
          BY <4>1, <5>1
        <5>2. CASE Queued(c)' = Append(q, g) /\ Home[a] = Home[c]
          BY <2>2, <3>2, <3>3, <4>1, <5>2 DEF Remote
        <5> QED BY <2>1, <5>1, <5>2
      <4> QED BY <1>2, <4>1, <4>2, <4>3, <4>4
    <3>4. CASE f # g
      <4>1. Count(Queued(c)', f) = Count(q, f)
        <5>1. PICK n \in Nat : n = Count(q, f)
          BY <1>3
        <5>2. Count(Append(q, g), f) = n
          BY <3>2, <3>4, <5>1
        <5> QED BY <2>1, <5>1, <5>2
      <4>2. asked'[f] = asked[f]
        BY <2>1, <3>4 DEF TypeOK
      <4>3. Owed(f)' => Owed(f)
        <5>1. CASE f[1] = a
          BY <2>1, <2>2, <3>4, <5>1, DiffIs DEF Owed, TypeOK
        <5>2. CASE f[1] # a
          BY <2>1, <5>2, DiffIs DEF Owed, TypeOK
        <5> QED BY <5>1, <5>2
      <4>4. Pending(f)' <= Pending(f)
        BY <1>2, <3>1, <4>3 DEF Pending
      <4>5. Count(i, f) + Count(q, f) + Count(h, f) + Pending(f)
              <= asked[f] + (IF Remote(c, f) THEN 0 ELSE 1)
        BY <1>1 DEF RoadCounted
      <4>6. PICK x, y, z, u, v, n \in Nat :
              /\ x = Count(i, f) /\ y = Count(q, f) /\ z = Count(h, f)
              /\ u = Pending(f) /\ v = Pending(f)' /\ n = asked[f]
        BY <1>2, <1>3 DEF TypeOK
      <4>7. v <= u /\ x + y + z + u <= n + (IF Remote(c, f) THEN 0 ELSE 1)
        BY <4>4, <4>5, <4>6
      <4>8. x + y + z + v <= n + (IF Remote(c, f) THEN 0 ELSE 1)
        BY <4>7
      <4> QED BY <4>1, <4>2, <4>6, <4>8
    <3> QED BY <3>3, <3>4
  <2> QED BY <1>1, <2>1, <2>3 DEF RoadCounted, Remote
<1>7. ASSUME NEW a \in Conn, Publish(a)
      PROVE  RoadCounted(c)'
  <2>1. PICK m \in Message, g \in Diff :
          /\ m = Msg(a, handled[a]) /\ m.Payload = g /\ g = <<a, handled[a]>> /\ Owed(g)
    BY <1>7, OwedMsg DEF Publish, clientVars
  <2>2. FanOut(m) /\ publishing' = [publishing EXCEPT ![a] = FALSE]
        /\ UNCHANGED <<handled, late, inbox, broadcastQ, asked>>
    BY <1>7, <2>1 DEF Publish, clientVars
  <2>3. ASSUME NEW f \in Diff
        PROVE  Pending(f)' + (IF g = f THEN 1 ELSE 0) <= Pending(f)
    <3>1. Late(f)' = Late(f)
      BY <2>2 DEF Late
    <3>2. g = f => Owed(f) /\ ~Owed(f)'
      BY <2>1, <2>2 DEF Owed, TypeOK
    <3>3. Owed(f)' => Owed(f)
      BY <2>2, DiffIs DEF Owed, TypeOK
    <3> QED BY <1>2, <3>1, <3>2, <3>3 DEF Pending
  <2> QED BY <1>2, <2>1, <2>2, <2>3, CountFanOut
<1>8. ASSUME NEW a \in Conn, PublishFails(a)
      PROVE  RoadCounted(c)'
  <2>1. /\ UNCHANGED <<late, handled, inbox, asked, Queued(c), Coming(c)>>
        /\ \A d \in Conn : publishing'[d] => publishing[d]
    BY <1>8 DEF PublishFails, clientVars, Queued, Coming, TypeOK
  <2>2. \A f \in Diff : Pending(f)' <= Pending(f)
    BY <1>4, <2>1
  <2>3. \A f \in Diff :
           LET there == Count(inbox[c], f) + Count(Queued(c), f) + Count(Coming(c), f)
           IN  there \in Nat /\ there' \in Nat /\ there' <= there
    BY <1>1, <1>3, <2>1
  <2> QED BY <1>2, <2>1, <2>2, <2>3, CountMove
<1>9. ASSUME NEW a \in Conn, PublishTimesOut(a)
      PROVE  RoadCounted(c)'
  <2>1. PICK m \in Message, g \in Diff : m = Msg(a, handled[a]) /\ m.Payload = g
    BY <1>9, OwedMsg DEF PublishTimesOut, clientVars
  <2>2. /\ late' = late \union {<<timeouts, m>>}
        /\ asked' = [asked EXCEPT ![g] = @ + 1]
        /\ UNCHANGED <<handled, publishing, inbox, Queued(c), Coming(c)>>
    BY <1>9, <2>1 DEF PublishTimesOut, clientVars, Queued, Coming
  <2>3. ASSUME NEW f \in Diff
        PROVE  Count(i, f) + Count(q, f) + Count(h, f) + Pending(f)'
                 <= asked'[f] + (IF Remote(c, f) THEN 0 ELSE 1)
    <3>1. Late(f)' = IF f = g THEN Late(f) \union {<<timeouts, m>>} ELSE Late(f)
      BY <2>1, <2>2 DEF Late
    <3>2. Cardinality(Late(f)') <= Cardinality(Late(f)) + (IF f = g THEN 1 ELSE 0)
      <4>1. PICK L : L = Late(f) /\ IsFiniteSet(L) /\ Cardinality(L) \in Nat
        BY <1>2
      <4>2. PICK x : x = <<timeouts, m>>
        OBVIOUS
      <4>3. Cardinality(L \union {x}) = IF x \in L THEN Cardinality(L) ELSE Cardinality(L) + 1
        BY <4>1, FS_AddElement
      <4>4. Late(f)' = IF f = g THEN L \union {x} ELSE L
        BY <3>1, <4>1, <4>2
      <4> QED BY <4>1, <4>3, <4>4
    <3>3. asked[f] \in Nat /\ asked'[f] = asked[f] + (IF f = g THEN 1 ELSE 0)
      BY <2>2 DEF TypeOK
    <3>4. Owed(f)' <=> Owed(f)
      BY <2>2 DEF Owed
    <3>5. Pending(f)' <= Pending(f) + (IF f = g THEN 1 ELSE 0)
      BY <1>2, <3>2, <3>4 DEF Pending
    <3>6. Count(i, f) + Count(q, f) + Count(h, f) + Pending(f)
            <= asked[f] + (IF Remote(c, f) THEN 0 ELSE 1)
      BY <1>1 DEF RoadCounted
    <3>7. PICK x, y, z, u, v, n, d \in Nat :
            /\ x = Count(i, f) /\ y = Count(q, f) /\ z = Count(h, f)
            /\ u = Pending(f) /\ v = Pending(f)' /\ n = asked[f]
            /\ d = (IF f = g THEN 1 ELSE 0)
      BY <1>2, <1>3, <3>3
    <3>8. v <= u + d /\ x + y + z + u <= n + (IF Remote(c, f) THEN 0 ELSE 1)
      BY <3>5, <3>6, <3>7
    <3>9. x + y + z + v <= n + d + (IF Remote(c, f) THEN 0 ELSE 1)
      BY <3>8
    <3> QED BY <3>3, <3>7, <3>9
  <2> QED BY <1>1, <2>2, <2>3 DEF RoadCounted, Remote
<1>10. CASE PublishedLate
  <2>1. PICK x \in late : FanOut(x[2]) /\ late' = late \ {x}
    BY <1>10 DEF PublishedLate, clientVars
  <2>2. PICK m \in Message, g \in Diff : m = x[2] /\ m.Payload = g
    <3>1. \A m \in Message : m.Payload \in Diff
      BY DEF Message
    <3> QED BY <2>1, <3>1 DEF TypeOK
  <2>3. UNCHANGED <<handled, publishing, inbox, broadcastQ, asked>>
    BY <1>10 DEF PublishedLate, clientVars
  <2>4. ASSUME NEW f \in Diff
        PROVE  Pending(f)' + (IF g = f THEN 1 ELSE 0) <= Pending(f)
    <3>1. Late(f)' = Late(f) \ {x} /\ (x \in Late(f) <=> g = f)
      BY <2>1, <2>2 DEF Late
    <3>2. Cardinality(Late(f)') + (IF g = f THEN 1 ELSE 0) = Cardinality(Late(f))
      <4>1. PICK L : L = Late(f) /\ IsFiniteSet(L) /\ Cardinality(L) \in Nat
        BY <1>2
      <4>2. Cardinality(L \ {x}) = IF x \in L THEN Cardinality(L) - 1 ELSE Cardinality(L)
        BY <4>1, FS_RemoveElement
      <4> QED BY <3>1, <4>1, <4>2
    <3>3. Owed(f)' <=> Owed(f)
      BY <2>3 DEF Owed
    <3> QED BY <1>2, <3>2, <3>3 DEF Pending
  <2> QED BY <1>2, <2>1, <2>2, <2>3, <2>4, CountFanOut
<1>11. ASSUME NEW s \in Server, Relay(s) \/ Lose(s)
       PROVE  RoadCounted(c)'
  <2>1. /\ UNCHANGED <<late, handled, publishing, asked, inbox>>
        /\ \/ Queued(c)' = q /\ Coming(c)' = h
           \/ /\ h # <<>> /\ Coming(c)' = Tail(h)
              /\ Queued(c)' = q \/ Queued(c)' = Append(q, Head(h))
    BY <1>1, <1>11, RelayRoad, LoseRoad
  <2>2. ASSUME NEW f \in Diff
        PROVE  /\ Count(Queued(c)', f) \in Nat /\ Count(Coming(c)', f) \in Nat
               /\ Count(Queued(c)', f) + Count(Coming(c)', f) <= Count(q, f) + Count(h, f)
    <3>1. CASE Queued(c)' = q /\ Coming(c)' = h
      BY <1>3, <3>1
    <3>2. CASE h # <<>> /\ Coming(c)' = Tail(h)
      <4>0. Head(h) \in Diff /\ Tail(h) \in Seq(Diff)
        BY <3>2
      <4>1. PICK g \in Diff, t \in Seq(Diff) : g = Head(h) /\ t = Tail(h)
        BY <4>0
      <4>2. Count(h, f) = Count(t, f) + (IF g = f THEN 1 ELSE 0)
        BY <3>2, <4>1, CountReceive
      <4>3. Count(Append(q, g), f) = Count(q, f) + (IF g = f THEN 1 ELSE 0)
        BY CountSend
      <4>4. Count(t, f) \in Nat
        BY CountIsNat
      <4>5. Coming(c)' = t /\ (Queued(c)' = q \/ Queued(c)' = Append(q, g))
        BY <2>1, <3>2, <4>1
      <4>6. PICK x, y, d \in Nat : /\ x = Count(q, f) /\ y = Count(t, f)
                                   /\ d = (IF g = f THEN 1 ELSE 0)
        BY <1>3, <4>4
      <4>7. /\ Count(Coming(c)', f) = y /\ Count(h, f) = y + d
            /\ Count(Queued(c)', f) = x \/ Count(Queued(c)', f) = x + d
        BY <4>2, <4>3, <4>5, <4>6
      <4> QED BY <4>6, <4>7
    <3> QED BY <2>1, <3>1, <3>2
  <2>3. \A f \in Diff : LET there == Count(inbox[c], f) + Count(Queued(c), f) + Count(Coming(c), f)
                        IN  there' \in Nat /\ there' <= there
    <3> SUFFICES ASSUME NEW f \in Diff
                 PROVE  LET there == Count(inbox[c], f) + Count(Queued(c), f) + Count(Coming(c), f)
                        IN  there' \in Nat /\ there' <= there
      OBVIOUS
    <3>1. PICK x, y, z \in Nat : x = Count(i, f) /\ y = Count(Queued(c)', f) /\ z = Count(Coming(c)', f)
      BY <1>3, <2>2
    <3>2. y + z <= Count(q, f) + Count(h, f)
      BY <2>2, <3>1
    <3>3. inbox'[c] = i
      BY <1>1, <2>1
    <3> QED BY <1>1, <1>3, <3>1, <3>2, <3>3
  <2> QED BY <1>5, <2>1, <2>3
<1>12. ASSUME NEW s \in Server, Route(s)
       PROVE  RoadCounted(c)'
  <2>1. /\ UNCHANGED <<late, handled, publishing, asked>> /\ Coming(c)' = h
        /\ \/ Queued(c)' = q /\ inbox'[c] = i
           \/ /\ q # <<>> /\ Queued(c)' = Tail(q)
              /\ inbox'[c] = i \/ inbox'[c] = Append(i, Head(q))
    BY <1>1, <1>12, RouteRoad
  <2>2. ASSUME NEW f \in Diff
        PROVE  /\ Count(inbox'[c], f) \in Nat /\ Count(Queued(c)', f) \in Nat
               /\ Count(inbox'[c], f) + Count(Queued(c)', f) <= Count(i, f) + Count(q, f)
    <3>1. CASE Queued(c)' = q /\ inbox'[c] = i
      BY <1>3, <3>1
    <3>2. CASE q # <<>> /\ Queued(c)' = Tail(q)
      <4>0. Head(q) \in Diff /\ Tail(q) \in Seq(Diff)
        BY <3>2
      <4>1. PICK g \in Diff, t \in Seq(Diff) : g = Head(q) /\ t = Tail(q)
        BY <4>0
      <4>2. Count(q, f) = Count(t, f) + (IF g = f THEN 1 ELSE 0)
        BY <3>2, <4>1, CountReceive
      <4>3. Count(Append(i, g), f) = Count(i, f) + (IF g = f THEN 1 ELSE 0)
        BY CountSend
      <4>4. Count(t, f) \in Nat
        BY CountIsNat
      <4>5. Queued(c)' = t /\ (inbox'[c] = i \/ inbox'[c] = Append(i, g))
        <5>1. inbox'[c] = i \/ inbox'[c] = Append(i, g) \/ (Queued(c)' = q /\ inbox'[c] = i)
          BY <2>1, <4>1
        <5> QED BY <3>2, <4>1, <5>1
      <4>6. PICK x, y, d \in Nat : /\ x = Count(i, f) /\ y = Count(t, f)
                                   /\ d = (IF g = f THEN 1 ELSE 0)
        BY <1>3, <4>4
      <4>7. /\ Count(Queued(c)', f) = y /\ Count(q, f) = y + d
            /\ Count(inbox'[c], f) = x \/ Count(inbox'[c], f) = x + d
        BY <4>2, <4>3, <4>5, <4>6
      <4> QED BY <4>6, <4>7
    <3> QED BY <2>1, <3>1, <3>2
  <2>3. \A f \in Diff : LET there == Count(inbox[c], f) + Count(Queued(c), f) + Count(Coming(c), f)
                        IN  there' \in Nat /\ there' <= there
    <3> SUFFICES ASSUME NEW f \in Diff
                 PROVE  LET there == Count(inbox[c], f) + Count(Queued(c), f) + Count(Coming(c), f)
                        IN  there' \in Nat /\ there' <= there
      OBVIOUS
    <3>1. PICK x, y \in Nat : x = Count(inbox'[c], f) /\ y = Count(Queued(c)', f)
      BY <2>2
    <3>2. x + y <= Count(i, f) + Count(q, f)
      BY <2>2, <3>1
    <3>3. PICK z, n \in Nat : z = Count(h, f) /\ n = Count(i, f) + Count(q, f)
      BY <1>3
    <3>4. x + y + z <= n + z /\ x + y + z \in Nat
      BY <3>1, <3>2, <3>3
    <3> QED BY <1>1, <2>1, <3>1, <3>3, <3>4
  <2> QED BY <1>5, <2>1, <2>3
<1>13. ASSUME UNCHANGED vars \/ \E a \in Conn : Register(a) \/ Unregister(a)
       PROVE  RoadCounted(c)'
  <2>1. UNCHANGED <<late, handled, publishing, asked, inbox, Queued(c), Coming(c)>>
    BY <1>13, MapRoad DEF vars, bridgeVars, clientVars, Queued, Coming
  <2>2. \A f \in Diff : LET there == Count(inbox[c], f) + Count(Queued(c), f) + Count(Coming(c), f)
                        IN  there' \in Nat /\ there' <= there
    BY <1>1, <1>3, <2>1
  <2> QED BY <1>5, <2>1, <2>2
<1> QED BY <1>6, <1>7, <1>8, <1>9, <1>10, <1>11, <1>12, <1>13 DEF Next

-----------------------------------------------------------------------------
(* The theorems.                                                            *)

PubSubInv ==
  TypeOK /\ Honest /\ IsFiniteSet(late)
    /\ \A c \in Conn : RoadInOrder(c) /\ RoadClosed(c) /\ RoadCounted(c)

LEMMA PubSubInit == Init => PubSubInv
<1> SUFFICES ASSUME Init PROVE PubSubInv
  OBVIOUS
<1>1. TypeOK /\ Honest
  BY TypeInit, HonestInit
<1>2. IsFiniteSet(late)
  BY FS_EmptySet DEF Init
<1>3. ASSUME NEW c \in Conn
      PROVE  RoadInOrder(c) /\ RoadClosed(c) /\ RoadCounted(c)
  <2>1. /\ inbox[c] = <<>> /\ DOMAIN Queued(c) = {} /\ DOMAIN Coming(c) = {}
        /\ DOMAIN inbox[c] = {}
    <3>1. Home[c] \in Server
      BY PubSubAssumption
    <3>2. inbox[c] = <<>> /\ broadcastQ[Home[c]] = <<>> /\ channel[Home[c]] = <<>>
      BY <3>1 DEF Init
    <3>3. DOMAIN <<>> = {}
      OBVIOUS
    <3> QED BY <3>2, <3>3 DEF Queued, Coming, Payloads, Carried
  <2>2. /\ Elems(inbox[c]) = {} /\ Elems(Queued(c)) = {} /\ Elems(Coming(c)) = {}
    BY <2>1 DEF Elems
  <2>3. \A f \in Diff : ~Known(f) /\ asked[f] = 0 /\ ~Owed(f)
    BY DiffIs DEF Init, Known, Owed
  <2>4. RoadInOrder(c)
    BY <2>1, <2>2 DEF RoadInOrder, Aligned, Ordered, Road
  <2>5. RoadClosed(c)
    BY <2>1, <2>3 DEF RoadClosed, Closed
  <2>6. ASSUME NEW f \in Diff
        PROVE  Count(inbox[c], f) + Count(Queued(c), f) + Count(Coming(c), f) + Pending(f)
                 <= asked[f] + (IF Remote(c, f) THEN 0 ELSE 1)
    <3>1. /\ Count(inbox[c], f) = 0 /\ Count(Queued(c), f) = 0 /\ Count(Coming(c), f) = 0
          /\ Cardinality(Late(f)) = 0
      BY <1>1, <2>3, NoneBefore, FS_EmptySet
    <3>2. Pending(f) = 0
      BY <2>3, <3>1 DEF Pending
    <3> QED BY <2>3, <3>1, <3>2
  <2> QED BY <2>4, <2>5, <2>6 DEF RoadCounted
<1> QED BY <1>1, <1>2, <1>3 DEF PubSubInv

LEMMA PubSubNext == PubSubInv /\ [Next]_vars => PubSubInv'
<1> SUFFICES ASSUME PubSubInv, [Next]_vars PROVE PubSubInv'
  OBVIOUS
<1>1. TypeOK /\ Honest /\ IsFiniteSet(late)
  BY DEF PubSubInv
<1>2. TypeOK' /\ Honest'
  BY <1>1, TypeNext, HonestNext
<1>3. IsFiniteSet(late')
  BY <1>1, FiniteNext
<1>4. ASSUME NEW c \in Conn
      PROVE  (RoadInOrder(c) /\ RoadClosed(c) /\ RoadCounted(c))'
  <2>1. RoadInOrder(c) /\ RoadClosed(c) /\ RoadCounted(c)
    BY DEF PubSubInv
  <2> QED BY <1>1, <1>2, <2>1, OrderNext, ClosedNext, CountNext
<1> QED BY <1>2, <1>3, <1>4 DEF PubSubInv

LEMMA PubSubInvariant == Spec => []PubSubInv
<1> QED BY PubSubInit, PubSubNext, PTL DEF Spec

\* Every variable keeps its type, no Hub.Broadcast holds more than its buffer,
\* and no browser's handler takes more diffs than were sent.
THEOREM TypeCorrect == Spec => []TypeOK
<1>1. PubSubInv => TypeOK
  BY DEF PubSubInv
<1> QED BY <1>1, PubSubInvariant, PTL

\* However many servers relay a diff and however often, it reaches only other
\* users, and only on its own document.
THEOREM OnlyOthersReceive == Spec => []OnlyToOthersOnTheDocument
<1>1. ASSUME PubSubInv PROVE OnlyToOthersOnTheDocument
  <2>1. ASSUME NEW c \in Conn, NEW i \in DOMAIN inbox[c]
        PROVE  Wanted(c, inbox[c][i])
    <3>1. inbox[c][i] \in Elems(inbox[c])
      BY DEF Elems
    <3> QED BY <1>1, <3>1 DEF PubSubInv, Honest
  <2> QED BY <2>1 DEF OnlyToOthersOnTheDocument, Wanted
<1> QED BY <1>1, PubSubInvariant, PTL

\* A browser gets no more copies of a diff than Redis was asked to publish, and
\* one more on the author's server.
THEOREM BridgeHasNoLoop == Spec => []CopiesAreBounded
<1>1. ASSUME PubSubInv PROVE CopiesAreBounded
  <2>1. ASSUME NEW c \in Conn, NEW f \in Diff
        PROVE  Cardinality(Copies(c, f)) <= asked[f] + (IF Remote(c, f) THEN 0 ELSE 1)
    <3>1. PICK x, y, z, n \in Nat :
            /\ x = Count(inbox[c], f) /\ y = Count(Queued(c), f) /\ z = Count(Coming(c), f)
            /\ n = asked[f]
      BY <1>1, RoadTyped, CountIsNat DEF PubSubInv, TypeOK
    <3>2. PICK u \in Nat : u = Pending(f)
      <4>1. Late(f) \in SUBSET late
        BY DEF Late
      <4>2. Cardinality(Late(f)) \in Nat
        BY <1>1, <4>1, FS_Subset, FS_CardinalityType DEF PubSubInv
      <4> QED BY <4>2 DEF Pending
    <3>3. x + y + z + u <= n + (IF Remote(c, f) THEN 0 ELSE 1)
      BY <1>1, <3>1, <3>2 DEF PubSubInv, RoadCounted
    <3>4. x <= n + (IF Remote(c, f) THEN 0 ELSE 1)
      BY <3>3
    <3>5. Cardinality(Copies(c, f)) = x
      BY <3>1 DEF Count, Copies
    <3> QED BY <3>1, <3>4, <3>5
  <2> QED BY <2>1 DEF CopiesAreBounded
<1> QED BY <1>1, PubSubInvariant, PTL

\* On every other server an author's diffs arrive in order and at most once,
\* unless Redis was asked twice for one of them.
THEOREM BridgeIsOrdered == Spec => []BridgeKeepsOrder
<1>1. ASSUME PubSubInv PROVE BridgeKeepsOrder
  <2>1. ASSUME NEW c \in Conn, NEW i \in DOMAIN inbox[c], NEW j \in DOMAIN inbox[c], i < j
        PROVE  <<inbox[c][i], inbox[c][j]>> \in Precedes(Home[c])
    BY <1>1, <2>1 DEF PubSubInv, RoadInOrder, Aligned, Ordered
  <2> QED BY <2>1 DEF BridgeKeepsOrder, Precedes, Remote
<1> QED BY <1>1, PubSubInvariant, PTL

\* On the author's server a diff first arrives after a newer one only if the
\* hub had no room for it when it was handled, or routed it before the browser
\* was registered: to the others the echo comes second.
THEOREM EchoesAreSecond == Spec => []EchoesComeSecond
<1>1. ASSUME PubSubInv PROVE EchoesComeSecond
  <2>1. ASSUME NEW c \in Conn, NEW i \in DOMAIN inbox[c], NEW j \in DOMAIN inbox[c],
               NEW f, NEW g, f = inbox[c][i], g = inbox[c][j],
               i < j, f[1] = g[1], g[2] < f[2], ~Remote(c, f),
               \A n \in Copies(c, g) : j <= n
        PROVE  g \in dropped \/ g \in missed[c]
    <3> SUFFICES ASSUME Due(c, g) PROVE FALSE
      BY DEF Due
    <3>1. inbox[c] \in Seq(Diff) /\ DOMAIN inbox[c] = 1 .. Len(inbox[c])
          /\ Len(inbox[c]) \in Nat
      BY <1>1, RoadTyped DEF PubSubInv
    <3>2. f \in Diff /\ g \in Diff /\ g \in Elems(inbox[c])
      BY <2>1, <3>1 DEF Elems
    <3>3. Wanted(c, g) /\ ~Remote(c, g)
      BY <1>1, <2>1, <3>2, RoadHonest DEF PubSubInv, Remote
    <3>4. g \in Sooner(c)[f]
      BY <2>1, <3>2, <3>3 DEF Sooner
    <3>5. PICK n \in 1 .. i - 1 : inbox[c][n] = g
      BY <1>1, <2>1, <3>4 DEF PubSubInv, RoadClosed, Closed
    <3>6. n \in DOMAIN inbox[c] /\ n < j
      BY <2>1, <3>1, <3>5
    <3>7. n \in Copies(c, g)
      BY <3>5, <3>6 DEF Copies
    <3>8. j <= n /\ n \in Nat /\ j \in Nat
      BY <2>1, <3>1, <3>6, <3>7
    <3> QED BY <3>6, <3>8
  <2> QED BY <2>1 DEF EchoesComeSecond
<1> QED BY <1>1, PubSubInvariant, PTL
===============================================================================
