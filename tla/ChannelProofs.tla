---------------------------- MODULE ChannelProofs ----------------------------
(***************************************************************************)
(* The safety of the sending side, and that each link of it is a Fifo, for *)
(* any links, frame sizes, sizes of PDUs and number of them.               *)
(***************************************************************************)
EXTENDS Channel, ListLemmas

----------------------------------------------------------------------------
(***************************************************************************)
(* The inductive invariant.                                                *)
(***************************************************************************)

Octets == Nat \X Nat
Types == {"network", "config"}
Frames == [sar : {"complete", "first", "continuation", "last"}, type : Types, part : Seq(Octets)]
Kinds == [kind : {"net", "clear", "add"}, size : Nat \ {0}]

TypeOK ==
  /\ sent \in Seq(Kinds) /\ queue \in Seq(Nat) /\ held \in Nat /\ unfinished \in Nat
  /\ pump \in {"unstarted", "running", "dead", "stopped"}
  /\ bearers \subseteq Links /\ freed \subseteq Links
  /\ sub \in [Links -> {"none", "late", "ok", "refused", "failed"}]
  /\ out \in [Links -> Seq(Frames)] /\ result \in [Links -> {"none", "pending", "ok", "error"}]
  /\ dead \in BOOLEAN /\ flush \in {"none", "waiting", "done"} /\ mark \in Nat
  /\ peer \in [Links -> [type : Types \cup {None}, buf : Seq(Octets)]]
  /\ got \in [Links -> Seq(Nat)] /\ filter \in [Links -> {"empty", "cleared", "ours"}]

\* How many PDUs the pump has taken.
Taken == Len(sent) - Len(queue)

\* The queue has the numbers that follow, in order; a clear is followed by its add.
QueueInOrder ==
  /\ Len(queue) <= Len(sent) /\ \A i \in 1 .. Len(queue) : queue[i] = Taken + i
  /\ held # 0 => held = Taken /\ pump = "running"
  /\ pump = "unstarted" => sent = <<>>
  /\ \A n \in 1 .. Len(sent) :
       sent[n].kind = "clear" => n < Len(sent) /\ sent[n + 1].kind = "add"

\* Which links there are to send over.
LinksInUse ==
  /\ bearers \cap freed = {}
  /\ \A l \in Links :
       /\ l \in freed \cup (bearers \ First) => sub[l] # "none"
       /\ pump = "running" /\ l \in bearers => sub[l] \in {"ok", "late", "failed"}
       /\ sub[l] = "none" \/ pump = "unstarted" => peer[l] = Reset /\ got[l] = <<>>
  /\ pump = "running" => First \subseteq bearers \cup freed
  /\ pump = "unstarted" => bearers = First /\ freed = {}

\* Only a link in use has a write under way, and only while the pump holds a PDU.
Writes ==
  \A l \in Links :
    /\ held = 0 => result[l] = "none"
    /\ result[l] # "none" => l \in bearers
    /\ result[l] = "pending" <=> out[l] # <<>>

\* The frames left of the PDU in hand go on where the proxy is.
Begins(octets) == octets # <<>> /\ octets[1][1] = held

UnderWay(l) ==
  LET n == Len(out[l]) IN
  /\ \A i \in 1 .. n : out[l][i].type = Type(held)
  /\ \/ n = 1 /\ out[l][1].sar = "complete" /\ Begins(out[l][1].part) /\ peer[l] = Reset
     \/ /\ out[l][n].sar = "last" /\ \A i \in 2 .. n - 1 : out[l][i].sar = "continuation"
        /\ \/ n > 1 /\ out[l][1].sar = "first" /\ Begins(out[l][1].part) /\ peer[l] = Reset
           \/ /\ n > 1 => out[l][1].sar = "continuation"
              /\ Begins(peer[l].buf) /\ peer[l].type = Type(held)

ProxiesFollow ==
  pump = "running" =>
    \A l \in bearers :
      /\ result[l] \in {"none", "ok"} => peer[l] = Reset
      /\ result[l] = "pending" => UnderWay(l)

\* The last message of a link is the last one that was written to it.
Reached(l) == IF result[l] = "pending" THEN held - 1 ELSE Taken

NoneLeftOut ==
  pump = "running" =>
    /\ \A l \in bearers : result[l] # "error" =>
         /\ got[l] = <<>> => result[l] # "ok" /\ (l \in First => Reached(l) = 0)
         /\ got[l] # <<>> => got[l][Len(got[l])] = Reached(l)
    /\ \A n \in 1 .. Taken : n # held => \E l \in Links : n \in Range(got[l])

\* A flush returns when its message is out.
FlushedIsOut == flush = "done" => \E l \in Links : mark \in Range(got[l])

\* A link that joined has its add behind it or still to come.
ClaimsCome ==
  pump = "running" =>
    \A l \in bearers \ First : result[l] # "error" =>
      \/ filter[l] = "ours"
      \/ \E n \in Taken + 1 .. Len(sent) : sent[n].kind = "add"
      \/ result[l] = "pending" /\ sent[held].kind = "add"

IInv ==
  /\ TypeOK /\ Books /\ QueueInOrder /\ LinksInUse /\ Writes /\ ProxiesFollow
  /\ NoneLeftOut /\ FlushedIsOut /\ ClaimsCome

----------------------------------------------------------------------------
(***************************************************************************)
(* What the operators do.                                                  *)
(***************************************************************************)

\* segment: a message is cut into frames, the first of which begins it.
LEMMA SegmentBegins ==
  ASSUME NEW payload \in Seq(Octets), payload # <<>>, NEW type \in Types, NEW mtu \in Nat \ {0, 1}
  PROVE  LET F == Segment(type, payload, mtu)  n == Len(F) IN
         /\ F \in Seq(Frames) /\ n > 0 /\ F # <<>>
         /\ \A i \in 1 .. n : F[i].type = type
         /\ F[1].part # <<>> /\ F[1].part[1] = payload[1]
         /\ \/ n = 1 /\ F[1].sar = "complete"
            \/ /\ n > 1 /\ F[1].sar = "first" /\ F[n].sar = "last"
               /\ \A i \in 2 .. n - 1 : F[i].sar = "continuation"
<1> DEFINE F == Segment(type, payload, mtu)  n == Pieces(payload, mtu)  c == mtu - 1
           Part(i) == SubSeq(payload, (i - 1) * c + 1, Smaller(i * c, Len(payload)))
<1>1. n \in Int /\ c \in Nat /\ c > 0 /\ Len(payload) \in Nat /\ Len(payload) > 0
  <2>1. c \in Nat /\ c > 0 /\ Len(payload) \in Nat /\ Len(payload) > 0
    OBVIOUS
  <2>2. n \in Int
    BY <2>1 DEF Pieces, Chunk
  <2>3. QED
    BY <2>1, <2>2
<1> HIDE DEF n
<1>2. CASE n <= 1
  <2>1. F = <<[sar |-> "complete", type |-> type, part |-> payload]>>
    BY <1>2 DEF Segment, n
  <2>2. [sar |-> "complete", type |-> type, part |-> payload] \in Frames
    BY DEF Frames
  <2>3. QED
    BY <2>1, <2>2
<1>3. CASE n > 1
  <2>1. F = [i \in 1 .. n |-> [sar |-> Sar(i, n), type |-> type, part |-> Part(i)]]
    BY <1>1, <1>3 DEF Segment, Chunk, n
  <2>2. \A i \in 1 .. n : Part(i) \in Seq(Octets)
    <3>1. SUFFICES ASSUME NEW i \in 1 .. n PROVE Part(i) \in Seq(Octets)
      OBVIOUS
    <3> DEFINE a == (i - 1) * c + 1  b == Smaller(i * c, Len(payload))
    <3>2. (i - 1) * c \in Nat /\ i * c \in Nat
      <4>1. i - 1 \in Nat /\ i \in Nat /\ i - 1 >= 0
        OBVIOUS
      <4>2. \A x, y \in Nat : x * y \in Nat
        OBVIOUS
      <4>3. QED
        BY <4>1, <4>2, <1>1
    <3>3. a \in Nat /\ a >= 1 /\ b \in Nat /\ b <= Len(payload)
      BY <3>2, <1>1 DEF Smaller
    <3> HIDE DEF a, b
    <3>4. SubSeq(payload, a, b) \in Seq(Octets)
      BY <3>3
    <3>5. QED
      BY <3>4 DEF a, b
  <2>3. Part(1) # <<>> /\ Part(1)[1] = payload[1]
    <3>1. (1 - 1) * c + 1 = 1 /\ 1 * c = c
      BY <1>1
    <3> DEFINE b == Smaller(c, Len(payload))
    <3>2. b \in Nat /\ 1 <= b /\ b <= Len(payload)
      BY <1>1 DEF Smaller
    <3>3. Part(1) = SubSeq(payload, 1, b)
      BY <3>1
    <3> HIDE DEF b
    <3>4. Len(SubSeq(payload, 1, b)) = b /\ SubSeq(payload, 1, b)[1] = payload[1]
      BY <3>2
    <3>5. SubSeq(payload, 1, b) # <<>>
      BY <3>2, <3>4
    <3>6. QED
      BY <3>3, <3>4, <3>5, Zenon
  <2> HIDE DEF Part
  <2>4. /\ \A i \in 1 .. n : Sar(i, n) \in {"complete", "first", "continuation", "last"}
        /\ Sar(1, n) = "first" /\ Sar(n, n) = "last" /\ \A i \in 2 .. n - 1 : Sar(i, n) = "continuation"
    BY <1>1, <1>3 DEF Sar
  <2> DEFINE G == [i \in 1 .. n |-> [sar |-> Sar(i, n), type |-> type, part |-> Part(i)]]
  <2>5. /\ \A i \in 1 .. n : G[i] = [sar |-> Sar(i, n), type |-> type, part |-> Part(i)]
        /\ G \in Seq(Frames) /\ Len(G) = n
    <3>1. \A i \in 1 .. n : [sar |-> Sar(i, n), type |-> type, part |-> Part(i)] \in Frames
      BY <2>2, <2>4 DEF Frames
    <3>2. QED
      BY <3>1, <1>1, <1>3
  <2> HIDE DEF G
  <2>6. /\ \A i \in 1 .. n : G[i].sar = Sar(i, n) /\ G[i].type = type /\ G[i].part = Part(i)
        /\ 1 \in 1 .. n /\ n \in 1 .. n /\ \A i \in 2 .. n - 1 : i \in 1 .. n
    BY <2>5, <1>1, <1>3
  <2>7. G # <<>>
    BY <2>5, <1>3
  <2>8. /\ G \in Seq(Frames) /\ Len(G) > 0 /\ Len(G) > 1 /\ G # <<>>
        /\ \A i \in 1 .. Len(G) : G[i].type = type
        /\ G[1].part # <<>> /\ G[1].part[1] = payload[1] /\ G[1].sar = "first" /\ G[Len(G)].sar = "last"
        /\ \A i \in 2 .. Len(G) - 1 : G[i].sar = "continuation"
    BY <2>3, <2>4, <2>5, <2>6, <2>7, <1>1, <1>3
  <2>9. F = G
    BY <2>1 DEF G
  <2> HIDE DEF F
  <2>10. QED
    BY <2>8, <2>9, Zenon DEF F
<1>4. QED
  BY <1>1, <1>2, <1>3

LEMMA PayloadBegins ==
  ASSUME TypeOK, NEW n \in 1 .. Len(sent)
  PROVE  /\ Payload(n) \in Seq(Octets) /\ Payload(n) # <<>> /\ Payload(n)[1] = <<n, 1>> /\ Type(n) \in Types
<1> DEFINE s == sent[n].size
<1>1. s \in Nat /\ s > 0
  <2>1. sent[n] \in Kinds
    BY DEF TypeOK
  <2>2. QED
    BY <2>1 DEF Kinds
<1> HIDE DEF s
<1>2. Payload(n) = [i \in 1 .. s |-> <<n, i>>]
  BY DEF Payload, s
<1>3. /\ [i \in 1 .. s |-> <<n, i>>] \in Seq(Octets) /\ Len([i \in 1 .. s |-> <<n, i>>]) = s
      /\ [i \in 1 .. s |-> <<n, i>>][1] = <<n, 1>>
  BY <1>1 DEF Octets
<1>4. [i \in 1 .. s |-> <<n, i>>] # <<>>
  <2> DEFINE p == [i \in 1 .. s |-> <<n, i>>]
  <2>1. Len(p) > 0
    BY <1>1, <1>3
  <2> HIDE DEF p
  <2>2. p # <<>>
    BY <2>1
  <2>3. QED
    BY <2>2 DEF p
<1>5. Type(n) \in Types
  BY DEF Type, Types
<1>6. QED
  BY <1>2, <1>3, <1>4, <1>5, Zenon

\* What queueing more PDUs leaves as it is.
Grows ==
  /\ sent' \in Seq(Kinds) /\ Len(sent') >= Len(sent) /\ \A n \in 1 .. Len(sent) : sent'[n] = sent[n]
  /\ queue' \in Seq(Nat) /\ Taken' = Taken /\ Len(queue') >= Len(queue)
  /\ unfinished' \in Nat /\ unfinished' = unfinished + (Len(queue') - Len(queue))
  /\ Len(queue') <= Len(sent') /\ \A i \in 1 .. Len(queue') : queue'[i] = Taken + i
  /\ \A n \in 1 .. Len(sent') : sent'[n].kind = "clear" => n < Len(sent') /\ sent'[n + 1].kind = "add"

LEMMA QueuedGrows ==
  ASSUME TypeOK, QueueInOrder, NEW kinds \in Seq(Kinds), Queued(kinds),
         \A n \in 1 .. Len(kinds) : kinds[n].kind = "clear" => n < Len(kinds) /\ kinds[n + 1].kind = "add"
  PROVE  /\ Grows /\ Len(sent') = Len(sent) + Len(kinds)
         /\ \A n \in 1 .. Len(kinds) : sent'[Len(sent) + n] = kinds[n]
<1> DEFINE S == Len(sent)  Q == Len(queue)  K == Len(kinds)  new == [i \in 1 .. K |-> S + i]
<1>1. /\ S \in Nat /\ Q \in Nat /\ K \in Nat /\ Q <= S /\ sent \in Seq(Kinds) /\ queue \in Seq(Nat)
      /\ \A i \in 1 .. Q : queue[i] = S - Q + i
      /\ \A n \in 1 .. S : sent[n].kind = "clear" => n < S /\ sent[n + 1].kind = "add"
  <2>1. S \in Nat /\ Q \in Nat /\ K \in Nat /\ sent \in Seq(Kinds) /\ queue \in Seq(Nat)
    BY DEF TypeOK
  <2>2. QED
    BY <2>1 DEF QueueInOrder, Taken
<1>2. sent' = sent \o kinds /\ queue' = queue \o new /\ unfinished' = unfinished + K
  BY DEF Queued
<1>3. new \in Seq(Nat) /\ Len(new) = K /\ \A i \in 1 .. K : new[i] = S + i
  BY <1>1
<1> HIDE DEF new
<1>4. /\ sent' \in Seq(Kinds) /\ Len(sent') = S + K
      /\ \A i \in 1 .. S + K : sent'[i] = IF i <= S THEN sent[i] ELSE kinds[i - S]
  <2>1. /\ sent \o kinds \in Seq(Kinds) /\ Len(sent \o kinds) = Len(sent) + Len(kinds)
        /\ \A i \in 1 .. Len(sent) + Len(kinds) :
             (sent \o kinds)[i] = IF i <= Len(sent) THEN sent[i] ELSE kinds[i - Len(sent)]
    BY <1>1, ConcatProperties, Zenon
  <2>2. QED
    BY <2>1, <1>2, Zenon
<1>5. /\ queue' \in Seq(Nat) /\ Len(queue') = Q + K
      /\ \A i \in 1 .. Q + K : queue'[i] = IF i <= Q THEN queue[i] ELSE new[i - Q]
  <2>1. /\ queue \o new \in Seq(Nat) /\ Len(queue \o new) = Len(queue) + Len(new)
        /\ \A i \in 1 .. Len(queue) + Len(new) :
             (queue \o new)[i] = IF i <= Len(queue) THEN queue[i] ELSE new[i - Len(queue)]
    <3>1. queue \in Seq(Nat) /\ new \in Seq(Nat)
      BY <1>1, <1>3
    <3>2. QED
      BY <3>1, ConcatProperties, Zenon
  <2>2. QED
    BY <2>1, <1>2, <1>3, Zenon
<1>6. \A i \in 1 .. Q + K : queue'[i] = S - Q + i
  <2>1. SUFFICES ASSUME NEW i \in 1 .. Q + K PROVE queue'[i] = S - Q + i
    OBVIOUS
  <2>2. CASE i <= Q
    <3>1. i \in 1 .. Q /\ queue'[i] = queue[i]
      BY <2>2, <1>1, <1>5
    <3>2. QED
      BY <3>1, <1>1
  <2>3. CASE i > Q
    <3>1. i - Q \in 1 .. K /\ queue'[i] = new[i - Q]
      BY <2>3, <1>1, <1>5
    <3>2. new[i - Q] = S + (i - Q)
      BY <3>1, <1>3
    <3>3. QED
      BY <3>1, <3>2, <1>1
  <2>4. QED
    BY <2>2, <2>3, <1>1
<1>7. \A n \in 1 .. K : sent'[S + n] = kinds[n]
  <2>1. SUFFICES ASSUME NEW n \in 1 .. K PROVE sent'[S + n] = kinds[n]
    OBVIOUS
  <2>2. S + n \in 1 .. S + K /\ ~ (S + n <= S) /\ (S + n) - S = n
    BY <1>1
  <2>3. sent'[S + n] = kinds[(S + n) - S]
    BY <1>4, <2>2, Zenon
  <2>4. QED
    BY <2>2, <2>3, Zenon
<1>8. \A n \in 1 .. S : sent'[n] = sent[n]
  <2>1. SUFFICES ASSUME NEW n \in 1 .. S PROVE sent'[n] = sent[n]
    OBVIOUS
  <2>2. n \in 1 .. S + K /\ n <= S
    BY <1>1
  <2>3. QED
    BY <1>4, <2>2, Zenon
<1>9. \A n \in 1 .. S + K : sent'[n].kind = "clear" => n < S + K /\ sent'[n + 1].kind = "add"
  <2>1. SUFFICES ASSUME NEW n \in 1 .. S + K, sent'[n].kind = "clear"
                 PROVE  n < S + K /\ sent'[n + 1].kind = "add"
    OBVIOUS
  <2>2. CASE n <= S
    <3>1. n \in 1 .. S /\ sent[n].kind = "clear"
      BY <2>1, <2>2, <1>1, <1>8
    <3>2. n < S /\ n + 1 \in 1 .. S /\ sent[n + 1].kind = "add"
      BY <3>1, <1>1
    <3>3. QED
      BY <3>2, <1>1, <1>8
  <2>3. CASE n > S
    <3>1. n - S \in 1 .. K /\ sent'[n] = kinds[n - S]
      BY <2>3, <1>1, <1>4
    <3>2. n - S < K /\ kinds[n - S + 1].kind = "add" /\ n - S + 1 \in 1 .. K
      BY <3>1, <2>1, <1>1
    <3>3. sent'[S + (n - S + 1)] = kinds[n - S + 1] /\ S + (n - S + 1) = n + 1
      BY <3>2, <1>1, <1>7
    <3>4. QED
      BY <3>2, <3>3, <1>1
  <2>4. QED
    BY <2>2, <2>3, <1>1
<1>10. /\ Taken' = Taken /\ Taken = S - Q /\ Len(sent') >= S /\ Len(queue') >= Q
       /\ Len(queue') <= Len(sent') /\ unfinished' \in Nat
       /\ unfinished' = unfinished + (Len(queue') - Q)
  BY <1>1, <1>2, <1>4, <1>5 DEF Taken, TypeOK
<1>11. QED
  BY <1>4, <1>5, <1>6, <1>7, <1>8, <1>9, <1>10 DEF Grows

\* Octets put behind those that begin a message.
LEMMA BeginsOn ==
  ASSUME NEW b \in Seq(Octets), NEW p \in Seq(Octets)
  PROVE  /\ b \o p \in Seq(Octets)
         /\ Begins(b) => Begins(b \o p)
         /\ b = <<>> => b \o p = p
         /\ Begins(p) => Head(p)[1] = held
<1>1. /\ b \o p \in Seq(Octets) /\ Len(b \o p) = Len(b) + Len(p)
      /\ \A i \in 1 .. Len(b) + Len(p) : (b \o p)[i] = IF i <= Len(b) THEN b[i] ELSE p[i - Len(b)]
  BY ConcatProperties, Zenon
<1>2. ASSUME Begins(b) PROVE Begins(b \o p)
  <2>1. Len(b) \in Nat /\ Len(b) > 0 /\ Len(p) \in Nat
    BY <1>2 DEF Begins
  <2>2. 1 \in 1 .. Len(b) + Len(p) /\ 1 <= Len(b) /\ Len(b) + Len(p) > 0
    BY <2>1
  <2>3. (b \o p)[1] = b[1]
    BY <2>2, <1>1
  <2>4. b \o p # <<>>
    <3> DEFINE c == b \o p
    <3>1. c \in Seq(Octets) /\ Len(c) > 0
      BY <2>2, <1>1
    <3> HIDE DEF c
    <3>2. c # <<>>
      BY <3>1
    <3>3. QED
      BY <3>2 DEF c
  <2>5. QED
    BY <2>3, <2>4, <1>2 DEF Begins
<1>3. b = <<>> => b \o p = p
  OBVIOUS
<1>4. Begins(p) => Head(p)[1] = held
  BY DEF Begins
<1>5. QED
  BY <1>1, <1>2, <1>3, <1>4, Zenon

\* feed: the last frame completes the message, any other takes it on.
Left(l, frames) ==
  /\ frames # <<>> /\ \A i \in 1 .. Len(frames) : frames[i].type = Type(held)
  /\ frames[Len(frames)].sar = "last" /\ \A i \in 1 .. Len(frames) - 1 : frames[i].sar = "continuation"

LEMMA FeedFollows ==
  ASSUME TypeOK, NEW l \in Links, out[l] # <<>>, UnderWay(l), Type(held) \in Types
  PROVE  LET fed == Feed(peer[l], Head(out[l])) IN
         /\ fed.state \in [type : Types \cup {None}, buf : Seq(Octets)]
         /\ Len(out[l]) = 1 =>
              /\ fed.state = Reset /\ fed.message # NoMessage /\ fed.message.type = Type(held)
              /\ Head(fed.message.payload)[1] = held
         /\ Len(out[l]) > 1 =>
              /\ fed.message = NoMessage /\ fed.message.type = None
              /\ Begins(fed.state.buf) /\ fed.state.type = Type(held)
              /\ Left(l, Tail(out[l]))
<1> DEFINE r == peer[l]  f == out[l][1]  n == Len(out[l])  PeerOf == [type : Types \cup {None}, buf : Seq(Octets)]
<1>1. /\ r.buf \in Seq(Octets) /\ f \in Frames /\ f.part \in Seq(Octets) /\ f.sar \in {"complete", "first", "continuation", "last"}
      /\ f.type = Type(held) /\ Head(out[l]) = f /\ n \in Nat /\ n > 0 /\ f.type # None
  <2>1. out[l] \in Seq(Frames) /\ peer[l] \in PeerOf
    BY DEF TypeOK
  <2>2. f \in Frames /\ Head(out[l]) = f /\ n \in Nat /\ n > 0 /\ 1 \in 1 .. n
    BY <2>1
  <2>3. f.type = Type(held)
    BY <2>2 DEF UnderWay
  <2>4. QED
    BY <2>1, <2>2, <2>3, ProxyPduAssumption DEF Frames, Types
<1>2. ASSUME NEW g \in Seq(Octets) PROVE [type |-> f.type, buf |-> g] \in PeerOf
  BY <1>1
<1>3. Reset \in PeerOf /\ Reset.type = None /\ Reset.buf = <<>>
  BY DEF Reset
<1>4. ASSUME NEW g PROVE /\ [type |-> f.type, payload |-> g] # NoMessage
                         /\ [type |-> f.type, payload |-> g].type = f.type
                         /\ [type |-> f.type, payload |-> g].payload = g
  <2>1. [type |-> f.type, payload |-> g].type = f.type /\ NoMessage.type = None
    BY DEF NoMessage
  <2>2. QED
    BY <2>1, <1>1
<1>5. n > 1 => Tail(out[l]) \in Seq(Frames) /\ Len(Tail(out[l])) = n - 1
               /\ \A i \in 1 .. n - 1 : Tail(out[l])[i] = out[l][i + 1]
  BY DEF TypeOK
<1>6. n > 1 /\ out[l][n].sar = "last" /\ (\A i \in 2 .. n - 1 : out[l][i].sar = "continuation") => Left(l, Tail(out[l]))
  <2>1. SUFFICES ASSUME n > 1, out[l][n].sar = "last", \A i \in 2 .. n - 1 : out[l][i].sar = "continuation"
                 PROVE  Left(l, Tail(out[l]))
    OBVIOUS
  <2> DEFINE t == Tail(out[l])
  <2>2. t \in Seq(Frames) /\ Len(t) = n - 1 /\ \A i \in 1 .. n - 1 : t[i] = out[l][i + 1]
    BY <2>1, <1>5
  <2> HIDE DEF t
  <2>3. t # <<>> /\ n \in Nat
    BY <2>1, <2>2, <1>1
  <2>4. \A i \in 1 .. n - 1 : t[i].type = Type(held)
    BY <2>2, <2>3 DEF UnderWay
  <2>5. t[n - 1] = out[l][n]
    BY <2>1, <2>2, <2>3
  <2>6. \A i \in 1 .. (n - 1) - 1 : t[i].sar = "continuation"
    BY <2>1, <2>2, <2>3
  <2>7. QED
    BY <2>1, <2>2, <2>3, <2>4, <2>5, <2>6 DEF Left, t
<1>7. CASE n = 1 /\ f.sar = "complete" /\ Begins(f.part) /\ r = Reset
  <2>1. Feed(r, f) = Fed(Reset, [type |-> f.type, payload |-> f.part], TRUE)
    BY <1>3, <1>7 DEF Feed, InProgress
  <2>2. /\ Feed(r, f).state = Reset
        /\ Feed(r, f).message = [type |-> f.type, payload |-> f.part]
    BY <2>1 DEF Fed
  <2>3. Head(f.part)[1] = held
    BY <1>1, <1>7, BeginsOn
  <2>4. QED
    BY <2>2, <2>3, <1>1, <1>3, <1>4, <1>7
<1>8. CASE /\ n > 1 /\ f.sar = "first" /\ Begins(f.part) /\ r = Reset
           /\ out[l][n].sar = "last" /\ \A i \in 2 .. n - 1 : out[l][i].sar = "continuation"
  <2>1. r.buf \o f.part = f.part
    BY <1>1, <1>3, <1>8, BeginsOn
  <2>2. Feed(r, f) = Fed([type |-> f.type, buf |-> f.part], NoMessage, TRUE)
    BY <2>1, <1>3, <1>8 DEF Feed, InProgress
  <2>3. /\ Feed(r, f).state = [type |-> f.type, buf |-> f.part]
        /\ Feed(r, f).message = NoMessage /\ NoMessage.type = None
    BY <2>2 DEF Fed, NoMessage
  <2>4. QED
    BY <2>3, <1>1, <1>2, <1>6, <1>8
<1>9. CASE /\ n > 1 /\ f.sar = "continuation" /\ Begins(r.buf) /\ r.type = Type(held)
           /\ out[l][n].sar = "last" /\ \A i \in 2 .. n - 1 : out[l][i].sar = "continuation"
  <2> DEFINE g == r.buf \o f.part
  <2>1. g \in Seq(Octets) /\ Begins(g)
    BY <1>1, <1>9, BeginsOn
  <2>2. Feed(r, f) = Fed([type |-> f.type, buf |-> g], NoMessage, TRUE)
    BY <1>1, <1>9 DEF Feed
  <2> HIDE DEF g
  <2>3. /\ Feed(r, f).state = [type |-> f.type, buf |-> g]
        /\ Feed(r, f).message = NoMessage /\ NoMessage.type = None
    BY <2>2 DEF Fed, NoMessage
  <2>4. QED
    BY <2>1, <2>3, <1>1, <1>2, <1>6, <1>9
<1>10. CASE n = 1 /\ f.sar = "last" /\ Begins(r.buf) /\ r.type = Type(held)
  <2> DEFINE g == r.buf \o f.part
  <2>1. g \in Seq(Octets) /\ Begins(g)
    BY <1>1, <1>10, BeginsOn
  <2>2. Feed(r, f) = Fed(Reset, [type |-> f.type, payload |-> g], TRUE)
    BY <1>1, <1>10 DEF Feed
  <2> HIDE DEF g
  <2>3. /\ Feed(r, f).state = Reset
        /\ Feed(r, f).message = [type |-> f.type, payload |-> g]
    BY <2>2 DEF Fed
  <2>4. Head(g)[1] = held
    BY <2>1, BeginsOn
  <2>5. QED
    BY <2>3, <2>4, <1>1, <1>3, <1>4, <1>10
<1>11. \/ n = 1 /\ f.sar = "complete" /\ Begins(f.part) /\ r = Reset
       \/ /\ out[l][n].sar = "last" /\ \A i \in 2 .. n - 1 : out[l][i].sar = "continuation"
          /\ \/ n > 1 /\ f.sar = "first" /\ Begins(f.part) /\ r = Reset
             \/ n > 1 /\ f.sar = "continuation" /\ Begins(r.buf) /\ r.type = Type(held)
             \/ n = 1 /\ f.sar = "last" /\ Begins(r.buf) /\ r.type = Type(held)
  <2>1. \A k \in Nat : k > 0 => k > 1 \/ k = 1
    OBVIOUS
  <2>2. n > 1 \/ n = 1
    BY <2>1, <1>1, Zenon
  <2>3. QED
    BY <2>2 DEF UnderWay
<1>12. QED
  BY <1>7, <1>8, <1>9, <1>10, <1>11

----------------------------------------------------------------------------
(***************************************************************************)
(* The steps: queueing and links.                                          *)
(***************************************************************************)

LEMMA InitHolds == Init => IInv
<1> SUFFICES ASSUME Init PROVE IInv
  OBVIOUS
<1> USE DEF Init
<1>1. TypeOK
  <2>1. Reset \in [type : Types \cup {None}, buf : Seq(Octets)] /\ <<>> \in Seq(Frames) /\ <<>> \in Seq(Nat)
    BY DEF Reset
  <2>2. <<>> \in Seq(Kinds)
    OBVIOUS
  <2>3. QED
    BY <2>1, <2>2, ChannelAssumption DEF TypeOK
<1>2. Books /\ QueueInOrder
  BY DEF Books, QueueInOrder, Taken
<1>3. LinksInUse /\ Writes
  BY DEF LinksInUse, Writes
<1>4. ProxiesFollow /\ NoneLeftOut /\ FlushedIsOut /\ ClaimsCome
  BY DEF ProxiesFollow, NoneLeftOut, FlushedIsOut, ClaimsCome
<1>5. QED
  BY <1>1, <1>2, <1>3, <1>4 DEF IInv

\* More in the queue, and links that join, change nothing for the PDU in hand.
LEMMA GrowsKeeps ==
  ASSUME IInv, Grows, pump # "unstarted", NEW new \in SUBSET Links, bearers' = bearers \cup new,
         \A l \in new : sub[l] = "none" /\ l \notin First,
         new # {} => \E n \in Taken + 1 .. Len(sent') : sent'[n].kind = "add",
         UNCHANGED <<held, pump, out, result, proxies>>
  PROVE  QueueInOrder' /\ Writes' /\ ProxiesFollow' /\ NoneLeftOut' /\ ClaimsCome'
<1>1. /\ Len(sent) \in Nat /\ Len(queue) \in Nat /\ Len(sent') \in Nat /\ Len(sent') >= Len(sent)
      /\ Taken' = Taken /\ Taken \in Nat /\ Taken <= Len(sent) /\ held \in Nat
      /\ held # 0 => held = Taken /\ held \in 1 .. Len(sent) /\ pump = "running"
  <2>1. Len(sent) \in Nat /\ Len(queue) \in Nat /\ held \in Nat
    BY DEF IInv, TypeOK
  <2>2. sent' \in Seq(Kinds) /\ Len(sent') >= Len(sent) /\ Taken' = Taken
    BY DEF Grows
  <2>3. Len(sent') \in Nat
    BY <2>2
  <2>4. Len(queue) <= Len(sent) /\ (held # 0 => held = Taken /\ pump = "running")
    BY DEF IInv, QueueInOrder
  <2>5. Taken \in Nat /\ Taken <= Len(sent)
    BY <2>1, <2>4 DEF Taken
  <2>6. held # 0 => held \in 1 .. Len(sent)
    BY <2>1, <2>4, <2>5
  <2>7. QED
    BY <2>1, <2>2, <2>3, <2>4, <2>5, <2>6
<1>2. \A n \in 1 .. Len(sent) : sent'[n] = sent[n]
  BY DEF Grows
<1>3. \A l \in new : l \notin bearers /\ result[l] = "none" /\ peer[l] = Reset /\ got[l] = <<>>
  BY DEF IInv, LinksInUse, Writes
<1>4. QueueInOrder'
  BY <1>1 DEF Grows, QueueInOrder
<1>5. Writes'
  BY DEF IInv, Writes
<1>6. held # 0 => Type(held)' = Type(held) /\ sent'[held] = sent[held]
  BY <1>1, <1>2 DEF Type
<1>7. \A l \in bearers : result[l] = "pending" => (UnderWay(l)' <=> UnderWay(l))
  <2>1. SUFFICES ASSUME NEW l \in bearers, result[l] = "pending" PROVE UnderWay(l)' <=> UnderWay(l)
    OBVIOUS
  <2>2. held # 0
    BY <2>1 DEF IInv, Writes, TypeOK
  <2>3. Type(held)' = Type(held) /\ out' = out /\ peer' = peer /\ held' = held
    BY <2>2, <1>6 DEF proxies
  <2>4. QED
    BY <2>3 DEF UnderWay, Begins
<1>8. ProxiesFollow'
  BY <1>3, <1>7 DEF IInv, ProxiesFollow, proxies
<1>9. NoneLeftOut'
  BY <1>1, <1>3 DEF IInv, NoneLeftOut, Reached, proxies
<1>10. ClaimsCome'
  <2>1. SUFFICES ASSUME pump = "running", NEW l \in bearers' \ First, result[l] # "error"
                 PROVE  \/ filter[l] = "ours"
                        \/ \E n \in Taken + 1 .. Len(sent') : sent'[n].kind = "add"
                        \/ result[l] = "pending" /\ sent'[held].kind = "add"
    BY <1>1 DEF ClaimsCome, proxies
  <2>2. CASE l \in new
    BY <2>2
  <2>3. CASE l \in bearers
    <3>1. CASE \E n \in Taken + 1 .. Len(sent) : sent[n].kind = "add"
      <4>1. PICK n \in Taken + 1 .. Len(sent) : sent[n].kind = "add"
        BY <3>1
      <4>2. n \in Taken + 1 .. Len(sent') /\ n \in 1 .. Len(sent)
        BY <1>1
      <4>3. QED
        BY <4>1, <4>2, <1>2
    <3>2. CASE result[l] = "pending" /\ sent[held].kind = "add"
      <4>1. held # 0
        BY <3>2 DEF IInv, Writes, TypeOK
      <4>2. QED
        BY <4>1, <3>2, <1>6
    <3>3. QED
      BY <2>1, <2>3, <3>1, <3>2 DEF IInv, ClaimsCome
  <2>4. QED
    BY <2>2, <2>3
<1>11. QED
  BY <1>4, <1>5, <1>8, <1>9, <1>10

LEMMA BooksGrow ==
  ASSUME IInv, Grows, UNCHANGED <<held, pump, out, result>>,
         \A l \in Links : sub'[l] = sub[l] \/ sub'[l] # "none",
         \/ UNCHANGED <<flush, mark>>
         \/ flush' = "waiting" /\ mark' \in 1 .. Len(sent') /\ unfinished' > 0
  PROVE  Books'
<1>1. /\ Len(sent) \in Nat /\ Len(queue) \in Nat /\ Len(sent') \in Nat /\ Len(queue') \in Nat
      /\ unfinished \in Nat /\ unfinished' \in Nat /\ Len(sent') >= Len(sent) /\ Len(queue') >= Len(queue)
      /\ unfinished' = unfinished + (Len(queue') - Len(queue))
  BY DEF IInv, TypeOK, Grows
<1>2. pump \in {"unstarted", "running"} => unfinished' = Len(queue') + (IF held = 0 THEN 0 ELSE 1)
  BY <1>1 DEF IInv, Books
<1>3. pump \in {"dead", "stopped"} => held = 0 /\ unfinished' >= Len(queue')
  BY <1>1 DEF IInv, Books
<1>4. \A l \in Links : out[l] # <<>> => held # 0 /\ result[l] = "pending" /\ sub'[l] # "none"
  BY DEF IInv, Books
<1>5. /\ flush' = "waiting" => unfinished' > 0
      /\ flush' # "none" => mark' \in 1 .. Len(sent')
  BY <1>1 DEF IInv, Books
<1>6. QED
  BY <1>2, <1>3, <1>4, <1>5 DEF Books

\* What the commands and the acknowledgments queue.
LEMMA NetGrows ==
  ASSUME IInv, NEW size \in Sizes, Queued(<<[kind |-> "net", size |-> size]>>)
  PROVE  Grows /\ Len(sent') = Len(sent) + 1
<1> DEFINE k == [kind |-> "net", size |-> size]
<1>1. k \in Kinds /\ k.kind = "net"
  BY ChannelAssumption DEF Kinds
<1> HIDE DEF k
<1>2. <<k>> \in Seq(Kinds) /\ Len(<<k>>) = 1 /\ \A n \in 1 .. Len(<<k>>) : <<k>>[n].kind # "clear"
  BY <1>1
<1>3. QED
  BY <1>2, QueuedGrows DEF k, IInv

LEMMA ClaimGrows ==
  ASSUME TypeOK, QueueInOrder, Queued(FilterClaim)
  PROVE  /\ Grows /\ \E n \in Taken + 1 .. Len(sent') : sent'[n].kind = "add"
         /\ Len(sent') = Len(sent) + 2 /\ sent'[Len(sent) + 1].kind = "clear"
<1> DEFINE a == [kind |-> "clear", size |-> 1]  b == [kind |-> "add", size |-> 2]
<1>1. a \in Kinds /\ b \in Kinds /\ a.kind = "clear" /\ b.kind = "add" /\ FilterClaim = <<a, b>>
  BY DEF Kinds, FilterClaim
<1> HIDE DEF a, b
<1>2. /\ FilterClaim \in Seq(Kinds) /\ Len(FilterClaim) = 2 /\ FilterClaim[1] = a /\ FilterClaim[2] = b
  BY <1>1
<1>3. \A n \in 1 .. Len(FilterClaim) :
        FilterClaim[n].kind = "clear" => n < Len(FilterClaim) /\ FilterClaim[n + 1].kind = "add"
  BY <1>1, <1>2
<1>4. Grows /\ Len(sent') = Len(sent) + 2 /\ sent'[Len(sent) + 1] = a /\ sent'[Len(sent) + 2] = b
  <2>1. /\ Grows /\ Len(sent') = Len(sent) + Len(FilterClaim)
        /\ \A n \in 1 .. Len(FilterClaim) : sent'[Len(sent) + n] = FilterClaim[n]
    BY <1>2, <1>3, QueuedGrows, Zenon
  <2>2. QED
    BY <2>1, <1>2
<1>5. Len(sent) + 2 \in Taken + 1 .. Len(sent')
  <2>1. Len(sent) \in Nat /\ Len(queue) \in Nat
    BY DEF TypeOK
  <2>2. Taken \in Int /\ Taken <= Len(sent)
    BY <2>1 DEF Taken
  <2>3. QED
    BY <2>1, <2>2, <1>4
<1>6. QED
  BY <1>1, <1>4, <1>5

LEMMA PutKeeps ==
  ASSUME IInv, NEW size \in Sizes, Put(size) \/ Flush(size)
  PROVE  IInv'
<1>1. /\ pump # "unstarted" /\ Queued(<<[kind |-> "net", size |-> size]>>)
      /\ UNCHANGED <<held, pump, bearers, sub, dead, freed, out, result, peer, got, filter>>
      /\ \/ UNCHANGED <<flush, mark>>
         \/ flush' = "waiting" /\ mark' = Len(sent) + 1
  BY DEF Put, Flush, fanout, proxies
<1>2. Grows /\ Len(sent') = Len(sent) + 1
  BY <1>1, NetGrows
<1>3. Len(sent) \in Nat /\ unfinished' \in Nat /\ unfinished' > 0
  <2>1. Len(sent) \in Nat /\ Len(queue) \in Nat /\ unfinished \in Nat
    BY DEF IInv, TypeOK
  <2>2. unfinished' = unfinished + 1
    BY <1>1 DEF Queued
  <2>3. QED
    BY <2>1, <2>2
<1>4. TypeOK'
  BY <1>1, <1>2, <1>3 DEF IInv, TypeOK, Grows
<1>5. Books'
  BY <1>1, <1>2, <1>3, BooksGrow
<1>6. QueueInOrder' /\ Writes' /\ ProxiesFollow' /\ NoneLeftOut' /\ ClaimsCome'
  <2>1. bearers' = bearers \cup {}
    BY <1>1
  <2>2. /\ {} \in SUBSET Links /\ \A l \in {} : sub[l] = "none" /\ l \notin First
        /\ {} # {} => \E n \in Taken + 1 .. Len(sent') : sent'[n].kind = "add"
        /\ UNCHANGED <<held, pump, out, result, proxies>>
    BY <1>1 DEF proxies
  <2>3. QED
    BY <1>1, <1>2, <2>1, <2>2, GrowsKeeps, Zenon
<1>7. LinksInUse' /\ FlushedIsOut'
  BY <1>1 DEF IInv, LinksInUse, FlushedIsOut
<1>8. QED
  BY <1>4, <1>5, <1>6, <1>7 DEF IInv

LEMMA JoinKeeps ==
  ASSUME IInv, NEW l \in Links, NEW outcome \in Outcomes, Join(l, outcome)
  PROVE  IInv'
<1>1. /\ pump \in {"running", "dead"} /\ sub[l] = "none" /\ l \notin First
      /\ sub' = [sub EXCEPT ![l] = outcome] /\ outcome \in {"ok", "late", "refused"}
      /\ UNCHANGED <<held, pump, freed, dead, out, result, flush, mark, peer, got, filter>>
  BY DEF Join, proxies, Outcomes
<1>2. /\ sub' \in [Links -> {"none", "late", "ok", "refused", "failed"}]
      /\ \A k \in Links : sub'[k] = IF k = l THEN outcome ELSE sub[k]
  BY <1>1 DEF IInv, TypeOK
<1>3. CASE outcome = "refused" /\ UNCHANGED <<sent, queue, unfinished, bearers>>
  <2>1. TypeOK'
    BY <1>1, <1>2, <1>3 DEF IInv, TypeOK
  <2>2. Books' /\ LinksInUse'
    BY <1>1, <1>2, <1>3 DEF IInv, Books, LinksInUse
  <2>3. Taken' = Taken
    BY <1>3 DEF Taken
  <2>4. QueueInOrder' /\ Writes' /\ FlushedIsOut' /\ ClaimsCome'
    BY <1>1, <1>3, <2>3 DEF IInv, QueueInOrder, Writes, FlushedIsOut, ClaimsCome
  <2>5. ProxiesFollow'
    BY <1>1, <1>3 DEF IInv, ProxiesFollow, UnderWay, Begins, Type
  <2>6. NoneLeftOut'
    BY <1>1, <1>3, <2>3 DEF IInv, NoneLeftOut, Reached
  <2>7. QED
    BY <2>1, <2>2, <2>4, <2>5, <2>6 DEF IInv
<1>4. CASE outcome # "refused" /\ bearers' = bearers \cup {l} /\ Queued(FilterClaim)
  <2>1. Grows /\ \E n \in Taken + 1 .. Len(sent') : sent'[n].kind = "add"
    BY <1>4, ClaimGrows DEF IInv
  <2>2. TypeOK'
    BY <1>1, <1>2, <1>4, <2>1 DEF IInv, TypeOK, Grows
  <2>3. Books'
    BY <1>1, <1>2, <2>1, BooksGrow
  <2>4. QueueInOrder' /\ Writes' /\ ProxiesFollow' /\ NoneLeftOut' /\ ClaimsCome'
    <3>1. /\ {l} \in SUBSET Links /\ \A k \in {l} : sub[k] = "none" /\ k \notin First
          /\ pump # "unstarted" /\ UNCHANGED <<held, pump, out, result, proxies>>
      BY <1>1 DEF proxies
    <3>2. QED
      BY <1>4, <2>1, <3>1, GrowsKeeps, Zenon
  <2>5. LinksInUse' /\ FlushedIsOut'
    BY <1>1, <1>2, <1>4 DEF IInv, LinksInUse, FlushedIsOut
  <2>6. QED
    BY <2>2, <2>3, <2>4, <2>5 DEF IInv
<1>5. QED
  BY <1>3, <1>4 DEF Join

LEMMA StartKeeps ==
  ASSUME IInv, NEW l \in Links, NEW outcome \in Outcomes, Start(l, outcome)
  PROVE  IInv'
<1> DEFINE refused == {k \in bearers : (IF k = l THEN outcome ELSE sub[k]) = "refused"}
<1>1. /\ pump = "unstarted" /\ sub[l] = "none" /\ l \in bearers
      /\ sub' = [sub EXCEPT ![l] = outcome] /\ outcome \in {"ok", "late", "refused"}
      /\ UNCHANGED <<held, out, result, dead, flush, mark, peer, got, filter>>
  BY DEF Start, proxies, Outcomes
<1>2. /\ sub' \in [Links -> {"none", "late", "ok", "refused", "failed"}]
      /\ \A k \in Links : sub'[k] = IF k = l THEN outcome ELSE sub[k]
  BY <1>1 DEF IInv, TypeOK
<1>3. /\ held = 0 /\ bearers = First /\ freed = {} /\ sent = <<>> /\ Len(sent) = 0 /\ Len(queue) = 0 /\ Taken = 0
      /\ unfinished = Len(queue)
      /\ \A k \in Links : result[k] = "none" /\ out[k] = <<>> /\ peer[k] = Reset /\ got[k] = <<>>
  <2>1. /\ held = 0 /\ bearers = First /\ freed = {} /\ sent = <<>> /\ Len(queue) <= Len(sent)
        /\ unfinished = Len(queue) + (IF held = 0 THEN 0 ELSE 1)
        /\ \A k \in Links : result[k] = "none" /\ out[k] = <<>> /\ peer[k] = Reset /\ got[k] = <<>>
    BY <1>1 DEF IInv, TypeOK, QueueInOrder, LinksInUse, Writes, Books
  <2>2. Len(sent) = 0 /\ Len(queue) = 0 /\ Len(queue) \in Nat
    BY <2>1 DEF IInv, TypeOK
  <2>3. QED
    BY <2>1, <2>2 DEF Taken
<1>4. CASE UNCHANGED <<sent, queue, unfinished, bearers, freed>> /\ pump' \in {"unstarted", "stopped"}
  <2>1. TypeOK'
    BY <1>1, <1>2, <1>4 DEF IInv, TypeOK
  <2>2. Books'
    BY <1>1, <1>2, <1>3, <1>4 DEF IInv, Books
  <2>3. Taken' = Taken
    BY <1>4 DEF Taken
  <2>4. QueueInOrder' /\ Writes' /\ FlushedIsOut'
    BY <1>1, <1>3, <1>4, <2>3 DEF IInv, QueueInOrder, Writes, FlushedIsOut
  <2>5. LinksInUse'
    BY <1>1, <1>2, <1>3, <1>4 DEF IInv, LinksInUse
  <2>6. ProxiesFollow' /\ NoneLeftOut' /\ ClaimsCome'
    BY <1>4 DEF ProxiesFollow, NoneLeftOut, ClaimsCome
  <2>7. QED
    BY <2>1, <2>2, <2>4, <2>5, <2>6 DEF IInv
<1>5. CASE /\ \A k \in bearers \ {l} : sub[k] # "none"
           /\ pump' = "running" /\ Drop(refused) /\ Queued(FilterClaim)
  <2>1. Grows
    BY <1>5, ClaimGrows DEF IInv
  <2>2. /\ bearers' = bearers \ refused /\ freed' = refused
        /\ Len(sent') \in Nat /\ Len(queue') \in Nat /\ Taken' = 0 /\ unfinished' = Len(queue')
        /\ Len(queue') <= Len(sent')
    BY <1>3, <1>5, <2>1 DEF Drop, Grows
  <2>3. TypeOK'
    BY <1>1, <1>2, <1>5, <2>1, <2>2 DEF IInv, TypeOK, Grows
  <2>4. Books'
    <3>1. flush' = "none"
      BY <1>1, <1>3 DEF IInv, Books
    <3>2. QED
      BY <1>1, <1>3, <1>5, <2>2, <3>1 DEF Books
  <2>5. QueueInOrder'
    BY <1>1, <1>3, <1>5, <2>1, <2>2 DEF Grows, QueueInOrder
  <2>6. LinksInUse'
    BY <1>1, <1>2, <1>3, <1>5, <2>2 DEF LinksInUse, IInv, TypeOK
  <2>7. Writes' /\ ProxiesFollow' /\ FlushedIsOut' /\ ClaimsCome'
    BY <1>1, <1>3, <1>5, <2>2 DEF IInv, TypeOK, Writes, ProxiesFollow, FlushedIsOut, ClaimsCome
  <2>8. NoneLeftOut'
    BY <1>1, <1>3, <1>5, <2>2 DEF IInv, TypeOK, NoneLeftOut, Reached
  <2>9. QED
    BY <2>3, <2>4, <2>5, <2>6, <2>7, <2>8 DEF IInv
<1>6. QED
  BY <1>1, <1>4, <1>5 DEF Start

\* A subscribe that is confirmed late or fails, a flush that returns.
LEMMA AsideKeeps ==
  ASSUME IInv,
         \/ \E l \in Links, outcome \in {"ok", "failed"} : LateSubscribe(l, outcome)
         \/ FlushReturns
  PROVE  IInv'
<1>1. /\ UNCHANGED <<sent, queue, held, unfinished, pump, bearers, freed, dead, out, result, mark, peer, got, filter>>
      /\ \/ UNCHANGED sub
         \/ \E l \in Links, outcome \in {"ok", "failed"} : sub[l] = "late" /\ sub' = [sub EXCEPT ![l] = outcome]
      /\ flush' = flush \/ flush' = "none"
  BY DEF LateSubscribe, FlushReturns, sender, fanout, proxies
<1>2. /\ sub' \in [Links -> {"none", "late", "ok", "refused", "failed"}]
      /\ \A l \in Links : sub'[l] = sub[l] \/ (sub[l] = "late" /\ sub'[l] \in {"ok", "failed"})
  <2>1. sub \in [Links -> {"none", "late", "ok", "refused", "failed"}]
    BY DEF IInv, TypeOK
  <2>2. CASE UNCHANGED sub
    BY <2>1, <2>2
  <2>3. ASSUME NEW k \in Links, NEW outcome \in {"ok", "failed"}, sub[k] = "late", sub' = [sub EXCEPT ![k] = outcome]
        PROVE  /\ sub' \in [Links -> {"none", "late", "ok", "refused", "failed"}]
               /\ \A l \in Links : sub'[l] = sub[l] \/ (sub[l] = "late" /\ sub'[l] \in {"ok", "failed"})
    BY <2>1, <2>3
  <2>4. QED
    BY <1>1, <2>2, <2>3
<1>3. TypeOK'
  BY <1>1, <1>2 DEF IInv, TypeOK
<1>4. Books' /\ LinksInUse'
  BY <1>1, <1>2 DEF IInv, Books, LinksInUse
<1>5. Taken' = Taken
  BY <1>1 DEF Taken
<1>6. QueueInOrder' /\ Writes' /\ FlushedIsOut' /\ ClaimsCome'
  BY <1>1, <1>5 DEF IInv, QueueInOrder, Writes, FlushedIsOut, ClaimsCome
<1>7. ProxiesFollow'
  BY <1>1 DEF IInv, ProxiesFollow, UnderWay, Begins, Type
<1>8. NoneLeftOut'
  BY <1>1, <1>5 DEF IInv, NoneLeftOut, Reached
<1>9. QED
  BY <1>3, <1>4, <1>6, <1>7, <1>8 DEF IInv

LEMMA StopKeeps ==
  ASSUME IInv, Stop
  PROVE  IInv'
<1>1. /\ pump \in {"running", "dead"} /\ pump' = "stopped" /\ held' = 0 /\ flush' = "none"
      /\ out' = [l \in Links |-> <<>>] /\ result' = [l \in Links |-> "none"]
      /\ UNCHANGED <<sent, queue, unfinished, bearers, sub, dead, freed, mark, peer, got, filter>>
  BY DEF Stop, fanout, proxies
<1>2. TypeOK'
  <2>1. <<>> \in Seq(Frames)
    OBVIOUS
  <2>2. out' \in [Links -> Seq(Frames)] /\ result' \in [Links -> {"none", "pending", "ok", "error"}]
    BY <1>1, <2>1
  <2>3. QED
    BY <1>1, <2>2 DEF IInv, TypeOK
<1>3. Books'
  <2>1. unfinished >= Len(queue) /\ out' = [l \in Links |-> <<>>]
    BY <1>1 DEF IInv, TypeOK, Books
  <2>2. QED
    BY <1>1, <2>1 DEF Books
<1>4. Taken' = Taken
  BY <1>1 DEF Taken
<1>5. QueueInOrder' /\ LinksInUse' /\ Writes' /\ FlushedIsOut'
  BY <1>1, <1>4 DEF IInv, QueueInOrder, LinksInUse, Writes, FlushedIsOut
<1>6. ProxiesFollow' /\ NoneLeftOut' /\ ClaimsCome'
  BY <1>1 DEF ProxiesFollow, NoneLeftOut, ClaimsCome
<1>7. QED
  BY <1>2, <1>3, <1>5, <1>6 DEF IInv

----------------------------------------------------------------------------
(***************************************************************************)
(* The steps: sending.                                                     *)
(***************************************************************************)

LEMMA TakeKeeps ==
  ASSUME IInv, Take
  PROVE  IInv'
<1> DEFINE m == Taken + 1
<1>1. /\ pump = "running" /\ held = 0 /\ queue # <<>> /\ queue' = Tail(queue)
      /\ bearers' = Live /\ freed' = freed \cup (bearers \ Live) /\ Live \subseteq bearers
      /\ UNCHANGED <<sent, unfinished, sub, dead, flush, mark, peer, got, filter>>
  <2>1. Live \subseteq bearers
    BY DEF Live
  <2>2. bearers \ (bearers \ Live) = Live
    BY <2>1
  <2>3. QED
    BY <2>1, <2>2 DEF Take, Drop, proxies
<1>2. /\ Len(sent) \in Nat /\ Len(queue) \in Nat /\ Len(queue) > 0 /\ Len(queue) <= Len(sent)
      /\ Taken \in Nat /\ Head(queue) = m /\ m \in 1 .. Len(sent) /\ m # 0
      /\ queue' \in Seq(Nat) /\ Len(queue') = Len(queue) - 1 /\ Taken' = m
      /\ \A i \in 1 .. Len(queue') : queue'[i] = m + i
  <2>1. /\ queue \in Seq(Nat) /\ Len(sent) \in Nat /\ Len(queue) \in Nat /\ Len(queue) <= Len(sent)
        /\ \A i \in 1 .. Len(queue) : queue[i] = Len(sent) - Len(queue) + i
    BY DEF IInv, TypeOK, QueueInOrder, Taken
  <2> DEFINE t == Tail(queue)
  <2>2. /\ Len(queue) > 0 /\ Head(queue) = queue[1]
        /\ t \in Seq(Nat) /\ Len(t) = Len(queue) - 1
        /\ \A i \in 1 .. Len(queue) - 1 : t[i] = queue[i + 1]
    BY <1>1, <2>1
  <2> HIDE DEF t
  <2>3. \A i \in 1 .. Len(t) : t[i] = Len(sent) - Len(queue) + 1 + i
    BY <2>1, <2>2
  <2>4. Taken = Len(sent) - Len(queue) /\ Taken' = Len(sent) - Len(t)
    BY <1>1 DEF Taken, t
  <2>5. queue' = t
    BY <1>1 DEF t
  <2>6. QED
    BY <2>1, <2>2, <2>3, <2>4, <2>5
<1>3. /\ \A l \in Links : result[l] = "none" /\ out[l] = <<>>
      /\ \A l \in bearers : peer[l] = Reset /\ sub[l] \in {"ok", "late", "failed"}
      /\ unfinished = Len(queue) /\ bearers \subseteq Links /\ freed \subseteq Links
  <2>1. \A l \in Links : result[l] = "none"
    BY <1>1 DEF IInv, Writes
  <2>2. QED
    BY <1>1, <2>1 DEF IInv, TypeOK, Writes, ProxiesFollow, LinksInUse, Books
<1>4. LinksInUse' /\ FlushedIsOut'
  <2>1. pump' # "unstarted" /\ First \subseteq bearers \cup freed
    BY <1>1 DEF Take, Die, IInv, LinksInUse
  <2>2. FlushedIsOut'
    BY <1>1 DEF IInv, FlushedIsOut
  <2>3. QED
    BY <1>1, <1>3, <2>1, <2>2 DEF IInv, LinksInUse
<1>5. CASE Live = {}
  <2>1. pump' = "dead" /\ held' = 0 /\ out' = out /\ result' = result
    BY <1>5 DEF Take, Die
  <2>2. TypeOK'
    BY <1>1, <1>2, <1>3, <2>1 DEF IInv, TypeOK
  <2>3. Books'
    BY <1>1, <1>2, <1>3, <2>1 DEF IInv, Books
  <2>4. QueueInOrder' /\ Writes'
    BY <1>1, <1>2, <1>3, <2>1 DEF IInv, QueueInOrder, Writes
  <2>5. ProxiesFollow' /\ NoneLeftOut' /\ ClaimsCome'
    BY <2>1 DEF ProxiesFollow, NoneLeftOut, ClaimsCome
  <2>6. QED
    BY <1>4, <2>2, <2>3, <2>4, <2>5 DEF IInv
<1>6. CASE Live # {}
  <2> DEFINE F(l) == Segment(Type(m), Payload(m), Mtu[l])
  <2>1. /\ pump' = "running" /\ held' = m
        /\ out' = [l \in Links |-> IF l \notin Live THEN <<>> ELSE F(l)]
        /\ result' = [l \in Links |-> IF l \in Live THEN "pending" ELSE "none"]
    BY <1>1, <1>2, <1>6 DEF Take
  <2>2. /\ Payload(m) \in Seq(Octets) /\ Payload(m) # <<>> /\ Payload(m)[1] = <<m, 1>> /\ Type(m) \in Types
    BY <1>2, PayloadBegins DEF IInv
  <2>3. ASSUME NEW l \in Links
        PROVE  /\ F(l) \in Seq(Frames) /\ Len(F(l)) > 0 /\ F(l) # <<>>
               /\ \A i \in 1 .. Len(F(l)) : F(l)[i].type = Type(m)
               /\ F(l)[1].part # <<>> /\ F(l)[1].part[1] = <<m, 1>>
               /\ \/ Len(F(l)) = 1 /\ F(l)[1].sar = "complete"
                  \/ /\ Len(F(l)) > 1 /\ F(l)[1].sar = "first" /\ F(l)[Len(F(l))].sar = "last"
                     /\ \A i \in 2 .. Len(F(l)) - 1 : F(l)[i].sar = "continuation"
    <3>1. Mtu[l] \in Nat \ {0, 1}
      BY ChannelAssumption
    <3>2. QED
      BY <2>2, <3>1, SegmentBegins
  <2> HIDE DEF F, m
  <2>4. /\ out' \in [Links -> Seq(Frames)] /\ result' \in [Links -> {"none", "pending", "ok", "error"}]
        /\ \A l \in Links : l \notin Live => out'[l] = <<>> /\ result'[l] = "none"
        /\ \A l \in Links : l \in Live => out'[l] = F(l) /\ result'[l] = "pending"
    <3>1. <<>> \in Seq(Frames) /\ \A l \in Links : F(l) \in Seq(Frames)
      BY <2>3
    <3>2. QED
      BY <2>1, <3>1
  <2>5. TypeOK'
    BY <1>1, <1>2, <1>3, <2>1, <2>4 DEF IInv, TypeOK, m
  <2>6. Books'
    BY <1>1, <1>2, <1>3, <2>1, <2>4 DEF IInv, Books
  <2>7. QueueInOrder'
    BY <1>1, <1>2, <2>1 DEF IInv, QueueInOrder
  <2>8. Writes'
    BY <1>1, <1>2, <1>3, <2>1, <2>3, <2>4 DEF Writes
  <2>9. ProxiesFollow'
    <3>1. SUFFICES ASSUME NEW l \in Live PROVE UnderWay(l)' /\ result'[l] = "pending"
      BY <1>1 DEF ProxiesFollow
    <3>2. l \in Links /\ result'[l] = "pending" /\ out'[l] = F(l) /\ peer'[l] = Reset
      BY <1>1, <1>3, <2>4
    <3>3. Type(held)' = Type(m) /\ held' = m /\ <<m, 1>>[1] = m
      BY <1>1, <2>1 DEF Type
    <3>4. UnderWay(l)'
      BY <2>3, <3>2, <3>3 DEF UnderWay, Begins
    <3>5. QED
      BY <3>2, <3>4
  <2>10. NoneLeftOut'
    <3>1. \A l \in Live : Reached(l)' = Taken /\ Reached(l) = Taken /\ result'[l] = "pending"
      BY <1>1, <1>2, <1>3, <2>1, <2>4 DEF Reached, m
    <3>2. \A l \in Live : /\ got'[l] = <<>> => result'[l] # "ok" /\ (l \in First => Reached(l)' = 0)
                          /\ got'[l] # <<>> => got'[l][Len(got'[l])] = Reached(l)'
      BY <1>1, <1>3, <3>1 DEF IInv, NoneLeftOut
    <3>3. \A n \in 1 .. Taken' : n # held' => n \in 1 .. Taken /\ n # held
      BY <1>1, <1>2, <2>1 DEF m
    <3>4. \A n \in 1 .. Taken' : n # held' => \E l \in Links : n \in Range(got'[l])
      BY <1>1, <3>3 DEF IInv, NoneLeftOut
    <3>5. QED
      BY <1>1, <3>2, <3>4 DEF NoneLeftOut
  <2>11. ClaimsCome'
    <3>1. SUFFICES ASSUME NEW l \in Live \ First
                   PROVE  \/ filter[l] = "ours"
                          \/ \E n \in m + 1 .. Len(sent) : sent[n].kind = "add"
                          \/ result'[l] = "pending" /\ sent[m].kind = "add"
      BY <1>1, <1>2, <2>1 DEF ClaimsCome
    <3>2. result'[l] = "pending" /\ result[l] = "none"
      BY <1>1, <1>3, <2>4
    <3>3. filter[l] = "ours" \/ \E n \in Taken + 1 .. Len(sent) : sent[n].kind = "add"
      BY <1>1, <3>2 DEF IInv, ClaimsCome
    <3>4. \A n \in Taken + 1 .. Len(sent) : n = m \/ n \in m + 1 .. Len(sent)
      BY <1>2 DEF m
    <3>5. QED
      BY <3>2, <3>3, <3>4
  <2>12. QED
    BY <1>4, <2>5, <2>6, <2>7, <2>8, <2>9, <2>10, <2>11 DEF IInv
<1>7. QED
  BY <1>5, <1>6

\* A write under way is one of the PDU in hand, over a link in use.
LEMMA WriteIsUnderWay ==
  ASSUME IInv, NEW l \in Links, out[l] # <<>>
  PROVE  /\ held = Taken /\ held \in 1 .. Len(sent) /\ held # 0 /\ pump = "running" /\ l \in bearers
         /\ result[l] = "pending" /\ sub[l] # "none" /\ Type(held) \in Types /\ UnderWay(l)
         /\ Len(sent) \in Nat /\ out[l] \in Seq(Frames) /\ Len(out[l]) \in Nat /\ Len(out[l]) > 0
<1>1. held # 0 /\ result[l] = "pending" /\ sub[l] # "none" /\ l \in bearers
  BY DEF IInv, Books, Writes
<1>2. held = Taken /\ pump = "running" /\ Len(sent) \in Nat /\ held \in 1 .. Len(sent)
  BY <1>1 DEF IInv, TypeOK, QueueInOrder, Taken
<1>3. Type(held) \in Types
  BY DEF Type, Types
<1>4. UnderWay(l)
  BY <1>1, <1>2 DEF IInv, ProxiesFollow
<1>5. out[l] \in Seq(Frames)
  BY DEF IInv, TypeOK
<1>6. QED
  BY <1>1, <1>2, <1>3, <1>4, <1>5

\* What a write leaves as it is.
LEMMA WriteAside ==
  ASSUME IInv, UNCHANGED <<sent, sender, fanout, flush, mark>>, NEW l \in Links, out[l] # <<>>,
         \A k \in Links : k # l => out'[k] = out[k] /\ result'[k] = result[k]
  PROVE  /\ Taken' = Taken /\ QueueInOrder'
         /\ (out'[l] # <<>> => result'[l] = "pending") => Books'
<1>1. Taken' = Taken
  BY DEF Taken, sender
<1>2. QueueInOrder'
  BY <1>1 DEF IInv, QueueInOrder, sender
<1>3. ASSUME out'[l] # <<>> => result'[l] = "pending" PROVE Books'
  <2>1. \A k \in Links : out'[k] # <<>> => held # 0 /\ result'[k] = "pending" /\ sub[k] # "none"
    BY <1>3 DEF IInv, Books
  <2>2. QED
    BY <2>1 DEF IInv, Books, sender, fanout
<1>4. QED
  BY <1>1, <1>2, <1>3

LEMMA WriteFailsKeeps ==
  ASSUME IInv, NEW l \in Links, WriteFails(l)
  PROVE  IInv'
<1>1. /\ out[l] # <<>> /\ out' = [out EXCEPT ![l] = <<>>] /\ result' = [result EXCEPT ![l] = "error"]
      /\ UNCHANGED <<sent, sender, fanout, flush, mark>>
      /\ UNCHANGED <<sent, queue, held, unfinished, pump, bearers, sub, dead, freed, flush, mark, peer, got, filter>>
  BY DEF WriteFails, sender, fanout, proxies
<1>2. /\ held # 0 /\ pump = "running" /\ l \in bearers /\ Len(sent) \in Nat
  BY <1>1, WriteIsUnderWay
<1>3. /\ out' \in [Links -> Seq(Frames)] /\ result' \in [Links -> {"none", "pending", "ok", "error"}]
      /\ out'[l] = <<>> /\ result'[l] = "error"
      /\ \A k \in Links : k # l => out'[k] = out[k] /\ result'[k] = result[k]
  <2>1. <<>> \in Seq(Frames)
    OBVIOUS
  <2>2. QED
    BY <1>1, <2>1 DEF IInv, TypeOK
<1>4. Taken' = Taken /\ QueueInOrder' /\ Books'
  BY <1>1, <1>3, WriteAside
<1>5. TypeOK'
  BY <1>1, <1>3 DEF IInv, TypeOK
<1>6. LinksInUse' /\ FlushedIsOut' /\ Writes'
  BY <1>1, <1>2, <1>3 DEF IInv, LinksInUse, FlushedIsOut, Writes
<1>7. ProxiesFollow'
  <2>1. \A k \in Links : k # l => (UnderWay(k)' <=> UnderWay(k))
    BY <1>1, <1>3 DEF UnderWay, Begins, Type
  <2>2. bearers \subseteq Links
    BY DEF IInv, TypeOK
  <2>3. QED
    BY <1>1, <1>3, <2>1, <2>2 DEF IInv, ProxiesFollow
<1>8. NoneLeftOut'
  <2>1. \A k \in Links : k # l => Reached(k)' = Reached(k)
    BY <1>1, <1>3, <1>4 DEF Reached
  <2>2. bearers \subseteq Links
    BY DEF IInv, TypeOK
  <2>3. QED
    BY <1>1, <1>3, <1>4, <2>1, <2>2 DEF IInv, NoneLeftOut
<1>9. ClaimsCome'
  <2>1. bearers \subseteq Links
    BY DEF IInv, TypeOK
  <2>2. QED
    BY <1>1, <1>3, <1>4, <2>1 DEF IInv, ClaimsCome
<1>10. QED
  BY <1>4, <1>5, <1>6, <1>7, <1>8, <1>9 DEF IInv

LEMMA WriteKeeps ==
  ASSUME IInv, NEW l \in Links, Write(l)
  PROVE  IInv'
<1> DEFINE fed == Feed(peer[l], Head(out[l]))  n == Len(out[l])  t == Tail(out[l])
           kept == [got EXCEPT ![l] = Append(@, held)]
<1>1. /\ out[l] # <<>> /\ out' = [out EXCEPT ![l] = t]
      /\ UNCHANGED <<sent, sender, fanout, flush, mark>>
      /\ UNCHANGED <<sent, queue, held, unfinished, pump, bearers, sub, dead, freed, flush, mark>>
      /\ peer' = [peer EXCEPT ![l] = fed.state]
      /\ filter' = [filter EXCEPT ![l] = Filtered(l, fed.message)]
      /\ result' = IF n = 1 THEN [result EXCEPT ![l] = "ok"] ELSE result
      /\ got' = IF fed.message = NoMessage THEN got ELSE [got EXCEPT ![l] = Append(@, Head(fed.message.payload)[1])]
  BY DEF Write, sender, fanout
<1>2. /\ held = Taken /\ held \in 1 .. Len(sent) /\ held # 0 /\ held \in Nat /\ pump = "running" /\ l \in bearers
      /\ result[l] = "pending" /\ sub[l] # "none" /\ Type(held) \in Types /\ UnderWay(l) /\ Len(sent) \in Nat
      /\ out[l] \in Seq(Frames) /\ n \in Nat /\ n > 0
  <2>1. held \in Nat
    BY DEF IInv, TypeOK
  <2>2. QED
    BY <1>1, <2>1, WriteIsUnderWay
<1>3. /\ fed.state \in [type : Types \cup {None}, buf : Seq(Octets)]
      /\ n = 1 =>
           /\ fed.state = Reset /\ fed.message # NoMessage /\ fed.message.type = Type(held)
           /\ Head(fed.message.payload)[1] = held
      /\ n > 1 =>
           /\ fed.message = NoMessage /\ fed.message.type = None
           /\ Begins(fed.state.buf) /\ fed.state.type = Type(held) /\ Left(l, t)
  BY <1>1, <1>2, FeedFollows DEF IInv
<1> HIDE DEF fed
<1>4. t \in Seq(Frames) /\ Len(t) = n - 1 /\ (n = 1 => t = <<>>) /\ (n > 1 => t # <<>>)
  <2>1. t \in Seq(Frames) /\ Len(t) = n - 1
    BY <1>1, <1>2
  <2> HIDE DEF t
  <2>2. QED
    BY <1>2, <2>1
<1> HIDE DEF t, n
<1>5. /\ out' \in [Links -> Seq(Frames)] /\ result' \in [Links -> {"none", "pending", "ok", "error"}]
      /\ peer' \in [Links -> [type : Types \cup {None}, buf : Seq(Octets)]]
      /\ out'[l] = t /\ peer'[l] = fed.state
      /\ result'[l] = IF n = 1 THEN "ok" ELSE "pending"
      /\ \A k \in Links : k # l => out'[k] = out[k] /\ result'[k] = result[k] /\ peer'[k] = peer[k]
  BY <1>1, <1>2, <1>3, <1>4 DEF IInv, TypeOK
<1>6. n = 1 \/ n > 1
  <2>1. \A k \in Nat : k > 0 => k = 1 \/ k > 1
    OBVIOUS
  <2>2. QED
    BY <1>2, <2>1, Zenon
<1>7. /\ n = 1 => got' = kept
      /\ n > 1 => got' = got
  BY <1>1, <1>3
<1>8. /\ got \in [Links -> Seq(Nat)] /\ kept \in [Links -> Seq(Nat)] /\ kept[l] = Append(got[l], held)
      /\ kept[l] # <<>> /\ kept[l][Len(kept[l])] = held /\ \A k \in Links : k # l => kept[k] = got[k]
      /\ \A k \in Links, i \in Nat : i \in Range(got[k]) => i \in Range(kept[k])
  <2>1. got \in [Links -> Seq(Nat)] /\ Append(got[l], held) \in Seq(Nat)
    BY <1>2 DEF IInv, TypeOK
  <2>2. /\ kept \in [Links -> Seq(Nat)] /\ kept[l] = Append(got[l], held)
        /\ \A k \in Links : k # l => kept[k] = got[k]
    BY <2>1
  <2> DEFINE g == Append(got[l], held)
  <2>3. /\ g \in Seq(Nat) /\ Len(g) = Len(got[l]) + 1 /\ g[Len(got[l]) + 1] = held
        /\ \A i \in 1 .. Len(got[l]) : g[i] = got[l][i]
    BY <1>2, <2>1
  <2>4. Len(got[l]) \in Nat /\ DOMAIN got[l] = 1 .. Len(got[l])
    BY <2>1
  <2> HIDE DEF g
  <2>5. g # <<>> /\ g[Len(g)] = held /\ DOMAIN g = 1 .. Len(got[l]) + 1
    BY <2>3, <2>4
  <2>6. \A i \in Range(got[l]) : i \in Range(g)
    <3>1. SUFFICES ASSUME NEW j \in DOMAIN got[l] PROVE got[l][j] \in Range(g)
      BY DEF Range
    <3>2. j \in DOMAIN g /\ g[j] = got[l][j]
      BY <2>3, <2>4, <2>5
    <3>3. QED
      BY <3>2 DEF Range
  <2> HIDE DEF kept
  <2>7. kept[l] = g
    BY <2>2 DEF g
  <2>8. \A k \in Links, i \in Nat : i \in Range(got[k]) => i \in Range(kept[k])
    BY <2>2, <2>6, <2>7
  <2>9. QED
    BY <2>1, <2>2, <2>5, <2>7, <2>8
<1> HIDE DEF kept
<1>9. /\ got' \in [Links -> Seq(Nat)] /\ \A k \in Links : k # l => got'[k] = got[k]
      /\ \A k \in Links, i \in Nat : i \in Range(got[k]) => i \in Range(got'[k])
  BY <1>6, <1>7, <1>8
<1>10. /\ filter' \in [Links -> {"empty", "cleared", "ours"}]
       /\ \A k \in Links : k # l => filter'[k] = filter[k]
       /\ filter'[l] = "ours" \/ filter'[l] = filter[l] \/ sent[held].kind = "clear"
       /\ n = 1 /\ sent[held].kind = "add" => filter'[l] = "ours"
  <2>1. filter \in [Links -> {"empty", "cleared", "ours"}]
    BY DEF IInv, TypeOK
  <2>2. CASE n = 1
    <3>1. /\ fed.message.type = "config" <=> sent[held].kind # "net"
          /\ sent[Head(fed.message.payload)[1]] = sent[held]
      BY <1>3, <2>2 DEF Type
    <3>2. Filtered(l, fed.message) = IF sent[held].kind = "net" THEN filter[l]
                                     ELSE IF sent[held].kind = "clear" THEN "cleared" ELSE "ours"
      BY <3>1 DEF Filtered
    <3>3. QED
      BY <1>1, <2>1, <3>2
  <2>3. CASE n > 1
    <3>1. Filtered(l, fed.message) = filter[l]
      BY <1>3, <2>3, ProxyPduAssumption DEF Filtered
    <3>2. QED
      BY <1>1, <2>1, <2>3, <3>1
  <2>4. QED
    BY <1>6, <2>2, <2>3
<1>11. Taken' = Taken /\ QueueInOrder' /\ Books'
  <2>1. out'[l] # <<>> => result'[l] = "pending"
    BY <1>4, <1>5
  <2>2. QED
    BY <1>1, <1>5, <2>1, WriteAside
<1>12. TypeOK'
  BY <1>1, <1>5, <1>9, <1>10 DEF IInv, TypeOK
<1>13. LinksInUse'
  BY <1>1, <1>2, <1>5, <1>9 DEF IInv, LinksInUse
<1>14. Writes'
  BY <1>1, <1>2, <1>4, <1>5, <1>6 DEF IInv, Writes
<1>15. ProxiesFollow'
  <2>1. \A k \in Links : k # l => (UnderWay(k)' <=> UnderWay(k))
    BY <1>1, <1>5 DEF UnderWay, Begins, Type
  <2>2. n > 1 => UnderWay(l)'
    <3>1. SUFFICES ASSUME n > 1 PROVE UnderWay(l)'
      OBVIOUS
    <3>2. /\ Begins(fed.state.buf) /\ fed.state.type = Type(held) /\ Left(l, t)
          /\ Type(held)' = Type(held)
      BY <1>1, <1>3, <3>1 DEF Begins, Type
    <3>3. out'[l] = t /\ peer'[l] = fed.state /\ t # <<>> /\ t \in Seq(Frames) /\ Len(t) \in Nat /\ Len(t) > 0
      BY <1>4, <1>5, <3>1, <1>2
    <3>4. /\ \A i \in 1 .. Len(t) : t[i].type = Type(held)
          /\ t[Len(t)].sar = "last" /\ \A i \in 1 .. Len(t) - 1 : t[i].sar = "continuation"
      BY <3>2 DEF Left
    <3>5. \A i \in 2 .. Len(t) - 1 : t[i].sar = "continuation"
      BY <3>3, <3>4
    <3>6. Len(t) > 1 => t[1].sar = "continuation"
      BY <3>3, <3>4
    <3>7. Begins(peer[l].buf)' /\ peer'[l].type = Type(held)
      BY <1>1, <3>2, <3>3 DEF Begins
    <3>8. QED
      BY <3>2, <3>3, <3>4, <3>5, <3>6, <3>7 DEF UnderWay
  <2>3. n = 1 => peer'[l] = Reset
    BY <1>3, <1>5
  <2>4. bearers \subseteq Links
    BY DEF IInv, TypeOK
  <2>5. QED
    BY <1>1, <1>5, <1>6, <2>1, <2>2, <2>3, <2>4 DEF IInv, ProxiesFollow
<1>16. NoneLeftOut'
  <2>1. /\ \A k \in Links : k # l => Reached(k)' = Reached(k)
        /\ Reached(l) = held - 1 /\ (n = 1 => Reached(l)' = held) /\ (n > 1 => Reached(l)' = held - 1)
    BY <1>1, <1>2, <1>5, <1>11 DEF Reached
  <2>2. bearers \subseteq Links
    BY DEF IInv, TypeOK
  <2>3. \A k \in bearers : result'[k] # "error" =>
          /\ got'[k] = <<>> => result'[k] # "ok" /\ (k \in First => Reached(k)' = 0)
          /\ got'[k] # <<>> => got'[k][Len(got'[k])] = Reached(k)'
    <3>1. SUFFICES ASSUME NEW k \in bearers, result'[k] # "error"
                   PROVE  /\ got'[k] = <<>> => result'[k] # "ok" /\ (k \in First => Reached(k)' = 0)
                          /\ got'[k] # <<>> => got'[k][Len(got'[k])] = Reached(k)'
      OBVIOUS
    <3>2. CASE k # l
      <4>1. got'[k] = got[k] /\ Reached(k)' = Reached(k)
        BY <1>9, <2>1, <2>2, <3>2
      <4>2. result[k] # "error" /\ result'[k] = result[k]
        BY <1>5, <2>2, <3>1, <3>2
      <4>3. /\ got[k] = <<>> => result[k] # "ok" /\ (k \in First => Reached(k) = 0)
            /\ got[k] # <<>> => got[k][Len(got[k])] = Reached(k)
        BY <1>2, <4>2 DEF IInv, NoneLeftOut
      <4>4. QED
        BY <4>1, <4>2, <4>3, Zenon
    <3>3. CASE k = l /\ n = 1
      BY <1>7, <1>8, <2>1, <3>3
    <3>4. CASE k = l /\ n > 1
      <4>1. got'[l] = got[l] /\ Reached(l)' = Reached(l) /\ result'[l] = "pending" /\ result[l] = "pending"
        BY <1>2, <1>5, <1>7, <2>1, <3>4
      <4>2. QED
        BY <1>2, <3>4, <4>1 DEF IInv, NoneLeftOut
    <3>5. QED
      BY <1>6, <3>2, <3>3, <3>4
  <2>4. \A i \in 1 .. Taken : i # held => \E k \in Links : i \in Range(got'[k])
    BY <1>2, <1>9 DEF IInv, NoneLeftOut
  <2>5. QED
    BY <1>1, <1>11, <2>3, <2>4 DEF NoneLeftOut
<1>17. FlushedIsOut'
  <2>1. mark \in Nat
    BY DEF IInv, TypeOK
  <2>2. QED
    BY <1>1, <1>9, <2>1 DEF IInv, FlushedIsOut
<1>18. ClaimsCome'
  <2>1. SUFFICES ASSUME NEW k \in bearers \ First, result'[k] # "error"
                 PROVE  \/ filter'[k] = "ours"
                        \/ \E i \in Taken + 1 .. Len(sent) : sent[i].kind = "add"
                        \/ result'[k] = "pending" /\ sent[held].kind = "add"
    BY <1>1, <1>11 DEF ClaimsCome
  <2>2. k \in Links
    BY DEF IInv, TypeOK
  <2>3. result[k] # "error"
    BY <1>2, <1>5, <2>1, <2>2
  <2>4. \/ filter[k] = "ours"
        \/ \E i \in Taken + 1 .. Len(sent) : sent[i].kind = "add"
        \/ result[k] = "pending" /\ sent[held].kind = "add"
    BY <1>2, <2>3 DEF IInv, ClaimsCome
  <2>5. CASE k # l
    BY <1>5, <1>10, <2>2, <2>4, <2>5
  <2>6. CASE k = l
    <3>1. sent[held].kind = "clear" => \E i \in Taken + 1 .. Len(sent) : sent[i].kind = "add"
      <4>1. sent[held].kind = "clear" => held < Len(sent) /\ sent[held + 1].kind = "add"
        BY <1>2 DEF IInv, QueueInOrder
      <4>2. held < Len(sent) => held + 1 \in Taken + 1 .. Len(sent)
        BY <1>2
      <4>3. QED
        BY <4>1, <4>2
    <3>2. n > 1 => result'[l] = "pending"
      BY <1>5
    <3>3. QED
      BY <1>6, <1>10, <2>4, <2>6, <3>1, <3>2
  <2>7. QED
    BY <2>5, <2>6
<1>19. QED
  BY <1>11, <1>12, <1>13, <1>14, <1>15, <1>16, <1>17, <1>18 DEF IInv

LEMMA SendEndsKeeps ==
  ASSUME IInv, SendEnds
  PROVE  IInv'
<1> DEFINE failed == {l \in Links : result[l] = "error"}
<1>1. /\ held # 0 /\ \A l \in Links : result[l] # "pending"
      /\ result' = [l \in Links |-> "none"] /\ held' = 0
      /\ UNCHANGED <<sent, queue, sub, out, mark, peer, got, filter>>
  BY DEF SendEnds, Die, proxies
<1>2. /\ pump = "running" /\ held = Taken /\ Taken \in Nat /\ Taken <= Len(sent) /\ Len(sent) \in Nat /\ Len(queue) \in Nat
      /\ unfinished \in Nat /\ unfinished = Len(queue) + 1 /\ Taken' = Taken
      /\ \A l \in Links : out[l] = <<>> /\ result'[l] = "none"
  <2>1. pump = "running" /\ held = Taken
    BY <1>1 DEF IInv, QueueInOrder
  <2>2. Len(sent) \in Nat /\ Len(queue) \in Nat /\ Len(queue) <= Len(sent) /\ unfinished \in Nat
    BY DEF IInv, TypeOK, QueueInOrder
  <2>3. unfinished = Len(queue) + 1
    BY <1>1, <2>1 DEF IInv, Books
  <2>4. \A l \in Links : out[l] = <<>> /\ result'[l] = "none"
    BY <1>1 DEF IInv, Writes
  <2>5. Taken' = Taken /\ Taken = Len(sent) - Len(queue)
    BY <1>1 DEF Taken
  <2>6. QED
    BY <2>1, <2>2, <2>3, <2>4, <2>5
<1>3. /\ result' \in [Links -> {"none", "pending", "ok", "error"}]
      /\ bearers \subseteq Links /\ freed \subseteq Links
  BY <1>1 DEF IInv, TypeOK
<1>4. CASE pump' = "dead" /\ dead' = TRUE /\ UNCHANGED <<unfinished, bearers, freed, flush>>
  <2>1. TypeOK'
    BY <1>1, <1>3, <1>4 DEF IInv, TypeOK
  <2>2. Books'
    BY <1>1, <1>2, <1>4 DEF IInv, Books
  <2>3. QueueInOrder' /\ Writes' /\ LinksInUse' /\ FlushedIsOut'
    BY <1>1, <1>2, <1>4 DEF IInv, QueueInOrder, Writes, LinksInUse, FlushedIsOut
  <2>4. ProxiesFollow' /\ NoneLeftOut' /\ ClaimsCome'
    BY <1>4 DEF ProxiesFollow, NoneLeftOut, ClaimsCome
  <2>5. QED
    BY <2>1, <2>2, <2>3, <2>4 DEF IInv
<1>5. CASE /\ \E l \in Links : result[l] = "ok"
           /\ bearers' = bearers \ failed /\ freed' = freed \cup failed
           /\ unfinished' = unfinished - 1 /\ flush' = Flushed /\ UNCHANGED <<pump, dead>>
  <2>1. unfinished' = Len(queue) /\ unfinished' \in Nat
    BY <1>2, <1>5
  <2>2. /\ flush' \in {"none", "waiting", "done"}
        /\ flush' = "waiting" => unfinished' > 0
        /\ flush' # "none" => flush # "none"
        /\ flush' = "done" => flush = "done" \/ (flush = "waiting" /\ unfinished' = 0)
    BY <1>5, <2>1 DEF Flushed, IInv, TypeOK
  <2>3. TypeOK'
    BY <1>1, <1>3, <1>5, <2>1, <2>2 DEF IInv, TypeOK
  <2>4. Books'
    BY <1>1, <1>2, <1>5, <2>1, <2>2 DEF IInv, Books
  <2>5. QueueInOrder' /\ Writes'
    BY <1>1, <1>2, <1>5 DEF IInv, QueueInOrder, Writes
  <2>6. LinksInUse'
    <3>1. failed \subseteq bearers
      BY DEF IInv, Writes
    <3>2. \A l \in Links : sub[l] = "none" => peer[l] = Reset /\ got[l] = <<>>
      BY DEF IInv, LinksInUse
    <3>3. \A l \in bearers : sub[l] \in {"ok", "late", "failed"}
      BY <1>2, <1>3 DEF IInv, LinksInUse
    <3>4. QED
      BY <1>1, <1>2, <1>3, <1>5, <3>1, <3>2, <3>3 DEF IInv, LinksInUse
  <2>7. \A l \in bearers' : l \in bearers /\ l \in Links /\ result[l] \in {"none", "ok"}
    BY <1>1, <1>3, <1>5 DEF IInv, TypeOK
  <2>8. ProxiesFollow'
    BY <1>1, <1>2, <1>5, <2>7 DEF IInv, ProxiesFollow
  <2>9. \A n \in 1 .. Taken : \E l \in Links : n \in Range(got[l])
    <3>1. SUFFICES ASSUME NEW n \in 1 .. Taken PROVE \E l \in Links : n \in Range(got[l])
      OBVIOUS
    <3>2. CASE n # held
      BY <1>2, <3>2 DEF IInv, NoneLeftOut
    <3>3. CASE n = held
      <4>1. PICK l \in Links : result[l] = "ok"
        BY <1>5
      <4>2. l \in bearers
        BY <4>1 DEF IInv, Writes
      <4>3. got[l] # <<>> /\ got[l][Len(got[l])] = held
        BY <1>2, <4>1, <4>2 DEF IInv, NoneLeftOut, Reached
      <4>4. got[l] \in Seq(Nat)
        BY DEF IInv, TypeOK
      <4>5. Len(got[l]) \in DOMAIN got[l]
        BY <4>3, <4>4
      <4>6. QED
        BY <3>3, <4>3, <4>5 DEF Range
    <3>4. QED
      BY <3>2, <3>3
  <2>10. NoneLeftOut'
    <3>1. \A l \in bearers' : Reached(l)' = Taken /\ Reached(l) = Taken
      BY <1>2, <2>7 DEF Reached
    <3>2. \A l \in bearers' : /\ got[l] = <<>> => (l \in First => Reached(l)' = 0)
                              /\ got[l] # <<>> => got[l][Len(got[l])] = Reached(l)'
      BY <1>2, <2>7, <3>1 DEF IInv, NoneLeftOut
    <3>3. QED
      BY <1>1, <1>2, <2>7, <2>9, <3>2 DEF NoneLeftOut
  <2>11. FlushedIsOut'
    <3>1. CASE flush = "done"
      BY <1>1, <3>1 DEF IInv, FlushedIsOut
    <3>2. CASE flush = "waiting" /\ unfinished' = 0
      <4>1. mark \in 1 .. Len(sent)
        BY <3>2 DEF IInv, Books
      <4>2. Taken = Len(sent)
        BY <1>2, <2>1, <3>2 DEF Taken
      <4>3. QED
        BY <1>1, <2>9, <4>1, <4>2 DEF FlushedIsOut
    <3>3. QED
      BY <2>2, <3>1, <3>2 DEF FlushedIsOut
  <2>12. ClaimsCome'
    BY <1>1, <1>2, <1>5, <2>7 DEF IInv, ClaimsCome
  <2>13. QED
    BY <2>3, <2>4, <2>5, <2>6, <2>8, <2>10, <2>11, <2>12 DEF IInv
<1>6. QED
  BY <1>3, <1>4, <1>5 DEF SendEnds, Die, Drop, IInv, TypeOK

----------------------------------------------------------------------------
(***************************************************************************)
(* The theorems.                                                           *)
(***************************************************************************)

LEMMA NextKeeps == IInv /\ [Act]_vars => IInv'
<1> SUFFICES ASSUME IInv, [Act]_vars PROVE IInv'
  OBVIOUS
<1>1. CASE \E size \in Sizes : Put(size) \/ Flush(size)
  BY <1>1, PutKeeps
<1>2. CASE \E l \in Links, outcome \in Outcomes : Start(l, outcome) \/ Join(l, outcome)
  BY <1>2, StartKeeps, JoinKeeps
<1>3. CASE (\E l \in Links, outcome \in {"ok", "failed"} : LateSubscribe(l, outcome)) \/ FlushReturns
  BY <1>3, AsideKeeps
<1>4. CASE Sending
  BY <1>4, TakeKeeps, SendEndsKeeps, WriteKeeps, WriteFailsKeeps DEF Sending
<1>5. CASE Stop
  BY <1>5, StopKeeps
<1>6. CASE UNCHANGED vars
  <2>1. /\ UNCHANGED <<sent, queue, held, unfinished, pump, bearers, sub, out, result, dead, freed, flush, mark>>
        /\ UNCHANGED <<peer, got, filter>>
    BY <1>6 DEF vars
  <2>2. TypeOK' /\ Books' /\ LinksInUse' /\ Writes' /\ FlushedIsOut'
    BY <2>1 DEF IInv, TypeOK, Books, LinksInUse, Writes, FlushedIsOut
  <2>3. Taken' = Taken
    BY <2>1 DEF Taken
  <2>4. QueueInOrder' /\ ClaimsCome'
    BY <2>1, <2>3 DEF IInv, QueueInOrder, ClaimsCome
  <2>5. ProxiesFollow'
    BY <2>1 DEF IInv, ProxiesFollow, UnderWay, Begins, Type
  <2>6. NoneLeftOut'
    BY <2>1, <2>3 DEF IInv, NoneLeftOut, Reached
  <2>7. QED
    BY <2>2, <2>4, <2>5, <2>6 DEF IInv
<1>7. QED
  BY <1>1, <1>2, <1>3, <1>4, <1>5, <1>6 DEF Act

LEMMA SpecSteps == Spec => Init /\ [][Act]_vars
  BY PTL DEF Spec

\* The books of the sending side agree with its links and its proxies, at every moment.
THEOREM ChannelAgrees == Spec => []IInv
  BY InitHolds, NextKeeps, SpecSteps, PTL

\* A link of the fan-out is in use or its owner was told to free it, never both and
\* never neither, and between two messages no proxy in use holds half of one.
THEOREM EveryLinkOwned == Spec => []EveryLinkHasAnOwner
<1>1. IInv => EveryLinkHasAnOwner
  <2>1. SUFFICES ASSUME IInv PROVE EveryLinkHasAnOwner
    OBVIOUS
  <2>2. bearers \subseteq Links /\ \A l \in Links : held = 0 => result[l] = "none"
    BY <2>1 DEF IInv, TypeOK, Writes
  <2>3. bearers \cap freed = {} /\ (pump = "running" => \A l \in First : l \in bearers \cup freed)
    BY <2>1 DEF IInv, LinksInUse
  <2>4. pump = "running" /\ held = 0 => \A l \in bearers : peer[l] = Reset
    BY <2>1, <2>2 DEF IInv, ProxiesFollow
  <2>5. QED
    BY <2>3, <2>4 DEF EveryLinkHasAnOwner
<1>2. QED
  BY <1>1, ChannelAgrees, PTL

\* A flush that returns has its message out on some link, or the sending side failed.
THEOREM GroupSetsLeave == Spec => []GroupSetLeft
<1>1. IInv => GroupSetLeft
  BY DEF IInv, FlushedIsOut, GroupSetLeft, Range
<1>2. QED
  BY <1>1, ChannelAgrees, PTL

\* A link that joined and is up to date has claimed its filter.
THEOREM JoinedAnswer == Spec => []JoinedLinksAnswer
<1>1. IInv => JoinedLinksAnswer
  <2>1. SUFFICES ASSUME IInv, NEW l \in bearers \ First, pump = "running", queue = <<>>, held = 0
                 PROVE  filter[l] = "ours"
    BY DEF JoinedLinksAnswer
  <2>2. result[l] = "none"
    BY <2>1 DEF IInv, TypeOK, Writes
  <2>3. Taken = Len(sent) /\ Len(sent) \in Nat
    BY <2>1 DEF IInv, TypeOK, Taken
  <2>4. \A n \in Taken + 1 .. Len(sent) : FALSE
    BY <2>3
  <2>5. QED
    BY <2>1, <2>2, <2>4 DEF IInv, ClaimsCome
<1>2. QED
  BY <1>1, ChannelAgrees, PTL

----------------------------------------------------------------------------
(***************************************************************************)
(* The refinement.                                                         *)
(***************************************************************************)

\* The PDUs that were given stay as they are, and what is closed stays closed.
LEMMA ClosesMore ==
  ASSUME TypeOK, freed \subseteq freed', \A l \in Links : sub[l] = "refused" => sub'[l] = "refused",
         pump \in {"dead", "stopped"} => pump' \in {"dead", "stopped"}
  PROVE  Closed \subseteq Closed'
  BY DEF TypeOK, Closed

LEMMA GivesOrCloses ==
  ASSUME TypeOK, Len(sent') >= Len(sent), UNCHANGED got,
         freed \subseteq freed', \A l \in Links : sub[l] = "refused" => sub'[l] = "refused",
         pump \in {"dead", "stopped"} => pump' \in {"dead", "stopped"}
  PROVE  Queue!GiveOrClose
  BY ClosesMore DEF Queue!GiveOrClose

LEMMA WriteDelivers ==
  ASSUME IInv, NEW l \in Links, Write(l)
  PROVE  Queue!GiveOrClose \/ Queue!Deliver(l)
<1> DEFINE fed == Feed(peer[l], Head(out[l]))  n == Len(out[l])
<1>1. /\ out[l] # <<>> /\ UNCHANGED <<sent, pump, sub, freed>>
      /\ got' = IF fed.message = NoMessage THEN got ELSE [got EXCEPT ![l] = Append(@, Head(fed.message.payload)[1])]
  BY DEF Write, sender, fanout
<1>2. /\ held = Taken /\ held \in 1 .. Len(sent) /\ held \in Nat /\ pump = "running" /\ l \in bearers
      /\ result[l] = "pending" /\ Type(held) \in Types /\ UnderWay(l) /\ Len(sent) \in Nat
      /\ n \in Nat /\ n > 0
  <2>1. held \in Nat
    BY DEF IInv, TypeOK
  <2>2. QED
    BY <1>1, <2>1, WriteIsUnderWay
<1>3. /\ n = 1 => fed.message # NoMessage /\ Head(fed.message.payload)[1] = held
      /\ n > 1 => fed.message = NoMessage
  BY <1>1, <1>2, FeedFollows DEF IInv
<1> HIDE DEF fed
<1>4. CASE n > 1
  <2>1. Len(sent') >= Len(sent) /\ UNCHANGED got
    BY <1>1, <1>2, <1>3, <1>4
  <2>2. QED
    BY <1>1, <2>1, GivesOrCloses DEF IInv
<1>5. CASE n = 1
  <2>1. got' = [got EXCEPT ![l] = Append(@, held)]
    BY <1>1, <1>3, <1>5
  <2>2. l \notin Closed
    BY <1>2 DEF IInv, LinksInUse, Closed
  <2>3. Closed' = Closed /\ Len(sent') = Len(sent)
    BY <1>1 DEF Closed
  <2>4. held \in Queue!Next(l)
    <3>1. Reached(l) = held - 1 /\ result[l] # "error"
      BY <1>2 DEF Reached
    <3>2. /\ got[l] = <<>> => (l \in First => held - 1 = 0)
          /\ got[l] # <<>> => got[l][Len(got[l])] = held - 1
      BY <1>2, <3>1 DEF IInv, NoneLeftOut
    <3>3. QED
      BY <1>2, <3>2 DEF Queue!Next
  <2>5. held <= Len(sent)
    BY <1>2
  <2>6. QED
    BY <2>1, <2>2, <2>3, <2>4, <2>5 DEF Queue!Deliver
<1>6. n = 1 \/ n > 1
  <2>1. \A k \in Nat : k > 0 => k = 1 \/ k > 1
    OBVIOUS
  <2>2. QED
    BY <1>2, <2>1, Zenon
<1>7. QED
  BY <1>4, <1>5, <1>6

\* Every step but a write: the PDUs that were given stay, and nothing comes out.
LEMMA OtherSteps ==
  ASSUME IInv, Act, \A l \in Links : ~ Write(l)
  PROVE  /\ Len(sent') >= Len(sent) /\ \A n \in 1 .. Len(sent) : sent'[n] = sent[n]
         /\ Queue!GiveOrClose
<1>1. TypeOK /\ Len(sent) \in Nat /\ sub \in [Links -> {"none", "late", "ok", "refused", "failed"}]
      /\ (sent' = sent => Len(sent') >= Len(sent))
  BY DEF IInv, TypeOK
<1>2. ASSUME NEW size \in Sizes, Put(size) \/ Flush(size)
      PROVE  /\ Len(sent') >= Len(sent) /\ \A n \in 1 .. Len(sent) : sent'[n] = sent[n]
             /\ Queue!GiveOrClose
  <2>1. Queued(<<[kind |-> "net", size |-> size]>>) /\ UNCHANGED <<pump, sub, freed, got>>
    BY <1>2 DEF Put, Flush, fanout, proxies
  <2>2. Grows
    BY <2>1, NetGrows
  <2>3. QED
    BY <1>1, <2>1, <2>2, GivesOrCloses DEF Grows
<1>3. ASSUME NEW l \in Links, NEW outcome \in Outcomes, Start(l, outcome) \/ Join(l, outcome)
      PROVE  /\ Len(sent') >= Len(sent) /\ \A n \in 1 .. Len(sent) : sent'[n] = sent[n]
             /\ Queue!GiveOrClose
  <2>1. UNCHANGED sent \/ Queued(FilterClaim)
    BY <1>3 DEF Start, Join
  <2>2. Len(sent') >= Len(sent) /\ \A n \in 1 .. Len(sent) : sent'[n] = sent[n]
    BY <1>1, <2>1, ClaimGrows DEF IInv, Grows
  <2>3. sub[l] = "none" /\ sub' = [sub EXCEPT ![l] = outcome] /\ UNCHANGED got /\ freed \subseteq freed'
    BY <1>3 DEF Start, Join, Drop, proxies
  <2>4. pump \in {"dead", "stopped"} => pump' \in {"dead", "stopped"}
    BY <1>3 DEF Start, Join
  <2>5. \A k \in Links : sub[k] = "refused" => sub'[k] = "refused"
    BY <1>1, <2>3
  <2>6. QED
    BY <1>1, <2>2, <2>3, <2>4, <2>5, GivesOrCloses
<1>4. ASSUME NEW l \in Links, NEW outcome \in {"ok", "failed"}, LateSubscribe(l, outcome)
      PROVE  UNCHANGED sent /\ Queue!GiveOrClose
  <2>1. /\ sub[l] = "late" /\ sub' = [sub EXCEPT ![l] = outcome]
        /\ UNCHANGED <<sent, pump, freed, got>>
    BY <1>4 DEF LateSubscribe, sender, proxies
  <2>2. \A k \in Links : sub[k] = "refused" => sub'[k] = "refused"
    BY <1>1, <2>1
  <2>3. QED
    BY <1>1, <2>1, <2>2, GivesOrCloses
<1>5. ASSUME Take \/ SendEnds \/ FlushReturns \/ Stop \/ (\E l \in Links : WriteFails(l))
      PROVE  UNCHANGED sent /\ Queue!GiveOrClose
  <2>1. /\ UNCHANGED <<sent, sub, got>> /\ freed \subseteq freed'
        /\ pump \in {"dead", "stopped"} => pump' \in {"dead", "stopped"}
    BY <1>5 DEF Take, SendEnds, FlushReturns, Stop, WriteFails, Drop, Die, sender, fanout, proxies
  <2>2. QED
    BY <1>1, <2>1, GivesOrCloses
<1>6. QED
  BY <1>1, <1>2, <1>3, <1>4, <1>5 DEF Act, Sending

LEMMA StepRefines ==
  ASSUME IInv, [Act]_vars
  PROVE  [Queue!GiveOrClose \/ (\E l \in Links : Queue!Deliver(l))]_Queue!fifoVars
<1>1. CASE UNCHANGED vars
  BY <1>1 DEF vars, Queue!fifoVars, Closed
<1>2. CASE \E l \in Links : Write(l)
  BY <1>2, WriteDelivers
<1>3. CASE Act /\ \A l \in Links : ~ Write(l)
  BY <1>3, OtherSteps
<1>4. QED
  BY <1>1, <1>2, <1>3

\* Each link is a Fifo: whole messages, in the order they were queued, none left out
\* and none twice, until the link is closed.
THEOREM LinksAreFifos == Spec => ImplementsFifo
<1>1. Init => Queue!FifoInit
  BY DEF Init, Queue!FifoInit, Closed
<1>2. IInv /\ [Act]_vars => [Queue!GiveOrClose \/ (\E l \in Links : Queue!Deliver(l))]_Queue!fifoVars
  BY StepRefines
<1>3. QED
  BY <1>1, <1>2, SpecSteps, ChannelAgrees, PTL DEF ImplementsFifo, Queue!FifoSpec

----------------------------------------------------------------------------
(***************************************************************************)
(* The accept list: a clear is followed by its add before anything else.   *)
(***************************************************************************)

\* What came out of a link are the PDUs one after the other, a link held from the
\* start from the first, and that is a clear.
ClaimsFirst ==
  /\ pump = "running" \/ (\E l \in Links : got[l] # <<>>) => Len(sent) > 0 /\ sent[1].kind = "clear"
  /\ \A l \in Links : \A i \in 1 .. Len(got[l]) :
       /\ got[l][i] \in 1 .. Len(sent)
       /\ i > 1 => got[l][i] = got[l][i - 1] + 1
       /\ i = 1 /\ l \in First => got[l][i] = 1

LEMMA RunsOnClaim ==
  ASSUME IInv, Act, pump' = "running", pump # "running"
  PROVE  Len(sent') > 0 /\ sent'[1].kind = "clear"
<1>1. PICK l \in Links, outcome \in Outcomes : Start(l, outcome)
  BY DEF Act, Put, Flush, Join, LateSubscribe, Sending, Take, SendEnds, Write, WriteFails, FlushReturns, Stop,
         Die, sender
<1>2. sent = <<>> /\ Len(sent) = 0 /\ Queued(FilterClaim)
  BY <1>1 DEF Start, IInv, QueueInOrder
<1>3. Len(sent') = Len(sent) + 2 /\ sent'[Len(sent) + 1].kind = "clear"
  BY <1>2, ClaimGrows DEF IInv
<1>4. QED
  BY <1>2, <1>3

LEMMA ClaimsFirstKept ==
  ASSUME IInv, ClaimsFirst, [Act]_vars
  PROVE  ClaimsFirst'
<1>1. /\ Len(sent) \in Nat /\ Len(sent') \in Nat /\ Len(sent') >= Len(sent)
      /\ \A n \in 1 .. Len(sent) : sent'[n] = sent[n]
      /\ UNCHANGED got \/ \E l \in Links : Queue!Deliver(l) /\ held \in 1 .. Len(sent) /\ pump = "running"
  <2>1. Len(sent) \in Nat
    BY DEF IInv, TypeOK
  <2>2. IInv'
    BY NextKeeps
  <2>3. Len(sent') \in Nat
    BY <2>2 DEF IInv, TypeOK
  <2>4. CASE UNCHANGED vars
    BY <2>1, <2>4 DEF vars
  <2>5. ASSUME NEW l \in Links, Write(l)
        PROVE  /\ Len(sent') >= Len(sent) /\ \A n \in 1 .. Len(sent) : sent'[n] = sent[n]
               /\ UNCHANGED got \/ (Queue!Deliver(l) /\ held \in 1 .. Len(sent) /\ pump = "running")
    <3>1. UNCHANGED sent /\ out[l] # <<>>
      BY <2>5 DEF Write
    <3>2. held \in 1 .. Len(sent) /\ pump = "running"
      BY <3>1, WriteIsUnderWay
    <3>3. QED
      BY <2>1, <2>5, <3>1, <3>2, WriteDelivers DEF Queue!GiveOrClose
  <2>6. CASE Act /\ \A l \in Links : ~ Write(l)
    BY <2>6, OtherSteps DEF Queue!GiveOrClose
  <2>7. QED
    BY <2>1, <2>3, <2>4, <2>5, <2>6
<1>2. pump' = "running" => pump = "running" \/ (Len(sent') > 0 /\ sent'[1].kind = "clear")
  BY RunsOnClaim DEF vars
<1>3. Len(sent) > 0 => 1 \in 1 .. Len(sent) /\ sent'[1] = sent[1] /\ Len(sent') > 0
  BY <1>1
<1>4. CASE UNCHANGED got
  <2>1. \A n \in 1 .. Len(sent) : n \in 1 .. Len(sent')
    BY <1>1
  <2>2. QED
    BY <1>2, <1>3, <1>4, <2>1 DEF ClaimsFirst
<1>5. ASSUME NEW l \in Links, Queue!Deliver(l), held \in 1 .. Len(sent), pump = "running"
      PROVE  ClaimsFirst'
  <2>1. PICK n \in Queue!Next(l) : n <= Len(sent) /\ got' = [got EXCEPT ![l] = Append(@, n)]
    BY <1>5 DEF Queue!Deliver
  <2>2. got \in [Links -> Seq(Nat)]
    BY DEF IInv, TypeOK
  <2> DEFINE g == got[l]  k == Len(g)
  <2>3. g \in Seq(Nat) /\ k \in Nat
    BY <2>2
  <2>4. /\ n \in 1 .. Len(sent)
        /\ k > 0 => n = g[k] + 1
        /\ k = 0 /\ l \in First => n = 1
    <3>1. CASE g # <<>>
      <4>1. k > 0 /\ k \in 1 .. k
        BY <2>3, <3>1
      <4>2. n = g[k] + 1 /\ g[k] \in 1 .. Len(sent)
        BY <3>1, <4>1 DEF Queue!Next, ClaimsFirst
      <4>3. QED
        BY <1>1, <2>1, <4>1, <4>2
    <3>2. CASE g = <<>>
      <4>1. k = 0 /\ n \in (IF l \in First THEN {1} ELSE 1 .. Len(sent))
        BY <3>2 DEF Queue!Next
      <4>2. Len(sent) > 0
        BY <1>1, <1>5
      <4>3. QED
        BY <1>1, <4>1, <4>2
    <3>3. QED
      BY <3>1, <3>2
  <2>5. /\ got'[l] = Append(g, n) /\ \A j \in Links : j # l => got'[j] = got[j]
    BY <2>1, <2>2
  <2> DEFINE h == Append(g, n)
  <2>6. Len(h) = k + 1 /\ h[k + 1] = n /\ \A i \in 1 .. k : h[i] = g[i]
    <3>1. n \in Nat
      BY <1>1, <2>4
    <3>2. QED
      BY <2>3, <3>1
  <2> HIDE DEF h
  <2>7. \A i \in 1 .. k : /\ g[i] \in 1 .. Len(sent) /\ (i > 1 => g[i] = g[i - 1] + 1)
                          /\ (i = 1 /\ l \in First => g[i] = 1)
    BY DEF ClaimsFirst
  <2> HIDE DEF g, k
  <2>8. \A i \in 1 .. k + 1 : /\ h[i] \in 1 .. Len(sent') /\ (i > 1 => h[i] = h[i - 1] + 1)
                              /\ (i = 1 /\ l \in First => h[i] = 1)
    <3>1. SUFFICES ASSUME NEW i \in 1 .. k + 1
                   PROVE  /\ h[i] \in 1 .. Len(sent') /\ (i > 1 => h[i] = h[i - 1] + 1)
                          /\ (i = 1 /\ l \in First => h[i] = 1)
      OBVIOUS
    <3>2. \A j \in 1 .. Len(sent) : j \in 1 .. Len(sent')
      BY <1>1
    <3>3. CASE i <= k
      <4>1. i \in 1 .. k /\ (i > 1 => i - 1 \in 1 .. k)
        BY <2>3, <3>3 DEF k
      <4>2. h[i] = g[i] /\ (i > 1 => h[i - 1] = g[i - 1])
        BY <2>6, <4>1
      <4>3. QED
        BY <2>7, <3>2, <4>1, <4>2
    <3>4. CASE i = k + 1
      <4>1. h[i] = n /\ (i > 1 => i - 1 = k /\ k > 0 /\ k \in 1 .. k) /\ (i = 1 => k = 0)
        BY <2>3, <2>6, <3>4 DEF k
      <4>2. i > 1 => h[i - 1] = g[k]
        BY <2>6, <4>1
      <4>3. QED
        BY <2>4, <3>2, <4>1, <4>2
    <3>5. QED
      BY <2>3, <3>3, <3>4 DEF k
  <2>9. \A j \in Links : \A i \in 1 .. Len(got'[j]) :
          /\ got'[j][i] \in 1 .. Len(sent')
          /\ i > 1 => got'[j][i] = got'[j][i - 1] + 1
          /\ i = 1 /\ j \in First => got'[j][i] = 1
    <3>1. \A m \in 1 .. Len(sent) : m \in 1 .. Len(sent')
      BY <1>1
    <3>2. got'[l] = h
      BY <2>5 DEF h, g
    <3>3. SUFFICES ASSUME NEW j \in Links, NEW i \in 1 .. Len(got'[j])
                   PROVE  /\ got'[j][i] \in 1 .. Len(sent')
                          /\ i > 1 => got'[j][i] = got'[j][i - 1] + 1
                          /\ i = 1 /\ j \in First => got'[j][i] = 1
      OBVIOUS
    <3>4. CASE j = l
      <4>1. got'[j] = h /\ i \in 1 .. k + 1
        BY <2>6, <3>2, <3>3, <3>4
      <4>2. QED
        BY <2>8, <3>4, <4>1
    <3>5. CASE j # l
      <4>1. got'[j] = got[j] /\ i \in 1 .. Len(got[j])
        BY <2>5, <3>3, <3>5
      <4>2. /\ got[j][i] \in 1 .. Len(sent)
            /\ i > 1 => got[j][i] = got[j][i - 1] + 1
            /\ i = 1 /\ j \in First => got[j][i] = 1
        BY <4>1 DEF ClaimsFirst
      <4>3. QED
        BY <3>1, <4>1, <4>2
    <3>6. QED
      BY <3>4, <3>5, Zenon
  <2>10. Len(sent') > 0 /\ sent'[1].kind = "clear"
    BY <1>3, <1>5 DEF ClaimsFirst
  <2>11. QED
    BY <2>9, <2>10 DEF ClaimsFirst
<1>6. QED
  BY <1>1, <1>4, <1>5

\* No message of the mesh goes through a proxy while its accept list lacks our address,
\* except through a link that joins before its first claim.
THEOREM ClaimedBeforeCommand == Spec => []FilterBeforeCommand
<1>1. Init => ClaimsFirst
  BY DEF Init, ClaimsFirst
<1>2. IInv /\ ClaimsFirst => FilterBeforeCommand
  <2>1. SUFFICES ASSUME IInv, ClaimsFirst, NEW l \in Links, NEW i \in DOMAIN got[l], sent[got[l][i]].kind = "net"
                 PROVE  LET claims == {j \in 1 .. i - 1 : sent[got[l][j]].kind # "net"} IN
                        IF claims = {} THEN l \notin First
                        ELSE sent[got[l][CHOOSE j \in claims : \A k \in claims : k <= j]].kind = "add"
    BY DEF FilterBeforeCommand
  <2> DEFINE g == got[l]  claims == {j \in 1 .. i - 1 : sent[g[j]].kind # "net"}
  <2>2. g \in Seq(Nat) /\ i \in 1 .. Len(g) /\ i \in Nat /\ Len(g) \in Nat
    BY <2>1 DEF IInv, TypeOK
  <2>3. \A j \in 1 .. Len(g) : /\ g[j] \in 1 .. Len(sent) /\ (j > 1 => g[j] = g[j - 1] + 1)
                               /\ (j = 1 /\ l \in First => g[j] = 1)
    BY <2>1 DEF ClaimsFirst
  <2>4. sent[1].kind = "clear"
    <3>1. g # <<>>
      BY <2>2
    <3>2. QED
      BY <2>1, <3>1 DEF ClaimsFirst
  <2>5. \A n \in 1 .. Len(sent) : /\ sent[n].kind \in {"net", "clear", "add"}
                                  /\ sent[n].kind = "clear" => sent[n + 1].kind = "add"
    <3>1. SUFFICES ASSUME NEW n \in 1 .. Len(sent)
                   PROVE  /\ sent[n].kind \in {"net", "clear", "add"}
                          /\ sent[n].kind = "clear" => sent[n + 1].kind = "add"
      OBVIOUS
    <3>2. sent \in Seq(Kinds)
      BY <2>1 DEF IInv, TypeOK
    <3>3. sent[n] \in Kinds
      BY <3>2
    <3>4. sent[n].kind = "clear" => sent[n + 1].kind = "add"
      BY <2>1 DEF IInv, QueueInOrder
    <3>5. QED
      BY <3>3, <3>4 DEF Kinds
  <2> HIDE DEF g
  <2>6. CASE claims = {}
    <3>1. SUFFICES ASSUME l \in First PROVE FALSE
      BY <2>6 DEF g
    <3>2. 1 \in 1 .. Len(g) /\ g[1] = 1 /\ sent[g[1]].kind = "clear"
      BY <2>2, <2>3, <2>4, <3>1
    <3>3. i # 1
      BY <2>1, <3>2 DEF g
    <3>4. 1 \in 1 .. i - 1
      BY <2>2, <3>3
    <3>5. QED
      BY <2>6, <3>2, <3>4
  <2>7. CASE claims # {}
    <3> DEFINE m == CHOOSE j \in claims : \A k \in claims : k <= j
    <3>1. m \in claims /\ \A k \in claims : k <= m
      <4>1. claims \in SUBSET (1 .. i) /\ \A k \in claims : k \in Nat
        BY <2>2
      <4> HIDE DEF claims
      <4>2. Max(claims) \in claims /\ \A k \in claims : Max(claims) >= k
        BY <2>2, <2>7, <4>1, MaxIsGreatest
      <4>3. \A k \in claims : k <= Max(claims)
        BY <4>1, <4>2
      <4>4. QED
        BY <4>2, <4>3
    <3> HIDE DEF m
    <3>2. m \in 1 .. i - 1 /\ sent[g[m]].kind # "net"
      BY <3>1
    <3>3. m \in 1 .. Len(g) /\ m + 1 \in 1 .. Len(g) /\ g[m + 1] = g[m] + 1 /\ g[m] \in 1 .. Len(sent)
      <4>1. m \in 1 .. Len(g) /\ m + 1 \in 1 .. Len(g) /\ m + 1 > 1 /\ (m + 1) - 1 = m
        BY <2>2, <3>2
      <4>2. QED
        BY <2>3, <4>1
    <3>4. sent[g[m]].kind # "clear"
      <4>1. SUFFICES ASSUME sent[g[m]].kind = "clear" PROVE FALSE
        OBVIOUS
      <4>2. sent[g[m + 1]].kind = "add"
        BY <2>5, <3>3, <4>1
      <4>3. m + 1 # i
        BY <2>1, <4>2 DEF g
      <4>4. m + 1 \in 1 .. i - 1
        BY <2>2, <3>2, <4>3
      <4>5. m + 1 \in claims
        BY <4>2, <4>4
      <4>6. QED
        BY <3>1, <3>2, <4>5
    <3>5. sent[g[m]].kind = "add"
      BY <2>5, <3>2, <3>3, <3>4
    <3>6. QED
      BY <2>7, <3>5 DEF m, g
  <2>8. QED
    BY <2>6, <2>7
<1>3. QED
  BY <1>1, <1>2, ClaimsFirstKept, ChannelAgrees, SpecSteps, PTL
=============================================================================
