------------------------------ MODULE ProxyPdu ------------------------------
(***************************************************************************)
(* Proxy PDU frames: a message cut into frames of an MTU, and the          *)
(* Reassembler that puts the frames of one link together again.  A payload *)
(* is a sequence of whatever its octets are.                               *)
(***************************************************************************)
EXTENDS Naturals, Sequences

CONSTANT None

ASSUME ProxyPduAssumption == None \notin {"network", "config"}

Smaller(a, b) == IF a <= b THEN a ELSE b
Chunk(mtu) == mtu - 1    \* the header takes an octet
Pieces(payload, mtu) == (Len(payload) + Chunk(mtu) - 1) \div Chunk(mtu)

Sar(i, n) == IF i = 1 THEN "first" ELSE IF i = n THEN "last" ELSE "continuation"

SegmentOpenEnded(type, payload, mtu) ==   \* Slip: a last frame that is not full is not marked as the last.
  LET n == Pieces(payload, mtu) IN
  IF n <= 1 THEN <<[sar |-> "complete", type |-> type, part |-> payload]>>
  ELSE [i \in 1 .. n |->
          [sar |-> IF Smaller(i * Chunk(mtu), Len(payload)) < i * Chunk(mtu) THEN "continuation" ELSE Sar(i, n),
           type |-> type, part |-> SubSeq(payload, (i - 1) * Chunk(mtu) + 1, Smaller(i * Chunk(mtu), Len(payload)))]]

\* segment: what fits goes in one frame.
Segment(type, payload, mtu) ==
  LET n == Pieces(payload, mtu) IN
  IF n <= 1 THEN <<[sar |-> "complete", type |-> type, part |-> payload]>>
  ELSE [i \in 1 .. n |->
          [sar |-> Sar(i, n), type |-> type,
           part |-> SubSeq(payload, (i - 1) * Chunk(mtu) + 1, Smaller(i * Chunk(mtu), Len(payload)))]]

\* A Reassembler: the type of the message under way, and what came of it.
Reset == [type |-> None, buf |-> <<>>]
InProgress(r) == r.type # None

NoMessage == [type |-> None, payload |-> <<>>]

\* feed: the Reassembler after a frame, the message it completed or NoMessage, and
\* whether the frame was one it could take.
Fed(r, message, ok) == [state |-> r, message |-> message, ok |-> ok]

Feed(r, f) ==
  IF \/ f.sar \in {"complete", "first"} /\ InProgress(r)
     \/ f.sar \in {"continuation", "last"} /\ f.type # r.type
  THEN Fed(Reset, NoMessage, FALSE)
  ELSE CASE f.sar = "complete" -> Fed(Reset, [type |-> f.type, payload |-> f.part], TRUE)
         [] f.sar = "last" -> Fed(Reset, [type |-> f.type, payload |-> r.buf \o f.part], TRUE)
         [] OTHER -> Fed([type |-> f.type, buf |-> r.buf \o f.part], NoMessage, TRUE)
=============================================================================
