--------------------- MODULE CollectorReassemblyProofs ---------------------
(***************************************************************************)
(* Proofs about the reassembly in sendUserPacket: when every frame reaches *)
(* the collector and no request needs more than two, the documents are     *)
(* exactly the requests that were sent.  The hypothesis CleanTraffic says  *)
(* what the code needs of the frames, and no more.                         *)
(***************************************************************************)
EXTENDS CollectorProofs

(* A frame without a request: a control frame.                             *)
Control(f) == f.blank /\ f.size <= 4

(* A frame that reaches the reassembly code.                               *)
Data(s, n) == /\ ~FilteredOut(s, n)
              /\ ~FrameOf(s, n).blank
              /\ FrameOf(s, n).len >= 4

(* A request in a frame of its own.                                        *)
Whole(s, n) == /\ n \in Frames(s)
               /\ Data(s, n)
               /\ FrameOf(s, n).len >= FrameOf(s, n).size
               /\ FramesWith(s, FrameOf(s, n).req) = {n}

(* A request in two frames with nothing but control frames in between.     *)
(* What line 189 compares must not be equal: the length of the first and   *)
(* the size that the text of the second reads as.                          *)
Halves(s, m, n) ==
    /\ m \in Frames(s) /\ n \in Frames(s) /\ m < n
    /\ Data(s, m) /\ Data(s, n)
    /\ FramesWith(s, FrameOf(s, m).req) = {m, n}
    /\ FrameOf(s, m).part = 1 /\ FrameOf(s, n).part # 1
    /\ FrameOf(s, m).len < FrameOf(s, m).size
    /\ FrameOf(s, m).len + FrameOf(s, n).len >= FrameOf(s, m).size
    /\ FrameOf(s, m).len # FrameOf(s, n).size
    /\ \A k \in Frames(s) : m < k /\ k < n => Control(FrameOf(s, k))

(* What the reassembly needs of the traffic it can read.                   *)
CleanTraffic ==
    \A s \in Sessions : Readable(s) =>
        \A n \in Frames(s) :
            \/ Control(FrameOf(s, n))
            \/ Whole(s, n)
            \/ \E k \in Frames(s) : Halves(s, n, k) \/ Halves(s, k, n)

(* Nothing is lost before main sees it and nothing expires.                *)
NothingMissing == MaxDrops = 0 /\ ~Expiry
-----------------------------------------------------------------------------
(* The partial request that is stored for session s.                       *)
Stored(s) == mysqlRequestMaps[WorkerOf(s)][s]

(* The worker has taken m, the first half of a request, and not its second.*)
Awaits(s, m) == \E n \in Frames(s) : /\ Halves(s, m, n)
                                     /\ Consumed(s, m) /\ ~Consumed(s, n)

(* What is stored waits for its second half, and what waits is stored.     *)
Waiting(s) ==
    /\ Stored(s) # NoEntry => Readable(s) /\ Awaits(s, Stored(s).n)
    /\ Readable(s) => \A m \in Frames(s) : Awaits(s, m) => Stored(s).n = m

(* The worker takes the frames of a session in their order.                *)
TakenInOrder(s) ==
    Readable(s) => \A m, n \in Frames(s) :
        m < n /\ Data(s, m) /\ Data(s, n) /\ Consumed(s, n) => Consumed(s, m)

(* The requests taken are documents ...                                    *)
Accepted(s, n) ==
    ParsePacket(FrameOf(s, n), FrameOf(s, n).size, onlySelect) # ParseError
Relayed(s, fs) == \E d \in relayed : d.s = s /\ d.frames = fs
Documented(s) ==
    Readable(s) =>
        /\ \A n \in Frames(s) :
              Whole(s, n) /\ Accepted(s, n) /\ Consumed(s, n) => Relayed(s, <<n>>)
        /\ \A m, n \in Frames(s) :
              Halves(s, m, n) /\ Accepted(s, m) /\ Consumed(s, m) /\ Consumed(s, n)
                  => Relayed(s, <<m, n>>)

Reassembles == \A s \in Sessions : Waiting(s) /\ TakenInOrder(s) /\ Documented(s)

(* ... and the documents are requests.                                     *)
DocumentsWhole ==
    \A d \in relayed : d.frames # <<>> =>
        \/ \E n \in Frames(d.s) : Whole(d.s, n) /\ d.frames = <<n>>
        \/ \E m, n \in Frames(d.s) : Halves(d.s, m, n) /\ d.frames = <<m, n>>

(* Nothing is old, so the sweep finds nothing to delete.                   *)
NoneOld ==
    /\ sweepKey = NoSession
    /\ \A w \in Workers, s \in Sessions : ~mysqlRequestMaps[w][s].old

QueueInv == TypeInv /\ ShardInv /\ OrderInv
ReassemblyInv ==
    /\ QueueInv
    /\ CleanTraffic /\ NothingMissing
    /\ NoneOld /\ DocumentsWhole
    /\ proc = "running" => Reassembles
-----------------------------------------------------------------------------
(* Facts about frames and requests.                                        *)

LEMMA FrameNumber ==
    ASSUME NEW s \in Sessions, NEW n \in Frames(s)
    PROVE  n \in Nat /\ n >= 1 /\ FrameOf(s, n) \in Segment
BY TrafficAssumption DEF Frames, FrameOf

(* A half belongs to one request only, and is its first or its second half.*)
LEMMA HalvesApart ==
    ASSUME NEW s \in Sessions, NEW m \in Frames(s), NEW n \in Frames(s), Halves(s, m, n)
    PROVE  /\ ~Whole(s, m) /\ ~Whole(s, n)
           /\ \A k \in Frames(s) : /\ Halves(s, m, k) => k = n
                                   /\ Halves(s, k, n) => k = m
                                   /\ ~Halves(s, k, m) /\ ~Halves(s, n, k)
<1>1. /\ m \in Nat /\ n \in Nat /\ m < n
      /\ FrameOf(s, m) \in Segment /\ FrameOf(s, n) \in Segment
  BY FrameNumber DEF Halves
<1>2. FramesWith(s, FrameOf(s, m).req) = {m, n} /\ FrameOf(s, n).req = FrameOf(s, m).req
  BY DEF Halves, FramesWith
<1>3. ~Whole(s, m) /\ ~Whole(s, n)
  BY <1>1, <1>2 DEF Whole
<1>4. ASSUME NEW k \in Frames(s), Halves(s, m, k) PROVE k = n
  BY <1>1, <1>2, <1>4, FrameNumber DEF Halves
<1>5. ASSUME NEW k \in Frames(s), Halves(s, k, n) PROVE k = m
  <2>1. FramesWith(s, FrameOf(s, k).req) = {k, n} /\ FrameOf(s, n).req = FrameOf(s, k).req
        /\ k \in Nat /\ k < n
    BY <1>5, FrameNumber DEF Halves, FramesWith
  <2>2. QED  BY <1>1, <1>2, <2>1
<1>6. ASSUME NEW k \in Frames(s) PROVE ~Halves(s, k, m) /\ ~Halves(s, n, k)
  BY DEF Halves
<1>7. QED  BY <1>3, <1>4, <1>5, <1>6

(* A frame with data is a request or half of one.                          *)
LEMMA DataKinds ==
    ASSUME CleanTraffic, NEW s \in Sessions, Readable(s), NEW n \in Frames(s), Data(s, n)
    PROVE  \/ Whole(s, n)
           \/ \E k \in Frames(s) : Halves(s, n, k) \/ Halves(s, k, n)
BY DEF CleanTraffic, Control, Data

(* What ParsePacket accepts at the announced size it accepts in full.      *)
LEMMA AcceptedInFull ==
    ASSUME NEW s \in Sessions, NEW n \in Frames(s), Accepted(s, n),
           NEW len \in Nat, len >= FrameOf(s, n).size
    PROVE  ParsePacket(FrameOf(s, n), len, onlySelect) # ParseError
<1>1. FrameOf(s, n).size \in Nat
  BY FrameNumber DEF Segment
<1>2. QED  BY <1>1 DEF Accepted, ParsePacket, ParseError

(* Complete data: the document, if ParsePacket accepts it.                 *)
LEMMA RelayDocument ==
    ASSUME NEW w, NEW s, NEW fs, NEW len, Relay(w, s, fs, len)
    PROVE  /\ \/ relayed' = relayed
              \/ \E d : relayed' = relayed \union {d} /\ d.s = s /\ d.frames = fs
           /\ ParsePacket(FrameOf(s, Head(fs)), len, onlySelect) # ParseError =>
                 Relayed(s, fs)'
BY DEF Relay, Enqueue, Relayed
-----------------------------------------------------------------------------
(* What the steps do to the frames the worker has taken.                   *)

(* No frame of q is frame n of s; the first and the last packet apart.     *)
LEMMA TailCarries ==
    ASSUME NEW q \in Seq(Packet), q # <<>>, NEW s, NEW n
    PROVE  (\A i \in DOMAIN q : ~Carries(q[i], s, n)) <=>
              /\ ~Carries(Head(q), s, n)
              /\ \A i \in DOMAIN Tail(q) : ~Carries(Tail(q)[i], s, n)
<1>1. /\ Head(q) = q[1] /\ 1 \in DOMAIN q
      /\ \A i \in DOMAIN Tail(q) : i + 1 \in DOMAIN q /\ Tail(q)[i] = q[i + 1]
  BY TailElements
<1>2. \A i \in DOMAIN q : i = 1 \/ (i - 1 \in DOMAIN Tail(q) /\ Tail(q)[i - 1] = q[i])
  OBVIOUS
<1>3. QED  BY <1>1, <1>2

LEMMA AppendCarries ==
    ASSUME NEW q \in Seq(Packet), NEW x \in Packet, NEW s, NEW n
    PROVE  (\A i \in DOMAIN Append(q, x) : ~Carries(Append(q, x)[i], s, n)) <=>
              /\ ~Carries(x, s, n)
              /\ \A i \in DOMAIN q : ~Carries(q[i], s, n)
<1>1. /\ Append(q, x)[Len(q) + 1] = x /\ Len(q) + 1 \in DOMAIN Append(q, x)
      /\ \A i \in DOMAIN q : i \in DOMAIN Append(q, x) /\ Append(q, x)[i] = q[i]
      /\ \A i \in DOMAIN Append(q, x) : i \in DOMAIN q \/ i = Len(q) + 1
  OBVIOUS
<1>2. QED  BY <1>1

(* The worker has taken the same frames with data as before.               *)
SameTaken(s) ==
    Readable(s) => \A n \in Frames(s) : Data(s, n) => (Consumed(s, n)' <=> Consumed(s, n))

LEMMA TransmitTakes ==
    ASSUME QueueInv, NEW s \in Sessions, CaptureNext(s), NEW r \in Sessions
    PROVE  SameTaken(r)
<1> SUFFICES ASSUME NEW n \in Frames(r), Data(r, n)
             PROVE  Consumed(r, n)' <=> Consumed(r, n)
  BY DEF SameTaken
<1>1. /\ sent \in [Sessions -> Nat] /\ sent' = [sent EXCEPT ![s] = @ + 1]
      /\ pending = NoPacket /\ UNCHANGED mysqlPacketChannels
      /\ pending' = IF FilteredOut(s, sent[s] + 1)
                    THEN NoPacket ELSE RawPacket(s, sent[s] + 1)
  BY DEF CaptureNext, Transmit, QueueInv, TypeInv, TypeOK
<1>2. n \in Nat /\ ~FilteredOut(r, n)
  BY FrameNumber DEF Data
<1>3. ~Carries(NoPacket, r, n)
  BY SessionsAssumption DEF Carries, NoPacket
<1>4. Carries(RawPacket(s, sent[s] + 1), r, n) <=> r = s /\ n = sent[s] + 1
  BY DEF Carries, RawPacket
<1>5. CASE r = s /\ n = sent[s] + 1
  BY <1>1, <1>2, <1>4, <1>5 DEF Consumed
<1>6. CASE ~(r = s /\ n = sent[s] + 1)
  <2>1. n <= sent'[r] <=> n <= sent[r]
    BY <1>1, <1>2, <1>6
  <2>2. ~Carries(pending, r, n) /\ ~Carries(pending', r, n)
    BY <1>1, <1>3, <1>4, <1>6
  <2>3. QED  BY <1>1, <2>1, <2>2 DEF Consumed
<1>7. QED  BY <1>5, <1>6

LEMMA SendTakes ==
    ASSUME QueueInv, AssembleUserPacket, NEW r \in Sessions
    PROVE  SameTaken(r)
<1> SUFFICES ASSUME NEW n \in Frames(r)
             PROVE  Consumed(r, n)' <=> Consumed(r, n)
  BY DEF SameTaken
<1>1. pending \in Packet /\ pending.s \in Sessions
  BY DEF AssembleUserPacket, QueueInv, TypeInv, TypeOK, Packet
<1> DEFINE w == WorkerOf(pending.s)
<1>2. /\ mysqlPacketChannels \in [Workers -> Seq(Packet)] /\ w \in Workers
      /\ WorkerOf(r) \in Workers
      /\ mysqlPacketChannels' = [mysqlPacketChannels EXCEPT ![w] = Append(@, pending)]
      /\ pending' = NoPacket /\ sent' = sent
  BY <1>1, WorkerIndex DEF AssembleUserPacket, QueueInv, TypeInv, TypeOK
<1>3. ~Carries(pending', r, n)
  BY <1>2, SessionsAssumption DEF Carries, NoPacket
<1> HIDE DEF w
<1>4. CASE WorkerOf(r) = w
  <2>1. mysqlPacketChannels'[w] = Append(mysqlPacketChannels[w], pending)
    BY <1>2
  <2>2. (\A i \in DOMAIN mysqlPacketChannels'[w] :
            ~Carries(mysqlPacketChannels'[w][i], r, n)) <=>
        /\ ~Carries(pending, r, n)
        /\ \A i \in DOMAIN mysqlPacketChannels[w] :
              ~Carries(mysqlPacketChannels[w][i], r, n)
    BY <1>1, <1>2, <2>1, AppendCarries
  <2>3. QED  BY <1>2, <1>3, <1>4, <2>2 DEF Consumed
<1>5. CASE WorkerOf(r) # w
  <2>1. mysqlPacketChannels'[WorkerOf(r)] = mysqlPacketChannels[WorkerOf(r)]
    BY <1>2, <1>5
  <2>2. ~Carries(pending, r, n)
    BY <1>5 DEF Carries, w
  <2>3. QED  BY <1>2, <1>3, <2>1, <2>2 DEF Consumed
<1>6. QED  BY <1>4, <1>5

LEMMA ListTakes ==
    ASSUME QueueInv, NEW s \in Sessions, SendConnectionDefaultDatabase(s),
           NEW r \in Sessions
    PROVE  SameTaken(r)
<1> SUFFICES ASSUME NEW n \in Frames(r)
             PROVE  Consumed(r, n)' <=> Consumed(r, n)
  BY DEF SameTaken
<1> DEFINE p == ParsedPacket(s, connections[s])
           w == ConnectionWorker(s)
<1>1. p \in Packet /\ ~Carries(p, r, n)
  BY DEF Packet, ParsedPacket, Carries, QueueInv, TypeInv, TypeOK
<1>2. /\ mysqlPacketChannels \in [Workers -> Seq(Packet)] /\ w \in Workers
      /\ WorkerOf(r) \in Workers
      /\ mysqlPacketChannels' = [mysqlPacketChannels EXCEPT ![w] = Append(@, p)]
      /\ UNCHANGED <<pending, sent>>
  BY WorkerIndex DEF SendConnectionDefaultDatabase, captureVars, QueueInv, TypeInv, TypeOK
<1> HIDE DEF p, w
<1>3. CASE WorkerOf(r) = w
  <2>1. mysqlPacketChannels'[w] = Append(mysqlPacketChannels[w], p)
    BY <1>2
  <2>2. (\A i \in DOMAIN mysqlPacketChannels'[w] :
            ~Carries(mysqlPacketChannels'[w][i], r, n)) <=>
        \A i \in DOMAIN mysqlPacketChannels[w] :
            ~Carries(mysqlPacketChannels[w][i], r, n)
    BY <1>1, <1>2, <2>1, AppendCarries
  <2>3. QED  BY <1>2, <1>3, <2>2 DEF Consumed
<1>4. CASE WorkerOf(r) # w
  BY <1>2, <1>4 DEF Consumed
<1>5. QED  BY <1>3, <1>4

(* A receive takes the head of the channel and nothing else.               *)
LEMMA ReceiveTakes ==
    ASSUME QueueInv, NEW w \in Workers, Receive(w), NEW r \in Sessions,
           NEW n \in Frames(r), ~Carries(Received(w), r, n)
    PROVE  Consumed(r, n)' <=> Consumed(r, n)
<1>1. /\ mysqlPacketChannels \in [Workers -> Seq(Packet)] /\ WorkerOf(r) \in Workers
      /\ mysqlPacketChannels[w] # <<>>
      /\ mysqlPacketChannels' = [mysqlPacketChannels EXCEPT ![w] = Tail(@)]
      /\ UNCHANGED <<pending, sent>>
  BY WorkerIndex DEF Receive, captureVars, QueueInv, TypeInv, TypeOK
<1>2. CASE WorkerOf(r) = w
  <2>1. (\A i \in DOMAIN mysqlPacketChannels'[w] :
            ~Carries(mysqlPacketChannels'[w][i], r, n)) <=>
        \A i \in DOMAIN mysqlPacketChannels[w] :
            ~Carries(mysqlPacketChannels[w][i], r, n)
    <3>1. mysqlPacketChannels'[w] = Tail(mysqlPacketChannels[w])
      BY <1>1
    <3>2. QED  BY <1>1, <3>1, TailCarries DEF Received
  <2>2. QED  BY <1>1, <1>2, <2>1 DEF Consumed
<1>3. CASE WorkerOf(r) # w
  BY <1>1, <1>3 DEF Consumed
<1>4. QED  BY <1>2, <1>3

(* The frame at the head of the channel has not been taken before, and all *)
(* earlier frames of its session have.                                     *)
LEMMA FrameReceived ==
    ASSUME QueueInv, NEW w \in Workers, Receive(w), ~Received(w).IsParsed,
           NEW s, NEW n, s = Received(w).s, n = Received(w).n
    PROVE  /\ s \in Sessions /\ n \in Frames(s) /\ WorkerOf(s) = w
           /\ mysqlRequestMaps[w][s].n < n
           /\ ~Consumed(s, n) /\ Consumed(s, n)'
           /\ \A r \in Sessions : \A k \in Frames(r) :
                 r # s \/ k # n => (Consumed(r, k)' <=> Consumed(r, k))
           /\ \A k \in Frames(s) : k < n => Consumed(s, k)
<1> DEFINE q == mysqlPacketChannels[w]
<1>1. /\ TypeInv /\ ShardInv /\ OrderInv
      /\ q \in Seq(Packet) /\ q # <<>>
      /\ mysqlPacketChannels'[w] = Tail(q) /\ UNCHANGED <<pending, sent>>
  BY DEF Receive, captureVars, QueueInv, TypeInv, TypeOK
<1>2. /\ 1 \in DOMAIN q /\ Received(w) = q[1] /\ Received(w) = Head(q)
      /\ \A i \in DOMAIN Tail(q) : i + 1 \in DOMAIN q /\ i + 1 > 1 /\ Tail(q)[i] = q[i + 1]
  BY <1>1, TailElements DEF Received
<1>3. s \in Sessions /\ n \in 1 .. sent[s] /\ sent[s] \in Nat
  BY <1>1, ReceivedType DEF Packet, TypeInv, TypeOK
<1>4. n \in Frames(s) /\ n \in Nat
  <2>1. sent[s] <= Len(Traffic[s])
    BY <1>1, <1>3 DEF TypeInv, TypeOK
  <2>2. Traffic[s] \in Seq(Segment)
    BY <1>3, TrafficAssumption
  <2>3. Len(Traffic[s]) \in Nat
    BY <2>2
  <2>4. QED  BY <1>3, <2>1, <2>3 DEF Frames
<1>5. WorkerOf(s) = w
  BY <1>1, <1>2 DEF ShardInv, ShardOwnership
<1>6. /\ mysqlRequestMaps[w][s].n < n
      /\ \A j \in DOMAIN q : j > 1 /\ ~q[j].IsParsed /\ q[j].s = s => n < q[j].n
  BY <1>1, <1>2 DEF OrderInv, ChannelOrder
<1>7. pending # NoPacket /\ pending.s = s => n < pending.n
  BY <1>1, <1>2 DEF OrderInv, PendingOrder
<1> HIDE DEF q
<1>8. Carries(Received(w), s, n)
  BY DEF Carries
<1>9. ~Consumed(s, n)
  BY <1>2, <1>5, <1>8 DEF Consumed, q
<1>10. \A k \in Frames(s) : k <= n => ~Carries(pending, s, k)
  <2>1. ASSUME NEW k \in Frames(s), k <= n, Carries(pending, s, k) PROVE FALSE
    <3>1. pending # NoPacket
      BY <1>3, <2>1, SessionsAssumption DEF Carries, NoPacket
    <3>2. pending.s = s /\ pending.n = k /\ k \in Nat
      BY <1>3, <2>1, FrameNumber DEF Carries
    <3>3. QED  BY <1>4, <1>7, <2>1, <3>1, <3>2
  <2>2. QED  BY <2>1
<1>11. \A k \in Frames(s) : k <= n =>
          \A j \in DOMAIN q : j > 1 => ~Carries(q[j], s, k)
  BY <1>3, <1>4, <1>6, FrameNumber DEF Carries
<1>12. Consumed(s, n)'
  <2>1. \A i \in DOMAIN Tail(q) : ~Carries(Tail(q)[i], s, n)
    BY <1>2, <1>4, <1>11
  <2>2. n <= sent'[s] /\ ~Carries(pending', s, n)
    BY <1>1, <1>3, <1>4, <1>10
  <2>3. QED  BY <1>1, <1>5, <2>1, <2>2 DEF Consumed
<1>13. ASSUME NEW k \in Frames(s), k < n PROVE Consumed(s, k)
  <2>1. k \in Nat /\ k <= n /\ k <= sent[s]
    BY <1>3, <1>4, <1>13, FrameNumber
  <2>2. ~Carries(pending, s, k) /\ \A j \in DOMAIN q : j > 1 => ~Carries(q[j], s, k)
    BY <1>10, <1>11, <2>1
  <2>3. ~Carries(q[1], s, k)
    BY <1>2, <1>4, <1>13, <2>1 DEF Carries
  <2>4. \A j \in DOMAIN q : j = 1 \/ j > 1
    BY <1>1
  <2>5. \A j \in DOMAIN q : ~Carries(q[j], s, k)
    BY <2>2, <2>3, <2>4
  <2>6. QED  BY <1>5, <2>1, <2>2, <2>5 DEF Consumed, q
<1>14. ASSUME NEW r \in Sessions, NEW k \in Frames(r), r # s \/ k # n
       PROVE  Consumed(r, k)' <=> Consumed(r, k)
  <2>1. ~Carries(Received(w), r, k)
    BY <1>14 DEF Carries
  <2>2. QED  BY <2>1, ReceiveTakes
<1>15. QED
  BY <1>3, <1>4, <1>5, <1>6, <1>9, <1>12, <1>13, <1>14
-----------------------------------------------------------------------------
(* The steps that keep the invariant.                                      *)

(* A session of which nothing is taken.                                    *)
LEMMA SessionUntouched ==
    ASSUME NEW s \in Sessions, Waiting(s), TakenInOrder(s), Documented(s),
           SameTaken(s), Stored(s)' = Stored(s), relayed \subseteq relayed'
    PROVE  Waiting(s)' /\ TakenInOrder(s)' /\ Documented(s)'
<1>1. \A fs : Relayed(s, fs) => Relayed(s, fs)'
  BY DEF Relayed
<1>2. \A n \in Frames(s) : Whole(s, n) => Data(s, n)
  BY DEF Whole
<1>3. \A m, n \in Frames(s) : Halves(s, m, n) => Data(s, m) /\ Data(s, n)
  BY DEF Halves
<1>4. Readable(s) => \A m \in Frames(s) : Awaits(s, m)' <=> Awaits(s, m)
  BY <1>3 DEF Awaits, SameTaken
<1>5. Readable(s) => \A m : Awaits(s, m) => m \in Frames(s)
  BY DEF Awaits, Halves
<1>6. Waiting(s)'
  BY <1>4, <1>5 DEF Waiting
<1>7. TakenInOrder(s)'
  BY DEF TakenInOrder, SameTaken
<1>8. Documented(s)'
  BY <1>1, <1>2, <1>3 DEF Documented, SameTaken
<1>9. QED  BY <1>6, <1>7, <1>8

(* Nothing is taken from a channel, or nothing with data.                  *)
LEMMA NothingTaken ==
    ASSUME ReassemblyInv, QueueInv', \A s \in Sessions : SameTaken(s),
           UNCHANGED <<mysqlRequestMaps, relayed>>, sweepKey' = NoSession,
           proc' = "running" => proc = "running"
    PROVE  ReassemblyInv'
<1>1. NoneOld' /\ DocumentsWhole'
  BY DEF ReassemblyInv, NoneOld, DocumentsWhole
<1>2. ASSUME proc' = "running" PROVE Reassembles'
  <2>1. \A s \in Sessions : Stored(s)' = Stored(s)
    BY DEF Stored
  <2>2. QED  BY <1>2, <2>1, SessionUntouched DEF Reassembles, ReassemblyInv
<1>3. CleanTraffic' /\ NothingMissing'
  BY DEF ReassemblyInv, NothingMissing
<1>4. QED  BY <1>1, <1>2, <1>3 DEF ReassemblyInv

(* A frame with data: whether a partial request is stored, and which.      *)
LEMMA StoredThen ==
    ASSUME ReassemblyInv, NEW w \in Workers, Receive(w), ~Received(w).IsParsed,
           NEW s, NEW n, s = Received(w).s, n = Received(w).n,
           Readable(s), Data(s, n)
    PROVE  /\ Stored(s) = mysqlRequestMaps[w][s] /\ ~Stored(s).old
           /\ Stored(s).n \in Nat /\ (Stored(s).n = 0 <=> Stored(s) = NoEntry)
           /\ \/ Whole(s, n) /\ Stored(s) = NoEntry
              \/ \E k \in Frames(s) : Halves(s, n, k) /\ Stored(s) = NoEntry
              \/ \E k \in Frames(s) : Halves(s, k, n) /\ Stored(s).n = k
<1>1. /\ s \in Sessions /\ n \in Frames(s) /\ WorkerOf(s) = w
      /\ mysqlRequestMaps[w][s].n < n /\ ~Consumed(s, n)
      /\ \A k \in Frames(s) : k < n => Consumed(s, k)
  BY FrameReceived DEF ReassemblyInv
<1>2. Stored(s) = mysqlRequestMaps[w][s] /\ ~Stored(s).old
  BY <1>1 DEF Stored, ReassemblyInv, NoneOld
<1>3. Stored(s).n \in Nat /\ (Stored(s).n = 0 <=> Stored(s) = NoEntry)
  <2>1. mysqlRequestMaps[w][s] \in Entry
    BY <1>1 DEF ReassemblyInv, QueueInv, TypeInv, TypeOK
  <2>2. mysqlRequestMaps[w][s].n = 0 => mysqlRequestMaps[w][s] = NoEntry
    BY <1>1 DEF ReassemblyInv, QueueInv, TypeInv, FrameRefs
  <2>3. QED  BY <1>2, <2>1, <2>2 DEF Entry, NoEntry
<1>4. Waiting(s)
  BY <1>1 DEF Receive, ReassemblyInv, Reassembles
<1>5. ASSUME Stored(s) # NoEntry PROVE Stored(s).n \in Frames(s) /\ Halves(s, Stored(s).n, n)
  <2>1. PICK j \in Frames(s) : Halves(s, Stored(s).n, j) /\ ~Consumed(s, j)
    BY <1>4, <1>5 DEF Waiting, Awaits
  <2>2. n \in Nat /\ j \in Nat /\ j >= n
    BY <1>1, <2>1, FrameNumber
  <2>3. ~(n < j)
    BY <1>1, <1>2, <2>1 DEF Halves, Control, Data
  <2>4. QED  BY <2>1, <2>2, <2>3 DEF Halves
<1>6. ASSUME NEW k \in Frames(s), Halves(s, k, n) PROVE Stored(s).n = k
  <2>1. Consumed(s, k)
    BY <1>1, <1>6 DEF Halves
  <2>2. QED  BY <1>1, <1>4, <1>6, <2>1 DEF Waiting, Awaits
<1>7. ASSUME Whole(s, n) PROVE Stored(s) = NoEntry
  BY <1>1, <1>5, <1>7, HalvesApart
<1>8. ASSUME NEW k \in Frames(s), Halves(s, n, k) PROVE Stored(s) = NoEntry
  BY <1>1, <1>5, <1>8, HalvesApart
<1>9. QED
  BY <1>1, <1>2, <1>3, <1>6, <1>7, <1>8, DataKinds DEF ReassemblyInv

(* The frames of session s that the worker has taken, with frame n new.    *)
Takes(s, n) ==
    /\ ~Consumed(s, n) /\ Consumed(s, n)'
    /\ \A k \in Frames(s) : k # n => (Consumed(s, k)' <=> Consumed(s, k))
    /\ \A k \in Frames(s) : k < n => Consumed(s, k)

LEMMA TakesInOrder ==
    ASSUME NEW s \in Sessions, NEW n \in Frames(s), Takes(s, n), TakenInOrder(s)
    PROVE  TakenInOrder(s)'
<1> SUFFICES ASSUME Readable(s), NEW i \in Frames(s), NEW j \in Frames(s), i < j,
                    Data(s, i), Data(s, j), Consumed(s, j)'
             PROVE  Consumed(s, i)'
  BY DEF TakenInOrder
<1>1. CASE j = n
  BY <1>1 DEF Takes
<1>2. CASE j # n
  BY <1>2 DEF Takes, TakenInOrder
<1>3. QED  BY <1>1, <1>2

(* A whole request is taken.                                               *)
LEMMA WholeTaken ==
    ASSUME NEW s \in Sessions, NEW n \in Frames(s), Takes(s, n), Readable(s),
           Whole(s, n), Stored(s) = NoEntry, Stored(s)' = NoEntry,
           Waiting(s), Documented(s), relayed \subseteq relayed',
           Accepted(s, n) => Relayed(s, <<n>>)'
    PROVE  Waiting(s)' /\ Documented(s)'
<1>1. \A fs : Relayed(s, fs) => Relayed(s, fs)'
  BY DEF Relayed
<1>2. \A i, j \in Frames(s) : Halves(s, i, j) => i # n /\ j # n
  BY HalvesApart
<1>3. ASSUME NEW m \in Frames(s), Awaits(s, m)' PROVE FALSE
  <2>1. Awaits(s, m)
    BY <1>2, <1>3 DEF Awaits, Takes
  <2>2. m = 0 /\ m >= 1
    BY <2>1, FrameNumber DEF Waiting, NoEntry
  <2>3. QED  BY <2>2
<1>4. Waiting(s)'
  BY <1>3 DEF Waiting
<1>5. ASSUME NEW k \in Frames(s), Whole(s, k), Accepted(s, k), Consumed(s, k)'
      PROVE  Relayed(s, <<k>>)'
  BY <1>1, <1>5 DEF Takes, Documented
<1>6. ASSUME NEW i \in Frames(s), NEW j \in Frames(s), Halves(s, i, j), Accepted(s, i),
             Consumed(s, i)', Consumed(s, j)'
      PROVE  Relayed(s, <<i, j>>)'
  BY <1>1, <1>2, <1>6 DEF Takes, Documented
<1>7. QED  BY <1>4, <1>5, <1>6 DEF Documented

(* A first half is taken and stored.                                       *)
LEMMA FirstHalfTaken ==
    ASSUME NEW s \in Sessions, NEW n \in Frames(s), Takes(s, n), Readable(s),
           NEW k \in Frames(s), Halves(s, n, k), Stored(s) = NoEntry,
           Stored(s)' = [n |-> n, old |-> FALSE],
           Waiting(s), TakenInOrder(s), Documented(s), UNCHANGED relayed
    PROVE  Waiting(s)' /\ Documented(s)'
<1>1. \A fs : Relayed(s, fs) => Relayed(s, fs)'
  BY DEF Relayed
<1>2. n < k /\ Data(s, n) /\ Data(s, k) /\ n \in Nat /\ k \in Nat
  BY FrameNumber DEF Halves
<1>3. ~Consumed(s, k)'
  BY <1>2 DEF Takes, TakenInOrder
<1>4. \A i, j \in Frames(s) : Halves(s, i, j) => j # n /\ (i = n => j = k)
  BY HalvesApart
<1>5. ASSUME NEW m \in Frames(s), Awaits(s, m)', m # n PROVE FALSE
  <2>1. Awaits(s, m)
    BY <1>4, <1>5 DEF Awaits, Takes
  <2>2. m = 0 /\ m >= 1
    BY <2>1, FrameNumber DEF Waiting, NoEntry
  <2>3. QED  BY <2>2
<1>6. Awaits(s, n)'
  BY <1>3 DEF Awaits, Takes
<1>7. Waiting(s)'
  BY <1>5, <1>6 DEF Waiting
<1>8. ASSUME NEW j \in Frames(s), Whole(s, j), Accepted(s, j), Consumed(s, j)'
      PROVE  Relayed(s, <<j>>)'
  <2>1. j # n
    BY <1>8, HalvesApart
  <2>2. QED  BY <1>1, <1>8, <2>1 DEF Takes, Documented
<1>9. ASSUME NEW i \in Frames(s), NEW j \in Frames(s), Halves(s, i, j), Accepted(s, i),
             Consumed(s, i)', Consumed(s, j)'
      PROVE  Relayed(s, <<i, j>>)'
  <2>1. i # n /\ j # n
    BY <1>3, <1>4, <1>9
  <2>2. QED  BY <1>1, <1>9, <2>1 DEF Takes, Documented
<1>10. QED  BY <1>7, <1>8, <1>9 DEF Documented

(* A second half is taken and put behind the first.                        *)
LEMMA SecondHalfTaken ==
    ASSUME NEW s \in Sessions, NEW n \in Frames(s), Takes(s, n), Readable(s),
           NEW k \in Frames(s), Halves(s, k, n), Stored(s).n = k,
           Stored(s)' = NoEntry,
           Waiting(s), Documented(s), relayed \subseteq relayed',
           Accepted(s, k) => Relayed(s, <<k, n>>)'
    PROVE  Waiting(s)' /\ Documented(s)'
<1>1. \A fs : Relayed(s, fs) => Relayed(s, fs)'
  BY DEF Relayed
<1>2. \A i, j \in Frames(s) : Halves(s, i, j) => /\ i # n /\ (j = n => i = k)
                                                 /\ i = k => j = n
  BY HalvesApart
<1>3. ASSUME NEW m \in Frames(s), Awaits(s, m)' PROVE FALSE
  <2>1. PICK j \in Frames(s) : Halves(s, m, j) /\ Consumed(s, m)' /\ ~Consumed(s, j)'
    BY <1>3 DEF Awaits
  <2>2. m # n /\ j # n
    BY <1>2, <2>1 DEF Takes
  <2>3. Awaits(s, m)
    BY <2>1, <2>2 DEF Awaits, Takes
  <2>4. m = k
    BY <2>3 DEF Waiting
  <2>5. QED  BY <1>2, <2>1, <2>2, <2>4
<1>4. Waiting(s)'
  BY <1>3 DEF Waiting
<1>5. ASSUME NEW j \in Frames(s), Whole(s, j), Accepted(s, j), Consumed(s, j)'
      PROVE  Relayed(s, <<j>>)'
  <2>1. j # n
    BY <1>5, HalvesApart
  <2>2. QED  BY <1>1, <1>5, <2>1 DEF Takes, Documented
<1>6. ASSUME NEW i \in Frames(s), NEW j \in Frames(s), Halves(s, i, j), Accepted(s, i),
             Consumed(s, i)', Consumed(s, j)'
      PROVE  Relayed(s, <<i, j>>)'
  <2>1. CASE j = n
    BY <1>2, <1>6, <2>1
  <2>2. CASE j # n
    BY <1>1, <1>2, <1>6, <2>2 DEF Takes, Documented
  <2>3. QED  BY <2>1, <2>2
<1>7. QED  BY <1>4, <1>5, <1>6 DEF Documented

(* What the taking of frame n of s does elsewhere.                         *)
LEMMA TakenKeeps ==
    ASSUME ReassemblyInv, QueueInv', proc = "running", sweepKey' = sweepKey,
           NEW s \in Sessions, NEW n \in Frames(s), Takes(s, n),
           \A r \in Sessions \ {s} : SameTaken(r),
           NEW e \in Entry, ~e.old,
           mysqlRequestMaps' = [mysqlRequestMaps EXCEPT ![WorkerOf(s)][s] = e],
           relayed \subseteq relayed', DocumentsWhole',
           Stored(s)' = e => Waiting(s)' /\ Documented(s)'
    PROVE  ReassemblyInv'
<1>1. mysqlRequestMaps \in [Workers -> [Sessions -> Entry]]
  BY DEF ReassemblyInv, QueueInv, TypeInv, TypeOK
<1>2. \A w \in Workers, r \in Sessions :
          mysqlRequestMaps'[w][r] = IF w = WorkerOf(s) /\ r = s THEN e
                                    ELSE mysqlRequestMaps[w][r]
  BY <1>1
<1>3. \A r \in Sessions : WorkerOf(r) \in Workers
  BY WorkerIndex
<1>4. Stored(s)' = e /\ \A r \in Sessions \ {s} : Stored(r)' = Stored(r)
  BY <1>2, <1>3 DEF Stored
<1>5. NoneOld'
  BY <1>2 DEF ReassemblyInv, NoneOld
<1>6. \A r \in Sessions \ {s} : Waiting(r)' /\ TakenInOrder(r)' /\ Documented(r)'
  BY <1>4, SessionUntouched DEF ReassemblyInv, Reassembles
<1>7. TakenInOrder(s)'
  BY TakesInOrder DEF ReassemblyInv, Reassembles
<1>8. Reassembles'
  BY <1>4, <1>6, <1>7 DEF Reassembles
<1>9. CleanTraffic' /\ NothingMissing'
  BY DEF ReassemblyInv, NothingMissing
<1>10. QED  BY <1>5, <1>8, <1>9 DEF ReassemblyInv

(* The document of a request that is put in the batch is that request.     *)
LEMMA RelayKeepsWhole ==
    ASSUME DocumentsWhole, NEW w, NEW s, NEW fs, NEW len, Relay(w, s, fs, len),
           \/ \E n \in Frames(s) : Whole(s, n) /\ fs = <<n>>
           \/ \E m, n \in Frames(s) : Halves(s, m, n) /\ fs = <<m, n>>
    PROVE  DocumentsWhole' /\ relayed \subseteq relayed'
<1>1. \/ relayed' = relayed
      \/ \E d : relayed' = relayed \union {d} /\ d.s = s /\ d.frames = fs
  BY RelayDocument
<1>2. QED  BY <1>1 DEF DocumentsWhole

(* A frame reaches the reassembly code.                                    *)
LEMMA DataTaken ==
    ASSUME ReassemblyInv, QueueInv', NEW w \in Workers,
           ReceiveAndAssemble(w) \/ ReceiveAlone(w)
    PROVE  ReassemblyInv'
<1>1. ReceiveData(w)
  BY DEF ReceiveAndAssemble, ReceiveAlone
<1>2. /\ Receive(w) /\ ~Received(w).IsParsed /\ ~Ignored(Received(w))
      /\ proc = "running" /\ sweepKey' = sweepKey
  BY <1>1 DEF ReceiveData, Receive, statusVars
<1>3. PICK s, n : s = Received(w).s /\ n = Received(w).n
  OBVIOUS
<1>4. /\ s \in Sessions /\ n \in Frames(s) /\ WorkerOf(s) = w
      /\ ~Consumed(s, n) /\ Consumed(s, n)'
      /\ \A r \in Sessions : \A k \in Frames(r) :
            r # s \/ k # n => (Consumed(r, k)' <=> Consumed(r, k))
      /\ \A k \in Frames(s) : k < n => Consumed(s, k)
  BY <1>2, <1>3, FrameReceived DEF ReassemblyInv
<1>5. Takes(s, n)
  BY <1>4 DEF Takes
<1>6. \A r \in Sessions \ {s} : SameTaken(r)
  BY <1>4 DEF SameTaken
<1>7. Readable(s) /\ ~FrameOf(s, n).blank
  BY <1>2, <1>3 DEF Ignored
<1>8. Data(s, n)
  BY <1>4, <1>7 DEF ReassemblyInv, CleanTraffic, Control, Whole, Halves
<1>9. /\ Stored(s) = mysqlRequestMaps[w][s] /\ ~Stored(s).old
      /\ Stored(s).n \in Nat /\ (Stored(s).n = 0 <=> Stored(s) = NoEntry)
      /\ \/ Whole(s, n) /\ Stored(s) = NoEntry
         \/ \E k \in Frames(s) : Halves(s, n, k) /\ Stored(s) = NoEntry
         \/ \E k \in Frames(s) : Halves(s, k, n) /\ Stored(s).n = k
  BY <1>2, <1>3, <1>7, <1>8, StoredThen
<1>10. /\ Waiting(s) /\ TakenInOrder(s) /\ Documented(s) /\ DocumentsWhole
  BY <1>2, <1>4 DEF ReassemblyInv, Reassembles
<1>11. n \in Nat /\ FrameOf(s, n).len \in Nat /\ FrameOf(s, n).size \in Nat
  BY <1>4, FrameNumber DEF Segment
<1>12. NoEntry \in Entry /\ ~NoEntry.old
  BY DEF Entry, NoEntry
<1>13. ASSUME Stored(s) = NoEntry PROVE ReceiveAlone(w)
  BY <1>3, <1>9, <1>13 DEF ReceiveAndAssemble
<1>14. CASE Whole(s, n) /\ Stored(s) = NoEntry
  <2>1. FrameOf(s, n).len >= FrameOf(s, n).size
    BY <1>14 DEF Whole
  <2>2. /\ Relay(w, s, <<n>>, FrameOf(s, n).len)
        /\ mysqlRequestMaps' = [mysqlRequestMaps EXCEPT ![w][s] = NoEntry]
    BY <1>3, <1>13, <1>14, <2>1 DEF ReceiveAlone, Forget
  <2>3. DocumentsWhole' /\ relayed \subseteq relayed'
    BY <1>4, <1>10, <1>14, <2>2, RelayKeepsWhole
  <2>4. Accepted(s, n) => Relayed(s, <<n>>)'
    <3>1. Accepted(s, n) =>
              ParsePacket(FrameOf(s, n), FrameOf(s, n).len, onlySelect) # ParseError
      BY <1>4, <1>11, <2>1, AcceptedInFull
    <3>2. Head(<<n>>) = n
      OBVIOUS
    <3>3. QED  BY <2>2, <3>1, <3>2, RelayDocument
  <2>5. Stored(s)' = NoEntry => Waiting(s)' /\ Documented(s)'
    BY <1>4, <1>5, <1>7, <1>10, <1>14, <2>3, <2>4, WholeTaken
  <2>6. QED
    BY <1>2, <1>4, <1>5, <1>6, <1>12, <2>2, <2>3, <2>5, TakenKeeps
<1>15. ASSUME NEW k \in Frames(s), Halves(s, n, k), Stored(s) = NoEntry
       PROVE  ReassemblyInv'
  <2> DEFINE e == [n |-> n, old |-> FALSE]
  <2>1. ~(FrameOf(s, n).len >= FrameOf(s, n).size)
    BY <1>11, <1>15 DEF Halves
  <2>2. /\ mysqlRequestMaps' = [mysqlRequestMaps EXCEPT ![w][s] = e]
        /\ relayed' = relayed
    BY <1>3, <1>13, <1>15, <2>1 DEF ReceiveAlone
  <2>3. e \in Entry /\ ~e.old
    BY <1>11 DEF Entry
  <2>4. DocumentsWhole'
    BY <1>10, <2>2 DEF DocumentsWhole
  <2>5. Stored(s)' = e => Waiting(s)' /\ Documented(s)'
    BY <1>4, <1>5, <1>7, <1>10, <1>15, <2>2, FirstHalfTaken
  <2> HIDE DEF e
  <2>6. QED
    BY <1>2, <1>4, <1>5, <1>6, <2>2, <2>3, <2>4, <2>5, TakenKeeps
<1>16. ASSUME NEW k \in Frames(s), Halves(s, k, n), Stored(s).n = k
       PROVE  ReassemblyInv'
  <2>1. /\ k \in Nat /\ k >= 1
        /\ FrameOf(s, k).len \in Nat /\ FrameOf(s, k).size \in Nat
    BY <1>4, FrameNumber DEF Segment
  <2>2. Stored(s) # NoEntry
    BY <1>9, <1>16, <2>1
  <2>3. Discards(s, Stored(s), n) = 0
    BY <1>9, <1>16 DEF Discards, TooOld, SizeMatches, Halves
  <2>4. ReceiveAndAssemble(w)
    BY <1>3, <1>9, <2>2, <2>3 DEF ReceiveAlone
  <2> DEFINE len == FrameOf(s, k).len + FrameOf(s, n).len
  <2>5. len >= FrameOf(s, k).size /\ len \in Nat
    BY <1>11, <1>16, <2>1 DEF Halves
  <2>6. /\ Relay(w, s, <<k, n>>, len)
        /\ mysqlRequestMaps' = [mysqlRequestMaps EXCEPT ![w][s] = NoEntry]
    BY <1>3, <1>9, <1>16, <2>4, <2>5 DEF ReceiveAndAssemble, Forget
  <2> HIDE DEF len
  <2>7. DocumentsWhole' /\ relayed \subseteq relayed'
    BY <1>4, <1>10, <1>16, <2>6, RelayKeepsWhole
  <2>8. Accepted(s, k) => Relayed(s, <<k, n>>)'
    <3>1. Accepted(s, k) => ParsePacket(FrameOf(s, k), len, onlySelect) # ParseError
      BY <1>4, <2>5, AcceptedInFull
    <3>2. Head(<<k, n>>) = k
      OBVIOUS
    <3>3. QED  BY <2>6, <3>1, <3>2, RelayDocument
  <2>9. Stored(s)' = NoEntry => Waiting(s)' /\ Documented(s)'
    BY <1>4, <1>5, <1>7, <1>10, <1>16, <2>7, <2>8, SecondHalfTaken
  <2>10. QED
    BY <1>2, <1>4, <1>5, <1>6, <1>12, <2>6, <2>7, <2>9, TakenKeeps
<1>17. QED  BY <1>9, <1>14, <1>15, <1>16

(* The other cases of the select that take a packet.                       *)
LEMMA NoDataTaken ==
    ASSUME ReassemblyInv, QueueInv', NEW w \in Workers,
           ReceiveParsed(w) \/ ReceiveIgnored(w) \/ ReceiveShort(w) \/ MapRace(w)
    PROVE  ReassemblyInv'
<1>1. /\ Receive(w) /\ QueueInv /\ proc = "running"
      /\ sweepKey = NoSession /\ sweepKey' = NoSession /\ UNCHANGED mysqlRequestMaps
  BY DEF ReceiveParsed, ReceiveIgnored, ReceiveShort, MapRace, ReceiveData, Receive,
     statusVars, ReassemblyInv, NoneOld
<1>2. CleanTraffic' /\ NothingMissing' /\ NoneOld'
  BY <1>1 DEF ReassemblyInv, NothingMissing, NoneOld
<1>3. CASE ReceiveShort(w) \/ MapRace(w)
  <2>1. proc' # "running" /\ relayed' = relayed
    BY <1>3 DEF ReceiveShort, MapRace
  <2>2. QED  BY <1>2, <2>1 DEF ReassemblyInv, DocumentsWhole
<1>4. CASE ReceiveParsed(w)
  <2>1. \A s \in Sessions : SameTaken(s)
    <3>1. \A s, n : ~Carries(Received(w), s, n)
      BY <1>4 DEF ReceiveParsed, Carries
    <3>2. QED  BY <1>1, <3>1, ReceiveTakes DEF SameTaken
  <2>2. PICK d : relayed' = relayed \union {d} /\ d.frames = <<>>
    BY <1>4 DEF ReceiveParsed, Enqueue
  <2>3. DocumentsWhole'
    BY <2>2 DEF ReassemblyInv, DocumentsWhole
  <2>4. \A s \in Sessions : Stored(s)' = Stored(s)
    BY <1>1 DEF Stored
  <2>5. Reassembles'
    BY <1>1, <2>1, <2>2, <2>4, SessionUntouched DEF Reassembles, ReassemblyInv
  <2>6. QED  BY <1>2, <2>3, <2>5 DEF ReassemblyInv
<1>5. CASE ReceiveIgnored(w)
  <2>1. /\ ~Received(w).IsParsed /\ Ignored(Received(w))
        /\ UNCHANGED <<relayed, proc>>
    BY <1>5 DEF ReceiveIgnored
  <2>2. PICK s, n : s = Received(w).s /\ n = Received(w).n
    OBVIOUS
  <2>3. /\ s \in Sessions /\ n \in Frames(s)
        /\ \A r \in Sessions : \A k \in Frames(r) :
              r # s \/ k # n => (Consumed(r, k)' <=> Consumed(r, k))
    BY <1>1, <2>1, <2>2, FrameReceived
  <2>4. Readable(s) => ~Data(s, n)
    BY <2>1, <2>2 DEF Ignored, Data
  <2>5. \A r \in Sessions : SameTaken(r)
    BY <2>3, <2>4 DEF SameTaken
  <2>6. QED  BY <1>1, <2>1, <2>5, NothingTaken
<1>6. QED  BY <1>3, <1>4, <1>5

LEMMA ReassemblyNext ==
    ASSUME ReassemblyInv, [Next]_vars
    PROVE  ReassemblyInv'
<1>1. QueueInv /\ QueueInv'
  BY TypeNext, ShardNext, OrderNext DEF ReassemblyInv, QueueInv
<1>2. sweepKey = NoSession
  BY DEF ReassemblyInv, NoneOld
<1>3. ASSUME UNCHANGED <<sent, pending, mysqlPacketChannels>>
      PROVE  \A s \in Sessions : SameTaken(s)
  BY <1>3 DEF SameTaken, Consumed
<1>4. ASSUME NEW s \in Sessions, CaptureNext(s) PROVE ReassemblyInv'
  <2>1. UNCHANGED <<mysqlRequestMaps, relayed, sweepKey, proc>>
    BY <1>4 DEF CaptureNext, workerVars, statusVars
  <2>2. QED  BY <1>1, <1>2, <1>4, <2>1, TransmitTakes, NothingTaken
<1>5. ASSUME NEW s \in Sessions, PacketDropped(s) PROVE FALSE
  BY <1>1, <1>5 DEF PacketDropped, QueueInv, TypeInv, TypeOK, ReassemblyInv, NothingMissing
<1>6. CASE AssembleUserPacket
  <2>1. UNCHANGED <<mysqlRequestMaps, relayed, sweepKey, proc>>
    BY <1>6 DEF AssembleUserPacket, workerVars, statusVars
  <2>2. QED  BY <1>1, <1>2, <1>6, <2>1, SendTakes, NothingTaken
<1>7. ASSUME NEW s \in Sessions, SendConnectionDefaultDatabase(s) PROVE ReassemblyInv'
  <2>1. UNCHANGED <<mysqlRequestMaps, relayed, sweepKey, proc>>
    BY <1>7 DEF SendConnectionDefaultDatabase, workerVars
  <2>2. QED  BY <1>1, <1>2, <1>7, <2>1, ListTakes, NothingTaken
<1>8. ASSUME NEW w \in Workers, WorkerReceive(w) PROVE ReassemblyInv'
  BY <1>1, <1>8, DataTaken, NoDataTaken DEF WorkerReceive
<1>9. ASSUME NEW w \in Workers, NEW s \in Sessions, EntryAges(w, s) PROVE FALSE
  BY <1>9 DEF EntryAges, ReassemblyInv, NothingMissing
<1>10. CASE SweepDelete
  BY <1>2, <1>10 DEF SweepDelete
<1>11. ASSUME NEW s \in Sessions, SweepLook(s) PROVE ReassemblyInv'
  <2>1. SweptShard \in Workers
    <3>1. loopCounter \in Nat
      BY <1>1, SizesAssumption DEF QueueInv, TypeInv, TypeOK
    <3>2. QED  BY <3>1, ThreadsAssumption DEF SweptShard, Workers
  <2>2. ~TooOld(mysqlRequestMaps[SweptShard][s])
    BY <2>1 DEF TooOld, ReassemblyInv, NoneOld
  <2>3. /\ sweepKey' = NoSession
        /\ UNCHANGED <<mysqlRequestMaps, relayed, proc, sent, pending,
                       mysqlPacketChannels>>
    BY <1>11, <2>2 DEF SweepLook, workerVars, captureVars
  <2>4. QED  BY <1>1, <1>3, <2>3, NothingTaken
<1>12. ASSUME \/ \E w \in Workers : Tick(w) \/ KeepBatch(w) \/ Flush(w)
              \/ CaptureEnds \/ StatusTop \/ AfterSweep \/ MemoryPanic \/ AllSent
              \/ UNCHANGED vars
       PROVE  ReassemblyInv'
  <2>1. UNCHANGED <<mysqlRequestMaps, relayed, sweepKey, sent, pending,
                    mysqlPacketChannels>>
    BY <1>12 DEF Tick, KeepBatch, Flush, CaptureEnds, StatusTop, AfterSweep,
       MemoryPanic, AllSent, vars, captureVars, workerVars, statusVars
  <2>2. proc' = "running" => proc = "running"
    BY <1>12 DEF Tick, KeepBatch, Flush, CaptureEnds, StatusTop, AfterSweep,
       MemoryPanic, AllSent, SweepDone, vars
  <2>3. QED  BY <1>1, <1>2, <1>3, <2>1, <2>2, NothingTaken
<1>13. QED
  BY <1>4, <1>5, <1>6, <1>7, <1>8, <1>9, <1>10, <1>11, <1>12
  DEF Next, WorkerNext, StatusNext, Ended

LEMMA ReassemblyInit == Init /\ NothingMissing /\ CleanTraffic => ReassemblyInv
<1> SUFFICES ASSUME Init, NothingMissing, CleanTraffic PROVE ReassemblyInv
  OBVIOUS
<1>1. TypeInv
  BY TypeInit
<1>2. ShardInv
  BY DEF Init, ShardInv, ShardOwnership
<1>3. OrderInv
  BY DEF Init, OrderInv, QueueOrder, ChannelOrder, MapOrder, PendingOrder,
         NextOrder, DocsBefore, Docs, NoEntry
<1>4. NoneOld /\ DocumentsWhole
  BY DEF Init, NoneOld, DocumentsWhole, NoEntry
<1>5. ASSUME NEW s \in Sessions PROVE Waiting(s) /\ TakenInOrder(s) /\ Documented(s)
  <2>1. WorkerOf(s) \in Workers
    BY WorkerIndex
  <2>2. Stored(s) = NoEntry
    BY <2>1 DEF Init, Stored
  <2>3. \A n \in Frames(s) : ~Consumed(s, n)
    BY FrameNumber DEF Init, Consumed
  <2>4. QED  BY <2>2, <2>3 DEF Waiting, TakenInOrder, Documented, Awaits
<1>6. QED
  BY <1>1, <1>2, <1>3, <1>4, <1>5 DEF ReassemblyInv, QueueInv, Reassembles
-----------------------------------------------------------------------------
(* A request of one frame or two, listed.                                  *)
LEMMA Listed ==
    /\ \A n : Lists(<<n>>, {n})
    /\ \A m, n \in Nat : m < n => Lists(<<m, n>>, {m, n})
<1>1. ASSUME NEW n PROVE Lists(<<n>>, {n})
  BY DEF Lists
<1>2. ASSUME NEW m \in Nat, NEW n \in Nat, m < n PROVE Lists(<<m, n>>, {m, n})
  <2> DEFINE fs == <<m, n>>
  <2>1. DOMAIN fs = {1, 2} /\ fs[1] = m /\ fs[2] = n
    OBVIOUS
  <2> HIDE DEF fs
  <2>2. Lists(fs, {m, n})
    BY <1>2, <2>1 DEF Lists
  <2>3. QED  BY <2>2 DEF fs
<1>3. QED  BY <1>1, <1>2

(* With clean traffic, none of it lost and nothing expiring, whatever the  *)
(* interleaving of capture, workers, sweep and process list, a document    *)
(* holds the frames of one request, all of them, in order.                 *)
THEOREM OnlyRequestsRelayed ==
    Spec /\ NothingMissing /\ CleanTraffic => []OnlyWholeRequests
<1>1. ASSUME ReassemblyInv PROVE OnlyWholeRequests
  <2> SUFFICES ASSUME NEW d \in relayed, d.frames # <<>>
               PROVE  Lists(d.frames, FramesWith(d.s, FrameOf(d.s, d.frames[1]).req))
    BY DEF OnlyWholeRequests
  <2>1. d.s \in Sessions
    BY <1>1 DEF ReassemblyInv, QueueInv, TypeInv, TypeOK, Document
  <2>2. CASE \E n \in Frames(d.s) : Whole(d.s, n) /\ d.frames = <<n>>
    <3>1. PICK n \in Frames(d.s) : Whole(d.s, n) /\ d.frames = <<n>>
      BY <2>2
    <3>2. d.frames[1] = n
      BY <3>1
    <3>3. QED  BY <3>1, <3>2, Listed DEF Whole
  <2>3. CASE \E m, n \in Frames(d.s) : Halves(d.s, m, n) /\ d.frames = <<m, n>>
    <3>1. PICK m, n \in Frames(d.s) : Halves(d.s, m, n) /\ d.frames = <<m, n>>
      BY <2>3
    <3>2. d.frames[1] = m /\ m \in Nat /\ n \in Nat
      BY <2>1, <3>1, FrameNumber
    <3>3. QED  BY <3>1, <3>2, Listed DEF Halves
  <2>4. QED  BY <1>1, <2>2, <2>3 DEF ReassemblyInv, DocumentsWhole
<1>2. QED  BY <1>1, ReassemblyInit, ReassemblyNext, PTL DEF Spec

(* And every request that ParsePacket accepts is such a document as soon   *)
(* as the worker has taken its frames: no request is dropped, although     *)
(* those of a session wait for each other in one map entry.                *)
THEOREM AllRequestsRelayed ==
    Spec /\ NothingMissing /\ CleanTraffic => []EveryRequestRelayed
<1>1. ASSUME ReassemblyInv PROVE EveryRequestRelayed
  <2> SUFFICES ASSUME NEW s \in Sessions, NEW n \in Frames(s), proc = "running",
                      Readable(s), FrameOf(s, n).part = 1,
                      \A m \in FramesWith(s, FrameOf(s, n).req) : Consumed(s, m),
                      Accepted(s, n)
               PROVE  \E d \in relayed :
                         d.s = s /\ Lists(d.frames, FramesWith(s, FrameOf(s, n).req))
    BY DEF EveryRequestRelayed, Accepted
  <2>1. Documented(s) /\ CleanTraffic
    BY <1>1 DEF ReassemblyInv, Reassembles
  <2>2. ~Control(FrameOf(s, n))
    BY FrameNumber DEF Accepted, ParsePacket, Control, Segment
  <2>3. \A k \in Frames(s) : ~Halves(s, k, n)
    BY DEF Halves
  <2>4. CASE Whole(s, n)
    <3>1. FramesWith(s, FrameOf(s, n).req) = {n}
      BY <2>4 DEF Whole
    <3>2. Relayed(s, <<n>>)
      BY <2>1, <2>4, <3>1 DEF Documented
    <3>3. QED  BY <3>1, <3>2, Listed DEF Relayed
  <2>5. ASSUME NEW k \in Frames(s), Halves(s, n, k)
        PROVE  \E d \in relayed :
                  d.s = s /\ Lists(d.frames, FramesWith(s, FrameOf(s, n).req))
    <3>1. /\ FramesWith(s, FrameOf(s, n).req) = {n, k}
          /\ n \in Nat /\ k \in Nat /\ n < k
      BY <2>5, FrameNumber DEF Halves
    <3>2. Relayed(s, <<n, k>>)
      BY <2>1, <2>5, <3>1 DEF Documented
    <3>3. QED  BY <3>1, <3>2, Listed DEF Relayed
  <2>6. QED  BY <2>1, <2>2, <2>3, <2>4, <2>5 DEF CleanTraffic
<1>2. QED  BY <1>1, ReassemblyInit, ReassemblyNext, PTL DEF Spec
=============================================================================
