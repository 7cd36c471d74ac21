-------------------------- MODULE CollectorProofs --------------------------
(* Proofs about Collector, for any number of workers, sessions and frames, *)
(* any buffer sizes and any traffic.                                       *)
EXTENDS Collector, WellFoundedInduction, TLAPS

-----------------------------------------------------------------------------
(* Sequences: the elements of a tail, an extension and a concatenation.    *)

(* The elements of a sequence over S.                                      *)
LEMMA SeqElement ==
    ASSUME NEW S, NEW q \in Seq(S), NEW i \in DOMAIN q
    PROVE  q[i] \in S
  OBVIOUS

(* Taking the head of a channel shifts the others by one place.            *)
LEMMA TailElements ==
    ASSUME NEW S, NEW q \in Seq(S), q # <<>>
    PROVE  /\ Head(q) \in S /\ Head(q) = q[1] /\ 1 \in DOMAIN q
           /\ Tail(q) \in Seq(S) /\ Len(Tail(q)) = Len(q) - 1
           /\ \A i \in DOMAIN Tail(q) : /\ i + 1 \in DOMAIN q
                                        /\ i + 1 > 1
                                        /\ Tail(q)[i] = q[i + 1]
  OBVIOUS

(* A send or an added request keeps the others and comes last.             *)
LEMMA AppendElements ==
    ASSUME NEW S, NEW q \in Seq(S), NEW x \in S
    PROVE  /\ Append(q, x) \in Seq(S) /\ Len(Append(q, x)) = Len(q) + 1
           /\ Append(q, x)[Len(q) + 1] = x
           /\ \A i \in DOMAIN Append(q, x) :
                 \/ i \in DOMAIN q /\ i <= Len(q) /\ Append(q, x)[i] = q[i]
                 \/ i = Len(q) + 1
  OBVIOUS

(* A bulk insert puts a prefix of the batch behind the collection.         *)
LEMMA ConcatPrefix ==
    ASSUME NEW S, NEW q \in Seq(S), NEW r \in Seq(S), NEW k \in 0 .. Len(r)
    PROVE  /\ q \o SubSeq(r, 1, k) \in Seq(S)
           /\ Len(q \o SubSeq(r, 1, k)) = Len(q) + k
           /\ \A i \in DOMAIN (q \o SubSeq(r, 1, k)) :
                 \/ /\ i \in DOMAIN q /\ i <= Len(q)
                    /\ (q \o SubSeq(r, 1, k))[i] = q[i]
                 \/ /\ i > Len(q) /\ i - Len(q) \in DOMAIN r
                    /\ (q \o SubSeq(r, 1, k))[i] = r[i - Len(q)]
<1>1. SubSeq(r, 1, k) \in Seq(S) /\ Len(SubSeq(r, 1, k)) = k
      /\ \A i \in 1 .. k : SubSeq(r, 1, k)[i] = r[i]
  OBVIOUS
<1>2. QED  BY <1>1

(* The whole batch as a prefix.                                            *)
LEMMA SubSeqAll ==
    ASSUME NEW S, NEW r \in Seq(S)
    PROVE  SubSeq(r, 1, Len(r)) = r
  OBVIOUS

-----------------------------------------------------------------------------
(* Type correctness.                                                       *)

(* A frame that is on its way through the collector has been transmitted:  *)
(* this is what makes Traffic[s][n] a segment wherever it is looked up.    *)
FrameRefs ==
    /\ pending # NoPacket => /\ ~pending.IsParsed
                             /\ pending.n \in 1 .. sent[pending.s]
    /\ \A w \in Workers : \A i \in DOMAIN mysqlPacketChannels[w] :
          ~mysqlPacketChannels[w][i].IsParsed =>
             mysqlPacketChannels[w][i].n \in 1 .. sent[mysqlPacketChannels[w][i].s]
    /\ \A w \in Workers, s \in Sessions :
          /\ mysqlRequestMaps[w][s].n \in 0 .. sent[s]
          /\ mysqlRequestMaps[w][s].n = 0 => mysqlRequestMaps[w][s] = NoEntry

(* loopCounter is below StatusPeriod except between its increment and the  *)
(* reset at the top of the next loop.                                      *)
LoopBound == status # "top" => loopCounter < StatusPeriod

TypeInv == TypeOK /\ FrameRefs /\ LoopBound

(* The routing functions yield a worker.                                   *)
LEMMA WorkerIndex ==
    ASSUME NEW s \in Sessions
    PROVE  /\ WorkerOf(s) \in Workers
           /\ ConnectionWorker(s) \in Workers
           /\ s \notin HiddenSessions => ConnectionWorker(s) = WorkerOf(s)
  BY ThreadsAssumption, SessionsAssumption
     DEF Workers, WorkerOf, ConnectionWorker

(* What ParsePacket returns.                                               *)
LEMMA ParsePacketType ==
    ASSUME NEW first, NEW len, NEW only
    PROVE  ParsePacket(first, len, only) \in Commands \union {ParseError}
  BY DEF ParsePacket, Commands, ParseError, COM_LOGIN, COM_QUERY, COM_QUIT,
         COM_INIT_DB, COM_SET_OPTION, SEQUENCE_FOR_LOGIN

(* The segment behind a frame number.                                      *)
LEMMA FrameType ==
    ASSUME TypeOK, NEW s \in Sessions, NEW n \in 1 .. sent[s]
    PROVE  FrameOf(s, n) \in Segment /\ n \in Nat
<1>1. n \in 1 .. Len(Traffic[s]) /\ Traffic[s] \in Seq(Segment)
  BY TrafficAssumption DEF TypeOK
<1>2. QED  BY <1>1 DEF FrameOf

(***************************************************************************)
(* What any receive of worker w does, in one formula: it may put one       *)
(* document of the packet's session in the batch, built from the packet's  *)
(* frame alone or behind the stored one, and it may clear or replace the   *)
(* stored partial request of that session; nothing else.                   *)
(***************************************************************************)
NoDocument(w) == UNCHANGED <<batches, relayed, validPackets, infos>>

OneDocument(w, d) ==
    /\ Enqueue(w, d)
    /\ \/ /\ validPackets' = [validPackets EXCEPT ![w] = @ + 1]
          /\ UNCHANGED infos
       \/ /\ infos' = [infos EXCEPT ![w] = @ + 1]
          /\ UNCHANGED validPackets

MapEffect(w, p) ==
    \/ UNCHANGED mysqlRequestMaps
    \/ /\ ~p.IsParsed
       /\ \E e \in {NoEntry, [n |-> p.n, old |-> FALSE]} :
             mysqlRequestMaps' = [mysqlRequestMaps EXCEPT ![w][p.s] = e]

(* The frames of a document made from packet p, and what that leaves in    *)
(* the map.                                                                *)
DocumentFrames(w, p, d) ==
    \/ d.frames = <<>> /\ UNCHANGED mysqlRequestMaps
    \/ /\ ~p.IsParsed
       /\ \/ d.frames = <<p.n>>
          \/ /\ mysqlRequestMaps[w][p.s].n # 0
             /\ d.frames = <<mysqlRequestMaps[w][p.s].n, p.n>>
       /\ mysqlRequestMaps' = [mysqlRequestMaps EXCEPT ![w][p.s] = NoEntry]

ReceiveEffect(w) ==
    LET p == Received(w) IN
    /\ Receive(w)
    /\ proc' \in {"running", "panic", "race"}
    /\ MapEffect(w, p)
    /\ \/ NoDocument(w)
       \/ \E d \in Document : /\ OneDocument(w, d)
                              /\ d.s = p.s
                              /\ DocumentFrames(w, p, d)
    /\ assembledPackets' \in [Workers -> Nat]
    /\ expiredPackets' \in [Workers -> Nat]
    /\ UNCHANGED mqErrorCounters

(* Relay puts one document in the batch or none.                           *)
LEMMA RelayEffect ==
    ASSUME TypeInv, NEW w \in Workers, NEW s \in Sessions,
           NEW fs \in Seq(Nat), Head(fs) \in 1 .. sent[s],
           NEW len, Relay(w, s, fs, len), infos' = infos
    PROVE  \/ NoDocument(w)
           \/ \E d \in Document :
                 OneDocument(w, d) /\ d.s = s /\ d.frames = fs
<1> DEFINE n == Head(fs)
           c == ParsePacket(FrameOf(s, n), len, onlySelect)
           d == [s |-> s, c |-> c, frames |-> fs, db |-> FrameOf(s, n).db]
<1>1. FrameOf(s, n).db \in Databases \union {NoDb}
  BY FrameType DEF TypeInv, Segment
<1>2. CASE c # ParseError
  <2>1. d \in Document
    BY <1>1, <1>2, ParsePacketType DEF Document
  <2>2. OneDocument(w, d)
    BY <1>2 DEF Relay, OneDocument
  <2>3. QED  BY <2>1, <2>2
<1>3. CASE c = ParseError
  BY <1>3 DEF Relay, NoDocument
<1>4. QED  BY <1>2, <1>3

(* The packet at the head of a channel.                                    *)
LEMMA ReceivedType ==
    ASSUME TypeInv, NEW w \in Workers, mysqlPacketChannels[w] # <<>>
    PROVE  /\ Received(w) \in Packet
           /\ ~Received(w).IsParsed => Received(w).n \in 1 .. sent[Received(w).s]
           /\ mysqlRequestMaps[w][Received(w).s] \in Entry
           /\ mysqlRequestMaps[w][Received(w).s] # NoEntry =>
                 mysqlRequestMaps[w][Received(w).s].n
                    \in 1 .. sent[Received(w).s]
<1>1. mysqlPacketChannels[w] \in Seq(Packet)
  BY DEF TypeInv, TypeOK
<1>2. /\ Received(w) \in Packet
      /\ Received(w) = mysqlPacketChannels[w][1]
      /\ 1 \in DOMAIN mysqlPacketChannels[w]
  BY <1>1, TailElements DEF Received
<1>3. Received(w).s \in Sessions
  BY <1>2 DEF Packet
<1>4. mysqlRequestMaps[w][Received(w).s] \in Entry
  BY <1>3 DEF TypeInv, TypeOK
<1>5. sent[Received(w).s] \in Nat
  BY <1>3 DEF TypeInv, TypeOK
<1>6. QED  BY <1>2, <1>3, <1>4, <1>5 DEF TypeInv, FrameRefs, Entry

(* Every case of the select that takes a packet has this effect.           *)
LEMMA ReceiveHasEffect ==
    ASSUME TypeInv, NEW w \in Workers, WorkerReceive(w)
    PROVE  ReceiveEffect(w)
<1> DEFINE p == Received(w)
           e == mysqlRequestMaps[w][p.s]
<1>1. Receive(w)
  BY DEF WorkerReceive, ReceiveParsed, ReceiveIgnored, ReceiveShort,
         ReceiveAndAssemble, ReceiveAlone, MapRace, ReceiveData
<1>2. mysqlPacketChannels[w] # <<>> /\ proc = "running"
  BY <1>1 DEF Receive
<1>3. /\ p \in Packet /\ p.s \in Sessions /\ p.n \in Nat
      /\ ~p.IsParsed => p.n \in 1 .. sent[p.s]
      /\ e \in Entry
      /\ e # NoEntry => e.n \in 1 .. sent[p.s]
  BY <1>2, ReceivedType DEF Packet
<1>4. /\ assembledPackets \in [Workers -> Nat]
      /\ expiredPackets \in [Workers -> Nat]
  BY DEF TypeInv, TypeOK
<1>5. CASE ReceiveParsed(w)
  <2> DEFINE d == [s |-> p.s, c |-> COM_INIT_DB, frames |-> <<>>, db |-> p.db]
  <2>1. d \in Document /\ d.s = p.s /\ d.frames = <<>>
    BY <1>3 DEF Document, Packet, Commands
  <2>2. OneDocument(w, d) /\ DocumentFrames(w, p, d)
    BY <1>5, <2>1 DEF ReceiveParsed, OneDocument, DocumentFrames
  <2>3. QED
    BY <1>1, <1>2, <1>4, <1>5, <2>1, <2>2
       DEF ReceiveParsed, ReceiveEffect, MapEffect
<1>6. CASE ReceiveIgnored(w)
  BY <1>1, <1>2, <1>4, <1>6
     DEF ReceiveIgnored, ReceiveEffect, MapEffect, NoDocument, counters
<1>7. CASE ReceiveShort(w)
  BY <1>1, <1>2, <1>4, <1>7
     DEF ReceiveShort, ReceiveEffect, MapEffect, NoDocument, counters
<1>8. CASE MapRace(w)
  BY <1>1, <1>2, <1>4, <1>8
     DEF MapRace, ReceiveEffect, MapEffect, NoDocument, counters
<1>9. CASE ReceiveAndAssemble(w)
  <2> DEFINE len == FrameOf(p.s, e.n).len + FrameOf(p.s, p.n).len
             complete == len >= FrameOf(p.s, e.n).size
  <2>1. /\ e # NoEntry /\ ~p.IsParsed
        /\ UNCHANGED <<proc, expiredPackets, mqErrorCounters, infos>>
    BY <1>9 DEF ReceiveAndAssemble, ReceiveData
  <2>2. CASE complete
    <3>1. /\ Relay(w, p.s, <<e.n, p.n>>, len)
          /\ mysqlRequestMaps' = [mysqlRequestMaps EXCEPT ![w][p.s] = NoEntry]
          /\ UNCHANGED assembledPackets
      BY <1>9, <2>2 DEF ReceiveAndAssemble, Forget
    <3>2. /\ <<e.n, p.n>> \in Seq(Nat)
          /\ Head(<<e.n, p.n>>) \in 1 .. sent[p.s]
      BY <1>3, <2>1 DEF Entry
    <3>3. \/ NoDocument(w)
          \/ \E d \in Document : /\ OneDocument(w, d)
                                 /\ d.s = p.s /\ d.frames = <<e.n, p.n>>
      <4>1. infos' = infos
        BY <2>1
      <4> DEFINE fs == <<e.n, p.n>>
      <4> HIDE DEF p, e, len, fs
      <4>2. fs \in Seq(Nat) /\ Head(fs) \in 1 .. sent[p.s] /\ Relay(w, p.s, fs, len)
        BY <3>1, <3>2 DEF fs
      <4>3. \/ NoDocument(w)
            \/ \E d \in Document : OneDocument(w, d) /\ d.s = p.s /\ d.frames = fs
        BY <1>3, <4>1, <4>2, RelayEffect
      <4>4. QED  BY <4>3 DEF fs
    <3>4. MapEffect(w, p)
      BY <2>1, <3>1 DEF MapEffect
    <3>5. e.n # 0
      BY <1>3, <2>1
    <3>6. QED
      BY <1>1, <1>2, <1>4, <2>1, <3>1, <3>3, <3>4, <3>5
         DEF ReceiveEffect, DocumentFrames
  <2>3. CASE ~complete
    <3>1. /\ assembledPackets' = [assembledPackets EXCEPT ![w] = @ + 1]
          /\ UNCHANGED <<mysqlRequestMaps, validPackets, batches, relayed>>
      BY <1>9, <2>3 DEF ReceiveAndAssemble
    <3>2. assembledPackets' \in [Workers -> Nat]
      BY <1>4, <3>1
    <3>3. QED
      BY <1>1, <1>2, <1>4, <2>1, <3>1, <3>2
         DEF ReceiveEffect, NoDocument, MapEffect
  <2>4. QED  BY <2>2, <2>3
<1>10. CASE ReceiveAlone(w)
  <2> DEFINE f == FrameOf(p.s, p.n)
             complete == f.len >= f.size
  <2>1. /\ ~p.IsParsed
        /\ expiredPackets' = [expiredPackets EXCEPT ![w] = @ + Discards(p.s, e, p.n)]
        /\ UNCHANGED <<proc, mqErrorCounters, infos>>
    BY <1>10 DEF ReceiveAlone, ReceiveData
  <2>2. expiredPackets' \in [Workers -> Nat]
    BY <1>4, <2>1 DEF Discards
  <2>3. CASE complete
    <3>1. /\ Relay(w, p.s, <<p.n>>, f.len)
          /\ mysqlRequestMaps' = [mysqlRequestMaps EXCEPT ![w][p.s] = NoEntry]
          /\ UNCHANGED assembledPackets
      BY <1>10, <2>3 DEF ReceiveAlone, Forget
    <3>2. <<p.n>> \in Seq(Nat) /\ Head(<<p.n>>) \in 1 .. sent[p.s]
      BY <1>3, <2>1
    <3>3. \/ NoDocument(w)
          \/ \E d \in Document : /\ OneDocument(w, d)
                                 /\ d.s = p.s /\ d.frames = <<p.n>>
      <4>1. infos' = infos
        BY <2>1
      <4> DEFINE fs == <<p.n>>
      <4> HIDE DEF p, f, fs
      <4>2. fs \in Seq(Nat) /\ Head(fs) \in 1 .. sent[p.s] /\ Relay(w, p.s, fs, f.len)
        BY <3>1, <3>2 DEF fs
      <4>3. \/ NoDocument(w)
            \/ \E d \in Document : OneDocument(w, d) /\ d.s = p.s /\ d.frames = fs
        BY <1>3, <4>1, <4>2, RelayEffect
      <4>4. QED  BY <4>3 DEF fs
    <3>4. MapEffect(w, p)
      BY <2>1, <3>1 DEF MapEffect
    <3>5. QED
      BY <1>1, <1>2, <1>4, <2>1, <2>2, <3>1, <3>3, <3>4
         DEF ReceiveEffect, DocumentFrames
  <2>4. CASE ~complete
    <3>1. /\ assembledPackets' = [assembledPackets EXCEPT ![w] = @ + 1]
          /\ mysqlRequestMaps' = [mysqlRequestMaps EXCEPT ![w][p.s] =
                                     [n |-> p.n, old |-> FALSE]]
          /\ UNCHANGED <<validPackets, batches, relayed>>
      BY <1>10, <2>4 DEF ReceiveAlone
    <3>2. assembledPackets' \in [Workers -> Nat]
      BY <1>4, <3>1
    <3>3. QED
      BY <1>1, <1>2, <2>1, <2>2, <3>1, <3>2
         DEF ReceiveEffect, NoDocument, MapEffect
  <2>5. QED  BY <2>3, <2>4
<1>11. QED  BY <1>5, <1>6, <1>7, <1>8, <1>9, <1>10 DEF WorkerReceive

(* The invariant of type correctness holds initially.                      *)
LEMMA TypeInit == Init => TypeInv
<1> SUFFICES ASSUME Init PROVE TypeInv
  OBVIOUS
<1>1. TypeOK
  BY TrafficAssumption, BoundsAssumption, SizesAssumption
     DEF Init, TypeOK, Packet, NoPacket, Entry, NoEntry, Document
<1>2. FrameRefs
  BY DEF Init, FrameRefs, NoEntry
<1>3. LoopBound
  BY DEF Init, LoopBound
<1>4. QED  BY <1>1, <1>2, <1>3 DEF TypeInv

(* A receive keeps it.                                                     *)
LEMMA TypeReceive ==
    ASSUME TypeInv, NEW w \in Workers, ReceiveEffect(w)
    PROVE  TypeInv'
<1> DEFINE p == Received(w)
<1> USE DEF TypeInv
<1>1. Receive(w) /\ mysqlPacketChannels[w] # <<>>
  BY DEF ReceiveEffect, Receive
<1>2. /\ p \in Packet /\ p.s \in Sessions /\ p.n \in Nat
      /\ ~p.IsParsed => p.n \in 1 .. sent[p.s]
  BY <1>1, ReceivedType DEF Packet
<1>3. /\ mysqlPacketChannels[w] \in Seq(Packet)
      /\ mysqlPacketChannels' = [mysqlPacketChannels EXCEPT ![w] = Tail(@)]
      /\ mysqlPacketChannels \in [Workers -> Seq(Packet)]
  BY <1>1 DEF TypeOK, Receive
<1>4. mysqlPacketChannels' \in [Workers -> Seq(Packet)]
  BY <1>3, <1>1, TailElements
<1>5. /\ mysqlRequestMaps' \in [Workers -> [Sessions -> Entry]]
      /\ \A v \in Workers, s \in Sessions :
            \/ mysqlRequestMaps'[v][s] = mysqlRequestMaps[v][s]
            \/ mysqlRequestMaps'[v][s] = NoEntry
            \/ s = p.s /\ ~p.IsParsed
               /\ mysqlRequestMaps'[v][s] = [n |-> p.n, old |-> FALSE]
  <2>1. mysqlRequestMaps \in [Workers -> [Sessions -> Entry]]
    BY DEF TypeOK
  <2>2. NoEntry \in Entry /\ [n |-> p.n, old |-> FALSE] \in Entry
    BY <1>2 DEF NoEntry, Entry
  <2>3. MapEffect(w, p)
    BY DEF ReceiveEffect
  <2>4. CASE UNCHANGED mysqlRequestMaps
    BY <2>1, <2>4
  <2>5. ASSUME NEW e \in {NoEntry, [n |-> p.n, old |-> FALSE]}, ~p.IsParsed,
               mysqlRequestMaps' = [mysqlRequestMaps EXCEPT ![w][p.s] = e]
        PROVE  <1>5
    <3> HIDE DEF p
    <3>1. e \in Entry
      BY <2>2, <2>5
    <3>2. QED  BY <1>2, <2>1, <2>5, <3>1
  <2>6. QED  BY <2>3, <2>4, <2>5 DEF MapEffect
<1>6. /\ batches' \in [Workers -> Seq(Document)]
      /\ relayed' \subseteq Document
      /\ validPackets' \in [Workers -> Nat] /\ infos' \in [Workers -> Nat]
  <2>1. /\ batches \in [Workers -> Seq(Document)] /\ relayed \subseteq Document
        /\ validPackets \in [Workers -> Nat] /\ infos \in [Workers -> Nat]
    BY DEF TypeOK
  <2>2. CASE NoDocument(w)
    BY <2>1, <2>2 DEF NoDocument
  <2>3. ASSUME NEW d \in Document, OneDocument(w, d)
        PROVE  <1>6
    <3>1. Append(batches[w], d) \in Seq(Document)
      BY <2>1, AppendElements
    <3>2. batches' \in [Workers -> Seq(Document)] /\ relayed' \subseteq Document
      BY <2>1, <2>3, <3>1 DEF OneDocument, Enqueue
    <3>3. validPackets' \in [Workers -> Nat] /\ infos' \in [Workers -> Nat]
      <4>1. validPackets[w] + 1 \in Nat /\ infos[w] + 1 \in Nat
        BY <2>1
      <4>2. QED  BY <2>1, <2>3, <4>1 DEF OneDocument
    <3>4. QED  BY <3>2, <3>3
  <2>4. QED  BY <2>2, <2>3 DEF ReceiveEffect
<1>7. TypeOK'
  BY <1>1, <1>4, <1>5, <1>6
     DEF TypeOK, ReceiveEffect, Receive, captureVars, statusVars
<1>8. FrameRefs'
  <2>1. UNCHANGED <<pending, sent>>
    BY <1>1 DEF Receive, captureVars
  <2>2. \A v \in Workers : \A i \in DOMAIN mysqlPacketChannels'[v] :
           \E j \in DOMAIN mysqlPacketChannels[v] :
              mysqlPacketChannels'[v][i] = mysqlPacketChannels[v][j]
    BY <1>1, <1>3, TailElements
  <2>3. \A v \in Workers, s \in Sessions :
           /\ mysqlRequestMaps'[v][s].n \in 0 .. sent[s]
           /\ mysqlRequestMaps'[v][s].n = 0 => mysqlRequestMaps'[v][s] = NoEntry
    <3> HIDE DEF p
    <3> SUFFICES ASSUME NEW v \in Workers, NEW s \in Sessions
                 PROVE  /\ mysqlRequestMaps'[v][s].n \in 0 .. sent[s]
                        /\ mysqlRequestMaps'[v][s].n = 0 =>
                              mysqlRequestMaps'[v][s] = NoEntry
      OBVIOUS
    <3>1. /\ mysqlRequestMaps[v][s].n \in 0 .. sent[s]
          /\ mysqlRequestMaps[v][s].n = 0 => mysqlRequestMaps[v][s] = NoEntry
      BY DEF FrameRefs
    <3>2. sent[s] \in Nat
      BY DEF TypeOK
    <3>3. QED  BY <1>2, <1>5, <3>1, <3>2 DEF NoEntry
  <2>4. QED  BY <2>1, <2>2, <2>3 DEF FrameRefs
<1>9. LoopBound'
  BY <1>1 DEF LoopBound, Receive, statusVars
<1>10. QED  BY <1>7, <1>8, <1>9

(* A send to the channel of worker w keeps what is known of the channels.  *)
LEMMA SendKeepsFrameRefs ==
    ASSUME TypeInv, NEW w \in Workers, NEW p \in Packet,
           ~p.IsParsed => p.n \in 1 .. sent[p.s],
           mysqlPacketChannels' = [mysqlPacketChannels EXCEPT ![w] = Append(@, p)]
    PROVE  /\ mysqlPacketChannels' \in [Workers -> Seq(Packet)]
           /\ \A v \in Workers : \A i \in DOMAIN mysqlPacketChannels'[v] :
                 ~mysqlPacketChannels'[v][i].IsParsed =>
                    mysqlPacketChannels'[v][i].n
                       \in 1 .. sent[mysqlPacketChannels'[v][i].s]
<1>1. mysqlPacketChannels \in [Workers -> Seq(Packet)]
  BY DEF TypeInv, TypeOK
<1>2. mysqlPacketChannels' \in [Workers -> Seq(Packet)]
  BY <1>1, AppendElements
<1>3. \A v \in Workers : \A i \in DOMAIN mysqlPacketChannels'[v] :
         \/ mysqlPacketChannels'[v][i] = p
         \/ \E j \in DOMAIN mysqlPacketChannels[v] :
               mysqlPacketChannels'[v][i] = mysqlPacketChannels[v][j]
  BY <1>1, AppendElements
<1>4. QED  BY <1>2, <1>3 DEF TypeInv, FrameRefs

(* Flush, with the number k of documents that reach the collection.        *)
LEMMA FlushEffect ==
    ASSUME TypeInv, NEW w \in Workers, Flush(w)
    PROVE  \E k \in 0 .. Len(batches[w]) :
              /\ mongo' = [mongo EXCEPT ![w] = @ \o SubSeq(batches[w], 1, k)]
              /\ \/ mqErrorCounters' = [mqErrorCounters EXCEPT ![w] =
                                           @ + Len(batches[w])]
                 \/ k = Len(batches[w]) /\ UNCHANGED mqErrorCounters
<1>1. batches[w] \in Seq(Document)
  BY DEF TypeInv, TypeOK
<1>2. SubSeq(batches[w], 1, Len(batches[w])) = batches[w]
      /\ Len(batches[w]) \in 0 .. Len(batches[w])
  BY <1>1, SubSeqAll
<1>3. QED  BY <1>1, <1>2 DEF Flush, CountErrors

(* The reset test of the status loop holds when the period is reached.     *)
LEMMA ModItself == ASSUME NEW n \in Nat \ {0} PROVE n % n = 0
  OBVIOUS

(* Every step keeps it.                                                    *)
LEMMA TypeNext == TypeInv /\ [Next]_vars => TypeInv'
<1> SUFFICES ASSUME TypeInv, [Next]_vars PROVE TypeInv'
  OBVIOUS
<1> USE DEF TypeInv, LoopBound
<1>1. ASSUME NEW s \in Sessions, CaptureNext(s) \/ PacketDropped(s)
      PROVE  TypeInv'
  <2>1. Transmit(s) /\ sent \in [Sessions -> Nat]
        /\ sourceDb \in [Sessions -> Databases \union {NoDb}]
    BY <1>1 DEF CaptureNext, PacketDropped, TypeOK
  <2>2. /\ sent' \in [Sessions -> Nat]
        /\ sent'[s] = sent[s] + 1
        /\ \A r \in Sessions : sent[r] <= sent'[r] /\ sent'[r] <= Len(Traffic[r])
    BY <2>1, TrafficAssumption DEF Transmit, TypeOK
  <2>3. sourceDb' \in [Sessions -> Databases \union {NoDb}]
    <3>1. sent[s] + 1 \in 1 .. Len(Traffic[s]) /\ Traffic[s] \in Seq(Segment)
      BY <2>1, TrafficAssumption DEF Transmit
    <3>2. Traffic[s][sent[s] + 1] \in Segment
      BY <3>1
    <3>3. DatabaseAfter(Traffic[s][sent[s] + 1], sourceDb[s])
             \in Databases \union {NoDb}
      BY <2>1, <3>2 DEF DatabaseAfter, Segment
    <3>4. QED  BY <2>1, <3>3 DEF Transmit
  <2>4. /\ pending' \in Packet \union {NoPacket}
        /\ pending' # NoPacket => /\ ~pending'.IsParsed
                                  /\ pending'.n \in 1 .. sent'[pending'.s]
        /\ drops' \in 0 .. MaxDrops
    <3>1. CASE CaptureNext(s)
      <4>1. /\ RawPacket(s, sent[s] + 1) \in Packet
            /\ ~RawPacket(s, sent[s] + 1).IsParsed
            /\ RawPacket(s, sent[s] + 1).s = s
            /\ RawPacket(s, sent[s] + 1).n \in 1 .. sent'[s]
        BY <2>1, <2>2 DEF RawPacket, Packet
      <4>2. QED  BY <3>1, <4>1 DEF CaptureNext, TypeOK
    <3>2. CASE PacketDropped(s)
      <4>1. /\ UNCHANGED pending /\ drops' = drops + 1 /\ drops < MaxDrops
            /\ drops \in 0 .. MaxDrops
            /\ pending \in Packet \union {NoPacket}
        BY <3>2 DEF PacketDropped, TypeOK
      <4>2. pending # NoPacket => pending.s \in Sessions
        BY <4>1 DEF Packet
      <4>3. QED  BY <2>1, <2>2, <4>1, <4>2, BoundsAssumption DEF FrameRefs
    <3>3. QED  BY <1>1, <3>1, <3>2
  <2>5. UNCHANGED <<proc, mysqlPacketChannels, mysqlRequestMaps, workerVars,
                    statusVars>>
    BY <1>1 DEF CaptureNext, PacketDropped
  <2>6. TypeOK'
    BY <2>2, <2>3, <2>4, <2>5 DEF TypeOK, workerVars, statusVars, counters
  <2>7. \A w \in Workers : \A i \in DOMAIN mysqlPacketChannels[w] :
           mysqlPacketChannels[w][i].s \in Sessions
    <3>1. \A w \in Workers : mysqlPacketChannels[w] \in Seq(Packet)
      BY DEF TypeOK
    <3>2. \A w \in Workers : \A i \in DOMAIN mysqlPacketChannels[w] :
             mysqlPacketChannels[w][i] \in Packet
      BY <3>1, SeqElement
    <3>3. QED  BY <3>2 DEF Packet
  <2>8. FrameRefs'
    BY <2>1, <2>2, <2>4, <2>5, <2>7 DEF FrameRefs
  <2>9. QED  BY <2>5, <2>6, <2>8 DEF statusVars
<1>2. CASE AssembleUserPacket
  <2>1. /\ pending \in Packet /\ pending.s \in Sessions
        /\ ~pending.IsParsed /\ pending.n \in 1 .. sent[pending.s]
    BY <1>2 DEF AssembleUserPacket, TypeOK, FrameRefs, Packet
  <2>2. WorkerOf(pending.s) \in Workers
    BY <2>1, WorkerIndex
  <2>3. mysqlPacketChannels' = [mysqlPacketChannels EXCEPT
                                   ![WorkerOf(pending.s)] = Append(@, pending)]
        /\ pending' = NoPacket
        /\ UNCHANGED <<proc, sent, sourceDb, drops, mysqlRequestMaps,
                       workerVars, statusVars>>
    BY <1>2 DEF AssembleUserPacket
  <2>4. /\ mysqlPacketChannels' \in [Workers -> Seq(Packet)]
        /\ \A v \in Workers : \A i \in DOMAIN mysqlPacketChannels'[v] :
              ~mysqlPacketChannels'[v][i].IsParsed =>
                 mysqlPacketChannels'[v][i].n
                    \in 1 .. sent[mysqlPacketChannels'[v][i].s]
    BY <2>1, <2>2, <2>3, SendKeepsFrameRefs
  <2>5. TypeOK'
    BY <2>3, <2>4 DEF TypeOK, workerVars, statusVars, counters
  <2>6. FrameRefs'
    BY <2>3, <2>4 DEF FrameRefs
  <2>7. QED  BY <2>3, <2>5, <2>6 DEF statusVars
<1>3. CASE CaptureEnds
  BY <1>3 DEF CaptureEnds, TypeOK, FrameRefs, captureVars, workerVars,
              statusVars, counters
<1>4. ASSUME NEW w \in Workers, WorkerReceive(w)
      PROVE  TypeInv'
  BY <1>4, ReceiveHasEffect, TypeReceive
<1>5. ASSUME NEW w \in Workers, Tick(w) \/ KeepBatch(w)
      PROVE  TypeInv'
  <2>1. /\ pc' \in [Workers -> {"select", "received", "ticked"}]
        /\ UNCHANGED <<proc, captureVars, mysqlPacketChannels,
                       mysqlRequestMaps, batches, counters, mongo, relayed,
                       statusVars>>
    BY <1>5 DEF Tick, KeepBatch, TypeOK
  <2>2. TypeOK'
    BY <2>1 DEF TypeOK, captureVars, statusVars, counters
  <2>3. QED  BY <2>1, <2>2 DEF FrameRefs, captureVars, statusVars
<1>6. ASSUME NEW w \in Workers, Flush(w)
      PROVE  TypeInv'
  <2>1. /\ batches \in [Workers -> Seq(Document)]
        /\ mongo \in [Workers -> Seq(Document)]
        /\ mqErrorCounters \in [Workers -> Nat]
    BY DEF TypeOK
  <2>2. Len(batches[w]) \in Nat
    BY <2>1
  <2>3. PICK k \in 0 .. Len(batches[w]) :
              /\ mongo' = [mongo EXCEPT ![w] = @ \o SubSeq(batches[w], 1, k)]
              /\ \/ mqErrorCounters' = [mqErrorCounters EXCEPT ![w] =
                                           @ + Len(batches[w])]
                 \/ k = Len(batches[w]) /\ UNCHANGED mqErrorCounters
    BY <1>6, FlushEffect
  <2>4. mongo' \in [Workers -> Seq(Document)]
    BY <2>1, <2>3, ConcatPrefix
  <2>5. mqErrorCounters' \in [Workers -> Nat]
    <3>1. mqErrorCounters[w] + Len(batches[w]) \in Nat
      BY <2>1, <2>2
    <3>2. QED  BY <2>1, <2>3, <3>1
  <2>6. /\ batches' = [batches EXCEPT ![w] = <<>>]
        /\ pc' = [pc EXCEPT ![w] = "select"]
        /\ UNCHANGED <<proc, captureVars, mysqlPacketChannels,
                       mysqlRequestMaps, assembledPackets, expiredPackets,
                       validPackets, relayed, infos, statusVars>>
    BY <1>6 DEF Flush
  <2>7. /\ batches' \in [Workers -> Seq(Document)]
        /\ pc' \in [Workers -> {"select", "received", "ticked"}]
    <3>1. <<>> \in Seq(Document) /\ pc \in [Workers -> {"select", "received", "ticked"}]
      BY DEF TypeOK
    <3>2. QED  BY <2>1, <2>6, <3>1
  <2>8. TypeOK'
    BY <2>4, <2>5, <2>6, <2>7 DEF TypeOK, captureVars, statusVars
  <2>9. FrameRefs'
    BY <2>6 DEF FrameRefs, captureVars
  <2>10. QED  BY <2>6, <2>8, <2>9 DEF statusVars
<1>7. ASSUME NEW w \in Workers, NEW s \in Sessions, EntryAges(w, s)
      PROVE  TypeInv'
  <2>1. /\ mysqlRequestMaps \in [Workers -> [Sessions -> Entry]]
        /\ mysqlRequestMaps' = [mysqlRequestMaps EXCEPT ![w][s] =
                                   [n |-> mysqlRequestMaps[w][s].n, old |-> TRUE]]
        /\ mysqlRequestMaps[w][s] # NoEntry
        /\ UNCHANGED <<proc, captureVars, mysqlPacketChannels, workerVars,
                       statusVars>>
    BY <1>7 DEF EntryAges, TypeOK
  <2>2. /\ mysqlRequestMaps' \in [Workers -> [Sessions -> Entry]]
        /\ \A v \in Workers, r \in Sessions :
              /\ mysqlRequestMaps'[v][r].n = mysqlRequestMaps[v][r].n
              /\ \/ mysqlRequestMaps'[v][r] = mysqlRequestMaps[v][r]
                 \/ v = w /\ r = s
    BY <2>1 DEF Entry
  <2>3. TypeOK'
    BY <2>1, <2>2 DEF TypeOK, captureVars, workerVars, statusVars, counters
  <2>4. FrameRefs'
    BY <2>1, <2>2 DEF FrameRefs, captureVars
  <2>5. QED  BY <2>1, <2>3, <2>4 DEF statusVars
<1>8. CASE StatusTop
  <2>1. loopCounter' \in 0 .. StatusPeriod /\ loopCounter' < StatusPeriod
    <3>1. /\ loopCounter' = IF loopCounter % StatusPeriod = 0 THEN 0 ELSE loopCounter
          /\ loopCounter \in 0 .. StatusPeriod
          /\ StatusPeriod \in Nat \ {0}
      BY <1>8, SizesAssumption DEF StatusTop, LoopReset, TypeOK
    <3>2. loopCounter = StatusPeriod => loopCounter % StatusPeriod = 0
      BY <3>1, ModItself
    <3>3. QED  BY <3>1, <3>2
  <2>2. QED
    BY <1>8, <2>1 DEF StatusTop, TypeOK, FrameRefs, captureVars, workerVars,
                      counters
<1>9. ASSUME NEW s \in Sessions, SweepLook(s)
      PROVE  TypeInv'
  BY <1>9 DEF SweepLook, TypeOK, FrameRefs, captureVars, workerVars, counters
<1>10. CASE SweepDelete
  <2>1. /\ mysqlRequestMaps \in [Workers -> [Sessions -> Entry]]
        /\ mysqlRequestMaps' = [mysqlRequestMaps EXCEPT
                                   ![SweptShard][sweepKey] = NoEntry]
        /\ NoEntry \in Entry
    BY <1>10 DEF SweepDelete, TypeOK, NoEntry, Entry
  <2>2. /\ mysqlRequestMaps' \in [Workers -> [Sessions -> Entry]]
        /\ \A v \in Workers, r \in Sessions :
              \/ mysqlRequestMaps'[v][r] = mysqlRequestMaps[v][r]
              \/ mysqlRequestMaps'[v][r] = NoEntry
    BY <2>1
  <2>3. sweepKey' \in Sessions \union {NoSession}
        /\ UNCHANGED <<proc, captureVars, mysqlPacketChannels, workerVars,
                       status, loopCounter, sweepKeys, connections, snapshots>>
    BY <1>10 DEF SweepDelete
  <2>4. TypeOK'
    BY <2>2, <2>3 DEF TypeOK, captureVars, workerVars, counters
  <2>5. \A s \in Sessions : sent[s] \in Nat
    BY DEF TypeOK
  <2>6. FrameRefs'
    BY <2>2, <2>3, <2>5 DEF FrameRefs, captureVars, NoEntry
  <2>7. QED  BY <2>3, <2>4, <2>6
<1>11. CASE AfterSweep
  <2>1. loopCounter' \in 0 .. StatusPeriod
    BY <1>11, SizesAssumption DEF AfterSweep, SweepDone, TypeOK
  <2>2. connections' \in [Sessions -> Databases \union {NoDb}]
    BY <1>11 DEF AfterSweep, TypeOK, DefaultDatabases
  <2>3. snapshots' \in 0 .. MaxSnapshots /\ status' \in {"top", "sweep", "send"}
    BY <1>11, BoundsAssumption DEF AfterSweep, TypeOK
  <2>4. QED
    BY <1>11, <2>1, <2>2, <2>3
       DEF AfterSweep, SweepDone, TypeOK, FrameRefs, captureVars, workerVars, counters
<1>12. CASE MemoryPanic
  BY <1>12 DEF MemoryPanic, TypeOK, FrameRefs, captureVars, workerVars,
               statusVars, counters
<1>13. ASSUME NEW s \in Sessions, SendConnectionDefaultDatabase(s)
       PROVE  TypeInv'
  <2> DEFINE p == ParsedPacket(s, connections[s])
  <2>1. p \in Packet /\ p.IsParsed
    BY DEF TypeOK, Packet, ParsedPacket
  <2>2. /\ mysqlPacketChannels' = [mysqlPacketChannels EXCEPT
                                      ![ConnectionWorker(s)] = Append(@, p)]
        /\ connections' = [connections EXCEPT ![s] = NoDb]
        /\ UNCHANGED <<proc, captureVars, mysqlRequestMaps, workerVars, status,
                       loopCounter, sweepKeys, sweepKey, snapshots>>
    BY <1>13 DEF SendConnectionDefaultDatabase
  <2>3. ConnectionWorker(s) \in Workers
    BY WorkerIndex
  <2>4. /\ mysqlPacketChannels' \in [Workers -> Seq(Packet)]
        /\ \A v \in Workers : \A i \in DOMAIN mysqlPacketChannels'[v] :
              ~mysqlPacketChannels'[v][i].IsParsed =>
                 mysqlPacketChannels'[v][i].n
                    \in 1 .. sent[mysqlPacketChannels'[v][i].s]
    <3> HIDE DEF p
    <3>1. QED  BY <2>1, <2>2, <2>3, SendKeepsFrameRefs
  <2>5. TypeOK'
    BY <2>2, <2>4 DEF TypeOK, captureVars, workerVars, counters
  <2>6. FrameRefs'
    BY <2>2, <2>4 DEF FrameRefs, captureVars
  <2>7. QED  BY <2>2, <2>5, <2>6
<1>14. CASE AllSent
  <2>1. loopCounter' \in 0 .. StatusPeriod
    BY <1>14, SizesAssumption DEF AllSent, TypeOK
  <2>2. QED
    BY <1>14, <2>1 DEF AllSent, TypeOK, FrameRefs, captureVars, workerVars,
                       counters
<1>15. CASE UNCHANGED vars
  BY <1>15 DEF vars, TypeOK, FrameRefs, captureVars, workerVars, statusVars,
               counters
<1>16. QED
  BY <1>1, <1>2, <1>3, <1>4, <1>5, <1>6, <1>7, <1>8, <1>9, <1>10, <1>11,
     <1>12, <1>13, <1>14, <1>15
     DEF Next, WorkerNext, StatusNext, Ended

(* Every variable keeps its type, and in particular every frame the        *)
(* workers look up exists: sendUserPacket never handles a packet that was  *)
(* not transmitted, and the status loop's counter stays within its period. *)
THEOREM TypeCorrect == Spec => []TypeOK
<1>1. Init => TypeInv
  BY TypeInit
<1>2. TypeInv /\ [Next]_vars => TypeInv'
  BY TypeNext
<1>3. TypeInv => TypeOK
  BY DEF TypeInv
<1>4. QED  BY <1>1, <1>2, <1>3, PTL DEF Spec

-----------------------------------------------------------------------------
(* Bounds, ownership and accounting.                                       *)

(* A step that moves nothing through channels, batches and collections;    *)
(* partial requests may age or disappear.                                  *)
Quiet ==
    /\ UNCHANGED <<mysqlPacketChannels, workerVars>>
    /\ \A v \in Workers, r \in Sessions :
          \/ mysqlRequestMaps'[v][r] = NoEntry
          \/ /\ mysqlRequestMaps'[v][r].n = mysqlRequestMaps[v][r].n
             /\ mysqlRequestMaps[v][r] # NoEntry

(* The steps that matter to the properties below.                          *)
LEMMA StepCases ==
    ASSUME TypeInv, [Next]_vars
    PROVE  \/ AssembleUserPacket
           \/ \E s \in Sessions : SendConnectionDefaultDatabase(s)
           \/ \E w \in Workers : \/ ReceiveEffect(w) \/ Tick(w)
                                 \/ KeepBatch(w) \/ Flush(w)
           \/ Quiet
<1>1. ASSUME UNCHANGED <<mysqlPacketChannels, mysqlRequestMaps, workerVars>>
      PROVE  Quiet
  BY <1>1 DEF Quiet
<1>2. ASSUME NEW s \in Sessions, CaptureNext(s) \/ PacketDropped(s)
      PROVE  Quiet
  BY <1>1, <1>2 DEF CaptureNext, PacketDropped
<1>3. ASSUME NEW s \in Sessions, SweepLook(s)
      PROVE  Quiet
  BY <1>1, <1>3 DEF SweepLook
<1>4. CASE StatusTop \/ AfterSweep \/ MemoryPanic \/ AllSent \/ CaptureEnds
  <2>1. UNCHANGED <<mysqlPacketChannels, mysqlRequestMaps, workerVars>>
    BY <1>4 DEF StatusTop, AfterSweep, MemoryPanic, AllSent, CaptureEnds
  <2>2. QED  BY <1>1, <2>1
<1>5. CASE UNCHANGED vars
  BY <1>1, <1>5 DEF vars
<1>6. mysqlRequestMaps \in [Workers -> [Sessions -> Entry]]
  BY DEF TypeInv, TypeOK
<1>7. CASE SweepDelete
  <2>1. /\ mysqlRequestMaps' = [mysqlRequestMaps EXCEPT
                                   ![SweptShard][sweepKey] = NoEntry]
        /\ UNCHANGED <<mysqlPacketChannels, workerVars>>
    BY <1>7 DEF SweepDelete
  <2>2. \A v \in Workers, r \in Sessions :
           \/ mysqlRequestMaps'[v][r] = NoEntry
           \/ mysqlRequestMaps'[v][r] = mysqlRequestMaps[v][r]
    BY <1>6, <2>1
  <2>3. QED  BY <2>1, <2>2 DEF Quiet
<1>8. ASSUME NEW w \in Workers, NEW s \in Sessions, EntryAges(w, s)
      PROVE  Quiet
  <2>1. /\ mysqlRequestMaps' = [mysqlRequestMaps EXCEPT ![w][s] =
                                   [n |-> mysqlRequestMaps[w][s].n, old |-> TRUE]]
        /\ mysqlRequestMaps[w][s] # NoEntry
        /\ UNCHANGED <<mysqlPacketChannels, workerVars>>
    BY <1>8 DEF EntryAges
  <2>2. \A v \in Workers, r \in Sessions :
           \/ mysqlRequestMaps'[v][r] = mysqlRequestMaps[v][r]
           \/ /\ v = w /\ r = s
              /\ mysqlRequestMaps'[v][r].n = mysqlRequestMaps[v][r].n
    BY <1>6, <2>1
  <2>3. QED  BY <2>1, <2>2 DEF Quiet
<1>9. ASSUME NEW w \in Workers, WorkerReceive(w)
      PROVE  ReceiveEffect(w)
  BY <1>9, ReceiveHasEffect
<1>10. QED
  BY <1>2, <1>3, <1>4, <1>5, <1>7, <1>8, <1>9
     DEF Next, WorkerNext, StatusNext, Ended

(* How a receive changes the batch.                                        *)
LEMMA ReceiveBatch ==
    ASSUME TypeInv, NEW w \in Workers, ReceiveEffect(w)
    PROVE  \/ UNCHANGED <<batches, validPackets, infos>>
           \/ \E d \in Document :
                 /\ batches' = [batches EXCEPT ![w] = Append(@, d)]
                 /\ d.s = Received(w).s
                 /\ DocumentFrames(w, Received(w), d)
                 /\ validPackets'[w] + infos'[w] = validPackets[w] + infos[w] + 1
                 /\ \A v \in Workers \ {w} :
                       validPackets'[v] = validPackets[v] /\ infos'[v] = infos[v]
<1>1. validPackets \in [Workers -> Nat] /\ infos \in [Workers -> Nat]
  BY DEF TypeInv, TypeOK
<1>2. CASE NoDocument(w)
  BY <1>2 DEF NoDocument
<1>3. ASSUME NEW d \in Document, OneDocument(w, d)
      PROVE  /\ batches' = [batches EXCEPT ![w] = Append(@, d)]
             /\ validPackets'[w] + infos'[w] = validPackets[w] + infos[w] + 1
             /\ \A v \in Workers \ {w} :
                   validPackets'[v] = validPackets[v] /\ infos'[v] = infos[v]
  <2>1. CASE validPackets' = [validPackets EXCEPT ![w] = @ + 1] /\ UNCHANGED infos
    BY <1>1, <1>3, <2>1 DEF OneDocument, Enqueue
  <2>2. CASE infos' = [infos EXCEPT ![w] = @ + 1] /\ UNCHANGED validPackets
    BY <1>1, <1>3, <2>2 DEF OneDocument, Enqueue
  <2>3. QED  BY <1>3, <2>1, <2>2 DEF OneDocument
<1>4. QED  BY <1>2, <1>3 DEF ReceiveEffect

(* The array of the batch and the channels' buffers are never overrun.     *)
LEMMA BoundsNext ==
    ASSUME TypeInv, BatchInBounds, [Next]_vars
    PROVE  BatchInBounds'
<1> USE DEF BatchInBounds
<1>1. /\ mysqlPacketChannels \in [Workers -> Seq(Packet)]
      /\ batches \in [Workers -> Seq(Document)]
      /\ pc \in [Workers -> {"select", "received", "ticked"}]
      /\ queueBatchSize \in Nat /\ channelBufferSize \in Nat
  BY SizesAssumption DEF TypeInv, TypeOK
<1>2. ASSUME NEW w \in Workers, NEW p \in Packet,
             Len(mysqlPacketChannels[w]) < channelBufferSize,
             mysqlPacketChannels' = [mysqlPacketChannels EXCEPT ![w] = Append(@, p)],
             UNCHANGED workerVars
      PROVE  BatchInBounds'
  <2>1. Len(Append(mysqlPacketChannels[w], p)) = Len(mysqlPacketChannels[w]) + 1
        /\ Len(mysqlPacketChannels[w]) \in Nat
    BY <1>1, AppendElements
  <2>2. \A v \in Workers : Len(mysqlPacketChannels'[v]) <= channelBufferSize
    BY <1>1, <1>2, <2>1
  <2>3. QED  BY <1>2, <2>2 DEF workerVars
<1>3. CASE AssembleUserPacket
  <2>1. pending \in Packet /\ pending.s \in Sessions
    BY <1>3 DEF AssembleUserPacket, TypeInv, TypeOK, Packet
  <2>2. QED
    BY <1>2, <1>3, <2>1, WorkerIndex DEF AssembleUserPacket, Room
<1>4. ASSUME NEW s \in Sessions, SendConnectionDefaultDatabase(s)
      PROVE  BatchInBounds'
  <2>1. ParsedPacket(s, connections[s]) \in Packet
    BY DEF TypeInv, TypeOK, Packet, ParsedPacket
  <2>2. QED
    BY <1>2, <1>4, <2>1, WorkerIndex DEF SendConnectionDefaultDatabase, Room
<1>5. ASSUME NEW w \in Workers, ReceiveEffect(w)
      PROVE  BatchInBounds'
  <2>1. /\ pc[w] = "select" /\ pc' = [pc EXCEPT ![w] = "received"]
        /\ mysqlPacketChannels[w] # <<>>
        /\ mysqlPacketChannels' = [mysqlPacketChannels EXCEPT ![w] = Tail(@)]
    BY <1>5 DEF ReceiveEffect, Receive
  <2>2. \A v \in Workers : Len(mysqlPacketChannels'[v]) <= channelBufferSize
    BY <1>1, <2>1, TailElements
  <2>3. \A v \in Workers : \/ batches'[v] = batches[v]
                           \/ /\ v = w
                              /\ Len(batches'[v]) = Len(batches[v]) + 1
    BY <1>1, <1>5, ReceiveBatch, AppendElements
  <2>4. \A v \in Workers : Len(batches[v]) \in Nat
    BY <1>1
  <2>5. QED  BY <1>1, <2>1, <2>2, <2>3, <2>4
<1>6. ASSUME NEW w \in Workers, Tick(w) \/ KeepBatch(w)
      PROVE  BatchInBounds'
  <2>1. /\ UNCHANGED <<mysqlPacketChannels, batches>>
        /\ \/ pc' = [pc EXCEPT ![w] = "ticked"]
           \/ /\ pc' = [pc EXCEPT ![w] = "select"]
              /\ ~(Len(batches[w]) >= queueBatchSize)
    BY <1>6 DEF Tick, KeepBatch, FlushDue, TypeInv, TypeOK
  <2>2. \A v \in Workers : Len(batches[v]) \in Nat
    BY <1>1
  <2>3. QED  BY <1>1, <2>1, <2>2
<1>7. ASSUME NEW w \in Workers, Flush(w)
      PROVE  BatchInBounds'
  <2>1. /\ UNCHANGED mysqlPacketChannels
        /\ batches' = [batches EXCEPT ![w] = <<>>]
        /\ pc' = [pc EXCEPT ![w] = "select"]
    BY <1>7 DEF Flush
  <2>2. \A v \in Workers : \/ v # w /\ batches'[v] = batches[v] /\ pc'[v] = pc[v]
                           \/ v = w /\ batches'[v] = <<>>
    BY <1>1, <2>1
  <2>3. QED  BY <2>1, <2>2, SizesAssumption
<1>8. CASE Quiet
  BY <1>8 DEF Quiet, workerVars
<1>9. QED
  BY <1>3, <1>4, <1>5, <1>6, <1>7, <1>8, StepCases

(* batches[batched] never exceeds its queueBatchSize slots and channels    *)
(* stay within their capacity, for any sizes and any number of threads.    *)
THEOREM BatchesInBounds == Spec => []BatchInBounds
<1>1. Init => BatchInBounds
  BY SizesAssumption DEF Init, BatchInBounds
<1>2. TypeInv /\ BatchInBounds /\ [Next]_vars => (TypeInv /\ BatchInBounds)'
  BY BoundsNext, TypeNext
<1>3. QED  BY <1>1, <1>2, TypeInit, PTL DEF Spec

(* ShardOwnership is not inductive by itself: sendConnectionDefaultDatabase*)
(* routes by the client's port, which is GetPortNo's number only because   *)
(* the process list query never yields an IPv6 connection.                 *)
ShardInv ==
    /\ ShardOwnership
    /\ \A s \in Sessions : connections[s] # NoDb => s \notin HiddenSessions

(* Every step keeps the routing.                                           *)
LEMMA ShardNext ==
    ASSUME TypeInv, ShardInv, [Next]_vars
    PROVE  ShardInv'
<1> USE DEF ShardInv
<1>1. /\ mysqlPacketChannels \in [Workers -> Seq(Packet)]
      /\ batches \in [Workers -> Seq(Document)]
      /\ mongo \in [Workers -> Seq(Document)]
      /\ mysqlRequestMaps \in [Workers -> [Sessions -> Entry]]
      /\ connections \in [Sessions -> Databases \union {NoDb}]
  BY DEF TypeInv, TypeOK
<1>2. \A s \in Sessions : connections'[s] # NoDb => s \notin HiddenSessions
  <2>1. CASE AfterSweep
    BY <2>1 DEF AfterSweep, DefaultDatabases
  <2>2. ASSUME NEW s \in Sessions, SendConnectionDefaultDatabase(s)
        PROVE  <1>2
    BY <1>1, <2>2 DEF SendConnectionDefaultDatabase
  <2>3. CASE UNCHANGED connections
    BY <2>3
  <2>4. ASSUME NEW w \in Workers, WorkerNext(w)
        PROVE  UNCHANGED connections
    BY <2>4, ReceiveHasEffect
       DEF WorkerNext, ReceiveEffect, Receive, Tick, KeepBatch, Flush, statusVars
  <2>5. QED
    BY <2>1, <2>2, <2>3, <2>4
       DEF Next, StatusNext, Ended, vars, statusVars, CaptureNext, PacketDropped,
           AssembleUserPacket, CaptureEnds, EntryAges, StatusTop, SweepDelete,
           SweepLook, MemoryPanic, AllSent
<1>3. ASSUME NEW w \in Workers, NEW p \in Packet, WorkerOf(p.s) = w,
             mysqlPacketChannels' = [mysqlPacketChannels EXCEPT ![w] = Append(@, p)],
             UNCHANGED <<mysqlRequestMaps, workerVars>>
      PROVE  ShardOwnership'
  <2>1. \A v \in Workers : \A i \in DOMAIN mysqlPacketChannels'[v] :
           \/ v = w /\ mysqlPacketChannels'[v][i] = p
           \/ \E j \in DOMAIN mysqlPacketChannels[v] :
                 mysqlPacketChannels'[v][i] = mysqlPacketChannels[v][j]
    BY <1>1, <1>3, AppendElements
  <2>2. QED  BY <1>3, <2>1 DEF ShardOwnership, workerVars
<1>4. CASE AssembleUserPacket
  <2>1. pending \in Packet /\ pending.s \in Sessions
    BY <1>4 DEF AssembleUserPacket, TypeInv, TypeOK, Packet
  <2>2. ShardOwnership'
    BY <1>3, <1>4, <2>1, WorkerIndex DEF AssembleUserPacket
  <2>3. QED  BY <1>2, <2>2
<1>5. ASSUME NEW s \in Sessions, SendConnectionDefaultDatabase(s)
      PROVE  ShardInv'
  <2> DEFINE p == ParsedPacket(s, connections[s])
  <2>1. p \in Packet /\ p.s = s
    BY <1>1 DEF Packet, ParsedPacket
  <2>2. ConnectionWorker(s) = WorkerOf(s) /\ WorkerOf(s) \in Workers
    BY <1>5, WorkerIndex DEF SendConnectionDefaultDatabase
  <2>3. /\ mysqlPacketChannels' = [mysqlPacketChannels EXCEPT
                                      ![WorkerOf(s)] = Append(@, p)]
        /\ UNCHANGED <<mysqlRequestMaps, workerVars>>
    BY <1>5, <2>2 DEF SendConnectionDefaultDatabase
  <2> HIDE DEF p
  <2>4. QED  BY <1>2, <1>3, <2>1, <2>2, <2>3
<1>6. ASSUME NEW w \in Workers, ReceiveEffect(w)
      PROVE  ShardInv'
  <2> DEFINE p == Received(w)
  <2>1. /\ mysqlPacketChannels[w] # <<>>
        /\ mysqlPacketChannels' = [mysqlPacketChannels EXCEPT ![w] = Tail(@)]
        /\ UNCHANGED mongo
    BY <1>6 DEF ReceiveEffect, Receive
  <2>2. /\ \A v \in Workers : \A i \in DOMAIN mysqlPacketChannels'[v] :
              \E j \in DOMAIN mysqlPacketChannels[v] :
                 mysqlPacketChannels'[v][i] = mysqlPacketChannels[v][j]
        /\ p = mysqlPacketChannels[w][1] /\ 1 \in DOMAIN mysqlPacketChannels[w]
        /\ p \in Packet
    BY <1>1, <2>1, TailElements DEF Received
  <2>3. WorkerOf(p.s) = w /\ p.s \in Sessions
    BY <2>2 DEF ShardOwnership, Packet
  <2>4. \A v \in Workers, s \in Sessions :
           mysqlRequestMaps'[v][s] # NoEntry =>
              mysqlRequestMaps[v][s] # NoEntry \/ (v = w /\ s = p.s)
    <3>1. CASE UNCHANGED mysqlRequestMaps
      BY <3>1
    <3>2. ASSUME NEW e, mysqlRequestMaps' = [mysqlRequestMaps EXCEPT ![w][p.s] = e]
          PROVE  <2>4
      <4> HIDE DEF p
      <4>1. QED  BY <1>1, <2>3, <3>2
    <3>3. QED  BY <1>6, <3>1, <3>2 DEF ReceiveEffect, MapEffect
  <2>5. \A v \in Workers : \A i \in DOMAIN batches'[v] :
           \/ i \in DOMAIN batches[v] /\ batches'[v][i] = batches[v][i]
           \/ v = w /\ batches'[v][i].s = p.s
    <3>1. CASE UNCHANGED batches
      BY <3>1
    <3>2. ASSUME NEW d \in Document, d.s = p.s,
                 batches' = [batches EXCEPT ![w] = Append(@, d)]
          PROVE  <2>5
      BY <1>1, <3>2, AppendElements
    <3>3. QED  BY <1>6, <3>1, <3>2, ReceiveBatch
  <2> HIDE DEF p
  <2>6. QED  BY <1>2, <2>1, <2>2, <2>3, <2>4, <2>5 DEF ShardOwnership
<1>7. ASSUME NEW w \in Workers, Tick(w) \/ KeepBatch(w)
      PROVE  ShardInv'
  BY <1>2, <1>7 DEF Tick, KeepBatch, ShardOwnership
<1>8. ASSUME NEW w \in Workers, Flush(w)
      PROVE  ShardInv'
  <2>1. PICK k \in 0 .. Len(batches[w]) :
           mongo' = [mongo EXCEPT ![w] = @ \o SubSeq(batches[w], 1, k)]
    BY <1>8, FlushEffect
  <2>2. /\ batches' = [batches EXCEPT ![w] = <<>>]
        /\ UNCHANGED <<mysqlPacketChannels, mysqlRequestMaps>>
    BY <1>8 DEF Flush
  <2>3. \A v \in Workers : \A i \in DOMAIN mongo'[v] :
           \/ i \in DOMAIN mongo[v] /\ mongo'[v][i] = mongo[v][i]
           \/ \E j \in DOMAIN batches[v] : mongo'[v][i] = batches[v][j]
    <3>1. mongo'[w] = mongo[w] \o SubSeq(batches[w], 1, k)
          /\ \A v \in Workers \ {w} : mongo'[v] = mongo[v]
      BY <1>1, <2>1
    <3>2. \A i \in DOMAIN mongo'[w] :
             \/ i \in DOMAIN mongo[w] /\ mongo'[w][i] = mongo[w][i]
             \/ \E j \in DOMAIN batches[w] : mongo'[w][i] = batches[w][j]
      BY <1>1, <3>1, ConcatPrefix
    <3>3. QED  BY <3>1, <3>2
  <2>4. \A v \in Workers : \A i \in DOMAIN batches'[v] :
           i \in DOMAIN batches[v] /\ batches'[v][i] = batches[v][i]
    BY <1>1, <2>2
  <2>5. QED  BY <1>2, <2>2, <2>3, <2>4 DEF ShardOwnership
<1>9. CASE Quiet
  BY <1>2, <1>9 DEF Quiet, ShardOwnership, workerVars
<1>10. QED
  BY <1>4, <1>5, <1>6, <1>7, <1>8, <1>9, StepCases

(* All packets, partial requests and documents of a session stay with one  *)
(* worker and one collection, although frames and process list entries are *)
(* routed by two different pieces of code.                                 *)
THEOREM ShardsOwnSessions == Spec => []ShardOwnership
<1>1. Init => ShardInv
  BY DEF Init, ShardInv, ShardOwnership
<1>2. TypeInv /\ ShardInv /\ [Next]_vars => (TypeInv /\ ShardInv)'
  BY ShardNext, TypeNext
<1>3. ShardInv => ShardOwnership
  BY DEF ShardInv
<1>4. QED  BY <1>1, <1>2, <1>3, TypeInit, PTL DEF Spec

-----------------------------------------------------------------------------
(* Accounting is inductive given the types.                                *)
LEMMA AccountingNext ==
    ASSUME TypeInv, Accounting, [Next]_vars
    PROVE  Accounting'
<1> USE DEF Accounting
<1>1. /\ batches \in [Workers -> Seq(Document)]
      /\ mongo \in [Workers -> Seq(Document)]
      /\ validPackets \in [Workers -> Nat] /\ infos \in [Workers -> Nat]
      /\ mqErrorCounters \in [Workers -> Nat]
  BY DEF TypeInv, TypeOK
<1>2. \A v \in Workers : /\ Len(batches[v]) \in Nat /\ Len(mongo[v]) \in Nat
                         /\ validPackets[v] \in Nat /\ infos[v] \in Nat
                         /\ mqErrorCounters[v] \in Nat
                         /\ Len(batches'[v]) \in Nat /\ Len(mongo'[v]) \in Nat
                         /\ validPackets'[v] \in Nat /\ infos'[v] \in Nat
                         /\ mqErrorCounters'[v] \in Nat
  <2>1. /\ batches' \in [Workers -> Seq(Document)]
        /\ mongo' \in [Workers -> Seq(Document)]
        /\ validPackets' \in [Workers -> Nat] /\ infos' \in [Workers -> Nat]
        /\ mqErrorCounters' \in [Workers -> Nat]
    BY TypeNext DEF TypeInv, TypeOK
  <2>2. QED  BY <1>1, <2>1
<1>3. ASSUME UNCHANGED workerVars
      PROVE  Accounting'
  BY <1>3 DEF workerVars, counters
<1>4. CASE AssembleUserPacket \/ Quiet
  BY <1>3, <1>4 DEF AssembleUserPacket, Quiet
<1>5. ASSUME NEW s \in Sessions, SendConnectionDefaultDatabase(s)
      PROVE  Accounting'
  BY <1>3, <1>5 DEF SendConnectionDefaultDatabase
<1>6. ASSUME NEW w \in Workers, ReceiveEffect(w)
      PROVE  Accounting'
  <2>1. UNCHANGED <<mongo, mqErrorCounters>>
    BY <1>6 DEF ReceiveEffect, Receive
  <2>2. CASE UNCHANGED <<batches, validPackets, infos>>
    BY <2>1, <2>2
  <2>3. ASSUME NEW d \in Document,
               batches' = [batches EXCEPT ![w] = Append(@, d)],
               validPackets'[w] + infos'[w] = validPackets[w] + infos[w] + 1,
               \A v \in Workers \ {w} :
                  validPackets'[v] = validPackets[v] /\ infos'[v] = infos[v]
        PROVE  Accounting'
    <3>1. \A v \in Workers :
             \/ v = w /\ Len(batches'[v]) = Len(batches[v]) + 1
             \/ v # w /\ batches'[v] = batches[v]
      BY <1>1, <2>3, AppendElements
    <3>2. SUFFICES ASSUME NEW v \in Workers PROVE Accounting!(v)'
      OBVIOUS
    <3>3. Accounting!(v) /\ mongo'[v] = mongo[v]
          /\ mqErrorCounters'[v] = mqErrorCounters[v]
      BY <2>1
    <3>4. CASE v = w
      <4> DEFINE m == Len(mongo[w])  q == mqErrorCounters[w]
                 b == Len(batches[w])  b1 == Len(batches'[w])
                 t == validPackets[w] + infos[w]
                 t1 == validPackets'[w] + infos'[w]
      <4>1. /\ m \in Nat /\ q \in Nat /\ b \in Nat /\ t \in Nat
            /\ b1 = b + 1 /\ t1 = t + 1
        BY <1>2, <2>3, <3>1
      <4>2. m + b <= t /\ t <= m + b + q
        BY <3>3, <3>4
      <4>3. m + b1 <= t1 /\ t1 <= m + b1 + q
        <5> HIDE DEF m, q, b, b1, t, t1
        <5>1. QED  BY <4>1, <4>2
      <4>4. QED  BY <3>3, <3>4, <4>3
    <3>5. CASE v # w
      BY <2>3, <3>1, <3>3, <3>5
    <3>6. QED  BY <3>4, <3>5
  <2>4. QED  BY <1>6, <2>2, <2>3, ReceiveBatch
<1>7. ASSUME NEW w \in Workers, Tick(w) \/ KeepBatch(w)
      PROVE  Accounting'
  BY <1>7 DEF Tick, KeepBatch, counters
<1>8. ASSUME NEW w \in Workers, Flush(w)
      PROVE  Accounting'
  <2>1. PICK k \in 0 .. Len(batches[w]) :
           /\ mongo' = [mongo EXCEPT ![w] = @ \o SubSeq(batches[w], 1, k)]
           /\ \/ mqErrorCounters' = [mqErrorCounters EXCEPT ![w] =
                                        @ + Len(batches[w])]
              \/ k = Len(batches[w]) /\ UNCHANGED mqErrorCounters
    BY <1>8, FlushEffect
  <2>2. /\ batches' = [batches EXCEPT ![w] = <<>>]
        /\ UNCHANGED <<validPackets, infos>>
    BY <1>8 DEF Flush
  <2>3. /\ Len(mongo'[w]) = Len(mongo[w]) + k
        /\ Len(batches'[w]) = 0
        /\ \/ mqErrorCounters'[w] = mqErrorCounters[w] + Len(batches[w])
           \/ k = Len(batches[w]) /\ mqErrorCounters'[w] = mqErrorCounters[w]
        /\ \A v \in Workers \ {w} : /\ mongo'[v] = mongo[v]
                                    /\ batches'[v] = batches[v]
                                    /\ mqErrorCounters'[v] = mqErrorCounters[v]
    BY <1>1, <2>1, <2>2, ConcatPrefix
  <2>4. SUFFICES ASSUME NEW v \in Workers PROVE Accounting!(v)'
    OBVIOUS
  <2>5. Accounting!(v) /\ validPackets'[v] = validPackets[v] /\ infos'[v] = infos[v]
    BY <2>2
  <2>6. CASE v = w
    <3> DEFINE m == Len(mongo[w])  m1 == Len(mongo'[w])  b == Len(batches[w])
               b1 == Len(batches'[w])
               q == mqErrorCounters[w]  q1 == mqErrorCounters'[w]
               t == validPackets[w] + infos[w]
    <3>1. /\ m \in Nat /\ q \in Nat /\ b \in Nat /\ t \in Nat /\ k \in 0 .. b
          /\ m1 = m + k /\ b1 = 0
          /\ q1 = q + b \/ (k = b /\ q1 = q)
      BY <1>2, <2>3
    <3>2. m + b <= t /\ t <= m + b + q
      BY <2>5, <2>6
    <3>3. m1 + b1 <= t /\ t <= m1 + b1 + q1
      <4> HIDE DEF m, m1, b, b1, q, q1, t
      <4>1. QED  BY <3>1, <3>2
    <3>4. QED  BY <2>5, <2>6, <3>3
  <2>7. CASE v # w
    BY <2>3, <2>5, <2>7
  <2>8. QED  BY <2>6, <2>7
<1>9. QED
  BY <1>4, <1>5, <1>6, <1>7, <1>8, StepCases

(* No request counted as valid disappears without an MQ error and none is  *)
(* stored twice, whatever prefix of a bulk insert MongoDB has kept.        *)
THEOREM RequestsAccounted == Spec => []Accounting
<1>1. Init => Accounting
  BY DEF Init, Accounting
<1>2. TypeInv /\ Accounting /\ [Next]_vars => (TypeInv /\ Accounting)'
  BY AccountingNext, TypeNext
<1>3. QED  BY <1>1, <1>2, TypeInit, PTL DEF Spec

-----------------------------------------------------------------------------
(* Order.                                                                  *)

Docs(w) == {mongo[w][i] : i \in DOMAIN mongo[w]}
           \union {batches[w][i] : i \in DOMAIN batches[w]}

(* No document of s that worker w has built uses frame n or a later one.   *)
DocsBefore(w, s, n) ==
    \A d \in Docs(w) :
        d.s = s /\ d.frames # <<>> => d.frames[Len(d.frames)] < n

(***************************************************************************)
(* QueueOrder holds because of what is still under way: the stored partial *)
(* request of a session is newer than all its documents, the frames in the *)
(* channel are newer than both and in order among themselves, the frame    *)
(* main is blocked on is newer still, and the next frame is the newest.    *)
(***************************************************************************)
ChannelOrder ==
    \A w \in Workers : \A i \in DOMAIN mysqlPacketChannels[w] :
        LET p == mysqlPacketChannels[w][i] IN
        ~p.IsParsed =>
            /\ DocsBefore(w, p.s, p.n)
            /\ mysqlRequestMaps[w][p.s].n < p.n
            /\ \A j \in DOMAIN mysqlPacketChannels[w] :
                  LET r == mysqlPacketChannels[w][j] IN
                  j > i /\ ~r.IsParsed /\ r.s = p.s => p.n < r.n

MapOrder ==
    \A w \in Workers, s \in Sessions :
        mysqlRequestMaps[w][s].n # 0 =>
            DocsBefore(w, s, mysqlRequestMaps[w][s].n)

PendingOrder ==
    pending # NoPacket =>
        \A w \in Workers :
            /\ DocsBefore(w, pending.s, pending.n)
            /\ mysqlRequestMaps[w][pending.s].n < pending.n
            /\ \A i \in DOMAIN mysqlPacketChannels[w] :
                  LET p == mysqlPacketChannels[w][i] IN
                  ~p.IsParsed /\ p.s = pending.s => p.n < pending.n

NextOrder == \A w \in Workers, s \in Sessions : DocsBefore(w, s, sent[s] + 1)

OrderInv ==
    QueueOrder /\ ChannelOrder /\ MapOrder /\ PendingOrder /\ NextOrder

(* The last frame of a document is a number.                               *)
LEMMA LastFrameType ==
    ASSUME TypeInv, NEW w \in Workers, NEW d \in Docs(w)
    PROVE  d \in Document /\ (d.frames # <<>> => d.frames[Len(d.frames)] \in Nat)
<1>1. mongo[w] \in Seq(Document) /\ batches[w] \in Seq(Document)
  BY DEF TypeInv, TypeOK
<1>2. d \in Document
  BY <1>1, SeqElement DEF Docs
<1>3. d.frames \in Seq(Nat)
  BY <1>2 DEF Document
<1>4. QED  BY <1>2, <1>3

(* Two packets at the same or a later place of the frame order.            *)
LEMMA DocsBeforeLater ==
    ASSUME TypeInv, NEW w \in Workers, NEW s, NEW m \in Nat, NEW n \in Nat,
           DocsBefore(w, s, m), m <= n
    PROVE  DocsBefore(w, s, n)
<1> SUFFICES ASSUME NEW d \in Docs(w), d.s = s, d.frames # <<>>
             PROVE  d.frames[Len(d.frames)] < n
  BY DEF DocsBefore
<1>1. d.frames[Len(d.frames)] \in Nat
  BY LastFrameType
<1>2. d.frames[Len(d.frames)] < m
  BY DEF DocsBefore
<1>3. QED  BY <1>1, <1>2

(* The packets of a channel.                                               *)
LEMMA PacketType ==
    ASSUME TypeInv, NEW w \in Workers, NEW i \in DOMAIN mysqlPacketChannels[w]
    PROVE  /\ mysqlPacketChannels[w][i] \in Packet
           /\ mysqlPacketChannels[w][i].s \in Sessions
           /\ ~mysqlPacketChannels[w][i].IsParsed =>
                 /\ mysqlPacketChannels[w][i].n \in Nat
                 /\ mysqlPacketChannels[w][i].n >= 1
                 /\ mysqlPacketChannels[w][i].n
                       <= sent[mysqlPacketChannels[w][i].s]
<1>1. mysqlPacketChannels[w] \in Seq(Packet)
  BY DEF TypeInv, TypeOK
<1>2. mysqlPacketChannels[w][i] \in Packet
  BY <1>1, SeqElement
<1>3. mysqlPacketChannels[w][i].s \in Sessions
  BY <1>2 DEF Packet
<1>4. sent[mysqlPacketChannels[w][i].s] \in Nat
  BY <1>3 DEF TypeInv, TypeOK
<1>5. QED  BY <1>2, <1>3, <1>4 DEF TypeInv, FrameRefs

(* A step that leaves the channels alone, builds no document and may only  *)
(* drop documents or partial requests keeps the order; PendingOrder as     *)
(* long as no new frame is captured.                                       *)
LEMMA OrderKept ==
    ASSUME TypeInv, OrderInv, QueueOrder',
           \A w \in Workers : Docs(w)' \subseteq Docs(w),
           \A w \in Workers, s \in Sessions :
              \/ mysqlRequestMaps'[w][s].n = 0
              \/ mysqlRequestMaps'[w][s].n = mysqlRequestMaps[w][s].n,
           UNCHANGED mysqlPacketChannels,
           \A s \in Sessions : sent'[s] \in Nat /\ sent[s] <= sent'[s]
    PROVE  /\ QueueOrder' /\ ChannelOrder' /\ MapOrder' /\ NextOrder'
           /\ pending' \in {NoPacket, pending} => PendingOrder'
<1> USE DEF OrderInv
<1>1. \A w \in Workers : \A s, n : DocsBefore(w, s, n) => DocsBefore(w, s, n)'
  BY DEF DocsBefore
<1>2. ChannelOrder'
  <2> SUFFICES ASSUME NEW w \in Workers, NEW i \in DOMAIN mysqlPacketChannels[w],
                      ~mysqlPacketChannels[w][i].IsParsed
               PROVE  LET p == mysqlPacketChannels[w][i] IN
                      /\ DocsBefore(w, p.s, p.n)'
                      /\ mysqlRequestMaps'[w][p.s].n < p.n
                      /\ \A j \in DOMAIN mysqlPacketChannels[w] :
                            LET r == mysqlPacketChannels[w][j] IN
                            j > i /\ ~r.IsParsed /\ r.s = p.s => p.n < r.n
    BY DEF ChannelOrder
  <2> DEFINE p == mysqlPacketChannels[w][i]
  <2>1. p.s \in Sessions /\ p.n \in Nat /\ p.n >= 1
    BY PacketType
  <2>2. /\ DocsBefore(w, p.s, p.n) /\ mysqlRequestMaps[w][p.s].n < p.n
        /\ \A j \in DOMAIN mysqlPacketChannels[w] :
              LET r == mysqlPacketChannels[w][j] IN
              j > i /\ ~r.IsParsed /\ r.s = p.s => p.n < r.n
    BY DEF ChannelOrder
  <2>3. DocsBefore(w, p.s, p.n)'
    BY <2>2 DEF DocsBefore
  <2>4. mysqlRequestMaps'[w][p.s].n < p.n
    BY <2>1, <2>2
  <2>5. QED  BY <2>2, <2>3, <2>4
<1>3. MapOrder'
  BY DEF MapOrder, DocsBefore
<1>4. NextOrder'
  <2> SUFFICES ASSUME NEW w \in Workers, NEW s \in Sessions
               PROVE  DocsBefore(w, s, sent[s] + 1)'
    BY DEF NextOrder
  <2>1. sent[s] \in Nat /\ sent'[s] \in Nat /\ sent[s] + 1 <= sent'[s] + 1
    BY DEF TypeInv, TypeOK
  <2>2. DocsBefore(w, s, sent[s] + 1)
    BY DEF NextOrder
  <2>3. DocsBefore(w, s, sent'[s] + 1)
    BY <2>1, <2>2, DocsBeforeLater
  <2>4. QED  BY <2>3 DEF DocsBefore
<1>5. ASSUME pending' \in {NoPacket, pending}
      PROVE  PendingOrder'
  <2> SUFFICES ASSUME pending # NoPacket, pending' = pending, NEW w \in Workers
               PROVE  /\ DocsBefore(w, pending.s, pending.n)'
                      /\ mysqlRequestMaps'[w][pending.s].n < pending.n
                      /\ \A i \in DOMAIN mysqlPacketChannels[w] :
                            LET p == mysqlPacketChannels[w][i] IN
                            ~p.IsParsed /\ p.s = pending.s => p.n < pending.n
    BY <1>5 DEF PendingOrder
  <2>1. pending.s \in Sessions /\ pending.n \in Nat /\ pending.n >= 1
    BY DEF TypeInv, TypeOK, FrameRefs, Packet
  <2>2. /\ DocsBefore(w, pending.s, pending.n)
        /\ mysqlRequestMaps[w][pending.s].n < pending.n
        /\ \A i \in DOMAIN mysqlPacketChannels[w] :
              LET p == mysqlPacketChannels[w][i] IN
              ~p.IsParsed /\ p.s = pending.s => p.n < pending.n
    BY DEF PendingOrder
  <2>3. DocsBefore(w, pending.s, pending.n)'
    BY <2>2 DEF DocsBefore
  <2>4. mysqlRequestMaps'[w][pending.s].n < pending.n
    BY <2>1, <2>2
  <2>5. QED  BY <2>2, <2>3, <2>4
<1>6. QED  BY <1>2, <1>3, <1>4, <1>5

(* A send puts a packet behind the others; a captured one is newer than    *)
(* all its session has under way.                                          *)
LEMMA OrderSend ==
    ASSUME TypeInv, OrderInv, NEW w \in Workers, NEW p \in Packet,
           mysqlPacketChannels' = [mysqlPacketChannels EXCEPT ![w] = Append(@, p)],
           p.IsParsed \/ p = pending,
           pending' \in {NoPacket, pending}, p = pending => pending' = NoPacket,
           UNCHANGED <<sent, mysqlRequestMaps, workerVars>>,
           pending # NoPacket => ~pending.IsParsed
    PROVE  OrderInv'
<1> USE DEF OrderInv
<1>1. mysqlPacketChannels \in [Workers -> Seq(Packet)] /\ NoPacket \notin Packet
  BY SessionsAssumption DEF TypeInv, TypeOK, Packet, NoPacket
<1>2. \A v \in Workers : Docs(v)' = Docs(v)
  BY DEF Docs, workerVars
<1>3. QueueOrder' /\ MapOrder' /\ NextOrder'
  BY <1>2 DEF QueueOrder, MapOrder, NextOrder, DocsBefore, workerVars
<1>4. \A v \in Workers : \A i \in DOMAIN mysqlPacketChannels'[v] :
         \/ /\ i \in DOMAIN mysqlPacketChannels[v]
            /\ mysqlPacketChannels'[v][i] = mysqlPacketChannels[v][i]
         \/ /\ v = w /\ mysqlPacketChannels'[v][i] = p
            /\ \A j \in DOMAIN mysqlPacketChannels'[v] : ~(j > i)
  BY <1>1, AppendElements
<1>5. ChannelOrder'
  <2> SUFFICES ASSUME NEW v \in Workers, NEW i \in DOMAIN mysqlPacketChannels'[v],
                      ~mysqlPacketChannels'[v][i].IsParsed
               PROVE  LET c == mysqlPacketChannels'[v][i] IN
                      /\ DocsBefore(v, c.s, c.n)
                      /\ mysqlRequestMaps[v][c.s].n < c.n
                      /\ \A j \in DOMAIN mysqlPacketChannels'[v] :
                            LET r == mysqlPacketChannels'[v][j] IN
                            j > i /\ ~r.IsParsed /\ r.s = c.s => c.n < r.n
    BY <1>2 DEF ChannelOrder, DocsBefore
  <2>1. CASE /\ i \in DOMAIN mysqlPacketChannels[v]
             /\ mysqlPacketChannels'[v][i] = mysqlPacketChannels[v][i]
    <3> DEFINE c == mysqlPacketChannels[v][i]
    <3>1. /\ DocsBefore(v, c.s, c.n) /\ mysqlRequestMaps[v][c.s].n < c.n
      BY <2>1 DEF ChannelOrder
    <3>2. ASSUME NEW j \in DOMAIN mysqlPacketChannels'[v], j > i,
                 ~mysqlPacketChannels'[v][j].IsParsed,
                 mysqlPacketChannels'[v][j].s = c.s
          PROVE  c.n < mysqlPacketChannels'[v][j].n
      <4>1. CASE /\ j \in DOMAIN mysqlPacketChannels[v]
                 /\ mysqlPacketChannels'[v][j] = mysqlPacketChannels[v][j]
        BY <2>1, <3>2, <4>1 DEF ChannelOrder
      <4>2. CASE mysqlPacketChannels'[v][j] = p
        <5>1. p = pending /\ pending # NoPacket
          BY <1>1, <3>2, <4>2
        <5>2. QED  BY <2>1, <3>2, <4>2, <5>1 DEF PendingOrder
      <4>3. QED  BY <1>4, <3>2, <4>1, <4>2
    <3>3. QED  BY <2>1, <3>1, <3>2
  <2>2. CASE /\ v = w /\ mysqlPacketChannels'[v][i] = p
             /\ \A j \in DOMAIN mysqlPacketChannels'[v] : ~(j > i)
    <3>1. p = pending /\ pending # NoPacket
      BY <1>1, <2>2
    <3>2. QED  BY <2>2, <3>1 DEF PendingOrder
  <2>3. QED  BY <1>4, <2>1, <2>2
<1>6. PendingOrder'
  <2> SUFFICES ASSUME pending # NoPacket, pending' = pending, p # pending
               PROVE  PendingOrder'
    BY DEF PendingOrder
  <2>1. \A v \in Workers : \A i \in DOMAIN mysqlPacketChannels'[v] :
           ~mysqlPacketChannels'[v][i].IsParsed =>
              /\ i \in DOMAIN mysqlPacketChannels[v]
              /\ mysqlPacketChannels'[v][i] = mysqlPacketChannels[v][i]
    BY <1>4
  <2>2. QED  BY <1>2, <2>1 DEF PendingOrder, DocsBefore
<1>7. QED  BY <1>3, <1>5, <1>6

(* A receive takes the oldest packet of the channel and may turn it, alone *)
(* or behind the stored partial request, into the newest document.         *)
LEMMA OrderReceive ==
    ASSUME TypeInv, OrderInv, NEW w \in Workers, ReceiveEffect(w)
    PROVE  OrderInv'
<1> USE DEF OrderInv
<1> DEFINE p == Received(w)
           e == mysqlRequestMaps[w][p.s]
<1>1. /\ mysqlPacketChannels \in [Workers -> Seq(Packet)]
      /\ batches \in [Workers -> Seq(Document)]
      /\ mysqlRequestMaps \in [Workers -> [Sessions -> Entry]]
  BY DEF TypeInv, TypeOK
<1>2. /\ mysqlPacketChannels[w] # <<>>
      /\ mysqlPacketChannels' = [mysqlPacketChannels EXCEPT ![w] = Tail(@)]
      /\ UNCHANGED <<mongo, sent, pending>>
  BY DEF ReceiveEffect, Receive, captureVars
<1>3. p = mysqlPacketChannels[w][1] /\ 1 \in DOMAIN mysqlPacketChannels[w]
  BY <1>1, <1>2, TailElements DEF Received
<1>4. \A v \in Workers : \A i \in DOMAIN mysqlPacketChannels'[v] :
         \/ /\ v # w /\ i \in DOMAIN mysqlPacketChannels[v]
            /\ mysqlPacketChannels'[v][i] = mysqlPacketChannels[v][i]
         \/ /\ v = w /\ i + 1 \in DOMAIN mysqlPacketChannels[v] /\ i + 1 > 1
            /\ mysqlPacketChannels'[v][i] = mysqlPacketChannels[v][i + 1]
  BY <1>1, <1>2, TailElements
<1>5. /\ p.s \in Sessions
      /\ ~p.IsParsed => p.n \in Nat /\ p.n >= 1 /\ p.n <= sent[p.s]
  BY <1>3, PacketType
<1>6. ~p.IsParsed => DocsBefore(w, p.s, p.n) /\ e.n < p.n
  BY <1>3 DEF ChannelOrder
<1>7. ~p.IsParsed => \A j \in DOMAIN mysqlPacketChannels[w] :
          LET r == mysqlPacketChannels[w][j] IN
          j > 1 /\ ~r.IsParsed /\ r.s = p.s => p.n < r.n
  BY <1>3 DEF ChannelOrder
<1>8. ~p.IsParsed /\ pending # NoPacket /\ pending.s = p.s => p.n < pending.n
  BY <1>3 DEF PendingOrder
<1>9. e.n # 0 => DocsBefore(w, p.s, e.n)
  BY <1>5 DEF MapOrder
<1>10. \A v \in Workers, s \in Sessions :
          \/ mysqlRequestMaps'[v][s].n = mysqlRequestMaps[v][s].n
          \/ mysqlRequestMaps'[v][s].n = 0
          \/ /\ v = w /\ s = p.s /\ ~p.IsParsed
             /\ mysqlRequestMaps'[v][s].n = p.n
  <2>1. CASE UNCHANGED mysqlRequestMaps
    BY <2>1
  <2>2. ASSUME NEW x \in {NoEntry, [n |-> p.n, old |-> FALSE]}, ~p.IsParsed,
               mysqlRequestMaps' = [mysqlRequestMaps EXCEPT ![w][p.s] = x]
        PROVE  <1>10
    <3>1. x.n = 0 \/ x.n = p.n
      BY <2>2 DEF NoEntry
    <3> HIDE DEF p
    <3>2. QED  BY <1>1, <1>5, <2>2, <3>1
  <2>3. QED  BY <2>1, <2>2 DEF ReceiveEffect, MapEffect
(* What the step adds to the documents.                                    *)
<1>11. /\ QueueOrder'
       /\ \A v \in Workers, s \in Sessions, n \in Nat :
             DocsBefore(v, s, n) =>
                \/ DocsBefore(v, s, n)'
                \/ v = w /\ s = p.s /\ ~p.IsParsed /\ ~(p.n < n)
       /\ \/ \A v \in Workers : \A s, n : DocsBefore(v, s, n) => DocsBefore(v, s, n)'
          \/ mysqlRequestMaps'[w][p.s].n = 0
  <2>1. CASE UNCHANGED batches
    <3>1. \A v \in Workers : Docs(v)' = Docs(v)
      BY <1>2, <2>1 DEF Docs
    <3>2. QED  BY <1>2, <2>1, <3>1 DEF QueueOrder, DocsBefore
  <2>2. ASSUME NEW d \in Document, d.s = p.s, DocumentFrames(w, p, d),
               batches' = [batches EXCEPT ![w] = Append(@, d)]
        PROVE  <1>11
    <3>1. /\ \A v \in Workers \ {w} : batches'[v] = batches[v]
          /\ \A i \in DOMAIN batches'[w] :
                \/ /\ i \in DOMAIN batches[w] /\ i <= Len(batches[w])
                   /\ batches'[w][i] = batches[w][i]
                \/ i = Len(batches[w]) + 1 /\ batches'[w][i] = d
          /\ Len(batches[w]) \in Nat /\ DOMAIN batches[w] = 1 .. Len(batches[w])
          /\ DOMAIN batches'[w] = 1 .. Len(batches[w]) + 1
      BY <1>1, <2>2, AppendElements
    <3>2. /\ \A v \in Workers \ {w} : Docs(v)' = Docs(v)
          /\ Docs(w)' \subseteq Docs(w) \union {d}
      BY <1>2, <3>1 DEF Docs
    <3>3. \/ d.frames = <<>>
          \/ /\ ~p.IsParsed /\ d.frames # <<>>
             /\ d.frames[Len(d.frames)] = p.n
             /\ d.frames[1] = p.n \/ (e.n # 0 /\ d.frames[1] = e.n)
             /\ mysqlRequestMaps'[w][p.s].n = 0
      <4>1. CASE /\ ~p.IsParsed
                 /\ d.frames = <<p.n>> \/ (e.n # 0 /\ d.frames = <<e.n, p.n>>)
                 /\ mysqlRequestMaps' = [mysqlRequestMaps EXCEPT ![w][p.s] = NoEntry]
        <5>1. mysqlRequestMaps'[w][p.s].n = 0
          <6> HIDE DEF p
          <6>1. QED  BY <1>1, <1>5, <4>1 DEF NoEntry
        <5>2. QED  BY <4>1, <5>1
      <4>2. QED  BY <2>2, <4>1 DEF DocumentFrames
    <3>4. \A x \in Docs(w) : Precedes(x, d)
      <4>1. CASE d.frames = <<>>
        BY <4>1 DEF Precedes
      <4>2. CASE d.frames # <<>>
        <5>1. DocsBefore(w, p.s, d.frames[1])
          BY <1>6, <1>9, <3>3, <4>2
        <5>2. QED  BY <2>2, <5>1 DEF DocsBefore, Precedes
      <4>3. QED  BY <4>1, <4>2
    <3>5. QueueOrder'
      <4>1. \A i \in DOMAIN mongo[w] : mongo[w][i] \in Docs(w)
        BY DEF Docs
      <4>2. \A i \in DOMAIN batches[w] : batches[w][i] \in Docs(w)
        BY DEF Docs
      <4>3. \A i, j \in DOMAIN batches'[w] :
               i < j => Precedes(batches'[w][i], batches'[w][j])
        BY <3>1, <3>4, <4>2 DEF QueueOrder
      <4>4. \A i \in DOMAIN mongo[w], j \in DOMAIN batches'[w] :
               Precedes(mongo[w][i], batches'[w][j])
        BY <3>1, <3>4, <4>1 DEF QueueOrder
      <4>5. QED  BY <1>2, <3>1, <4>3, <4>4 DEF QueueOrder
    <3>6. CASE d.frames = <<>>
      BY <3>2, <3>5, <3>6 DEF DocsBefore
    <3>7. CASE d.frames # <<>>
      BY <2>2, <3>2, <3>3, <3>5, <3>7 DEF DocsBefore
    <3>8. QED  BY <3>6, <3>7
  <2>3. QED  BY <2>1, <2>2, ReceiveBatch
<1> HIDE DEF p
<1>12. ChannelOrder'
  <2> SUFFICES ASSUME NEW v \in Workers, NEW i \in DOMAIN mysqlPacketChannels'[v],
                      ~mysqlPacketChannels'[v][i].IsParsed
               PROVE  LET c == mysqlPacketChannels'[v][i] IN
                      /\ \A d \in Docs(v)' : d.s = c.s /\ d.frames # <<>> =>
                            d.frames[Len(d.frames)] < c.n
                      /\ mysqlRequestMaps'[v][c.s].n < c.n
                      /\ \A j \in DOMAIN mysqlPacketChannels'[v] :
                            LET r == mysqlPacketChannels'[v][j] IN
                            j > i /\ ~r.IsParsed /\ r.s = c.s => c.n < r.n
    BY DEF ChannelOrder, DocsBefore
  <2> DEFINE c == mysqlPacketChannels'[v][i]
  <2>1. PICK k \in DOMAIN mysqlPacketChannels[v] :
           /\ c = mysqlPacketChannels[v][k]
           /\ v = w => k > 1 /\ k = i + 1
           /\ v # w => k = i
    BY <1>4
  <2>2. /\ DocsBefore(v, c.s, c.n) /\ mysqlRequestMaps[v][c.s].n < c.n
        /\ c.s \in Sessions /\ c.n \in Nat /\ c.n >= 1
    BY <2>1, PacketType DEF ChannelOrder
  <2>3. v = w /\ c.s = p.s /\ ~p.IsParsed => p.n < c.n
    BY <1>7, <2>1
  <2>4. \A d \in Docs(v)' : d.s = c.s /\ d.frames # <<>> =>
           d.frames[Len(d.frames)] < c.n
    <3>1. ASSUME NEW s \in Sessions, NEW n \in Nat, s = c.s, n = c.n
          PROVE  <2>4
      <4>1. DocsBefore(v, s, n) /\ (v = w /\ s = p.s /\ ~p.IsParsed => p.n < n)
        BY <2>2, <2>3, <3>1
      <4> HIDE DEF c
      <4>2. DocsBefore(v, s, n)'
        BY <1>11, <4>1
      <4>3. QED  BY <3>1, <4>2 DEF DocsBefore
    <3>2. QED  BY <2>2, <3>1
  <2>5. mysqlRequestMaps'[v][c.s].n < c.n
    BY <1>10, <2>2, <2>3
  <2>6. ASSUME NEW j \in DOMAIN mysqlPacketChannels'[v], j > i,
               ~mysqlPacketChannels'[v][j].IsParsed,
               mysqlPacketChannels'[v][j].s = c.s
        PROVE  c.n < mysqlPacketChannels'[v][j].n
    <3>1. PICK l \in DOMAIN mysqlPacketChannels[v] :
             /\ mysqlPacketChannels'[v][j] = mysqlPacketChannels[v][l]
             /\ v = w => l = j + 1
             /\ v # w => l = j
      BY <1>4
    <3>2. l > k
      <4>1. i \in Nat /\ j \in Nat
        <5>1. mysqlPacketChannels'[v] \in Seq(Packet)
          BY <1>1, <1>2, TailElements
        <5>2. QED  BY <5>1
      <4>2. QED  BY <2>1, <2>6, <3>1, <4>1
    <3>3. QED  BY <2>1, <2>6, <3>1, <3>2 DEF ChannelOrder
  <2>7. QED  BY <2>4, <2>5, <2>6
<1>13. MapOrder'
  <2> SUFFICES ASSUME NEW v \in Workers, NEW s \in Sessions,
                      mysqlRequestMaps'[v][s].n # 0
               PROVE  DocsBefore(v, s, mysqlRequestMaps[v][s].n)'
    BY DEF MapOrder
  <2> DEFINE n == mysqlRequestMaps'[v][s].n
  <2>1. n \in Nat
    <3>1. mysqlRequestMaps[v][s].n \in Nat
      BY <1>1 DEF Entry
    <3>2. QED  BY <1>5, <1>10, <3>1
  <2>2. DocsBefore(v, s, n)
    BY <1>6, <1>10 DEF MapOrder
  <2>3. CASE v = w /\ s = p.s
    BY <1>11, <2>2, <2>3 DEF DocsBefore
  <2>4. CASE ~(v = w /\ s = p.s)
    BY <1>11, <2>1, <2>2, <2>4 DEF DocsBefore
  <2>5. QED  BY <2>3, <2>4
<1>14. PendingOrder'
  <2> SUFFICES ASSUME pending # NoPacket, NEW v \in Workers
               PROVE  /\ DocsBefore(v, pending.s, pending.n)'
                      /\ mysqlRequestMaps'[v][pending.s].n < pending.n
                      /\ \A i \in DOMAIN mysqlPacketChannels'[v] :
                            LET c == mysqlPacketChannels'[v][i] IN
                            ~c.IsParsed /\ c.s = pending.s => c.n < pending.n
    BY <1>2 DEF PendingOrder
  <2>1. pending.s \in Sessions /\ pending.n \in Nat /\ pending.n >= 1
    BY DEF TypeInv, TypeOK, FrameRefs, Packet
  <2>2. /\ DocsBefore(v, pending.s, pending.n)
        /\ mysqlRequestMaps[v][pending.s].n < pending.n
        /\ \A i \in DOMAIN mysqlPacketChannels[v] :
              LET c == mysqlPacketChannels[v][i] IN
              ~c.IsParsed /\ c.s = pending.s => c.n < pending.n
    BY DEF PendingOrder
  <2>3. DocsBefore(v, pending.s, pending.n)'
    BY <1>2, <1>8, <1>11, <2>1, <2>2 DEF DocsBefore
  <2>4. mysqlRequestMaps'[v][pending.s].n < pending.n
    BY <1>8, <1>10, <2>1, <2>2
  <2>5. \A i \in DOMAIN mysqlPacketChannels'[v] :
           \E k \in DOMAIN mysqlPacketChannels[v] :
              mysqlPacketChannels'[v][i] = mysqlPacketChannels[v][k]
    BY <1>4
  <2>6. QED  BY <2>2, <2>3, <2>4, <2>5
<1>15. NextOrder'
  <2> SUFFICES ASSUME NEW v \in Workers, NEW s \in Sessions
               PROVE  DocsBefore(v, s, sent[s] + 1)'
    BY DEF NextOrder
  <2>1. sent[s] \in Nat /\ DocsBefore(v, s, sent[s] + 1)
    BY DEF NextOrder, TypeInv, TypeOK
  <2>2. s = p.s /\ ~p.IsParsed => p.n < sent[s] + 1
    BY <1>5, <2>1
  <2>3. ASSUME NEW n \in Nat, n = sent[s] + 1
        PROVE  DocsBefore(v, s, sent[s] + 1)'
    <3>1. DocsBefore(v, s, n)'
      BY <1>11, <2>1, <2>2, <2>3
    <3>2. n = sent'[s] + 1
      BY <1>2, <2>3
    <3>3. QED  BY <3>1, <3>2 DEF DocsBefore
  <2>4. QED  BY <2>1, <2>3
<1>16. QED  BY <1>11, <1>12, <1>13, <1>14, <1>15

(* Only the capture loop and a loss change the capture's variables.        *)
LEMMA CaptureCases ==
    ASSUME [Next]_vars
    PROVE  \/ \E s \in Sessions : CaptureNext(s) \/ PacketDropped(s)
           \/ AssembleUserPacket
           \/ UNCHANGED captureVars
<1>1. ASSUME NEW w \in Workers, WorkerReceive(w)
      PROVE  UNCHANGED captureVars
  <2>1. Receive(w)
    BY <1>1 DEF WorkerReceive, ReceiveParsed, ReceiveIgnored, ReceiveShort,
                ReceiveAndAssemble, ReceiveAlone, MapRace, ReceiveData
  <2>2. QED  BY <2>1 DEF Receive
<1>2. ASSUME NEW w \in Workers, WorkerNext(w)
      PROVE  UNCHANGED captureVars
  BY <1>1, <1>2 DEF WorkerNext, Tick, KeepBatch, Flush
<1>3. CASE StatusNext \/ CaptureEnds
  BY <1>3 DEF StatusNext, CaptureEnds, StatusTop, SweepDelete, AfterSweep,
              MemoryPanic, AllSent, SweepLook, SendConnectionDefaultDatabase
<1>4. ASSUME NEW w \in Workers, NEW s \in Sessions, EntryAges(w, s)
      PROVE  UNCHANGED captureVars
  BY <1>4 DEF EntryAges
<1>5. CASE UNCHANGED vars
  BY <1>5 DEF vars
<1>6. QED  BY <1>2, <1>3, <1>4, <1>5 DEF Next, Ended

(* A frame that passes the interface is newer than everything before it.   *)
LEMMA OrderTransmit ==
    ASSUME TypeInv, OrderInv, NEW s \in Sessions,
           CaptureNext(s) \/ PacketDropped(s)
    PROVE  OrderInv'
<1> USE DEF OrderInv
<1>1. /\ Transmit(s)
      /\ UNCHANGED <<mysqlPacketChannels, mysqlRequestMaps, workerVars>>
      /\ \/ pending' \in {NoPacket, pending}
         \/ pending' = RawPacket(s, sent[s] + 1)
  BY DEF CaptureNext, PacketDropped
<1>2. /\ \A r \in Sessions : sent[r] \in Nat /\ sent'[r] \in Nat
                             /\ sent[r] <= sent'[r]
      /\ sent'[s] = sent[s] + 1
  BY <1>1 DEF Transmit, TypeInv, TypeOK
<1>3. \A w \in Workers : Docs(w)' = Docs(w)
  BY <1>1 DEF Docs, workerVars
<1>4. QueueOrder'
  BY <1>1 DEF QueueOrder, workerVars
<1>5. /\ QueueOrder' /\ ChannelOrder' /\ MapOrder' /\ NextOrder'
      /\ pending' \in {NoPacket, pending} => PendingOrder'
  BY <1>1, <1>2, <1>3, <1>4, OrderKept
<1>6. ASSUME pending' = RawPacket(s, sent[s] + 1), NEW w \in Workers
      PROVE  /\ DocsBefore(w, s, sent[s] + 1)
             /\ mysqlRequestMaps[w][s].n < sent[s] + 1
             /\ \A i \in DOMAIN mysqlPacketChannels[w] :
                   LET p == mysqlPacketChannels[w][i] IN
                   ~p.IsParsed /\ p.s = s => p.n < sent[s] + 1
  <2>1. DocsBefore(w, s, sent[s] + 1)
    BY DEF NextOrder
  <2>2. mysqlRequestMaps[w][s].n < sent[s] + 1
    BY <1>2 DEF TypeInv, FrameRefs
  <2>3. ASSUME NEW i \in DOMAIN mysqlPacketChannels[w],
               ~mysqlPacketChannels[w][i].IsParsed,
               mysqlPacketChannels[w][i].s = s
        PROVE  mysqlPacketChannels[w][i].n < sent[s] + 1
    BY <1>2, <2>3, PacketType
  <2>4. QED  BY <2>1, <2>2, <2>3
<1>7. ASSUME pending' = RawPacket(s, sent[s] + 1)
      PROVE  PendingOrder'
  <2> DEFINE m == sent[s] + 1
  <2>1. pending'.s = s /\ pending'.n = m
    BY <1>7 DEF RawPacket
  <2>2. \A w \in Workers :
           /\ \A d \in Docs(w)' : d.s = s /\ d.frames # <<>> =>
                 d.frames[Len(d.frames)] < m
           /\ mysqlRequestMaps'[w][s].n < m
           /\ \A i \in DOMAIN mysqlPacketChannels'[w] :
                 LET p == mysqlPacketChannels'[w][i] IN
                 ~p.IsParsed /\ p.s = s => p.n < m
    BY <1>1, <1>3, <1>6, <1>7 DEF DocsBefore
  <2> HIDE DEF m
  <2>3. QED  BY <2>1, <2>2 DEF PendingOrder, DocsBefore
<1>8. QED  BY <1>1, <1>5, <1>7

(* A bulk insert moves a prefix of the batch behind the collection.        *)
LEMMA OrderFlush ==
    ASSUME TypeInv, OrderInv, NEW w \in Workers, Flush(w)
    PROVE  OrderInv'
<1> USE DEF OrderInv
<1>1. /\ batches \in [Workers -> Seq(Document)]
      /\ mongo \in [Workers -> Seq(Document)]
      /\ \A s \in Sessions : sent[s] \in Nat
  BY DEF TypeInv, TypeOK
<1>2. PICK k \in 0 .. Len(batches[w]) :
         mongo' = [mongo EXCEPT ![w] = @ \o SubSeq(batches[w], 1, k)]
  BY FlushEffect
<1>3. /\ batches' = [batches EXCEPT ![w] = <<>>]
      /\ UNCHANGED <<mysqlPacketChannels, mysqlRequestMaps, sent, pending>>
  BY DEF Flush, captureVars
<1>4. /\ \A v \in Workers \ {w} : mongo'[v] = mongo[v] /\ batches'[v] = batches[v]
      /\ batches'[w] = <<>>
      /\ mongo'[w] = mongo[w] \o SubSeq(batches[w], 1, k)
  BY <1>1, <1>2, <1>3
<1>5. /\ Len(mongo[w]) \in Nat /\ mongo'[w] \in Seq(Document)
      /\ \A i \in DOMAIN mongo'[w] :
            \/ /\ i \in DOMAIN mongo[w] /\ i <= Len(mongo[w])
               /\ mongo'[w][i] = mongo[w][i]
            \/ /\ i > Len(mongo[w]) /\ i - Len(mongo[w]) \in DOMAIN batches[w]
               /\ mongo'[w][i] = batches[w][i - Len(mongo[w])]
  BY <1>1, <1>4, ConcatPrefix
<1>6. ASSUME NEW i \in DOMAIN mongo'[w], NEW j \in DOMAIN mongo'[w], i < j
      PROVE  Precedes(mongo'[w][i], mongo'[w][j])
  <2>1. i \in Nat /\ j \in Nat
    BY <1>5
  <2>2. CASE j <= Len(mongo[w])
    <3>1. mongo'[w][i] = mongo[w][i] /\ mongo'[w][j] = mongo[w][j]
          /\ i \in DOMAIN mongo[w] /\ j \in DOMAIN mongo[w]
      BY <1>5, <1>6, <2>1, <2>2
    <3>2. QED  BY <1>6, <3>1 DEF QueueOrder
  <2>3. CASE i <= Len(mongo[w]) /\ j > Len(mongo[w])
    <3>1. mongo'[w][i] = mongo[w][i] /\ i \in DOMAIN mongo[w]
          /\ j - Len(mongo[w]) \in DOMAIN batches[w]
          /\ mongo'[w][j] = batches[w][j - Len(mongo[w])]
      BY <1>5, <2>1, <2>3
    <3>2. QED  BY <3>1 DEF QueueOrder
  <2>4. CASE i > Len(mongo[w])
    <3>1. /\ j > Len(mongo[w]) /\ i - Len(mongo[w]) < j - Len(mongo[w])
      BY <1>5, <1>6, <2>1, <2>4
    <3>2. /\ i - Len(mongo[w]) \in DOMAIN batches[w]
          /\ j - Len(mongo[w]) \in DOMAIN batches[w]
          /\ mongo'[w][i] = batches[w][i - Len(mongo[w])]
          /\ mongo'[w][j] = batches[w][j - Len(mongo[w])]
      <4>1. ~(i <= Len(mongo[w])) /\ ~(j <= Len(mongo[w]))
        BY <1>5, <2>1, <2>4, <3>1
      <4>2. QED  BY <1>5, <4>1
    <3>3. QED  BY <3>1, <3>2 DEF QueueOrder
  <2>5. QED  BY <1>5, <2>1, <2>2, <2>3, <2>4
<1>7. QueueOrder'
  <2>1. DOMAIN batches'[w] = {}
    BY <1>4
  <2>2. QED  BY <1>4, <1>6, <2>1 DEF QueueOrder
<1>8. \A v \in Workers : Docs(v)' \subseteq Docs(v)
  <2>1. Docs(w)' \subseteq Docs(w)
    <3>1. DOMAIN batches'[w] = {}
      BY <1>4
    <3>2. \A i \in DOMAIN mongo'[w] : mongo'[w][i] \in Docs(w)
      BY <1>5 DEF Docs
    <3>3. QED  BY <3>1, <3>2 DEF Docs
  <2>2. \A v \in Workers \ {w} : Docs(v)' = Docs(v)
    BY <1>4 DEF Docs
  <2>3. QED  BY <2>1, <2>2
<1>9. QED  BY <1>1, <1>3, <1>7, <1>8, OrderKept

(* Every step keeps the order.                                             *)
LEMMA OrderNext ==
    ASSUME TypeInv, OrderInv, [Next]_vars
    PROVE  OrderInv'
<1>1. \A s \in Sessions : sent[s] \in Nat
  BY DEF TypeInv, TypeOK
<1>2. CASE AssembleUserPacket
  <2>1. /\ pending \in Packet /\ pending.s \in Sessions /\ ~pending.IsParsed
    BY <1>2 DEF AssembleUserPacket, TypeInv, TypeOK, FrameRefs, Packet
  <2>2. WorkerOf(pending.s) \in Workers
    BY <2>1, WorkerIndex
  <2>3. /\ mysqlPacketChannels' = [mysqlPacketChannels EXCEPT
              ![WorkerOf(pending.s)] = Append(@, pending)]
        /\ pending' = NoPacket
        /\ UNCHANGED <<sent, mysqlRequestMaps, workerVars>>
    BY <1>2 DEF AssembleUserPacket
  <2>4. QED  BY <2>1, <2>2, <2>3, OrderSend
<1>3. ASSUME NEW s \in Sessions, SendConnectionDefaultDatabase(s)
      PROVE  OrderInv'
  <2> DEFINE p == ParsedPacket(s, connections[s])
  <2>1. p \in Packet /\ p.IsParsed
    BY DEF Packet, ParsedPacket, TypeInv, TypeOK
  <2>2. ConnectionWorker(s) \in Workers
    BY WorkerIndex
  <2>3. /\ mysqlPacketChannels' = [mysqlPacketChannels EXCEPT
              ![ConnectionWorker(s)] = Append(@, p)]
        /\ UNCHANGED <<sent, pending, mysqlRequestMaps, workerVars>>
    BY <1>3 DEF SendConnectionDefaultDatabase, captureVars
  <2>4. /\ pending # NoPacket => ~pending.IsParsed
        /\ p # pending
    <3>1. pending # NoPacket => ~pending.IsParsed
      BY DEF TypeInv, FrameRefs
    <3>2. NoPacket.IsParsed = FALSE /\ p.IsParsed = TRUE
      BY DEF NoPacket, ParsedPacket
    <3>3. pending = NoPacket \/ pending.IsParsed = FALSE
      BY DEF TypeInv, TypeOK, FrameRefs, Packet
    <3> HIDE DEF p
    <3>4. QED  BY <3>1, <3>2, <3>3
  <2> HIDE DEF p
  <2>5. QED  BY <2>1, <2>2, <2>3, <2>4, OrderSend
<1>4. ASSUME NEW w \in Workers, ReceiveEffect(w)
      PROVE  OrderInv'
  BY <1>4, OrderReceive
<1>5. ASSUME NEW w \in Workers, Flush(w)
      PROVE  OrderInv'
  BY <1>5, OrderFlush
<1>6. ASSUME NEW w \in Workers, Tick(w) \/ KeepBatch(w)
      PROVE  OrderInv'
  <2>1. UNCHANGED <<mongo, batches, mysqlRequestMaps, mysqlPacketChannels,
                    sent, pending>>
    BY <1>6 DEF Tick, KeepBatch, captureVars
  <2>2. QED
    BY <2>1 DEF OrderInv, QueueOrder, ChannelOrder, MapOrder, PendingOrder,
                NextOrder, DocsBefore, Docs
<1>7. CASE Quiet /\ UNCHANGED captureVars
  <2>1. /\ QueueOrder' /\ pending' = pending /\ sent' = sent
        /\ UNCHANGED mysqlPacketChannels
        /\ \A w \in Workers : Docs(w)' = Docs(w)
    BY <1>7 DEF Quiet, captureVars, workerVars, QueueOrder, OrderInv, Docs
  <2>2. \A v \in Workers, r \in Sessions :
           \/ mysqlRequestMaps'[v][r].n = 0
           \/ mysqlRequestMaps'[v][r].n = mysqlRequestMaps[v][r].n
    BY <1>7 DEF Quiet, NoEntry
  <2>3. QED  BY <1>1, <2>1, <2>2, OrderKept DEF OrderInv
<1>8. QED
  BY <1>2, <1>3, <1>4, <1>5, <1>6, <1>7, StepCases, CaptureCases, OrderTransmit

(* Nothing has been captured yet.                                          *)
LEMMA OrderInit == Init => OrderInv
  BY DEF Init, OrderInv, QueueOrder, ChannelOrder, MapOrder, PendingOrder,
         NextOrder, DocsBefore, Docs, NoEntry

(* The requests of a session reach the queue in the order they were        *)
(* captured and no frame is replayed twice, whatever is lost, expires,     *)
(* is swept away or fails on its way, for any number of workers.           *)
THEOREM QueueInOrder == Spec => []QueueOrder
<1>1. TypeInv /\ OrderInv /\ [Next]_vars => (TypeInv /\ OrderInv)'
  BY OrderNext, TypeNext
<1>2. OrderInv => QueueOrder
  BY DEF OrderInv
<1>3. QED  BY <1>1, <1>2, OrderInit, TypeInit, PTL DEF Spec

-----------------------------------------------------------------------------
(* Refinement: the collector is an ordered relay.                          *)

(* A set of numbers has a least one.                                       *)
LEMMA LeastNumber ==
    ASSUME NEW T \in SUBSET Nat, T # {}
    PROVE  \E x \in T : \A y \in T : x <= y
<1>1. PICK x \in T : \A y \in T : ~ (<<y, x>> \in OpToRel(<, Nat))
  BY WFMin, NatLessThanWellFounded, Zenon
<1>2. \A y \in T : ~(y < x)
  BY <1>1 DEF OpToRel
<1>3. QED  BY <1>2

(* A set of numbers that holds 0 and with each its successor holds them    *)
(* all up to a bound.                                                      *)
LEMMA UpTo ==
    ASSUME NEW m \in Nat, NEW G, 0 \in G,
           \A n \in 0 .. m - 1 : n \in G => n + 1 \in G
    PROVE  \A n \in 0 .. m : n \in G
<1> DEFINE T == {n \in Nat : n <= m /\ n \notin G}
<1>1. T = {}
  <2> SUFFICES ASSUME T # {} PROVE FALSE
    OBVIOUS
  <2>1. PICK x \in T : \A y \in T : x <= y
    BY LeastNumber
  <2>2. x \in Nat /\ x <= m /\ x \notin G /\ x # 0
    OBVIOUS
  <2>3. /\ x - 1 \in 0 .. m - 1 /\ x - 1 \in Nat /\ x - 1 <= m
        /\ ~(x <= x - 1) /\ (x - 1) + 1 = x
    BY <2>2
  <2>4. x - 1 \in G
    BY <2>1, <2>3
  <2>5. QED  BY <2>2, <2>3, <2>4
<1>2. QED  BY <1>1

(* The frames of s in the first n of docs: the recursion defines them.     *)
LEMMA FramesUpToIs ==
    ASSUME NEW docs \in Seq(Document), NEW s
    PROVE  /\ FramesUpTo(docs, s)[0] = <<>>
           /\ \A n \in 1 .. Len(docs) :
                 FramesUpTo(docs, s)[n] =
                    IF docs[n].s = s
                    THEN FramesUpTo(docs, s)[n - 1] \o docs[n].frames
                    ELSE FramesUpTo(docs, s)[n - 1]
<1>0. PICK m \in Nat : m = Len(docs)
  OBVIOUS
<1> DEFINE Val(n, q) == IF docs[n].s = s THEN q \o docs[n].frames ELSE q
           Step(n, f) == [i \in 0 .. n |->
                             IF i = 0 THEN <<>> ELSE Val(i, f[i - 1])]
           Exists(n) == \E f : f = Step(n, f)
           G == {n \in Nat : Exists(n)}
<1> HIDE DEF Val
<1>1. 0 \in G
  <2> DEFINE g == [i \in 0 .. 0 |-> <<>>]
  <2>1. g = Step(0, g)
    OBVIOUS
  <2> HIDE DEF g, Step
  <2>2. QED  BY <2>1
<1>2. ASSUME NEW n \in 0 .. m - 1, n \in G PROVE n + 1 \in G
  <2>1. PICK f : f = Step(n, f)
    BY <1>2
  <2> DEFINE x == n + 1
             g == [i \in 0 .. x |-> IF i = x THEN Val(x, f[n]) ELSE f[i]]
  <2>2. \A i \in 0 .. n : f[i] = IF i = 0 THEN <<>> ELSE Val(i, f[i - 1])
    BY <2>1, Zenon
  <2>3. \A i \in 0 .. x : g[i] = IF i = 0 THEN <<>> ELSE Val(i, g[i - 1])
    <3> TAKE i \in 0 .. x
    <3>1. CASE i = x
      BY <3>1
    <3>2. CASE i # x
      <4>1. i \in 0 .. n /\ (i # 0 => i - 1 \in 0 .. x /\ i - 1 # x)
        BY <3>2
      <4>2. QED  BY <2>2, <3>2, <4>1
    <3>3. QED  BY <3>1, <3>2
  <2>4. g = Step(x, g)
    BY <2>3
  <2>5. x \in Nat
    OBVIOUS
  <2> HIDE DEF g, Step, x
  <2>6. x \in G
    BY <2>4, <2>5
  <2>7. QED  BY <2>6 DEF x
<1>3. Exists(m)
  <2>1. m \in 0 .. m
    OBVIOUS
  <2> HIDE DEF Exists
  <2>2. \A n \in 0 .. m : n \in G
    <3> HIDE DEF G
    <3>1. QED  BY <1>1, <1>2, UpTo
  <2>3. QED  BY <2>1, <2>2
<1> DEFINE e == CHOOSE f : f = Step(m, f)
<1>4. FramesUpTo(docs, s) = e
  BY <1>0 DEF FramesUpTo, Val
<1>5. e = Step(m, e)
  <2> HIDE DEF Step
  <2>1. QED  BY <1>3
<1> HIDE DEF e
<1>6. \A i \in 0 .. m : e[i] = IF i = 0 THEN <<>> ELSE Val(i, e[i - 1])
  BY <1>5, Zenon
<1>7. e[0] = <<>>
  <2>1. 0 \in 0 .. m
    OBVIOUS
  <2>2. QED  BY <2>1, <1>6, Zenon
<1>8. \A i \in 1 .. m : e[i] = Val(i, e[i - 1])
  BY <1>6
<1>9. QED  BY <1>0, <1>4, <1>7, <1>8 DEF Val

(* Frame numbers in capture order.                                         *)
Sorted(q) == \A i, j \in DOMAIN q : i < j => q[i] < q[j]

(* The newest frame of a document that has any.                            *)
LastFrame(d) == d.frames[Len(d.frames)]

(* The elements of a concatenation of two sequences of numbers.            *)
LEMMA ConcatElements ==
    ASSUME NEW q \in Seq(Nat), NEW r \in Seq(Nat)
    PROVE  /\ q \o r \in Seq(Nat) /\ Len(q \o r) = Len(q) + Len(r)
           /\ Len(q) \in Nat /\ Len(r) \in Nat
           /\ DOMAIN (q \o r) = 1 .. Len(q) + Len(r)
           /\ DOMAIN q = 1 .. Len(q) /\ DOMAIN r = 1 .. Len(r)
           /\ \A i \in 1 .. Len(q) : (q \o r)[i] = q[i]
           /\ \A i \in Len(q) + 1 .. Len(q) + Len(r) :
                 i - Len(q) \in 1 .. Len(r) /\ (q \o r)[i] = r[i - Len(q)]
  OBVIOUS

(* The frames of a document lie between its first and its last.            *)
LEMMA FramesBetween ==
    ASSUME NEW d \in Document, Sorted(d.frames), NEW i \in DOMAIN d.frames
    PROVE  /\ d.frames # <<>> /\ d.frames[i] \in Nat
           /\ d.frames[1] \in Nat /\ LastFrame(d) \in Nat
           /\ d.frames[1] <= d.frames[i] /\ d.frames[i] <= LastFrame(d)
<1>1. d.frames \in Seq(Nat)
  BY DEF Document
<1>2. PICK q \in Seq(Nat) : q = d.frames
  BY <1>1
<1>3. /\ q # <<>> /\ 1 \in DOMAIN q /\ Len(q) \in DOMAIN q
      /\ i \in DOMAIN q /\ i >= 1 /\ i <= Len(q) /\ i \in Nat /\ Len(q) \in Nat
  BY <1>2
<1>4. q[1] \in Nat /\ q[i] \in Nat /\ q[Len(q)] \in Nat
  BY <1>3
<1>5. /\ i = 1 \/ q[1] < q[i]
      /\ i = Len(q) \/ q[i] < q[Len(q)]
  BY <1>2, <1>3 DEF Sorted
<1>6. q[1] <= q[i] /\ q[i] <= q[Len(q)]
  BY <1>4, <1>5
<1>7. QED  BY <1>2, <1>3, <1>4, <1>6 DEF LastFrame

(* The frames of a session in documents that are in order and each in      *)
(* order are in order, and each is no newer than the last of a document.   *)
LEMMA FramesInOrder ==
    ASSUME NEW docs \in Seq(Document), NEW s,
           \A i \in 1 .. Len(docs) : Sorted(docs[i].frames),
           \A i, j \in 1 .. Len(docs) : i < j => Precedes(docs[i], docs[j])
    PROVE  \A n \in 0 .. Len(docs) :
              LET q == FramesUpTo(docs, s)[n] IN
              /\ q \in Seq(Nat)
              /\ Sorted(q)
              /\ \A a \in DOMAIN q : \E i \in 1 .. n :
                    /\ docs[i].s = s /\ docs[i].frames # <<>>
                    /\ q[a] <= LastFrame(docs[i])
<1>0. PICK m \in Nat : m = Len(docs)
  OBVIOUS
<1>1. \A n \in 1 .. m : docs[n] \in Document /\ docs[n].frames \in Seq(Nat)
  <2>1. \A n \in 1 .. m : docs[n] \in Document
    BY <1>0
  <2>2. \A d \in Document : d.frames \in Seq(Nat)
    BY DEF Document
  <2>3. QED  BY <2>1, <2>2
<1> DEFINE f == FramesUpTo(docs, s)
           Origin(q, n) == \A a \in DOMAIN q : \E i \in 1 .. n :
                              /\ docs[i].s = s /\ docs[i].frames # <<>>
                              /\ q[a] <= LastFrame(docs[i])
           Good(n) == f[n] \in Seq(Nat) /\ Sorted(f[n]) /\ Origin(f[n], n)
           G == {n \in 0 .. m : Good(n)}
<1>2. /\ f[0] = <<>>
      /\ \A n \in 1 .. m : f[n] = IF docs[n].s = s
                                 THEN f[n - 1] \o docs[n].frames ELSE f[n - 1]
  BY <1>0, FramesUpToIs
<1> HIDE DEF f
<1>3. 0 \in G
  <2>1. DOMAIN f[0] = {} /\ f[0] \in Seq(Nat)
    BY <1>2
  <2>2. 0 \in 0 .. m
    OBVIOUS
  <2>3. QED  BY <2>1, <2>2 DEF Sorted
<1>4. ASSUME NEW n \in 0 .. m - 1, n \in G PROVE n + 1 \in G
  <2> DEFINE d == docs[n + 1]
             q == f[n]
             r == d.frames
  <2>1. /\ n \in Nat /\ n + 1 \in 1 .. m /\ n + 1 \in 0 .. m
        /\ (n + 1) - 1 = n
        /\ \A i \in 1 .. n : i \in 1 .. m /\ i \in 1 .. n + 1 /\ i < n + 1
        /\ n + 1 \in 1 .. n + 1
    OBVIOUS
  <2>2. q \in Seq(Nat) /\ Sorted(q) /\ Origin(q, n)
    BY <1>4
  <2>3. Origin(q, n + 1)
    BY <2>1, <2>2
  <2>4. CASE d.s # s
    <3>1. f[n + 1] = q
      BY <1>2, <2>1, <2>4
    <3>2. QED  BY <2>1, <2>2, <2>3, <3>1
  <2>5. CASE d.s = s
    <3>1. f[n + 1] = q \o r
      BY <1>2, <2>1, <2>5
    <3>2. d \in Document /\ r \in Seq(Nat) /\ Sorted(r)
      BY <1>0, <1>1, <2>1
    <3>3. \A i \in 1 .. n : Precedes(docs[i], d)
      BY <1>0, <2>1
    <3>4. ASSUME NEW a \in DOMAIN q, NEW b \in DOMAIN r PROVE q[a] < r[b]
      <4>1. PICK i \in 1 .. n : /\ docs[i].s = s /\ docs[i].frames # <<>>
                                /\ q[a] <= LastFrame(docs[i])
        BY <2>2
      <4>2. /\ r # <<>> /\ r[b] \in Nat /\ r[1] \in Nat /\ r[1] <= r[b]
        BY <3>2, FramesBetween
      <4>3. LastFrame(docs[i]) < r[1]
        BY <2>5, <3>3, <4>1, <4>2 DEF Precedes, LastFrame
      <4>4. q[a] \in Nat
        BY <2>2
      <4>5. LastFrame(docs[i]) \in Nat
        <5>1. docs[i].frames \in Seq(Nat) /\ docs[i].frames # <<>>
          BY <1>1, <2>1, <4>1
        <5>2. QED  BY <5>1 DEF LastFrame
      <4>6. QED  BY <4>1, <4>2, <4>3, <4>4, <4>5
    <3> HIDE DEF d, q, r, Origin
    <3>5. /\ q \o r \in Seq(Nat)
          /\ Len(q) \in Nat /\ Len(r) \in Nat
          /\ DOMAIN (q \o r) = 1 .. Len(q) + Len(r)
          /\ DOMAIN q = 1 .. Len(q) /\ DOMAIN r = 1 .. Len(r)
          /\ \A i \in 1 .. Len(q) : (q \o r)[i] = q[i]
          /\ \A i \in Len(q) + 1 .. Len(q) + Len(r) :
                i - Len(q) \in 1 .. Len(r) /\ (q \o r)[i] = r[i - Len(q)]
      BY <2>2, <3>2, ConcatElements
    <3>6. ASSUME NEW a \in DOMAIN (q \o r)
          PROVE  \/ a \in DOMAIN q /\ (q \o r)[a] = q[a]
                 \/ /\ a > Len(q) /\ a - Len(q) \in DOMAIN r
                    /\ (q \o r)[a] = r[a - Len(q)]
      BY <3>5
    <3>7. Sorted(q \o r)
      <4> SUFFICES ASSUME NEW a \in DOMAIN (q \o r), NEW b \in DOMAIN (q \o r),
                          a < b
                   PROVE  (q \o r)[a] < (q \o r)[b]
        BY DEF Sorted
      <4>1. a \in Nat /\ b \in Nat
        BY <3>5
      <4>2. CASE b \in DOMAIN q
        <5>1. a \in DOMAIN q
          BY <3>5, <4>1, <4>2
        <5>2. (q \o r)[a] = q[a] /\ (q \o r)[b] = q[b]
          BY <3>5, <4>2, <5>1
        <5>3. QED  BY <2>2, <4>2, <5>1, <5>2 DEF Sorted
      <4>3. CASE a \in DOMAIN q /\ b \notin DOMAIN q
        BY <3>4, <3>5, <3>6, <4>3
      <4>4. CASE a \notin DOMAIN q
        <5>1. b \notin DOMAIN q
          BY <3>5, <4>1, <4>4
        <5>2. /\ a - Len(q) \in DOMAIN r /\ (q \o r)[a] = r[a - Len(q)]
              /\ b - Len(q) \in DOMAIN r /\ (q \o r)[b] = r[b - Len(q)]
          BY <3>6, <4>4, <5>1
        <5>3. a - Len(q) < b - Len(q)
          BY <3>5, <4>1
        <5>4. QED  BY <3>2, <5>2, <5>3 DEF Sorted
      <4>5. QED  BY <4>2, <4>3, <4>4
    <3>8. Origin(q \o r, n + 1)
      <4> SUFFICES ASSUME NEW a \in DOMAIN (q \o r)
                   PROVE  \E i \in 1 .. n + 1 :
                             /\ docs[i].s = s /\ docs[i].frames # <<>>
                             /\ (q \o r)[a] <= LastFrame(docs[i])
        BY DEF Origin
      <4>1. CASE a \in DOMAIN q
        <5>1. (q \o r)[a] = q[a]
          BY <3>5, <4>1
        <5>2. QED  BY <2>3, <4>1, <5>1 DEF Origin
      <4>2. CASE a \notin DOMAIN q
        <5>1. a - Len(q) \in DOMAIN r /\ (q \o r)[a] = r[a - Len(q)]
          BY <3>6, <4>2
        <5>2. d.frames # <<>> /\ r[a - Len(q)] <= LastFrame(d)
          BY <3>2, <5>1, FramesBetween DEF r
        <5>3. QED  BY <2>1, <2>5, <5>1, <5>2 DEF d
      <4>3. QED  BY <4>1, <4>2
    <3>9. QED  BY <2>1, <3>1, <3>5, <3>7, <3>8
  <2>6. QED  BY <2>4, <2>5
<1>5. \A n \in 0 .. m : n \in G
  <2> HIDE DEF G
  <2>1. QED  BY <1>3, <1>4, UpTo
<1>6. QED  BY <1>0, <1>5 DEF f

(* Documents put behind others do not change the frames of these.          *)
LEMMA FramesOfPrefix ==
    ASSUME NEW docs \in Seq(Document), NEW more \in Seq(Document), NEW s,
           Len(docs) <= Len(more),
           \A i \in 1 .. Len(docs) : more[i] = docs[i]
    PROVE  \A n \in 0 .. Len(docs) :
              FramesUpTo(more, s)[n] = FramesUpTo(docs, s)[n]
<1>0. PICK m \in Nat : m = Len(docs)
  OBVIOUS
<1> DEFINE f == FramesUpTo(docs, s)
           g == FramesUpTo(more, s)
           G == {n \in 0 .. m : g[n] = f[n]}
<1>1. /\ f[0] = <<>>
      /\ \A n \in 1 .. m : f[n] = IF docs[n].s = s
                                 THEN f[n - 1] \o docs[n].frames ELSE f[n - 1]
  BY <1>0, FramesUpToIs
<1>2. /\ g[0] = <<>>
      /\ \A n \in 1 .. m : g[n] = IF more[n].s = s
                                 THEN g[n - 1] \o more[n].frames ELSE g[n - 1]
  <2>1. \A n \in 1 .. m : n \in 1 .. Len(more)
    BY <1>0
  <2>2. QED  BY <2>1, FramesUpToIs
<1> HIDE DEF f, g
<1>3. 0 \in G
  BY <1>1, <1>2
<1>4. ASSUME NEW n \in 0 .. m - 1, n \in G PROVE n + 1 \in G
  <2>1. n + 1 \in 1 .. m /\ n + 1 \in 0 .. m /\ (n + 1) - 1 = n
    OBVIOUS
  <2>2. g[n] = f[n] /\ more[n + 1] = docs[n + 1]
    BY <1>0, <1>4, <2>1
  <2>3. g[n + 1] = f[n + 1]
    BY <1>1, <1>2, <2>1, <2>2
  <2>4. QED  BY <2>1, <2>3
<1>5. \A n \in 0 .. m : n \in G
  <2> HIDE DEF G
  <2>1. QED  BY <1>3, <1>4, UpTo
<1>6. QED  BY <1>0, <1>5 DEF f, g

(* What the first k documents hold is the beginning of what all hold.      *)
LEMMA FramesGrow ==
    ASSUME NEW docs \in Seq(Document), NEW s, NEW k \in 0 .. Len(docs),
           \A n \in 0 .. Len(docs) : FramesUpTo(docs, s)[n] \in Seq(Nat)
    PROVE  LET q == FramesUpTo(docs, s)[k]
               r == FramesUpTo(docs, s)[Len(docs)]
           IN  Len(q) <= Len(r) /\ \A a \in 1 .. Len(q) : r[a] = q[a]
<1>0. PICK m \in Nat : m = Len(docs)
  OBVIOUS
<1> DEFINE f == FramesUpTo(docs, s)
           Begins(q, r) == Len(q) <= Len(r) /\ \A a \in 1 .. Len(q) : r[a] = q[a]
           G == {n \in 0 .. m : n >= k => Begins(f[k], f[n])}
<1>1. \A n \in 1 .. m : f[n] = IF docs[n].s = s
                             THEN f[n - 1] \o docs[n].frames ELSE f[n - 1]
  BY <1>0, FramesUpToIs
<1>2. \A n \in 0 .. m : f[n] \in Seq(Nat)
  BY <1>0
<1> HIDE DEF f
<1>3. /\ k \in Nat /\ k <= m /\ k \in 0 .. m
      /\ f[k] \in Seq(Nat) /\ Len(f[k]) \in Nat
  BY <1>0, <1>2
<1>4. 0 \in G
  <2>1. 0 \in 0 .. m /\ (0 >= k => k = 0)
    BY <1>3
  <2>2. Begins(f[k], f[k])
    BY <1>3
  <2> HIDE DEF Begins
  <2>3. QED  BY <2>1, <2>2
<1>5. ASSUME NEW n \in 0 .. m - 1, n \in G PROVE n + 1 \in G
  <2>1. /\ n \in Nat /\ n + 1 \in 1 .. m /\ n + 1 \in 0 .. m /\ n \in 0 .. m
        /\ (n + 1) - 1 = n
    OBVIOUS
  <2>2. CASE n + 1 < k
    BY <1>3, <2>1, <2>2
  <2>3. CASE n + 1 = k
    <3>1. Begins(f[k], f[n + 1])
      BY <1>3, <2>3
    <3> HIDE DEF Begins
    <3>2. QED  BY <2>1, <3>1
  <2>4. CASE n >= k
    <3>1. Begins(f[k], f[n]) /\ f[n] \in Seq(Nat)
      BY <1>2, <1>5, <2>1, <2>4
    <3>2. CASE docs[n + 1].s # s
      <4>1. f[n + 1] = f[n]
        BY <1>1, <2>1, <3>2
      <4> HIDE DEF Begins
      <4>2. QED  BY <2>1, <3>1, <4>1
    <3>3. CASE docs[n + 1].s = s
      <4>1. PICK r \in Seq(Nat) : r = docs[n + 1].frames
        <5>1. docs[n + 1] \in Document
          BY <1>0, <2>1
        <5>2. QED  BY <5>1 DEF Document
      <4>2. f[n + 1] = f[n] \o r
        BY <1>1, <2>1, <3>3, <4>1
      <4>3. /\ Len(f[n] \o r) = Len(f[n]) + Len(r)
            /\ Len(f[n]) \in Nat /\ Len(r) \in Nat
            /\ \A a \in 1 .. Len(f[n]) : (f[n] \o r)[a] = f[n][a]
        BY <3>1, ConcatElements
      <4>4. Begins(f[k], f[n + 1])
        <5>1. Len(f[k]) <= Len(f[n + 1])
          BY <1>3, <3>1, <4>2, <4>3
        <5>2. \A a \in 1 .. Len(f[k]) : a \in 1 .. Len(f[n])
          BY <1>3, <3>1, <4>3
        <5>3. QED  BY <3>1, <4>2, <4>3, <5>1, <5>2
      <4> HIDE DEF Begins
      <4>5. QED  BY <2>1, <4>4
    <3>4. QED  BY <3>2, <3>3
  <2>5. QED  BY <1>3, <2>1, <2>2, <2>3, <2>4
<1>6. m \in G
  <2>1. m \in 0 .. m
    OBVIOUS
  <2> HIDE DEF G
  <2>2. QED  BY <1>4, <1>5, <2>1, UpTo
<1>7. Begins(f[k], f[m])
  BY <1>3, <1>6
<1>8. QED  BY <1>0, <1>7 DEF f

(***************************************************************************)
(* A document is built from one frame, or from a stored one and a later    *)
(* one: its frames are in capture order.                                   *)
(***************************************************************************)
FramesOrder == \A w \in Workers : \A d \in Docs(w) : Sorted(d.frames)

RelayInv == TypeInv /\ OrderInv /\ FramesOrder

(* Documents are built by receives only.                                   *)
LEMMA FramesNext ==
    ASSUME TypeInv, OrderInv, FramesOrder, [Next]_vars
    PROVE  FramesOrder'
<1>1. /\ batches \in [Workers -> Seq(Document)]
      /\ mongo \in [Workers -> Seq(Document)]
  BY DEF TypeInv, TypeOK
<1>2. ASSUME UNCHANGED <<mongo, batches>> PROVE FramesOrder'
  BY <1>2 DEF FramesOrder, Docs
<1>3. CASE AssembleUserPacket \/ Quiet
           \/ \E s \in Sessions : SendConnectionDefaultDatabase(s)
  <2>1. UNCHANGED workerVars
    BY <1>3 DEF AssembleUserPacket, Quiet, SendConnectionDefaultDatabase
  <2>2. QED  BY <1>2, <2>1 DEF workerVars
<1>4. ASSUME NEW w \in Workers, Tick(w) \/ KeepBatch(w) PROVE FramesOrder'
  BY <1>2, <1>4 DEF Tick, KeepBatch
<1>5. ASSUME NEW w \in Workers, Flush(w) PROVE FramesOrder'
  <2>1. PICK k \in 0 .. Len(batches[w]) :
           mongo' = [mongo EXCEPT ![w] = @ \o SubSeq(batches[w], 1, k)]
    BY <1>5, FlushEffect
  <2>2. batches' = [batches EXCEPT ![w] = <<>>]
    BY <1>5 DEF Flush
  <2>3. /\ \A v \in Workers \ {w} : mongo'[v] = mongo[v] /\ batches'[v] = batches[v]
        /\ batches'[w] = <<>>
        /\ mongo'[w] = mongo[w] \o SubSeq(batches[w], 1, k)
    BY <1>1, <2>1, <2>2
  <2>4. \A i \in DOMAIN mongo'[w] :
           \/ i \in DOMAIN mongo[w] /\ mongo'[w][i] = mongo[w][i]
           \/ /\ i - Len(mongo[w]) \in DOMAIN batches[w]
              /\ mongo'[w][i] = batches[w][i - Len(mongo[w])]
    BY <1>1, <2>3, ConcatPrefix
  <2>5. DOMAIN batches'[w] = {}
    BY <2>3
  <2>6. \A v \in Workers : Docs(v)' \subseteq Docs(v)
    <3>1. \A i \in DOMAIN mongo'[w] : mongo'[w][i] \in Docs(w)
      BY <2>4 DEF Docs
    <3>2. Docs(w)' \subseteq Docs(w)
      BY <2>5, <3>1 DEF Docs
    <3>3. \A v \in Workers \ {w} : Docs(v)' = Docs(v)
      BY <2>3 DEF Docs
    <3>4. QED  BY <3>2, <3>3
  <2>7. QED  BY <2>6 DEF FramesOrder
<1>6. ASSUME NEW w \in Workers, ReceiveEffect(w) PROVE FramesOrder'
  <2> DEFINE p == Received(w)
  <2>1. mongo' = mongo /\ mysqlPacketChannels[w] # <<>>
    BY <1>6 DEF ReceiveEffect, Receive
  <2>2. CASE UNCHANGED batches
    BY <1>2, <2>1, <2>2
  <2>3. CASE ~UNCHANGED batches
    <3>1. PICK d \in Document : /\ batches' = [batches EXCEPT ![w] = Append(@, d)]
                                /\ DocumentFrames(w, p, d)
      BY <1>6, <2>3, ReceiveBatch
    <3>2. Sorted(d.frames)
      <4>1. /\ p = mysqlPacketChannels[w][1] /\ 1 \in DOMAIN mysqlPacketChannels[w]
            /\ p \in Packet
        <5>1. mysqlPacketChannels[w] \in Seq(Packet)
          BY DEF TypeInv, TypeOK
        <5>2. QED  BY <2>1, <5>1, TailElements DEF Received
      <4>2. ~p.IsParsed => mysqlRequestMaps[w][p.s].n < p.n
        BY <4>1 DEF OrderInv, ChannelOrder
      <4> HIDE DEF p
      <4>3. CASE d.frames = <<>> \/ d.frames = <<p.n>>
        <5>1. \A i, j \in DOMAIN d.frames : ~(i < j)
          BY <4>3
        <5>2. QED  BY <5>1 DEF Sorted
      <4>4. CASE ~p.IsParsed /\ d.frames = <<mysqlRequestMaps[w][p.s].n, p.n>>
        <5>1. \A i, j \in DOMAIN d.frames : i < j => i = 1 /\ j = 2
          BY <4>4
        <5>2. d.frames[1] = mysqlRequestMaps[w][p.s].n /\ d.frames[2] = p.n
          BY <4>4
        <5>3. QED  BY <4>2, <4>4, <5>1, <5>2 DEF Sorted
      <4>5. QED  BY <3>1, <4>3, <4>4 DEF DocumentFrames
    <3>3. \A v \in Workers : \A x \in Docs(v)' : x \in Docs(v) \/ x = d
      <4>1. \A v \in Workers \ {w} : batches'[v] = batches[v]
        BY <1>1, <3>1
      <4>2. batches'[w] = Append(batches[w], d) /\ batches[w] \in Seq(Document)
        BY <1>1, <3>1
      <4>3. \A i \in DOMAIN batches'[w] :
               \/ i \in DOMAIN batches[w] /\ batches'[w][i] = batches[w][i]
               \/ batches'[w][i] = d
        BY <4>2, AppendElements
      <4>4. QED  BY <2>1, <4>1, <4>3 DEF Docs
    <3>4. QED  BY <3>2, <3>3 DEF FramesOrder
  <2>4. QED  BY <2>2, <2>3
<1>7. QED  BY <1>3, <1>4, <1>5, <1>6, StepCases

(* The documents of a collection, in this state or the next: what is       *)
(* stored of a session is in capture order and has been sent.              *)
LEMMA StoredInOrder ==
    ASSUME NEW docs \in Seq(Document), NEW s, NEW top \in Nat,
           \A i \in DOMAIN docs : /\ Sorted(docs[i].frames)
                                  /\ docs[i].s = s /\ docs[i].frames # <<>> =>
                                        LastFrame(docs[i]) < top + 1,
           \A i, j \in DOMAIN docs : i < j => Precedes(docs[i], docs[j])
    PROVE  LET q == FramesUpTo(docs, s)[Len(docs)] IN
           /\ \A n \in 0 .. Len(docs) : FramesUpTo(docs, s)[n] \in Seq(Nat)
           /\ q \in Seq(Nat) /\ Sorted(q)
           /\ \A a \in DOMAIN q : q[a] <= top
<1> DEFINE q == FramesUpTo(docs, s)[Len(docs)]
<1>1. /\ DOMAIN docs = 1 .. Len(docs) /\ Len(docs) \in 0 .. Len(docs)
      /\ \A i \in DOMAIN docs : docs[i] \in Document
  OBVIOUS
<1>2. /\ \A i \in 1 .. Len(docs) : Sorted(docs[i].frames)
      /\ \A i, j \in 1 .. Len(docs) : i < j => Precedes(docs[i], docs[j])
  BY <1>1
<1>3. \A n \in 0 .. Len(docs) :
         LET r == FramesUpTo(docs, s)[n] IN
         /\ r \in Seq(Nat)
         /\ Sorted(r)
         /\ \A a \in DOMAIN r : \E i \in 1 .. n :
               /\ docs[i].s = s /\ docs[i].frames # <<>>
               /\ r[a] <= LastFrame(docs[i])
  BY <1>2, FramesInOrder
<1>4. /\ q \in Seq(Nat) /\ Sorted(q)
      /\ \A a \in DOMAIN q : \E i \in 1 .. Len(docs) :
            /\ docs[i].s = s /\ docs[i].frames # <<>>
            /\ q[a] <= LastFrame(docs[i])
  BY <1>1, <1>3
<1> HIDE DEF q
<1>5. ASSUME NEW a \in DOMAIN q PROVE q[a] <= top
  <2>1. PICK i \in 1 .. Len(docs) : /\ docs[i].s = s /\ docs[i].frames # <<>>
                                    /\ q[a] <= LastFrame(docs[i])
    BY <1>4
  <2>2. LastFrame(docs[i]) < top + 1
    BY <1>1, <2>1
  <2>3. LastFrame(docs[i]) \in Nat
    <3>1. docs[i] \in Document
      BY <1>1
    <3>2. docs[i].frames \in Seq(Nat)
      BY <3>1 DEF Document
    <3>3. QED  BY <2>1, <3>2 DEF LastFrame
  <2>4. q[a] \in Nat
    BY <1>4
  <2>5. QED  BY <2>1, <2>2, <2>3, <2>4
<1>6. QED  BY <1>3, <1>4, <1>5 DEF q

(* The next stored frames come behind those stored before.                 *)
LEMMA FlushExtends ==
    ASSUME RelayInv, RelayInv', NEW w \in Workers, Flush(w), NEW s \in Sessions
    PROVE  WireRelay!Extends(StoredFrames(s), StoredFrames(s)', sent[s])
<1> DEFINE v == WorkerOf(s)
           docs == mongo[v]
           more == mongo'[v]
           q == StoredFrames(s)
           r == StoredFrames(s)'
<1>1. PICK k \in 0 .. Len(batches[w]) :
         mongo' = [mongo EXCEPT ![w] = @ \o SubSeq(batches[w], 1, k)]
  BY FlushEffect DEF RelayInv
<1>2. sent' = sent
  BY DEF Flush, captureVars
<1>3. /\ mongo \in [Workers -> Seq(Document)]
      /\ batches \in [Workers -> Seq(Document)]
      /\ v \in Workers /\ sent[s] \in Nat
  BY WorkerIndex DEF RelayInv, TypeInv, TypeOK
<1>4. docs \in Seq(Document) /\ q = FramesUpTo(docs, s)[Len(docs)]
  BY <1>3 DEF StoredFrames
<1>5. more \in Seq(Document) /\ r = FramesUpTo(more, s)[Len(more)]
  BY <1>3 DEF StoredFrames, RelayInv, TypeInv, TypeOK
<1>6. /\ Len(docs) \in 0 .. Len(more) /\ Len(docs) \in 0 .. Len(docs)
      /\ \A i \in 1 .. Len(docs) : more[i] = docs[i]
  <2>1. CASE v # w
    <3>1. more = docs
      BY <1>1, <1>3, <2>1
    <3> HIDE DEF docs, more
    <3>2. QED  BY <1>4, <3>1
  <2>2. CASE v = w
    <3>1. more = docs \o SubSeq(batches[w], 1, k)
      BY <1>1, <1>3, <2>2
    <3>2. PICK b \in Seq(Document) : b = batches[w] /\ k \in 0 .. Len(b)
      BY <1>3
    <3> DEFINE c == SubSeq(b, 1, k)
    <3>3. c \in Seq(Document)
      BY <3>2
    <3> HIDE DEF docs, more, c
    <3>4. more = docs \o c
      BY <3>1, <3>2 DEF c
    <3>5. QED  BY <1>4, <3>3, <3>4
  <2>3. QED  BY <2>1, <2>2
<1>7. /\ \A n \in 0 .. Len(more) : FramesUpTo(more, s)[n] \in Seq(Nat)
      /\ r \in Seq(Nat) /\ Sorted(r)
      /\ \A a \in DOMAIN r : r[a] <= sent[s]
  <2>1. \A i \in DOMAIN more :
           /\ Sorted(more[i].frames)
           /\ more[i].s = s /\ more[i].frames # <<>> =>
                 LastFrame(more[i]) < sent[s] + 1
    <3> SUFFICES ASSUME NEW i \in DOMAIN more
                 PROVE  /\ Sorted(more[i].frames)
                        /\ more[i].s = s /\ more[i].frames # <<>> =>
                              LastFrame(more[i]) < sent[s] + 1
      OBVIOUS
    <3>1. more[i] \in Docs(v)'
      BY DEF Docs
    <3>2. Sorted(more[i].frames)
      BY <1>3, <3>1 DEF RelayInv, FramesOrder, Sorted
    <3>3. DocsBefore(v, s, sent[s] + 1)'
      BY <1>3 DEF RelayInv, OrderInv, NextOrder
    <3>4. QED  BY <1>2, <3>1, <3>2, <3>3 DEF DocsBefore, LastFrame
  <2>2. \A i, j \in DOMAIN more : i < j => Precedes(more[i], more[j])
    BY <1>3 DEF RelayInv, OrderInv, QueueOrder, Precedes
  <2> HIDE DEF more, r
  <2>3. QED  BY <1>3, <1>5, <2>1, <2>2, StoredInOrder
<1>8. q \in Seq(Nat)
  <2>1. /\ \A i \in DOMAIN docs :
              /\ Sorted(docs[i].frames)
              /\ docs[i].s = s /\ docs[i].frames # <<>> =>
                    LastFrame(docs[i]) < sent[s] + 1
        /\ \A i, j \in DOMAIN docs : i < j => Precedes(docs[i], docs[j])
    BY <1>3 DEF RelayInv, OrderInv, NextOrder, DocsBefore, LastFrame, QueueOrder,
                FramesOrder, Docs
  <2> HIDE DEF docs, q
  <2>2. QED  BY <1>3, <1>4, <2>1, StoredInOrder
<1> HIDE DEF v, docs, more, q, r
<1>9. Len(docs) <= Len(more) /\ Len(docs) \in Nat
  BY <1>4, <1>5, <1>6
<1>10. q = FramesUpTo(more, s)[Len(docs)]
  BY <1>4, <1>5, <1>6, <1>9, FramesOfPrefix
<1>11. Len(q) <= Len(r) /\ \A a \in 1 .. Len(q) : r[a] = q[a]
  <2>1. PICK n \in 0 .. Len(more) : n = Len(docs)
    BY <1>6
  <2>2. LET x == FramesUpTo(more, s)[n]
            y == FramesUpTo(more, s)[Len(more)]
        IN  Len(x) <= Len(y) /\ \A a \in 1 .. Len(x) : y[a] = x[a]
    BY <1>5, <1>7, FramesGrow
  <2>3. QED  BY <1>5, <1>10, <2>1, <2>2
<1>12. ASSUME NEW i \in Len(q) + 1 .. Len(r)
       PROVE  r[i] <= sent[s] /\ \A j \in 1 .. i - 1 : r[j] < r[i]
  <2>1. i \in DOMAIN r /\ \A j \in 1 .. i - 1 : j \in DOMAIN r /\ j < i
    BY <1>7, <1>8
  <2>2. QED  BY <1>7, <2>1 DEF Sorted
<1>13. QED  BY <1>11, <1>12 DEF q, r, WireRelay!Extends

(* Every step of the collector is one of the relay, or none.               *)
LEMMA RelayStep ==
    ASSUME RelayInv, RelayInv', [Next]_vars
    PROVE  [WireRelay!Next]_(WireRelay!vars)
<1> DEFINE out == [s \in Sessions |-> StoredFrames(s)]
<1>1. ASSUME mongo' = mongo PROVE out' = out
  BY <1>1 DEF StoredFrames, WorkerOf
<1>2. CASE UNCHANGED captureVars /\ ~\E w \in Workers : Flush(w)
  <2>1. mongo' = mongo
    <3>1. ASSUME NEW w \in Workers, ReceiveEffect(w) PROVE mongo' = mongo
      BY <3>1 DEF ReceiveEffect, Receive
    <3>2. ASSUME NEW w \in Workers, Tick(w) \/ KeepBatch(w) PROVE mongo' = mongo
      BY <3>2 DEF Tick, KeepBatch
    <3>3. CASE Quiet \/ AssembleUserPacket
               \/ \E s \in Sessions : SendConnectionDefaultDatabase(s)
      BY <3>3 DEF Quiet, AssembleUserPacket, SendConnectionDefaultDatabase, workerVars
    <3>4. QED  BY <1>2, <3>1, <3>2, <3>3, StepCases DEF RelayInv
  <2>2. sent' = sent
    BY <1>2 DEF captureVars
  <2>3. QED  BY <1>1, <2>1, <2>2 DEF WireRelay!vars
<1>3. CASE AssembleUserPacket
  BY <1>1, <1>3 DEF AssembleUserPacket, workerVars, WireRelay!vars
<1>4. ASSUME NEW s \in Sessions, CaptureNext(s) \/ PacketDropped(s)
      PROVE  WireRelay!Next
  <2>1. mongo' = mongo /\ Transmit(s)
    BY <1>4 DEF CaptureNext, PacketDropped, workerVars
  <2>2. \A r \in Sessions : sent'[r] >= sent[r]
    BY <2>1 DEF Transmit, RelayInv, TypeInv, TypeOK
  <2>3. QED  BY <1>1, <2>1, <2>2 DEF WireRelay!Next, WireRelay!Enter
<1>5. ASSUME NEW w \in Workers, Flush(w)
      PROVE  WireRelay!Next
  <2>1. \A s \in Sessions :
           WireRelay!Extends(StoredFrames(s), StoredFrames(s)', sent[s])
    BY <1>5, FlushExtends
  <2>2. sent' = sent
    BY <1>5 DEF Flush, captureVars
  <2>3. \A s \in Sessions : WireRelay!Extends(out[s], out'[s], sent[s])
    BY <2>1
  <2>4. QED  BY <2>2, <2>3 DEF WireRelay!Next, WireRelay!Leave
<1>6. QED  BY <1>2, <1>3, <1>4, <1>5, CaptureCases

(* The collector implements the abstract relay.  In every execution, with  *)
(* any traffic and any number of workers, what is lost by the capture      *)
(* library, expires, is swept away or fails half way in a bulk insert is   *)
(* only left out: the frames of a session are stored in the order they     *)
(* were sent, none twice, and what is stored is never taken back.          *)
THEOREM CollectorImplementsRelay == Spec => CollectorRelays
<1>1. Init => RelayInv
  <2>1. Init => FramesOrder
    BY DEF Init, FramesOrder, Docs
  <2>2. QED  BY <2>1, TypeInit, OrderInit DEF RelayInv
<1>2. RelayInv /\ [Next]_vars => RelayInv'
  BY TypeNext, OrderNext, FramesNext DEF RelayInv
<1>3. Init => WireRelay!Init
  <2> SUFFICES ASSUME Init PROVE WireRelay!Init
    OBVIOUS
  <2>1. \A s \in Sessions : sent[s] = 0
    BY DEF Init
  <2>2. ASSUME NEW s \in Sessions PROVE StoredFrames(s) = <<>>
    <3>1. mongo[WorkerOf(s)] = <<>>
      BY WorkerIndex DEF Init
    <3>2. <<>> \in Seq(Document) /\ Len(<<>>) = 0
      OBVIOUS
    <3>3. FramesUpTo(<<>>, s)[0] = <<>>
      BY <3>2, FramesUpToIs
    <3>4. QED  BY <3>1, <3>2, <3>3 DEF StoredFrames
  <2>3. QED  BY <2>1, <2>2 DEF WireRelay!Init
<1>4. RelayInv /\ RelayInv' /\ [Next]_vars => [WireRelay!Next]_(WireRelay!vars)
  BY RelayStep
<1>5. QED  BY <1>1, <1>2, <1>3, <1>4, PTL DEF Spec, CollectorRelays, WireRelay!Spec
=============================================================================
