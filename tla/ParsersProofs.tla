--------------------------- MODULE ParsersProofs ---------------------------
(***************************************************************************)
(* Proofs about the parsers, for every frame, every login and every        *)
(* statement that the assumption on the inputs describes: data of any      *)
(* length, names and authentication responses of any length, any number of *)
(* comments.                                                               *)
(*                                                                         *)
(* The argument is one of layout.  What a client sends is a sequence of    *)
(* parts; a lemma says where each part begins, and the lemmas on a parser  *)
(* that the positions it computes are those.                               *)
(***************************************************************************)
EXTENDS Parsers, Integers, SequenceTheorems, WellFoundedInduction, TLAPS

-----------------------------------------------------------------------------
(* Sequences of bytes.                                                     *)

(* \o under a name that the provers do not open.                           *)
Join(s, t) == s \o t

(* A length is a number.                                                   *)
LEMMA LenLemma == \A s \in Seq(Nat) : Len(s) \in Nat
BY LenProperties

(* What follows two sequences of bytes joined: their lengths add up.       *)
LEMMA JoinType ==
    \A s, t \in Seq(Nat) :
        Join(s, t) \in Seq(Nat) /\ Len(Join(s, t)) = Len(s) + Len(t)
BY ConcatProperties DEF Join

(* The first bytes of a join are those of the first part.                  *)
LEMMA JoinLeft ==
    \A s, t \in Seq(Nat) : \A i \in 1 .. Len(s) : Join(s, t)[i] = s[i]
<1> TAKE s, t \in Seq(Nat)
<1> TAKE i \in 1 .. Len(s)
<1>1. Len(s) \in Nat /\ Len(t) \in Nat
  BY LenLemma
<1>2. i \in 1 .. Len(s) + Len(t)
  BY <1>1
<1> QED BY <1>1, <1>2, ConcatProperties DEF Join

(* The bytes behind them are those of the second.                          *)
LEMMA JoinRight ==
    \A s, t \in Seq(Nat) : \A i \in 1 .. Len(t) : Join(s, t)[Len(s) + i] = t[i]
<1> TAKE s, t \in Seq(Nat)
<1> TAKE i \in 1 .. Len(t)
<1>1. Len(s) \in Nat /\ Len(t) \in Nat
  BY LenLemma
<1>2. Len(s) + i \in 1 .. Len(s) + Len(t)
  BY <1>1
<1> QED BY <1>1, <1>2, ConcatProperties DEF Join

(* Three parts can be joined in either order.                              *)
LEMMA JoinAssociative ==
    \A s, t, u \in Seq(Nat) : Join(Join(s, t), u) = Join(s, Join(t, u))
BY ConcatAssociative, SMTT(60) DEF Join

(* An empty part adds nothing.                                             *)
LEMMA JoinEmpty == \A s \in Seq(Nat) : Join(s, <<>>) = s /\ Join(<<>>, s) = s
BY ConcatEmptySeq DEF Join

(* A slice data[m:n] and its bytes.                                        *)
LEMMA CutType ==
    ASSUME NEW s \in Seq(Nat), NEW m \in Nat, NEW n \in Nat, m <= n, n <= Len(s)
    PROVE  /\ P!Slice(s, m, n) \in Seq(Nat)
           /\ Len(P!Slice(s, m, n)) = n - m
           /\ \A i \in 1 .. n - m : P!Slice(s, m, n)[i] = s[m + i]
<1>1. \A i \in m + 1 .. n : s[i] \in Nat
  BY LenProperties
<1> QED BY <1>1, SubSeqProperties DEF P!Slice

(* A slice of the middle of three.                                         *)
LEMMA SliceJoin ==
    ASSUME NEW s \in Seq(Nat), NEW t \in Seq(Nat), NEW u \in Seq(Nat)
    PROVE  P!Slice(Join(s, Join(t, u)), Len(s), Len(s) + Len(t)) = t
<1>1. Len(s) \in Nat /\ Len(t) \in Nat /\ Len(u) \in Nat
  BY LenLemma
<1>2. PICK v : v = Join(t, u)
  OBVIOUS
<1>3. v \in Seq(Nat) /\ Len(v) = Len(t) + Len(u)
  BY <1>2, JoinType
<1>4. PICK w : w = Join(s, v)
  OBVIOUS
<1>5. w \in Seq(Nat) /\ Len(w) = Len(s) + Len(v)
  BY <1>3, <1>4, JoinType
<1>6. PICK m, n \in Nat : m = Len(s) /\ n = Len(s) + Len(t)
  BY <1>1
<1>7. m <= n /\ n <= Len(w) /\ n - m = Len(t)
  BY <1>1, <1>3, <1>5, <1>6
<1>8. /\ P!Slice(w, m, n) \in Seq(Nat)
      /\ Len(P!Slice(w, m, n)) = n - m
      /\ \A i \in 1 .. n - m : P!Slice(w, m, n)[i] = w[m + i]
  BY <1>5, <1>7, CutType
<1>9. \A i \in 1 .. Len(t) : P!Slice(w, m, n)[i] = t[i]
  <2> TAKE i \in 1 .. Len(t)
  <2>1. i \in 1 .. Len(v)
    BY <1>1, <1>3
  <2>2. w[Len(s) + i] = v[i]
    BY <2>1, <1>3, <1>4, JoinRight, Zenon
  <2>3. v[i] = t[i]
    BY <1>2, JoinLeft, Zenon
  <2>4. P!Slice(w, m, n)[i] = w[m + i]
    BY <1>7, <1>8, Zenon
  <2> QED BY <2>2, <2>3, <2>4, <1>6, Zenon
<1>10. P!Slice(w, m, n) = t
  BY <1>7, <1>8, <1>9, SeqEqual
<1> QED BY <1>2, <1>4, <1>6, <1>10, Zenon

(* What is behind the first part of two.                                   *)
LEMMA FromJoin ==
    ASSUME NEW s \in Seq(Nat), NEW t \in Seq(Nat)
    PROVE  P!From(Join(s, t), Len(s)) = t
<1>1. <<>> \in Seq(Nat)
  OBVIOUS
<1>2. P!Slice(Join(s, Join(t, <<>>)), Len(s), Len(s) + Len(t)) = t
  BY <1>1, SliceJoin
<1>3. P!Slice(Join(s, t), Len(s), Len(s) + Len(t)) = t
  BY <1>2, JoinEmpty, Zenon
<1>4. Len(Join(s, t)) = Len(s) + Len(t)
  BY JoinType, Zenon
<1> QED BY <1>3, <1>4, Zenon DEF P!From, P!Slice

(* What is left of two when the second is cut off.                         *)
LEMMA PrefixJoin ==
    ASSUME NEW s \in Seq(Nat), NEW t \in Seq(Nat)
    PROVE  SubSeq(Join(s, t), 1, Len(s)) = s
<1>1. Len(s) \in Nat /\ Len(t) \in Nat
  BY LenLemma
<1>2. PICK w : w = Join(s, t)
  OBVIOUS
<1>3. w \in Seq(Nat) /\ Len(w) = Len(s) + Len(t)
  BY <1>2, JoinType
<1>4. PICK n \in Nat : n = Len(s)
  BY <1>1
<1>5. /\ P!Slice(w, 0, n) \in Seq(Nat)
      /\ Len(P!Slice(w, 0, n)) = n - 0
      /\ \A i \in 1 .. n - 0 : P!Slice(w, 0, n)[i] = w[0 + i]
  <2>1. 0 \in Nat /\ 0 <= n /\ n <= Len(w)
    BY <1>1, <1>3, <1>4
  <2> QED BY <2>1, <1>3, CutType, Zenon
<1>6. SubSeq(w, 1, n) = P!Slice(w, 0, n)
  BY DEF P!Slice
<1>7. \A i \in 1 .. n : w[i] = s[i]
  BY <1>2, <1>4, JoinLeft, Zenon
<1>8. \A i \in 1 .. n : P!Slice(w, 0, n)[i] = s[i]
  BY <1>5, <1>7
<1>9. Len(P!Slice(w, 0, n)) = Len(s)
  BY <1>4, <1>5
<1>10. P!Slice(w, 0, n) = s
  BY <1>4, <1>5, <1>8, <1>9, SeqEqual
<1> QED BY <1>2, <1>4, <1>6, <1>10, Zenon

(* A sequence is its front and its rest.                                   *)
LEMMA SplitSequence ==
    ASSUME NEW s \in Seq(Nat), NEW n \in Nat, n <= Len(s)
    PROVE  /\ SubSeq(s, 1, n) \in Seq(Nat)
           /\ Len(SubSeq(s, 1, n)) = n
           /\ P!Slice(s, n, Len(s)) \in Seq(Nat)
           /\ Len(P!Slice(s, n, Len(s))) = Len(s) - n
           /\ s = Join(SubSeq(s, 1, n), P!Slice(s, n, Len(s)))
<1>1. Len(s) \in Nat
  BY LenLemma
<1>2. /\ P!Slice(s, 0, n) \in Seq(Nat)
      /\ Len(P!Slice(s, 0, n)) = n - 0
  BY CutType
<1>3. SubSeq(s, 1, n) = P!Slice(s, 0, n)
  BY DEF P!Slice
<1>4. /\ P!Slice(s, n, Len(s)) \in Seq(Nat)
      /\ Len(P!Slice(s, n, Len(s))) = Len(s) - n
  <2>1. Len(s) <= Len(s)
    BY <1>1
  <2> QED BY <2>1, <1>1, CutType, Zenon
<1>5. SubSeq(s, 1, n) \o SubSeq(s, n + 1, Len(s)) = SubSeq(s, 1, Len(s))
  <2>1. 1 \in 1 .. Len(s) + 1 /\ n \in 1 - 1 .. Len(s) /\ Len(s) \in n .. Len(s)
    BY <1>1
  <2> QED BY <2>1, ConcatAdjacentSubSeq
<1>6. SubSeq(s, 1, Len(s)) = s
  BY SubSeqFull
<1>7. s = Join(SubSeq(s, 1, n), P!Slice(s, n, Len(s)))
  BY <1>5, <1>6, Zenon DEF Join, P!Slice
<1> QED BY <1>2, <1>3, <1>4, <1>7

(* The fields of a frame and their bounds.                                 *)
LEMMA FrameFields ==
    ASSUME NEW f, P!IsFrame(f)
    PROVE  /\ f.link \in {"ethernet", "raw"} /\ f.version \in {4, 6}
           /\ f.options \in Nat /\ f.options <= 10
           /\ f.tcpOptions \in Nat /\ f.tcpOptions <= 10
           /\ f.class \in Nat /\ f.class <= 15
           /\ f.port \in Nat /\ f.port <= 65535
           /\ f.n \in Nat
           /\ f.len \in Nat /\ f.lost \in Nat /\ f.noTotal \in BOOLEAN
           /\ f.lost <= f.len
           /\ f.noTotal => f.len >= 60
           /\ f.version = 6 => f.options = 0 /\ ~f.noTotal
BY DEF P!IsFrame

(* Two bytes hold a number below 65536, the high byte first.               *)
LEMMA OctetsLemma ==
    ASSUME NEW n \in Nat
    PROVE  /\ P!Octets(n) \in Seq(Nat)
           /\ Len(P!Octets(n)) = 2
           /\ P!Octets(n)[1] \in Nat /\ P!Octets(n)[2] \in Nat
           /\ 256 * P!Octets(n)[1] + P!Octets(n)[2] = n
<1>1. n \div 256 \in Nat /\ n % 256 \in Nat /\ 256 * (n \div 256) + (n % 256) = n
  OBVIOUS
<1>2. P!Octets(n) = <<n \div 256, n % 256>>
  BY DEF P!Octets
<1> HIDE DEF P!Octets
<1> QED BY <1>1, <1>2

(* A number of equal bytes.                                                *)
LEMMA BytesLemma ==
    ASSUME NEW b \in Nat, NEW n \in Nat
    PROVE  /\ P!Bytes(b, n) \in Seq(Nat)
           /\ Len(P!Bytes(b, n)) = n
           /\ \A i \in 1 .. n : P!Bytes(b, n)[i] = b
BY DEF P!Bytes

TcpHeader(f) ==
    P!Octets(f.port) \o P!Octets(3306)
    \o <<7, 7, f.n, f.n>> \o <<9, f.n, 9, f.n>>
    \o <<16 * (5 + f.tcpOptions), 24, f.n, 1>> \o <<f.n, 5, 0, 0>>
    \o P!Bytes(1, 4 * f.tcpOptions)

(* The addresses of either version of IP, as bytes.                        *)
LEMMA AddressBytes ==
    /\ P!Bytes(32, 15) \in Seq(Nat)
    /\ Len(P!Bytes(32, 15)) = 15
    /\ \A j \in 1 .. 15 : P!Bytes(32, 15)[j] = 32
<1>1. PICK b, n \in Nat : b = 32 /\ n = 15
  OBVIOUS
<1>2. /\ P!Bytes(b, n) \in Seq(Nat)
      /\ Len(P!Bytes(b, n)) = n
      /\ \A i \in 1 .. n : P!Bytes(b, n)[i] = b
  BY BytesLemma
<1> QED BY <1>1, <1>2

(* The length in the IPv4 header.                                          *)
TotalLength(f) ==
    IF f.noTotal THEN 0 ELSE (20 + 4 * f.options) + P!TcpLength(f)

(* The TCP header: its length, the port and the offset of the data that    *)
(* the parsers read in it.                                                 *)
LEMMA TcpHeaderBytes ==
    ASSUME NEW f, P!IsFrame(f)
    PROVE  /\ TcpHeader(f) \in Seq(Nat)
           /\ Len(TcpHeader(f)) = 20 + 4 * f.tcpOptions
           /\ TcpHeader(f)[1] \in Nat /\ TcpHeader(f)[2] \in Nat
           /\ 256 * TcpHeader(f)[1] + TcpHeader(f)[2] = f.port
           /\ TcpHeader(f)[13] = 16 * (5 + f.tcpOptions)
<1> DEFINE a == P!Octets(f.port)
           b == P!Octets(3306)
           c == <<7, 7, f.n, f.n>>
           d == <<9, f.n, 9, f.n>>
           e == <<16 * (5 + f.tcpOptions), 24, f.n, 1>>
           g == <<f.n, 5, 0, 0>>
           h == P!Bytes(1, 4 * f.tcpOptions)
           ab == Join(a, b)
           ac == Join(ab, c)
           ad == Join(ac, d)
           ae == Join(ad, e)
           ag == Join(ae, g)
           ah == Join(ag, h)
<1>0. /\ f.port \in Nat /\ f.n \in Nat /\ f.tcpOptions \in Nat
      /\ 4 * f.tcpOptions \in Nat /\ 16 * (5 + f.tcpOptions) \in Nat
  BY FrameFields
<1>1. /\ a \in Seq(Nat) /\ Len(a) = 2 /\ a[1] \in Nat /\ a[2] \in Nat
      /\ 256 * a[1] + a[2] = f.port
  BY <1>0, OctetsLemma
<1>2. b \in Seq(Nat) /\ Len(b) = 2
  BY OctetsLemma
<1>3. c \in Seq(Nat) /\ Len(c) = 4
  BY <1>0
<1>4. d \in Seq(Nat) /\ Len(d) = 4
  BY <1>0
<1>5. e \in Seq(Nat) /\ Len(e) = 4 /\ e[1] = 16 * (5 + f.tcpOptions)
  BY <1>0
<1>6. g \in Seq(Nat) /\ Len(g) = 4
  BY <1>0
<1>7. h \in Seq(Nat) /\ Len(h) = 4 * f.tcpOptions
  BY <1>0, BytesLemma
<1>8. TcpHeader(f) = ah
  BY DEF TcpHeader, Join
<1> HIDE DEF a, b, c, d, e, g, h
<1>9. /\ ab \in Seq(Nat) /\ Len(ab) = 4
      /\ ab[1] = a[1]
      /\ ab[2] = a[2]
  <2>1. ab \in Seq(Nat) /\ Len(ab) = Len(a) + Len(b)
    BY <1>1, <1>2, JoinType
  <2>2. 1 \in 1 .. Len(a) /\ 2 \in 1 .. Len(a)
    BY <1>1
  <2>3. ab[1] = a[1] /\ ab[2] = a[2]
    BY <2>2, <1>1, <1>2, JoinLeft, Zenon
  <2> QED BY <2>1, <2>3, <1>1, <1>2
<1> HIDE DEF ab
<1>10. /\ ac \in Seq(Nat) /\ Len(ac) = 8
       /\ ac[1] = a[1]
       /\ ac[2] = a[2]
  <2>1. ac \in Seq(Nat) /\ Len(ac) = Len(ab) + Len(c)
    BY <1>9, <1>3, JoinType
  <2>2. 1 \in 1 .. Len(ab) /\ 2 \in 1 .. Len(ab)
    BY <1>9
  <2>3. ac[1] = ab[1] /\ ac[2] = ab[2]
    BY <2>2, <1>9, <1>3, JoinLeft, Zenon
  <2> QED BY <2>1, <2>3, <1>9, <1>3
<1> HIDE DEF ac
<1>11. /\ ad \in Seq(Nat) /\ Len(ad) = 12
       /\ ad[1] = a[1]
       /\ ad[2] = a[2]
  <2>1. ad \in Seq(Nat) /\ Len(ad) = Len(ac) + Len(d)
    BY <1>10, <1>4, JoinType
  <2>2. 1 \in 1 .. Len(ac) /\ 2 \in 1 .. Len(ac)
    BY <1>10
  <2>3. ad[1] = ac[1] /\ ad[2] = ac[2]
    BY <2>2, <1>10, <1>4, JoinLeft, Zenon
  <2> QED BY <2>1, <2>3, <1>10, <1>4
<1> HIDE DEF ad
<1>12. /\ ae \in Seq(Nat) /\ Len(ae) = 16
       /\ ae[1] = a[1]
       /\ ae[2] = a[2]
       /\ ae[13] = e[1]
  <2>1. ae \in Seq(Nat) /\ Len(ae) = Len(ad) + Len(e)
    BY <1>11, <1>5, JoinType
  <2>2. 1 \in 1 .. Len(ad) /\ 2 \in 1 .. Len(ad)
    BY <1>11
  <2>3. ae[1] = ad[1] /\ ae[2] = ad[2]
    BY <2>2, <1>11, <1>5, JoinLeft, Zenon
  <2>4. 1 \in 1 .. Len(e)
    BY <1>5
  <2>5. ae[Len(ad) + 1] = e[1]
    BY <2>4, <1>11, <1>5, JoinRight, Zenon
  <2> QED BY <2>1, <2>3, <2>5, <1>11, <1>5
<1> HIDE DEF ae
<1>13. /\ ag \in Seq(Nat) /\ Len(ag) = 20
       /\ ag[1] = a[1]
       /\ ag[2] = a[2]
       /\ ag[13] = e[1]
  <2>1. ag \in Seq(Nat) /\ Len(ag) = Len(ae) + Len(g)
    BY <1>12, <1>6, JoinType
  <2>2. 1 \in 1 .. Len(ae) /\ 2 \in 1 .. Len(ae) /\ 13 \in 1 .. Len(ae)
    BY <1>12
  <2>3. ag[1] = ae[1] /\ ag[2] = ae[2] /\ ag[13] = ae[13]
    BY <2>2, <1>12, <1>6, JoinLeft, Zenon
  <2> QED BY <2>1, <2>3, <1>12, <1>6
<1> HIDE DEF ag
<1>14. /\ ah \in Seq(Nat) /\ Len(ah) = 20 + 4 * f.tcpOptions
       /\ ah[1] = a[1]
       /\ ah[2] = a[2]
       /\ ah[13] = e[1]
  <2>1. ah \in Seq(Nat) /\ Len(ah) = Len(ag) + Len(h)
    BY <1>13, <1>7, JoinType
  <2>2. 1 \in 1 .. Len(ag) /\ 2 \in 1 .. Len(ag) /\ 13 \in 1 .. Len(ag)
    BY <1>13
  <2>3. ah[1] = ag[1] /\ ah[2] = ag[2] /\ ah[13] = ag[13]
    BY <2>2, <1>13, <1>7, JoinLeft, Zenon
  <2> QED BY <2>1, <2>3, <1>13, <1>7
<1> HIDE DEF ah
<1> QED BY <1>1, <1>5, <1>8, <1>14

(* The IPv4 header: its length, the first byte, the total length and the   *)
(* protocol that the parsers read in it.                                   *)
LEMMA Ipv4HeaderBytes ==
    ASSUME NEW f, P!IsFrame(f), f.version = 4
    PROVE  /\ P!Ip(f) \in Seq(Nat)
           /\ Len(P!Ip(f)) = 20 + 4 * f.options
           /\ P!Ip(f)[1] = 69 + f.options
           /\ P!Ip(f)[3] \in Nat /\ P!Ip(f)[4] \in Nat
           /\ 256 * P!Ip(f)[3] + P!Ip(f)[4] = TotalLength(f)
           /\ P!Ip(f)[10] = 6
           /\ P!Ip(f)[13] = 10 /\ P!Ip(f)[14] = 0
<1> DEFINE a == <<64 + 5 + f.options, 16 * f.class>>
           b == P!Octets(TotalLength(f))
           c == <<f.n, f.n, 64, 0, 64, P!IP_TCP, f.n, f.n>>
           d == <<10, 0, 0, 1>>
           e == <<10, 0, 0, 2>>
           h == P!Bytes(1, 4 * f.options)
           ab == Join(a, b)
           ac == Join(ab, c)
           ad == Join(ac, d)
           ae == Join(ad, e)
           ah == Join(ae, h)
<1>0. /\ f.n \in Nat /\ f.options \in Nat /\ f.class \in Nat /\ TotalLength(f) \in Nat
      /\ 4 * f.options \in Nat /\ 64 + 5 + f.options \in Nat /\ 16 * f.class \in Nat
  BY FrameFields DEF TotalLength, P!TcpLength
<1>1. a \in Seq(Nat) /\ Len(a) = 2 /\ a[1] = 69 + f.options
  BY <1>0
<1>2. /\ b \in Seq(Nat) /\ Len(b) = 2 /\ b[1] \in Nat /\ b[2] \in Nat
      /\ 256 * b[1] + b[2] = TotalLength(f)
  BY <1>0, OctetsLemma
<1>3. c \in Seq(Nat) /\ Len(c) = 8 /\ c[6] = 6
  BY <1>0 DEF P!IP_TCP
<1>4. d \in Seq(Nat) /\ Len(d) = 4 /\ d[1] = 10 /\ d[2] = 0
  BY <1>0
<1>5. e \in Seq(Nat) /\ Len(e) = 4
  BY <1>0
<1>6. h \in Seq(Nat) /\ Len(h) = 4 * f.options
  BY <1>0, BytesLemma
<1>7. P!Ip(f) = ah
  BY DEF P!Ip, Join, TotalLength
<1> HIDE DEF a, b, c, d, e, h
<1>8. /\ ab \in Seq(Nat) /\ Len(ab) = 4
      /\ ab[1] = a[1]
      /\ ab[3] = b[1]
      /\ ab[4] = b[2]
  <2>1. ab \in Seq(Nat) /\ Len(ab) = Len(a) + Len(b)
    BY <1>1, <1>2, JoinType
  <2>2. 1 \in 1 .. Len(a)
    BY <1>1
  <2>3. ab[1] = a[1]
    BY <2>2, <1>1, <1>2, JoinLeft, Zenon
  <2>4. 1 \in 1 .. Len(b) /\ 2 \in 1 .. Len(b)
    BY <1>2
  <2>5. ab[Len(a) + 1] = b[1] /\ ab[Len(a) + 2] = b[2]
    BY <2>4, <1>1, <1>2, JoinRight, Zenon
  <2> QED BY <2>1, <2>3, <2>5, <1>1, <1>2
<1> HIDE DEF ab
<1>9. /\ ac \in Seq(Nat) /\ Len(ac) = 12
      /\ ac[1] = a[1]
      /\ ac[3] = b[1]
      /\ ac[4] = b[2]
      /\ ac[10] = c[6]
  <2>1. ac \in Seq(Nat) /\ Len(ac) = Len(ab) + Len(c)
    BY <1>8, <1>3, JoinType
  <2>2. 1 \in 1 .. Len(ab) /\ 3 \in 1 .. Len(ab) /\ 4 \in 1 .. Len(ab)
    BY <1>8
  <2>3. ac[1] = ab[1] /\ ac[3] = ab[3] /\ ac[4] = ab[4]
    BY <2>2, <1>8, <1>3, JoinLeft, Zenon
  <2>4. 6 \in 1 .. Len(c)
    BY <1>3
  <2>5. ac[Len(ab) + 6] = c[6]
    BY <2>4, <1>8, <1>3, JoinRight, Zenon
  <2> QED BY <2>1, <2>3, <2>5, <1>8, <1>3
<1> HIDE DEF ac
<1>10. /\ ad \in Seq(Nat) /\ Len(ad) = 16
       /\ ad[1] = a[1]
       /\ ad[3] = b[1]
       /\ ad[4] = b[2]
       /\ ad[10] = c[6]
       /\ ad[13] = d[1]
       /\ ad[14] = d[2]
  <2>1. ad \in Seq(Nat) /\ Len(ad) = Len(ac) + Len(d)
    BY <1>9, <1>4, JoinType
  <2>2. /\ 1 \in 1 .. Len(ac) /\ 3 \in 1 .. Len(ac) /\ 4 \in 1 .. Len(ac)
        /\ 10 \in 1 .. Len(ac)
    BY <1>9
  <2>3. ad[1] = ac[1] /\ ad[3] = ac[3] /\ ad[4] = ac[4] /\ ad[10] = ac[10]
    BY <2>2, <1>9, <1>4, JoinLeft, Zenon
  <2>4. 1 \in 1 .. Len(d) /\ 2 \in 1 .. Len(d)
    BY <1>4
  <2>5. ad[Len(ac) + 1] = d[1] /\ ad[Len(ac) + 2] = d[2]
    BY <2>4, <1>9, <1>4, JoinRight, Zenon
  <2> QED BY <2>1, <2>3, <2>5, <1>9, <1>4
<1> HIDE DEF ad
<1>11. /\ ae \in Seq(Nat) /\ Len(ae) = 20
       /\ ae[1] = a[1]
       /\ ae[3] = b[1]
       /\ ae[4] = b[2]
       /\ ae[10] = c[6]
       /\ ae[13] = d[1]
       /\ ae[14] = d[2]
  <2>1. ae \in Seq(Nat) /\ Len(ae) = Len(ad) + Len(e)
    BY <1>10, <1>5, JoinType
  <2>2. /\ 1 \in 1 .. Len(ad) /\ 3 \in 1 .. Len(ad) /\ 4 \in 1 .. Len(ad)
        /\ 10 \in 1 .. Len(ad) /\ 13 \in 1 .. Len(ad) /\ 14 \in 1 .. Len(ad)
    BY <1>10
  <2>3. /\ ae[1] = ad[1] /\ ae[3] = ad[3] /\ ae[4] = ad[4] /\ ae[10] = ad[10]
        /\ ae[13] = ad[13] /\ ae[14] = ad[14]
    BY <2>2, <1>10, <1>5, JoinLeft, Zenon
  <2> QED BY <2>1, <2>3, <1>10, <1>5
<1> HIDE DEF ae
<1>12. /\ ah \in Seq(Nat) /\ Len(ah) = 20 + 4 * f.options
       /\ ah[1] = a[1]
       /\ ah[3] = b[1]
       /\ ah[4] = b[2]
       /\ ah[10] = c[6]
       /\ ah[13] = d[1]
       /\ ah[14] = d[2]
  <2>1. ah \in Seq(Nat) /\ Len(ah) = Len(ae) + Len(h)
    BY <1>11, <1>6, JoinType
  <2>2. /\ 1 \in 1 .. Len(ae) /\ 3 \in 1 .. Len(ae) /\ 4 \in 1 .. Len(ae)
        /\ 10 \in 1 .. Len(ae) /\ 13 \in 1 .. Len(ae) /\ 14 \in 1 .. Len(ae)
    BY <1>11
  <2>3. /\ ah[1] = ae[1] /\ ah[3] = ae[3] /\ ah[4] = ae[4] /\ ah[10] = ae[10]
        /\ ah[13] = ae[13] /\ ah[14] = ae[14]
    BY <2>2, <1>11, <1>6, JoinLeft, Zenon
  <2> QED BY <2>1, <2>3, <1>11, <1>6
<1> HIDE DEF ah
<1> QED BY <1>1, <1>2, <1>3, <1>4, <1>7, <1>12

(* The IPv6 header, and the bytes of the addresses that GetPortNo takes    *)
(* for a port.                                                             *)
LEMMA Ipv6HeaderBytes ==
    ASSUME NEW f, P!IsFrame(f), f.version = 6
    PROVE  /\ P!Ip(f) \in Seq(Nat)
           /\ Len(P!Ip(f)) = 40
           /\ P!Ip(f)[1] = 96 + f.class /\ P!Ip(f)[2] = 0
           /\ P!Ip(f)[5] \in Nat /\ P!Ip(f)[6] \in Nat
           /\ 256 * P!Ip(f)[5] + P!Ip(f)[6] = P!TcpLength(f)
           /\ P!Ip(f)[7] = 6
           /\ \A i \in 9 .. 23 : P!Ip(f)[i] = 32
           /\ \A i \in 25 .. 39 : P!Ip(f)[i] = 32
<1> DEFINE a == <<96 + f.class, 0, 0, 0>>
           b == P!Octets(P!TcpLength(f))
           c == <<P!IP_TCP, 64>>
           d == P!Bytes(32, 15)
           e == <<1>>
           g == P!Bytes(32, 15)
           h == <<2>>
           ab == Join(a, b)
           ac == Join(ab, c)
           ad == Join(ac, d)
           ae == Join(ad, e)
           ag == Join(ae, g)
           ah == Join(ag, h)
<1>0. f.class \in Nat /\ 96 + f.class \in Nat /\ P!TcpLength(f) \in Nat
  BY FrameFields DEF P!TcpLength
<1>1. a \in Seq(Nat) /\ Len(a) = 4 /\ a[1] = 96 + f.class /\ a[2] = 0
  BY <1>0
<1>2. /\ b \in Seq(Nat) /\ Len(b) = 2 /\ b[1] \in Nat /\ b[2] \in Nat
      /\ 256 * b[1] + b[2] = P!TcpLength(f)
  BY <1>0, OctetsLemma
<1>3. c \in Seq(Nat) /\ Len(c) = 2 /\ c[1] = 6
  BY DEF P!IP_TCP
<1>4. d \in Seq(Nat) /\ Len(d) = 15 /\ \A j \in 1 .. 15 : d[j] = 32
  BY AddressBytes
<1>5. e \in Seq(Nat) /\ Len(e) = 1
  BY <1>0
<1>6. g \in Seq(Nat) /\ Len(g) = 15 /\ \A j \in 1 .. 15 : g[j] = 32
  BY AddressBytes
<1>7. h \in Seq(Nat) /\ Len(h) = 1
  BY <1>0
<1>8. P!Ip(f) = ah
  BY DEF P!Ip, Join
<1> HIDE DEF a, b, c, d, e, g, h
<1>9. /\ ab \in Seq(Nat) /\ Len(ab) = 6
      /\ ab[1] = a[1]
      /\ ab[2] = a[2]
      /\ ab[5] = b[1]
      /\ ab[6] = b[2]
  <2>1. ab \in Seq(Nat) /\ Len(ab) = Len(a) + Len(b)
    BY <1>1, <1>2, JoinType
  <2>2. 1 \in 1 .. Len(a) /\ 2 \in 1 .. Len(a)
    BY <1>1
  <2>3. ab[1] = a[1] /\ ab[2] = a[2]
    BY <2>2, <1>1, <1>2, JoinLeft, Zenon
  <2>4. 1 \in 1 .. Len(b) /\ 2 \in 1 .. Len(b)
    BY <1>2
  <2>5. ab[Len(a) + 1] = b[1] /\ ab[Len(a) + 2] = b[2]
    BY <2>4, <1>1, <1>2, JoinRight, Zenon
  <2> QED BY <2>1, <2>3, <2>5, <1>1, <1>2
<1> HIDE DEF ab
<1>10. /\ ac \in Seq(Nat) /\ Len(ac) = 8
       /\ ac[1] = a[1]
       /\ ac[2] = a[2]
       /\ ac[5] = b[1]
       /\ ac[6] = b[2]
       /\ ac[7] = c[1]
  <2>1. ac \in Seq(Nat) /\ Len(ac) = Len(ab) + Len(c)
    BY <1>9, <1>3, JoinType
  <2>2. /\ 1 \in 1 .. Len(ab) /\ 2 \in 1 .. Len(ab) /\ 5 \in 1 .. Len(ab)
        /\ 6 \in 1 .. Len(ab)
    BY <1>9
  <2>3. ac[1] = ab[1] /\ ac[2] = ab[2] /\ ac[5] = ab[5] /\ ac[6] = ab[6]
    BY <2>2, <1>9, <1>3, JoinLeft, Zenon
  <2>4. 1 \in 1 .. Len(c)
    BY <1>3
  <2>5. ac[Len(ab) + 1] = c[1]
    BY <2>4, <1>9, <1>3, JoinRight, Zenon
  <2> QED BY <2>1, <2>3, <2>5, <1>9, <1>3
<1> HIDE DEF ac
<1>11. /\ ad \in Seq(Nat) /\ Len(ad) = 23
       /\ ad[1] = a[1]
       /\ ad[2] = a[2]
       /\ ad[5] = b[1]
       /\ ad[6] = b[2]
       /\ ad[7] = c[1]
       /\ \A i \in 9 .. 23 : ad[i] = 32
  <2>1. ad \in Seq(Nat) /\ Len(ad) = Len(ac) + Len(d)
    BY <1>10, <1>4, JoinType
  <2>2. /\ 1 \in 1 .. Len(ac) /\ 2 \in 1 .. Len(ac) /\ 5 \in 1 .. Len(ac)
        /\ 6 \in 1 .. Len(ac) /\ 7 \in 1 .. Len(ac)
    BY <1>10
  <2>3. /\ ad[1] = ac[1] /\ ad[2] = ac[2] /\ ad[5] = ac[5] /\ ad[6] = ac[6]
        /\ ad[7] = ac[7]
    BY <2>2, <1>10, <1>4, JoinLeft, Zenon
  <2>4. \A i \in 9 .. 23 : ad[i] = 32
    <3> TAKE i \in 9 .. 23
    <3>1. PICK j \in 1 .. Len(d) : i = Len(ac) + j
      <4>1. i - 8 \in 1 .. Len(d) /\ i = Len(ac) + (i - 8)
        BY <1>10, <1>4
      <4> QED BY <4>1
    <3>2. ad[Len(ac) + j] = d[j]
      BY <1>10, <1>4, JoinRight, Zenon
    <3>3. d[j] = 32
      BY <1>4
    <3> QED BY <3>1, <3>2, <3>3, Zenon
  <2> QED BY <2>1, <2>3, <2>4, <1>10, <1>4
<1> HIDE DEF ad
<1>12. /\ ae \in Seq(Nat) /\ Len(ae) = 24
       /\ ae[1] = a[1]
       /\ ae[2] = a[2]
       /\ ae[5] = b[1]
       /\ ae[6] = b[2]
       /\ ae[7] = c[1]
       /\ \A i \in 9 .. 23 : ae[i] = 32
  <2>1. ae \in Seq(Nat) /\ Len(ae) = Len(ad) + Len(e)
    BY <1>11, <1>5, JoinType
  <2>2. /\ 1 \in 1 .. Len(ad) /\ 2 \in 1 .. Len(ad) /\ 5 \in 1 .. Len(ad)
        /\ 6 \in 1 .. Len(ad) /\ 7 \in 1 .. Len(ad)
    BY <1>11
  <2>3. /\ ae[1] = ad[1] /\ ae[2] = ad[2] /\ ae[5] = ad[5] /\ ae[6] = ad[6]
        /\ ae[7] = ad[7]
    BY <2>2, <1>11, <1>5, JoinLeft, Zenon
  <2>4. \A i \in 9 .. 23 : ae[i] = 32
    <3>1. \A i \in 9 .. 23 : i \in 1 .. Len(ad)
      BY <1>11
    <3>2. \A i \in 9 .. 23 : ae[i] = ad[i]
      BY <3>1, <1>11, <1>5, JoinLeft, Zenon
    <3> QED BY <3>2, <1>11, Zenon
  <2> QED BY <2>1, <2>3, <2>4, <1>11, <1>5
<1> HIDE DEF ae
<1>13. /\ ag \in Seq(Nat) /\ Len(ag) = 39
       /\ ag[1] = a[1]
       /\ ag[2] = a[2]
       /\ ag[5] = b[1]
       /\ ag[6] = b[2]
       /\ ag[7] = c[1]
       /\ \A i \in 9 .. 23 : ag[i] = 32
       /\ \A i \in 25 .. 39 : ag[i] = 32
  <2>1. ag \in Seq(Nat) /\ Len(ag) = Len(ae) + Len(g)
    BY <1>12, <1>6, JoinType
  <2>2. /\ 1 \in 1 .. Len(ae) /\ 2 \in 1 .. Len(ae) /\ 5 \in 1 .. Len(ae)
        /\ 6 \in 1 .. Len(ae) /\ 7 \in 1 .. Len(ae)
    BY <1>12
  <2>3. /\ ag[1] = ae[1] /\ ag[2] = ae[2] /\ ag[5] = ae[5] /\ ag[6] = ae[6]
        /\ ag[7] = ae[7]
    BY <2>2, <1>12, <1>6, JoinLeft, Zenon
  <2>4. \A i \in 9 .. 23 : ag[i] = 32
    <3>1. \A i \in 9 .. 23 : i \in 1 .. Len(ae)
      BY <1>12
    <3>2. \A i \in 9 .. 23 : ag[i] = ae[i]
      BY <3>1, <1>12, <1>6, JoinLeft, Zenon
    <3> QED BY <3>2, <1>12, Zenon
  <2>5. \A i \in 25 .. 39 : ag[i] = 32
    <3> TAKE i \in 25 .. 39
    <3>1. PICK j \in 1 .. Len(g) : i = Len(ae) + j
      <4>1. i - 24 \in 1 .. Len(g) /\ i = Len(ae) + (i - 24)
        BY <1>12, <1>6
      <4> QED BY <4>1
    <3>2. ag[Len(ae) + j] = g[j]
      BY <1>12, <1>6, JoinRight, Zenon
    <3>3. g[j] = 32
      BY <1>6
    <3> QED BY <3>1, <3>2, <3>3, Zenon
  <2> QED BY <2>1, <2>3, <2>4, <2>5, <1>12, <1>6
<1> HIDE DEF ag
<1>14. /\ ah \in Seq(Nat) /\ Len(ah) = 40
       /\ ah[1] = a[1]
       /\ ah[2] = a[2]
       /\ ah[5] = b[1]
       /\ ah[6] = b[2]
       /\ ah[7] = c[1]
       /\ \A i \in 9 .. 23 : ah[i] = 32
       /\ \A i \in 25 .. 39 : ah[i] = 32
  <2>1. ah \in Seq(Nat) /\ Len(ah) = Len(ag) + Len(h)
    BY <1>13, <1>7, JoinType
  <2>2. /\ 1 \in 1 .. Len(ag) /\ 2 \in 1 .. Len(ag) /\ 5 \in 1 .. Len(ag)
        /\ 6 \in 1 .. Len(ag) /\ 7 \in 1 .. Len(ag)
    BY <1>13
  <2>3. /\ ah[1] = ag[1] /\ ah[2] = ag[2] /\ ah[5] = ag[5] /\ ah[6] = ag[6]
        /\ ah[7] = ag[7]
    BY <2>2, <1>13, <1>7, JoinLeft, Zenon
  <2>4. \A i \in 9 .. 23 : ah[i] = 32
    <3>1. \A i \in 9 .. 23 : i \in 1 .. Len(ag)
      BY <1>13
    <3>2. \A i \in 9 .. 23 : ah[i] = ag[i]
      BY <3>1, <1>13, <1>7, JoinLeft, Zenon
    <3> QED BY <3>2, <1>13, Zenon
  <2>5. \A i \in 25 .. 39 : ah[i] = 32
    <3>1. \A i \in 25 .. 39 : i \in 1 .. Len(ag)
      BY <1>13
    <3>2. \A i \in 25 .. 39 : ah[i] = ag[i]
      BY <3>1, <1>13, <1>7, JoinLeft, Zenon
    <3> QED BY <3>2, <1>13, Zenon
  <2> QED BY <2>1, <2>3, <2>4, <2>5, <1>13, <1>7
<1> HIDE DEF ah
<1> QED BY <1>1, <1>2, <1>3, <1>8, <1>14

(* The Ethernet header, or none.                                           *)
LEMMA EthernetBytes ==
    ASSUME NEW f, P!IsFrame(f)
    PROVE  /\ P!Ethernet(f) \in Seq(Nat)
           /\ Len(P!Ethernet(f)) = P!EthernetHeader(f.link)
           /\ f.link = "raw" => P!Ethernet(f) = <<>>
           /\ f.link = "ethernet" =>
                /\ P!Ethernet(f)[13] \in Nat /\ P!Ethernet(f)[14] \in Nat
                /\ 256 * P!Ethernet(f)[13] + P!Ethernet(f)[14]
                     = IF f.version = 4 THEN 2048 ELSE 34525
<1> DEFINE a == P!Bytes(2, 12)
           type == IF f.version = 4 THEN P!TYPE_IP ELSE P!TYPE_IPV6
           b == P!Octets(type)
<1>1. CASE f.link = "raw"
  <2>1. P!Ethernet(f) = <<>> /\ P!EthernetHeader(f.link) = 0
    BY <1>1 DEF P!Ethernet, P!EthernetHeader
  <2> QED BY <2>1, <1>1
<1>2. CASE f.link = "ethernet"
  <2>1. P!Ethernet(f) = Join(a, b) /\ P!EthernetHeader(f.link) = 14
    BY <1>2 DEF P!Ethernet, P!EthernetHeader, Join
  <2>2. type \in Nat /\ type = IF f.version = 4 THEN 2048 ELSE 34525
    BY DEF P!TYPE_IP, P!TYPE_IPV6
  <2>3. a \in Seq(Nat) /\ Len(a) = 12
    BY BytesLemma
  <2> HIDE DEF type
  <2>4. /\ b \in Seq(Nat) /\ Len(b) = 2 /\ b[1] \in Nat /\ b[2] \in Nat
        /\ 256 * b[1] + b[2] = type
    BY <2>2, OctetsLemma
  <2> HIDE DEF a, b
  <2>5. Join(a, b) \in Seq(Nat) /\ Len(Join(a, b)) = Len(a) + Len(b)
    BY <2>3, <2>4, JoinType
  <2>6. 1 \in 1 .. Len(b) /\ 2 \in 1 .. Len(b)
    BY <2>4
  <2>7. Join(a, b)[Len(a) + 1] = b[1] /\ Join(a, b)[Len(a) + 2] = b[2]
    BY <2>3, <2>4, <2>6, JoinRight, Zenon
  <2> QED BY <1>2, <2>1, <2>2, <2>3, <2>4, <2>5, <2>7
<1> QED BY <1>1, <1>2, FrameFields

(* The header of IP in either version.                                     *)
LEMMA IpBytes ==
    ASSUME NEW f, P!IsFrame(f)
    PROVE  /\ P!Ip(f) \in Seq(Nat)
           /\ Len(P!Ip(f)) = IF f.version = 4 THEN 20 + 4 * f.options ELSE 40
<1>1. f.version = 4 \/ f.version = 6
  BY FrameFields
<1>2. CASE f.version = 4
  BY <1>2, Ipv4HeaderBytes
<1>3. CASE f.version = 6
  BY <1>3, Ipv6HeaderBytes
<1> QED BY <1>1, <1>2, <1>3

(* The data of a segment.                                                  *)
LEMMA DataBytes ==
    ASSUME NEW f, P!IsFrame(f)
    PROVE  P!Data(f) \in Seq(Nat) /\ Len(P!Data(f)) = f.len
<1>1. f.len \in Nat /\ f.n \in Nat
  BY FrameFields
<1>2. \A i \in 1 .. f.len : (97 + i * f.n) % 256 \in Nat
  BY <1>1
<1> QED BY <1>1, <1>2 DEF P!Data

(* The data of a frame that was captured, and what follows it.             *)
CapturedData(f) == SubSeq(P!Data(f), 1, f.len - f.lost)
Trailer(f) == IF f.lost > 0 THEN <<>> ELSE P!Padding(f)

(* Of the data that much is captured.                                      *)
LEMMA CapturedDataBytes ==
    ASSUME NEW f, P!IsFrame(f)
    PROVE  CapturedData(f) \in Seq(Nat) /\ Len(CapturedData(f)) = f.len - f.lost
<1>1. PICK n \in Nat : n = f.len - f.lost /\ n <= f.len
  <2>1. f.len - f.lost \in Nat /\ f.len - f.lost <= f.len
    BY FrameFields
  <2> QED BY <2>1
<1>2. P!Data(f) \in Seq(Nat) /\ Len(P!Data(f)) = f.len
  BY DataBytes
<1>3. SubSeq(P!Data(f), 1, n) \in Seq(Nat) /\ Len(SubSeq(P!Data(f), 1, n)) = n
  BY <1>1, <1>2, SplitSequence
<1> QED BY <1>1, <1>3 DEF CapturedData

(* Padding follows only a short frame of which everything was captured.    *)
LEMMA TrailerBytes ==
    ASSUME NEW f, P!IsFrame(f)
    PROVE  /\ Trailer(f) \in Seq(Nat) /\ Len(Trailer(f)) \in Nat
           /\ f.lost > 0 => Trailer(f) = <<>>
           /\ f.noTotal => Trailer(f) = <<>>
<1>1. /\ f.len \in Nat /\ f.lost \in Nat /\ f.noTotal \in BOOLEAN
      /\ f.tcpOptions \in Nat /\ f.options \in Nat /\ f.version \in {4, 6}
      /\ f.noTotal => f.len >= 60
  BY FrameFields
<1>2. P!EthernetHeader(f.link) \in Nat
  BY DEF P!EthernetHeader
<1>3. Len(P!Ethernet(f)) \in Nat
  BY <1>2, EthernetBytes
<1>4. Len(P!Ip(f)) \in Nat
  BY <1>1, IpBytes
<1>5. P!Headers(f) \in Nat
  <2>1. P!TcpLength(f) - f.len \in Nat
    BY <1>1 DEF P!TcpLength
  <2>2. P!TcpLength(f) \in Nat
    BY <1>1 DEF P!TcpLength
  <2> QED BY <1>1, <1>3, <1>4, <2>1, <2>2 DEF P!Headers
<1> DEFINE n == IF f.link = "ethernet" /\ P!Headers(f) + f.len < 60
                THEN 60 - (P!Headers(f) + f.len) ELSE 0
<1>6. n \in Nat /\ (f.noTotal => n = 0)
  BY <1>1, <1>5
<1>7. P!Padding(f) = P!Bytes(0, n)
  BY DEF P!Padding
<1> HIDE DEF n
<1>8. P!Bytes(0, n) \in Seq(Nat) /\ Len(P!Bytes(0, n)) = n
  BY <1>6, BytesLemma
<1>9. n = 0 => P!Bytes(0, n) = <<>>
  BY <1>8, EmptySeq
<1>10. CASE f.lost > 0
  <2>1. Trailer(f) = <<>>
    BY <1>10 DEF Trailer
  <2> QED BY <2>1
<1>11. CASE ~(f.lost > 0)
  <2>1. Trailer(f) = P!Padding(f)
    BY <1>11 DEF Trailer
  <2> QED BY <1>6, <1>7, <1>8, <1>9, <1>11, <2>1
<1> QED BY <1>10, <1>11

(* What is captured of a frame: its headers, the data and the padding.     *)
LEMMA FrameLayout ==
    ASSUME NEW f, P!IsFrame(f)
    PROVE  P!BytesOf(f) =
               Join(P!Ethernet(f),
                    Join(P!Ip(f),
                         Join(Join(TcpHeader(f), CapturedData(f)), Trailer(f))))
<1> DEFINE e == P!Ethernet(f)
           i == P!Ip(f)
           h == TcpHeader(f)
           d == P!Data(f)
           c == CapturedData(f)
           r == P!Slice(d, f.len - f.lost, f.len)
           sent == P!Ethernet(f) \o P!Ip(f) \o P!Tcp(f)
<1>1. /\ e \in Seq(Nat) /\ i \in Seq(Nat) /\ h \in Seq(Nat) /\ d \in Seq(Nat)
      /\ c \in Seq(Nat)
  BY EthernetBytes, IpBytes, TcpHeaderBytes, DataBytes, CapturedDataBytes
<1>2. /\ r \in Seq(Nat) /\ Len(r) = f.lost /\ d = Join(c, r)
  <2>1. PICK n \in Nat : n = f.len - f.lost /\ n <= f.len /\ f.len - n = f.lost
    <3>1. /\ f.len - f.lost \in Nat /\ f.len - f.lost <= f.len
          /\ f.len - (f.len - f.lost) = f.lost
      BY FrameFields
    <3> QED BY <3>1
  <2>2. Len(d) = f.len
    BY DataBytes
  <2>3. n <= Len(d)
    BY <2>1, <2>2
  <2> HIDE DEF d
  <2>4. /\ P!Slice(d, n, Len(d)) \in Seq(Nat)
        /\ Len(P!Slice(d, n, Len(d))) = Len(d) - n
        /\ d = Join(SubSeq(d, 1, n), P!Slice(d, n, Len(d)))
    BY <1>1, <2>3, SplitSequence
  <2>5. c = SubSeq(d, 1, n)
    BY <2>1 DEF CapturedData, d
  <2> QED BY <2>1, <2>2, <2>4, <2>5
<1>3. sent = Join(Join(e, i), Join(h, d))
  BY DEF P!Tcp, TcpHeader, Join
<1> HIDE DEF e, i, h, d, c, r, sent
<1>4. Join(e, i) \in Seq(Nat) /\ Join(h, c) \in Seq(Nat)
  BY <1>1, JoinType, Zenon
<1>5. Join(Join(e, i), Join(h, c)) \in Seq(Nat)
  BY <1>4, JoinType, Zenon
<1>6. Join(h, d) = Join(Join(h, c), r)
  BY <1>1, <1>2, JoinAssociative
<1>7. sent = Join(Join(Join(e, i), Join(h, c)), r)
  BY <1>2, <1>3, <1>4, <1>6, JoinAssociative
<1>8. CASE f.lost > 0
  <2> DEFINE w == Join(Join(e, i), Join(h, c))
  <2>1. w \in Seq(Nat) /\ sent = Join(w, r)
    BY <1>5, <1>7
  <2> HIDE DEF w
  <2>2. Len(sent) = Len(w) + Len(r) /\ Len(w) \in Nat
    BY <2>1, <1>2, JoinType, LenLemma, Zenon
  <2>3. Len(sent) - f.lost = Len(w)
    BY <2>2, <1>2, FrameFields
  <2>4. P!BytesOf(f) = SubSeq(sent, 1, Len(sent) - f.lost)
    BY <1>8 DEF P!BytesOf, sent
  <2>5. SubSeq(Join(w, r), 1, Len(w)) = w
    BY <2>1, <1>2, PrefixJoin
  <2>6. P!BytesOf(f) = w
    BY <2>1, <2>3, <2>4, <2>5, Zenon
  <2>7. Trailer(f) = <<>>
    BY <1>8 DEF Trailer
  <2>8. w = Join(e, Join(i, Join(h, c)))
    BY <1>1, <1>4, JoinAssociative DEF w
  <2>9. Join(Join(h, c), Trailer(f)) = Join(h, c)
    BY <1>4, <2>7, JoinEmpty, Zenon
  <2> QED BY <2>6, <2>8, <2>9, Zenon DEF e, i, h, c
<1>9. CASE ~(f.lost > 0)
  <2>1. r = <<>>
    <3>1. Len(r) = 0
      BY <1>2, <1>9, FrameFields
    <3> QED BY <3>1, <1>2, EmptySeq
  <2>2. sent = Join(Join(e, i), Join(h, c))
    BY <1>5, <1>7, <2>1, JoinEmpty, Zenon
  <2>3. Trailer(f) = P!Padding(f)
    BY <1>9 DEF Trailer
  <2>4. P!BytesOf(f) = sent \o P!Padding(f)
    BY <1>9 DEF P!BytesOf, sent
  <2>5. P!BytesOf(f) = Join(sent, Trailer(f))
    BY <2>3, <2>4, Zenon DEF Join
  <2>6. Trailer(f) \in Seq(Nat)
    BY TrailerBytes
  <2>7. Join(sent, Trailer(f)) = Join(Join(e, i), Join(Join(h, c), Trailer(f)))
    BY <1>4, <2>2, <2>6, JoinAssociative, Zenon
  <2>8. Join(Join(h, c), Trailer(f)) \in Seq(Nat)
    BY <1>4, <2>6, JoinType, Zenon
  <2>9. Join(Join(e, i), Join(Join(h, c), Trailer(f)))
          = Join(e, Join(i, Join(Join(h, c), Trailer(f))))
    BY <1>1, <2>8, JoinAssociative
  <2> QED BY <2>5, <2>7, <2>9, Zenon DEF e, i, h, c
<1> QED BY <1>8, <1>9

(* The parts of a captured frame: the TCP segment and the IP packet.       *)
Segment(f) == Join(TcpHeader(f), CapturedData(f))
Packet(f) == Join(P!Ip(f), Join(Segment(f), Trailer(f)))

(* The segment as captured: the port, the offset of the data, the data     *)
(* behind it.                                                              *)
LEMMA SegmentBytes ==
    ASSUME NEW f, P!IsFrame(f)
    PROVE  /\ Segment(f) \in Seq(Nat)
           /\ Len(Segment(f)) = (20 + 4 * f.tcpOptions) + (f.len - f.lost)
           /\ Segment(f)[1] \in Nat /\ Segment(f)[2] \in Nat
           /\ 256 * Segment(f)[1] + Segment(f)[2] = f.port
           /\ Segment(f)[13] = 16 * (5 + f.tcpOptions)
           /\ P!From(Segment(f), 20 + 4 * f.tcpOptions) = CapturedData(f)
<1> DEFINE h == TcpHeader(f)
           c == CapturedData(f)
           s == Segment(f)
<1>1. /\ h \in Seq(Nat) /\ Len(h) = 20 + 4 * f.tcpOptions
      /\ h[1] \in Nat /\ h[2] \in Nat /\ 256 * h[1] + h[2] = f.port
      /\ h[13] = 16 * (5 + f.tcpOptions)
  BY TcpHeaderBytes
<1>2. c \in Seq(Nat) /\ Len(c) = f.len - f.lost
  BY CapturedDataBytes
<1>3. s = Join(h, c)
  BY DEF Segment
<1> HIDE DEF h, c, s
<1>4. s \in Seq(Nat) /\ Len(s) = Len(h) + Len(c)
  BY <1>1, <1>2, <1>3, JoinType
<1>5. 1 \in 1 .. Len(h) /\ 2 \in 1 .. Len(h) /\ 13 \in 1 .. Len(h)
  <2>1. f.tcpOptions \in Nat
    BY FrameFields
  <2>2. Len(h) = 20 + 4 * f.tcpOptions
    BY <1>1
  <2> QED BY <2>1, <2>2
<1>6. s[1] = h[1] /\ s[2] = h[2] /\ s[13] = h[13]
  <2>1. \A i \in 1 .. Len(h) : s[i] = h[i]
    BY <1>1, <1>2, <1>3, JoinLeft, Zenon
  <2> QED BY <1>5, <2>1, Zenon
<1>7. P!From(s, Len(h)) = c
  BY <1>1, <1>2, <1>3, FromJoin
<1> QED BY <1>1, <1>2, <1>4, <1>6, <1>7 DEF c, s

(* The packet as captured: the header, the segment, the padding.           *)
LEMMA PacketBytes ==
    ASSUME NEW f, P!IsFrame(f)
    PROVE  /\ Packet(f) \in Seq(Nat)
           /\ Len(Packet(f)) = (Len(P!Ip(f)) + Len(Segment(f))) + Len(Trailer(f))
           /\ \A k \in 1 .. Len(P!Ip(f)) : Packet(f)[k] = P!Ip(f)[k]
           /\ \A k \in 1 .. Len(Segment(f)) :
                  Packet(f)[Len(P!Ip(f)) + k] = Segment(f)[k]
           /\ P!Slice(Packet(f), Len(P!Ip(f)), Len(P!Ip(f)) + Len(Segment(f)))
                = Segment(f)
<1> DEFINE i == P!Ip(f)
           s == Segment(f)
           z == Trailer(f)
           sz == Join(s, z)
<1>1. i \in Seq(Nat) /\ s \in Seq(Nat) /\ z \in Seq(Nat)
  BY IpBytes, SegmentBytes, TrailerBytes
<1>2. Packet(f) = Join(i, sz)
  BY DEF Packet
<1> HIDE DEF i, s, z
<1>3. sz \in Seq(Nat) /\ Len(sz) = Len(s) + Len(z)
  BY <1>1, JoinType
<1>4. Len(i) \in Nat /\ Len(s) \in Nat /\ Len(z) \in Nat
  BY <1>1, LenLemma
<1>5. P!Slice(Join(i, sz), Len(i), Len(i) + Len(s)) = s
  BY <1>1, SliceJoin
<1>6. \A k \in 1 .. Len(s) : sz[k] = s[k]
  BY <1>1, JoinLeft, Zenon
<1> HIDE DEF sz
<1>7. Join(i, sz) \in Seq(Nat) /\ Len(Join(i, sz)) = Len(i) + Len(sz)
  BY <1>1, <1>3, JoinType
<1>8. \A k \in 1 .. Len(i) : Join(i, sz)[k] = i[k]
  BY <1>1, <1>3, JoinLeft, Zenon
<1>9. \A k \in 1 .. Len(s) : Join(i, sz)[Len(i) + k] = s[k]
  <2> TAKE k \in 1 .. Len(s)
  <2>1. k \in 1 .. Len(sz)
    BY <1>3, <1>4
  <2>2. Join(i, sz)[Len(i) + k] = sz[k]
    BY <1>1, <1>3, <2>1, JoinRight, Zenon
  <2> QED BY <2>2, <1>6, Zenon
<1>10. Len(Join(i, sz)) = (Len(i) + Len(s)) + Len(z)
  BY <1>3, <1>4, <1>7
<1> QED BY <1>2, <1>5, <1>7, <1>8, <1>9, <1>10, Zenon DEF i, s, z

(* The frame as captured: the packet behind the header of the link.        *)
LEMMA FrameBytes ==
    ASSUME NEW f, P!IsFrame(f)
    PROVE  /\ P!BytesOf(f) \in Seq(Nat)
           /\ Len(P!BytesOf(f)) = P!EthernetHeader(f.link) + Len(Packet(f))
           /\ P!EthernetHeader(f.link) \in Nat
           /\ \A k \in 1 .. Len(Packet(f)) :
                  P!BytesOf(f)[P!EthernetHeader(f.link) + k] = Packet(f)[k]
           /\ P!From(P!BytesOf(f), P!EthernetHeader(f.link)) = Packet(f)
           /\ f.link = "ethernet" =>
                /\ P!BytesOf(f)[13] = P!Ethernet(f)[13]
                /\ P!BytesOf(f)[14] = P!Ethernet(f)[14]
           /\ f.link = "raw" => P!BytesOf(f) = Packet(f)
<1> DEFINE e == P!Ethernet(f)
           p == Packet(f)
           n == P!EthernetHeader(f.link)
<1>1. e \in Seq(Nat) /\ Len(e) = n /\ (f.link = "raw" => e = <<>>)
  BY EthernetBytes
<1>2. p \in Seq(Nat)
  BY PacketBytes
<1>3. P!BytesOf(f) = Join(e, p)
  BY FrameLayout DEF Packet, Segment
<1>4. n \in Nat /\ (f.link = "ethernet" => n = 14)
  BY DEF P!EthernetHeader
<1> HIDE DEF e, p, n
<1>5. Join(e, p) \in Seq(Nat) /\ Len(Join(e, p)) = Len(e) + Len(p)
  BY <1>1, <1>2, JoinType
<1>6. \A k \in 1 .. Len(p) : Join(e, p)[Len(e) + k] = p[k]
  BY <1>1, <1>2, JoinRight, Zenon
<1>7. P!From(Join(e, p), Len(e)) = p
  BY <1>1, <1>2, FromJoin
<1>8. f.link = "ethernet" => Join(e, p)[13] = e[13] /\ Join(e, p)[14] = e[14]
  <2>1. f.link = "ethernet" => 13 \in 1 .. Len(e) /\ 14 \in 1 .. Len(e)
    BY <1>1, <1>4
  <2>2. \A i \in 1 .. Len(e) : Join(e, p)[i] = e[i]
    BY <1>1, <1>2, JoinLeft, Zenon
  <2> QED BY <2>1, <2>2, Zenon
<1>9. f.link = "raw" => Join(e, p) = p
  BY <1>1, <1>2, JoinEmpty, Zenon
<1>10. /\ Join(e, p) \in Seq(Nat) /\ Len(Join(e, p)) = n + Len(p) /\ n \in Nat
       /\ \A k \in 1 .. Len(p) : Join(e, p)[n + k] = p[k]
       /\ P!From(Join(e, p), n) = p
  BY <1>1, <1>4, <1>5, <1>6, <1>7, Zenon
<1> QED BY <1>3, <1>8, <1>9, <1>10, Zenon DEF e, p, n

-----------------------------------------------------------------------------
(* The route of a frame.                                                   *)

(* Sums of three.                                                          *)
LEMMA SumLemma ==
    \A i, j \in Nat : i + (j + 1) = (i + j) + 1 /\ i + (j + 2) = ((i + j) + 1) + 1
OBVIOUS

(* GetPortNo reads two bytes behind as many bytes of IP as the low half of *)
(* its first byte says.                                                    *)
LEMMA PortRead ==
    ASSUME NEW f, P!IsFrame(f), NEW k \in Nat,
           Packet(f)[1] \in Nat, k = 4 * (Packet(f)[1] % 16),
           k + 2 <= Len(Packet(f)), Len(Packet(f)) \in Nat
    PROVE  P!GetPortNo(P!BytesOf(f), f.link)
             = 256 * Packet(f)[k + 1] + Packet(f)[k + 2]
<1> DEFINE d == P!BytesOf(f)
           n == P!EthernetHeader(f.link)
           p == Packet(f)
<1>1. /\ n \in Nat /\ Len(d) = n + Len(p)
      /\ \A j \in 1 .. Len(p) : d[n + j] = p[j]
  BY FrameBytes
<1> HIDE DEF d, n, p
<1>2. 1 \in 1 .. Len(p) /\ k + 1 \in 1 .. Len(p) /\ k + 2 \in 1 .. Len(p)
  BY DEF p
<1>3. d[n + 1] = p[1] /\ d[n + (k + 1)] = p[k + 1] /\ d[n + (k + 2)] = p[k + 2]
  BY <1>1, <1>2, Zenon
<1>4. P!At(d, n) = p[1]
  BY <1>3, Zenon DEF P!At
<1>5. n + (k + 1) = (n + k) + 1 /\ n + (k + 2) = ((n + k) + 1) + 1
  BY <1>1, SumLemma, Zenon
<1>6. P!Uint16(d, n + k) = 256 * p[k + 1] + p[k + 2]
  <2>1. P!At(d, n + k) = d[(n + k) + 1] /\ P!At(d, (n + k) + 1) = d[((n + k) + 1) + 1]
    BY Zenon DEF P!At
  <2>2. P!At(d, n + k) = p[k + 1] /\ P!At(d, (n + k) + 1) = p[k + 2]
    BY <1>3, <1>5, <2>1, Zenon
  <2> QED BY <2>2, Zenon DEF P!Uint16
<1>7. ~((n + k) + 2 > Len(d))
  BY <1>1 DEF p
<1>8. n + 4 * (P!At(d, n) % 16) = n + k
  BY <1>4 DEF p
<1>9. P!GetPortNo(d, f.link) = P!Uint16(d, n + k)
  BY <1>7, <1>8 DEF P!GetPortNo, n
<1> QED BY <1>6, <1>9, Zenon DEF d, p

(* GetPortNo reads the source port of an IPv4 frame, whatever its options  *)
(* and its link.                                                           *)
LEMMA PortOfIpv4 ==
    ASSUME NEW f, P!IsFrame(f), f.version = 4
    PROVE  P!GetPortNo(P!BytesOf(f), f.link) = f.port
<1>1. /\ f.options \in Nat /\ f.options <= 10 /\ f.tcpOptions \in Nat
      /\ f.len \in Nat /\ f.lost \in Nat /\ f.lost <= f.len
  BY FrameFields
<1>2. PICK k \in Nat : k = 20 + 4 * f.options
  BY <1>1
<1>3. Len(P!Ip(f)) = k /\ P!Ip(f)[1] = 69 + f.options
  BY <1>2, Ipv4HeaderBytes
<1>4. /\ Len(Segment(f)) \in Nat /\ Len(Segment(f)) >= 20
      /\ 256 * Segment(f)[1] + Segment(f)[2] = f.port
  <2>1. /\ Len(Segment(f)) = (20 + 4 * f.tcpOptions) + (f.len - f.lost)
        /\ 256 * Segment(f)[1] + Segment(f)[2] = f.port
    BY SegmentBytes
  <2>2. /\ (20 + 4 * f.tcpOptions) + (f.len - f.lost) \in Nat
        /\ (20 + 4 * f.tcpOptions) + (f.len - f.lost) >= 20
    BY <1>1
  <2> QED BY <2>1, <2>2
<1>5. /\ Len(Packet(f)) = (Len(P!Ip(f)) + Len(Segment(f))) + Len(Trailer(f))
      /\ \A j \in 1 .. Len(P!Ip(f)) : Packet(f)[j] = P!Ip(f)[j]
      /\ \A j \in 1 .. Len(Segment(f)) :
             Packet(f)[Len(P!Ip(f)) + j] = Segment(f)[j]
  BY PacketBytes
<1>6. Len(Trailer(f)) \in Nat
  BY TrailerBytes
<1>7. Len(Packet(f)) \in Nat /\ k + 2 <= Len(Packet(f))
  BY <1>3, <1>4, <1>5, <1>6
<1>8. /\ 1 \in 1 .. Len(P!Ip(f))
      /\ 1 \in 1 .. Len(Segment(f)) /\ 2 \in 1 .. Len(Segment(f))
  <2>1. \A i \in Nat : i >= 20 => 1 \in 1 .. i /\ 2 \in 1 .. i
    OBVIOUS
  <2>2. k >= 20
    BY <1>1, <1>2
  <2> QED BY <1>3, <1>4, <2>1, <2>2
<1>9. Packet(f)[1] = P!Ip(f)[1]
  BY <1>5, <1>8, Zenon
<1>10. Packet(f)[k + 1] = Segment(f)[1] /\ Packet(f)[k + 2] = Segment(f)[2]
  BY <1>3, <1>5, <1>8, Zenon
<1>11. Packet(f)[1] \in Nat /\ k = 4 * (Packet(f)[1] % 16)
  <2>1. Packet(f)[1] = 69 + f.options
    BY <1>3, <1>9
  <2>2. 69 + f.options \in Nat /\ (69 + f.options) % 16 = 5 + f.options
    BY <1>1
  <2> QED BY <1>1, <1>2, <2>1, <2>2
<1>12. P!GetPortNo(P!BytesOf(f), f.link)
         = 256 * Packet(f)[k + 1] + Packet(f)[k + 2]
  BY <1>7, <1>11, PortRead
<1> QED BY <1>4, <1>10, <1>12, Zenon

(* What GetPortNo reads of an IPv6 frame, where it is the same for all     *)
(* frames of the session.                                                  *)
RouteOfIpv6(f) ==
    IF f.class = 0 THEN 256 * 96
    ELSE IF f.class = 10 THEN f.port
    ELSE 256 * 32 + 32

(* What it reads of an IPv6 frame is in the addresses or in the port,      *)
(* unless the traffic class is one of those named.                         *)
LEMMA PortOfIpv6 ==
    ASSUME NEW f, P!IsFrame(f), f.version = 6, ~P!Scattered(f)
    PROVE  P!GetPortNo(P!BytesOf(f), f.link) = RouteOfIpv6(f)
<1>1. /\ f.class \in Nat /\ f.class <= 15 /\ f.tcpOptions \in Nat
      /\ f.len \in Nat /\ f.lost \in Nat /\ f.lost <= f.len
  BY FrameFields
<1>2. f.class \in {0, 2, 3, 4, 5, 6, 7, 8, 9, 10}
  BY <1>1 DEF P!Scattered
<1>3. PICK k \in Nat : k = 4 * f.class
  BY <1>1
<1>4. /\ Len(P!Ip(f)) = 40 /\ P!Ip(f)[1] = 96 + f.class /\ P!Ip(f)[2] = 0
      /\ \A i \in 9 .. 23 : P!Ip(f)[i] = 32
      /\ \A i \in 25 .. 39 : P!Ip(f)[i] = 32
  BY Ipv6HeaderBytes
<1>5. /\ Len(Segment(f)) \in Nat /\ Len(Segment(f)) >= 20
      /\ 256 * Segment(f)[1] + Segment(f)[2] = f.port
  <2>1. /\ Len(Segment(f)) = (20 + 4 * f.tcpOptions) + (f.len - f.lost)
        /\ 256 * Segment(f)[1] + Segment(f)[2] = f.port
    BY SegmentBytes
  <2>2. /\ (20 + 4 * f.tcpOptions) + (f.len - f.lost) \in Nat
        /\ (20 + 4 * f.tcpOptions) + (f.len - f.lost) >= 20
    BY <1>1
  <2> QED BY <2>1, <2>2
<1>6. /\ Len(Packet(f)) = (Len(P!Ip(f)) + Len(Segment(f))) + Len(Trailer(f))
      /\ \A j \in 1 .. Len(P!Ip(f)) : Packet(f)[j] = P!Ip(f)[j]
      /\ \A j \in 1 .. Len(Segment(f)) :
             Packet(f)[Len(P!Ip(f)) + j] = Segment(f)[j]
  BY PacketBytes
<1>7. Len(Trailer(f)) \in Nat
  BY TrailerBytes
<1>8. Len(Packet(f)) \in Nat /\ k + 2 <= Len(Packet(f))
  <2>1. k <= 40
    BY <1>2, <1>3
  <2>2. Len(P!Ip(f)) = 40
    BY <1>4
  <2>3. Len(Packet(f)) = (Len(P!Ip(f)) + Len(Segment(f))) + Len(Trailer(f))
    BY <1>6
  <2>4. Len(Segment(f)) \in Nat /\ Len(Segment(f)) >= 20
    BY <1>5
  <2> QED BY <1>7, <2>1, <2>2, <2>3, <2>4
<1>9. Packet(f)[1] = 96 + f.class
  <2>1. 1 \in 1 .. Len(P!Ip(f))
    BY <1>4
  <2> QED BY <2>1, <1>4, <1>6, Zenon
<1>10. Packet(f)[1] \in Nat /\ k = 4 * (Packet(f)[1] % 16)
  BY <1>1, <1>3, <1>9
<1>11. P!GetPortNo(P!BytesOf(f), f.link)
         = 256 * Packet(f)[k + 1] + Packet(f)[k + 2]
  BY <1>8, <1>10, PortRead
<1>12. CASE f.class = 0
  <2>1. k + 1 = 1 /\ k + 2 = 2 /\ 2 \in 1 .. Len(P!Ip(f))
    BY <1>3, <1>4, <1>12
  <2>2. Packet(f)[2] = 0
    BY <1>4, <1>6, <2>1
  <2> QED BY <1>9, <1>11, <1>12, <2>1, <2>2 DEF RouteOfIpv6
<1>13. CASE f.class = 10
  <2>1. k = 40 /\ 1 \in 1 .. Len(Segment(f)) /\ 2 \in 1 .. Len(Segment(f))
    BY <1>3, <1>5, <1>13
  <2>2. Packet(f)[k + 1] = Segment(f)[1] /\ Packet(f)[k + 2] = Segment(f)[2]
    BY <1>4, <1>6, <2>1, Zenon
  <2> QED BY <1>5, <1>11, <1>13, <2>2 DEF RouteOfIpv6
<1>14. CASE f.class \notin {0, 10}
  <2>1. /\ k + 1 \in 1 .. 40 /\ k + 2 \in 1 .. 40
        /\ k + 1 \in (9 .. 23) \union (25 .. 39)
        /\ k + 2 \in (9 .. 23) \union (25 .. 39)
    BY <1>2, <1>3, <1>14
  <2>2. Packet(f)[k + 1] = P!Ip(f)[k + 1] /\ Packet(f)[k + 2] = P!Ip(f)[k + 2]
    BY <1>4, <1>6, <2>1, Zenon
  <2>3. P!Ip(f)[k + 1] = 32 /\ P!Ip(f)[k + 2] = 32
    BY <1>4, <2>1, Zenon
  <2>4. RouteOfIpv6(f) = 256 * 32 + 32
    BY <1>14 DEF RouteOfIpv6
  <2> QED BY <1>11, <2>2, <2>3, <2>4, Zenon
<1> QED BY <1>12, <1>13, <1>14

(* A later frame of the session is a frame.                                *)
LEMMA LaterIsFrame ==
    ASSUME NEW f, P!IsFrame(f)
    PROVE  /\ P!IsFrame(P!Later(f))
           /\ P!Later(f).link = f.link /\ P!Later(f).version = f.version
           /\ P!Later(f).class = f.class /\ P!Later(f).port = f.port
<1> DEFINE T == [link: {"ethernet", "raw"}, version: {4, 6}, options: Nat,
                 tcpOptions: Nat, class: Nat, port: Nat, n: Nat, len: Nat,
                 lost: Nat, noTotal: BOOLEAN]
           g == P!Later(f)
<1>1. f \in T
  BY DEF P!IsFrame
<1>2. f.len \in Nat /\ f.lost <= f.len /\ f.lost \in Nat
  BY FrameFields
<1>3. f.len + 7 \in Nat /\ 2 \in Nat
  BY <1>2
<1>4. g \in T
  BY <1>1, <1>3 DEF P!Later
<1>5. /\ g.n = 2 /\ g.len = f.len + 7
      /\ g.link = f.link /\ g.version = f.version /\ g.options = f.options
      /\ g.tcpOptions = f.tcpOptions /\ g.class = f.class /\ g.port = f.port
      /\ g.lost = f.lost /\ g.noTotal = f.noTotal
  BY <1>1 DEF P!Later
<1> HIDE DEF g
<1>6. /\ f.options <= 10 /\ f.tcpOptions <= 10 /\ f.class <= 15 /\ f.port <= 65535
      /\ f.noTotal => f.len >= 60
      /\ f.version = 6 => f.options = 0 /\ ~f.noTotal
  BY DEF P!IsFrame
<1>7. P!IsFrame(g)
  BY <1>2, <1>4, <1>5, <1>6 DEF P!IsFrame
<1> QED BY <1>5, <1>7 DEF g

(* GetPortNo sends the frames of a session to one worker.                  *)
LEMMA RouteOfSession ==
    ASSUME NEW f, P!IsFrame(f)
    PROVE  /\ f.version = 4 => P!GetPortNo(P!BytesOf(f), f.link) = f.port
           /\ ~P!Scattered(f) =>
                P!GetPortNo(P!BytesOf(f), f.link)
                  = P!GetPortNo(P!BytesOf(P!Later(f)), f.link)
<1> DEFINE g == P!Later(f)
<1>1. /\ P!IsFrame(g) /\ g.link = f.link /\ g.version = f.version
      /\ g.class = f.class /\ g.port = f.port
  BY LaterIsFrame
<1> HIDE DEF g
<1>2. f.version = 4 \/ f.version = 6
  BY FrameFields
<1>3. CASE f.version = 4
  <2>1. P!GetPortNo(P!BytesOf(f), f.link) = f.port
    BY <1>3, PortOfIpv4
  <2>2. P!GetPortNo(P!BytesOf(g), g.link) = g.port
    BY <1>1, <1>3, PortOfIpv4
  <2> QED BY <1>1, <2>1, <2>2 DEF g
<1>4. CASE f.version = 6 /\ ~P!Scattered(f)
  <2>1. P!GetPortNo(P!BytesOf(f), f.link) = RouteOfIpv6(f)
    BY <1>4, PortOfIpv6
  <2>2. ~P!Scattered(g)
    BY <1>1, <1>4 DEF P!Scattered
  <2>3. P!GetPortNo(P!BytesOf(g), g.link) = RouteOfIpv6(g)
    BY <1>1, <1>4, <2>2, PortOfIpv6
  <2>4. RouteOfIpv6(g) = RouteOfIpv6(f)
    BY <1>1 DEF RouteOfIpv6
  <2> QED BY <1>1, <1>4, <2>1, <2>3, <2>4 DEF g
<1> QED BY <1>2, <1>3, <1>4

-----------------------------------------------------------------------------
(* The two parsers.                                                        *)

(* The lengths of the packet and its parts are numbers.                    *)
LEMMA PacketLength ==
    ASSUME NEW f, P!IsFrame(f)
    PROVE  /\ Len(P!Ip(f)) \in Nat /\ Len(P!Ip(f)) >= 20
           /\ Len(Segment(f)) \in Nat /\ Len(Segment(f)) >= 20
           /\ Len(Segment(f)) + f.lost = P!TcpLength(f)
           /\ Len(Trailer(f)) \in Nat
           /\ f.lost > 0 => Len(Trailer(f)) = 0
           /\ f.noTotal => Len(Trailer(f)) = 0
           /\ Len(Packet(f)) \in Nat
           /\ Len(Packet(f)) = (Len(P!Ip(f)) + Len(Segment(f))) + Len(Trailer(f))
<1>1. /\ f.options \in Nat /\ f.tcpOptions \in Nat
      /\ f.len \in Nat /\ f.lost \in Nat /\ f.lost <= f.len
  BY FrameFields
<1>2. Len(P!Ip(f)) \in Nat /\ Len(P!Ip(f)) >= 20
  <2>1. Len(P!Ip(f)) = IF f.version = 4 THEN 20 + 4 * f.options ELSE 40
    BY IpBytes
  <2> QED BY <1>1, <2>1
<1>3. Len(Segment(f)) = (20 + 4 * f.tcpOptions) + (f.len - f.lost)
  BY SegmentBytes
<1>4. /\ Len(Segment(f)) \in Nat /\ Len(Segment(f)) >= 20
      /\ Len(Segment(f)) + f.lost = P!TcpLength(f)
  <2>1. /\ (20 + 4 * f.tcpOptions) + (f.len - f.lost) \in Nat
        /\ (20 + 4 * f.tcpOptions) + (f.len - f.lost) >= 20
        /\ ((20 + 4 * f.tcpOptions) + (f.len - f.lost)) + f.lost = P!TcpLength(f)
    BY <1>1 DEF P!TcpLength
  <2> QED BY <1>3, <2>1, Zenon
<1>5. /\ Len(Trailer(f)) \in Nat
      /\ f.lost > 0 => Trailer(f) = <<>>
      /\ f.noTotal => Trailer(f) = <<>>
  BY TrailerBytes
<1>6. Trailer(f) = <<>> => Len(Trailer(f)) = 0
  OBVIOUS
<1>7. Len(Packet(f)) = (Len(P!Ip(f)) + Len(Segment(f))) + Len(Trailer(f))
  BY PacketBytes
<1>8. Len(Packet(f)) \in Nat
  BY <1>2, <1>4, <1>5, <1>7
<1> QED BY <1>2, <1>4, <1>5, <1>6, <1>7, <1>8

(* The first bytes of the packet are those of its header.                  *)
LEMMA PacketHeader ==
    ASSUME NEW f, P!IsFrame(f), NEW k \in 1 .. 20
    PROVE  Packet(f)[k] = P!Ip(f)[k]
<1>1. k \in 1 .. Len(P!Ip(f))
  BY PacketLength
<1> QED BY <1>1, PacketBytes, Zenon

(* The bytes of the link's header that tell what follows it.               *)
LEMMA TypeRead ==
    ASSUME NEW f, P!IsFrame(f), f.link = "ethernet"
    PROVE  P!Uint16(P!BytesOf(f), 12) = IF f.version = 4 THEN 2048 ELSE 34525
<1>1. /\ P!BytesOf(f)[13] = P!Ethernet(f)[13]
      /\ P!BytesOf(f)[14] = P!Ethernet(f)[14]
  BY FrameBytes
<1>2. 256 * P!Ethernet(f)[13] + P!Ethernet(f)[14]
        = IF f.version = 4 THEN 2048 ELSE 34525
  BY EthernetBytes
<1>3. P!Uint16(P!BytesOf(f), 12) = 256 * P!BytesOf(f)[13] + P!BytesOf(f)[14]
  BY DEF P!Uint16, P!At
<1>4. P!Uint16(P!BytesOf(f), 12) = 256 * P!Ethernet(f)[13] + P!Ethernet(f)[14]
  BY <1>1, <1>3, Zenon
<1> QED BY <1>2, <1>4

(* The length that both parsers read in an IPv4 header.                    *)
LEMMA TotalRead ==
    ASSUME NEW f, P!IsFrame(f), f.version = 4
    PROVE  /\ P!Uint16(Packet(f), 2) = TotalLength(f)
           /\ 4 * (P!At(Packet(f), 0) % 16) = Len(P!Ip(f))
           /\ P!At(Packet(f), 9) = P!IP_TCP
<1>1. /\ P!Ip(f)[1] = 69 + f.options
      /\ 256 * P!Ip(f)[3] + P!Ip(f)[4] = TotalLength(f)
      /\ P!Ip(f)[10] = 6
      /\ Len(P!Ip(f)) = 20 + 4 * f.options
  BY Ipv4HeaderBytes
<1>2. /\ Packet(f)[1] = P!Ip(f)[1] /\ Packet(f)[3] = P!Ip(f)[3]
      /\ Packet(f)[4] = P!Ip(f)[4] /\ Packet(f)[10] = P!Ip(f)[10]
  BY PacketHeader
<1>3. P!Uint16(Packet(f), 2) = 256 * Packet(f)[3] + Packet(f)[4]
  BY DEF P!Uint16, P!At
<1>4. P!At(Packet(f), 0) = 69 + f.options /\ P!At(Packet(f), 9) = 6
  BY <1>1, <1>2 DEF P!At
<1>5. f.options \in Nat /\ f.options <= 10
  BY FrameFields
<1>6. 4 * ((69 + f.options) % 16) = 20 + 4 * f.options
  BY <1>5
<1>7. P!Uint16(Packet(f), 2) = TotalLength(f)
  BY <1>1, <1>2, <1>3, Zenon
<1>8. 4 * (P!At(Packet(f), 0) % 16) = Len(P!Ip(f))
  BY <1>1, <1>4, <1>6, Zenon
<1> QED BY <1>4, <1>7, <1>8 DEF P!IP_TCP

(* The end of the segment is the one that the header gives or the end of   *)
(* what was captured, whichever comes first.                               *)
LEMMA SegmentEnd ==
    ASSUME NEW f, P!IsFrame(f)
    PROVE  P!AtMost(Len(P!Ip(f)) + P!TcpLength(f), Len(Packet(f)))
             = Len(P!Ip(f)) + Len(Segment(f))
<1>1. f.lost \in Nat
  BY FrameFields
<1>2. /\ Len(P!Ip(f)) \in Nat /\ Len(Segment(f)) \in Nat
      /\ Len(Segment(f)) + f.lost = P!TcpLength(f)
      /\ Len(Trailer(f)) \in Nat
      /\ f.lost > 0 => Len(Trailer(f)) = 0
      /\ Len(Packet(f)) = (Len(P!Ip(f)) + Len(Segment(f))) + Len(Trailer(f))
  BY PacketLength
<1> QED BY <1>1, <1>2 DEF P!AtMost

(* The smaller of two numbers, when it is the first.                       *)
LEMMA AtMostLess ==
    ASSUME NEW m \in Nat, NEW n \in Nat, m <= n
    PROVE  P!AtMost(m, n) = m
BY DEF P!AtMost

(* The data that the custom parser cuts off behind the TCP header.         *)
LEMMA FastPayload ==
    ASSUME NEW f, P!IsFrame(f), f.version = 4, ~f.noTotal
    PROVE  P!IpPayload(Packet(f)) = Segment(f)
<1> DEFINE pEnd == P!AtMost(P!Uint16(Packet(f), 2), Len(Packet(f)))
           pIhl == P!AtMost(4 * (P!At(Packet(f), 0) % 16), pEnd)
<1>1. TotalLength(f) = Len(P!Ip(f)) + P!TcpLength(f)
  BY Ipv4HeaderBytes DEF TotalLength
<1>2. /\ P!Uint16(Packet(f), 2) = Len(P!Ip(f)) + P!TcpLength(f)
      /\ 4 * (P!At(Packet(f), 0) % 16) = Len(P!Ip(f))
  BY <1>1, TotalRead
<1>3. pEnd = Len(P!Ip(f)) + Len(Segment(f))
  BY <1>2, SegmentEnd, Zenon
<1>4. /\ Len(P!Ip(f)) \in Nat /\ Len(P!Ip(f)) + Len(Segment(f)) \in Nat
      /\ Len(P!Ip(f)) <= Len(P!Ip(f)) + Len(Segment(f))
  BY PacketLength
<1>5. pIhl = Len(P!Ip(f))
  BY <1>2, <1>3, <1>4, AtMostLess, Zenon
<1>6. P!IpPayload(Packet(f)) = P!Slice(Packet(f), pIhl, pEnd)
  BY Zenon DEF P!IpPayload
<1>7. P!Slice(Packet(f), Len(P!Ip(f)), Len(P!Ip(f)) + Len(Segment(f))) = Segment(f)
  BY PacketBytes
<1> QED BY <1>3, <1>5, <1>6, <1>7, Zenon

(* The port and the offset of the data, as both parsers read them.         *)
LEMMA SegmentRead ==
    ASSUME NEW f, P!IsFrame(f)
    PROVE  /\ 4 * (P!At(Segment(f), 12) \div 16) = 20 + 4 * f.tcpOptions
           /\ 20 + 4 * f.tcpOptions \in Nat
           /\ 20 + 4 * f.tcpOptions >= 20
           /\ 20 + 4 * f.tcpOptions <= Len(Segment(f))
           /\ P!Uint16(Segment(f), 0) = f.port
<1>1. /\ f.tcpOptions \in Nat /\ f.len \in Nat /\ f.lost \in Nat
      /\ f.lost <= f.len
  BY FrameFields
<1>2. /\ Len(Segment(f)) = (20 + 4 * f.tcpOptions) + (f.len - f.lost)
      /\ 256 * Segment(f)[1] + Segment(f)[2] = f.port
      /\ Segment(f)[13] = 16 * (5 + f.tcpOptions)
  BY SegmentBytes
<1>3. P!At(Segment(f), 12) = 16 * (5 + f.tcpOptions)
  BY <1>2 DEF P!At
<1>4. (16 * (5 + f.tcpOptions)) \div 16 = 5 + f.tcpOptions
  BY <1>1
<1>5. P!Uint16(Segment(f), 0) = 256 * Segment(f)[1] + Segment(f)[2]
  BY DEF P!Uint16, P!At
<1>6. 4 * (P!At(Segment(f), 12) \div 16) = 20 + 4 * f.tcpOptions
  BY <1>1, <1>3, <1>4
<1>7. /\ 20 + 4 * f.tcpOptions \in Nat /\ 20 + 4 * f.tcpOptions >= 20
      /\ 20 + 4 * f.tcpOptions <= (20 + 4 * f.tcpOptions) + (f.len - f.lost)
  BY <1>1
<1> QED BY <1>2, <1>5, <1>6, <1>7, Zenon

(* What a parser makes of a segment that it has found.                     *)
Request(f) == [port |-> f.port, data |-> CapturedData(f)]

(* The custom parser takes the port and the captured data of an IPv4       *)
(* frame.                                                                  *)
LEMMA FastOfIpv4 ==
    ASSUME NEW f, P!IsFrame(f), f.version = 4, ~f.noTotal
    PROVE  P!ParsePacketFast(P!BytesOf(f), f.link) = Request(f)
<1> DEFINE data  == P!BytesOf(f)
           dlt   == f.link
           type  == IF dlt = "ethernet" THEN P!Uint16(data, 12) ELSE P!TYPE_IP
           ip    == P!From(data, P!EthernetHeader(dlt))
           tcp   == P!IpPayload(ip)
           start == P!AtMost(4 * (P!At(tcp, 12) \div 16), Len(tcp))
<1>1. ip = Packet(f)
  BY FrameBytes
<1>2. tcp = Segment(f)
  BY <1>1, FastPayload
<1>3. type = P!TYPE_IP
  BY TypeRead DEF P!TYPE_IP
<1>4. /\ ~(Len(ip) < 20) /\ ~(Len(tcp) < 20) /\ ~(Len(data) < 14)
  <2>1. /\ Len(data) = P!EthernetHeader(dlt) + Len(Packet(f))
        /\ P!EthernetHeader(dlt) \in Nat
    BY FrameBytes
  <2>2. /\ Len(P!Ip(f)) \in Nat /\ Len(P!Ip(f)) >= 20
        /\ Len(Segment(f)) \in Nat /\ Len(Segment(f)) >= 20
        /\ Len(Trailer(f)) \in Nat
        /\ Len(Packet(f)) = (Len(P!Ip(f)) + Len(Segment(f))) + Len(Trailer(f))
    BY PacketLength
  <2> HIDE DEF data, ip, tcp
  <2> QED BY <1>1, <1>2, <2>1, <2>2
<1>5. P!At(ip, 9) = P!IP_TCP
  BY <1>1, TotalRead
<1>6. start = 20 + 4 * f.tcpOptions
  <2>1. Len(Segment(f)) \in Nat
    BY PacketLength
  <2> QED BY <1>2, <2>1, SegmentRead, AtMostLess
<1>7. P!From(tcp, start) = CapturedData(f)
  BY <1>2, <1>6, SegmentBytes
<1>8. P!Uint16(tcp, 0) = f.port
  BY <1>2, SegmentRead
<1>9. P!ParsePacketFast(data, dlt)
        = IF \/ Len(data) < 14
             \/ type # P!TYPE_IP
             \/ Len(ip) < 20
             \/ P!At(ip, 9) # P!IP_TCP
             \/ Len(tcp) < 20
          THEN P!None
          ELSE [port |-> P!Uint16(tcp, 0), data |-> P!From(tcp, start)]
  BY DEF P!ParsePacketFast
<1> HIDE DEF data, dlt, type, ip, tcp, start
<1>10. P!ParsePacketFast(data, dlt)
         = [port |-> P!Uint16(tcp, 0), data |-> P!From(tcp, start)]
  BY <1>3, <1>4, <1>5, <1>9
<1> QED BY <1>7, <1>8, <1>10 DEF Request, data, dlt

(* A length of zero or another protocol: the custom parser takes nothing.  *)
LEMMA FastOfOthers ==
    ASSUME NEW f, P!IsFrame(f), f.version = 6 \/ f.noTotal
    PROVE  P!ParsePacketFast(P!BytesOf(f), f.link) = P!None
<1>1. P!From(P!BytesOf(f), P!EthernetHeader(f.link)) = Packet(f)
  BY FrameBytes
<1>2. CASE f.version = 6 /\ f.link = "ethernet"
  <2>1. P!Uint16(P!BytesOf(f), 12) # P!TYPE_IP
    BY <1>2, TypeRead DEF P!TYPE_IP
  <2> QED BY <1>2, <2>1 DEF P!ParsePacketFast
<1>3. CASE f.version = 6 /\ f.link = "raw"
  <2>1. P!Ip(f)[10] = 32
    BY <1>3, Ipv6HeaderBytes
  <2>2. Packet(f)[10] = P!Ip(f)[10]
    BY PacketHeader
  <2>3. P!At(Packet(f), 9) # P!IP_TCP
    BY <2>1, <2>2 DEF P!At, P!IP_TCP
  <2> QED BY <1>1, <2>3 DEF P!ParsePacketFast
<1>4. CASE f.version = 4 /\ f.noTotal
  <2>1. TotalLength(f) = 0
    BY <1>4 DEF TotalLength
  <2>2. P!Uint16(Packet(f), 2) = 0 /\ 4 * (P!At(Packet(f), 0) % 16) = Len(P!Ip(f))
    BY <1>4, <2>1, TotalRead
  <2>3. Len(Packet(f)) \in Nat /\ Len(P!Ip(f)) \in Nat /\ Len(P!Ip(f)) >= 20
    BY PacketLength
  <2>4. P!AtMost(0, Len(Packet(f))) = 0 /\ P!AtMost(Len(P!Ip(f)), 0) = 0
    BY <2>3 DEF P!AtMost
  <2>5. P!IpPayload(Packet(f)) = P!Slice(Packet(f), 0, 0)
    BY <2>2, <2>4 DEF P!IpPayload
  <2>6. P!Slice(Packet(f), 0, 0) = <<>>
    BY SubSeqEmpty DEF P!Slice
  <2>7. Len(P!IpPayload(Packet(f))) < 20
    BY <2>5, <2>6
  <2> HIDE DEF P!IpPayload
  <2> QED BY <1>1, <2>7 DEF P!ParsePacketFast
<1>5. /\ f.version = 4 \/ f.version = 6
      /\ f.link = "raw" \/ f.link = "ethernet"
  BY FrameFields
<1> QED BY <1>2, <1>3, <1>4, <1>5

(* gopacket's decoders find the segment in both versions of IP, and behind *)
(* an IPv4 length of zero too: such a packet has no padding.               *)
LEMMA Ipv4Segment ==
    ASSUME NEW f, P!IsFrame(f), f.version = 4
    PROVE  P!Ipv4Payload(Packet(f)) = Segment(f)
<1> DEFINE ip     == Packet(f)
           total  == P!Uint16(ip, 2)
           length == IF total = 0 THEN Len(ip) ELSE total
           ihl    == 4 * (P!At(ip, 0) % 16)
           end    == P!AtMost(length, Len(ip))
<1>1. /\ total = TotalLength(f) /\ ihl = Len(P!Ip(f)) /\ P!At(ip, 9) = P!IP_TCP
  BY TotalRead
<1>2. /\ Len(P!Ip(f)) \in Nat /\ Len(P!Ip(f)) >= 20
      /\ Len(Segment(f)) \in Nat /\ Len(Segment(f)) >= 20
      /\ Len(Trailer(f)) \in Nat /\ (f.noTotal => Len(Trailer(f)) = 0)
      /\ Len(ip) = (Len(P!Ip(f)) + Len(Segment(f))) + Len(Trailer(f))
      /\ Len(ip) \in Nat
      /\ Len(Segment(f)) + f.lost = P!TcpLength(f)
  BY PacketLength
<1>3. f.lost \in Nat /\ f.noTotal \in BOOLEAN
  BY FrameFields
<1>4. P!AtMost(Len(P!Ip(f)) + P!TcpLength(f), Len(ip)) = Len(P!Ip(f)) + Len(Segment(f))
  BY SegmentEnd
<1>5. Len(P!Ip(f)) = 20 + 4 * f.options
  BY Ipv4HeaderBytes
<1> HIDE DEF ip, total, ihl
<1>6. length >= 20 /\ end = Len(P!Ip(f)) + Len(Segment(f))
  <2>1. CASE f.noTotal
    <3>1. total = 0
      BY <1>1, <2>1 DEF TotalLength
    <3>2. length = Len(ip) /\ Len(ip) = Len(P!Ip(f)) + Len(Segment(f))
      BY <1>2, <2>1, <3>1
    <3>3. end = Len(ip)
      BY <1>2, <3>2 DEF P!AtMost
    <3> QED BY <1>2, <3>2, <3>3
  <2>2. CASE ~f.noTotal
    <3>1. total = Len(P!Ip(f)) + P!TcpLength(f)
      BY <1>1, <1>5, <2>2 DEF TotalLength
    <3>2. Len(P!Ip(f)) + P!TcpLength(f) >= 20 /\ Len(P!Ip(f)) + P!TcpLength(f) # 0
      BY <1>2, <1>3
    <3>3. length = total
      BY <3>1, <3>2
    <3>4. length >= 20
      BY <3>1, <3>2, <3>3, Zenon
    <3>5. end = Len(P!Ip(f)) + Len(Segment(f))
      BY <1>4, <3>1, <3>3, Zenon
    <3> QED BY <3>4, <3>5
  <2> QED BY <1>3, <2>1, <2>2
<1>7. length \in Nat
  BY <1>1, <1>2, <1>3, <1>6 DEF TotalLength, P!TcpLength
<1>8. P!Ipv4Payload(ip)
        = IF \/ Len(ip) < 20 \/ length < 20 \/ ihl < 20
             \/ ihl > end \/ P!At(ip, 9) # P!IP_TCP
          THEN <<>>
          ELSE P!Slice(ip, ihl, end)
  BY DEF P!Ipv4Payload, total, ihl
<1> HIDE DEF length, end
<1>9. ~(Len(ip) < 20) /\ ~(length < 20) /\ ~(ihl < 20) /\ ~(ihl > end)
  BY <1>1, <1>2, <1>6, <1>7
<1>10. P!Ipv4Payload(ip) = P!Slice(ip, ihl, end)
  BY <1>1, <1>8, <1>9
<1>11. P!Slice(ip, Len(P!Ip(f)), Len(P!Ip(f)) + Len(Segment(f))) = Segment(f)
  BY PacketBytes DEF ip
<1> QED BY <1>1, <1>6, <1>10, <1>11, Zenon DEF ip

(* The segment that gopacket finds in an IPv6 packet.                      *)
LEMMA Ipv6Segment ==
    ASSUME NEW f, P!IsFrame(f), f.version = 6
    PROVE  P!Ipv6Payload(Packet(f)) = Segment(f)
<1> DEFINE ip == Packet(f)
           end == P!AtMost(40 + P!Uint16(ip, 4), Len(ip))
<1>1. /\ Len(P!Ip(f)) = 40 /\ P!Ip(f)[7] = 6
      /\ 256 * P!Ip(f)[5] + P!Ip(f)[6] = P!TcpLength(f)
  BY Ipv6HeaderBytes
<1>2. ip[5] = P!Ip(f)[5] /\ ip[6] = P!Ip(f)[6] /\ ip[7] = P!Ip(f)[7]
  BY PacketHeader
<1>3. /\ Len(Segment(f)) \in Nat /\ Len(Segment(f)) >= 20
      /\ Len(Trailer(f)) \in Nat
      /\ Len(ip) = (Len(P!Ip(f)) + Len(Segment(f))) + Len(Trailer(f))
      /\ Len(Segment(f)) + f.lost = P!TcpLength(f)
  BY PacketLength
<1>4. P!AtMost(Len(P!Ip(f)) + P!TcpLength(f), Len(ip)) = Len(P!Ip(f)) + Len(Segment(f))
  BY SegmentEnd
<1>5. P!Slice(ip, Len(P!Ip(f)), Len(P!Ip(f)) + Len(Segment(f))) = Segment(f)
  BY PacketBytes
<1>6. f.lost \in Nat
  BY FrameFields
<1> HIDE DEF ip
<1>7. P!Uint16(ip, 4) = 256 * ip[5] + ip[6]
  BY DEF P!Uint16, P!At
<1>8. P!Uint16(ip, 4) = P!TcpLength(f)
  BY <1>1, <1>2, <1>7, Zenon
<1>9. P!At(ip, 6) = P!IP_TCP
  BY <1>1, <1>2 DEF P!At, P!IP_TCP
<1>10. P!TcpLength(f) # 0
  BY <1>3, <1>6
<1>11. ~(Len(ip) < 40)
  BY <1>1, <1>3
<1>12. end = Len(P!Ip(f)) + Len(Segment(f))
  BY <1>1, <1>4, <1>8, Zenon
<1>13. P!Ipv6Payload(ip) = IF Len(ip) < 40 \/ P!Uint16(ip, 4) = 0 \/ P!At(ip, 6) # P!IP_TCP
                           THEN <<>> ELSE P!Slice(ip, 40, end)
  BY DEF P!Ipv6Payload
<1> HIDE DEF end
<1>14. P!Ipv6Payload(ip) = P!Slice(ip, 40, end)
  BY <1>8, <1>9, <1>10, <1>11, <1>13
<1> QED BY <1>1, <1>5, <1>12, <1>14, Zenon DEF ip

(* The data that gopacket gives of a segment.                              *)
LEMMA SegmentPayload ==
    ASSUME NEW f, P!IsFrame(f)
    PROVE  P!TcpPayload(Segment(f)) = CapturedData(f)
<1>1. /\ 4 * (P!At(Segment(f), 12) \div 16) = 20 + 4 * f.tcpOptions
      /\ 20 + 4 * f.tcpOptions \in Nat
      /\ 20 + 4 * f.tcpOptions >= 20
      /\ 20 + 4 * f.tcpOptions <= Len(Segment(f))
  BY SegmentRead
<1>2. P!From(Segment(f), 20 + 4 * f.tcpOptions) = CapturedData(f)
  BY SegmentBytes
<1>3. Len(Segment(f)) \in Nat /\ Len(Segment(f)) >= 20
  BY PacketLength
<1> DEFINE dataStart == 4 * (P!At(Segment(f), 12) \div 16)
<1>4. P!TcpPayload(Segment(f))
        = IF Len(Segment(f)) < 20 \/ dataStart < 20 \/ dataStart > Len(Segment(f))
          THEN <<>> ELSE P!From(Segment(f), dataStart)
  BY DEF P!TcpPayload
<1>5. dataStart = 20 + 4 * f.tcpOptions
  BY <1>1
<1> HIDE DEF dataStart
<1>6. ~(Len(Segment(f)) < 20 \/ dataStart < 20 \/ dataStart > Len(Segment(f)))
  BY <1>1, <1>3, <1>5
<1> QED BY <1>2, <1>4, <1>5, <1>6

(* gopacket takes the port and the captured data of an Ethernet frame.     *)
LEMMA SlowOfEthernet ==
    ASSUME NEW f, P!IsFrame(f), f.link = "ethernet"
    PROVE  P!DecodeLayers(P!BytesOf(f)) = Request(f)
<1> DEFINE data == P!BytesOf(f)
           type == P!Uint16(data, 12)
           tcp  == IF type = P!TYPE_IP THEN P!Ipv4Payload(P!From(data, 14))
                   ELSE P!Ipv6Payload(P!From(data, 14))
<1>1. P!EthernetHeader(f.link) = 14
  BY DEF P!EthernetHeader
<1>2. P!From(data, 14) = Packet(f) /\ Len(data) = 14 + Len(Packet(f))
  BY <1>1, FrameBytes
<1>3. type = IF f.version = 4 THEN 2048 ELSE 34525
  BY TypeRead
<1>4. f.version = 4 \/ f.version = 6
  BY FrameFields
<1>5. tcp = Segment(f)
  <2> HIDE DEF data, type
  <2>1. CASE f.version = 4
    BY <1>2, <1>3, <2>1, Ipv4Segment DEF P!TYPE_IP
  <2>2. CASE f.version = 6
    BY <1>2, <1>3, <2>2, Ipv6Segment DEF P!TYPE_IP
  <2> QED BY <1>4, <2>1, <2>2
<1>6. type \in {P!TYPE_IP, P!TYPE_IPV6}
  BY <1>3 DEF P!TYPE_IP, P!TYPE_IPV6
<1>7. ~(Len(data) < 14)
  <2>1. Len(Packet(f)) \in Nat
    BY PacketLength
  <2> QED BY <1>2, <2>1
<1>8. Segment(f) # <<>>
  <2>1. Len(Segment(f)) >= 20
    BY PacketLength
  <2> QED BY <2>1
<1>9. P!DecodeLayers(data)
        = IF Len(data) < 14 \/ type \notin {P!TYPE_IP, P!TYPE_IPV6} THEN P!None
          ELSE IF tcp = <<>> THEN P!None
          ELSE [port |-> P!Uint16(tcp, 0), data |-> P!TcpPayload(tcp)]
  BY DEF P!DecodeLayers
<1> HIDE DEF data, type, tcp
<1>10. P!DecodeLayers(data) = [port |-> P!Uint16(tcp, 0), data |-> P!TcpPayload(tcp)]
  BY <1>5, <1>6, <1>7, <1>8, <1>9
<1>11. P!Uint16(tcp, 0) = f.port
  BY <1>5, SegmentRead
<1>12. P!TcpPayload(tcp) = CapturedData(f)
  BY <1>5, SegmentPayload
<1> QED BY <1>10, <1>11, <1>12 DEF Request, data

(* Without an Ethernet header the bytes taken for its type are addresses.  *)
LEMMA SlowOfRaw ==
    ASSUME NEW f, P!IsFrame(f), f.link = "raw"
    PROVE  P!DecodeLayers(P!BytesOf(f)) = P!None
<1>1. P!BytesOf(f) = Packet(f)
  BY FrameBytes
<1>2. Packet(f)[13] = P!Ip(f)[13] /\ Packet(f)[14] = P!Ip(f)[14]
  BY PacketHeader
<1>3. P!Uint16(Packet(f), 12) = 256 * Packet(f)[13] + Packet(f)[14]
  BY DEF P!Uint16, P!At
<1>4. P!Uint16(Packet(f), 12) \notin {P!TYPE_IP, P!TYPE_IPV6}
  <2>1. CASE f.version = 4
    <3>1. P!Ip(f)[13] = 10 /\ P!Ip(f)[14] = 0
      BY <2>1, Ipv4HeaderBytes
    <3> QED BY <1>2, <1>3, <3>1 DEF P!TYPE_IP, P!TYPE_IPV6
  <2>2. CASE f.version = 6
    <3>1. P!Ip(f)[13] = 32 /\ P!Ip(f)[14] = 32
      BY <2>2, Ipv6HeaderBytes
    <3> QED BY <1>2, <1>3, <3>1 DEF P!TYPE_IP, P!TYPE_IPV6
  <2>3. f.version = 4 \/ f.version = 6
    BY FrameFields
  <2> QED BY <2>1, <2>2, <2>3
<1> HIDE DEF P!TYPE_IP, P!TYPE_IPV6
<1> QED BY <1>1, <1>4 DEF P!DecodeLayers

(* What is to be taken of a frame: nothing if no data was captured.        *)
LEMMA CapturedCases ==
    ASSUME NEW f, P!IsFrame(f)
    PROVE  /\ CapturedData(f) = <<>> <=> f.len = f.lost
           /\ P!Captured(f) = IF CapturedData(f) = <<>> THEN P!None ELSE Request(f)
<1>1. CapturedData(f) \in Seq(Nat) /\ Len(CapturedData(f)) = f.len - f.lost
  BY CapturedDataBytes
<1>2. f.len \in Nat /\ f.lost \in Nat
  BY FrameFields
<1>3. CapturedData(f) = <<>> <=> Len(CapturedData(f)) = 0
  BY <1>1, EmptySeq
<1>4. CapturedData(f) = <<>> <=> f.len = f.lost
  BY <1>1, <1>2, <1>3
<1>5. P!Captured(f) = IF f.len = f.lost THEN P!None ELSE Request(f)
  BY DEF P!Captured, Request, CapturedData
<1> QED BY <1>4, <1>5

(* What a worker goes on with, whichever parser it uses.                   *)
LEMMA WorkerInput ==
    ASSUME NEW f, P!IsFrame(f), NEW fast \in BOOLEAN
    PROVE  /\ P!ToWorker(P!BytesOf(f), f.link, fast) \in {P!None, P!Captured(f)}
           /\ P!Supported(f, fast) =>
                P!ToWorker(P!BytesOf(f), f.link, fast) = P!Captured(f)
<1> DEFINE d == P!BytesOf(f)
           c == CapturedData(f)
<1>1. P!Captured(f) = IF c = <<>> THEN P!None ELSE Request(f)
  BY CapturedCases
<1>2. Request(f).data = c /\ P!None.data = <<>>
  BY DEF Request, P!None
<1>3. /\ f.link \in {"ethernet", "raw"} /\ f.version \in {4, 6}
      /\ f.noTotal \in BOOLEAN
  BY FrameFields
<1>4. CASE fast = FALSE
  <2>1. P!ToWorker(d, f.link, fast) = IF P!DecodeLayers(d).data = <<>> THEN P!None
                                      ELSE P!DecodeLayers(d)
    BY <1>4 DEF P!ToWorker, P!ParsePacketSlow
  <2>2. CASE f.link = "ethernet"
    <3>1. P!DecodeLayers(d) = Request(f)
      BY <2>2, SlowOfEthernet
    <3> HIDE DEF d, c
    <3> QED BY <1>1, <1>2, <2>1, <3>1 DEF d
  <2>3. CASE f.link = "raw"
    <3>1. P!DecodeLayers(d) = P!None
      BY <2>3, SlowOfRaw
    <3>2. ~P!Supported(f, fast)
      BY <1>4, <2>3 DEF P!Supported
    <3> HIDE DEF d, c
    <3> QED BY <1>2, <2>1, <3>1, <3>2 DEF d
  <2> QED BY <1>3, <2>2, <2>3
<1>5. CASE fast = TRUE
  <2> DEFINE r == P!ParsePacketFast(d, f.link)
  <2>1. P!ToWorker(d, f.link, fast)
          = IF P!TooShort(d) \/ r.data = <<>> THEN P!None ELSE r
    BY <1>5 DEF P!ToWorker
  <2>2. CASE f.version = 4 /\ ~f.noTotal
    <3>1. r = Request(f)
      BY <2>2, FastOfIpv4
    <3>2. P!ToWorker(d, f.link, fast)
            = IF P!TooShort(d) \/ c = <<>> THEN P!None ELSE Request(f)
      <4> HIDE DEF d, c, r
      <4> QED BY <1>2, <2>1, <3>1
    <3>3. ASSUME P!Supported(f, fast), P!TooShort(d) PROVE c = <<>>
      <4>1. P!Headers(f) >= 66
        BY <1>5, <3>3 DEF P!Supported
      <4>2. Len(d) <= 66
        BY <3>3 DEF P!TooShort
      <4>3. /\ Len(d) = P!EthernetHeader(f.link) + Len(Packet(f))
            /\ P!EthernetHeader(f.link) \in Nat
        BY FrameBytes
      <4>4. P!Headers(f) = (P!EthernetHeader(f.link) + Len(P!Ip(f))) + (P!TcpLength(f) - f.len)
        BY EthernetBytes DEF P!Headers
      <4>5. /\ Len(P!Ip(f)) \in Nat /\ Len(Segment(f)) \in Nat
            /\ Len(Segment(f)) + f.lost = P!TcpLength(f)
            /\ Len(Trailer(f)) \in Nat
            /\ Len(Packet(f)) = (Len(P!Ip(f)) + Len(Segment(f))) + Len(Trailer(f))
        BY PacketLength
      <4>6. f.len \in Nat /\ f.lost \in Nat /\ f.lost <= f.len
        BY FrameFields
      <4> HIDE DEF d, c
      <4>7. f.len = f.lost
        BY <4>1, <4>2, <4>3, <4>4, <4>5, <4>6
      <4> QED BY <4>7, CapturedCases DEF c
    <3> HIDE DEF d, c
    <3> QED BY <1>1, <3>2, <3>3 DEF d
  <2>3. CASE ~(f.version = 4 /\ ~f.noTotal)
    <3>1. f.version = 6 \/ f.noTotal
      BY <1>3, <2>3
    <3>2. r = P!None
      BY <3>1, FastOfOthers
    <3>3. ~P!Supported(f, fast)
      BY <1>5, <2>3 DEF P!Supported
    <3>4. P!ToWorker(d, f.link, fast) = P!None
      <4> HIDE DEF d, r
      <4> QED BY <1>2, <2>1, <3>2
    <3> QED BY <3>3, <3>4
  <2> QED BY <2>2, <2>3
<1> QED BY <1>4, <1>5

-----------------------------------------------------------------------------
(* Logins.                                                                 *)

(* The parts of a login.                                                   *)
LEMMA LoginFields ==
    ASSUME NEW l \in L!Login
    PROVE  /\ l.form \in {"lenenc", "secure", "nul", "ssl"}
           /\ l.withDb \in BOOLEAN /\ l.zeros \in BOOLEAN /\ l.plugin \in BOOLEAN
           /\ l.user \in Nat /\ l.auth \in Nat /\ l.db \in Nat
BY DEF L!Login

(* A number of equal bytes in a login.                                     *)
LEMMA LoginBytesLemma ==
    ASSUME NEW b \in Nat, NEW n \in Nat
    PROVE  /\ L!Bytes(b, n) \in Seq(Nat)
           /\ Len(L!Bytes(b, n)) = n
           /\ \A i \in 1 .. n : L!Bytes(b, n)[i] = b
BY DEF L!Bytes

(* Four bytes read as one number, the first of them the least significant. *)
LEMMA FourBytes ==
    ASSUME NEW data
    PROVE  L!LittleEndian(data, 0, 4) =
             L!Unsigned(data, 0) + 256 * (L!Unsigned(data, 1)
               + 256 * (L!Unsigned(data, 2) + 256 * (L!Unsigned(data, 3) + 256 * 0)))
<1> DEFINE Step(f) == [i \in 0 .. 4 |-> IF i = 0 THEN 0
                                        ELSE L!Unsigned(data, 0 + 4 - i) + 256 * f[i - 1]]
           s1 == L!Unsigned(data, 3) + 256 * 0
           s2 == L!Unsigned(data, 2) + 256 * s1
           s3 == L!Unsigned(data, 1) + 256 * s2
           s4 == L!Unsigned(data, 0) + 256 * s3
           g == [i \in 0 .. 4 |-> CASE i = 0 -> 0 [] i = 1 -> s1 [] i = 2 -> s2
                                    [] i = 3 -> s3 [] OTHER -> s4]
           h == CHOOSE f : f = Step(f)
<1>1. L!LittleEndian(data, 0, 4) = h[4]
  BY DEF L!LittleEndian
<1>2. g = Step(g)
  OBVIOUS
<1>3. h = Step(h)
  <2> HIDE DEF g, Step
  <2> QED BY <1>2
<1> HIDE DEF h, s1, s2, s3, s4
<1>4. h[0] = 0
  BY <1>3
<1>5. h[1] = s1
  BY <1>3, <1>4 DEF s1
<1>6. h[2] = s2
  BY <1>3, <1>5 DEF s2
<1>7. h[3] = s3
  BY <1>3, <1>6 DEF s3
<1>8. h[4] = s4
  BY <1>3, <1>7 DEF s4
<1> QED BY <1>1, <1>8 DEF s1, s2, s3, s4

(* The bytes that the player makes of the digits that the collector made.  *)
LEMMA HexRoundTrip ==
    ASSUME NEW b \in Seq(Nat)
    PROVE  LET d == L!hexStringToByteArray(L!EncodeToString(b))
           IN  /\ Len(L!EncodeToString(b)) = 2 * Len(b)
               /\ d \in Seq(Int) /\ Len(d) = Len(b)
               /\ \A i \in 1 .. Len(b) : d[i] = L!JavaByte(b[i])
<1> DEFINE s == L!EncodeToString(b)
           d == L!hexStringToByteArray(s)
<1>1. PICK n \in Nat : n = Len(b)
  BY LenLemma
<1>2. \A i \in 1 .. n : b[i] \in Nat
  BY <1>1, LenProperties
<1>3. s = [i \in 1 .. 2 * n |-> IF i % 2 = 1 THEN b[(i + 1) \div 2] \div 16
                                ELSE b[i \div 2] % 16]
  BY <1>1 DEF L!EncodeToString
<1>4. Len(s) = 2 * n
  <2> HIDE DEF s
  <2>1. 2 * n \in Nat
    OBVIOUS
  <2> QED BY <1>3, <2>1
<1>5. \A i \in 1 .. n : s[2 * i - 1] = b[i] \div 16 /\ s[2 * i] = b[i] % 16
  <2> TAKE i \in 1 .. n
  <2>1. /\ 2 * i - 1 \in 1 .. 2 * n /\ 2 * i \in 1 .. 2 * n
        /\ (2 * i - 1) % 2 = 1 /\ (2 * i) % 2 # 1
        /\ ((2 * i - 1) + 1) \div 2 = i /\ (2 * i) \div 2 = i
    OBVIOUS
  <2> HIDE DEF s
  <2> QED BY <1>3, <2>1
<1> HIDE DEF s
<1>6. d = [i \in 1 .. n |-> L!JavaByte(16 * s[2 * i - 1] + s[2 * i])]
  <2>1. (2 * n) \div 2 = n
    OBVIOUS
  <2> QED BY <1>4, <2>1 DEF L!hexStringToByteArray
<1> HIDE DEF d
<1>7. \A i \in 1 .. n : 16 * s[2 * i - 1] + s[2 * i] = b[i]
  <2> TAKE i \in 1 .. n
  <2>1. PICK m \in Nat : m = b[i]
    BY <1>2
  <2>2. 16 * (m \div 16) + (m % 16) = m
    OBVIOUS
  <2> QED BY <1>5, <2>1, <2>2
<1>8. d = [i \in 1 .. n |-> L!JavaByte(b[i])]
  BY <1>6, <1>7
<1>9. \A i \in 1 .. n : L!JavaByte(b[i]) \in Int
  BY <1>2 DEF L!JavaByte
<1>10. d \in Seq(Int) /\ Len(d) = n /\ \A i \in 1 .. n : d[i] = L!JavaByte(b[i])
  BY <1>8, <1>9
<1> QED BY <1>1, <1>4, <1>10 DEF s, d

(* The minimum that the end of a string is.                                *)
LEMMA EndOfStringIs ==
    ASSUME NEW d, Len(d) \in Nat, NEW m \in Nat, NEW n \in Nat,
           m + n < Len(d),
           \A k \in 1 .. n : d[m + k] # 0,
           d[(m + n) + 1] = 0
    PROVE  L!EndOfString(d, m) = m + n
<1> DEFINE T == {i \in m .. Len(d) : i = Len(d) \/ L!At(d, i) = 0}
<1>1. m + n \in T
  <2>1. m + n \in m .. Len(d)
    OBVIOUS
  <2>2. L!At(d, m + n) = 0
    BY DEF L!At
  <2> QED BY <2>1, <2>2
<1>2. \A i \in T : m + n <= i
  <2> SUFFICES ASSUME NEW i \in T, i < m + n PROVE FALSE
    OBVIOUS
  <2>1. i \in m .. Len(d) /\ i # Len(d) /\ L!At(d, i) = 0
    OBVIOUS
  <2>2. PICK k \in 1 .. n : i + 1 = m + k
    <3>1. (i + 1) - m \in 1 .. n /\ i + 1 = m + ((i + 1) - m)
      BY <2>1
    <3> QED BY <3>1
  <2>3. d[m + k] = 0
    BY <2>1, <2>2 DEF L!At
  <2> QED BY <2>3
<1>3. L!EndOfString(d, m) = CHOOSE x \in T : \A y \in T : x =< y
  BY DEF L!EndOfString, L!Min
<1>4. \A x \in T : x \in Int
  OBVIOUS
<1> HIDE DEF T
<1>5. \A x \in T : (\A y \in T : x =< y) => x = m + n
  BY <1>1, <1>2, <1>4
<1> QED BY <1>1, <1>2, <1>3, <1>5

-----------------------------------------------------------------------------
(* The tail t of B behind its first m bytes.                               *)
EndsWith(B, m, t) ==
    Len(B) = m + Len(t) /\ \A k \in 1 .. Len(t) : B[m + k] = t[k]

(* The first part of a tail, and the tail behind it.                       *)
LEMMA Peel ==
    ASSUME NEW B, NEW m \in Nat, NEW s \in Seq(Nat), NEW u \in Seq(Nat),
           EndsWith(B, m, Join(s, u))
    PROVE  /\ \A k \in 1 .. Len(s) : B[m + k] = s[k]
           /\ EndsWith(B, m + Len(s), u)
<1>1. PICK a, b \in Nat : a = Len(s) /\ b = Len(u)
  BY LenLemma
<1>2. PICK t : t = Join(s, u)
  OBVIOUS
<1>3. Len(t) = a + b
  BY <1>1, <1>2, JoinType, Zenon
<1>4. Len(B) = m + Len(t) /\ \A k \in 1 .. Len(t) : B[m + k] = t[k]
  BY <1>2 DEF EndsWith
<1>5. \A k \in 1 .. a : t[k] = s[k]
  BY <1>1, <1>2, JoinLeft, Zenon
<1>6. \A k \in 1 .. b : t[a + k] = u[k]
  BY <1>1, <1>2, JoinRight, Zenon
<1>7. \A k \in 1 .. a : B[m + k] = s[k]
  <2> TAKE k \in 1 .. a
  <2>1. k \in 1 .. Len(t)
    BY <1>3
  <2> QED BY <2>1, <1>4, <1>5
<1>8. Len(B) = (m + a) + b
  BY <1>3, <1>4
<1>9. \A k \in 1 .. b : B[(m + a) + k] = u[k]
  <2> TAKE k \in 1 .. b
  <2>1. a + k \in 1 .. Len(t) /\ (m + a) + k = m + (a + k)
    BY <1>3
  <2> QED BY <2>1, <1>4, <1>6
<1> QED BY <1>1, <1>7, <1>8, <1>9 DEF EndsWith

(* Of a join everything is behind nothing.                                 *)
LEMMA EndsWithAll ==
    ASSUME NEW t \in Seq(Nat)
    PROVE  EndsWith(t, 0, t)
BY LenLemma DEF EndsWith

DbPart(l) == IF l.withDb THEN Join(L!DatabaseOf(l), <<0>>) ELSE <<>>
PluginPart(l) == IF l.plugin THEN Join(L!Bytes(112, 21), <<0>>) ELSE <<>>

(* The parts of a login request are sequences of bytes.                    *)
LEMMA LoginParts ==
    ASSUME NEW l \in L!Login
    PROVE  /\ L!FlagBytes(L!FlagsOf(l)) \in Seq(Nat)
           /\ Len(L!FlagBytes(L!FlagsOf(l))) = 4
           /\ L!Bytes(0, 28) \in Seq(Nat) /\ Len(L!Bytes(0, 28)) = 28
           /\ L!AuthOf(l) \in Seq(Nat)
           /\ DbPart(l) \in Seq(Nat)
           /\ PluginPart(l) \in Seq(Nat)
<1> USE LoginFields
<1>0. <<0>> \in Seq(Nat)
  OBVIOUS
<1>1. L!FlagsOf(l) \in Nat
  BY DEF L!FlagsOf, L!FLAG_CLIENT_CONNECT_WITH_DB, L!FLAG_CLIENT_PROTOCOL_41,
         L!FLAG_CLIENT_SECURE_CONNECTION, L!FLAG_CLIENT_PLUGIN_AUTH_LENENC_CLIENT_DATA
<1>2. \A n \in Nat : L!FlagBytes(n) \in Seq(Nat) /\ Len(L!FlagBytes(n)) = 4
  <2> TAKE n \in Nat
  <2>1. /\ n % 256 \in Nat /\ (n \div 256) % 256 \in Nat
        /\ (n \div 65536) % 256 \in Nat /\ (n \div 16777216) % 256 \in Nat
    OBVIOUS
  <2> QED BY <2>1 DEF L!FlagBytes
<1>3. L!Bytes(0, 28) \in Seq(Nat) /\ Len(L!Bytes(0, 28)) = 28
  <2>1. PICK b, n \in Nat : b = 0 /\ n = 28
    OBVIOUS
  <2>2. L!Bytes(b, n) \in Seq(Nat) /\ Len(L!Bytes(b, n)) = n
    BY LoginBytesLemma, Zenon
  <2> QED BY <2>1, <2>2
<1>4. L!AuthBytes(l) \in Seq(Nat)
  BY LoginBytesLemma DEF L!AuthBytes
<1>5. L!AuthOf(l) \in Seq(Nat)
  <2>1. <<252, l.auth % 256, l.auth \div 256>> \in Seq(Nat) /\ <<l.auth>> \in Seq(Nat)
    OBVIOUS
  <2>2. \A s, t \in Seq(Nat) : s \o t \in Seq(Nat)
    BY JoinType DEF Join
  <2> QED BY <1>0, <1>4, <2>1, <2>2, Zenon DEF L!AuthOf
<1>6. DbPart(l) \in Seq(Nat)
  <2>1. L!DatabaseOf(l) \in Seq(Nat)
    BY LoginBytesLemma DEF L!DatabaseOf, L!NoDatabase
  <2>2. <<>> \in Seq(Nat)
    OBVIOUS
  <2> QED BY <1>0, <2>1, <2>2, JoinType, Zenon DEF DbPart
<1>7. PluginPart(l) \in Seq(Nat)
  <2>1. L!Bytes(112, 21) \in Seq(Nat)
    BY LoginBytesLemma
  <2>2. <<>> \in Seq(Nat)
    OBVIOUS
  <2> QED BY <1>0, <2>1, <2>2, JoinType, Zenon DEF PluginPart
<1> QED BY <1>1, <1>2, <1>3, <1>5, <1>6, <1>7

(* Where the parts of a login request are.                                 *)
LEMMA LoginLayout ==
    ASSUME NEW l \in L!Login, l.form # "ssl"
    PROVE  LET B == L!BytesOf(l)
               A == L!AuthOf(l)
               D == DbPart(l)
               F == L!FlagBytes(L!FlagsOf(l))
           IN  /\ B \in Seq(Nat)
               /\ Len(B) = (((33 + l.user) + Len(A)) + Len(D)) + Len(PluginPart(l))
               /\ \A k \in 1 .. 4 : B[k] = F[k]
               /\ \A k \in 1 .. l.user : B[32 + k] = 117
               /\ B[33 + l.user] = 0
               /\ \A k \in 1 .. Len(A) : B[(33 + l.user) + k] = A[k]
               /\ \A k \in 1 .. Len(D) : B[((33 + l.user) + Len(A)) + k] = D[k]
<1> DEFINE B == L!BytesOf(l)
           A == L!AuthOf(l)
           D == DbPart(l)
           Q == PluginPart(l)
           F == L!FlagBytes(L!FlagsOf(l))
           Z == L!Bytes(0, 28)
           U == L!Bytes(117, l.user)
           N == <<0>>
<1>1. /\ F \in Seq(Nat) /\ Len(F) = 4
      /\ Z \in Seq(Nat) /\ Len(Z) = 28
      /\ A \in Seq(Nat) /\ D \in Seq(Nat) /\ Q \in Seq(Nat)
  BY LoginParts
<1>2. /\ U \in Seq(Nat) /\ Len(U) = l.user
      /\ \A k \in 1 .. l.user : U[k] = 117
  <2>1. PICK b, n \in Nat : b = 117 /\ n = l.user
    BY LoginFields
  <2>2. /\ L!Bytes(b, n) \in Seq(Nat) /\ Len(L!Bytes(b, n)) = n
        /\ \A k \in 1 .. n : L!Bytes(b, n)[k] = b
    BY LoginBytesLemma, Zenon
  <2> QED BY <2>1, <2>2, Zenon
<1>3. N \in Seq(Nat) /\ Len(N) = 1 /\ N[1] = 0
  OBVIOUS
<1>4. B = Join(Join(F, Z), Join(Join(Join(Join(U, N), A), D), Q))
  BY DEF L!BytesOf, Join, DbPart, PluginPart
<1> HIDE DEF B, A, D, Q, F, Z, U, N
<1>5. PICK r3 : r3 = Join(D, Q)
  OBVIOUS
<1>6. PICK r2 : r2 = Join(A, r3)
  OBVIOUS
<1>7. PICK r1 : r1 = Join(N, r2)
  OBVIOUS
<1>8. PICK r0 : r0 = Join(U, r1)
  OBVIOUS
<1>9. PICK rz : rz = Join(Z, r0)
  OBVIOUS
<1>10. r3 \in Seq(Nat) /\ Len(r3) = Len(D) + Len(Q)
  BY <1>1, <1>5, JoinType, Zenon
<1>11. r2 \in Seq(Nat)
  BY <1>1, <1>6, <1>10, JoinType, Zenon
<1>12. r1 \in Seq(Nat)
  BY <1>3, <1>7, <1>11, JoinType, Zenon
<1>13. r0 \in Seq(Nat)
  BY <1>2, <1>8, <1>12, JoinType, Zenon
<1>14. rz \in Seq(Nat)
  BY <1>1, <1>9, <1>13, JoinType, Zenon
<1>15. Join(Join(Join(Join(U, N), A), D), Q) = r0
  <2>1. Join(U, N) \in Seq(Nat)
    BY <1>2, <1>3, JoinType, Zenon
  <2>2. Join(Join(U, N), A) \in Seq(Nat)
    BY <1>1, <2>1, JoinType, Zenon
  <2>3. Join(Join(Join(Join(U, N), A), D), Q) = Join(Join(Join(U, N), A), r3)
    BY <1>1, <1>5, <2>2, JoinAssociative
  <2>4. Join(Join(Join(U, N), A), r3) = Join(Join(U, N), r2)
    BY <1>1, <1>6, <1>10, <2>1, JoinAssociative
  <2>5. Join(Join(U, N), r2) = Join(U, r1)
    BY <1>2, <1>3, <1>7, <1>11, JoinAssociative
  <2> QED BY <2>3, <2>4, <2>5, <1>8
<1>16. B = Join(F, rz)
  BY <1>1, <1>4, <1>9, <1>13, <1>15, JoinAssociative
<1>17. B \in Seq(Nat)
  BY <1>1, <1>14, <1>16, JoinType, Zenon
<1>18. EndsWith(B, 0, Join(F, rz))
  BY <1>16, <1>17, EndsWithAll, Zenon
<1>19. (\A k \in 1 .. 4 : B[0 + k] = F[k]) /\ EndsWith(B, 4, rz)
  <2>1. (\A k \in 1 .. Len(F) : B[0 + k] = F[k]) /\ EndsWith(B, 0 + Len(F), rz)
    BY <1>1, <1>14, <1>18, Peel
  <2>2. 0 + Len(F) = 4
    BY <1>1
  <2> QED BY <1>1, <2>1, <2>2
<1>20. EndsWith(B, 32, r0)
  <2>1. EndsWith(B, 4 + Len(Z), r0)
    BY <1>1, <1>9, <1>13, <1>19, Peel
  <2>2. 4 + Len(Z) = 32
    BY <1>1
  <2> QED BY <2>1, <2>2
<1>21. /\ \A k \in 1 .. l.user : B[32 + k] = U[k]
       /\ EndsWith(B, 32 + l.user, r1)
  <2>1. PICK m \in Nat : m = 32
    OBVIOUS
  <2>2. EndsWith(B, m, Join(U, r1))
    BY <2>1, <1>8, <1>20
  <2>3. /\ \A k \in 1 .. Len(U) : B[m + k] = U[k]
        /\ EndsWith(B, m + Len(U), r1)
    BY <1>2, <1>12, <2>2, Peel, Zenon
  <2> QED BY <1>2, <2>1, <2>3, Zenon
<1>22. PICK p \in Nat : p = 32 + l.user
  BY LoginFields
<1>23. (\A k \in 1 .. 1 : B[p + k] = N[k]) /\ EndsWith(B, p + 1, r2)
  <2>1. EndsWith(B, p, Join(N, r2))
    BY <1>7, <1>21, <1>22
  <2>2. (\A k \in 1 .. Len(N) : B[p + k] = N[k]) /\ EndsWith(B, p + Len(N), r2)
    BY <1>3, <1>11, <2>1, Peel, Zenon
  <2> QED BY <1>3, <2>2, Zenon
<1>24. PICK q \in Nat : q = 33 + l.user
  BY LoginFields
<1>25. B[q] = 0 /\ EndsWith(B, q, r2)
  <2>1. p + 1 = q /\ 1 \in 1 .. 1
    BY <1>22, <1>24, LoginFields
  <2> QED BY <2>1, <1>3, <1>23
<1>26. /\ \A k \in 1 .. Len(A) : B[q + k] = A[k]
       /\ EndsWith(B, q + Len(A), r3)
  BY <1>1, <1>6, <1>10, <1>25, Peel
<1>27. PICK r \in Nat : r = q + Len(A)
  BY <1>1, LenLemma
<1>28. \A k \in 1 .. Len(D) : B[r + k] = D[k]
  BY <1>1, <1>5, <1>26, <1>27, Peel
<1>29. Len(B) = (r + Len(D)) + Len(Q)
  <2>1. Len(B) = r + Len(r3)
    BY <1>26, <1>27 DEF EndsWith
  <2>2. Len(D) \in Nat /\ Len(Q) \in Nat
    BY <1>1, LenLemma
  <2> QED BY <2>1, <2>2, <1>10
<1>30. \A k \in 1 .. 4 : B[k] = F[k]
  <2> TAKE k \in 1 .. 4
  <2>1. 0 + k = k
    OBVIOUS
  <2> QED BY <2>1, <1>19
<1>31. \A k \in 1 .. l.user : B[32 + k] = 117
  <2> TAKE k \in 1 .. l.user
  <2>1. U[k] = 117
    BY <1>2, Zenon
  <2>2. B[32 + k] = U[k]
    BY <1>21, Zenon
  <2> QED BY <2>1, <2>2, Zenon
<1>32. r = (33 + l.user) + Len(A)
  BY <1>24, <1>27
<1>33. /\ Len(B) = (((33 + l.user) + Len(A)) + Len(D)) + Len(Q)
       /\ \A k \in 1 .. Len(D) : B[((33 + l.user) + Len(A)) + k] = D[k]
  BY <1>28, <1>29, <1>32, Zenon
<1>34. B[33 + l.user] = 0 /\ \A k \in 1 .. Len(A) : B[(33 + l.user) + k] = A[k]
  BY <1>24, <1>25, <1>26, Zenon
<1> QED BY <1>17, <1>30, <1>31, <1>33, <1>34, Zenon DEF B, A, D, Q, F

(* An SSL request.                                                         *)
LEMMA SslLayout ==
    ASSUME NEW l \in L!Login, l.form = "ssl"
    PROVE  L!BytesOf(l) \in Seq(Nat) /\ Len(L!BytesOf(l)) = 32
<1> DEFINE F == L!FlagBytes(L!FlagsOf(l))
           Z == L!Bytes(0, 28)
<1>1. F \in Seq(Nat) /\ Len(F) = 4 /\ Z \in Seq(Nat) /\ Len(Z) = 28
  BY LoginParts
<1>2. L!BytesOf(l) = Join(Join(F, Z), <<>>)
  BY DEF L!BytesOf, Join
<1> HIDE DEF F, Z
<1>3. Join(F, Z) \in Seq(Nat) /\ Len(Join(F, Z)) = 32
  <2>1. Join(F, Z) \in Seq(Nat) /\ Len(Join(F, Z)) = Len(F) + Len(Z)
    BY <1>1, JoinType, Zenon
  <2> QED BY <1>1, <2>1
<1> QED BY <1>2, <1>3, JoinEmpty

-----------------------------------------------------------------------------
(* A sequence of one byte.                                                 *)
LEMMA One ==
    ASSUME NEW n \in Nat
    PROVE  <<n>> \in Seq(Nat) /\ Len(<<n>>) = 1 /\ <<n>>[1] = n
OBVIOUS

(* The flags.                                                              *)
LEMMA FlagsRead ==
    ASSUME NEW l \in L!Login, NEW d,
           \A k \in 1 .. 4 : d[k] = L!JavaByte(L!FlagBytes(L!FlagsOf(l))[k])
    PROVE  L!LittleEndian(d, 0, 4) = L!FlagsOf(l)
<1> DEFINE n == L!FlagsOf(l)
<1>1. n \in {512, 520, 33280, 33288, 2130432, 2130440}
  BY LoginFields
  DEF L!FlagsOf, L!FLAG_CLIENT_CONNECT_WITH_DB, L!FLAG_CLIENT_PROTOCOL_41,
      L!FLAG_CLIENT_SECURE_CONNECTION, L!FLAG_CLIENT_PLUGIN_AUTH_LENENC_CLIENT_DATA
<1> HIDE DEF n
<1>2. \A b \in Nat : b < 256 => L!JavaByte(b) % 256 = b
  BY DEF L!JavaByte
<1>3. PICK b1, b2, b3, b4 \in Nat :
         /\ b1 = n % 256 /\ b2 = (n \div 256) % 256
         /\ b3 = (n \div 65536) % 256 /\ b4 = (n \div 16777216) % 256
  BY <1>1
<1>4. /\ b1 < 256 /\ b2 < 256 /\ b3 < 256 /\ b4 < 256
      /\ n = b1 + 256 * (b2 + 256 * (b3 + 256 * (b4 + 256 * 0)))
  BY <1>1, <1>3
<1>5. L!FlagBytes(n) = <<b1, b2, b3, b4>>
  BY <1>3 DEF L!FlagBytes
<1>6. /\ d[1] = L!JavaByte(b1) /\ d[2] = L!JavaByte(b2)
      /\ d[3] = L!JavaByte(b3) /\ d[4] = L!JavaByte(b4)
  BY <1>5 DEF n
<1>7. /\ L!Unsigned(d, 0) = b1 /\ L!Unsigned(d, 1) = b2
      /\ L!Unsigned(d, 2) = b3 /\ L!Unsigned(d, 3) = b4
  <2>1. /\ L!Unsigned(d, 0) = d[1] % 256 /\ L!Unsigned(d, 1) = d[2] % 256
        /\ L!Unsigned(d, 2) = d[3] % 256 /\ L!Unsigned(d, 3) = d[4] % 256
    BY DEF L!Unsigned, L!At
  <2> QED BY <2>1, <1>2, <1>4, <1>6
<1> QED BY <1>4, <1>7, FourBytes DEF n

(* The flags that the player tests say what the client meant by them.      *)
LEMMA FlagsHave ==
    ASSUME NEW l \in L!Login
    PROVE  /\ L!Has(L!FlagsOf(l), L!FLAG_CLIENT_CONNECT_WITH_DB) <=> l.withDb
           /\ L!Has(L!FlagsOf(l), L!FLAG_CLIENT_PLUGIN_AUTH_LENENC_CLIENT_DATA)
                <=> l.form = "lenenc"
           /\ L!Has(L!FlagsOf(l), L!FLAG_CLIENT_SECURE_CONNECTION) <=> l.form # "nul"
BY LoginFields
DEF L!Has, L!FlagsOf, L!FLAG_CLIENT_CONNECT_WITH_DB, L!FLAG_CLIENT_PROTOCOL_41,
    L!FLAG_CLIENT_SECURE_CONNECTION, L!FLAG_CLIENT_PLUGIN_AUTH_LENENC_CLIENT_DATA

(* The authentication response, in the forms and lengths that both sides   *)
(* read alike.                                                             *)
LEMMA AuthLayout ==
    ASSUME NEW l \in L!Login, l.form # "ssl", L!LengthUnderstood(l)
    PROVE  LET A == L!AuthOf(l)
           IN  /\ Len(A) = l.auth + 1
               /\ l.form = "nul" => /\ A[l.auth + 1] = 0
                                    /\ \A k \in 1 .. l.auth : A[k] = 201
               /\ l.form # "nul" => A[1] = l.auth
<1> DEFINE b == IF l.zeros /\ l.form # "nul" THEN 0 ELSE 201
           R == L!AuthBytes(l)
<1>1. PICK n \in Nat : n = l.auth
  BY LoginFields
<1>2. b \in Nat
  OBVIOUS
<1>3. R = L!Bytes(b, n)
  BY <1>1 DEF L!AuthBytes
<1> HIDE DEF b, R
<1>4. R \in Seq(Nat) /\ Len(R) = n /\ \A k \in 1 .. n : R[k] = b
  BY <1>2, <1>3, LoginBytesLemma, Zenon
<1>5. CASE l.form = "nul"
  <2>1. L!AuthOf(l) = Join(R, <<0>>)
    BY <1>5 DEF L!AuthOf, Join, R
  <2>0. PICK z : z = <<0>>
    OBVIOUS
  <2>2. z = <<0>> /\ z \in Seq(Nat) /\ Len(z) = 1 /\ z[1] = 0
    BY <2>0
  <2>3. Len(Join(R, z)) = n + 1
    <3>1. Len(Join(R, z)) = Len(R) + Len(z)
      BY <1>4, <2>2, JoinType, Zenon
    <3> QED BY <3>1, <1>4, <2>2
  <2>4. \A k \in 1 .. n : Join(R, z)[k] = R[k]
    BY <1>4, <2>2, JoinLeft, Zenon
  <2>5. Join(R, z)[n + 1] = 0
    <3>1. 1 \in 1 .. Len(z)
      BY <2>2
    <3>2. Join(R, z)[Len(R) + 1] = z[1]
      BY <3>1, <1>4, <2>2, JoinRight, Zenon
    <3> QED BY <3>2, <1>4, <2>2
  <2>6. b = 201
    BY <1>5 DEF b
  <2>7. PICK A : A = L!AuthOf(l)
    OBVIOUS
  <2>8. /\ Len(A) = l.auth + 1 /\ A[l.auth + 1] = 0
        /\ \A k \in 1 .. l.auth : A[k] = 201
    BY <1>1, <1>4, <2>1, <2>2, <2>3, <2>4, <2>5, <2>6, <2>7
  <2> QED BY <1>5, <2>7, <2>8
<1>6. CASE l.form # "nul"
  <2>1. L!AuthOf(l) = Join(<<l.auth>>, R)
    <3>1. ~(l.form = "lenenc" /\ l.auth >= 251)
      BY LoginFields DEF L!LengthUnderstood
    <3> QED BY <1>6, <3>1 DEF L!AuthOf, Join, R
  <2>0. PICK z : z = <<n>>
    OBVIOUS
  <2>2. z = <<l.auth>> /\ z \in Seq(Nat) /\ Len(z) = 1 /\ z[1] = n
    BY <1>1, <2>0, One
  <2>3. Len(Join(z, R)) = n + 1
    <3>1. Len(Join(z, R)) = Len(z) + Len(R)
      BY <1>4, <2>2, JoinType, Zenon
    <3> QED BY <3>1, <1>4, <2>2
  <2>4. Join(z, R)[1] = n
    <3>1. 1 \in 1 .. Len(z)
      BY <2>2
    <3> QED BY <3>1, <1>4, <2>2, JoinLeft
  <2>5. Len(L!AuthOf(l)) = l.auth + 1 /\ L!AuthOf(l)[1] = l.auth
    BY <1>1, <2>1, <2>2, <2>3, <2>4
  <2> QED BY <1>6, <2>5
<1> QED BY <1>5, <1>6

(* The bytes that the player has.                                          *)
Stored(l) == L!hexStringToByteArray(L!EncodeToString(L!BytesOf(l)))

(* Where the parts are in the bytes that the player has, which are the     *)
(* client's as signed bytes.                                               *)
LEMMA StoredLayout ==
    ASSUME NEW l \in L!Login, l.form # "ssl", L!LengthUnderstood(l)
    PROVE  LET d == Stored(l)
               q == 33 + l.user
           IN  /\ d \in Seq(Int)
               /\ Len(L!EncodeToString(L!BytesOf(l))) = 2 * Len(d)
               /\ Len(d) = (((q + l.auth) + 1) + Len(DbPart(l))) + Len(PluginPart(l))
               /\ \A k \in 1 .. 4 : d[k] = L!JavaByte(L!FlagBytes(L!FlagsOf(l))[k])
               /\ \A k \in 1 .. l.user : d[32 + k] = 117
               /\ d[q] = 0
               /\ \A k \in 1 .. l.auth + 1 : d[q + k] = L!JavaByte(L!AuthOf(l)[k])
               /\ \A k \in 1 .. Len(DbPart(l)) :
                     d[((q + l.auth) + 1) + k] = L!JavaByte(DbPart(l)[k])
<1> DEFINE d == Stored(l)
           B == L!BytesOf(l)
           A == L!AuthOf(l)
           D == DbPart(l)
           F == L!FlagBytes(L!FlagsOf(l))
<1>1. PICK u, a, m, n \in Nat :
         u = l.user /\ a = l.auth /\ m = Len(D) /\ n = Len(PluginPart(l))
  BY LoginFields, LoginParts, LenLemma
<1>2. Len(A) = a + 1
  BY <1>1, AuthLayout
<1>30. /\ B \in Seq(Nat)
       /\ Len(B) = (((33 + l.user) + Len(A)) + Len(D)) + Len(PluginPart(l))
       /\ \A k \in 1 .. 4 : B[k] = F[k]
       /\ \A k \in 1 .. l.user : B[32 + k] = 117
       /\ B[33 + l.user] = 0
       /\ \A k \in 1 .. Len(A) : B[(33 + l.user) + k] = A[k]
       /\ \A k \in 1 .. Len(D) : B[((33 + l.user) + Len(A)) + k] = D[k]
  BY LoginLayout
<1>4. /\ Len(L!EncodeToString(B)) = 2 * Len(B)
      /\ d \in Seq(Int) /\ Len(d) = Len(B)
      /\ \A i \in 1 .. Len(B) : d[i] = L!JavaByte(B[i])
  <2>1. B \in Seq(Nat)
    BY <1>30
  <2> HIDE DEF B
  <2>2. LET e == L!hexStringToByteArray(L!EncodeToString(B))
        IN  /\ Len(L!EncodeToString(B)) = 2 * Len(B)
            /\ e \in Seq(Int) /\ Len(e) = Len(B)
            /\ \A i \in 1 .. Len(B) : e[i] = L!JavaByte(B[i])
    BY <2>1, HexRoundTrip, Zenon
  <2>3. d = L!hexStringToByteArray(L!EncodeToString(B))
    BY Zenon DEF Stored, B
  <2> QED BY <2>2, <2>3, Zenon
<1> HIDE DEF d, B, A, D, F
<1>3. /\ B \in Seq(Nat)
      /\ Len(B) = (((33 + u) + (a + 1)) + m) + n
      /\ \A k \in 1 .. 4 : B[k] = F[k]
      /\ \A k \in 1 .. u : B[32 + k] = 117
      /\ B[33 + u] = 0
      /\ \A k \in 1 .. a + 1 : B[(33 + u) + k] = A[k]
      /\ \A k \in 1 .. m : B[((33 + u) + (a + 1)) + k] = D[k]
  BY <1>1, <1>2, <1>30, Zenon
<1>5. L!JavaByte(117) = 117 /\ L!JavaByte(0) = 0
  BY DEF L!JavaByte
<1>6. \A k \in 1 .. 4 : d[k] = L!JavaByte(F[k])
  <2> TAKE k \in 1 .. 4
  <2>1. k \in 1 .. Len(B)
    BY <1>3
  <2> QED BY <2>1, <1>3, <1>4
<1>7. \A k \in 1 .. u : d[32 + k] = 117
  <2> TAKE k \in 1 .. u
  <2>1. 32 + k \in 1 .. Len(B)
    BY <1>3
  <2> QED BY <2>1, <1>3, <1>4, <1>5
<1>8. d[33 + u] = 0
  <2>1. 33 + u \in 1 .. Len(B)
    BY <1>3
  <2> QED BY <2>1, <1>3, <1>4, <1>5
<1>9. \A k \in 1 .. a + 1 : d[(33 + u) + k] = L!JavaByte(A[k])
  <2> TAKE k \in 1 .. a + 1
  <2>1. (33 + u) + k \in 1 .. Len(B)
    BY <1>3
  <2> QED BY <2>1, <1>3, <1>4
<1>10. \A k \in 1 .. m : d[(((33 + u) + a) + 1) + k] = L!JavaByte(D[k])
  <2> TAKE k \in 1 .. m
  <2>1. /\ ((33 + u) + (a + 1)) + k \in 1 .. Len(B)
        /\ ((33 + u) + (a + 1)) + k = (((33 + u) + a) + 1) + k
    BY <1>3
  <2> QED BY <2>1, <1>3, <1>4
<1>11. Len(d) = ((((33 + u) + a) + 1) + m) + n
  BY <1>3, <1>4
<1> QED BY <1>1, <1>4, <1>6, <1>7, <1>8, <1>9, <1>10, <1>11, Zenon DEF d, B, A, D, F

(* The player goes on at the first byte of the name.                       *)
LEMMA AuthSkipped ==
    ASSUME NEW l \in L!Login, l.form # "ssl", L!LengthUnderstood(l), l.withDb
    PROVE  L!AfterAuth(Stored(l), L!FlagsOf(l), 33 + l.user) =
             ((33 + l.user) + l.auth) + 1
<1> DEFINE d == Stored(l)
<1>0. /\ 33 + l.user \in Nat /\ l.auth \in Nat
      /\ Len(DbPart(l)) \in Nat /\ Len(PluginPart(l)) \in Nat
  BY LoginFields, LoginParts, LenLemma
<1>1. PICK q, a, m, n \in Nat :
         /\ q = 33 + l.user /\ a = l.auth /\ m = Len(DbPart(l)) /\ n = Len(PluginPart(l))
  BY <1>0, Zenon
<1>2. /\ d \in Seq(Int)
      /\ Len(d) = (((q + a) + 1) + m) + n
      /\ \A k \in 1 .. a + 1 : d[q + k] = L!JavaByte(L!AuthOf(l)[k])
  <2>1. /\ d \in Seq(Int)
        /\ Len(d) = ((((33 + l.user) + l.auth) + 1) + Len(DbPart(l))) + Len(PluginPart(l))
        /\ \A k \in 1 .. l.auth + 1 :
              d[(33 + l.user) + k] = L!JavaByte(L!AuthOf(l)[k])
    BY StoredLayout
  <2> HIDE DEF d
  <2> QED BY <1>1, <2>1, Zenon
<1>3. m >= 1
  <2>1. l.db \in Nat
    BY LoginFields
  <2>0. PICK z : z = <<0>>
    OBVIOUS
  <2>2. z = <<0>> /\ z \in Seq(Nat) /\ Len(z) = 1
    BY <2>0
  <2>3. PICK b, c \in Nat : b = 100 /\ c = l.db
    BY <2>1
  <2>4. L!Bytes(b, c) \in Seq(Nat) /\ Len(L!Bytes(b, c)) = c
    BY LoginBytesLemma, Zenon
  <2>5. PICK v : v = L!Bytes(b, c)
    OBVIOUS
  <2>6. DbPart(l) = Join(v, z)
    BY <2>2, <2>3, <2>5 DEF DbPart, L!DatabaseOf
  <2>7. v \in Seq(Nat) /\ Len(v) = c
    BY <2>4, <2>5
  <2>8. Len(Join(v, z)) = Len(v) + Len(z)
    BY <2>2, <2>7, JoinType, Zenon
  <2> QED BY <1>1, <2>2, <2>6, <2>7, <2>8
<1> HIDE DEF d
<1>4. L!Readable(d, q)
  BY <1>2 DEF L!Readable
<1>5. l.form # "nul" => d[q + 1] = L!JavaByte(a)
  <2>1. 1 \in 1 .. a + 1
    OBVIOUS
  <2> QED BY <2>1, <1>1, <1>2, AuthLayout
<1>6. CASE l.form = "lenenc"
  <2>1. a <= 250
    BY <1>1, <1>6 DEF L!LengthUnderstood
  <2>2. L!Unsigned(d, q) = a
    <3>1. L!JavaByte(a) % 256 = a
      BY <2>1 DEF L!JavaByte
    <3> QED BY <3>1, <1>5, <1>6 DEF L!Unsigned, L!At
  <2>3. L!HasLength(d, q)
    BY <2>1, <2>2 DEF L!HasLength
  <2>4. L!readLengthCodedBinary2(d, q) = 1 + a
    BY <2>1, <2>2 DEF L!readLengthCodedBinary2, L!LengthBytes
  <2>5. L!AfterAuth(d, L!FlagsOf(l), q) = q + L!readLengthCodedBinary2(d, q)
    BY <1>4, <1>6, <2>3, FlagsHave, Zenon DEF L!AfterAuth
  <2>6. q + (1 + a) = (q + a) + 1
    OBVIOUS
  <2> QED BY <1>1, <2>4, <2>5, <2>6 DEF d
<1>7. CASE l.form = "secure"
  <2>1. a <= 127
    BY <1>1, <1>7 DEF L!LengthUnderstood
  <2>2. L!At(d, q) = a
    <3>1. L!JavaByte(a) = a
      BY <2>1 DEF L!JavaByte
    <3> QED BY <3>1, <1>5, <1>7 DEF L!At
  <2>3. L!AfterAuth(d, L!FlagsOf(l), q) = q + 1 + L!At(d, q)
    BY <1>4, <1>7, FlagsHave, Zenon DEF L!AfterAuth
  <2>4. q + 1 + a = (q + a) + 1
    OBVIOUS
  <2> QED BY <1>1, <2>2, <2>3, <2>4 DEF d
<1>8. CASE l.form = "nul"
  <2>1. L!CanReadString(d, q)
    BY <1>2, <1>3 DEF L!CanReadString
  <2>2. L!JavaByte(201) # 0 /\ L!JavaByte(0) = 0
    BY DEF L!JavaByte
  <2>3. \A k \in 1 .. a : d[q + k] # 0
    <3> TAKE k \in 1 .. a
    <3>1. k \in 1 .. a + 1
      OBVIOUS
    <3>2. L!AuthOf(l)[k] = 201
      BY <1>1, <1>8, AuthLayout
    <3> QED BY <3>1, <3>2, <1>2, <2>2
  <2>4. d[(q + a) + 1] = 0
    <3>1. a + 1 \in 1 .. a + 1 /\ (q + a) + 1 = q + (a + 1)
      OBVIOUS
    <3>2. L!AuthOf(l)[a + 1] = 0
      BY <1>1, <1>8, AuthLayout
    <3> QED BY <3>1, <3>2, <1>2, <2>2
  <2>5. Len(d) \in Nat /\ q + a < Len(d)
    BY <1>2
  <2>6. L!EndOfString(d, q) = q + a
    BY <2>3, <2>4, <2>5, EndOfStringIs
  <2>7. L!AfterAuth(d, L!FlagsOf(l), q) = L!EndOfString(d, q) + 1
    BY <1>4, <1>8, <2>1, FlagsHave, Zenon DEF L!AfterAuth
  <2> QED BY <1>1, <2>6, <2>7 DEF d
<1> QED BY <1>6, <1>7, <1>8, LoginFields

(* The name itself.                                                        *)
LEMMA NameRead ==
    ASSUME NEW d \in Seq(Int), NEW m \in Nat, NEW n \in Nat, m + n < Len(d),
           \A k \in 1 .. n : d[m + k] = 100, L!EndOfString(d, m) = m + n
    PROVE  L!readNullTerminatedBytes(d, m) = L!Bytes(100, n)
<1>1. Len(d) \in Nat
  BY LenProperties
<1>4. L!readNullTerminatedBytes(d, m) = SubSeq(d, m + 1, m + n)
  BY DEF L!readNullTerminatedBytes
<1>5. SubSeq(d, m + 1, m + n) = [i \in 1 .. n |-> d[m + i]]
  <2>1. /\ m + 1 \in 1 .. Len(d) + 1 /\ m + n \in m + 1 - 1 .. Len(d)
    BY <1>1
  <2>2. /\ Len(SubSeq(d, m + 1, m + n)) = n
        /\ SubSeq(d, m + 1, m + n) \in Seq(Int)
        /\ \A i \in 1 .. n : SubSeq(d, m + 1, m + n)[i] = d[m + i]
    <3>1. \A i \in m + 1 .. m + n : d[i] \in Int
      BY <1>1, LenProperties
    <3> QED BY <1>1, <2>1, <3>1, SubSeqProperties
  <2> QED BY <2>2
<1>6. [i \in 1 .. n |-> d[m + i]] = [i \in 1 .. n |-> 100]
  OBVIOUS
<1> QED BY <1>4, <1>5, <1>6, Zenon DEF L!Bytes

(* What the player computes of a login that a client sends.                *)
LEMMA LoginRead ==
    ASSUME NEW l \in L!Login, L!LengthUnderstood(l)
    PROVE  L!InitDbStatement(L!EncodeToString(L!BytesOf(l))) =
             IF l.form = "ssl" THEN L!NoDatabase ELSE L!DatabaseOf(l)
<1> DEFINE s == L!EncodeToString(L!BytesOf(l))
           d == Stored(l)
           end == L!EndOfString(d, 4 + 4 + 1 + 23)
           flags == L!LittleEndian(d, 0, 4)
           db == L!AfterAuth(d, flags, end + 1)
<1>1. L!parseInitDatabaseName(d) =
        IF Len(d) <= 5 \/ ~L!CanReadString(d, 4 + 4 + 1 + 23) THEN L!NoDatabase
        ELSE IF ~L!Has(flags, L!FLAG_CLIENT_CONNECT_WITH_DB) THEN L!NoDatabase
        ELSE IF ~L!CanReadString(d, db) THEN L!NoDatabase
        ELSE L!readNullTerminatedBytes(d, db)
  BY DEF L!parseInitDatabaseName
<1>2. L!InitDbStatement(s) = IF Len(s) < 2 THEN L!NoDatabase ELSE L!parseInitDatabaseName(d)
  BY DEF L!InitDbStatement, Stored
<1>3. 4 + 4 + 1 + 23 = 32
  OBVIOUS
<1> HIDE DEF flags, db, end
<1>4. CASE l.form = "ssl"
  <2>1. L!BytesOf(l) \in Seq(Nat) /\ Len(L!BytesOf(l)) = 32
    BY <1>4, SslLayout
  <2>2. Len(d) = 32
    BY <2>1, HexRoundTrip DEF Stored
  <2>3. ~L!CanReadString(d, 4 + 4 + 1 + 23)
    BY <2>2 DEF L!CanReadString
  <2> QED BY <1>1, <1>2, <1>4, <2>3
<1>5. CASE l.form # "ssl"
  <2>0. /\ l.user \in Nat /\ 33 + l.user \in Nat /\ l.auth \in Nat
        /\ Len(DbPart(l)) \in Nat /\ Len(PluginPart(l)) \in Nat
    BY LoginFields, LoginParts, LenLemma
  <2>1. PICK u, q, a, m, n \in Nat :
           /\ u = l.user /\ q = 33 + l.user /\ a = l.auth
           /\ m = Len(DbPart(l)) /\ n = Len(PluginPart(l))
    BY <2>0, Zenon
  <2>20. /\ d \in Seq(Int)
         /\ Len(s) = 2 * Len(d)
         /\ Len(d) = ((((33 + l.user) + l.auth) + 1) + Len(DbPart(l))) + Len(PluginPart(l))
         /\ \A k \in 1 .. 4 : d[k] = L!JavaByte(L!FlagBytes(L!FlagsOf(l))[k])
         /\ \A k \in 1 .. l.user : d[32 + k] = 117
         /\ d[33 + l.user] = 0
         /\ \A k \in 1 .. Len(DbPart(l)) :
               d[(((33 + l.user) + l.auth) + 1) + k] = L!JavaByte(DbPart(l)[k])
    BY <1>5, StoredLayout
  <2> HIDE DEF d, s
  <2>2. /\ d \in Seq(Int)
        /\ Len(s) = 2 * Len(d)
        /\ Len(d) = (((q + a) + 1) + m) + n
        /\ \A k \in 1 .. 4 : d[k] = L!JavaByte(L!FlagBytes(L!FlagsOf(l))[k])
        /\ \A k \in 1 .. u : d[32 + k] = 117
        /\ d[q] = 0
        /\ \A k \in 1 .. m : d[((q + a) + 1) + k] = L!JavaByte(DbPart(l)[k])
    BY <2>1, <2>20, Zenon
  <2>3. q = 33 + u /\ Len(d) > 33 /\ Len(d) \in Nat
    <3>1. q = 33 + u
      BY <2>1
    <3>2. Len(d) = (((q + a) + 1) + m) + n
      BY <2>2
    <3> QED BY <3>1, <3>2
  <2>4. Len(s) >= 2 /\ ~(Len(d) <= 5) /\ L!CanReadString(d, 4 + 4 + 1 + 23)
    BY <2>2, <2>3 DEF L!CanReadString
  <2>5. flags = L!FlagsOf(l)
    BY <2>2, FlagsRead DEF flags
  <2>6. end = 32 + u
    <3>1. /\ 32 + u < Len(d)
          /\ \A k \in 1 .. u : d[32 + k] # 0
          /\ d[(32 + u) + 1] = 0
      <4>1. (32 + u) + 1 = q
        BY <2>3
      <4> QED BY <4>1, <2>2, <2>3
    <3>2. PICK t \in Nat : t = 32
      OBVIOUS
    <3>3. /\ t + u < Len(d)
          /\ \A k \in 1 .. u : d[t + k] # 0
          /\ d[(t + u) + 1] = 0
      BY <3>1, <3>2
    <3>4. L!EndOfString(d, t) = t + u
      BY <2>3, <3>3, EndOfStringIs
    <3> QED BY <1>3, <3>2, <3>4 DEF end
  <2>7. CASE ~l.withDb
    <3>1. L!InitDbStatement(s) = L!NoDatabase
      BY <1>1, <1>2, <2>4, <2>5, <2>7, FlagsHave
    <3> QED BY <1>5, <2>7, <3>1 DEF L!DatabaseOf, s
  <2>8. CASE l.withDb
    <3>1. PICK p \in Nat : p = (q + a) + 1
      OBVIOUS
    <3>2. db = p
      <4>1. end + 1 = q
        BY <2>3, <2>6
      <4>2. L!AfterAuth(d, L!FlagsOf(l), q) = p
        BY <1>5, <2>1, <2>8, <3>1, AuthSkipped DEF d
      <4> QED BY <4>1, <4>2, <2>5 DEF db
    <3>3. PICK c \in Nat : c = l.db
      BY LoginFields
    <3>4. m = c + 1 /\ DbPart(l)[c + 1] = 0 /\ \A k \in 1 .. c : DbPart(l)[k] = 100
      <4>0. PICK z : z = <<0>>
        OBVIOUS
      <4>1. z = <<0>> /\ z \in Seq(Nat) /\ Len(z) = 1 /\ z[1] = 0
        BY <4>0
      <4>2. PICK b \in Nat : b = 100
        OBVIOUS
      <4>3. PICK w : w = L!Bytes(b, c)
        OBVIOUS
      <4>4. w \in Seq(Nat) /\ Len(w) = c /\ \A k \in 1 .. c : w[k] = b
        BY <4>3, LoginBytesLemma, Zenon
      <4>5. DbPart(l) = Join(w, z)
        BY <2>8, <3>3, <4>1, <4>2, <4>3 DEF DbPart, L!DatabaseOf
      <4>6. Len(Join(w, z)) = c + 1
        BY <4>1, <4>4, JoinType
      <4>7. 1 \in 1 .. Len(z)
        BY <4>1
      <4>8. Join(w, z)[Len(w) + 1] = z[1]
        BY <4>1, <4>4, <4>7, JoinRight, Zenon
      <4>9. \A k \in 1 .. c : Join(w, z)[k] = w[k]
        BY <4>1, <4>4, JoinLeft, Zenon
      <4> QED BY <2>1, <4>1, <4>2, <4>4, <4>5, <4>6, <4>8, <4>9
    <3>5. L!DatabaseOf(l) = L!Bytes(100, c)
      BY <2>8, <3>3 DEF L!DatabaseOf
    <3>6. CASE L!CanReadString(d, p)
      <4>1. L!InitDbStatement(s) = L!readNullTerminatedBytes(d, p)
        BY <1>1, <1>2, <2>4, <2>5, <2>8, <3>2, <3>6, FlagsHave
      <4>2. L!JavaByte(100) = 100 /\ L!JavaByte(0) = 0
        BY DEF L!JavaByte
      <4>3. \A k \in 1 .. c : d[p + k] = 100
        <5> TAKE k \in 1 .. c
        <5>1. k \in 1 .. m
          BY <3>4
        <5>2. DbPart(l)[k] = 100
          BY <3>4
        <5>3. d[p + k] = L!JavaByte(DbPart(l)[k])
          BY <5>1, <2>2, <3>1, Zenon
        <5> QED BY <5>2, <5>3, <4>2
      <4>4. d[(p + c) + 1] = 0
        <5>1. c + 1 \in 1 .. m /\ (p + c) + 1 = p + (c + 1)
          BY <3>4
        <5> QED BY <5>1, <2>2, <3>1, <3>4, <4>2
      <4>5. p + c < Len(d)
        BY <2>2, <3>1, <3>4
      <4>6. \A k \in 1 .. c : d[p + k] # 0
        BY <4>3
      <4>7. Len(d) \in Nat /\ d \in Seq(Int)
        BY <2>2, <2>3
      <4>8. L!EndOfString(d, p) = p + c
        BY <4>4, <4>5, <4>6, <4>7, EndOfStringIs
      <4>9. L!readNullTerminatedBytes(d, p) = L!Bytes(100, c)
        BY <4>3, <4>5, <4>7, <4>8, NameRead
      <4> QED BY <1>5, <3>5, <4>1, <4>9 DEF s
    <3>7. CASE ~L!CanReadString(d, p)
      <4>1. L!InitDbStatement(s) = L!NoDatabase
        BY <1>1, <1>2, <2>4, <2>5, <2>8, <3>2, <3>7, FlagsHave
      <4>2. c = 0
        BY <2>2, <3>1, <3>4, <3>7 DEF L!CanReadString
      <4>3. L!Bytes(100, 0) = <<>>
        BY DEF L!Bytes
      <4> QED BY <1>5, <3>5, <4>1, <4>2, <4>3 DEF s, L!NoDatabase
    <3> QED BY <3>6, <3>7
  <2> QED BY <2>7, <2>8, LoginFields
<1> QED BY <1>4, <1>5

-----------------------------------------------------------------------------
(* The filter of statements.                                               *)

(* Every set of natural numbers has a least one.                           *)
LEMMA LeastNumber ==
    ASSUME NEW T \in SUBSET Nat, T # {}
    PROVE  \E x \in T : \A y \in T : x <= y
<1>1. PICK x \in T : \A y \in T : ~ (<<y, x>> \in OpToRel(<, Nat))
  BY WFMin, NatLessThanWellFounded, Zenon
<1>2. \A y \in T : ~(y < x)
  BY <1>1 DEF OpToRel
<1> QED BY <1>2

(* The minimum of a set of numbers is one of them.                         *)
LEMMA MinIs ==
    ASSUME NEW T \in SUBSET Nat, T # {}
    PROVE  S!Min(T) \in T /\ \A y \in T : S!Min(T) <= y
BY LeastNumber DEF S!Min

(* The maximum of a set of positions is one of them.                       *)
LEMMA MaxIs ==
    ASSUME NEW n \in Nat, NEW T \in SUBSET (1 .. n), T # {}
    PROVE  S!Max(T) \in T /\ \A y \in T : y <= S!Max(T)
<1> DEFINE U == {n - i : i \in T}
<1>1. U \in SUBSET Nat /\ U # {}
  <2>1. \A i \in T : n - i \in Nat
    OBVIOUS
  <2>2. \A u \in U : u \in Nat
    BY <2>1
  <2>3. PICK i : i \in T
    OBVIOUS
  <2>4. n - i \in U
    BY <2>3
  <2> QED BY <2>2, <2>4
<1>2. PICK u \in U : \A v \in U : u <= v
  BY <1>1, LeastNumber
<1>3. PICK x \in T : u = n - x
  OBVIOUS
<1>4. \A y \in T : y <= x
  <2> TAKE y \in T
  <2>1. n - y \in U
    OBVIOUS
  <2> QED BY <2>1, <1>2, <1>3
<1>5. \E a \in T : \A b \in T : a >= b
  BY <1>4
<1>6. S!Max(T) \in T /\ \A b \in T : S!Max(T) >= b
  BY <1>5 DEF S!Max
<1> QED BY <1>6

(* The ends of the tokens: the function that the recursion defines exists. *)
LEMMA EndsIs ==
    ASSUME NEW sql \in Seq(S!Token)
    PROVE  LET end == S!Ends(sql)
           IN  /\ end[0] = 0
               /\ \A i \in 1 .. Len(sql) : end[i] = end[i - 1] + sql[i].w
<1>0. PICK m \in Nat : m = Len(sql)
  BY LenProperties
<1> DEFINE Step(n, f) == [i \in 0 .. n |-> IF i = 0 THEN 0 ELSE f[i - 1] + sql[i].w]
           Exists(n) == \E f : f = Step(n, f)
           T == {n \in Nat : ~Exists(n)}
<1>1. T = {}
  <2> SUFFICES ASSUME T # {} PROVE FALSE
    OBVIOUS
  <2>1. PICK x \in T : \A y \in T : x <= y
    BY LeastNumber
  <2>2. x \in Nat /\ ~Exists(x)
    OBVIOUS
  <2>3. CASE x = 0
    <3> DEFINE g == [i \in 0 .. 0 |-> 0]
    <3>1. g = Step(0, g)
      OBVIOUS
    <3> HIDE DEF g, Step
    <3> QED BY <3>1, <2>2, <2>3
  <2>4. CASE x > 0
    <3>1. x - 1 \in Nat /\ x - 1 \notin T
      <4>1. x - 1 \in Nat /\ ~(x <= x - 1)
        BY <2>2, <2>4
      <4> HIDE DEF T
      <4> QED BY <4>1, <2>1
    <3>2. PICK f : f = Step(x - 1, f)
      BY <3>1
    <3> DEFINE g == [i \in 0 .. x |-> IF i = x THEN f[x - 1] + sql[x].w ELSE f[i]]
    <3>3. \A i \in 0 .. x - 1 : f[i] = IF i = 0 THEN 0 ELSE f[i - 1] + sql[i].w
      BY <3>2, Zenon
    <3>4. \A i \in 0 .. x : g[i] = IF i = 0 THEN 0 ELSE g[i - 1] + sql[i].w
      <4> TAKE i \in 0 .. x
      <4>1. CASE i = x
        BY <2>2, <2>4, <4>1
      <4>2. CASE i # x
        <5>1. i \in 0 .. x - 1 /\ (i # 0 => i - 1 \in 0 .. x /\ i - 1 # x)
          BY <2>2, <4>2
        <5> QED BY <3>3, <4>2, <5>1
      <4> QED BY <4>1, <4>2
    <3>5. g = Step(x, g)
      BY <3>4
    <3> HIDE DEF g, Step
    <3> QED BY <3>5, <2>2
  <2> QED BY <2>2, <2>3, <2>4
<1>2. Exists(m)
  BY <1>1
<1> DEFINE e == CHOOSE f : f = Step(m, f)
<1>3. S!Ends(sql) = e
  BY <1>0 DEF S!Ends
<1>4. e = Step(m, e)
  <2> HIDE DEF Step
  <2> QED BY <1>2
<1> HIDE DEF e
<1>5. \A i \in 0 .. m : e[i] = IF i = 0 THEN 0 ELSE e[i - 1] + sql[i].w
  BY <1>4, Zenon
<1>6. e[0] = 0
  <2>1. 0 \in 0 .. m
    OBVIOUS
  <2> QED BY <2>1, <1>5, Zenon
<1>7. \A i \in 1 .. m : e[i] = e[i - 1] + sql[i].w
  BY <1>5
<1> QED BY <1>0, <1>3, <1>6, <1>7

(* No token is empty.                                                      *)
LEMMA TokenWidth ==
    ASSUME NEW sql \in Seq(S!Token)
    PROVE  /\ Len(sql) \in Nat
           /\ \A i \in 1 .. Len(sql) :
                 sql[i] \in S!Token /\ sql[i].w \in Nat /\ sql[i].w >= 1
<1>1. Len(sql) \in Nat /\ \A i \in 1 .. Len(sql) : sql[i] \in S!Token
  BY LenProperties
<1>2. \A t \in S!Token : t.w \in Nat /\ t.w >= 1
  BY DEF S!Token
<1> QED BY <1>1, <1>2, Zenon

(* They are numbers and do not fall.                                       *)
LEMMA EndsRise ==
    ASSUME NEW sql \in Seq(S!Token)
    PROVE  /\ \A i \in 0 .. Len(sql) : S!Ends(sql)[i] \in Nat
           /\ \A i \in 0 .. Len(sql) : S!Ends(sql)[i] <= S!Width(sql)
<1> DEFINE e == S!Ends(sql)
<1>1. PICK m \in Nat : m = Len(sql)
  BY LenProperties
<1>2. e[0] = 0 /\ \A i \in 1 .. m : e[i] = e[i - 1] + sql[i].w
  BY <1>1, EndsIs
<1>3. \A i \in 1 .. m : sql[i].w \in Nat
  BY <1>1, TokenWidth
<1> HIDE DEF e
<1>4. \A i \in 0 .. m : e[i] \in Nat
  <2> DEFINE T == {i \in 0 .. m : e[i] \notin Nat}
  <2> SUFFICES ASSUME T # {} PROVE FALSE
    OBVIOUS
  <2>1. PICK x \in T : \A y \in T : x <= y
    <3>1. T \in SUBSET Nat
      OBVIOUS
    <3> HIDE DEF T
    <3> QED BY <3>1, LeastNumber
  <2>2. x \in 1 .. m
    BY <1>2
  <2>3. x - 1 \in 0 .. m /\ x - 1 \notin T
    BY <2>1, <2>2
  <2>4. e[x - 1] \in Nat
    BY <2>3
  <2>5. e[x] = e[x - 1] + sql[x].w /\ sql[x].w \in Nat
    BY <2>2, <1>2, <1>3
  <2>6. e[x] \in Nat
    BY <2>4, <2>5
  <2> QED BY <2>6
<1>5. \A i \in 0 .. m : e[i] <= e[m]
  <2> DEFINE T == {j \in 0 .. m : ~(e[m - j] <= e[m])}
  <2>1. T = {}
    <3> SUFFICES ASSUME T # {} PROVE FALSE
      OBVIOUS
    <3>1. PICK x \in T : \A y \in T : x <= y
      <4>1. T \in SUBSET Nat
        OBVIOUS
      <4> HIDE DEF T
      <4> QED BY <4>1, LeastNumber
    <3>2. x \in 0 .. m /\ ~(e[m - x] <= e[m])
      OBVIOUS
    <3>3. x # 0
      BY <3>2, <1>4
    <3>4. x - 1 \in 0 .. m /\ x - 1 \notin T
      BY <3>1, <3>2, <3>3
    <3>5. e[m - (x - 1)] <= e[m]
      BY <3>4
    <3>6. /\ m - (x - 1) \in 1 .. m /\ (m - (x - 1)) - 1 = m - x
          /\ m - x \in 0 .. m
      BY <3>2, <3>3
    <3>7. e[m - (x - 1)] = e[m - x] + sql[m - (x - 1)].w
      BY <3>6, <1>2
    <3>8. PICK a, b, c, w \in Nat :
             a = e[m - x] /\ b = e[m - (x - 1)] /\ c = e[m] /\ w = sql[m - (x - 1)].w
      <4>1. m \in 0 .. m /\ m - (x - 1) \in 0 .. m
        BY <3>6
      <4> QED BY <4>1, <3>6, <1>3, <1>4
    <3>9. ~(a <= c) /\ b <= c /\ b = a + w
      BY <3>2, <3>5, <3>7, <3>8, Zenon
    <3> QED BY <3>9
  <2> TAKE i \in 0 .. m
  <2>2. m - i \in 0 .. m /\ m - (m - i) = i
    OBVIOUS
  <2> QED BY <2>1, <2>2
<1> QED BY <1>1, <1>4, <1>5 DEF e, S!Width

(* strings.TrimSpace: the last token of what it leaves is not white.       *)
LEMMA TrimIs ==
    ASSUME NEW sql \in Seq(S!Token)
    PROVE  LET t == S!TrimSpace(sql)
           IN  t \in Seq(S!Token) /\ (Len(t) > 0 => t[Len(t)] \notin S!White)
<1>1. PICK m \in Nat : m = Len(sql)
  BY LenProperties
<1> DEFINE text == {i \in 1 .. m : sql[i] \notin S!White}
           t == S!TrimSpace(sql)
<1>2. t = IF text = {} THEN <<>> ELSE SubSeq(sql, S!Min(text), S!Max(text))
  BY <1>1 DEF S!TrimSpace
<1> HIDE DEF t
<1>3. CASE text = {}
  <2>1. t = <<>>
    BY <1>2, <1>3
  <2>2. t \in Seq(S!Token) /\ ~(Len(t) > 0)
    BY <2>1
  <2> QED BY <2>2 DEF t
<1>4. CASE text # {}
  <2>1. text \in SUBSET Nat /\ text \in SUBSET (1 .. m)
    OBVIOUS
  <2>2. PICK a, b : a = S!Min(text) /\ b = S!Max(text)
    OBVIOUS
  <2>3. a \in text /\ b \in text /\ a <= b
    <3> HIDE DEF text
    <3> QED BY <1>4, <2>1, <2>2, MinIs, MaxIs
  <2>4. a \in 1 .. m /\ b \in 1 .. m /\ sql[b] \notin S!White
    BY <2>3
  <2>5. t = SubSeq(sql, a, b)
    BY <1>2, <1>4, <2>2
  <2>6. \A i \in a .. b : sql[i] \in S!Token
    BY <1>1, <2>4, LenProperties
  <2>7. /\ t \in Seq(S!Token) /\ Len(t) = (b - a) + 1
        /\ \A i \in 1 .. (b - a) + 1 : t[i] = sql[a + i - 1]
    BY <1>1, <2>3, <2>4, <2>5, <2>6, SubSeqProperties
  <2>8. (b - a) + 1 \in 1 .. (b - a) + 1 /\ a + ((b - a) + 1) - 1 = b
    BY <2>3, <2>4
  <2>9. t[(b - a) + 1] = sql[b]
    BY <2>7, <2>8
  <2>10. t[Len(t)] \notin S!White
    BY <2>4, <2>7, <2>9
  <2> QED BY <2>7, <2>10 DEF t
<1> QED BY <1>3, <1>4

(* Behind each end of a comment are two bytes: those of the end of a block *)
(* comment, or of the newline and of a token behind it.                    *)
LEMMA PositionsSafe ==
    ASSUME NEW t \in Seq(S!Token), Len(t) > 0 => t[Len(t)] \notin S!White,
           NEW tok \in {S!Newline, S!Return, S!Close}
    PROVE  \A p \in S!Positions(t, tok) : p \in Nat /\ p + 2 <= S!Width(t)
<1> DEFINE e == S!Ends(t)
           W == S!Width(t)
<1>1. PICK m \in Nat : m = Len(t)
  BY LenProperties
<1>2. \A i \in 1 .. m : e[i] = e[i - 1] + t[i].w
  BY <1>1, EndsIs
<1>3. \A i \in 0 .. m : e[i] \in Nat /\ e[i] <= W
  BY <1>1, EndsRise
<1>4. \A i \in 1 .. m : t[i].w \in Nat /\ t[i].w >= 1
  BY <1>1, TokenWidth
<1>5. S!Positions(t, tok) = {e[i - 1] : i \in {j \in 1 .. m : t[j] = tok}}
  BY <1>1 DEF S!Positions
<1>6. \/ tok.w = 2
      \/ tok.w = 1 /\ tok \in S!White
  BY DEF S!Newline, S!Return, S!Close, S!Tok, S!White
<1>7. W \in Nat
  <2>1. m \in 0 .. m
    OBVIOUS
  <2>2. W = e[m]
    BY <1>1 DEF S!Width
  <2> QED BY <2>1, <2>2, <1>3
<1> HIDE DEF e, W
<1>8. \A i \in 1 .. m : t[i] = tok => e[i - 1] \in Nat /\ e[i - 1] + 2 <= W
  <2> SUFFICES ASSUME NEW i \in 1 .. m, t[i] = tok
               PROVE  e[i - 1] \in Nat /\ e[i - 1] + 2 <= W
    OBVIOUS
  <2>1. i - 1 \in 0 .. m /\ i \in 0 .. m
    OBVIOUS
  <2>2. PICK a, b \in Nat : a = e[i - 1] /\ b = e[i] /\ b <= W
    BY <2>1, <1>3
  <2>3. b = a + tok.w
    BY <1>2, <2>2
  <2>4. CASE tok.w = 2
    BY <1>7, <2>2, <2>3, <2>4
  <2>5. CASE tok.w = 1 /\ tok \in S!White
    <3>1. i # m
      BY <1>1, <2>5
    <3>2. i + 1 \in 1 .. m /\ i + 1 \in 0 .. m /\ (i + 1) - 1 = i
      BY <3>1
    <3>3. e[i + 1] = e[i] + t[i + 1].w /\ e[i + 1] \in Nat /\ e[i + 1] <= W
      BY <3>2, <1>2, <1>3
    <3>4. PICK c, w \in Nat : c = e[i + 1] /\ w = t[i + 1].w /\ w >= 1
      BY <3>2, <3>3, <1>4
    <3>5. c = b + w /\ c <= W /\ b = a + 1
      BY <2>2, <2>3, <2>5, <3>3, <3>4
    <3>6. a + 2 <= W
      BY <1>7, <3>4, <3>5
    <3> QED BY <2>2, <3>6
  <2> QED BY <1>6, <2>4, <2>5
<1> QED BY <1>5, <1>8 DEF W

(* The position that isSelectStatement goes on from is not behind the end  *)
(* of the statement.                                                       *)
LEMMA CommentEndSafe ==
    ASSUME NEW t \in Seq(S!Token), Len(t) > 0 => t[Len(t)] \notin S!White,
           S!EndsOfComment(t) # {}
    PROVE  /\ S!Min(S!EndsOfComment(t)) \in Nat
           /\ S!Min(S!EndsOfComment(t)) + 2 <= S!Width(t)
<1>1. \A p \in S!EndsOfComment(t) : p \in Nat /\ p + 2 <= S!Width(t)
  <2>1. PICK tok \in {S!Newline, S!Return, S!Close} :
           S!EndsOfComment(t) = S!Positions(t, tok)
    BY DEF S!EndsOfComment
  <2> QED BY <2>1, PositionsSafe
<1>2. S!EndsOfComment(t) \in SUBSET Nat
  BY <1>1
<1>3. S!Min(S!EndsOfComment(t)) \in S!EndsOfComment(t)
  BY <1>2, MinIs
<1> QED BY <1>1, <1>3, Zenon

(* What is behind a cut is again a text.                                   *)
LEMMA FromType ==
    ASSUME NEW sql \in Seq(S!Token), NEW n \in Nat
    PROVE  S!From(sql, n) \in Seq(S!Token)
<1>1. PICK m \in Nat : m = Len(sql)
  BY LenProperties
<1> DEFINE e == S!Ends(sql)
           keep == {i \in 1 .. m : e[i] > n}
           cut == S!Min(keep)
           rest == e[cut] - n
           head == IF rest = sql[cut].w THEN sql[cut] ELSE S!Word(rest)
           tail == SubSeq(sql, cut + 1, m)
<1>2. S!From(sql, n) = IF keep = {} THEN <<>> ELSE <<head>> \o tail
  BY <1>1 DEF S!From
<1>3. \A i \in 0 .. m : e[i] \in Nat
  BY <1>1, EndsRise
<1> HIDE DEF e
<1>4. CASE keep = {}
  BY <1>2, <1>4
<1>5. CASE keep # {}
  <2>1. cut \in keep
    <3>1. keep \in SUBSET Nat
      OBVIOUS
    <3> HIDE DEF keep
    <3> QED BY <1>5, <3>1, MinIs
  <2> HIDE DEF cut
  <2>2. cut \in 1 .. m /\ e[cut] > n
    BY <2>1
  <2> HIDE DEF keep
  <2>3. e[cut] \in Nat
    BY <2>2, <1>3
  <2>4. rest \in Nat \ {0}
    BY <2>2, <2>3
  <2> HIDE DEF rest
  <2>5. head \in S!Token
    <3>1. S!Word(rest) \in S!Token
      <4>1. S!Word(rest) = [k |-> "word", w |-> rest]
        BY DEF S!Word, S!Tok
      <4>2. "word" \in S!Kind
        BY DEF S!Kind
      <4> QED BY <2>4, <4>1, <4>2 DEF S!Token
    <3>2. sql[cut] \in S!Token
      BY <1>1, <2>2, LenProperties
    <3> QED BY <3>1, <3>2
  <2> HIDE DEF head
  <2>6. tail \in Seq(S!Token)
    <3>1. cut + 1 \in 1 .. m + 1 /\ \A i \in cut + 1 .. m : sql[i] \in S!Token
      BY <1>1, <2>2, LenProperties
    <3> QED BY <1>1, <2>2, <3>1, SubSeqProperties
  <2> HIDE DEF tail
  <2>7. <<head>> \in Seq(S!Token)
    BY <2>5
  <2>8. <<head>> \o tail \in Seq(S!Token)
    BY <2>6, <2>7, ConcatProperties
  <2> QED BY <1>2, <1>5, <2>8
<1> QED BY <1>4, <1>5

(* One call.                                                               *)
LEMMA ScanSafe ==
    ASSUME NEW sql \in Seq(S!Token), NEW depth
    PROVE  /\ S!Scan(sql, depth).answer # "panic"
           /\ S!Scan(sql, depth).rest \in Seq(S!Token)
<1> DEFINE sql2 == S!TrimSpace(sql)
           end == S!Min(S!EndsOfComment(sql2)) + 2
           out == IF S!TooDeep(depth) \/ S!Width(sql2) < S!HeaderWidth THEN "no"
                  ELSE IF sql2[1] \in S!Selects THEN "yes"
                  ELSE IF ~S!InHeader(sql2, S!Dashes) /\ ~S!InHeader(sql2, S!Open) THEN "no"
                  ELSE IF S!EndsOfComment(sql2) = {} THEN "no"
                  ELSE IF end > S!Width(sql2) THEN "panic"
                  ELSE "again"
<1>1. S!Scan(sql, depth) =
        [answer |-> out, rest |-> IF out = "again" THEN S!From(sql2, end) ELSE <<>>]
  BY DEF S!Scan
<1>2. sql2 \in Seq(S!Token) /\ (Len(sql2) > 0 => sql2[Len(sql2)] \notin S!White)
  BY TrimIs
<1> HIDE DEF sql2
<1>3. S!EndsOfComment(sql2) # {} => end \in Nat /\ end <= S!Width(sql2)
  <2> SUFFICES ASSUME S!EndsOfComment(sql2) # {}
               PROVE  end \in Nat /\ end <= S!Width(sql2)
    OBVIOUS
  <2>1. /\ S!Min(S!EndsOfComment(sql2)) \in Nat
        /\ S!Min(S!EndsOfComment(sql2)) + 2 <= S!Width(sql2)
    BY <1>2, CommentEndSafe
  <2> QED BY <2>1
<1>4. S!Width(sql2) \in Nat
  <2>1. PICK m \in Nat : m = Len(sql2)
    BY <1>2, LenProperties
  <2>2. m \in 0 .. m
    OBVIOUS
  <2>3. S!Ends(sql2)[m] \in Nat
    BY <1>2, <2>1, <2>2, EndsRise
  <2> QED BY <2>1, <2>3 DEF S!Width
<1> HIDE DEF end
<1>5. S!EndsOfComment(sql2) # {} => ~(end > S!Width(sql2))
  BY <1>3, <1>4
<1>6. out # "panic"
  BY <1>5
<1>7. out = "again" => S!EndsOfComment(sql2) # {}
  OBVIOUS
<1> HIDE DEF out
<1>8. (IF out = "again" THEN S!From(sql2, end) ELSE <<>>) \in Seq(S!Token)
  <2>1. <<>> \in Seq(S!Token)
    OBVIOUS
  <2>2. out = "again" => S!From(sql2, end) \in Seq(S!Token)
    BY <1>2, <1>3, <1>7, FromType
  <2> QED BY <2>1, <2>2
<1> QED BY <1>1, <1>6, <1>8

(* The calls by their depth.                                               *)
LEMMA CallsAre ==
    ASSUME NEW sql
    PROVE  \E h : /\ S!isSelectStatement(sql) = h[5].answer
                  /\ h[0] = S!Scan(sql, 0)
                  /\ \A d \in 1 .. 5 :
                        h[d] = IF h[d - 1].answer = "again"
                               THEN S!Scan(h[d - 1].rest, d) ELSE h[d - 1]
<1> DEFINE Again(c, depth) == IF c.answer = "again" THEN S!Scan(c.rest, depth) ELSE c
           Step(f) == [depth \in 0 .. 5 |-> IF depth = 0 THEN S!Scan(sql, 0)
                                            ELSE Again(f[depth - 1], depth)]
           c0 == S!Scan(sql, 0)
           c1 == Again(c0, 1)
           c2 == Again(c1, 2)
           c3 == Again(c2, 3)
           c4 == Again(c3, 4)
           c5 == Again(c4, 5)
           g == [i \in 0 .. 5 |-> CASE i = 0 -> c0 [] i = 1 -> c1 [] i = 2 -> c2
                                    [] i = 3 -> c3 [] i = 4 -> c4 [] OTHER -> c5]
           h == CHOOSE f : f = Step(f)
<1>1. S!isSelectStatement(sql) = h[5].answer
  BY DEF S!isSelectStatement
<1>2. g = Step(g)
  <2> HIDE DEF Again, c0, c1, c2, c3, c4, c5
  <2>1. /\ c1 = Again(c0, 1) /\ c2 = Again(c1, 2) /\ c3 = Again(c2, 3)
        /\ c4 = Again(c3, 4) /\ c5 = Again(c4, 5) /\ c0 = S!Scan(sql, 0)
    BY DEF c0, c1, c2, c3, c4, c5
  <2> QED BY <2>1
<1>3. h = Step(h)
  <2> HIDE DEF g, Step
  <2> QED BY <1>2
<1> HIDE DEF h
<1>4. h[0] = S!Scan(sql, 0) /\ \A d \in 1 .. 5 : h[d] = Again(h[d - 1], d)
  <2> HIDE DEF Again
  <2> QED BY <1>3
<1> QED BY <1>1, <1>4

(* All calls.                                                              *)
LEMMA FilterSafe ==
    ASSUME NEW sql \in Seq(S!Token)
    PROVE  S!isSelectStatement(sql) # "panic"
<1> DEFINE Again(c, depth) == IF c.answer = "again" THEN S!Scan(c.rest, depth) ELSE c
           Safe(c) == c.answer # "panic" /\ c.rest \in Seq(S!Token)
<1>1. PICK h : /\ S!isSelectStatement(sql) = h[5].answer
               /\ h[0] = S!Scan(sql, 0)
               /\ \A d \in 1 .. 5 : h[d] = Again(h[d - 1], d)
  BY CallsAre
<1>2. \A c : \A depth : Safe(c) => Safe(Again(c, depth))
  BY ScanSafe
<1> HIDE DEF Again, Safe
<1>3. /\ h[1] = Again(h[0], 1) /\ h[2] = Again(h[1], 2) /\ h[3] = Again(h[2], 3)
      /\ h[4] = Again(h[3], 4) /\ h[5] = Again(h[4], 5)
  BY <1>1
<1>4. Safe(h[0])
  BY <1>1, ScanSafe DEF Safe
<1>5. Safe(h[5])
  BY <1>2, <1>3, <1>4, Zenon
<1> QED BY <1>1, <1>5 DEF Safe

(* The comments of a statement, one behind the other: f[i] is the text of  *)
(* the first i of them.                                                    *)
LEMMA FlattenIs ==
    ASSUME NEW cs \in Seq(Seq(S!Token))
    PROVE  \E f : /\ f[0] = <<>> /\ f[Len(cs)] = S!FlattenSeq(cs)
                  /\ \A i \in 0 .. Len(cs) : f[i] \in Seq(S!Token)
                  /\ \A i \in 1 .. Len(cs) : f[i] = f[i - 1] \o cs[i]
<1>1. \A s, t \in Seq(S!Token) : s \o t \in Seq(S!Token)
  BY ConcatProperties
<1>2. PICK m \in Nat : m = Len(cs)
  BY LenProperties
<1>3. \A i \in 1 .. m : cs[i] \in Seq(S!Token)
  BY <1>2, LenProperties
<1> DEFINE Step(n, f) == [i \in 1 .. n |-> IF i = 1 THEN cs[i] ELSE f[i - 1] \o cs[i]]
           Exists(n) == \E f : f = Step(n, f)
           T == {n \in Nat : ~Exists(n)}
<1>4. T = {}
  <2> SUFFICES ASSUME T # {} PROVE FALSE
    OBVIOUS
  <2>1. PICK x \in T : \A y \in T : x <= y
    BY LeastNumber
  <2>2. x \in Nat /\ ~Exists(x)
    OBVIOUS
  <2>3. CASE x = 0
    <3> DEFINE g == [i \in 1 .. 0 |-> 0]
    <3>1. g = Step(0, g)
      OBVIOUS
    <3> HIDE DEF g, Step
    <3> QED BY <3>1, <2>2, <2>3
  <2>4. CASE x > 0
    <3>1. x - 1 \in Nat /\ x - 1 \notin T
      <4>1. x - 1 \in Nat /\ ~(x <= x - 1)
        BY <2>2, <2>4
      <4> HIDE DEF T
      <4> QED BY <4>1, <2>1
    <3>2. PICK f : f = Step(x - 1, f)
      BY <3>1
    <3> DEFINE g == [i \in 1 .. x |-> IF i # x THEN f[i]
                                      ELSE IF x = 1 THEN cs[x] ELSE f[x - 1] \o cs[x]]
    <3>3. \A i \in 1 .. x - 1 : f[i] = IF i = 1 THEN cs[i] ELSE f[i - 1] \o cs[i]
      BY <3>2, Zenon
    <3>4. \A i \in 1 .. x : g[i] = IF i = 1 THEN cs[i] ELSE g[i - 1] \o cs[i]
      <4> TAKE i \in 1 .. x
      <4>1. CASE i = x
        <5>1. x # 1 => x - 1 \in 1 .. x /\ x - 1 # x
          BY <2>2, <2>4
        <5> QED BY <4>1, <5>1
      <4>2. CASE i # x
        <5>1. i \in 1 .. x - 1 /\ (i # 1 => i - 1 \in 1 .. x /\ i - 1 # x)
          BY <2>2, <4>2
        <5> QED BY <3>3, <4>2, <5>1
      <4> QED BY <4>1, <4>2
    <3>5. g = Step(x, g)
      BY <3>4
    <3> HIDE DEF g, Step
    <3> QED BY <3>5, <2>2
  <2> QED BY <2>2, <2>3, <2>4
<1>5. Exists(m)
  BY <1>4
<1> DEFINE e == CHOOSE f : f = Step(m, f)
<1>6. S!FlattenSeq(cs) = IF m = 0 THEN cs ELSE e[m]
  BY <1>2 DEF S!FlattenSeq
<1>7. e = Step(m, e)
  <2> HIDE DEF Step
  <2> QED BY <1>5
<1> HIDE DEF e
<1>8. \A i \in 1 .. m : e[i] = IF i = 1 THEN cs[i] ELSE e[i - 1] \o cs[i]
  BY <1>7, Zenon
<1> DEFINE f == [i \in 0 .. m |-> IF i = 0 THEN <<>> ELSE e[i]]
<1>9. f[0] = <<>> /\ \A i \in 1 .. m : f[i] = f[i - 1] \o cs[i]
  <2>1. f[0] = <<>>
    OBVIOUS
  <2>2. ASSUME NEW i \in 1 .. m PROVE f[i] = f[i - 1] \o cs[i]
    <3>1. CASE i = 1
      <4>1. f[1] = cs[1] /\ f[1 - 1] = <<>>
        BY <1>8, <3>1
      <4>2. <<>> \o cs[1] = cs[1]
        BY <1>3, <3>1, ConcatEmptySeq
      <4> QED BY <3>1, <4>1, <4>2
    <3>2. CASE i # 1
      <4>1. f[i] = e[i] /\ f[i - 1] = e[i - 1]
        BY <3>2
      <4> HIDE DEF f
      <4> QED BY <1>8, <3>2, <4>1
    <3> QED BY <3>1, <3>2
  <2> HIDE DEF f
  <2> QED BY <2>1, <2>2
<1>10. f[m] = S!FlattenSeq(cs)
  <2>1. CASE m = 0
    <3>1. cs = <<>>
      BY <1>2, <2>1, EmptySeq
    <3> QED BY <1>6, <2>1, <3>1
  <2>2. CASE m # 0
    BY <1>6, <2>2
  <2> QED BY <2>1, <2>2
<1> HIDE DEF f
<1>11. \A i \in 0 .. m : f[i] \in Seq(S!Token)
  <2> DEFINE U == {i \in 0 .. m : f[i] \notin Seq(S!Token)}
  <2> SUFFICES ASSUME U # {} PROVE FALSE
    OBVIOUS
  <2>1. PICK x \in U : \A y \in U : x <= y
    <3>1. U \in SUBSET Nat
      OBVIOUS
    <3> HIDE DEF U
    <3> QED BY <3>1, LeastNumber
  <2>2. x \in 0 .. m /\ f[x] \notin Seq(S!Token)
    OBVIOUS
  <2>3. x # 0
    <3>1. <<>> \in Seq(S!Token)
      OBVIOUS
    <3> QED BY <1>9, <2>2, <3>1
  <2>4. x \in 1 .. m /\ x - 1 \in 0 .. m /\ x - 1 \notin U
    BY <2>1, <2>2, <2>3
  <2>5. f[x - 1] \in Seq(S!Token)
    BY <2>4
  <2> QED BY <1>1, <1>3, <1>9, <2>2, <2>4, <2>5
<1> QED BY <1>2, <1>9, <1>10, <1>11

(* The parts of a statement.                                               *)
LEMMA StatementType ==
    ASSUME NEW st \in S!Statement
    PROVE  /\ st.comments \in Seq(S!Comment)
           /\ st.comments \in Seq(Seq(S!Token))
           /\ st.verb \in S!Token /\ st.tail \in Seq(S!Token)
           /\ st.verb \notin S!White /\ st.verb.w \in Nat /\ st.verb.w >= 2
<1>1. /\ st.comments \in Seq(S!Comment) /\ st.verb \in S!Verb
      /\ st.tail \in Seq(S!Token)
  BY DEF S!Statement
<1>4. /\ st.verb \in S!Token /\ st.verb \notin S!White
      /\ st.verb.w \in Nat /\ st.verb.w >= 2
  BY <1>1 DEF S!Verb, S!Token
<1>2. S!Comment \subseteq Seq(S!Token)
  BY DEF S!Comment
<1>3. \A i \in 1 .. Len(st.comments) : st.comments[i] \in Seq(S!Token)
  BY <1>1, <1>2
<1> QED BY <1>1, <1>3, <1>4

(* The text of a statement is a sequence of tokens.                        *)
LEMMA TextType ==
    ASSUME NEW st \in S!Statement
    PROVE  S!TextOf(st) \in Seq(S!Token)
<1>1. /\ st.comments \in Seq(Seq(S!Token)) /\ st.verb \in S!Token
      /\ st.tail \in Seq(S!Token)
  BY StatementType
<1>2. \A s, t \in Seq(S!Token) : s \o t \in Seq(S!Token)
  BY ConcatProperties
<1>3. PICK f : /\ f[Len(st.comments)] = S!FlattenSeq(st.comments)
               /\ \A i \in 0 .. Len(st.comments) : f[i] \in Seq(S!Token)
  BY <1>1, FlattenIs
<1>4. Len(st.comments) \in 0 .. Len(st.comments)
  BY <1>1
<1>5. S!FlattenSeq(st.comments) \in Seq(S!Token)
  BY <1>3, <1>4
<1>6. <<st.verb>> \in Seq(S!Token)
  BY <1>1
<1> QED BY <1>1, <1>2, <1>5, <1>6, Zenon DEF S!TextOf

-----------------------------------------------------------------------------
(* The statements that must pass.                                          *)

(* A set of numbers that holds 0 and with each the next one, up to m.      *)
LEMMA UpTo ==
    ASSUME NEW m \in Nat, NEW G, 0 \in G,
           \A n \in 0 .. m - 1 : n \in G => n + 1 \in G
    PROVE  \A n \in 0 .. m : n \in G
<1> DEFINE T == {n \in Nat : n <= m /\ n \notin G}
<1>1. T = {}
  <2> SUFFICES ASSUME T # {} PROVE FALSE
    OBVIOUS
  <2>1. PICK x \in T : \A y \in T : x <= y
    BY LeastNumber
  <2>2. x \in Nat /\ x <= m /\ x \notin G /\ x # 0
    OBVIOUS
  <2>3. /\ x - 1 \in 0 .. m - 1 /\ x - 1 \in Nat /\ x - 1 <= m
        /\ ~(x <= x - 1) /\ (x - 1) + 1 = x
    BY <2>2
  <2>4. x - 1 \in G
    BY <2>1, <2>3
  <2> QED BY <2>2, <2>3, <2>4
<1> QED BY <1>1

(* The ends of the tokens grow from token to token.                        *)
LEMMA EndsGrow ==
    ASSUME NEW sql \in Seq(S!Token)
    PROVE  \A i, j \in 0 .. Len(sql) : i < j => S!Ends(sql)[i] < S!Ends(sql)[j]
<1> DEFINE e == S!Ends(sql)
<1>1. PICK m \in Nat : m = Len(sql)
  BY LenProperties
<1>2. \A i \in 1 .. m : e[i] = e[i - 1] + sql[i].w
  BY <1>1, EndsIs
<1>3. \A i \in 0 .. m : e[i] \in Nat
  BY <1>1, EndsRise
<1>4. \A i \in 1 .. m : sql[i].w \in Nat /\ sql[i].w >= 1
  BY <1>1, TokenWidth
<1> HIDE DEF e
<1>5. \A j \in 1 .. m : e[j - 1] < e[j]
  <2> TAKE j \in 1 .. m
  <2>1. j - 1 \in 0 .. m
    OBVIOUS
  <2>2. PICK a, b \in Nat : a = e[j - 1] /\ b = sql[j].w /\ b >= 1
    BY <1>3, <1>4, <2>1
  <2>3. e[j] = a + b
    BY <1>2, <2>2
  <2> QED BY <2>2, <2>3
<1> DEFINE G == {j \in 0 .. m : \A i \in 0 .. m : i < j => e[i] < e[j]}
<1>6. 0 \in G
  OBVIOUS
<1>7. ASSUME NEW j \in 0 .. m - 1, j \in G PROVE j + 1 \in G
  <2>1. /\ j + 1 \in 1 .. m /\ j + 1 \in 0 .. m /\ (j + 1) - 1 = j /\ j \in 0 .. m
        /\ e[j] \in Nat /\ e[j + 1] \in Nat
    BY <1>3
  <2>2. e[j] < e[j + 1]
    BY <1>5, <2>1
  <2>3. ASSUME NEW i \in 0 .. m, i < j + 1 PROVE e[i] < e[j + 1]
    <3>1. i = j \/ i < j
      BY <2>3
    <3>2. i < j => e[i] < e[j] /\ e[i] \in Nat
      BY <1>3, <1>7
    <3> QED BY <2>1, <2>2, <3>1, <3>2
  <2> QED BY <2>1, <2>3
<1>8. \A j \in 0 .. m : j \in G
  <2> HIDE DEF G
  <2> QED BY <1>6, <1>7, UpTo
<1> QED BY <1>1, <1>8 DEF e

(* They depend on the tokens in front only.                                *)
LEMMA EndsOfPrefix ==
    ASSUME NEW c \in Seq(S!Token), NEW sql \in Seq(S!Token), Len(c) <= Len(sql),
           \A i \in 1 .. Len(c) : sql[i] = c[i]
    PROVE  \A i \in 0 .. Len(c) : S!Ends(sql)[i] = S!Ends(c)[i]
<1> DEFINE e == S!Ends(sql)
           f == S!Ends(c)
           G == {i \in 0 .. Len(c) : e[i] = f[i]}
<1>1. PICK m \in Nat : m = Len(c)
  BY LenProperties
<1>2. f[0] = 0 /\ \A i \in 1 .. m : f[i] = f[i - 1] + c[i].w
  BY <1>1, EndsIs
<1>3. e[0] = 0 /\ \A i \in 1 .. m : e[i] = e[i - 1] + sql[i].w
  <2>1. \A i \in 1 .. m : i \in 1 .. Len(sql)
    BY <1>1
  <2> QED BY <2>1, EndsIs
<1> HIDE DEF e, f
<1>4. 0 \in G
  BY <1>1, <1>2, <1>3
<1>5. ASSUME NEW i \in 0 .. m - 1, i \in G PROVE i + 1 \in G
  <2>1. i + 1 \in 1 .. m /\ i + 1 \in 0 .. m /\ (i + 1) - 1 = i
    OBVIOUS
  <2>2. e[i + 1] = f[i + 1]
    BY <1>1, <1>2, <1>3, <1>5, <2>1
  <2> QED BY <1>1, <2>1, <2>2
<1>6. \A i \in 0 .. m : i \in G
  <2> HIDE DEF G
  <2> QED BY <1>4, <1>5, UpTo
<1> QED BY <1>1, <1>6 DEF e, f

(* A text is at least as wide as what is left when it loses tokens in      *)
(* front.                                                                  *)
LEMMA WidthOfSuffix ==
    ASSUME NEW a \in Seq(S!Token), NEW b \in Seq(S!Token), NEW d \in Nat,
           Len(a) = d + Len(b), \A i \in 1 .. Len(b) : a[d + i] = b[i]
    PROVE  S!Width(b) <= S!Width(a) /\ S!Width(b) \in Nat /\ S!Width(a) \in Nat
<1> DEFINE e == S!Ends(a)
           f == S!Ends(b)
<1>1. PICK m \in Nat : m = Len(b)
  BY LenProperties
<1> DEFINE G == {i \in 0 .. m : f[i] <= e[d + i]}
<1>2. f[0] = 0 /\ \A i \in 1 .. m : f[i] = f[i - 1] + b[i].w
  BY <1>1, EndsIs
<1>3. \A i \in 1 .. m : d + i \in 1 .. Len(a) /\ d + i - 1 = d + (i - 1)
  BY <1>1
<1>4. \A i \in 1 .. m : e[d + i] = e[d + (i - 1)] + b[i].w
  BY <1>1, <1>3, EndsIs
<1>5. /\ \A i \in 0 .. m : f[i] \in Nat
      /\ \A i \in 0 .. m : d + i \in 0 .. Len(a)
  BY <1>1, EndsRise
<1>6. \A i \in 0 .. m : e[d + i] \in Nat
  BY <1>5, EndsRise
<1>7. \A i \in 1 .. m : b[i].w \in Nat
  BY <1>1, TokenWidth
<1> HIDE DEF e, f
<1>8. 0 \in G
  <2>1. 0 \in 0 .. m
    OBVIOUS
  <2>2. e[d + 0] \in Nat
    BY <1>6, <2>1
  <2>3. f[0] <= e[d + 0]
    BY <1>2, <2>2
  <2> QED BY <2>1, <2>3
<1>9. ASSUME NEW i \in 0 .. m - 1, i \in G PROVE i + 1 \in G
  <2>1. i + 1 \in 1 .. m /\ i + 1 \in 0 .. m /\ (i + 1) - 1 = i /\ i \in 0 .. m
    OBVIOUS
  <2>2. PICK x, y, w \in Nat : x = f[i] /\ y = e[d + i] /\ w = b[i + 1].w
    BY <1>5, <1>6, <1>7, <2>1
  <2>3. f[i + 1] = x + w /\ e[d + (i + 1)] = y + w
    BY <1>2, <1>4, <2>1, <2>2
  <2>4. x <= y
    BY <1>9, <2>2
  <2>5. x + w <= y + w
    BY <2>4
  <2> QED BY <2>1, <2>3, <2>5
<1>10. m \in 0 .. m
  OBVIOUS
<1>11. m \in G
  <2> HIDE DEF G
  <2> QED BY <1>8, <1>9, <1>10, UpTo
<1>12. S!Width(b) = f[m] /\ S!Width(a) = e[d + m]
  BY <1>1 DEF S!Width, e, f
<1> QED BY <1>5, <1>6, <1>10, <1>11, <1>12

(* The elements of a concatenation.                                        *)
LEMMA ConcatIs ==
    ASSUME NEW p \in Seq(S!Token), NEW q \in Seq(S!Token)
    PROVE  /\ p \o q \in Seq(S!Token) /\ Len(p \o q) = Len(p) + Len(q)
           /\ Len(p) \in Nat /\ Len(q) \in Nat
           /\ \A i \in 1 .. Len(p) : (p \o q)[i] = p[i]
           /\ \A i \in 1 .. Len(q) : (p \o q)[Len(p) + i] = q[i]
  OBVIOUS

(* A cut behind a token leaves the tokens from the next one on.            *)
LEMMA FromEnd ==
    ASSUME NEW sql \in Seq(S!Token), NEW h \in Nat, h < Len(sql)
    PROVE  S!From(sql, S!Ends(sql)[h]) = SubSeq(sql, h + 1, Len(sql))
<1>1. PICK m \in Nat : m = Len(sql)
  BY LenProperties
<1> DEFINE e == S!Ends(sql)
           n == e[h]
           keep == {i \in 1 .. m : e[i] > n}
           cut == S!Min(keep)
           rest == e[cut] - n
           head == IF rest = sql[cut].w THEN sql[cut] ELSE S!Word(rest)
<1>2. S!From(sql, n) = IF keep = {} THEN <<>> ELSE <<head>> \o SubSeq(sql, cut + 1, m)
  BY <1>1 DEF S!From
<1>3. h \in 0 .. m /\ h + 1 \in 1 .. m /\ h + 1 \in 0 .. m /\ (h + 1) - 1 = h
  BY <1>1
<1>4. \A i \in 0 .. m : e[i] \in Nat
  BY <1>1, EndsRise
<1>5. \A i, j \in 0 .. m : i < j => e[i] < e[j]
  BY <1>1, EndsGrow
<1>6. e[h + 1] = e[h] + sql[h + 1].w
  BY <1>1, <1>3, EndsIs
<1>7. sql[h + 1].w \in Nat /\ sql[h + 1] \in S!Token
  BY <1>1, <1>3, TokenWidth
<1> HIDE DEF e
<1>8. h + 1 \in keep
  BY <1>3, <1>4, <1>5
<1>9. \A i \in keep : h + 1 <= i
  <2> SUFFICES ASSUME NEW i \in 1 .. m, e[i] > e[h], ~(h + 1 <= i) PROVE FALSE
    OBVIOUS
  <2>1. i \in 0 .. m /\ (i = h \/ i < h)
    OBVIOUS
  <2>2. e[i] = e[h] \/ e[i] < e[h]
    BY <1>3, <1>5, <2>1
  <2> QED BY <1>3, <1>4, <2>1, <2>2
<1>10. cut = h + 1
  <2>1. keep \in SUBSET Nat /\ keep # {}
    BY <1>8
  <2>2. cut \in keep /\ \A y \in keep : cut <= y
    <3> HIDE DEF keep
    <3> QED BY <2>1, MinIs
  <2>3. cut \in Nat
    BY <2>1, <2>2
  <2> HIDE DEF keep, cut
  <2> QED BY <1>8, <1>9, <2>2, <2>3
<1>11. rest = sql[h + 1].w
  <2>1. PICK x, w \in Nat : x = e[h] /\ w = sql[h + 1].w
    BY <1>3, <1>4, <1>7
  <2> QED BY <1>6, <1>10, <2>1
<1>12. head = sql[h + 1]
  <2> HIDE DEF rest, cut
  <2> QED BY <1>10, <1>11
<1>13. S!From(sql, n) = <<sql[h + 1]>> \o SubSeq(sql, h + 2, m)
  <2>1. (h + 1) + 1 = h + 2
    OBVIOUS
  <2>2. keep # {}
    BY <1>8
  <2> HIDE DEF head, cut, keep
  <2> QED BY <1>2, <1>10, <1>12, <2>1, <2>2
<1>14. <<sql[h + 1]>> \o SubSeq(sql, h + 2, m) = SubSeq(sql, h + 1, m)
  <2> DEFINE p == <<sql[h + 1]>>
             q == SubSeq(sql, h + 2, m)
             r == SubSeq(sql, h + 1, m)
  <2>1. /\ q \in Seq(S!Token) /\ Len(q) = m - (h + 1)
        /\ \A i \in 1 .. m - (h + 1) : q[i] = sql[h + 1 + i]
    BY <1>1, <1>3
  <2>2. /\ r \in Seq(S!Token) /\ Len(r) = m - h
        /\ \A i \in 1 .. m - h : r[i] = sql[h + i]
    BY <1>1, <1>3
  <2>3. p \in Seq(S!Token) /\ Len(p) = 1 /\ p[1] = sql[h + 1]
    BY <1>7
  <2> HIDE DEF p, q, r
  <2>4. /\ p \o q \in Seq(S!Token) /\ Len(p \o q) = 1 + Len(q)
        /\ (p \o q)[1] = p[1]
        /\ \A i \in 1 .. Len(q) : (p \o q)[1 + i] = q[i]
    <3>1. 1 \in 1 .. Len(p)
      BY <2>3
    <3>2. Len(p) = 1
      BY <2>3
    <3>3. /\ p \o q \in Seq(S!Token) /\ Len(p \o q) = Len(p) + Len(q)
          /\ Len(p) \in Nat /\ Len(q) \in Nat
          /\ \A i \in 1 .. Len(p) : (p \o q)[i] = p[i]
          /\ \A i \in 1 .. Len(q) : (p \o q)[Len(p) + i] = q[i]
      <4>1. p \in Seq(S!Token) /\ q \in Seq(S!Token)
        BY <2>1, <2>3
      <4> QED BY ONLY <4>1, ConcatIs, Zenon
    <3> QED BY <3>1, <3>2, <3>3
  <2>5. \A i \in 1 .. m - h : (p \o q)[i] = r[i]
    <3> TAKE i \in 1 .. m - h
    <3>1. r[i] = sql[h + i]
      BY <2>2
    <3>2. CASE i = 1
      BY <2>3, <2>4, <3>1, <3>2
    <3>3. CASE i # 1
      <4>1. i - 1 \in 1 .. m - (h + 1) /\ 1 + (i - 1) = i /\ h + 1 + (i - 1) = h + i
        BY <1>3, <3>3
      <4>2. (p \o q)[i] = q[i - 1] /\ q[i - 1] = sql[h + i]
        BY <2>1, <2>4, <4>1
      <4> QED BY <3>1, <4>2
    <3> QED BY <3>2, <3>3
  <2>6. p \o q = r
    <3>1. Len(p \o q) = m - h
      BY <1>3, <2>1, <2>4
    <3> QED BY <2>2, <2>4, <2>5, <3>1, SeqEqual
  <2> QED BY <2>6 DEF p, q, r
<1> QED BY <1>1, <1>13, <1>14 DEF e

(* Where the first of the tokens tok is found.                             *)
LEMMA FirstPosition ==
    ASSUME NEW sql \in Seq(S!Token), NEW tok, NEW j \in 1 .. Len(sql),
           sql[j] = tok, \A i \in 1 .. j - 1 : sql[i] # tok
    PROVE  /\ S!Positions(sql, tok) # {}
           /\ S!Min(S!Positions(sql, tok)) = S!Ends(sql)[j - 1]
<1> DEFINE e == S!Ends(sql)
           Q == S!Positions(sql, tok)
<1>1. PICK m \in Nat : m = Len(sql)
  BY LenProperties
<1>2. Q = {e[i - 1] : i \in {k \in 1 .. m : sql[k] = tok}}
  BY <1>1 DEF S!Positions
<1>3. \A i \in 0 .. m : e[i] \in Nat
  BY <1>1, EndsRise
<1>4. \A i, k \in 0 .. m : i < k => e[i] < e[k]
  BY <1>1, EndsGrow
<1> HIDE DEF e, Q
<1>5. j \in 1 .. m /\ j - 1 \in 0 .. m
  BY <1>1
<1>6. e[j - 1] \in Q
  BY <1>2, <1>5
<1>7. ASSUME NEW y \in Q PROVE y \in Nat /\ e[j - 1] <= y
  <2>1. PICK i \in 1 .. m : sql[i] = tok /\ y = e[i - 1]
    BY <1>2
  <2>2. ~(i \in 1 .. j - 1)
    BY <2>1
  <2>3. i - 1 \in 0 .. m /\ (i - 1 = j - 1 \/ j - 1 < i - 1)
    BY <1>5, <2>2
  <2>4. e[j - 1] = e[i - 1] \/ e[j - 1] < e[i - 1]
    BY <1>4, <1>5, <2>3
  <2>5. PICK a, b \in Nat : a = e[j - 1] /\ b = e[i - 1]
    BY <1>3, <1>5, <2>3
  <2> QED BY <2>1, <2>4, <2>5
<1>8. Q \in SUBSET Nat /\ Q # {}
  BY <1>6, <1>7
<1>9. S!Min(Q) \in Q /\ \A y \in Q : S!Min(Q) <= y
  BY <1>8, MinIs
<1>10. PICK a, b \in Nat : a = S!Min(Q) /\ b = e[j - 1]
  BY <1>6, <1>8, <1>9
<1>11. a <= b /\ b <= a
  BY <1>6, <1>7, <1>9, <1>10
<1> QED BY <1>8, <1>10, <1>11 DEF e, Q

(* A part of a sequence.                                                   *)
LEMMA SubSeqIs ==
    ASSUME NEW A, NEW t \in Seq(A), NEW a \in Nat \ {0}, NEW b \in Nat,
           a <= b + 1, b <= Len(t)
    PROVE  /\ SubSeq(t, a, b) \in Seq(A) /\ Len(SubSeq(t, a, b)) = (b - a) + 1
           /\ \A i \in 1 .. (b - a) + 1 : SubSeq(t, a, b)[i] = t[a + i - 1]
  OBVIOUS

(* TrimSpace of a part of a text leaves what is between the first and the  *)
(* last token that is not white.                                           *)
Surrounded(t, p, q, a, b) ==
    /\ t \in Seq(S!Token) /\ p \in Nat /\ q \in Nat /\ q <= Len(t)
    /\ a \in p + 1 .. q /\ b \in a .. q
    /\ t[a] \notin S!White /\ t[b] \notin S!White
    /\ \A i \in p + 1 .. a - 1 : t[i] \in S!White
    /\ \A i \in b + 1 .. q : t[i] \in S!White

LEMMA TrimPart ==
    ASSUME NEW t, NEW p, NEW q, NEW a, NEW b, Surrounded(t, p, q, a, b)
    PROVE  S!TrimSpace(SubSeq(t, p + 1, q)) = SubSeq(t, a, b)
<1> USE DEF Surrounded
<1> DEFINE r == SubSeq(t, p + 1, q)
           m == q - p
           text == {i \in 1 .. m : r[i] \notin S!White}
<1>1. /\ a \in Nat /\ b \in Nat /\ p < a /\ a <= b /\ b <= q /\ m \in Nat
      /\ p + 1 \in Nat \ {0} /\ p + 1 <= q + 1
  OBVIOUS
<1>2. r \in Seq(S!Token) /\ Len(r) = m /\ \A i \in 1 .. m : r[i] = t[p + i]
  <2>1. (q - (p + 1)) + 1 = m /\ \A i \in 1 .. m : (p + 1) + i - 1 = p + i
    BY <1>1
  <2>2. /\ r \in Seq(S!Token) /\ Len(r) = (q - (p + 1)) + 1
        /\ \A i \in 1 .. (q - (p + 1)) + 1 : r[i] = t[(p + 1) + i - 1]
    BY <1>1, SubSeqIs
  <2> HIDE DEF r, m
  <2> QED BY <2>1, <2>2
<1>3. S!TrimSpace(r) = IF text = {} THEN <<>> ELSE SubSeq(r, S!Min(text), S!Max(text))
  BY <1>2 DEF S!TrimSpace
<1> HIDE DEF r
<1>4. a - p \in text /\ b - p \in text
  <2>1. a - p \in 1 .. m /\ b - p \in 1 .. m /\ p + (a - p) = a /\ p + (b - p) = b
    BY <1>1
  <2>2. r[a - p] = t[a] /\ r[b - p] = t[b]
    BY <1>2, <2>1
  <2> QED BY <2>1, <2>2
<1>5. ASSUME NEW i \in text PROVE i \in Nat /\ a - p <= i /\ i <= b - p
  <2>1. i \in 1 .. m /\ t[p + i] \notin S!White
    BY <1>2
  <2>2. ~(p + i \in p + 1 .. a - 1) /\ ~(p + i \in b + 1 .. q)
    BY <2>1
  <2> QED BY <1>1, <2>1, <2>2
<1>6. text \in SUBSET Nat /\ text \in SUBSET (1 .. m) /\ text # {}
  BY <1>1, <1>4
<1> HIDE DEF text
<1>7. S!Min(text) = a - p /\ S!Max(text) = b - p
  <2>1. S!Min(text) \in text /\ \A y \in text : S!Min(text) <= y
    BY <1>6, MinIs
  <2>2. S!Max(text) \in text /\ \A y \in text : y <= S!Max(text)
    <3>1. m \in Nat
      BY <1>1
    <3> HIDE DEF m
    <3> QED BY <1>6, <3>1, MaxIs
  <2>3. PICK x, y, u, v \in Nat : x = S!Min(text) /\ y = S!Max(text)
                                  /\ u = a - p /\ v = b - p
    <3>1. S!Min(text) \in Nat /\ S!Max(text) \in Nat
      BY <1>6, <2>1, <2>2
    <3>2. a - p \in Nat /\ b - p \in Nat
      BY <1>1
    <3> QED BY <3>1, <3>2
  <2>4. x <= u /\ u <= x /\ v <= y /\ y <= v
    BY <1>4, <1>5, <2>1, <2>2, <2>3
  <2> QED BY <2>3, <2>4
<1>8. SubSeq(r, a - p, b - p) = SubSeq(t, a, b)
  <2> DEFINE n == (b - a) + 1
             x == SubSeq(r, a - p, b - p)
             y == SubSeq(t, a, b)
  <2>1. /\ a - p \in Nat \ {0} /\ b - p \in Nat /\ a - p <= (b - p) + 1 /\ b - p <= m
        /\ ((b - p) - (a - p)) + 1 = n /\ n \in Nat
        /\ a \in Nat \ {0} /\ a <= b + 1 /\ b <= Len(t)
    BY <1>1
  <2>2. \A i \in 1 .. n : /\ (a - p) + i - 1 \in 1 .. m
                           /\ p + ((a - p) + i - 1) = a + i - 1
    BY <1>1
  <2>3. /\ y \in Seq(S!Token) /\ Len(y) = n
        /\ \A i \in 1 .. n : y[i] = t[a + i - 1]
    BY <2>1, SubSeqIs
  <2>4. /\ x \in Seq(S!Token) /\ Len(x) = n
        /\ \A i \in 1 .. n : x[i] = r[(a - p) + i - 1]
    <3>1. b - p <= Len(r)
      BY <1>2, <2>1
    <3>2. PICK u \in Nat \ {0}, v \in Nat : u = a - p /\ v = b - p
      BY <2>1
    <3>3. u <= v + 1 /\ v <= Len(r) /\ (v - u) + 1 = n
      BY <2>1, <3>1, <3>2
    <3>4. /\ SubSeq(r, u, v) \in Seq(S!Token) /\ Len(SubSeq(r, u, v)) = (v - u) + 1
          /\ \A i \in 1 .. (v - u) + 1 : SubSeq(r, u, v)[i] = r[u + i - 1]
      BY <1>2, <3>3, SubSeqIs
    <3> HIDE DEF n
    <3> QED BY <3>2, <3>3, <3>4
  <2> HIDE DEF n, x, y
  <2>5. \A i \in 1 .. n : x[i] = y[i]
    <3> TAKE i \in 1 .. n
    <3>1. PICK k \in 1 .. m : k = (a - p) + i - 1 /\ p + k = a + i - 1
      BY <2>2
    <3>2. x[i] = r[k] /\ r[k] = t[p + k] /\ y[i] = t[a + i - 1]
      BY <1>2, <2>3, <2>4, <3>1
    <3> QED BY <3>1, <3>2
  <2>6. x = y
    BY <2>3, <2>4, <2>5, SeqEqual
  <2> QED BY <2>6 DEF x, y
<1>9. S!TrimSpace(r) = SubSeq(t, a, b)
  BY <1>3, <1>6, <1>7, <1>8
<1> QED BY <1>9 DEF r

(***************************************************************************)
(* Where the parts of a statement are in its text: bound[k] is the number  *)
(* of the last token of the first k comments.                              *)
(***************************************************************************)
Shape(st, text, bound) ==
    LET n == Len(st.comments) IN
    /\ text \in Seq(S!Token)
    /\ bound[0] = 0
    /\ \A k \in 0 .. n : bound[k] \in Nat /\ bound[k] <= bound[n]
    /\ \A k \in 1 .. n :
          /\ bound[k] = bound[k - 1] + Len(st.comments[k])
          /\ \A j \in 1 .. Len(st.comments[k]) :
                text[bound[k - 1] + j] = st.comments[k][j]
    /\ Len(text) = bound[n] + 1 + Len(st.tail)
    /\ text[bound[n] + 1] = st.verb
    /\ \A j \in 1 .. Len(st.tail) : text[bound[n] + 1 + j] = st.tail[j]

(* Every text has such a shape.                                            *)
LEMMA TextHasShape ==
    ASSUME NEW st \in S!Statement
    PROVE  \E bound : Shape(st, S!TextOf(st), bound)
<1> DEFINE cs == st.comments
           text == S!TextOf(st)
<1>1. /\ cs \in Seq(Seq(S!Token)) /\ st.verb \in S!Token /\ st.tail \in Seq(S!Token)
      /\ <<st.verb>> \in Seq(S!Token)
  BY StatementType
<1>2. PICK n \in Nat : n = Len(cs)
  BY <1>1, LenProperties
<1>3. \A k \in 1 .. n : cs[k] \in Seq(S!Token) /\ Len(cs[k]) \in Nat
  <2>1. \A k \in 1 .. n : cs[k] \in Seq(S!Token)
    BY <1>1, <1>2, LenProperties
  <2> QED BY <2>1, LenProperties
<1>4. PICK f : /\ f[0] = <<>> /\ f[n] = S!FlattenSeq(cs)
               /\ \A k \in 0 .. n : f[k] \in Seq(S!Token)
               /\ \A k \in 1 .. n : f[k] = f[k - 1] \o cs[k]
  BY <1>1, <1>2, FlattenIs
<1>5. text = (f[n] \o <<st.verb>>) \o st.tail
  BY <1>4 DEF S!TextOf
<1> HIDE DEF cs, text
<1>6. \A k \in 1 .. n :
         /\ k - 1 \in 0 .. n /\ k \in 0 .. n
         /\ Len(f[k - 1]) \in Nat
         /\ Len(f[k]) = Len(f[k - 1]) + Len(cs[k])
         /\ \A i \in 1 .. Len(f[k - 1]) : f[k][i] = f[k - 1][i]
         /\ \A i \in 1 .. Len(cs[k]) : f[k][Len(f[k - 1]) + i] = cs[k][i]
  <2> SUFFICES ASSUME NEW k \in 1 .. n
               PROVE  /\ k - 1 \in 0 .. n /\ k \in 0 .. n
                      /\ Len(f[k - 1]) \in Nat
                      /\ Len(f[k]) = Len(f[k - 1]) + Len(cs[k])
                      /\ \A i \in 1 .. Len(f[k - 1]) : f[k][i] = f[k - 1][i]
                      /\ \A i \in 1 .. Len(cs[k]) :
                            f[k][Len(f[k - 1]) + i] = cs[k][i]
    OBVIOUS
  <2>1. k - 1 \in 0 .. n /\ k \in 0 .. n
    OBVIOUS
  <2>2. PICK p, q \in Seq(S!Token) : p = f[k - 1] /\ q = cs[k]
    BY <1>3, <1>4, <2>1
  <2>3. f[k] = p \o q
    BY <1>4, <2>2
  <2>4. /\ p \o q \in Seq(S!Token) /\ Len(p \o q) = Len(p) + Len(q)
        /\ Len(p) \in Nat /\ Len(q) \in Nat
        /\ \A i \in 1 .. Len(p) : (p \o q)[i] = p[i]
        /\ \A i \in 1 .. Len(q) : (p \o q)[Len(p) + i] = q[i]
    BY ConcatIs
  <2> QED BY <2>1, <2>2, <2>3, <2>4
<1> DEFINE Begins(p, q) == Len(p) <= Len(q) /\ \A i \in 1 .. Len(p) : q[i] = p[i]
           G == {m \in 0 .. n : \A k \in 0 .. m : Begins(f[k], f[m])}
<1>7. \A k \in 0 .. n : Len(f[k]) \in Nat
  BY <1>4, LenProperties
<1>8. 0 \in G
  <2>1. Begins(f[0], f[0]) /\ 0 \in 0 .. n
    BY <1>7
  <2>2. \A k \in 0 .. 0 : k = 0
    OBVIOUS
  <2> HIDE DEF Begins
  <2> QED BY <2>1, <2>2
<1>9. ASSUME NEW m \in 0 .. n - 1, m \in G PROVE m + 1 \in G
  <2>1. m + 1 \in 1 .. n /\ m + 1 \in 0 .. n /\ (m + 1) - 1 = m /\ m \in 0 .. n
    OBVIOUS
  <2>2. /\ Len(f[m + 1]) = Len(f[m]) + Len(cs[m + 1]) /\ Len(cs[m + 1]) \in Nat
        /\ Len(f[m]) \in Nat /\ Len(f[m + 1]) \in Nat
        /\ \A i \in 1 .. Len(f[m]) : f[m + 1][i] = f[m][i]
    <3>1. PICK x \in 1 .. n : x = m + 1 /\ x - 1 = m /\ x \in 0 .. n
      BY <2>1
    <3>2. /\ Len(f[x]) = Len(f[x - 1]) + Len(cs[x]) /\ Len(cs[x]) \in Nat
          /\ Len(f[x - 1]) \in Nat /\ Len(f[x]) \in Nat
          /\ \A i \in 1 .. Len(f[x - 1]) : f[x][i] = f[x - 1][i]
      BY <1>3, <1>6, <1>7, <3>1, Zenon
    <3> QED BY <3>1, <3>2
  <2>3. ASSUME NEW k \in 0 .. m + 1 PROVE Begins(f[k], f[m + 1])
    <3>1. CASE k = m + 1
      <4>1. Begins(f[m + 1], f[m + 1])
        BY <2>2
      <4> HIDE DEF Begins
      <4> QED BY <3>1, <4>1
    <3>2. CASE k # m + 1
      <4>1. k \in 0 .. m /\ k \in 0 .. n
        BY <3>2
      <4>2. Begins(f[k], f[m]) /\ Len(f[k]) \in Nat
        BY <1>7, <1>9, <4>1
      <4>3. \A i \in 1 .. Len(f[k]) : i \in 1 .. Len(f[m])
        BY <2>2, <4>2
      <4>4. Len(f[k]) <= Len(f[m + 1])
        <5>1. PICK a, b, c, d \in Nat : /\ a = Len(f[k]) /\ b = Len(f[m])
                                        /\ c = Len(f[m + 1]) /\ d = Len(cs[m + 1])
          BY <2>2, <4>2
        <5>2. a <= b /\ c = b + d
          BY <2>2, <4>2, <5>1, Zenon
        <5>3. a <= c
          BY <5>2
        <5> QED BY <5>1, <5>3, Zenon
      <4>5. \A i \in 1 .. Len(f[k]) : f[m + 1][i] = f[k][i]
        BY <2>2, <4>2, <4>3
      <4> QED BY <4>4, <4>5
    <3> QED BY <3>1, <3>2
  <2> HIDE DEF Begins
  <2> QED BY <2>1, <2>3
<1>10. \A k \in 0 .. n : Begins(f[k], f[n])
  <2>1. n \in 0 .. n
    OBVIOUS
  <2>2. n \in G
    <3> HIDE DEF G
    <3> QED BY <1>8, <1>9, <2>1, UpTo
  <2> HIDE DEF Begins
  <2> QED BY <2>2
<1>11. PICK F, u, w \in Seq(S!Token) : F = f[n] /\ u = <<st.verb>> /\ w = st.tail
  <2>1. n \in 0 .. n
    OBVIOUS
  <2> QED BY <1>1, <1>4, <2>1
<1>12. /\ F \o u \in Seq(S!Token) /\ Len(F \o u) = Len(F) + 1 /\ Len(F) \in Nat
       /\ \A i \in 1 .. Len(F) : (F \o u)[i] = F[i]
       /\ (F \o u)[Len(F) + 1] = st.verb
  <2>1. Len(u) = 1 /\ u[1] = st.verb /\ 1 \in 1 .. 1
    BY <1>11
  <2>2. /\ F \o u \in Seq(S!Token) /\ Len(F \o u) = Len(F) + Len(u)
        /\ Len(F) \in Nat /\ Len(u) \in Nat
        /\ \A i \in 1 .. Len(F) : (F \o u)[i] = F[i]
        /\ \A i \in 1 .. Len(u) : (F \o u)[Len(F) + i] = u[i]
    BY ConcatIs
  <2> QED BY <2>1, <2>2
<1>13. PICK v \in Seq(S!Token) : v = F \o u
  BY <1>12
<1>14. /\ text \in Seq(S!Token) /\ Len(text) = Len(F) + 1 + Len(w)
       /\ \A i \in 1 .. Len(F) + 1 : text[i] = v[i]
       /\ \A i \in 1 .. Len(w) : text[Len(F) + 1 + i] = w[i]
  <2>1. text = v \o w /\ Len(v) = Len(F) + 1
    BY <1>5, <1>11, <1>12, <1>13
  <2>2. /\ v \o w \in Seq(S!Token) /\ Len(v \o w) = Len(v) + Len(w)
        /\ Len(v) \in Nat /\ Len(w) \in Nat
        /\ \A i \in 1 .. Len(v) : (v \o w)[i] = v[i]
        /\ \A i \in 1 .. Len(w) : (v \o w)[Len(v) + i] = w[i]
    BY ConcatIs
  <2> QED BY <2>1, <2>2
<1>15. /\ \A i \in 1 .. Len(F) : text[i] = F[i]
       /\ text[Len(F) + 1] = st.verb
  <2>1. (\A i \in 1 .. Len(F) : i \in 1 .. Len(F) + 1) /\ Len(F) + 1 \in 1 .. Len(F) + 1
    BY <1>12
  <2> QED BY <1>12, <1>13, <1>14, <2>1
<1> DEFINE bound == [k \in 0 .. n |-> Len(f[k])]
<1>16. /\ 0 \in 0 .. n /\ n \in 0 .. n
       /\ \A k \in 0 .. n : bound[k] = Len(f[k])
       /\ Len(f[0]) = 0
  BY <1>4
<1> HIDE DEF bound
<1>17. \A k \in 0 .. n : bound[k] \in Nat /\ bound[k] <= bound[n]
  BY <1>7, <1>10, <1>16
<1>18. ASSUME NEW k \in 1 .. n
       PROVE  /\ bound[k] = bound[k - 1] + Len(cs[k])
              /\ \A j \in 1 .. Len(cs[k]) : text[bound[k - 1] + j] = cs[k][j]
  <2>1. /\ k - 1 \in 0 .. n /\ k \in 0 .. n
        /\ bound[k] = Len(f[k]) /\ bound[k - 1] = Len(f[k - 1])
        /\ Len(f[k - 1]) \in Nat /\ Len(f[k]) \in Nat /\ Len(cs[k]) \in Nat
        /\ Len(f[k]) = Len(f[k - 1]) + Len(cs[k])
    BY <1>3, <1>6, <1>7, <1>16
  <2>2. ASSUME NEW j \in 1 .. Len(cs[k])
        PROVE  text[bound[k - 1] + j] = cs[k][j]
    <3>1. PICK i \in 1 .. Len(f[k]) : i = Len(f[k - 1]) + j
      <4>1. PICK a, b, c \in Nat : a = Len(f[k]) /\ b = Len(f[k - 1]) /\ c = Len(cs[k])
        BY <2>1
      <4>2. a = b + c /\ j \in 1 .. c
        BY <2>1, <4>1, Zenon
      <4>3. b + j \in 1 .. a
        BY <4>2
      <4> QED BY <4>1, <4>3, Zenon
    <3>2. f[k][i] = cs[k][j]
      BY <1>6, <3>1
    <3>3. f[n][i] = f[k][i] /\ Len(f[k]) <= Len(f[n])
      BY <1>10, <2>1, <3>1
    <3>4. i \in 1 .. Len(F) /\ F[i] = f[n][i]
      <4>1. PICK a, b \in Nat : a = Len(f[k]) /\ b = Len(F) /\ F = f[n]
        BY <1>11, <1>12, <2>1
      <4>2. a <= b /\ i \in 1 .. a
        BY <3>1, <3>3, <4>1, Zenon
      <4>3. i \in 1 .. b
        BY <4>2
      <4> QED BY <4>1, <4>3, Zenon
    <3>5. text[i] = F[i]
      BY <1>15, <3>4
    <3> QED BY <2>1, <3>1, <3>2, <3>3, <3>4, <3>5
  <2> QED BY <2>1, <2>2
<1>19. bound[n] = Len(F) /\ bound[0] = 0
  BY <1>11, <1>16
<1>20. Shape(st, text, bound)
  BY <1>2, <1>11, <1>14, <1>15, <1>17, <1>18, <1>19 DEF Shape, cs
<1> QED BY <1>20 DEF text

(***************************************************************************)
(* A statement, and its text up to the last token that is not white.       *)
(* Removed(.., m, r): r is what a call is given when the first m tokens    *)
(* are gone; Front is what TrimSpace makes of it.                          *)
(***************************************************************************)
Setting(st, text, bound, last) ==
    /\ st \in S!Statement /\ S!Plain(st)
    /\ Shape(st, text, bound)
    /\ last \in 1 .. Len(text) /\ text[last] \notin S!White
    /\ \A i \in last + 1 .. Len(text) : text[i] \in S!White
    /\ bound[Len(st.comments)] + 1 <= last

Removed(text, last, m, r) ==
    \E p \in 0 .. m, q \in last .. Len(text) :
        /\ \A i \in p + 1 .. m : text[i] \in S!White
        /\ r = SubSeq(text, p + 1, q)

Front(text, last, m) == SubSeq(text, m + 1, last)

(* The first m tokens of the text are its first k comments.                *)
Gone(st, text, bound, last, k, m) ==
    /\ Setting(st, text, bound, last)
    /\ k \in 0 .. Len(st.comments) /\ k \in Nat
    /\ last \in Nat /\ m \in Nat /\ m = bound[k]

(* The tokens that matter differ.                                          *)
LEMMA TokensDiffer ==
    /\ S!Dashes \notin S!White /\ S!Open \notin S!White /\ S!Close \notin S!White
    /\ S!Newline \in S!White
    /\ \A x \in S!Selects : x \notin S!White /\ x # S!Dashes
    /\ S!Dashes \notin S!Selects /\ S!Open \notin S!Selects
    /\ S!Open # S!Newline /\ S!Close # S!Newline /\ S!Open # S!Close
    /\ S!Open # S!Dashes /\ S!Close # S!Dashes /\ S!Dashes # S!Newline
    /\ S!Dashes.w = 2 /\ S!Open.w = 2 /\ S!Close.w = 2
    /\ \A x \in S!White : x.w = 1
  BY DEF S!Dashes, S!Open, S!Close, S!Newline, S!Space, S!Return, S!White,
         S!Selects, S!Tok

(* The comment behind the first k.                                         *)
LEMMA CommentIs ==
    ASSUME NEW st, NEW text, NEW bound, NEW last, Setting(st, text, bound, last),
           NEW k \in 0 .. Len(st.comments) - 1
    PROVE  LET c == st.comments[k + 1] IN
           /\ k + 1 \in 1 .. Len(st.comments)
           /\ c \in S!Comment /\ c \in Seq(S!Token)
           /\ Len(c) \in Nat /\ Len(c) >= 1
           /\ bound[k] \in Nat /\ bound[k + 1] = bound[k] + Len(c)
           /\ \A j \in 1 .. Len(c) : text[bound[k] + j] = c[j]
           /\ c[1] \in {S!Dashes, S!Open}
<1>1. st.comments \in Seq(S!Comment)
  BY StatementType DEF Setting
<1>2. PICK n \in Nat : n = Len(st.comments)
  BY <1>1, LenProperties
<1>3. k + 1 \in 1 .. n /\ (k + 1) - 1 = k /\ k \in 0 .. n
  BY <1>2
<1>4. PICK c \in S!Comment : c = st.comments[k + 1]
  BY <1>1, <1>2, <1>3
<1>5. c \in Seq(S!Token) /\ c # <<>> /\ c[1] \in {S!Dashes, S!Open}
  BY DEF S!Comment
<1>6. Len(c) \in Nat /\ Len(c) >= 1
  BY <1>5
<1>7. /\ bound[k] \in Nat
      /\ bound[k + 1] = bound[k] + Len(c)
      /\ \A j \in 1 .. Len(c) : text[bound[k] + j] = c[j]
  BY <1>2, <1>3, <1>4 DEF Setting, Shape
<1> QED BY <1>2, <1>3, <1>4, <1>5, <1>6, <1>7

(* The numbers of a setting.                                               *)
LEMMA SettingIs ==
    ASSUME NEW st, NEW text, NEW bound, NEW last, Setting(st, text, bound, last)
    PROVE  /\ st \in S!Statement /\ S!Plain(st)
           /\ text \in Seq(S!Token) /\ Len(text) \in Nat
           /\ st.comments \in Seq(S!Comment) /\ Len(st.comments) \in Nat
           /\ \A k \in 0 .. Len(st.comments) : bound[k] \in Nat
           /\ last \in Nat /\ last <= Len(text)
           /\ text[last] \notin S!White
           /\ \A i \in last + 1 .. Len(text) : text[i] \in S!White
<1>1. st.comments \in Seq(S!Comment)
  BY StatementType DEF Setting
<1>2. Len(st.comments) \in Nat
  BY <1>1, LenProperties
<1>3. text \in Seq(S!Token) /\ \A k \in 0 .. Len(st.comments) : bound[k] \in Nat
  BY DEF Setting, Shape
<1>4. Len(text) \in Nat
  BY <1>3, LenProperties
<1> QED BY <1>1, <1>2, <1>3, <1>4 DEF Setting

(* What is left of the text when k comments are gone.                      *)
FrontFacts(text, last, m) ==
    /\ m \in Nat /\ last \in Nat /\ m + 1 <= last /\ last <= Len(text)
    /\ text[m + 1] \notin S!White
    /\ Front(text, last, m) \in Seq(S!Token)
    /\ Len(Front(text, last, m)) = last - m
    /\ \A i \in 1 .. last - m : Front(text, last, m)[i] = text[m + i]

LEMMA FrontIs ==
    ASSUME NEW st, NEW text, NEW bound, NEW last,
           NEW k, NEW m, Gone(st, text, bound, last, k, m)
    PROVE  FrontFacts(text, last, m)
<1>00. last \in Nat /\ m \in Nat /\ k \in Nat
  BY DEF Gone
<1> USE <1>00
<1>0. /\ Setting(st, text, bound, last)
      /\ k \in 0 .. Len(st.comments) /\ bound[k] = m
  BY DEF Gone
<1>1. PICK n, v, l \in Nat : n = Len(st.comments) /\ v = bound[n] /\ l = Len(text)
  <2>1. PICK n \in Nat : n = Len(st.comments)
    BY <1>0, SettingIs
  <2>2. n \in 0 .. n
    BY <2>1
  <2> QED BY <1>0, <2>1, <2>2, SettingIs
<1>2. /\ text \in Seq(S!Token) /\ last <= l
      /\ m <= v /\ v + 1 <= last
      /\ text[v + 1] = st.verb
  <2>1. n \in 0 .. n /\ k \in 0 .. n
    BY <1>0, <1>1
  <2> QED BY <1>0, <1>1, <2>1 DEF Setting, Shape
<1>3. m + 1 <= last
  BY <1>2
<1>4. text[m + 1] \notin S!White
  <2>1. CASE k = n
    <3>1. st.verb \notin S!White
      BY <1>0, StatementType DEF Setting
    <3> QED BY <1>0, <1>1, <1>2, <2>1, <3>1, TokensDiffer
  <2>2. CASE k # n
    <3>1. k \in 0 .. Len(st.comments) - 1
      BY <1>0, <1>1, <2>2
    <3>2. LET c == st.comments[k + 1] IN
          /\ Len(c) \in Nat /\ Len(c) >= 1
          /\ \A j \in 1 .. Len(c) : text[bound[k] + j] = c[j]
          /\ c[1] \in {S!Dashes, S!Open}
      <4> DEFINE c == st.comments[k + 1]
      <4>1. Len(c) \in Nat /\ Len(c) >= 1 /\ c[1] \in {S!Dashes, S!Open}
        BY <1>0, <3>1, CommentIs
      <4>2. \A j \in 1 .. Len(c) : text[bound[k] + j] = c[j]
        BY <1>0, <3>1, CommentIs
      <4> QED BY <4>1, <4>2
    <3>3. 1 \in 1 .. Len(st.comments[k + 1])
      BY <3>2
    <3> QED BY <1>0, <3>2, <3>3, TokensDiffer
  <2> QED BY <2>1, <2>2
<1> DEFINE x == Front(text, last, m)
<1>5. /\ x \in Seq(S!Token) /\ Len(x) = last - m
      /\ \A i \in 1 .. last - m : x[i] = text[m + i]
  <2>1. PICK a \in Nat \ {0} : a = m + 1
    OBVIOUS
  <2>2. /\ a <= last + 1 /\ (last - a) + 1 = last - m
        /\ \A i \in 1 .. last - m : a + i - 1 = m + i
    BY <1>3, <2>1
  <2>3. /\ SubSeq(text, a, last) \in Seq(S!Token)
        /\ Len(SubSeq(text, a, last)) = (last - a) + 1
        /\ \A i \in 1 .. (last - a) + 1 : SubSeq(text, a, last)[i] = text[a + i - 1]
    <3>1. a <= last + 1 /\ last <= Len(text)
      BY <1>1, <1>2, <2>2
    <3> QED BY <1>2, <3>1, SubSeqIs
  <2>4. x = SubSeq(text, a, last)
    BY <2>1 DEF Front
  <2> HIDE DEF x
  <2>5. /\ x \in Seq(S!Token) /\ Len(x) = (last - a) + 1
        /\ \A i \in 1 .. (last - a) + 1 : x[i] = text[a + i - 1]
    BY ONLY <2>3, <2>4, Zenon
  <2> QED BY <2>2, <2>5
<1>6. last <= Len(text)
  BY <1>1, <1>2
<1> QED BY <1>3, <1>4, <1>5, <1>6 DEF FrontFacts

(* TrimSpace takes off what a removed comment leaves.                      *)
LEMMA RemovedTrimmed ==
    ASSUME NEW st, NEW text, NEW bound, NEW last,
           NEW k, NEW m, Gone(st, text, bound, last, k, m),
           NEW r, Removed(text, last, m, r)
    PROVE  S!TrimSpace(r) = Front(text, last, m) /\ r \in Seq(S!Token)
<1>00. last \in Nat /\ m \in Nat /\ k \in Nat
  BY DEF Gone
<1> USE <1>00
<1>0. Setting(st, text, bound, last)
  BY DEF Gone
<1>1. PICK l \in Nat : l = Len(text)
  BY <1>0, SettingIs
<1>2. text \in Seq(S!Token) /\ m + 1 <= last /\ last <= l /\ text[m + 1] \notin S!White
  <2>1. FrontFacts(text, last, m)
    BY FrontIs, Zenon
  <2>2. m + 1 <= last /\ text[m + 1] \notin S!White
    BY <2>1 DEF FrontFacts
  <2> QED BY <1>0, <1>1, <2>2, SettingIs
<1>3. PICK p \in 0 .. m, q \in last .. l :
         /\ \A i \in p + 1 .. m : text[i] \in S!White
         /\ r = SubSeq(text, p + 1, q)
  BY <1>1 DEF Removed
<1>4. PICK a \in Nat : a = m + 1
  OBVIOUS
<1>5. /\ p \in Nat /\ q \in Nat /\ q <= l /\ a \in p + 1 .. q /\ last \in a .. q
      /\ a - 1 = m
  BY <1>2, <1>3, <1>4
<1>6. /\ text[a] \notin S!White /\ text[last] \notin S!White
      /\ \A i \in p + 1 .. a - 1 : text[i] \in S!White
      /\ \A i \in last + 1 .. q : text[i] \in S!White
  <2>1. \A i \in last + 1 .. q : i \in last + 1 .. l
    BY <1>5
  <2>2. text[last] \notin S!White /\ \A i \in last + 1 .. l : text[i] \in S!White
    BY <1>0, <1>1, SettingIs
  <2> QED BY <1>2, <1>3, <1>4, <1>5, <2>1, <2>2
<1>7. q <= Len(text)
  BY <1>1, <1>5
<1>8. S!TrimSpace(SubSeq(text, p + 1, q)) = SubSeq(text, a, last)
  <2>1. Surrounded(text, p, q, a, last)
    BY <1>2, <1>5, <1>6, <1>7 DEF Surrounded
  <2> QED BY ONLY <2>1, TrimPart
<1>9. SubSeq(text, p + 1, q) \in Seq(S!Token)
  <2>1. PICK b \in Nat \ {0} : b = p + 1 /\ b <= q + 1
    BY <1>5
  <2> QED BY <1>2, <1>5, <1>7, <2>1, SubSeqIs
<1> QED BY <1>3, <1>4, <1>8, <1>9 DEF Front

(* The text of the verb and what follows.                                  *)
LEMMA CoreIs ==
    ASSUME NEW st, NEW text, NEW bound, NEW last, NEW v,
           Gone(st, text, bound, last, Len(st.comments), v)
    PROVE  /\ SubSeq(text, v + 1, Len(text)) = <<st.verb>> \o st.tail
           /\ S!Core(st) = Front(text, last, v)
<1>00. last \in Nat /\ v \in Nat
  BY DEF Gone
<1> USE <1>00
<1>0. Setting(st, text, bound, last) /\ bound[Len(st.comments)] = v
  BY DEF Gone
<1>1. PICK n, l \in Nat : n = Len(st.comments) /\ l = Len(text)
  BY <1>0, SettingIs
<1>2. st.verb \in S!Token /\ st.tail \in Seq(S!Token) /\ text \in Seq(S!Token)
  BY <1>0, StatementType, SettingIs
<1>3. PICK u, w \in Seq(S!Token) : u = <<st.verb>> /\ w = st.tail
  <2>1. <<st.verb>> \in Seq(S!Token)
    BY <1>2
  <2> QED BY <1>2, <2>1
<1>4. PICK z \in Nat : z = Len(w) /\ Len(u) = 1 /\ u[1] = st.verb
  BY <1>3, LenProperties
<1>5. /\ l = v + 1 + z /\ text[v + 1] = st.verb
      /\ \A j \in 1 .. z : text[v + 1 + j] = w[j]
  BY <1>0, <1>1, <1>3, <1>4 DEF Setting, Shape
<1>6. PICK b \in Nat \ {0} : b = v + 1 /\ b <= l + 1 /\ (l - b) + 1 = 1 + z
  <2>1. v + 1 \in Nat \ {0} /\ v + 1 <= l + 1 /\ (l - (v + 1)) + 1 = 1 + z
    BY <1>5
  <2> QED BY ONLY <2>1, Zenon
<1>7. /\ SubSeq(text, b, l) \in Seq(S!Token) /\ Len(SubSeq(text, b, l)) = 1 + z
      /\ \A i \in 1 .. 1 + z : SubSeq(text, b, l)[i] = text[b + i - 1]
  <2>1. l <= Len(text)
    BY <1>1
  <2>2. /\ SubSeq(text, b, l) \in Seq(S!Token) /\ Len(SubSeq(text, b, l)) = (l - b) + 1
        /\ \A i \in 1 .. (l - b) + 1 : SubSeq(text, b, l)[i] = text[b + i - 1]
    <3>1. b <= l + 1
      BY <1>6
    <3>2. SubSeq(text, b, l) \in Seq(S!Token) /\ Len(SubSeq(text, b, l)) = (l - b) + 1
      BY <1>2, <2>1, <3>1, SubSeqIs
    <3>3. \A i \in 1 .. (l - b) + 1 : SubSeq(text, b, l)[i] = text[b + i - 1]
      BY <1>2, <2>1, <3>1, SubSeqIs
    <3> QED BY <3>2, <3>3
  <2> QED BY <1>6, <2>2
<1>8. /\ u \o w \in Seq(S!Token) /\ Len(u \o w) = 1 + z
      /\ (u \o w)[1] = st.verb
      /\ \A i \in 1 .. z : (u \o w)[1 + i] = w[i]
  <2>1. /\ u \o w \in Seq(S!Token) /\ Len(u \o w) = Len(u) + Len(w)
        /\ \A i \in 1 .. Len(u) : (u \o w)[i] = u[i]
        /\ \A i \in 1 .. Len(w) : (u \o w)[Len(u) + i] = w[i]
    BY ConcatIs
  <2>2. 1 \in 1 .. 1
    OBVIOUS
  <2> QED BY <1>4, <2>1, <2>2
<1> DEFINE r == SubSeq(text, b, l)
           s == u \o w
<1> HIDE DEF r, s
<1>9. \A i \in 1 .. 1 + z : r[i] = s[i]
  <2> TAKE i \in 1 .. 1 + z
  <2>1. r[i] = text[b + i - 1]
    BY <1>7 DEF r
  <2>2. CASE i = 1
    <3>1. b + i - 1 = v + 1
      BY <1>6, <2>2
    <3> QED BY <1>5, <1>8, <2>1, <2>2, <3>1 DEF s
  <2>3. CASE i # 1
    <3>1. PICK j \in 1 .. z : j = i - 1
      BY <2>3
    <3>2. b + i - 1 = v + 1 + j /\ i = 1 + j
      BY <1>6, <3>1
    <3> QED BY <1>5, <1>8, <2>1, <3>2 DEF s
  <2> QED BY <2>2, <2>3
<1>10. r = s
  BY <1>7, <1>8, <1>9, SeqEqual DEF r, s
<1>11. Removed(text, last, v, r)
  <2>1. v \in 0 .. v /\ l \in last .. l
    BY <1>0, <1>1, SettingIs
  <2>2. \A i \in v + 1 .. v : text[i] \in S!White
    OBVIOUS
  <2> QED BY <1>1, <1>6, <2>1, <2>2 DEF Removed, r
<1>12. S!TrimSpace(r) = Front(text, last, v)
  <2>1. Gone(st, text, bound, last, n, v)
    BY <1>1
  <2> QED BY <1>11, <2>1, RemovedTrimmed
<1> QED BY <1>1, <1>3, <1>6, <1>10, <1>12 DEF S!Core, r, s

(* What is left is at least as wide as the verb and what follows.          *)
LEMMA FrontWide ==
    ASSUME NEW st, NEW text, NEW bound, NEW last,
           NEW k, NEW m, Gone(st, text, bound, last, k, m), MustPass(st)
    PROVE  /\ S!Width(Front(text, last, m)) \in Nat
           /\ S!Width(Front(text, last, m)) >= S!HeaderWidth
<1>00. last \in Nat /\ m \in Nat /\ k \in Nat
  BY DEF Gone
<1> USE <1>00
<1>1. PICK n \in Nat : n = Len(st.comments)
  BY SettingIs DEF Gone
<1>2. k \in 0 .. n /\ n \in 0 .. n /\ n \in 0 .. Len(st.comments)
  BY <1>1 DEF Gone
<1>3. PICK v \in Nat : m <= v /\ Gone(st, text, bound, last, n, v)
  BY <1>1, <1>2 DEF Gone, Setting, Shape
<1> DEFINE x == Front(text, last, m)
           y == Front(text, last, v)
<1>4. x \in Seq(S!Token) /\ Len(x) = last - m /\ \A i \in 1 .. last - m : x[i] = text[m + i]
  <2>1. FrontFacts(text, last, m)
    BY FrontIs, Zenon
  <2> QED BY <2>1 DEF FrontFacts
<1>5. /\ v + 1 <= last /\ y \in Seq(S!Token) /\ Len(y) = last - v
      /\ \A i \in 1 .. last - v : y[i] = text[v + i]
  <2>1. FrontFacts(text, last, v)
    BY <1>3, FrontIs, Zenon
  <2> QED BY <2>1 DEF FrontFacts
<1>6. S!Width(y) >= S!HeaderWidth
  <2>1. S!Core(st) = y
    BY <1>1, <1>3, CoreIs
  <2>2. S!Width(S!Core(st)) >= S!HeaderWidth
    BY DEF MustPass, WithinLimits
  <2> QED BY <2>1, <2>2
<1> HIDE DEF x, y
<1>7. PICK d \in Nat : d = v - m
  BY <1>3
<1>8. Len(x) = d + Len(y)
  <2>1. last - m = d + (last - v)
    BY <1>7
  <2> QED BY <1>4, <1>5, <2>1
<1>9. \A i \in 1 .. Len(y) : x[d + i] = y[i]
  <2> TAKE i \in 1 .. Len(y)
  <2>1. i \in 1 .. last - v
    BY <1>5
  <2>2. d + i \in 1 .. last - m /\ m + (d + i) = v + i
    <3>1. v + 1 <= last
      BY <1>5
    <3> QED BY <1>3, <1>7, <2>1, <3>1
  <2> QED BY <1>4, <1>5, <2>1, <2>2
<1>10. S!Width(y) <= S!Width(x) /\ S!Width(y) \in Nat /\ S!Width(x) \in Nat
  BY <1>4, <1>5, <1>8, <1>9, WidthOfSuffix
<1>11. S!Width(x) >= S!HeaderWidth
  BY <1>6, <1>10 DEF S!HeaderWidth
<1> QED BY <1>10, <1>11 DEF x

(* The first of the tokens tok in c.                                       *)
IsFirst(c, tok, j) ==
    /\ j \in Nat \ {0} /\ j <= Len(c) /\ c[j] = tok
    /\ \A i \in 1 .. j - 1 : c[i] # tok

LEMMA FirstExists ==
    ASSUME NEW c \in Seq(S!Token), NEW tok, S!Contains(c, tok)
    PROVE  \E j \in Nat \ {0} :
              IsFirst(c, tok, j) /\ S!Behind(c, tok) = SubSeq(c, j + 1, Len(c))
<1> DEFINE I == {i \in 1 .. Len(c) : c[i] = tok}
<1>1. PICK n \in Nat : n = Len(c)
  BY LenProperties
<1>2. I \in SUBSET Nat /\ I # {}
  BY <1>1 DEF S!Contains
<1>3. S!Behind(c, tok) = SubSeq(c, S!Min(I) + 1, Len(c))
  BY <1>2 DEF S!Behind, S!SelectInSeq
<1>4. S!Min(I) \in I /\ \A y \in I : S!Min(I) <= y
  <2> HIDE DEF I
  <2> QED BY <1>2, MinIs
<1>5. PICK j \in Nat : j = S!Min(I) /\ j \in I /\ \A y \in I : j <= y
  BY <1>2, <1>4
<1>6. j \in 1 .. n /\ c[j] = tok
  BY <1>1, <1>5
<1>7. \A i \in 1 .. j - 1 : c[i] # tok
  <2> SUFFICES ASSUME NEW i \in 1 .. j - 1, c[i] = tok PROVE FALSE
    OBVIOUS
  <2>1. i \in 1 .. n /\ ~(j <= i)
    BY <1>6
  <2> QED BY <1>1, <1>5, <2>1
<1>8. j \in Nat \ {0} /\ IsFirst(c, tok, j)
  BY <1>1, <1>6, <1>7 DEF IsFirst
<1>9. S!Behind(c, tok) = SubSeq(c, j + 1, Len(c))
  <2> HIDE DEF I
  <2> QED BY <1>3, <1>5, Zenon
<1> QED BY <1>8, <1>9, Zenon

(* A comment line: white is behind the newline.                            *)
LEMMA LineComment ==
    ASSUME NEW st, NEW text, NEW bound, NEW last, Setting(st, text, bound, last),
           NEW i \in 1 .. Len(st.comments), NEW c \in S!Comment, c = st.comments[i],
           c[1] = S!Dashes
    PROVE  \E j \in Nat \ {0} :
              /\ IsFirst(c, S!Newline, j) /\ (S!Indented(st) => j + 1 <= Len(c))
              /\ \A l \in j + 1 .. Len(c) : c[l] \in S!White
<1>1. /\ c \in Seq(S!Token)
      /\ \A x, y \in 1 .. Len(c) : x < y /\ c[x] = S!Newline => c[y] \in S!White
  BY TokensDiffer DEF S!Comment, S!WhiteBehind
<1>2. S!Contains(c, S!Newline)
  BY DEF Setting, S!Plain
<1>3. S!Indented(st) => S!Behind(c, S!Newline) # <<>>
  BY DEF S!Indented
<1>4. PICK n \in Nat : n = Len(c)
  BY <1>1, LenProperties
<1>5. PICK j \in Nat \ {0} : /\ IsFirst(c, S!Newline, j)
                             /\ S!Behind(c, S!Newline) = SubSeq(c, j + 1, Len(c))
  BY <1>1, <1>2, FirstExists
<1>6. j <= n /\ c[j] = S!Newline
  BY <1>4, <1>5 DEF IsFirst
<1>7. S!Indented(st) => SubSeq(c, j + 1, n) # <<>>
  BY <1>3, <1>4, <1>5
<1>8. S!Indented(st) => j # n
  <2> SUFFICES ASSUME S!Indented(st), j = n PROVE FALSE
    OBVIOUS
  <2>1. SubSeq(c, n + 1, n) = <<>>
    BY <1>1, <1>4
  <2> QED BY <1>7, <2>1
<1>9. S!Indented(st) => j + 1 <= n
  BY <1>6, <1>8
<1>10. \A l \in j + 1 .. n : c[l] \in S!White
  <2> TAKE l \in j + 1 .. n
  <2>1. j \in 1 .. n /\ l \in 1 .. n /\ j < l
    BY <1>6
  <2> QED BY <1>1, <1>4, <1>6, <2>1
<1> QED BY <1>4, <1>5, <1>9, <1>10

(* A block comment.                                                        *)
LEMMA BlockComment ==
    ASSUME NEW c \in S!Comment, c[1] = S!Open
    PROVE  \E j \in Nat \ {0} :
              /\ IsFirst(c, S!Close, j) /\ 2 <= j
              /\ \A l \in j + 1 .. Len(c) : c[l] \in S!White
<1>1. /\ c \in Seq(S!Token) /\ S!Contains(c, S!Close)
      /\ \A x, y \in 1 .. Len(c) : x < y /\ c[x] = S!Close => c[y] \in S!White
  BY TokensDiffer DEF S!Comment, S!WhiteBehind
<1>2. PICK n \in Nat : n = Len(c)
  BY <1>1, LenProperties
<1>3. PICK j \in Nat \ {0} : IsFirst(c, S!Close, j)
  BY <1>1, FirstExists
<1>4. j <= n /\ c[j] = S!Close
  BY <1>2, <1>3 DEF IsFirst
<1>5. j # 1
  BY <1>4, TokensDiffer
<1>6. \A l \in j + 1 .. n : c[l] \in S!White
  <2> TAKE l \in j + 1 .. n
  <2>1. j \in 1 .. n /\ l \in 1 .. n /\ j < l
    BY <1>4
  <2> QED BY <1>1, <1>2, <1>4, <2>1
<1>7. 2 <= j
  BY <1>5
<1> QED BY <1>2, <1>3, <1>6, <1>7

(* The next comment and what is behind it.                                 *)
NextComment(st, text, bound, last, k, m, c, m2) ==
    /\ k + 1 \in 1 .. Len(st.comments)
    /\ c \in S!Comment /\ c = st.comments[k + 1] /\ c \in Seq(S!Token)
    /\ c[1] \in {S!Dashes, S!Open}
    /\ Len(c) \in Nat /\ Len(c) >= 1 /\ m2 \in Nat /\ m2 = m + Len(c)
    /\ \A j \in 1 .. Len(c) : text[m + j] = c[j]
    /\ Gone(st, text, bound, last, k + 1, m2)

LEMMA NextGone ==
    ASSUME NEW st, NEW text, NEW bound, NEW last, NEW k, NEW m,
           Gone(st, text, bound, last, k, m), k < Len(st.comments)
    PROVE  \E c \in S!Comment, m2 \in Nat :
              NextComment(st, text, bound, last, k, m, c, m2)
<1>1. /\ Setting(st, text, bound, last) /\ k \in 0 .. Len(st.comments) /\ k \in Nat
      /\ last \in Nat /\ m \in Nat /\ m = bound[k]
  BY DEF Gone
<1>2. PICK n \in Nat : n = Len(st.comments)
  BY <1>1, SettingIs
<1>3. k \in 0 .. n - 1 /\ k + 1 \in 0 .. n /\ k + 1 \in Nat /\ k + 1 \in 1 .. n
  BY <1>1, <1>2
<1>4. k \in 0 .. Len(st.comments) - 1
  BY <1>2, <1>3
<1>5. PICK c : c = st.comments[k + 1]
  OBVIOUS
<1>6. /\ c \in S!Comment /\ c \in Seq(S!Token) /\ Len(c) \in Nat /\ Len(c) >= 1
      /\ bound[k + 1] = bound[k] + Len(c) /\ c[1] \in {S!Dashes, S!Open}
  BY <1>1, <1>4, <1>5, CommentIs
<1>7. \A j \in 1 .. Len(c) : text[bound[k] + j] = c[j]
  BY <1>1, <1>4, <1>5, CommentIs
<1>8. PICK m2 \in Nat : m2 = m + Len(c)
  BY <1>1, <1>6
<1>9. bound[k + 1] = m2
  BY <1>1, <1>6, <1>8
<1>10. Gone(st, text, bound, last, k + 1, m2)
  BY <1>1, <1>2, <1>3, <1>9 DEF Gone
<1>11. \A j \in 1 .. Len(c) : text[m + j] = c[j]
  BY <1>1, <1>7
<1> QED BY <1>2, <1>3, <1>5, <1>6, <1>8, <1>10, <1>11 DEF NextComment

(* The first token of what is left.                                        *)
LEMMA HeadIs ==
    ASSUME NEW st, NEW text, NEW bound, NEW last, NEW k, NEW m,
           Gone(st, text, bound, last, k, m)
    PROVE  /\ text[m + 1] \in S!Token
           /\ text[m + 1].w \in Nat /\ text[m + 1].w >= 2
           /\ k = Len(st.comments) => text[m + 1] = st.verb
           /\ k # Len(st.comments) => text[m + 1] \in {S!Dashes, S!Open}
<1>1. /\ Setting(st, text, bound, last) /\ k \in 0 .. Len(st.comments) /\ k \in Nat
      /\ last \in Nat /\ m \in Nat /\ m = bound[k]
  BY DEF Gone
<1>2. PICK n, l \in Nat : n = Len(st.comments) /\ l = Len(text) /\ text \in Seq(S!Token)
  BY <1>1, SettingIs
<1>3. text[m + 1] \in S!Token
  <2>1. FrontFacts(text, last, m)
    BY FrontIs, Zenon
  <2>2. m + 1 <= last /\ last <= Len(text)
    BY <2>1 DEF FrontFacts
  <2>3. m + 1 \in 1 .. l
    BY <1>1, <1>2, <2>2
  <2> QED BY <1>2, <2>3, TokenWidth
<1>4. CASE k = n
  <2>1. text[m + 1] = st.verb
    BY <1>1, <1>2, <1>4 DEF Setting, Shape
  <2> QED BY <1>1, <1>2, <1>3, <1>4, <2>1, StatementType DEF Setting
<1>5. CASE k # n
  <2>1. k < Len(st.comments)
    BY <1>1, <1>2, <1>5
  <2>2. PICK c \in S!Comment, m2 \in Nat : NextComment(st, text, bound, last, k, m, c, m2)
    BY <2>1, NextGone
  <2>3. PICK z \in Nat : z = Len(c) /\ z >= 1
    BY <2>2 DEF NextComment
  <2>4. 1 \in 1 .. z
    BY <2>3
  <2>5. text[m + 1] = c[1] /\ c[1] \in {S!Dashes, S!Open}
    BY <2>2, <2>3, <2>4 DEF NextComment
  <2>6. S!Dashes.w = 2 /\ S!Open.w = 2
    BY TokensDiffer
  <2>7. text[m + 1].w = 2
    BY <2>5, <2>6
  <2> QED BY <1>2, <1>3, <1>5, <2>5, <2>7
<1> QED BY <1>4, <1>5

(***************************************************************************)
(* A view is a text whose tokens, from the second on, are those behind the *)
(* first m: its first one may have lost a byte.  Rest is what the function *)
(* goes on with behind a comment.                                          *)
(***************************************************************************)
View(text, last, m, x) ==
    /\ text \in Seq(S!Token) /\ x \in Seq(S!Token)
    /\ m \in Nat /\ last \in Nat /\ m + 1 <= last /\ last <= Len(text)
    /\ Len(x) = last - m
    /\ \A i \in 2 .. last - m : x[i] = text[m + i]

Rest(x) == S!From(x, S!Min(S!EndsOfComment(x)) + 2)

Split(text, last, m, r) ==
    /\ View(text, last, m, r) /\ text[m + 1].w \in Nat /\ text[m + 1].w >= 2
    /\ r[1] = S!Word(text[m + 1].w - 1)

LEMMA FrontView ==
    ASSUME NEW st, NEW text, NEW bound, NEW last, NEW k, NEW m,
           Gone(st, text, bound, last, k, m)
    PROVE  /\ View(text, last, m, Front(text, last, m))
           /\ Front(text, last, m)[1] = text[m + 1]
<1>1. FrontFacts(text, last, m)
  BY FrontIs, Zenon
<1>2. text \in Seq(S!Token)
  BY SettingIs DEF Gone
<1> DEFINE x == Front(text, last, m)
<1>3. /\ m \in Nat /\ last \in Nat /\ m + 1 <= last /\ last <= Len(text)
      /\ x \in Seq(S!Token) /\ Len(x) = last - m
      /\ \A i \in 1 .. last - m : x[i] = text[m + i]
  BY <1>1 DEF FrontFacts
<1> HIDE DEF x
<1>4. 1 \in 1 .. last - m /\ \A i \in 2 .. last - m : i \in 1 .. last - m
  BY <1>3
<1> QED BY <1>2, <1>3, <1>4 DEF View, x

(* A cut one byte into a token.                                            *)
LEMMA FromMiddle ==
    ASSUME NEW sql \in Seq(S!Token), NEW h \in Nat, h < Len(sql),
           sql[h + 1].w >= 2
    PROVE  LET r == S!From(sql, S!Ends(sql)[h] + 1) IN
           /\ r \in Seq(S!Token) /\ Len(r) = Len(sql) - h
           /\ r[1] = S!Word(sql[h + 1].w - 1)
           /\ \A i \in 2 .. Len(sql) - h : r[i] = sql[h + i]
<1>1. PICK m \in Nat : m = Len(sql)
  BY LenProperties
<1> DEFINE e == S!Ends(sql)
           n == e[h] + 1
           keep == {i \in 1 .. m : e[i] > n}
           cut == S!Min(keep)
           rest == e[cut] - n
           head == IF rest = sql[cut].w THEN sql[cut] ELSE S!Word(rest)
           r == S!From(sql, n)
<1>2. r = IF keep = {} THEN <<>> ELSE <<head>> \o SubSeq(sql, cut + 1, m)
  BY <1>1 DEF S!From
<1>3. h \in 0 .. m /\ h + 1 \in 1 .. m /\ h + 1 \in 0 .. m /\ (h + 1) - 1 = h
  BY <1>1
<1>4. \A i \in 0 .. m : e[i] \in Nat
  BY <1>1, EndsRise
<1>5. \A i, j \in 0 .. m : i < j => e[i] < e[j]
  BY <1>1, EndsGrow
<1>6. e[h + 1] = e[h] + sql[h + 1].w
  BY <1>1, <1>3, EndsIs
<1>7. sql[h + 1].w \in Nat /\ sql[h + 1] \in S!Token
  BY <1>1, <1>3, TokenWidth
<1>0. r \in Seq(S!Token)
  <2>1. n \in Nat
    BY <1>3, <1>4
  <2> HIDE DEF n
  <2> QED BY <2>1, FromType
<1> HIDE DEF e, r
<1>8. PICK a, w \in Nat : a = e[h] /\ w = sql[h + 1].w /\ w >= 2 /\ e[h + 1] = a + w
  BY <1>3, <1>4, <1>6, <1>7
<1>9. h + 1 \in keep
  BY <1>3, <1>8
<1>10. \A i \in keep : h + 1 <= i
  <2> SUFFICES ASSUME NEW i \in 1 .. m, e[i] > a + 1, ~(h + 1 <= i) PROVE FALSE
    BY <1>8
  <2>1. i \in 0 .. m /\ (i = h \/ i < h)
    OBVIOUS
  <2>2. e[i] = a \/ e[i] < a
    BY <1>3, <1>5, <1>8, <2>1
  <2>3. e[i] \in Nat
    BY <1>4, <2>1
  <2> QED BY <2>2, <2>3
<1>11. cut = h + 1
  <2>1. keep \in SUBSET Nat /\ keep # {}
    BY <1>9
  <2>2. cut \in keep /\ \A y \in keep : cut <= y
    <3> HIDE DEF keep
    <3> QED BY <2>1, MinIs
  <2>3. cut \in Nat
    BY <2>1, <2>2
  <2> HIDE DEF keep, cut
  <2> QED BY <1>9, <1>10, <2>2, <2>3
<1>12. rest = w - 1 /\ rest # w
  BY <1>8, <1>11
<1>13. head = S!Word(w - 1)
  <2> HIDE DEF rest, cut
  <2> QED BY <1>8, <1>11, <1>12
<1>14. r = <<S!Word(w - 1)>> \o SubSeq(sql, h + 2, m)
  <2>1. (h + 1) + 1 = h + 2
    OBVIOUS
  <2>2. keep # {}
    BY <1>9
  <2> HIDE DEF head, cut, keep
  <2> QED BY <1>2, <1>11, <1>13, <2>1, <2>2
<1> DEFINE q == SubSeq(sql, h + 2, m)
<1>15. /\ q \in Seq(S!Token) /\ Len(q) = m - (h + 1)
       /\ \A i \in 1 .. m - (h + 1) : q[i] = sql[h + 1 + i]
  BY <1>1, <1>3
<1>16. PICK p \in Seq(S!Token) : p = <<S!Word(w - 1)>>
  <2>1. S!Word(w - 1) = [k |-> "word", w |-> w - 1]
    BY DEF S!Word, S!Tok
  <2>2. "word" \in S!Kind /\ w - 1 \in Nat \ {0}
    BY <1>8 DEF S!Kind
  <2>3. S!Word(w - 1) \in S!Token
    BY <2>1, <2>2 DEF S!Token
  <2>4. <<S!Word(w - 1)>> \in Seq(S!Token)
    <3> HIDE DEF S!Word
    <3> QED BY <2>3
  <2> QED BY <2>4
<1>17. Len(p) = 1 /\ p[1] = S!Word(w - 1)
  BY <1>16
<1> HIDE DEF q
<1>18. /\ Len(p \o q) = 1 + Len(q) /\ (p \o q)[1] = p[1]
       /\ \A i \in 1 .. Len(q) : (p \o q)[1 + i] = q[i]
  <2>1. 1 \in 1 .. 1
    OBVIOUS
  <2>2. /\ Len(p \o q) = Len(p) + Len(q)
        /\ \A i \in 1 .. Len(p) : (p \o q)[i] = p[i]
        /\ \A i \in 1 .. Len(q) : (p \o q)[Len(p) + i] = q[i]
    BY <1>15, ConcatIs
  <2> QED BY <1>17, <2>1, <2>2
<1>19. r = p \o q
  BY <1>14, <1>16 DEF q
<1>20. Len(r) = m - h
  BY <1>3, <1>15, <1>18, <1>19
<1>21. \A i \in 2 .. m - h : r[i] = sql[h + i]
  <2> TAKE i \in 2 .. m - h
  <2>1. i - 1 \in 1 .. m - (h + 1) /\ 1 + (i - 1) = i /\ h + 1 + (i - 1) = h + i
    BY <1>3
  <2> QED BY <1>15, <1>18, <1>19, <2>1
<1>22. r[1] = S!Word(sql[h + 1].w - 1)
  BY <1>8, <1>17, <1>18, <1>19
<1> QED BY <1>1, <1>0, <1>20, <1>21, <1>22 DEF r, e

(* What the function goes on with behind the first of the tokens tok.      *)
LEMMA RestIs ==
    ASSUME NEW x \in Seq(S!Token), NEW tok, NEW j, IsFirst(x, tok, j),
           S!EndsOfComment(x) = S!Positions(x, tok)
    PROVE  /\ S!EndsOfComment(x) # {}
           /\ Rest(x) = S!From(x, S!Ends(x)[j - 1] + 2)
<1>1. j \in 1 .. Len(x) /\ x[j] = tok /\ \A i \in 1 .. j - 1 : x[i] # tok
  BY LenProperties DEF IsFirst
<1>2. S!Positions(x, tok) # {} /\ S!Min(S!Positions(x, tok)) = S!Ends(x)[j - 1]
  BY <1>1, FirstPosition
<1> QED BY <1>2 DEF Rest

(* A cut behind the token h of a view.                                     *)
LEMMA CutBehind ==
    ASSUME NEW text, NEW last, NEW m, NEW x, View(text, last, m, x),
           NEW m2 \in Nat, NEW h \in Nat \ {0}, h < last - m, m + h <= m2,
           \A i \in (m + h) + 1 .. m2 : text[i] \in S!White
    PROVE  Removed(text, last, m2, S!From(x, S!Ends(x)[h]))
<1>1. /\ text \in Seq(S!Token) /\ x \in Seq(S!Token)
      /\ m \in Nat /\ last \in Nat /\ m + 1 <= last /\ last <= Len(text)
      /\ Len(x) = last - m /\ \A i \in 2 .. last - m : x[i] = text[m + i]
  BY DEF View
<1>2. PICK g \in Nat : g = last - m /\ h < g /\ m + g = last
  BY <1>1
<1>3. S!From(x, S!Ends(x)[h]) = SubSeq(x, h + 1, g)
  <2>1. h < Len(x) /\ Len(x) = g /\ h \in Nat
    BY <1>1, <1>2
  <2> QED BY <1>1, <2>1, FromEnd
<1> DEFINE y == SubSeq(x, h + 1, g)
           p == m + h
           z == SubSeq(text, p + 1, last)
<1>4. PICK a, b \in Nat \ {0} : /\ a = h + 1 /\ b = p + 1 /\ a <= g + 1 /\ b <= last + 1
                                /\ (g - a) + 1 = g - h /\ (last - b) + 1 = g - h
  <2>1. /\ h + 1 \in Nat \ {0} /\ p + 1 \in Nat \ {0} /\ h + 1 <= g + 1
        /\ p + 1 <= last + 1
        /\ (g - (h + 1)) + 1 = g - h /\ (last - (p + 1)) + 1 = g - h
    BY <1>1, <1>2
  <2> QED BY ONLY <2>1, Zenon
<1>5. /\ y \in Seq(S!Token) /\ Len(y) = g - h
      /\ \A i \in 1 .. g - h : y[i] = x[a + i - 1]
  <2>1. g <= Len(x)
    BY <1>1, <1>2
  <2>2. /\ SubSeq(x, a, g) \in Seq(S!Token) /\ Len(SubSeq(x, a, g)) = (g - a) + 1
        /\ \A i \in 1 .. (g - a) + 1 : SubSeq(x, a, g)[i] = x[a + i - 1]
    BY ONLY <1>1, <1>2, <1>4, <2>1, SubSeqIs
  <2> QED BY <1>4, <2>2
<1>6. /\ z \in Seq(S!Token) /\ Len(z) = g - h
      /\ \A i \in 1 .. g - h : z[i] = text[b + i - 1]
  <2>2. /\ SubSeq(text, b, last) \in Seq(S!Token)
        /\ Len(SubSeq(text, b, last)) = (last - b) + 1
        /\ \A i \in 1 .. (last - b) + 1 : SubSeq(text, b, last)[i] = text[b + i - 1]
    BY <1>1, <1>4, SubSeqIs
  <2> QED BY <1>4, <2>2
<1> HIDE DEF y, z
<1>7. \A i \in 1 .. g - h : y[i] = z[i]
  <2> TAKE i \in 1 .. g - h
  <2>1. PICK l \in 2 .. g : l = a + i - 1 /\ m + l = b + i - 1
    <3>1. a + i - 1 \in 2 .. g /\ m + (a + i - 1) = b + i - 1
      BY <1>1, <1>2, <1>4
    <3> QED BY <3>1
  <2>2. x[l] = text[m + l]
    BY <1>1, <1>2
  <2> QED BY <1>5, <1>6, <2>1, <2>2
<1>8. y = z
  BY <1>5, <1>6, <1>7, SeqEqual
<1>9. p \in 0 .. m2 /\ last \in last .. Len(text) /\ \A i \in p + 1 .. m2 : text[i] \in S!White
  <2>1. PICK l \in Nat : l = Len(text) /\ last <= l
    BY <1>1, LenProperties
  <2>2. last \in last .. l /\ p \in 0 .. m2
    BY <1>1, <2>1
  <2> QED BY <2>1, <2>2
<1>10. Removed(text, last, m2, z)
  <2> HIDE DEF p
  <2> QED BY <1>9 DEF Removed, z
<1> QED BY <1>3, <1>8, <1>10 DEF y

(* A cut behind white: the byte behind a newline is of the next token.     *)
LEMMA SplitCut ==
    ASSUME NEW text, NEW last, NEW m, NEW x, View(text, last, m, x),
           NEW j \in Nat \ {0}, IsFirst(x, S!Newline, j), j < last - m,
           S!EndsOfComment(x) = S!Positions(x, S!Newline),
           x[j + 1].w \in Nat, x[j + 1].w >= 2
    PROVE  /\ S!EndsOfComment(x) # {}
           /\ View(text, last, m + j, Rest(x))
           /\ Rest(x)[1] = S!Word(x[j + 1].w - 1)
<1>1. /\ text \in Seq(S!Token) /\ x \in Seq(S!Token)
      /\ m \in Nat /\ last \in Nat /\ m + 1 <= last /\ last <= Len(text)
      /\ Len(x) = last - m /\ \A i \in 2 .. last - m : x[i] = text[m + i]
  BY DEF View
<1>2. PICK g \in Nat : g = last - m /\ j < g /\ m + g = last
  BY <1>1
<1>3. S!EndsOfComment(x) # {} /\ Rest(x) = S!From(x, S!Ends(x)[j - 1] + 2)
  BY <1>1, RestIs
<1>4. S!Ends(x)[j - 1] + 2 = S!Ends(x)[j] + 1
  <2>1. j \in 1 .. Len(x) /\ j - 1 \in 0 .. Len(x)
    BY <1>1, <1>2
  <2>2. S!Ends(x)[j] = S!Ends(x)[j - 1] + x[j].w
    BY <1>1, <2>1, EndsIs
  <2>3. x[j].w = 1
    BY TokensDiffer DEF IsFirst
  <2>4. PICK a \in Nat : a = S!Ends(x)[j - 1]
    BY <1>1, <2>1, EndsRise
  <2> QED BY <2>2, <2>3, <2>4
<1> DEFINE r == S!From(x, S!Ends(x)[j] + 1)
<1>5. /\ r \in Seq(S!Token) /\ Len(r) = Len(x) - j /\ r[1] = S!Word(x[j + 1].w - 1)
      /\ \A i \in 2 .. Len(x) - j : r[i] = x[j + i]
  <2>1. j < Len(x) /\ j \in Nat
    BY <1>1, <1>2
  <2> QED BY <1>1, <2>1, FromMiddle
<1> HIDE DEF r
<1>6. PICK p \in Nat : p = m + j /\ p + 1 <= last /\ last - p = g - j
  <2>1. m + j \in Nat /\ (m + j) + 1 <= last /\ last - (m + j) = g - j
    BY <1>1, <1>2
  <2> QED BY <2>1
<1>7. \A i \in 2 .. last - p : r[i] = text[p + i]
  <2> TAKE i \in 2 .. last - p
  <2>0. i \in 2 .. g - j
    BY <1>6
  <2>1. j + i \in 2 .. g /\ m + (j + i) = (m + j) + i
    BY <1>1, <1>2, <2>0
  <2>2. r[i] = x[j + i] /\ x[j + i] = text[m + (j + i)]
    BY <1>1, <1>2, <1>5, <2>0, <2>1
  <2> QED BY <1>6, <2>1, <2>2
<1>8. View(text, last, p, r)
  <2>1. Len(r) = last - p
    BY <1>1, <1>2, <1>5, <1>6
  <2> QED BY <1>1, <1>5, <1>6, <1>7, <2>1 DEF View
<1> QED BY <1>3, <1>4, <1>5, <1>6, <1>8 DEF r

(* The comment line behind the first k1 comments ends a view that has "--" *)
(* in front and no other newline.                                          *)
LEMMA LineCut ==
    ASSUME NEW st, NEW text, NEW bound, NEW last, NEW m, NEW x, NEW k1, NEW m1,
           NEW c, NEW m2,
           View(text, last, m, x), Gone(st, text, bound, last, k1, m1),
           NextComment(st, text, bound, last, k1, m1, c, m2),
           m <= m1, c[1] = S!Dashes, x[1] # S!Newline,
           \A i \in 1 .. m1 - m : x[i] # S!Newline,
           S!InHeader(x, S!Dashes)
    PROVE  /\ S!EndsOfComment(x) # {}
           /\ Removed(text, last, m2, Rest(x)) \/ Split(text, last, m2, Rest(x))
           /\ S!Indented(st) => Removed(text, last, m2, Rest(x))
<1> DEFINE e == S!Ends(x)
<1>1. /\ m1 \in Nat /\ Setting(st, text, bound, last)
      /\ m2 \in Nat /\ Gone(st, text, bound, last, k1 + 1, m2)
  BY DEF Gone, NextComment
<1>2. /\ text \in Seq(S!Token) /\ x \in Seq(S!Token)
      /\ m \in Nat /\ last \in Nat /\ m + 1 <= last /\ last <= Len(text)
      /\ Len(x) = last - m /\ \A i \in 2 .. last - m : x[i] = text[m + i]
  BY DEF View
<1>3. FrontFacts(text, last, m2)
  BY <1>1, FrontIs, Zenon
<1>4. PICK n \in Nat : n = Len(c) /\ m2 = m1 + n
  BY DEF NextComment
<1>5. PICK j \in Nat \ {0} : /\ IsFirst(c, S!Newline, j) /\ (S!Indented(st) => j + 1 <= n)
                             /\ \A l \in j + 1 .. n : c[l] \in S!White
  <2>1. k1 + 1 \in 1 .. Len(st.comments) /\ c \in S!Comment /\ c = st.comments[k1 + 1]
    BY DEF NextComment
  <2>2. PICK ki : ki = k1 + 1
    OBVIOUS
  <2>3. \E j \in Nat \ {0} :
           /\ IsFirst(c, S!Newline, j) /\ (S!Indented(st) => j + 1 <= Len(c))
           /\ \A l \in j + 1 .. Len(c) : c[l] \in S!White
    BY <1>1, <2>1, <2>2, LineComment
  <2> QED BY <1>4, <2>3
<1>6. PICK o, g \in Nat : o = m1 - m /\ g = last - m
  BY <1>1, <1>2
<1>7. /\ m2 + 1 <= last /\ Len(x) = g /\ \A i \in 2 .. g : x[i] = text[m + i]
  BY <1>2, <1>3, <1>6 DEF FrontFacts
<1>8. /\ \A i \in 1 .. n : text[m1 + i] = c[i]
      /\ j <= n /\ c[j] = S!Newline /\ \A i \in 1 .. j - 1 : c[i] # S!Newline
  BY <1>4, <1>5 DEF NextComment, IsFirst
<1>9. 2 <= j
  <2>1. j # 1
    BY <1>8, TokensDiffer
  <2> QED BY <2>1
<1> HIDE DEF e
<1> DEFINE jx == o + j
<1>10. /\ jx \in Nat \ {0} /\ jx \in 2 .. g /\ jx < g /\ jx + 1 \in 2 .. g
       /\ m + jx = m1 + j /\ m + (jx + 1) = m1 + (j + 1)
       /\ j \in 1 .. n /\ m = m1 - o
  BY <1>1, <1>2, <1>4, <1>6, <1>7, <1>8, <1>9
<1>11. ASSUME NEW i \in 1 .. jx - 1 PROVE x[i] # S!Newline
  <2>1. CASE i = 1
    BY <2>1
  <2>2. CASE i # 1 /\ i <= o
    <3>1. i \in 1 .. m1 - m
      BY <1>1, <1>2, <1>6, <2>2
    <3> QED BY <3>1
  <2>3. CASE i # 1 /\ ~(i <= o)
    <3>1. PICK l \in 1 .. j - 1 : l = i - o
      <4>1. i - o \in 1 .. j - 1
        BY <2>3
      <4> QED BY <4>1
    <3>2. l \in 1 .. n /\ m + i = m1 + l /\ i \in 2 .. g
      BY <1>1, <1>2, <1>6, <1>8, <1>10, <2>3, <3>1
    <3> QED BY <1>7, <1>8, <3>1, <3>2
  <2> QED BY <2>1, <2>2, <2>3
<1> HIDE DEF jx
<1>12. x[jx] = S!Newline /\ x[jx + 1] = text[m1 + (j + 1)]
  <2>1. x[jx] = text[m1 + j] /\ x[jx + 1] = text[m1 + (j + 1)]
    BY <1>7, <1>10
  <2> QED BY <1>8, <1>10, <2>1
<1>13. IsFirst(x, S!Newline, jx)
  <2>1. jx <= Len(x)
    BY <1>7, <1>10
  <2> QED BY <1>10, <1>11, <1>12, <2>1 DEF IsFirst
<1>14. S!EndsOfComment(x) = S!Positions(x, S!Newline)
  <2>1. jx \in 1 .. Len(x)
    BY <1>7, <1>10
  <2>2. S!Positions(x, S!Newline) # {}
    BY <1>2, <1>11, <1>12, <2>1, FirstPosition
  <2> QED BY <2>2 DEF S!EndsOfComment
<1>15. jx < last - m
  BY <1>6, <1>10
<1>16. CASE j + 1 <= n
  <2> DEFINE h == jx + 1
  <2>1. /\ h \in Nat \ {0} /\ h < g /\ m + h = m1 + (j + 1) /\ m + h <= m2 /\ h - 1 = jx
        /\ j + 1 \in 1 .. n /\ j + 1 \in j + 1 .. n
    BY <1>1, <1>2, <1>4, <1>6, <1>7, <1>10, <1>16
  <2>2. x[h] \in S!White
    BY <1>5, <1>8, <1>12, <2>1
  <2> HIDE DEF h
  <2>3. e[h] = e[jx - 1] + 2
    <3>1. jx \in 1 .. Len(x) /\ h \in 1 .. Len(x) /\ jx - 1 \in 0 .. Len(x)
      BY <1>7, <1>10, <2>1
    <3>2. e[jx] = e[jx - 1] + x[jx].w /\ e[h] = e[h - 1] + x[h].w
      BY <1>2, <3>1, EndsIs DEF e
    <3>3. x[jx].w = 1 /\ x[h].w = 1
      BY <1>12, <2>2, TokensDiffer
    <3>4. PICK a \in Nat : a = e[jx - 1]
      BY <1>2, <3>1, EndsRise DEF e
    <3> QED BY <2>1, <3>2, <3>3, <3>4
  <2>4. \A i \in (m + h) + 1 .. m2 : text[i] \in S!White
    <3> TAKE i \in (m + h) + 1 .. m2
    <3>1. PICK l \in j + 1 .. n : l = i - m1
      <4>1. i - m1 \in j + 1 .. n
        BY <1>1, <1>4, <2>1
      <4> QED BY <4>1
    <3>2. l \in 1 .. n /\ i = m1 + l
      BY <1>1, <3>1
    <3> QED BY <1>5, <1>8, <3>1, <3>2
  <2>5. h < last - m /\ m + h <= m2
    BY <1>6, <2>1
  <2>6. Removed(text, last, m2, S!From(x, S!Ends(x)[h]))
    BY <1>1, <2>1, <2>4, <2>5, CutBehind
  <2>7. S!EndsOfComment(x) # {} /\ Rest(x) = S!From(x, e[jx - 1] + 2)
    BY <1>2, <1>13, <1>14, RestIs DEF e
  <2>8. Removed(text, last, m2, Rest(x))
    BY <2>3, <2>6, <2>7 DEF e
  <2> QED BY <2>7, <2>8
<1>17. CASE ~(j + 1 <= n)
  <2>1. m + jx = m2 /\ m1 + (j + 1) = m2 + 1 /\ ~S!Indented(st)
    <3>1. j = n
      BY <1>8, <1>17
    <3> QED BY <1>1, <1>4, <1>5, <1>10, <1>17, <3>1
  <2>2. x[jx + 1] = text[m2 + 1] /\ text[m2 + 1].w \in Nat /\ text[m2 + 1].w >= 2
    BY <1>1, <1>12, <2>1, HeadIs
  <2>3. /\ S!EndsOfComment(x) # {} /\ View(text, last, m + jx, Rest(x))
        /\ Rest(x)[1] = S!Word(x[jx + 1].w - 1)
    BY <1>10, <1>13, <1>14, <1>15, <2>2, SplitCut
  <2> QED BY <2>1, <2>2, <2>3 DEF Split
<1> QED BY <1>16, <1>17

(* The block comment behind the first k1 comments is cut behind its end    *)
(* mark, if the view has no "--" and no other end mark in front.           *)
LEMMA BlockCut ==
    ASSUME NEW st, NEW text, NEW bound, NEW last, NEW m, NEW x, NEW k1, NEW m1,
           NEW c, NEW m2,
           View(text, last, m, x), Gone(st, text, bound, last, k1, m1),
           NextComment(st, text, bound, last, k1, m1, c, m2),
           m <= m1, c[1] = S!Open, x[1] # S!Close,
           \A i \in 1 .. m1 - m : x[i] # S!Close,
           ~S!InHeader(x, S!Dashes)
    PROVE  S!EndsOfComment(x) # {} /\ Removed(text, last, m2, Rest(x))
<1> DEFINE e == S!Ends(x)
<1>1. /\ m1 \in Nat /\ Setting(st, text, bound, last) /\ c \in S!Comment
      /\ m2 \in Nat /\ Gone(st, text, bound, last, k1 + 1, m2)
  BY DEF Gone, NextComment
<1>2. /\ text \in Seq(S!Token) /\ x \in Seq(S!Token)
      /\ m \in Nat /\ last \in Nat /\ m + 1 <= last /\ last <= Len(text)
      /\ Len(x) = last - m /\ \A i \in 2 .. last - m : x[i] = text[m + i]
  BY DEF View
<1>3. FrontFacts(text, last, m2)
  BY <1>1, FrontIs, Zenon
<1>4. PICK n \in Nat : n = Len(c) /\ m2 = m1 + n
  BY DEF NextComment
<1>5. PICK j \in Nat \ {0} : /\ IsFirst(c, S!Close, j) /\ 2 <= j
                             /\ \A l \in j + 1 .. n : c[l] \in S!White
  BY <1>1, <1>4, BlockComment
<1>6. PICK o, g \in Nat : o = m1 - m /\ g = last - m
  BY <1>1, <1>2
<1>7. /\ m2 + 1 <= last /\ Len(x) = g /\ \A i \in 2 .. g : x[i] = text[m + i]
  BY <1>2, <1>3, <1>6 DEF FrontFacts
<1>8. /\ \A i \in 1 .. n : text[m1 + i] = c[i]
      /\ j <= n /\ c[j] = S!Close /\ \A i \in 1 .. j - 1 : c[i] # S!Close
  BY <1>4, <1>5 DEF NextComment, IsFirst
<1> HIDE DEF e
<1> DEFINE jx == o + j
<1>9. /\ jx \in Nat \ {0} /\ jx \in 2 .. g /\ jx < g /\ m + jx = m1 + j /\ m + jx <= m2
      /\ j \in 1 .. n /\ m = m1 - o
  BY <1>1, <1>2, <1>4, <1>5, <1>6, <1>7, <1>8
<1>10. ASSUME NEW i \in 1 .. jx - 1 PROVE x[i] # S!Close
  <2>1. CASE i = 1
    BY <2>1
  <2>2. CASE i # 1 /\ i <= o
    <3>1. i \in 1 .. m1 - m
      BY <1>1, <1>2, <1>6, <2>2
    <3> QED BY <3>1
  <2>3. CASE i # 1 /\ ~(i <= o)
    <3>1. PICK l \in 1 .. j - 1 : l = i - o
      <4>1. i - o \in 1 .. j - 1
        BY <2>3
      <4> QED BY <4>1
    <3>2. l \in 1 .. n /\ m + i = m1 + l /\ i \in 2 .. g
      BY <1>1, <1>2, <1>6, <1>8, <1>9, <2>3, <3>1
    <3> QED BY <1>7, <1>8, <3>1, <3>2
  <2> QED BY <2>1, <2>2, <2>3
<1> HIDE DEF jx
<1>11. x[jx] = S!Close
  <2>1. x[jx] = text[m1 + j]
    BY <1>7, <1>9
  <2> QED BY <1>8, <1>9, <2>1
<1>12. IsFirst(x, S!Close, jx)
  <2>1. jx <= Len(x)
    BY <1>7, <1>9
  <2> QED BY <1>9, <1>10, <1>11, <2>1 DEF IsFirst
<1>13. S!EndsOfComment(x) = S!Positions(x, S!Close)
  BY DEF S!EndsOfComment
<1>14. e[jx] = e[jx - 1] + 2
  <2>1. jx \in 1 .. Len(x)
    BY <1>7, <1>9
  <2>2. e[jx] = e[jx - 1] + x[jx].w
    BY <1>2, <2>1, EndsIs DEF e
  <2> QED BY <1>11, <2>2, TokensDiffer
<1>15. \A i \in (m + jx) + 1 .. m2 : text[i] \in S!White
  <2> TAKE i \in (m + jx) + 1 .. m2
  <2>1. PICK l \in j + 1 .. n : l = i - m1
    <3>1. i - m1 \in j + 1 .. n
      BY <1>1, <1>4, <1>9
    <3> QED BY <3>1
  <2>2. l \in 1 .. n /\ i = m1 + l
    BY <1>1, <2>1
  <2> QED BY <1>5, <1>8, <2>1, <2>2
<1>16. jx < last - m /\ m + jx <= m2
  BY <1>6, <1>9
<1>17. Removed(text, last, m2, S!From(x, S!Ends(x)[jx]))
  BY <1>1, <1>9, <1>15, <1>16, CutBehind
<1>18. S!EndsOfComment(x) # {} /\ Rest(x) = S!From(x, e[jx - 1] + 2)
  BY <1>2, <1>12, <1>13, RestIs DEF e
<1> QED BY <1>14, <1>17, <1>18 DEF e

(* "--" is in front of a block comment only if the comment is empty and    *)
(* "--" follows.                                                           *)
LEMMA EmptyBlock ==
    ASSUME NEW st, NEW text, NEW bound, NEW last, NEW k, NEW m, NEW c, NEW m2,
           Gone(st, text, bound, last, k, m),
           NextComment(st, text, bound, last, k, m, c, m2), c[1] = S!Open,
           S!InHeader(Front(text, last, m), S!Dashes)
    PROVE  /\ text[m2 + 1] = S!Dashes
           /\ \A i \in m + 1 .. m2 : text[i] # S!Newline
<1> DEFINE x == Front(text, last, m)
           e == S!Ends(x)
<1>1. /\ last \in Nat /\ m \in Nat /\ Setting(st, text, bound, last)
      /\ m2 \in Nat /\ Gone(st, text, bound, last, k + 1, m2)
      /\ c \in S!Comment /\ c \in Seq(S!Token)
  BY DEF Gone, NextComment
<1>2. FrontFacts(text, last, m) /\ FrontFacts(text, last, m2)
  BY <1>1, FrontIs, Zenon
<1>3. PICK n \in Nat : n = Len(c) /\ m2 = m + n
  BY DEF NextComment
<1>4. PICK j \in Nat \ {0} : IsFirst(c, S!Close, j) /\ 2 <= j
  BY <1>1, BlockComment
<1>5. PICK g \in Nat : g = last - m
  BY <1>1, <1>2 DEF FrontFacts
<1>6. /\ m2 + 1 <= last /\ x \in Seq(S!Token) /\ Len(x) = g
      /\ \A i \in 1 .. g : x[i] = text[m + i]
  BY <1>2, <1>5 DEF FrontFacts
<1>7. (\A i \in 1 .. n : text[m + i] = c[i]) /\ j <= n /\ c[j] = S!Close
  BY <1>3, <1>4 DEF NextComment, IsFirst
<1>8. PICK i \in 1 .. g : x[i] = S!Dashes /\ e[i - 1] + 2 <= 6
  <2>1. PICK p \in S!Positions(x, S!Dashes) : p + 2 <= 6
    BY TokensDiffer DEF S!InHeader, S!HeaderWidth
  <2> QED BY <1>6, <2>1 DEF S!Positions
<1> HIDE DEF x, e
<1>9. n < g /\ \A l \in 1 .. n : l \in 1 .. g /\ x[l] = c[l]
  <2>1. n < g
    BY <1>1, <1>3, <1>5, <1>6
  <2>2. \A l \in 1 .. n : l \in 1 .. g
    BY <2>1
  <2> QED BY <1>6, <1>7, <2>1, <2>2
<1>10. ~(i <= n)
  <2> SUFFICES ASSUME i <= n PROVE FALSE
    OBVIOUS
  <2>1. ~S!Early(c, S!Dashes)
    <3>1. k + 1 \in 1 .. Len(st.comments) /\ c = st.comments[k + 1]
      BY DEF NextComment
    <3> QED BY <1>1, <3>1, TokensDiffer DEF Setting, S!Plain
  <2>2. i \in 1 .. n /\ i - 1 \in 0 .. n
    OBVIOUS
  <2>3. c[i] = S!Dashes
    BY <1>8, <1>9, <2>2
  <2>4. S!Ends(c)[i - 1] = e[i - 1]
    <3>1. Len(c) <= Len(x)
      BY <1>3, <1>6, <1>9
    <3>2. \A l \in 1 .. Len(c) : x[l] = c[l]
      BY <1>3, <1>9
    <3>3. \A l \in 0 .. Len(c) : S!Ends(x)[l] = S!Ends(c)[l]
      BY <1>1, <1>6, <3>1, <3>2, EndsOfPrefix
    <3> QED BY <1>3, <2>2, <3>3 DEF e
  <2>5. S!Ends(c)[i - 1] \in S!Positions(c, S!Dashes)
    BY <1>3, <2>2, <2>3 DEF S!Positions
  <2>6. PICK p \in Nat : p = S!Ends(c)[i - 1]
    BY <1>1, <1>3, <2>2, EndsRise
  <2>7. p + 2 <= 6
    BY <1>8, <2>4, <2>6
  <2>8. p + 2 <= 6 + 1
    BY <2>7
  <2>9. p + S!Dashes.w <= S!HeaderWidth + 1
    BY <2>8, TokensDiffer DEF S!HeaderWidth
  <2> QED BY <2>1, <2>5, <2>6, <2>9 DEF S!Early
<1>11. \A l \in 0 .. g : e[l] \in Nat
  BY <1>6, EndsRise DEF e
<1>12. \A a, b \in 0 .. g : a < b => e[a] < e[b]
  BY <1>6, EndsGrow DEF e
<1>13. e[0] = 0 /\ \A l \in 1 .. g : e[l] = e[l - 1] + x[l].w
  BY <1>6, EndsIs DEF e
<1>14. /\ 1 \in 1 .. n /\ j \in 1 .. n /\ 1 \in 0 .. g /\ 1 \in 1 .. g
       /\ j \in 1 .. g /\ j \in 0 .. g
       /\ j - 1 \in 0 .. g /\ i - 1 \in 0 .. g /\ j <= i - 1 /\ 1 <= j - 1
  BY <1>4, <1>7, <1>9, <1>10
<1>15. x[1].w = 2 /\ x[j].w = 2
  BY <1>7, <1>9, <1>14, TokensDiffer
<1>16. e[1] = 2
  <2>1. e[1] = e[1 - 1] + x[1].w /\ 1 - 1 = 0
    BY <1>13, <1>14
  <2> QED BY <1>13, <1>15, <2>1
<1>17. PICK a, b, d \in Nat : a = e[j - 1] /\ b = e[j] /\ d = e[i - 1] /\ b = a + 2
  BY <1>11, <1>13, <1>14, <1>15
<1>18. d + 2 <= 6
  BY <1>8, <1>17
<1>19. 1 = j - 1 \/ 2 < a
  <2>1. 1 < j - 1 => e[1] < e[j - 1]
    BY <1>12, <1>14
  <2>2. 1 = j - 1 \/ 1 < j - 1
    BY <1>14
  <2> QED BY <1>16, <1>17, <2>1, <2>2
<1>20. 1 = j - 1 => a = 2
  BY <1>16, <1>17
<1>21. j = i - 1 \/ b < d
  <2>1. j < i - 1 => e[j] < e[i - 1]
    BY <1>12, <1>14
  <2>2. j = i - 1 \/ j < i - 1
    BY <1>14
  <2> QED BY <1>17, <2>1, <2>2
<1>22. j = i - 1 => b = d
  BY <1>17
<1>23. 1 = j - 1 /\ j = i - 1
  BY <1>17, <1>18, <1>19, <1>20, <1>21, <1>22
<1>24. n = 2 /\ i = 3 /\ j = 2
  BY <1>7, <1>10, <1>23
<1>25. text[m2 + 1] = S!Dashes
  <2>1. m + i = m2 + 1
    BY <1>1, <1>3, <1>24
  <2>2. text[m + i] = S!Dashes
    BY <1>6, <1>8
  <2> QED BY <2>1, <2>2
<1>26. ASSUME NEW l \in m + 1 .. m2 PROVE text[l] # S!Newline
  <2>1. l = m + 1 \/ l = m + 2
    BY <1>1, <1>3, <1>24, <1>26
  <2>2. text[m + 1] = S!Open /\ text[m + 2] = S!Close
    BY <1>7, <1>14, <1>24
  <2> QED BY <2>1, <2>2, TokensDiffer
<1> QED BY <1>25, <1>26

(* One call on a text with the first k comments removed.                   *)
LEMMA ScanPasses ==
    ASSUME NEW st, NEW text, NEW bound, NEW last, NEW k, NEW m,
           Gone(st, text, bound, last, k, m), MustPass(st),
           NEW r, Removed(text, last, m, r), NEW depth \in 0 .. 4
    PROVE  \/ S!Scan(r, depth).answer = "yes"
           \/ /\ S!Scan(r, depth).answer = "again"
              /\ \E k2, m2 : /\ k2 \in Nat /\ k2 > k
                             /\ Gone(st, text, bound, last, k2, m2)
                             /\ Removed(text, last, m2, S!Scan(r, depth).rest)
<1> DEFINE sql2 == S!TrimSpace(r)
           x == Front(text, last, m)
           end == S!Min(S!EndsOfComment(sql2)) + 2
           out == IF S!TooDeep(depth) \/ S!Width(sql2) < S!HeaderWidth THEN "no"
                  ELSE IF sql2[1] \in S!Selects THEN "yes"
                  ELSE IF ~S!InHeader(sql2, S!Dashes) /\ ~S!InHeader(sql2, S!Open) THEN "no"
                  ELSE IF S!EndsOfComment(sql2) = {} THEN "no"
                  ELSE IF end > S!Width(sql2) THEN "panic"
                  ELSE "again"
<1>1. S!Scan(r, depth) =
        [answer |-> out, rest |-> IF out = "again" THEN S!From(sql2, end) ELSE <<>>]
  BY DEF S!Scan
<1>2. sql2 = x /\ r \in Seq(S!Token)
  BY RemovedTrimmed
<1>3. ~(S!TooDeep(depth) \/ S!Width(sql2) < S!HeaderWidth)
  <2>1. S!Width(x) \in Nat /\ S!Width(x) >= S!HeaderWidth
    BY FrontWide
  <2>2. ~(S!Width(x) < S!HeaderWidth)
    BY <2>1 DEF S!HeaderWidth
  <2>3. ~S!TooDeep(depth)
    BY DEF S!TooDeep
  <2> QED BY <1>2, <2>2, <2>3, Zenon
<1>4. S!Scan(r, depth).answer # "panic"
  BY <1>2, ScanSafe
<1>5. /\ last \in Nat /\ m \in Nat /\ k \in Nat /\ Setting(st, text, bound, last)
      /\ k \in 0 .. Len(st.comments) /\ m = bound[k]
  BY DEF Gone
<1>6. FrontFacts(text, last, m)
  BY FrontIs, Zenon
<1>7. 1 \in 1 .. Len(x) /\ x \in Seq(S!Token) /\ x[1] = text[m + 1]
  <2>1. /\ m + 1 <= last /\ Len(x) = last - m /\ x \in Seq(S!Token)
        /\ \A i \in 1 .. last - m : x[i] = text[m + i]
    BY <1>6 DEF FrontFacts
  <2>2. 1 \in 1 .. last - m
    BY <1>5, <2>1
  <2> QED BY <2>1, <2>2
<1>8. CASE k = Len(st.comments)
  <2>1. text[m + 1] = st.verb /\ st.verb \in S!Selects
    BY <1>8, HeadIs DEF MustPass, WithinLimits
  <2>2. out = "yes"
    <3> HIDE DEF sql2, x, end
    <3> QED BY <1>2, <1>3, <1>7, <2>1
  <2> QED BY <1>1, <2>2
<1>9. CASE k # Len(st.comments)
  <2>1. k < Len(st.comments)
    <3>1. PICK n \in Nat : n = Len(st.comments)
      BY <1>5, SettingIs
    <3> QED BY <1>5, <1>9, <3>1
  <2>2. PICK c \in S!Comment, m2 \in Nat : NextComment(st, text, bound, last, k, m, c, m2)
    BY <2>1, NextGone
  <2>3. /\ c[1] \in {S!Dashes, S!Open} /\ c[1] = text[m + 1]
        /\ Gone(st, text, bound, last, k + 1, m2) /\ m <= m2
    <3>1. PICK n \in Nat : n = Len(c) /\ n >= 1 /\ m2 = m + n
      BY <2>2 DEF NextComment
    <3>2. 1 \in 1 .. n /\ m <= m2
      BY <1>5, <3>1
    <3> QED BY <2>2, <3>1, <3>2 DEF NextComment
  <2>4. c[1] \notin S!Selects /\ x[1] = c[1]
    BY <1>7, <2>3, TokensDiffer
  <2>5. S!InHeader(x, c[1])
    <3>1. c[1].w = 2
      BY <2>3, TokensDiffer
    <3>2. S!Ends(x)[1 - 1] \in S!Positions(x, c[1])
      BY <1>7, <2>4 DEF S!Positions
    <3>3. S!Ends(x)[1 - 1] = 0
      BY <1>7, EndsIs
    <3>4. 0 + 2 <= 6
      OBVIOUS
    <3> QED BY <3>1, <3>2, <3>3, <3>4 DEF S!InHeader, S!HeaderWidth
  <2>6. \E k2, m3 : /\ k2 \in Nat /\ k2 > k
                    /\ Gone(st, text, bound, last, k2, m3)
                    /\ S!EndsOfComment(x) # {} /\ Removed(text, last, m3, Rest(x))
    <3>0. View(text, last, m, x) /\ S!Indented(st)
      BY FrontView DEF MustPass, WithinLimits
    <3> HIDE DEF x
    <3>1. k + 1 \in Nat /\ k + 1 > k /\ k + 1 + 1 \in Nat /\ k + 1 + 1 > k
      BY <1>5
    <3>2. CASE c[1] = S!Dashes
      <4>1. x[1] # S!Newline /\ \A i \in 1 .. m - m : x[i] # S!Newline
        BY <1>5, <2>4, <3>2, TokensDiffer
      <4>2. m <= m
        BY <1>5
      <4>3. S!InHeader(x, S!Dashes)
        BY <2>5, <3>2
      <4>4. S!EndsOfComment(x) # {} /\ Removed(text, last, m2, Rest(x))
        BY <2>2, <3>0, <3>2, <4>1, <4>2, <4>3, LineCut
      <4> QED BY <2>3, <3>1, <4>4
    <3>3. CASE c[1] = S!Open /\ ~S!InHeader(x, S!Dashes)
      <4>0. m <= m /\ x[1] # S!Close /\ \A i \in 1 .. m - m : x[i] # S!Close
        BY <1>5, <2>4, <3>3, TokensDiffer
      <4>1. S!EndsOfComment(x) # {} /\ Removed(text, last, m2, Rest(x))
        BY <2>2, <3>0, <3>3, <4>0, BlockCut
      <4> QED BY <2>3, <3>1, <4>1
    <3>4. CASE c[1] = S!Open /\ S!InHeader(x, S!Dashes)
      <4>1. /\ text[m2 + 1] = S!Dashes
            /\ \A i \in m + 1 .. m2 : text[i] # S!Newline
        BY <2>2, <3>4, EmptyBlock DEF x
      <4>2. k + 1 < Len(st.comments)
        <5>1. /\ k + 1 \in 0 .. Len(st.comments) /\ m2 = bound[k + 1]
          BY <2>3 DEF Gone
        <5>2. k + 1 # Len(st.comments)
          <6> SUFFICES ASSUME k + 1 = Len(st.comments) PROVE FALSE
            OBVIOUS
          <6>1. text[m2 + 1] = st.verb /\ st.verb \in S!Selects
            BY <2>3, HeadIs DEF MustPass, WithinLimits
          <6> QED BY <4>1, <6>1, TokensDiffer
        <5>3. PICK n \in Nat : n = Len(st.comments)
          BY <1>5, SettingIs
        <5> QED BY <3>1, <5>1, <5>2, <5>3
      <4>3. PICK c2 \in S!Comment, m3 \in Nat :
               NextComment(st, text, bound, last, k + 1, m2, c2, m3)
        BY <2>3, <4>2, NextGone
      <4>4. c2[1] = S!Dashes /\ Gone(st, text, bound, last, k + 1 + 1, m3)
        <5>1. PICK n \in Nat : n = Len(c2) /\ n >= 1
          BY <4>3 DEF NextComment
        <5>2. 1 \in 1 .. n
          BY <5>1
        <5>3. text[m2 + 1] = c2[1]
          BY <4>3, <5>1, <5>2 DEF NextComment
        <5> QED BY <4>1, <4>3, <5>3 DEF NextComment
      <4>5. x[1] # S!Newline /\ \A i \in 1 .. m2 - m : x[i] # S!Newline
        <5>1. x[1] # S!Newline
          BY <2>4, <3>4, TokensDiffer
        <5>2. ASSUME NEW i \in 1 .. m2 - m, i # 1 PROVE x[i] # S!Newline
          <6>1. /\ m2 + 1 <= last /\ \A l \in 2 .. last - m : x[l] = text[m + l]
            <7>1. FrontFacts(text, last, m2)
              BY <2>3, FrontIs, Zenon
            <7> QED BY <3>0, <7>1 DEF View, FrontFacts
          <6>2. i \in 2 .. last - m /\ m + i \in m + 1 .. m2
            BY <1>5, <5>2, <6>1
          <6> QED BY <4>1, <6>1, <6>2
        <5> QED BY <5>1, <5>2
      <4>6. S!EndsOfComment(x) # {} /\ Removed(text, last, m3, Rest(x))
        BY <2>3, <3>0, <3>4, <4>3, <4>4, <4>5, LineCut
      <4> QED BY <3>1, <4>4, <4>6
    <3> QED BY <2>3, <3>2, <3>3, <3>4
  <2>7. PICK k2, m3 : /\ k2 \in Nat /\ k2 > k
                      /\ Gone(st, text, bound, last, k2, m3)
                      /\ S!EndsOfComment(x) # {} /\ Removed(text, last, m3, Rest(x))
    BY <2>6
  <2>8. /\ S!EndsOfComment(x) # {}
        /\ Removed(text, last, m3, S!From(x, S!Min(S!EndsOfComment(x)) + 2))
    BY <2>7 DEF Rest
  <2>9. S!InHeader(sql2, S!Dashes) \/ S!InHeader(sql2, S!Open)
    BY <1>2, <2>3, <2>5
  <2>10. sql2[1] \notin S!Selects /\ S!EndsOfComment(sql2) # {}
    BY <1>2, <2>4, <2>8
  <2>11. out = "again"
    <3>1. out # "panic"
      BY <1>1, <1>4
    <3> HIDE DEF sql2, x, end
    <3> QED BY <1>3, <2>9, <2>10, <3>1
  <2>12. S!Scan(r, depth).answer = "again" /\ S!Scan(r, depth).rest = S!From(sql2, end)
    <3> HIDE DEF sql2, end, out
    <3> QED BY <1>1, <2>11
  <2>13. Removed(text, last, m3, S!Scan(r, depth).rest)
    BY <1>2, <2>8, <2>12
  <2> QED BY <2>7, <2>12, <2>13
<1> QED BY <1>8, <1>9

(* The first call is given a text of which nothing is gone.                *)
LEMMA FirstCall ==
    ASSUME NEW st \in S!Statement, S!Plain(st)
    PROVE  \E bound, last :
              /\ Gone(st, S!TextOf(st), bound, last, 0, 0)
              /\ Removed(S!TextOf(st), last, 0, S!TextOf(st))
<1> DEFINE sql == S!TextOf(st)
<1>1. PICK bound : Shape(st, sql, bound)
  BY TextHasShape
<1>2. sql \in Seq(S!Token)
  BY TextType
<1>3. PICK n, v, l \in Nat : n = Len(st.comments) /\ v = bound[n] /\ l = Len(sql) /\ v + 1 <= l
  <2>1. st.comments \in Seq(S!Comment) /\ st.tail \in Seq(S!Token)
    BY StatementType
  <2>2. PICK n, l, t \in Nat : n = Len(st.comments) /\ l = Len(sql) /\ t = Len(st.tail)
    BY <1>2, <2>1, LenProperties
  <2>3. n \in 0 .. n
    OBVIOUS
  <2>4. PICK v \in Nat : v = bound[n] /\ l = v + 1 + t
    <3> HIDE DEF sql
    <3> QED BY <1>1, <2>2, <2>3 DEF Shape
  <2>5. v + 1 <= l
    BY <2>4
  <2> QED BY <2>2, <2>4, <2>5
<1>4. sql[v + 1] = st.verb /\ st.verb \notin S!White
  <2>1. st.verb \notin S!White
    BY StatementType
  <2> HIDE DEF sql
  <2> QED BY <1>1, <1>3, <2>1 DEF Shape
<1> HIDE DEF sql
<1>5. PICK last \in Nat : /\ v + 1 <= last /\ last <= l /\ sql[last] \notin S!White
                          /\ \A i \in last + 1 .. l : sql[i] \in S!White
  <2> DEFINE T == {i \in 1 .. l : sql[i] \notin S!White}
  <2>1. v + 1 \in T
    BY <1>3, <1>4
  <2>2. T \in SUBSET (1 .. l)
    OBVIOUS
  <2>3. S!Max(T) \in T /\ \A y \in T : y <= S!Max(T)
    <3> HIDE DEF T
    <3> QED BY <2>1, <2>2, MaxIs
  <2>4. PICK last \in Nat : last \in T /\ \A y \in T : y <= last
    BY <2>2, <2>3
  <2>5. ASSUME NEW i \in last + 1 .. l PROVE sql[i] \in S!White
    <3>1. i \in 1 .. l /\ ~(i <= last)
      BY <2>4
    <3> QED BY <2>4, <3>1
  <2>6. v + 1 <= last /\ last <= l /\ sql[last] \notin S!White
    BY <2>1, <2>4
  <2> QED BY <2>5, <2>6
<1>6. Setting(st, sql, bound, last)
  <2>1. last \in 1 .. l
    BY <1>5
  <2> QED BY <1>1, <1>3, <1>5, <2>1 DEF Setting
<1>7. Gone(st, sql, bound, last, 0, 0)
  <2>1. bound[0] = 0
    BY <1>1 DEF Shape
  <2>2. 0 \in 0 .. n
    OBVIOUS
  <2> QED BY <1>3, <1>6, <2>1, <2>2 DEF Gone
<1>8. Removed(sql, last, 0, sql)
  <2>1. SubSeq(sql, 1, l) = sql
    BY <1>2, <1>3
  <2>2. 0 \in 0 .. 0 /\ l \in last .. l /\ 0 + 1 = 1 /\ \A i \in 0 + 1 .. 0 : sql[i] \in S!White
    BY <1>5
  <2> QED BY <1>3, <2>1, <2>2 DEF Removed
<1> QED BY <1>7, <1>8 DEF sql

(* A statement that must pass does.                                        *)
LEMMA FilterPasses ==
    ASSUME NEW st \in S!Statement, MustPass(st)
    PROVE  S!isSelectStatement(S!TextOf(st)) = "yes"
<1> DEFINE sql == S!TextOf(st)
<1>1. PICK bound, last : Gone(st, sql, bound, last, 0, 0) /\ Removed(sql, last, 0, sql)
  BY FirstCall DEF MustPass, WithinLimits
<1>2. PICK n \in Nat : n = Len(st.comments)
  BY <1>1, SettingIs DEF Gone
<1> HIDE DEF sql
<1> DEFINE Passing(c, d) ==
              \/ c.answer = "yes"
              \/ /\ c.answer = "again"
                 /\ \E k, m : /\ k \in Nat /\ k >= d
                              /\ Gone(st, sql, bound, last, k, m)
                              /\ Removed(sql, last, m, c.rest)
<1>9. PICK h : /\ S!isSelectStatement(sql) = h[5].answer
               /\ h[0] = S!Scan(sql, 0)
               /\ \A d \in 1 .. 5 :
                     h[d] = IF h[d - 1].answer = "again"
                            THEN S!Scan(h[d - 1].rest, d) ELSE h[d - 1]
  BY CallsAre
<1>10. Passing(h[0], 1)
  <2>1. 0 \in 0 .. 4
    OBVIOUS
  <2>2. \/ S!Scan(sql, 0).answer = "yes"
        \/ /\ S!Scan(sql, 0).answer = "again"
           /\ \E k2, m2 : /\ k2 \in Nat /\ k2 > 0
                          /\ Gone(st, sql, bound, last, k2, m2)
                          /\ Removed(sql, last, m2, S!Scan(sql, 0).rest)
    BY <1>1, <2>1, ScanPasses
  <2>3. \A k2 \in Nat : k2 > 0 => k2 >= 1
    OBVIOUS
  <2> QED BY <1>9, <2>2, <2>3
<1>11. ASSUME NEW d \in 1 .. 4, Passing(h[d - 1], d) PROVE Passing(h[d], d + 1)
  <2>1. h[d] = IF h[d - 1].answer = "again" THEN S!Scan(h[d - 1].rest, d) ELSE h[d - 1]
    <3>1. d \in 1 .. 5
      OBVIOUS
    <3> QED BY <1>9, <3>1
  <2>2. CASE h[d - 1].answer = "yes"
    BY <2>1, <2>2
  <2>3. CASE h[d - 1].answer = "again"
    <3>1. PICK c : c = h[d - 1] /\ c.answer = "again"
      BY <2>3
    <3>2. PICK k, m : /\ k \in Nat /\ k >= d
                      /\ Gone(st, sql, bound, last, k, m)
                      /\ Removed(sql, last, m, c.rest)
      BY <1>11, <2>3, <3>1
    <3>3. d \in 0 .. 4
      OBVIOUS
    <3>4. \/ S!Scan(c.rest, d).answer = "yes"
          \/ /\ S!Scan(c.rest, d).answer = "again"
             /\ \E k2, m2 : /\ k2 \in Nat /\ k2 > k
                            /\ Gone(st, sql, bound, last, k2, m2)
                            /\ Removed(sql, last, m2, S!Scan(c.rest, d).rest)
      BY <3>2, <3>3, ScanPasses
    <3>5. \A k2 \in Nat : k2 > k => k2 >= d + 1
      BY <3>2
    <3>6. h[d] = S!Scan(c.rest, d)
      BY <2>1, <3>1
    <3> QED BY <3>4, <3>5, <3>6
  <2> QED BY <1>11, <2>2, <2>3
<1>12. Passing(h[4], 5)
  <2> HIDE DEF Passing
  <2>1. Passing(h[1], 2)
    <3>1. 1 \in 1 .. 4 /\ 1 - 1 = 0 /\ 1 + 1 = 2
      OBVIOUS
    <3> QED BY <1>10, <1>11, <3>1
  <2>2. Passing(h[2], 3)
    <3>1. 2 \in 1 .. 4 /\ 2 - 1 = 1 /\ 2 + 1 = 3
      OBVIOUS
    <3> QED BY <1>11, <2>1, <3>1
  <2>3. Passing(h[3], 4)
    <3>1. 3 \in 1 .. 4 /\ 3 - 1 = 2 /\ 3 + 1 = 4
      OBVIOUS
    <3> QED BY <1>11, <2>2, <3>1
  <2>4. 4 \in 1 .. 4 /\ 4 - 1 = 3 /\ 4 + 1 = 5
    OBVIOUS
  <2> QED BY <1>11, <2>3, <2>4
<1>13. h[4].answer = "yes"
  <2> SUFFICES ASSUME NEW k \in Nat, k >= 5, NEW m, Gone(st, sql, bound, last, k, m)
               PROVE  FALSE
    BY <1>12
  <2>1. k \in 0 .. n /\ n <= 4
    BY <1>2 DEF Gone, MustPass, WithinLimits
  <2> QED BY <2>1
<1>14. h[5] = h[4]
  <2>1. 5 \in 1 .. 5 /\ 5 - 1 = 4
    OBVIOUS
  <2> QED BY <1>9, <1>13, <2>1
<1> QED BY <1>9, <1>13, <1>14 DEF sql

(***************************************************************************)
(* The statements that must not pass.  Of these a call may leave more: a   *)
(* text whose first token has lost a byte.                                 *)
(***************************************************************************)

(* tok is the token i, within the first six bytes.                         *)
At(x, tok, i) ==
    /\ i \in Nat \ {0} /\ i <= Len(x) /\ x[i] = tok
    /\ S!Ends(x)[i - 1] \in Nat /\ S!Ends(x)[i - 1] <= 4

Marks == {S!Dashes, S!Open}

LEMMA HeaderHas ==
    ASSUME NEW x \in Seq(S!Token), NEW tok \in Marks
    PROVE  /\ S!InHeader(x, tok) => \E i : At(x, tok, i)
           /\ \A i : At(x, tok, i) => S!InHeader(x, tok)
<1>1. tok.w = 2
  BY TokensDiffer DEF Marks
<1>2. PICK g \in Nat : g = Len(x)
  BY LenProperties
<1>3. ASSUME S!InHeader(x, tok) PROVE \E i : At(x, tok, i)
  <2>1. PICK i \in 1 .. g : x[i] = tok /\ S!Ends(x)[i - 1] + 2 <= 6
    BY <1>1, <1>2, <1>3 DEF S!InHeader, S!Positions, S!HeaderWidth
  <2>2. i - 1 \in 0 .. g /\ i \in Nat \ {0} /\ i <= g
    OBVIOUS
  <2>3. PICK a \in Nat : a = S!Ends(x)[i - 1]
    BY <1>2, <2>2, EndsRise
  <2>4. a <= 4
    BY <2>1, <2>3
  <2>5. At(x, tok, i)
    BY <1>2, <2>1, <2>2, <2>3, <2>4 DEF At
  <2> QED BY <2>5
<1>4. ASSUME NEW i, At(x, tok, i) PROVE S!InHeader(x, tok)
  <2>1. i \in 1 .. g /\ x[i] = tok
    BY <1>2, <1>4 DEF At
  <2>2. PICK a \in Nat : a = S!Ends(x)[i - 1] /\ a <= 4
    BY <1>4 DEF At
  <2>3. a \in S!Positions(x, tok)
    BY <1>2, <2>1, <2>2 DEF S!Positions
  <2>4. a + 2 <= 6
    BY <2>2
  <2> QED BY <1>1, <2>3, <2>4 DEF S!InHeader, S!HeaderWidth
<1> QED BY <1>3, <1>4

(* A mark at the end of seven bytes is early.                              *)
LEMMA IsEarly ==
    ASSUME NEW s \in Seq(S!Token), NEW tok \in Marks, NEW i \in 1 .. Len(s), s[i] = tok,
           S!Ends(s)[i - 1] <= 5
    PROVE  S!Early(s, tok)
<1>1. tok.w = 2
  BY TokensDiffer DEF Marks
<1>2. PICK g \in Nat : g = Len(s)
  BY LenProperties
<1>3. i - 1 \in 0 .. g
  BY <1>2
<1>4. PICK a \in Nat : a = S!Ends(s)[i - 1]
  BY <1>2, <1>3, EndsRise
<1>5. a \in S!Positions(s, tok) /\ a + 2 <= 6 + 1
  BY <1>4 DEF S!Positions
<1> QED BY <1>1, <1>5 DEF S!Early, S!HeaderWidth

(* A text that begins as s does, but for a byte of the first token.        *)
Begins(x, s, q) ==
    /\ x \in Seq(S!Token) /\ s \in Seq(S!Token)
    /\ q \in Nat /\ q >= 1 /\ q <= Len(x) /\ q <= Len(s)
    /\ \A i \in 2 .. q : x[i] = s[i]
    /\ x[1] = s[1] \/ (s[1].w >= 2 /\ x[1] = S!Word(s[1].w - 1))

LEMMA BeginsEnds ==
    ASSUME NEW x, NEW s, NEW q, Begins(x, s, q)
    PROVE  \A i \in 0 .. q : S!Ends(s)[i] <= S!Ends(x)[i] + 1
<1> DEFINE e == S!Ends(x)
           f == S!Ends(s)
           G == {i \in 0 .. q : f[i] <= e[i] + 1}
<1>1. /\ x \in Seq(S!Token) /\ s \in Seq(S!Token)
      /\ q \in Nat /\ q >= 1 /\ q <= Len(x) /\ q <= Len(s)
      /\ \A i \in 2 .. q : x[i] = s[i]
  BY DEF Begins
<1>2. PICK a, b \in Nat : a = Len(x) /\ b = Len(s) /\ q <= a /\ q <= b
  BY <1>1, LenProperties
<1>3. \A i \in 0 .. q : i \in 0 .. a /\ i \in 0 .. b
  BY <1>1, <1>2
<1>4. \A i \in 1 .. q : i \in 1 .. a /\ i \in 1 .. b
  BY <1>1, <1>2
<1>5. \A i \in 0 .. q : e[i] \in Nat /\ f[i] \in Nat
  BY <1>1, <1>2, <1>3, EndsRise
<1>6. /\ e[0] = 0 /\ f[0] = 0
      /\ \A i \in 1 .. q : e[i] = e[i - 1] + x[i].w
      /\ \A i \in 1 .. q : f[i] = f[i - 1] + s[i].w
  BY <1>1, <1>2, <1>4, EndsIs
<1>7. \A i \in 1 .. q : x[i].w \in Nat /\ s[i].w \in Nat
  BY <1>1, <1>2, <1>4, TokenWidth
<1>8. s[1].w <= x[1].w + 1
  <2>1. PICK u \in Nat : u = s[1].w
    BY <1>1, <1>7
  <2>2. CASE x[1] = s[1]
    BY <2>1, <2>2
  <2>3. CASE u >= 2 /\ x[1] = S!Word(u - 1)
    <3>1. x[1].w = u - 1
      BY <2>3 DEF S!Word, S!Tok
    <3> QED BY <2>1, <2>3, <3>1
  <2> QED BY <2>1, <2>2, <2>3 DEF Begins
<1> HIDE DEF e, f
<1>9. 0 \in G
  BY <1>1, <1>6
<1>10. ASSUME NEW i \in 0 .. q - 1, i \in G PROVE i + 1 \in G
  <2>1. i \in 0 .. q /\ i + 1 \in 1 .. q /\ i + 1 \in 0 .. q /\ (i + 1) - 1 = i
    BY <1>1
  <2>2. PICK y, z, v, w \in Nat : y = e[i] /\ z = f[i] /\ v = x[i + 1].w /\ w = s[i + 1].w
    BY <1>5, <1>7, <2>1
  <2>3. e[i + 1] = y + v /\ f[i + 1] = z + w
    BY <1>6, <2>1, <2>2
  <2>4. CASE i = 0
    <3>1. y = 0 /\ z = 0 /\ w <= v + 1
      BY <1>6, <1>8, <2>2, <2>4
    <3>2. f[i + 1] <= e[i + 1] + 1
      BY <2>3, <3>1
    <3> QED BY <2>1, <3>2
  <2>5. CASE i # 0
    <3>1. i + 1 \in 2 .. q
      BY <2>1, <2>5
    <3>2. v = w /\ z <= y + 1
      BY <1>1, <1>10, <2>2, <3>1
    <3>3. f[i + 1] <= e[i + 1] + 1
      BY <2>3, <3>2
    <3> QED BY <2>1, <3>3
  <2> QED BY <2>4, <2>5
<1>11. \A i \in 0 .. q : i \in G
  <2> HIDE DEF G
  <2> QED BY <1>1, <1>9, <1>10, UpTo
<1> QED BY <1>11 DEF e, f

(* A mark that is not early in s is not in the header of such a text,      *)
(* except behind s.                                                        *)
LEMMA MarkBehind ==
    ASSUME NEW x, NEW s, NEW q, Begins(x, s, q), NEW tok \in Marks,
           ~S!Early(s, tok), NEW i, At(x, tok, i)
    PROVE  q < i
<1>1. /\ x \in Seq(S!Token) /\ s \in Seq(S!Token)
      /\ q \in Nat /\ q >= 1 /\ q <= Len(s)
      /\ \A j \in 2 .. q : x[j] = s[j]
  BY DEF Begins
<1>2. PICK b \in Nat : b = Len(s) /\ q <= b
  BY <1>1, LenProperties
<1>3. i \in Nat \ {0} /\ x[i] = tok
  BY DEF At
<1> SUFFICES ASSUME i <= q PROVE FALSE
  BY <1>1, <1>3
<1>4. i \in 1 .. b /\ i - 1 \in 0 .. q /\ i - 1 \in 0 .. b
  BY <1>1, <1>2, <1>3
<1>5. s[i] = tok
  <2>1. CASE i = 1
    <3>1. x[1] # S!Word(s[1].w - 1)
      BY <1>3, <2>1 DEF Marks, S!Word, S!Tok, S!Dashes, S!Open
    <3> QED BY <1>3, <2>1, <3>1 DEF Begins
  <2>2. CASE i # 1
    <3>1. i \in 2 .. q
      BY <1>3, <2>2
    <3> QED BY <1>1, <1>3, <3>1
  <2> QED BY <2>1, <2>2
<1>6. PICK u, v \in Nat : u = S!Ends(x)[i - 1] /\ u <= 4 /\ v = S!Ends(s)[i - 1]
  BY <1>1, <1>2, <1>4, EndsRise DEF At
<1>7. v <= u + 1
  BY <1>4, <1>6, BeginsEnds
<1>8. v <= 5
  BY <1>6, <1>7
<1> QED BY <1>1, <1>2, <1>4, <1>5, <1>6, <1>8, IsEarly

(* A part of a text: its positions do not rise by what is in front of it.  *)
LEMMA PartEnds ==
    ASSUME NEW x \in Seq(S!Token), NEW s \in Seq(S!Token), NEW d \in Nat, NEW q \in Nat,
           q <= Len(s), d + q <= Len(x), \A i \in 1 .. q : x[d + i] = s[i]
    PROVE  \A i \in 0 .. q : S!Ends(s)[i] <= S!Ends(x)[d + i]
<1> DEFINE e == S!Ends(x)
           f == S!Ends(s)
           G == {i \in 0 .. q : f[i] <= e[d + i]}
<1>1. PICK a, b \in Nat : a = Len(x) /\ b = Len(s) /\ q <= b /\ d + q <= a
  BY LenProperties
<1>2. \A i \in 0 .. q : d + i \in 0 .. a /\ i \in 0 .. b
  BY <1>1
<1>3. \A i \in 1 .. q : d + i \in 1 .. a /\ i \in 1 .. b /\ d + i - 1 = d + (i - 1)
  BY <1>1
<1>4. \A i \in 0 .. q : f[i] \in Nat /\ e[d + i] \in Nat
  BY <1>1, <1>2, EndsRise
<1>5. f[0] = 0 /\ \A i \in 1 .. q : f[i] = f[i - 1] + s[i].w
  BY <1>1, <1>3, EndsIs
<1>6. \A i \in 1 .. q : e[d + i] = e[d + (i - 1)] + s[i].w
  <2>1. \A j \in 1 .. a : e[j] = e[j - 1] + x[j].w
    BY <1>1, EndsIs
  <2> HIDE DEF e
  <2> TAKE i \in 1 .. q
  <2>2. d + i \in 1 .. a /\ (d + i) - 1 = d + (i - 1) /\ x[d + i] = s[i]
    BY <1>1
  <2>3. e[d + i] = e[(d + i) - 1] + x[d + i].w
    BY <2>1, <2>2
  <2> QED BY <2>2, <2>3
<1>7. \A i \in 1 .. q : s[i].w \in Nat
  BY <1>1, <1>3, TokenWidth
<1> HIDE DEF e, f
<1>8. 0 \in G
  <2>1. 0 \in 0 .. q
    OBVIOUS
  <2>2. e[d + 0] \in Nat
    BY <1>4, <2>1
  <2>3. f[0] <= e[d + 0]
    BY <1>5, <2>2
  <2> QED BY <2>1, <2>3
<1>9. ASSUME NEW i \in 0 .. q - 1, i \in G PROVE i + 1 \in G
  <2>1. i + 1 \in 1 .. q /\ i + 1 \in 0 .. q /\ (i + 1) - 1 = i /\ i \in 0 .. q
    OBVIOUS
  <2>2. PICK y, z, w \in Nat : y = f[i] /\ z = e[d + i] /\ w = s[i + 1].w
    BY <1>4, <1>7, <2>1
  <2>3. f[i + 1] = y + w /\ e[d + (i + 1)] = z + w
    BY <1>5, <1>6, <2>1, <2>2
  <2>4. y <= z
    BY <1>9, <2>2
  <2>5. y + w <= z + w
    BY <2>4
  <2> QED BY <2>1, <2>3, <2>5
<1>10. \A i \in 0 .. q : i \in G
  <2> HIDE DEF G
  <2> QED BY <1>8, <1>9, UpTo
<1> QED BY <1>10 DEF e, f

(* Four bytes that hold a mark of two and a newline begin with one byte.   *)
LEMMA Tight ==
    ASSUME NEW x \in Seq(S!Token), NEW z \in Nat, z <= Len(x), S!Ends(x)[z] <= 4,
           NEW a \in 2 .. z, NEW b \in 2 .. z, a < b, x[a].w + x[b].w = 3
    PROVE  z = 3 /\ a = 2 /\ b = 3 /\ x[1].w = 1
<1> DEFINE e == S!Ends(x)
<1>1. PICK g \in Nat : g = Len(x) /\ z <= g
  BY LenProperties
<1>2. /\ a \in 1 .. g /\ b \in 1 .. g /\ 1 \in 1 .. g /\ z \in 0 .. g /\ 1 \in 0 .. g
      /\ a \in 0 .. g /\ b \in 0 .. g /\ a - 1 \in 0 .. g /\ b - 1 \in 0 .. g
  BY <1>1
<1>3. \A i \in 0 .. g : e[i] \in Nat
  BY <1>1, EndsRise
<1>4. \A i, j \in 0 .. g : i < j => e[i] < e[j]
  BY <1>1, EndsGrow
<1>5. e[0] = 0 /\ \A i \in 1 .. g : e[i] = e[i - 1] + x[i].w
  BY <1>1, EndsIs
<1>6. \A i \in 1 .. g : x[i].w \in Nat /\ x[i].w >= 1
  BY <1>1, TokenWidth
<1> HIDE DEF e
<1>7. PICK e1, ea0, ea, eb0, eb, ez \in Nat :
         /\ e1 = e[1] /\ ea0 = e[a - 1] /\ ea = e[a]
         /\ eb0 = e[b - 1] /\ eb = e[b] /\ ez = e[z]
  BY <1>2, <1>3
<1>8. PICK u, v, w \in Nat : /\ u = x[1].w /\ v = x[a].w /\ w = x[b].w
                             /\ u >= 1 /\ v + w = 3
  BY <1>2, <1>6
<1>9. e1 = u
  <2>1. e[1] = e[1 - 1] + x[1].w /\ 1 - 1 = 0
    BY <1>2, <1>5
  <2>2. e[1] = 0 + u
    BY <1>5, <1>8, <2>1
  <2> QED BY <1>7, <2>2
<1>10. ea = ea0 + v /\ eb = eb0 + w
  BY <1>2, <1>5, <1>7, <1>8
<1>11. ez <= 4
  BY <1>7 DEF e
<1>12. u <= ea0 /\ (1 = a - 1 \/ u < ea0)
  <2>1. 1 = a - 1 \/ 1 < a - 1
    OBVIOUS
  <2>2. 1 < a - 1 => e1 < ea0
    BY <1>2, <1>4, <1>7
  <2>3. 1 = a - 1 => e1 = ea0
    BY <1>7
  <2> QED BY <1>9, <2>1, <2>2, <2>3
<1>13. ea <= eb0 /\ (a = b - 1 \/ ea < eb0)
  <2>1. a = b - 1 \/ a < b - 1
    OBVIOUS
  <2>2. a < b - 1 => ea < eb0
    BY <1>2, <1>4, <1>7
  <2>3. a = b - 1 => ea = eb0
    BY <1>7
  <2> QED BY <2>1, <2>2, <2>3
<1>14. eb <= ez /\ (b = z \/ eb < ez)
  <2>1. b = z \/ b < z
    OBVIOUS
  <2>2. b < z => eb < ez
    BY <1>2, <1>4, <1>7
  <2>3. b = z => eb = ez
    BY <1>7
  <2> QED BY <2>1, <2>2, <2>3
<1>15. a = 2 /\ b = 3 /\ z = 3 /\ u = 1
  <2>0. u >= 1 /\ v + w = 3 /\ u <= ea0 /\ ea <= eb0 /\ eb <= ez
    BY <1>8, <1>12, <1>13, <1>14
  <2>1. u = 1 /\ ~(u < ea0) /\ ~(ea < eb0) /\ ~(eb < ez)
    BY <1>10, <1>11, <2>0
  <2> QED BY <1>12, <1>13, <1>14, <2>1
<1> QED BY <1>8, <1>15

(* What a call may be given, behind the first k comments: Seen is a text   *)
(* that begins with what is behind them, possibly without its first byte,  *)
(* Odd one with a byte of the comment in front of a comment line.          *)
Seen(st, text, bound, last, k, m, x) ==
    /\ Gone(st, text, bound, last, k, m) /\ View(text, last, m, x)
    /\ x[1] = text[m + 1] \/ x[1] = S!Word(text[m + 1].w - 1)

Odd(st, text, bound, last, k, m, x) ==
    /\ Gone(st, text, bound, last, k, m) /\ k # Len(st.comments)
    /\ m >= 1 /\ text[m + 1] = S!Dashes
    /\ View(text, last, m - 1, x) /\ x[1] = S!Word(1)

Left(st, text, bound, last, r) ==
    \E k, m : \/ Gone(st, text, bound, last, k, m) /\ Removed(text, last, m, r)
              \/ Gone(st, text, bound, last, k, m) /\ Split(text, last, m, r)
              \/ Odd(st, text, bound, last, k, m, r)

(* There is nothing to trim when the first token is a word.                *)
LEMMA TrimNothing ==
    ASSUME NEW st, NEW text, NEW bound, NEW last, Setting(st, text, bound, last),
           NEW m, NEW x, View(text, last, m, x), NEW w, x[1] = S!Word(w)
    PROVE  S!TrimSpace(x) = x /\ x \in Seq(S!Token)
<1>1. /\ x \in Seq(S!Token) /\ m \in Nat /\ last \in Nat /\ m + 1 <= last
      /\ Len(x) = last - m /\ \A i \in 2 .. last - m : x[i] = text[m + i]
  BY DEF View
<1>2. PICK g \in Nat : g = last - m /\ g = Len(x) /\ 1 <= g /\ m + g = last
  BY <1>1
<1>3. x[1] \notin S!White
  BY DEF S!White, S!Space, S!Newline, S!Return, S!Word, S!Tok
<1>4. x[g] \notin S!White
  <2>1. CASE g = 1
    BY <1>3, <2>1
  <2>2. CASE g # 1
    <3>1. g \in 2 .. g
      BY <1>2, <2>2
    <3>2. x[g] = text[last]
      BY <1>1, <1>2, <3>1
    <3> QED BY <3>2 DEF Setting
  <2> QED BY <2>1, <2>2
<1>0. PICK p, a, b : p = 0 /\ a = 1 /\ b = g
  OBVIOUS
<1>5. Surrounded(x, p, g, a, b)
  <2>1. 0 \in Nat /\ g <= Len(x) /\ 1 \in 0 + 1 .. g /\ g \in 1 .. g
    BY <1>2
  <2>2. /\ \A i \in 0 + 1 .. 1 - 1 : x[i] \in S!White
        /\ \A i \in g + 1 .. g : x[i] \in S!White
    OBVIOUS
  <2> QED BY <1>0, <1>1, <1>2, <1>3, <1>4, <2>1, <2>2 DEF Surrounded
<1>6. S!TrimSpace(SubSeq(x, p + 1, g)) = SubSeq(x, a, b)
  BY ONLY <1>5, TrimPart
<1>7. SubSeq(x, a, b) = x /\ SubSeq(x, p + 1, g) = x
  BY <1>0, <1>1, <1>2
<1> QED BY <1>1, <1>6, <1>7

LEMMA LeftTrimmed ==
    ASSUME NEW st, NEW text, NEW bound, NEW last, NEW r, Left(st, text, bound, last, r)
    PROVE  /\ r \in Seq(S!Token)
           /\ \E k, m : \/ Seen(st, text, bound, last, k, m, S!TrimSpace(r))
                        \/ Odd(st, text, bound, last, k, m, S!TrimSpace(r))
<1>1. PICK k, m : \/ Gone(st, text, bound, last, k, m) /\ Removed(text, last, m, r)
                  \/ Gone(st, text, bound, last, k, m) /\ Split(text, last, m, r)
                  \/ Odd(st, text, bound, last, k, m, r)
  BY DEF Left
<1>2. CASE Gone(st, text, bound, last, k, m) /\ Removed(text, last, m, r)
  <2>1. S!TrimSpace(r) = Front(text, last, m) /\ r \in Seq(S!Token)
    BY <1>2, RemovedTrimmed
  <2>2. /\ View(text, last, m, Front(text, last, m))
        /\ Front(text, last, m)[1] = text[m + 1]
    BY <1>2, FrontView
  <2>3. Seen(st, text, bound, last, k, m, S!TrimSpace(r))
    BY <1>2, <2>1, <2>2 DEF Seen
  <2> QED BY <2>1, <2>3
<1>3. CASE Gone(st, text, bound, last, k, m) /\ Split(text, last, m, r)
  <2>1. View(text, last, m, r) /\ r[1] = S!Word(text[m + 1].w - 1)
    BY <1>3 DEF Split
  <2>2. Setting(st, text, bound, last)
    BY <1>3 DEF Gone
  <2>3. S!TrimSpace(r) = r /\ r \in Seq(S!Token)
    BY <2>1, <2>2, TrimNothing
  <2>4. Seen(st, text, bound, last, k, m, S!TrimSpace(r))
    BY <1>3, <2>1, <2>3 DEF Seen
  <2> QED BY <2>3, <2>4
<1>4. CASE Odd(st, text, bound, last, k, m, r)
  <2>1. View(text, last, m - 1, r) /\ r[1] = S!Word(1)
    BY <1>4 DEF Odd
  <2>2. Setting(st, text, bound, last)
    BY <1>4 DEF Gone, Odd
  <2>3. S!TrimSpace(r) = r /\ r \in Seq(S!Token)
    BY <2>1, <2>2, TrimNothing
  <2> QED BY <1>4, <2>3
<1> QED BY <1>1, <1>2, <1>3, <1>4

(* The verb and what follows, which has no early mark.                     *)
VerbTextIs(text, v, s) ==
    /\ Len(s) = Len(text) - v
    /\ \A i \in 1 .. Len(text) - v : s[i] = text[v + i]
    /\ \A tok \in Marks : ~S!Early(s, tok)

LEMMA VerbText ==
    ASSUME NEW st, NEW text, NEW bound, NEW last, NEW v,
           Gone(st, text, bound, last, Len(st.comments), v)
    PROVE  \E s \in Seq(S!Token) : VerbTextIs(text, v, s)
<1>1. SubSeq(text, v + 1, Len(text)) = <<st.verb>> \o st.tail
  BY CoreIs
<1>2. Setting(st, text, bound, last) /\ v \in Nat /\ FrontFacts(text, last, v)
  BY FrontIs, Zenon DEF Gone
<1>3. \A tok \in Marks : ~S!Early(<<st.verb>> \o st.tail, tok)
  BY <1>2 DEF Setting, S!Plain, Marks
<1>4. text \in Seq(S!Token) /\ v + 1 <= Len(text)
  <2>1. v + 1 <= last /\ last <= Len(text) /\ last \in Nat
    BY <1>2 DEF FrontFacts
  <2>2. text \in Seq(S!Token) /\ Len(text) \in Nat
    BY <1>2, SettingIs
  <2> QED BY <1>2, <2>1, <2>2
<1>5. PICK l \in Nat : l = Len(text)
  BY <1>4, LenProperties
<1>6. PICK a \in Nat \ {0} : a = v + 1
  BY <1>2
<1> DEFINE s == SubSeq(text, a, l)
<1>7. /\ s \in Seq(S!Token) /\ Len(s) = (l - a) + 1
      /\ \A i \in 1 .. (l - a) + 1 : s[i] = text[a + i - 1]
  <2>1. a <= l + 1 /\ l <= Len(text)
    BY <1>4, <1>5, <1>6
  <2> QED BY <1>4, <2>1, SubSeqIs
<1> HIDE DEF s
<1>8. (l - a) + 1 = l - v /\ \A i \in 1 .. l - v : a + i - 1 = v + i
  BY <1>2, <1>6
<1>9. Len(s) = l - v /\ \A i \in 1 .. l - v : s[i] = text[v + i]
  BY <1>7, <1>8
<1>10. s = <<st.verb>> \o st.tail
  BY <1>1, <1>5, <1>6 DEF s
<1>11. VerbTextIs(text, v, s)
  BY <1>3, <1>5, <1>9, <1>10 DEF VerbTextIs
<1> QED BY <1>7, <1>11

(* No mark is in the header once all comments are gone.                    *)
LEMMA VerbSeen ==
    ASSUME NEW st, NEW text, NEW bound, NEW last, NEW m, NEW x,
           Seen(st, text, bound, last, Len(st.comments), m, x), NEW tok \in Marks
    PROVE  ~S!InHeader(x, tok)
<1>1. /\ Gone(st, text, bound, last, Len(st.comments), m) /\ View(text, last, m, x)
      /\ x[1] = text[m + 1] \/ x[1] = S!Word(text[m + 1].w - 1)
  BY DEF Seen
<1>0. PICK s \in Seq(S!Token) : VerbTextIs(text, m, s)
  BY <1>1, VerbText
<1>2. /\ Len(s) = Len(text) - m
      /\ \A i \in 1 .. Len(text) - m : s[i] = text[m + i]
      /\ \A t \in Marks : ~S!Early(s, t)
  BY <1>0 DEF VerbTextIs
<1>3. /\ text \in Seq(S!Token) /\ x \in Seq(S!Token) /\ m \in Nat /\ last \in Nat
      /\ m + 1 <= last /\ last <= Len(text) /\ Len(x) = last - m
      /\ \A i \in 2 .. last - m : x[i] = text[m + i]
  BY <1>1 DEF View
<1>4. PICK q, l \in Nat : q = last - m /\ l = Len(text) - m /\ q <= l /\ 1 <= q
  <2>1. Len(text) \in Nat
    BY <1>3, LenProperties
  <2>2. last - m \in Nat /\ Len(text) - m \in Nat /\ last - m <= Len(text) - m /\ 1 <= last - m
    BY <1>3, <2>1
  <2> QED BY <2>2
<1>5. s[1] = text[m + 1]
  <2>1. 1 \in 1 .. l
    BY <1>4
  <2> QED BY <1>2, <1>4, <2>1
<1>6. \A i \in 2 .. q : x[i] = s[i]
  <2> TAKE i \in 2 .. q
  <2>1. i \in 1 .. l
    BY <1>4
  <2> QED BY <1>2, <1>3, <1>4, <2>1
<1>7. text[m + 1].w >= 2
  BY <1>1, HeadIs
<1>8. q <= Len(x) /\ q <= Len(s)
  BY <1>2, <1>3, <1>4
<1>9. Begins(x, s, q)
  BY <1>1, <1>2, <1>3, <1>4, <1>5, <1>6, <1>7, <1>8 DEF Begins
<1> SUFFICES ASSUME S!InHeader(x, tok) PROVE FALSE
  OBVIOUS
<1>10. PICK i : At(x, tok, i)
  BY <1>3, HeaderHas
<1>11. q < i
  BY <1>2, <1>9, <1>10, MarkBehind
<1>12. i \in Nat /\ i <= q
  BY <1>3, <1>4, <1>10 DEF At
<1> QED BY <1>4, <1>11, <1>12

(* A text that begins with a comment.                                      *)
LEMMA CommentSeen ==
    ASSUME NEW st, NEW text, NEW bound, NEW last, NEW k, NEW m, NEW x, NEW c, NEW m2,
           Seen(st, text, bound, last, k, m, x),
           NextComment(st, text, bound, last, k, m, c, m2)
    PROVE  /\ Begins(x, c, Len(c)) /\ Len(c) + 1 <= Len(x)
           /\ x[Len(c) + 1] = text[m2 + 1]
           /\ x[1] = c[1] \/ x[1] = S!Word(1)
<1>1. /\ Gone(st, text, bound, last, k, m) /\ View(text, last, m, x)
      /\ x[1] = text[m + 1] \/ x[1] = S!Word(text[m + 1].w - 1)
  BY DEF Seen
<1>2. /\ text \in Seq(S!Token) /\ x \in Seq(S!Token) /\ m \in Nat /\ last \in Nat
      /\ m + 1 <= last /\ last <= Len(text) /\ Len(x) = last - m
      /\ \A i \in 2 .. last - m : x[i] = text[m + i]
  BY <1>1 DEF View
<1>3. PICK z \in Nat : z = Len(c) /\ z >= 1 /\ m2 = m + z
  BY DEF NextComment
<1>4. c \in Seq(S!Token) /\ c[1] \in Marks /\ \A i \in 1 .. z : text[m + i] = c[i]
  BY <1>3 DEF NextComment, Marks
<1>5. m2 + 1 <= last
  <2>1. Gone(st, text, bound, last, k + 1, m2)
    BY DEF NextComment
  <2>2. FrontFacts(text, last, m2)
    BY <2>1, FrontIs, Zenon
  <2> QED BY <2>2 DEF FrontFacts
<1>6. PICK g \in Nat : g = last - m /\ g = Len(x) /\ z + 1 <= g
  BY <1>2, <1>3, <1>5
<1>7. text[m + 1] = c[1]
  <2>1. 1 \in 1 .. z
    BY <1>3
  <2> QED BY <1>4, <2>1
<1>8. c[1].w = 2 /\ 2 - 1 = 1
  BY <1>4, TokensDiffer DEF Marks
<1>9. \A i \in 2 .. z : x[i] = c[i]
  <2> TAKE i \in 2 .. z
  <2>1. i \in 1 .. z /\ i \in 2 .. g
    BY <1>6
  <2> QED BY <1>2, <1>4, <1>6, <2>1
<1>10. x[1] = c[1] \/ x[1] = S!Word(c[1].w - 1)
  BY <1>1, <1>7
<1>11. x[1] = c[1] \/ x[1] = S!Word(1)
  BY <1>8, <1>10
<1>12. Begins(x, c, z)
  <2>1. c[1].w >= 2 /\ z <= Len(x) /\ z <= Len(c)
    BY <1>3, <1>6, <1>8
  <2> QED BY <1>2, <1>3, <1>4, <1>9, <1>10, <2>1 DEF Begins
<1>13. x[z + 1] = text[m2 + 1]
  <2>1. z + 1 \in 2 .. g /\ m + (z + 1) = m2 + 1
    BY <1>2, <1>3, <1>6
  <2> QED BY <1>2, <1>6, <2>1
<1> QED BY <1>3, <1>6, <1>11, <1>12, <1>13

(* A mark in the header behind the comment at the front: another comment   *)
(* follows, and begins in the header.                                      *)
LEMMA NextSeen ==
    ASSUME NEW st, NEW text, NEW bound, NEW last, NEW k, NEW m, NEW x, NEW c, NEW m2,
           Seen(st, text, bound, last, k, m, x),
           NextComment(st, text, bound, last, k, m, c, m2),
           NEW tok \in Marks, NEW i, At(x, tok, i), Len(c) < i
    PROVE  /\ S!Ends(x)[Len(c)] \in Nat /\ S!Ends(x)[Len(c)] <= 4
           /\ x[Len(c) + 1] \in Marks /\ At(x, x[Len(c) + 1], Len(c) + 1)
           /\ \E c2, m3 : /\ NextComment(st, text, bound, last, k + 1, m2, c2, m3)
                          /\ c2[1] = x[Len(c) + 1]
<1>1. /\ Begins(x, c, Len(c)) /\ Len(c) + 1 <= Len(x)
      /\ x[Len(c) + 1] = text[m2 + 1]
  BY CommentSeen
<1>2. /\ Gone(st, text, bound, last, k + 1, m2) /\ Setting(st, text, bound, last)
      /\ k \in Nat /\ View(text, last, m, x)
  BY DEF Seen, NextComment, Gone
<1>3. /\ text \in Seq(S!Token) /\ x \in Seq(S!Token) /\ m \in Nat /\ last \in Nat
      /\ m + 1 <= last /\ last <= Len(text) /\ Len(x) = last - m
      /\ \A j \in 2 .. last - m : x[j] = text[m + j]
  BY <1>2 DEF View
<1>4. PICK z \in Nat : z = Len(c) /\ z >= 1 /\ m2 = m + z
  BY DEF NextComment
<1>5. PICK g \in Nat : g = Len(x) /\ g = last - m /\ z + 1 <= g
  BY <1>1, <1>3, <1>4
<1>6. i \in Nat \ {0} /\ i <= g /\ x[i] = tok /\ z < i
  BY <1>4, <1>5 DEF At
<1>7. PICK u \in Nat : u = S!Ends(x)[i - 1] /\ u <= 4
  BY DEF At
<1>8. PICK f \in Nat : f = S!Ends(x)[z] /\ f <= u
  <2>1. z \in 0 .. g /\ i - 1 \in 0 .. g /\ (z = i - 1 \/ z < i - 1)
    BY <1>5, <1>6
  <2>2. PICK f \in Nat : f = S!Ends(x)[z]
    BY <1>3, <1>5, <2>1, EndsRise
  <2>3. z < i - 1 => S!Ends(x)[z] < S!Ends(x)[i - 1]
    BY <1>3, <1>5, <2>1, EndsGrow
  <2>4. f = u \/ f < u
    BY <1>7, <2>1, <2>2, <2>3
  <2> QED BY <2>2, <2>4
<1>9. f <= 4
  BY <1>7, <1>8
<1>10. k + 1 # Len(st.comments)
  <2> SUFFICES ASSUME k + 1 = Len(st.comments) PROVE FALSE
    OBVIOUS
  <2>1. PICK s \in Seq(S!Token) : VerbTextIs(text, m2, s)
    BY <1>2, VerbText
  <2>2. /\ Len(s) = Len(text) - m2
        /\ \A j \in 1 .. Len(text) - m2 : s[j] = text[m2 + j]
        /\ \A t \in Marks : ~S!Early(s, t)
    BY <2>1 DEF VerbTextIs
  <2>3. PICK q, l \in Nat : q = g - z /\ l = Len(text) - m2 /\ q <= l
    <3>1. Len(text) \in Nat
      BY <1>3, LenProperties
    <3>2. g - z \in Nat /\ Len(text) - m2 \in Nat /\ g - z <= Len(text) - m2
      BY <1>3, <1>4, <1>5, <3>1
    <3> QED BY <3>2
  <2>4. \A j \in 1 .. q : x[z + j] = s[j]
    <3> TAKE j \in 1 .. q
    <3>1. j \in 1 .. l /\ z + j \in 2 .. g /\ m + (z + j) = m2 + j
      BY <1>3, <1>4, <1>5, <2>3
    <3>2. x[z + j] = text[m + (z + j)]
      BY <1>3, <1>5, <3>1
    <3> QED BY <2>2, <2>3, <3>1, <3>2
  <2>5. q <= Len(s) /\ z + q <= Len(x)
    BY <1>5, <2>2, <2>3
  <2>6. \A j \in 0 .. q : S!Ends(s)[j] <= S!Ends(x)[z + j]
    BY <1>3, <2>4, <2>5, PartEnds
  <2>7. PICK j \in 1 .. q : i = z + j
    <3>1. i - z \in 1 .. q /\ i = z + (i - z)
      BY <1>6, <2>3
    <3> QED BY <3>1
  <2>8. j - 1 \in 0 .. q /\ z + (j - 1) = i - 1 /\ j \in 1 .. l /\ j - 1 \in 0 .. l
    BY <2>3, <2>7
  <2>9. PICK y \in Nat : y = S!Ends(s)[j - 1]
    BY <2>2, <2>3, <2>8, EndsRise
  <2>10. y <= u
    BY <1>7, <2>6, <2>8, <2>9
  <2>11. y <= 5
    BY <1>7, <2>10
  <2>12. s[j] = tok
    BY <1>6, <2>4, <2>7
  <2>13. S!Early(s, tok)
    BY <2>2, <2>3, <2>8, <2>9, <2>11, <2>12, IsEarly
  <2> QED BY <2>2, <2>13
<1>11. k + 1 < Len(st.comments)
  <2>1. k + 1 \in 0 .. Len(st.comments)
    BY <1>2 DEF Gone
  <2>2. PICK n \in Nat : n = Len(st.comments)
    BY <1>2, SettingIs
  <2> QED BY <1>2, <1>10, <2>1, <2>2
<1>12. PICK c2 \in S!Comment, m3 \in Nat :
          NextComment(st, text, bound, last, k + 1, m2, c2, m3)
  BY <1>2, <1>11, NextGone
<1>13. c2[1] = text[m2 + 1] /\ c2[1] \in Marks
  <2>1. PICK n \in Nat : n = Len(c2) /\ n >= 1
    BY <1>12 DEF NextComment
  <2>2. 1 \in 1 .. n
    BY <2>1
  <2> QED BY <1>12, <2>1, <2>2 DEF NextComment, Marks
<1>14. x[z + 1] \in Marks /\ c2[1] = x[z + 1]
  BY <1>1, <1>4, <1>13
<1>15. At(x, x[z + 1], z + 1)
  <2>1. z + 1 \in Nat \ {0} /\ z + 1 <= Len(x) /\ (z + 1) - 1 = z
    BY <1>5
  <2> QED BY <1>8, <1>9, <2>1 DEF At
<1> QED BY <1>4, <1>8, <1>9, <1>12, <1>14, <1>15

(* What a call leaves of a comment line.                                   *)
LEMMA LineStep ==
    ASSUME NEW st, NEW text, NEW bound, NEW last, NEW k, NEW m, NEW x, NEW c, NEW m2,
           Seen(st, text, bound, last, k, m, x),
           NextComment(st, text, bound, last, k, m, c, m2), c[1] = S!Dashes,
           S!InHeader(x, S!Dashes) \/ S!InHeader(x, S!Open)
    PROVE  Left(st, text, bound, last, Rest(x))
<1>1. /\ Begins(x, c, Len(c)) /\ Len(c) + 1 <= Len(x)
      /\ x[Len(c) + 1] = text[m2 + 1]
      /\ x[1] = S!Dashes \/ x[1] = S!Word(1)
  BY CommentSeen
<1>2. /\ Gone(st, text, bound, last, k, m) /\ Gone(st, text, bound, last, k + 1, m2)
      /\ Setting(st, text, bound, last)
      /\ k \in Nat /\ View(text, last, m, x) /\ m \in Nat /\ m2 \in Nat /\ last \in Nat
  BY DEF Seen, NextComment, Gone
<1>3. x[1] # S!Newline /\ x[1] # S!Close
  BY <1>1 DEF S!Dashes, S!Newline, S!Close, S!Word, S!Tok
<1>4. CASE S!InHeader(x, S!Dashes)
  <2>1. m <= m /\ \A i \in 1 .. m - m : x[i] # S!Newline
    BY <1>2
  <2>2. Removed(text, last, m2, Rest(x)) \/ Split(text, last, m2, Rest(x))
    BY <1>2, <1>3, <1>4, <2>1, LineCut
  <2> QED BY <1>2, <2>2 DEF Left
<1>5. CASE ~S!InHeader(x, S!Dashes)
  <2>1. x \in Seq(S!Token) /\ Len(x) = last - m
    BY <1>2 DEF View
  <2>2. PICK i : At(x, S!Open, i)
    BY <1>5, <2>1, HeaderHas DEF Marks
  <2>3. ~S!Early(c, S!Open) /\ c \in S!Comment
    <3>1. k + 1 \in 1 .. Len(st.comments) /\ c = st.comments[k + 1] /\ c \in S!Comment
      BY DEF NextComment
    <3> QED BY <1>2, <3>1 DEF Setting, S!Plain
  <2>4. Len(c) < i
    BY <1>1, <2>2, <2>3, MarkBehind DEF Marks
  <2>5. /\ S!Ends(x)[Len(c)] \in Nat /\ S!Ends(x)[Len(c)] <= 4
        /\ x[Len(c) + 1] \in Marks /\ At(x, x[Len(c) + 1], Len(c) + 1)
        /\ \E c2, m3 : /\ NextComment(st, text, bound, last, k + 1, m2, c2, m3)
                       /\ c2[1] = x[Len(c) + 1]
    <3>1. S!Open \in Marks
      BY DEF Marks
    <3> QED BY <2>2, <2>4, <3>1, NextSeen
  <2>6. x[Len(c) + 1] = S!Open
    <3>1. x[Len(c) + 1] # S!Dashes
      BY <1>5, <2>1, <2>5, HeaderHas DEF Marks
    <3> QED BY <2>5, <3>1 DEF Marks
  <2>7. PICK c2, m3 : /\ NextComment(st, text, bound, last, k + 1, m2, c2, m3)
                      /\ c2[1] = S!Open
    BY <2>5, <2>6
  <2>8. PICK z \in Nat : z = Len(c) /\ z >= 1 /\ m2 = m + z
    BY DEF NextComment
  <2>9. /\ z <= Len(x) /\ S!Ends(x)[z] <= 4 /\ \A l \in 2 .. z : x[l] = c[l]
    BY <1>1, <2>5, <2>8 DEF Begins
  <2>10. CASE \A l \in 1 .. z : x[l] # S!Close
    <3>1. m <= m2 /\ m2 - m = z
      BY <1>2, <2>8
    <3>2. \A l \in 1 .. m2 - m : x[l] # S!Close
      BY <2>10, <3>1
    <3>3. Removed(text, last, m3, Rest(x))
      BY <1>2, <1>3, <1>5, <2>7, <3>1, <3>2, BlockCut
    <3>4. Gone(st, text, bound, last, k + 1 + 1, m3)
      BY <2>7 DEF NextComment
    <3> QED BY <3>3, <3>4 DEF Left
  <2>11. CASE ~ \A l \in 1 .. z : x[l] # S!Close
    <3>1. PICK a \in 2 .. z : x[a] = S!Close /\ c[a] = S!Close
      <4>1. PICK a \in 1 .. z : x[a] = S!Close
        BY <2>11
      <4>2. a # 1
        BY <1>3, <4>1
      <4>3. a \in 2 .. z
        BY <4>2
      <4> QED BY <2>9, <4>1, <4>3
    <3>2. PICK j \in Nat \ {0} : /\ IsFirst(c, S!Newline, j)
                                 /\ \A l \in j + 1 .. z : c[l] \in S!White
      <4>1. PICK ki : ki = k + 1 /\ ki \in 1 .. Len(st.comments) /\ c = st.comments[ki]
        BY DEF NextComment
      <4>2. \E j \in Nat \ {0} :
               /\ IsFirst(c, S!Newline, j) /\ (S!Indented(st) => j + 1 <= Len(c))
               /\ \A l \in j + 1 .. Len(c) : c[l] \in S!White
        BY <1>2, <2>3, <4>1, LineComment
      <4> QED BY <2>8, <4>2
    <3>3. j <= z /\ c[j] = S!Newline
      BY <2>8, <3>2 DEF IsFirst
    <3>4. j # 1 /\ j # a
      BY <3>1, <3>3, TokensDiffer
    <3>5. ~(j < a)
      <4> SUFFICES ASSUME j < a PROVE FALSE
        OBVIOUS
      <4>1. a \in j + 1 .. z
        BY <3>1
      <4> QED BY <3>1, <3>2, <4>1, TokensDiffer
    <3>6. j \in 2 .. z /\ a < j
      BY <3>3, <3>4, <3>5
    <3>7. x[j] = S!Newline
      BY <2>9, <3>3, <3>6
    <3>8. x[a].w + x[j].w = 3
      <4>1. x[a].w = 2 /\ x[j].w = 1
        BY <3>1, <3>7, TokensDiffer
      <4> QED BY <4>1
    <3>9. z = 3 /\ a = 2 /\ j = 3
      BY <2>1, <2>9, <3>6, <3>8, Tight
    <3>10. PICK g \in Nat : g = last - m /\ z + 1 <= g
      BY <1>1, <1>2, <2>1, <2>8
    <3>11. IsFirst(x, S!Close, a)
      <4>1. a \in Nat \ {0} /\ a <= Len(x)
        BY <2>1, <3>9, <3>10
      <4>2. \A l \in 1 .. a - 1 : l = 1
        BY <3>9
      <4> QED BY <1>3, <3>1, <4>1, <4>2 DEF IsFirst
    <3>12. S!EndsOfComment(x) = S!Positions(x, S!Close)
      BY <1>5 DEF S!EndsOfComment
    <3>13. Rest(x) = S!From(x, S!Ends(x)[a - 1] + 2)
      BY <2>1, <3>11, <3>12, RestIs
    <3>14. S!Ends(x)[a] = S!Ends(x)[a - 1] + 2
      <4>1. a \in 1 .. Len(x)
        BY <2>1, <3>9, <3>10
      <4>2. S!Ends(x)[a] = S!Ends(x)[a - 1] + x[a].w
        BY <2>1, <4>1, EndsIs
      <4> QED BY <3>1, <4>2, TokensDiffer
    <3>15. \A l \in (m + a) + 1 .. m2 : text[l] \in S!White
      <4> TAKE l \in (m + a) + 1 .. m2
      <4>1. l = m + 3 /\ 3 \in 1 .. z
        BY <1>2, <2>8, <3>9
      <4>2. text[m + 3] = c[3]
        BY <2>8, <4>1 DEF NextComment
      <4> QED BY <3>3, <3>9, <4>1, <4>2, TokensDiffer
    <3>16. a \in Nat \ {0} /\ a < last - m /\ m + a <= m2
      BY <1>2, <2>8, <3>9, <3>10
    <3>17. Removed(text, last, m2, S!From(x, S!Ends(x)[a]))
      BY <1>2, <3>15, <3>16, CutBehind
    <3>18. Removed(text, last, m2, Rest(x))
      BY <3>13, <3>14, <3>17
    <3> QED BY <1>2, <3>18 DEF Left
  <2> QED BY <2>10, <2>11
<1> QED BY <1>4, <1>5

(* What a call leaves of a block comment.                                  *)
LEMMA BlockStep ==
    ASSUME NEW st, NEW text, NEW bound, NEW last, NEW k, NEW m, NEW x, NEW c, NEW m2,
           Seen(st, text, bound, last, k, m, x),
           NextComment(st, text, bound, last, k, m, c, m2), c[1] = S!Open
    PROVE  Left(st, text, bound, last, Rest(x))
<1>1. /\ Begins(x, c, Len(c)) /\ Len(c) + 1 <= Len(x)
      /\ x[Len(c) + 1] = text[m2 + 1]
      /\ x[1] = S!Open \/ x[1] = S!Word(1)
  BY CommentSeen
<1>2. /\ Gone(st, text, bound, last, k, m) /\ Gone(st, text, bound, last, k + 1, m2)
      /\ Setting(st, text, bound, last)
      /\ k \in Nat /\ View(text, last, m, x) /\ m \in Nat /\ m2 \in Nat /\ last \in Nat
  BY DEF Seen, NextComment, Gone
<1>3. x[1] # S!Newline /\ x[1] # S!Close
  BY <1>1 DEF S!Open, S!Newline, S!Close, S!Word, S!Tok
<1>4. CASE ~S!InHeader(x, S!Dashes)
  <2>1. m <= m /\ \A i \in 1 .. m - m : x[i] # S!Close
    BY <1>2
  <2>2. Removed(text, last, m2, Rest(x))
    BY <1>2, <1>3, <1>4, <2>1, BlockCut
  <2> QED BY <1>2, <2>2 DEF Left
<1>5. CASE S!InHeader(x, S!Dashes)
  <2>1. x \in Seq(S!Token) /\ Len(x) = last - m
    BY <1>2 DEF View
  <2>2. PICK i : At(x, S!Dashes, i)
    BY <1>5, <2>1, HeaderHas DEF Marks
  <2>3. ~S!Early(c, S!Dashes) /\ c \in S!Comment
    <3>1. k + 1 \in 1 .. Len(st.comments) /\ c = st.comments[k + 1] /\ c \in S!Comment
      BY DEF NextComment
    <3> QED BY <1>2, <3>1, TokensDiffer DEF Setting, S!Plain
  <2>4. Len(c) < i
    BY <1>1, <2>2, <2>3, MarkBehind DEF Marks
  <2>5. /\ S!Ends(x)[Len(c)] \in Nat /\ S!Ends(x)[Len(c)] <= 4
        /\ x[Len(c) + 1] \in Marks
        /\ \E c2, m3 : /\ NextComment(st, text, bound, last, k + 1, m2, c2, m3)
                       /\ c2[1] = x[Len(c) + 1]
    <3>1. S!Dashes \in Marks
      BY DEF Marks
    <3> QED BY <2>2, <2>4, <3>1, NextSeen
  <2>6. PICK z \in Nat : z = Len(c) /\ z >= 1 /\ m2 = m + z
    BY DEF NextComment
  <2>7. PICK g \in Nat : g = last - m /\ g = Len(x) /\ z + 1 <= g
    BY <1>1, <1>2, <2>1, <2>6
  <2>8. S!Ends(x)[z] <= 4 /\ \A l \in 2 .. z : x[l] = c[l]
    BY <1>1, <2>5, <2>6 DEF Begins
  <2>9. PICK j \in Nat \ {0} : IsFirst(c, S!Close, j) /\ 2 <= j
    BY <2>3, BlockComment
  <2>10. j \in 2 .. z /\ c[j] = S!Close /\ x[j] = S!Close
    <3>1. j \in 2 .. z /\ c[j] = S!Close
      BY <2>6, <2>9 DEF IsFirst
    <3> QED BY <2>8, <3>1
  <2>11. x[z + 1] = S!Dashes
    <3>1. CASE i = z + 1
      BY <2>2, <3>1 DEF At
    <3>2. CASE i # z + 1
      <4>0. i \in Nat \ {0} /\ i <= g
        BY <2>2, <2>7 DEF At
      <4>1. /\ z + 1 \in 1 .. g /\ z + 1 \in 0 .. g /\ z \in 0 .. g /\ j - 1 \in 0 .. g
            /\ j \in 0 .. g /\ j \in 1 .. g /\ i - 1 \in 0 .. g /\ (z + 1) - 1 = z
            /\ z + 1 <= i - 1 /\ 0 \in 0 .. g /\ 0 < j - 1
        BY <2>4, <2>6, <2>7, <2>10, <3>2, <4>0
      <4>2. PICK u, f, h, a, b \in Nat :
               /\ u = S!Ends(x)[i - 1] /\ f = S!Ends(x)[z] /\ h = S!Ends(x)[z + 1]
               /\ a = S!Ends(x)[j - 1] /\ b = S!Ends(x)[j]
        BY <2>1, <2>7, <4>1, EndsRise
      <4>3. u <= 4
        BY <2>2, <4>2 DEF At
      <4>4. h = f + 2 /\ b = a + 2
        <5>1. x[z + 1].w = 2 /\ x[j].w = 2
          BY <2>5, <2>6, <2>10, TokensDiffer DEF Marks
        <5>2. /\ S!Ends(x)[z + 1] = S!Ends(x)[z] + x[z + 1].w
              /\ S!Ends(x)[j] = S!Ends(x)[j - 1] + x[j].w
          <6>1. \A l \in 1 .. g : S!Ends(x)[l] = S!Ends(x)[l - 1] + x[l].w
            BY <2>1, <2>7, EndsIs
          <6>2. S!Ends(x)[z + 1] = S!Ends(x)[(z + 1) - 1] + x[z + 1].w
            BY <4>1, <6>1
          <6> QED BY <4>1, <6>1, <6>2
        <5> QED BY <4>2, <5>1, <5>2
      <4>5. \A p, q \in 0 .. g : p < q => S!Ends(x)[p] < S!Ends(x)[q]
        BY <2>1, <2>7, EndsGrow
      <4>6. 0 < a
        <5>1. S!Ends(x)[0] = 0
          BY <2>1, EndsIs
        <5> QED BY <4>1, <4>2, <4>5, <5>1
      <4>7. b <= f
        <5>1. j = z \/ j < z
          BY <2>10
        <5>2. j < z => S!Ends(x)[j] < S!Ends(x)[z]
          BY <4>1, <4>5
        <5> QED BY <4>2, <5>1, <5>2
      <4>8. h <= u
        <5>1. z + 1 = i - 1 \/ z + 1 < i - 1
          BY <4>0, <4>1
        <5>2. z + 1 < i - 1 => S!Ends(x)[z + 1] < S!Ends(x)[i - 1]
          BY <4>1, <4>5
        <5> QED BY <4>2, <5>1, <5>2
      <4> QED BY <4>3, <4>4, <4>6, <4>7, <4>8
    <3> QED BY <3>1, <3>2
  <2>12. PICK c2, m3 : /\ NextComment(st, text, bound, last, k + 1, m2, c2, m3)
                       /\ c2[1] = S!Dashes
    BY <2>5, <2>6, <2>11
  <2>13. CASE \A l \in 1 .. z : x[l] # S!Newline
    <3>1. m <= m2 /\ m2 - m = z
      BY <1>2, <2>6
    <3>2. \A l \in 1 .. m2 - m : x[l] # S!Newline
      BY <2>13, <3>1
    <3>3. Removed(text, last, m3, Rest(x)) \/ Split(text, last, m3, Rest(x))
      BY <1>2, <1>3, <1>5, <2>12, <3>1, <3>2, LineCut
    <3>4. Gone(st, text, bound, last, k + 1 + 1, m3)
      BY <2>12 DEF NextComment
    <3> QED BY <3>3, <3>4 DEF Left
  <2>14. CASE ~ \A l \in 1 .. z : x[l] # S!Newline
    <3>1. PICK a \in 2 .. z : x[a] = S!Newline
      <4>1. PICK a \in 1 .. z : x[a] = S!Newline
        BY <2>14
      <4>2. a # 1
        BY <1>3, <4>1
      <4> QED BY <4>1, <4>2
    <3>2. z = 3 /\ ((a = 2 /\ j = 3) \/ (a = 3 /\ j = 2))
      <4>1. x[a].w = 1 /\ x[j].w = 2 /\ a # j
        BY <2>10, <3>1, TokensDiffer
      <4>2. x[a].w + x[j].w = 3 /\ x[j].w + x[a].w = 3
        BY <4>1
      <4>3. z <= Len(x) /\ (a < j \/ j < a)
        BY <2>7, <2>10, <4>1
      <4>4. CASE a < j
        BY <2>1, <2>8, <2>10, <4>2, <4>3, <4>4, Tight
      <4>5. CASE j < a
        BY <2>1, <2>8, <2>10, <4>2, <4>3, <4>5, Tight
      <4> QED BY <4>3, <4>4, <4>5
    <3>3. IsFirst(x, S!Newline, a)
      <4>1. a \in Nat \ {0} /\ a <= Len(x)
        BY <2>7
      <4>2. \A l \in 1 .. a - 1 : l = 1 \/ (l = j /\ a = 3)
        BY <3>2
      <4>3. \A l \in 1 .. a - 1 : x[l] # S!Newline
        BY <1>3, <2>10, <4>2, TokensDiffer
      <4> QED BY <3>1, <4>1, <4>3 DEF IsFirst
    <3>4. S!EndsOfComment(x) = S!Positions(x, S!Newline)
      <4>1. S!Positions(x, S!Newline) # {}
        <5>1. a \in 1 .. Len(x)
          BY <2>7
        <5> QED BY <2>1, <3>1, <3>3, <5>1, FirstPosition DEF IsFirst
      <4> QED BY <1>5, <4>1 DEF S!EndsOfComment
    <3>5. a \in Nat \ {0} /\ a < last - m
      BY <2>7
    <3>6. text[m2 + 1] = S!Dashes
      BY <1>1, <2>6, <2>11
    <3>7. CASE a = 2
      <4>1. x[a + 1] = S!Close /\ x[a + 1].w = 2
        BY <2>10, <3>2, <3>7, TokensDiffer
      <4>2. /\ View(text, last, m + a, Rest(x))
            /\ Rest(x)[1] = S!Word(x[a + 1].w - 1)
        BY <1>2, <3>3, <3>4, <3>5, <4>1, SplitCut
      <4>3. m + a = m2 - 1 /\ m2 >= 1 /\ 2 - 1 = 1
        BY <1>2, <2>6, <3>2, <3>7
      <4>4. k + 1 # Len(st.comments)
        <5>1. k + 1 + 1 \in 1 .. Len(st.comments)
          BY <2>12 DEF NextComment
        <5>2. PICK n \in Nat : n = Len(st.comments)
          BY <1>2, SettingIs
        <5> QED BY <1>2, <5>1, <5>2
      <4>5. Odd(st, text, bound, last, k + 1, m2, Rest(x))
        BY <1>2, <3>6, <4>1, <4>2, <4>3, <4>4 DEF Odd
      <4> QED BY <4>5 DEF Left
    <3>8. CASE a = 3
      <4>1. x[a + 1] = S!Dashes /\ x[a + 1].w = 2
        BY <2>11, <3>2, <3>8, TokensDiffer
      <4>2. /\ View(text, last, m + a, Rest(x))
            /\ Rest(x)[1] = S!Word(x[a + 1].w - 1)
        BY <1>2, <3>3, <3>4, <3>5, <4>1, SplitCut
      <4>3. m + a = m2
        BY <1>2, <2>6, <3>2, <3>8
      <4>4. text[m2 + 1].w = 2 /\ 2 >= 2 /\ 2 \in Nat
        BY <3>6, TokensDiffer
      <4>5. Split(text, last, m2, Rest(x))
        BY <3>6, <4>1, <4>2, <4>3, <4>4 DEF Split
      <4> QED BY <1>2, <4>5 DEF Left
    <3> QED BY <3>2, <3>7, <3>8
  <2> QED BY <2>13, <2>14
<1> QED BY <1>4, <1>5

(* What a call leaves of a text with a byte in front of a comment line.    *)
LEMMA OddStep ==
    ASSUME NEW st, NEW text, NEW bound, NEW last, NEW k, NEW m, NEW x,
           Odd(st, text, bound, last, k, m, x)
    PROVE  Left(st, text, bound, last, Rest(x))
<1>1. /\ Gone(st, text, bound, last, k, m) /\ k # Len(st.comments) /\ m >= 1
      /\ text[m + 1] = S!Dashes /\ View(text, last, m - 1, x) /\ x[1] = S!Word(1)
      /\ Setting(st, text, bound, last) /\ k \in 0 .. Len(st.comments) /\ k \in Nat
      /\ m \in Nat
  BY DEF Odd, Gone
<1>2. k < Len(st.comments)
  <2>1. PICK n \in Nat : n = Len(st.comments)
    BY <1>1, SettingIs
  <2> QED BY <1>1, <2>1
<1>3. PICK c \in S!Comment, m2 \in Nat : NextComment(st, text, bound, last, k, m, c, m2)
  BY <1>1, <1>2, NextGone
<1>4. c[1] = S!Dashes /\ Gone(st, text, bound, last, k + 1, m2) /\ m + 1 <= m2
  <2>1. PICK n \in Nat : n = Len(c) /\ n >= 1 /\ m2 = m + n
    BY <1>3 DEF NextComment
  <2>2. 1 \in 1 .. n /\ m + 1 <= m2
    BY <1>1, <2>1
  <2>3. text[m + 1] = c[1]
    BY <1>3, <2>1, <2>2 DEF NextComment
  <2> QED BY <1>1, <1>3, <2>2, <2>3 DEF NextComment
<1>5. PICK p \in Nat : p = m - 1 /\ p <= m /\ m - p = 1 /\ p + 2 = m + 1
  <2>1. m - 1 \in Nat /\ m - 1 <= m /\ m - (m - 1) = 1 /\ (m - 1) + 2 = m + 1
    BY <1>1
  <2> QED BY <2>1
<1>6. View(text, last, p, x)
  BY <1>1, <1>5
<1>7. /\ x \in Seq(S!Token) /\ last \in Nat /\ Len(x) = last - p
      /\ \A i \in 2 .. last - p : x[i] = text[p + i]
  BY <1>6 DEF View
<1>8. PICK g \in Nat : g = Len(x) /\ g = last - p /\ 2 <= g
  <2>1. FrontFacts(text, last, m)
    BY <1>1, FrontIs, Zenon
  <2>2. m + 1 <= last
    BY <2>1 DEF FrontFacts
  <2>3. last - p \in Nat /\ 2 <= last - p
    BY <1>1, <1>5, <1>7, <2>2
  <2> QED BY <1>7, <2>3
<1>9. x[2] = S!Dashes
  <2>1. 2 \in 2 .. g
    BY <1>8
  <2>2. x[2] = text[p + 2]
    BY <1>7, <1>8, <2>1
  <2> QED BY <1>1, <1>5, <2>2
<1>10. S!InHeader(x, S!Dashes)
  <2>1. S!Ends(x)[1] = 1
    <3>1. 1 \in 1 .. g /\ 1 - 1 = 0
      BY <1>8
    <3>2. x[1].w = 1
      BY <1>1 DEF S!Word, S!Tok
    <3>3. S!Ends(x)[0] = 0
      BY <1>7, EndsIs
    <3>4. S!Ends(x)[1] = S!Ends(x)[1 - 1] + x[1].w
      BY <1>7, <1>8, <3>1, EndsIs
    <3> QED BY <3>1, <3>2, <3>3, <3>4
  <2>2. 2 \in Nat \ {0} /\ 2 <= Len(x) /\ 2 - 1 = 1 /\ 1 \in Nat /\ 1 <= 4
    BY <1>8
  <2>3. At(x, S!Dashes, 2)
    BY <1>9, <2>1, <2>2 DEF At
  <2> QED BY <1>7, <2>3, HeaderHas DEF Marks
<1>11. x[1] # S!Newline /\ \A i \in 1 .. m - p : x[i] # S!Newline
  <2>1. x[1] # S!Newline
    BY <1>1 DEF S!Newline, S!Word, S!Tok
  <2>2. \A i \in 1 .. m - p : i = 1
    BY <1>5
  <2> QED BY <2>1, <2>2
<1>12. Removed(text, last, m2, Rest(x)) \/ Split(text, last, m2, Rest(x))
  BY <1>1, <1>3, <1>4, <1>5, <1>6, <1>10, <1>11, LineCut
<1> QED BY <1>4, <1>12 DEF Left

(* One call on what earlier calls have left of a statement with another    *)
(* verb.                                                                   *)
LEMMA ScanRejects ==
    ASSUME NEW st, NEW text, NEW bound, NEW last, st.verb \notin S!Selects,
           NEW r, Left(st, text, bound, last, r), NEW depth
    PROVE  /\ S!Scan(r, depth).answer # "yes"
           /\ S!Scan(r, depth).answer = "again" =>
                Left(st, text, bound, last, S!Scan(r, depth).rest)
<1> DEFINE sql2 == S!TrimSpace(r)
           end == S!Min(S!EndsOfComment(sql2)) + 2
           out == IF S!TooDeep(depth) \/ S!Width(sql2) < S!HeaderWidth THEN "no"
                  ELSE IF sql2[1] \in S!Selects THEN "yes"
                  ELSE IF ~S!InHeader(sql2, S!Dashes) /\ ~S!InHeader(sql2, S!Open) THEN "no"
                  ELSE IF S!EndsOfComment(sql2) = {} THEN "no"
                  ELSE IF end > S!Width(sql2) THEN "panic"
                  ELSE "again"
<1>1. S!Scan(r, depth) =
        [answer |-> out, rest |-> IF out = "again" THEN S!From(sql2, end) ELSE <<>>]
  BY DEF S!Scan
<1>2. PICK k, m : \/ Seen(st, text, bound, last, k, m, sql2)
                  \/ Odd(st, text, bound, last, k, m, sql2)
  BY LeftTrimmed
<1>3. Rest(sql2) = S!From(sql2, end)
  BY DEF Rest
<1> HIDE DEF sql2, end
<1>4. \A w : S!Word(w) \notin S!Selects
  BY DEF S!Word, S!Tok, S!Selects
<1>5. sql2[1] \notin S!Selects
  <2>1. CASE Odd(st, text, bound, last, k, m, sql2)
    BY <1>4, <2>1 DEF Odd
  <2>2. CASE Seen(st, text, bound, last, k, m, sql2)
    <3>1. text[m + 1] = st.verb \/ text[m + 1] \in {S!Dashes, S!Open}
      BY <2>2, HeadIs DEF Seen
    <3>2. text[m + 1] \notin S!Selects
      BY <3>1, TokensDiffer
    <3> QED BY <1>4, <2>2, <3>2 DEF Seen
  <2> QED BY <1>2, <2>1, <2>2
<1>6. ASSUME S!InHeader(sql2, S!Dashes) \/ S!InHeader(sql2, S!Open)
      PROVE  Left(st, text, bound, last, Rest(sql2))
  <2>1. CASE Odd(st, text, bound, last, k, m, sql2)
    BY <2>1, OddStep
  <2>2. CASE Seen(st, text, bound, last, k, m, sql2)
    <3>1. /\ Gone(st, text, bound, last, k, m) /\ Setting(st, text, bound, last)
          /\ k \in 0 .. Len(st.comments) /\ k \in Nat
      BY <2>2 DEF Seen, Gone
    <3>2. k # Len(st.comments)
      <4> SUFFICES ASSUME k = Len(st.comments) PROVE FALSE
        OBVIOUS
      <4>1. S!Dashes \in Marks /\ S!Open \in Marks
        BY DEF Marks
      <4>2. Seen(st, text, bound, last, Len(st.comments), m, sql2)
        BY <2>2
      <4>3. ~S!InHeader(sql2, S!Dashes) /\ ~S!InHeader(sql2, S!Open)
        BY <4>1, <4>2, VerbSeen
      <4> QED BY <1>6, <4>3
    <3>3. k < Len(st.comments)
      <4>1. PICK n \in Nat : n = Len(st.comments)
        BY <3>1, SettingIs
      <4> QED BY <3>1, <3>2, <4>1
    <3>4. PICK c \in S!Comment, m2 \in Nat : NextComment(st, text, bound, last, k, m, c, m2)
      BY <3>1, <3>3, NextGone
    <3>5. c[1] = S!Dashes \/ c[1] = S!Open
      BY <3>4 DEF NextComment
    <3>6. CASE c[1] = S!Dashes
      BY <1>6, <2>2, <3>4, <3>6, LineStep
    <3>7. CASE c[1] = S!Open
      BY <2>2, <3>4, <3>7, BlockStep
    <3> QED BY <3>5, <3>6, <3>7
  <2> QED BY <1>2, <2>1, <2>2
<1>7. out # "yes"
  BY <1>5
<1>8. out = "again" => S!InHeader(sql2, S!Dashes) \/ S!InHeader(sql2, S!Open)
  OBVIOUS
<1> HIDE DEF out
<1>9. S!Scan(r, depth).answer = out
  BY <1>1
<1>10. out = "again" => S!Scan(r, depth).rest = Rest(sql2)
  BY <1>1, <1>3
<1> QED BY <1>6, <1>7, <1>8, <1>9, <1>10

(* A statement that passes is a SELECT, a SHOW or a DESC.                  *)
LEMMA FilterRejects ==
    ASSUME NEW st \in S!Statement, S!Plain(st), st.verb \notin S!Selects
    PROVE  S!isSelectStatement(S!TextOf(st)) # "yes"
<1> DEFINE sql == S!TextOf(st)
<1>1. PICK bound, last : Gone(st, sql, bound, last, 0, 0) /\ Removed(sql, last, 0, sql)
  BY FirstCall
<1>2. Left(st, sql, bound, last, sql)
  BY <1>1 DEF Left
<1> HIDE DEF sql
<1> DEFINE Rejected(c) == /\ c.answer # "yes"
                          /\ c.answer = "again" => Left(st, sql, bound, last, c.rest)
<1>3. PICK h : /\ S!isSelectStatement(sql) = h[5].answer
               /\ h[0] = S!Scan(sql, 0)
               /\ \A d \in 1 .. 5 :
                     h[d] = IF h[d - 1].answer = "again"
                            THEN S!Scan(h[d - 1].rest, d) ELSE h[d - 1]
  BY CallsAre
<1>4. Rejected(h[0])
  BY <1>2, <1>3, ScanRejects
<1>5. ASSUME NEW d \in 1 .. 5, Rejected(h[d - 1]) PROVE Rejected(h[d])
  <2>1. PICK c : c = h[d - 1] /\ Rejected(c)
    BY <1>5
  <2>2. h[d] = IF c.answer = "again" THEN S!Scan(c.rest, d) ELSE c
    BY <1>3, <2>1
  <2>3. CASE c.answer = "again"
    <3>1. Left(st, sql, bound, last, c.rest)
      BY <2>1, <2>3
    <3>2. Rejected(S!Scan(c.rest, d))
      BY <3>1, ScanRejects
    <3> HIDE DEF Rejected
    <3> QED BY <2>2, <2>3, <3>2
  <2>4. CASE c.answer # "again"
    BY <2>1, <2>2, <2>4
  <2> QED BY <2>3, <2>4
<1>6. Rejected(h[5])
  <2> HIDE DEF Rejected
  <2>1. 1 \in 1 .. 5 /\ 2 \in 1 .. 5 /\ 3 \in 1 .. 5 /\ 4 \in 1 .. 5 /\ 5 \in 1 .. 5
    OBVIOUS
  <2>2. 1 - 1 = 0 /\ 2 - 1 = 1 /\ 3 - 1 = 2 /\ 4 - 1 = 3 /\ 5 - 1 = 4
    OBVIOUS
  <2>3. Rejected(h[1])
    BY <1>4, <1>5, <2>1, <2>2
  <2>4. Rejected(h[2])
    BY <1>5, <2>1, <2>2, <2>3
  <2>5. Rejected(h[3])
    BY <1>5, <2>1, <2>2, <2>4
  <2>6. Rejected(h[4])
    BY <1>5, <2>1, <2>2, <2>5
  <2> QED BY <1>5, <2>1, <2>2, <2>6
<1> QED BY <1>3, <1>6 DEF sql

-----------------------------------------------------------------------------
(* The specification.                                                      *)

(* The answer is what the function that was called computes of the input.  *)
Computed ==
    /\ function = "isSelectStatement" =>
           \E st \in Statements :
               input = st /\ answer = S!isSelectStatement(S!TextOf(st))
    /\ function = "MysqlRequest" =>
           \E l \in Logins :
               input = l /\ answer = L!InitDbStatement(L!EncodeToString(L!BytesOf(l)))
    /\ function = "ParsePacket" =>
           \E f \in Frames, fast \in BOOLEAN :
               /\ input = [frame |-> f, fast |-> fast]
               /\ answer = P!ToWorker(P!BytesOf(f), f.link, fast)
    /\ function = "GetPortNo" =>
           \E f \in Frames :
               input = f /\ answer = P!GetPortNo(P!BytesOf(f), f.link)

(* Every answer is the one of the code.                                    *)
LEMMA ComputedInvariant == Spec => []Computed
<1>1. Init => Computed
  BY DEF Init, Idle, Computed
<1>2. Computed /\ [Next]_vars => Computed'
  <2> SUFFICES ASSUME Computed, [Next]_vars PROVE Computed'
    OBVIOUS
  <2>1. CASE CallIsSelect
    BY <2>1 DEF CallIsSelect, Call, Computed
  <2>2. CASE CallLogin
    BY <2>2 DEF CallLogin, Call, Computed
  <2>3. CASE CallParser
    BY <2>3 DEF CallParser, Call, Computed
  <2>4. CASE CallGetPortNo
    BY <2>4 DEF CallGetPortNo, Call, Computed
  <2>5. CASE Finish
    BY <2>5 DEF Finish, Call, Computed
  <2>6. CASE UNCHANGED vars
    BY <2>6 DEF vars, Computed
  <2> QED BY <2>1, <2>2, <2>3, <2>4, <2>5, <2>6 DEF Next
<1> QED BY <1>1, <1>2, PTL DEF Spec

(* Whichever parser a worker uses, of no frame does it take anything but   *)
(* the port and the captured data of that frame: the lengths that both     *)
(* parsers read cut off every header, every option and the padding.        *)
THEOREM NothingInventedTheorem == Spec => []NothingInvented
<1>1. Computed => NothingInvented
  <2> SUFFICES ASSUME Computed, function = "ParsePacket"
               PROVE  answer \in {P!None, P!Captured(input.frame)}
    BY DEF NothingInvented
  <2>1. PICK f \in Frames, fast \in BOOLEAN :
            /\ input = [frame |-> f, fast |-> fast]
            /\ answer = P!ToWorker(P!BytesOf(f), f.link, fast)
    BY DEF Computed
  <2>2. P!IsFrame(f)
    BY InputsAssumption
  <2>3. input.frame = f
    BY <2>1
  <2>4. P!ToWorker(P!BytesOf(f), f.link, fast) \in {P!None, P!Captured(f)}
    BY <2>2, WorkerInput
  <2> QED BY <2>1, <2>3, <2>4, Zenon
<1> QED BY <1>1, ComputedInvariant, PTL

(* The filter of the capture loop and the parser that is at home with a    *)
(* frame take all data of it that was captured, at every length.           *)
THEOREM PayloadDeliveredTheorem == Spec => []PayloadDelivered
<1>1. Computed => PayloadDelivered
  <2> SUFFICES ASSUME Computed, function = "ParsePacket",
                      P!Supported(input.frame, input.fast)
               PROVE  answer = P!Captured(input.frame)
    BY DEF PayloadDelivered
  <2>1. PICK f \in Frames, fast \in BOOLEAN :
            /\ input = [frame |-> f, fast |-> fast]
            /\ answer = P!ToWorker(P!BytesOf(f), f.link, fast)
    BY DEF Computed
  <2>2. P!IsFrame(f)
    BY InputsAssumption
  <2>3. input.frame = f /\ input.fast = fast
    BY <2>1
  <2>4. P!Supported(f, fast)
    BY <2>3, Zenon
  <2>5. P!ToWorker(P!BytesOf(f), f.link, fast) = P!Captured(f)
    BY <2>2, <2>4, WorkerInput
  <2> QED BY <2>1, <2>3, <2>5, Zenon
<1> QED BY <1>1, ComputedInvariant, PTL

(* GetPortNo reads the port of every IPv4 frame, and the same number of    *)
(* every frame of an IPv6 session with one of the other traffic classes:   *)
(* the session keeps its worker.                                           *)
THEOREM RoutedBySessionTheorem == Spec => []RoutedBySession
<1>1. Computed => RoutedBySession
  <2> SUFFICES ASSUME Computed, function = "GetPortNo"
               PROVE  /\ input.version = 4 => answer = input.port
                      /\ ~P!Scattered(input) =>
                           answer = P!GetPortNo(P!BytesOf(P!Later(input)), input.link)
    BY DEF RoutedBySession
  <2>1. PICK f \in Frames :
            input = f /\ answer = P!GetPortNo(P!BytesOf(f), f.link)
    BY DEF Computed
  <2>2. P!IsFrame(f)
    BY InputsAssumption
  <2>3. /\ f.version = 4 => P!GetPortNo(P!BytesOf(f), f.link) = f.port
        /\ ~P!Scattered(f) =>
             P!GetPortNo(P!BytesOf(f), f.link)
               = P!GetPortNo(P!BytesOf(P!Later(f)), f.link)
    BY <2>2, RouteOfSession
  <2> QED BY <2>1, <2>3, Zenon
<1> QED BY <1>1, ComputedInvariant, PTL

(* Of every login that a client sends with a length that both sides read   *)
(* alike the player finds the database that the client named, and none     *)
(* where it named none: the flags, the two ends of strings and the length  *)
(* of the authentication response lead parseInitDatabaseName to the first  *)
(* byte of the name.                                                       *)
THEOREM LoginDatabaseFoundTheorem == Spec => []LoginDatabaseFound
<1>1. Computed => LoginDatabaseFound
  <2> SUFFICES ASSUME Computed, function = "MysqlRequest", L!LengthUnderstood(input)
               PROVE  answer = IF input.form = "ssl" THEN L!NoDatabase
                               ELSE L!DatabaseOf(input)
    BY DEF LoginDatabaseFound
  <2>1. PICK l \in Logins :
            input = l /\ answer = L!InitDbStatement(L!EncodeToString(L!BytesOf(l)))
    BY DEF Computed
  <2>2. l \in L!Login /\ L!LengthUnderstood(l)
    BY <2>1, InputsAssumption
  <2>3. L!InitDbStatement(L!EncodeToString(L!BytesOf(l))) =
          IF l.form = "ssl" THEN L!NoDatabase ELSE L!DatabaseOf(l)
    BY <2>2, LoginRead
  <2> QED BY <2>1, <2>3, Zenon
<1> QED BY <1>1, ComputedInvariant, PTL

(* No statement makes isSelectStatement slice behind its end, at any depth *)
(* of the recursion: what strings.TrimSpace leaves does not end with a     *)
(* newline, so that the two bytes it adds to the position of one are       *)
(* there.                                                                  *)
THEOREM FilterNeverPanicsTheorem == Spec => []FilterNeverPanics
<1>1. Computed => FilterNeverPanics
  <2> SUFFICES ASSUME Computed, function = "isSelectStatement"
               PROVE  answer # "panic"
    BY DEF FilterNeverPanics
  <2>1. PICK st \in Statements :
            input = st /\ answer = S!isSelectStatement(S!TextOf(st))
    BY DEF Computed
  <2>2. S!TextOf(st) \in Seq(S!Token)
    BY InputsAssumption, TextType
  <2>3. S!isSelectStatement(S!TextOf(st)) # "panic"
    BY <2>2, FilterSafe
  <2> QED BY <2>1, <2>3, Zenon
<1> QED BY <1>1, ComputedInvariant, PTL

(* Every SELECT, SHOW or DESC of six bytes or more, however long, that is  *)
(* preceded by at most four comments of any length is relayed: each call   *)
(* of isSelectStatement takes off at least one comment and never a byte of *)
(* the statement, although it takes two bytes for the newline that ends a  *)
(* comment line and looks for "--" only within six bytes.                  *)
THEOREM SelectsPassTheorem == Spec => []SelectsPass
<1>1. Computed => SelectsPass
  <2> SUFFICES ASSUME Computed, function = "isSelectStatement", MustPass(input)
               PROVE  answer = "yes"
    BY DEF SelectsPass
  <2>1. PICK st \in Statements :
            input = st /\ answer = S!isSelectStatement(S!TextOf(st))
    BY DEF Computed
  <2>2. st \in S!Statement /\ MustPass(st)
    BY <2>1, InputsAssumption, Zenon
  <2>3. S!isSelectStatement(S!TextOf(st)) = "yes"
    BY <2>2, FilterPasses
  <2> QED BY <2>1, <2>3, Zenon
<1> QED BY <1>1, ComputedInvariant, PTL

(* Whatever comments of whatever length surround it, a statement with      *)
(* another verb than SELECT, SHOW, DESC and SET is not relayed: a call     *)
(* that is misled by the mark of the next comment, or takes a byte off it, *)
(* still ends within the comments, and never finds SELECT, SHOW or DESC in *)
(* one.  (FilterRejects says it of SET too: the run SetDropped.)           *)
THEOREM OnlySelectsPassTheorem == Spec => []OnlySelectsPass
<1>1. Computed => OnlySelectsPass
  <2> SUFFICES ASSUME Computed, function = "isSelectStatement", S!Plain(input),
                      input.verb \notin S!Selects \union {S!Set}
               PROVE  answer # "yes"
    BY DEF OnlySelectsPass
  <2>1. PICK st \in Statements :
            input = st /\ answer = S!isSelectStatement(S!TextOf(st))
    BY DEF Computed
  <2>2. st \in S!Statement /\ S!Plain(st) /\ st.verb \notin S!Selects
    BY <2>1, InputsAssumption, Zenon
  <2>3. S!isSelectStatement(S!TextOf(st)) # "yes"
    BY <2>2, FilterRejects
  <2> QED BY <2>1, <2>3, Zenon
<1> QED BY <1>1, ComputedInvariant, PTL
=============================================================================
