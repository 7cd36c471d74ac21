------------------------ MODULE PlayerDeliveryProofs ------------------------
(***************************************************************************)
(* Proofs about what the SQLPlayer threads deliver: each is an ordered     *)
(* relay; without expiring sessions no request is lost; without a lookup   *)
(* that misses, a session has one player that goes on.                     *)
(***************************************************************************)
EXTENDS PlayerProofs

(* The refinement mapping of Player to OrderedRelay.                       *)
In == [p \in PlayerIds |-> IF p > players THEN 0 ELSE tailed[TailerOf[owner[p]]]]
Out == [p \in PlayerIds |-> Replays(p)]

LEMMA ReplaysIsSequence ==
    ASSUME ReplayOK, NEW p \in PlayerIds
    PROVE  Replays(p) \in Seq(Nat)
<1>1. executed[p] \in Seq(Nat) /\ Len(executed[p]) \in Nat
  BY DEF ReplayOK
<1> DEFINE e == executed[p]
<1> HIDE DEF e
<1>2. Len(e) > 0 => SubSeq(e, 1, Len(e) - 1) \in Seq(Nat)
  BY <1>1 DEF e
<1>3. QED  BY <1>1, <1>2 DEF Replays, e

(* What is replayed when the request r has been added to e.                *)
LEMMA ReplaysAppended ==
    ASSUME NEW e \in Seq(Nat), NEW r \in Nat
    PROVE  LET f == Append(e, r)
               x == IF Len(f) > 0 /\ f[Len(f)] = 0 THEN SubSeq(f, 1, Len(f) - 1)
                    ELSE f
           IN  IF r = 0 THEN x = e ELSE x = f
<1> DEFINE f == Append(e, r)
<1>1. f \in Seq(Nat) /\ Len(f) = Len(e) + 1 /\ Len(e) \in Nat
      /\ f[Len(f)] = r /\ \A i \in 1 .. Len(e) : f[i] = e[i]
  OBVIOUS
<1> HIDE DEF f
<1>2. ASSUME r = 0 PROVE SubSeq(f, 1, Len(f) - 1) = e
  <2>1. SubSeq(f, 1, Len(e)) \in Seq(Nat) /\ Len(SubSeq(f, 1, Len(e))) = Len(e)
    BY <1>1
  <2>2. \A i \in 1 .. Len(e) : SubSeq(f, 1, Len(e))[i] = e[i]
    BY <1>1
  <2>3. SubSeq(f, 1, Len(e)) = e
    BY <2>1, <2>2
  <2>4. QED  BY <1>1, <2>3
<1>3. QED  BY <1>1, <1>2 DEF f

(* The target server is sent one more request, which is newer than all it  *)
(* was sent over this connection; or the thread ends.                      *)
LEMMA ExecuteExtends ==
    ASSUME OrderInv, NEW p \in PlayerIds, Execute(p)
    PROVE  /\ p \in 1 .. players
           /\ Relay!Extends(Replays(p), Replays(p)', tailed[TailerOf[owner[p]]])
<1> DEFINE e == executed[p]
           r == request[p]
           top == tailed[TailerOf[owner[p]]]
<1>1. BaseInv /\ DispatchOK /\ ReplayOK
  BY TypeParts DEF OrderInv, BaseInv
<1>2. p \in 1 .. players
  BY <1>1, ExecuteStep DEF BaseInv, Fresh, DispatchOK, PlayerIds
<1>3. /\ e \in Seq(Nat) /\ r \in Nat /\ OrderOf(p) /\ ppc[p] = "busy"
      /\ executed'[p] = Append(e, r)
  BY <1>1, <1>2, PlayerFacts, ExecuteStep DEF OrderInv, ReplayOK
<1>4. \A i \in 1 .. Len(e) : e[i] # 0
  BY <1>3 DEF OrderOf, QuitIsLast
<1>5. Replays(p) = e
  BY <1>3, <1>4 DEF Replays
<1>6. Replays(p)' = IF r = 0 THEN e ELSE Append(e, r)
  <2> PICK d \in Seq(Nat), k \in Nat : d = e /\ k = r
    BY <1>3
  <2> DEFINE f == Append(d, k)
  <2>1. IF k = 0 THEN (IF Len(f) > 0 /\ f[Len(f)] = 0 THEN SubSeq(f, 1, Len(f) - 1)
                       ELSE f) = d
        ELSE (IF Len(f) > 0 /\ f[Len(f)] = 0 THEN SubSeq(f, 1, Len(f) - 1) ELSE f) = f
    BY ReplaysAppended
  <2>2. executed'[p] = f
    BY <1>3
  <2> HIDE DEF f
  <2>3. Replays(p)' = IF k = 0 THEN d ELSE f
    BY <2>1, <2>2 DEF Replays
  <2>4. QED  BY <2>3 DEF f
<1>7. r # 0 => r <= top
  <2>1. TailerOf[owner[p]] \in Tailers /\ Done(TailerOf[owner[p]]) \in Nat
    BY <1>1, <1>2, PlayerFacts
  <2>2. Done(TailerOf[owner[p]]) <= top /\ top \in Nat
    BY <1>1, <2>1 DEF Done, DispatchOK
  <2>3. Known(p, r)
    BY <1>3 DEF OrderOf, GivenIsKnown
  <2>4. QED  BY <1>3, <2>1, <2>2, <2>3 DEF Known, Of
<1>8. \A i \in 1 .. Len(e) : r # 0 => e[i] < r
  BY <1>3, <1>4 DEF OrderOf, InHandBetween, Before
<1> HIDE DEF e, r, top
<1>9. ASSUME r = 0 PROVE Relay!Extends(e, e, top)
  BY <1>3 DEF Relay!Extends
<1>10. ASSUME r # 0 PROVE Relay!Extends(e, Append(e, r), top)
  <2> DEFINE f == Append(e, r)
  <2>1. /\ Len(f) = Len(e) + 1 /\ Len(e) \in Nat /\ f[Len(e) + 1] = r
        /\ \A i \in 1 .. Len(e) : f[i] = e[i]
    BY <1>3
  <2> HIDE DEF f
  <2>2. Relay!Extends(e, f, top)
    BY <1>7, <1>8, <1>10, <2>1 DEF Relay!Extends
  <2>3. QED  BY <2>2 DEF f
<1>11. QED  BY <1>2, <1>5, <1>6, <1>9, <1>10 DEF top

(* Every step of the player maps to a step of the relay, or changes        *)
(* nothing there.                                                          *)
LEMMA NothingReplayed ==
    ASSUME BaseInv, BaseInv', UNCHANGED executed,
           players' = players \/ players' = players + 1,
           \A p \in 1 .. players : owner'[p] = owner[p],
           \A t \in Tailers : tailed'[t] >= tailed[t]
    PROVE  Relay!Enter
<1>1. DispatchOK /\ DispatchOK'
  BY TypeParts DEF BaseInv
<1>2. Out' = Out
  BY DEF Out, Replays
<1>3. ASSUME NEW p \in PlayerIds PROVE In'[p] >= In[p]
  <2>1. players \in Nat /\ players' \in Nat /\ p \in Nat
    BY <1>1, OptionsAssumption DEF DispatchOK, PlayerIds
  <2>2. CASE p > players
    <3>1. In[p] = 0
      BY <2>2 DEF In
    <3>2. In'[p] \in Nat
      <4>1. CASE p > players'
        BY <4>1 DEF In
      <4>2. CASE ~(p > players')
        <5>1. TailerOf[owner'[p]] \in Tailers
          BY <1>1, <2>1, <4>2, StreamAssumption DEF DispatchOK, PlayerIds
        <5>2. QED  BY <1>1, <4>2, <5>1 DEF In, DispatchOK
      <4>3. QED  BY <4>1, <4>2
    <3>3. QED  BY <3>1, <3>2
  <2>3. CASE ~(p > players)
    <3>1. p \in 1 .. players /\ ~(p > players')
      BY <2>1, <2>3 DEF PlayerIds
    <3>2. TailerOf[owner[p]] \in Tailers /\ owner'[p] = owner[p]
      BY <3>1, PlayerFacts
    <3>3. QED  BY <2>3, <3>1, <3>2 DEF In
  <2>4. QED  BY <2>2, <2>3
<1>4. QED  BY <1>2, <1>3 DEF Relay!Enter, In, Out

LEMMA TakeRequestEnters ==
    ASSUME BaseInv, NEW t \in Tailers, NEW n \in 1 .. Len(Stream[t]),
           n > tailed[t], TakeRequest(t, n)
    PROVE  Relay!Enter
<1>1. BaseInv' /\ DispatchOK
  BY TakeRequestKeeps, TypeParts DEF BaseInv
<1>2. \A u \in Tailers : tailed'[u] >= tailed[u]
  BY <1>1 DEF TakeRequest, DispatchOK
<1>3. UNCHANGED <<executed, players, owner>>
  BY DEF TakeRequest, playerVars
<1>4. QED  BY <1>1, <1>2, <1>3, NothingReplayed

LEMMA NewPlayerEnters ==
    ASSUME BaseInv, NEW t \in Tailers, NewPlayer(t)
    PROVE  Relay!Enter
<1>1. BaseInv' /\ DispatchOK
  BY NewPlayerKeeps, TypeParts DEF BaseInv
<1>2. \A p \in 1 .. players : owner'[p] = owner[p]
  BY <1>1, HandledDocument DEF NewPlayer, DispatchOK, BaseInv
<1>3. UNCHANGED <<executed, tailed>> /\ players' = players + 1
  BY DEF NewPlayer
<1>4. \A u \in Tailers : tailed'[u] >= tailed[u]
  BY <1>1, <1>3 DEF DispatchOK
<1>5. QED  BY <1>1, <1>2, <1>3, <1>4, NothingReplayed

LEMMA ExecuteLeaves ==
    ASSUME OrderInv, NEW p \in PlayerIds, Execute(p)
    PROVE  Relay!Leave
<1>1. BaseInv /\ DispatchOK /\ ReplayOK
  BY TypeParts DEF OrderInv, BaseInv
<1>2. UNCHANGED <<players, owner, tailed>>
  BY ExecuteStep DEF PlayerFrame, tailerVars
<1>3. In' = In
  BY <1>2 DEF In
<1>4. ASSUME NEW f \in PlayerIds PROVE Relay!Extends(Out[f], Out'[f], In[f])
  <2>1. Out[f] = Replays(f) /\ Out'[f] = Replays(f)'
    BY DEF Out
  <2>2. CASE f = p
    <3>1. p \in 1 .. players /\ players \in Nat
      BY <1>1, ExecuteExtends, PlayerFacts
    <3>2. In[p] = tailed[TailerOf[owner[p]]]
      BY <3>1 DEF In
    <3>3. QED  BY <2>1, <2>2, <3>2, ExecuteExtends
  <2>3. CASE f # p
    <3>1. executed'[f] = executed[f]
      BY <1>1, <2>3, ExecuteStep DEF ReplayOK
    <3>2. Replays(f)' = Replays(f)
      BY <3>1 DEF Replays
    <3>3. Replays(f) \in Seq(Nat)
      BY <1>1, ReplaysIsSequence
    <3>4. QED  BY <2>1, <3>2, <3>3 DEF Relay!Extends
  <2>4. QED  BY <2>2, <2>3
<1>5. QED  BY <1>3, <1>4 DEF Relay!Leave, In, Out

LEMMA RelayInit == Init => Relay!Init
<1> SUFFICES ASSUME Init PROVE Relay!Init
  OBVIOUS
<1>1. Out = [p \in PlayerIds |-> <<>>]
  BY DEF Init, Out, Replays
<1>2. \A p \in PlayerIds : In[p] = 0
  BY DEF Init, In, PlayerIds
<1>3. QED  BY <1>1, <1>2 DEF Relay!Init, In, Out

LEMMA RelayNext == OrderInv /\ [Next]_vars => [Relay!Next]_(Relay!vars)
<1> SUFFICES ASSUME OrderInv, [Next]_vars PROVE [Relay!Next]_(Relay!vars)
  OBVIOUS
<1>0. BaseInv
  BY DEF OrderInv
<1>1. ASSUME NEW t \in Tailers, GetPlayer(t) \/ NewPlayer(t)
      PROVE  Relay!Next
  BY <1>0, <1>1, GetPlayerTakes, TakeRequestEnters, NewPlayerEnters
  DEF BaseInv, Relay!Next
<1>2. ASSUME NEW p \in PlayerIds, Execute(p) PROVE Relay!Next
  BY <1>2, ExecuteLeaves DEF Relay!Next
<1>3. CASE UNCHANGED <<executed, players, owner, tailed>>
  BY <1>3 DEF Relay!vars, Replays
<1>4. CASE MainNext
  BY <1>3, <1>4 DEF MainNext, CloseIdleSession, CloseDone, VisitEntry, DrainQueue,
     PushUrgentQuit, playerVars, tailerVars
<1>5. CASE \/ PreparedConnectionsBreak \/ Finished \/ UNCHANGED vars
           \/ \E p \in PlayerIds : ConnectionBreaks(p) \/ BecomesIdle(p)
  BY <1>3, <1>5
  DEF PreparedConnectionsBreak, Finished, ConnectionBreaks, BecomesIdle,
      vars, replayVars, playerVars, tailerVars
<1>6. ASSUME NEW t \in Tailers, PushNext(t) PROVE [Relay!Next]_(Relay!vars)
  BY <1>1, <1>3, <1>6
  DEF PushNext, PutPlayer, StartPlayer, CheckQueue, Offer, RemovePlayer, playerVars
<1>7. ASSUME NEW p \in PlayerIds, PlayerNext(p) PROVE [Relay!Next]_(Relay!vars)
  BY <1>2, <1>3, <1>7
  DEF PlayerNext, Execute, InitPrepared, Connect, ConnectFails, Poll, tailerVars
<1>8. QED  BY <1>1, <1>4, <1>5, <1>6, <1>7 DEF Next, TailerNext

(* Each SQLPlayer thread is an ordered relay from the tailer of its        *)
(* session to the target server: what it sends was tailed before, is sent  *)
(* in the order of the collection and never twice, whatever the idle check *)
(* drains and whenever its thread ends.                                    *)
THEOREM PlayerImplementsRelay == Spec => PlayerRelays
<1>1. QED
  BY OrderInit, OrderNext, RelayInit, RelayNext, PTL DEF Spec, PlayerRelays, Relay!Spec

-----------------------------------------------------------------------------
(* A player that goes on: nothing it has been given will end its thread.   *)
Going(p) ==
    /\ ppc[p] # "stopped"
    /\ ppc[p] = "busy" => ~IsQuit(p, request[p])
    /\ \A i \in 1 .. Len(requestQueue[p]) : ~IsQuit(p, requestQueue[p][i])

(* A QUIT is the last thing a player is given.                             *)
NothingBehindQuit(p) ==
    /\ \A i \in 1 .. Len(requestQueue[p]) :
          IsQuit(p, requestQueue[p][i]) => i = Len(requestQueue[p])
    /\ ppc[p] = "busy" /\ IsQuit(p, request[p]) => requestQueue[p] = <<>>
    /\ ppc[p] = "stopped" => requestQueue[p] = <<>>

(* Tailers push to players that go on, and the map leads to such, but for  *)
(* the one whose QUIT was just pushed and that is about to be removed.     *)
Removing(s) == /\ tpc[TailerOf[s]] = "remove"
               /\ Handled(TailerOf[s]).s = s
PushedGoOn ==
    \A t \in Tailers :
        tpc[t] \in {"put", "start", "push", "offer"} => Going(player[t])
MappedGoOn ==
    \A s \in Sessions : playerMap[s] # 0 /\ ~Removing(s) => Going(playerMap[s])

(* Player p has replayed request n, has it in hand or will poll it.        *)
Has(p, n) ==
    \/ \E i \in 1 .. Len(executed[p]) : executed[p][i] = n
    \/ ppc[p] = "busy" /\ request[p] = n
    \/ \E i \in 1 .. Len(requestQueue[p]) : requestQueue[p][i] = n
Kept(t, n) ==
    Stream[t][n].c # COM_QUIT =>
        \E p \in 1 .. players : owner[p] = Stream[t][n].s /\ Has(p, n)
AllKept == \A t \in Tailers : \A n \in 1 .. Done(t) : Kept(t, n)

(* No session expires, and the idle check never finds one.                 *)
NobodyIdle == /\ ~IdleExpiry /\ mpc = "sleep"
              /\ \A p \in PlayerIds : ~idle[p]

LossInv == /\ BaseInv /\ NobodyIdle
           /\ \A p \in 1 .. players : NothingBehindQuit(p)
           /\ PushedGoOn /\ MappedGoOn /\ AllKept

(* What a step may do to a player that its future does not depend on.      *)
SameFuture(p) ==
    /\ Going(p)' <=> Going(p)
    /\ NothingBehindQuit(p) => NothingBehindQuit(p)'
    /\ \A n \in Nat : Has(p, n)' <=> Has(p, n)

(* The command that ends a thread is the QUIT.                             *)
LEMMA QuitCommand ==
    ASSUME NEW p \in PlayerIds
    PROVE  CurrentCommand(p) = COM_QUIT <=> IsQuit(p, request[p])
BY DEF CurrentCommand, CommandOf, Document, IsQuit, COM_QUIT, COM_LOGIN, COM_INIT_DB

LEMMA UntouchedFuture ==
    ASSUME NEW p \in 1 .. players, owner'[p] = owner[p],
           requestQueue'[p] = requestQueue[p], request'[p] = request[p],
           executed'[p] = executed[p],
           \/ ppc'[p] = ppc[p]
           \/ ppc[p] \in {"new", "init", "run"} /\ ppc'[p] \in {"new", "init", "run"}
    PROVE  SameFuture(p)
<1>1. Going(p)' <=> Going(p)
  BY DEF Going, IsQuit
<1>2. NothingBehindQuit(p) => NothingBehindQuit(p)'
  BY DEF NothingBehindQuit, IsQuit
<1>3. \A n \in Nat : Has(p, n)' <=> Has(p, n)
  BY DEF Has
<1>4. QED  BY <1>1, <1>2, <1>3 DEF SameFuture

LEMMA PollFuture ==
    ASSUME BaseInv, NEW p \in PlayerIds, Poll(p)
    PROVE  p \in 1 .. players /\ SameFuture(p)
<1> DEFINE q == requestQueue[p]
           r == requestQueue'[p]
<1>1. DispatchOK /\ ReplayOK
  BY TypeParts DEF BaseInv
<1>2. p \in 1 .. players
  BY <1>1 DEF BaseInv, Fresh, DispatchOK, PlayerIds, Poll
<1>3. /\ q \in Seq(Nat) /\ q # <<>> /\ r = Tail(q) /\ request'[p] = q[1]
      /\ ppc[p] = "run" /\ ppc'[p] = "busy" /\ executed' = executed /\ owner' = owner
  BY <1>1 DEF Poll, Dequeue, ReplayOK
<1>4. /\ Len(q) \in Nat \ {0} /\ Len(r) = Len(q) - 1 /\ r \in Seq(Nat)
      /\ \A i \in 1 .. Len(r) : r[i] = q[i + 1]
  BY <1>3
<1> HIDE DEF q, r
<1>5. \A i \in 1 .. Len(q) : i = 1 \/ (i - 1 \in 1 .. Len(r) /\ q[i] = r[i - 1])
  BY <1>4
<1>6. \A i \in 1 .. Len(r) : i + 1 \in 1 .. Len(q) /\ i + 1 # 1
  BY <1>4
<1>7. Going(p)' <=> Going(p)
  <2>1. Going(p) <=> \A i \in 1 .. Len(q) : ~IsQuit(p, q[i])
    BY <1>3 DEF Going, q
  <2>2. Going(p)' <=> /\ ~IsQuit(p, q[1])
                      /\ \A i \in 1 .. Len(r) : ~IsQuit(p, r[i])
    BY <1>3 DEF Going, IsQuit, r
  <2>3. 1 \in 1 .. Len(q)
    BY <1>4
  <2>4. ASSUME \A i \in 1 .. Len(q) : ~IsQuit(p, q[i])
        PROVE  ~IsQuit(p, q[1]) /\ \A i \in 1 .. Len(r) : ~IsQuit(p, r[i])
    BY <1>4, <1>6, <2>3, <2>4
  <2>5. ASSUME ~IsQuit(p, q[1]), \A i \in 1 .. Len(r) : ~IsQuit(p, r[i])
        PROVE  \A i \in 1 .. Len(q) : ~IsQuit(p, q[i])
    BY <1>5, <2>5
  <2>6. QED  BY <2>1, <2>2, <2>4, <2>5
<1>8. ASSUME NothingBehindQuit(p) PROVE NothingBehindQuit(p)'
  <2>1. \A i \in 1 .. Len(q) : IsQuit(p, q[i]) => i = Len(q)
    BY <1>8 DEF NothingBehindQuit, q
  <2>2. ASSUME NEW i \in 1 .. Len(r), IsQuit(p, r[i]) PROVE i = Len(r)
    <3>1. r[i] = q[i + 1] /\ i + 1 \in 1 .. Len(q)
      BY <1>4, <1>6
    <3>2. i + 1 = Len(q)
      BY <2>1, <2>2, <3>1
    <3>3. QED  BY <1>4, <3>2
  <2>3. IsQuit(p, q[1]) => Len(r) = 0
    BY <1>4, <2>1
  <2>4. IsQuit(p, q[1]) => r = <<>>
    <3>1. \A x \in Seq(Nat) : Len(x) = 0 => x = <<>>
      OBVIOUS
    <3>2. QED  BY <1>4, <2>3, <3>1
  <2>5. QED  BY <1>3, <2>2, <2>4 DEF NothingBehindQuit, IsQuit, r
<1>9. ASSUME NEW n \in Nat, Has(p, n) PROVE Has(p, n)'
  <2>1. CASE \E i \in 1 .. Len(executed[p]) : executed[p][i] = n
    BY <1>3, <2>1 DEF Has
  <2>2. CASE \E i \in 1 .. Len(q) : q[i] = n
    <3>1. q[1] = n \/ \E i \in 1 .. Len(r) : r[i] = n
      BY <1>5, <2>2
    <3>2. QED  BY <1>3, <3>1 DEF Has, r
  <2>3. QED  BY <1>3, <1>9, <2>1, <2>2 DEF Has, q
<1>10. ASSUME NEW n \in Nat, Has(p, n)' PROVE Has(p, n)
  <2>1. \/ \E i \in 1 .. Len(executed[p]) : executed[p][i] = n
        \/ q[1] = n
        \/ \E i \in 1 .. Len(r) : r[i] = n
    BY <1>3, <1>10 DEF Has, r
  <2>2. (\E i \in 1 .. Len(executed[p]) : executed[p][i] = n)
        \/ \E i \in 1 .. Len(q) : q[i] = n
    BY <1>4, <1>6, <2>1
  <2>3. QED  BY <2>2 DEF Has, q
<1>11. QED  BY <1>2, <1>7, <1>8, <1>9, <1>10 DEF SameFuture

LEMMA ExecuteFuture ==
    ASSUME BaseInv, NEW p \in PlayerIds, Execute(p)
    PROVE  p \in 1 .. players /\ SameFuture(p)
<1> DEFINE e == executed[p]
<1>1. DispatchOK /\ ReplayOK
  BY TypeParts DEF BaseInv
<1>2. p \in 1 .. players
  BY <1>1, ExecuteStep DEF BaseInv, Fresh, DispatchOK, PlayerIds
<1>3. /\ ppc[p] = "busy" /\ requestQueue' = requestQueue /\ owner' = owner
      /\ e \in Seq(Nat) /\ executed'[p] = Append(e, request[p]) /\ request[p] \in Nat
      /\ request' = request
      /\ ppc'[p] = IF IsQuit(p, request[p]) THEN "stopped" ELSE "run"
  BY <1>1, ExecuteStep, QuitCommand DEF ReplayOK, PlayerFrame
<1>4. Going(p)' <=> Going(p)
  BY <1>3 DEF Going, IsQuit
<1>5. NothingBehindQuit(p) => NothingBehindQuit(p)'
  BY <1>3 DEF NothingBehindQuit, IsQuit
<1>6. ASSUME NEW n \in Nat, Has(p, n) PROVE Has(p, n)'
  <2>1. /\ Len(executed'[p]) = Len(e) + 1 /\ Len(e) \in Nat
        /\ executed'[p][Len(e) + 1] = request[p]
        /\ \A i \in 1 .. Len(e) : executed'[p][i] = e[i]
    BY <1>3
  <2>2. CASE request[p] = n
    <3>1. Len(e) + 1 \in 1 .. Len(executed'[p])
      BY <2>1
    <3>2. QED  BY <2>1, <2>2, <3>1 DEF Has
  <2>3. CASE \E i \in 1 .. Len(e) : e[i] = n
    <3>1. PICK i \in 1 .. Len(e) : e[i] = n
      BY <2>3
    <3>2. i \in 1 .. Len(executed'[p]) /\ executed'[p][i] = n
      BY <2>1, <3>1
    <3>3. QED  BY <3>2 DEF Has
  <2>4. CASE \E i \in 1 .. Len(requestQueue[p]) : requestQueue[p][i] = n
    BY <1>3, <2>4 DEF Has
  <2>5. QED  BY <1>6, <2>2, <2>3, <2>4 DEF Has
<1>7. ASSUME NEW n \in Nat, Has(p, n)' PROVE Has(p, n)
  <2>1. /\ Len(executed'[p]) = Len(e) + 1 /\ Len(e) \in Nat
        /\ executed'[p][Len(e) + 1] = request[p]
        /\ \A i \in 1 .. Len(e) : executed'[p][i] = e[i]
    BY <1>3
  <2>2. CASE \E i \in 1 .. Len(executed'[p]) : executed'[p][i] = n
    <3>1. PICK i \in 1 .. Len(executed'[p]) : executed'[p][i] = n
      BY <2>2
    <3>2. i = Len(e) + 1 \/ i \in 1 .. Len(e)
      BY <2>1
    <3>3. QED  BY <1>3, <2>1, <3>1, <3>2 DEF Has
  <2>3. CASE \E i \in 1 .. Len(requestQueue[p]) : requestQueue[p][i] = n
    BY <2>3 DEF Has
  <2>4. QED  BY <1>3, <1>7, <2>2, <2>3 DEF Has
<1>8. QED  BY <1>2, <1>4, <1>5, <1>6, <1>7 DEF SameFuture

(* A request more in the queue of p.                                       *)
LEMMA AppendFuture ==
    ASSUME BaseInv, NEW p \in 1 .. players, NEW k \in Nat,
           requestQueue' = [requestQueue EXCEPT ![p] = Append(@, k)],
           UNCHANGED <<request, executed, owner, ppc>>
    PROVE  /\ Going(p)' <=> Going(p) /\ ~IsQuit(p, k)
           /\ Going(p) => NothingBehindQuit(p)'
           /\ \A n \in Nat : Has(p, n)' <=> Has(p, n) \/ n = k
<1> DEFINE q == requestQueue[p]
           r == requestQueue'[p]
<1>1. p \in PlayerIds /\ q \in Seq(Nat) /\ requestQueue \in [PlayerIds -> Seq(Nat)]
  BY PlayerFacts, TypeParts DEF BaseInv, ReplayOK
<1>2. r = Append(q, k)
  BY <1>1
<1>3. /\ Len(q) \in Nat /\ Len(r) = Len(q) + 1 /\ r[Len(q) + 1] = k
      /\ \A i \in 1 .. Len(q) : r[i] = q[i]
  BY <1>1, <1>2
<1> HIDE DEF q, r
<1>4. Len(q) + 1 \in 1 .. Len(r) /\ \A i \in 1 .. Len(q) : i \in 1 .. Len(r)
  BY <1>3
<1>5. \A i \in 1 .. Len(r) : i = Len(q) + 1 \/ i \in 1 .. Len(q)
  BY <1>3
<1>6. Going(p)' <=> Going(p) /\ ~IsQuit(p, k)
  <2>1. (\A i \in 1 .. Len(r) : ~IsQuit(p, r[i]))
        <=> (\A i \in 1 .. Len(q) : ~IsQuit(p, q[i])) /\ ~IsQuit(p, k)
    BY <1>3, <1>4, <1>5
  <2>2. QED  BY <2>1 DEF Going, IsQuit, q, r
<1>7. ASSUME Going(p) PROVE NothingBehindQuit(p)'
  <2>1. \A i \in 1 .. Len(r) : IsQuit(p, r[i]) => i = Len(r)
    <3>1. \A i \in 1 .. Len(q) : ~IsQuit(p, q[i])
      BY <1>7 DEF Going, q
    <3>2. QED  BY <1>3, <1>5, <3>1
  <2>2. QED  BY <1>7, <2>1 DEF Going, NothingBehindQuit, IsQuit, r
<1>8. ASSUME NEW n \in Nat, \E i \in 1 .. Len(q) : q[i] = n
      PROVE  \E i \in 1 .. Len(r) : r[i] = n
  BY <1>3, <1>4, <1>8
<1>9. \A n \in Nat : Has(p, n) => Has(p, n)'
  BY <1>8 DEF Has, q, r
<1>10. Has(p, k)'
  BY <1>3, <1>4 DEF Has, r
<1>11. ASSUME NEW n \in Nat, Has(p, n)' PROVE Has(p, n) \/ n = k
  <2>1. (\E i \in 1 .. Len(r) : r[i] = n) => n = k \/ \E i \in 1 .. Len(q) : q[i] = n
    BY <1>3, <1>5
  <2>2. QED  BY <1>11, <2>1 DEF Has, q, r
<1>12. QED  BY <1>6, <1>7, <1>9, <1>10, <1>11

(* The threads of the players run on without their futures changing.       *)
LEMMA PlayerNextFuture ==
    ASSUME BaseInv, NEW p \in PlayerIds, PlayerNext(p), NEW q \in 1 .. players
    PROVE  SameFuture(q)
<1>1. ReplayOK /\ DispatchOK /\ q \in PlayerIds
  BY TypeParts, PlayerFacts DEF BaseInv
<1>2. CASE InitPrepared(p) \/ Connect(p) \/ ConnectFails(p)
  <2>1. /\ UNCHANGED <<requestQueue, request, executed, owner>> /\ ppc[p] = "init"
        /\ UNCHANGED ppc \/ ppc' = [ppc EXCEPT ![p] = "run"]
    BY <1>2 DEF InitPrepared, Connect, ConnectFails
  <2>2. ppc'[q] = ppc[q] \/ (ppc[q] = "init" /\ ppc'[q] = "run")
    BY <1>1, <2>1 DEF ReplayOK
  <2>3. QED  BY <2>1, <2>2, UntouchedFuture
<1>3. CASE Poll(p)
  <2>1. CASE q = p
    BY <1>3, <2>1, PollFuture
  <2>2. CASE q # p
    <3>1. /\ requestQueue'[q] = requestQueue[q] /\ request'[q] = request[q]
          /\ ppc'[q] = ppc[q] /\ executed'[q] = executed[q] /\ owner'[q] = owner[q]
      BY <1>1, <1>3, <2>2 DEF Poll, Dequeue, ReplayOK
    <3>2. QED  BY <3>1, UntouchedFuture
  <2>3. QED  BY <2>1, <2>2
<1>4. CASE Execute(p)
  <2>1. CASE q = p
    BY <1>4, <2>1, ExecuteFuture
  <2>2. CASE q # p
    <3>1. /\ requestQueue'[q] = requestQueue[q] /\ request'[q] = request[q]
          /\ ppc'[q] = ppc[q] /\ executed'[q] = executed[q] /\ owner'[q] = owner[q]
      BY <1>1, <1>4, <2>2, ExecuteStep DEF ReplayOK, PlayerFrame
    <3>2. QED  BY <3>1, UntouchedFuture
  <2>3. QED  BY <2>1, <2>2
<1>5. QED  BY <1>2, <1>3, <1>4 DEF PlayerNext, Execute

LEMMA LossInit == Init /\ ~IdleExpiry => LossInv
<1> SUFFICES ASSUME Init, ~IdleExpiry PROVE LossInv
  OBVIOUS
<1>1. BaseInv /\ players = 0
  BY BaseInit DEF Init
<1>2. NobodyIdle
  BY Zenon DEF Init, NobodyIdle
<1>3. PushedGoOn /\ MappedGoOn
  BY DEF Init, PushedGoOn, MappedGoOn
<1>4. AllKept
  BY DEF Init, AllKept, Done, Pushing
<1>5. QED  BY <1>1, <1>2, <1>3, <1>4 DEF LossInv

(* A request that a player has stays with it, and requests that a tailer   *)
(* is done with already stay kept.                                         *)
LEMMA KeptStays ==
    ASSUME BaseInv, players' \in Nat, players <= players',
           \A p \in 1 .. players : SameFuture(p) /\ owner'[p] = owner[p],
           NEW t \in Tailers, NEW n \in Nat, Kept(t, n)
    PROVE  Kept(t, n)'
<1>1. SUFFICES ASSUME Stream[t][n].c # COM_QUIT
               PROVE  \E p \in 1 .. players' : owner'[p] = Stream[t][n].s /\ Has(p, n)'
  BY DEF Kept
<1>2. PICK p \in 1 .. players : owner[p] = Stream[t][n].s /\ Has(p, n)
  BY <1>1 DEF Kept
<1>3. p \in 1 .. players'
  BY PlayerFacts
<1>4. QED  BY <1>2, <1>3 DEF SameFuture

(* The threads of the players and the target server, and steps that leave  *)
(* everything alone.                                                       *)
LEMMA LossFrame ==
    ASSUME LossInv, BaseInv', NobodyIdle',
           UNCHANGED <<players, owner, tailed, tpc, player, playerMap>>,
           \A p \in 1 .. players : SameFuture(p)
    PROVE  LossInv'
<1>1. BaseInv /\ players \in Nat
  BY TypeParts, OptionsAssumption DEF LossInv, BaseInv, DispatchOK, PlayerIds
<1>2. \A p \in 1 .. players' : NothingBehindQuit(p)'
  BY DEF LossInv, SameFuture
<1>3. PushedGoOn'
  <2>1. SUFFICES ASSUME NEW t \in Tailers,
                        tpc[t] \in {"put", "start", "push", "offer"}
                 PROVE  Going(player[t])'
    BY DEF PushedGoOn
  <2>2. PICK p \in 1 .. players : p = player[t]
    BY <1>1, <2>1 DEF BaseInv, Held, Holding
  <2>3. Going(p)
    BY <2>1, <2>2 DEF LossInv, PushedGoOn
  <2>4. Going(p)'
    BY <2>3 DEF SameFuture
  <2>5. QED  BY <2>2, <2>4
<1>4. MappedGoOn'
  <2>1. SUFFICES ASSUME NEW s \in Sessions, playerMap[s] # 0, ~Removing(s)
                 PROVE  Going(playerMap[s])'
    BY DEF MappedGoOn, Removing, Handled
  <2>2. PICK p \in 1 .. players : p = playerMap[s]
    BY <1>1, <2>1 DEF BaseInv, Mapped
  <2>3. Going(p)
    BY <2>1, <2>2 DEF LossInv, MappedGoOn
  <2>4. Going(p)'
    BY <2>3 DEF SameFuture
  <2>5. QED  BY <2>2, <2>4
<1>5. AllKept'
  <2>1. SUFFICES ASSUME NEW t \in Tailers, NEW n \in 1 .. Done(t) PROVE Kept(t, n)'
    BY DEF AllKept, Done
  <2>2. n \in Nat /\ Kept(t, n)
    BY <1>1, DoneIsNat DEF LossInv, AllKept
  <2>3. QED  BY <1>1, <2>2, KeptStays
<1>6. QED  BY <1>2, <1>3, <1>4, <1>5 DEF LossInv

(* GetPlayer takes the next request; it looks up a player that goes on.    *)
LEMMA GetPlayerKeepsAll ==
    ASSUME LossInv, NEW t \in Tailers, GetPlayer(t)
    PROVE  LossInv'
<1>1. BaseInv /\ DispatchOK /\ BaseInv'
  BY GetPlayerTakes, TakeRequestKeeps, TypeParts DEF LossInv, BaseInv
<1>2. PICK n \in 1 .. Len(Stream[t]) : n = tailed[t] + 1 /\ TakeRequest(t, n)
  BY <1>1, StreamAssumption DEF GetPlayer, DispatchOK
<1>3. /\ UNCHANGED <<players, owner, playerMap, requestQueue, request, executed, ppc>>
      /\ UNCHANGED <<mpc, idle>> /\ tpc[t] = "tail"
      /\ tailed' = [tailed EXCEPT ![t] = n]
  BY <1>2 DEF TakeRequest, mapVars, playerVars, mainVars
<1>4. PICK p \in Lookup(t, Stream[t][n].s) :
          /\ player' = [player EXCEPT ![t] = p]
          /\ tpc' = [tpc EXCEPT ![t] =
                        IF p # 0 THEN "push"
                        ELSE IF CommandOf(Stream[t][n]) = COM_QUIT THEN "tail"
                        ELSE "new"]
  BY <1>2 DEF TakeRequest
<1>5. \A q \in 1 .. players : SameFuture(q)
  BY <1>3, UntouchedFuture
<1>6. /\ tailed'[t] = n /\ player'[t] = p
      /\ tpc'[t] \in {"push", "tail", "new"} /\ (tpc'[t] = "push" => p # 0)
      /\ tpc'[t] = "tail" => CommandOf(Stream[t][n]) = COM_QUIT
      /\ \A u \in Tailers \ {t} : tpc'[u] = tpc[u] /\ tailed'[u] = tailed[u]
                                  /\ player'[u] = player[u]
  BY <1>1, <1>3, <1>4 DEF DispatchOK
<1>7. /\ Stream[t][n].s \in Sessions /\ TailerOf[Stream[t][n].s] = t
  BY StreamDocuments
<1>8. NobodyIdle'
  BY Zenon, <1>3 DEF LossInv, NobodyIdle
<1>9. \A q \in 1 .. players' : NothingBehindQuit(q)'
  BY <1>3, <1>5 DEF LossInv, SameFuture
<1>10. PushedGoOn'
  <2>1. SUFFICES ASSUME NEW u \in Tailers,
                        tpc'[u] \in {"put", "start", "push", "offer"}
                 PROVE  Going(player[u])'
    BY DEF PushedGoOn
  <2>2. PICK q \in 1 .. players : q = player'[u]
    BY <1>1, <1>3, <2>1 DEF BaseInv, Held, Holding
  <2>3. Going(q)
    <3>1. CASE u = t
      <4>1. p # 0 /\ q = p
        BY <1>6, <2>1, <2>2, <3>1
      <4>2. p = playerMap[Stream[t][n].s]
        BY <4>1 DEF Lookup
      <4>3. ~Removing(Stream[t][n].s)
        BY <1>3, <1>7 DEF Removing
      <4>4. QED  BY <1>7, <4>1, <4>2, <4>3 DEF LossInv, MappedGoOn
    <3>2. CASE u # t
      BY <1>6, <2>1, <2>2, <3>2 DEF LossInv, PushedGoOn
    <3>3. QED  BY <3>1, <3>2
  <2>4. Going(q)'
    BY <1>5, <2>3 DEF SameFuture
  <2>5. QED  BY <2>2, <2>4
<1>11. MappedGoOn'
  <2>1. SUFFICES ASSUME NEW s \in Sessions, playerMap[s] # 0, ~Removing(s)'
                 PROVE  Going(playerMap[s])'
    BY <1>3 DEF MappedGoOn
  <2>2. ~Removing(s)
    <3>1. TailerOf[s] \in Tailers
      BY StreamAssumption
    <3>2. QED  BY <1>3, <1>6, <2>1, <3>1 DEF Removing, Handled
  <2>3. PICK q \in 1 .. players : q = playerMap[s]
    BY <1>1, <2>1 DEF BaseInv, Mapped
  <2>4. Going(q)
    BY <2>1, <2>2, <2>3 DEF LossInv, MappedGoOn
  <2>5. Going(q)'
    BY <1>5, <2>4 DEF SameFuture
  <2>6. QED  BY <1>3, <2>3, <2>5
<1>12. AllKept'
  <2>1. SUFFICES ASSUME NEW u \in Tailers, NEW k \in 1 .. Done(u)' PROVE Kept(u, k)'
    BY DEF AllKept
  <2>2. k \in Nat /\ players \in Nat /\ Done(u) \in Nat
    BY <1>1, DoneIsNat, OptionsAssumption DEF DispatchOK, PlayerIds
  <2>3. CASE k \in 1 .. Done(u)
    <3>1. Kept(u, k)
      BY <2>3 DEF LossInv, AllKept
    <3>2. QED  BY <1>1, <1>3, <1>5, <2>2, <3>1, KeptStays
  <2>4. CASE k \notin 1 .. Done(u)
    <3>1. u = t
      BY <1>6, <2>1, <2>4 DEF Done
    <3>2. Done(t) = tailed[t] /\ tailed[t] \in Nat
      BY <1>1, <1>3 DEF Done, Pushing, DispatchOK
    <3>3. tpc'[t] = "tail" /\ k = n
      BY <1>2, <1>6, <2>1, <2>4, <3>1, <3>2 DEF Done, Pushing
    <3>4. Stream[t][n].c = COM_QUIT
      BY <1>6, <3>3 DEF CommandOf, COM_QUIT, COM_INIT_DB, COM_LOGIN
    <3>5. QED  BY <3>1, <3>3, <3>4 DEF Kept
  <2>5. QED  BY <2>3, <2>4
<1>13. QED  BY <1>1, <1>8, <1>9, <1>10, <1>11, <1>12 DEF LossInv

(* The steps of pushEvent2Player that push no request.                     *)
LEMMA PushSameDone ==
    ASSUME BaseInv, NEW t \in Tailers, PushNext(t), ~Offer(t)
    PROVE  /\ UNCHANGED <<tailed, requestQueue, request, executed, mpc, idle>>
           /\ \A u \in Tailers : Done(u)' = Done(u)
           /\ \A u \in Tailers \ {t} : tpc'[u] = tpc[u] /\ player'[u] = player[u]
           /\ \A s \in Sessions : Removing(s)' => Removing(s)
           /\ tpc'[t] # "remove"
<1>1. DispatchOK
  BY TypeParts DEF BaseInv
<1>2. UNCHANGED <<tailed, requestQueue, request, executed, mpc, idle>>
  BY DEF PushNext, NewPlayer, PutPlayer, StartPlayer, CheckQueue, RemovePlayer,
     playerVars, mainVars
<1>3. /\ \A u \in Tailers \ {t} : tpc'[u] = tpc[u] /\ player'[u] = player[u]
      /\ tpc'[t] \in Pushing <=> tpc[t] \in Pushing
      /\ tpc'[t] # "remove"
  BY <1>1 DEF PushNext, NewPlayer, PutPlayer, StartPlayer, CheckQueue, RemovePlayer,
     Pushing, DispatchOK
<1>4. \A u \in Tailers : Done(u)' = Done(u)
  BY <1>2, <1>3 DEF Done
<1>5. ASSUME NEW s \in Sessions, Removing(s)' PROVE Removing(s)
  <2>1. TailerOf[s] \in Tailers
    BY StreamAssumption
  <2>2. QED  BY <1>2, <1>3, <1>5, <2>1 DEF Removing, Handled
<1>6. QED  BY <1>2, <1>3, <1>4, <1>5

LEMMA PushFuture ==
    ASSUME BaseInv, NEW t \in Tailers, PushNext(t), ~Offer(t), NEW p \in 1 .. players
    PROVE  SameFuture(p) /\ owner'[p] = owner[p]
<1>1. DispatchOK /\ ReplayOK
  BY TypeParts DEF BaseInv
<1>2. owner'[p] = owner[p]
  <2>1. CASE NewPlayer(t)
    BY <1>1, <2>1, HandledDocument DEF NewPlayer, DispatchOK, BaseInv
  <2>2. CASE ~NewPlayer(t)
    BY <2>2 DEF PushNext, PutPlayer, StartPlayer, CheckQueue, RemovePlayer
  <2>3. QED  BY <2>1, <2>2
<1>3. ppc'[p] = ppc[p] \/ (ppc[p] = "new" /\ ppc'[p] = "init")
  <2>1. CASE StartPlayer(t)
    <3>1. ppc[player[t]] = "new" /\ ppc' = [ppc EXCEPT ![player[t]] = "init"]
      BY <2>1 DEF StartPlayer, BaseInv, Held
    <3>2. p \in PlayerIds
      BY PlayerFacts
    <3>3. QED  BY <1>1, <3>1, <3>2 DEF ReplayOK
  <2>2. CASE ~StartPlayer(t)
    BY <2>2 DEF PushNext, NewPlayer, PutPlayer, CheckQueue, RemovePlayer, playerVars
  <2>3. QED  BY <2>1, <2>2
<1>4. QED  BY <1>2, <1>3, PushSameDone, UntouchedFuture

LEMMA PushKeepsAll ==
    ASSUME LossInv, NEW t \in Tailers, PushNext(t), ~Offer(t)
    PROVE  LossInv'
<1>1. BaseInv /\ BaseInv' /\ DispatchOK /\ DispatchOK' /\ ReplayOK
  BY NewPlayerKeeps, PutPlayerKeeps, StartPlayerKeeps, CheckQueueKeeps,
     RemovePlayerKeeps, TypeParts DEF PushNext, LossInv, BaseInv
<1>2. /\ UNCHANGED <<tailed, requestQueue, request, executed, mpc, idle>>
      /\ \A u \in Tailers : Done(u)' = Done(u)
      /\ \A u \in Tailers \ {t} : tpc'[u] = tpc[u] /\ player'[u] = player[u]
      /\ \A s \in Sessions : Removing(s)' => Removing(s)
  BY <1>1, PushSameDone
<1>3. players \in Nat /\ players' \in Nat /\ players' <= MaxPlayers
  BY <1>1, OptionsAssumption DEF DispatchOK, PlayerIds
<1>4. \/ NewPlayer(t) /\ players' = players + 1
      \/ ~NewPlayer(t) /\ UNCHANGED <<players, owner>>
  BY DEF PushNext, NewPlayer, PutPlayer, StartPlayer, CheckQueue, RemovePlayer
<1>5. \A p \in 1 .. players : SameFuture(p) /\ owner'[p] = owner[p]
  BY <1>1, PushFuture
<1>6. ASSUME NewPlayer(t), NEW p \in Nat, p = players'
      PROVE  Going(p)' /\ NothingBehindQuit(p)'
  <2>1. p \in PlayerIds /\ p > players
    BY <1>3, <1>4, <1>6 DEF PlayerIds
  <2>2. requestQueue[p] = <<>> /\ ppc[p] = "new" /\ ppc' = ppc
    BY <1>1, <1>6, <2>1 DEF BaseInv, Fresh, NewPlayer
  <2>3. QED  BY <1>2, <2>2 DEF Going, NothingBehindQuit
<1>7. NobodyIdle'
  BY Zenon, <1>2 DEF LossInv, NobodyIdle
<1>8. ASSUME NEW p \in 1 .. players' PROVE NothingBehindQuit(p)'
  <2>1. CASE p \in 1 .. players
    BY <1>5, <2>1 DEF LossInv, SameFuture
  <2>2. CASE p \notin 1 .. players
    <3>1. NewPlayer(t) /\ p = players' /\ p \in Nat
      BY <1>3, <1>4, <2>2
    <3>2. QED  BY <1>6, <3>1
  <2>3. QED  BY <2>1, <2>2
<1>9. PushedGoOn'
  <2>1. SUFFICES ASSUME NEW u \in Tailers,
                        tpc'[u] \in {"put", "start", "push", "offer"}
                 PROVE  Going(player[u])'
    BY DEF PushedGoOn
  <2>2. PICK p \in 1 .. players' : p = player'[u]
    BY <1>1, <2>1 DEF BaseInv, Held, Holding
  <2>3. CASE u = t /\ NewPlayer(t)
    <3>1. p = players' /\ p \in Nat
      BY <1>1, <1>3, <2>2, <2>3 DEF NewPlayer, DispatchOK
    <3>2. QED  BY <1>6, <2>2, <2>3, <3>1
  <2>4. CASE ~(u = t /\ NewPlayer(t))
    <3>1. tpc[u] \in {"put", "start", "push", "offer"} /\ player'[u] = player[u]
      BY <1>1, <1>2, <2>1, <2>4
      DEF PushNext, PutPlayer, StartPlayer, CheckQueue, RemovePlayer, DispatchOK
    <3>2. p \in 1 .. players
      BY <1>1, <2>2, <3>1 DEF BaseInv, Held, Holding
    <3>3. Going(p)
      BY <2>2, <3>1 DEF LossInv, PushedGoOn
    <3>4. Going(p)'
      BY <1>5, <3>2, <3>3 DEF SameFuture
    <3>5. QED  BY <2>2, <3>4
  <2>5. QED  BY <2>3, <2>4
<1>10. MappedGoOn'
  <2>1. SUFFICES ASSUME NEW s \in Sessions, playerMap'[s] # 0, ~Removing(s)'
                 PROVE  Going(playerMap[s])'
    BY DEF MappedGoOn
  <2>2. CASE PutPlayer(t) /\ s = Handled(t).s
    <3>1. playerMap'[s] = player[t] /\ tpc[t] = "put" /\ player' = player
          /\ tpc'[t] = "start"
      BY <1>1, <2>2 DEF PutPlayer, MapPlayer, DispatchOK
    <3>2. Going(player[t])'
      BY <1>9, <3>1 DEF PushedGoOn
    <3>3. QED  BY <3>1, <3>2
  <2>3. CASE ~(PutPlayer(t) /\ s = Handled(t).s)
    <3>1. playerMap'[s] = playerMap[s] /\ ~Removing(s)
      <4>1. CASE RemovePlayer(t)
        <5>1. s # Handled(t).s /\ playerMap'[s] = playerMap[s] /\ tpc[t] = "remove"
          BY <1>1, <2>1, <4>1 DEF RemovePlayer, Unmap, DispatchOK
        <5>2. TailerOf[s] \in Tailers
          BY StreamAssumption
        <5>3. TailerOf[s] # t => ~Removing(s)
          BY <1>2, <2>1, <5>2 DEF Removing, Handled
        <5>4. QED  BY <5>1, <5>3 DEF Removing
      <4>2. CASE ~RemovePlayer(t)
        <5>1. playerMap'[s] = playerMap[s]
          BY <1>1, <2>3, <4>2 DEF PushNext, NewPlayer, PutPlayer, MapPlayer, StartPlayer,
             CheckQueue, mapVars, DispatchOK
        <5>2. tpc[t] # "remove"
          BY <4>2 DEF PushNext, NewPlayer, PutPlayer, StartPlayer, CheckQueue
        <5>3. TailerOf[s] \in Tailers
          BY StreamAssumption
        <5>4. ~Removing(s)
          BY <1>2, <2>1, <5>2, <5>3 DEF Removing, Handled
        <5>5. QED  BY <5>1, <5>4
      <4>3. QED  BY <4>1, <4>2
    <3>2. PICK p \in 1 .. players : p = playerMap[s]
      BY <1>1, <2>1, <3>1 DEF BaseInv, Mapped
    <3>3. Going(p)
      BY <2>1, <3>1, <3>2 DEF LossInv, MappedGoOn
    <3>4. Going(p)'
      BY <1>5, <3>3 DEF SameFuture
    <3>5. QED  BY <3>1, <3>2, <3>4
  <2>4. QED  BY <2>2, <2>3
<1>11. AllKept'
  <2>1. SUFFICES ASSUME NEW u \in Tailers, NEW n \in 1 .. Done(u) PROVE Kept(u, n)'
    BY <1>2 DEF AllKept
  <2>2. n \in Nat /\ Kept(u, n)
    BY <1>1, DoneIsNat DEF LossInv, AllKept
  <2>3. players <= players'
    BY <1>3, <1>4
  <2>4. QED  BY <1>1, <1>3, <1>5, <2>2, <2>3, KeptStays
<1>12. QED  BY <1>1, <1>7, <1>8, <1>9, <1>10, <1>11 DEF LossInv

(* A request is pushed to a player that goes on, and is kept by it.        *)
LEMMA OfferKeepsAll ==
    ASSUME LossInv, NEW t \in Tailers, Offer(t)
    PROVE  LossInv'
<1>1. BaseInv' /\ BaseInv /\ DispatchOK /\ ReplayOK
  BY OfferKeeps, TypeParts DEF LossInv, BaseInv
<1>2. PICK p \in 1 .. players : p = player[t] /\ owner[p] = Handled(t).s
  BY <1>1 DEF BaseInv, Held, Holding, Offer
<1>3. /\ tailed[t] \in 1 .. Len(Stream[t]) /\ Len(Stream[t]) \in Nat
      /\ TailerOf[owner[p]] = t /\ Handled(t).s \in Sessions
  BY <1>1, <1>2, HandledDocument, StreamAssumption DEF BaseInv, Offer
<1> PICK n \in Nat : n = tailed[t]
  BY <1>3
<1>4. /\ requestQueue' = [requestQueue EXCEPT ![p] = Append(@, n)]
      /\ UNCHANGED <<request, executed, players, owner, ppc, tailed, player, playerMap,
                     mpc, idle>>
      /\ tpc[t] = "offer"
      /\ tpc'[t] = IF CommandOf(Handled(t)) = COM_QUIT THEN "remove" ELSE "tail"
      /\ \A u \in Tailers \ {t} : tpc'[u] = tpc[u]
  BY <1>1, <1>2 DEF Offer, playerVars, mapVars, mainVars, DispatchOK
<1>5. Going(p)
  BY <1>2, <1>4 DEF LossInv, PushedGoOn
<1>6. /\ Going(p)' <=> ~IsQuit(p, n)
      /\ NothingBehindQuit(p)'
      /\ \A k \in Nat : Has(p, k) => Has(p, k)'
      /\ Has(p, n)'
  BY <1>1, <1>4, <1>5, AppendFuture
<1>7. ASSUME NEW q \in 1 .. players, q # p PROVE SameFuture(q)
  <2>1. q \in PlayerIds
    BY <1>1, PlayerFacts
  <2>2. requestQueue'[q] = requestQueue[q]
    BY <1>1, <1>4, <1>7, <2>1 DEF ReplayOK
  <2>3. QED  BY <1>4, <2>2, UntouchedFuture
<1>8. IsQuit(p, n) <=> CommandOf(Handled(t)) = COM_QUIT
  BY <1>3 DEF IsQuit, Handled, CommandOf, COM_QUIT, COM_LOGIN, COM_INIT_DB
<1>9. NobodyIdle'
  BY Zenon, <1>4 DEF LossInv, NobodyIdle
<1>10. \A q \in 1 .. players' : NothingBehindQuit(q)'
  BY <1>4, <1>6, <1>7 DEF LossInv, SameFuture
<1>11. PushedGoOn'
  <2>1. SUFFICES ASSUME NEW u \in Tailers,
                        tpc'[u] \in {"put", "start", "push", "offer"}
                 PROVE  Going(player[u])'
    BY DEF PushedGoOn
  <2>2. u # t /\ tpc[u] \in {"put", "start", "push", "offer"}
    BY <1>4, <2>1
  <2>3. PICK q \in 1 .. players : q = player[u]
    BY <1>1, <2>2 DEF BaseInv, Held, Holding
  <2>4. q # p
    BY <1>1, <1>2, <1>4, <2>2, <2>3, SoleHolder DEF Holding
  <2>5. Going(q)
    BY <2>2, <2>3 DEF LossInv, PushedGoOn
  <2>6. Going(q)'
    BY <1>7, <2>4, <2>5 DEF SameFuture
  <2>7. QED  BY <1>4, <2>3, <2>6
<1>12. MappedGoOn'
  <2>1. SUFFICES ASSUME NEW s \in Sessions, playerMap[s] # 0, ~Removing(s)'
                 PROVE  Going(playerMap[s])'
    BY <1>4 DEF MappedGoOn
  <2>2. PICK q \in 1 .. players : q = playerMap[s] /\ owner[q] = s
    BY <1>1, <2>1 DEF BaseInv, Mapped
  <2>3. CASE q = p
    <3>1. TailerOf[s] = t /\ Handled(t).s = s /\ Handled(t)' = Handled(t)
      BY <1>2, <1>3, <1>4, <2>2, <2>3 DEF Handled
    <3>2. CommandOf(Handled(t)) # COM_QUIT
      BY <1>4, <2>1, <3>1 DEF Removing, Handled
    <3>3. Going(p)'
      BY <1>6, <1>8, <3>2
    <3>4. QED  BY <1>4, <2>2, <2>3, <3>3
  <2>4. CASE q # p
    <3>1. ~Removing(s)
      <4>1. TailerOf[s] \in Tailers
        BY StreamAssumption
      <4>2. QED  BY <1>4, <2>1, <4>1 DEF Removing, Handled
    <3>2. Going(q)
      BY <2>1, <2>2, <3>1 DEF LossInv, MappedGoOn
    <3>3. Going(q)'
      BY <1>7, <2>4, <3>2 DEF SameFuture
    <3>4. QED  BY <1>4, <2>2, <3>3
  <2>5. QED  BY <2>3, <2>4
<1>13. AllKept'
  <2>1. SUFFICES ASSUME NEW u \in Tailers, NEW k \in 1 .. Done(u)' PROVE Kept(u, k)'
    BY DEF AllKept
  <2>2. k \in Nat /\ Done(u) \in Nat
    BY <1>1, DoneIsNat
  <2>3. CASE k \in 1 .. Done(u)
    <3>1. SUFFICES ASSUME Stream[u][k].c # COM_QUIT
                   PROVE  \E q \in 1 .. players :
                             owner[q] = Stream[u][k].s /\ Has(q, k)'
      BY <1>4 DEF Kept
    <3>2. PICK q \in 1 .. players : owner[q] = Stream[u][k].s /\ Has(q, k)
      BY <2>3, <3>1 DEF LossInv, AllKept, Kept
    <3>3. Has(q, k)'
      BY <1>6, <1>7, <2>2, <3>2 DEF SameFuture
    <3>4. QED  BY <3>2, <3>3
  <2>4. CASE k \notin 1 .. Done(u)
    <3>1. u = t
      BY <1>4, <2>1, <2>4 DEF Done
    <3>2. Done(t) = n - 1 /\ Done(t)' = n
      BY <1>4 DEF Done, Pushing
    <3>3. k = n
      BY <2>1, <2>2, <2>4, <3>1, <3>2
    <3>4. owner[p] = Stream[u][k].s
      BY <1>2, <3>1, <3>3 DEF Handled
    <3>5. QED  BY <1>4, <1>6, <3>3, <3>4 DEF Kept
  <2>5. QED  BY <2>3, <2>4
<1>14. QED  BY <1>1, <1>9, <1>10, <1>11, <1>12, <1>13 DEF LossInv

LEMMA LossNext == LossInv /\ [Next]_vars => LossInv'
<1> SUFFICES ASSUME LossInv, [Next]_vars PROVE LossInv'
  OBVIOUS
<1>1. BaseInv /\ BaseInv'
  BY BaseNext DEF LossInv
<1>2. ASSUME NEW p \in PlayerIds, PlayerNext(p) PROVE LossInv'
  <2>1. UNCHANGED <<players, owner, tailed, tpc, player, playerMap, mpc>>
    BY <1>2, ExecuteStep
    DEF PlayerNext, Execute, InitPrepared, Connect, ConnectFails, Poll, PlayerFrame,
        tailerVars, mapVars, mainVars
  <2>2. UNCHANGED idle \/ idle' = [idle EXCEPT ![p] = FALSE]
    BY Zenon, <1>2, ExecuteStep
    DEF PlayerNext, Execute, InitPrepared, Connect, ConnectFails, Poll
  <2>3. FlagsOK
    BY <1>1, TypeParts DEF BaseInv
  <2>4. NobodyIdle'
    BY Zenon, <2>1, <2>2, <2>3 DEF LossInv, NobodyIdle, FlagsOK
  <2>5. QED  BY <1>1, <1>2, <2>1, <2>4, PlayerNextFuture, LossFrame
<1>3. CASE UNCHANGED <<requestQueue, request, executed, players, owner, ppc, tpc,
                       tailed, player, playerMap, mpc, idle>>
  <2>1. \A p \in 1 .. players : SameFuture(p)
    BY <1>3, UntouchedFuture
  <2>2. NobodyIdle'
    BY Zenon, <1>3 DEF LossInv, NobodyIdle
  <2>3. QED  BY <1>1, <1>3, <2>1, <2>2, LossFrame
<1>4. CASE MainNext
  <2>1. mpc = "sleep" /\ \A s \in Sessions : playerMap[s] # 0 => ~idle[playerMap[s]]
    <3>1. \A s \in Sessions : playerMap[s] \in PlayerIds \union {0}
      BY <1>1 DEF BaseInv, TypeOK
    <3>2. mpc = "sleep" /\ \A p \in PlayerIds : ~idle[p]
      BY DEF LossInv, NobodyIdle
    <3>3. QED  BY Zenon, <3>1, <3>2
  <2>2. QED
    BY <1>4, <2>1 DEF MainNext, CloseIdleSession, DrainQueue, PushUrgentQuit, CloseDone,
       VisitEntry
<1>5. ASSUME NEW p \in PlayerIds, BecomesIdle(p) PROVE LossInv'
  BY <1>5 DEF BecomesIdle, LossInv, NobodyIdle
<1>6. CASE \/ PreparedConnectionsBreak \/ Finished \/ UNCHANGED vars
           \/ \E p \in PlayerIds : ConnectionBreaks(p)
  BY <1>3, <1>6
  DEF PreparedConnectionsBreak, Finished, ConnectionBreaks,
      vars, replayVars, playerVars, tailerVars, mapVars, mainVars
<1>7. QED
  BY <1>2, <1>4, <1>5, <1>6, GetPlayerKeepsAll, PushKeepsAll, OfferKeepsAll
  DEF Next, TailerNext

(* What a player has is what it has taken.                                 *)
LEMMA HasIsTaken ==
    ASSUME BaseInv, NEW p \in 1 .. players, NEW n \in Nat, Has(p, n)
    PROVE  n \in TakenSet(p)
<1> DEFINE e == executed[p]
           h == InHand(p)
           q == requestQueue[p]
           T == Taken(p)
<1>1. /\ T \in Seq(Nat) /\ Len(T) = Len(e) + Len(h) + Len(q)
      /\ \A i \in 1 .. Len(e) : T[i] = e[i]
      /\ ppc[p] = "busy" => T[Len(e) + 1] = request[p]
      /\ \A i \in 1 .. Len(q) : T[Len(e) + Len(h) + i] = q[i]
  BY TakenParts
<1>2. /\ Len(e) \in Nat /\ Len(q) \in Nat
      /\ Len(h) = IF ppc[p] = "busy" THEN 1 ELSE 0
  BY PlayerFacts DEF InHand
<1>3. \/ \E i \in 1 .. Len(e) : e[i] = n
      \/ ppc[p] = "busy" /\ request[p] = n
      \/ \E i \in 1 .. Len(q) : q[i] = n
  BY DEF Has
<1>4. TakenSet(p) = {T[i] : i \in DOMAIN T}
  BY DEF TakenSet
<1> HIDE DEF e, h, q, T
<1>5. SUFFICES \E i \in 1 .. Len(T) : T[i] = n
  <2>1. DOMAIN T = 1 .. Len(T)
    BY <1>1
  <2>2. QED  BY <1>4, <2>1
<1>6. CASE \E i \in 1 .. Len(e) : e[i] = n
  <2>1. PICK i \in 1 .. Len(e) : e[i] = n
    BY <1>6
  <2>2. i \in 1 .. Len(T) /\ T[i] = n
    BY <1>1, <1>2, <2>1
  <2>3. QED  BY <2>2
<1>7. CASE ppc[p] = "busy" /\ request[p] = n
  <2>1. Len(e) + 1 \in 1 .. Len(T)
    BY <1>1, <1>2, <1>7
  <2>2. QED  BY <1>1, <1>7, <2>1
<1>8. CASE \E i \in 1 .. Len(q) : q[i] = n
  <2>1. PICK i \in 1 .. Len(q) : q[i] = n
    BY <1>8
  <2>2. Len(e) + Len(h) + i \in 1 .. Len(T)
    BY <1>1, <1>2
  <2>3. QED  BY <1>1, <2>1, <2>2
<1>9. QED  BY <1>3, <1>6, <1>7, <1>8

LEMMA LossGivesNothingLost ==
    ASSUME LossInv
    PROVE  NothingLost
<1>1. BaseInv /\ DispatchOK
  BY TypeParts DEF LossInv, BaseInv
<1>2. SUFFICES ASSUME NEW t \in Tailers, NEW n \in 1 .. tailed[t],
                      n < tailed[t] \/ tpc[t] = "tail", Stream[t][n].c # COM_QUIT
               PROVE  \E p \in 1 .. players :
                          /\ owner[p] = Stream[t][n].s
                          /\ n \in TakenSet(p)
                          /\ ppc[p] = "stopped" =>
                                \E i \in DOMAIN executed[p] : executed[p][i] = n
  BY DEF NothingLost
<1>3. n \in 1 .. Done(t) /\ n \in Nat
  BY <1>1, <1>2 DEF DispatchOK, Done, Pushing
<1>4. PICK p \in 1 .. players : owner[p] = Stream[t][n].s /\ Has(p, n)
  BY <1>2, <1>3 DEF LossInv, AllKept, Kept
<1>5. n \in TakenSet(p)
  BY <1>1, <1>3, <1>4, HasIsTaken
<1>6. ASSUME ppc[p] = "stopped"
      PROVE  \E i \in DOMAIN executed[p] : executed[p][i] = n
  <2>1. requestQueue[p] = <<>>
    BY <1>6 DEF LossInv, NothingBehindQuit
  <2>2. \E i \in 1 .. Len(executed[p]) : executed[p][i] = n
    BY <1>4, <1>6, <2>1 DEF Has
  <2>3. executed[p] \in Seq(Nat)
    BY <1>1, PlayerFacts
  <2>4. QED  BY <2>2, <2>3
<1>7. QED  BY <1>4, <1>5, <1>6

(* As long as no session expires, every request a tailer is done with has  *)
(* been replayed, is being replayed or is in the queue of a player that    *)
(* will come to it, although a session's address is used again, lookups    *)
(* miss players that are in the map, and threads end.                      *)
THEOREM RequestsNotLost == Spec /\ ~IdleExpiry => []NothingLost
<1>1. QED  BY LossGivesNothingLost, LossInit, LossNext, PTL DEF Spec

-----------------------------------------------------------------------------
(* A player that goes on is in the map, or about to be put there, or was   *)
(* just taken out to be ended.                                             *)
Tracked(p) ==
    \/ playerMap[owner[p]] = p
    \/ \E t \in Tailers : tpc[t] = "put" /\ player[t] = p
    \/ mpc \in {"drain", "quit"} /\ idleSQLPlayer = p
AllTracked == \A p \in 1 .. players : Going(p) => Tracked(p)

(* What the map says of the session a tailer handles: without lookups that *)
(* miss, a tailer makes a player only for a session that has none.         *)
AgreesFor(t) ==
    LET q == playerMap[Handled(t).s]
    IN  /\ tpc[t] \in {"new", "put"} => q = 0
        /\ tpc[t] \in {"start", "push", "offer"} => q \in {0, player[t]}
        /\ tpc[t] = "remove" => q = 0 \/ ~Going(q)
MapAgrees == \A t \in Tailers : AgreesFor(t)

SoleInv == BaseInv /\ ~MapResizes /\ AllTracked /\ MapAgrees

LEMMA SoleInit == Init /\ ~MapResizes => SoleInv
<1> SUFFICES ASSUME Init, ~MapResizes PROVE SoleInv
  OBVIOUS
<1>1. BaseInv /\ players = 0
  BY BaseInit DEF Init
<1>2. MapAgrees
  BY DEF Init, MapAgrees, AgreesFor
<1>3. QED  BY <1>1, <1>2 DEF SoleInv, AllTracked

(* What the map says of the session of tailer t stays true.                *)
LEMMA AgreesStays ==
    ASSUME BaseInv, NEW t \in Tailers, AgreesFor(t),
           tpc'[t] = tpc[t], player'[t] = player[t], tailed'[t] = tailed[t],
           tpc[t] # "tail" =>
               playerMap'[Handled(t).s] \in {playerMap[Handled(t).s], 0},
           \A p \in 1 .. players :
               Going(p)' => Going(p) \/ (mpc \in {"drain", "quit"} /\ p = idleSQLPlayer)
    PROVE  AgreesFor(t)'
<1>1. Handled(t)' = Handled(t)
  BY DEF Handled
<1>2. ASSUME tpc[t] = "remove", playerMap'[Handled(t).s] # 0
      PROVE  ~Going(playerMap[Handled(t).s])'
  <2>1. Handled(t).s \in Sessions
    BY <1>2, TypeParts, HandledDocument DEF BaseInv
  <2>2. playerMap[Handled(t).s] # 0 /\ playerMap'[Handled(t).s] = playerMap[Handled(t).s]
    BY <1>2
  <2>3. PICK p \in 1 .. players : p = playerMap[Handled(t).s] /\ owner[p] = Handled(t).s
    BY <2>1, <2>2 DEF BaseInv, Mapped
  <2>4. ~Going(p)
    BY <1>2, <2>2, <2>3 DEF AgreesFor
  <2>5. ~(mpc \in {"drain", "quit"} /\ p = idleSQLPlayer)
    BY <2>2, <2>3 DEF BaseInv, Visiting
  <2>6. ~Going(p)'
    BY <2>4, <2>5
  <2>7. QED  BY <1>1, <2>2, <2>3, <2>6
<1>3. QED  BY <1>1, <1>2 DEF AgreesFor

(* The map and the places of the tailers stay, and nobody begins to go on. *)
LEMMA SoleFrame ==
    ASSUME SoleInv, BaseInv',
           UNCHANGED <<players, owner, tailed, tpc, player, playerMap, idleSQLPlayer>>,
           mpc \in {"drain", "quit"} => mpc' \in {"drain", "quit"},
           \A p \in 1 .. players :
               Going(p)' => Going(p) \/ (mpc \in {"drain", "quit"} /\ p = idleSQLPlayer)
    PROVE  SoleInv'
<1>1. BaseInv /\ ~MapResizes
  BY DEF SoleInv
<1>2. AllTracked'
  <2>1. SUFFICES ASSUME NEW p \in 1 .. players, Going(p)' PROVE Tracked(p)'
    BY DEF AllTracked
  <2>2. Tracked(p)
    BY <2>1 DEF SoleInv, AllTracked, Tracked
  <2>3. QED  BY <2>2 DEF Tracked
<1>3. MapAgrees'
  BY <1>1, AgreesStays DEF SoleInv, MapAgrees
<1>4. QED  BY <1>1, <1>2, <1>3 DEF SoleInv

(* The lookup finds the player of the session.                             *)
LEMMA TakeRequestKeepsSole ==
    ASSUME SoleInv, NEW t \in Tailers, NEW n \in 1 .. Len(Stream[t]),
           n > tailed[t], TakeRequest(t, n)
    PROVE  SoleInv'
<1>1. BaseInv /\ DispatchOK /\ BaseInv' /\ ~MapResizes
  BY TakeRequestKeeps, TypeParts DEF SoleInv, BaseInv
<1>2. /\ UNCHANGED <<players, owner, playerMap, requestQueue, request, executed, ppc,
                     mpc, idleSQLPlayer>>
      /\ tpc[t] = "tail"
  BY DEF TakeRequest, mapVars, playerVars, mainVars
<1>3. PICK p \in Lookup(t, Stream[t][n].s) :
          /\ player' = [player EXCEPT ![t] = p]
          /\ tpc' = [tpc EXCEPT ![t] =
                        IF p # 0 THEN "push"
                        ELSE IF CommandOf(Stream[t][n]) = COM_QUIT THEN "tail"
                        ELSE "new"]
  BY DEF TakeRequest
<1>4. /\ tailed'[t] = n /\ player'[t] = p
      /\ tpc'[t] \in {"push", "tail", "new"} /\ (tpc'[t] = "push" <=> p # 0)
      /\ \A u \in Tailers \ {t} : tpc'[u] = tpc[u] /\ tailed'[u] = tailed[u]
                                  /\ player'[u] = player[u]
  BY <1>1, <1>3 DEF DispatchOK, TakeRequest
<1>5. \A q \in 1 .. players : Going(q)' <=> Going(q)
  BY <1>2, UntouchedFuture DEF SameFuture
<1>6. p = playerMap[Stream[t][n].s]
  BY <1>1, <1>3 DEF Lookup
<1>7. AllTracked'
  <2>1. SUFFICES ASSUME NEW q \in 1 .. players, Going(q)' PROVE Tracked(q)'
    BY <1>2 DEF AllTracked
  <2>2. Tracked(q)
    BY <1>5, <2>1 DEF SoleInv, AllTracked
  <2>3. \A u \in Tailers : tpc[u] = "put" /\ player[u] = q
                           => tpc'[u] = "put" /\ player'[u] = q
    BY <1>2, <1>4
  <2>4. QED  BY <1>2, <2>2, <2>3 DEF Tracked
<1>8. MapAgrees'
  <2>1. AgreesFor(t)'
    <3>1. Handled(t)' = Stream[t][n]
      BY <1>4 DEF Handled
    <3>2. QED  BY <1>2, <1>4, <1>6, <3>1 DEF AgreesFor
  <2>2. ASSUME NEW u \in Tailers, u # t PROVE AgreesFor(u)'
    BY <1>1, <1>2, <1>4, <1>5, <2>2, AgreesStays DEF SoleInv, MapAgrees
  <2>3. QED  BY <2>1, <2>2 DEF MapAgrees
<1>9. QED  BY <1>1, <1>7, <1>8 DEF SoleInv

(* The session of another tailer is another session.                       *)
LEMMA OtherSession ==
    ASSUME BaseInv, NEW t \in Tailers, NEW u \in Tailers, u # t,
           tpc[t] # "tail", tpc[u] # "tail"
    PROVE  /\ Handled(t).s \in Sessions /\ Handled(u).s \in Sessions
           /\ Handled(u).s # Handled(t).s
BY TypeParts, HandledDocument DEF BaseInv

LEMMA PushKeepsSole ==
    ASSUME SoleInv, NEW t \in Tailers, PushNext(t), ~Offer(t)
    PROVE  SoleInv'
<1>1. BaseInv /\ BaseInv' /\ DispatchOK /\ DispatchOK' /\ ReplayOK /\ ~MapResizes
  BY NewPlayerKeeps, PutPlayerKeeps, StartPlayerKeeps, CheckQueueKeeps,
     RemovePlayerKeeps, TypeParts DEF PushNext, SoleInv, BaseInv
<1>2. /\ UNCHANGED <<tailed, requestQueue, request, executed, mpc>>
      /\ \A u \in Tailers \ {t} : tpc'[u] = tpc[u] /\ player'[u] = player[u]
  BY <1>1, PushSameDone
<1>3. /\ UNCHANGED idleSQLPlayer /\ tpc[t] # "tail"
      /\ Handled(t).s \in Sessions /\ Handled(t)' = Handled(t)
  <2>1. UNCHANGED idleSQLPlayer /\ tpc[t] # "tail"
    BY DEF PushNext, NewPlayer, PutPlayer, StartPlayer, CheckQueue, RemovePlayer, mainVars
  <2>2. QED  BY <1>1, <1>2, <2>1, HandledDocument DEF BaseInv, Handled
<1>4. ASSUME NEW p \in 1 .. players
      PROVE  (Going(p)' <=> Going(p)) /\ owner'[p] = owner[p] /\ owner[p] \in Sessions
  BY <1>1, PushFuture, PlayerFacts DEF SameFuture
<1>5. \A s \in Sessions : s # Handled(t).s => playerMap'[s] = playerMap[s]
  BY <1>1 DEF PushNext, NewPlayer, PutPlayer, MapPlayer, StartPlayer, CheckQueue,
     RemovePlayer, Unmap, mapVars, DispatchOK
<1>6. ASSUME NEW u \in Tailers, u # t PROVE AgreesFor(u)'
  <2>1. tpc[u] # "tail" => playerMap'[Handled(u).s] = playerMap[Handled(u).s]
    BY <1>1, <1>3, <1>5, <1>6, OtherSession
  <2>2. QED
    BY <1>1, <1>2, <1>4, <1>6, <2>1, AgreesStays DEF SoleInv, MapAgrees
<1>7. AgreesFor(t)
  BY DEF SoleInv, MapAgrees
<1>8. CASE NewPlayer(t)
  <2>1. /\ tpc[t] = "new" /\ tpc'[t] = "put" /\ player'[t] = players'
        /\ players' = players + 1 /\ players \in Nat /\ monitor = "free"
        /\ UNCHANGED playerMap
    BY <1>1, <1>8, OptionsAssumption DEF NewPlayer, DispatchOK, PlayerIds
  <2>2. AgreesFor(t)'
    BY <1>3, <1>7, <2>1 DEF AgreesFor
  <2>3. ASSUME NEW p \in 1 .. players', Going(p)' PROVE Tracked(p)'
    <3>1. CASE p \in 1 .. players
      <4>1. Tracked(p)
        BY <1>4, <2>3, <3>1 DEF SoleInv, AllTracked
      <4>2. ~(mpc \in {"drain", "quit"}) /\ \A u \in Tailers : tpc[u] # "put"
        BY <1>1, <2>1, StreamAssumption DEF BaseInv, Locked
      <4>3. QED  BY <1>4, <2>1, <3>1, <4>1, <4>2 DEF Tracked
    <3>2. CASE p \notin 1 .. players
      <4>1. p = player'[t]
        BY <2>1, <3>2
      <4>2. QED  BY <2>1, <4>1 DEF Tracked
    <3>3. QED  BY <3>1, <3>2
  <2>4. QED  BY <1>1, <1>6, <2>2, <2>3 DEF SoleInv, AllTracked, MapAgrees
<1>9. CASE PutPlayer(t)
  <2>1. /\ tpc[t] = "put" /\ tpc'[t] = "start" /\ UNCHANGED <<player, players, owner>>
        /\ playerMap'[Handled(t).s] = player[t] /\ playerMap[Handled(t).s] = 0
        /\ owner[player[t]] = Handled(t).s
    BY <1>1, <1>3, <1>7, <1>9 DEF PutPlayer, MapPlayer, DispatchOK, AgreesFor, BaseInv,
       Held, Holding
  <2>2. AgreesFor(t)'
    BY <1>3, <2>1 DEF AgreesFor
  <2>3. ASSUME NEW p \in 1 .. players', Going(p)' PROVE Tracked(p)'
    <3>1. p \in 1 .. players /\ Tracked(p)
      BY <1>4, <2>1, <2>3 DEF SoleInv, AllTracked
    <3>2. CASE playerMap[owner[p]] = p
      <4>1. p # 0
        BY <1>1, <3>1, PlayerFacts
      <4>2. playerMap'[owner[p]] = p
        BY <1>4, <1>5, <2>1, <3>1, <3>2, <4>1
      <4>3. QED  BY <2>1, <4>2 DEF Tracked
    <3>3. CASE p = player[t]
      BY <2>1, <3>3 DEF Tracked
    <3>4. CASE p # player[t] /\ playerMap[owner[p]] # p
      BY <1>2, <1>3, <2>1, <3>1, <3>4 DEF Tracked
    <3>5. QED  BY <3>2, <3>3, <3>4
  <2>4. QED  BY <1>1, <1>6, <2>2, <2>3 DEF SoleInv, AllTracked, MapAgrees
<1>10. CASE RemovePlayer(t)
  <2>1. /\ tpc[t] = "remove" /\ tpc'[t] = "tail" /\ UNCHANGED <<player, players, owner>>
    BY <1>1, <1>10 DEF RemovePlayer, DispatchOK
  <2>2. AgreesFor(t)'
    BY <2>1 DEF AgreesFor
  <2>3. ASSUME NEW p \in 1 .. players', Going(p)' PROVE Tracked(p)'
    <3>1. p \in 1 .. players /\ Tracked(p) /\ Going(p) /\ p # 0
      BY <1>1, <1>4, <2>1, <2>3, PlayerFacts DEF SoleInv, AllTracked
    <3>2. CASE playerMap[owner[p]] = p
      <4>1. owner[p] # Handled(t).s
        BY <1>7, <2>1, <3>1, <3>2 DEF AgreesFor
      <4>2. QED  BY <1>4, <1>5, <2>1, <3>1, <3>2, <4>1 DEF Tracked
    <3>3. CASE playerMap[owner[p]] # p
      BY <1>2, <1>3, <2>1, <3>1, <3>3 DEF Tracked
    <3>4. QED  BY <3>2, <3>3
  <2>4. QED  BY <1>1, <1>6, <2>2, <2>3 DEF SoleInv, AllTracked, MapAgrees
<1>11. CASE StartPlayer(t) \/ CheckQueue(t)
  <2>1. /\ tpc[t] \in {"start", "push"} /\ tpc'[t] \in {"push", "offer"}
        /\ UNCHANGED <<player, players, owner, playerMap>>
    BY <1>1, <1>11 DEF StartPlayer, CheckQueue, mapVars, DispatchOK
  <2>2. AgreesFor(t)'
    BY <1>3, <1>7, <2>1 DEF AgreesFor
  <2>3. ASSUME NEW p \in 1 .. players', Going(p)' PROVE Tracked(p)'
    <3>1. Tracked(p)
      BY <1>4, <2>1, <2>3 DEF SoleInv, AllTracked
    <3>2. QED  BY <1>2, <1>3, <2>1, <3>1 DEF Tracked
  <2>4. QED  BY <1>1, <1>6, <2>2, <2>3 DEF SoleInv, AllTracked, MapAgrees
<1>12. QED  BY <1>8, <1>9, <1>10, <1>11 DEF PushNext

(* The tailer pushes to the player of the map, or to one that the idle     *)
(* check has taken out of it.                                              *)
LEMMA OfferKeepsSole ==
    ASSUME SoleInv, NEW t \in Tailers, Offer(t)
    PROVE  SoleInv'
<1>1. BaseInv' /\ BaseInv /\ DispatchOK /\ ReplayOK /\ ~MapResizes
  BY OfferKeeps, TypeParts DEF SoleInv, BaseInv
<1>2. PICK p \in 1 .. players : p = player[t] /\ owner[p] = Handled(t).s
  BY <1>1 DEF BaseInv, Held, Holding, Offer
<1>3. /\ tailed[t] \in 1 .. Len(Stream[t]) /\ Len(Stream[t]) \in Nat
      /\ TailerOf[owner[p]] = t
  BY <1>1, <1>2, HandledDocument, StreamAssumption DEF BaseInv, Offer
<1> PICK n \in Nat : n = tailed[t]
  BY <1>3
<1>4. /\ requestQueue' = [requestQueue EXCEPT ![p] = Append(@, n)]
      /\ UNCHANGED <<request, executed, players, owner, ppc, tailed, player, playerMap,
                     mpc, idleSQLPlayer>>
      /\ tpc[t] = "offer"
      /\ tpc'[t] = IF CommandOf(Handled(t)) = COM_QUIT THEN "remove" ELSE "tail"
      /\ \A u \in Tailers \ {t} : tpc'[u] = tpc[u]
  BY <1>1, <1>2 DEF Offer, playerVars, mapVars, mainVars, DispatchOK
<1>5. Going(p)' <=> Going(p) /\ ~IsQuit(p, n)
  BY <1>1, <1>4, AppendFuture
<1>6. ASSUME NEW q \in 1 .. players PROVE Going(q)' => Going(q)
  <2>1. CASE q # p
    <3>1. q \in PlayerIds
      BY <1>1, PlayerFacts
    <3>2. requestQueue'[q] = requestQueue[q]
      BY <1>1, <1>4, <2>1, <3>1 DEF ReplayOK
    <3>3. QED  BY <1>4, <3>2, UntouchedFuture DEF SameFuture
  <2>2. QED  BY <1>5, <2>1
<1>7. IsQuit(p, n) <=> CommandOf(Handled(t)) = COM_QUIT
  BY <1>3 DEF IsQuit, Handled, CommandOf, COM_QUIT, COM_LOGIN, COM_INIT_DB
<1>8. AgreesFor(t)'
  <2>1. playerMap[Handled(t).s] \in {0, p}
    BY <1>2, <1>4 DEF SoleInv, MapAgrees, AgreesFor
  <2>2. tpc'[t] = "remove" => ~Going(p)'
    BY <1>4, <1>5, <1>7
  <2>3. QED  BY <1>4, <2>1, <2>2 DEF AgreesFor, Handled
<1>9. ASSUME NEW u \in Tailers, u # t PROVE AgreesFor(u)'
  BY <1>1, <1>4, <1>6, <1>9, AgreesStays DEF SoleInv, MapAgrees
<1>10. AllTracked'
  <2>1. SUFFICES ASSUME NEW q \in 1 .. players, Going(q)' PROVE Tracked(q)'
    BY <1>4 DEF AllTracked
  <2>2. Tracked(q)
    BY <1>6, <2>1 DEF SoleInv, AllTracked
  <2>3. QED  BY <1>4, <2>2 DEF Tracked
<1>11. QED  BY <1>1, <1>8, <1>9, <1>10 DEF SoleInv, MapAgrees

(* The idle check takes a player out of the map, and ends it before it     *)
(* lets go of the monitor.                                                 *)
LEMMA VisitKeepsSole ==
    ASSUME SoleInv, NEW s \in Sessions, VisitEntry(s)
    PROVE  SoleInv'
<1>1. BaseInv' /\ BaseInv /\ DispatchOK /\ ~MapResizes
  BY VisitEntryKeeps, TypeParts DEF SoleInv, BaseInv
<1>2. /\ UNCHANGED <<requestQueue, request, executed, players, owner, ppc, tailed, player,
                     tpc>>
      /\ mpc = "iterate"
  BY DEF VisitEntry, playerVars, tailerVars
<1>3. \/ UNCHANGED <<playerMap, idleSQLPlayer, mpc>>
      \/ /\ mpc' = "drain" /\ idleSQLPlayer' = playerMap[s] /\ playerMap'[s] = 0
         /\ \A z \in Sessions \ {s} : playerMap'[z] = playerMap[z]
  BY <1>1 DEF VisitEntry, Unmap, DispatchOK
<1>4. \A p \in 1 .. players : Going(p)' <=> Going(p)
  BY <1>2, UntouchedFuture DEF SameFuture
<1>5. ASSUME NEW t \in Tailers PROVE AgreesFor(t)'
  <2>1. tpc[t] # "tail" => Handled(t).s \in Sessions
    BY <1>1, HandledDocument DEF BaseInv
  <2>2. QED  BY <1>1, <1>2, <1>3, <1>4, <2>1, AgreesStays DEF SoleInv, MapAgrees
<1>6. AllTracked'
  <2>1. SUFFICES ASSUME NEW p \in 1 .. players, Going(p)' PROVE Tracked(p)'
    BY <1>2 DEF AllTracked
  <2>2. Tracked(p) /\ owner[p] \in Sessions
    BY <1>1, <1>4, <2>1, PlayerFacts DEF SoleInv, AllTracked
  <2>3. QED  BY <1>2, <1>3, <2>2 DEF Tracked
<1>7. QED  BY <1>1, <1>5, <1>6 DEF SoleInv, MapAgrees

LEMMA CloseKeepsSole ==
    ASSUME SoleInv, DrainQueue \/ PushUrgentQuit
    PROVE  SoleInv'
<1>1. BaseInv' /\ BaseInv /\ ReplayOK /\ ~MapResizes
  BY CloseStepKeeps, TypeParts DEF SoleInv, BaseInv
<1>2. /\ UNCHANGED <<request, executed, players, owner, ppc, tailed, player, tpc,
                     playerMap, idleSQLPlayer>>
      /\ mpc \in {"drain", "quit"}
  BY DEF DrainQueue, PushUrgentQuit, playerVars, tailerVars, mapVars
<1>3. PICK p \in 1 .. players : p = idleSQLPlayer
  BY <1>1, <1>2 DEF BaseInv, Visiting
<1>4. ASSUME NEW q \in 1 .. players, q # p PROVE Going(q)' <=> Going(q)
  <2>1. q \in PlayerIds
    BY <1>1, PlayerFacts
  <2>2. requestQueue'[q] = requestQueue[q]
    BY <1>1, <1>3, <1>4, <2>1 DEF DrainQueue, PushUrgentQuit, Dequeue, OfferQuit, ReplayOK
  <2>3. QED  BY <1>2, <2>2, UntouchedFuture DEF SameFuture
<1>5. CASE DrainQueue
  <2>1. mpc' \in {"drain", "quit"}
    BY <1>5 DEF DrainQueue
  <2>2. QED  BY <1>1, <1>2, <1>3, <1>4, <2>1, SoleFrame
<1>6. CASE PushUrgentQuit
  <2>1. ~Going(p)'
    <3>1. requestQueue' = [requestQueue EXCEPT ![p] = Append(@, 0)]
      BY <1>3, <1>6 DEF PushUrgentQuit, OfferQuit
    <3>2. IsQuit(p, 0)
      BY DEF IsQuit
    <3>3. QED  BY <1>1, <1>2, <3>1, <3>2, AppendFuture
  <2>2. AllTracked'
    <3>1. SUFFICES ASSUME NEW q \in 1 .. players, Going(q)' PROVE Tracked(q)'
      BY <1>2 DEF AllTracked
    <3>2. q # p /\ Tracked(q)
      BY <1>4, <2>1, <3>1 DEF SoleInv, AllTracked
    <3>3. QED  BY <1>2, <1>3, <3>2 DEF Tracked
  <2>3. ASSUME NEW t \in Tailers PROVE AgreesFor(t)'
    BY <1>1, <1>2, <1>4, <2>1, AgreesStays DEF SoleInv, MapAgrees
  <2>4. QED  BY <1>1, <2>2, <2>3 DEF SoleInv, MapAgrees
<1>7. QED  BY <1>5, <1>6

LEMMA SoleNext == SoleInv /\ [Next]_vars => SoleInv'
<1> SUFFICES ASSUME SoleInv, [Next]_vars PROVE SoleInv'
  OBVIOUS
<1>1. BaseInv /\ BaseInv'
  BY BaseNext DEF SoleInv
<1>2. ASSUME NEW p \in PlayerIds, PlayerNext(p) PROVE SoleInv'
  <2>1. UNCHANGED <<players, owner, tailed, tpc, player, playerMap, mpc, idleSQLPlayer>>
    BY <1>2, ExecuteStep
    DEF PlayerNext, Execute, InitPrepared, Connect, ConnectFails, Poll, PlayerFrame,
        tailerVars, mapVars, mainVars
  <2>2. \A q \in 1 .. players : Going(q)' <=> Going(q)
    BY <1>1, <1>2, PlayerNextFuture DEF SameFuture
  <2>3. QED  BY <1>1, <2>1, <2>2, SoleFrame
<1>3. CASE /\ UNCHANGED <<requestQueue, request, executed, players, owner, ppc, tpc,
                          tailed, player, playerMap, idleSQLPlayer>>
           /\ mpc \in {"drain", "quit"} => mpc' \in {"drain", "quit"}
  <2>1. \A p \in 1 .. players : Going(p)' <=> Going(p)
    BY <1>3, UntouchedFuture DEF SameFuture
  <2>2. QED  BY <1>1, <1>3, <2>1, SoleFrame
<1>4. CASE CloseIdleSession \/ CloseDone
  BY <1>3, <1>4 DEF CloseIdleSession, CloseDone, playerVars, tailerVars
<1>5. CASE \/ PreparedConnectionsBreak \/ Finished \/ UNCHANGED vars
           \/ \E p \in PlayerIds : ConnectionBreaks(p) \/ BecomesIdle(p)
  BY <1>3, <1>5
  DEF PreparedConnectionsBreak, Finished, ConnectionBreaks, BecomesIdle,
      vars, replayVars, playerVars, tailerVars, mapVars, mainVars
<1>6. ASSUME NEW t \in Tailers, GetPlayer(t) PROVE SoleInv'
  BY <1>1, <1>6, GetPlayerTakes, TakeRequestKeepsSole DEF BaseInv
<1>7. QED
  BY <1>2, <1>4, <1>5, <1>6, PushKeepsSole, OfferKeepsSole, VisitKeepsSole, CloseKeepsSole
  DEF Next, TailerNext, MainNext

LEMMA NotGoingIsEnding ==
    ASSUME BaseInv, NEW p \in 1 .. players, ~Going(p)
    PROVE  Ending(p)
<1>1. SUFFICES ASSUME ppc[p] # "stopped"
               PROVE  \E n \in TakenSet(p) : IsQuit(p, n)
  BY DEF Ending
<1>2. request[p] \in Nat /\ requestQueue[p] \in Seq(Nat)
  BY PlayerFacts
<1>3. PICK n \in Nat : Has(p, n) /\ IsQuit(p, n)
  <2>1. CASE ppc[p] = "busy" /\ IsQuit(p, request[p])
    BY <1>2, <2>1 DEF Has
  <2>2. CASE \E i \in 1 .. Len(requestQueue[p]) : IsQuit(p, requestQueue[p][i])
    <3>1. PICK i \in 1 .. Len(requestQueue[p]) : IsQuit(p, requestQueue[p][i])
      BY <2>2
    <3>2. requestQueue[p][i] \in Nat /\ Has(p, requestQueue[p][i])
      BY <1>2, <3>1 DEF Has
    <3>3. QED  BY <3>1, <3>2
  <2>3. QED  BY <1>1, <2>1, <2>2 DEF Going
<1>4. QED  BY <1>3, HasIsTaken

LEMMA SoleGivesOnePlayer ==
    ASSUME SoleInv
    PROVE  OnePlayerPerSession
<1>1. BaseInv
  BY DEF SoleInv
<1>2. SUFFICES ASSUME NEW p \in 1 .. players, NEW q \in 1 .. players, p # q,
                      owner[p] = owner[q], Going(p), Going(q)
               PROVE  FALSE
  BY <1>1, NotGoingIsEnding DEF OnePlayerPerSession
<1>3. Tracked(p) /\ Tracked(q) /\ p # 0 /\ q # 0
  BY <1>1, <1>2, PlayerFacts DEF SoleInv, AllTracked
<1>4. \A t \in Tailers : tpc[t] = "put" =>
          /\ monitor = t /\ t # "main" /\ owner[player[t]] = Handled(t).s
          /\ playerMap[Handled(t).s] = 0
  BY <1>1, StreamAssumption
  DEF BaseInv, Locked, Held, Holding, SoleInv, MapAgrees, AgreesFor
<1>5. mpc \in {"drain", "quit"} => monitor = "main" /\ playerMap[owner[idleSQLPlayer]] = 0
  BY <1>1 DEF BaseInv, Locked, Visiting
<1>6. QED  BY <1>2, <1>3, <1>4, <1>5 DEF Tracked

(* As long as a lookup never misses a session that is in the map, a        *)
(* session has at most one player that goes on, also while the idle check  *)
(* takes its player away from under the tailer and a new one is made.      *)
THEOREM OnePlayerGoesOn == Spec /\ ~MapResizes => []OnePlayerPerSession
<1>1. QED  BY SoleGivesOnePlayer, SoleInit, SoleNext, PTL DEF Spec
=============================================================================
