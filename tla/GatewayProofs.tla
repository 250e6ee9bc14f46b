--------------------------- MODULE GatewayProofs ---------------------------
(* Order entry for any number of sessions, messages, starts and any queue:    *)
(* the io thread and the messages it carries.                                 *)
EXTENDS Gateway, FiniteSetTheorems, SequenceTheorems, TLAPS

(* The owner and its thread, in step: the thread exists from its creation in  *)
(* start() to the join, and ends only when it has seen the flag cleared.      *)
ThreadInv ==
    /\ owner \in {"stopped", "starting", "started", "joining"}
    /\ owner = "stopped"  => io = "none"
    /\ owner = "starting" => io = "none" /\ running = TRUE
    /\ owner = "started"  => io \in {"loop", "serve", "push"} /\ running = TRUE
    /\ owner = "joining"  => io \in {"loop", "serve", "push", "ended"} /\ running = FALSE

LEMMA ThreadStep == ThreadInv /\ [GatewayNext]_gatewayVars => ThreadInv'
<1> SUFFICES ASSUME ThreadInv, [GatewayNext]_gatewayVars PROVE ThreadInv'
  OBVIOUS
<1>1. CASE Start \/ Stop
  BY <1>1 DEF ThreadInv, Start, Stop
<1>2. CASE OwnerStep
  BY <1>2 DEF ThreadInv, OwnerStep, SpawnThread, Join
<1>3. CASE IoStep
  BY <1>3 DEF ThreadInv, IoStep, TestRunning, Sleep, PushMessage
<1>4. ASSUME NEW s \in Session, MessageParsed(s) PROVE ThreadInv'
  BY <1>4 DEF ThreadInv, MessageParsed
<1>5. CASE EnginePop \/ EngineEnds \/ UNCHANGED gatewayVars
  BY <1>5 DEF ThreadInv, EnginePop, EngineEnds, threadVars, gatewayVars
<1> QED BY <1>1, <1>2, <1>3, <1>4, <1>5 DEF GatewayNext

(* When stop() has returned no io thread is left to push a message, and the   *)
(* thread of a start() does not end before the stop(), in any interleaving.   *)
THEOREM ThreadLives == Spec => []ThreadLivesFromStartToStop
<1>1. Init => ThreadInv
  BY DEF Init, ThreadInv
<1>2. ThreadInv => ThreadLivesFromStartToStop
  BY DEF ThreadInv, ThreadLivesFromStartToStop
<1> QED BY <1>1, <1>2, ThreadStep, PTL DEF Spec

(* The messages of a sequence are numbered session by session.                *)
Numbered(l, a) ==
    \A s \in Session :
        /\ Cardinality(Of(s, l)) = a[s]
        /\ \A i \in Of(s, l) : l[i].no = Rank(Of(s, l), i)

LEMMA RankBelow ==
    ASSUME NEW S, IsFiniteSet(S), NEW n \in Nat, \A i \in S : i \in Nat /\ i < n
    PROVE  /\ Cardinality(S \cup {n}) = Cardinality(S) + 1
           /\ Rank(S \cup {n}, n) = Cardinality(S) + 1
           /\ \A i \in S : Rank(S \cup {n}, i) = Rank(S, i)
<1>1. n \notin S
  OBVIOUS
<1>2. Cardinality(S \cup {n}) = Cardinality(S) + 1
  BY <1>1, FS_AddElement
<1>3. {j \in S \cup {n} : j <= n} = S \cup {n}
  OBVIOUS
<1>4. ASSUME NEW i \in S PROVE {j \in S \cup {n} : j <= i} = {j \in S : j <= i}
  <2>1. ~(n <= i)
    OBVIOUS
  <2> QED BY <2>1
<1>5. Rank(S \cup {n}, n) = Cardinality(S) + 1
  BY <1>2, <1>3 DEF Rank
<1> QED BY <1>2, <1>4, <1>5 DEF Rank

(* One more message of session s with the next number.                        *)
LEMMA NumberedAppend ==
    ASSUME NEW l \in Seq(Message), NEW a \in [Session -> Nat], NEW s \in Session,
           NEW m \in Message, Numbered(l, a), m.from = s, m.no = a[s] + 1
    PROVE  Numbered(Append(l, m), [a EXCEPT ![s] = @ + 1])
<1> DEFINE k == Append(l, m)
           n == Len(l) + 1
           b == [a EXCEPT ![s] = @ + 1]
<1>1. /\ Len(l) \in Nat /\ n \in Nat /\ Len(k) = n /\ k[n] = m
      /\ \A i \in 1 .. Len(l) : k[i] = l[i]
      /\ 1 .. n = (1 .. Len(l)) \cup {n} /\ n \notin 1 .. Len(l)
      /\ \A i \in 1 .. Len(l) : i \in Nat /\ i < n
  OBVIOUS
<1>2. IsFiniteSet(1 .. Len(l))
  BY <1>1, FS_Interval
<1> HIDE DEF k
<1>3. ASSUME NEW z \in Session
      PROVE  /\ IsFiniteSet(Of(z, l)) /\ Cardinality(Of(z, l)) = a[z]
             /\ \A i \in Of(z, l) : i \in 1 .. Len(l) /\ l[i].no = Rank(Of(z, l), i)
             /\ Of(z, k) = IF z = s THEN Of(z, l) \cup {n} ELSE Of(z, l)
  <2>1. Of(z, l) \subseteq 1 .. Len(l)
    BY DEF Of
  <2>2. IsFiniteSet(Of(z, l))
    BY <1>2, <2>1, FS_Subset
  <2>3. Of(z, k) = IF z = s THEN Of(z, l) \cup {n} ELSE Of(z, l)
    BY <1>1 DEF Of
  <2> QED BY <2>1, <2>2, <2>3 DEF Numbered
<1>4. ASSUME NEW z \in Session, z # s
      PROVE  /\ Cardinality(Of(z, k)) = b[z]
             /\ \A i \in Of(z, k) : k[i].no = Rank(Of(z, k), i)
  <2>1. Of(z, k) = Of(z, l) /\ b[z] = a[z]
    BY <1>3, <1>4
  <2> QED BY <1>1, <1>3, <2>1
<1>5. /\ Cardinality(Of(s, k)) = b[s]
      /\ \A i \in Of(s, k) : k[i].no = Rank(Of(s, k), i)
  <2> DEFINE S == Of(s, l)
  <2>1. Of(s, k) = S \cup {n} /\ b[s] = a[s] + 1 /\ IsFiniteSet(S) /\ Cardinality(S) = a[s]
        /\ \A i \in S : i \in Nat /\ i < n /\ k[i].no = Rank(S, i)
    BY <1>1, <1>3
  <2> HIDE DEF S
  <2>2. /\ Cardinality(S \cup {n}) = a[s] + 1 /\ Rank(S \cup {n}, n) = a[s] + 1
        /\ \A i \in S : Rank(S \cup {n}, i) = Rank(S, i)
    <3> HIDE DEF n
    <3> QED BY <1>1, <2>1, RankBelow
  <2>3. k[n].no = a[s] + 1
    BY <1>1
  <2> HIDE DEF n
  <2> QED BY <2>1, <2>2, <2>3
<1>6. Numbered(k, b)
  BY <1>4, <1>5 DEF Numbered
<1> QED BY <1>6 DEF k

(* Where a message goes in a step does not change the sequence of all.        *)
LEMMA HandOver ==
    ASSUME NEW r \in Seq(Message), NEW l \in Seq(Message), NEW h \in Seq(Message),
           NEW m \in Message
    PROVE  /\ r \o l \in Seq(Message) /\ <<m>> \in Seq(Message)
           /\ (r \o l) \o <<m>> = Append(r \o l, m) /\ (r \o l) \o <<>> = r \o l
           /\ (r \o Append(l, m)) \o <<>> = (r \o l) \o <<m>>
           /\ l # <<>> => (Append(r, l[1]) \o Tail(l)) \o h = (r \o l) \o h
<1>1. r \o l \in Seq(Message) /\ <<m>> \in Seq(Message)
  BY ConcatProperties
<1>2. (r \o l) \o <<m>> = Append(r \o l, m) /\ (r \o l) \o <<>> = r \o l
  BY <1>1, AppendIsConcat, ConcatEmptySeq
<1>3. (r \o Append(l, m)) \o <<>> = (r \o l) \o <<m>>
  <2>1. Append(l, m) = l \o <<m>> /\ Append(l, m) \in Seq(Message)
    BY AppendIsConcat, AppendProperties
  <2>2. r \o (l \o <<m>>) = (r \o l) \o <<m>>
    BY <1>1, ConcatAssociative
  <2>3. r \o Append(l, m) \in Seq(Message)
    BY <2>1, ConcatProperties
  <2> QED BY <2>1, <2>2, <2>3, ConcatEmptySeq
<1>4. ASSUME l # <<>> PROVE Append(r, l[1]) \o Tail(l) = r \o l
  <2>0. /\ Head(l) \in Message /\ Tail(l) \in Seq(Message) /\ Len(Tail(l)) = Len(l) - 1
        /\ \A i \in 1 .. Len(Tail(l)) : Tail(l)[i] = l[i + 1]
    BY <1>4, HeadTailProperties
  <2>h. Head(l) = l[1] /\ Len(l) \in Nat /\ Len(Tail(l)) \in Nat
    BY <1>4, <2>0
  <2>s. Len(l) = Len(Tail(l)) + 1
    BY <2>0, <2>h
  <2>1. PICK x \in Message, t \in Seq(Message) :
            x = l[1] /\ t = Tail(l) /\ Len(l) = Len(t) + 1 /\ Len(t) \in Nat
            /\ \A i \in 1 .. Len(t) : t[i] = l[i + 1]
    BY <2>0, <2>h, <2>s, Zenon
  <2>2. <<x>> \in Seq(Message) /\ Len(<<x>>) = 1 /\ <<x>>[1] = x
    OBVIOUS
  <2>3. /\ <<x>> \o t \in Seq(Message) /\ Len(<<x>> \o t) = 1 + Len(t)
        /\ \A i \in 1 .. 1 + Len(t) : (<<x>> \o t)[i] = IF i <= 1 THEN <<x>>[i] ELSE t[i - 1]
    BY <2>1, <2>2, ConcatProperties
  <2>4. \A i \in 1 .. Len(l) : l[i] = (<<x>> \o t)[i]
    <3> SUFFICES ASSUME NEW i \in 1 .. Len(l) PROVE l[i] = (<<x>> \o t)[i]
      OBVIOUS
    <3>1. CASE i = 1
      BY <2>1, <2>2, <2>3, <3>1
    <3>2. CASE i # 1
      <4>1. i - 1 \in 1 .. Len(t) /\ (i - 1) + 1 = i /\ ~(i <= 1) /\ i \in 1 .. 1 + Len(t)
        BY <2>1, <3>2
      <4> QED BY <2>1, <2>3, <4>1
    <3> QED BY <3>1, <3>2
  <2>5. l = <<x>> \o t
    BY <2>1, <2>3, <2>4, SeqEqual
  <2>6. Append(r, x) = r \o <<x>>
    BY AppendIsConcat
  <2>7. (r \o <<x>>) \o t = r \o (<<x>> \o t)
    BY <2>2, ConcatAssociative
  <2> QED BY <2>1, <2>5, <2>6, <2>7
<1> QED BY <1>1, <1>2, <1>3, <1>4

(* What is on its way is numbered, and the message in hand is a message.      *)
AllNumbered == Numbered(Handed, arrived)
OrderInv ==
    /\ received \in Seq(Message) /\ q \in Seq(Message) /\ msg \in Message
    /\ arrived \in [Session -> 0 .. MaxMessages]
    /\ AllNumbered

LEMMA HandedKept ==
    ASSUME OrderInv, received' \in Seq(Message), q' \in Seq(Message),
           msg' = msg, arrived' = arrived, Handed' = Handed
    PROVE  OrderInv'
<1>1. AllNumbered'
  <2>1. PICK l : l = Handed /\ l = Handed'
    OBVIOUS
  <2>2. Numbered(l, arrived')
    BY <2>1 DEF OrderInv, AllNumbered
  <2> QED BY <2>1, <2>2 DEF AllNumbered, Numbered, Of, Rank
<1> QED BY <1>1 DEF OrderInv

LEMMA OrderStep == ThreadInv /\ OrderInv /\ [GatewayNext]_gatewayVars => OrderInv'
<1> SUFFICES ASSUME ThreadInv, OrderInv, [GatewayNext]_gatewayVars PROVE OrderInv'
  OBVIOUS
<1>1. /\ received \in Seq(Message) /\ q \in Seq(Message) /\ msg \in Message
      /\ arrived \in [Session -> 0 .. MaxMessages]
  BY DEF OrderInv
<1>2. ASSUME UNCHANGED <<queueVars, msg, arrived, received>>,
             io = "push" <=> io' = "push"
      PROVE  OrderInv'
  <2>1. Handed' = Handed
    BY <1>2 DEF Handed, queueVars
  <2>2. received' = received /\ q' = q /\ msg' = msg /\ arrived' = arrived
    BY <1>2 DEF queueVars
  <2>3. received' \in Seq(Message) /\ q' \in Seq(Message)
    BY <1>1, <2>2
  <2> QED BY <2>1, <2>2, <2>3, HandedKept
<1>3. CASE Start \/ Stop
  BY <1>2, <1>3 DEF Start, Stop
<1>4. CASE OwnerStep
  BY <1>2, <1>4 DEF OwnerStep, SpawnThread, Join, ThreadInv
<1>5. CASE TestRunning \/ Sleep
  BY <1>2, <1>5 DEF TestRunning, Sleep
<1>6. CASE PushMessage
  <2>1. /\ io = "push" /\ io' = "loop" /\ q' = Append(q, msg)
        /\ UNCHANGED <<msg, arrived, received>>
    BY <1>6 DEF PushMessage, Queue!Put
  <2>2. Handed = (received \o q) \o <<msg>> /\ Handed' = (received \o Append(q, msg)) \o <<>>
    BY <2>1 DEF Handed
  <2>3. (received \o Append(q, msg)) \o <<>> = (received \o q) \o <<msg>>
    BY <1>1, HandOver
  <2>4. Handed' = Handed
    BY <2>2, <2>3, Zenon
  <2>5. q' \in Seq(Message)
    BY <1>1, <2>1
  <2> QED BY <1>1, <2>1, <2>4, <2>5, HandedKept
<1>7. ASSUME NEW s \in Session, MessageParsed(s) PROVE OrderInv'
  <2>1. /\ io # "push" /\ io' = "push" /\ arrived[s] < MaxMessages
        /\ arrived' = [arrived EXCEPT ![s] = @ + 1]
        /\ msg' = [from |-> s, no |-> arrived[s] + 1]
        /\ UNCHANGED <<q, received>>
    BY <1>7 DEF MessageParsed, queueVars
  <2>a. arrived[s] \in 0 .. MaxMessages /\ MaxMessages \in Nat
    BY <1>1, GatewayAssumption
  <2>b. arrived[s] + 1 \in 1 .. MaxMessages /\ arrived[s] + 1 \in 0 .. MaxMessages
    BY <2>1, <2>a
  <2>2. PICK m \in Message : m = msg' /\ m.from = s /\ m.no = arrived[s] + 1
    BY <2>1, <2>b DEF Message
  <2>3. Handed = (received \o q) \o <<>> /\ Handed' = (received \o q) \o <<m>>
    BY <2>1, <2>2 DEF Handed
  <2>l. /\ received \o q \in Seq(Message) /\ (received \o q) \o <<>> = received \o q
        /\ (received \o q) \o <<m>> = Append(received \o q, m)
    BY <1>1, HandOver
  <2>4. PICK l \in Seq(Message) : l = received \o q /\ Handed = l /\ Handed' = Append(l, m)
    BY <2>3, <2>l
  <2>5. PICK a \in [Session -> Nat] : a = arrived
    BY <1>1, GatewayAssumption
  <2>6. Numbered(l, a)
    BY <2>4, <2>5 DEF OrderInv, AllNumbered
  <2>7. Numbered(Append(l, m), [a EXCEPT ![s] = @ + 1])
    BY <2>2, <2>5, <2>6, NumberedAppend
  <2>c. PICK l2, a2 : l2 = Append(l, m) /\ a2 = [a EXCEPT ![s] = @ + 1]
    OBVIOUS
  <2>d. Handed' = l2 /\ arrived' = a2 /\ Numbered(l2, a2)
    BY <2>1, <2>4, <2>5, <2>7, <2>c
  <2>8. AllNumbered'
    BY <2>d DEF AllNumbered, Numbered, Of, Rank
  <2>9. arrived' \in [Session -> 0 .. MaxMessages]
    BY <1>1, <2>1, <2>b
  <2> QED BY <1>1, <2>1, <2>2, <2>8, <2>9 DEF OrderInv
<1>8. CASE EnginePop
  <2>1. /\ q # <<>> /\ q' = Tail(q) /\ received' = Append(received, q[1])
        /\ UNCHANGED <<io, msg, arrived>>
    BY <1>8 DEF EnginePop, Queue!Get, threadVars
  <2>h. <<msg>> \in Seq(Message) /\ <<>> \in Seq(Message)
    BY <1>1
  <2>2. PICK h \in Seq(Message) : h = IF io = "push" THEN <<msg>> ELSE <<>>
    BY <2>h, Zenon
  <2>3. Handed = (received \o q) \o h /\ Handed' = (Append(received, q[1]) \o Tail(q)) \o h
    BY <2>1, <2>2 DEF Handed
  <2>4. q[1] \in Message /\ Tail(q) \in Seq(Message)
    <3>1. Head(q) \in Message /\ Tail(q) \in Seq(Message)
      BY <1>1, <2>1, HeadTailProperties
    <3> QED BY <3>1, <1>1, <2>1
  <2>5. Append(received, q[1]) \in Seq(Message)
    BY <1>1, <2>4, AppendProperties
  <2>6. Handed' = Handed
    BY <1>1, <2>1, <2>2, <2>3, HandOver
  <2> QED BY <1>1, <2>1, <2>4, <2>5, <2>6, HandedKept
<1>9. CASE EngineEnds \/ UNCHANGED gatewayVars
  BY <1>2, <1>9 DEF EngineEnds, threadVars, queueVars, gatewayVars
<1> QED BY <1>3, <1>4, <1>5, <1>6, <1>7, <1>8, <1>9 DEF GatewayNext, IoStep

LEMMA OrderInit == Init => ThreadInv /\ OrderInv
<1> SUFFICES ASSUME Init PROVE ThreadInv /\ OrderInv
  OBVIOUS
<1>1. /\ q = <<>> /\ received = <<>> /\ io = "none" /\ msg \in Message
      /\ arrived = [s \in Session |-> 0]
  BY DEF Init, Queue!Init
<1>2. Handed = <<>>
  BY <1>1 DEF Handed
<1>3. \A s : Of(s, <<>>) = {}
  BY DEF Of
<1>4. Numbered(<<>>, arrived)
  BY <1>1, <1>3, FS_EmptySet DEF Numbered
<1>5. ThreadInv
  BY DEF Init, ThreadInv
<1> QED BY <1>1, <1>2, <1>4, <1>5, GatewayAssumption DEF OrderInv, AllNumbered

(* Nothing a session sent is lost, doubled or overtaken on its way through    *)
(* the io thread and the queue to the engine, for any number of sessions and  *)
(* messages and any bound of the queue, across stop() and start().            *)
THEOREM InOrder == Spec => []MessagesInOrder
<1>1. OrderInv => MessagesInOrder
  BY DEF OrderInv, AllNumbered, Numbered, MessagesInOrder
<1> QED BY <1>1, OrderInit, ThreadStep, OrderStep, PTL DEF Spec
=============================================================================
