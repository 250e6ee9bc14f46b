-------------------------- MODULE EngineMainProofs --------------------------
(* The engine process for every pool size, price and quantity: what its       *)
(* orders, its memory and the quantities it prints have to do with each other.*)
EXTENDS EngineMain, MatchingEngineProofs

(* The pool is only ever popped and reset: the free slots are the last ones,  *)
(* in address order, threaded in that order.                                  *)
FreeFrom(h) ==
    /\ freelist_head = IF h = PoolCapacity + 1 THEN Null ELSE h
    /\ word = [i \in Node |-> IF i < h THEN Object ELSE IF i = PoolCapacity THEN Null ELSE i + 1]
    /\ allocated = h - 1
PoolInv == \E h \in 1 .. PoolCapacity + 1 : FreeFrom(h)

LEMMA PoolFacts ==
    ASSUME NEW h \in 1 .. PoolCapacity + 1, FreeFrom(h)
    PROVE  /\ Pool!Live = {i \in Node : i < h}
           /\ Pool!Exhausted <=> h = PoolCapacity + 1
           /\ ~Pool!Exhausted => freelist_head = h /\ h \in Node
           /\ Pool!PoolTypeOK
<1>1. h \in Nat /\ h >= 1 /\ h <= PoolCapacity + 1 /\ PoolCapacity \in Nat
      /\ Node = 1 .. PoolCapacity /\ Null \notin Node /\ Object \notin Node \cup {Null}
      /\ Pool!Slot = Node
  BY SlotsAreNodes DEF Pool!Slot
<1>2. \A i \in Node : (i + 1 # Object /\ i + 1 # Null) \/ i = PoolCapacity
  <2>1. \A i \in Node : i # PoolCapacity => i + 1 \in Node
    BY <1>1
  <2> QED BY <1>1, <2>1
<1>3. \A i \in Node : word[i] = Object <=> i < h
  BY <1>1, <1>2 DEF FreeFrom
<1>4. Pool!Live = {i \in Node : i < h}
  BY <1>1, <1>3 DEF Pool!Live
<1>5. h # PoolCapacity + 1 => h \in Node
  BY <1>1
<1>6. (Pool!Exhausted <=> h = PoolCapacity + 1) /\ (~Pool!Exhausted => freelist_head = h /\ h \in Node)
  BY <1>1, <1>5 DEF FreeFrom, Pool!Exhausted
<1>7. freelist_head \in Node \cup {Null}
  BY <1>1, <1>5 DEF FreeFrom
<1>8. word \in [Node -> Node \cup {Null, Object}]
  <2>1. \A i \in Node : i # PoolCapacity => i + 1 \in Node
    BY <1>1
  <2> QED BY <2>1 DEF FreeFrom
<1>9. allocated \in 0 .. PoolCapacity
  BY <1>1 DEF FreeFrom
<1> QED BY <1>1, <1>4, <1>6, <1>7, <1>8, <1>9 DEF Pool!PoolTypeOK

LEMMA PoolAllocates ==
    ASSUME NEW h \in 1 .. PoolCapacity + 1, FreeFrom(h), Pool!Allocate
    PROVE  h + 1 \in 1 .. PoolCapacity + 1 /\ FreeFrom(h + 1)'
<1>1. h \in Nat /\ h >= 1 /\ h <= PoolCapacity + 1 /\ PoolCapacity \in Nat
      /\ Node = 1 .. PoolCapacity
  BY SlotsAreNodes
<1>2. h # PoolCapacity + 1 /\ freelist_head = h /\ h \in Node
  BY PoolFacts DEF Pool!Allocate
<1>3. /\ freelist_head' = word[h] /\ word' = [word EXCEPT ![h] = Object]
      /\ allocated' = allocated + 1
  BY <1>2 DEF Pool!Allocate
<1>4. freelist_head' = IF h + 1 = PoolCapacity + 1 THEN Null ELSE h + 1
  BY <1>1, <1>2, <1>3 DEF FreeFrom
<1>5. word' = [i \in Node |-> IF i < h + 1 THEN Object ELSE IF i = PoolCapacity THEN Null ELSE i + 1]
  <2>1. \A i \in Node : i < h + 1 <=> i < h \/ i = h
    BY <1>1
  <2> QED BY <1>2, <1>3, <2>1 DEF FreeFrom
<1>6. allocated' = (h + 1) - 1
  BY <1>1, <1>3 DEF FreeFrom
<1>7. h + 1 \in 1 .. PoolCapacity + 1
  BY <1>1, <1>2
<1> QED BY <1>4, <1>5, <1>6, <1>7 DEF FreeFrom

LEMMA PoolResets ==
    /\ Pool!PoolInit => FreeFrom(1)
    /\ Pool!PoolReset => FreeFrom(1)'
    /\ 1 \in 1 .. PoolCapacity + 1
<1>1. PoolCapacity \in Nat /\ Node = 1 .. PoolCapacity /\ Pool!Slot = Node
      /\ \A i \in Node : ~(i < 1)
  BY SlotsAreNodes DEF Pool!Slot
<1>2. (PoolCapacity = 0 <=> 1 = PoolCapacity + 1) /\ 1 - 1 = 0
  BY <1>1
<1> QED BY <1>1, <1>2 DEF FreeFrom, Pool!PoolInit, Pool!PoolReset

(* The invariant: types, the pool, and sequences that the lists stand for,     *)
(* with the volumes of their levels, all of whose nodes are in use, as is the  *)
(* order being processed.                                                      *)
InUse(Q) ==
    /\ \A n \in Node : Queued(Q, n) => n \in Pool!Live
    /\ pc # "idle" => incoming \in Pool!Live
MainInv ==
    /\ TypeOK /\ PoolInv
    /\ \E Q \in Queues : EngineInv(Q) /\ InUse(Q) /\ Volumes(Q)

(* The slot the pool hands out is in no list: what the engine asks of its     *)
(* caller, a node that is not in the book, holds at every BUY and SELL.       *)
LEMMA FreshNode ==
    ASSUME PoolInv, NEW Q, InUse(Q), ~Pool!Exhausted
    PROVE  freelist_head \in Node /\ ~Queued(Q, freelist_head)
<1>1. PICK h \in 1 .. PoolCapacity + 1 : FreeFrom(h)
  BY DEF PoolInv
<1>2. freelist_head = h /\ h \in Node /\ Pool!Live = {i \in Node : i < h} /\ h \in Nat
  BY <1>1, PoolFacts
<1> QED BY <1>2 DEF InUse

LEMMA AllocateInv ==
    ASSUME PoolInv, Pool!Allocate
    PROVE  /\ PoolInv' /\ Pool!Live' = Pool!Live \cup {freelist_head}
           /\ ~Pool!Exhausted
<1>1. PICK h \in 1 .. PoolCapacity + 1 : FreeFrom(h)
  BY DEF PoolInv
<1>2. h + 1 \in 1 .. PoolCapacity + 1 /\ FreeFrom(h + 1)'
  BY <1>1, PoolAllocates
<1>3. ~Pool!Exhausted /\ word' = [word EXCEPT ![freelist_head] = Object]
  BY DEF Pool!Allocate
<1>4. freelist_head \in Node /\ word \in [Node -> Node \cup {Null, Object}]
      /\ Pool!Slot = Node
  BY <1>1, <1>3, PoolFacts, SlotsAreNodes DEF Pool!PoolTypeOK, Pool!Slot
<1>5. Pool!Live' = Pool!Live \cup {freelist_head}
  BY <1>3, <1>4 DEF Pool!Live
<1> QED BY <1>2, <1>3, <1>5 DEF PoolInv

LEMMA TicksArePrices ==
    ASSUME NEW m \in PriceInput, m > 0
    PROVE  ToTicks(m) \in Price
BY PricesRepresentable

LEMMA AcceptInv ==
    ASSUME TypeOK, PoolInv, NEW Q, EngineInv(Q), InUse(Q), Volumes(Q), NEW s \in Side,
           NEW m \in PriceInput, NEW q \in QtyInput, Accept(s, m, q)
    PROVE  TypeOK' /\ PoolInv' /\ EngineInv(Q)' /\ InUse(Q)' /\ Volumes(Q)'
<1>1. /\ m > 0 /\ q > 0 /\ Submit(freelist_head, s, ToTicks(m), q) /\ Pool!Allocate
      /\ incoming' = freelist_head
  BY DEF Accept, Submit
<1>2. ToTicks(m) \in Price /\ q \in Quantity
  BY <1>1, TicksArePrices, QtyFits
<1>3. PoolInv' /\ Pool!Live' = Pool!Live \cup {freelist_head} /\ freelist_head \in Node
  BY <1>1, AllocateInv, FreshNode
<1>4. PICK n \in Node, p \in Price : n = freelist_head /\ p = ToTicks(m)
  BY <1>2, <1>3
<1>5. Submit(n, s, p, q)
  BY <1>1, <1>4
<1>6. TypeOK' /\ EngineInv(Q)'
  BY <1>2, <1>5, SubmitType, SubmitInv
<1>8. Volumes(Q)'
  BY <1>5, <1>6, SubmitVolumes
<1>7. InUse(Q)'
  BY <1>1, <1>3 DEF InUse, Queued
<1> QED BY <1>3, <1>6, <1>7, <1>8

(* A step of the engine on its own keeps the pool.                            *)
LEMMA PoolKept ==
    ASSUME UNCHANGED poolVars
    PROVE  Pool!Live' = Pool!Live /\ (PoolInv => PoolInv')
           /\ (Pool!Exhausted' <=> Pool!Exhausted)
BY DEF poolVars, Pool!Live, PoolInv, FreeFrom, Pool!Exhausted

(* Inside the call nothing but a filled maker leaves the book.                *)
LEMMA ProcessInv ==
    ASSUME TypeOK, PoolInv, NEW Q, EngineInv(Q), InUse(Q), Volumes(Q), Process
    PROVE  TypeOK' /\ PoolInv' /\ \E R : EngineInv(R)' /\ InUse(R)' /\ Volumes(R)'
<1>1. UNCHANGED poolVars
  BY DEF Process
<1>2. TypeOK'
  BY TakeBestLevelType, StopMatchingType, MatchOneType, LeaveLevelType DEF Process
<1>3. PoolInv' /\ Pool!Live' = Pool!Live
  BY <1>1, PoolKept
<1>4. pc # "idle" /\ pc' # "idle" /\ incoming' = incoming
  BY DEF Process, TakeBestLevel, StopMatching, MatchOne, LeaveLevel
<1>5. ASSUME NEW R, \A n \in Node : Queued(R, n) => Queued(Q, n)
      PROVE  InUse(R)'
  BY <1>3, <1>4, <1>5 DEF InUse, Queued
<1>6. InUse(Q)'
  BY <1>5
<1>7. CASE TakeBestLevel \/ StopMatching
  <2>1. EngineInv(Q)'
    BY <1>7, TakeBestInv, StopInv
  <2>2. UNCHANGED bookVars
    BY <1>7 DEF TakeBestLevel, StopMatching
  <2>3. Volumes(Q)'
    BY <1>2, <2>2, VolumesKept DEF EngineInv, bookVars
  <2> QED BY <1>2, <1>3, <1>6, <2>1, <2>3
<1>8. CASE MatchOne
  <2>1. PICK s \in Side, p \in Price, r \in Node :
            /\ s = maker_side /\ p = best /\ r = resting_order
            /\ Len(Q[s][p]) \in Nat \ {0} /\ r = Q[s][p][1]
    BY <1>8, CursorOrder
  <2>2. 1 \in 1 .. Len(Q[s][p]) /\ Linked(Q)
    BY <2>1 DEF EngineInv
  <2>3. \A n \in Node : Queued(Removed(Q, s, p, 1), n) <=> Queued(Q, n) /\ n # r
    BY <2>1, <2>2, RemovedQueued
  <2>4. CASE qty'[r] = 0
    <3>1. EngineInv(Removed(Q, s, p, 1))' /\ Volumes(Removed(Q, s, p, 1))'
      BY <1>2, <1>8, <2>1, <2>4, MatchInv, MatchVolumes
    <3>2. InUse(Removed(Q, s, p, 1))'
      BY <1>5, <2>3
    <3> QED BY <1>2, <1>3, <3>1, <3>2
  <2>5. CASE qty'[r] # 0
    <3>1. EngineInv(Q)' /\ Volumes(Q)'
      BY <1>2, <1>8, <2>1, <2>5, MatchInv, MatchVolumes
    <3> QED BY <1>2, <1>3, <1>6, <3>1
  <2> QED BY <2>4, <2>5
<1>9. CASE LeaveLevel
  <2>1. EngineInv(Q)' /\ Volumes(Q)'
    BY <1>2, <1>9, LeaveInv, LeaveVolumes
  <2> QED BY <1>2, <1>3, <1>6, <2>1
<1> QED BY <1>7, <1>8, <1>9 DEF Process

(* At its end what is left of the order joins the book.                       *)
LEMMA AnswerInv ==
    ASSUME TypeOK, PoolInv, NEW Q, EngineInv(Q), InUse(Q), Volumes(Q), Answer
    PROVE  TypeOK' /\ PoolInv' /\ \E R : EngineInv(R)' /\ InUse(R)' /\ Volumes(R)'
<1>1. RestAndReturn /\ UNCHANGED poolVars /\ pc = "rest" /\ pc' = "idle"
  BY DEF Answer, RestAndReturn
<1>2. TypeOK' /\ PoolInv' /\ Pool!Live' = Pool!Live
  BY <1>1, RestAndReturnType, PoolKept
<1>3. PICK n \in Node : n = incoming /\ n \in Pool!Live
  BY <1>1, SidesType DEF InUse
<1>4. PICK s \in Side, p \in Price : s = order[n].side /\ p = order[n].price
  BY BookTypes
<1>5. CASE qty[n] > 0
  <2>1. ~Queued(Q, n) /\ InsertOrder(n) /\ BookTypeOK /\ Linked(Q)
    BY <1>1, <1>3, <1>5 DEF EngineInv, TakerOutside, RestAndReturn, TypeOK
  <2>2. \A m \in Node : Queued(Pushed(Q, s, p, n), m) <=> Queued(Q, m) \/ m = n
    BY <1>4, <2>1, InsertLinked
  <2>3. EngineInv(Pushed(Q, s, p, n))' /\ Volumes(Pushed(Q, s, p, n))'
    BY <1>1, <1>2, <1>3, <1>4, <1>5, RestInv, RestVolumes
  <2>4. InUse(Pushed(Q, s, p, n))'
    BY <1>1, <1>2, <1>3, <2>2 DEF InUse, Queued
  <2> QED BY <1>2, <2>3, <2>4
<1>6. CASE ~(qty[n] > 0)
  <2>1. EngineInv(Q)' /\ Volumes(Q)'
    BY <1>1, <1>2, <1>3, <1>4, <1>6, RestInv, RestVolumes
  <2>2. InUse(Q)'
    BY <1>1, <1>2 DEF InUse, Queued
  <2> QED BY <1>2, <2>1, <2>2
<1> QED BY <1>5, <1>6

(* An empty book has no volume.                                               *)
LEMMA NoQueuesVolumes == TypeOK /\ BookInit => Volumes(NoQueues)
<1> SUFFICES ASSUME TypeOK, BookInit, NEW s \in Side, NEW p \in Price
             PROVE  level[s][p].total_volume = Sum(qty, Items(NoQueues[s][p])) % QtyMod
  BY DEF Volumes
<1>1. Items(NoQueues[s][p]) = {}
  BY DEF NoQueues, Items
<1>2. Sum(qty, {}) = 0
  BY QtyNat, NodeAssumption, SumFacts
<1>3. level[s][p].total_volume = 0
  BY DEF BookInit, NewLevel
<1> QED BY <1>1, <1>2, <1>3, QtyModAssumption

(* CLEAR: an empty book, all slots free, ids from the start.                  *)
LEMMA ClearInv ==
    ASSUME TypeOK, Clear
    PROVE  TypeOK' /\ PoolInv' /\ EngineInv(NoQueues)' /\ InUse(NoQueues)' /\ Volumes(NoQueues)'
<1>1. BookInit' /\ pc' = "idle" /\ submitted' = 0 /\ Pool!PoolReset
      /\ UNCHANGED <<pc, incoming, best, resting_order, trades>> /\ pc = "idle"
  BY DEF Clear, BookInit
<1>2. EngineInv(NoQueues)'
  <2>1. (BookInit /\ pc = "idle" => EngineInv(NoQueues))'
    BY EmptyInv, PTL
  <2> QED BY <1>1, <2>1
<1>3. TypeOK'
  <2>1. BookTypeOK'
    BY <1>1, PriceAssumption, QtyModAssumption, NewLevelType
       DEF BookInit, BookTypeOK, Side, Quantity, OrderId
  <2> QED BY <1>1, <2>1, MaxOrdersAssumption DEF TypeOK
<1>4. PoolInv'
  BY <1>1, PoolResets DEF PoolInv
<1>5. InUse(NoQueues)'
  BY <1>1 DEF InUse, NoQueues, Queued
<1>6. Volumes(NoQueues)'
  <2>1. (TypeOK /\ BookInit => Volumes(NoQueues))'
    BY NoQueuesVolumes, PTL
  <2> QED BY <1>1, <1>3, <2>1
<1> QED BY <1>2, <1>3, <1>4, <1>5, <1>6

LEMMA MainInitInv == MainInit => MainInv
<1> SUFFICES ASSUME MainInit PROVE MainInv
  OBVIOUS
<1>1. Init /\ Pool!PoolInit /\ pc = "idle"
  BY DEF MainInit, Init
<1>2. EngineInv(NoQueues) /\ TypeOK /\ PoolInv
  BY <1>1, InitInv, InitType, PoolResets DEF PoolInv
<1>3. InUse(NoQueues) /\ NoQueues \in Queues
  BY <1>1 DEF InUse, NoQueues, Queued, Queues
<1>4. Volumes(NoQueues)
  BY <1>1, InitVolumes
<1> QED BY <1>2, <1>3, <1>4 DEF MainInv

(* A command that is refused, or none.                                        *)
LEMMA RefuseInv ==
    ASSUME TypeOK, PoolInv, NEW Q, EngineInv(Q), InUse(Q), Volumes(Q),
           UNCHANGED <<vars, poolVars>>
    PROVE  TypeOK' /\ PoolInv' /\ EngineInv(Q)' /\ InUse(Q)' /\ Volumes(Q)'
<1>1. TypeOK'
  BY DEF TypeOK, BookTypeOK, vars, bookVars, engineVars
<1>2. EngineInv(Q)'
  BY StutterInv
<1>3. InUse(Q)' /\ PoolInv'
  BY PoolKept DEF InUse, Queued, vars, engineVars
<1>4. Volumes(Q)'
  BY <1>1, VolumesKept DEF EngineInv, vars, bookVars
<1> QED BY <1>1, <1>2, <1>3, <1>4

LEMMA MainStep == MainInv /\ [MainNext]_mainVars => MainInv'
<1> SUFFICES ASSUME MainInv, [MainNext]_mainVars PROVE MainInv'
  OBVIOUS
<1>1. TypeOK /\ PoolInv
  BY DEF MainInv
<1>2. PICK Q \in Queues : EngineInv(Q) /\ InUse(Q) /\ Volumes(Q)
  BY DEF MainInv
<1>3. ASSUME TypeOK', PoolInv', \E R : EngineInv(R)' /\ InUse(R)' /\ Volumes(R)'
      PROVE  MainInv'
  <2>1. PICK R : EngineInv(R)' /\ InUse(R)' /\ Volumes(R)'
    BY <1>3
  <2>2. R \in Queues
    BY <2>1 DEF EngineInv, Linked, Queues
  <2> QED BY <1>3, <2>1, <2>2 DEF MainInv
<1>4. CASE UNCHANGED <<vars, poolVars>>
  BY <1>1, <1>2, <1>3, <1>4, RefuseInv
<1>5. ASSUME NEW s \in Side, NEW m \in PriceInput, NEW q \in QtyInput, Accept(s, m, q)
      PROVE  MainInv'
  BY <1>1, <1>2, <1>3, <1>5, AcceptInv
<1>6. CASE Process
  BY <1>1, <1>2, <1>3, <1>6, ProcessInv
<1>7. CASE Answer
  BY <1>1, <1>2, <1>3, <1>7, AnswerInv
<1>8. CASE Clear
  BY <1>1, <1>3, <1>8, ClearInv
<1>9. CASE MainNext
  BY <1>4, <1>5, <1>6, <1>7, <1>8, <1>9
     DEF MainNext, RefuseLine, RefuseNonPositive, RefuseExhausted
<1> QED BY <1>4, <1>9 DEF mainVars

(* Whatever commands come, every order on the book, and the one in the engine,*)
(* occupies a slot the pool has given out and not taken back, and ids name    *)
(* one order each: main.cpp never hands out memory that an order rests in.    *)
THEOREM OrdersOwn == MainSpec => []OrdersOwnSlotAndId
<1>1. MainInv => OrdersOwnSlotAndId
  <2> SUFFICES ASSUME MainInv PROVE OrdersOwnSlotAndId
    OBVIOUS
  <2>1. PICK Q \in Queues : EngineInv(Q) /\ InUse(Q)
    BY DEF MainInv
  <2>2. (\A n \in Node : n \in OnBook <=> Queued(Q, n)) /\ OnBook \subseteq Node
    BY <2>1, RestingIsQueue DEF EngineInv
  <2>3. pc # "idle" => incoming \in Node
    BY DEF MainInv, TypeOK
  <2>4. NodesAreAllocated
    BY <2>1, <2>2, <2>3 DEF InUse, EngineInv, TakerOutside, NodesAreAllocated
  <2>5. IdsUnique
    BY <2>1, <2>2 DEF EngineInv, Arrived, IdsUnique
  <2> QED BY <2>4, <2>5 DEF OrdersOwnSlotAndId
<1> QED BY <1>1, MainInitInv, MainStep, PTL DEF MainSpec

(* The lists stay sound in the composed program too, across CLEAR, with the   *)
(* nodes the pool gives it in place of any the book does not hold.            *)
THEOREM ListsSoundInMain == MainSpec => []ListsSound
<1>1. MainInv => ListsSound
  BY LinkedIsSound DEF MainInv, EngineInv
<1> QED BY <1>1, MainInitInv, MainStep, PTL DEF MainSpec

(* So do the volumes the levels cache, which print_book prints.               *)
THEOREM VolumesSumInMain == MainSpec => []VolumeIsSum
<1>1. MainInv => VolumeIsSum
  BY VolumesAreSums DEF MainInv, EngineInv
<1> QED BY <1>1, MainInitInv, MainStep, PTL DEF MainSpec

(* What the TRADE lines of the call in progress add up to, as a sum of naturals.*)
Sold   == [k \in DOMAIN trades |-> trades[k].qty]
Traded == Sum(Sold, 1 .. Len(Sold))

SumGrows(q, U) == \A T \in SUBSET U : \A x \in U \ T : Sum(q, T \cup {x}) = Sum(q, T) + q[x]

LEMMA SumObeys ==
    ASSUME NEW U, IsFiniteSet(U), NEW q \in [U -> Nat]
    PROVE  SumGrows(q, U)
<1> SUFFICES ASSUME NEW T \in SUBSET U, NEW x \in U \ T
             PROVE  Sum(q, T \cup {x}) = Sum(q, T) + q[x]
  BY DEF SumGrows
<1> QED BY SumFacts

SumsWith(a, l, T, x) ==
    /\ Sum(a, T) = Sum(l, T) /\ Sum(l, T) \in Nat
    /\ Sum(a, T \cup {x}) = Sum(a, T) + a[x]

LEMMA SumMore ==
    ASSUME NEW T, NEW x, x \notin T, IsFiniteSet(T), IsFiniteSet(T \cup {x}),
           NEW a \in [T \cup {x} -> Nat], NEW l \in [T -> Nat], Units(a, T) = Units(l, T)
    PROVE  SumsWith(a, l, T, x)
<1> DEFINE U == T \cup {x}
<1>1. IsFiniteSet(U) /\ a \in [U -> Nat] /\ T \in SUBSET U /\ x \in U \ T /\ T \in SUBSET T
  OBVIOUS
<1>2. Sum(a, U) = Sum(a, T) + a[x]
  <2> HIDE DEF U
  <2>1. SumGrows(a, U)
    BY <1>1, SumObeys
  <2>2. Sum(a, T \cup {x}) = Sum(a, T) + a[x]
    BY <1>1, <2>1, Zenon DEF SumGrows
  <2> QED BY <2>2 DEF U
<1>3. Sum(a, T) = Cardinality(Units(a, T))
  <2> HIDE DEF U
  <2> QED BY <1>1, SumIsCount
<1>4. Sum(l, T) = Cardinality(Units(l, T))
  BY <1>1, SumIsCount
<1>5. Sum(l, T) \in Nat
  BY <1>1, SumFacts
<1> QED BY <1>2, <1>3, <1>4, <1>5, Zenon DEF SumsWith

LEMMA SumAppend ==
    ASSUME NEW l \in Seq(Nat), NEW v \in Nat
    PROVE  /\ Sum(l, 1 .. Len(l)) \in Nat
           /\ Sum(Append(l, v), 1 .. Len(Append(l, v))) = Sum(l, 1 .. Len(l)) + v
<1> DEFINE a == Append(l, v)
           T == 1 .. Len(l)
           x == Len(l) + 1
<1>1. /\ Len(l) \in Nat /\ l \in [T -> Nat] /\ a \in [T \cup {x} -> Nat]
      /\ Len(a) = x /\ 1 .. x = T \cup {x} /\ x \notin T /\ a[x] = v
      /\ \A k \in T : a[k] = l[k]
  <2>1. Len(l) \in Nat /\ l \in [1 .. Len(l) -> Nat]
    OBVIOUS
  <2>2. a \in [1 .. x -> Nat] /\ Len(a) = x /\ a[x] = v /\ \A k \in T : a[k] = l[k]
    <3>1. a \in Seq(Nat) /\ Len(a) = x /\ a[x] = v
      OBVIOUS
    <3>2. \A k \in T : a[k] = l[k]
      BY <2>1
    <3> HIDE DEF a, x
    <3>3. a \in [1 .. x -> Nat]
      BY <3>1
    <3> QED BY <3>1, <3>2, <3>3
  <2>3. 1 .. x = T \cup {x} /\ x \notin T
    BY <2>1
  <2> QED BY <2>1, <2>2, <2>3
<1> HIDE DEF a
<1>2. IsFiniteSet(T) /\ IsFiniteSet(T \cup {x})
  BY <1>1, FS_Interval, FS_AddElement
<1> HIDE DEF T, x
<1>3. Units(a, T) = Units(l, T)
  BY <1>1 DEF Units
<1>4. Sum(a, T) = Sum(l, T) /\ Sum(a, T \cup {x}) = Sum(a, T) + a[x] /\ Sum(l, T) \in Nat
  <2>1. /\ x \notin T /\ IsFiniteSet(T) /\ IsFiniteSet(T \cup {x})
        /\ a \in [T \cup {x} -> Nat] /\ l \in [T -> Nat] /\ Units(a, T) = Units(l, T)
    BY <1>1, <1>2, <1>3, Zenon
  <2>2. SumsWith(a, l, T, x)
    BY <2>1, SumMore
  <2> QED BY <2>2, Zenon DEF SumsWith
<1> QED BY <1>1, <1>4 DEF a, T

LEMMA SoldNat ==
    ASSUME TypeOK
    PROVE  Sold \in Seq(Nat) /\ Len(Sold) = Len(trades) /\ Traded \in Nat
<1>1. trades \in Seq(Trade) /\ QtyMod \in Nat
  BY QtyModAssumption DEF TypeOK
<1>2. \A k \in DOMAIN trades : trades[k].qty \in Nat
  <2>1. \A k \in DOMAIN trades : trades[k] \in Trade
    BY <1>1
  <2>2. \A t \in Trade : t.qty \in Nat
    BY <1>1 DEF Trade, Quantity
  <2> QED BY <2>1, <2>2
<1>3. DOMAIN trades = 1 .. Len(trades) /\ Len(trades) \in Nat
  BY <1>1
<1>4. Sold \in Seq(Nat) /\ Len(Sold) = Len(trades)
  BY <1>2, <1>3 DEF Sold
<1> QED BY <1>4, SumAppend DEF Traded

(* The same fold as main.cpp's lines are summed with.                         *)
LEMMA TradedIsFold ==
    ASSUME TypeOK
    PROVE  TradedNow = Traded
<1> DEFINE S == DOMAIN trades
           Follow(it) == it = [s \in SUBSET S |->
                IF s = {} THEN 0
                ELSE LET x == CHOOSE y \in s : TRUE IN trades[x].qty + it[s \ {x}]]
           w == [s \in SUBSET S |-> Cardinality(Units(Sold, s))]
           c == CHOOSE it : Follow(it)
<1>1. TradedNow = c[S]
  BY DEF TradedNow, MapThenSumSet, MapThenFoldSet
<1>2. S = 1 .. Len(Sold) /\ IsFiniteSet(S) /\ Sold \in [S -> Nat] /\ S \in SUBSET S
      /\ \A x \in S : Sold[x] = trades[x].qty
  <2>1. trades \in Seq(Trade) /\ Sold \in Seq(Nat) /\ Len(Sold) = Len(trades)
        /\ Len(trades) \in Nat
    BY SoldNat DEF TypeOK
  <2>2. S = 1 .. Len(Sold)
    BY <2>1
  <2>3. IsFiniteSet(1 .. Len(Sold))
    BY <2>1, FS_Interval
  <2> QED BY <2>1, <2>2, <2>3 DEF Sold
<1> HIDE DEF S
<1>3. ASSUME NEW s \in SUBSET S, s # {}
      PROVE  LET x == CHOOSE y \in s : TRUE
             IN  x \in s /\ trades[x].qty = Sold[x]
                 /\ Cardinality(Units(Sold, s)) = Sold[x] + Cardinality(Units(Sold, s \ {x}))
  <2> DEFINE x == CHOOSE y \in s : TRUE
  <2>1. x \in s /\ Cardinality(Units(Sold, s)) = Sold[x] + Cardinality(Units(Sold, s \ {x}))
    BY <1>2, <1>3, UnitsPicked
  <2> HIDE DEF x
  <2>2. trades[x].qty = Sold[x]
    BY <1>2, <2>1
  <2> QED BY <2>1, <2>2 DEF x
<1>4. Cardinality(Units(Sold, {})) = 0
  BY <1>2, UnitsCount
<1>5. Follow(w)
  BY <1>3, <1>4
<1> HIDE DEF Follow
<1>6. Follow(c)
  BY <1>5
<1>7. \A s \in SUBSET S : c[s] = IF s = {} THEN 0
                  ELSE LET x == CHOOSE y \in s : TRUE IN Sold[x] + c[s \ {x}]
  <2> HIDE DEF c
  <2>1. \A s \in SUBSET S : c[s] = IF s = {} THEN 0
                  ELSE LET x == CHOOSE y \in s : TRUE IN trades[x].qty + c[s \ {x}]
    BY <1>6 DEF Follow
  <2> QED BY <1>3, <2>1
<1> HIDE DEF c
<1>8. c[S] = Cardinality(Units(Sold, S))
  <2>1. PICK U, q, d : U = S /\ q = Sold /\ d = c
    OBVIOUS
  <2>2. \A s \in SUBSET U : d[s] = IF s = {} THEN 0
                  ELSE LET x == CHOOSE y \in s : TRUE IN q[x] + d[s \ {x}]
    BY <1>7, <2>1
  <2>3. IsFiniteSet(U) /\ q \in [U -> Nat] /\ U \in SUBSET U
    BY <1>2, <2>1
  <2>4. d[U] = Cardinality(Units(q, U))
    BY <2>2, <2>3, FoldCounts
  <2> QED BY <2>1, <2>4
<1>9. Sum(Sold, S) = Cardinality(Units(Sold, S))
  BY <1>2, SumIsCount
<1> QED BY <1>1, <1>2, <1>8, <1>9 DEF Traded, S

(* What two uint64_t may differ by when they name the same quantity.          *)
Wraps == {k * QtyMod : k \in Int}

LEMMA WrapFacts ==
    /\ 0 \in Wraps /\ Wraps \subseteq Int
    /\ \A x, y \in Wraps : x + y \in Wraps /\ x - y \in Wraps
    /\ \A a \in Int : a % QtyMod \in Quantity /\ a - (a % QtyMod) \in Wraps
    /\ \A a, b \in Int : a - b \in Wraps => a % QtyMod = b % QtyMod
<1>1. QtyMod \in Int /\ QtyMod > 0
  BY QtyModAssumption
<1>2. 0 \in Wraps /\ Wraps \subseteq Int
  <2>1. 0 = 0 * QtyMod
    BY <1>1
  <2> QED BY <1>1, <2>1 DEF Wraps
<1>3. ASSUME NEW j \in Int, NEW k \in Int
      PROVE  j * QtyMod + k * QtyMod = (j + k) * QtyMod
             /\ j * QtyMod - k * QtyMod = (j - k) * QtyMod
  BY <1>1
<1>4. \A x, y \in Wraps : x + y \in Wraps /\ x - y \in Wraps
  <2> TAKE x, y \in Wraps
  <2>1. PICK j \in Int, k \in Int : x = j * QtyMod /\ y = k * QtyMod
    BY DEF Wraps
  <2>2. j + k \in Int /\ j - k \in Int
    OBVIOUS
  <2>3. x + y = (j + k) * QtyMod /\ x - y = (j - k) * QtyMod
    BY <1>3, <2>1
  <2> QED BY <2>2, <2>3 DEF Wraps
<1>5. ASSUME NEW a \in Int
      PROVE  a % QtyMod \in 0 .. QtyMod - 1 /\ \E k \in Int : a = k * QtyMod + (a % QtyMod)
  <2>1. a = QtyMod * (a \div QtyMod) + (a % QtyMod) /\ a \div QtyMod \in Int
        /\ a % QtyMod \in 0 .. QtyMod - 1
    BY <1>1
  <2> QED BY <1>1, <2>1
<1>6. \A a \in Int : a % QtyMod \in Quantity /\ a - (a % QtyMod) \in Wraps
  <2> TAKE a \in Int
  <2>1. PICK k \in Int : a = k * QtyMod + (a % QtyMod)
    BY <1>5
  <2>2. a - (a % QtyMod) = k * QtyMod
    BY <1>1, <1>5, <2>1
  <2> QED BY <1>5, <2>2 DEF Wraps, Quantity
<1>7. ASSUME NEW r \in 0 .. QtyMod - 1, NEW k \in Int PROVE (k * QtyMod + r) % QtyMod = r
  BY <1>1
<1>8. ASSUME NEW a \in Int, NEW b \in Int, a - b \in Wraps PROVE a % QtyMod = b % QtyMod
  <2>1. PICK j \in Int : b = j * QtyMod + (b % QtyMod)
    BY <1>5
  <2>2. PICK k \in Int : a - b = k * QtyMod
    BY <1>8 DEF Wraps
  <2>3. b % QtyMod \in 0 .. QtyMod - 1
    BY <1>5
  <2>4. PICK r \in 0 .. QtyMod - 1 : r = b % QtyMod
    BY <2>3
  <2>5. a = (k * QtyMod + j * QtyMod) + r
    BY <1>1, <2>1, <2>2, <2>4
  <2>6. a = (k + j) * QtyMod + r /\ k + j \in Int
    BY <1>3, <2>5
  <2> QED BY <1>7, <2>4, <2>6
<1> QED BY <1>2, <1>4, <1>6, <1>8

(* uint64_t addition and subtraction name the sum and the difference.         *)
LEMMA WordWraps ==
    ASSUME NEW a \in Quantity, NEW b \in Quantity
    PROVE  Plus(a, b) - (a + b) \in Wraps /\ Minus(a, b) - (a - b) \in Wraps
<1>1. a \in Int /\ b \in Int /\ QtyMod \in Int
  BY QtyModAssumption DEF Quantity
<1>2. /\ Plus(a, b) - (a + b) = 0 \/ Plus(a, b) - (a + b) = -QtyMod
      /\ Minus(a, b) - (a - b) = 0 \/ Minus(a, b) - (a - b) = QtyMod
  BY <1>1 DEF Plus, Minus
<1>3. -QtyMod \in Wraps /\ QtyMod \in Wraps
  <2>1. QtyMod = 1 * QtyMod /\ -QtyMod = (-1) * QtyMod
    BY <1>1
  <2> QED BY <2>1 DEF Wraps
<1> QED BY <1>2, <1>3, WrapFacts

(* The volumes of all levels in the maps K over the levels L, and of all but  *)
(* the one of side s and price p.                                             *)
LevelsOf(K)   == {l \in Side \X Price : l[2] \in K[l[1]]}
SummedOver(L, D) == Sum([l \in D |-> L[l[1]][l[2]].total_volume], D)
ListedIn(K, L)   == SummedOver(L, LevelsOf(K))
Elsewhere(K, L, s, p) == SummedOver(L, LevelsOf(K) \ {<<s, p>>})

LEMMA ListedAre == ListedLevels = LevelsOf(keys) /\ ListedVolume = ListedIn(keys, level)
<1>1. ListedLevels = LevelsOf(keys)
  BY DEF ListedLevels, LevelsOf
<1> QED BY <1>1 DEF ListedVolume, LevelVolume, ListedIn, SummedOver, Sum

LEMMA ListedKept ==
    ASSUME keys' = keys, level' = level
    PROVE  ListedLevels' = ListedLevels /\ ListedVolume' = ListedVolume
<1>1. (ListedLevels = LevelsOf(keys) /\ ListedVolume = ListedIn(keys, level))'
  BY ListedAre, PTL
<1>2. ListedLevels' = LevelsOf(keys') /\ ListedVolume' = ListedIn(keys', level')
  BY <1>1 DEF ListedIn, SummedOver, LevelsOf
<1> QED BY <1>2, ListedAre

(* The sum over a set is that over all but one, and the one.                  *)
Splits(L, D, s, p) ==
    /\ SummedOver(L, D) \in Nat /\ SummedOver(L, D \ {<<s, p>>}) \in Nat
    /\ SummedOver(L, D) = SummedOver(L, D \ {<<s, p>>})
                             + IF <<s, p>> \in D THEN L[s][p].total_volume ELSE 0

LEMMA SummedSplit ==
    ASSUME NEW L \in [Side -> [Price -> PriceLevel]], NEW D \in SUBSET (Side \X Price),
           IsFiniteSet(D), NEW s \in Side, NEW p \in Price
    PROVE  Splits(L, D, s, p)
<1> DEFINE x == <<s, p>>
           T == D \ {x}
           f == [l \in D |-> L[l[1]][l[2]].total_volume]
           g == [l \in T |-> L[l[1]][l[2]].total_volume]
<1>1. \A l \in Side \X Price : L[l[1]][l[2]].total_volume \in Nat
  <2>1. \A l \in Side \X Price : L[l[1]][l[2]] \in PriceLevel
    OBVIOUS
  <2>2. \A v \in PriceLevel : v.total_volume \in Nat
    BY QtyModAssumption DEF PriceLevel, Quantity
  <2> QED BY <2>1, <2>2
<1>2. f \in [D -> Nat] /\ g \in [T -> Nat] /\ IsFiniteSet(T)
  BY <1>1, FS_RemoveElement
<1>3. SummedOver(L, D) = Sum(f, D) /\ SummedOver(L, T) = Sum(g, T)
  BY DEF SummedOver
<1>4. Sum(f, D) \in Nat /\ Sum(g, T) \in Nat
  <2> HIDE DEF f, g, T
  <2> QED BY <1>2, SumFacts
<1>5. CASE x \in D
  <2>1. x \notin T /\ T \cup {x} = D
    BY <1>5
  <2>2. f[x] = L[s][p].total_volume
    BY <1>5
  <2>3. Units(f, T) = Units(g, T)
    BY DEF Units
  <2> HIDE DEF f, g, T, x
  <2>4. f \in [T \cup {x} -> Nat] /\ IsFiniteSet(T \cup {x})
    BY <1>2, <2>1
  <2>5. SumsWith(f, g, T, x)
    BY <1>2, <2>1, <2>3, <2>4, SumMore
  <2>6. Sum(f, D) = Sum(g, T) + f[x]
    BY <2>1, <2>5, Zenon DEF SumsWith
  <2>7. SummedOver(L, D) = SummedOver(L, T) + L[s][p].total_volume
    BY <1>3, <2>2, <2>6, Zenon
  <2> QED BY <1>3, <1>4, <1>5, <2>7 DEF T, x, Splits
<1>6. CASE x \notin D
  <2>1. T = D
    BY <1>6
  <2>2. SummedOver(L, T) = SummedOver(L, D)
    BY <2>1, Zenon
  <2> HIDE DEF f, g
  <2> QED BY <1>3, <1>4, <1>6, <2>2 DEF Splits
<1> QED BY <1>5, <1>6

(* A price without a level in the map has no volume either.                   *)
NoneUnlisted ==
    \A s \in Side, p \in Price : p \notin keys[s] => level[s][p].total_volume = 0

LEMMA UnlistedEmpty == MainInv => NoneUnlisted
<1> SUFFICES ASSUME MainInv, NEW s \in Side, NEW p \in Price, p \notin keys[s]
             PROVE  level[s][p].total_volume = 0
  BY DEF NoneUnlisted
<1>1. PICK Q \in Queues : Linked(Q) /\ Volumes(Q) /\ TypeOK
  BY DEF MainInv, EngineInv
<1>2. Q[s][p] = <<>> /\ level[s][p].head = At(Q[s][p], 1)
  BY <1>1 DEF Linked
<1>3. level[s][p].head = Null
  BY <1>2 DEF At
<1> QED BY <1>1, <1>3, EmptyVolume

(* One level changes, enters a map or leaves it: the volumes listed change by *)
(* what it changes.                                                           *)
OnlyAt(s, p) ==
    \A z \in Side, q \in Price : z # s \/ q # p =>
        /\ level'[z][q].total_volume = level[z][q].total_volume
        /\ q \in keys'[z] <=> q \in keys[z]

ListedMoves(s, p) ==
    /\ IsFiniteSet(ListedLevels') /\ ListedVolume' \in Nat /\ ListedVolume \in Nat
    /\ ListedVolume' + level[s][p].total_volume
           = ListedVolume + level'[s][p].total_volume

LEMMA ListedChange ==
    ASSUME TypeOK, TypeOK', NoneUnlisted, NoneUnlisted', IsFiniteSet(ListedLevels),
           NEW s \in Side, NEW p \in Price, OnlyAt(s, p)
    PROVE  ListedMoves(s, p)
<1>1. PICK L \in [Side -> [Price -> PriceLevel]], M \in [Side -> [Price -> PriceLevel]] :
          L = level /\ M = level'
  <2>1. (TypeOK => level \in [Side -> [Price -> PriceLevel]])'
    BY BookTypes, PTL
  <2> QED BY <2>1, BookTypes
<1>2. PICK D \in SUBSET (Side \X Price), E \in SUBSET (Side \X Price) :
          D = ListedLevels /\ E = ListedLevels'
  BY DEF ListedLevels
<1>3. E \ {<<s, p>>} = D \ {<<s, p>>}
  BY <1>2 DEF OnlyAt, ListedLevels
<1>4. IsFiniteSet(E)
  <2>1. IsFiniteSet((D \ {<<s, p>>}) \cup {<<s, p>>})
    BY <1>2, FS_RemoveElement, FS_AddElement
  <2>2. E \subseteq (D \ {<<s, p>>}) \cup {<<s, p>>}
    BY <1>3
  <2> QED BY <2>1, <2>2, FS_Subset
<1>5. SummedOver(M, E \ {<<s, p>>}) = SummedOver(L, D \ {<<s, p>>})
  <2> DEFINE T == D \ {<<s, p>>}
  <2>1. \A l \in T : M[l[1]][l[2]].total_volume = L[l[1]][l[2]].total_volume
    BY <1>1, <1>2 DEF OnlyAt
  <2>2. [l \in T |-> M[l[1]][l[2]].total_volume] = [l \in T |-> L[l[1]][l[2]].total_volume]
    BY <2>1
  <2>3. SummedOver(M, T) = SummedOver(L, T)
    BY <2>2, Zenon DEF SummedOver
  <2> QED BY <1>3, <2>3, Zenon
<1>6. Splits(L, D, s, p)
  BY <1>2, SummedSplit
<1>7. Splits(M, E, s, p)
  BY <1>4, SummedSplit
<1>8. /\ L[s][p].total_volume \in Nat /\ M[s][p].total_volume \in Nat
      /\ <<s, p>> \notin D => L[s][p].total_volume = 0
      /\ <<s, p>> \notin E => M[s][p].total_volume = 0
  <2>1. L[s][p].total_volume \in Nat /\ M[s][p].total_volume \in Nat
    BY QtyModAssumption DEF PriceLevel, Quantity
  <2>2. <<s, p>> \notin D => L[s][p].total_volume = 0
    BY <1>1, <1>2 DEF NoneUnlisted, ListedLevels
  <2>3. <<s, p>> \notin E => M[s][p].total_volume = 0
    BY <1>1, <1>2 DEF NoneUnlisted, ListedLevels
  <2> QED BY <2>1, <2>2, <2>3
<1>9. SummedOver(M, E) + L[s][p].total_volume = SummedOver(L, D) + M[s][p].total_volume
  BY <1>5, <1>6, <1>7, <1>8 DEF Splits
<1>10. ListedVolume = SummedOver(L, D) /\ ListedVolume' = SummedOver(M, E)
  <2>1. (ListedLevels = LevelsOf(keys) /\ ListedVolume = ListedIn(keys, level))'
    BY ListedAre, PTL
  <2>2. ListedVolume' = ListedIn(keys', level') /\ ListedLevels' = LevelsOf(keys')
    BY <2>1 DEF ListedIn, SummedOver, LevelsOf
  <2> QED BY <1>1, <1>2, <2>2, ListedAre DEF ListedIn
<1> QED BY <1>1, <1>2, <1>4, <1>6, <1>7, <1>9, <1>10 DEF ListedMoves, Splits

(* Every unit is accounted for, also in the middle of a call: what the levels *)
(* list, what the order in the engine has left, and twice what has traded, in *)
(* this call and as reported, are what was accepted.                          *)
Accounted(v, h, t, r, a) == v + h + 2 * t + 2 * r - a \in Wraps
Balanced ==
    /\ pc = "idle" => trades = <<>>
    /\ accepted \in Quantity /\ reported \in Quantity
    /\ IsFiniteSet(ListedLevels)
    /\ Accounted(ListedVolume, InHand, Traded, reported, accepted)
BalanceInv == MainInv /\ Balanced

LEMMA Quantities ==
    ASSUME MainInv, Balanced
    PROVE  /\ ListedVolume \in Nat /\ InHand \in Nat /\ Traded \in Nat
           /\ accepted \in Nat /\ reported \in Nat
<1>1. TypeOK
  BY DEF MainInv
<1>2. ListedVolume \in Nat
  <2>1. "Buy" \in Side /\ NoLevel \in Price
    BY NoLevelIsPrice DEF Side
  <2>2. PICK L \in [Side -> [Price -> PriceLevel]], D \in SUBSET (Side \X Price) :
            L = level /\ D = ListedLevels
    BY <1>1, BookTypes DEF ListedLevels
  <2>3. Splits(L, D, "Buy", NoLevel)
    BY <2>1, <2>2, SummedSplit DEF Balanced
  <2>4. ListedVolume = SummedOver(L, D)
    BY <2>2, ListedAre DEF ListedIn
  <2> QED BY <2>3, <2>4 DEF Splits
<1>3. InHand \in Nat
  BY <1>1, TakerQuantity DEF InHand
<1> QED BY <1>1, <1>2, <1>3, SoldNat, QtyModAssumption DEF Balanced, Quantity

(* No step but those below touches a quantity.                                *)
LEMMA SameBalance ==
    ASSUME Balanced,
           UNCHANGED <<qty, keys, level, trades, incoming, accepted, reported>>,
           pc' = "idle" <=> pc = "idle"
    PROVE  Balanced'
<1>1. ListedLevels' = ListedLevels /\ ListedVolume' = ListedVolume
  BY ListedKept
<1>2. InHand' = InHand /\ Traded' = Traded
  BY DEF InHand, Traded, Sold
<1> QED BY <1>1, <1>2 DEF Balanced

(* BUY or SELL: what is accepted is in the engine's hands.                    *)
LEMMA AcceptBalance ==
    ASSUME MainInv, Balanced, NEW s \in Side,
           NEW m \in PriceInput, NEW q \in QtyInput, Accept(s, m, q)
    PROVE  Balanced'
<1>1. /\ Submit(freelist_head, s, ToTicks(m), q) /\ Pool!Allocate
      /\ accepted' = (accepted + q) % QtyMod /\ reported' = reported
      /\ q > 0 /\ pc = "idle" /\ trades' = trades
  BY DEF Accept, Submit
<1>2. freelist_head \in Node
  BY <1>1, FreshNode DEF Pool!Allocate, MainInv
<1>3. PICK v \in Nat : v = q /\ v \in Quantity
  BY <1>1, QtyFits, QtyModAssumption DEF Quantity
<1>4. /\ qty' = [qty EXCEPT ![freelist_head] = v] /\ incoming' = freelist_head
      /\ pc' = "outer" /\ keys' = keys /\ level' = level
  BY <1>1, <1>3 DEF Submit
<1>5. InHand = 0 /\ InHand' = v
  <2>1. qty \in [Node -> Quantity]
    BY BookTypes DEF MainInv
  <2> QED BY <1>1, <1>2, <1>4, <2>1 DEF InHand
<1>6. ListedLevels' = ListedLevels /\ ListedVolume' = ListedVolume /\ Traded' = Traded
  BY <1>1, <1>4, ListedKept DEF Traded, Sold
<1>7. PICK l \in Nat, t \in Nat, r \in Nat, a \in Nat :
          /\ l = ListedVolume /\ t = Traded /\ r = reported /\ a = accepted
          /\ Accounted(l, 0, t, r, a)
  BY <1>5, Quantities DEF Balanced
<1>8. PICK b \in Int : b = accepted' /\ b \in Quantity /\ (a + v) - b \in Wraps
  <2>1. PICK x \in Int : x = a + v
    OBVIOUS
  <2>2. accepted' = x % QtyMod
    BY <1>1, <1>3, <1>7, <2>1
  <2>3. x % QtyMod \in Quantity /\ x - (x % QtyMod) \in Wraps
    BY WrapFacts
  <2> QED BY <2>1, <2>2, <2>3, QtyModAssumption DEF Quantity
<1>9. Accounted(l, v, t, r, b)
  <2>1. l + v + 2 * t + 2 * r - b = (l + 0 + 2 * t + 2 * r - a) + ((a + v) - b)
    OBVIOUS
  <2> QED BY <1>7, <1>8, <2>1, WrapFacts DEF Accounted
<1> QED BY <1>1, <1>4, <1>5, <1>6, <1>7, <1>8, <1>9 DEF Balanced

(* What an iteration of the inner loop trades.                                *)
LEMMA MatchTrades ==
    ASSUME TypeOK, NEW Q, EngineInv(Q), MatchOne
    PROVE  \E t \in Quantity :
              /\ OnlyAt(maker_side, best)
              /\ level'[maker_side][best].total_volume
                     = Minus(level[maker_side][best].total_volume, t)
              /\ qty'[incoming] = qty[incoming] - t
              /\ Traded' = Traded + t
<1> DEFINE t == IF qty[incoming] < qty[resting_order] THEN qty[incoming]
                                                      ELSE qty[resting_order]
<1>1. resting_order \in Node /\ incoming \in Node /\ resting_order # incoming
  BY CursorOrder
<1>2. t \in Quantity /\ t \in Nat /\ qty'[incoming] = qty[incoming] - t
  BY <1>1, QtyModAssumption, MatchQuantities DEF Quantity
<1>3. /\ level'[maker_side][best].total_volume = Minus(level[maker_side][best].total_volume, t)
      /\ OnlyAt(maker_side, best)
  <2>1. PICK s, p : s = maker_side /\ p = best
    OBVIOUS
  <2>2. /\ level'[s][p].total_volume = Minus(level[s][p].total_volume, t)
        /\ \A z \in Side, q \in Price : z # s \/ q # p => level'[z][q] = level[z][q]
    BY <2>1, MatchLevel
  <2>3. keys' = keys
    BY DEF MatchOne
  <2> QED BY <2>1, <2>2, <2>3 DEF OnlyAt
<1>4. Traded' = Traded + t
  <2>1. trades' = Append(trades, [maker |-> order[resting_order].id, taker |-> order[incoming].id,
                                  price |-> best, qty |-> t])
    BY DEF MatchOne
  <2> HIDE DEF t
  <2>2. trades \in Seq(Trade) /\ Sold \in Seq(Nat) /\ Len(Sold) = Len(trades)
    BY SoldNat DEF TypeOK
  <2>3. PICK e : trades' = Append(trades, e) /\ e.qty = t
    BY <2>1
  <2>4. /\ Len(trades) \in Nat /\ DOMAIN trades = 1 .. Len(trades)
        /\ DOMAIN trades' = 1 .. Len(trades) + 1
        /\ \A k \in 1 .. Len(trades) : trades'[k] = trades[k]
        /\ trades'[Len(trades) + 1] = e
    BY <2>2, <2>3
  <2>5. Sold' = Append(Sold, t)
    <3>1. Sold' = [k \in 1 .. Len(trades) + 1 |-> trades'[k].qty]
      BY <2>4 DEF Sold
    <3>2. Append(Sold, t) = [k \in 1 .. Len(trades) + 1 |->
                                 IF k = Len(trades) + 1 THEN t ELSE Sold[k]]
      <4>1. PICK l \in Seq(Nat), v \in Nat : l = Sold /\ v = t
        BY <1>2, <2>2
      <4>2. Append(l, v) \in Seq(Nat) /\ Len(Append(l, v)) = Len(l) + 1 /\ Len(l) \in Nat
            /\ Append(l, v)[Len(l) + 1] = v /\ \A k \in 1 .. Len(l) : Append(l, v)[k] = l[k]
        OBVIOUS
      <4>3. \A k \in 1 .. Len(l) + 1 :
                Append(l, v)[k] = IF k = Len(l) + 1 THEN v ELSE l[k]
        BY <4>2
      <4>4. Append(l, v) = [k \in 1 .. Len(l) + 1 |-> Append(l, v)[k]]
        <5>1. PICK a \in Seq(Nat) : a = Append(l, v)
          BY <4>2
        <5>2. a = [k \in 1 .. Len(a) |-> a[k]]
          OBVIOUS
        <5> QED BY <4>2, <5>1, <5>2
      <4> QED BY <2>2, <4>1, <4>3, <4>4
    <3>3. \A k \in 1 .. Len(trades) + 1 :
              trades'[k].qty = IF k = Len(trades) + 1 THEN t ELSE Sold[k]
      <4>1. \A k \in 1 .. Len(trades) : trades'[k].qty = Sold[k]
        BY <2>4 DEF Sold
      <4> QED BY <2>3, <2>4, <4>1
    <3> QED BY <3>1, <3>2, <3>3
  <2> QED BY <1>2, <2>2, <2>5, SumAppend DEF Traded
<1> HIDE DEF t
<1> QED BY <1>2, <1>3, <1>4

LEMMA MatchBalance ==
    ASSUME MainInv, MainInv', Balanced, Process, MatchOne
    PROVE  Balanced'
<1>1. /\ pc # "idle" /\ pc' # "idle" /\ incoming' = incoming
      /\ accepted' = accepted /\ reported' = reported
  BY DEF Process, MatchOne
<1>2. PICK Q \in Queues : EngineInv(Q) /\ TypeOK /\ TypeOK'
  BY DEF MainInv
<1>3. PICK s \in Side, p \in Price : s = maker_side /\ p = best
  BY <1>2, CursorOrder
<1>4. PICK d \in Quantity :
          /\ OnlyAt(s, p)
          /\ level'[s][p].total_volume = Minus(level[s][p].total_volume, d)
          /\ qty'[incoming] = qty[incoming] - d /\ Traded' = Traded + d
  BY <1>2, <1>3, MatchTrades
<1>5. NoneUnlisted /\ NoneUnlisted'
  <2>1. (MainInv => NoneUnlisted)'
    BY UnlistedEmpty, PTL
  <2> QED BY <2>1, UnlistedEmpty
<1>6. ListedMoves(s, p)
  BY <1>2, <1>4, <1>5, ListedChange DEF Balanced
<1>7. PICK l \in Nat, h \in Nat, t \in Nat, r \in Nat, a \in Nat :
          /\ l = ListedVolume /\ h = InHand /\ t = Traded /\ r = reported /\ a = accepted
          /\ Accounted(l, h, t, r, a)
  BY Quantities DEF Balanced
<1>8. PICK v \in Quantity, w \in Quantity :
          v = level[s][p].total_volume /\ w = Minus(v, d) /\ w = level'[s][p].total_volume
  <2>1. \A x \in PriceLevel : x.total_volume \in Quantity
    BY DEF PriceLevel
  <2>2. (TypeOK => level \in [Side -> [Price -> PriceLevel]])'
    BY BookTypes, PTL
  <2> QED BY <1>2, <1>4, <2>1, <2>2, BookTypes
<1>9. PICK k \in Nat : k = ListedVolume' /\ k + v = l + w
  BY <1>6, <1>7, <1>8 DEF ListedMoves
<1>10. v \in Int /\ w \in Int /\ d \in Int /\ w - (v - d) \in Wraps
  <2>1. v \in Int /\ w \in Int /\ d \in Int
    BY QtyModAssumption DEF Quantity
  <2>2. Minus(v, d) - (v - d) \in Wraps
    BY WordWraps
  <2> QED BY <1>8, <2>1, <2>2
<1>11. InHand' = h - d
  BY <1>1, <1>4, <1>7 DEF InHand
<1>12. Accounted(k, h - d, t + d, r, a)
  <2>1. k + (h - d) + 2 * (t + d) + 2 * r - a = (l + h + 2 * t + 2 * r - a) + (w - (v - d))
    <3>1. k + v = l + w
      BY <1>9
    <3>2. v \in Int /\ w \in Int /\ d \in Int
      BY <1>10
    <3>3. k + (h - d) + 2 * (t + d) + 2 * r - a = k + h + d + 2 * t + 2 * r - a
      BY <3>2
    <3>4. k + d = l + (w - (v - d))
      BY <3>1, <3>2
    <3> QED BY <3>1, <3>2, <3>3, <3>4
  <2>2. l + h + 2 * t + 2 * r - a \in Wraps
    BY <1>7 DEF Accounted
  <2>3. (l + h + 2 * t + 2 * r - a) + (w - (v - d)) \in Wraps
    BY <1>10, <2>2, WrapFacts, Zenon
  <2> QED BY <2>1, <2>3 DEF Accounted
<1> QED BY <1>1, <1>4, <1>6, <1>7, <1>9, <1>11, <1>12 DEF Balanced, ListedMoves

(* The level left behind had no volume any more if it is erased.              *)
LEMMA LeaveBalance ==
    ASSUME MainInv, MainInv', Balanced, Process, LeaveLevel
    PROVE  Balanced'
<1>1. /\ pc # "idle" /\ pc' # "idle"
      /\ UNCHANGED <<qty, incoming, trades, accepted, reported>>
  BY DEF Process, LeaveLevel
<1>2. PICK Q \in Queues : EngineInv(Q) /\ Volumes(Q) /\ TypeOK /\ TypeOK'
  BY DEF MainInv
<1>3. PICK s \in Side, p \in Price : s = maker_side /\ p = best
  BY <1>2, SidesType, BookTypes DEF LeaveLevel
<1>4. level' = LevelAfterCheck(level, s, p) /\ keys' = KeysAfterCheck(keys, level, s, p)
  BY <1>3 DEF LeaveLevel
<1>5. OnlyAt(s, p) /\ level'[s][p].total_volume = level[s][p].total_volume
  <2>1. level \in [Side -> [Price -> PriceLevel]] /\ keys \in [Side -> SUBSET Price]
    BY <1>2, BookTypes
  <2>2. CASE level[s][p].head = Null
    <3>1. level[s][p].total_volume = 0
      BY <1>2, <2>2, EmptyVolume DEF EngineInv
    <3>2. \A z \in Side, q \in Price :
              level'[z][q] = IF z = s /\ q = p THEN NewLevel ELSE level[z][q]
      BY <1>4, <2>1, <2>2 DEF LevelAfterCheck, SetLevel
    <3>3. keys' = [keys EXCEPT ![s] = keys[s] \ {p}]
      BY <1>4, <2>2 DEF KeysAfterCheck
    <3> QED BY <2>1, <3>1, <3>2, <3>3 DEF NewLevel, OnlyAt
  <2>3. CASE level[s][p].head # Null
    BY <1>4, <2>3 DEF LevelAfterCheck, KeysAfterCheck, OnlyAt
  <2> QED BY <2>2, <2>3
<1>6. NoneUnlisted /\ NoneUnlisted'
  <2>1. (MainInv => NoneUnlisted)'
    BY UnlistedEmpty, PTL
  <2> QED BY <2>1, UnlistedEmpty
<1>7. ListedMoves(s, p)
  BY <1>2, <1>5, <1>6, ListedChange DEF Balanced
<1>8. level[s][p].total_volume \in Nat
  <2>1. \A x \in PriceLevel : x.total_volume \in Nat
    BY QtyModAssumption DEF PriceLevel, Quantity
  <2> QED BY <1>2, <2>1, BookTypes
<1>9. ListedVolume' = ListedVolume
  BY <1>5, <1>7, <1>8 DEF ListedMoves
<1>10. InHand' = InHand /\ Traded' = Traded
  BY <1>1 DEF InHand, Traded, Sold
<1> QED BY <1>1, <1>7, <1>9, <1>10 DEF Balanced, ListedMoves

(* The answer: what is left joins its level, what was traded is reported.     *)
LEMMA AnswerListed ==
    ASSUME MainInv, MainInv', Balanced, Answer, NEW n \in Node, n = incoming
    PROVE  /\ IsFiniteSet(ListedLevels') /\ ListedVolume' \in Nat
           /\ ListedVolume' - (ListedVolume + qty[n]) \in Wraps
<1>1. RestAndReturn
  BY DEF Answer
<1>2. TypeOK /\ TypeOK' /\ qty[n] \in Quantity /\ qty[n] \in Nat /\ ListedVolume \in Nat
      /\ level \in [Side -> [Price -> PriceLevel]] /\ keys \in [Side -> SUBSET Price]
  BY Quantities, BookTypes, QtyModAssumption DEF MainInv, Quantity
<1>3. CASE qty[n] > 0
  <2>1. InsertOrder(n)
    BY <1>1, <1>3 DEF RestAndReturn
  <2>2. PICK s \in Side, p \in Price : s = order[n].side /\ p = order[n].price
    BY <1>2, BookTypes
  <2>3. /\ keys' = [keys EXCEPT ![s] = keys[s] \cup {p}]
        /\ level' = SetLevel(level, s, p, AddVolume(PushedLevel(level[s][p], n), qty[n]))
    BY <2>1, <2>2 DEF InsertOrder
  <2>4. AddVolume(PushedLevel(level[s][p], n), qty[n]).total_volume
            = Plus(level[s][p].total_volume, qty[n])
    <3>1. level[s][p] \in PriceLevel
      BY <1>2
    <3>2. PushedLevel(level[s][p], n) \in PriceLevel
          /\ PushedLevel(level[s][p], n).total_volume = level[s][p].total_volume
      BY <3>1 DEF PushedLevel, PriceLevel
    <3> QED BY <3>2 DEF AddVolume, PriceLevel
  <2>5. OnlyAt(s, p) /\ level'[s][p].total_volume = Plus(level[s][p].total_volume, qty[n])
    BY <1>2, <2>3, <2>4 DEF SetLevel, OnlyAt
  <2>6. NoneUnlisted /\ NoneUnlisted'
    <3>1. (MainInv => NoneUnlisted)'
      BY UnlistedEmpty, PTL
    <3> QED BY <3>1, UnlistedEmpty
  <2>7. ListedMoves(s, p)
    BY <1>2, <2>5, <2>6, ListedChange DEF Balanced
  <2>8. PICK v \in Quantity, q \in Quantity, w \in Quantity :
            /\ v = level[s][p].total_volume /\ q = qty[n] /\ w = Plus(v, q)
            /\ w = level'[s][p].total_volume
    <3>1. \A x \in PriceLevel : x.total_volume \in Quantity
      BY DEF PriceLevel
    <3>2. (TypeOK => level \in [Side -> [Price -> PriceLevel]])'
      BY BookTypes, PTL
    <3> QED BY <1>2, <2>5, <3>1, <3>2
  <2>9. PICK l \in Nat, k \in Nat : l = ListedVolume /\ k = ListedVolume' /\ k + v = l + w
    BY <2>7, <2>8 DEF ListedMoves
  <2>10. w - (v + q) \in Wraps /\ w \in Int /\ v \in Int /\ q \in Int
    <3>1. v \in Int /\ w \in Int /\ q \in Int
      BY QtyModAssumption DEF Quantity
    <3>2. Plus(v, q) - (v + q) \in Wraps
      BY WordWraps
    <3> QED BY <2>8, <3>1, <3>2
  <2>11. k - (l + q) = w - (v + q)
    <3>1. k + v = l + w
      BY <2>9
    <3>2. v \in Int /\ w \in Int /\ q \in Int
      BY <2>10
    <3> QED BY <3>1, <3>2
  <2> QED BY <2>7, <2>8, <2>9, <2>10, <2>11 DEF ListedMoves
<1>4. CASE ~(qty[n] > 0)
  <2>1. UNCHANGED bookVars
    BY <1>1, <1>4 DEF RestAndReturn
  <2>2. ListedLevels' = ListedLevels /\ ListedVolume' = ListedVolume
    BY <2>1, ListedKept DEF bookVars
  <2>3. qty[n] = 0
    BY <1>2, <1>4
  <2>4. ListedVolume' - (ListedVolume + qty[n]) = 0
    BY <1>2, <2>2, <2>3
  <2> QED BY <1>2, <2>2, <2>4, WrapFacts DEF Balanced
<1> QED BY <1>3, <1>4

LEMMA NothingTraded == trades = <<>> => Traded = 0
<1> SUFFICES ASSUME trades = <<>> PROVE Traded = 0
  OBVIOUS
<1>1. Len(Sold) = 0 /\ 1 .. 0 = {} /\ Sold \in [{} -> Nat] /\ IsFiniteSet({})
  BY FS_EmptySet DEF Sold
<1>2. Sum(Sold, {}) = 0
  BY <1>1, SumFacts
<1> QED BY <1>1, <1>2 DEF Traded

LEMMA AnswerBalance ==
    ASSUME MainInv, MainInv', Balanced, Answer
    PROVE  Balanced'
<1>1. /\ pc = "rest" /\ pc' = "idle" /\ trades' = <<>> /\ accepted' = accepted
      /\ reported' = (reported + Traded) % QtyMod
  BY TradedIsFold DEF Answer, RestAndReturn, MainInv
<1>2. PICK n \in Node : n = incoming
  BY <1>1 DEF MainInv, TypeOK
<1>3. PICK l \in Nat, h \in Nat, t \in Nat, r \in Nat, a \in Nat :
          /\ l = ListedVolume /\ h = InHand /\ t = Traded /\ r = reported /\ a = accepted
          /\ Accounted(l, h, t, r, a)
  BY Quantities DEF Balanced
<1>4. h = qty[n]
  BY <1>1, <1>2, <1>3 DEF InHand
<1>5. PICK k \in Nat : k = ListedVolume' /\ k - (l + h) \in Wraps /\ IsFiniteSet(ListedLevels')
  BY <1>2, <1>3, <1>4, AnswerListed
<1>6. PICK b \in Int : b = reported' /\ b \in Quantity /\ (r + t) - b \in Wraps
  <2>1. PICK x \in Int : x = r + t
    OBVIOUS
  <2>2. reported' = x % QtyMod
    BY <1>1, <1>3, <2>1
  <2>3. x % QtyMod \in Quantity /\ x - (x % QtyMod) \in Wraps
    BY WrapFacts
  <2> QED BY <2>1, <2>2, <2>3, QtyModAssumption DEF Quantity
<1>7. InHand' = 0
  BY <1>1 DEF InHand
<1>8. Traded' = 0
  <2>1. (trades = <<>> => Traded = 0)'
    BY NothingTraded, PTL
  <2> QED BY <1>1, <2>1
<1>9. Accounted(k, 0, 0, b, a)
  <2>1. PICK e \in Wraps, f \in Wraps, g \in Wraps :
            /\ e = l + h + 2 * t + 2 * r - a /\ f = k - (l + h) /\ g = (r + t) - b
    BY <1>3, <1>5, <1>6 DEF Accounted
  <2>2. e \in Int /\ f \in Int /\ g \in Int
    BY WrapFacts
  <2>3. k + 0 + 2 * 0 + 2 * b - a = ((e + f) - g) - g
    BY <2>1, <2>2
  <2>4. ((e + f) - g) - g \in Wraps
    BY WrapFacts
  <2> QED BY <2>3, <2>4 DEF Accounted
<1>10. Accounted(ListedVolume', InHand', Traded', reported', accepted')
  BY <1>1, <1>3, <1>5, <1>6, <1>7, <1>8, <1>9
<1> QED BY <1>1, <1>3, <1>5, <1>6, <1>10 DEF Balanced

(* The start, and a CLEAR: nothing listed, nothing accepted.                  *)
LEMMA EmptyBalance ==
    BookInit /\ trades = <<>> /\ accepted = 0 /\ reported = 0 /\ pc = "idle" => Balanced
<1> SUFFICES ASSUME BookInit, trades = <<>>, accepted = 0, reported = 0, pc = "idle"
             PROVE  Balanced
  OBVIOUS
<1>1. ListedLevels = {} /\ LevelVolume \in [{} -> Nat] /\ IsFiniteSet({})
  BY FS_EmptySet DEF BookInit, ListedLevels, LevelVolume
<1>2. ListedVolume = 0
  <2>1. Sum(LevelVolume, {}) = 0
    BY <1>1, SumFacts
  <2> QED BY <1>1, <2>1 DEF ListedVolume, Sum
<1>3. Traded = 0 /\ InHand = 0
  BY NothingTraded DEF InHand
<1>4. Accounted(0, 0, 0, 0, 0)
  BY WrapFacts DEF Accounted
<1> QED BY <1>1, <1>2, <1>3, <1>4, QtyModAssumption DEF Balanced, Quantity

LEMMA BalanceInit == MainInit => BalanceInv
BY MainInitInv, EmptyBalance DEF MainInit, Init, BalanceInv

LEMMA BalanceStep == BalanceInv /\ [MainNext]_mainVars => BalanceInv'
<1> SUFFICES ASSUME MainInv, Balanced, [MainNext]_mainVars PROVE Balanced'
  BY MainStep DEF BalanceInv
<1>1. MainInv'
  BY MainStep
<1>2. CASE UNCHANGED <<vars, poolVars, accepted, reported>>
  BY <1>2, SameBalance DEF vars, bookVars, engineVars
<1>3. ASSUME NEW s \in Side, NEW m \in PriceInput, NEW q \in QtyInput, Accept(s, m, q)
      PROVE  Balanced'
  BY <1>3, AcceptBalance
<1>4. CASE Process
  <2>1. CASE TakeBestLevel \/ StopMatching
    BY <1>4, <2>1, SameBalance DEF Process, TakeBestLevel, StopMatching, bookVars
  <2>2. CASE MatchOne
    BY <1>1, <1>4, <2>2, MatchBalance
  <2>3. CASE LeaveLevel
    BY <1>1, <1>4, <2>3, LeaveBalance
  <2> QED BY <1>4, <2>1, <2>2, <2>3 DEF Process
<1>5. CASE Answer
  BY <1>1, <1>5, AnswerBalance
<1>6. CASE Clear
  <2>1. BookInit' /\ trades' = trades /\ accepted' = 0 /\ reported' = 0
        /\ pc = "idle" /\ pc' = "idle"
    BY <1>6 DEF Clear, BookInit
  <2>2. trades' = <<>>
    BY <2>1 DEF Balanced
  <2>3. (BookInit /\ trades = <<>> /\ accepted = 0 /\ reported = 0 /\ pc = "idle"
             => Balanced)'
    BY EmptyBalance, PTL
  <2> QED BY <2>1, <2>2, <2>3
<1>7. CASE MainNext
  BY <1>2, <1>3, <1>4, <1>5, <1>6, <1>7
     DEF MainNext, RefuseLine, RefuseNonPositive, RefuseExhausted
<1> QED BY <1>2, <1>7 DEF mainVars

(* What the process prints adds up at every step, whatever the commands and   *)
(* however often the 64-bit counters wrap: the volumes of the levels, with    *)
(* what the order in the engine has left, are what was accepted less twice    *)
(* what has traded.                                                           *)
THEOREM BookBalances == MainSpec => []BookBalance
<1>1. BalanceInv => BookBalance
  <2> SUFFICES ASSUME MainInv, Balanced
               PROVE  (ListedVolume + InHand + 2 * TradedNow) % QtyMod
                          = (accepted - 2 * reported) % QtyMod
    BY DEF BalanceInv, BookBalance
  <2>1. PICK l \in Nat, h \in Nat, t \in Nat, r \in Nat, a \in Nat :
            /\ l = ListedVolume /\ h = InHand /\ t = Traded /\ r = reported /\ a = accepted
            /\ Accounted(l, h, t, r, a)
    BY Quantities DEF Balanced
  <2>2. TradedNow = t
    BY <2>1, TradedIsFold DEF MainInv
  <2>3. PICK x \in Int, y \in Int : x = l + h + 2 * t /\ y = a - 2 * r
    OBVIOUS
  <2>4. x - y = l + h + 2 * t + 2 * r - a
    BY <2>3
  <2>5. x % QtyMod = y % QtyMod
    BY <2>1, <2>4, WrapFacts DEF Accounted
  <2> QED BY <2>1, <2>2, <2>3, <2>5
<1> QED BY <1>1, BalanceInit, BalanceStep, PTL DEF MainSpec

(* Every variable of the process keeps its type, for any pool and inputs.     *)
THEOREM MainTypes == MainSpec => []MainTypeOK
<1> DEFINE Replies == {"none", "pending", "order", "clear", "ERR format", "ERR unknown",
                       "ERR positive", "ERR exhausted"}
<1>1. MainInit => reply \in Replies
  BY DEF MainInit
<1>2. reply \in Replies /\ [MainNext]_mainVars => (reply \in Replies)'
  <2> SUFFICES ASSUME reply \in Replies, [MainNext]_mainVars PROVE reply' \in Replies
    OBVIOUS
  <2>1. \A e \in {"ERR format", "ERR unknown"} : RefuseLine(e) => reply' \in Replies
    BY DEF RefuseLine
  <2>2. \A m \in PriceInput, q \in QtyInput :
            RefuseNonPositive(m, q) \/ RefuseExhausted(m, q) => reply' \in Replies
    BY DEF RefuseNonPositive, RefuseExhausted
  <2>3. \A s \in Side, m \in PriceInput, q \in QtyInput : Accept(s, m, q) => reply' \in Replies
    BY DEF Accept
  <2>4. Process \/ Answer \/ Clear \/ UNCHANGED mainVars => reply' \in Replies
    BY DEF Process, Answer, Clear, mainVars
  <2> HIDE DEF Replies
  <2> QED BY <2>1, <2>2, <2>3, <2>4 DEF MainNext
<1>3. BalanceInv /\ reply \in Replies => MainTypeOK
  <2> SUFFICES ASSUME BalanceInv, reply \in Replies PROVE MainTypeOK
    OBVIOUS
  <2>1. PICK h \in 1 .. PoolCapacity + 1 : FreeFrom(h)
    BY DEF BalanceInv, MainInv, PoolInv
  <2>2. Pool!PoolTypeOK
    BY <2>1, PoolFacts
  <2> QED BY <2>2 DEF BalanceInv, Balanced, MainInv, MainTypeOK
<1> QED BY <1>1, <1>2, <1>3, BalanceInit, BalanceStep, PTL DEF MainSpec
=============================================================================
