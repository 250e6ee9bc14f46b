----------------------- MODULE MatchingEngineProofs -----------------------
(* Theorems about MatchingEngine and the OrderBook it drives, for every set   *)
(* of nodes and prices, every bound on the number of orders and every width   *)
(* of the quantities: first types, crossing and levels, then the lists.       *)
EXTENDS MatchingEngine, FiniteSetTheorems, TLAPS

(* The uint64_t operators stay in range.                                      *)
LEMMA QuantityArithmetic ==
    ASSUME NEW a \in Quantity, NEW b \in Quantity
    PROVE  Plus(a, b) \in Quantity /\ Minus(a, b) \in Quantity
BY QtyModAssumption DEF Plus, Minus, Quantity

LEMMA NoLevelIsPrice == NoLevel \in Price
BY PriceAssumption DEF NoLevel

(* Unlinking and erasing keep the lists and the levels well typed.            *)
LEMMA UnlinkType ==
    ASSUME BookTypeOK, NEW n \in Node, Unlink(n)
    PROVE  /\ prev' \in [Node -> Node \cup {Null}]
           /\ next' \in [Node -> Node \cup {Null}]
BY DEF BookTypeOK, Unlink

LEMMA NewLevelType == NewLevel \in PriceLevel
BY QtyModAssumption DEF NewLevel, PriceLevel, Quantity

LEMMA UnlinkedLevelType ==
    ASSUME BookTypeOK, NEW lv \in PriceLevel, NEW n \in Node
    PROVE  UnlinkedLevel(lv, n) \in PriceLevel
BY DEF BookTypeOK, UnlinkedLevel, PriceLevel

LEMMA PushedLevelType ==
    ASSUME NEW lv \in PriceLevel, NEW n \in Node
    PROVE  PushedLevel(lv, n) \in PriceLevel
BY DEF PushedLevel, PriceLevel

LEMMA AddVolumeType ==
    ASSUME NEW lv \in PriceLevel, NEW q \in Quantity
    PROVE  AddVolume(lv, q) \in PriceLevel /\ SubVolume(lv, q) \in PriceLevel
BY QuantityArithmetic DEF PriceLevel, AddVolume, SubVolume

LEMMA SetLevelType ==
    ASSUME NEW L \in [Side -> [Price -> PriceLevel]],
           NEW s \in Side, NEW p \in Price, NEW lv \in PriceLevel
    PROVE  SetLevel(L, s, p, lv) \in [Side -> [Price -> PriceLevel]]
BY DEF SetLevel

LEMMA CheckType ==
    ASSUME NEW K \in [Side -> SUBSET Price],
           NEW L \in [Side -> [Price -> PriceLevel]],
           NEW s \in Side, NEW p \in Price
    PROVE  /\ KeysAfterCheck(K, L, s, p) \in [Side -> SUBSET Price]
           /\ LevelAfterCheck(L, s, p) \in [Side -> [Price -> PriceLevel]]
BY NewLevelType, SetLevelType DEF KeysAfterCheck, LevelAfterCheck

(* Each operation of the book keeps the book well typed.                      *)
LEMMA InsertType ==
    ASSUME BookTypeOK, NEW n \in Node, InsertOrder(n)
    PROVE  BookTypeOK'
<1> DEFINE s  == order[n].side
           p  == order[n].price
           lv == level[s][p]
<1>1. s \in Side /\ p \in Price /\ lv \in PriceLevel /\ qty[n] \in Quantity
  BY DEF BookTypeOK
<1>2. prev' \in [Node -> Node \cup {Null}] /\ next' \in [Node -> Node \cup {Null}]
  BY <1>1 DEF BookTypeOK, InsertOrder, PushBack, PriceLevel
<1>3. AddVolume(PushedLevel(lv, n), qty[n]) \in PriceLevel
  BY <1>1, PushedLevelType, AddVolumeType
<1>4. level' \in [Side -> [Price -> PriceLevel]]
  <2>1. level' = SetLevel(level, s, p, AddVolume(PushedLevel(lv, n), qty[n]))
    BY DEF InsertOrder
  <2> HIDE DEF s, p, lv
  <2> QED BY <2>1, <1>1, <1>3, SetLevelType DEF BookTypeOK
<1>5. keys' \in [Side -> SUBSET Price]
  BY <1>1 DEF BookTypeOK, InsertOrder
<1> QED
  BY <1>2, <1>4, <1>5 DEF BookTypeOK, InsertOrder

LEMMA CancelType ==
    ASSUME BookTypeOK, NEW n \in Node, CancelOrder(n)
    PROVE  BookTypeOK'
<1> DEFINE s == order[n].side
           p == order[n].price
           L == SetLevel(level, s, p,
                         SubVolume(UnlinkedLevel(level[s][p], n), qty[n]))
<1>1. s \in Side /\ p \in Price /\ level[s][p] \in PriceLevel /\ qty[n] \in Quantity
  BY DEF BookTypeOK
<1>2. SubVolume(UnlinkedLevel(level[s][p], n), qty[n]) \in PriceLevel
  BY <1>1, UnlinkedLevelType, AddVolumeType
<1>3. L \in [Side -> [Price -> PriceLevel]]
  <2> HIDE DEF s, p
  <2> QED BY <1>1, <1>2, SetLevelType DEF BookTypeOK
<1>4. CASE p \in keys[s]
  <2>1. Unlink(n) /\ keys' = KeysAfterCheck(keys, L, s, p)
                  /\ level' = LevelAfterCheck(L, s, p) /\ UNCHANGED <<order, qty>>
    BY <1>4 DEF CancelOrder
  <2>2. keys' \in [Side -> SUBSET Price] /\ level' \in [Side -> [Price -> PriceLevel]]
    <3> HIDE DEF s, p, L
    <3> QED BY <2>1, <1>1, <1>3, CheckType DEF BookTypeOK
  <2> QED
    BY <2>1, <2>2, UnlinkType DEF BookTypeOK
<1>5. CASE p \notin keys[s]
  BY <1>5 DEF CancelOrder, bookVars, BookTypeOK
<1> QED
  BY <1>4, <1>5

LEMMA ReduceType ==
    ASSUME BookTypeOK, NEW n \in Node, NEW q \in Quantity, ReduceOrder(n, q)
    PROVE  BookTypeOK'
<1> DEFINE s == order[n].side
           p == order[n].price
<1>1. s \in Side /\ p \in Price /\ level[s][p] \in PriceLevel /\ qty[n] \in Quantity
  BY DEF BookTypeOK
<1>2. CASE q < qty[n]
  <2>1. qty[n] - q \in Quantity
    BY <1>1, <1>2, QtyModAssumption DEF Quantity
  <2>2. SubVolume(level[s][p], qty[n] - q) \in PriceLevel
    BY <1>1, <2>1, AddVolumeType
  <2>3. SetLevel(level, s, p, SubVolume(level[s][p], qty[n] - q))
            \in [Side -> [Price -> PriceLevel]]
    BY <1>1, <2>2, SetLevelType DEF BookTypeOK
  <2>4. level' \in [Side -> [Price -> PriceLevel]]
    BY <1>2, <2>3 DEF BookTypeOK, ReduceOrder
  <2> QED
    BY <1>2, <2>1, <2>4 DEF BookTypeOK, ReduceOrder
<1>3. CASE ~(q < qty[n])
  BY <1>3 DEF ReduceOrder, bookVars, BookTypeOK
<1> QED
  BY <1>2, <1>3

LEMMA SidesType ==
    ASSUME TypeOK, pc # "idle"
    PROVE  incoming \in Node /\ taker_side \in Side /\ maker_side \in Side
BY DEF TypeOK, BookTypeOK, taker_side, maker_side, Side, Opposite

LEMMA InitType == Init => TypeOK
<1> SUFFICES ASSUME Init PROVE TypeOK
  OBVIOUS
<1>1. BookTypeOK
  BY PriceAssumption, QtyModAssumption, NewLevelType
     DEF Init, BookInit, BookTypeOK, Side, Quantity, OrderId
<1>2. submitted \in 0 .. MaxOrders
  BY MaxOrdersAssumption DEF Init
<1> QED
  BY <1>1, <1>2, NoLevelIsPrice DEF Init, TypeOK

LEMMA SubmitType ==
    ASSUME TypeOK, NEW n \in Node, NEW s \in Side, NEW p \in Price, NEW q \in Quantity,
           Submit(n, s, p, q)
    PROVE  TypeOK'
<1>1. submitted + 1 \in OrderId /\ submitted' \in 0 .. MaxOrders
  BY MaxOrdersAssumption DEF TypeOK, Submit, OrderId
<1>2. BookTypeOK'
  BY <1>1 DEF TypeOK, BookTypeOK, Submit
<1> QED
  BY <1>1, <1>2 DEF TypeOK, Submit

LEMMA TakeBestLevelType == ASSUME TypeOK, TakeBestLevel PROVE TypeOK'
<1>1. incoming \in Node /\ maker_side \in Side
  BY SidesType DEF TakeBestLevel
<1>2. PICK p \in Price : best' = p /\ resting_order' = level[maker_side][p].head
  BY DEF TakeBestLevel
<1>3. level[maker_side][p] \in PriceLevel
  BY <1>1 DEF TypeOK, BookTypeOK
<1>4. resting_order' \in Node \cup {Null}
  BY <1>2, <1>3 DEF PriceLevel
<1> QED
  BY <1>2, <1>4 DEF TypeOK, BookTypeOK, TakeBestLevel, bookVars

LEMMA StopMatchingType == ASSUME TypeOK, StopMatching PROVE TypeOK'
BY NoLevelIsPrice DEF TypeOK, BookTypeOK, StopMatching, bookVars

LEMMA MatchOneType == ASSUME TypeOK, MatchOne PROVE TypeOK'
<1> DEFINE r  == resting_order
           t  == IF qty[incoming] < qty[r] THEN qty[incoming] ELSE qty[r]
           lv == SubVolume(level[maker_side][best], t)
<1>1. r \in Node /\ incoming \in Node /\ maker_side \in Side /\ best \in Price
  BY SidesType DEF MatchOne, TypeOK
<1>2. /\ t \in Quantity
      /\ qty[incoming] \in Quantity /\ qty[r] \in Quantity
      /\ qty[incoming] - t \in Quantity /\ qty[r] - t \in Quantity
      /\ t - t \in Quantity
  BY <1>1, QtyModAssumption DEF TypeOK, BookTypeOK, Quantity
<1>3. qty' \in [Node -> Quantity]
  <2>1. qty' = [qty EXCEPT ![incoming] = @ - t, ![r] = @ - t]
    BY DEF MatchOne
  <2>2. CASE incoming # r
    BY <1>1, <1>2, <2>1, <2>2 DEF TypeOK, BookTypeOK
  <2>3. CASE incoming = r
    <3>1. t = qty[r]
      BY <1>2, <2>3 DEF Quantity
    <3> QED
      BY <1>1, <1>2, <2>1, <2>3, <3>1 DEF TypeOK, BookTypeOK
  <2> QED
    BY <2>2, <2>3
<1>4. lv \in PriceLevel /\ UnlinkedLevel(lv, r) \in PriceLevel
  BY <1>1, <1>2, AddVolumeType, UnlinkedLevelType DEF TypeOK, BookTypeOK
<1>5. level' \in [Side -> [Price -> PriceLevel]]
  <2>1. \/ level' = SetLevel(level, maker_side, best, UnlinkedLevel(lv, r))
        \/ level' = SetLevel(level, maker_side, best, lv)
    BY DEF MatchOne
  <2>2. level \in [Side -> [Price -> PriceLevel]]
    BY DEF TypeOK, BookTypeOK
  <2> HIDE DEF lv, r, t
  <2> QED
    BY <2>1, <2>2, <1>1, <1>4, SetLevelType
<1>6. prev' \in [Node -> Node \cup {Null}] /\ next' \in [Node -> Node \cup {Null}]
  BY <1>1, UnlinkType DEF TypeOK, BookTypeOK, MatchOne
<1>7. resting_order' \in Node \cup {Null}
  BY <1>1 DEF TypeOK, BookTypeOK, MatchOne
<1>8. trades' \in Seq(Trade)
  <2>1. [maker |-> order[r].id, taker |-> order[incoming].id,
                               price |-> best, qty |-> t] \in Trade
    BY <1>1, <1>2 DEF Trade, TypeOK, BookTypeOK
  <2>2. trades \in Seq(Trade)
    BY DEF TypeOK
  <2>3. trades' = Append(trades, [maker |-> order[r].id, taker |-> order[incoming].id,
                               price |-> best, qty |-> t])
    BY DEF MatchOne
  <2> QED
    BY <2>1, <2>2, <2>3
<1> QED
  BY <1>3, <1>5, <1>6, <1>7, <1>8 DEF TypeOK, BookTypeOK, MatchOne

LEMMA LeaveLevelType == ASSUME TypeOK, LeaveLevel PROVE TypeOK'
<1>1. maker_side \in Side /\ best \in Price
  BY SidesType DEF LeaveLevel, TypeOK
<1>2. keys' \in [Side -> SUBSET Price] /\ level' \in [Side -> [Price -> PriceLevel]]
  BY <1>1, CheckType DEF LeaveLevel, TypeOK, BookTypeOK
<1> QED
  BY <1>2 DEF TypeOK, BookTypeOK, LeaveLevel

LEMMA RestAndReturnType == ASSUME TypeOK, RestAndReturn PROVE TypeOK'
<1>1. incoming \in Node
  BY SidesType DEF RestAndReturn
<1>2. BookTypeOK'
  BY <1>1, InsertType DEF RestAndReturn, TypeOK, BookTypeOK, bookVars
<1>3. trades' \in Seq(Trade)
  BY DEF RestAndReturn
<1> QED
  BY <1>2, <1>3 DEF TypeOK, RestAndReturn

LEMMA CancelStepType == ASSUME TypeOK, NEW n \in Node, Cancel(n) PROVE TypeOK'
BY CancelType DEF TypeOK, Cancel, engineVars

LEMMA ReduceStepType ==
    ASSUME TypeOK, NEW n \in Node, NEW q \in Quantity, Reduce(n, q) PROVE TypeOK'
BY ReduceType DEF TypeOK, Reduce, engineVars

LEMMA NextType == TypeOK /\ [Next]_vars => TypeOK'
<1> SUFFICES ASSUME TypeOK, [Next]_vars PROVE TypeOK'
  OBVIOUS
<1>1. ASSUME NEW n \in Node, NEW s \in Side, NEW p \in Price, NEW q \in OrderQty,
           Submit(n, s, p, q)
      PROVE  TypeOK'
  BY <1>1, SubmitType, OrderQtyAssumption
<1>2. CASE Match
  BY <1>2, TakeBestLevelType, StopMatchingType, MatchOneType, LeaveLevelType,
     RestAndReturnType DEF Match
<1>3. ASSUME NEW n \in Node, Cancel(n) PROVE TypeOK'
  BY <1>3, CancelStepType
<1>4. ASSUME NEW n \in Node, NEW q \in Quantity, Reduce(n, q) PROVE TypeOK'
  BY <1>4, ReduceStepType
<1>5. CASE UNCHANGED vars
  BY <1>5 DEF vars, bookVars, engineVars, TypeOK, BookTypeOK
<1> QED
  BY <1>1, <1>2, <1>3, <1>4, <1>5 DEF Next

(* Every pointer, quantity, level and cursor of the engine stays in range,    *)
(* in whatever order submissions, cancels and reductions are made.            *)
THEOREM TypeCorrect == Spec => []TypeOK
BY InitType, NextType, PTL DEF Spec

(* What makes NoCrossedBook inductive: the loop stops with quantity left only *)
(* when no level of the other side crosses the limit it is about to insert.   *)
RestsUncrossed ==
    pc = "rest" /\ qty[incoming] > 0 => \A p \in keys[maker_side] : ~Crosses(p)
UncrossedInv == TypeOK /\ NoCrossedBook /\ RestsUncrossed

(* Erasing levels cannot cross the book.                                      *)
LEMMA FewerLevels ==
    ASSUME NoCrossedBook, \A s \in Side : keys'[s] \subseteq keys[s]
    PROVE  NoCrossedBook'
BY DEF NoCrossedBook, Side

LEMMA CheckErases ==
    ASSUME NEW K \in [Side -> SUBSET Price], NEW L, NEW s \in Side, NEW p \in Price
    PROVE  \A z \in Side : KeysAfterCheck(K, L, s, p)[z] \subseteq K[z]
BY DEF KeysAfterCheck

LEMMA StopUncrossed ==
    ASSUME UncrossedInv, StopMatching
    PROVE  RestsUncrossed'
<1> SUFFICES ASSUME qty[incoming] > 0, NEW q \in keys[maker_side]
             PROVE  ~Crosses(q)
  BY DEF RestsUncrossed, StopMatching, bookVars, maker_side, taker_side, Crosses
<1>1. incoming \in Node /\ taker_side \in Side /\ maker_side \in Side
  BY SidesType DEF UncrossedInv, StopMatching
<1>2. qty[incoming] # 0
  BY <1>1 DEF UncrossedInv, TypeOK, BookTypeOK, Quantity
<1>3. PICK p \in Price : IsBest(maker_side, p) /\ ~Crosses(p)
  BY <1>2 DEF StopMatching
<1>4. /\ ~Better(maker_side, q, p)
      /\ q \in Nat /\ p \in Nat /\ order[incoming].price \in Nat
  BY <1>1, <1>3, PriceAssumption DEF IsBest, UncrossedInv, TypeOK, BookTypeOK
<1>5. taker_side = "Buy" \/ taker_side = "Sell"
  BY <1>1 DEF Side
<1> QED
  BY <1>3, <1>4, <1>5 DEF Better, Crosses, maker_side, Opposite

LEMMA RestUncrossed ==
    ASSUME UncrossedInv, RestAndReturn
    PROVE  NoCrossedBook'
<1>1. incoming \in Node /\ taker_side \in Side /\ maker_side \in Side
  BY SidesType DEF UncrossedInv, RestAndReturn
<1>2. CASE qty[incoming] > 0
  <2>1. InsertOrder(incoming) /\ \A p \in keys[maker_side] : ~Crosses(p)
    BY <1>2 DEF RestAndReturn, UncrossedInv, RestsUncrossed
  <2>2. keys' = [keys EXCEPT ![taker_side] = @ \cup {order[incoming].price}]
    BY <2>1 DEF InsertOrder, taker_side
  <2>3. /\ keys \in [Side -> SUBSET Price]
        /\ order[incoming].price \in Price
    BY <1>1 DEF UncrossedInv, TypeOK, BookTypeOK
  <2>4. SUFFICES ASSUME NEW b \in keys'["Buy"], NEW a \in keys'["Sell"]
                 PROVE  b < a
    BY DEF NoCrossedBook
  <2>5. /\ a \in Nat /\ b \in Nat /\ order[incoming].price \in Nat
    BY <1>1, <2>2, <2>3, PriceAssumption DEF Side
  <2>6. CASE taker_side = "Buy"
    <3>1. keys'["Buy"] = keys["Buy"] \cup {order[incoming].price}
          /\ keys'["Sell"] = keys["Sell"] /\ maker_side = "Sell"
      BY <2>2, <2>3, <2>6 DEF Side, maker_side, Opposite
    <3> QED
      BY <2>1, <2>5, <2>6, <3>1 DEF UncrossedInv, NoCrossedBook, Crosses
  <2>7. CASE taker_side = "Sell"
    <3>1. keys'["Sell"] = keys["Sell"] \cup {order[incoming].price}
          /\ keys'["Buy"] = keys["Buy"] /\ maker_side = "Buy"
      BY <2>2, <2>3, <2>7 DEF Side, maker_side, Opposite
    <3> QED
      BY <2>1, <2>5, <2>7, <3>1 DEF UncrossedInv, NoCrossedBook, Crosses
  <2> QED
    BY <1>1, <2>6, <2>7 DEF Side
<1>3. CASE ~(qty[incoming] > 0)
  BY <1>3 DEF RestAndReturn, bookVars, UncrossedInv, NoCrossedBook
<1> QED
  BY <1>2, <1>3

LEMMA NextUncrossed == UncrossedInv /\ [Next]_vars => UncrossedInv'
<1> SUFFICES ASSUME UncrossedInv, [Next]_vars PROVE UncrossedInv'
  OBVIOUS
<1>1. TypeOK'
  BY NextType DEF UncrossedInv
<1> SUFFICES NoCrossedBook' /\ RestsUncrossed'
  BY <1>1 DEF UncrossedInv
<1>2. ASSUME NEW n \in Node, NEW s \in Side, NEW p \in Price, NEW q \in OrderQty,
           Submit(n, s, p, q)
      PROVE  NoCrossedBook' /\ RestsUncrossed'
  BY <1>2 DEF Submit, UncrossedInv, NoCrossedBook, RestsUncrossed
<1>3. CASE TakeBestLevel
  BY <1>3 DEF TakeBestLevel, bookVars, UncrossedInv, NoCrossedBook, RestsUncrossed
<1>4. CASE StopMatching
  <2>1. NoCrossedBook'
    BY <1>4 DEF StopMatching, bookVars, UncrossedInv, NoCrossedBook
  <2> QED
    BY <1>4, <2>1, StopUncrossed
<1>5. CASE MatchOne
  BY <1>5 DEF MatchOne, UncrossedInv, NoCrossedBook, RestsUncrossed
<1>6. CASE LeaveLevel
  <2>1. \A z \in Side : keys'[z] \subseteq keys[z]
    BY <1>6, SidesType, CheckErases DEF LeaveLevel, UncrossedInv, TypeOK, BookTypeOK
  <2>2. NoCrossedBook'
    BY <2>1, FewerLevels DEF UncrossedInv
  <2> QED
    BY <1>6, <2>2 DEF LeaveLevel, RestsUncrossed
<1>7. CASE RestAndReturn
  BY <1>7, RestUncrossed DEF RestAndReturn, RestsUncrossed
<1>8. ASSUME NEW n \in Node, Cancel(n) PROVE NoCrossedBook' /\ RestsUncrossed'
  <2>1. \A z \in Side : keys'[z] \subseteq keys[z]
    BY <1>8, CheckErases DEF Cancel, CancelOrder, bookVars, UncrossedInv, TypeOK, BookTypeOK
  <2>2. NoCrossedBook'
    BY <2>1, FewerLevels DEF UncrossedInv
  <2> QED
    BY <1>8, <2>2 DEF Cancel, engineVars, RestsUncrossed
<1>9. ASSUME NEW n \in Node, NEW q \in Quantity, Reduce(n, q)
      PROVE  NoCrossedBook' /\ RestsUncrossed'
  BY <1>9 DEF Reduce, ReduceOrder, bookVars, engineVars, UncrossedInv,
              NoCrossedBook, RestsUncrossed
<1>10. CASE UNCHANGED vars
  BY <1>10 DEF vars, bookVars, engineVars, UncrossedInv, NoCrossedBook,
               RestsUncrossed, maker_side, taker_side, Crosses
<1> QED
  BY <1>2, <1>3, <1>4, <1>5, <1>6, <1>7, <1>8, <1>9, <1>10 DEF Next, Match

(* The bids stay below the asks at every step, for any number of orders,      *)
(* prices and quantities: what the matching loop leaves of an order never     *)
(* rests at a price the other side already meets.                             *)
THEOREM NeverCrossed == Spec => []NoCrossedBook
<1>1. Init => UncrossedInv
  BY InitType DEF Init, BookInit, UncrossedInv, NoCrossedBook, RestsUncrossed, Side
<1>2. UncrossedInv => NoCrossedBook
  BY DEF UncrossedInv
<1> QED
  BY <1>1, <1>2, NextUncrossed, PTL DEF Spec

(* Whatever is pushed, the list is not empty afterwards.                      *)
LEMMA PushedHead ==
    ASSUME NEW lv \in PriceLevel, NEW n \in Node, NEW q \in Quantity
    PROVE  AddVolume(PushedLevel(lv, n), q).head # Null
BY QuantityArithmetic, NullAssumption DEF AddVolume, PushedLevel, PriceLevel

(* After check_remove_level every level left in the map of L whose list was   *)
(* not checked is as it was, and the checked one, if still there, has a head. *)
LEMMA CheckedLevels ==
    ASSUME NEW K \in [Side -> SUBSET Price],
           NEW L \in [Side -> [Price -> PriceLevel]],
           NEW s \in Side, NEW p \in Price,
           \A z \in Side : \A q \in K[z] : z # s \/ q # p => L[z][q].head # Null
    PROVE  \A z \in Side : \A q \in KeysAfterCheck(K, L, s, p)[z] :
               LevelAfterCheck(L, s, p)[z][q].head # Null
<1> SUFFICES ASSUME NEW z \in Side, NEW q \in KeysAfterCheck(K, L, s, p)[z]
             PROVE  LevelAfterCheck(L, s, p)[z][q].head # Null
  OBVIOUS
<1>1. CASE L[s][p].head = Null
  <2>1. q \in K[z] /\ (z = s => q # p)
    BY <1>1 DEF KeysAfterCheck
  <2>2. LevelAfterCheck(L, s, p)[z][q] = L[z][q]
    BY <1>1, <2>1 DEF LevelAfterCheck, SetLevel
  <2> QED
    BY <2>1, <2>2
<1>2. CASE L[s][p].head # Null
  BY <1>2, CheckErases DEF LevelAfterCheck
<1> QED
  BY <1>1, <1>2

LEMMA NextNoEmptyLevel == TypeOK /\ NoEmptyLevel /\ [Next]_vars => NoEmptyLevel'
<1> SUFFICES ASSUME TypeOK, NoEmptyLevel, [Next]_vars PROVE NoEmptyLevel'
  OBVIOUS
<1> USE DEF NoEmptyLevel
<1>t. /\ keys \in [Side -> SUBSET Price]
      /\ level \in [Side -> [Price -> PriceLevel]]
  BY DEF TypeOK, BookTypeOK
<1>1. ASSUME NEW n \in Node, NEW s \in Side, NEW p \in Price, NEW q \in OrderQty,
           Submit(n, s, p, q)
      PROVE  NoEmptyLevel'
  BY <1>1 DEF Submit
<1>2. CASE TakeBestLevel
  BY <1>2 DEF TakeBestLevel, bookVars
<1>3. CASE StopMatching
  BY <1>3 DEF StopMatching, bookVars
<1>4. CASE MatchOne
  <2>1. maker_side \in Side /\ best \in Price /\ pc = "inner"
        /\ maker_side' = maker_side /\ best' = best /\ pc' = "inner" /\ keys' = keys
    BY <1>4, SidesType DEF MatchOne, TypeOK, maker_side, taker_side
  <2>2. \A z \in Side, q \in Price : z # maker_side \/ q # best => level'[z][q] = level[z][q]
    <3>1. \E lv : level' = SetLevel(level, maker_side, best, lv)
      BY <1>4 DEF MatchOne
    <3> QED
      BY <3>1, <2>1, <1>t DEF SetLevel
  <2> QED
    BY <2>1, <2>2, <1>t
<1>5. CASE LeaveLevel
  <2>1. /\ maker_side \in Side /\ best \in Price /\ pc = "inner" /\ pc' # "inner"
        /\ keys' = KeysAfterCheck(keys, level, maker_side, best)
        /\ level' = LevelAfterCheck(level, maker_side, best)
    BY <1>5, SidesType DEF LeaveLevel, TypeOK
  <2>2. \A z \in Side : \A q \in keys[z] :
            z # maker_side \/ q # best => level[z][q].head # Null
    BY <2>1
  <2> QED
    BY <2>1, <2>2, <1>t, CheckedLevels
<1>6. CASE RestAndReturn
  <2>1. incoming \in Node /\ pc # "inner" /\ pc' # "inner"
    BY <1>6, SidesType DEF RestAndReturn
  <2>2. CASE InsertOrder(incoming)
    <3> DEFINE s  == order[incoming].side
               p  == order[incoming].price
               lv == AddVolume(PushedLevel(level[s][p], incoming), qty[incoming])
    <3>1. s \in Side /\ p \in Price /\ lv.head # Null
      BY <2>1, <1>t, PushedHead DEF TypeOK, BookTypeOK
    <3>2. level' = SetLevel(level, s, p, lv) /\ keys' = [keys EXCEPT ![s] = @ \cup {p}]
      BY <2>2 DEF InsertOrder
    <3> HIDE DEF s, p, lv
    <3> QED
      BY <3>1, <3>2, <2>1, <1>t DEF SetLevel
  <2>3. CASE UNCHANGED bookVars
    BY <2>1, <2>3 DEF bookVars
  <2> QED
    BY <1>6, <2>2, <2>3 DEF RestAndReturn
<1>7. ASSUME NEW n \in Node, Cancel(n) PROVE NoEmptyLevel'
  <2> DEFINE s  == order[n].side
             p  == order[n].price
             lv == SubVolume(UnlinkedLevel(level[s][p], n), qty[n])
             L  == SetLevel(level, s, p, lv)
  <2>1. s \in Side /\ p \in Price /\ level[s][p] \in PriceLevel /\ qty[n] \in Quantity
    BY <1>t DEF TypeOK, BookTypeOK
  <2>2. lv \in PriceLevel
    BY <2>1, AddVolumeType, UnlinkedLevelType DEF TypeOK
  <2>3. L \in [Side -> [Price -> PriceLevel]]
    BY <2>1, <2>2, <1>t, SetLevelType
  <2>4. pc # "inner" /\ pc' # "inner"
    BY <1>7 DEF Cancel, engineVars
  <2>5. CASE p \in keys[s]
    <3>1. keys' = KeysAfterCheck(keys, L, s, p) /\ level' = LevelAfterCheck(L, s, p)
      BY <1>7, <2>5 DEF Cancel, CancelOrder
    <3>2. \A z \in Side : \A q \in keys[z] : z # s \/ q # p => L[z][q].head # Null
      BY <1>t, <2>1, <2>4 DEF SetLevel
    <3> HIDE DEF s, p, lv, L
    <3>3. \A z \in Side : \A q \in keys'[z] : level'[z][q].head # Null
      <4> HIDE DEF NoEmptyLevel
      <4> QED BY <2>1, <2>3, <3>1, <3>2, <1>t, CheckedLevels
    <3> QED
      BY <3>3
  <2>6. CASE p \notin keys[s]
    BY <1>7, <2>4, <2>6 DEF Cancel, CancelOrder, bookVars
  <2> QED
    BY <2>5, <2>6
<1>8. ASSUME NEW n \in Node, NEW q \in Quantity, Reduce(n, q) PROVE NoEmptyLevel'
  <2> DEFINE s == order[n].side
             p == order[n].price
  <2>1. s \in Side /\ p \in Price /\ level[s][p] \in PriceLevel
    BY <1>t DEF TypeOK, BookTypeOK
  <2>2. pc # "inner" /\ pc' # "inner" /\ keys' = keys
    BY <1>8 DEF Reduce, ReduceOrder, engineVars, bookVars
  <2>3. \/ level' = level
        \/ level' = SetLevel(level, s, p, SubVolume(level[s][p], qty[n] - q))
    BY <1>8 DEF Reduce, ReduceOrder, bookVars
  <2>4. SubVolume(level[s][p], qty[n] - q).head = level[s][p].head
    BY <2>1 DEF SubVolume, PriceLevel
  <2> HIDE DEF s, p
  <2> QED
    BY <2>1, <2>2, <2>3, <2>4, <1>t DEF SetLevel
<1>9. CASE UNCHANGED vars
  BY <1>9 DEF vars, bookVars, engineVars, maker_side, taker_side
<1> QED
  BY <1>1, <1>2, <1>3, <1>4, <1>5, <1>6, <1>7, <1>8, <1>9 DEF Next, Match

(* Every level in the maps has an order in its list, except the one the       *)
(* matching loop is consuming: the cancel and match paths never leave an      *)
(* empty level behind, so the best price is always somebody's.                *)
THEOREM LevelsHaveOrders == Spec => []NoEmptyLevel
<1>1. Init => NoEmptyLevel
  BY DEF Init, BookInit, NoEmptyLevel
<1> QED
  BY <1>1, InitType, NextType, NextNoEmptyLevel, PTL DEF Spec

(* -------------------------- The intrusive lists -------------------------- *)

(* Induction over the natural numbers, for a set.                             *)
LEMMA SetInduction ==
    ASSUME NEW S, 0 \in S, \A n \in Nat : n \in S => n + 1 \in S
    PROVE  Nat \subseteq S
<1> DEFINE T == Nat \ S
<1>1. SUFFICES ASSUME T # {} PROVE FALSE
  OBVIOUS
<1>2. PICK x \in T : \A y \in T : <<y, x>> \notin OpToRel(<, Nat)
  BY <1>1, WFMin, NatLessThanWellFounded, Zenon
<1>3. \A y \in T : ~(y < x)
  BY <1>2, Zenon DEF OpToRel
<1>4. x # 0 /\ x - 1 \in Nat /\ x - 1 < x /\ (x - 1) + 1 = x
  OBVIOUS
<1>5. x - 1 \in S
  BY <1>3, <1>4
<1> QED BY <1>4, <1>5

(* The k-th item of a list, and a list without its i-th item.                 *)
At(l, k) == IF k \in 1 .. Len(l) THEN l[k] ELSE Null
Without(l, i) == [k \in 1 .. Len(l) - 1 |-> IF k < i THEN l[k] ELSE l[k + 1]]

(* What the pointers stand for: a sequence of nodes for every side and price. *)
(* Heads and tails of the levels, prev and next of the nodes agree with it,   *)
(* and a node that is in none of the sequences has null pointers.             *)
Queues == [Side -> [Price -> Seq(Node)]]
Placed(l, s, p) ==
    \A k \in 1 .. Len(l) :
        /\ order[l[k]].side = s /\ order[l[k]].price = p
        /\ prev[l[k]] = At(l, k - 1) /\ next[l[k]] = At(l, k + 1)
Distinct(l) == \A j, k \in 1 .. Len(l) : l[j] = l[k] => j = k
Queued(Q, n) == \E s \in Side, p \in Price : \E k \in 1 .. Len(Q[s][p]) : n = Q[s][p][k]
Linked(Q) ==
    /\ Q \in Queues
    /\ \A s \in Side, p \in Price :
        /\ level[s][p].head = At(Q[s][p], 1)
        /\ level[s][p].tail = At(Q[s][p], Len(Q[s][p]))
        /\ Placed(Q[s][p], s, p)
        /\ Distinct(Q[s][p])
        /\ p \notin keys[s] => Q[s][p] = <<>>
    /\ \A n \in Node : Queued(Q, n) \/ (prev[n] = Null /\ next[n] = Null)

(* A list of different nodes is not longer than there are nodes.              *)
LEMMA ListLength ==
    ASSUME NEW l \in Seq(Node), Distinct(l)
    PROVE  Cardinality(Node) \in Nat /\ Len(l) <= Cardinality(Node)
<1>1. l \in Injection(1 .. Len(l), Node)
  BY DEF Injection, IsInjective, Distinct
<1>2. Cardinality(Node) \in Nat
  BY NodeAssumption, FS_CardinalityType
<1>3. Cardinality(1 .. Len(l)) <= Cardinality(Node)
  BY <1>1, NodeAssumption, FS_Injection
<1>4. Cardinality(1 .. Len(l)) = Len(l)
  <2>1. Len(l) \in Nat
    OBVIOUS
  <2> DEFINE n == Len(l)
  <2> HIDE DEF n
  <2>2. n \in Nat
    BY <2>1 DEF n
  <2>3. 1 \in Int /\ n \in Int
    BY <2>2
  <2>4. Cardinality(1 .. n) = IF 1 > n THEN 0 ELSE n - 1 + 1
    BY <2>3, FS_Interval, Zenon
  <2> QED BY <2>2, <2>4 DEF n
<1> QED BY <1>2, <1>3, <1>4

(* Following next from the head of a level reads the sequence of its nodes.   *)
LEMMA ChainIsQueue ==
    ASSUME NEW Q, Linked(Q), NEW s \in Side, NEW p \in Price
    PROVE  /\ DOMAIN Chain(s, p) = 1 .. Cardinality(Node) + 1
           /\ \A k \in 1 .. Cardinality(Node) + 1 : Chain(s, p)[k] = At(Q[s][p], k)
<1> DEFINE l == Q[s][p]
           D == 1 .. Cardinality(Node) + 1
           Follow(at) == at = [k \in D |-> IF k = 1 THEN level[s][p].head
                                 ELSE LET n == at[k - 1] IN IF n = Null THEN Null ELSE next[n]]
           w == [k \in D |-> At(l, k)]
<1>1. Chain(s, p) = CHOOSE at : Follow(at)
  BY DEF Chain
<1>2. l \in Seq(Node) /\ Null \notin Node /\ Len(l) \in Nat /\ Cardinality(Node) \in Nat
  BY ListLength, NullAssumption DEF Linked, Queues
<1>3. Follow(w)
  <2>1. ASSUME NEW k \in D, k # 1
        PROVE  At(l, k) = IF At(l, k - 1) = Null THEN Null ELSE next[At(l, k - 1)]
    <3>1. CASE k - 1 \in 1 .. Len(l)
      <4>1. Placed(l, s, p)
        BY DEF Linked
      <4>2. next[l[k - 1]] = At(l, (k - 1) + 1)
        BY <3>1, <4>1 DEF Placed
      <4>3. (k - 1) + 1 = k
        BY <1>2
      <4>4. At(l, k - 1) = l[k - 1]
        BY <3>1 DEF At
      <4>5. l[k - 1] \in Node
        BY <1>2, <3>1
      <4> QED BY <1>2, <4>2, <4>3, <4>4, <4>5
    <3>2. CASE k - 1 \notin 1 .. Len(l)
      BY <1>2, <2>1, <3>2 DEF At
    <3> QED BY <3>1, <3>2
  <2>2. At(l, 1) = level[s][p].head
    BY DEF Linked
  <2>3. ASSUME NEW k \in D, k # 1 PROVE k - 1 \in D
    BY <1>2, <2>3
  <2> QED BY <2>1, <2>2, <2>3
<1> HIDE DEF Follow
<1>4. Follow(Chain(s, p))
  BY <1>1, <1>3
<1> USE DEF Follow
<1> DEFINE c == Chain(s, p)
           S == {k \in Nat : k + 1 \in D => c[k + 1] = At(l, k + 1)}
<1>5. /\ DOMAIN c = D
      /\ \A k \in D : c[k] = IF k = 1 THEN level[s][p].head
                             ELSE IF c[k - 1] = Null THEN Null ELSE next[c[k - 1]]
      /\ \A k \in D : w[k] = IF k = 1 THEN level[s][p].head
                             ELSE IF w[k - 1] = Null THEN Null ELSE next[w[k - 1]]
  BY <1>3, <1>4
<1>6. \A k \in D : w[k] = At(l, k)
  OBVIOUS
<1> HIDE DEF c, Follow, w
<1>7. 0 \in S
  BY <1>5, <1>6
<1>8. ASSUME NEW n \in Nat, n \in S PROVE n + 1 \in S
  <2>1. SUFFICES ASSUME n + 2 \in D PROVE c[n + 2] = At(l, n + 2)
    BY <1>8
  <2>2. n + 1 \in D /\ (n + 2) - 1 = n + 1 /\ n + 2 # 1
    BY <1>2, <2>1
  <2>3. c[n + 1] = w[n + 1]
    BY <1>6, <1>8, <2>2
  <2> QED BY <1>5, <1>6, <2>1, <2>2, <2>3
<1>9. Nat \subseteq S
  BY <1>7, <1>8, SetInduction
<1>10. ASSUME NEW k \in D PROVE c[k] = At(l, k)
  <2>1. k - 1 \in Nat /\ (k - 1) + 1 = k
    BY <1>2
  <2> QED BY <1>9, <2>1
<1> QED BY <1>5, <1>10 DEF c

LEMMA RestingIsQueue ==
    ASSUME NEW Q, Linked(Q)
    PROVE  /\ \A s \in Side, p \in Price :
                Resting(s, p) = {Q[s][p][k] : k \in 1 .. Len(Q[s][p])}
           /\ \A n \in Node : n \in OnBook <=> Queued(Q, n)
           /\ OnBook \subseteq Node
<1>1. ASSUME NEW s \in Side, NEW p \in Price
      PROVE  /\ Resting(s, p) = {Q[s][p][k] : k \in 1 .. Len(Q[s][p])}
             /\ Resting(s, p) \subseteq Node
  <2> DEFINE l == Q[s][p]
             c == Chain(s, p)
  <2>1. /\ DOMAIN c = 1 .. Cardinality(Node) + 1
        /\ \A k \in 1 .. Cardinality(Node) + 1 : c[k] = At(l, k)
    BY ChainIsQueue
  <2>2. l \in Seq(Node) /\ Len(l) \in Nat /\ Cardinality(Node) \in Nat
        /\ Len(l) <= Cardinality(Node)
    BY ListLength DEF Linked, Queues
  <2>3. Resting(s, p) = {c[k] : k \in DOMAIN c} \ {Null}
    BY DEF Resting
  <2>4. \A k \in 1 .. Len(l) : k \in 1 .. Cardinality(Node) + 1 /\ l[k] \in Node
    BY <2>2
  <2> HIDE DEF l, c
  <2>5. Resting(s, p) = {l[k] : k \in 1 .. Len(l)}
    BY <2>1, <2>2, <2>3, <2>4, NullAssumption DEF At
  <2> QED BY <2>2, <2>4, <2>5 DEF l
<1>2. \A n \in Node : n \in OnBook <=> Queued(Q, n)
  BY <1>1 DEF OnBook, Queued
<1>3. OnBook \subseteq Node
  BY <1>1 DEF OnBook
<1> QED BY <1>1, <1>2, <1>3

(* The pointers of a book that stands for some sequences are sound.           *)
LEMMA LinkedIsSound ==
    ASSUME NEW Q, Linked(Q)
    PROVE  ListsSound
<1>1. \A n \in Node \ OnBook : prev[n] = Null /\ next[n] = Null
  BY RestingIsQueue DEF Linked
<1>2. ASSUME NEW s \in Side, NEW p \in Price
      PROVE  /\ Chain(s, p)[Cardinality(Node) + 1] = Null
             /\ p \notin keys[s] => Chain(s, p)[1] = Null
             /\ Chain(s, p)[1] = Null => level[s][p].tail = Null
             /\ \A k \in 1 .. Cardinality(Node) : Chain(s, p)[k] # Null =>
                  /\ order[Chain(s, p)[k]].side = s /\ order[Chain(s, p)[k]].price = p
                  /\ prev[Chain(s, p)[k]] = IF k = 1 THEN Null ELSE Chain(s, p)[k - 1]
                  /\ Chain(s, p)[k + 1] = Null => level[s][p].tail = Chain(s, p)[k]
  <2> DEFINE l == Q[s][p]
             c == Chain(s, p)
             N == Cardinality(Node)
  <2>1. \A k \in 1 .. N + 1 : c[k] = At(l, k)
    BY ChainIsQueue
  <2>2. /\ l \in Seq(Node) /\ Len(l) \in Nat /\ N \in Nat /\ Len(l) <= N
        /\ \A k \in 1 .. Len(l) : l[k] # Null
    BY ListLength, NullAssumption DEF Linked, Queues
  <2>3. /\ level[s][p].tail = At(l, Len(l)) /\ Placed(l, s, p)
        /\ p \notin keys[s] => l = <<>>
    BY DEF Linked
  <2> HIDE DEF l, c, N
  <2>4. c[N + 1] = Null /\ (c[1] = Null => level[s][p].tail = Null)
    BY <2>1, <2>2, <2>3 DEF At
  <2>5. p \notin keys[s] => c[1] = Null
    BY <2>1, <2>2, <2>3 DEF At
  <2>6. ASSUME NEW k \in 1 .. N, c[k] # Null
        PROVE  /\ order[c[k]].side = s /\ order[c[k]].price = p
               /\ prev[c[k]] = IF k = 1 THEN Null ELSE c[k - 1]
               /\ c[k + 1] = Null => level[s][p].tail = c[k]
    <3>1. k \in 1 .. Len(l) /\ c[k] = l[k] /\ k + 1 \in 1 .. N + 1
      BY <2>1, <2>2, <2>6 DEF At
    <3>2. prev[c[k]] = IF k = 1 THEN Null ELSE c[k - 1]
      <4>1. prev[c[k]] = At(l, k - 1)
        BY <2>3, <3>1 DEF Placed
      <4>2. CASE k = 1
        BY <4>1, <4>2 DEF At
      <4>3. CASE k # 1
        BY <2>1, <2>2, <4>1, <4>3
      <4> QED BY <4>2, <4>3
    <3>3. c[k + 1] = Null => level[s][p].tail = c[k]
      BY <2>1, <2>2, <2>3, <3>1 DEF At
    <3> QED BY <2>3, <3>1, <3>2, <3>3 DEF Placed
  <2> QED BY <2>4, <2>5, <2>6 DEF c, N
<1> QED BY <1>1, <1>2 DEF ListsSound

(* Taking an item out of a list.                                              *)
LEMMA WithoutList ==
    ASSUME NEW l \in Seq(Node), NEW i \in 1 .. Len(l)
    PROVE  /\ Without(l, i) \in Seq(Node)
           /\ Len(Without(l, i)) = Len(l) - 1
           /\ \A k \in 1 .. Len(l) - 1 : Without(l, i)[k] = IF k < i THEN l[k] ELSE l[k + 1]
           /\ Distinct(l) => Distinct(Without(l, i))
           /\ Distinct(l) => \A k \in 1 .. Len(l) - 1 : Without(l, i)[k] # l[i]
           /\ \A k \in 1 .. Len(l) :
                k # i => \E j \in 1 .. Len(l) - 1 : Without(l, i)[j] = l[k]
<1> DEFINE w == Without(l, i)
           n == Len(l) - 1
<1>1. n \in Nat /\ Len(l) = n + 1 /\ i \in 1 .. n + 1
  OBVIOUS
<1>2. /\ w = [k \in 1 .. n |-> IF k < i THEN l[k] ELSE l[k + 1]]
      /\ \A k \in 1 .. n + 1 : l[k] \in Node
  BY <1>1 DEF Without
<1> HIDE DEF w, n
<1>3. w \in Seq(Node) /\ Len(w) = n /\ \A k \in 1 .. n : w[k] = IF k < i THEN l[k] ELSE l[k + 1]
  <2>1. w \in [1 .. n -> Node]
    BY <1>1, <1>2
  <2> QED BY <1>1, <1>2, <2>1
<1>4. Distinct(l) => Distinct(w)
  BY <1>1, <1>3 DEF Distinct
<1>5. Distinct(l) => \A k \in 1 .. n : w[k] # l[i]
  BY <1>1, <1>3 DEF Distinct
<1>6. ASSUME NEW k \in 1 .. Len(l), k # i PROVE \E j \in 1 .. n : w[j] = l[k]
  <2>1. CASE k < i
    BY <1>1, <1>3, <2>1
  <2>2. CASE k > i
    <3>1. k - 1 \in 1 .. n /\ ~(k - 1 < i) /\ (k - 1) + 1 = k
      BY <1>1, <2>2
    <3> QED BY <1>3, <3>1
  <2> QED BY <1>1, <1>6, <2>1, <2>2
<1> QED BY <1>1, <1>3, <1>4, <1>5, <1>6 DEF w, n

(* What the lemma on Without says of a list of different nodes.               *)
IsWithout(w, l, i) ==
    /\ w \in Seq(Node) /\ Len(w) = Len(l) - 1 /\ Distinct(w)
    /\ \A k \in 1 .. Len(l) - 1 : w[k] = IF k < i THEN l[k] ELSE l[k + 1]
    /\ \A k \in 1 .. Len(l) - 1 : w[k] # l[i]
    /\ \A k \in 1 .. Len(l) : k # i => \E j \in 1 .. Len(l) - 1 : w[j] = l[k]

LEMMA WithoutIs ==
    ASSUME NEW l \in Seq(Node), NEW i \in 1 .. Len(l), Distinct(l)
    PROVE  IsWithout(Without(l, i), l, i)
BY WithoutList DEF IsWithout

(* A node has one place in the sequences.                                     *)
LEMMA OnePlace ==
    ASSUME NEW Q, Linked(Q), NEW s \in Side, NEW p \in Price, NEW i \in 1 .. Len(Q[s][p]),
           NEW z \in Side, NEW q \in Price, NEW k \in 1 .. Len(Q[z][q]),
           Q[s][p][i] = Q[z][q][k]
    PROVE  z = s /\ q = p /\ k = i
<1>1. Placed(Q[s][p], s, p) /\ Placed(Q[z][q], z, q)
  BY DEF Linked
<1>2. /\ order[Q[s][p][i]].side = s /\ order[Q[s][p][i]].price = p
      /\ order[Q[z][q][k]].side = z /\ order[Q[z][q][k]].price = q
  BY <1>1 DEF Placed
<1>3. z = s /\ q = p
  BY <1>2, Zenon
<1> QED BY <1>3 DEF Linked, Distinct

(* IntrusiveList::remove takes exactly the node out of the sequence.          *)
LEMMA UnlinkPointers ==
    ASSUME BookTypeOK, NEW Q, Linked(Q), NEW s \in Side, NEW p \in Price,
           NEW i \in 1 .. Len(Q[s][p]), Unlink(Q[s][p][i]), order' = order
    PROVE  /\ Placed(Without(Q[s][p], i), s, p)'
           /\ \A z \in Side, q \in Price : z # s \/ q # p => Placed(Q[z][q], z, q)'
           /\ prev'[Q[s][p][i]] = Null /\ next'[Q[s][p][i]] = Null
           /\ \A m \in Node : ~Queued(Q, m) => prev'[m] = prev[m] /\ next'[m] = next[m]
<1> DEFINE l == Q[s][p]
           n == l[i]
           w == Without(l, i)
<1>1. /\ l \in Seq(Node) /\ Len(l) \in Nat /\ n \in Node /\ Null \notin Node
      /\ \A k \in 1 .. Len(l) : l[k] \in Node
      /\ Distinct(l) /\ Placed(l, s, p)
  BY NullAssumption DEF Linked, Queues
<1>2. /\ Len(w) = Len(l) - 1
      /\ \A k \in 1 .. Len(l) - 1 : w[k] = IF k < i THEN l[k] ELSE l[k + 1]
  <2>1. l \in Seq(Node) /\ i \in 1 .. Len(l) /\ Distinct(l)
    BY <1>1
  <2> HIDE DEF l
  <2>2. IsWithout(Without(l, i), l, i)
    BY <2>1, WithoutIs
  <2> QED BY <2>2 DEF IsWithout
<1>3. prev[n] = At(l, i - 1) /\ next[n] = At(l, i + 1)
  BY <1>1 DEF Placed
<1>4. /\ \A m \in Node : next'[m] = IF m = n THEN Null
                                    ELSE IF m = prev[n] THEN next[n] ELSE next[m]
      /\ \A m \in Node : prev'[m] = IF m = n THEN Null
                                    ELSE IF m = next[n] THEN prev[n] ELSE prev[m]
  BY DEF Unlink
<1> HIDE DEF l, n, w
<1>5. n = l[i] /\ i \in 1 .. Len(l)
  BY DEF n, l
<1>6. ASSUME NEW k \in 1 .. Len(l) - 1
      PROVE  /\ order'[w[k]].side = s /\ order'[w[k]].price = p
             /\ prev'[w[k]] = At(w, k - 1) /\ next'[w[k]] = At(w, k + 1)
  <2>1. CASE k < i
    <3>1. w[k] = l[k] /\ k \in 1 .. Len(l) /\ l[k] # n /\ l[k] \in Node
      BY <1>1, <1>2, <1>5, <2>1 DEF Distinct
    <3>2. order[l[k]].side = s /\ order[l[k]].price = p
          /\ prev[l[k]] = At(l, k - 1) /\ next[l[k]] = At(l, k + 1)
      BY <1>1, <3>1 DEF Placed
    <3>3. l[k] # next[n]
      BY <1>1, <1>3, <1>5, <2>1, <3>1 DEF At, Distinct
    <3>4. At(w, k - 1) = At(l, k - 1)
      BY <1>1, <1>2, <1>5, <2>1 DEF At
    <3>5. prev'[w[k]] = At(w, k - 1)
      BY <1>4, <3>1, <3>2, <3>3, <3>4
    <3>6. CASE k = i - 1
      <4>1. l[k] = prev[n]
        BY <1>1, <1>3, <1>5, <3>1, <3>6 DEF At
      <4>2. At(w, k + 1) = At(l, i + 1)
        BY <1>1, <1>2, <1>5, <3>6 DEF At
      <4> QED BY <1>3, <1>4, <3>1, <3>2, <3>5, <4>1, <4>2
    <3>7. CASE k # i - 1
      <4>1. l[k] # prev[n]
        BY <1>1, <1>3, <1>5, <3>1, <3>7 DEF At, Distinct
      <4>2. At(w, k + 1) = At(l, k + 1)
        BY <1>1, <1>2, <1>5, <2>1, <3>7 DEF At
      <4> QED BY <1>4, <3>1, <3>2, <3>5, <4>1, <4>2
    <3> QED BY <3>6, <3>7
  <2>2. CASE k >= i
    <3>1. w[k] = l[k + 1] /\ k + 1 \in 1 .. Len(l) /\ l[k + 1] # n /\ l[k + 1] \in Node
      BY <1>1, <1>2, <1>5, <2>2 DEF Distinct
    <3>2. order[l[k + 1]].side = s /\ order[l[k + 1]].price = p
          /\ prev[l[k + 1]] = At(l, k) /\ next[l[k + 1]] = At(l, k + 2)
      <4>1. (k + 1) - 1 = k /\ (k + 1) + 1 = k + 2
        OBVIOUS
      <4> QED BY <1>1, <3>1, <4>1 DEF Placed
    <3>3. l[k + 1] # prev[n]
      BY <1>1, <1>3, <1>5, <2>2, <3>1 DEF At, Distinct
    <3>4. At(w, k + 1) = At(l, k + 2)
      BY <1>1, <1>2, <1>5, <2>2 DEF At
    <3>5. next'[w[k]] = At(w, k + 1)
      BY <1>4, <3>1, <3>2, <3>3, <3>4
    <3>6. CASE k = i
      <4>1. l[k + 1] = next[n]
        BY <1>1, <1>3, <1>5, <3>1, <3>6 DEF At
      <4>2. At(w, k - 1) = At(l, i - 1)
        BY <1>1, <1>2, <1>5, <3>6 DEF At
      <4> QED BY <1>3, <1>4, <3>1, <3>2, <3>5, <4>1, <4>2
    <3>7. CASE k # i
      <4>1. l[k + 1] # next[n]
        BY <1>1, <1>3, <1>5, <3>1, <3>7 DEF At, Distinct
      <4>2. At(w, k - 1) = At(l, k)
        BY <1>1, <1>2, <1>5, <2>2, <3>7 DEF At
      <4> QED BY <1>4, <3>1, <3>2, <3>5, <4>1, <4>2
    <3> QED BY <3>6, <3>7
  <2> QED BY <1>1, <1>5, <2>1, <2>2
<1>7. Placed(w, s, p)'
  BY <1>2, <1>6 DEF Placed, At
<1>8. /\ \A m \in Node : m = prev[n] => \E k \in 1 .. Len(l) : m = l[k]
      /\ \A m \in Node : m = next[n] => \E k \in 1 .. Len(l) : m = l[k]
  BY <1>1, <1>3 DEF At
<1>9. ASSUME NEW z \in Side, NEW q \in Price, z # s \/ q # p, NEW k \in 1 .. Len(Q[z][q])
      PROVE  LET m == Q[z][q][k] IN prev'[m] = prev[m] /\ next'[m] = next[m]
  <2> DEFINE m == Q[z][q][k]
  <2>1. m \in Node /\ order[m].side = z /\ order[m].price = q
    BY DEF Linked, Queues, Placed
  <2>2. \A j \in 1 .. Len(l) : m # l[j]
    BY <1>1, <1>9, <2>1 DEF Placed
  <2> QED BY <1>4, <1>5, <1>8, <2>1, <2>2
<1>10. ASSUME NEW z \in Side, NEW q \in Price, z # s \/ q # p
       PROVE  Placed(Q[z][q], z, q)'
  <2>1. Placed(Q[z][q], z, q)
    BY DEF Linked
  <2> QED BY <1>9, <1>10, <2>1 DEF Placed, At
<1>11. ASSUME NEW m \in Node, ~Queued(Q, m) PROVE prev'[m] = prev[m] /\ next'[m] = next[m]
  <2>1. \A k \in 1 .. Len(l) : m # l[k]
    BY <1>11 DEF Queued, l
  <2> QED BY <1>4, <1>5, <1>8, <2>1
<1> QED BY <1>1, <1>4, <1>7, <1>10, <1>11 DEF l, n, w

(* The sequences after the i-th node of side s and price p was taken out.     *)
Removed(Q, s, p, i) == [Q EXCEPT ![s] = [Q[s] EXCEPT ![p] = Without(Q[s][p], i)]]

LEMMA RemovedQueued ==
    ASSUME NEW Q, Linked(Q), NEW s \in Side, NEW p \in Price, NEW i \in 1 .. Len(Q[s][p])
    PROVE  \A m \in Node : Queued(Removed(Q, s, p, i), m) <=> Queued(Q, m) /\ m # Q[s][p][i]
<1> DEFINE l == Q[s][p]
           n == l[i]
           w == Without(l, i)
           R == Removed(Q, s, p, i)
<1>1. /\ l \in Seq(Node) /\ Len(l) \in Nat /\ \A k \in 1 .. Len(l) : l[k] \in Node
      /\ Distinct(l) /\ Q \in Queues
  BY DEF Linked, Queues
<1>2. /\ w \in Seq(Node) /\ Len(w) = Len(l) - 1
      /\ \A k \in 1 .. Len(l) - 1 : w[k] = IF k < i THEN l[k] ELSE l[k + 1]
      /\ \A k \in 1 .. Len(l) - 1 : w[k] # n
      /\ \A k \in 1 .. Len(l) : k # i => \E j \in 1 .. Len(l) - 1 : w[j] = l[k]
  BY <1>1, WithoutList
<1>3. /\ R \in Queues
      /\ \A z \in Side, q \in Price : R[z][q] = IF z = s /\ q = p THEN w ELSE Q[z][q]
  BY <1>1, <1>2 DEF Queues, Removed
<1>5. \A m \in Node : Queued(R, m) <=> Queued(Q, m) /\ m # n
  <2>1. ASSUME NEW m \in Node, Queued(R, m) PROVE Queued(Q, m) /\ m # n
    <3>1. PICK z \in Side, q \in Price : \E k \in 1 .. Len(R[z][q]) : m = R[z][q][k]
      BY <2>1 DEF Queued
    <3>2. CASE z = s /\ q = p
      <4>1. PICK k \in 1 .. Len(w) : m = w[k]
        BY <1>3, <3>1, <3>2
      <4>2. \E j \in 1 .. Len(l) : m = l[j]
        BY <1>1, <1>2, <4>1
      <4> QED BY <1>2, <4>1, <4>2 DEF Queued
    <3>3. CASE z # s \/ q # p
      <4>1. PICK k \in 1 .. Len(Q[z][q]) : m = Q[z][q][k]
        BY <1>3, <3>1, <3>3
      <4> QED BY <3>3, <4>1, OnePlace DEF Queued
    <3> QED BY <3>2, <3>3
  <2>2. ASSUME NEW m \in Node, Queued(Q, m), m # n PROVE Queued(R, m)
    <3>1. PICK z \in Side, q \in Price : \E k \in 1 .. Len(Q[z][q]) : m = Q[z][q][k]
      BY <2>2 DEF Queued
    <3>2. CASE z = s /\ q = p
      <4>1. \E j \in 1 .. Len(w) : m = w[j]
        BY <1>2, <2>2, <3>1, <3>2
      <4> QED BY <1>3, <4>1 DEF Queued
    <3>3. CASE z # s \/ q # p
      BY <1>3, <3>1, <3>3 DEF Queued
    <3> QED BY <3>2, <3>3
  <2> QED BY <2>1, <2>2
<1> QED BY <1>5

LEMMA RemoveLinked ==
    ASSUME BookTypeOK, NEW Q, Linked(Q), NEW s \in Side, NEW p \in Price,
           NEW i \in 1 .. Len(Q[s][p]), Unlink(Q[s][p][i]), order' = order,
           \A z \in Side, q \in Price :
               LET lv == IF z = s /\ q = p THEN UnlinkedLevel(level[s][p], Q[s][p][i])
                                          ELSE level[z][q]
               IN  level'[z][q].head = lv.head /\ level'[z][q].tail = lv.tail,
           \A z \in Side, q \in Price :
               q \in keys[z] /\ q \notin keys'[z] => z = s /\ q = p /\ Len(Q[s][p]) = 1
    PROVE  /\ Linked(Removed(Q, s, p, i))'
           /\ \A m \in Node : Queued(Removed(Q, s, p, i), m) <=> Queued(Q, m) /\ m # Q[s][p][i]
<1> DEFINE l == Q[s][p]
           n == l[i]
           w == Without(l, i)
           R == Removed(Q, s, p, i)
<1>1. /\ l \in Seq(Node) /\ Len(l) \in Nat /\ n \in Node /\ Null \notin Node
      /\ \A k \in 1 .. Len(l) : l[k] \in Node
      /\ Distinct(l) /\ Placed(l, s, p) /\ Q \in Queues
  BY NullAssumption DEF Linked, Queues
<1>2. /\ w \in Seq(Node) /\ Len(w) = Len(l) - 1 /\ Distinct(w)
      /\ \A k \in 1 .. Len(l) - 1 : w[k] = IF k < i THEN l[k] ELSE l[k + 1]
      /\ \A k \in 1 .. Len(l) - 1 : w[k] # n
      /\ \A k \in 1 .. Len(l) : k # i => \E j \in 1 .. Len(l) - 1 : w[j] = l[k]
  <2>1. l \in Seq(Node) /\ i \in 1 .. Len(l) /\ Distinct(l) /\ n = l[i]
    BY <1>1
  <2> HIDE DEF l, n
  <2>2. IsWithout(Without(l, i), l, i)
    BY <2>1, WithoutIs
  <2> QED BY <2>1, <2>2 DEF IsWithout
<1>3. /\ Placed(w, s, p)'
      /\ \A z \in Side, q \in Price : z # s \/ q # p => Placed(Q[z][q], z, q)'
      /\ prev'[n] = Null /\ next'[n] = Null
      /\ \A m \in Node : ~Queued(Q, m) => prev'[m] = prev[m] /\ next'[m] = next[m]
  BY UnlinkPointers
<1>4. /\ R \in Queues
      /\ \A z \in Side, q \in Price : R[z][q] = IF z = s /\ q = p THEN w ELSE Q[z][q]
  BY <1>1, <1>2 DEF Queues, Removed
<1>5. UnlinkedLevel(level[s][p], n).head = At(w, 1)
      /\ UnlinkedLevel(level[s][p], n).tail = At(w, Len(w))
  <2>1. prev[n] = At(l, i - 1) /\ next[n] = At(l, i + 1)
        /\ level[s][p].head = At(l, 1) /\ level[s][p].tail = At(l, Len(l))
    BY <1>1 DEF Placed, Linked
  <2>2. level[s][p] \in PriceLevel
    BY DEF BookTypeOK
  <2>3. /\ UnlinkedLevel(level[s][p], n).head = IF prev[n] = Null THEN next[n] ELSE level[s][p].head
        /\ UnlinkedLevel(level[s][p], n).tail = IF next[n] = Null THEN prev[n] ELSE level[s][p].tail
    BY <2>2 DEF UnlinkedLevel, PriceLevel
  <2> HIDE DEF l, n, w
  <2>4. i \in 1 .. Len(l)
    BY DEF l
  <2>5. IF i = 1 THEN prev[n] = Null ELSE prev[n] # Null
    BY <1>1, <2>1, <2>4 DEF At
  <2>6. IF i = Len(l) THEN next[n] = Null ELSE next[n] # Null
    BY <1>1, <2>1, <2>4 DEF At
  <2>7. (IF i = 1 THEN At(l, i + 1) ELSE At(l, 1)) = At(w, 1)
    BY <1>1, <1>2, <2>4 DEF At
  <2>8. (IF i = Len(l) THEN At(l, i - 1) ELSE At(l, Len(l))) = At(w, Len(w))
    BY <1>1, <1>2, <2>4 DEF At
  <2> QED BY <2>1, <2>3, <2>5, <2>6, <2>7, <2>8
<1>6. \A m \in Node : Queued(R, m) <=> Queued(Q, m) /\ m # n
  BY RemovedQueued
<1>7. ASSUME NEW z \in Side, NEW q \in Price
      PROVE  /\ level'[z][q].head = At(R[z][q], 1)
             /\ level'[z][q].tail = At(R[z][q], Len(R[z][q]))
             /\ Placed(R[z][q], z, q)' /\ Distinct(R[z][q])
             /\ q \notin keys'[z] => R[z][q] = <<>>
  <2>1. CASE z = s /\ q = p
    <3>1. p \notin keys'[s] => w = <<>>
      <4>1. p \notin keys[s] => FALSE
        BY <1>1 DEF Linked
      <4>2. p \notin keys'[s] => Len(w) = 0
        BY <1>2, <4>1
      <4> QED BY <1>2, <4>2
    <3> QED BY <1>2, <1>3, <1>4, <1>5, <2>1, <3>1
  <2>2. CASE z # s \/ q # p
    BY <1>3, <1>4, <2>2 DEF Linked
  <2> QED BY <2>1, <2>2
<1>8. \A m \in Node : Queued(R, m) \/ (prev'[m] = Null /\ next'[m] = Null)
  BY <1>3, <1>6 DEF Linked
<1> HIDE DEF R
<1>9. Linked(R)'
  BY <1>4, <1>7, <1>8 DEF Linked, Queues, Queued, At, Distinct
<1> QED BY <1>6, <1>9 DEF R

(* IntrusiveList::push_back puts the node behind the last of the sequence.    *)
Pushed(Q, s, p, n) == [Q EXCEPT ![s] = [Q[s] EXCEPT ![p] = Append(Q[s][p], n)]]

LEMMA AppendList ==
    ASSUME NEW l \in Seq(Node), NEW n \in Node
    PROVE  /\ Append(l, n) \in Seq(Node) /\ Len(Append(l, n)) = Len(l) + 1
           /\ Append(l, n)[Len(l) + 1] = n
           /\ \A k \in 1 .. Len(l) : Append(l, n)[k] = l[k]
OBVIOUS

LEMMA AtEnds ==
    ASSUME NEW l, Len(l) \in Nat, \A k \in 1 .. Len(l) : l[k] # Null
    PROVE  At(l, 1) = Null => At(l, Len(l)) = Null
BY DEF At

LEMMA InsertLinked ==
    ASSUME BookTypeOK, NEW Q, Linked(Q), NEW n \in Node, ~Queued(Q, n), InsertOrder(n),
           NEW s, NEW p, s = order[n].side, p = order[n].price
    PROVE  /\ Linked(Pushed(Q, s, p, n))'
           /\ \A m \in Node : Queued(Pushed(Q, s, p, n), m) <=> Queued(Q, m) \/ m = n
<1> DEFINE l == Q[s][p]
           w == Append(l, n)
           lv == level[s][p]
           R == Pushed(Q, s, p, n)
<1>1. /\ s \in Side /\ p \in Price /\ lv \in PriceLevel /\ qty[n] \in Quantity
      /\ level \in [Side -> [Price -> PriceLevel]] /\ keys \in [Side -> SUBSET Price]
  BY DEF BookTypeOK
<1>2. /\ l \in Seq(Node) /\ Len(l) \in Nat /\ Null \notin Node /\ Q \in Queues
      /\ \A k \in 1 .. Len(l) : l[k] \in Node /\ l[k] # n
      /\ Distinct(l) /\ Placed(l, s, p) /\ lv.head = At(l, 1) /\ lv.tail = At(l, Len(l))
  BY <1>1, NullAssumption DEF Linked, Queues, Queued
<1>3. /\ w \in Seq(Node) /\ Len(w) = Len(l) + 1 /\ w[Len(l) + 1] = n
      /\ \A k \in 1 .. Len(l) : w[k] = l[k]
  BY <1>2, AppendList
<1>4. /\ \A m \in Node : prev'[m] = IF m = n THEN At(l, Len(l)) ELSE prev[m]
      /\ \A m \in Node : next'[m] = IF m = n THEN Null
                                    ELSE IF lv.head # Null /\ m = lv.tail THEN n ELSE next[m]
      /\ order' = order /\ qty' = qty
  <2>1. lv.head = Null => At(l, Len(l)) = Null
    <3>1. \A k \in 1 .. Len(l) : l[k] # Null
      BY <1>2, Zenon
    <3>2. Len(l) \in Nat /\ lv.head = At(l, 1)
      BY <1>2, Zenon
    <3> HIDE DEF l, lv
    <3> QED BY <3>1, <3>2, AtEnds, Zenon
  <2> QED BY <1>2, <2>1 DEF InsertOrder, PushBack, BookTypeOK
<1>5. /\ keys' = [keys EXCEPT ![s] = @ \cup {p}]
      /\ level' = SetLevel(level, s, p, AddVolume(PushedLevel(lv, n), qty[n]))
  BY DEF InsertOrder
<1>6. /\ AddVolume(PushedLevel(lv, n), qty[n]).head = IF lv.head = Null THEN n ELSE lv.head
      /\ AddVolume(PushedLevel(lv, n), qty[n]).tail = n
  BY <1>1, QuantityArithmetic DEF AddVolume, PushedLevel, PriceLevel
<1> HIDE DEF l, w, lv
<1>7. /\ level'[s][p].head = At(w, 1) /\ level'[s][p].tail = At(w, Len(w))
      /\ \A z \in Side, q \in Price : z # s \/ q # p => level'[z][q] = level[z][q]
  <2>1. level'[s][p] = AddVolume(PushedLevel(lv, n), qty[n])
    BY <1>1, <1>5 DEF SetLevel
  <2>2. At(w, 1) = (IF lv.head = Null THEN n ELSE lv.head) /\ At(w, Len(w)) = n
    BY <1>2, <1>3 DEF At
  <2> QED BY <1>1, <1>5, <1>6, <2>1, <2>2 DEF SetLevel
<1>8. ASSUME NEW k \in 1 .. Len(w)
      PROVE  /\ order[w[k]].side = s /\ order[w[k]].price = p
             /\ prev'[w[k]] = At(w, k - 1) /\ next'[w[k]] = At(w, k + 1)
  <2>1. CASE k = Len(l) + 1
    <3>1. At(w, k - 1) = At(l, Len(l)) /\ At(w, k + 1) = Null
      BY <1>2, <1>3, <2>1 DEF At
    <3> QED BY <1>3, <1>4, <2>1, <3>1
  <2>2. CASE k \in 1 .. Len(l)
    <3>1. w[k] = l[k] /\ l[k] # n /\ l[k] \in Node
          /\ order[l[k]].side = s /\ order[l[k]].price = p
          /\ prev[l[k]] = At(l, k - 1) /\ next[l[k]] = At(l, k + 1)
      BY <1>2, <1>3, <2>2 DEF Placed
    <3>2. At(w, k - 1) = At(l, k - 1)
      BY <1>2, <1>3, <2>2 DEF At
    <3>3. (lv.head # Null /\ l[k] = lv.tail) <=> k = Len(l)
      BY <1>2, <2>2 DEF At, Distinct
    <3>4. At(w, k + 1) = IF k = Len(l) THEN n ELSE At(l, k + 1)
      BY <1>2, <1>3, <2>2 DEF At
    <3> QED BY <1>4, <3>1, <3>2, <3>3, <3>4
  <2> QED BY <1>2, <1>3, <2>1, <2>2
<1>9. /\ R \in Queues
      /\ \A z \in Side, q \in Price : R[z][q] = IF z = s /\ q = p THEN w ELSE Q[z][q]
  BY <1>1, <1>2, <1>3 DEF Queues, Pushed, w, l
<1> HIDE DEF R
<1>10. \A m \in Node : Queued(R, m) <=> Queued(Q, m) \/ m = n
  <2>1. ASSUME NEW m \in Node, Queued(R, m) PROVE Queued(Q, m) \/ m = n
    <3>1. PICK z \in Side, q \in Price : \E k \in 1 .. Len(R[z][q]) : m = R[z][q][k]
      BY <2>1 DEF Queued
    <3>2. CASE z = s /\ q = p
      <4>1. PICK k \in 1 .. Len(w) : m = w[k]
        BY <1>9, <3>1, <3>2
      <4>2. m = n \/ (k \in 1 .. Len(l) /\ m = l[k])
        BY <1>2, <1>3, <4>1
      <4> QED BY <1>1, <4>2 DEF Queued, l
    <3>3. CASE z # s \/ q # p
      BY <1>9, <3>1, <3>3 DEF Queued
    <3> QED BY <3>2, <3>3
  <2>2. ASSUME NEW m \in Node, Queued(Q, m) PROVE Queued(R, m)
    <3>1. PICK z \in Side, q \in Price : \E k \in 1 .. Len(Q[z][q]) : m = Q[z][q][k]
      BY <2>2 DEF Queued
    <3>2. CASE z = s /\ q = p
      <4>1. PICK k \in 1 .. Len(l) : m = l[k]
        BY <3>1, <3>2 DEF l
      <4>2. k \in 1 .. Len(w) /\ m = w[k]
        BY <1>2, <1>3, <4>1
      <4>3. R[s][p] = w
        BY <1>1, <1>9
      <4>4. \E j \in 1 .. Len(R[s][p]) : m = R[s][p][j]
        BY <4>2, <4>3, Zenon
      <4> QED BY <1>1, <4>4, Zenon DEF Queued
    <3>3. CASE z # s \/ q # p
      BY <1>9, <3>1, <3>3 DEF Queued
    <3> QED BY <3>2, <3>3
  <2>3. Queued(R, n)
    <3>1. Len(w) \in 1 .. Len(w) /\ w[Len(w)] = n
      BY <1>2, <1>3
    <3>2. R[s][p] = w
      BY <1>1, <1>9
    <3>3. \E j \in 1 .. Len(R[s][p]) : n = R[s][p][j]
      BY <3>1, <3>2, Zenon
    <3> QED BY <1>1, <3>3, Zenon DEF Queued
  <2> QED BY <2>1, <2>2, <2>3
<1>11. Distinct(w)
  BY <1>2, <1>3 DEF Distinct
<1>12. ASSUME NEW z \in Side, NEW q \in Price
       PROVE  /\ level'[z][q].head = At(R[z][q], 1)
              /\ level'[z][q].tail = At(R[z][q], Len(R[z][q]))
              /\ Placed(R[z][q], z, q)' /\ Distinct(R[z][q])
              /\ q \notin keys'[z] => R[z][q] = <<>>
  <2>1. CASE z = s /\ q = p
    <3>1. Placed(w, s, p)'
      BY <1>4, <1>8 DEF Placed, At
    <3>2. p \in keys'[s]
      BY <1>1, <1>5
    <3> QED BY <1>7, <1>9, <1>11, <2>1, <3>1, <3>2
  <2>2. CASE z # s \/ q # p
    <3>1. \A k \in 1 .. Len(Q[z][q]) :
            LET m == Q[z][q][k] IN prev'[m] = prev[m] /\ next'[m] = next[m]
      <4>1. SUFFICES ASSUME NEW k \in 1 .. Len(Q[z][q])
                     PROVE  LET m == Q[z][q][k] IN prev'[m] = prev[m] /\ next'[m] = next[m]
        OBVIOUS
      <4> DEFINE m == Q[z][q][k]
      <4>2. m \in Node /\ m # n
        BY DEF Linked, Queues, Queued
      <4>3. order[m].side = z /\ order[m].price = q
        <5>1. Placed(Q[z][q], z, q)
          BY DEF Linked
        <5> QED BY <5>1 DEF Placed
      <4>4. lv.head # Null => m # lv.tail
        BY <1>2, <2>2, <4>3 DEF At, Placed
      <4> HIDE DEF m
      <4> QED BY <1>4, <4>2, <4>4 DEF m
    <3>2. Placed(Q[z][q], z, q)'
      <4>1. Placed(Q[z][q], z, q)
        BY DEF Linked
      <4> QED BY <1>4, <3>1, <4>1 DEF Placed, At
    <3>3. q \notin keys'[z] => q \notin keys[z]
      BY <1>1, <1>5
    <3> QED BY <1>7, <1>9, <2>2, <3>2, <3>3 DEF Linked
  <2> QED BY <2>1, <2>2
<1>13. \A m \in Node : Queued(R, m) \/ (prev'[m] = Null /\ next'[m] = Null)
  <2>1. SUFFICES ASSUME NEW m \in Node, ~Queued(R, m) PROVE prev'[m] = Null /\ next'[m] = Null
    OBVIOUS
  <2>2. m # n /\ ~Queued(Q, m)
    BY <1>10, <2>1
  <2>3. lv.head # Null => m # lv.tail
    BY <1>1, <1>2, <2>2 DEF At, Queued, l
  <2> QED BY <1>4, <2>2, <2>3 DEF Linked
<1>14. Linked(R)'
  BY <1>9, <1>12, <1>13 DEF Linked, Queues, Queued, At, Distinct
<1> QED BY <1>10, <1>14 DEF R

(* A step that leaves the pointers alone, the heads and tails of the levels   *)
(* too, and erases only empty levels.                                         *)
LEMMA LinkedUntouched ==
    ASSUME NEW Q, Linked(Q), prev' = prev, next' = next,
           \A n \in Node : Queued(Q, n) => order'[n] = order[n],
           \A z \in Side, q \in Price :
               /\ level'[z][q].head = level[z][q].head /\ level'[z][q].tail = level[z][q].tail
               /\ q \in keys[z] /\ q \notin keys'[z] => level[z][q].head = Null
    PROVE  Linked(Q)'
<1>1. ASSUME NEW z \in Side, NEW q \in Price
      PROVE  Placed(Q[z][q], z, q)' /\ (q \notin keys'[z] => Q[z][q] = <<>>)
  <2> DEFINE l == Q[z][q]
  <2>1. l \in Seq(Node) /\ Placed(l, z, q) /\ level[z][q].head = At(l, 1)
        /\ (q \notin keys[z] => l = <<>>)
    BY DEF Linked, Queues
  <2>2. \A k \in 1 .. Len(l) : order'[l[k]] = order[l[k]]
    BY <2>1 DEF Queued
  <2> HIDE DEF l
  <2>3. Placed(l, z, q)'
    BY <2>1, <2>2 DEF Placed, At
  <2>4. level[z][q].head = Null => l = <<>>
    <3>1. Len(l) \in Nat /\ \A k \in 1 .. Len(l) : l[k] # Null
      BY <2>1, NullAssumption
    <3> QED BY <2>1, <3>1 DEF At
  <2> QED BY <2>1, <2>3, <2>4 DEF l
<1>2. /\ Q \in Queues
      /\ \A n \in Node : Queued(Q, n) \/ (prev'[n] = Null /\ next'[n] = Null)
  BY DEF Linked
<1>3. ASSUME NEW z \in Side, NEW q \in Price
      PROVE  /\ level'[z][q].head = At(Q[z][q], 1)
             /\ level'[z][q].tail = At(Q[z][q], Len(Q[z][q]))
             /\ Distinct(Q[z][q])
  BY DEF Linked
<1> QED BY <1>1, <1>2, <1>3 DEF Linked, Queues, Queued, At, Distinct

(* What the engine adds to the book: within a level the orders stand in the   *)
(* order of their ids, ids name one order and were given out, the order being *)
(* matched is not on the book and is the newest, and inside the loop the      *)
(* cursor stands on the head of the best level, which crosses.                *)
Ranked(Q) ==
    \A s \in Side, p \in Price : \A j, k \in 1 .. Len(Q[s][p]) :
        j < k => order[Q[s][p][j]].id < order[Q[s][p][k]].id
Arrived(Q) ==
    /\ \A n \in Node : Queued(Q, n) => order[n].id \in 1 .. submitted
    /\ \A m, n \in Node : Queued(Q, m) /\ Queued(Q, n) /\ order[m].id = order[n].id => m = n
TakerOutside(Q) ==
    pc # "idle" =>
        /\ ~Queued(Q, incoming)
        /\ submitted > 0 /\ order[incoming].id = submitted
        /\ \A n \in Node : Queued(Q, n) => order[n].id # submitted
CursorAtHead ==
    pc = "inner" =>
        /\ IsBest(maker_side, best) /\ Crosses(best)
        /\ qty[incoming] > 0 => resting_order = level[maker_side][best].head
EngineInv(Q) == Linked(Q) /\ Ranked(Q) /\ Arrived(Q) /\ TakerOutside(Q) /\ CursorAtHead

LEMMA BookTypes ==
    ASSUME TypeOK
    PROVE  /\ order \in [Node -> [id : OrderId, side : Side, price : Price]]
           /\ qty \in [Node -> Quantity]
           /\ prev \in [Node -> Node \cup {Null}] /\ next \in [Node -> Node \cup {Null}]
           /\ keys \in [Side -> SUBSET Price] /\ level \in [Side -> [Price -> PriceLevel]]
           /\ submitted \in Nat /\ best \in Price
           /\ QtyMod \in Nat \ {0} /\ Price \subseteq Nat
BY QtyModAssumption, PriceAssumption, MaxOrdersAssumption DEF TypeOK, BookTypeOK

LEMMA SubmitInv ==
    ASSUME TypeOK, NEW Q, EngineInv(Q), NEW n \in Node, NEW s \in Side, NEW p \in Price,
           NEW q, Submit(n, s, p, q)
    PROVE  EngineInv(Q)'
<1>1. ~Queued(Q, n)
  BY RestingIsQueue DEF EngineInv, Submit
<1>2. /\ order' = [order EXCEPT ![n] = [id |-> submitted + 1, side |-> s, price |-> p]]
      /\ submitted' = submitted + 1 /\ pc = "idle" /\ pc' = "outer" /\ incoming' = n
      /\ prev' = [prev EXCEPT ![n] = Null] /\ next' = [next EXCEPT ![n] = Null]
      /\ UNCHANGED <<keys, level>>
  BY DEF Submit
<1>3. \A m \in Node : Queued(Q, m) => order'[m] = order[m]
  BY <1>1, <1>2, BookTypes
<1>4. Linked(Q)'
  <2>1. prev[n] = Null /\ next[n] = Null
    BY <1>1 DEF EngineInv, Linked
  <2>2. prev' = prev /\ next' = next
    BY <1>2, <2>1, BookTypes
  <2> QED BY <1>2, <1>3, <2>2, LinkedUntouched DEF EngineInv
<1>5. \A z \in Side, r \in Price : \A k \in 1 .. Len(Q[z][r]) :
          Q[z][r][k] \in Node /\ order'[Q[z][r][k]] = order[Q[z][r][k]]
  BY <1>3 DEF Queued, EngineInv, Linked, Queues
<1>6. Ranked(Q)'
  BY <1>5 DEF EngineInv, Ranked
<1>7. /\ submitted \in Nat
      /\ \A m \in Node : Queued(Q, m) => order'[m].id \in 1 .. submitted
  BY <1>3, BookTypes DEF EngineInv, Arrived
<1>8. Arrived(Q)'
  <2>1. \A m \in Node : Queued(Q, m) => order'[m].id \in 1 .. submitted'
    BY <1>2, <1>7
  <2> QED BY <1>3, <2>1 DEF EngineInv, Arrived, Queued
<1>9. TakerOutside(Q)'
  <2>1. order'[n].id = submitted' /\ submitted' > 0
    BY <1>2, BookTypes
  <2>2. \A m \in Node : Queued(Q, m) => order'[m].id # submitted'
    BY <1>2, <1>7
  <2> QED BY <1>1, <1>2, <2>1, <2>2 DEF TakerOutside, Queued
<1>10. CursorAtHead'
  BY <1>2 DEF CursorAtHead
<1> QED BY <1>4, <1>6, <1>8, <1>9, <1>10 DEF EngineInv

(* The head of the loop, and leaving a level: the sequences stay.             *)
LEMMA CursorMoves ==
    ASSUME NEW Q, EngineInv(Q), pc # "idle",
           UNCHANGED <<order, prev, next, keys, level, submitted, incoming>>
    PROVE  Linked(Q)' /\ Ranked(Q)' /\ Arrived(Q)' /\ TakerOutside(Q)'
<1>1. Linked(Q)'
  BY LinkedUntouched DEF EngineInv
<1>2. Ranked(Q)' /\ Arrived(Q)' /\ TakerOutside(Q)'
  BY DEF EngineInv, Queued, Ranked, Arrived, TakerOutside
<1> QED BY <1>1, <1>2

LEMMA TakeBestInv ==
    ASSUME TypeOK, NEW Q, EngineInv(Q), TakeBestLevel
    PROVE  EngineInv(Q)'
<1>1. /\ UNCHANGED <<bookVars, submitted, incoming>> /\ pc = "outer" /\ pc' = "inner"
      /\ IsBest(maker_side, best') /\ Crosses(best')
      /\ resting_order' = level[maker_side][best'].head
  BY DEF TakeBestLevel
<1>2. Linked(Q)' /\ Ranked(Q)' /\ Arrived(Q)' /\ TakerOutside(Q)'
  BY <1>1, CursorMoves DEF bookVars
<1>3. CursorAtHead'
  BY <1>1 DEF bookVars, CursorAtHead, IsBest, Crosses, maker_side, taker_side
<1> QED BY <1>2, <1>3 DEF EngineInv

LEMMA StopInv ==
    ASSUME TypeOK, NEW Q, EngineInv(Q), StopMatching
    PROVE  EngineInv(Q)'
<1>1. UNCHANGED <<bookVars, submitted, incoming>> /\ pc = "outer" /\ pc' = "rest"
  BY DEF StopMatching
<1>2. Linked(Q)' /\ Ranked(Q)' /\ Arrived(Q)' /\ TakerOutside(Q)'
  BY <1>1, CursorMoves DEF bookVars
<1>3. CursorAtHead'
  BY <1>1 DEF CursorAtHead
<1> QED BY <1>2, <1>3 DEF EngineInv

(* What check_remove_level does to heads, tails and keys.                     *)
CheckKeeps(K, L, s, p) ==
    \A z \in Side, q \in Price :
        /\ LevelAfterCheck(L, s, p)[z][q].head = L[z][q].head
        /\ LevelAfterCheck(L, s, p)[z][q].tail = L[z][q].tail
        /\ q \in K[z] /\ q \notin KeysAfterCheck(K, L, s, p)[z] =>
               z = s /\ q = p /\ L[s][p].head = Null

(* It does so when a level without a head has no tail either.                 *)
LEMMA CheckKeepsLists ==
    ASSUME NEW K \in [Side -> SUBSET Price], NEW L \in [Side -> [Price -> PriceLevel]],
           NEW s \in Side, NEW p \in Price, L[s][p].head = Null => L[s][p].tail = Null
    PROVE  CheckKeeps(K, L, s, p)
<1> SUFFICES ASSUME NEW z \in Side, NEW q \in Price
             PROVE  /\ LevelAfterCheck(L, s, p)[z][q].head = L[z][q].head
                    /\ LevelAfterCheck(L, s, p)[z][q].tail = L[z][q].tail
                    /\ q \in K[z] /\ q \notin KeysAfterCheck(K, L, s, p)[z] =>
                          z = s /\ q = p /\ L[s][p].head = Null
  BY DEF CheckKeeps
<1>1. CASE L[s][p].head = Null
  <2>1. SetLevel(L, s, p, NewLevel)[z][q] = IF z = s /\ q = p THEN NewLevel ELSE L[z][q]
    BY DEF SetLevel
  <2>2. NewLevel.head = Null /\ NewLevel.tail = Null
    BY DEF NewLevel
  <2> QED BY <1>1, <2>1, <2>2 DEF LevelAfterCheck, KeysAfterCheck
<1>2. CASE L[s][p].head # Null
  BY <1>2 DEF LevelAfterCheck, KeysAfterCheck
<1> QED BY <1>1, <1>2

LEMMA LeaveInv ==
    ASSUME TypeOK, NEW Q, EngineInv(Q), LeaveLevel
    PROVE  EngineInv(Q)'
<1>1. /\ UNCHANGED <<order, qty, prev, next, submitted, incoming>> /\ pc = "inner" /\ pc' = "outer"
      /\ keys' = KeysAfterCheck(keys, level, maker_side, best)
      /\ level' = LevelAfterCheck(level, maker_side, best)
  BY DEF LeaveLevel
<1>2. maker_side \in Side /\ best \in Price
  BY <1>1, SidesType, BookTypes
<1>3. level[maker_side][best].head = Null => level[maker_side][best].tail = Null
  <2> DEFINE l == Q[maker_side][best]
  <2>1. l \in Seq(Node) /\ level[maker_side][best].head = At(l, 1)
        /\ level[maker_side][best].tail = At(l, Len(l))
    BY <1>2 DEF EngineInv, Linked, Queues
  <2> HIDE DEF l
  <2>2. Len(l) \in Nat /\ \A k \in 1 .. Len(l) : l[k] # Null
    BY <2>1, NullAssumption
  <2> QED BY <2>1, <2>2 DEF At
<1>4. Linked(Q)'
  <2>1. \A z \in Side, q \in Price :
               /\ level'[z][q].head = level[z][q].head /\ level'[z][q].tail = level[z][q].tail
               /\ q \in keys[z] /\ q \notin keys'[z] => level[z][q].head = Null
    <3>1. PICK s \in Side, p \in Price, K \in [Side -> SUBSET Price],
               L \in [Side -> [Price -> PriceLevel]] :
               s = maker_side /\ p = best /\ K = keys /\ L = level
      BY <1>2, BookTypes, Zenon
    <3>2. keys' = KeysAfterCheck(K, L, s, p) /\ level' = LevelAfterCheck(L, s, p)
      BY <1>1, <3>1, Zenon
    <3>3. L[s][p].head = Null => L[s][p].tail = Null
      BY <1>3, <3>1, Zenon
    <3>4. CheckKeeps(K, L, s, p)
      BY <3>3, CheckKeepsLists
    <3> QED BY <3>1, <3>2, <3>4, Zenon DEF CheckKeeps
  <2> QED BY <1>1, <2>1, LinkedUntouched DEF EngineInv
<1>5. Ranked(Q)' /\ Arrived(Q)' /\ TakerOutside(Q)'
  BY <1>1 DEF EngineInv, Queued, Ranked, Arrived, TakerOutside
<1>6. CursorAtHead'
  BY <1>1 DEF CursorAtHead
<1> QED BY <1>4, <1>5, <1>6 DEF EngineInv

(* A node leaves the book: what remains is still ranked, with its own ids.    *)
LEMMA RemovedRanks ==
    ASSUME NEW Q, Linked(Q), Ranked(Q), Arrived(Q), NEW s \in Side, NEW p \in Price,
           NEW i \in 1 .. Len(Q[s][p]), order' = order, submitted' = submitted,
           \A m \in Node : Queued(Removed(Q, s, p, i), m) <=> Queued(Q, m) /\ m # Q[s][p][i]
    PROVE  Ranked(Removed(Q, s, p, i))' /\ Arrived(Removed(Q, s, p, i))'
<1> DEFINE l == Q[s][p]
           w == Without(l, i)
           R == Removed(Q, s, p, i)
<1>1. l \in Seq(Node) /\ Len(l) \in Nat /\ i \in 1 .. Len(l)
  BY DEF Linked, Queues
<1>2. /\ Len(w) = Len(l) - 1
      /\ \A k \in 1 .. Len(l) - 1 : w[k] = IF k < i THEN l[k] ELSE l[k + 1]
  BY <1>1, WithoutList
<1>3. \A z \in Side, q \in Price : R[z][q] = IF z = s /\ q = p THEN w ELSE Q[z][q]
  BY DEF Linked, Queues, Removed
<1>4. \A j, k \in 1 .. Len(l) : j < k => order[l[j]].id < order[l[k]].id
  BY DEF Ranked
<1> HIDE DEF l, w, R
<1>5. \A j, k \in 1 .. Len(w) : j < k => order[w[j]].id < order[w[k]].id
  <2>1. SUFFICES ASSUME NEW j \in 1 .. Len(w), NEW k \in 1 .. Len(w), j < k
                 PROVE  order[w[j]].id < order[w[k]].id
    OBVIOUS
  <2>2. PICK a \in 1 .. Len(l) : w[j] = l[a] /\ a = IF j < i THEN j ELSE j + 1
    BY <1>1, <1>2
  <2>3. PICK b \in 1 .. Len(l) : w[k] = l[b] /\ b = IF k < i THEN k ELSE k + 1
    BY <1>1, <1>2
  <2>4. a < b
    BY <1>1, <1>2, <2>1, <2>2, <2>3
  <2> QED BY <1>4, <2>2, <2>3, <2>4
<1>6. ASSUME NEW z \in Side, NEW q \in Price
      PROVE  \A j, k \in 1 .. Len(R[z][q]) :
                 j < k => order'[R[z][q][j]].id < order'[R[z][q][k]].id
  <2>1. CASE z = s /\ q = p
    BY <1>3, <1>5, <2>1
  <2>2. CASE z # s \/ q # p
    BY <1>3, <2>2 DEF Ranked
  <2> QED BY <2>1, <2>2
<1>7. Ranked(R)'
  BY <1>6 DEF Ranked
<1>8. \A m \in Node : Queued(R, m) => Queued(Q, m)
  BY DEF R
<1>9. Arrived(R)'
  <2>1. \A m \in Node : Queued(R, m) => order'[m].id \in 1 .. submitted'
    BY <1>8 DEF Arrived
  <2>2. \A m, o \in Node :
            Queued(R, m) /\ Queued(R, o) /\ order'[m].id = order'[o].id => m = o
    BY <1>8 DEF Arrived
  <2> QED BY <2>1, <2>2 DEF Arrived, Queued
<1> QED BY <1>7, <1>9 DEF R

(* The order the cursor points at is the first of the best level.             *)
LEMMA CursorOrder ==
    ASSUME TypeOK, NEW Q, EngineInv(Q), MatchOne
    PROVE  /\ maker_side \in Side /\ best \in Price /\ incoming \in Node
           /\ Len(Q[maker_side][best]) \in Nat \ {0}
           /\ resting_order = Q[maker_side][best][1] /\ resting_order \in Node
           /\ resting_order # incoming /\ Queued(Q, resting_order)
           /\ order[resting_order].side = maker_side /\ order[resting_order].price = best
           /\ next[resting_order] = At(Q[maker_side][best], 2)
<1>1. pc = "inner" /\ resting_order # Null /\ qty[incoming] > 0
  BY DEF MatchOne
<1>2. maker_side \in Side /\ best \in Price /\ incoming \in Node
  BY <1>1, SidesType, BookTypes DEF TypeOK
<1> DEFINE l == Q[maker_side][best]
<1>3. l \in Seq(Node) /\ resting_order = At(l, 1)
      /\ Placed(l, maker_side, best)
  BY <1>1, <1>2 DEF EngineInv, CursorAtHead, Linked, Queues
<1>4. Len(l) \in Nat \ {0} /\ resting_order = l[1] /\ 1 \in 1 .. Len(l)
  <2> HIDE DEF l
  <2> QED BY <1>1, <1>3 DEF At
<1>5. Queued(Q, resting_order)
  BY <1>2, <1>4 DEF Queued
<1>6. resting_order # incoming
  BY <1>1, <1>5 DEF EngineInv, TakerOutside
<1>7. resting_order \in Node
  <2> HIDE DEF l
  <2> QED BY <1>3, <1>4
<1>8. order[l[1]].side = maker_side /\ order[l[1]].price = best /\ next[l[1]] = At(l, 2)
  <2>1. order[l[1]].side = maker_side /\ order[l[1]].price = best /\ next[l[1]] = At(l, 1 + 1)
    <3> HIDE DEF l
    <3> QED BY <1>3, <1>4 DEF Placed
  <2> QED BY <2>1
<1> QED BY <1>2, <1>4, <1>5, <1>6, <1>7, <1>8

(* One iteration of the inner loop: the smaller quantity is taken from both.  *)
LEMMA MatchQuantities ==
    ASSUME TypeOK, MatchOne, resting_order \in Node, incoming \in Node, resting_order # incoming
    PROVE  LET t == IF qty[incoming] < qty[resting_order] THEN qty[incoming]
                                                          ELSE qty[resting_order]
           IN  /\ t \in Quantity /\ t <= qty[incoming] /\ t <= qty[resting_order]
               /\ qty' = [qty EXCEPT ![incoming] = qty[incoming] - t,
                                     ![resting_order] = qty[resting_order] - t]
               /\ qty'[incoming] = qty[incoming] - t
               /\ qty'[resting_order] = qty[resting_order] - t
               /\ \A m \in Node : m # incoming /\ m # resting_order => qty'[m] = qty[m]
               /\ qty'[resting_order] = 0 \/ qty'[incoming] = 0
               /\ (qty[resting_order] = t) <=> (qty'[resting_order] = 0)
<1>1. qty \in [Node -> 0 .. (QtyMod - 1)] /\ QtyMod \in Nat \ {0}
  BY BookTypes DEF Quantity
<1> DEFINE t == IF qty[incoming] < qty[resting_order] THEN qty[incoming]
                                                      ELSE qty[resting_order]
<1>2. qty' = [qty EXCEPT ![incoming] = @ - t, ![resting_order] = @ - t]
  BY DEF MatchOne
<1>3. qty[incoming] \in 0 .. (QtyMod - 1) /\ qty[resting_order] \in 0 .. (QtyMod - 1)
  BY <1>1
<1>4. t \in 0 .. (QtyMod - 1) /\ t <= qty[incoming] /\ t <= qty[resting_order]
      /\ (t = qty[incoming] \/ t = qty[resting_order])
  BY <1>1, <1>3
<1> HIDE DEF t
<1>5. /\ qty'[incoming] = qty[incoming] - t /\ qty'[resting_order] = qty[resting_order] - t
      /\ \A m \in Node : m # incoming /\ m # resting_order => qty'[m] = qty[m]
      /\ qty' = [qty EXCEPT ![incoming] = qty[incoming] - t,
                            ![resting_order] = qty[resting_order] - t]
  BY <1>1, <1>2
<1> QED BY <1>1, <1>3, <1>4, <1>5 DEF t, Quantity

(* Volumes do not matter to heads and tails.                                  *)
LEMMA VolumeApart ==
    ASSUME TypeOK, NEW lv \in PriceLevel, NEW n \in Node, NEW v \in Quantity
    PROVE  /\ SubVolume(lv, v).head = lv.head /\ SubVolume(lv, v).tail = lv.tail
           /\ SubVolume(lv, v) \in PriceLevel
           /\ UnlinkedLevel(SubVolume(lv, v), n).head = UnlinkedLevel(lv, n).head
           /\ UnlinkedLevel(SubVolume(lv, v), n).tail = UnlinkedLevel(lv, n).tail
           /\ SubVolume(UnlinkedLevel(lv, n), v).head = UnlinkedLevel(lv, n).head
           /\ SubVolume(UnlinkedLevel(lv, n), v).tail = UnlinkedLevel(lv, n).tail
           /\ SubVolume(UnlinkedLevel(lv, n), v) \in PriceLevel
<1>1. SubVolume(lv, v) \in PriceLevel /\ UnlinkedLevel(lv, n) \in PriceLevel
  BY AddVolumeType, UnlinkedLevelType DEF TypeOK
<1>2. SubVolume(UnlinkedLevel(lv, n), v) \in PriceLevel
  BY <1>1, AddVolumeType
<1>3. \A x \in PriceLevel : SubVolume(x, v).head = x.head /\ SubVolume(x, v).tail = x.tail
  BY DEF SubVolume, PriceLevel
<1>4. \A x \in PriceLevel :
         /\ UnlinkedLevel(x, n).head = IF prev[n] = Null THEN next[n] ELSE x.head
         /\ UnlinkedLevel(x, n).tail = IF next[n] = Null THEN prev[n] ELSE x.tail
  BY DEF UnlinkedLevel, PriceLevel
<1> QED BY <1>1, <1>2, <1>3, <1>4

(* One iteration of the inner loop: a filled maker leaves from the front.     *)
LEMMA MatchInv ==
    ASSUME TypeOK, NEW Q, EngineInv(Q), MatchOne, NEW s, NEW p, s = maker_side, p = best
    PROVE  /\ qty'[resting_order] = 0 => EngineInv(Removed(Q, s, p, 1))'
           /\ qty'[resting_order] # 0 => EngineInv(Q)'
<1> DEFINE r == resting_order
           l == Q[s][p]
           t == IF qty[incoming] < qty[resting_order] THEN qty[incoming] ELSE qty[resting_order]
<1>1. /\ s \in Side /\ p \in Price /\ incoming \in Node /\ Len(l) \in Nat \ {0}
      /\ r = l[1] /\ r \in Node /\ r # incoming /\ Queued(Q, r)
      /\ order[r].side = s /\ order[r].price = p /\ next[r] = At(l, 2)
  BY CursorOrder
<1>2. /\ t \in Quantity /\ t <= qty[incoming] /\ t <= qty[r]
      /\ qty'[r] = 0 \/ qty'[incoming] = 0
      /\ (qty[r] = t) <=> (qty'[r] = 0)
  BY <1>1, MatchQuantities
<1>3. /\ pc = "inner" /\ pc' = "inner" /\ resting_order' = next[r]
      /\ UNCHANGED <<order, keys, submitted, incoming, best>>
      /\ maker_side' = maker_side
  BY DEF MatchOne, maker_side, taker_side
<1>4. /\ level[s][p] \in PriceLevel /\ level \in [Side -> [Price -> PriceLevel]]
  BY <1>1, BookTypes
<1>5. CASE qty[r] = t
  <2>1. qty'[r] = 0
    BY <1>2, <1>5
  <2>2. Unlink(r) /\ level' = SetLevel(level, s, p, UnlinkedLevel(SubVolume(level[s][p], t), r))
    BY <1>5 DEF MatchOne
  <2>3. \A z \in Side, q \in Price :
           LET lv == IF z = s /\ q = p THEN UnlinkedLevel(level[s][p], l[1]) ELSE level[z][q]
           IN  level'[z][q].head = lv.head /\ level'[z][q].tail = lv.tail
    <3>1. level'[s][p] = UnlinkedLevel(SubVolume(level[s][p], t), r)
          /\ \A z \in Side, q \in Price : z # s \/ q # p => level'[z][q] = level[z][q]
      BY <1>1, <1>4, <2>2 DEF SetLevel
    <3>2. /\ UnlinkedLevel(SubVolume(level[s][p], t), r).head = UnlinkedLevel(level[s][p], r).head
          /\ UnlinkedLevel(SubVolume(level[s][p], t), r).tail = UnlinkedLevel(level[s][p], r).tail
      BY <1>1, <1>2, <1>4, VolumeApart
    <3> HIDE DEF t, l
    <3> QED BY <1>1, <3>1, <3>2
  <2>4. 1 \in 1 .. Len(l)
    BY <1>1
  <2>5. Linked(Removed(Q, s, p, 1))'
        /\ \A m \in Node : Queued(Removed(Q, s, p, 1), m) <=> Queued(Q, m) /\ m # l[1]
    <3>1. BookTypeOK /\ Linked(Q) /\ Unlink(Q[s][p][1]) /\ order' = order /\ keys' = keys
      BY <1>1, <1>3, <2>2 DEF TypeOK, EngineInv
    <3> QED BY <1>1, <2>3, <2>4, <3>1, RemoveLinked
  <2>6. Ranked(Removed(Q, s, p, 1))' /\ Arrived(Removed(Q, s, p, 1))'
    BY <1>1, <1>3, <2>4, <2>5, RemovedRanks DEF EngineInv
  <2>7. TakerOutside(Removed(Q, s, p, 1))'
    <3>1. \A m \in Node : Queued(Removed(Q, s, p, 1), m) => Queued(Q, m)
      BY <2>5
    <3>2. pc # "idle" => /\ ~Queued(Q, incoming) /\ submitted > 0 /\ order[incoming].id = submitted
                         /\ \A m \in Node : Queued(Q, m) => order[m].id # submitted
      BY DEF EngineInv, TakerOutside
    <3>3. /\ pc' = pc /\ incoming' = incoming /\ submitted' = submitted /\ order' = order
          /\ incoming \in Node
      BY <1>1, <1>3
    <3>4. pc' # "idle" => /\ ~Queued(Removed(Q, s, p, 1), incoming')
                          /\ submitted' > 0 /\ order'[incoming'].id = submitted'
                          /\ \A m \in Node : Queued(Removed(Q, s, p, 1), m) =>
                                 order'[m].id # submitted'
      BY <3>1, <3>2, <3>3, Zenon
    <3> QED BY <3>4, Zenon DEF TakerOutside, Queued
  <2>8. IsBest(s, p) /\ Crosses(p)
    BY <1>1, <1>3 DEF EngineInv, CursorAtHead
  <2>9. level'[s][p].head = next[r]
    <3>1. level'[s][p].head = UnlinkedLevel(level[s][p], l[1]).head
      BY <1>1, <2>3
    <3>2. prev[r] = Null
      <4>1. Placed(l, s, p)
        BY <1>1 DEF EngineInv, Linked
      <4> HIDE DEF l
      <4>2. prev[l[1]] = At(l, 0)
        BY <2>4, <4>1 DEF Placed
      <4> QED BY <1>1, <4>2 DEF At
    <3>3. UnlinkedLevel(level[s][p], r).head = next[r]
      BY <1>4, <3>2 DEF UnlinkedLevel, PriceLevel
    <3> QED BY <1>1, <3>1, <3>3
  <2>10. CursorAtHead'
    BY <1>1, <1>3, <2>8, <2>9 DEF CursorAtHead, IsBest, Crosses, taker_side
  <2> QED BY <2>1, <2>5, <2>6, <2>7, <2>10 DEF EngineInv
<1>6. CASE qty[r] # t
  <2>1. qty'[r] # 0 /\ qty'[incoming] = 0
    BY <1>2, <1>6
  <2>2. prev' = prev /\ next' = next
        /\ level' = SetLevel(level, s, p, SubVolume(level[s][p], t))
    BY <1>6 DEF MatchOne
  <2>3. \A z \in Side, q \in Price :
           level'[z][q].head = level[z][q].head /\ level'[z][q].tail = level[z][q].tail
    <3>1. level'[s][p] = SubVolume(level[s][p], t)
          /\ \A z \in Side, q \in Price : z # s \/ q # p => level'[z][q] = level[z][q]
      BY <1>1, <1>4, <2>2 DEF SetLevel
    <3>2. /\ SubVolume(level[s][p], t).head = level[s][p].head
          /\ SubVolume(level[s][p], t).tail = level[s][p].tail
      BY <1>1, <1>2, <1>4, VolumeApart
    <3> QED BY <3>1, <3>2
  <2>4. Linked(Q)'
    BY <1>3, <2>2, <2>3, LinkedUntouched DEF EngineInv
  <2>5. Ranked(Q)' /\ Arrived(Q)' /\ TakerOutside(Q)'
    BY <1>3 DEF EngineInv, Queued, Ranked, Arrived, TakerOutside
  <2>6. IsBest(s, p) /\ Crosses(p)
    BY <1>1, <1>3 DEF EngineInv, CursorAtHead
  <2>7. CursorAtHead'
    BY <1>1, <1>3, <2>1, <2>6 DEF CursorAtHead, IsBest, Crosses, taker_side
  <2> QED BY <2>1, <2>4, <2>5, <2>7 DEF EngineInv
<1> QED BY <1>5, <1>6

(* What is left of the incoming order goes behind the orders of its level:    *)
(* its id is the newest, so the level stays ranked.                           *)
LEMMA PushedRanks ==
    ASSUME NEW Q, Linked(Q), Ranked(Q), Arrived(Q), NEW s \in Side, NEW p \in Price,
           NEW n \in Node, order' = order, submitted' = submitted, submitted \in Nat,
           order[n].id \in 1 .. submitted,
           \A m \in Node : Queued(Q, m) => order[m].id < order[n].id,
           \A m \in Node : Queued(Pushed(Q, s, p, n), m) <=> Queued(Q, m) \/ m = n
    PROVE  Ranked(Pushed(Q, s, p, n))' /\ Arrived(Pushed(Q, s, p, n))'
<1> DEFINE l == Q[s][p]
           w == Append(l, n)
           R == Pushed(Q, s, p, n)
<1>1. l \in Seq(Node) /\ Len(l) \in Nat
  BY DEF Linked, Queues
<1>2. /\ Len(w) = Len(l) + 1 /\ w[Len(l) + 1] = n
      /\ \A k \in 1 .. Len(l) : w[k] = l[k]
  BY <1>1, AppendList
<1>3. \A z \in Side, q \in Price : R[z][q] = IF z = s /\ q = p THEN w ELSE Q[z][q]
  BY DEF Linked, Queues, Pushed
<1>4. \A j, k \in 1 .. Len(l) : j < k => order[l[j]].id < order[l[k]].id
  BY DEF Ranked
<1>5. \A k \in 1 .. Len(l) : order[l[k]].id < order[n].id
  BY <1>1 DEF Queued
<1> HIDE DEF l, w, R
<1>6. \A j, k \in 1 .. Len(w) : j < k => order[w[j]].id < order[w[k]].id
  <2>1. SUFFICES ASSUME NEW j \in 1 .. Len(w), NEW k \in 1 .. Len(w), j < k
                 PROVE  order[w[j]].id < order[w[k]].id
    OBVIOUS
  <2>2. j \in 1 .. Len(l) /\ w[j] = l[j]
    BY <1>1, <1>2, <2>1
  <2>3. (k \in 1 .. Len(l) /\ w[k] = l[k]) \/ w[k] = n
    BY <1>1, <1>2
  <2> QED BY <1>4, <1>5, <2>1, <2>2, <2>3
<1>7. ASSUME NEW z \in Side, NEW q \in Price
      PROVE  \A j, k \in 1 .. Len(R[z][q]) :
                 j < k => order'[R[z][q][j]].id < order'[R[z][q][k]].id
  <2>1. CASE z = s /\ q = p
    BY <1>3, <1>6, <2>1
  <2>2. CASE z # s \/ q # p
    BY <1>3, <2>2 DEF Ranked
  <2> QED BY <2>1, <2>2
<1>8. Ranked(R)'
  BY <1>7 DEF Ranked
<1>9. \A m \in Node : Queued(R, m) <=> Queued(Q, m) \/ m = n
  BY DEF R
<1>10. \A m \in Node : Queued(Q, m) => order[m].id # order[n].id
  <2>1. \A m \in Node : Queued(Q, m) => order[m].id \in 1 .. submitted
    BY DEF Arrived
  <2> QED BY <2>1
<1>11. \A m \in Node : Queued(R, m) => order'[m].id \in 1 .. submitted'
  BY <1>9 DEF Arrived
<1>12. \A a, b \in Node : Queued(R, a) /\ Queued(R, b) /\ order'[a].id = order'[b].id => a = b
  BY <1>9, <1>10 DEF Arrived
<1>13. Arrived(R)'
  BY <1>11, <1>12 DEF Arrived, Queued
<1> QED BY <1>8, <1>13 DEF R

LEMMA RestInv ==
    ASSUME TypeOK, NEW Q, EngineInv(Q), RestAndReturn, NEW s, NEW p, NEW n,
           n = incoming, s = order[n].side, p = order[n].price
    PROVE  /\ qty[n] > 0 => EngineInv(Pushed(Q, s, p, n))'
           /\ ~(qty[n] > 0) => EngineInv(Q)'
<1>1. /\ pc = "rest" /\ pc' = "idle" /\ submitted' = submitted
      /\ n \in Node /\ s \in Side /\ p \in Price /\ submitted \in Nat
  BY SidesType, BookTypes DEF RestAndReturn
<1>2. CASE qty[n] > 0
  <2>1. InsertOrder(incoming) /\ order' = order
    BY <1>2 DEF RestAndReturn, InsertOrder
  <2>3. ~Queued(Q, n) /\ order[n].id = submitted /\ submitted > 0
        /\ \A m \in Node : Queued(Q, m) => order[m].id \in 1 .. submitted /\ order[m].id # submitted
    BY <1>1 DEF EngineInv, TakerOutside, Arrived
  <2>4. /\ Linked(Pushed(Q, s, p, n))'
        /\ \A m \in Node : Queued(Pushed(Q, s, p, n), m) <=> Queued(Q, m) \/ m = n
    BY <1>1, <2>1, <2>3, InsertLinked DEF TypeOK, EngineInv
  <2>5. order[n].id \in 1 .. submitted
        /\ \A m \in Node : Queued(Q, m) => order[m].id < order[n].id
    BY <1>1, <2>3
  <2>6. Ranked(Pushed(Q, s, p, n))' /\ Arrived(Pushed(Q, s, p, n))'
    BY <1>1, <2>1, <2>4, <2>5, PushedRanks DEF EngineInv
  <2>7. TakerOutside(Pushed(Q, s, p, n))' /\ CursorAtHead'
    BY <1>1 DEF TakerOutside, CursorAtHead
  <2> QED BY <1>2, <2>4, <2>6, <2>7 DEF EngineInv
<1>3. CASE ~(qty[n] > 0)
  <2>1. UNCHANGED bookVars
    BY <1>3 DEF RestAndReturn
  <2>2. Linked(Q)'
    BY <2>1, LinkedUntouched DEF bookVars, EngineInv
  <2>3. Ranked(Q)' /\ Arrived(Q)' /\ TakerOutside(Q)' /\ CursorAtHead'
    BY <1>1, <2>1 DEF bookVars, EngineInv, Queued, Ranked, Arrived, TakerOutside, CursorAtHead
  <2> QED BY <1>3, <2>2, <2>3 DEF EngineInv
<1> QED BY <1>2, <1>3

(* cancel_order of an order on the book takes exactly it out of its level.    *)
LEMMA CancelInv ==
    ASSUME TypeOK, NEW Q, EngineInv(Q), NEW n \in Node, Cancel(n)
    PROVE  \E s \in Side, p \in Price : \E i \in 1 .. Len(Q[s][p]) :
               /\ n = Q[s][p][i] /\ s = order[n].side /\ p = order[n].price
               /\ EngineInv(Removed(Q, s, p, i))'
               /\ \A m \in Node : Queued(Removed(Q, s, p, i), m) <=> Queued(Q, m) /\ m # n
<1>1. /\ pc = "idle" /\ n \in OnBook /\ CancelOrder(n) /\ pc' = "idle" /\ submitted' = submitted
  BY DEF Cancel, engineVars
<1>a. PICK s \in Side, p \in Price : \E k \in 1 .. Len(Q[s][p]) : n = Q[s][p][k]
  BY <1>1, RestingIsQueue DEF EngineInv, Queued
<1>2. PICK i \in 1 .. Len(Q[s][p]) : n = Q[s][p][i]
  BY <1>a
<1> DEFINE l == Q[s][p]
           lv == SubVolume(UnlinkedLevel(level[s][p], n), qty[n])
           L == SetLevel(level, s, p, lv)
<1>3. /\ l \in Seq(Node) /\ Len(l) \in Nat /\ Placed(l, s, p) /\ l # <<>> /\ p \in keys[s]
      /\ level[s][p].head = At(l, 1) /\ level[s][p].tail = At(l, Len(l)) /\ Distinct(l)
  BY <1>2 DEF EngineInv, Linked, Queues
<1>4. order[n].side = s /\ order[n].price = p /\ prev[n] = At(l, i - 1) /\ next[n] = At(l, i + 1)
  BY <1>2, <1>3 DEF Placed
<1>5. /\ Unlink(n) /\ order' = order
      /\ keys' = KeysAfterCheck(keys, L, s, p) /\ level' = LevelAfterCheck(L, s, p)
  BY <1>1, <1>3, <1>4 DEF CancelOrder
<1>6. /\ level[s][p] \in PriceLevel /\ lv \in PriceLevel
      /\ L \in [Side -> [Price -> PriceLevel]] /\ keys \in [Side -> SUBSET Price]
      /\ lv.head = UnlinkedLevel(level[s][p], n).head
      /\ lv.tail = UnlinkedLevel(level[s][p], n).tail
  <2>1. /\ level[s][p] \in PriceLevel /\ qty[n] \in Quantity
        /\ level \in [Side -> [Price -> PriceLevel]] /\ keys \in [Side -> SUBSET Price]
    BY BookTypes
  <2>2. lv \in PriceLevel /\ lv.head = UnlinkedLevel(level[s][p], n).head
        /\ lv.tail = UnlinkedLevel(level[s][p], n).tail
    BY <2>1, VolumeApart
  <2> HIDE DEF lv
  <2> QED BY <2>1, <2>2, SetLevelType
<1>7. L[s][p] = lv /\ \A z \in Side, q \in Price : z # s \/ q # p => L[z][q] = level[z][q]
  <2> HIDE DEF lv
  <2> QED BY BookTypes DEF SetLevel
<1>8. /\ lv.head = IF prev[n] = Null THEN next[n] ELSE level[s][p].head
      /\ lv.tail = IF next[n] = Null THEN prev[n] ELSE level[s][p].tail
  BY <1>6 DEF UnlinkedLevel, PriceLevel
<1> HIDE DEF l, lv, L
<1>9. lv.head = Null => Len(l) = 1 /\ lv.tail = Null
  <2>1. \A k \in 1 .. Len(l) : l[k] # Null
    BY <1>3, NullAssumption
  <2>2. i \in 1 .. Len(l)
    BY DEF l
  <2>3. (At(l, i - 1) = Null <=> i = 1) /\ (At(l, i + 1) = Null <=> i = Len(l)) /\ At(l, 1) # Null
    BY <1>3, <2>1, <2>2 DEF At
  <2>4. CASE prev[n] = Null /\ next[n] = Null
    BY <1>4, <1>8, <2>3, <2>4
  <2>5. CASE ~(prev[n] = Null /\ next[n] = Null)
    BY <1>3, <1>8, <2>3, <2>5
  <2> QED BY <2>4, <2>5
<1>10. \A z \in Side, q \in Price :
          /\ level'[z][q].head = L[z][q].head /\ level'[z][q].tail = L[z][q].tail
          /\ q \in keys[z] /\ q \notin keys'[z] => z = s /\ q = p /\ L[s][p].head = Null
  <2>1. PICK K \in [Side -> SUBSET Price] : K = keys
    BY <1>6
  <2>2. PICK M \in [Side -> [Price -> PriceLevel]] : M = L
    BY <1>6
  <2>3. CheckKeeps(K, M, s, p)
    <3>1. M[s][p].head = Null => M[s][p].tail = Null
      BY <1>7, <1>9, <2>2
    <3> QED BY <3>1, CheckKeepsLists
  <2> QED BY <1>5, <2>1, <2>2, <2>3, Zenon DEF CheckKeeps
<1>11. /\ Linked(Removed(Q, s, p, i))'
       /\ \A m \in Node : Queued(Removed(Q, s, p, i), m) <=> Queued(Q, m) /\ m # Q[s][p][i]
  <2>1. BookTypeOK /\ Linked(Q) /\ Unlink(Q[s][p][i])
    BY <1>2, <1>5 DEF TypeOK, EngineInv
  <2>2. \A z \in Side, q \in Price :
               LET v == IF z = s /\ q = p THEN UnlinkedLevel(level[s][p], Q[s][p][i])
                                          ELSE level[z][q]
               IN  level'[z][q].head = v.head /\ level'[z][q].tail = v.tail
    BY <1>2, <1>6, <1>7, <1>10
  <2>3. \A z \in Side, q \in Price :
               q \in keys[z] /\ q \notin keys'[z] => z = s /\ q = p /\ Len(Q[s][p]) = 1
    BY <1>7, <1>9, <1>10 DEF l
  <2> QED BY <1>5, <2>1, <2>2, <2>3, RemoveLinked
<1>12. Ranked(Removed(Q, s, p, i))' /\ Arrived(Removed(Q, s, p, i))'
  BY <1>1, <1>5, <1>11, RemovedRanks DEF EngineInv
<1>13. TakerOutside(Removed(Q, s, p, i))' /\ CursorAtHead'
  BY <1>1 DEF TakerOutside, CursorAtHead
<1> QED BY <1>2, <1>4, <1>11, <1>12, <1>13 DEF EngineInv

(* reduce_order leaves the lists alone.                                       *)
LEMMA ReduceInv ==
    ASSUME TypeOK, NEW Q, EngineInv(Q), NEW n \in Node, NEW v \in Quantity, Reduce(n, v)
    PROVE  EngineInv(Q)'
<1>1. /\ pc = "idle" /\ pc' = "idle" /\ submitted' = submitted
      /\ UNCHANGED <<order, prev, next, keys>>
  BY DEF Reduce, ReduceOrder, engineVars, bookVars
<1>2. \A z \in Side, q \in Price :
          level'[z][q].head = level[z][q].head /\ level'[z][q].tail = level[z][q].tail
  <2> DEFINE s == order[n].side
             p == order[n].price
             d == qty[n] - v
  <2>1. /\ s \in Side /\ p \in Price /\ level[s][p] \in PriceLevel /\ qty[n] \in Quantity
        /\ level \in [Side -> [Price -> PriceLevel]]
    BY BookTypes
  <2>2. CASE level' = level
    BY <2>2
  <2>3. CASE v < qty[n] /\ level' = SetLevel(level, s, p, SubVolume(level[s][p], d))
    <3>1. d \in Quantity
      BY <2>1, <2>3, QtyModAssumption DEF Quantity
    <3>2. /\ SubVolume(level[s][p], d).head = level[s][p].head
          /\ SubVolume(level[s][p], d).tail = level[s][p].tail
      BY <2>1, <3>1, VolumeApart
    <3> HIDE DEF d
    <3>3. /\ level'[s][p] = SubVolume(level[s][p], d)
          /\ \A z \in Side, q \in Price : z # s \/ q # p => level'[z][q] = level[z][q]
      BY <2>1, <2>3 DEF SetLevel
    <3> QED BY <3>2, <3>3
  <2>4. level' = level \/ (v < qty[n] /\ level' = SetLevel(level, s, p, SubVolume(level[s][p], d)))
    BY DEF Reduce, ReduceOrder, bookVars
  <2> QED BY <2>2, <2>3, <2>4
<1>3. Linked(Q)'
  BY <1>1, <1>2, LinkedUntouched DEF EngineInv
<1>4. Ranked(Q)' /\ Arrived(Q)' /\ TakerOutside(Q)' /\ CursorAtHead'
  BY <1>1 DEF EngineInv, Queued, Ranked, Arrived, TakerOutside, CursorAtHead
<1> QED BY <1>3, <1>4 DEF EngineInv

LEMMA StutterInv ==
    ASSUME NEW Q, EngineInv(Q), UNCHANGED vars
    PROVE  EngineInv(Q)'
<1>1. Linked(Q)'
  BY LinkedUntouched DEF EngineInv, vars, bookVars
<1>2. Ranked(Q)' /\ Arrived(Q)' /\ TakerOutside(Q)'
  BY DEF EngineInv, Queued, Ranked, Arrived, TakerOutside, vars, bookVars, engineVars
<1>3. CursorAtHead'
  BY DEF EngineInv, CursorAtHead, IsBest, Crosses, maker_side, taker_side,
         vars, bookVars, engineVars
<1> QED BY <1>1, <1>2, <1>3 DEF EngineInv

(* The empty book stands for empty sequences.                                 *)
NoQueues == [s \in Side |-> [p \in Price |-> <<>>]]

LEMMA EmptyInv == BookInit /\ pc = "idle" => EngineInv(NoQueues)
<1> SUFFICES ASSUME BookInit, pc = "idle" PROVE EngineInv(NoQueues)
  OBVIOUS
<1>1. \A s \in Side, p \in Price : NoQueues[s][p] = <<>>
  BY DEF NoQueues
<1>2. \A n \in Node : ~Queued(NoQueues, n)
  BY <1>1 DEF Queued
<1>3. Linked(NoQueues)
  <2>1. NoQueues \in Queues
    BY DEF NoQueues, Queues
  <2>2. ASSUME NEW s \in Side, NEW p \in Price
        PROVE  level[s][p].head = At(<<>>, 1) /\ level[s][p].tail = At(<<>>, Len(<<>>))
    BY DEF BookInit, NewLevel, At
  <2>3. \A n \in Node : prev[n] = Null /\ next[n] = Null
    BY DEF BookInit
  <2> QED BY <1>1, <2>1, <2>2, <2>3 DEF Linked, Placed, Distinct
<1>4. Ranked(NoQueues) /\ Arrived(NoQueues) /\ TakerOutside(NoQueues) /\ CursorAtHead
  BY <1>1, <1>2 DEF Ranked, Arrived, TakerOutside, CursorAtHead
<1> QED BY <1>3, <1>4 DEF EngineInv

LEMMA InitInv == Init => EngineInv(NoQueues)
BY EmptyInv DEF Init

(* The inductive invariant of the lists: some sequences have it.              *)
ListInv == TypeOK /\ \E Q \in Queues : EngineInv(Q)

LEMMA ListStep == ListInv /\ [Next]_vars => ListInv'
<1> SUFFICES ASSUME ListInv, [Next]_vars PROVE ListInv'
  OBVIOUS
<1>1. TypeOK /\ TypeOK'
  BY NextType DEF ListInv
<1>2. PICK Q \in Queues : EngineInv(Q)
  BY DEF ListInv
<1>3. ASSUME NEW R, EngineInv(R)' PROVE ListInv'
  <2>1. R \in Queues
    BY <1>3 DEF EngineInv, Linked, Queues
  <2> QED BY <1>1, <1>3, <2>1 DEF ListInv
<1>4. ASSUME NEW n \in Node, NEW s \in Side, NEW p \in Price, NEW q \in OrderQty,
             Submit(n, s, p, q)
      PROVE  ListInv'
  BY <1>1, <1>2, <1>3, <1>4, SubmitInv
<1>5. CASE TakeBestLevel
  BY <1>1, <1>2, <1>3, <1>5, TakeBestInv
<1>6. CASE StopMatching
  BY <1>1, <1>2, <1>3, <1>6, StopInv
<1>7. CASE MatchOne
  <2>1. PICK s, p : s = maker_side /\ p = best
    OBVIOUS
  <2> QED BY <1>1, <1>2, <1>3, <1>7, <2>1, MatchInv
<1>8. CASE LeaveLevel
  BY <1>1, <1>2, <1>3, <1>8, LeaveInv
<1>9. CASE RestAndReturn
  <2>1. PICK n, s, p : n = incoming /\ s = order[n].side /\ p = order[n].price
    OBVIOUS
  <2> QED BY <1>1, <1>2, <1>3, <1>9, <2>1, RestInv
<1>10. ASSUME NEW n \in Node, Cancel(n) PROVE ListInv'
  BY <1>1, <1>2, <1>3, <1>10, CancelInv
<1>11. ASSUME NEW n \in Node, NEW v \in Quantity, Reduce(n, v) PROVE ListInv'
  BY <1>1, <1>2, <1>3, <1>11, ReduceInv
<1>12. CASE UNCHANGED vars
  BY <1>2, <1>3, <1>12, StutterInv
<1> QED
  BY <1>4, <1>5, <1>6, <1>7, <1>8, <1>9, <1>10, <1>11, <1>12 DEF Next, Match

THEOREM ListInvariant == Spec => []ListInv
<1>1. Init => ListInv
  BY InitType, InitInv DEF ListInv, EngineInv, Linked
<1> QED BY <1>1, ListStep, PTL DEF Spec

(* After every step of the engine the pointers of the book are what the lists *)
(* promise: every list ends, goes back the way it came, ends at its tail,     *)
(* holds orders of its own side and price, and a node off the book has null   *)
(* pointers: PriceLevel and IntrusiveList under any sequence of calls.        *)
THEOREM ListsAlwaysSound == Spec => []ListsSound
<1>1. ListInv => ListsSound
  BY LinkedIsSound DEF ListInv, EngineInv
<1> QED BY <1>1, ListInvariant, PTL

(* Induction over the subsets of a finite set.                                *)
LEMMA SubsetInduction ==
    ASSUME NEW U, IsFiniteSet(U), NEW F, {} \in F,
           \A T \in SUBSET U : \A x \in U \ T : T \in F => T \cup {x} \in F
    PROVE  SUBSET U \subseteq F
<1> DEFINE S == {n \in Nat : \A T \in SUBSET U : Cardinality(T) = n => T \in F}
<1>1. \A T \in SUBSET U : IsFiniteSet(T) /\ Cardinality(T) \in Nat
  BY FS_Subset, FS_CardinalityType
<1>2. 0 \in S
  BY <1>1, FS_EmptySet
<1>3. ASSUME NEW n \in Nat, n \in S PROVE n + 1 \in S
  <2>1. SUFFICES ASSUME NEW T \in SUBSET U, Cardinality(T) = n + 1 PROVE T \in F
    OBVIOUS
  <2>2. PICK x \in T : TRUE
    BY <1>1, <2>1, FS_EmptySet
  <2>3. Cardinality(T \ {x}) = n
    <3>1. IsFiniteSet(T)
      BY <1>1
    <3>2. Cardinality(T \ {x}) = IF x \in T THEN Cardinality(T) - 1 ELSE Cardinality(T)
      BY <3>1, FS_RemoveElement, Zenon
    <3> QED BY <2>1, <3>2
  <2>4. T \ {x} \in F /\ (T \ {x}) \cup {x} = T
    BY <1>3, <2>3
  <2> QED BY <2>4
<1> HIDE DEF S
<1>4. Nat \subseteq S
  BY <1>2, <1>3, SetInduction
<1> QED BY <1>1, <1>4 DEF S

(* The sum of q over the set S, and a set with as many elements: a unit for   *)
(* every node and every natural below its quantity.                           *)
Sum(q, S)   == MapThenSumSet(LAMBDA n : q[n], S)
Units(q, S) == {u \in S \X Nat : u[2] < q[u[1]]}

LEMMA UnitsCount ==
    ASSUME NEW U, IsFiniteSet(U), NEW q \in [U -> Nat]
    PROVE  /\ Cardinality(Units(q, {})) = 0
           /\ \A T \in SUBSET U :
                /\ Cardinality(Units(q, T)) \in Nat
                /\ \A x \in U \ T : Cardinality(Units(q, T \cup {x}))
                                        = Cardinality(Units(q, T)) + q[x]
<1>1. Units(q, {}) = {}
  BY DEF Units
<1>2. ASSUME NEW x \in U PROVE IsFiniteSet({x} \X (0 .. q[x] - 1))
                               /\ Cardinality({x} \X (0 .. q[x] - 1)) = q[x]
  <2>1. IsFiniteSet({x}) /\ Cardinality({x}) = 1
    BY FS_Singleton
  <2>2. q[x] \in Nat /\ 0 \in Int /\ q[x] - 1 \in Int
    OBVIOUS
  <2>3. IsFiniteSet(0 .. q[x] - 1) /\ Cardinality(0 .. q[x] - 1) = q[x]
    BY <2>2, FS_Interval
  <2> DEFINE I == 0 .. q[x] - 1
  <2> HIDE DEF I
  <2>4. IsFiniteSet({x} \X I) /\ Cardinality({x} \X I) = Cardinality({x}) * Cardinality(I)
    BY <2>1, <2>3, FS_Product, Zenon DEF I
  <2> QED BY <2>1, <2>2, <2>3, <2>4 DEF I
<1>3. ASSUME NEW T \in SUBSET U, NEW x \in U \ T
      PROVE  /\ Units(q, T \cup {x}) = Units(q, T) \cup ({x} \X (0 .. q[x] - 1))
             /\ Units(q, T) \cap ({x} \X (0 .. q[x] - 1)) = {}
  <2>1. q[x] \in Nat
    OBVIOUS
  <2>2. \A u \in {x} \X Nat : u[2] < q[u[1]] <=> u[2] \in 0 .. q[x] - 1
    BY <2>1
  <2>3. (T \cup {x}) \X Nat = (T \X Nat) \cup ({x} \X Nat)
    OBVIOUS
  <2>4. {u \in {x} \X Nat : u[2] < q[u[1]]} = {x} \X (0 .. q[x] - 1)
    BY <2>1, <2>2
  <2> QED BY <2>3, <2>4 DEF Units
<1> DEFINE F == {T \in SUBSET U : IsFiniteSet(Units(q, T))}
<1>4. {} \in F
  BY <1>1, FS_EmptySet
<1>5. ASSUME NEW T \in SUBSET U, NEW x \in U \ T, T \in F PROVE T \cup {x} \in F
  <2>1. IsFiniteSet(Units(q, T)) /\ IsFiniteSet({x} \X (0 .. q[x] - 1))
    BY <1>2, <1>5
  <2>2. IsFiniteSet(Units(q, T) \cup ({x} \X (0 .. q[x] - 1)))
    BY <2>1, FS_Union, Zenon
  <2>3. IsFiniteSet(Units(q, T \cup {x}))
    BY <1>3, <2>2, Zenon
  <2> QED BY <2>3
<1> HIDE DEF F
<1>6. SUBSET U \subseteq F
  BY <1>4, <1>5, SubsetInduction
<1>7. \A T \in SUBSET U : IsFiniteSet(Units(q, T)) /\ Cardinality(Units(q, T)) \in Nat
  BY <1>6, FS_CardinalityType DEF F
<1>8. ASSUME NEW T \in SUBSET U, NEW x \in U \ T
      PROVE  Cardinality(Units(q, T \cup {x})) = Cardinality(Units(q, T)) + q[x]
  <2>1. Cardinality(Units(q, T) \cap ({x} \X (0 .. q[x] - 1))) = 0
    BY <1>3, FS_EmptySet
  <2>2. Cardinality(Units(q, T) \cup ({x} \X (0 .. q[x] - 1)))
            = Cardinality(Units(q, T)) + Cardinality({x} \X (0 .. q[x] - 1)) - 0
    BY <1>2, <1>7, <2>1, FS_Union
  <2>3. Cardinality(Units(q, T \cup {x})) = Cardinality(Units(q, T)) + q[x] - 0
    BY <1>2, <1>3, <2>2, Zenon
  <2> QED BY <1>7, <2>3
<1> QED BY <1>1, <1>7, <1>8, FS_EmptySet

(* The library's sum is a fold that picks the elements in an arbitrary order: *)
(* picking an element takes its units, and a function that adds up quantities *)
(* as the fold does counts the units.                                         *)
LEMMA UnitsPicked ==
    ASSUME NEW U, IsFiniteSet(U), NEW q \in [U -> Nat], NEW s \in SUBSET U, s # {}
    PROVE  LET x == CHOOSE y \in s : TRUE
           IN  /\ x \in s
               /\ Cardinality(Units(q, s)) = q[x] + Cardinality(Units(q, s \ {x}))
<1> DEFINE x == CHOOSE y \in s : TRUE
<1>1. x \in s
  OBVIOUS
<1> HIDE DEF x
<1>2. x \in U \ (s \ {x}) /\ s \ {x} \in SUBSET U /\ (s \ {x}) \cup {x} = s /\ q[x] \in Nat
  BY <1>1
<1>3. Cardinality(Units(q, s \ {x})) \in Nat
      /\ Cardinality(Units(q, (s \ {x}) \cup {x})) = Cardinality(Units(q, s \ {x})) + q[x]
  <2>1. \A T \in SUBSET U :
              /\ Cardinality(Units(q, T)) \in Nat
              /\ \A y \in U \ T : Cardinality(Units(q, T \cup {y}))
                                      = Cardinality(Units(q, T)) + q[y]
    BY UnitsCount
  <2> QED BY <1>2, <2>1, Zenon
<1>4. Cardinality(Units(q, s)) = Cardinality(Units(q, s \ {x})) + q[x]
  BY <1>2, <1>3, Zenon
<1>5. Cardinality(Units(q, s)) = q[x] + Cardinality(Units(q, s \ {x}))
  BY <1>2, <1>3, <1>4
<1> QED BY <1>1, <1>5 DEF x

LEMMA FoldCounts ==
    ASSUME NEW U, IsFiniteSet(U), NEW q \in [U -> Nat], NEW S \in SUBSET U, NEW c,
           \A s \in SUBSET S : c[s] = IF s = {} THEN 0
               ELSE LET x == CHOOSE y \in s : TRUE IN q[x] + c[s \ {x}]
    PROVE  c[S] = Cardinality(Units(q, S))
<1> DEFINE N == {n \in Nat : \A s \in SUBSET S :
                     Cardinality(s) = n => c[s] = Cardinality(Units(q, s))}
<1>1. \A s \in SUBSET S : IsFiniteSet(s) /\ Cardinality(s) \in Nat
  BY FS_Subset, FS_CardinalityType
<1>2. 0 \in N
  BY <1>1, FS_EmptySet, UnitsCount
<1>3. ASSUME NEW n \in Nat, n \in N PROVE n + 1 \in N
  <2>1. SUFFICES ASSUME NEW s \in SUBSET S, Cardinality(s) = n + 1
                 PROVE  c[s] = Cardinality(Units(q, s))
    OBVIOUS
  <2>2. s # {}
    <3>1. n + 1 # 0
      OBVIOUS
    <3>2. Cardinality({}) = 0
      BY FS_EmptySet
    <3> QED BY <2>1, <3>1, <3>2, Zenon
  <2> DEFINE x == CHOOSE y \in s : TRUE
  <2>3. /\ x \in s /\ s \ {x} \in SUBSET S /\ c[s] = q[x] + c[s \ {x}]
        /\ Cardinality(Units(q, s)) = q[x] + Cardinality(Units(q, s \ {x}))
    BY <2>2, UnitsPicked
  <2> HIDE DEF x
  <2>4. Cardinality(s \ {x}) = n
    <3>1. IsFiniteSet(s)
      BY <1>1, <2>1, Zenon
    <3>2. Cardinality(s \ {x}) = IF x \in s THEN Cardinality(s) - 1 ELSE Cardinality(s)
      BY <3>1, FS_RemoveElement, Zenon
    <3> QED BY <2>1, <2>3, <3>2
  <2>5. c[s \ {x}] = Cardinality(Units(q, s \ {x}))
    BY <1>3, <2>3, <2>4
  <2> QED BY <2>3, <2>5
<1> HIDE DEF N
<1>4. Nat \subseteq N
  BY <1>2, <1>3, SetInduction
<1> QED BY <1>1, <1>4 DEF N

LEMMA SumIsCount ==
    ASSUME NEW U, IsFiniteSet(U), NEW q \in [U -> Nat], NEW S \in SUBSET U
    PROVE  Sum(q, S) = Cardinality(Units(q, S))
<1> DEFINE Follow(it) == it = [s \in SUBSET S |->
                IF s = {} THEN 0 ELSE LET x == CHOOSE y \in s : TRUE IN q[x] + it[s \ {x}]]
           w == [s \in SUBSET S |-> Cardinality(Units(q, s))]
           c == CHOOSE it : Follow(it)
<1>1. Sum(q, S) = c[S]
  BY DEF Sum, MapThenSumSet, MapThenFoldSet
<1>2. ASSUME NEW s \in SUBSET S, s # {}
      PROVE  LET x == CHOOSE y \in s : TRUE
             IN  x \in s /\ Cardinality(Units(q, s)) = q[x] + Cardinality(Units(q, s \ {x}))
  BY <1>2, UnitsPicked
<1>3. Follow(w)
  BY <1>2, UnitsCount
<1> HIDE DEF Follow
<1>4. Follow(c)
  BY <1>3
<1>5. \A s \in SUBSET S : c[s] = IF s = {} THEN 0
                  ELSE LET x == CHOOSE y \in s : TRUE IN q[x] + c[s \ {x}]
  <2> HIDE DEF c
  <2> QED BY <1>4 DEF Follow
<1> HIDE DEF c
<1> QED BY <1>1, <1>5, FoldCounts

LEMMA SumFacts ==
    ASSUME NEW U, IsFiniteSet(U), NEW q \in [U -> Nat]
    PROVE  /\ Sum(q, {}) = 0
           /\ \A T \in SUBSET U :
                /\ Sum(q, T) \in Nat
                /\ \A x \in U \ T : Sum(q, T \cup {x}) = Sum(q, T) + q[x]
                /\ \A x \in T : Sum(q, T) = Sum(q, T \ {x}) + q[x] /\ Sum(q, T \ {x}) \in Nat
<1>1. \A T \in SUBSET U : Sum(q, T) = Cardinality(Units(q, T))
  BY SumIsCount
<1>2. /\ Sum(q, {}) = 0
      /\ \A T \in SUBSET U :
                /\ Sum(q, T) \in Nat
                /\ \A x \in U \ T : Sum(q, T \cup {x}) = Sum(q, T) + q[x]
  <2>1. \A T \in SUBSET U : \A x \in U \ T : T \cup {x} \in SUBSET U
    OBVIOUS
  <2> QED BY <1>1, <2>1, UnitsCount
<1>3. ASSUME NEW T \in SUBSET U, NEW x \in T
      PROVE  Sum(q, T) = Sum(q, T \ {x}) + q[x] /\ Sum(q, T \ {x}) \in Nat
  <2>1. T \ {x} \in SUBSET U /\ x \in U \ (T \ {x}) /\ (T \ {x}) \cup {x} = T
    OBVIOUS
  <2> QED BY <1>2, <2>1, Zenon
<1> QED BY <1>2, <1>3

(* A sum looks at the nodes of its set only.                                  *)
LEMMA SumSame ==
    ASSUME NEW U, IsFiniteSet(U), NEW q \in [U -> Nat], NEW r \in [U -> Nat],
           NEW T \in SUBSET U, \A x \in T : q[x] = r[x]
    PROVE  Sum(q, T) = Sum(r, T)
<1>1. Units(q, T) = Units(r, T)
  BY DEF Units
<1> QED BY <1>1, SumIsCount

(* uint64_t addition and subtraction are those of the remainders.             *)
LEMMA PlusMod ==
    ASSUME NEW a \in Nat, NEW b \in Quantity
    PROVE  a % QtyMod \in Quantity /\ (a + b) % QtyMod = Plus(a % QtyMod, b)
<1>1. QtyMod \in Nat /\ QtyMod > 0 /\ b \in Nat /\ b < QtyMod
  BY QtyModAssumption DEF Quantity
<1>2. PICK k \in Int : a = QtyMod * k + (a % QtyMod) /\ a % QtyMod \in 0 .. QtyMod - 1
  BY <1>1
<1>3. ASSUME NEW j \in Int, NEW r \in 0 .. QtyMod - 1 PROVE (QtyMod * j + r) % QtyMod = r
  BY <1>1
<1>4. CASE (a % QtyMod) + b < QtyMod
  <2>1. a + b = QtyMod * k + ((a % QtyMod) + b) /\ (a % QtyMod) + b \in 0 .. QtyMod - 1
    BY <1>1, <1>2, <1>4
  <2> QED BY <1>2, <1>3, <1>4, <2>1 DEF Plus, Quantity
<1>5. CASE ~((a % QtyMod) + b < QtyMod)
  <2>1. a + b = QtyMod * (k + 1) + ((a % QtyMod) + b - QtyMod)
        /\ (a % QtyMod) + b - QtyMod \in 0 .. QtyMod - 1
    BY <1>1, <1>2, <1>5
  <2> QED BY <1>2, <1>3, <1>5, <2>1 DEF Plus, Quantity
<1> QED BY <1>4, <1>5

LEMMA MinusMod ==
    ASSUME NEW a \in Nat, NEW b \in Quantity
    PROVE  Minus((a + b) % QtyMod, b) = a % QtyMod
<1>1. a % QtyMod \in Quantity /\ (a + b) % QtyMod = Plus(a % QtyMod, b)
  BY PlusMod
<1>2. ASSUME NEW x \in Quantity PROVE Minus(Plus(x, b), b) = x
  BY QtyModAssumption DEF Plus, Minus, Quantity
<1> QED BY <1>1, <1>2

LEMMA SumRemove ==
    ASSUME NEW q \in [Node -> Nat], NEW T \in SUBSET Node, NEW x \in T
    PROVE  Sum(q, T) = Sum(q, T \ {x}) + q[x] /\ Sum(q, T \ {x}) \in Nat
BY NodeAssumption, SumFacts

LEMMA SumAgrees ==
    ASSUME NEW q \in [Node -> Nat], NEW r \in [Node -> Nat],
           NEW T \in SUBSET Node, \A x \in T : q[x] = r[x]
    PROVE  Sum(q, T) = Sum(r, T)
BY NodeAssumption, SumSame

(* The cached volumes of a book that stands for the sequences Q.              *)
Items(l) == {l[k] : k \in 1 .. Len(l)}
Volumes(Q) ==
    \A s \in Side, p \in Price :
        level[s][p].total_volume = Sum(qty, Items(Q[s][p])) % QtyMod

LEMMA VolumesAreSums ==
    ASSUME NEW Q, Linked(Q), Volumes(Q)
    PROVE  VolumeIsSum
<1>1. \A s \in Side, p \in Price : Resting(s, p) = Items(Q[s][p])
  BY RestingIsQueue DEF Items
<1> QED BY <1>1 DEF Volumes, VolumeIsSum, Sum

LEMMA ItemsFacts ==
    ASSUME NEW Q, Linked(Q), NEW s \in Side, NEW p \in Price
    PROVE  /\ Items(Q[s][p]) \in SUBSET Node
           /\ \A n \in Items(Q[s][p]) : Queued(Q, n)
           /\ \A i \in 1 .. Len(Q[s][p]) :
                /\ Q[s][p][i] \in Items(Q[s][p])
                /\ Items(Without(Q[s][p], i)) = Items(Q[s][p]) \ {Q[s][p][i]}
           /\ \A z \in Side, q \in Price : z # s \/ q # p =>
                  \A i \in 1 .. Len(Q[s][p]) : Q[s][p][i] \notin Items(Q[z][q])
<1> DEFINE l == Q[s][p]
<1>1. l \in Seq(Node) /\ Distinct(l)
  BY DEF Linked, Queues
<1>2. Items(l) \in SUBSET Node /\ \A n \in Items(l) : Queued(Q, n)
  BY <1>1 DEF Items, Queued
<1>3. ASSUME NEW i \in 1 .. Len(l)
      PROVE  l[i] \in Items(l) /\ Items(Without(l, i)) = Items(l) \ {l[i]}
  <2> DEFINE w == Without(l, i)
  <2>1. /\ Len(w) = Len(l) - 1 /\ Len(l) \in Nat
        /\ \A k \in 1 .. Len(l) - 1 : w[k] = IF k < i THEN l[k] ELSE l[k + 1]
        /\ \A k \in 1 .. Len(l) - 1 : w[k] # l[i]
        /\ \A k \in 1 .. Len(l) : k # i => \E j \in 1 .. Len(l) - 1 : w[j] = l[k]
    <3>1. l \in Seq(Node) /\ i \in 1 .. Len(l) /\ Len(l) \in Nat
      BY <1>1
    <3> HIDE DEF l
    <3> QED BY <1>1, <3>1, WithoutList
  <2>2. i \in 1 .. Len(l)
    OBVIOUS
  <2> HIDE DEF w, l
  <2>3. ASSUME NEW k \in 1 .. Len(w) PROVE w[k] # l[i] /\ \E j \in 1 .. Len(l) : w[k] = l[j]
    <3>1. k \in 1 .. Len(l) - 1 /\ k \in 1 .. Len(l) /\ k + 1 \in 1 .. Len(l)
      BY <2>1
    <3> QED BY <2>1, <3>1
  <2>4. ASSUME NEW k \in 1 .. Len(l), l[k] # l[i] PROVE \E j \in 1 .. Len(w) : w[j] = l[k]
    BY <2>1, <2>4
  <2>5. \A x : x \in Items(w) <=> x \in Items(l) /\ x # l[i]
    <3>1. ASSUME NEW x \in Items(w) PROVE x \in Items(l) /\ x # l[i]
      BY <2>3 DEF Items
    <3>2. ASSUME NEW x \in Items(l), x # l[i] PROVE x \in Items(w)
      <4>1. PICK k \in 1 .. Len(l) : x = l[k]
        BY DEF Items
      <4>2. PICK j \in 1 .. Len(w) : w[j] = l[k]
        BY <2>4, <3>2, <4>1
      <4> QED BY <4>1, <4>2 DEF Items
    <3> QED BY <3>1, <3>2
  <2>6. Items(w) = Items(l) \ {l[i]}
    BY <2>5
  <2> QED BY <2>2, <2>6 DEF Items, w
<1>4. ASSUME NEW z \in Side, NEW q \in Price, z # s \/ q # p, NEW i \in 1 .. Len(l)
      PROVE  l[i] \notin Items(Q[z][q])
  BY <1>4, OnePlace DEF Items
<1> QED BY <1>2, <1>3, <1>4

WithoutDropsOne(l) ==
    \A i \in 1 .. Len(l) : Items(Without(l, i)) = Items(l) \ {l[i]}
LEMMA WithoutItems ==
    ASSUME NEW Q, Linked(Q), NEW s \in Side, NEW p \in Price
    PROVE  WithoutDropsOne(Q[s][p])
BY ItemsFacts DEF WithoutDropsOne

LEMMA QtyNat == TypeOK => qty \in [Node -> Nat]
BY BookTypes DEF Quantity

(* A step that changes neither volumes nor the quantities on the book.        *)
LEMMA VolumesKept ==
    ASSUME TypeOK, TypeOK', NEW Q, Linked(Q), Volumes(Q),
           \A n \in Node : Queued(Q, n) => qty'[n] = qty[n],
           \A s \in Side, p \in Price :
               level'[s][p].total_volume = level[s][p].total_volume
    PROVE  Volumes(Q)'
<1>1. qty \in [Node -> Nat] /\ qty' \in [Node -> Nat]
  <2>1. (TypeOK => qty \in [Node -> Nat])'
    BY QtyNat, PTL
  <2> QED BY <2>1, QtyNat
<1>2. ASSUME NEW s \in Side, NEW p \in Price
      PROVE  Sum(qty', Items(Q[s][p])) = Sum(qty, Items(Q[s][p]))
  <2>1. \A n \in Items(Q[s][p]) : n \in Node /\ qty'[n] = qty[n]
    BY ItemsFacts
  <2>2. Items(Q[s][p]) \in SUBSET Node
    BY ItemsFacts
  <2>3. PICK I \in SUBSET Node : I = Items(Q[s][p])
    BY <2>2
  <2>4. \A n \in I : qty'[n] = qty[n]
    BY <2>1, <2>3, Zenon
  <2>5. Sum(qty', I) = Sum(qty, I)
    BY <1>1, <2>4, SumAgrees
  <2> QED BY <2>3, <2>5, Zenon
<1> QED BY <1>2 DEF Volumes

LEMMA TakeAway ==
    ASSUME NEW a, NEW b, NEW c \in Nat, NEW x \in Nat, NEW y \in Nat, NEW d \in Nat,
           y = x - d, a = c + y, b = c + x
    PROVE  a \in Nat /\ b = a + d
OBVIOUS

(* An order is reduced by d in its place, or leaves with all it had.          *)
LEMMA VolumeDrops ==
    ASSUME TypeOK, TypeOK', NEW Q, Linked(Q), Volumes(Q), NEW s \in Side, NEW p \in Price,
           NEW i \in 1 .. Len(Q[s][p]), NEW n, n = Q[s][p][i], NEW d \in Quantity, NEW R,
           \A m \in Node : Queued(Q, m) /\ m # n => qty'[m] = qty[m],
           \A z \in Side, q \in Price : z # s \/ q # p =>
               R[z][q] = Q[z][q] /\ level'[z][q].total_volume = level[z][q].total_volume,
           \/ R[s][p] = Q[s][p] /\ d <= qty[n] /\ qty'[n] = qty[n] - d
           \/ R[s][p] = Without(Q[s][p], i) /\ qty[n] = d,
           \/ level'[s][p].total_volume = Minus(level[s][p].total_volume, d)
           \/ Items(R[s][p]) = {} /\ level'[s][p].total_volume = 0
    PROVE  Volumes(R)'
<1>1. qty \in [Node -> Nat] /\ qty' \in [Node -> Nat]
  <2>1. (TypeOK => qty \in [Node -> Nat])'
    BY QtyNat, PTL
  <2> QED BY <2>1, QtyNat
<1> DEFINE I == Items(Q[s][p])
<1>2. I \in SUBSET Node /\ n \in I /\ I \ {n} \in SUBSET Node /\ n \in Node
      /\ \A m \in I : Queued(Q, m)
  BY ItemsFacts
<1>3. Sum(qty, I) = Sum(qty, I \ {n}) + qty[n] /\ Sum(qty, I \ {n}) \in Nat
  <2> HIDE DEF I
  <2> QED BY <1>1, <1>2, SumRemove
<1>4. Sum(qty', I) = Sum(qty', I \ {n}) + qty'[n] /\ Sum(qty', I \ {n}) \in Nat
  <2> HIDE DEF I
  <2> QED BY <1>1, <1>2, SumRemove
<1>5. Sum(qty', I \ {n}) = Sum(qty, I \ {n})
  <2>1. \A m \in I \ {n} : qty'[m] = qty[m]
    BY <1>2
  <2> HIDE DEF I
  <2> QED BY <1>1, <1>2, <2>1, SumAgrees
<1>6. Sum(qty', Items(R[s][p])) \in Nat /\ Sum(qty, I) = Sum(qty', Items(R[s][p])) + d
  <2>1. CASE R[s][p] = Q[s][p] /\ d <= qty[n] /\ qty'[n] = qty[n] - d
    <3>1. qty[n] \in Nat /\ d \in Nat /\ qty'[n] \in Nat
      BY <1>1, <1>2 DEF Quantity
    <3>2. Items(R[s][p]) = I
      BY <2>1
    <3> HIDE DEF I
    <3>3. Sum(qty', Items(R[s][p])) = Sum(qty', I)
      BY <3>2, Zenon
    <3>4. Sum(qty', I) = Sum(qty, I \ {n}) + qty'[n]
      BY <1>4, <1>5, Zenon
    <3>5. Sum(qty', I) \in Nat /\ Sum(qty, I) = Sum(qty', I) + d
      <4> DEFINE a == Sum(qty', I)
                 b == Sum(qty, I)
                 c == Sum(qty, I \ {n})
                 x == qty[n]
                 y == qty'[n]
      <4>1. c \in Nat /\ x \in Nat /\ y \in Nat /\ d \in Nat /\ y = x - d
        BY <1>3, <2>1, <3>1, Zenon
      <4>2. a = c + y /\ b = c + x
        BY <1>3, <3>4, Zenon
      <4> HIDE DEF a, b, c, x, y
      <4>3. a \in Nat /\ b = a + d
        BY <4>1, <4>2, TakeAway
      <4> QED BY <4>3 DEF a, b
    <3> QED BY <3>3, <3>5, Zenon
  <2>2. CASE R[s][p] = Without(Q[s][p], i) /\ qty[n] = d
    <3>1. Items(R[s][p]) = I \ {n}
      <4>1. Items(Without(Q[s][p], i)) = Items(Q[s][p]) \ {Q[s][p][i]}
        <5>1. WithoutDropsOne(Q[s][p])
          BY WithoutItems
        <5> QED BY <5>1, Zenon DEF WithoutDropsOne
      <4> QED BY <2>2, <4>1, Zenon
    <3> HIDE DEF I
    <3> QED BY <1>3, <1>5, <2>2, <3>1
  <2> QED BY <2>1, <2>2
<1>7. level'[s][p].total_volume = Sum(qty', Items(R[s][p])) % QtyMod
  <2>1. CASE level'[s][p].total_volume = Minus(level[s][p].total_volume, d)
    <3>1. level[s][p].total_volume = Sum(qty, I) % QtyMod
      BY DEF Volumes
    <3>2. Minus((Sum(qty', Items(R[s][p])) + d) % QtyMod, d) = Sum(qty', Items(R[s][p])) % QtyMod
      BY <1>6, MinusMod
    <3> QED BY <1>6, <2>1, <3>1, <3>2
  <2>2. CASE Items(R[s][p]) = {} /\ level'[s][p].total_volume = 0
    <3>1. Sum(qty', {}) = 0
      BY <1>1, NodeAssumption, SumFacts
    <3> QED BY <2>2, <3>1, QtyModAssumption
  <2> QED BY <2>1, <2>2
<1>8. ASSUME NEW z \in Side, NEW q \in Price, z # s \/ q # p
      PROVE  level'[z][q].total_volume = Sum(qty', Items(R[z][q])) % QtyMod
  <2>1. Items(Q[z][q]) \in SUBSET Node /\ \A m \in Items(Q[z][q]) : Queued(Q, m) /\ m # n
    BY <1>8, ItemsFacts
  <2>2. \A m \in Items(Q[z][q]) : qty'[m] = qty[m]
    BY <2>1
  <2>3. Sum(qty', Items(Q[z][q])) = Sum(qty, Items(Q[z][q]))
    BY <1>1, <2>1, <2>2, SumAgrees
  <2> QED BY <1>8, <2>3 DEF Volumes
<1>9. \A z \in Side, q \in Price : level'[z][q].total_volume = Sum(qty', Items(R[z][q])) % QtyMod
  <2> HIDE DEF I
  <2> QED BY <1>7, <1>8
<1> QED BY <1>9 DEF Volumes

(* What is left of the incoming order adds its quantity to its level.         *)
LEMMA InsertVolumes ==
    ASSUME TypeOK, NEW Q, Linked(Q), Volumes(Q), NEW n \in Node, ~Queued(Q, n),
           InsertOrder(n), NEW s, NEW p, s = order[n].side, p = order[n].price
    PROVE  Volumes(Pushed(Q, s, p, n))'
<1> DEFINE l == Q[s][p]
           I == Items(l)
           lv == level[s][p]
           R == Pushed(Q, s, p, n)
<1>1. /\ s \in Side /\ p \in Price /\ lv \in PriceLevel /\ qty[n] \in Quantity
      /\ level \in [Side -> [Price -> PriceLevel]] /\ l \in Seq(Node) /\ Q \in Queues
      /\ qty \in [Node -> Nat] /\ qty' = qty
      /\ level' = SetLevel(level, s, p, AddVolume(PushedLevel(lv, n), qty[n]))
  BY QtyNat, BookTypes DEF Linked, Queues, InsertOrder
<1>2. AddVolume(PushedLevel(lv, n), qty[n]).total_volume = Plus(lv.total_volume, qty[n])
  BY <1>1, QuantityArithmetic DEF AddVolume, PushedLevel, PriceLevel
<1>3. I \in SUBSET Node /\ n \notin I
  BY <1>1, ItemsFacts
<1>4. Items(Append(l, n)) = I \cup {n}
  <2> DEFINE w == Append(l, n)
  <2>1. /\ Len(w) = Len(l) + 1 /\ w[Len(l) + 1] = n /\ Len(l) \in Nat
        /\ \A k \in 1 .. Len(l) : w[k] = l[k]
    <3>1. l \in Seq(Node)
      BY <1>1
    <3> HIDE DEF l
    <3> QED BY <3>1, AppendList
  <2> HIDE DEF w, l
  <2>2. ASSUME NEW x \in Items(w) PROVE x \in Items(l) \cup {n}
    BY <2>1 DEF Items
  <2>3. ASSUME NEW x \in Items(l) \cup {n} PROVE x \in Items(w)
    <3>1. CASE x = n
      <4>1. Len(l) + 1 \in 1 .. Len(w)
        BY <2>1
      <4> QED BY <2>1, <3>1, <4>1 DEF Items
    <3>2. CASE x \in Items(l)
      <4>1. PICK k \in 1 .. Len(l) : x = l[k]
        BY <3>2 DEF Items
      <4>2. k \in 1 .. Len(w) /\ x = w[k]
        BY <2>1, <4>1
      <4> QED BY <4>2 DEF Items
    <3> QED BY <2>3, <3>1, <3>2
  <2> QED BY <2>2, <2>3 DEF w
<1>5. Sum(qty, I \cup {n}) = Sum(qty, I) + qty[n] /\ Sum(qty, I) \in Nat
  <2> HIDE DEF I
  <2> QED BY <1>1, <1>3, NodeAssumption, SumFacts
<1>6. lv.total_volume = Sum(qty, I) % QtyMod
  BY <1>1 DEF Volumes
<1>7. \A z \in Side, q \in Price :
          /\ R[z][q] = IF z = s /\ q = p THEN Append(l, n) ELSE Q[z][q]
          /\ level'[z][q] = IF z = s /\ q = p THEN AddVolume(PushedLevel(lv, n), qty[n])
                                              ELSE level[z][q]
  BY <1>1 DEF Pushed, Queues, SetLevel
<1>8. Plus(lv.total_volume, qty[n]) = Sum(qty, I \cup {n}) % QtyMod
  <2> HIDE DEF I
  <2> QED BY <1>1, <1>5, <1>6, PlusMod
<1> HIDE DEF l, I, lv, R
<1>9. \A z \in Side, q \in Price : level'[z][q].total_volume = Sum(qty', Items(R[z][q])) % QtyMod
  <2>1. SUFFICES ASSUME NEW z \in Side, NEW q \in Price
                 PROVE  level'[z][q].total_volume = Sum(qty, Items(R[z][q])) % QtyMod
    BY <1>1
  <2>2. CASE z = s /\ q = p
    BY <1>2, <1>4, <1>7, <1>8, <2>2 DEF I
  <2>3. CASE z # s \/ q # p
    BY <1>7, <2>3 DEF Volumes
  <2> QED BY <2>2, <2>3
<1> QED BY <1>9 DEF Volumes, R

(* A level whose list is empty has no volume.                                 *)
LEMMA EmptyVolume ==
    ASSUME TypeOK, NEW Q, Linked(Q), Volumes(Q), NEW s \in Side, NEW p \in Price,
           level[s][p].head = Null
    PROVE  level[s][p].total_volume = 0
<1> DEFINE l == Q[s][p]
<1>1. l \in Seq(Node) /\ At(l, 1) = Null /\ level[s][p].total_volume = Sum(qty, Items(l)) % QtyMod
  BY DEF Linked, Queues, Volumes
<1> HIDE DEF l
<1>2. Items(l) = {}
  <2>1. Len(l) \in Nat /\ \A k \in 1 .. Len(l) : l[k] # Null
    BY <1>1, NullAssumption
  <2> QED BY <1>1, <2>1 DEF At, Items
<1>3. Sum(qty, {}) = 0
  BY QtyNat, NodeAssumption, SumFacts
<1> QED BY <1>1, <1>2, <1>3, QtyModAssumption

LEMMA SubmitVolumes ==
    ASSUME TypeOK, TypeOK', NEW Q, EngineInv(Q), Volumes(Q), NEW n \in Node, NEW s \in Side,
           NEW p \in Price, NEW q, Submit(n, s, p, q)
    PROVE  Volumes(Q)'
<1>1. ~Queued(Q, n) /\ Linked(Q)
  BY RestingIsQueue DEF EngineInv, Submit
<1>2. qty' = [qty EXCEPT ![n] = q] /\ level' = level
  BY DEF Submit
<1>3. \A m \in Node : Queued(Q, m) => qty'[m] = qty[m]
  BY <1>1, <1>2, BookTypes
<1> QED BY <1>1, <1>2, <1>3, VolumesKept

LEMMA LeaveVolumes ==
    ASSUME TypeOK, TypeOK', NEW Q, EngineInv(Q), Volumes(Q), LeaveLevel
    PROVE  Volumes(Q)'
<1>1. PICK s \in Side, p \in Price : s = maker_side /\ p = best
  BY SidesType, BookTypes DEF LeaveLevel
<1>2. qty' = qty /\ level' = LevelAfterCheck(level, s, p)
  BY <1>1 DEF LeaveLevel
<1>3. \A z \in Side, q \in Price : level'[z][q].total_volume = level[z][q].total_volume
  <2>1. CASE level[s][p].head = Null
    <3>1. level[s][p].total_volume = 0
      BY <2>1, EmptyVolume DEF EngineInv
    <3>2. \A z \in Side, q \in Price :
              level'[z][q] = IF z = s /\ q = p THEN NewLevel ELSE level[z][q]
      BY <1>2, <2>1, BookTypes DEF LevelAfterCheck, SetLevel
    <3> QED BY <3>1, <3>2 DEF NewLevel
  <2>2. CASE level[s][p].head # Null
    BY <1>2, <2>2 DEF LevelAfterCheck
  <2> QED BY <2>1, <2>2
<1> QED BY <1>2, <1>3, VolumesKept DEF EngineInv

LEMMA VolumeOf ==
    ASSUME TypeOK, NEW lv \in PriceLevel, NEW n \in Node, NEW v \in Quantity
    PROVE  /\ SubVolume(lv, v).total_volume = Minus(lv.total_volume, v)
           /\ UnlinkedLevel(SubVolume(lv, v), n).total_volume = Minus(lv.total_volume, v)
           /\ SubVolume(UnlinkedLevel(lv, n), v).total_volume = Minus(lv.total_volume, v)
<1>1. SubVolume(lv, v) \in PriceLevel /\ UnlinkedLevel(lv, n) \in PriceLevel
  BY AddVolumeType, UnlinkedLevelType DEF TypeOK
<1>2. \A x \in PriceLevel : SubVolume(x, v).total_volume = Minus(x.total_volume, v)
  BY DEF SubVolume, PriceLevel
<1>3. \A x \in PriceLevel : UnlinkedLevel(x, n).total_volume = x.total_volume
  BY DEF UnlinkedLevel, PriceLevel
<1> QED BY <1>1, <1>2, <1>3

(* A match takes from the level what it takes from the two orders.            *)
LEMMA MatchLevel ==
    ASSUME TypeOK, NEW Q, EngineInv(Q), MatchOne, NEW s, NEW p, s = maker_side, p = best
    PROVE  LET t == IF qty[incoming] < qty[resting_order] THEN qty[incoming]
                                                          ELSE qty[resting_order]
           IN  /\ t \in Quantity /\ s \in Side /\ p \in Price
               /\ level'[s][p].total_volume = Minus(level[s][p].total_volume, t)
               /\ \A z \in Side, q \in Price : z # s \/ q # p => level'[z][q] = level[z][q]
<1> DEFINE r == resting_order
           t == IF qty[incoming] < qty[resting_order] THEN qty[incoming] ELSE qty[resting_order]
<1>1. s \in Side /\ p \in Price /\ incoming \in Node /\ r \in Node /\ r # incoming
  BY CursorOrder
<1>2. t \in Quantity
  BY <1>1, MatchQuantities
<1>3. level[s][p] \in PriceLevel /\ level \in [Side -> [Price -> PriceLevel]]
  BY <1>1, BookTypes
<1>4. CASE qty[r] = t
  <2>1. level' = SetLevel(level, s, p, UnlinkedLevel(SubVolume(level[s][p], t), r))
    BY <1>4 DEF MatchOne
  <2>2. UnlinkedLevel(SubVolume(level[s][p], t), r).total_volume
            = Minus(level[s][p].total_volume, t)
    BY <1>1, <1>2, <1>3, VolumeOf
  <2> HIDE DEF t, r
  <2> QED BY <1>1, <1>2, <1>3, <2>1, <2>2 DEF SetLevel, t
<1>5. CASE qty[r] # t
  <2>1. level' = SetLevel(level, s, p, SubVolume(level[s][p], t))
    BY <1>5 DEF MatchOne
  <2>2. SubVolume(level[s][p], t).total_volume = Minus(level[s][p].total_volume, t)
    BY <1>1, <1>2, <1>3, VolumeOf
  <2> HIDE DEF t, r
  <2> QED BY <1>1, <1>2, <1>3, <2>1, <2>2 DEF SetLevel, t
<1> QED BY <1>4, <1>5

LEMMA MatchVolumes ==
    ASSUME TypeOK, TypeOK', NEW Q, EngineInv(Q), Volumes(Q), MatchOne,
           NEW s, NEW p, s = maker_side, p = best
    PROVE  /\ qty'[resting_order] = 0 => Volumes(Removed(Q, s, p, 1))'
           /\ qty'[resting_order] # 0 => Volumes(Q)'
<1> DEFINE r == resting_order
           l == Q[s][p]
           t == IF qty[incoming] < qty[resting_order] THEN qty[incoming] ELSE qty[resting_order]
           R == Removed(Q, s, p, 1)
<1>1. /\ s \in Side /\ p \in Price /\ incoming \in Node /\ Len(l) \in Nat \ {0}
      /\ r = l[1] /\ r \in Node /\ r # incoming /\ 1 \in 1 .. Len(l)
  BY CursorOrder
<1>2. /\ t \in Quantity /\ t <= qty[r] /\ qty'[r] = qty[r] - t
      /\ \A m \in Node : m # incoming /\ m # r => qty'[m] = qty[m]
      /\ (qty[r] = t) <=> (qty'[r] = 0)
  BY <1>1, MatchQuantities
<1>3. \A m \in Node : Queued(Q, m) /\ m # r => qty'[m] = qty[m]
  BY <1>2 DEF EngineInv, TakerOutside, MatchOne
<1>4. level[s][p] \in PriceLevel /\ level \in [Side -> [Price -> PriceLevel]]
  BY <1>1, BookTypes
<1>5. /\ R[s][p] = Without(l, 1)
      /\ \A z \in Side, q \in Price : z # s \/ q # p => R[z][q] = Q[z][q]
  BY <1>1 DEF EngineInv, Linked, Queues, Removed
<1>6. /\ level'[s][p].total_volume = Minus(level[s][p].total_volume, t)
      /\ \A z \in Side, q \in Price : z # s \/ q # p => level'[z][q] = level[z][q]
  BY MatchLevel
<1>7. PICK d \in Quantity, n \in Node : d = t /\ n = r
  BY <1>1, <1>2
<1> HIDE DEF t, r
<1>8. /\ n = Q[s][p][1] /\ d <= qty[n] /\ qty'[n] = qty[n] - d
      /\ \A m \in Node : Queued(Q, m) /\ m # n => qty'[m] = qty[m]
      /\ level'[s][p].total_volume = Minus(level[s][p].total_volume, d)
  BY <1>1, <1>2, <1>3, <1>6, <1>7
<1>9. CASE qty[r] = t
  <2>1. Volumes(R)'
    <3>1. R[s][p] = Without(Q[s][p], 1) /\ qty[n] = d
      BY <1>5, <1>7, <1>9
    <3> HIDE DEF R
    <3> QED BY <1>1, <1>5, <1>6, <1>8, <3>1, VolumeDrops DEF EngineInv
  <2> QED BY <1>2, <1>9, <2>1 DEF r
<1>10. CASE qty[r] # t
  <2>1. Volumes(Q)'
    BY <1>1, <1>6, <1>8, VolumeDrops DEF EngineInv
  <2> QED BY <1>2, <1>10, <2>1 DEF r
<1> QED BY <1>9, <1>10

LEMMA RestVolumes ==
    ASSUME TypeOK, TypeOK', NEW Q, EngineInv(Q), Volumes(Q), RestAndReturn,
           NEW s, NEW p, NEW n, n = incoming, s = order[n].side, p = order[n].price
    PROVE  /\ qty[n] > 0 => Volumes(Pushed(Q, s, p, n))'
           /\ ~(qty[n] > 0) => Volumes(Q)'
<1>1. n \in Node /\ pc = "rest"
  BY SidesType DEF RestAndReturn
<1>2. CASE qty[n] > 0
  <2>1. InsertOrder(n)
    BY <1>2 DEF RestAndReturn
  <2>2. ~Queued(Q, n) /\ Linked(Q)
    BY <1>1 DEF EngineInv, TakerOutside
  <2> QED BY <1>1, <1>2, <2>1, <2>2, InsertVolumes
<1>3. CASE ~(qty[n] > 0)
  <2>1. UNCHANGED bookVars
    BY <1>3 DEF RestAndReturn
  <2>2. Volumes(Q)'
    BY <2>1, VolumesKept DEF bookVars, EngineInv
  <2> QED BY <1>3, <2>2
<1> QED BY <1>2, <1>3

LEMMA CancelVolumes ==
    ASSUME TypeOK, TypeOK', NEW Q, EngineInv(Q), Volumes(Q), NEW s \in Side, NEW p \in Price,
           NEW i \in 1 .. Len(Q[s][p]), NEW n \in Node, n = Q[s][p][i], Cancel(n),
           EngineInv(Removed(Q, s, p, i))'
    PROVE  Volumes(Removed(Q, s, p, i))'
<1> DEFINE l == Q[s][p]
           lv == SubVolume(UnlinkedLevel(level[s][p], n), qty[n])
           L == SetLevel(level, s, p, lv)
           R == Removed(Q, s, p, i)
<1>1. /\ level[s][p] \in PriceLevel /\ level \in [Side -> [Price -> PriceLevel]]
      /\ qty[n] \in Quantity /\ Linked(Q) /\ l # <<>> /\ p \in keys[s]
  BY BookTypes DEF EngineInv, Linked
<1>2. qty' = qty /\ level' = LevelAfterCheck(L, s, p)
  <2>1. order[n].side = s /\ order[n].price = p
    BY <1>1 DEF Linked, Placed
  <2> QED BY <1>1, <2>1 DEF Cancel, CancelOrder
<1>3. lv.total_volume = Minus(level[s][p].total_volume, qty[n])
  BY <1>1, VolumeOf
<1>4. L[s][p] = lv /\ \A z \in Side, q \in Price : z # s \/ q # p => L[z][q] = level[z][q]
  <2> HIDE DEF lv
  <2> QED BY <1>1 DEF SetLevel
<1>5. /\ R[s][p] = Without(l, i)
      /\ \A z \in Side, q \in Price : z # s \/ q # p => R[z][q] = Q[z][q]
  BY DEF EngineInv, Linked, Queues, Removed
<1>6. L \in [Side -> [Price -> PriceLevel]]
  <2>1. lv \in PriceLevel
    BY <1>1, VolumeApart
  <2> HIDE DEF lv
  <2> QED BY <1>1, <2>1, SetLevelType
<1> HIDE DEF lv, L
<1>7. CASE L[s][p].head # Null
  <2>1. /\ level'[s][p].total_volume = Minus(level[s][p].total_volume, qty[n])
        /\ \A z \in Side, q \in Price : z # s \/ q # p => level'[z][q] = level[z][q]
    BY <1>2, <1>3, <1>4, <1>7 DEF LevelAfterCheck
  <2> HIDE DEF R
  <2> QED BY <1>1, <1>2, <1>5, <2>1, VolumeDrops DEF R
<1>8. CASE L[s][p].head = Null
  <2>1. /\ level'[s][p] = NewLevel
        /\ \A z \in Side, q \in Price : z # s \/ q # p => level'[z][q] = level[z][q]
    BY <1>2, <1>4, <1>6, <1>8 DEF LevelAfterCheck, SetLevel
  <2>2. Items(R[s][p]) = {}
    <3>1. R[s][p] \in Seq(Node) /\ level'[s][p].head = At(R[s][p], 1)
      BY DEF EngineInv, Linked, Queues
    <3> DEFINE w == R[s][p]
    <3> HIDE DEF w
    <3>2. w \in Seq(Node) /\ At(w, 1) = Null
      BY <2>1, <3>1 DEF NewLevel, w
    <3>3. Len(w) \in Nat /\ \A k \in 1 .. Len(w) : w[k] # Null
      BY <3>2, NullAssumption
    <3> QED BY <3>2, <3>3 DEF At, Items, w
  <2>3. level'[s][p].total_volume = 0
    BY <2>1 DEF NewLevel
  <2> HIDE DEF R
  <2> QED BY <1>1, <1>2, <1>5, <2>1, <2>2, <2>3, VolumeDrops DEF R
<1> QED BY <1>7, <1>8

LEMMA ReduceVolumes ==
    ASSUME TypeOK, TypeOK', NEW Q, EngineInv(Q), Volumes(Q), NEW n \in Node,
           NEW v \in Quantity, Reduce(n, v)
    PROVE  Volumes(Q)'
<1>1. CASE v < qty[n]
  <2>1. n \in OnBook /\ Linked(Q)
    BY DEF Reduce, EngineInv
  <2>2. PICK s \in Side, p \in Price : \E k \in 1 .. Len(Q[s][p]) : n = Q[s][p][k]
    BY <2>1, RestingIsQueue DEF Queued
  <2>3. PICK i \in 1 .. Len(Q[s][p]) : n = Q[s][p][i]
    BY <2>2
  <2>4. order[n].side = s /\ order[n].price = p /\ p \in keys[s]
    BY <2>1, <2>3 DEF Linked, Placed
  <2>5. /\ qty' = [qty EXCEPT ![n] = v]
        /\ level' = SetLevel(level, s, p, SubVolume(level[s][p], qty[n] - v))
    BY <1>1, <2>4 DEF Reduce, ReduceOrder
  <2>6. /\ level[s][p] \in PriceLevel /\ level \in [Side -> [Price -> PriceLevel]]
        /\ qty \in [Node -> Quantity] /\ qty[n] \in Quantity
    BY BookTypes
  <2>7. PICK d \in Quantity : d = qty[n] - v /\ d <= qty[n] /\ v = qty[n] - d
    <3>1. \A a, b \in Quantity : b < a => a - b \in Quantity /\ a - b <= a /\ b = a - (a - b)
      BY QtyModAssumption DEF Quantity
    <3> QED BY <1>1, <2>6, <3>1
  <2>8. qty'[n] = qty[n] - d /\ \A m \in Node : m # n => qty'[m] = qty[m]
    BY <2>5, <2>6, <2>7
  <2>9. SubVolume(level[s][p], d).total_volume = Minus(level[s][p].total_volume, d)
    BY <2>6, VolumeOf
  <2>10. /\ level'[s][p].total_volume = Minus(level[s][p].total_volume, d)
         /\ \A z \in Side, q \in Price : z # s \/ q # p => level'[z][q] = level[z][q]
    BY <2>5, <2>6, <2>7, <2>9 DEF SetLevel
  <2> QED BY <2>1, <2>3, <2>7, <2>8, <2>10, VolumeDrops
<1>2. CASE ~(v < qty[n])
  <2>1. UNCHANGED bookVars
    BY <1>2 DEF Reduce, ReduceOrder
  <2> QED BY <2>1, VolumesKept DEF bookVars, EngineInv
<1> QED BY <1>1, <1>2

(* The same sequences carry the lists and the volumes through every step.     *)
VolumeInv == TypeOK /\ \E Q \in Queues : EngineInv(Q) /\ Volumes(Q)

LEMMA VolumeStep == VolumeInv /\ [Next]_vars => VolumeInv'
<1> SUFFICES ASSUME VolumeInv, [Next]_vars PROVE VolumeInv'
  OBVIOUS
<1>1. TypeOK /\ TypeOK'
  BY NextType DEF VolumeInv
<1>2. PICK Q \in Queues : EngineInv(Q) /\ Volumes(Q)
  BY DEF VolumeInv
<1>3. ASSUME NEW R, EngineInv(R)', Volumes(R)' PROVE VolumeInv'
  <2>1. R \in Queues
    BY <1>3 DEF EngineInv, Linked, Queues
  <2> QED BY <1>1, <1>3, <2>1 DEF VolumeInv
<1>4. ASSUME NEW n \in Node, NEW s \in Side, NEW p \in Price, NEW q \in OrderQty,
             Submit(n, s, p, q)
      PROVE  VolumeInv'
  BY <1>1, <1>2, <1>3, <1>4, SubmitInv, SubmitVolumes
<1>5. CASE TakeBestLevel
  <2>1. Volumes(Q)'
    BY <1>1, <1>2, <1>5, VolumesKept DEF EngineInv, TakeBestLevel, bookVars
  <2> QED BY <1>1, <1>2, <1>3, <1>5, <2>1, TakeBestInv
<1>6. CASE StopMatching
  <2>1. Volumes(Q)'
    BY <1>1, <1>2, <1>6, VolumesKept DEF EngineInv, StopMatching, bookVars
  <2> QED BY <1>1, <1>2, <1>3, <1>6, <2>1, StopInv
<1>7. CASE MatchOne
  <2>1. PICK s, p : s = maker_side /\ p = best
    OBVIOUS
  <2> QED BY <1>1, <1>2, <1>3, <1>7, <2>1, MatchInv, MatchVolumes
<1>8. CASE LeaveLevel
  BY <1>1, <1>2, <1>3, <1>8, LeaveInv, LeaveVolumes
<1>9. CASE RestAndReturn
  <2>1. PICK n, s, p : n = incoming /\ s = order[n].side /\ p = order[n].price
    OBVIOUS
  <2> QED BY <1>1, <1>2, <1>3, <1>9, <2>1, RestInv, RestVolumes
<1>10. ASSUME NEW n \in Node, Cancel(n) PROVE VolumeInv'
  <2>1. PICK s \in Side, p \in Price : \E i \in 1 .. Len(Q[s][p]) :
            n = Q[s][p][i] /\ EngineInv(Removed(Q, s, p, i))'
    BY <1>1, <1>2, <1>10, CancelInv
  <2>2. PICK i \in 1 .. Len(Q[s][p]) : n = Q[s][p][i] /\ EngineInv(Removed(Q, s, p, i))'
    BY <2>1
  <2> QED BY <1>1, <1>2, <1>3, <1>10, <2>2, CancelVolumes
<1>11. ASSUME NEW n \in Node, NEW v \in Quantity, Reduce(n, v) PROVE VolumeInv'
  BY <1>1, <1>2, <1>3, <1>11, ReduceInv, ReduceVolumes
<1>12. CASE UNCHANGED vars
  <2>1. Volumes(Q)'
    BY <1>1, <1>2, <1>12, VolumesKept DEF EngineInv, vars, bookVars
  <2> QED BY <1>2, <1>3, <1>12, <2>1, StutterInv
<1> QED
  BY <1>4, <1>5, <1>6, <1>7, <1>8, <1>9, <1>10, <1>11, <1>12 DEF Next, Match

LEMMA InitVolumes == Init => Volumes(NoQueues)
<1> SUFFICES ASSUME Init, NEW s \in Side, NEW p \in Price
             PROVE  level[s][p].total_volume = Sum(qty, Items(NoQueues[s][p])) % QtyMod
  BY DEF Volumes
<1>1. Items(NoQueues[s][p]) = {}
  BY DEF NoQueues, Items
<1>2. Sum(qty, {}) = 0
  BY InitType, QtyNat, NodeAssumption, SumFacts
<1>3. level[s][p].total_volume = 0
  BY DEF Init, BookInit, NewLevel
<1> QED BY <1>1, <1>2, <1>3, QtyModAssumption

(* The total_volume a level caches, updated by insert, cancel, reduce and by  *)
(* the matching loop itself, is at every step the sum of the quantities of    *)
(* the orders in its list, as a uint64_t.                                     *)
THEOREM VolumesAlwaysSum == Spec => []VolumeIsSum
<1>1. Init => VolumeInv
  BY InitType, InitInv, InitVolumes DEF VolumeInv, EngineInv, Linked
<1>2. VolumeInv => VolumeIsSum
  BY VolumesAreSums DEF VolumeInv, EngineInv
<1> QED BY <1>1, <1>2, VolumeStep, PTL DEF Spec

(* The refinement.  The open orders are those of the nodes in the sequences.  *)
OpenIn(Q) == {OpenOrder(n) : n \in {m \in Node : Queued(Q, m)}}

OpenSound == \A Q : Linked(Q) => OpenOrders = OpenIn(Q)

LEMMA OpenAre == OpenSound
<1> SUFFICES ASSUME NEW Q, Linked(Q) PROVE OpenOrders = OpenIn(Q)
  BY DEF OpenSound
<1>1. OnBook = {m \in Node : Queued(Q, m)}
  BY RestingIsQueue
<1> QED BY <1>1 DEF OpenOrders, OpenIn

LEMMA OpenBoth ==
    ASSUME NEW Q, Linked(Q), NEW R, Linked(R)'
    PROVE  /\ OpenOrders = {OpenOrder(n) : n \in {m \in Node : Queued(Q, m)}}
           /\ OpenOrders' = {OpenOrder(n)' : n \in {m \in Node : Queued(R, m)}}
<1>1. OpenSound'
  BY OpenAre, PTL
<1>2. OpenOrders' = OpenIn(R)'
  BY <1>1 DEF OpenSound
<1>3. OpenOrders = OpenIn(Q)
  BY OpenAre DEF OpenSound
<1> QED BY <1>2, <1>3 DEF OpenIn, Queued

(* Orders on the book keep their place: the open orders stay as they are.     *)
LEMMA OpenKept ==
    ASSUME NEW Q, Linked(Q), Linked(Q)',
           \A n \in Node : Queued(Q, n) => order'[n] = order[n] /\ qty'[n] = qty[n]
    PROVE  OpenOrders' = OpenOrders
<1>1. \A n \in Node : Queued(Q, n) => OpenOrder(n)' = OpenOrder(n)
  BY DEF OpenOrder
<1>2. /\ OpenOrders = {OpenOrder(n) : n \in {m \in Node : Queued(Q, m)}}
      /\ OpenOrders' = {OpenOrder(n)' : n \in {m \in Node : Queued(Q, m)}}
  BY OpenBoth
<1> QED BY <1>1, <1>2

LEMMA StutterPTP ==
    ASSUME OpenOrders' = OpenOrders, submitted' = submitted, trades' = trades,
           pc' = "idle" <=> pc = "idle",
           pc # "idle" => incoming' = incoming /\ order' = order /\ qty' = qty
    PROVE  UNCHANGED PTP!vars
BY DEF PTP!vars, Taker, OpenOrder

LEMMA SubmitPTP ==
    ASSUME TypeOK, NEW Q, EngineInv(Q), EngineInv(Q)', NEW n \in Node, NEW s \in Side,
           NEW p \in Price, NEW q \in OrderQty, Submit(n, s, p, q)
    PROVE  PTP!Next
<1>1. ~Queued(Q, n)
  BY RestingIsQueue DEF EngineInv, Submit
<1>2. /\ order' = [order EXCEPT ![n] = [id |-> submitted + 1, side |-> s, price |-> p]]
      /\ qty' = [qty EXCEPT ![n] = q] /\ trades' = trades
      /\ submitted' = submitted + 1 /\ pc = "idle" /\ pc' = "outer" /\ incoming' = n
  BY DEF Submit
<1>3. OpenOrders' = OpenOrders
  BY <1>1, <1>2, OpenKept, BookTypes DEF EngineInv
<1>4. Taker = <<>> /\ Taker' = << [id |-> submitted + 1, side |-> s, price |-> p, qty |-> q] >>
  BY <1>2, BookTypes DEF Taker, OpenOrder
<1>5. PTP!Arrive(s, p, q)
  BY <1>2, <1>3, <1>4 DEF PTP!Arrive
<1>6. q \in 1 .. (QtyMod - 1) /\ s \in PTP!Side
  BY OrderQtyAssumption, QtyModAssumption DEF Quantity, Side, PTP!Side
<1> QED BY <1>5, <1>6 DEF PTP!Next

(* The head of the best level goes before every other order of its side.      *)
LEMMA HeadIsFirst ==
    ASSUME TypeOK, NEW Q, EngineInv(Q), NEW s \in Side, NEW p \in Price, IsBest(s, p),
           NEW n \in Node, Len(Q[s][p]) \in Nat \ {0}, n = Q[s][p][1]
    PROVE  PTP!First(OpenOrder(n))
<1>1. order[n].side = s /\ order[n].price = p
  BY DEF EngineInv, Linked, Placed
<1>2. SUFFICES ASSUME NEW o \in OpenOrders, o.side = s, o # OpenOrder(n)
               PROVE  \/ IF s = "Buy" THEN p > o.price ELSE p < o.price
                      \/ p = o.price /\ order[n].id < o.id
  <2>1. OpenOrder(n).side = s /\ OpenOrder(n).price = p /\ OpenOrder(n).id = order[n].id
    BY <1>1 DEF OpenOrder
  <2> QED BY <2>1 DEF PTP!First
<1>3. PICK m \in Node : Queued(Q, m) /\ o = OpenOrder(m)
  <2>1. OpenOrders = {OpenOrder(k) : k \in {j \in Node : Queued(Q, j)}}
    BY OpenAre DEF OpenSound, OpenIn, EngineInv
  <2> QED BY <2>1
<1>4. m # n /\ o.side = order[m].side /\ o.price = order[m].price /\ o.id = order[m].id
  BY <1>2, <1>3 DEF OpenOrder
<1>5. PICK z \in Side, q \in Price : \E k \in 1 .. Len(Q[z][q]) : m = Q[z][q][k]
  BY <1>3 DEF Queued
<1>6. PICK k \in 1 .. Len(Q[z][q]) : m = Q[z][q][k]
  BY <1>5
<1>7. z = s /\ order[m].price = q /\ q \in keys[s]
  <2>1. order[m].side = z /\ order[m].price = q /\ q \in keys[z]
    BY <1>6 DEF EngineInv, Linked, Placed
  <2> QED BY <1>2, <1>4, <2>1
<1>8. CASE q = p
  <2>1. 1 \in 1 .. Len(Q[s][p]) /\ k \in 1 .. Len(Q[s][p]) /\ k # 1
    BY <1>4, <1>6, <1>7, <1>8
  <2>2. order[n].id < order[m].id
    BY <1>6, <1>7, <1>8, <2>1 DEF EngineInv, Ranked
  <2> QED BY <1>4, <1>7, <1>8, <2>2
<1>9. CASE q # p
  <2>1. ~Better(s, q, p) /\ q \in Nat /\ p \in Nat
    BY <1>7, PriceAssumption DEF IsBest
  <2> QED BY <1>4, <1>7, <1>9, <2>1 DEF Better
<1> QED BY <1>8, <1>9

(* One iteration of the inner loop executes that order.                       *)
LEMMA MatchPTP ==
    ASSUME TypeOK, NEW Q, EngineInv(Q), MatchOne, NEW r \in Node, r = resting_order,
           NEW R, Linked(R)',
           \A m \in Node : Queued(R, m) <=> Queued(Q, m) /\ (qty'[r] = 0 => m # r)
    PROVE  PTP!Next
<1>1. PICK s \in Side, p \in Price : s = maker_side /\ p = best
  BY CursorOrder
<1>2. /\ incoming \in Node /\ Len(Q[s][p]) \in Nat \ {0}
      /\ r = Q[s][p][1] /\ r # incoming /\ Queued(Q, r)
      /\ order[r].side = s /\ order[r].price = p
  BY <1>1, CursorOrder
<1>3. PICK t \in Quantity :
         /\ t = IF qty[incoming] < qty[r] THEN qty[incoming] ELSE qty[r]
         /\ t <= qty[incoming] /\ t <= qty[r]
         /\ qty'[incoming] = qty[incoming] - t /\ qty'[r] = qty[r] - t
         /\ \A m \in Node : m # incoming /\ m # r => qty'[m] = qty[m]
  BY <1>2, MatchQuantities
<1>4. /\ pc = "inner" /\ pc' = "inner" /\ qty[incoming] > 0
      /\ order' = order /\ submitted' = submitted /\ incoming' = incoming
      /\ trades' = Append(trades, [maker |-> order[r].id, taker |-> order[incoming].id,
                                   price |-> p, qty |-> t])
  BY <1>1, <1>3 DEF MatchOne
<1>5. /\ OpenOrders = {OpenOrder(n) : n \in {m \in Node : Queued(Q, m)}}
      /\ OpenOrders' = {OpenOrder(n)' : n \in {m \in Node : Queued(R, m)}}
  BY OpenBoth DEF EngineInv
<1> DEFINE m == OpenOrder(r)
           T == OpenOrder(incoming)
           q == PTP!Least(T.qty, m.qty)
<1>6. m \in OpenOrders
  BY <1>2, <1>5
<1>7. Taker = <<T>> /\ Taker' = <<OpenOrder(incoming)'>>
  BY <1>4 DEF Taker
<1>8. T.qty = qty[incoming] /\ m.qty = qty[r] /\ q = t /\ m.price = p /\ m.side = s
      /\ m.id = order[r].id /\ T.id = order[incoming].id
      /\ T.side = taker_side /\ T.price = order[incoming].price
  BY <1>2, <1>3 DEF OpenOrder, PTP!Least, taker_side
<1>9. PTP!Crosses(T, m)
  <2>1. Crosses(p) /\ s = Opposite(taker_side)
    BY <1>1, <1>4 DEF EngineInv, CursorAtHead, maker_side
  <2> QED BY <1>8, <2>1 DEF PTP!Crosses, Crosses, PTP!Opposite, Opposite
<1>10. PTP!First(m)
  <2>1. IsBest(s, p)
    BY <1>1, <1>4 DEF EngineInv, CursorAtHead
  <2> QED BY <1>2, <2>1, HeadIsFirst
<1>11. OpenOrder(incoming)' = [T EXCEPT !.qty = @ - q]
  BY <1>3, <1>4, <1>8 DEF OpenOrder
<1>12. OpenOrders' = (OpenOrders \ {m}) \cup
                     (IF m.qty > q THEN {[m EXCEPT !.qty = @ - q]} ELSE {})
  <2>1. \A n \in Node : Queued(Q, n) /\ n # r => OpenOrder(n)' = OpenOrder(n) /\ OpenOrder(n) # m
    <3>1. \A n \in Node : Queued(Q, n) /\ n # r =>
              n # incoming /\ order[n].id # order[r].id
      BY <1>2, <1>4 DEF EngineInv, TakerOutside, Arrived
    <3> QED BY <1>3, <1>4, <3>1 DEF OpenOrder
  <2>2. OpenOrders \ {m} = {OpenOrder(n) : n \in {k \in Node : Queued(Q, k) /\ k # r}}
    <3> HIDE DEF m
    <3> QED BY <1>5, <2>1 DEF m
  <2>3. {OpenOrder(n)' : n \in {k \in Node : Queued(Q, k) /\ k # r}}
            = {OpenOrder(n) : n \in {k \in Node : Queued(Q, k) /\ k # r}}
    BY <2>1
  <2>4. OpenOrder(r)' = [m EXCEPT !.qty = @ - q]
    BY <1>3, <1>4, <1>8 DEF OpenOrder
  <2>5. qty[r] \in Nat /\ t \in Nat
    BY BookTypes DEF Quantity
  <2>6. CASE qty'[r] = 0
    <3>1. ~(m.qty > q)
      BY <1>3, <1>8, <2>5, <2>6
    <3>2. {k \in Node : Queued(R, k)} = {k \in Node : Queued(Q, k) /\ k # r}
      BY <2>6
    <3> HIDE DEF m, q
    <3> QED BY <1>5, <2>2, <2>3, <3>1, <3>2
  <2>7. CASE qty'[r] # 0
    <3>1. m.qty > q
      BY <1>3, <1>8, <2>5, <2>7
    <3>2. {k \in Node : Queued(R, k)} = {k \in Node : Queued(Q, k) /\ k # r} \cup {r}
      BY <1>2, <2>7
    <3>3. OpenOrders' = {OpenOrder(n)' : n \in {k \in Node : Queued(Q, k) /\ k # r}}
                            \cup {OpenOrder(r)'}
      BY <1>5, <3>2
    <3> HIDE DEF m, q
    <3> QED BY <2>2, <2>3, <2>4, <3>1, <3>3
  <2> QED BY <2>6, <2>7
<1> HIDE DEF m, T, q
<1>13. PTP!Execute(m)
  <2>1. Taker # <<>> /\ Taker[1] = T /\ T.qty > 0
    BY <1>4, <1>7, <1>8
  <2>2. Taker' = <<[T EXCEPT !.qty = @ - q]>>
    BY <1>7, <1>11
  <2>3. trades' = Append(trades, [maker |-> m.id, taker |-> T.id, price |-> m.price, qty |-> q])
    BY <1>4, <1>8
  <2> QED BY <1>4, <1>9, <1>10, <1>12, <2>1, <2>2, <2>3 DEF PTP!Execute, q
<1> QED BY <1>6, <1>13 DEF PTP!Next

(* The end of the call finishes the taker: nothing left crosses it.           *)
LEMMA RestPTP ==
    ASSUME UncrossedInv, NEW Q, EngineInv(Q), RestAndReturn, NEW n, n = incoming,
           NEW R, Linked(R)',
           \A m \in Node : Queued(R, m) <=> Queued(Q, m) \/ (m = n /\ qty[n] > 0)
    PROVE  PTP!Next
<1>1. TypeOK /\ n \in Node /\ pc = "rest" /\ taker_side \in Side /\ maker_side \in Side
  BY SidesType DEF RestAndReturn, UncrossedInv
<1>2. pc' = "idle" /\ trades' = <<>> /\ submitted' = submitted
      /\ order' = order /\ qty' = qty
  BY DEF RestAndReturn, InsertOrder, bookVars
<1>3. /\ OpenOrders = {OpenOrder(k) : k \in {m \in Node : Queued(Q, m)}}
      /\ OpenOrders' = {OpenOrder(k)' : k \in {m \in Node : Queued(R, m)}}
  BY OpenBoth DEF EngineInv
<1> DEFINE T == OpenOrder(n)
<1>4. Taker = <<T>> /\ Taker' = <<>>
  BY <1>1, <1>2 DEF Taker
<1>5. T.qty = qty[n] /\ T.side = taker_side /\ T.price = order[n].price /\ qty[n] \in Nat
  BY <1>1, BookTypes DEF OpenOrder, taker_side, Quantity
<1>6. T.qty = 0 \/ \A m \in OpenOrders : ~PTP!Crosses(T, m)
  <2>1. SUFFICES ASSUME qty[n] > 0, NEW o \in OpenOrders PROVE ~PTP!Crosses(T, o)
    BY <1>5
  <2>2. PICK m \in Node : Queued(Q, m) /\ o = OpenOrder(m)
    BY <1>3
  <2>3. PICK z \in Side, q \in Price : \E k \in 1 .. Len(Q[z][q]) : m = Q[z][q][k]
    BY <2>2 DEF Queued
  <2>4. order[m].side = z /\ order[m].price = q /\ q \in keys[z]
    BY <2>3 DEF EngineInv, Linked, Placed
  <2>5. o.side = z /\ o.price = q
    BY <2>2, <2>4 DEF OpenOrder
  <2>6. \A p \in keys[maker_side] : ~Crosses(p)
    BY <1>1, <2>1 DEF UncrossedInv, RestsUncrossed
  <2>7. CASE z = maker_side
    <3>1. ~Crosses(q)
      BY <2>4, <2>6, <2>7
    <3> HIDE DEF T
    <3> QED BY <1>5, <2>5, <3>1 DEF PTP!Crosses, Crosses
  <2>8. CASE z # maker_side
    <3> HIDE DEF T
    <3> QED BY <1>5, <2>5, <2>8 DEF PTP!Crosses, maker_side, PTP!Opposite, Opposite
  <2> QED BY <2>7, <2>8
<1>7. OpenOrders' = OpenOrders \cup (IF T.qty > 0 THEN {T} ELSE {})
  <2>1. \A m \in Node : OpenOrder(m)' = OpenOrder(m)
    BY <1>2 DEF OpenOrder
  <2>2. OpenOrders' = {OpenOrder(k) : k \in {m \in Node : Queued(R, m)}}
    BY <1>3, <2>1
  <2>3. CASE qty[n] > 0
    <3>1. {m \in Node : Queued(R, m)} = {m \in Node : Queued(Q, m)} \cup {n}
      BY <1>1, <2>3
    <3> QED BY <1>3, <1>5, <2>2, <2>3, <3>1
  <2>4. CASE ~(qty[n] > 0)
    <3>1. {m \in Node : Queued(R, m)} = {m \in Node : Queued(Q, m)}
      BY <2>4
    <3> QED BY <1>3, <1>5, <2>2, <2>4, <3>1
  <2> QED BY <2>3, <2>4
<1> HIDE DEF T
<1>8. PTP!Finish
  BY <1>2, <1>4, <1>6, <1>7 DEF PTP!Finish
<1> QED BY <1>8 DEF PTP!Next

(* Orders have different ids, so an open order stands for one node.           *)
LEMMA OpenWithout ==
    ASSUME NEW Q, EngineInv(Q), NEW n \in Node, Queued(Q, n)
    PROVE  /\ OpenOrder(n) \in OpenOrders
           /\ OpenOrders \ {OpenOrder(n)}
                  = {OpenOrder(m) : m \in {k \in Node : Queued(Q, k) /\ k # n}}
<1>1. OpenOrders = {OpenOrder(m) : m \in {k \in Node : Queued(Q, k)}}
  BY OpenAre DEF OpenSound, OpenIn, EngineInv
<1>2. \A m \in Node : Queued(Q, m) /\ m # n => OpenOrder(m) # OpenOrder(n)
  <2>1. \A m \in Node : Queued(Q, m) /\ m # n => order[m].id # order[n].id
    BY DEF EngineInv, Arrived
  <2>2. \A m \in Node : OpenOrder(m).id = order[m].id
    BY DEF OpenOrder
  <2> QED BY <2>1, <2>2
<1> QED BY <1>1, <1>2

LEMMA CancelPTP ==
    ASSUME TypeOK, NEW Q, EngineInv(Q), NEW n \in Node, Cancel(n), NEW R, Linked(R)',
           \A m \in Node : Queued(R, m) <=> Queued(Q, m) /\ m # n
    PROVE  PTP!Next
<1>1. Queued(Q, n) /\ pc = "idle"
  BY RestingIsQueue DEF EngineInv, Cancel
<1>2. order' = order /\ qty' = qty /\ UNCHANGED engineVars
  BY DEF Cancel, CancelOrder, bookVars
<1>3. /\ OpenOrder(n) \in OpenOrders
      /\ OpenOrders \ {OpenOrder(n)}
                  = {OpenOrder(m) : m \in {k \in Node : Queued(Q, k) /\ k # n}}
  BY <1>1, OpenWithout
<1>4. OpenOrders' = {OpenOrder(m)' : m \in {k \in Node : Queued(R, k)}}
  BY OpenBoth DEF EngineInv
<1>5. \A m \in Node : OpenOrder(m)' = OpenOrder(m)
  BY <1>2 DEF OpenOrder
<1>6. {k \in Node : Queued(R, k)} = {k \in Node : Queued(Q, k) /\ k # n}
  OBVIOUS
<1>7. OpenOrders' = OpenOrders \ {OpenOrder(n)}
  BY <1>3, <1>4, <1>5, <1>6
<1>8. PTP!Cancel(OpenOrder(n))
  BY <1>1, <1>2, <1>7 DEF PTP!Cancel, Taker, engineVars
<1> QED BY <1>3, <1>8 DEF PTP!Next

LEMMA ReducePTP ==
    ASSUME TypeOK, NEW Q, EngineInv(Q), EngineInv(Q)', NEW n \in Node,
           NEW v \in Quantity, Reduce(n, v)
    PROVE  PTP!Next \/ UNCHANGED PTP!vars
<1>1. Queued(Q, n) /\ pc = "idle"
  BY RestingIsQueue DEF EngineInv, Reduce
<1>2. order' = order /\ UNCHANGED engineVars
  BY DEF Reduce, ReduceOrder, bookVars
<1>3. CASE v < qty[n]
  <2>1. qty' = [qty EXCEPT ![n] = v]
    BY <1>3 DEF Reduce, ReduceOrder
  <2>2. /\ OpenOrder(n) \in OpenOrders
        /\ OpenOrders \ {OpenOrder(n)}
                  = {OpenOrder(m) : m \in {k \in Node : Queued(Q, k) /\ k # n}}
    BY <1>1, OpenWithout
  <2>3. OpenOrders' = {OpenOrder(m)' : m \in {k \in Node : Queued(Q, k)}}
    BY OpenBoth DEF EngineInv
  <2>4. \A m \in Node : m # n => OpenOrder(m)' = OpenOrder(m)
    BY <1>2, <2>1, BookTypes DEF OpenOrder
  <2>5. OpenOrder(n)' = [OpenOrder(n) EXCEPT !.qty = v]
    BY <1>2, <2>1, BookTypes DEF OpenOrder
  <2>6. {k \in Node : Queued(Q, k)} = {k \in Node : Queued(Q, k) /\ k # n} \cup {n}
    BY <1>1
  <2>7. OpenOrders' = {OpenOrder(m)' : m \in {k \in Node : Queued(Q, k) /\ k # n}}
                          \cup {OpenOrder(n)'}
    BY <2>3, <2>6
  <2>8. {OpenOrder(m)' : m \in {k \in Node : Queued(Q, k) /\ k # n}}
            = {OpenOrder(m) : m \in {k \in Node : Queued(Q, k) /\ k # n}}
    BY <2>4
  <2>9. OpenOrders' = (OpenOrders \ {OpenOrder(n)}) \cup {[OpenOrder(n) EXCEPT !.qty = v]}
    BY <2>2, <2>5, <2>7, <2>8
  <2>10. v < OpenOrder(n).qty /\ v \in 0 .. (QtyMod - 1)
    BY <1>3 DEF OpenOrder, Quantity
  <2>11. PTP!Reduce(OpenOrder(n), v)
    BY <1>1, <1>2, <2>9, <2>10 DEF PTP!Reduce, Taker, engineVars
  <2> QED BY <2>2, <2>10, <2>11 DEF PTP!Next
<1>4. CASE ~(v < qty[n])
  <2>1. UNCHANGED bookVars
    BY <1>4 DEF Reduce, ReduceOrder
  <2>2. OpenOrders' = OpenOrders
    BY <2>1, OpenKept DEF bookVars, EngineInv
  <2> QED BY <1>1, <1>2, <2>1, <2>2, StutterPTP DEF bookVars, engineVars
<1> QED BY <1>3, <1>4

(* Every step of the engine is a step of the abstract matching, or leaves its *)
(* variables alone; the lists are the same sequences as in ListInv.           *)
RefinementInv == UncrossedInv /\ \E Q \in Queues : EngineInv(Q)

LEMMA RefinementStep == RefinementInv /\ [Next]_vars => [PTP!Next]_(PTP!vars)
<1> SUFFICES ASSUME RefinementInv, [Next]_vars PROVE PTP!Next \/ UNCHANGED PTP!vars
  OBVIOUS
<1>1. TypeOK /\ UncrossedInv
  BY DEF RefinementInv, UncrossedInv
<1>2. PICK Q \in Queues : EngineInv(Q)
  BY DEF RefinementInv
<1>3. ASSUME NEW n \in Node, NEW s \in Side, NEW p \in Price, NEW q \in OrderQty,
             Submit(n, s, p, q)
      PROVE  PTP!Next
  BY <1>1, <1>2, <1>3, SubmitInv, SubmitPTP
<1>4. ASSUME EngineInv(Q)', UNCHANGED <<order, qty, submitted, incoming, trades>>,
             pc # "idle", pc' # "idle"
      PROVE  UNCHANGED PTP!vars
  <2>1. OpenOrders' = OpenOrders
    BY <1>2, <1>4, OpenKept DEF EngineInv
  <2> QED BY <1>4, <2>1, StutterPTP
<1>5. CASE TakeBestLevel
  BY <1>1, <1>2, <1>4, <1>5, TakeBestInv DEF TakeBestLevel, bookVars
<1>6. CASE StopMatching
  BY <1>1, <1>2, <1>4, <1>6, StopInv DEF StopMatching, bookVars
<1>7. CASE MatchOne
  <2>1. PICK s \in Side, p \in Price, r \in Node :
            /\ s = maker_side /\ p = best /\ r = resting_order
            /\ Len(Q[s][p]) \in Nat \ {0} /\ r = Q[s][p][1]
    BY <1>1, <1>2, <1>7, CursorOrder
  <2>2. CASE qty'[r] = 0
    <3>1. Linked(Removed(Q, s, p, 1))'
      BY <1>1, <1>2, <1>7, <2>1, <2>2, MatchInv DEF EngineInv
    <3>2. 1 \in 1 .. Len(Q[s][p]) /\ Linked(Q)
      BY <1>2, <2>1 DEF EngineInv
    <3>3. \A m \in Node : Queued(Removed(Q, s, p, 1), m) <=> Queued(Q, m) /\ m # r
      BY <2>1, <3>2, RemovedQueued
    <3> QED BY <1>1, <1>2, <1>7, <2>1, <2>2, <3>1, <3>3, MatchPTP
  <2>3. CASE qty'[r] # 0
    <3>1. Linked(Q)'
      BY <1>1, <1>2, <1>7, <2>1, <2>3, MatchInv DEF EngineInv
    <3> QED BY <1>1, <1>2, <1>7, <2>1, <2>3, <3>1, MatchPTP
  <2> QED BY <2>2, <2>3
<1>8. CASE LeaveLevel
  BY <1>1, <1>2, <1>4, <1>8, LeaveInv DEF LeaveLevel
<1>9. CASE RestAndReturn
  <2>1. PICK n \in Node : n = incoming /\ pc = "rest"
    BY <1>1, <1>9, SidesType DEF RestAndReturn
  <2>2. PICK s \in Side, p \in Price : s = order[n].side /\ p = order[n].price
    BY <1>1, BookTypes
  <2>3. CASE qty[n] > 0
    <3>1. ~Queued(Q, n) /\ InsertOrder(n) /\ BookTypeOK /\ Linked(Q)
      BY <1>1, <1>2, <1>9, <2>1, <2>3
         DEF EngineInv, TakerOutside, RestAndReturn, TypeOK
    <3>2. /\ Linked(Pushed(Q, s, p, n))'
          /\ \A m \in Node : Queued(Pushed(Q, s, p, n), m) <=> Queued(Q, m) \/ m = n
      BY <2>2, <3>1, InsertLinked
    <3> QED BY <1>1, <1>2, <1>9, <2>1, <2>3, <3>2, RestPTP
  <2>4. CASE ~(qty[n] > 0)
    <3>1. Linked(Q)'
      BY <1>1, <1>2, <1>9, <2>1, <2>2, <2>4, RestInv DEF EngineInv
    <3> QED BY <1>1, <1>2, <1>9, <2>1, <2>4, <3>1, RestPTP
  <2> QED BY <2>3, <2>4
<1>10. ASSUME NEW n \in Node, Cancel(n) PROVE PTP!Next
  <2>1. PICK s \in Side, p \in Price : \E i \in 1 .. Len(Q[s][p]) :
            /\ EngineInv(Removed(Q, s, p, i))'
            /\ \A m \in Node : Queued(Removed(Q, s, p, i), m) <=> Queued(Q, m) /\ m # n
    BY <1>1, <1>2, <1>10, CancelInv
  <2>2. PICK R : EngineInv(R)' /\ \A m \in Node : Queued(R, m) <=> Queued(Q, m) /\ m # n
    BY <2>1
  <2> QED BY <1>1, <1>2, <1>10, <2>2, CancelPTP DEF EngineInv
<1>11. ASSUME NEW n \in Node, NEW v \in Quantity, Reduce(n, v)
       PROVE  PTP!Next \/ UNCHANGED PTP!vars
  BY <1>1, <1>2, <1>11, ReduceInv, ReducePTP
<1>12. CASE UNCHANGED vars
  <2>1. OpenOrders' = OpenOrders
    BY <1>2, <1>12, StutterInv, OpenKept DEF EngineInv, vars, bookVars
  <2> QED BY <1>12, <2>1, StutterPTP DEF vars, bookVars, engineVars
<1> QED
  BY <1>3, <1>5, <1>6, <1>7, <1>8, <1>9, <1>10, <1>11, <1>12 DEF Next, Match

LEMMA InitPTP == Init => PTP!Init
<1> SUFFICES ASSUME Init PROVE PTP!Init
  OBVIOUS
<1>1. OpenOrders = OpenIn(NoQueues)
  BY InitInv, OpenAre DEF OpenSound, EngineInv
<1>2. \A n \in Node : ~Queued(NoQueues, n)
  BY DEF NoQueues, Queued
<1> QED BY <1>1, <1>2 DEF Init, PTP!Init, Taker, OpenIn

(* The engine of lists, levels and cursors implements price-time priority:    *)
(* with its open orders read from the lists, what it does from one entry of   *)
(* process_limit_order to its return is arrival, executions against the best  *)
(* priced earliest order in turn, and the rest of the taker coming to rest.   *)
THEOREM Implements == Spec => ImplementsPriceTime
<1>1. Init => RefinementInv
  BY InitType, InitInv DEF Init, BookInit, RefinementInv, UncrossedInv, NoCrossedBook,
     RestsUncrossed, Side, EngineInv, Linked
<1>2. RefinementInv /\ [Next]_vars => RefinementInv'
  <2>1. RefinementInv => ListInv /\ UncrossedInv
    BY DEF RefinementInv, ListInv, UncrossedInv
  <2>2. UncrossedInv' /\ ListInv' => RefinementInv'
    BY DEF RefinementInv, ListInv
  <2> QED BY <2>1, <2>2, ListStep, NextUncrossed
<1> QED BY <1>1, <1>2, InitPTP, RefinementStep, PTL DEF Spec, ImplementsPriceTime, PTP!Spec

(* The orders on the book are those in the lists, before and after a step,    *)
(* and can be counted.                                                        *)
OnBookSound == \A Q : Linked(Q) => OnBook = {m \in Node : Queued(Q, m)}

LEMMA OnBookAre == OnBookSound
<1> SUFFICES ASSUME NEW Q, Linked(Q) PROVE OnBook = {m \in Node : Queued(Q, m)}
  BY DEF OnBookSound
<1> QED BY RestingIsQueue

LEMMA OnBookBoth ==
    ASSUME NEW Q, Linked(Q), NEW R, Linked(R)'
    PROVE  /\ OnBook = {m \in Node : Queued(Q, m)}
           /\ OnBook' = {m \in Node : Queued(R, m)}
           /\ IsFiniteSet(OnBook)
           /\ Cardinality(OnBook) \in Nat /\ Cardinality(OnBook') \in Nat
<1>1. OnBookSound'
  BY OnBookAre, PTL
<1>2. OnBook' = {m \in Node : Queued(R, m)}
  BY <1>1 DEF OnBookSound
<1>3. OnBook = {m \in Node : Queued(Q, m)}
  BY OnBookAre DEF OnBookSound
<1>4. IsFiniteSet(OnBook) /\ IsFiniteSet(OnBook')
  BY <1>2, <1>3, NodeAssumption, FS_Subset
<1> QED BY <1>2, <1>3, <1>4, FS_CardinalityType

LEMMA SameCount ==
    ASSUME NEW Q, Linked(Q), Linked(Q)'
    PROVE  Cardinality(OnBook') = Cardinality(OnBook) /\ Cardinality(OnBook) \in Nat
BY OnBookBoth

(* Quantities are naturals, the incoming order's among them during a call.    *)
LEMMA TakerQuantity ==
    ASSUME TypeOK, pc # "idle"
    PROVE  incoming \in Node /\ qty[incoming] \in Nat
<1>1. incoming \in Node
  BY DEF TypeOK
<1> QED BY <1>1, BookTypes DEF Quantity

(* An iteration of the inner loop unlinks the maker or uses up the taker.     *)
LEMMA MatchShortens ==
    ASSUME TypeOK, NEW Q, EngineInv(Q), MatchOne
    PROVE  /\ Cardinality(OnBook) \in Nat \ {0} /\ Cardinality(OnBook') \in Nat
           /\ qty'[incoming] \in Nat
           /\ qty'[incoming] # 0 => Cardinality(OnBook') = Cardinality(OnBook) - 1
<1>1. PICK s \in Side, p \in Price, r \in Node :
          /\ s = maker_side /\ p = best /\ r = resting_order
          /\ Len(Q[s][p]) \in Nat \ {0} /\ r = Q[s][p][1]
          /\ incoming \in Node /\ r # incoming /\ Queued(Q, r)
  BY CursorOrder
<1>2. Linked(Q) /\ 1 \in 1 .. Len(Q[s][p])
  BY <1>1 DEF EngineInv
<1>3. PICK t \in Quantity : /\ t <= qty[incoming] /\ qty'[incoming] = qty[incoming] - t
                            /\ qty'[r] = 0 \/ qty'[incoming] = 0
  BY <1>1, MatchQuantities
<1>4. qty'[incoming] \in Nat
  <2>1. qty[incoming] \in Nat /\ t \in Nat
    BY <1>1, BookTypes DEF Quantity
  <2> QED BY <1>3, <2>1
<1>5. CASE qty'[r] = 0
  <2>1. Linked(Removed(Q, s, p, 1))'
    BY <1>1, <1>5, MatchInv DEF EngineInv
  <2>2. \A m \in Node : Queued(Removed(Q, s, p, 1), m) <=> Queued(Q, m) /\ m # r
    BY <1>1, <1>2, RemovedQueued
  <2>3. /\ OnBook = {m \in Node : Queued(Q, m)}
        /\ OnBook' = {m \in Node : Queued(Removed(Q, s, p, 1), m)}
        /\ IsFiniteSet(OnBook) /\ Cardinality(OnBook) \in Nat /\ Cardinality(OnBook') \in Nat
    BY <1>2, <2>1, OnBookBoth
  <2>4. OnBook' = OnBook \ {r} /\ r \in OnBook
    BY <1>1, <2>2, <2>3
  <2>5. Cardinality(OnBook \ {r}) = Cardinality(OnBook) - 1
    BY <2>3, <2>4, FS_RemoveElement
  <2>6. Cardinality(OnBook) # 0
    BY <2>3, <2>4, FS_EmptySet
  <2> QED BY <1>4, <2>3, <2>4, <2>5, <2>6
<1>6. CASE qty'[r] # 0
  <2>1. Linked(Q)'
    BY <1>1, <1>6, MatchInv DEF EngineInv
  <2>2. /\ OnBook = {m \in Node : Queued(Q, m)} /\ IsFiniteSet(OnBook)
        /\ Cardinality(OnBook) \in Nat /\ Cardinality(OnBook') \in Nat
    BY <1>2, <2>1, OnBookBoth
  <2>3. OnBook # {}
    BY <1>1, <2>2
  <2>4. Cardinality(OnBook) # 0
    BY <2>2, <2>3, FS_EmptySet
  <2> QED BY <1>3, <1>4, <1>6, <2>2, <2>4
<1> QED BY <1>5, <1>6

(* Every step of a call, by what the step does to the measure.                *)
CallInv == TypeOK /\ NoEmptyLevel /\ \E Q \in Queues : EngineInv(Q)

LEMMA CallStep == CallInv /\ [Next]_vars => [pc # "idle" => StepsLeft' < StepsLeft]_vars
<1> SUFFICES ASSUME CallInv, Next, pc # "idle" PROVE StepsLeft' < StepsLeft
  BY DEF CallInv
<1>1. TypeOK /\ NoEmptyLevel /\ incoming \in Node /\ qty[incoming] \in Nat
  BY TakerQuantity DEF CallInv
<1>2. PICK Q \in Queues : EngineInv(Q)
  BY DEF CallInv
<1>3. Linked(Q)
  BY <1>2 DEF EngineInv
<1> DEFINE N == Cardinality(OnBook)
           M == Cardinality(OnBook')
<1>4. CASE TakeBestLevel
  <2>1. Linked(Q)'
    BY <1>1, <1>2, <1>4, TakeBestInv DEF EngineInv
  <2>2. M = N /\ N \in Nat
    BY <1>3, <2>1, SameCount
  <2>3. /\ pc = "outer" /\ pc' = "inner" /\ qty[incoming] > 0
        /\ qty' = qty /\ incoming' = incoming
    BY <1>4 DEF TakeBestLevel, bookVars
  <2>4. resting_order' # Null
    <3>1. PICK p \in Price : IsBest(maker_side, p)
                             /\ resting_order' = level[maker_side][p].head
      BY <1>4 DEF TakeBestLevel
    <3>2. maker_side \in Side /\ p \in keys[maker_side] /\ pc # "inner"
      BY <1>1, <2>3, <3>1, SidesType DEF IsBest
    <3> QED BY <1>1, <3>1, <3>2 DEF NoEmptyLevel
  <2>5. StepsLeft = 3 * N + 3
    BY <1>1, <2>3 DEF StepsLeft
  <2>6. StepsLeft' = 3 * M + 2
    BY <1>1, <2>3, <2>4 DEF StepsLeft
  <2> HIDE DEF N, M
  <2> QED BY <2>2, <2>5, <2>6
<1>5. CASE StopMatching
  <2>1. Linked(Q)'
    BY <1>1, <1>2, <1>5, StopInv DEF EngineInv
  <2>2. N \in Nat
    BY <1>3, <2>1, SameCount
  <2>3. pc = "outer" /\ pc' = "rest"
    BY <1>5 DEF StopMatching
  <2>4. StepsLeft' = 1
    BY <2>3 DEF StepsLeft
  <2>5. StepsLeft = IF qty[incoming] = 0 THEN 2 ELSE 3 * N + 3
    BY <2>3 DEF StepsLeft
  <2> HIDE DEF N, M
  <2> QED BY <2>2, <2>4, <2>5
<1>6. CASE MatchOne
  <2>1. /\ N \in Nat \ {0} /\ M \in Nat /\ qty'[incoming] \in Nat
        /\ qty'[incoming] # 0 => M = N - 1
    BY <1>1, <1>2, <1>6, MatchShortens
  <2>2. /\ pc = "inner" /\ pc' = "inner" /\ resting_order # Null /\ qty[incoming] > 0
        /\ incoming' = incoming
    BY <1>6 DEF MatchOne
  <2>3. StepsLeft = 3 * N + 2
    BY <1>1, <2>2 DEF StepsLeft
  <2>4. StepsLeft' = IF qty'[incoming] = 0 THEN 3
                     ELSE IF resting_order' = Null THEN 3 * M + 4 ELSE 3 * M + 2
    BY <2>2 DEF StepsLeft
  <2> HIDE DEF N, M
  <2> QED BY <2>1, <2>3, <2>4
<1>7. CASE LeaveLevel
  <2>1. Linked(Q)'
    BY <1>1, <1>2, <1>7, LeaveInv DEF EngineInv
  <2>2. M = N /\ N \in Nat
    BY <1>3, <2>1, SameCount
  <2>3. /\ pc = "inner" /\ pc' = "outer"
        /\ resting_order = Null \/ qty[incoming] = 0
        /\ qty' = qty /\ incoming' = incoming
    BY <1>7 DEF LeaveLevel
  <2>4. StepsLeft = IF qty[incoming] = 0 THEN 3 ELSE 3 * N + 4
    BY <2>3 DEF StepsLeft
  <2>5. StepsLeft' = IF qty[incoming] = 0 THEN 2 ELSE 3 * M + 3
    BY <2>3 DEF StepsLeft
  <2> HIDE DEF N, M
  <2> QED BY <2>2, <2>4, <2>5
<1>8. CASE RestAndReturn
  <2>1. pc = "rest" /\ pc' = "idle"
    BY <1>8 DEF RestAndReturn
  <2>2. StepsLeft = 1 /\ StepsLeft' = 0
    BY <2>1 DEF StepsLeft
  <2> QED BY <2>2
<1> QED
  BY <1>4, <1>5, <1>6, <1>7, <1>8 DEF Next, Match, Submit, Cancel, Reduce

(* No call goes on for ever, and none takes more steps than three for every   *)
(* order on the book and four: each iteration of either loop brings the call  *)
(* nearer to its return, also over orders that were reduced to 0, because the *)
(* inner loop unlinks what it has used up and a level in the maps always has  *)
(* an order to begin with.                                                    *)
THEOREM CallsAreShort == Spec => CallsEnd
<1>1. ListInv /\ NoEmptyLevel => CallInv
  BY DEF ListInv, CallInv
<1>2. ListInv /\ NoEmptyLevel /\ [Next]_vars => [pc # "idle" => StepsLeft' < StepsLeft]_vars
  BY <1>1, CallStep
<1> QED BY <1>2, ListInvariant, LevelsHaveOrders, PTL DEF Spec, CallsEnd

=============================================================================
