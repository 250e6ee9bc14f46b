-------------------------- MODULE SPSCQueueProofs --------------------------
(* Theorems about SPSCQueue for every capacity and every set of items.        *)
EXTENDS SPSCQueue, SequenceTheorems, TLAPS

LEMMA IncType == ASSUME NEW i \in Index PROVE Inc(i) \in Index
BY CapacityAssumption DEF Inc, Index

(* The indices of the ring in the order they trail each other: what the       *)
(* producer believes of the tail, what it may see, the tail; what the         *)
(* consumer believes of the head, what it may see, the head.  Going once      *)
(* through them never takes a full turn, with a slot to spare while one is    *)
(* being filled; and a slot being emptied lies before the believed head.      *)
Turn == Between(cached_tail, tail_vis) + Between(tail_vis, tail)
        + Between(tail, cached_head) + Between(cached_head, head_vis)
        + Between(head_vis, head)
RingInv ==
    /\ Turn < Capacity
    /\ ppc \in {"write", "publish"} => Turn + 1 < Capacity
    /\ cpc \in {"read", "release"} => tail # cached_head

LEMMA InitType == Init => TypeOK
BY CapacityAssumption DEF Init, TypeOK, Index

LEMMA NextType == TypeOK /\ [Next]_vars => TypeOK'
<1> SUFFICES ASSUME TypeOK, [Next]_vars PROVE TypeOK'
  OBVIOUS
<1> USE IncType DEF TypeOK
<1>1. ASSUME NEW x \in Item, Push(x) PROVE TypeOK'
  BY <1>1 DEF Push, EnterPush, cvars
<1>2. CASE RetryPush
  BY <1>2 DEF RetryPush, EnterPush, cvars
<1>3. CASE ReloadTail
  BY <1>3 DEF ReloadTail, cvars
<1>4. CASE WriteSlot
  BY <1>4 DEF WriteSlot, cvars
<1>5. CASE PublishHead
  BY <1>5 DEF PublishHead, cvars
<1>6. CASE Pop
  BY <1>6 DEF Pop, pvars
<1>7. CASE ReloadHead
  BY <1>7 DEF ReloadHead, pvars
<1>8. CASE ReadSlot
  BY <1>8 DEF ReadSlot, pvars
<1>9. CASE ReleaseTail
  BY <1>9 DEF ReleaseTail, pvars
<1>10. CASE HeadBecomesVisible
  BY <1>10 DEF HeadBecomesVisible, pvars, cvars
<1>11. CASE TailBecomesVisible
  BY <1>11 DEF TailBecomesVisible, pvars, cvars
<1>12. CASE UNCHANGED vars
  BY <1>12 DEF vars, pvars, cvars
<1> QED
  BY <1>1, <1>2, <1>3, <1>4, <1>5, <1>6, <1>7, <1>8, <1>9, <1>10, <1>11, <1>12
     DEF Next, InPush, InPop

(* Every index, slot and program counter stays in range, for every capacity.  *)
THEOREM TypeCorrect == Spec => []TypeOK
BY InitType, NextType, PTL DEF Spec

LEMMA InitRing == Init => RingInv
BY CapacityAssumption DEF Init, RingInv, Turn, Between

LEMMA NextRing == TypeOK /\ RingInv /\ [Next]_vars => RingInv'
<1> SUFFICES ASSUME TypeOK, RingInv, [Next]_vars PROVE RingInv'
  OBVIOUS
<1>t. /\ head \in Index /\ head_vis \in Index /\ cached_tail \in Index
      /\ tail \in Index /\ tail_vis \in Index /\ cached_head \in Index
      /\ Capacity \in Nat \ {0}
  BY CapacityAssumption DEF TypeOK
<1> USE <1>t DEF RingInv, Turn, Between, Inc, Index
<1>1. ASSUME NEW x \in Item, Push(x) PROVE RingInv'
  BY <1>1 DEF Push, EnterPush, cvars
<1>2. CASE RetryPush
  BY <1>2 DEF RetryPush, EnterPush, cvars
<1>3. CASE ReloadTail
  BY <1>3 DEF ReloadTail, cvars
<1>4. CASE WriteSlot
  BY <1>4 DEF WriteSlot, cvars
<1>5. CASE PublishHead
  BY <1>5 DEF PublishHead, cvars
<1>6. CASE Pop
  BY <1>6 DEF Pop, pvars
<1>7. CASE ReloadHead
  BY <1>7 DEF ReloadHead, pvars
<1>8. CASE ReadSlot
  BY <1>8 DEF ReadSlot, pvars
<1>9. CASE ReleaseTail
  BY <1>9 DEF ReleaseTail, pvars
<1>10. CASE HeadBecomesVisible
  BY <1>10 DEF HeadBecomesVisible, pvars, cvars
<1>11. CASE TailBecomesVisible
  BY <1>11 DEF TailBecomesVisible, pvars, cvars
<1>12. CASE UNCHANGED vars
  BY <1>12 DEF vars, pvars, cvars
<1> QED
  BY <1>1, <1>2, <1>3, <1>4, <1>5, <1>6, <1>7, <1>8, <1>9, <1>10, <1>11, <1>12
     DEF Next, InPush, InPop

LEMMA RingNoRace == TypeOK /\ RingInv => NoDataRace
<1> SUFFICES ASSUME TypeOK, RingInv PROVE NoDataRace
  OBVIOUS
<1>t. /\ head \in Index /\ head_vis \in Index /\ cached_tail \in Index
      /\ tail \in Index /\ tail_vis \in Index /\ cached_head \in Index
      /\ Capacity \in Nat \ {0}
  BY CapacityAssumption DEF TypeOK
<1> USE <1>t DEF RingInv, Turn, Between, Inc, Index
<1>1. ppc \in {"write", "publish"} /\ cpc \in {"read", "release"} => head # tail
  OBVIOUS
<1>2. ppc \in {"write", "publish"} => Inc(head) # cached_tail
  OBVIOUS
<1>3. cpc = "read" => Between(tail, head_vis) > 0
  OBVIOUS
<1> QED
  BY <1>1, <1>2, <1>3 DEF NoDataRace

(* For every capacity: no slot is written while it is being read, and every   *)
(* access to a slot comes after an acquire of the other thread's release.     *)
THEOREM RaceFree == Spec => []NoDataRace
BY InitType, NextType, InitRing, NextRing, RingNoRace, PTL DEF Spec

(* The queue's length and its k-th item, and what makes the refinement to a   *)
(* FIFO inductive: every slot from tail to head holds an item, the first one  *)
(* possibly in the consumer's hands, and a slot about to be published holds   *)
(* the item being pushed.                                                     *)
Size == Between(tail, head)
SlotAt(k) == IF k = 1 /\ cpc = "release" THEN citem ELSE buffer[Ahead(tail, k - 1)]
HoldInv ==
    /\ \A k \in 1 .. Size : SlotAt(k) \in Item
    /\ ppc = "publish" => buffer[head] = pitem

LEMMA IndexTypes ==
    ASSUME TypeOK
    PROVE  /\ head \in Index /\ head_vis \in Index /\ cached_tail \in Index
           /\ tail \in Index /\ tail_vis \in Index /\ cached_head \in Index
           /\ Capacity \in Nat \ {0}
BY CapacityAssumption DEF TypeOK

LEMMA SizeBounds ==
    ASSUME TypeOK, RingInv
    PROVE  /\ Size \in 0 .. (Capacity - 1)
           /\ cpc \in {"read", "release"} => Size >= 1
           /\ ppc \in {"write", "publish"} => Size + 1 < Capacity
<1> USE IndexTypes DEF Size, RingInv, Turn, Between, Index
<1>1. Size \in 0 .. (Capacity - 1)
  OBVIOUS
<1>2. cpc \in {"read", "release"} => Size >= 1
  OBVIOUS
<1>3. ppc \in {"write", "publish"} => Size + 1 < Capacity
  OBVIOUS
<1> QED
  BY <1>1, <1>2, <1>3

(* The slots from tail to head are different from head and from each other.   *)
LEMMA SlotsApart ==
    ASSUME NEW a \in Index, NEW b \in Index
    PROVE  /\ \A i \in 0 .. (Capacity - 1) : Ahead(a, i) \in Index
           /\ Ahead(a, 0) = a /\ Ahead(a, Between(a, b)) = b
           /\ \A i \in 0 .. (Between(a, b) - 1) : Ahead(a, i) # b
           /\ \A i \in 1 .. (Capacity - 1) : Ahead(a, i) # a
           /\ \A i \in 0 .. (Capacity - 2) : Ahead(Inc(a), i) = Ahead(a, i + 1)
           /\ Between(a, b) + 1 < Capacity => Between(a, Inc(b)) = Between(a, b) + 1
           /\ a # b => Between(Inc(a), b) = Between(a, b) - 1
BY CapacityAssumption DEF Ahead, Between, Inc, Index

LEMMA ContentsIsSeq ==
    ASSUME TypeOK, RingInv, HoldInv
    PROVE  /\ Contents \in Seq(Item) /\ Len(Contents) = Size
           /\ \A k \in 1 .. Size : Contents[k] = SlotAt(k)
<1>1. Size \in Nat
  BY SizeBounds DEF Index
<1>2. Contents = [k \in 1 .. Size |-> SlotAt(k)]
  BY DEF Contents, Size, SlotAt
<1>3. Contents \in [1 .. Size -> Item]
  BY <1>2 DEF HoldInv
<1>4. Contents \in Seq(Item)
  BY <1>1, <1>3, SeqDef
<1>5. Len(Contents) = Size
  BY <1>1, <1>3, <1>4
<1> QED
  BY <1>2, <1>4, <1>5

FifoInv == TypeOK /\ RingInv /\ HoldInv

ContentsAreSlots ==
    /\ Contents \in Seq(Item) /\ Len(Contents) = Size
    /\ \A k \in 1 .. Size : Contents[k] = SlotAt(k)

LEMMA ContentsAfter == FifoInv' => ContentsAreSlots'
<1>1. FifoInv => ContentsAreSlots
  BY ContentsIsSeq DEF FifoInv, ContentsAreSlots
<1> QED
  BY <1>1, PTL

(* Two sequences of slots with the same items are the same contents.          *)
LEMMA SameContents ==
    ASSUME FifoInv, TypeOK', RingInv', HoldInv',
           Size' = Size, \A k \in 1 .. Size : SlotAt(k)' = SlotAt(k)
    PROVE  Contents' = Contents
<1>1. Contents = [k \in 1 .. Size |-> SlotAt(k)]
  BY DEF Contents, Size, SlotAt
<1>2. Contents' = [k \in 1 .. Size' |-> SlotAt(k)']
  BY DEF Contents, Size, SlotAt
<1> QED
  BY <1>1, <1>2

(* A step that leaves the slots from tail to head, the consumer's hands and   *)
(* the indices alone.                                                         *)
LEMMA QuietStep ==
    ASSUME FifoInv, TypeOK', RingInv',
           head' = head, tail' = tail, buffer' = buffer, citem' = citem,
           cpc' = "release" <=> cpc = "release", popped' = popped,
           ppc' = "publish" => ppc = "publish" /\ pitem' = pitem
    PROVE  HoldInv' /\ Contents' = Contents /\ popped' = popped
<1>1. Size' = Size /\ \A k \in 1 .. Size : SlotAt(k)' = SlotAt(k)
  BY DEF Size, Between, SlotAt, Ahead
<1>2. HoldInv'
  BY <1>1 DEF FifoInv, HoldInv
<1> QED
  BY <1>1, <1>2, SameContents

LEMMA WriteStep ==
    ASSUME FifoInv, TypeOK', RingInv', WriteSlot
    PROVE  HoldInv' /\ Contents' = Contents /\ popped' = popped
<1>1. Size' = Size
  BY DEF WriteSlot, cvars, Size, Between
<1>2. ASSUME NEW k \in 1 .. Size PROVE SlotAt(k)' = SlotAt(k)
  <2>0. Size \in Nat
    BY SizeBounds DEF FifoInv
  <2>1. k - 1 \in 0 .. (Size - 1)
    BY <2>0
  <2>2. Ahead(tail, k - 1) # head
    BY <2>1, IndexTypes, SlotsApart DEF FifoInv, Size
  <2> QED
    BY <2>2 DEF WriteSlot, cvars, SlotAt, Ahead, FifoInv, TypeOK
<1>3. buffer'[head'] = pitem'
  BY IndexTypes DEF WriteSlot, FifoInv, TypeOK
<1>4. HoldInv'
  BY <1>1, <1>2, <1>3 DEF FifoInv, HoldInv
<1>5. popped' = popped
  BY DEF WriteSlot, cvars
<1> QED
  BY <1>1, <1>2, <1>4, <1>5, SameContents

LEMMA ReadStep ==
    ASSUME FifoInv, TypeOK', RingInv', ReadSlot
    PROVE  HoldInv' /\ Contents' = Contents /\ popped' = popped
<1>1. Size' = Size /\ Size >= 1 /\ Size \in 0 .. (Capacity - 1)
  BY SizeBounds DEF ReadSlot, Size, Between, FifoInv
<1>2. ASSUME NEW k \in 1 .. Size PROVE SlotAt(k)' = SlotAt(k)
  <2>1. CASE k = 1
    BY <2>1, IndexTypes, SlotsApart DEF ReadSlot, SlotAt, FifoInv
  <2>2. CASE k # 1
    <3>1. k - 1 \in 1 .. (Capacity - 1)
      BY <2>2, <1>1, IndexTypes DEF FifoInv
    <3>2. Ahead(tail, k - 1) # tail
      BY <3>1, IndexTypes, SlotsApart DEF FifoInv
    <3> QED
      BY <2>2, <3>2 DEF ReadSlot, SlotAt, Ahead, FifoInv, TypeOK
  <2> QED
    BY <2>1, <2>2
<1>3. ppc' = "publish" => buffer'[head'] = pitem'
  <2>1. head # tail
    BY <1>1, IndexTypes DEF Size, Between, Index, FifoInv
  <2> QED
    BY <2>1 DEF ReadSlot, pvars, FifoInv, HoldInv, TypeOK
<1>4. HoldInv'
  BY <1>1, <1>2, <1>3 DEF FifoInv, HoldInv
<1>5. popped' = popped
  BY DEF ReadSlot
<1> QED
  BY <1>1, <1>2, <1>4, <1>5, SameContents

(* Publishing the head is the FIFO's Put of the item being pushed.            *)
LEMMA PublishStep ==
    ASSUME FifoInv, TypeOK', RingInv', PublishHead
    PROVE  HoldInv' /\ Fifo!Put(pitem)
<1>1. Size \in 0 .. (Capacity - 1) /\ Size + 1 < Capacity /\ Capacity \in Nat
  BY SizeBounds, IndexTypes DEF PublishHead, FifoInv
<1>2. Size' = Size + 1
  BY <1>1, IndexTypes, SlotsApart DEF PublishHead, Size, FifoInv, Between
<1>3. \A k \in 1 .. Size : SlotAt(k)' = SlotAt(k)
  BY DEF PublishHead, cvars, SlotAt, Ahead
<1>4. ASSUME NEW k \in Nat, k = Size + 1 PROVE SlotAt(k)' = pitem
  <2>1. Ahead(tail, Size) = head /\ buffer[head] = pitem
    BY IndexTypes, SlotsApart DEF Size, PublishHead, FifoInv, HoldInv
  <2>2. k = 1 => cpc # "release"
    BY <1>1, <1>4, SizeBounds DEF FifoInv
  <2>3. k - 1 = Size
    BY <1>1, <1>4
  <2>4. tail' = tail /\ buffer' = buffer /\ cpc' = cpc
    BY DEF PublishHead, cvars
  <2> QED
    BY <2>1, <2>2, <2>3, <2>4 DEF SlotAt, Ahead
<1>5. HoldInv'
  <2>1. \A k \in 1 .. Size' : k \in 1 .. Size \/ (k \in Nat /\ k = Size + 1)
    BY <1>1, <1>2
  <2>2. \A k \in 1 .. Size : SlotAt(k)' \in Item
    BY <1>3 DEF FifoInv, HoldInv
  <2>3. pitem \in Item /\ ppc' # "publish"
    BY DEF PublishHead, FifoInv, TypeOK
  <2>4. \A k \in 1 .. Size' : SlotAt(k)' \in Item
    BY <1>4, <2>1, <2>2, <2>3
  <2> QED
    BY <2>3, <2>4 DEF HoldInv
<1>6. /\ Contents \in Seq(Item) /\ Len(Contents) = Size
      /\ \A k \in 1 .. Size : Contents[k] = SlotAt(k)
  BY ContentsIsSeq DEF FifoInv
<1>7. /\ Contents' \in Seq(Item) /\ Len(Contents') = Size'
      /\ \A k \in 1 .. Size' : Contents'[k] = SlotAt(k)'
  BY <1>5, ContentsAfter DEF FifoInv, ContentsAreSlots
<1>8. Contents' = Append(Contents, pitem)
  <2>1. pitem \in Item
    BY DEF FifoInv, TypeOK
  <2>2. /\ Append(Contents, pitem) \in Seq(Item)
        /\ Len(Append(Contents, pitem)) = Size'
    BY <1>2, <1>6, <2>1
  <2>3. ASSUME NEW k \in 1 .. Size' PROVE Contents'[k] = Append(Contents, pitem)[k]
    <3>0. k \in 1 .. Size \/ k = Size + 1
      BY <1>1, <1>2
    <3>1. CASE k \in 1 .. Size
      BY <1>3, <1>6, <1>7, <3>1
    <3>2. CASE k = Size + 1
      <4>1. Contents'[k] = pitem
        BY <1>1, <1>4, <1>7, <3>2
      <4> QED
        BY <1>1, <1>6, <3>2, <4>1
    <3> QED
      BY <3>0, <3>1, <3>2
  <2> QED
    BY <1>7, <2>2, <2>3, SeqEqual
<1> QED
  BY <1>1, <1>5, <1>6, <1>8 DEF Fifo!Put, PublishHead, cvars

(* Releasing the tail is the FIFO's Get.                                      *)
LEMMA ReleaseStep ==
    ASSUME FifoInv, TypeOK', RingInv', ReleaseTail
    PROVE  HoldInv' /\ Fifo!Get
<1>1. Size \in 1 .. (Capacity - 1) /\ Capacity \in Nat
  BY SizeBounds, IndexTypes DEF ReleaseTail, FifoInv
<1>2. Size' = Size - 1
  BY <1>1, IndexTypes, SlotsApart DEF ReleaseTail, Size, FifoInv, Between
<1>3. ASSUME NEW k \in 1 .. (Size - 1) PROVE SlotAt(k)' = SlotAt(k + 1)
  <2>1. k - 1 \in 0 .. (Capacity - 2) /\ k + 1 # 1 /\ k + 1 - 1 = k - 1 + 1
    BY <1>1
  <2>2. Ahead(Inc(tail), k - 1) = Ahead(tail, k + 1 - 1)
    BY <2>1, IndexTypes, SlotsApart DEF FifoInv
  <2>3. tail' = Inc(tail) /\ buffer' = buffer /\ cpc' # "release"
    BY DEF ReleaseTail
  <2> QED
    BY <2>1, <2>2, <2>3 DEF SlotAt, Ahead
<1>4. HoldInv'
  <2>1. \A k \in 1 .. Size' : SlotAt(k)' \in Item
    BY <1>1, <1>2, <1>3 DEF FifoInv, HoldInv
  <2> QED
    BY <2>1 DEF HoldInv, ReleaseTail, pvars, FifoInv
<1>5. /\ Contents \in Seq(Item) /\ Len(Contents) = Size
      /\ \A k \in 1 .. Size : Contents[k] = SlotAt(k)
  BY ContentsIsSeq DEF FifoInv
<1>6. /\ Contents' \in Seq(Item) /\ Len(Contents') = Size'
      /\ \A k \in 1 .. Size' : Contents'[k] = SlotAt(k)'
  BY <1>4, ContentsAfter DEF FifoInv, ContentsAreSlots
<1>7. Contents # <<>> /\ Head(Contents) = citem
  BY <1>1, <1>5 DEF SlotAt, ReleaseTail
<1>8. Contents' = Tail(Contents)
  BY <1>1, <1>2, <1>3, <1>5, <1>6, <1>7
<1> QED
  BY <1>4, <1>7, <1>8 DEF Fifo!Get, ReleaseTail

LEMMA InitFifo == Init => HoldInv /\ Fifo!Init
<1> SUFFICES ASSUME Init PROVE HoldInv /\ Fifo!Init
  OBVIOUS
<1>1. Size = 0
  BY DEF Init, Size, Between
<1>2. HoldInv
  BY <1>1 DEF Init, HoldInv
<1>3. TypeOK /\ RingInv
  BY InitType, InitRing
<1>4. Contents = <<>>
  BY <1>1, <1>2, <1>3, ContentsIsSeq
<1> QED
  BY <1>2, <1>4 DEF Init, Fifo!Init

(* Every step of the ring is a step of the FIFO, or leaves it alone.          *)
LEMMA NextFifo ==
    FifoInv /\ [Next]_vars => FifoInv' /\ [Fifo!Next]_<<Contents, popped>>
<1> SUFFICES ASSUME FifoInv, [Next]_vars
             PROVE  FifoInv' /\ [Fifo!Next]_<<Contents, popped>>
  OBVIOUS
<1>1. TypeOK' /\ RingInv'
  BY NextType, NextRing DEF FifoInv
<1> SUFFICES HoldInv' /\ [Fifo!Next]_<<Contents, popped>>
  BY <1>1 DEF FifoInv
<1> DEFINE Quiet == HoldInv' /\ Contents' = Contents /\ popped' = popped
<1>2. ASSUME NEW x \in Item, Push(x) PROVE Quiet
  BY <1>1, <1>2, QuietStep DEF Push, EnterPush, cvars
<1>3. CASE RetryPush
  <2> Quiet
    BY <1>1, <1>3, QuietStep DEF RetryPush, EnterPush, cvars
  <2> QED OBVIOUS
<1>4. CASE ReloadTail
  <2> Quiet
    BY <1>1, <1>4, QuietStep DEF ReloadTail, cvars
  <2> QED OBVIOUS
<1>5. CASE WriteSlot
  BY <1>1, <1>5, WriteStep
<1>6. CASE PublishHead
  BY <1>1, <1>6, PublishStep DEF Fifo!Next, FifoInv, TypeOK
<1>7. CASE Pop
  <2> Quiet
    BY <1>1, <1>7, QuietStep DEF Pop, pvars
  <2> QED OBVIOUS
<1>8. CASE ReloadHead
  <2> Quiet
    BY <1>1, <1>8, QuietStep DEF ReloadHead, pvars
  <2> QED OBVIOUS
<1>9. CASE ReadSlot
  BY <1>1, <1>9, ReadStep
<1>10. CASE ReleaseTail
  BY <1>1, <1>10, ReleaseStep DEF Fifo!Next
<1>11. CASE HeadBecomesVisible
  <2> Quiet
    BY <1>1, <1>11, QuietStep DEF HeadBecomesVisible, pvars, cvars
  <2> QED OBVIOUS
<1>12. CASE TailBecomesVisible
  <2> Quiet
    BY <1>1, <1>12, QuietStep DEF TailBecomesVisible, pvars, cvars
  <2> QED OBVIOUS
<1>13. CASE UNCHANGED vars
  <2> Quiet
    BY <1>1, <1>13, QuietStep DEF vars, pvars, cvars
  <2> QED OBVIOUS
<1> QED
  BY <1>2, <1>3, <1>4, <1>5, <1>6, <1>7, <1>8, <1>9, <1>10, <1>11, <1>12, <1>13
     DEF Next, InPush, InPop

(* For every capacity and every set of items, the ring with its cached and    *)
(* stale indices is a FIFO queue of Capacity - 1 items: nothing is lost,      *)
(* duplicated, reordered or overwritten.                                      *)
THEOREM RingIsFifo == Spec => ImplementsFifo
<1>1. Init => FifoInv /\ Fifo!Init
  BY InitType, InitRing, InitFifo DEF FifoInv
<1>2. Spec => Fifo!Spec
  BY <1>1, NextFifo, PTL DEF Spec, Fifo!Spec
<1> QED
  BY <1>2 DEF ImplementsFifo
=============================================================================
