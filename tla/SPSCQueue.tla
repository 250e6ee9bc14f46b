----------------------------- MODULE SPSCQueue -----------------------------
(* The lock-free single-producer single-consumer ring buffer                  *)
(* (include/nexus/concurrency/spsc_queue.hpp), step by step: one action per   *)
(* access to memory the other thread may touch.                               *)
(*                                                                            *)
(* head_ and tail_ are atomics with acquire/release ordering, so a thread may *)
(* still read an old value of the index the other thread writes: head and     *)
(* tail are what their writers last stored, head_vis and tail_vis what the    *)
(* other thread gets when it loads.  A store becomes visible together with    *)
(* everything its thread wrote before it.                                     *)
EXTENDS Integers, Sequences

CONSTANTS
    Capacity,  \* a power of two; the queue holds Capacity - 1 items
    Item,      \* what is queued
    Moved      \* what is left in a slot whose item was moved out

ASSUME CapacityAssumption == Capacity \in Nat \ {0}
ASSUME MovedAssumption    == Moved \notin Item
ASSUME ItemAssumption     == Item # {}

Index == 0 .. (Capacity - 1)

(* (i + 1) & mask_, for a capacity that is a power of two.                    *)
IncPastEnd(i) == IF i = Capacity THEN 0 ELSE i + 1   \* mistaken: masks with capacity_
Inc(i) == IF i + 1 = Capacity THEN 0 ELSE i + 1

VARIABLES
    buffer,
    head, head_vis, cached_tail, ppc, pitem,          \* producer
    tail, tail_vis, cached_head, cpc, citem, popped   \* consumer

pvars == <<cached_tail, ppc, pitem>>
cvars == <<cached_head, cpc, citem, popped>>
vars  == <<buffer, head, head_vis, tail, tail_vis, pvars, cvars>>

Init ==
    /\ buffer = [i \in Index |-> Moved]
    /\ head = 0 /\ head_vis = 0 /\ cached_tail = 0
    /\ tail = 0 /\ tail_vis = 0 /\ cached_head = 0
    /\ ppc = "idle" /\ cpc = "idle"
    /\ pitem \in Item /\ citem = Moved /\ popped \in Item

TypeOK ==
    /\ buffer \in [Index -> Item \cup {Moved}]
    /\ {head, head_vis, cached_tail, tail, tail_vis, cached_head} \subseteq Index
    /\ ppc \in {"idle", "reload", "write", "publish", "retry"}
    /\ cpc \in {"idle", "reload", "read", "release"}
    /\ pitem \in Item /\ {citem, popped} \subseteq Item \cup {Moved}

(* Entry of push: full according to the cached tail, or room for the item.    *)
EnterPush(x) ==
    /\ pitem' = x
    /\ ppc' = IF Inc(head) = cached_tail THEN "reload" ELSE "write"
    /\ UNCHANGED <<buffer, head, head_vis, tail, tail_vis, cached_tail, cvars>>

Push(x) == ppc = "idle" /\ EnterPush(x)

(* push returned false: its callers yield and try the same item again.        *)
RetryPush == ppc = "retry" /\ EnterPush(pitem)

(* cached_tail_ = tail_.load(acquire): still full means return false.         *)
ReloadTailNoRecheck ==   \* mistaken: a reload is taken for room
    /\ ppc = "reload"
    /\ cached_tail' = tail_vis
    /\ ppc' = "write"
    /\ UNCHANGED <<buffer, head, head_vis, tail, tail_vis, pitem, cvars>>
ReloadTailForgets ==   \* mistaken: the loaded tail is not kept
    /\ ppc = "reload"
    /\ ppc' = "retry"
    /\ UNCHANGED <<buffer, head, head_vis, tail, tail_vis, pitem, cached_tail, cvars>>
ReloadTail ==
    /\ ppc = "reload"
    /\ cached_tail' = tail_vis
    /\ ppc' = IF Inc(head) = tail_vis THEN "retry" ELSE "write"
    /\ UNCHANGED <<buffer, head, head_vis, tail, tail_vis, pitem, cvars>>

WriteSlot ==
    /\ ppc = "write"
    /\ buffer' = [buffer EXCEPT ![head] = pitem]
    /\ ppc' = "publish"
    /\ UNCHANGED <<head, head_vis, tail, tail_vis, cached_tail, pitem, cvars>>

(* head_.store(next_head, release); push returns true.                        *)
PublishHead ==
    /\ ppc = "publish"
    /\ head' = Inc(head)
    /\ ppc' = "idle"
    /\ UNCHANGED <<buffer, head_vis, tail, tail_vis, cached_tail, pitem, cvars>>

(* Entry of pop: empty according to the cached head, or an item is there.     *)
Pop ==
    /\ cpc = "idle"
    /\ cpc' = IF tail = cached_head THEN "reload" ELSE "read"
    /\ UNCHANGED <<buffer, head, head_vis, tail, tail_vis, cached_head, citem, popped, pvars>>

(* cached_head_ = head_.load(acquire): still empty means return false.        *)
ReloadHeadNoRecheck ==   \* mistaken: a reload is taken for an item
    /\ cpc = "reload"
    /\ cached_head' = head_vis
    /\ cpc' = "read"
    /\ UNCHANGED <<buffer, head, head_vis, tail, tail_vis, citem, popped, pvars>>
ReloadHeadForgets ==   \* mistaken: the loaded head is not kept
    /\ cpc = "reload"
    /\ cpc' = "idle"
    /\ UNCHANGED <<buffer, head, head_vis, tail, tail_vis, citem, cached_head, popped, pvars>>
ReloadHead ==
    /\ cpc = "reload"
    /\ cached_head' = head_vis
    /\ cpc' = IF tail = head_vis THEN "idle" ELSE "read"
    /\ UNCHANGED <<buffer, head, head_vis, tail, tail_vis, citem, popped, pvars>>

(* item = std::move(buffer_[tail]).                                           *)
ReadSlot ==
    /\ cpc = "read"
    /\ citem' = buffer[tail]
    /\ buffer' = [buffer EXCEPT ![tail] = Moved]
    /\ cpc' = "release"
    /\ UNCHANGED <<head, head_vis, tail, tail_vis, cached_head, popped, pvars>>

(* tail_.store(tail + 1, release); pop returns true with the item.            *)
ReleaseTail ==
    /\ cpc = "release"
    /\ tail' = Inc(tail)
    /\ popped' = citem /\ citem' = Moved
    /\ cpc' = "idle"
    /\ UNCHANGED <<buffer, head, head_vis, tail_vis, cached_head, pvars>>

(* A store to an index reaches the other thread, in the order of the stores.  *)
HeadBecomesVisible ==
    /\ head_vis # head
    /\ head_vis' = Inc(head_vis)
    /\ UNCHANGED <<buffer, head, tail, tail_vis, pvars, cvars>>

TailBecomesVisible ==
    /\ tail_vis # tail
    /\ tail_vis' = Inc(tail_vis)
    /\ UNCHANGED <<buffer, head, head_vis, tail, pvars, cvars>>

InPush == RetryPush \/ ReloadTail \/ WriteSlot \/ PublishHead
InPop  == Pop \/ ReloadHead \/ ReadSlot \/ ReleaseTail

Next ==
    \/ \E x \in Item : Push(x)
    \/ InPush \/ InPop
    \/ HeadBecomesVisible \/ TailBecomesVisible

Spec == Init /\ [][Next]_vars

(* The producer finishes and retries its push, the consumer polls, and stores *)
(* become visible in finite time.  Nothing makes the producer push again.     *)
FairSpec ==
    /\ Spec
    /\ WF_vars(InPush) /\ WF_vars(InPop)
    /\ WF_vars(HeadBecomesVisible) /\ WF_vars(TailBecomesVisible)

(* Producer and consumer never access the same slot at the same time, and     *)
(* never without an acquire of the other thread's release in between: the     *)
(* slot to be written is not one the consumer still has to read or release,   *)
(* the slot to be read is one whose publication the consumer has seen.        *)
Between(a, b) == IF a <= b THEN b - a ELSE b - a + Capacity
NoDataRace ==
    /\ ppc \in {"write", "publish"} /\ cpc \in {"read", "release"} => head # tail
    /\ ppc \in {"write", "publish"} => Inc(head) # cached_tail
    /\ cpc = "read" => Between(tail, head_vis) > 0

(* The slot k places after slot i.                                            *)
Ahead(i, k) == IF i + k < Capacity THEN i + k ELSE i + k - Capacity

(* The contents of the queue: from tail to head, the item in the consumer's   *)
(* hands first while pop has not returned.                                    *)
Contents ==
    [k \in 1 .. Between(tail, head) |->
        IF k = 1 /\ cpc = "release" THEN citem ELSE buffer[Ahead(tail, k - 1)]]

(* The ring implements a FIFO of Capacity - 1 items: nothing is lost,         *)
(* duplicated, overwritten or reordered, whatever stale indices the threads   *)
(* work with.                                                                 *)
Fifo == INSTANCE BoundedFifo WITH q <- Contents, Bound <- Capacity - 1
ImplementsFifo == Fifo!Spec

(* A push that finds the queue full is not starved: retried, it gets its item *)
(* in, because the consumer drains the queue and its stale cached tail is     *)
(* refreshed.                                                                 *)
PushSucceeds == ppc # "idle" ~> ppc = "idle"

(* A polling consumer does not miss items: while there are items in the queue *)
(* it eventually takes one, although it trusts a cached head.                 *)
ItemsArePopped == head # tail ~> cpc = "release"
=============================================================================
