---------------------------- MODULE MemoryPool ----------------------------
(* The slab allocator of order nodes (include/nexus/core/memory_pool.hpp):    *)
(* slots 1..Capacity in address order, and a freelist threaded through the    *)
(* free slots themselves, so a slot's first word is either the next free slot *)
(* or part of a live object.  The client frees what it was given, once.       *)
EXTENDS Integers, FiniteSets

CONSTANTS
    Capacity,  \* slots in the slab
    Null,      \* the null pointer
    Object     \* a word that belongs to a live object

Slot == 1 .. Capacity

ASSUME CapacityAssumption == Capacity \in Nat
ASSUME WordAssumption     == Null \notin Slot /\ Object \notin Slot \cup {Null}

VARIABLES
    freelist_head,  \* first free slot
    word,           \* first word of each slot: FreeNode::next, or Object
    allocated       \* the allocation counter kept for diagnostics

poolVars == <<freelist_head, word, allocated>>

(* The constructor pushes the slots from the last to the first.               *)
PoolInit ==
    /\ freelist_head = IF Capacity = 0 THEN Null ELSE 1
    /\ word = [i \in Slot |-> IF i = Capacity THEN Null ELSE i + 1]
    /\ allocated = 0

PoolReset ==
    /\ freelist_head' = IF Capacity = 0 THEN Null ELSE 1
    /\ word' = [i \in Slot |-> IF i = Capacity THEN Null ELSE i + 1]
    /\ allocated' = 0

Live     == {i \in Slot : word[i] = Object}
Exhausted == freelist_head = Null

(* allocate(): pop the first free slot and construct the object in it.        *)
Allocate ==
    /\ ~Exhausted
    /\ freelist_head' = word[freelist_head]
    /\ word' = [word EXCEPT ![freelist_head] = Object]
    /\ allocated' = allocated + 1

(* deallocate() of an object the client holds: push the slot.                 *)
DeallocateLinksLate(i) ==   \* mistaken: the head moves before the slot is linked
    /\ i \in Live
    /\ word' = [word EXCEPT ![i] = i]
    /\ freelist_head' = i
    /\ allocated' = allocated - 1
Deallocate(i) ==
    /\ i \in Live
    /\ word' = [word EXCEPT ![i] = freelist_head]
    /\ freelist_head' = i
    /\ allocated' = allocated - 1

PoolNext == Allocate \/ \E i \in Slot : Deallocate(i)

PoolTypeOK ==
    /\ freelist_head \in Slot \cup {Null}
    /\ word \in [Slot -> Slot \cup {Null, Object}]
    /\ allocated \in 0 .. Capacity

(* The freelist is the free slots: following the words from the head meets    *)
(* every slot that holds no object exactly once and ends, and available() is  *)
(* how many that is.  A slot met twice would be handed out twice.             *)
FreeSlots ==
    LET at[k \in 1 .. Capacity + 1] ==
            IF k = 1 THEN freelist_head
            ELSE IF at[k - 1] \in Slot THEN word[at[k - 1]] ELSE Null
    IN  at
FreelistSound ==
    LET at   == FreeSlots
        free == {k \in 1 .. Capacity + 1 : at[k] # Null}
    IN  /\ {at[k] : k \in free} = Slot \ Live
        /\ Cardinality(free) = Cardinality(Slot \ Live)
        /\ Cardinality(free) = Capacity - allocated
=============================================================================
