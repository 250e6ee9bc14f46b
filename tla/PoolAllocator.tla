--------------------------- MODULE PoolAllocator ---------------------------
(* The allocator under the two maps of an order book (core/pool_allocator.hpp *)
(* and the constructor of OrderBook): an arena of slots with a freelist inside *)
(* the free slots, and the heap when the arena has none left or a map asks for *)
(* more than one node.  A library whose maps allocate a sentinel does so before *)
(* the arena is initialised; a map frees what it holds, once.                 *)
EXTENDS Integers, FiniteSets

CONSTANTS
    ArenaBytes, ObjSize, ObjAlign, PointerSize,  \* arguments of ArenaState::init
    HeapBlock,  \* addresses the heap may return; bound: how many are live
    NoSlot, InUse

ASSUME ArenaAssumption ==
    /\ ArenaBytes \in Nat /\ PointerSize \in Nat \ {0}
    /\ ObjSize \in Nat \ {0} /\ ObjAlign \in Nat \ {0}

(* Rounded up to the alignment, and at least a freelist pointer.              *)
slot_size ==
    LET rounded == ((ObjSize + ObjAlign - 1) \div ObjAlign) * ObjAlign
    IN  IF rounded < PointerSize THEN PointerSize ELSE rounded

ArenaSlot == 1 .. (ArenaBytes \div slot_size)

ASSUME AddressAssumption ==
    /\ ArenaSlot # {}
    /\ HeapBlock \cap ArenaSlot = {}
    /\ NoSlot \notin ArenaSlot \cup HeapBlock /\ InUse \notin ArenaSlot \cup {NoSlot}

VARIABLES
    capacity,    \* 0 until init()
    freelist,    \* first free slot
    slot_word,   \* first word of each slot: FreeNode::next, or InUse
    heap_live,   \* blocks of the heap in use
    held         \* history: the pointers the map holds

arenaVars == <<capacity, freelist, slot_word, heap_live, held>>

(* The state objects are built first, the maps next, init() is called last.   *)
ArenaBuilt ==
    /\ capacity = 0 /\ freelist = NoSlot
    /\ slot_word = [i \in ArenaSlot |-> NoSlot]
    /\ heap_live = {} /\ held = {}

InitArena ==
    /\ capacity = 0
    /\ capacity' = Cardinality(ArenaSlot)
    /\ freelist' = 1
    /\ slot_word' = [i \in ArenaSlot |-> IF i + 1 \in ArenaSlot THEN i + 1 ELSE NoSlot]
    /\ UNCHANGED <<heap_live, held>>

Owns(p) == p \in 1 .. capacity

FromArena ==
    /\ freelist # NoSlot
    /\ freelist' = slot_word[freelist]
    /\ slot_word' = [slot_word EXCEPT ![freelist] = InUse]
    /\ held' = held \cup {freelist}
    /\ UNCHANGED <<capacity, heap_live>>

FromHeap ==
    \E b \in HeapBlock \ heap_live :
        /\ heap_live' = heap_live \cup {b} /\ held' = held \cup {b}
        /\ UNCHANGED <<capacity, freelist, slot_word>>

(* allocate(n): one node from the arena if it has one, the heap otherwise.    *)
AllocateNodes(n) == IF n = 1 /\ freelist # NoSlot THEN FromArena ELSE FromHeap

(* deallocate(ptr): to the arena if it owns the address, to the heap if not.  *)
ToArena(p) ==
    /\ slot_word' = [i \in ArenaSlot |-> IF i = p THEN freelist ELSE slot_word[i]]
    /\ freelist' = p
    /\ held' = held \ {p}
    /\ UNCHANGED <<capacity, heap_live>>

ToHeap(p) ==
    /\ heap_live' = heap_live \ {p}
    /\ held' = held \ {p}
    /\ UNCHANGED <<capacity, freelist, slot_word>>

DeallocateNodeToHeap(p) ==   \* mistaken: to the heap once that was used
    /\ p \in held
    /\ IF Owns(p) /\ heap_live = {} THEN ToArena(p) ELSE ToHeap(p)
DeallocateNode(p) ==
    /\ p \in held
    /\ IF Owns(p) THEN ToArena(p) ELSE ToHeap(p)

ArenaNext ==
    \/ InitArena
    \/ capacity = 0 /\ held = {} /\ FromHeap   \* allocate(1): the freelist is empty
    \/ capacity > 0 /\ \E n \in {1, 2} : AllocateNodes(n)
    \/ capacity > 0 /\ \E p \in ArenaSlot \cup HeapBlock : DeallocateNode(p)

ArenaTypeOK ==
    /\ capacity \in {0, Cardinality(ArenaSlot)}
    /\ freelist \in ArenaSlot \cup {NoSlot}
    /\ slot_word \in [ArenaSlot -> ArenaSlot \cup {NoSlot, InUse}]
    /\ heap_live \subseteq HeapBlock

(* Arena and heap keep their own: what the map holds is a slot in use or a    *)
(* live block of the heap, every one of them is held, and the rest of the     *)
(* slots is the freelist, each on it once, also when the map allocated before *)
(* the arena was initialised.                                                 *)
FreeChain ==
    LET at[k \in 1 .. Cardinality(ArenaSlot) + 1] ==
            IF k = 1 THEN freelist
            ELSE IF at[k - 1] \in ArenaSlot THEN slot_word[at[k - 1]] ELSE NoSlot
    IN  at
ArenaSound ==
    /\ held = {i \in ArenaSlot : slot_word[i] = InUse} \cup heap_live
    /\ capacity > 0 =>
         LET on == {k \in DOMAIN FreeChain : FreeChain[k] # NoSlot}
         IN  /\ {FreeChain[k] : k \in on} = ArenaSlot \ held
             /\ Cardinality(on) = Cardinality(ArenaSlot \ held)
=============================================================================
