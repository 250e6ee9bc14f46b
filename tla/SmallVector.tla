---------------------------- MODULE SmallVector ----------------------------
(* The vector of trades (core/small_vector.hpp): up to N elements inside the  *)
(* object, on the heap beyond that, doubling.  A storage is the sequence of   *)
(* the elements constructed in it.                                            *)
EXTENDS Integers, Sequences, FiniteSets

CONSTANTS
    N,           \* elements stored inline, 16 for the trades of an order
    Element,
    Vector,      \* the vector objects of the program
    MaxElements, \* bound: elements of one vector
    Buffer,      \* heap addresses; bound: how many are live
    NoBuffer     \* heap_data_ is null

ASSUME VectorAssumption == N \in Nat \ {0} /\ MaxElements \in Nat /\ NoBuffer \notin Buffer

VARIABLES
    alive,        \* the vectors that are constructed
    size, vcapacity, heap_data,   \* size_, capacity_, heap_data_ of each
    inline,       \* the elements in each inline_storage_
    buffers,      \* the live heap buffers and their elements
    expected      \* history: what was pushed and not cleared

vectorVars == <<alive, size, vcapacity, heap_data, inline, buffers, expected>>

VectorInit ==
    /\ alive = {}
    /\ size = [v \in Vector |-> 0] /\ vcapacity = [v \in Vector |-> N]
    /\ heap_data = [v \in Vector |-> NoBuffer]
    /\ inline = [v \in Vector |-> <<>>]
    /\ buffers = [b \in {} |-> <<>>]
    /\ expected = [v \in Vector |-> <<>>]

is_heap(v) == heap_data[v] # NoBuffer
Data(v)    == IF is_heap(v) THEN buffers[heap_data[v]] ELSE inline[v]

Without(b) == [c \in DOMAIN buffers \ {b} |-> buffers[c]]
With(bufs, b, s) == [c \in DOMAIN bufs \cup {b} |-> IF c = b THEN s ELSE bufs[c]]

Construct(v) ==
    /\ v \notin alive /\ alive' = alive \cup {v}
    /\ size' = [size EXCEPT ![v] = 0] /\ vcapacity' = [vcapacity EXCEPT ![v] = N]
    /\ heap_data' = [heap_data EXCEPT ![v] = NoBuffer]
    /\ inline' = [inline EXCEPT ![v] = <<>>] /\ expected' = [expected EXCEPT ![v] = <<>>]
    /\ UNCHANGED buffers

(* emplace_back() with room.                                                  *)
Emplace(v, x) ==
    /\ v \in alive /\ size[v] < vcapacity[v] /\ size[v] < MaxElements
    /\ IF is_heap(v)
       THEN buffers' = [buffers EXCEPT ![heap_data[v]] = Append(@, x)] /\ UNCHANGED inline
       ELSE inline' = [inline EXCEPT ![v] = Append(@, x)] /\ UNCHANGED buffers
    /\ size' = [size EXCEPT ![v] = @ + 1]
    /\ expected' = [expected EXCEPT ![v] = Append(@, x)]
    /\ UNCHANGED <<alive, vcapacity, heap_data>>

(* emplace_back() without: grow() moves the elements to a buffer of twice the *)
(* capacity and frees the old one.                                            *)
EmplaceAndGrowLeaks(v, x) ==   \* mistaken: the old buffer is not freed
    /\ v \in alive /\ size[v] = vcapacity[v] /\ size[v] < MaxElements
    /\ \E b \in Buffer \ DOMAIN buffers :
         /\ buffers' = With(buffers, b, Append(Data(v), x))
         /\ heap_data' = [heap_data EXCEPT ![v] = b]
    /\ inline' = [inline EXCEPT ![v] = <<>>]
    /\ vcapacity' = [vcapacity EXCEPT ![v] = 2 * @]
    /\ size' = [size EXCEPT ![v] = @ + 1]
    /\ expected' = [expected EXCEPT ![v] = Append(@, x)]
    /\ UNCHANGED alive
EmplaceAndGrow(v, x) ==
    /\ v \in alive /\ size[v] = vcapacity[v] /\ size[v] < MaxElements
    /\ \E b \in Buffer \ DOMAIN buffers :
         /\ buffers' = With(Without(heap_data[v]), b, Append(Data(v), x))
         /\ heap_data' = [heap_data EXCEPT ![v] = b]
    /\ inline' = [inline EXCEPT ![v] = <<>>]
    /\ vcapacity' = [vcapacity EXCEPT ![v] = 2 * @]
    /\ size' = [size EXCEPT ![v] = @ + 1]
    /\ expected' = [expected EXCEPT ![v] = Append(@, x)]
    /\ UNCHANGED alive

(* The move constructor: v takes over the buffer, or the inline elements, of  *)
(* w, which is empty afterwards and may be used again.                        *)
MoveKeepsCapacity(v, w) ==   \* mistaken: the source keeps the capacity of the buffer it lost
    /\ v \notin alive /\ w \in alive
    /\ alive' = alive \cup {v}
    /\ size' = [size EXCEPT ![v] = size[w], ![w] = 0]
    /\ vcapacity' = [vcapacity EXCEPT ![v] = vcapacity[w]]
    /\ heap_data' = [heap_data EXCEPT ![v] = heap_data[w], ![w] = NoBuffer]
    /\ inline' = [inline EXCEPT ![v] = inline[w], ![w] = <<>>]
    /\ expected' = [expected EXCEPT ![v] = expected[w], ![w] = <<>>]
    /\ UNCHANGED buffers
MoveForgetsElements(v, w) ==   \* mistaken: only a heap buffer is taken over
    /\ v \notin alive /\ w \in alive
    /\ alive' = alive \cup {v}
    /\ size' = [size EXCEPT ![v] = size[w], ![w] = 0]
    /\ vcapacity' = [vcapacity EXCEPT ![v] = vcapacity[w], ![w] = N]
    /\ heap_data' = [heap_data EXCEPT ![v] = heap_data[w], ![w] = NoBuffer]
    /\ inline' = [inline EXCEPT ![v] = <<>>, ![w] = <<>>]
    /\ expected' = [expected EXCEPT ![v] = expected[w], ![w] = <<>>]
    /\ UNCHANGED buffers
Move(v, w) ==
    /\ v \notin alive /\ w \in alive
    /\ alive' = alive \cup {v}
    /\ size' = [size EXCEPT ![v] = size[w], ![w] = 0]
    /\ vcapacity' = [vcapacity EXCEPT ![v] = vcapacity[w], ![w] = N]
    /\ heap_data' = [heap_data EXCEPT ![v] = heap_data[w], ![w] = NoBuffer]
    /\ inline' = [inline EXCEPT ![v] = inline[w], ![w] = <<>>]
    /\ expected' = [expected EXCEPT ![v] = expected[w], ![w] = <<>>]
    /\ UNCHANGED buffers

(* clear() destroys the elements and keeps the storage.                       *)
ClearVector(v) ==
    /\ v \in alive
    /\ IF is_heap(v) THEN buffers' = [buffers EXCEPT ![heap_data[v]] = <<>>] /\ UNCHANGED inline
                     ELSE inline' = [inline EXCEPT ![v] = <<>>] /\ UNCHANGED buffers
    /\ size' = [size EXCEPT ![v] = 0] /\ expected' = [expected EXCEPT ![v] = <<>>]
    /\ UNCHANGED <<alive, vcapacity, heap_data>>

(* The destructor frees the buffer.                                           *)
Destroy(v) ==
    /\ v \in alive /\ alive' = alive \ {v}
    /\ buffers' = Without(heap_data[v])
    /\ inline' = [inline EXCEPT ![v] = <<>>]
    /\ UNCHANGED <<size, vcapacity, heap_data, expected>>

VectorNext ==
    \/ \E v \in Vector : Construct(v) \/ ClearVector(v) \/ Destroy(v)
    \/ \E v \in Vector, x \in Element : Emplace(v, x) \/ EmplaceAndGrow(v, x)
    \/ \E v, w \in Vector : Move(v, w)

(* An element is only constructed where there is storage: within the inline   *)
(* bytes or the capacity the buffer was allocated with.                       *)
VectorTypeOK ==
    /\ alive \subseteq Vector
    /\ \A v \in alive :
         /\ size[v] \in 0 .. MaxElements /\ size[v] <= vcapacity[v]
         /\ vcapacity[v] = N <=> ~is_heap(v)
         /\ Len(Data(v)) = size[v]
    /\ \A b \in DOMAIN buffers : b \in Buffer /\ buffers[b] \in Seq(Element)

(* A vector holds exactly what was pushed since it was constructed, moved     *)
(* from or cleared, in order, through any mixture of growth, moves and reuse. *)
HoldsWhatWasPushed == \A v \in alive : Data(v) = expected[v]

(* Every live buffer belongs to exactly one live vector: none is leaked, and  *)
(* none is freed by two destructors.                                          *)
BuffersOwnedOnce ==
    /\ DOMAIN buffers = {heap_data[v] : v \in {w \in alive : is_heap(w)}}
    /\ \A v, w \in alive : is_heap(v) /\ heap_data[v] = heap_data[w] => v = w
=============================================================================
