-------------------------- MODULE ComponentsProofs --------------------------
(* The components that share no state, for any sizes: what MCComponents       *)
(* checks on small instances.  A step of MCNext is a step of one component    *)
(* and leaves the others alone, so each is proved about by itself.            *)
EXTENDS MCComponents, FiniteSetTheorems, WellFoundedInduction, TLAPS

LEMMA Alone ==
    [MCNext]_mcVars =>
        /\ [PoolNext]_poolVars /\ [ArenaNext]_arenaVars /\ [VectorNext]_vectorVars
        /\ [PortfolioNext]_portfolioVars /\ [StatsNext]_statsVars
        /\ [SignalNext]_signalVars /\ [ClockNext]_clockVars
BY DEF MCNext, mcVars

(* ------------------------------ SmallVector ------------------------------ *)

VectorTypes ==
    /\ alive \subseteq Vector
    /\ size \in [Vector -> Nat] /\ vcapacity \in [Vector -> Nat]
    /\ heap_data \in [Vector -> Buffer \cup {NoBuffer}]
    /\ inline \in [Vector -> Seq(Element)] /\ expected \in [Vector -> Seq(Element)]
    /\ DOMAIN buffers \subseteq Buffer
    /\ \A b \in DOMAIN buffers : buffers[b] \in Seq(Element)

(* The elements are where the vector looks for them, and there is room.       *)
Stored(v) ==
    /\ heap_data[v] = NoBuffer => inline[v] = expected[v] /\ vcapacity[v] = N
    /\ heap_data[v] # NoBuffer => /\ heap_data[v] \in DOMAIN buffers
                                  /\ buffers[heap_data[v]] = expected[v]
                                  /\ vcapacity[v] > N
    /\ Len(expected[v]) = size[v] /\ size[v] <= vcapacity[v] /\ size[v] <= MaxElements
Owners ==
    /\ \A b \in DOMAIN buffers : \E v \in alive : heap_data[v] = b
    /\ \A v, w \in alive : heap_data[v] # NoBuffer /\ heap_data[v] = heap_data[w] => v = w
VectorInv == VectorTypes /\ Owners /\ \A v \in alive : Stored(v)

LEMMA VectorStart == VectorInit => VectorInv
BY VectorAssumption DEF VectorInit, VectorInv, VectorTypes, Owners, Stored

LEMMA VectorConstruct ==
    ASSUME VectorInv, NEW v \in Vector, Construct(v)
    PROVE  VectorInv'
<1>1. VectorTypes'
  BY VectorAssumption DEF VectorInv, VectorTypes, Construct
<1>2. Owners'
  BY DEF VectorInv, VectorTypes, Owners, Construct
<1>3. (\A z \in alive : Stored(z))'
  BY VectorAssumption DEF VectorInv, VectorTypes, Stored, Construct
<1> QED BY <1>1, <1>2, <1>3 DEF VectorInv


LEMMA VectorEmplace ==
    ASSUME VectorInv, NEW v \in Vector, NEW x \in Element, Emplace(v, x)
    PROVE  VectorInv'
<1>1. /\ expected[v] \in Seq(Element) /\ Len(expected[v]) \in Nat
      /\ Append(expected[v], x) \in Seq(Element)
      /\ Len(Append(expected[v], x)) = Len(expected[v]) + 1
  BY DEF VectorInv, VectorTypes
<1>2. /\ v \in alive /\ size[v] < vcapacity[v] /\ size[v] < MaxElements
      /\ size' = [size EXCEPT ![v] = size[v] + 1]
      /\ expected' = [expected EXCEPT ![v] = Append(expected[v], x)]
      /\ UNCHANGED <<alive, vcapacity, heap_data>>
  BY DEF Emplace
<1>3. VectorTypes /\ Owners /\ \A z \in alive : Stored(z)
  BY DEF VectorInv
<1>4. Stored(v)
  BY <1>2, <1>3
<1>5. CASE heap_data[v] # NoBuffer
  <2>1. /\ buffers' = [buffers EXCEPT ![heap_data[v]] = Append(expected[v], x)]
        /\ inline' = inline
    BY <1>4, <1>5 DEF Emplace, is_heap, Stored
  <2>2. VectorTypes'
    BY <1>1, <1>2, <1>3, <2>1 DEF VectorTypes
  <2>3. Owners'
    BY <1>2, <1>3, <2>1 DEF Owners
  <2>4. \A z \in alive : z # v => heap_data[z] # heap_data[v]
    BY <1>2, <1>3, <1>5 DEF Owners
  <2>5. ASSUME NEW z \in alive PROVE Stored(z)'
    <3>1. CASE z = v
      BY <1>1, <1>2, <1>3, <1>4, <1>5, <2>1, <3>1, VectorAssumption DEF Stored, VectorTypes
    <3>2. CASE z # v
      BY <1>2, <1>3, <2>1, <2>4, <3>2 DEF Stored, VectorTypes
    <3> QED BY <3>1, <3>2
  <2> QED BY <1>2, <2>2, <2>3, <2>5 DEF VectorInv
<1>6. CASE heap_data[v] = NoBuffer
  <2>1. /\ inline' = [inline EXCEPT ![v] = Append(expected[v], x)]
        /\ buffers' = buffers
    BY <1>4, <1>6 DEF Emplace, is_heap, Stored
  <2>2. VectorTypes'
    BY <1>1, <1>2, <1>3, <2>1 DEF VectorTypes
  <2>3. Owners'
    BY <1>2, <1>3, <2>1 DEF Owners
  <2>5. ASSUME NEW z \in alive PROVE Stored(z)'
    <3>1. CASE z = v
      BY <1>1, <1>2, <1>3, <1>4, <1>6, <2>1, <3>1, VectorAssumption DEF Stored, VectorTypes
    <3>2. CASE z # v
      BY <1>2, <1>3, <2>1, <3>2 DEF Stored, VectorTypes
    <3> QED BY <3>1, <3>2
  <2> QED BY <1>2, <2>2, <2>3, <2>5 DEF VectorInv
<1> QED BY <1>5, <1>6

LEMMA VectorGrow ==
    ASSUME VectorInv, NEW v \in Vector, NEW x \in Element, EmplaceAndGrow(v, x)
    PROVE  VectorInv'
<1>1. /\ expected[v] \in Seq(Element) /\ Len(expected[v]) \in Nat
      /\ Append(expected[v], x) \in Seq(Element)
      /\ Len(Append(expected[v], x)) = Len(expected[v]) + 1
  BY DEF VectorInv, VectorTypes
<1>2. VectorTypes /\ Owners /\ \A z \in alive : Stored(z)
  BY DEF VectorInv
<1>3. v \in alive /\ Stored(v)
  BY <1>2 DEF EmplaceAndGrow
<1>4. Data(v) = expected[v]
  BY <1>3 DEF Data, is_heap, Stored
<1>5. PICK b \in Buffer \ DOMAIN buffers :
        /\ buffers' = With(Without(heap_data[v]), b, Append(expected[v], x))
        /\ heap_data' = [heap_data EXCEPT ![v] = b]
  BY <1>4 DEF EmplaceAndGrow
<1>6. /\ size[v] = vcapacity[v] /\ size[v] < MaxElements
      /\ inline' = [inline EXCEPT ![v] = <<>>]
      /\ vcapacity' = [vcapacity EXCEPT ![v] = 2 * vcapacity[v]]
      /\ size' = [size EXCEPT ![v] = size[v] + 1]
      /\ expected' = [expected EXCEPT ![v] = Append(expected[v], x)]
      /\ alive' = alive
  BY DEF EmplaceAndGrow
<1>7. /\ DOMAIN buffers' = (DOMAIN buffers \ {heap_data[v]}) \cup {b}
      /\ \A c \in DOMAIN buffers' : buffers'[c] = IF c = b THEN Append(expected[v], x) ELSE buffers[c]
  BY <1>5 DEF With, Without
<1>8. vcapacity[v] \in Nat /\ N \in Nat \ {0} /\ N <= vcapacity[v]
  BY <1>2, <1>3, VectorAssumption DEF VectorTypes, Stored
<1>9. VectorTypes'
  <2>1. \A c \in DOMAIN buffers' : c \in Buffer /\ buffers'[c] \in Seq(Element)
    BY <1>1, <1>2, <1>5, <1>7 DEF VectorTypes
  <2>2. 2 * vcapacity[v] \in Nat
    BY <1>8
  <2> QED BY <1>1, <1>2, <1>5, <1>6, <2>1, <2>2 DEF VectorTypes
<1>10. /\ heap_data'[v] = b /\ b # NoBuffer
       /\ \A z \in alive : z # v => heap_data'[z] = heap_data[z] /\ heap_data[z] # b
  BY <1>2, <1>5, VectorAssumption DEF VectorTypes, Stored
<1>11. \A z \in alive : z # v /\ heap_data[z] # NoBuffer => heap_data[z] # heap_data[v]
  BY <1>2, <1>3 DEF Owners
<1>12. Owners'
  <2>1. \A c \in DOMAIN buffers' : \E z \in alive' : heap_data'[z] = c
    BY <1>2, <1>3, <1>6, <1>7, <1>10 DEF Owners
  <2>2. \A y, z \in alive' : heap_data'[y] # NoBuffer /\ heap_data'[y] = heap_data'[z] => y = z
    BY <1>2, <1>6, <1>10 DEF Owners
  <2> QED BY <2>1, <2>2 DEF Owners
<1>13. ASSUME NEW z \in alive PROVE Stored(z)'
  <2>1. CASE z = v
    <3>1. 2 * vcapacity[v] > N /\ size[v] + 1 <= 2 * vcapacity[v]
      BY <1>6, <1>8
    <3>2. size[v] + 1 <= MaxElements
      BY <1>6, <1>8, VectorAssumption
    <3>3. size'[v] = size[v] + 1 /\ vcapacity'[v] = 2 * vcapacity[v]
          /\ expected'[v] = Append(expected[v], x) /\ Len(expected[v]) = size[v]
      BY <1>2, <1>3, <1>6 DEF VectorTypes, Stored
    <3>4. b \in DOMAIN buffers' /\ buffers'[b] = expected'[v]
      BY <1>7, <3>3
    <3> QED BY <1>1, <1>10, <2>1, <3>1, <3>2, <3>3, <3>4 DEF Stored
  <2>2. CASE z # v
    BY <1>2, <1>6, <1>7, <1>10, <1>11, <2>2 DEF Stored, VectorTypes
  <2> QED BY <2>1, <2>2
<1> QED BY <1>6, <1>9, <1>12, <1>13 DEF VectorInv

LEMMA VectorMove ==
    ASSUME VectorInv, NEW v \in Vector, NEW w \in Vector, Move(v, w)
    PROVE  VectorInv'
<1>1. VectorTypes /\ Owners /\ \A z \in alive : Stored(z)
  BY DEF VectorInv
<1>2. v \notin alive /\ w \in alive /\ alive' = alive \cup {v} /\ buffers' = buffers /\ v # w
  BY DEF Move
<1>3. \A z \in Vector :
        /\ size'[z] = IF z = w THEN 0 ELSE IF z = v THEN size[w] ELSE size[z]
        /\ vcapacity'[z] = IF z = w THEN N ELSE IF z = v THEN vcapacity[w] ELSE vcapacity[z]
        /\ heap_data'[z] = IF z = w THEN NoBuffer ELSE IF z = v THEN heap_data[w] ELSE heap_data[z]
        /\ inline'[z] = IF z = w THEN <<>> ELSE IF z = v THEN inline[w] ELSE inline[z]
        /\ expected'[z] = IF z = w THEN <<>> ELSE IF z = v THEN expected[w] ELSE expected[z]
  BY <1>1 DEF Move, VectorTypes
<1>4. VectorTypes'
  <2>1. size' \in [Vector -> Nat] /\ vcapacity' \in [Vector -> Nat]
    BY <1>1, VectorAssumption DEF Move, VectorTypes
  <2>2. heap_data' \in [Vector -> Buffer \cup {NoBuffer}]
    BY <1>1 DEF Move, VectorTypes
  <2>3. inline' \in [Vector -> Seq(Element)] /\ expected' \in [Vector -> Seq(Element)]
    <3>1. <<>> \in Seq(Element)
      OBVIOUS
    <3> QED BY <1>1, <3>1 DEF Move, VectorTypes
  <2>4. alive' \subseteq Vector
    BY <1>1, <1>2 DEF VectorTypes
  <2> QED BY <1>1, <1>2, <2>1, <2>2, <2>3, <2>4 DEF VectorTypes
<1>5. Owners'
  <2>1. \A b \in DOMAIN buffers : b # NoBuffer
    BY <1>1, VectorAssumption DEF VectorTypes
  <2>2. ASSUME NEW b \in DOMAIN buffers PROVE \E z \in alive' : heap_data'[z] = b
    <3>1. PICK z \in alive : heap_data[z] = b
      BY <1>1 DEF Owners
    <3>2. CASE z = w
      BY <1>2, <1>3, <3>1, <3>2
    <3>3. CASE z # w
      BY <1>1, <1>2, <1>3, <3>1, <3>3 DEF VectorTypes
    <3> QED BY <3>2, <3>3
  <2>3. ASSUME NEW y \in alive', NEW z \in alive', heap_data'[y] # NoBuffer,
               heap_data'[y] = heap_data'[z]
        PROVE  y = z
    <3>1. y # w /\ z # w /\ y \in Vector /\ z \in Vector
      BY <1>1, <1>2, <1>3, <2>3 DEF VectorTypes
    <3>2. /\ heap_data'[y] = heap_data[IF y = v THEN w ELSE y]
          /\ heap_data'[z] = heap_data[IF z = v THEN w ELSE z]
      BY <1>3, <3>1
    <3> QED BY <1>1, <1>2, <2>3, <3>1, <3>2 DEF Owners
  <2> QED BY <1>2, <2>2, <2>3 DEF Owners
<1>6. ASSUME NEW z \in alive \cup {v} PROVE Stored(z)'
  BY <1>1, <1>2, <1>3, VectorAssumption DEF Stored, VectorTypes
<1> QED BY <1>2, <1>4, <1>5, <1>6 DEF VectorInv

LEMMA VectorClear ==
    ASSUME VectorInv, NEW v \in Vector, ClearVector(v)
    PROVE  VectorInv'
<1>1. VectorTypes /\ Owners /\ \A z \in alive : Stored(z)
  BY DEF VectorInv
<1>2. /\ v \in alive /\ size' = [size EXCEPT ![v] = 0]
      /\ expected' = [expected EXCEPT ![v] = <<>>]
      /\ UNCHANGED <<alive, vcapacity, heap_data>>
  BY DEF ClearVector
<1>3. CASE heap_data[v] # NoBuffer
  <2>1. buffers' = [buffers EXCEPT ![heap_data[v]] = <<>>] /\ inline' = inline
    BY <1>3 DEF ClearVector, is_heap
  <2>2. \A z \in alive : z # v => heap_data[z] # heap_data[v]
    BY <1>1, <1>2, <1>3 DEF Owners
  <2>3. VectorTypes'
    BY <1>1, <1>2, <2>1 DEF VectorTypes
  <2>4. Owners'
    BY <1>1, <1>2, <2>1 DEF Owners
  <2>5. ASSUME NEW z \in alive PROVE Stored(z)'
    BY <1>1, <1>2, <1>3, <2>1, <2>2, VectorAssumption DEF Stored, VectorTypes
  <2> QED BY <1>2, <2>3, <2>4, <2>5 DEF VectorInv
<1>4. CASE heap_data[v] = NoBuffer
  <2>1. inline' = [inline EXCEPT ![v] = <<>>] /\ buffers' = buffers
    BY <1>4 DEF ClearVector, is_heap
  <2>3. VectorTypes'
    BY <1>1, <1>2, <2>1 DEF VectorTypes
  <2>4. Owners'
    BY <1>1, <1>2, <2>1 DEF Owners
  <2>5. ASSUME NEW z \in alive PROVE Stored(z)'
    BY <1>1, <1>2, <1>4, <2>1, VectorAssumption DEF Stored, VectorTypes
  <2> QED BY <1>2, <2>3, <2>4, <2>5 DEF VectorInv
<1> QED BY <1>3, <1>4

LEMMA VectorDestroy ==
    ASSUME VectorInv, NEW v \in Vector, Destroy(v)
    PROVE  VectorInv'
<1>1. VectorTypes /\ Owners /\ \A z \in alive : Stored(z)
  BY DEF VectorInv
<1>2. /\ v \in alive /\ alive' = alive \ {v} /\ inline' = [inline EXCEPT ![v] = <<>>]
      /\ UNCHANGED <<size, vcapacity, heap_data, expected>>
      /\ DOMAIN buffers' = DOMAIN buffers \ {heap_data[v]}
      /\ \A c \in DOMAIN buffers' : buffers'[c] = buffers[c]
  BY DEF Destroy, Without
<1>3. VectorTypes'
  BY <1>1, <1>2 DEF VectorTypes
<1>4. Owners'
  BY <1>1, <1>2 DEF Owners
<1>5. ASSUME NEW z \in alive \ {v} PROVE Stored(z)'
  <2>1. heap_data[z] # NoBuffer => heap_data[z] # heap_data[v]
    BY <1>1, <1>2, <1>5 DEF Owners
  <2>2. inline'[z] = inline[z]
    BY <1>1, <1>2, <1>5 DEF VectorTypes
  <2> QED BY <1>1, <1>2, <1>5, <2>1, <2>2 DEF Stored
<1> QED BY <1>2, <1>3, <1>4, <1>5 DEF VectorInv

LEMMA VectorStep == VectorInv /\ [VectorNext]_vectorVars => VectorInv'
<1> SUFFICES ASSUME VectorInv, [VectorNext]_vectorVars PROVE VectorInv'
  OBVIOUS
<1>1. CASE VectorNext
  BY <1>1, VectorConstruct, VectorClear, VectorDestroy, VectorEmplace, VectorGrow, VectorMove
     DEF VectorNext
<1>2. CASE UNCHANGED vectorVars
  BY <1>2 DEF vectorVars, VectorInv, VectorTypes, Owners, Stored
<1> QED BY <1>1, <1>2

(* A vector of trades yields what was pushed, in order: no growth onto the    *)
(* heap, no move and no reuse loses, doubles or reorders an element, for any  *)
(* inline capacity and any number of vectors.                                 *)
THEOREM VectorsHold == MCSpec => []HoldsWhatWasPushed
<1>1. MCInit => VectorInv
  BY VectorStart DEF MCInit
<1>2. VectorInv => HoldsWhatWasPushed
  BY DEF VectorInv, Stored, HoldsWhatWasPushed, Data, is_heap
<1> QED BY <1>1, <1>2, Alone, VectorStep, PTL DEF MCSpec

(* A heap buffer is freed once and by the vector that owns it: every live     *)
(* buffer has exactly one owner through growth, moves and destruction.        *)
THEOREM BuffersOwned == MCSpec => []BuffersOwnedOnce
<1>1. MCInit => VectorInv
  BY VectorStart DEF MCInit
<1>2. VectorInv => BuffersOwnedOnce
  <2> SUFFICES ASSUME VectorInv PROVE BuffersOwnedOnce
    OBVIOUS
  <2>1. \A b \in DOMAIN buffers : b # NoBuffer /\ \E v \in alive : heap_data[v] = b
    BY VectorAssumption DEF VectorInv, VectorTypes, Owners
  <2>2. \A v \in alive : heap_data[v] # NoBuffer => heap_data[v] \in DOMAIN buffers
    BY DEF VectorInv, Stored
  <2>3. DOMAIN buffers = {heap_data[v] : v \in {w \in alive : heap_data[w] # NoBuffer}}
    BY <2>1, <2>2
  <2> QED BY <2>3 DEF VectorInv, Owners, BuffersOwnedOnce, is_heap
<1> QED BY <1>1, <1>2, Alone, VectorStep, PTL DEF MCSpec


(* ------------------- lists threaded through free slots ------------------- *)

(* Following w from h meets the slots F[1], ..., F[n], each once, and ends.   *)
Threaded(F, n, M, nil, h, w) ==
    /\ n \in Nat /\ F \in [1 .. n -> 1 .. M]
    /\ \A j, k \in 1 .. n : F[j] = F[k] => j = k
    /\ h = IF n = 0 THEN nil ELSE F[1]
    /\ \A k \in 1 .. n : w[F[k]] = IF k = n THEN nil ELSE F[k + 1]
On(F, n) == {F[k] : k \in 1 .. n}
Threads(n, M, nil, h, w, S) == \E F : Threaded(F, n, M, nil, h, w) /\ On(F, n) = S
Patched(v, w, M, x, y) == v[x] = y /\ \A i \in 1 .. M : i # x => v[i] = w[i]

(* The first slot is taken off the list.                                      *)
LEMMA PopThread ==
    ASSUME NEW n, NEW M, NEW nil, NEW h, NEW w, NEW v, NEW y, NEW S,
           Threads(n, M, nil, h, w, S), h # nil, Patched(v, w, M, h, y)
    PROVE  h \in S /\ n - 1 \in Nat /\ Threads(n - 1, M, nil, w[h], v, S \ {h})
<1> PICK F : Threaded(F, n, M, nil, h, w) /\ S = On(F, n)
  BY DEF Threads
<1> DEFINE G == [k \in 1 .. n - 1 |-> F[k + 1]]
<1>1. /\ n \in Nat \ {0} /\ h = F[1] /\ n - 1 \in Nat
      /\ \A k \in 1 .. n : F[k] \in 1 .. M
      /\ \A j, k \in 1 .. n : F[j] = F[k] => j = k
      /\ \A k \in 1 .. n : w[F[k]] = IF k = n THEN nil ELSE F[k + 1]
      /\ \A i \in 1 .. M : i # h => v[i] = w[i]
  BY DEF Threaded, Patched
<1>2. \A k \in 1 .. n - 1 : G[k] = F[k + 1] /\ k + 1 \in 1 .. n /\ k + 1 # 1
  BY <1>1
<1>3. G \in [1 .. n - 1 -> 1 .. M]
  BY <1>1, <1>2
<1> HIDE DEF G
<1>4. \A j, k \in 1 .. n - 1 : G[j] = G[k] => j = k
  BY <1>1, <1>2
<1>5. w[h] = IF n - 1 = 0 THEN nil ELSE G[1]
  BY <1>1, <1>2
<1>6. \A k \in 1 .. n - 1 : v[G[k]] = IF k = n - 1 THEN nil ELSE G[k + 1]
  <2> SUFFICES ASSUME NEW k \in 1 .. n - 1
               PROVE  v[G[k]] = IF k = n - 1 THEN nil ELSE G[k + 1]
    OBVIOUS
  <2>1. G[k] = F[k + 1] /\ k + 1 \in 1 .. n /\ F[k + 1] \in 1 .. M /\ F[k + 1] # h
    BY <1>1, <1>2
  <2>2. v[G[k]] = IF k + 1 = n THEN nil ELSE F[(k + 1) + 1]
    BY <1>1, <2>1
  <2>3. k # n - 1 => k + 1 \in 1 .. n - 1
    BY <1>1
  <2> QED BY <1>1, <1>2, <2>2, <2>3
<1>7. On(G, n - 1) = On(F, n) \ {h}
  <2>1. \A k \in 1 .. n : k # 1 => k - 1 \in 1 .. n - 1 /\ G[k - 1] = F[k] /\ F[k] # F[1]
    <3> SUFFICES ASSUME NEW k \in 1 .. n, k # 1
                 PROVE  k - 1 \in 1 .. n - 1 /\ G[k - 1] = F[k] /\ F[k] # F[1]
      OBVIOUS
    <3>1. k - 1 \in 1 .. n - 1 /\ (k - 1) + 1 = k /\ 1 \in 1 .. n
      BY <1>1
    <3> QED BY <1>1, <1>2, <3>1
  <2>2. ASSUME NEW x \in On(G, n - 1) PROVE x \in On(F, n) \ {h}
    <3>1. PICK k \in 1 .. n - 1 : x = G[k]
      BY DEF On
    <3>2. x = F[k + 1] /\ k + 1 \in 1 .. n /\ k + 1 # 1
      BY <1>2, <3>1
    <3> QED BY <1>1, <2>1, <3>2 DEF On
  <2>3. ASSUME NEW x \in On(F, n) \ {h} PROVE x \in On(G, n - 1)
    <3>1. PICK k \in 1 .. n : x = F[k]
      BY DEF On
    <3> QED BY <1>1, <2>1, <2>3, <3>1 DEF On
  <2> QED BY <2>2, <2>3
<1>8. h \in On(F, n)
  BY <1>1 DEF On
<1>9. Threaded(G, n - 1, M, nil, w[h], v)
  BY <1>1, <1>3, <1>4, <1>5, <1>6 DEF Threaded
<1> QED BY <1>1, <1>7, <1>8, <1>9 DEF Threads

(* A slot that is not on the list is put before the first one.                *)
LEMMA PushThread ==
    ASSUME NEW n, NEW M, NEW nil, NEW h, NEW w, NEW v, NEW x, NEW S,
           Threads(n, M, nil, h, w, S), x \in 1 .. M, x \notin S, Patched(v, w, M, x, h)
    PROVE  Threads(n + 1, M, nil, x, v, S \cup {x})
<1> PICK F : Threaded(F, n, M, nil, h, w) /\ S = On(F, n)
  BY DEF Threads
<1> DEFINE G == [k \in 1 .. n + 1 |-> IF k = 1 THEN x ELSE F[k - 1]]
<1>1. /\ n \in Nat /\ h = IF n = 0 THEN nil ELSE F[1]
      /\ \A k \in 1 .. n : F[k] \in 1 .. M /\ F[k] # x
      /\ \A j, k \in 1 .. n : F[j] = F[k] => j = k
      /\ \A k \in 1 .. n : w[F[k]] = IF k = n THEN nil ELSE F[k + 1]
      /\ v[x] = h /\ \A i \in 1 .. M : i # x => v[i] = w[i]
  BY DEF Threaded, On, Patched
<1>2. /\ 1 \in 1 .. n + 1 /\ G[1] = x
      /\ \A k \in 1 .. n + 1 : k # 1 => G[k] = F[k - 1] /\ k - 1 \in 1 .. n
      /\ \A k \in 1 .. n : k + 1 \in 1 .. n + 1 /\ G[k + 1] = F[k]
  <2>1. \A k \in 1 .. n + 1 : k # 1 => k - 1 \in 1 .. n
    BY <1>1
  <2>2. \A k \in 1 .. n : k + 1 \in 1 .. n + 1 /\ k + 1 # 1 /\ (k + 1) - 1 = k
    BY <1>1
  <2>3. 1 \in 1 .. n + 1
    BY <1>1
  <2> QED BY <2>1, <2>2, <2>3
<1>3. G \in [1 .. n + 1 -> 1 .. M]
  BY <1>1, <1>2
<1> HIDE DEF G
<1>4. \A j, k \in 1 .. n + 1 : G[j] = G[k] => j = k
  <2> SUFFICES ASSUME NEW j \in 1 .. n + 1, NEW k \in 1 .. n + 1, G[j] = G[k] PROVE j = k
    OBVIOUS
  <2>1. CASE j = 1 \/ k = 1
    BY <1>1, <1>2, <2>1
  <2>2. CASE j # 1 /\ k # 1
    <3>1. j - 1 = k - 1
      BY <1>1, <1>2, <2>2
    <3> QED BY <1>1, <3>1
  <2> QED BY <2>1, <2>2
<1>5. \A k \in 1 .. n + 1 : v[G[k]] = IF k = n + 1 THEN nil ELSE G[k + 1]
  <2> SUFFICES ASSUME NEW k \in 1 .. n + 1
               PROVE  v[G[k]] = IF k = n + 1 THEN nil ELSE G[k + 1]
    OBVIOUS
  <2>1. CASE k = 1
    BY <1>1, <1>2, <2>1
  <2>2. CASE k # 1
    <3>1. /\ G[k] = F[k - 1] /\ k - 1 \in 1 .. n /\ F[k - 1] \in 1 .. M /\ F[k - 1] # x
      BY <1>1, <1>2, <2>2
    <3>2. v[G[k]] = IF k - 1 = n THEN nil ELSE F[(k - 1) + 1]
      BY <1>1, <3>1
    <3>3. (k - 1) + 1 = k /\ ((k - 1 = n) <=> (k = n + 1)) /\ (k # n + 1 => k \in 1 .. n)
      BY <1>1
    <3> QED BY <1>2, <3>2, <3>3
  <2> QED BY <2>1, <2>2
<1>6. On(G, n + 1) = On(F, n) \cup {x}
  <2>1. ASSUME NEW y \in On(G, n + 1) PROVE y \in On(F, n) \cup {x}
    <3>1. PICK k \in 1 .. n + 1 : y = G[k]
      BY DEF On
    <3> QED BY <1>2, <3>1 DEF On
  <2>2. ASSUME NEW y \in On(F, n) PROVE y \in On(G, n + 1)
    <3>1. PICK k \in 1 .. n : y = F[k]
      BY DEF On
    <3> QED BY <1>2, <3>1 DEF On
  <2>3. x \in On(G, n + 1)
    BY <1>2 DEF On
  <2> QED BY <2>1, <2>2, <2>3
<1> QED
  <2>1. n + 1 \in Nat /\ n + 1 # 0
    BY <1>1
  <2>2. Threaded(G, n + 1, M, nil, x, v)
    BY <1>2, <1>3, <1>4, <1>5, <2>1 DEF Threaded
  <2> QED BY <1>6, <2>2 DEF Threads

(* All slots in address order, as a constructor threads them.                 *)
LEMMA ThreadAll ==
    ASSUME NEW M \in Nat, NEW nil, NEW h, NEW w,
           h = IF M = 0 THEN nil ELSE 1,
           \A i \in 1 .. M : w[i] = IF i = M THEN nil ELSE i + 1
    PROVE  Threads(M, M, nil, h, w, 1 .. M)
<1> DEFINE F == [k \in 1 .. M |-> k]
<1>1. F \in [1 .. M -> 1 .. M] /\ \A k \in 1 .. M : F[k] = k
  OBVIOUS
<1> HIDE DEF F
<1>2. On(F, M) = 1 .. M
  BY <1>1 DEF On
<1>3. Threaded(F, M, M, nil, h, w)
  <2>1. \A k \in 1 .. M : k # M => k + 1 \in 1 .. M
    OBVIOUS
  <2>2. M # 0 => 1 \in 1 .. M
    OBVIOUS
  <2> QED BY <1>1, <2>1, <2>2 DEF Threaded
<1> QED BY <1>2, <1>3 DEF Threads

(* Induction over the natural numbers, for a set.                             *)
LEMMA Induct ==
    ASSUME NEW S, 0 \in S, \A n \in Nat : n \in S => n + 1 \in S
    PROVE  Nat \subseteq S
<1> DEFINE T == Nat \ S
<1>1. SUFFICES ASSUME T # {} PROVE FALSE
  OBVIOUS
<1>2. PICK x \in T : \A y \in T : <<y, x>> \notin OpToRel(<, Nat)
  BY <1>1, WFMin, NatLessThanWellFounded, Zenon
<1>3. \A y \in T : ~(y < x)
  BY <1>2, Zenon DEF OpToRel
<1>4. x # 0 /\ x - 1 \in Nat /\ x - 1 < x /\ (x - 1) + 1 = x
  OBVIOUS
<1>5. x - 1 \in S
  BY <1>3, <1>4
<1> QED BY <1>4, <1>5


(* What reading the list slot by slot gives, and that it can be read.         *)
Follows(at, M, nil, h, w) ==
    at = [k \in 1 .. M + 1 |->
            IF k = 1 THEN h ELSE IF at[k - 1] \in 1 .. M THEN w[at[k - 1]] ELSE nil]

Reads(at, n, M, nil, S) ==
    /\ {k \in 1 .. M + 1 : at[k] # nil} = 1 .. n
    /\ {at[k] : k \in 1 .. n} = S
    /\ Cardinality(1 .. n) = n /\ Cardinality(S) = n
    /\ DOMAIN at = 1 .. M + 1

Reading(M, nil, h, w) == CHOOSE a : Follows(a, M, nil, h, w)

LEMMA ThreadLength ==
    ASSUME NEW F, NEW n, NEW M \in Nat, NEW nil, NEW h, NEW w, Threaded(F, n, M, nil, h, w)
    PROVE  n <= M /\ Cardinality(On(F, n)) = n /\ IsFiniteSet(On(F, n))
<1>1. n \in Nat /\ F \in [1 .. n -> 1 .. M] /\ \A j, k \in 1 .. n : F[j] = F[k] => j = k
  BY DEF Threaded
<1>2. IsFiniteSet(1 .. n) /\ Cardinality(1 .. n) = n /\ IsFiniteSet(1 .. M) /\ Cardinality(1 .. M) = M
  <2>1. /\ IsFiniteSet(1 .. n) /\ Cardinality(1 .. n) = IF 1 > n THEN 0 ELSE n - 1 + 1
        /\ IsFiniteSet(1 .. M) /\ Cardinality(1 .. M) = IF 1 > M THEN 0 ELSE M - 1 + 1
    BY <1>1, FS_Interval
  <2> QED BY <1>1, <2>1
<1>3. F \in Bijection(1 .. n, On(F, n))
  BY <1>1 DEF Bijection, Injection, Surjection, IsInjective, On
<1>4. IsFiniteSet(On(F, n)) /\ Cardinality(On(F, n)) = n
  <2>1. ExistsBijection(1 .. n, On(F, n))
    BY <1>3 DEF ExistsBijection
  <2> QED BY <1>2, <2>1, FS_Bijection
<1>5. On(F, n) \subseteq 1 .. M
  BY <1>1 DEF On
<1>6. n <= M
  BY <1>2, <1>4, <1>5, FS_Subset
<1> QED BY <1>4, <1>6

LEMMA ThreadFollowed ==
    ASSUME NEW F, NEW n, NEW M \in Nat, NEW nil, NEW h, NEW w, Threaded(F, n, M, nil, h, w),
           nil \notin 1 .. M
    PROVE  \E at : Follows(at, M, nil, h, w)
<1> DEFINE D == 1 .. M + 1
           at == [k \in D |-> IF k <= n THEN F[k] ELSE nil]
<1>1. /\ n \in Nat /\ n <= M /\ \A k \in 1 .. n : F[k] \in 1 .. M
      /\ h = IF n = 0 THEN nil ELSE F[1]
      /\ \A k \in 1 .. n : w[F[k]] = IF k = n THEN nil ELSE F[k + 1]
  <2>1. n <= M
    BY ThreadLength, Zenon
  <2> QED BY <2>1 DEF Threaded
<1>2. ASSUME NEW k \in D
      PROVE  at[k] = IF k = 1 THEN h
                     ELSE IF at[k - 1] \in 1 .. M THEN w[at[k - 1]] ELSE nil
  <2>1. CASE k = 1
    BY <1>1, <2>1
  <2>2. CASE k # 1
    <3>1. k - 1 \in D /\ (k - 1) + 1 = k /\ k - 1 >= 1
      BY <1>1, <2>2
    <3>2. CASE k - 1 <= n
      <4>1. k - 1 \in 1 .. n
        BY <1>1, <3>1, <3>2
      <4>2. at[k - 1] \in 1 .. M /\ w[at[k - 1]] = IF k - 1 = n THEN nil ELSE F[k]
        BY <1>1, <3>1, <4>1
      <4> QED BY <1>1, <2>2, <3>1, <4>1, <4>2
    <3>3. CASE ~(k - 1 <= n)
      BY <1>1, <2>2, <3>1, <3>3
    <3> QED BY <3>2, <3>3
  <2> QED BY <2>1, <2>2
<1>3. at = [k \in D |-> IF k = 1 THEN h
                        ELSE IF at[k - 1] \in 1 .. M THEN w[at[k - 1]] ELSE nil]
  <2>1. DOMAIN at = D
    OBVIOUS
  <2> HIDE DEF D
  <2> QED BY <1>2
<1> QED BY <1>3 DEF Follows

LEMMA ThreadRead ==
    ASSUME NEW F, NEW n, NEW M \in Nat, NEW nil, NEW h, NEW w, Threaded(F, n, M, nil, h, w),
           nil \notin 1 .. M, NEW at, Follows(at, M, nil, h, w)
    PROVE  Reads(at, n, M, nil, On(F, n))
<1>1. /\ n \in Nat /\ n <= M /\ \A k \in 1 .. n : F[k] \in 1 .. M
      /\ h = IF n = 0 THEN nil ELSE F[1]
      /\ \A k \in 1 .. n : w[F[k]] = IF k = n THEN nil ELSE F[k + 1]
  <2>1. n <= M
    BY ThreadLength, Zenon
  <2> QED BY <2>1 DEF Threaded
<1>2. /\ DOMAIN at = 1 .. M + 1
      /\ \A k \in 1 .. M + 1 : at[k] = IF k = 1 THEN h
                     ELSE IF at[k - 1] \in 1 .. M THEN w[at[k - 1]] ELSE nil
  BY DEF Follows
<1> DEFINE S == {j \in Nat : j + 1 \in 1 .. M + 1 => at[j + 1] = IF j + 1 <= n THEN F[j + 1] ELSE nil}
<1>3. 0 \in S
  BY <1>1, <1>2
<1>4. ASSUME NEW j \in Nat, j \in S PROVE j + 1 \in S
  <2>1. SUFFICES ASSUME j + 2 \in 1 .. M + 1
                 PROVE  at[j + 2] = IF j + 2 <= n THEN F[j + 2] ELSE nil
    BY <1>4
  <2>2. j + 1 \in 1 .. M + 1 /\ (j + 2) - 1 = j + 1 /\ j + 2 # 1
    BY <2>1
  <2>3. at[j + 1] = IF j + 1 <= n THEN F[j + 1] ELSE nil
    BY <1>4, <2>2
  <2>4. at[j + 2] = IF at[j + 1] \in 1 .. M THEN w[at[j + 1]] ELSE nil
    BY <1>2, <2>1, <2>2
  <2>5. CASE j + 1 <= n
    <3>1. j + 1 \in 1 .. n /\ (j + 1) + 1 = j + 2
      BY <1>1, <2>5
    <3>2. at[j + 1] \in 1 .. M /\ w[at[j + 1]] = IF j + 1 = n THEN nil ELSE F[j + 2]
      BY <1>1, <2>3, <3>1
    <3> QED BY <1>1, <2>4, <3>1, <3>2
  <2>6. CASE ~(j + 1 <= n)
    BY <1>1, <2>3, <2>4, <2>6
  <2> QED BY <2>5, <2>6
<1>5. Nat \subseteq S
  BY <1>3, <1>4, Induct
<1>6. ASSUME NEW k \in 1 .. M + 1 PROVE at[k] = IF k <= n THEN F[k] ELSE nil
  <2>1. k - 1 \in Nat /\ (k - 1) + 1 = k
    OBVIOUS
  <2> QED BY <1>5, <2>1
<1> HIDE DEF S
<1>7. {k \in 1 .. M + 1 : at[k] # nil} = 1 .. n
  <2>1. \A k \in 1 .. n : k \in 1 .. M + 1 /\ k <= n
    BY <1>1
  <2>2. \A k \in 1 .. M + 1 : k <= n => k \in 1 .. n
    BY <1>1
  <2> QED BY <1>1, <1>6, <2>1, <2>2
<1>8. {at[k] : k \in 1 .. n} = On(F, n)
  <2>1. \A k \in 1 .. n : k \in 1 .. M + 1 /\ k <= n
    BY <1>1
  <2>2. \A k \in 1 .. n : at[k] = F[k]
    BY <1>6, <2>1
  <2> QED BY <2>2 DEF On
<1>9. Cardinality(1 .. n) = n
  BY <1>1, FS_Interval
<1>10. Cardinality(On(F, n)) = n
  BY ThreadLength, Zenon
<1> QED BY <1>2, <1>7, <1>8, <1>9, <1>10 DEF Reads

(* Reading a list whose slots are S finds each of them once.                  *)
LEMMA ReadThreads ==
    ASSUME NEW n, NEW M \in Nat, NEW nil, NEW h, NEW w, NEW S,
           Threads(n, M, nil, h, w, S), nil \notin 1 .. M,
           NEW at, at = Reading(M, nil, h, w)
    PROVE  Reads(at, n, M, nil, S)
<1>1. PICK F : Threaded(F, n, M, nil, h, w) /\ On(F, n) = S
  BY DEF Threads
<1>2. Threaded(F, n, M, nil, h, w)
  BY <1>1
<1>3. \E a : Follows(a, M, nil, h, w)
  BY <1>2, ThreadFollowed
<1>4. Follows(at, M, nil, h, w)
  BY <1>3 DEF Reading
<1>5. Reads(at, n, M, nil, On(F, n))
  BY <1>2, <1>4, ThreadRead
<1> QED BY <1>1, <1>5 DEF Threaded

(* ------------------------------ MemoryPool ------------------------------- *)

PoolInv ==
    /\ word \in [Slot -> Slot \cup {Null, Object}]
    /\ freelist_head \in Slot \cup {Null}
    /\ allocated \in Int
    /\ Threads(Capacity - allocated, Capacity, Null, freelist_head, word, Slot \ Live)

LEMMA PoolStart == PoolInit => PoolInv
<1> SUFFICES ASSUME PoolInit PROVE PoolInv
  OBVIOUS
<1>1. /\ freelist_head = IF Capacity = 0 THEN Null ELSE 1
      /\ \A i \in Slot : word[i] = IF i = Capacity THEN Null ELSE i + 1
      /\ Capacity \in Nat /\ Slot = 1 .. Capacity /\ allocated = 0
  BY CapacityAssumption DEF PoolInit, Slot
<1>2. Threads(Capacity, Capacity, Null, freelist_head, word, Slot)
  <2> PICK h, w : h = freelist_head /\ w = word
    OBVIOUS
  <2>1. Threads(Capacity, Capacity, Null, h, w, 1 .. Capacity)
    BY <1>1, ThreadAll
  <2> QED BY <1>1, <2>1
<1>3. \A i \in Slot : word[i] \in Slot \cup {Null}
  BY <1>1
<1>4. Live = {}
  BY <1>3, WordAssumption DEF Live
<1>5. word \in [Slot -> Slot \cup {Null, Object}]
  BY <1>3 DEF PoolInit
<1>6. freelist_head \in Slot \cup {Null}
  BY <1>1
<1>7. Capacity - allocated = Capacity /\ Slot \ Live = Slot
  BY <1>1, <1>4
<1>8. Threads(Capacity - allocated, Capacity, Null, freelist_head, word, Slot \ Live)
  <2> HIDE DEF Slot
  <2> QED BY <1>2, <1>7
<1>9. allocated \in Int
  BY <1>1
<1> QED BY <1>5, <1>6, <1>8, <1>9 DEF PoolInv

LEMMA PoolStep == PoolInv /\ [PoolNext]_poolVars => PoolInv'
<1> SUFFICES ASSUME PoolInv, [PoolNext]_poolVars PROVE PoolInv'
  OBVIOUS
<1>1. /\ word \in [Slot -> Slot \cup {Null, Object}] /\ freelist_head \in Slot \cup {Null}
      /\ Capacity \in Nat /\ Slot = 1 .. Capacity /\ allocated \in Int
  BY CapacityAssumption DEF PoolInv, Slot
<1> PICK h, w, v, n, S : /\ h = freelist_head /\ w = word /\ v = word'
                         /\ n = Capacity - allocated /\ S = Slot \ Live
  OBVIOUS
<1>2. Threads(n, Capacity, Null, h, w, S)
  BY DEF PoolInv
<1>3. \A i \in Slot : i \in S <=> w[i] # Object
  BY DEF Live
<1>4. CASE Allocate
  <2>1. /\ h # Null /\ h \in Slot /\ freelist_head' = w[h]
        /\ v = [w EXCEPT ![h] = Object] /\ allocated' = allocated + 1
    BY <1>1, <1>4 DEF Allocate, Exhausted
  <2>2. Patched(v, w, Capacity, h, Object)
    BY <1>1, <2>1 DEF Patched
  <2>3. h # Null
    BY <2>1
  <2>4. h \in S /\ n - 1 \in Nat /\ Threads(n - 1, Capacity, Null, w[h], v, S \ {h})
    BY <1>2, <2>2, <2>3, PopThread, Zenon
  <2>5. Slot \ Live' = S \ {h}
    BY <1>1, <1>3, <2>1 DEF Live
  <2>6. word' \in [Slot -> Slot \cup {Null, Object}]
    BY <1>1, <2>1
  <2>7. freelist_head' \in Slot \cup {Null}
    BY <1>1, <1>3, <2>1, <2>4
  <2>8. Capacity - allocated' = n - 1 /\ allocated' \in Int
    BY <1>1, <2>1
  <2> QED BY <2>1, <2>4, <2>5, <2>6, <2>7, <2>8 DEF PoolInv
<1>5. ASSUME NEW i \in Slot, Deallocate(i) PROVE PoolInv'
  <2>1. /\ i \in Live /\ v = [w EXCEPT ![i] = h] /\ freelist_head' = i
        /\ allocated' = allocated - 1
    BY <1>5 DEF Deallocate
  <2>2. Patched(v, w, Capacity, i, h)
    BY <1>1, <2>1 DEF Patched
  <2>3. i \notin S
    BY <2>1
  <2>4. i \in 1 .. Capacity
    BY <1>1
  <2>5. Threads(n + 1, Capacity, Null, i, v, S \cup {i})
    BY <1>2, <2>2, <2>3, <2>4, PushThread, Zenon
  <2>6. Slot \ Live' = S \cup {i}
    BY <1>1, <1>3, <2>1, WordAssumption DEF Live
  <2>7. word' \in [Slot -> Slot \cup {Null, Object}]
    BY <1>1, <2>1
  <2>8. Capacity - allocated' = n + 1 /\ allocated' \in Int
    BY <1>1, <2>1
  <2> QED BY <2>1, <2>5, <2>6, <2>7, <2>8 DEF PoolInv
<1>6. CASE UNCHANGED poolVars
  BY <1>6 DEF poolVars, PoolInv, Live
<1> QED BY <1>4, <1>5, <1>6 DEF PoolNext

LEMMA PoolIsSound == PoolInv => FreelistSound
<1> SUFFICES ASSUME PoolInv PROVE FreelistSound
  OBVIOUS
<1>1. Capacity \in Nat /\ Slot = 1 .. Capacity /\ Null \notin 1 .. Capacity
  BY CapacityAssumption, WordAssumption DEF Slot
<1> PICK h, w, n, S, at : /\ h = freelist_head /\ w = word /\ n = Capacity - allocated
                          /\ S = Slot \ Live /\ at = FreeSlots
  OBVIOUS
<1>2. Threads(n, Capacity, Null, h, w, S)
  BY DEF PoolInv
<1>3. at = Reading(Capacity, Null, h, w)
  BY <1>1 DEF Reading, Follows, FreeSlots
<1>4. Reads(at, n, Capacity, Null, S)
  <2>1. Capacity \in Nat
    BY <1>1
  <2>2. Null \notin 1 .. Capacity
    BY <1>1
  <2> QED BY <1>2, <1>3, <2>1, <2>2, ReadThreads, Zenon
<1> QED BY <1>4 DEF FreelistSound, Reads

(* The freelist of the pool holds every slot without an object exactly once   *)
(* after any number of allocations and frees in any order, for any capacity:  *)
(* no slot is handed out while an object lives in it, none is lost.           *)
THEOREM PoolSound == MCSpec => []FreelistSound
<1>1. MCInit => PoolInv
  BY PoolStart DEF MCInit
<1> QED BY <1>1, PoolIsSound, Alone, PoolStep, PTL DEF MCSpec


(* ----------------------------- PoolAllocator ----------------------------- *)

ArenaSlots == ArenaBytes \div slot_size

LEMMA ArenaSize ==
    /\ ArenaSlots \in Nat \ {0} /\ ArenaSlot = 1 .. ArenaSlots
    /\ Cardinality(ArenaSlot) = ArenaSlots
<1>1. slot_size \in Nat \ {0}
  <2> DEFINE r == ((ObjSize + ObjAlign - 1) \div ObjAlign) * ObjAlign
  <2>1. (ObjSize + ObjAlign - 1) \div ObjAlign \in Int
    BY ArenaAssumption
  <2>2. r \in Int
    BY <2>1, ArenaAssumption
  <2>3. slot_size = IF r < PointerSize THEN PointerSize ELSE r
    BY DEF slot_size
  <2> HIDE DEF r
  <2> QED BY <2>2, <2>3, ArenaAssumption
<1>2. ArenaBytes \div slot_size \in Int
  BY <1>1, ArenaAssumption
<1>3. ArenaSlot = 1 .. ArenaSlots /\ ArenaSlots \in Int
  BY <1>2 DEF ArenaSlot, ArenaSlots
<1>4. ArenaSlots \in Nat \ {0}
  BY <1>3, AddressAssumption
<1>5. Cardinality(ArenaSlot) = ArenaSlots
  BY <1>3, <1>4, FS_Interval
<1> QED BY <1>3, <1>4, <1>5

InArena == {i \in ArenaSlot : slot_word[i] = InUse}

(* Before init() the arena has nothing to give; afterwards its freelist is    *)
(* the slots that are not in use.                                             *)
ArenaInv ==
    /\ capacity \in {0, Cardinality(ArenaSlot)}
    /\ freelist \in ArenaSlot \cup {NoSlot}
    /\ slot_word \in [ArenaSlot -> ArenaSlot \cup {NoSlot, InUse}]
    /\ heap_live \subseteq HeapBlock
    /\ held = InArena \cup heap_live
    /\ capacity = 0 => freelist = NoSlot /\ InArena = {}
    /\ capacity > 0 => \E n : Threads(n, ArenaSlots, NoSlot, freelist, slot_word, ArenaSlot \ InArena)

LEMMA ArenaStart == ArenaBuilt => ArenaInv
<1> SUFFICES ASSUME ArenaBuilt PROVE ArenaInv
  OBVIOUS
<1>1. /\ capacity = 0 /\ freelist = NoSlot /\ held = {} /\ heap_live = {}
      /\ slot_word = [i \in ArenaSlot |-> NoSlot]
  BY DEF ArenaBuilt
<1>2. InArena = {}
  BY <1>1, AddressAssumption DEF InArena
<1>3. ~(0 > 0)
  OBVIOUS
<1> QED BY <1>1, <1>2, <1>3 DEF ArenaInv

LEMMA ArenaInitialised ==
    ASSUME ArenaInv, InitArena
    PROVE  ArenaInv'
<1>1. /\ capacity = 0 /\ capacity' = ArenaSlots /\ freelist' = 1
      /\ slot_word' = [i \in ArenaSlot |-> IF i + 1 \in ArenaSlot THEN i + 1 ELSE NoSlot]
      /\ UNCHANGED <<heap_live, held>>
  BY ArenaSize DEF InitArena
<1> PICK w : w = slot_word'
  OBVIOUS
<1>2. /\ ArenaSlots \in Nat \ {0} /\ ArenaSlot = 1 .. ArenaSlots
      /\ Cardinality(ArenaSlot) = ArenaSlots
  BY ArenaSize
<1>3. \A i \in 1 .. ArenaSlots : w[i] = IF i = ArenaSlots THEN NoSlot ELSE i + 1
  BY <1>1, <1>2
<1>4. Threads(ArenaSlots, ArenaSlots, NoSlot, 1, w, 1 .. ArenaSlots)
  BY <1>2, <1>3, ThreadAll
<1>5. \A i \in ArenaSlot : w[i] \in ArenaSlot \cup {NoSlot}
  BY <1>1
<1>6. InArena' = {}
  BY <1>5, AddressAssumption DEF InArena
<1>7. slot_word' \in [ArenaSlot -> ArenaSlot \cup {NoSlot, InUse}]
  BY <1>1, <1>5
<1>8. held' = InArena' \cup heap_live' /\ heap_live' \subseteq HeapBlock
  BY <1>1, <1>6 DEF ArenaInv
<1>9. freelist' \in ArenaSlot \cup {NoSlot} /\ capacity' # 0
  BY <1>1, <1>2
<1>10. \E n : Threads(n, ArenaSlots, NoSlot, freelist', slot_word', ArenaSlot \ InArena')
  BY <1>1, <1>2, <1>4, <1>6
<1> QED BY <1>1, <1>2, <1>6, <1>7, <1>8, <1>9, <1>10 DEF ArenaInv

LEMMA ArenaTaken ==
    ASSUME ArenaInv, capacity > 0, FromArena
    PROVE  ArenaInv'
<1>1. /\ ArenaSlots \in Nat \ {0} /\ ArenaSlot = 1 .. ArenaSlots
      /\ freelist \in ArenaSlot \cup {NoSlot} /\ heap_live \subseteq HeapBlock
      /\ slot_word \in [ArenaSlot -> ArenaSlot \cup {NoSlot, InUse}]
      /\ capacity \in {0, Cardinality(ArenaSlot)}
      /\ held = InArena \cup heap_live
  BY ArenaSize DEF ArenaInv
<1> PICK h, w, v, S : /\ h = freelist /\ w = slot_word /\ v = slot_word'
                      /\ S = ArenaSlot \ InArena
  OBVIOUS
<1>2. PICK n : Threads(n, ArenaSlots, NoSlot, h, w, S)
  BY DEF ArenaInv
<1>3. /\ h # NoSlot /\ h \in ArenaSlot /\ freelist' = w[h]
      /\ v = [w EXCEPT ![h] = InUse] /\ held' = held \cup {h}
      /\ UNCHANGED <<capacity, heap_live>>
  BY <1>1 DEF FromArena
<1>4. Patched(v, w, ArenaSlots, h, InUse)
  BY <1>1, <1>3 DEF Patched
<1>5. h # NoSlot
  BY <1>3
<1>6. h \in S /\ n - 1 \in Nat /\ Threads(n - 1, ArenaSlots, NoSlot, w[h], v, S \ {h})
  BY <1>2, <1>4, <1>5, PopThread, Zenon
<1>7. InArena' = InArena \cup {h}
  BY <1>1, <1>3 DEF InArena
<1>8. ArenaSlot \ InArena' = S \ {h}
  BY <1>7
<1>9. w[h] \in ArenaSlot \cup {NoSlot}
  BY <1>1, <1>3, <1>6 DEF InArena
<1>10. slot_word' \in [ArenaSlot -> ArenaSlot \cup {NoSlot, InUse}]
  BY <1>1, <1>3
<1>11. held' = InArena' \cup heap_live'
  BY <1>1, <1>3, <1>7
<1>12. \E m : Threads(m, ArenaSlots, NoSlot, freelist', slot_word', ArenaSlot \ InArena')
  BY <1>3, <1>6, <1>8
<1>13. capacity' # 0
  BY <1>1, <1>3
<1> QED BY <1>1, <1>3, <1>9, <1>10, <1>11, <1>12, <1>13 DEF ArenaInv

LEMMA ArenaReturned ==
    ASSUME ArenaInv, capacity > 0, NEW p \in held, Owns(p), ToArena(p)
    PROVE  ArenaInv'
<1>1. /\ ArenaSlots \in Nat \ {0} /\ ArenaSlot = 1 .. ArenaSlots
      /\ Cardinality(ArenaSlot) = ArenaSlots
      /\ freelist \in ArenaSlot \cup {NoSlot} /\ heap_live \subseteq HeapBlock
      /\ slot_word \in [ArenaSlot -> ArenaSlot \cup {NoSlot, InUse}]
      /\ capacity \in {0, Cardinality(ArenaSlot)}
      /\ held = InArena \cup heap_live
  BY ArenaSize DEF ArenaInv
<1> PICK h, w, v, S : /\ h = freelist /\ w = slot_word /\ v = slot_word'
                      /\ S = ArenaSlot \ InArena
  OBVIOUS
<1>2. PICK n : Threads(n, ArenaSlots, NoSlot, h, w, S)
  BY DEF ArenaInv
<1>3. p \in ArenaSlot /\ p \in InArena /\ p \notin heap_live
  BY <1>1, AddressAssumption DEF Owns
<1>4. /\ v = [i \in ArenaSlot |-> IF i = p THEN h ELSE w[i]] /\ freelist' = p
      /\ held' = held \ {p} /\ UNCHANGED <<capacity, heap_live>>
  BY DEF ToArena
<1>5. Patched(v, w, ArenaSlots, p, h)
  BY <1>1, <1>3, <1>4 DEF Patched
<1>6. p \notin S
  BY <1>3
<1>7. p \in 1 .. ArenaSlots
  BY <1>1, <1>3
<1>8. Threads(n + 1, ArenaSlots, NoSlot, p, v, S \cup {p})
  BY <1>2, <1>5, <1>6, <1>7, PushThread, Zenon
<1>9. InArena' = InArena \ {p}
  <2>1. h # InUse
    BY <1>1, AddressAssumption
  <2> QED BY <1>3, <1>4, <2>1 DEF InArena
<1>10. ArenaSlot \ InArena' = S \cup {p}
  BY <1>3, <1>9
<1>11. slot_word' \in [ArenaSlot -> ArenaSlot \cup {NoSlot, InUse}]
  BY <1>1, <1>4
<1>12. held' = InArena' \cup heap_live'
  BY <1>1, <1>3, <1>4, <1>9
<1>13. \E m : Threads(m, ArenaSlots, NoSlot, freelist', slot_word', ArenaSlot \ InArena')
  BY <1>4, <1>8, <1>10
<1>14. capacity' # 0
  BY <1>1, <1>4
<1> QED BY <1>1, <1>3, <1>4, <1>11, <1>12, <1>13, <1>14 DEF ArenaInv

(* What happens on the heap leaves the arena alone.                           *)
LEMMA ArenaUntouched ==
    ASSUME ArenaInv, UNCHANGED <<capacity, freelist, slot_word>>,
           heap_live' \subseteq HeapBlock, held' = InArena \cup heap_live'
    PROVE  ArenaInv'
BY DEF ArenaInv, InArena

LEMMA ArenaStep == ArenaInv /\ [ArenaNext]_arenaVars => ArenaInv'
<1> SUFFICES ASSUME ArenaInv, [ArenaNext]_arenaVars PROVE ArenaInv'
  OBVIOUS
<1>1. held = InArena \cup heap_live /\ heap_live \subseteq HeapBlock
  BY DEF ArenaInv
<1>2. CASE FromHeap
  <2>1. PICK b \in HeapBlock : /\ heap_live' = heap_live \cup {b} /\ held' = held \cup {b}
                               /\ UNCHANGED <<capacity, freelist, slot_word>>
    BY <1>2 DEF FromHeap
  <2>2. heap_live' \subseteq HeapBlock /\ held' = InArena \cup heap_live'
    BY <1>1, <2>1
  <2> QED BY <2>1, <2>2, ArenaUntouched
<1>3. ASSUME NEW p \in held, ~Owns(p), capacity > 0, ToHeap(p) PROVE ArenaInv'
  <2>1. /\ heap_live' = heap_live \ {p} /\ held' = held \ {p}
        /\ UNCHANGED <<capacity, freelist, slot_word>>
    BY <1>3 DEF ToHeap
  <2>2. p \notin InArena
    BY <1>3, ArenaSize DEF ArenaInv, Owns, InArena
  <2>3. heap_live' \subseteq HeapBlock /\ held' = InArena \cup heap_live'
    BY <1>1, <2>1, <2>2
  <2> QED BY <2>1, <2>3, ArenaUntouched
<1>4. CASE UNCHANGED arenaVars
  BY <1>1, <1>4, ArenaUntouched DEF arenaVars
<1>5. CASE InitArena
  BY <1>5, ArenaInitialised
<1>6. CASE capacity > 0 /\ FromArena
  BY <1>6, ArenaTaken
<1>7. ASSUME capacity > 0, NEW p, DeallocateNode(p) PROVE ArenaInv'
  BY <1>3, <1>7, ArenaReturned DEF DeallocateNode
<1> QED BY <1>2, <1>4, <1>5, <1>6, <1>7 DEF ArenaNext, AllocateNodes

LEMMA ArenaIsSound == ArenaInv => ArenaSound
<1> SUFFICES ASSUME ArenaInv PROVE ArenaSound
  OBVIOUS
<1>1. held = InArena \cup heap_live /\ heap_live \subseteq HeapBlock
  BY DEF ArenaInv
<1>2. SUFFICES ASSUME capacity > 0
               PROVE  LET on == {k \in DOMAIN FreeChain : FreeChain[k] # NoSlot}
                      IN  /\ {FreeChain[k] : k \in on} = ArenaSlot \ held
                          /\ Cardinality(on) = Cardinality(ArenaSlot \ held)
  BY <1>1 DEF ArenaSound, InArena
<1>3. /\ ArenaSlots \in Nat \ {0} /\ ArenaSlot = 1 .. ArenaSlots
      /\ Cardinality(ArenaSlot) = ArenaSlots
  BY ArenaSize
<1>4. ArenaSlot \ held = ArenaSlot \ InArena
  BY <1>1, AddressAssumption
<1> PICK h, w, S, at : /\ h = freelist /\ w = slot_word /\ S = ArenaSlot \ InArena
                       /\ at = FreeChain
  OBVIOUS
<1>5. PICK n : Threads(n, ArenaSlots, NoSlot, h, w, S)
  BY <1>2 DEF ArenaInv
<1>6. at = Reading(ArenaSlots, NoSlot, h, w)
  BY <1>3 DEF Reading, Follows, FreeChain
<1>7. Reads(at, n, ArenaSlots, NoSlot, S)
  <2>1. ArenaSlots \in Nat
    BY <1>3
  <2>2. NoSlot \notin 1 .. ArenaSlots
    BY <1>3, AddressAssumption
  <2> QED BY <1>5, <1>6, <2>1, <2>2, ReadThreads, Zenon
<1> QED BY <1>4, <1>7 DEF Reads

(* A node a map holds is a slot in use of the arena or a live block of the    *)
(* heap, whichever it came from and wherever it is freed, and the rest of the *)
(* arena is its freelist, every slot once: for any sizes and alignments, also *)
(* when the map allocated before init().                                      *)
THEOREM ArenaKeepsItsOwn == MCSpec => []ArenaSound
<1>1. MCInit => ArenaInv
  BY ArenaStart DEF MCInit
<1> QED BY <1>1, ArenaIsSound, Alone, ArenaStep, PTL DEF MCSpec


(* ------------------------------- Rational -------------------------------- *)

LEMMA Divides ==
    ASSUME NEW n \in Int, NEW g \in Nat \ {0}, n % g = 0
    PROVE  n \div g \in Int /\ n = g * (n \div g)
OBVIOUS

LEMMA GcdDivides ==
    ASSUME NEW n \in Int, NEW d \in Nat \ {0}
    PROVE  Gcd(n, d) \in 1 .. d /\ n % Gcd(n, d) = 0 /\ d % Gcd(n, d) = 0
<1> DEFINE S == {k \in 1 .. d : n % k = 0 /\ d % k = 0}
           T == {m \in Nat : \E k \in S : m = d - k}
<1>1. n % 1 = 0 /\ d % 1 = 0
  OBVIOUS
<1>2. 1 \in S /\ S \subseteq 1 .. d
  BY <1>1
<1> HIDE DEF S
<1>3. \A k \in S : d - k \in Nat
  BY <1>2
<1>4. T # {} /\ T \subseteq Nat
  BY <1>2, <1>3
<1>5. PICK x \in T : \A y \in T : <<y, x>> \notin OpToRel(<, Nat)
  <2> HIDE DEF T
  <2> QED BY <1>4, WFMin, NatLessThanWellFounded, Zenon
<1>6. \A y \in T : ~(y < x)
  <2> HIDE DEF T
  <2> QED BY <1>4, <1>5, Zenon DEF OpToRel
<1>7. PICK k \in S : x = d - k
  OBVIOUS
<1>8. \A j \in S : k >= j
  BY <1>2, <1>3, <1>6, <1>7
<1>9. Max(S) \in S
  BY <1>8 DEF Max
<1> QED BY <1>9 DEF Gcd, S

(* r is the rational number x / D.                                            *)
Is(r, x, D) ==
    /\ r.num \in Int /\ r.den \in Nat \ {0} /\ x \in Int /\ D \in Nat \ {0}
    /\ r.num * D = x * r.den

LEMMA RatioIs ==
    ASSUME NEW n \in Int, NEW d \in Nat \ {0}
    PROVE  Is(Ratio(n, d), n, d)
<1> DEFINE g == Gcd(n, d)
<1>1. g \in Nat \ {0} /\ n % g = 0 /\ d % g = 0
  BY GcdDivides
<1> HIDE DEF g
<1>2. PICK p \in Int, q \in Int : p = n \div g /\ q = d \div g /\ n = g * p /\ d = g * q
  BY <1>1, Divides
<1>3. q > 0
  BY <1>1, <1>2
<1>4. Ratio(n, d).num = p /\ Ratio(n, d).den = q
  BY <1>2 DEF Ratio, g
<1>5. p * (g * q) = (g * p) * q
  BY <1>1
<1> QED BY <1>2, <1>3, <1>4, <1>5 DEF Is


LEMMA Cancel ==
    ASSUME NEW a \in Int, NEW b \in Int, NEW c \in Nat \ {0}
    PROVE  (a * c <= b * c <=> a <= b) /\ (a * c = b * c <=> a = b)
<1>1. a < b => a * c < b * c
  <2> SUFFICES ASSUME a < b PROVE a * c < b * c
    OBVIOUS
  <2>1. (b - a) * c > 0
    OBVIOUS
  <2>2. (b - a) * c = b * c - a * c
    OBVIOUS
  <2> QED BY <2>1, <2>2
<1>2. b < a => b * c < a * c
  <2> SUFFICES ASSUME b < a PROVE b * c < a * c
    OBVIOUS
  <2>1. (a - b) * c > 0
    OBVIOUS
  <2>2. (a - b) * c = a * c - b * c
    OBVIOUS
  <2> QED BY <2>1, <2>2
<1>3. a * c \in Int /\ b * c \in Int
  OBVIOUS
<1> QED BY <1>1, <1>2, <1>3

LEMMA RatioIsOver ==
    ASSUME NEW n \in Int, NEW d \in Nat \ {0}, NEW x \in Int, NEW D \in Nat \ {0},
           n * D = x * d
    PROVE  Is(Ratio(n, d), x, D)
<1> PICK p, q : p = Ratio(n, d).num /\ q = Ratio(n, d).den
  OBVIOUS
<1>1. p \in Int /\ q \in Nat \ {0} /\ p * d = n * q
  BY RatioIs DEF Is
<1>2. (p * D) * d = (x * q) * d
  <2>1. (p * D) * d = (p * d) * D
    BY <1>1
  <2>2. (p * d) * D = (n * q) * D
    BY <1>1
  <2>3. (n * q) * D = (n * D) * q
    BY <1>1
  <2>4. (n * D) * q = (x * d) * q
    OBVIOUS
  <2>5. (x * d) * q = (x * q) * d
    BY <1>1
  <2> QED BY <2>1, <2>2, <2>3, <2>4, <2>5
<1>3. p * D \in Int /\ x * q \in Int
  BY <1>1
<1>4. p * D = x * q
  <2> PICK u \in Int, v \in Int : u = p * D /\ v = x * q
    BY <1>3
  <2>1. u * d = v * d
    BY <1>2
  <2> QED BY <2>1, Cancel
<1> QED BY <1>1, <1>4 DEF Is

LEMMA IsWhole ==
    ASSUME NEW k \in Int, NEW D \in Nat \ {0}
    PROVE  Is(Whole(k), k * D, D)
BY DEF Is, Whole

LEMMA IsSum ==
    ASSUME NEW a, NEW b, NEW x, NEW y, NEW D, Is(a, x, D), Is(b, y, D)
    PROVE  Is(a ++ b, x + y, D) /\ Is(a -- b, x - y, D)
<1> PICK p, q, r, s : p = a.num /\ q = a.den /\ r = b.num /\ s = b.den
  OBVIOUS
<1>1. /\ p \in Int /\ q \in Nat \ {0} /\ r \in Int /\ s \in Nat \ {0}
      /\ x \in Int /\ y \in Int /\ D \in Nat \ {0}
      /\ p * D = x * q /\ r * D = y * s
  BY DEF Is
<1>2. q * s \in Nat \ {0} /\ p * s + r * q \in Int /\ p * s - r * q \in Int
      /\ x + y \in Int /\ x - y \in Int
  BY <1>1
<1>3. (p * s) * D = (x * q) * s /\ (r * q) * D = (y * s) * q
  <2>1. (p * s) * D = (p * D) * s /\ (r * q) * D = (r * D) * q
    BY <1>1
  <2> QED BY <1>1, <2>1
<1>4. (x * q) * s = x * (q * s) /\ (y * s) * q = y * (q * s)
  BY <1>1
<1>5. /\ (p * s + r * q) * D = (p * s) * D + (r * q) * D
      /\ (p * s - r * q) * D = (p * s) * D - (r * q) * D
      /\ (x + y) * (q * s) = x * (q * s) + y * (q * s)
      /\ (x - y) * (q * s) = x * (q * s) - y * (q * s)
  BY <1>1, <1>2
<1>6. /\ (p * s + r * q) * D = (x + y) * (q * s)
      /\ (p * s - r * q) * D = (x - y) * (q * s)
  BY <1>3, <1>4, <1>5
<1>7. Is(Ratio(p * s + r * q, q * s), x + y, D) /\ Is(Ratio(p * s - r * q, q * s), x - y, D)
  <2> PICK u, v, n, m : u = p * s + r * q /\ v = p * s - r * q /\ n = q * s /\ m = x + y
    OBVIOUS
  <2>1. Is(Ratio(u, n), x + y, D)
    BY <1>1, <1>2, <1>6, RatioIsOver
  <2>2. Is(Ratio(v, n), x - y, D)
    BY <1>1, <1>2, <1>6, RatioIsOver
  <2> QED BY <2>1, <2>2
<1> QED BY <1>7 DEF ++, --

LEMMA IsScaled ==
    ASSUME NEW a, NEW x, NEW D, Is(a, x, D), NEW k \in Int
    PROVE  Is(a ** Whole(k), k * x, D) /\ Is(Whole(k) ** a, k * x, D)
<1> PICK p, q : p = a.num /\ q = a.den
  OBVIOUS
<1>1. p \in Int /\ q \in Nat \ {0} /\ x \in Int /\ D \in Nat \ {0} /\ p * D = x * q
  BY DEF Is
<1>2. (p * k) * D = (k * x) * q /\ p * k \in Int /\ k * x \in Int
  <2>1. (p * k) * D = (p * D) * k /\ (x * q) * k = (k * x) * q
    BY <1>1
  <2> QED BY <1>1, <2>1
<1>3. Is(Ratio(p * k, q), k * x, D)
  <2> PICK u, z : u = p * k /\ z = k * x
    OBVIOUS
  <2>1. u \in Int /\ z \in Int /\ u * D = z * q
    BY <1>2
  <2>2. Is(Ratio(u, q), z, D)
    BY <1>1, <2>1, RatioIsOver
  <2> QED BY <2>2
<1>4. q * 1 = q /\ 1 * q = q /\ k * p = p * k
  BY <1>1
<1> QED BY <1>3, <1>4 DEF **, Whole

(* Comparing over a common denominator.                                       *)
LEMMA IsAtMost ==
    ASSUME NEW a, NEW b, NEW x, NEW y, NEW D, Is(a, x, D), Is(b, y, D)
    PROVE  AtMost(a, b) <=> x <= y
<1> PICK p, q, r, s : p = a.num /\ q = a.den /\ r = b.num /\ s = b.den
  OBVIOUS
<1>1. /\ p \in Int /\ q \in Nat \ {0} /\ r \in Int /\ s \in Nat \ {0}
      /\ x \in Int /\ y \in Int /\ D \in Nat \ {0}
      /\ p * D = x * q /\ r * D = y * s
  BY DEF Is
<1>2. p * s \in Int /\ r * q \in Int /\ q * s \in Nat \ {0}
  BY <1>1
<1>3. (p * s) * D = x * (q * s) /\ (r * q) * D = y * (q * s)
  <2>1. (p * s) * D = (p * D) * s /\ (r * q) * D = (r * D) * q
    BY <1>1
  <2>2. (x * q) * s = x * (q * s) /\ (y * s) * q = y * (q * s)
    BY <1>1
  <2> QED BY <1>1, <2>1, <2>2
<1>4. p * s <= r * q <=> x <= y
  <2> PICK u, v, n : u = p * s /\ v = r * q /\ n = q * s
    OBVIOUS
  <2>1. u * D <= v * D <=> u <= v
    BY <1>1, <1>2, Cancel
  <2>2. x * n <= y * n <=> x <= y
    BY <1>1, <1>2, Cancel
  <2> QED BY <1>3, <2>1, <2>2
<1> QED BY <1>4 DEF AtMost


(* -------------------------------- Signals -------------------------------- *)

LEMMA BookNumbers ==
    ASSUME NEW b \in Books
    PROVE  /\ b.best_bid \in Nat /\ b.best_ask \in Nat
           /\ b.bid_volume \in Nat /\ b.ask_volume \in Nat
           /\ TwoSided(b) => b.best_bid < b.best_ask
<1>1. \A q \in BookQuote : q.price \in Nat /\ q.volume \in Nat
  <2>1. \A p \in QuotePrice : p \in Nat
    BY QuoteAssumption
  <2>2. \A v \in QuoteVolume : v \in Nat
    BY QuoteAssumption
  <2> QED BY <2>1, <2>2 DEF BookQuote
<1>2. PICK x \in BookQuote, y \in BookQuote : b = BookState(x.price, x.volume, y.price, y.volume)
  BY DEF Books
<1>3. TwoSided(b) => b.best_bid < b.best_ask
  BY DEF Books
<1> QED BY <1>1, <1>2, <1>3 DEF BookState

LEMMA MicroPrice ==
    ASSUME NEW b \in Books
    PROVE  MicroPriceLeans(b)
<1> PICK P, v, A, w : P = b.best_bid /\ v = b.bid_volume /\ A = b.best_ask /\ w = b.ask_volume
  OBVIOUS
<1>1. SUFFICES ASSUME TwoSided(b), v + w < VolumeMod
               PROVE  LET micro == calculate_micro_price(b)
                      IN  /\ AtMost(Whole(P), micro) /\ AtMost(micro, Whole(A))
                          /\ (v >= w) <=> AtMost(Whole(P + A), micro ** Whole(2))
  BY DEF MicroPriceLeans
<1>2. P \in Nat /\ A \in Nat /\ v \in Nat \ {0} /\ w \in Nat \ {0} /\ P < A
  BY <1>1, BookNumbers DEF TwoSided
<1> PICK D, x : D = v + w /\ x = v * A + w * P
  OBVIOUS
<1>3. D \in Nat \ {0} /\ x \in Int
  BY <1>2
<1>4. D % VolumeMod # 0
  <2>1. VolumeMod \in Nat \ {0} /\ D < VolumeMod
    BY <1>1, QuoteAssumption
  <2>2. D % VolumeMod = D
    BY <1>3, <2>1
  <2> QED BY <1>3, <2>2
<1>5. calculate_micro_price(b) = Ratio(x, D)
  BY <1>4 DEF calculate_micro_price
<1> PICK m : m = Ratio(x, D)
  OBVIOUS
<1>6. Is(m, x, D) /\ Is(Whole(P), P * D, D) /\ Is(Whole(A), A * D, D)
      /\ Is(Whole(P + A), (P + A) * D, D) /\ Is(m ** Whole(2), 2 * x, D)
  <2>1. P \in Int /\ A \in Int /\ P + A \in Int /\ 2 \in Int
    BY <1>2
  <2>2. Is(m, x, D)
    BY <1>3, RatioIs
  <2>3. Is(Whole(P), P * D, D) /\ Is(Whole(A), A * D, D)
    BY <1>3, <2>1, IsWhole
  <2>4. Is(Whole(P + A), (P + A) * D, D)
    BY <1>3, <2>1, IsWhole
  <2>5. Is(m ** Whole(2), 2 * x, D)
    BY <2>1, <2>2, IsScaled
  <2> QED BY <2>2, <2>3, <2>4, <2>5
<1>7. /\ AtMost(Whole(P), m) <=> P * D <= x
      /\ AtMost(m, Whole(A)) <=> x <= A * D
      /\ AtMost(Whole(P + A), m ** Whole(2)) <=> (P + A) * D <= 2 * x
  BY <1>6, IsAtMost
<1>8. /\ x - P * D = v * (A - P) /\ A * D - x = w * (A - P)
      /\ 2 * x - (P + A) * D = (v - w) * (A - P)
  BY <1>2
<1>9. v * (A - P) > 0 /\ w * (A - P) > 0
  BY <1>2
<1>10. v >= w <=> 0 <= (v - w) * (A - P)
  <2>1. A - P \in Nat \ {0} /\ v - w \in Int /\ 0 * (A - P) = 0
    BY <1>2
  <2>2. 0 * (A - P) <= (v - w) * (A - P) <=> 0 <= v - w
    <3> PICK c, d : c = A - P /\ d = v - w
      OBVIOUS
    <3>1. 0 * c <= d * c <=> 0 <= d
      BY <2>1, Cancel
    <3> QED BY <3>1
  <2> QED BY <1>2, <2>1, <2>2
<1>11. P * D \in Int /\ A * D \in Int /\ (P + A) * D \in Int
  BY <1>2, <1>3
<1>12. /\ P * D <= x /\ x <= A * D
       /\ (P + A) * D <= 2 * x <=> v >= w
  BY <1>3, <1>8, <1>9, <1>10, <1>11
<1> QED BY <1>5, <1>7, <1>12

(* What the engine remembers is the last tick.                                *)
SignalInv ==
    /\ tick \in Books \cup {NoTick}
    /\ before \in Books \cup {NoTick}
    /\ has_prev <=> tick # NoTick
    /\ has_prev => prev_state = tick
    /\ tick # NoTick => ofi = IF before = NoTick THEN 0 ELSE OrderFlow(tick, before)

LEMMA EmptySides ==
    ASSUME NEW b \in Books
    PROVE  (b.bid_volume = 0 <=> b.best_bid = 0) /\ (b.ask_volume = 0 <=> b.best_ask = 0)
<1>1. \A q \in BookQuote : q.volume = 0 <=> q.price = 0
  <2>1. \A p \in QuotePrice : p # 0
    BY QuoteAssumption
  <2>2. \A v \in QuoteVolume : v # 0
    BY QuoteAssumption
  <2> QED BY <2>1, <2>2 DEF BookQuote
<1>2. PICK x \in BookQuote, y \in BookQuote : b = BookState(x.price, x.volume, y.price, y.volume)
  BY DEF Books
<1> QED BY <1>1, <1>2 DEF BookState

LEMMA FlowIsOrderFlow ==
    ASSUME NEW b \in Books, NEW p \in Books
    PROVE  BidFlow(b, p) + AskFlow(b, p) = OrderFlow(b, p)
<1> PICK hi : hi = IF b.best_bid > p.best_bid THEN b.best_bid ELSE p.best_bid
  OBVIOUS
<1> PICK lo : lo = IF b.best_ask < p.best_ask THEN b.best_ask ELSE p.best_ask
  OBVIOUS
<1>1. BidFlow(b, p) = BidsAt(b, hi) - BidsAt(p, hi)
  BY BookNumbers DEF BidFlow, BidsAt
<1>2. AskFlow(b, p) = 0 - (IF Asks(b) /\ Asks(p) THEN AsksAt(b, lo) - AsksAt(p, lo) ELSE 0)
  <2>1. CASE Asks(b) /\ Asks(p)
    BY <2>1, BookNumbers DEF AskFlow, AsksAt
  <2>2. CASE b.ask_volume = 0
    <3>1. /\ b.best_ask = 0 /\ p.best_ask \in Nat /\ p.ask_volume \in Nat
          /\ p.best_ask = 0 => p.ask_volume = 0
      BY <2>2, EmptySides, BookNumbers
    <3>2. -b.ask_volume = 0
      <4>1. \A x \in Int : -x = 0 - x
        OBVIOUS
      <4>2. b.ask_volume \in Int /\ 0 - b.ask_volume = 0
        BY <2>2
      <4> QED BY <4>1, <4>2, Zenon
    <3>3. AskFlow(b, p) = 0
      BY <2>2, <3>1, <3>2 DEF AskFlow
    <3>4. ~Asks(b)
      BY <2>2 DEF Asks
    <3>5. 0 - 0 = 0
      OBVIOUS
    <3> QED BY <3>3, <3>4, <3>5, Zenon
  <2>3. CASE p.ask_volume = 0
    <3>1. /\ p.best_ask = 0 /\ b.best_ask \in Nat /\ b.ask_volume \in Nat
          /\ b.best_ask = 0 => b.ask_volume = 0
      BY <2>3, EmptySides, BookNumbers
    <3>2. AskFlow(b, p) = 0
      BY <2>3, <3>1 DEF AskFlow
    <3>3. ~Asks(p)
      BY <2>3 DEF Asks
    <3>4. 0 - 0 = 0
      OBVIOUS
    <3> QED BY <3>2, <3>3, <3>4, Zenon
  <2> QED BY <2>1, <2>2, <2>3, BookNumbers DEF Asks
<1>3. BidsAt(b, hi) \in Int /\ BidsAt(p, hi) \in Int /\ AsksAt(b, lo) \in Int /\ AsksAt(p, lo) \in Int
  BY BookNumbers DEF BidsAt, AsksAt
<1> QED BY <1>1, <1>2, <1>3 DEF OrderFlow

LEMMA SignalStep == SignalInv /\ [SignalNext]_signalVars => SignalInv'
<1> SUFFICES ASSUME SignalInv, [SignalNext]_signalVars PROVE SignalInv'
  OBVIOUS
<1>1. ASSUME NEW b \in Books, update_and_get_ofi(b) PROVE SignalInv'
  <2>1. /\ ofi' = IF has_prev THEN BidFlow(b, prev_state) + AskFlow(b, prev_state) ELSE 0
        /\ prev_state' = b /\ has_prev' = TRUE /\ before' = tick /\ tick' = b
    BY <1>1 DEF update_and_get_ofi
  <2>2. b # NoTick
    BY TickAssumption
  <2>3. CASE tick = NoTick
    BY <2>1, <2>2, <2>3 DEF SignalInv
  <2>4. CASE tick # NoTick
    <3>1. tick \in Books /\ prev_state = tick /\ has_prev
      BY <2>4 DEF SignalInv
    <3>2. BidFlow(b, tick) + AskFlow(b, tick) = OrderFlow(b, tick)
      BY <3>1, FlowIsOrderFlow
    <3>3. ofi' = OrderFlow(b, tick)
      BY <2>1, <3>1, <3>2
    <3>4. OrderFlow(tick, before)' = OrderFlow(b, tick)
      BY <2>1 DEF OrderFlow
    <3> QED BY <2>1, <2>2, <2>4, <3>1, <3>3, <3>4 DEF SignalInv
  <2> QED BY <2>3, <2>4
<1>2. CASE UNCHANGED signalVars
  BY <1>2 DEF signalVars, SignalInv, OrderFlow
<1> QED BY <1>1, <1>2 DEF SignalNext

(* The imbalance returned is that of this tick and the one just before it,    *)
(* never of an older book, and the micro price lies between the quotes and    *)
(* leans towards the side with less volume, for any prices and volumes whose  *)
(* sum does not wrap.                                                         *)
THEOREM SignalsAreSound == MCSpec => []SignalsSound
<1>1. MCInit => SignalInv
  BY DEF MCInit, SignalInit, SignalInv
<1>2. SignalInv => SignalsSound
  BY MicroPrice DEF SignalInv, SignalsSound
<1> QED BY <1>1, <1>2, Alone, SignalStep, PTL DEF MCSpec


(* ------------------------------- Portfolio ------------------------------- *)

LEMMA IsDivided ==
    ASSUME NEW a, NEW x, NEW D, Is(a, x, D), NEW k \in Nat \ {0}
    PROVE  Is(a // k, x, D * k)
<1> PICK p, q : p = a.num /\ q = a.den
  OBVIOUS
<1>1. p \in Int /\ q \in Nat \ {0} /\ x \in Int /\ D \in Nat \ {0} /\ p * D = x * q
  BY DEF Is
<1>2. q * k \in Nat \ {0} /\ D * k \in Nat \ {0}
  BY <1>1
<1>3. p * (D * k) = x * (q * k)
  <2>1. p * (D * k) = (p * D) * k /\ x * (q * k) = (x * q) * k
    BY <1>1
  <2> QED BY <1>1, <2>1
<1>4. Is(Ratio(p, q * k), x, D * k)
  <2> PICK u, E : u = q * k /\ E = D * k
    OBVIOUS
  <2>1. Is(Ratio(p, u), x, E)
    BY <1>1, <1>2, <1>3, RatioIsOver
  <2> QED BY <2>1
<1> QED BY <1>4 DEF //

(* The conversion to an integer loses less than one, and nothing when the     *)
(* profit is a whole number that no rounding has touched.                     *)
LEMMA Truncated ==
    ASSUME NEW p \in Int, NEW q \in Nat \ {0}
    PROVE  LET t == IF p < 0 THEN -(-p \div q) ELSE p \div q
           IN  /\ t \in Int /\ -q <= p - t * q /\ p - t * q <= q
               /\ q = 1 => t = p
<1>1. CASE p < 0
  <2> PICK m : m = -p
    OBVIOUS
  <2>1. m \in Nat /\ m \div q \in Int /\ m % q \in 0 .. q - 1 /\ m = q * (m \div q) + (m % q)
    BY <1>1
  <2> PICK d, r : d = m \div q /\ r = m % q
    OBVIOUS
  <2>2. d \in Int /\ r \in 0 .. q - 1 /\ m = q * d + r /\ (-d) * q = -(q * d)
    BY <2>1
  <2>3. /\ -d \in Int /\ -q <= p - (-d) * q /\ p - (-d) * q <= q
        /\ q = 1 => -d = p
    BY <2>2
  <2> QED BY <1>1, <2>3
<1>2. CASE ~(p < 0)
  <2>1. p \in Nat /\ p \div q \in Int /\ p % q \in 0 .. q - 1 /\ p = q * (p \div q) + (p % q)
    BY <1>2
  <2> PICK d, r : d = p \div q /\ r = p % q
    OBVIOUS
  <2>2. d \in Int /\ r \in 0 .. q - 1 /\ p = q * d + r /\ d * q = q * d
    BY <2>1
  <2>3. /\ d \in Int /\ -q <= p - d * q /\ p - d * q <= q
        /\ q = 1 => d = p
    BY <2>2
  <2> QED BY <1>2, <2>3
<1> QED BY <1>1, <1>2

LEMMA Gained ==
    ASSUME NEW y, NEW z, NEW D, Is(y, z, D), NEW g \in ToInt64(y)
    PROVE  /\ g \in Int /\ g * D \in Int /\ -D <= z - g * D /\ z - g * D <= D
           /\ ~Inexact(y) => z = g * D
<1> PICK p, q, t : p = y.num /\ q = y.den /\ t = Truncate(y)
  OBVIOUS
<1>1. p \in Int /\ q \in Nat \ {0} /\ z \in Int /\ D \in Nat \ {0} /\ p * D = z * q
  BY DEF Is
<1>2. /\ t \in Int /\ -q <= p - t * q /\ p - t * q <= q
      /\ q = 1 => t = p
  <2>1. t = IF p < 0 THEN -(-p \div q) ELSE p \div q
    BY DEF Truncate
  <2> QED BY <1>1, <2>1, Truncated
<1>3. t * D \in Int /\ z - t * D \in Int /\ p - t * q \in Int /\ -D \in Int /\ -q \in Int
  BY <1>1, <1>2
<1>4. (z - t * D) * q = (p - t * q) * D
  <2>1. (z - t * D) * q = z * q - (t * D) * q /\ (p - t * q) * D = p * D - (t * q) * D
    BY <1>1, <1>2
  <2>2. (t * D) * q = (t * q) * D
    BY <1>1, <1>2
  <2> QED BY <1>1, <2>1, <2>2
<1>5. -D <= z - t * D /\ z - t * D <= D
  <2> PICK e, f : e = z - t * D /\ f = p - t * q
    OBVIOUS
  <2>1. e \in Int /\ f \in Int /\ e * q = f * D /\ -q <= f /\ f <= q
    BY <1>2, <1>3, <1>4
  <2>2. (-q) * D <= f * D /\ f * D <= q * D
    BY <1>1, <1>3, <2>1, Cancel
  <2>3. (-q) * D = (-D) * q /\ q * D = D * q
    BY <1>1
  <2>4. (-D) * q <= e * q /\ e * q <= D * q
    BY <2>1, <2>2, <2>3
  <2>5. -D <= e /\ e <= D
    BY <1>1, <1>3, <2>1, <2>4, Cancel
  <2> QED BY <2>5
<1>6. q = 1 => z = t * D
  BY <1>1, <1>2
<1>7. CASE g = t
  BY <1>2, <1>3, <1>5, <1>6, <1>7 DEF Inexact
<1>8. CASE g # t
  <2>1. rounded /\ q = 1 /\ (g = t - 1 \/ g = t + 1)
    BY <1>8 DEF ToInt64
  <2>2. z = t * D /\ g \in Int
    BY <1>2, <1>6, <2>1
  <2>3. g * D = t * D - D \/ g * D = t * D + D
    BY <1>1, <1>2, <2>1
  <2> QED BY <1>1, <1>3, <2>1, <2>2, <2>3 DEF Inexact
<1> QED BY <1>7, <1>8

(* The books balance up to the truncations: cash and the position at its      *)
(* average price against the realized profit, all over a denominator D.       *)
Balanced(c, n, r, T, x, D) ==
    LET error == c * D + n * x - r * D
    IN  -(T * D) <= error /\ error <= T * D
PortfolioInv ==
    /\ net_position \in Int /\ realized_pnl \in Int /\ unrealized_pnl \in Int
    /\ cash \in Int /\ truncations \in Nat
    /\ \E x, D : /\ Is(average_open_price, x, D)
                 /\ Balanced(cash, net_position, realized_pnl, truncations, x, D)
    /\ TotalIsMarkedToMarket

LEMMA PortfolioStart == PortfolioInit => PortfolioInv
<1> SUFFICES ASSUME PortfolioInit PROVE PortfolioInv
  OBVIOUS
<1>1. Is(average_open_price, 0, 1)
  BY DEF PortfolioInit, Is, Whole
<1>2. Balanced(cash, net_position, realized_pnl, truncations, 0, 1)
  BY DEF PortfolioInit, Balanced
<1> QED BY <1>1, <1>2 DEF PortfolioInit, PortfolioInv, TotalIsMarkedToMarket

LEMMA ProfitIs ==
    ASSUME NEW x, NEW D, Is(average_open_price, x, D), net_position \in Int,
           NEW price \in Int, NEW k \in Nat
    PROVE  Is(Profit(price, k), (IF net_position > 0 THEN k ELSE -k) * (price * D - x), D)
<1> PICK a : a = average_open_price
  OBVIOUS
<1>1. Is(Whole(price), price * D, D) /\ x \in Int /\ D \in Nat \ {0}
  BY IsWhole DEF Is
<1>2. Is(a, x, D)
  OBVIOUS
<1>3. Is(Whole(price) -- a, price * D - x, D) /\ Is(a -- Whole(price), x - price * D, D)
  BY <1>1, <1>2, IsSum
<1>4. /\ Is((Whole(price) -- a) ** Whole(k), k * (price * D - x), D)
      /\ Is((a -- Whole(price)) ** Whole(k), k * (x - price * D), D)
  BY <1>3, IsScaled
<1>5. k * (x - price * D) = (-k) * (price * D - x)
  BY <1>1
<1> QED BY <1>4, <1>5 DEF Profit


LEMMA BalanceOpen ==
    ASSUME NEW c \in Int, NEW r \in Int, NEW T \in Nat, NEW x \in Int, NEW D \in Nat \ {0},
           NEW f \in Int, NEW p \in Int, Balanced(c, 0, r, T, x, D)
    PROVE  Balanced(c - f * p, f, r, T, p * D, D)
<1>1. (c - f * p) * D + f * (p * D) - r * D = c * D + 0 * x - r * D
  OBVIOUS
<1> QED BY <1>1 DEF Balanced

LEMMA BalanceAdd ==
    ASSUME NEW c \in Int, NEW n \in Int, NEW r \in Int, NEW T \in Nat, NEW x \in Int,
           NEW D \in Nat \ {0}, NEW f \in Int, NEW p \in Int, Balanced(c, n, r, T, x, D),
           NEW s \in {1, -1}, s * (n + f) > 0
    PROVE  Balanced(c - f * p, n + f, r, T, s * (n * x + (f * p) * D), D * (s * (n + f)))
<1> PICK k : k = s * (n + f)
  OBVIOUS
<1> PICK e : e = c * D + n * x - r * D
  OBVIOUS
<1>1. k \in Nat \ {0} /\ e \in Int /\ T * D \in Int
  OBVIOUS
<1>2. -(T * D) <= e /\ e <= T * D
  BY DEF Balanced
<1>3. (c - f * p) * (D * k) + (n + f) * (s * (n * x + (f * p) * D)) - r * (D * k) = e * k
  <2>1. CASE s = 1
    <3>1. k = n + f
      BY <2>1
    <3>2. (c - f * p) * (D * (n + f)) + (n + f) * (1 * (n * x + (f * p) * D)) - r * (D * (n + f))
            = (c * D + n * x - r * D) * (n + f)
      OBVIOUS
    <3> QED BY <2>1, <3>1, <3>2
  <2>2. CASE s = -1
    <3>1. k = -(n + f)
      BY <2>2
    <3>2. (c - f * p) * (D * (-(n + f))) + (n + f) * ((-1) * (n * x + (f * p) * D))
            - r * (D * (-(n + f)))
            = (c * D + n * x - r * D) * (-(n + f))
      OBVIOUS
    <3> QED BY <2>2, <3>1, <3>2
  <2> QED BY <2>1, <2>2
<1>4. -(T * D) * k <= e * k /\ e * k <= (T * D) * k
  <2> PICK u : u = T * D
    OBVIOUS
  <2>1. -u <= e /\ e <= u /\ u \in Int /\ -u \in Int
    BY <1>1, <1>2
  <2>2. (-u) * k <= e * k /\ e * k <= u * k
    BY <1>1, <2>1, Cancel
  <2>3. (-u) * k = -u * k
    BY <1>1, <2>1
  <2> QED BY <2>2, <2>3
<1>5. -(T * D) * k = -(T * (D * k)) /\ (T * D) * k = T * (D * k)
  BY <1>1
<1> QED BY <1>3, <1>4, <1>5 DEF Balanced

(* Closing w units at p leaves the others at the average y / D; of the profit *)
(* z / D it makes, g is realized, up to a truncation that is counted.         *)
Closes(n, f, p, x, D, w, y) ==
    \/ w = -f /\ y = x
    \/ w = n /\ y = p * D
    \/ w = n /\ n + f = 0 /\ y = 0 * D
Yields(z, g, D, T, U) ==
    /\ -D <= z - g * D /\ z - g * D <= D
    /\ U = T + 1 \/ (U = T /\ z = g * D)

LEMMA BalanceRealize ==
    ASSUME NEW c \in Int, NEW n \in Int, NEW r \in Int, NEW T \in Nat, NEW x \in Int,
           NEW D \in Nat \ {0}, NEW f \in Int, NEW p \in Int, Balanced(c, n, r, T, x, D),
           NEW w \in Int, NEW y \in Int, NEW g \in Int, NEW U \in Nat,
           NEW u, u = w * (p * D - x), Closes(n, f, p, x, D, w, y), Yields(u, g, D, T, U)
    PROVE  Balanced(c - f * p, n + f, r + g, U, y, D)
<1>1. (c - f * p) * D + (n + f) * y - (r + g) * D
        = (c * D + n * x - r * D) + (w * (p * D - x) - g * D)
  <2>1. CASE w = -f /\ y = x
    <3>1. (c - f * p) * D + (n + f) * x - (r + g) * D
            = (c * D + n * x - r * D) + ((-f) * (p * D - x) - g * D)
      OBVIOUS
    <3> QED BY <2>1, <3>1
  <2>2. CASE w = n /\ y = p * D
    <3>1. (c - f * p) * D + (n + f) * (p * D) - (r + g) * D
            = (c * D + n * x - r * D) + (n * (p * D - x) - g * D)
      OBVIOUS
    <3> QED BY <2>2, <3>1
  <2>3. CASE w = n /\ n + f = 0 /\ y = 0 * D
    <3>1. f = -n /\ y = 0
      BY <2>3
    <3>2. (c - (-n) * p) * D + 0 - (r + g) * D
            = (c * D + n * x - r * D) + (n * (p * D - x) - g * D)
      OBVIOUS
    <3> QED BY <2>3, <3>1, <3>2
  <2> QED BY <2>1, <2>2, <2>3 DEF Closes
<1> PICK e, z, a : e = c * D + n * x - r * D /\ z = w * (p * D - x) - g * D /\ a = T * D
  OBVIOUS
<1>2. e \in Int /\ z \in Int /\ a \in Int /\ -a <= e /\ e <= a
  BY DEF Balanced
<1>3. U * D = a + D \/ (U * D = a /\ z = 0)
  BY <1>2 DEF Yields
<1>4. -(U * D) <= e + z /\ e + z <= U * D
  BY <1>2, <1>3 DEF Yields
<1> QED BY <1>1, <1>4 DEF Balanced


LEMMA PortfolioFill ==
    ASSUME PortfolioInv, NEW side \in {"Buy", "Sell"}, NEW price \in FillPrice,
           NEW qty \in FillQty, process_fill(side, price, qty)
    PROVE  PortfolioInv'
<1>1. /\ net_position \in Int /\ realized_pnl \in Int /\ unrealized_pnl \in Int
      /\ cash \in Int /\ truncations \in Nat
  BY DEF PortfolioInv
<1>2. PICK x, D : /\ Is(average_open_price, x, D)
                  /\ Balanced(cash, net_position, realized_pnl, truncations, x, D)
  BY DEF PortfolioInv
<1>3. x \in Int /\ D \in Nat \ {0} /\ price \in Int /\ qty \in Nat
  BY <1>2, PortfolioAssumption DEF Is
<1> PICK f, c, n, r, T, a : /\ f = (IF side = "Buy" THEN qty ELSE -qty) /\ c = cash
                            /\ n = net_position /\ r = realized_pnl /\ T = truncations
                            /\ a = average_open_price
  OBVIOUS
<1>4. f \in Int /\ c \in Int /\ n \in Int /\ r \in Int /\ T \in Nat
  BY <1>1, <1>3
<1>5. Is(a, x, D) /\ Balanced(c, n, r, T, x, D)
  BY <1>2
<1>6. /\ net_position' = n + f /\ cash' = c - f * price /\ mid' = Unmarked
      /\ unrealized_pnl' = unrealized_pnl
      /\ OpenPosition(price) \/ AddToPosition(f, price) \/ ReduceOrFlip(f, price)
  BY DEF process_fill
<1>7. /\ net_position' \in Int /\ cash' \in Int /\ unrealized_pnl' \in Int
      /\ TotalIsMarkedToMarket'
  BY <1>1, <1>3, <1>4, <1>6 DEF TotalIsMarkedToMarket
<1>8. SUFFICES /\ realized_pnl' \in Int /\ truncations' \in Nat
               /\ \E y, E : Is(average_open_price', y, E)
                            /\ Balanced(c - f * price, n + f, realized_pnl', truncations', y, E)
  BY <1>6, <1>7 DEF PortfolioInv
<1>9. CASE OpenPosition(price)
  <2>1. /\ n = 0 /\ average_open_price' = Whole(price)
        /\ realized_pnl' = r /\ truncations' = T
    BY <1>9 DEF OpenPosition, OpensPosition, realizedVars
  <2>2. Balanced(c, 0, r, T, x, D)
    BY <1>5, <2>1
  <2>3. Is(average_open_price', price * D, D)
    BY <1>3, <2>1, IsWhole
  <2>4. Balanced(c - f * price, f, r, T, price * D, D)
    BY <1>3, <1>4, <2>2, BalanceOpen
  <2>5. n + f = f
    BY <1>4, <2>1
  <2> QED BY <1>4, <2>1, <2>3, <2>4, <2>5
<1>10. CASE AddToPosition(f, price)
  <2>1. /\ (n > 0 /\ f > 0) \/ (n < 0 /\ f < 0)
        /\ realized_pnl' = r /\ truncations' = T
        /\ average_open_price' = ((Whole(Abs(n)) ** a) ++ Whole(Abs(f) * price))
                                 // (Abs(n) + Abs(f))
    BY <1>10 DEF AddToPosition, AddsTo, realizedVars
  <2>2. PICK s \in {1, -1} : s = IF n > 0 THEN 1 ELSE -1
    OBVIOUS
  <2>3. /\ Abs(n) \in Int /\ Abs(f) * price \in Int
        /\ Abs(n) + Abs(f) = s * (n + f) /\ s * (n + f) \in Nat \ {0} /\ s * (n + f) > 0
        /\ Abs(n) * x + (Abs(f) * price) * D = s * (n * x + (f * price) * D)
    <3>1. CASE n > 0 /\ f > 0
      BY <1>3, <1>4, <2>2, <3>1 DEF Abs
    <3>2. CASE n < 0 /\ f < 0
      <4>1. Abs(n) = -n /\ Abs(f) = -f /\ s = -1
        BY <1>4, <2>2, <3>2 DEF Abs
      <4>2. (-n) * x + ((-f) * price) * D = (-1) * (n * x + (f * price) * D)
        BY <1>3, <1>4
      <4>3. /\ (-n) \in Int /\ (-f) * price \in Int
            /\ (-n) + (-f) = (-1) * (n + f) /\ (-1) * (n + f) \in Nat \ {0}
            /\ (-1) * (n + f) > 0
        BY <1>3, <1>4, <3>2
      <4> QED BY <4>1, <4>2, <4>3
    <3> QED BY <2>1, <3>1, <3>2
  <2> PICK m, j, k : m = Abs(n) /\ j = Abs(f) * price /\ k = s * (n + f)
    OBVIOUS
  <2>4. m \in Int /\ j \in Int /\ k \in Nat \ {0}
    BY <2>3
  <2>5. Is(Whole(m) ** a, m * x, D) /\ Is(Whole(j), j * D, D)
    BY <1>3, <1>5, <2>4, IsScaled, IsWhole
  <2>6. Is((Whole(m) ** a) ++ Whole(j), m * x + j * D, D)
    BY <2>5, IsSum
  <2>7. Is(((Whole(m) ** a) ++ Whole(j)) // k, m * x + j * D, D * k)
    BY <2>4, <2>6, IsDivided
  <2>8. Is(average_open_price', s * (n * x + (f * price) * D), D * (s * (n + f)))
    BY <2>1, <2>3, <2>7
  <2>9. Balanced(c - f * price, n + f, r, T, s * (n * x + (f * price) * D), D * (s * (n + f)))
    BY <1>3, <1>4, <1>5, <2>3, BalanceAdd
  <2> QED BY <1>4, <2>1, <2>8, <2>9
<1>11. CASE ReduceOrFlip(f, price)
  <2>1. n # 0 /\ ~((n > 0 /\ f > 0) \/ (n < 0 /\ f < 0))
    BY <1>11 DEF ReduceOrFlip, OpensPosition, AddsTo
  <2>q. PICK q, y : /\ q = (IF Abs(f) < Abs(n) THEN Abs(f) ELSE Abs(n))
                    /\ y = (CASE Abs(f) > Abs(n) -> price * D
                              [] Abs(f) = Abs(n) -> 0 * D
                              [] OTHER -> x)
    OBVIOUS
  <2>w. PICK w : w = IF n > 0 THEN q ELSE -q
    OBVIOUS
  <2>2. q \in Nat /\ w \in Int
    BY <1>4, <2>q, <2>w DEF Abs
  <2>3. Is(Profit(price, q), w * (price * D - x), D)
    BY <1>3, <1>4, <1>5, <2>2, <2>w, ProfitIs
  <2>4. PICK h \in ToInt64(Profit(price, q)) : realized_pnl' = r + h
    BY <1>11, <2>q DEF ReduceOrFlip
  <2>5. truncations' = IF Inexact(Profit(price, q)) THEN T + 1 ELSE T
    BY <1>11, <2>q DEF ReduceOrFlip
  <2>6. /\ h \in Int /\ -D <= w * (price * D - x) - h * D /\ w * (price * D - x) - h * D <= D
        /\ ~Inexact(Profit(price, q)) => w * (price * D - x) = h * D
    BY <2>3, Gained
  <2>7. truncations' = T + 1 \/ (truncations' = T /\ w * (price * D - x) = h * D)
    BY <2>5, <2>6
  <2>8. truncations' \in Nat
    BY <1>4, <2>7
  <2>9. \/ w = -f /\ y = x
        \/ w = n /\ y = price * D
        \/ w = n /\ n + f = 0 /\ y = 0 * D
    <3>1. CASE Abs(f) > Abs(n)
      BY <1>4, <2>1, <2>q, <2>w, <3>1 DEF Abs
    <3>2. CASE Abs(f) = Abs(n)
      BY <1>4, <2>1, <2>q, <2>w, <3>2 DEF Abs
    <3>3. CASE Abs(f) < Abs(n)
      BY <1>4, <2>1, <2>q, <2>w, <3>3 DEF Abs
    <3> QED BY <1>4, <3>1, <3>2, <3>3 DEF Abs
  <2>10. y \in Int
    BY <1>3, <1>4, <2>q DEF Abs
  <2>11. Is(average_open_price', y, D)
    <3>1. average_open_price' = CASE Abs(f) > Abs(n) -> Whole(price)
                                  [] Abs(f) = Abs(n) -> Whole(0)
                                  [] OTHER -> a
      BY <1>11 DEF ReduceOrFlip
    <3>2. Is(Whole(price), price * D, D) /\ Is(Whole(0), 0 * D, D)
      BY <1>3, IsWhole
    <3>3. Abs(f) \in Int /\ Abs(n) \in Int
      BY <1>4 DEF Abs
    <3> QED BY <1>5, <2>q, <3>1, <3>2, <3>3
  <2>12. Balanced(c - f * price, n + f, r + h, truncations', y, D)
    <3> PICK U : U = truncations'
      OBVIOUS
    <3>1. Balanced(c - f * price, n + f, r + h, U, y, D)
      <4>1. D \in Nat \ {0} /\ x \in Int /\ price \in Int /\ w \in Int /\ h \in Int /\ U \in Nat
        BY <1>3, <2>2, <2>6, <2>8
      <4> PICK u : u = w * (price * D - x)
        OBVIOUS
      <4>2. Yields(u, h, D, T, U)
        BY <2>6, <2>7 DEF Yields
      <4>3. Closes(n, f, price, x, D, w, y)
        BY <2>9 DEF Closes
      <4>4. Balanced(c, n, r, T, x, D)
        BY <1>5
      <4> QED BY <1>4, <2>10, <4>1, <4>2, <4>3, <4>4, BalanceRealize
    <3> QED BY <3>1
  <2>13. realized_pnl' \in Int
    BY <1>4, <2>4, <2>6
  <2> QED BY <2>4, <2>8, <2>11, <2>12, <2>13
<1> QED BY <1>6, <1>9, <1>10, <1>11

(* Marking to market: what the position would bring is within a truncation of *)
(* the unrealized profit.                                                     *)
LEMMA MarkedTotal ==
    ASSUME NEW c \in Int, NEW n \in Int, NEW r \in Int, NEW T \in Nat, NEW x \in Int,
           NEW D \in Nat \ {0}, NEW p \in Int, Balanced(c, n, r, T, x, D), NEW g \in Int,
           -D <= n * (p * D - x) - g * D, n * (p * D - x) - g * D <= D
    PROVE  Abs((r + g) - (c + n * p)) <= T + 1
<1> PICK e, z, d : /\ e = c * D + n * x - r * D /\ z = n * (p * D - x) - g * D
                   /\ d = (r + g) - (c + n * p)
  OBVIOUS
<1>1. d * D = -e - z
  <2>1. ((r + g) - (c + n * p)) * D = -(c * D + n * x - r * D) - (n * (p * D - x) - g * D)
    OBVIOUS
  <2> QED BY <2>1
<1>2. e \in Int /\ z \in Int /\ d \in Int /\ T * D \in Int
  OBVIOUS
<1>3. -(T * D) <= e /\ e <= T * D
  BY DEF Balanced
<1>4. (T + 1) * D = T * D + D /\ (-(T + 1)) * D = -(T * D) - D
  OBVIOUS
<1>5. (-(T + 1)) * D <= d * D /\ d * D <= (T + 1) * D
  BY <1>1, <1>2, <1>3, <1>4
<1>6. -(T + 1) <= d /\ d <= T + 1
  <2>1. -(T + 1) \in Int /\ T + 1 \in Int
    OBVIOUS
  <2> QED BY <1>2, <1>5, <2>1, Cancel
<1> QED BY <1>2, <1>6 DEF Abs

LEMMA PortfolioMark ==
    ASSUME PortfolioInv, NEW price \in FillPrice, update_market_price(price)
    PROVE  PortfolioInv'
<1>1. /\ net_position \in Int /\ realized_pnl \in Int /\ unrealized_pnl \in Int
      /\ cash \in Int /\ truncations \in Nat
  BY DEF PortfolioInv
<1>2. PICK x, D : /\ Is(average_open_price, x, D)
                  /\ Balanced(cash, net_position, realized_pnl, truncations, x, D)
  BY DEF PortfolioInv
<1>3. x \in Int /\ D \in Nat \ {0} /\ price \in Int
  BY <1>2, PortfolioAssumption DEF Is
<1>4. /\ mid' = price
      /\ UNCHANGED <<net_position, average_open_price, realized_pnl, truncations, cash>>
  BY DEF update_market_price, averageVars, realizedVars
<1> PICK c, n, r, T, g : /\ c = cash /\ n = net_position /\ r = realized_pnl
                         /\ T = truncations /\ g = unrealized_pnl'
  OBVIOUS
<1>5. g \in Int /\ -D <= n * (price * D - x) - g * D /\ n * (price * D - x) - g * D <= D
  <2>1. CASE n = 0
    <3>1. g = 0 /\ price * D - x \in Int
      BY <1>3, <2>1 DEF update_market_price
    <3>2. 0 * (price * D - x) - 0 * D = 0
      BY <1>3
    <3> QED BY <1>3, <2>1, <3>1, <3>2
  <2>2. CASE n # 0
    <3> PICK m, w : m = Abs(n) /\ w = (IF n > 0 THEN m ELSE -m)
      OBVIOUS
    <3>1. m \in Nat /\ w = n /\ g \in ToInt64(Profit(price, m))
      BY <1>1, <2>2 DEF Abs, update_market_price
    <3>2. Is(Profit(price, m), w * (price * D - x), D)
      BY <1>1, <1>2, <1>3, <3>1, ProfitIs
    <3>3. /\ g \in Int /\ -D <= w * (price * D - x) - g * D
          /\ w * (price * D - x) - g * D <= D
      BY <3>1, <3>2, Gained
    <3> QED BY <3>1, <3>3
  <2> QED BY <2>1, <2>2
<1>6. Abs((r + g) - (c + n * price)) <= T + 1
  <2>1. Balanced(c, n, r, T, x, D)
    BY <1>2
  <2>2. c \in Int /\ n \in Int /\ r \in Int /\ T \in Nat
    BY <1>1
  <2> QED BY <1>3, <1>5, <2>1, <2>2, MarkedTotal
<1>7. TotalIsMarkedToMarket'
  BY <1>4, <1>6 DEF TotalIsMarkedToMarket, get_total_pnl
<1>8. unrealized_pnl' \in Int
  BY <1>5
<1>9. Is(average_open_price', x, D)
      /\ Balanced(cash', net_position', realized_pnl', truncations', x, D)
  BY <1>2, <1>4
<1> QED BY <1>1, <1>4, <1>7, <1>8, <1>9 DEF PortfolioInv

LEMMA PortfolioStep == PortfolioInv /\ [PortfolioNext]_portfolioVars => PortfolioInv'
<1> SUFFICES ASSUME PortfolioInv, [PortfolioNext]_portfolioVars PROVE PortfolioInv'
  OBVIOUS
<1>1. CASE PortfolioNext
  BY <1>1, PortfolioFill, PortfolioMark DEF PortfolioNext
<1>2. CASE UNCHANGED portfolioVars
  BY <1>2 DEF portfolioVars, PortfolioInv, TotalIsMarkedToMarket, get_total_pnl
<1> QED BY <1>1, <1>2

LEMMA BalancedIsCash == PortfolioInv => RealizedIsCash
<1> SUFFICES ASSUME PortfolioInv PROVE RealizedIsCash
  OBVIOUS
<1> PICK c, n, r, T, a : /\ c = cash /\ n = net_position /\ r = realized_pnl
                         /\ T = truncations /\ a = average_open_price
  OBVIOUS
<1>1. c \in Int /\ n \in Int /\ r \in Int /\ T \in Nat
  BY DEF PortfolioInv
<1>2. PICK x, D : Is(a, x, D) /\ Balanced(c, n, r, T, x, D)
  BY DEF PortfolioInv
<1>3. x \in Int /\ D \in Nat \ {0} /\ -T \in Int /\ T \in Int
  BY <1>1, <1>2 DEF Is
<1>4. /\ Is(Whole(c), c * D, D) /\ Is(Whole(r), r * D, D) /\ Is(Whole(T), T * D, D)
      /\ Is(Whole(-T), (-T) * D, D) /\ Is(Whole(n) ** a, n * x, D)
  BY <1>1, <1>2, <1>3, IsWhole, IsScaled
<1>5. Is(Whole(c) ++ (Whole(n) ** a), c * D + n * x, D)
  BY <1>4, IsSum
<1>6. Is((Whole(c) ++ (Whole(n) ** a)) -- Whole(r), c * D + n * x - r * D, D)
  <2> PICK b, z : b = Whole(c) ++ (Whole(n) ** a) /\ z = c * D + n * x
    OBVIOUS
  <2>1. Is(b, z, D) /\ Is(Whole(r), r * D, D)
    BY <1>4, <1>5
  <2>2. Is(b -- Whole(r), z - r * D, D)
    BY <2>1, IsSum
  <2>3. z - r * D = c * D + n * x - r * D
    BY <1>1, <1>3
  <2> QED BY <2>2, <2>3
<1>7. (-T) * D = -(T * D)
  BY <1>1, <1>3
<1>8. /\ (-T) * D <= c * D + n * x - r * D /\ c * D + n * x - r * D <= T * D
  BY <1>2, <1>7 DEF Balanced
<1> PICK error : error = (Whole(c) ++ (Whole(n) ** a)) -- Whole(r)
  OBVIOUS
<1>9. AtMost(error, Whole(T)) /\ AtMost(Whole(-T), error)
  BY <1>4, <1>6, <1>8, IsAtMost
<1> QED BY <1>9 DEF RealizedIsCash

(* Realized profit is what the fills made, up to one unit for every           *)
(* truncation, for any prices, quantities and number of fills: no fill, also  *)
(* one that flips the position, is counted twice or forgotten.                *)
THEOREM RealizedBalances == MCSpec => []RealizedIsCash
<1>1. MCInit => PortfolioInv
  BY PortfolioStart DEF MCInit
<1> QED BY <1>1, BalancedIsCash, Alone, PortfolioStep, PTL DEF MCSpec

(* After a market price the total is what closing the position at it would    *)
(* leave, up to the truncations and one more.                                 *)
THEOREM TotalBalances == MCSpec => []TotalIsMarkedToMarket
<1>1. MCInit => PortfolioInv
  BY PortfolioStart DEF MCInit
<1>2. PortfolioInv => TotalIsMarkedToMarket
  BY DEF PortfolioInv
<1> QED BY <1>1, <1>2, Alone, PortfolioStep, PTL DEF MCSpec


(* ------------------------------ Calibration ------------------------------ *)

(* A time in nanoseconds, and its normal form.                                *)
Ns(t) == t.tv_sec * Second + t.tv_nsec
Normal(t) == t.tv_sec \in Nat /\ t.tv_nsec \in 0 .. Second - 1

LEMMA TimespecNs ==
    ASSUME NEW n \in Nat
    PROVE  Normal(Timespec(n)) /\ Ns(Timespec(n)) = n
<1>1. Second \in Nat \ {0}
  BY CalibrationAssumption
<1>2. n \div Second \in Nat /\ n % Second \in 0 .. Second - 1
      /\ n = Second * (n \div Second) + (n % Second)
  BY <1>1
<1> PICK d, r : d = n \div Second /\ r = n % Second
  OBVIOUS
<1>3. d * Second + r = n
  BY <1>1, <1>2
<1> QED BY <1>2, <1>3 DEF Timespec, Ns, Normal

LEMMA BeforeNs ==
    ASSUME NEW s, NEW t, Normal(s), Normal(t)
    PROVE  Before(s, t) <=> Ns(s) < Ns(t)
<1> PICK a, b, c, d, S : a = s.tv_sec /\ b = s.tv_nsec /\ c = t.tv_sec /\ d = t.tv_nsec /\ S = Second
  OBVIOUS
<1>1. a \in Nat /\ c \in Nat /\ b \in 0 .. S - 1 /\ d \in 0 .. S - 1 /\ S \in Nat \ {0}
  BY CalibrationAssumption DEF Normal
<1>2. a * S \in Nat /\ c * S \in Nat
  BY <1>1
<1>3. a < c => a * S + S <= c * S
  <2>1. a + 1 <= c => (a + 1) * S <= c * S
    BY <1>1, Cancel
  <2>2. (a + 1) * S = a * S + S
    BY <1>1
  <2> QED BY <1>1, <1>2, <2>1, <2>2
<1>4. c < a => c * S + S <= a * S
  <2>1. c + 1 <= a => (c + 1) * S <= a * S
    BY <1>1, Cancel
  <2>2. (c + 1) * S = c * S + S
    BY <1>1
  <2> QED BY <1>1, <1>2, <2>1, <2>2
<1>5. (a < c \/ (a = c /\ b < d)) <=> a * S + b < c * S + d
  <2> PICK u, v : u = a * S /\ v = c * S
    OBVIOUS
  <2>1. /\ u \in Nat /\ v \in Nat /\ (a = c => u = v)
        /\ a < c => u + S <= v
        /\ c < a => v + S <= u
    BY <1>2, <1>3, <1>4
  <2>2. b \in Nat /\ d \in Nat /\ b < S /\ d < S /\ S \in Nat
    BY <1>1
  <2>3. CASE a < c
    BY <2>1, <2>2, <2>3
  <2>4. CASE a = c
    BY <1>1, <2>1, <2>2, <2>4
  <2>5. CASE c < a
    BY <1>1, <2>1, <2>2, <2>5
  <2>6. a < c \/ a = c \/ c < a
    BY <1>1
  <2> QED BY <2>3, <2>4, <2>5, <2>6
<1> QED BY <1>5 DEF Before, Ns

LEMMA DeadlineNs ==
    ASSUME NEW t, Normal(t), t = [tv_sec |-> t.tv_sec, tv_nsec |-> t.tv_nsec]
    PROVE  Normal(Deadline(t)) /\ Ns(Deadline(t)) = Ns(t) + Interval
<1> PICK a, b, S, I : a = t.tv_sec /\ b = t.tv_nsec /\ S = Second /\ I = Interval
  OBVIOUS
<1>1. a \in Nat /\ b \in 0 .. S - 1 /\ S \in Nat \ {0} /\ I \in Nat /\ I <= S
  BY CalibrationAssumption DEF Normal
<1>2. a * S \in Nat /\ (a + 1) * S = a * S + S
  BY <1>1
<1>3. CASE b + I >= S
  <2>1. Deadline(t) = [tv_sec |-> a + 1, tv_nsec |-> (b + I) - S]
    BY <1>3 DEF Deadline
  <2>2. (b + I) - S \in 0 .. S - 1 /\ (a + 1) * S + ((b + I) - S) = a * S + b + I
    BY <1>1, <1>2, <1>3
  <2> QED BY <1>1, <2>1, <2>2 DEF Normal, Ns
<1>4. CASE ~(b + I >= S)
  <2>1. Deadline(t).tv_sec = a /\ Deadline(t).tv_nsec = b + I
    BY <1>4 DEF Deadline
  <2>2. b + I \in 0 .. S - 1 /\ a * S + (b + I) = a * S + b + I
    BY <1>1, <1>2, <1>4
  <2> QED BY <1>1, <2>1, <2>2 DEF Normal, Ns
<1> QED BY <1>3, <1>4

(* The ratio is the time between the two looks at the clock over the cycles   *)
(* between the two at the counter, and those two times differ by a gap.       *)
Calibrated(r) ==
    \E e \in Nat, f \in Nat :
        /\ Interval <= e /\ e <= f + MaxGap /\ f <= e + MaxGap
        /\ Is(r, e, f * CyclesPerNs)
ClockInv ==
    /\ now \in Nat /\ clock_pc \in {"start", "spin", "spun", "calibrated"}
    /\ clock_pc # "calibrated" => latency = 0 /\ call = 0
    /\ clock_pc \in {"spin", "spun"} =>
        /\ Normal(t1) /\ Normal(deadline) /\ Ns(deadline) = Ns(t1) + Interval
        /\ \E gap \in 0 .. MaxGap : c1 = Counter(Ns(t1) + gap)
    /\ clock_pc = "spun" => Normal(t2) /\ Ns(t2) = now /\ Ns(deadline) <= now
    /\ clock_pc = "calibrated" /\ ~moved => Calibrated(ns_per_cycle)
    /\ LatencyMeasured

(* The bound on the error in whole numbers.                                   *)
Within(l, c) ==
    LET error == Whole(l - c)
        bound == Ratio(c * MaxGap, Interval - MaxGap) ++ Ratio(1, 2)
    IN  AtMost(error, bound) /\ AtMost(Whole(0) -- bound, error)

LEMMA ErrorWithin ==
    ASSUME NEW l \in Int, NEW c \in Nat,
           NEW B, B = Interval - MaxGap,
           B * (2 * (l - c) - 1) <= 2 * (c * MaxGap),
           B * (-(2 * (l - c)) - 1) <= 2 * (c * MaxGap)
    PROVE  Within(l, c)
<1> PICK d, k, w : d = l - c /\ k = c * MaxGap /\ w = B * 2
  OBVIOUS
<1>1. d \in Int /\ k \in Nat /\ B \in Nat \ {0} /\ w \in Nat \ {0} /\ w = B * 2
      /\ 0 \in Int /\ 1 \in Int /\ 2 \in Nat \ {0}
  BY CalibrationAssumption
<1>2. Is(Whole(d), d * w, w) /\ Is(Whole(0), 0 * w, w)
  BY <1>1, IsWhole
<1>3. Is(Ratio(k, B), k * 2, w)
  <2> PICK z : z = k * 2
    OBVIOUS
  <2>1. z \in Int
    BY <1>1
  <2>2. k * w = z * B
    BY <1>1
  <2>3. k \in Int /\ B \in Nat \ {0} /\ w \in Nat \ {0}
    BY <1>1
  <2>4. Is(Ratio(k, B), z, w)
    BY <2>1, <2>2, <2>3, RatioIsOver, Zenon
  <2> QED BY <2>4
<1>4. Is(Ratio(1, 2), B, w)
  <2>1. 1 * w = B * 2
    BY <1>1
  <2>2. 1 \in Int /\ 2 \in Nat \ {0} /\ B \in Int /\ w \in Nat \ {0}
    BY <1>1
  <2> QED BY <2>1, <2>2, RatioIsOver, Zenon
<1> PICK bound : bound = Ratio(k, B) ++ Ratio(1, 2)
  OBVIOUS
<1>5. Is(bound, k * 2 + B, w)
  BY <1>3, <1>4, IsSum
<1>6. Is(Whole(0) -- bound, 0 * w - (k * 2 + B), w)
  BY <1>2, <1>5, IsSum
<1>7. d * w <= k * 2 + B
  <2>1. B * (2 * d - 1) = d * w - B
    BY <1>1
  <2>2. d * w - B <= 2 * k
    BY <2>1
  <2>3. d * w \in Int
    BY <1>1
  <2> QED BY <1>1, <2>2, <2>3
<1>8. 0 * w - (k * 2 + B) <= d * w
  <2>1. B * (-(2 * d) - 1) = -(d * w) - B
    BY <1>1
  <2>2. -(d * w) - B <= 2 * k
    BY <2>1
  <2>3. d * w \in Int /\ 0 * w = 0
    BY <1>1
  <2> QED BY <1>1, <2>2, <2>3
<1>9. AtMost(Whole(d), bound) /\ AtMost(Whole(0) -- bound, Whole(d))
  BY <1>2, <1>5, <1>6, <1>7, <1>8, IsAtMost
<1> QED BY <1>9 DEF Within

LEMMA NothingMeasured == Within(0, 0)
<1> PICK B : B = Interval - MaxGap
  OBVIOUS
<1>1. B \in Nat \ {0} /\ MaxGap \in Nat
  BY CalibrationAssumption
<1>2. 2 * (0 - 0) - 1 = -1 /\ -(2 * (0 - 0)) - 1 = -1 /\ B * (-1) = -B /\ 2 * (0 * MaxGap) = 0
  BY <1>1
<1>3. /\ B * (2 * (0 - 0) - 1) <= 2 * (0 * MaxGap)
      /\ B * (-(2 * (0 - 0)) - 1) <= 2 * (0 * MaxGap)
  BY <1>1, <1>2
<1> QED BY <1>3, ErrorWithin

LEMMA ClockStart == ClockInit => ClockInv
<1> SUFFICES ASSUME ClockInit PROVE ClockInv
  OBVIOUS
<1>1. latency = 0 /\ call = 0 /\ clock_pc = "start" /\ now = 0
  BY DEF ClockInit
<1> QED BY <1>1, NothingMeasured DEF ClockInv, Within, LatencyMeasured

LEMMA ClockSampleStart ==
    ASSUME ClockInv, SampleStart
    PROVE  ClockInv'
<1>1. PICK start \in 0 .. Second - 1, gap \in 0 .. MaxGap :
          t1' = Timespec(start) /\ now' = start + gap
  BY DEF SampleStart
<1>2. /\ clock_pc = "start" /\ clock_pc' = "spin" /\ deadline' = Deadline(t1')
      /\ c1' = Counter(now') /\ UNCHANGED <<t2, ns_per_cycle, latency, call, moved>>
  BY DEF SampleStart
<1>3. start \in Nat /\ gap \in Nat
  BY CalibrationAssumption
<1>4. Normal(t1') /\ Ns(t1') = start
  BY <1>1, <1>3, TimespecNs
<1>5. Normal(deadline') /\ Ns(deadline') = Ns(t1') + Interval
  <2>1. t1' = [tv_sec |-> t1'.tv_sec, tv_nsec |-> t1'.tv_nsec]
    BY <1>1 DEF Timespec
  <2> QED BY <1>2, <1>4, <2>1, DeadlineNs
<1>6. Normal(t1)' /\ Normal(deadline)' /\ Ns(deadline)' = Ns(t1)' + Interval
      /\ Ns(t1)' = start
  BY <1>4, <1>5 DEF Normal, Ns
<1>7. c1' = Counter(Ns(t1)' + gap)
  BY <1>1, <1>2, <1>6
<1>8. LatencyMeasured'
  BY <1>2 DEF ClockInv, LatencyMeasured
<1> QED BY <1>1, <1>2, <1>3, <1>6, <1>7, <1>8 DEF ClockInv, Counter

LEMMA ClockSpin ==
    ASSUME ClockInv, Spin
    PROVE  ClockInv'
<1>1. PICK step \in 1 .. Interval : now' = now + step
  BY DEF Spin
<1>2. /\ clock_pc = "spin" /\ t2' = Timespec(now')
      /\ clock_pc' = IF Before(t2', deadline) THEN "spin" ELSE "spun"
      /\ UNCHANGED <<t1, c1, deadline, ns_per_cycle, latency, call, moved>>
  BY DEF Spin
<1>3. now' \in Nat
  BY <1>1, CalibrationAssumption DEF ClockInv
<1>4. Normal(t2') /\ Ns(t2') = now'
  BY <1>2, <1>3, TimespecNs
<1>5. Normal(deadline) /\ Normal(t1) /\ Ns(deadline) = Ns(t1) + Interval
      /\ \E gap \in 0 .. MaxGap : c1 = Counter(Ns(t1) + gap)
  BY <1>2 DEF ClockInv
<1>6. clock_pc' = "spun" => ~(now' < Ns(deadline))
  BY <1>2, <1>4, <1>5, BeforeNs
<1>7. Ns(deadline) \in Nat
  <2>1. deadline.tv_sec \in Nat /\ deadline.tv_nsec \in Nat /\ Second \in Nat
    BY <1>5, CalibrationAssumption DEF Normal
  <2> QED BY <2>1 DEF Ns
<1>8. LatencyMeasured'
  BY <1>2 DEF ClockInv, LatencyMeasured
<1>9. Normal(t2)' /\ Ns(t2)' = now' /\ (clock_pc' = "spun" => Ns(deadline)' <= now')
  BY <1>2, <1>3, <1>4, <1>6, <1>7 DEF Normal, Ns
<1>10. /\ Normal(t1)' /\ Normal(deadline)' /\ Ns(deadline)' = Ns(t1)' + Interval
       /\ (\E gap \in 0 .. MaxGap : c1 = Counter(Ns(t1) + gap))'
  BY <1>2, <1>5 DEF Normal, Ns
<1>11. clock_pc' \in {"spin", "spun"} /\ latency' = 0 /\ call' = 0
  BY <1>2 DEF ClockInv
<1> QED BY <1>3, <1>8, <1>9, <1>10, <1>11 DEF ClockInv

LEMMA ClockSampleEnd ==
    ASSUME ClockInv, NEW behind \in {0, Behind}, SampleEnd(behind)
    PROVE  ClockInv'
<1>1. PICK g \in 0 .. MaxGap : now' = now + g
  BY DEF SampleEnd
<1>2. /\ clock_pc = "spun" /\ clock_pc' = "calibrated" /\ moved' = (behind # 0)
      /\ ns_per_cycle' = IF Counter(now') - behind > c1
                         THEN Ratio(elapsed_ns, (Counter(now') - behind) - c1) ELSE ns_per_cycle
      /\ UNCHANGED <<t1, c1, t2, deadline, latency, call>>
  BY DEF SampleEnd
<1>3. LatencyMeasured'
  <2>1. latency' = 0 /\ call' = 0
    BY <1>2 DEF ClockInv
  <2> QED BY <2>1, NothingMeasured DEF Within, LatencyMeasured
<1>4. now' \in Nat
  BY <1>1, CalibrationAssumption DEF ClockInv
<1>5. ASSUME behind = 0 PROVE Calibrated(ns_per_cycle')
  <2>1. /\ Normal(t1) /\ Normal(t2) /\ Ns(t2) = now /\ Ns(deadline) <= now
        /\ Ns(deadline) = Ns(t1) + Interval
    BY <1>2 DEF ClockInv
  <2>2. PICK h \in 0 .. MaxGap : c1 = Counter(Ns(t1) + h)
    BY <1>2 DEF ClockInv
  <2> PICK s, C, e, f, n : /\ s = Ns(t1) /\ C = CyclesPerNs /\ n = now
                           /\ e = n - s /\ f = (e + g) - h
    OBVIOUS
  <2>3. s \in Nat /\ n \in Nat /\ C \in Nat \ {0} /\ g \in Nat /\ h \in Nat
        /\ MaxGap \in Nat /\ Interval \in Nat /\ MaxGap < Interval /\ s + Interval <= n
        /\ g <= MaxGap /\ h <= MaxGap
    <3>1. Ns(t1) \in Nat
      <4>1. t1.tv_sec \in Nat /\ t1.tv_nsec \in Nat /\ Second \in Nat
        BY <2>1, CalibrationAssumption DEF Normal
      <4> QED BY <4>1 DEF Ns
    <3> QED BY <2>1, <3>1, CalibrationAssumption DEF ClockInv
  <2>4. e \in Nat /\ f \in Nat \ {0} /\ Interval <= e /\ e <= f + MaxGap /\ f <= e + MaxGap
    BY <2>3
  <2>5. elapsed_ns = e
    <3> PICK a, b, c, d, S : /\ a = t1.tv_sec /\ b = t1.tv_nsec /\ c = t2.tv_sec
                             /\ d = t2.tv_nsec /\ S = Second
      OBVIOUS
    <3>1. a \in Nat /\ b \in Nat /\ c \in Nat /\ d \in Nat /\ S \in Nat
      BY <2>1, CalibrationAssumption DEF Normal
    <3>2. s = a * S + b /\ n = c * S + d
      BY <2>1 DEF Ns
    <3>3. (c - a) * S + d - b = (c * S + d) - (a * S + b)
      BY <3>1
    <3> QED BY <3>2, <3>3 DEF elapsed_ns
  <2>6. (Counter(now') - behind) - c1 = f * C /\ f * C \in Nat \ {0}
        /\ Counter(now') - behind > c1
    <3>1. Counter(now') = (n + g) * C /\ c1 = (s + h) * C
      BY <1>1, <2>2 DEF Counter
    <3>2. (n + g) * C - (s + h) * C = f * C
      <4>1. (n + g) * C - (s + h) * C = ((n + g) - (s + h)) * C
        BY <2>3
      <4>2. (n + g) - (s + h) = f
        BY <2>3
      <4> QED BY <4>1, <4>2
    <3>3. f * C \in Nat \ {0} /\ (n + g) * C \in Int /\ (s + h) * C \in Int
      BY <2>3, <2>4
    <3> QED BY <1>5, <3>1, <3>2, <3>3
  <2>7. Is(ns_per_cycle', e, f * C)
    <3> PICK k : k = f * C
      OBVIOUS
    <3>1. ns_per_cycle' = Ratio(e, k) /\ k \in Nat \ {0}
      BY <1>2, <2>5, <2>6
    <3> QED BY <2>4, <3>1, RatioIs
  <2> QED BY <2>4, <2>7 DEF Calibrated
<1>6. (clock_pc = "calibrated" /\ ~moved => Calibrated(ns_per_cycle))'
  BY <1>2, <1>5 DEF Calibrated
<1> QED BY <1>2, <1>3, <1>4, <1>6 DEF ClockInv

LEMMA IsOver ==
    ASSUME NEW a, NEW x \in Int, NEW D \in Nat \ {0}, NEW k \in Nat \ {0}
    PROVE  Is(a, x * k, D * k) <=> Is(a, x, D)
<1> PICK p, q : p = a.num /\ q = a.den
  OBVIOUS
<1>1. SUFFICES ASSUME p \in Int, q \in Nat \ {0}
               PROVE  p * (D * k) = (x * k) * q <=> p * D = x * q
  <2>1. x * k \in Int /\ D * k \in Nat \ {0}
    OBVIOUS
  <2> QED BY <2>1 DEF Is
<1>2. p * (D * k) = (p * D) * k /\ (x * k) * q = (x * q) * k
  BY <1>1
<1> PICK u, v : u = p * D /\ v = x * q
  OBVIOUS
<1>3. u \in Int /\ v \in Int
  BY <1>1
<1>4. u * k = v * k <=> u = v
  BY <1>3, Cancel
<1> QED BY <1>2, <1>4

LEMMA Quotient ==
    ASSUME NEW p \in Nat, NEW q \in Nat \ {0}
    PROVE  p \div q \in Nat /\ (p \div q) * q <= p /\ p < (p \div q) * q + q
<1>1. p \div q \in Nat /\ p % q \in 0 .. q - 1 /\ p = q * (p \div q) + (p % q)
  OBVIOUS
<1> PICK t, r : t = p \div q /\ r = p % q
  OBVIOUS
<1>2. t \in Nat /\ r \in Nat /\ r < q /\ p = t * q + r /\ t * q \in Nat
  BY <1>1
<1>3. t * q <= p /\ p < t * q + q
  BY <1>2
<1> QED BY <1>2, <1>3

LEMMA TruncateIs ==
    ASSUME NEW y, NEW z, NEW D, Is(y, z, D), z >= 0
    PROVE  Truncate(y) \in Nat /\ Truncate(y) * D <= z /\ z < Truncate(y) * D + D
<1> PICK p, q, t : p = y.num /\ q = y.den /\ t = p \div q
  OBVIOUS
<1>1. p \in Int /\ q \in Nat \ {0} /\ z \in Nat /\ D \in Nat \ {0} /\ p * D = z * q
  BY DEF Is
<1>2. p \in Nat
  <2>1. 0 * D <= p * D
    <3>1. 0 * D = 0 /\ z * q >= 0
      BY <1>1
    <3> QED BY <1>1, <3>1
  <2>2. 0 <= p
    BY <1>1, <2>1, Cancel
  <2> QED BY <1>1, <2>2
<1>3. Truncate(y) = t
  BY <1>2 DEF Truncate
<1>4. t \in Nat /\ t * q <= p /\ p < t * q + q
  BY <1>1, <1>2, Quotient
<1>5. t * q <= p /\ p < t * q + q
  BY <1>4
<1>6. (t * D) * q <= z * q /\ z * q < (t * D + D) * q
  <2> PICK u, v : u = t * q /\ v = t * q + q
    OBVIOUS
  <2>0. t * q \in Int
    BY <1>1, <1>4
  <2>1. u \in Int /\ v \in Int /\ u <= p /\ p <= v /\ p # v
    BY <1>1, <1>5, <2>0
  <2>2. u * D <= p * D /\ p * D <= v * D /\ p * D # v * D
    <3>1. u * D <= p * D
      BY <1>1, <2>1, Cancel
    <3>2. p * D <= v * D
      BY <1>1, <2>1, Cancel
    <3>3. p * D # v * D
      BY <1>1, <2>1, Cancel
    <3> QED BY <3>1, <3>2, <3>3
  <2>3. u * D = (t * D) * q /\ v * D = (t * D + D) * q
    BY <1>1, <1>4
  <2>4. p * D \in Int /\ v * D \in Int
    BY <1>1, <2>1
  <2> QED BY <1>1, <2>2, <2>3, <2>4
<1>7. t * D <= z /\ z < t * D + D
  <2> PICK u, v : u = t * D /\ v = t * D + D
    OBVIOUS
  <2>1. u \in Int /\ v \in Int
    BY <1>1, <1>4
  <2>2. u * q <= z * q /\ z * q < v * q
    BY <1>6
  <2>3. u <= z
    BY <1>1, <2>1, <2>2, Cancel
  <2>4. ~(v <= z)
    <3>1. v * q \in Int /\ z * q \in Int
      BY <1>1, <2>1
    <3>2. v <= z => v * q <= z * q
      BY <1>1, <2>1, Cancel
    <3> QED BY <2>2, <3>1, <3>2
  <2> QED BY <1>1, <2>1, <2>3, <2>4
<1> QED BY <1>3, <1>4, <1>7

LEMMA Narrower ==
    ASSUME NEW a \in Int, NEW B \in Nat, NEW f \in Nat, B <= f, NEW k \in Nat, f * a <= k
    PROVE  B * a <= k
<1>1. B * a \in Int /\ f * a \in Int
  OBVIOUS
<1>2. CASE a <= 0
  <2>1. B * (-a) >= 0
    BY <1>2
  <2>2. B * (-a) = -(B * a)
    OBVIOUS
  <2> QED BY <1>1, <2>1, <2>2
<1>3. CASE a > 0
  <2>1. (f - B) * a >= 0
    BY <1>3
  <2>2. (f - B) * a = f * a - B * a
    OBVIOUS
  <2> QED BY <1>1, <2>1, <2>2
<1> QED BY <1>2, <1>3

LEMMA ClockMeasure ==
    ASSUME ClockInv, NEW ns \in 0 .. MaxCall, MeasureCall(ns)
    PROVE  ClockInv'
<1>1. /\ clock_pc = "calibrated" /\ latency' = to_ns_u64(Counter(ns)) /\ call' = ns
      /\ UNCHANGED <<clock_pc, now, t1, c1, t2, deadline, ns_per_cycle, moved>>
  BY DEF MeasureCall
<1>2. ASSUME ~moved PROVE LatencyMeasured'
  <2>1. PICK e \in Nat, f \in Nat :
            /\ Interval <= e /\ e <= f + MaxGap /\ f <= e + MaxGap
            /\ Is(ns_per_cycle, e, f * CyclesPerNs)
    BY <1>1, <1>2 DEF ClockInv, Calibrated
  <2> PICK C, B, r, G : C = CyclesPerNs /\ B = Interval - MaxGap /\ r = ns_per_cycle /\ G = MaxGap
    OBVIOUS
  <2>2. /\ C \in Nat \ {0} /\ B \in Nat \ {0} /\ G \in Nat /\ B <= f /\ f \in Nat \ {0}
        /\ ns \in Nat /\ e - f <= G /\ f - e <= G
    BY <2>1, CalibrationAssumption
  <2>3. Is(to_ns(Counter(ns)), ns * e, f)
    <3> PICK k : k = ns * C
      OBVIOUS
    <3>1. k \in Int /\ Counter(ns) = k
      BY <2>2 DEF Counter
    <3>2. Is(to_ns(k), k * e, f * C)
      BY <2>1, <3>1, IsScaled DEF to_ns
    <3>3. k * e = (ns * e) * C /\ ns * e \in Int
      BY <2>2
    <3> PICK x : x = ns * e
      OBVIOUS
    <3>4. Is(to_ns(k), x, f)
      BY <2>2, <3>2, <3>3, IsOver
    <3> QED BY <3>1, <3>4
  <2> PICK x, z, w : x = ns * e /\ w = f * 2 /\ z = x * 2 + f
    OBVIOUS
  <2>4. x \in Nat /\ z \in Nat /\ w \in Nat \ {0}
    BY <2>2
  <2>5. Is(to_ns(Counter(ns)) ++ Ratio(1, 2), z, w)
    <3>1. Is(to_ns(Counter(ns)), x * 2, w)
      BY <2>2, <2>3, <2>4, IsOver
    <3>2. Is(Ratio(1, 2), f, w)
      <4>1. 1 * w = f * 2
        BY <2>4
      <4>2. 1 \in Int /\ 2 \in Nat \ {0} /\ f \in Int /\ w \in Nat \ {0}
        BY <2>4
      <4> QED BY <4>1, <4>2, RatioIsOver, Zenon
    <3> QED BY <3>1, <3>2, IsSum
  <2> PICK t : t = latency'
    OBVIOUS
  <2>6. t \in Nat /\ t * w <= z /\ z < t * w + w
    BY <1>1, <2>4, <2>5, TruncateIs DEF to_ns_u64
  <2>7. /\ B * (2 * (t - ns) - 1) <= 2 * (ns * G)
        /\ B * (-(2 * (t - ns)) - 1) <= 2 * (ns * G)
    <3>1. ns * (e - f) <= ns * G /\ ns * (f - e) <= ns * G
      <4>1. ns * (G - (e - f)) >= 0 /\ ns * (G - (f - e)) >= 0
        BY <2>2
      <4>2. ns * (G - (e - f)) = ns * G - ns * (e - f) /\ ns * (G - (f - e)) = ns * G - ns * (f - e)
        BY <2>2
      <4>3. ns * G \in Int /\ ns * (e - f) \in Int /\ ns * (f - e) \in Int
        BY <2>2
      <4> QED BY <4>1, <4>2, <4>3
    <3>2. /\ f * (2 * (t - ns) - 1) = (t * w - z) + 2 * (ns * (e - f))
          /\ f * (-(2 * (t - ns)) - 1) = (z - (t * w + w)) + 2 * (ns * (f - e))
      BY <2>2, <2>6
    <3>3. 2 * (ns * G) \in Nat /\ t * w \in Int /\ ns * (e - f) \in Int /\ ns * (f - e) \in Int
      BY <2>2, <2>4, <2>6
    <3>4. f * (2 * (t - ns) - 1) <= 2 * (ns * G) /\ f * (-(2 * (t - ns)) - 1) <= 2 * (ns * G)
      <4> PICK m, i, j, k : m = t * w /\ i = ns * (e - f) /\ j = ns * (f - e) /\ k = ns * G
        OBVIOUS
      <4>1. m \in Int /\ i \in Int /\ j \in Int /\ k \in Int /\ i <= k /\ j <= k
            /\ m <= z /\ z < m + w /\ z \in Int /\ w \in Int
        <5>1. t * w \in Int /\ ns * (e - f) \in Int /\ ns * (f - e) \in Int /\ ns * G \in Int
          BY <2>2, <3>3
        <5>2. t * w <= z /\ z < t * w + w
          BY <2>6, Zenon
        <5>3. z \in Int /\ w \in Int
          BY <2>4
        <5> QED BY <3>1, <5>1, <5>2, <5>3, Zenon
      <4>2. (m - z) + 2 * i <= 2 * k /\ (z - (m + w)) + 2 * j <= 2 * k
        BY <4>1
      <4> QED BY <3>2, <4>2
    <3> PICK a, b, k : a = 2 * (t - ns) - 1 /\ b = -(2 * (t - ns)) - 1 /\ k = 2 * (ns * G)
      OBVIOUS
    <3>5. a \in Int /\ b \in Int /\ k \in Nat
      BY <2>2, <2>6
    <3>7. f * a <= k /\ f * b <= k
      BY <3>4
    <3>6. B * a <= k /\ B * b <= k
      BY <2>2, <3>5, <3>7, Narrower
    <3> QED BY <3>6
  <2>8. t \in Int /\ ns \in Nat /\ B = Interval - MaxGap
    BY <2>2, <2>6
  <2>9. Within(t, ns)
    BY <2>7, <2>8, ErrorWithin
  <2>10. latency' = t /\ call' = ns
    BY <1>1
  <2> QED BY <2>9, <2>10 DEF Within, LatencyMeasured
<1>3. LatencyMeasured'
  BY <1>1, <1>2 DEF LatencyMeasured
<1>4. (clock_pc = "calibrated" /\ ~moved => Calibrated(ns_per_cycle))'
  BY <1>1 DEF ClockInv, Calibrated
<1> QED BY <1>1, <1>3, <1>4 DEF ClockInv

LEMMA ClockStep == ClockInv /\ [ClockNext]_clockVars => ClockInv'
<1> SUFFICES ASSUME ClockInv, [ClockNext]_clockVars PROVE ClockInv'
  OBVIOUS
<1>1. CASE ClockNext
  BY <1>1, ClockSampleStart, ClockSpin, ClockSampleEnd, ClockMeasure DEF ClockNext
<1>2. CASE UNCHANGED clockVars
  BY <1>2 DEF clockVars, ClockInv, LatencyMeasured, Calibrated, Normal, Ns
<1> QED BY <1>1, <1>2

(* The latency printed is right up to rounding and the error of the ratio,    *)
(* for any length of a second, any interval, rate of the counter and delay    *)
(* between the looks at the clock and at the counter.                         *)
THEOREM LatencyIsMeasured == MCSpec => []LatencyMeasured
<1>1. MCInit => ClockInv
  BY ClockStart DEF MCInit
<1>2. ClockInv => LatencyMeasured
  BY DEF ClockInv
<1> QED BY <1>1, <1>2, Alone, ClockStep, PTL DEF MCSpec

(* ------------------------------ RollingStats ------------------------------ *)

(* The library's sum folds a set picking its elements in an arbitrary order:  *)
(* a function c that adds up f over the subsets of S in that order.           *)
Picked(s) == CHOOSE y \in s : TRUE
AddsAt(c, f, s) == c[s] = IF s = {} THEN 0 ELSE f[Picked(s)] + c[s \ {Picked(s)}]
Adds(c, f, S)   == c = [s \in SUBSET S |->
                          IF s = {} THEN 0 ELSE f[Picked(s)] + c[s \ {Picked(s)}]]

LEMMA PickedOut ==
    ASSUME NEW S, IsFiniteSet(S), NEW s \in SUBSET S, s # {}
    PROVE  /\ Picked(s) \in s /\ s \ {Picked(s)} \in SUBSET S
           /\ Cardinality(s) \in Nat \ {0}
           /\ Cardinality(s \ {Picked(s)}) = Cardinality(s) - 1
<1>1. Picked(s) \in s
  BY DEF Picked
<1> PICK x : x = Picked(s)
  OBVIOUS
<1>2. IsFiniteSet(s) /\ x \in s
  BY <1>1, FS_Subset
<1>3. Cardinality(s) \in Nat /\ Cardinality(s) # 0
  BY <1>2, FS_CardinalityType, FS_EmptySet
<1>4. Cardinality(s \ {x}) = Cardinality(s) - 1
  BY <1>2, FS_RemoveElement
<1> QED BY <1>1, <1>3, <1>4

(* There is one: it can be extended from the subsets of n elements to those   *)
(* of one more.                                                               *)
LEMMA AddsExists ==
    ASSUME NEW S, IsFiniteSet(S), NEW f
    PROVE  \E c : Adds(c, f, S)
<1> DEFINE Upto(c, n) == /\ c = [s \in SUBSET S |-> c[s]]
                         /\ \A s \in SUBSET S : Cardinality(s) <= n => AddsAt(c, f, s)
           G == {n \in Nat : \E c : Upto(c, n)}
<1>1. \A s \in SUBSET S : IsFiniteSet(s) /\ Cardinality(s) \in Nat /\ Cardinality(s) <= Cardinality(S)
  BY FS_Subset, FS_CardinalityType
<1>2. 0 \in G
  <2> DEFINE d == [s \in SUBSET S |-> 0]
  <2>1. ASSUME NEW s \in SUBSET S, Cardinality(s) <= 0 PROVE AddsAt(d, f, s)
    <3>1. s = {}
      BY <1>1, <2>1, FS_EmptySet
    <3> QED BY <3>1 DEF AddsAt
  <2>2. d = [s \in SUBSET S |-> d[s]]
    OBVIOUS
  <2> HIDE DEF d
  <2>3. Upto(d, 0)
    BY <2>1, <2>2
  <2> QED BY <2>3
<1>3. ASSUME NEW n \in Nat, n \in G PROVE n + 1 \in G
  <2>1. PICK c : Upto(c, n)
    BY <1>3
  <2> DEFINE d == [s \in SUBSET S |-> IF Cardinality(s) <= n THEN c[s]
                                      ELSE f[Picked(s)] + c[s \ {Picked(s)}]]
  <2>2. d = [s \in SUBSET S |-> d[s]]
    OBVIOUS
  <2>3. ASSUME NEW s \in SUBSET S, Cardinality(s) <= n + 1 PROVE AddsAt(d, f, s)
    <3>1. CASE s = {}
      <4>1. Cardinality(s) = 0 /\ Cardinality(s) <= n
        BY <3>1, FS_EmptySet
      <4>2. AddsAt(c, f, s)
        BY <2>1, <4>1
      <4> QED BY <3>1, <4>1, <4>2 DEF AddsAt
    <3>2. CASE s # {}
      <4> PICK t : t = s \ {Picked(s)}
        OBVIOUS
      <4>1. t \in SUBSET S /\ Cardinality(t) <= n
        <5>1. t \in SUBSET S /\ Cardinality(s) \in Nat \ {0} /\ Cardinality(t) = Cardinality(s) - 1
          BY <3>2, PickedOut
        <5> QED BY <2>3, <5>1
      <4>2. d[t] = c[t]
        BY <4>1
      <4>3. d[s] = f[Picked(s)] + c[t]
        <5>1. CASE Cardinality(s) <= n
          <6>1. AddsAt(c, f, s) /\ d[s] = c[s]
            BY <2>1, <5>1
          <6> QED BY <3>2, <6>1 DEF AddsAt
        <5>2. CASE ~(Cardinality(s) <= n)
          BY <5>2
        <5> QED BY <5>1, <5>2
      <4> HIDE DEF d
      <4> QED BY <3>2, <4>2, <4>3 DEF AddsAt
    <3> QED BY <3>1, <3>2
  <2> HIDE DEF d
  <2>4. Upto(d, n + 1)
    BY <2>2, <2>3
  <2> HIDE DEF Upto
  <2> QED BY <2>4 DEF G
<1> HIDE DEF G
<1>4. Nat \subseteq G
  BY <1>2, <1>3, Induct
<1>5. Cardinality(S) \in Nat
  BY FS_CardinalityType
<1>6. PICK c : Upto(c, Cardinality(S))
  BY <1>4, <1>5 DEF G
<1>7. \A s \in SUBSET S : AddsAt(c, f, s)
  BY <1>1, <1>6
<1>8. Adds(c, f, S)
  BY <1>6, <1>7 DEF AddsAt, Adds
<1> QED BY <1>8

Summing(c, f, S) == IsFiniteSet(S) /\ f \in [S -> Int] /\ Adds(c, f, S)
InAnyOrder(c, f, S) ==
    \A T \in SUBSET S, x \in S : x \notin T => c[T \cup {x}] = c[T] + f[x]

(* What it adds up does not depend on the order.                              *)
LEMMA AddsAny ==
    ASSUME NEW S, NEW f, NEW c, Summing(c, f, S)
    PROVE  InAnyOrder(c, f, S)
<1> IsFiniteSet(S) /\ f \in [S -> Int] /\ Adds(c, f, S)
  BY DEF Summing
<1>1. \A s \in SUBSET S : AddsAt(c, f, s)
  BY DEF Adds, AddsAt
<1>2. c[{}] = 0
  BY <1>1 DEF AddsAt
<1> DEFINE G == {n \in Nat : \A t \in SUBSET S : Cardinality(t) = n =>
                    /\ c[t] \in Int
                    /\ \A y \in S \ t : c[t \cup {y}] = c[t] + f[y]}
<1>3. \A s \in SUBSET S : IsFiniteSet(s) /\ Cardinality(s) \in Nat
  BY FS_Subset, FS_CardinalityType
<1>4. 0 \in G
  <2>1. ASSUME NEW y \in S PROVE c[{} \cup {y}] = c[{}] + f[y]
    <3>1. Picked({y}) = y /\ {y} # {} /\ {y} \ {y} = {} /\ {y} \in SUBSET S
          /\ {} \cup {y} = {y}
      BY DEF Picked
    <3>2. c[{y}] = f[y] + c[{}]
      BY <1>1, <3>1 DEF AddsAt
    <3>3. f[y] \in Int
      OBVIOUS
    <3> QED BY <1>2, <3>1, <3>2, <3>3
  <2>2. ASSUME NEW t \in SUBSET S, Cardinality(t) = 0
        PROVE  c[t] \in Int /\ \A y \in S \ t : c[t \cup {y}] = c[t] + f[y]
    <3>1. t = {}
      BY <1>3, <2>2, FS_EmptySet
    <3>2. c[t] \in Int
      BY <1>2, <3>1
    <3> QED BY <2>1, <3>1, <3>2
  <2> QED BY <2>2
<1>5. ASSUME NEW n \in Nat, n \in G PROVE n + 1 \in G
  <2>1. SUFFICES ASSUME NEW t \in SUBSET S, Cardinality(t) = n + 1
                 PROVE  c[t] \in Int /\ \A y \in S \ t : c[t \cup {y}] = c[t] + f[y]
    OBVIOUS
  <2>2. \A u \in SUBSET S : Cardinality(u) = n =>
            c[u] \in Int /\ \A y \in S \ u : c[u \cup {y}] = c[u] + f[y]
    BY <1>5
  <2> HIDE DEF G
  <2>3. ASSUME NEW z \in t
        PROVE  /\ t \ {z} \in SUBSET S /\ z \in S \ (t \ {z}) /\ (t \ {z}) \cup {z} = t
               /\ Cardinality(t \ {z}) = n
               /\ c[t \ {z}] \in Int /\ c[t] = c[t \ {z}] + f[z]
    <3>1. t \ {z} \in SUBSET S /\ z \in S \ (t \ {z}) /\ (t \ {z}) \cup {z} = t
      OBVIOUS
    <3>2. Cardinality(t \ {z}) = n
      <4>1. Cardinality(t \ {z}) = Cardinality(t) - 1
        BY <1>3, FS_RemoveElement
      <4> QED BY <2>1, <4>1
    <3> QED BY <2>2, <3>1, <3>2
  <2>4. t # {}
    BY <2>1, FS_EmptySet
  <2>5. c[t] \in Int
    <3>1. PICK z \in t : TRUE
      BY <2>4
    <3>2. f[z] \in Int
      BY <3>1
    <3>3. c[t \ {z}] \in Int /\ c[t] = c[t \ {z}] + f[z]
      BY <2>3, <3>1
    <3> QED BY <3>2, <3>3
  <2>6. ASSUME NEW y \in S \ t PROVE c[t \cup {y}] = c[t] + f[y]
    <3> PICK s, z : s = t \cup {y} /\ z = Picked(s)
      OBVIOUS
    <3>0. s \in SUBSET S /\ s # {}
      OBVIOUS
    <3>1. s \in SUBSET S /\ s # {} /\ z \in s
      BY <3>0, PickedOut
    <3>2. c[s] = f[z] + c[s \ {z}]
      BY <1>1, <3>1 DEF AddsAt
    <3>3. CASE z = y
      <4>1. s \ {z} = t /\ f[y] \in Int
        BY <3>3
      <4>2. c[s] = f[y] + c[t]
        BY <3>2, <3>3, <4>1
      <4> QED BY <2>5, <4>1, <4>2
    <3>4. CASE z # y
      <4>1. z \in t /\ s \ {z} = (t \ {z}) \cup {y} /\ y \in S \ (t \ {z})
        BY <3>1, <3>4
      <4>2. /\ t \ {z} \in SUBSET S /\ Cardinality(t \ {z}) = n
            /\ c[t \ {z}] \in Int /\ c[t] = c[t \ {z}] + f[z]
        BY <2>3, <4>1
      <4>3. c[(t \ {z}) \cup {y}] = c[t \ {z}] + f[y]
        BY <2>2, <4>1, <4>2
      <4>4. f[z] \in Int /\ f[y] \in Int
        BY <4>1
      <4>5. c[s] = f[z] + (c[t \ {z}] + f[y])
        BY <3>2, <4>1, <4>3
      <4> QED BY <4>2, <4>4, <4>5
    <3> QED BY <3>3, <3>4
  <2> QED BY <2>5, <2>6
<1> HIDE DEF G
<1>6. Nat \subseteq G
  BY <1>4, <1>5, Induct
<1> QED BY <1>3, <1>6 DEF G, InAnyOrder

(* The sums of the first values, one after the other.                         *)
Prefix(p, f, n) ==
    /\ n \in Nat /\ p \in [0 .. n -> Int] /\ f \in [1 .. n -> Int]
    /\ p[0] = 0
    /\ \A k \in 1 .. n : p[k] = p[k - 1] + f[k]

LEMMA AddsPrefix ==
    ASSUME NEW p, NEW f, NEW n, Prefix(p, f, n), NEW a, Adds(a, f, 1 .. n)
    PROVE  a[1 .. n] = p[n]
<1>1. n \in Nat /\ p \in [0 .. n -> Int] /\ f \in [1 .. n -> Int] /\ p[0] = 0
      /\ \A k \in 1 .. n : p[k] = p[k - 1] + f[k]
  BY DEF Prefix
<1> PICK D : D = 1 .. n
  OBVIOUS
<1>2. IsFiniteSet(D)
  <2>1. 1 \in Int /\ n \in Int
    BY <1>1
  <2> QED BY <2>1, FS_Interval
<1>3. \A T \in SUBSET D, x \in D : x \notin T => a[T \cup {x}] = a[T] + f[x]
  <2>1. Summing(a, f, D)
    BY <1>1, <1>2 DEF Summing
  <2>2. InAnyOrder(a, f, D)
    BY <2>1, AddsAny
  <2> QED BY <2>2 DEF InAnyOrder
<1>4. a[{}] = 0
  <2>1. {} \in SUBSET D /\ AddsAt(a, f, {})
    BY DEF Adds, AddsAt
  <2> QED BY <2>1 DEF AddsAt
<1> DEFINE G == {k \in Nat : k <= n => a[1 .. k] = p[k]}
<1>5. 0 \in G
  <2>1. 1 .. 0 = {}
    OBVIOUS
  <2> QED BY <1>1, <1>4, <2>1
<1>6. ASSUME NEW k \in Nat, k \in G PROVE k + 1 \in G
  <2>1. SUFFICES ASSUME k + 1 <= n PROVE a[1 .. k + 1] = p[k + 1]
    OBVIOUS
  <2>2. 1 .. k \in SUBSET D /\ k + 1 \in D \ (1 .. k) /\ (1 .. k) \cup {k + 1} = 1 .. k + 1
    <3>1. 1 .. k \subseteq 1 .. n /\ k + 1 \in 1 .. n /\ k + 1 \notin 1 .. k
      BY <1>1, <2>1
    <3>2. (1 .. k) \cup {k + 1} = 1 .. k + 1
      OBVIOUS
    <3> QED BY <3>1, <3>2, Zenon
  <2>3. a[(1 .. k) \cup {k + 1}] = a[1 .. k] + f[k + 1]
    BY <1>3, <2>2
  <2>4. k <= n /\ (k + 1) - 1 = k /\ k + 1 \in 1 .. n
    BY <1>1, <2>1
  <2>5. p[k + 1] = p[k] + f[k + 1]
    BY <1>1, <2>4
  <2>6. a[1 .. k] = p[k]
    BY <1>6, <2>4
  <2> QED BY <2>2, <2>3, <2>5, <2>6
<1> HIDE DEF G
<1>7. Nat \subseteq G
  BY <1>5, <1>6, Induct
<1>8. n \in Nat /\ n <= n
  BY <1>1
<1> QED BY <1>7, <1>8 DEF G

SumOf(f, n)        == MapThenSumSet(LAMBDA i : f[i], 1 .. n)
SumOfSquares(f, n) == MapThenSumSet(LAMBDA i : f[i] * f[i], 1 .. n)

LEMMA SumIs ==
    ASSUME NEW p, NEW f, NEW n, Prefix(p, f, n)
    PROVE  SumOf(f, n) = p[n]
<1> DEFINE c == CHOOSE it : Adds(it, f, 1 .. n)
<1>1. SumOf(f, n) = c[1 .. n]
  BY DEF SumOf, MapThenSumSet, MapThenFoldSet, Adds, Picked
<1>2. IsFiniteSet(1 .. n)
  <2>1. 1 \in Int /\ n \in Int
    BY DEF Prefix
  <2> QED BY <2>1, FS_Interval
<1>3. Adds(c, f, 1 .. n)
  BY <1>2, AddsExists, Zenon
<1> HIDE DEF c
<1> QED BY <1>1, <1>3, AddsPrefix

LEMMA SquaresAre ==
    ASSUME NEW q, NEW z, NEW n, Prefix(z, [i \in 1 .. n |-> q[i] * q[i]], n)
    PROVE  SumOfSquares(q, n) = z[n]
<1> DEFINE S == 1 .. n
           f == [i \in S |-> q[i] * q[i]]
           Follow(it) == it = [s \in SUBSET S |-> IF s = {} THEN 0
                                 ELSE q[Picked(s)] * q[Picked(s)] + it[s \ {Picked(s)}]]
           c == CHOOSE it : Follow(it)
<1>1. SumOfSquares(q, n) = c[S]
  BY DEF SumOfSquares, MapThenSumSet, MapThenFoldSet, Picked
<1>2. \A s \in SUBSET S : s # {} => Picked(s) \in s /\ f[Picked(s)] = q[Picked(s)] * q[Picked(s)]
  BY DEF Picked
<1>3. ASSUME NEW it PROVE Follow(it) <=> Adds(it, f, S)
  <2> HIDE DEF f
  <2> QED BY <1>2 DEF Adds
<1>4. IsFiniteSet(S)
  <2>1. 1 \in Int /\ n \in Int
    BY DEF Prefix
  <2> QED BY <2>1, FS_Interval
<1> HIDE DEF f, S, Follow
<1>5. \E it : Follow(it)
  BY <1>3, <1>4, AddsExists, Zenon
<1>6. Follow(c)
  BY <1>5, Zenon
<1>7. Adds(c, f, S)
  BY <1>3, <1>6
<1> HIDE DEF c
<1>8. c[S] = z[n]
  BY <1>7, AddsPrefix DEF f, S
<1> QED BY <1>1, <1>8


(* ------- sums of a window, and what one more value does to them ------- *)
Grown(g, f, n, v) == /\ v \in Int /\ g \in [1 .. n + 1 -> Int]
                     /\ \A i \in 1 .. n : g[i] = f[i]
                     /\ g[n + 1] = v
Slid(g, f, n, v)  == /\ v \in Int /\ g \in [1 .. n -> Int] /\ n > 0
                     /\ \A i \in 1 .. n - 1 : g[i] = f[i + 1]
                     /\ g[n] = v
Ends(g, n, s)     == \E q : Prefix(q, g, n) /\ q[n] = s

LEMMA PrefixGrows ==
    ASSUME NEW p, NEW f, NEW n, Prefix(p, f, n), NEW v, NEW g, Grown(g, f, n, v)
    PROVE  Ends(g, n + 1, p[n] + v)
<1> v \in Int /\ g \in [1 .. n + 1 -> Int] /\ (\A i \in 1 .. n : g[i] = f[i]) /\ g[n + 1] = v
  BY DEF Grown
<1> DEFINE q == [k \in 0 .. n + 1 |-> IF k <= n THEN p[k] ELSE p[n] + v]
<1>1. /\ n \in Nat /\ p \in [0 .. n -> Int] /\ f \in [1 .. n -> Int]
      /\ p[0] = 0 /\ \A k \in 1 .. n : p[k] = p[k - 1] + f[k]
  BY DEF Prefix
<1>2. q \in [0 .. n + 1 -> Int] /\ q[0] = 0 /\ q[n + 1] = p[n] + v
  BY <1>1
<1>3. ASSUME NEW k \in 1 .. n + 1 PROVE q[k] = q[k - 1] + g[k]
  <2>1. CASE k <= n
    <3>1. k \in 1 .. n /\ k \in 0 .. n /\ k - 1 \in 0 .. n
      BY <1>1, <2>1
    <3>2. q[k] = p[k] /\ q[k - 1] = p[k - 1] /\ g[k] = f[k]
      BY <1>1, <3>1
    <3> QED BY <1>1, <3>1, <3>2
  <2>2. CASE k = n + 1
    <3>1. q[k - 1] = p[n]
      BY <1>1, <2>2
    <3> QED BY <1>2, <2>2, <3>1
  <2> QED BY <1>1, <2>1, <2>2
<1> HIDE DEF q
<1>4. n + 1 \in Nat
  BY <1>1
<1>5. Prefix(q, g, n + 1)
  BY <1>2, <1>3, <1>4 DEF Prefix
<1> QED BY <1>2, <1>5 DEF Ends

LEMMA PrefixSlides ==
    ASSUME NEW p, NEW f, NEW n, Prefix(p, f, n), NEW v, NEW g, Slid(g, f, n, v)
    PROVE  Ends(g, n, (p[n] - f[1]) + v)
<1> /\ v \in Int /\ g \in [1 .. n -> Int] /\ n > 0
    /\ \A i \in 1 .. n - 1 : g[i] = f[i + 1]
    /\ g[n] = v
  BY DEF Slid
<1> DEFINE q == [k \in 0 .. n |-> IF k < n THEN p[k + 1] - f[1] ELSE (p[n] - f[1]) + v]
<1>1. /\ n \in Nat /\ p \in [0 .. n -> Int] /\ f \in [1 .. n -> Int]
      /\ p[0] = 0 /\ \A k \in 1 .. n : p[k] = p[k - 1] + f[k]
  BY DEF Prefix
<1>2. p[1] = f[1] /\ f[1] \in Int
  <2>1. 1 \in 1 .. n /\ 1 - 1 = 0
    BY <1>1
  <2> QED BY <1>1, <2>1
<1>3. q \in [0 .. n -> Int] /\ q[0] = 0 /\ q[n] = (p[n] - f[1]) + v
  <2>1. ASSUME NEW k \in 0 .. n, k < n PROVE p[k + 1] - f[1] \in Int
    <3>1. k + 1 \in 0 .. n
      BY <1>1, <2>1
    <3>2. p[k + 1] \in Int
      BY <1>1, <3>1, Zenon
    <3> QED BY <1>2, <3>2
  <2>2. n \in 0 .. n /\ 0 \in 0 .. n /\ p[n] \in Int
    BY <1>1
  <2>3. q \in [0 .. n -> Int]
    BY <1>1, <1>2, <2>1, <2>2
  <2>4. q[0] = p[0 + 1] - f[1]
    BY <1>1, <2>2
  <2>5. q[n] = (p[n] - f[1]) + v
    BY <2>2
  <2>6. q[0] = 0
    BY <1>2, <2>4
  <2> HIDE DEF q
  <2> QED BY <2>3, <2>5, <2>6
<1>4. ASSUME NEW k \in 1 .. n PROVE q[k] = q[k - 1] + g[k]
  <2>0. q[k - 1] = p[k] - f[1]
    BY <1>1
  <2>1. CASE k < n
    <3>1. k + 1 \in 1 .. n /\ (k + 1) - 1 = k /\ k \in 1 .. n - 1 /\ k \in 0 .. n
      BY <1>1, <2>1
    <3>2. q[k] = p[k + 1] - f[1] /\ g[k] = f[k + 1] /\ p[k + 1] = p[k] + f[k + 1]
      BY <1>1, <2>1, <3>1
    <3>3. p[k] \in Int /\ f[k + 1] \in Int
      BY <1>1, <3>1
    <3> QED BY <1>2, <2>0, <3>2, <3>3
  <2>2. CASE k = n
    BY <1>3, <2>0, <2>2
  <2> QED BY <1>1, <2>1, <2>2
<1> HIDE DEF q
<1>5. Prefix(q, g, n)
  BY <1>1, <1>3, <1>4 DEF Prefix
<1> QED BY <1>3, <1>5 DEF Ends

(* s is the sum of the n values of r, and Q the sum of their squares.         *)
Squares(r, n) == [i \in 1 .. n |-> r[i] * r[i]]
Sums(r, n, s, Q) == \E p, z : /\ Prefix(p, r, n) /\ Prefix(z, Squares(r, n), n)
                              /\ s = p[n] /\ Q = z[n]

LEMMA SumsGrow ==
    ASSUME NEW r, NEW n, NEW s, NEW Q, Sums(r, n, s, Q), NEW v, NEW g, Grown(g, r, n, v)
    PROVE  Sums(g, n + 1, s + v, Q + v * v)
<1>1. PICK p, z : Prefix(p, r, n) /\ Prefix(z, Squares(r, n), n) /\ s = p[n] /\ Q = z[n]
  BY DEF Sums
<1>2. Ends(g, n + 1, p[n] + v)
  BY <1>1, PrefixGrows
<1>3. Grown(Squares(g, n + 1), Squares(r, n), n, v * v)
  <2>1. n \in Nat
    BY <1>1 DEF Prefix
  <2>2. \A i \in 1 .. n + 1 : g[i] * g[i] \in Int
    BY DEF Grown
  <2>3. Squares(g, n + 1) \in [1 .. n + 1 -> Int]
    BY <2>2 DEF Squares
  <2>4. \A i \in 1 .. n : Squares(g, n + 1)[i] = Squares(r, n)[i]
    BY <2>1 DEF Squares, Grown
  <2>5. v * v \in Int /\ Squares(g, n + 1)[n + 1] = v * v
    BY <2>1 DEF Squares, Grown
  <2> QED BY <2>3, <2>4, <2>5 DEF Grown
<1>4. Ends(Squares(g, n + 1), n + 1, z[n] + v * v)
  BY <1>1, <1>3, PrefixGrows
<1> QED BY <1>1, <1>2, <1>4 DEF Sums, Ends

LEMMA SumsSlide ==
    ASSUME NEW r, NEW n, NEW s, NEW Q, Sums(r, n, s, Q), NEW v, NEW g, Slid(g, r, n, v)
    PROVE  Sums(g, n, (s - r[1]) + v, (Q - r[1] * r[1]) + v * v)
<1>1. PICK p, z : Prefix(p, r, n) /\ Prefix(z, Squares(r, n), n) /\ s = p[n] /\ Q = z[n]
  BY DEF Sums
<1>2. Ends(g, n, (p[n] - r[1]) + v)
  BY <1>1, PrefixSlides
<1>3. Slid(Squares(g, n), Squares(r, n), n, v * v)
  <2>1. n \in Nat /\ n > 0
    BY <1>1 DEF Prefix, Slid
  <2>2. \A i \in 1 .. n : g[i] * g[i] \in Int
    BY DEF Slid
  <2>3. Squares(g, n) \in [1 .. n -> Int]
    BY <2>2 DEF Squares
  <2>4. \A i \in 1 .. n - 1 : Squares(g, n)[i] = Squares(r, n)[i + 1]
    BY <2>1 DEF Squares, Slid
  <2>5. v * v \in Int /\ Squares(g, n)[n] = v * v
    BY <2>1 DEF Squares, Slid
  <2> QED BY <2>1, <2>3, <2>4, <2>5 DEF Slid
<1>4. Squares(r, n)[1] = r[1] * r[1]
  <2>1. 1 \in 1 .. n
    BY <1>1 DEF Prefix, Slid
  <2> QED BY <2>1 DEF Squares
<1>5. Ends(Squares(g, n), n, (z[n] - Squares(r, n)[1]) + v * v)
  BY <1>1, <1>3, PrefixSlides
<1>6. Ends(Squares(g, n), n, (Q - r[1] * r[1]) + v * v)
  BY <1>1, <1>4, <1>5
<1> QED BY <1>1, <1>2, <1>6 DEF Sums, Ends

LEMMA SumsAre ==
    ASSUME NEW r, NEW n, NEW s, NEW Q, Sums(r, n, s, Q)
    PROVE  SumOf(r, n) = s /\ SumOfSquares(r, n) = Q
<1>1. PICK p, z : Prefix(p, r, n) /\ Prefix(z, Squares(r, n), n) /\ s = p[n] /\ Q = z[n]
  BY DEF Sums
<1>2. SumOf(r, n) = p[n]
  BY <1>1, SumIs
<1>3. Prefix(z, [i \in 1 .. n |-> r[i] * r[i]], n)
  BY <1>1 DEF Squares
<1>4. SumOfSquares(r, n) = z[n]
  BY <1>3, SquaresAre
<1> QED BY <1>1, <1>2, <1>4

LEMMA OneMore ==
    ASSUME NEW k \in Nat, NEW a \in Int, NEW b \in Int, NEW v \in Int, k * b - a * a >= 0,
           k = 0 => a = 0 /\ b = 0
    PROVE  (k + 1) * (b + v * v) - (a + v) * (a + v) >= 0
<1> PICK e \in Int : e = b + k * (v * v) - 2 * (a * v)
  OBVIOUS
<1>1. (k + 1) * (b + v * v) - (a + v) * (a + v) = (k * b - a * a) + e
  OBVIOUS
<1>2. e >= 0
  <2>1. CASE k = 0
    BY <2>1
  <2>2. CASE k > 0
    <3>1. k * e = (k * b - a * a) + (k * v - a) * (k * v - a)
      OBVIOUS
    <3>2. (k * v - a) * (k * v - a) >= 0
      <4> PICK x \in Int : x = k * v - a
        OBVIOUS
      <4>1. x * x >= 0
        OBVIOUS
      <4> QED BY <4>1
    <3>3. k * e >= 0
      <4> PICK x \in Int, y \in Int : x = k * b - a * a /\ y = (k * v - a) * (k * v - a)
        OBVIOUS
      <4> QED BY <3>1, <3>2
    <3>4. e < 0 => k * e < 0
      BY <2>2
    <3> QED BY <3>3, <3>4
  <2> QED BY <2>1, <2>2
<1> PICK x \in Int : x = k * b - a * a
  OBVIOUS
<1> QED BY <1>1, <1>2

(* n times the sum of the squares is not below the square of the sum.         *)
LEMMA Spread ==
    ASSUME NEW r, NEW n, NEW s, NEW Q, Sums(r, n, s, Q)
    PROVE  s \in Int /\ Q \in Int /\ n * Q - s * s >= 0
<1>1. PICK p, z : Prefix(p, r, n) /\ Prefix(z, Squares(r, n), n) /\ s = p[n] /\ Q = z[n]
  BY DEF Sums
<1>2. /\ n \in Nat /\ p \in [0 .. n -> Int] /\ z \in [0 .. n -> Int] /\ r \in [1 .. n -> Int]
      /\ p[0] = 0 /\ z[0] = 0
      /\ \A k \in 1 .. n : p[k] = p[k - 1] + r[k]
  BY <1>1 DEF Prefix
<1>3. \A k \in 1 .. n : z[k] = z[k - 1] + r[k] * r[k]
  <2>1. \A k \in 1 .. n : z[k] = z[k - 1] + Squares(r, n)[k]
    BY <1>1 DEF Prefix
  <2> QED BY <2>1 DEF Squares
<1> DEFINE G == {k \in Nat : k <= n => k * z[k] - p[k] * p[k] >= 0}
<1>4. 0 \in G
  BY <1>2
<1>5. ASSUME NEW k \in Nat, k \in G PROVE k + 1 \in G
  <2>1. SUFFICES ASSUME k + 1 <= n
                 PROVE  (k + 1) * z[k + 1] - p[k + 1] * p[k + 1] >= 0
    OBVIOUS
  <2>2. k + 1 \in 1 .. n /\ k \in 0 .. n /\ (k + 1) - 1 = k /\ k <= n
    BY <1>2, <2>1
  <2> PICK a, b, v : a = p[k] /\ b = z[k] /\ v = r[k + 1]
    OBVIOUS
  <2>3. a \in Int /\ b \in Int /\ v \in Int /\ k * b - a * a >= 0 /\ (k = 0 => a = 0 /\ b = 0)
    BY <1>2, <1>5, <2>2
  <2>4. p[k + 1] = a + v /\ z[k + 1] = b + v * v
    BY <1>2, <1>3, <2>2
  <2> QED BY <2>3, <2>4, OneMore
<1> HIDE DEF G
<1>6. Nat \subseteq G
  BY <1>4, <1>5, Induct
<1>7. n \in G /\ n <= n /\ n \in 0 .. n
  BY <1>2, <1>6
<1> QED BY <1>1, <1>2, <1>7 DEF G


(* ------------------------ products of rationals ------------------------ *)
LEMMA Exchange ==
    ASSUME NEW a \in Int, NEW b \in Int, NEW c \in Int, NEW d \in Int
    PROVE  (a * b) * (c * d) = (a * c) * (b * d)
<1>1. (a * b) * (c * d) = ((a * b) * c) * d
  OBVIOUS
<1>2. (a * b) * c = (a * c) * b
  OBVIOUS
<1>3. ((a * c) * b) * d = (a * c) * (b * d)
  OBVIOUS
<1> QED BY <1>1, <1>2, <1>3

LEMMA IsProduct ==
    ASSUME NEW a, NEW b, NEW x, NEW y, NEW D, NEW E, Is(a, x, D), Is(b, y, E)
    PROVE  Is(a ** b, x * y, D * E)
<1> PICK p, q, r, s : p = a.num /\ q = a.den /\ r = b.num /\ s = b.den
  OBVIOUS
<1>1. /\ p \in Int /\ q \in Nat \ {0} /\ x \in Int /\ D \in Nat \ {0} /\ p * D = x * q
      /\ r \in Int /\ s \in Nat \ {0} /\ y \in Int /\ E \in Nat \ {0} /\ r * E = y * s
  BY DEF Is
<1>2. p * r \in Int /\ q * s \in Nat \ {0} /\ x * y \in Int /\ D * E \in Nat \ {0}
  BY <1>1
<1>3. (p * r) * (D * E) = (x * y) * (q * s)
  <2>1. (p * r) * (D * E) = (p * D) * (r * E)
    BY <1>1, Exchange
  <2>2. (x * y) * (q * s) = (x * q) * (y * s)
    BY <1>1, Exchange
  <2> QED BY <1>1, <2>1, <2>2
<1>4. Is(Ratio(p * r, q * s), x * y, D * E)
  <2> PICK n, d, X, F : n = p * r /\ d = q * s /\ X = x * y /\ F = D * E
    OBVIOUS
  <2>1. Is(Ratio(n, d), X, F)
    BY <1>2, <1>3, RatioIsOver
  <2> QED BY <2>1
<1> QED BY <1>4 DEF **

LEMMA Multiple ==
    ASSUME NEW x \in Int, NEW q \in Nat \ {0}
    PROVE  (x * q) % q = 0 /\ (x * q) \div q = x /\ q % q = 0 /\ q \div q = 1
<1> PICK n \in Int : n = x * q
  OBVIOUS
<1>1. n = q * (n \div q) + (n % q) /\ n % q \in 0 .. q - 1 /\ n \div q \in Int
  OBVIOUS
<1> PICK c \in Int, m \in 0 .. q - 1 : c = n \div q /\ m = n % q
  BY <1>1
<1>2. q * (x - c) = m
  BY <1>1
<1>3. x - c = 0
  <2> PICK e \in Int : e = x - c
    OBVIOUS
  <2>1. e > 0 => q * e >= q
    OBVIOUS
  <2>2. e < 0 => q * e < 0
    OBVIOUS
  <2> QED BY <1>2, <2>1, <2>2
<1>4. c = x /\ m = 0
  BY <1>2, <1>3
<1>5. q % q = 0 /\ q \div q = 1
  OBVIOUS
<1> QED BY <1>4, <1>5

LEMMA WholeRatio ==
    ASSUME NEW x \in Int, NEW q \in Nat \ {0}
    PROVE  Ratio(x * q, q) = Whole(x)
<1> PICK n \in Int : n = x * q
  OBVIOUS
<1>1. n % q = 0 /\ n \div q = x /\ q % q = 0 /\ q \div q = 1
  BY Multiple
<1> DEFINE S == {k \in 1 .. q : n % k = 0 /\ q % k = 0}
<1>2. q \in S /\ \A k \in S : k \in 1 .. q
  BY <1>1
<1> HIDE DEF S
<1>3. \A k \in S : q >= k
  BY <1>2
<1>4. Max(S) \in S /\ \A k \in S : Max(S) >= k
  BY <1>2, <1>3 DEF Max
<1>5. Max(S) = q
  <2> PICK m : m = Max(S)
    OBVIOUS
  <2>1. m \in 1 .. q /\ m >= q
    BY <1>2, <1>4
  <2> QED BY <2>1
<1>6. Gcd(n, q) = q
  BY <1>5 DEF Gcd, S
<1> QED BY <1>1, <1>6 DEF Ratio, Whole

LEMMA Clears ==
    ASSUME NEW a, NEW x, NEW D, Is(a, x, D)
    PROVE  a ** Whole(D) = Whole(x)
<1> PICK p, q : p = a.num /\ q = a.den
  OBVIOUS
<1>1. p \in Int /\ q \in Nat \ {0} /\ x \in Int /\ D \in Nat \ {0} /\ p * D = x * q
  BY DEF Is
<1>2. a ** Whole(D) = Ratio(p * D, q * 1)
  BY DEF **, Whole
<1>3. q * 1 = q
  BY <1>1
<1>4. Ratio(x * q, q) = Whole(x)
  BY <1>1, WholeRatio
<1> QED BY <1>1, <1>2, <1>3, <1>4

LEMMA SameValue ==
    ASSUME NEW a, NEW x, NEW D, NEW y, Is(a, x, D), x = y
    PROVE  Is(a, y, D)
OBVIOUS

LEMMA KeptSign ==
    ASSUME NEW a, NEW x, NEW D, Is(a, x, D), x >= 0
    PROVE  NotBelowZero(a) = a
<1> PICK p, q : p = a.num /\ q = a.den
  OBVIOUS
<1>1. p \in Int /\ q \in Nat \ {0} /\ x \in Int /\ D \in Nat \ {0} /\ p * D = x * q
  BY DEF Is
<1>2. x * q >= 0
  BY <1>1
<1>3. p < 0 => p * D < 0
  BY <1>1
<1>4. ~(p < 0)
  <2> PICK u \in Int : u = p * D
    BY <1>1
  <2> QED BY <1>1, <1>2, <1>3
<1> QED BY <1>4 DEF NotBelowZero


(* mu is the mean of n values with sum s, and w the sum of the squares of     *)
(* their distances from it, Q being the sum of their squares.                 *)
Moments(mu, w, n, s, Q) ==
    IF n = 0 THEN mu = Whole(0) /\ w = Whole(0)
    ELSE Is(mu, s, n) /\ Is(w, n * Q - s * s, n)

LEMMA FirstMoments ==
    ASSUME NEW v \in Int, NEW delta, delta = Whole(v) -- Whole(0),
           NEW mu1, mu1 = Whole(0) ++ (delta // (0 + 1)),
           NEW w1, w1 = Whole(0) ++ (delta ** (Whole(v) -- mu1))
    PROVE  Moments(mu1, w1, 0 + 1, 0 + v, 0 + v * v)
<1>1. Is(Whole(v), v, 1) /\ Is(Whole(0), 0, 1)
  BY DEF Is, Whole
<1>2. Is(delta, v, 1)
  <2>1. Is(delta, v - 0, 1) /\ v - 0 = v
    BY <1>1, IsSum
  <2> QED BY <2>1
<1>3. Is(delta // (0 + 1), v, 1)
  <2>1. Is(delta // 1, v, 1 * 1) /\ 1 * 1 = 1 /\ 0 + 1 = 1
    BY <1>2, IsDivided
  <2> QED BY <2>1
<1>4. Is(mu1, v, 1)
  <2> PICK b : b = delta // (0 + 1)
    OBVIOUS
  <2>1. Is(Whole(0) ++ b, 0 + v, 1) /\ 0 + v = v
    BY <1>1, <1>3, IsSum
  <2> QED BY <2>1
<1>5. Is(Whole(v) -- mu1, v - v, 1)
  BY <1>1, <1>4, IsSum
<1>6. Is(delta ** (Whole(v) -- mu1), 0, 1)
  <2> PICK b : b = Whole(v) -- mu1
    OBVIOUS
  <2>1. Is(delta ** b, v * (v - v), 1 * 1)
    BY <1>2, <1>5, IsProduct
  <2>2. v * (v - v) = 0 /\ 1 * 1 = 1
    OBVIOUS
  <2> QED BY <2>1, <2>2
<1>7. Is(w1, 0, 1)
  <2> PICK b : b = delta ** (Whole(v) -- mu1)
    OBVIOUS
  <2>1. Is(Whole(0) ++ b, 0 + 0, 1) /\ 0 + 0 = 0
    BY <1>1, <1>6, IsSum
  <2> QED BY <2>1
<1>8. 0 + 1 = 1 /\ 0 + v = v /\ 1 * (0 + v * v) - v * v = 0
  <2> PICK u \in Int : u = v * v
    OBVIOUS
  <2>1. 0 + 1 = 1 /\ 0 + v = v /\ 1 * (0 + u) - u = 0
    OBVIOUS
  <2> QED BY <2>1
<1> QED BY <1>4, <1>7, <1>8 DEF Moments

LEMMA FilledMoments ==
    ASSUME NEW n \in Nat \ {0}, NEW s \in Int, NEW Q \in Int, NEW v \in Int,
           NEW mu, NEW w, Moments(mu, w, n, s, Q),
           NEW delta, delta = Whole(v) -- mu,
           NEW mu1, mu1 = mu ++ (delta // (n + 1)),
           NEW w1, w1 = w ++ (delta ** (Whole(v) -- mu1))
    PROVE  Moments(mu1, w1, n + 1, s + v, Q + v * v)
<1> PICK e \in Int, V \in Int, d \in Nat \ {0}, m \in Nat \ {0} :
        e = v * n - s /\ V = n * Q - s * s /\ d = n * (n + 1) /\ m = n + 1
  <2>1. v * n - s \in Int /\ n * Q - s * s \in Int /\ n * (n + 1) \in Nat \ {0} /\ n + 1 \in Nat \ {0}
    OBVIOUS
  <2> QED BY <2>1
<1>0. n # 0 /\ Is(mu, s, n) /\ Is(w, V, n) /\ d = n * m /\ d = m * n
  <2>1. n * (n + 1) = (n + 1) * n
    OBVIOUS
  <2> QED BY <2>1 DEF Moments
<1>1. Is(Whole(v), v * n, n) /\ Is(Whole(v), v * m, m)
  BY IsWhole
<1>2. Is(delta, e, n)
  BY <1>0, <1>1, IsSum
<1>3. Is(delta // m, e, d)
  BY <1>0, <1>2, IsDivided
<1>4. Is(mu, s * m, d) /\ Is(w, V * m, d)
  <2>1. Is(mu, s * m, n * m) /\ Is(w, V * m, n * m)
    BY <1>0, IsOver
  <2> QED BY <1>0, <2>1
<1>5. Is(mu1, s + v, m)
  <2>1. Is(mu1, s * m + e, d)
    <3> PICK b : b = delta // m
      OBVIOUS
    <3>1. Is(mu ++ b, s * m + e, d)
      BY <1>3, <1>4, IsSum
    <3> QED BY <3>1
  <2>2. s * m + e = (s + v) * n
    OBVIOUS
  <2>3. Is(mu1, (s + v) * n, m * n) /\ s + v \in Int
    BY <1>0, <2>1, <2>2
  <2> QED BY <2>3, IsOver
<1>6. Is(Whole(v) -- mu1, e, m)
  <2>1. Is(Whole(v) -- mu1, v * m - (s + v), m)
    BY <1>1, <1>5, IsSum
  <2>2. v * m - (s + v) = e
    OBVIOUS
  <2> QED BY <2>1, <2>2
<1>7. Is(delta ** (Whole(v) -- mu1), e * e, d)
  <2> PICK b : b = Whole(v) -- mu1
    OBVIOUS
  <2>1. Is(delta ** b, e * e, n * m)
    BY <1>2, <1>6, IsProduct
  <2> QED BY <1>0, <2>1
<1>8. Is(w1, V * m + e * e, d)
  <2> PICK b : b = delta ** (Whole(v) -- mu1)
    OBVIOUS
  <2>1. Is(w ++ b, V * m + e * e, d)
    BY <1>4, <1>7, IsSum
  <2> QED BY <2>1
<1>9. V * m + e * e = (m * (Q + v * v) - (s + v) * (s + v)) * n
  OBVIOUS
<1>10. Is(w1, m * (Q + v * v) - (s + v) * (s + v), m)
  <2> PICK X \in Int : X = m * (Q + v * v) - (s + v) * (s + v)
    OBVIOUS
  <2>1. Is(w1, X * n, m * n)
    BY <1>0, <1>8, <1>9
  <2> QED BY <2>1, IsOver
<1> QED BY <1>5, <1>10 DEF Moments


LEMMA SlideIdentity ==
    ASSUME NEW n \in Nat \ {0}, NEW s \in Int, NEW Q \in Int, NEW v \in Int, NEW o \in Int
    PROVE  ((n * Q - s * s) * n + (v * n - s) * (v * n - ((s - o) + v)))
               - (o * n - s) * (o * n - ((s - o) + v))
           = (n * ((Q - o * o) + v * v) - ((s - o) + v) * ((s - o) + v)) * n
<1> PICK t \in Int : t = (s - o) + v
  OBVIOUS
<1> PICK P \in Int, R \in Int, b \in Int : P = v * n /\ R = o * n /\ b = s * t
  OBVIOUS
<1>1. (P - s) * (P - t) = P * P - P * (s + t) + b
  OBVIOUS
<1>2. (R - s) * (R - t) = R * R - R * (s + t) + b
  OBVIOUS
<1>3. P * P = (v * v) * (n * n) /\ R * R = (o * o) * (n * n)
  BY Exchange
<1>4. P * (s + t) - R * (s + t) = (t * t - s * s) * n
  <2>1. P - R = (t - s) * n
    OBVIOUS
  <2>2. P * (s + t) - R * (s + t) = (P - R) * (s + t)
    OBVIOUS
  <2>3. ((t - s) * n) * (s + t) = ((t - s) * (s + t)) * n
    OBVIOUS
  <2>4. (t - s) * (s + t) = t * t - s * s
    OBVIOUS
  <2> QED BY <2>1, <2>2, <2>3, <2>4
<1>5. (n * Q - s * s) * n = (Q * (n * n)) - (s * s) * n
  OBVIOUS
<1>6. (n * ((Q - o * o) + v * v) - t * t) * n
        = (Q * (n * n)) - (o * o) * (n * n) + (v * v) * (n * n) - (t * t) * n
  OBVIOUS
<1>7. (t * t - s * s) * n = (t * t) * n - (s * s) * n
  OBVIOUS
<1> PICK A \in Int, B \in Int, C \in Int, D \in Int, E \in Int, F \in Int, G \in Int :
        /\ A = P * (s + t) /\ B = R * (s + t) /\ C = (v * v) * (n * n) /\ D = (o * o) * (n * n)
        /\ E = Q * (n * n) /\ F = (s * s) * n /\ G = (t * t) * n
  OBVIOUS
<1>8. ((E - F) + (C - A + b)) - (D - B + b) = E - D + C - G
  <2>1. A - B = G - F
    BY <1>4, <1>7
  <2> QED BY <2>1
<1> QED BY <1>1, <1>2, <1>3, <1>5, <1>6, <1>8

LEMMA SlidMoments ==
    ASSUME NEW n \in Nat \ {0}, NEW s \in Int, NEW Q \in Int, NEW v \in Int, NEW o \in Int,
           NEW mu, NEW w, Moments(mu, w, n, s, Q),
           n * ((Q - o * o) + v * v) - ((s - o) + v) * ((s - o) + v) >= 0,
           NEW mu1, mu1 = mu ++ (Whole(v - o) // n),
           NEW w1, w1 = NotBelowZero((w ++ ((Whole(v) -- mu) ** (Whole(v) -- mu1)))
                                        -- ((Whole(o) -- mu) ** (Whole(o) -- mu1)))
    PROVE  Moments(mu1, w1, n, (s - o) + v, (Q - o * o) + v * v)
<1> PICK t \in Int, V \in Int, X \in Int, d \in Nat \ {0} :
        /\ t = (s - o) + v /\ V = n * Q - s * s /\ d = n * n
        /\ X = n * ((Q - o * o) + v * v) - ((s - o) + v) * ((s - o) + v)
  <2>1. n * n \in Nat \ {0}
    OBVIOUS
  <2> QED BY <2>1
<1>0. n # 0 /\ Is(mu, s, n) /\ Is(w, V, n) /\ X >= 0
  BY DEF Moments
<1>1. \A k \in Int : Is(Whole(k), k * n, n)
  BY IsWhole
<1>2. Is(mu1, t, n)
  <2>1. Is(Whole(v - o) // n, v - o, n)
    <3>1. Is(Whole(v - o), v - o, 1)
      BY DEF Is, Whole
    <3>2. Is(Whole(v - o) // n, v - o, 1 * n) /\ 1 * n = n
      BY <3>1, IsDivided
    <3> QED BY <3>2
  <2>2. Is(mu1, s + (v - o), n)
    <3> PICK b : b = Whole(v - o) // n
      OBVIOUS
    <3>1. Is(mu ++ b, s + (v - o), n)
      BY <1>0, <2>1, IsSum
    <3> QED BY <3>1
  <2>3. s + (v - o) = t
    OBVIOUS
  <2> QED BY <2>2, <2>3
<1>3. ASSUME NEW k \in Int
      PROVE  Is((Whole(k) -- mu) ** (Whole(k) -- mu1), (k * n - s) * (k * n - t), d)
  <2> PICK a, b : a = Whole(k) -- mu /\ b = Whole(k) -- mu1
    OBVIOUS
  <2>1. Is(a, k * n - s, n) /\ Is(b, k * n - t, n)
    BY <1>0, <1>1, <1>2, IsSum
  <2>2. Is(a ** b, (k * n - s) * (k * n - t), n * n)
    BY <2>1, IsProduct
  <2> QED BY <2>2
<1>4. Is(w, V * n, d)
  BY <1>0, IsOver
<1> PICK a, b, c : /\ a = (Whole(v) -- mu) ** (Whole(v) -- mu1)
                   /\ b = (Whole(o) -- mu) ** (Whole(o) -- mu1)
                   /\ c = (w ++ a) -- b
  OBVIOUS
<1>5. Is(c, (V * n + (v * n - s) * (v * n - t)) - (o * n - s) * (o * n - t), d)
  <2> PICK x, y : x = (v * n - s) * (v * n - t) /\ y = (o * n - s) * (o * n - t)
    OBVIOUS
  <2>1. Is(a, x, d) /\ Is(b, y, d)
    BY <1>3
  <2>2. Is(w ++ a, V * n + x, d)
    BY <1>4, <2>1, IsSum
  <2> PICK u : u = w ++ a
    OBVIOUS
  <2>3. Is(u -- b, (V * n + x) - y, d)
    BY <2>1, <2>2, IsSum
  <2> QED BY <2>3
<1>6. (V * n + (v * n - s) * (v * n - t)) - (o * n - s) * (o * n - t) = X * n
  BY SlideIdentity
<1>7. Is(c, X, n)
  <2>1. Is(c, X * n, n * n)
    BY <1>5, <1>6
  <2> QED BY <2>1, IsOver
<1>8. w1 = c
  BY <1>0, <1>7, KeptSign
<1> QED BY <1>0, <1>2, <1>7, <1>8 DEF Moments


(* ---------------------------- the invariant ---------------------------- *)
RingTypes ==
    /\ count \in 0 .. WindowSize /\ index \in 0 .. WindowSize - 1
    /\ values \in [0 .. WindowSize - 1 -> Int]
    /\ recent \in Seq(Int) /\ Len(recent) = count

(* Where the i-th value of the window is: the ring begins at 0 while it       *)
(* fills, and at the value that is replaced next afterwards.                  *)
Turned(k) == IF k < WindowSize THEN k ELSE k - WindowSize
PlaceOf(i) == IF count < WindowSize THEN i - 1 ELSE Turned(index + (i - 1))

RingIsWindow ==
    /\ count < WindowSize => index = count
    /\ \A i \in 1 .. count : recent[i] = values[PlaceOf(i)]

MomentsAre == \E s, Q : Sums(recent, count, s, Q) /\ Moments(mean, m2, count, s, Q)

StatsInv == RingTypes /\ RingIsWindow /\ MomentsAre

LEMMA NoSums ==
    /\ Sums(<<>>, 0, 0, 0)
    /\ \A r, s, Q : Sums(r, 0, s, Q) => s = 0 /\ Q = 0
<1>1. \A r, s, Q : Sums(r, 0, s, Q) => s = 0 /\ Q = 0
  BY DEF Sums, Prefix
<1> DEFINE p == [k \in 0 .. 0 |-> 0]
<1>2. <<>> \in [1 .. 0 -> Int] /\ Squares(<<>>, 0) \in [1 .. 0 -> Int]
  BY DEF Squares
<1>3. p \in [0 .. 0 -> Int] /\ p[0] = 0
  OBVIOUS
<1> HIDE DEF p
<1>4. Prefix(p, <<>>, 0) /\ Prefix(p, Squares(<<>>, 0), 0)
  BY <1>2, <1>3 DEF Prefix
<1> QED BY <1>1, <1>3, <1>4 DEF Sums

LEMMA StatsStart == StatsInit => StatsInv
<1> SUFFICES ASSUME StatsInit PROVE StatsInv
  OBVIOUS
<1>0. WindowSize \in Nat \ {0}
  BY WindowAssumption
<1>1. RingTypes /\ RingIsWindow
  BY <1>0 DEF StatsInit, RingTypes, RingIsWindow
<1>2. MomentsAre
  BY NoSums DEF StatsInit, MomentsAre, Moments
<1> QED BY <1>1, <1>2 DEF StatsInv

LEMMA FillRing ==
    ASSUME StatsInv, NEW v \in Sample, add(v), count < WindowSize
    PROVE  RingTypes' /\ RingIsWindow' /\ Grown(recent', recent, count, v) /\ FillWindow(v)
<1>0. WindowSize \in Nat \ {0} /\ v \in Int
  BY WindowAssumption
<1>1. /\ count \in 0 .. WindowSize /\ index = count /\ values \in [0 .. WindowSize - 1 -> Int]
      /\ recent \in Seq(Int) /\ Len(recent) = count
      /\ \A i \in 1 .. count : recent[i] = values[i - 1]
  BY DEF StatsInv, RingTypes, RingIsWindow, PlaceOf
<1>2. FillWindow(v)
  <2>1. count # WindowSize
    BY <1>0, <1>1
  <2> QED BY <2>1 DEF add, SlideWindow
<1>3. /\ count' = count + 1 /\ values' = [values EXCEPT ![index] = v]
      /\ index' = (index + 1) % WindowSize /\ recent' = Append(recent, v)
  BY <1>2 DEF FillWindow, add
<1>4. index' = IF index + 1 = WindowSize THEN 0 ELSE index + 1
  <2>1. CASE index + 1 = WindowSize
    <3>1. WindowSize % WindowSize = 0
      BY <1>0
    <3> QED BY <1>3, <2>1, <3>1
  <2>2. CASE index + 1 # WindowSize
    <3>1. index + 1 \in Nat /\ index + 1 < WindowSize
      BY <1>0, <1>1, <2>2
    <3>2. (index + 1) % WindowSize = index + 1
      BY <1>0, <3>1
    <3> QED BY <1>3, <2>2, <3>2
  <2> QED BY <2>1, <2>2
<1>5. /\ recent' \in Seq(Int) /\ Len(recent') = count + 1 /\ recent'[count + 1] = v
      /\ \A i \in 1 .. count : recent'[i] = recent[i]
      /\ recent' \in [1 .. count + 1 -> Int]
  <2> PICK t : t = recent'
    OBVIOUS
  <2>1. t \in Seq(Int) /\ Len(t) = Len(recent) + 1 /\ t[Len(recent) + 1] = v
        /\ \A i \in 1 .. Len(recent) : t[i] = recent[i]
    <3>1. t = Append(recent, v)
      BY <1>3
    <3> QED BY <1>0, <1>1, <3>1
  <2>2. t \in [1 .. Len(t) -> Int]
    BY <2>1
  <2> QED BY <1>1, <2>1, <2>2
<1>6. RingTypes'
  BY <1>0, <1>1, <1>3, <1>4, <1>5 DEF RingTypes
<1>7. ASSUME NEW i \in 1 .. count + 1 PROVE recent'[i] = values'[i - 1]
  <2>1. CASE i = count + 1
    BY <1>0, <1>1, <1>3, <1>5, <2>1
  <2>2. CASE i \in 1 .. count
    <3>1. i - 1 \in 0 .. WindowSize - 1 /\ i - 1 # index
      BY <1>0, <1>1, <2>2
    <3>2. values'[i - 1] = values[i - 1]
      BY <1>1, <1>3, <3>1
    <3> QED BY <1>1, <1>5, <2>2, <3>2
  <2> QED BY <1>1, <2>1, <2>2
<1>8. RingIsWindow'
  <2>1. count' < WindowSize => index' = count'
    BY <1>0, <1>1, <1>3, <1>4
  <2>2. ASSUME NEW i \in 1 .. count' PROVE PlaceOf(i)' = i - 1
    <3>1. CASE count' < WindowSize
      BY <3>1 DEF PlaceOf
    <3>2. CASE ~(count' < WindowSize)
      <4>1. index' = 0 /\ count' = WindowSize /\ i \in 1 .. WindowSize
        BY <1>0, <1>1, <1>3, <1>4, <3>2
      <4> QED BY <1>0, <3>2, <4>1 DEF PlaceOf, Turned
    <3> QED BY <3>1, <3>2
  <2> QED BY <1>3, <1>7, <2>1, <2>2 DEF RingIsWindow
<1>9. Grown(recent', recent, count, v)
  BY <1>0, <1>5 DEF Grown
<1> QED BY <1>2, <1>6, <1>8, <1>9

LEMMA SlideRing ==
    ASSUME StatsInv, NEW v \in Sample, add(v), ~(count < WindowSize)
    PROVE  /\ RingTypes' /\ RingIsWindow' /\ Slid(recent', recent, count, v)
           /\ SlideWindow(v, recent[1])
<1>0. WindowSize \in Nat \ {0} /\ v \in Int
  BY WindowAssumption
<1>1. /\ count = WindowSize /\ index \in 0 .. WindowSize - 1
      /\ values \in [0 .. WindowSize - 1 -> Int]
      /\ recent \in Seq(Int) /\ Len(recent) = WindowSize
      /\ \A i \in 1 .. WindowSize : recent[i] = values[Turned(index + (i - 1))]
  <2>1. count = WindowSize
    BY <1>0 DEF StatsInv, RingTypes
  <2> QED BY <1>0, <2>1 DEF StatsInv, RingTypes, RingIsWindow, PlaceOf
<1>2. recent[1] = values[index]
  <2>1. 1 \in 1 .. WindowSize /\ Turned(index + (1 - 1)) = index
    BY <1>0, <1>1 DEF Turned
  <2> QED BY <1>1, <2>1
<1>3. SlideWindow(v, recent[1])
  BY <1>0, <1>2 DEF add, FillWindow
<1>4. /\ count' = count /\ values' = [values EXCEPT ![index] = v]
      /\ index' = (index + 1) % WindowSize /\ recent' = Append(Tail(recent), v)
  BY <1>3 DEF SlideWindow, add
<1>5. index' = IF index + 1 = WindowSize THEN 0 ELSE index + 1
  <2>1. CASE index + 1 = WindowSize
    <3>1. WindowSize % WindowSize = 0
      BY <1>0
    <3> QED BY <1>4, <2>1, <3>1
  <2>2. CASE index + 1 # WindowSize
    <3>1. index + 1 \in Nat /\ index + 1 < WindowSize
      BY <1>0, <1>1, <2>2
    <3>2. (index + 1) % WindowSize = index + 1
      BY <1>0, <3>1
    <3> QED BY <1>4, <2>2, <3>2
  <2> QED BY <2>1, <2>2
<1>6. /\ recent' \in Seq(Int) /\ Len(recent') = WindowSize /\ recent'[WindowSize] = v
      /\ \A i \in 1 .. WindowSize - 1 : recent'[i] = recent[i + 1]
  <2> PICK t : t = Tail(recent)
    OBVIOUS
  <2>1. recent # <<>>
    BY <1>0, <1>1
  <2>2. t \in Seq(Int) /\ Len(t) = WindowSize - 1
        /\ \A i \in 1 .. WindowSize - 1 : t[i] = recent[i + 1]
    BY <1>0, <1>1, <2>1
  <2>3. recent' = Append(t, v)
    BY <1>4
  <2>4. recent' \in Seq(Int) /\ Len(recent') = Len(t) + 1 /\ recent'[Len(t) + 1] = v
        /\ \A i \in 1 .. Len(t) : recent'[i] = t[i]
    BY <1>0, <2>2, <2>3
  <2>5. Len(t) + 1 = WindowSize
    BY <1>0, <2>2
  <2> QED BY <2>2, <2>4, <2>5
<1>7. recent' \in [1 .. WindowSize -> Int]
  BY <1>6
<1>8. RingTypes'
  BY <1>0, <1>1, <1>4, <1>5, <1>6 DEF RingTypes
<1>9. ASSUME NEW i \in 1 .. WindowSize
      PROVE  recent'[i] = values'[Turned(index' + (i - 1))]
  <2> PICK k : k = Turned(index' + (i - 1))
    OBVIOUS
  <2>1. CASE i = WindowSize
    <3>1. k = index
      BY <1>0, <1>1, <1>5, <2>1 DEF Turned
    <3>2. values'[index] = v
      BY <1>1, <1>4
    <3> QED BY <1>6, <2>1, <3>1, <3>2
  <2>2. CASE i \in 1 .. WindowSize - 1
    <3>1. k = Turned(index + i) /\ k \in 0 .. WindowSize - 1 /\ k # index
      BY <1>0, <1>1, <1>5, <2>2 DEF Turned
    <3>2. i + 1 \in 1 .. WindowSize /\ (i + 1) - 1 = i
      BY <1>0, <2>2
    <3>3. recent[i + 1] = values[k]
      BY <1>1, <3>1, <3>2
    <3>4. values'[k] = values[k]
      BY <1>1, <1>4, <3>1
    <3> QED BY <1>6, <2>2, <3>3, <3>4
  <2> QED BY <1>0, <2>1, <2>2
<1>10. RingIsWindow'
  <2>1. ~(count' < WindowSize) /\ count' = WindowSize
    BY <1>0, <1>1, <1>4
  <2>2. ASSUME NEW i \in 1 .. WindowSize PROVE recent'[i] = values'[PlaceOf(i)']
    <3>1. PlaceOf(i)' = Turned(index' + (i - 1))
      BY <2>1 DEF PlaceOf, Turned
    <3> QED BY <1>9, <3>1
  <2> QED BY <2>1, <2>2 DEF RingIsWindow
<1>11. Slid(recent', recent, count, v)
  BY <1>0, <1>1, <1>6, <1>7 DEF Slid
<1> QED BY <1>3, <1>8, <1>10, <1>11

LEMMA StatsStep == StatsInv /\ [StatsNext]_statsVars => StatsInv'
<1> SUFFICES ASSUME StatsInv, [StatsNext]_statsVars PROVE StatsInv'
  OBVIOUS
<1>1. CASE UNCHANGED statsVars
  BY <1>1 DEF statsVars, StatsInv, RingTypes, RingIsWindow, PlaceOf, MomentsAre
<1>2. CASE StatsNext
  <2>1. PICK v \in Sample : add(v)
    BY <1>2 DEF StatsNext
  <2>2. v \in Int /\ WindowSize \in Nat \ {0} /\ count \in 0 .. WindowSize
    BY WindowAssumption DEF StatsInv, RingTypes
  <2>3. PICK s, Q : Sums(recent, count, s, Q) /\ Moments(mean, m2, count, s, Q)
    BY DEF StatsInv, MomentsAre
  <2>4. s \in Int /\ Q \in Int
    BY <2>3, Spread
  <2>5. CASE count < WindowSize
    <3>1. RingTypes' /\ RingIsWindow' /\ Grown(recent', recent, count, v) /\ FillWindow(v)
      BY <2>1, <2>5, FillRing
    <3>2. Sums(recent', count + 1, s + v, Q + v * v)
      BY <2>3, <3>1, SumsGrow
    <3> PICK delta : delta = Whole(v) -- mean
      OBVIOUS
    <3>3. /\ count' = count + 1 /\ mean' = mean ++ (delta // (count + 1))
          /\ m2' = m2 ++ (delta ** (Whole(v) -- mean'))
      BY <3>1 DEF FillWindow
    <3>4. Moments(mean', m2', count + 1, s + v, Q + v * v)
      <4>1. CASE count = 0
        <5>1. s = 0 /\ Q = 0 /\ mean = Whole(0) /\ m2 = Whole(0)
          BY <2>3, <4>1, NoSums DEF Moments
        <5>2. /\ delta = Whole(v) -- Whole(0) /\ mean' = Whole(0) ++ (delta // (0 + 1))
              /\ m2' = Whole(0) ++ (delta ** (Whole(v) -- mean'))
          BY <3>3, <4>1, <5>1
        <5>3. Moments(mean', m2', 0 + 1, 0 + v, 0 + v * v)
          BY <2>2, <5>2, FirstMoments
        <5> QED BY <4>1, <5>1, <5>3
      <4>2. CASE count # 0
        <5>1. count \in Nat \ {0}
          BY <2>2, <4>2
        <5> QED BY <2>2, <2>3, <2>4, <3>3, <5>1, FilledMoments
      <4> QED BY <4>1, <4>2
    <3>5. MomentsAre'
      BY <3>2, <3>3, <3>4 DEF MomentsAre
    <3> QED BY <3>1, <3>5 DEF StatsInv
  <2>6. CASE ~(count < WindowSize)
    <3>1. /\ RingTypes' /\ RingIsWindow' /\ Slid(recent', recent, count, v)
          /\ SlideWindow(v, recent[1])
      BY <2>1, <2>6, SlideRing
    <3> PICK o : o = recent[1]
      OBVIOUS
    <3>2. count \in Nat \ {0} /\ o \in Int
      <4>1. count = WindowSize /\ recent \in Seq(Int) /\ Len(recent) = count
        BY <2>2, <2>6 DEF StatsInv, RingTypes
      <4> QED BY <2>2, <4>1
    <3>3. Sums(recent', count, (s - o) + v, (Q - o * o) + v * v)
      BY <2>3, <3>1, SumsSlide
    <3>4. count * ((Q - o * o) + v * v) - ((s - o) + v) * ((s - o) + v) >= 0
      BY <3>3, Spread
    <3>5. /\ count' = count /\ count = WindowSize
          /\ mean' = mean ++ (Whole(v - o) // count)
          /\ m2' = NotBelowZero((m2 ++ ((Whole(v) -- mean) ** (Whole(v) -- mean')))
                                    -- ((Whole(o) -- mean) ** (Whole(o) -- mean')))
      BY <3>1 DEF SlideWindow
    <3>6. Moments(mean', m2', count, (s - o) + v, (Q - o * o) + v * v)
      BY <2>2, <2>3, <2>4, <3>2, <3>4, <3>5, SlidMoments
    <3>7. MomentsAre'
      BY <3>3, <3>5, <3>6 DEF MomentsAre
    <3> QED BY <3>1, <3>7 DEF StatsInv
  <2> QED BY <2>5, <2>6
<1> QED BY <1>1, <1>2

LEMMA StatsPromise == StatsInv => MomentsOfWindow
<1> SUFFICES ASSUME StatsInv PROVE MomentsOfWindow
  OBVIOUS
<1> PICK n : n = count
  OBVIOUS
<1>1. PICK s, Q : Sums(recent, n, s, Q) /\ Moments(mean, m2, n, s, Q)
  BY DEF StatsInv, MomentsAre
<1>2. Len(recent) = n /\ n \in Nat
  BY WindowAssumption DEF StatsInv, RingTypes
<1>3. SumOf(recent, n) = s /\ SumOfSquares(recent, n) = Q
  BY <1>1, SumsAre
<1>4. mean ** Whole(n) = Whole(s)
  <2>1. CASE n = 0
    <3>1. mean = Whole(0) /\ s = 0
      BY <1>1, <2>1, NoSums DEF Moments
    <3>2. Is(Whole(0), 0, 1)
      BY DEF Is, Whole
    <3>3. Whole(0) ** Whole(0) = Whole(0)
      <4>1. Whole(0) ** Whole(0) = Ratio(0 * 0, 1 * 1) /\ 0 * 0 = 0 * 1 /\ 1 * 1 = 1
        BY DEF **, Whole
      <4>2. Ratio(0 * 1, 1) = Whole(0)
        BY WholeRatio
      <4> QED BY <4>1, <4>2
    <3> QED BY <2>1, <3>1, <3>3
  <2>2. CASE n # 0
    <3>1. Is(mean, s, n)
      BY <1>1, <2>2 DEF Moments
    <3> QED BY <3>1, Clears
  <2> QED BY <2>1, <2>2
<1>5. n > 1 => variance ** Whole(n * (n - 1)) = Whole(n * Q - s * s)
  <2>1. SUFFICES ASSUME n > 1 PROVE variance ** Whole(n * (n - 1)) = Whole(n * Q - s * s)
    OBVIOUS
  <2>2. n # 0 /\ n - 1 \in Nat \ {0} /\ ~(count < 2)
    BY <1>2, <2>1
  <2>3. Is(m2, n * Q - s * s, n)
    BY <1>1, <2>2 DEF Moments
  <2>4. variance = m2 // (n - 1)
    BY <2>2 DEF variance
  <2>5. Is(variance, n * Q - s * s, n * (n - 1))
    BY <2>2, <2>3, <2>4, IsDivided
  <2> QED BY <2>5, Clears
<1>6. is_ready <=> n = WindowSize
  BY DEF is_ready
<1>7. n = count
  OBVIOUS
<1> QED BY <1>2, <1>3, <1>4, <1>5, <1>6, <1>7 DEF MomentsOfWindow, SumOf, SumOfSquares

(* n times the mean is the sum of the last n values, and n(n-1) times the     *)
(* variance is n times the sum of their squares less the square of the sum,   *)
(* for any window size and however often the ring of values goes round.       *)
THEOREM MomentsAreOfWindow == MCSpec => []MomentsOfWindow
<1>1. MCInit => StatsInv
  BY StatsStart DEF MCInit
<1> QED BY <1>1, Alone, StatsStep, StatsPromise, PTL DEF MCSpec

(* ------------------------------ all the types ------------------------------ *)

LEMMA PoolTyped == PoolInv => PoolTypeOK
<1> SUFFICES ASSUME PoolInv PROVE PoolTypeOK
  OBVIOUS
<1>1. Capacity - allocated \in 0 .. Capacity
  <2>1. PICK F : Threaded(F, Capacity - allocated, Capacity, Null, freelist_head, word)
    BY DEF PoolInv, Threads
  <2>2. Capacity - allocated \in Nat
    BY <2>1 DEF Threaded
  <2> PICK n : n = Capacity - allocated
    OBVIOUS
  <2>3. Threaded(F, n, Capacity, Null, freelist_head, word)
    BY <2>1
  <2>4. n <= Capacity
    BY <2>3, CapacityAssumption, ThreadLength
  <2> QED BY <2>2, <2>4, CapacityAssumption
<1>2. allocated \in 0 .. Capacity
  BY <1>1, CapacityAssumption DEF PoolInv
<1> QED BY <1>2 DEF PoolInv, PoolTypeOK

LEMMA ArenaTyped == ArenaInv => ArenaTypeOK
BY DEF ArenaInv, ArenaTypeOK

LEMMA VectorTyped == VectorInv => VectorTypeOK
<1> SUFFICES ASSUME VectorInv PROVE VectorTypeOK
  OBVIOUS
<1>1. ASSUME NEW v \in alive
      PROVE  /\ size[v] \in 0 .. MaxElements /\ size[v] <= vcapacity[v]
             /\ vcapacity[v] = N <=> ~is_heap(v)
             /\ Len(Data(v)) = size[v]
  <2>1. Stored(v) /\ size[v] \in Nat /\ vcapacity[v] \in Nat /\ N \in Nat /\ MaxElements \in Nat
    BY VectorAssumption DEF VectorInv, VectorTypes
  <2>2. Data(v) = expected[v]
    BY <2>1 DEF Data, is_heap, Stored
  <2>3. vcapacity[v] = N <=> ~is_heap(v)
    BY <2>1 DEF is_heap, Stored
  <2> QED BY <2>1, <2>2, <2>3 DEF Stored
<1> QED BY <1>1 DEF VectorInv, VectorTypes, VectorTypeOK

LEMMA SignalTyped ==
    /\ SignalInit => SignalTypeOK
    /\ SignalTypeOK /\ [SignalNext]_signalVars => SignalTypeOK'
<1>1. EmptyBook \in Books
  <2>1. EmptyBook = BookState(0, 0, 0, 0) /\ ~TwoSided(EmptyBook)
    BY DEF EmptyBook, TwoSided, BookState
  <2> PICK q : q = [price |-> 0, volume |-> 0]
    OBVIOUS
  <2>2. q \in BookQuote /\ q.price = 0 /\ q.volume = 0
    BY DEF BookQuote
  <2>3. EmptyBook \in {BookState(x.price, x.volume, y.price, y.volume) : x, y \in BookQuote}
    BY <2>1, <2>2
  <2> QED BY <2>1, <2>3 DEF Books
<1>2. SignalInit => SignalTypeOK
  BY <1>1 DEF SignalInit, SignalTypeOK
<1>3. SignalTypeOK /\ [SignalNext]_signalVars => SignalTypeOK'
  BY DEF SignalTypeOK, SignalNext, update_and_get_ofi, signalVars
<1> QED BY <1>2, <1>3

(* A ratio has the sign of its numerator.                                     *)
LEMMA Signed ==
    ASSUME NEW a, NEW x, NEW D, Is(a, x, D)
    PROVE  /\ a.num \in Int /\ a.den \in Nat \ {0}
           /\ x >= 0 => a.num >= 0
           /\ x > 0 => a.num > 0
<1> PICK p, q : p = a.num /\ q = a.den
  OBVIOUS
<1>1. p \in Int /\ q \in Nat \ {0} /\ x \in Int /\ D \in Nat \ {0} /\ p * D = x * q
  BY DEF Is
<1>2. x >= 0 => x * q >= 0
  BY <1>1
<1>3. p < 0 => p * D < 0
  BY <1>1
<1>4. x > 0 => x * q > 0
  BY <1>1
<1>5. p <= 0 => p * D <= 0
  BY <1>1
<1> PICK u \in Int : u = p * D
  BY <1>1
<1>6. (x >= 0 => p >= 0) /\ (x > 0 => p > 0)
  BY <1>1, <1>2, <1>3, <1>4, <1>5
<1> QED BY <1>1, <1>6

LEMMA StatsTypes ==
    /\ StatsInv => m2.num >= 0
    /\ StatsInit => values \in [0 .. WindowSize - 1 -> Sample \cup {0}]
    /\ /\ StatsInv /\ values \in [0 .. WindowSize - 1 -> Sample \cup {0}]
       /\ [StatsNext]_statsVars
       => (values \in [0 .. WindowSize - 1 -> Sample \cup {0}])'
<1>1. StatsInv => m2.num >= 0
  <2> SUFFICES ASSUME StatsInv PROVE m2.num >= 0
    OBVIOUS
  <2>1. PICK s, Q : Sums(recent, count, s, Q) /\ Moments(mean, m2, count, s, Q)
    BY DEF StatsInv, MomentsAre
  <2>2. CASE count = 0
    BY <2>1, <2>2 DEF Moments, Whole
  <2>3. CASE count # 0
    <3>1. Is(m2, count * Q - s * s, count)
      BY <2>1, <2>3 DEF Moments
    <3>2. count * Q - s * s >= 0
      BY <2>1, Spread
    <3> QED BY <3>1, <3>2, Signed
  <2> QED BY <2>2, <2>3
<1>2. StatsInit => values \in [0 .. WindowSize - 1 -> Sample \cup {0}]
  BY DEF StatsInit
<1>3. ASSUME StatsInv, values \in [0 .. WindowSize - 1 -> Sample \cup {0}], [StatsNext]_statsVars
      PROVE  (values \in [0 .. WindowSize - 1 -> Sample \cup {0}])'
  BY <1>3 DEF StatsNext, statsVars, add
<1> QED BY <1>1, <1>2, <1>3

Positive(a) == a.num \in Nat \ {0} /\ a.den \in Nat \ {0}
ClockTypes ==
    /\ c1 \in Nat /\ latency \in Nat
    /\ Normal(t1) /\ Normal(t2) /\ Normal(deadline)
    /\ Positive(ns_per_cycle)

LEMMA ClockTypesStart == ClockInit => ClockTypes
<1> SUFFICES ASSUME ClockInit PROVE ClockTypes
  OBVIOUS
<1>1. Normal(Timespec(0))
  BY TimespecNs
<1> QED BY <1>1, DefaultAssumption DEF ClockInit, ClockTypes, Positive

LEMMA Elapsed ==
    ASSUME ClockInv, clock_pc = "spun"
    PROVE  elapsed_ns \in Nat \ {0}
<1>1. /\ Normal(t1) /\ Normal(t2) /\ Ns(t2) = now /\ Ns(deadline) <= now
      /\ Ns(deadline) = Ns(t1) + Interval /\ now \in Nat
  BY DEF ClockInv
<1> PICK a, b, c, d, S, s, n : /\ a = t1.tv_sec /\ b = t1.tv_nsec /\ c = t2.tv_sec
                               /\ d = t2.tv_nsec /\ S = Second
                               /\ s = a * S + b /\ n = c * S + d
  OBVIOUS
<1>2. a \in Nat /\ b \in Nat /\ c \in Nat /\ d \in Nat /\ S \in Nat
      /\ Interval \in Nat \ {0}
  BY <1>1, CalibrationAssumption DEF Normal
<1>3. (c - a) * S + d - b = (c * S + d) - (a * S + b)
  BY <1>2
<1>4. s = Ns(t1) /\ n = Ns(t2) /\ s \in Nat /\ n \in Nat
  BY <1>2 DEF Ns
<1>5. n - s \in Nat \ {0}
  BY <1>1, <1>2, <1>4
<1> QED BY <1>3, <1>5 DEF elapsed_ns

LEMMA Nanoseconds ==
    ASSUME Positive(ns_per_cycle), NEW k \in Nat
    PROVE  to_ns_u64(k) \in Nat
<1> PICK r, x, D : r = ns_per_cycle /\ x = r.num /\ D = r.den
  OBVIOUS
<1>1. x \in Nat /\ D \in Nat \ {0} /\ Is(r, x, D)
  BY DEF Positive, Is
<1>2. Is(to_ns(k), k * x, D) /\ k * x \in Nat
  <2>1. Is(Whole(k) ** r, k * x, D)
    BY <1>1, IsScaled
  <2> QED BY <1>1, <2>1 DEF to_ns
<1>3. Is(to_ns(k), (k * x) * 2, D * 2)
  <2> PICK y : y = k * x
    OBVIOUS
  <2>1. Is(to_ns(k), y * 2, D * 2)
    BY <1>1, <1>2, IsOver
  <2> QED BY <2>1
<1>4. Is(Ratio(1, 2), 1 * D, D * 2)
  <2>1. Is(Ratio(1, 2), 1, 2)
    BY RatioIs
  <2>2. Is(Ratio(1, 2), 1 * D, 2 * D) /\ 2 * D = D * 2
    BY <1>1, <2>1, IsOver
  <2> QED BY <2>2
<1> PICK b, y, z, E : b = Ratio(1, 2) /\ y = (k * x) * 2 /\ z = 1 * D /\ E = D * 2
  OBVIOUS
<1>5. Is(to_ns(k) ++ b, y + z, E) /\ y + z >= 0
  <2>1. Is(to_ns(k) ++ b, y + z, E)
    BY <1>3, <1>4, IsSum
  <2>2. y \in Nat /\ z \in Nat
    BY <1>1, <1>2
  <2> QED BY <2>1, <2>2
<1>6. Truncate(to_ns(k) ++ b) \in Nat
  BY <1>5, TruncateIs
<1> QED BY <1>6 DEF to_ns_u64

LEMMA ClockTypesStep == ClockInv /\ ClockTypes /\ [ClockNext]_clockVars => ClockTypes'
<1> SUFFICES ASSUME ClockInv, ClockTypes, [ClockNext]_clockVars PROVE ClockTypes'
  OBVIOUS
<1>0. now \in Nat /\ CyclesPerNs \in Nat /\ MaxGap \in Nat /\ Second \in Nat \ {0}
      /\ Interval \in Nat /\ Behind \in Nat
  BY CalibrationAssumption DEF ClockInv
<1>1. CASE SampleStart
  <2>1. PICK start \in 0 .. Second - 1, gap \in 0 .. MaxGap :
            t1' = Timespec(start) /\ now' = start + gap
    BY <1>1 DEF SampleStart
  <2>2. deadline' = Deadline(t1') /\ c1' = Counter(now')
        /\ UNCHANGED <<t2, ns_per_cycle, latency>>
    BY <1>1 DEF SampleStart
  <2>3. Normal(t1') /\ t1' = [tv_sec |-> t1'.tv_sec, tv_nsec |-> t1'.tv_nsec]
    <3>1. start \in Nat
      BY <1>0
    <3> QED BY <2>1, <3>1, TimespecNs DEF Timespec
  <2>4. Normal(deadline')
    BY <2>2, <2>3, DeadlineNs
  <2>5. c1' \in Nat
    <3> PICK m : m = start + gap
      OBVIOUS
    <3>1. m \in Nat /\ m * CyclesPerNs \in Nat
      BY <1>0
    <3> QED BY <2>1, <2>2, <3>1 DEF Counter
  <2> QED BY <2>2, <2>3, <2>4, <2>5 DEF ClockTypes, Normal, Positive
<1>2. CASE Spin
  <2>1. t2' = Timespec(now') /\ now' \in Nat /\ UNCHANGED <<t1, c1, deadline, ns_per_cycle, latency>>
    BY <1>0, <1>2 DEF Spin
  <2>2. Normal(t2')
    BY <2>1, TimespecNs
  <2> QED BY <2>1, <2>2 DEF ClockTypes, Normal, Positive
<1>3. ASSUME NEW behind \in {0, Behind}, SampleEnd(behind) PROVE ClockTypes'
  <2>1. /\ clock_pc = "spun" /\ now' \in Nat
        /\ ns_per_cycle' = IF Counter(now') - behind > c1
                           THEN Ratio(elapsed_ns, (Counter(now') - behind) - c1) ELSE ns_per_cycle
        /\ UNCHANGED <<t1, c1, t2, deadline, latency>>
    BY <1>0, <1>3 DEF SampleEnd
  <2>2. Positive(ns_per_cycle')
    <3> PICK k, e, n : k = (Counter(now') - behind) - c1 /\ e = elapsed_ns /\ n = now'
      OBVIOUS
    <3>1. CASE Counter(now') - behind > c1
      <4>1. Counter(n) \in Int
        <5>1. n * CyclesPerNs \in Int
          BY <1>0, <2>1
        <5> QED BY <5>1 DEF Counter
      <4>2. k \in Nat \ {0} /\ e \in Nat \ {0}
        BY <1>0, <2>1, <3>1, <4>1, Elapsed DEF ClockTypes
      <4>3. Is(Ratio(e, k), e, k)
        BY <4>2, RatioIs
      <4>4. Positive(Ratio(e, k))
        BY <4>2, <4>3, Signed DEF Positive
      <4> QED BY <2>1, <3>1, <4>4
    <3>2. CASE ~(Counter(now') - behind > c1)
      BY <2>1, <3>2 DEF ClockTypes
    <3> QED BY <3>1, <3>2
  <2> QED BY <2>1, <2>2 DEF ClockTypes, Normal, Positive
<1>4. ASSUME NEW ns \in 0 .. MaxCall, MeasureCall(ns) PROVE ClockTypes'
  <2>1. latency' = to_ns_u64(Counter(ns)) /\ UNCHANGED <<t1, c1, t2, deadline, ns_per_cycle>>
    BY <1>4 DEF MeasureCall
  <2>2. Counter(ns) \in Nat
    <3>1. ns \in Nat /\ ns * CyclesPerNs \in Nat
      BY <1>0, CalibrationAssumption
    <3> QED BY <3>1 DEF Counter
  <2>3. latency' \in Nat
    BY <2>1, <2>2, Nanoseconds DEF ClockTypes
  <2> QED BY <2>1, <2>3 DEF ClockTypes, Normal, Positive
<1>5. CASE UNCHANGED clockVars
  BY <1>5 DEF clockVars, ClockTypes, Normal, Positive
<1> QED BY <1>1, <1>2, <1>3, <1>4, <1>5 DEF ClockNext

LEMMA ClockTyped == ClockInv /\ ClockTypes => ClockTypeOK
BY DEF ClockInv, ClockTypes, ClockTypeOK, Normal, Positive

Rate == [num : Nat, den : Nat \ {0}]
PortfolioTypes ==
    gross_notional \in 0 .. NotionalMod - 1 /\ average_open_price \in Rate /\ rounded \in BOOLEAN

LEMMA RateRatio ==
    ASSUME NEW n \in Nat, NEW d \in Nat \ {0}
    PROVE  Ratio(n, d) \in Rate
<1>1. Ratio(n, d).num \in Nat /\ Ratio(n, d).den \in Nat \ {0}
  <2>1. Is(Ratio(n, d), n, d)
    BY RatioIs
  <2> QED BY <2>1, Signed
<1>2. Ratio(n, d) = [num |-> Ratio(n, d).num, den |-> Ratio(n, d).den]
  BY DEF Ratio
<1> QED BY <1>1, <1>2 DEF Rate

LEMMA AverageTyped ==
    ASSUME NEW a \in Rate, NEW m \in Nat, NEW j \in Nat, NEW k \in Nat \ {0}
    PROVE  ((Whole(m) ** a) ++ Whole(j)) // k \in Rate
<1> PICK x, D : x = a.num /\ D = a.den
  OBVIOUS
<1>1. x \in Nat /\ D \in Nat \ {0} /\ Is(a, x, D)
  BY DEF Rate, Is
<1>2. Is(Whole(m) ** a, m * x, D) /\ Is(Whole(j), j * D, D)
  <2>1. m \in Int /\ j \in Int
    OBVIOUS
  <2>2. Is(Whole(m) ** a, m * x, D)
    BY <1>1, <2>1, IsScaled
  <2>3. Is(Whole(j), j * D, D)
    BY <1>1, <2>1, IsWhole
  <2> QED BY <2>2, <2>3
<1> PICK b, y, z : b = (Whole(m) ** a) ++ Whole(j) /\ y = m * x /\ z = j * D
  OBVIOUS
<1>3. Is(b, y + z, D) /\ y \in Nat /\ z \in Nat
  BY <1>1, <1>2, IsSum
<1>4. b.num \in Nat /\ b.den \in Nat \ {0}
  BY <1>3, Signed
<1>5. b.den * k \in Nat \ {0}
  BY <1>4
<1>6. Ratio(b.num, b.den * k) \in Rate
  <2> PICK d : d = b.den * k
    OBVIOUS
  <2> QED BY <1>4, <1>5, RateRatio
<1> QED BY <1>6 DEF //

LEMMA PortfolioTypesStart == PortfolioInit => PortfolioTypes
<1> SUFFICES ASSUME PortfolioInit PROVE PortfolioTypes
  OBVIOUS
<1>1. Whole(0) \in Rate
  BY DEF Whole, Rate
<1>2. 0 \in 0 .. NotionalMod - 1
  BY PortfolioAssumption
<1> QED BY <1>1, <1>2 DEF PortfolioInit, PortfolioTypes

LEMMA PortfolioTypesStep ==
    PortfolioInv /\ PortfolioTypes /\ [PortfolioNext]_portfolioVars => PortfolioTypes'
<1> SUFFICES ASSUME PortfolioInv, PortfolioTypes, [PortfolioNext]_portfolioVars
             PROVE  PortfolioTypes'
  OBVIOUS
<1>0. /\ NotionalMod \in Nat \ {0} /\ net_position \in Int /\ gross_notional \in Nat
      /\ average_open_price \in Rate /\ rounded \in BOOLEAN
  BY PortfolioAssumption DEF PortfolioInv, PortfolioTypes
<1>1. \A p \in Nat : Whole(p) \in Rate
  BY DEF Whole, Rate
<1>2. ASSUME NEW side \in {"Buy", "Sell"}, NEW price \in FillPrice, NEW qty \in FillQty,
             process_fill(side, price, qty)
      PROVE  PortfolioTypes'
  <2> PICK f : f = IF side = "Buy" THEN qty ELSE -qty
    OBVIOUS
  <2>1. price \in Nat /\ qty \in Nat /\ f \in Int
    BY PortfolioAssumption
  <2>2. gross_notional' \in 0 .. NotionalMod - 1
    <3> PICK m : m = gross_notional + qty * price
      OBVIOUS
    <3>1. m \in Nat
      BY <1>0, <2>1
    <3>2. m % NotionalMod \in 0 .. NotionalMod - 1
      BY <1>0, <3>1
    <3> QED BY <1>2, <3>2 DEF process_fill
  <2>3. OpenPosition(price) \/ AddToPosition(f, price) \/ ReduceOrFlip(f, price)
    BY <1>2 DEF process_fill
  <2>4. average_open_price' \in Rate
    <3>1. CASE OpenPosition(price)
      BY <1>1, <2>1, <3>1 DEF OpenPosition
    <3>2. CASE AddToPosition(f, price)
      <4> PICK m, j, k : /\ m = Abs(net_position) /\ j = Abs(f) * price
                         /\ k = Abs(net_position) + Abs(f)
        OBVIOUS
      <4>1. m \in Nat /\ Abs(f) \in Nat /\ k \in Nat \ {0}
        BY <1>0, <2>1, <3>2 DEF Abs, AddToPosition, AddsTo
      <4>2. j \in Nat
        BY <2>1, <4>1
      <4>3. average_open_price' = ((Whole(m) ** average_open_price) ++ Whole(j)) // k
        BY <3>2 DEF AddToPosition
      <4> QED BY <1>0, <4>1, <4>2, <4>3, AverageTyped
    <3>3. CASE ReduceOrFlip(f, price)
      <4>1. average_open_price' \in {Whole(price), Whole(0), average_open_price}
        <5> PICK u, v : u = Abs(f) /\ v = Abs(net_position)
          OBVIOUS
        <5>1. average_open_price' = CASE u > v -> Whole(price)
                                      [] u = v -> Whole(0)
                                      [] OTHER -> average_open_price
          BY <3>3 DEF ReduceOrFlip
        <5> QED BY <5>1
      <4> QED BY <1>0, <1>1, <2>1, <4>1
    <3> QED BY <2>3, <3>1, <3>2, <3>3
  <2>5. rounded' \in BOOLEAN
    <3>1. CASE OpenPosition(price)
      BY <3>1 DEF OpenPosition
    <3>2. CASE AddToPosition(f, price)
      BY <3>2, Zenon DEF AddToPosition
    <3>3. CASE ReduceOrFlip(f, price)
      <4>1. rounded' = (rounded /\ Abs(f) < Abs(net_position))
        BY <3>3 DEF ReduceOrFlip
      <4> QED BY <4>1, Zenon
    <3> QED BY <2>3, <3>1, <3>2, <3>3
  <2> QED BY <2>2, <2>4, <2>5 DEF PortfolioTypes
<1>3. ASSUME NEW price \in FillPrice, update_market_price(price) PROVE PortfolioTypes'
  BY <1>3 DEF update_market_price, averageVars, PortfolioTypes
<1>4. CASE UNCHANGED portfolioVars
  BY <1>4 DEF portfolioVars, averageVars, PortfolioTypes
<1> QED BY <1>2, <1>3, <1>4 DEF PortfolioNext

LEMMA PortfolioTyped == PortfolioInv /\ PortfolioTypes => PortfolioTypeOK
BY DEF PortfolioInv, PortfolioTypes, PortfolioTypeOK, Rate

(* What the types need together: averages and rates stay positive because the *)
(* sums and times they come from do.                                          *)
TypesInv ==
    /\ PoolInv /\ ArenaInv /\ VectorInv
    /\ PortfolioInv /\ PortfolioTypes
    /\ StatsInv /\ values \in [0 .. WindowSize - 1 -> Sample \cup {0}]
    /\ SignalTypeOK
    /\ ClockInv /\ ClockTypes

LEMMA TypesStart == MCInit => TypesInv
BY PoolStart, ArenaStart, VectorStart, PortfolioStart, PortfolioTypesStart, StatsStart,
   StatsTypes, SignalTyped, ClockStart, ClockTypesStart, Zenon DEF MCInit, TypesInv

LEMMA TypesStep == TypesInv /\ [MCNext]_mcVars => TypesInv'
<1> SUFFICES ASSUME TypesInv, [MCNext]_mcVars PROVE TypesInv'
  OBVIOUS
<1>1. /\ [PoolNext]_poolVars /\ [ArenaNext]_arenaVars /\ [VectorNext]_vectorVars
      /\ [PortfolioNext]_portfolioVars /\ [StatsNext]_statsVars
      /\ [SignalNext]_signalVars /\ [ClockNext]_clockVars
  BY Alone
<1>2. PoolInv' /\ ArenaInv' /\ VectorInv'
  BY <1>1, PoolStep, ArenaStep, VectorStep, Zenon DEF TypesInv
<1>3. PortfolioInv' /\ PortfolioTypes'
  BY <1>1, PortfolioStep, PortfolioTypesStep, Zenon DEF TypesInv
<1>4. StatsInv' /\ (values \in [0 .. WindowSize - 1 -> Sample \cup {0}])'
  BY <1>1, StatsStep, StatsTypes, Zenon DEF TypesInv
<1>5. SignalTypeOK' /\ ClockInv' /\ ClockTypes'
  BY <1>1, SignalTyped, ClockStep, ClockTypesStep, Zenon DEF TypesInv
<1> QED BY <1>2, <1>3, <1>4, <1>5, Zenon DEF TypesInv

(* Sizes, counters, heads of freelists, averages and times of the seven       *)
(* components stay in the range the code keeps them in, for any parameters.   *)
THEOREM TypesAreRight == MCSpec => []ComponentsTypeOK
<1>1. TypesInv => ComponentsTypeOK
  <2> SUFFICES ASSUME TypesInv PROVE ComponentsTypeOK
    OBVIOUS
  <2>1. PoolTypeOK /\ ArenaTypeOK /\ VectorTypeOK
    BY PoolTyped, ArenaTyped, VectorTyped, Zenon DEF TypesInv
  <2>2. PortfolioTypeOK /\ ClockTypeOK /\ SignalTypeOK
    BY PortfolioTyped, ClockTyped, Zenon DEF TypesInv
  <2>3. StatsTypeOK
    <3>1. StatsInv /\ values \in [0 .. WindowSize - 1 -> Sample \cup {0}]
      BY DEF TypesInv
    <3> QED BY <3>1, StatsTypes DEF StatsInv, RingTypes, StatsTypeOK
  <2> QED BY <2>1, <2>2, <2>3 DEF ComponentsTypeOK
<1> QED BY <1>1, TypesStart, TypesStep, PTL DEF MCSpec
=============================================================================
