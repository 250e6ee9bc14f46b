\* 5 orders over 2 ticks on 3 reusable nodes: a level can hold 3 orders, a taker
\* can sweep two levels, a node is used again, two orders of 2 at one level wrap
\* its volume (QtyMod = 3).
CONSTANTS
    Node = {n1, n2, n3}
    Null = Null
    Price = {1, 2}
    QtyMod = 3
    OrderQty = {1, 2}
    MaxOrders = 5
SPECIFICATION Spec
SYMMETRY NodeSymmetry
INVARIANTS TypeOK ListsSound VolumeIsSum NoCrossedBook NoEmptyLevel
PROPERTIES ImplementsPriceTime CallsEnd
\* An empty book after the last order: nothing is left to do.
CHECK_DEADLOCK FALSE
