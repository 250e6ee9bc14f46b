\* A pool of 3 slots, prices that round to ticks 0, 1 and 2, a quantity that
\* would leave two orders of 2 at a wrapped total (QtyMod = 3).
CONSTANTS
    Node = {1, 2, 3}
    Null = 0
    Object = Object
    PoolCapacity = 3
    MaxOrders = 3
    Price = {0, 1, 2}
    QtyMod = 3
    OrderQty = {1, 2}
    PriceInput <- MCPriceInput
    QtyInput <- MCQtyInput
SPECIFICATION MainSpec
INVARIANT FilledNodesReturned
