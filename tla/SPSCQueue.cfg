\* A ring of 4 slots, which holds 3 items: every index wraps several times.
CONSTANTS
    Capacity = 4
    Item = {a, b}
    Moved = Moved
SPECIFICATION FairSpec
INVARIANTS TypeOK NoDataRace
PROPERTIES ImplementsFifo PushSucceeds ItemsArePopped
