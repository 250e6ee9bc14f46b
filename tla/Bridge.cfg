\* Three commands of at most one trade; two faults, which are lost connections
\* or the exit of the engine; a page that keeps two trades: a list that overflows,
\* a CLEAR between two orders, a trade that waits for the LATENCY of the order
\* after next, an exit that a page which has just come back hears nothing of.
CONSTANTS
    MaxCommands = 3
    MaxTrades = 1
    MaxFaults = 2
    Shown = 2
SPECIFICATION FairSpec
INVARIANTS TradesInOrder LatencyIsOwn ClearEmptiesPage PageBookCurrent
PROPERTIES TradesLeavePending ExitReported
\* Users may stop submitting.
CHECK_DEADLOCK FALSE
