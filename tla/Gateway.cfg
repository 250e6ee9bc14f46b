\* Two sessions of two messages over a queue for two: it fills up with messages of
\* both while a third waits; two starts, so messages cross a restart.
CONSTANTS
    Session = {s1, s2}
    MaxMessages = 2
    Bound = 2
    MaxStarts = 2
SPECIFICATION FairSpec
INVARIANTS MessagesInOrder ThreadLivesFromStartToStop
PROPERTY StopReturns
\* The gateway may stay stopped, or stop() waits for ever as StopReturns says.
CHECK_DEADLOCK FALSE
