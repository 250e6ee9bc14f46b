\* A pool of five slots; an arena of three slots of 8 bytes (rounded up from 6,
\* with 4 bytes left over) and two heap blocks; two vectors with two elements
\* inline that grow twice, and a third buffer for the time one of them does; four
\* fills, whose averages include thirds; a window of three; volumes whose sum can
\* wrap to 0; a second of 12 ns, 5 ns of calibration, and a core whose counter
\* is so far behind that it seems to run backwards.
CONSTANTS
    Capacity = 5
    Null = Null
    Object = Object
    NoSlot = NoSlot
    InUse = InUse
    ArenaBytes = 28
    ObjSize = 6
    ObjAlign = 8
    PointerSize = 8
    HeapBlock = {h1, h2}
    N = 2
    Element = {a, b}
    Vector = {v, w}
    MaxElements = 5
    Buffer = {b1, b2, b3}
    NoBuffer = NoBuffer
    FillPrice = {1, 2, 4}
    FillQty = {0, 1, 2, 3}
    NotionalMod = 8
    MaxFills = 4
    Unmarked = Unmarked
    WindowSize = 3
    Sample = {0, 1, 3}
    QuotePrice = {1, 2, 4}
    QuoteVolume = {1, 2, 3}
    VolumeMod = 5
    NoTick = NoTick
    Second = 12
    Interval = 5
    CyclesPerNs = 3
    MaxGap = 1
    MaxCall = 8
    Behind = 20
    ns_default <- MCNsDefault
SPECIFICATION MCSpec
INVARIANTS ComponentsTypeOK FreelistSound ArenaSound HoldsWhatWasPushed BuffersOwnedOnce
INVARIANTS RealizedIsCash TotalIsMarkedToMarket MomentsOfWindow SignalsSound LatencyMeasured
