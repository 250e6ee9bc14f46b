\* Four-bit words and quarters for per cent: with a reference of 6 and limits
\* of 1/4 or 3/4 the deviation is rounded, and 8 * 2 is 0.
CONSTANTS
    Mod = 16
    Percent = 4
    Prices = {4, 5, 8}
    Quantities = {2, 3}
    References = {0, 6}
    MaxUpdates = 2
    Limits <- MCLimits
SPECIFICATION FairSpec
INVARIANT VerdictJustified
PROPERTY TripTakesEffect
