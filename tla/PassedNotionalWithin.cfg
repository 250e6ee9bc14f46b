\* 8 * 2 is the modulus.
CONSTANTS
    Mod = 16
    Percent = 4
    Prices = {4, 5, 8}
    Quantities = {2, 3}
    References = {0, 6}
    MaxUpdates = 2
    Limits <- MCLimits
SPECIFICATION Spec
INVARIANT PassedNotionalWithin
