\* One key, as keys share only the clock: bursts of three, two tokens every third tick, twelve ticks.
CONSTANTS
    k1 = k1
    Keys = {k1}
    Capacity = 3
    Rate = 2
    Interval = 3
    MaxTime = 12
    None = None
SPECIFICATION Spec
INVARIANT TypeOK
INVARIANT NeverOverRate
INVARIANT RefusedOnlyOverRate
INVARIANT RetryHonoured
