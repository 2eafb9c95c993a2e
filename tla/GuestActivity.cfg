SPECIFICATION FairSpec
CONSTANTS
    Runs = {r1, r2}
    Suspends = {s1}
    Exclusives = {e1}
    Activities = {1, 2}
    Signals = {1, 2, 3, 4}
    NoActivity = NoActivity
    NoSignal = NoSignal
INVARIANTS
    OneOrMany
    OneActivity
PROPERTIES
    CapturesOnlyQuiet
    ImplementsExclusion
    EveryoneIsServed
