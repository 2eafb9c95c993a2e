SPECIFICATION FairSpec
CONSTANTS
    Apps = {a1}
    Reconciler = reconcile
    Accesses = {reconcile, x1}
    Migrations = {m1, m2}
    Signals = {1, 2, 3, 4}
    NoSignal = NoSignal
INVARIANTS
    TypeOK
    MigrationRunsAlone
    HeldWhileWorking
    DrainNotLost
PROPERTIES
    ImplementsExclusion
    DrainEnds
    SkippedIsReconciled
