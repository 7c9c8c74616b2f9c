\* Teardown safety on every bring-up path, every step allowed to fail.
CONSTANTS
    s1 = s1
    s2 = s2
    t1 = t1
    t2 = t2
    Sessions <- MCSessions
    Triggers <- MCTriggers
    TriggerOwner <- MCTriggerOwner
    NbBucket = 2
    MaxSignals = 1
    Consumers <- KernelConsumer
    FailSteps <- AllFailSteps
SPECIFICATION Spec
INVARIANT TypeOK
INVARIANT NoUseAfterDestroy
INVARIANT NoSessionAfterDestroyAll
INVARIANT NoTriggerAtErrorAccountingFini
