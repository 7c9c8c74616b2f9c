\* An ignored error-accounting init failure leaves triggers registered without it.
CONSTANTS
    s1 = s1
    s2 = s2
    t1 = t1
    t2 = t2
    Sessions <- MCSessions
    Triggers <- MCTriggers
    TriggerOwner <- MCTriggerOwner
    NbBucket = 1
    MaxSignals = 1
    Consumers <- UstConsumer
    FailSteps = {"event_notifier_error_accounting_init"}
SPECIFICATION Spec
INVARIANT TriggersHaveErrorAccounting
