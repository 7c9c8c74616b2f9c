\* A signal delivered before the quit pipe exists is lost: the daemon never exits.
CONSTANTS
    s1 = s1
    s2 = s2
    t1 = t1
    t2 = t2
    Sessions <- MCSessions
    Triggers <- MCTriggers
    TriggerOwner <- MCTriggerOwner
    NbBucket = 1
    MaxSignals = 1
    Consumers <- UstConsumer
    FailSteps = {}
SPECIFICATION Spec
PROPERTY SignalLeadsToExit
