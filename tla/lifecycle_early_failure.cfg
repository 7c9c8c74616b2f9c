\* A failure before the notification handle exists ends in a crash in teardown.
CONSTANTS
    s1 = s1
    s2 = s2
    t1 = t1
    t2 = t2
    Sessions <- MCSessions
    Triggers <- MCTriggers
    TriggerOwner <- MCTriggerOwner
    NbBucket = 1
    MaxSignals = 1
    Consumers <- UstConsumer
    FailSteps = {"write_pidfile"}
SPECIFICATION Spec
PROPERTY FailureLeadsToExit
