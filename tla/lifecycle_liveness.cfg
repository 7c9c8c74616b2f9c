\* A written quit pipe leads to a clean exit that has reaped every consumer;
\* late bring-up failures only.
CONSTANTS
    s1 = s1
    s2 = s2
    t1 = t1
    t2 = t2
    Sessions <- OneSession
    Triggers <- OneTrigger
    TriggerOwner <- OneTriggerOwner
    NbBucket = 1
    MaxSignals = 1
    Consumers <- UstConsumer
    FailSteps <- LateFailSteps
SPECIFICATION Spec
INVARIANT ConsumersReaped
PROPERTY QuitLeadsToExit
PROPERTY ServiceSpec
