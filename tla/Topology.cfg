SPECIFICATION Spec
CONSTANTS
    logs = logs
    audit = audit
    jobs = jobs
    mail = mail
    Exchanges <- SomeExchanges
    Queues <- SomeQueues
    QueueBindings <- SomeQueueBindings
    ExchangeBindings <- SomeExchangeBindings
    Scenarios <- SomeScenarios
    OwnSettings <- PlainOrExclusive
    Conns = {c1, c2}
    Nobody = nobody
    Dead = dead
    Builders = {b1, b2}
    MaxFaults = 1
SYMMETRY Symmetry
CHECK_DEADLOCK FALSE
INVARIANTS PrefixDeclared QuorumKept PurgeRemovesOld
