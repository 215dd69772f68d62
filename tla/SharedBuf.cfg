CONSTANTS
    Producers = {p1, p2}
    Consumers = {q1, q2}
    PerProducer = 3
    PerConsumer = 3
    Capacity = 2
SPECIFICATION FairSpec
INVARIANTS SemaphoresAccount NoSleepOnPositive
PROPERTIES ImplementsBuffer AllReturn
