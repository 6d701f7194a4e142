\* Two producers, two consumers, three elements of two priorities.
CONSTANTS
    p1 = p1
    p2 = p2
    c1 = c1
    c2 = c2
    Producers <- MCProducers
    Consumers <- MCConsumers
    Items <- MCItems
    Prio <- MCPrio
    NoItem = NoItem
    NoThread = NoThread
SPECIFICATION LiveSpec
INVARIANTS TypeOK NoLostWakeup PopTakesTheTop
PROPERTIES ImplementsAtomicPQ EveryElementIsDelivered
