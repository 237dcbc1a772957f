SPECIFICATION BrokerSpec
CONSTANTS
    Callbacks = {c1}
    Clients = {u1}
    Drainer = drainer
    Handlers = {h1}
    Agents = {u1, drainer, h1}
    Free = free
    LooseTransports = {}
    Reports = {"blocked"}
    MaxBinds = 0
    MaxCrashes = 1
CHECK_DEADLOCK FALSE
CONSTRAINT PlainSends
INVARIANTS
    BrokerTypeOK
    BrokerNeverAhead
    WatchOnlyObserves
    AtMostOncePerCrash
PROPERTIES
    NeverRequeued
