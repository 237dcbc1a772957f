SPECIFICATION FairBrokerSpec
CONSTANTS
    Callbacks = {c1}
    Clients = {u1}
    Drainer = drainer
    Handlers = {}
    Agents = {u1, drainer}
    Free = free
    LooseTransports = {}
    Reports = {"blocked"}
    MaxBinds = 0
    MaxCrashes = 1
CHECK_DEADLOCK FALSE
INVARIANTS
    BrokerNeverAhead
    AtMostOncePerCrash
PROPERTIES
    CommittedSettles
    RowCatchesUp
