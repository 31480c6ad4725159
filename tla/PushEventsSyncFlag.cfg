SPECIFICATION ProxySpec
CONSTANTS
    releases = releases
    stands = stands
    proxy = proxy
    MaxEventId = 5
    Processors <- MCProcessors
    ByChannel <- MCByChannel
    ByEvent <- MCByEvent
    ByAll <- MCByAll
    Proxies = {q1}
    ProxyHandler = proxy
    Malformed = {2}
    Uninterpretable = {3}
PROPERTIES
    SyncFlagComesDown
