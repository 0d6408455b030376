SPECIFICATION FairSpec
CONSTANTS
    Policies = {p1, p2}
    ObjectOf <- McObjectOf
    Malformed <- McMalformed
    Anonymous <- McAnonymous
    Named <- McNamed
    Scope <- McScope
    MaxVersion <- McMaxVersion
    MaxDelivery = 2
    BufferSize = 1
    MaxMessages = 2
    MaxCrashes = 1
    p1 = p1
    p2 = p2
    db = db
    api = api
INVARIANTS TypeOK NoLostRotation BusyIsQueued
PROPERTIES EventuallyNoticed
