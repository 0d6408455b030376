SPECIFICATION Spec
CONSTANTS
    Setups <- MCSetups
    Worlds <- MCWorlds
    MaxVersion = 3
    NamespacePods = {"pod"}
    HostAddresses = {"10.0.0.1", "10.0.0.2", "service"}
    OtherAddresses = {"203.0.113.1"}
INVARIANTS TypeOK RevisionsNumberWrites EgressConfined
PROPERTIES PassesAreReal 
