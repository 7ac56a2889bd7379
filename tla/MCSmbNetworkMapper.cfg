CONSTANTS
    NetNames = {"net-a", "net-b"}
    DestNames = {"net-a", "net-b", "net-c"}
    DevNames = {"eth0", "eth1"}
    MaxDests = 3

SPECIFICATION Spec

INVARIANT
    ForSambaccMatchesReference
