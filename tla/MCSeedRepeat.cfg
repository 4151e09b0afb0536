SPECIFICATION BothSpec
CONSTANTS
    Request = {r1, r2}
    Seeding = {}
    Offered <- MCOffered
    DemoList <- MCDemoList
    MaxVersion = 3
    Text <- MCText
    Family = {"v4", "v6"}
    Size = {1, 2, 4, 8, 16}
    Everything <- MCEverything
    AddressOf <- MCAddressOf
    NoAddress = NoAddress
    Hostname <- MCHostname
    BlockedName <- MCBlockedName
    BlockedNetwork <- MCBlockedNetwork
    Run = {u1}
    Renamable = {"pool"}
    MaxCopies = 2
PROPERTY NoChangeOnRepeat
