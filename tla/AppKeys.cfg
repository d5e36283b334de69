SPECIFICATION Spec
CONSTANTS
    a = a
    b = b
    Endpoints = {a, b}
    NoEndpoint = NoEndpoint
    Addresses = {u1, u2}
    NoAddress = NoAddress
    Presets <- TwoPresets
    MaxPools = 3
    MaxLost = 1
INVARIANTS
    TypeOK
    ConnectedIsShown
    RestartResumes
    IndicesAreRows
    MinesOnTheConnection
    MineNeedsAChoice
