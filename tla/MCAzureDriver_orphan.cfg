CONSTANTS
    Unset = Unset
    VMName = "vm"
    DataDisks <- MCDataDisks
    DeleteDataDisks <- MCDataDisks
    MaxFaults = 1
    MaxCrashes = 0
    LateCompletion = TRUE
SPECIFICATION Spec
INVARIANT TeardownCleans
