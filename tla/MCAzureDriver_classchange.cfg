CONSTANTS
    Unset = Unset
    VMName = "vm"
    DataDisks <- MCDataDisks
    DeleteDataDisks <- MCDataDisksShrunk
    MaxFaults = 0
    MaxCrashes = 0
    LateCompletion = FALSE
SPECIFICATION Spec
INVARIANT TeardownCleans
