CONSTANTS
    Unset = Unset
    VMName = "vm"
    DataDisks <- MCDataDisks
    DeleteDataDisks <- MCDataDisks
    MaxFaults = 2
    MaxCrashes = 1
    LateCompletion = TRUE
SPECIFICATION Spec
PROPERTY DeletionCompletes
