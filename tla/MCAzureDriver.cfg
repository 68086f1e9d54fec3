CONSTANTS
    Unset = Unset
    VMName = "vm"
    DataDisks <- MCDataDisks
    DeleteDataDisks <- MCDataDisks
    MaxFaults = 2
    MaxCrashes = 1
    LateCompletion = FALSE
SPECIFICATION Spec
INVARIANT TypeOK
INVARIANT TeardownCleans
INVARIANT TeardownInv
INVARIANT DeleteFailsOnlyOnFault
INVARIANT CreateOnCleanFailsOnlyOnFault
INVARIANT DeleteInv
INVARIANT CreateInv
PROPERTY ImplementsAbstract
PROPERTY VMRemovedFirst
