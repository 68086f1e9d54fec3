CONSTANT Unset = Unset
SPECIFICATION Spec
INVARIANT ScenarioDataDiskName
