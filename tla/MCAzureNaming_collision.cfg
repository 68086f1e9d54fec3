CONSTANT Unset = Unset
SPECIFICATION Spec
INVARIANT NoCollisionWithoutDuplicateInput
