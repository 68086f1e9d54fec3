CONSTANT Unset = Unset
SPECIFICATION Spec
INVARIANT NamesAgree
INVARIANT NamesInjective
