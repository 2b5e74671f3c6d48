SPECIFICATION Spec
CONSTANTS
    AtomLen <- MC_AtomLen
    DigitVal <- MC_DigitVal
    AlphaAtoms <- MC_AlphaAtoms
    Inputs <- MC_Inputs
INVARIANTS KindsExclusive CanonicalKeepsKind
