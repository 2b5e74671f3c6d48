SPECIFICATION Spec
CONSTANTS
    Env = "UAT"
    AtomLen <- MC_AtomLen
    DigitVal <- MC_DigitVal
    AlphaAtoms <- MC_AlphaAtoms
    AtomUpper <- MC_AtomUpper
    Rule = "default"
    Argvs <- MC_ArgvsNull
INVARIANT ExecAsSpecified
