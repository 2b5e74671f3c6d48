SPECIFICATION Spec
CONSTANTS
    Env = "UAT"
    AtomLen <- MC_AtomLen
    DigitVal <- MC_DigitVal
    AlphaAtoms <- MC_AlphaAtoms
    p1 = p1
    p2 = p2
    p3 = p3
    p4 = p4
    Pods = {p1, p2, p3}
    DcnOf <- MC_DcnOf
    PodIpOf <- MC_PodIpOf
    RowRank <- MC_RowRank
    PodsOf <- MC_PodsOf
    InitialArgs <- MC_InitialArgs
    PodInputs <- MC_PodInputs
    DcnInputs <- MC_DcnInputs
    Token = Token
    LoginAnswers <- MC_LoginAnswers
    Null = Null
    MaxSessions = 2
INVARIANT AuthFailureStops
