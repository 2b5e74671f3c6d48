SPECIFICATION Spec
CONSTANTS
    Env = "UAT"
    AtomLen <- MC_AtomLen
    DigitVal <- MC_DigitVal
    AlphaAtoms <- MC_AlphaAtoms
    p1 = p1
    p2 = p2
    p3 = p3
    p4 = p4
    Pods = {p1, p2, p3, p4}
    DcnOf <- MC_DcnOfPending
    PodIpOf <- MC_PodIpOfPending
    RowRank <- MC_RowRankPending
    PodsOf <- MC_PodsOfPending
    InitialArgs <- MC_InitialArgs
    PodInputs <- MC_PodInputs
    DcnInputs <- MC_DcnInputs
    Token = Token
    LoginAnswers <- MC_LoginAnswers
    Null = Null
    MaxSessions = 2
INVARIANT NumberTargetIsPod
