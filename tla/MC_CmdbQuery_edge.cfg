SPECIFICATION Spec
CONSTANTS
    Env = "UAT"
    AtomLen <- MC_AtomLen
    DigitVal <- MC_DigitVal
    AlphaAtoms <- MC_AlphaAtoms
    p1 = p1
    p2 = p2
    p3 = p3
    p4 = p4
    Pods = {p1, p2, p3, p4}
    DcnOf <- MC_DcnOfEdge
    PodIpOf <- MC_PodIpOfEdge
    RowRank <- MC_RowRankEdge
    Null = Null
    Resources <- MC_Resources
    DcnArgs <- MC_DcnArgsEdge
    ErrorMessages <- MC_ErrorMessagesEdge
    NameRank <- MC_NameRankSame
PROPERTY QueryRefines
