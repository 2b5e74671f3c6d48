SPECIFICATION Spec
CONSTANTS
    Env = "UAT"
    AtomLen <- MC_AtomLen
    DigitVal <- MC_DigitVal
    AlphaAtoms <- MC_AlphaAtoms
    p1 = p1
    p2 = p2
    p3 = p3
    p4 = p4
    Pods = {p1, p2, p3}
    DcnOf <- MC_DcnOf
    PodIpOf <- MC_PodIpOf
    RowRank <- MC_RowRank
    Null = Null
    Resources <- MC_Resources
    DcnArgs <- MC_DcnArgs
    ErrorMessages <- MC_ErrorMessages
    NameRank <- MC_NameRankDistinct
PROPERTY QueryRefines
