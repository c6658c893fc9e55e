CONSTANTS
    p1 = p1
    p2 = p2
    p3 = p3
    a1 = a1
    a2 = a2
    a3 = a3
    b1 = b1
    b2 = b2
    r1 = r1
    r2 = r2
    r3 = r3
    NoParent = NoParent
    NoCompany = NoCompany
    Inputs <- MCInputs
    HasRepo <- MCHasRepo
    Walk <- MCWalk
    Parent <- MCParent
    Changed <- MCChanged
    Tracked <- MCTracked
    Outcomes <- MCOutcomes
    KeyOrder <- MCKeyOrder
    CompanyName <- MCCompanyName
    Substring <- MCContains
    MaxRuns = 3
SPECIFICATION Spec
INVARIANT SampleCountsMatch
