SPECIFICATION Spec
CONSTANTS
    s1 = s1
    s2 = s2
    d1 = d1
    d2 = d2
    Names <- TwoNames
    Data <- TwoData
    NoData = NoData
    Open = Open
    Absent = Absent
    Torn = Torn
INVARIANT TypeOK
INVARIANT MemoryIsFile
INVARIANT NeverTorn
INVARIANT DoneSurvives
PROPERTY ImplementsRegistry
