SPECIFICATION Spec
CONSTANTS
    Numbers <- MCNumbers
    Literals <- MCLiterals
    MaxNest = 3
    Whole <- MCWhole
    IntOf <- MCIntOf
    Underscored <- MCUnderscored
    CppKeywords <- MCCppKeywords
    CapitalOf <- MCCapitalOf
    U32 = 4096
    U64 = 4194304
    UpperOf <- MCUpperOf
    Runs <- MCRuns
INVARIANTS
    RoundTrip
    SoundIsGenerated
    DerivedNamesUnique
    FilesMatchExit
    DeclarationsAnswered
PROPERTIES
    ParserAdvances
\* The tool is through when it has exited.
CHECK_DEADLOCK FALSE
