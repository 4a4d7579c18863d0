SPECIFICATION MCSpec
CONSTANTS
    Count = 4
    MaxEdges = 4
    MaxNegated = 1
    Graph <- MCGraph
    Case <- MCPositive
    Values <- MCValues
    Signature <- MCSignature
    SessionFact <- MCSessionFact
    Program <- MCProgram
    Path <- MCPath
    Name = {"main", "a", "b"}
    Alias = {"main", "a", "b"}
    Dir = {"proj", "sys"}
    SearchList <- MCSearchList
    PathJoin <- MCPathJoin
    root <- MCroot
    FileSystems <- MCFileSystems
INVARIANTS
    ComponentsExact
    RejectsExactly
    StrataAreLeast
    AnswerPreserving
    GraphIsLoadable
    RefusalsHaveCauses
    EdgesMatchHeaders
PROPERTIES
    ImplementsFixpoint
    Terminates
CHECK_DEADLOCK FALSE
