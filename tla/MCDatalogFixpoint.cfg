CONSTANTS
    e1 = e1  e2 = e2  p1 = p1  p2 = p2  q1 = q1  r1 = r1
    MaxRules = 2
    Fact <- MCFact
    SessionFact <- MCSessionFact
    Program <- MCProgram
SPECIFICATION FairSpec
INVARIANTS
    AnswerIsStratifiedModel
    Supported
    PivotsSuffice
PROPERTIES
    Terminates
    ImplementsAnswers
