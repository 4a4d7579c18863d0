CONSTANTS
    Case <- MCNegation
SPECIFICATION RewriteSpec
INVARIANTS
    AnswerPreserving
CHECK_DEADLOCK FALSE
