SPECIFICATION MCSpec
CONSTANTS
    Job = {j1, j2}
    Request <- MCRequest
    MaxReserved = 1
    Uri = {"a", "b"}
    Char <- MCChar
    Newline = "n"
    char_len_utf8 <- MCUtf8
    char_len_utf16 <- MCUtf16
    Faulty = {"!"}
    Texts <- MCTexts
    Insertions <- MCInsertions
    Capacity = 1
    MaxLength = 3
    MaxChanges = 2
    MaxOpens = 2
    MaxInFlight = 1
INVARIANTS
    TagsProveCompletion
    TagsUnique
    NoIdBurnt
    LastPublicationIsCurrent
    SettledInSync
PROPERTIES
    EditsAreAnswered
CHECK_DEADLOCK FALSE
