SPECIFICATION Spec
CONSTANTS
    Call = {c1, c2}
    Patch = {edit, file, hidden}
    Own = {note, cache}
    New = {file}
    Ignored = {hidden, cache}
    NoPatch = NoPatch
INVARIANTS
    AnswerTellsTree
PROPERTIES
    LandsInTime
CHECK_DEADLOCK FALSE
