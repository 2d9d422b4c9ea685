SPECIFICATION Spec
CONSTANTS
    Proc = {p1}
    Task = {t1, t2}
    Sid = {x, y}
    NoSid = NoSid
    NoProc = NoProc
INVARIANTS
    DefaultTarget
    OrphansWereCut
    SurvivesRestart
PROPERTIES
    DeadPruned
    KeepsSessions
CHECK_DEADLOCK FALSE
