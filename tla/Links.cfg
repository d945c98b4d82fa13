SPECIFICATION Spec
CONSTANTS
    Docs <- MCDocs
    TopN = 3
INVARIANTS ImportKeeps ExportAgrees ReadWhole
CHECK_DEADLOCK FALSE
