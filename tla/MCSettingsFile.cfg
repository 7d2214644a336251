SPECIFICATION Spec
CONSTANTS
    Texts <- MCTexts
    Slips <- MCSlips
    Blocks = {3, 5, 8, 64}
INVARIANTS
    WholeFileParsed
    AcceptedIsSaid
    CutFileRefused
CHECK_DEADLOCK FALSE
