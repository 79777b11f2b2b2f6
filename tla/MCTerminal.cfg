CONSTANTS
    Width = 2
    Height = 3
    Newline = Newline
    Blank = Blank
    Texts <- MCTexts
    KeyText <- MCKeyText
    None = None
    Requests <- MCRequests
SPECIFICATION FairSpec
INVARIANTS
    TypeOK
    InterruptsSound
    ScreenIsLayout
PROPERTY
    EveryRequestServed
CHECK_DEADLOCK FALSE
