SPECIFICATION Spec
CONSTANTS
    Width = 4
    Height = 2
    TabSize = 2
    Byte = 4
    UMod = 256
    DigitBuf = 3
    MemSize = 6
    Letters = {65, 66}
    Chars <- MCChars
    Texts <- MCTexts
    Messages <- MCMessages
    MaxTexts = 3
    MaxMessages = 2
INVARIANTS
    PosOnScreen
    BehindScreen
    ScreenShowsLog
    CursorAtPos
    PrintfExact
    LibraryExact
CHECK_DEADLOCK FALSE
