\* On a screen of 3 by 3 a prompt of two and a line of five wrap twice and scroll.
SPECIFICATION Spec
CONSTANTS
    rows = 3
    cols = 3
    CMD_BUF_SIZE = 6
    Glyphs <- MCGlyphs
    PROMPT <- MCPrompt
    Blank = "_"
    Keys <- MCKeys
    Outputs <- MCOutputs
INVARIANTS
    TypeOK
    ScreenShowsLine
CHECK_DEADLOCK FALSE
