SPECIFICATION FairSpec
CONSTANTS
    Width = 3
    Height = 2
    Chars = {"a", ">"}
    NewLine = "nl"
    Backspace = "bs"
    Blank = "blank"
    Codes <- MCCodes
    CharOf <- MCCharOf
    NoKey = "none"
    BeyondChars = {"none", "nl"}
    BufferSize = 2
    MaxLine = 3
    Cleared = 1
    Prompt = ">"
    End = "end"
    Output = {"a", "nl"}
INVARIANT TypeOK
INVARIANT BootIsSafe
INVARIANT EchoIsLine
PROPERTY TapeRefinement
PROPERTY TypingRefinement
PROPERTY TypedLineRuns
CHECK_DEADLOCK FALSE
