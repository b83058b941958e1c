SPECIFICATION QSpec
CONSTANTS
    Size = 4
    Word = 16
    Elements = {a, b}
    Unset = unset
PROPERTY QRefinement
