SPECIFICATION ListSpec
CONSTANTS
    Inputs <- Files
    Unwritten <- Behind
    Keywords <- Words
    Modulus = 256
    Short = 16
    MaxTokens = 8
    FirstSize = 136
    MaxBlocks = 6
INVARIANTS
    TypeOK
    TokensTile
    NumeralsKept
    KnownTokens
    TokensReadBack
PROPERTIES
    Returns
CHECK_DEADLOCK FALSE
