CONSTANTS
    h1 = h1
    Handles = {h1}
    Inputs <- EscapeInputs
    SchemeValues = {}
    TextValues = {}
    PortValues = {}
    PathValues = {}
    MaxPathLength = 4
SPECIFICATION ParseSpec
INVARIANT ParsedEscapesWellFormed
