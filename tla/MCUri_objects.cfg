\* Two objects and the calls that move values between them: parse,
\* NormalizePath, Resolve into either object, copy assignment.
CONSTANTS
    h1 = h1
    h2 = h2
    Handles = {h1, h2}
    Inputs <- ObjectInputs
    SchemeValues = {}
    TextValues = {}
    PortValues = {}
    PathValues = {}
    MaxPathLength = 4
SYMMETRY HandleSymmetry
SPECIFICATION ObjectsSpec
INVARIANT NormalizeIsIdempotent
PROPERTY ImplementsValues
