\* One object and every public mutating call on it: parse, the setters
\* and clearers, NormalizePath, and Resolve with itself as base and
\* reference.
CONSTANTS
    h1 = h1
    Handles = {h1}
    Inputs <- ApiInputs
    SchemeValues <- ApiSchemes
    TextValues <- ApiTexts
    PortValues <- ApiPorts
    PathValues <- ApiPaths
    MaxPathLength = 4
SPECIFICATION Spec
INVARIANT ParsedPortIsWritten
INVARIANT WellFormedRoundTrip
PROPERTY ImplementsValues
INVARIANT NormalizeIsIdempotent
