\* Two objects: parse, NormalizePath, Resolve, copy and ClearQuery.  A
\* reference whose query was cleared still holds the query text.
CONSTANTS
    h1 = h1
    h2 = h2
    Handles = {h1, h2}
    Inputs <- ClearedQueryInputs
    SchemeValues = {}
    TextValues = {}
    PortValues = {}
    PathValues = {}
    MaxPathLength = 4
SPECIFICATION ClearedQuerySpec
PROPERTY ImplementsValues
