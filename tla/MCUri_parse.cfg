\* Repeated ParseFromString calls on one object over composed inputs.
CONSTANTS
    h1 = h1
    Handles = {h1}
    Inputs <- ParseInputs
    SchemeValues = {}
    TextValues = {}
    PortValues = {}
    PathValues = {}
    MaxPathLength = 4
SPECIFICATION ParseSpec
INVARIANT ParsedRoundTrip
