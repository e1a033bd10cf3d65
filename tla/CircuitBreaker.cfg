\* Four concurrent calls around a threshold of two: more late results than the
\* threshold can come back in any state. No symmetry: Recovers is a liveness property.
SPECIFICATION FairSpec
CONSTANTS
    Calls = {c1, c2, c3, c4}
    Threshold = 2
    MaxCount = 4
PROPERTIES
    Recovers
