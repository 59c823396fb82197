SPECIFICATION Spec
CONSTANTS
    Segments <- MCSegments
    Deltas = {1, 16, 128}
    MaxNet = 1
    MaxDamage = 1
INVARIANTS Transparent DamageDetected OnePeer
