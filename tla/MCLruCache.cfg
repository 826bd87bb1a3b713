CONSTANTS
    Key = {k1, k2, k3, k4}
    Value = {v1, v2}
    Capacity = 2
    NoValue = NoValue
SPECIFICATION Spec
INVARIANTS TypeOK RetentionWindow
PROPERTY RefinesRecencyCache
