\* An active heap of three levels and a waiting heap of two; every step can be undone.
SPECIFICATION QueuesSpec
CONSTANTS
    Validator = {v1, v2, v3, v4, v5, v6, v7, v8, v9}
    v1 = v1
    v2 = v2
    v3 = v3
    v4 = v4
    v5 = v5
    v6 = v6
    v7 = v7
    v8 = v8
    v9 = v9
    MaxPower = 3
    ActiveLimit = 6
INVARIANTS
    QueuesTypeOK
    HeapsOrdered
PROPERTIES
    ReshuffleAsSets
VIEW PowersInPlace
