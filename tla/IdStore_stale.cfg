CONSTANTS
    o1 = o1
    o2 = o2
    o3 = o3
    o4 = o4
    s0 = s0
    nil = nil
    Objects <- MCObjects
    Collectable <- ObjectStoreCollectable
    Sentinel = s0
    Null = nil
    MaxSlots = 4
    IndexWidth = 3
SPECIFICATION Spec
INVARIANT
    StaleHandleRefused
