SPECIFICATION Spec
CONSTANTS
    Writer = {w1, w2}
    Value = {v1, v2, v3}
    First = v1
    Nothing = nothing
    Partial = partial
    Inode = {i1, i2, i3, i4}
    OneAtATime = TRUE
INVARIANT TypeOK
PROPERTY SavesAreAtomic
CHECK_DEADLOCK FALSE
