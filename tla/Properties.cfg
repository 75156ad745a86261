SPECIFICATION Spec
CONSTANTS
    speed = speed
    level = level
    label = label
    Names <- MCNames
    Mistyped <- MCMistyped
    MaxValue = 3
    MaxDepth = 2
    MaxWire = 2
INVARIANT SeenIsCurrent
PROPERTY NeverBackwards
\* Nothing has to happen when every value has been sent.
CHECK_DEADLOCK FALSE
