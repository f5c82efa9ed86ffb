CONSTANTS
    AxisValues <- MCAxisWithoutZero
    TriggerValues <- MCTriggers
    Pressable <- MCPressable
    NoEvent = NoEvent
SPECIFICATION Spec
INVARIANTS
    SameDirection
    NoButtonLost
PROPERTY OrderKept
