\* A stick pushed fully to the left reports 0.
CONSTANTS
    AxisValues <- MCAxis
    TriggerValues <- MCTriggers
    Pressable <- MCPressable
    NoEvent = NoEvent
SPECIFICATION Spec
INVARIANT SameDirection
