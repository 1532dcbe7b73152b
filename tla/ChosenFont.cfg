SPECIFICATION Spec
CONSTANTS
    None = None
    w1 = w1
    w2 = w2
    Window = {w1, w2}
    MaxDepth = 3
    Color = {"white", "red"}
    Family = {"Inter"}
    Position = {0, 90}
    Default <- MCDefault
    Restored <- MCRestored
    EventCapacity = 1
    MaxActs = 2
    MaxFaults = 0
    MaxEvents = 4
INVARIANT ChosenFontIsDrawn
CHECK_DEADLOCK FALSE
