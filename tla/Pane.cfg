SPECIFICATION Spec
CONSTANTS
    MaxPanes = 2
    MaxTyped = 3
    Wire = 1
    Backlog = 1
    Slots = 1
CHECK_DEADLOCK FALSE
INVARIANT PasteIsWhole
INVARIANT PaneInOrder
PROPERTY TypedArrives
PROPERTY EndIsTold
