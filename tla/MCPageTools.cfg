SPECIFICATION Spec
CONSTANTS
    Tools = {"hand", "pencil", "rectangle", "clear"}
    Drawing = {"pencil", "rectangle"}
    Editing = {"pencil", "rectangle", "clear"}
    OneTouch = {"clear"}
    Lasting = {"rectangle"}
    Bounds <- MCBounds
INVARIANT SettledAgrees
INVARIANT OnlyAllowedTools
INVARIANT GestureIsOneFinger
INVARIANT PlacesAgree
INVARIANT PeopleAgree
INVARIANT ViewAgrees
CHECK_DEADLOCK FALSE
