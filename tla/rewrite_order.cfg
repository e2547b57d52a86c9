SPECIFICATION Spec
CONSTANTS
    Runes = {"a", "A", ",", "[", "]"}
    MaxRunes = 4
INVARIANTS
    ControlsStayInPlace
