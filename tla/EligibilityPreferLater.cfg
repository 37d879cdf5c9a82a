\* Under PreferLater, without any reorganisation.
SPECIFICATION Spec
CONSTANTS
    Rule = "PreferLater"
    Window = 2
    Tolerance = 1
    MaxDaa = 8
    MaxOrder = 3
    ReorgDepth = 0
    States <- MCStates
    Signed <- MCSigned
PROPERTY DocLateMarkerIsOutsideTheWindow
CHECK_DEADLOCK FALSE
