\* A slow model that runs a tool once a window.
CONSTANTS
    Windows = {5}
    Caps = {0}
    PushLimit = 1
    Horizon = 15
SPECIFICATION Spec
INVARIANT WorkSurvives
