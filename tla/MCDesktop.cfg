SPECIFICATION DesktopSpec
CONSTANTS
    Parts = {"desktop", "graphics", "calculator", "terminal", "console", "session", "editor"}
    SCREEN_W = 20
    SCREEN_H = 18
    TASKBAR = 2
    GAP = 1
    POP = 4
    UNSIZED = 1
    FLOAT_MIN = 5
    TITLE_BAR = 2
    PILLS = 2
    SizeOf <- Windows
    Opening <- OpeningWindows
    Points <- PointerPlaces
    Keys = {"tab", "c", "2", "x", " ", "j", "k", "r", "d", "z", "q"}
    NumFiles = 2
    MaxEvents = 3
    MaxSurfaces = 4
    None = None
    Absent = Absent
    Garbled = Garbled
    Nobody = Nobody
    NL = NL
    Junk = Junk
INVARIANTS TypesOK WindowsSound   
PROPERTIES InputActsWhereSeen  AnimationsSettle
