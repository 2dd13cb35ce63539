CONSTANTS
    Chunks = 2
    ChunkBytes = 4
    Bursts = {3, 4}
    MaxLosses = 2
    Actions = {"toggle_play", "pause", "step_one", "step_speed", "reset_simulation", "speed_up", "speed_down", "set_speed", "set_fps", "unknown"}
    MaxSpeed = 2
    MaxSteps = 3
    MaxCommands = 1
SPECIFICATION Spec
INVARIANTS
    FrameIsTrue
    BoardIsReady
PROPERTIES
    PauseIsHeard
CHECK_DEADLOCK FALSE
