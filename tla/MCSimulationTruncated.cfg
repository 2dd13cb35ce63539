CONSTANTS
    Chunks = 2
    ChunkBytes = 4
    Bursts = {1}
    MaxLosses = 2
    Actions = {"toggle_play", "pause", "step_one", "step_speed", "reset_simulation", "speed_up", "speed_down"}
    MaxSpeed = 2
    MaxSteps = 2
    MaxCommands = 1
SPECIFICATION Spec
INVARIANTS
    NeverPartial
CHECK_DEADLOCK FALSE
