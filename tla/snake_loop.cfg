SPECIFICATION GameFairSpec
CONSTANTS
    SNAKE_FIELD_WIDTH = 3
    SNAKE_FIELD_HEIGHT = 1
    SNAKE_INITIAL_LENGTH = 1
    SNAKE_TARGET_OBSTACLE_COUNT = 1
    SNAKE_MAX_APPLES = 2
    SNAKE_DEFAULT_APPLE_COUNT = 1
    SNAKE_INPUT_TURN_QUEUE_CAPACITY = 2
    SPEED = "space"
    DirOf <- NoDirections
    ActionsOf <- LoopActions
    Keys = {"p", "q", "ret", "space"}
    SNAKE_BASE_TICK_MS = 4
    SNAKE_FAST_TICK_MS = 2
    SNAKE_FRAME_TIME_CAP_MS = 1
    Frames = {1}
    MaxEvents = 1
INVARIANTS DeadIsOver
PROPERTIES QuitLeaves GameGoesOn
CHECK_DEADLOCK FALSE
