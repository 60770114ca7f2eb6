SPECIFICATION GameSpec
CONSTANTS
    SNAKE_FIELD_WIDTH = 2
    SNAKE_FIELD_HEIGHT = 2
    SNAKE_INITIAL_LENGTH = 2
    SNAKE_TARGET_OBSTACLE_COUNT = 0
    SNAKE_MAX_APPLES = 1
    SNAKE_DEFAULT_APPLE_COUNT = 1
    SNAKE_INPUT_TURN_QUEUE_CAPACITY = 2
    SPEED = "space"
    DirOf <- NoDirections
    ActionsOf <- SpeedActions
    Keys = {"r", "space"}
    SNAKE_BASE_TICK_MS = 4
    SNAKE_FAST_TICK_MS = 2
    SNAKE_FRAME_TIME_CAP_MS = 1
    Frames = {1}
    MaxEvents = 3
INVARIANTS FastIffHeld
