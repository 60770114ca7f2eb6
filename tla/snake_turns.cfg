SPECIFICATION GameSpec
CONSTANTS
    SNAKE_FIELD_WIDTH = 2
    SNAKE_FIELD_HEIGHT = 1
    SNAKE_INITIAL_LENGTH = 1
    SNAKE_TARGET_OBSTACLE_COUNT = 1
    SNAKE_MAX_APPLES = 2
    SNAKE_DEFAULT_APPLE_COUNT = 1
    SNAKE_INPUT_TURN_QUEUE_CAPACITY = 2
    SPEED = "space"
    DirOf <- Directions
    ActionsOf <- TurnActions
    Keys = {"w", "s", "d", "p", "r"}
    SNAKE_BASE_TICK_MS = 4
    SNAKE_FAST_TICK_MS = 2
    SNAKE_FRAME_TIME_CAP_MS = 1
    Frames = {1}
    MaxEvents = 1
INVARIANTS GameTypeOK PauseIsClean
PROPERTIES NeverReverses
