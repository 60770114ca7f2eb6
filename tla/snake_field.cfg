SPECIFICATION ScreenFairSpec
CONSTANTS
    SNAKE_FIELD_WIDTH = 4
    SNAKE_FIELD_HEIGHT = 2
    SNAKE_INITIAL_LENGTH = 2
    SNAKE_TARGET_OBSTACLE_COUNT = 1
    SNAKE_MAX_APPLES = 2
INVARIANTS TypeOK OccupancyIsBody FreeCellsCounted GrowthKept ApplesRestored
PROPERTIES PlaysByTheRules ApplesGrow ScreenFollows
