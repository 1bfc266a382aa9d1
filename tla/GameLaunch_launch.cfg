SPECIFICATION Spec
CONSTANTS
    w1 = w1
    w2 = w2
    game1 = game1
    game2 = game2
    spinner1 = spinner1
    spinner2 = spinner2
    game = game
    login = login
    Workers = {w1, w2}
    Holders = {game1, game2}
    Spinners = {spinner1}
    Keys = {w1, game, login}
    GameKey = game
    LoginKey = login
    KeyOf <- MCKeyOf
INVARIANTS HoldersRunOnce ResultNotForgotten NotificationHidden
PROPERTY HoldersRunAfterTasks
SYMMETRY Symmetry
CHECK_DEADLOCK FALSE
