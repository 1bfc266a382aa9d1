SPECIFICATION Spec
CONSTANTS
    w1 = w1
    w2 = w2
    game1 = game1
    game2 = game2
    spinner1 = spinner1
    spinner2 = spinner2
    game = game
    login = login
    Workers = {}
    Holders = {game1}
    Spinners = {spinner1}
    Keys = {game, login}
    GameKey = game
    LoginKey = login
    KeyOf <- MCKeyOf
INVARIANT HoldersRunWhenIdle
CHECK_DEADLOCK FALSE
