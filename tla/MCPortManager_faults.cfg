SPECIFICATION FairSpec
CONSTANTS
    Long = 1
    Short = 1
    Stuck = 1
    Lapse = 1
    Actors = {"comm","protect","recharge","reset"}
PROPERTIES
    LetGo
