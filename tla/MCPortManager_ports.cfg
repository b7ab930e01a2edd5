SPECIFICATION Spec
CONSTANTS
    Long = 2
    Short = 1
    Stuck = 5
    Lapse = 4
    Actors = {"receiver", "reset"}
INVARIANTS PartnersKnown ChainsEnd StepsOfPortInHand
