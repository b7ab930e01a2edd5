SPECIFICATION Spec
CONSTANTS
    Scenes <- QuietScenes
    HardResets = 1  CapsCount = 1  Loops = 1  MaxRx = 1
PROPERTIES SilentPartnerGivenUp
