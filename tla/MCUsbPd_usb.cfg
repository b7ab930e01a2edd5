SPECIFICATION Spec
CONSTANTS
    Scenes <- MCScenes
    HardResets = 1  CapsCount = 0  Loops = 1  MaxRx = 2
 
PROPERTIES GateReopensAt5V PsRdyMeansDelivered
