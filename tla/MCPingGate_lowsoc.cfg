SPECIFICATION Spec
CONSTANTS
    Soc <- MCSoc
    Delay = 2
    Key = FALSE
PROPERTIES NoPingAtLowSoc
