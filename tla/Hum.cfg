SPECIFICATION Spec
CONSTANTS
    Clients = {c1, c2}
    Shapes <- MCShapes
    HUM_BUFFER_SIZE = 6
    MaxKills = 1
INVARIANTS HumTypeOK OwnAnswer RecgenSurvivesHum OwesAnswer HumLives
PROPERTIES ServesInOrder Served
CHECK_DEADLOCK FALSE
