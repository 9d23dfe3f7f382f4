SPECIFICATION MCSpec
CONSTANTS
    MaxChain = 2
    MaxTrouble = 0
PROPERTIES
    ModelsGetEnabled
