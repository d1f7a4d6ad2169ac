CONSTANTS
    InitDelay = 1
    MaxDelay = 3
SPECIFICATION ConnectorFairSpec
INVARIANT ConnectorInv
PROPERTY Reaches
