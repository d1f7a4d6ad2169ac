CONSTANTS
    ann = ann  bob = bob  cat = cat  team = team  w1 = w1  w2 = w2
    User <- ThreeUsers
    Group <- OneGroup
    Scenario <- Scenarios
    Worker <- TwoWorkers
SYMMETRY Interchangeable
SPECIFICATION RelationsSpec
INVARIANTS RelationsInv Mutual OneOwner
PROPERTY Removed
CHECK_DEADLOCK FALSE
