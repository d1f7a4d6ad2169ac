CONSTANTS
    q1 = q1  q2 = q2  a1 = a1  a2 = a2  f1 = f1  o1 = o1  o2 = o2
    e1 = e1  e2 = e2  k1 = k1  k2 = k2
    NoTask = NoTask  NoCode = NoCode
    CodeTask <- TwoCodes
    RegisterTask <- TwoAcks
    FindTask <- OneFind
    OtherTask <- TwoOthers
    Email <- TwoEmails
    EmailOf <- Addresses
    Code <- Codes
    TextLength <- Lengths
    Workers = 2
    Depth = 3
    PoolSize = 5
SYMMETRY Symmetric
SPECIFICATION Spec
INVARIANTS RegistrationInv NeverAllWaiting
CHECK_DEADLOCK FALSE
