CONSTANTS
    a1 = a1  a2 = a2  t1 = t1
    Applicant <- TwoApplicants
    Asking <- AskingEach
    Transfer <- OneUpload
    PeerKind <- ToGroup
    MaxPending = 1
    MaxUnasked = 1
    MaxRequests = 2
SPECIFICATION FairSpec
INVARIANTS ClientInv PickedIsAnswered
PROPERTY PromptReached
CHECK_DEADLOCK FALSE
