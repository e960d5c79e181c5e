SPECIFICATION FairSpec
CONSTANTS
    NumStages = 3
    Verification = 2
    ApprovalStages = {1}
    BuildStages = {1, 2}
    Contents = {c1, c2}
    NoContent = NoContent
    MaxAttempts = 2
CHECK_DEADLOCK FALSE
INVARIANTS NoOutdatedTrust PrerequisitesHold SuccessIsVerified AcceptedWasSubmitted
PROPERTIES ApprovedAsShown ContractKept RunReturns
