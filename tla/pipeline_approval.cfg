SPECIFICATION Spec
CONSTANTS
    NumStages = 3
    Verification = 1
    ApprovalStages = {2}
    BuildStages = {}
    Contents = {c1, c2}
    NoContent = NoContent
    MaxAttempts = 1
CHECK_DEADLOCK FALSE
PROPERTY ApprovalIsNotRefused
