SPECIFICATION Spec
CONSTANTS
    Account = {admin, own}
    Default = admin
    Request = {r1, r2}
    MaxSession = 1
    By = {"web", "button", "cli"}
    MaxOps = 4
INVARIANTS
    TypeOK
    SessionsCurrent
    AccountKept
    ResetIsTotal
