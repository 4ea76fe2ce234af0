CONSTANTS
    None = None
    Accounts = {a1}
    Logins = {l1, l2}
    Refreshes = {r1, r2}
    MaxFailures = 3
    LockoutTime = 1
    RefreshTTL = 1
    MaxTokens = 3
    MaxTime = 1
SPECIFICATION SessionSpec
INVARIANTS SessionTypeOK FamilyRevokedTogether ChildrenHaveUsedParents LockoutComesInTime
PROPERTY RevocationIsFinal
