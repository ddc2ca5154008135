SPECIFICATION AccountsSpec
CONSTANTS
    Clients = {c1}
    MaxAccount = 2
    MaxPassword = 1
PROPERTY PasswordStays
CHECK_DEADLOCK FALSE
