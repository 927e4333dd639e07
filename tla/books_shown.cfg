\* An answer of get_books that holds no list: what the array held is printed.
SPECIFICATION Spec
CONSTANTS
    ann = ann
    bob = bob
    nobody = nobody
    NoUser = nobody
    Users <- MCUsers
    Accounts <- MCAccounts
    Framings <- Announced_Or_Closed
    BUFLEN = 4
    BOOKS = 1
    MaxIssued = 2
    MaxBooks = 1
    MaxFaults = 1
INVARIANTS
    ShowsBooks
CHECK_DEADLOCK FALSE
