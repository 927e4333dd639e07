\* Two accounts, every command, answers in pieces of one to three symbols, one
\* fault in a session: what is read, shown and said is true.
SPECIFICATION FairSpec
CONSTANTS
    ann = ann
    bob = bob
    nobody = nobody
    NoUser = nobody
    Users <- MCUsers
    Accounts <- MCAccounts
    Framings <- Announced_Or_Closed
    BUFLEN = 3
    BOOKS = 1
    MaxIssued = 3
    MaxBooks = 2
    MaxFaults = 1
INVARIANTS
    TypeOK
    WholeAnswer
    OwnToken
    Agreed
    OwnBooks
    Truthful
PROPERTIES
    Returns
CHECK_DEADLOCK FALSE
