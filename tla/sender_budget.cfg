\* Three senders, a table of two, and a clock that crosses two windows.
CONSTANTS
    Senders = {s1, s2, s3}
    SenderLimit = 2
    SenderWindow = 2
    MaxSenders = 2
    MaxTime = 4
SPECIFICATION Spec
INVARIANTS BudgetHolds TableBounded RefusedForCause
