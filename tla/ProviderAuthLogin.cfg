CONSTANTS
    Providers = {1}
    Tasks = {t1, t2}
    Free = free
    MaxLogins = 2
    MaxTokens = 2
    MaxFaults = 0
SPECIFICATION Spec
INVARIANT
    LoginReplaces
