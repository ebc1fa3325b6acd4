\* Three calls of login, register, changePassword or logout, one address.
CONSTANTS
    r1 = r1  r2 = r2  r3 = r3  s0 = s0  ann = ann  bob = bob  home = home
    old = old  other = other  None = None
    Requests = {r1, r2, r3}
    Session = s0
    Names = {ann, bob}
    Ips = {home}
    Passwords = {old, other}
    Inputs <- Mixed
    First <- Ann
    Limit = 2
    LockAfter = 2
    TokenLife = 1
    BlacklistTtl = 1
    MaxFaults = 1
SPECIFICATION FairSpec
CHECK_DEADLOCK FALSE
INVARIANTS AttemptsAreBounded TokensKnowThePassword LoggedOutForGood
PROPERTIES BlocksEnd
