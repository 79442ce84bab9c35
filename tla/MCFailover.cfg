SPECIFICATION FairFailoverSpec
CONSTANTS
    None = None
    Blind = 2
    Jitter = 0
    MaxCooldown = 2
    ResetMargin = 1
    ResetTimes = {1}
    MaxTime = 3
    zai = zai
    aws = aws
    zaiBig = zaiBig
    zaiSmall = zaiSmall
    zaiWest = zaiWest
    awsBig = awsBig
    k1 = k1
    k2 = k2
    k3 = k3
    l1 = l1
    l2 = l2
    r1 = r1
    r2 = r2
    Request = {r1}
    Provider = {zai, aws}
    Target = {zaiBig, zaiSmall, zaiWest, awsBig}
    Key = {k1, k2}
    Pair = {l1, l2}
    ProviderOf <- MCProviderOf
    PoolOf <- MCPoolOf
    LabelOf <- MCLabelOf
    PairProvider <- MCPairProvider
    CountTarget = {zaiSmall}
    AccountScoped = {zai}
    Asks <- MCAsks
    Answers <- MCAnswer
    MaxAttempts = 4
INVARIANTS
    GiveUpExhausted
PROPERTIES
    OnlyRetryableRetried
    CooldownsTold
    EveryRequestAnswered
