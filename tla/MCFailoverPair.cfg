SPECIFICATION FailoverSpec
CONSTANTS
    None = None
    Blind = 1
    Jitter = 0
    MaxCooldown = 1
    ResetMargin = 1
    ResetTimes = {1}
    MaxTime = 1
    zai = zai
    aws = aws
    zaiBig = zaiBig
    zaiSmall = zaiSmall
    zaiWest = zaiWest
    awsBig = awsBig
    k1 = k1
    k2 = k2
    k3 = k3
    l1 = l1
    l2 = l2
    r1 = r1
    r2 = r2
    Request = {r1, r2}
    Provider = {zai, aws}
    Target = {zaiBig, zaiSmall, zaiWest, awsBig}
    Key = {k1, k2, k3}
    Pair = {l1, l2}
    ProviderOf <- MCProviderOf
    PoolOf <- MCPairPoolOf
    LabelOf <- MCLabelOf
    PairProvider <- MCPairProvider
    CountTarget = {}
    AccountScoped = {zai}
    Asks <- MCPairAsks
    Answers = {"served", "quota", "rateLimit"}
    MaxAttempts = 4
SYMMETRY SlotSymmetry
PROPERTIES
    RateLimitedKeyBenched
    OnlyLimitedLabelsSkipped
    StoreSpec
