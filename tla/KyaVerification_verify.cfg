SPECIFICATION Spec
CONSTANTS
    rp = rp  mid = mid  agent = agent  stranger = stranger  owner = owner
    usd = usd  eur = eur  usdc = usdc  eurc = eurc
    shop = shop  till = till  home = home  away = away  here = here  there = there
    None = None
    Dids = {rp, mid, agent, stranger, owner}
    WebDids = {rp}
    Cases <- MCCases
    This = This
    Others = {other}
    CacheTtl = 2
    Skew = 0
    MaxTime <- Instants
    Busy <- LifeCases
    MaxRuns = 2
INVARIANTS AuthorityWithinDelegation RevokedBeforeIsRejected WithdrawnKeyExpires
CHECK_DEADLOCK FALSE
