SPECIFICATION Spec
CONSTANTS
    Jupiter = Jupiter
    SplToken = SplToken
    EventAuthority = EventAuthority
    None = None
    user = user
    authority = authority
    authority7 = authority7
    authority8 = authority8
    user_source = user_source
    user_destination = user_destination
    program_source = program_source
    program_destination = program_destination
    token2022 = token2022
    mint_in = mint_in
    mint_out = mint_out
    ledger = ledger
    fee = fee
    elsewhere = elsewhere
    vault = vault
    limit = limit
    create = create
    record = record
    close = close
    Keys <- MCKeys
    AccountsRequests <- MCAccountsRequests
    DataRequests <- MCDataRequests
    AmmMetas <- MCAmmMetas
    Authority <- MCAuthority
    Others <- MCOthers
    Records <- MCRecords
    Surroundings <- MCSurroundings
    AuthorityRanges <- BoundaryRanges
INVARIANTS
    ExactOutNeedsSharedAccounts
