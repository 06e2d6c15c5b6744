SPECIFICATION ServicesSpec
CONSTANTS
    Threads = {t1, t2}
    Residents = {r1, r2}
    Associates = {a1}
    Guards = {g1}
    Emails = {e1, e2, e3}
    Codes = {c1, c2, c3}
    Nins = {n1}
    r1 = r1
    r2 = r2
    a1 = a1
    g1 = g1
    e1 = e1
    e2 = e2
    e3 = e3
    Scopes <- MCScopes
    Users = {u1}
    MaxOtps = 2
    MaxSecrets = 2
    AttemptLimit = 2
    Neighbours = {ann}
    Admins = {admin}
    Participants = {ann, g1}
    Polls = {poll}
    Posts = {post}
    Tickets = {ticket}
    Committees = {committee}
    rb1 = rb1
    rb2 = rb2
    ri = ri
    RoomIds <- MCRoomIds
    MaxComments = 1
    Types = {x, y}
    Levies = {l}
    Tenants = {ann}
    Flat = Flat
    flat = flat
    Duplex = Duplex
    Names = {Flat, flat, Duplex}
    Lowered <- MCLowered
    Amounts = {1, 2}
    Cron = cron
    Callers = {t3}
    Payers = {ann, bob}
    MaxMonth = 1
    None = None
INVARIANTS
    
    ResetsAreEarned
    RecordsAgree
    EveryoneIsCharged
PROPERTIES
    
    SecretsAreReplacedKnowingly
    EntriesAreAllowed
    SetupHolds
SYMMETRY Symmetry
CHECK_DEADLOCK FALSE
