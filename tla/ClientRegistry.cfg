SPECIFICATION FairSpec
CONSTANTS
    c1 = c1
    c2 = c2
    u1 = u1
    u2 = u2
    Clients = {c1, c2}
    Users = {u1, u2}
    UserOf <- Names
    Sockets = {5, 6, 7}
    Slots = 2
    Nobody = Nobody
    MaxConnects = 3
    MaxRestarts = 1
INVARIANTS RegistryExact ActsForSender UsersKept
 
CHECK_DEADLOCK FALSE
