--------------------------- MODULE ClientRegistry ---------------------------
(***************************************************************************)
(* The clients of the naming server: client_registry is an array that      *)
(* REGISTER appends to and a lost connection is removed from, by shifting  *)
(* the entries behind it, under client_registry_mutex.  Every other        *)
(* handler looks its client up in the array without the mutex and keeps a  *)
(* pointer to the entry.  Socket numbers are used again once closed.       *)
(***************************************************************************)
EXTENDS Naturals, Sequences, FiniteSets

CONSTANTS
    Clients,        \* client programs
    Users, UserOf,  \* user names, and the one that each program registers
    Sockets,        \* socket numbers; the lowest free one is used
    Slots,          \* MAX_CLIENTS, of the registry and of the list of users
    Nobody,         \* no program, no socket and no user
    MaxConnects, MaxRestarts    \* bounds on connections and restarts

ASSUME RegistryAssumption ==
    /\ UserOf \in [Clients -> Users] /\ Slots \in Nat /\ Sockets \subseteq Nat
    /\ Nobody \notin Clients \cup Sockets \cup Users

VARIABLES
    slot, count,        \* client_registry and client_count
    mutex,              \* the socket whose thread holds the mutex, or Nobody
    users, usersFile,   \* the list of all users, and users.dat
    client,             \* per program: off, joining, registering, idle or asking
    link,               \* per socket, its connection
    thread,             \* per socket, what its thread does
    trie,               \* the socket whose handler holds trie_mutex, or Nobody
    accepting,          \* the socket whose first message main waits for, or Nobody
    connects, restarts

registryVars == <<slot, count, mutex>>
userVars == <<users, usersFile>>
bounds == <<connects, restarts>>
vars == <<registryVars, userVars, client, link, thread, trie, accepting, bounds>>

Places == 1..Slots
NoEntry == [socket |-> Nobody, user |-> Nobody]
NoLink == [client |-> Nobody, user |-> Nobody, message |-> "none", told |-> "nothing"]
NoThread == [step |-> "none"]
Reading == [step |-> "reading"]

NothingRuns ==
    /\ slot = [i \in Places |-> NoEntry] /\ count = 0 /\ mutex = Nobody
    /\ client = [c \in Clients |-> "off"] /\ accepting = Nobody
    /\ link = [s \in Sockets |-> NoLink] /\ thread = [s \in Sockets |-> NoThread]
    /\ trie = Nobody
Init ==
    NothingRuns /\ users = <<>> /\ usersFile = <<>> /\ connects = 0 /\ restarts = 0

Thread(s, t) == thread' = [thread EXCEPT ![s] = t]
Becomes(c, state) == client' = [client EXCEPT ![c] = state]
At(c) == {s \in Sockets : link[s].client = c}
Open(s) == link[s].client # Nobody

-----------------------------------------------------------------------------
\* The client programs.
Connect(c) ==
    /\ client[c] = "off" /\ connects < MaxConnects /\ connects' = connects + 1
    /\ Becomes(c, "joining")
    /\ UNCHANGED <<registryVars, userVars, link, thread, trie, accepting, restarts>>

Says(c, from, to, message) ==
    \E s \in At(c) :
      /\ client[c] = from /\ Becomes(c, to)
      /\ link' = [link EXCEPT ![s].message = message]
      /\ UNCHANGED <<registryVars, userVars, thread, trie, accepting, bounds>>
Register(c) == Says(c, "joining", "registering", "register")
Ask(c) == Says(c, "idle", "asking", "request")

\* EXIT, or the program ends in any other way.  What it said before can be read.
Leave(c) ==
    /\ client[c] # "off" /\ Becomes(c, "off")
    /\ link' = [s \in Sockets |-> IF s \in At(c) THEN [link[s] EXCEPT !.client = Nobody]
                                               ELSE link[s]]
    /\ UNCHANGED <<registryVars, userVars, thread, trie, accepting, bounds>>

-----------------------------------------------------------------------------
\* main accepts one connection and waits until its first message is there.
Accept(c, s) ==
    /\ accepting = Nobody /\ client[c] = "joining" /\ At(c) = {}
    /\ thread[s] = NoThread /\ (\A o \in Sockets : thread[o] = NoThread => s <= o)
    /\ Thread(s, [step |-> "accepted"]) /\ accepting' = s
    /\ link' = [link EXCEPT ![s] = [NoLink EXCEPT !.client = c, !.user = UserOf[c]]]
    /\ UNCHANGED <<registryVars, userVars, client, trie, bounds>>

Peek(s) ==
    /\ accepting = s /\ (link[s].message # "none" \/ ~Open(s))
    /\ accepting' = Nobody /\ Thread(s, Reading)
    /\ UNCHANGED <<registryVars, userVars, client, link, trie, bounds>>

\* The threads of the connections.
Told(s, told) == link' = [link EXCEPT ![s].message = "none", ![s].told = told]
Answered(s) ==
    client' = IF Open(s) THEN [client EXCEPT ![link[s].client] = "idle"] ELSE client

\* Mutant of WithUser: the list is not looked through.
WithUserAgain(u, list) == IF Len(list) >= Slots THEN list ELSE Append(list, u)
\* users_save_append: no user twice, and none when the list is full.
WithUser(u, list) ==
    IF Len(list) >= Slots \/ \E i \in DOMAIN list : list[i] = u
    THEN list ELSE Append(list, u)

Full == count >= Slots

\* The result of register_client is not looked at: a program that found no place
\* is told the same as the others.
RegisterClient(s) ==
    LET entry == [socket |-> s, user |-> link[s].user]
    IN  /\ thread[s] = Reading /\ link[s].message = "register" /\ mutex = Nobody
        /\ IF Full THEN UNCHANGED <<registryVars, userVars>>
           ELSE /\ slot' = [slot EXCEPT ![count + 1] = entry] /\ count' = count + 1
                /\ users' = WithUser(link[s].user, users) /\ UNCHANGED mutex
                /\ usersFile' = IF users' = users THEN usersFile
                                ELSE Append(usersFile, link[s].user)
        /\ Told(s, IF Full THEN "refused" ELSE "welcome") /\ Answered(s)
        /\ UNCHANGED <<thread, trie, accepting, bounds>>

\* get_client_by_socket, entry by entry.  "disturbed": an entry was removed between
\* its beginning and the use of what it found.
Removing == mutex # Nobody
\* Mutant of StartScan: the first entry is passed over.
StartScanLate(s) ==
    /\ thread[s] = Reading /\ link[s].message = "request"
    /\ Thread(s, [step |-> "scan", at |-> 2, disturbed |-> Removing])
    /\ UNCHANGED <<registryVars, userVars, client, link, trie, accepting, bounds>>
StartScan(s) ==
    /\ thread[s] = Reading /\ link[s].message = "request"
    /\ Thread(s, [step |-> "scan", at |-> 1, disturbed |-> Removing])
    /\ UNCHANGED <<registryVars, userVars, client, link, trie, accepting, bounds>>

Scan(s) ==
    LET t == thread[s]
    IN  /\ t.step = "scan" /\ t.at <= count
        /\ Thread(s, IF slot[t.at].socket = s THEN [t EXCEPT !.step = "use"]
                                              ELSE [t EXCEPT !.at = @ + 1])
        /\ UNCHANGED <<registryVars, userVars, client, link, trie, accepting, bounds>>

\* Not found: the handler returns, and the program gets no answer.
ScanEnds(s) ==
    /\ thread[s].step = "scan" /\ thread[s].at > count /\ Thread(s, Reading)
    /\ Told(s, IF link[s].told = "welcome" /\ ~thread[s].disturbed THEN "forgotten"
               ELSE "nothing")
    /\ UNCHANGED <<registryVars, userVars, client, trie, accepting, bounds>>

\* The handler acts for the user that the entry names now.  Most need trie_mutex.
Use(s) ==
    /\ thread[s].step = "use"
    /\ \E next \in {"locks", "acts"} :
         Thread(s, [step |-> next, as |-> slot[thread[s].at].user,
                    disturbed |-> thread[s].disturbed])
    /\ UNCHANGED <<registryVars, userVars, client, link, trie, accepting, bounds>>

LockTrie(s) ==
    /\ thread[s].step = "locks" /\ trie = Nobody /\ trie' = s
    /\ Thread(s, [thread[s] EXCEPT !.step = "acts"])
    /\ UNCHANGED <<registryVars, userVars, client, link, accepting, bounds>>

\* Some ask a storage server and wait without a time-out, CREATE and DELETE with
\* trie_mutex held.
AskServer(s) ==
    /\ thread[s].step = "acts" /\ Thread(s, [thread[s] EXCEPT !.step = "waits"])
    /\ UNCHANGED <<registryVars, userVars, client, link, trie, accepting, bounds>>

Reply(s) ==
    /\ thread[s].step \in {"acts", "waits"} /\ Thread(s, Reading)
    /\ trie' = IF trie = s THEN Nobody ELSE trie
    /\ Told(s, link[s].told) /\ Answered(s)
    /\ UNCHANGED <<registryVars, userVars, accepting, bounds>>

\* The connection is lost: remove_client, then close.
OwnPlaces(s) == {i \in 1..count : slot[i].socket = s}
Disturbed(t) ==
    IF t.step \in {"scan", "use"} THEN [t EXCEPT !.disturbed = TRUE] ELSE t
StartRemove(s) ==
    /\ thread[s] = Reading /\ link[s].message = "none" /\ ~Open(s) /\ mutex = Nobody
    /\ IF OwnPlaces(s) = {}
       THEN Thread(s, [step |-> "closing"]) /\ UNCHANGED mutex
       ELSE /\ mutex' = s
            /\ \E i \in OwnPlaces(s) :
                 /\ \A j \in OwnPlaces(s) : i <= j
                 /\ thread' = [[o \in Sockets |-> Disturbed(thread[o])] EXCEPT
                                 ![s] = [step |-> "shift", at |-> i]]
    /\ UNCHANGED <<slot, count, userVars, client, link, trie, accepting, bounds>>

\* One entry moves down; after the last one the mutex is let go.
ShiftUpTo(s, last, holder) ==
    LET i == thread[s].at
    IN  /\ thread[s].step = "shift"
        /\ \/ /\ i < last /\ slot' = [slot EXCEPT ![i] = slot[i + 1]]
              /\ Thread(s, [step |-> "shift", at |-> i + 1])
              /\ UNCHANGED <<count, mutex>>
           \/ /\ i >= last /\ count' = count - 1 /\ mutex' = holder
              /\ Thread(s, [step |-> "closing"]) /\ UNCHANGED slot
        /\ UNCHANGED <<userVars, client, link, trie, accepting, bounds>>

\* Mutants of Shift: the last entry is not moved; the mutex is not let go.
ShiftShort(s) == ShiftUpTo(s, count - 1, Nobody)
Shift(s) == ShiftUpTo(s, count, Nobody)

Close(s) ==
    /\ thread[s].step = "closing" /\ Thread(s, NoThread)
    /\ link' = [link EXCEPT ![s] = NoLink]
    /\ UNCHANGED <<registryVars, userVars, client, trie, accepting, bounds>>

\* The naming server starts again, and so do the programs.
RestartNaming ==
    /\ restarts < MaxRestarts /\ restarts' = restarts + 1
    /\ slot' = [i \in Places |-> NoEntry] /\ count' = 0 /\ mutex' = Nobody
    /\ users' = usersFile /\ UNCHANGED <<usersFile, connects>>
    /\ client' = [c \in Clients |-> "off"] /\ accepting' = Nobody
    /\ link' = [s \in Sockets |-> NoLink] /\ thread' = [s \in Sockets |-> NoThread]
    /\ trie' = Nobody

-----------------------------------------------------------------------------
ThreadStep(s) ==
    \/ RegisterClient(s) \/ StartScan(s) \/ Scan(s) \/ ScanEnds(s) \/ Use(s)
    \/ LockTrie(s) \/ AskServer(s) \/ Reply(s)
    \/ StartRemove(s) \/ Shift(s) \/ Close(s)
MainStep == \E s \in Sockets : Peek(s) \/ \E c \in Clients : Accept(c, s)
Next ==
    \/ \E c \in Clients : Connect(c) \/ Register(c) \/ Ask(c) \/ Leave(c)
    \/ MainStep \/ (\E s \in Sockets : ThreadStep(s)) \/ RestartNaming

Spec == Init /\ [][Next]_vars
\* Threads run and get a mutex that is let go again and again; whether a storage
\* server answers is not up to them.
FairSpec ==
    /\ Spec /\ WF_vars(MainStep)
    /\ \A s \in Sockets : SF_vars(thread[s].step # "waits" /\ ThreadStep(s))
    /\ \A c \in Clients : WF_vars(Register(c))

-----------------------------------------------------------------------------
TypeOK ==
    /\ slot \in [Places -> [socket : Sockets \cup {Nobody}, user : Users \cup {Nobody}]]
    /\ count \in 0..Slots /\ mutex \in Sockets \cup {Nobody}
    /\ users \in Seq(Users) /\ Len(users) <= Slots /\ usersFile \in Seq(Users)
    /\ client \in [Clients -> {"off", "joining", "registering", "idle", "asking"}]
    /\ link \in [Sockets -> [client : Clients \cup {Nobody}, user : Users \cup {Nobody},
                             message : {"none", "register", "request"},
                             told : {"nothing", "welcome", "refused", "forgotten"}]]
    /\ accepting \in Sockets \cup {Nobody} /\ trie \in Sockets \cup {Nobody}
    /\ connects \in Nat /\ restarts \in Nat

\* While nothing is being removed every entry belongs to a connection that is served,
\* under the name of its user, and to no other entry's; and a connection that was told
\* it is registered, and found room, has an entry until it is closed.
RegistryExact ==
    mutex = Nobody =>
      /\ \A i \in 1..count : LET s == slot[i].socket
                             IN  /\ s \in Sockets /\ thread[s].step # "none"
                                 /\ link[s].user = slot[i].user
      /\ \A i, j \in 1..count : slot[i].socket = slot[j].socket => i = j
      /\ \A s \in Sockets :
           link[s].told = "welcome" /\ thread[s].step # "closing"
             => \E i \in 1..count : slot[i].socket = s

\* A handler that no removal disturbed acts for the user who sent the request, and
\* finds the program that was registered.
ActsForSender ==
    \A s \in Sockets :
      /\ (thread[s].step \in {"locks", "acts", "waits"} /\ ~thread[s].disturbed)
            => thread[s].as = link[s].user
      /\ link[s].told # "forgotten"

\* A user who was registered once is listed for good, after restarts too, as long as
\* the list has room; no name is listed twice.
UsersKept ==
    /\ usersFile = users
    /\ \A i, j \in DOMAIN users : users[i] = users[j] => i = j
    /\ \A s \in Sockets : link[s].told = "welcome" =>
         \/ Len(users) = Slots
         \/ \E i \in DOMAIN users : users[i] = link[s].user

\* A program that connects is registered, and one that asks gets an answer, unless it
\* leaves, was given no place, an entry was removed while its own was looked for, or
\* its handler waits for ever: for a storage server (NM 157, 457), or for trie_mutex,
\* which CREATE and DELETE hold while they wait for one.
Waits(c) == client[c] \in {"joining", "registering", "asking"}
HeldUp(s) ==
    \/ thread[s].step = "waits"
    \/ thread[s].step = "locks" /\ trie # Nobody /\ thread[trie].step = "waits"
=============================================================================
