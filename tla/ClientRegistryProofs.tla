------------------------ MODULE ClientRegistryProofs ------------------------
(***************************************************************************)
(* Proofs for ClientRegistry: the registry is exact between removals, a    *)
(* handler that no removal disturbed acts for the user who sent the        *)
(* request, and no user is forgotten, for any number of programs, sockets, *)
(* places and restarts.                                                    *)
(***************************************************************************)
EXTENDS ClientRegistry, TLAPS

-----------------------------------------------------------------------------
(* The inductive invariant.                                                 *)

Simple   == [step : {"none", "accepted", "reading", "closing"}]
Looking  == [step : {"scan"}, at : Nat \ {0}, disturbed : BOOLEAN]
              \cup [step : {"use"}, at : Places, disturbed : BOOLEAN]
Acting   == [step : {"locks", "acts", "waits"}, as : Users \cup {Nobody}, disturbed : BOOLEAN]
Shifting == [step : {"shift"}, at : Nat \ {0}]

\* What a thread can be doing.
ThreadsOK == thread \in [Sockets -> Simple \cup Looking \cup Acting \cup Shifting]

\* One thread shifts, the one that holds the mutex; main waits for one thread.
Turns ==
    /\ \A s \in Sockets : thread[s].step = "shift" <=> mutex = s
    /\ \A s \in Sockets : accepting = s => thread[s].step = "accepted"

\* The place that is being overwritten; there is none when the mutex is free.
Hole == IF mutex = Nobody THEN 0 ELSE thread[mutex].at
HoleInside == mutex # Nobody => Hole \in 1..count
Held == {i \in 1..count : i # Hole}
InTable(s) == \E i \in Held : slot[i].socket = s

\* The connections that may have an entry, and those that cannot have one yet.
Served == {"reading", "scan", "use", "locks", "acts", "waits"}
NotYet(s) == \/ link[s].message = "register"
             \/ Open(s) /\ client[link[s].client] = "joining"

LinksOn ==
    \A s \in Sockets :
      /\ Open(s) => client[link[s].client] # "off"
      /\ Open(s) \/ link[s].message = "register" => link[s].user \in Users

\* The entries outside the hole are exact, while entries are shifted too.
TableExact ==
    /\ \A i \in Held : LET s == slot[i].socket
                       IN  /\ s \in Sockets /\ thread[s].step \in Served
                           /\ link[s].user = slot[i].user /\ ~NotYet(s)
    /\ \A i, j \in Held : slot[i].socket = slot[j].socket => i = j

\* What a lookup that no removal disturbed knows.
LookupsSound ==
    \A s \in Sockets :
      thread[s].step \in {"scan", "use"} /\ thread[s].disturbed = FALSE =>
        /\ mutex = Nobody
        /\ thread[s].step = "scan" =>
             \A j \in 1..count : j < thread[s].at => slot[j].socket # s
        /\ thread[s].step = "use" =>
             thread[s].at <= count /\ slot[thread[s].at].socket = s

WelcomeKept ==
    \A s \in Sockets : link[s].told = "welcome" =>
      /\ thread[s].step \notin {"none", "accepted"}
      /\ thread[s].step \in Served => InTable(s)

IInv ==
    /\ TypeOK /\ ThreadsOK /\ Turns /\ HoleInside /\ LinksOn
    /\ TableExact /\ LookupsSound /\ WelcomeKept /\ ActsForSender /\ UsersKept

-----------------------------------------------------------------------------
(* A message that comes, is read or is answered changes one connection.     *)

Links == [client : Clients \cup {Nobody}, user : Users \cup {Nobody},
          message : {"none", "register", "request"},
          told : {"nothing", "welcome", "refused", "forgotten"}]

LEMMA SaidType ==
  ASSUME NEW L \in [Sockets -> Links], NEW s \in Sockets,
         NEW m \in {"none", "register", "request"}
  PROVE  [L EXCEPT ![s].message = m] \in [Sockets -> Links]
<1>1. [L[s] EXCEPT !.message = m] \in Links
  BY DEF Links
<1>2. [L EXCEPT ![s] = [L[s] EXCEPT !.message = m]] \in [Sockets -> Links]
  BY <1>1
<1> QED BY <1>2

LEMMA ToldType ==
  ASSUME NEW L \in [Sockets -> Links], NEW s \in Sockets,
         NEW t \in {"nothing", "welcome", "refused", "forgotten"}
  PROVE  [L EXCEPT ![s].message = "none", ![s].told = t] \in [Sockets -> Links]
<1>1. [L[s] EXCEPT !.message = "none", !.told = t] \in Links
  BY DEF Links
<1>2. [L EXCEPT ![s] = [L[s] EXCEPT !.message = "none", !.told = t]] \in [Sockets -> Links]
  BY <1>1
<1> QED BY <1>2

-----------------------------------------------------------------------------
(* The list of users.                                                       *)

Distinct(list) == \A i, j \in DOMAIN list : list[i] = list[j] => i = j
Lists(list, u) == Len(list) = Slots \/ \E i \in DOMAIN list : list[i] = u

\* users_save_append lists the user unless there is no room, and drops nobody.
LEMMA WithUserLists ==
  ASSUME NEW list \in Seq(Users), Len(list) <= Slots, Distinct(list), NEW u \in Users
  PROVE  /\ WithUser(u, list) \in Seq(Users) /\ Len(WithUser(u, list)) <= Slots
         /\ Distinct(WithUser(u, list)) /\ Lists(WithUser(u, list), u)
         /\ \A v : Lists(list, v) => Lists(WithUser(u, list), v)
         /\ WithUser(u, list) = list \/ WithUser(u, list) = Append(list, u)
<1> USE RegistryAssumption
<1>1. Len(list) \in Nat /\ DOMAIN list = 1..Len(list) /\ \A i \in DOMAIN list : list[i] \in Users
  OBVIOUS
<1>2. CASE Len(list) >= Slots \/ \E i \in DOMAIN list : list[i] = u
  <2>1. WithUser(u, list) = list
    BY <1>2 DEF WithUser
  <2>2. Lists(list, u)
    <3>1. CASE Len(list) >= Slots
      <4>1. Len(list) = Slots
        BY <3>1
      <4> QED BY <4>1 DEF Lists
    <3>2. CASE \E i \in DOMAIN list : list[i] = u
      BY <3>2 DEF Lists
    <3> QED BY <1>2, <3>1, <3>2
  <2> QED BY <2>1, <2>2
<1>3. CASE ~(Len(list) >= Slots \/ \E i \in DOMAIN list : list[i] = u)
  <2> DEFINE longer == Append(list, u)
  <2>1. WithUser(u, list) = longer
    BY <1>3 DEF WithUser
  <2>2. /\ longer \in Seq(Users) /\ Len(longer) = Len(list) + 1
        /\ longer[Len(list) + 1] = u /\ \A i \in 1..Len(list) : longer[i] = list[i]
        /\ DOMAIN longer = 1..(Len(list) + 1)
    BY <1>1
  <2>3. Distinct(longer)
    BY <1>1, <1>3, <2>2 DEF Distinct
  <2>4. Lists(longer, u)
    BY <1>1, <2>2 DEF Lists
  <2>5. ASSUME NEW v, Lists(list, v) PROVE Lists(longer, v)
    <3>1. PICK i \in 1..Len(list) : list[i] = v
      BY <1>1, <1>3, <2>5 DEF Lists
    <3>2. i \in DOMAIN longer /\ longer[i] = v
      BY <1>1, <2>2, <3>1
    <3> QED BY <3>2 DEF Lists
  <2>6. Len(longer) <= Slots
    BY <1>1, <1>3, <2>2
  <2> QED BY <2>1, <2>2, <2>3, <2>4, <2>5, <2>6
<1> QED BY <1>2, <1>3

-----------------------------------------------------------------------------
(* Initially, and after a restart, there is nothing to relate.              *)

\* With no connection, no entry and no thread only the users remain.
LEMMA NothingRunsInv ==
  ASSUME NothingRuns', users' \in Seq(Users), Len(users') <= Slots, usersFile' = users',
         \A i, j \in DOMAIN users' : users'[i] = users'[j] => i = j,
         connects' \in Nat, restarts' \in Nat
  PROVE  IInv'
<1> USE RegistryAssumption DEF NothingRuns, NoEntry, NoLink, NoThread
<1>1. TypeOK'
  BY DEF TypeOK, Places
<1>2. ThreadsOK'
  BY DEF ThreadsOK, Simple
<1>3. Turns' /\ HoleInside' /\ LinksOn'
  BY DEF Turns, HoleInside, LinksOn, Open
<1>4. TableExact' /\ LookupsSound'
  BY DEF TableExact, LookupsSound, Held
<1>5. WelcomeKept' /\ ActsForSender' /\ UsersKept'
  BY DEF WelcomeKept, ActsForSender, UsersKept, Served
<1> QED BY <1>1, <1>2, <1>3, <1>4, <1>5 DEF IInv

-----------------------------------------------------------------------------
(* The programs.                                                            *)

\* A program that connects had no connection.
LEMMA ConnectInv ==
  ASSUME IInv, NEW c \in Clients, Connect(c)
  PROVE  IInv'
<1> USE RegistryAssumption DEF Connect, Becomes, registryVars, userVars
<1>1. TypeOK'
  BY DEF IInv, TypeOK, Places
<1>2. ThreadsOK' /\ Turns' /\ HoleInside' /\ LookupsSound'
  BY DEF IInv, ThreadsOK, Turns, HoleInside, Hole, LookupsSound
<1>3. LinksOn'
  BY DEF IInv, LinksOn, Open, TypeOK
<1>4. \A s \in Sockets : NotYet(s)' => NotYet(s)
  BY DEF IInv, NotYet, LinksOn, Open, TypeOK
<1>5. TableExact'
  BY <1>4 DEF IInv, TableExact, Held, Hole
<1>6. WelcomeKept' /\ ActsForSender' /\ UsersKept'
  BY DEF IInv, WelcomeKept, InTable, Held, Hole, ActsForSender, UsersKept
<1> QED BY <1>1, <1>2, <1>3, <1>5, <1>6 DEF IInv

\* A message of a program changes none of the connections' users.
LEMMA SaysInv ==
  ASSUME IInv, NEW c \in Clients, Register(c) \/ Ask(c)
  PROVE  IInv'
<1> USE RegistryAssumption DEF Becomes, At, registryVars, userVars, bounds
<1>1. PICK s \in At(c) :
        /\ client' = [client EXCEPT ![c] = IF Register(c) THEN "registering" ELSE "asking"]
        /\ link' = [link EXCEPT ![s].message = IF Register(c) THEN "register" ELSE "request"]
        /\ client[c] = IF Register(c) THEN "joining" ELSE "idle"
        /\ UNCHANGED <<slot, count, mutex, users, usersFile, thread, trie, accepting,
                       connects, restarts>>
  BY DEF Register, Ask, Says
<1>2. /\ s \in Sockets /\ link[s].client = c
      /\ client \in [Clients -> {"off", "joining", "registering", "idle", "asking"}]
  BY DEF IInv, TypeOK
<1>3. /\ \A o \in Sockets : /\ link'[o].client = link[o].client
                            /\ link'[o].user = link[o].user
                            /\ link'[o].told = link[o].told
      /\ \A o \in Sockets \ {s} : link'[o].message = link[o].message
  BY <1>1, <1>2 DEF IInv, TypeOK
<1>4. TypeOK'
  <2>1. client' \in [Clients -> {"off", "joining", "registering", "idle", "asking"}]
    BY <1>1, <1>2
  <2>2. link' \in [Sockets -> Links]
    <3>1. (IF Register(c) THEN "register" ELSE "request") \in {"none", "register", "request"}
      OBVIOUS
    <3>2. link \in [Sockets -> Links]
      BY DEF IInv, TypeOK, Links
    <3> QED BY <1>1, <1>2, <3>1, <3>2, SaidType
  <2> QED BY <1>1, <2>1, <2>2 DEF IInv, TypeOK, Places, Links
<1>5. ThreadsOK' /\ Turns' /\ HoleInside' /\ LookupsSound'
  BY <1>1 DEF IInv, ThreadsOK, Turns, HoleInside, Hole, LookupsSound
<1>6. LinksOn'
  BY <1>1, <1>2, <1>3 DEF IInv, LinksOn, Open
<1>7. \A o \in Sockets : NotYet(o)' => NotYet(o)
  <2>1. ASSUME NEW o \in Sockets \ {s}, NotYet(o)' PROVE NotYet(o)
    BY <1>1, <1>2, <1>3, <2>1 DEF NotYet, Open, IInv, LinksOn
  <2>2. NotYet(s)' => NotYet(s)
    <3>1. CASE Register(c)
      BY <1>1, <1>2, <3>1 DEF NotYet, Open
    <3>2. CASE ~Register(c)
      <4>1. link'[s].message = "request"
        BY <1>1, <1>2, <3>2 DEF IInv, TypeOK
      <4>2. client'[link'[s].client] = "asking"
        BY <1>1, <1>2, <1>3, <3>2
      <4> QED BY <4>1, <4>2 DEF NotYet
    <3> QED BY <3>1, <3>2
  <2> QED BY <2>1, <2>2
<1>8. TableExact'
  BY <1>1, <1>3, <1>7 DEF IInv, TableExact, Held, Hole
<1>9. WelcomeKept' /\ ActsForSender' /\ UsersKept'
  BY <1>1, <1>3 DEF IInv, WelcomeKept, InTable, Held, Hole, ActsForSender, UsersKept
<1> QED BY <1>4, <1>5, <1>6, <1>8, <1>9 DEF IInv

\* A program that leaves takes its connections along, but not what it said.
LEMMA LeaveInv ==
  ASSUME IInv, NEW c \in Clients, Leave(c)
  PROVE  IInv'
<1> USE RegistryAssumption DEF Leave, Becomes, At, registryVars, userVars, bounds
<1>1. \A o \in Sockets :
        /\ link'[o].user = link[o].user /\ link'[o].told = link[o].told
        /\ link'[o].message = link[o].message
        /\ link'[o].client = IF link[o].client = c THEN Nobody ELSE link[o].client
  BY DEF IInv, TypeOK
<1>2. TypeOK'
  BY ZenonT(40) DEF IInv, TypeOK, Places
<1>3. ThreadsOK' /\ Turns' /\ HoleInside' /\ LookupsSound'
  BY DEF IInv, ThreadsOK, Turns, HoleInside, Hole, LookupsSound
<1>4. LinksOn' /\ \A o \in Sockets : NotYet(o)' => NotYet(o)
  BY <1>1 DEF IInv, LinksOn, Open, TypeOK, NotYet
<1>5. TableExact'
  BY <1>1, <1>4 DEF IInv, TableExact, Held, Hole
<1>6. WelcomeKept' /\ ActsForSender' /\ UsersKept'
  BY <1>1 DEF IInv, WelcomeKept, InTable, Held, Hole, ActsForSender, UsersKept
<1> QED BY <1>2, <1>3, <1>4, <1>5, <1>6 DEF IInv

-----------------------------------------------------------------------------
(* main.                                                                    *)

\* A new connection gets a socket that no entry names.
LEMMA AcceptInv ==
  ASSUME IInv, NEW s \in Sockets, NEW c \in Clients, Accept(c, s)
  PROVE  IInv'
<1> USE RegistryAssumption DEF Accept, Thread, NoLink, NoThread, registryVars, userVars, bounds
<1>1. \A o \in Sockets \ {s} : link'[o] = link[o] /\ thread'[o] = thread[o]
  BY DEF IInv, TypeOK, ThreadsOK
<1>2. /\ link'[s].client = c /\ link'[s].user = UserOf[c]
      /\ link'[s].message = "none" /\ link'[s].told = "nothing"
      /\ thread'[s].step = "accepted" /\ thread[s].step = "none"
  BY DEF IInv, TypeOK, ThreadsOK
<1>3. TypeOK'
  BY DEF IInv, TypeOK, Places
<1>4. ThreadsOK'
  BY DEF IInv, ThreadsOK, Simple
<1>5. Turns' /\ Hole' = Hole /\ Held' = Held
  BY <1>1, <1>2 DEF IInv, Turns, Hole, Held, TypeOK
<1>6. HoleInside' /\ LinksOn'
  BY <1>1, <1>2, <1>5 DEF IInv, HoleInside, LinksOn, Open
<1>7. \A i \in Held : slot[i].socket \in Sockets \ {s}
  BY <1>2 DEF IInv, TableExact, Served
<1>8. TableExact'
  BY <1>1, <1>5, <1>7 DEF IInv, TableExact, NotYet, Open
<1>9. LookupsSound' /\ ActsForSender'
  BY <1>1, <1>2 DEF IInv, LookupsSound, ActsForSender
<1>10. WelcomeKept'
  BY <1>1, <1>2, <1>5 DEF IInv, WelcomeKept, InTable
<1>11. UsersKept'
  BY <1>1, <1>2 DEF IInv, UsersKept
<1> QED BY <1>3, <1>4, <1>5, <1>6, <1>8, <1>9, <1>10, <1>11 DEF IInv

\* The thread of a connection begins to read.
LEMMA PeekInv ==
  ASSUME IInv, NEW s \in Sockets, Peek(s)
  PROVE  IInv'
<1> USE RegistryAssumption DEF Peek, Thread, Reading, registryVars, userVars, bounds
<1>1. \A o \in Sockets \ {s} : thread'[o] = thread[o]
  BY DEF IInv, ThreadsOK
<1>2. thread'[s].step = "reading" /\ thread[s].step = "accepted"
  BY DEF IInv, ThreadsOK, Turns
<1>3. TypeOK' /\ LinksOn' /\ UsersKept'
  BY DEF IInv, TypeOK, Places, LinksOn, Open, UsersKept
<1>4. ThreadsOK'
  BY DEF IInv, ThreadsOK, Simple
<1>5. Turns' /\ Hole' = Hole /\ Held' = Held
  BY <1>1, <1>2 DEF IInv, Turns, Hole, Held, TypeOK
<1>6. HoleInside'
  BY <1>5 DEF IInv, HoleInside
<1>7. TableExact'
  BY <1>1, <1>2, <1>5 DEF IInv, TableExact, NotYet, Open, Served
<1>8. LookupsSound' /\ ActsForSender'
  BY <1>1, <1>2 DEF IInv, LookupsSound, ActsForSender
<1>9. WelcomeKept'
  BY <1>1, <1>2, <1>5 DEF IInv, WelcomeKept, InTable, Served
<1> QED BY <1>3, <1>4, <1>5, <1>6, <1>7, <1>8, <1>9 DEF IInv

-----------------------------------------------------------------------------
(* The threads of the connections.                                          *)

\* What register_client appends names a connection without an entry.
LEMMA RegisterClientInv ==
  ASSUME IInv, NEW s \in Sockets, RegisterClient(s)
  PROVE  IInv'
<1> DEFINE told == IF Full THEN "refused" ELSE "welcome"
           entry == [socket |-> s, user |-> link[s].user]
<1> USE RegistryAssumption
<1>1. /\ link[s].message = "register" /\ thread[s].step = "reading" /\ mutex = Nobody
      /\ link' = [link EXCEPT ![s].message = "none", ![s].told = told]
      /\ client' = IF Open(s) THEN [client EXCEPT ![link[s].client] = "idle"] ELSE client
      /\ UNCHANGED <<mutex, thread, trie, accepting, connects, restarts>>
      /\ Full => UNCHANGED <<slot, count, users, usersFile>>
      /\ ~Full => /\ slot' = [slot EXCEPT ![count + 1] = entry] /\ count' = count + 1
                  /\ users' = WithUser(link[s].user, users)
                  /\ usersFile' = IF users' = users THEN usersFile
                                  ELSE Append(usersFile, link[s].user)
  BY DEF RegisterClient, Told, Answered, Reading, registryVars, userVars, bounds
<1>2. told \in {"nothing", "welcome", "refused", "forgotten"} /\ link \in [Sockets -> Links]
  BY DEF IInv, TypeOK, Links
<1>3. link' \in [Sockets -> Links]
  BY <1>1, <1>2, ToldType
<1>4. /\ \A o \in Sockets : /\ link'[o].client = link[o].client
                            /\ link'[o].user = link[o].user
      /\ \A o \in Sockets \ {s} : link'[o].message = link[o].message
                                  /\ link'[o].told = link[o].told
      /\ link'[s].message = "none" /\ link'[s].told = told
  BY <1>1, <1>2 DEF Links
<1>5. /\ client' \in [Clients -> {"off", "joining", "registering", "idle", "asking"}]
      /\ \A c \in Clients : client'[c] = client[c] \/ client'[c] = "idle"
      /\ Open(s) => client'[link[s].client] = "idle"
      /\ \A o \in Sockets : Open(o) => link[o].client \in Clients
  BY <1>1, <1>2 DEF IInv, TypeOK, Open, Links
<1>6. LinksOn' /\ (\A o \in Sockets : NotYet(o)' => NotYet(o)) /\ ~NotYet(s)'
  BY <1>4, <1>5 DEF IInv, LinksOn, NotYet, Open
<1>7. ThreadsOK' /\ Turns'
  BY <1>1 DEF IInv, ThreadsOK, Turns
<1>8. CASE Full
  <2>1. UNCHANGED <<slot, count, mutex, users, usersFile, thread, trie, accepting, connects, restarts>>
    BY <1>1, <1>8
  <2>2. TypeOK'
    BY <1>3, <1>5, <2>1 DEF IInv, TypeOK, Places, Links
  <2>3. Hole' = Hole /\ Held' = Held /\ HoleInside' /\ LookupsSound'
    BY <2>1 DEF IInv, HoleInside, Hole, Held, LookupsSound
  <2>4. TableExact'
    BY <1>4, <1>6, <2>1, <2>3 DEF IInv, TableExact
  <2>5. WelcomeKept'
    BY <1>4, <1>8, <2>1, <2>3 DEF IInv, WelcomeKept, InTable
  <2>6. ActsForSender' /\ UsersKept'
    BY <1>4, <1>8, <2>1 DEF IInv, ActsForSender, UsersKept
  <2> QED BY <1>6, <1>7, <2>2, <2>3, <2>4, <2>5, <2>6 DEF IInv
<1>9. CASE ~Full
  <2>1. /\ slot' = [slot EXCEPT ![count + 1] = entry] /\ count' = count + 1
        /\ users' = WithUser(link[s].user, users)
        /\ usersFile' = IF users' = users THEN usersFile
                        ELSE Append(usersFile, link[s].user)
    BY <1>1, <1>9
  <2>2. link[s].user \in Users \cup {Nobody}
    BY <1>2 DEF Links
  <2>3. /\ count + 1 \in Places /\ count \in Nat /\ slot'[count + 1] = entry
        /\ \A i \in 1..count : slot'[i] = slot[i]
        /\ slot' \in [Places -> [socket : Sockets \cup {Nobody}, user : Users \cup {Nobody}]]
    BY <1>9, <2>1, <2>2 DEF IInv, TypeOK, Places, Full
  <2>4. Hole = 0 /\ Hole' = 0 /\ Held = 1..count /\ Held' = 1..(count + 1)
    BY <1>1, <2>1, <2>3 DEF Hole, Held
  <2>5. ~InTable(s)
    BY <1>1, <2>4 DEF IInv, TableExact, InTable, NotYet
  <2>6. ASSUME NEW i \in 1..(count + 1)
        PROVE  /\ slot'[i].socket \in Sockets /\ thread'[slot'[i].socket].step \in Served
               /\ link'[slot'[i].socket].user = slot'[i].user
               /\ i \in 1..count => slot'[i].socket # s /\ ~NotYet(slot[i].socket)
    <3>1. CASE i \in 1..count
      <4>1. i \in Held /\ slot'[i] = slot[i]
        BY <2>3, <2>4, <3>1
      <4>2. /\ slot[i].socket \in Sockets /\ thread[slot[i].socket].step \in Served
            /\ link[slot[i].socket].user = slot[i].user /\ ~NotYet(slot[i].socket)
        BY <4>1 DEF IInv, TableExact
      <4>3. slot[i].socket # s
        BY <2>5, <4>1 DEF InTable
      <4> QED BY <1>1, <1>4, <4>1, <4>2, <4>3
    <3>2. CASE i = count + 1
      <4>1. slot'[i].socket = s /\ slot'[i].user = link[s].user /\ thread' = thread
        BY <1>1, <2>3, <3>2
      <4>2. i \notin 1..count
        BY <2>3, <3>2
      <4> QED BY <1>1, <1>4, <4>1, <4>2 DEF Served
    <3> QED BY <2>3, <3>1, <3>2
  <2>7. ASSUME NEW i \in 1..(count + 1)
        PROVE  ~NotYet(slot[i].socket)'
    <3>1. PICK o \in Sockets : o = slot'[i].socket
      BY <2>6
    <3>2. ~NotYet(o)'
      <4>1. CASE i \in 1..count
        BY <1>6, <2>3, <2>6, <3>1, <4>1
      <4>2. CASE i = count + 1
        BY <1>6, <2>3, <3>1, <4>2
      <4> QED BY <2>3, <4>1, <4>2
    <3> QED BY <3>1, <3>2 DEF NotYet, Open
  <2>8. ASSUME NEW i \in 1..(count + 1), NEW j \in 1..(count + 1),
               slot'[i].socket = slot'[j].socket
        PROVE  i = j
    BY <2>3, <2>4, <2>6, <2>8 DEF IInv, TableExact
  <2>9. TableExact'
    BY <2>4, <2>6, <2>7, <2>8 DEF TableExact
  <2>10. LookupsSound'
    <3>1. ASSUME NEW o \in Sockets, thread'[o].step \in {"scan", "use"},
                 thread'[o].disturbed = FALSE
          PROVE  /\ mutex' = Nobody
                 /\ thread'[o].step = "scan" =>
                      \A j \in 1..count' : j < thread'[o].at => slot'[j].socket # o
                 /\ thread'[o].step = "use" =>
                      thread'[o].at <= count' /\ slot'[thread'[o].at].socket = o
      <4>1. thread'[o] = thread[o] /\ thread[o] \in Looking
        BY <1>1, <3>1 DEF IInv, ThreadsOK, Simple, Acting, Shifting
      <4>2. /\ thread[o].step = "scan" =>
                 \A j \in 1..count : j < thread[o].at => slot[j].socket # o
            /\ thread[o].step = "use" =>
                 thread[o].at <= count /\ slot[thread[o].at].socket = o
        BY <3>1, <4>1 DEF IInv, LookupsSound
      <4>3. o # s /\ slot'[count + 1].socket # o
        BY <1>1, <2>3, <3>1, <4>1
      <4>4. thread[o].step = "scan" =>
              \A j \in 1..(count + 1) : j < thread[o].at => slot'[j].socket # o
        BY <2>3, <4>2, <4>3
      <4>5. thread[o].step = "use" => thread[o].at \in 1..count
        BY <2>3, <4>1, <4>2 DEF Looking, Places
      <4> QED BY <1>1, <2>1, <2>3, <4>1, <4>2, <4>4, <4>5
    <3> QED BY <3>1 DEF LookupsSound
  <2>11. \A o \in Sockets : InTable(o) \/ o = s => InTable(o)'
    BY <2>1, <2>3, <2>4 DEF InTable
  <2>12. WelcomeKept' /\ ActsForSender' /\ HoleInside'
    <3>1. thread' = thread /\ mutex' = mutex
      BY <1>1
    <3>2. WelcomeKept'
      BY <1>1, <1>4, <2>11, <3>1 DEF IInv, WelcomeKept
    <3>3. ActsForSender'
      BY <1>4, <1>9, <3>1 DEF IInv, ActsForSender
    <3>4. HoleInside'
      BY <1>1, <3>1 DEF HoleInside
    <3> QED BY <3>2, <3>3, <3>4
  <2>13. link[s].user \in Users
    BY <1>1 DEF IInv, LinksOn
  <2>14. /\ users' \in Seq(Users) /\ Len(users') <= Slots /\ Distinct(users')
         /\ Lists(users', link[s].user) /\ \A v : Lists(users, v) => Lists(users', v)
         /\ users' = users \/ users' = Append(users, link[s].user)
    <3>1. users \in Seq(Users) /\ Len(users) <= Slots /\ Distinct(users)
      BY DEF IInv, TypeOK, UsersKept, Distinct
    <3> QED BY <2>1, <2>13, <3>1, WithUserLists
  <2>15. UsersKept'
    <3>1. usersFile' = users'
      BY <2>1, <2>14 DEF IInv, UsersKept
    <3>2. ASSUME NEW o \in Sockets, link'[o].told = "welcome" PROVE Lists(users', link'[o].user)
      <4>1. CASE o = s
        BY <1>4, <2>14, <4>1
      <4>2. CASE o # s
        <5>1. Lists(users, link[o].user)
          BY <1>4, <3>2, <4>2 DEF IInv, UsersKept, Lists
        <5> QED BY <1>4, <2>14, <5>1
      <4> QED BY <4>1, <4>2
    <3> QED BY <2>14, <3>1, <3>2 DEF UsersKept, Distinct, Lists
  <2>16. TypeOK'
    BY <1>1, <1>3, <1>5, <2>1, <2>3, <2>14, <2>15 DEF IInv, TypeOK, Places, Links, UsersKept
  <2> QED BY <1>6, <1>7, <2>9, <2>10, <2>12, <2>15, <2>16 DEF IInv
<1> QED BY <1>8, <1>9

-----------------------------------------------------------------------------
(* Lookups.                                                                 *)

\* What a step of a served thread leaves alone when only the thread changes.
LEMMA ServedStep ==
  ASSUME IInv, NEW s \in Sockets, NEW t \in Simple \cup Looking \cup Acting,
         thread[s].step \in Served, t.step \in Served,
         Thread(s, t), UNCHANGED <<registryVars, userVars, client, accepting, bounds>>
  PROVE  /\ ThreadsOK' /\ Turns' /\ HoleInside' /\ Hole' = Hole /\ Held' = Held
         /\ thread'[s] = t /\ \A o \in Sockets \ {s} : thread'[o] = thread[o]
         /\ \A o \in Sockets : thread'[o].step \in Served <=> thread[o].step \in Served
<1> USE RegistryAssumption DEF Thread, registryVars, userVars, bounds
<1>1. thread'[s] = t /\ \A o \in Sockets \ {s} : thread'[o] = thread[o]
  BY DEF IInv, ThreadsOK
<1>2. ThreadsOK'
  BY DEF IInv, ThreadsOK
<1>3. mutex # s /\ accepting # s
  BY DEF IInv, Turns, Served
<1>4. Turns'
  BY <1>1, <1>3 DEF IInv, Turns, Served
<1>5. Hole' = Hole /\ Held' = Held /\ HoleInside'
  BY <1>1, <1>3 DEF IInv, TypeOK, Hole, Held, HoleInside
<1> QED BY <1>1, <1>2, <1>4, <1>5

\* A step of a lookup that changes only what its thread knows.
LEMMA LookupStep ==
  ASSUME IInv, NEW s \in Sockets, NEW t \in Simple \cup Looking \cup Acting,
         thread[s].step \in Served, t.step \in Served,
         Thread(s, t), trie' \in Sockets \cup {Nobody},
         UNCHANGED <<registryVars, userVars, client, link, accepting, bounds>>
  PROVE  /\ TypeOK' /\ ThreadsOK' /\ Turns' /\ HoleInside' /\ LinksOn'
         /\ TableExact' /\ WelcomeKept' /\ UsersKept'
<1> USE RegistryAssumption
<1>1. /\ ThreadsOK' /\ Turns' /\ HoleInside' /\ Held' = Held
      /\ \A o \in Sockets : thread'[o].step \in Served <=> thread[o].step \in Served
      /\ \A o \in Sockets : thread'[o].step \in {"none", "accepted"} =>
           thread'[o].step = thread[o].step
  BY ServedStep DEF Served
<1>2. UNCHANGED <<slot, count, mutex, users, usersFile, client, link, accepting, connects,
                  restarts>>
  BY DEF registryVars, userVars, bounds
<1>3. TypeOK' /\ LinksOn' /\ UsersKept'
  BY <1>2 DEF IInv, TypeOK, Places, LinksOn, Open, UsersKept
<1>4. TableExact' /\ WelcomeKept'
  BY <1>1, <1>2 DEF IInv, TableExact, NotYet, Open, WelcomeKept, InTable
<1> QED BY <1>1, <1>3, <1>4

\* A lookup begins at the first entry.
LEMMA StartScanInv ==
  ASSUME IInv, NEW s \in Sockets, StartScan(s)
  PROVE  IInv'
<1> DEFINE t == [step |-> "scan", at |-> 1, disturbed |-> Removing]
<1>1. /\ thread[s].step = "reading" /\ Thread(s, t) /\ trie' \in Sockets \cup {Nobody}
      /\ UNCHANGED <<registryVars, userVars, client, link, accepting, bounds>>
  BY DEF StartScan, Reading, IInv, TypeOK
<1>2. t \in Simple \cup Looking \cup Acting /\ t.step \in Served
  BY DEF Looking, Served, Removing
<1>3. /\ TypeOK' /\ ThreadsOK' /\ Turns' /\ HoleInside' /\ LinksOn'
      /\ TableExact' /\ WelcomeKept' /\ UsersKept'
  BY <1>1, <1>2, LookupStep DEF Served
<1>4. thread'[s] = t /\ \A o \in Sockets \ {s} : thread'[o] = thread[o]
  BY <1>1, <1>2, ServedStep DEF Served
<1>5. LookupsSound'
  <2>1. t.disturbed = FALSE => mutex = Nobody
    BY DEF Removing
  <2>2. t.step = "scan" /\ \A j \in 1..count : ~(j < t.at)
    BY DEF IInv, TypeOK
  <2>3. UNCHANGED <<slot, count, mutex>>
    BY <1>1 DEF registryVars
  <2> HIDE DEF t
  <2> QED BY <1>4, <2>1, <2>2, <2>3 DEF IInv, LookupsSound
<1>6. ActsForSender'
  BY <1>1, <1>4 DEF IInv, ActsForSender
<1> QED BY <1>3, <1>5, <1>6 DEF IInv

\* The next entry is compared.
LEMMA ScanInv ==
  ASSUME IInv, NEW s \in Sockets, Scan(s)
  PROVE  IInv'
<1> DEFINE t == thread[s]
           u == IF slot[t.at].socket = s THEN [t EXCEPT !.step = "use"]
                                         ELSE [t EXCEPT !.at = @ + 1]
<1>1. /\ t.step = "scan" /\ t.at <= count /\ Thread(s, u) /\ trie' \in Sockets \cup {Nobody}
      /\ UNCHANGED <<registryVars, userVars, client, link, accepting, bounds>>
  BY DEF Scan, IInv, TypeOK
<1>2. t \in Looking
  BY <1>1 DEF IInv, ThreadsOK, Simple, Acting, Shifting
<1>3. /\ u \in Looking /\ u.disturbed = t.disturbed
      /\ slot[t.at].socket = s => u.step = "use" /\ u.at = t.at
      /\ slot[t.at].socket # s => u.step = "scan" /\ u.at = t.at + 1
  <2>1. t \in [step : {"scan"}, at : Nat \ {0}, disturbed : BOOLEAN]
    BY <1>1, <1>2 DEF Looking
  <2>2. t.at \in Places /\ t.at + 1 \in Nat \ {0}
    BY <1>1, <2>1, RegistryAssumption DEF Places, IInv, TypeOK
  <2>3. CASE slot[t.at].socket = s
    BY <2>1, <2>2, <2>3 DEF Looking
  <2>4. CASE slot[t.at].socket # s
    BY <2>1, <2>2, <2>4 DEF Looking
  <2> QED BY <2>3, <2>4
<1>4. u \in Simple \cup Looking \cup Acting /\ u.step \in Served
  BY <1>3 DEF Served
<1>5. /\ TypeOK' /\ ThreadsOK' /\ Turns' /\ HoleInside' /\ LinksOn'
      /\ TableExact' /\ WelcomeKept' /\ UsersKept'
  BY <1>1, <1>4, LookupStep DEF Served
<1>6. thread'[s] = u /\ \A o \in Sockets \ {s} : thread'[o] = thread[o]
  BY <1>1, <1>4, ServedStep DEF Served
<1>7. LookupsSound'
  <2>1. UNCHANGED <<slot, count, mutex>> /\ count \in Nat /\ t.at \in Nat
    BY <1>1, <1>2 DEF registryVars, IInv, TypeOK, Looking
  <2>2. t.disturbed = FALSE =>
          mutex = Nobody /\ \A j \in 1..count : j < t.at => slot[j].socket # s
    BY <1>1 DEF IInv, LookupsSound
  <2>3. t.disturbed = FALSE /\ u.step = "scan" =>
          \A j \in 1..count : j < u.at => slot[j].socket # s
    BY <1>3, <2>1, <2>2
  <2>4. u.disturbed = FALSE /\ u.step = "use" => u.at <= count /\ slot[u.at].socket = s
    BY <1>1, <1>3
  <2> HIDE DEF u
  <2>5. t.disturbed = u.disturbed
    BY <1>3
  <2> QED BY <1>6, <2>1, <2>2, <2>3, <2>4, <2>5 DEF IInv, LookupsSound
<1>8. ActsForSender'
  BY <1>1, <1>3, <1>6 DEF IInv, ActsForSender
<1> QED BY <1>5, <1>7, <1>8 DEF IInv

\* A handler goes on: it takes what its lookup found, waits for trie_mutex, acts, or
\* waits for a storage server.
LEMMA HandlerStep ==
  ASSUME IInv, NEW s \in Sockets, NEW u \in Acting, thread[s].step \in Served, Thread(s, u),
         u.disturbed = FALSE => u.as = link[s].user,
         trie' \in Sockets \cup {Nobody},
         UNCHANGED <<registryVars, userVars, client, link, accepting, bounds>>
  PROVE  IInv'
<1>1. u \in Simple \cup Looking \cup Acting /\ u.step \in Served
      /\ u.step \notin {"scan", "use"} /\ u.disturbed \in BOOLEAN
  BY DEF Acting, Served
<1>2. /\ TypeOK' /\ ThreadsOK' /\ Turns' /\ HoleInside' /\ LinksOn'
      /\ TableExact' /\ WelcomeKept' /\ UsersKept'
  BY <1>1, LookupStep
<1>3. thread'[s] = u /\ \A o \in Sockets \ {s} : thread'[o] = thread[o]
  BY <1>1, ServedStep
<1>4. LookupsSound'
  BY <1>1, <1>3 DEF IInv, LookupsSound, registryVars
<1>5. ActsForSender'
  BY <1>1, <1>3 DEF IInv, ActsForSender
<1> QED BY <1>2, <1>4, <1>5 DEF IInv

\* What a lookup found is used.
LEMMA UseInv ==
  ASSUME IInv, NEW s \in Sockets, Use(s)
  PROVE  IInv'
<1> DEFINE t == thread[s]
<1>1. PICK next \in {"locks", "acts"} :
        Thread(s, [step |-> next, as |-> slot[t.at].user, disturbed |-> t.disturbed])
  BY DEF Use
<1> DEFINE u == [step |-> next, as |-> slot[t.at].user, disturbed |-> t.disturbed]
<1>2. /\ t.step = "use" /\ trie' \in Sockets \cup {Nobody}
      /\ UNCHANGED <<registryVars, userVars, client, link, accepting, bounds>>
  BY DEF Use, IInv, TypeOK
<1>3. t \in Looking
  BY <1>2 DEF IInv, ThreadsOK, Simple, Looking, Acting, Shifting
<1>4. t.at \in Places /\ t.disturbed \in BOOLEAN
  BY <1>2, <1>3 DEF Looking
<1>5. u \in Acting
  BY <1>4 DEF Acting, IInv, TypeOK
<1>6. t.disturbed = FALSE => u.as = link[s].user
  <2>1. SUFFICES ASSUME t.disturbed = FALSE PROVE slot[t.at].user = link[s].user
    OBVIOUS
  <2>2. mutex = Nobody /\ t.at <= count /\ slot[t.at].socket = s
    BY <1>2, <2>1 DEF IInv, LookupsSound
  <2>3. t.at \in Held
    BY <1>4, <2>2, RegistryAssumption DEF Held, Hole, Places, IInv, TypeOK
  <2> QED BY <2>2, <2>3 DEF IInv, TableExact
<1>7. u.disturbed = FALSE => u.as = link[s].user
  BY <1>6
<1>8. Thread(s, u) /\ thread[s].step \in Served
  BY <1>1, <1>2 DEF Served
<1> HIDE DEF u
<1> QED BY <1>2, <1>5, <1>7, <1>8, HandlerStep

\* trie_mutex, and a storage server, change nothing that the handler acts for.
LEMMA WaitInv ==
  ASSUME IInv, NEW s \in Sockets, LockTrie(s) \/ AskServer(s)
  PROVE  IInv'
<1> DEFINE t == thread[s]
           u == [t EXCEPT !.step = IF LockTrie(s) THEN "acts" ELSE "waits"]
<1>1. /\ t.step \in {"locks", "acts"} /\ Thread(s, u) /\ trie' \in Sockets \cup {Nobody}
      /\ UNCHANGED <<registryVars, userVars, client, link, accepting, bounds>>
  BY DEF LockTrie, AskServer, IInv, TypeOK
<1>2. t \in Acting
  BY <1>1 DEF IInv, ThreadsOK, Simple, Looking, Shifting
<1>3. u \in Acting /\ u.as = t.as /\ u.disturbed = t.disturbed /\ t.disturbed \in BOOLEAN
  BY <1>2 DEF Acting
<1>4. u.disturbed = FALSE => u.as = link[s].user
  BY <1>1, <1>3 DEF IInv, ActsForSender
<1>5. thread[s].step \in Served
  BY <1>1 DEF Served
<1> HIDE DEF u
<1> QED BY <1>1, <1>3, <1>4, <1>5, HandlerStep

\* A lookup or a handler ends and its request has been dealt with.
LEMMA TellStep ==
  ASSUME IInv, NEW s \in Sockets, NEW told \in {"nothing", "welcome", "refused"},
         thread[s].step \in Served, Thread(s, Reading), Told(s, told),
         told = "welcome" => link[s].told = "welcome",
         client' = client \/ Answered(s),
         trie' \in Sockets \cup {Nobody}, UNCHANGED <<registryVars, userVars, accepting, bounds>>
  PROVE  IInv'
<1> USE RegistryAssumption
<1>1. link \in [Sockets -> Links] /\ link' = [link EXCEPT ![s].message = "none", ![s].told = told]
  BY DEF IInv, TypeOK, Links, Told
<1>2. link' \in [Sockets -> Links]
  BY <1>1, ToldType
<1>3. /\ \A o \in Sockets : /\ link'[o].client = link[o].client
                            /\ link'[o].user = link[o].user
      /\ \A o \in Sockets \ {s} : link'[o].message = link[o].message
                                  /\ link'[o].told = link[o].told
      /\ link'[s].message = "none" /\ link'[s].told = told
  BY <1>1 DEF Links
<1>4. /\ client' \in [Clients -> {"off", "joining", "registering", "idle", "asking"}]
      /\ \A c \in Clients : client'[c] = client[c] \/ client'[c] = "idle"
      /\ \A o \in Sockets : Open(o) => link[o].client \in Clients
  BY <1>1 DEF IInv, TypeOK, Open, Links, Answered
<1>5. UNCHANGED <<slot, count, mutex, users, usersFile, accepting, connects, restarts>>
  BY DEF registryVars, userVars, bounds
<1>6. LinksOn' /\ (\A o \in Sockets : NotYet(o)' => NotYet(o))
  BY <1>3, <1>4 DEF IInv, LinksOn, NotYet, Open
<1>7. TypeOK'
  BY <1>2, <1>4, <1>5 DEF IInv, TypeOK, Places, Links
<1>8. Reading \in Simple \cup Looking \cup Acting /\ Reading.step = "reading"
  BY DEF Reading, Simple
<1>9. /\ ThreadsOK' /\ Turns' /\ HoleInside' /\ Held' = Held
      /\ thread'[s] = Reading /\ \A o \in Sockets \ {s} : thread'[o] = thread[o]
      /\ \A o \in Sockets : thread'[o].step \in Served <=> thread[o].step \in Served
  <2>1. ThreadsOK' /\ thread'[s] = Reading /\ \A o \in Sockets \ {s} : thread'[o] = thread[o]
    BY <1>8 DEF IInv, ThreadsOK, Thread
  <2>2. mutex # s /\ accepting # s
    BY DEF IInv, Turns, Served
  <2>3. Turns' /\ \A o \in Sockets : thread'[o].step \in Served <=> thread[o].step \in Served
    BY <1>5, <1>8, <2>1, <2>2 DEF IInv, Turns, Served
  <2>4. Hole' = Hole /\ Held' = Held /\ HoleInside'
    BY <1>5, <2>1, <2>2 DEF IInv, TypeOK, Hole, Held, HoleInside
  <2> QED BY <2>1, <2>3, <2>4
<1>10. TableExact'
  BY <1>3, <1>5, <1>6, <1>9 DEF IInv, TableExact
<1>11. LookupsSound'
  BY <1>5, <1>8, <1>9 DEF IInv, LookupsSound
<1>12. WelcomeKept'
  BY <1>3, <1>5, <1>8, <1>9 DEF IInv, WelcomeKept, InTable
<1>13. ActsForSender'
  BY <1>3, <1>8, <1>9 DEF IInv, ActsForSender
<1>14. UsersKept'
  BY <1>3, <1>5 DEF IInv, UsersKept
<1> QED BY <1>6, <1>7, <1>9, <1>10, <1>11, <1>12, <1>13, <1>14 DEF IInv

\* A lookup that no removal disturbed finds a program that was registered.
LEMMA ScanEndsInv ==
  ASSUME IInv, NEW s \in Sockets, ScanEnds(s)
  PROVE  IInv'
<1>1. thread[s].step = "scan" /\ thread[s].at > count /\ thread[s] \in Looking
  BY DEF ScanEnds, IInv, ThreadsOK, Simple, Acting, Shifting
<1>2. ~(link[s].told = "welcome" /\ ~thread[s].disturbed)
  <2>1. SUFFICES ASSUME link[s].told = "welcome", thread[s].disturbed = FALSE PROVE FALSE
    BY <1>1 DEF Looking
  <2>2. PICK i \in Held : slot[i].socket = s
    BY <1>1, <2>1 DEF IInv, WelcomeKept, InTable, Served
  <2>3. i \in 1..count /\ i < thread[s].at
    BY <1>1, <2>2, RegistryAssumption DEF Held, IInv, TypeOK, Looking
  <2> QED BY <1>1, <2>1, <2>2, <2>3 DEF IInv, LookupsSound
<1>3. Told(s, "nothing") /\ trie' \in Sockets \cup {Nobody}
  BY <1>2 DEF ScanEnds, IInv, TypeOK
<1> QED BY <1>1, <1>3, TellStep DEF ScanEnds, Served

\* The program gets its answer.
LEMMA ReplyInv ==
  ASSUME IInv, NEW s \in Sockets, Reply(s)
  PROVE  IInv'
<1>1. link[s].told \in {"nothing", "welcome", "refused"} /\ trie' \in Sockets \cup {Nobody}
  BY DEF IInv, TypeOK, ActsForSender, Reply
<1> QED BY <1>1, TellStep DEF Reply, Served

-----------------------------------------------------------------------------
(* Removals.                                                                *)

\* The entry that is found is the only one of its connection; a thread that is
\* looking is disturbed from now on.
LEMMA StartRemoveInv ==
  ASSUME IInv, NEW s \in Sockets, StartRemove(s)
  PROVE  IInv'
<1> USE RegistryAssumption
<1>1. /\ thread[s].step = "reading" /\ mutex = Nobody
      /\ UNCHANGED <<slot, count, users, usersFile, client, link, trie, accepting, connects, restarts>>
  BY DEF StartRemove, Reading, userVars, bounds
<1>2. /\ Hole = 0 /\ Held = 1..count /\ count \in Nat /\ s # Nobody
      /\ \A o \in Sockets : thread[o].step # "shift"
  <2>1. count \in 0..Slots /\ count \in Nat /\ s # Nobody
    BY DEF IInv, TypeOK
  <2>2. Hole = 0 /\ Held = 1..count
    BY <1>1, <2>1 DEF Hole, Held
  <2>3. \A o \in Sockets : thread[o].step # "shift"
    BY <1>1 DEF IInv, Turns
  <2> QED BY <2>1, <2>2, <2>3
<1>3. LinksOn' /\ UsersKept'
  BY <1>1 DEF IInv, LinksOn, Open, UsersKept
<1>4. CASE OwnPlaces(s) = {}
  <2>1. thread' = [thread EXCEPT ![s] = [step |-> "closing"]] /\ mutex' = mutex
    BY <1>4 DEF StartRemove, Thread
  <2>2. /\ ThreadsOK' /\ thread'[s].step = "closing"
        /\ \A o \in Sockets \ {s} : thread'[o] = thread[o]
    BY <2>1 DEF IInv, ThreadsOK, Simple
  <2>3. TypeOK'
    BY <1>1, <2>1 DEF IInv, TypeOK, Places
  <2>4. Turns' /\ Hole' = Hole /\ Held' = Held /\ HoleInside'
    BY <1>1, <1>2, <2>1, <2>2 DEF IInv, Turns, Hole, Held, HoleInside
  <2>5. \A i \in Held : slot[i].socket # s
    BY <1>2, <1>4 DEF OwnPlaces
  <2>6. TableExact'
    BY <1>1, <2>2, <2>4, <2>5 DEF IInv, TableExact, NotYet, Open
  <2>7. LookupsSound' /\ ActsForSender'
    BY <1>1, <2>1, <2>2 DEF IInv, LookupsSound, ActsForSender
  <2>8. WelcomeKept'
    BY <1>1, <2>2, <2>4 DEF IInv, WelcomeKept, InTable, Served
  <2> QED BY <1>3, <2>2, <2>3, <2>4, <2>6, <2>7, <2>8 DEF IInv
<1>5. CASE OwnPlaces(s) # {}
  <2>1. PICK i \in OwnPlaces(s) :
          /\ thread' = [[o \in Sockets |-> Disturbed(thread[o])] EXCEPT
                          ![s] = [step |-> "shift", at |-> i]]
          /\ mutex' = s
    BY <1>5 DEF StartRemove
  <2>2. i \in 1..count /\ slot[i].socket = s /\ \A k \in 1..count : slot[k].socket = s => k = i
    BY <1>2 DEF OwnPlaces, IInv, TableExact
  <2>3. thread'[s] = [step |-> "shift", at |-> i]
        /\ \A o \in Sockets \ {s} : thread'[o] = Disturbed(thread[o])
    BY <2>1
  <2>4. ASSUME NEW o \in Sockets
        PROVE  /\ Disturbed(thread[o]) \in Simple \cup Looking \cup Acting \cup Shifting
               /\ Disturbed(thread[o]).step = thread[o].step
               /\ thread[o].step \in {"scan", "use"} => Disturbed(thread[o]).disturbed = TRUE
               /\ thread[o].step \notin {"scan", "use"} => Disturbed(thread[o]) = thread[o]
    <3>1. CASE thread[o].step \in {"scan", "use"}
      <4>1. thread[o] \in Looking
        BY <3>1 DEF IInv, ThreadsOK, Simple, Acting, Shifting
      <4>2. Disturbed(thread[o]) = [thread[o] EXCEPT !.disturbed = TRUE]
        BY <3>1 DEF Disturbed
      <4> QED BY <3>1, <4>1, <4>2 DEF Looking
    <3>2. CASE thread[o].step \notin {"scan", "use"}
      BY <3>2 DEF Disturbed, IInv, ThreadsOK
    <3> QED BY <3>1, <3>2
  <2>5. ThreadsOK'
    <3>1. [step |-> "shift", at |-> i] \in Shifting
      BY <2>2 DEF Shifting
    <3> QED BY <2>1, <2>4, <3>1 DEF ThreadsOK
  <2>6. TypeOK'
    BY <1>1, <2>1 DEF IInv, TypeOK, Places
  <2>7. \A o \in Sockets \ {s} :
           /\ thread'[o].step = thread[o].step
           /\ thread[o].step \in {"scan", "use"} => thread'[o].disturbed = TRUE
           /\ thread[o].step \notin {"scan", "use"} => thread'[o] = thread[o]
    BY <2>3, <2>4
  <2>8. /\ Hole' = i /\ Held' = Held \ {i} /\ HoleInside'
    BY <1>1, <1>2, <2>1, <2>2, <2>3 DEF Hole, Held, HoleInside
  <2>9. Turns'
    BY <1>1, <1>2, <2>1, <2>3, <2>4 DEF IInv, Turns
  <2>10. \A k \in Held' : slot[k].socket # s /\ slot[k].socket \in Sockets
    BY <1>2, <2>2, <2>8 DEF IInv, TableExact
  <2>11. TableExact'
    BY <1>1, <2>7, <2>8, <2>10 DEF IInv, TableExact, NotYet, Open
  <2>12. LookupsSound'
    BY <2>3, <2>7 DEF LookupsSound
  <2>13. ActsForSender'
    BY <1>1, <2>3, <2>7 DEF IInv, ActsForSender
  <2>14. ASSUME NEW o \in Sockets \ {s}, InTable(o) PROVE InTable(o)'
    BY <1>1, <1>2, <2>2, <2>8, <2>14 DEF InTable
  <2>15. WelcomeKept'
    BY <1>1, <2>3, <2>7, <2>14 DEF IInv, WelcomeKept, Served
  <2> QED BY <1>3, <2>5, <2>6, <2>8, <2>9, <2>11, <2>12, <2>13, <2>15 DEF IInv
<1> QED BY <1>4, <1>5

\* Moving one entry down moves the hole up; the entries outside it are the same.
LEMMA ShiftInv ==
  ASSUME IInv, NEW s \in Sockets, Shift(s)
  PROVE  IInv'
<1> USE RegistryAssumption
<1> DEFINE i == thread[s].at
<1>1. /\ thread[s].step = "shift"
      /\ UNCHANGED <<users, usersFile, client, link, trie, accepting, connects, restarts>>
  BY DEF Shift, ShiftUpTo, userVars, bounds
<1>2. /\ mutex = s /\ s # Nobody /\ Hole = i /\ i \in 1..count /\ count \in Nat
      /\ 1..count \subseteq Places
  BY <1>1 DEF IInv, Turns, Hole, HoleInside, TypeOK, Places
<1>3. LinksOn' /\ UsersKept'
  BY <1>1 DEF IInv, LinksOn, Open, UsersKept
<1>4. \A o \in Sockets : ~(thread[o].step \in {"scan", "use"} /\ thread[o].disturbed = FALSE)
  BY <1>2 DEF IInv, LookupsSound
<1>5. CASE i < count
  <2>1. /\ slot' = [slot EXCEPT ![i] = slot[i + 1]]
        /\ thread' = [thread EXCEPT ![s] = [step |-> "shift", at |-> i + 1]]
        /\ UNCHANGED <<count, mutex>>
    BY <1>2, <1>5 DEF Shift, ShiftUpTo, Thread
  <2>2. /\ ThreadsOK' /\ thread'[s] = [step |-> "shift", at |-> i + 1]
        /\ \A o \in Sockets \ {s} : thread'[o] = thread[o]
    BY <1>2, <2>1 DEF IInv, ThreadsOK, Shifting
  <2>3. /\ i + 1 \in 1..count /\ slot'[i] = slot[i + 1]
        /\ \A k \in 1..count : k # i => slot'[k] = slot[k]
        /\ slot' \in [Places -> [socket : Sockets \cup {Nobody}, user : Users \cup {Nobody}]]
    BY <1>2, <1>5, <2>1 DEF IInv, TypeOK
  <2>4. TypeOK'
    BY <1>1, <2>1, <2>3 DEF IInv, TypeOK, Places
  <2>5. Hole' = i + 1 /\ HoleInside' /\ Turns'
    BY <1>1, <1>2, <2>1, <2>2, <2>3 DEF IInv, Hole, HoleInside, Turns
  <2>6. Held = (1..count) \ {i} /\ Held' = (1..count) \ {i + 1}
    BY <1>2, <2>1, <2>5 DEF Held
  <2> DEFINE from(k) == IF k = i THEN i + 1 ELSE k
  <2>7. /\ \A k \in Held' : from(k) \in Held /\ slot'[k] = slot[from(k)]
        /\ \A k, l \in Held' : from(k) = from(l) => k = l
        /\ \A k \in Held : \E l \in Held' : slot'[l] = slot[k]
    BY <1>2, <1>5, <2>3, <2>6
  <2>8. \A k \in Held : slot[k].socket \in Sockets \ {s}
    BY <1>1 DEF IInv, TableExact, Served
  <2>9. TableExact'
    <3>1. ASSUME NEW k \in Held'
          PROVE  /\ slot'[k].socket \in Sockets /\ thread'[slot'[k].socket].step \in Served
                 /\ link'[slot'[k].socket].user = slot'[k].user
                 /\ ~NotYet(slot[k].socket)'
      <4>1. PICK l \in Held : slot'[k] = slot[l]
        BY <2>7
      <4>2. /\ slot[l].socket \in Sockets \ {s} /\ thread[slot[l].socket].step \in Served
            /\ link[slot[l].socket].user = slot[l].user /\ ~NotYet(slot[l].socket)
        BY <2>8 DEF IInv, TableExact
      <4> QED BY <1>1, <2>2, <4>1, <4>2 DEF NotYet, Open
    <3>2. ASSUME NEW k \in Held', NEW l \in Held', slot'[k].socket = slot'[l].socket
          PROVE  k = l
      BY <2>7, <3>2 DEF IInv, TableExact
    <3> QED BY <3>1, <3>2 DEF TableExact
  <2>10. LookupsSound' /\ ActsForSender'
    BY <1>1, <1>4, <2>2 DEF IInv, LookupsSound, ActsForSender
  <2>11. \A o \in Sockets : InTable(o) => InTable(o)'
    BY <2>7 DEF InTable
  <2>12. WelcomeKept'
    <3>1. thread'[s].step = "shift"
      BY <2>2
    <3> QED BY <1>1, <2>2, <2>11, <3>1 DEF IInv, WelcomeKept, Served
  <2> QED BY <1>3, <2>2, <2>4, <2>5, <2>9, <2>10, <2>12 DEF IInv
<1>6. CASE ~(i < count)
  <2>1. /\ count' = count - 1 /\ mutex' = Nobody /\ slot' = slot
        /\ thread' = [thread EXCEPT ![s] = [step |-> "closing"]]
    BY <1>2, <1>6 DEF Shift, ShiftUpTo, Thread
  <2>2. /\ ThreadsOK' /\ thread'[s] = [step |-> "closing"]
        /\ \A o \in Sockets \ {s} : thread'[o] = thread[o]
    BY <2>1 DEF IInv, ThreadsOK, Simple
  <2>3. Hole' = 0 /\ Held' = Held /\ HoleInside' /\ Turns'
    BY <1>1, <1>2, <1>6, <2>1, <2>2 DEF IInv, Hole, Held, HoleInside, Turns
  <2>4. TypeOK'
    BY <1>1, <1>2, <2>1 DEF IInv, TypeOK, Places
  <2>5. \A k \in Held : slot[k].socket \in Sockets \ {s}
    BY <1>1 DEF IInv, TableExact, Served
  <2>6. TableExact'
    BY <1>1, <2>1, <2>2, <2>3, <2>5 DEF IInv, TableExact, NotYet, Open
  <2>7. LookupsSound' /\ ActsForSender'
    BY <1>1, <1>4, <2>2 DEF IInv, LookupsSound, ActsForSender
  <2>8. WelcomeKept'
    <3>1. thread'[s].step = "closing"
      BY <2>2
    <3> QED BY <1>1, <2>1, <2>2, <2>3, <3>1 DEF IInv, WelcomeKept, InTable, Served
  <2> QED BY <1>3, <2>2, <2>3, <2>4, <2>6, <2>7, <2>8 DEF IInv
<1> QED BY <1>5, <1>6

\* The socket that becomes free is in no entry.
LEMMA CloseInv ==
  ASSUME IInv, NEW s \in Sockets, Close(s)
  PROVE  IInv'
<1> USE RegistryAssumption
<1>1. /\ thread[s].step = "closing" /\ thread' = [thread EXCEPT ![s] = NoThread]
      /\ link' = [link EXCEPT ![s] = NoLink]
      /\ UNCHANGED <<slot, count, mutex, users, usersFile, client, trie, accepting, connects, restarts>>
  BY DEF Close, Thread, registryVars, userVars, bounds
<1>2. /\ ThreadsOK' /\ thread'[s].step = "none"
      /\ \A o \in Sockets \ {s} : thread'[o] = thread[o]
  BY <1>1 DEF IInv, ThreadsOK, NoThread, Simple
<1>3. /\ link'[s] = NoLink /\ \A o \in Sockets \ {s} : link'[o] = link[o]
      /\ link' \in [Sockets -> Links]
  BY <1>1 DEF IInv, TypeOK, NoLink, Links
<1>4. TypeOK' /\ LinksOn' /\ UsersKept'
  BY <1>1, <1>3 DEF IInv, TypeOK, Places, Links, LinksOn, Open, NoLink, UsersKept
<1>5. mutex # s /\ accepting # s
  BY <1>1 DEF IInv, Turns
<1>6. Turns' /\ Hole' = Hole /\ Held' = Held /\ HoleInside'
  BY <1>1, <1>2, <1>5 DEF IInv, TypeOK, Turns, Hole, Held, HoleInside
<1>7. \A k \in Held : slot[k].socket \in Sockets \ {s}
  BY <1>1 DEF IInv, TableExact, Served
<1>8. TableExact'
  BY <1>1, <1>2, <1>3, <1>6, <1>7 DEF IInv, TableExact, NotYet, Open
<1>9. LookupsSound' /\ ActsForSender'
  BY <1>1, <1>2, <1>3 DEF IInv, LookupsSound, ActsForSender, NoLink
<1>10. WelcomeKept'
  BY <1>1, <1>2, <1>3, <1>6 DEF IInv, WelcomeKept, InTable, NoLink
<1> QED BY <1>2, <1>4, <1>6, <1>8, <1>9, <1>10 DEF IInv

-----------------------------------------------------------------------------
(* Together.                                                                *)

LEMMA InitInv == Init => IInv
<1> SUFFICES ASSUME Init PROVE IInv
  OBVIOUS
<1> USE RegistryAssumption DEF Init, NothingRuns, NoEntry, NoLink, NoThread
<1>1. TypeOK /\ ThreadsOK
  BY DEF TypeOK, Places, ThreadsOK, Simple
<1>2. Turns /\ HoleInside /\ LinksOn /\ TableExact /\ LookupsSound
  BY DEF Turns, HoleInside, LinksOn, Open, TableExact, LookupsSound, Held
<1>3. WelcomeKept /\ ActsForSender /\ UsersKept
  BY DEF WelcomeKept, ActsForSender, UsersKept, Served
<1> QED BY <1>1, <1>2, <1>3 DEF IInv

\* users.dat is the list of users: a restart forgets nobody.
LEMMA RestartInv ==
  ASSUME IInv, RestartNaming
  PROVE  IInv'
<1>1. NothingRuns'
  BY DEF RestartNaming, NothingRuns
<1>2. /\ users' = users /\ usersFile' = users' /\ connects' \in Nat /\ restarts' \in Nat
      /\ users' \in Seq(Users) /\ Len(users') <= Slots
      /\ \A i, j \in DOMAIN users' : users'[i] = users'[j] => i = j
  BY DEF RestartNaming, IInv, TypeOK, UsersKept
<1> QED BY <1>1, <1>2, NothingRunsInv

LEMMA NextInv == IInv /\ [Next]_vars => IInv'
<1> SUFFICES ASSUME IInv, [Next]_vars PROVE IInv'
  OBVIOUS
<1>1. CASE UNCHANGED vars
  <2>1. UNCHANGED <<slot, count, mutex, users, usersFile, client, link, thread, trie, accepting,
                    connects, restarts>>
    BY <1>1 DEF vars, registryVars, userVars, bounds
  <2>2. TypeOK' /\ ThreadsOK' /\ Turns' /\ HoleInside' /\ LinksOn' /\ UsersKept'
    BY <2>1 DEF IInv, TypeOK, Places, ThreadsOK, Turns, HoleInside, Hole, LinksOn, Open,
                UsersKept
  <2>3. TableExact' /\ LookupsSound' /\ WelcomeKept' /\ ActsForSender'
    BY <2>1 DEF IInv, TableExact, Held, Hole, NotYet, Open, LookupsSound, WelcomeKept,
                InTable, ActsForSender
  <2> QED BY <2>2, <2>3 DEF IInv
<1>2. ASSUME NEW c \in Clients, Connect(c) \/ Register(c) \/ Ask(c) \/ Leave(c) PROVE IInv'
  BY <1>2, ConnectInv, SaysInv, LeaveInv
<1>3. CASE MainStep
  BY <1>3, PeekInv, AcceptInv DEF MainStep
<1>4. ASSUME NEW s \in Sockets, ThreadStep(s) PROVE IInv'
  BY <1>4, RegisterClientInv, StartScanInv, ScanInv, ScanEndsInv, UseInv, WaitInv,
     ReplyInv, StartRemoveInv, ShiftInv, CloseInv DEF ThreadStep
<1>5. CASE RestartNaming
  BY <1>5, RestartInv
<1> QED BY <1>1, <1>2, <1>3, <1>4, <1>5 DEF Next

\* The inductive invariant of the registry and of the handlers that use it.
THEOREM Invariant == Spec => []IInv
  BY InitInv, NextInv, PTL DEF Spec

\* Between removals every entry of client_registry names a connection that is
\* served, under the name of its user, no connection has two, and every connection
\* that was told it is registered, and found room, has one (remove_client shifts the
\* array under the mutex that register_client takes).
THEOREM RegistryStaysExact == Spec => []RegistryExact
<1>1. IInv => RegistryExact
  <2> SUFFICES ASSUME IInv, mutex = Nobody PROVE RegistryExact
    BY DEF RegistryExact
  <2>1. Held = 1..count
    BY RegistryAssumption DEF IInv, TypeOK, Held, Hole
  <2>2. ASSUME NEW s \in Sockets, link[s].told = "welcome", thread[s].step # "closing"
        PROVE  \E i \in 1..count : slot[i].socket = s
    <3>1. thread[s].step \in Served
      <4>1. thread[s].step \notin {"none", "accepted", "shift"}
        BY <2>2, RegistryAssumption DEF IInv, WelcomeKept, Turns
      <4> QED BY <2>2, <4>1 DEF IInv, ThreadsOK, Simple, Looking, Acting, Shifting, Served
    <3> QED BY <2>1, <2>2, <3>1 DEF IInv, WelcomeKept, InTable
  <2> QED BY <2>1, <2>2 DEF IInv, TableExact, RegistryExact, Served
<1> QED BY <1>1, Invariant, PTL

\* A handler that looked its client up without the mutex acts for the user who
\* sent the request, and finds the program, whenever no removal disturbed it.
THEOREM HandlersActForSender == Spec => []ActsForSender
<1>1. IInv => ActsForSender
  BY DEF IInv
<1> QED BY <1>1, Invariant, PTL

\* Who was registered once stays in the list of users and in users.dat.
THEOREM UsersStay == Spec => []UsersKept
<1>1. IInv => UsersKept
  BY DEF IInv
<1> QED BY <1>1, Invariant, PTL
=============================================================================
