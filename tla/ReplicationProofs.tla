-------------------------- MODULE ReplicationProofs --------------------------
(***************************************************************************)
(* What replication keeps, for any number of servers, writes, threads and  *)
(* faults: clients are sent to a server that has the file, the primary has *)
(* every acknowledged write, none vanishes from every server, and the      *)
(* texts that go round stay bounded; each despite the faults that the      *)
(* property names.                                                         *)
(***************************************************************************)
EXTENDS Replication, WellFoundedInduction, NaturalsInduction, SequenceTheorems,
        FiniteSetTheorems, TLAPS

-----------------------------------------------------------------------------
(* Ids.                                                                     *)

Entry == [server : Servers, alive : BOOLEAN]

\* One id per server.
OnePerServer ==
    \A i, j \in Ids : registry[i].server = registry[j].server => i = j

\* A server that the running naming server has an id for.
Known(s) == \E id \in Ids : registry[id].server = s

\* The naming server's threads work for servers that have registered.
ServicesKnown == \A s \in Servers : service[s] # "serving" => Known(s)
Types == TypeOK /\ ServicesKnown

\* A set of numbers that is not empty has a least element.
LEMMA LeastId ==
  ASSUME NEW S \in SUBSET Nat, S # {}
  PROVE  \E m \in S : \A n \in S : m <= n
<1>1. IsWellFoundedOn(OpToRel(<, Nat), Nat)
  BY NatLessThanWellFounded
<1>2. PICK m \in S : \A n \in S : ~(<<n, m>> \in OpToRel(<, Nat))
  BY <1>1, WFMin
<1>3. \A n \in S : ~(n < m)
  BY <1>2 DEF OpToRel
<1> QED
  BY <1>3

\* Ids count from 1; NoId is none.
LEMMA IdRange ==
  ASSUME TypeOK
  PROVE  /\ Ids = 1..Len(registry) /\ Len(registry) \in Nat
         /\ NoId \notin Ids /\ Ids \subseteq Nat
         /\ \A id \in Ids : registry[id] \in Entry /\ registry[id].server \in Servers
                            /\ registry[id].alive \in BOOLEAN
<1>1. Ids = 1..Len(registry) /\ Len(registry) \in Nat
  BY LenProperties DEF TypeOK, Ids
<1>2. \A id \in Ids : registry[id] \in Entry
  BY <1>1, ElementOfSeq DEF TypeOK, Entry
<1> QED
  BY <1>1, <1>2 DEF Entry, NoId

\* The id of a server that has one.
LEMMA IdFound ==
  ASSUME NEW s, Known(s)
  PROVE  IdOf(s) \in Ids /\ registry[IdOf(s)].server = s
BY DEF IdOf, Known

\* Who is picked is an id, or nobody.
LEMMA PickedType ==
  ASSUME TypeOK, NEW id
  PROVE  PickAlive(id) \in Ids \cup {NoId}
BY DEF PickAlive, Alive

LEMMA AlternateType ==
  ASSUME TypeOK, NEW id
  PROVE  Alternate(id) \in (Ids \ {id}) \cup {NoId}
<1> DEFINE others == Ids \ {id}
           live == {i \in others : Alive(i)}
           First(ids) == CHOOSE i \in ids : \A j \in ids : i <= j
<1>1. \A ids \in SUBSET Ids : ids # {} => First(ids) \in ids
  BY IdRange, LeastId
<1>2. Alternate(id) = CASE live # {} -> First(live)
                        [] live = {} /\ others # {} -> First(others)
                        [] OTHER -> NoId
  BY DEF Alternate
<1>3. live \in SUBSET others /\ others \in SUBSET Ids
  OBVIOUS
<1>4. Alternate(id) \in others \cup {NoId}
  <2> HIDE DEF live, others, First
  <2> QED
    BY <1>1, <1>2, <1>3
<1> QED
  BY <1>4

\* An entry of the registry with its flag changed.
LEMMA EntryWith ==
  ASSUME NEW x \in Entry, NEW b \in BOOLEAN
  PROVE  [x EXCEPT !.alive = b] = [server |-> x.server, alive |-> b]
BY SMT DEF Entry

\* Setting a flag leaves ids and servers alone.
LEMMA FlagSet ==
  ASSUME TypeOK, NEW k \in Ids, NEW b \in BOOLEAN,
         registry' = [registry EXCEPT ![k].alive = b]
  PROVE  /\ registry' \in Seq(Entry) /\ OnePerServer' /\ Ids' = Ids
         /\ \A id \in Ids : registry'[id].server = registry[id].server
         /\ registry'[k].alive = b
         /\ \A id \in Ids : id # k => registry'[id] = registry[id]
<1> DEFINE e == [server |-> registry[k].server, alive |-> b]
<1>0. registry \in Seq(Entry) /\ OnePerServer
  BY DEF TypeOK, Entry, OnePerServer
<1>1. registry[k] \in Entry /\ e \in Entry
  BY IdRange DEF Entry
<1>2. e.server = registry[k].server /\ e.alive = b
  OBVIOUS
<1>3. registry' = [registry EXCEPT ![k] = e]
  <2>1. [registry[k] EXCEPT !.alive = b] = e
    BY <1>1, EntryWith
  <2> HIDE DEF e
  <2>2. registry' = [registry EXCEPT ![k] = [registry[k] EXCEPT !.alive = b]]
    OBVIOUS
  <2> QED
    BY <2>1, <2>2
<1> HIDE DEF e
<1>4. /\ registry' \in Seq(Entry) /\ Len(registry') = Len(registry)
      /\ \A id \in 1..Len(registry) : registry'[id] = IF id = k THEN e ELSE registry[id]
  BY <1>0, <1>1, <1>3, IdRange, ExceptSeq
<1>5. Ids' = Ids
  BY <1>4, IdRange, LenProperties DEF Ids
<1>6. \A id \in Ids : registry'[id] = IF id = k THEN e ELSE registry[id]
  BY <1>4, IdRange
<1>7. \A id \in Ids : registry'[id].server = registry[id].server
  BY <1>2, <1>6
<1>8. OnePerServer'
  BY <1>0, <1>5, <1>7 DEF OnePerServer
<1> QED
  BY <1>2, <1>4, <1>5, <1>6, <1>7, <1>8

\* Registration gives a server its id back, or the next one.
LEMMA RegisteredType ==
  ASSUME TypeOK, NEW s \in Servers, registry' = Registered(s)
  PROVE  /\ registry' \in Seq(Entry) /\ OnePerServer'
         /\ \E id \in Ids' : registry'[id].server = s /\ registry'[id].alive
         /\ Ids \subseteq Ids'
         /\ \A id \in Ids : registry'[id].server = registry[id].server
         /\ \A id \in Ids' : registry'[id].server = s \/ (id \in Ids /\ registry'[id] = registry[id])
<1>0. registry \in Seq(Entry) /\ OnePerServer
  BY DEF TypeOK, Entry, OnePerServer
<1>1. CASE \E id \in Ids : registry[id].server = s
  <2>1. IdOf(s) \in Ids /\ registry[IdOf(s)].server = s
    BY <1>1, IdFound DEF Known
  <2>2. PICK k \in Ids : registry[k].server = s /\ registry' = [registry EXCEPT ![k].alive = TRUE]
    BY <1>1, <2>1 DEF Registered
  <2>3. /\ registry' \in Seq(Entry) /\ OnePerServer' /\ Ids' = Ids
        /\ \A id \in Ids : registry'[id].server = registry[id].server
        /\ registry'[k].alive = TRUE
        /\ \A id \in Ids : id # k => registry'[id] = registry[id]
    BY <2>2, FlagSet, Zenon
  <2> QED
    BY <2>2, <2>3
<1>2. CASE ~\E id \in Ids : registry[id].server = s
  <2> DEFINE e == [server |-> s, alive |-> TRUE]
             n == Len(registry) + 1
  <2>1. registry' = Append(registry, e) /\ e \in Entry /\ e.server = s /\ e.alive = TRUE
    BY <1>2 DEF Registered, Entry
  <2> HIDE DEF e
  <2>2. /\ registry' \in Seq(Entry) /\ Len(registry') = n
        /\ registry'[n] = e
        /\ \A id \in 1..Len(registry) : registry'[id] = registry[id]
    BY <1>0, <2>1, AppendProperties
  <2>3. Ids' = 1..n /\ Len(registry) \in Nat /\ Ids = 1..Len(registry)
    BY <2>2, IdRange, LenProperties DEF Ids
  <2>4. n \in Ids' /\ Ids \subseteq Ids' /\ \A id \in Ids' : id \in Ids \/ id = n
    BY <2>3
  <2> HIDE DEF n
  <2>5. \A id \in Ids : registry'[id] = registry[id]
    BY <2>2, <2>3
  <2>6. \A i \in Ids : registry'[i].server = registry[i].server /\ registry'[i].server # s
    BY <1>2, <2>5
  <2>7. registry'[n].server = s /\ registry'[n].alive
    BY <2>1, <2>2
  <2>8. OnePerServer'
    BY <1>0, <2>4, <2>6, <2>7 DEF OnePerServer
  <2>9. \E id \in Ids' : registry'[id].server = s /\ registry'[id].alive
    BY <2>4, <2>7
  <2>10. \A id \in Ids' : registry'[id].server = s \/ (id \in Ids /\ registry'[id] = registry[id])
    BY <2>4, <2>5, <2>7
  <2>11. registry' \in Seq(Entry) /\ Ids \subseteq Ids'
    BY <2>2, <2>4
  <2>12. \A id \in Ids : registry'[id].server = registry[id].server
    BY <2>6
  <2> QED
    BY <2>8, <2>9, <2>10, <2>11, <2>12
<1> QED
  BY <1>1, <1>2

-----------------------------------------------------------------------------
(* Types.                                                                   *)

LEMMA FaultTypes ==
  ASSUME TypeOK, NEW kind \in Faults, Fault(kind)
  PROVE  faults' \subseteq Faults /\ nfaults' \in 0..MaxFaults
BY ConstantsAssumption DEF TypeOK, Fault

LEMMA SameFaults ==
  ASSUME TypeOK, UNCHANGED history
  PROVE  faults' \subseteq Faults /\ nfaults' \in 0..MaxFaults
BY DEF TypeOK, history

LEMMA MadeFileType ==
  ASSUME TypeOK, NEW s, MakeFile(s)
  PROVE  text' \in [Servers -> Texts \cup {NoFile}]
BY DEF TypeOK, MakeFile, Texts

\* A text goes to the end of a server's queue, or leaves it at the front.
LEMMA QueueTypes ==
  ASSUME TypeOK, NEW s \in Servers
  PROVE  /\ toServer[s] \in Seq(Texts) /\ Len(toServer[s]) \in Nat
         /\ \A t \in Texts : Append(toServer[s], t) \in Seq(Texts)
         /\ \A q \in Seq(Texts) : toServer[s] \o q \in Seq(Texts)
         /\ toServer[s] # <<>> => /\ Head(toServer[s]) \in Texts
                                  /\ Tail(toServer[s]) \in Seq(Texts)
<1>1. toServer[s] \in Seq(Texts)
  BY DEF TypeOK
<1> QED
  BY <1>1

LEMMA ReportTypes ==
  ASSUME TypeOK, NEW s \in Servers
  PROVE  Reports(s) \in [Servers -> Nat]
BY DEF TypeOK, Reports

LEMMA RoutedType ==
  ASSUME TypeOK, primary # NoId
  PROVE  Routed \in Nat \ {NoId}
BY PickedType, IdRange DEF Routed, TypeOK

LEMMA ResyncTextType ==
  ASSUME TypeOK, NEW s \in Servers
  PROVE  ResyncText(s) \in Seq(Texts)
<1>1. \A t \in Texts : <<t>> \in Seq(Texts)
  OBVIOUS
<1>2. <<>> \in Seq(Texts)
  OBVIOUS
<1>3. PickAlive(IdOf(s)) \in Ids \cup {NoId}
  BY PickedType
<1>4. ASSUME NEW id \in Ids PROVE text[registry[id].server] \in Texts \cup {NoFile}
  BY IdRange DEF TypeOK
<1> QED
  BY <1>1, <1>2, <1>3, <1>4 DEF ResyncText

LEMMA InitTypes == Init => TypeOK
<1> SUFFICES ASSUME Init PROVE TypeOK
  OBVIOUS
<1>1. Ids = {}
  BY DEF Init, Ids
<1>2. registry \in Seq([server : Servers, alive : BOOLEAN])
  BY DEF Init
<1>3. toServer \in [Servers -> Seq(Texts)]
  BY DEF Init
<1> QED
  BY <1>1, <1>2, <1>3, ConstantsAssumption
     DEF Init, TypeOK, NoId, Idle, ThreadStates, Texts, Writes

\* What is left alone keeps its type.
LEMMA SameRegistry ==
  ASSUME TypeOK, UNCHANGED registry
  PROVE  registry' \in Seq(Entry) /\ OnePerServer' /\ Ids' = Ids
BY DEF TypeOK, Entry, OnePerServer, Ids

LEMMA TypesFrom ==
  ASSUME up' \subseteq Servers, text' \in [Servers -> Texts \cup {NoFile}],
         toServer' \in [Servers -> Seq(Texts)], updates' \in [Servers -> Nat],
         registry' \in Seq(Entry), OnePerServer',
         service' \in [Servers -> {"seeding", "syncing", "serving"}],
         primary' \in Nat, replica' \in Nat, creating' \in Nat,
         threads' \in [Threads -> ThreadStates],
         session' \in [Writes -> {"idle", "done"} \cup Servers], accepted' \in Texts,
         faults' \subseteq Faults, nfaults' \in 0..MaxFaults
  PROVE  TypeOK'
BY DEF TypeOK, Entry, OnePerServer

LEMMA RegisterTypes ==
  ASSUME TypeOK, NEW s \in Servers, Register(s)
  PROVE  TypeOK'
<1>1. registry' \in Seq(Entry) /\ OnePerServer'
  BY RegisteredType DEF Register
<1> QED
  BY <1>1, TypesFrom, SameFaults DEF TypeOK, Register, clients

LEMMA SeedTypes ==
  ASSUME Types, NEW s \in Servers, Seed(s)
  PROVE  TypeOK'
<1>0. TypeOK /\ Known(s)
  BY DEF Types, ServicesKnown, Seed
<1>1. IdOf(s) \in Nat
  BY <1>0, IdFound, IdRange
<1> QED
  BY <1>0, <1>1, TypesFrom, SameFaults, SameRegistry DEF TypeOK, Seed, servers, clients

LEMMA ResyncTypes ==
  ASSUME TypeOK, NEW s \in Servers, Resync(s)
  PROVE  TypeOK'
<1>1. toServer' \in [Servers -> Seq(Texts)]
  <2>1. toServer[s] \o ResyncText(s) \in Seq(Texts)
    BY QueueTypes, ResyncTextType
  <2> QED
    BY <2>1 DEF TypeOK, Resync
<1> QED
  BY <1>1, TypesFrom, SameFaults, SameRegistry DEF TypeOK, Resync, clients

LEMMA CrashTypes ==
  ASSUME TypeOK, NEW s \in Servers, Crash(s)
  PROVE  TypeOK'
<1>1. toServer' \in [Servers -> Seq(Texts)]
  BY DEF TypeOK, Crash
<1>2. faults' \subseteq Faults /\ nfaults' \in 0..MaxFaults
  BY FaultTypes DEF Crash, Faults
<1> QED
  BY <1>1, <1>2, TypesFrom, SameRegistry DEF TypeOK, Crash, naming, clients

\* The flag that a step of the heartbeat sets.
LEMMA JudgeIs ==
  ASSUME TypeOK, NEW id \in Ids, Judge(id)
  PROVE  /\ faults' \subseteq Faults /\ nfaults' \in 0..MaxFaults
         /\ \E b \in BOOLEAN :
              /\ registry' = [registry EXCEPT ![id].alive = b]
              /\ b = (registry[id].server \in up) \/ "misjudged" \in faults'
<1>1. CASE registry' = [registry EXCEPT ![id].alive = registry[id].server \in up] /\ UNCHANGED history
  <2> DEFINE b == registry[id].server \in up
  <2>1. b \in BOOLEAN /\ registry' = [registry EXCEPT ![id].alive = b]
    BY <1>1
  <2>2. b = (registry[id].server \in up)
    OBVIOUS
  <2>3. faults' \subseteq Faults /\ nfaults' \in 0..MaxFaults
    BY <1>1, SameFaults
  <2> HIDE DEF b
  <2> QED
    BY <2>1, <2>2, <2>3, Zenon
<1>2. CASE Fault("misjudged") /\ registry' = [registry EXCEPT ![id].alive = FALSE]
  <2>1. faults' \subseteq Faults /\ nfaults' \in 0..MaxFaults
    BY <1>2, FaultTypes DEF Faults
  <2>2. "misjudged" \in faults'
    BY <1>2 DEF Fault
  <2>3. FALSE \in BOOLEAN
    OBVIOUS
  <2> QED
    BY <1>2, <2>1, <2>2, <2>3, Zenon
<1> QED
  BY <1>1, <1>2 DEF Judge

LEMMA HeartbeatTypes ==
  ASSUME TypeOK, HeartbeatStep
  PROVE  TypeOK'
<1>1. PICK id \in Ids : Judge(id)
  BY DEF HeartbeatStep
<1>2. registry' \in Seq(Entry) /\ OnePerServer'
  BY <1>1, JudgeIs, FlagSet
<1>3. faults' \subseteq Faults /\ nfaults' \in 0..MaxFaults
  BY <1>1, JudgeIs
<1> QED
  BY <1>2, <1>3, TypesFrom DEF TypeOK, HeartbeatStep, servers, clients

LEMMA RestartTypes ==
  ASSUME TypeOK, RestartNamingServer, Fault("restart")
  PROVE  TypeOK'
<1>1. faults' \subseteq Faults /\ nfaults' \in 0..MaxFaults
  BY FaultTypes DEF Faults
<1>2. registry' \in Seq(Entry) /\ OnePerServer'
  BY DEF RestartNamingServer, OnePerServer, Ids
<1>3. /\ service' \in [Servers -> {"seeding", "syncing", "serving"}]
      /\ updates' \in [Servers -> Nat] /\ threads' \in [Threads -> ThreadStates]
  BY DEF RestartNamingServer, ThreadStates
<1> QED
  BY <1>1, <1>2, <1>3, TypesFrom DEF TypeOK, RestartNamingServer, clients, NoId

LEMMA CreateTypes ==
  ASSUME TypeOK, NEW id \in Ids, Create(id)
  PROVE  TypeOK'
<1>1. faults' \subseteq Faults /\ nfaults' \in 0..MaxFaults
  BY SameFaults, FaultTypes DEF Create, Faults
<1>2. primary' \in Nat /\ creating' \in Nat
  BY IdRange DEF TypeOK, Create
<1>3. text' \in [Servers -> Texts \cup {NoFile}] /\ accepted' \in Texts
  BY MadeFileType DEF Create, Texts
<1> QED
  BY <1>1, <1>2, <1>3, TypesFrom, SameRegistry DEF TypeOK, Create

LEMMA CreateReplicaTypes ==
  ASSUME TypeOK, CreateReplica
  PROVE  TypeOK'
<1>1. faults' \subseteq Faults /\ nfaults' \in 0..MaxFaults
  BY SameFaults, FaultTypes DEF CreateReplica, Faults
<1>2. replica' \in Nat /\ creating' \in Nat
  BY IdRange, AlternateType DEF TypeOK, CreateReplica, EnterReplica, NoId
<1>3. text' \in [Servers -> Texts \cup {NoFile}]
  BY MadeFileType DEF CreateReplica, TypeOK
<1> QED
  BY <1>1, <1>2, <1>3, TypesFrom, SameRegistry DEF TypeOK, CreateReplica, clients

LEMMA DeleteTypes ==
  ASSUME TypeOK, Delete
  PROVE  TypeOK'
<1>1. faults' \subseteq Faults /\ nfaults' \in 0..MaxFaults
  BY FaultTypes DEF Delete, Faults
<1>2. primary' \in Nat /\ accepted' \in Texts
  BY DEF TypeOK, Delete, NoId, Texts
<1>3. text' \in [Servers -> Texts \cup {NoFile}]
  BY DEF Delete, TypeOK
<1> QED
  BY <1>1, <1>2, <1>3, TypesFrom, SameRegistry DEF TypeOK, Delete

LEMMA RouteTypes ==
  ASSUME TypeOK, NEW w \in Writes, Route(w)
  PROVE  TypeOK'
<1>1. session' \in [Writes -> {"idle", "done"} \cup Servers]
  BY IdRange DEF TypeOK, Route
<1> QED
  BY <1>1, TypesFrom, SameRegistry, SameFaults DEF TypeOK, Route, servers, naming

LEMMA WriteTypes ==
  ASSUME TypeOK, NEW w \in Writes, Write(w)
  PROVE  TypeOK'
<1>1. session' \in [Writes -> {"idle", "done"} \cup Servers] /\ session[w] \in Servers
  BY DEF TypeOK, Write
<1>2. updates' \in [Servers -> Nat]
  BY <1>1, ReportTypes DEF Write
<1>3. accepted' \in Texts
  BY DEF TypeOK, Write, Texts
<1>4. text' \in [Servers -> Texts \cup {NoFile}]
  <2>1. Holds(session[w]) => text[session[w]] \cup {w} \in Texts
    BY <1>1 DEF TypeOK, Holds, Texts
  <2>2. {w} \in Texts
    BY DEF Texts
  <2> QED
    BY <1>1, <2>1, <2>2 DEF TypeOK, Write
<1> QED
  BY <1>1, <1>2, <1>3, <1>4, TypesFrom, SameRegistry, SameFaults DEF TypeOK, Write, naming

LEMMA WriteFailsTypes ==
  ASSUME TypeOK, NEW w \in Writes, WriteFails(w)
  PROVE  TypeOK'
<1>1. session' \in [Writes -> {"idle", "done"} \cup Servers]
  BY DEF TypeOK, WriteFails
<1> QED
  BY <1>1, TypesFrom, SameRegistry, SameFaults DEF TypeOK, WriteFails, servers, naming

LEMMA LoseUpdateTypes ==
  ASSUME TypeOK, NEW s \in Servers, LoseUpdate(s)
  PROVE  TypeOK'
<1>1. faults' \subseteq Faults /\ nfaults' \in 0..MaxFaults
  BY FaultTypes DEF LoseUpdate, Faults
<1>2. updates' \in [Servers -> Nat]
  BY DEF TypeOK, LoseUpdate
<1> QED
  BY <1>1, <1>2, TypesFrom, SameRegistry DEF TypeOK, LoseUpdate, naming, clients

LEMMA ServiceUpdateTypes ==
  ASSUME TypeOK, NEW s \in Servers, ServiceUpdate(s)
  PROVE  TypeOK'
<1>1. threads' \in [Threads -> ThreadStates]
  BY DEF TypeOK, ServiceUpdate, ThreadStates
<1>2. updates' \in [Servers -> Nat]
  BY DEF TypeOK, ServiceUpdate
<1> QED
  BY <1>1, <1>2, TypesFrom, SameRegistry, SameFaults DEF TypeOK, ServiceUpdate, clients

LEMMA PickSourceTypes ==
  ASSUME TypeOK, NEW t \in Threads, PickSource(t)
  PROVE  TypeOK'
<1>1. threads' \in [Threads -> ThreadStates]
  <2>1. Idle \in ThreadStates
    BY DEF ThreadStates
  <2>2. primary # NoId =>
          [step |-> "picked", src |-> PickAlive(primary), from |-> Routed] \in ThreadStates
    BY PickedType, IdRange, RoutedType DEF ThreadStates, NoId
  <2> QED
    BY <2>1, <2>2 DEF TypeOK, PickSource, Goes
<1> QED
  BY <1>1, TypesFrom, SameRegistry, SameFaults DEF TypeOK, PickSource, servers, clients

LEMMA FetchTypes ==
  ASSUME TypeOK, NEW t \in Threads, Fetch(t)
  PROVE  TypeOK'
<1>1. threads' \in [Threads -> ThreadStates]
  <2>1. Idle \in ThreadStates
    BY DEF ThreadStates
  <2>2. threads[t] \in ThreadStates /\ threads[t].step = "picked"
    BY DEF TypeOK, Fetch
  <2>3. threads[t].src \in Nat
    BY <2>2 DEF ThreadStates, Idle
  <2>4. ASSUME NEW s \in Servers, Holds(s)
        PROVE  [step |-> "fetched", src |-> threads[t].src, text |-> text[s]] \in ThreadStates
    BY <2>3, <2>4 DEF TypeOK, Holds, ThreadStates
  <2> QED
    BY <2>1, <2>4, IdRange DEF TypeOK, Fetch, Goes
<1> QED
  BY <1>1, TypesFrom, SameRegistry, SameFaults DEF TypeOK, Fetch, servers, clients

LEMMA PushTypes ==
  ASSUME TypeOK, NEW t \in Threads, Push(t)
  PROVE  TypeOK'
<1>1. threads' \in [Threads -> ThreadStates]
  BY DEF TypeOK, Push, Goes, ThreadStates
<1>2. threads[t].text \in Texts
  <2>1. threads[t] \in ThreadStates /\ threads[t].step = "fetched"
    BY DEF TypeOK, Push
  <2> QED
    BY <2>1 DEF ThreadStates, Idle
<1>3. toServer' \in [Servers -> Seq(Texts)]
  <2>1. \A s \in Servers : Append(toServer[s], threads[t].text) \in Seq(Texts)
    BY <1>2, QueueTypes
  <2> QED
    BY <2>1, IdRange DEF TypeOK, Push, Alive
<1> QED
  BY <1>1, <1>3, TypesFrom, SameRegistry, SameFaults DEF TypeOK, Push, clients

LEMMA ApplyTypes ==
  ASSUME TypeOK, NEW s \in Servers, Apply(s)
  PROVE  TypeOK'
<1>1. text' \in [Servers -> Texts \cup {NoFile}] /\ toServer' \in [Servers -> Seq(Texts)]
  BY QueueTypes DEF TypeOK, Apply
<1>2. updates' \in [Servers -> Nat]
  BY ReportTypes DEF Apply
<1> QED
  BY <1>1, <1>2, TypesFrom, SameRegistry, SameFaults DEF TypeOK, Apply, naming, clients

\* Who is known stays known while the naming server runs.
LEMMA KnownKept ==
  ASSUME NEW s, Known(s), Ids \subseteq Ids',
         \A id \in Ids : registry'[id].server = registry[id].server
  PROVE  Known(s)'
BY DEF Known

\* A step that changes neither the registry nor what the threads are at.
LEMMA SameServices ==
  ASSUME ServicesKnown, Ids \subseteq Ids',
         \A id \in Ids : registry'[id].server = registry[id].server,
         \A s \in Servers : service'[s] # "serving" => service[s] # "serving"
  PROVE  ServicesKnown'
BY KnownKept DEF ServicesKnown

LEMMA InitServices == Init => ServicesKnown
BY DEF Init, ServicesKnown

LEMMA NextTypes == Types /\ [Next]_vars => Types'
<1> SUFFICES ASSUME Types, [Next]_vars PROVE Types'
  OBVIOUS
<1>0. TypeOK /\ ServicesKnown
  BY DEF Types
<1> DEFINE Same == UNCHANGED <<registry, service>>
<1>a. ASSUME Same PROVE ServicesKnown'
  BY <1>0, <1>a, SameServices, Zenon DEF Ids
<1>1. ASSUME NEW s \in Servers, Register(s) PROVE Types'
  <2>1. \A r \in Servers : service'[r] # "serving" => service[r] # "serving" \/ r = s
    BY <1>0, <1>1 DEF TypeOK, Register
  <2>2. /\ Known(s)' /\ Ids \subseteq Ids'
        /\ \A id \in Ids : registry'[id].server = registry[id].server
    BY <1>0, <1>1, RegisteredType DEF Register, Known
  <2>3. ServicesKnown'
    BY <1>0, <2>1, <2>2, KnownKept DEF ServicesKnown
  <2> QED
    BY <1>0, <1>1, <2>3, RegisterTypes DEF Types
<1>2. ASSUME NEW s \in Servers, Seed(s) \/ Resync(s) PROVE Types'
  <2>1. /\ \A r \in Servers : service'[r] # "serving" => service[r] # "serving"
        /\ UNCHANGED registry
    BY <1>0, <1>2 DEF TypeOK, Seed, Resync
  <2>2. ServicesKnown'
    BY <1>0, <2>1, SameServices DEF Ids
  <2> QED
    BY <1>0, <1>2, <2>2, SeedTypes, ResyncTypes DEF Types
<1>3. ASSUME NEW s \in Servers, Crash(s) \/ LoseUpdate(s) \/ Apply(s) PROVE Types'
  <2>1. Same
    BY <1>3 DEF Crash, LoseUpdate, Apply, naming
  <2> QED
    BY <1>0, <1>3, <1>a, <2>1, CrashTypes, LoseUpdateTypes, ApplyTypes DEF Types
<1>4. ASSUME NEW s \in Servers, ServiceUpdate(s) PROVE Types'
  <2>1. Same
    BY <1>4 DEF ServiceUpdate
  <2> QED
    BY <1>0, <1>4, <1>a, <2>1, ServiceUpdateTypes DEF Types
<1>5. CASE HeartbeatStep
  <2>1. PICK id \in Ids : Judge(id)
    BY <1>5 DEF HeartbeatStep
  <2>2. /\ Ids \subseteq Ids' /\ UNCHANGED service
        /\ \A i \in Ids : registry'[i].server = registry[i].server
    BY <1>0, <1>5, <2>1, JudgeIs, FlagSet DEF HeartbeatStep
  <2>3. ServicesKnown'
    BY <1>0, <2>2, SameServices
  <2> QED
    BY <1>0, <1>5, <2>3, HeartbeatTypes DEF Types
<1>6. ASSUME RestartNamingServer, Fault("restart") PROVE Types'
  <2>1. ServicesKnown'
    BY <1>6 DEF RestartNamingServer, ServicesKnown
  <2> QED
    BY <1>0, <1>6, <2>1, RestartTypes DEF Types
<1>7. ASSUME NEW id \in Ids, Create(id) PROVE Types'
  <2>1. Same
    BY <1>7 DEF Create
  <2> QED
    BY <1>0, <1>7, <1>a, <2>1, CreateTypes DEF Types
<1>8. CASE CreateReplica \/ Delete
  <2>1. Same
    BY <1>8 DEF CreateReplica, Delete
  <2> QED
    BY <1>0, <1>8, <1>a, <2>1, CreateReplicaTypes, DeleteTypes DEF Types
<1>9. ASSUME NEW w \in Writes, Route(w) \/ Write(w) \/ WriteFails(w) PROVE Types'
  <2>1. Same
    BY <1>9 DEF Route, Write, WriteFails, naming
  <2> QED
    BY <1>0, <1>9, <1>a, <2>1, RouteTypes, WriteTypes, WriteFailsTypes DEF Types
<1>10. ASSUME NEW t \in Threads, PickSource(t) \/ Fetch(t) \/ Push(t) PROVE Types'
  <2>1. Same
    BY <1>10 DEF PickSource, Fetch, Push
  <2> QED
    BY <1>0, <1>10, <1>a, <2>1, PickSourceTypes, FetchTypes, PushTypes DEF Types
<1>11. CASE UNCHANGED vars
  <2>1. Same
    BY <1>11 DEF vars, naming
  <2>2. TypeOK'
    BY <1>0, <1>11, TypesFrom, SameRegistry, SameFaults
       DEF TypeOK, vars, servers, naming, clients, history
  <2> QED
    BY <1>a, <2>1, <2>2 DEF Types
<1> QED
  BY <1>1, <1>2, <1>3, <1>4, <1>5, <1>6, <1>7, <1>8, <1>9, <1>10, <1>11
     DEF Next, ServerStep, ReplicatorStep, DeleteUnregistered

-----------------------------------------------------------------------------
(* What no step takes away, unless its fault is noted.                      *)

LEMMA FaultsGrow == [Next]_vars => faults \subseteq faults'
<1> SUFFICES ASSUME [Next]_vars PROVE faults \subseteq faults'
  OBVIOUS
<1>1. \A kind : Fault(kind) => faults \subseteq faults'
  BY DEF Fault
<1>2. UNCHANGED faults => faults \subseteq faults'
  OBVIOUS
<1> QED
  BY <1>1, <1>2
     DEF Next, vars, history, ServerStep, ReplicatorStep, Register, Seed, Resync, Crash,
         HeartbeatStep, Judge, Create, CreateReplica, Delete, DeleteUnregistered, Route,
         Write, WriteFails, LoseUpdate, ServiceUpdate, PickSource, Fetch, Push, Apply

\* A naming server that is not restarted keeps every id.
LEMMA IdsKept ==
  ASSUME Types, [Next]_vars, "restart" \notin faults'
  PROVE  Ids \subseteq Ids' /\ \A id \in Ids : registry'[id].server = registry[id].server
<1>0. TypeOK
  BY DEF Types
<1> DEFINE Kept == Ids \subseteq Ids' /\ \A id \in Ids : registry'[id].server = registry[id].server
<1>1. UNCHANGED registry => Kept
  BY DEF Ids
<1>2. ASSUME NEW s \in Servers, Register(s) PROVE Kept
  BY <1>0, <1>2, RegisteredType DEF Register
<1>3. ASSUME NEW id \in Ids, Judge(id) PROVE Kept
  BY <1>0, <1>3, JudgeIs, FlagSet
<1>4. ~Fault("restart")
  BY DEF Fault
<1> HIDE DEF Kept
<1> QED
  BY <1>1, <1>2, <1>3, <1>4
     DEF Kept, Next, vars, naming, ServerStep, ReplicatorStep, Seed, Resync, Crash,
         HeartbeatStep, Create, CreateReplica, Delete, DeleteUnregistered, Route,
         Write, WriteFails, LoseUpdate, ServiceUpdate, PickSource, Fetch, Push, Apply

LEMMA TextIsNoSentinel ==
  ASSUME NEW t \in Texts
  PROVE  t # NoFile
BY NoFileAssumption

\* The file stays where it is until it is deleted, and no write leaves a text
\* unless another text is put in its place.
LEMMA TextKept ==
  ASSUME Types, [Next]_vars, "deleted" \notin faults', NEW s \in Servers, Holds(s)
  PROVE  /\ Holds(s)'
         /\ \/ text[s] \subseteq text'[s]
            \/ toServer[s] # <<>>
<1>0. TypeOK
  BY DEF Types
<1> DEFINE Kept == Holds(s)' /\ (text[s] \subseteq text'[s] \/ toServer[s] # <<>>)
<1>1. UNCHANGED text => Kept
  BY DEF Holds
<1>2. ASSUME NEW r, MakeFile(r) PROVE Kept
  BY <1>0, <1>2 DEF MakeFile, Holds, TypeOK
<1>3. ASSUME NEW w \in Writes, Write(w) PROVE Kept
  <2>1. text[s] \in Texts /\ text[s] \cup {w} \in Texts
    BY <1>0 DEF Holds, TypeOK, Texts
  <2>2. text'[s] = text[s] \/ text'[s] = text[s] \cup {w}
    BY <1>0, <1>3 DEF Write, TypeOK, Holds
  <2> QED
    BY <2>1, <2>2, TextIsNoSentinel DEF Holds
<1>4. ASSUME NEW r \in Servers, Apply(r) PROVE Kept
  <2>1. Head(toServer[r]) \in Texts
    BY <1>0, <1>4, QueueTypes DEF Apply
  <2>2. Head(toServer[r]) # NoFile
    BY <2>1, TextIsNoSentinel
  <2>3. text' = [text EXCEPT ![r] = Head(toServer[r])] /\ toServer[r] # <<>>
    BY <1>4 DEF Apply
  <2>4. CASE s = r
    BY <1>0, <2>2, <2>3, <2>4 DEF Holds, TypeOK
  <2>5. CASE s # r
    BY <1>0, <2>3, <2>5 DEF Holds, TypeOK
  <2> QED
    BY <2>4, <2>5
<1>5. ~Fault("deleted")
  BY DEF Fault
<1> HIDE DEF Kept
<1> QED
  BY <1>1, <1>2, <1>3, <1>4, <1>5
     DEF Kept, Next, vars, servers, ServerStep, ReplicatorStep, Register, Seed, Resync, Crash,
         HeartbeatStep, Create, CreateReplica, Delete, DeleteUnregistered, Route, RestartNamingServer,
         WriteFails, LoseUpdate, ServiceUpdate, PickSource, Fetch, Push

-----------------------------------------------------------------------------
(* Clients are sent to a server that has the file.                          *)

\* A server that is listed for seeding has the file.
SeedingHolds ==
    "deleted" \notin faults => \A s \in Servers : service[s] = "seeding" => Holds(s)

\* The id of a server that has the file.
HeldAt(id) == id \in Ids /\ Holds(registry[id].server)

\* The ids that clients are sent to belong to servers that have the file.
RoutesHold ==
    Despite({"misjudged", "lost", "crash"}) =>
      /\ primary # NoId => HeldAt(primary)
      /\ replica # NoId => HeldAt(replica)

LEMMA NextSeeding == Types /\ SeedingHolds /\ [Next]_vars => SeedingHolds'
<1> SUFFICES ASSUME Types, SeedingHolds, [Next]_vars, "deleted" \notin faults',
                    NEW s \in Servers, service'[s] = "seeding"
             PROVE  Holds(s)'
  BY DEF SeedingHolds
<1>0. TypeOK /\ "deleted" \notin faults
  BY FaultsGrow DEF Types
<1>1. CASE service[s] = "seeding"
  BY <1>0, <1>1, TextKept DEF SeedingHolds
<1>2. CASE service[s] # "seeding"
  <2>1. ASSUME NEW r \in Servers, Register(r) PROVE Holds(s)'
    BY <1>0, <1>2, <2>1 DEF Register, TypeOK, Holds
  <2>2. ASSUME NEW r \in Servers, Seed(r) \/ Resync(r) PROVE FALSE
    BY <1>0, <1>2, <2>2 DEF Seed, Resync, TypeOK
  <2>3. RestartNamingServer => FALSE
    BY DEF RestartNamingServer
  <2>4. UNCHANGED service => FALSE
    BY <1>2
  <2> QED
    BY <2>1, <2>2, <2>3, <2>4
     DEF Next, vars, naming, ServerStep, ReplicatorStep, Crash,
         HeartbeatStep, Create, CreateReplica, Delete, DeleteUnregistered, Route,
         Write, WriteFails, LoseUpdate, ServiceUpdate, PickSource, Fetch, Push, Apply
<1> QED
  BY <1>1, <1>2

\* A file that is made on a server that runs is there.
LEMMA MadeFileThere ==
  ASSUME TypeOK, NEW s \in Servers, MakeFile(s), s \in up
  PROVE  Holds(s)'
<1>1. {} # NoFile
  BY NoFileAssumption DEF Texts
<1> QED
  BY <1>1 DEF TypeOK, MakeFile, Holds

\* The next step leaves clients with a server that has the file.
RoutesHoldNext ==
    (primary # NoId => HeldAt(primary))' /\ (replica # NoId => HeldAt(replica))'

LEMMA NextRoutes ==
  Types /\ SeedingHolds /\ RoutesHold /\ [Next]_vars => RoutesHold'
<1> SUFFICES ASSUME Types, SeedingHolds, RoutesHold, [Next]_vars,
                    faults' \subseteq {"misjudged", "lost", "crash"}
             PROVE  RoutesHoldNext
  BY DEF RoutesHold, Despite, RoutesHoldNext
<1>0. /\ TypeOK /\ faults \subseteq {"misjudged", "lost", "crash"}
      /\ {"deleted", "restart", "unanswered"} \cap faults' = {}
  BY FaultsGrow DEF Types
<1>1. (primary # NoId => HeldAt(primary)) /\ (replica # NoId => HeldAt(replica))
  BY <1>0 DEF RoutesHold, Despite
<1>2. ASSUME NEW id, HeldAt(id)
      PROVE  HeldAt(id)'
  <2>1. id \in Ids' /\ registry'[id].server = registry[id].server
    BY <1>0, <1>2, IdsKept DEF HeldAt
  <2>2. Holds(registry[id].server) /\ registry[id].server \in Servers
    BY <1>0, <1>2, IdRange DEF HeldAt
  <2>3. text'[registry[id].server] # NoFile
    BY <1>0, <2>2, TextKept DEF Holds
  <2> QED
    BY <2>1, <2>3 DEF HeldAt, Holds
<1>3. ~Fault("deleted") /\ ~Fault("restart") /\ ~Fault("unanswered")
  BY <1>0 DEF Fault
<1>4. ASSUME UNCHANGED <<primary, replica>> PROVE RoutesHoldNext
  <2>1. (primary # NoId => HeldAt(primary)') /\ (replica # NoId => HeldAt(replica)')
    BY <1>1, <1>2, <1>4 DEF HeldAt
  <2> QED
    BY <1>4, <2>1 DEF RoutesHoldNext, HeldAt
<1>5. ASSUME NEW id, HeldAt(id)', primary' = id, UNCHANGED replica PROVE RoutesHoldNext
  <2>1. replica # NoId => HeldAt(replica)'
    BY <1>1, <1>2, <1>5 DEF HeldAt
  <2> QED
    BY <1>5, <2>1 DEF RoutesHoldNext, HeldAt
<1>6. ASSUME NEW s \in Servers, Seed(s) PROVE RoutesHoldNext
  <2>1. HeldAt(IdOf(s))
    BY <1>0, <1>6, IdFound DEF Seed, Types, ServicesKnown, SeedingHolds, HeldAt
  <2>2. PICK id : id = IdOf(s)
    OBVIOUS
  <2>3. HeldAt(id)'
    BY <1>2, <2>1, <2>2
  <2>4. CASE primary = NoId
    BY <1>5, <1>6, <2>2, <2>3, <2>4 DEF Seed
  <2>5. CASE primary # NoId
    BY <1>4, <1>6, <2>5 DEF Seed
  <2> QED
    BY <2>4, <2>5
<1>7. ASSUME NEW id \in Ids, MakeFile(registry[id].server), registry[id].server \in up,
             UNCHANGED registry
      PROVE  HeldAt(id)'
  <2>1. text'[registry[id].server] # NoFile
    BY <1>0, <1>7, MadeFileThere, IdRange DEF Holds
  <2> QED
    BY <1>7, <2>1 DEF HeldAt, Holds, Ids
<1>8. ASSUME NEW id \in Ids, Create(id) PROVE RoutesHoldNext
  <2>1. HeldAt(id)' /\ primary' = id /\ UNCHANGED replica
    BY <1>3, <1>7, <1>8 DEF Create
  <2> QED
    BY <1>5, <2>1
<1>9. ASSUME CreateReplica PROVE RoutesHoldNext
  <2>1. CASE UNCHANGED replica
    BY <1>4, <1>9, <2>1 DEF CreateReplica
  <2>2. CASE ~UNCHANGED replica
    <3>1. PICK id : /\ id = Alternate(creating) /\ id # NoId /\ replica' = id
                    /\ registry[id].server \in up /\ MakeFile(registry[id].server)
                    /\ UNCHANGED <<registry, primary>>
      BY <1>3, <1>9, <2>2 DEF CreateReplica, EnterReplica
    <3>2. id \in Ids
      BY <1>0, <3>1, AlternateType
    <3>3. HeldAt(id)'
      BY <1>7, <3>1, <3>2
    <3>4. primary # NoId => HeldAt(primary)'
      BY <1>1, <1>2, <3>1 DEF HeldAt
    <3> QED
      BY <3>1, <3>3, <3>4 DEF RoutesHoldNext, HeldAt
  <2> QED
    BY <2>1, <2>2
<1>10. UNCHANGED <<primary, replica>> \/ (\E s \in Servers : Seed(s))
        \/ (\E id \in Ids : Create(id)) \/ CreateReplica
  BY <1>3
     DEF Next, vars, naming, ServerStep, ReplicatorStep, Register, Resync, Crash,
         HeartbeatStep, Delete, DeleteUnregistered, Route,
         Write, WriteFails, LoseUpdate, ServiceUpdate, PickSource, Fetch, Push, Apply
<1> QED
  BY <1>4, <1>6, <1>8, <1>9, <1>10

-----------------------------------------------------------------------------
(* Acknowledged writes.                                                     *)

\* Without a wrong judgement, a server that runs counts as alive.
AliveWhenUp ==
    "misjudged" \notin faults =>
        \A id \in Ids : registry[id].server \in up => registry[id].alive

\* Nothing is under way to a server that does not run.
DownEmpty == \A s \in Servers : s \notin up => toServer[s] = <<>>

LEMMA NextAlive == Types /\ AliveWhenUp /\ [Next]_vars => AliveWhenUp'
<1> SUFFICES ASSUME Types, AliveWhenUp, [Next]_vars, "misjudged" \notin faults'
             PROVE  \A id \in Ids' : registry'[id].server \in up' => registry'[id].alive
  BY DEF AliveWhenUp
<1>0. TypeOK /\ "misjudged" \notin faults
  BY FaultsGrow DEF Types
<1>1. \A id \in Ids : registry[id].server \in up => registry[id].alive
  BY <1>0 DEF AliveWhenUp
<1> DEFINE Goal == \A id \in Ids' : registry'[id].server \in up' => registry'[id].alive
<1>2. ASSUME UNCHANGED registry, up' \subseteq up PROVE Goal
  BY <1>1, <1>2 DEF Ids
<1>3. ASSUME NEW s \in Servers, Register(s) PROVE Goal
  <2>1. /\ OnePerServer'
        /\ \E id \in Ids' : registry'[id].server = s /\ registry'[id].alive
        /\ \A id \in Ids' : registry'[id].server = s \/ (id \in Ids /\ registry'[id] = registry[id])
        /\ up' = up \cup {s}
    BY <1>0, <1>3, RegisteredType DEF Register
  <2>2. PICK k \in Ids' : registry'[k].server = s /\ registry'[k].alive
    BY <2>1
  <2>3. ASSUME NEW id \in Ids', registry'[id].server \in up' PROVE registry'[id].alive
    <3>1. CASE registry'[id].server = s
      <4>1. id = k
        BY <2>1, <2>2, <3>1 DEF OnePerServer
      <4> QED
        BY <2>2, <4>1
    <3>2. CASE registry'[id].server # s
      BY <1>1, <2>1, <2>3, <3>2
    <3> QED
      BY <3>1, <3>2
  <2> QED
    BY <2>3
<1>4. ASSUME NEW k \in Ids, Judge(k), UNCHANGED up PROVE Goal
  <2>1. PICK b \in BOOLEAN : /\ registry' = [registry EXCEPT ![k].alive = b]
                             /\ b = (registry[k].server \in up) \/ "misjudged" \in faults'
    BY <1>0, <1>4, JudgeIs
  <2>2. /\ Ids' = Ids /\ registry'[k].alive = b
        /\ \A id \in Ids : registry'[id].server = registry[id].server
        /\ \A id \in Ids : id # k => registry'[id] = registry[id]
    BY <1>0, <2>1, FlagSet
  <2>3. b = (registry[k].server \in up)
    BY <2>1
  <2> QED
    BY <1>1, <1>4, <2>2, <2>3
<1>5. RestartNamingServer => Goal
  BY DEF RestartNamingServer, Ids
<1> HIDE DEF Goal
<1>6. Goal
  BY <1>2, <1>3, <1>4, <1>5
     DEF Next, vars, servers, naming, ServerStep, ReplicatorStep, Seed, Resync, Crash,
         HeartbeatStep, Create, CreateReplica, Delete, DeleteUnregistered, Route,
         Write, WriteFails, LoseUpdate, ServiceUpdate, PickSource, Fetch, Push, Apply
<1> QED
  BY <1>6 DEF Goal

\* A server that registers gets no text unless the heartbeat misjudged it.
LEMMA NoResync ==
  ASSUME Types, AliveWhenUp, "misjudged" \notin faults,
         NEW s \in Servers, service[s] # "serving", s \in up
  PROVE  ResyncText(s) = <<>>
<1>1. IdOf(s) \in Ids /\ registry[IdOf(s)].server = s
  BY IdFound DEF Types, ServicesKnown
<1>2. PickAlive(IdOf(s)) = IdOf(s)
  BY <1>1 DEF AliveWhenUp, PickAlive, Alive
<1> QED
  BY <1>2 DEF ResyncText

\* What reaches the queue of a server whose queue is empty.
LEMMA QueueStaysEmpty ==
  ASSUME Types, AliveWhenUp, [Next]_vars, "misjudged" \notin faults,
         NEW s \in Servers, toServer[s] = <<>>
  PROVE  \/ toServer'[s] = <<>>
         \/ s \in up /\ UNCHANGED <<up, replica, registry>>
            /\ replica # NoId /\ replica \in Ids /\ registry[replica].server = s
<1>0. TypeOK
  BY DEF Types
<1> DEFINE Goal ==
         \/ toServer'[s] = <<>>
         \/ s \in up /\ UNCHANGED <<up, replica, registry>>
            /\ replica # NoId /\ replica \in Ids /\ registry[replica].server = s
<1>1. UNCHANGED toServer => Goal
  OBVIOUS
<1>2. ASSUME NEW r \in Servers, Resync(r) PROVE Goal
  <2>1. r \in up => ResyncText(r) = <<>>
    BY <1>2, NoResync DEF Resync
  <2>2. toServer' = [toServer EXCEPT ![r] = IF r \in up THEN @ \o ResyncText(r) ELSE @]
    BY <1>2 DEF Resync
  <2>3. <<>> \o <<>> = <<>>
    OBVIOUS
  <2> QED
    BY <1>0, <2>1, <2>2, <2>3 DEF TypeOK
<1>3. ASSUME NEW r \in Servers, Crash(r) PROVE Goal
  BY <1>0, <1>3 DEF Crash, TypeOK
<1>4. ASSUME NEW r \in Servers, Apply(r) PROVE Goal
  BY <1>0, <1>4 DEF Apply, TypeOK
<1>5. ASSUME NEW t \in Threads, Push(t) PROVE Goal
  <2>1. CASE UNCHANGED toServer
    BY <2>1
  <2>2. CASE /\ replica # NoId /\ replica \in Ids /\ registry[replica].server \in up
             /\ toServer' = [toServer EXCEPT
                  ![registry[replica].server] = Append(@, threads[t].text)]
    BY <1>0, <1>5, <2>2, IdRange DEF TypeOK, Push
  <2> QED
    BY <1>5, <2>1, <2>2 DEF Push, Alive
<1> HIDE DEF Goal
<1>6. Goal
  BY <1>1, <1>2, <1>3, <1>4, <1>5
     DEF Next, vars, servers, ServerStep, ReplicatorStep, Register, Seed, HeartbeatStep,
         Create, CreateReplica, Delete, DeleteUnregistered, RestartNamingServer, Route,
         Write, WriteFails, LoseUpdate, ServiceUpdate, PickSource, Fetch
<1> QED
  BY <1>6 DEF Goal

\* Crash alone stops a server, and it takes the queue with it.
LEMMA NextDownEmpty ==
  ASSUME Types, AliveWhenUp, DownEmpty, [Next]_vars, "misjudged" \notin faults'
  PROVE  DownEmpty'
<1> SUFFICES ASSUME NEW s \in Servers, s \notin up' PROVE toServer'[s] = <<>>
  BY DEF DownEmpty
<1>0. TypeOK /\ "misjudged" \notin faults
  BY FaultsGrow DEF Types
<1>1. CASE s \notin up
  BY <1>0, <1>1, QueueStaysEmpty DEF DownEmpty
<1>2. CASE s \in up
  <2>1. \E r \in Servers : Crash(r) /\ s = r
    BY <1>2
       DEF Next, vars, servers, ServerStep, ReplicatorStep, Register, Seed, Resync, Crash,
           HeartbeatStep, Create, CreateReplica, Delete, DeleteUnregistered,
           RestartNamingServer, Route, Write, WriteFails, LoseUpdate, ServiceUpdate,
           PickSource, Fetch, Push, Apply
  <2> QED
    BY <1>0, <2>1 DEF Crash, TypeOK
<1> QED
  BY <1>1, <1>2

\* Nothing will be pushed over the text of this server.
Unpushed(s) ==
    toServer[s] = <<>> /\ ~(replica # NoId /\ registry[replica].server = s)

\* The file has been made and the naming server has not been restarted since.
Undisturbed ==
    primary # NoId /\ (creating # NoId \/ replica # NoId \/ "restart" \notin faults)

\* Nothing crashes, so every server that is known runs, and the others never ran.
NoneDown ==
    /\ \A id \in Ids : registry[id].server \in up
    /\ \A s \in Servers : (s \notin up => ~Holds(s)) /\ service[s] # "seeding"
Roles ==
    /\ creating # NoId => creating = primary /\ primary \in Ids
    /\ replica # NoId => primary \in Ids /\ replica \in Ids /\ replica # primary
    /\ primary = NoId => accepted = {} /\ \A w \in Writes : session[w] \notin Servers
PrimaryUnpushed == primary \in Ids => toServer[registry[primary].server] = <<>>
SessionsUnpushed == \A w \in Writes : session[w] \in Servers => Unpushed(session[w])
WritesUnpushed == \A w \in accepted : \E s \in Servers : Has(s, {w}) /\ Unpushed(s)
PrimaryHasAll ==
    Undisturbed =>
        /\ primary \in Ids /\ Has(registry[primary].server, accepted)
        /\ \A w \in Writes : session[w] \in Servers => session[w] = registry[primary].server

DurableParts ==
    /\ DownEmpty /\ NoneDown /\ Roles /\ PrimaryUnpushed
    /\ SessionsUnpushed /\ WritesUnpushed /\ PrimaryHasAll
Durable == Despite({"unanswered", "lost", "restart"}) => DurableParts

\* What the steps below start from.
Before ==
    /\ Types /\ AliveWhenUp /\ DurableParts /\ [Next]_vars
    /\ faults \subseteq {"unanswered", "lost", "restart"}
    /\ faults' \subseteq {"unanswered", "lost", "restart"}

LEMMA BeforeFacts ==
  ASSUME Before
  PROVE  /\ TypeOK /\ ServicesKnown /\ AliveWhenUp /\ [Next]_vars
         /\ DownEmpty /\ NoneDown /\ Roles /\ PrimaryUnpushed
         /\ SessionsUnpushed /\ WritesUnpushed /\ PrimaryHasAll
         /\ ~Fault("crash") /\ ~Fault("misjudged") /\ ~Fault("deleted")
         /\ "misjudged" \notin faults' /\ "misjudged" \notin faults /\ "deleted" \notin faults'
         /\ primary # NoId => primary \in Nat
BY DEF Before, Types, DurableParts, Fault, TypeOK

\* Everybody is sent to the primary.
LEMMA RoutedToPrimary ==
  ASSUME Before
  PROVE  Routed = primary
<1>1. CASE primary \in Ids
  <2>1. PickAlive(primary) = primary
    BY <1>1, BeforeFacts DEF NoneDown, AliveWhenUp, PickAlive, Alive
  <2> QED
    BY <2>1 DEF Routed
<1>2. CASE primary \notin Ids
  <2>1. replica = NoId
    BY <1>2, BeforeFacts DEF Roles
  <2>2. PickAlive(primary) = NoId
    BY <1>2, <2>1 DEF PickAlive, Alive
  <2> QED
    BY <2>2 DEF Routed
<1> QED
  BY <1>1, <1>2

LEMMA NextNoneDown ==
  ASSUME Before
  PROVE  NoneDown'
<1>0. TypeOK /\ NoneDown /\ ~Fault("crash") /\ ~Fault("misjudged") /\ ~Fault("deleted")
  BY BeforeFacts
<1>1. up \subseteq up'
  BY <1>0, BeforeFacts
     DEF Next, vars, servers, ServerStep, ReplicatorStep, Register, Seed, Resync, Crash,
         HeartbeatStep, Create, CreateReplica, Delete, DeleteUnregistered,
         RestartNamingServer, Route, Write, WriteFails, LoseUpdate, ServiceUpdate,
         PickSource, Fetch, Push, Apply
<1>2. \A id \in Ids' : registry'[id].server \in up'
  <2>1. CASE UNCHANGED registry
    BY <1>0, <1>1, <2>1 DEF NoneDown, Ids
  <2>2. ASSUME NEW s \in Servers, Register(s) PROVE \A id \in Ids' : registry'[id].server \in up'
    BY <1>0, <1>1, <2>2, RegisteredType DEF NoneDown, Register
  <2>3. ASSUME NEW k \in Ids, Judge(k) PROVE \A id \in Ids' : registry'[id].server \in up'
    BY <1>0, <1>1, <2>3, JudgeIs, FlagSet DEF NoneDown
  <2>4. RestartNamingServer => \A id \in Ids' : registry'[id].server \in up'
    BY DEF RestartNamingServer, Ids
  <2> QED
    BY <1>0, <2>1, <2>2, <2>3, <2>4, BeforeFacts
       DEF Next, vars, naming, ServerStep, ReplicatorStep, Seed, Resync, Crash,
         HeartbeatStep, Create, CreateReplica, Delete, DeleteUnregistered, Route,
         Write, WriteFails, LoseUpdate, ServiceUpdate, PickSource, Fetch, Push, Apply
<1>3. ASSUME NEW s \in Servers, s \notin up' PROVE ~Holds(s)'
  <2>1. s \notin up /\ ~Holds(s)
    BY <1>0, <1>1, <1>3 DEF NoneDown
  <2>2. UNCHANGED text => ~Holds(s)'
    BY <2>1 DEF Holds
  <2>3. ASSUME NEW r, MakeFile(r) PROVE ~Holds(s)'
    BY <1>0, <2>1, <2>3 DEF MakeFile, Holds, TypeOK
  <2>4. ASSUME NEW w \in Writes, Write(w) PROVE ~Holds(s)'
    BY <1>0, <2>1, <2>4 DEF Write, Holds, TypeOK
  <2>5. ASSUME NEW r \in Servers, Apply(r) PROVE ~Holds(s)'
    BY <1>0, <2>1, <2>5 DEF Apply, Holds, TypeOK
  <2> QED
    BY <1>0, <2>2, <2>3, <2>4, <2>5, BeforeFacts
       DEF Next, vars, servers, ServerStep, ReplicatorStep, Register, Seed, Resync, Crash,
         HeartbeatStep, Create, CreateReplica, Delete, DeleteUnregistered, Route, RestartNamingServer,
         WriteFails, LoseUpdate, ServiceUpdate, PickSource, Fetch, Push
<1>4. ASSUME NEW s \in Servers PROVE service'[s] # "seeding"
  <2>1. UNCHANGED service => service'[s] # "seeding"
    BY <1>0 DEF NoneDown
  <2>2. ASSUME NEW r \in Servers, Register(r) \/ Seed(r) \/ Resync(r)
        PROVE  service'[s] # "seeding"
    BY <1>0, <2>2 DEF NoneDown, Register, Seed, Resync, TypeOK
  <2>3. RestartNamingServer => service'[s] # "seeding"
    BY DEF RestartNamingServer
  <2> QED
    BY <1>0, <2>1, <2>2, <2>3, BeforeFacts
       DEF Next, vars, naming, ServerStep, ReplicatorStep, Crash,
         HeartbeatStep, Create, CreateReplica, Delete, DeleteUnregistered, Route,
         Write, WriteFails, LoseUpdate, ServiceUpdate, PickSource, Fetch, Push, Apply
<1> QED
  BY <1>2, <1>3, <1>4 DEF NoneDown, Holds

\* Most steps change nothing of who is the primary, who writes and what was
\* acknowledged.
Bystander == UNCHANGED <<primary, replica, creating, session, accepted>>

Restarts == RestartNamingServer /\ Fault("restart")

LEMMA StepKinds ==
  ASSUME Before
  PROVE  \/ Bystander
         \/ Restarts
         \/ \E id \in Ids : Create(id)
         \/ CreateReplica
         \/ \E w \in Writes : Route(w) \/ Write(w) \/ WriteFails(w)
<1>1. ASSUME NEW s \in Servers, Seed(s) PROVE FALSE
  BY <1>1, BeforeFacts DEF Seed, NoneDown
<1>2. UNCHANGED <<primary, replica, creating, clients>> => Bystander
  BY DEF Bystander, clients
<1> QED
  BY <1>1, <1>2, BeforeFacts
     DEF Restarts, Next, vars, naming, clients, ServerStep, ReplicatorStep, Register, Resync, Crash,
         HeartbeatStep, Delete, DeleteUnregistered, LoseUpdate, ServiceUpdate,
         PickSource, Fetch, Push, Apply

\* What a step does to the ids it finds.
LEMMA IdsAfter ==
  ASSUME Before, ~Restarts
  PROVE  Ids \subseteq Ids' /\ \A id \in Ids : registry'[id].server = registry[id].server
<1>0. TypeOK /\ [Next]_vars
  BY BeforeFacts
<1> DEFINE Goal == Ids \subseteq Ids' /\ \A id \in Ids : registry'[id].server = registry[id].server
<1>1. UNCHANGED registry => Goal
  BY DEF Ids
<1>2. ASSUME NEW s \in Servers, Register(s) PROVE Goal
  BY <1>0, <1>2, RegisteredType DEF Register
<1>3. ASSUME NEW id \in Ids, Judge(id) PROVE Goal
  BY <1>0, <1>3, JudgeIs, FlagSet
<1> HIDE DEF Goal
<1> QED
  BY <1>0, <1>1, <1>2, <1>3
     DEF Restarts, Goal, Next, vars, naming, ServerStep, ReplicatorStep, Seed, Resync, Crash,
         HeartbeatStep, Create, CreateReplica, Delete, DeleteUnregistered, Route,
         Write, WriteFails, LoseUpdate, ServiceUpdate, PickSource, Fetch, Push, Apply

\* The replica that CREATE makes is not the primary.
LEMMA ReplicaMade ==
  ASSUME Before, CreateReplica
  PROVE  /\ creating = primary /\ primary \in Ids /\ creating' = NoId
         /\ UNCHANGED <<primary, registry, toServer, session, accepted>>
         /\ UNCHANGED replica \/ (replica' \in Ids /\ replica' # primary)
<1>1. creating # NoId /\ creating = primary /\ primary \in Ids
  BY BeforeFacts DEF CreateReplica, Roles
<1>2. Alternate(creating) \in (Ids \ {creating}) \cup {NoId}
  BY BeforeFacts, AlternateType
<1>3. UNCHANGED replica \/ (replica' = Alternate(creating) /\ Alternate(creating) # NoId)
  BY DEF CreateReplica, EnterReplica
<1> QED
  BY <1>1, <1>2, <1>3 DEF CreateReplica, clients

LEMMA NextRoles ==
  ASSUME Before
  PROVE  Roles'
<1>0. TypeOK /\ Roles
  BY BeforeFacts
<1>1. CASE Bystander /\ ~Restarts
  BY <1>0, <1>1, IdsAfter DEF Roles, Bystander
<1>2. CASE Restarts
  BY <1>0, <1>2 DEF Roles, Restarts, RestartNamingServer, clients
<1>3. ASSUME NEW id \in Ids, Create(id) PROVE Roles'
  <2>1. /\ primary = NoId /\ creating = NoId /\ replica = NoId /\ accepted' = {}
        /\ \A w \in Writes : session'[w] \notin Servers
        /\ UNCHANGED <<replica, registry>>
    BY <1>0, <1>3, IdRange DEF Create, Roles
  <2>2. (primary' = id /\ creating' = id) \/ (primary' = NoId /\ creating' = NoId)
    BY <1>3, <2>1 DEF Create
  <2>3. Ids' = Ids
    BY <2>1 DEF Ids
  <2> QED
    BY <2>1, <2>2, <2>3 DEF Roles
<1>4. CASE CreateReplica
  <2>1. Ids' = Ids
    BY <1>4, ReplicaMade DEF Ids
  <2> QED
    BY <1>0, <1>4, <2>1, ReplicaMade, IdRange DEF Roles
<1>5. ASSUME NEW w \in Writes, Route(w) \/ Write(w) \/ WriteFails(w) PROVE Roles'
  <2>1. UNCHANGED <<primary, replica, creating, registry>>
    BY <1>5 DEF Route, Write, WriteFails, naming
  <2>2. Ids' = Ids
    BY <2>1 DEF Ids
  <2>3. primary # NoId
    <3>1. Write(w) => session[w] \in Servers
      BY <1>0, BeforeFacts DEF Write, TypeOK
    <3>2. WriteFails(w) => session[w] \in Servers
      BY DEF WriteFails
    <3> QED
      BY <1>0, <1>5, <3>1, <3>2 DEF Roles, Route
  <2> QED
    BY <1>0, <2>1, <2>2, <2>3 DEF Roles
<1> QED
  BY <1>1, <1>2, <1>3, <1>4, <1>5, StepKinds

\* A queue that nobody pushes to stays empty, unless the server becomes the replica.
LEMMA UnpushedKept ==
  ASSUME Before, NEW s \in Servers, Unpushed(s),
         ~(replica' # NoId /\ ~UNCHANGED replica /\ registry[replica'].server = s)
  PROVE  Unpushed(s)'
<1>1. toServer'[s] = <<>>
  <2>1. Types /\ AliveWhenUp /\ [Next]_vars /\ "misjudged" \notin faults
    BY BeforeFacts DEF Before
  <2> QED
    BY <2>1, QueueStaysEmpty DEF Unpushed
<1>2. CASE Restarts
  BY <1>1, <1>2 DEF Restarts, RestartNamingServer, Unpushed
<1>3. CASE ~Restarts /\ UNCHANGED replica
  <2>1. replica # NoId => replica \in Ids
    BY BeforeFacts DEF Roles
  <2> QED
    BY <1>1, <1>3, <2>1, IdsAfter DEF Unpushed
<1>4. CASE CreateReplica /\ ~UNCHANGED replica
  BY <1>1, <1>4, ReplicaMade DEF Unpushed
<1>5. Restarts \/ CreateReplica \/ UNCHANGED replica
  BY StepKinds DEF Bystander, Create, Route, Write, WriteFails, naming
<1> QED
  BY <1>1, <1>2, <1>3, <1>4, <1>5

\* The primary's queue is empty and its server is not the replica's.
LEMMA PrimaryIsUnpushed ==
  ASSUME Before, primary \in Ids
  PROVE  Unpushed(registry[primary].server) /\ registry[primary].server \in Servers
BY BeforeFacts, IdRange DEF PrimaryUnpushed, Roles, Unpushed, TypeOK

LEMMA PrimaryStaysUnpushed ==
  ASSUME Before, primary \in Ids, NEW s, s = registry[primary].server
  PROVE  Unpushed(s)'
<1>1. ASSUME replica' # NoId, ~UNCHANGED replica
      PROVE  replica' \in Ids /\ replica' # primary
  BY <1>1, StepKinds, ReplicaMade
     DEF Bystander, Restarts, RestartNamingServer, Create, Route, Write, WriteFails, naming
<1>2. ~(replica' # NoId /\ ~UNCHANGED replica /\ registry[replica'].server = s)
  BY <1>1, BeforeFacts DEF TypeOK
<1>3. s \in Servers /\ Unpushed(s)
  BY PrimaryIsUnpushed
<1> QED
  BY <1>2, <1>3, UnpushedKept

\* A server with a new id never ran before.
LEMMA NewIdUnused ==
  ASSUME Before, NEW id \in Ids', id \notin Ids
  PROVE  registry'[id].server \in Servers /\ registry'[id].server \notin up
<1>0. TypeOK /\ [Next]_vars
  BY BeforeFacts
<1>1. ASSUME UNCHANGED registry PROVE FALSE
  BY <1>1 DEF Ids
<1>2. ASSUME NEW s \in Servers, Register(s)
      PROVE  registry'[id].server \in Servers /\ registry'[id].server \notin up
  BY <1>0, <1>2, RegisteredType DEF Register
<1>3. ASSUME NEW k \in Ids, Judge(k) PROVE FALSE
  BY <1>0, <1>3, JudgeIs, FlagSet
<1>4. Restarts => FALSE
  BY DEF Restarts, RestartNamingServer, Ids
<1> QED
  BY <1>0, <1>1, <1>2, <1>3, <1>4
     DEF Restarts, Next, vars, naming, ServerStep, ReplicatorStep, Seed, Resync, Crash,
         HeartbeatStep, Create, CreateReplica, Delete, DeleteUnregistered, Route,
         Write, WriteFails, LoseUpdate, ServiceUpdate, PickSource, Fetch, Push, Apply

\* The queue of a server that does not run stays empty.
LEMMA UnusedStaysEmpty ==
  ASSUME Before, NEW s \in Servers, s \notin up
  PROVE  toServer'[s] = <<>>
<1>1. Types /\ AliveWhenUp /\ [Next]_vars /\ "misjudged" \notin faults /\ toServer[s] = <<>>
  BY BeforeFacts DEF Before, DownEmpty
<1> QED
  BY <1>1, QueueStaysEmpty

LEMMA NextPrimaryUnpushed ==
  ASSUME Before
  PROVE  PrimaryUnpushed'
<1>0. TypeOK /\ NoneDown
  BY BeforeFacts
<1>1. ASSUME UNCHANGED primary, ~Restarts PROVE PrimaryUnpushed'
  <2>1. CASE primary \in Ids
    <3>1. PICK s : s = registry[primary].server
      OBVIOUS
    <3>2. toServer'[s] = <<>>
      BY <2>1, <3>1, PrimaryStaysUnpushed DEF Unpushed
    <3> QED
      BY <1>1, <2>1, <3>1, <3>2, IdsAfter DEF PrimaryUnpushed
  <2>2. CASE primary \notin Ids /\ primary \in Ids'
    <3>1. PICK id : id = primary /\ id = primary'
      BY <1>1
    <3>2. toServer'[registry'[id].server] = <<>>
      BY <2>2, <3>1, NewIdUnused, UnusedStaysEmpty
    <3> QED
      BY <3>1, <3>2 DEF PrimaryUnpushed
  <2>3. CASE primary \notin Ids'
    BY <1>1, <2>3 DEF PrimaryUnpushed
  <2> QED
    BY <2>1, <2>2, <2>3
<1>2. CASE Restarts
  BY <1>2 DEF Restarts, RestartNamingServer, PrimaryUnpushed, Ids
<1>3. ASSUME NEW id \in Ids, Create(id), ~UNCHANGED primary PROVE PrimaryUnpushed'
  <2>1. /\ registry[id].server \in up /\ primary' = id /\ UNCHANGED <<registry, toServer>>
        /\ toServer[registry[id].server] = <<>>
    BY <1>0, <1>3 DEF Create, Reached, NoneDown
  <2> QED
    BY <2>1 DEF PrimaryUnpushed
<1>4. UNCHANGED primary \/ Restarts \/ \E id \in Ids : Create(id)
  BY StepKinds, ReplicaMade DEF Bystander, Route, Write, WriteFails, naming
<1> QED
  BY <1>1, <1>2, <1>3, <1>4

\* While a replica is being made, all writing is at the primary.
LEMMA WhileCreating ==
  ASSUME Before, CreateReplica
  PROVE  Undisturbed /\ primary \in Ids /\ Has(registry[primary].server, accepted)
         /\ \A w \in Writes : session[w] \in Servers => session[w] = registry[primary].server
BY BeforeFacts, IdRange DEF Undisturbed, PrimaryHasAll, CreateReplica, Roles

\* The server that becomes the replica is not where the primary is.
LEMMA ReplicaElsewhere ==
  ASSUME Before, CreateReplica, replica' # NoId, ~UNCHANGED replica
  PROVE  registry[replica'].server # registry[primary].server
BY ReplicaMade, BeforeFacts DEF TypeOK

LEMMA NextSessionsUnpushed ==
  ASSUME Before
  PROVE  SessionsUnpushed'
<1> SUFFICES ASSUME NEW w \in Writes, NEW s \in Servers, session'[w] = s
             PROVE  Unpushed(s)'
  BY DEF SessionsUnpushed, Unpushed
<1>0. TypeOK /\ SessionsUnpushed
  BY BeforeFacts
<1>1. ASSUME session[w] = s PROVE Unpushed(s)'
  <2>1. Unpushed(s)
    BY <1>0, <1>1 DEF SessionsUnpushed
  <2>2. ~(replica' # NoId /\ ~UNCHANGED replica /\ registry[replica'].server = s)
    <3>1. CASE CreateReplica
      BY <1>1, <3>1, WhileCreating, ReplicaElsewhere
    <3>2. CASE ~CreateReplica
      BY <3>2, StepKinds
         DEF Bystander, Restarts, RestartNamingServer, Create, Route, Write, WriteFails, naming
    <3> QED
      BY <3>1, <3>2
  <2> QED
    BY <2>1, <2>2, UnpushedKept
<1>2. ASSUME session[w] # s PROVE Unpushed(s)'
  <2>1. ASSUME NEW v \in Writes, Write(v) \/ WriteFails(v) PROVE FALSE
    <3>1. session' = [session EXCEPT ![v] = "done"]
      BY <2>1 DEF Write, WriteFails
    <3>2. session'[w] = session[w] \/ session'[w] = "done"
      BY <1>0, <3>1 DEF TypeOK
    <3>3. "done" \notin Servers
      BY ConstantsAssumption
    <3> QED
      BY <1>2, <3>2, <3>3
  <2>2. PICK v \in Writes : Route(v)
    BY <1>2, <2>1, StepKinds, ReplicaMade
       DEF Bystander, Restarts, RestartNamingServer, clients, Create
  <2>3. v = w /\ Routed \in Ids /\ registry[Routed].server = s
    BY <1>0, <1>2, <2>2 DEF Route, TypeOK
  <2>4. primary \in Ids /\ s = registry[primary].server
    BY <2>3, RoutedToPrimary
  <2> QED
    BY <2>4, PrimaryStaysUnpushed
<1> QED
  BY <1>1, <1>2

\* A text that nobody pushes over only grows.
LEMMA UnpushedGrows ==
  ASSUME Before, NEW s \in Servers, toServer[s] = <<>>, NEW writes, Has(s, writes)
  PROVE  Has(s, writes)'
<1>1. text'[s] # NoFile /\ text[s] \subseteq text'[s]
  <2>1. Types /\ [Next]_vars /\ "deleted" \notin faults' /\ Holds(s)
    BY BeforeFacts DEF Before, Has
  <2>2. Holds(s)' /\ (text[s] \subseteq text'[s] \/ toServer[s] # <<>>)
    BY <2>1, TextKept
  <2> QED
    BY <2>2 DEF Holds
<1> QED
  BY <1>1 DEF Has, Holds

\* A write is in the text that it was committed to.
LEMMA Written ==
  ASSUME Before, NEW w \in Writes, Write(w), NEW s, s = session[w]
  PROVE  s \in Servers /\ Has(s, {w})'
<1>1. s \in Servers
  BY BeforeFacts DEF Write, TypeOK
<1>2. text'[s] = IF Holds(s) THEN text[s] \cup {w} ELSE {w}
  BY <1>1, BeforeFacts DEF Write, TypeOK
<1>3. Holds(s) => text[s] \cup {w} \in Texts
  BY <1>1, BeforeFacts DEF TypeOK, Holds, Texts
<1>4. {w} \in Texts
  BY DEF Texts
<1>5. text'[s] # NoFile /\ {w} \subseteq text'[s]
  BY <1>2, <1>3, <1>4, TextIsNoSentinel
<1> QED
  BY <1>1, <1>5 DEF Has, Holds

LEMMA NextWritesUnpushed ==
  ASSUME Before
  PROVE  WritesUnpushed'
<1> SUFFICES ASSUME NEW w \in accepted'
             PROVE  \E s \in Servers : Has(s, {w})' /\ Unpushed(s)'
  BY DEF WritesUnpushed
<1>0. TypeOK /\ WritesUnpushed /\ w \in Writes
  <2>1. accepted' \in Texts
    BY NextTypes DEF Before, Types, TypeOK
  <2> QED
    BY <2>1, BeforeFacts DEF Texts
<1>1. CASE w \in accepted /\ ~CreateReplica
  <2>1. PICK s \in Servers : Has(s, {w}) /\ Unpushed(s)
    BY <1>0, <1>1 DEF WritesUnpushed
  <2>2. Has(s, {w})'
    BY <2>1, UnpushedGrows DEF Unpushed
  <2>3. ~(replica' # NoId /\ ~UNCHANGED replica /\ registry[replica'].server = s)
    BY <1>1, StepKinds
       DEF Bystander, Restarts, RestartNamingServer, Create, Route, Write, WriteFails, naming
  <2>4. Unpushed(s)'
    BY <2>1, <2>3, UnpushedKept
  <2> QED
    BY <2>2, <2>4
<1>2. CASE CreateReplica
  <2>1. PICK s \in Servers : s = registry[primary].server
    BY <1>2, WhileCreating, PrimaryIsUnpushed
  <2>2. w \in accepted /\ Has(s, {w}) /\ toServer[s] = <<>>
    BY <1>2, <2>1, ReplicaMade, WhileCreating, PrimaryIsUnpushed DEF Has, Unpushed
  <2>3. Has(s, {w})'
    BY <2>2, UnpushedGrows
  <2>4. Unpushed(s)'
    BY <1>2, <2>1, WhileCreating, PrimaryStaysUnpushed
  <2> QED
    BY <2>3, <2>4
<1>3. CASE w \notin accepted /\ ~CreateReplica
  <2>1. PICK v \in Writes : Write(v)
    BY <1>3, StepKinds
       DEF Bystander, Restarts, RestartNamingServer, clients, Create, Route, WriteFails
  <2>2. v = w
    BY <1>3, <2>1 DEF Write
  <2>3. PICK s : s = session[w]
    OBVIOUS
  <2>4. s \in Servers /\ Has(s, {w})'
    BY <2>1, <2>2, <2>3, Written
  <2>5. Unpushed(s)
    BY <1>0, <2>3, <2>4, BeforeFacts DEF SessionsUnpushed
  <2>6. UNCHANGED replica
    BY <2>1 DEF Write, naming
  <2>7. Unpushed(s)'
    BY <2>4, <2>5, <2>6, UnpushedKept
  <2> QED
    BY <2>4, <2>7
<1> QED
  BY <1>1, <1>2, <1>3

LEMMA NextPrimaryHasAll ==
  ASSUME Before
  PROVE  PrimaryHasAll'
<1>0. TypeOK /\ PrimaryHasAll /\ Roles
  BY BeforeFacts
<1>1. CASE Restarts
  BY <1>1 DEF Restarts, RestartNamingServer, Fault, PrimaryHasAll, Undisturbed
<1>2. ASSUME NEW id \in Ids, Create(id) PROVE PrimaryHasAll'
  <2>1. PICK s \in Servers : s = registry[id].server
    BY <1>0, IdRange
  <2>2. /\ primary = NoId /\ MakeFile(s) /\ accepted' = {} /\ UNCHANGED <<registry, session>>
        /\ primary' = id \/ primary' = NoId
        /\ s \in up /\ \A w \in Writes : session[w] \notin Servers
    BY <1>0, <1>2, <2>1, BeforeFacts DEF Create, Roles, NoneDown
  <2>3. Holds(s)'
    BY <1>0, <2>2, MadeFileThere
  <2>4. Has(s, {})'
    BY <2>3 DEF Has, Holds
  <2> QED
    BY <2>1, <2>2, <2>4 DEF PrimaryHasAll, Undisturbed, Ids, Has, Holds
<1>3. ASSUME ~Restarts, UNCHANGED primary,
             Undisturbed' => Undisturbed,
             \A w \in accepted' \ accepted : Write(w) /\ w \in Writes,
             \A w \in Writes : session'[w] \in Servers =>
                                 session'[w] = session[w] \/ Route(w)
      PROVE  PrimaryHasAll'
  <2> SUFFICES ASSUME Undisturbed' PROVE PrimaryHasAll'
    BY DEF PrimaryHasAll
  <2>1. /\ primary \in Ids /\ Has(registry[primary].server, accepted)
        /\ \A w \in Writes : session[w] \in Servers => session[w] = registry[primary].server
    BY <1>0, <1>3 DEF PrimaryHasAll
  <2>2. PICK s \in Servers : s = registry[primary].server /\ toServer[s] = <<>>
    BY <2>1, PrimaryIsUnpushed DEF Unpushed
  <2>3. Has(s, accepted)' \/ accepted' # accepted
    <3>1. PICK writes : writes = accepted
      OBVIOUS
    <3>2. Has(s, writes)'
      BY <2>1, <2>2, <3>1, UnpushedGrows
    <3> QED
      BY <3>1, <3>2 DEF Has, Holds
  <2>4. text'[s] # NoFile
    <3>1. Has(s, {})
      BY <2>1, <2>2 DEF Has
    <3>2. Has(s, {})'
      BY <2>2, <3>1, UnpushedGrows
    <3> QED
      BY <3>2 DEF Has, Holds
  <2>5. ASSUME NEW w \in accepted' PROVE w \in text'[s]
    <3>1. CASE w \in accepted
      <4>1. Has(s, {w})
        BY <2>1, <2>2, <3>1 DEF Has
      <4>2. Has(s, {w})'
        BY <2>2, <4>1, UnpushedGrows
      <4> QED
        BY <4>2 DEF Has
    <3>2. CASE w \notin accepted
      <4>1. Write(w) /\ w \in Writes /\ session[w] \in Servers
        BY <1>3, <3>2, Written
      <4>2. session[w] = s
        BY <2>1, <2>2, <4>1
      <4>3. Has(s, {w})'
        BY <4>1, <4>2, Written
      <4> QED
        BY <4>3 DEF Has
    <3> QED
      BY <3>1, <3>2
  <2>6. ASSUME NEW w \in Writes, session'[w] \in Servers PROVE session'[w] = s
    <3>1. CASE session'[w] = session[w]
      BY <2>1, <2>2, <2>6, <3>1
    <3>2. CASE Route(w)
      <4>1. session'[w] = registry[Routed].server
        BY <1>0, <3>2 DEF Route, TypeOK
      <4> QED
        BY <2>2, <4>1, RoutedToPrimary
    <3> QED
      BY <1>3, <2>6, <3>1, <3>2
  <2>7. primary' \in Ids' /\ registry'[primary'].server = s
    BY <1>3, <2>1, <2>2, IdsAfter
  <2> QED
    BY <2>4, <2>5, <2>6, <2>7 DEF PrimaryHasAll, Has, Holds
<1>4. faults \subseteq faults'
  BY FaultsGrow, BeforeFacts
<1>5. CASE Bystander /\ ~Restarts
  BY <1>3, <1>4, <1>5 DEF Bystander, Undisturbed
<1>6. CASE CreateReplica /\ ~Restarts
  <2>1. Undisturbed /\ UNCHANGED <<primary, session, accepted>>
    BY <1>6, WhileCreating, ReplicaMade
  <2> QED
    BY <1>3, <1>6, <2>1
<1>7. ASSUME NEW w \in Writes, Route(w) \/ Write(w) \/ WriteFails(w), ~Restarts
      PROVE  PrimaryHasAll'
  <2>1. UNCHANGED <<primary, creating, replica, faults>>
    BY <1>7 DEF Route, Write, WriteFails, naming, history
  <2>2. \A v \in accepted' \ accepted : Write(v) /\ v \in Writes
    BY <1>7 DEF Route, Write, WriteFails
  <2>3. \A v \in Writes : session'[v] \in Servers => session'[v] = session[v] \/ Route(v)
    BY <1>0, <1>7, ConstantsAssumption DEF Route, Write, WriteFails, TypeOK
  <2> QED
    BY <1>3, <1>7, <2>1, <2>2, <2>3 DEF Undisturbed
<1> QED
  BY <1>1, <1>2, <1>5, <1>6, <1>7, StepKinds

-----------------------------------------------------------------------------
(* Traffic.                                                                 *)

LEMMA NoMore ==
  ASSUME NEW S, IsFiniteSet(S), NEW T, T \subseteq S
  PROVE  IsFiniteSet(T) /\ Cardinality(T) <= Cardinality(S)
BY FS_Subset

LEMMA OneMore ==
  ASSUME NEW S, IsFiniteSet(S), NEW T, NEW y, T \subseteq S \cup {y}
  PROVE  IsFiniteSet(T) /\ Cardinality(T) <= Cardinality(S) + 1
<1>1. /\ IsFiniteSet(S \cup {y}) /\ Cardinality(S) \in Nat
      /\ Cardinality(S \cup {y}) <= Cardinality(S) + 1
  BY FS_AddElement, FS_CardinalityType
<1>2. IsFiniteSet(T) /\ Cardinality(T) <= Cardinality(S \cup {y})
  BY <1>1, NoMore
<1>3. Cardinality(T) \in Nat /\ Cardinality(S \cup {y}) \in Nat
  BY <1>1, <1>2, FS_CardinalityType
<1> QED
  BY <1>1, <1>2, <1>3

LEMMA Exchanged ==
  ASSUME NEW S, IsFiniteSet(S), NEW T, NEW x \in S, NEW y, T \subseteq (S \ {x}) \cup {y}
  PROVE  IsFiniteSet(T) /\ Cardinality(T) <= Cardinality(S)
<1>1. IsFiniteSet(S \ {x}) /\ Cardinality(S \ {x}) = Cardinality(S) - 1 /\ Cardinality(S) \in Nat
  BY FS_RemoveElement, FS_CardinalityType
<1>2. IsFiniteSet(T) /\ Cardinality(T) <= Cardinality(S \ {x}) + 1
  BY <1>1, OneMore
<1> QED
  BY <1>1, <1>2

\* What there is with so many reports u, queues q and copying threads T.
LEMMA MessagesAre ==
  ASSUME NEW u, NEW q, NEW T, NEW x
  PROVE  x \in Messages(u, q, T)
         <=> \/ \E s \in Servers : \E n \in 1..u[s] : x = <<"update", s, n>>
             \/ \E s \in Servers : \E n \in DOMAIN q[s] : x = <<"text", s, n>>
             \/ \E t \in T : x = <<"copy", t>>
<1> DEFINE reported(s) == {<<"update", s, n>> : n \in 1..u[s]}
           pushed(s) == {<<"text", s, n>> : n \in DOMAIN q[s]}
           R == UNION {reported(s) : s \in Servers}
           P == UNION {pushed(s) : s \in Servers}
           C == {<<"copy", t>> : t \in T}
<1>1. x \in R <=> \E s \in Servers : x \in reported(s)
  BY Zenon
<1>2. x \in P <=> \E s \in Servers : x \in pushed(s)
  BY Zenon
<1>3. x \in C <=> \E t \in T : x = <<"copy", t>>
  BY Zenon
<1>4. \A s : x \in reported(s) <=> \E n \in 1..u[s] : x = <<"update", s, n>>
  BY Zenon
<1>5. \A s : x \in pushed(s) <=> \E n \in DOMAIN q[s] : x = <<"text", s, n>>
  BY Zenon
<1>6. x \in R <=> \E s \in Servers : \E n \in 1..u[s] : x = <<"update", s, n>>
  <2> HIDE DEF R, reported
  <2> QED
    BY <1>1, <1>4
<1>7. x \in P <=> \E s \in Servers : \E n \in DOMAIN q[s] : x = <<"text", s, n>>
  <2> HIDE DEF P, pushed
  <2> QED
    BY <1>2, <1>5
<1> HIDE DEF R, P, C
<1>8. x \in R \cup P \cup C
         <=> \/ \E s \in Servers : \E n \in 1..u[s] : x = <<"update", s, n>>
             \/ \E s \in Servers : \E n \in DOMAIN q[s] : x = <<"text", s, n>>
             \/ \E t \in T : x = <<"copy", t>>
  BY <1>3, <1>6, <1>7
<1> QED
  BY <1>8, Zenon DEF Messages, R, P, C, reported, pushed

LEMMA UnderWayIs ==
  \A x : x \in UnderWay <=>
     \/ \E s \in Servers : \E n \in 1..updates[s] : x = <<"update", s, n>>
     \/ \E s \in Servers : \E n \in DOMAIN toServer[s] : x = <<"text", s, n>>
     \/ \E t \in Threads : threads[t] # Idle /\ x = <<"copy", t>>
<1>1. PICK u, q, T : u = updates /\ q = toServer /\ T = {t \in Threads : threads[t] # Idle}
  OBVIOUS
<1>2. UnderWay = Messages(u, q, T)
  BY <1>1 DEF UnderWay
<1>3. \A x : x \in Messages(u, q, T)
         <=> \/ \E s \in Servers : \E n \in 1..u[s] : x = <<"update", s, n>>
             \/ \E s \in Servers : \E n \in DOMAIN q[s] : x = <<"text", s, n>>
             \/ \E t \in T : x = <<"copy", t>>
  BY MessagesAre
<1>4. \A t : t \in T <=> t \in Threads /\ threads[t] # Idle
  BY <1>1
<1> QED
  BY <1>1, <1>2, <1>3, <1>4

\* The same, after a step.
LEMMA UnderWayNext ==
  \A x : x \in UnderWay' <=>
     \/ \E s \in Servers : \E n \in 1..updates'[s] : x = <<"update", s, n>>
     \/ \E s \in Servers : \E n \in DOMAIN toServer'[s] : x = <<"text", s, n>>
     \/ \E t \in Threads : threads'[t] # Idle /\ x = <<"copy", t>>
<1>1. PICK u, q, T : u = updates' /\ q = toServer' /\ T = {t \in Threads : threads'[t] # Idle}
  OBVIOUS
<1>2. UnderWay' = Messages(u, q, T)
  BY <1>1 DEF UnderWay, Messages, Idle
<1>3. \A x : x \in Messages(u, q, T)
         <=> \/ \E s \in Servers : \E n \in 1..u[s] : x = <<"update", s, n>>
             \/ \E s \in Servers : \E n \in DOMAIN q[s] : x = <<"text", s, n>>
             \/ \E t \in T : x = <<"copy", t>>
  BY MessagesAre
<1>4. \A t : t \in T <=> t \in Threads /\ threads'[t] # Idle
  BY <1>1
<1> QED
  BY <1>1, <1>2, <1>3, <1>4

\* The messages and threads of every kind, by number.
LEMMA Counts ==
  ASSUME TypeOK, TypeOK', NEW s \in Servers
  PROVE  /\ updates[s] \in Nat /\ updates'[s] \in Nat
         /\ Len(toServer[s]) \in Nat /\ Len(toServer'[s]) \in Nat
         /\ DOMAIN toServer[s] = 1..Len(toServer[s])
         /\ DOMAIN toServer'[s] = 1..Len(toServer'[s])
BY LenProperties DEF TypeOK

\* One message more of one kind.
LEMMA OneAdded ==
  ASSUME TypeOK, TypeOK', NEW y,
         \A s \in Servers : updates'[s] <= updates[s]
            \/ (updates'[s] = updates[s] + 1 /\ y = <<"update", s, updates[s] + 1>>),
         \A s \in Servers : Len(toServer'[s]) <= Len(toServer[s])
            \/ (Len(toServer'[s]) = Len(toServer[s]) + 1
                  /\ y = <<"text", s, Len(toServer[s]) + 1>>),
         \A t \in Threads : threads'[t] = Idle \/ threads[t] # Idle \/ y = <<"copy", t>>
  PROVE  UnderWay' \subseteq UnderWay \cup {y}
<1> SUFFICES ASSUME NEW x \in UnderWay' PROVE x \in UnderWay \cup {y}
  OBVIOUS
<1>1. ASSUME NEW s \in Servers, NEW n \in 1..updates'[s], x = <<"update", s, n>>
      PROVE  x \in UnderWay \cup {y}
  <2>1. n \in 1..updates[s] \/ (n = updates[s] + 1 /\ y = <<"update", s, updates[s] + 1>>)
    BY <1>1, Counts
  <2> QED
    BY <1>1, <2>1, UnderWayIs
<1>2. ASSUME NEW s \in Servers, NEW n \in DOMAIN toServer'[s], x = <<"text", s, n>>
      PROVE  x \in UnderWay \cup {y}
  <2>1. \/ n \in DOMAIN toServer[s]
        \/ (n = Len(toServer[s]) + 1 /\ y = <<"text", s, Len(toServer[s]) + 1>>)
    BY <1>2, Counts
  <2> QED
    BY <1>2, <2>1, UnderWayIs
<1>3. ASSUME NEW t \in Threads, threads'[t] # Idle, x = <<"copy", t>>
      PROVE  x \in UnderWay \cup {y}
  BY <1>3, UnderWayIs
<1> QED
  BY <1>1, <1>2, <1>3, UnderWayNext

\* One taken away for one that may have been added.
LEMMA Removed ==
  ASSUME TypeOK, TypeOK', NEW s \in Servers,
         NEW x \in {<<"update", s, updates[s]>>, <<"text", s, Len(toServer[s])>>},
         x = <<"update", s, updates[s]>> => updates'[s] < updates[s],
         x = <<"text", s, Len(toServer[s])>> => Len(toServer'[s]) < Len(toServer[s])
  PROVE  x \notin UnderWay'
<1>1. CASE x = <<"update", s, updates[s]>>
  <2>1. updates[s] \notin 1..updates'[s]
    BY <1>1, Counts
  <2> QED
    BY <1>1, <2>1, UnderWayNext
<1>2. CASE x = <<"text", s, Len(toServer[s])>>
  <2>1. Len(toServer[s]) \notin DOMAIN toServer'[s]
    BY <1>2, Counts
  <2> QED
    BY <1>2, <2>1, UnderWayNext
<1> QED
  BY <1>1, <1>2

\* Nothing more of any kind.
LEMMA NothingAdded ==
  ASSUME TypeOK, TypeOK',
         \A s \in Servers : updates'[s] <= updates[s] /\ Len(toServer'[s]) <= Len(toServer[s]),
         \A t \in Threads : threads'[t] = Idle \/ threads[t] # Idle
  PROVE  UnderWay' \subseteq UnderWay
<1> SUFFICES ASSUME NEW x \in UnderWay' PROVE x \in UnderWay
  OBVIOUS
<1>1. ASSUME NEW s \in Servers, NEW n \in 1..updates'[s] PROVE n \in 1..updates[s]
  BY Counts
<1>2. ASSUME NEW s \in Servers, NEW n \in DOMAIN toServer'[s] PROVE n \in DOMAIN toServer[s]
  BY Counts
<1> QED
  BY <1>1, <1>2, UnderWayIs, UnderWayNext

LEMMA DoneFinite ==
  IsFiniteSet(Done) /\ Cardinality(Done) \in Nat
<1>1. IsFiniteSet(Writes)
  BY ConstantsAssumption, FS_Interval DEF Writes
<1> QED
  BY <1>1, FS_Subset, FS_CardinalityType DEF Done

\* A write that is done stays done.
LEMMA DoneGrows ==
  ASSUME Types, [Next]_vars
  PROVE  Done \subseteq Done'
<1>0. TypeOK /\ "idle" \notin Servers /\ "done" \notin Servers
  BY ConstantsAssumption DEF Types
<1>1. \A w \in Writes : session[w] = "done" => session'[w] = "done"
  BY <1>0
     DEF TypeOK, Next, vars, clients, ServerStep, ReplicatorStep, Register, Seed, Resync,
         Crash, HeartbeatStep, Create, CreateReplica, Delete, DeleteUnregistered,
         RestartNamingServer, Route, Write, WriteFails, LoseUpdate, ServiceUpdate,
         PickSource, Fetch, Push, Apply
<1> QED
  BY <1>1 DEF Done

\* Without a wrong judgement, each write that is done keeps one thing going at most.
Traffic ==
    "misjudged" \notin faults =>
        IsFiniteSet(UnderWay) /\ Cardinality(UnderWay) <= Cardinality(Done)

\* A report is one update more, for a server that has a connection.
LEMMA ReportsOne ==
  ASSUME TypeOK, NEW s \in Servers, updates' = Reports(s)
  PROVE  \A r \in Servers : updates'[r] <= updates[r]
           \/ (updates'[r] = updates[r] + 1 /\ r = s)
BY DEF TypeOK, Reports

LEMMA NextTraffic ==
  Types /\ AliveWhenUp /\ Traffic /\ [Next]_vars => Traffic'
<1> SUFFICES ASSUME Types, AliveWhenUp, Traffic, [Next]_vars, "misjudged" \notin faults'
             PROVE  IsFiniteSet(UnderWay') /\ Cardinality(UnderWay') <= Cardinality(Done')
  BY DEF Traffic
<1> DEFINE Goal == IsFiniteSet(UnderWay') /\ Cardinality(UnderWay') <= Cardinality(Done')
<1>0. TypeOK /\ TypeOK' /\ "misjudged" \notin faults
  BY NextTypes, FaultsGrow DEF Types
<1>1. IsFiniteSet(UnderWay) /\ Cardinality(UnderWay) <= Cardinality(Done)
  BY <1>0 DEF Traffic
<1>2. /\ IsFiniteSet(Done) /\ Cardinality(Done) \in Nat
      /\ IsFiniteSet(Done') /\ Cardinality(Done') \in Nat
      /\ Cardinality(Done) <= Cardinality(Done') /\ Cardinality(UnderWay) \in Nat
  <2>1. IsFiniteSet(Done')
    <3>1. IsFiniteSet(Writes)
      BY ConstantsAssumption, FS_Interval DEF Writes
    <3>2. Done' \subseteq Writes
      BY DEF Done
    <3> QED
      BY <3>1, <3>2, FS_Subset
  <2> QED
    BY <1>1, <2>1, DoneFinite, DoneGrows, NoMore, FS_CardinalityType
<1>3. ASSUME UnderWay' \subseteq UnderWay PROVE Goal
  <2>1. IsFiniteSet(UnderWay') /\ Cardinality(UnderWay') <= Cardinality(UnderWay)
    BY <1>1, <1>3, NoMore
  <2> QED
    BY <1>1, <1>2, <2>1, FS_CardinalityType
<1>4. ASSUME NEW x \in UnderWay, NEW y, UnderWay' \subseteq UnderWay \cup {y}, x \notin UnderWay'
      PROVE  Goal
  <2>1. UnderWay' \subseteq (UnderWay \ {x}) \cup {y}
    BY <1>4
  <2>2. IsFiniteSet(UnderWay') /\ Cardinality(UnderWay') <= Cardinality(UnderWay)
    BY <1>1, <2>1, Exchanged
  <2> QED
    BY <1>1, <1>2, <2>2, FS_CardinalityType
<1>5. ASSUME \A s \in Servers : /\ updates'[s] <= updates[s]
                                /\ Len(toServer'[s]) <= Len(toServer[s]),
             \A t \in Threads : threads'[t] = Idle \/ threads[t] # Idle
      PROVE  Goal
  BY <1>0, <1>3, <1>5, NothingAdded
<1>6. ASSUME UNCHANGED <<updates, toServer, threads>> PROVE Goal
  BY <1>0, <1>5, <1>6, Counts
<1>7. ASSUME NEW s \in Servers, Resync(s) PROVE Goal
  <2>1. s \in up => ResyncText(s) = <<>>
    BY <1>0, <1>7, NoResync DEF Resync
  <2>2. \A r \in Servers : toServer[r] \in Seq(Texts) /\ toServer[r] \o <<>> = toServer[r]
    BY <1>0 DEF TypeOK
  <2>3. toServer' = toServer
    BY <1>0, <1>7, <2>1, <2>2 DEF Resync, TypeOK
  <2> QED
    BY <1>6, <1>7, <2>3 DEF Resync
<1>8. ASSUME NEW s \in Servers, Crash(s) PROVE Goal
  <2>1. \A r \in Servers : toServer'[r] = <<>> \/ toServer'[r] = toServer[r]
    BY <1>0, <1>8 DEF Crash, TypeOK
  <2>2. UNCHANGED <<updates, threads>> /\ Len(<<>>) = 0
    BY <1>8 DEF Crash, naming
  <2> QED
    BY <1>0, <1>5, <2>1, <2>2, Counts
<1>9. ASSUME RestartNamingServer PROVE Goal
  <2>1. \A s \in Servers : updates'[s] = 0
    BY <1>9 DEF RestartNamingServer
  <2>2. (\A t \in Threads : threads'[t] = Idle) /\ UNCHANGED toServer
    BY <1>9 DEF RestartNamingServer
  <2> QED
    BY <1>0, <1>5, <2>1, <2>2, Counts
<1>10. ASSUME NEW w \in Writes, Write(w) PROVE Goal
  <2>1. PICK s \in Servers : s = session[w]
    BY <1>0, <1>10 DEF Write, TypeOK
  <2>2. PICK y : y = <<"update", s, updates[s] + 1>>
    OBVIOUS
  <2>3. UnderWay' \subseteq UnderWay \cup {y}
    <3>1. updates' = Reports(s) /\ UNCHANGED <<toServer, threads>>
      BY <1>10, <2>1 DEF Write, naming
    <3>2. \A r \in Servers : updates'[r] <= updates[r]
            \/ (updates'[r] = updates[r] + 1 /\ y = <<"update", r, updates[r] + 1>>)
      BY <1>0, <2>2, <3>1, ReportsOne
    <3>3. \A r \in Servers : Len(toServer'[r]) <= Len(toServer[r])
      BY <1>0, <3>1, Counts
    <3> QED
      BY <1>0, <3>1, <3>2, <3>3, OneAdded
  <2>4. IsFiniteSet(UnderWay') /\ Cardinality(UnderWay') <= Cardinality(UnderWay) + 1
    BY <1>1, <2>3, OneMore
  <2>5. Cardinality(Done') = Cardinality(Done) + 1
    <3>1. session' = [session EXCEPT ![w] = "done"] /\ session[w] # "done"
      BY <1>10, <2>1, ConstantsAssumption DEF Write
    <3>2. Done' = Done \cup {w} /\ w \notin Done
      BY <1>0, <3>1 DEF Done, TypeOK
    <3> QED
      BY <1>2, <3>2, FS_AddElement
  <2> QED
    BY <1>1, <1>2, <2>4, <2>5, FS_CardinalityType
<1>11. ASSUME NEW s \in Servers, LoseUpdate(s) PROVE Goal
  <2>1. (\A r \in Servers : updates'[r] <= updates[r]) /\ UNCHANGED <<toServer, threads>>
    BY <1>0, <1>11 DEF LoseUpdate, naming, TypeOK
  <2> QED
    BY <1>0, <1>5, <2>1, Counts
<1>12. ASSUME NEW s \in Servers, ServiceUpdate(s) PROVE Goal
  <2>1. PICK x : x = <<"update", s, updates[s]>>
    OBVIOUS
  <2>2. PICK t \in Threads : threads' = [threads EXCEPT ![t] = [step |-> "started"]]
    BY <1>12 DEF ServiceUpdate
  <2>3. /\ updates[s] \in Nat /\ updates[s] > 0 /\ updates' = [updates EXCEPT ![s] = @ - 1]
        /\ UNCHANGED toServer
    BY <1>0, <1>12 DEF ServiceUpdate, TypeOK
  <2>4. x \in UnderWay
    BY <2>1, <2>3, UnderWayIs
  <2>5. x \notin UnderWay'
    <3>1. updates'[s] < updates[s]
      BY <1>0, <2>3 DEF TypeOK
    <3>2. x # <<"text", s, Len(toServer[s])>>
      BY <2>1
    <3> QED
      BY <1>0, <2>1, <3>1, <3>2, Removed
  <2>6. UnderWay' \subseteq UnderWay \cup {<<"copy", t>>}
    <3>1. \A r \in Servers : updates'[r] <= updates[r] /\ Len(toServer'[r]) <= Len(toServer[r])
      BY <1>0, <2>3, Counts, SMTT(30) DEF TypeOK
    <3>2. \A i \in Threads : threads'[i] = threads[i] \/ i = t
      BY <1>0, <2>2 DEF TypeOK
    <3> QED
      BY <1>0, <3>1, <3>2, OneAdded
  <2> QED
    BY <1>4, <2>4, <2>5, <2>6
<1>13. ASSUME NEW t \in Threads, PickSource(t) \/ Fetch(t) PROVE Goal
  <2>1. threads[t] # Idle /\ UNCHANGED <<updates, toServer>>
    BY <1>13 DEF PickSource, Fetch, Idle, servers
  <2>2. \A i \in Threads : threads'[i] = threads[i] \/ i = t
    BY <1>0, <1>13 DEF PickSource, Fetch, Goes, TypeOK
  <2> QED
    BY <1>0, <1>5, <2>1, <2>2, Counts
<1>14. ASSUME NEW t \in Threads, Push(t) PROVE Goal
  <2>1. /\ threads[t] # Idle /\ threads'[t] = Idle /\ UNCHANGED updates
        /\ \A i \in Threads : threads'[i] = threads[i] \/ i = t
    BY <1>0, <1>14 DEF Push, Goes, Idle, TypeOK
  <2>2. CASE UNCHANGED toServer
    BY <1>0, <1>5, <2>1, <2>2, Counts
  <2>3. CASE ~UNCHANGED toServer
    <3>1. PICK s \in Servers : toServer' = [toServer EXCEPT ![s] = Append(@, threads[t].text)]
      BY <1>0, <1>14, <2>3, IdRange DEF Push, Alive
    <3>2. PICK y : y = <<"text", s, Len(toServer[s]) + 1>>
      OBVIOUS
    <3>3. Len(toServer'[s]) = Len(toServer[s]) + 1
      <4>1. toServer[s] \in Seq(Texts) /\ toServer'[s] = Append(toServer[s], threads[t].text)
        BY <1>0, <3>1 DEF TypeOK
      <4>2. Append(toServer[s], threads[t].text) \in Seq(Texts)
        BY <1>0, <4>1 DEF TypeOK
      <4> QED
        BY <4>1, <4>2
    <3>4. \A r \in Servers : r # s => toServer'[r] = toServer[r]
      BY <1>0, <3>1 DEF TypeOK
    <3>5. UnderWay' \subseteq UnderWay \cup {y}
      <4>1. \A r \in Servers : Len(toServer'[r]) <= Len(toServer[r])
              \/ (Len(toServer'[r]) = Len(toServer[r]) + 1
                    /\ y = <<"text", r, Len(toServer[r]) + 1>>)
        BY <1>0, <3>2, <3>3, <3>4, Counts
      <4>2. \A r \in Servers : updates'[r] <= updates[r]
        BY <1>0, <2>1, Counts
      <4> QED
        BY <1>0, <2>1, <4>1, <4>2, OneAdded
    <3>6. <<"copy", t>> \in UnderWay /\ <<"copy", t>> \notin UnderWay'
      BY <2>1, UnderWayIs, UnderWayNext
    <3> QED
      BY <1>4, <3>5, <3>6
  <2> QED
    BY <2>2, <2>3
<1>15. ASSUME NEW s \in Servers, Apply(s) PROVE Goal
  <2>1. PICK x, y : x = <<"text", s, Len(toServer[s])>> /\ y = <<"update", s, updates[s] + 1>>
    OBVIOUS
  <2>2. /\ toServer[s] # <<>> /\ toServer' = [toServer EXCEPT ![s] = Tail(@)]
        /\ updates' = Reports(s) /\ UNCHANGED threads
    BY <1>15 DEF Apply, naming
  <2>3. Len(toServer[s]) > 0 /\ Len(toServer'[s]) = Len(toServer[s]) - 1
    <3>1. toServer[s] \in Seq(Texts) /\ toServer'[s] = Tail(toServer[s])
      BY <1>0, <2>2 DEF TypeOK
    <3>2. PICK q : q = toServer[s]
      OBVIOUS
    <3>3. q \in Seq(Texts) /\ q # <<>>
      BY <2>2, <3>1, <3>2
    <3>4. Len(q) > 0 /\ Len(Tail(q)) = Len(q) - 1
      BY <3>3
    <3> QED
      BY <3>1, <3>2, <3>4
  <2>4. x \in UnderWay
    <3>1. Len(toServer[s]) \in DOMAIN toServer[s]
      BY <1>0, <2>3, Counts
    <3> QED
      BY <2>1, <3>1, UnderWayIs
  <2>5. x \notin UnderWay'
    <3>1. Len(toServer'[s]) < Len(toServer[s])
      BY <1>0, <2>3, Counts
    <3>2. x # <<"update", s, updates[s]>>
      BY <2>1
    <3> QED
      BY <1>0, <2>1, <3>1, <3>2, Removed
  <2>6. UnderWay' \subseteq UnderWay \cup {y}
    <3>1. \A r \in Servers : updates'[r] <= updates[r]
            \/ (updates'[r] = updates[r] + 1 /\ y = <<"update", r, updates[r] + 1>>)
      BY <1>0, <2>1, <2>2, ReportsOne
    <3>2. \A r \in Servers : r # s => toServer'[r] = toServer[r]
      BY <1>0, <2>2 DEF TypeOK
    <3>3. \A r \in Servers : Len(toServer'[r]) <= Len(toServer[r])
      BY <1>0, <2>3, <3>2, Counts
    <3> QED
      BY <1>0, <2>2, <3>1, <3>3, OneAdded
  <2> QED
    BY <1>4, <2>4, <2>5, <2>6
<1> HIDE DEF Goal
<1>16. Goal
  BY <1>6, <1>7, <1>8, <1>9, <1>10, <1>11, <1>12, <1>13, <1>14, <1>15
     DEF Next, vars, servers, naming, ServerStep, ReplicatorStep, Register, Seed,
         HeartbeatStep, Create, CreateReplica, Delete, DeleteUnregistered, Route, WriteFails
<1> QED
  BY <1>16 DEF Goal

-----------------------------------------------------------------------------
(* The invariant of the specification.                                      *)

\* Durable and Traffic need to know who counts as alive; RoutesHold needs to know
\* what a server that registers has.
IInv == Types /\ AliveWhenUp /\ SeedingHolds /\ RoutesHold /\ Durable /\ Traffic

LEMMA InitTraffic == Init => Traffic
<1> SUFFICES ASSUME Init PROVE IsFiniteSet(UnderWay) /\ Cardinality(UnderWay) <= Cardinality(Done)
  BY DEF Traffic
<1>1. \A s \in Servers : updates[s] = 0 /\ toServer[s] = <<>>
  BY DEF Init
<1>2. \A t \in Threads : threads[t] = Idle
  BY DEF Init
<1>3. \A s \in Servers : 1..updates[s] = {} /\ DOMAIN toServer[s] = {}
  BY <1>1
<1>4. \A x : x \notin UnderWay
  BY <1>2, <1>3, UnderWayIs
<1>5. UnderWay = {}
  BY <1>4
<1> QED
  BY <1>5, DoneFinite, FS_EmptySet

LEMMA InitDurable == Init => DurableParts
<1> SUFFICES ASSUME Init PROVE DurableParts
  OBVIOUS
<1>1. Ids = {} /\ primary = NoId /\ creating = NoId /\ replica = NoId /\ accepted = {}
  BY DEF Init, Ids
<1>2. \A w \in Writes : session[w] \notin Servers
  BY ConstantsAssumption DEF Init
<1>3. \A s \in Servers : toServer[s] = <<>> /\ ~Holds(s) /\ service[s] # "seeding"
  BY DEF Init, Holds
<1> QED
  BY <1>1, <1>2, <1>3
     DEF DurableParts, DownEmpty, NoneDown, Roles, PrimaryUnpushed, SessionsUnpushed,
         WritesUnpushed, PrimaryHasAll, Undisturbed

LEMMA InitInvariant == Init => IInv
<1> SUFFICES ASSUME Init PROVE IInv
  OBVIOUS
<1>1. Types
  BY InitTypes, InitServices DEF Types
<1>2. AliveWhenUp
  BY DEF Init, AliveWhenUp, Ids
<1>3. SeedingHolds /\ RoutesHold
  BY DEF Init, SeedingHolds, RoutesHold
<1>4. Durable /\ Traffic
  BY InitDurable, InitTraffic DEF Durable
<1> QED
  BY <1>1, <1>2, <1>3, <1>4 DEF IInv

LEMMA NextDurable == Types /\ AliveWhenUp /\ Durable /\ [Next]_vars => Durable'
<1> SUFFICES ASSUME Types, AliveWhenUp, Durable, [Next]_vars,
                    faults' \subseteq {"unanswered", "lost", "restart"}
             PROVE  DurableParts'
  BY DEF Durable, Despite
<1>1. Before
  BY FaultsGrow DEF Before, Durable, Despite
<1>2. DownEmpty'
  BY <1>1, BeforeFacts, NextDownEmpty DEF Before
<1>3. NoneDown' /\ Roles'
  BY <1>1, NextNoneDown, NextRoles
<1>4. PrimaryUnpushed' /\ SessionsUnpushed'
  BY <1>1, NextPrimaryUnpushed, NextSessionsUnpushed
<1>5. WritesUnpushed' /\ PrimaryHasAll'
  BY <1>1, NextWritesUnpushed, NextPrimaryHasAll
<1> QED
  BY <1>2, <1>3, <1>4, <1>5 DEF DurableParts

LEMMA NextInvariant == IInv /\ [Next]_vars => IInv'
<1> SUFFICES ASSUME IInv, [Next]_vars PROVE IInv'
  OBVIOUS
<1>1. Types' /\ AliveWhenUp'
  BY NextTypes, NextAlive DEF IInv
<1>2. SeedingHolds' /\ RoutesHold'
  BY NextSeeding, NextRoutes DEF IInv
<1>3. Durable' /\ Traffic'
  BY NextDurable, NextTraffic DEF IInv
<1> QED
  BY <1>1, <1>2, <1>3 DEF IInv

\* Every reachable state satisfies the invariant.
THEOREM Invariant == Spec => []IInv
<1>1. Init => IInv
  BY InitInvariant
<1>2. IInv /\ [Next]_vars => IInv'
  BY NextInvariant
<1> QED
  BY <1>1, <1>2, PTL DEF Spec

-----------------------------------------------------------------------------
(* What the runs check.                                                     *)

\* Every variable has its type, and a server has one id (registry_add_or_get).
THEOREM TypesKept == Spec => []TypeOK
<1>1. IInv => TypeOK
  BY DEF IInv, Types
<1> QED
  BY <1>1, Invariant, PTL

\* While the heartbeat, crashes and lost updates are all that goes wrong, a client
\* that asks for the file's server is sent to one that has it.
THEOREM Routes == Spec => []RoutedToHolder
<1>1. IInv => RoutedToHolder
  <2> SUFFICES ASSUME IInv, primary \in Ids, Despite({"misjudged", "lost", "crash"})
               PROVE  Holds(registry[Routed].server)
    BY DEF RoutedToHolder
  <2>1. primary # NoId
    BY IdRange DEF IInv, Types
  <2>2. Routed = primary \/ (replica # NoId /\ Routed = replica)
    BY DEF Routed, PickAlive
  <2>3. HeldAt(primary) /\ (replica # NoId => HeldAt(replica))
    BY <2>1 DEF IInv, RoutesHold
  <2> QED
    BY <2>2, <2>3 DEF HeldAt
<1> QED
  BY <1>1, Invariant, PTL

\* The primary has every acknowledged write of the file, despite answers and
\* updates that get lost: no push replaces its text, and nobody writes elsewhere.
THEOREM Complete == Spec => []PrimaryComplete
<1>1. IInv => PrimaryComplete
  <2> SUFFICES ASSUME IInv, primary \in Ids, faults \subseteq {"unanswered", "lost"}
               PROVE  Has(registry[primary].server, accepted)
    BY DEF PrimaryComplete, Despite
  <2>1. PrimaryHasAll
    BY DEF IInv, Durable, Despite, DurableParts
  <2>2. primary # NoId
    BY IdRange DEF IInv, Types
  <2> QED
    BY <2>1, <2>2 DEF PrimaryHasAll, Undisturbed
<1> QED
  BY <1>1, Invariant, PTL

\* Some server has each acknowledged write, even when the naming server starts
\* again with an empty registry and sends clients to a server without the file.
THEOREM NothingLost == Spec => []NoWriteLost
<1>1. IInv => NoWriteLost
  <2>1. Durable => NoWriteLost
    BY DEF Durable, DurableParts, WritesUnpushed, NoWriteLost
  <2> QED
    BY <2>1 DEF IInv
<1> QED
  BY <1>1, Invariant, PTL

\* The texts, reports and copies that go round are never more than the writes that
\* clients have tried, unless the heartbeat misjudges a server.
THEOREM Bounded == Spec => []TrafficBounded
<1>1. IInv => TrafficBounded
  BY DEF IInv, Traffic, TrafficBounded
<1> QED
  BY <1>1, Invariant, PTL
=============================================================================
