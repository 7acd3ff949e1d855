---------------------------- MODULE Replication ----------------------------
(***************************************************************************)
(* One file that the naming server keeps on a primary and on a replica:    *)
(* its creation, routing to whichever server counts as alive, the thread   *)
(* that copies a text to the replica after every UPDATE_METADATA, the      *)
(* resynchronisation of a server that registers, and what crashes,         *)
(* restarts and wrong judgements of the heartbeat do to all that.          *)
(*                                                                         *)
(* A text is the set of the writes that it contains: a commit merges into  *)
(* the text it finds, a push replaces the whole of it.  A server has an id *)
(* in the order in which it first registered with the running naming       *)
(* server; the metadata on disk keep that id.  What ControlLink shows of   *)
(* the connection appears here as faults: an answer that never comes, an   *)
(* update that another thread takes, a server judged dead that runs.       *)
(***************************************************************************)
EXTENDS Naturals, Sequences, FiniteSets

CONSTANTS
    Servers,    \* storage servers
    MaxWrites,  \* WRITE requests of clients
    MaxThreads, \* replicate threads at a time
    NoFile,     \* the server does not have the file
    MaxFaults   \* faults in a behaviour

ASSUME ConstantsAssumption ==
    /\ MaxWrites \in Nat /\ MaxThreads \in Nat /\ MaxFaults \in Nat
    /\ {"idle", "done"} \cap Servers = {}

\* Writes and threads are interchangeable: they are used in the order of their
\* numbers.
Writes == 1..MaxWrites
Threads == 1..MaxThreads
NoId == 0     \* -1 in the code, whose ids begin with 0
Texts == SUBSET Writes
ASSUME NoFileAssumption == \A t \in Texts : t # NoFile
Faults == {"unanswered", "misjudged", "lost", "crash", "restart", "deleted"}

VARIABLES
    up,        \* the storage servers that run
    text,      \* what each has of the file
    toServer,  \* texts pushed to it and not yet written
    updates,   \* its UPDATE_METADATA messages that are under way
    registry,  \* ss_registry: who has which id, and is_alive
    service,   \* the naming server's thread for each server
    primary,   \* ss_id in the metadata, or NoId: the name does not exist
    replica,   \* the entry of the replica table, or NoId: there is none
    creating,  \* the primary of a CREATE that has still to make a replica
    threads,   \* the replicate threads
    session,   \* per write: idle, the server it was sent to, or done
    accepted,  \* history: the writes acknowledged since the file was made
    faults,    \* history: the kinds of fault that have happened
    nfaults    \* history: their number

servers == <<up, text, toServer, updates>>
naming == <<registry, service, primary, replica, creating, threads>>
clients == <<session, accepted>>
history == <<faults, nfaults>>
vars == <<servers, naming, clients, history>>

Idle == [step |-> "idle"]

Init ==
    /\ up = {} /\ text = [s \in Servers |-> NoFile]
    /\ toServer = [s \in Servers |-> <<>>] /\ updates = [s \in Servers |-> 0]
    /\ registry = <<>> /\ service = [s \in Servers |-> "serving"]
    /\ primary = NoId /\ replica = NoId /\ creating = NoId
    /\ threads = [t \in Threads |-> Idle]
    /\ session = [w \in Writes |-> "idle"] /\ accepted = {}
    /\ faults = {} /\ nfaults = 0

Fault(kind) ==
    nfaults < MaxFaults /\ nfaults' = nfaults + 1 /\ faults' = faults \cup {kind}

Holds(s) == text[s] # NoFile
Ids == DOMAIN registry
Alive(id) == id \in Ids /\ registry[id].alive
Linked(s) == s \in up /\ \E id \in Ids : registry[id].server = s
IdOf(s) == CHOOSE id \in Ids : registry[id].server = s
Reports(s) == IF Linked(s) THEN [updates EXCEPT ![s] = @ + 1] ELSE updates

\* Mutant of PickAlive: the replica is asked first.
PickReplicaFirst(id) ==
    CASE replica # NoId /\ Alive(replica) -> replica
      [] Alive(id) -> id
      [] OTHER -> NoId
\* replicas_pick_alive_for_access
PickAlive(id) ==
    CASE Alive(id) -> id
      [] ~Alive(id) /\ replica # NoId /\ Alive(replica) -> replica
      [] OTHER -> NoId

-----------------------------------------------------------------------------
(* Storage servers come, go and are judged.                                 *)

Registered(s) ==
    IF \E id \in Ids : registry[id].server = s
    THEN [registry EXCEPT ![IdOf(s)].alive = TRUE]
    ELSE Append(registry, [server |-> s, alive |-> TRUE])

\* A storage server starts and registers.  One that has been known under its
\* address keeps its id.  It says at once whether it has the file.
Register(s) ==
    /\ s \notin up /\ up' = up \cup {s} /\ registry' = Registered(s)
    /\ service' = [service EXCEPT ![s] = IF Holds(s) THEN "seeding" ELSE "syncing"]
    /\ UNCHANGED <<text, toServer, updates, primary, replica, creating, threads,
                   clients, history>>

\* A file of that name that the naming server does not know becomes a new one.
Seed(s) ==
    /\ service[s] = "seeding" /\ service' = [service EXCEPT ![s] = "syncing"]
    /\ primary' = IF primary = NoId THEN IdOf(s) ELSE primary
    /\ UNCHANGED <<servers, registry, replica, creating, threads, clients, history>>

\* The text of the live replica goes to the primary that registers; an empty
\* one does not.
ResyncText(s) ==
    LET id == IdOf(s)
        from == PickAlive(id)
    IN  IF /\ primary = id /\ from \notin {NoId, id}
           /\ registry[from].server \in up
           /\ text[registry[from].server] \notin {NoFile, {}}
        THEN <<text[registry[from].server]>> ELSE <<>>

Resync(s) ==
    /\ service[s] = "syncing" /\ service' = [service EXCEPT ![s] = "serving"]
    /\ toServer' = [toServer EXCEPT ![s] = IF s \in up THEN @ \o ResyncText(s) ELSE @]
    /\ UNCHANGED <<up, text, updates, registry, primary, replica, creating, threads,
                   clients, history>>

Crash(s) ==
    /\ s \in up /\ Fault("crash")
    /\ up' = up \ {s} /\ toServer' = [toServer EXCEPT ![s] = <<>>]
    /\ UNCHANGED <<text, updates, naming, clients>>

\* The heartbeat finds out who runs; or it misses the answer of one that does.
Judge(id) ==
    \/ /\ registry' = [registry EXCEPT ![id].alive = registry[id].server \in up]
       /\ UNCHANGED history
    \/ /\ Alive(id) /\ registry[id].server \in up /\ Fault("misjudged")
       /\ registry' = [registry EXCEPT ![id].alive = FALSE]

HeartbeatStep ==
    /\ \E id \in Ids : Judge(id)
    /\ UNCHANGED <<servers, service, primary, replica, creating, threads, clients>>

\* The naming server starts again with what is on its disk: the metadata, and
\* nothing of its registry and replica table.  Storage servers go on serving
\* clients; they register again when they start again.
RestartNamingServer ==
    /\ registry' = <<>> /\ service' = [s \in Servers |-> "serving"]
    /\ replica' = NoId /\ creating' = NoId /\ threads' = [t \in Threads |-> Idle]
    /\ updates' = [s \in Servers |-> 0]
    /\ UNCHANGED <<up, text, toServer, primary, clients>>

-----------------------------------------------------------------------------
(* CREATE and DELETE.                                                       *)

\* A command is read after whatever was sent before.
Reached(s) == s \in up => toServer[s] = <<>>
MakeFile(s) ==
    text' = [text EXCEPT ![s] = IF s \in up /\ ~Holds(s) THEN {} ELSE @]

\* Servers take turns, dead or alive.  With its answer lost, or none given, the
\* handler reads error_code of an uninitialised message.
Create(id) ==
    LET s == registry[id].server
    IN  /\ primary = NoId /\ creating = NoId /\ Reached(s)
        /\ \/ /\ s \in up /\ ~Holds(s) /\ UNCHANGED history
              /\ primary' = id /\ creating' = id
           \/ /\ Fault("unanswered")
              /\ \/ primary' = id /\ creating' = id
                 \/ UNCHANGED <<primary, creating>>
        /\ MakeFile(s) /\ accepted' = {}
        /\ UNCHANGED <<up, toServer, updates, registry, service, replica, threads, session>>

\* replicas_pick_alternate: the first other one that is alive, or the first.
Alternate(id) ==
    LET others == Ids \ {id}
        live == {i \in others : Alive(i)}
        First(ids) == CHOOSE i \in ids : \A j \in ids : i <= j
    IN  CASE live # {} -> First(live)
          [] live = {} /\ others # {} -> First(others)
          [] OTHER -> NoId

\* Mutant of CreateReplica: nobody waits for the answer.
CreateReplicaUnasked ==
    LET id == Alternate(creating)
        s == registry[id].server
    IN  /\ creating # NoId /\ creating' = NoId
        /\ \/ id = NoId /\ UNCHANGED <<text, replica>>
           \/ id # NoId /\ MakeFile(s) /\ replica' = id
        /\ UNCHANGED <<up, toServer, updates, registry, service, primary, threads, clients,
                       history>>
\* replicas_set: the file's one entry, made or overwritten.
EnterReplica(id) == replica' = id

\* The client has its answer already.  A server that has the file refuses; with
\* no answer the handler looks at the type of an uninitialised message.
CreateReplica ==
    LET id == Alternate(creating)
        s == registry[id].server
    IN  /\ creating # NoId /\ creating' = NoId
        /\ \/ id = NoId /\ UNCHANGED <<text, replica, history>>
           \/ /\ id # NoId /\ s \in up /\ Reached(s) /\ MakeFile(s)
              /\ IF Holds(s) THEN UNCHANGED replica ELSE EnterReplica(id)
              /\ UNCHANGED history
           \/ /\ id # NoId /\ Fault("unanswered") /\ Reached(s) /\ MakeFile(s)
              /\ EnterReplica(id) \/ UNCHANGED replica
        /\ UNCHANGED <<up, toServer, updates, registry, service, primary, threads, clients>>

\* Only the primary's copy goes; the replica's stays, and its entry in the table.
Delete ==
    LET s == registry[primary].server
    IN  /\ primary \in Ids /\ Reached(s) /\ Fault("deleted")
        /\ \/ s \in up /\ Holds(s) /\ primary' = NoId /\ accepted' = {}
           \/ s \notin up /\ primary' = NoId /\ accepted' = {}
           \/ s \notin up /\ UNCHANGED <<primary, accepted>>
        /\ text' = [text EXCEPT ![s] = IF s \in up THEN NoFile ELSE @]
        /\ UNCHANGED <<up, toServer, updates, registry, service, replica, creating,
                       threads, session>>

\* A DELETE for a server that has not registered yet follows a null pointer.
DeleteUnregistered ==
    /\ primary # NoId /\ primary \notin Ids /\ RestartNamingServer
    /\ Fault("restart")

-----------------------------------------------------------------------------
(* Writes.                                                                  *)

\* The live primary or replica, or the primary all the same.
Routed == IF PickAlive(primary) # NoId THEN PickAlive(primary) ELSE primary

Route(w) ==
    /\ session[w] = "idle" /\ (w > 1 => session[w - 1] # "idle")
    /\ primary # NoId /\ Routed \in Ids
    /\ session' = [session EXCEPT ![w] = registry[Routed].server]
    /\ UNCHANGED <<servers, naming, accepted, history>>

\* The client commits at the server it was sent to, whatever has happened since;
\* a file that is not there is made.
Write(w) ==
    LET s == session[w]
    IN  /\ s \in up /\ session' = [session EXCEPT ![w] = "done"]
        /\ text' = [text EXCEPT ![s] = IF Holds(s) THEN @ \cup {w} ELSE {w}]
        /\ updates' = Reports(s) /\ accepted' = accepted \cup {w}
        /\ UNCHANGED <<up, toServer, naming, history>>

\* The client cannot connect.
WriteFails(w) ==
    /\ session[w] \in Servers \ up /\ session' = [session EXCEPT ![w] = "done"]
    /\ UNCHANGED <<servers, naming, accepted, history>>

-----------------------------------------------------------------------------
(* Replication.                                                             *)

\* Another thread takes an update from the shared connection.
LoseUpdate(s) ==
    /\ updates[s] > 0 /\ Fault("lost")
    /\ updates' = [updates EXCEPT ![s] = @ - 1]
    /\ UNCHANGED <<up, text, toServer, naming, clients>>

ServiceUpdate(s) ==
    /\ updates[s] > 0 /\ service[s] = "serving"
    /\ updates' = [updates EXCEPT ![s] = @ - 1]
    /\ \E t \in Threads :
        /\ threads[t] = Idle /\ \A i \in 1..(t - 1) : threads[i] # Idle
        /\ threads' = [threads EXCEPT ![t] = [step |-> "started"]]
    /\ UNCHANGED <<up, text, toServer, registry, service, primary, replica, creating,
                   clients, history>>

Goes(t, to) == threads' = [threads EXCEPT ![t] = to]

PickSource(t) ==
    /\ threads[t].step = "started"
    /\ Goes(t, IF primary = NoId THEN Idle
               ELSE [step |-> "picked", src |-> PickAlive(primary), from |-> Routed])
    /\ UNCHANGED <<servers, registry, service, primary, replica, creating, clients, history>>

Fetch(t) ==
    /\ threads[t].step = "picked"
    /\ LET id == threads[t].from
           s == registry[id].server
       IN  Goes(t, IF id \in Ids /\ s \in up /\ Holds(s)
                   THEN [step |-> "fetched", src |-> threads[t].src, text |-> text[s]]
                   ELSE Idle)
    /\ UNCHANGED <<servers, registry, service, primary, replica, creating, clients, history>>

\* Mutant of Push: the text goes to every server that is alive.
PushEverywhere(t) ==
    /\ threads[t].step = "fetched" /\ Goes(t, Idle)
    /\ toServer' = [s \in Servers |->
        IF s \in up /\ Alive(IdOf(s)) THEN Append(toServer[s], threads[t].text)
                                    ELSE toServer[s]]
    /\ UNCHANGED <<up, text, updates, registry, service, primary, replica, creating,
                   clients, history>>
\* Nobody acknowledges a push.
Push(t) ==
    /\ threads[t].step = "fetched" /\ Goes(t, Idle)
    /\ toServer' =
        IF /\ replica # NoId /\ replica # threads[t].src /\ Alive(replica)
           /\ registry[replica].server \in up
        THEN [toServer EXCEPT ![registry[replica].server] = Append(@, threads[t].text)]
        ELSE toServer
    /\ UNCHANGED <<up, text, updates, registry, service, primary, replica, creating,
                   clients, history>>

\* Mutant of Apply: the server does not report the text it was pushed.
ApplySilently(s) ==
    /\ toServer[s] # <<>> /\ s \in up
    /\ text' = [text EXCEPT ![s] = Head(toServer[s])]
    /\ toServer' = [toServer EXCEPT ![s] = Tail(@)]
    /\ UNCHANGED <<up, updates, naming, clients, history>>
\* The server writes the text and reports it as if a client had written it.
Apply(s) ==
    /\ toServer[s] # <<>> /\ s \in up
    /\ text' = [text EXCEPT ![s] = Head(toServer[s])]
    /\ toServer' = [toServer EXCEPT ![s] = Tail(@)] /\ updates' = Reports(s)
    /\ UNCHANGED <<up, naming, clients, history>>

-----------------------------------------------------------------------------
ReplicatorStep == \E t \in Threads : PickSource(t) \/ Fetch(t) \/ Push(t)
ServerStep(s) == Apply(s) \/ ServiceUpdate(s) \/ Seed(s) \/ Resync(s)

Next ==
    \/ \E s \in Servers : Register(s) \/ Crash(s) \/ LoseUpdate(s) \/ ServerStep(s)
    \/ HeartbeatStep \/ ReplicatorStep
    \/ RestartNamingServer /\ Fault("restart")
    \/ \E id \in Ids : Create(id)
    \/ CreateReplica \/ Delete \/ DeleteUnregistered
    \/ \E w \in Writes : Route(w) \/ Write(w) \/ WriteFails(w)

\* The threads of the naming server and the message loops are scheduled.
Fairness ==
    /\ \A s \in Servers : WF_vars(Apply(s)) /\ WF_vars(ServiceUpdate(s))
                             /\ WF_vars(Seed(s)) /\ WF_vars(Resync(s))
    /\ \A t \in Threads : /\ WF_vars(PickSource(t)) /\ WF_vars(Fetch(t))
                           /\ WF_vars(Push(t))

Spec == Init /\ [][Next]_vars
FairSpec == Spec /\ Fairness

-----------------------------------------------------------------------------
(* Properties.                                                              *)


ThreadStates ==
    {Idle, [step |-> "started"]}
        \cup [step : {"picked"}, src : Nat, from : Nat \ {NoId}]
        \cup [step : {"fetched"}, src : Nat, text : Texts]

\* Types, and one id per server.
TypeOK ==
    /\ up \subseteq Servers /\ text \in [Servers -> Texts \cup {NoFile}]
    /\ toServer \in [Servers -> Seq(Texts)] /\ updates \in [Servers -> Nat]
    /\ registry \in Seq([server : Servers, alive : BOOLEAN])
    /\ \A i, j \in Ids : registry[i].server = registry[j].server => i = j
    /\ service \in [Servers -> {"seeding", "syncing", "serving"}]
    /\ primary \in Nat /\ replica \in Nat /\ creating \in Nat
    /\ threads \in [Threads -> ThreadStates]
    /\ session \in [Writes -> {"idle", "done"} \cup Servers] /\ accepted \in Texts
    /\ faults \subseteq Faults /\ nfaults \in 0..MaxFaults

\* Which faults a guarantee survives.
Despite(kinds) == faults \subseteq kinds
Has(s, writes) == Holds(s) /\ writes \subseteq text[s]

\* The primary has every write that was acknowledged: nothing is pushed over it
\* (NM 1218), and nobody writes elsewhere.  Lost updates and answers do not
\* change that; a wrong judgement of the heartbeat, or a crash, does.
PrimaryComplete ==
    primary \in Ids /\ Despite({"unanswered", "lost"})
        => Has(registry[primary].server, accepted)

\* Clients are sent to a server that has the file (NM 235): a replica is in the
\* table only after it made the file, and only those two are ever picked.  That
\* fails once CREATE went on without an answer, ids were given anew, or DELETE came
\* between the list a server registers with and its seeding.
RoutedToHolder ==
    primary \in Ids /\ Despite({"misjudged", "lost", "crash"})
        => Holds(registry[Routed].server)

\* No acknowledged write vanishes from every server, even when a restart gives
\* the ids in another order and clients are sent to a server without the file.
NoWriteLost ==
    Despite({"unanswered", "lost", "restart"}) =>
        \A w \in accepted : \E s \in Servers : Has(s, {w})

\* Every push is reported and copied again (SS 1167, NM 1185), for ever; but each
\* acknowledged write keeps at most one text going, unless the heartbeat's wrong
\* judgement lets a resynchronisation start another.
Messages(reports, texts, copying) ==
    (UNION {{<<"update", s, n>> : n \in 1..reports[s]} : s \in Servers})
        \cup (UNION {{<<"text", s, n>> : n \in DOMAIN texts[s]} : s \in Servers})
        \cup {<<"copy", t>> : t \in copying}
UnderWay == Messages(updates, toServer, {t \in Threads : threads[t] # Idle})
Done == {w \in Writes : session[w] = "done"}
TrafficBounded ==
    "misjudged" \notin faults =>
        Cardinality(UnderWay) <= Cardinality(Done)

\* Threads that copy may overtake each other, so an older text can be pushed
\* last; but its own report starts the next copy.  If nothing fails and nobody
\* writes before the replica is in the table, it ends up with the primary's text.
Calm == faults = {} /\ (replica = NoId => \A w \in Writes : session[w] = "idle")
SameText ==
    {primary, replica} \subseteq Ids =>
        text[registry[replica].server] = text[registry[primary].server]
ReplicaConverges == []Calm => <>[]SameText

\* README 184: "Replica selection and fallback when the primary server is
\* unavailable."  While the primary counts as dead and another server that is
\* alive has the file, clients are sent to a server that is alive.
FallbackUsed ==
    /\ Despite({"crash", "restart"})
    /\ primary # NoId /\ ~Alive(primary) /\ creating = NoId
    /\ \E id \in Ids : Alive(id) /\ Holds(registry[id].server)
    => Alive(Routed)
=============================================================================
