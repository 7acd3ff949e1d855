---------------------------- MODULE ControlLink ----------------------------
(***************************************************************************)
(* The control connection between the naming server and one storage        *)
(* server, from its registration until the storage server stops.  It is    *)
(* one TCP socket at each end, read by several threads: at the naming      *)
(* server the thread that serves the connection, the heartbeat, the        *)
(* handlers of CREATE and DELETE, which keep trie_mutex while they wait,   *)
(* and those of CREATEFOLDER, MOVE and replica creation, which wait for a  *)
(* second at most; at the storage server the message loop and the client   *)
(* threads that report new counts.  Whoever calls recv next gets the next  *)
(* message.  The receive time-out belongs to the socket, too: a thread     *)
(* that sets it sets it for every recv that begins while it is set.        *)
(*                                                                         *)
(* A message is taken whole, and what it says about files is left out:     *)
(* only its kind decides who answers it and who gives up on it.            *)
(***************************************************************************)
EXTENDS Naturals, Sequences, FiniteSets

CONSTANTS
    Requests,    \* CREATE and DELETE requests of clients
    Broadcasts,  \* CREATEFOLDER, MOVE and replica creation requests
    Writers,     \* WRITE sessions that commit and report
    Reverters,   \* checkpoint reverts that report
    Heartbeat,   \* the heartbeat thread
    Service,     \* the thread that serves the connection
    Loop,        \* the message loop of the storage server
    NoOne,       \* nobody holds trie_mutex
    MaxPushes,   \* texts sent to the server
    MaxClients,  \* requests and reports, of all clients together
    MaxQueue     \* messages a direction buffers before send blocks

Polite == Broadcasts \cup {Heartbeat}       \* they arm the time-out
Askers == Requests \cup Polite              \* threads of the naming server
Reporters == Writers \cup Reverters         \* threads of the storage server
Threads == Askers \cup Reporters \cup {Service, Loop}

ASSUME ThreadsAssumption ==
    /\ Requests \cap Polite = {} /\ Heartbeat \notin Broadcasts
    /\ Writers \cap Reverters = {} /\ Service # Loop
    /\ Askers \cap (Reporters \cup {Service, Loop}) = {}
    /\ Reporters \cap {Service, Loop} = {} /\ NoOne \notin Threads
ASSUME BoundsAssumption ==
    MaxPushes \in Nat /\ MaxClients \in Nat /\ MaxQueue \in Nat \ {0}

\* What the naming server sends: commands (create, delete, make a folder, move),
\* heartbeats, texts of replicated files, acknowledgements of updates.
ToServerKinds == {"command", "ping", "push", "updateAck"}
\* What it gets: MSG_ACK whatever it is for, MSG_ERROR, MSG_UPDATE_METADATA.
ToNamingKinds == {"ack", "error", "update"}

VARIABLES
    up,          \* the storage server runs
    alive,       \* is_alive in the registry
    toServer,    \* messages on their way to the storage server
    toNaming,    \* messages on their way to the naming server
    nmTimeout,   \* SO_RCVTIMEO of the naming server's socket is set
    ssTimeout,   \* SO_RCVTIMEO of the storage server's socket is set
    hasty,       \* the threads whose recv began with the time-out set
    mutex,       \* the request that holds trie_mutex
    ask,         \* per asker, how far it is
    ponged,      \* the heartbeat's recv returned an MSG_ACK
    service,     \* the thread that serves the connection
    pushes,      \* texts pushed so far
    loop,        \* the message loop of the storage server
    report       \* per reporter, how far it is

vars == <<up, alive, toServer, toNaming, nmTimeout, ssTimeout, hasty, mutex, ask,
          ponged, service, pushes, loop, report>>
namingVars == <<alive, nmTimeout, mutex, ask, ponged, service, pushes>>
serverVars == <<up, ssTimeout, loop, report>>

Full(queue) == Len(queue) = MaxQueue
\* send blocks while the buffer is full.  It gives up on a server that is gone
\* and, since the time-out is SO_SNDTIMEO as well, while that is set.
MaySend(queue, timeout) == ~up \/ ~Full(queue) \/ timeout
Sent(queue, kind) == IF up /\ ~Full(queue) THEN Append(queue, kind) ELSE queue
\* A recv begins and takes its time-out, or none, from the socket.
Begins(thread, timeout) ==
    hasty' = IF timeout THEN hasty \cup {thread} ELSE hasty \ {thread}
Ends(thread) == hasty' = hasty \ {thread}

Init ==
    /\ up = TRUE /\ alive = TRUE
    /\ toServer = <<>> /\ toNaming = <<>>
    /\ nmTimeout = FALSE /\ ssTimeout = FALSE /\ hasty = {}
    /\ mutex = NoOne /\ ask = [a \in Askers |-> "idle"] /\ ponged = FALSE
    /\ service = "receiving" /\ pushes = 0
    /\ loop = "receiving" /\ report = [r \in Reporters |-> "idle"]

MoreClients ==
    Cardinality({a \in Askers \ {Heartbeat} : ask[a] # "idle"})
        + Cardinality({r \in Reporters : report[r] # "idle"}) < MaxClients

-----------------------------------------------------------------------------
(* Naming server: the threads that ask.                                     *)

Advance(a, step) == ask' = [ask EXCEPT ![a] = step]

\* CREATE and DELETE take trie_mutex and keep it until they have an answer.
LockTrie(r) ==
    /\ MoreClients /\ ask[r] = "idle" /\ mutex = NoOne
    /\ mutex' = r /\ Advance(r, "sending")
    /\ UNCHANGED <<alive, toServer, toNaming, nmTimeout, hasty, ponged, service,
                   pushes, serverVars>>

SendRequest(r) ==
    /\ ask[r] = "sending" /\ MaySend(toServer, nmTimeout)
    /\ toServer' = Sent(toServer, "command") /\ Advance(r, "sent")
    /\ UNCHANGED <<alive, toNaming, nmTimeout, hasty, mutex, ponged, service,
                   pushes, serverVars>>

SendBroadcast(b) ==
    /\ MoreClients /\ ask[b] = "idle" /\ MaySend(toServer, nmTimeout)
    /\ toServer' = Sent(toServer, "command") /\ Advance(b, "sent")
    /\ UNCHANGED <<alive, toNaming, nmTimeout, hasty, mutex, ponged, service,
                   pushes, serverVars>>

\* Mutant of SendPing: a server that is marked dead gets no ping.
SendPingIfAlive ==
    /\ ask[Heartbeat] = "idle" /\ MaySend(toServer, nmTimeout) /\ alive
    /\ \/ /\ ~up \/ ~Full(toServer)
          /\ toServer' = Sent(toServer, "ping")
          /\ Advance(Heartbeat, "sent") /\ UNCHANGED alive
       \/ /\ ~up \/ Full(toServer)
          /\ alive' = FALSE /\ UNCHANGED <<toServer, ask>>
    /\ UNCHANGED <<toNaming, nmTimeout, hasty, mutex, ponged, service, pushes,
                   serverVars>>
\* A ping that cannot be sent counts as a dead server; one to a server that is
\* gone may be buffered before that is known.
SendPing ==
    /\ ask[Heartbeat] = "idle" /\ MaySend(toServer, nmTimeout)
    /\ \/ /\ ~up \/ ~Full(toServer)
          /\ toServer' = Sent(toServer, "ping")
          /\ Advance(Heartbeat, "sent") /\ UNCHANGED alive
       \/ /\ ~up \/ Full(toServer)
          /\ alive' = FALSE /\ UNCHANGED <<toServer, ask>>
    /\ UNCHANGED <<toNaming, nmTimeout, hasty, mutex, ponged, service, pushes,
                   serverVars>>

ArmTimeout(a) ==
    /\ a \in Polite /\ ask[a] = "sent"
    /\ nmTimeout' = TRUE /\ Advance(a, "armed")
    /\ UNCHANGED <<alive, toServer, toNaming, hasty, mutex, ponged, service, pushes,
                   serverVars>>

StartReceive(a) ==
    /\ ask[a] = IF a \in Polite THEN "armed" ELSE "sent"
    /\ Begins(a, nmTimeout) /\ Advance(a, "receiving")
    /\ UNCHANGED <<alive, toServer, toNaming, nmTimeout, mutex, ponged, service,
                   pushes, serverVars>>

Receive(a) ==
    /\ ask[a] = "receiving" /\ toNaming # <<>>
    /\ ponged' = IF a = Heartbeat THEN Head(toNaming) = "ack" ELSE ponged
    /\ toNaming' = Tail(toNaming) /\ Ends(a) /\ Advance(a, "returned")
    /\ UNCHANGED <<alive, toServer, nmTimeout, mutex, service, pushes, serverVars>>

\* The time-out has passed, or the server has gone.
ReceiveNothing(a) ==
    /\ ask[a] = "receiving" /\ toNaming = <<>> /\ (a \in hasty \/ ~up)
    /\ Ends(a) /\ Advance(a, "returned")
    /\ UNCHANGED <<alive, toServer, toNaming, nmTimeout, mutex, ponged, service,
                   pushes, serverVars>>

\* The handler answers its client, with whatever is in ss_response, and lets
\* go of trie_mutex.
FinishRequest(r) ==
    /\ r \in Requests /\ ask[r] = "returned"
    /\ mutex' = NoOne /\ Advance(r, "done")
    /\ UNCHANGED <<alive, toServer, toNaming, nmTimeout, hasty, ponged, service,
                   pushes, serverVars>>

\* Mutant of Disarmed: the time-out is not restored.
NotDisarmed == nmTimeout' = nmTimeout
Disarmed == nmTimeout' = FALSE

FinishBroadcast(b) ==
    /\ b \in Broadcasts /\ ask[b] = "returned"
    /\ Disarmed /\ Advance(b, "done")
    /\ UNCHANGED <<alive, toServer, toNaming, hasty, mutex, ponged, service, pushes,
                   serverVars>>

\* Mutant of FinishPing: only an answer changes the status.
FinishPingAlive ==
    /\ ask[Heartbeat] = "returned" /\ Disarmed /\ Advance(Heartbeat, "idle")
    /\ alive' = (alive \/ ponged) /\ ponged' = FALSE
    /\ UNCHANGED <<toServer, toNaming, hasty, mutex, service, pushes, serverVars>>
FinishPing ==
    /\ ask[Heartbeat] = "returned" /\ Disarmed /\ Advance(Heartbeat, "idle")
    /\ alive' = ponged /\ ponged' = FALSE
    /\ UNCHANGED <<toServer, toNaming, hasty, mutex, service, pushes, serverVars>>

\* replicate_thread pushes a text and goes.
Push ==
    /\ pushes < MaxPushes /\ MaySend(toServer, nmTimeout)
    /\ toServer' = Sent(toServer, "push") /\ pushes' = pushes + 1
    /\ UNCHANGED <<alive, toNaming, nmTimeout, hasty, mutex, ask, ponged, service,
                   serverVars>>

-----------------------------------------------------------------------------
(* Naming server: the thread that serves the connection.                    *)

\* It keeps updates and drops the rest.
ServiceReceive ==
    /\ service = "receiving" /\ toNaming # <<>>
    /\ toNaming' = Tail(toNaming)
    /\ IF Head(toNaming) = "update"
       THEN service' = "updating" /\ Ends(Service)
       ELSE Begins(Service, nmTimeout) /\ UNCHANGED service
    /\ UNCHANGED <<alive, toServer, nmTimeout, mutex, ask, ponged, pushes, serverVars>>

\* It takes trie_mutex for the update, acknowledges it and receives again.
ServiceUpdate ==
    /\ service = "updating" /\ mutex = NoOne /\ MaySend(toServer, nmTimeout)
    /\ toServer' = Sent(toServer, "updateAck")
    /\ service' = "receiving" /\ Begins(Service, nmTimeout)
    /\ UNCHANGED <<alive, toNaming, nmTimeout, mutex, ask, ponged, pushes, serverVars>>

\* "received <= 0": the time-out of somebody else counts as a lost connection.
ServiceEnd ==
    /\ service = "receiving" /\ toNaming = <<>> /\ (Service \in hasty \/ ~up)
    /\ service' = "gone" /\ Ends(Service)
    /\ UNCHANGED <<alive, toServer, toNaming, nmTimeout, mutex, ask, ponged, pushes,
                   serverVars>>

-----------------------------------------------------------------------------
(* Storage server: the message loop.                                        *)

\* It answers each message and receives the next; a push makes it report and
\* wait for an acknowledgement.  One it did not wait for is dropped.
Replies(kind) ==
    CASE kind = "command" -> {"ack", "error"}
      [] kind = "ping" -> {"ack"}
      [] kind = "push" -> {"update"}

LoopReceive ==
    /\ loop = "receiving" /\ toServer # <<>>
    /\ toServer' = Tail(toServer)
    /\ LET kind == Head(toServer)
       IN  IF kind = "updateAck"
           THEN UNCHANGED <<loop, toNaming>>
           ELSE /\ MaySend(toNaming, ssTimeout)
                /\ \E reply \in Replies(kind) : toNaming' = Sent(toNaming, reply)
                /\ loop' = IF kind = "push" THEN "reporting" ELSE loop
    /\ Begins(Loop, ssTimeout)
    /\ UNCHANGED <<up, ssTimeout, report, namingVars>>

\* The head of the queue, or nothing when the time-out of the recv has passed.
TakenBy(thread) ==
    IF toServer # <<>> THEN toServer' = Tail(toServer)
                       ELSE thread \in hasty /\ UNCHANGED toServer

\* Whatever comes next, or nothing, counts as the acknowledgement.
LoopReported ==
    /\ loop = "reporting" /\ MaySend(toNaming, ssTimeout) /\ TakenBy(Loop)
    /\ toNaming' = Sent(toNaming, "ack")
    /\ loop' = "receiving" /\ Begins(Loop, ssTimeout)
    /\ UNCHANGED <<up, ssTimeout, report, namingVars>>

\* "Lost connection to NM".
LoopEnd ==
    /\ loop = "receiving" /\ toServer = <<>> /\ Loop \in hasty
    /\ loop' = "gone" /\ Ends(Loop)
    /\ UNCHANGED <<up, ssTimeout, report, toServer, toNaming, namingVars>>

-----------------------------------------------------------------------------
(* Storage server: the sessions that report.                                *)

Move(r, step) == report' = [report EXCEPT ![r] = step]

SendUpdate(r) ==
    /\ MoreClients /\ up /\ report[r] = "idle" /\ MaySend(toNaming, ssTimeout)
    /\ toNaming' = Sent(toNaming, "update") /\ Move(r, "sent")
    /\ UNCHANGED <<up, ssTimeout, loop, toServer, hasty, namingVars>>

\* Mutant of ArmReport: a revert sets the time-out as well.
ArmAnyReport(w) ==
    /\ report[w] = "sent"
    /\ ssTimeout' = TRUE /\ Move(w, "armed")
    /\ UNCHANGED <<up, loop, toServer, toNaming, hasty, namingVars>>
\* WRITE gives the acknowledgement a second; a revert waits.
ArmReport(w) ==
    /\ w \in Writers /\ report[w] = "sent"
    /\ ssTimeout' = TRUE /\ Move(w, "armed")
    /\ UNCHANGED <<up, loop, toServer, toNaming, hasty, namingVars>>

StartReport(r) ==
    /\ report[r] = IF r \in Writers THEN "armed" ELSE "sent"
    /\ Begins(r, ssTimeout) /\ Move(r, "receiving")
    /\ UNCHANGED <<up, ssTimeout, loop, toServer, toNaming, namingVars>>

Reported(r) ==
    /\ report[r] = "receiving" /\ TakenBy(r)
    /\ Ends(r) /\ Move(r, "reported")
    /\ UNCHANGED <<up, ssTimeout, loop, toNaming, namingVars>>

FinishReport(r) ==
    /\ report[r] = "reported"
    /\ ssTimeout' = IF r \in Writers THEN FALSE ELSE ssTimeout
    /\ Move(r, "done")
    /\ UNCHANGED <<up, loop, toServer, toNaming, hasty, namingVars>>

\* The process of the storage server stops, with all its threads; what it sent
\* last may get lost.
Crash ==
    /\ up /\ up' = FALSE /\ toServer' = <<>>
    /\ loop' = "gone" /\ report' = [r \in Reporters |-> "done"] /\ ssTimeout' = FALSE
    /\ hasty' = hasty \ ({Loop} \cup Reporters)
    /\ \E n \in 0..Len(toNaming) : toNaming' = SubSeq(toNaming, 1, n)
    /\ UNCHANGED namingVars

-----------------------------------------------------------------------------
\* What a client begins, and what its thread then does by itself.
AskerBegins(a) ==
    \/ a \in Requests /\ LockTrie(a)
    \/ a \in Broadcasts /\ SendBroadcast(a)
AskerGoesOn(a) ==
    \/ SendRequest(a) \/ ArmTimeout(a) \/ StartReceive(a)
    \/ Receive(a) \/ ReceiveNothing(a)
    \/ FinishRequest(a) \/ FinishBroadcast(a)
    \/ a = Heartbeat /\ (SendPing \/ FinishPing)
ServiceStep == ServiceReceive \/ ServiceUpdate \/ ServiceEnd
LoopStep == LoopReceive \/ LoopReported \/ LoopEnd
ReporterGoesOn(r) == ArmReport(r) \/ StartReport(r) \/ Reported(r) \/ FinishReport(r)

Next ==
    \/ \E a \in Askers : AskerBegins(a) \/ AskerGoesOn(a)
    \/ Push \/ ServiceStep \/ LoopStep
    \/ \E r \in Reporters : SendUpdate(r) \/ ReporterGoesOn(r)
    \/ Crash

\* The threads that serve are scheduled, and one that waits for a message, for
\* room in a buffer or for trie_mutex gets it if there is one again and again.
\* The heartbeat never stops pinging.  Nothing is assumed of the broadcasts and
\* reports that compete for the messages.
Fairness ==
    /\ \A a \in Requests \cup {Heartbeat} : SF_vars(AskerGoesOn(a))
    /\ SF_vars(ServiceStep) /\ SF_vars(LoopStep)

Spec == Init /\ [][Next]_vars
FairSpec == Spec /\ Fairness

-----------------------------------------------------------------------------
(* Properties.                                                              *)

\* Types, and neither direction buffers more than it holds.
TypeOK ==
    /\ up \in BOOLEAN /\ alive \in BOOLEAN
    /\ toServer \in Seq(ToServerKinds) /\ Len(toServer) <= MaxQueue
    /\ toNaming \in Seq(ToNamingKinds) /\ Len(toNaming) <= MaxQueue
    /\ nmTimeout \in BOOLEAN /\ ssTimeout \in BOOLEAN /\ hasty \subseteq Threads
    /\ mutex \in Requests \cup {NoOne}
    /\ ask \in [Askers -> {"idle", "sending", "sent", "armed", "receiving",
                           "returned", "done"}]
    /\ ponged \in BOOLEAN /\ service \in {"receiving", "updating", "gone"}
    /\ pushes \in 0..MaxPushes /\ loop \in {"receiving", "reporting", "gone"}
    /\ report \in [Reporters -> {"idle", "sent", "armed", "receiving", "reported", "done"}]

\* A time-out is set only while somebody who set one has still to restore it,
\* however the users of the socket overlap (NM 34-38, SS 852-854): nobody is
\* left behind on a socket whose every recv fails after a second.
TimeoutsRestored ==
    /\ nmTimeout => \E a \in Polite : ask[a] \in {"armed", "receiving", "returned"}
    /\ ssTimeout => \E w \in Writers : report[w] \in {"armed", "receiving", "reported"}

\* The message loop of a server that runs ends (SS 1103) only after a WRITE has
\* armed the time-out of the shared socket.
LoopEndsOnlyByWrite ==
    up /\ loop = "gone" => \E w \in Writers : report[w] \notin {"idle", "sent"}

\* The heartbeat waits with no time-out for a server that is there.
Stuck == up /\ ask[Heartbeat] = "receiving" /\ Heartbeat \notin hasty

\* The heartbeat arms a time-out before it waits (NM 34).  It can wait without
\* one only if a broadcast has restored the socket in between.
StuckOnlyByBroadcast == Stuck => \E b \in Broadcasts : ask[b] = "done"

\* What the missing and the foreign time-outs do comes from one overlap each: the
\* loop ends by a WRITE, the heartbeat is left waiting by a broadcast.
HurtOnlyByOverlap == LoopEndsOnlyByWrite /\ StuckOnlyByBroadcast

\* Each end waits for the other to read before it can send.
Clogged == up /\ Full(toServer) /\ Full(toNaming)

\* A CREATE or DELETE that waits with trie_mutex held waits for ever only if the
\* server's message loop has ended, the heartbeat itself is stuck or both buffers
\* have filled up.  In particular the circle of a loop that waits for an
\* acknowledgement, a service thread that waits for trie_mutex and a handler that
\* waits for the loop (SS 1160, NM 1172, NM 155) is broken by the next heartbeat.
RequestsReturn ==
    \A r \in Requests :
        <>[](ask[r] \in {"sending", "sent", "receiving"}) =>
            <>[](up /\ loop = "gone") \/ <>[]Stuck \/ <>[]Clogged

\* A storage server that stops is marked dead for good (NM 28-41), whichever
\* thread takes the last messages it sent.
CrashNoticed == <>[]~up => <>[]~alive
=============================================================================
