-------------------------- MODULE ControlLinkProofs -------------------------
(***************************************************************************)
(* Proofs for ControlLink: a time-out on the shared socket is always       *)
(* somebody's who will restore it, and the two ways in which a user of the *)
(* socket is hurt by the time-out of another one are the only ones, for    *)
(* any number of requests, broadcasts and reports and any size of buffers. *)
(***************************************************************************)
EXTENDS ControlLink, TLAPS

-----------------------------------------------------------------------------
(* The inductive invariant.                                                 *)

Reporting == \E w \in Writers : report[w] \notin {"idle", "sent"}
Restored == \E b \in Broadcasts : ask[b] = "done"

\* The loop can only give up because of the time-out of a WRITE.
LoopHurtByWrite == up /\ (ssTimeout \/ Loop \in hasty \/ loop = "gone") => Reporting

\* The time-out that the heartbeat armed is there unless a broadcast restored it.
PingHurtByBroadcast ==
    /\ ask[Heartbeat] = "armed" /\ ~nmTimeout => Restored
    /\ ask[Heartbeat] = "receiving" /\ Heartbeat \notin hasty => Restored

Hurt == TimeoutsRestored /\ LoopHurtByWrite /\ PingHurtByBroadcast
IInv == TypeOK /\ Hurt

-----------------------------------------------------------------------------
(* Buffers.                                                                 *)

\* What is sent is buffered whole or not at all.
LEMMA SentBounded ==
  ASSUME NEW K, NEW queue \in Seq(K), Len(queue) <= MaxQueue, NEW kind \in K
  PROVE  Sent(queue, kind) \in Seq(K) /\ Len(Sent(queue, kind)) <= MaxQueue
<1>1. CASE up /\ ~Full(queue)
  <2>1. Len(queue) \in Nat /\ Len(queue) < MaxQueue
    BY <1>1, BoundsAssumption DEF Full
  <2>2. Append(queue, kind) \in Seq(K) /\ Len(Append(queue, kind)) = Len(queue) + 1
    OBVIOUS
  <2> QED BY <1>1, <2>1, <2>2, BoundsAssumption DEF Sent
<1>2. CASE ~(up /\ ~Full(queue))
  BY <1>2 DEF Sent
<1> QED BY <1>1, <1>2

LEMMA TailBounded ==
  ASSUME NEW K, NEW queue \in Seq(K), Len(queue) <= MaxQueue, queue # <<>>
  PROVE  /\ Head(queue) \in K /\ Tail(queue) \in Seq(K)
         /\ Len(Tail(queue)) <= MaxQueue
<1>1. Len(queue) \in Nat /\ Len(queue) > 0 /\ Len(Tail(queue)) = Len(queue) - 1
  OBVIOUS
<1> QED BY <1>1, BoundsAssumption

LEMMA PrefixBounded ==
  ASSUME NEW K, NEW queue \in Seq(K), Len(queue) <= MaxQueue, NEW n \in 0..Len(queue)
  PROVE  SubSeq(queue, 1, n) \in Seq(K) /\ Len(SubSeq(queue, 1, n)) <= MaxQueue
<1>1. Len(SubSeq(queue, 1, n)) = n /\ n <= Len(queue) /\ Len(queue) \in Nat
  OBVIOUS
<1>2. SubSeq(queue, 1, n) \in Seq(K)
  OBVIOUS
<1> QED BY <1>1, <1>2, BoundsAssumption

-----------------------------------------------------------------------------
(* Types.                                                                   *)

LEMMA Roles ==
  /\ Heartbeat \in Polite /\ Heartbeat \notin Broadcasts /\ Heartbeat \notin Requests
  /\ Requests \cap Polite = {} /\ Requests \subseteq Askers /\ Broadcasts \subseteq Polite /\ Polite \subseteq Askers
  /\ Askers \subseteq Threads /\ Reporters \subseteq Threads
  /\ Service \in Threads /\ Loop \in Threads /\ Writers \subseteq Reporters
  /\ Loop \notin Askers /\ Loop \notin Reporters /\ Loop # Service
  /\ Heartbeat \notin Reporters /\ Heartbeat # Loop /\ Heartbeat # Service
BY ThreadsAssumption DEF Polite, Askers, Reporters, Threads

QueuesOK ==
  /\ toServer \in Seq(ToServerKinds) /\ Len(toServer) <= MaxQueue
  /\ toNaming \in Seq(ToNamingKinds) /\ Len(toNaming) <= MaxQueue

\* What the buffers hold after a send or a receive.
LEMMA Queues ==
  ASSUME QueuesOK
  PROVE  /\ \A kind \in ToServerKinds :
              Sent(toServer, kind) \in Seq(ToServerKinds)
              /\ Len(Sent(toServer, kind)) <= MaxQueue
         /\ \A kind \in ToNamingKinds :
              Sent(toNaming, kind) \in Seq(ToNamingKinds)
              /\ Len(Sent(toNaming, kind)) <= MaxQueue
         /\ toServer # <<>> => /\ Head(toServer) \in ToServerKinds
                               /\ Tail(toServer) \in Seq(ToServerKinds)
                               /\ Len(Tail(toServer)) <= MaxQueue
         /\ toNaming # <<>> => /\ Tail(toNaming) \in Seq(ToNamingKinds)
                               /\ Len(Tail(toNaming)) <= MaxQueue
         /\ \A n \in 0..Len(toNaming) :
              SubSeq(toNaming, 1, n) \in Seq(ToNamingKinds)
              /\ Len(SubSeq(toNaming, 1, n)) <= MaxQueue
BY SentBounded, TailBounded, PrefixBounded DEF QueuesOK

LEMMA InitType == Init => TypeOK
<1> SUFFICES ASSUME Init PROVE TypeOK
  OBVIOUS
<1>1. toServer \in Seq(ToServerKinds) /\ toNaming \in Seq(ToNamingKinds)
  BY DEF Init
<1>2. Len(toServer) = 0 /\ Len(toNaming) = 0
  BY DEF Init
<1>3. 0 <= MaxQueue /\ pushes \in 0..MaxPushes /\ hasty \subseteq Threads
  BY BoundsAssumption DEF Init
<1>4. /\ up \in BOOLEAN /\ alive \in BOOLEAN /\ nmTimeout \in BOOLEAN
      /\ ssTimeout \in BOOLEAN /\ ponged \in BOOLEAN
  BY DEF Init
<1>5. Len(toServer) <= MaxQueue /\ Len(toNaming) <= MaxQueue
  BY <1>2, <1>3
<1> QED BY <1>1, <1>3, <1>4, <1>5 DEF Init, TypeOK

LEMMA TypeInv == TypeOK /\ [Next]_vars => TypeOK'
<1> SUFFICES ASSUME TypeOK, [Next]_vars PROVE TypeOK'
  OBVIOUS
<1> USE Roles DEF namingVars, serverVars, Advance, Move, Begins, Ends
<1>0. QueuesOK
  BY DEF TypeOK, QueuesOK
<1>1. /\ {"command", "ping", "push", "updateAck"} \subseteq ToServerKinds
      /\ {"ack", "error", "update"} \subseteq ToNamingKinds
  BY DEF ToServerKinds, ToNamingKinds
<1>2. ASSUME NEW a \in Requests, LockTrie(a) PROVE TypeOK'
  BY <1>2 DEF LockTrie, TypeOK
<1>3. ASSUME NEW a \in Broadcasts, SendBroadcast(a) PROVE TypeOK'
  BY <1>3, <1>0, <1>1, Queues DEF SendBroadcast, TypeOK
<1>4. ASSUME NEW a \in Askers, SendRequest(a) PROVE TypeOK'
  BY <1>4, <1>0, <1>1, Queues DEF SendRequest, TypeOK
<1>5. ASSUME NEW a \in Askers, ArmTimeout(a) \/ StartReceive(a) \/ ReceiveNothing(a) PROVE TypeOK'
  BY <1>5 DEF ArmTimeout, StartReceive, ReceiveNothing, TypeOK
<1>6. ASSUME NEW a \in Askers, Receive(a) PROVE TypeOK'
  BY <1>6, <1>0, <1>1, Queues DEF Receive, TypeOK
<1>7. ASSUME NEW a \in Askers, FinishRequest(a) \/ FinishBroadcast(a) PROVE TypeOK'
  BY <1>7 DEF FinishRequest, FinishBroadcast, Disarmed, TypeOK
<1>8. ASSUME SendPing PROVE TypeOK'
  <2>1. toServer' \in Seq(ToServerKinds) /\ Len(toServer') <= MaxQueue
    BY <1>8, <1>0, <1>1, Queues DEF SendPing, QueuesOK
  <2>2. ask' = ask \/ ask' = [ask EXCEPT ![Heartbeat] = "sent"]
    BY <1>8 DEF SendPing
  <2>3. alive' \in BOOLEAN
    BY <1>8 DEF SendPing, TypeOK
  <2>4. UNCHANGED <<toNaming, nmTimeout, hasty, mutex, ponged, service, pushes, up, ssTimeout,
                    loop, report>>
    BY <1>8 DEF SendPing
  <2> QED BY <2>1, <2>2, <2>3, <2>4 DEF TypeOK
<1>9. ASSUME FinishPing PROVE TypeOK'
  BY <1>9 DEF FinishPing, Disarmed, TypeOK
<1>10. ASSUME Push PROVE TypeOK'
  <2>1. pushes' \in 0..MaxPushes
    BY <1>10, BoundsAssumption DEF Push, TypeOK
  <2>2. toServer' \in Seq(ToServerKinds) /\ Len(toServer') <= MaxQueue
    BY <1>10, <1>0, <1>1, Queues DEF Push
  <2> QED BY <1>10, <2>1, <2>2 DEF Push, TypeOK
<1>11. ASSUME ServiceReceive \/ ServiceUpdate \/ ServiceEnd PROVE TypeOK'
  BY <1>11, <1>0, <1>1, Queues DEF ServiceReceive, ServiceUpdate, ServiceEnd, TypeOK
<1>12. ASSUME LoopReceive PROVE TypeOK'
  <2>1. toServer # <<>> /\ toServer' = Tail(toServer) /\ Head(toServer) \in ToServerKinds
    BY <1>12, <1>0, Queues DEF LoopReceive
  <2>2. \/ UNCHANGED <<loop, toNaming>>
        \/ /\ loop' \in {"receiving", "reporting", "gone"}
           /\ \E reply \in ToNamingKinds : toNaming' = Sent(toNaming, reply)
    <3>1. CASE Head(toServer) = "updateAck"
      BY <1>12, <3>1 DEF LoopReceive
    <3>2. CASE Head(toServer) # "updateAck"
      <4>1. Head(toServer) \in {"command", "ping", "push"}
        BY <2>1, <3>2 DEF ToServerKinds
      <4>2. Replies(Head(toServer)) \subseteq ToNamingKinds
        BY <1>1, <4>1 DEF Replies
      <4>3. loop' = IF Head(toServer) = "push" THEN "reporting" ELSE loop
        BY <1>12, <3>2 DEF LoopReceive
      <4>4. \E reply \in Replies(Head(toServer)) : toNaming' = Sent(toNaming, reply)
        BY <1>12, <3>2 DEF LoopReceive
      <4> QED BY <4>2, <4>3, <4>4 DEF TypeOK
    <3> QED BY <3>1, <3>2
  <2>3. toNaming' \in Seq(ToNamingKinds) /\ Len(toNaming') <= MaxQueue
    BY <1>0, <2>2, Queues DEF QueuesOK
  <2>4. toServer' \in Seq(ToServerKinds) /\ Len(toServer') <= MaxQueue
    BY <1>0, <2>1, Queues
  <2>5. loop' \in {"receiving", "reporting", "gone"} /\ hasty' \subseteq Threads
    BY <1>12, <2>2 DEF LoopReceive, TypeOK
  <2>6. UNCHANGED <<up, ssTimeout, report, alive, nmTimeout, mutex, ask, ponged, service, pushes>>
    BY <1>12 DEF LoopReceive
  <2> QED BY <2>3, <2>4, <2>5, <2>6 DEF TypeOK
<1>13. ASSUME LoopReported \/ LoopEnd PROVE TypeOK'
  BY <1>13, <1>0, <1>1, Queues DEF LoopReported, TakenBy, LoopEnd, TypeOK
<1>14. ASSUME NEW r \in Reporters, SendUpdate(r) PROVE TypeOK'
  BY <1>14, <1>0, <1>1, Queues DEF SendUpdate, TypeOK
<1>15. ASSUME NEW r \in Reporters, ArmReport(r) \/ StartReport(r) \/ FinishReport(r) PROVE TypeOK'
  BY <1>15 DEF ArmReport, StartReport, FinishReport, TypeOK
<1>16. ASSUME NEW r \in Reporters, Reported(r) PROVE TypeOK'
  BY <1>16, <1>0, <1>1, Queues DEF Reported, TakenBy, TypeOK
<1>17. ASSUME Crash PROVE TypeOK'
  <2>1. toNaming' \in Seq(ToNamingKinds) /\ Len(toNaming') <= MaxQueue
    BY <1>17, <1>0, Queues DEF Crash
  <2>2. toServer' \in Seq(ToServerKinds) /\ Len(toServer') <= MaxQueue
    BY <1>17, BoundsAssumption DEF Crash
  <2>3. up' \in BOOLEAN /\ ssTimeout' \in BOOLEAN /\ hasty' \subseteq Threads
    BY <1>17 DEF Crash, TypeOK
  <2>4. loop' = "gone" /\ report' = [r \in Reporters |-> "done"]
        /\ UNCHANGED <<alive, nmTimeout, mutex, ask, ponged, service, pushes>>
    BY <1>17 DEF Crash
  <2> QED BY <2>1, <2>2, <2>3, <2>4 DEF TypeOK
<1>18. CASE UNCHANGED vars
  BY <1>18 DEF vars, TypeOK
<1> QED
  BY <1>2, <1>3, <1>4, <1>5, <1>6, <1>7, <1>8, <1>9, <1>10, <1>11, <1>12, <1>13,
     <1>14, <1>15, <1>16, <1>17, <1>18
     DEF Next, AskerBegins, AskerGoesOn, ServiceStep, LoopStep, ReporterGoesOn

-----------------------------------------------------------------------------
(* Time-outs and their victims.                                             *)

LEMMA HurtInv == IInv /\ [Next]_vars => Hurt'
<1> SUFFICES ASSUME IInv, [Next]_vars PROVE Hurt'
  OBVIOUS
<1> USE Roles DEF namingVars, serverVars, Advance, Move, Begins, Ends, IInv, Hurt, Reporting,
                  Restored, TimeoutsRestored, LoopHurtByWrite, PingHurtByBroadcast
<1>1. ASSUME NEW a \in Requests, LockTrie(a) PROVE Hurt'
  BY <1>1 DEF LockTrie, TypeOK
<1>2. ASSUME NEW a \in Broadcasts, SendBroadcast(a) PROVE Hurt'
  BY <1>2 DEF SendBroadcast, TypeOK
<1>3. ASSUME NEW a \in Askers, SendRequest(a) PROVE Hurt'
  BY <1>3 DEF SendRequest, TypeOK
<1>4. ASSUME NEW a \in Askers, ArmTimeout(a) PROVE Hurt'
  BY <1>4 DEF ArmTimeout, TypeOK
<1>5. ASSUME NEW a \in Askers, StartReceive(a) PROVE Hurt'
  BY <1>5 DEF StartReceive, TypeOK
<1>6. ASSUME NEW a \in Askers, ReceiveNothing(a) PROVE Hurt'
  BY <1>6 DEF ReceiveNothing, TypeOK
<1>7. ASSUME NEW a \in Askers, Receive(a) PROVE Hurt'
  BY <1>7 DEF Receive, TypeOK
<1>8. ASSUME NEW a \in Askers, FinishRequest(a) PROVE Hurt'
  BY <1>8 DEF FinishRequest, TypeOK
<1>9. ASSUME NEW a \in Askers, FinishBroadcast(a) PROVE Hurt'
  BY <1>9 DEF FinishBroadcast, Disarmed, TypeOK
<1>10. ASSUME SendPing PROVE Hurt'
  BY <1>10 DEF SendPing, TypeOK
<1>11. ASSUME FinishPing PROVE Hurt'
  BY <1>11 DEF FinishPing, Disarmed, TypeOK
<1>12. ASSUME Push PROVE Hurt'
  BY <1>12 DEF Push, TypeOK
<1>13. ASSUME ServiceReceive \/ ServiceUpdate \/ ServiceEnd PROVE Hurt'
  BY <1>13 DEF ServiceReceive, ServiceUpdate, ServiceEnd, TypeOK
<1>14. ASSUME LoopReceive PROVE Hurt'
  BY <1>14 DEF LoopReceive, TypeOK
<1>15. ASSUME LoopReported PROVE Hurt'
  BY <1>15 DEF LoopReported, TypeOK
<1>16. ASSUME LoopEnd PROVE Hurt'
  BY <1>16 DEF LoopEnd, TypeOK
<1>17. ASSUME NEW r \in Reporters, SendUpdate(r) PROVE Hurt'
  BY <1>17 DEF SendUpdate, TypeOK
<1>18. ASSUME NEW r \in Reporters, ArmReport(r) PROVE Hurt'
  BY <1>18 DEF ArmReport, TypeOK
<1>19. ASSUME NEW r \in Reporters, StartReport(r) PROVE Hurt'
  BY <1>19 DEF StartReport, TypeOK
<1>20. ASSUME NEW r \in Reporters, FinishReport(r) PROVE Hurt'
  <2>1. CASE r \in Writers
    BY <1>20, <2>1 DEF FinishReport, TypeOK
  <2>2. CASE r \notin Writers
    <3>1. UNCHANGED <<ssTimeout, nmTimeout, ask, up, loop, hasty>>
          /\ \A w \in Writers : report'[w] = report[w]
      BY <1>20, <2>2 DEF FinishReport, TypeOK
    <3> QED BY <3>1
  <2> QED BY <2>1, <2>2
<1>21. ASSUME NEW r \in Reporters, Reported(r) PROVE Hurt'
  BY <1>21 DEF Reported, TypeOK
<1>22. ASSUME Crash PROVE Hurt'
  BY <1>22 DEF Crash, TypeOK
<1>23. CASE UNCHANGED vars
  BY <1>23 DEF vars
<1> QED
  BY <1>1, <1>2, <1>3, <1>4, <1>5, <1>6, <1>7, <1>8, <1>9, <1>10, <1>11, <1>12,
     <1>13, <1>14, <1>15, <1>16, <1>17, <1>18, <1>19, <1>20, <1>21, <1>22, <1>23
     DEF Next, AskerBegins, AskerGoesOn, ServiceStep, LoopStep, ReporterGoesOn

-----------------------------------------------------------------------------
(* Together.                                                                *)

LEMMA InitInv == Init => IInv
<1>1. Init => Hurt
  BY Roles DEF Init, Hurt, TimeoutsRestored, LoopHurtByWrite, PingHurtByBroadcast
<1> QED BY <1>1, InitType DEF IInv

LEMMA NextInv == IInv /\ [Next]_vars => IInv'
BY TypeInv, HurtInv DEF IInv

\* The inductive invariant of the shared connection.
THEOREM Invariant == Spec => []IInv
BY InitInv, NextInv, PTL DEF Spec

\* Types, and no direction ever buffers more than it holds (send blocks).
THEOREM TypeCorrect == Spec => []TypeOK
<1>1. IInv => TypeOK
  BY DEF IInv
<1> QED BY <1>1, Invariant, PTL

\* Set and restored in any overlap, the time-out of the shared socket is never
\* left behind (set by the heartbeat, broadcasts and WRITE's report).
THEOREM TimeoutsAreRestored == Spec => []TimeoutsRestored
<1>1. IInv => TimeoutsRestored
  BY DEF IInv, Hurt
<1> QED BY <1>1, Invariant, PTL

\* The message loop gives up only after a WRITE armed a time-out, the heartbeat
\* waits without one only after a broadcast restored the socket.
THEOREM HurtOnlyByThose == Spec => []HurtOnlyByOverlap
<1>1. IInv => HurtOnlyByOverlap
  BY DEF IInv, Hurt, HurtOnlyByOverlap, LoopEndsOnlyByWrite, StuckOnlyByBroadcast, Stuck,
         LoopHurtByWrite, PingHurtByBroadcast, Reporting, Restored
<1> QED BY <1>1, Invariant, PTL
=============================================================================
