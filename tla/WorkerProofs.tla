---------------------------- MODULE WorkerProofs ----------------------------
(***************************************************************************)
(* Theorems about the worker.                                              *)
(*                                                                         *)
(* RunExecution, for every MaxSeq, MaxPending, MaxFaults and every         *)
(* Gap >= MaxPending.                                                      *)
(*                                                                         *)
(* WorkerPool, for every set of workers, number of runs and capacity: its  *)
(* types, that no run has two executors, and that a worker's permits       *)
(* always add up.  The three need each other and what PoolInv says about   *)
(* locks and tasks: a run can get a second executor only through a claim   *)
(* of a row that another claim still holds, and a permit can only be       *)
(* counted for a task that was not there before.                           *)
(***************************************************************************)
EXTENDS RunExecution, WorkerPool, FiniteSetTheorems, WellFoundedInduction, TLAPS

-----------------------------------------------------------------------------
(* Last seqs.  Max is a CHOOSE: it means something only for sets that have  *)
(* a maximum, so the invariant carries that along.                          *)

(* Every non-empty part of S has an element of largest seq.                 *)
HasMax(S) == \A T \in SUBSET S :
               T # {} => \E m \in T : \A x \in T : x.seq <= m.seq

(* LastSeq is an upper bound of the seqs of a set, and is attained.         *)
LEMMA LastSeqIsMax ==
  ASSUME NEW S \in SUBSET Event, HasMax(S)
  PROVE  /\ LastSeq(S) \in Nat
         /\ \A e \in S : e.seq <= LastSeq(S)
         /\ S # {} => \E e \in S : e.seq = LastSeq(S)
<1>1. CASE S = {}
  BY <1>1 DEF LastSeq
<1>2. CASE S # {}
  <2> DEFINE Q == {e.seq : e \in S}
  <2>1. PICK m \in S : \A x \in S : x.seq <= m.seq
    BY <1>2 DEF HasMax
  <2>2. Q \in SUBSET Nat /\ m.seq \in Q /\ \A y \in Q : m.seq >= y
    BY <2>1 DEF Event
  <2>3. Max(Q) \in Q /\ \A y \in Q : Max(Q) >= y
    BY <2>2 DEF Max
  <2>4. LastSeq(S) = Max(Q)
    BY <1>2 DEF LastSeq
  <2> QED BY <2>2, <2>3, <2>4
<1> QED BY <1>1, <1>2

(* A part of a set with maxima has maxima.                                  *)
LEMMA HasMaxSubset ==
  ASSUME NEW S, NEW T \in SUBSET S, HasMax(S)
  PROVE  HasMax(T)
BY DEF HasMax

(* So does the union of two such sets.                                      *)
LEMMA HasMaxUnion ==
  ASSUME NEW S \in SUBSET Event, NEW T \in SUBSET Event, HasMax(S), HasMax(T)
  PROVE  HasMax(S \cup T)
<1> SUFFICES ASSUME NEW U \in SUBSET (S \cup T), U # {}
             PROVE  \E m \in U : \A x \in U : x.seq <= m.seq
  BY DEF HasMax
<1>0. \A x \in U : x.seq \in Nat
  BY DEF Event
<1>1. CASE U \cap S = {}
  <2> U \in SUBSET T
    BY <1>1
  <2> QED BY DEF HasMax
<1>2. CASE U \cap T = {}
  <2> U \in SUBSET S
    BY <1>2
  <2> QED BY DEF HasMax
<1>3. CASE U \cap S # {} /\ U \cap T # {}
  <2>1. PICK a \in U \cap S : \A x \in U \cap S : x.seq <= a.seq
    BY <1>3 DEF HasMax
  <2>2. PICK b \in U \cap T : \A x \in U \cap T : x.seq <= b.seq
    BY <1>3 DEF HasMax
  <2>3. CASE a.seq <= b.seq
    BY <2>1, <2>2, <2>3, <1>0
  <2>4. CASE b.seq <= a.seq
    BY <2>1, <2>2, <2>4, <1>0
  <2> QED BY <2>3, <2>4, <1>0
<1> QED BY <1>1, <1>2, <1>3

(* Adding one event keeps maxima.                                           *)
LEMMA HasMaxAdd ==
  ASSUME NEW S \in SUBSET Event, NEW e \in Event, HasMax(S)
  PROVE  HasMax(S \cup {e}) /\ S \cup {e} \in SUBSET Event
<1>1. HasMax({e})
  BY DEF HasMax, Event
<1> QED BY <1>1, HasMaxUnion

-----------------------------------------------------------------------------
(* Type correctness.                                                        *)

(* The shape of the emit loop.  Sinks are at work only after an event was   *)
(* emitted, and the buffer of the draft sink has room for it: a full buffer *)
(* is written, or ends the stream.                                          *)
LoopInv ==
  /\ status \in {"none", "queued"} => pc = "none"
  /\ pc \in {"none", "setup", "replay", "stream"} => sinks = {}
  /\ sinks # {} => kind # "none"
  /\ pc \in {"none", "setup", "replay", "stream", "emit"} \/ "draft" \in sinks
       => pending < MaxPending

(* What type correctness needs beside itself.                               *)
TypeInv == TypeOK /\ HasMax(events) /\ HasMax(stream) /\ LoopInv

(* The seq PostgreSQL knows of is a natural number, above every event and   *)
(* the draft, and is one of them.                                           *)
LEMMA DurableSeqType ==
  ASSUME TypeInv
  PROVE  /\ DurableSeq \in Nat /\ draft <= DurableSeq
         /\ \A e \in events : e.seq <= DurableSeq
         /\ LastSeq(events) \in Nat /\ LastSeq(stream) \in Nat
<1>1. /\ events \in SUBSET Event /\ HasMax(events)
      /\ stream \in SUBSET Event /\ HasMax(stream) /\ draft \in Nat
  BY DEF TypeInv, TypeOK
<1>2. /\ LastSeq(events) \in Nat /\ LastSeq(stream) \in Nat
      /\ \A e \in events : e.seq <= LastSeq(events)
  BY <1>1, LastSeqIsMax
<1>3. \A e \in events : e.seq \in Nat
  BY <1>1 DEF Event
<1> QED BY <1>1, <1>2, <1>3 DEF DurableSeq

(* A best-effort append leaves a set of events with maxima.                 *)
LEMMA AppendType ==
  ASSUME TypeInv, NEW e \in Event, Append(e)
  PROVE  /\ stream' \in SUBSET Event /\ HasMax(stream')
         /\ faults' \in 0..MaxFaults /\ asked' = asked /\ zombie' = zombie
<1>1. XAdd(stream, e) \in SUBSET Event /\ HasMax(XAdd(stream, e))
  BY HasMaxAdd DEF TypeInv, TypeOK, XAdd
<1> QED BY <1>1, BoundAssumption DEF Append, Fault, hist, TypeInv, TypeOK

(* A terminal transaction leaves a set of events with maxima.               *)
LEMMA SetTerminalType ==
  ASSUME TypeInv, NEW s \in TerminalStatuses, NEW n \in Nat, SetTerminal(s, n)
  PROVE  /\ events' \in SUBSET Event /\ HasMax(events')
         /\ status' \in Statuses /\ lease' = "none"
<1>1. Ev(n, TerminalType(s)) \in Event
  BY DEF Ev, Event, TerminalType, TerminalTypes, TerminalStatuses
<1> QED BY <1>1, HasMaxAdd DEF SetTerminal, TypeInv, TypeOK, Statuses, TerminalStatuses

(* The initial state is well typed.                                         *)
LEMMA TypeInit == Init => TypeInv
<1> SUFFICES ASSUME Init PROVE TypeInv
  OBVIOUS
<1>1. HasMax({})
  BY DEF HasMax
<1>2. HasMax(events) /\ HasMax(stream)
  BY <1>1 DEF Init
<1>3. faults \in 0..MaxFaults /\ pending \in 0..MaxPending
  BY BoundAssumption DEF Init
<1>4. TypeOK
  BY <1>3, Zenon DEF Init, TypeOK, Statuses, Places
<1>5. LoopInv
  BY BoundAssumption DEF Init, LoopInv
<1> QED BY <1>2, <1>4, <1>5 DEF TypeInv

(* A fault only uses up the budget.                                         *)
LEMMA FaultType ==
  ASSUME TypeInv, Fault
  PROVE  faults' \in 0..MaxFaults /\ asked' = asked /\ zombie' = zombie
BY BoundAssumption DEF TypeInv, TypeOK, Fault

(* Every step keeps the shape of the loop.                                  *)
LEMMA LoopStep == TypeInv /\ [Next]_vars => LoopInv'
<1> SUFFICES ASSUME TypeInv, [Next]_vars PROVE LoopInv'
  OBVIOUS
<1>0. /\ pending \in Nat /\ pending <= MaxPending /\ MaxPending \in Nat
      /\ MaxPending > 0 /\ LoopInv
  BY BoundAssumption DEF TypeInv, TypeOK
<1> USE DEF LoopInv, pg, redis, exec, sink, rec, hist
<1>1. CASE CreateRun
  BY <1>0, <1>1 DEF CreateRun
<1>2. CASE CancelOwnedRun
  BY <1>0, <1>2 DEF CancelOwnedRun, SetTerminal
<1>3. CASE CancelRunRoutePublish
  BY <1>0, <1>3 DEF CancelRunRoutePublish
<1>4. CASE CancelHint
  BY <1>0, <1>4 DEF CancelHint
<1>5. CASE ClaimNextQueuedRun
  BY <1>0, <1>5 DEF ClaimNextQueuedRun
<1>6. CASE Setup
  BY <1>0, <1>6 DEF Setup
<1>7. CASE PublishPersistedEvents
  BY <1>0, <1>7 DEF PublishPersistedEvents
<1>8. CASE EmitEvent
  BY <1>0, <1>8 DEF EmitEvent
<1>9. CASE AgentEnds
  BY <1>0, <1>9 DEF AgentEnds
<1>10. CASE StopOnCancel
  BY <1>0, <1>10 DEF StopOnCancel
<1>11. CASE AgentRaises
  BY <1>0, <1>11 DEF AgentRaises
<1>12. CASE RedisSinkEmit
  BY <1>0, <1>12 DEF RedisSinkEmit, Finished
<1>13. CASE PgSinkEmit
  BY <1>0, <1>13 DEF PgSinkEmit, Finished
<1>14. CASE PgSinkRaises
  BY <1>0, <1>14 DEF PgSinkRaises, Finished, SinkRaises
<1>15. CASE DraftSinkEmit
  BY <1>0, <1>15 DEF DraftSinkEmit, Finished
<1>16. CASE DraftSinkRaises
  BY <1>0, <1>16 DEF DraftSinkRaises, Finished, SinkRaises
<1>17. CASE Emitted
  BY <1>0, <1>17 DEF Emitted
<1>18. CASE TimerCheckpoint
  BY <1>0, <1>18 DEF TimerCheckpoint
<1>19. CASE Flush
  BY <1>0, <1>19 DEF Flush, Checkpoint
<1>20. CASE FlushRaises
  BY <1>0, <1>20 DEF FlushRaises
<1>21. CASE FinalizeResult
  BY <1>0, <1>21 DEF FinalizeResult, SetTerminal, FinalStatus
<1>22. CASE Aclose
  BY <1>0, <1>22 DEF Aclose, Checkpoint
<1>23. CASE MarkError
  BY <1>0, <1>23 DEF MarkError, SetTerminal, ErrorStatus
<1>24. CASE ExecutorRaises
  BY <1>0, <1>24 DEF ExecutorRaises
<1>25. CASE PublishTerminal
  BY <1>0, <1>25 DEF PublishTerminal
<1>26. CASE DeleteDraft
  BY <1>0, <1>26 DEF DeleteDraft, Checkpoint
<1>27. CASE Heartbeat
  BY <1>0, <1>27 DEF Heartbeat
<1>28. CASE HeartbeatRaises
  BY <1>0, <1>28 DEF HeartbeatRaises
<1>29. CASE LeaseExpires
  BY <1>0, <1>29 DEF LeaseExpires
<1>30. CASE WorkerCrashes
  BY <1>0, <1>30 DEF WorkerCrashes, Running
<1>31. CASE RecoverRead
  BY <1>0, <1>31 DEF RecoverRead
<1>32. CASE RecoverCommit
  BY <1>0, <1>32 DEF RecoverCommit, SetTerminal
<1>33. CASE RecoverAborts
  BY <1>0, <1>33 DEF RecoverAborts
<1>34. CASE BroadcastTerminal
  BY <1>0, <1>34 DEF BroadcastTerminal
<1>35. CASE UNCHANGED vars
  BY <1>0, <1>35 DEF vars
<1> QED BY <1>1, <1>2, <1>3, <1>4, <1>5, <1>6, <1>7, <1>8, <1>9, <1>10, <1>11, <1>12, <1>13, <1>14, <1>15, <1>16, <1>17, <1>18, <1>19, <1>20, <1>21, <1>22, <1>23, <1>24, <1>25, <1>26, <1>27, <1>28, <1>29, <1>30, <1>31, <1>32, <1>33, <1>34, <1>35
           DEF Next, Requests, Agent, Sinks, Ending, Leases

(* Every step keeps the state well typed.                                   *)
LEMMA TypeStep == TypeInv /\ [Next]_vars => TypeInv'
<1> SUFFICES ASSUME TypeInv, [Next]_vars PROVE TypeInv'
  OBVIOUS
<1> USE LoopStep DEF pg, redis, exec, sink, rec, hist
<1>1. CASE CreateRun
  BY <1>1 DEF CreateRun, TypeInv, TypeOK, Statuses
<1>2. CASE CancelOwnedRun
  <2>1. /\ events' \in SUBSET Event /\ HasMax(events')
        /\ status' \in Statuses /\ lease' \in {"none", "live", "expired"}
        /\ asked' \in BOOLEAN
    <3>1. CASE status = "queued" /\ SetTerminal("cancelled", DurableSeq + 1) /\ asked' = TRUE
      BY <3>1, SetTerminalType, DurableSeqType DEF TerminalStatuses
    <3>2. CASE status' = "cancelling" /\ asked' = TRUE /\ UNCHANGED <<lease, events>>
      BY <3>2 DEF TypeInv, TypeOK, Statuses, RenewableStatuses
    <3>3. CASE UNCHANGED <<status, lease, events, asked>>
      BY <3>3 DEF TypeInv, TypeOK
    <3> QED BY <1>2, <3>1, <3>2, <3>3 DEF CancelOwnedRun
  <2> QED BY <1>2, <2>1 DEF CancelOwnedRun, TypeInv, TypeOK
<1>3. CASE CancelRunRoutePublish
  <2>1. /\ stream' \in SUBSET Event /\ HasMax(stream')
        /\ faults' \in 0..MaxFaults /\ asked' = asked /\ zombie' = zombie
    <3>1. CASE Terminal
      <4>1. PICK e \in events : Append(e)
        BY <1>3, <3>1 DEF CancelRunRoutePublish
      <4>2. e \in Event
        BY DEF TypeInv, TypeOK
      <4> QED BY <4>1, <4>2, AppendType
    <3>2. CASE ~Terminal
      BY <1>3, <3>2 DEF CancelRunRoutePublish, TypeInv, TypeOK
    <3> QED BY <3>1, <3>2
  <2>2. hint' \in BOOLEAN
    BY <1>3 DEF CancelRunRoutePublish, TypeInv, TypeOK
  <2> QED BY <1>3, <2>1, <2>2 DEF CancelRunRoutePublish, TypeInv, TypeOK
<1>4. CASE CancelHint
  <2>1. cancel' \in BOOLEAN /\ hint' \in BOOLEAN
    BY <1>4, Zenon DEF CancelHint, TypeInv, TypeOK
  <2> QED BY <1>4, <2>1 DEF CancelHint, TypeInv, TypeOK
<1>5. CASE ClaimNextQueuedRun
  <2>1. Ev(DurableSeq + 1, "run_started") \in Event
    BY DurableSeqType DEF Ev, Event
  <2>2. events' \in SUBSET Event /\ HasMax(events')
    BY <1>5, <2>1, HasMaxAdd DEF ClaimNextQueuedRun, TypeInv, TypeOK
  <2>3. status' \in Statuses /\ pc' \in Places
    BY <1>5 DEF ClaimNextQueuedRun, Statuses, RenewableStatuses, Places
  <2> QED BY <1>5, <2>2, <2>3 DEF ClaimNextQueuedRun, TypeInv, TypeOK
<1>6. CASE Setup
  BY <1>6, DurableSeqType DEF Setup, Places, TypeInv, TypeOK
<1>7. CASE PublishPersistedEvents
  <2>1. Replay \in SUBSET Event /\ HasMax(Replay)
    <3>1. {e \in events : e.seq > LastSeq(stream)} \in SUBSET events
      OBVIOUS
    <3>2. /\ HasMax({e \in events : e.seq > LastSeq(stream)})
          /\ {e \in events : e.seq > LastSeq(stream)} \in SUBSET Event
      BY <3>1, HasMaxSubset DEF TypeInv, TypeOK
    <3> QED BY <3>2, HasMaxUnion DEF Replay, TypeInv, TypeOK
  <2>2. stream' \in SUBSET Replay
    BY <1>7 DEF PublishPersistedEvents
  <2>3. stream' \in SUBSET Event /\ HasMax(stream')
    BY <2>1, <2>2, HasMaxSubset
  <2>4. faults' \in 0..MaxFaults /\ asked' = asked /\ zombie' = zombie
    BY <1>7, FaultType DEF PublishPersistedEvents, TypeInv, TypeOK
  <2>5. pc' \in Places /\ heartbeat' \in BOOLEAN
    BY <1>7 DEF PublishPersistedEvents, Places, TypeInv, TypeOK
  <2> QED BY <1>7, <2>3, <2>4, <2>5 DEF PublishPersistedEvents, TypeInv, TypeOK
<1>8. CASE EmitEvent
  BY <1>8 DEF EmitEvent, Places, TypeInv, TypeOK
<1>9. CASE AgentEnds
  BY <1>9 DEF AgentEnds, Places, TypeInv, TypeOK
<1>10. CASE StopOnCancel
  BY <1>10 DEF StopOnCancel, Places, TypeInv, TypeOK
<1>11. CASE AgentRaises
  BY <1>11 DEF AgentRaises, Places, TypeInv, TypeOK
<1>12. CASE RedisSinkEmit
  <2>1. Ev(seq, kind) \in Event
    BY <1>12 DEF RedisSinkEmit, Finished, Ev, Event, LoopInv, TypeInv, TypeOK
  <2>2. /\ stream' \in SUBSET Event /\ HasMax(stream')
        /\ faults' \in 0..MaxFaults /\ asked' = asked /\ zombie' = zombie
    BY <1>12, <2>1, AppendType DEF RedisSinkEmit
  <2> QED BY <1>12, <2>2 DEF RedisSinkEmit, Finished, TypeInv, TypeOK
<1>13. CASE PgSinkEmit
  <2>1. /\ events' \in SUBSET Event /\ HasMax(events')
        /\ status' \in Statuses
    <3>1. CASE UNCHANGED <<status, events>>
      BY <3>1 DEF TypeInv, TypeOK
    <3>2. CASE /\ status' = IF streamingStarted THEN status ELSE "streaming"
               /\ events' = IF kind = "tool" THEN events \cup {Ev(seq, kind)} ELSE events
      <4>1. kind = "tool" => Ev(seq, kind) \in Event
        BY DEF Ev, Event, TypeInv, TypeOK
      <4>2. events' \in SUBSET Event /\ HasMax(events')
        BY <3>2, <4>1, HasMaxAdd DEF TypeInv, TypeOK
      <4>3. status' \in Statuses
        BY <3>2 DEF TypeInv, TypeOK, Statuses, RenewableStatuses
      <4> QED BY <4>2, <4>3
    <3> QED BY <1>13, <3>1, <3>2 DEF PgSinkEmit
  <2>2. streamingStarted' \in BOOLEAN /\ cancel' \in BOOLEAN
    BY <1>13 DEF PgSinkEmit, TypeInv, TypeOK
  <2> QED BY <1>13, <2>1, <2>2 DEF PgSinkEmit, Finished, TypeInv, TypeOK
<1>14. CASE PgSinkRaises
  <2>1. faults' \in 0..MaxFaults /\ asked' = asked /\ zombie' = zombie
    BY <1>14, FaultType DEF PgSinkRaises, TypeInv, TypeOK
  <2>2. pc' \in Places /\ cancel' \in BOOLEAN
    BY <1>14 DEF PgSinkRaises, SinkRaises, Places, TypeInv, TypeOK
  <2> QED BY <1>14, <2>1, <2>2 DEF PgSinkRaises, Finished, TypeInv, TypeOK
<1>15. CASE DraftSinkEmit
  <2>1. draft' \in Nat /\ latest' \in Nat /\ pending' \in 0..MaxPending
    BY <1>15, BoundAssumption DEF DraftSinkEmit, Finished, TypeInv, TypeOK
  <2> QED BY <1>15, <2>1 DEF DraftSinkEmit, Finished, TypeInv, TypeOK
<1>16. CASE DraftSinkRaises
  <2>1. faults' \in 0..MaxFaults /\ asked' = asked /\ zombie' = zombie
    BY <1>16, FaultType DEF DraftSinkRaises, TypeInv, TypeOK
  <2>2. pc' \in Places /\ cancel' \in BOOLEAN
    BY <1>16 DEF DraftSinkRaises, SinkRaises, Places, TypeInv, TypeOK
  <2>3. latest' \in Nat /\ pending' \in 0..MaxPending
    BY <1>16, BoundAssumption DEF DraftSinkRaises, Finished, LoopInv, TypeInv, TypeOK
  <2> QED BY <1>16, <2>1, <2>2, <2>3 DEF DraftSinkRaises, Finished, TypeInv, TypeOK
<1>17. CASE Emitted
  BY <1>17 DEF Emitted, Places, TypeInv, TypeOK
<1>18. CASE TimerCheckpoint
  <2>1. faults' \in 0..MaxFaults /\ asked' = asked /\ zombie' = zombie
    BY <1>18, FaultType DEF TimerCheckpoint, TypeInv, TypeOK
  <2>2. bgError' \in BOOLEAN /\ cancel' \in BOOLEAN
    BY <1>18 DEF TimerCheckpoint, TypeInv, TypeOK
  <2>3. draft' \in Nat /\ pending' \in 0..MaxPending /\ pending' <= pending
    BY <1>18, BoundAssumption DEF TimerCheckpoint, TypeInv, TypeOK
  <2> QED BY <1>18, <2>1, <2>2, <2>3 DEF TimerCheckpoint, TypeInv, TypeOK
<1>19. CASE Flush
  <2>1. draft' \in Nat /\ pending' \in 0..MaxPending
    BY <1>19, BoundAssumption DEF Flush, Checkpoint, TypeInv, TypeOK
  <2>2. pc' \in Places /\ heartbeat' \in BOOLEAN
    BY <1>19 DEF Flush, Places
  <2> QED BY <1>19, <2>1, <2>2 DEF Flush, TypeInv, TypeOK
<1>20. CASE FlushRaises
  <2>1. faults' \in 0..MaxFaults /\ asked' = asked /\ zombie' = zombie
    BY <1>20, FaultType DEF FlushRaises, TypeInv, TypeOK
  <2> QED BY <1>20, <2>1 DEF FlushRaises, Places, TypeInv, TypeOK
<1>21. CASE FinalizeResult
  <2>1. FinalStatus # "none" => FinalStatus \in TerminalStatuses
    BY DEF FinalStatus, TerminalStatuses
  <2>2. seq + 1 \in Nat
    BY DEF TypeInv, TypeOK
  <2>3. /\ events' \in SUBSET Event /\ HasMax(events')
        /\ status' \in Statuses /\ lease' \in {"none", "live", "expired"}
        /\ message' \in BOOLEAN
    BY <1>21, <2>1, <2>2, SetTerminalType DEF FinalizeResult, TypeInv, TypeOK
  <2>4. terminal' \in {"none"} \cup TerminalTypes
    BY <1>21, <2>1 DEF FinalizeResult, TypeInv, TypeOK, TerminalType, TerminalTypes,
                       TerminalStatuses
  <2> QED BY <1>21, <2>3, <2>4 DEF FinalizeResult, Places, TypeInv, TypeOK
<1>22. CASE Aclose
  <2>1. faults' \in 0..MaxFaults /\ asked' = asked /\ zombie' = zombie
    BY <1>22, FaultType DEF Aclose, TypeInv, TypeOK
  <2>2. draft' \in Nat /\ pending' \in 0..MaxPending
    BY <1>22, BoundAssumption DEF Aclose, Checkpoint, TypeInv, TypeOK
  <2> QED BY <1>22, <2>1, <2>2 DEF Aclose, Places, TypeInv, TypeOK
<1>23. CASE MarkError
  <2>1. ErrorStatus # "none" => ErrorStatus \in TerminalStatuses
    BY DEF ErrorStatus, TerminalStatuses
  <2>2. seq + 1 \in Nat
    BY DEF TypeInv, TypeOK
  <2>3. /\ events' \in SUBSET Event /\ HasMax(events')
        /\ status' \in Statuses /\ lease' \in {"none", "live", "expired"}
    BY <1>23, <2>1, <2>2, SetTerminalType DEF MarkError, TypeInv, TypeOK
  <2>4. terminal' \in {"none"} \cup TerminalTypes
    BY <1>23, <2>1 DEF MarkError, TypeInv, TypeOK, TerminalType, TerminalTypes,
                       TerminalStatuses
  <2> QED BY <1>23, <2>3, <2>4 DEF MarkError, Places, TypeInv, TypeOK
<1>24. CASE ExecutorRaises
  <2>1. faults' \in 0..MaxFaults /\ asked' = asked /\ zombie' = zombie
    BY <1>24, FaultType DEF ExecutorRaises
  <2>2. pc' \in Places /\ heartbeat' \in BOOLEAN
    BY <1>24 DEF ExecutorRaises, Places
  <2> QED BY <1>24, <2>1, <2>2 DEF ExecutorRaises, TypeInv, TypeOK
<1>25. CASE PublishTerminal
  <2>1. terminal # "none" => Ev(seq + 1, terminal) \in Event
    BY DEF Ev, Event, TypeInv, TypeOK
  <2>2. /\ stream' \in SUBSET Event /\ HasMax(stream')
        /\ faults' \in 0..MaxFaults /\ asked' = asked /\ zombie' = zombie
    BY <1>25, <2>1, AppendType DEF PublishTerminal, TypeInv, TypeOK
  <2>3. pc' \in Places
    BY <1>25 DEF PublishTerminal, Places
  <2> QED BY <1>25, <2>2, <2>3 DEF PublishTerminal, TypeInv, TypeOK
<1>26. CASE DeleteDraft
  <2>1. faults' \in 0..MaxFaults /\ asked' = asked /\ zombie' = zombie
    BY <1>26, FaultType DEF DeleteDraft, TypeInv, TypeOK
  <2>2. draft' \in Nat /\ pending' \in 0..MaxPending
    BY <1>26, BoundAssumption DEF DeleteDraft, Checkpoint, TypeInv, TypeOK
  <2>3. pc' \in Places /\ heartbeat' \in BOOLEAN
    BY <1>26 DEF DeleteDraft, Places
  <2> QED BY <1>26, <2>1, <2>2, <2>3 DEF DeleteDraft, TypeInv, TypeOK
<1>27. CASE Heartbeat
  <2>1. lease' \in {"none", "live", "expired"}
    BY <1>27 DEF Heartbeat, TypeInv, TypeOK
  <2>2. cancel' \in BOOLEAN /\ heartbeat' \in BOOLEAN
    BY <1>27 DEF Heartbeat, TypeInv, TypeOK
  <2> QED BY <1>27, <2>1, <2>2 DEF Heartbeat, TypeInv, TypeOK
<1>28. CASE HeartbeatRaises
  <2>1. faults' \in 0..MaxFaults /\ asked' = asked /\ zombie' = zombie
    BY <1>28, FaultType DEF HeartbeatRaises
  <2>2. cancel' \in BOOLEAN /\ heartbeat' \in BOOLEAN
    BY <1>28 DEF HeartbeatRaises
  <2> QED BY <1>28, <2>1, <2>2 DEF HeartbeatRaises, TypeInv, TypeOK
<1>29. CASE LeaseExpires
  BY <1>29 DEF LeaseExpires, TypeInv, TypeOK
<1>30. CASE WorkerCrashes
  <2>1. pc' \in Places /\ pending' \in 0..MaxPending
    BY <1>30, BoundAssumption DEF WorkerCrashes, Places
  <2> QED BY <1>30, <2>1, FaultType DEF WorkerCrashes, TypeInv, TypeOK
<1>31. CASE RecoverRead
  <2>1. recSeq' \in Nat
    <3>1. Max({DurableSeq, LastSeq(stream)}) \in Nat
      BY DurableSeqType DEF Max
    <3> QED BY <1>31, <3>1, GapAssumption, DurableSeqType DEF RecoverRead
  <2>2. zombie' \in BOOLEAN
    BY <1>31 DEF RecoverRead
  <2> QED BY <1>31, <2>1, <2>2 DEF RecoverRead, TypeInv, TypeOK
<1>32. CASE RecoverCommit
  <2>1. /\ events' \in SUBSET Event /\ HasMax(events')
        /\ status' \in Statuses /\ lease' = "none"
    BY <1>32, SetTerminalType DEF RecoverCommit, TerminalStatuses, TypeInv, TypeOK
  <2> QED BY <1>32, <2>1 DEF RecoverCommit, TypeInv, TypeOK
<1>33. CASE RecoverAborts
  BY <1>33, FaultType DEF RecoverAborts, TypeInv, TypeOK
<1>34. CASE BroadcastTerminal
  <2>1. Ev(recSeq, "run_failed") \in Event
    BY DEF Ev, Event, TerminalTypes, TypeInv, TypeOK
  <2>2. /\ stream' \in SUBSET Event /\ HasMax(stream')
        /\ faults' \in 0..MaxFaults /\ asked' = asked /\ zombie' = zombie
    BY <1>34, <2>1, AppendType DEF BroadcastTerminal
  <2> QED BY <1>34, <2>2 DEF BroadcastTerminal, TypeInv, TypeOK
<1>35. CASE UNCHANGED vars
  BY <1>35 DEF vars, TypeInv, TypeOK
<1> QED BY <1>1, <1>2, <1>3, <1>4, <1>5, <1>6, <1>7, <1>8, <1>9, <1>10, <1>11, <1>12, <1>13, <1>14, <1>15, <1>16, <1>17, <1>18, <1>19, <1>20, <1>21, <1>22, <1>23, <1>24, <1>25, <1>26, <1>27, <1>28, <1>29, <1>30, <1>31, <1>32, <1>33, <1>34, <1>35
           DEF Next, Requests, Agent, Sinks, Ending, Leases

(* Every reachable state is well typed; in particular the buffer of the     *)
(* draft sink never exceeds its limit.                                      *)
THEOREM TypeCorrect == Safety => []TypeOK
<1>1. Safety => []TypeInv
  BY TypeInit, TypeStep, PTL DEF Safety
<1>2. TypeInv => TypeOK
  BY DEF TypeInv
<1> QED BY <1>1, <1>2, PTL

-----------------------------------------------------------------------------
(* The row of the run: status, terminal event, message and lease agree.     *)

(* While recovery holds the row nothing else moves it, so the run it is     *)
(* about to fail is still active.                                           *)
RowInv == /\ TerminalEventMatches
          /\ MessageIffSucceeded
          /\ LeasedWhileActive
          /\ recovery = "read" => Active

(* A step that leaves the row and its events alone keeps the agreement.     *)
LEMMA RowFrame ==
  ASSUME RowInv, UNCHANGED <<status, lease, events, message, recovery>>
  PROVE  RowInv'
BY DEF RowInv, TerminalEventMatches, MessageIffSucceeded, LeasedWhileActive,
       TerminalEvents, Terminal, Active

(* An event that is not terminal does not change what the events say.       *)
LEMMA OtherEvent ==
  ASSUME NEW n, NEW t, t \notin TerminalTypes, events' = events \cup {Ev(n, t)}
  PROVE  TerminalEvents' = TerminalEvents
BY DEF TerminalEvents, Ev

(* A terminal transaction on a run that is not terminal: one event, of the  *)
(* right type, and no lease any more.                                       *)
LEMMA SetTerminalRow ==
  ASSUME RowInv, NEW s \in TerminalStatuses, NEW n, ~Terminal, SetTerminal(s, n)
  PROVE  TerminalEventMatches' /\ LeasedWhileActive'
<1>1. TerminalEvents = {}
  BY DEF RowInv, TerminalEventMatches
<1>2. /\ Ev(n, TerminalType(s)).type = TerminalType(s)
      /\ TerminalType(s) \in TerminalTypes
  BY DEF Ev, TerminalType, TerminalTypes, TerminalStatuses
<1>3. TerminalEvents' = {Ev(n, TerminalType(s))}
  BY <1>1, <1>2 DEF SetTerminal, TerminalEvents
<1>4. Terminal' /\ ~Active' /\ status' = s /\ lease' = "none"
  BY DEF SetTerminal, Terminal, Active, TerminalStatuses, RenewableStatuses
<1> QED BY <1>2, <1>3, <1>4 DEF TerminalEventMatches, LeasedWhileActive

(* Initially there is no row.                                               *)
LEMMA RowInit == Init => RowInv
BY DEF Init, RowInv, TerminalEventMatches, MessageIffSucceeded, LeasedWhileActive,
       TerminalEvents, Terminal, Active, TerminalStatuses, RenewableStatuses

(* Every step keeps the row and its events in agreement.                    *)
LEMMA RowStep == TypeInv /\ RowInv /\ [Next]_vars => RowInv'
<1> SUFFICES ASSUME TypeInv, RowInv, [Next]_vars PROVE RowInv'
  OBVIOUS
<1> USE DEF pg, redis, exec, sink, rec, hist
<1>1. CASE CreateRun
  BY <1>1, Zenon DEF CreateRun, RowInv, TerminalEventMatches, MessageIffSucceeded,
     LeasedWhileActive, TerminalEvents, Terminal, Active, TerminalStatuses,
     RenewableStatuses
<1>2. CASE CancelOwnedRun
  <2>0. recovery' = recovery /\ recovery # "read" /\ message' = message
    BY <1>2 DEF CancelOwnedRun, RowFree
  <2>1. CASE status = "queued" /\ SetTerminal("cancelled", DurableSeq + 1)
    <3>1. ~Terminal /\ status' = "cancelled" /\ "cancelled" \in TerminalStatuses
      BY <2>1 DEF SetTerminal, Terminal, TerminalStatuses
    <3>2. TerminalEventMatches' /\ LeasedWhileActive'
      BY <2>1, <3>1, SetTerminalRow
    <3>3. MessageIffSucceeded'
      BY <2>0, <2>1, <3>1 DEF RowInv, MessageIffSucceeded
    <3> QED BY <2>0, <3>2, <3>3 DEF RowInv
  <2>2. CASE /\ status \in {"started", "streaming"} /\ status' = "cancelling"
             /\ UNCHANGED <<lease, events>>
    BY <2>0, <2>2 DEF RowInv, TerminalEventMatches, MessageIffSucceeded, TerminalEvents,
       LeasedWhileActive, Terminal, Active, TerminalStatuses, RenewableStatuses
  <2>3. CASE UNCHANGED <<status, lease, events>>
    BY <2>0, <2>3, RowFrame
  <2> QED BY <1>2, <2>1, <2>2, <2>3 DEF CancelOwnedRun
<1>3. CASE CancelRunRoutePublish
  BY <1>3, RowFrame DEF CancelRunRoutePublish
<1>4. CASE CancelHint
  BY <1>4, RowFrame DEF CancelHint
<1>5. CASE ClaimNextQueuedRun
  <2>1. TerminalEvents' = TerminalEvents
    BY <1>5, OtherEvent DEF ClaimNextQueuedRun, TerminalTypes
  <2> QED BY <1>5, <2>1 DEF ClaimNextQueuedRun, RowFree, RowInv, TerminalEventMatches,
       MessageIffSucceeded, LeasedWhileActive, Terminal, Active, TerminalStatuses,
       RenewableStatuses
<1>6. CASE Setup
  BY <1>6, RowFrame DEF Setup
<1>7. CASE PublishPersistedEvents
  BY <1>7, RowFrame DEF PublishPersistedEvents
<1>8. CASE EmitEvent
  BY <1>8, RowFrame DEF EmitEvent
<1>9. CASE AgentEnds
  BY <1>9, RowFrame DEF AgentEnds
<1>10. CASE StopOnCancel
  BY <1>10, RowFrame DEF StopOnCancel
<1>11. CASE AgentRaises
  BY <1>11, RowFrame DEF AgentRaises
<1>12. CASE RedisSinkEmit
  BY <1>12, RowFrame DEF RedisSinkEmit
<1>13. CASE PgSinkEmit
  <2>0. UNCHANGED <<lease, message, recovery>>
    BY <1>13 DEF PgSinkEmit
  <2>1. CASE UNCHANGED <<status, events>>
    BY <2>0, <2>1, RowFrame
  <2>2. CASE /\ streamingStarted \/ status = "started"
             /\ status' = IF streamingStarted THEN status ELSE "streaming"
             /\ events' = IF kind = "tool" THEN events \cup {Ev(seq, kind)} ELSE events
    <3>1. TerminalEvents' = TerminalEvents
      <4>1. CASE kind = "tool"
        BY <2>2, <4>1, OtherEvent DEF TerminalTypes
      <4>2. CASE kind # "tool"
        BY <2>2, <4>2 DEF TerminalEvents
      <4> QED BY <4>1, <4>2
    <3> QED BY <2>0, <2>2, <3>1 DEF RowInv, TerminalEventMatches, MessageIffSucceeded,
          LeasedWhileActive, Terminal, Active, TerminalStatuses, RenewableStatuses
  <2> QED BY <1>13, <2>1, <2>2 DEF PgSinkEmit
<1>14. CASE PgSinkRaises
  BY <1>14, RowFrame DEF PgSinkRaises
<1>15. CASE DraftSinkEmit
  BY <1>15, RowFrame DEF DraftSinkEmit
<1>16. CASE DraftSinkRaises
  BY <1>16, RowFrame DEF DraftSinkRaises
<1>17. CASE Emitted
  BY <1>17, RowFrame DEF Emitted
<1>18. CASE TimerCheckpoint
  BY <1>18, RowFrame DEF TimerCheckpoint
<1>19. CASE Flush
  BY <1>19, RowFrame DEF Flush
<1>20. CASE FlushRaises
  BY <1>20, RowFrame DEF FlushRaises
<1>21. CASE FinalizeResult
  <2>0. recovery' = recovery /\ recovery # "read"
    BY <1>21 DEF FinalizeResult, RowFree
  <2>1. CASE FinalStatus = "none"
    BY <1>21, <2>1, RowFrame DEF FinalizeResult
  <2>2. CASE FinalStatus # "none"
    <3>1. ~Terminal /\ FinalStatus \in TerminalStatuses
      BY <2>2 DEF FinalStatus, Terminal, TerminalStatuses, SucceededFrom, CancelledFrom
    <3>2. /\ SetTerminal(FinalStatus, seq + 1) /\ status' = FinalStatus
          /\ message' = (FinalStatus = "succeeded")
      BY <1>21, <2>2 DEF FinalizeResult, SetTerminal
    <3>3. TerminalEventMatches' /\ LeasedWhileActive'
      BY <3>1, <3>2, SetTerminalRow
    <3>4. MessageIffSucceeded'
      BY <3>2 DEF MessageIffSucceeded
    <3> QED BY <2>0, <3>3, <3>4 DEF RowInv
  <2> QED BY <2>1, <2>2
<1>22. CASE Aclose
  BY <1>22, RowFrame DEF Aclose
<1>23. CASE MarkError
  <2>0. recovery' = recovery /\ recovery # "read" /\ message' = message
    BY <1>23 DEF MarkError, RowFree
  <2>1. CASE ErrorStatus = "none"
    BY <1>23, <2>1, RowFrame DEF MarkError
  <2>2. CASE ErrorStatus # "none"
    <3>1. /\ ~Terminal /\ ErrorStatus \in TerminalStatuses
          /\ ErrorStatus # "succeeded" /\ status # "succeeded"
      BY <2>2 DEF ErrorStatus, Terminal, TerminalStatuses, SucceededFrom
    <3>2. SetTerminal(ErrorStatus, seq + 1) /\ status' = ErrorStatus
      BY <1>23, <2>2 DEF MarkError, SetTerminal
    <3>3. TerminalEventMatches' /\ LeasedWhileActive'
      BY <3>1, <3>2, SetTerminalRow
    <3>4. MessageIffSucceeded'
      BY <2>0, <3>1, <3>2 DEF RowInv, MessageIffSucceeded
    <3> QED BY <2>0, <3>3, <3>4 DEF RowInv
  <2> QED BY <2>1, <2>2
<1>24. CASE ExecutorRaises
  BY <1>24, RowFrame DEF ExecutorRaises
<1>25. CASE PublishTerminal
  BY <1>25, RowFrame DEF PublishTerminal
<1>26. CASE DeleteDraft
  BY <1>26, RowFrame DEF DeleteDraft
<1>27. CASE Heartbeat
  BY <1>27 DEF Heartbeat, RowInv, TerminalEventMatches, MessageIffSucceeded,
     LeasedWhileActive, TerminalEvents, Terminal, Active
<1>28. CASE HeartbeatRaises
  BY <1>28, RowFrame DEF HeartbeatRaises
<1>29. CASE LeaseExpires
  BY <1>29 DEF LeaseExpires, RowInv, TerminalEventMatches, MessageIffSucceeded,
     LeasedWhileActive, TerminalEvents, Terminal, Active
<1>30. CASE WorkerCrashes
  BY <1>30, RowFrame DEF WorkerCrashes
<1>31. CASE RecoverRead
  BY <1>31 DEF RecoverRead, RowInv, TerminalEventMatches, MessageIffSucceeded,
     LeasedWhileActive, TerminalEvents, Terminal, Active
<1>32. CASE RecoverCommit
  <2>1. Active /\ ~Terminal /\ status # "succeeded" /\ "failed" \in TerminalStatuses
    BY <1>32 DEF RecoverCommit, RowInv, Active, Terminal, TerminalStatuses, RenewableStatuses
  <2>2. SetTerminal("failed", recSeq) /\ status' = "failed"
    BY <1>32 DEF RecoverCommit, SetTerminal
  <2>3. TerminalEventMatches' /\ LeasedWhileActive'
    BY <2>1, <2>2, SetTerminalRow
  <2> QED BY <1>32, <2>1, <2>2, <2>3 DEF RecoverCommit, RowInv, MessageIffSucceeded
<1>33. CASE RecoverAborts
  BY <1>33 DEF RecoverAborts, RowInv, TerminalEventMatches, MessageIffSucceeded,
     LeasedWhileActive, TerminalEvents, Terminal, Active
<1>34. CASE BroadcastTerminal
  BY <1>34 DEF BroadcastTerminal, RowInv, TerminalEventMatches, MessageIffSucceeded,
     LeasedWhileActive, TerminalEvents, Terminal, Active
<1>35. CASE UNCHANGED vars
  BY <1>35, RowFrame DEF vars
<1> QED BY <1>1, <1>2, <1>3, <1>4, <1>5, <1>6, <1>7, <1>8, <1>9, <1>10, <1>11, <1>12, <1>13, <1>14, <1>15, <1>16, <1>17, <1>18, <1>19, <1>20, <1>21, <1>22, <1>23, <1>24, <1>25, <1>26, <1>27, <1>28, <1>29, <1>30, <1>31, <1>32, <1>33, <1>34, <1>35
           DEF Next, Requests, Agent, Sinks, Ending, Leases

(* The two invariants together are inductive.                               *)
LEMMA RowInvariant == Safety => [](TypeInv /\ RowInv)
<1>1. Init => TypeInv /\ RowInv
  BY TypeInit, RowInit
<1>2. (TypeInv /\ RowInv) /\ [Next]_vars => (TypeInv /\ RowInv)'
  BY TypeStep, RowStep
<1> QED BY <1>1, <1>2, PTL DEF Safety

(* The run gets exactly one terminal event, the one its status names,       *)
(* whichever of executor, cancel endpoint and recovery loop writes it.      *)
THEOREM OneTerminalEvent == Safety => []TerminalEventMatches
<1>1. TypeInv /\ RowInv => TerminalEventMatches
  BY DEF RowInv
<1> QED BY <1>1, RowInvariant, PTL

(* The assistant message exists if and only if the run succeeded.           *)
THEOREM MessageWithSuccess == Safety => []MessageIffSucceeded
<1>1. TypeInv /\ RowInv => MessageIffSucceeded
  BY DEF RowInv
<1> QED BY <1>1, RowInvariant, PTL

(* A run has a lease exactly while it is active.                            *)
THEOREM LeaseWhileActive == Safety => []LeasedWhileActive
<1>1. TypeInv /\ RowInv => LeasedWhileActive
  BY DEF RowInv
<1> QED BY <1>1, RowInvariant, PTL

-----------------------------------------------------------------------------
(* The statuses, step by step.                                              *)

(* The moves of the status that some step makes.                            *)
StatusMove(s, t) ==
  \/ s = t
  \/ s = "none" /\ t = "queued"
  \/ s = "queued" /\ t = "started"
  \/ s = "started" /\ t = "streaming"
  \/ s \in {"started", "streaming"} /\ t = "cancelling"
  \/ s \in SucceededFrom /\ t = "succeeded"
  \/ s \in FailedFrom /\ t = "failed"
  \/ s \in CancelledFrom /\ t = "cancelled"

(* No step makes another one.                                               *)
LEMMA StatusStep == TypeInv /\ RowInv /\ [Next]_vars => StatusMove(status, status')
<1> SUFFICES ASSUME TypeInv, RowInv, [Next]_vars PROVE StatusMove(status, status')
  OBVIOUS
<1> USE DEF pg, redis, exec, sink, rec, hist
<1>1. CASE CreateRun
  BY <1>1 DEF CreateRun, StatusMove
<1>2. CASE CancelOwnedRun
  BY <1>2 DEF CancelOwnedRun, SetTerminal, StatusMove, CancelledFrom
<1>3. CASE CancelRunRoutePublish
  BY <1>3 DEF CancelRunRoutePublish, StatusMove
<1>4. CASE CancelHint
  BY <1>4 DEF CancelHint, StatusMove
<1>5. CASE ClaimNextQueuedRun
  BY <1>5 DEF ClaimNextQueuedRun, StatusMove
<1>6. CASE Setup
  BY <1>6 DEF Setup, StatusMove
<1>7. CASE PublishPersistedEvents
  BY <1>7 DEF PublishPersistedEvents, StatusMove
<1>8. CASE EmitEvent
  BY <1>8 DEF EmitEvent, StatusMove
<1>9. CASE AgentEnds
  BY <1>9 DEF AgentEnds, StatusMove
<1>10. CASE StopOnCancel
  BY <1>10 DEF StopOnCancel, StatusMove
<1>11. CASE AgentRaises
  BY <1>11 DEF AgentRaises, StatusMove
<1>12. CASE RedisSinkEmit
  BY <1>12 DEF RedisSinkEmit, StatusMove
<1>13. CASE PgSinkEmit
  BY <1>13 DEF PgSinkEmit, StatusMove
<1>14. CASE PgSinkRaises
  BY <1>14 DEF PgSinkRaises, StatusMove
<1>15. CASE DraftSinkEmit
  BY <1>15 DEF DraftSinkEmit, StatusMove
<1>16. CASE DraftSinkRaises
  BY <1>16 DEF DraftSinkRaises, StatusMove
<1>17. CASE Emitted
  BY <1>17 DEF Emitted, StatusMove
<1>18. CASE TimerCheckpoint
  BY <1>18 DEF TimerCheckpoint, StatusMove
<1>19. CASE Flush
  BY <1>19 DEF Flush, StatusMove
<1>20. CASE FlushRaises
  BY <1>20 DEF FlushRaises, StatusMove
<1>21. CASE FinalizeResult
  BY <1>21 DEF FinalizeResult, FinalStatus, SetTerminal, StatusMove, SucceededFrom,
                FailedFrom, CancelledFrom
<1>22. CASE Aclose
  BY <1>22 DEF Aclose, StatusMove
<1>23. CASE MarkError
  BY <1>23 DEF MarkError, ErrorStatus, SetTerminal, StatusMove, SucceededFrom,
                FailedFrom, CancelledFrom
<1>24. CASE ExecutorRaises
  BY <1>24 DEF ExecutorRaises, StatusMove
<1>25. CASE PublishTerminal
  BY <1>25 DEF PublishTerminal, StatusMove
<1>26. CASE DeleteDraft
  BY <1>26 DEF DeleteDraft, StatusMove
<1>27. CASE Heartbeat
  BY <1>27 DEF Heartbeat, StatusMove
<1>28. CASE HeartbeatRaises
  BY <1>28 DEF HeartbeatRaises, StatusMove
<1>29. CASE LeaseExpires
  BY <1>29 DEF LeaseExpires, StatusMove
<1>30. CASE WorkerCrashes
  BY <1>30 DEF WorkerCrashes, StatusMove
<1>31. CASE RecoverRead
  BY <1>31 DEF RecoverRead, StatusMove
<1>32. CASE RecoverCommit
  BY <1>32 DEF RecoverCommit, SetTerminal, StatusMove, RowInv, Active, RenewableStatuses,
                FailedFrom
<1>33. CASE RecoverAborts
  BY <1>33 DEF RecoverAborts, StatusMove
<1>34. CASE BroadcastTerminal
  BY <1>34 DEF BroadcastTerminal, StatusMove
<1>35. CASE UNCHANGED vars
  BY <1>35 DEF vars, StatusMove
<1> QED BY <1>1, <1>2, <1>3, <1>4, <1>5, <1>6, <1>7, <1>8, <1>9, <1>10, <1>11, <1>12, <1>13, <1>14, <1>15, <1>16, <1>17, <1>18, <1>19, <1>20, <1>21, <1>22, <1>23, <1>24, <1>25, <1>26, <1>27, <1>28, <1>29, <1>30, <1>31, <1>32, <1>33, <1>34, <1>35
           DEF Next, Requests, Agent, Sinks, Ending, Leases

(* Once a cancel was accepted, the run is never seen to stream or to        *)
(* succeed again.                                                           *)
THEOREM CancelIsFinal == Safety => NeverUncancelled
<1>1. TypeInv /\ RowInv /\ [Next]_vars =>
        [status = "cancelling" => status' \in {"cancelling", "cancelled", "failed"}]_vars
  BY StatusStep DEF StatusMove, SucceededFrom
<1> QED BY <1>1, RowInvariant, PTL DEF Safety, NeverUncancelled

(* The types of the terminal events, as a function of the status.           *)
LEMMA TerminalTypesOf ==
  ASSUME RowInv
  PROVE  {e.type : e \in TerminalEvents} =
           IF Terminal THEN {TerminalType(status)} ELSE {}
BY DEF RowInv, TerminalEventMatches

(* The detailed run implements the safety part of RunLifecycle.             *)
THEOREM ImplementsLifecycle == Safety => Lifecycle!Safety
<1>1. Init => Lifecycle!Init
  BY DEF Init, Lifecycle!Init, TerminalEvents
<1>2. /\ TypeInv /\ RowInv /\ (TypeInv /\ RowInv)' /\ [Next]_vars
      => [Lifecycle!Next]_(Lifecycle!vars)
  <2> SUFFICES ASSUME TypeInv, RowInv, TypeInv', RowInv', [Next]_vars
               PROVE  [Lifecycle!Next]_(Lifecycle!vars)
    OBVIOUS
  <2> DEFINE types == {e.type : e \in TerminalEvents}
  <2>1. types = IF Terminal THEN {TerminalType(status)} ELSE {}
    BY TerminalTypesOf
  <2>2. types' = IF Terminal' THEN {TerminalType(status')} ELSE {}
    BY DEF RowInv, TerminalEventMatches, TerminalType
  <2>3. /\ message = (status = "succeeded") /\ message' = (status' = "succeeded")
    BY DEF RowInv, MessageIffSucceeded, TypeInv, TypeOK
  <2>4. StatusMove(status, status')
    BY StatusStep
  <2> HIDE DEF types
  <2>5. CASE status' = status
    BY <2>1, <2>2, <2>3, <2>5 DEF Lifecycle!vars, Terminal, types
  <2>6. CASE status' # status /\ status' \notin TerminalStatuses
    BY <2>1, <2>2, <2>3, <2>4, <2>6 DEF StatusMove, Lifecycle!Next, Lifecycle!Submit,
       Lifecycle!Claim, Lifecycle!Stream, Lifecycle!RequestCancel, Lifecycle!Move,
       Terminal, TerminalStatuses, types
  <2>7. CASE status' # status /\ status' \in TerminalStatuses
    BY <2>1, <2>2, <2>3, <2>4, <2>7 DEF StatusMove, Lifecycle!Next, Lifecycle!Succeed,
       Lifecycle!Fail, Lifecycle!Cancel, Lifecycle!Finish, Lifecycle!TerminalType,
       Lifecycle!SucceededFrom, Lifecycle!FailedFrom, Lifecycle!CancelledFrom,
       SucceededFrom, FailedFrom, CancelledFrom, TerminalType, Terminal,
       TerminalStatuses, types
  <2> QED BY <2>5, <2>6, <2>7
<1> QED BY <1>1, <1>2, RowInvariant, PTL DEF Safety, Lifecycle!Safety

-----------------------------------------------------------------------------
(* Sequence numbers.                                                        *)

(* A run nobody claimed has no executor, no draft and no events, except the *)
(* one that cancels it; and an executor starts with an empty stream.  Only  *)
(* a live process has sinks at work, and it has no terminal event before it *)
(* has ended the run.                                                       *)
FreshInv ==
  /\ pc = "none" => /\ status \in {"none", "queued", "cancelled"} /\ draft = 0
                    /\ ~Terminal => events = {} /\ stream = {}
  /\ pc = "setup" /\ ~Terminal => stream = {} /\ draft = 0
  /\ pc \in {"none", "setup", "replay"} => latest = 0 /\ pending = 0
  /\ pc \in {"none", "setup"} => seq = 0
  /\ pc = "emit" => kind # "none"
  /\ pc = "crashed" => sinks = {}
  /\ pc \notin {"publish", "delete", "done"} => terminal = "none"

(* Until the run is terminal the executor is ahead of everything that is    *)
(* recorded about it, and drafts only move forward.                         *)
OrderInv ==
  /\ latest <= seq
  /\ ~Terminal /\ pc # "crashed" => draft <= latest
  /\ ~Terminal /\ pc \in {"replay", "stream", "emit", "flush", "finalize",
                          "aclose", "mark_error"}
       => \A x \in events \cup stream : x.seq <= seq

(* How far the executor can be ahead of PostgreSQL.  Between two events it  *)
(* is ahead by the buffered deltas, unless it has been told to stop; while  *)
(* an event is with the sinks it is ahead by one more, until the draft sink *)
(* has buffered the delta or the PostgreSQL sink has written the tool call. *)
AheadInv ==
  /\ pc = "replay" => seq <= DurableSeq
  /\ pc = "stream" => \/ seq <= DurableSeq + pending
                      \/ cancel
  /\ pc = "stream" /\ pending > 0 => latest = seq
  /\ pc = "emit" =>
       /\ seq <= DurableSeq + pending + 1
       /\ kind = "delta" /\ "draft" \notin sinks => seq <= DurableSeq + pending
       /\ kind = "tool" /\ "pg" \notin sinks => seq <= DurableSeq \/ cancel
       /\ pending > 0 /\ "draft" \in sinks => latest = seq - 1
       /\ pending > 0 /\ "draft" \notin sinks => latest = seq /\ kind = "delta"
  /\ pc \notin {"none", "setup", "crashed"} => seq <= DurableSeq + MaxPending
  /\ \A x \in stream : x.seq <= DurableSeq + MaxPending

(* The executor does not look back before it has ended the run.             *)
EndInv ==
  /\ pc \in {"flush", "finalize"} => outcome \in {"succeeded", "cancelled", "failed"}
  /\ pc \in {"publish", "delete"} => Terminal
  /\ pc = "publish" /\ terminal # "none" => Ev(seq + 1, terminal) \in events
  /\ Terminal /\ ~zombie =>
       /\ pc \in {"none", "publish", "delete", "done", "crashed"}
       /\ pc \in {"publish", "delete"} \/ sinks # {}
            => Ev(seq + 1, TerminalType(status)) \in events

(* What recovery computed is above everything, unless the executor it       *)
(* believes dead was still running.                                         *)
RecoveryInv ==
  /\ recovery = "read" /\ ~zombie =>
       /\ pc \in {"done", "crashed"} /\ sinks = {}
       /\ draft < recSeq
       /\ \A x \in events \cup stream : x.seq < recSeq
  /\ recovery = "committed" =>
       Terminal /\ Ev(recSeq, "run_failed") \in events

(* All of it, while the run is active, and what remains afterwards.         *)
SeqInv == /\ FreshInv /\ OrderInv /\ EndInv /\ RecoveryInv
          /\ Active => AheadInv
          /\ TerminalIsLast

-----------------------------------------------------------------------------
(* What the steps below use of the other invariants.                        *)
USE DEF pg, redis, exec, sink, rec, hist

(* DurableSeq as a function of the events and of the draft.                 *)
Durable(E, d) == IF LastSeq(E) > d THEN LastSeq(E) ELSE d

(* It is an upper bound, and grows with both.                               *)
LEMMA DurableGrows ==
  ASSUME NEW E \in SUBSET Event, NEW F \in SUBSET Event, HasMax(E), HasMax(F),
         NEW c \in Nat, NEW d \in Nat, E \subseteq F, c <= d
  PROVE  /\ Durable(E, c) \in Nat /\ Durable(F, d) \in Nat
         /\ Durable(E, c) <= Durable(F, d)
         /\ d <= Durable(F, d)
         /\ \A e \in F : e.seq <= Durable(F, d)
<1>1. /\ LastSeq(E) \in Nat /\ LastSeq(F) \in Nat
      /\ \A e \in F : e.seq <= LastSeq(F)
      /\ E # {} => \E e \in E : e.seq = LastSeq(E)
  BY LastSeqIsMax
<1>2. \A e \in F : e.seq \in Nat
  BY DEF Event
<1>3. LastSeq(E) <= LastSeq(F)
  <2>1. CASE E = {}
    BY <1>1, <2>1 DEF LastSeq
  <2>2. CASE E # {}
    BY <1>1, <1>2, <2>2
  <2> QED BY <2>1, <2>2
<1> QED BY <1>1, <1>2, <1>3 DEF Durable

(* The same for a step of the run.                                          *)
LEMMA DurableStep ==
  ASSUME TypeInv, TypeInv', events \subseteq events', draft <= draft'
  PROVE  /\ DurableSeq \in Nat /\ DurableSeq' \in Nat
         /\ DurableSeq <= DurableSeq' /\ draft' <= DurableSeq'
         /\ \A e \in events' : e.seq <= DurableSeq'
<1>1. /\ events \in SUBSET Event /\ HasMax(events) /\ draft \in Nat
      /\ events' \in SUBSET Event /\ HasMax(events') /\ draft' \in Nat
  BY DEF TypeInv, TypeOK, HasMax
<1>2. DurableSeq = Durable(events, draft) /\ DurableSeq' = Durable(events', draft')
  BY DEF DurableSeq, Durable, LastSeq
<1> QED BY <1>1, <1>2, DurableGrows

(* Bounds that grow.                                                        *)
LEMMA LeAdd ==
  ASSUME NEW x \in Nat, NEW d \in Nat, NEW e \in Nat, NEW m \in Nat, d <= e
  PROVE  /\ x <= d + m => x <= e + m
         /\ x <= d + m + 1 => x <= e + m + 1
OBVIOUS

(* An append adds at most the event.                                        *)
LEMMA AppendAdds ==
  ASSUME NEW e, Append(e)
  PROVE  \A x \in stream' : x \in stream \/ x = e
BY DEF Append, XAdd

(* The replay adds at most what PostgreSQL has.                             *)
LEMMA ReplayAdds ==
  ASSUME PublishPersistedEvents
  PROVE  \A x \in stream' : x \in stream \/ x \in events
BY DEF PublishPersistedEvents, Replay

(* A run that is terminal stays so.                                         *)
LEMMA TerminalStays == TypeInv /\ RowInv /\ [Next]_vars /\ Terminal => Terminal'
BY StatusStep DEF StatusMove, Terminal, TerminalStatuses, SucceededFrom, FailedFrom,
   CancelledFrom

(* Finalising or marking an error leaves a run that has ended.              *)
LEMMA EndsTerminal ==
  ASSUME TypeInv, RowInv, SeqInv, FinalizeResult \/ MarkError
  PROVE  Terminal'
<1>1. status \notin {"none", "queued"} /\ status \in Statuses
  BY DEF FinalizeResult, MarkError, TypeInv, LoopInv, TypeOK
<1>2. CASE FinalizeResult
  BY <1>1, <1>2 DEF FinalizeResult, FinalStatus, SetTerminal, SeqInv, EndInv, Terminal,
     TerminalStatuses, SucceededFrom, CancelledFrom, Statuses, RenewableStatuses
<1>3. CASE MarkError
  BY <1>1, <1>3 DEF MarkError, ErrorStatus, SetTerminal, Terminal, TerminalStatuses,
     SucceededFrom, Statuses, RenewableStatuses
<1> QED BY <1>2, <1>3

(* FreshInv is preserved.                                                   *)
LEMMA FreshStep == TypeInv /\ RowInv /\ SeqInv /\ [Next]_vars => FreshInv'
<1> SUFFICES ASSUME TypeInv, RowInv, SeqInv, [Next]_vars PROVE FreshInv'
  OBVIOUS
<1>0. LoopInv /\ TypeOK /\ RowInv /\ FreshInv /\ RecoveryInv
  BY DEF TypeInv, SeqInv
<1>1. CASE CreateRun
  BY <1>0, <1>1 DEF CreateRun, FreshInv, Terminal, TerminalStatuses, LoopInv
<1>2. CASE CancelOwnedRun
  BY <1>0, <1>2 DEF CancelOwnedRun, SetTerminal, FreshInv, Terminal, TerminalStatuses,
         LoopInv
<1>3. CASE CancelRunRoutePublish
  BY <1>0, <1>3 DEF CancelRunRoutePublish, FreshInv, Terminal, TerminalStatuses, LoopInv
<1>4. CASE CancelHint
  BY <1>0, <1>4 DEF CancelHint, FreshInv, Terminal, TerminalStatuses, LoopInv
<1>5. CASE ClaimNextQueuedRun
  BY <1>0, <1>5 DEF ClaimNextQueuedRun, FreshInv, Terminal, TerminalStatuses, LoopInv
<1>6. CASE Setup
  BY <1>0, <1>6 DEF Setup, FreshInv, Terminal, TerminalStatuses, LoopInv
<1>7. CASE PublishPersistedEvents
  BY <1>0, <1>7 DEF PublishPersistedEvents, FreshInv, Terminal, TerminalStatuses, LoopInv
<1>8. CASE EmitEvent
  BY <1>0, <1>8 DEF EmitEvent, FreshInv, Terminal, TerminalStatuses, LoopInv
<1>9. CASE AgentEnds
  BY <1>0, <1>9 DEF AgentEnds, FreshInv, Terminal, TerminalStatuses, LoopInv
<1>10. CASE StopOnCancel
  BY <1>0, <1>10 DEF StopOnCancel, FreshInv, Terminal, TerminalStatuses, LoopInv
<1>11. CASE AgentRaises
  BY <1>0, <1>11 DEF AgentRaises, FreshInv, Terminal, TerminalStatuses, LoopInv
<1>12. CASE RedisSinkEmit
  BY <1>0, <1>12 DEF RedisSinkEmit, Finished, FreshInv, Terminal, TerminalStatuses, LoopInv
<1>13. CASE PgSinkEmit
  BY <1>0, <1>13 DEF PgSinkEmit, Finished, FreshInv, Terminal, TerminalStatuses, LoopInv
<1>14. CASE PgSinkRaises
  BY <1>0, <1>14 DEF PgSinkRaises, Finished, SinkRaises, FreshInv, Terminal,
         TerminalStatuses, LoopInv
<1>15. CASE DraftSinkEmit
  BY <1>0, <1>15 DEF DraftSinkEmit, Finished, FreshInv, Terminal, TerminalStatuses, LoopInv
<1>16. CASE DraftSinkRaises
  BY <1>0, <1>16 DEF DraftSinkRaises, Finished, SinkRaises, FreshInv, Terminal,
         TerminalStatuses, LoopInv
<1>17. CASE Emitted
  BY <1>0, <1>17 DEF Emitted, FreshInv, Terminal, TerminalStatuses, LoopInv
<1>18. CASE TimerCheckpoint
  BY <1>0, <1>18 DEF TimerCheckpoint, FreshInv, Terminal, TerminalStatuses, LoopInv
<1>19. CASE Flush
  BY <1>0, <1>19 DEF Flush, Checkpoint, FreshInv, Terminal, TerminalStatuses, LoopInv
<1>20. CASE FlushRaises
  BY <1>0, <1>20 DEF FlushRaises, FreshInv, Terminal, TerminalStatuses, LoopInv
<1>21. CASE FinalizeResult
  BY <1>0, <1>21 DEF FinalizeResult, SetTerminal, FreshInv, Terminal, TerminalStatuses,
         LoopInv
<1>22. CASE Aclose
  BY <1>0, <1>22 DEF Aclose, Checkpoint, FreshInv, Terminal, TerminalStatuses, LoopInv
<1>23. CASE MarkError
  BY <1>0, <1>23 DEF MarkError, SetTerminal, FreshInv, Terminal, TerminalStatuses, LoopInv
<1>24. CASE ExecutorRaises
  BY <1>0, <1>24 DEF ExecutorRaises, FreshInv, Terminal, TerminalStatuses, LoopInv
<1>25. CASE PublishTerminal
  BY <1>0, <1>25 DEF PublishTerminal, FreshInv, Terminal, TerminalStatuses, LoopInv
<1>26. CASE DeleteDraft
  BY <1>0, <1>26 DEF DeleteDraft, Checkpoint, FreshInv, Terminal, TerminalStatuses, LoopInv
<1>27. CASE Heartbeat
  BY <1>0, <1>27 DEF Heartbeat, FreshInv, Terminal, TerminalStatuses, LoopInv
<1>28. CASE HeartbeatRaises
  BY <1>0, <1>28 DEF HeartbeatRaises, FreshInv, Terminal, TerminalStatuses, LoopInv
<1>29. CASE LeaseExpires
  BY <1>0, <1>29 DEF LeaseExpires, FreshInv, Terminal, TerminalStatuses, LoopInv
<1>30. CASE WorkerCrashes
  BY <1>0, <1>30 DEF WorkerCrashes, Running, FreshInv, Terminal, TerminalStatuses, LoopInv
<1>31. CASE RecoverRead
  BY <1>0, <1>31 DEF RecoverRead, Running, FreshInv, Terminal, TerminalStatuses, LoopInv
<1>32. CASE RecoverCommit
  BY <1>0, <1>32 DEF RecoverCommit, SetTerminal, FreshInv, RowInv, Active,
         RenewableStatuses, FreshInv, Terminal, TerminalStatuses, LoopInv
<1>33. CASE RecoverAborts
  BY <1>0, <1>33 DEF RecoverAborts, FreshInv, Terminal, TerminalStatuses, LoopInv
<1>34. CASE BroadcastTerminal
  BY <1>0, <1>34 DEF BroadcastTerminal, FreshInv, RecoveryInv, Terminal
<1>35. CASE UNCHANGED vars
  BY <1>0, <1>35 DEF vars, FreshInv, Terminal, TerminalStatuses, LoopInv
<1> QED BY <1>1, <1>2, <1>3, <1>4, <1>5, <1>6, <1>7, <1>8, <1>9, <1>10, <1>11, <1>12,
         <1>13, <1>14, <1>15, <1>16, <1>17, <1>18, <1>19, <1>20, <1>21, <1>22, <1>23,
                <1>24, <1>25, <1>26, <1>27, <1>28, <1>29, <1>30, <1>31, <1>32, <1>33,
                       <1>34, <1>35
           DEF Next, Requests, Agent, Sinks, Ending, Leases

(* OrderInv is preserved.                                                   *)
LEMMA OrderStep == TypeInv /\ RowInv /\ SeqInv /\ [Next]_vars => OrderInv'
<1> SUFFICES ASSUME TypeInv, RowInv, SeqInv, [Next]_vars PROVE OrderInv'
  OBVIOUS
<1>0. /\ LoopInv /\ RowInv /\ FreshInv /\ OrderInv /\ RecoveryInv
      /\ seq \in Nat /\ latest \in Nat /\ draft \in Nat
      /\ \A x \in events \cup stream : x.seq \in Nat
  BY DEF TypeInv, TypeOK, SeqInv, Event
<1>1. CASE CreateRun
  BY <1>0, <1>1 DEF CreateRun, OrderInv, Terminal, TerminalStatuses, LoopInv
<1>2. CASE CancelOwnedRun
  BY <1>0, <1>2 DEF CancelOwnedRun, SetTerminal, OrderInv, Terminal, TerminalStatuses,
         LoopInv
<1>3. CASE CancelRunRoutePublish
  BY <1>0, <1>3 DEF CancelRunRoutePublish, OrderInv, Terminal, TerminalStatuses, LoopInv
<1>4. CASE CancelHint
  BY <1>0, <1>4 DEF CancelHint, OrderInv, Terminal, TerminalStatuses, LoopInv
<1>5. CASE ClaimNextQueuedRun
  BY <1>0, <1>5 DEF ClaimNextQueuedRun, OrderInv, Terminal, TerminalStatuses, LoopInv
<1>6. CASE Setup
  BY <1>0, <1>6, DurableSeqType DEF Setup, FreshInv, OrderInv, Terminal,
         TerminalStatuses, LoopInv
<1>7. CASE PublishPersistedEvents
  BY <1>0, <1>7, ReplayAdds DEF PublishPersistedEvents, OrderInv, Terminal,
         TerminalStatuses, LoopInv
<1>8. CASE EmitEvent
  BY <1>0, <1>8 DEF EmitEvent, OrderInv, Terminal, TerminalStatuses, LoopInv
<1>9. CASE AgentEnds
  BY <1>0, <1>9 DEF AgentEnds, OrderInv, Terminal, TerminalStatuses, LoopInv
<1>10. CASE StopOnCancel
  BY <1>0, <1>10 DEF StopOnCancel, OrderInv, Terminal, TerminalStatuses, LoopInv
<1>11. CASE AgentRaises
  BY <1>0, <1>11 DEF AgentRaises, OrderInv, Terminal, TerminalStatuses, LoopInv
<1>12. CASE RedisSinkEmit
  BY <1>0, <1>12, AppendAdds DEF RedisSinkEmit, Finished, Ev, OrderInv, Terminal,
         TerminalStatuses, LoopInv
<1>13. CASE PgSinkEmit
  BY <1>0, <1>13 DEF PgSinkEmit, Finished, Ev, OrderInv, Terminal, TerminalStatuses, LoopInv
<1>14. CASE PgSinkRaises
  BY <1>0, <1>14 DEF PgSinkRaises, Finished, SinkRaises, OrderInv, Terminal,
         TerminalStatuses, LoopInv
<1>15. CASE DraftSinkEmit
  BY <1>0, <1>15 DEF DraftSinkEmit, Finished, OrderInv, Terminal, TerminalStatuses, LoopInv
<1>16. CASE DraftSinkRaises
  BY <1>0, <1>16 DEF DraftSinkRaises, Finished, SinkRaises, OrderInv, Terminal,
         TerminalStatuses, LoopInv
<1>17. CASE Emitted
  BY <1>0, <1>17 DEF Emitted, OrderInv, Terminal, TerminalStatuses, LoopInv
<1>18. CASE TimerCheckpoint
  BY <1>0, <1>18 DEF TimerCheckpoint, OrderInv, Terminal, TerminalStatuses, LoopInv
<1>19. CASE Flush
  BY <1>0, <1>19 DEF Flush, Checkpoint, OrderInv, Terminal, TerminalStatuses, LoopInv
<1>20. CASE FlushRaises
  BY <1>0, <1>20 DEF FlushRaises, OrderInv, Terminal, TerminalStatuses, LoopInv
<1>21. CASE FinalizeResult
  BY <1>0, <1>21, EndsTerminal DEF FinalizeResult, SetTerminal, OrderInv
<1>22. CASE Aclose
  BY <1>0, <1>22 DEF Aclose, Checkpoint, OrderInv, Terminal, TerminalStatuses, LoopInv
<1>23. CASE MarkError
  BY <1>0, <1>23, EndsTerminal DEF MarkError, SetTerminal, OrderInv
<1>24. CASE ExecutorRaises
  BY <1>0, <1>24 DEF ExecutorRaises, OrderInv, Terminal, TerminalStatuses, LoopInv
<1>25. CASE PublishTerminal
  BY <1>0, <1>25 DEF PublishTerminal, OrderInv, Terminal, TerminalStatuses, LoopInv
<1>26. CASE DeleteDraft
  BY <1>0, <1>26 DEF DeleteDraft, Checkpoint, OrderInv, Terminal, TerminalStatuses, LoopInv
<1>27. CASE Heartbeat
  BY <1>0, <1>27 DEF Heartbeat, OrderInv, Terminal, TerminalStatuses, LoopInv
<1>28. CASE HeartbeatRaises
  BY <1>0, <1>28 DEF HeartbeatRaises, OrderInv, Terminal, TerminalStatuses, LoopInv
<1>29. CASE LeaseExpires
  BY <1>0, <1>29 DEF LeaseExpires, OrderInv, Terminal, TerminalStatuses, LoopInv
<1>30. CASE WorkerCrashes
  BY <1>0, <1>30 DEF WorkerCrashes, Running, OrderInv, Terminal, TerminalStatuses, LoopInv
<1>31. CASE RecoverRead
  BY <1>0, <1>31 DEF RecoverRead, Running, OrderInv, Terminal, TerminalStatuses, LoopInv
<1>32. CASE RecoverCommit
  BY <1>0, <1>32 DEF RecoverCommit, SetTerminal, OrderInv, Terminal, TerminalStatuses,
         LoopInv
<1>33. CASE RecoverAborts
  BY <1>0, <1>33 DEF RecoverAborts, OrderInv, Terminal, TerminalStatuses, LoopInv
<1>34. CASE BroadcastTerminal
  BY <1>0, <1>34 DEF BroadcastTerminal, RecoveryInv, OrderInv, Terminal,
         TerminalStatuses, LoopInv
<1>35. CASE UNCHANGED vars
  BY <1>0, <1>35 DEF vars, OrderInv, Terminal, TerminalStatuses, LoopInv
<1> QED BY <1>1, <1>2, <1>3, <1>4, <1>5, <1>6, <1>7, <1>8, <1>9, <1>10, <1>11, <1>12,
         <1>13, <1>14, <1>15, <1>16, <1>17, <1>18, <1>19, <1>20, <1>21, <1>22, <1>23,
                <1>24, <1>25, <1>26, <1>27, <1>28, <1>29, <1>30, <1>31, <1>32, <1>33,
                       <1>34, <1>35
           DEF Next, Requests, Agent, Sinks, Ending, Leases

(* AheadInv is preserved while the run is active.                           *)
LEMMA AheadStep == TypeInv /\ RowInv /\ SeqInv /\ [Next]_vars => (Active => AheadInv)'
<1> SUFFICES ASSUME TypeInv, RowInv, SeqInv, [Next]_vars, Active' PROVE AheadInv'
  OBVIOUS
<1>0. /\ LoopInv /\ FreshInv /\ OrderInv /\ EndInv /\ RecoveryInv /\ TypeInv'
      /\ kind \in {"none", "delta", "tool"} /\ MaxPending \in Nat /\ MaxPending > 0
      /\ seq \in Nat /\ latest \in Nat /\ draft \in Nat /\ pending \in Nat
      /\ \A x \in events \cup stream : x.seq \in Nat
  BY TypeStep, BoundAssumption DEF TypeInv, TypeOK, SeqInv, Event
<1>a. Active => AheadInv
  BY DEF SeqInv
<1>b. ~Terminal /\ ~Terminal' /\ pc \notin {"publish", "delete"}
  <2>1. ~Terminal'
    BY DEF Active, Terminal, RenewableStatuses, TerminalStatuses
  <2> QED BY <1>0, <2>1, TerminalStays DEF EndInv
<1>c. events \subseteq events' /\ draft <= draft' =>
        /\ DurableSeq \in Nat /\ DurableSeq' \in Nat
        /\ DurableSeq <= DurableSeq' /\ draft' <= DurableSeq'
        /\ \A e \in events' : e.seq <= DurableSeq'
  BY <1>0, DurableStep
<1>d. UNCHANGED <<events, draft>> => DurableSeq' = DurableSeq
  BY DEF DurableSeq, LastSeq
<1>e. draft <= latest \/ pc = "crashed"
  BY <1>0, <1>b DEF OrderInv
<1>1. CASE CreateRun
  BY <1>0, <1>1 DEF CreateRun, Active, RenewableStatuses
<1>2. CASE CancelOwnedRun
  BY <1>0, <1>2, <1>a, <1>b, <1>c, <1>d DEF CancelOwnedRun, SetTerminal, AheadInv,
         Active, RenewableStatuses, LoopInv
<1>3. CASE CancelRunRoutePublish
  BY <1>0, <1>3, <1>a, <1>b, <1>c, <1>d DEF CancelRunRoutePublish, AheadInv, Active,
         RenewableStatuses, LoopInv
<1>4. CASE CancelHint
  BY <1>0, <1>4, <1>a, <1>b, <1>c, <1>d DEF CancelHint, AheadInv, Active,
         RenewableStatuses, LoopInv
<1>5. CASE ClaimNextQueuedRun
  BY <1>0, <1>5, <1>a, <1>b, <1>c, <1>d, GapAssumption DEF ClaimNextQueuedRun, FreshInv,
         Terminal, TerminalStatuses, AheadInv, Active, RenewableStatuses, LoopInv
<1>6. CASE Setup
  BY <1>0, <1>6, <1>a, <1>b, <1>c, <1>d, DurableSeqType DEF Setup, FreshInv, AheadInv,
         Active, RenewableStatuses, LoopInv
<1>7. CASE PublishPersistedEvents
  <2>1. UNCHANGED <<status, events, draft, seq, sinks, pending, latest, cancel>> /\ AheadInv
    BY <1>a, <1>7 DEF PublishPersistedEvents, Active
  <2>2. DurableSeq' = DurableSeq /\ DurableSeq \in Nat /\ \A e \in events : e.seq <= DurableSeq
    BY <1>0, <2>1, <1>c, <1>d
  <2>3. \A x \in stream' : x.seq <= DurableSeq' + MaxPending
    BY <1>0, <2>1, <2>2, ReplayAdds, <1>7 DEF AheadInv
  <2>4. pc = "replay" /\ pc' \in {"stream",
         "mark_error"} /\ pending = 0 /\ seq <= DurableSeq
    BY <1>0, <2>1, <1>7 DEF PublishPersistedEvents, FreshInv, AheadInv
  <2> QED BY <1>0, <2>1, <2>2, <2>3, <2>4 DEF AheadInv
<1>8. CASE EmitEvent
  BY <1>0, <1>8, <1>a, <1>b, <1>c, <1>d DEF EmitEvent, AheadInv, Active,
         RenewableStatuses, LoopInv
<1>9. CASE AgentEnds
  BY <1>0, <1>9, <1>a, <1>b, <1>c, <1>d DEF AgentEnds, AheadInv, Active,
         RenewableStatuses, LoopInv
<1>10. CASE StopOnCancel
  BY <1>0, <1>10, <1>a, <1>b, <1>c, <1>d DEF StopOnCancel, AheadInv, Active,
         RenewableStatuses, LoopInv
<1>11. CASE AgentRaises
  BY <1>0, <1>11, <1>a, <1>b, <1>c, <1>d DEF AgentRaises, AheadInv, Active,
         RenewableStatuses, LoopInv
<1>12. CASE RedisSinkEmit
  BY <1>0, <1>12, <1>a, <1>b, <1>c, <1>d, AppendAdds DEF RedisSinkEmit, Finished, Ev,
         FreshInv, AheadInv, Active, RenewableStatuses, LoopInv
<1>13. CASE PgSinkEmit
  <2>1. /\ UNCHANGED <<draft, pc, seq, kind, stream, pending, latest>>
        /\ sinks' = sinks \ {"pg"} /\ "pg" \in sinks
        /\ events \subseteq events' /\ Active /\ AheadInv
    BY <1>a, <1>b, <1>13 DEF PgSinkEmit, Finished, Active, RenewableStatuses
  <2>2. kind = "tool" => cancel' \/ \E e \in events' : e.seq = seq
    <3>1. Ev(seq, kind).seq = seq
      BY DEF Ev
    <3> QED BY <3>1, <1>13 DEF PgSinkEmit
  <2>3. /\ DurableSeq \in Nat /\ DurableSeq' \in Nat /\ DurableSeq <= DurableSeq'
        /\ \A e \in events' : e.seq <= DurableSeq'
    BY <1>0, <1>c, <2>1
  <2>4. kind = "tool" => seq <= DurableSeq' \/ cancel'
    BY <2>2, <2>3
  <2>5. pc # "stream" /\ pc # "replay"
    BY <1>0, <2>1 DEF LoopInv
  <2>6. \A x \in stream' : x.seq <= DurableSeq' + MaxPending
    <3> SUFFICES ASSUME NEW x \in stream PROVE x.seq <= DurableSeq' + MaxPending
      BY <2>1
    <3>1. x.seq \in Nat /\ x.seq <= DurableSeq + MaxPending
      BY <1>0, <2>1 DEF AheadInv
    <3> QED BY <1>0, <2>3, <3>1
  <2>7. /\ pc \notin {"none", "setup", "crashed"} => seq <= DurableSeq + MaxPending
        /\ pc = "emit" =>
             /\ seq <= DurableSeq + pending + 1
             /\ kind = "delta" /\ "draft" \notin sinks => seq <= DurableSeq + pending
             /\ pending > 0 /\ "draft" \in sinks => latest = seq - 1
             /\ pending > 0 /\ "draft" \notin sinks => latest = seq /\ kind = "delta"
    BY <2>1 DEF AheadInv
  <2>8. /\ pc \notin {"none", "setup", "crashed"} => seq <= DurableSeq' + MaxPending
        /\ pc = "emit" =>
             /\ seq <= DurableSeq' + pending + 1
             /\ kind = "delta" /\ "draft" \notin sinks' => seq <= DurableSeq' + pending
             /\ pending > 0 /\ "draft" \in sinks' => latest = seq - 1
             /\ pending > 0 /\ "draft" \notin sinks' => latest = seq /\ kind = "delta"
    <3>1. "draft" \in sinks' <=> "draft" \in sinks
      BY <2>1
    <3>2. seq \in Nat /\ pending \in Nat /\ MaxPending \in Nat /\ kind \in {"none",
           "delta", "tool"}
      BY <1>0
    <3>3. DurableSeq \in Nat /\ DurableSeq' \in Nat /\ DurableSeq <= DurableSeq'
      BY <2>3
    <3>4. /\ seq <= DurableSeq + MaxPending => seq <= DurableSeq' + MaxPending
          /\ seq <= DurableSeq + pending => seq <= DurableSeq' + pending
          /\ seq <= DurableSeq + pending + 1 => seq <= DurableSeq' + pending + 1
      BY <3>2, <3>3, LeAdd, Zenon
    <3> QED BY <2>7, <3>1, <3>4, Zenon
  <2> QED BY <2>1, <2>4, <2>5, <2>6, <2>7, <2>8 DEF AheadInv
<1>14. CASE PgSinkRaises
  BY <1>0, <1>14, <1>a, <1>b, <1>c, <1>d DEF PgSinkRaises, Finished, SinkRaises,
         AheadInv, Active, RenewableStatuses, LoopInv
<1>15. CASE DraftSinkEmit
  BY <1>0, <1>15, <1>a, <1>b, <1>c, <1>d, <1>e DEF DraftSinkEmit, Finished, FreshInv,
         OrderInv, AheadInv, Active, RenewableStatuses, LoopInv
<1>16. CASE DraftSinkRaises
  BY <1>0, <1>16, <1>a, <1>b, <1>c, <1>d DEF DraftSinkRaises, Finished, SinkRaises,
         AheadInv, Active, RenewableStatuses, LoopInv
<1>17. CASE Emitted
  BY <1>0, <1>17, <1>a, <1>b, <1>c, <1>d DEF Emitted, FreshInv, AheadInv, Active,
         RenewableStatuses, LoopInv
<1>18. CASE TimerCheckpoint
  BY <1>0, <1>18, <1>a, <1>b, <1>c, <1>d, <1>e DEF TimerCheckpoint, AheadInv, Active,
         RenewableStatuses, LoopInv
<1>19. CASE Flush
  BY <1>0, <1>19, <1>a, <1>b, <1>c, <1>d, <1>e DEF Flush, Checkpoint, AheadInv, Active,
         RenewableStatuses, LoopInv
<1>20. CASE FlushRaises
  BY <1>0, <1>20, <1>a, <1>b, <1>c, <1>d DEF FlushRaises, AheadInv, Active,
         RenewableStatuses, LoopInv
<1>21. CASE FinalizeResult
  BY <1>0, <1>21, <1>b, EndsTerminal DEF FinalizeResult, SetTerminal, AheadInv, Active
<1>22. CASE Aclose
  BY <1>0, <1>22, <1>a, <1>b, <1>c, <1>d, <1>e DEF Aclose, Checkpoint, AheadInv, Active,
         RenewableStatuses, LoopInv
<1>23. CASE MarkError
  BY <1>0, <1>23, <1>b, EndsTerminal DEF MarkError, SetTerminal, AheadInv, Active
<1>24. CASE ExecutorRaises
  <2>1. /\ UNCHANGED <<status, events, draft, seq, stream>> /\ AheadInv
        /\ pc \in {"setup", "finalize", "mark_error"} /\ pc' = "done"
    BY <1>a, <1>24 DEF ExecutorRaises, Active
  <2>2. DurableSeq' = DurableSeq /\ DurableSeq \in Nat
    BY <1>0, <2>1, <1>c, <1>d
  <2>3. seq <= DurableSeq + MaxPending
    BY <1>0, <2>1, <2>2 DEF FreshInv, AheadInv
  <2> QED BY <2>1, <2>2, <2>3 DEF AheadInv
<1>25. CASE PublishTerminal
  BY <1>b, <1>25 DEF PublishTerminal
<1>26. CASE DeleteDraft
  BY <1>b, <1>26 DEF DeleteDraft
<1>27. CASE Heartbeat
  BY <1>0, <1>27, <1>a, <1>b, <1>c, <1>d DEF Heartbeat, AheadInv, Active,
         RenewableStatuses, LoopInv
<1>28. CASE HeartbeatRaises
  BY <1>0, <1>28, <1>a, <1>b, <1>c, <1>d DEF HeartbeatRaises, AheadInv, Active,
         RenewableStatuses, LoopInv
<1>29. CASE LeaseExpires
  BY <1>0, <1>29, <1>a, <1>b, <1>c, <1>d DEF LeaseExpires, AheadInv, Active,
         RenewableStatuses, LoopInv
<1>30. CASE WorkerCrashes
  BY <1>0, <1>30, <1>a, <1>b, <1>c, <1>d DEF WorkerCrashes, Running, AheadInv, Active,
         RenewableStatuses, LoopInv
<1>31. CASE RecoverRead
  BY <1>0, <1>31, <1>a, <1>b, <1>c, <1>d DEF RecoverRead, Running, AheadInv, Active,
         RenewableStatuses, LoopInv
<1>32. CASE RecoverCommit
  BY <1>b, <1>32 DEF RecoverCommit, SetTerminal, Terminal, TerminalStatuses
<1>33. CASE RecoverAborts
  BY <1>0, <1>33, <1>a, <1>b, <1>c, <1>d DEF RecoverAborts, AheadInv, Active,
         RenewableStatuses, LoopInv
<1>34. CASE BroadcastTerminal
  BY <1>0, <1>b, <1>34 DEF BroadcastTerminal, RecoveryInv
<1>35. CASE UNCHANGED vars
  BY <1>0, <1>a, <1>d, <1>35 DEF vars, AheadInv, Active
<1> QED BY <1>1, <1>2, <1>3, <1>4, <1>5, <1>6, <1>7, <1>8, <1>9, <1>10, <1>11, <1>12,
         <1>13, <1>14, <1>15, <1>16, <1>17, <1>18, <1>19, <1>20, <1>21, <1>22, <1>23,
                <1>24, <1>25, <1>26, <1>27, <1>28, <1>29, <1>30, <1>31, <1>32, <1>33,
                       <1>34, <1>35
           DEF Next, Requests, Agent, Sinks, Ending, Leases

(* EndInv is preserved.                                                     *)
LEMMA EndStep == TypeInv /\ RowInv /\ SeqInv /\ [Next]_vars => EndInv'
<1> SUFFICES ASSUME TypeInv, RowInv, SeqInv, [Next]_vars PROVE EndInv'
  OBVIOUS
<1>0. /\ LoopInv /\ RowInv /\ FreshInv /\ EndInv /\ RecoveryInv
      /\ status \in Statuses
  BY DEF TypeInv, TypeOK, SeqInv
<1>t. Terminal => Terminal'
  BY TerminalStays
<1>1. CASE CreateRun
  BY <1>0, <1>1 DEF CreateRun, EndInv, FreshInv, Terminal, TerminalStatuses, LoopInv
<1>2. CASE CancelOwnedRun
  BY <1>0, <1>2 DEF CancelOwnedRun, SetTerminal, EndInv, FreshInv, Terminal,
         TerminalStatuses, LoopInv
<1>3. CASE CancelRunRoutePublish
  BY <1>0, <1>3 DEF CancelRunRoutePublish, Fault, Append, EndInv, FreshInv, Terminal,
         TerminalStatuses, LoopInv
<1>4. CASE CancelHint
  BY <1>0, <1>4 DEF CancelHint, EndInv, FreshInv, Terminal, TerminalStatuses, LoopInv
<1>5. CASE ClaimNextQueuedRun
  BY <1>0, <1>5 DEF ClaimNextQueuedRun, EndInv, FreshInv, Terminal, TerminalStatuses,
         LoopInv
<1>6. CASE Setup
  BY <1>0, <1>6 DEF Setup, EndInv, FreshInv, Terminal, TerminalStatuses, LoopInv
<1>7. CASE PublishPersistedEvents
  BY <1>0, <1>7 DEF PublishPersistedEvents, Fault, EndInv, FreshInv, Terminal,
         TerminalStatuses, LoopInv
<1>8. CASE EmitEvent
  BY <1>0, <1>8 DEF EmitEvent, EndInv, FreshInv, Terminal, TerminalStatuses, LoopInv
<1>9. CASE AgentEnds
  BY <1>0, <1>9 DEF AgentEnds, EndInv, FreshInv, Terminal, TerminalStatuses, LoopInv
<1>10. CASE StopOnCancel
  BY <1>0, <1>10 DEF StopOnCancel, EndInv, FreshInv, Terminal, TerminalStatuses, LoopInv
<1>11. CASE AgentRaises
  BY <1>0, <1>11 DEF AgentRaises, EndInv, FreshInv, Terminal, TerminalStatuses, LoopInv
<1>12. CASE RedisSinkEmit
  BY <1>0, <1>12 DEF RedisSinkEmit, Finished, Fault, Append, EndInv, FreshInv, Terminal,
         TerminalStatuses, LoopInv
<1>13. CASE PgSinkEmit
  BY <1>0, <1>13 DEF PgSinkEmit, Finished, EndInv, FreshInv, Terminal, TerminalStatuses,
         LoopInv
<1>14. CASE PgSinkRaises
  BY <1>0, <1>14 DEF PgSinkRaises, Finished, SinkRaises, Fault, EndInv, FreshInv,
         Terminal, TerminalStatuses, LoopInv
<1>15. CASE DraftSinkEmit
  BY <1>0, <1>15 DEF DraftSinkEmit, Finished, EndInv, FreshInv, Terminal,
         TerminalStatuses, LoopInv
<1>16. CASE DraftSinkRaises
  BY <1>0, <1>16 DEF DraftSinkRaises, Finished, SinkRaises, Fault, EndInv, FreshInv,
         Terminal, TerminalStatuses, LoopInv
<1>17. CASE Emitted
  BY <1>0, <1>17 DEF Emitted, EndInv, FreshInv, Terminal, TerminalStatuses, LoopInv
<1>18. CASE TimerCheckpoint
  BY <1>0, <1>18 DEF TimerCheckpoint, Fault, EndInv, FreshInv, Terminal,
         TerminalStatuses, LoopInv
<1>19. CASE Flush
  BY <1>0, <1>19 DEF Flush, Checkpoint, EndInv, FreshInv, Terminal, TerminalStatuses,
         LoopInv
<1>20. CASE FlushRaises
  BY <1>0, <1>20 DEF FlushRaises, Fault, EndInv, FreshInv, Terminal, TerminalStatuses,
         LoopInv
<1>21. CASE FinalizeResult
  <2>1. Terminal' /\ pc' = "publish" /\ seq' = seq /\ outcome' = outcome /\ zombie' = zombie
    BY EndsTerminal, <1>21 DEF FinalizeResult
  <2>2. CASE FinalStatus = "none"
    <3>1. terminal' = "none" /\ Terminal
      BY <1>0, <2>1, <2>2, <1>21 DEF FinalizeResult, FreshInv, Terminal
    <3> QED BY <1>0, <2>1, <3>1, <1>21 DEF FinalizeResult, EndInv
  <2>3. CASE FinalStatus # "none"
    BY <1>0, <2>1, <2>3, <1>21 DEF FinalizeResult, SetTerminal, EndInv
  <2> QED BY <2>2, <2>3
<1>22. CASE Aclose
  BY <1>0, <1>22 DEF Aclose, Checkpoint, Fault, EndInv, FreshInv, Terminal,
         TerminalStatuses, LoopInv
<1>23. CASE MarkError
  <2>1. Terminal' /\ pc' = "publish" /\ seq' = seq /\ outcome' = outcome /\ zombie' = zombie
    BY EndsTerminal, <1>23 DEF MarkError
  <2>2. CASE ErrorStatus = "none"
    <3>1. terminal' = "none" /\ Terminal
      BY <1>0, <2>1, <2>2, <1>23 DEF MarkError, FreshInv, Terminal
    <3> QED BY <1>0, <2>1, <3>1, <1>23 DEF MarkError, EndInv
  <2>3. CASE ErrorStatus # "none"
    BY <1>0, <2>1, <2>3, <1>23 DEF MarkError, SetTerminal, EndInv
  <2> QED BY <2>2, <2>3
<1>24. CASE ExecutorRaises
  BY <1>0, <1>24 DEF ExecutorRaises, Fault, EndInv, FreshInv, Terminal, TerminalStatuses,
         LoopInv
<1>25. CASE PublishTerminal
  BY <1>0, <1>25 DEF PublishTerminal, Fault, Append, EndInv, FreshInv, Terminal,
         TerminalStatuses, LoopInv
<1>26. CASE DeleteDraft
  BY <1>0, <1>26 DEF DeleteDraft, Checkpoint, Fault, EndInv, FreshInv, Terminal,
         TerminalStatuses, LoopInv
<1>27. CASE Heartbeat
  BY <1>0, <1>27 DEF Heartbeat, EndInv, FreshInv, Terminal, TerminalStatuses, LoopInv
<1>28. CASE HeartbeatRaises
  BY <1>0, <1>28 DEF HeartbeatRaises, Fault, EndInv, FreshInv, Terminal,
         TerminalStatuses, LoopInv
<1>29. CASE LeaseExpires
  BY <1>0, <1>29 DEF LeaseExpires, EndInv, FreshInv, Terminal, TerminalStatuses, LoopInv
<1>30. CASE WorkerCrashes
  BY <1>0, <1>30 DEF WorkerCrashes, Running, Fault, EndInv, FreshInv, Terminal,
         TerminalStatuses, LoopInv
<1>31. CASE RecoverRead
  BY <1>0, <1>31 DEF RecoverRead, Running, Active, RenewableStatuses, EndInv, FreshInv,
         Terminal, TerminalStatuses, LoopInv
<1>32. CASE RecoverCommit
  BY <1>0, <1>32 DEF RecoverCommit, SetTerminal, RecoveryInv, EndInv, FreshInv, Terminal,
         TerminalStatuses, LoopInv
<1>33. CASE RecoverAborts
  BY <1>0, <1>33 DEF RecoverAborts, Fault, EndInv, FreshInv, Terminal, TerminalStatuses,
         LoopInv
<1>34. CASE BroadcastTerminal
  BY <1>0, <1>34 DEF BroadcastTerminal, Fault, Append, EndInv, FreshInv, Terminal,
         TerminalStatuses, LoopInv
<1>35. CASE UNCHANGED vars
  BY <1>0, <1>35 DEF vars, EndInv, FreshInv, Terminal, TerminalStatuses, LoopInv
<1> QED BY <1>1, <1>2, <1>3, <1>4, <1>5, <1>6, <1>7, <1>8, <1>9, <1>10, <1>11, <1>12,
         <1>13, <1>14, <1>15, <1>16, <1>17, <1>18, <1>19, <1>20, <1>21, <1>22, <1>23,
                <1>24, <1>25, <1>26, <1>27, <1>28, <1>29, <1>30, <1>31, <1>32, <1>33,
                       <1>34, <1>35
           DEF Next, Requests, Agent, Sinks, Ending, Leases

(* RecoveryInv is preserved.                                                *)
LEMMA RecoveryStep == TypeInv /\ RowInv /\ SeqInv /\ [Next]_vars => RecoveryInv'
<1> SUFFICES ASSUME TypeInv, RowInv, SeqInv, [Next]_vars PROVE RecoveryInv'
  OBVIOUS
<1>0. /\ LoopInv /\ RowInv /\ FreshInv /\ EndInv /\ RecoveryInv
      /\ \A x \in events \cup stream : x.seq \in Nat
  BY DEF TypeInv, TypeOK, SeqInv, Event
<1>t. Terminal => Terminal'
  BY TerminalStays
<1>r. recovery = "read" => Active /\ ~Terminal
  BY DEF RowInv, Active, Terminal, RenewableStatuses, TerminalStatuses
<1>1. CASE CreateRun
  BY <1>0, <1>1, <1>t, <1>r DEF CreateRun, RecoveryInv
<1>2. CASE CancelOwnedRun
  BY <1>0, <1>2, <1>t, <1>r DEF CancelOwnedRun, SetTerminal, RowFree, RecoveryInv
<1>3. CASE CancelRunRoutePublish
  BY <1>0, <1>3, <1>t, <1>r DEF CancelRunRoutePublish, Fault, Append, RecoveryInv
<1>4. CASE CancelHint
  BY <1>0, <1>4, <1>t, <1>r DEF CancelHint, RecoveryInv
<1>5. CASE ClaimNextQueuedRun
  BY <1>0, <1>5, <1>t, <1>r DEF ClaimNextQueuedRun, RowFree, RecoveryInv
<1>6. CASE Setup
  BY <1>0, <1>6, <1>t, <1>r DEF Setup, RowFree, RecoveryInv
<1>7. CASE PublishPersistedEvents
  BY <1>0, <1>7 DEF PublishPersistedEvents, Fault, Terminal, RecoveryInv
<1>8. CASE EmitEvent
  BY <1>0, <1>8, <1>t, <1>r DEF EmitEvent, RecoveryInv
<1>9. CASE AgentEnds
  BY <1>0, <1>9, <1>t, <1>r DEF AgentEnds, RecoveryInv
<1>10. CASE StopOnCancel
  BY <1>0, <1>10, <1>t, <1>r DEF StopOnCancel, RecoveryInv
<1>11. CASE AgentRaises
  BY <1>0, <1>11, <1>t, <1>r DEF AgentRaises, RecoveryInv
<1>12. CASE RedisSinkEmit
  BY <1>0, <1>12, <1>t, <1>r DEF RedisSinkEmit, Finished, Fault, Append, RecoveryInv
<1>13. CASE PgSinkEmit
  BY <1>0, <1>13, <1>t, <1>r DEF PgSinkEmit, Finished, RecoveryInv
<1>14. CASE PgSinkRaises
  BY <1>0, <1>14, <1>t, <1>r DEF PgSinkRaises, Finished, SinkRaises, Fault, RecoveryInv
<1>15. CASE DraftSinkEmit
  BY <1>0, <1>15, <1>t, <1>r DEF DraftSinkEmit, Finished, RecoveryInv
<1>16. CASE DraftSinkRaises
  BY <1>0, <1>16, <1>t, <1>r DEF DraftSinkRaises, Finished, SinkRaises, Fault, RecoveryInv
<1>17. CASE Emitted
  BY <1>0, <1>17, <1>t, <1>r DEF Emitted, RecoveryInv
<1>18. CASE TimerCheckpoint
  BY <1>0, <1>18, <1>t, <1>r DEF TimerCheckpoint, Fault, RecoveryInv
<1>19. CASE Flush
  BY <1>0, <1>19, <1>t, <1>r DEF Flush, Checkpoint, RecoveryInv
<1>20. CASE FlushRaises
  BY <1>0, <1>20, <1>t, <1>r DEF FlushRaises, Fault, RecoveryInv
<1>21. CASE FinalizeResult
  BY <1>0, <1>21, <1>t, <1>r DEF FinalizeResult, SetTerminal, RowFree, RecoveryInv
<1>22. CASE Aclose
  BY <1>0, <1>22, <1>t, <1>r DEF Aclose, Checkpoint, Fault, RecoveryInv
<1>23. CASE MarkError
  BY <1>0, <1>23, <1>t, <1>r DEF MarkError, SetTerminal, RowFree, RecoveryInv
<1>24. CASE ExecutorRaises
  BY <1>0, <1>24, <1>t, <1>r DEF ExecutorRaises, Fault, RecoveryInv
<1>25. CASE PublishTerminal
  BY <1>0, <1>25, <1>t, <1>r DEF PublishTerminal, Fault, Append, EndInv, RecoveryInv
<1>26. CASE DeleteDraft
  BY <1>0, <1>26, <1>t, <1>r DEF DeleteDraft, Checkpoint, Fault, RecoveryInv
<1>27. CASE Heartbeat
  BY <1>0, <1>27, <1>t, <1>r DEF Heartbeat, RecoveryInv
<1>28. CASE HeartbeatRaises
  BY <1>0, <1>28, <1>t, <1>r DEF HeartbeatRaises, Fault, RecoveryInv
<1>29. CASE LeaseExpires
  BY <1>0, <1>29, <1>t, <1>r DEF LeaseExpires, RecoveryInv
<1>30. CASE WorkerCrashes
  BY <1>0, <1>30, <1>t, <1>r DEF WorkerCrashes, Running, Fault, RecoveryInv
<1>31. CASE RecoverRead
  <2>1. ~zombie' => pc \in {"none", "done", "crashed"} /\ sinks = {}
    BY <1>31 DEF RecoverRead, Running
  <2>2. pc # "none"
    BY <1>0, <1>31 DEF RecoverRead, FreshInv, Active, RenewableStatuses
  <2>3. /\ DurableSeq \in Nat /\ draft <= DurableSeq
        /\ \A e \in events : e.seq <= DurableSeq
        /\ LastSeq(stream) \in Nat /\ draft \in Nat
    BY DurableSeqType DEF TypeInv, TypeOK
  <2>4. \A e \in stream : e.seq <= LastSeq(stream)
    BY LastSeqIsMax DEF TypeInv, TypeOK
  <2>5. \A x \in stream : x.seq <= DurableSeq + MaxPending
    BY <1>31 DEF RecoverRead, SeqInv, AheadInv
  <2>6. /\ Max({DurableSeq, LastSeq(stream)}) \in Nat
        /\ DurableSeq <= Max({DurableSeq, LastSeq(stream)})
        /\ LastSeq(stream) <= Max({DurableSeq, LastSeq(stream)})
    BY <2>3 DEF Max
  <2>7. \/ recSeq' = DurableSeq + Gap + 1
        \/ recSeq' = Max({DurableSeq, LastSeq(stream)}) + 1
    BY <1>31 DEF RecoverRead
  <2>8. draft < recSeq' /\ \A x \in events \cup stream : x.seq < recSeq'
    BY <1>0, <2>3, <2>4, <2>5, <2>6, <2>7, GapAssumption, BoundAssumption
  <2>9. UNCHANGED <<pc, sinks, draft, events, stream>> /\ recovery' = "read"
    BY <1>31 DEF RecoverRead
  <2> QED BY <2>1, <2>2, <2>8, <2>9 DEF RecoveryInv
<1>32. CASE RecoverCommit
  BY <1>0, <1>32, <1>t, <1>r DEF RecoverCommit, SetTerminal, Terminal, TerminalStatuses,
         TerminalType, RecoveryInv
<1>33. CASE RecoverAborts
  BY <1>0, <1>33, <1>t, <1>r DEF RecoverAborts, Fault, RecoveryInv
<1>34. CASE BroadcastTerminal
  BY <1>0, <1>34, <1>t, <1>r DEF BroadcastTerminal, Fault, Append, RecoveryInv
<1>35. CASE UNCHANGED vars
  BY <1>0, <1>35 DEF vars, RecoveryInv, Terminal
<1> QED BY <1>1, <1>2, <1>3, <1>4, <1>5, <1>6, <1>7, <1>8, <1>9, <1>10, <1>11, <1>12,
         <1>13, <1>14, <1>15, <1>16, <1>17, <1>18, <1>19, <1>20, <1>21, <1>22, <1>23,
                <1>24, <1>25, <1>26, <1>27, <1>28, <1>29, <1>30, <1>31, <1>32, <1>33,
                       <1>34, <1>35
           DEF Next, Requests, Agent, Sinks, Ending, Leases

(* A run that ends with a seq above everything ends with its last seq.      *)
LEMMA EndsLast ==
  ASSUME TypeInv, RowInv, ~Terminal, NEW s \in TerminalStatuses, NEW n \in Nat,
         SetTerminal(s, n), stream' = stream, draft' < n,
         \A x \in events \cup stream : x.seq < n
  PROVE  TerminalIsLast'
<1>1. TerminalEvents' = {Ev(n, TerminalType(s))}
  BY DEF SetTerminal, TerminalEvents, RowInv, TerminalEventMatches, Ev, TerminalType,
         TerminalTypes, TerminalStatuses
<1>2. Ev(n, TerminalType(s)).seq = n
  BY DEF Ev
<1>3. (events' \cup stream') \ {Ev(n, TerminalType(s))} \subseteq events \cup stream
  BY DEF SetTerminal
<1> QED BY <1>1, <1>2, <1>3 DEF TerminalIsLast

(* After the end nothing above the terminal event comes: not on the stream, *)
(* not in the draft, not in PostgreSQL.                                     *)
LEMMA StaysLast ==
  ASSUME TerminalIsLast, Terminal, zombie' = zombie, TerminalEvents' = TerminalEvents,
         ~zombie => \A t \in TerminalEvents :
            /\ \A x \in (events' \cup stream') \ (events \cup stream) : x = t \/ x.seq < t.seq
            /\ draft' = draft \/ draft' < t.seq
  PROVE  TerminalIsLast'
BY DEF TerminalIsLast

(* The terminal event stays the last one.                                   *)
LEMMA LastStep == TypeInv /\ RowInv /\ SeqInv /\ [Next]_vars => TerminalIsLast'
<1> SUFFICES ASSUME TypeInv, RowInv, SeqInv, [Next]_vars PROVE TerminalIsLast'
  OBVIOUS
<1>0. /\ LoopInv /\ FreshInv /\ OrderInv /\ EndInv /\ RecoveryInv
      /\ TerminalIsLast /\ TerminalEventMatches
      /\ seq \in Nat /\ latest \in Nat /\ draft \in Nat /\ recSeq \in Nat
      /\ kind \in {"none", "delta", "tool"} /\ terminal \in {"none"} \cup TerminalTypes
      /\ \A x \in events \cup stream : x.seq \in Nat
  BY DEF TypeInv, TypeOK, SeqInv, RowInv, Event
<1>t. status' \notin TerminalStatuses => TerminalIsLast'
  BY DEF TerminalIsLast, Terminal
<1>e. Terminal /\ ~zombie =>
        \E t \in TerminalEvents :
           /\ TerminalEvents = {t} /\ t.type = TerminalType(status)
           /\ t \in events /\ draft < t.seq /\ t.seq \in Nat
           /\ \A x \in (events \cup stream) \ {t} : x.seq < t.seq
  BY <1>0 DEF TerminalIsLast, TerminalEventMatches, TerminalEvents
<1>s. Terminal /\ ~zombie /\ (pc \in {"publish", "delete"} \/ sinks # {}) =>
        \A t \in TerminalEvents : t.seq = seq + 1
  <2> SUFFICES ASSUME Terminal, ~zombie, pc \in {"publish", "delete"} \/ sinks # {},
                      NEW t \in TerminalEvents
               PROVE  t.seq = seq + 1
    OBVIOUS
  <2>1. Ev(seq + 1, TerminalType(status)) \in TerminalEvents
    BY <1>0 DEF EndInv, TerminalEvents, Ev, Terminal, TerminalStatuses, TerminalType,
                TerminalTypes
  <2>2. Ev(seq + 1, TerminalType(status)).seq = seq + 1
    BY DEF Ev
  <2> QED BY <1>e, <2>1, <2>2
<1>u. UNCHANGED <<status, zombie, events, stream, draft>> => TerminalIsLast'
  BY <1>0 DEF TerminalIsLast, Terminal, TerminalEvents
<1>1. CASE CreateRun
  BY <1>t, <1>1 DEF CreateRun, TerminalStatuses
<1>2. CASE CancelOwnedRun
  <2>1. CASE status = "queued" /\ SetTerminal("cancelled", DurableSeq + 1)
    <3>1. ~Terminal /\ stream = {} /\ draft' = draft /\ stream' = stream
      BY <1>0, <2>1, <1>2 DEF CancelOwnedRun, LoopInv, FreshInv, Terminal, TerminalStatuses
    <3>2. /\ DurableSeq + 1 \in Nat /\ draft < DurableSeq + 1
          /\ \A x \in events \cup stream : x.seq < DurableSeq + 1
      BY <1>0, <3>1, DurableSeqType
    <3>3. "cancelled" \in TerminalStatuses /\ draft' < DurableSeq + 1
      BY <3>1, <3>2 DEF TerminalStatuses
    <3> QED BY <2>1, <3>1, <3>2, <3>3, EndsLast
  <2>2. CASE status' = "cancelling"
    BY <1>t, <2>2 DEF TerminalStatuses
  <2>3. CASE UNCHANGED <<status, lease, events>>
    BY <1>u, <2>3, <1>2 DEF CancelOwnedRun
  <2> QED BY <2>1, <2>2, <2>3, <1>2 DEF CancelOwnedRun
<1>3. CASE CancelRunRoutePublish
  <2>0. UNCHANGED <<status, events, draft>>
    BY <1>3 DEF CancelRunRoutePublish
  <2>1. CASE ~Terminal
    BY <1>t, <2>0, <2>1 DEF Terminal
  <2>2. CASE Terminal
    <3>1. PICK e \in events : e.type \in TerminalTypes /\ Append(e)
      BY <2>2, <1>3 DEF CancelRunRoutePublish
    <3>2. zombie' = zombie /\ TerminalEvents' = TerminalEvents
      BY <2>0, <3>1 DEF Append, Fault, TerminalEvents
    <3>3. \A x \in stream' : x \in stream \/ x = e
      BY <3>1, AppendAdds
    <3> QED BY <1>0, <2>0, <2>2, <3>1, <3>2, <3>3, StaysLast
  <2> QED BY <2>1, <2>2
<1>4. CASE CancelHint
  BY <1>0, <1>4, <1>u DEF CancelHint
<1>5. CASE ClaimNextQueuedRun
  BY <1>t, <1>5 DEF ClaimNextQueuedRun, TerminalStatuses
<1>6. CASE Setup
  BY <1>0, <1>6, <1>u DEF Setup
<1>7. CASE PublishPersistedEvents
  <2>1. UNCHANGED <<status, events, draft>> /\ zombie' = zombie /\ pc = "replay"
    BY <1>7 DEF PublishPersistedEvents, Fault
  <2> QED BY <1>0, <2>1 DEF EndInv, TerminalIsLast, Terminal
<1>8. CASE EmitEvent
  BY <1>0, <1>8, <1>u DEF EmitEvent
<1>9. CASE AgentEnds
  BY <1>0, <1>9, <1>u DEF AgentEnds
<1>10. CASE StopOnCancel
  BY <1>0, <1>10, <1>u DEF StopOnCancel
<1>11. CASE AgentRaises
  BY <1>0, <1>11, <1>u DEF AgentRaises
<1>12. CASE RedisSinkEmit
  <2>1. UNCHANGED <<status, events, draft>> /\ zombie' = zombie /\ sinks # {}
    BY <1>12 DEF RedisSinkEmit, Finished, Append, Fault
  <2>2. TerminalEvents' = TerminalEvents
    BY <2>1 DEF TerminalEvents
  <2>3. \A x \in stream' : x \in stream \/ x = Ev(seq, kind)
    BY <1>12, AppendAdds DEF RedisSinkEmit
  <2>4. Ev(seq, kind).seq = seq /\ seq < seq + 1
    BY <1>0 DEF Ev
  <2>5. CASE Terminal
    BY <1>0, <1>s, <2>1, <2>2, <2>3, <2>4, <2>5, StaysLast
  <2>6. CASE ~Terminal
    BY <1>t, <2>1, <2>6 DEF Terminal
  <2> QED BY <2>5, <2>6
<1>13. CASE PgSinkEmit
  <2>0. UNCHANGED <<draft, stream, zombie>> /\ sinks # {}
    BY <1>13 DEF PgSinkEmit, Finished
  <2>1. CASE UNCHANGED <<status, events>>
    BY <1>u, <2>0, <2>1
  <2>2. CASE /\ streamingStarted \/ status = "started"
             /\ status' = IF streamingStarted THEN status ELSE "streaming"
             /\ events' = IF kind = "tool" THEN events \cup {Ev(seq, kind)} ELSE events
    <3>1. CASE ~Terminal
      BY <1>t, <2>2, <3>1 DEF Terminal, TerminalStatuses
    <3>2. CASE Terminal
      <4>1. kind = "tool" => TerminalEvents' = TerminalEvents
        BY <2>2, OtherEvent DEF TerminalTypes
      <4>2. kind # "tool" => TerminalEvents' = TerminalEvents
        BY <2>2 DEF TerminalEvents
      <4>3. Ev(seq, kind).seq = seq /\ seq < seq + 1
        BY <1>0 DEF Ev
      <4>4. \A x \in events' : x \in events \/ x = Ev(seq, kind)
        BY <2>2
      <4> QED BY <1>0, <1>s, <2>0, <3>2, <4>1, <4>2, <4>3, <4>4, StaysLast
    <3> QED BY <3>1, <3>2
  <2> QED BY <2>1, <2>2, <1>13 DEF PgSinkEmit
<1>14. CASE PgSinkRaises
  BY <1>0, <1>14, <1>u DEF PgSinkRaises, Finished, SinkRaises, Fault
<1>15. CASE DraftSinkEmit
  <2>1. /\ UNCHANGED <<status, events, stream, zombie>> /\ sinks # {}
        /\ draft' = draft \/ draft' < seq + 1
    BY <1>0, <1>15 DEF DraftSinkEmit, Finished, OrderInv
  <2>2. TerminalEvents' = TerminalEvents
    BY <2>1 DEF TerminalEvents
  <2>3. CASE Terminal
    BY <1>0, <1>s, <2>1, <2>2, <2>3, StaysLast
  <2>4. CASE ~Terminal
    BY <1>t, <2>1, <2>4 DEF Terminal
  <2> QED BY <2>3, <2>4
<1>16. CASE DraftSinkRaises
  BY <1>0, <1>16, <1>u DEF DraftSinkRaises, Finished, SinkRaises, Fault
<1>17. CASE Emitted
  BY <1>0, <1>17, <1>u DEF Emitted
<1>18. CASE TimerCheckpoint
  <2>1. UNCHANGED <<status, zombie>> /\ pc \in {"stream", "emit", "flush", "aclose"}
    BY <1>18 DEF TimerCheckpoint, Fault
  <2> QED BY <1>0, <2>1 DEF EndInv, TerminalIsLast, Terminal
<1>19. CASE Flush
  <2>1. UNCHANGED <<status, zombie>> /\ pc \in {"stream", "emit", "flush", "aclose"}
    BY <1>19 DEF Flush, Checkpoint
  <2> QED BY <1>0, <2>1 DEF EndInv, TerminalIsLast, Terminal
<1>20. CASE FlushRaises
  BY <1>0, <1>20, <1>u DEF FlushRaises, Fault
<1>21. CASE FinalizeResult
  <2>1. CASE FinalStatus = "none"
    BY <1>u, <2>1, <1>21 DEF FinalizeResult
  <2>2. CASE FinalStatus # "none"
    <3>1. ~Terminal /\ FinalStatus \in TerminalStatuses
      BY <2>2 DEF FinalStatus, SucceededFrom, CancelledFrom, Terminal, TerminalStatuses
    <3>2. /\ SetTerminal(FinalStatus, seq + 1) /\ stream' = stream /\ draft' = draft
          /\ pc \in {"finalize", "mark_error"}
      BY <2>2, <1>21 DEF FinalizeResult
    <3>3. /\ seq + 1 \in Nat /\ draft < seq + 1
          /\ \A x \in events \cup stream : x.seq < seq + 1
      BY <1>0, <3>1, <3>2 DEF OrderInv
    <3>4. draft' < seq + 1
      BY <3>2, <3>3
    <3> QED BY <3>1, <3>2, <3>3, <3>4, EndsLast
  <2> QED BY <2>1, <2>2
<1>22. CASE Aclose
  <2>1. UNCHANGED <<status, zombie>> /\ pc \in {"stream", "emit", "flush", "aclose"}
    BY <1>22 DEF Aclose, Fault
  <2> QED BY <1>0, <2>1 DEF EndInv, TerminalIsLast, Terminal
<1>23. CASE MarkError
  <2>1. CASE ErrorStatus = "none"
    BY <1>u, <2>1, <1>23 DEF MarkError
  <2>2. CASE ErrorStatus # "none"
    <3>1. ~Terminal /\ ErrorStatus \in TerminalStatuses
      BY <2>2 DEF ErrorStatus, SucceededFrom, Terminal, TerminalStatuses
    <3>2. /\ SetTerminal(ErrorStatus, seq + 1) /\ stream' = stream /\ draft' = draft
          /\ pc \in {"finalize", "mark_error"}
      BY <2>2, <1>23 DEF MarkError
    <3>3. /\ seq + 1 \in Nat /\ draft < seq + 1
          /\ \A x \in events \cup stream : x.seq < seq + 1
      BY <1>0, <3>1, <3>2 DEF OrderInv
    <3>4. draft' < seq + 1
      BY <3>2, <3>3
    <3> QED BY <3>1, <3>2, <3>3, <3>4, EndsLast
  <2> QED BY <2>1, <2>2
<1>24. CASE ExecutorRaises
  BY <1>0, <1>24, <1>u DEF ExecutorRaises, Fault
<1>25. CASE PublishTerminal
  <2>1. UNCHANGED <<status, events, draft>> /\ zombie' = zombie
    BY <1>25 DEF PublishTerminal, Append, Fault
  <2>2. CASE terminal = "none"
    BY <1>u, <2>1, <2>2, <1>25 DEF PublishTerminal
  <2>3. CASE terminal # "none"
    <3>1. Ev(seq + 1, terminal) \in TerminalEvents /\ Terminal
      BY <1>0, <2>3, <1>25 DEF PublishTerminal, EndInv, TerminalEvents, Ev
    <3>2. \A x \in stream' : x \in stream \/ x = Ev(seq + 1, terminal)
      BY <2>3, <1>25, AppendAdds DEF PublishTerminal
    <3>3. TerminalEvents' = TerminalEvents
      BY <2>1 DEF TerminalEvents
    <3> QED BY <1>0, <1>e, <2>1, <3>1, <3>2, <3>3, StaysLast
  <2> QED BY <2>2, <2>3
<1>26. CASE DeleteDraft
  <2>1. /\ UNCHANGED <<status, events, stream>> /\ zombie' = zombie
        /\ pc \in {"publish", "delete"}
        /\ draft' = draft \/ draft' < seq + 1
    BY <1>0, <1>26 DEF DeleteDraft, Checkpoint, Fault, OrderInv
  <2>2. TerminalEvents' = TerminalEvents /\ Terminal
    BY <1>0, <2>1 DEF TerminalEvents, EndInv
  <2> QED BY <1>0, <1>s, <2>1, <2>2, StaysLast
<1>27. CASE Heartbeat
  BY <1>0, <1>27, <1>u DEF Heartbeat
<1>28. CASE HeartbeatRaises
  BY <1>0, <1>28, <1>u DEF HeartbeatRaises, Fault
<1>29. CASE LeaseExpires
  BY <1>0, <1>29, <1>u DEF LeaseExpires
<1>30. CASE WorkerCrashes
  BY <1>0, <1>30, <1>u DEF WorkerCrashes, Running, Fault
<1>31. CASE RecoverRead
  <2>1. Active /\ status' = status
    BY <1>31 DEF RecoverRead
  <2> QED BY <1>t, <2>1 DEF Active, RenewableStatuses, TerminalStatuses
<1>32. CASE RecoverCommit
  <2>1. /\ SetTerminal("failed", recSeq) /\ stream' = stream /\ draft' = 0
        /\ zombie' = zombie /\ recovery = "read"
    BY <1>32 DEF RecoverCommit
  <2>2. CASE zombie
    BY <2>1, <2>2 DEF TerminalIsLast
  <2>3. CASE ~zombie
    <3>1. /\ ~Terminal /\ "failed" \in TerminalStatuses /\ draft < recSeq
          /\ \A x \in events \cup stream : x.seq < recSeq
      BY <1>0, <2>1, <2>3 DEF RowInv, Active, RenewableStatuses, TerminalStatuses, Terminal,
         RecoveryInv
    <3>2. draft' < recSeq
      BY <1>0, <2>1, <3>1
    <3> QED BY <1>0, <2>1, <3>1, <3>2, EndsLast
  <2> QED BY <2>2, <2>3
<1>33. CASE RecoverAborts
  BY <1>0, <1>33, <1>u DEF RecoverAborts, Fault
<1>34. CASE BroadcastTerminal
  <2>1. UNCHANGED <<status, events, draft>> /\ zombie' = zombie /\ recovery = "committed"
    BY <1>34 DEF BroadcastTerminal, Append, Fault
  <2>2. Ev(recSeq, "run_failed") \in TerminalEvents /\ Terminal
    BY <1>0, <2>1 DEF RecoveryInv, TerminalEvents, Ev, TerminalTypes
  <2>3. \A x \in stream' : x \in stream \/ x = Ev(recSeq, "run_failed")
    BY <1>34, AppendAdds DEF BroadcastTerminal
  <2>4. TerminalEvents' = TerminalEvents
    BY <2>1 DEF TerminalEvents
  <2> QED BY <1>0, <1>e, <2>1, <2>2, <2>3, <2>4, StaysLast
<1>35. CASE UNCHANGED vars
  BY <1>u, <1>35 DEF vars
<1> QED BY <1>1, <1>2, <1>3, <1>4, <1>5, <1>6, <1>7, <1>8, <1>9, <1>10, <1>11, <1>12,
         <1>13, <1>14, <1>15, <1>16, <1>17, <1>18, <1>19, <1>20, <1>21, <1>22, <1>23,
                <1>24, <1>25, <1>26, <1>27, <1>28, <1>29, <1>30, <1>31, <1>32, <1>33,
                       <1>34, <1>35
           DEF Next, Requests, Agent, Sinks, Ending, Leases

(* Initially there is nothing.                                              *)
LEMMA SeqInit == Init => SeqInv
BY DEF Init, SeqInv, FreshInv, OrderInv, EndInv, RecoveryInv, TerminalIsLast, Terminal,
       TerminalStatuses, Active, RenewableStatuses

(* The three invariants together are inductive.                             *)
LEMMA SeqInvariant == Safety => [](TypeInv /\ RowInv /\ SeqInv)
<1>1. Init => TypeInv /\ RowInv /\ SeqInv
  BY TypeInit, RowInit, SeqInit
<1>2. (TypeInv /\ RowInv /\ SeqInv) /\ [Next]_vars => (TypeInv /\ RowInv /\ SeqInv)'
  BY TypeStep, RowStep, FreshStep, OrderStep, AheadStep, EndStep, RecoveryStep, LastStep
     DEF SeqInv
<1> QED BY <1>1, <1>2, PTL DEF Safety

(* Recovery's numbering is safe: the Redis stream is never further ahead of *)
(* PostgreSQL than the gap, so that the terminal event of a run whose       *)
(* executor is dead comes after everything a client can have seen.          *)
THEOREM RecoveryNumbersLast == Safety => []RecoverySeqSafe
<1>1. TypeInv /\ RowInv /\ SeqInv => RecoverySeqSafe
  <2> SUFFICES ASSUME TypeInv, SeqInv PROVE RecoverySeqSafe
    OBVIOUS
  <2>1. TerminalIsLast
    BY DEF SeqInv
  <2>2. ASSUME Active PROVE LastSeq(stream) <= DurableSeq + Gap
    <3>1. /\ LastSeq(stream) \in Nat /\ DurableSeq \in Nat
      BY DurableSeqType
    <3>2. CASE stream = {}
      BY <3>1, <3>2, GapAssumption DEF LastSeq
    <3>3. CASE stream # {}
      <4>1. PICK e \in stream : e.seq = LastSeq(stream)
        BY <3>3, LastSeqIsMax DEF TypeInv, TypeOK
      <4>2. e.seq <= DurableSeq + MaxPending
        BY <2>2 DEF SeqInv, AheadInv
      <4> QED BY <3>1, <4>1, <4>2, GapAssumption, BoundAssumption
    <3> QED BY <3>2, <3>3
  <2> QED BY <2>1, <2>2 DEF RecoverySeqSafe, UncheckpointedWithinGap
<1> QED BY <1>1, SeqInvariant, PTL

-----------------------------------------------------------------------------
(* The pool.                                                                *)

(* A locked row is queued, its claim is under way, and it is the only one   *)
(* of its worker.                                                           *)
LockInv ==
  /\ \A r \in Runs : lock[r] # "nobody" => run[r] = "queued" /\ place[lock[r]] = "claiming"
  /\ \A r, s \in Runs : lock[r] # "nobody" /\ lock[r] = lock[s] => r = s

(* A task executes a run that was claimed, and a dead worker has no task.   *)
TaskInv ==
  \A w \in Workers : /\ \A r \in inflight[w] : run[r] \in {"active", "ended"}
                     /\ ~Alive(w) => inflight[w] = {}

PoolInv == PoolTypeOK /\ LockInv /\ TaskInv /\ OneExecutor /\ PermitsBalanced

-----------------------------------------------------------------------------
(* Sets of runs are finite, so Cardinality counts tasks.                    *)
LEMMA FiniteTasks ==
  ASSUME NEW S \in SUBSET Runs
  PROVE  IsFiniteSet(S) /\ Cardinality(S) \in Nat
<1>1. IsFiniteSet(Runs) BY PoolAssumption, FS_Interval DEF Runs
<1>2. IsFiniteSet(S) BY <1>1, FS_Subset
<1> QED BY <1>2, FS_CardinalityType

(* The SELECT of claim_next_queued_run returns one of the rows it may take. *)
LEMMA OldestIsClaimable ==
  ASSUME Claimable # {}
  PROVE  Min(Claimable) \in Claimable
<1>1. Claimable \subseteq Nat BY PoolAssumption DEF Claimable, Runs
<1>2. \E x \in Claimable : \A y \in Claimable : ~(<<y, x>> \in OpToRel(<, Nat))
  BY <1>1, NatLessThanWellFounded, WFMin
<1>3. \E x \in Claimable : \A y \in Claimable : x <= y
  <2>1. PICK x \in Claimable : \A y \in Claimable : ~(<<y, x>> \in OpToRel(<, Nat))
    BY <1>2
  <2>2. ASSUME NEW y \in Claimable PROVE x <= y
    <3>1. x \in Nat /\ y \in Nat BY <1>1
    <3>2. ~(y < x) BY <2>1, <3>1 DEF OpToRel
    <3> QED BY <3>1, <3>2
  <2> QED BY <2>2
<1> QED BY <1>3 DEF Min

-----------------------------------------------------------------------------
(* A new run is queued and no row is locked by it.                          *)
LEMMA SubmitStep ==
  ASSUME PoolInv, NEW r \in Runs, Submit(r)
  PROVE  PoolInv'
<1> USE PoolAssumption DEF PoolInv
<1>1. PoolTypeOK'
  BY DEF PoolTypeOK, Submit, loop, wakeup
<1>2. LockInv'
  BY DEF PoolTypeOK, LockInv, Submit, loop, wakeup
<1>3. TaskInv'
  BY DEF PoolTypeOK, TaskInv, Submit, loop, wakeup, Alive
<1>4. OneExecutor'
  BY DEF PoolTypeOK, TaskInv, OneExecutor, Submit, loop, wakeup
<1>5. PermitsBalanced'
  BY DEF PoolTypeOK, PermitsBalanced, Submit, loop, wakeup, Alive
<1> QED BY <1>1, <1>2, <1>3, <1>4, <1>5

(* A hint changes no row and no semaphore.                                  *)
LEMMA PublishRunQueuedStep ==
  ASSUME PoolInv, NEW r \in Runs, PublishRunQueued(r)
  PROVE  PoolInv'
<1> USE PoolAssumption DEF PoolInv
<1>1. PoolTypeOK'
  BY DEF PoolTypeOK, PublishRunQueued, db, loop
<1>2. LockInv'
  BY DEF PoolTypeOK, LockInv, PublishRunQueued, db, loop
<1>3. TaskInv'
  BY DEF PoolTypeOK, TaskInv, PublishRunQueued, db, loop, Alive
<1>4. OneExecutor'
  BY DEF PoolTypeOK, TaskInv, OneExecutor, PublishRunQueued, db, loop
<1>5. PermitsBalanced'
  BY DEF PoolTypeOK, PermitsBalanced, PublishRunQueued, db, loop, Alive
<1> QED BY <1>1, <1>2, <1>3, <1>4, <1>5

(* Only a queued row that no claim holds is cancelled.                      *)
LEMMA CancelQueuedStep ==
  ASSUME PoolInv, NEW r \in Runs, CancelQueued(r)
  PROVE  PoolInv'
<1> USE PoolAssumption DEF PoolInv
<1>1. PoolTypeOK'
  BY DEF PoolTypeOK, CancelQueued, loop, wakeup
<1>2. LockInv'
  BY DEF PoolTypeOK, LockInv, CancelQueued, loop, wakeup
<1>3. TaskInv'
  BY DEF PoolTypeOK, TaskInv, CancelQueued, loop, wakeup, Alive
<1>4. OneExecutor'
  BY DEF PoolTypeOK, TaskInv, OneExecutor, CancelQueued, loop, wakeup
<1>5. PermitsBalanced'
  BY DEF PoolTypeOK, PermitsBalanced, CancelQueued, loop, wakeup, Alive
<1> QED BY <1>1, <1>2, <1>3, <1>4, <1>5

(* Time changes nothing but the lease.                                      *)
LEMMA LeaseRunsOutStep ==
  ASSUME PoolInv, NEW r \in Runs, LeaseRunsOut(r)
  PROVE  PoolInv'
<1> USE PoolAssumption DEF PoolInv
<1>1. PoolTypeOK'
  BY DEF PoolTypeOK, LeaseRunsOut, loop, wakeup
<1>2. LockInv'
  BY DEF PoolTypeOK, LockInv, LeaseRunsOut, loop, wakeup
<1>3. TaskInv'
  BY DEF PoolTypeOK, TaskInv, LeaseRunsOut, loop, wakeup, Alive
<1>4. OneExecutor'
  BY DEF PoolTypeOK, TaskInv, OneExecutor, LeaseRunsOut, loop, wakeup
<1>5. PermitsBalanced'
  BY DEF PoolTypeOK, PermitsBalanced, LeaseRunsOut, loop, wakeup, Alive
<1> QED BY <1>1, <1>2, <1>3, <1>4, <1>5

(* A permit is taken for the claim that follows.                            *)
LEMMA LoopTopStep ==
  ASSUME PoolInv, NEW w \in Workers, LoopTop(w)
  PROVE  PoolInv'
<1> USE PoolAssumption DEF PoolInv
<1>0. \A v \in Workers : IsFiniteSet(inflight[v]) /\ Cardinality(inflight[v]) \in Nat
  BY FiniteTasks DEF PoolTypeOK
<1>1. PoolTypeOK'
  BY DEF PoolTypeOK, LoopTop, db, wakeup
<1>2. LockInv'
  BY DEF PoolTypeOK, LockInv, LoopTop, db, wakeup
<1>3. TaskInv'
  BY DEF PoolTypeOK, TaskInv, LoopTop, db, wakeup, Alive
<1>4. OneExecutor'
  BY DEF PoolTypeOK, TaskInv, OneExecutor, LoopTop, db, wakeup
<1>5. PermitsBalanced'
  BY <1>0 DEF PoolTypeOK, PermitsBalanced, LoopTop, db, wakeup, Alive
<1> QED BY <1>1, <1>2, <1>3, <1>4, <1>5

(* A permit that was waited for is taken, or left.                          *)
LEMMA AcquiredStep ==
  ASSUME PoolInv, NEW w \in Workers, Acquired(w)
  PROVE  PoolInv'
<1> USE PoolAssumption DEF PoolInv
<1>0. \A v \in Workers : IsFiniteSet(inflight[v]) /\ Cardinality(inflight[v]) \in Nat
  BY FiniteTasks DEF PoolTypeOK
<1>1. PoolTypeOK'
  BY DEF PoolTypeOK, Acquired, db, wakeup
<1>2. LockInv'
  BY DEF PoolTypeOK, LockInv, Acquired, db, wakeup
<1>3. TaskInv'
  BY DEF PoolTypeOK, TaskInv, Acquired, db, wakeup, Alive
<1>4. OneExecutor'
  BY DEF PoolTypeOK, TaskInv, OneExecutor, Acquired, db, wakeup
<1>5. PermitsBalanced'
  BY <1>0 DEF PoolTypeOK, PermitsBalanced, Acquired, db, wakeup, Alive
<1> QED BY <1>1, <1>2, <1>3, <1>4, <1>5

(* The row that is locked was queued and free.                              *)
LEMMA ClaimSelectStep ==
  ASSUME PoolInv, NEW w \in Workers, ClaimSelect(w)
  PROVE  PoolInv'
<1> USE PoolAssumption DEF PoolInv
<1>1. PoolTypeOK'
  <2>1. Claimable # {} => Min(Claimable) \in Runs
    BY OldestIsClaimable DEF Claimable
  <2> QED BY <2>1 DEF PoolTypeOK, ClaimSelect, wakeup
<1>2. LockInv'
  <2>1. CASE Claimable = {}
    BY <2>1 DEF PoolTypeOK, LockInv, ClaimSelect, wakeup
  <2>2. CASE Claimable # {}
    <3> DEFINE m == Min(Claimable)
    <3>1. m \in Runs /\ run[m] = "queued" /\ lock[m] = "nobody"
      BY <2>2, OldestIsClaimable DEF Claimable
    <3>2. lock' = [lock EXCEPT ![m] = w] /\ place[w] = "claim"
          /\ place' = [place EXCEPT ![w] = "claiming"] /\ run' = run
      BY <2>2 DEF ClaimSelect
    <3> HIDE DEF m
    <3> QED BY <3>1, <3>2 DEF PoolTypeOK, LockInv
  <2> QED BY <2>1, <2>2
<1>3. TaskInv'
  BY DEF PoolTypeOK, TaskInv, ClaimSelect, wakeup, Alive
<1>4. OneExecutor'
  BY DEF PoolTypeOK, TaskInv, OneExecutor, ClaimSelect, wakeup
<1>5. PermitsBalanced'
  BY DEF PoolTypeOK, PermitsBalanced, ClaimSelect, wakeup, Alive
<1> QED BY <1>1, <1>2, <1>3, <1>4, <1>5

(* The task is new, because a locked row has none; or the permit goes back. *)
LEMMA ClaimCommitStep ==
  ASSUME PoolInv, NEW w \in Workers, ClaimCommit(w)
  PROVE  PoolInv'
<1> USE PoolAssumption DEF PoolInv
<1>0. \A v \in Workers : IsFiniteSet(inflight[v]) /\ Cardinality(inflight[v]) \in Nat
  BY FiniteTasks DEF PoolTypeOK
<1>1. PoolTypeOK'
  <2>1. CASE \A r \in Runs : lock[r] # w
    <3>1. permits[w] + 1 \in 0..Capacity
      BY <1>0 DEF PoolTypeOK, PermitsBalanced, ClaimCommit, Alive
    <3> QED BY <2>1, <3>1 DEF PoolTypeOK, ClaimCommit
  <2>2. ASSUME NEW r \in Runs, lock[r] = w, Claimed(r, w),
               lock' = [lock EXCEPT ![r] = "nobody"],
               inflight' = [inflight EXCEPT ![w] = @ \cup {r}],
               place' = [place EXCEPT ![w] = "top"], told' = [told EXCEPT ![w] = FALSE],
               UNCHANGED <<permits, expired, event, stop, poolFaults>>
        PROVE  PoolTypeOK'
    BY <2>2 DEF PoolTypeOK, Claimed
  <2> QED BY <2>1, <2>2 DEF ClaimCommit
<1>2. LockInv'
  BY DEF PoolTypeOK, LockInv, ClaimCommit, Claimed
<1>3. TaskInv'
  BY DEF PoolTypeOK, TaskInv, ClaimCommit, Claimed, Alive
<1>4. OneExecutor'
  BY DEF PoolTypeOK, LockInv, TaskInv, OneExecutor, ClaimCommit, Claimed
<1>5. PermitsBalanced'
  <2>1. CASE \A r \in Runs : lock[r] # w
    BY <1>0, <2>1 DEF PoolTypeOK, PermitsBalanced, ClaimCommit, Alive
  <2>2. CASE \E r \in Runs : lock[r] = w
    <3>1. PICK r \in Runs : /\ lock[r] = w /\ inflight' = [inflight EXCEPT ![w] = @ \cup {r}]
                            /\ place' = [place EXCEPT ![w] = "top"] /\ permits' = permits
      BY <2>2 DEF ClaimCommit
    <3>2. place[w] = "claiming" BY DEF ClaimCommit
    <3>3. r \notin inflight[w] BY <3>1 DEF LockInv, TaskInv, PoolTypeOK
    <3>4. Cardinality(inflight[w] \cup {r}) = Cardinality(inflight[w]) + 1
      BY <1>0, <3>3, FS_AddElement
    <3> QED BY <1>0, <3>1, <3>2, <3>4 DEF PoolTypeOK, PermitsBalanced, Alive
  <2> QED BY <2>1, <2>2
<1> QED BY <1>1, <1>2, <1>3, <1>4, <1>5

(* The permit goes back; a claim that committed has an owner and no task.   *)
LEMMA ClaimFailsStep ==
  ASSUME PoolInv, NEW w \in Workers, ClaimFails(w)
  PROVE  PoolInv'
<1> USE PoolAssumption DEF PoolInv
<1>0. \A v \in Workers : IsFiniteSet(inflight[v]) /\ Cardinality(inflight[v]) \in Nat
  BY FiniteTasks DEF PoolTypeOK
<1>1. PoolTypeOK'
  <2>1. permits[w] + 1 \in 0..Capacity
    BY <1>0 DEF PoolTypeOK, PermitsBalanced, ClaimFails, Alive
  <2> QED BY <2>1 DEF PoolTypeOK, ClaimFails, Claimed, PoolFault, wakeup
<1>2. LockInv'
  BY DEF PoolTypeOK, LockInv, ClaimFails, Claimed, PoolFault, wakeup
<1>3. TaskInv'
  BY DEF PoolTypeOK, TaskInv, ClaimFails, Claimed, PoolFault, wakeup, Alive
<1>4. OneExecutor'
  BY DEF PoolTypeOK, LockInv, TaskInv, OneExecutor, ClaimFails, Claimed, PoolFault, wakeup
<1>5. PermitsBalanced'
  BY <1>0 DEF PoolTypeOK, PermitsBalanced, ClaimFails, Alive
<1> QED BY <1>1, <1>2, <1>3, <1>4, <1>5

(* Only the event changes.                                                  *)
LEMMA WaitEndsStep ==
  ASSUME PoolInv, NEW w \in Workers, WaitEnds(w)
  PROVE  PoolInv'
<1> USE PoolAssumption DEF PoolInv
<1>1. PoolTypeOK'
  <2>1. event' \in [Workers -> BOOLEAN]
    <3>1. PICK stays \in {FALSE, event[w]} : event' = [event EXCEPT ![w] = stays]
      BY DEF WaitEnds
    <3>2. stays \in BOOLEAN BY DEF PoolTypeOK
    <3> QED BY <3>1, <3>2 DEF PoolTypeOK
  <2> QED BY <2>1 DEF PoolTypeOK, WaitEnds, db
<1>2. LockInv'
  BY DEF PoolTypeOK, LockInv, WaitEnds, db
<1>3. TaskInv'
  BY DEF PoolTypeOK, TaskInv, WaitEnds, db, Alive
<1>4. OneExecutor'
  BY DEF PoolTypeOK, TaskInv, OneExecutor, WaitEnds, db
<1>5. PermitsBalanced'
  BY DEF PoolTypeOK, PermitsBalanced, WaitEnds, db, Alive
<1> QED BY <1>1, <1>2, <1>3, <1>4, <1>5

(* Only the stop event changes.                                             *)
LEMMA StopStep ==
  ASSUME PoolInv, NEW w \in Workers, Stop(w)
  PROVE  PoolInv'
<1> USE PoolAssumption DEF PoolInv
<1>1. PoolTypeOK'
  BY DEF PoolTypeOK, Stop, db, loop, wakeup
<1>2. LockInv'
  BY DEF PoolTypeOK, LockInv, Stop, db, loop, wakeup
<1>3. TaskInv'
  BY DEF PoolTypeOK, TaskInv, Stop, db, loop, wakeup, Alive
<1>4. OneExecutor'
  BY DEF PoolTypeOK, TaskInv, OneExecutor, Stop, db, loop, wakeup
<1>5. PermitsBalanced'
  BY DEF PoolTypeOK, PermitsBalanced, Stop, db, loop, wakeup, Alive
<1> QED BY <1>1, <1>2, <1>3, <1>4, <1>5

(* A worker stops when it has no task left.                                 *)
LEMMA DrainDoneStep ==
  ASSUME PoolInv, NEW w \in Workers, DrainDone(w)
  PROVE  PoolInv'
<1> USE PoolAssumption DEF PoolInv
<1>1. PoolTypeOK'
  BY DEF PoolTypeOK, DrainDone, db
<1>2. LockInv'
  BY DEF PoolTypeOK, LockInv, DrainDone, db
<1>3. TaskInv'
  BY DEF PoolTypeOK, TaskInv, DrainDone, db, Alive
<1>4. OneExecutor'
  BY DEF PoolTypeOK, TaskInv, OneExecutor, DrainDone, db
<1>5. PermitsBalanced'
  BY DEF PoolTypeOK, PermitsBalanced, DrainDone, db, Alive
<1> QED BY <1>1, <1>2, <1>3, <1>4, <1>5

(* Tasks and lock of the dead worker are gone.                              *)
LEMMA CrashStep ==
  ASSUME PoolInv, NEW w \in Workers, Crash(w)
  PROVE  PoolInv'
<1> USE PoolAssumption DEF PoolInv
<1>1. PoolTypeOK'
  BY DEF PoolTypeOK, Crash, PoolFault
<1>2. LockInv'
  BY DEF PoolTypeOK, LockInv, Crash, PoolFault
<1>3. TaskInv'
  BY DEF PoolTypeOK, TaskInv, Crash, PoolFault, Alive
<1>4. OneExecutor'
  BY DEF PoolTypeOK, TaskInv, OneExecutor, Crash, PoolFault
<1>5. PermitsBalanced'
  BY DEF PoolTypeOK, PermitsBalanced, Crash, PoolFault, Alive
<1> QED BY <1>1, <1>2, <1>3, <1>4, <1>5

(* The task's permit goes back; a task's run is never locked.               *)
LEMMA TaskEndsStep ==
  ASSUME PoolInv, NEW w \in Workers, NEW r \in Runs, TaskEnds(w, r)
  PROVE  PoolInv'
<1> USE PoolAssumption DEF PoolInv
<1>0. \A v \in Workers : IsFiniteSet(inflight[v]) /\ Cardinality(inflight[v]) \in Nat
  BY FiniteTasks DEF PoolTypeOK
<1>1. PoolTypeOK'
  <2>1. r \in inflight[w] BY DEF TaskEnds, TaskDone
  <2>2. Alive(w) BY <2>1 DEF TaskInv
  <2>3. Cardinality(inflight[w]) > 0 BY <1>0, <2>1, FS_EmptySet
  <2>4. permits[w] + 1 \in 0..Capacity
    BY <1>0, <2>2, <2>3 DEF PoolTypeOK, PermitsBalanced
  <2> QED BY <2>4 DEF PoolTypeOK, TaskEnds, TaskDone, wakeup
<1>2. LockInv'
  BY DEF PoolTypeOK, LockInv, TaskInv, TaskEnds, TaskDone, wakeup
<1>3. TaskInv'
  BY DEF PoolTypeOK, TaskInv, TaskEnds, TaskDone, wakeup, Alive
<1>4. OneExecutor'
  BY DEF PoolTypeOK, TaskInv, OneExecutor, TaskEnds, TaskDone, wakeup
<1>5. PermitsBalanced'
  <2>1. /\ r \in inflight[w] /\ inflight' = [inflight EXCEPT ![w] = @ \ {r}]
        /\ permits' = [permits EXCEPT ![w] = @ + 1] /\ place' = place
    BY DEF TaskEnds, TaskDone
  <2>2. Cardinality(inflight[w] \ {r}) = Cardinality(inflight[w]) - 1
    BY <1>0, <2>1, FS_RemoveElement
  <2> QED BY <1>0, <2>1, <2>2 DEF PoolTypeOK, PermitsBalanced, Alive
<1> QED BY <1>1, <1>2, <1>3, <1>4, <1>5

(* The task's permit goes back and the run keeps its owner.                 *)
LEMMA TaskRaisesStep ==
  ASSUME PoolInv, NEW w \in Workers, NEW r \in Runs, TaskRaises(w, r)
  PROVE  PoolInv'
<1> USE PoolAssumption DEF PoolInv
<1>0. \A v \in Workers : IsFiniteSet(inflight[v]) /\ Cardinality(inflight[v]) \in Nat
  BY FiniteTasks DEF PoolTypeOK
<1>1. PoolTypeOK'
  <2>1. r \in inflight[w] BY DEF TaskRaises, TaskDone
  <2>2. Alive(w) BY <2>1 DEF TaskInv
  <2>3. Cardinality(inflight[w]) > 0 BY <1>0, <2>1, FS_EmptySet
  <2>4. permits[w] + 1 \in 0..Capacity
    BY <1>0, <2>2, <2>3 DEF PoolTypeOK, PermitsBalanced
  <2> QED BY <2>4 DEF PoolTypeOK, TaskRaises, TaskDone, PoolFault, db, wakeup
<1>2. LockInv'
  BY DEF PoolTypeOK, LockInv, TaskRaises, TaskDone, PoolFault, db, wakeup
<1>3. TaskInv'
  BY DEF PoolTypeOK, TaskInv, TaskRaises, TaskDone, PoolFault, db, wakeup, Alive
<1>4. OneExecutor'
  BY DEF PoolTypeOK, TaskInv, OneExecutor, TaskRaises, TaskDone, PoolFault, db, wakeup
<1>5. PermitsBalanced'
  <2>1. /\ r \in inflight[w] /\ inflight' = [inflight EXCEPT ![w] = @ \ {r}]
        /\ permits' = [permits EXCEPT ![w] = @ + 1] /\ place' = place
    BY DEF TaskRaises, TaskDone
  <2>2. Cardinality(inflight[w] \ {r}) = Cardinality(inflight[w]) - 1
    BY <1>0, <2>1, FS_RemoveElement
  <2> QED BY <1>0, <2>1, <2>2 DEF PoolTypeOK, PermitsBalanced, Alive
<1> QED BY <1>1, <1>2, <1>3, <1>4, <1>5

(* Only the lease changes.                                                  *)
LEMMA RenewLeaseStep ==
  ASSUME PoolInv, NEW w \in Workers, NEW r \in Runs, RenewLease(w, r)
  PROVE  PoolInv'
<1> USE PoolAssumption DEF PoolInv
<1>1. PoolTypeOK'
  BY DEF PoolTypeOK, RenewLease, loop, wakeup
<1>2. LockInv'
  BY DEF PoolTypeOK, LockInv, RenewLease, loop, wakeup
<1>3. TaskInv'
  BY DEF PoolTypeOK, TaskInv, RenewLease, loop, wakeup, Alive
<1>4. OneExecutor'
  BY DEF PoolTypeOK, TaskInv, OneExecutor, RenewLease, loop, wakeup
<1>5. PermitsBalanced'
  BY DEF PoolTypeOK, PermitsBalanced, RenewLease, loop, wakeup, Alive
<1> QED BY <1>1, <1>2, <1>3, <1>4, <1>5

(* An active row is not locked, and an ended one may have any owner.        *)
LEMMA RecoverStep ==
  ASSUME PoolInv, NEW w \in Workers, NEW r \in Runs, Recover(w, r)
  PROVE  PoolInv'
<1> USE PoolAssumption DEF PoolInv
<1>1. PoolTypeOK'
  BY DEF PoolTypeOK, Recover, loop, wakeup
<1>2. LockInv'
  BY DEF PoolTypeOK, LockInv, Recover, loop, wakeup
<1>3. TaskInv'
  BY DEF PoolTypeOK, TaskInv, Recover, loop, wakeup, Alive
<1>4. OneExecutor'
  BY DEF PoolTypeOK, TaskInv, OneExecutor, Recover, loop, wakeup
<1>5. PermitsBalanced'
  BY DEF PoolTypeOK, PermitsBalanced, Recover, loop, wakeup, Alive
<1> QED BY <1>1, <1>2, <1>3, <1>4, <1>5

(* The pool starts with all permits and no task.                            *)
LEMMA InitPool == PoolInit => PoolInv
<1> SUFFICES ASSUME PoolInit PROVE PoolInv
  OBVIOUS
<1> USE PoolAssumption DEF PoolInit
<1>1. PoolTypeOK BY DEF PoolTypeOK
<1>2. LockInv BY DEF LockInv
<1>3. TaskInv BY DEF TaskInv
<1>4. OneExecutor BY DEF OneExecutor
<1>5. PermitsBalanced BY FS_EmptySet DEF PermitsBalanced
<1> QED BY <1>1, <1>2, <1>3, <1>4, <1>5 DEF PoolInv

(* Every step of API, loops, tasks and recovery preserves the invariant.    *)
LEMMA NextPool == PoolInv /\ [PoolNext]_poolVars => PoolInv'
<1> SUFFICES ASSUME PoolInv, [PoolNext]_poolVars PROVE PoolInv'
  OBVIOUS
<1>1. CASE UNCHANGED poolVars
  <2>1. UNCHANGED <<run, owner, expired, lock, place, permits, inflight, event, told, stop, poolFaults>>
    BY <1>1 DEF poolVars, db, loop, wakeup
  <2> QED BY <2>1 DEF PoolInv, PoolTypeOK, LockInv, TaskInv, OneExecutor, PermitsBalanced, Alive
<1>2. ASSUME NEW r \in Runs, ApiStep(r) PROVE PoolInv'
  BY <1>2, SubmitStep, PublishRunQueuedStep, CancelQueuedStep, LeaseRunsOutStep DEF ApiStep
<1>3. ASSUME NEW w \in Workers, ClaimLoopStep(w) PROVE PoolInv'
  BY <1>3, LoopTopStep, AcquiredStep, ClaimSelectStep, ClaimCommitStep, ClaimFailsStep,
     WaitEndsStep, StopStep, DrainDoneStep, CrashStep DEF ClaimLoopStep
<1>4. ASSUME NEW w \in Workers, NEW r \in Runs, TaskStep(w, r) PROVE PoolInv'
  BY <1>4, TaskEndsStep, TaskRaisesStep, RenewLeaseStep, RecoverStep DEF TaskStep
<1> QED BY <1>1, <1>2, <1>3, <1>4 DEF PoolNext

(* The inductive invariant from which the theorems below follow.            *)
THEOREM PoolInvariant == PoolSafety => []PoolInv
<1> QED BY InitPool, NextPool, PTL DEF PoolSafety

(* The types of the whole pool: in particular a semaphore never goes below  *)
(* zero or above worker_max_inflight_runs.                                  *)
THEOREM PoolTypes == PoolSafety => []PoolTypeOK
<1>1. PoolInv => PoolTypeOK BY DEF PoolInv
<1> QED BY <1>1, PoolInvariant, PTL

(* claim_next_queued_run and run_worker_loop: no run is executed twice at   *)
(* the same time, for any number of workers and any overlap of claims,      *)
(* failures and crashes.                                                    *)
THEOREM NoTwoExecutors == PoolSafety => []OneExecutor
<1>1. PoolInv => OneExecutor BY DEF PoolInv
<1> QED BY <1>1, PoolInvariant, PTL

(* run_worker_loop: every path returns exactly the permit it took.          *)
THEOREM PermitsAddUp == PoolSafety => []PermitsBalanced
<1>1. PoolInv => PermitsBalanced BY DEF PoolInv
<1> QED BY <1>1, PoolInvariant, PTL
-----------------------------------------------------------------------------
(* A hint that reached a worker since it looked for a run is still there to *)
(* wake it, through everything its claim does until the wait ends.          *)
HintInv == \A w \in Workers : told[w] => event[w]

(* Only the end of a wait, of a drain or of the process takes the event     *)
(* away, and the worker looks for a run again before it waits again.        *)
LEMMA HintStep == PoolTypeOK /\ HintInv /\ [PoolNext]_poolVars => HintInv'
<1> SUFFICES ASSUME PoolTypeOK, HintInv, [PoolNext]_poolVars PROVE HintInv'
  OBVIOUS
<1> USE DEF PoolTypeOK, HintInv
<1>1. CASE UNCHANGED poolVars
  BY <1>1 DEF poolVars, wakeup
<1>2. ASSUME NEW r \in Runs, ApiStep(r) PROVE HintInv'
  <2>1. CASE PublishRunQueued(r)
    BY <2>1 DEF PublishRunQueued
  <2>2. CASE Submit(r) \/ CancelQueued(r) \/ LeaseRunsOut(r)
    BY <2>2 DEF Submit, CancelQueued, LeaseRunsOut, wakeup
  <2> QED BY <1>2, <2>1, <2>2 DEF ApiStep
<1>3. ASSUME NEW w \in Workers, ClaimLoopStep(w) PROVE HintInv'
  <2>1. CASE LoopTop(w) \/ Acquired(w) \/ ClaimSelect(w) \/ ClaimFails(w) \/ Stop(w)
    BY <2>1 DEF LoopTop, Acquired, ClaimSelect, ClaimFails, Stop, wakeup
  <2>2. CASE ClaimCommit(w)
    BY <2>2 DEF ClaimCommit
  <2>3. CASE WaitEnds(w)
    BY <2>3 DEF WaitEnds
  <2>4. CASE DrainDone(w) \/ Crash(w)
    BY <2>4 DEF DrainDone, Crash
  <2> QED BY <1>3, <2>1, <2>2, <2>3, <2>4 DEF ClaimLoopStep
<1>4. ASSUME NEW w \in Workers, NEW r \in Runs, TaskStep(w, r) PROVE HintInv'
  BY <1>4 DEF TaskStep, TaskEnds, TaskRaises, RenewLease, Recover, wakeup
<1> QED BY <1>1, <1>2, <1>3, <1>4 DEF PoolNext

(* RunQueuedListener: whatever the worker is doing when the hint arrives,   *)
(* it does not wait for the timer with a hint it has not acted on.          *)
THEOREM HintsAreKept == PoolSafety => []HintNotLost
<1>1. PoolInit => HintInv BY DEF PoolInit, HintInv
<1>2. HintInv => HintNotLost BY DEF HintInv, HintNotLost
<1> QED BY <1>1, <1>2, HintStep, PoolTypes, PTL DEF PoolSafety
=============================================================================
