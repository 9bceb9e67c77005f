----------------------------- MODULE WorkerPool -----------------------------
(***************************************************************************)
(* Many runs, many workers (app/worker/main.py): each worker claims queued *)
(* runs, oldest first, while it has permits, executes them as tasks, waits *)
(* for a hint or the polling timer when there is nothing to claim, fails   *)
(* the runs whose lease expired, and drains when it is told to stop.       *)
(*                                                                         *)
(* What one execution does is the subject of RunExecution; here a claimed  *)
(* run is "active" (started, streaming, cancelling) until it is "ended".   *)
(* A claim is two steps, so that claims of several workers overlap: SELECT *)
(* FOR UPDATE SKIP LOCKED takes the lock, the commit releases it.          *)
(***************************************************************************)
EXTENDS Integers, FiniteSetsExt

CONSTANTS
  Workers,       \* worker processes
  N,             \* runs are 1..N, in the order of (created_at, id)
  Capacity,      \* worker_max_inflight_runs
  MaxPoolFaults  \* bound on failed claims, executors that raise and crashes

ASSUME PoolAssumption == /\ N \in Nat /\ MaxPoolFaults \in Nat
                         /\ Capacity \in Nat \ {0}
                         /\ "nobody" \notin Workers

VARIABLES
  run,        \* status of every run: "new", "queued", "active", "ended"
  owner,      \* lease_owner, or "nobody"
  expired,    \* lease_expires_at has passed
  lock,       \* the worker whose claim holds the row, or "nobody"
  place,      \* where the claim loop of a worker is
  permits,    \* the value of its semaphore
  inflight,   \* its tasks, by run
  stop,       \* its stop_event
  event,      \* the asyncio.Event of its RunQueuedListener
  told,       \* history: a hint reached it after the SELECT it is waiting on
  poolFaults  \* faults left

Runs == 1..N
db       == <<run, owner, expired, lock>>
loop     == <<place, permits, inflight>>
wakeup   == <<event, told>>
poolVars == <<db, loop, wakeup, stop, poolFaults>>

Alive(w) == place[w] \notin {"stopped", "crashed"}

(* Between the SELECT of a claim and the end of the wait that follows it.   *)
Looked(w) == place[w] \in {"claiming", "wait"}

PoolInit ==
  /\ run = [r \in Runs |-> "new"] /\ owner = [r \in Runs |-> "nobody"]
  /\ expired = [r \in Runs |-> FALSE] /\ lock = [r \in Runs |-> "nobody"]
  /\ place = [w \in Workers |-> "top"] /\ permits = [w \in Workers |-> Capacity]
  /\ inflight = [w \in Workers |-> {}]
  /\ stop = [w \in Workers |-> FALSE] /\ event = [w \in Workers |-> FALSE]
  /\ told = [w \in Workers |-> FALSE]
  /\ poolFaults = MaxPoolFaults

PoolFault == poolFaults > 0 /\ poolFaults' = poolFaults - 1

-----------------------------------------------------------------------------
(* The API.                                                                 *)

(* The transaction that inserts a run; transactions commit in any order.    *)
Submit(r) ==
  /\ run[r] = "new"
  /\ run' = [run EXCEPT ![r] = "queued"]
  /\ UNCHANGED <<owner, expired, lock, loop, wakeup, stop, poolFaults>>

(* Mutant: the hint wakes a listener only while somebody waits on it.       *)
PublishToWaiting(r) ==
  /\ run[r] # "new"
  /\ \E ws \in SUBSET {w \in Workers : Alive(w)} :
       /\ event' = [w \in Workers |-> event[w] \/ (w \in ws /\ place[w] = "wait")]
       /\ told' = [w \in Workers |-> told[w] \/ (w \in ws /\ Looked(w))]
  /\ UNCHANGED <<db, loop, stop, poolFaults>>

(* _publish_run_queued, after the commit.  The hint comes late, or twice,   *)
(* and to some workers or none; RunQueuedListener._listen sets the event,   *)
(* which stays set.                                                         *)
PublishRunQueued(r) ==
  /\ run[r] # "new"
  /\ \E ws \in SUBSET {w \in Workers : Alive(w)} :
       /\ event' = [w \in Workers |-> event[w] \/ w \in ws]
       /\ told' = [w \in Workers |-> told[w] \/ (w \in ws /\ Looked(w))]
  /\ UNCHANGED <<db, loop, stop, poolFaults>>

(* cancel_owned_run on a queued run; it waits for a claim that has the row. *)
CancelQueued(r) ==
  /\ run[r] = "queued" /\ lock[r] = "nobody"
  /\ run' = [run EXCEPT ![r] = "ended"]
  /\ UNCHANGED <<owner, expired, lock, loop, wakeup, stop, poolFaults>>

-----------------------------------------------------------------------------
(* The claim loop of run_worker_loop.                                       *)

(* The head of the loop: stop, take a permit, or wait for one.              *)
LoopTop(w) ==
  /\ place[w] = "top"
  /\ \/ stop[w] /\ place' = [place EXCEPT ![w] = "drain"] /\ UNCHANGED permits
     \/ /\ ~stop[w] /\ permits[w] > 0
        /\ place' = [place EXCEPT ![w] = "claim"]
        /\ permits' = [permits EXCEPT ![w] = @ - 1]
     \/ /\ ~stop[w] /\ permits[w] = 0
        /\ place' = [place EXCEPT ![w] = "acquire"] /\ UNCHANGED permits
  /\ UNCHANGED <<db, inflight, wakeup, stop, poolFaults>>

(* semaphore.acquire() returns; the permit goes back if it is time to stop. *)
Acquired(w) ==
  /\ place[w] = "acquire" /\ permits[w] > 0
  /\ \/ stop[w] /\ place' = [place EXCEPT ![w] = "drain"] /\ UNCHANGED permits
     \/ /\ ~stop[w]
        /\ place' = [place EXCEPT ![w] = "claim"]
        /\ permits' = [permits EXCEPT ![w] = @ - 1]
  /\ UNCHANGED <<db, inflight, wakeup, stop, poolFaults>>

(* Mutant: the SELECT does not look at the status.                          *)
ClaimableAgain == {r \in Runs : run[r] \in {"queued", "active"} /\ lock[r] = "nobody"}

(* The rows the SELECT of claim_next_queued_run can take.                   *)
Claimable == {r \in Runs : run[r] = "queued" /\ lock[r] = "nobody"}

(* claim_next_queued_run up to the lock: the oldest row nobody has locked,  *)
(* if there is one.                                                         *)
ClaimSelect(w) ==
  /\ place[w] = "claim"
  /\ place' = [place EXCEPT ![w] = "claiming"]
  /\ lock' = IF Claimable = {} THEN lock
             ELSE [lock EXCEPT ![Min(Claimable)] = w]
  /\ UNCHANGED <<run, owner, expired, permits, inflight, wakeup, stop, poolFaults>>

(* The row as a committed claim leaves it.                                  *)
Claimed(r, w) == /\ run' = [run EXCEPT ![r] = "active"]
                 /\ owner' = [owner EXCEPT ![r] = w]

(* The commit, and the task; or nothing was found, and the permit goes back. *)
ClaimCommit(w) ==
  /\ place[w] = "claiming"
  /\ \/ \E r \in Runs :
          /\ lock[r] = w
          /\ Claimed(r, w)
          /\ lock' = [lock EXCEPT ![r] = "nobody"]
          /\ inflight' = [inflight EXCEPT ![w] = @ \cup {r}]
          /\ place' = [place EXCEPT ![w] = "top"]
          /\ told' = [told EXCEPT ![w] = FALSE]
          /\ UNCHANGED permits
     \/ /\ \A r \in Runs : lock[r] # w
        /\ place' = [place EXCEPT ![w] = "wait"]
        /\ permits' = [permits EXCEPT ![w] = @ + 1]
        /\ UNCHANGED <<run, owner, lock, inflight, told>>
  /\ UNCHANGED <<expired, event, stop, poolFaults>>

(* Mutant: the exception handler forgets the permit.                        *)
ClaimFailsKeepingPermit(w) ==
  /\ place[w] \in {"claim", "claiming"}
  /\ PoolFault
  /\ lock' = [r \in Runs |-> IF lock[r] = w THEN "nobody" ELSE lock[r]]
  /\ place' = [place EXCEPT ![w] = "wait"]
  /\ UNCHANGED <<run, owner, expired, permits, inflight, wakeup, stop>>

(* The claim raises: rolled back, or committed without the worker learning  *)
(* of it, so that the run has a lease and no task.                          *)
ClaimFails(w) ==
  /\ place[w] \in {"claim", "claiming"}
  /\ PoolFault
  /\ lock' = [r \in Runs |-> IF lock[r] = w THEN "nobody" ELSE lock[r]]
  /\ \/ UNCHANGED <<run, owner>>
     \/ \E r \in Runs : lock[r] = w /\ Claimed(r, w)
  /\ place' = [place EXCEPT ![w] = "wait"]
  /\ permits' = [permits EXCEPT ![w] = @ + 1]
  /\ UNCHANGED <<expired, inflight, wakeup, stop>>

(* _wait_for_signal_or_stop: a hint, the stop event or the polling interval *)
(* ends the wait.  A hint that comes as the wait ends may stay.             *)
WaitEnds(w) ==
  /\ place[w] = "wait"
  /\ place' = [place EXCEPT ![w] = "top"]
  /\ \E stays \in {FALSE, event[w]} : event' = [event EXCEPT ![w] = stays]
  /\ told' = [told EXCEPT ![w] = FALSE]
  /\ UNCHANGED <<db, permits, inflight, stop, poolFaults>>

(* A signal to stop, and the end of the drain.                              *)
Stop(w) ==
  /\ Alive(w) /\ ~stop[w]
  /\ stop' = [stop EXCEPT ![w] = TRUE]
  /\ UNCHANGED <<db, loop, wakeup, poolFaults>>

DrainDone(w) ==
  /\ place[w] = "drain" /\ inflight[w] = {}
  /\ place' = [place EXCEPT ![w] = "stopped"]
  /\ event' = [event EXCEPT ![w] = FALSE]
  /\ told' = [told EXCEPT ![w] = FALSE]
  /\ UNCHANGED <<db, permits, inflight, stop, poolFaults>>

-----------------------------------------------------------------------------
(* Tasks and leases.                                                        *)

(* _on_task_done.                                                           *)
TaskDone(w, r) ==
  /\ r \in inflight[w]
  /\ inflight' = [inflight EXCEPT ![w] = @ \ {r}]
  /\ permits' = [permits EXCEPT ![w] = @ + 1]
  /\ UNCHANGED place

(* execute_run returns: the run has ended, by its hand or by recovery's.    *)
TaskEnds(w, r) ==
  /\ TaskDone(w, r)
  /\ run' = [run EXCEPT ![r] = "ended"]
  /\ owner' = [owner EXCEPT ![r] = "nobody"]
  /\ expired' = [expired EXCEPT ![r] = FALSE]
  /\ UNCHANGED <<lock, wakeup, stop, poolFaults>>

(* execute_run raises; _execute_and_log logs it and leaves the run alone.   *)
TaskRaises(w, r) ==
  /\ TaskDone(w, r)
  /\ PoolFault
  /\ UNCHANGED <<db, wakeup, stop>>

(* renew_lease, by the heartbeat of a task.                                 *)
RenewLease(w, r) ==
  /\ r \in inflight[w] /\ run[r] = "active" /\ owner[r] = w
  /\ expired' = [expired EXCEPT ![r] = FALSE]
  /\ UNCHANGED <<run, owner, lock, loop, wakeup, stop, poolFaults>>

LeaseRunsOut(r) ==
  /\ run[r] = "active" /\ ~expired[r]
  /\ expired' = [expired EXCEPT ![r] = TRUE]
  /\ UNCHANGED <<run, owner, lock, loop, wakeup, stop, poolFaults>>

(* Mutant: a worker only recovers the runs it has claimed itself.           *)
RecoverOwn(w, r) ==
  /\ Alive(w) /\ ~stop[w] /\ owner[r] = w
  /\ run[r] = "active" /\ expired[r]
  /\ run' = [run EXCEPT ![r] = "ended"]
  /\ owner' = [owner EXCEPT ![r] = "nobody"]
  /\ expired' = [expired EXCEPT ![r] = FALSE]
  /\ UNCHANGED <<lock, loop, wakeup, stop, poolFaults>>

(* _recovery_loop of any worker that was not told to stop.                  *)
Recover(w, r) ==
  /\ Alive(w) /\ ~stop[w]
  /\ run[r] = "active" /\ expired[r]
  /\ run' = [run EXCEPT ![r] = "ended"]
  /\ owner' = [owner EXCEPT ![r] = "nobody"]
  /\ expired' = [expired EXCEPT ![r] = FALSE]
  /\ UNCHANGED <<lock, loop, wakeup, stop, poolFaults>>

(* The process dies: its tasks are gone and its claim is rolled back.       *)
Crash(w) ==
  /\ Alive(w)
  /\ PoolFault
  /\ place' = [place EXCEPT ![w] = "crashed"]
  /\ inflight' = [inflight EXCEPT ![w] = {}]
  /\ permits' = [permits EXCEPT ![w] = 0]
  /\ stop' = [stop EXCEPT ![w] = FALSE]
  /\ event' = [event EXCEPT ![w] = FALSE]
  /\ told' = [told EXCEPT ![w] = FALSE]
  /\ lock' = [r \in Runs |-> IF lock[r] = w THEN "nobody" ELSE lock[r]]
  /\ UNCHANGED <<run, owner, expired>>

-----------------------------------------------------------------------------
ApiStep(r) == Submit(r) \/ PublishRunQueued(r) \/ CancelQueued(r) \/ LeaseRunsOut(r)

ClaimLoopStep(w) == \/ LoopTop(w) \/ Acquired(w) \/ ClaimSelect(w) \/ ClaimCommit(w)
                    \/ ClaimFails(w) \/ WaitEnds(w) \/ Stop(w) \/ DrainDone(w)
                    \/ Crash(w)

TaskStep(w, r) == \/ TaskEnds(w, r) \/ TaskRaises(w, r) \/ RenewLease(w, r)
                  \/ Recover(w, r)

PoolNext == \/ \E r \in Runs : ApiStep(r)
            \/ \E w \in Workers : ClaimLoopStep(w)
            \/ \E w \in Workers, r \in Runs : TaskStep(w, r)

PoolSafety == PoolInit /\ [][PoolNext]_poolVars

(* A live worker's loop runs, with its polling timer; an execution ends     *)
(* (requests to the model have timeouts); leases nobody renews expire and   *)
(* recovery looks for them.  Nothing is assumed of hints.                   *)
PoolFairness ==
  /\ \A w \in Workers : WF_poolVars(\/ LoopTop(w) \/ Acquired(w) \/ ClaimSelect(w)
                                    \/ ClaimCommit(w) \/ WaitEnds(w) \/ DrainDone(w))
  /\ \A r \in Runs : /\ WF_poolVars(\E w \in Workers : TaskEnds(w, r))
                     /\ WF_poolVars(\E w \in Workers : Recover(w, r))
                     /\ WF_poolVars(LeaseRunsOut(r))

PoolSpec == PoolSafety /\ PoolFairness

-----------------------------------------------------------------------------
(* Types; a semaphore never leaves 0..worker_max_inflight_runs, also when a *)
(* claim fails or a task raises.                                            *)
PoolTypeOK ==
  /\ run \in [Runs -> {"new", "queued", "active", "ended"}]
  /\ owner \in [Runs -> Workers \cup {"nobody"}]
  /\ lock \in [Runs -> Workers \cup {"nobody"}]
  /\ expired \in [Runs -> BOOLEAN]
  /\ place \in [Workers -> {"top", "acquire", "claim", "claiming", "wait", "drain",
                            "stopped", "crashed"}]
  /\ permits \in [Workers -> 0..Capacity]
  /\ inflight \in [Workers -> SUBSET Runs]
  /\ stop \in [Workers -> BOOLEAN] /\ event \in [Workers -> BOOLEAN]
  /\ told \in [Workers -> BOOLEAN]
  /\ poolFaults \in 0..MaxPoolFaults

(* run_worker_loop: on every path through the loop, the failing ones        *)
(* included, permits, tasks and the permit in hand add up to the capacity,  *)
(* so a worker neither overloads nor, error by error, starves itself.       *)
PermitsBalanced ==
  \A w \in Workers : Alive(w) =>
    permits[w] + Cardinality(inflight[w])
      + (IF place[w] \in {"claim", "claiming"} THEN 1 ELSE 0) = Capacity

(* claim_next_queued_run: no run is executed by two workers, however their  *)
(* claims overlap, and while it is active its executor is its lease owner.  *)
OneExecutor ==
  \A w \in Workers : \A r \in inflight[w] :
    /\ \A v \in Workers \ {w} : r \notin inflight[v]
    /\ run[r] = "active" => owner[r] = w

(* RunQueuedListener: a hint is never swallowed.  A worker that was told of *)
(* a run after it looked for one, also while its claim was failing, does    *)
(* not sit and wait with nothing to wake it but the timer.                  *)
HintNotLost == \A w \in Workers : place[w] = "wait" /\ told[w] => event[w]

(* Polling: every queued run is claimed or cancelled, with or without the   *)
(* hint, unless every worker is stopping or gone.                           *)
NobodyWorks == \A w \in Workers : stop[w] \/ ~Alive(w)
QueuedRunIsTaken == \A r \in Runs : run[r] = "queued" ~> (run[r] # "queued" \/ NobodyWorks)

(* _recovery_loop: a claimed run that no task executes is ended, by any     *)
(* worker, also when its claim committed without its worker knowing.        *)
OrphanIsRecovered ==
  \A r \in Runs : (run[r] = "active" /\ \A w \in Workers : r \notin inflight[w])
                    ~> (run[r] = "ended" \/ NobodyWorks)

(* The drain: a worker that is told to stop finishes its runs and stops.    *)
StopCompletes == \A w \in Workers : stop[w] ~> ~Alive(w)

(* The pool goes on working with no assumption on hints: queued runs are    *)
(* taken, orphans are recovered and a stop is carried out (run_worker_loop, *)
(* _recovery_loop).                                                         *)
WorkGoesOn == QueuedRunIsTaken /\ OrphanIsRecovered /\ StopCompletes
=============================================================================
