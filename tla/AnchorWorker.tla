---------------------------- MODULE AnchorWorker ----------------------------
(***************************************************************************)
(* anchorWorker.ts: drain passes claim queued jobs and send them to the    *)
(* registry.  setInterval starts a pass every three seconds whether or not *)
(* the last one has ended, and there may be several replicas, so passes    *)
(* overlap.  The jobs are those of one payment and the case on it.         *)
(*                                                                         *)
(* Sending a transaction is two things to the worker: viem first estimates *)
(* its gas, which throws if the registry would refuse the call, and then   *)
(* broadcasts it.  Transactions of the one operator account are mined in   *)
(* the order of their nonces.  The job is done when its receipt is there,  *)
(* or is given up on; whether the transaction reverted is not looked at.   *)
(***************************************************************************)
EXTENDS CaseRegistry

CONSTANTS Drains,        \* drain passes that may run at a time
          Scripts,       \* the sequences of jobs the API may enqueue
          MAX_ATTEMPTS,  \* attempts before a job is dead-lettered
          MaxFaults,     \* bound: failed calls to the chain or the database
          MayCrash,      \* whether replicas may be restarted
          NoJob          \* what a pass that is not running holds

ASSUME ScriptsAssumption == Scripts \subseteq Seq(Kinds) /\ <<>> \notin Scripts
ASSUME AttemptsAssumption == MAX_ATTEMPTS \in Nat \ {0} /\ MaxFaults \in Nat
ASSUME NoJobAssumption == NoJob \notin Nat
ASSUME MayCrashAssumption == MayCrash \in BOOLEAN

VARIABLES
  script,    \* the kinds of the jobs, in the order of their _id
  status,    \* AnchorJob.status, or "none" if not enqueued yet
  attempts,  \* AnchorJob.attempts
  waiting,   \* jobs whose nextAttemptAt is in the future
  stamped,   \* jobs whose transaction was backfilled into the record
  pc,        \* what a drain pass does next
  held,      \* the job it has claimed
  mempool,   \* jobs whose transaction was broadcast and is not mined
  accepted,  \* jobs whose transaction took effect, in order
  sent,      \* how often a transaction was broadcast for the job
  faults

jobVars   == <<status, attempts, waiting, stamped>>
drainVars == <<pc, held>>
chainVars == <<mempool, accepted, sent>>
vars == <<script, jobVars, drainVars, chainVars, faults>>

Jobs == DOMAIN script
JobStatus == {"none", "queued", "in_flight", "done", "failed"}
Steps == {"idle", "write", "receipt", "save", "backfill", "catch"}

TypeOK ==
  /\ script \in Scripts
  /\ status \in [Jobs -> JobStatus]
  /\ attempts \in [Jobs -> 0..MAX_ATTEMPTS]
  /\ waiting \in SUBSET Jobs
  /\ stamped \in SUBSET Jobs
  /\ pc \in [Drains -> Steps]
  /\ held \in [Drains -> Jobs \cup {NoJob}]
  /\ \A d \in Drains : pc[d] = "idle" <=> held[d] = NoJob
  /\ mempool \in Seq(Jobs)
  /\ accepted \in Seq(Jobs)
  /\ sent \in [Jobs -> Nat]
  /\ faults \in 0..MaxFaults

Init ==
  /\ script \in Scripts
  /\ status = [j \in Jobs |-> "none"]
  /\ attempts = [j \in Jobs |-> 0]
  /\ waiting = {}
  /\ stamped = {}
  /\ pc = [d \in Drains |-> "idle"]
  /\ held = [d \in Drains |-> NoJob]
  /\ mempool = <<>>
  /\ accepted = <<>>
  /\ sent = [j \in Jobs |-> 0]
  /\ faults = 0

AcceptedKinds == [i \in 1..Len(accepted) |-> script[accepted[i]]]
InMempool(j) == \E i \in 1..Len(mempool) : mempool[i] = j

Goto(d, step) == pc' = [pc EXCEPT ![d] = step] /\ UNCHANGED held
Release(d) == pc' = [pc EXCEPT ![d] = "idle"] /\ held' = [held EXCEPT ![d] = NoJob]
Fault == faults < MaxFaults /\ faults' = faults + 1

(* enqueueAnchor, by the API: in the order of the script.                    *)
Enqueue(j) ==
  /\ status[j] = "none"
  /\ \A i \in 1..(j - 1) : status[i] # "none"
  /\ status' = [status EXCEPT ![j] = "queued"]
  /\ UNCHANGED <<script, attempts, waiting, stamped, drainVars, chainVars, faults>>

(* A slip: a job in flight is claimed as well, on the word of leaseQuery,    *)
(* which takes any lease for an expired one.                                 *)
Eligible_Slip(j) == status[j] \in {"queued", "in_flight"} /\ j \notin waiting

(* eligibleQuery; leaseQuery holds of every queued job.                      *)
Eligible(j) == status[j] = "queued" /\ j \notin waiting

(* findOneAndUpdate, sorted by _id.                                          *)
Claim(d, j) ==
  /\ pc[d] = "idle"
  /\ Eligible(j) /\ \A i \in 1..(j - 1) : ~ Eligible(i)
  /\ status' = [status EXCEPT ![j] = "in_flight"]
  /\ pc' = [pc EXCEPT ![d] = "write"]
  /\ held' = [held EXCEPT ![d] = j]
  /\ UNCHANGED <<script, attempts, waiting, stamped, chainVars, faults>>

Broadcast(j) ==
  /\ mempool' = Append(mempool, j)
  /\ sent' = [sent EXCEPT ![j] = @ + 1]
  /\ UNCHANGED accepted

(* A slip: what the estimate throws is swallowed, like the receipt's errors. *)
Write_Slip(d) ==
  /\ pc[d] = "write"
  /\ IF Accepts(AcceptedKinds, script[held[d]])
     THEN Broadcast(held[d]) /\ Goto(d, "receipt")
     ELSE UNCHANGED chainVars /\ Goto(d, "save")
  /\ UNCHANGED <<script, jobVars, faults>>

(* writeContract.                                                            *)
Write(d) ==
  /\ pc[d] = "write"
  /\ IF Accepts(AcceptedKinds, script[held[d]])
     THEN Broadcast(held[d]) /\ Goto(d, "receipt")
     ELSE UNCHANGED chainVars /\ Goto(d, "catch")
  /\ UNCHANGED <<script, jobVars, faults>>

(* The call fails; if it timed out, the transaction may be out all the same. *)
WriteFails(d) ==
  /\ pc[d] = "write"
  /\ Fault
  /\ Goto(d, "catch")
  /\ \/ UNCHANGED chainVars
     \/ Accepts(AcceptedKinds, script[held[d]]) /\ Broadcast(held[d])
  /\ UNCHANGED <<script, jobVars>>

(* waitForTransactionReceipt: mined, or timed out, which is swallowed.       *)
Receipt(d) ==
  /\ pc[d] = "receipt"
  /\ IF InMempool(held[d]) THEN Fault ELSE UNCHANGED faults
  /\ Goto(d, "save")
  /\ UNCHANGED <<script, jobVars, chainVars>>

SaveDone(d) ==
  /\ pc[d] = "save"
  /\ status' = [status EXCEPT ![held[d]] = "done"]
  /\ waiting' = waiting \ {held[d]}
  /\ Goto(d, "backfill")
  /\ UNCHANGED <<script, attempts, stamped, chainVars, faults>>

Backfill(d) ==
  /\ pc[d] = "backfill"
  /\ stamped' = stamped \cup {held[d]}
  /\ Release(d)
  /\ UNCHANGED <<script, status, attempts, waiting, chainVars, faults>>

(* The database refuses a write: on the way to the end that is caught like   *)
(* any other error, though the job may be done; in the catch block it ends   *)
(* the pass and leaves the row as it is.                                     *)
DatabaseFails(d) ==
  /\ pc[d] \in {"save", "backfill", "catch"}
  /\ Fault
  /\ IF pc[d] = "catch" THEN Release(d) ELSE Goto(d, "catch")
  /\ UNCHANGED <<script, jobVars, chainVars>>

(* A slip: the attempts are compared before this one is counted.             *)
Catch_LateSlip(d) ==
  LET j == held[d]
  IN  /\ pc[d] = "catch"
      /\ attempts' = [attempts EXCEPT ![j] = @ + 1]
      /\ IF attempts[j] >= MAX_ATTEMPTS
         THEN status' = [status EXCEPT ![j] = "failed"] /\ UNCHANGED waiting
         ELSE status' = [status EXCEPT ![j] = "queued"] /\ waiting' = waiting \cup {j}
      /\ Release(d)
      /\ UNCHANGED <<script, stamped, chainVars, faults>>

(* A slip: the attempt is not counted, and the job is put back forever.      *)
Catch_Slip(d) ==
  /\ pc[d] = "catch"
  /\ status' = [status EXCEPT ![held[d]] = "queued"]
  /\ waiting' = waiting \cup {held[d]}
  /\ Release(d)
  /\ UNCHANGED <<script, attempts, stamped, chainVars, faults>>

(* The catch block: back into the queue with a backoff, or dead-lettered.    *)
Catch(d) ==
  LET j == held[d]
  IN  /\ pc[d] = "catch"
      /\ attempts' = [attempts EXCEPT ![j] = @ + 1]
      /\ IF attempts[j] + 1 >= MAX_ATTEMPTS
         THEN status' = [status EXCEPT ![j] = "failed"] /\ UNCHANGED waiting
         ELSE status' = [status EXCEPT ![j] = "queued"] /\ waiting' = waiting \cup {j}
      /\ Release(d)
      /\ UNCHANGED <<script, stamped, chainVars, faults>>

BackoffElapses(j) ==
  /\ j \in waiting
  /\ waiting' = waiting \ {j}
  /\ UNCHANGED <<script, status, attempts, stamped, drainVars, chainVars, faults>>

(* The registry refuses by reverting; nobody hears of it.                    *)
Mine ==
  /\ mempool # <<>>
  /\ mempool' = Tail(mempool)
  /\ accepted' = IF Accepts(AcceptedKinds, script[Head(mempool)])
                 THEN Append(accepted, Head(mempool)) ELSE accepted
  /\ UNCHANGED <<script, jobVars, drainVars, sent, faults>>

(* The replica of a pass is restarted.  Its claim stays in the row.          *)
Crash(d) ==
  /\ MayCrash /\ Fault
  /\ pc[d] # "idle"
  /\ Release(d)
  /\ UNCHANGED <<script, jobVars, chainVars>>

Drain(d) ==
  \/ \E j \in Jobs : Claim(d, j)
  \/ Write(d) \/ Receipt(d) \/ SaveDone(d) \/ Backfill(d) \/ Catch(d)

Next ==
  \/ \E j \in Jobs : Enqueue(j) \/ BackoffElapses(j)
  \/ \E d \in Drains : Drain(d) \/ WriteFails(d) \/ DatabaseFails(d) \/ Crash(d)
  \/ Mine

Spec == Init /\ [][Next]_vars

(* The timer keeps starting passes and a pass keeps running, backoffs end,   *)
(* and transactions are mined.  Faults and enqueueing are owed by nobody.    *)
Fairness ==
  /\ \A d \in Drains : WF_vars(Drain(d))
  /\ WF_vars(Mine)
  /\ WF_vars(\E j \in Jobs : BackoffElapses(j))

FairSpec == Spec /\ Fairness

-----------------------------------------------------------------------------
Holds(d, j) == held[d] = j

(* Two passes never work on one job, and the row of a job in their hands     *)
(* says so until it says it is done: no replica can pick it up meanwhile.    *)
OneOwner ==
  \A d \in Drains, j \in Jobs :
    Holds(d, j) => /\ status[j] \in {"in_flight", "done"}
                   /\ \A e \in Drains : Holds(e, j) => e = d

(* Every broadcast is paid for with an attempt: neither overlapping passes   *)
(* nor restarts nor a database that fails send a job again for nothing, so   *)
(* a job costs at most MAX_ATTEMPTS transactions.                            *)
NoFreeResend ==
  \A j \in Jobs :
    /\ sent[j] <= attempts[j] + 1
    /\ sent[j] <= MAX_ATTEMPTS

(* What the records call anchored was sent, and a job is given up only when  *)
(* its attempts are used up.                                                 *)
SettledHonestly ==
  \A j \in Jobs :
    /\ status[j] = "done" \/ j \in stamped => sent[j] > 0
    /\ status[j] = "failed" <=> attempts[j] = MAX_ATTEMPTS

(* A job claimed by a pass that is gone.                                     *)
Abandoned(j) == status[j] = "in_flight" /\ \A d \in Drains : ~ Holds(d, j)

(* Every job that is queued ends up done or dead-lettered, or its claim is   *)
(* left behind by a pass that died or could not write: no job circles in the *)
(* queue, and no job waits behind one that does.                             *)
JobsSettle ==
  \A j \in 1..Len(CHOOSE s \in Scripts : \A t \in Scripts : Len(t) <= Len(s)) :
    (j \in Jobs /\ status[j] = "queued")
      ~> (j \in Jobs /\ (status[j] \in {"done", "failed"} \/ Abandoned(j)))

(* However passes overlap, a job is sent by one of them, again only after a  *)
(* failure, and called done only if it was sent.                             *)
QueueIsHonest == OneOwner /\ NoFreeResend /\ SettledHonestly

=============================================================================
