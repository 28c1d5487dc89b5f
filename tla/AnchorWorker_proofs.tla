------------------------ MODULE AnchorWorker_proofs ------------------------
(***************************************************************************)
(* What the anchor queue promises for any number of jobs, overlapping      *)
(* passes, restarts and failures, and any limit on the attempts.           *)
(***************************************************************************)
EXTENDS AnchorWorker, SequenceTheorems, TLAPS

(* The account of one job: an attempt is counted whenever a job goes back    *)
(* into the queue, so that a job which waits there has been sent at most as  *)
(* often as it has been tried; with its attempts used up it is out of it.    *)
AccountsMatch ==
  \A j \in Jobs :
    /\ status[j] \in {"none", "queued"} => sent[j] <= attempts[j]
    /\ sent[j] <= attempts[j] + 1 /\ sent[j] <= MAX_ATTEMPTS
    /\ status[j] = "failed" <=> attempts[j] = MAX_ATTEMPTS
    /\ status[j] = "done" \/ j \in stamped => sent[j] > 0

(* What the row of a job says at each step of the pass that holds it: before *)
(* the write the job has an attempt to spend; from the receipt on it is sent.*)
StepsMatch ==
  \A d \in Drains :
    /\ pc[d] = "write" => status[held[d]] = "in_flight" /\ sent[held[d]] <= attempts[held[d]]
    /\ pc[d] \in {"receipt", "save"} => status[held[d]] = "in_flight" /\ sent[held[d]] > 0
    /\ pc[d] = "backfill" => status[held[d]] = "done"
    /\ pc[d] = "catch" => status[held[d]] \in {"in_flight", "done"}

WorkerInv == TypeOK /\ OneOwner /\ AccountsMatch /\ StepsMatch

-----------------------------------------------------------------------------
(* Jobs are counted from 1, and no job is the value for "none".              *)
LEMMA JobsAreNumbers ==
  ASSUME script \in Scripts
  PROVE  Jobs \subseteq Nat /\ NoJob \notin Jobs
<1>1. script \in Seq(Kinds)
  BY ScriptsAssumption
<1>2. Jobs = 1..Len(script) /\ Len(script) \in Nat
  BY <1>1 DEF Jobs
<1> QED
  BY <1>2, NoJobAssumption

LEMMA InitInv == Init => WorkerInv
<1> SUFFICES ASSUME Init PROVE WorkerInv
  OBVIOUS
<1>1. TypeOK
  <2>1. mempool \in Seq(Jobs) /\ accepted \in Seq(Jobs)
    BY DEF Init
  <2> QED
    BY <2>1, AttemptsAssumption DEF Init, TypeOK, JobStatus, Steps
<1>2. OneOwner
  <2>1. NoJob \notin Jobs
    BY JobsAreNumbers DEF Init
  <2> QED
    BY <2>1 DEF Init, OneOwner, Holds
<1>3. AccountsMatch
  BY AttemptsAssumption DEF Init, AccountsMatch
<1>4. StepsMatch
  BY DEF Init, StepsMatch
<1> QED
  BY <1>1, <1>2, <1>3, <1>4 DEF WorkerInv

(* A pass that is under way holds a job; nobody else holds it.               *)
LEMMA HolderIsAlone ==
  ASSUME WorkerInv, NEW d \in Drains, pc[d] # "idle"
  PROVE  /\ held[d] \in Jobs
         /\ \A e \in Drains : held[e] = held[d] => e = d
         /\ status[held[d]] # "failed"
         /\ attempts[held[d]] \in Nat /\ attempts[held[d]] < MAX_ATTEMPTS
         /\ sent[held[d]] \in Nat
<1>1. held[d] \in Jobs
  BY DEF WorkerInv, TypeOK
<1>2. \A e \in Drains : held[e] = held[d] => e = d
  BY <1>1 DEF WorkerInv, OneOwner, Holds
<1>3. status[held[d]] \in {"in_flight", "done"}
  BY <1>1 DEF WorkerInv, OneOwner, Holds
<1>4. attempts[held[d]] \in 0..MAX_ATTEMPTS /\ sent[held[d]] \in Nat
  BY <1>1 DEF WorkerInv, TypeOK
<1>5. attempts[held[d]] # MAX_ATTEMPTS
  BY <1>1, <1>3 DEF WorkerInv, AccountsMatch
<1> QED
  BY <1>1, <1>2, <1>3, <1>4, <1>5, AttemptsAssumption

-----------------------------------------------------------------------------
(* Steps that touch no row: the worker may move on or let go.                *)
LEMMA EnqueueKeeps == ASSUME WorkerInv, NEW j \in Jobs, Enqueue(j) PROVE WorkerInv'
<1>1. /\ status[j] = "none" /\ status' = [status EXCEPT ![j] = "queued"]
      /\ UNCHANGED <<script, attempts, waiting, stamped, drainVars, chainVars, faults>>
  BY DEF Enqueue
<1>2. TypeOK /\ OneOwner /\ AccountsMatch /\ StepsMatch
  BY DEF WorkerInv
<1>3. \A d \in Drains : held[d] # j
  BY <1>1, <1>2 DEF OneOwner, Holds
<1>4. TypeOK'
  BY <1>1, <1>2 DEF TypeOK, Jobs, JobStatus, drainVars, chainVars
<1>5. OneOwner'
  BY <1>1, <1>2, <1>3 DEF TypeOK, OneOwner, Holds, Jobs, drainVars
<1>6. AccountsMatch'
  BY <1>1, <1>2, AttemptsAssumption DEF TypeOK, AccountsMatch, Jobs, chainVars
<1>7. StepsMatch'
  BY <1>1, <1>2, <1>3 DEF TypeOK, StepsMatch, Jobs, drainVars, chainVars
<1> QED
  BY <1>4, <1>5, <1>6, <1>7 DEF WorkerInv

LEMMA BackoffElapsesKeeps ==
  ASSUME WorkerInv, NEW j \in Jobs, BackoffElapses(j) PROVE WorkerInv'
<1>1. /\ waiting' = waiting \ {j}
      /\ UNCHANGED <<script, status, attempts, stamped, drainVars, chainVars, faults>>
  BY DEF BackoffElapses
<1>2. TypeOK' /\ OneOwner' /\ AccountsMatch' /\ StepsMatch'
  BY <1>1 DEF WorkerInv, TypeOK, OneOwner, Holds, AccountsMatch, StepsMatch, Jobs,
              drainVars, chainVars
<1> QED
  BY <1>2 DEF WorkerInv

LEMMA ClaimKeeps ==
  ASSUME WorkerInv, NEW d \in Drains, NEW j \in Jobs, Claim(d, j) PROVE WorkerInv'
<1>1. /\ pc[d] = "idle" /\ status[j] = "queued"
      /\ status' = [status EXCEPT ![j] = "in_flight"]
      /\ pc' = [pc EXCEPT ![d] = "write"] /\ held' = [held EXCEPT ![d] = j]
      /\ UNCHANGED <<script, attempts, waiting, stamped, chainVars, faults>>
  BY DEF Claim, Eligible
<1>2. TypeOK /\ OneOwner /\ AccountsMatch /\ StepsMatch
  BY DEF WorkerInv
<1>3. \A e \in Drains : held[e] # j
  BY <1>1, <1>2 DEF OneOwner, Holds
<1>4. j # NoJob
  BY <1>2, JobsAreNumbers DEF TypeOK
<1>5. TypeOK'
  BY <1>1, <1>2, <1>4 DEF TypeOK, Jobs, JobStatus, Steps, chainVars
<1>6. OneOwner'
  BY <1>1, <1>2, <1>3 DEF TypeOK, OneOwner, Holds, Jobs
<1>7. AccountsMatch'
  BY <1>1, <1>2, AttemptsAssumption DEF TypeOK, AccountsMatch, Jobs, chainVars
<1>8. StepsMatch'
  BY <1>1, <1>2, <1>3 DEF TypeOK, StepsMatch, AccountsMatch, Jobs, chainVars
<1> QED
  BY <1>5, <1>6, <1>7, <1>8 DEF WorkerInv

(* A pass moves from one step to another: the rows and the count of what was *)
(* sent stay, and what the new step asks of the row holds.                   *)
LEMMA MoveKeeps ==
  ASSUME WorkerInv, NEW d \in Drains, pc[d] # "idle", NEW step \in Steps \ {"idle", "write"},
         Goto(d, step), UNCHANGED <<script, jobVars, chainVars>>, faults' \in 0..MaxFaults,
         step \in {"receipt", "save"} => status[held[d]] = "in_flight" /\ sent[held[d]] > 0,
         step = "backfill" => status[held[d]] = "done"
  PROVE  WorkerInv'
<1>1. TypeOK /\ OneOwner /\ AccountsMatch /\ StepsMatch
  BY DEF WorkerInv
<1>2. held[d] \in Jobs /\ status[held[d]] \in {"in_flight", "done"}
  BY <1>1, HolderIsAlone DEF OneOwner, Holds
<1>3. pc' = [pc EXCEPT ![d] = step] /\ UNCHANGED held
  BY DEF Goto
<1>4. TypeOK'
  BY <1>1, <1>3 DEF TypeOK, Jobs, jobVars, chainVars
<1>5. OneOwner' /\ AccountsMatch'
  BY <1>1, <1>3 DEF OneOwner, Holds, AccountsMatch, Jobs, jobVars, chainVars
<1>6. StepsMatch'
  BY <1>1, <1>2, <1>3 DEF TypeOK, StepsMatch, Jobs, jobVars, chainVars
<1> QED
  BY <1>4, <1>5, <1>6 DEF WorkerInv

(* A pass ends; its job keeps its row.                                       *)
LEMMA ReleaseKeeps ==
  ASSUME WorkerInv, NEW d \in Drains, pc[d] # "idle", Release(d),
         UNCHANGED <<script, status, attempts, waiting, chainVars>>, faults' \in 0..MaxFaults,
         stamped' = stamped \/ (stamped' = stamped \cup {held[d]} /\ status[held[d]] = "done")
  PROVE  WorkerInv'
<1>1. TypeOK /\ OneOwner /\ AccountsMatch /\ StepsMatch
  BY DEF WorkerInv
<1>2. held[d] \in Jobs
  BY HolderIsAlone
<1>3. pc' = [pc EXCEPT ![d] = "idle"] /\ held' = [held EXCEPT ![d] = NoJob]
  BY DEF Release
<1>4. NoJob \notin Jobs
  BY <1>1, JobsAreNumbers DEF TypeOK
<1>5. TypeOK'
  BY <1>1, <1>2, <1>3 DEF TypeOK, Jobs, Steps, chainVars
<1>6. OneOwner'
  BY <1>1, <1>3, <1>4 DEF TypeOK, OneOwner, Holds, Jobs
<1>7. AccountsMatch'
  BY <1>1, <1>2 DEF AccountsMatch, Jobs, chainVars
<1>8. StepsMatch'
  BY <1>1, <1>3 DEF TypeOK, StepsMatch, Jobs, chainVars
<1> QED
  BY <1>5, <1>6, <1>7, <1>8 DEF WorkerInv

(* A broadcast spends the attempt of a job that had one left.                *)
LEMMA BroadcastKeeps ==
  ASSUME WorkerInv, NEW d \in Drains, pc[d] = "write", NEW step \in {"receipt", "catch"},
         Broadcast(held[d]), Goto(d, step), UNCHANGED <<script, jobVars>>,
         faults' \in 0..MaxFaults
  PROVE  WorkerInv'
<1>1. TypeOK /\ OneOwner /\ AccountsMatch /\ StepsMatch
  BY DEF WorkerInv
<1>2. /\ held[d] \in Jobs
      /\ \A e \in Drains : held[e] = held[d] => e = d
      /\ attempts[held[d]] \in Nat /\ attempts[held[d]] < MAX_ATTEMPTS
      /\ sent[held[d]] \in Nat
  BY HolderIsAlone
<1>3. status[held[d]] = "in_flight" /\ sent[held[d]] <= attempts[held[d]]
  BY <1>1 DEF StepsMatch
<1>4. /\ pc' = [pc EXCEPT ![d] = step] /\ held' = held
      /\ mempool' = Append(mempool, held[d]) /\ accepted' = accepted
      /\ sent' = [sent EXCEPT ![held[d]] = @ + 1]
  BY DEF Goto, Broadcast
<1>5. TypeOK'
  <2>1. Jobs' = Jobs /\ mempool' \in Seq(Jobs)
    BY <1>1, <1>2, <1>4 DEF TypeOK, Jobs
  <2>2. pc' \in [Drains -> Steps] /\ \A e \in Drains : pc'[e] = "idle" <=> held'[e] = NoJob
    BY <1>1, <1>4 DEF TypeOK, Steps
  <2>3. sent' \in [Jobs -> Nat]
    BY <1>1, <1>2, <1>4 DEF TypeOK
  <2> QED
    BY <1>1, <1>4, <2>1, <2>2, <2>3 DEF TypeOK, jobVars
<1>6. OneOwner'
  BY <1>1, <1>4 DEF OneOwner, Holds, Jobs, jobVars
<1>7. AccountsMatch'
  BY <1>1, <1>2, <1>3, <1>4, AttemptsAssumption DEF TypeOK, AccountsMatch, Jobs, jobVars
<1>8. StepsMatch'
  BY <1>1, <1>2, <1>3, <1>4 DEF TypeOK, StepsMatch, Jobs, jobVars
<1> QED
  BY <1>5, <1>6, <1>7, <1>8 DEF WorkerInv

LEMMA FaultIsBounded == ASSUME TypeOK, Fault \/ UNCHANGED faults PROVE faults' \in 0..MaxFaults
  BY AttemptsAssumption DEF TypeOK, Fault

LEMMA WriteKeeps ==
  ASSUME WorkerInv, NEW d \in Drains, Write(d) \/ WriteFails(d) PROVE WorkerInv'
<1>1. pc[d] = "write" /\ UNCHANGED <<script, jobVars>> /\ faults' \in 0..MaxFaults
  BY FaultIsBounded DEF Write, WriteFails, WorkerInv
<1>2. \/ \E step \in {"receipt", "catch"} : Broadcast(held[d]) /\ Goto(d, step)
      \/ UNCHANGED chainVars /\ Goto(d, "catch")
  BY DEF Write, WriteFails
<1>3. CASE \E step \in {"receipt", "catch"} : Broadcast(held[d]) /\ Goto(d, step)
  BY <1>1, <1>3, BroadcastKeeps
<1>4. CASE UNCHANGED chainVars /\ Goto(d, "catch")
  <2>1. "catch" \in Steps \ {"idle", "write"}
    BY DEF Steps
  <2> QED
    BY <1>1, <1>4, <2>1, MoveKeeps
<1> QED
  BY <1>2, <1>3, <1>4

LEMMA ReceiptKeeps == ASSUME WorkerInv, NEW d \in Drains, Receipt(d) PROVE WorkerInv'
<1>1. pc[d] = "receipt" /\ Goto(d, "save") /\ UNCHANGED <<script, jobVars, chainVars>>
  BY DEF Receipt
<1>2. faults' \in 0..MaxFaults
  BY FaultIsBounded DEF Receipt, WorkerInv
<1>3. status[held[d]] = "in_flight" /\ sent[held[d]] > 0
  BY <1>1 DEF WorkerInv, StepsMatch
<1>4. "save" \in Steps \ {"idle", "write"}
  BY DEF Steps
<1> QED
  BY <1>1, <1>2, <1>3, <1>4, MoveKeeps

LEMMA SaveDoneKeeps == ASSUME WorkerInv, NEW d \in Drains, SaveDone(d) PROVE WorkerInv'
<1>1. /\ pc[d] = "save" /\ status' = [status EXCEPT ![held[d]] = "done"]
      /\ waiting' = waiting \ {held[d]}
      /\ pc' = [pc EXCEPT ![d] = "backfill"] /\ held' = held
      /\ UNCHANGED <<script, attempts, stamped, chainVars, faults>>
  BY DEF SaveDone, Goto
<1>2. TypeOK /\ OneOwner /\ AccountsMatch /\ StepsMatch
  BY DEF WorkerInv
<1>3. /\ held[d] \in Jobs
      /\ \A e \in Drains : held[e] = held[d] => e = d
      /\ attempts[held[d]] < MAX_ATTEMPTS
  BY <1>1, HolderIsAlone
<1>4. sent[held[d]] > 0
  BY <1>1, <1>2 DEF StepsMatch
<1>5. TypeOK'
  BY <1>1, <1>2 DEF TypeOK, Jobs, JobStatus, Steps, chainVars
<1>6. OneOwner'
  BY <1>1, <1>2, <1>3 DEF TypeOK, OneOwner, Holds, Jobs
<1>7. AccountsMatch'
  BY <1>1, <1>2, <1>3, <1>4, AttemptsAssumption DEF TypeOK, AccountsMatch, Jobs, chainVars
<1>8. StepsMatch'
  BY <1>1, <1>2, <1>3 DEF TypeOK, StepsMatch, Jobs, chainVars
<1> QED
  BY <1>5, <1>6, <1>7, <1>8 DEF WorkerInv

LEMMA BackfillKeeps == ASSUME WorkerInv, NEW d \in Drains, Backfill(d) PROVE WorkerInv'
<1>1. /\ pc[d] = "backfill" /\ stamped' = stamped \cup {held[d]} /\ Release(d)
      /\ UNCHANGED <<script, status, attempts, waiting, chainVars, faults>>
  BY DEF Backfill
<1>2. status[held[d]] = "done" /\ faults' \in 0..MaxFaults
  BY <1>1 DEF WorkerInv, StepsMatch, TypeOK
<1> QED
  BY <1>1, <1>2, ReleaseKeeps

LEMMA DatabaseFailsKeeps == ASSUME WorkerInv, NEW d \in Drains, DatabaseFails(d) PROVE WorkerInv'
<1>1. /\ pc[d] \in {"save", "backfill", "catch"}
      /\ Release(d) \/ Goto(d, "catch")
      /\ UNCHANGED <<script, jobVars, chainVars>>
  BY DEF DatabaseFails
<1>2. faults' \in 0..MaxFaults
  BY FaultIsBounded DEF DatabaseFails, WorkerInv
<1>3. CASE Release(d)
  BY <1>1, <1>2, <1>3, ReleaseKeeps DEF jobVars
<1>4. CASE Goto(d, "catch")
  <2>1. "catch" \in Steps \ {"idle", "write"}
    BY DEF Steps
  <2> QED
    BY <1>1, <1>2, <1>4, <2>1, MoveKeeps
<1> QED
  BY <1>1, <1>3, <1>4

LEMMA CatchKeeps == ASSUME WorkerInv, NEW d \in Drains, Catch(d) PROVE WorkerInv'
<1> DEFINE j == held[d]
<1>1. /\ pc[d] = "catch" /\ attempts' = [attempts EXCEPT ![j] = @ + 1]
      /\ pc' = [pc EXCEPT ![d] = "idle"] /\ held' = [held EXCEPT ![d] = NoJob]
      /\ UNCHANGED <<script, stamped, chainVars, faults>>
  BY DEF Catch, Release
<1>2. \/ /\ attempts[j] + 1 >= MAX_ATTEMPTS
         /\ status' = [status EXCEPT ![j] = "failed"] /\ waiting' = waiting
      \/ /\ ~ (attempts[j] + 1 >= MAX_ATTEMPTS)
         /\ status' = [status EXCEPT ![j] = "queued"] /\ waiting' = waiting \cup {j}
  BY DEF Catch
<1>3. TypeOK /\ OneOwner /\ AccountsMatch /\ StepsMatch
  BY DEF WorkerInv
<1>4. /\ j \in Jobs /\ \A e \in Drains : held[e] = j => e = d
      /\ attempts[j] \in Nat /\ attempts[j] < MAX_ATTEMPTS /\ sent[j] \in Nat
  BY <1>1, HolderIsAlone
<1>5. NoJob \notin Jobs
  BY <1>3, JobsAreNumbers DEF TypeOK
<1>6. attempts' \in [Jobs -> 0..MAX_ATTEMPTS] /\ attempts'[j] = attempts[j] + 1
  <2>1. attempts \in [Jobs -> 0..MAX_ATTEMPTS]
    BY <1>3 DEF TypeOK
  <2>2. attempts[j] + 1 \in 0..MAX_ATTEMPTS
    BY <1>4, AttemptsAssumption
  <2> QED
    BY <1>1, <1>4, <2>1, <2>2
<1>7. /\ status' \in [Jobs -> JobStatus] /\ waiting' \in SUBSET Jobs
      /\ status'[j] = IF attempts'[j] = MAX_ATTEMPTS THEN "failed" ELSE "queued"
      /\ \A i \in Jobs \ {j} : status'[i] = status[i]
  <2>1. status \in [Jobs -> JobStatus] /\ waiting \in SUBSET Jobs
    BY <1>3 DEF TypeOK
  <2>2. CASE attempts[j] + 1 >= MAX_ATTEMPTS
    <3>1. attempts'[j] = MAX_ATTEMPTS
      BY <1>4, <1>6, <2>2, AttemptsAssumption
    <3>2. status' = [status EXCEPT ![j] = "failed"] /\ waiting' = waiting
      BY <1>2, <2>2
    <3> QED
      BY <1>4, <2>1, <3>1, <3>2 DEF JobStatus
  <2>3. CASE ~ (attempts[j] + 1 >= MAX_ATTEMPTS)
    <3>1. attempts'[j] # MAX_ATTEMPTS
      BY <1>4, <1>6, <2>3, AttemptsAssumption
    <3>2. status' = [status EXCEPT ![j] = "queued"] /\ waiting' = waiting \cup {j}
      BY <1>2, <2>3
    <3> QED
      BY <1>4, <2>1, <3>1, <3>2 DEF JobStatus
  <2> QED
    BY <2>2, <2>3
<1> HIDE DEF j
<1>8. TypeOK'
  <2>1. /\ pc' \in [Drains -> Steps] /\ held' \in [Drains -> Jobs \cup {NoJob}]
        /\ \A e \in Drains : pc'[e] = "idle" <=> held'[e] = NoJob
    BY <1>1, <1>3 DEF TypeOK, Steps
  <2> QED
    BY <1>1, <1>3, <1>6, <1>7, <2>1 DEF TypeOK, Jobs, chainVars
<1>9. OneOwner'
  <2>1. j = held[d]
    BY DEF j
  <2>2. \A e \in Drains : held'[e] # j
    BY <1>1, <1>3, <1>4, <1>5 DEF TypeOK
  <2> QED
    BY <1>1, <1>2, <1>3, <1>4, <1>5, <2>1, <2>2 DEF TypeOK, OneOwner, Holds, Jobs
<1>10. AccountsMatch'
  <2>1. sent[j] <= attempts[j] + 1 /\ sent[j] <= MAX_ATTEMPTS /\ sent' = sent
    BY <1>1, <1>3, <1>4 DEF AccountsMatch, chainVars
  <2>2. \A i \in Jobs \ {j} : attempts'[i] = attempts[i]
    BY <1>1, <1>3 DEF TypeOK
  <2>3. status'[j] # "done" /\ (j \in stamped => sent[j] > 0)
    BY <1>3, <1>4, <1>7 DEF AccountsMatch
  <2>4. Jobs' = Jobs /\ stamped' = stamped
    BY <1>1 DEF Jobs
  <2>5. ASSUME NEW i \in Jobs
        PROVE  /\ status'[i] \in {"none", "queued"} => sent'[i] <= attempts'[i]
               /\ sent'[i] <= attempts'[i] + 1 /\ sent'[i] <= MAX_ATTEMPTS
               /\ status'[i] = "failed" <=> attempts'[i] = MAX_ATTEMPTS
               /\ status'[i] = "done" \/ i \in stamped' => sent'[i] > 0
    <3>1. CASE i = j
      BY <1>4, <1>6, <1>7, <2>1, <2>3, <2>4, <3>1
    <3>2. CASE i # j
      BY <1>3, <1>7, <2>1, <2>2, <2>4, <3>2 DEF AccountsMatch
    <3> QED
      BY <3>1, <3>2
  <2> QED
    BY <2>4, <2>5 DEF AccountsMatch
<1>11. StepsMatch'
  BY <1>1, <1>2, <1>3, <1>4 DEF TypeOK, StepsMatch, Jobs, chainVars
<1> QED
  BY <1>8, <1>9, <1>10, <1>11 DEF WorkerInv

LEMMA MineKeeps == ASSUME WorkerInv, Mine PROVE WorkerInv'
<1>1. /\ mempool # <<>> /\ mempool' = Tail(mempool)
      /\ accepted' = accepted \/ accepted' = Append(accepted, Head(mempool))
      /\ UNCHANGED <<script, jobVars, drainVars, sent, faults>>
  BY DEF Mine
<1>2. TypeOK /\ OneOwner /\ AccountsMatch /\ StepsMatch
  BY DEF WorkerInv
<1>3. mempool' \in Seq(Jobs) /\ accepted' \in Seq(Jobs)
  <2>1. Head(mempool) \in Jobs /\ Tail(mempool) \in Seq(Jobs)
    BY <1>1, <1>2, HeadTailProperties DEF TypeOK
  <2>2. accepted \in Seq(Jobs)
    BY <1>2 DEF TypeOK
  <2>3. Append(accepted, Head(mempool)) \in Seq(Jobs)
    BY <2>1, <2>2, AppendProperties
  <2> QED
    BY <1>1, <2>1, <2>2, <2>3
<1>4. TypeOK' /\ OneOwner' /\ AccountsMatch' /\ StepsMatch'
  BY <1>1, <1>2, <1>3 DEF TypeOK, OneOwner, Holds, AccountsMatch, StepsMatch, Jobs,
                          jobVars, drainVars
<1> QED
  BY <1>4 DEF WorkerInv

LEMMA CrashKeeps == ASSUME WorkerInv, NEW d \in Drains, Crash(d) PROVE WorkerInv'
<1>1. pc[d] # "idle" /\ Release(d) /\ UNCHANGED <<script, jobVars, chainVars>>
  BY DEF Crash
<1>2. faults' \in 0..MaxFaults
  BY FaultIsBounded DEF Crash, WorkerInv
<1> QED
  BY <1>1, <1>2, ReleaseKeeps DEF jobVars

LEMMA StepKeeps == WorkerInv /\ [Next]_vars => WorkerInv'
<1> SUFFICES ASSUME WorkerInv, [Next]_vars PROVE WorkerInv'
  OBVIOUS
<1>1. CASE \E j \in Jobs : Enqueue(j) \/ BackoffElapses(j)
  BY <1>1, EnqueueKeeps, BackoffElapsesKeeps
<1>2. CASE \E d \in Drains : \E j \in Jobs : Claim(d, j)
  BY <1>2, ClaimKeeps
<1>3. CASE \E d \in Drains : Write(d) \/ WriteFails(d) \/ Receipt(d) \/ SaveDone(d)
  BY <1>3, WriteKeeps, ReceiptKeeps, SaveDoneKeeps
<1>4. CASE \E d \in Drains : Backfill(d) \/ Catch(d) \/ DatabaseFails(d) \/ Crash(d)
  BY <1>4, BackfillKeeps, CatchKeeps, DatabaseFailsKeeps, CrashKeeps
<1>5. CASE Mine
  BY <1>5, MineKeeps
<1>6. CASE UNCHANGED vars
  BY <1>6 DEF WorkerInv, TypeOK, OneOwner, Holds, AccountsMatch, StepsMatch, Jobs, vars,
              jobVars, drainVars, chainVars
<1> QED
  BY <1>1, <1>2, <1>3, <1>4, <1>5, <1>6 DEF Next, Drain

-----------------------------------------------------------------------------
LEMMA Inductive == Spec => []WorkerInv
  BY InitInv, StepKeeps, PTL DEF Spec

(* The queue's rows, the passes, the mempool and the counters keep their     *)
(* types; a pass is idle just when it holds no job.                          *)
THEOREM TypeCorrect == Spec => []TypeOK
<1>1. WorkerInv => TypeOK
  BY DEF WorkerInv
<1> QED
  BY <1>1, Inductive, PTL

(* findOneAndUpdate gives a job to one pass at a time, however many passes   *)
(* and replicas there are; each broadcast is paid for with an attempt; and   *)
(* what is called done or anchored was sent.                                 *)
THEOREM QueueHonest == Spec => []QueueIsHonest
<1>1. WorkerInv => QueueIsHonest
  BY DEF WorkerInv, QueueIsHonest, AccountsMatch, NoFreeResend, SettledHonestly
<1> QED
  BY <1>1, Inductive, PTL

(* A claim left behind by a pass that died is never taken up again: the      *)
(* query of findOneAndUpdate asks for queued jobs, and the lease in the row, *)
(* which expires, is not looked at for a job in flight.                      *)
THEOREM ClaimsOutliveTheirPass == Spec => [][\A j \in Jobs : Abandoned(j) => Abandoned(j)']_vars
<1> DEFINE Stays == \A j \in Jobs : Abandoned(j) => Abandoned(j)'
<1>1. WorkerInv /\ [Next]_vars => [Stays]_vars
  <2> SUFFICES ASSUME WorkerInv, Next, NEW j \in Jobs, Abandoned(j) PROVE Abandoned(j)'
    BY DEF Abandoned, Holds, vars, jobVars, drainVars
  <2>1. /\ TypeOK /\ status[j] = "in_flight"
        /\ \A d \in Drains : held[d] # j
    BY DEF WorkerInv, Abandoned, Holds
  <2>2. CASE \E i \in Jobs : Enqueue(i) \/ BackoffElapses(i)
    BY <2>1, <2>2 DEF Enqueue, BackoffElapses, Abandoned, Holds, drainVars, TypeOK
  <2>3. CASE \E d \in Drains : \E i \in Jobs : Claim(d, i)
    BY <2>1, <2>3 DEF Claim, Eligible, Abandoned, Holds, TypeOK
  <2>4. CASE \E d \in Drains : \/ Write(d) \/ WriteFails(d) \/ Receipt(d) \/ Backfill(d)
                               \/ DatabaseFails(d) \/ Crash(d)
    <3>1. PICK d \in Drains : \/ Write(d) \/ WriteFails(d) \/ Receipt(d) \/ Backfill(d)
                              \/ DatabaseFails(d) \/ Crash(d)
      BY <2>4
    <3>2. status' = status /\ (Release(d) \/ held' = held)
      BY <3>1 DEF Write, WriteFails, Receipt, Backfill, DatabaseFails, Crash, Goto, jobVars
    <3>3. j # NoJob
      BY <2>1, JobsAreNumbers DEF TypeOK
    <3> QED
      BY <2>1, <3>2, <3>3 DEF Release, Abandoned, Holds, TypeOK
  <2>5. CASE \E d \in Drains : SaveDone(d) \/ Catch(d)
    <3>1. PICK d \in Drains : SaveDone(d) \/ Catch(d)
      BY <2>5
    <3>2. held[d] # j /\ (Release(d) \/ held' = held)
      BY <2>1, <3>1 DEF SaveDone, Catch, Goto
    <3>3. status'[j] = status[j]
      BY <2>1, <3>1, <3>2 DEF SaveDone, Catch, TypeOK
    <3>4. j # NoJob
      BY <2>1, JobsAreNumbers DEF TypeOK
    <3> QED
      BY <2>1, <3>2, <3>3, <3>4 DEF Release, Abandoned, Holds, TypeOK
  <2>6. CASE Mine
    BY <2>1, <2>6 DEF Mine, Abandoned, Holds, jobVars, drainVars
  <2> QED
    BY <2>2, <2>3, <2>4, <2>5, <2>6 DEF Next, Drain
<1> QED
  BY <1>1, Inductive, PTL DEF Spec

=============================================================================
