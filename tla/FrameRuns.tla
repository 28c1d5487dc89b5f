----------------------------- MODULE FrameRuns -----------------------------
(***************************************************************************)
(* The agent's preparation of one case: runs of assembleForCaseByNumber    *)
(* (frameOrchestrator.ts), each of which reads the file of the case, asks  *)
(* the model and saves a DraftFrame, and the single in-memory entry per    *)
(* case in which all of them report (frameStatus.ts).                      *)
(*                                                                         *)
(* Nothing keeps runs apart: the opening of the case, each reply, each     *)
(* summarised upload and each refresh starts one, named here after what    *)
(* started it.  A step is the code between two awaits.  Of a frame's       *)
(* content only the facts its run had read are kept, of the entry's only   *)
(* what it says of the run as a whole.                                     *)
(***************************************************************************)
EXTENDS Naturals, Sequences

CONSTANTS Replies,    \* messages sent with submitResponse
          Uploads,    \* evidence files and links, which get a summary
          Requests,   \* openDispute, and calls of POST /cases/:id/refresh
          MaxFaults,  \* bound: restarts and failures
          NoRun

Facts == Replies \cup Uploads
Runs  == Facts \cup Requests

ASSUME RunsAssumption ==
  /\ Replies \cap Uploads = {} /\ Facts \cap Requests = {}
  /\ NoRun \notin Runs
ASSUME FaultsAssumption == MaxFaults \in Nat

VARIABLES
  filed,     \* the replies and uploads on file
  phase,     \* where each run is
  seen,      \* the facts it has read, while it runs
  verdicts,  \* the runs for which the model wrote a conclusion
  created,   \* the runs that made a frame, in the order of its createdAt
  frames,    \* DraftFrame rows: the run, and the facts it had read
  analyses,  \* the runs whose frame was queued for anchorAnalysis
  status,    \* the entry of frameStatus.ts
  timers,    \* runs whose deletion of the entry is due
  faults

draftVars  == <<seen, verdicts>>
frameVars  == <<created, frames>>
statusVars == <<status, timers>>
runVars == <<filed, phase, draftVars, frameVars, analyses, statusVars, faults>>

Active  == {"reading", "asking", "summing", "saving", "saved"}
Pending == {"summarising", "due"} \cup Active
Phases  == {"idle", "done", "failed", "lost"} \cup Pending

Absent   == [shown |-> "absent", by |-> NoRun]
Statuses == [shown : {"running", "finished", "failed"}, by : Runs] \cup {Absent}
Frames   == [run : Runs, seen : SUBSET Facts]

FramesTypeOK ==
  /\ filed \subseteq Facts
  /\ phase \in [Runs -> Phases]
  /\ seen \in [Runs -> SUBSET Facts]
  /\ verdicts \subseteq Runs
  /\ created \in Seq(Runs)
  /\ frames \subseteq Frames
  /\ analyses \subseteq Runs
  /\ status \in Statuses
  /\ timers \subseteq Runs
  /\ faults \in 0..MaxFaults

InitRuns ==
  /\ filed = {}
  /\ phase = [r \in Runs |-> "idle"]
  /\ seen = [r \in Runs |-> {}]
  /\ verdicts = {}
  /\ created = <<>>
  /\ frames = {}
  /\ analyses = {}
  /\ status = Absent
  /\ timers = {}
  /\ faults = 0

Goto(r, p) == phase' = [phase EXCEPT ![r] = p]
Move(r, from, to) == phase[r] = from /\ Goto(r, to)

(* getLatestFrame: of the frames on file the one with the newest createdAt.  *)
Saved == {f.run : f \in frames}

LatestFrame ==
  LET onFile == SelectSeq(created, LAMBDA r : r \in Saved)
  IN  CHOOSE f \in frames : f.run = onFile[Len(onFile)]

Fault == faults < MaxFaults /\ faults' = faults + 1
Fine  == UNCHANGED faults

-----------------------------------------------------------------------------
(* frameStatus.ts.  What closes the entry works on whatever entry is there,  *)
(* and does nothing if there is none.                                        *)

Shown == status.shown # "absent"

MarkRunning(r) == status' = [shown |-> "running", by |-> r]

(* A slip: it is not looked whether there is an entry.                       *)
Mark_Slip(r, how) ==
  status' = [status EXCEPT !.shown = how] /\ timers' = timers \cup {r}

(* markDone, markFailed: the entry is closed, and to be deleted soon.        *)
Mark(r, how) ==
  IF Shown
  THEN status' = [status EXCEPT !.shown = how] /\ timers' = timers \cup {r}
  ELSE UNCHANGED statusVars

MarkDone(r) == Mark(r, "finished")

(* Slips: a run that failed leaves the entry as it is, or leaves it there.   *)
MarkFailed_Slip(r) == UNCHANGED statusVars

MarkFailed(r) == Mark(r, "failed")

(* The timeout deletes the entry of the case, not the one it was set for.    *)
TimerFires(r) ==
  /\ r \in timers
  /\ timers' = timers \ {r}
  /\ status' = Absent
  /\ UNCHANGED <<filed, phase, draftVars, frameVars, analyses, faults>>

-----------------------------------------------------------------------------
(* What starts a run.  No reply or upload is refused: the case stays open.   *)

NoRunYet == UNCHANGED <<draftVars, frameVars, analyses, statusVars, faults>>

(* submitResponse starts the run when the reply has been stored.             *)
SubmitReply(m) ==
  /\ Move(m, "idle", "due")
  /\ filed' = filed \cup {m}
  /\ NoRunYet

(* attachEvidenceDocument, attachEvidenceLink: the summary comes first.      *)
AttachUpload(u) ==
  /\ Move(u, "idle", "summarising")
  /\ filed' = filed \cup {u}
  /\ NoRunYet

(* summarizeEvidenceDocument and -Link start the run when the annotation is  *)
(* written, or could not be: writeAnnotation reports nothing.                *)
Summarise(u) == Move(u, "summarising", "due") /\ UNCHANGED filed /\ NoRunYet

(* openDispute and the refresh route start one on the file as it is.         *)
RequestRun(q) == Move(q, "idle", "due") /\ UNCHANGED filed /\ NoRunYet

-----------------------------------------------------------------------------
(* A run, await by await.                                                    *)

(* A slip: nothing is done while another run is under way.                   *)
Begin_Slip(r) ==
  /\ phase[r] = "due"
  /\ IF status.shown = "running"
     THEN Goto(r, "done") /\ UNCHANGED status
     ELSE Goto(r, "reading") /\ MarkRunning(r)
  /\ UNCHANGED <<filed, draftVars, frameVars, analyses, timers, faults>>

Begin(r) ==
  /\ Move(r, "due", "reading")
  /\ MarkRunning(r)
  /\ UNCHANGED <<filed, draftVars, frameVars, analyses, timers, faults>>

(* A slip: what the last frame was made from is used again.                  *)
ReadCase_Slip(r) ==
  /\ Move(r, "reading", "asking")
  /\ seen' = [seen EXCEPT ![r] =
               IF frames = {} THEN filed ELSE LatestFrame.seen]
  /\ UNCHANGED <<filed, verdicts, frameVars, analyses, statusVars, faults>>

(* getSharedCase, and then the deterministic checks.  What throws in them is *)
(* caught, and they always leave requirements: rung 2 is left to failures.   *)
ReadCase(r) ==
  /\ Move(r, "reading", "asking")
  /\ seen' = [seen EXCEPT ![r] = filed]
  /\ UNCHANGED <<filed, verdicts, frameVars, analyses, statusVars, faults>>

(* phraseTurningQuestions.  The call times out rather than hang or throw,    *)
(* and a degraded answer is as good as any.                                  *)
AskQuestions(r) ==
  /\ Move(r, "asking", "summing")
  /\ verdicts' \in {verdicts, verdicts \cup {r}}
  /\ UNCHANGED <<filed, seen, frameVars, analyses, statusVars, faults>>

(* What a run leaves when it is over.                                        *)
Forget(r) == seen' = [seen EXCEPT ![r] = {}] /\ verdicts' = verdicts \ {r}

(* The catch block of assembleForCaseByNumber.                               *)
Fail(r) ==
  /\ Goto(r, "failed")
  /\ MarkFailed(r)
  /\ Forget(r)
  /\ UNCHANGED <<filed, frameVars, analyses>>

(* generateNarrative; then the frame is validated, gets its createdAt, and   *)
(* its insert is sent.                                                       *)
Narrate(r) ==
  /\ Move(r, "summing", "saving")
  /\ r \notin verdicts
  /\ created' = Append(created, r)
  /\ UNCHANGED <<filed, draftVars, frames, analyses, statusVars, faults>>

(* validateDraftFrame throws on a question that concludes.                   *)
RejectDraft(r) == phase[r] = "summing" /\ r \in verdicts /\ Fail(r) /\ Fine

SaveFrame(r) ==
  /\ Move(r, "saving", "saved")
  /\ frames' = frames \cup {[run |-> r, seen |-> seen[r]]}
  /\ Forget(r)
  /\ UNCHANGED <<filed, created, analyses, statusVars, faults>>

(* The analysis is enqueued behind the run's back; if that fails, so be it.  *)
Finish(r) ==
  /\ Move(r, "saved", "done")
  /\ \/ analyses' = analyses \cup {r} /\ Fine
     \/ UNCHANGED analyses /\ Fault
  /\ MarkDone(r)
  /\ UNCHANGED <<filed, draftVars, frameVars>>

(* The database fails while the case is read or the frame is saved.          *)
DatabaseFails(r) == phase[r] \in {"reading", "saving"} /\ Fault /\ Fail(r)

(* The entry, the timers and all that is under way are gone.                 *)
Restart ==
  /\ Fault
  /\ phase' = [r \in Runs |-> IF phase[r] \in Pending THEN "lost" ELSE phase[r]]
  /\ status' = Absent
  /\ timers' = {}
  /\ seen' = [r \in Runs |-> {}] /\ verdicts' = {}
  /\ UNCHANGED <<filed, frameVars, analyses>>

-----------------------------------------------------------------------------
RunStep(r) ==
  \/ Begin(r) \/ ReadCase(r) \/ AskQuestions(r) \/ Narrate(r) \/ RejectDraft(r)
  \/ SaveFrame(r) \/ Finish(r)

NextRuns ==
  \/ \E m \in Replies : SubmitReply(m)
  \/ \E u \in Uploads : AttachUpload(u) \/ Summarise(u)
  \/ \E q \in Requests : RequestRun(q)
  \/ \E r \in Runs : RunStep(r) \/ DatabaseFails(r) \/ TimerFires(r)
  \/ Restart

SpecRuns == InitRuns /\ [][NextRuns]_runVars

(* A run goes on, since its reads, writes and model calls all return, and    *)
(* so does a summary; timers fire.                                           *)
Fairness ==
  /\ \A r \in Runs : WF_runVars(RunStep(r)) /\ WF_runVars(TimerFires(r))
  /\ \A u \in Uploads : WF_runVars(Summarise(u))

FairSpec == SpecRuns /\ Fairness

-----------------------------------------------------------------------------
(* The case room never shows agents at work for good: an entry that says so  *)
(* belongs to a run that is still under way, and that will close it.         *)
NoStuckSpinner == status.shown = "running" => phase[status.by] \in Active

(* A frame that a reply or an upload gave rise to was built from it, although *)
(* the run only learns the number of the case and reads the file afresh.     *)
FrameHasItsCause ==
  \A f \in frames : f.run \in Facts => f.run \in f.seen

Quiet == \A r \in Runs : phase[r] \notin Pending

(* Only frames that were saved are queued for anchoring, and all of them     *)
(* are unless something failed.                                              *)
AnalysesMatchFrames ==
  /\ analyses \subseteq Saved
  /\ Quiet /\ faults = 0 => analyses = Saved

(* The entry goes away in the end, and does not go stale.                    *)
StatusClears == Shown ~> ~ Shown

(* Whatever is filed is taken into some frame, unless the run it started was *)
(* cut off or failed.                                                        *)
FactsReachAFrame ==
  \A f \in Facts :
    f \in filed ~> \/ \E frame \in frames : f \in frame.seen
                   \/ phase[f] \in {"failed", "lost"}

-----------------------------------------------------------------------------

(* Frames and their anchors are accounted for, however runs overlap.         *)
FramesAreAccounted == FrameHasItsCause /\ AnalysesMatchFrames

(* What is filed comes to a frame, and what is shown about runs to an end.   *)
RunsComeToAnEnd == StatusClears /\ FactsReachAFrame

=============================================================================
