---------------------------- MODULE Frames_proofs ----------------------------
(***************************************************************************)
(* What FrameRuns promises for any number of runs, replies and uploads,    *)
(* and what the checks and the frames made from them promise for all       *)
(* times, windows and work orders.                                         *)
(***************************************************************************)
EXTENDS FrameRuns, FrameContent, FiniteSetTheorems, WellFoundedInduction,
        TLAPS

-----------------------------------------------------------------------------
(***************************************************************************)
(* The runs of one case.                                                   *)
(***************************************************************************)

(* NoStuckSpinner is inductive with the types alone.  The other invariants   *)
(* need what the phase of a run says of the file and of its frame.           *)

(* A run that was started by a fact finds it on file, and has read it when   *)
(* it comes to ask the model.                                                *)
CauseRead ==
  \A f \in Facts :
    /\ phase[f] # "idle" => f \in filed
    /\ phase[f] \in {"asking", "summing", "saving"} => f \in seen[f]

(* A run that got as far as saving has a frame, and only such runs do.       *)
SavedInPhase ==
  \A r \in Runs :
    /\ phase[r] = "saved" => r \in Saved
    /\ r \in Saved => phase[r] \in {"saved", "done", "lost"}

(* Unless something failed, a run that is done has its frame anchored, and   *)
(* no run was cut off.                                                       *)
AnchoredInPhase ==
  /\ analyses \subseteq Saved
  /\ faults = 0 => \A r \in Runs : /\ phase[r] = "done" => r \in analyses
                                   /\ phase[r] # "lost"

-----------------------------------------------------------------------------
(* Every variable keeps to its set: in particular the entry is either absent *)
(* or that of a run.                                                         *)
THEOREM FramesTypeCorrect == SpecRuns => []FramesTypeOK
<1>1. InitRuns => FramesTypeOK
  BY RunsAssumption, FaultsAssumption
  DEF InitRuns, FramesTypeOK, Phases, Pending, Active, Statuses, Absent, Frames
<1>2. FramesTypeOK /\ [NextRuns]_runVars => FramesTypeOK'
  <2> SUFFICES ASSUME FramesTypeOK, [NextRuns]_runVars PROVE FramesTypeOK'
    OBVIOUS
  <2> USE RunsAssumption, FaultsAssumption
      DEF FramesTypeOK, Phases, Pending, Active, Statuses, Absent, Runs, Facts,
          Goto, Move, Fault, Fine, draftVars, frameVars, statusVars
  <2>1. ASSUME NEW m \in Replies, SubmitReply(m) PROVE FramesTypeOK'
    BY <2>1 DEF SubmitReply, NoRunYet
  <2>2. ASSUME NEW u \in Uploads, AttachUpload(u) PROVE FramesTypeOK'
    BY <2>2 DEF AttachUpload, NoRunYet
  <2>3. ASSUME NEW u \in Uploads, Summarise(u) PROVE FramesTypeOK'
    BY <2>3 DEF Summarise, NoRunYet
  <2>4. ASSUME NEW q \in Requests, RequestRun(q) PROVE FramesTypeOK'
    BY <2>4 DEF RequestRun, NoRunYet
  <2>5. ASSUME NEW r \in Runs, Begin(r) PROVE FramesTypeOK'
    BY <2>5 DEF Begin, MarkRunning
  <2>6. ASSUME NEW r \in Runs, ReadCase(r) PROVE FramesTypeOK'
    BY <2>6 DEF ReadCase
  <2>7. ASSUME NEW r \in Runs, AskQuestions(r) PROVE FramesTypeOK'
    BY <2>7 DEF AskQuestions
  <2>8. ASSUME NEW r \in Runs, Narrate(r) PROVE FramesTypeOK'
    BY <2>8 DEF Narrate
  <2>9. ASSUME NEW r \in Runs, Fail(r), Fine \/ Fault PROVE FramesTypeOK'
    BY <2>9 DEF Fail, MarkFailed, Mark, Shown, Forget
  <2>10. ASSUME NEW r \in Runs, SaveFrame(r) PROVE FramesTypeOK'
    <3>1. [run |-> r, seen |-> seen[r]] \in Frames
      BY DEF Frames
    <3>2. frames' \subseteq Frames
      BY <2>10, <3>1 DEF SaveFrame
    <3>3. QED
      BY <2>10, <3>2 DEF SaveFrame, Forget
  <2>11. ASSUME NEW r \in Runs, Finish(r) PROVE FramesTypeOK'
    BY <2>11 DEF Finish, MarkDone, Mark, Shown
  <2>12. ASSUME NEW r \in Runs, TimerFires(r) PROVE FramesTypeOK'
    BY <2>12 DEF TimerFires
  <2>13. CASE Restart
    BY <2>13 DEF Restart
  <2>14. CASE UNCHANGED runVars
    BY <2>14 DEF runVars
  <2>15. QED
    BY <2>1, <2>2, <2>3, <2>4, <2>5, <2>6, <2>7, <2>8, <2>9, <2>10, <2>11,
       <2>12, <2>13, <2>14
    DEF NextRuns, RunStep, RejectDraft, DatabaseFails
<1>3. QED
  BY <1>1, <1>2, PTL DEF SpecRuns

-----------------------------------------------------------------------------
(* The case room never shows agents at work for good (NoStuckSpinner): a run *)
(* closes whatever entry it meets, and an entry that says "running" is of    *)
(* the run that began last.                                                  *)
THEOREM SpinnerStops == SpecRuns => []NoStuckSpinner
<1>1. InitRuns => NoStuckSpinner
  BY DEF InitRuns, NoStuckSpinner, Absent
<1>2. FramesTypeOK /\ NoStuckSpinner /\ [NextRuns]_runVars => NoStuckSpinner'
  <2> SUFFICES ASSUME FramesTypeOK, NoStuckSpinner, [NextRuns]_runVars
               PROVE  NoStuckSpinner'
    OBVIOUS
  <2>0. /\ phase \in [Runs -> Phases]
        /\ status \in Statuses
        /\ status.shown = "running" => status.by \in Runs
    BY DEF FramesTypeOK, Statuses, Absent
  <2> USE <2>0 DEF NoStuckSpinner, Active, Runs, Facts, Goto, Move
  <2>1. ASSUME UNCHANGED status,
               \A r \in Runs : phase[r] \in Active => phase'[r] \in Active
        PROVE  NoStuckSpinner'
    BY <2>1
  <2>2. ASSUME NEW m \in Replies, SubmitReply(m) PROVE NoStuckSpinner'
    BY <2>1, <2>2 DEF SubmitReply, NoRunYet, statusVars
  <2>3. ASSUME NEW u \in Uploads, AttachUpload(u) \/ Summarise(u)
        PROVE  NoStuckSpinner'
    BY <2>1, <2>3 DEF AttachUpload, Summarise, NoRunYet, statusVars
  <2>4. ASSUME NEW q \in Requests, RequestRun(q) PROVE NoStuckSpinner'
    BY <2>1, <2>4 DEF RequestRun, NoRunYet, statusVars
  <2>5. ASSUME NEW r \in Runs, Begin(r) PROVE NoStuckSpinner'
    BY <2>5 DEF Begin, MarkRunning
  <2>6. ASSUME NEW r \in Runs,
               ReadCase(r) \/ AskQuestions(r) \/ Narrate(r) \/ SaveFrame(r)
        PROVE  NoStuckSpinner'
    BY <2>1, <2>6 DEF ReadCase, AskQuestions, Narrate, SaveFrame, statusVars
  <2>7. ASSUME NEW r \in Runs, NEW how \in {"finished", "failed"}, Mark(r, how)
        PROVE  status'.shown # "running"
    BY <2>7 DEF Mark, Shown, statusVars, Statuses, Absent
  <2>8. ASSUME NEW r \in Runs, Fail(r) \/ Finish(r) PROVE NoStuckSpinner'
    BY <2>7, <2>8 DEF Fail, Finish, MarkFailed, MarkDone
  <2>9. ASSUME NEW r \in Runs, TimerFires(r) PROVE NoStuckSpinner'
    BY <2>9 DEF TimerFires, Absent
  <2>10. CASE Restart
    BY <2>10 DEF Restart, Absent
  <2>11. CASE UNCHANGED runVars
    BY <2>11 DEF runVars, statusVars
  <2>12. QED
    BY <2>2, <2>3, <2>4, <2>5, <2>6, <2>8, <2>9, <2>10, <2>11
    DEF NextRuns, RunStep, RejectDraft, DatabaseFails
<1>3. QED
  BY <1>1, <1>2, FramesTypeCorrect, PTL DEF SpecRuns

-----------------------------------------------------------------------------
(* A frame is built from the reply or upload that gave rise to it            *)
(* (FrameHasItsCause): the run starts after the fact was stored and reads    *)
(* the file afresh.                                                          *)
THEOREM FramesHaveTheirCause == SpecRuns => []FrameHasItsCause
<1> DEFINE IInv == CauseRead /\ FrameHasItsCause
<1>1. InitRuns => IInv
  BY DEF InitRuns, CauseRead, FrameHasItsCause, Runs
<1>2. FramesTypeOK /\ IInv /\ [NextRuns]_runVars => IInv'
  <2> SUFFICES ASSUME FramesTypeOK, CauseRead, FrameHasItsCause, [NextRuns]_runVars
               PROVE  CauseRead' /\ FrameHasItsCause'
    OBVIOUS
  <2>0. /\ phase \in [Runs -> Phases]
        /\ seen \in [Runs -> SUBSET Facts]
    BY DEF FramesTypeOK
  <2>1. ASSUME UNCHANGED frames PROVE FrameHasItsCause'
    BY <2>1 DEF FrameHasItsCause
  <2> USE <2>0, RunsAssumption
      DEF CauseRead, Runs, Facts, Goto, Move, draftVars
  <2>2. ASSUME NEW m \in Replies, SubmitReply(m) PROVE CauseRead'
    BY <2>2 DEF SubmitReply, NoRunYet
  <2>3. ASSUME NEW u \in Uploads, AttachUpload(u) \/ Summarise(u) PROVE CauseRead'
    BY <2>3 DEF AttachUpload, Summarise, NoRunYet
  <2>4. ASSUME NEW q \in Requests, RequestRun(q) PROVE CauseRead'
    BY <2>4 DEF RequestRun, NoRunYet
  <2>5. ASSUME NEW r \in Runs, Begin(r) PROVE CauseRead'
    BY <2>5 DEF Begin
  <2>6. ASSUME NEW r \in Runs, ReadCase(r) PROVE CauseRead'
    BY <2>6 DEF ReadCase
  <2>7. ASSUME NEW r \in Runs, AskQuestions(r) \/ Narrate(r) PROVE CauseRead'
    BY <2>7 DEF AskQuestions, Narrate
  <2>8. ASSUME NEW r \in Runs, phase[r] # "idle", Fail(r) PROVE CauseRead'
    BY <2>8 DEF Fail, Forget
  <2>9. ASSUME NEW r \in Runs, SaveFrame(r)
        PROVE  CauseRead' /\ FrameHasItsCause'
    <3>1. CauseRead'
      BY <2>9 DEF SaveFrame, Forget
    <3>2. r \in Facts => r \in seen[r]
      BY <2>9 DEF SaveFrame
    <3>3. FrameHasItsCause'
      BY <2>9, <3>2 DEF SaveFrame, FrameHasItsCause
    <3>4. QED
      BY <3>1, <3>3
  <2>10. ASSUME NEW r \in Runs, Finish(r) PROVE CauseRead'
    BY <2>10 DEF Finish
  <2>11. ASSUME NEW r \in Runs, TimerFires(r) PROVE CauseRead'
    BY <2>11 DEF TimerFires
  <2>12. ASSUME Restart PROVE CauseRead'
    <3>1. filed' = filed
      BY <2>12 DEF Restart
    <3>2. \A r \in Runs : /\ phase'[r] = "idle" <=> phase[r] = "idle"
                          /\ phase'[r] \notin {"asking", "summing", "saving"}
      BY <2>12 DEF Restart, Pending, Active
    <3>3. QED
      BY <3>1, <3>2
  <2>13. CASE UNCHANGED runVars
    BY <2>13, <2>1 DEF runVars, frameVars
  <2>14. ASSUME UNCHANGED frames, CauseRead' PROVE CauseRead' /\ FrameHasItsCause'
    BY <2>14, <2>1
  <2>15. (NextRuns /\ \A r \in Runs : ~ SaveFrame(r)) => UNCHANGED frames
    BY DEF NextRuns, RunStep, RejectDraft, DatabaseFails, SubmitReply, AttachUpload,
           Summarise, RequestRun, NoRunYet, Begin, ReadCase, AskQuestions, Narrate,
           Fail, Finish, TimerFires, Restart, frameVars
  <2>16. QED
    BY <2>2, <2>3, <2>4, <2>5, <2>6, <2>7, <2>8, <2>9, <2>10, <2>11, <2>12,
       <2>13, <2>14, <2>15
    DEF NextRuns, RunStep, RejectDraft, DatabaseFails
<1>3. QED
  BY <1>1, <1>2, FramesTypeCorrect, PTL DEF SpecRuns

-----------------------------------------------------------------------------
(* Frames are those of runs.                                                 *)
LEMMA SavedAreRuns == FramesTypeOK => Saved \subseteq Runs
  BY DEF Saved, FramesTypeOK, Frames

(* Only saved frames are anchored, and without failures all that are there   *)
(* when nothing is under way (AnalysesMatchFrames).                          *)
THEOREM AnalysesAreOfFrames == SpecRuns => []AnalysesMatchFrames
<1> DEFINE IInv == SavedInPhase /\ AnchoredInPhase
<1>1. InitRuns => IInv
  BY DEF InitRuns, SavedInPhase, AnchoredInPhase, Saved
<1>2. FramesTypeOK /\ IInv /\ [NextRuns]_runVars => IInv'
  <2> SUFFICES ASSUME FramesTypeOK, SavedInPhase, AnchoredInPhase, [NextRuns]_runVars
               PROVE  SavedInPhase' /\ AnchoredInPhase'
    OBVIOUS
  <2>0. /\ phase \in [Runs -> Phases]
        /\ faults \in Nat
        /\ Saved \subseteq Runs
    BY FaultsAssumption, SavedAreRuns DEF FramesTypeOK
  <2> USE <2>0 DEF frameVars
  <2>1. ASSUME UNCHANGED <<frames, analyses>>,
               faults' = 0 => faults = 0,
               \A r \in Runs : \/ phase'[r] = phase[r]
                              \/ /\ r \notin Saved
                                 /\ phase'[r] \notin {"saved", "done", "lost"}
        PROVE  SavedInPhase' /\ AnchoredInPhase'
    <3>1. Saved' = Saved /\ analyses' = analyses
      BY <2>1 DEF Saved
    <3>2. ASSUME NEW r \in Runs
          PROVE  /\ phase'[r] = "saved" => r \in Saved'
                 /\ r \in Saved' => phase'[r] \in {"saved", "done", "lost"}
      BY <2>1, <3>1 DEF SavedInPhase
    <3>3. AnchoredInPhase'
      <4>1. analyses' \subseteq Saved'
        BY <3>1 DEF AnchoredInPhase
      <4>2. ASSUME faults' = 0, NEW r \in Runs
            PROVE  (phase'[r] = "done" => r \in analyses') /\ phase'[r] # "lost"
        BY <4>2, <2>1, <3>1 DEF AnchoredInPhase
      <4>3. QED
        BY <4>1, <4>2 DEF AnchoredInPhase
    <3>4. QED
      BY <3>2, <3>3 DEF SavedInPhase
  <2>2. ASSUME NEW r \in Runs, NEW p \in {"idle", "summarising", "due"} \cup Active,
               phase[r] = p, p # "saved",
               NEW q \in {"summarising", "due", "failed"} \cup Active, q # "saved",
               Goto(r, q), UNCHANGED <<frames, analyses>>, Fine \/ Fault
        PROVE  SavedInPhase' /\ AnchoredInPhase'
    <3>1. r \notin Saved
      BY <2>2 DEF SavedInPhase, Active
    <3>2. faults' = 0 => faults = 0
      BY <2>2 DEF Fine, Fault
    <3>3. QED
      BY <2>1, <2>2, <3>1, <3>2 DEF Goto, Active
  <2> USE DEF Move
  <2>3. ASSUME NEW m \in Replies, SubmitReply(m)
        PROVE  SavedInPhase' /\ AnchoredInPhase'
    BY <2>2, <2>3 DEF SubmitReply, NoRunYet, Runs, Facts, Active, Fine
  <2>4. ASSUME NEW u \in Uploads, AttachUpload(u) \/ Summarise(u)
        PROVE  SavedInPhase' /\ AnchoredInPhase'
    BY <2>2, <2>4 DEF AttachUpload, Summarise, NoRunYet, Runs, Facts, Active, Fine
  <2>5. ASSUME NEW q \in Requests, RequestRun(q)
        PROVE  SavedInPhase' /\ AnchoredInPhase'
    BY <2>2, <2>5 DEF RequestRun, NoRunYet, Runs, Active, Fine
  <2>6. ASSUME NEW r \in Runs,
               Begin(r) \/ ReadCase(r) \/ AskQuestions(r) \/ Narrate(r)
        PROVE  SavedInPhase' /\ AnchoredInPhase'
    BY <2>2, <2>6 DEF Begin, ReadCase, AskQuestions, Narrate, Active, Fine
  <2>7. ASSUME NEW r \in Runs, RejectDraft(r) \/ DatabaseFails(r)
        PROVE  SavedInPhase' /\ AnchoredInPhase'
    BY <2>2, <2>7 DEF RejectDraft, DatabaseFails, Fail, Active, Fine
  <2>8. ASSUME NEW r \in Runs, SaveFrame(r)
        PROVE  SavedInPhase' /\ AnchoredInPhase'
    <3> DEFINE saved == [run |-> r, seen |-> seen[r]]
    <3>0. frames' = frames \cup {saved} /\ saved.run = r
      BY <2>8 DEF SaveFrame
    <3> HIDE DEF saved
    <3>1. Saved' = Saved \cup {r}
      BY <3>0 DEF Saved
    <3>2. /\ phase' = [phase EXCEPT ![r] = "saved"]
          /\ phase[r] = "saving"
          /\ UNCHANGED <<analyses, faults>>
      BY <2>8 DEF SaveFrame, Goto
    <3>3. QED
      BY <3>1, <3>2 DEF SavedInPhase, AnchoredInPhase
  <2>9. ASSUME NEW r \in Runs, Finish(r)
        PROVE  SavedInPhase' /\ AnchoredInPhase'
    <3>1. /\ phase' = [phase EXCEPT ![r] = "done"]
          /\ phase[r] = "saved"
          /\ Saved' = Saved
          /\ \/ analyses' = analyses \cup {r} /\ faults' = faults
             \/ analyses' = analyses /\ faults' = faults + 1
      BY <2>9 DEF Finish, Goto, Fine, Fault, Saved
    <3>2. QED
      BY <3>1 DEF SavedInPhase, AnchoredInPhase
  <2>10. ASSUME NEW r \in Runs, TimerFires(r)
         PROVE  SavedInPhase' /\ AnchoredInPhase'
    BY <2>1, <2>10 DEF TimerFires
  <2>11. CASE Restart
    <3>1. /\ Saved' = Saved /\ analyses' = analyses
          /\ faults' # 0
          /\ \A r \in Runs :
               phase'[r] = IF phase[r] \in Pending THEN "lost" ELSE phase[r]
      BY <2>11 DEF Restart, Fault, Saved
    <3>2. QED
      BY <3>1 DEF SavedInPhase, AnchoredInPhase, Pending, Active
  <2>12. CASE UNCHANGED runVars
    BY <2>1, <2>12 DEF runVars
  <2>13. QED
    BY <2>3, <2>4, <2>5, <2>6, <2>7, <2>8, <2>9, <2>10, <2>11, <2>12
    DEF NextRuns, RunStep
<1>3. FramesTypeOK /\ IInv => AnalysesMatchFrames
  <2> SUFFICES ASSUME FramesTypeOK, SavedInPhase, AnchoredInPhase
               PROVE  AnalysesMatchFrames
    OBVIOUS
  <2>1. Saved \subseteq Runs
    BY SavedAreRuns
  <2>2. Quiet /\ faults = 0 => Saved \subseteq analyses
    BY <2>1 DEF Quiet, SavedInPhase, AnchoredInPhase, Pending, Active
  <2>3. QED
    BY <2>2 DEF AnalysesMatchFrames, AnchoredInPhase, Saved
<1>4. QED
  BY <1>1, <1>2, <1>3, FramesTypeCorrect, PTL DEF SpecRuns

(* Every frame has its cause and every saved frame, and no other, is queued  *)
(* for anchoring.                                                            *)
THEOREM EveryFrameIsAccounted == SpecRuns => []FramesAreAccounted
<1>1. FrameHasItsCause /\ AnalysesMatchFrames => FramesAreAccounted
  BY DEF FramesAreAccounted
<1> QED
  BY <1>1, FramesHaveTheirCause, AnalysesAreOfFrames, PTL

-----------------------------------------------------------------------------
(***************************************************************************)
(* The checks and what goes into a frame.                                  *)
(***************************************************************************)

(* The order of performance and the acceptance period cannot both be kept    *)
(* by work that was never accepted in writing, for any payment and dispute   *)
(* in their order, unless all of it falls on one instant.                    *)
LEMMA PaidAndDisputedInTime ==
  ASSUME NEW d \in Deliverable, NEW paid \in Int, NEW opened \in Int,
         paid <= opened, d.accepted = None,
         PaymentOrdering(d, paid) = "pass", AcceptanceStatus(d, opened) = "pass"
  PROVE  paid = opened /\ opened = d.submitted + Acceptance
<1>1. d.submitted # None
  BY DEF PaymentOrdering
<1>2. d.submitted \in Int
  BY <1>1 DEF Deliverable
<1>3. paid >= d.submitted + Deemed
  BY <1>1 DEF PaymentOrdering, Verdict
<1>4. opened <= d.submitted + Acceptance
  BY <1>1 DEF AcceptanceStatus, Verdict
<1> QED
  BY <1>2, <1>3, <1>4, WindowsAssumption

(* Delivering later is never judged better.                                  *)
LEMMA LateDeliveryIsNoBetter ==
  ASSUME NEW d \in Deliverable, d.submitted # None, NEW delay \in Nat,
         GraceWindow([d EXCEPT !.submitted = @ + delay]) = "pass"
  PROVE  GraceWindow(d) = "pass"
<1>1. d.submitted \in Int /\ d.due \in Int /\ d.submitted + delay \in Int
  BY DEF Deliverable
<1>2. d.submitted + delay # None
  BY <1>1, WindowsAssumption
<1> QED
  BY <1>1, <1>2, WindowsAssumption DEF Deliverable, GraceWindow, InGrace, Verdict

(* Nor is work judged better for having been rejected.                       *)
LEMMA RejectionIsNoBetter ==
  ASSUME NEW d \in Deliverable, GraceWindow(d) = "pass"
  PROVE  GraceWindow([d EXCEPT !.rejected = None]) = "pass"
  BY WindowsAssumption DEF Deliverable, GraceWindow, Verdict

(* A later payment does not fall out of the order an earlier one kept.       *)
LEMMA LaterPaymentKeepsOrder ==
  ASSUME NEW d \in Deliverable, NEW paid \in Int, NEW later \in Int, paid <= later,
         PaymentOrdering(d, paid) = "pass"
  PROVE  PaymentOrdering(d, later) = "pass"
  BY WindowsAssumption DEF Deliverable, PaymentOrdering, Verdict

-----------------------------------------------------------------------------
(* Of the rows of a name there is a last one.                                *)
LEMMA LastExists ==
  ASSUME NEW n \in Nat, NEW T \in SUBSET (1..n), T # {}
  PROVE  \E i \in T : \A j \in T : j <= i
<1> DEFINE D == {n - i : i \in T}
<1>1. D \subseteq Nat /\ D # {}
  <2>1. \A i \in T : n - i \in Nat
    OBVIOUS
  <2>2. PICK i \in T : TRUE
    OBVIOUS
  <2> QED
    BY <2>1, <2>2
<1>2. \E x \in D : \A y \in D : ~ (<<y, x>> \in OpToRel(<, Nat))
  BY <1>1, WFMin, NatLessThanWellFounded
<1>3. PICK i \in T : \A y \in D : ~ (<<y, n - i>> \in OpToRel(<, Nat))
  BY <1>2
<1>4. \A j \in T : ~ (n - j < n - i)
  BY <1>3, <1>1 DEF OpToRel
<1> QED
  BY <1>4

OpeningOK == order \in Orders /\ calendar \in Calendars /\ allegation \in Allegations

LEMMA DeliverablesAreRows ==
  ASSUME OpeningOK
  PROVE  /\ Deliverables \in Seq(Rows)
         /\ calendar.paid \in Int /\ calendar.opened \in Int
         /\ calendar.paid <= calendar.opened
<1>1. calendar.paid \in Int /\ calendar.opened \in Int /\ calendar.paid <= calendar.opened
  BY CalendarsAssumption DEF OpeningOK
<1>2. Placeholder \in Rows
  <2>1. None \in Stamps /\ calendar.opened \in Int
    BY <1>1 DEF Stamps
  <2> QED
    BY <2>1 DEF Placeholder, Rows
<1> QED
  BY <1>1, <1>2, OrdersAssumption DEF OpeningOK, Deliverables

(* The times a row is judged by are times.                                   *)
LEMMA TimesAreTyped ==
  ASSUME OpeningOK, NEW i \in DOMAIN Deliverables
  PROVE  Times(i) \in Deliverable
<1> DEFINE name == Deliverables[i].name
<1>1. Deliverables \in Seq(Rows)
  BY DeliverablesAreRows
<1>2. DOMAIN Deliverables = 1..Len(Deliverables) /\ Len(Deliverables) \in Nat
  BY <1>1
<1>3. Named(name) \in SUBSET (1..Len(Deliverables)) /\ i \in Named(name)
  BY <1>2 DEF Named
<1>4. \E k \in Named(name) : \A j \in Named(name) : j <= k
  BY <1>2, <1>3, LastExists
<1>5. Keeper(name) \in DOMAIN Deliverables
  BY <1>2, <1>3, <1>4 DEF Keeper
<1>6. Deliverables[Keeper(name)] \in Rows /\ Deliverables[i] \in Rows
  BY <1>1, <1>5
<1> QED
  BY <1>6 DEF Times, Deliverable, Rows, Stamps

(* A row whose name no other has is judged by its own times.                 *)
LEMMA OwnTimes ==
  ASSUME OpeningOK, NEW i \in DOMAIN Deliverables,
         Named(Deliverables[i].name) = {i}
  PROVE  Times(i) = [due |-> Deliverables[i].due,
                     submitted |-> Deliverables[i].submitted,
                     rejected |-> Deliverables[i].rejected,
                     accepted |-> Deliverables[i].accepted]
<1>1. i \in Nat
  BY DeliverablesAreRows
<1>2. Keeper(Deliverables[i].name) = i
  BY <1>1 DEF Keeper
<1> QED
  BY <1>2 DEF Times

-----------------------------------------------------------------------------
(* What a check found of a row is found under the check and the row.         *)
LEMMA FoundUnderItsName ==
  ASSUME OpeningOK, NEW i \in DOMAIN Deliverables
  PROVE  /\ ResultOf(RunChecks, "delivery", i) = DeliveryRecorded(Times(i))
         /\ ResultOf(RunChecks, "grace", i) = GraceWindow(Times(i))
         /\ ResultOf(RunChecks, "acceptance", i) = AcceptanceStatus(Times(i), calendar.opened)
         /\ HasAcceptanceMap =>
              ResultOf(RunChecks, "ordering", i) = PaymentOrdering(Times(i), calendar.paid)
<1>1. ASSUME NEW f \in RunChecks, f.check # "amount", f.row = i
      PROVE  f \in RowFindings(i)
  <2>1. f # AmountFinding
    BY <1>1 DEF AmountFinding, Finding
  <2>2. PICK j \in DOMAIN Deliverables : f \in RowFindings(j)
    BY <1>1, <2>1 DEF RunChecks
  <2>3. f.row = j
    BY <2>2 DEF RowFindings, Finding
  <2> QED
    BY <1>1, <2>2, <2>3
<1>2. RowFindings(i) \subseteq RunChecks
  BY DEF RunChecks
<1> DEFINE delivery   == Finding("delivery", FALSE, i, DeliveryRecorded(Times(i)))
           grace      == Finding("grace", TRUE, i, GraceWindow(Times(i)))
           acceptance == Finding("acceptance", TRUE, i, AcceptanceStatus(Times(i), calendar.opened))
           ordering   == Finding("ordering", TRUE, i, PaymentOrdering(Times(i), calendar.paid))
<1>3. /\ delivery \in RowFindings(i) /\ grace \in RowFindings(i)
      /\ acceptance \in RowFindings(i)
      /\ HasAcceptanceMap => ordering \in RowFindings(i)
  BY DEF RowFindings
<1>4. \A f \in RowFindings(i) : /\ f.check = "delivery" => f = delivery
                                /\ f.check = "grace" => f = grace
                                /\ f.check = "acceptance" => f = acceptance
                                /\ f.check = "ordering" => f = ordering
  BY DEF RowFindings, Finding
<1>5. /\ delivery.check = "delivery" /\ delivery.row = i
      /\ grace.check = "grace" /\ grace.row = i
      /\ acceptance.check = "acceptance" /\ acceptance.row = i
      /\ ordering.check = "ordering" /\ ordering.row = i
  BY DEF Finding
<1>6. ResultOf(RunChecks, "delivery", i) = delivery.result
  <2>1. \A f \in RunChecks : f.check = "delivery" /\ f.row = i <=> f = delivery
    BY <1>1, <1>2, <1>3, <1>4, <1>5
  <2> HIDE DEF delivery
  <2> QED
    BY <1>2, <1>3, <2>1 DEF ResultOf
<1>7. ResultOf(RunChecks, "grace", i) = grace.result
  <2>1. \A f \in RunChecks : f.check = "grace" /\ f.row = i <=> f = grace
    BY <1>1, <1>2, <1>3, <1>4, <1>5
  <2> HIDE DEF grace
  <2> QED
    BY <1>2, <1>3, <2>1 DEF ResultOf
<1>8. ResultOf(RunChecks, "acceptance", i) = acceptance.result
  <2>1. \A f \in RunChecks : f.check = "acceptance" /\ f.row = i <=> f = acceptance
    BY <1>1, <1>2, <1>3, <1>4, <1>5
  <2> HIDE DEF acceptance
  <2> QED
    BY <1>2, <1>3, <2>1 DEF ResultOf
<1>9. HasAcceptanceMap => ResultOf(RunChecks, "ordering", i) = ordering.result
  <2>1. HasAcceptanceMap =>
          \A f \in RunChecks : f.check = "ordering" /\ f.row = i <=> f = ordering
    BY <1>1, <1>2, <1>3, <1>4, <1>5
  <2> HIDE DEF ordering
  <2> QED
    BY <1>2, <1>3, <2>1 DEF ResultOf
<1> QED
  BY <1>6, <1>7, <1>8, <1>9 DEF Finding

-----------------------------------------------------------------------------
(* What computeUnresolved lists, and how often, is a number for each kind.   *)
Unresolved == IF UnresolvedThrows THEN {} ELSE ComputeUnresolved({})

LEMMA RefsCounted ==
  ASSUME OpeningOK
  PROVE  /\ CommonRefs(Unresolved) \in Nat
         /\ RefsOf(Unresolved, "missing_written_rejection") = 0
         /\ RefsOf(Unresolved, "unanswered_reply") =
              IF \E u \in Unresolved : u.kind = "unanswered_reply" THEN 1 ELSE 0
<1>1. Cardinality(Bare) \in Nat
  <2>1. Bare \in SUBSET (1..Len(Deliverables)) /\ Len(Deliverables) \in Nat
    BY DeliverablesAreRows DEF Bare
  <2>2. IsFiniteSet(1..Len(Deliverables))
    BY <2>1, FS_Interval
  <2>3. IsFiniteSet(Bare)
    BY <2>1, <2>2, FS_Subset
  <2> QED
    BY <2>3, FS_CardinalityType
<1>2. \A u \in Unresolved :
        /\ u.kind # "missing_written_rejection"
        /\ u.kind = "unanswered_reply" => u.refs = 1
        /\ u.refs \in Nat
  BY <1>1 DEF Unresolved, ComputeUnresolved, ItemIf, Item
<1>3. \A k : RefsOf(Unresolved, k) \in Nat
  BY <1>2 DEF RefsOf
<1>4. RefsOf(Unresolved, "missing_written_rejection") = 0
  BY <1>2 DEF RefsOf
<1>5. RefsOf(Unresolved, "unanswered_reply") =
        IF \E u \in Unresolved : u.kind = "unanswered_reply" THEN 1 ELSE 0
  BY <1>2 DEF RefsOf
<1> QED
  BY <1>3, <1>4, <1>5 DEF CommonRefs

(* The findings of a file are finitely many.                                 *)
LEMMA FindingsCounted ==
  ASSUME OpeningOK
  PROVE  FindingRefs(RunChecks) \in Nat
<1> DEFINE n == Len(Deliverables)
           names == [j \in 1..n |-> Deliverables[j].name]
           range == {names[j] : j \in 1..n}
           checks == {"delivery", "grace", "acceptance", "ordering"}
           ids == {<<f.check, Deliverables[f.row].name>> : f \in {g \in RunChecks : g.clause}}
<1>1. n \in Nat /\ DOMAIN Deliverables = 1..n
  BY DeliverablesAreRows
<1>2. IsFiniteSet(range)
  <2>1. names \in Surjection(1..n, range)
    BY DEF Surjection
  <2>2. IsFiniteSet(1..n)
    BY <1>1, FS_Interval
  <2> QED
    BY <2>1, <2>2, FS_Surjection
<1>3. IsFiniteSet(checks)
  <2>1. /\ IsFiniteSet({"delivery"}) /\ IsFiniteSet({"grace"})
        /\ IsFiniteSet({"acceptance"}) /\ IsFiniteSet({"ordering"})
    BY FS_Singleton
  <2>2. IsFiniteSet({"delivery"} \cup {"grace"}) /\ IsFiniteSet({"acceptance"} \cup {"ordering"})
    BY <2>1, FS_Union
  <2>3. IsFiniteSet(({"delivery"} \cup {"grace"}) \cup ({"acceptance"} \cup {"ordering"}))
    BY <2>2, FS_Union
  <2>4. checks = ({"delivery"} \cup {"grace"}) \cup ({"acceptance"} \cup {"ordering"})
    OBVIOUS
  <2> QED
    BY <2>3, <2>4
<1>4. \A f \in RunChecks : f.clause => f.check \in checks /\ f.row \in 1..n
  BY <1>1 DEF RunChecks, AmountFinding, RowFindings, Finding
<1>5. ids \in SUBSET (checks \X range)
  BY <1>4
<1> QED
  BY <1>2, <1>3, <1>5, FS_Product, FS_Subset, FS_CardinalityType DEF FindingRefs

LEMMA DepthOfAFrame ==
  ASSUME OpeningOK, NEW findings, findings = RunChecks
  PROVE  LET depth == CitationDepth(findings, Unresolved)
         IN  depth.recipient - depth.platform =
               IF \E u \in Unresolved : u.kind = "unanswered_reply" THEN 1 ELSE 0
<1>1. FindingRefs(findings) \in Nat
  BY FindingsCounted
<1> QED
  BY <1>1, RefsCounted DEF CitationDepth, Depth

(* The invariant: what the case was opened on is fixed, only drafts with a   *)
(* conclusion were refused, and the latest frame has the findings and the    *)
(* four lines made of it.                                                    *)
FrameInv ==
  /\ OpeningOK
  /\ runs \in Nat /\ made \in Nat /\ concluded \in Nat
  /\ made + concluded <= runs
  /\ ~NameMayConclude => made + concluded = runs
  /\ made > 0 => /\ frame.level \in {0, 1}
                 /\ frame.findings = RunChecks
                 /\ {r.outcome : r \in frame.requirements} = Outcomes
  /\ DepthIsEven

LEMMA FourLines ==
  {r.outcome : r \in FillOutcomeRequirements(RunChecks)} = Outcomes
<1> DEFINE line(o) == [outcome |-> o,
                       cites |-> IF allegation.claim = "other" THEN {} ELSE CitedBy(o, RunChecks)]
<1>1. FillOutcomeRequirements(RunChecks) = {line(o) : o \in Outcomes}
  BY DEF FillOutcomeRequirements
<1>2. \A o : line(o).outcome = o
  OBVIOUS
<1> HIDE DEF line
<1> QED
  BY <1>1, <1>2

(* The templates cite findings about rows, never the one about the amount,   *)
(* and none where the claim has no template.                                 *)
LEMMA OnlyRowsAreCited ==
  ASSUME OpeningOK, CitesConclusion(FillOutcomeRequirements(RunChecks))
  PROVE  NameMayConclude
<1>1. PICK r \in FillOutcomeRequirements(RunChecks) :
        \E f \in r.cites : Deliverables[f.row].name \in Concluding
  BY DEF CitesConclusion
<1>2. PICK o \in Outcomes :
        r.cites = IF allegation.claim = "other" THEN {} ELSE CitedBy(o, RunChecks)
  BY DEF FillOutcomeRequirements
<1>3. PICK f \in r.cites : Deliverables[f.row].name \in Concluding
  BY <1>1
<1>4. allegation.claim # "other" /\ f \in CitedBy(o, RunChecks)
  BY <1>2, <1>3
<1>5. f \in RunChecks /\ f.check # "amount"
  BY <1>4 DEF CitedBy, First
<1>6. f.row \in DOMAIN Deliverables
  BY <1>5 DEF RunChecks, AmountFinding, RowFindings, Finding
<1> QED
  BY <1>3, <1>6, <1>4 DEF NameMayConclude

LEMMA OpeningStands ==
  ASSUME UNCHANGED opening
  PROVE  /\ OpeningOK' <=> OpeningOK
         /\ RunChecks' = RunChecks
         /\ NameMayConclude' <=> NameMayConclude
  BY DEF NameMayConclude, opening, OpeningOK, RunChecks, AmountFinding, RowFindings, Finding, Times,
     HasAcceptanceMap, Keeper, Named, Deliverables, Placeholder

LEMMA FrameInvInductive == Spec => []FrameInv
<1>1. Init => FrameInv
  BY DEF Init, FrameInv, OpeningOK, DepthIsEven, NoFrame, Depth
<1>2. FrameInv /\ [Next]_vars => FrameInv'
  <2> SUFFICES ASSUME FrameInv, [Next]_vars PROVE FrameInv'
    OBVIOUS
  <2>1. UNCHANGED opening
    BY DEF Next, Write, FileEvidence, Assemble, vars
  <2>2. OpeningOK' /\ RunChecks' = RunChecks /\ (NameMayConclude' <=> NameMayConclude)
    BY <2>1, OpeningStands DEF FrameInv
  <2>3. CASE Assemble
    <3>1. /\ Deterministic.requirements = FillOutcomeRequirements(RunChecks)
          /\ Deterministic.findings = RunChecks
      BY DEF Deterministic
    <3>2. Deterministic.requirements # {}
      BY <3>1, FourLines DEF Outcomes
    <3>3. PICK phrasing \in Phrasings(RunChecks) :
            /\ concluded' = IF phrasing.concludes THEN concluded + 1 ELSE concluded
            /\ IF Refused(Deterministic.requirements, phrasing)
               THEN UNCHANGED <<made, frame>>
               ELSE made' = made + 1 /\ frame' = Framed(Deterministic, phrasing)
      BY <2>3, <3>1, <3>2 DEF Assemble
    <3>4. runs' = runs + 1
      BY <2>3 DEF Assemble
    <3>5. CASE Refused(Deterministic.requirements, phrasing)
      <4>1. phrasing.concludes \/ NameMayConclude
        BY <3>1, <3>5, OnlyRowsAreCited DEF Refused, FrameInv
      <4>2. DepthIsEven'
        BY <3>3, <3>5 DEF FrameInv, DepthIsEven
      <4> QED
        BY <2>2, <3>3, <3>4, <3>5, <4>1, <4>2 DEF FrameInv
    <3>6. CASE ~Refused(Deterministic.requirements, phrasing)
      <4>1. /\ frame'.findings = RunChecks
            /\ frame'.requirements = FillOutcomeRequirements(RunChecks)
            /\ frame'.level \in {0, 1}
        BY <3>3, <3>6 DEF Framed, Deterministic
      <4>2. DepthIsEven'
        <5>1. frame'.depth = CitationDepth(RunChecks, Unresolved)
              /\ frame'.unresolved = Unresolved
          BY <3>3, <3>6 DEF Framed, Deterministic, Unresolved
        <5> QED
          BY <5>1, DepthOfAFrame DEF FrameInv, DepthIsEven
      <4>3. made' = made + 1 /\ concluded' = concluded
        BY <3>3, <3>6 DEF Refused
      <4> QED
        BY <2>2, <3>4, <4>1, <4>2, <4>3, FourLines DEF FrameInv
    <3> QED
      BY <3>5, <3>6
  <2>4. CASE UNCHANGED <<runs, concluded, made, frame>>
    BY <2>2, <2>4 DEF FrameInv, DepthIsEven
  <2> QED
    BY <2>3, <2>4 DEF Next, Write, FileEvidence, vars
<1> QED
  BY <1>1, <1>2, PTL DEF Spec

(* Of any case file, only a conclusion, in the model's questions or in the   *)
(* name of a deliverable, costs a run its frame; and every frame has the     *)
(* four lines.                                                               *)
THEOREM OnlyConclusionsCostAFrame == Spec => []OnlyConclusionsAreRefused
<1>1. FrameInv => OnlyConclusionsAreRefused
  BY DEF FrameInv, OnlyConclusionsAreRefused
<1> QED
  BY <1>1, FrameInvInductive, PTL

(* Both parties are cited at equal depth, whatever is on file.               *)
THEOREM DepthIsAlwaysEven == Spec => []DepthIsEven
<1>1. FrameInv => DepthIsEven
  BY DEF FrameInv
<1> QED
  BY <1>1, FrameInvInductive, PTL

(* The findings of every frame are sound, for all times and windows.         *)
THEOREM FindingsAreAlwaysSound == Spec => []FindingsAreSound
<1>1. ASSUME FrameInv PROVE OrderAgreesWithAcceptance
  <2> SUFFICES ASSUME NEW i \in DOMAIN Deliverables, made > 0, HasAcceptanceMap,
                      Times(i).accepted = None,
                      ResultOf(frame.findings, "ordering", i) = "pass",
                      ResultOf(frame.findings, "acceptance", i) = "pass"
               PROVE  /\ calendar.paid = calendar.opened
                      /\ calendar.opened = Times(i).submitted + Acceptance
    BY DEF OrderAgreesWithAcceptance
  <2>1. OpeningOK /\ frame.findings = RunChecks
    BY <1>1 DEF FrameInv
  <2> QED
    BY <2>1, DeliverablesAreRows, TimesAreTyped, FoundUnderItsName, PaidAndDisputedInTime
<1>2. ASSUME FrameInv PROVE NoGainFromDelay
  <2> SUFFICES ASSUME NEW i \in DOMAIN Deliverables, NEW delay \in 0..Grace,
                      made > 0, Times(i).submitted # None,
                      GraceWindow([Times(i) EXCEPT !.submitted = @ + delay]) = "pass"
               PROVE  /\ ResultOf(frame.findings, "grace", i) = "pass"
                      /\ GraceWindow([[Times(i) EXCEPT !.submitted = @ + delay]
                                         EXCEPT !.rejected = None]) = "pass"
    BY DEF NoGainFromDelay
  <2>1. OpeningOK /\ frame.findings = RunChecks
    BY <1>2 DEF FrameInv
  <2>2. Times(i) \in Deliverable /\ delay \in Nat
    BY <2>1, TimesAreTyped, WindowsAssumption
  <2>3. [Times(i) EXCEPT !.submitted = @ + delay] \in Deliverable
    BY <2>2 DEF Deliverable
  <2>4. GraceWindow(Times(i)) = "pass"
    BY <2>2, LateDeliveryIsNoBetter
  <2>5. ResultOf(frame.findings, "grace", i) = "pass"
    BY <2>1, <2>4, FoundUnderItsName
  <2> QED
    BY <2>3, <2>5, RejectionIsNoBetter
<1>3. ASSUME FrameInv PROVE JudgedOnItsOwn
  <2>1. OpeningOK /\ (made > 0 => frame.findings = RunChecks)
    BY <1>3 DEF FrameInv
  <2> QED
    BY <2>1, OwnTimes, FoundUnderItsName DEF JudgedOnItsOwn
<1>4. FrameInv => FindingsAreSound
  BY <1>1, <1>2, <1>3 DEF FindingsAreSound
<1> QED
  BY <1>4, FrameInvInductive, PTL

=============================================================================
