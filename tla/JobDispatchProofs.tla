------------------------- MODULE JobDispatchProofs -------------------------
(***************************************************************************)
(* Theorems about JobDispatch for every set of jobs, permits and handlers, *)
(* every queue capacity and every bound.                                   *)
(***************************************************************************)
EXTENDS JobDispatch, FiniteSetTheorems, SequenceTheorems, TLAPS

(* The parts of TypeOK.                                                      *)
RowsOK ==
    /\ status \in [Jobs -> Status]
    /\ plan \in [Jobs -> AllPlans]
    /\ gen \in [Jobs -> Gens \cup {NoGen}]
    /\ selected \in [Jobs -> Gens \cup {NoGen}]
    /\ art \in [Jobs -> SUBSET {"media", "archive"}]
TasksOK == task \in [Slots -> TaskRec]
LoopOK  == queue \in Seq(Jobs) /\ cap \in Nat /\ held \in Jobs \cup {NoJob}
ReqsOK  == req \in [Clients -> ReqRec]
CountsOK == /\ restarts \in 0..MaxRestarts
            /\ requests \in 0..MaxRequests
            /\ abandoned \subseteq Jobs

(* TypeOK is the conjunction of the parts the lemmas below speak of.         *)
LEMMA TypeParts == TypeOK <=> RowsOK /\ TasksOK /\ LoopOK /\ ReqsOK /\ CountsOK
BY DEF TypeOK, RowsOK, TasksOK, LoopOK, ReqsOK, CountsOK

(* Entries, tasks and handlers refer to jobs that have a row.                *)
QueueRefs == /\ \A i \in DOMAIN queue : Exists(queue[i])
             /\ held # NoJob => Exists(held)
TaskRefs  == \A s \in Slots : task[s].pc # "idle" => task[s].job \in Jobs /\ Exists(task[s].job)
ReqRefs   == \A c \in Clients : req[c].pc # "idle" => req[c].job \in Jobs /\ Exists(req[c].job)

(* A step of a task at work: rows keep existing, no task turns to another job. *)
RowsStay == \A j \in Jobs : Exists(j) => Exists(j)'
TasksStay == \A t \in Slots : task'[t].pc # "idle" =>
                 task[t].pc # "idle" /\ task'[t].job = task[t].job

(* The record of a free permit is well typed.                                *)
LEMMA IdleTaskTyped == IdleTask \in TaskRec
BY DispatchAssumption DEF IdleTask, TaskAt, TaskRec, TaskPc, AllPlans, NoGen

(* The same for a free handler.                                              *)
LEMMA IdleReqTyped == IdleReq \in ReqRec
BY DEF IdleReq, Handler, ReqRec, ReqPc, NoGen

(* A step of a task keeps the rows and the tasks well typed.                 *)
LEMMA TaskActionStep ==
    ASSUME RowsOK, TasksOK, TaskRefs, NEW s \in Slots, TaskStep(s)
    PROVE  RowsOK' /\ TasksOK' /\ RowsStay /\ TasksStay
<1> USE DispatchAssumption
<1>1. CASE Begin(s)
  <2>1. RowsOK' /\ RowsStay
    BY <1>1 DEF Begin, RowsOK, RowsStay, Exists, rows
  <2>2. TasksOK'
    BY <1>1 DEF Begin, TasksOK, TaskRec, TaskPc, AllPlans, At, RowsOK, TaskRefs
  <2>3. TasksStay
    BY <1>1 DEF Begin, TasksOK, TaskRec, TasksStay, At
  <2> QED BY <2>1, <2>2, <2>3
<1>2. CASE StartResolve(s)
  <2>1. RowsOK' /\ RowsStay
    BY <1>2 DEF StartResolve, RowsOK, RowsStay, Exists, SetStatus, Status
  <2>2. TasksOK'
    BY <1>2 DEF StartResolve, TasksOK, TaskRec, TaskPc, AllPlans, At, Goto
  <2>3. TasksStay
    BY <1>2 DEF StartResolve, TasksOK, TaskRec, TasksStay, At, Goto
  <2> QED BY <2>1, <2>2, <2>3
<1>3. CASE TaskFails(s)
  <2>1. RowsOK' /\ RowsStay
    BY <1>3 DEF TaskFails, RowsOK, RowsStay, Exists
  <2>2. TasksOK'
    BY <1>3 DEF TaskFails, TasksOK, TaskRec, TaskPc, AllPlans, At, Leave, TaskAt, NoGen
  <2>3. TasksStay
    BY <1>3 DEF TaskFails, TasksOK, TaskRec, TasksStay, At, Leave, TaskAt, NoGen
  <2> QED BY <2>1, <2>2, <2>3
<1>4. CASE ClearArchive(s)
  <2>1. RowsOK' /\ RowsStay
    BY <1>4 DEF ClearArchive, RowsOK, RowsStay, Exists
  <2>2. TasksOK'
    BY <1>4 DEF ClearArchive, TasksOK, TaskRec, TaskPc, AllPlans, At, Goto
  <2>3. TasksStay
    BY <1>4 DEF ClearArchive, TasksOK, TaskRec, TasksStay, At, Goto
  <2> QED BY <2>1, <2>2, <2>3
<1>5. CASE StoreArchive(s)
  <2>1. RowsOK' /\ RowsStay
    BY <1>5 DEF StoreArchive, RowsOK, RowsStay, Exists
  <2>2. TasksOK'
    BY <1>5 DEF StoreArchive, TasksOK, TaskRec, TaskPc, AllPlans, At, Goto
  <2>3. TasksStay
    BY <1>5 DEF StoreArchive, TasksOK, TaskRec, TasksStay, At, Goto
  <2> QED BY <2>1, <2>2, <2>3
<1>6. CASE ReplaceCandidates(s)
  <2>1. PICK g \in Gens : gen' = [gen EXCEPT ![task[s].job] = g]
    BY <1>6 DEF ReplaceCandidates
  <2>a. UNCHANGED <<status, plan, selected, art>>
    BY <1>6 DEF ReplaceCandidates
  <2>b. RowsOK' /\ RowsStay
    BY <2>1, <2>a DEF RowsOK, RowsStay, Exists
  <2>2. TasksOK'
    BY <1>6 DEF ReplaceCandidates, TasksOK, TaskRec, TaskPc, AllPlans, At, Goto
  <2>3. TasksStay
    BY <1>6 DEF ReplaceCandidates, TasksOK, TaskRec, TasksStay, At, Goto
  <2> QED BY <2>b, <2>2, <2>3
<1>7. CASE AnnounceCandidates(s)
  <2>1. RowsOK' /\ RowsStay
    BY <1>7 DEF AnnounceCandidates, RowsOK, RowsStay, Exists, SetStatus, Status
  <2>2. TasksOK'
    <3>1. CASE task[s].plan = "page"
      <4>1. task' = [task EXCEPT ![s] = IdleTask]
        BY <1>7, <3>1 DEF AnnounceCandidates, Release
      <4> QED BY <4>1, IdleTaskTyped DEF TasksOK
    <3>2. CASE task[s].plan # "page"
      BY <1>7, <3>2 DEF AnnounceCandidates, TasksOK, TaskRec, TaskPc, Goto
    <3> QED BY <3>1, <3>2
  <2>3. TasksStay
    BY <1>7 DEF AnnounceCandidates, TasksOK, TaskRec, TasksStay, At, Goto, Release, IdleTask, TaskAt, NoGen
  <2> QED BY <2>1, <2>2, <2>3
<1>8. CASE AutoSelect(s)
  <2>1. RowsOK' /\ RowsStay
    BY <1>8 DEF AutoSelect, RowsOK, RowsStay, Exists, rows
  <2>2. TasksOK'
    <3>1. gen[task[s].job] \in Gens \cup {NoGen}
      BY <1>8 DEF AutoSelect, At, RowsOK, TaskRefs
    <3>2. task' = [task EXCEPT ![s].pc = "set_selected", ![s].sel = gen[task[s].job]]
      BY <1>8 DEF AutoSelect
    <3>3. task[s] \in TaskRec
      BY DEF TasksOK
    <3>4. [task[s] EXCEPT !.pc = "set_selected", !.sel = gen[task[s].job]] \in TaskRec
      BY <3>1, <3>3 DEF TaskRec, TaskPc
    <3>5. task' = [task EXCEPT ![s] = [task[s] EXCEPT !.pc = "set_selected", !.sel = gen[task[s].job]]]
      BY <3>2, <3>3 DEF TasksOK, TaskRec
    <3> QED BY <3>4, <3>5 DEF TasksOK
  <2>3. TasksStay
    BY <1>8 DEF AutoSelect, TasksOK, TaskRec, TasksStay, At
  <2> QED BY <2>1, <2>2, <2>3
<1>9. CASE NothingRecommended(s)
  <2>1. RowsOK' /\ RowsStay
    BY <1>9 DEF NothingRecommended, RowsOK, RowsStay, Exists, rows
  <2>2. TasksOK'
    BY <1>9 DEF NothingRecommended, TasksOK, TaskRec, TaskPc, AllPlans, At, Release, IdleTask, TaskAt, NoGen
  <2>3. TasksStay
    BY <1>9 DEF NothingRecommended, TasksOK, TaskRec, TasksStay, At, Release, IdleTask, TaskAt, NoGen
  <2> QED BY <2>1, <2>2, <2>3
<1>10. CASE SetSelected(s)
  <2>1. RowsOK' /\ RowsStay
    BY <1>10 DEF SetSelected, RowsOK, RowsStay, Exists, TasksOK, TaskRec
  <2>2. TasksOK'
    BY <1>10 DEF SetSelected, TasksOK, TaskRec, TaskPc, AllPlans, At, Goto
  <2>3. TasksStay
    BY <1>10 DEF SetSelected, TasksOK, TaskRec, TasksStay, At, Goto
  <2> QED BY <2>1, <2>2, <2>3
<1>11. CASE MarkSelected(s)
  <2>1. RowsOK' /\ RowsStay
    BY <1>11 DEF MarkSelected, RowsOK, RowsStay, Exists, SetStatus, Status
  <2>2. TasksOK'
    BY <1>11 DEF MarkSelected, TasksOK, TaskRec, TaskPc, AllPlans, At, Leave, TaskAt, NoGen
  <2>3. TasksStay
    BY <1>11 DEF MarkSelected, TasksOK, TaskRec, TasksStay, At, Leave, TaskAt, NoGen
  <2> QED BY <2>1, <2>2, <2>3
<1>12. CASE TaskEnqueue(s)
  <2>1. RowsOK' /\ RowsStay
    BY <1>12 DEF TaskEnqueue, RowsOK, RowsStay, Exists, rows
  <2>2. TasksOK'
    BY <1>12 DEF TaskEnqueue, TasksOK, TaskRec, TaskPc, AllPlans, At, Release, IdleTask, TaskAt, NoGen
  <2>3. TasksStay
    BY <1>12 DEF TaskEnqueue, TasksOK, TaskRec, TasksStay, At, Release, IdleTask, TaskAt, NoGen
  <2> QED BY <2>1, <2>2, <2>3
<1>13. CASE PlanAttempts(s)
  <2>1. RowsOK' /\ RowsStay
    BY <1>13 DEF PlanAttempts, RowsOK, RowsStay, Exists, rows
  <2>2. TasksOK'
    <3>1. PICK n \in 1..MaxAttempts :
             task' = [task EXCEPT ![s].pc = "attempt", ![s].left = n]
      BY <1>13 DEF PlanAttempts
    <3>2. task[s] \in TaskRec /\ n \in 0..MaxAttempts
      BY DispatchAssumption DEF TasksOK
    <3>3. [task[s] EXCEPT !.pc = "attempt", !.left = n] \in TaskRec
      BY <3>2 DEF TaskRec, TaskPc
    <3>4. task' = [task EXCEPT ![s] = [task[s] EXCEPT !.pc = "attempt", !.left = n]]
      BY <3>1, <3>2 DEF TasksOK, TaskRec
    <3> QED BY <3>3, <3>4 DEF TasksOK
  <2>3. TasksStay
    BY <1>13 DEF PlanAttempts, TasksOK, TaskRec, TasksStay, At, NoGen
  <2> QED BY <2>1, <2>2, <2>3
<1>14. CASE Work(s)
  <2>1. RowsOK' /\ RowsStay
    BY <1>14 DEF Work, RowsOK, RowsStay, Exists, SetStatus, Status
  <2>2. TasksOK'
    BY <1>14 DEF Work, TasksOK, TaskRec, TaskPc, AllPlans, At, Goto
  <2>3. TasksStay
    BY <1>14 DEF Work, TasksOK, TaskRec, TasksStay, At, Goto
  <2> QED BY <2>1, <2>2, <2>3
<1>15. CASE AttemptSucceeds(s)
  <2>1. RowsOK' /\ RowsStay
    BY <1>15 DEF AttemptSucceeds, RowsOK, RowsStay, Exists
  <2>2. TasksOK'
    <3>1. CASE Leave(s, "finish")
      BY <3>1 DEF TasksOK, TaskRec, TaskPc, Leave, TaskAt, NoGen
    <3>2. CASE /\ task[s].left > 1
               /\ task' = [task EXCEPT ![s].pc = "attempt", ![s].ok = TRUE, ![s].left = @ - 1]
      BY <3>2 DEF TasksOK, TaskRec, TaskPc
    <3> QED BY <1>15, <3>1, <3>2 DEF AttemptSucceeds
  <2>3. TasksStay
    BY <1>15 DEF AttemptSucceeds, TasksOK, TaskRec, TasksStay, At, Leave, TaskAt, NoGen
  <2> QED BY <2>1, <2>2, <2>3
<1>16. CASE AttemptFails(s)
  <2>1. RowsOK' /\ RowsStay
    BY <1>16 DEF AttemptFails, RowsOK, RowsStay, Exists, rows
  <2>2. TasksOK'
    <3>1. CASE task[s].left > 1
      <4>1. task' = [task EXCEPT ![s].pc = "attempt", ![s].left = @ - 1]
        BY <1>16, <3>1 DEF AttemptFails
      <4> QED BY <3>1, <4>1 DEF TasksOK, TaskRec, TaskPc
    <3>2. CASE ~(task[s].left > 1)
      <4>1. PICK p \in {"finish", "fail"} : Leave(s, p)
        BY <1>16, <3>2 DEF AttemptFails
      <4> QED BY <4>1 DEF TasksOK, TaskRec, TaskPc, Leave, TaskAt, NoGen
    <3> QED BY <3>1, <3>2
  <2>3. TasksStay
    BY <1>16 DEF AttemptFails, TasksOK, TaskRec, TasksStay, At, Leave, TaskAt, NoGen
  <2> QED BY <2>1, <2>2, <2>3
<1>17. CASE CheckOutputs(s)
  <2>1. RowsOK' /\ RowsStay
    BY <1>17 DEF CheckOutputs, RowsOK, RowsStay, Exists, rows
  <2>2. TasksOK'
    BY <1>17 DEF CheckOutputs, TasksOK, TaskRec, TaskPc, AllPlans, At, Leave, TaskAt, NoGen
  <2>3. TasksStay
    BY <1>17 DEF CheckOutputs, TasksOK, TaskRec, TasksStay, At, Leave, TaskAt, NoGen
  <2> QED BY <2>1, <2>2, <2>3
<1>18. CASE MarkReady(s)
  <2>1. RowsOK' /\ RowsStay
    BY <1>18 DEF MarkReady, RowsOK, RowsStay, Exists, SetStatus, Status
  <2>2. TasksOK'
    BY <1>18 DEF MarkReady, TasksOK, TaskRec, TaskPc, AllPlans, At, Release, IdleTask, TaskAt, NoGen
  <2>3. TasksStay
    BY <1>18 DEF MarkReady, TasksOK, TaskRec, TasksStay, At, Release, IdleTask, TaskAt, NoGen
  <2> QED BY <2>1, <2>2, <2>3
<1>19. CASE MarkFailed(s)
  <2>1. RowsOK' /\ RowsStay
    BY <1>19 DEF MarkFailed, RowsOK, RowsStay, Exists, SetStatus, Status
  <2>2. TasksOK'
    BY <1>19 DEF MarkFailed, TasksOK, TaskRec, TaskPc, AllPlans, At, Release, IdleTask, TaskAt, NoGen
  <2>3. TasksStay
    BY <1>19 DEF MarkFailed, TasksOK, TaskRec, TasksStay, At, Release, IdleTask, TaskAt, NoGen
  <2> QED BY <2>1, <2>2, <2>3
<1> QED
  BY <1>1, <1>2, <1>3, <1>4, <1>5, <1>6, <1>7, <1>8, <1>9, <1>10, <1>11, <1>12, <1>13, <1>14, <1>15, <1>16, <1>17, <1>18, <1>19 DEF TaskStep

(* What a step of a task leaves alone.                                       *)
LEMMA TaskActionFrame ==
    ASSUME TasksOK, NEW s \in Slots, TaskStep(s)
    PROVE  /\ UNCHANGED <<cap, held, req, restarts, requests, abandoned>>
           /\ queue' = queue \/ TaskEnqueue(s)
           /\ \A t \in Slots : t # s => task'[t] = task[t]
<1>1. CASE Begin(s)
  BY <1>1 DEF Begin, TaskOnly, TasksOK, Goto, Leave, Release
<1>2. CASE StartResolve(s)
  BY <1>2 DEF StartResolve, TaskOnly, TasksOK, Goto, Leave, Release
<1>3. CASE TaskFails(s)
  BY <1>3 DEF TaskFails, TaskOnly, TasksOK, Goto, Leave, Release
<1>4. CASE ClearArchive(s)
  BY <1>4 DEF ClearArchive, TaskOnly, TasksOK, Goto, Leave, Release
<1>5. CASE StoreArchive(s)
  BY <1>5 DEF StoreArchive, TaskOnly, TasksOK, Goto, Leave, Release
<1>6. CASE ReplaceCandidates(s)
  BY <1>6 DEF ReplaceCandidates, TaskOnly, TasksOK, Goto, Leave, Release
<1>7. CASE AnnounceCandidates(s)
  BY <1>7 DEF AnnounceCandidates, TaskOnly, TasksOK, Goto, Leave, Release
<1>8. CASE AutoSelect(s)
  BY <1>8 DEF AutoSelect, TaskOnly, TasksOK, Goto, Leave, Release
<1>9. CASE NothingRecommended(s)
  BY <1>9 DEF NothingRecommended, TaskOnly, TasksOK, Goto, Leave, Release
<1>10. CASE SetSelected(s)
  BY <1>10 DEF SetSelected, TaskOnly, TasksOK, Goto, Leave, Release
<1>11. CASE MarkSelected(s)
  BY <1>11 DEF MarkSelected, TaskOnly, TasksOK, Goto, Leave, Release
<1>12. CASE TaskEnqueue(s)
  BY <1>12 DEF TaskEnqueue, TaskOnly, TasksOK, Goto, Leave, Release
<1>13. CASE PlanAttempts(s)
  BY <1>13 DEF PlanAttempts, TaskOnly, TasksOK, Goto, Leave, Release
<1>14. CASE Work(s)
  BY <1>14 DEF Work, TaskOnly, TasksOK, Goto, Leave, Release
<1>15. CASE AttemptSucceeds(s)
  BY <1>15 DEF AttemptSucceeds, TaskOnly, TasksOK, Goto, Leave, Release
<1>16. CASE AttemptFails(s)
  BY <1>16 DEF AttemptFails, TaskOnly, TasksOK, Goto, Leave, Release
<1>17. CASE CheckOutputs(s)
  BY <1>17 DEF CheckOutputs, TaskOnly, TasksOK, Goto, Leave, Release
<1>18. CASE MarkReady(s)
  BY <1>18 DEF MarkReady, TaskOnly, TasksOK, Goto, Leave, Release
<1>19. CASE MarkFailed(s)
  BY <1>19 DEF MarkFailed, TaskOnly, TasksOK, Goto, Leave, Release
<1> QED
  BY <1>1, <1>2, <1>3, <1>4, <1>5, <1>6, <1>7, <1>8, <1>9, <1>10, <1>11, <1>12, <1>13, <1>14, <1>15, <1>16, <1>17, <1>18, <1>19 DEF TaskStep

(* A handler's step keeps rows and handlers well typed, and referring to     *)
(* jobs that have a row.                                                     *)
LEMMA ReqActionStep ==
    ASSUME RowsOK, ReqsOK, ReqRefs, NEW c \in Clients, ReqStep(c) \/ Request(c)
    PROVE  RowsOK' /\ ReqsOK' /\ RowsStay /\ ReqRefs'
<1> USE DispatchAssumption
<1>1. CASE SelectSet(c)
  <2>1. RowsOK' /\ RowsStay
    BY <1>1 DEF SelectSet, RowsOK, RowsStay, ReqsOK, ReqRec, ReqRefs, Exists, ReqGoto, ReqAt
  <2>2. ReqsOK'
    BY <1>1 DEF SelectSet, ReqsOK, ReqRec, ReqPc, ReqGoto, ReqAt
  <2>3. ReqRefs'
    BY <1>1, <2>1 DEF SelectSet, ReqsOK, ReqRec, ReqRefs, RowsStay, ReqGoto, ReqAt
  <2> QED BY <2>1, <2>2, <2>3
<1>2. CASE SelectMark(c)
  <2>1. RowsOK' /\ RowsStay
    BY <1>2 DEF SelectMark, RowsOK, RowsStay, ReqsOK, ReqRec, ReqRefs, Exists, ReqGoto, ReqAt, SetStatus, Status
  <2>2. ReqsOK'
    BY <1>2 DEF SelectMark, ReqsOK, ReqRec, ReqPc, ReqGoto, ReqAt, SetStatus, Status
  <2>3. ReqRefs'
    BY <1>2, <2>1 DEF SelectMark, ReqsOK, ReqRec, ReqRefs, RowsStay, ReqGoto, ReqAt, SetStatus, Status
  <2> QED BY <2>1, <2>2, <2>3
<1>3. CASE DeleteCandidates(c)
  <2>1. RowsOK' /\ RowsStay
    BY <1>3 DEF DeleteCandidates, RowsOK, RowsStay, ReqsOK, ReqRec, ReqRefs, Exists, ReqGoto, ReqAt, NoGen
  <2>2. ReqsOK'
    BY <1>3 DEF DeleteCandidates, ReqsOK, ReqRec, ReqPc, ReqGoto, ReqAt, NoGen
  <2>3. ReqRefs'
    BY <1>3, <2>1 DEF DeleteCandidates, ReqsOK, ReqRec, ReqRefs, RowsStay, ReqGoto, ReqAt, NoGen
  <2> QED BY <2>1, <2>2, <2>3
<1>4. CASE DeleteArtifacts(c)
  <2>1. RowsOK' /\ RowsStay
    BY <1>4 DEF DeleteArtifacts, RowsOK, RowsStay, ReqsOK, ReqRec, ReqRefs, Exists, ReqGoto, ReqAt
  <2>2. ReqsOK'
    BY <1>4 DEF DeleteArtifacts, ReqsOK, ReqRec, ReqPc, ReqGoto, ReqAt
  <2>3. ReqRefs'
    BY <1>4, <2>1 DEF DeleteArtifacts, ReqsOK, ReqRec, ReqRefs, RowsStay, ReqGoto, ReqAt
  <2> QED BY <2>1, <2>2, <2>3
<1>5. CASE ReqEnqueue(c)
  <2>1. RowsOK' /\ RowsStay
    BY <1>5 DEF ReqEnqueue, RowsOK, RowsStay, ReqsOK, ReqRec, ReqRefs, Exists, ReqAt, IdleReq, Handler, NoGen, rows
  <2>2. ReqsOK'
    BY <1>5 DEF ReqEnqueue, ReqsOK, ReqRec, ReqPc, ReqAt, IdleReq, Handler, NoGen, rows
  <2>3. ReqRefs'
    BY <1>5, <2>1 DEF ReqEnqueue, ReqsOK, ReqRec, ReqRefs, RowsStay, ReqAt, IdleReq, Handler, NoGen, rows
  <2> QED BY <2>1, <2>2, <2>3
<1>6. ASSUME NEW j \in Jobs, Submit(c, j) PROVE RowsOK' /\ ReqsOK' /\ RowsStay /\ ReqRefs'
  <2>1. RowsOK' /\ RowsStay /\ Exists(j)'
    BY <1>6 DEF Submit, RowsOK, RowsStay, Exists, AllPlans, Opens, ReqAt, SetStatus, Status, Accept, Handler, NoGen
  <2>2. ReqsOK'
    BY <1>6 DEF Submit, RowsOK, ReqsOK, ReqRec, ReqPc, Opens, ReqAt, SetStatus, Status, Accept, Handler, NoGen
  <2>3. ReqRefs'
    BY <1>6, <2>1 DEF Submit, ReqsOK, ReqRec, ReqRefs, RowsStay, Opens, ReqAt, SetStatus, Status, Accept, Handler, NoGen
  <2> QED BY <2>1, <2>2, <2>3
<1>7. ASSUME NEW j \in Jobs, SelectCheck(c, j) PROVE RowsOK' /\ ReqsOK' /\ RowsStay /\ ReqRefs'
  <2>1. RowsOK' /\ RowsStay /\ Exists(j)'
    BY <1>7 DEF SelectCheck, RowsOK, RowsStay, Exists, AllPlans, Opens, ReqAt, Handler, rows
  <2>2. ReqsOK'
    BY <1>7 DEF SelectCheck, RowsOK, ReqsOK, ReqRec, ReqPc, Opens, ReqAt, Handler, rows
  <2>3. ReqRefs'
    BY <1>7, <2>1 DEF SelectCheck, ReqsOK, ReqRec, ReqRefs, RowsStay, Opens, ReqAt, Handler, rows
  <2> QED BY <2>1, <2>2, <2>3
<1>8. ASSUME NEW j \in Jobs, Resume(c, j) PROVE RowsOK' /\ ReqsOK' /\ RowsStay /\ ReqRefs'
  <2>1. RowsOK' /\ RowsStay /\ Exists(j)'
    BY <1>8 DEF Resume, RowsOK, RowsStay, Exists, AllPlans, Opens, ReqAt, SetStatus, Status, Accept, Handler, NoGen
  <2>2. ReqsOK'
    BY <1>8 DEF Resume, RowsOK, ReqsOK, ReqRec, ReqPc, Opens, ReqAt, SetStatus, Status, Accept, Handler, NoGen
  <2>3. ReqRefs'
    BY <1>8, <2>1 DEF Resume, ReqsOK, ReqRec, ReqRefs, RowsStay, Opens, ReqAt, SetStatus, Status, Accept, Handler, NoGen
  <2> QED BY <2>1, <2>2, <2>3
<1>9. ASSUME NEW j \in Jobs, ForceArchive(c, j) PROVE RowsOK' /\ ReqsOK' /\ RowsStay /\ ReqRefs'
  <2>1. RowsOK' /\ RowsStay /\ Exists(j)'
    BY <1>9 DEF ForceArchive, RowsOK, RowsStay, Exists, AllPlans, Opens, ReqAt, SetStatus, Status, Accept, Handler, NoGen
  <2>2. ReqsOK'
    BY <1>9 DEF ForceArchive, RowsOK, ReqsOK, ReqRec, ReqPc, Opens, ReqAt, SetStatus, Status, Accept, Handler, NoGen
  <2>3. ReqRefs'
    BY <1>9, <2>1 DEF ForceArchive, ReqsOK, ReqRec, ReqRefs, RowsStay, Opens, ReqAt, SetStatus, Status, Accept, Handler, NoGen
  <2> QED BY <2>1, <2>2, <2>3
<1>10. ASSUME NEW j \in Jobs, AttachProfile(c, j) PROVE RowsOK' /\ ReqsOK' /\ RowsStay /\ ReqRefs'
  <2>1. RowsOK' /\ RowsStay /\ Exists(j)'
    BY <1>10 DEF AttachProfile, RowsOK, RowsStay, Exists, AllPlans, Opens, ReqAt
  <2>2. ReqsOK'
    BY <1>10 DEF AttachProfile, RowsOK, ReqsOK, ReqRec, ReqPc, Opens, ReqAt
  <2>3. ReqRefs'
    BY <1>10, <2>1 DEF AttachProfile, ReqsOK, ReqRec, ReqRefs, RowsStay, Opens, ReqAt
  <2> QED BY <2>1, <2>2, <2>3
<1> QED
  BY <1>1, <1>2, <1>3, <1>4, <1>5, <1>6, <1>7, <1>8, <1>9, <1>10 DEF ReqStep, Request

(* What a handler's step leaves alone.                                       *)
LEMMA ReqActionFrame ==
    ASSUME ReqsOK, CountsOK, NEW c \in Clients, ReqStep(c) \/ Request(c)
    PROVE  /\ UNCHANGED <<cap, held, task, restarts, abandoned>>
           /\ requests' \in 0..MaxRequests
           /\ queue' = queue \/ ReqEnqueue(c)
           /\ \A d \in Clients : d # c => req'[d] = req[d]
<1> USE DispatchAssumption
<1>1. CASE ReqStep(c)
  BY <1>1 DEF ReqStep, SelectSet, SelectMark, DeleteCandidates, DeleteArtifacts, ReqEnqueue,
              ReqOnly, ReqGoto, ReqsOK, CountsOK
<1>2. ASSUME NEW j \in Jobs, \/ Submit(c, j) \/ SelectCheck(c, j) \/ Resume(c, j)
                              \/ ForceArchive(c, j) \/ AttachProfile(c, j)
      PROVE  /\ UNCHANGED <<cap, held, task, restarts, abandoned, queue>>
             /\ requests' \in 0..MaxRequests
             /\ \A d \in Clients : d # c => req'[d] = req[d]
  <2>1. /\ UNCHANGED <<cap, held, task, restarts, abandoned, queue>>
        /\ requests < MaxRequests /\ requests' = requests + 1
    BY <1>2 DEF Submit, SelectCheck, Resume, ForceArchive, AttachProfile, ReqStays, Opens
  <2>2. \A d \in Clients : d # c => req'[d] = req[d]
    BY <1>2 DEF Submit, SelectCheck, Resume, ForceArchive, AttachProfile, Accept, ReqsOK
  <2> QED BY <2>1, <2>2 DEF CountsOK
<1> QED BY <1>1, <1>2 DEF Request

----------------------------------------------------------------------------
(* Type correctness.                                                         *)

(* TypeOK is not inductive alone: which record a step writes depends on the  *)
(* row its entry, task or handler refers to.                                 *)
TypeInv == TypeOK /\ QueueRefs /\ TaskRefs /\ ReqRefs

(* The first boot, with no row and an empty queue.                           *)
LEMMA TypeInvInit == Init => TypeInv
<1> SUFFICES ASSUME Init PROVE TypeInv
  OBVIOUS
<1> USE DispatchAssumption DEF Init
<1>1. RowsOK
  BY DEF RowsOK, Status, AllPlans, NoGen
<1>2. TasksOK /\ TaskRefs
  BY IdleTaskTyped DEF TasksOK, TaskRefs, IdleTask, TaskAt
<1>3. ReqsOK /\ ReqRefs
  BY IdleReqTyped DEF ReqsOK, ReqRefs, IdleReq, Handler
<1>4. LoopOK /\ CountsOK /\ QueueRefs
  BY DEF LoopOK, CountsOK, QueueRefs
<1> QED BY <1>1, <1>2, <1>3, <1>4, TypeParts DEF TypeInv

(* The entries of the queue after one is appended.                           *)
LEMMA AppendEntry ==
    ASSUME queue \in Seq(Jobs), NEW j \in Jobs, queue' = Append(queue, j)
    PROVE  /\ queue' \in Seq(Jobs)
           /\ \A i \in DOMAIN queue : i \in DOMAIN queue' /\ queue'[i] = queue[i]
           /\ \A i \in DOMAIN queue' : (i \in DOMAIN queue /\ queue'[i] = queue[i]) \/ queue'[i] = j
           /\ \E i \in DOMAIN queue' : queue'[i] = j
<1>1. /\ queue' \in Seq(Jobs)
      /\ Len(queue') = Len(queue) + 1
      /\ \A i \in 1..Len(queue) : queue'[i] = queue[i]
      /\ queue'[Len(queue) + 1] = j
  BY AppendProperties
<1> QED BY <1>1, LenProperties

(* The entries of the queue after the loop took one.                         *)
LEMMA TakenEntry ==
    ASSUME queue \in Seq(Jobs), queue # <<>>, queue' = Tail(queue), held' = Head(queue)
    PROVE  /\ queue' \in Seq(Jobs)
           /\ 1 \in DOMAIN queue /\ held' = queue[1]
           /\ \A i \in DOMAIN queue' : i + 1 \in DOMAIN queue /\ queue'[i] = queue[i + 1]
           /\ \A i \in DOMAIN queue : i = 1 \/ (i - 1 \in DOMAIN queue' /\ queue'[i - 1] = queue[i])
<1>1. /\ queue' \in Seq(Jobs)
      /\ Len(queue') = Len(queue) - 1
      /\ \A i \in 1..Len(queue') : queue'[i] = queue[i + 1]
  BY HeadTailProperties
<1>2. Len(queue) \in Nat \ {0} /\ DOMAIN queue = 1..Len(queue) /\ DOMAIN queue' = 1..Len(queue')
  BY <1>1, LenProperties, EmptySeq
<1> QED BY <1>1, <1>2

(* A boot finds finitely many rows to take up.                               *)
LEMMA PendingFinite == IsFiniteSet(Pending) /\ Cardinality(Pending) \in Nat
<1>1. Pending \subseteq Jobs
  BY DEF Pending
<1> QED BY <1>1, DispatchAssumption, FS_Subset, FS_CardinalityType

(* After a boot every row it found active, and no other, is in the queue.    *)
LEMMA RestartStep ==
    ASSUME TypeInv, Restart
    PROVE  TypeInv' /\ \A j \in Jobs : Active(j)' => \E i \in DOMAIN queue' : queue'[i] = j
<1> USE DispatchAssumption
<1> DEFINE N == Cardinality(Pending)
<1>0. RowsOK /\ CountsOK
  BY TypeParts DEF TypeInv
<1>1. PICK q \in [1..N -> Pending] :
          /\ \A j \in Pending : \E i \in DOMAIN q : q[i] = j
          /\ queue' = q
  BY DEF Restart
<1>2. /\ queue' \in Seq(Jobs)
      /\ \A i \in DOMAIN queue' : queue'[i] \in Pending
      /\ \A j \in Pending : \E i \in DOMAIN queue' : queue'[i] = j
  <2>1. N \in Nat
    BY PendingFinite
  <2>2. q \in [1..N -> Jobs]
    BY <1>1 DEF Pending
  <2>3. q \in Seq(Jobs)
    BY <2>1, <2>2, SeqDef
  <2> QED BY <1>1, <2>3
<1>3. RowsOK' /\ RowsStay
  BY <1>0 DEF Restart, RowsOK, RowsStay, Exists, Status
<1>4. \A j \in Jobs : status'[j] \in ActiveStatus => j \in Pending
  BY <1>0 DEF Restart, RowsOK, Pending, ActiveStatus
<1>5. TasksOK' /\ TaskRefs'
  BY IdleTaskTyped DEF Restart, TasksOK, TaskRefs, IdleTask, TaskAt
<1>6. ReqsOK' /\ ReqRefs'
  BY IdleReqTyped DEF Restart, ReqsOK, ReqRefs, IdleReq, Handler
<1>7. LoopOK' /\ CountsOK'
  <2>1. cap' \in Nat /\ held' = NoJob
    BY PendingFinite DEF Restart
  <2>2. CountsOK'
    BY <1>0 DEF Restart, CountsOK
  <2> QED BY <1>2, <2>1, <2>2 DEF LoopOK
<1>8. QueueRefs'
  <2>1. \A j \in Pending : Exists(j)
    BY DEF Pending, Exists, ActiveStatus
  <2>2. \A j \in Pending : Exists(j)'
    BY <2>1, <1>3 DEF RowsStay, Pending
  <2>3. held' = NoJob
    BY DEF Restart
  <2> QED BY <1>2, <2>2, <2>3 DEF QueueRefs, Exists
<1> QED
  <2>1. TypeInv'
    BY <1>3, <1>5, <1>6, <1>7, <1>8, TypeParts DEF TypeInv, TypeOK, RowsOK, TasksOK, LoopOK, ReqsOK, CountsOK
  <2> QED BY <2>1, <1>2, <1>4 DEF Active

(* Every step keeps the shapes and makes nothing refer to a missing row.     *)
LEMMA TypeInvStep == TypeInv /\ [Next]_vars => TypeInv'
<1> SUFFICES ASSUME TypeInv, [Next]_vars PROVE TypeInv'
  OBVIOUS
<1> USE DispatchAssumption
<1>0. RowsOK /\ TasksOK /\ LoopOK /\ ReqsOK /\ CountsOK /\ QueueRefs /\ TaskRefs /\ ReqRefs
  BY TypeParts DEF TypeInv
<1> DEFINE Goal == /\ RowsOK' /\ TasksOK' /\ LoopOK' /\ ReqsOK' /\ CountsOK'
                   /\ QueueRefs' /\ TaskRefs' /\ ReqRefs'
<1>a. ASSUME Goal PROVE TypeInv'
  BY <1>a DEF TypeInv, TypeOK, RowsOK, TasksOK, LoopOK, ReqsOK, CountsOK
<1>1. CASE Receive
  <2>1. queue \in Seq(Jobs) /\ queue # <<>> /\ queue' = Tail(queue) /\ held' = Head(queue)
    BY <1>0, <1>1 DEF Receive, LoopOK
  <2>2. /\ queue' \in Seq(Jobs)
        /\ 1 \in DOMAIN queue /\ held' = queue[1]
        /\ \A i \in DOMAIN queue' : i + 1 \in DOMAIN queue /\ queue'[i] = queue[i + 1]
    BY <2>1, TakenEntry
  <2>3. UNCHANGED <<rows, cap, task, req, restarts, requests, abandoned>>
    BY <1>1 DEF Receive
  <2>4. RowsOK' /\ TasksOK' /\ ReqsOK' /\ CountsOK' /\ TaskRefs' /\ ReqRefs'
    BY <1>0, <2>3 DEF RowsOK, TasksOK, ReqsOK, CountsOK, TaskRefs, ReqRefs, Exists, rows
  <2>5. LoopOK'
    BY <1>0, <2>1, <2>2, <2>3, ElementOfSeq, LenProperties DEF LoopOK
  <2>6. QueueRefs'
    BY <1>0, <2>2, <2>3 DEF QueueRefs, Exists, rows
  <2> QED BY <2>4, <2>5, <2>6, <1>a
<1>2. ASSUME NEW s \in Slots, Spawn(s) PROVE TypeInv'
  <2>1. /\ held # NoJob /\ held' = NoJob
        /\ task' = [task EXCEPT ![s] = TaskAt("begin", held, "media")]
        /\ UNCHANGED <<rows, queue, cap, req, restarts, requests, abandoned>>
    BY <1>2 DEF Spawn
  <2>2. held \in Jobs /\ Exists(held)
    BY <1>0, <2>1 DEF LoopOK, QueueRefs
  <2>3. TaskAt("begin", held, "media") \in TaskRec
    BY <2>2 DEF TaskAt, TaskRec, TaskPc, AllPlans, NoGen
  <2>4. TasksOK'
    BY <1>0, <2>1, <2>3 DEF TasksOK
  <2>5. TaskRefs'
    BY <1>0, <2>1, <2>2 DEF TaskRefs, TasksOK, TaskAt, Exists, rows
  <2>6. RowsOK' /\ LoopOK' /\ ReqsOK' /\ CountsOK' /\ QueueRefs' /\ ReqRefs'
    BY <1>0, <2>1 DEF RowsOK, LoopOK, ReqsOK, CountsOK, QueueRefs, ReqRefs, Exists, rows
  <2> QED BY <2>4, <2>5, <2>6, <1>a
<1>3. ASSUME NEW s \in Slots, TaskStep(s) PROVE TypeInv'
  <2>1. RowsOK' /\ TasksOK' /\ RowsStay /\ TasksStay
    BY <1>0, <1>3, TaskActionStep
  <2>2. /\ UNCHANGED <<cap, held, req, restarts, requests, abandoned>>
        /\ queue' = queue \/ TaskEnqueue(s)
    BY <1>0, <1>3, TaskActionFrame
  <2>3. ReqsOK' /\ CountsOK' /\ ReqRefs' /\ TaskRefs'
    BY <1>0, <2>1, <2>2 DEF ReqsOK, CountsOK, ReqRefs, TaskRefs, RowsStay, TasksStay
  <2>4. LoopOK' /\ QueueRefs'
    <3>1. CASE queue' = queue
      BY <1>0, <2>1, <2>2, <3>1, ElementOfSeq, LenProperties DEF LoopOK, QueueRefs, RowsStay
    <3>2. CASE TaskEnqueue(s)
      <4>1. task[s].job \in Jobs /\ Exists(task[s].job) /\ queue' = Append(queue, task[s].job)
        BY <1>0, <3>2 DEF TaskEnqueue, At, TaskRefs
      <4>2. /\ queue' \in Seq(Jobs)
            /\ \A i \in DOMAIN queue' :
                  (i \in DOMAIN queue /\ queue'[i] = queue[i]) \/ queue'[i] = task[s].job
        BY <1>0, <4>1, AppendEntry DEF LoopOK
      <4>3. \A i \in DOMAIN queue' : queue'[i] \in Jobs /\ Exists(queue'[i])
        BY <1>0, <4>1, <4>2, ElementOfSeq, LenProperties DEF LoopOK, QueueRefs
      <4> QED BY <1>0, <2>1, <2>2, <4>2, <4>3 DEF LoopOK, QueueRefs, RowsStay
    <3> QED BY <2>2, <3>1, <3>2
  <2> QED BY <1>0, <2>1, <2>3, <2>4, <1>a
<1>4. ASSUME NEW s \in Slots, TaskPanics(s) PROVE TypeInv'
  <2>1. /\ task' = [task EXCEPT ![s] = IdleTask]
        /\ abandoned' = abandoned \cup {task[s].job}
        /\ task[s].pc # "idle"
        /\ UNCHANGED <<rows, queue, cap, held, req, restarts, requests>>
    BY <1>4 DEF TaskPanics, Release
  <2>2. TasksOK' /\ TaskRefs'
    BY <1>0, <2>1, IdleTaskTyped DEF TasksOK, TaskRefs, IdleTask, TaskAt, Exists, rows
  <2>3. CountsOK'
    BY <1>0, <2>1 DEF CountsOK, TaskRefs
  <2>4. RowsOK' /\ LoopOK' /\ ReqsOK' /\ QueueRefs' /\ ReqRefs'
    BY <1>0, <2>1 DEF RowsOK, LoopOK, ReqsOK, QueueRefs, ReqRefs, Exists, rows
  <2> QED BY <2>2, <2>3, <2>4, <1>a
<1>5. ASSUME NEW c \in Clients, ReqStep(c) \/ Request(c) PROVE TypeInv'
  <2>1. RowsOK' /\ ReqsOK' /\ RowsStay /\ ReqRefs'
    BY <1>0, <1>5, ReqActionStep
  <2>2. /\ UNCHANGED <<cap, held, task, restarts, abandoned>>
        /\ requests' \in 0..MaxRequests
        /\ queue' = queue \/ ReqEnqueue(c)
    BY <1>0, <1>5, ReqActionFrame
  <2>3. TasksOK' /\ CountsOK' /\ TaskRefs'
    BY <1>0, <2>1, <2>2 DEF TasksOK, CountsOK, TaskRefs, RowsStay
  <2>4. LoopOK' /\ QueueRefs'
    <3>1. CASE queue' = queue
      BY <1>0, <2>1, <2>2, <3>1, ElementOfSeq, LenProperties DEF LoopOK, QueueRefs, RowsStay
    <3>2. CASE ReqEnqueue(c)
      <4>1. req[c].job \in Jobs /\ Exists(req[c].job) /\ queue' = Append(queue, req[c].job)
        BY <1>0, <3>2 DEF ReqEnqueue, ReqAt, ReqRefs
      <4>2. /\ queue' \in Seq(Jobs)
            /\ \A i \in DOMAIN queue' :
                  (i \in DOMAIN queue /\ queue'[i] = queue[i]) \/ queue'[i] = req[c].job
        BY <1>0, <4>1, AppendEntry DEF LoopOK
      <4>3. \A i \in DOMAIN queue' : queue'[i] \in Jobs /\ Exists(queue'[i])
        BY <1>0, <4>1, <4>2, ElementOfSeq, LenProperties DEF LoopOK, QueueRefs
      <4> QED BY <1>0, <2>1, <2>2, <4>2, <4>3 DEF LoopOK, QueueRefs, RowsStay
    <3> QED BY <2>2, <3>1, <3>2
  <2> QED BY <1>0, <2>1, <2>3, <2>4, <1>a
<1>6. ASSUME NEW c \in Clients, Disconnect(c) PROVE TypeInv'
  <2>1. /\ req' = [req EXCEPT ![c] = IdleReq]
        /\ abandoned' \in {abandoned, abandoned \cup {req[c].job}}
        /\ req[c].pc # "idle"
        /\ UNCHANGED <<rows, queue, cap, held, task, restarts, requests>>
    BY <1>6 DEF Disconnect, ReqAt
  <2>2. ReqsOK' /\ ReqRefs'
    BY <1>0, <2>1, IdleReqTyped DEF ReqsOK, ReqRefs, IdleReq, Handler, Exists, rows
  <2>3. CountsOK'
    BY <1>0, <2>1 DEF CountsOK, ReqRefs
  <2>4. RowsOK' /\ TasksOK' /\ LoopOK' /\ QueueRefs' /\ TaskRefs'
    BY <1>0, <2>1 DEF RowsOK, TasksOK, LoopOK, QueueRefs, TaskRefs, Exists, rows
  <2> QED BY <2>2, <2>3, <2>4, <1>a
<1>7. CASE Restart
  BY <1>7, RestartStep
<1>8. CASE UNCHANGED vars
  BY <1>0, <1>8, <1>a DEF vars, rows, process, RowsOK, TasksOK, LoopOK, ReqsOK, CountsOK,
                          QueueRefs, TaskRefs, ReqRefs, Exists
<1> QED BY <1>1, <1>2, <1>3, <1>4, <1>5, <1>6, <1>7, <1>8 DEF Next

(* Shapes and references to rows, in every reachable state.                  *)
LEMMA TypeInvariance == Spec => []TypeInv
BY TypeInvInit, TypeInvStep, PTL DEF Spec

(* Rows, queue, tasks and handlers keep their shape, however many jobs,      *)
(* permits and clients there are and whatever they do.                       *)
THEOREM TypeCorrect == Spec => []TypeOK
<1>1. TypeInv => TypeOK
  BY DEF TypeInv
<1> QED BY <1>1, TypeInvariance, PTL

----------------------------------------------------------------------------
(* No active job without a driver.                                           *)

(* A task's step leaves a job active only if it was, with another driver, or *)
(* if the task goes on driving it or has just put it back into the queue.    *)
LEMMA TaskActionDrives ==
    ASSUME RowsOK, TasksOK, TaskRefs, NEW s \in Slots, TaskStep(s),
           NEW j \in Jobs, Active(j)'
    PROVE  \/ Active(j) /\ ~TaskDrives(s, j)
           \/ TaskDrives(s, j)'
           \/ TaskEnqueue(s) /\ task[s].job = j
<1> USE DispatchAssumption DEF Active, ActiveStatus, TaskDrives
<1>1. CASE Begin(s)
  BY <1>1 DEF Begin, At, RowsOK, TasksOK, TaskRefs, TaskRec, rows
<1>2. CASE StartResolve(s)
  BY <1>2 DEF StartResolve, At, RowsOK, TasksOK, TaskRefs, TaskRec, SetStatus, Goto
<1>3. CASE TaskFails(s)
  BY <1>3 DEF TaskFails, At, RowsOK, TasksOK, TaskRefs, TaskRec, Leave, TaskAt
<1>4. CASE ClearArchive(s)
  BY <1>4 DEF ClearArchive, At, RowsOK, TasksOK, TaskRefs, TaskRec, Goto
<1>5. CASE StoreArchive(s)
  BY <1>5 DEF StoreArchive, At, RowsOK, TasksOK, TaskRefs, TaskRec, Goto
<1>6. CASE ReplaceCandidates(s)
  BY <1>6 DEF ReplaceCandidates, At, RowsOK, TasksOK, TaskRefs, TaskRec, Goto
<1>7. CASE AnnounceCandidates(s)
  BY <1>7 DEF AnnounceCandidates, At, RowsOK, TasksOK, TaskRefs, TaskRec, SetStatus
<1>8. CASE AutoSelect(s)
  BY <1>8 DEF AutoSelect, At, RowsOK, TasksOK, TaskRefs, TaskRec, rows
<1>9. CASE NothingRecommended(s)
  BY <1>9 DEF NothingRecommended, At, RowsOK, TasksOK, TaskRefs, TaskRec, Release, rows
<1>10. CASE SetSelected(s)
  BY <1>10 DEF SetSelected, At, RowsOK, TasksOK, TaskRefs, TaskRec, Goto
<1>11. CASE MarkSelected(s)
  BY <1>11 DEF MarkSelected, At, RowsOK, TasksOK, TaskRefs, TaskRec, Leave, TaskAt, SetStatus
<1>12. CASE TaskEnqueue(s)
  BY <1>12 DEF TaskEnqueue, At, RowsOK, TasksOK, TaskRefs, TaskRec, rows
<1>13. CASE PlanAttempts(s)
  BY <1>13 DEF PlanAttempts, At, RowsOK, TasksOK, TaskRefs, TaskRec, rows
<1>14. CASE Work(s)
  BY <1>14 DEF Work, At, RowsOK, TasksOK, TaskRefs, TaskRec, SetStatus, Goto
<1>15. CASE AttemptSucceeds(s)
  BY <1>15 DEF AttemptSucceeds, At, RowsOK, TasksOK, TaskRefs, TaskRec, Leave, TaskAt
<1>16. CASE AttemptFails(s)
  BY <1>16 DEF AttemptFails, At, RowsOK, TasksOK, TaskRefs, TaskRec, Leave, TaskAt, rows
<1>17. CASE CheckOutputs(s)
  BY <1>17 DEF CheckOutputs, At, RowsOK, TasksOK, TaskRefs, TaskRec, Leave, TaskAt, rows
<1>18. CASE MarkReady(s)
  BY <1>18 DEF MarkReady, At, RowsOK, TasksOK, TaskRefs, TaskRec, SetStatus
<1>19. CASE MarkFailed(s)
  BY <1>19 DEF MarkFailed, At, RowsOK, TasksOK, TaskRefs, TaskRec, SetStatus
<1> QED
  BY <1>1, <1>2, <1>3, <1>4, <1>5, <1>6, <1>7, <1>8, <1>9, <1>10, <1>11, <1>12, <1>13, <1>14, <1>15, <1>16, <1>17, <1>18, <1>19 DEF TaskStep

(* The same for a handler: one that makes a row active owes it an entry.     *)
LEMMA ReqActionDrives ==
    ASSUME RowsOK, ReqsOK, ReqRefs, NEW c \in Clients, ReqStep(c) \/ Request(c),
           NEW j \in Jobs, Active(j)'
    PROVE  \/ Active(j) /\ ~ReqDrives(c, j)
           \/ ReqDrives(c, j)'
           \/ ReqEnqueue(c) /\ req[c].job = j
<1> USE DispatchAssumption DEF Active, ActiveStatus, ReqDrives, Owing
<1>1. CASE SelectSet(c)
  BY <1>1 DEF SelectSet, RowsOK, ReqsOK, ReqRefs, ReqRec, ReqGoto, ReqAt
<1>2. CASE SelectMark(c)
  BY <1>2 DEF SelectMark, RowsOK, ReqsOK, ReqRefs, ReqRec, ReqGoto, ReqAt, SetStatus
<1>3. CASE DeleteCandidates(c)
  BY <1>3 DEF DeleteCandidates, RowsOK, ReqsOK, ReqRefs, ReqRec, ReqGoto, ReqAt
<1>4. CASE DeleteArtifacts(c)
  BY <1>4 DEF DeleteArtifacts, RowsOK, ReqsOK, ReqRefs, ReqRec, ReqGoto, ReqAt
<1>5. CASE ReqEnqueue(c)
  BY <1>5 DEF ReqEnqueue, RowsOK, ReqsOK, ReqRefs, ReqRec, ReqAt, rows
<1> DEFINE Goal == \/ Active(j) /\ ~ReqDrives(c, j)
                   \/ ReqDrives(c, j)'
<1>6. ASSUME NEW k \in Jobs, Submit(c, k) PROVE Goal
  BY <1>6 DEF Submit, RowsOK, ReqsOK, Opens, ReqAt, SetStatus, Accept, Handler
<1>7. ASSUME NEW k \in Jobs, SelectCheck(c, k) PROVE Goal
  BY <1>7 DEF SelectCheck, RowsOK, ReqsOK, Opens, ReqAt, rows
<1>8. ASSUME NEW k \in Jobs, Resume(c, k) PROVE Goal
  BY <1>8 DEF Resume, RowsOK, ReqsOK, Opens, ReqAt, SetStatus, Accept, Handler
<1>9. ASSUME NEW k \in Jobs, ForceArchive(c, k) PROVE Goal
  BY <1>9 DEF ForceArchive, RowsOK, ReqsOK, Opens, ReqAt, SetStatus, Accept, Handler
<1>10. ASSUME NEW k \in Jobs, AttachProfile(c, k) PROVE Goal
  BY <1>10 DEF AttachProfile, RowsOK, ReqsOK, Opens, ReqAt
<1> QED
  BY <1>1, <1>2, <1>3, <1>4, <1>5, <1>6, <1>7, <1>8, <1>9, <1>10 DEF ReqStep, Request

(* No step leaves an active row without a driver.                            *)
LEMMA DriverStep == TypeInv /\ ActiveHasDriver /\ [Next]_vars => ActiveHasDriver'
<1> SUFFICES ASSUME TypeInv, ActiveHasDriver, [Next]_vars,
                    NEW j \in Jobs, Active(j)'
             PROVE  Driven(j)' \/ j \in abandoned'
  BY DEF ActiveHasDriver
<1> USE DispatchAssumption
<1> DEFINE InQueue == \E i \in DOMAIN queue : queue[i] = j
<1>0. RowsOK /\ TasksOK /\ LoopOK /\ ReqsOK /\ CountsOK /\ QueueRefs /\ TaskRefs /\ ReqRefs
  BY TypeParts DEF TypeInv
<1>a. Driven(j) <=> \/ InQueue \/ held = j
                    \/ \E s \in Slots : TaskDrives(s, j)
                    \/ \E c \in Clients : ReqDrives(c, j)
  BY DEF Driven, Tickets
<1>b. Driven(j)' <=> \/ InQueue' \/ held' = j
                     \/ \E s \in Slots : TaskDrives(s, j)'
                     \/ \E c \in Clients : ReqDrives(c, j)'
  BY DEF Driven, Tickets
<1>c. Active(j) => \/ InQueue \/ held = j \/ j \in abandoned
                   \/ \E s \in Slots : TaskDrives(s, j)
                   \/ \E c \in Clients : ReqDrives(c, j)
  BY <1>a DEF ActiveHasDriver
<1>d. UNCHANGED rows => Active(j)
  BY DEF Active, rows
<1> HIDE DEF InQueue
<1>1. CASE Receive
  <2>1. InQueue => InQueue' \/ held' = j
    BY <1>0, <1>1, TakenEntry DEF Receive, LoopOK, InQueue
  <2>2. held # j /\ UNCHANGED <<rows, task, req, abandoned>>
    BY <1>1 DEF Receive
  <2> QED BY <1>b, <1>c, <1>d, <2>1, <2>2 DEF TaskDrives, ReqDrives
<1>2. ASSUME NEW s \in Slots, Spawn(s) PROVE Driven(j)' \/ j \in abandoned'
  <2>1. /\ task' = [task EXCEPT ![s] = TaskAt("begin", held, "media")]
        /\ task[s].pc = "idle"
        /\ UNCHANGED <<rows, queue, req, abandoned>>
    BY <1>2 DEF Spawn
  <2>2. held = j => TaskDrives(s, j)'
    BY <1>0, <2>1 DEF TaskDrives, TaskAt, TasksOK
  <2>3. \A t \in Slots : TaskDrives(t, j) => TaskDrives(t, j)'
    BY <1>0, <2>1 DEF TaskDrives, TasksOK
  <2> QED BY <1>b, <1>c, <1>d, <2>1, <2>2, <2>3 DEF InQueue, ReqDrives
<1>3. ASSUME NEW s \in Slots, TaskStep(s) PROVE Driven(j)' \/ j \in abandoned'
  <2>1. \/ Active(j) /\ ~TaskDrives(s, j)
        \/ TaskDrives(s, j)'
        \/ TaskEnqueue(s) /\ task[s].job = j
    BY <1>0, <1>3, TaskActionDrives
  <2>2. /\ UNCHANGED <<held, req, abandoned>>
        /\ queue' = queue \/ TaskEnqueue(s)
        /\ \A t \in Slots : t # s => task'[t] = task[t]
    BY <1>0, <1>3, TaskActionFrame
  <2>3. \A t \in Slots : t # s /\ TaskDrives(t, j) => TaskDrives(t, j)'
    BY <2>2 DEF TaskDrives
  <2>4. InQueue => InQueue'
    BY <1>0, <2>2, AppendEntry DEF InQueue, TaskEnqueue, LoopOK, TaskRefs, At
  <2>5. TaskEnqueue(s) /\ task[s].job = j => InQueue'
    BY <1>0, AppendEntry DEF InQueue, TaskEnqueue, LoopOK
  <2>6. \A c \in Clients : ReqDrives(c, j) => ReqDrives(c, j)'
    BY <2>2 DEF ReqDrives
  <2> QED BY <1>b, <1>c, <2>1, <2>2, <2>3, <2>4, <2>5, <2>6
<1>4. ASSUME NEW s \in Slots, TaskPanics(s) PROVE Driven(j)' \/ j \in abandoned'
  <2>1. /\ task' = [task EXCEPT ![s] = IdleTask]
        /\ abandoned' = abandoned \cup {task[s].job}
        /\ UNCHANGED <<rows, queue, held, req>>
    BY <1>4 DEF TaskPanics, Release
  <2>2. TaskDrives(s, j) => j \in abandoned'
    BY <2>1 DEF TaskDrives
  <2>3. \A t \in Slots : t # s /\ TaskDrives(t, j) => TaskDrives(t, j)'
    BY <1>0, <2>1 DEF TaskDrives, TasksOK
  <2> QED BY <1>b, <1>c, <1>d, <2>1, <2>2, <2>3 DEF InQueue, ReqDrives
<1>5. ASSUME NEW c \in Clients, ReqStep(c) \/ Request(c)
      PROVE  Driven(j)' \/ j \in abandoned'
  <2>1. \/ Active(j) /\ ~ReqDrives(c, j)
        \/ ReqDrives(c, j)'
        \/ ReqEnqueue(c) /\ req[c].job = j
    BY <1>0, <1>5, ReqActionDrives
  <2>2. /\ UNCHANGED <<held, task, abandoned>>
        /\ queue' = queue \/ ReqEnqueue(c)
        /\ \A d \in Clients : d # c => req'[d] = req[d]
    BY <1>0, <1>5, ReqActionFrame
  <2>3. \A d \in Clients : d # c /\ ReqDrives(d, j) => ReqDrives(d, j)'
    BY <2>2 DEF ReqDrives
  <2>4. InQueue => InQueue'
    BY <1>0, <2>2, AppendEntry DEF InQueue, ReqEnqueue, LoopOK, ReqRefs, ReqAt
  <2>5. ReqEnqueue(c) /\ req[c].job = j => InQueue'
    BY <1>0, AppendEntry DEF InQueue, ReqEnqueue, LoopOK
  <2>6. \A t \in Slots : TaskDrives(t, j) => TaskDrives(t, j)'
    BY <2>2 DEF TaskDrives
  <2> QED BY <1>b, <1>c, <2>1, <2>2, <2>3, <2>4, <2>5, <2>6
<1>6. ASSUME NEW c \in Clients, Disconnect(c) PROVE Driven(j)' \/ j \in abandoned'
  <2>1. /\ req' = [req EXCEPT ![c] = IdleReq]
        /\ abandoned' = abandoned \cup (IF req[c].pc \in Owing THEN {req[c].job} ELSE {})
        /\ UNCHANGED <<rows, queue, held, task>>
    BY <1>6 DEF Disconnect
  <2>2. ReqDrives(c, j) => j \in abandoned'
    BY <2>1 DEF ReqDrives
  <2>3. \A d \in Clients : d # c /\ ReqDrives(d, j) => ReqDrives(d, j)'
    BY <1>0, <2>1 DEF ReqDrives, ReqsOK
  <2>4. abandoned \subseteq abandoned'
    BY <2>1
  <2> QED BY <1>b, <1>c, <1>d, <2>1, <2>2, <2>3, <2>4 DEF InQueue, TaskDrives
<1>7. CASE Restart
  BY <1>7, <1>b, RestartStep DEF InQueue
<1>8. CASE UNCHANGED vars
  <2>1. UNCHANGED <<rows, queue, held, task, req, abandoned>>
    BY <1>8 DEF vars, process
  <2> QED BY <1>b, <1>c, <1>d, <2>1 DEF InQueue, TaskDrives, ReqDrives
<1> QED BY <1>1, <1>2, <1>3, <1>4, <1>5, <1>6, <1>7, <1>8 DEF Next

(* No job is lost: while a row says that the job is being worked on, an      *)
(* entry of the queue, the loop, a task or a handler will move it on, unless *)
(* its handler was dropped or its task panicked since the last boot.         *)
THEOREM NoJobIsLost == Spec => []ActiveHasDriver
<1>1. Init => ActiveHasDriver
  BY DEF Init, ActiveHasDriver, Active, ActiveStatus
<1> QED BY <1>1, DriverStep, TypeInvariance, PTL DEF Spec

----------------------------------------------------------------------------
(* Ready means delivered.                                                    *)

(* A task works on the plan it read; that plan may be stale, but a job that  *)
(* has become a page archive stays one, so a task that still takes the job   *)
(* for a page archive is right.  Artifacts of media jobs are never deleted.  *)
PlanKept == \A s \in Slots :
    task[s].pc \notin {"idle", "begin"} /\ task[s].plan = "page" => plan[task[s].job] = "page"
ArchivesPages == \A s \in Slots :
    task[s].pc \in {"archive", "archived"} => task[s].plan = "page"
FulfilledHasMedia == \A s \in Slots :
    task[s].pc = "fulfilled" /\ plan[task[s].job] # "page" => "media" \in art[task[s].job]
ForceMeansPage == \A c \in Clients :
    req[c].pc \in {"force_candidates", "force_artifacts"} => plan[req[c].job] = "page"

OutputInv == /\ ReadyMediaHasArtifact
             /\ PlanKept /\ ArchivesPages /\ FulfilledHasMedia /\ ForceMeansPage

(* What a step may do to the row of a job without disturbing OutputInv.      *)
MediaStays == \A j \in Jobs : Exists(j) =>
    /\ plan[j] = "page" => plan'[j] = "page"
    /\ plan'[j] # "page" /\ "media" \in art[j] => "media" \in art'[j]

(* A task's step does so: ready is written from a fulfilled or archived task.*)
LEMMA TaskActionOutput ==
    ASSUME TypeInv, OutputInv, NEW s \in Slots, TaskStep(s)
    PROVE  /\ MediaStays /\ UNCHANGED plan /\ ReadyMediaHasArtifact'
           /\ task'[s].pc \notin {"idle", "begin"} /\ task'[s].plan = "page" =>
                  plan[task'[s].job] = "page"
           /\ task'[s].pc \in {"archive", "archived"} => task'[s].plan = "page"
           /\ task'[s].pc = "fulfilled" /\ plan[task'[s].job] # "page" =>
                  "media" \in art'[task'[s].job]
<1> USE DispatchAssumption
<1>0. RowsOK /\ TasksOK /\ TaskRefs
  BY TypeParts DEF TypeInv
<1>j. task[s].pc # "idle" => task[s].job \in Jobs
  BY <1>0 DEF TaskRefs
<1>t. task[s] \in TaskRec /\ task[s].job \in Jobs \cup {NoJob}
  BY <1>0 DEF TasksOK, TaskRec
<1>p. plan[task[s].job] # "page" => task[s].plan # "page" \/ task[s].pc \in {"idle", "begin"}
  BY DEF OutputInv, PlanKept
<1>q. task[s].pc \in {"archive", "archived"} => task[s].plan = "page"
  BY DEF OutputInv, ArchivesPages
<1>r. task[s].pc = "fulfilled" /\ plan[task[s].job] # "page" => "media" \in art[task[s].job]
  BY DEF OutputInv, FulfilledHasMedia
<1>m. \A j \in Jobs : status[j] = "ready" /\ plan[j] # "page" => "media" \in art[j]
  BY DEF OutputInv, ReadyMediaHasArtifact
<1> DEFINE
      Row == MediaStays /\ UNCHANGED plan /\ ReadyMediaHasArtifact'
      Own == /\ task'[s].pc \notin {"idle", "begin"} /\ task'[s].plan = "page" =>
                    plan[task'[s].job] = "page"
             /\ task'[s].pc \in {"archive", "archived"} => task'[s].plan = "page"
             /\ task'[s].pc = "fulfilled" /\ plan[task'[s].job] # "page" =>
                    "media" \in art'[task'[s].job]
<1>1. CASE Begin(s)
  <2>1. Row
    BY <1>0, <1>j, <1>m, <1>p, <1>q, <1>r, <1>1 DEF Begin, RowsOK, MediaStays, ReadyMediaHasArtifact, rows
  <2>2. Own
    BY <1>0, <1>j, <1>t, <1>p, <1>q, <1>r, <1>1 DEF Begin, TasksOK, TaskRec, At, rows
  <2> QED BY <2>1, <2>2
<1>2. CASE StartResolve(s)
  <2>1. Row
    BY <1>0, <1>j, <1>m, <1>p, <1>q, <1>r, <1>2 DEF StartResolve, RowsOK, MediaStays, ReadyMediaHasArtifact, SetStatus
  <2>2. Own
    BY <1>0, <1>j, <1>t, <1>p, <1>q, <1>r, <1>2 DEF StartResolve, TasksOK, TaskRec, Goto, At
  <2> QED BY <2>1, <2>2
<1>3. CASE TaskFails(s)
  <2>1. Row
    BY <1>0, <1>j, <1>m, <1>p, <1>q, <1>r, <1>3 DEF TaskFails, RowsOK, MediaStays, ReadyMediaHasArtifact
  <2>2. Own
    BY <1>0, <1>j, <1>t, <1>p, <1>q, <1>r, <1>3 DEF TaskFails, TasksOK, TaskRec, Leave, TaskAt, At
  <2> QED BY <2>1, <2>2
<1>4. CASE ClearArchive(s)
  <2>1. Row
    BY <1>0, <1>j, <1>m, <1>p, <1>q, <1>r, <1>4 DEF ClearArchive, RowsOK, MediaStays, ReadyMediaHasArtifact
  <2>2. Own
    BY <1>0, <1>j, <1>t, <1>p, <1>q, <1>r, <1>4 DEF ClearArchive, TasksOK, TaskRec, Goto, At
  <2> QED BY <2>1, <2>2
<1>5. CASE StoreArchive(s)
  <2>1. Row
    BY <1>0, <1>j, <1>m, <1>p, <1>q, <1>r, <1>5 DEF StoreArchive, RowsOK, MediaStays, ReadyMediaHasArtifact
  <2>2. Own
    BY <1>0, <1>j, <1>t, <1>p, <1>q, <1>r, <1>5 DEF StoreArchive, TasksOK, TaskRec, Goto, At
  <2> QED BY <2>1, <2>2
<1>6. CASE ReplaceCandidates(s)
  <2>1. Row
    BY <1>0, <1>j, <1>m, <1>p, <1>q, <1>r, <1>6 DEF ReplaceCandidates, RowsOK, MediaStays, ReadyMediaHasArtifact
  <2>2. Own
    BY <1>0, <1>j, <1>t, <1>p, <1>q, <1>r, <1>6 DEF ReplaceCandidates, TasksOK, TaskRec, Goto, At
  <2> QED BY <2>1, <2>2
<1>7. CASE AnnounceCandidates(s)
  <2>1. Row
    BY <1>0, <1>j, <1>m, <1>p, <1>q, <1>r, <1>7 DEF AnnounceCandidates, RowsOK, MediaStays, ReadyMediaHasArtifact, SetStatus
  <2>2. Own
    BY <1>0, <1>j, <1>t, <1>p, <1>q, <1>r, <1>7 DEF AnnounceCandidates, TasksOK, TaskRec, Goto, Release, IdleTask, TaskAt, At
  <2> QED BY <2>1, <2>2
<1>8. CASE AutoSelect(s)
  <2>1. Row
    BY <1>0, <1>j, <1>m, <1>p, <1>q, <1>r, <1>8 DEF AutoSelect, RowsOK, MediaStays, ReadyMediaHasArtifact, rows
  <2>2. Own
    BY <1>0, <1>j, <1>t, <1>p, <1>q, <1>r, <1>8 DEF AutoSelect, TasksOK, TaskRec, At, rows
  <2> QED BY <2>1, <2>2
<1>9. CASE NothingRecommended(s)
  <2>1. Row
    BY <1>0, <1>j, <1>m, <1>p, <1>q, <1>r, <1>9 DEF NothingRecommended, RowsOK, MediaStays, ReadyMediaHasArtifact, rows
  <2>2. Own
    BY <1>0, <1>j, <1>t, <1>p, <1>q, <1>r, <1>9 DEF NothingRecommended, TasksOK, TaskRec, Release, IdleTask, TaskAt, rows
  <2> QED BY <2>1, <2>2
<1>10. CASE SetSelected(s)
  <2>1. Row
    BY <1>0, <1>j, <1>m, <1>p, <1>q, <1>r, <1>10 DEF SetSelected, RowsOK, MediaStays, ReadyMediaHasArtifact
  <2>2. Own
    BY <1>0, <1>j, <1>t, <1>p, <1>q, <1>r, <1>10 DEF SetSelected, TasksOK, TaskRec, Goto, At
  <2> QED BY <2>1, <2>2
<1>11. CASE MarkSelected(s)
  <2>1. Row
    BY <1>0, <1>j, <1>m, <1>p, <1>q, <1>r, <1>11 DEF MarkSelected, RowsOK, MediaStays, ReadyMediaHasArtifact, SetStatus
  <2>2. Own
    BY <1>0, <1>j, <1>t, <1>p, <1>q, <1>r, <1>11 DEF MarkSelected, TasksOK, TaskRec, Leave, TaskAt, At
  <2> QED BY <2>1, <2>2
<1>12. CASE TaskEnqueue(s)
  <2>1. Row
    BY <1>0, <1>j, <1>m, <1>p, <1>q, <1>r, <1>12 DEF TaskEnqueue, RowsOK, MediaStays, ReadyMediaHasArtifact, rows
  <2>2. Own
    BY <1>0, <1>j, <1>t, <1>p, <1>q, <1>r, <1>12 DEF TaskEnqueue, TasksOK, TaskRec, Release, IdleTask, TaskAt, rows
  <2> QED BY <2>1, <2>2
<1>13. CASE PlanAttempts(s)
  <2>1. Row
    BY <1>0, <1>j, <1>m, <1>p, <1>q, <1>r, <1>13 DEF PlanAttempts, RowsOK, MediaStays, ReadyMediaHasArtifact, rows
  <2>2. Own
    BY <1>0, <1>j, <1>t, <1>p, <1>q, <1>r, <1>13 DEF PlanAttempts, TasksOK, TaskRec, At, rows
  <2> QED BY <2>1, <2>2
<1>14. CASE Work(s)
  <2>1. Row
    BY <1>0, <1>j, <1>m, <1>p, <1>q, <1>r, <1>14 DEF Work, RowsOK, MediaStays, ReadyMediaHasArtifact, SetStatus
  <2>2. Own
    BY <1>0, <1>j, <1>t, <1>p, <1>q, <1>r, <1>14 DEF Work, TasksOK, TaskRec, Goto, At
  <2> QED BY <2>1, <2>2
<1>15. CASE AttemptSucceeds(s)
  <2>1. Row
    BY <1>0, <1>j, <1>m, <1>p, <1>q, <1>r, <1>15 DEF AttemptSucceeds, RowsOK, MediaStays, ReadyMediaHasArtifact
  <2>2. Own
    BY <1>0, <1>j, <1>t, <1>p, <1>q, <1>r, <1>15 DEF AttemptSucceeds, TasksOK, TaskRec, Leave, TaskAt, At
  <2> QED BY <2>1, <2>2
<1>16. CASE AttemptFails(s)
  <2>1. Row
    BY <1>0, <1>j, <1>m, <1>p, <1>q, <1>r, <1>16 DEF AttemptFails, RowsOK, MediaStays, ReadyMediaHasArtifact, rows
  <2>2. Own
    BY <1>0, <1>j, <1>t, <1>p, <1>q, <1>r, <1>16 DEF AttemptFails, TasksOK, TaskRec, Leave, TaskAt, At, rows
  <2> QED BY <2>1, <2>2
<1>17. CASE CheckOutputs(s)
  <2>1. Row
    BY <1>0, <1>j, <1>m, <1>p, <1>q, <1>r, <1>17 DEF CheckOutputs, RowsOK, MediaStays, ReadyMediaHasArtifact, rows
  <2>2. Own
    BY <1>0, <1>j, <1>t, <1>p, <1>q, <1>r, <1>17 DEF CheckOutputs, TasksOK, TaskRec, Leave, TaskAt, At, Satisfied, rows
  <2> QED BY <2>1, <2>2
<1>18. CASE MarkReady(s)
  <2>1. Row
    BY <1>0, <1>j, <1>m, <1>p, <1>q, <1>r, <1>18 DEF MarkReady, RowsOK, MediaStays, ReadyMediaHasArtifact, SetStatus
  <2>2. Own
    BY <1>0, <1>j, <1>t, <1>p, <1>q, <1>r, <1>18 DEF MarkReady, TasksOK, TaskRec, Release, IdleTask, TaskAt
  <2> QED BY <2>1, <2>2
<1>19. CASE MarkFailed(s)
  <2>1. Row
    BY <1>0, <1>j, <1>m, <1>p, <1>q, <1>r, <1>19 DEF MarkFailed, RowsOK, MediaStays, ReadyMediaHasArtifact, SetStatus
  <2>2. Own
    BY <1>0, <1>j, <1>t, <1>p, <1>q, <1>r, <1>19 DEF MarkFailed, TasksOK, TaskRec, Release, IdleTask, TaskAt
  <2> QED BY <2>1, <2>2
<1> QED
  BY <1>1, <1>2, <1>3, <1>4, <1>5, <1>6, <1>7, <1>8, <1>9, <1>10, <1>11, <1>12, <1>13, <1>14, <1>15, <1>16, <1>17, <1>18, <1>19 DEF TaskStep

(* A handler's step does so: a reset leaves the ready status first.          *)
LEMMA ReqActionOutput ==
    ASSUME TypeInv, OutputInv, NEW c \in Clients, ReqStep(c) \/ Request(c)
    PROVE  /\ MediaStays /\ ReadyMediaHasArtifact'
           /\ req'[c].pc \in {"force_candidates", "force_artifacts"} => plan'[req'[c].job] = "page"
<1> USE DispatchAssumption
<1>0. RowsOK /\ ReqsOK /\ ReqRefs
  BY TypeParts DEF TypeInv
<1>j. req[c].pc # "idle" => req[c].job \in Jobs
  BY <1>0 DEF ReqRefs
<1>f. req[c].pc \in {"force_candidates", "force_artifacts"} => plan[req[c].job] = "page"
  BY DEF OutputInv, ForceMeansPage
<1>m. \A j \in Jobs : status[j] = "ready" /\ plan[j] # "page" => "media" \in art[j]
  BY DEF OutputInv, ReadyMediaHasArtifact
<1> DEFINE
      Row == MediaStays /\ ReadyMediaHasArtifact'
      Own == req'[c].pc \in {"force_candidates", "force_artifacts"} => plan'[req'[c].job] = "page"
<1>1. CASE SelectSet(c)
  <2>1. Row
    BY <1>0, <1>j, <1>f, <1>m, <1>1 DEF SelectSet, RowsOK, MediaStays, ReadyMediaHasArtifact
  <2>2. Own
    BY <1>0, <1>f, <1>1 DEF SelectSet, ReqsOK, ReqRec, ReqGoto, ReqAt
  <2> QED BY <2>1, <2>2
<1>2. CASE SelectMark(c)
  <2>1. Row
    BY <1>0, <1>j, <1>f, <1>m, <1>2 DEF SelectMark, RowsOK, MediaStays, ReadyMediaHasArtifact, SetStatus
  <2>2. Own
    BY <1>0, <1>f, <1>2 DEF SelectMark, ReqsOK, ReqRec, ReqGoto, ReqAt
  <2> QED BY <2>1, <2>2
<1>3. CASE DeleteCandidates(c)
  <2>1. Row
    BY <1>0, <1>j, <1>f, <1>m, <1>3 DEF DeleteCandidates, RowsOK, MediaStays, ReadyMediaHasArtifact
  <2>2. Own
    BY <1>0, <1>f, <1>3 DEF DeleteCandidates, ReqsOK, ReqRec, ReqGoto, ReqAt
  <2> QED BY <2>1, <2>2
<1>4. CASE DeleteArtifacts(c)
  <2>1. Row
    BY <1>0, <1>j, <1>f, <1>m, <1>4 DEF DeleteArtifacts, RowsOK, MediaStays, ReadyMediaHasArtifact, ReqAt
  <2>2. Own
    BY <1>0, <1>f, <1>4 DEF DeleteArtifacts, ReqsOK, ReqRec, ReqGoto, ReqAt
  <2> QED BY <2>1, <2>2
<1>5. CASE ReqEnqueue(c)
  <2>1. Row
    BY <1>0, <1>j, <1>f, <1>m, <1>5 DEF ReqEnqueue, RowsOK, MediaStays, ReadyMediaHasArtifact, rows
  <2>2. Own
    BY <1>0, <1>f, <1>5 DEF ReqEnqueue, ReqsOK, ReqRec, IdleReq, Handler
  <2> QED BY <2>1, <2>2
<1>6. ASSUME NEW k \in Jobs, Submit(c, k) PROVE Row /\ Own
  <2>1. Row
    BY <1>0, <1>m, <1>6 DEF Submit, RowsOK, MediaStays, ReadyMediaHasArtifact, Exists, SetStatus
  <2>2. Own
    BY <1>0, <1>6 DEF Submit, RowsOK, ReqsOK, Accept, Handler
  <2> QED BY <2>1, <2>2
<1>7. ASSUME NEW k \in Jobs, SelectCheck(c, k) PROVE Row /\ Own
  <2>1. Row
    BY <1>0, <1>m, <1>7 DEF SelectCheck, RowsOK, MediaStays, ReadyMediaHasArtifact, rows
  <2>2. Own
    BY <1>0, <1>7 DEF SelectCheck, RowsOK, ReqsOK, Handler
  <2> QED BY <2>1, <2>2
<1>8. ASSUME NEW k \in Jobs, Resume(c, k) PROVE Row /\ Own
  <2>1. Row
    BY <1>0, <1>m, <1>8 DEF Resume, RowsOK, MediaStays, ReadyMediaHasArtifact, SetStatus
  <2>2. Own
    BY <1>0, <1>8 DEF Resume, RowsOK, ReqsOK, Accept, Handler
  <2> QED BY <2>1, <2>2
<1>9. ASSUME NEW k \in Jobs, ForceArchive(c, k) PROVE Row /\ Own
  <2>1. Row
    BY <1>0, <1>m, <1>9 DEF ForceArchive, RowsOK, MediaStays, ReadyMediaHasArtifact, SetStatus
  <2>2. Own
    BY <1>0, <1>9 DEF ForceArchive, RowsOK, ReqsOK, Accept, Handler
  <2> QED BY <2>1, <2>2
<1>10. ASSUME NEW k \in Jobs, AttachProfile(c, k) PROVE Row /\ Own
  <2>1. Row
    BY <1>0, <1>m, <1>10 DEF AttachProfile, RowsOK, MediaStays, ReadyMediaHasArtifact
  <2>2. Own
    BY <1>0, <1>10 DEF AttachProfile, RowsOK, ReqsOK, Opens, ReqAt
  <2> QED BY <2>1, <2>2
<1> QED
  BY <1>1, <1>2, <1>3, <1>4, <1>5, <1>6, <1>7, <1>8, <1>9, <1>10 DEF ReqStep, Request

(* The strengthened invariant is inductive.                                  *)
LEMMA OutputStep == TypeInv /\ OutputInv /\ [Next]_vars => OutputInv'
<1> SUFFICES ASSUME TypeInv, OutputInv, [Next]_vars PROVE OutputInv'
  OBVIOUS
<1>0. RowsOK /\ TasksOK /\ ReqsOK /\ TaskRefs /\ ReqRefs
  BY TypeParts DEF TypeInv
<1>1. CASE Receive
  BY <1>1 DEF Receive, rows, OutputInv, ReadyMediaHasArtifact, PlanKept, ArchivesPages,
              FulfilledHasMedia, ForceMeansPage
<1>2. ASSUME NEW s \in Slots, Spawn(s) \/ TaskPanics(s) PROVE OutputInv'
  <2>1. UNCHANGED <<rows, req>>
    BY <1>2 DEF Spawn, TaskPanics
  <2>2. \A t \in Slots : task'[t] = task[t] \/ task'[t].pc \in {"idle", "begin"}
    BY <1>0, <1>2 DEF Spawn, TaskPanics, Release, IdleTask, TaskAt, TasksOK
  <2> QED
    BY <2>1, <2>2 DEF rows, OutputInv, ReadyMediaHasArtifact, PlanKept, ArchivesPages,
                      FulfilledHasMedia, ForceMeansPage
<1>3. ASSUME NEW s \in Slots, TaskStep(s) PROVE OutputInv'
  <2>1. /\ MediaStays /\ UNCHANGED plan /\ ReadyMediaHasArtifact'
        /\ task'[s].pc \notin {"idle", "begin"} /\ task'[s].plan = "page" =>
               plan[task'[s].job] = "page"
        /\ task'[s].pc \in {"archive", "archived"} => task'[s].plan = "page"
        /\ task'[s].pc = "fulfilled" /\ plan[task'[s].job] # "page" =>
               "media" \in art'[task'[s].job]
    BY <1>3, TaskActionOutput
  <2>2. UNCHANGED req /\ \A t \in Slots : t # s => task'[t] = task[t]
    BY <1>0, <1>3, TaskActionFrame
  <2>3. PlanKept' /\ ArchivesPages' /\ ForceMeansPage'
    BY <2>1, <2>2 DEF OutputInv, PlanKept, ArchivesPages, ForceMeansPage
  <2>4. FulfilledHasMedia'
    BY <1>0, <2>1, <2>2 DEF OutputInv, FulfilledHasMedia, MediaStays, TaskRefs
  <2> QED BY <2>1, <2>3, <2>4 DEF OutputInv
<1>4. ASSUME NEW c \in Clients, ReqStep(c) \/ Request(c) PROVE OutputInv'
  <2>1. /\ MediaStays /\ ReadyMediaHasArtifact'
        /\ req'[c].pc \in {"force_candidates", "force_artifacts"} => plan'[req'[c].job] = "page"
    BY <1>4, ReqActionOutput
  <2>2. UNCHANGED task /\ \A d \in Clients : d # c => req'[d] = req[d]
    BY <1>0, <1>4, TypeParts, ReqActionFrame DEF TypeInv
  <2>m. \A j \in Jobs : Exists(j) =>
            /\ plan[j] = "page" => plan'[j] = "page"
            /\ plan'[j] # "page" /\ "media" \in art[j] => "media" \in art'[j]
    BY <2>1 DEF MediaStays
  <2>r. /\ \A t \in Slots : task[t].pc # "idle" => task[t].job \in Jobs /\ Exists(task[t].job)
        /\ \A d \in Clients : req[d].pc # "idle" => req[d].job \in Jobs /\ Exists(req[d].job)
    BY <1>0 DEF TaskRefs, ReqRefs
  <2>3. PlanKept' /\ ArchivesPages'
    BY <2>m, <2>r, <2>2 DEF OutputInv, PlanKept, ArchivesPages
  <2>4. FulfilledHasMedia'
    <3>1. SUFFICES ASSUME NEW t \in Slots, task[t].pc = "fulfilled", plan'[task[t].job] # "page"
                   PROVE  "media" \in art'[task[t].job]
      BY <2>2 DEF FulfilledHasMedia
    <3>2. plan[task[t].job] # "page"
      BY <2>m, <2>r, <3>1
    <3>3. "media" \in art[task[t].job]
      BY <3>1, <3>2 DEF OutputInv, FulfilledHasMedia
    <3> QED BY <2>m, <2>r, <3>1, <3>3
  <2>5. ForceMeansPage'
    <3>1. SUFFICES ASSUME NEW d \in Clients, req'[d].pc \in {"force_candidates", "force_artifacts"}
                   PROVE  plan'[req'[d].job] = "page"
      BY DEF ForceMeansPage
    <3>2. CASE d = c
      BY <2>1, <3>1, <3>2
    <3>3. CASE d # c
      <4>1. req'[d] = req[d] /\ plan[req[d].job] = "page" /\ req[d].pc # "idle"
        BY <2>2, <3>1, <3>3 DEF OutputInv, ForceMeansPage
      <4> QED BY <2>m, <2>r, <4>1
    <3> QED BY <3>2, <3>3
  <2> QED BY <2>1, <2>3, <2>4, <2>5 DEF OutputInv
<1>5. ASSUME NEW c \in Clients, Disconnect(c) PROVE OutputInv'
  <2>1. UNCHANGED <<rows, task>> /\ req' = [req EXCEPT ![c] = IdleReq]
    BY <1>5 DEF Disconnect
  <2>2. \A d \in Clients : req'[d] = req[d] \/ req'[d].pc = "idle"
    BY <1>0, <2>1 DEF ReqsOK, IdleReq, Handler
  <2> QED
    BY <2>1, <2>2 DEF rows, OutputInv, ReadyMediaHasArtifact, PlanKept, ArchivesPages,
                      FulfilledHasMedia, ForceMeansPage
<1>6. CASE Restart
  <2>1. /\ UNCHANGED <<plan, art>>
        /\ \A j \in Jobs : status'[j] = "ready" => status[j] = "ready"
    BY <1>0, <1>6 DEF Restart, RowsOK
  <2>2. /\ \A s \in Slots : task'[s].pc = "idle"
        /\ \A c \in Clients : req'[c].pc = "idle"
    BY <1>6 DEF Restart, IdleTask, TaskAt, IdleReq, Handler
  <2> QED
    BY <2>1, <2>2 DEF OutputInv, ReadyMediaHasArtifact, PlanKept, ArchivesPages,
                      FulfilledHasMedia, ForceMeansPage
<1>7. CASE UNCHANGED vars
  BY <1>7 DEF vars, rows, process, OutputInv, ReadyMediaHasArtifact, PlanKept, ArchivesPages,
              FulfilledHasMedia, ForceMeansPage
<1> QED BY <1>1, <1>2, <1>3, <1>4, <1>5, <1>6, <1>7 DEF Next

(* A media job is "ready" only while it has an artifact of the kind it asked *)
(* for, whatever dispatches, resets and crashes came before.                 *)
THEOREM ReadyMeansDelivered == Spec => []ReadyMediaHasArtifact
<1>1. Init => OutputInv
  BY DEF Init, OutputInv, ReadyMediaHasArtifact, PlanKept, ArchivesPages, FulfilledHasMedia,
         ForceMeansPage, IdleTask, TaskAt, IdleReq, Handler
<1>2. OutputInv => ReadyMediaHasArtifact
  BY DEF OutputInv
<1> QED BY <1>1, <1>2, OutputStep, TypeInvariance, PTL DEF Spec

----------------------------------------------------------------------------
(* A wedged dispatcher.                                                      *)

(* Once the queue is full, the loop holds an id and every permit is held by  *)
(* a task that waits for room in the queue, no step but a restart changes    *)
(* that, whatever the capacity and the number of permits.                    *)
THEOREM WedgesStay == Spec => WedgeIsPermanent
<1>1. TypeInv /\ [Next]_vars => (Wedged => Wedged' \/ restarts' # restarts)
  <2> SUFFICES ASSUME TypeInv, Wedged, [Next]_vars PROVE Wedged' \/ restarts' # restarts
    OBVIOUS
  <2>0. TasksOK /\ ReqsOK /\ CountsOK
    BY TypeParts DEF TypeInv
  <2>a. /\ held # NoJob /\ ~(Len(queue) < cap)
        /\ \A s \in Slots : task[s].pc = "enqueue"
    <3>1. Len(queue) \in Nat /\ cap \in Nat
      BY TypeParts, LenProperties DEF TypeInv, LoopOK
    <3> QED BY <3>1 DEF Wedged, At
  <2>b. ASSUME UNCHANGED <<held, queue, cap, task>> PROVE Wedged'
    BY <2>b DEF Wedged, At
  <2>1. ~Receive
    BY <2>a DEF Receive
  <2>2. ASSUME NEW s \in Slots PROVE ~Spawn(s) /\ ~TaskStep(s) /\ ~TaskPanics(s)
    BY <2>a DEF Spawn, TaskPanics, TaskStep, Begin, StartResolve, TaskFails, ClearArchive,
       StoreArchive, ReplaceCandidates, AnnounceCandidates, AutoSelect, NothingRecommended,
       SetSelected, MarkSelected, TaskEnqueue, PlanAttempts, Work, AttemptSucceeds,
       AttemptFails, CheckOutputs, MarkReady, MarkFailed, At
  <2>3. ASSUME NEW c \in Clients, ReqStep(c) \/ Request(c) PROVE Wedged'
    <3>1. UNCHANGED <<cap, held, task>> /\ (queue' = queue \/ ReqEnqueue(c))
      BY <2>0, <2>3, ReqActionFrame
    <3>2. ~ReqEnqueue(c)
      BY <2>a DEF ReqEnqueue
    <3> QED BY <3>1, <3>2, <2>b
  <2>4. ASSUME NEW c \in Clients, Disconnect(c) PROVE Wedged'
    BY <2>4, <2>b DEF Disconnect
  <2>5. CASE Restart
    BY <2>5, <2>0, DispatchAssumption DEF Restart, CountsOK
  <2>6. CASE UNCHANGED vars
    BY <2>6, <2>b DEF vars, process
  <2> QED BY <2>1, <2>2, <2>3, <2>4, <2>5, <2>6 DEF Next
<1> QED BY <1>1, TypeInvariance, PTL DEF Spec, WedgeIsPermanent

----------------------------------------------------------------------------
(* The dispatcher implements the abstract lifecycle, step by step.           *)

(* What a step of a task does to the rows and to itself: it writes the row   *)
(* of its own job only, and goes on with that job or gives its permit back.  *)
LEMMA TaskActionRow ==
    ASSUME RowsOK, TasksOK, TaskRefs, NEW s \in Slots, TaskStep(s)
    PROVE  /\ task[s].pc # "idle"
           /\ UNCHANGED plan
           /\ \A k \in Jobs : k # task[s].job =>
                  /\ status'[k] = status[k] /\ art'[k] = art[k]
                  /\ gen'[k] = gen[k] /\ selected'[k] = selected[k]
           /\ \/ task'[s] = IdleTask
              \/ task'[s].job = task[s].job /\ task'[s].pc # "idle"
<1>t. task[s] \in TaskRec
  BY DEF TasksOK
<1>1. CASE Begin(s)
  BY <1>t, <1>1 DEF Begin, At, RowsOK, TasksOK, TaskRec, Goto, Leave, Release, TaskAt, SetStatus, rows
<1>2. CASE StartResolve(s)
  BY <1>t, <1>2 DEF StartResolve, At, RowsOK, TasksOK, TaskRec, Goto, Leave, Release, TaskAt, SetStatus, rows
<1>3. CASE TaskFails(s)
  BY <1>t, <1>3 DEF TaskFails, At, RowsOK, TasksOK, TaskRec, Goto, Leave, Release, TaskAt, SetStatus, rows
<1>4. CASE ClearArchive(s)
  BY <1>t, <1>4 DEF ClearArchive, At, RowsOK, TasksOK, TaskRec, Goto, Leave, Release, TaskAt, SetStatus, rows
<1>5. CASE StoreArchive(s)
  BY <1>t, <1>5 DEF StoreArchive, At, RowsOK, TasksOK, TaskRec, Goto, Leave, Release, TaskAt, SetStatus, rows
<1>6. CASE ReplaceCandidates(s)
  BY <1>t, <1>6 DEF ReplaceCandidates, At, RowsOK, TasksOK, TaskRec, Goto, Leave, Release, TaskAt, SetStatus, rows
<1>7. CASE AnnounceCandidates(s)
  BY <1>t, <1>7 DEF AnnounceCandidates, At, RowsOK, TasksOK, TaskRec, Goto, Leave, Release, TaskAt, SetStatus, rows
<1>8. CASE AutoSelect(s)
  BY <1>t, <1>8 DEF AutoSelect, At, RowsOK, TasksOK, TaskRec, Goto, Leave, Release, TaskAt, SetStatus, rows
<1>9. CASE NothingRecommended(s)
  BY <1>t, <1>9 DEF NothingRecommended, At, RowsOK, TasksOK, TaskRec, Goto, Leave, Release, TaskAt, SetStatus, rows
<1>10. CASE SetSelected(s)
  BY <1>t, <1>10 DEF SetSelected, At, RowsOK, TasksOK, TaskRec, Goto, Leave, Release, TaskAt, SetStatus, rows
<1>11. CASE MarkSelected(s)
  BY <1>t, <1>11 DEF MarkSelected, At, RowsOK, TasksOK, TaskRec, Goto, Leave, Release, TaskAt, SetStatus, rows
<1>12. CASE TaskEnqueue(s)
  BY <1>t, <1>12 DEF TaskEnqueue, At, RowsOK, TasksOK, TaskRec, Goto, Leave, Release, TaskAt, SetStatus, rows
<1>13. CASE PlanAttempts(s)
  BY <1>t, <1>13 DEF PlanAttempts, At, RowsOK, TasksOK, TaskRec, Goto, Leave, Release, TaskAt, SetStatus, rows
<1>14. CASE Work(s)
  BY <1>t, <1>14 DEF Work, At, RowsOK, TasksOK, TaskRec, Goto, Leave, Release, TaskAt, SetStatus, rows
<1>15. CASE AttemptSucceeds(s)
  BY <1>t, <1>15 DEF AttemptSucceeds, At, RowsOK, TasksOK, TaskRec, Goto, Leave, Release, TaskAt, SetStatus, rows
<1>16. CASE AttemptFails(s)
  BY <1>t, <1>16 DEF AttemptFails, At, RowsOK, TasksOK, TaskRec, Goto, Leave, Release, TaskAt, SetStatus, rows
<1>17. CASE CheckOutputs(s)
  BY <1>t, <1>17 DEF CheckOutputs, At, RowsOK, TasksOK, TaskRec, Goto, Leave, Release, TaskAt, SetStatus, rows
<1>18. CASE MarkReady(s)
  BY <1>t, <1>18 DEF MarkReady, At, RowsOK, TasksOK, TaskRec, Goto, Leave, Release, TaskAt, SetStatus, rows
<1>19. CASE MarkFailed(s)
  BY <1>t, <1>19 DEF MarkFailed, At, RowsOK, TasksOK, TaskRec, Goto, Leave, Release, TaskAt, SetStatus, rows
<1> QED
  BY <1>1, <1>2, <1>3, <1>4, <1>5, <1>6, <1>7, <1>8, <1>9, <1>10, <1>11, <1>12, <1>13, <1>14, <1>15, <1>16, <1>17, <1>18, <1>19 DEF TaskStep

(* A handler's step writes the row of one job and works for that job only;   *)
(* when it is not the one that moves the job on, it leaves the status alone. *)
LEMMA ReqActionRow ==
    ASSUME RowsOK, ReqsOK, ReqRefs, NEW c \in Clients, ReqStep(c) \/ Request(c)
    PROVE  /\ req'[c].pc = "idle" => req'[c] = IdleReq \/ req'[c] = req[c]
           /\ \E j \in Jobs :
                 /\ \A k \in Jobs : k # j => /\ status'[k] = status[k]
                                             /\ ~ReqDrives(c, k) /\ ~ReqDrives(c, k)'
                 /\ \/ ReqDrives(c, j) \/ ReqDrives(c, j)'
                    \/ UNCHANGED status
                 /\ ReqEnqueue(c) => req[c].job = j
<1> USE DEF ReqDrives, Owing
<1> DEFINE Own == req'[c].pc = "idle" => req'[c] = IdleReq \/ req'[c] = req[c]
           For(j) == /\ \A k \in Jobs : k # j => /\ status'[k] = status[k]
                                                 /\ ~ReqDrives(c, k) /\ ~ReqDrives(c, k)'
                     /\ \/ ReqDrives(c, j) \/ ReqDrives(c, j)'
                        \/ UNCHANGED status
                     /\ ReqEnqueue(c) => req[c].job = j
<1> SUFFICES \E j \in Jobs : Own /\ For(j)
  OBVIOUS
<1>0. req[c].pc # "idle" => req[c].job \in Jobs
  BY DEF ReqRefs
<1>1. CASE SelectSet(c)
  <2>1. PICK j \in Jobs : j = req[c].job
    BY <1>0, <1>1 DEF SelectSet, ReqAt
  <2>2. Own /\ For(j)
    BY <2>1, <1>1 DEF SelectSet, ReqAt, RowsOK, ReqsOK, ReqRec, ReqGoto, SetStatus, rows
  <2> HIDE DEF Own, For
  <2> QED BY <2>1, <2>2
<1>2. CASE SelectMark(c)
  <2>1. PICK j \in Jobs : j = req[c].job
    BY <1>0, <1>2 DEF SelectMark, ReqAt
  <2>2. Own /\ For(j)
    BY <2>1, <1>2 DEF SelectMark, ReqAt, RowsOK, ReqsOK, ReqRec, ReqGoto, SetStatus, rows
  <2> HIDE DEF Own, For
  <2> QED BY <2>1, <2>2
<1>3. CASE DeleteCandidates(c)
  <2>1. PICK j \in Jobs : j = req[c].job
    BY <1>0, <1>3 DEF DeleteCandidates, ReqAt
  <2>2. Own /\ For(j)
    BY <2>1, <1>3 DEF DeleteCandidates, ReqAt, RowsOK, ReqsOK, ReqRec, ReqGoto, SetStatus, rows
  <2> HIDE DEF Own, For
  <2> QED BY <2>1, <2>2
<1>4. CASE DeleteArtifacts(c)
  <2>1. PICK j \in Jobs : j = req[c].job
    BY <1>0, <1>4 DEF DeleteArtifacts, ReqAt
  <2>2. Own /\ For(j)
    BY <2>1, <1>4 DEF DeleteArtifacts, ReqAt, RowsOK, ReqsOK, ReqRec, ReqGoto, SetStatus, rows
  <2> HIDE DEF Own, For
  <2> QED BY <2>1, <2>2
<1>5. CASE ReqEnqueue(c)
  <2>1. PICK j \in Jobs : j = req[c].job
    BY <1>0, <1>5 DEF ReqEnqueue, ReqAt
  <2>2. Own /\ For(j)
    BY <2>1, <1>5 DEF ReqEnqueue, ReqAt, RowsOK, ReqsOK, IdleReq, Handler, rows
  <2> HIDE DEF Own, For
  <2> QED BY <2>1, <2>2
<1>6. ASSUME NEW j \in Jobs, Submit(c, j) PROVE Own /\ For(j)
  BY <1>6 DEF Submit, Opens, ReqAt, Accept, Handler, RowsOK, ReqsOK, ReqRec, SetStatus, ReqEnqueue, rows
<1>7. ASSUME NEW j \in Jobs, SelectCheck(c, j) PROVE Own /\ For(j)
  BY <1>7 DEF SelectCheck, Opens, ReqAt, Accept, Handler, RowsOK, ReqsOK, ReqRec, SetStatus, ReqEnqueue, rows
<1>8. ASSUME NEW j \in Jobs, Resume(c, j) PROVE Own /\ For(j)
  BY <1>8 DEF Resume, Opens, ReqAt, Accept, Handler, RowsOK, ReqsOK, ReqRec, SetStatus, ReqEnqueue, rows
<1>9. ASSUME NEW j \in Jobs, ForceArchive(c, j) PROVE Own /\ For(j)
  BY <1>9 DEF ForceArchive, Opens, ReqAt, Accept, Handler, RowsOK, ReqsOK, ReqRec, SetStatus, ReqEnqueue, rows
<1>10. ASSUME NEW j \in Jobs, AttachProfile(c, j) PROVE Own /\ For(j)
  BY <1>10 DEF AttachProfile, Opens, ReqAt, Accept, Handler, RowsOK, ReqsOK, ReqRec, SetStatus, ReqEnqueue, rows
<1> HIDE DEF Own, For
<1> QED
  BY <1>1, <1>2, <1>3, <1>4, <1>5, <1>6, <1>7, <1>8, <1>9, <1>10 DEF ReqStep, Request

(* A free permit and a free handler hold no job.                             *)
IdleHoldsNothing == /\ \A s \in Slots : task[s].pc = "idle" => task[s].job = NoJob
                    /\ \A c \in Clients : req[c].pc = "idle" => req[c].job = NoJob

(* Whatever gives a permit or a handler back clears it.                      *)
LEMMA IdleStep == TypeInv /\ IdleHoldsNothing /\ [Next]_vars => IdleHoldsNothing'
<1> SUFFICES ASSUME TypeInv, IdleHoldsNothing, [Next]_vars PROVE IdleHoldsNothing'
  OBVIOUS
<1>0. RowsOK /\ TasksOK /\ ReqsOK /\ CountsOK /\ TaskRefs /\ ReqRefs
  BY TypeParts DEF TypeInv
<1> USE DEF IdleHoldsNothing, IdleTask, TaskAt, IdleReq, Handler
<1>1. CASE Receive
  BY <1>1 DEF Receive
<1>2. ASSUME NEW s \in Slots, Spawn(s) PROVE IdleHoldsNothing'
  BY <1>0, <1>2 DEF Spawn, TasksOK
<1>3. ASSUME NEW s \in Slots, TaskStep(s) PROVE IdleHoldsNothing'
  <2>1. task'[s].pc = "idle" => task'[s].job = NoJob
    BY <1>0, <1>3, TaskActionRow
  <2>2. UNCHANGED req /\ \A t \in Slots : t # s => task'[t] = task[t]
    BY <1>0, <1>3, TaskActionFrame
  <2> QED BY <2>1, <2>2
<1>4. ASSUME NEW s \in Slots, TaskPanics(s) PROVE IdleHoldsNothing'
  BY <1>0, <1>4 DEF TaskPanics, Release, TasksOK
<1>5. ASSUME NEW c \in Clients, ReqStep(c) \/ Request(c) PROVE IdleHoldsNothing'
  <2>1. req'[c].pc = "idle" => req'[c] = IdleReq \/ req'[c] = req[c]
    BY <1>0, <1>5, ReqActionRow
  <2>2. UNCHANGED task /\ \A d \in Clients : d # c => req'[d] = req[d]
    BY <1>0, <1>5, ReqActionFrame
  <2> QED BY <2>1, <2>2
<1>6. ASSUME NEW c \in Clients, Disconnect(c) PROVE IdleHoldsNothing'
  BY <1>0, <1>6 DEF Disconnect, ReqsOK
<1>7. CASE Restart
  BY <1>7 DEF Restart
<1>8. CASE UNCHANGED vars
  BY <1>8 DEF vars, process
<1> QED BY <1>1, <1>2, <1>3, <1>4, <1>5, <1>6, <1>7, <1>8 DEF Next

(* In every reachable state.                                                 *)
LEMMA IdleInvariance == Spec => []IdleHoldsNothing
<1>1. Init => IdleHoldsNothing
  BY DEF Init, IdleHoldsNothing, IdleTask, TaskAt, IdleReq, Handler
<1> QED BY <1>1, IdleStep, TypeInvariance, PTL DEF Spec

(* What moves a job on, or may still do so: an entry, the loop, a handler    *)
(* that owes an entry, or any task of the job.                               *)
HasWork(j) == Driven(j) \/ \E s \in Slots : task[s].job = j

(* The same, without the set of entries.                                     *)
LEMMA WorkParts ==
    ASSUME NEW j \in Jobs
    PROVE  HasWork(j) <=> \/ \E i \in DOMAIN queue : queue[i] = j
                          \/ held = j
                          \/ \E s \in Slots : task[s].job = j
                          \/ \E c \in Clients : ReqDrives(c, j)
BY DEF HasWork, Driven, Tickets, TaskDrives

(* What the phase of a job is read off.                                      *)
PhaseInv == TypeInv /\ IdleHoldsNothing /\ ActiveHasDriver

(* The phase of a job, by its row and the work there is for it.              *)
PhaseFits == \A j \in Jobs :
    /\ Phase[j] = IF ~Exists(j) THEN "none"
                  ELSE IF HasWork(j) THEN "pending"
                  ELSE IF Active(j) THEN "lost" ELSE "settled"
    /\ HasWork(j) => Exists(j)

(* No phase is "forgotten", and a row that is not there has no work.         *)
LEMMA PhaseOf == PhaseInv => PhaseFits
<1> SUFFICES ASSUME PhaseInv, NEW j \in Jobs
             PROVE  /\ Phase[j] = IF ~Exists(j) THEN "none"
                                  ELSE IF HasWork(j) THEN "pending"
                                  ELSE IF Active(j) THEN "lost" ELSE "settled"
                    /\ HasWork(j) => Exists(j)
  BY DEF PhaseFits
<1>0. QueueRefs /\ TaskRefs /\ ReqRefs
  BY TypeParts DEF PhaseInv, TypeInv
<1>1. ASSUME HasWork(j) PROVE Exists(j)
  <2>1. CASE \E i \in DOMAIN queue : queue[i] = j
    BY <1>0, <2>1 DEF QueueRefs
  <2>2. CASE held = j
    BY <1>0, <2>2, DispatchAssumption DEF QueueRefs
  <2>3. ASSUME NEW s \in Slots, task[s].job = j PROVE Exists(j)
    BY <1>0, <2>3, DispatchAssumption DEF TaskRefs, PhaseInv, IdleHoldsNothing
  <2>4. ASSUME NEW c \in Clients, ReqDrives(c, j) PROVE Exists(j)
    BY <1>0, <2>4 DEF ReqRefs, ReqDrives, Owing
  <2> QED BY <1>1, <2>1, <2>2, <2>3, <2>4, WorkParts
<1>2. ~HasWork(j) /\ Active(j) => j \in abandoned
  BY DEF PhaseInv, ActiveHasDriver, HasWork
<1> QED BY <1>1, <1>2 DEF Phase, HasWork

(* A step that turns to one job, which has work before or after it or keeps  *)
(* its phase, and that makes no row disappear, is one the lifecycle allows.  *)
LEMMA PhaseMove ==
    ASSUME PhaseInv, PhaseInv', RowsStay, NEW j \in Jobs,
           HasWork(j) \/ HasWork(j)' \/ Phase'[j] = Phase[j],
           \A k \in Jobs : k # j => Phase'[k] = Phase[k]
    PROVE  [Lifecycle!LifecycleNext]_Phase
<1>n. PhaseFits /\ PhaseFits'
  BY PhaseOf, PTL
<1>1. Phase = [k \in Jobs |-> Phase[k]] /\ Phase' = [k \in Jobs |-> Phase'[k]]
  BY DEF Phase
<1>2. Phase' = [Phase EXCEPT ![j] = Phase'[j]]
  BY <1>1
<1>3. CASE Phase'[j] = Phase[j]
  BY <1>1, <1>2, <1>3
<1>4. CASE HasWork(j)
  <2>1. Phase[j] = "pending" /\ Exists(j)
    BY <1>4, <1>n DEF PhaseFits
  <2>2. Exists(j)'
    BY <2>1 DEF RowsStay
  <2>3. Phase'[j] \in {"pending", "lost", "settled"}
    BY <1>n, <2>2 DEF PhaseFits
  <2> QED BY <1>2, <1>3, <2>1, <2>3 DEF Lifecycle!LifecycleNext, Lifecycle!Settle, Lifecycle!Lose, Lifecycle!Move
<1>5. CASE HasWork(j)'
  <2>1. Phase'[j] = "pending"
    BY <1>n, <1>5 DEF PhaseFits
  <2>2. Phase[j] \in {"none", "pending", "lost", "settled"}
    BY <1>n DEF PhaseFits
  <2> QED BY <1>2, <1>3, <2>1, <2>2 DEF Lifecycle!LifecycleNext, Lifecycle!Submit, Lifecycle!Reopen, Lifecycle!Move
<1> QED BY <1>3, <1>4, <1>5

(* The phase of a job that a step does not turn to.                          *)
LEMMA PhaseSame ==
    ASSUME NEW k \in Jobs, HasWork(k)' <=> HasWork(k),
           status'[k] = status[k], k \in abandoned' <=> k \in abandoned
    PROVE  Phase'[k] = Phase[k]
BY DEF Phase, HasWork, Exists, Active

(* Every step of the dispatcher is a step of the lifecycle or leaves every   *)
(* phase as it is.                                                           *)
LEMMA LifecycleStep ==
    ASSUME PhaseInv, PhaseInv', [Next]_vars
    PROVE  [Lifecycle!LifecycleNext]_Phase
<1>0. /\ RowsOK /\ TasksOK /\ LoopOK /\ ReqsOK /\ CountsOK /\ QueueRefs /\ TaskRefs /\ ReqRefs
      /\ IdleHoldsNothing
  BY TypeParts DEF PhaseInv, TypeInv
<1> DEFINE InQueue(j) == \E i \in DOMAIN queue : queue[i] = j
<1>w. \A j \in Jobs : HasWork(j) <=> \/ InQueue(j) \/ held = j
                                     \/ \E s \in Slots : task[s].job = j
                                     \/ \E c \in Clients : ReqDrives(c, j)
  BY WorkParts
<1>v. \A j \in Jobs : HasWork(j)' <=> \/ InQueue(j)' \/ held' = j
                                      \/ \E s \in Slots : task'[s].job = j
                                      \/ \E c \in Clients : ReqDrives(c, j)'
  BY DEF HasWork, Driven, Tickets, TaskDrives
<1>f. ASSUME \A j \in Jobs : HasWork(j)' <=> HasWork(j), UNCHANGED <<status, abandoned>>
      PROVE  [Lifecycle!LifecycleNext]_Phase
  <2>1. \A j \in Jobs : Phase'[j] = Phase[j]
    BY <1>f, PhaseSame
  <2> QED BY <2>1 DEF Phase
<1> HIDE DEF InQueue
<1>1. CASE Receive
  <2>1. /\ 1 \in DOMAIN queue /\ held' = queue[1]
        /\ \A i \in DOMAIN queue' : i + 1 \in DOMAIN queue /\ queue'[i] = queue[i + 1]
        /\ \A i \in DOMAIN queue : i = 1 \/ (i - 1 \in DOMAIN queue' /\ queue'[i - 1] = queue[i])
    BY <1>0, <1>1, TakenEntry DEF Receive, LoopOK
  <2>2. held = NoJob /\ UNCHANGED <<rows, task, req, abandoned>>
    BY <1>1 DEF Receive
  <2>3. \A j \in Jobs : InQueue(j) <=> InQueue(j)' \/ held' = j
    BY <2>1 DEF InQueue
  <2>4. \A j \in Jobs : HasWork(j)' <=> HasWork(j)
    BY <1>v, <1>w, <2>2, <2>3, DispatchAssumption DEF ReqDrives
  <2> QED BY <1>f, <2>2, <2>4 DEF rows
<1>2. ASSUME NEW s \in Slots, Spawn(s) PROVE [Lifecycle!LifecycleNext]_Phase
  <2>1. /\ held # NoJob /\ held' = NoJob
        /\ task' = [task EXCEPT ![s] = TaskAt("begin", held, "media")]
        /\ task[s].job = NoJob
        /\ UNCHANGED <<rows, queue, req, abandoned>>
    BY <1>0, <1>2 DEF Spawn, IdleHoldsNothing
  <2>2. \A j \in Jobs : (\E t \in Slots : task'[t].job = j)
                            <=> (\E t \in Slots : task[t].job = j) \/ held = j
    BY <1>0, <2>1, DispatchAssumption DEF TasksOK, TaskAt
  <2>3. \A j \in Jobs : HasWork(j)' <=> HasWork(j)
    BY <1>v, <1>w, <2>1, <2>2, DispatchAssumption DEF ReqDrives, InQueue
  <2> QED BY <1>f, <2>1, <2>3 DEF rows
<1>3. ASSUME NEW s \in Slots, TaskStep(s) PROVE [Lifecycle!LifecycleNext]_Phase
  <2> DEFINE j == task[s].job
  <2>1. /\ task[s].pc # "idle"
        /\ \A k \in Jobs : k # j => status'[k] = status[k]
        /\ task'[s] = IdleTask \/ task'[s].job = j
    BY <1>0, <1>3, TaskActionRow
  <2>2. /\ UNCHANGED <<held, req, abandoned>>
        /\ queue' = queue \/ TaskEnqueue(s)
        /\ \A t \in Slots : t # s => task'[t] = task[t]
    BY <1>0, <1>3, TaskActionFrame
  <2>3. j \in Jobs /\ HasWork(j)
    BY <1>0, <2>1 DEF TaskRefs, HasWork
  <2>4. \A k \in Jobs : k # j => (InQueue(k)' <=> InQueue(k))
    BY <1>0, <2>2, <2>3, AppendEntry DEF InQueue, TaskEnqueue, LoopOK
  <2>5. \A k \in Jobs : k # j => ((\E t \in Slots : task'[t].job = k)
                                      <=> (\E t \in Slots : task[t].job = k))
    BY <2>1, <2>2, DispatchAssumption DEF IdleTask, TaskAt
  <2>6. \A k \in Jobs : k # j => (HasWork(k)' <=> HasWork(k))
    BY <1>v, <1>w, <2>2, <2>4, <2>5 DEF ReqDrives
  <2>7. \A k \in Jobs : k # j => Phase'[k] = Phase[k]
    BY <2>1, <2>2, <2>6, PhaseSame
  <2>8. RowsStay
    BY <1>0, <1>3, TaskActionStep
  <2> QED BY <2>3, <2>7, <2>8, PhaseMove
<1>4. ASSUME NEW s \in Slots, TaskPanics(s) PROVE [Lifecycle!LifecycleNext]_Phase
  <2> DEFINE j == task[s].job
  <2>1. /\ task' = [task EXCEPT ![s] = IdleTask]
        /\ abandoned' = abandoned \cup {j}
        /\ task[s].pc # "idle"
        /\ UNCHANGED <<rows, queue, held, req>>
    BY <1>4 DEF TaskPanics, Release
  <2>3. j \in Jobs /\ HasWork(j)
    BY <1>0, <2>1 DEF TaskRefs, HasWork
  <2>5. \A k \in Jobs : k # j => ((\E t \in Slots : task'[t].job = k)
                                      <=> (\E t \in Slots : task[t].job = k))
    BY <1>0, <2>1, DispatchAssumption DEF IdleTask, TaskAt, TasksOK
  <2>6. \A k \in Jobs : k # j => (HasWork(k)' <=> HasWork(k))
    BY <1>v, <1>w, <2>1, <2>5 DEF ReqDrives, InQueue
  <2>7. \A k \in Jobs : k # j => Phase'[k] = Phase[k]
    BY <2>1, <2>6, PhaseSame DEF rows
  <2>8. RowsStay
    BY <2>1 DEF rows, RowsStay, Exists
  <2> QED BY <2>3, <2>7, <2>8, PhaseMove
<1>5. ASSUME NEW c \in Clients, ReqStep(c) \/ Request(c) PROVE [Lifecycle!LifecycleNext]_Phase
  <2>1. PICK j \in Jobs : /\ \A k \in Jobs : k # j => /\ status'[k] = status[k]
                                                      /\ ~ReqDrives(c, k) /\ ~ReqDrives(c, k)'
                          /\ \/ ReqDrives(c, j) \/ ReqDrives(c, j)'
                             \/ UNCHANGED status
                          /\ ReqEnqueue(c) => req[c].job = j
    BY <1>0, <1>5, ReqActionRow
  <2>2. /\ UNCHANGED <<held, task, abandoned>>
        /\ queue' = queue \/ ReqEnqueue(c)
        /\ \A d \in Clients : d # c => req'[d] = req[d]
    BY <1>0, <1>5, ReqActionFrame
  <2>3. ReqEnqueue(c) => ReqDrives(c, j)
    BY <2>1 DEF ReqEnqueue, ReqAt, ReqDrives, Owing
  <2>4. \A k \in Jobs : k # j => (InQueue(k)' <=> InQueue(k))
    BY <1>0, <2>1, <2>2, AppendEntry DEF InQueue, ReqEnqueue, LoopOK
  <2>5. \A d \in Clients, k \in Jobs : d # c => (ReqDrives(d, k)' <=> ReqDrives(d, k))
    BY <2>2 DEF ReqDrives
  <2>6. \A k \in Jobs : k # j => (HasWork(k)' <=> HasWork(k))
    BY <1>v, <1>w, <2>1, <2>2, <2>4, <2>5
  <2>7. \A k \in Jobs : k # j => Phase'[k] = Phase[k]
    BY <2>1, <2>2, <2>6, PhaseSame
  <2>8. RowsStay
    BY <1>0, <1>5, ReqActionStep
  <2>9. HasWork(j) \/ HasWork(j)' \/ Phase'[j] = Phase[j]
    <3>1. CASE ReqDrives(c, j) \/ ReqDrives(c, j)'
      BY <1>v, <1>w, <3>1
    <3>2. CASE ~ReqDrives(c, j) /\ ~ReqDrives(c, j)'
      <4>1. UNCHANGED <<status, queue>>
        BY <2>1, <2>2, <2>3, <3>2
      <4>2. HasWork(j)' <=> HasWork(j)
        BY <1>v, <1>w, <2>2, <2>5, <3>2, <4>1 DEF InQueue
      <4> QED BY <2>2, <4>1, <4>2, PhaseSame
    <3> QED BY <3>1, <3>2
  <2> QED BY <2>7, <2>8, <2>9, PhaseMove
<1>6. ASSUME NEW c \in Clients, Disconnect(c) PROVE [Lifecycle!LifecycleNext]_Phase
  <2> DEFINE j == req[c].job
  <2>1. /\ req' = [req EXCEPT ![c] = IdleReq]
        /\ abandoned' = abandoned \cup (IF req[c].pc \in Owing THEN {j} ELSE {})
        /\ req[c].pc # "idle"
        /\ UNCHANGED <<rows, queue, held, task>>
    BY <1>6 DEF Disconnect, ReqAt
  <2>2. /\ \A d \in Clients, k \in Jobs : d # c => (ReqDrives(d, k)' <=> ReqDrives(d, k))
        /\ \A k \in Jobs : ~ReqDrives(c, k)'
    BY <1>0, <2>1 DEF ReqDrives, ReqsOK, IdleReq, Handler, Owing
  <2>3. \A k \in Jobs : ~ReqDrives(c, k) => (HasWork(k)' <=> HasWork(k))
    BY <1>v, <1>w, <2>1, <2>2 DEF InQueue
  <2>4. \A k \in Jobs : ~ReqDrives(c, k) => (k \in abandoned' <=> k \in abandoned)
    BY <2>1 DEF ReqDrives
  <2>5. \A k \in Jobs : ~ReqDrives(c, k) => Phase'[k] = Phase[k]
    BY <2>1, <2>3, <2>4, PhaseSame DEF rows
  <2>6. j \in Jobs
    BY <1>0, <2>1 DEF ReqRefs
  <2>7. \A k \in Jobs : k # j => Phase'[k] = Phase[k]
    BY <2>5 DEF ReqDrives
  <2>8. HasWork(j) \/ Phase'[j] = Phase[j]
    BY <1>w, <2>5, <2>6
  <2>9. RowsStay
    BY <2>1 DEF rows, RowsStay, Exists
  <2> QED BY <2>6, <2>7, <2>8, <2>9, PhaseMove
<1>7. CASE Restart
  <2>1. \A j \in Jobs : InQueue(j)' <=> Active(j)
    <3>1. PICK q \in [1..Cardinality(Pending) -> Pending] :
              /\ \A j \in Pending : \E i \in DOMAIN q : q[i] = j
              /\ queue' = q
      BY <1>7 DEF Restart
    <3>2. \A j \in Jobs : Active(j) <=> j \in Pending
      BY DEF Pending, Active
    <3>3. \A j \in Jobs : (\E i \in DOMAIN q : q[i] = j) <=> j \in Pending
      BY <3>1
    <3> QED BY <3>1, <3>2, <3>3 DEF InQueue
  <2>2. /\ held' = NoJob
        /\ \A s \in Slots : task'[s].job = NoJob
        /\ \A c \in Clients : req'[c].pc = "idle"
    BY <1>7 DEF Restart, IdleTask, TaskAt, IdleReq, Handler
  <2>3. \A j \in Jobs : HasWork(j)' <=> Active(j)
    BY <1>v, <2>1, <2>2, DispatchAssumption DEF ReqDrives, Owing
  <2>4. \A j \in Jobs : (Active(j)' <=> Active(j)) /\ (Exists(j)' <=> Exists(j))
    BY <1>0, <1>7 DEF Restart, RowsOK, Pending, Active, ActiveStatus, Exists
  <2>5. \A j \in Jobs : Phase[j] = IF ~Exists(j) THEN "none"
                                   ELSE IF HasWork(j) THEN "pending"
                                   ELSE IF Active(j) THEN "lost" ELSE "settled"
    BY PhaseOf DEF PhaseFits
  <2>6. \A j \in Jobs : Active(j) => Exists(j)
    BY DEF Active, ActiveStatus, Exists
  <2>7. \A j \in Jobs : Phase'[j] = IF ~Exists(j) THEN "none"
                                    ELSE IF Active(j) THEN "pending" ELSE "settled"
    <3>1. \A j \in Jobs : Phase'[j] = IF ~Exists(j)' THEN "none"
                                      ELSE IF HasWork(j)' THEN "pending"
                                      ELSE IF ~Active(j)' THEN "settled"
                                      ELSE IF j \in abandoned' THEN "lost"
                                      ELSE "forgotten"
      BY DEF Phase, HasWork
    <3> QED BY <3>1, <2>3, <2>4
  <2> DEFINE J == {j \in Jobs : Phase[j] = "pending" /\ Phase'[j] = "settled"}
  <2>8. \A j \in Jobs : Phase'[j] = IF j \in J THEN "settled"
                                    ELSE IF Phase[j] = "lost" THEN "pending"
                                    ELSE Phase[j]
    BY <2>5, <2>6, <2>7
  <2>9. Phase' = [j \in Jobs |-> Phase'[j]]
    BY DEF Phase
  <2>10. Phase' = [j \in Jobs |-> IF j \in J THEN "settled"
                                  ELSE IF Phase[j] = "lost" THEN "pending"
                                  ELSE Phase[j]]
    <3> HIDE DEF J
    <3> QED BY <2>8, <2>9
  <2>11. J \in SUBSET {j \in Jobs : Phase[j] = "pending"}
    OBVIOUS
  <2> HIDE DEF J
  <2> QED BY <2>10, <2>11 DEF Lifecycle!LifecycleNext, Lifecycle!Recover
<1>8. CASE UNCHANGED vars
  <2>1. UNCHANGED <<rows, queue, held, task, req, abandoned>>
    BY <1>8 DEF vars, process
  <2>2. \A j \in Jobs : HasWork(j)' <=> HasWork(j)
    BY <1>v, <1>w, <2>1 DEF ReqDrives, InQueue
  <2> QED BY <1>f, <2>1, <2>2 DEF rows
<1> QED BY <1>1, <1>2, <1>3, <1>4, <1>5, <1>6, <1>7, <1>8 DEF Next

(* The dispatcher implements the lifecycle that README.md and                *)
(* docs/ARCHITECTURE.md promise: a job is submitted, pends, settles or is    *)
(* lost, is reopened or recovered, and is never forgotten.  The fairness     *)
(* part, that no job pends for ever, is left to TLC.                         *)
THEOREM ImplementsLifecycleSteps ==
    Spec => Lifecycle!LifecycleInit /\ [][Lifecycle!LifecycleNext]_Phase
<1>1. Init => Lifecycle!LifecycleInit
  BY DEF Init, Lifecycle!LifecycleInit, Phase, Exists
<1>2. Spec => []PhaseInv
  BY TypeInvariance, IdleInvariance, NoJobIsLost, PTL DEF PhaseInv
<1>3. PhaseInv /\ PhaseInv' /\ [Next]_vars => [Lifecycle!LifecycleNext]_Phase
  BY LifecycleStep
<1> QED BY <1>1, <1>2, <1>3, PTL DEF Spec
=============================================================================
