--------------------------- MODULE PipelineProofs ---------------------------
(***************************************************************************)
(* What the pipeline keeps as long as nobody else starts work on its jobs  *)
(* and what the directories keep whoever does.                             *)
(*                                                                         *)
(* The dispatcher hands jobs to tasks and handlers that do not know of     *)
(* each other; with the requests that select candidates, resume a job or   *)
(* force an archive, a job can have two at once.  Without these, one       *)
(* invariant holds: every job is in at most one hand (Exclusive), and the  *)
(* row of a job fits what its one task knows (TaskFits, RowFits).  The     *)
(* single driver, the current selection and the kept promise of "ready"    *)
(* are read off it.  That no cleanup removes the temporary directory of a  *)
(* running job rests on it too, as a job that has ended must stay so       *)
(* between the cleanup's look at its row and the removal (CleanupInv).     *)
(*                                                                         *)
(* The public outputs need no such assumption: StorageInv relates the rows *)
(* of outputs, the files and the lists of both sweepers for any requests.  *)
(***************************************************************************)
EXTENDS JobStorage, JobDispatchProofs

(* Nobody selects candidates, resumes a job or forces an archive: jobs are   *)
(* submitted, run by the pipeline on its own, given up, panic and are taken  *)
(* up at the next boot, and a login session may still attach a profile.      *)
LeftAlone == Ops \cap {"select", "resume", "force"} = {}

InQueue(j) == \E i \in DOMAIN queue : queue[i] = j

(* At most one entry, task or handler has a job.                             *)
Exclusive ==
    /\ \A i, k \in DOMAIN queue : queue[i] = queue[k] => i = k
    /\ \A j \in Jobs :
          /\ InQueue(j) => held # j
          /\ \A s \in Slots : task[s].job = j => ~InQueue(j) /\ held # j
          /\ \A c \in Clients : req[c].job = j => ~InQueue(j) /\ held # j
          /\ \A s, t \in Slots : task[s].job = j /\ task[t].job = j => s = t
          /\ \A c, d \in Clients : req[c].job = j /\ req[d].job = j => c = d
          /\ \A s \in Slots, c \in Clients : task[s].job = j => req[c].job # j

(* The statuses a row may have while its one task is at p.                   *)
Waiting == {"queued", "candidate_selected"}
StatusFor(p) ==
    CASE p = "begin" -> Waiting
      [] p = "resolve" -> {"queued"}
      [] p \in {"resolving", "archive", "archived", "resolved"} -> {"resolving"}
      [] p \in {"autoselect", "set_selected", "mark_selected"} -> {"candidates_ready"}
      [] p \in {"enqueue", "process"} -> {"candidate_selected"}
      [] p \in {"attempt", "finish", "fulfilled"} -> {"candidate_selected", "processing"}
      [] p = "working" -> {"processing"}
      [] OTHER -> ActiveStatus \cup {"candidates_ready"}

(* A task, the row of its job, and what the task knows of it.                *)
TaskFits(s) ==
    LET j == task[s].job
        p == task[s].pc
    IN  p # "idle" =>
            /\ status[j] \in StatusFor(p)
            /\ p # "begin" => (task[s].plan = "page" <=> plan[j] = "page")
            /\ p = "set_selected" => task[s].sel = gen[j] /\ gen[j] # NoGen
            /\ p = "mark_selected" => selected[j] = gen[j] /\ gen[j] # NoGen
            /\ p \in {"archive", "archived"} => task[s].plan = "page"
            /\ p = "archived" => "archive" \in art[j]
            /\ p = "fulfilled" => Satisfied(j, task[s].plan)

RowFits(j) ==
    /\ status[j] = "candidate_selected" => selected[j] = gen[j] /\ gen[j] # NoGen
    /\ status[j] = "ready" => Satisfied(j, plan[j])

(* Entries wait for a dispatch, handlers for room in the queue.              *)
EntriesFit == \A j \in Jobs : InQueue(j) \/ held = j => status[j] \in Waiting
ReqFits(c) == /\ req[c].pc \in {"idle", "enqueue"}
              /\ req[c].pc = "enqueue" => status[req[c].job] = "queued"

PipelineInv == /\ Exclusive
               /\ EntriesFit
               /\ \A s \in Slots : TaskFits(s)
               /\ \A c \in Clients : ReqFits(c)
               /\ \A j \in Jobs : RowFits(j)

(* A task that fits its row leaves both fitting: the only task of a job is   *)
(* told apart by the status that it wrote last.                              *)
LEMMA TaskActionFits ==
    ASSUME RowsOK, TasksOK, NEW s \in Slots, TaskStep(s),
           NEW j \in Jobs, task[s].job = j, TaskFits(s), RowFits(j)
    PROVE  /\ TaskFits(s)'
           /\ RowFits(j)'
           /\ task[s].pc = "enqueue" => status'[j] \in Waiting
<1> USE DEF TaskFits, RowFits, StatusFor, Waiting, ActiveStatus, Satisfied, At,
            RowsOK, TasksOK, TaskRec
<1>1. CASE Begin(s)
  BY <1>1 DEF Begin, rows
<1>2. CASE StartResolve(s)
  BY <1>2 DEF StartResolve, SetStatus, Goto
<1>3. CASE TaskFails(s)
  BY <1>3 DEF TaskFails, Leave, TaskAt
<1>4. CASE ClearArchive(s)
  BY <1>4 DEF ClearArchive, Goto
<1>5. CASE StoreArchive(s)
  BY <1>5 DEF StoreArchive, Goto
<1>6. CASE ReplaceCandidates(s)
  BY <1>6 DEF ReplaceCandidates, Goto
<1>7. CASE AnnounceCandidates(s)
  BY <1>7 DEF AnnounceCandidates, SetStatus, Goto, Release, IdleTask, TaskAt
<1>8. CASE AutoSelect(s)
  BY <1>8 DEF AutoSelect, rows
<1>9. CASE NothingRecommended(s)
  BY <1>9 DEF NothingRecommended, Release, IdleTask, TaskAt, rows
<1>10. CASE SetSelected(s)
  BY <1>10 DEF SetSelected, Goto
<1>11. CASE MarkSelected(s)
  BY <1>11 DEF MarkSelected, SetStatus, Leave, TaskAt
<1>12. CASE TaskEnqueue(s)
  BY <1>12 DEF TaskEnqueue, Release, IdleTask, TaskAt, rows
<1>13. CASE PlanAttempts(s)
  BY <1>13 DEF PlanAttempts, rows
<1>14. CASE Work(s)
  BY <1>14 DEF Work, SetStatus, Goto
<1>15. CASE AttemptSucceeds(s)
  BY <1>15 DEF AttemptSucceeds, Leave, TaskAt
<1>16. CASE AttemptFails(s)
  BY <1>16 DEF AttemptFails, Leave, TaskAt, rows
<1>17. CASE CheckOutputs(s)
  BY <1>17 DEF CheckOutputs, Leave, TaskAt, rows
<1>18. CASE MarkReady(s)
  BY <1>18 DEF MarkReady, SetStatus, Release, IdleTask, TaskAt
<1>19. CASE MarkFailed(s)
  BY <1>19 DEF MarkFailed, SetStatus, Release, IdleTask, TaskAt
<1> QED
  BY <1>1, <1>2, <1>3, <1>4, <1>5, <1>6, <1>7, <1>8, <1>9, <1>10, <1>11, <1>12, <1>13, <1>14,
     <1>15, <1>16, <1>17, <1>18, <1>19 DEF TaskStep

(* A row that is not there is in no queue and with no task or handler.       *)
LEMMA AbsentUnused ==
    ASSUME TypeInv, IdleHoldsNothing, NEW j \in Jobs, ~Exists(j)
    PROVE  /\ ~InQueue(j) /\ held # j
           /\ \A s \in Slots : task[s].job # j
           /\ \A c \in Clients : req[c].job # j
<1>0. QueueRefs /\ TaskRefs /\ ReqRefs
  BY TypeParts DEF TypeInv
<1>1. ~InQueue(j) /\ held # j
  BY <1>0, DispatchAssumption DEF QueueRefs, InQueue
<1> QED
  BY <1>0, <1>1, DispatchAssumption DEF TaskRefs, ReqRefs, IdleHoldsNothing

(* What a handler may do when nobody selects, resumes or forces.             *)
LEMMA HandlersLeftAlone ==
    ASSUME LeftAlone, NEW c \in Clients, ReqStep(c) \/ Request(c), ReqFits(c)
    PROVE  \/ ReqEnqueue(c)
           \/ \E j \in Jobs : Submit(c, j) \/ AttachProfile(c, j)
<1>1. CASE ReqStep(c)
  BY <1>1 DEF ReqStep, SelectSet, SelectMark, DeleteCandidates, DeleteArtifacts, ReqAt, ReqFits
<1>2. CASE Request(c)
  BY <1>2 DEF Request, SelectCheck, Resume, ForceArchive, Opens, LeftAlone
<1> QED BY <1>1, <1>2

(* A boot puts every row it takes up into the queue once: as many entries as *)
(* rows, and none missing.                                                   *)
LEMMA BootEntries ==
    ASSUME RowsOK, Restart
    PROVE  /\ \A j \in Jobs : InQueue(j)' => j \in Pending
           /\ \A i, k \in DOMAIN queue' : queue'[i] = queue'[k] => i = k
<1> DEFINE N == Cardinality(Pending)
<1>1. PICK q \in [1..N -> Pending] :
          /\ \A j \in Pending : \E i \in DOMAIN q : q[i] = j
          /\ queue' = q
  BY DEF Restart
<1>2. IsFiniteSet(Pending) /\ N \in Nat
  BY PendingFinite
<1>3. IsFiniteSet(1..N) /\ Cardinality(1..N) = N
  BY <1>2, FS_Interval
<1>4. q \in Surjection(1..N, Pending)
  BY <1>1 DEF Surjection
<1>5. q \in Injection(1..N, Pending)
  <2> HIDE DEF N
  <2> QED BY <1>2, <1>3, <1>4, FS_SurjSameCardinalityImpliesInj DEF N
<1>6. \A i, k \in 1..N : q[i] = q[k] => i = k
  BY <1>5 DEF Injection, IsInjective
<1> QED BY <1>1, <1>6 DEF InQueue

(* An entry of a queue with one more is an old one or the new one.           *)
LEMMA AppendPlace ==
    ASSUME NEW S, NEW q \in Seq(S), NEW e \in S
    PROVE  \A i \in DOMAIN Append(q, e) :
               \/ i \in DOMAIN q /\ Append(q, e)[i] = q[i]
               \/ i = Len(q) + 1 /\ Append(q, e)[i] = e
<1>1. /\ Append(q, e) \in Seq(S) /\ Len(Append(q, e)) = Len(q) + 1
      /\ \A i \in 1..Len(q) : Append(q, e)[i] = q[i]
      /\ Append(q, e)[Len(q) + 1] = e
  BY AppendProperties
<1>2. /\ Len(q) \in Nat /\ DOMAIN q = 1..Len(q)
      /\ DOMAIN Append(q, e) = 1..(Len(q) + 1)
  BY <1>1, LenProperties
<1> QED BY <1>1, <1>2

(* No step of an undisturbed pipeline gives a job a second entry, task or    *)
(* handler, or leaves a task or a row out of step with the other.            *)
LEMMA PipelineStep ==
    ASSUME LeftAlone, TypeInv, IdleHoldsNothing, PipelineInv, [Next]_vars
    PROVE  PipelineInv'
<1>0. /\ RowsOK /\ TasksOK /\ LoopOK /\ ReqsOK /\ CountsOK /\ QueueRefs /\ TaskRefs /\ ReqRefs
      /\ IdleHoldsNothing
  BY TypeParts DEF TypeInv
<1>e. /\ Exclusive /\ EntriesFit
      /\ \A s \in Slots : TaskFits(s)
      /\ \A c \in Clients : ReqFits(c)
      /\ \A j \in Jobs : RowFits(j)
  BY DEF PipelineInv
<1>r. ASSUME UNCHANGED rows
      PROVE  /\ \A s \in Slots : task'[s] = task[s] \/ task'[s].pc = "idle" => TaskFits(s)'
             /\ \A c \in Clients : req'[c] = req[c] \/ req'[c].pc = "idle" => ReqFits(c)'
             /\ \A j \in Jobs : RowFits(j)'
  BY <1>e, <1>r DEF rows, TaskFits, ReqFits, RowFits, Satisfied
<1>1. CASE Receive
  <2>1. /\ 1 \in DOMAIN queue /\ held' = queue[1]
        /\ \A i \in DOMAIN queue' : i + 1 \in DOMAIN queue /\ queue'[i] = queue[i + 1]
        /\ \A i \in DOMAIN queue : i \in Nat \ {0}
        /\ \A i \in DOMAIN queue' : i \in Nat \ {0}
    <3>1. queue \in Seq(Jobs) /\ queue' \in Seq(Jobs)
      BY <1>0, <1>1, TakenEntry DEF Receive, LoopOK
    <3> QED BY <1>0, <1>1, <3>1, TakenEntry, LenProperties DEF Receive, LoopOK
  <2>2. held = NoJob /\ UNCHANGED <<rows, task, req>>
    BY <1>1 DEF Receive
  <2>3. /\ \A i, k \in DOMAIN queue' : queue'[i] = queue'[k] => i = k
        /\ \A i \in DOMAIN queue' : queue'[i] # held'
    BY <1>e, <2>1 DEF Exclusive
  <2>4. \A j \in Jobs : InQueue(j)' \/ held' = j => InQueue(j)
    BY <2>1 DEF InQueue
  <2>5. Exclusive'
    BY <1>e, <2>2, <2>3, <2>4 DEF Exclusive, InQueue
  <2>6. EntriesFit'
    BY <1>e, <2>2, <2>4 DEF EntriesFit, rows
  <2> QED BY <1>r, <2>2, <2>5, <2>6 DEF PipelineInv
<1>2. ASSUME NEW s \in Slots, Spawn(s) PROVE PipelineInv'
  <2>1. /\ held # NoJob /\ held' = NoJob
        /\ task'[s] = TaskAt("begin", held, "media")
        /\ \A t \in Slots : t # s => task'[t] = task[t]
        /\ task[s].job = NoJob
        /\ UNCHANGED <<rows, queue, req>>
    BY <1>0, <1>2 DEF Spawn, IdleHoldsNothing, TasksOK
  <2>2. held \in Jobs
    BY <1>0, <2>1 DEF LoopOK
  <2>3. Exclusive'
    BY <1>e, <2>1, <2>2, DispatchAssumption DEF Exclusive, InQueue, TaskAt
  <2>4. EntriesFit'
    BY <1>e, <2>1, DispatchAssumption DEF EntriesFit, InQueue, rows
  <2>5. TaskFits(s)'
    BY <1>e, <2>1, <2>2 DEF EntriesFit, TaskFits, TaskAt, StatusFor, rows
  <2> QED BY <1>r, <2>1, <2>3, <2>4, <2>5 DEF PipelineInv
<1>3. ASSUME NEW s \in Slots, TaskStep(s) PROVE PipelineInv'
  <2> DEFINE j == task[s].job
  <2>1. /\ task[s].pc # "idle"
        /\ UNCHANGED plan
        /\ \A k \in Jobs : k # j =>
              /\ status'[k] = status[k] /\ art'[k] = art[k]
              /\ gen'[k] = gen[k] /\ selected'[k] = selected[k]
        /\ \/ task'[s] = IdleTask
           \/ task'[s].job = j /\ task'[s].pc # "idle"
    BY <1>0, <1>3, TaskActionRow
  <2>2. /\ UNCHANGED <<held, req>>
        /\ queue' = queue \/ TaskEnqueue(s)
        /\ \A t \in Slots : t # s => task'[t] = task[t]
    BY <1>0, <1>3, TaskActionFrame
  <2>3. j \in Jobs
    BY <1>0, <2>1 DEF TaskRefs
  <2>u. /\ ~InQueue(j) /\ held # j
        /\ \A t \in Slots : t # s => task[t].job # j
        /\ \A c \in Clients : req[c].job # j
    BY <1>e, <2>3 DEF Exclusive
  <2>4. /\ TaskFits(s)'
        /\ \A k \in Jobs : k = j => RowFits(k)'
        /\ task[s].pc = "enqueue" => \A k \in Jobs : k = j => status'[k] \in Waiting
    <3>1. PICK k \in Jobs : k = j
      BY <2>3
    <3>2. TaskFits(s)' /\ RowFits(k)' /\ (task[s].pc = "enqueue" => status'[k] \in Waiting)
      BY <1>0, <1>3, <1>e, <3>1, TaskActionFits
    <3> QED BY <3>1, <3>2
  <2>5. \A t \in Slots : t # s => TaskFits(t)'
    <3> SUFFICES ASSUME NEW t \in Slots, t # s, task[t].pc # "idle" PROVE TaskFits(t)'
      BY <2>2 DEF TaskFits
    <3>1. task[t].job \in Jobs /\ task[t].job # j
      BY <1>0, <2>u DEF TaskRefs
    <3> QED BY <1>e, <2>1, <2>2, <3>1 DEF TaskFits, Satisfied
  <2>6. \A c \in Clients : ReqFits(c)'
    BY <1>0, <1>e, <2>1, <2>2, <2>u DEF ReqFits, ReqRefs
  <2>7. \A k \in Jobs : k # j => RowFits(k)'
    BY <1>e, <2>1 DEF RowFits, Satisfied
  <2>8. Exclusive' /\ EntriesFit'
    <3>1. CASE queue' = queue
      <4>1. Exclusive'
        BY <1>e, <2>1, <2>2, <3>1, DispatchAssumption DEF Exclusive, InQueue, IdleTask, TaskAt
      <4>2. EntriesFit'
        BY <1>e, <2>1, <2>2, <2>u, <3>1 DEF EntriesFit, InQueue
      <4> QED BY <4>1, <4>2
    <3>2. CASE TaskEnqueue(s)
      <4>1. /\ task[s].pc = "enqueue" /\ queue' = Append(queue, j) /\ task'[s] = IdleTask
            /\ held' = held
        BY <1>0, <3>2 DEF TaskEnqueue, At, Release, TasksOK
      <4>2. \A i \in DOMAIN queue' : \/ i \in DOMAIN queue /\ queue'[i] = queue[i]
                                     \/ i = Len(queue) + 1 /\ queue'[i] = j
        BY <1>0, <2>3, <4>1, AppendPlace DEF LoopOK
      <4>3. \A k \in Jobs : InQueue(k)' => InQueue(k) \/ k = j
        BY <4>2 DEF InQueue
      <4>4. \A i, k \in DOMAIN queue' : queue'[i] = queue'[k] => i = k
        BY <1>e, <2>3, <2>u, <4>2 DEF Exclusive, InQueue
      <4>5. task'[s].job = NoJob
        BY <4>1 DEF IdleTask, TaskAt
      <4>6. Exclusive'
        <5>1. \A k \in Jobs : InQueue(k)' => held' # k
          BY <1>e, <2>u, <4>1, <4>3 DEF Exclusive
        <5>2. \A k \in Jobs : \A t \in Slots : task'[t].job = k => ~InQueue(k)' /\ held' # k
          BY <1>e, <2>2, <2>u, <4>1, <4>3, <4>5, DispatchAssumption DEF Exclusive
        <5>3. \A k \in Jobs : \A c \in Clients : req'[c].job = k => ~InQueue(k)' /\ held' # k
          BY <1>e, <2>2, <2>u, <4>1, <4>3 DEF Exclusive
        <5> QED BY <1>e, <2>2, <4>4, <4>5, <5>1, <5>2, <5>3, DispatchAssumption DEF Exclusive
      <4>7. EntriesFit'
        BY <1>e, <2>1, <2>2, <2>3, <2>4, <2>u, <4>1, <4>3 DEF EntriesFit
      <4> QED BY <4>6, <4>7
    <3> QED BY <2>2, <3>1, <3>2
  <2> QED BY <2>4, <2>5, <2>6, <2>7, <2>8 DEF PipelineInv
<1>4. ASSUME NEW s \in Slots, TaskPanics(s) PROVE PipelineInv'
  <2>1. /\ task'[s] = IdleTask
        /\ \A t \in Slots : t # s => task'[t] = task[t]
        /\ UNCHANGED <<rows, queue, held, req>>
    BY <1>0, <1>4 DEF TaskPanics, Release, TasksOK
  <2>2. Exclusive'
    BY <1>e, <2>1, DispatchAssumption DEF Exclusive, InQueue, IdleTask, TaskAt
  <2>3. EntriesFit'
    BY <1>e, <2>1 DEF EntriesFit, InQueue, rows
  <2>4. task'[s].pc = "idle"
    BY <2>1 DEF IdleTask, TaskAt
  <2> QED BY <1>r, <2>1, <2>2, <2>3, <2>4 DEF PipelineInv
<1>5. ASSUME NEW c \in Clients, ReqEnqueue(c) PROVE PipelineInv'
  <2> DEFINE j == req[c].job
  <2>1. /\ req[c].pc = "enqueue" /\ queue' = Append(queue, j) /\ req'[c] = IdleReq
        /\ \A d \in Clients : d # c => req'[d] = req[d]
        /\ UNCHANGED <<rows, held, task>>
    BY <1>0, <1>5 DEF ReqEnqueue, ReqAt, ReqsOK
  <2>2. j \in Jobs
    BY <1>0, <2>1 DEF ReqRefs
  <2>u. /\ ~InQueue(j) /\ held # j
        /\ \A t \in Slots : task[t].job # j
        /\ \A d \in Clients : d # c => req[d].job # j
    BY <1>e, <2>2 DEF Exclusive
  <2>3. \A i \in DOMAIN queue' : \/ i \in DOMAIN queue /\ queue'[i] = queue[i]
                                 \/ i = Len(queue) + 1 /\ queue'[i] = j
    BY <1>0, <2>1, <2>2, AppendPlace DEF LoopOK
  <2>4. \A k \in Jobs : InQueue(k)' => InQueue(k) \/ k = j
    BY <2>3 DEF InQueue
  <2>5. \A i, k \in DOMAIN queue' : queue'[i] = queue'[k] => i = k
    BY <1>e, <2>2, <2>u, <2>3 DEF Exclusive, InQueue
  <2>6. req'[c].job = NoJob /\ req'[c].pc = "idle"
    BY <2>1 DEF IdleReq, Handler
  <2>7. Exclusive'
    <3>1. \A k \in Jobs : InQueue(k)' => held' # k
      BY <1>e, <2>1, <2>u, <2>4 DEF Exclusive
    <3>2. \A k \in Jobs : \A t \in Slots : task'[t].job = k => ~InQueue(k)' /\ held' # k
      BY <1>e, <2>1, <2>u, <2>4 DEF Exclusive
    <3>3. \A k \in Jobs : \A d \in Clients : req'[d].job = k => ~InQueue(k)' /\ held' # k
      BY <1>e, <2>1, <2>u, <2>4, <2>6, DispatchAssumption DEF Exclusive
    <3> QED BY <1>e, <2>1, <2>5, <2>6, <3>1, <3>2, <3>3, DispatchAssumption DEF Exclusive
  <2>8. EntriesFit'
    BY <1>e, <2>1, <2>2, <2>4 DEF EntriesFit, ReqFits, Waiting, rows
  <2> QED BY <1>r, <2>1, <2>6, <2>7, <2>8 DEF PipelineInv
<1>6. ASSUME NEW c \in Clients, NEW j \in Jobs, Submit(c, j) PROVE PipelineInv'
  <2>1. /\ ~Exists(j)
        /\ status' = [status EXCEPT ![j] = "queued"]
        /\ \A k \in Jobs : k # j => plan'[k] = plan[k]
        /\ req[c].pc = "idle" /\ req'[c] = Handler("enqueue", j, NoGen)
        /\ \A d \in Clients : d # c => req'[d] = req[d]
        /\ UNCHANGED <<gen, selected, art, queue, held, task>>
    BY <1>0, <1>6 DEF Submit, Opens, ReqAt, SetStatus, Accept, ReqStays, RowsOK, ReqsOK
  <2>u. /\ ~InQueue(j) /\ held # j
        /\ \A t \in Slots : task[t].job # j
        /\ \A d \in Clients : req[d].job # j
    BY <2>1, AbsentUnused
  <2>s. status'[j] = "queued" /\ \A k \in Jobs : k # j => status'[k] = status[k]
    BY <1>0, <2>1 DEF RowsOK
  <2>2. Exclusive'
    BY <1>e, <2>1, <2>u DEF Exclusive, InQueue, Handler
  <2>3. EntriesFit'
    BY <1>e, <2>1, <2>u, <2>s DEF EntriesFit, InQueue
  <2>4. \A t \in Slots : TaskFits(t)'
    BY <1>0, <1>e, <2>1, <2>u, <2>s DEF TaskFits, TaskRefs, Satisfied
  <2>5. \A d \in Clients : ReqFits(d)'
    <3>1. ReqFits(c)'
      BY <2>1, <2>s DEF ReqFits, Handler
    <3>2. \A d \in Clients : d # c => ReqFits(d)'
      BY <1>0, <1>e, <2>1, <2>u, <2>s DEF ReqFits, ReqRefs
    <3> QED BY <3>1, <3>2
  <2>6. \A k \in Jobs : RowFits(k)'
    BY <1>e, <2>1, <2>s DEF RowFits, Satisfied
  <2> QED BY <2>2, <2>3, <2>4, <2>5, <2>6 DEF PipelineInv
<1>7. ASSUME NEW c \in Clients, NEW j \in Jobs, AttachProfile(c, j) PROVE PipelineInv'
  <2>1. /\ UNCHANGED <<status, gen, selected, art, req, queue, held, task>>
        /\ \A k \in Jobs : plan'[k] = "page" <=> plan[k] = "page"
    BY <1>0, <1>7 DEF AttachProfile, ReqStays, RowsOK
  <2>2. Exclusive' /\ EntriesFit'
    BY <1>e, <2>1 DEF Exclusive, EntriesFit, InQueue
  <2>3. \A t \in Slots : TaskFits(t)'
    BY <1>0, <1>e, <2>1 DEF TaskFits, TaskRefs, Satisfied
  <2>4. \A d \in Clients : ReqFits(d)'
    BY <1>e, <2>1 DEF ReqFits
  <2>5. \A k \in Jobs : RowFits(k)'
    BY <1>e, <2>1 DEF RowFits, Satisfied
  <2> QED BY <2>2, <2>3, <2>4, <2>5 DEF PipelineInv
<1>8. ASSUME NEW c \in Clients, Disconnect(c) PROVE PipelineInv'
  <2>1. /\ req'[c] = IdleReq
        /\ \A d \in Clients : d # c => req'[d] = req[d]
        /\ UNCHANGED <<rows, queue, held, task>>
    BY <1>0, <1>8 DEF Disconnect, ReqsOK
  <2>2. req'[c].job = NoJob /\ req'[c].pc = "idle"
    BY <2>1 DEF IdleReq, Handler
  <2>3. Exclusive'
    BY <1>e, <2>1, <2>2, DispatchAssumption DEF Exclusive, InQueue
  <2>4. EntriesFit'
    BY <1>e, <2>1 DEF EntriesFit, InQueue, rows
  <2>5. \A d \in Clients : ReqFits(d)'
    BY <1>r, <2>1, <2>2 DEF ReqFits
  <2> QED BY <1>r, <2>1, <2>3, <2>4, <2>5 DEF PipelineInv
<1>9. CASE Restart
  <2>1. /\ \A j \in Jobs : InQueue(j)' => j \in Pending
        /\ \A i, k \in DOMAIN queue' : queue'[i] = queue'[k] => i = k
    BY <1>0, <1>9, BootEntries
  <2>2. /\ held' = NoJob
        /\ \A s \in Slots : task'[s].job = NoJob /\ task'[s].pc = "idle"
        /\ \A c \in Clients : req'[c].job = NoJob /\ req'[c].pc = "idle"
        /\ UNCHANGED <<plan, gen, selected, art>>
    BY <1>9 DEF Restart, IdleTask, TaskAt, IdleReq, Handler
  <2>3. \A j \in Jobs : status'[j] = IF j \in Pending THEN "queued" ELSE status[j]
    BY <1>9 DEF Restart
  <2>4. Exclusive'
    BY <2>1, <2>2, DispatchAssumption DEF Exclusive
  <2>5. EntriesFit'
    BY <2>1, <2>2, <2>3, DispatchAssumption DEF EntriesFit, Waiting
  <2>6. \A j \in Jobs : RowFits(j)'
    BY <1>e, <2>2, <2>3 DEF RowFits, Satisfied, Pending, ActiveStatus
  <2>7. \A s \in Slots : TaskFits(s)'
    BY <2>2 DEF TaskFits
  <2>8. \A c \in Clients : ReqFits(c)'
    BY <2>2 DEF ReqFits
  <2> QED BY <2>4, <2>5, <2>6, <2>7, <2>8 DEF PipelineInv
<1>10. CASE UNCHANGED vars
  <2>1. UNCHANGED <<rows, queue, held, task, req>>
    BY <1>10 DEF vars, process
  <2>2. Exclusive' /\ EntriesFit'
    BY <1>e, <2>1 DEF Exclusive, EntriesFit, InQueue, rows
  <2> QED BY <1>r, <2>1, <2>2 DEF PipelineInv
<1>11. ASSUME NEW c \in Clients, ReqStep(c) \/ Request(c) PROVE PipelineInv'
  BY <1>5, <1>6, <1>7, <1>11, <1>e, HandlersLeftAlone
<1> QED BY <1>1, <1>2, <1>3, <1>4, <1>8, <1>9, <1>10, <1>11 DEF Next

(* In every reachable state of such a system.                                *)
LEMMA PipelineInvariance ==
    ASSUME LeftAlone
    PROVE  Spec => [](TypeInv /\ IdleHoldsNothing /\ PipelineInv)
<1>1. Init => PipelineInv
  <2> SUFFICES ASSUME Init PROVE PipelineInv
    OBVIOUS
  <2>1. DOMAIN queue = {} /\ held = NoJob
    BY DEF Init
  <2> QED BY <2>1, DispatchAssumption
        DEF Init, PipelineInv, Exclusive, EntriesFit, TaskFits, ReqFits, RowFits, InQueue,
            IdleTask, TaskAt, IdleReq, Handler
<1>2. TypeInv /\ IdleHoldsNothing /\ PipelineInv /\ [Next]_vars => PipelineInv'
  BY PipelineStep
<1> QED BY <1>1, <1>2, TypeInvariance, IdleInvariance, PTL DEF Spec

(* The pipeline by itself never dispatches a job twice: at any time at most  *)
(* one entry of the queue, task or handler refers to it, crashes, panics and *)
(* dropped submissions included.                                             *)
THEOREM OneDriverPerJob ==
    ASSUME LeftAlone
    PROVE  Spec => []SingleDriver
<1>1. TypeInv /\ PipelineInv => SingleDriver
  <2> SUFFICES ASSUME TypeInv, PipelineInv, NEW j \in Jobs PROVE References(j) <= 1
    BY DEF SingleDriver
  <2> DEFINE Q == Tickets(j)
             H == IF held = j THEN 1 ELSE 0
             T == {s \in Slots : task[s].job = j}
             C == {c \in Clients : req[c].job = j}
  <2>0. Exclusive
    BY DEF PipelineInv
  <2>1. \A x, y \in Q : x = y
    BY <2>0 DEF Exclusive, Tickets
  <2>2. \A x, y \in T : x = y
    BY <2>0 DEF Exclusive
  <2>3. \A x, y \in C : x = y
    BY <2>0 DEF Exclusive
  <2>4. /\ Q # {} => held # j /\ T = {} /\ C = {}
        /\ held = j => T = {} /\ C = {}
        /\ T # {} => C = {}
    BY <2>0 DEF Exclusive, InQueue, Tickets
  <2>5. ASSUME NEW S, \A x, y \in S : x = y
        PROVE  Cardinality(S) \in {0, 1} /\ (S = {} => Cardinality(S) = 0)
    <3>1. CASE S = {}
      BY <3>1, FS_EmptySet
    <3>2. CASE S # {}
      <4>1. PICK x : S = {x}
        BY <2>5, <3>2
      <4> QED BY <4>1, FS_Singleton
    <3> QED BY <3>1, <3>2
  <2>6. /\ Cardinality(Q) \in {0, 1} /\ (Q = {} => Cardinality(Q) = 0)
        /\ Cardinality(T) \in {0, 1} /\ (T = {} => Cardinality(T) = 0)
        /\ Cardinality(C) \in {0, 1} /\ (C = {} => Cardinality(C) = 0)
    <3> HIDE DEF Q, T, C
    <3> QED BY <2>1, <2>2, <2>3, <2>5
  <2>7. Cardinality(Q) + H + Cardinality(T) + Cardinality(C) <= 1
    <3>1. H \in {0, 1} /\ (held # j => H = 0)
      OBVIOUS
    <3>2. Q # {} => H = 0
      BY <2>4, <3>1
    <3>3. T # {} \/ C # {} => H = 0
      BY <2>4, <3>1
    <3> HIDE DEF Q, T, C, H
    <3> QED BY <2>4, <2>6, <3>1, <3>2, <3>3
  <2> QED BY <2>7 DEF References
<1> QED BY <1>1, PipelineInvariance, PTL

(* A job that the pipeline has marked selected carries the candidate set     *)
(* that is in the database, so the dispatch that follows finds it.           *)
THEOREM SelectionStaysCurrent ==
    ASSUME LeftAlone
    PROVE  Spec => []SelectionCurrent
<1>1. PipelineInv => SelectionCurrent
  BY DEF PipelineInv, RowFits, SelectionCurrent
<1> QED BY <1>1, PipelineInvariance, PTL

(* A job of either kind, a page archive too, is "ready" only with the output *)
(* it promised.                                                              *)
THEOREM ReadyKeepsItsPromise ==
    ASSUME LeftAlone
    PROVE  Spec => []ReadyHasOutput
<1>1. PipelineInv => ReadyHasOutput
  BY DEF PipelineInv, RowFits, ReadyHasOutput
<1> QED BY <1>1, PipelineInvariance, PTL

(* The pipeline enters "resolving" from "queued" only, as the documented     *)
(* state machine has it.                                                     *)
THEOREM ResolvingComesFromQueued ==
    ASSUME LeftAlone
    PROVE  Spec => ResolvingFollowsQueued
<1> DEFINE Step == \A j \in Jobs : status'[j] = "resolving" /\ status[j] # "resolving"
                                       => status[j] = "queued"
<1>1. TypeInv /\ IdleHoldsNothing /\ PipelineInv /\ [Next]_vars => Step
  <2> SUFFICES ASSUME TypeInv, PipelineInv, [Next]_vars, NEW j \in Jobs,
                      status'[j] = "resolving", status[j] # "resolving"
               PROVE  status[j] = "queued"
    OBVIOUS
  <2>0. RowsOK /\ TasksOK /\ ReqsOK /\ TaskRefs
    BY TypeParts DEF TypeInv
  <2>1. \A s \in Slots : StartResolve(s) => status[j] = "queued"
    BY <2>0 DEF StartResolve, At, SetStatus, RowsOK, TaskRefs, PipelineInv, TaskFits, StatusFor
  <2>2. ASSUME NEW s \in Slots, TaskStep(s) PROVE StartResolve(s)
    BY <2>0, <2>2 DEF TaskStep, Begin, TaskFails, ClearArchive, StoreArchive, ReplaceCandidates,
       AnnounceCandidates, AutoSelect, NothingRecommended, SetSelected, MarkSelected,
       TaskEnqueue, PlanAttempts, Work, AttemptSucceeds, AttemptFails, CheckOutputs,
       MarkReady, MarkFailed, SetStatus, RowsOK, rows
  <2>3. ASSUME NEW c \in Clients PROVE ~ReqStep(c) /\ ~Request(c)
    BY <2>0 DEF ReqStep, Request, SelectSet, SelectMark, DeleteCandidates, DeleteArtifacts,
       ReqEnqueue, Submit, SelectCheck, Resume, ForceArchive, AttachProfile, SetStatus,
       RowsOK, rows
  <2>4. ~Restart
    BY DEF Restart
  <2>5. status' # status
    OBVIOUS
  <2> QED BY <2>1, <2>2, <2>3, <2>4, <2>5
       DEF Next, Receive, Spawn, TaskPanics, Disconnect, rows, vars
<1> HIDE DEF Step
<1>2. Spec => [][Step]_vars
  BY <1>1, PipelineInvariance, PTL DEF Spec
<1> QED BY <1>2 DEF Step, ResolvingFollowsQueued

----------------------------------------------------------------------------
(* The directories.                                                          *)

Ages == {"none", "young", "old"}

(* The shape of the directories and of the sweepers' lists.                  *)
DirsOK ==
    /\ pub \in [Dirs -> Ages] /\ tmp \in [Dirs -> Ages]
    /\ files \in [Jobs -> SUBSET {"media", "archive"}]
    /\ expired \subseteq Jobs
    /\ wipe \in [Clients -> Jobs \cup {NoJob}]
    /\ prune \in [pc : {"idle", "remove", "hide"}, ids : SUBSET Jobs, todo : SUBSET Jobs]
    /\ clean \in [pc : {"idle", "known", "active", "remove"}, known : SUBSET Jobs,
                  active : SUBSET Jobs, chosen : SUBSET ({"tmp", "pub"} \X Dirs)]

(* Every media row has its file, except where retention, a forced archive or *)
(* another output of the same name may have taken it.                        *)
MediaOnDisk ==
    \A j \in Jobs \ (expired \cup wiped \cup redone) :
        "media" \in art[j] => "media" \in files[j]

(* The retention loop works on expired jobs, the cleanup chooses no public   *)
(* directory of a job: one that has no row has no directory, and one that    *)
(* gets both after the list was read is too young when the scan comes.       *)
PruneTakesExpired == prune.ids \cup prune.todo \subseteq expired
RowBeforeDir == \A j \in Jobs : ~Exists(j) => pub[j] = "none"
UnknownAreYoung ==
    clean.pc \in {"known", "active"} => \A j \in Jobs \ clean.known : pub[j] # "old"
JobsKeepPublic == \A j \in Jobs : <<"pub", j>> \notin clean.chosen

StorageInv == /\ DirsOK
              /\ MediaOnDisk
              /\ PruneTakesExpired /\ RowBeforeDir /\ UnknownAreYoung /\ JobsKeepPublic

(* A job nothing works on any more, and one that has been dispatched with a  *)
(* selection, which it keeps until the next boot.                            *)
Ended == {"ready", "error", "needs_profile"}
Dispatched == {"candidate_selected", "processing"} \cup Ended

(* Before the first crash a temporary directory belongs to a dispatched job, *)
(* and one that the cleanup has chosen or is about to choose to an ended one.*)
CleanupInv ==
    restarts = 0 =>
        /\ \A j \in Jobs : tmp[j] # "none" => status[j] \in Dispatched
        /\ clean.pc = "active" =>
               \A j \in Jobs \ clean.active : tmp[j] = "old" => status[j] \in Ended
        /\ \A j \in Jobs : <<"tmp", j>> \in clean.chosen => status[j] \in Ended

(* A step of the dispatcher never makes a row disappear.                     *)
LEMMA RowsStayStep ==
    ASSUME TypeInv, [Next]_vars
    PROVE  RowsStay
<1>0. RowsOK /\ TasksOK /\ ReqsOK /\ TaskRefs /\ ReqRefs
  BY TypeParts DEF TypeInv
<1>1. ASSUME NEW s \in Slots, TaskStep(s) PROVE RowsStay
  BY <1>0, <1>1, TaskActionStep
<1>2. ASSUME NEW c \in Clients, ReqStep(c) \/ Request(c) PROVE RowsStay
  BY <1>0, <1>2, ReqActionStep
<1>3. CASE Restart
  BY <1>3 DEF Restart, RowsStay, Exists
<1>4. ASSUME UNCHANGED rows PROVE RowsStay
  BY <1>4 DEF rows, RowsStay, Exists
<1> QED BY <1>1, <1>2, <1>3, <1>4 DEF Next, Receive, Spawn, TaskPanics, Disconnect, vars

(* Whatever happens on disk, the rows take a step of the dispatcher or none. *)
LEMMA StorageStepIsStep ==
    ASSUME DirsOK, [StorageNext]_allVars
    PROVE  [Next]_vars
<1> SUFFICES Next \/ UNCHANGED vars
  OBVIOUS
<1>1. CASE QuietStep
  BY <1>1 DEF QuietStep, QuietTaskStep, QuietRequest, Next, TaskStep, Request
<1>2. ASSUME NEW s \in Slots, WorkOnDisk(s) \/ SucceedOnDisk(s) \/ FailOnDisk(s)
                                 \/ ReplaceOnDisk(s) \/ ArchiveOnDisk(s)
      PROVE  Next
  BY <1>2 DEF WorkOnDisk, SucceedOnDisk, FailOnDisk, ReplaceOnDisk, ArchiveOnDisk, Next, TaskStep
<1>3. ASSUME NEW s \in Slots, Overwrite(s) PROVE UNCHANGED vars
  BY <1>3 DEF Overwrite
<1>4. ASSUME NEW c \in Clients, ForceRows(c) PROVE Next
  <2>1. PICK j \in Jobs : j = wipe[c]
    BY <1>4 DEF ForceRows, DirsOK
  <2>2. ForceArchive(c, j)
    BY <1>4, <2>1 DEF ForceRows
  <2> QED BY <2>2 DEF Next, Request
<1>5. ASSUME NEW c \in Clients, (\E j \in Jobs : WipeDirs(c, j)) \/ DropWipe(c)
      PROVE  UNCHANGED vars
  BY <1>5 DEF WipeDirs, DropWipe
<1>6. CASE Prune \/ Clean
  BY <1>6 DEF Prune, PruneRead, PruneRemove, PruneHide, Clean, CleanReadKnown,
              CleanReadActive, CleanScan, CleanEnds, CleanRemove, CleanOnly
<1>7. CASE (\E d \in Dirs : AgeDir(d)) \/ (\E j \in Jobs : Expire(j))
  BY <1>7 DEF AgeDir, Expire
<1>8. CASE RestartOnDisk
  BY <1>8 DEF RestartOnDisk, Next
<1>9. CASE UNCHANGED allVars
  BY <1>9 DEF allVars
<1> QED BY <1>1, <1>2, <1>3, <1>4, <1>5, <1>6, <1>7, <1>8, <1>9 DEF StorageNext

(* Where a step of a task may put and remove directories: those of the job   *)
(* it works on, which has a row.                                             *)
LEMMA TaskHasRow ==
    ASSUME TypeInv, NEW s \in Slots, task[s].pc # "idle"
    PROVE  task[s].job \in Jobs /\ Exists(task[s].job)
BY TypeParts DEF TypeInv, TaskRefs

(* The sweepers, time and the API handlers leave StorageInv true: what they  *)
(* remove is expired, a forced archive's, or nobody's.                       *)
LEMMA SweepStep ==
    ASSUME TypeInv, StorageInv, RowsStay,
           \/ \E c \in Clients : (\E j \in Jobs : WipeDirs(c, j)) \/ ForceRows(c) \/ DropWipe(c)
           \/ Prune \/ Clean
           \/ \E d \in Dirs : AgeDir(d)
           \/ \E j \in Jobs : Expire(j)
           \/ RestartOnDisk
    PROVE  StorageInv'
<1> USE StorageAssumption DEF Dirs
<1>0. /\ RowsOK /\ DirsOK /\ MediaOnDisk
      /\ PruneTakesExpired /\ RowBeforeDir /\ UnknownAreYoung /\ JobsKeepPublic
  BY TypeParts DEF TypeInv, StorageInv
<1> USE DEF StorageInv, Ages
<1>1. ASSUME NEW c \in Clients, NEW j \in Jobs, WipeDirs(c, j) PROVE StorageInv'
  <2>1. /\ UNCHANGED <<vars, expired, sweepers, redone>>
        /\ wipe' = [wipe EXCEPT ![c] = j] /\ wiped' = wiped \cup {j}
        /\ pub' = [pub EXCEPT ![j] = "none"] /\ tmp' = [tmp EXCEPT ![j] = "none"]
        /\ files' = [files EXCEPT ![j] = {}]
    BY <1>1 DEF WipeDirs, RemoveDirs
  <2>2. DirsOK'
    BY <1>0, <2>1 DEF DirsOK, sweepers
  <2>3. MediaOnDisk'
    BY <1>0, <2>1 DEF MediaOnDisk, DirsOK, vars, rows
  <2>4. PruneTakesExpired' /\ RowBeforeDir' /\ UnknownAreYoung' /\ JobsKeepPublic'
    BY <1>0, <2>1 DEF DirsOK, PruneTakesExpired, RowBeforeDir, UnknownAreYoung, JobsKeepPublic,
                      Exists, sweepers, vars, rows
  <2> QED BY <2>2, <2>3, <2>4
<1>2. ASSUME NEW c \in Clients, ForceRows(c) PROVE StorageInv'
  <2>1. /\ UNCHANGED <<art, dirs, expired, sweepers, wiped>>
        /\ wipe' = [wipe EXCEPT ![c] = NoJob]
    BY <1>2 DEF ForceRows, ForceArchive
  <2>2. DirsOK'
    BY <1>0, <2>1 DEF DirsOK, dirs, sweepers
  <2> QED BY <1>0, <2>1, <2>2 DEF MediaOnDisk, PruneTakesExpired, RowBeforeDir, UnknownAreYoung,
                                  JobsKeepPublic, RowsStay, dirs, sweepers
<1>3. ASSUME NEW c \in Clients, DropWipe(c) PROVE StorageInv'
  <2>1. /\ UNCHANGED <<vars, dirs, expired, sweepers, wiped>>
        /\ wipe' = [wipe EXCEPT ![c] = NoJob]
    BY <1>3 DEF DropWipe
  <2>2. DirsOK'
    BY <1>0, <2>1 DEF DirsOK, dirs, sweepers
  <2> QED BY <1>0, <2>1, <2>2 DEF MediaOnDisk, PruneTakesExpired, RowBeforeDir, UnknownAreYoung,
                                  JobsKeepPublic, Exists, dirs, sweepers, vars, rows
<1>4. CASE PruneRead
  <2>1. /\ UNCHANGED <<vars, dirs, expired, clean, wipe, wiped>>
        /\ prune' = [pc |-> "remove", ids |-> ExpiredIds, todo |-> ExpiredIds]
        /\ ExpiredIds \subseteq expired /\ ExpiredIds \subseteq Jobs
    BY <1>4 DEF PruneRead, ExpiredIds
  <2>2. DirsOK'
    BY <1>0, <2>1 DEF DirsOK, dirs
  <2>3. PruneTakesExpired'
    BY <2>1 DEF PruneTakesExpired
  <2> QED BY <1>0, <2>1, <2>2, <2>3 DEF MediaOnDisk, RowBeforeDir, UnknownAreYoung,
                                        JobsKeepPublic, Exists, dirs, vars, rows
<1>5. ASSUME NEW j \in Jobs, PruneRemove(j) PROVE StorageInv'
  <2>1. /\ UNCHANGED <<vars, expired, clean, wipe, wiped, redone>>
        /\ j \in prune.todo
        /\ pub' = [pub EXCEPT ![j] = "none"] /\ tmp' = [tmp EXCEPT ![j] = "none"]
        /\ files' = [files EXCEPT ![j] = {}]
        /\ \/ prune' = [prune EXCEPT !.pc = "hide", !.todo = prune.ids]
           \/ prune' = [prune EXCEPT !.todo = @ \ {j}]
    BY <1>5 DEF PruneRemove, RemoveDirs
  <2>a. /\ prune' \in [pc : {"idle", "remove", "hide"}, ids : SUBSET Jobs, todo : SUBSET Jobs]
        /\ prune'.ids = prune.ids /\ prune'.todo \subseteq prune.ids \cup prune.todo
    <3>0. prune \in [pc : {"idle", "remove", "hide"}, ids : SUBSET Jobs, todo : SUBSET Jobs]
      BY <1>0 DEF DirsOK
    <3>1. CASE prune' = [prune EXCEPT !.pc = "hide", !.todo = prune.ids]
      BY <3>0, <3>1
    <3>2. CASE prune' = [prune EXCEPT !.todo = @ \ {j}]
      BY <3>0, <3>2
    <3> QED BY <2>1, <3>1, <3>2
  <2>2. DirsOK'
    BY <1>0, <2>1, <2>a DEF DirsOK
  <2>3. MediaOnDisk'
    BY <1>0, <2>1 DEF MediaOnDisk, DirsOK, PruneTakesExpired, vars, rows
  <2>4. PruneTakesExpired'
    BY <1>0, <2>1, <2>a DEF PruneTakesExpired
  <2> QED BY <1>0, <2>1, <2>2, <2>3, <2>4 DEF DirsOK, RowBeforeDir, UnknownAreYoung, JobsKeepPublic,
                                              Exists, vars, rows
<1>6. ASSUME NEW j \in Jobs, PruneHide(j) PROVE StorageInv'
  <2>1. /\ UNCHANGED <<vars, dirs, expired, clean, wipe, wiped>>
        /\ prune' = IdlePrune \/ prune' = [prune EXCEPT !.todo = @ \ {j}]
    BY <1>6 DEF PruneHide
  <2>2. DirsOK' /\ prune'.ids \subseteq prune.ids /\ prune'.todo \subseteq prune.todo
    BY <1>0, <2>1 DEF DirsOK, IdlePrune, dirs
  <2> QED BY <1>0, <2>1, <2>2 DEF MediaOnDisk, PruneTakesExpired, RowBeforeDir, UnknownAreYoung,
                                  JobsKeepPublic, Exists, dirs, vars, rows
<1>7. CASE CleanReadKnown
  <2>1. /\ UNCHANGED <<vars, dirs, expired, prune, wipe, wiped>>
        /\ clean' = [pc |-> "known", known |-> {j \in Jobs : Exists(j)},
                      active |-> {}, chosen |-> {}]
    BY <1>7 DEF CleanReadKnown, CleanOnly, IdleClean
  <2>2. DirsOK'
    BY <1>0, <2>1 DEF DirsOK, dirs
  <2>3. UnknownAreYoung' /\ JobsKeepPublic'
    BY <1>0, <2>1 DEF RowBeforeDir, UnknownAreYoung, JobsKeepPublic, dirs
  <2> QED BY <1>0, <2>1, <2>2, <2>3 DEF MediaOnDisk, PruneTakesExpired, RowBeforeDir, Exists,
                                        dirs, vars, rows
<1>8. CASE CleanReadActive
  <2>1. /\ UNCHANGED <<vars, dirs, expired, prune, wipe, wiped>>
        /\ clean.pc = "known"
        /\ clean' = [clean EXCEPT !.pc = "active",
                                  !.active = {j \in Jobs : status[j] \in ActiveStatus}]
    BY <1>8 DEF CleanReadActive, CleanOnly
  <2>2. DirsOK'
    BY <1>0, <2>1 DEF DirsOK, dirs
  <2>3. UnknownAreYoung' /\ JobsKeepPublic'
    BY <1>0, <2>1 DEF DirsOK, UnknownAreYoung, JobsKeepPublic, dirs
  <2> QED BY <1>0, <2>1, <2>2, <2>3 DEF MediaOnDisk, PruneTakesExpired, RowBeforeDir, Exists,
                                        dirs, vars, rows
<1>9. CASE CleanScan
  <2> DEFINE Chosen == {<<"tmp", d>> : d \in {d \in Dirs \ clean.active : tmp[d] = "old"}}
                          \cup {<<"pub", d>> : d \in {d \in Dirs \ clean.known : pub[d] = "old"}}
  <2>1. /\ UNCHANGED <<vars, dirs, expired, prune, wipe, wiped>>
        /\ clean.pc = "active"
        /\ clean' = [pc |-> "remove", known |-> {}, active |-> {}, chosen |-> Chosen]
    BY <1>9 DEF CleanScan, CleanOnly, IdleClean
  <2>2. Chosen \in SUBSET ({"tmp", "pub"} \X Dirs)
    OBVIOUS
  <2>3. DirsOK'
    <3> HIDE DEF Chosen
    <3> QED BY <1>0, <2>1, <2>2 DEF DirsOK, dirs
  <2>4. \A j \in Jobs : <<"pub", j>> \notin Chosen
    BY <1>0, <2>1 DEF UnknownAreYoung
  <2>5. UnknownAreYoung' /\ JobsKeepPublic'
    <3> HIDE DEF Chosen
    <3> QED BY <2>1, <2>4 DEF UnknownAreYoung, JobsKeepPublic
  <2> QED BY <1>0, <2>1, <2>3, <2>5 DEF MediaOnDisk, PruneTakesExpired, RowBeforeDir, Exists,
                                        dirs, vars, rows
<1>10. CASE CleanEnds
  <2>1. UNCHANGED <<vars, dirs, expired, prune, wipe, wiped>> /\ clean' = IdleClean
    BY <1>10 DEF CleanEnds, CleanOnly
  <2>2. DirsOK'
    BY <1>0, <2>1 DEF DirsOK, IdleClean, dirs
  <2> QED BY <1>0, <2>1, <2>2 DEF MediaOnDisk, PruneTakesExpired, RowBeforeDir, UnknownAreYoung,
                                  JobsKeepPublic, IdleClean, Exists, dirs, vars, rows
<1>11. ASSUME NEW d \in Dirs, CleanRemove(d) PROVE StorageInv'
  <2>1. UNCHANGED <<vars, expired, prune, wipe, wiped, redone>>
    BY <1>11 DEF CleanRemove, CleanOnly
  <2>2. CASE /\ tmp' = [tmp EXCEPT ![d] = "none"]
             /\ clean' = [clean EXCEPT !.chosen = @ \ {<<"tmp", d>>}]
             /\ UNCHANGED <<pub, files>>
    <3>1. DirsOK'
      BY <1>0, <2>1, <2>2 DEF DirsOK
    <3>2. UnknownAreYoung' /\ JobsKeepPublic'
      BY <1>0, <2>2 DEF DirsOK, UnknownAreYoung, JobsKeepPublic
    <3> QED BY <1>0, <2>1, <2>2, <3>1, <3>2 DEF MediaOnDisk, PruneTakesExpired, RowBeforeDir,
                                                Exists, vars, rows
  <2>3. CASE /\ <<"pub", d>> \in clean.chosen
             /\ pub' = [pub EXCEPT ![d] = "none"]
             /\ files' = [j \in Jobs |-> IF j = d THEN {} ELSE files[j]]
             /\ clean' = [clean EXCEPT !.chosen = @ \ {<<"pub", d>>}]
             /\ UNCHANGED tmp
    <3>1. d \notin Jobs
      BY <1>0, <2>3 DEF JobsKeepPublic
    <3>2. files' = files /\ \A j \in Jobs : pub'[j] = pub[j]
      BY <1>0, <2>3, <3>1 DEF DirsOK
    <3>3. DirsOK'
      BY <1>0, <2>1, <2>3, <3>2 DEF DirsOK
    <3>4. UnknownAreYoung' /\ JobsKeepPublic'
      BY <1>0, <2>3, <3>2 DEF DirsOK, UnknownAreYoung, JobsKeepPublic
    <3> QED BY <1>0, <2>1, <3>2, <3>3, <3>4 DEF MediaOnDisk, PruneTakesExpired, RowBeforeDir,
                                                Exists, vars, rows
  <2> QED BY <1>11, <2>2, <2>3 DEF CleanRemove
<1>12. ASSUME NEW d \in Dirs, AgeDir(d) PROVE StorageInv'
  <2>1. /\ UNCHANGED <<vars, files, redone, expired, sweepers, wipe, wiped>>
        /\ clean.pc \notin {"known", "active"}
        /\ \/ pub[d] = "young" /\ pub' = [pub EXCEPT ![d] = "old"] /\ UNCHANGED tmp
           \/ tmp[d] = "young" /\ tmp' = [tmp EXCEPT ![d] = "old"] /\ UNCHANGED pub
    BY <1>12 DEF AgeDir
  <2>2. DirsOK'
    BY <1>0, <2>1 DEF DirsOK, sweepers
  <2>3. RowBeforeDir'
    BY <1>0, <2>1 DEF DirsOK, RowBeforeDir, Exists, vars, rows
  <2> QED BY <1>0, <2>1, <2>2, <2>3 DEF MediaOnDisk, PruneTakesExpired, UnknownAreYoung,
                                        JobsKeepPublic, sweepers, vars, rows
<1>13. ASSUME NEW j \in Jobs, Expire(j) PROVE StorageInv'
  <2>1. UNCHANGED <<vars, dirs, sweepers, wipe, wiped>> /\ expired' = expired \cup {j}
    BY <1>13 DEF Expire
  <2>2. DirsOK'
    BY <1>0, <2>1 DEF DirsOK, dirs, sweepers
  <2> QED BY <1>0, <2>1, <2>2 DEF MediaOnDisk, PruneTakesExpired, RowBeforeDir, UnknownAreYoung,
                                  JobsKeepPublic, Exists, dirs, sweepers, vars, rows
<1>14. CASE RestartOnDisk
  <2>1. /\ UNCHANGED <<art, dirs, expired, wiped>>
        /\ prune' = IdlePrune /\ clean' = IdleClean /\ wipe' = [c \in Clients |-> NoJob]
    BY <1>14 DEF RestartOnDisk, Restart
  <2>2. DirsOK'
    BY <1>0, <2>1 DEF DirsOK, IdlePrune, IdleClean, dirs
  <2> QED BY <1>0, <2>1, <2>2 DEF MediaOnDisk, PruneTakesExpired, RowBeforeDir, UnknownAreYoung,
                                  JobsKeepPublic, RowsStay, IdlePrune, IdleClean, dirs
<1> QED BY <1>1, <1>2, <1>3, <1>4, <1>5, <1>6, <1>7, <1>8, <1>9, <1>10, <1>11, <1>12, <1>13, <1>14
        DEF Prune, Clean

(* The steps of tasks that write directories and files: a row of an output   *)
(* and its file come together, and directories are made for rows only.       *)
LEMMA TaskOnDiskStep ==
    ASSUME TypeInv, StorageInv, RowsStay, NEW s \in Slots,
           \/ WorkOnDisk(s) \/ SucceedOnDisk(s) \/ FailOnDisk(s)
           \/ Overwrite(s) \/ ReplaceOnDisk(s) \/ ArchiveOnDisk(s)
    PROVE  StorageInv'
<1> USE StorageAssumption DEF Dirs
<1>0. /\ RowsOK /\ TasksOK /\ DirsOK /\ MediaOnDisk
      /\ PruneTakesExpired /\ RowBeforeDir /\ UnknownAreYoung /\ JobsKeepPublic
  BY TypeParts DEF TypeInv, StorageInv
<1> USE DEF StorageInv, Ages
<1> DEFINE j == task[s].job
<1>r. ASSUME DirsOK', MediaOnDisk', UNCHANGED <<expired, sweepers>>, Exists(j), j \in Jobs,
             \A k \in Jobs : pub'[k] # pub[k] => k = j /\ pub'[k] = "young"
      PROVE  StorageInv'
  <2>1. PruneTakesExpired' /\ JobsKeepPublic'
    BY <1>0, <1>r DEF PruneTakesExpired, JobsKeepPublic, sweepers
  <2>2. RowBeforeDir'
    BY <1>0, <1>r DEF RowBeforeDir, RowsStay
  <2>3. UnknownAreYoung'
    BY <1>0, <1>r DEF UnknownAreYoung, sweepers
  <2> QED BY <1>r, <2>1, <2>2, <2>3
<1>1. CASE WorkOnDisk(s)
  <2>1. /\ UNCHANGED <<art, expired, sweepers, wipe, wiped, files, redone>>
        /\ \/ pub' = Made(pub, j) /\ tmp' = Made(tmp, j)
           \/ UNCHANGED <<pub, tmp>>
        /\ task[s].pc # "idle"
    BY <1>1 DEF WorkOnDisk, Work, At, MakeDirs, Outside, dirs
  <2>2. j \in Jobs /\ Exists(j)
    BY <2>1, TaskHasRow
  <2>3. DirsOK' /\ \A k \in Jobs : pub'[k] # pub[k] => k = j /\ pub'[k] = "young"
    BY <1>0, <2>1, <2>2 DEF DirsOK, Made, sweepers
  <2> QED BY <1>0, <1>r, <2>1, <2>2, <2>3 DEF MediaOnDisk
<1>2. CASE SucceedOnDisk(s)
  <2>1. /\ UNCHANGED <<expired, sweepers, wipe, wiped, redone>>
        /\ tmp' = [tmp EXCEPT ![j] = "none"]
        /\ task[s].pc # "idle"
    BY <1>2 DEF SucceedOnDisk, AttemptSucceeds, Outside
  <2>2. j \in Jobs /\ Exists(j)
    BY <2>1, TaskHasRow
  <2>3. CASE /\ files' = [files EXCEPT ![j] = @ \cup {"media"}]
             /\ pub' = [pub EXCEPT ![j] = "young"]
    <3>1. DirsOK' /\ \A k \in Jobs : pub'[k] # pub[k] => k = j /\ pub'[k] = "young"
      BY <1>0, <2>1, <2>2, <2>3 DEF DirsOK, sweepers
    <3>2. \A k \in Jobs : k # j => art'[k] = art[k]
      BY <1>0, <1>2 DEF SucceedOnDisk, AttemptSucceeds, RowsOK
    <3>3. MediaOnDisk'
      BY <1>0, <2>1, <2>2, <2>3, <3>2 DEF MediaOnDisk, DirsOK
    <3> QED BY <1>r, <2>1, <2>2, <3>1, <3>3
  <2>4. CASE UNCHANGED <<art, files>> /\ pub' = Made(pub, j)
    <3>1. DirsOK' /\ \A k \in Jobs : pub'[k] # pub[k] => k = j /\ pub'[k] = "young"
      BY <1>0, <2>1, <2>2, <2>4 DEF DirsOK, Made, sweepers
    <3> QED BY <1>0, <1>r, <2>1, <2>2, <2>4, <3>1 DEF MediaOnDisk
  <2> QED BY <1>2, <2>3, <2>4 DEF SucceedOnDisk
<1>3. CASE FailOnDisk(s)
  <2>1. /\ UNCHANGED <<art, expired, sweepers, wipe, wiped, files, redone>>
        /\ \/ pub' = Made(pub, j) /\ tmp' = Made(tmp, j)
           \/ UNCHANGED <<pub, tmp>>
        /\ task[s].pc # "idle"
    BY <1>3 DEF FailOnDisk, AttemptFails, TaskPanics, MakeDirs, Outside, dirs, rows
  <2>2. j \in Jobs /\ Exists(j)
    BY <2>1, TaskHasRow
  <2>3. DirsOK' /\ \A k \in Jobs : pub'[k] # pub[k] => k = j /\ pub'[k] = "young"
    BY <1>0, <2>1, <2>2 DEF DirsOK, Made, sweepers
  <2> QED BY <1>0, <1>r, <2>1, <2>2, <2>3 DEF MediaOnDisk
<1>4. CASE Overwrite(s)
  <2>1. /\ UNCHANGED <<vars, pub, tmp, expired, sweepers, wipe, wiped>>
        /\ files' = [files EXCEPT ![j] = @ \ {"media"}]
        /\ redone' = redone \cup {j}
        /\ task[s].pc # "idle"
    BY <1>4 DEF Overwrite, At
  <2>2. j \in Jobs /\ Exists(j)
    BY <2>1, TaskHasRow
  <2>3. DirsOK'
    BY <1>0, <2>1, <2>2 DEF DirsOK, sweepers
  <2>4. MediaOnDisk'
    BY <1>0, <2>1, <2>2 DEF MediaOnDisk, DirsOK, vars, rows
  <2> QED BY <1>r, <2>1, <2>2, <2>3, <2>4
<1>5. CASE ReplaceOnDisk(s)
  <2>1. /\ UNCHANGED <<art, pub, tmp, files, redone, expired, sweepers, wipe, wiped>>
        /\ task[s].pc # "idle"
    BY <1>5 DEF ReplaceOnDisk, ReplaceCandidates, At, Outside
  <2>2. j \in Jobs /\ Exists(j)
    BY <2>1, TaskHasRow
  <2>3. DirsOK'
    BY <1>0, <2>1 DEF DirsOK, sweepers
  <2> QED BY <1>0, <1>r, <2>1, <2>2, <2>3 DEF MediaOnDisk
<1>6. CASE ArchiveOnDisk(s)
  <2>1. /\ UNCHANGED <<tmp, redone, expired, sweepers, wipe, wiped>>
        /\ pub' = Made(pub, j)
        /\ \/ files' = files
           \/ files' = [files EXCEPT ![j] = @ \cup (art'[j] \cap {"archive"})]
        /\ task[s].pc # "idle"
    BY <1>6 DEF ArchiveOnDisk, ClearArchive, At, Outside
  <2>2. j \in Jobs /\ Exists(j)
    BY <2>1, TaskHasRow
  <2>3. \A k \in Jobs : "media" \in art'[k] => "media" \in art[k]
    BY <1>0, <1>6 DEF ArchiveOnDisk, ClearArchive, StoreArchive, TaskFails, RowsOK
  <2>4. DirsOK' /\ \A k \in Jobs : pub'[k] # pub[k] => k = j /\ pub'[k] = "young"
    BY <1>0, <2>1, <2>2 DEF DirsOK, Made, sweepers
  <2>5. MediaOnDisk'
    BY <1>0, <2>1, <2>2, <2>3 DEF MediaOnDisk, DirsOK
  <2> QED BY <1>r, <2>1, <2>2, <2>4, <2>5
<1> QED BY <1>1, <1>2, <1>3, <1>4, <1>5, <1>6

(* Every step keeps the sweepers away from what is still promised.           *)
LEMMA StorageInvStep ==
    ASSUME TypeInv, StorageInv, [StorageNext]_allVars
    PROVE  TypeInv' /\ StorageInv'
<1>0. /\ RowsOK /\ TasksOK /\ DirsOK /\ MediaOnDisk
      /\ PruneTakesExpired /\ RowBeforeDir /\ UnknownAreYoung /\ JobsKeepPublic
  BY TypeParts DEF TypeInv, StorageInv
<1>1. [Next]_vars
  BY <1>0, StorageStepIsStep
<1>2. RowsStay /\ TypeInv'
  BY <1>1, RowsStayStep, TypeInvStep
<1>3. ASSUME UNCHANGED storageVars,
             \A j \in Jobs : "media" \in art'[j] => "media" \in art[j]
      PROVE  StorageInv'
  <2>1. UNCHANGED <<pub, tmp, files, expired, prune, clean, wipe, wiped, redone>>
    BY <1>3 DEF storageVars, dirs, sweepers
  <2> QED BY <1>0, <1>2, <1>3, <2>1 DEF StorageInv, DirsOK, MediaOnDisk, PruneTakesExpired,
                                        RowBeforeDir, UnknownAreYoung, JobsKeepPublic, RowsStay
<1>4. CASE QuietStep
  <2>1. UNCHANGED storageVars
    BY <1>4 DEF QuietStep
  <2>2. \A j \in Jobs : "media" \in art'[j] => "media" \in art[j]
    <3>1. ASSUME NEW s \in Slots, QuietTaskStep(s) PROVE UNCHANGED art
      BY <3>1 DEF QuietTaskStep, Begin, StartResolve, TaskFails, AnnounceCandidates, AutoSelect,
         NothingRecommended, SetSelected, MarkSelected, TaskEnqueue, PlanAttempts, CheckOutputs,
         MarkReady, MarkFailed, At, rows
    <3>2. ASSUME NEW c \in Clients, QuietRequest(c)
          PROVE  \A j \in Jobs : "media" \in art'[j] => "media" \in art[j]
      BY <1>0, <3>2 DEF QuietRequest, Submit, SelectCheck, Resume, AttachProfile, ReqStep, SelectSet,
         SelectMark, DeleteCandidates, DeleteArtifacts, ReqEnqueue, Disconnect, RowsOK, rows
    <3>3. UNCHANGED art \/ \E c \in Clients : QuietRequest(c)
      BY <1>4, <3>1 DEF QuietStep, Receive, Spawn, rows
    <3> QED BY <3>2, <3>3
  <2> QED BY <1>2, <1>3, <2>1, <2>2
<1>5. CASE UNCHANGED allVars
  <2>1. UNCHANGED storageVars /\ art' = art
    BY <1>5 DEF allVars, vars, rows
  <2> QED BY <1>2, <1>3, <2>1
<1> QED BY <1>2, <1>4, <1>5, SweepStep, TaskOnDiskStep DEF StorageNext

(* In every reachable state.                                                 *)
LEMMA StorageInvariance == StorageSpec => [](TypeInv /\ StorageInv)
<1>1. StorageInit => TypeInv /\ StorageInv
  <2> SUFFICES ASSUME StorageInit PROVE TypeInv /\ StorageInv
    OBVIOUS
  <2>1. TypeInv
    BY TypeInvInit DEF StorageInit
  <2>2. DirsOK
    BY DEF StorageInit, DirsOK, Dirs, Ages, IdlePrune, IdleClean
  <2>3. MediaOnDisk /\ PruneTakesExpired /\ RowBeforeDir /\ UnknownAreYoung /\ JobsKeepPublic
    BY StorageAssumption
       DEF StorageInit, Init, MediaOnDisk, PruneTakesExpired, RowBeforeDir, UnknownAreYoung,
           JobsKeepPublic, Dirs, IdlePrune, IdleClean
  <2> QED BY <2>1, <2>2, <2>3 DEF StorageInv
<1>2. TypeInv /\ StorageInv /\ [StorageNext]_allVars => TypeInv' /\ StorageInv'
  BY StorageInvStep
<1> QED BY <1>1, <1>2, PTL DEF StorageSpec

(* The rows of the model with directories behave as those of the dispatcher  *)
(* alone, so every theorem about the dispatcher holds here too.              *)
THEOREM StorageKeepsDispatch == StorageSpec => Spec
<1>1. StorageInit => Init
  BY DEF StorageInit
<1>2. StorageInv /\ [StorageNext]_allVars => [Next]_vars
  BY StorageStepIsStep DEF StorageInv
<1> QED BY <1>1, <1>2, StorageInvariance, PTL DEF StorageSpec, Spec

(* A media job that is "ready", young enough, never archived by force and    *)
(* none of whose outputs was opened for writing again has its output on      *)
(* disk, whatever the sweepers, the crashes and the other tasks and handlers *)
(* of the job do.                                                            *)
THEOREM ReadyMediaStaysOnDisk == StorageSpec => []ReadyMediaHasFiles
<1>1. StorageInv /\ ReadyMediaHasArtifact => ReadyMediaHasFiles
  BY DEF StorageInv, MediaOnDisk, ReadyMediaHasArtifact, ReadyMediaHasFiles
<1> QED BY <1>1, StorageInvariance, StorageKeepsDispatch, ReadyMeansDelivered, PTL

----------------------------------------------------------------------------
(* The cleanup and the running jobs.                                         *)

(* The process has crashed as often as it has been booted again.             *)
LEMMA CrashesCount ==
    ASSUME TypeInv, [Next]_vars
    PROVE  /\ restarts' = restarts \/ Restart
           /\ Restart => restarts' # 0
<1>0. TasksOK /\ ReqsOK /\ CountsOK
  BY TypeParts DEF TypeInv
<1>1. ASSUME NEW s \in Slots, TaskStep(s) PROVE restarts' = restarts
  BY <1>0, <1>1, TaskActionFrame
<1>2. ASSUME NEW c \in Clients, ReqStep(c) \/ Request(c) PROVE restarts' = restarts
  BY <1>0, <1>2, ReqActionFrame
<1>3. restarts' = restarts \/ Restart
  BY <1>1, <1>2 DEF Next, Receive, Spawn, TaskPanics, Disconnect, vars
<1>4. Restart => restarts' # 0
  BY <1>0 DEF Restart, CountsOK
<1> QED BY <1>3, <1>4

(* A job that has ended stays so, and until the next boot a dispatched one   *)
(* is not resolved again: nobody but its one task writes its status.         *)
LEMMA StatusKept ==
    ASSUME LeftAlone, TypeInv, IdleHoldsNothing, PipelineInv, [Next]_vars, NEW j \in Jobs
    PROVE  /\ status[j] \in Ended => status'[j] \in Ended
           /\ status[j] \in Dispatched => status'[j] \in Dispatched \/ Restart
<1> USE DEF Ended, Dispatched
<1>0. RowsOK /\ TasksOK /\ ReqsOK /\ CountsOK /\ TaskRefs
  BY TypeParts DEF TypeInv
<1>1. ASSUME NEW s \in Slots, TaskStep(s)
      PROVE  /\ status[j] \in Ended => status'[j] = status[j]
             /\ status[j] \in Dispatched => status'[j] \in Dispatched
  <2>1. CASE task[s].job # j
    BY <1>0, <1>1, <2>1, TaskActionRow
  <2>2. CASE task[s].job = j
    <3>1. TaskFits(s) /\ task[s].pc # "idle"
      BY <1>0, <1>1, TaskActionRow DEF PipelineInv
    <3>2. CASE status[j] \in Dispatched
      BY <1>0, <1>1, <2>2, <3>1, <3>2
         DEF TaskFits, StatusFor, Waiting, ActiveStatus, TaskStep, Begin, StartResolve, TaskFails,
             ClearArchive, StoreArchive, ReplaceCandidates, AnnounceCandidates, AutoSelect,
             NothingRecommended, SetSelected, MarkSelected, TaskEnqueue, PlanAttempts, Work,
             AttemptSucceeds, AttemptFails, CheckOutputs, MarkReady, MarkFailed, SetStatus, At,
             RowsOK, rows
    <3> QED BY <3>2
  <2> QED BY <2>1, <2>2
<1>2. ASSUME NEW c \in Clients, ReqStep(c) \/ Request(c)
      PROVE  status'[j] = status[j] \/ (~Exists(j) /\ status'[j] = "queued")
  <2>1. ReqFits(c)
    BY DEF PipelineInv
  <2>2. \/ ReqEnqueue(c)
        \/ \E k \in Jobs : Submit(c, k) \/ AttachProfile(c, k)
    BY <1>2, <2>1, HandlersLeftAlone
  <2> QED BY <1>0, <2>2 DEF ReqEnqueue, Submit, AttachProfile, SetStatus, RowsOK, rows
<1>4. CASE Restart
  BY <1>0, <1>4 DEF Restart, Pending, ActiveStatus
<1>5. CASE UNCHANGED rows
  BY <1>5 DEF rows
<1>6. ~Exists(j) => status[j] \notin Dispatched
  BY DEF Exists
<1>7. ASSUME NEW s \in Slots, TaskStep(s)
      PROVE  /\ status[j] \in Ended => status'[j] \in Ended
             /\ status[j] \in Dispatched => status'[j] \in Dispatched
  BY <1>1, <1>7
<1>8. ASSUME NEW c \in Clients, ReqStep(c) \/ Request(c)
      PROVE  /\ status[j] \in Ended => status'[j] \in Ended
             /\ status[j] \in Dispatched => status'[j] \in Dispatched
  BY <1>2, <1>6, <1>8
<1> QED BY <1>4, <1>5, <1>7, <1>8 DEF Next, Receive, Spawn, TaskPanics, Disconnect, vars

(* What a step with directories must respect so that no temporary directory  *)
(* of a running job comes into the sight of a cleanup that goes on.          *)
TmpKept ==
    /\ \A j \in Jobs : tmp'[j] # "none" => tmp[j] # "none" \/ status'[j] \in Dispatched
    /\ clean' = clean
    /\ clean.pc = "active" => \A j \in Jobs : tmp'[j] = "old" => tmp[j] = "old"

(* Every step but those of the cleanup itself and a boot respects it.        *)
LEMMA OthersKeepTmp ==
    ASSUME TypeInv, DirsOK, \A s \in Slots : TaskFits(s), [StorageNext]_allVars
    PROVE  TmpKept \/ Clean \/ RestartOnDisk
<1> USE StorageAssumption DEF Dirs, Ages
<1>0. RowsOK /\ TasksOK /\ DirsOK
  BY TypeParts DEF TypeInv
<1>u. ASSUME UNCHANGED <<tmp, clean>> PROVE TmpKept
  BY <1>u DEF TmpKept
<1>1. CASE QuietStep \/ UNCHANGED allVars
  BY <1>1, <1>u DEF QuietStep, allVars, storageVars, dirs, sweepers
<1>2. ASSUME NEW s \in Slots, WorkOnDisk(s) \/ SucceedOnDisk(s) \/ FailOnDisk(s) PROVE TmpKept
  <2> DEFINE j == task[s].job
  <2>1. /\ clean' = clean
        /\ \/ UNCHANGED tmp
           \/ tmp' = [tmp EXCEPT ![j] = "none"]
           \/ At(s, "attempt") /\ tmp' = Made(tmp, j)
    BY <1>2 DEF WorkOnDisk, SucceedOnDisk, FailOnDisk, MakeDirs, Outside, sweepers, dirs
  <2>2. task[s].pc # "idle"
    BY <1>2 DEF WorkOnDisk, SucceedOnDisk, FailOnDisk, Work, AttemptSucceeds, AttemptFails,
                TaskPanics, At
  <2>3. j \in Jobs
    BY <2>2, TaskHasRow
  <2>4. At(s, "attempt") => status'[j] \in Dispatched
    <3>1. At(s, "attempt") => status[j] \in {"candidate_selected", "processing"}
      BY DEF TaskFits, StatusFor, At
    <3>2. status'[j] \in {status[j], "processing", "absent"} \ {"absent"} \/ status'[j] = status[j]
      BY <1>0, <1>2, <2>3 DEF WorkOnDisk, SucceedOnDisk, FailOnDisk, Work, AttemptSucceeds,
         AttemptFails, TaskPanics, SetStatus, RowsOK, rows
    <3> QED BY <3>1, <3>2 DEF Dispatched
  <2> QED BY <1>0, <2>1, <2>3, <2>4 DEF TmpKept, Made, DirsOK
<1>3. ASSUME NEW s \in Slots, Overwrite(s) \/ ReplaceOnDisk(s) \/ ArchiveOnDisk(s) PROVE TmpKept
  BY <1>3, <1>u DEF Overwrite, ReplaceOnDisk, ArchiveOnDisk, Outside, sweepers
<1>4. ASSUME NEW c \in Clients, NEW j \in Jobs, WipeDirs(c, j) PROVE TmpKept
  BY <1>0, <1>4 DEF WipeDirs, RemoveDirs, TmpKept, DirsOK, sweepers
<1>5. ASSUME NEW c \in Clients, ForceRows(c) \/ DropWipe(c) PROVE TmpKept
  BY <1>5, <1>u DEF ForceRows, DropWipe, dirs, sweepers
<1>6. CASE Prune
  <2>1. CASE PruneRead
    BY <2>1, <1>u DEF PruneRead, dirs
  <2>2. ASSUME NEW j \in Jobs, PruneRemove(j) PROVE TmpKept
    BY <1>0, <2>2 DEF PruneRemove, RemoveDirs, TmpKept, DirsOK
  <2>3. ASSUME NEW j \in Jobs, PruneHide(j) PROVE TmpKept
    BY <2>3, <1>u DEF PruneHide, dirs
  <2> QED BY <1>6, <2>1, <2>2, <2>3 DEF Prune
<1>7. ASSUME NEW d \in Dirs, AgeDir(d) PROVE TmpKept
  BY <1>0, <1>7 DEF AgeDir, TmpKept, DirsOK, sweepers
<1>8. ASSUME NEW j \in Jobs, Expire(j) PROVE TmpKept
  BY <1>8, <1>u DEF Expire, dirs, sweepers
<1> QED BY <1>1, <1>2, <1>3, <1>4, <1>5, <1>6, <1>7, <1>8 DEF StorageNext

(* The cleanup's own steps: what it reads as not active and finds old has    *)
(* ended, because what was dispatched and is not active has.                 *)
LEMMA CleanStep ==
    ASSUME DirsOK, CleanupInv, Clean
    PROVE  CleanupInv'
<1> USE StorageAssumption DEF Dirs, CleanupInv
<1>v. UNCHANGED vars
  BY DEF Clean, CleanReadKnown, CleanReadActive, CleanScan, CleanEnds, CleanRemove, CleanOnly
<1>w. UNCHANGED <<status, restarts>>
  BY <1>v DEF vars, rows
<1>1. CASE CleanReadKnown
  BY <1>1, <1>w DEF CleanReadKnown, IdleClean, dirs
<1>2. CASE CleanReadActive
  <2>1. /\ UNCHANGED tmp
        /\ clean'.active = {j \in Jobs : status[j] \in ActiveStatus}
        /\ clean'.chosen = clean.chosen
    BY <1>2 DEF CleanReadActive, DirsOK, dirs
  <2>2. \A j \in Jobs : status[j] \in Dispatched /\ status[j] \notin ActiveStatus
                            => status[j] \in Ended
    BY DEF Dispatched, Ended, ActiveStatus
  <2> QED BY <1>w, <2>1, <2>2
<1>3. CASE CleanScan
  <2>1. /\ UNCHANGED tmp
        /\ clean.pc = "active" /\ clean'.pc = "remove"
        /\ \A j \in Jobs : <<"tmp", j>> \in clean'.chosen => j \notin clean.active /\ tmp[j] = "old"
    BY <1>3 DEF CleanScan, IdleClean, dirs
  <2> QED BY <1>w, <2>1
<1>4. CASE CleanEnds
  BY <1>4, <1>w DEF CleanEnds, IdleClean, dirs
<1>5. ASSUME NEW d \in Dirs, CleanRemove(d) PROVE CleanupInv'
  <2>1. /\ clean'.pc = "remove" /\ clean'.chosen \subseteq clean.chosen
        /\ \A j \in Jobs : tmp'[j] # "none" => tmp[j] # "none"
    BY <1>5 DEF CleanRemove, DirsOK
  <2> QED BY <1>w, <2>1
<1> QED BY <1>1, <1>2, <1>3, <1>4, <1>5 DEF Clean

(* The invariant behind the cleanup is inductive.                            *)
LEMMA CleanupStep ==
    ASSUME LeftAlone, TypeInv, IdleHoldsNothing, PipelineInv, DirsOK, CleanupInv,
           [StorageNext]_allVars
    PROVE  CleanupInv'
<1>0. [Next]_vars
  BY StorageStepIsStep
<1>1. /\ restarts' = 0 => restarts = 0
      /\ \A j \in Jobs :
            /\ status[j] \in Ended => status'[j] \in Ended
            /\ restarts' = 0 /\ status[j] \in Dispatched => status'[j] \in Dispatched
  BY <1>0, StatusKept, CrashesCount
<1>2. CASE TmpKept
  BY <1>1, <1>2 DEF TmpKept, CleanupInv
<1>3. CASE Clean
  BY <1>3, CleanStep
<1>4. CASE RestartOnDisk
  BY <1>0, <1>4, CrashesCount DEF RestartOnDisk, CleanupInv
<1> QED BY <1>2, <1>3, <1>4, OthersKeepTmp DEF PipelineInv

(* In every reachable state of an undisturbed pipeline.                      *)
LEMMA CleanupInvariance ==
    ASSUME LeftAlone
    PROVE  StorageSpec => [](TypeInv /\ PipelineInv /\ DirsOK /\ CleanupInv)
<1>1. StorageInit => CleanupInv
  BY StorageAssumption DEF StorageInit, Dirs, CleanupInv, IdleClean
<1>2. /\ TypeInv /\ IdleHoldsNothing /\ PipelineInv /\ StorageInv
      /\ CleanupInv /\ [StorageNext]_allVars
      => CleanupInv'
  BY CleanupStep DEF StorageInv
<1>3. StorageInv => DirsOK
  BY DEF StorageInv
<1> QED BY <1>1, <1>2, <1>3, PipelineInvariance, StorageKeepsDispatch, StorageInvariance, PTL
        DEF StorageSpec

(* Until the process has crashed once, the cache cleanup removes no          *)
(* temporary directory of a job that runs, however long it lets pass between *)
(* its look at the statuses and the removals.                                *)
THEOREM CleanupSparesRunning ==
    ASSUME LeftAlone
    PROVE  StorageSpec => CleanupSparesUntilCrash
<1> DEFINE Step == \A j \in Jobs :
                       restarts = 0 /\ clean' # clean /\ tmp[j] # "none" /\ tmp'[j] = "none"
                           => ~Active(j)
<1>1. TypeInv /\ PipelineInv /\ DirsOK /\ CleanupInv /\ [StorageNext]_allVars => Step
  <2> SUFFICES ASSUME TypeInv, PipelineInv, DirsOK, CleanupInv, [StorageNext]_allVars,
                      NEW j \in Jobs, restarts = 0, clean' # clean,
                      tmp[j] # "none", tmp'[j] = "none"
               PROVE  ~Active(j)
    OBVIOUS
  <2>1. ~TmpKept /\ ~RestartOnDisk
    BY DEF TmpKept, RestartOnDisk, dirs
  <2>2. Clean
    BY <2>1, OthersKeepTmp DEF PipelineInv
  <2>3. PICK d \in Dirs : CleanRemove(d)
    BY <2>2 DEF Clean, CleanReadKnown, CleanReadActive, CleanScan, CleanEnds, dirs
  <2>4. <<"tmp", j>> \in clean.chosen
    <3>1. tmp \in [Dirs -> Ages] /\ j \in Dirs
      BY DEF DirsOK, Dirs
    <3>2. <<"tmp", d>> \in clean.chosen /\ tmp' = [tmp EXCEPT ![d] = "none"]
      BY <2>3 DEF CleanRemove
    <3>3. d = j
      BY <3>1, <3>2
    <3> QED BY <3>2, <3>3
  <2> QED BY <2>4 DEF CleanupInv, Ended, Active, ActiveStatus
<1> HIDE DEF Step
<1>2. StorageSpec => [][Step]_allVars
  BY <1>1, CleanupInvariance, PTL DEF StorageSpec
<1> QED BY <1>2 DEF Step, CleanupSparesUntilCrash
=============================================================================
