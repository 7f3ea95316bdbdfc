---------------------------- MODULE JobDispatch ----------------------------
(***************************************************************************)
(* The job dispatcher of reflection-api: the `jobs` rows in SQLite, the    *)
(* bounded in-memory queue of job ids, the worker loop, the worker tasks   *)
(* it spawns under a semaphore, and the API handlers that write rows and   *)
(* enqueue them (crates/reflection-api/src/state.rs).                      *)
(*                                                                         *)
(* One action is one SQL statement (or transaction) or one queue           *)
(* operation: between two of them the code awaits, so every other task and *)
(* handler may run.  SQLite survives a crash; everything else is memory.   *)
(*                                                                         *)
(* Data that no property reads is left out: pipeline events, attempt       *)
(* counts, timestamps, the per-candidate `selected` and                    *)
(* `validation_status` columns, and the error text.                        *)
(***************************************************************************)
EXTENDS Naturals, Sequences, FiniteSets

CONSTANTS
    Jobs,         \* job ids (Uuid)
    Slots,        \* the permits of worker_slots; the task holding a permit is named after it
    Clients,      \* API handler futures that may be in flight at once
    NoJob,        \* "no job": the loop holds no id, the slot or the handler is free
    QueueCap,     \* the smallest capacity of the queue (512 in AppState::new)
    Gens,         \* names for candidate sets: each replace_candidates makes new ids
    MaxAttempts,  \* bound on the candidates one dispatch tries
    MaxRestarts,  \* bound on crashes
    MaxRequests,  \* bound on API operations
    Ops,          \* the API operations clients use
    Plans         \* the kinds of job clients submit

AllOps   == {"submit", "select", "resume", "force", "login"}
AllPlans == {"direct", "media", "page"}

ASSUME DispatchAssumption ==
    /\ NoJob \notin Jobs
    /\ IsFiniteSet(Jobs)
    /\ QueueCap \in Nat \ {0}
    /\ Gens \subseteq Nat \ {0}
    /\ MaxAttempts \in Nat \ {0}
    /\ MaxRestarts \in Nat
    /\ MaxRequests \in Nat
    /\ Ops \subseteq AllOps
    /\ Plans \subseteq AllPlans

VARIABLES
    \* The jobs row and what hangs off it in the database.
    status,    \* jobs.status, "absent" before the row is inserted
    plan,      \* jobs.discovery and jobs.outputs: direct, another discovery, or page_html
    gen,       \* the candidate set in source_candidates, NoGen when it is empty
    selected,  \* jobs.selected_candidate_ids_json, as the set the ids were taken from
    art,       \* kinds of rows in artifacts: one the outputs ask for, a page archive
    \* The process.
    queue,     \* queue_tx / queue_rx
    cap,       \* the capacity given to mpsc::channel at this boot
    held,      \* the id worker_loop has received and not yet spawned a task for
    task,      \* the spawned tasks, by permit
    req,       \* the handlers in flight
    restarts,  \* crashes so far
    requests,  \* API operations so far
    \* Auxiliary: jobs whose driver vanished half-way since the last boot.
    abandoned

rows    == <<status, plan, gen, selected, art>>
process == <<queue, cap, held, task, req>>
vars    == <<rows, process, restarts, requests, abandoned>>

NoGen == 0

(* "processing" stands for Downloading, Transcoding and Remuxing; no code    *)
(* writes Capturing or Probing.                                              *)
Status == {"absent", "queued", "resolving", "candidates_ready",
           "candidate_selected", "processing", "ready", "error", "needs_profile"}

(* The statuses recover_pending resets and active_job_id_strings returns.    *)
ActiveStatus == {"queued", "resolving", "candidate_selected", "processing"}

TaskPc == {"idle", "begin", "resolve", "resolving", "archive", "archived",
           "resolved", "autoselect", "set_selected", "mark_selected", "enqueue",
           "process", "attempt", "working", "finish", "fulfilled", "fail"}

ReqPc == {"idle", "select_set", "select_mark", "resume_candidates",
          "force_candidates", "force_artifacts", "enqueue"}

(* A task that holds nothing but the id and the snapshot's plan.             *)
TaskAt(p, j, pl) ==
    [pc |-> p, job |-> j, plan |-> pl, sel |-> NoGen, left |-> 0, ok |-> FALSE]
Handler(p, j, g) == [pc |-> p, job |-> j, sel |-> g]

IdleTask == TaskAt("idle", NoJob, "media")
IdleReq  == Handler("idle", NoJob, NoGen)

Init ==
    /\ status = [j \in Jobs |-> "absent"]
    /\ plan = [j \in Jobs |-> "media"]
    /\ gen = [j \in Jobs |-> NoGen]
    /\ selected = [j \in Jobs |-> NoGen]
    /\ art = [j \in Jobs |-> {}]
    /\ queue = <<>>
    /\ cap = QueueCap
    /\ held = NoJob
    /\ task = [s \in Slots |-> IdleTask]
    /\ req = [c \in Clients |-> IdleReq]
    /\ restarts = 0
    /\ requests = 0
    /\ abandoned = {}

----------------------------------------------------------------------------
(* The worker loop.                                                          *)

(* The loop takes an id off the queue before it waits for a permit.          *)
Receive ==
    /\ held = NoJob
    /\ queue # <<>>
    /\ held' = Head(queue)
    /\ queue' = Tail(queue)
    /\ UNCHANGED <<rows, cap, task, req, restarts, requests, abandoned>>

(* acquire_owned succeeds on a free permit; the spawned task owns it.        *)
Spawn(s) ==
    /\ held # NoJob
    /\ task[s].pc = "idle"
    /\ task' = [task EXCEPT ![s] = TaskAt("begin", held, "media")]
    /\ held' = NoJob
    /\ UNCHANGED <<rows, queue, cap, req, restarts, requests, abandoned>>

----------------------------------------------------------------------------
(* Steps of a worker task.  j is the job the task works on.                  *)

At(s, p) == task[s].pc = p
Goto(s, p) == task' = [task EXCEPT ![s].pc = p]
(* Go on with the job and its plan; the other locals are not read again.     *)
Leave(s, p) ==
    task' = [task EXCEPT ![s] = TaskAt(p, task[s].job, task[s].plan)]
Release(s) == task' = [task EXCEPT ![s] = IdleTask]
SetStatus(j, st) == status' = [status EXCEPT ![j] = st]
TaskOnly == UNCHANGED <<queue, cap, held, req, restarts, requests, abandoned>>

(* Fault: every dispatch resolves, whatever the row says.                    *)
BeginAlwaysResolves(s) ==
    /\ At(s, "begin")
    /\ task' = [task EXCEPT ![s].pc = "resolve", ![s].plan = plan[task[s].job]]
    /\ UNCHANGED rows
    /\ TaskOnly

(* process_job reads the row once; everything below works on this snapshot.  *)
Begin(s) ==
    LET j == task[s].job IN
    /\ At(s, "begin")
    /\ IF status[j] = "candidate_selected"
          THEN task' = [task EXCEPT ![s].pc = "process", ![s].plan = plan[j],
                                    ![s].sel = selected[j]]
          ELSE task' = [task EXCEPT ![s].pc = "resolve", ![s].plan = plan[j]]
    /\ UNCHANGED rows
    /\ TaskOnly

(* resolve_candidates: the status write before the extractors run.           *)
StartResolve(s) ==
    /\ At(s, "resolve")
    /\ SetStatus(task[s].job, "resolving")
    /\ Goto(s, "resolving")
    /\ UNCHANGED <<plan, gen, selected, art>>
    /\ TaskOnly

(* A missing backend, a refused URL, no candidates, a login wall, a failed   *)
(* archive, no selectable direct candidate: each is an Err of process_job.   *)
(* An archive that fails half-way leaves the page_html rows it has inserted. *)
TaskFails(s) ==
    /\ \/ task[s].pc \in {"resolve", "resolving", "process"}
       \/ At(s, "autoselect") /\ task[s].plan = "direct"
       \/ At(s, "archive")
    /\ Leave(s, "fail")
    /\ \/ UNCHANGED art
       \/ At(s, "archive") /\ art' = [art EXCEPT ![task[s].job] = @ \cup {"archive"}]
    /\ UNCHANGED <<status, plan, gen, selected>>
    /\ TaskOnly

(* persist_page_snapshot drops the old archive rows before it writes.        *)
ClearArchive(s) ==
    /\ At(s, "resolving")
    /\ task[s].plan = "page"
    /\ art' = [art EXCEPT ![task[s].job] = @ \ {"archive"}]
    /\ Goto(s, "archive")
    /\ UNCHANGED <<status, plan, gen, selected>>
    /\ TaskOnly

StoreArchive(s) ==
    /\ At(s, "archive")
    /\ art' = [art EXCEPT ![task[s].job] = @ \cup {"archive"}]
    /\ Goto(s, "archived")
    /\ UNCHANGED <<status, plan, gen, selected>>
    /\ TaskOnly

(* New ids: distinct from every id the row, a task or a handler still holds. *)
Fresh(j, g) ==
    /\ g \notin {gen[j], selected[j]}
    /\ \A s \in Slots : task[s].job = j => task[s].sel # g
    /\ \A c \in Clients : req[c].job = j => req[c].sel # g

(* replace_candidates, one transaction.                                      *)
ReplaceCandidates(s) ==
    LET j == task[s].job IN
    /\ At(s, "resolving")
    /\ \E g \in Gens :
          /\ Fresh(j, g)
          /\ \A h \in Gens : h < g => ~Fresh(j, h)
          /\ gen' = [gen EXCEPT ![j] = g]
    /\ Goto(s, "resolved")
    /\ UNCHANGED <<status, plan, selected, art>>
    /\ TaskOnly

(* The end of resolve_candidates; a page_html job is not auto-selected.      *)
AnnounceCandidates(s) ==
    /\ At(s, "resolved")
    /\ SetStatus(task[s].job, "candidates_ready")
    /\ IF task[s].plan = "page" THEN Release(s) ELSE Goto(s, "autoselect")
    /\ UNCHANGED <<plan, gen, selected, art>>
    /\ TaskOnly

(* Fault: the automatic choice is marked without its ids being stored.       *)
AutoSelectUnset(s) ==
    /\ At(s, "autoselect")
    /\ gen[task[s].job] # NoGen
    /\ Goto(s, "mark_selected")
    /\ UNCHANGED rows
    /\ TaskOnly

(* auto_select_*: what list_candidates returns now, not what was stored.     *)
AutoSelect(s) ==
    LET j == task[s].job IN
    /\ At(s, "autoselect")
    /\ gen[j] # NoGen
    /\ task' = [task EXCEPT ![s].pc = "set_selected", ![s].sel = gen[j]]
    /\ UNCHANGED rows
    /\ TaskOnly

(* No recommended candidate: the task ends and the choice is the user's.     *)
NothingRecommended(s) ==
    /\ At(s, "autoselect")
    /\ task[s].plan # "direct"
    /\ Release(s)
    /\ UNCHANGED rows
    /\ TaskOnly

SetSelected(s) ==
    /\ At(s, "set_selected")
    /\ selected' = [selected EXCEPT ![task[s].job] = task[s].sel]
    /\ Goto(s, "mark_selected")
    /\ UNCHANGED <<status, plan, gen, art>>
    /\ TaskOnly

MarkSelected(s) ==
    /\ At(s, "mark_selected")
    /\ SetStatus(task[s].job, "candidate_selected")
    /\ Leave(s, "enqueue")
    /\ UNCHANGED <<plan, gen, selected, art>>
    /\ TaskOnly

(* Fault: the task enqueues its job and goes on to process it as well.       *)
TaskEnqueueFallsThrough(s) ==
    /\ At(s, "enqueue")
    /\ Len(queue) < cap
    /\ queue' = Append(queue, task[s].job)
    /\ Goto(s, "process")
    /\ UNCHANGED <<rows, cap, held, req, restarts, requests, abandoned>>

(* Fault: the queue is unbounded.                                            *)
TaskEnqueueUnbounded(s) ==
    /\ At(s, "enqueue")
    /\ queue' = Append(queue, task[s].job)
    /\ Release(s)
    /\ UNCHANGED <<rows, cap, held, req, restarts, requests, abandoned>>

(* The task keeps its permit while send() waits for room in the queue.       *)
TaskEnqueue(s) ==
    /\ At(s, "enqueue")
    /\ Len(queue) < cap
    /\ queue' = Append(queue, task[s].job)
    /\ Release(s)
    /\ UNCHANGED <<rows, cap, held, req, restarts, requests, abandoned>>

(* process_selected_candidates: the ids in the snapshot must still be rows.  *)
PlanAttempts(s) ==
    LET j == task[s].job IN
    /\ At(s, "process")
    /\ gen[j] # NoGen
    /\ task[s].sel = gen[j]
    /\ \E n \in 1..MaxAttempts :
          task' = [task EXCEPT ![s].pc = "attempt", ![s].left = n]
    /\ UNCHANGED rows
    /\ TaskOnly

(* process_candidate: Downloading, then Transcoding or Remuxing; the later   *)
(* writes matter only when somebody else changed the status in between.      *)
Work(s) ==
    LET j == task[s].job IN
    /\ \/ At(s, "attempt")
       \/ At(s, "working") /\ status[j] # "processing"
    /\ SetStatus(j, "processing")
    /\ Goto(s, "working")
    /\ UNCHANGED <<plan, gen, selected, art>>
    /\ TaskOnly

(* Fault: the loop does not stop at the last candidate.                      *)
AttemptSucceedsForever(s) ==
    /\ task[s].pc \in {"attempt", "working"}
    /\ task' = [task EXCEPT ![s].pc = "attempt", ![s].ok = TRUE, ![s].left = @ - 1]
    /\ UNCHANGED rows
    /\ TaskOnly

(* A candidate processed; an HTML or unknown one, or one of a kind the       *)
(* outputs do not ask for, adds nothing of use.  The loop breaks once audio  *)
(* or video is wanted, and goes on to the next candidate otherwise.          *)
AttemptSucceeds(s) ==
    /\ task[s].pc \in {"attempt", "working"}
    /\ \/ At(s, "working") /\ art' = [art EXCEPT ![task[s].job] = @ \cup {"media"}]
       \/ UNCHANGED art
    /\ \/ Leave(s, "finish")
       \/ /\ task[s].left > 1
          /\ task' = [task EXCEPT ![s].pc = "attempt", ![s].ok = TRUE, ![s].left = @ - 1]
    /\ UNCHANGED <<status, plan, gen, selected>>
    /\ TaskOnly

AttemptFails(s) ==
    /\ task[s].pc \in {"attempt", "working"}
    /\ IF task[s].left > 1
          THEN task' = [task EXCEPT ![s].pc = "attempt", ![s].left = @ - 1]
          ELSE Leave(s, IF task[s].ok THEN "finish" ELSE "fail")
    /\ UNCHANGED rows
    /\ TaskOnly

(* friendly_candidate_failure slices the message of a failed candidate or    *)
(* page resource at byte 180 and panics when that is inside a character: the *)
(* spawned task dies and marks nothing.                                      *)
TaskPanics(s) ==
    /\ task[s].pc \in {"attempt", "working", "archive"}
    /\ abandoned' = abandoned \cup {task[s].job}
    /\ Release(s)
    /\ UNCHANGED <<rows, queue, cap, held, req, restarts, requests>>

(* ensure_job_outputs_satisfied looks at every artifact of the job.          *)
Satisfied(j, p) == (IF p = "page" THEN "archive" ELSE "media") \in art[j]

(* Fault: the artifacts are not looked at.                                   *)
CheckOutputsBlindly(s) ==
    /\ At(s, "finish")
    /\ Leave(s, "fulfilled")
    /\ UNCHANGED rows
    /\ TaskOnly

CheckOutputs(s) ==
    /\ At(s, "finish")
    /\ Leave(s, IF Satisfied(task[s].job, task[s].plan) THEN "fulfilled" ELSE "fail")
    /\ UNCHANGED rows
    /\ TaskOnly

MarkReady(s) ==
    /\ task[s].pc \in {"fulfilled", "archived"}
    /\ SetStatus(task[s].job, "ready")
    /\ Release(s)
    /\ UNCHANGED <<plan, gen, selected, art>>
    /\ TaskOnly

(* Fault: the error arm logs the failure and leaves the row as it is.        *)
MarkFailedLogsOnly(s) ==
    /\ At(s, "fail")
    /\ Release(s)
    /\ UNCHANGED rows
    /\ TaskOnly

(* worker_loop's error arm: mark_needs_profile or mark_error, by the text.   *)
MarkFailed(s) ==
    /\ At(s, "fail")
    /\ \E st \in {"error", "needs_profile"} : SetStatus(task[s].job, st)
    /\ Release(s)
    /\ UNCHANGED <<plan, gen, selected, art>>
    /\ TaskOnly

TaskStep(s) ==
    \/ Begin(s) \/ StartResolve(s) \/ TaskFails(s)
    \/ ClearArchive(s) \/ StoreArchive(s)
    \/ ReplaceCandidates(s) \/ AnnounceCandidates(s)
    \/ AutoSelect(s) \/ NothingRecommended(s) \/ SetSelected(s) \/ MarkSelected(s)
    \/ TaskEnqueue(s)
    \/ PlanAttempts(s) \/ Work(s) \/ AttemptSucceeds(s) \/ AttemptFails(s)
    \/ CheckOutputs(s) \/ MarkReady(s) \/ MarkFailed(s)

----------------------------------------------------------------------------
(* API handlers.  None of them looks at the status of the job.               *)

ReqAt(c, p) == req[c].pc = p
ReqGoto(c, p) == req' = [req EXCEPT ![c].pc = p]
Accept(c, j, p) == req' = [req EXCEPT ![c] = Handler(p, j, NoGen)]
ReqOnly == UNCHANGED <<queue, cap, held, task, restarts, requests, abandoned>>
Opens(c, op) ==
    /\ op \in Ops
    /\ ReqAt(c, "idle")
    /\ requests < MaxRequests
    /\ requests' = requests + 1
ReqStays == UNCHANGED <<queue, cap, held, task, restarts, abandoned>>
Exists(j) == status[j] # "absent"

(* insert_and_enqueue: the row first, the queue second.                      *)
Submit(c, j) ==
    /\ Opens(c, "submit")
    /\ ~Exists(j)
    /\ SetStatus(j, "queued")
    /\ \E p \in Plans : plan' = [plan EXCEPT ![j] = p]
    /\ Accept(c, j, "enqueue")
    /\ UNCHANGED <<gen, selected, art>>
    /\ ReqStays

(* select_candidates: the ids must be rows now; the rejections change        *)
(* nothing.                                                                  *)
SelectCheck(c, j) ==
    /\ Opens(c, "select")
    /\ Exists(j)
    /\ gen[j] # NoGen
    /\ req' = [req EXCEPT ![c] = Handler("select_set", j, gen[j])]
    /\ UNCHANGED rows
    /\ ReqStays

SelectSet(c) ==
    /\ ReqAt(c, "select_set")
    /\ selected' = [selected EXCEPT ![req[c].job] = req[c].sel]
    /\ ReqGoto(c, "select_mark")
    /\ UNCHANGED <<status, plan, gen, art>>
    /\ ReqOnly

(* Fault: the selection is marked and never enqueued.                        *)
SelectMarkForgetsQueue(c) ==
    /\ ReqAt(c, "select_mark")
    /\ SetStatus(req[c].job, "candidate_selected")
    /\ req' = [req EXCEPT ![c] = IdleReq]
    /\ UNCHANGED <<plan, gen, selected, art>>
    /\ ReqOnly

SelectMark(c) ==
    /\ ReqAt(c, "select_mark")
    /\ SetStatus(req[c].job, "candidate_selected")
    /\ ReqGoto(c, "enqueue")
    /\ UNCHANGED <<plan, gen, selected, art>>
    /\ ReqOnly

(* reset_for_profile_resume: two statements, no transaction.                 *)
Resume(c, j) ==
    /\ Opens(c, "resume")
    /\ Exists(j)
    /\ SetStatus(j, "queued")
    /\ plan' = [plan EXCEPT ![j] = IF @ = "direct" THEN "media" ELSE @]
    /\ selected' = [selected EXCEPT ![j] = NoGen]
    /\ Accept(c, j, "resume_candidates")
    /\ UNCHANGED <<gen, art>>
    /\ ReqStays

(* reset_for_page_archive_force: three statements, no transaction.           *)
ForceArchive(c, j) ==
    /\ Opens(c, "force")
    /\ Exists(j)
    /\ SetStatus(j, "queued")
    /\ plan' = [plan EXCEPT ![j] = "page"]
    /\ selected' = [selected EXCEPT ![j] = NoGen]
    /\ Accept(c, j, "force_candidates")
    /\ UNCHANGED <<gen, art>>
    /\ ReqStays

(* Fault: a resume drops the artifacts of the job with its candidates.       *)
DeleteCandidatesAndArtifacts(c) ==
    /\ req[c].pc \in {"resume_candidates", "force_candidates"}
    /\ gen' = [gen EXCEPT ![req[c].job] = NoGen]
    /\ art' = [art EXCEPT ![req[c].job] = {}]
    /\ ReqGoto(c, IF ReqAt(c, "force_candidates") THEN "force_artifacts" ELSE "enqueue")
    /\ UNCHANGED <<status, plan, selected>>
    /\ ReqOnly

DeleteCandidates(c) ==
    /\ req[c].pc \in {"resume_candidates", "force_candidates"}
    /\ gen' = [gen EXCEPT ![req[c].job] = NoGen]
    /\ ReqGoto(c, IF ReqAt(c, "force_candidates") THEN "force_artifacts" ELSE "enqueue")
    /\ UNCHANGED <<status, plan, selected, art>>
    /\ ReqOnly

DeleteArtifacts(c) ==
    /\ ReqAt(c, "force_artifacts")
    /\ art' = [art EXCEPT ![req[c].job] = {}]
    /\ ReqGoto(c, "enqueue")
    /\ UNCHANGED <<status, plan, gen, selected>>
    /\ ReqOnly

ReqEnqueue(c) ==
    /\ ReqAt(c, "enqueue")
    /\ Len(queue) < cap
    /\ queue' = Append(queue, req[c].job)
    /\ req' = [req EXCEPT ![c] = IdleReq]
    /\ UNCHANGED <<rows, cap, held, task, restarts, requests, abandoned>>

(* attach_profile_for_job, when a login session starts for the job.          *)
AttachProfile(c, j) ==
    /\ Opens(c, "login")
    /\ Exists(j)
    /\ plan[j] = "direct"
    /\ plan' = [plan EXCEPT ![j] = "media"]
    /\ UNCHANGED <<status, gen, selected, art, req>>
    /\ ReqStays

(* The handlers that have made the row active and owe it a queue entry.      *)
Owing == {"resume_candidates", "force_candidates", "force_artifacts", "enqueue"}

(* The client goes away: axum drops the handler's future at an await.        *)
Disconnect(c) ==
    /\ ~ReqAt(c, "idle")
    /\ abandoned' = abandoned \cup (IF req[c].pc \in Owing THEN {req[c].job} ELSE {})
    /\ req' = [req EXCEPT ![c] = IdleReq]
    /\ UNCHANGED <<rows, queue, cap, held, task, restarts, requests>>

ReqStep(c) ==
    \/ SelectSet(c) \/ SelectMark(c) \/ DeleteCandidates(c) \/ DeleteArtifacts(c)
    \/ ReqEnqueue(c)

Request(c) ==
    \E j \in Jobs : \/ Submit(c, j) \/ SelectCheck(c, j) \/ Resume(c, j)
                    \/ ForceArchive(c, j) \/ AttachProfile(c, j)

----------------------------------------------------------------------------
(* A crash, and AppState::new of the next boot.                              *)

Pending == {j \in Jobs : status[j] \in ActiveStatus}

(* recover_pending and the loop that enqueues what it returns; the queue is  *)
(* made large enough that this loop cannot wait for room.                    *)
Restart ==
    /\ restarts < MaxRestarts
    /\ restarts' = restarts + 1
    /\ status' = [j \in Jobs |-> IF j \in Pending THEN "queued" ELSE status[j]]
    /\ \E q \in [1..Cardinality(Pending) -> Pending] :
          /\ \A j \in Pending : \E i \in DOMAIN q : q[i] = j
          /\ queue' = q
    /\ cap' = IF Cardinality(Pending) > QueueCap THEN Cardinality(Pending) ELSE QueueCap
    /\ held' = NoJob
    /\ task' = [s \in Slots |-> IdleTask]
    /\ req' = [c \in Clients |-> IdleReq]
    /\ abandoned' = {}
    /\ UNCHANGED <<plan, gen, selected, art, requests>>

Next ==
    \/ Receive
    \/ \E s \in Slots : Spawn(s) \/ TaskStep(s) \/ TaskPanics(s)
    \/ \E c \in Clients : Request(c) \/ ReqStep(c) \/ Disconnect(c)
    \/ Restart

Spec == Init /\ [][Next]_vars

(* The runtime polls every future that can move; every network and process   *)
(* wait in a task has a timeout; send() serves its waiters first come first  *)
(* served, hence the strong fairness of the two enqueue steps.               *)
Fairness ==
    /\ WF_vars(Receive)
    /\ \A s \in Slots : /\ WF_vars(Spawn(s))
                        /\ WF_vars(TaskStep(s))
                        /\ SF_vars(TaskEnqueue(s))
    /\ \A c \in Clients : WF_vars(ReqStep(c)) /\ SF_vars(ReqEnqueue(c))

FairSpec == Spec /\ Fairness
----------------------------------------------------------------------------
(* Who is going to move a job on.                                            *)

Active(j) == status[j] \in ActiveStatus

Tickets(j) == {i \in DOMAIN queue : queue[i] = j}

(* A task that will still write the status of its job: not one whose         *)
(* candidates are announced and which may find nothing to select.            *)
TaskDrives(s, j) == task[s].job = j /\ task[s].pc \notin {"idle", "autoselect"}

ReqDrives(c, j) == req[c].job = j /\ req[c].pc \in Owing

Driven(j) ==
    \/ Tickets(j) # {}
    \/ held = j
    \/ \E s \in Slots : TaskDrives(s, j)
    \/ \E c \in Clients : ReqDrives(c, j)

(* Everything that refers to a job: entries, tasks and handlers.             *)
References(j) ==
    Cardinality(Tickets(j)) + (IF held = j THEN 1 ELSE 0)
    + Cardinality({s \in Slots : task[s].job = j})
    + Cardinality({c \in Clients : req[c].job = j})

----------------------------------------------------------------------------
(* Invariants.                                                               *)

TaskRec == [pc : TaskPc, job : Jobs \cup {NoJob}, plan : AllPlans,
            sel : Gens \cup {NoGen}, left : 0..MaxAttempts, ok : BOOLEAN]
ReqRec  == [pc : ReqPc, job : Jobs \cup {NoJob}, sel : Gens \cup {NoGen}]

(* The shape of the rows, of the queue, and of every task and handler.       *)
TypeOK ==
    /\ status \in [Jobs -> Status]
    /\ plan \in [Jobs -> AllPlans]
    /\ gen \in [Jobs -> Gens \cup {NoGen}]
    /\ selected \in [Jobs -> Gens \cup {NoGen}]
    /\ art \in [Jobs -> SUBSET {"media", "archive"}]
    /\ queue \in Seq(Jobs)
    /\ cap \in Nat
    /\ held \in Jobs \cup {NoJob}
    /\ task \in [Slots -> TaskRec]
    /\ req \in [Clients -> ReqRec]
    /\ restarts \in 0..MaxRestarts
    /\ requests \in 0..MaxRequests
    /\ abandoned \subseteq Jobs

(* A row in a status that means "being worked on" has an entry in the queue, *)
(* a task or a handler that will move it on, unless its handler was dropped  *)
(* or its task panicked since the last boot: no interleaving of dispatches,  *)
(* selections and resets loses a job, and a restart repairs what was lost.   *)
ActiveHasDriver == \A j \in Jobs : Active(j) => Driven(j) \/ j \in abandoned

(* A media job is "ready" only while an artifact of the kind it asked for is *)
(* in the database, however many tasks, resets and crashes there have been.  *)
ReadyMediaHasArtifact ==
    \A j \in Jobs : status[j] = "ready" /\ plan[j] # "page" => "media" \in art[j]

(* Without user operations on a running job, the pipeline never dispatches   *)
(* it twice: at most one entry, task or handler refers to a job.             *)
SingleDriver == \A j \in Jobs : References(j) <= 1

(* ... the selection a selected job carries is the candidate set in the      *)
(* database, so the dispatch that follows finds its candidates ...           *)
SelectionCurrent ==
    \A j \in Jobs : status[j] = "candidate_selected" =>
        selected[j] = gen[j] /\ gen[j] # NoGen

(* ... and a job of either kind is "ready" only with the output it promised. *)
ReadyHasOutput ==
    \A j \in Jobs : status[j] = "ready" => Satisfied(j, plan[j])

(* The queue full, the loop holding an id and waiting for a permit, and      *)
(* every permit held by a task that waits for room in the queue.             *)
Wedged ==
    /\ held # NoJob
    /\ Len(queue) >= cap
    /\ \A s \in Slots : At(s, "enqueue")

----------------------------------------------------------------------------
(* Action and liveness properties.                                           *)

(* The documented state machine enters "resolving" from "queued" only: a job *)
(* is not resolved again once it has candidates, a selection or a result.    *)
ResolvingFollowsQueued ==
    [][\A j \in Jobs : status'[j] = "resolving" /\ status[j] # "resolving"
                           => status[j] = "queued"]_vars

(* "Unfinished jobs are recovered at startup": a crash never ends the        *)
(* processing of a job that a task was working on.                           *)
RestartRecoversRunning ==
    [][restarts' # restarts =>
         \A s \in Slots : task[s].pc # "idle" =>
             \E i \in DOMAIN queue' : queue'[i] = task[s].job]_vars

(* Once wedged, only a restart frees the dispatcher.                         *)
WedgeIsPermanent == [][Wedged => Wedged' \/ restarts' # restarts]_vars

----------------------------------------------------------------------------
(* The abstract view: what a client may rely on.  No job is ever forgotten:  *)
(* JobLifecycle has no such phase.                                           *)

Phase ==
    [j \in Jobs |-> IF ~Exists(j) THEN "none"
                    ELSE IF Driven(j) \/ (\E s \in Slots : task[s].job = j) THEN "pending"
                    ELSE IF ~Active(j) THEN "settled"
                    ELSE IF j \in abandoned THEN "lost"
                    ELSE "forgotten"]

Lifecycle == INSTANCE JobLifecycle WITH phase <- Phase

(* Submitted and reopened jobs do not stay pending: they end in a result, an *)
(* error or a choice for the user, or are lost to a dropped handler or to a  *)
(* panic, from which a selection, a resume or the next boot takes them up.   *)
ImplementsLifecycle == Lifecycle!Spec
=============================================================================
