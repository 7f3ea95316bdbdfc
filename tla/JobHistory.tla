----------------------------- MODULE JobHistory -----------------------------
(***************************************************************************)
(* The job list's history: clearing it hides jobs in a batch, restoring a  *)
(* batch shows them again, and the retention sweep hides expired jobs       *)
(* without a batch.  Requests run beside each other and beside the changes  *)
(* of the keys they were authorised with.                                   *)
(***************************************************************************)
EXTENDS ApiKeys, Naturals

CONSTANTS
    Jobs,       \* jobs that may be created
    MaxBatches, \* bound: batches made by clearing the list
    MaxSweeps   \* bound: retention sweeps

ASSUME HistoryAssumption == MaxBatches \in Nat /\ MaxSweeps \in Nat

VARIABLES
    owner,    \* jobs.requester_key_id; NoKey while the job does not exist
    hidden,   \* jobs whose hidden_at is set
    batches,  \* how many job_hide_batches there are; they are numbered in order
    batch,    \* job_hide_batches with the jobs of their job_hide_entries
    latest,   \* the batch a request for the latest one has read
    sweep,    \* hide_expired_jobs: the ids it has yet to hide
    sweeps,   \* auxiliary: sweeps so far
    swept     \* auxiliary: jobs a sweep has hidden

historyVars == <<owner, hidden, batches, batch, latest, sweep, sweeps, swept>>
accountVars == <<keyVars, historyVars>>

Batches == 1 .. MaxBatches
NoBatch == 0
Unmade  == [actor |-> NoKey, jobs |-> {}, open |-> FALSE]

HistoryInit ==
    /\ KeysInit
    /\ owner = [j \in Jobs |-> NoKey]
    /\ hidden = {}
    /\ batches = 0
    /\ batch = [b \in Batches |-> Unmade]
    /\ latest = [c \in Callers |-> NoBatch]
    /\ sweep = {}
    /\ sweeps = 0
    /\ swept = {}

Visible == {j \in Jobs : owner[j] # NoKey /\ j \notin hidden}

(* The jobs a request may clear, the batches it may restore.                 *)
Clearable(c) == IF ByAdmin(c) THEN Visible ELSE {j \in Visible : owner[j] = caller[c]}
MayRestore(c, b) == ByAdmin(c) \/ batch[b].actor = caller[c]
Restorable(c) == {b \in Batches : batch[b].open /\ MayRestore(c, b)}

KeysKeep == UNCHANGED <<keyRows, up, configured, advised, dropped>>

CreateJob(c, j) ==
    /\ Calling(c)
    /\ latest[c] = NoBatch
    /\ owner[j] = NoKey
    /\ owner' = [owner EXCEPT ![j] = caller[c]]
    /\ Answered(c)
    /\ KeysKeep
    /\ UNCHANGED <<hidden, batches, batch, latest, sweep, sweeps, swept>>

(* hide_visible_jobs_inner: one transaction makes the batch, its entries and *)
(* hides the jobs; with nothing to hide there is no batch.                   *)
HideJobs(c) ==
    /\ Calling(c)
    /\ latest[c] = NoBatch
    /\ \/ /\ Clearable(c) = {}
          /\ UNCHANGED <<batches, batch, hidden>>
       \/ /\ Clearable(c) # {}
          /\ batches < MaxBatches
          /\ batches' = batches + 1
          /\ batch' = [batch EXCEPT ![batches'] =
                           [actor |-> caller[c], jobs |-> Clearable(c), open |-> TRUE]]
          /\ hidden' = hidden \cup Clearable(c)
    /\ Answered(c)
    /\ KeysKeep
    /\ UNCHANGED <<owner, latest, sweep, sweeps, swept>>

(* latest_restorable_batch_id, read before the transaction that restores it. *)
ReadLatest(c) ==
    /\ Calling(c)
    /\ latest[c] = NoBatch
    /\ \E b \in Restorable(c) : /\ \A b2 \in Restorable(c) : b2 <= b
                               /\ latest' = [latest EXCEPT ![c] = b]
    /\ UNCHANGED <<keyVars, owner, hidden, batches, batch, sweep, sweeps, swept>>

(* Fault: neither the batch nor its entries are asked for restored_at.       *)
RestoreBatchTwice(c, b) ==
    /\ Calling(c)
    /\ latest[c] \in {NoBatch, b}
    /\ MayRestore(c, b)
    /\ batch' = [batch EXCEPT ![b].open = FALSE]
    /\ hidden' = hidden \ batch[b].jobs
    /\ latest' = [latest EXCEPT ![c] = NoBatch]
    /\ Answered(c)
    /\ KeysKeep
    /\ UNCHANGED <<owner, batches, sweep, sweeps, swept>>

(* Fault: the id in the path is not checked against the caller's batches.    *)
RestoreAnyBatch(c, b) ==
    /\ Calling(c)
    /\ latest[c] \in {NoBatch, b}
    /\ batch[b].open
    /\ batch' = [batch EXCEPT ![b].open = FALSE]
    /\ hidden' = hidden \ batch[b].jobs
    /\ latest' = [latest EXCEPT ![c] = NoBatch]
    /\ Answered(c)
    /\ KeysKeep
    /\ UNCHANGED <<owner, batches, sweep, sweeps, swept>>

(* restore_hidden_job_batch: of the batch in the path, or of the latest read.*)
RestoreBatch(c, b) ==
    /\ Calling(c)
    /\ latest[c] \in {NoBatch, b}
    /\ \/ /\ b \in Restorable(c)
          /\ batch' = [batch EXCEPT ![b].open = FALSE]
          /\ hidden' = hidden \ batch[b].jobs
       \/ /\ b \notin Restorable(c)
          /\ UNCHANGED <<batch, hidden>>
    /\ latest' = [latest EXCEPT ![c] = NoBatch]
    /\ Answered(c)
    /\ KeysKeep
    /\ UNCHANGED <<owner, batches, sweep, sweeps, swept>>

----------------------------------------------------------------------------
(* The retention sweep: visible jobs that are old enough, then one UPDATE    *)
(* per id that keeps an earlier hidden_at.                                   *)

SweepRead(ids) ==
    /\ up
    /\ sweep = {}
    /\ sweeps < MaxSweeps
    /\ ids # {}
    /\ ids \subseteq Visible
    /\ sweep' = ids
    /\ sweeps' = sweeps + 1
    /\ UNCHANGED <<keyVars, owner, hidden, batches, batch, latest, swept>>

SweepHide(j) ==
    /\ j \in sweep
    /\ sweep' = sweep \ {j}
    /\ hidden' = hidden \cup {j}
    /\ swept' = swept \cup {j}
    /\ UNCHANGED <<keyVars, owner, batches, batch, latest, sweeps>>

----------------------------------------------------------------------------
(* Steps of the keys.  A request that has read a batch only restores or ends.*)
KeysMove ==
    /\ \/ \E c \in Callers : EndRequest(c) \/ (latest[c] = NoBatch /\ KeyRequest(c))
       \/ \E s \in Secrets \cup {NoSecret} : Boot(s)
       \/ Shutdown
    /\ latest' = [c \in Callers |-> IF caller'[c] = NoKey THEN NoBatch ELSE latest[c]]
    /\ sweep' = IF up' THEN sweep ELSE {}
    /\ UNCHANGED <<owner, hidden, batches, batch, sweeps, swept>>

HistoryRequest(c) ==
    \/ \E j \in Jobs : CreateJob(c, j)
    \/ HideJobs(c)
    \/ ReadLatest(c)
    \/ \E b \in Batches : RestoreBatch(c, b)

HistoryNext ==
    \/ KeysMove
    \/ \E c \in Callers : HistoryRequest(c)
    \/ \E ids \in SUBSET Jobs : SweepRead(ids)
    \/ \E j \in Jobs : SweepHide(j)

HistorySpec == HistoryInit /\ [][HistoryNext]_accountVars

----------------------------------------------------------------------------
(* Properties.                                                               *)

(* Clearing the list never loses a job, and no job is cleared twice: what is *)
(* in a batch that can be restored is hidden, by that batch alone, and a     *)
(* hidden job is in such a batch unless the retention sweep hid it.          *)
HeldBy(j) == {b \in Batches : batch[b].open /\ j \in batch[b].jobs}

HiddenOnce ==
    \A j \in Jobs :
        /\ HeldBy(j) # {} => j \in hidden
        /\ \A b1, b2 \in HeldBy(j) : b1 = b2
        /\ j \in hidden => HeldBy(j) # {} \/ j \in swept

(* Whatever the order in which requests read, restore and clear, a user's    *)
(* key hides and shows jobs of its own only.                                 *)
OwnJobsOnly ==
    [][\A c \in Callers : Calling(c) /\ ~Calling(c)' /\ ~ByAdmin(c) /\ hidden' # hidden
           => \A j \in Jobs : (j \in hidden) # (j \in hidden') => owner[j] = caller[c]]_accountVars
=============================================================================
