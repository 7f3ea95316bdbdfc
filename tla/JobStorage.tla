---------------------------- MODULE JobStorage ----------------------------
(***************************************************************************)
(* The files of a job beside its rows: storage/public/<job>, storage/tmp/  *)
(* <job>, the retention loop, the administrator's cache cleanup, and the   *)
(* dispatcher of JobDispatch, whose steps write and remove these           *)
(* directories while the two sweepers work from lists they read earlier.   *)
(*                                                                         *)
(* The two remove_dir_all calls of a sweep or of a forced archive are one  *)
(* step, and so are finishing an output, measuring it and inserting its    *)
(* row.  Which candidate of a set an output came from is not recorded.     *)
(***************************************************************************)
EXTENDS JobDispatch

CONSTANT Orphans  \* directories left by rows of an earlier database

ASSUME StorageAssumption == Orphans \cap Jobs = {} /\ NoJob \notin Orphans

VARIABLES
    pub,      \* storage/public/<job>: absent, or its mtime against the cleanup cutoff
    tmp,      \* storage/tmp/<job>, likewise
    files,    \* the outputs in the public directory, by kind
    made,     \* what the media outputs in the public directory are named after
    expired,  \* jobs created before the retention cutoff
    hidden,   \* jobs whose hidden_at is set
    prune,    \* prune_expired_jobs: the ids it read and those it has yet to deal with
    clean,    \* cache_cleanup_inner: the id lists it read and the directories it chose
    wipe,     \* force_page_archive: the job whose directories a handler has removed
    wiped,    \* auxiliary: jobs whose directories a forced archive has removed
    redone    \* auxiliary: jobs with a whole output that was opened for writing again

dirs        == <<pub, tmp, files, made, redone>>
sweepers    == <<prune, clean>>
storageVars == <<dirs, expired, hidden, sweepers, wipe, wiped>>
allVars     == <<vars, storageVars>>

Dirs == Jobs \cup Orphans

IdlePrune == [pc |-> "idle", ids |-> {}, todo |-> {}]
IdleClean == [pc |-> "idle", known |-> {}, active |-> {}, chosen |-> {}]

StorageInit ==
    /\ Init
    /\ pub = [d \in Dirs |-> IF d \in Orphans THEN "old" ELSE "none"]
    /\ tmp = [d \in Dirs |-> IF d \in Orphans THEN "old" ELSE "none"]
    /\ files = [j \in Jobs |-> {}]
    /\ expired = {}
    /\ hidden = {}
    /\ prune = IdlePrune
    /\ clean = IdleClean
    /\ wipe = [c \in Clients |-> NoJob]
    /\ wiped = {}
    /\ made = [j \in Jobs |-> {}]
    /\ redone = {}

----------------------------------------------------------------------------
(* The dispatcher's steps, with what they do to the directories.             *)

(* create_dir_all: nothing happens to a directory that exists.               *)
Made(dir, d) == [dir EXCEPT ![d] = IF @ = "none" THEN "young" ELSE @]

MakeDirs(j) == pub' = Made(pub, j) /\ tmp' = Made(tmp, j) /\ UNCHANGED <<files, made, redone>>
RemoveDirs(j) ==
    /\ pub' = [pub EXCEPT ![j] = "none"]
    /\ tmp' = [tmp EXCEPT ![j] = "none"]
    /\ files' = [files EXCEPT ![j] = {}]
    /\ made' = [made EXCEPT ![j] = {}]
    /\ UNCHANGED redone
Outside == UNCHANGED <<expired, hidden, sweepers, wipe, wiped>>

(* process_candidate makes both directories before it does anything else.    *)
WorkOnDisk(s) ==
    /\ Work(s)
    /\ IF At(s, "attempt") THEN MakeDirs(task[s].job) ELSE UNCHANGED dirs
    /\ Outside

(* The names under which an attempt may write: that of its candidate, or the *)
(* fixed one of the slideshow, slideshow.mp4, which belongs to no candidates.*)
Slideshow == NoGen
OutputNames(s) == {task[s].sel, Slideshow}

(* An output goes into the public directory, which must still be there; the  *)
(* temporary directory is shared by all tasks of the job and goes at the end.*)
SucceedOnDisk(s) ==
    LET j == task[s].job IN
    /\ AttemptSucceeds(s)
    /\ \/ /\ At(s, "working")
          /\ pub[j] # "none"
          /\ "media" \in art'[j]
          /\ files' = [files EXCEPT ![j] = @ \cup {"media"}]
          /\ \E name \in OutputNames(s) : made' = [made EXCEPT ![j] = @ \cup {name}]
          /\ pub' = [pub EXCEPT ![j] = "young"]
       \/ /\ art' = art
          /\ UNCHANGED <<files, made>>
          /\ pub' = Made(pub, j)
    /\ tmp' = [tmp EXCEPT ![j] = "none"]
    /\ UNCHANGED redone
    /\ Outside

(* Fault: a candidate that fails takes the job's directories with it.        *)
FailOnDiskRemovesAll(s) ==
    /\ AttemptFails(s) \/ TaskPanics(s)
    /\ RemoveDirs(task[s].job)
    /\ Outside

(* A candidate refused before or after the directories are made: they stay.  *)
FailOnDisk(s) ==
    /\ AttemptFails(s) \/ TaskPanics(s)
    /\ \/ UNCHANGED dirs
       \/ At(s, "attempt") /\ MakeDirs(task[s].job)
    /\ Outside

(* persist_page_snapshot replaces page/ and writes the archive's files.      *)
ArchiveOnDisk(s) ==
    LET j == task[s].job IN
    /\ \/ /\ ClearArchive(s)
          /\ files' = files
       \/ /\ StoreArchive(s) \/ TaskFails(s)
          /\ At(s, "archive")
          /\ "archive" \in art'[j] => pub[j] # "none"
          /\ files' = [files EXCEPT ![j] = @ \cup (art'[j] \cap {"archive"})]
    /\ pub' = Made(pub, j)
    /\ UNCHANGED <<tmp, made, redone>>
    /\ Outside

(* ffmpeg and the downloader write an output in place: a candidate that is   *)
(* processed again loses what it had, and so does the slideshow of the job   *)
(* once another is made, of whatever candidates: a resume deletes those and  *)
(* keeps the rows.  One dispatch takes a candidate once and makes a          *)
(* slideshow only in place of them, so what it stored itself is safe from    *)
(* its later attempts.                                                       *)
Overwrite(s) ==
    LET j == task[s].job IN
    /\ At(s, "working")
    /\ ~task[s].ok
    /\ "media" \in files[j]
    /\ made[j] \cap OutputNames(s) # {}
    /\ files' = [files EXCEPT ![j] = @ \ {"media"}]
    /\ redone' = redone \cup {j}
    /\ UNCHANGED <<vars, pub, tmp, made, expired, hidden, sweepers, wipe, wiped>>

(* New candidates have new ids, and outputs named after candidates new names.*)
ReplaceOnDisk(s) ==
    LET j == task[s].job IN
    /\ ReplaceCandidates(s)
    /\ made' = [made EXCEPT ![j] = @ \ {gen'[j]}]
    /\ UNCHANGED <<pub, tmp, files, redone>>
    /\ Outside

QuietTaskStep(s) ==
    \/ Begin(s) \/ StartResolve(s) \/ (TaskFails(s) /\ ~At(s, "archive"))
    \/ AnnounceCandidates(s)
    \/ AutoSelect(s) \/ NothingRecommended(s) \/ SetSelected(s) \/ MarkSelected(s)
    \/ TaskEnqueue(s) \/ PlanAttempts(s) \/ CheckOutputs(s) \/ MarkReady(s) \/ MarkFailed(s)

(* force_page_archive removes the directories first, the rows afterwards.    *)
WipeDirs(c, j) ==
    /\ "force" \in Ops
    /\ ReqAt(c, "idle")
    /\ wipe[c] = NoJob
    /\ requests < MaxRequests
    /\ Exists(j)
    /\ RemoveDirs(j)
    /\ wipe' = [wipe EXCEPT ![c] = j]
    /\ wiped' = wiped \cup {j}
    /\ UNCHANGED <<vars, expired, hidden, sweepers>>

ForceRows(c) ==
    /\ wipe[c] # NoJob
    /\ ForceArchive(c, wipe[c])
    /\ wipe' = [wipe EXCEPT ![c] = NoJob]
    /\ UNCHANGED <<dirs, expired, hidden, sweepers, wiped>>

(* The client of a forced archive goes away before the rows are reset.       *)
DropWipe(c) ==
    /\ wipe[c] # NoJob
    /\ wipe' = [wipe EXCEPT ![c] = NoJob]
    /\ UNCHANGED <<vars, dirs, expired, hidden, sweepers, wiped>>

QuietRequest(c) ==
    /\ wipe[c] = NoJob
    /\ \/ \E j \in Jobs : \/ Submit(c, j) \/ SelectCheck(c, j) \/ Resume(c, j)
                          \/ AttachProfile(c, j)
       \/ ReqStep(c)
       \/ Disconnect(c)

QuietStep ==
    /\ \/ Receive
       \/ \E s \in Slots : Spawn(s) \/ QuietTaskStep(s)
       \/ \E c \in Clients : QuietRequest(c)
    /\ UNCHANGED storageVars

----------------------------------------------------------------------------
(* The retention loop: once at boot and then every hour.                     *)

(* expired_job_ids: visible, old enough, and in a status nobody works in.    *)
Restful == {"ready", "error", "candidates_ready", "needs_profile"}
ExpiredIds == {j \in Jobs : j \in expired \ hidden /\ status[j] \in Restful}

(* Fault: the rows are hidden before the directories are removed.            *)
PruneReadHidesFirst ==
    /\ prune.pc = "idle"
    /\ ExpiredIds # {}
    /\ prune' = [pc |-> "remove", ids |-> ExpiredIds, todo |-> ExpiredIds]
    /\ hidden' = hidden \cup ExpiredIds
    /\ UNCHANGED <<vars, dirs, expired, clean, wipe, wiped>>

PruneRead ==
    /\ prune.pc = "idle"
    /\ ExpiredIds # {}
    /\ prune' = [pc |-> "remove", ids |-> ExpiredIds, todo |-> ExpiredIds]
    /\ UNCHANGED <<vars, dirs, expired, hidden, clean, wipe, wiped>>

PruneRemove(j) ==
    /\ prune.pc = "remove"
    /\ j \in prune.todo
    /\ RemoveDirs(j)
    /\ prune' = IF prune.todo = {j} THEN [prune EXCEPT !.pc = "hide", !.todo = prune.ids]
                                    ELSE [prune EXCEPT !.todo = @ \ {j}]
    /\ UNCHANGED <<vars, expired, hidden, clean, wipe, wiped>>

(* hide_expired_jobs: one UPDATE per id, whatever the row's status is now.   *)
PruneHide(j) ==
    /\ prune.pc = "hide"
    /\ j \in prune.todo
    /\ hidden' = hidden \cup {j}
    /\ prune' = IF prune.todo = {j} THEN IdlePrune ELSE [prune EXCEPT !.todo = @ \ {j}]
    /\ UNCHANGED <<vars, dirs, expired, clean, wipe, wiped>>

Prune == PruneRead \/ \E j \in Jobs : PruneRemove(j) \/ PruneHide(j)

----------------------------------------------------------------------------
(* The administrator's cache cleanup.                                        *)

CleanOnly == UNCHANGED <<vars, expired, hidden, prune, wipe, wiped>>

CleanReadKnown ==
    /\ clean.pc = "idle"
    /\ clean' = [IdleClean EXCEPT !.pc = "known", !.known = {j \in Jobs : Exists(j)}]
    /\ UNCHANGED dirs
    /\ CleanOnly

CleanReadActive ==
    /\ clean.pc = "known"
    /\ clean' = [clean EXCEPT !.pc = "active",
                              !.active = {j \in Jobs : status[j] \in ActiveStatus}]
    /\ UNCHANGED dirs
    /\ CleanOnly

(* Fault: only the age of a directory protects it.                           *)
CleanScanByAge ==
    /\ clean.pc = "active"
    /\ clean' = [IdleClean EXCEPT !.pc = "remove",
                    !.chosen = {<<"tmp", d>> : d \in {d \in Dirs : tmp[d] = "old"}}]
    /\ UNCHANGED dirs
    /\ CleanOnly

(* Fault: public directories are protected by the list of active jobs.       *)
CleanScanByActive ==
    /\ clean.pc = "active"
    /\ clean' = [IdleClean EXCEPT !.pc = "remove",
                    !.chosen = {<<"pub", d>> : d \in {d \in Dirs \ clean.active : pub[d] = "old"}}]
    /\ UNCHANGED dirs
    /\ CleanOnly

(* Old temporary directories of jobs not in the active list, old public      *)
(* directories of jobs not in the known list.                                *)
CleanScan ==
    /\ clean.pc = "active"
    /\ LET oldTmp == {d \in Dirs \ clean.active : tmp[d] = "old"}
           oldPub == {d \in Dirs \ clean.known : pub[d] = "old"}
       IN  clean' = [IdleClean EXCEPT !.pc = "remove",
                         !.chosen = {<<"tmp", d>> : d \in oldTmp} \cup {<<"pub", d>> : d \in oldPub}]
    /\ UNCHANGED dirs
    /\ CleanOnly

CleanRemove(d) ==
    /\ clean.pc = "remove"
    /\ \/ /\ <<"tmp", d>> \in clean.chosen
          /\ tmp' = [tmp EXCEPT ![d] = "none"]
          /\ clean' = [clean EXCEPT !.chosen = @ \ {<<"tmp", d>>}]
          /\ UNCHANGED <<pub, files, made>>
       \/ /\ <<"pub", d>> \in clean.chosen
          /\ pub' = [pub EXCEPT ![d] = "none"]
          /\ files' = [j \in Jobs |-> IF j = d THEN {} ELSE files[j]]
          /\ made' = [j \in Jobs |-> IF j = d THEN {} ELSE made[j]]
          /\ clean' = [clean EXCEPT !.chosen = @ \ {<<"pub", d>>}]
          /\ UNCHANGED tmp
    /\ UNCHANGED redone
    /\ CleanOnly

(* All removed, or the administrator's connection dropped.                   *)
CleanEnds ==
    /\ clean.pc # "idle"
    /\ clean' = IdleClean
    /\ UNCHANGED dirs
    /\ CleanOnly

Clean == CleanReadKnown \/ CleanReadActive \/ CleanScan \/ CleanEnds \/ \E d \in Dirs : CleanRemove(d)

----------------------------------------------------------------------------
(* Time.  The minimum age is an hour or more: no directory crosses it while  *)
(* the cleanup reads its two lists and scans.                                *)
AgeDir(d) ==
    /\ clean.pc \notin {"known", "active"}
    /\ \/ pub[d] = "young" /\ pub' = [pub EXCEPT ![d] = "old"] /\ UNCHANGED tmp
       \/ tmp[d] = "young" /\ tmp' = [tmp EXCEPT ![d] = "old"] /\ UNCHANGED pub
    /\ UNCHANGED <<vars, files, made, redone, expired, hidden, sweepers, wipe, wiped>>

Expire(j) ==
    /\ Exists(j)
    /\ j \notin expired
    /\ expired' = expired \cup {j}
    /\ UNCHANGED <<vars, dirs, hidden, sweepers, wipe, wiped>>

(* A crash ends both sweeps; the directories survive it.                     *)
RestartOnDisk ==
    /\ Restart
    /\ prune' = IdlePrune
    /\ clean' = IdleClean
    /\ wipe' = [c \in Clients |-> NoJob]
    /\ UNCHANGED <<dirs, expired, hidden, wiped>>

StorageNext ==
    \/ QuietStep
    \/ \E s \in Slots : \/ WorkOnDisk(s) \/ SucceedOnDisk(s) \/ FailOnDisk(s)
                        \/ Overwrite(s) \/ ReplaceOnDisk(s) \/ ArchiveOnDisk(s)
    \/ \E c \in Clients : (\E j \in Jobs : WipeDirs(c, j)) \/ ForceRows(c) \/ DropWipe(c)
    \/ Prune
    \/ Clean
    \/ \E d \in Dirs : AgeDir(d)
    \/ \E j \in Jobs : Expire(j)
    \/ RestartOnDisk

StorageSpec == StorageInit /\ [][StorageNext]_allVars

(* The retention loop is a task of its own and sleeps for an hour at most.   *)
FairStorageSpec == StorageSpec /\ WF_allVars(Prune)

----------------------------------------------------------------------------
(* Properties.                                                               *)

(* A media job that is "ready", has not reached the retention limit, was     *)
(* never turned into a page archive and none of whose outputs was opened for *)
(* writing again (its candidate processed again, or a second slideshow made) *)
(* has its output on disk: neither sweeper and no other task of the job      *)
(* removes what its rows promise.                                            *)
ReadyMediaHasFiles ==
    \A j \in Jobs \ (expired \cup wiped \cup redone) :
        status[j] = "ready" /\ plan[j] # "page" => "media" \in files[j]

(* The cache cleanup does not delete storage/tmp/<job> while the job's row   *)
(* says it is running, as long as the process has not crashed and left a     *)
(* directory that is older than its job's last dispatch.                     *)
CleanupSparesUntilCrash ==
    [][\A j \in Jobs :
          restarts = 0 /\ clean' # clean /\ tmp[j] # "none" /\ tmp'[j] = "none"
              => ~Active(j)]_allVars

(* A visible job that has reached the retention limit while nothing worked   *)
(* on it is hidden and its outputs are gone in the end, even when the sweep  *)
(* that started on it crashed half-way, unless somebody takes the job up.    *)
AtRest(j) == status[j] \in Restful /\ References(j) = 0 /\ prune.pc = "idle"

ExpiredAreSwept ==
    \A j \in Jobs : j \in expired \ hidden /\ AtRest(j)
                        ~> status[j] \notin Restful \/ (j \in hidden /\ files[j] = {})
=============================================================================
