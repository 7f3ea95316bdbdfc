---------------------------- MODULE AttemptsProofs ----------------------------
(***************************************************************************)
(* The processing of selected candidates, for every job, every list of     *)
(* candidates and every limit: the types of its state, the settings it     *)
(* reads, and which candidates a dispatch tries, in which order.           *)
(***************************************************************************)
EXTENDS MediaDelivery, TLAPS

\* The task has a candidate at hand.
Busy == task.pc \in {"work", "probe", "companion", "delegate", "write", "copying",
                     "transcode", "writing", "store"}

Aim ==
    /\ \A a \in task.todo : a.id \in DOMAIN all
    /\ task.current # 0 => task.current \in DOMAIN all
    /\ Busy /\ task.via # "slides" => task.current # 0
    /\ task.via = "slides" => task.pc \in {"slides", "write", "writing", "store", "finish", "idle"}
    /\ task.pc = "slides" => task.via = "slides"

TInv == ProcessTypeOK /\ Aim

LEMMA FileTyped ==
    ASSUME TInv, Busy PROVE File \in FileNames /\ Made \in MediaKinds
  <1>1. CASE task.via = "slides"
    BY <1>1 DEF File, Made, FileNames, MediaKinds
  <1>2. CASE task.via # "slides"
    <2>1. task.current \in DOMAIN all /\ task.current \in Ids /\ all[task.current] \in Candidate
      BY <1>2 DEF TInv, Aim, ProcessTypeOK
    <2>2. Output(Current) \in MediaKinds
      BY <2>1 DEF Output, Current, MediaKinds, CandidateKinds, Candidate
    <2> QED
      BY <1>2, <2>1, <2>2 DEF File, Made, FileNames
  <1> QED
    BY <1>1, <1>2

LEMMA Limits ==
    ASSUME SettingsTypeOK, NEW limit \in Nat \cup {NoLimit}
    PROVE  /\ effective_limits_for_job(limit) \in Nat
           /\ limit # NoLimit => effective_limits_for_job(limit) <= limit
  <1>1. Effective("max_download_mb") \in Nat
    BY SettingsAssumption DEF SettingsTypeOK, Effective
  <1> QED
    BY <1>1 DEF effective_limits_for_job, NoLimit

LEMMA OrderTyped ==
    ASSUME TInv
    PROVE  \A a \in candidate_attempt_order(job, all, selected) :
               a \in Attempts /\ a.id \in DOMAIN all
  <1>1. primary_candidate_attempts(job, all, selected) \subseteq DOMAIN all
    BY DEF TInv, ProcessTypeOK, primary_candidate_attempts
  <1>2. ASSUME NEW a \in candidate_attempt_order(job, all, selected)
        PROVE  \E i \in DOMAIN all, f \in BOOLEAN : a = Attempt(i, f)
    BY <1>1 DEF candidate_attempt_order
  <1>3. \A i \in DOMAIN all, f \in BOOLEAN :
            Attempt(i, f) \in Attempts /\ Attempt(i, f).id \in DOMAIN all
    BY DEF Attempt, Attempts, TInv, ProcessTypeOK
  <1> QED
    BY <1>2, <1>3

TaskRecord == [pc : TaskPc, todo : SUBSET Attempts, current : Ids \cup {0}, via : Via,
               streams : SUBSET Streams, successes : Nat,
               limit : Nat, base : Nat, slides : Seq(Ids)]

LEMMA IdleTyped ==
    /\ IdleTask \in TaskRecord
    /\ \A n \in Nat : [IdleTask EXCEPT !.base = n] \in TaskRecord
  <1>1. <<>> \in Seq(Ids)
    OBVIOUS
  <1> QED
    BY <1>1 DEF IdleTask, TaskRecord, TaskPc, Via

LEMMA InitTyped == ASSUME Init PROVE TInv
  <1>1. SettingsTypeOK
    BY SettingsAssumption DEF Init, SettingsInit, SettingsTypeOK, NoForm, Unset
  <1>2. PageRow \in Artifact
    BY DEF PageRow, Artifact, OutputKinds, FileNames, Via
  <1>3. artifacts \in Seq(Artifact)
    BY <1>2 DEF Init
  <1>4. files \in [FileNames -> [state : {"absent", "partial", "whole"}, size : Nat]]
    BY DEF Init, Whole, Absent
  <1>5. /\ job \in Job /\ DOMAIN all \subseteq Ids /\ selections \in Nat
        /\ \A i \in DOMAIN all : all[i] \in Candidate
    BY ProcessAssumption DEF Init
  <1>6. task = [IdleTask EXCEPT !.base = Len(artifacts)]
    BY DEF Init
  <1>7. task \in TaskRecord
    <2>1. Len(artifacts) \in Nat
      BY <1>3
    <2> QED
      BY <1>6, <2>1, IdleTyped
  <1>8. Aim
    BY <1>6 DEF Aim, IdleTask, Busy
  <1>9. /\ validation \in [Ids -> {"none", "ok", "failed"}]
        /\ tried \in Seq(Ids) /\ selected = {} /\ status = "candidates_ready"
        /\ media_url = NoFile
    BY DEF Init
  <1> QED
    BY <1>1, <1>3, <1>4, <1>5, <1>7, <1>8, <1>9
    DEF TInv, ProcessTypeOK, TaskRecord


-----------------------------------------------------------------------------
(* The steps.                                                                *)

LEMMA SettingsTyped == ASSUME SettingsTypeOK, SettingsNext PROVE SettingsTypeOK'
  <1>1. /\ Len(Fields) \in Nat /\ NoForm \in [FieldNames -> Nat]
        /\ \A i \in 1 .. Len(Fields) : Fields[i] \in FieldNames
    BY SettingsAssumption DEF NoForm, Unset, FieldNames
  <1>2. CASE BeginUpdate
    BY <1>1, <1>2, SettingsAssumption DEF BeginUpdate, SettingsTypeOK, Open
  <1>3. CASE WriteField
    <2>1. draft' \in [FieldNames -> Nat]
      BY <1>1, <1>3 DEF WriteField, SettingsTypeOK, Open, Field
    <2> QED
      BY <1>1, <1>3, <2>1 DEF WriteField, SettingsTypeOK, Open
  <1>4. CASE RefuseField
    BY <1>1, <1>4 DEF RefuseField, SettingsTypeOK, Closed
  <1>5. CASE CommitUpdate
    BY <1>1, <1>5 DEF CommitUpdate, SettingsTypeOK, Closed
  <1> QED
    BY <1>2, <1>3, <1>4, <1>5 DEF SettingsNext

LEMMA SettingsStay == ASSUME SettingsTypeOK, UNCHANGED settings PROVE SettingsTypeOK'
  BY DEF SettingsTypeOK, settings

Statuses == {"candidates_ready", "candidate_selected", "processing", "ready", "error"}
FileState == [state : {"absent", "partial", "whole"}, size : Nat]
Files == [FileNames -> FileState]
Kept == /\ job' = job /\ all' = all /\ selected' = selected /\ selections' = selections
        /\ UNCHANGED settings

LEMMA Typed ==
    ASSUME TInv, Kept, task' \in TaskRecord, Aim', status' \in Statuses,
           media_url' \in FileNames \cup {NoFile}, artifacts' \in Seq(Artifact),
           files' \in Files, validation' \in [Ids -> {"none", "ok", "failed"}],
           tried' \in Seq(Ids)
    PROVE  TInv'
  <1>1. SettingsTypeOK'
    BY SettingsStay DEF Kept, TInv, ProcessTypeOK
  <1> QED
    BY <1>1 DEF TInv, ProcessTypeOK, TaskRecord, Kept, Statuses, Files, FileState

(* A step of a dispatch changes neither the job nor its candidates.          *)
LEMMA TaskTyped == ASSUME TInv, TaskNext PROVE TInv'
  <1> USE DEF jobRows, settings
  <1>0. /\ task \in TaskRecord /\ SettingsTypeOK
        /\ task.current \in Ids \cup {0} /\ task.pc \in TaskPc /\ task.via \in Via
    BY DEF TInv, ProcessTypeOK, TaskRecord
  <1>1. CASE Start
    <2>1. candidate_attempt_order(job, all, selected) \subseteq Attempts
          /\ \A a \in candidate_attempt_order(job, all, selected) : a.id \in DOMAIN all
      BY OrderTyped
    <2>2. {Attempt(i, FALSE) : i \in selected} \subseteq Attempts
          /\ \A a \in {Attempt(i, FALSE) : i \in selected} : a.id \in DOMAIN all
      <3>1. \A i \in selected : Attempt(i, FALSE) \in Attempts /\ Attempt(i, FALSE).id \in DOMAIN all
        BY DEF TInv, ProcessTypeOK, Attempt, Attempts
      <3> QED
        BY <3>1
    <2>3. effective_limits_for_job(job.limit) \in Nat
      BY <1>0, Limits DEF TInv, ProcessTypeOK, Job
    <2>4. Len(artifacts) \in Nat
      BY DEF TInv, ProcessTypeOK
    <2> DEFINE show == should_build_image_slideshow(job, all, selected)
    <2> DEFINE todo == IF show THEN {Attempt(i, FALSE) : i \in selected}
                       ELSE candidate_attempt_order(job, all, selected)
    <2>5. task' = [IdleTask EXCEPT !.pc = IF show THEN "slides" ELSE "pick",
                       !.via = IF show THEN "slides" ELSE "none",
                       !.todo = todo,
                       !.limit = effective_limits_for_job(job.limit),
                       !.base = Len(artifacts)]
      BY <1>1 DEF Start
    <2>6. todo \in SUBSET Attempts /\ \A a \in todo : a.id \in DOMAIN all
      BY <2>1, <2>2
    <2> HIDE DEF todo, show
    <2>7. task' \in TaskRecord
      BY <2>3, <2>4, <2>5, <2>6, IdleTyped DEF TaskRecord, TaskPc, Via
    <2>8. UNCHANGED <<job, all, selected, media_url, artifacts, validation, status, files,
                      selections, stored, draft, form, position, updates>> /\ tried' = <<>>
      BY <1>1 DEF Start, RowsStay
    <2>9. Aim'
      BY <2>5, <2>6, <2>8 DEF Aim, IdleTask, Busy
    <2> QED
      BY <2>7, <2>8, <2>9, <1>0, SettingsStay DEF TInv, ProcessTypeOK, TaskRecord
  <1>a. /\ job \in Job /\ selected \subseteq DOMAIN all /\ DOMAIN all \subseteq Ids
        /\ status \in Statuses /\ media_url \in FileNames \cup {NoFile}
        /\ artifacts \in Seq(Artifact) /\ files \in Files
        /\ validation \in [Ids -> {"none", "ok", "failed"}] /\ tried \in Seq(Ids)
    BY DEF TInv, ProcessTypeOK, Statuses, Files, FileState
  <1>b. Aim
    BY DEF TInv
  <1>c. /\ Busy => \A st \in FileState : [files EXCEPT ![File] = st] \in Files
        /\ Partial \in FileState /\ Absent \in FileState
        /\ \A size \in Nat : Whole(size) \in FileState
    BY <1>a, FileTyped DEF Files, FileState, Partial, Absent, Whole
  <1>d. AfterSuccess \in {"pick", "finish"} /\ task.successes + 1 \in Nat
    BY <1>0 DEF AfterSuccess, TaskRecord
  <1>2. CASE StartRefused
    <2>1. Aim'
      BY <1>2, <1>b DEF StartRefused, RowsStay, Aim, Busy
    <2> QED
      BY <1>0, <1>2, <1>a, <2>1, Typed DEF StartRefused, RowsStay, Kept, Statuses
  <1>3. ASSUME NEW a \in task.todo, Pick(a) PROVE TInv'
    <2>1. a.id \in DOMAIN all /\ a.id \in Ids
      BY <1>a, <1>b DEF Aim
    <2>2. task' \in TaskRecord
      BY <1>0, <1>3, <2>1 DEF Pick, TaskRecord, TaskPc, Via
    <2>3. tried' \in Seq(Ids)
      BY <1>3, <1>a, <2>1 DEF Pick
    <2>4. Aim'
      BY <1>0, <1>3, <1>b, <2>1, ProcessAssumption DEF Pick, RowsStay, Aim, Busy, TaskRecord, Ids
    <2> QED
      BY <1>3, <1>a, <2>2, <2>3, <2>4, Typed DEF Pick, RowsStay, Kept
  <1>4. ASSUME NEW streams \in SUBSET Streams, Download(streams) PROVE TInv'
    <2>1. task' \in TaskRecord
      BY <1>0, <1>4 DEF Download, Goto, TaskRecord, TaskPc, Via, Streams
    <2>2. Aim'
      BY <1>0, <1>4, <1>b DEF Download, Goto, OnlyTask, Working, RowsStay, At, Aim, Busy, TaskRecord
    <2> QED
      BY <1>4, <1>a, <2>1, <2>2, Typed DEF Download, OnlyTask, Working, RowsStay, Kept, Statuses
  <1>5. CASE DownloadCompanion
    <2>1. task' \in TaskRecord
      BY <1>0, <1>5 DEF DownloadCompanion, Goto, TaskRecord, TaskPc, Via, Streams
    <2>2. Aim'
      BY <1>0, <1>5, <1>b DEF DownloadCompanion, Goto, OnlyTask, Working, RowsStay, At, Aim, Busy, TaskRecord
    <2> QED
      BY <1>5, <1>a, <2>1, <2>2, Typed DEF DownloadCompanion, OnlyTask, Working, RowsStay, Kept, Statuses
  <1>6. CASE ValidateManifest
    <2>1. task' \in TaskRecord
      BY <1>0, <1>6 DEF ValidateManifest, Goto, TaskRecord, TaskPc, Via, Streams
    <2>2. Aim'
      BY <1>0, <1>6, <1>b DEF ValidateManifest, Goto, OnlyTask, Working, RowsStay, At, Aim, Busy, TaskRecord
    <2> QED
      BY <1>6, <1>a, <2>1, <2>2, Typed DEF ValidateManifest, OnlyTask, Working, RowsStay, Kept, Statuses
  <1>7. ASSUME NEW streams \in SUBSET Streams, OpenStream(streams) PROVE TInv'
    <2>1. task' \in TaskRecord
      BY <1>0, <1>7 DEF OpenStream, Goto, TaskRecord, TaskPc, Via, Streams
    <2>2. Aim'
      BY <1>0, <1>7, <1>b DEF OpenStream, Goto, OnlyTask, Working, RowsStay, At, Aim, Busy, TaskRecord
    <2> QED
      BY <1>7, <1>a, <2>1, <2>2, Typed DEF OpenStream, OnlyTask, Working, RowsStay, Kept, Statuses
  <1>8. ASSUME NEW streams \in SUBSET Streams, Delegate(streams) PROVE TInv'
    <2>1. task' \in TaskRecord
      BY <1>0, <1>8 DEF Delegate, Goto, TaskRecord, TaskPc, Via, Streams
    <2>2. Aim'
      BY <1>0, <1>8, <1>b DEF Delegate, Goto, OnlyTask, Working, RowsStay, At, Aim, Busy, TaskRecord
    <2> QED
      BY <1>8, <1>a, <2>1, <2>2, Typed DEF Delegate, OnlyTask, Working, RowsStay, Kept, Statuses
  <1>9. CASE OpenOutput
    <2>1. task' \in TaskRecord
      BY <1>0, <1>9 DEF OpenOutput, CopyFirst, Goto, TaskRecord, TaskPc, Via, Streams
    <2>2. Aim'
      BY <1>0, <1>9, <1>b DEF OpenOutput, CopyFirst, Goto, OnlyTask, Working, RowsStay, At, Aim, Busy, TaskRecord
    <2>3. Busy
      BY <1>9 DEF OpenOutput, CopyFirst, At, Busy, CanFail, OverLimit
    <2>4. files' \in Files
      BY <1>9, <1>a, <1>c, <2>3, ProcessAssumption DEF OpenOutput, CopyFirst, Discarded
    <2> QED
      BY <1>9, <1>a, <2>1, <2>2, <2>4, Typed DEF OpenOutput, CopyFirst, Working, RowsStay, Kept, Statuses
  <1>10. CASE OpenImage
    <2>1. task' \in TaskRecord
      BY <1>0, <1>10 DEF OpenImage, Goto, TaskRecord, TaskPc, Via, Streams
    <2>2. Aim'
      BY <1>0, <1>10, <1>b DEF OpenImage, Goto, OnlyTask, Working, RowsStay, At, Aim, Busy, TaskRecord
    <2>3. Busy
      BY <1>10 DEF OpenImage, At, Busy, CanFail, OverLimit
    <2>4. files' \in Files
      BY <1>10, <1>a, <1>c, <2>3, ProcessAssumption DEF OpenImage, Discarded
    <2> QED
      BY <1>10, <1>a, <2>1, <2>2, <2>4, Typed DEF OpenImage, Working, RowsStay, Kept, Statuses
  <1>11. CASE CopyFails
    <2>1. task' \in TaskRecord
      BY <1>0, <1>11 DEF CopyFails, CopyFirst, Goto, TaskRecord, TaskPc, Via, Streams
    <2>2. Aim'
      BY <1>0, <1>11, <1>b DEF CopyFails, CopyFirst, Goto, OnlyTask, Working, RowsStay, At, Aim, Busy, TaskRecord
    <2>3. Busy
      BY <1>11 DEF CopyFails, CopyFirst, At, Busy, CanFail, OverLimit
    <2>4. files' \in Files
      BY <1>11, <1>a, <1>c, <2>3, ProcessAssumption DEF CopyFails, CopyFirst, Discarded
    <2> QED
      BY <1>11, <1>a, <2>1, <2>2, <2>4, Typed DEF CopyFails, CopyFirst, Working, RowsStay, Kept, Statuses
  <1>12. ASSUME NEW size \in Sizes, OutputWritten(size) PROVE TInv'
    <2>1. task' \in TaskRecord
      BY <1>0, <1>12 DEF OutputWritten, Goto, TaskRecord, TaskPc, Via, Streams
    <2>2. Aim'
      BY <1>0, <1>12, <1>b DEF OutputWritten, Goto, OnlyTask, Working, RowsStay, At, Aim, Busy, TaskRecord
    <2>3. Busy
      BY <1>12 DEF OutputWritten, At, Busy, CanFail, OverLimit
    <2>4. files' \in Files
      BY <1>12, <1>a, <1>c, <2>3, ProcessAssumption DEF OutputWritten, Discarded
    <2> QED
      BY <1>12, <1>a, <2>1, <2>2, <2>4, Typed DEF OutputWritten, Working, RowsStay, Kept, Statuses
  <1>13. CASE RawFails
    <2>1. task' \in TaskRecord
      BY <1>0, <1>13 DEF RawFails, Mendable, Goto, TaskRecord, TaskPc, Via, Streams
    <2>2. Aim'
      BY <1>0, <1>13, <1>b DEF RawFails, Mendable, Goto, OnlyTask, Working, RowsStay, At, Aim, Busy, TaskRecord
    <2> QED
      BY <1>13, <1>a, <2>1, <2>2, Typed DEF RawFails, Mendable, OnlyTask, Working, RowsStay, Kept, Statuses
  <1>14. CASE CandidatePanics
    <2>1. task' \in TaskRecord
      BY <1>0, <1>14 DEF CandidatePanics, Goto, TaskRecord, TaskPc, Via, Streams
    <2>2. Aim'
      BY <1>0, <1>14, <1>b DEF CandidatePanics, Goto, OnlyTask, Working, RowsStay, At, Aim, Busy, TaskRecord
    <2> QED
      BY <1>14, <1>a, <2>1, <2>2, Typed DEF CandidatePanics, OnlyTask, Working, RowsStay, Kept, Statuses
  <1>15. CASE SlidesFetched
    <2>1. task' \in TaskRecord
      BY <1>0, <1>15 DEF SlidesFetched, Goto, TaskRecord, TaskPc, Via, Streams
    <2>2. Aim'
      BY <1>0, <1>15, <1>b DEF SlidesFetched, Goto, OnlyTask, Working, RowsStay, At, Aim, Busy, TaskRecord
    <2> QED
      BY <1>15, <1>a, <2>1, <2>2, Typed DEF SlidesFetched, OnlyTask, Working, RowsStay, Kept, Statuses
  <1>16. CASE insert_artifact
    <2>1. Busy /\ task' \in TaskRecord
      BY <1>0, <1>16, <1>d DEF insert_artifact, At, Busy, Succeeds, TaskRecord, TaskPc
    <2>2. Aim'
      BY <1>0, <1>16, <1>b DEF insert_artifact, At, Succeeds, AfterSuccess, Aim, Busy, TaskRecord
    <2>3. Row \in Artifact
      BY <1>0, <2>1, FileTyped DEF Row, Artifact, MediaKinds, OutputKinds
    <2>4. artifacts' \in Seq(Artifact)
      BY <1>16, <1>a, <2>3 DEF insert_artifact
    <2>5. validation' \in [Ids -> {"none", "ok", "failed"}]
      BY <1>16, <1>a DEF insert_artifact, Succeeds
    <2> QED
      BY <1>16, <1>a, <2>1, <2>2, <2>4, <2>5, Typed DEF insert_artifact, Kept
  <1>17. CASE NothingToMake
    <2>1. task' \in TaskRecord
      BY <1>0, <1>17, <1>d DEF NothingToMake, Succeeds, TaskRecord, TaskPc
    <2>2. Aim'
      BY <1>0, <1>17, <1>b DEF NothingToMake, At, Succeeds, AfterSuccess, Aim, Busy, TaskRecord
    <2>3. validation' \in [Ids -> {"none", "ok", "failed"}]
      BY <1>17, <1>a DEF NothingToMake, Succeeds
    <2> QED
      BY <1>17, <1>a, <2>1, <2>2, <2>3, Typed DEF NothingToMake, Kept
  <1>18. CASE CandidateFails
    <2>1. task' \in TaskRecord
      BY <1>0, <1>18 DEF CandidateFails, Goto, TaskRecord, TaskPc
    <2>2. Aim'
      BY <1>0, <1>18, <1>b DEF CandidateFails, Goto, Aim, Busy, TaskRecord
    <2>3. files' \in Files
      BY <1>18, <1>a, <1>c DEF CandidateFails, Discarded, At, Busy
    <2>4. validation' \in [Ids -> {"none", "ok", "failed"}]
      BY <1>18, <1>a DEF CandidateFails
    <2> QED
      BY <1>18, <1>a, <2>1, <2>2, <2>3, <2>4, Typed DEF CandidateFails, Kept
  <1>19. CASE SlideshowFails
    <2>1. task' \in TaskRecord
      BY <1>0, <1>19 DEF SlideshowFails, Goto, TaskRecord, TaskPc
    <2>2. Aim'
      BY <1>0, <1>19, <1>b DEF SlideshowFails, RowsStay, Goto, Aim, Busy, TaskRecord
    <2>3. files' \in Files
      BY <1>19, <1>a, <1>c DEF SlideshowFails, Discarded, At, Busy
    <2> QED
      BY <1>19, <1>a, <2>1, <2>2, <2>3, Typed DEF SlideshowFails, RowsStay, Kept, Statuses
  <1>20. ASSUME NEW a \in task.todo, FetchSlide(a) PROVE TInv'
    <2>1. a.id \in Ids
      BY <1>a, <1>b DEF Aim
    <2>2. task' \in TaskRecord
      <3>1. Append(task.slides, a.id) \in Seq(Ids) /\ task.todo \ {a} \subseteq Attempts
        BY <1>0, <2>1 DEF TaskRecord
      <3> QED
        BY <1>0, <1>20, <3>1 DEF FetchSlide, TaskRecord
    <2>3. Aim'
      BY <1>0, <1>20, <1>b DEF FetchSlide, Working, RowsStay, At, Aim, Busy, TaskRecord
    <2> QED
      BY <1>20, <1>a, <2>2, <2>3, Typed DEF FetchSlide, Working, RowsStay, Kept, Statuses
  <1>21. CASE Exhausted
    <2>1. task' \in TaskRecord
      BY <1>0, <1>21 DEF Exhausted, Settle, Goto, TaskRecord, TaskPc
    <2>2. Aim'
      BY <1>0, <1>21, <1>b DEF Exhausted, Settle, Goto, OnlyTask, RowsStay, At, Aim, Busy, TaskRecord
    <2> QED
      BY <1>21, <1>a, <2>1, <2>2, Typed DEF Exhausted, Settle, OnlyTask, RowsStay, Kept, Statuses
  <1>22. CASE Finish
    <2>1. task' \in TaskRecord
      BY <1>0, <1>22 DEF Finish, Settle, Goto, TaskRecord, TaskPc
    <2>2. Aim'
      BY <1>0, <1>22, <1>b DEF Finish, Settle, Goto, At, Aim, Busy, TaskRecord
    <2>3. FirstFile \in FileNames \cup {NoFile}
      <3>1. CASE artifacts = <<>>
        BY <3>1 DEF FirstFile
      <3>2. CASE artifacts # <<>>
        <4>1. artifacts[1] \in Artifact
          BY <1>a, <3>2
        <4> QED
          BY <3>2, <4>1 DEF FirstFile, Artifact
      <3> QED
        BY <3>1, <3>2
    <2> QED
      BY <1>22, <1>a, <2>1, <2>2, <2>3, Typed DEF Finish, Settle, Kept, Statuses
  <1> QED
    BY <1>1, <1>2, <1>3, <1>4, <1>5, <1>6, <1>7, <1>8, <1>9, <1>10, <1>11, <1>12, <1>13,
       <1>14, <1>15, <1>16, <1>17, <1>18, <1>19, <1>20, <1>21, <1>22 DEF TaskNext

LEMMA ChooseTyped ==
    ASSUME TInv, NEW set \in SUBSET DOMAIN all, Choose(set) PROVE TInv'
  <1>1. /\ artifacts \in Seq(Artifact) /\ SettingsTypeOK
    BY DEF TInv, ProcessTypeOK
  <1>2. task' \in TaskRecord
    <2>1. Len(artifacts) \in Nat
      BY <1>1
    <2> QED
      BY <2>1, IdleTyped DEF Choose
  <1>3. Aim'
    BY DEF Choose, Aim, IdleTask, Busy
  <1>4. SettingsTypeOK'
    BY <1>1, SettingsStay DEF Choose
  <1>5. tried' \in Seq(Ids) /\ selections' \in Nat /\ selected' \subseteq DOMAIN all'
    BY DEF Choose, TInv, ProcessTypeOK
  <1> QED
    BY <1>2, <1>3, <1>4, <1>5 DEF Choose, TInv, ProcessTypeOK, TaskRecord

LEMMA RecommendedTyped ==
    /\ recommended_candidates_for_job(job, all) \in SUBSET DOMAIN all
    /\ direct_candidate(job, all) \in SUBSET DOMAIN all
  BY DEF recommended_candidates_for_job, direct_candidate, FirstBest, LastBest

LEMMA TInvInductive == ASSUME TInv, [Next]_vars PROVE TInv'
  <1>1. CASE Select
    BY <1>1, ChooseTyped DEF Select
  <1>2. CASE AutoSelect
    BY <1>2, ChooseTyped, RecommendedTyped DEF AutoSelect
  <1>3. CASE TaskNext
    BY <1>3, TaskTyped
  <1>4. CASE SettingsNext /\ UNCHANGED process
    <2>1. SettingsTypeOK'
      BY <1>4, SettingsTyped DEF TInv, ProcessTypeOK
    <2> QED
      BY <1>4, <2>1 DEF process, jobRows, TInv, ProcessTypeOK, Aim, Busy
  <1>5. CASE UNCHANGED vars
    <2>1. SettingsTypeOK'
      BY <1>5, SettingsStay DEF vars, TInv, ProcessTypeOK
    <2> QED
      BY <1>5, <2>1 DEF vars, process, jobRows, TInv, ProcessTypeOK, Aim, Busy
  <1> QED
    BY <1>1, <1>2, <1>3, <1>4, <1>5 DEF Next

(* The type invariant: every row, file and register of a dispatch, and the   *)
(* candidate at hand is one of the job's.                                    *)
THEOREM ProcessTyped == Spec => []ProcessTypeOK
  <1>1. Spec => []TInv
    BY InitTyped, TInvInductive, PTL DEF Spec
  <1>2. TInv => ProcessTypeOK
    BY DEF TInv
  <1> QED
    BY <1>1, <1>2, PTL

-----------------------------------------------------------------------------
(* The settings *)

Written(f) == \E i \in 1 .. Len(Fields) : i < position /\ Fields[i] = f

\* The draft holds what the request has written so far, all of it in range.
Drafted ==
    Open => /\ \A f \in FieldNames : form[f] # Unset /\ Written(f) => InRange(f, form[f])
            /\ draft = [f \in FieldNames |->
                           IF form[f] # Unset /\ Written(f) THEN form[f] ELSE stored[f]]

LEMMA DraftedInductive == ASSUME TInv, Drafted, [Next]_vars PROVE Drafted'
  <1>1. /\ SettingsTypeOK /\ Len(Fields) \in Nat /\ position \in Nat
        /\ \A i \in 1 .. Len(Fields) : Fields[i] \in FieldNames
    BY SettingsAssumption DEF TInv, ProcessTypeOK, SettingsTypeOK, FieldNames
  <1>2. CASE BeginUpdate
    <2>1. position' = 1 /\ draft' = stored /\ stored' = stored /\ stored \in [FieldNames -> Nat]
      BY <1>1, <1>2 DEF BeginUpdate, SettingsTypeOK
    <2>2. \A f : ~Written(f)'
      BY <2>1 DEF Written
    <2> QED
      BY <2>1, <2>2 DEF Drafted
  <1>3. CASE WriteField
    <2>1. /\ Open /\ position \in 1 .. Len(Fields) /\ position' = position + 1
          /\ stored' = stored /\ form' = form
          /\ form[Field] = Unset \/ InRange(Field, form[Field])
          /\ draft' = IF form[Field] = Unset THEN draft
                      ELSE [draft EXCEPT ![Field] = form[Field]]
      BY <1>1, <1>3 DEF WriteField, Open
    <2>2. \A f \in FieldNames : Written(f)' <=> Written(f) \/ f = Field
      BY <1>1, <2>1 DEF Written, Field
    <2>3. \A f \in FieldNames : form[f] # Unset /\ Written(f)' => InRange(f, form[f])
      BY <2>1, <2>2 DEF Drafted
    <2>4. draft' = [f \in FieldNames |->
                       IF form[f] # Unset /\ Written(f)' THEN form[f] ELSE stored[f]]
      BY <1>1, <2>1, <2>2 DEF Drafted
    <2> QED
      BY <2>1, <2>3, <2>4 DEF Drafted
  <1>4. CASE RefuseField \/ CommitUpdate
    BY <1>4 DEF RefuseField, CommitUpdate, Closed, Drafted, Open
  <1>5. CASE UNCHANGED settings
    BY <1>5 DEF settings, Drafted, Open, Written
  <1>6. SettingsNext \/ UNCHANGED settings
    <2>1. Select \/ AutoSelect => UNCHANGED settings
      BY RecommendedTyped DEF Select, AutoSelect, Choose
    <2>2. TaskNext => UNCHANGED settings
      BY DEF TaskNext, Start, StartRefused, Pick, Download, DownloadCompanion, ValidateManifest,
             OpenStream, Delegate, OpenOutput, OpenImage, CopyFails, OutputWritten,
             insert_artifact, NothingToMake, RawFails, CandidateFails, CandidatePanics,
             SlideshowFails, FetchSlide, SlidesFetched, Exhausted, Finish, OnlyTask, Settle, Working
    <2> QED
      BY <2>1, <2>2 DEF Next, vars
  <1> QED
    BY <1>2, <1>3, <1>4, <1>5, <1>6 DEF SettingsNext

(* The settings change by whole requests, every value of them in its range.  *)
THEOREM SettingsChangeAsAWhole == Spec => UpdatedAsAWhole
  <1> DEFINE Request == /\ \A f \in FieldNames : form[f] # Unset => InRange(f, form[f])
                       /\ stored' = [f \in FieldNames |->
                                        IF form[f] = Unset THEN stored[f] ELSE form[f]]
  <1>1. Init => Drafted
    BY DEF Init, SettingsInit, Drafted, Open
  <1>2. ASSUME TInv, Drafted, [Next]_vars, stored' # stored PROVE Request
    <2>1. CommitUpdate
      BY <1>2, RecommendedTyped
      DEF Next, vars, settings, SettingsNext, BeginUpdate, WriteField, RefuseField, Select,
          AutoSelect, Choose, TaskNext, Start, StartRefused, Pick, Download, DownloadCompanion,
          ValidateManifest, OpenStream, Delegate, OpenOutput, OpenImage, CopyFails, OutputWritten,
          insert_artifact, NothingToMake, RawFails, CandidateFails, CandidatePanics,
          SlideshowFails, FetchSlide, SlidesFetched, Exhausted, Finish, OnlyTask, Settle, Working
    <2>2. Len(Fields) \in Nat /\ position \in Nat /\ position > Len(Fields) /\ Open
      BY <1>2, <2>1, SettingsAssumption DEF CommitUpdate, TInv, ProcessTypeOK, SettingsTypeOK
    <2>3. \A f \in FieldNames : Written(f)
      BY <2>2, SettingsAssumption DEF Written, FieldNames
    <2> QED
      BY <1>2, <2>1, <2>2, <2>3 DEF CommitUpdate, Drafted
  <1>3. TInv /\ Drafted /\ [Next]_vars => [Request]_stored
    BY <1>2
  <1>4. Spec => [](TInv /\ Drafted)
    BY <1>1, InitTyped, TInvInductive, DraftedInductive, PTL DEF Spec
  <1>5. Spec => [][Request]_stored
    BY <1>3, <1>4, PTL DEF Spec
  <1> QED
    BY <1>5, PTL DEF UpdatedAsAWhole

-----------------------------------------------------------------------------
(* The rank of an attempt *)

LEMMA QualityBounds ==
    ASSUME NEW c \in Candidate, c.height <= 2160, NEW target \in Nat, target <= 1080
    PROVE  /\ quality_preference_rank(target, c) \in Int
           /\ -160 <= quality_preference_rank(target, c)
           /\ quality_preference_rank(target, c) <= 6080
  BY SMT DEF quality_preference_rank, Candidate, NoNumber

LEMMA CompatibilityBounds ==
    ASSUME NEW c \in Candidate
    PROVE  /\ mp4_compatibility_rank(c) \in Int
           /\ -880 <= mp4_compatibility_rank(c) /\ mp4_compatibility_rank(c) <= 720
  <1> DEFINE T1 == IF "mp4" \in c.format THEN 300 ELSE 0
             T2 == IF "h264" \in c.format THEN 300 ELSE 0
             T3 == IF "aac" \in c.format THEN 120 ELSE 0
             T4 == IF "webm" \in c.format THEN 700 ELSE 0
             T5 == IF "opus" \in c.format THEN 180 ELSE 0
  <1>1. /\ T1 \in Int /\ 0 <= T1 /\ T1 <= 300
        /\ T2 \in Int /\ 0 <= T2 /\ T2 <= 300
        /\ T3 \in Int /\ 0 <= T3 /\ T3 <= 120
        /\ T4 \in Int /\ 0 <= T4 /\ T4 <= 700
        /\ T5 \in Int /\ 0 <= T5 /\ T5 <= 180
    OBVIOUS
  <1> DEFINE M == mp4_compatibility_rank(c)
  <1>2. M = T1 + T2 + T3 - T4 - T5
    BY DEF mp4_compatibility_rank
  <1> HIDE DEF T1, T2, T3, T4, T5, M
  <1>3. M \in Int /\ -880 <= M /\ M <= 720
    BY <1>1, <1>2, SMT
  <1> QED
    BY <1>3 DEF M

LEMMA BitrateBounds ==
    ASSUME NEW c \in Candidate, Ordinary(c)
    PROVE  Quotient(audio_rank(c), 1000) \in 0 .. 999
  <1>1. audio_rank(c) \in Int /\ audio_rank(c) >= -40
    BY SMT DEF Ordinary, audio_rank, Candidate, NoNumber
  <1>2. Quotient(audio_rank(c), 1000) < 1000
    BY DEF Ordinary
  <1>3. Quotient(audio_rank(c), 1000) \in Nat
    <2>1. CASE audio_rank(c) >= 0
      BY SMT, <1>1, <2>1 DEF Quotient
    <2>2. CASE audio_rank(c) < 0
      BY SMT, <1>1, <2>2 DEF Quotient
    <2> QED
      BY SMT, <1>1, <2>1, <2>2
  <1> QED
    BY SMT, <1>2, <1>3

(* The bonus of a chosen candidate outweighs whatever ordinary candidates of *)
(* a job can differ by otherwise.                                            *)
LEMMA BonusDecides ==
    ASSUME NEW j \in Job, j.target <= 1080,
           NEW c \in Candidate, Ordinary(c), Selectable(c), is_compatible_fallback(j, c),
           NEW d \in Candidate, Ordinary(d)
    PROVE  /\ candidate_attempt_rank(j, c, TRUE) \in Int
           /\ candidate_attempt_rank(j, d, FALSE) \in Int
           /\ candidate_attempt_rank(j, c, TRUE) > candidate_attempt_rank(j, d, FALSE)
  <1> DEFINE Ac == IF WantsAudioOnly(j) THEN AudioBonus(c.kind) ELSE 0
             Ad == IF WantsAudioOnly(j) THEN AudioBonus(d.kind) ELSE 0
             Qc == quality_preference_rank(j.target, c)
             Qd == quality_preference_rank(j.target, d)
             Mc == mp4_compatibility_rank(c)
             Md == mp4_compatibility_rank(d)
             Cc == IF candidate_needs_audio_companion(c) THEN 120 ELSE 0
             Cd == IF candidate_needs_audio_companion(d) THEN 120 ELSE 0
             Vc == IF Wants(j, "Video") THEN VideoBonus(c.kind) + Mc + Cc ELSE 0
             Vd == IF Wants(j, "Video") THEN VideoBonus(d.kind) + Md + Cd ELSE 0
             Bc == Quotient(audio_rank(c), 1000)
             Bd == Quotient(audio_rank(d), 1000)
             Hc == IF c.auth THEN 100 ELSE 0
             Hd == IF d.auth THEN 100 ELSE 0
             Pc == Penalty(candidate_not_selectable_reason(c))
             Pd == Penalty(candidate_not_selectable_reason(d))
             Sc == c.score
             Sd == d.score
             RankC == candidate_attempt_rank(j, c, TRUE)
             RankD == candidate_attempt_rank(j, d, FALSE)
  <1>1. /\ RankC = Sc + 10000 + Ac + Qc + Vc + Bc - Hc - Pc
        /\ RankD = Sd + 0 + Ad + Qd + Vd + Bd - Hd - Pd
    BY DEF candidate_attempt_rank
  <1>2. j.target \in Nat
    BY DEF Job
  <1>3. /\ Qc \in Int /\ -160 <= Qc /\ Qc <= 6080
        /\ Qd \in Int /\ -160 <= Qd /\ Qd <= 6080
    BY <1>2, QualityBounds DEF Ordinary
  <1>4. /\ Bc \in Int /\ 0 <= Bc
        /\ Bd \in Int /\ Bd <= 999
    <2>1. Bc \in 0 .. 999 /\ Bd \in 0 .. 999
      BY BitrateBounds
    <2> HIDE DEF Bc, Bd
    <2> QED
      BY <2>1, SMT
  <1>5. /\ Hc \in Int /\ Hc <= 100
        /\ Hd \in Int /\ 0 <= Hd
    OBVIOUS
  <1>6. Pc = 0 /\ Pd \in Int /\ 0 <= Pd
    BY DEF Selectable, Penalty
  <1>7. /\ Sc \in Int /\ -40 <= Sc
        /\ Sd \in Int /\ Sd <= 500
    BY DEF Ordinary, Candidate
  <1>8. /\ Mc \in Int /\ -880 <= Mc /\ Md \in Int /\ Md <= 720
        /\ Cc \in Int /\ 0 <= Cc /\ Cd \in Int /\ Cd <= 120
    BY CompatibilityBounds
  <1>9. c.kind \in CandidateKinds /\ d.kind \in CandidateKinds
    BY DEF Candidate
  <1>10. /\ Ac \in Int /\ Ad \in Int /\ Vc \in Int /\ Vd \in Int
         /\ Ac + Vc + 2120 >= Ad + Vd
    <2>1. CASE Wants(j, "Video")
      <3>1. Ac = 0 /\ Ad = 0
        BY <2>1 DEF WantsAudioOnly
      <3>2. c.kind \in {"Video", "Manifest"}
        BY <2>1 DEF is_compatible_fallback, WantsAudioOnly, Playable, Wants
      <3> DEFINE Wc == VideoBonus(c.kind)
                 Wd == VideoBonus(d.kind)
      <3>3. /\ Wc \in Int /\ Wc >= 1600
            /\ Wd \in Int /\ Wd <= 2000
        BY <1>9, <3>2 DEF VideoBonus
      <3>4. Vc = Wc + Mc + Cc /\ Vd = Wd + Md + Cd
        BY <2>1
      <3> HIDE DEF Ac, Ad, Vc, Vd, Mc, Md, Cc, Cd, Wc, Wd
      <3> QED
        BY <1>8, <3>1, <3>3, <3>4, SMT
    <2>2. CASE WantsAudioOnly(j)
      <3>1. Vc = 0 /\ Vd = 0
        BY <2>2 DEF WantsAudioOnly
      <3>2. c.kind \in {"Audio", "Video", "Manifest"}
        BY <2>2 DEF is_compatible_fallback, WantsAudioOnly, Wants
      <3>3. /\ Ac \in Int /\ Ac >= 700
            /\ Ad \in Int /\ Ad <= 2000
        BY <1>9, <2>2, <3>2 DEF AudioBonus
      <3> HIDE DEF Ac, Ad, Vc, Vd
      <3> QED
        BY <3>1, <3>3, SMT
    <2>3. CASE ~Wants(j, "Video") /\ ~WantsAudioOnly(j)
      BY <2>3
    <2> QED
      BY <2>1, <2>2, <2>3
  <1> HIDE DEF Ac, Ad, Qc, Qd, Vc, Vd, Bc, Bd, Hc, Hd, Pc, Pd, Sc, Sd, Mc, Md, Cc, Cd, RankC, RankD
  <1>11. RankC \in Int /\ RankD \in Int /\ RankC > RankD
    BY <1>1, <1>3, <1>4, <1>5, <1>6, <1>7, <1>10, SMT
  <1> QED
    BY <1>11 DEF RankC, RankD

-----------------------------------------------------------------------------
(* The attempts in their order *)

Orders == /\ job.target <= 1080
          /\ \A i \in DOMAIN all : Ordinary(all[i])
          /\ \A i \in Primary : is_compatible_fallback(job, all[i])

\* What is still to be tried is fit, was not tried and is named once; when an
\* unchosen candidate was tried, no chosen one is left.
Orderly ==
    /\ RefusedNeverTried
    /\ TriedOnce
    /\ \A a \in task.todo : Selectable(all[a.id])
    /\ \A a, b \in task.todo : a.id = b.id => a = b
    /\ \A a \in task.todo, k \in DOMAIN tried : tried[k] # a.id
    /\ Orders =>
        /\ \A a \in task.todo : a.id \in Primary \/ a.id \notin selected
        /\ \A k, l \in DOMAIN tried : k < l /\ tried[l] \in Primary => tried[k] \in Primary
        /\ \A k \in DOMAIN tried : tried[k] \notin Primary => \A a \in task.todo : a.id \notin Primary

LEMMA OrderlyGivesChosenFirst == ASSUME Orderly PROVE ChosenFirst
  BY DEF Orderly, ChosenFirst, Orders

LEMMA Unmoved ==
    ASSUME Orderly, job' = job, all' = all, selected' = selected, tried' = tried,
           task'.todo \subseteq task.todo
    PROVE  Orderly'
  <1>1. Primary' = Primary /\ (Orders' <=> Orders)
    BY DEF Primary, Orders
  <1> QED
    BY <1>1 DEF Orderly, RefusedNeverTried, TriedOnce

LEMMA Cleared ==
    ASSUME tried' = <<>>, task'.todo = {} PROVE Orderly'
  BY DEF Orderly, RefusedNeverTried, TriedOnce

LEMMA StartOrderly == ASSUME TInv, Start PROVE Orderly'
  <1> DEFINE primary == primary_candidate_attempts(job, all, selected)
  <1>1. /\ job' = job /\ all' = all /\ selected' = selected /\ tried' = <<>>
        /\ \A i \in selected : Selectable(all[i])
    BY DEF Start, RowsStay
  <1>2. Primary' = Primary /\ Primary = primary /\ (Orders' <=> Orders) /\ primary \subseteq selected
    BY <1>1 DEF Primary, Orders, primary_candidate_attempts
  <1>3. \A i, f : Attempt(i, f).id = i
    BY DEF Attempt
  <1>a. ASSUME \A a \in task'.todo : Selectable(all[a.id]),
               \A a, b \in task'.todo : a.id = b.id => a = b,
               Orders => \A a \in task'.todo : a.id \in Primary \/ a.id \notin selected
        PROVE  Orderly'
    <2>1. DOMAIN tried' = {}
      BY <1>1
    <2>2. RefusedNeverTried' /\ TriedOnce'
      BY <2>1 DEF RefusedNeverTried, TriedOnce
    <2> QED
      BY <1>1, <1>2, <1>a, <2>1, <2>2 DEF Orderly
  <1>4. ASSUME task'.todo = {Attempt(i, FALSE) : i \in selected},
               should_build_image_slideshow(job, all, selected)
        PROVE  Orderly'
    <2>1. primary = selected
      BY <1>4 DEF primary_candidate_attempts, should_build_image_slideshow, Playable
    <2> HIDE DEF primary
    <2>2. \A a \in task'.todo : a.id \in selected /\ a = Attempt(a.id, FALSE)
      BY <1>3, <1>4
    <2> QED
      BY <1>1, <1>2, <1>a, <2>1, <2>2
  <1>5. ASSUME task'.todo = candidate_attempt_order(job, all, selected)
        PROVE  Orderly'
    <2>1. \A a \in task'.todo :
             \/ \E i \in primary : a = Attempt(i, FALSE)
             \/ \E i \in DOMAIN all \ primary :
                   a = Attempt(i, TRUE) /\ Selectable(all[i]) /\ Fallback(job, all, primary, all[i])
      BY <1>5 DEF candidate_attempt_order
    <2>2. ASSUME Orders, NEW i \in DOMAIN all \ primary, Fallback(job, all, primary, all[i])
          PROVE  i \notin selected
      <3>1. CASE Wants(job, "Video")
        <4>1. \A k \in primary : Playable(all[k])
          BY <1>2, <2>2, <3>1 DEF Orders, is_compatible_fallback, WantsAudioOnly, Wants
        <4>2. Playable(all[i])
          BY <2>2, <3>1 DEF Fallback
        <4> QED
          BY <2>2, <3>1, <4>1, <4>2 DEF primary_candidate_attempts
      <3>2. CASE ~Wants(job, "Video")
        BY <2>2, <3>2 DEF primary_candidate_attempts
      <3> QED
        BY <3>1, <3>2
    <2> HIDE DEF primary
    <2>3. \A a \in task'.todo :
             \/ a = Attempt(a.id, FALSE) /\ a.id \in primary
             \/ a = Attempt(a.id, TRUE) /\ a.id \notin primary /\ Selectable(all[a.id])
                /\ (Orders => a.id \notin selected)
      <3> TAKE a \in task'.todo
      <3>1. CASE \E i \in primary : a = Attempt(i, FALSE)
        BY <1>3, <3>1
      <3>2. CASE \E i \in DOMAIN all \ primary :
                    a = Attempt(i, TRUE) /\ Selectable(all[i]) /\ Fallback(job, all, primary, all[i])
        <4>1. PICK i \in DOMAIN all \ primary :
                    a = Attempt(i, TRUE) /\ Selectable(all[i]) /\ Fallback(job, all, primary, all[i])
          BY <3>2
        <4>2. a.id = i
          BY <1>3, <4>1
        <4> QED
          BY <2>2, <4>1, <4>2
      <3> QED
        BY <2>1, <3>1, <3>2
    <2>4. \A a \in task'.todo : Selectable(all[a.id])
      BY <1>1, <1>2, <2>3
    <2>5. \A a, b \in task'.todo : a.id = b.id => a = b
      BY <2>3
    <2> QED
      BY <1>2, <1>a, <2>3, <2>4, <2>5
  <1>6. \/ task'.todo = {Attempt(i, FALSE) : i \in selected}
           /\ should_build_image_slideshow(job, all, selected)
        \/ task'.todo = candidate_attempt_order(job, all, selected)
    BY DEF Start, IdleTask
  <1> QED
    BY <1>4, <1>5, <1>6

LEMMA PickOrderly ==
    ASSUME TInv, Orderly, NEW a \in task.todo, Pick(a) PROVE Orderly'
  <1>1. /\ job' = job /\ all' = all /\ selected' = selected
        /\ tried' = Append(tried, a.id) /\ task'.todo = task.todo \ {a}
        /\ \A b \in task.todo \ {a} : Before(job, all, selected, a, b)
    BY DEF Pick, RowsStay, TInv, ProcessTypeOK
  <1>2. Primary' = Primary /\ (Orders' <=> Orders)
    BY <1>1 DEF Primary, Orders
  <1>3. tried \in Seq(Ids) /\ a.id \in Ids /\ a.id \in DOMAIN all
    BY DEF TInv, ProcessTypeOK, Aim
  <1>4. /\ DOMAIN tried' = 1 .. Len(tried) + 1 /\ DOMAIN tried = 1 .. Len(tried)
        /\ Len(tried) \in Nat
        /\ \A k \in DOMAIN tried : tried'[k] = tried[k]
        /\ tried'[Len(tried) + 1] = a.id
    BY <1>1, <1>3
  <1>5. RefusedNeverTried'
    BY <1>1, <1>4 DEF Orderly, RefusedNeverTried
  <1>6. TriedOnce'
    BY <1>4 DEF Orderly, TriedOnce
  <1>7. \A b \in task'.todo, k \in DOMAIN tried' : tried'[k] # b.id
    BY <1>1, <1>4 DEF Orderly
  <1>8. ASSUME Orders, a.id \notin Primary, NEW b \in task.todo \ {a}
        PROVE  b.id \notin Primary
    <2>1. a.id \notin selected
      BY <1>8 DEF Orderly
    <2>2. SUFFICES ASSUME b.id \in Primary PROVE FALSE
      OBVIOUS
    <2>3. b.id \in DOMAIN all /\ b.id \in selected
      BY <2>2 DEF Primary, primary_candidate_attempts, TInv, ProcessTypeOK
    <2>4. all[a.id] \in Candidate /\ all[b.id] \in Candidate /\ job \in Job
      BY <1>3, <2>3 DEF TInv, ProcessTypeOK
    <2>5. Selectable(all[b.id])
      BY DEF Orderly
    <2> DEFINE RankA == candidate_attempt_rank(job, all[a.id], FALSE)
               RankB == candidate_attempt_rank(job, all[b.id], TRUE)
    <2>6. RankA \in Int /\ RankB \in Int /\ RankB > RankA
      BY <1>3, <1>8, <2>2, <2>3, <2>4, <2>5, BonusDecides DEF Orders
    <2>7. Before(job, all, selected, a, b)
      BY <1>1
    <2>8. (a.id \in selected) = FALSE /\ (b.id \in selected) = TRUE
      BY <2>1, <2>3
    <2>9. RankA > RankB \/ RankA = RankB
      BY <2>7, <2>8 DEF Before
    <2> HIDE DEF RankA, RankB
    <2> QED
      BY <2>6, <2>9
  <1>9. ASSUME Orders
        PROVE  \A k, l \in DOMAIN tried' : k < l /\ tried'[l] \in Primary => tried'[k] \in Primary
    <2> SUFFICES ASSUME NEW k \in DOMAIN tried', NEW l \in DOMAIN tried',
                        k < l, tried'[l] \in Primary
                 PROVE  tried'[k] \in Primary
      OBVIOUS
    <2>1. k \in DOMAIN tried
      BY <1>4
    <2>2. CASE l \in DOMAIN tried
      BY <1>4, <1>9, <2>1, <2>2 DEF Orderly
    <2>3. CASE l = Len(tried) + 1
      BY <1>4, <1>9, <2>1, <2>3 DEF Orderly
    <2> QED
      BY <1>4, <2>2, <2>3
  <1>10. ASSUME Orders, NEW k \in DOMAIN tried', tried'[k] \notin Primary, NEW b \in task'.todo
         PROVE  b.id \notin Primary
    <2>1. CASE k \in DOMAIN tried
      BY <1>1, <1>4, <1>10, <2>1 DEF Orderly
    <2>2. CASE k = Len(tried) + 1
      BY <1>1, <1>4, <1>8, <1>10, <2>2
    <2> QED
      BY <1>4, <2>1, <2>2
  <1>11. \A b, c \in task'.todo : b.id = c.id => b = c
    BY <1>1 DEF Orderly
  <1>12. \A b \in task'.todo : Selectable(all'[b.id])
    BY <1>1 DEF Orderly
  <1>13. Orders => \A b \in task'.todo : b.id \in Primary \/ b.id \notin selected
    BY <1>1 DEF Orderly
  <1> QED
    BY <1>1, <1>2, <1>5, <1>6, <1>7, <1>9, <1>10, <1>11, <1>12, <1>13 DEF Orderly

(* The other steps leave the attempts alone.                                 *)
LEMMA QuietSteps ==
    ASSUME TInv, TaskNext, ~Start, \A a \in task.todo : ~Pick(a)
    PROVE  /\ job' = job /\ all' = all /\ selected' = selected /\ tried' = tried
           /\ task'.todo \subseteq task.todo
  <1>0. task \in TaskRecord
    BY DEF TInv, ProcessTypeOK, TaskRecord
  <1>1. CASE \/ StartRefused \/ CandidatePanics \/ RawFails \/ ValidateManifest \/ Exhausted
    BY <1>0, <1>1
    DEF StartRefused, CandidatePanics, RawFails, ValidateManifest, Exhausted, OnlyTask, RowsStay,
        Settle, Goto, TaskRecord
  <1>2. CASE \E streams \in SUBSET Streams :
                Download(streams) \/ OpenStream(streams) \/ Delegate(streams)
    BY <1>0, <1>2 DEF Download, OpenStream, Delegate, Working, RowsStay, TaskRecord
  <1>3. CASE DownloadCompanion \/ OpenOutput \/ OpenImage \/ CopyFails \/ SlidesFetched
    BY <1>0, <1>3
    DEF DownloadCompanion, OpenOutput, OpenImage, CopyFails, SlidesFetched, Goto, Working,
        RowsStay, TaskRecord
  <1>4. CASE \E size \in Sizes : OutputWritten(size)
    BY <1>0, <1>4 DEF OutputWritten, Goto, Working, RowsStay, TaskRecord
  <1>5. CASE insert_artifact \/ NothingToMake
    BY <1>0, <1>5 DEF insert_artifact, NothingToMake, Succeeds, TaskRecord
  <1>6. CASE CandidateFails \/ SlideshowFails \/ Finish
    BY <1>0, <1>6
    DEF CandidateFails, SlideshowFails, Finish, Settle, Goto, RowsStay, TaskRecord
  <1>7. CASE \E a \in task.todo : FetchSlide(a)
    BY <1>0, <1>7 DEF FetchSlide, Working, RowsStay, TaskRecord
  <1> QED
    BY <1>1, <1>2, <1>3, <1>4, <1>5, <1>6, <1>7 DEF TaskNext

LEMMA OrderlyInductive == ASSUME TInv, Orderly, [Next]_vars PROVE Orderly'
  <1>1. CASE \E set \in SUBSET DOMAIN all : Choose(set)
    BY <1>1, Cleared DEF Choose, IdleTask
  <1>2. CASE Start
    BY <1>2, StartOrderly
  <1>3. CASE \E a \in task.todo : Pick(a)
    BY <1>3, PickOrderly
  <1>4. CASE TaskNext /\ ~Start /\ \A a \in task.todo : ~Pick(a)
    BY <1>4, QuietSteps, Unmoved
  <1>5. CASE UNCHANGED process
    BY <1>5, Unmoved DEF process, jobRows
  <1>6. Select \/ AutoSelect => \E set \in SUBSET DOMAIN all : Choose(set)
    BY RecommendedTyped DEF Select, AutoSelect
  <1> QED
    BY <1>1, <1>2, <1>3, <1>4, <1>5, <1>6 DEF Next, vars

LEMMA OrderlyHolds == Spec => [](TInv /\ Orderly)
  <1>1. Init => TInv /\ Orderly
    BY InitTyped DEF Init, IdleTask, Orderly, RefusedNeverTried, TriedOnce
  <1>2. TInv /\ Orderly /\ [Next]_vars => (TInv /\ Orderly)'
    BY TInvInductive, OrderlyInductive
  <1> QED
    BY <1>1, <1>2, PTL DEF Spec

(* No candidate that may not be selected is ever tried, neither by choice    *)
(* nor as a fallback, and none is tried twice in a dispatch.                 *)
THEOREM TriedOnlyAsAllowed == Spec => []TriedAsAllowed
  <1>1. Orderly => TriedAsAllowed
    BY DEF Orderly, TriedAsAllowed
  <1> QED
    BY <1>1, OrderlyHolds, PTL

(* The chosen candidates come first, whatever ordinary candidates there are. *)
THEOREM ChosenComeFirst == Spec => []ChosenFirst
  BY OrderlyGivesChosenFirst, OrderlyHolds, PTL
=============================================================================
