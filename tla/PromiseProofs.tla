----------------------------- MODULE PromiseProofs -----------------------------
(***************************************************************************)
(* What the rows a dispatch adds promise, how the dispatch ends, and what  *)
(* a request for the media is answered, for every limit and every outcome  *)
(* of the tools.                                                           *)
(***************************************************************************)
EXTENDS AttemptsProofs

-----------------------------------------------------------------------------
(* What the rows promise *)

WantsMedia == job.outputs \cap {"Audio", "Video"} # {}
Count == Len(artifacts)
InDispatch == task.pc # "idle"

\* How many rows a dispatch has added.
Counted ==
    /\ task.base <= Count
    /\ WantsMedia => Count <= task.base + 1
    /\ WantsMedia /\ task.pc \notin {"finish", "idle"} => Count = task.base
    /\ task.successes = 0 => Count = task.base
    /\ task.via = "slides" => Wants(job, "Video")
    /\ InDispatch \/ Count # task.base => \A i \in selected : Selectable(all[i])

\* Where they come from: the files the dispatch has finished are not the one
\* it is at.
Promises ==
    /\ job.limit # NoLimit => task.limit <= job.limit
    /\ \A k \in Fresh :
          LET f == artifacts[k].file
          IN  /\ f = Slideshow => Wants(job, "Video")
              /\ f # Slideshow => \E n \in DOMAIN tried : tried[n] = f[2]
              /\ Busy => f # File
              /\ Busy /\ f # Slideshow => f[2] # task.current
    /\ task.current # 0 => \E n \in DOMAIN tried : tried[n] = task.current
    /\ PromisedIsWhole
    /\ task.pc = "store" => files[File].state = "whole"

Making == {"write", "copying", "transcode", "writing", "store"}

\* What is known of the streams while the output is made.
Heard ==
    /\ SoundIsKept
    /\ task.pc = "probe" => Current.kind = "Manifest"
    /\ /\ task.pc \in Making
       /\ task.via \notin {"tool", "slides"} /\ Made = "Video" /\ Wants(job, "Audio")
       => "audio" \in task.streams

Ended ==
    /\ ReadyIsFulfilled
    /\ GivesUpOnlyWithout
    /\ InDispatch => status \in {"candidate_selected", "processing"}

\* The steps of a dispatch between its start and the row it adds.
Between == /\ TaskNext
           /\ ~Start /\ ~insert_artifact /\ ~NothingToMake
           /\ \A a \in task.todo : ~Pick(a)

Changes ==
    /\ job' = job /\ all' = all /\ selected' = selected /\ artifacts' = artifacts
    /\ tried' = tried
    /\ task'.base = task.base /\ task'.limit = task.limit /\ task'.current = task.current
    /\ task'.successes = task.successes
    /\ task'.via = "slides" <=> task.via = "slides"
    /\ task.pc = "idle" => task'.pc = "idle"
    /\ task.pc = "finish" => task'.pc \in {"finish", "idle"}
    /\ Busy' => Busy \/ task.via = "slides"
    /\ task'.pc = "store" => files'[File].state = "whole"
    /\ \A f \in FileNames : files'[f] = files[f] \/ (Busy /\ f = File)
    /\ \A i \in Ids : \/ validation'[i] = validation[i]
                      \/ Busy /\ task.via # "slides" /\ i = task.current

LEMMA BetweenChanges == ASSUME TInv, Between PROVE Changes
  <1>0. /\ task \in TaskRecord /\ files \in Files /\ validation \in [Ids -> {"none", "ok", "failed"}]
    BY DEF TInv, ProcessTypeOK, TaskRecord, Files, FileState
  <1>a. /\ task.pc = "work" => task.via # "slides"
        /\ task.pc \in {"pick", "probe", "companion", "delegate"} => task.via # "slides"
        /\ task.pc = "slides" => task.via = "slides"
    BY DEF TInv, Aim
  <1>b. /\ Busy => File \in FileNames
        /\ \A f \in FileNames : \A st : [files EXCEPT ![File] = st][f] = files[f] \/ f = File
        /\ Busy => \A st : [files EXCEPT ![File] = st][File] = st
    BY <1>0, FileTyped DEF Files
  <1>1. CASE StartRefused
    BY <1>0, <1>1 DEF StartRefused, RowsStay, Changes, Busy, At
  <1>2. CASE CandidatePanics
    BY <1>0, <1>2
    DEF CandidatePanics, CanFail, OnlyTask, RowsStay, Goto, At, TaskRecord, Changes, Busy
  <1>13. CASE RawFails
    BY <1>0, <1>a, <1>13
    DEF RawFails, Mendable, OnlyTask, RowsStay, At, TaskRecord, Changes, Busy
  <1>14. CASE ValidateManifest
    BY <1>0, <1>a, <1>14 DEF ValidateManifest, OnlyTask, RowsStay, At, TaskRecord, Changes, Busy
  <1>15. CASE Exhausted
    BY <1>0, <1>15
    DEF Exhausted, OnlyTask, RowsStay, Settle, Goto, At, TaskRecord, Changes, Busy
  <1>3. CASE \E streams \in SUBSET Streams :
                Download(streams) \/ OpenStream(streams) \/ Delegate(streams)
    BY <1>0, <1>a, <1>3
    DEF Download, OpenStream, Delegate, Working, RowsStay, At, TaskRecord, Changes, Busy
  <1>4. CASE DownloadCompanion \/ SlidesFetched
    BY <1>0, <1>a, <1>4
    DEF DownloadCompanion, SlidesFetched, Goto, Working, RowsStay, At, TaskRecord, Changes, Busy
  <1>5. CASE OpenOutput
    BY <1>0, <1>b, <1>5 DEF OpenOutput, Goto, Working, RowsStay, At, TaskRecord, Changes, Busy
  <1>6. CASE OpenImage
    BY <1>0, <1>a, <1>b, <1>6 DEF OpenImage, Working, RowsStay, At, TaskRecord, Changes, Busy
  <1>7. CASE CopyFails
    BY <1>0, <1>b, <1>7 DEF CopyFails, Goto, Working, RowsStay, At, TaskRecord, Changes, Busy
  <1>8. CASE \E size \in Sizes : OutputWritten(size)
    <2>1. PICK size \in Sizes : OutputWritten(size)
      BY <1>8
    <2>2. Busy
      BY <2>1 DEF OutputWritten, At, Busy
    <2>3. files'[File].state = "whole"
      BY <1>b, <2>1, <2>2 DEF OutputWritten, Whole
    <2> QED
      BY <1>0, <1>b, <2>1, <2>2, <2>3
      DEF OutputWritten, Goto, Working, RowsStay, At, TaskRecord, Changes, Busy
  <1>9. CASE CandidateFails
    <2>1. \A f \in FileNames : files'[f] = files[f] \/ (Busy /\ f = File)
      BY <1>b, <1>9 DEF CandidateFails, Discarded, At, Busy
    <2>2. \A i \in Ids : \/ validation'[i] = validation[i]
                         \/ Busy /\ task.via # "slides" /\ i = task.current
      BY <1>0, <1>a, <1>9 DEF CandidateFails, CanFail, OverLimit, At, Busy
    <2> QED
      BY <1>0, <1>9, <2>1, <2>2 DEF CandidateFails, CanFail, OverLimit, At, Goto, TaskRecord, Changes, Busy
  <1>10. CASE SlideshowFails
    <2>1. \A f \in FileNames : files'[f] = files[f] \/ (Busy /\ f = File)
      BY <1>b, <1>10 DEF SlideshowFails, Discarded, At, Busy
    <2> QED
      BY <1>0, <1>10, <2>1 DEF SlideshowFails, RowsStay, Goto, TaskRecord, Changes, Busy
  <1>11. CASE Finish
    BY <1>0, <1>11 DEF Finish, Settle, Goto, At, TaskRecord, Changes, Busy
  <1>12. CASE \E a \in task.todo : FetchSlide(a)
    BY <1>0, <1>12 DEF FetchSlide, Working, RowsStay, At, TaskRecord, Changes, Busy
  <1> QED
    BY <1>1, <1>2, <1>3, <1>4, <1>5, <1>6, <1>7, <1>8, <1>9, <1>10, <1>11, <1>12, <1>13,
       <1>14, <1>15
    DEF Between, TaskNext

LEMMA Lengths ==
    ASSUME TInv
    PROVE  /\ Count \in Nat /\ task.base \in Nat /\ task.successes \in Nat /\ task.limit \in Nat
           /\ DOMAIN artifacts = 1 .. Count
           /\ \A k \in DOMAIN artifacts : artifacts[k] \in Artifact
  BY DEF TInv, ProcessTypeOK, Count

LEMMA CountedStays == ASSUME TInv, Counted, Changes PROVE Counted'
  BY Lengths DEF Counted, Changes, Count, WantsMedia, InDispatch

LEMMA PromisesStay == ASSUME TInv, Counted, Promises, Changes PROVE Promises'
  <1>1. Fresh' = Fresh /\ \A k \in Fresh : artifacts[k].file \in FileNames
    BY Lengths DEF Changes, Fresh, Artifact
  <1>2. File' = File
    BY DEF Changes, File, Output, Current, WantsAudioOnly, Wants
  <1>3. task.via = "slides" /\ task.pc \notin {"finish", "idle"} => Fresh = {}
    BY Lengths DEF Counted, Fresh, WantsMedia, Wants
  <1>4. \A k \in Fresh : ~Busy \/ artifacts[k].file # File
    BY DEF Promises
  <1>5. PromisedIsWhole'
    <2> SUFFICES ASSUME NEW k \in Fresh
                 PROVE  LET f == artifacts[k].file
                        IN  /\ files'[f].state = "whole"
                            /\ files'[f].size <= task.limit
                            /\ job.limit # NoLimit => files'[f].size <= job.limit
                            /\ f # Slideshow => validation'[f[2]] = "ok"
      BY <1>1 DEF PromisedIsWhole, Changes
    <2> DEFINE f == artifacts[k].file
    <2>1. files'[f] = files[f]
      BY <1>1, <1>4 DEF Changes
    <2>2. f # Slideshow => f[2] \in Ids /\ validation'[f[2]] = validation[f[2]]
      BY DEF Promises, Changes, TInv, ProcessTypeOK
    <2> QED
      BY <2>1, <2>2 DEF Promises, PromisedIsWhole
  <1>6. task'.pc = "store" => files'[File'].state = "whole"
    BY <1>2 DEF Changes
  <1>7. ASSUME Busy', NEW k \in Fresh
        PROVE  /\ artifacts[k].file # File
               /\ artifacts[k].file # Slideshow => artifacts[k].file[2] # task.current
    <2>1. CASE Busy
      BY <1>7, <2>1 DEF Promises
    <2>2. CASE ~Busy
      <3>1. task.via = "slides" /\ task.pc \notin {"finish", "idle"}
        BY <1>7, <2>2 DEF Changes, Busy
      <3> QED
        BY <1>3, <1>7, <3>1
    <2> QED
      BY <2>1, <2>2
  <1> QED
    BY <1>1, <1>2, <1>5, <1>6, <1>7 DEF Promises, Changes, Wants

(* A selection, and the start of a dispatch, forget the rows there were.     *)
LEMMA Anew ==
    ASSUME TInv, TInv', job' = job,
           task'.base = Len(artifacts), artifacts' = artifacts, task'.successes = 0,
           task'.current = 0, task'.pc \in {"idle", "pick", "slides"},
           task'.via = "slides" => Wants(job, "Video"),
           task'.pc # "idle" => \A i \in selected' : Selectable(all'[i]),
           job.limit # NoLimit => task'.limit <= job.limit
    PROVE  Counted' /\ Promises' /\ Fresh' = {}
  <1>1. Fresh' = {} /\ Count' = task'.base /\ task'.base \in Nat
    BY Lengths DEF Fresh, Count
  <1> QED
    BY <1>1 DEF Counted, Promises, PromisedIsWhole, InDispatch, Busy, Wants, WantsMedia

LEMMA ChooseAnew ==
    ASSUME TInv, NEW set \in SUBSET DOMAIN all, Choose(set)
    PROVE  Counted' /\ Promises' /\ Fresh' = {}
  <1>1. TInv'
    BY ChooseTyped
  <1>2. job.limit # NoLimit => 0 <= job.limit
    BY DEF TInv, ProcessTypeOK, Job
  <1>3. task' = [IdleTask EXCEPT !.base = Len(artifacts)]
    BY DEF Choose
  <1>4. /\ task'.base = Len(artifacts) /\ task'.successes = 0 /\ task'.current = 0
        /\ task'.pc = "idle" /\ task'.via = "none" /\ task'.limit = 0
    BY <1>3 DEF IdleTask
  <1> QED
    BY <1>1, <1>2, <1>4, Anew DEF Choose

LEMMA StartAnew == ASSUME TInv, Start PROVE Counted' /\ Promises' /\ Fresh' = {}
  <1>1. TInv'
    BY TaskTyped DEF TaskNext
  <1>2. job.limit # NoLimit => effective_limits_for_job(job.limit) <= job.limit
    BY Limits DEF TInv, ProcessTypeOK, Job
  <1> DEFINE show == should_build_image_slideshow(job, all, selected)
             todo == IF show THEN {Attempt(i, FALSE) : i \in selected}
                     ELSE candidate_attempt_order(job, all, selected)
  <1>3. task' = [IdleTask EXCEPT !.pc = IF show THEN "slides" ELSE "pick",
                     !.via = IF show THEN "slides" ELSE "none",
                     !.todo = todo,
                     !.limit = effective_limits_for_job(job.limit),
                     !.base = Len(artifacts)]
    BY DEF Start
  <1>4. show => Wants(job, "Video")
    BY DEF should_build_image_slideshow
  <1> HIDE DEF show, todo
  <1>5. /\ task'.base = Len(artifacts) /\ task'.successes = 0 /\ task'.current = 0
        /\ task'.pc \in {"pick", "slides"} /\ task'.limit = effective_limits_for_job(job.limit)
        /\ task'.via = "slides" => show
    BY <1>3 DEF IdleTask
  <1> QED
    BY <1>1, <1>2, <1>4, <1>5, Anew DEF Start, RowsStay

(* The files of the rows a dispatch has added are of candidates it has       *)
(* tried, and the next one is not among those.                               *)
LEMMA PickPromises ==
    ASSUME TInv, Orderly, Counted, Promises, NEW a \in task.todo, Pick(a)
    PROVE  Counted' /\ Promises' /\ Fresh' = Fresh
  <1>1. /\ task.pc = "pick" /\ task' = [task EXCEPT !.pc = "work", !.current = a.id,
                                                    !.todo = @ \ {a}, !.via = "none",
                                                    !.streams = {}]
        /\ task \in TaskRecord /\ tried' = Append(tried, a.id)
        /\ job' = job /\ all' = all /\ selected' = selected /\ artifacts' = artifacts
        /\ validation' = validation /\ files' = files
    BY DEF Pick, At, RowsStay, TInv, ProcessTypeOK, TaskRecord
  <1>2. /\ task'.pc = "work" /\ task'.current = a.id /\ task'.via = "none"
        /\ task'.base = task.base /\ task'.limit = task.limit
        /\ task'.successes = task.successes
    BY <1>1 DEF TaskRecord
  <1>3. Counted'
    BY <1>1, <1>2, Lengths DEF Counted, Count, WantsMedia, InDispatch
  <1>4. Fresh' = Fresh
    BY <1>1, <1>2 DEF Fresh
  <1>5. PromisedIsWhole'
    BY <1>1, <1>2, <1>4 DEF Promises, PromisedIsWhole
  <1>6. /\ \A n \in DOMAIN tried : n \in DOMAIN tried' /\ tried'[n] = tried[n]
        /\ Len(tried) + 1 \in DOMAIN tried' /\ tried'[Len(tried) + 1] = a.id
    BY <1>1 DEF TInv, ProcessTypeOK
  <1>7. \A n \in DOMAIN tried : tried[n] # a.id
    BY DEF Orderly
  <1>8. a.id \in Ids /\ a.id # 0
    <2>1. a \in Attempts
      BY <1>1 DEF TaskRecord
    <2> QED
      BY <2>1, ProcessAssumption DEF Attempts, Ids
  <1>9. File'[2] = a.id
    <2>1. File' = <<Output(Current)', a.id>>
      BY <1>2 DEF File
    <2> QED
      BY <2>1
  <1>10. ASSUME NEW k \in Fresh
         PROVE  LET f == artifacts[k].file
                IN  /\ f # File'
                    /\ f # Slideshow => f[2] # a.id
                    /\ f # Slideshow => \E n \in DOMAIN tried' : tried'[n] = f[2]
    <2> DEFINE f == artifacts[k].file
    <2>1. f # Slideshow => f[2] # a.id
      BY <1>7 DEF Promises
    <2>2. f = Slideshow => f[2] = 0
      BY DEF Slideshow
    <2>3. f # Slideshow => \E n \in DOMAIN tried' : tried'[n] = f[2]
      BY <1>6 DEF Promises
    <2> QED
      BY <1>8, <1>9, <2>1, <2>2, <2>3
  <1>11. Promises'
    BY <1>1, <1>2, <1>4, <1>5, <1>6, <1>10 DEF Promises, Wants
  <1> QED
    BY <1>3, <1>4, <1>11

(* The row for a finished output.                                            *)
LEMMA InsertPromises ==
    ASSUME TInv, Counted, Promises, insert_artifact
    PROVE  /\ Counted' /\ Promises'
           /\ Fresh' = Fresh \cup {Count + 1}
           /\ artifacts' = Append(artifacts, Row)
  <1>1. /\ task.pc = "store" /\ Busy /\ task \in TaskRecord
        /\ files[File].size <= task.limit /\ files[File].state = "whole"
        /\ artifacts' = Append(artifacts, Row)
        /\ task' = [task EXCEPT !.pc = AfterSuccess, !.successes = @ + 1]
        /\ job' = job /\ all' = all /\ selected' = selected /\ files' = files /\ tried' = tried
    BY DEF insert_artifact, Succeeds, At, Busy, Promises, TInv, ProcessTypeOK, TaskRecord
  <1>2. /\ task'.pc = AfterSuccess /\ task'.current = task.current /\ task'.via = task.via
        /\ task'.base = task.base /\ task'.limit = task.limit
        /\ task'.successes = task.successes + 1
    BY <1>1 DEF TaskRecord
  <1>3. AfterSuccess \in {"pick", "finish"} /\ (WantsMedia => AfterSuccess = "finish")
    BY DEF AfterSuccess, WantsMedia
  <1>4. /\ Count' = Count + 1 /\ Count \in Nat
        /\ \A k \in DOMAIN artifacts : artifacts'[k] = artifacts[k]
        /\ artifacts'[Count + 1] = Row
    BY <1>1 DEF Count, TInv, ProcessTypeOK
  <1>5. DOMAIN artifacts = 1 .. Count /\ DOMAIN artifacts' = 1 .. (Count + 1)
    BY <1>1 DEF Count, TInv, ProcessTypeOK
  <1>6. task.base \in Nat /\ task.base <= Count /\ task.successes \in Nat
    BY Lengths DEF Counted
  <1>7. Fresh' = Fresh \cup {Count + 1}
    BY <1>2, <1>4, <1>5, <1>6 DEF Fresh
  <1>8. Counted'
    <2>1. WantsMedia => Count = task.base
      BY <1>1 DEF Counted
    <2>2. WantsMedia' = WantsMedia
      BY <1>1 DEF WantsMedia
    <2>3. /\ task.via = "slides" => Wants(job, "Video")
          /\ \A i \in selected : Selectable(all[i])
      BY <1>1 DEF Counted, InDispatch
    <2> QED
      BY <1>1, <1>2, <1>3, <1>4, <1>6, <2>1, <2>2, <2>3 DEF Counted, Wants
  <1>9. /\ task.via # "slides" => task.current \in Ids /\ validation'[task.current] = "ok"
        /\ \A i \in Ids : validation[i] = "ok" => validation'[i] = "ok"
    <2>1. task.via # "slides" => task.current \in Ids
      BY <1>1 DEF TInv, Aim, ProcessTypeOK
    <2>2. validation \in [Ids -> {"none", "ok", "failed"}]
      BY DEF TInv, ProcessTypeOK
    <2>3. validation' = IF task.via = "slides" THEN validation
                        ELSE [validation EXCEPT ![task.current] = "ok"]
      BY DEF insert_artifact, Succeeds
    <2> QED
      BY <2>1, <2>2, <2>3
  <1>10. ASSUME NEW k \in Fresh'
         PROVE  LET f == artifacts'[k].file
                IN  /\ f = Slideshow => Wants(job, "Video")
                    /\ f # Slideshow => \E n \in DOMAIN tried : tried[n] = f[2]
                    /\ files[f].state = "whole"
                    /\ files[f].size <= task.limit
                    /\ job.limit # NoLimit => files[f].size <= job.limit
                    /\ f # Slideshow => validation'[f[2]] = "ok"
    <2> DEFINE f == artifacts'[k].file
    <2>1. CASE k \in Fresh
      <3>1. f = artifacts[k].file
        BY <1>4, <2>1 DEF Fresh
      <3>2. f # Slideshow => f[2] \in Ids
        BY <2>1, <3>1 DEF Promises, TInv, ProcessTypeOK
      <3>3. f # Slideshow => validation'[f[2]] = "ok"
        BY <1>9, <2>1, <3>1, <3>2 DEF Promises, PromisedIsWhole
      <3> QED
        BY <2>1, <3>1, <3>3 DEF Promises, PromisedIsWhole
    <2>2. CASE k = Count + 1
      <3>1. f = File
        BY <1>4, <2>2 DEF Row
      <3>2. /\ task.via = "slides" => File = Slideshow
            /\ task.via # "slides" => File[2] = task.current /\ task.current # 0
        BY <1>1 DEF File, TInv, Aim
      <3>3. File = Slideshow => task.via = "slides"
        BY <3>2 DEF Slideshow
      <3>4. File = Slideshow => Wants(job, "Video")
        BY <3>3 DEF Counted
      <3>5. File # Slideshow => \E n \in DOMAIN tried : tried[n] = File[2]
        BY <3>2 DEF Promises
      <3>6. job.limit # NoLimit => files[File].size <= job.limit
        <4>1. job.limit \in Nat \cup {NoLimit} /\ task.limit \in Nat /\ files[File].size \in Nat
          BY <1>1, FileTyped DEF TInv, ProcessTypeOK, Job
        <4> QED
          BY <1>1, <4>1, SMT DEF Promises, NoLimit
      <3> QED
        BY <1>1, <1>9, <3>1, <3>2, <3>4, <3>5, <3>6
    <2> QED
      BY <1>7, <2>1, <2>2
  <1>11. Promises'
    BY <1>1, <1>2, <1>3, <1>10 DEF Promises, PromisedIsWhole, Busy, Wants
  <1> QED
    BY <1>1, <1>7, <1>8, <1>11

(* A candidate that needs no output.                                         *)
LEMMA NothingPromises ==
    ASSUME TInv, Counted, Promises, NothingToMake
    PROVE  Counted' /\ Promises' /\ Fresh' = Fresh
  <1>1. /\ task.pc = "work" /\ task.via # "slides" /\ task \in TaskRecord
        /\ task' = [task EXCEPT !.pc = AfterSuccess, !.successes = @ + 1]
        /\ job' = job /\ all' = all /\ selected' = selected /\ artifacts' = artifacts
        /\ files' = files /\ tried' = tried
    BY DEF NothingToMake, Succeeds, At, TInv, Aim, ProcessTypeOK, TaskRecord
  <1>2. /\ task'.pc = AfterSuccess /\ task'.current = task.current /\ task'.via = task.via
        /\ task'.base = task.base /\ task'.limit = task.limit
        /\ task'.successes = task.successes + 1
    BY <1>1 DEF TaskRecord
  <1>3. AfterSuccess \in {"pick", "finish"} /\ (WantsMedia => AfterSuccess = "finish")
    BY DEF AfterSuccess, WantsMedia
  <1>4. Fresh' = Fresh
    BY <1>1, <1>2 DEF Fresh
  <1>5. Counted'
    <2>1. WantsMedia' = WantsMedia /\ Count' = Count /\ task'.successes # 0
      BY <1>1, <1>2, Lengths DEF WantsMedia, Count
    <2> QED
      BY <1>1, <1>2, <1>3, <2>1 DEF Counted, Wants, InDispatch
  <1>6. \A i \in Ids : validation[i] = "ok" => validation'[i] = "ok"
    BY <1>1 DEF NothingToMake, Succeeds, TInv, ProcessTypeOK
  <1>7. PromisedIsWhole'
    <2> SUFFICES ASSUME NEW k \in Fresh, artifacts[k].file # Slideshow
                 PROVE  validation'[artifacts[k].file[2]] = "ok"
      BY <1>1, <1>2, <1>4 DEF Promises, PromisedIsWhole
    <2>1. artifacts[k].file[2] \in Ids
      BY DEF Promises, TInv, ProcessTypeOK
    <2> QED
      BY <1>6, <2>1 DEF Promises, PromisedIsWhole
  <1> QED
    BY <1>1, <1>2, <1>3, <1>4, <1>5, <1>7 DEF Promises, Busy, Wants

\* Neither a choice nor a step that ends or begins something.
LEMMA ByStep ==
    ASSUME TInv, [Next]_vars
    PROVE  \/ \E set \in SUBSET DOMAIN all : Choose(set)
           \/ Start \/ Between \/ insert_artifact \/ NothingToMake
           \/ \E a \in task.todo : Pick(a)
           \/ UNCHANGED process
  <1>1. Select \/ AutoSelect => \E set \in SUBSET DOMAIN all : Choose(set)
    BY RecommendedTyped DEF Select, AutoSelect
  <1> QED
    BY <1>1 DEF Next, vars, Between

Rows == TInv /\ Orderly /\ Counted /\ Promises

LEMMA RowsInductive == ASSUME Rows, [Next]_vars PROVE Rows'
  <1>1. TInv' /\ Orderly'
    BY TInvInductive, OrderlyInductive DEF Rows
  <1>2. CASE \E set \in SUBSET DOMAIN all : Choose(set)
    BY <1>1, <1>2, ChooseAnew DEF Rows
  <1>3. CASE Start
    BY <1>1, <1>3, StartAnew DEF Rows
  <1>4. CASE Between
    BY <1>1, <1>4, BetweenChanges, CountedStays, PromisesStay DEF Rows
  <1>5. CASE insert_artifact
    BY <1>1, <1>5, InsertPromises DEF Rows
  <1>6. CASE NothingToMake
    BY <1>1, <1>6, NothingPromises DEF Rows
  <1>7. CASE \E a \in task.todo : Pick(a)
    BY <1>1, <1>7, PickPromises DEF Rows
  <1>8. CASE UNCHANGED process
    <2>1. Counted'
      BY <1>8 DEF process, jobRows, Rows, Counted, Count, WantsMedia, InDispatch, Wants
    <2>2. File' = File /\ Fresh' = Fresh
      BY <1>8 DEF process, jobRows, File, Fresh, Output, Current, WantsAudioOnly, Wants
    <2>3. Promises'
      BY <1>8, <2>2 DEF process, jobRows, Rows, Promises, PromisedIsWhole, Busy, Wants
    <2> QED
      BY <1>1, <2>1, <2>3 DEF Rows
  <1> QED
    BY <1>2, <1>3, <1>4, <1>5, <1>6, <1>7, <1>8, ByStep DEF Rows

LEMMA RowsHold == Spec => []Rows
  <1>1. ASSUME Init PROVE Rows
    <2>1. TInv /\ Orderly
      BY <1>1, InitTyped DEF Init, IdleTask, Orderly, RefusedNeverTried, TriedOnce
    <2>2. /\ task.base = Count /\ task.successes = 0 /\ task.current = 0 /\ task.pc = "idle"
          /\ task.via = "none" /\ task.limit = 0
      BY <1>1 DEF Init, IdleTask, Count
    <2>3. Count \in Nat /\ Fresh = {}
      BY <2>1, <2>2, Lengths DEF Fresh
    <2>4. job.limit # NoLimit => 0 <= job.limit
      BY <2>1 DEF TInv, ProcessTypeOK, Job
    <2> QED
      BY <2>1, <2>2, <2>3, <2>4
      DEF Rows, Counted, Promises, PromisedIsWhole, Busy, InDispatch, WantsMedia
  <1> QED
    BY <1>1, RowsInductive, PTL DEF Spec

(* Each row a dispatch has added names a finished file within the limits,    *)
(* made from a candidate marked ok, whatever failed before.                  *)
THEOREM RowsKeepTheirPromise == Spec => []PromisedIsWhole
  <1>1. Rows => PromisedIsWhole
    BY DEF Rows, Promises
  <1> QED
    BY <1>1, RowsHold, PTL

(* One dispatch leaves one output when audio or video is wanted.             *)
THEOREM OneOutputADispatch == Spec => []OneOutputIsEnough
  <1>1. ASSUME Rows PROVE OneOutputIsEnough
    BY <1>1, Lengths DEF Rows, Counted, OneOutputIsEnough, WantsMedia, Fresh
  <1> QED
    BY <1>1, RowsHold, PTL

-----------------------------------------------------------------------------
(* How a dispatch ends *)

\* One kind decides whether the job has what it asked for.
LEMMA OneDecides ==
    ASSUME NEW j \in Job PROVE \E kind : PrimaryOutput(j) \subseteq {kind}
  <1>1. CASE Wants(j, "PageHtml")
    BY <1>1 DEF PrimaryOutput
  <1>2. CASE ~Wants(j, "PageHtml") /\ Wants(j, "Video")
    BY <1>2 DEF PrimaryOutput
  <1>3. CASE ~Wants(j, "PageHtml") /\ WantsAudioOnly(j)
    <2>1. ~Wants(j, "Video")
      BY <1>3 DEF WantsAudioOnly
    <2> QED
      BY <1>3, <2>1 DEF PrimaryOutput
  <1>4. CASE ~Wants(j, "PageHtml") /\ ~Wants(j, "Video") /\ ~WantsAudioOnly(j)
    <2>1. PrimaryOutput(j) = j.outputs
      BY <1>4 DEF PrimaryOutput
    <2>2. j.outputs \subseteq {"Image"}
      BY <1>4 DEF Job, OutputKinds, WantsAudioOnly, Wants
    <2> QED
      BY <2>1, <2>2
  <1> QED
    BY <1>1, <1>2, <1>3, <1>4

LEMMA EndedInductive == ASSUME Rows, Ended, [Next]_vars PROVE Ended'
  <1>0. /\ task \in TaskRecord /\ job \in Job
        /\ task.via = "slides" =>
              task.pc \in {"slides", "write", "writing", "store", "finish", "idle"}
    BY DEF Rows, TInv, Aim, ProcessTypeOK, TaskRecord
  <1>1. Fresh = {} => \A k \in Fresh : artifacts[k].kind \notin PrimaryOutput(job)
    OBVIOUS
  <1>2. CASE \E set \in SUBSET DOMAIN all : Choose(set)
    BY <1>2 DEF Choose, IdleTask, Ended, ReadyIsFulfilled, GivesUpOnlyWithout, InDispatch, At
  <1>3. CASE Start
    BY <1>3, StartAnew DEF Rows, Start, RowsStay, Ended, ReadyIsFulfilled, GivesUpOnlyWithout, InDispatch, At
  <1>4. CASE \E a \in task.todo : Pick(a)
    BY <1>0, <1>4
    DEF Pick, RowsStay, Ended, ReadyIsFulfilled, GivesUpOnlyWithout, InDispatch, At, TaskRecord
  <1>5. CASE insert_artifact \/ NothingToMake
    BY <1>0, <1>5
    DEF insert_artifact, NothingToMake, Succeeds, AfterSuccess, Ended, ReadyIsFulfilled,
        GivesUpOnlyWithout, InDispatch, At, TaskRecord
  <1>6. CASE Between
    <2>1. Changes
      BY <1>6, BetweenChanges DEF Rows
    <2>2. Fresh' = Fresh /\ KindsMade' = KindsMade /\ job' = job /\ artifacts' = artifacts
      BY <2>1 DEF Changes, Fresh, KindsMade
    <2>3. CASE StartRefused
      <3>1. Fresh = {} /\ task' = task /\ task.pc = "idle" /\ status' = "error"
        BY <2>3, Lengths DEF StartRefused, At, Rows, Counted, InDispatch, Fresh
      <3> QED
        BY <2>2, <3>1 DEF Ended, ReadyIsFulfilled, GivesUpOnlyWithout, InDispatch, At
    <2>4. CASE SlideshowFails
      <3>1. /\ task.via = "slides" /\ task.pc \notin {"finish", "idle"}
            /\ task'.pc = "idle" /\ status' = "error"
        BY <1>0, <2>4 DEF SlideshowFails, CanFail, OverLimit, At, Goto, TaskRecord
      <3>2. Fresh = {}
        BY <3>1, Lengths DEF Rows, Counted, Fresh, WantsMedia, Wants
      <3> QED
        BY <2>2, <3>1, <3>2 DEF Ended, ReadyIsFulfilled, GivesUpOnlyWithout, InDispatch, At
    <2>5. CASE Exhausted
      <3>1. CASE task.successes = 0 /\ Settle("error")
        <4>1. Fresh = {} /\ task'.pc = "idle" /\ status' = "error"
          BY <1>0, <3>1, Lengths DEF Settle, Goto, Rows, Counted, Fresh, TaskRecord
        <4> QED
          BY <2>2, <4>1 DEF Ended, ReadyIsFulfilled, GivesUpOnlyWithout, InDispatch, At
      <3>2. CASE Goto("finish") /\ OnlyTask
        BY <1>0, <2>2, <2>5, <3>2
        DEF Exhausted, Goto, OnlyTask, Ended, ReadyIsFulfilled, GivesUpOnlyWithout, InDispatch, At, TaskRecord
      <3> QED
        BY <2>5, <3>1, <3>2 DEF Exhausted
    <2>6. CASE Finish
      <3>1. CASE ensure_job_outputs_satisfied(job, KindsMade) /\ Settle("ready")
        BY <1>0, <2>2, <3>1
        DEF Settle, Goto, Ended, ReadyIsFulfilled, GivesUpOnlyWithout, InDispatch, At, TaskRecord
      <3>2. CASE ~ensure_job_outputs_satisfied(job, KindsMade) /\ Settle("error")
        <4>1. \A k \in DOMAIN artifacts : artifacts[k].kind \notin PrimaryOutput(job)
          BY <1>0, <3>2, OneDecides DEF ensure_job_outputs_satisfied, KindsMade
        <4>2. Fresh \subseteq DOMAIN artifacts
          BY DEF Fresh
        <4> QED
          BY <1>0, <2>2, <3>2, <4>1, <4>2
          DEF Settle, Goto, Ended, ReadyIsFulfilled, GivesUpOnlyWithout, InDispatch, At, TaskRecord
      <3> QED
        BY <2>6, <3>1, <3>2 DEF Finish
    <2>7. CASE CandidatePanics
      <3>1. task.pc # "idle" /\ status' = status
        BY <2>7 DEF CandidatePanics, CanFail, At, OnlyTask
      <3> QED
        BY <1>0, <2>2, <2>7, <3>1
        DEF CandidatePanics, Goto, Ended, ReadyIsFulfilled, GivesUpOnlyWithout, InDispatch, At, TaskRecord
    <2>8. ASSUME ~StartRefused, ~SlideshowFails, ~Exhausted, ~Finish, ~CandidatePanics
          PROVE  task.pc # "idle" /\ task'.pc # "idle" /\ status' \in {status, "processing"}
      <3>1. CASE \E streams \in SUBSET Streams :
                    Download(streams) \/ OpenStream(streams) \/ Delegate(streams)
        BY <1>0, <3>1 DEF Download, OpenStream, Delegate, Working, At, TaskRecord
      <3>2. CASE \/ DownloadCompanion \/ SlidesFetched \/ OpenOutput \/ OpenImage \/ CopyFails
                 \/ \E size \in Sizes : OutputWritten(size)
        BY <1>0, <3>2
        DEF DownloadCompanion, SlidesFetched, OpenOutput, OpenImage, CopyFails, OutputWritten,
            Goto, Working, At, TaskRecord
      <3>3. CASE ValidateManifest \/ RawFails
        BY <1>0, <3>3 DEF ValidateManifest, RawFails, OnlyTask, At, TaskRecord
      <3>4. CASE CandidateFails
        BY <1>0, <3>4 DEF CandidateFails, CanFail, OverLimit, Goto, At, TaskRecord
      <3>5. CASE \E a \in task.todo : FetchSlide(a)
        BY <1>0, <3>5 DEF FetchSlide, Working, At, TaskRecord
      <3> QED
        BY <1>6, <2>8, <3>1, <3>2, <3>3, <3>4, <3>5 DEF Between, TaskNext
    <2>9. CASE ~StartRefused /\ ~SlideshowFails /\ ~Exhausted /\ ~Finish /\ ~CandidatePanics
      BY <2>8, <2>9 DEF Ended, ReadyIsFulfilled, GivesUpOnlyWithout, InDispatch, At
    <2> QED
      BY <2>3, <2>4, <2>5, <2>6, <2>7, <2>9
  <1>7. CASE UNCHANGED process
    BY <1>7
    DEF process, jobRows, Ended, ReadyIsFulfilled, GivesUpOnlyWithout, InDispatch, At, Fresh, KindsMade
  <1> QED
    BY <1>2, <1>3, <1>4, <1>5, <1>6, <1>7, ByStep DEF Rows

LEMMA EndedHolds == Spec => [](Rows /\ Ended)
  <1>1. Init => Ended
    BY DEF Init, IdleTask, Ended, ReadyIsFulfilled, GivesUpOnlyWithout, InDispatch, At
  <1> QED
    BY <1>1, RowsHold, EndedInductive, PTL DEF Spec

(* ready is promised only with the output that decides among the rows.       *)
THEOREM ReadyOnlyFulfilled == Spec => []ReadyIsFulfilled
  <1>1. Ended => ReadyIsFulfilled
    BY DEF Ended
  <1> QED
    BY <1>1, EndedHolds, PTL

(* A dispatch that ends in an error has not made what was asked for.         *)
THEOREM GivesUpWithout == Spec => []GivesUpOnlyWithout
  <1>1. Ended => GivesUpOnlyWithout
    BY DEF Ended
  <1> QED
    BY <1>1, EndedHolds, PTL

-----------------------------------------------------------------------------
(* What a video sounds like *)

\* The steps that leave what is heard, and where the dispatch is, alone.
LEMMA HeardStays ==
    ASSUME TInv, Heard, job' = job, all' = all, artifacts' = artifacts,
           task'.base = task.base, task'.current = task.current,
           task'.pc # "probe",
           task'.pc \in Making =>
               task.pc \in Making /\ task'.via = task.via /\ task'.streams = task.streams
    PROVE  Heard'
  <1>1. Made' = Made \/ task'.pc \notin Making
    BY DEF Made, Output, Current, WantsAudioOnly, Wants
  <1>2. SoundIsKept'
    BY DEF Heard, Making, SoundIsKept, Fresh, Wants
  <1> QED
    BY <1>1, <1>2 DEF Heard, Making, Wants

LEMMA HeardInductive == ASSUME Rows, Heard, [Next]_vars PROVE Heard'
  <1>0. task \in TaskRecord /\ TInv
    BY DEF Rows, TInv, ProcessTypeOK, TaskRecord
  <1>1. CASE \E set \in SUBSET DOMAIN all : Choose(set)
    BY <1>0, <1>1, ChooseAnew DEF Choose, IdleTask, Heard, Making, SoundIsKept, Rows
  <1>2. CASE Start
    <2>1. Fresh' = {} /\ task'.pc \in {"pick", "slides"}
      BY <1>2, StartAnew DEF Rows, Start, IdleTask
    <2> QED
      BY <2>1 DEF Heard, Making, SoundIsKept
  <1>3. CASE \E a \in task.todo : Pick(a)
    <2>1. PICK a \in task.todo : Pick(a)
      BY <1>3
    <2>2. /\ Fresh' = Fresh /\ artifacts' = artifacts /\ job' = job
      BY <2>1, PickPromises DEF Rows, Pick, RowsStay
    <2>3. task'.pc = "work"
      BY <1>0, <2>1 DEF Pick, TaskRecord
    <2> QED
      BY <2>2, <2>3 DEF Heard, Making, SoundIsKept, Wants
  <1>4. CASE insert_artifact
    <2>1. /\ Fresh' = Fresh \cup {Count + 1} /\ artifacts' = Append(artifacts, Row)
          /\ job' = job /\ task'.pc \in {"pick", "finish"} /\ task.pc = "store"
      BY <1>0, <1>4, InsertPromises
      DEF Rows, insert_artifact, Succeeds, AfterSuccess, At, TaskRecord
    <2>2. /\ \A k \in DOMAIN artifacts : artifacts'[k] = artifacts[k]
          /\ artifacts'[Count + 1] = Row
      BY <1>0, <2>1 DEF Count, TInv, ProcessTypeOK
    <2>3. Row.kind = "Video" /\ Row.via \notin {"tool", "slides"} /\ Wants(job, "Audio")
          => Row.sound
      BY <2>1 DEF Row, Heard, Making
    <2>4. SoundIsKept'
      BY <2>1, <2>2, <2>3 DEF Heard, Making, SoundIsKept, Fresh, Wants
    <2> QED
      BY <2>1, <2>4 DEF Heard, Making
  <1>5. CASE NothingToMake
    BY <1>0, <1>5, HeardStays DEF NothingToMake, Succeeds, AfterSuccess, Making, TaskRecord
  <1>6. CASE Between
    <2>1. /\ job' = job /\ all' = all /\ artifacts' = artifacts
          /\ task'.base = task.base /\ task'.current = task.current
          /\ SoundIsKept'
      BY <1>0, <1>6, BetweenChanges DEF Changes, Heard, Making, SoundIsKept, Fresh, Wants
    <2>2. CASE \/ StartRefused \/ CandidatePanics \/ SlideshowFails \/ CandidateFails
               \/ RawFails \/ Exhausted \/ Finish \/ \E a \in task.todo : FetchSlide(a)
      <3>1. task'.pc \notin Making \cup {"probe"}
        <4>1. CASE StartRefused
          BY <4>1 DEF StartRefused, At, Making
        <4>2. CASE CandidatePanics \/ SlideshowFails \/ CandidateFails \/ Finish
          BY <1>0, <4>2
          DEF CandidatePanics, SlideshowFails, CandidateFails, Finish, Settle, Goto, TaskRecord, Making
        <4>3. CASE RawFails \/ \E a \in task.todo : FetchSlide(a)
          BY <1>0, <4>3 DEF RawFails, FetchSlide, At, TaskRecord, Making
        <4>4. CASE Exhausted
          BY <1>0, <4>4 DEF Exhausted, Settle, Goto, TaskRecord, Making
        <4> QED
          BY <2>2, <4>1, <4>2, <4>3, <4>4
      <3> QED
        BY <2>1, <3>1 DEF Heard, Making
    <2>3. ASSUME NEW streams \in SUBSET Streams, Download(streams) PROVE Heard'
      <3>1. /\ task'.via = "file" /\ task'.streams = streams
            /\ task'.pc \in {"companion", "write"}
            /\ task'.pc = "write" => Output(Current) # "Video" \/ Companion(Current) = None
            /\ Current.kind = "Audio" \/ Suits(Current, streams)
        BY <1>0, <2>3 DEF Download, TaskRecord
      <3>2. Made' = Output(Current)
        BY <2>1, <3>1 DEF Made, Output, Current, WantsAudioOnly, Wants
      <3>3. Current.kind = "Audio" => Output(Current) = "Audio"
        BY DEF Output
      <3> QED
        BY <2>1, <3>1, <3>2, <3>3 DEF Heard, Making, Suits, Wants
    <2>4. CASE DownloadCompanion
      BY <1>0, <2>1, <2>4 DEF DownloadCompanion, Heard, Making, TaskRecord, Streams
    <2>5. CASE ValidateManifest
      BY <1>0, <2>1, <2>5 DEF ValidateManifest, Heard, Making, Current, TaskRecord
    <2>6. ASSUME NEW streams \in SUBSET Streams, OpenStream(streams) PROVE Heard'
      <3>1. /\ task'.streams = streams /\ task'.pc = "write" /\ Current.kind = "Manifest"
            /\ Suits(Current, streams) /\ task.via # "slides" /\ task'.via = task.via
        BY <1>0, <2>6 DEF OpenStream, At, TaskRecord, Heard, Making, TInv, Aim
      <3>2. Companion(Current) = None
        BY <3>1 DEF Companion, best_companion_audio, candidate_needs_audio_companion
      <3>3. Made' = Output(Current)
        BY <2>1, <3>1 DEF Made, Output, Current, WantsAudioOnly, Wants
      <3> QED
        BY <2>1, <3>1, <3>2, <3>3 DEF Heard, Making, Suits, Wants
    <2>7. ASSUME NEW streams \in SUBSET Streams, Delegate(streams) PROVE Heard'
      BY <1>0, <2>1, <2>7 DEF Delegate, Heard, Making, TaskRecord
    <2>8. CASE OpenOutput \/ CopyFails \/ \E size \in Sizes : OutputWritten(size)
      BY <1>0, <2>1, <2>8, HeardStays
      DEF OpenOutput, CopyFails, OutputWritten, At, Goto, TaskRecord, Making
    <2>9. CASE OpenImage
      <3>1. Made' = "Image" /\ task'.pc = "writing"
        BY <1>0, <2>1, <2>9 DEF OpenImage, Made, Output, Current, TaskRecord
      <3> QED
        BY <2>1, <3>1 DEF Heard, Making
    <2>10. CASE SlidesFetched
      <3>1. task'.via = "slides" /\ task'.pc = "write"
        BY <1>0, <2>10 DEF SlidesFetched, At, Goto, TaskRecord, TInv, Aim
      <3> QED
        BY <2>1, <3>1 DEF Heard, Making
    <2> QED
      BY <1>6, <2>2, <2>3, <2>4, <2>5, <2>6, <2>7, <2>8, <2>9, <2>10 DEF Between, TaskNext
  <1>7. CASE UNCHANGED process
    BY <1>7
    DEF process, jobRows, Heard, Making, SoundIsKept, Fresh, Made, Output, Current, WantsAudioOnly, Wants
  <1> QED
    BY <1>1, <1>2, <1>3, <1>4, <1>5, <1>6, <1>7, ByStep DEF Rows

(* A video made for a job that wants the audio too is not silent, unless     *)
(* yt-dlp or a slideshow made it.                                            *)
THEOREM SoundStays == Spec => []SoundIsKept
  <1>1. ASSUME Init PROVE Heard
    <2>1. task.pc = "idle" /\ task.base = Len(artifacts)
      BY <1>1 DEF Init, IdleTask
    <2>2. Fresh = {}
      BY <1>1, <2>1, InitTyped, Lengths DEF Fresh, Count
    <2> QED
      BY <2>1, <2>2 DEF Heard, Making, SoundIsKept
  <1>2. Heard => SoundIsKept
    BY DEF Heard, Making
  <1> QED
    BY <1>1, <1>2, RowsHold, HeardInductive, PTL DEF Spec

-----------------------------------------------------------------------------
(* What a slideshow holds *)

Slide(i) == Attempt(i, FALSE)
InOrder ==
    /\ {task.slides[n] : n \in DOMAIN task.slides} \cup {a.id : a \in task.todo} = selected
    /\ \A a \in task.todo : a = Slide(a.id)
    /\ \A m, n \in DOMAIN task.slides :
          m < n => SlideBefore(Slide(task.slides[m]), Slide(task.slides[n]))
    /\ \A m \in DOMAIN task.slides, a \in task.todo : SlideBefore(Slide(task.slides[m]), a)
    /\ task.pc \notin {"slides", "idle"} => task.todo = {}

\* The images fetched come before those to come, and no row is added before
\* there are none to come.
Shown ==
    /\ \A k \in Fresh : artifacts[k].via = "slides" =>
          task.via = "slides" /\ task.pc \in {"finish", "idle"} /\ task.todo = {}
    /\ task.via = "slides" => InOrder

LEMMA FetchInOrder ==
    ASSUME TInv, Shown, NEW a \in task.todo, FetchSlide(a) PROVE InOrder'
  <1>1. /\ task \in TaskRecord /\ task.slides \in Seq(Ids) /\ task.pc = "slides"
        /\ task' = [task EXCEPT !.todo = @ \ {a}, !.slides = Append(@, a.id)]
        /\ all' = all /\ selected' = selected
    BY DEF FetchSlide, At, Working, RowsStay, TInv, ProcessTypeOK, TaskRecord
  <1>2. InOrder
    BY <1>1 DEF TInv, Aim, Shown
  <1>3. /\ task'.todo = task.todo \ {a} /\ task'.slides = Append(task.slides, a.id)
        /\ task'.pc = "slides"
    BY <1>1 DEF TaskRecord
  <1>4. a.id \in Ids
    BY DEF TInv, Aim, ProcessTypeOK
  <1> DEFINE last == Len(task.slides) + 1
  <1>5. /\ DOMAIN task'.slides = DOMAIN task.slides \cup {last}
        /\ DOMAIN task.slides = 1 .. Len(task.slides) /\ Len(task.slides) \in Nat
        /\ \A n \in DOMAIN task.slides : task'.slides[n] = task.slides[n]
        /\ task'.slides[last] = a.id
    BY <1>1, <1>3, <1>4
  <1>6. a = Slide(a.id) /\ \A b \in task'.todo : SlideBefore(a, b)
    BY <1>2, <1>3 DEF InOrder, FetchSlide
  <1>7. {task'.slides[n] : n \in DOMAIN task'.slides} \cup {b.id : b \in task'.todo} = selected
    <2>1. {task'.slides[n] : n \in DOMAIN task'.slides}
             = {task.slides[n] : n \in DOMAIN task.slides} \cup {a.id}
      BY <1>5
    <2>2. {b.id : b \in task.todo} = {b.id : b \in task'.todo} \cup {a.id}
      BY <1>3
    <2> QED
      BY <1>2, <2>1, <2>2 DEF InOrder
  <1>8. \A m, n \in DOMAIN task'.slides :
           m < n => SlideBefore(Slide(task'.slides[m]), Slide(task'.slides[n]))
    <2> SUFFICES ASSUME NEW m \in DOMAIN task'.slides, NEW n \in DOMAIN task'.slides, m < n
                 PROVE  SlideBefore(Slide(task'.slides[m]), Slide(task'.slides[n]))
      OBVIOUS
    <2>1. m \in DOMAIN task.slides
      BY <1>5
    <2>2. CASE n \in DOMAIN task.slides
      BY <1>2, <1>5, <2>1, <2>2 DEF InOrder
    <2>3. CASE n = last
      <3>1. SlideBefore(Slide(task.slides[m]), a)
        BY <1>2, <2>1 DEF InOrder
      <3> QED
        BY <1>5, <1>6, <2>1, <2>3, <3>1
    <2> QED
      BY <1>5, <2>2, <2>3
  <1>9. \A m \in DOMAIN task'.slides, b \in task'.todo : SlideBefore(Slide(task'.slides[m]), b)
    BY <1>2, <1>3, <1>5, <1>6 DEF InOrder
  <1>10. \A x, y : SlideBefore(x, y)' <=> SlideBefore(x, y)
    BY <1>1 DEF SlideBefore
  <1> QED
    BY <1>1, <1>2, <1>3, <1>7, <1>8, <1>9 DEF InOrder, SlideBefore

\* The other steps between the start and the row.
LEMMA SlidesStay ==
    ASSUME TInv, Between, task'.via = "slides", \A a \in task.todo : ~FetchSlide(a)
    PROVE  /\ task'.slides = task.slides /\ task'.todo = task.todo
           /\ \/ task'.pc \in {"slides", "idle"}
              \/ task.pc \notin {"slides", "idle"}
              \/ task.todo = {}
  <1>0. task \in TaskRecord
    BY DEF TInv, ProcessTypeOK, TaskRecord
  <1>1. CASE StartRefused
    BY <1>1 DEF StartRefused, At
  <1>2. CASE CandidatePanics \/ CandidateFails \/ SlideshowFails
    BY <1>0, <1>2 DEF CandidatePanics, CandidateFails, SlideshowFails, Goto, TaskRecord
  <1>3. CASE RawFails \/ ValidateManifest \/ OpenImage
    BY <1>0, <1>3 DEF RawFails, ValidateManifest, OpenImage, TaskRecord
  <1>4. CASE \E streams \in SUBSET Streams :
                Download(streams) \/ OpenStream(streams) \/ Delegate(streams)
    BY <1>0, <1>4 DEF Download, OpenStream, Delegate, At, TaskRecord
  <1>5. CASE DownloadCompanion \/ SlidesFetched \/ OpenOutput \/ CopyFails
    BY <1>0, <1>5
    DEF DownloadCompanion, SlidesFetched, OpenOutput, CopyFails, Goto, At, TaskRecord
  <1>6. CASE \E size \in Sizes : OutputWritten(size)
    BY <1>0, <1>6 DEF OutputWritten, Goto, At, TaskRecord
  <1>7. CASE Exhausted \/ Finish
    BY <1>0, <1>7 DEF Exhausted, Finish, Settle, Goto, At, TaskRecord
  <1> QED
    BY <1>1, <1>2, <1>3, <1>4, <1>5, <1>6, <1>7 DEF Between, TaskNext

LEMMA ShownInductive == ASSUME Rows, Shown, [Next]_vars PROVE Shown'
  <1>0. task \in TaskRecord /\ TInv
    BY DEF Rows, TInv, ProcessTypeOK, TaskRecord
  <1>1. CASE \E set \in SUBSET DOMAIN all : Choose(set)
    BY <1>0, <1>1, ChooseAnew DEF Choose, IdleTask, Shown, Rows
  <1>2. CASE Start
    <2>1. Fresh' = {} /\ selected' = selected
      BY <1>2, StartAnew DEF Rows, Start, RowsStay
    <2>2. CASE should_build_image_slideshow(job, all, selected)
      <3>1. /\ task'.todo = {Slide(i) : i \in selected} /\ task'.slides = <<>>
            /\ task'.pc = "slides"
        BY <1>2, <2>2 DEF Start, IdleTask, Slide
      <3>2. \A i \in selected : Slide(i).id = i
        BY DEF Slide, Attempt
      <3>3. {a.id : a \in task'.todo} = selected /\ \A a \in task'.todo : a = Slide(a.id)
        BY <3>1, <3>2
      <3> QED
        BY <2>1, <3>1, <3>3 DEF Shown, InOrder
    <2>3. CASE ~should_build_image_slideshow(job, all, selected)
      BY <1>2, <2>1, <2>3 DEF Start, IdleTask, Shown
    <2> QED
      BY <2>2, <2>3
  <1>3. CASE \E a \in task.todo : Pick(a)
    <2>1. PICK a \in task.todo : Pick(a)
      BY <1>3
    <2>2. /\ Fresh' = Fresh /\ artifacts' = artifacts
          /\ task.pc = "pick" /\ task'.via = "none"
      BY <1>0, <2>1, PickPromises DEF Rows, Pick, At, RowsStay, TaskRecord
    <2> QED
      BY <2>2 DEF Shown
  <1>4. CASE insert_artifact
    <2>1. /\ Fresh' = Fresh \cup {Count + 1} /\ artifacts' = Append(artifacts, Row)
          /\ task' = [task EXCEPT !.pc = AfterSuccess, !.successes = @ + 1]
          /\ task.pc = "store" /\ all' = all /\ selected' = selected
      BY <1>0, <1>4, InsertPromises DEF Rows, insert_artifact, Succeeds, At
    <2>2. /\ \A k \in DOMAIN artifacts : artifacts'[k] = artifacts[k]
          /\ artifacts'[Count + 1] = Row
      BY <1>0, <2>1 DEF Count, TInv, ProcessTypeOK
    <2>3. /\ task'.via = task.via /\ task'.todo = task.todo /\ task'.slides = task.slides
          /\ task.via = "slides" => task'.pc = "finish"
      BY <1>0, <2>1 DEF AfterSuccess, TaskRecord
    <2>4. task.via = "slides" => task.todo = {} /\ InOrder
      BY <2>1 DEF Shown, InOrder
    <2>5. \A k \in Fresh : artifacts'[k].via # "slides"
      BY <2>1, <2>2 DEF Shown, Fresh
    <2>6. Row.via = task.via
      BY DEF Row
    <2>7. task.via = "slides" => InOrder'
      BY <2>1, <2>3, <2>4 DEF InOrder, SlideBefore
    <2>8. \A k \in Fresh' : artifacts'[k].via = "slides" =>
             task'.via = "slides" /\ task'.pc = "finish" /\ task'.todo = {}
      BY <2>1, <2>2, <2>3, <2>4, <2>5, <2>6
    <2> QED
      BY <2>3, <2>7, <2>8 DEF Shown
  <1>5. CASE NothingToMake
    <2>1. task.pc = "work" /\ task.via # "slides" /\ task'.via = task.via
      BY <1>0, <1>5 DEF NothingToMake, Succeeds, At, TInv, Aim, TaskRecord
    <2>2. Fresh' = Fresh /\ artifacts' = artifacts
      BY <1>5, NothingPromises DEF Rows, NothingToMake
    <2> QED
      BY <2>1, <2>2 DEF Shown
  <1>6. CASE Between
    <2>1. Changes /\ all' = all /\ selected' = selected /\ artifacts' = artifacts /\ Fresh' = Fresh
      BY <1>0, <1>6, BetweenChanges DEF Changes, Fresh
    <2>2. task'.todo \subseteq task.todo
      BY <1>0, <1>6, QuietSteps DEF Between
    <2>3. \A k \in Fresh : artifacts'[k].via = "slides" =>
             task'.via = "slides" /\ task'.pc \in {"finish", "idle"} /\ task'.todo = {}
      BY <2>1, <2>2 DEF Shown, Changes
    <2>4. CASE \E a \in task.todo : FetchSlide(a)
      BY <1>0, <2>1, <2>3, <2>4, FetchInOrder DEF Shown
    <2>5. ASSUME \A a \in task.todo : ~FetchSlide(a), task'.via = "slides" PROVE InOrder'
      BY <1>0, <1>6, <2>1, <2>5, SlidesStay DEF Shown, InOrder, Changes, SlideBefore
    <2> QED
      BY <2>1, <2>3, <2>4, <2>5 DEF Shown
  <1>7. CASE UNCHANGED process
    BY <1>7 DEF process, jobRows, Shown, InOrder, Fresh, SlideBefore
  <1> QED
    BY <1>1, <1>2, <1>3, <1>4, <1>5, <1>6, <1>7, ByStep DEF Rows

(* A slideshow holds every selected image, in the order of the images.       *)
THEOREM SlideshowComplete == Spec => []SlideshowIsWhole
  <1>1. ASSUME Init PROVE Shown
    <2>1. task.via = "none" /\ task.base = Len(artifacts)
      BY <1>1 DEF Init, IdleTask
    <2>2. Fresh = {}
      BY <1>1, <2>1, InitTyped, Lengths DEF Fresh, Count
    <2> QED
      BY <2>1, <2>2 DEF Shown
  <1>2. Shown => SlideshowIsWhole
    BY DEF Shown, InOrder, SlideshowIsWhole, Slide
  <1> QED
    BY <1>1, <1>2, RowsHold, ShownInductive, PTL DEF Spec

-----------------------------------------------------------------------------
(* What a request for a file is answered                                     *)

LEMMA LastOfMany ==
    ASSUME NEW n \in Nat, 0 < n, n < WORD PROVE LastByte(n) = n - 1
  <1>1. WORD \in Nat /\ n - 1 \in 0 .. WORD - 1 /\ n + WORD - 1 = (n - 1) + 1 * WORD
    BY DeliveryAssumption
  <1>2. ((n - 1) + WORD) % WORD = n - 1
    BY <1>1, SMTT(60)
  <1> QED
    BY <1>1, <1>2 DEF LastByte

LEMMA AnswerExact ==
    ASSUME NEW header \in RangeHeader, NEW n \in Nat, n < WORD
    PROVE  Exact(header, Answer(header, n)) /\ Answer(header, n).length = n
  <1> DEFINE reply == Answer(header, n)
  <1>1. CASE n = 0
    BY <1>1 DEF Answer, Reply, Exact
  <1>2. CASE n # 0
    <2>1. LastByte(n) = n - 1
      BY <1>2, LastOfMany
    <2>2. /\ header.form \in {"none", "malformed", "bytes"}
          /\ header.first \in Nat \cup {-1} /\ header.last \in Nat \cup {-1, -2}
      BY DEF RangeHeader, NoBound, Garbled
    <2>3. CASE header.form = "none"
      BY <1>2, <2>1, <2>2, <2>3 DEF Answer, Reply, Exact, parse_range, Asked
    <2>4. CASE header.form = "malformed"
      BY <1>2, <2>1, <2>2, <2>4 DEF Answer, Reply, Exact, parse_range, Asked
    <2>5. CASE header.form = "bytes" /\ header.first = NoBound
      BY <1>2, <2>1, <2>2, <2>5 DEF Answer, Reply, Exact, parse_range, Asked, NoBound, Garbled
    <2>6. CASE header.form = "bytes" /\ header.first # NoBound
      BY <1>2, <2>1, <2>2, <2>6 DEF Answer, Reply, Exact, parse_range, Asked, NoBound, Garbled, Least
    <2> QED
      BY <2>2, <2>3, <2>4, <2>5, <2>6
  <1> QED
    BY <1>1, <1>2

\* Files are shorter than a u64 can count.
Counts == \A f \in FileNames : files[f].size < WORD

LEMMA WritesCount ==
    ASSUME TInv, Counts, Busy, NEW st \in FileState, st.size < WORD,
           files' = [files EXCEPT ![File] = st]
    PROVE  Counts'
  BY FileTyped DEF Counts, TInv, ProcessTypeOK

LEMMA CountsInductive == ASSUME TInv, Counts, [Next]_vars PROVE Counts'
  <1>1. /\ Absent \in FileState /\ Absent.size < WORD
        /\ Partial \in FileState /\ Partial.size < WORD
        /\ \A size \in Sizes : Whole(size) \in FileState /\ Whole(size).size < WORD
    BY DeliveryAssumption, ProcessAssumption DEF Absent, Partial, Whole, FileState
  <1>2. CASE OpenOutput \/ OpenImage
    BY <1>1, <1>2, WritesCount DEF OpenOutput, OpenImage, At, Busy
  <1>3. CASE CopyFails
    BY <1>1, <1>3, WritesCount DEF CopyFails, At, Busy
  <1>4. CASE \E size \in Sizes : OutputWritten(size)
    BY <1>1, <1>4, WritesCount DEF OutputWritten, At, Busy
  <1>5. CASE CandidateFails \/ SlideshowFails
    BY <1>1, <1>5, WritesCount DEF CandidateFails, SlideshowFails, Discarded, At, Busy, Counts
  <1>6. CASE files' = files
    BY <1>6 DEF Counts
  <1>7. \/ files' = files
        \/ OpenOutput \/ OpenImage \/ CopyFails
        \/ \E size \in Sizes : OutputWritten(size)
        \/ CandidateFails \/ SlideshowFails
    <2>1. TaskNext => \/ files' = files
                      \/ OpenOutput \/ OpenImage \/ CopyFails
                      \/ \E size \in Sizes : OutputWritten(size)
                      \/ CandidateFails \/ SlideshowFails
      BY DEF TaskNext, Start, StartRefused, Pick, Download, DownloadCompanion, ValidateManifest,
             OpenStream, Delegate, insert_artifact, NothingToMake, RawFails, CandidatePanics,
             FetchSlide, SlidesFetched, Exhausted, Finish, OnlyTask, Settle
    <2>2. ~TaskNext => files' = files
      BY RecommendedTyped DEF Next, vars, process, Select, AutoSelect, Choose
    <2> QED
      BY <2>1, <2>2
  <1> QED
    BY <1>2, <1>3, <1>4, <1>5, <1>6, <1>7

(* Whatever a request finds in the directory, the body of an answer holds    *)
(* the bytes asked for and 416 answers only a range that has none.           *)
THEOREM RangesAreExact == Spec => []RangeIsExact
  <1>1. Init => Counts
    BY DeliveryAssumption, ProcessAssumption DEF Init, Counts, Whole, Absent
  <1>2. Spec => [](TInv /\ Counts)
    BY <1>1, InitTyped, TInvInductive, CountsInductive, PTL DEF Spec
  <1>3. ASSUME TInv, Counts PROVE RangeIsExact
    <2> SUFFICES ASSUME NEW f \in FileNames, files[f].state # "absent",
                        NEW header \in RangeHeaders, NEW reply \in get_media(f, header)
                 PROVE  Exact(header, reply)
      BY DEF RangeIsExact
    <2>1. header \in RangeHeader
      BY DeliveryAssumption
    <2>2. /\ files[f].state \in {"partial", "whole"}
          /\ files[f].size \in Nat /\ files[f].size < WORD
      BY <1>3 DEF TInv, ProcessTypeOK, Counts
    <2>3. \E n \in Nat : n < WORD /\ reply = Answer(header, n)
      <3>1. CASE files[f].state = "partial"
        BY <3>1, DeliveryAssumption DEF get_media
      <3>2. CASE files[f].state = "whole"
        BY <2>2, <3>2 DEF get_media
      <3> QED
        BY <2>2, <3>1, <3>2
    <2> QED
      BY <2>1, <2>3, AnswerExact
  <1> QED
    BY <1>2, <1>3, PTL
=============================================================================
