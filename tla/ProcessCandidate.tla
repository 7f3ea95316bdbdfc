--------------------------- MODULE ProcessCandidate ---------------------------
(***************************************************************************)
(* The processing of the selected candidates of one job,                   *)
(* process_selected_candidates of state.rs with what it calls: the attempts*)
(* in their order, the download, the probe of the streams, the companion   *)
(* audio, the delegation to yt-dlp, ffmpeg's two tries at the output file, *)
(* and the artifact row that promises the file to clients.                 *)
(*                                                                         *)
(* One dispatch runs at a time; JobDispatch models the queue that sees to  *)
(* it.  The network and the tools fail and answer as they like.  A failing *)
(* statement on the database, and the removal of a job's files by others,  *)
(* are left to JobDispatch and JobStorage.                                 *)
(***************************************************************************)
EXTENDS CandidateSelection, RuntimeSettings

CONSTANTS
    Scenarios,        \* jobs with their candidates and artifacts at the start
    MaxCandidates,
    Sizes,            \* sizes of a finished output, in MiB
    yt_dlp_path       \* whether yt-dlp is configured

Ids == 1 .. MaxCandidates
MediaKinds == {"Audio", "Video", "Image"}
Slideshow == <<"Video", 0>>
PageArchive == <<"PageHtml", 0>>
\* audio-<id>.mp3, video-<id>.mp4, image-<id>.bin, slideshow.mp4
FileNames == (MediaKinds \X Ids) \cup {Slideshow, PageArchive}
NoFile == <<"none", 0>>
Streams == {"audio", "video"}

\* target is the preferred height, zero for "auto" and for an audio bitrate.
Job == [outputs : SUBSET OutputKinds, target : Nat, limit : Nat \cup {NoLimit}]
\* How an output is made.
Via == {"none", "file", "pair", "stream", "tool", "image", "slides"}
Artifact == [kind : OutputKinds, file : FileNames, sound : BOOLEAN, via : Via]
PageRow == [kind |-> "PageHtml", file |-> PageArchive, sound |-> FALSE, via |-> "none"]

ASSUME ProcessAssumption ==
    /\ MaxCandidates \in Nat
    /\ Sizes \subseteq Nat
    /\ yt_dlp_path \in BOOLEAN
    /\ \A s \in Scenarios :
          /\ s.job \in Job
          /\ DOMAIN s.all \subseteq Ids
          /\ \A i \in DOMAIN s.all : s.all[i] \in Candidate
          /\ s.archived \in BOOLEAN /\ s.selections \in Nat

VARIABLES
    job,           \* the row of the job: outputs, preferred height, key limit
    all,           \* its candidates
    selected,      \* selected_candidate_ids
    status,
    media_url,     \* the file the job's URL names
    artifacts,     \* the artifact rows, oldest first
    files,         \* the public directory of the job
    validation,    \* validation_status of each candidate
    task,          \* the dispatch under way, or what the last one has left
    selections,    \* selections still to come (a bound)
    tried          \* history: the candidates tried by this dispatch, in order

jobRows == <<job, all, selected, status, media_url, artifacts, validation>>
process == <<jobRows, files, task, selections, tried>>
vars == <<process, settings>>

Absent == [state |-> "absent", size |-> 0]
Partial == [state |-> "partial", size |-> 0]
Whole(size) == [state |-> "whole", size |-> size]

IdleTask == [pc |-> "idle", todo |-> {}, current |-> 0, via |-> "none",
             streams |-> {}, successes |-> 0, limit |-> 0, base |-> 0, slides |-> <<>>]

Init ==
    /\ SettingsInit
    /\ \E s \in Scenarios :
          /\ job = s.job /\ all = s.all /\ selections = s.selections
          /\ artifacts = IF s.archived THEN <<PageRow>> ELSE <<>>
          /\ files = [f \in FileNames |->
                         IF s.archived /\ f = PageArchive THEN Whole(1) ELSE Absent]
    /\ selected = {} /\ status = "candidates_ready" /\ media_url = NoFile
    /\ validation = [i \in Ids |-> "none"]
    /\ task = [IdleTask EXCEPT !.base = Len(artifacts)]
    /\ tried = <<>>

-----------------------------------------------------------------------------
(* Selection *)

Choose(set) ==
    /\ task.pc = "idle" /\ status # "candidate_selected"
    /\ selections > 0
    /\ set # {}
    /\ selected' = set
    /\ status' = "candidate_selected"
    /\ selections' = selections - 1
    /\ task' = [IdleTask EXCEPT !.base = Len(artifacts)]
    /\ tried' = <<>>
    /\ UNCHANGED <<job, all, media_url, artifacts, validation, files, settings>>

\* select_candidates: any candidates of the job that are fit.
Select == \E set \in SUBSET DOMAIN all :
              Choose(set) /\ \A i \in set : Selectable(all[i])

\* At the end of the resolution, without a user.
AutoSelect ==
    /\ status = "candidates_ready"
    /\ \/ ~Wants(job, "PageHtml") /\ Choose(recommended_candidates_for_job(job, all))
       \/ Choose(direct_candidate(job, all))

-----------------------------------------------------------------------------
(* The attempts *)

At(pc) == task.pc = pc
Goto(pc) == task' = [task EXCEPT !.pc = pc]
Current == all[task.current]
RowsStay == UNCHANGED <<job, all, selected, media_url, artifacts, validation>>
OnlyTask == RowsStay /\ UNCHANGED <<status, files, selections, tried, settings>>

\* The task ends; what it did stays visible in its record.
Settle(st) ==
    /\ Goto("idle")
    /\ status' = st
    /\ UNCHANGED <<job, all, selected, artifacts, validation, files, selections, tried, settings>>

Start ==
    /\ At("idle") /\ status = "candidate_selected"
    /\ \A i \in selected : Selectable(all[i])
    /\ LET show == should_build_image_slideshow(job, all, selected)
       IN  task' = [IdleTask EXCEPT
                       !.pc = IF show THEN "slides" ELSE "pick",
                       !.via = IF show THEN "slides" ELSE "none",
                       !.todo = IF show THEN {Attempt(i, FALSE) : i \in selected}
                                ELSE candidate_attempt_order(job, all, selected),
                       !.limit = effective_limits_for_job(job.limit),
                       !.base = Len(artifacts)]
    /\ tried' = <<>>
    /\ RowsStay
    /\ UNCHANGED <<status, files, selections, settings>>

\* A recommended image need not be fit: the dispatch refuses it.
StartRefused ==
    /\ At("idle") /\ status = "candidate_selected"
    /\ \E i \in selected : ~Selectable(all[i])
    /\ status' = "error"
    /\ RowsStay
    /\ UNCHANGED <<task, files, selections, tried, settings>>

Pick(a) ==
    /\ At("pick")
    /\ \A b \in task.todo \ {a} : Before(job, all, selected, a, b)
    /\ task' = [task EXCEPT !.pc = "work", !.current = a.id, !.todo = @ \ {a},
                            !.via = "none", !.streams = {}]
    /\ tried' = Append(tried, a.id)
    /\ RowsStay
    /\ UNCHANGED <<status, files, selections, settings>>

\* The checks at the head of process_candidate and of its manifest branch.
Barred(c) ==
    \/ ~c.inline /\ ~c.allowed
    \/ c.tool /\ c.auth /\ ~c.inline
    \/ c.kind = "Manifest" /\ c.dash

\* What a candidate is made into.
Output(c) == CASE c.kind \in {"Audio", "Image"} -> c.kind
               [] OTHER -> IF WantsAudioOnly(job) THEN "Audio" ELSE "Video"

File == IF task.via = "slides" THEN Slideshow ELSE <<Output(Current), task.current>>
Made == IF task.via = "slides" THEN "Video" ELSE Output(Current)
Companion(c) == best_companion_audio(all, c)

Working == status' = "processing" /\ RowsStay /\ UNCHANGED <<selections, tried, settings>>

\* Fault: a silent video will do although nothing completes it.
SuitsUnheard(c, streams) ==
    IF Output(c) = "Audio" THEN "audio" \in streams ELSE "video" \in streams

\* The streams ffprobe finds are the ones the output needs.
Suits(c, streams) ==
    IF Output(c) = "Audio" THEN "audio" \in streams
    ELSE /\ "video" \in streams
         /\ Wants(job, "Audio") => "audio" \in streams \/ Companion(c) # None

Download(streams) ==
    /\ At("work") /\ ~Barred(Current)
    /\ \/ Current.kind = "Audio"
       \/ Current.kind = "Video" /\ Suits(Current, streams)
    /\ task' = [task EXCEPT
                   !.pc = IF Output(Current) = "Video" /\ Companion(Current) # None
                          THEN "companion" ELSE "write",
                   !.via = "file", !.streams = streams]
    /\ Working
    /\ UNCHANGED files

DownloadCompanion ==
    /\ At("companion")
    /\ task' = [task EXCEPT !.pc = "write", !.via = "pair", !.streams = Streams]
    /\ Working
    /\ UNCHANGED files

ValidateManifest ==
    /\ At("work") /\ ~Barred(Current)
    /\ Current.kind = "Manifest" /\ ~Current.inline
    /\ task' = [task EXCEPT !.pc = "probe", !.via = "stream"]
    /\ OnlyTask

OpenStream(streams) ==
    /\ At("probe")
    /\ Suits(Current, streams)
    /\ task' = [task EXCEPT !.pc = "write", !.streams = streams]
    /\ Working
    /\ UNCHANGED files

should_try_yt_dlp_delegated_download(c) ==
    yt_dlp_path /\ (c.inline \/ (c.tool /\ ~c.auth /\ c.page))

\* What yt-dlp downloads is not probed.
Delegate(streams) ==
    /\ \/ At("delegate")
       \/ At("work") /\ Current.kind = "Manifest" /\ Current.inline /\ ~Barred(Current)
    /\ yt_dlp_path
    /\ task' = [task EXCEPT !.pc = "write", !.via = "tool", !.streams = streams]
    /\ Working
    /\ UNCHANGED files

-----------------------------------------------------------------------------
(* The output file.  One input for an MP4 is first copied into it; when that *)
(* fails the file is removed and the input is transcoded.                    *)

CopyFirst == Made = "Video" /\ task.via \in {"file", "stream", "tool"}

OpenOutput ==
    /\ At("write") \/ At("transcode")
    /\ files' = [files EXCEPT ![File] = Partial]
    /\ Goto(IF At("write") /\ CopyFirst THEN "copying" ELSE "writing")
    /\ Working

\* An image is downloaded straight into the public directory.
OpenImage ==
    /\ At("work") /\ ~Barred(Current) /\ Current.kind = "Image"
    /\ files' = [files EXCEPT ![File] = Partial]
    /\ task' = [task EXCEPT !.pc = "writing", !.via = "image"]
    /\ Working

CopyFails ==
    /\ At("copying") \/ (At("write") /\ CopyFirst)
    /\ files' = [files EXCEPT ![File] = Absent]
    /\ Goto("transcode")
    /\ Working

OutputWritten(size) ==
    /\ At("copying") \/ At("writing")
    /\ files' = [files EXCEPT ![File] = Whole(size)]
    /\ Goto("store")
    /\ Working

\* process_selected_candidates after a success: one output will do when audio
\* or video is wanted.
AfterSuccess ==
    IF task.via = "slides" \/ job.outputs \cap {"Audio", "Video"} # {} THEN "finish" ELSE "pick"

Succeeds ==
    /\ task' = [task EXCEPT !.pc = AfterSuccess, !.successes = @ + 1]
    /\ validation' = IF task.via = "slides" THEN validation
                     ELSE [validation EXCEPT ![task.current] = "ok"]

Row == [kind |-> Made, file |-> File, sound |-> "audio" \in task.streams, via |-> task.via]

\* Fault: the size of the finished output is not looked at.
insert_artifactUnmeasured ==
    /\ At("store")
    /\ artifacts' = Append(artifacts, Row)
    /\ Succeeds
    /\ UNCHANGED <<job, all, selected, status, media_url, files, selections, tried, settings>>

insert_artifact ==
    /\ At("store")
    /\ files[File].size <= task.limit
    /\ artifacts' = Append(artifacts, Row)
    /\ Succeeds
    /\ UNCHANGED <<job, all, selected, status, media_url, files, selections, tried, settings>>

\* A page needs its archive; a candidate of unknown kind needs nothing.
NothingToMake ==
    /\ At("work") /\ ~Barred(Current)
    /\ \/ Current.kind = "Unknown"
       \/ Current.kind = "Html" /\ \E k \in DOMAIN artifacts : artifacts[k].kind = "PageHtml"
    /\ Succeeds
    /\ UNCHANGED <<job, all, selected, status, media_url, artifacts, files, selections, tried, settings>>

-----------------------------------------------------------------------------
(* Failures *)

\* The stream was opened, or not, in a block whose failure yt-dlp may mend.
Mendable == /\ task.via = "stream" /\ ~At("store")
            /\ should_try_yt_dlp_delegated_download(Current)

RawFails ==
    /\ At("probe") \/ At("transcode") \/ At("writing") \/ (At("write") /\ ~CopyFirst)
    /\ Mendable
    /\ task' = [task EXCEPT !.pc = "delegate", !.via = "tool"]
    /\ OnlyTask

\* Where an attempt, or the slideshow, may end without an output.
CanFail ==
    \/ At("work") \/ At("probe") \/ At("companion") \/ At("delegate") \/ At("slides")
    \/ At("transcode") \/ At("writing") \/ (At("write") /\ ~CopyFirst)

\* insert_artifact removes an output that is over the limit.
OverLimit == At("store") /\ files[File].size > task.limit
Discarded == IF At("store") THEN [files EXCEPT ![File] = Absent] ELSE files

\* Fault: the candidate that failed is tried again.
CandidateFailsRetries ==
    /\ CanFail \/ OverLimit
    /\ task.via # "slides" /\ ~Mendable
    /\ Goto("work")
    /\ validation' = [validation EXCEPT ![task.current] = "failed"]
    /\ files' = Discarded
    /\ UNCHANGED <<job, all, selected, status, media_url, artifacts, selections, tried, settings>>

CandidateFails ==
    /\ CanFail \/ OverLimit
    /\ task.via # "slides" /\ ~Mendable
    /\ Goto("pick")
    /\ validation' = [validation EXCEPT ![task.current] = "failed"]
    /\ files' = Discarded
    /\ UNCHANGED <<job, all, selected, status, media_url, artifacts, selections, tried, settings>>

\* friendly_candidate_failure slices a long message inside a character.
CandidatePanics ==
    /\ CanFail
    /\ task.via # "slides" /\ ~Mendable
    /\ Goto("idle")
    /\ OnlyTask

\* The first failure ends a slideshow and the dispatch with it.
SlideshowFails ==
    /\ CanFail \/ OverLimit
    /\ task.via = "slides"
    /\ Goto("idle")
    /\ status' = "error"
    /\ files' = Discarded
    /\ RowsStay
    /\ UNCHANGED <<selections, tried, settings>>

-----------------------------------------------------------------------------
(* The slideshow *)

SlideBefore(a, b) ==
    LET Order(x) == image_candidate_order(all[x.id])
    IN  Order(a) < Order(b) \/ (Order(a) = Order(b) /\ a.id < b.id)

\* Fault: an image that cannot be fetched is left out.
FetchSlideOrSkip(a) ==
    /\ At("slides")
    /\ \A b \in task.todo \ {a} : SlideBefore(a, b)
    /\ \/ task' = [task EXCEPT !.todo = @ \ {a}, !.slides = Append(@, a.id)]
       \/ task' = [task EXCEPT !.todo = @ \ {a}]
    /\ Working
    /\ UNCHANGED files

FetchSlide(a) ==
    /\ At("slides")
    /\ \A b \in task.todo \ {a} : SlideBefore(a, b)
    /\ all[a.id].allowed
    /\ task' = [task EXCEPT !.todo = @ \ {a}, !.slides = Append(@, a.id)]
    /\ Working
    /\ UNCHANGED files

SlidesFetched ==
    /\ At("slides") /\ task.todo = {}
    /\ Goto("write")
    /\ Working
    /\ UNCHANGED files

-----------------------------------------------------------------------------
(* The end of a dispatch *)

\* Fault: the successes are not counted.
ExhaustedUncounted ==
    /\ At("pick") /\ task.todo = {}
    /\ Settle("error") /\ UNCHANGED media_url

\* Every attempt has been made.
Exhausted ==
    /\ At("pick") /\ task.todo = {}
    /\ \/ task.successes = 0 /\ Settle("error") /\ UNCHANGED media_url
       \/ task.successes # 0 /\ Goto("finish") /\ OnlyTask

KindsMade == {artifacts[k].kind : k \in DOMAIN artifacts}
FirstFile == IF artifacts = <<>> THEN NoFile ELSE artifacts[1].file

Finish ==
    /\ At("finish")
    /\ \/ /\ ensure_job_outputs_satisfied(job, KindsMade)
          /\ Settle("ready")
          /\ media_url' = FirstFile
       \/ /\ ~ensure_job_outputs_satisfied(job, KindsMade)
          /\ Settle("error") /\ UNCHANGED media_url

TaskNext ==
    \/ Start \/ StartRefused
    \/ \E a \in task.todo : Pick(a)
    \/ \E streams \in SUBSET Streams : Download(streams)
    \/ DownloadCompanion \/ ValidateManifest
    \/ \E streams \in SUBSET Streams : OpenStream(streams)
    \/ \E streams \in SUBSET Streams : Delegate(streams)
    \/ OpenOutput \/ OpenImage \/ CopyFails
    \/ \E size \in Sizes : OutputWritten(size)
    \/ insert_artifact \/ NothingToMake
    \/ RawFails \/ CandidateFails \/ CandidatePanics \/ SlideshowFails
    \/ \E a \in task.todo : FetchSlide(a)
    \/ SlidesFetched
    \/ Exhausted \/ Finish

Next ==
    \/ Select \/ AutoSelect
    \/ TaskNext
    \/ SettingsNext /\ UNCHANGED process

Spec == Init /\ [][Next]_vars

\* Every request, probe and tool has its own timeout, so a dispatch goes on.
FairSpec == Spec /\ WF_vars(TaskNext)
-----------------------------------------------------------------------------
(* Properties *)

TaskPc == {"idle", "pick", "work", "probe", "companion", "delegate", "slides", "write",
           "copying", "transcode", "writing", "store", "finish"}
Attempts == [id : Ids, fallback : BOOLEAN]

ProcessTypeOK ==
    /\ job \in Job
    /\ DOMAIN all \subseteq Ids /\ \A i \in DOMAIN all : all[i] \in Candidate
    /\ selected \subseteq DOMAIN all
    /\ status \in {"candidates_ready", "candidate_selected", "processing", "ready", "error"}
    /\ media_url \in FileNames \cup {NoFile}
    /\ artifacts \in Seq(Artifact)
    /\ files \in [FileNames -> [state : {"absent", "partial", "whole"}, size : Nat]]
    /\ validation \in [Ids -> {"none", "ok", "failed"}]
    /\ task \in [pc : TaskPc, todo : SUBSET Attempts, current : Ids \cup {0}, via : Via,
                 streams : SUBSET Streams, successes : Nat,
                 limit : Nat, base : Nat, slides : Seq(Ids)]
    /\ selections \in Nat
    /\ tried \in Seq(Ids)
    /\ SettingsTypeOK

(* The rows a dispatch has added since it began.                             *)
Fresh == {k \in DOMAIN artifacts : k > task.base}

(* "Transcode fallback ordering no longer tries blocked or failed            *)
(* candidates": nothing that may not be selected is ever tried, neither by   *)
(* choice nor as a fallback.                                                 *)
RefusedNeverTried == \A k \in DOMAIN tried : Selectable(all[tried[k]])

(* A candidate is tried once in a dispatch: a chosen one is no fallback too. *)
TriedOnce == \A k, l \in DOMAIN tried : tried[k] = tried[l] => k = l

(* What a fallback may be: neither refused nor tried before.                 *)
TriedAsAllowed == RefusedNeverTried /\ TriedOnce

(* What the user chose is tried before any fallback: the bonus of a chosen   *)
(* candidate outweighs every other term of its rank, provided the candidates *)
(* are ordinary (the terms for the bitrate, a thousandth of it, the height   *)
(* and the score have no bound in the code), the preferred height is at most *)
(* 1080 and the choice is of a kind the job can use.                         *)
Ordinary(c) == /\ -40 <= c.score /\ c.score <= 500
               /\ c.height <= 2160
               /\ Quotient(audio_rank(c), 1000) < 1000
Primary == primary_candidate_attempts(job, all, selected)
ChosenFirst ==
    /\ job.target <= 1080
    /\ \A i \in DOMAIN all : Ordinary(all[i])
    /\ \A i \in Primary : is_compatible_fallback(job, all[i])
    => \A k, l \in DOMAIN tried : k < l /\ tried[l] \in Primary => tried[k] \in Primary

(* What a dispatch promises is there: each row it has added names a finished *)
(* file within the limit the dispatch read, and the candidate it was made    *)
(* from is marked ok, whatever was cut off, copied or tried again before.    *)
PromisedIsWhole ==
    \A k \in Fresh :
        LET f == artifacts[k].file
        IN  /\ files[f].state = "whole"
            /\ files[f].size <= task.limit
            /\ job.limit # NoLimit => files[f].size <= job.limit
            /\ f # Slideshow => validation[f[2]] = "ok"

(* ready is promised only when the output that decides is among the rows.    *)
ReadyIsFulfilled == status = "ready" => ensure_job_outputs_satisfied(job, KindsMade)

(* The URL of a ready job names a finished file of the output that decides.  *)
(* (It does not: the URL is the oldest artifact's, of whatever kind, and the *)
(* file of an earlier selection is rewritten in place by a later one.)       *)
ReadyUrlIsTheMedia ==
    status = "ready" =>
        \E k \in DOMAIN artifacts :
            /\ artifacts[k].file = media_url
            /\ artifacts[k].kind \in PrimaryOutput(job)
            /\ files[media_url].state = "whole"

(* A dispatch that ends in an error has not made what was asked for.         *)
GivesUpOnlyWithout ==
    At("idle") /\ status = "error" =>
        \A k \in Fresh : artifacts[k].kind \notin PrimaryOutput(job)

(* When audio or video is wanted the first success ends the attempts: one    *)
(* dispatch leaves one output.                                               *)
OneOutputIsEnough ==
    job.outputs \cap {"Audio", "Video"} # {} => \A k, l \in Fresh : k = l

(* A slideshow holds every selected image, once, in the order of the images. *)
SlideshowIsWhole ==
    \A k \in Fresh : artifacts[k].via = "slides" =>
        /\ {task.slides[n] : n \in DOMAIN task.slides} = selected
        /\ \A m, n \in DOMAIN task.slides : m < n =>
              SlideBefore(Attempt(task.slides[m], FALSE), Attempt(task.slides[n], FALSE))

(* A video made for a job that wants the audio too is not silent, unless     *)
(* yt-dlp or a slideshow made it, whose streams nobody looks at.             *)
SoundIsKept ==
    \A k \in Fresh :
        artifacts[k].kind = "Video" /\ artifacts[k].via \notin {"tool", "slides"}
            /\ Wants(job, "Audio") => artifacts[k].sound

(* A dispatch ends, however many candidates fail and in whatever way.        *)
DispatchEnds == task.pc # "idle" ~> task.pc = "idle"
=============================================================================
