# Reflection King: TLA+ project

Reflection King turns a link into media files: an Axum API (`crates/reflection-api`)
accepts jobs, keeps them in SQLite (`crates/reflection-core/src/job_store.rs`),
resolves each source into candidates, downloads and transcodes the selected ones
and publishes the outputs. A Playwright sidecar (`services/reflection-browser`)
probes pages and hosts login sessions; a React dashboard drives the API.

Paths below are relative to the repository root. `state.rs` and `main.rs` are those
of `crates/reflection-api/src`, `job_store.rs` is that of `crates/reflection-core/src`.

## Components

| Component | State | Operations | What is hard | What makes it correct |
|---|---|---|---|---|
| Job dispatcher (`state.rs` 139-1478, `job_store.rs`) | `jobs`, `source_candidates`, `artifacts` rows; the mpsc queue; permits; tasks; handlers in flight | submit, select, resume, force archive, attach profile; dispatch, resolve, auto-select, attempt, finish; crash and recovery | no operation checks the status; row and queue are written separately; tasks send into the queue they are fed from; panics; dropped handlers | no job is lost; ready means delivered; no wedge; no second dispatch of a job left alone |
| Directories, retention, cache cleanup (`state.rs` 616-651, 917-971, 1060-1088, 5082-5208) | `storage/public/<job>`, `storage/tmp/<job>`, `hidden_at` | task directory work, hourly sweep, administrator's cleanup, forced archive | lists read first and directories removed later; directories shared by tasks; crashes between files and rows | outputs of a ready job stay; expired jobs are swept; running jobs keep their directory |
| Candidate resolution (`extractors/mod.rs`, `extractors/verify.rs`) | the list a run gathers | walk a chain of extractors, merge by URL, verify before expensive extractors and at the end, sort, cut | retries, fallbacks from HEAD to GET, variants of a master, passes that meet a candidate twice | no protected or refused candidate is called usable, a bounded number of probes, the list is cut from below |
| Candidate selection (`state.rs` 5707-6168) | none | rank, recommend, fall back, pair audio | ties, incompatible fallbacks | nothing refused is tried, nothing twice, what was chosen first |
| Attempts of a dispatch (`state.rs` 1373-2103, `transcode.rs`) | `artifacts` rows, public files, `validation_status`, `media_url` | pick, download, probe, pair, copy, transcode, delegate, store, finish | partial outputs, fallbacks of fallbacks, a second selection over the files of the first | a row promises a whole file within the limit and with the sound asked for; an error means that the output is not there |
| Page archive (`state.rs` 2105-4935) | files and `page_html` rows | write, download dependencies, rewrite, pack | budgets, name collisions, partial failure | budgets hold, every copy has its own file, an archived resource is what the page shows |
| Hidden batches (`job_store.rs` 292-616, 1974) | `hidden_at`, batch and entry rows | hide, list, restore, expire | restore reads the batch outside its transaction | a job is in at most one open batch; restore undoes one hide |
| API keys (`job_store.rs` 634-922, `main.rs` 1444-1649) | `api_keys` rows | create, rotate, revoke, authorise | order of rotation and revocation | somebody can administer; revoked keys open nothing |
| Login sessions (`state.rs` 535-861, `probe.ts` 510-716) | owner map in the API, session map in the sidecar | start, use, close, expire | lost answers, restarts of either side | a session is used by its owner only; maps converge |
| Browser contexts (`probe.ts` 104-508, 725-771, 4018-4075) | context map, profile directories with Chromium's lock, browsers | look up, judge and remove a stale lock, launch, enter | map read before and written after the launch; lock judged before it is removed; dead browsers | one browser on a profile, shared by all who work in it |
| Runtime settings (`job_store.rs` 924-1040, `state.rs` 5538-5705) | `runtime_settings` rows | update field by field in a transaction, read with a key's limit | a field out of range after others were written | an update is whole or nothing; a key's limit holds |
| Media serving (`main.rs` 1323-1430, 2360-2425) | none | GET and HEAD with ranges | boundaries, u64 subtraction, files that are being written | a served range is the requested one |
| Downloader, transcoder, manifests (`download.rs`, `transcode.rs`, `manifest.rs`) | files | stream, remux, transcode | limits, timeouts | size limit holds; what is announced was finished |
| URL policy, extractors, probes, events, dashboard, scripts | - | - | - | not modelled, see below |

The API process holds one worker loop, one retention loop and a task for each request
and for each dispatched job. They share the database (every statement is atomic, the
code between two statements is not), the queue, the semaphore `worker_slots` and the
storage directory. A crash clears memory and keeps the database and the directory.

## Modules

* `JobLifecycle` - the promise to a client, per job: none, pending, settled, lost.
* `JobDispatch` - the dispatcher. One action is one SQL statement or transaction, or
  one queue or semaphore operation, because the code awaits between any two of them.
* `JobDispatchProofs` - theorems about `JobDispatch`.
* `JobStorage` - `JobDispatch` extended by the directories, the retention loop and the
  cache cleanup; a step that touches the disk is the dispatcher's action conjoined
  with its effect on the directories.
* `PipelineProofs` - theorems about `JobStorage`, and about the dispatcher when jobs are only
  submitted and run.
* `ApiKeys` - the `api_keys` table, the administrator's handlers, the seeding at boot.
* `JobHistory` - `ApiKeys` extended by the job list: clear, restore, retention sweep.
* `AccountsProofs` - theorems about `ApiKeys` and `JobHistory`.
* `LoginSessions` - remote login sessions: the owner map of the API, the session map of
  the sidecar, and the HTTP calls between them.
* `BrowserContexts` - `LoginSessions` extended by the browsers the sessions and the probes of the
  sidecar share.
* `SessionsProofs` - theorems about these two.
* `PageArchive` - one run of `persist_page_snapshot`: what is copied, under which name, and
  where the references of the rewritten documents lead.
* `ArchiveOutputs` - `PageArchive` extended by what comes before and after: the earlier archive that is
  dropped, the nine outputs with their rows, and the errors that end the run.
* `ArchiveProofs` - theorems about these two.
* `CandidateVerification` - the verification of one candidate, request by request, with the
  verdict over an answer.
* `SourceResolver` - `CandidateVerification` within a run of the resolver: the chain of a
  discovery mode, the passes of verification, merging, sorting and cutting.
* `ResolverProofs` - theorems about `SourceResolver` and the verifications in it.
* `CandidateSelection` - the choices among candidates, as operators.
* `RuntimeSettings` - the table of settings, its updates and the limits read from it.
* `ProcessCandidate` - the dispatches of one job, made of the choices of `CandidateSelection` under the
  limits of `RuntimeSettings`, down to the output files and artifact rows.
* `MediaDelivery` - `ProcessCandidate` seen by a client that asks for ranges of its files.
* `AttemptsProofs`, `PromiseProofs` - theorems about these four: types, settings and
  the order of the attempts; what rows, URLs and ranges promise.
* `MCJobDispatch`, `MCJobStorage`, `MCAccounts`, `MCLoginSessions`, `MCPageArchive`, `MCSourceResolver`,
  `MCMediaDelivery` - small instances for TLC.

`JobDispatch` sees a resolution and an attempt as one step with an open outcome, because between
jobs only the rows matter. `SourceResolver` and `ProcessCandidate` open these steps for one job.

### JobDispatch

| Model | Code |
|---|---|
| `status`, `plan`, `gen`, `selected`, `art` | `jobs.status`; `jobs.discovery` with `jobs.outputs`; the rows of `source_candidates`; `selected_candidate_ids_json`; kinds of rows in `artifacts` |
| `queue`, `cap`, `held` | the mpsc channel, its capacity at this boot, the id `worker_loop` has received and holds while it waits for a permit |
| `task[s]` | the task that holds permit `s`: where it is, and the snapshot of the row it works on |
| `req[c]` | a handler in flight: what it has still to do |
| `abandoned` | auxiliary: jobs whose handler was dropped or whose task panicked since the last boot |

`plan` is `direct` (discovery direct: one candidate is chosen for the user or the job
fails), `media` (any other discovery of audio, video or image) or `page` (`page_html`, for
which `authorized_discovery` forces the browser). A candidate set is a number: 0 is the
empty set and `replace_candidates` takes the smallest number that no row, task or
handler remembers, which makes ids distinct as long as somebody can tell them apart.
A selection is the set its ids were taken from.

What an extractor finds, whether an attempt succeeds and which error it reports are
nondeterministic. `TaskFails` is every `Err` that `process_job` returns outside the
attempts; `AttemptSucceeds` and `AttemptFails` are the two arms of the attempt loop (a
slideshow is a single attempt); `TaskPanics` is the byte slice in
`friendly_candidate_failure`. SQLite statements succeed; events, counters and the
per-candidate columns are left out, as no decision reads them.

`Disconnect` is external: axum drops the future of a handler when its connection closes,
at any await.

### JobStorage

A directory is absent, young or old: its modification time against the cutoff of the
cleanup. `files` is what is really in the public directory, `art` what the rows say.
`prune` and `clean` hold the lists the two sweepers have read and not yet worked off.
`made` holds what the outputs in the public directory are named after: the candidate set
their candidate is of, or, for `slideshow.mp4`, none. `Overwrite` is the truncation of an
output by a later attempt that writes under its name: a second processing of its
candidate, or a second slideshow, which has the same name even when a resume or a new
resolution has replaced the candidates, while the artifact rows stay. Whether an attempt
makes a slideshow is left open.
`wiped` and `redone` are auxiliary and mark the jobs for which the code itself gives up
the connection between rows and files (a forced archive; an output opened for writing again).
`AgeDir` lets time pass, though not while the cleanup is between its first list
and the end of its scan: the minimum age is one hour or more.

### ApiKeys and JobHistory

| Model | Code |
|---|---|
| `row`, `role`, `secret` | rows of `api_keys`; a secret stands for its hash, whose column is UNIQUE |
| `up`, `configured`, `advised` | whether the API runs; `RK_API_KEY` of this boot; the secret the boot's warning tells the operator to rotate to |
| `caller[c]` | the principal request `c` was authorised as; the key may change after that |
| `owner`, `hidden` | `jobs.requester_key_id`, `jobs.hidden_at` |
| `batch`, `batches` | `job_hide_batches` with their entries, numbered in the order of creation |
| `latest[c]` | the batch `restore_hidden_job_batch` read before it began its transaction |
| `sweep` | the list `hide_expired_jobs` has read and works off row by row |
| `dropped`, `swept`, `sweeps` | auxiliary: an administrator's key was revoked and not replaced; jobs hidden by the sweep; sweeps so far |

A transaction is one step: it commits or leaves the tables as they were. Labels, permissions
and download limits of a key are left out, and rows are never deleted, as in the code.
`KeysMove` composes the two modules: the keys change while a history request is under way.

### LoginSessions

| Model | Code |
|---|---|
| `page[s]` | `loginSessions` of the sidecar: never drawn, open, past `expiresAt`, removed |
| `work[r]`, `waiting` | an HTTP call from the API to the sidecar, how far the sidecar has got with it, and whether a handler of the API still waits for its answer |
| `owner[s]` | `browser_login_sessions` of the API: the key and, on a job's route, the job |
| `starter`, `stale`, `disturbed` | auxiliary: for whom a page was opened; sessions reported missing in words the API does not recognise; whether an answer, a page or a process was lost |

The eleven routes that use a session fall into three classes, by how the sidecar reports
an error: `click` (wrapped, recognised by `forget_missing_login_session`), `view` (left to
Fastify, whose answer has another text in `error`) and `close` (never fails). A route that
ends in a snapshot looks the session up twice, as the code does. `Overdue` is time passing.
`GiveUp` is both the HTTP client's timeout and the dropped handler; the call goes on.

### BrowserContexts

| Model | Code |
|---|---|
| `contexts[p]` | the map `contexts` of the sidecar: the browser of a profile |
| `ask[r]` | how far slot `r` has got in `context()`: the browser it found or launched, the lock it has read |
| `running[b]`, `lock[p]` | the browsers that run, and `SingletonLock` in the directory of the profile: absent, of a browser that is gone, or of one that runs |
| `inside[s]` | the browser a session's page was opened in |
| `raced` | auxiliary: profiles whose lock was removed by a request that had judged another one |

A slot serves a login session's call or, when it has none, a probe, a cookie import or a lookup, which ask for
the context in the same way. What Chromium does with a lock is external: it does not run beside the
browser that holds it, and takes over one that was left behind or does not. A process that is gone
may be judged to run, as its number may be another's by now. A browser may die at any time and the sidecar
does not notice: the entry stays and is handed out, though no page can be opened with it.

### PageArchive

| Model | Code |
|---|---|
| `archived`, `total`, `used`, `rewrites`, `noted` | the fields of `PageArchiveContext`; `archived_url_keys` are the URLs in `archived`; `noted` are the records of what was skipped or failed |
| `files` | `page/assets/` on disk |
| `pass`, `next`, `doc`, `todo` | the loop that runs, its index, the document it has read, and which of its references are left |
| `Writes[d]` | the references `css_asset_references` and `text_asset_references` find in a document |
| `IsCss`, `IsTextual`, `Chosen` | `page_resource_is_css` and `page_resource_is_textual`, and which of the two chooses the documents of a pass |
| `Utf8`, `Legible` | the copies whose `read_to_string` succeeds |
| `Rewritten` | the filter and the skip of `rewrite_archived_text_files` |
| `InStylesheet`, `InText` | what `rewrite_css_urls` and `rewrite_archive_text_references` put in place of a reference |

`UniqueName` gives the plain name or the first numbered one that is free. The order in which a
document's references are tried is open: the code sorts them by text. Whether a download
fails and when the time is over is nondeterministic. A reference is one of three forms; the
characters are left out, and with them two things the code does to a text beyond what the properties
say: a rooted reference is also replaced inside a longer absolute one, and a reference that begins
with a dot is fetched but gets no key of its own form. URLs have no fragments: of a URL with one the code
enters the form without it as a further key. `ArchivedIsShown` says nothing of a
rooted reference once a copy of another origin is there, because both then share a
key, nor of a relative one outside stylesheets, which the styles inside a page may hold and the
replacement in texts does not look for; `NothingMissed` says nothing of relative references that the scan of texts does not resolve.

Two kinds of copied documents the code treats less well, and the properties except them. A copy that is
not UTF-8 is passed over by both scans and by the rewriting, without a record (state.rs:2806, 2947, 3086): its
references are neither fetched nor recorded nor replaced. A stylesheet that only its
`resource_type` makes one (kind `sheet`) is css (3117) but not textual (3157): the pass over stylesheets reads it
and fetches all it refers to, but it is not rewritten (3084), so in the archived page it still asks the
web for what lies beside it. `NothingMissed` covers it entirely, `ArchivedIsShown` does not. A resource's
declared length is compared with the limit for one resource as configured and a download with the downloader's own
limit as well, hence `declared` and `one` in `Limit`.

| Model (`ArchiveOutputs`) | Code |
|---|---|
| `stage`, `at` | how far the function has come; `Order` is the order of its `insert_artifact` calls |
| `wanted` | which of screenshot, MHTML, HAR and WARC the snapshot has and the settings admit |
| `rows` | the `page_html` rows of the job |
| `beside` | the files in the job's directory: absent, of the earlier archive, cut off, of this run |
| `page`, `zipped` | `page/` apart from `assets/`, and what `write_zip_archive` has packed |

An output is one action, as no other task is in the model that could see it half done; that it breaks off inside is
`LoseOutput`, with every state the files may be left in. `remove_dir_all` of the page directory
may fail without an error: then files of the earlier archive go into the zip, and `DoneIsWhole` allows them.
Files of the earlier archive that this run does not write again keep lying beside it without a row.

### CandidateVerification and SourceResolver

| Model | Code |
|---|---|
| `subject`, `finding` | what `verify_one` reads of the candidate and writes back to it |
| `step`, `hops`, `attempts` | the probe under way: the HEAD (or the GET of a manifest), the GET after a HEAD without an answer or with an unhelpful one, a retry, the first variant of a master; redirects and retries so far |
| `outcome` | the last `ProbeOutcome` kept; a body is the set of the marks the verdict looks for |
| `rest`, `chain`, `winner` | the loop over the extractors, its trace and the extractor that won |
| `phase`, `queue` | where `resolve` is, and the candidates a pass has still to verify |
| `probes`, `guarded`, `refused`, `probed` | history: probes sent; a manifest that was read names a DRM system; the URL policy refused an address; URLs verified |

The origin answers every probe with any of `Answers`, redirects it, or does not answer; the URL policy
may refuse the address of any probe and of any redirect. `guarded` counts the bodies that are a
manifest by the candidate's kind, the content type or the final path, as only these are read as one. What an
extractor reports comes from `Reports`, in any order and also with a state of its own: `mac_cms`
reports candidates it has verified, and these are not verified again. A report may name a URL twice in the automatic
mode; the extractors of the explicit modes name it once (`NamesOnce`). The log of the
attempts and the replay of a probe are left out.

### CandidateSelection, ProcessCandidate, RuntimeSettings, MediaDelivery

| Model | Code |
|---|---|
| `job`, `all`, `selected`, `status`, `media_url`, `artifacts`, `validation` | the rows: outputs, quality and key limit of the job; candidates in the order of `list_candidates`; `selected_candidate_ids`; status; URL; artifacts, oldest first; `validation_status` |
| `files` | the public directory of the job: a name is absent, partial or whole |
| `task` | the dispatch: the place it has reached, the attempts left, how the output is made, the streams ffprobe found, the limit read at the start, the number of rows at the start |
| `tried`, `selections` | history: candidates tried by this dispatch; bound: selections to come |
| `stored`, `draft`, `form`, `position` | `runtime_settings`; the open transaction, its request and how many fields it has written |
| `Answer`, `parse_range` | the answer of `get_media`, with `file_len - 1` in u64 |

One action is one call that can fail: a download, a probe, a run of ffmpeg or yt-dlp, the
insertion of the row. Names of files repeat from selection to selection, as in the code, so that a
second dispatch writes over the first one's file. `CandidatePanics` is the same slice of a message as in
`JobDispatch`. The branch of `media_urls_to_mp4` that pairs a manifest with an audio is left out: only
`Video` candidates ask for a companion. The texts that are searched for codecs,
labels and hosts are abstracted to what is found in them.

## Runs

| Run | Checks | Instance and why it is enough |
|---|---|---|
| Pipeline | `TypeOK`, `SingleDriver`, `SelectionCurrent`, `ResolvingFollowsQueued`, `WedgeIsPermanent` | three jobs, one permit, a queue of one entry, one attempt, one crash, all plans, submissions only: the jobs compete for queue and permit, and the third request fills the queue behind a held id, which is the wedge the last property is about |
| Contention | `ActiveHasDriver`, `ReadyMediaHasArtifact`, `ReadyMediaHasFiles` | one job with its directories, two tasks, one handler, all operations, two requests: two tasks and a reset of the same job overlap, on its rows and on disk; two handlers and a crash are in Lifecycle, and the first two properties are proved for any number |
| Lifecycle | `ImplementsLifecycle` (refinement, with liveness) | one job, one permit, two handlers, all operations, three requests, one crash |
| ResolvedAgain | violation of `ResolvingFollowsQueued` | submission and selection of one job |
| RestartDuringSelect | violation of `RestartRecoversRunning` | one submission, one crash |
| StorageCrash | `ReadyHasOutput`, `ReadyMediaHasFiles`, `CleanupSparesUntilCrash`, `ExpiredAreSwept` | one job of every plan, one directory of an unknown job, one crash, two attempts |
| Accounts | `OneAdmin`, `AdminRemains`, `HiddenOnce`, `OwnJobsOnly` | three key rows, three secrets, two requests, one job, three batches, one sweep: two requests of one administrator rotate, and of one batch restore, past each other; a job is cleared, restored and cleared again |
| Sessions | `OneBrowser`, `SharedContext`, `MapsAgree`, `StarterOnly` | one session, two slots, an administrator's and a user's key, one job, one profile with or without a left-over lock, two browsers: two calls meet in the session, two requests find no context at once, either process restarts and either browser dies. A call names one session and sessions share nothing but the browser; the theorems cover any number |
| Archive | `WithinLimits`, `OwnCopies`, `ArchivedIsShown`, `NothingMissed`, `ArchiveIsOfOneRun` | eight URLs of two origins, two with the same file name, two with the same path, two stylesheets that import each other, one that only the browser knows to be one, one that is not UTF-8, a script, a relative reference in the page; four captures, three limits, of which two bind in different passes and one only where the stylesheet of unknown type leads to a seventh resource; a complete earlier archive, every output but the HAR, an error or an oversized file at every step |
| Resolver | `ProtectedNeverUsable`, `RefusedNeverUsable`, `ProbesBounded`, `VerifiedOnce`, `CutFromBelow`, `Resolves` | three URLs, one of them reported twice in a report and again by another, one lapsed, one verified by its extractor; every discovery mode; fifteen answers that reach every branch of the verdict; one redirect, two retries, passes of one candidate and a list of two, so that there is always one to verify later and one to cut |
| Attempts | `TriedAsAllowed`, `ChosenFirst`, `PromisedIsWhole`, `GivesUpOnlyWithout`, `SlideshowIsWhole`, `SoundIsKept`, `RangeIsExact`, `DispatchEnds` | twelve jobs, described by their candidates: every kind of output, silent videos with and without a sound, blocked, failed and signed candidates, inline and DASH manifests, a slideshow, an earlier archive, a key with a limit; two selections where the second meets the files of the first; one update of the settings; Range headers around both ends of a file of zero to four bytes |
| StaleMediaUrl | violation of `ReadyUrlIsTheMedia` | the same jobs, without updates |

Bounds: `MaxBatches` and `MaxSweeps` (in `JobHistory`); ids of keys and of sessions are used
once, so `KeyIds` and `Sessions` bound how many are ever made. Of the dispatcher: `MaxAttempts` (candidates tried by a dispatch), `MaxRestarts`, `MaxRequests` (API
operations), `QueueCap` (512 in the code; 1 or 2 here, so that it fills up), `Gens`
(names for candidate sets, two more than can be remembered at once). Of the resolver:
`MAX_REDIRECTS` (5 in the code, 1 here: a second redirect is the same step), `TRANSIENT_RETRIES` (2, as in the
code), `SOFT_BLOCK_BYTES` (a threshold, 4 here), `top_n` and `truncate_max` (8 and 80 by
default). Of the attempts: `MaxCandidates`, `selections` in a scenario, `Sizes`, `MaxUpdates`, `MaxLength`
(of a file that is served) and `WORD`, which stands for 2^64 and only has to be larger than a
length. Of the browsers: `Browsers` (that run or are remembered at a time), and `Unraced` (the constraint of
the Sessions run: what follows after the lock of a running browser was removed is not explored, as both properties
except that profile). Deadlock is not checked: when the requests are used up and every job has ended
nothing is left to do. `WedgeIsPermanent` asks the question of a real deadlock: with more jobs than the
queue and the permits hold, the loop and the tasks do come to wait for each other, and then only a
restart frees them. Jobs, permits and handlers are interchangeable, so the runs without liveness use symmetry.

### What the violations show

* *ResolvedAgain*: `docs/crawler/media-acquisition-design.md` draws a state machine that
  enters `resolving` from `queued` only. In the trace a client selects between the
  `replace_candidates` of a resolution and its `candidates_ready`, which then overwrites
  `candidate_selected`. The dispatch the selection has queued finds `candidates_ready` and
  resolves the job again, beside the first task, which goes on to its automatic selection.
* *RestartDuringSelect*: `docs/ARCHITECTURE.md` says unfinished jobs are recovered at
  startup. A job whose task crashed after announcing candidates and before marking its
  automatic selection stays in `candidates_ready`.
* *StaleMediaUrl*: `docs/api/public-api.md` says that a job's record returns the final media URL when
  ready. The URL is that of the oldest artifact row, of whatever kind. A first selection of an
  audio candidate leaves its row although the job, which wants video, ends in an error;
  after a second selection that makes the video the URL still names the audio.

Four observations that no run keeps. `docs/evidence/vps-smoke-2026-06-17.md` says that the sidecar clears a
lock that is provably stale; two requests that judge the same stale lock can each remove it, the second
one that of the browser the first has launched, and then two browsers run on the profile (`raced`). The entry
of a browser that died is handed out until the sidecar restarts. The cleanup reads the list of active
jobs before it removes directories, so that a directory left by a crash is removed under the job a
boot has resumed (`CleanupSparesUntilCrash` says that this takes a crash); and the rotation that a warning at
boot advises is refused when the configured secret belongs to a revoked row or to a user's key, because the
hash is UNIQUE.

`ChosenFirst` needs its three conditions. The bonus of a chosen candidate is 10000; the terms for the bitrate, the
score and the preferred height have no bound, so that a fallback of 2160 lines under that preference, one of some
twenty Mbit/s, or any fallback beside a choice that does not fit the job is tried before
what the user chose.

## Fairness

`ApiKeys`, `JobHistory`, `LoginSessions`, `BrowserContexts`, `PageArchive` and `ArchiveOutputs` state safety only and assume no fairness.
`SourceResolver` assumes weak fairness of its steps and `MediaDelivery` (in `FairSpec`) of those of a dispatch: every request,
probe and tool has a timeout of its own, after which the step fails, and the passes, chains and lists are
finite. Nothing is assumed of users, administrators and clients.

`Fairness` of `JobDispatch`: weak fairness of the loop, of spawning and of the steps of every
task and handler, as the tokio runtime polls every future that can move and every
network or process wait in a task has a timeout; strong fairness of the two enqueue
steps, because tokio's mpsc hands out room in the order of the waiters. No fairness is
assumed of clients, crashes, disconnects or panics. `FairStorageSpec` adds weak fairness of
the retention loop, which runs at boot and every hour.

## Proofs

`JobDispatchProofs` proves, for all sets of jobs, permits, handlers and all bounds, from
`DispatchAssumption` alone:

* `TypeCorrect`: `Spec => []TypeOK`. The inductive invariant is `TypeInv`: `TypeOK` and that
  queue, loop, tasks and handlers refer only to jobs that have a row. Without
  the second part the status of the job a task works on could be `absent`, and its writes would
  create rows.
* `NoJobIsLost`: `Spec => []ActiveHasDriver`. Inductive relative to `TypeInv`: a step that
  takes an entry, a held id, a task or a handler away from a job puts another driver in its
  place, ends the job's active status, or records it as abandoned; a boot puts every active row into the
  queue (`RestartStep`).
* `ReadyMeansDelivered`: `Spec => []ReadyMediaHasArtifact`. Inductive with `OutputInv`: a task that has
  passed `ensure_job_outputs_satisfied` and whose job is not a page keeps its artifact,
  because rows of media artifacts are deleted only by the forced archive, which has
  made the job a page job before, and no operation makes a page job a media job again.
* `WedgesStay`: `Spec => WedgeIsPermanent`. While the loop holds an id without a permit nothing leaves the queue, and
  each task waits for room in it.
* `ImplementsLifecycleSteps`: the safety part of the refinement, `Spec => Lifecycle!LifecycleInit /\
  [][Lifecycle!LifecycleNext]_Phase`. A step changes the phases of the one job it works on (a boot those of
  all), and `ActiveHasDriver` gives the two sides of each change.

`TaskActionStep`, `TaskActionFrame`, `TaskActionDrives` and `TaskActionOutput` summarise
a step of a task for these three proofs, the `ReqAction...` lemmas a step of a handler.

`PipelineProofs` proves, for the same constants, of `JobStorage`:

* `StorageKeepsDispatch`: `StorageSpec => Spec`. Every action of `JobStorage` is one of `JobDispatch` conjoined
  with its effect on the directories, or leaves the dispatcher alone; so all of the above holds here.
* `ReadyMediaStaysOnDisk`: `StorageSpec => []ReadyMediaHasFiles`, for every operation. By `StorageInv`: media rows
  have their files unless the job was wiped, is expired, or was redone, an output of it opened for writing again (`MediaOnDisk`); the retention loop
  holds only expired jobs (`PruneTakesExpired`); and the scan of the cleanup cannot take the public directory of a job, because a
  job that was not on its list has no directory or a young one (`RowBeforeDir`, `UnknownAreYoung`).

and under `LeftAlone` (nobody selects candidates, resumes a job or forces an archive; submissions, profiles, panics,
disconnects and crashes remain):

* `OneDriverPerJob`, `SelectionStaysCurrent`, `ReadyKeepsItsPromise`, `ResolvingComesFromQueued`: by `PipelineInv`. That a job
  has one driver is inductive only with what every driver's job looks like: an entry of the queue has a
  status that waits for a dispatch, a task the status it wrote last, a handler an unqueued job.
* `CleanupSparesRunning`: `StorageSpec => CleanupSparesUntilCrash`. The cleanup removes long after it has read the statuses,
  so the invariant (`CleanupInv`) has to know that a job whose directory it chose has ended and, as nobody resumes
  it, stays so; after a crash the directory of a resumed job may be chosen.

`LeftAlone` is needed, not convenient: with these operations two drivers of a job overlap, and the code breaks all
of the four (`ResolvedAgain` shows the last). What holds in spite of them, `ActiveHasDriver`, `ReadyMediaHasArtifact` and `ReadyMediaHasFiles`,
is proved without it.

`AccountsProofs` proves, for all sets of keys, secrets, requests and jobs and all bounds:

* `KeysInvariant` (`KeysSpec => [](OneAdmin /\ AdminRemains)`, with the types) by an invariant that is inductive
  as soon as `OneAdmin` is in it: a boot seeds only when no administrator's key is active, and a
  rotation revokes every active one in the transaction that inserts the new one.
* `HistoryImplementsKeys`: `HistorySpec => KeysSpec`. Every step of `JobHistory` is a step of `ApiKeys`
  or leaves its variables alone, so `OneAdminAlways` and `AdminAlwaysRemains` carry over.
* `HistoryInvariant`, `HiddenOnceAlways`: `HistorySpec => []HiddenOnce`. Needed beside it (`UsersBatches`): a batch
  that is not made yet is empty, so that making it replaces none, and keys that requests and
  batches name have a row, whose role never changes.
* `OwnJobsAlways`: `HistorySpec => OwnJobsOnly`, from the invariant that the jobs of a batch a
  user's key made belong to that key, although it is asked for the batch's actor alone at the restore.

`SessionsProofs` proves, for all sets of sessions, calls, keys and jobs (the types are checked by no run):

* `SessionsTypeCorrect`: `SessionsSpec => []SessionsTypeOK`.
* `StarterOnlyAlways`: `SessionsSpec => []StarterOnly`, whatever is lost. `OwnerInv`: an entry of the API's
  map, and the call that will make it, name the one the page was opened for.
* `MapsAgreeAlways`: `SessionsSpec => []MapsAgree`. `AgreeInv` describes, while nothing was lost, what each call may
  still do to its session (`CallsInv`) and what follows for the pages (`PagesInv`).
* `ContextsImplementSessions`: `ContextsSpec => SessionsSpec`, for any profiles and browsers too, so these hold of the sessions in their browsers.
* `OneBrowserAlways`, `SharedContextAlways`: by `BrowsersInv`: a browser that runs has its profile's lock, which
  no two can have, and what a slot or an entry names runs on the profile it was asked for.

`ResolverProofs` proves, for all answers, reports, chains and limits:

* `ProtectedStaysOut`, `RefusedStaysOut`, `ProbesAreBounded`: the invariants of the verification, in every run of the resolver. `VInv`: the cost of each step of a
  verification (`Cost`), and that while probes are under way no bad sign was seen: a manifest that names a DRM
  system and a refused address end the verification at once, unless the answer kept before is one
  that cannot be found usable.
* `NoneVerifiedTwice`: `Spec => VerifiedOnce`. By `OnceInv`: the URLs of the list differ, a URL that was verified
  is in the list and has a verdict unless its verification is under way (`ListFits`, `VerdictsStay`), and what waits in
  a pass was not verified, each position once (`QueueFits`). `VerificationFinds`: a verification never
  ends without a verdict.
* `CutsFromBelow`: `Spec => CutFromBelow`, from `SortedByTier`. That `Ordered` sorts any finite set by any strict total order
  (`OrderedSorts`) is a counting argument: who comes later has more before it, so the places are
  a bijection. `JoinedOneByOne` shows what the recursive `Joined` computes, by an induction over a set of
  numbers (`ReachesAll`, from the minimum of a well-founded relation), as the induction theorems of the library take operators.

`AttemptsProofs` and `PromiseProofs` prove, for all jobs, lists of candidates, settings, sizes
and Range headers:

* `ProcessTyped`: the types (checked by no run), with `TInv`: a task that is busy has a candidate at hand.
* `SettingsChangeAsAWhole`: `Spec => UpdatedAsAWhole`, by `Drafted`: the draft is the table with the
  fields written so far, and these were in their range.
* `TriedOnlyAsAllowed`, `ChosenComeFirst`: by `Orderly`: what is left to try is
  fit, was not tried and is named once, and when an unchosen candidate was tried no chosen one is left. The
  second rests on a lemma that compares the ranks term by term.
* `RowsKeepTheirPromise`, `OneOutputADispatch`, `ReadyOnlyFulfilled`, `GivesUpWithout`, `SoundStays`, `SlideshowComplete`: by conjuncts named for
  what they say of the rows added since the dispatch began (`Counted`, `Promises`, `Ended`, `Heard`, `InOrder`, `Counts`).
  `OneOutputIsEnough` and `ReadyIsFulfilled` are stated by no run.
* `RangesAreExact`: in u64 arithmetic the answer of `get_media` holds what RFC 9110 asks for. It needs that an
  empty file is turned away before its last byte is computed.

`ArchiveProofs` proves, for all pages, captures, limits and choices of outputs:

* `LimitsHold`, `CopiesAreOwn`: by `Copied`: while the captured resources are copied there are fewer copies than
  resources tried, and names of copies are in use. That `unique_asset_name` always
  finds a free name is a pigeonhole argument (`UniqueNameIsNew`, from `FirstMissing`).
* `ArchiveAlwaysOfOneRun`: by `Staged`: while the outputs are written, the rows are those that are due and come before the
  next, the page directory holds their parts, and their files are whole.
* `ArchivedStaysShown`: by `Led`: whatever is in the archive has a key in `rewrites` that leads to its own copy, the
  absolute one always, the rooted one as long as all copies are of one origin. Assumes `PathsTellApart`: two URLs of an
  origin differ in path or query, as they do without fragments. `PassesLed` summarises the passes, `KeepEffect`
  and `LoseEffect` a download that is kept or lost.
  It speaks of the page and of the textual UTF-8 documents, the ones the code rewrites.
* `NothingIsMissed`: by `Overseen`: in each pass, the references of the document at hand are accounted for
  (copied or noted) or still to be dealt with, and those of the documents before it (`Passed`) are accounted for; when the
  pass over stylesheets is over, so are those of the stylesheets known only by their resource type (`SheetsDealt`), which the
  pass over texts does not read again. A key that leads somewhere belongs to a resource that is accounted for. Documents that
  are not UTF-8 are excepted.

Only model-checked: liveness, which the prover does not handle (it has no rules for fairness and ENABLED), that is the
fairness part of `ImplementsLifecycle`, `ExpiredAreSwept`, `Resolves` and `DispatchEnds`. Every safety property of a passing run
is proved; those that need it under the assumptions named above.

## Plan

In this order, each with its run, its mutants and, where it says so, its theorem:

1. `JobDispatch`, `JobLifecycle`, `JobStorage` with their proofs (done).
2. `ApiKeys`, `JobHistory`, `LoginSessions` with their proofs (done).
3. `PageArchive`, `ArchiveOutputs` with their proofs (done).
4. `SourceResolver`, `CandidateSelection`, `ProcessCandidate`, `RuntimeSettings`, `MediaDelivery` with their proofs (done).
5. `BrowserContexts` with its proofs (done); the sidecar's probe with its caps on candidates, events and bodies.
6. `ProcessCandidate` as a refinement of an attempt of `JobDispatch`, for several dispatches of a job at once.
7. The dashboard's polling: answers that arrive out of order.
8. Prove of `SourceResolver` and `ProcessCandidate` that each step lowers a measure, which bounds every run without
   fairness; and the theorems of `PipelineProofs` per job that was left alone, not for all jobs at once.

## Not modelled

URL policy, site extractors and the parsing of tool output (text without state, covered by
unit tests); the event log (no decision reads it); ffmpeg, yt-dlp and
the browser (external; their results are nondeterministic); the dashboard, installation and operation
scripts, and the worker crate, which is a placeholder. Failing SQL statements are left out: the code returns
the error, and what a half-done operation leaves is what `Disconnect` and `Restart` leave. `ProcessCandidate`
has one dispatch of one job; two at once, and the removal of its files by a sweep, are in `JobDispatch` and `JobStorage`.
