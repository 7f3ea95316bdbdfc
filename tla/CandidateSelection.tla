-------------------------- MODULE CandidateSelection --------------------------
(***************************************************************************)
(* The choices the worker makes among the candidates of a job, the pure    *)
(* functions at the end of state.rs: which candidate may be selected, the  *)
(* rank of an attempt, the candidates that are attempted, the audio that   *)
(* completes a silent video, the candidates recommended without a user.    *)
(*                                                                         *)
(* Candidates are a sequence, in the order of list_candidates.  The texts  *)
(* the code searches are abstracted to what it finds in them: the marks of *)
(* a container or codec, the numbers in a label or in the metadata, the    *)
(* origin two candidates of one page share.                                *)
(***************************************************************************)
EXTENDS Integers, Sequences

OutputKinds == {"Audio", "Video", "Image", "PageHtml"}
CandidateKinds == {"Audio", "Video", "Image", "Manifest", "Html", "Unknown"}
CandidateStates == {"Untested", "Usable", "NeedsProfile", "SuspectAd", "Expired", "Drm",
                    "RegionBlocked", "Failed"}
Protections == {"None", "NeedsProfile", "SignedUrl", "Drm", "RegionBlocked", "Unknown"}
FormatMarks == {"mp4", "h264", "aac", "webm", "opus"}

NoNumber == -1
\* bandwidth is metadata, label the number that ends the quality label.
Candidate == [kind : CandidateKinds, score : Int, failed : BOOLEAN, ad : BOOLEAN,
              state : CandidateStates, protection : Protections, auth : BOOLEAN,
              silent : BOOLEAN, origin : Nat, format : SUBSET FormatMarks,
              height : Nat \cup {NoNumber}, bandwidth : Nat \cup {NoNumber},
              label : Nat \cup {NoNumber}, index : Nat \cup {NoNumber},
              inline : BOOLEAN, dash : BOOLEAN, tool : BOOLEAN, page : BOOLEAN,
              allowed : BOOLEAN]

Wants(job, kind) == kind \in job.outputs
WantsAudioOnly(job) == Wants(job, "Audio") /\ ~Wants(job, "Video")
Playable(c) == c.kind \in {"Video", "Manifest"}

-----------------------------------------------------------------------------
candidate_not_selectable_reason(c) ==
    CASE c.failed \/ c.state = "Failed"                     -> "failed_validation"
      [] ~c.failed /\ c.state = "RegionBlocked"             -> "region_blocked"
      [] ~c.failed /\ c.state = "Drm"                       -> "requires_drm"
      [] ~c.failed /\ c.state = "Expired"                   -> "signed_url_expired"
      [] ~c.failed /\ c.state = "SuspectAd"                 -> "suspect_ad"
      [] OTHER -> CASE c.protection = "RegionBlocked"       -> "region_blocked"
                    [] c.protection = "Drm"                 -> "requires_drm"
                    [] OTHER -> IF c.ad THEN "suspect_ad" ELSE "none"

Selectable(c) == candidate_not_selectable_reason(c) = "none"

\* i64 division rounds towards zero.
Quotient(n, d) == IF n >= 0 THEN n \div d ELSE -((-n) \div d)

audio_rank(c) == IF c.bandwidth # NoNumber THEN c.bandwidth
                 ELSE IF c.label # NoNumber THEN c.label ELSE c.score

quality_preference_rank(target, c) ==
    IF c.height = NoNumber THEN 0
    ELSE IF target = 0 THEN c.height
    ELSE IF c.height <= target THEN 5000 + c.height
    ELSE 2000 - (c.height - target)

mp4_compatibility_rank(c) ==
    (IF "mp4" \in c.format THEN 300 ELSE 0) + (IF "h264" \in c.format THEN 300 ELSE 0)
    + (IF "aac" \in c.format THEN 120 ELSE 0) - (IF "webm" \in c.format THEN 700 ELSE 0)
    - (IF "opus" \in c.format THEN 180 ELSE 0)

AudioBonus(kind) == CASE kind = "Audio" -> 2000
                      [] kind = "Manifest" -> 1000
                      [] kind = "Video" -> 700
                      [] OTHER -> -3000

VideoBonus(kind) == CASE kind = "Video" -> 2000
                      [] kind = "Manifest" -> 1600
                      [] kind = "Audio" -> -1500
                      [] kind = "Image" -> -2000
                      [] OTHER -> -3000

Penalty(reason) == CASE reason = "none" -> 0
                     [] reason = "suspect_ad" -> 5000
                     [] reason \in {"requires_drm", "region_blocked"} -> 20000
                     [] OTHER -> 15000

candidate_needs_audio_companion(c) == c.kind = "Video" /\ c.silent

\* Fault: the bonus of a chosen candidate is too small for the other terms.
candidate_attempt_rankUnchosen(job, c, chosen) ==
    c.score + (IF chosen THEN 1000 ELSE 0) + quality_preference_rank(job.target, c)
    + (IF Wants(job, "Video") THEN VideoBonus(c.kind) + mp4_compatibility_rank(c) ELSE 0)

candidate_attempt_rank(job, c, chosen) ==
    c.score + (IF chosen THEN 10000 ELSE 0)
    + (IF WantsAudioOnly(job) THEN AudioBonus(c.kind) ELSE 0)
    + quality_preference_rank(job.target, c)
    + (IF Wants(job, "Video")
       THEN VideoBonus(c.kind) + mp4_compatibility_rank(c)
            + (IF candidate_needs_audio_companion(c) THEN 120 ELSE 0)
       ELSE 0)
    + Quotient(audio_rank(c), 1000)
    - (IF c.auth THEN 100 ELSE 0)
    - Penalty(candidate_not_selectable_reason(c))

-----------------------------------------------------------------------------
(* The attempts of a dispatch.  The code sorts a list, the candidates chosen *)
(* first and the fallbacks after them, by falling rank and stably; here an   *)
(* attempt keeps where it stood in that list, and Before compares two.       *)

Attempt(id, fallback) == [id |-> id, fallback |-> fallback]

primary_candidate_attempts(job, all, selected) ==
    LET playable == {i \in selected : Playable(all[i])}
    IN  IF Wants(job, "Video") /\ playable # {} THEN playable ELSE selected

is_compatible_fallback(job, c) ==
    \/ WantsAudioOnly(job) /\ c.kind \in {"Audio", "Video", "Manifest"}
    \/ Wants(job, "Video") /\ Playable(c)
    \/ job.outputs \cap {"Audio", "Video"} = {} /\ Wants(job, "Image") /\ c.kind = "Image"

Fallback(job, all, primary, c) ==
    IF Wants(job, "Video") THEN Playable(c)
    ELSE \/ \E i \in primary : primary = {i} /\ all[i].kind = c.kind
         \/ is_compatible_fallback(job, c)

\* Fault: whatever is left is a fallback, fit for selection or not.
candidate_attempt_orderUnfiltered(job, all, selected) ==
    LET primary == primary_candidate_attempts(job, all, selected)
        others == {i \in DOMAIN all \ primary : Fallback(job, all, primary, all[i])}
    IN  {Attempt(i, FALSE) : i \in primary}
          \cup {Attempt(i, TRUE) : i \in others}

\* Fault: the chosen candidates are not left out of the fallbacks.
candidate_attempt_orderRepeats(job, all, selected) ==
    LET primary == primary_candidate_attempts(job, all, selected)
        others == {i \in DOMAIN all : Selectable(all[i]) /\ Fallback(job, all, primary, all[i])}
    IN  {Attempt(i, FALSE) : i \in primary}
          \cup {Attempt(i, TRUE) : i \in others}

candidate_attempt_order(job, all, selected) ==
    LET primary == primary_candidate_attempts(job, all, selected)
        others == {i \in DOMAIN all \ primary :
                       Selectable(all[i]) /\ Fallback(job, all, primary, all[i])}
    IN  {Attempt(i, FALSE) : i \in primary}
          \cup {Attempt(i, TRUE) : i \in IF Wants(job, "Video") \/ \E i \in primary : primary = {i}
                                         THEN others ELSE {}}

Before(job, all, selected, a, b) ==
    LET Rank(x) == candidate_attempt_rank(job, all[x.id], x.id \in selected)
    IN  \/ Rank(a) > Rank(b)
        \/ /\ Rank(a) = Rank(b)
           /\ \/ ~a.fallback /\ b.fallback
              \/ a.fallback = b.fallback /\ a.id < b.id

-----------------------------------------------------------------------------
None == {}

\* The last candidate of the highest rank, as a set of at most one.
LastBest(all, set, Rank(_)) ==
    {i \in set : \A k \in set : Rank(all[i]) > Rank(all[k])
                               \/ (Rank(all[i]) = Rank(all[k]) /\ i >= k)}
FirstBest(all, set, Rank(_)) ==
    {i \in set : \A k \in set : Rank(all[i]) > Rank(all[k])
                               \/ (Rank(all[i]) = Rank(all[k]) /\ i <= k)}

best_companion_audio(all, c) ==
    IF candidate_needs_audio_companion(c)
    THEN LastBest(all, {i \in DOMAIN all : all[i].kind = "Audio" /\ all[i].origin = c.origin},
                  audio_rank)
    ELSE None

recommended_candidates_for_job(job, all) ==
    LET Rank(c) == candidate_attempt_rank(job, c, FALSE)
        Best(set) == FirstBest(all, set, Rank)
        fit == {i \in DOMAIN all : Selectable(all[i])}
        playable == Best({i \in fit : Playable(all[i])})
        images == {i \in DOMAIN all : all[i].kind = "Image"}
        audio == Best({i \in fit : all[i].kind = "Audio"})
    IN  CASE Wants(job, "Video") /\ playable = None ->
                 {i \in images : \A k \in images : i <= k}
          [] Wants(job, "Video") /\ playable # None ->
                 playable \cup {a \in fit : \E v \in playable :
                                              a \in best_companion_audio(all, all[v])}
          [] WantsAudioOnly(job) /\ audio # None -> audio
          [] OTHER -> Best(fit)

\* auto_select_direct_candidate
direct_candidate(job, all) ==
    LastBest(all, {i \in DOMAIN all : Selectable(all[i])},
             LAMBDA c : candidate_attempt_rank(job, c, FALSE))

should_build_image_slideshow(job, all, selected) ==
    Wants(job, "Video") /\ selected # {} /\ \A i \in selected : all[i].kind = "Image"

image_candidate_order(c) == CASE c.index # NoNumber -> c.index
                              [] c.index = NoNumber /\ c.label # NoNumber -> c.label
                              [] OTHER -> c.score

\* The kind of artifact that decides whether the outputs of a job are there.
PrimaryOutput(job) == CASE Wants(job, "PageHtml") -> {"PageHtml"}
                        [] ~Wants(job, "PageHtml") /\ Wants(job, "Video") -> {"Video"}
                        [] WantsAudioOnly(job) /\ ~Wants(job, "PageHtml") -> {"Audio"}
                        [] OTHER -> job.outputs

ensure_job_outputs_satisfied(job, kinds) == PrimaryOutput(job) \subseteq kinds
=============================================================================
