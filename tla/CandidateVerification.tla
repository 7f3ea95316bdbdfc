------------------------ MODULE CandidateVerification ------------------------
(***************************************************************************)
(* The verification of one media candidate, verify_one of                  *)
(* extractors/verify.rs: which probes are sent, what becomes of the ones   *)
(* that fail, and which verdict the answers lead to.  The origin answers   *)
(* every probe as it likes, from the constant set Answers.                 *)
(*                                                                         *)
(* A body is the set of the marks the code looks for in it; a content type *)
(* is the class the code puts it in; a content length that is missing is   *)
(* zero, which the code treats alike.                                      *)
(***************************************************************************)
EXTENDS Naturals

CONSTANTS
    Answers,             \* what the origin may finally answer to one probe
    MAX_REDIRECTS,       \* redirects followed in one probe
    TRANSIENT_RETRIES,   \* further attempts after a transient status
    SOFT_BLOCK_BYTES     \* a shorter body is no media

Kinds == {"Audio", "Video", "Image", "Manifest", "Html", "Unknown"}
MediaKinds == {"Audio", "Video", "Image", "Manifest"}
States == {"Untested", "Usable", "NeedsProfile", "SuspectAd", "Expired", "Drm",
           "RegionBlocked", "Failed"}
Marks == {"text", "html", "geo", "denied", "throttled",
          "m3u", "mpd", "key", "system", "protection", "entries", "variant"}
ContentTypes == {"none", "media", "image", "manifest", "html", "other"}

Answer == [status : 200..599, type : ContentTypes, length : Nat,
           marks : SUBSET Marks, manifestPath : BOOLEAN]

\* What the verification reads of a candidate: its kind, whether the path of
\* its URL has a manifest extension, whether the URL parses, and whether the
\* expiry it carries has passed.
Subject == [kind : Kinds, listed : BOOLEAN, valid : BOOLEAN, lapsed : BOOLEAN]

ASSUME VerificationAssumption ==
    /\ Answers \subseteq Answer
    /\ MAX_REDIRECTS \in Nat
    /\ TRANSIENT_RETRIES \in Nat
    /\ SOFT_BLOCK_BYTES \in Nat

VARIABLES
    subject,    \* the candidate under verification
    step,       \* the probe under way
    hops,       \* redirects it has followed
    attempts,   \* retries after a transient status
    outcome,    \* the last answer kept, and whether its body was read
    finding,    \* what was written back to the candidate
    probes,     \* history: probes sent for this candidate
    guarded,    \* history: a manifest read for it names a DRM system
    refused     \* history: the URL policy refused a probe of its URL

verification == <<subject, step, hops, attempts, outcome, finding,
                  probes, guarded, refused>>

NoOutcome == [status |-> 200, type |-> "none", length |-> 0, marks |-> {},
              manifestPath |-> FALSE, read |-> FALSE]
NoFinding == [state |-> "Untested", note |-> "none", failure |-> FALSE]
NoSubject == [kind |-> "Unknown", listed |-> FALSE, valid |-> FALSE, lapsed |-> FALSE]

-----------------------------------------------------------------------------
(* The verdict over one answer *)

is_transient_status(status) == status \in {429, 500, 502, 503, 504}

is_manifest(c) == c.kind = "Manifest" \/ c.listed

\* The body names a DRM system.
Protected(marks) == IF "m3u" \in marks
                    THEN {"key", "system"} \subseteq marks
                    ELSE {"mpd", "protection"} \subseteq marks

classify_manifest(marks) ==
    CASE Protected(marks) -> "Drm"
      [] ~Protected(marks) /\ "m3u" \in marks /\ {"entries", "variant"} \cap marks # {} -> "Usable"
      [] ~Protected(marks) /\ "m3u" \notin marks /\ {"mpd", "entries"} \subseteq marks -> "Usable"
      [] OTHER -> "SuspectAd"

\* 401 and 403, by what the body says.
Denial(marks) == IF "geo" \in marks THEN "RegionBlocked"
                 ELSE IF "denied" \in marks THEN "Failed"
                 ELSE IF "throttled" \in marks THEN "SuspectAd"
                 ELSE "NeedsProfile"

DeclaredManifestByType(o, kind) == kind = "Manifest" \/ o.type = "manifest"

DeclaredManifest(o, kind) == kind = "Manifest" \/ o.type = "manifest" \/ o.manifestPath

SoftBlocked(o, kind) ==
    /\ kind \in MediaKinds
    /\ \/ o.type = "html" \/ "html" \in o.marks
       \/ o.length > 0 /\ o.length < SOFT_BLOCK_BYTES

ServesMedia(o, kind) == /\ o.status < 400
                        /\ o.type = "media" \/ (o.type = "image" /\ kind = "Image")

classify_probe(o, kind) ==
    IF o.status = 410 THEN "Expired"
    ELSE IF o.status = 451 THEN "RegionBlocked"
    ELSE IF o.status \in {401, 403} THEN Denial(o.marks)
    ELSE IF o.status = 429 THEN "SuspectAd"
    ELSE IF o.status >= 400 THEN "Failed"
    ELSE IF DeclaredManifest(o, kind) THEN classify_manifest(o.marks)
    ELSE IF ~SoftBlocked(o, kind) /\ ServesMedia(o, kind) THEN "Usable"
    ELSE "SuspectAd"

\* The answer says too little: the body is fetched as well.
HeadUnhelpful(o) ==
    /\ ~is_manifest(subject) /\ ~o.read
    /\ \/ o.status \in {405, 501, 401, 403}
       \/ o.type = "none" /\ o.status < 300

hls_master_variant_to_probe(o) == {"m3u", "variant"} \subseteq o.marks

-----------------------------------------------------------------------------
(* The probes *)

VerificationInit ==
    /\ subject = NoSubject /\ step = "idle" /\ hops = 0 /\ attempts = 0
    /\ outcome = NoOutcome /\ finding = NoFinding
    /\ probes = 0 /\ guarded = FALSE /\ refused = FALSE

Fails == {"Failed", "Expired", "Drm", "RegionBlocked"}

Settle(state, note, failure) ==
    /\ finding' = [state |-> state, note |-> note, failure |-> failure]
    /\ step' = "idle" /\ hops' = 0 /\ attempts' = 0 /\ outcome' = NoOutcome
    /\ UNCHANGED probes

Send(next, kept, tries) ==
    /\ step' = next /\ hops' = 0 /\ outcome' = kept /\ attempts' = tries
    /\ probes' = probes + 1
    /\ UNCHANGED finding

\* verify_one up to its first probe: a URL that does not parse and one whose
\* expiry has passed are settled without any.
Begin(c) ==
    /\ step = "idle"
    /\ subject' = [kind |-> c.kind, listed |-> c.listed, valid |-> c.valid,
                   lapsed |-> c.lapsed]
    /\ guarded' = FALSE /\ refused' = FALSE
    /\ \/ /\ ~c.valid \/ c.lapsed
          /\ finding' = [state |-> IF c.valid THEN "Expired" ELSE "Failed",
                         note |-> IF c.valid THEN "expired" ELSE "probe_error",
                         failure |-> FALSE]
          /\ probes' = 0
          /\ UNCHANGED <<step, hops, attempts, outcome>>
       \/ /\ c.valid /\ ~c.lapsed
          /\ step' = "first" /\ hops' = 0 /\ attempts' = 0 /\ outcome' = NoOutcome
          /\ finding' = NoFinding
          /\ probes' = 1

\* The verdict, unless it is a playable master whose first variant is to be
\* read as well.
Conclude(o) ==
    LET state == classify_probe(o, subject.kind)
    IN  IF state = "Usable" /\ hls_master_variant_to_probe(o)
        THEN Send("variant", o, 0)
        ELSE Settle(state, "passed", state \in Fails)

RetryOrConcludeOnceMore(o, tries) ==
    IF is_transient_status(o.status) /\ tries <= TRANSIENT_RETRIES
    THEN Send("retry", o, tries + 1)
    ELSE Conclude(o)

RetryOrConclude(o, tries) ==
    IF is_transient_status(o.status) /\ tries < TRANSIENT_RETRIES
    THEN Send("retry", o, tries + 1)
    ELSE Conclude(o)

\* The final response to a probe: only a GET has a body to read, and only a
\* redirect leads to a path other than that of the candidate's URL.
Kept(a) == LET read == step # "first" \/ is_manifest(subject)
           IN  [status |-> a.status, type |-> a.type, length |-> a.length,
                marks |-> IF read THEN a.marks ELSE {},
                manifestPath |-> IF hops = 0 /\ step # "variant" THEN subject.listed
                                 ELSE a.manifestPath,
                read |-> read]

\* The answer has the body of a manifest, by what it or the candidate says.
ManifestRead(o) ==
    /\ o.status < 400
    /\ \/ step = "variant" \/ subject.kind = "Manifest"
       \/ o.type = "manifest" \/ o.manifestPath

\* A probe was redirected to an address the policy admits.
Redirected ==
    /\ step # "idle" /\ hops < MAX_REDIRECTS
    /\ hops' = hops + 1
    /\ UNCHANGED <<subject, step, attempts, outcome, finding, probes, guarded, refused>>

Answered(a) ==
    LET o == Kept(a)
    IN  /\ step # "idle"
        /\ guarded' = (guarded \/ (ManifestRead(o) /\ Protected(o.marks)))
        /\ \/ /\ step \in {"first", "fallback"} /\ HeadUnhelpful(o)
              /\ Send("body", o, 0)
           \/ /\ step \in {"first", "fallback", "body"} /\ ~HeadUnhelpful(o)
              /\ RetryOrConclude(o, 0)
           \/ /\ step = "retry"
              /\ RetryOrConclude(o, attempts)
           \/ /\ step = "variant"
              /\ LET state == IF classify_probe(o, "Manifest") = "Drm" THEN "Drm" ELSE "Usable"
                 IN  Settle(state, "passed", state \in Fails)
        /\ UNCHANGED <<subject, refused>>

FinalForManifests(policy) == is_manifest(subject)

\* The first probe is not repeated as a GET.
Final(policy) == policy \/ is_manifest(subject)

\* What a probe without an answer leads to; only the first one tells an error
\* of the URL policy from any other.
Unanswered(policy) ==
    \/ /\ step = "first" /\ Final(policy)
       /\ Settle("Failed", IF policy THEN "blocked" ELSE "probe_error", FALSE)
    \/ /\ step = "first" /\ ~Final(policy)
       /\ Send("fallback", NoOutcome, 0)
    \/ /\ step = "fallback"
       /\ Settle("Failed", "probe_error", FALSE)
    \/ /\ step = "body"
       /\ RetryOrConclude(outcome, 0)
    \/ /\ step = "retry"
       /\ Conclude(outcome)
    \/ /\ step = "variant"
       /\ Settle("Usable", "passed", FALSE)

\* An address the policy refuses, a redirect too many or one without Location.
Refused ==
    /\ Unanswered(TRUE)
    /\ refused' = (refused \/ step # "variant")
    /\ UNCHANGED <<subject, guarded>>

\* The request failed or timed out.
Unreached ==
    /\ Unanswered(FALSE)
    /\ UNCHANGED <<subject, guarded, refused>>

VerificationNext == \/ Redirected
                    \/ \E a \in Answers : Answered(a)
                    \/ Refused
                    \/ Unreached

-----------------------------------------------------------------------------
(* Properties *)

\* A candidate is found usable only if no manifest read for it, its own or the
\* first variant of its master, names a DRM system, whatever came before:
\* a HEAD without an answer, an unhelpful one, retries.
ProtectedNeverUsable == finding.state = "Usable" => ~guarded

\* A candidate whose URL once led to an address the policy refuses is never
\* found usable, also when an earlier answer to it had been kept.
RefusedNeverUsable == finding.state = "Usable" => ~refused

\* However the origin answers, one candidate costs at most the first probe, one
\* with a body, the retries and one variant.
ProbesBounded == probes <= TRANSIENT_RETRIES + 3
=============================================================================
