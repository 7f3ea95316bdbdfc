---------------------------- MODULE ResolverProofs ----------------------------
(***************************************************************************)
(* Of the verification inside SourceResolver, for every set of answers,    *)
(* every chain and every limit: no candidate is found usable after a       *)
(* manifest read for it named a DRM system, none after the URL policy      *)
(* refused a probe of its URL, and the probes of one are bounded.  Of the  *)
(* run around it, for every set of reports too: no candidate is verified   *)
(* twice, and the list is cut from below.                                  *)
(***************************************************************************)
EXTENDS SourceResolver, TLAPS, FiniteSetTheorems, WellFoundedInduction

\* A HEAD that says nothing of the candidate's media.
Unhelpful(o) == /\ o.marks = {}
                /\ \/ o.status \in {405, 501, 401, 403}
                   \/ o.type = "none" /\ o.status < 300

\* What a probe costs by the time it is sent.
Cost == /\ step = "first" => probes <= 1
        /\ step \in {"fallback", "body"} => probes <= 2
        /\ step = "retry" => probes <= 2 + attempts
        /\ step \in {"variant", "idle"} => probes <= TRANSIENT_RETRIES + 3

Registers ==
    /\ step \in {"idle", "first", "fallback", "body", "retry", "variant"}
    /\ attempts \in 0..TRANSIENT_RETRIES
    /\ probes \in Nat
    /\ outcome.status \in Nat

\* While probes are under way no bad sign was seen yet: each ends the
\* verification at once.  An answer that was put aside for a further probe
\* is one that cannot be found usable.
VInv ==
    /\ Registers
    /\ Cost
    /\ step # "idle" => finding = NoFinding /\ ~guarded /\ ~refused
    /\ finding.state = "Usable" => ~guarded /\ ~refused
    /\ step = "body" => Unhelpful(outcome)
    /\ step = "retry" => is_transient_status(outcome.status)

-----------------------------------------------------------------------------
(* A body that names a DRM system, in an answer declared a manifest, is      *)
(* classified so.                                                            *)
LEMMA ProtectedIsDrm ==
    ASSUME NEW o, NEW kind, o.status \in Nat, o.status < 400,
           DeclaredManifest(o, kind), Protected(o.marks)
    PROVE  classify_probe(o, kind) = "Drm"
  BY DEF classify_probe, classify_manifest

(* A transient status never makes a candidate usable.                        *)
LEMMA TransientNotUsable ==
    ASSUME NEW o, NEW kind, is_transient_status(o.status)
    PROVE  classify_probe(o, kind) # "Usable"
  BY DEF classify_probe, is_transient_status

(* Neither does an answer that was unhelpful, nor is it retried.             *)
LEMMA UnhelpfulNotUsable ==
    ASSUME NEW o, NEW kind, o.status \in Nat, Unhelpful(o)
    PROVE  classify_probe(o, kind) # "Usable" /\ ~is_transient_status(o.status)
  <1>1. classify_manifest({}) = "SuspectAd"
    BY DEF classify_manifest, Protected
  <1>2. Denial({}) = "NeedsProfile"
    BY DEF Denial
  <1> QED
    BY <1>1, <1>2 DEF classify_probe, Unhelpful, is_transient_status, ServesMedia

-----------------------------------------------------------------------------
LEMMA InitVInv == ASSUME Init PROVE VInv
  BY ResolverAssumption, VerificationAssumption
  DEF Init, VerificationInit, VInv, Registers, Cost, NoOutcome, NoFinding,
      Unhelpful, is_transient_status

(* A step of the run around the verification keeps it.                       *)
LEMMA KeepsVInv == ASSUME VInv, UNCHANGED verification PROVE VInv'
  <1>1. /\ step' = step /\ attempts' = attempts /\ outcome' = outcome
        /\ finding' = finding /\ probes' = probes /\ guarded' = guarded
        /\ refused' = refused
    BY DEF verification
  <1>2. Registers' /\ Cost'
    BY <1>1 DEF VInv, Registers, Cost
  <1> QED
    BY <1>1, <1>2 DEF VInv, Unhelpful

(* A verification that is settled without a bad sign, or as anything but     *)
(* usable.                                                                   *)
LEMMA Settled ==
    ASSUME VInv, NEW state, NEW note, NEW failure, Settle(state, note, failure),
           probes <= TRANSIENT_RETRIES + 3,
           state = "Usable" => ~guarded' /\ ~refused'
    PROVE  VInv'
  BY VerificationAssumption
  DEF VInv, Registers, Cost, Settle, NoOutcome, Unhelpful, is_transient_status

(* The verdict over an answer that carries no bad sign.                      *)
LEMMA Concluded ==
    ASSUME VInv, step # "idle", NEW o, o.status \in Nat, Conclude(o),
           probes <= TRANSIENT_RETRIES + 2,
           classify_probe(o, subject.kind) = "Usable" => ~guarded' /\ ~refused'
    PROVE  VInv'
  <1> DEFINE state == classify_probe(o, subject.kind)
  <1>1. CASE state = "Usable" /\ hls_master_variant_to_probe(o)
    <2>1. Send("variant", o, 0)
      BY <1>1 DEF Conclude
    <2> QED
      BY <1>1, <2>1, VerificationAssumption
      DEF VInv, Registers, Cost, Send, Unhelpful, is_transient_status
  <1>2. CASE ~(state = "Usable" /\ hls_master_variant_to_probe(o))
    <2>1. Settle(state, "passed", state \in Fails)
      BY <1>2 DEF Conclude
    <2> HIDE DEF state
    <2>2. state = "Usable" => ~guarded' /\ ~refused'
      BY DEF state
    <2>3. probes <= TRANSIENT_RETRIES + 3
      BY VerificationAssumption DEF VInv, Registers
    <2> QED
      BY <2>1, <2>2, <2>3, Settled
  <1> QED
    BY <1>1, <1>2

(* A transient answer is retried or concluded.                               *)
LEMMA RetriedOrConcluded ==
    ASSUME VInv, step # "idle", NEW o, o.status \in Nat, NEW tries \in 0..TRANSIENT_RETRIES,
           RetryOrConclude(o, tries),
           probes <= 2 + tries,
           ~guarded' \/ classify_probe(o, subject.kind) = "Drm",
           ~refused',
           guarded' => o.status < 400
    PROVE  VInv'
  <1>1. CASE is_transient_status(o.status) /\ tries < TRANSIENT_RETRIES
    <2>1. Send("retry", o, tries + 1)
      BY <1>1 DEF RetryOrConclude
    <2>2. ~guarded'
      BY <1>1 DEF is_transient_status
    <2> QED
      BY <1>1, <2>1, <2>2, VerificationAssumption
      DEF VInv, Registers, Cost, Send, Unhelpful
  <1>2. CASE ~(is_transient_status(o.status) /\ tries < TRANSIENT_RETRIES)
    <2>1. Conclude(o)
      BY <1>2 DEF RetryOrConclude
    <2>2. probes <= TRANSIENT_RETRIES + 2
      BY VerificationAssumption DEF VInv, Registers
    <2> QED
      BY <2>1, <2>2, Concluded
  <1> QED
    BY <1>1, <1>2

-----------------------------------------------------------------------------
LEMMA BeginVInv == ASSUME VInv, NEW c, Begin(c) PROVE VInv'
  <1>1. CASE ~c.valid \/ c.lapsed
    <2>1. /\ step' = step /\ attempts' = attempts /\ outcome' = outcome /\ probes' = 0
          /\ ~guarded' /\ ~refused' /\ step = "idle"
      BY <1>1 DEF Begin
    <2> QED
      BY <2>1, VerificationAssumption DEF VInv, Registers, Cost
  <1>2. CASE c.valid /\ ~c.lapsed
    BY <1>2, VerificationAssumption DEF Begin, VInv, Registers, Cost, NoOutcome, NoFinding
  <1> QED
    BY <1>1, <1>2

(* A redirect.                                                               *)
LEMMA RedirectedVInv == ASSUME VInv, Redirected PROVE VInv'
  <1>1. /\ step' = step /\ attempts' = attempts /\ outcome' = outcome
        /\ finding' = finding /\ probes' = probes /\ guarded' = guarded
        /\ refused' = refused
    BY DEF Redirected
  <1>2. Registers' /\ Cost'
    BY <1>1 DEF VInv, Registers, Cost
  <1> QED
    BY <1>1, <1>2 DEF VInv, Unhelpful

(* An answer: one that shows a protected manifest ends the verification      *)
(* there and then.                                                           *)
LEMMA AnsweredVInv == ASSUME VInv, NEW a \in Answers, Answered(a) PROVE VInv'
  <1> DEFINE o == Kept(a)
  <1>1. a \in Answer
    BY VerificationAssumption
  <1>2. o.status \in Nat /\ o.status = a.status
    BY <1>1 DEF Answer, Kept
  <1>3. ~o.read => o.marks = {}
    BY DEF Kept
  <1>4. step # "idle" /\ ~guarded /\ ~refused /\ refused' = refused /\ subject' = subject
    BY DEF Answered, VInv
  <1>5. guarded' = (ManifestRead(o) /\ Protected(o.marks))
    BY <1>4 DEF Answered
  <1>6. guarded' => o.read /\ o.status < 400
    BY <1>3, <1>5 DEF ManifestRead, Protected
  <1>7. guarded' /\ step # "variant" => classify_probe(o, subject.kind) = "Drm"
    <2> SUFFICES ASSUME guarded', step # "variant"
                 PROVE  classify_probe(o, subject.kind) = "Drm"
      OBVIOUS
    <2>1. DeclaredManifest(o, subject.kind)
      BY <1>5 DEF ManifestRead, DeclaredManifest
    <2> QED
      BY <1>2, <1>5, <1>6, <2>1, ProtectedIsDrm
  <1>8. CASE step \in {"first", "fallback"} /\ HeadUnhelpful(o) /\ Send("body", o, 0)
    <2>1. Unhelpful(o) /\ ~guarded'
      BY <1>3, <1>6, <1>8 DEF HeadUnhelpful, Unhelpful
    <2>2. step = "first"
      BY <1>8 DEF HeadUnhelpful, Kept
    <2> HIDE DEF o
    <2> QED
      BY <1>2, <1>4, <1>8, <2>1, <2>2, VerificationAssumption
      DEF VInv, Registers, Cost, Send
  <1>9. CASE step \in {"first", "fallback", "body"} /\ RetryOrConclude(o, 0)
    <2>1. probes <= 2 + 0 /\ 0 \in 0..TRANSIENT_RETRIES
      BY <1>9, VerificationAssumption DEF VInv, Registers, Cost
    <2> HIDE DEF o
    <2> QED
      BY <1>2, <1>4, <1>6, <1>7, <1>9, <2>1, RetriedOrConcluded
  <1>10. CASE step = "retry" /\ RetryOrConclude(o, attempts)
    <2>1. probes <= 2 + attempts /\ attempts \in 0..TRANSIENT_RETRIES
      BY <1>10 DEF VInv, Registers, Cost
    <2> HIDE DEF o
    <2> QED
      BY <1>2, <1>4, <1>6, <1>7, <1>10, <2>1, RetriedOrConcluded
  <1>11. ASSUME step = "variant",
                NEW state, state = IF classify_probe(o, "Manifest") = "Drm" THEN "Drm" ELSE "Usable",
                Settle(state, "passed", state \in Fails)
         PROVE  VInv'
    <2>1. guarded' => classify_probe(o, "Manifest") = "Drm"
      BY <1>2, <1>5, <1>6, ProtectedIsDrm DEF DeclaredManifest
    <2>2. probes <= TRANSIENT_RETRIES + 3
      BY <1>11 DEF VInv, Cost
    <2>3. state = "Usable" => ~guarded' /\ ~refused'
      BY <1>4, <1>11, <2>1
    <2> QED
      BY <1>11, <2>2, <2>3, Settled
  <1> QED
    BY <1>8, <1>9, <1>10, <1>11 DEF Answered

(* A probe without an answer: an answer kept before it cannot be usable.     *)
LEMMA UnansweredVInv ==
    ASSUME VInv, NEW policy, Unanswered(policy),
           guarded' = guarded, subject' = subject,
           step = "variant" \/ ~policy => ~refused'
    PROVE  VInv'
  <1>1. step # "idle" /\ ~guarded' /\ outcome.status \in Nat
    BY DEF Unanswered, VInv, Registers
  <1>2. probes <= TRANSIENT_RETRIES + 3
    BY <1>1, VerificationAssumption DEF VInv, Registers, Cost
  <1>3. ASSUME NEW note, Settle("Failed", note, FALSE)
        PROVE  VInv'
    BY <1>2, <1>3, Settled
  <1>4. CASE step = "first" /\ Final(policy) /\ Settle("Failed", IF policy THEN "blocked" ELSE "probe_error", FALSE)
    BY <1>3, <1>4
  <1>5. CASE step = "first" /\ ~Final(policy) /\ Send("fallback", NoOutcome, 0)
    <2>1. ~refused'
      BY <1>5 DEF Final
    <2> QED
      BY <1>1, <1>5, <2>1, VerificationAssumption DEF VInv, Registers, Cost, Send, NoOutcome
  <1>6. CASE step = "fallback" /\ Settle("Failed", "probe_error", FALSE)
    BY <1>3, <1>6
  <1>7. CASE step = "body" /\ RetryOrConclude(outcome, 0)
    <2>1. /\ classify_probe(outcome, subject.kind) # "Usable"
          /\ ~is_transient_status(outcome.status)
      BY <1>1, <1>7, UnhelpfulNotUsable DEF VInv
    <2>2. Conclude(outcome)
      BY <1>7, <2>1 DEF RetryOrConclude
    <2>3. probes <= TRANSIENT_RETRIES + 2
      BY <1>7, VerificationAssumption DEF VInv, Registers, Cost
    <2> QED
      BY <1>1, <2>1, <2>2, <2>3, Concluded
  <1>8. CASE step = "retry" /\ Conclude(outcome)
    <2>1. classify_probe(outcome, subject.kind) # "Usable"
      BY <1>8, TransientNotUsable DEF VInv
    <2>2. probes <= TRANSIENT_RETRIES + 2
      BY <1>8, VerificationAssumption DEF VInv, Registers, Cost
    <2> QED
      BY <1>1, <1>8, <2>1, <2>2, Concluded
  <1>9. CASE step = "variant" /\ Settle("Usable", "passed", FALSE)
    BY <1>1, <1>2, <1>9, Settled
  <1> QED
    BY <1>4, <1>5, <1>6, <1>7, <1>8, <1>9 DEF Unanswered

(* Every step of a verification.                                             *)
LEMMA VerificationVInv == ASSUME VInv, VerificationNext PROVE VInv'
  <1>1. CASE Refused
    <2>1. /\ Unanswered(TRUE) /\ guarded' = guarded /\ subject' = subject
          /\ refused' = (refused \/ step # "variant")
      BY <1>1 DEF Refused
    <2>2. step = "variant" => ~refused'
      BY <2>1 DEF VInv
    <2> QED
      BY <2>1, <2>2, UnansweredVInv
  <1>2. CASE Unreached
    <2>1. /\ Unanswered(FALSE) /\ guarded' = guarded /\ subject' = subject
          /\ refused' = refused
      BY <1>2 DEF Unreached
    <2>2. ~refused'
      BY <2>1 DEF VInv, Unanswered
    <2> QED
      BY <2>1, <2>2, UnansweredVInv
  <1> QED
    BY <1>1, <1>2, RedirectedVInv, AnsweredVInv DEF VerificationNext

(* Every step of a run.                                                      *)
LEMMA NextVInv == ASSUME VInv, [Next]_vars PROVE VInv'
  <1>1. CASE VerifyNext
    BY <1>1, BeginVInv DEF VerifyNext
  <1>2. CASE VerifyStep
    BY <1>2, VerificationVInv DEF VerifyStep
  <1>3. CASE UNCHANGED verification
    BY <1>3, KeepsVInv
  <1>4. ASSUME NEW report \in Reports, Extract(report)
        PROVE  UNCHANGED verification
    BY <1>4 DEF Extract
  <1>5. CASE NextExtractor \/ EndChain \/ EndPass \/ ExtractFails \/ Finish
    BY <1>3, <1>5 DEF NextExtractor, EndChain, EndPass, ExtractFails, Finish
  <1>6. CASE UNCHANGED vars
    BY <1>3, <1>6 DEF vars
  <1> QED
    BY <1>1, <1>2, <1>3, <1>4, <1>5, <1>6 DEF Next

(* The invariant of the verification holds in every run of the resolver.     *)
THEOREM VerificationInvariant == Spec => []VInv
  <1>1. Init => VInv
    BY InitVInv
  <1>2. VInv /\ [Next]_vars => VInv'
    BY NextVInv
  <1> QED
    BY <1>1, <1>2, PTL DEF Spec

(* No candidate is found usable after a manifest read for it, its own or the *)
(* first variant of its master, named a DRM system.                          *)
THEOREM ProtectedStaysOut == Spec => []ProtectedNeverUsable
  <1>1. VInv => ProtectedNeverUsable
    BY DEF VInv, ProtectedNeverUsable
  <1> QED
    BY <1>1, VerificationInvariant, PTL

(* No candidate is found usable after the URL policy refused a probe of its  *)
(* URL.                                                                      *)
THEOREM RefusedStaysOut == Spec => []RefusedNeverUsable
  <1>1. VInv => RefusedNeverUsable
    BY DEF VInv, RefusedNeverUsable
  <1> QED
    BY <1>1, VerificationInvariant, PTL

(* The probes sent for one candidate are bounded by the number of retries.   *)
THEOREM ProbesAreBounded == Spec => []ProbesBounded
  <1>1. VInv => ProbesBounded
    BY VerificationAssumption DEF VInv, Registers, Cost, ProbesBounded
  <1> QED
    BY <1>1, VerificationInvariant, PTL

-----------------------------------------------------------------------------
(* Sorting: Ordered lists a set in the order given for it.                   *)

\* A strict order between any two elements of a set.
Orders(R, S) ==
    /\ \A i \in S : <<i, i>> \notin R
    /\ \A i, j \in S : i = j \/ <<i, j>> \in R \/ <<j, i>> \in R
    /\ \A i, j, k \in S : <<i, j>> \in R /\ <<j, k>> \in R => <<i, k>> \in R

\* Those that come before an element.
Before(i, S, R) == {j \in S : <<j, i>> \in R}

(* Who comes later has more before it.                                       *)
LEMMA LaterHasMore ==
    ASSUME NEW S, IsFiniteSet(S), NEW R, Orders(R, S),
           NEW i \in S, NEW j \in S, <<i, j>> \in R
    PROVE  Cardinality(Before(i, S, R)) < Cardinality(Before(j, S, R))
  <1>1. Before(i, S, R) \in SUBSET Before(j, S, R)
    BY DEF Before, Orders
  <1>2. Before(i, S, R) # Before(j, S, R)
    BY DEF Before, Orders
  <1>3. IsFiniteSet(Before(j, S, R))
    BY FS_Subset DEF Before
  <1>4. /\ IsFiniteSet(Before(i, S, R))
        /\ Cardinality(Before(i, S, R)) <= Cardinality(Before(j, S, R))
        /\ Cardinality(Before(j, S, R)) = Cardinality(Before(i, S, R))
              => Before(j, S, R) = Before(i, S, R)
    BY <1>1, <1>3, FS_Subset, Zenon
  <1>5. Cardinality(Before(i, S, R)) \in Nat /\ Cardinality(Before(j, S, R)) \in Nat
    BY <1>3, <1>4, FS_CardinalityType
  <1> HIDE DEF Before
  <1> QED
    BY <1>2, <1>4, <1>5

(* Ordered lists the elements of the set, each once, in their order.         *)
LEMMA OrderedSorts ==
    ASSUME NEW S, IsFiniteSet(S), NEW R, Orders(R, S)
    PROVE  /\ Ordered(S, R) \in [1..Cardinality(S) -> S]
           /\ \A i \in S : \E p \in 1..Cardinality(S) : Ordered(S, R)[p] = i
           /\ \A p, q \in 1..Cardinality(S) :
                 p < q => <<Ordered(S, R)[p], Ordered(S, R)[q]>> \in R
  <1> DEFINE n == Cardinality(S)
             rank == [i \in S |-> Cardinality(Before(i, S, R)) + 1]
  <1>1. n \in Nat
    BY FS_CardinalityType
  <1>2. ASSUME NEW i \in S PROVE rank[i] \in 1..n
    <2>1. Before(i, S, R) \in SUBSET S /\ Before(i, S, R) # S
      BY DEF Before, Orders
    <2>2. /\ IsFiniteSet(Before(i, S, R))
          /\ Cardinality(Before(i, S, R)) <= n
          /\ n = Cardinality(Before(i, S, R)) => S = Before(i, S, R)
      BY <2>1, FS_Subset, Zenon
    <2>3. Cardinality(Before(i, S, R)) \in Nat
      BY <2>2, FS_CardinalityType
    <2> QED
      BY <1>1, <2>1, <2>2, <2>3
  <1>3. \A i, j \in S : <<i, j>> \in R => rank[i] < rank[j]
    <2> SUFFICES ASSUME NEW i \in S, NEW j \in S, <<i, j>> \in R PROVE rank[i] < rank[j]
      OBVIOUS
    <2>1. Cardinality(Before(i, S, R)) < Cardinality(Before(j, S, R))
      BY LaterHasMore
    <2>2. IsFiniteSet(Before(i, S, R)) /\ IsFiniteSet(Before(j, S, R))
      BY FS_Subset DEF Before
    <2>3. Cardinality(Before(i, S, R)) \in Nat /\ Cardinality(Before(j, S, R)) \in Nat
      BY <2>2, FS_CardinalityType
    <2> QED
      BY <2>1, <2>3
  <1> HIDE DEF rank
  <1>4. rank \in [S -> 1..n] /\ \A i, j \in S : rank[i] = rank[j] => i = j
    <2>1. rank \in [S -> 1..n]
      BY <1>2 DEF rank
    <2>2. ASSUME NEW i \in S, NEW j \in S, rank[i] = rank[j], i # j PROVE FALSE
      <3>1. <<i, j>> \in R \/ <<j, i>> \in R
        BY <2>2 DEF Orders
      <3>2. rank[i] \in 1..n /\ rank[j] \in 1..n
        BY <2>1
      <3> QED
        BY <1>1, <1>3, <2>2, <3>1, <3>2
    <2> QED
      BY <2>1, <2>2
  <1>5. \A p \in 1..n : \E i \in S : rank[i] = p
    <2>1. rank \in Injection(S, 1..n)
      BY <1>4 DEF Injection, IsInjective
    <2>2. IsFiniteSet(1..n) /\ Cardinality(1..n) = n
      BY <1>1, FS_Interval
    <2>3. rank \in Surjection(S, 1..n)
      BY <2>1, <2>2, FS_Injection
    <2> QED
      BY <2>3 DEF Surjection
  <1>6. \A p \in 1..n : Ordered(S, R)[p] \in S /\ rank[Ordered(S, R)[p]] = p
    <2> SUFFICES ASSUME NEW p \in 1..n
                 PROVE  Ordered(S, R)[p] \in S /\ rank[Ordered(S, R)[p]] = p
      OBVIOUS
    <2>1. Ordered(S, R)[p] = CHOOSE i \in S : Cardinality(Before(i, S, R)) = p - 1
      BY DEF Ordered, Before
    <2>2. \E i \in S : Cardinality(Before(i, S, R)) = p - 1
      <3>1. PICK i \in S : rank[i] = p
        BY <1>5
      <3>2. Cardinality(Before(i, S, R)) \in Nat
        BY FS_Subset, FS_CardinalityType DEF Before
      <3> QED
        BY <1>1, <3>1, <3>2 DEF rank
    <2>3. Ordered(S, R)[p] \in S /\ Cardinality(Before(Ordered(S, R)[p], S, R)) = p - 1
      BY <2>1, <2>2
    <2> QED
      BY <1>1, <2>3 DEF rank
  <1>7. Ordered(S, R) \in [1..n -> S]
    <2> DEFINE At(p) == CHOOSE i \in S : Cardinality({j \in S : <<j, i>> \in R}) = p - 1
    <2>1. Ordered(S, R) = [p \in 1..n |-> At(p)]
      BY DEF Ordered
    <2> HIDE DEF At
    <2> QED
      BY <1>6, <2>1
  <1>8. \A p, q \in 1..n : p < q => <<Ordered(S, R)[p], Ordered(S, R)[q]>> \in R
    <2> SUFFICES ASSUME NEW p \in 1..n, NEW q \in 1..n, p < q,
                        <<Ordered(S, R)[p], Ordered(S, R)[q]>> \notin R
                 PROVE  FALSE
      OBVIOUS
    <2>1. \/ Ordered(S, R)[p] = Ordered(S, R)[q]
          \/ <<Ordered(S, R)[q], Ordered(S, R)[p]>> \in R
      BY <1>6 DEF Orders
    <2> QED
      BY <1>1, <1>3, <1>6, <2>1
  <1>9. ASSUME NEW i \in S PROVE \E p \in 1..n : Ordered(S, R)[p] = i
    BY <1>2, <1>4, <1>6
  <1> QED
    BY <1>7, <1>8, <1>9

-----------------------------------------------------------------------------
(* Joining: a report is taken in one candidate after the other.              *)

(* Induction over the naturals, for membership in a set.                     *)
LEMMA ReachesAll ==
    ASSUME NEW T, 0 \in T, \A n \in Nat : n \in T => n + 1 \in T
    PROVE  \A n \in Nat : n \in T
  <1>1. SUFFICES ASSUME Nat \ T # {} PROVE FALSE
    OBVIOUS
  <1>2. IsWellFoundedOn(OpToRel(<, Nat), Nat)
    BY NatLessThanWellFounded
  <1>3. PICK n \in Nat \ T : \A m \in Nat \ T : ~ <<m, n>> \in OpToRel(<, Nat)
    <2>1. Nat \ T \subseteq Nat
      OBVIOUS
    <2> QED
      BY <1>1, <1>2, <2>1, WFMin, Zenon
  <1>4. n # 0 /\ n - 1 \in Nat
    OBVIOUS
  <1>5. n - 1 \notin T
    BY <1>4
  <1>6. <<n - 1, n>> \in OpToRel(<, Nat)
    BY <1>4 DEF OpToRel
  <1> QED
    BY <1>3, <1>4, <1>5, <1>6

(* What arrived joins the list one after the other.                          *)
LEMMA JoinedOneByOne ==
    ASSUME NEW cands, NEW arrived, Len(arrived) \in Nat
    PROVE  /\ Joined(cands, arrived)[0] = cands
           /\ \A n \in 1..Len(arrived) :
                 Joined(cands, arrived)[n] = Merge(Joined(cands, arrived)[n - 1], arrived[n])
  <1> DEFINE Adds(f, m) ==
                 [n \in 0..m |-> IF n = 0 THEN cands ELSE Merge(f[n - 1], arrived[n])]
             T == {m \in Nat : \E f : f = Adds(f, m)}
  <1>1. 0 \in T
    <2>1. [n \in 0..0 |-> cands] = Adds([n \in 0..0 |-> cands], 0)
      OBVIOUS
    <2> QED
      BY <2>1, Zenon
  <1>2. ASSUME NEW m \in Nat, m \in T PROVE m + 1 \in T
    <2>1. PICK f : f = Adds(f, m)
      BY <1>2, Zenon
    <2> DEFINE g == [n \in 0..(m + 1) |-> IF n <= m THEN f[n] ELSE Merge(f[m], arrived[m + 1])]
    <2>2. ASSUME NEW n \in 0..(m + 1)
          PROVE  g[n] = IF n = 0 THEN cands ELSE Merge(g[n - 1], arrived[n])
      <3>1. CASE n <= m
        <4>1. f[n] = IF n = 0 THEN cands ELSE Merge(f[n - 1], arrived[n])
          BY <2>1, <3>1
        <4> QED
          BY <3>1, <4>1
      <3>2. CASE n = m + 1
        BY <3>2
      <3> QED
        BY <3>1, <3>2
    <2>3. g = Adds(g, m + 1)
      <3>1. Adds(g, m + 1) = [n \in 0..(m + 1) |-> g[n]]
        BY <2>2
      <3> QED
        BY <3>1
    <2> HIDE DEF g
    <2> QED
      BY <2>3
  <1>3. Len(arrived) \in T
    <2> HIDE DEF T
    <2> QED
      BY <1>1, <1>2, ReachesAll
  <1>4. \E f : f = Adds(f, Len(arrived))
    BY <1>3, Zenon
  <1>5. Joined(cands, arrived) = CHOOSE f : f = Adds(f, Len(arrived))
    BY DEF Joined
  <1>6. Joined(cands, arrived) = Adds(Joined(cands, arrived), Len(arrived))
    BY <1>4, <1>5, Zenon
  <1> QED
    BY <1>6

\* The URLs extractors name, and the candidates a run may have of them.
Urls == UNION {{report[k].url : k \in DOMAIN report} : report \in Reports}
Notes == {"none", "passed", "expired", "probe_error", "blocked"}
Candidate ==
    [url : Urls, kind : Kinds, listed : BOOLEAN, valid : BOOLEAN, lapsed : BOOLEAN,
     score : Int, state : States, evidence : Nat, note : Notes, failure : BOOLEAN]

Distinct(list) == \A i, j \in DOMAIN list : list[i].url = list[j].url => i = j

\* The candidates of one list begin the other, with their states.
Begins(list, longer) ==
    /\ Len(list) <= Len(longer)
    /\ \A k \in DOMAIN list : longer[k].url = list[k].url /\ longer[k].state = list[k].state

(* A candidate that joins changes no other's URL or state.                   *)
LEMMA MergeKeeps ==
    ASSUME NEW cands \in Seq(Candidate), Distinct(cands), NEW c \in Candidate
    PROVE  /\ Merge(cands, c) \in Seq(Candidate)
           /\ Distinct(Merge(cands, c))
           /\ Begins(cands, Merge(cands, c))
  <1> DEFINE known == {k \in DOMAIN cands : cands[k].url = c.url}
  <1>1. CASE known = {}
    <2>1. Merge(cands, c) = Append(cands, c)
      BY <1>1 DEF Merge
    <2>2. Append(cands, c) \in Seq(Candidate) /\ Len(Append(cands, c)) = Len(cands) + 1
      OBVIOUS
    <2>3. /\ \A k \in 1..Len(cands) : Append(cands, c)[k] = cands[k]
          /\ Append(cands, c)[Len(cands) + 1] = c
      OBVIOUS
    <2> QED
      BY <1>1, <2>1, <2>2, <2>3 DEF Distinct, Begins
  <1>2. CASE known # {}
    <2> DEFINE k == CHOOSE k \in known : TRUE
               score == (IF cands[k].score < c.score THEN c.score ELSE cands[k].score) + 5
               evidence == cands[k].evidence + 1
               backed == [cands[k] EXCEPT !.evidence = evidence]
               joint == [backed EXCEPT !.score = score]
    <2>1. k \in DOMAIN cands
      BY <1>2
    <2>2. Merge(cands, c) = [cands EXCEPT ![k].evidence = @ + 1,
                                          ![k].score = (IF @ < c.score THEN c.score ELSE @) + 5]
      BY <1>2 DEF Merge
    <2> HIDE DEF k
    <2>3. cands[k] \in Candidate
      BY <2>1
    <2>4. score \in Int /\ evidence \in Nat
      BY <2>3 DEF Candidate
    <2>5. Merge(cands, c) = [cands EXCEPT ![k] = joint]
      BY <2>1, <2>2, <2>3 DEF Candidate
    <2> HIDE DEF score, evidence
    <2>6. joint \in Candidate /\ joint.url = cands[k].url /\ joint.state = cands[k].state
      <3>1. /\ backed \in Candidate
            /\ backed.url = cands[k].url /\ backed.state = cands[k].state
        BY <2>3, <2>4 DEF Candidate
      <3> HIDE DEF backed
      <3> QED
        BY <2>4, <3>1 DEF Candidate
    <2> HIDE DEF joint
    <2>7. /\ [cands EXCEPT ![k] = joint] \in Seq(Candidate)
          /\ Len([cands EXCEPT ![k] = joint]) = Len(cands)
      BY <2>1, <2>6
    <2> QED
      BY <2>1, <2>5, <2>6, <2>7 DEF Distinct, Begins
  <1> QED
    BY <1>1, <1>2

(* Nor do all the candidates of a report.                                    *)
LEMMA JoinedKeeps ==
    ASSUME NEW cands \in Seq(Candidate), Distinct(cands), NEW arrived \in Seq(Candidate)
    PROVE  LET list == Joined(cands, arrived)[Len(arrived)]
           IN  list \in Seq(Candidate) /\ Distinct(list) /\ Begins(cands, list)
  <1> DEFINE J == Joined(cands, arrived)
             Fine(list) == list \in Seq(Candidate) /\ Distinct(list) /\ Begins(cands, list)
             T == {n \in Nat : n <= Len(arrived) => Fine(J[n])}
  <1>1. Len(arrived) \in Nat
    OBVIOUS
  <1>2. /\ J[0] = cands
        /\ \A n \in 1..Len(arrived) : J[n] = Merge(J[n - 1], arrived[n])
    BY <1>1, JoinedOneByOne
  <1> HIDE DEF J
  <1>3. 0 \in T
    BY <1>2 DEF Begins
  <1>4. ASSUME NEW n \in Nat, n \in T PROVE n + 1 \in T
    <2> SUFFICES ASSUME n + 1 <= Len(arrived) PROVE Fine(J[n + 1])
      OBVIOUS
    <2>1. Fine(J[n])
      BY <1>1, <1>4
    <2>2. J[n + 1] = Merge(J[n], arrived[n + 1]) /\ arrived[n + 1] \in Candidate
      BY <1>1, <1>2
    <2>3. /\ Merge(J[n], arrived[n + 1]) \in Seq(Candidate)
          /\ Distinct(Merge(J[n], arrived[n + 1]))
          /\ Begins(J[n], Merge(J[n], arrived[n + 1]))
      BY <2>1, <2>2, MergeKeeps
    <2> QED
      BY <2>1, <2>2, <2>3 DEF Begins
  <1>5. \A n \in Nat : n \in T
    <2> HIDE DEF T
    <2> QED
      BY <1>3, <1>4, ReachesAll
  <1> QED
    BY <1>1, <1>5 DEF J

-----------------------------------------------------------------------------
(* The verdicts and the passes.                                              *)

(* A verdict is never that the candidate was not verified.                   *)
LEMMA VerdictIsFound ==
    ASSUME NEW o, NEW kind
    PROVE  classify_probe(o, kind) \in States \ {"Untested"}
  <1>1. classify_manifest(o.marks) \in {"Drm", "Usable", "SuspectAd"}
    BY DEF classify_manifest
  <1>2. Denial(o.marks) \in {"RegionBlocked", "Failed", "SuspectAd", "NeedsProfile"}
    BY DEF Denial
  <1> QED
    BY <1>1, <1>2 DEF classify_probe, States

\* What a verification that is over has found.
Verdict == [state : States \ {"Untested"}, note : Notes, failure : BOOLEAN]

(* So what settles, concludes or gives up retrying leaves a verdict.          *)
LEMMA SettleFinds ==
    ASSUME NEW state \in States \ {"Untested"}, NEW note \in Notes, NEW failure \in BOOLEAN,
           Settle(state, note, failure)
    PROVE  finding' \in Verdict
  BY DEF Settle, Verdict

(* A verdict that is concluded.                                              *)
LEMMA ConcludeFinds ==
    ASSUME NEW o, Conclude(o), step' = "idle" PROVE finding' \in Verdict
  <1> DEFINE state == classify_probe(o, subject.kind)
  <1>1. state \in States \ {"Untested"}
    BY VerdictIsFound
  <1>2. Send("variant", o, 0) \/ Settle(state, "passed", state \in Fails)
    BY DEF Conclude
  <1> HIDE DEF state
  <1>3. ~Send("variant", o, 0)
    BY DEF Send
  <1>4. (state \in Fails) \in BOOLEAN /\ "passed" \in Notes
    BY DEF Notes
  <1> QED
    BY <1>1, <1>2, <1>3, <1>4, SettleFinds

(* One after the retries.                                                    *)
LEMMA RetryFinds ==
    ASSUME NEW o, NEW tries, RetryOrConclude(o, tries), step' = "idle"
    PROVE  finding' \in Verdict
  BY ConcludeFinds DEF RetryOrConclude, Send

(* A verification that is over has found something.                          *)
LEMMA VerificationFinds ==
    ASSUME VerificationNext
    PROVE  step # "idle" /\ (step' = "idle" => finding' \in Verdict)
  <1>1. CASE Redirected
    BY <1>1 DEF Redirected
  <1>2. ASSUME NEW a \in Answers, Answered(a)
        PROVE  step # "idle" /\ (step' = "idle" => finding' \in Verdict)
    <2> DEFINE o == Kept(a)
    <2> HIDE DEF o
    <2>1. step # "idle"
      BY <1>2 DEF Answered
    <2>2. \/ Send("body", o, 0)
          \/ RetryOrConclude(o, 0) \/ RetryOrConclude(o, attempts)
          \/ LET state == IF classify_probe(o, "Manifest") = "Drm" THEN "Drm" ELSE "Usable"
             IN  Settle(state, "passed", state \in Fails)
      BY <1>2 DEF Answered, o
    <2>3. CASE Send("body", o, 0)
      BY <2>1, <2>3 DEF Send
    <2>4. CASE LET state == IF classify_probe(o, "Manifest") = "Drm" THEN "Drm" ELSE "Usable"
               IN  Settle(state, "passed", state \in Fails)
      BY <2>1, <2>4 DEF Settle, Verdict, States, Notes
    <2> QED
      BY <2>1, <2>2, <2>3, <2>4, RetryFinds
  <1>3. ASSUME NEW policy \in BOOLEAN, Unanswered(policy)
        PROVE  step # "idle" /\ (step' = "idle" => finding' \in Verdict)
    <2>1. step # "idle"
      BY <1>3 DEF Unanswered
    <2>2. \/ \E note \in Notes : Settle("Failed", note, FALSE) \/ Settle("Usable", note, FALSE)
          \/ Send("fallback", NoOutcome, 0)
          \/ RetryOrConclude(outcome, 0) \/ Conclude(outcome)
      BY <1>3 DEF Unanswered, Notes
    <2>3. CASE \E note \in Notes : Settle("Failed", note, FALSE) \/ Settle("Usable", note, FALSE)
      BY <2>1, <2>3, SettleFinds DEF States
    <2>4. CASE Send("fallback", NoOutcome, 0)
      BY <2>1, <2>4 DEF Send
    <2> QED
      BY <2>1, <2>2, <2>3, <2>4, RetryFinds, ConcludeFinds
  <1> QED
    BY <1>1, <1>2, <1>3 DEF VerificationNext, Refused, Unreached

(* Also one that ends without a probe.                                       *)
LEMMA BeginFinds ==
    ASSUME NEW c, Begin(c), step' = "idle" PROVE finding' \in Verdict
  <1>1. finding' = [state |-> IF c.valid THEN "Expired" ELSE "Failed",
                    note |-> IF c.valid THEN "expired" ELSE "probe_error",
                    failure |-> FALSE]
    BY DEF Begin
  <1> QED
    BY <1>1 DEF Verdict, States, Notes

(* The order by score, and the one by what was found and score.              *)
LEMMA ScoredOrders ==
    ASSUME NEW cands \in Seq(Candidate), NEW S \in SUBSET DOMAIN cands
    PROVE  Orders({pair \in S \X S : Scored(cands, pair[1], pair[2])}, S)
  <1> DEFINE R == {pair \in S \X S : Scored(cands, pair[1], pair[2])}
  <1>1. \A i, j \in S : <<i, j>> \in R <=> Scored(cands, i, j)
    OBVIOUS
  <1>2. \A i \in S : i \in Nat /\ cands[i].score \in Int
    <2>1. \A i \in S : i \in 1..Len(cands) /\ cands[i] \in Candidate
      OBVIOUS
    <2> QED
      BY <2>1 DEF Candidate
  <1> HIDE DEF R
  <1>3. Orders(R, S)
    BY <1>1, <1>2 DEF Orders, Scored
  <1> QED
    BY <1>3 DEF R

(* The tiers are numbers.                                                     *)
LEMMA TiersAreNumbers ==
    \A state \in States : state_tier(state) \in 0..7
  BY DEF States, state_tier

\* The order of the final sort.
Better(cands, i, j) ==
    IF enabled /\ state_tier(cands[i].state) # state_tier(cands[j].state)
    THEN state_tier(cands[i].state) < state_tier(cands[j].state)
    ELSE Scored(cands, i, j)

(* The final sort puts the better ones first and keeps them all.             *)
LEMMA SortedByTier ==
    ASSUME NEW cands \in Seq(Candidate)
    PROVE  /\ sort_verified(cands) \in Seq(Candidate)
           /\ Len(sort_verified(cands)) = Len(cands)
           /\ \E order \in [DOMAIN cands -> DOMAIN cands] :
                 /\ \A k \in DOMAIN cands : sort_verified(cands)[k] = cands[order[k]]
                 /\ \A i \in DOMAIN cands : \E k \in DOMAIN cands : order[k] = i
                 /\ \A k, l \in DOMAIN cands : k < l => Better(cands, order[k], order[l])
  <1> DEFINE S == DOMAIN cands
             R == {pair \in S \X S : Better(cands, pair[1], pair[2])}
             order == Ordered(S, R)
  <1>1. Len(cands) \in Nat /\ S = 1..Len(cands) /\ IsFiniteSet(S) /\ Cardinality(S) = Len(cands)
    <2>1. Len(cands) \in Nat /\ S = 1..Len(cands)
      OBVIOUS
    <2>2. /\ IsFiniteSet(1..Len(cands))
          /\ Cardinality(1..Len(cands)) = IF 1 > Len(cands) THEN 0 ELSE Len(cands) - 1 + 1
      BY <2>1, FS_Interval
    <2> QED
      BY <2>1, <2>2
  <1>2. sort_verified(cands) = [k \in S |-> cands[order[k]]]
    BY DEF sort_verified, Better
  <1>3. \A i, j \in S : <<i, j>> \in R <=> Better(cands, i, j)
    OBVIOUS
  <1>4. \A i \in S : /\ i \in Nat /\ cands[i].score \in Int /\ cands[i] \in Candidate
                     /\ state_tier(cands[i].state) \in Int
    <2>1. \A i \in S : i \in Nat /\ cands[i] \in Candidate
      BY <1>1
    <2>2. \A i \in S : cands[i].score \in Int /\ cands[i].state \in States
      BY <2>1 DEF Candidate
    <2> QED
      BY <2>1, <2>2, TiersAreNumbers
  <1> HIDE DEF S, R
  <1>5. Orders(R, S)
    <2>1. \A i, j \in S : Scored(cands, i, j) <=> \/ cands[i].score > cands[j].score
                                                  \/ cands[i].score = cands[j].score /\ i < j
      BY DEF Scored
    <2>2. \A i \in S : <<i, i>> \notin R
      BY <1>3, <1>4, <2>1 DEF Better
    <2>3. ASSUME NEW i \in S, NEW j \in S, i # j PROVE Better(cands, i, j) \/ Better(cands, j, i)
      <3>1. CASE enabled /\ state_tier(cands[i].state) # state_tier(cands[j].state)
        BY <1>4, <3>1 DEF Better
      <3>2. CASE ~(enabled /\ state_tier(cands[i].state) # state_tier(cands[j].state))
        <4>1. Scored(cands, i, j) \/ Scored(cands, j, i)
          BY <1>4, <2>1, <2>3
        <4> QED
          BY <3>2, <4>1 DEF Better
      <3> QED
        BY <3>1, <3>2
    <2>4. ASSUME NEW i \in S, NEW j \in S, NEW k \in S, Better(cands, i, j), Better(cands, j, k)
          PROVE  Better(cands, i, k)
      BY <1>4, <2>1, <2>4 DEF Better
    <2> QED
      BY <1>3, <2>2, <2>3, <2>4 DEF Orders
  <1>6. /\ order \in [1..Len(cands) -> S]
        /\ \A i \in S : \E p \in 1..Len(cands) : order[p] = i
        /\ \A p, q \in 1..Len(cands) : p < q => <<order[p], order[q]>> \in R
    BY <1>1, <1>5, OrderedSorts
  <1> HIDE DEF order
  <1>7. sort_verified(cands) = [k \in 1..Len(cands) |-> cands[order[k]]]
    BY <1>1, <1>2
  <1>8. \A k \in 1..Len(cands) : cands[order[k]] \in Candidate
    BY <1>4, <1>6
  <1>9. sort_verified(cands) \in Seq(Candidate) /\ Len(sort_verified(cands)) = Len(cands)
    BY <1>1, <1>7, <1>8
  <1>10. \A p, q \in S : p < q => Better(cands, order[p], order[q])
    BY <1>1, <1>3, <1>6
  <1>11. \A k \in S : sort_verified(cands)[k] = cands[order[k]]
    BY <1>1, <1>7
  <1>12. order \in [S -> S] /\ \A i \in S : \E k \in S : order[k] = i
    BY <1>1, <1>6
  <1> QED
    BY <1>9, <1>10, <1>11, <1>12 DEF S

(* A pass verifies some candidates that were not verified, each once.        *)
LEMMA PassTakesUnverified ==
    ASSUME NEW cands \in Seq(Candidate)
    PROVE  /\ TopUnverified(cands) \in Seq(DOMAIN cands)
           /\ \A a, b \in DOMAIN TopUnverified(cands) :
                 TopUnverified(cands)[a] = TopUnverified(cands)[b] => a = b
           /\ \A a \in DOMAIN TopUnverified(cands) :
                 cands[TopUnverified(cands)[a]].state = "Untested"
  <1> DEFINE open == {k \in DOMAIN cands : is_unverified(cands[k])}
             R == {pair \in open \X open : Scored(cands, pair[1], pair[2])}
             n == Cardinality(open)
             list == Ordered(open, R)
             top == TopUnverified(cands)
  <1>1. IsFiniteSet(open)
    <2>1. IsFiniteSet(1..Len(cands)) /\ open \in SUBSET (1..Len(cands))
      BY FS_Interval
    <2> QED
      BY <2>1, FS_Subset
  <1>2. Orders(R, open)
    BY ScoredOrders
  <1>3. top = Truncated(list, top_n)
    BY DEF TopUnverified
  <1>4. \A k \in open : k \in DOMAIN cands /\ cands[k].state = "Untested"
    BY DEF is_unverified
  <1>5. n \in Nat
    BY <1>1, FS_CardinalityType
  <1> HIDE DEF open, R
  <1>6. /\ list \in [1..n -> open]
        /\ \A p, q \in 1..n : p < q => <<list[p], list[q]>> \in R
    BY <1>1, <1>2, OrderedSorts
  <1> HIDE DEF list, n, top
  <1>7. \A p, q \in 1..n : list[p] = list[q] => p = q
    <2> SUFFICES ASSUME NEW p \in 1..n, NEW q \in 1..n, list[p] = list[q], p < q PROVE FALSE
      BY <1>5
    <2>1. <<list[p], list[p]>> \in R /\ list[p] \in open
      BY <1>6
    <2> QED
      BY <1>2, <2>1 DEF Orders
  <1> DEFINE m == IF n < top_n THEN n ELSE top_n
  <1>8. m \in Nat /\ m <= n
    BY <1>5, ResolverAssumption
  <1>9. top = [k \in 1..m |-> list[k]]
    <2>1. list \in Seq(open) /\ Len(list) = n
      BY <1>5, <1>6
    <2> QED
      BY <1>3, <1>5, <1>6, <1>8, <2>1, ResolverAssumption DEF Truncated
  <1>10. /\ top \in Seq(DOMAIN cands) /\ DOMAIN top = 1..m
         /\ \A k \in 1..m : top[k] = list[k] /\ top[k] \in open
    BY <1>4, <1>5, <1>6, <1>8, <1>9
  <1> QED
    BY <1>4, <1>5, <1>7, <1>8, <1>10 DEF top

-----------------------------------------------------------------------------
(* The invariant of a run: nothing is verified twice.                        *)

\* The list of candidates, and the URLs that were verified are in it.
ListFits == /\ Distinct(candidates)
            /\ \A u \in probed : \E k \in DOMAIN candidates : candidates[k].url = u

\* The positions that wait in a pass are of candidates not verified so far.
QueueFits == /\ queue \in Seq(DOMAIN candidates)
             /\ \A a, b \in DOMAIN queue : queue[a] = queue[b] => a = b
             /\ \A a \in DOMAIN queue : candidates[queue[a]].state = "Untested"

\* A URL that was verified has a verdict, unless its verification is under way.
VerdictsStay == \A k \in DOMAIN candidates :
                    candidates[k].url \in probed /\ candidates[k].state = "Untested"
                        => step # "idle" /\ k = Head(queue)

\* A pass, and with it a verification, is over before the chain goes on; an
\* explicit mode has one pass, the final one.
InOrder == /\ phase \in {"chain", "extract"} => queue = <<>>
           /\ ~aggregate => phase # "verify" /\ (phase \in {"chain", "extract"} => probed = {})

\* After the run the list may be cut, and nothing is verified any more.
OnceInv ==
    /\ candidates \in Seq(Candidate)
    /\ step # "idle" => Passing
    /\ phase # "done" => ListFits /\ QueueFits /\ VerdictsStay /\ InOrder

(* What is left of a list without its head.                                  *)
LEMMA TailOf ==
    ASSUME NEW S, NEW s \in Seq(S), s # <<>>
    PROVE  /\ Tail(s) \in Seq(S)
           /\ \A a \in DOMAIN Tail(s) : /\ a \in Nat /\ a + 1 \in DOMAIN s /\ a + 1 # 1
                                       /\ Tail(s)[a] = s[a + 1]
  <1>1. Tail(s) \in Seq(S) /\ Len(Tail(s)) = Len(s) - 1 /\ Len(s) \in Nat
    OBVIOUS
  <1>2. \A a \in 1..(Len(s) - 1) : Tail(s)[a] = s[a + 1]
    OBVIOUS
  <1> QED
    BY <1>1, <1>2

(* What truncation keeps stays in its place.                                 *)
LEMMA TruncatedOf ==
    ASSUME NEW S, NEW s \in Seq(S), NEW n \in Nat
    PROVE  /\ Truncated(s, n) \in Seq(S)
           /\ \A i \in DOMAIN Truncated(s, n) : i \in DOMAIN s /\ Truncated(s, n)[i] = s[i]
  <1> DEFINE m == IF Len(s) < n THEN Len(s) ELSE n
  <1>1. m \in Nat /\ m <= Len(s) /\ Len(s) \in Nat
    OBVIOUS
  <1>2. Truncated(s, n) = SubSeq(s, 1, m)
    BY DEF Truncated
  <1> HIDE DEF m
  <1>3. SubSeq(s, 1, m) \in Seq(S) /\ Len(SubSeq(s, 1, m)) = m
    BY <1>1
  <1>4. \A i \in 1..m : SubSeq(s, 1, m)[i] = s[i]
    BY <1>1
  <1> QED
    BY <1>1, <1>2, <1>3, <1>4

(* The invariant holds before the first extractor.                           *)
LEMMA InitOnce == ASSUME Init PROVE OnceInv
  BY DEF Init, VerificationInit, OnceInv, ListFits, QueueFits, VerdictsStay, InOrder, Distinct

(* The start of a pass.                                                      *)
LEMMA StartPassFits ==
    ASSUME OnceInv, phase # "done", NEW next \in {"verify", "final"}, StartPass(next),
           aggregate \/ next = "final", step = "idle", queue = <<>>,
           UNCHANGED <<verification, discovery, enabled, candidates, probed>>
    PROVE  OnceInv'
  <1>1. queue' \in {<<>>, TopUnverified(candidates)}
    BY DEF StartPass
  <1>2. /\ queue' \in Seq(DOMAIN candidates)
        /\ \A a, b \in DOMAIN queue' : queue'[a] = queue'[b] => a = b
        /\ \A a \in DOMAIN queue' : candidates[queue'[a]].state = "Untested"
    <2>1. CASE queue' = <<>>
      BY <2>1
    <2>2. CASE queue' = TopUnverified(candidates)
      <3>1. candidates \in Seq(Candidate)
        BY DEF OnceInv
      <3> QED
        BY <2>2, <3>1, PassTakesUnverified, Zenon
    <2> QED
      BY <1>1, <2>1, <2>2
  <1>3. phase' = next /\ candidates' = candidates /\ probed' = probed /\ aggregate' = aggregate
        /\ step' = "idle"
    BY DEF StartPass, aggregate, verification
  <1>4. ListFits' /\ VerdictsStay' /\ InOrder'
    BY <1>3 DEF OnceInv, ListFits, VerdictsStay, InOrder
  <1>5. QueueFits'
    BY <1>2, <1>3 DEF QueueFits
  <1> QED
    BY <1>3, <1>4, <1>5 DEF OnceInv

(* The candidates at the end of a verification, or in the middle of one.     *)
LEMMA WriteBackFits ==
    ASSUME OnceInv, Passing,
           WriteBack(Head(queue)),
           queue' = (IF step' = "idle" THEN Tail(queue) ELSE queue),
           step' = "idle" => finding' \in Verdict,
           \/ probed' = probed /\ step # "idle"
           \/ probed' = probed \union {candidates[Head(queue)].url} /\ step = "idle",
           UNCHANGED <<discovery, phase>>
    PROVE  OnceInv'
  <1> DEFINE k == Head(queue)
             judged == [candidates[k] EXCEPT !.state = finding'.state,
                                             !.note = finding'.note,
                                             !.failure = finding'.failure]
  <1>1. /\ phase \in {"verify", "final"} /\ queue # <<>> /\ phase' = phase
        /\ candidates \in Seq(Candidate)
        /\ ListFits /\ QueueFits /\ VerdictsStay /\ InOrder /\ aggregate' = aggregate
    BY DEF Passing, OnceInv, aggregate
  <1>2. k = queue[1] /\ k \in DOMAIN candidates /\ 1 \in DOMAIN queue
    BY <1>1 DEF QueueFits
  <1>3. candidates[k] \in Candidate
    BY <1>1, <1>2
  <1>4. InOrder'
    BY <1>1 DEF InOrder
  <1> HIDE DEF k
  <1>5. CASE step' = "idle"
    <2>1. judged \in Candidate /\ judged.url = candidates[k].url /\ judged.state # "Untested"
      <3>1. /\ finding'.state \in States \ {"Untested"} /\ finding'.note \in Notes
            /\ finding'.failure \in BOOLEAN
        BY <1>5 DEF Verdict
      <3> QED
        BY <1>3, <3>1 DEF Candidate
    <2>2. candidates' = [candidates EXCEPT ![k] = judged]
      BY <1>1, <1>2, <1>3, <1>5 DEF WriteBack, Candidate, k
    <2> HIDE DEF judged
    <2>3. /\ candidates' \in Seq(Candidate) /\ DOMAIN candidates' = DOMAIN candidates
          /\ candidates'[k] = judged
          /\ \A l \in DOMAIN candidates : l # k => candidates'[l] = candidates[l]
          /\ \A l \in DOMAIN candidates : candidates'[l].url = candidates[l].url
      BY <1>1, <1>2, <2>1, <2>2
    <2>4. ListFits'
      BY <1>1, <1>2, <2>3 DEF ListFits, Distinct, k
    <2>5. queue' = Tail(queue)
      BY <1>5
    <2>6. QueueFits'
      <3>1. /\ queue' \in Seq(DOMAIN candidates)
            /\ \A a \in DOMAIN queue' : /\ a \in Nat /\ a + 1 \in DOMAIN queue /\ a + 1 # 1
                                        /\ queue'[a] = queue[a + 1]
        <4>1. queue \in Seq(DOMAIN candidates)
          BY <1>1 DEF QueueFits
        <4> QED
          BY <1>1, <2>5, <4>1, TailOf
      <3>2. ASSUME NEW a \in DOMAIN queue' PROVE queue'[a] # k /\ queue'[a] \in DOMAIN candidates
        <4>1. a + 1 \in DOMAIN queue /\ queue'[a] = queue[a + 1] /\ a + 1 # 1
          BY <3>1
        <4> QED
          BY <1>1, <1>2, <3>1, <4>1 DEF QueueFits
      <3>3. \A a, b \in DOMAIN queue' : queue'[a] = queue'[b] => a = b
        <4> SUFFICES ASSUME NEW a \in DOMAIN queue', NEW b \in DOMAIN queue',
                            queue'[a] = queue'[b]
                     PROVE  a = b
          OBVIOUS
        <4>1. a + 1 = b + 1
          BY <1>1, <3>1 DEF QueueFits
        <4>2. a \in Nat /\ b \in Nat
          BY <3>1
        <4> QED
          BY <4>1, <4>2
      <3>4. ASSUME NEW a \in DOMAIN queue' PROVE candidates'[queue'[a]].state = "Untested"
        <4>1. a + 1 \in DOMAIN queue /\ queue'[a] = queue[a + 1]
          BY <3>1
        <4>2. candidates[queue'[a]].state = "Untested"
          BY <1>1, <4>1 DEF QueueFits
        <4> QED
          BY <2>3, <3>2, <4>2
      <3> QED
        BY <2>3, <3>1, <3>3, <3>4 DEF QueueFits
    <2>7. VerdictsStay'
      <3> SUFFICES ASSUME NEW l \in DOMAIN candidates, candidates'[l].url \in probed',
                          candidates'[l].state = "Untested"
                   PROVE  FALSE
        BY <2>3 DEF VerdictsStay
      <3>1. l # k
        BY <2>1, <2>3
      <3>2. candidates[l].url \in probed
        BY <1>1, <1>2, <2>3, <3>1 DEF ListFits, Distinct, k
      <3> QED
        BY <1>1, <2>3, <3>1, <3>2 DEF VerdictsStay, k
    <2> QED
      BY <1>1, <1>4, <1>5, <2>3, <2>4, <2>6, <2>7 DEF OnceInv
  <1>6. CASE step' # "idle"
    <2>1. candidates' = candidates /\ queue' = queue
      BY <1>6 DEF WriteBack
    <2>2. ListFits' /\ QueueFits' /\ Passing'
      BY <1>1, <1>2, <2>1 DEF ListFits, QueueFits, Passing, k
    <2>3. VerdictsStay'
      BY <1>1, <1>2, <1>6, <2>1 DEF VerdictsStay, ListFits, Distinct, k
    <2> QED
      BY <1>1, <1>4, <2>1, <2>2, <2>3 DEF OnceInv
  <1> QED
    BY <1>5, <1>6

(* What an extractor reports is a list of candidates.                        *)
LEMMA ReportsArrive ==
    ASSUME NEW report \in Reports
    PROVE  /\ [k \in DOMAIN report |-> Arrived(report[k])] \in Seq(Candidate)
           /\ Len([k \in DOMAIN report |-> Arrived(report[k])]) = Len(report)
  <1> DEFINE arrived == [k \in DOMAIN report |-> Arrived(report[k])]
  <1>1. report \in Seq(Range(report)) /\ \A k \in DOMAIN report : Reported(report[k])
    BY ResolverAssumption
  <1>2. Len(report) \in Nat /\ DOMAIN report = 1..Len(report)
    BY <1>1
  <1>3. ASSUME NEW k \in DOMAIN report PROVE Arrived(report[k]) \in Candidate
    <2> DEFINE c == report[k]
    <2>1. c.url \in Urls
      BY DEF Urls
    <2>2. c.state \in States /\ c.score \in Int
      BY <1>1 DEF Reported
    <2>3. c.kind \in Kinds /\ c.listed \in BOOLEAN /\ c.valid \in BOOLEAN /\ c.lapsed \in BOOLEAN
      <3>1. [kind |-> c.kind, listed |-> c.listed, valid |-> c.valid, lapsed |-> c.lapsed]
                \in Subject
        BY <1>1 DEF Reported
      <3> QED
        BY <3>1 DEF Subject
    <2> HIDE DEF c
    <2>4. Arrived(c) \in Candidate
      BY <2>1, <2>2, <2>3 DEF Arrived, Candidate, Notes
    <2> QED
      BY <2>4 DEF c
  <1> QED
    BY <1>2, <1>3

(* A report that comes in.                                                   *)
LEMMA ExtractFits ==
    ASSUME OnceInv, NEW report \in Reports, Extract(report) PROVE OnceInv'
  <1> DEFINE arrived == [k \in DOMAIN report |-> Arrived(report[k])]
  <1>1. /\ phase = "extract" /\ phase' = "chain" /\ queue' = queue /\ probed' = probed
        /\ aggregate' = aggregate /\ step' = step
        /\ candidates' = IF report = <<>> THEN candidates ELSE Gathered(report)
        /\ aggregate \/ NamesOnce(report)
    BY DEF Extract, aggregate, verification
  <1>2. /\ candidates \in Seq(Candidate) /\ step = "idle" /\ queue = <<>>
        /\ ListFits /\ VerdictsStay /\ (~aggregate => probed = {})
    BY <1>1 DEF OnceInv, Passing, InOrder
  <1>3. arrived \in Seq(Candidate) /\ Len(arrived) = Len(report)
    BY ReportsArrive
  <1>4. /\ candidates' \in Seq(Candidate) /\ Distinct(candidates')
        /\ aggregate => Begins(candidates, candidates')
    <2>1. CASE report = <<>>
      BY <1>1, <1>2, <2>1 DEF ListFits, Begins
    <2>2. CASE report # <<>> /\ aggregate
      <3>1. candidates' = Joined(candidates, arrived)[Len(arrived)]
        BY <1>1, <2>2 DEF Gathered
      <3> HIDE DEF arrived
      <3> QED
        BY <1>2, <1>3, <3>1, JoinedKeeps DEF ListFits
    <2>3. CASE report # <<>> /\ ~aggregate
      <3>1. candidates' = arrived
        BY <1>1, <2>3 DEF Gathered
      <3>2. Distinct(arrived)
        BY <1>1, <2>3 DEF Distinct, NamesOnce, Arrived
      <3> QED
        BY <1>3, <2>3, <3>1, <3>2
    <2> QED
      BY <2>1, <2>2, <2>3
  <1>5. ASSUME NEW u \in probed
        PROVE  \E k \in DOMAIN candidates : /\ k \in DOMAIN candidates' /\ candidates'[k].url = u
                                            /\ candidates'[k].state = candidates[k].state
                                            /\ candidates[k].url = u
    <2>1. aggregate
      BY <1>2, <1>5
    <2>2. PICK k \in DOMAIN candidates : candidates[k].url = u
      BY <1>2, <1>5 DEF ListFits
    <2> QED
      BY <1>2, <1>4, <2>1, <2>2 DEF Begins
  <1>6. ListFits'
    BY <1>1, <1>4, <1>5 DEF ListFits
  <1>7. VerdictsStay'
    <2> SUFFICES ASSUME NEW l \in DOMAIN candidates', candidates'[l].url \in probed,
                        candidates'[l].state = "Untested"
                 PROVE  FALSE
      BY <1>1 DEF VerdictsStay
    <2>1. PICK k \in DOMAIN candidates : /\ k \in DOMAIN candidates'
                                         /\ candidates'[k].url = candidates'[l].url
                                         /\ candidates'[k].state = candidates[k].state
                                         /\ candidates[k].url = candidates'[l].url
      BY <1>5
    <2>2. k = l
      BY <1>4, <2>1 DEF Distinct
    <2> QED
      BY <1>2, <2>1, <2>2 DEF VerdictsStay
  <1>8. QueueFits' /\ InOrder'
    BY <1>1, <1>2 DEF QueueFits, InOrder
  <1> QED
    BY <1>1, <1>2, <1>4, <1>6, <1>7, <1>8 DEF OnceInv

(* The end of the run.                                                       *)
LEMMA FinishFits ==
    ASSUME OnceInv, Finish PROVE OnceInv'
  <1>1. candidates \in Seq(Candidate) /\ step = "idle"
    BY DEF OnceInv, Passing, Finish
  <1>2. sort_verified(candidates) \in Seq(Candidate)
    BY <1>1, SortedByTier
  <1>3. candidates' \in Seq(Candidate)
    BY <1>2, ResolverAssumption DEF Finish, Truncated
  <1> QED
    BY <1>1, <1>3 DEF OnceInv, Finish, verification

(* And every step keeps it.                                                  *)
LEMMA NextOnce == ASSUME OnceInv, [Next]_vars PROVE OnceInv'
  <1>1. CASE NextExtractor
    <2>1. phase = "chain" /\ step = "idle" /\ queue = <<>>
      BY <1>1 DEF NextExtractor, OnceInv, Passing, InOrder
    <2>2. UNCHANGED <<verification, discovery, enabled, candidates, probed>>
      BY <1>1 DEF NextExtractor
    <2>3. CASE StartPass("verify") /\ aggregate
      BY <2>1, <2>2, <2>3, StartPassFits
    <2>4. CASE phase' = "extract" /\ UNCHANGED queue
      BY <2>1, <2>2, <2>4 DEF OnceInv, ListFits, QueueFits, VerdictsStay, InOrder, Passing,
                              aggregate, verification
    <2> QED
      BY <1>1, <2>3, <2>4 DEF NextExtractor
  <1>2. CASE EndChain
    BY <1>2, StartPassFits DEF EndChain, OnceInv, Passing, InOrder
  <1>3. CASE VerifyNext
    <2>1. /\ Passing /\ step = "idle" /\ Begin(candidates[Head(queue)])
          /\ WriteBack(Head(queue))
          /\ queue' = IF step' = "idle" THEN Tail(queue) ELSE queue
          /\ probed' = probed \union {candidates[Head(queue)].url}
          /\ UNCHANGED <<discovery, phase>>
      BY <1>3 DEF VerifyNext
    <2>2. step' = "idle" => finding' \in Verdict
      BY <2>1, BeginFinds
    <2> QED
      BY <2>1, <2>2, WriteBackFits
  <1>4. CASE VerifyStep
    <2>1. /\ Passing /\ VerificationNext
          /\ WriteBack(Head(queue))
          /\ queue' = IF step' = "idle" THEN Tail(queue) ELSE queue
          /\ UNCHANGED <<discovery, phase, probed>>
      BY <1>4 DEF VerifyStep
    <2>2. step # "idle" /\ (step' = "idle" => finding' \in Verdict)
      BY <2>1, VerificationFinds
    <2> QED
      BY <2>1, <2>2, WriteBackFits
  <1>5. CASE EndPass
    <2>1. /\ phase = "verify" /\ step = "idle" /\ queue = <<>> /\ aggregate
          /\ UNCHANGED <<verification, discovery, enabled, candidates, probed>>
      BY <1>5 DEF EndPass, OnceInv, Passing, InOrder
    <2>2. CASE StartPass("final")
      BY <2>1, <2>2, StartPassFits
    <2>3. CASE phase' = "extract" /\ UNCHANGED queue
      BY <2>1, <2>3 DEF OnceInv, ListFits, QueueFits, VerdictsStay, InOrder, Passing,
                        aggregate, verification
    <2> QED
      BY <1>5, <2>2, <2>3 DEF EndPass
  <1>6. CASE \E report \in Reports : Extract(report)
    BY <1>6, ExtractFits
  <1>7. CASE ExtractFails
    <2>1. /\ phase = "extract" /\ phase' = "chain" /\ UNCHANGED queue
          /\ UNCHANGED <<verification, discovery, enabled, candidates, probed>>
      BY <1>7 DEF ExtractFails
    <2> QED
      BY <2>1 DEF OnceInv, ListFits, QueueFits, VerdictsStay, InOrder, Passing,
                  aggregate, verification
  <1>8. CASE Finish
    BY <1>8, FinishFits
  <1>9. CASE UNCHANGED vars
    BY <1>9 DEF vars, resolver, verification, OnceInv, ListFits, QueueFits, VerdictsStay,
                InOrder, Passing, aggregate
  <1> QED
    BY <1>1, <1>2, <1>3, <1>4, <1>5, <1>6, <1>7, <1>8, <1>9 DEF Next

(* What is known of the list, the passes and the verdicts at any time.       *)
THEOREM OnceInvariant == Spec => []OnceInv
  <1>1. Init => OnceInv
    BY InitOnce
  <1>2. OnceInv /\ [Next]_vars => OnceInv'
    BY NextOnce
  <1> QED
    BY <1>1, <1>2, PTL DEF Spec

(* No candidate is verified a second time, whatever is reported, in which    *)
(* order and however often: verify_top_n takes unverified candidates only,   *)
(* and a URL that is reported again joins the candidate that has it.         *)
THEOREM NoneVerifiedTwice == Spec => VerifiedOnce
  <1> DEFINE Fresh == VerifyNext => candidates[Head(queue)].url \notin probed
  <1>1. OnceInv => Fresh
    <2> SUFFICES ASSUME OnceInv, VerifyNext PROVE candidates[Head(queue)].url \notin probed
      OBVIOUS
    <2>1. Passing /\ step = "idle"
      BY DEF VerifyNext
    <2>2. /\ queue \in Seq(DOMAIN candidates) /\ queue # <<>>
          /\ \A a \in DOMAIN queue : candidates[queue[a]].state = "Untested"
          /\ VerdictsStay
      BY <2>1 DEF OnceInv, Passing, QueueFits
    <2>3. Head(queue) \in DOMAIN candidates /\ candidates[Head(queue)].state = "Untested"
      BY <2>2
    <2> QED
      BY <2>1, <2>2, <2>3 DEF VerdictsStay
  <1> HIDE DEF Fresh
  <1>2. Spec => [][Fresh]_vars
    BY <1>1, OnceInvariant, PTL DEF Spec
  <1> QED
    BY <1>2 DEF Fresh, VerifiedOnce

(* The list is cut from below: sort_verified is a sort for every list, so    *)
(* truncation gives up nothing better than what it keeps.                    *)
THEOREM CutsFromBelow == Spec => CutFromBelow
  <1> DEFINE Cut == 
         Finish /\ enabled =>
          \A lost \in {candidates[k] : k \in DOMAIN candidates}
                      \ {candidates'[k] : k \in DOMAIN candidates'} :
              \A k \in DOMAIN candidates' :
                  /\ lost.state = "Usable" => candidates'[k].state = "Usable"
                  /\ lost.state = "Untested" =>
                         candidates'[k].state \notin {"RegionBlocked", "Drm", "Expired", "Failed"}
                  /\ lost.state = candidates'[k].state => lost.score <= candidates'[k].score
  <1>1. OnceInv => Cut
    <2> SUFFICES ASSUME OnceInv, Finish, enabled,
                        NEW l \in DOMAIN candidates,
                        candidates[l] \notin {candidates'[k] : k \in DOMAIN candidates'},
                        NEW k \in DOMAIN candidates'
                 PROVE  LET lost == candidates[l] IN
                        /\ lost.state = "Usable" => candidates'[k].state = "Usable"
                        /\ lost.state = "Untested" =>
                             candidates'[k].state \notin {"RegionBlocked", "Drm", "Expired", "Failed"}
                        /\ lost.state = candidates'[k].state => lost.score <= candidates'[k].score
      OBVIOUS
    <2> DEFINE sorted == sort_verified(candidates)
               S == DOMAIN candidates
    <2>1. candidates \in Seq(Candidate)
      BY DEF OnceInv
    <2>2. /\ sorted \in Seq(Candidate) /\ Len(sorted) = Len(candidates)
          /\ \E order \in [S -> S] :
                 /\ \A i \in S : sorted[i] = candidates[order[i]]
                 /\ \A i \in S : \E p \in S : order[p] = i
                 /\ \A p, q \in S : p < q => Better(candidates, order[p], order[q])
      BY <2>1, SortedByTier
    <2>3. candidates' = Truncated(sorted, truncate_max)
      BY DEF Finish
    <2> HIDE DEF sorted
    <2>4. PICK order \in [S -> S] :
                 /\ \A i \in S : sorted[i] = candidates[order[i]]
                 /\ \A i \in S : \E p \in S : order[p] = i
                 /\ \A p, q \in S : p < q => Better(candidates, order[p], order[q])
      BY <2>2
    <2>5. PICK p \in S : order[p] = l
      BY <2>4
    <2>6. \A i \in DOMAIN candidates' : i \in S /\ candidates'[i] = sorted[i]
      <3>1. truncate_max \in Nat
        BY ResolverAssumption
      <3>2. \A i \in DOMAIN candidates' : i \in DOMAIN sorted /\ candidates'[i] = sorted[i]
        BY <2>2, <2>3, <3>1, TruncatedOf
      <3>3. DOMAIN sorted = S
        BY <2>1, <2>2
      <3> QED
        BY <3>2, <3>3
    <2>7. S = 1..Len(candidates) /\ DOMAIN candidates' = 1..Len(candidates') /\ Len(candidates') \in Nat
      BY <2>1, <2>2, <2>3, TruncatedOf, ResolverAssumption
    <2>8. p \notin DOMAIN candidates'
      BY <2>4, <2>5, <2>6
    <2>9. k < p /\ k \in S
      BY <2>6, <2>7, <2>8
    <2>10. Better(candidates, order[k], l) /\ candidates'[k] = candidates[order[k]]
      BY <2>4, <2>5, <2>6, <2>9
    <2> DEFINE kept == candidates[order[k]]
               lost == candidates[l]
    <2>11. kept.state \in States /\ lost.state \in States /\ kept.score \in Int /\ lost.score \in Int
      <3>1. kept \in Candidate /\ lost \in Candidate
        BY <2>1, <2>4, <2>9
      <3> HIDE DEF kept, lost
      <3> QED
        BY <3>1 DEF Candidate
    <2>12. /\ state_tier(kept.state) <= state_tier(lost.state)
           /\ state_tier(kept.state) = state_tier(lost.state) => lost.score <= kept.score
      BY <2>10, <2>11, TiersAreNumbers DEF Better, Scored
    <2> HIDE DEF kept, lost
    <2>13. /\ lost.state = "Usable" => kept.state = "Usable"
           /\ lost.state = "Untested" =>
                 kept.state \notin {"RegionBlocked", "Drm", "Expired", "Failed"}
           /\ lost.state = kept.state => lost.score <= kept.score
      BY <2>11, <2>12 DEF States, state_tier
    <2> QED
      BY <2>10, <2>13 DEF kept, lost
  <1> HIDE DEF Cut
  <1>2. Spec => [][Cut]_vars
    BY <1>1, OnceInvariant, PTL DEF Spec
  <1> QED
    BY <1>2, PTL DEF Cut, CutFromBelow
=============================================================================
