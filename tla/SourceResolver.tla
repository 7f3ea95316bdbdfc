---------------------------- MODULE SourceResolver ----------------------------
(***************************************************************************)
(* One run of SourceResolver::resolve (extractors/mod.rs) with the         *)
(* verification passes of extractors/verify.rs: the chain of a discovery   *)
(* mode is walked, candidates are merged by URL, the best unverified ones  *)
(* are verified before every expensive extractor and once more at the end, *)
(* and the chain ends early once a candidate is usable.                    *)
(*                                                                         *)
(* What an extractor reports comes from the constant set Reports; some     *)
(* extractors verify by themselves and report candidates with a state.     *)
(***************************************************************************)
EXTENDS CandidateVerification, Integers, Sequences, FiniteSets, Functions

CONSTANTS
    Applicable,     \* sets of extractors whose matches() may hold together
    Reports,        \* what an extractor may report: sequences of candidates
    top_n,          \* candidates verified in one pass
    truncate_max,   \* candidates kept in the outcome
    NoExtractor

Extractors == {"direct", "hanime1", "mac_cms", "generic", "yt_dlp", "you_get",
               "lux", "streamlink", "browser_probe"}
DiscoveryModes == {"Direct", "External", "Browser", "Auto"}

\* A reported candidate: its URL, score and state beside what is verified.
Reported(c) ==
    /\ [kind |-> c.kind, listed |-> c.listed, valid |-> c.valid, lapsed |-> c.lapsed]
           \in Subject
    /\ c.state \in States
    /\ c.score \in Int

ASSUME ResolverAssumption ==
    /\ \A set \in Applicable : set \subseteq Extractors
    /\ \A report \in Reports :
          /\ report \in Seq(Range(report))
          /\ \A k \in DOMAIN report : Reported(report[k])
    /\ top_n \in Nat \ {0}
    /\ truncate_max \in Nat \ {0}

VARIABLES
    discovery,    \* the job's discovery mode
    enabled,      \* RK_VERIFY_ENABLED
    matching,     \* the extractors of the mode's chain that match
    rest,         \* the extractors that match and are still to be tried
    phase,        \* "chain", "verify", "extract", "final" or "done"
    queue,        \* positions still to be verified in this pass
    candidates,
    chain,        \* the extractors tried
    winner,       \* the first of them to report a candidate
    probed        \* history: URLs verified by this run

resolver == <<discovery, enabled, matching, rest, phase, queue, candidates, chain, winner, probed>>
vars == <<verification, resolver>>

-----------------------------------------------------------------------------
for_discovery(mode) ==
    CASE mode = "Direct" -> <<"direct">>
      [] mode = "External" -> <<"yt_dlp">>
      [] mode = "Browser" -> <<"browser_probe">>
      [] mode = "Auto" -> <<"direct", "hanime1", "mac_cms", "generic", "yt_dlp",
                            "you_get", "lux", "streamlink", "browser_probe">>

is_expensive_extractor(name) ==
    name \in {"browser_probe", "yt_dlp", "you_get", "lux", "streamlink"}

Matching(mode, set) == SelectSeq(for_discovery(mode), LAMBDA name : name \in set)

aggregate == discovery = "Auto"

is_unverified(c) == c.state = "Untested"

has_usable(cands) == \E k \in DOMAIN cands : cands[k].state = "Usable"

state_tierUntestedLast(state) ==
    CASE state = "Usable" -> 0
      [] state = "NeedsProfile" -> 1
      [] state = "SuspectAd" -> 2
      [] state = "RegionBlocked" -> 4
      [] state = "Drm" -> 5
      [] state = "Expired" -> 6
      [] state = "Failed" -> 7
      [] state = "Untested" -> 8

state_tier(state) ==
    CASE state = "Usable" -> 0
      [] state = "NeedsProfile" -> 1
      [] state = "SuspectAd" -> 2
      [] state = "Untested" -> 3
      [] state = "RegionBlocked" -> 4
      [] state = "Drm" -> 5
      [] state = "Expired" -> 6
      [] state = "Failed" -> 7

Truncated(seq, n) == SubSeq(seq, 1, IF Len(seq) < n THEN Len(seq) ELSE n)

\* The elements of S as R orders them, which is strict and total on S: the
\* place of each is given by the number of those before it.
Ordered(S, R) ==
    [p \in 1..Cardinality(S) |->
        CHOOSE i \in S : Cardinality({j \in S : <<j, i>> \in R}) = p - 1]

\* Positions by falling score, and in order where scores are equal.
Scored(cands, i, j) ==
    \/ cands[i].score > cands[j].score
    \/ cands[i].score = cands[j].score /\ i < j

\* The positions verify_top_n verifies.
TopUnverified(cands) ==
    LET open == {k \in DOMAIN cands : is_unverified(cands[k])}
        before == {pair \in open \X open : Scored(cands, pair[1], pair[2])}
    IN  Truncated(Ordered(open, before), top_n)

sort_verified(cands) ==
    LET positions == DOMAIN cands
        Before(i, j) ==
            IF enabled /\ state_tier(cands[i].state) # state_tier(cands[j].state)
            THEN state_tier(cands[i].state) < state_tier(cands[j].state)
            ELSE Scored(cands, i, j)
        before == {pair \in positions \X positions : Before(pair[1], pair[2])}
        order == Ordered(positions, before)
    IN  [k \in positions |-> cands[order[k]]]

MergeNewcomer(cands, c) ==
    LET known == {k \in DOMAIN cands : cands[k].url = c.url}
    IN  IF known = {} THEN Append(cands, c)
        ELSE [cands EXCEPT ![CHOOSE k \in known : TRUE] = c]

\* A candidate of a report joins the list; a URL that is known only
\* strengthens the candidate that has it.
Merge(cands, c) ==
    LET known == {k \in DOMAIN cands : cands[k].url = c.url}
    IN  IF known = {} THEN Append(cands, c)
        ELSE LET k == CHOOSE k \in known : TRUE
             IN  [cands EXCEPT ![k].evidence = @ + 1,
                               ![k].score = (IF @ < c.score THEN c.score ELSE @) + 5]

\* A candidate as an extractor hands it over.
Arrived(c) == [url |-> c.url, kind |-> c.kind, listed |-> c.listed, valid |-> c.valid,
               lapsed |-> c.lapsed, score |-> c.score, state |-> c.state,
               evidence |-> 1, note |-> "none", failure |-> FALSE]

\* The list after n of the arrived candidates have joined it.
Joined(cands, arrived) ==
    LET after[n \in 0..Len(arrived)] ==
            IF n = 0 THEN cands ELSE Merge(after[n - 1], arrived[n])
    IN  after

Gathered(report) ==
    LET arrived == [k \in DOMAIN report |-> Arrived(report[k])]
    IN  IF aggregate THEN Joined(candidates, arrived)[Len(arrived)] ELSE arrived

\* The extractors of the explicit modes report a URL once (the direct one has
\* one candidate, parse_yt_dlp_json a set and the sidecar a map of the URLs
\* it has seen); those of the automatic mode may repeat one.
NamesOnce(report) ==
    \A i, j \in DOMAIN report : report[i].url = report[j].url => i = j

-----------------------------------------------------------------------------
Init ==
    /\ VerificationInit
    /\ discovery \in DiscoveryModes
    /\ enabled \in BOOLEAN
    /\ \E set \in Applicable : matching = Matching(discovery, set)
    /\ rest = matching
    /\ phase = "chain" /\ queue = <<>> /\ candidates = <<>>
    /\ chain = <<>> /\ winner = NoExtractor /\ probed = {}

\* verify_top_n chooses its candidates; it does nothing when disabled.
StartPass(next) ==
    /\ phase' = next
    /\ queue' = IF enabled THEN TopUnverified(candidates) ELSE <<>>

\* The next extractor of the chain; an expensive one waits for a pass.
NextExtractor ==
    /\ phase = "chain" /\ rest # <<>>
    /\ IF aggregate /\ enabled /\ is_expensive_extractor(Head(rest))
       THEN StartPass("verify")
       ELSE phase' = "extract" /\ UNCHANGED queue
    /\ UNCHANGED <<verification, discovery, enabled, matching, rest, candidates, chain, winner, probed>>

\* The end of the chain: the final pass.
EndChain ==
    /\ phase = "chain" /\ rest = <<>>
    /\ StartPass("final")
    /\ UNCHANGED <<verification, discovery, enabled, matching, rest, candidates, chain, winner, probed>>

\* What a verification finds is written back to its candidate.
WriteBack(k) ==
    candidates' = IF step' = "idle"
                  THEN [candidates EXCEPT ![k].state = finding'.state,
                                          ![k].note = finding'.note,
                                          ![k].failure = finding'.failure]
                  ELSE candidates

Passing == phase \in {"verify", "final"} /\ queue # <<>>

VerifyNext ==
    /\ Passing /\ step = "idle"
    /\ Begin(candidates[Head(queue)])
    /\ WriteBack(Head(queue))
    /\ queue' = IF step' = "idle" THEN Tail(queue) ELSE queue
    /\ probed' = probed \union {candidates[Head(queue)].url}
    /\ UNCHANGED <<discovery, enabled, matching, rest, phase, chain, winner>>

VerifyStep ==
    /\ Passing
    /\ VerificationNext
    /\ WriteBack(Head(queue))
    /\ queue' = IF step' = "idle" THEN Tail(queue) ELSE queue
    /\ UNCHANGED <<discovery, enabled, matching, rest, phase, chain, winner, probed>>

EndPassAgain ==
    /\ phase = "verify" /\ queue = <<>>
    /\ IF has_usable(candidates)
       THEN StartPass("final") /\ rest' = <<>>
       ELSE phase' = "chain" /\ UNCHANGED <<queue, rest>>
    /\ UNCHANGED <<verification, discovery, enabled, matching, candidates, chain, winner, probed>>

\* The pass before an expensive extractor is over: with a usable candidate the
\* chain is, too.
EndPass ==
    /\ phase = "verify" /\ queue = <<>>
    /\ IF has_usable(candidates)
       THEN StartPass("final") /\ rest' = <<>>
       ELSE phase' = "extract" /\ UNCHANGED <<queue, rest>>
    /\ UNCHANGED <<verification, discovery, enabled, matching, candidates, chain, winner, probed>>

\* The extractor returns; an explicit mode keeps what the first one reports.
Extract(report) ==
    /\ phase = "extract"
    /\ aggregate \/ NamesOnce(report)
    /\ phase' = "chain"
    /\ chain' = Append(chain, Head(rest))
    /\ rest' = IF report # <<>> /\ ~aggregate THEN <<>> ELSE Tail(rest)
    /\ winner' = IF report # <<>> /\ winner = NoExtractor THEN Head(rest) ELSE winner
    /\ candidates' = IF report = <<>> THEN candidates ELSE Gathered(report)
    /\ UNCHANGED <<verification, discovery, enabled, matching, queue, probed>>

\* An extractor that fails is recorded, and the chain goes on.
ExtractFails ==
    /\ phase = "extract"
    /\ phase' = "chain"
    /\ chain' = Append(chain, Head(rest))
    /\ rest' = Tail(rest)
    /\ UNCHANGED <<verification, discovery, enabled, matching, queue, candidates, winner, probed>>

Finish ==
    /\ phase = "final" /\ queue = <<>>
    /\ phase' = "done"
    /\ candidates' = Truncated(sort_verified(candidates), truncate_max)
    /\ UNCHANGED <<verification, discovery, enabled, matching, rest, queue, chain, winner, probed>>

Next ==
    \/ NextExtractor \/ EndChain
    \/ VerifyNext \/ VerifyStep \/ EndPass
    \/ \E report \in Reports : Extract(report)
    \/ ExtractFails
    \/ Finish

\* Every request of a probe and every extractor ends in a time of its own.
Spec == Init /\ [][Next]_vars /\ WF_vars(Next)

-----------------------------------------------------------------------------
(* Properties *)

\* No candidate is verified a second time by a later pass, also not when
\* another extractor reports its URL again.
VerifiedOnce == [][VerifyNext => candidates[Head(queue)].url \notin probed]_vars

\* The list is cut from below: a usable candidate goes only where usable ones
\* fill the list, and a candidate found bad is not kept in the place of one
\* that was not verified.
CutFromBelow ==
    [][Finish /\ enabled =>
          \A lost \in {candidates[k] : k \in DOMAIN candidates}
                      \ {candidates'[k] : k \in DOMAIN candidates'} :
              \A k \in DOMAIN candidates' :
                  /\ lost.state = "Usable" => candidates'[k].state = "Usable"
                  /\ lost.state = "Untested" =>
                         candidates'[k].state \notin {"RegionBlocked", "Drm", "Expired", "Failed"}
                  /\ lost.state = candidates'[k].state => lost.score <= candidates'[k].score]_vars

\* The resolution ends, whatever the origins answer and however often they
\* redirect.
Resolves == <>(phase = "done")
=============================================================================
