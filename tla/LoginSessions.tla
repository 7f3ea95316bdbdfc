--------------------------- MODULE LoginSessions ---------------------------
(***************************************************************************)
(* Remote login sessions.  The browser sidecar keeps a map of open pages,  *)
(* the API a map of who owns them.  A handler of the API checks the owner, *)
(* calls the sidecar over HTTP and updates its map by the answer; a call   *)
(* the handler gave up on, because it timed out or its client went away,   *)
(* goes on in the sidecar.  Either process may restart and lose its map.   *)
(*                                                                         *)
(* A call occupies a slot until both sides are done with it.  What is      *)
(* shown on a page, and the profile it is opened in, are left out.         *)
(***************************************************************************)

CONSTANTS
    Sessions,   \* ids the sidecar may draw
    NoSession,
    Calls,      \* slots of calls from the API to the sidecar
    Keys,       \* API keys with allow_login_profile
    Admins,     \* those of them that are administrators' keys
    NoKey,
    Jobs,       \* jobs that have been submitted
    NoJob,      \* the administrator's routes
    JobOwner    \* jobs.requester_key_id

ASSUME SessionAssumption ==
    /\ NoSession \notin Sessions
    /\ NoJob \notin Jobs
    /\ NoKey \notin Keys
    /\ Admins \subseteq Keys
    /\ JobOwner \in [Jobs -> Keys]

VARIABLES
    page,      \* sidecar: loginSessions; "overdue" is an entry past expiresAt
    work,      \* the call of each slot, and how far the sidecar has got with it
    waiting,   \* slots whose handler still waits for the answer
    owner,     \* API: browser_login_sessions
    starter,   \* auxiliary: who each session was opened for
    stale,     \* auxiliary: sessions reported missing to a handler that did not notice
    disturbed  \* auxiliary: an answer, a page or a process was lost

sessionVars == <<page, work, waiting, owner, starter, stale, disturbed>>

(* "click" is click, move, mouse-down, mouse-up and wheel, whose routes wrap *)
(* an error of the page; "view" is snapshot, type, insert-text, press,       *)
(* navigate and resize, whose routes leave it to Fastify.                    *)
UseOps == {"click", "view", "close"}

Party   == [key : Keys \cup {NoKey}, job : Jobs \cup {NoJob}]
Nobody  == [key |-> NoKey, job |-> NoJob]
NoWork  == [pc |-> "idle", op |-> "start", s |-> NoSession, by |-> Nobody]
Replies == {"ok", "missing", "failed"}

SessionsInit ==
    /\ page = [s \in Sessions |-> "none"]
    /\ work = [r \in Calls |-> NoWork]
    /\ waiting = {}
    /\ owner = [s \in Sessions |-> Nobody]
    /\ starter = [s \in Sessions |-> Nobody]
    /\ stale = {}
    /\ disturbed = FALSE

At(r, op, p) == work[r].pc = p /\ work[r].op = op
Goto(r, p) == work' = [work EXCEPT ![r].pc = p]
Known(s) == owner[s] # Nobody

----------------------------------------------------------------------------
(* The API's handlers up to the call.  A job's route asks for access to the  *)
(* job first, an administrator's route for an administrator's key.           *)

MayRoute(by) == by.key \in Admins \/ (by.job # NoJob /\ JobOwner[by.job] = by.key)

Send(r, op, s, by) ==
    /\ work[r] = NoWork
    /\ MayRoute(by)
    /\ work' = [work EXCEPT ![r] = [pc |-> "sent", op |-> op, s |-> s, by |-> by]]
    /\ waiting' = waiting \cup {r}
    /\ UNCHANGED <<page, owner, starter, stale, disturbed>>

Start(r, by) == Send(r, "start", NoSession, by)

(* Fault: the job is checked, and whose session it is, is not.               *)
UseWithoutOwner(r, op, s, by) ==
    /\ Known(s)
    /\ by.job # NoJob => owner[s].job = by.job
    /\ Send(r, op, s, by)

(* ensure_browser_login_session_access, then the call.                       *)
Use(r, op, s, by) ==
    /\ Known(s)
    /\ by.job # NoJob => owner[s].job = by.job
    /\ by.key \in Admins \/ owner[s].key = by.key
    /\ Send(r, op, s, by)

----------------------------------------------------------------------------
(* The sidecar.                                                              *)

ApiKeeps == UNCHANGED <<waiting, owner, stale>>

(* startLoginSession: a page, an entry under a new id, then the navigation.  *)
OpenPage(r, s) ==
    /\ At(r, "start", "sent")
    /\ page[s] = "none"
    /\ page' = [page EXCEPT ![s] = "open"]
    /\ starter' = [starter EXCEPT ![s] = work[r].by]
    /\ work' = [work EXCEPT ![r].pc = "acting", ![r].s = s]
    /\ UNCHANGED disturbed
    /\ ApiKeeps

(* requireLoginSession at the head of an operation and again in the snapshot *)
(* that ends it: an overdue entry is deleted by the call that meets it.      *)
Require(r) ==
    LET s == work[r].s IN
    /\ s # NoSession
    /\ work[r].pc = "acting" \/ At(r, "click", "sent") \/ At(r, "view", "sent")
    /\ page' = [page EXCEPT ![s] = IF @ = "overdue" THEN "gone" ELSE @]
    /\ Goto(r, IF page[s] # "open" THEN "missing" ELSE IF work[r].pc = "sent" THEN "acting" ELSE "ok")
    /\ UNCHANGED <<starter, disturbed>>
    /\ ApiKeeps

(* loginClose: never fails, whatever the map says of the session.            *)
ClosePage(r) ==
    /\ At(r, "close", "sent")
    /\ page' = [page EXCEPT ![work[r].s] = "gone"]
    /\ Goto(r, "ok")
    /\ UNCHANGED <<starter, disturbed>>
    /\ ApiKeeps

(* The call does not get through, or the browser or the page fails under it; *)
(* an entry that was made stays.                                             *)
CallFails(r) ==
    /\ work[r].pc \in {"sent", "acting"}
    /\ Goto(r, "failed")
    /\ disturbed' = TRUE
    /\ UNCHANGED <<page, starter>>
    /\ ApiKeeps

(* Half an hour after it was opened; nothing renews a session.               *)
Overdue(s) ==
    /\ page[s] = "open"
    /\ page' = [page EXCEPT ![s] = "overdue"]
    /\ UNCHANGED <<work, starter, disturbed>>
    /\ ApiKeeps

SidecarRestart ==
    /\ page' = [s \in Sessions |-> IF page[s] = "none" THEN "none" ELSE "gone"]
    /\ work' = [r \in Calls |-> IF work[r] = NoWork THEN NoWork ELSE [work[r] EXCEPT !.pc = "failed"]]
    /\ disturbed' = TRUE
    /\ UNCHANGED starter
    /\ ApiKeeps

----------------------------------------------------------------------------
(* The API's handlers after the call.                                        *)

Answered(r, op) == r \in waiting /\ work[r].op = op /\ work[r].pc \in Replies
Finish(r) ==
    /\ work' = [work EXCEPT ![r] = NoWork]
    /\ waiting' = waiting \ {r}
    /\ UNCHANGED <<page, starter, disturbed>>
Forget(s) == owner' = [owner EXCEPT ![s] = Nobody]

(* Fault: the owner is entered by the administrator's route only.            *)
StartAnsweredForAdmins(r) ==
    /\ Answered(r, "start")
    /\ owner' = IF work[r].pc = "ok" /\ work[r].by.job = NoJob
                THEN [owner EXCEPT ![work[r].s] = work[r].by] ELSE owner
    /\ UNCHANGED stale
    /\ Finish(r)

(* The owner is entered; the route of a job enters it twice, the second time *)
(* with the job, before anybody is told the id.                              *)
StartAnswered(r) ==
    /\ Answered(r, "start")
    /\ owner' = IF work[r].pc = "ok" THEN [owner EXCEPT ![work[r].s] = work[r].by] ELSE owner
    /\ UNCHANGED stale
    /\ Finish(r)

(* forget_missing_login_session reads the words of the answer: the routes    *)
(* that wrap errors carry them in "error" ...                                *)
ClickAnswered(r) ==
    /\ Answered(r, "click")
    /\ IF work[r].pc = "missing" THEN Forget(work[r].s) ELSE UNCHANGED owner
    /\ UNCHANGED stale
    /\ Finish(r)

(* ... and an error Fastify reports has "Internal Server Error" there.       *)
ViewAnswered(r) ==
    /\ Answered(r, "view")
    /\ stale' = IF work[r].pc = "missing" THEN stale \cup {work[r].s} ELSE stale
    /\ UNCHANGED owner
    /\ Finish(r)

(* The owner is removed whether the close succeeded or not.                  *)
CloseAnswered(r) ==
    /\ Answered(r, "close")
    /\ Forget(work[r].s)
    /\ UNCHANGED stale
    /\ Finish(r)

(* The handler stops waiting: at the client's timeout, upon which a close    *)
(* still removes the owner, or because its own connection dropped.           *)
GiveUp(r) ==
    /\ r \in waiting
    /\ waiting' = waiting \ {r}
    /\ UNCHANGED owner \/ (work[r].op = "close" /\ Forget(work[r].s))
    /\ disturbed' = TRUE
    /\ UNCHANGED <<page, work, starter, stale>>

ApiRestart ==
    /\ owner' = [s \in Sessions |-> Nobody]
    /\ waiting' = {}
    /\ disturbed' = TRUE
    /\ UNCHANGED <<page, work, starter, stale>>

(* Nobody waits for the answer any more.                                     *)
Discard(r) ==
    /\ r \notin waiting
    /\ work[r].pc \in Replies
    /\ work' = [work EXCEPT ![r] = NoWork]
    /\ UNCHANGED <<page, waiting, owner, starter, stale, disturbed>>

SessionsNext ==
    \/ \E r \in Calls, by \in [key : Keys, job : Jobs \cup {NoJob}] :
          \/ Start(r, by)
          \/ \E op \in UseOps, s \in Sessions : Use(r, op, s, by)
    \/ \E r \in Calls : \/ \E s \in Sessions : OpenPage(r, s)
                        \/ Require(r) \/ ClosePage(r) \/ CallFails(r)
                        \/ StartAnswered(r) \/ ClickAnswered(r) \/ ViewAnswered(r) \/ CloseAnswered(r)
                        \/ GiveUp(r) \/ Discard(r)
    \/ \E s \in Sessions : Overdue(s)
    \/ SidecarRestart
    \/ ApiRestart

SessionsSpec == SessionsInit /\ [][SessionsNext]_sessionVars

----------------------------------------------------------------------------
(* Properties.                                                               *)

(* The shape of the two maps and of the calls between them.                  *)
SessionsTypeOK ==
    /\ page \in [Sessions -> {"none", "open", "overdue", "gone"}]
    /\ work \in [Calls -> [pc : {"idle", "sent", "acting"} \cup Replies, op : UseOps \cup {"start"},
                           s : Sessions \cup {NoSession}, by : Party]]
    /\ waiting \subseteq Calls
    /\ owner \in [Sessions -> Party]
    /\ starter \in [Sessions -> Party]
    /\ stale \subseteq Sessions
    /\ disturbed \in BOOLEAN

(* As long as nothing is lost the two maps agree up to the calls under way:  *)
(* an open page has an owner who can close it, or is being opened; an owner's*)
(* session is open, or a handler is about to learn that it is not, or one    *)
(* was told in words it does not know.                                       *)
Concerns(r, s) == r \in waiting /\ work[r].s = s

MapsAgree ==
    ~disturbed =>
        \A s \in Sessions :
            /\ page[s] \in {"open", "overdue"}
                   => Known(s) \/ (\E r \in Calls : Concerns(r, s) /\ work[r].op = "start")
            /\ Known(s) => \/ page[s] \in {"open", "overdue"} \/ s \in stale
                           \/ \E r \in Calls : Concerns(r, s) /\ work[r].pc \in {"ok", "missing"}

(* Whatever is lost, and whatever answers arrive late: what is done to a     *)
(* page is done for the key it was opened for or for an administrator, and   *)
(* through a job's route only to the sessions of that job.                   *)
StarterOnly ==
    \A r \in Calls :
        work[r].op \in UseOps =>
            /\ work[r].by.key \in Admins \cup {starter[work[r].s].key}
            /\ work[r].by.job \in {NoJob, starter[work[r].s].job}
=============================================================================
