--------------------------- MODULE SessionsProofs ---------------------------
(***************************************************************************)
(* Theorems about LoginSessions and BrowserContexts, for any number of     *)
(* sessions, calls, keys, jobs, profiles and browsers: a page is used by   *)
(* its starter only, the two maps agree as long as nothing is lost, one    *)
(* browser runs on a profile, and all who work in the profile share it.    *)
(***************************************************************************)
EXTENDS BrowserContexts, TLAPS

(* A call that opened a page.                                                *)
Opened(r) == work[r].op = "start" /\ work[r].s # NoSession

(* What is known of a session is what it was started with, and nothing       *)
(* refers to an id that was not drawn.                                       *)
OwnerInv ==
    /\ SessionsTypeOK
    /\ \A s \in Sessions : Known(s) => owner[s] = starter[s]
    /\ \A s \in Sessions : page[s] = "none" => ~Known(s) /\ \A r \in Calls : work[r].s # s
    /\ \A r \in Calls : work[r] # NoWork => work[r].by.key \in Keys
    /\ \A r \in Calls : Opened(r) => starter[work[r].s] = work[r].by
    /\ \A r \in Calls : work[r].op = "start" /\ work[r].pc \in {"acting", "ok"} => Opened(r)
    /\ \A r \in Calls : work[r].op \in UseOps => work[r].s \in Sessions
    /\ StarterOnly

(* Who a route was called by, and for which job.                             *)
CallingParty == [key : Keys, job : Jobs \cup {NoJob}]

(* What a slot holds.                                                        *)
WorkRec == [pc : {"idle", "sent", "acting"} \cup Replies, op : UseOps \cup {"start"},
            s : Sessions \cup {NoSession}, by : Party]

(* The values the slots and the owners start with are of their types.       *)
LEMMA NobodyIsParty == Nobody \in Party /\ NoWork \in WorkRec
    BY DEF Nobody, Party, NoWork, Replies, WorkRec

(* A slot stays one when the call in it gets on.                            *)
LEMMA PcStep ==
    ASSUME NEW w \in WorkRec, NEW p \in {"acting"} \cup Replies
    PROVE [w EXCEPT !.pc = p] \in WorkRec
    BY DEF WorkRec

(* No session has been drawn when the system starts.                        *)
LEMMA OwnerInit == SessionsInit => OwnerInv
<1> SUFFICES ASSUME SessionsInit PROVE OwnerInv
    OBVIOUS
<1>1. SessionsTypeOK
    BY NobodyIsParty DEF SessionsInit, SessionsTypeOK, WorkRec
<1>2. QED
    BY <1>1, SessionAssumption
    DEF SessionsInit, OwnerInv, Known, Opened, StarterOnly, NoWork, UseOps

(* An id is drawn when nothing refers to it, its owner is entered from the  *)
(* call that opened it, and a call to it is made by its owner's key or an   *)
(* administrator's: every step keeps OwnerInv.                              *)
LEMMA OwnerStep == OwnerInv /\ [SessionsNext]_sessionVars => OwnerInv'
<1> SUFFICES ASSUME OwnerInv, [SessionsNext]_sessionVars PROVE OwnerInv'
    OBVIOUS
<1> USE SessionAssumption, NobodyIsParty
<1>1. ASSUME NEW r \in Calls, NEW by \in CallingParty, Start(r, by) PROVE OwnerInv'
  <2>1. SessionsTypeOK'
    BY <1>1
    DEF Start, Send, OwnerInv, SessionsTypeOK, WorkRec, Party, CallingParty, Replies, UseOps
  <2>2. QED
    BY <1>1, <2>1
    DEF Start, Send, OwnerInv, SessionsTypeOK, Opened, Known, StarterOnly, UseOps, NoWork,
        Replies, Nobody, CallingParty, Party
<1>2. ASSUME NEW r \in Calls, NEW by \in CallingParty, NEW op \in UseOps, NEW s \in Sessions, Use(r, op, s, by)
      PROVE OwnerInv'
  <2>1. SessionsTypeOK'
    BY <1>2
    DEF Use, Send, OwnerInv, SessionsTypeOK, WorkRec, Party, CallingParty, Replies, UseOps
  <2>2. QED
    BY <1>2, <2>1
    DEF Use, Send, OwnerInv, SessionsTypeOK, Opened, Known, StarterOnly, UseOps, NoWork,
        Replies, Nobody, CallingParty, Party
<1>3. ASSUME NEW r \in Calls, NEW s \in Sessions, OpenPage(r, s) PROVE OwnerInv'
  <2>1. SessionsTypeOK'
    BY <1>3
    DEF OpenPage, ApiKeeps, At, OwnerInv, SessionsTypeOK, WorkRec, Party, CallingParty,
        Replies, UseOps
  <2>2. QED
    BY <1>3, <2>1
    DEF OpenPage, ApiKeeps, At, OwnerInv, SessionsTypeOK, Opened, Known, StarterOnly, UseOps,
        NoWork, Replies, Nobody, CallingParty, Party
<1>4. ASSUME NEW r \in Calls, Require(r) PROVE OwnerInv'
  <2>1. PICK p \in {"missing", "acting", "ok"} : work' = [work EXCEPT ![r].pc = p]
    BY <1>4 DEF Require, Goto
  <2>2. SessionsTypeOK'
    BY <1>4, <2>1 DEF Require, ApiKeeps, OwnerInv, SessionsTypeOK, Replies
  <2>3. \A s \in Sessions : page[s] = "none" <=> page'[s] = "none"
    BY <1>4 DEF Require, OwnerInv, SessionsTypeOK
  <2>4. work[r].s # NoSession /\ UNCHANGED <<owner, starter>>
    BY <1>4 DEF Require, ApiKeeps
  <2>5. QED
    BY <2>1, <2>2, <2>3, <2>4
    DEF OwnerInv, SessionsTypeOK, Opened, Known, StarterOnly, UseOps, NoWork, Replies, Nobody
<1>5. ASSUME NEW r \in Calls, ClosePage(r) PROVE OwnerInv'
  <2>1. SessionsTypeOK'
    BY <1>5
    DEF ClosePage, ApiKeeps, Goto, At, OwnerInv, SessionsTypeOK, WorkRec, Party, CallingParty,
        Replies, UseOps
  <2>2. QED
    BY <1>5, <2>1
    DEF ClosePage, ApiKeeps, Goto, At, OwnerInv, SessionsTypeOK, Opened, Known, StarterOnly,
        UseOps, NoWork, Replies, Nobody, CallingParty, Party
<1>6. ASSUME NEW r \in Calls, CallFails(r) PROVE OwnerInv'
  <2>1. SessionsTypeOK'
    BY <1>6 DEF CallFails, ApiKeeps, Goto, OwnerInv, SessionsTypeOK, Replies
  <2>2. QED
    BY <1>6, <2>1
    DEF CallFails, ApiKeeps, Goto, OwnerInv, SessionsTypeOK, Opened, Known, StarterOnly,
        UseOps, NoWork, Replies, Nobody, CallingParty, Party
<1>7. ASSUME NEW r \in Calls, StartAnswered(r) PROVE OwnerInv'
  <2>1. SessionsTypeOK'
    BY <1>7
    DEF StartAnswered, Finish, Answered, OwnerInv, SessionsTypeOK, WorkRec, Party,
        CallingParty, Replies, UseOps
  <2>2. QED
    BY <1>7, <2>1
    DEF StartAnswered, Finish, Answered, OwnerInv, SessionsTypeOK, Opened, Known, StarterOnly,
        UseOps, NoWork, Replies, Nobody, CallingParty, Party
<1>8. ASSUME NEW r \in Calls, ClickAnswered(r) PROVE OwnerInv'
  <2>1. SessionsTypeOK'
    BY <1>8
    DEF ClickAnswered, Finish, Forget, Answered, OwnerInv, SessionsTypeOK, WorkRec, Party,
        CallingParty, Replies, UseOps
  <2>2. QED
    BY <1>8, <2>1
    DEF ClickAnswered, Finish, Forget, Answered, OwnerInv, SessionsTypeOK, Opened, Known,
        StarterOnly, UseOps, NoWork, Replies, Nobody, CallingParty, Party
<1>9. ASSUME NEW r \in Calls, ViewAnswered(r) PROVE OwnerInv'
  <2>1. SessionsTypeOK'
    BY <1>9
    DEF ViewAnswered, Finish, Answered, OwnerInv, SessionsTypeOK, WorkRec, Party,
        CallingParty, Replies, UseOps
  <2>2. QED
    BY <1>9, <2>1
    DEF ViewAnswered, Finish, Answered, OwnerInv, SessionsTypeOK, Opened, Known, StarterOnly,
        UseOps, NoWork, Replies, Nobody, CallingParty, Party
<1>10. ASSUME NEW r \in Calls, CloseAnswered(r) PROVE OwnerInv'
  <2>1. SessionsTypeOK'
    BY <1>10
    DEF CloseAnswered, Finish, Forget, Answered, OwnerInv, SessionsTypeOK, WorkRec, Party,
        CallingParty, Replies, UseOps
  <2>2. QED
    BY <1>10, <2>1
    DEF CloseAnswered, Finish, Forget, Answered, OwnerInv, SessionsTypeOK, Opened, Known,
        StarterOnly, UseOps, NoWork, Replies, Nobody, CallingParty, Party
<1>11. ASSUME NEW r \in Calls, GiveUp(r) PROVE OwnerInv'
  <2>1. SessionsTypeOK'
    BY <1>11
    DEF GiveUp, Forget, OwnerInv, SessionsTypeOK, WorkRec, Party, CallingParty, Replies, UseOps
  <2>2. QED
    BY <1>11, <2>1
    DEF GiveUp, Forget, OwnerInv, SessionsTypeOK, Opened, Known, StarterOnly, UseOps, NoWork,
        Replies, Nobody, CallingParty, Party
<1>12. ASSUME NEW r \in Calls, Discard(r) PROVE OwnerInv'
  <2>1. SessionsTypeOK'
    BY <1>12
    DEF Discard, OwnerInv, SessionsTypeOK, WorkRec, Party, CallingParty, Replies, UseOps
  <2>2. QED
    BY <1>12, <2>1
    DEF Discard, OwnerInv, SessionsTypeOK, Opened, Known, StarterOnly, UseOps, NoWork,
        Replies, Nobody, CallingParty, Party
<1>13. ASSUME NEW s \in Sessions, Overdue(s) PROVE OwnerInv'
  <2>1. SessionsTypeOK'
    BY <1>13
    DEF Overdue, ApiKeeps, OwnerInv, SessionsTypeOK, WorkRec, Party, CallingParty, Replies,
        UseOps
  <2>2. QED
    BY <1>13, <2>1
    DEF Overdue, ApiKeeps, OwnerInv, SessionsTypeOK, Opened, Known, StarterOnly, UseOps,
        NoWork, Replies, Nobody, CallingParty, Party
<1>14. ASSUME SidecarRestart PROVE OwnerInv'
  <2>1. SessionsTypeOK'
    <3>1. \A r \in Calls : work'[r] \in WorkRec
      BY <1>14, PcStep DEF SidecarRestart, OwnerInv, SessionsTypeOK, WorkRec, Replies
    <3>2. work' \in [Calls -> WorkRec]
      BY <1>14, <3>1 DEF SidecarRestart
    <3>3. QED
      BY <1>14, <3>2 DEF SidecarRestart, ApiKeeps, OwnerInv, SessionsTypeOK, WorkRec
  <2>2. QED
    BY <1>14, <2>1
    DEF SidecarRestart, ApiKeeps, OwnerInv, SessionsTypeOK, Opened, Known, StarterOnly,
        UseOps, NoWork, Replies, Nobody, CallingParty, Party
<1>15. ASSUME ApiRestart PROVE OwnerInv'
  <2>1. SessionsTypeOK'
    BY <1>15
    DEF ApiRestart, OwnerInv, SessionsTypeOK, WorkRec, Party, CallingParty, Replies, UseOps
  <2>2. QED
    BY <1>15, <2>1
    DEF ApiRestart, OwnerInv, SessionsTypeOK, Opened, Known, StarterOnly, UseOps, NoWork,
        Replies, Nobody, CallingParty, Party
<1>16. CASE UNCHANGED sessionVars
    BY <1>16 DEF sessionVars, OwnerInv, SessionsTypeOK, Opened, Known, StarterOnly
<1>17. QED
    BY <1>1, <1>2, <1>3, <1>4, <1>5, <1>6, <1>7, <1>8, <1>9, <1>10, <1>11, <1>12, <1>13,
    <1>14, <1>15, <1>16 DEF SessionsNext, CallingParty

(* Both maps and the calls between them keep their shape.                   *)
THEOREM SessionsTypeCorrect == SessionsSpec => []SessionsTypeOK
<1>1. OwnerInv => SessionsTypeOK
    BY DEF OwnerInv
<1>2. QED
    BY OwnerInit, OwnerStep, <1>1, PTL DEF SessionsSpec

(* Whatever calls, answers or processes are lost, a page is used for the key *)
(* it was opened for or an administrator, and by its own job's route.       *)
THEOREM StarterOnlyAlways == SessionsSpec => []StarterOnly
<1>1. OwnerInv => StarterOnly
    BY DEF OwnerInv
<1>2. QED
    BY OwnerInit, OwnerStep, <1>1, PTL DEF SessionsSpec

----------------------------------------------------------------------------
(* As long as nothing is lost.                                               *)

PageOpen(s) == page[s] \in {"open", "overdue"}

(* An answer on its way that takes the owner out, or tells that it should.   *)
Ending(r, s) ==
    /\ Concerns(r, s)
    /\ \/ work[r].op = "close" /\ work[r].pc = "ok"
       \/ work[r].op \in {"click", "view"} /\ work[r].pc = "missing"

(* Every call is waited for; a session that is being opened is nobody's yet  *)
(* and its page is open, unless its expiry was met; an answer that a session *)
(* is missing, or was closed, is true.                                       *)
CallsInv ==
    /\ \A r \in Calls : work[r] # NoWork => r \in waiting
    /\ \A r \in Calls : work[r].pc # "failed"
    /\ \A r1, r2 \in Calls : Opened(r1) /\ Opened(r2) /\ work[r1].s = work[r2].s => r1 = r2
    /\ \A r1, r2 \in Calls : Opened(r1) /\ work[r2].op \in UseOps => work[r2].s # work[r1].s
    /\ \A r \in Calls : Opened(r) => ~Known(work[r].s)
    /\ \A r \in Calls : Opened(r) /\ work[r].pc # "missing" => PageOpen(work[r].s)
    /\ \A r \in Calls : work[r].pc = "missing" => page[work[r].s] = "gone" /\ work[r].s \in Sessions
    /\ \A r \in Calls : work[r].op = "close" /\ work[r].pc \in Replies => page[work[r].s] = "gone"
    /\ \A r \in Calls : work[r].op = "close" => work[r].pc \notin {"acting", "missing"}

PagesInv ==
    /\ \A s \in Sessions : PageOpen(s) => Known(s) \/ \E r \in Calls : Opened(r) /\ work[r].s = s
    /\ \A s \in Sessions : Known(s) => PageOpen(s) \/ s \in stale \/ \E r \in Calls : Ending(r, s)

AgreeInv == ~disturbed => CallsInv /\ PagesInv

(* Two empty maps agree.                                                    *)
LEMMA AgreeInit == SessionsInit => AgreeInv
    BY SessionAssumption
    DEF SessionsInit, AgreeInv, CallsInv, PagesInv, Known, Opened, PageOpen, NoWork, UseOps,
        Replies

(* A session that is being opened is waited for, and so is an Ending answer. *)
LEMMA AgreeImplies == OwnerInv /\ AgreeInv => MapsAgree
<1> SUFFICES ASSUME OwnerInv, AgreeInv, ~disturbed, NEW s \in Sessions
             PROVE /\ PageOpen(s) => Known(s) \/ (\E r \in Calls : Concerns(r, s) /\ work[r].op = "start")
                   /\ Known(s) => \/ PageOpen(s) \/ s \in stale
                                  \/ \E r \in Calls : Concerns(r, s) /\ work[r].pc \in {"ok", "missing"}
    BY DEF MapsAgree, PageOpen
<1>1. ASSUME NEW r \in Calls, Opened(r), work[r].s = s
      PROVE Concerns(r, s) /\ work[r].op = "start"
    BY <1>1 DEF AgreeInv, CallsInv, Opened, Concerns, NoWork
<1>2. QED
    BY <1>1 DEF AgreeInv, PagesInv, Ending

(* A step that loses nothing keeps the maps in agreement: what takes a page *)
(* out of the sidecar's map leaves an answer that takes its owner out.      *)
LEMMA AgreeStep == OwnerInv /\ AgreeInv /\ [SessionsNext]_sessionVars => AgreeInv'
<1> SUFFICES ASSUME OwnerInv, AgreeInv, [SessionsNext]_sessionVars, ~disturbed'
             PROVE (CallsInv /\ PagesInv)'
    BY DEF AgreeInv
<1> USE SessionAssumption
<1>1. ASSUME NEW r \in Calls, NEW by \in CallingParty, Start(r, by)
      PROVE (CallsInv /\ PagesInv)'
  <2>1. CallsInv /\ PagesInv
    BY <1>1 DEF Start, Send, AgreeInv
  <2>2. CallsInv'
    BY <1>1, <2>1
    DEF Start, Send, CallsInv, OwnerInv, SessionsTypeOK, Opened, PageOpen, Known, UseOps,
        NoWork, Replies, Nobody, CallingParty, Party
  <2>3. PagesInv'
    BY <1>1, <2>1
    DEF Start, Send, CallsInv, PagesInv, OwnerInv, SessionsTypeOK, Opened, PageOpen, Ending,
        Concerns, Known, UseOps, NoWork, Replies, Nobody, CallingParty, Party
  <2>4. QED
    BY <2>2, <2>3
<1>2. ASSUME NEW r \in Calls, NEW by \in CallingParty, NEW op \in UseOps, NEW s \in Sessions, Use(r, op, s, by)
      PROVE (CallsInv /\ PagesInv)'
  <2>1. CallsInv /\ PagesInv
    BY <1>2 DEF Use, Send, AgreeInv
  <2>2. CallsInv'
    BY <1>2, <2>1
    DEF Use, Send, CallsInv, OwnerInv, SessionsTypeOK, Opened, PageOpen, Known, UseOps,
        NoWork, Replies, Nobody, CallingParty, Party
  <2>3. PagesInv'
    BY <1>2, <2>1
    DEF Use, Send, CallsInv, PagesInv, OwnerInv, SessionsTypeOK, Opened, PageOpen, Ending,
        Concerns, Known, UseOps, NoWork, Replies, Nobody, CallingParty, Party
  <2>4. QED
    BY <2>2, <2>3
<1>3. ASSUME NEW r \in Calls, NEW s \in Sessions, OpenPage(r, s) PROVE (CallsInv /\ PagesInv)'
  <2>1. CallsInv /\ PagesInv
    BY <1>3 DEF OpenPage, ApiKeeps, At, AgreeInv
  <2>2. CallsInv'
    BY <1>3, <2>1
    DEF OpenPage, ApiKeeps, At, CallsInv, OwnerInv, SessionsTypeOK, Opened, PageOpen, Known,
        UseOps, NoWork, Replies, Nobody, CallingParty, Party
  <2>3. PagesInv'
    BY <1>3, <2>1
    DEF OpenPage, ApiKeeps, At, CallsInv, PagesInv, OwnerInv, SessionsTypeOK, Opened,
        PageOpen, Ending, Concerns, Known, UseOps, NoWork, Replies, Nobody, CallingParty, Party
  <2>4. QED
    BY <2>2, <2>3
<1>4. ASSUME NEW r \in Calls, Require(r) PROVE (CallsInv /\ PagesInv)'
  <2>1. CallsInv /\ PagesInv
    BY <1>4 DEF Require, ApiKeeps, Goto, At, AgreeInv
  <2> DEFINE s == work[r].s
  <2>2. PICK p \in {"missing", "acting", "ok"} :
            /\ work' = [work EXCEPT ![r].pc = p]
            /\ p = "missing" <=> page[s] # "open"
    BY <1>4 DEF Require, Goto
  <2>3. /\ s \in Sessions /\ work[r] # NoWork /\ work[r].op # "close"
        /\ owner' = owner /\ starter' = starter /\ waiting' = waiting /\ stale' = stale
    <3>1. s \in Sessions
      BY <1>4 DEF Require, OwnerInv, SessionsTypeOK
    <3>2. work[r] # NoWork
      BY <1>4 DEF Require, NoWork
    <3>3. work[r].op # "close"
      BY <1>4, <2>1 DEF Require, At, CallsInv
    <3>4. QED
      BY <1>4, <3>1, <3>2, <3>3 DEF Require, ApiKeeps
  <2>4. page' = [page EXCEPT ![s] = IF @ = "overdue" THEN "gone" ELSE @]
    BY <1>4 DEF Require
  <2>5. page[s] \in {"open", "overdue", "gone"}
    BY <2>3 DEF OwnerInv, SessionsTypeOK
  <2>6. p = "missing" => page'[s] = "gone"
    BY <2>2, <2>3, <2>4, <2>5 DEF OwnerInv, SessionsTypeOK
  <2>7. p # "missing" => page' = page
    BY <2>2, <2>3, <2>4, <2>5 DEF OwnerInv, SessionsTypeOK
  <2>8. \A s2 \in Sessions : page[s2] = "gone" => page'[s2] = "gone"
    BY <2>3, <2>4 DEF OwnerInv, SessionsTypeOK
  <2>9. \A s2 \in Sessions : s2 # s => page'[s2] = page[s2]
    BY <2>3, <2>4 DEF OwnerInv, SessionsTypeOK
  <2>10. \A r2 \in Calls : /\ r2 # r => work'[r2] = work[r2]
                           /\ work'[r2].op = work[r2].op /\ work'[r2].s = work[r2].s
                           /\ Opened(r2)' <=> Opened(r2)
    BY <2>2 DEF OwnerInv, SessionsTypeOK, Opened
  <2>11. work'[r].pc = p
    BY <2>2 DEF OwnerInv, SessionsTypeOK
  <2> HIDE DEF s
  <2>12. CallsInv'
    <3>1. \A r2 \in Calls : work'[r2] # NoWork => r2 \in waiting'
      BY <2>1, <2>3, <2>10 DEF CallsInv
    <3>2. ASSUME NEW r2 \in Calls, Opened(r2)', work'[r2].pc # "missing"
          PROVE page'[work'[r2].s] \in {"open", "overdue"}
      <4>1. CASE p = "missing"
        <5>1. r2 # r /\ Opened(r2) /\ work[r2].pc # "missing"
          BY <3>2, <4>1, <2>10, <2>11
        <5>2. work[r].op = "start" => Opened(r)
          BY <2>3, SessionAssumption DEF Opened, s
        <5>3. work[r2].s # s
          BY <5>1, <5>2, <2>1 DEF CallsInv, OwnerInv, SessionsTypeOK, s
        <5>4. page[work[r2].s] \in {"open", "overdue"}
          BY <5>1, <2>1 DEF CallsInv, PageOpen
        <5>5. work[r2].s \in Sessions
          BY <5>1 DEF Opened, OwnerInv, SessionsTypeOK
        <5>6. QED
          BY <5>3, <5>4, <5>5, <2>9, <2>10
      <4>2. CASE p # "missing"
        BY <3>2, <4>2, <2>1, <2>2, <2>7, <2>10 DEF CallsInv, PageOpen, s
      <4>3. QED
        BY <4>1, <4>2
    <3>3. \A r2 \in Calls : work'[r2].pc = "missing" =>
              page'[work'[r2].s] = "gone" /\ work'[r2].s \in Sessions
      BY <2>1, <2>3, <2>6, <2>8, <2>10, <2>11 DEF CallsInv, s
    <3>4. QED
      BY <2>1, <2>2, <2>3, <2>8, <2>10, <2>11, <3>1, <3>2, <3>3
      DEF CallsInv, OwnerInv, Known, Opened, PageOpen, Replies, UseOps
  <2>13. PagesInv'
    <3>1. ASSUME NEW s2 \in Sessions, PageOpen(s2)'
          PROVE Known(s2)' \/ \E r2 \in Calls : Opened(r2)' /\ work'[r2].s = s2
      <4>1. PageOpen(s2)
        BY <3>1, <2>3, <2>4 DEF PageOpen, OwnerInv, SessionsTypeOK
      <4>2. QED
        BY <4>1, <2>1, <2>3, <2>10 DEF PagesInv, Known
    <3>2. ASSUME NEW s2 \in Sessions, Known(s2)'
          PROVE PageOpen(s2)' \/ s2 \in stale' \/ \E r2 \in Calls : Ending(r2, s2)'
      <4>1. Known(s2)
        BY <3>2, <2>3 DEF Known
      <4>2. CASE PageOpen(s2) \/ s2 \in stale
        <5>1. CASE s2 = s /\ p = "missing"
          <6>1. ~Opened(r)
            BY <4>1, <5>1, <2>1 DEF CallsInv, s
          <6>2. work[r].op \in {"click", "view"}
            BY <6>1, <2>3 DEF Opened, OwnerInv, SessionsTypeOK, UseOps, s
          <6>3. Ending(r, s2)'
            BY <5>1, <6>2, <2>1, <2>3, <2>10, <2>11 DEF Ending, Concerns, CallsInv, s
          <6>4. QED
            BY <6>3
        <5>2. CASE ~(s2 = s /\ p = "missing")
          BY <4>2, <5>2, <2>3, <2>7, <2>9 DEF PageOpen
        <5>3. QED
          BY <5>1, <5>2
      <4>3. CASE \E r2 \in Calls : Ending(r2, s2)
        <5>1. PICK r2 \in Calls : Ending(r2, s2)
          BY <4>3
        <5>2. r2 # r
          BY <1>4, <5>1, <2>3 DEF Ending, Require, At
        <5>3. Ending(r2, s2)'
          BY <5>1, <5>2, <2>3, <2>10 DEF Ending, Concerns
        <5>4. QED
          BY <5>3
      <4>4. QED
        BY <4>1, <4>2, <4>3, <2>1 DEF PagesInv
    <3>3. QED
      BY <3>1, <3>2 DEF PagesInv
  <2>14. QED
    BY <2>12, <2>13
<1>5. ASSUME NEW r \in Calls, ClosePage(r) PROVE (CallsInv /\ PagesInv)'
  <2>1. CallsInv /\ PagesInv
    BY <1>5 DEF ClosePage, ApiKeeps, Goto, At, AgreeInv
  <2>2. CallsInv'
    BY <1>5, <2>1
    DEF ClosePage, ApiKeeps, Goto, At, CallsInv, OwnerInv, SessionsTypeOK, Opened, PageOpen,
        Known, UseOps, NoWork, Replies, Nobody, CallingParty, Party
  <2>3. PagesInv'
    BY <1>5, <2>1
    DEF ClosePage, ApiKeeps, Goto, At, CallsInv, PagesInv, OwnerInv, SessionsTypeOK, Opened,
        PageOpen, Ending, Concerns, Known, UseOps, NoWork, Replies, Nobody, CallingParty, Party
  <2>4. QED
    BY <2>2, <2>3
<1>6. ASSUME NEW r \in Calls, CallFails(r) PROVE (CallsInv /\ PagesInv)'
    BY <1>6 DEF CallFails
<1>7. ASSUME NEW r \in Calls, StartAnswered(r) PROVE (CallsInv /\ PagesInv)'
  <2>1. CallsInv /\ PagesInv
    BY <1>7 DEF StartAnswered, Finish, Answered, AgreeInv
  <2>2. CallsInv'
    BY <1>7, <2>1
    DEF StartAnswered, Finish, Answered, CallsInv, OwnerInv, SessionsTypeOK, Opened, PageOpen,
        Known, UseOps, NoWork, Replies, Nobody, CallingParty, Party
  <2>3. PagesInv'
    <3>1. /\ work' = [work EXCEPT ![r] = NoWork] /\ waiting' = waiting \ {r} /\ page' = page
          /\ work[r].s \in Sessions
          /\ \A r2 \in Calls : r2 # r => /\ Opened(r2)' <=> Opened(r2)
                                         /\ \A s \in Sessions : Ending(r2, s)' <=> Ending(r2, s)
      BY <1>7, <2>1
      DEF StartAnswered, Finish, Answered, CallsInv, OwnerInv, SessionsTypeOK, Opened, Ending,
          Concerns, UseOps, Replies
    <3>2. ASSUME NEW s \in Sessions, PageOpen(s)'
          PROVE Known(s)' \/ \E r2 \in Calls : Opened(r2)' /\ work'[r2].s = s
      BY <1>7, <2>1, <3>1, <3>2
      DEF StartAnswered, Answered, CallsInv, PagesInv, OwnerInv, SessionsTypeOK, Opened,
          PageOpen, Known, Nobody, NoWork, Replies
    <3>3. ASSUME NEW s \in Sessions, Known(s)'
          PROVE PageOpen(s)' \/ s \in stale' \/ \E r2 \in Calls : Ending(r2, s)'
      BY <1>7, <2>1, <3>1, <3>3
      DEF StartAnswered, Answered, CallsInv, PagesInv, OwnerInv, SessionsTypeOK, Opened,
          PageOpen, Ending, Known, Replies
    <3>4. QED
      BY <3>2, <3>3 DEF PagesInv
  <2>4. QED
    BY <2>2, <2>3
<1>8. ASSUME NEW r \in Calls, ClickAnswered(r) PROVE (CallsInv /\ PagesInv)'
  <2>1. CallsInv /\ PagesInv
    BY <1>8 DEF ClickAnswered, Finish, Forget, Answered, AgreeInv
  <2>2. CallsInv'
    BY <1>8, <2>1
    DEF ClickAnswered, Finish, Forget, Answered, CallsInv, OwnerInv, SessionsTypeOK, Opened,
        PageOpen, Known, UseOps, NoWork, Replies, Nobody, CallingParty, Party
  <2>3. PagesInv'
    <3>1. /\ work' = [work EXCEPT ![r] = NoWork] /\ waiting' = waiting \ {r} /\ page' = page
          /\ work[r].s \in Sessions
          /\ \A r2 \in Calls : r2 # r => /\ Opened(r2)' <=> Opened(r2)
                                         /\ \A s \in Sessions : Ending(r2, s)' <=> Ending(r2, s)
      BY <1>8
      DEF ClickAnswered, Finish, Answered, OwnerInv, SessionsTypeOK, Opened, Ending, Concerns,
          UseOps, Replies
    <3>2. ASSUME NEW s \in Sessions, PageOpen(s)'
          PROVE Known(s)' \/ \E r2 \in Calls : Opened(r2)' /\ work'[r2].s = s
      BY <1>8, <2>1, <3>1, <3>2
      DEF ClickAnswered, Answered, Forget, CallsInv, PagesInv, OwnerInv, SessionsTypeOK,
          Opened, PageOpen, Known
    <3>3. ASSUME NEW s \in Sessions, Known(s)'
          PROVE PageOpen(s)' \/ s \in stale' \/ \E r2 \in Calls : Ending(r2, s)'
      BY <1>8, <2>1, <3>1, <3>3
      DEF ClickAnswered, Answered, Forget, CallsInv, PagesInv, OwnerInv, SessionsTypeOK,
          Opened, PageOpen, Ending, Known, Concerns
    <3>4. QED
      BY <3>2, <3>3 DEF PagesInv
  <2>4. QED
    BY <2>2, <2>3
<1>9. ASSUME NEW r \in Calls, ViewAnswered(r) PROVE (CallsInv /\ PagesInv)'
  <2>1. CallsInv /\ PagesInv
    BY <1>9 DEF ViewAnswered, Finish, Answered, AgreeInv
  <2>2. CallsInv'
    BY <1>9, <2>1
    DEF ViewAnswered, Finish, Answered, CallsInv, OwnerInv, SessionsTypeOK, Opened, PageOpen,
        Known, UseOps, NoWork, Replies, Nobody, CallingParty, Party
  <2>3. PagesInv'
    BY <1>9, <2>1
    DEF ViewAnswered, Finish, Answered, CallsInv, PagesInv, OwnerInv, SessionsTypeOK, Opened,
        PageOpen, Ending, Concerns, Known, UseOps, NoWork, Replies, Nobody, CallingParty, Party
  <2>4. QED
    BY <2>2, <2>3
<1>10. ASSUME NEW r \in Calls, CloseAnswered(r) PROVE (CallsInv /\ PagesInv)'
  <2>1. CallsInv /\ PagesInv
    BY <1>10 DEF CloseAnswered, Finish, Forget, Answered, AgreeInv
  <2>2. CallsInv'
    BY <1>10, <2>1
    DEF CloseAnswered, Finish, Forget, Answered, CallsInv, OwnerInv, SessionsTypeOK, Opened,
        PageOpen, Known, UseOps, NoWork, Replies, Nobody, CallingParty, Party
  <2>3. PagesInv'
    <3>1. /\ work' = [work EXCEPT ![r] = NoWork] /\ waiting' = waiting \ {r} /\ page' = page
          /\ work[r].s \in Sessions
          /\ \A r2 \in Calls : r2 # r => /\ Opened(r2)' <=> Opened(r2)
                                         /\ \A s \in Sessions : Ending(r2, s)' <=> Ending(r2, s)
      BY <1>10
      DEF CloseAnswered, Finish, Answered, OwnerInv, SessionsTypeOK, Opened, Ending, Concerns,
          UseOps, Replies
    <3>2. ASSUME NEW s \in Sessions, PageOpen(s)'
          PROVE Known(s)' \/ \E r2 \in Calls : Opened(r2)' /\ work'[r2].s = s
      BY <1>10, <2>1, <3>1, <3>2
      DEF CloseAnswered, Answered, Forget, CallsInv, PagesInv, OwnerInv, SessionsTypeOK,
          Opened, PageOpen, Known
    <3>3. ASSUME NEW s \in Sessions, Known(s)'
          PROVE PageOpen(s)' \/ s \in stale' \/ \E r2 \in Calls : Ending(r2, s)'
      BY <1>10, <2>1, <3>1, <3>3
      DEF CloseAnswered, Answered, Forget, CallsInv, PagesInv, OwnerInv, SessionsTypeOK,
          Opened, PageOpen, Ending, Known, Concerns
    <3>4. QED
      BY <3>2, <3>3 DEF PagesInv
  <2>4. QED
    BY <2>2, <2>3
<1>11. ASSUME NEW r \in Calls, GiveUp(r) PROVE (CallsInv /\ PagesInv)'
    BY <1>11 DEF GiveUp
<1>12. ASSUME NEW r \in Calls, Discard(r) PROVE (CallsInv /\ PagesInv)'
  <2>1. CallsInv /\ PagesInv
    BY <1>12 DEF Discard, AgreeInv
  <2>2. CallsInv'
    BY <1>12, <2>1
    DEF Discard, CallsInv, OwnerInv, SessionsTypeOK, Opened, PageOpen, Known, UseOps, NoWork,
        Replies, Nobody, CallingParty, Party
  <2>3. PagesInv'
    BY <1>12, <2>1
    DEF Discard, CallsInv, PagesInv, OwnerInv, SessionsTypeOK, Opened, PageOpen, Ending,
        Concerns, Known, UseOps, NoWork, Replies, Nobody, CallingParty, Party
  <2>4. QED
    BY <2>2, <2>3
<1>13. ASSUME NEW s \in Sessions, Overdue(s) PROVE (CallsInv /\ PagesInv)'
  <2>1. CallsInv /\ PagesInv
    BY <1>13 DEF Overdue, ApiKeeps, AgreeInv
  <2>2. CallsInv'
    BY <1>13, <2>1
    DEF Overdue, ApiKeeps, CallsInv, OwnerInv, SessionsTypeOK, Opened, PageOpen, Known,
        UseOps, NoWork, Replies, Nobody, CallingParty, Party
  <2>3. PagesInv'
    BY <1>13, <2>1
    DEF Overdue, ApiKeeps, CallsInv, PagesInv, OwnerInv, SessionsTypeOK, Opened, PageOpen,
        Ending, Concerns, Known, UseOps, NoWork, Replies, Nobody, CallingParty, Party
  <2>4. QED
    BY <2>2, <2>3
<1>14. ASSUME SidecarRestart PROVE (CallsInv /\ PagesInv)'
    BY <1>14 DEF SidecarRestart
<1>15. ASSUME ApiRestart PROVE (CallsInv /\ PagesInv)'
    BY <1>15 DEF ApiRestart
<1>16. CASE UNCHANGED sessionVars
    BY <1>16
    DEF sessionVars, AgreeInv, CallsInv, PagesInv, Opened, PageOpen, Ending, Concerns, Known
<1>17. QED
    BY <1>1, <1>2, <1>3, <1>4, <1>5, <1>6, <1>7, <1>8, <1>9, <1>10, <1>11, <1>12, <1>13,
    <1>14, <1>15, <1>16 DEF SessionsNext, CallingParty

(* While no call, answer or process is lost the owners in the API are those *)
(* of the open pages, up to the calls under way and the missed expiries.    *)
THEOREM MapsAgreeAlways == SessionsSpec => []MapsAgree
<1>1. SessionsSpec => [](OwnerInv /\ AgreeInv)
    BY OwnerInit, OwnerStep, AgreeInit, AgreeStep, PTL DEF SessionsSpec
<1>2. QED
    BY <1>1, AgreeImplies, PTL
----------------------------------------------------------------------------
(* The browsers.                                                             *)

(* What a step of context() does, the sessions do not see.                   *)
LEMMA ContextsStep == [ContextsNext]_browserVars => [SessionsNext]_sessionVars
<1> SUFFICES ASSUME [ContextsNext]_browserVars PROVE [SessionsNext]_sessionVars
    OBVIOUS
<1>1. ASSUME NEW r \in Calls, NEW p \in Profiles, FindForLogin(r, p) \/ FindForProbe(r, p)
      PROVE UNCHANGED sessionVars
    BY <1>1 DEF FindForLogin, FindForProbe
<1>2. ASSUME NEW r \in Calls,
             \/ Judge(r) \/ RemoveLock(r) \/ Register(r) \/ EndProbe(r)
             \/ \E b \in Browsers : Launch(r, b)
      PROVE UNCHANGED sessionVars
    BY <1>2 DEF Judge, RemoveLock, Register, EndProbe, Launch
<1>3. ASSUME NEW r \in Calls, NEW by \in [key : Keys, job : Jobs \cup {NoJob}], Call(r, by)
      PROVE SessionsNext
    BY <1>3 DEF Call, SessionsNext
<1>4. ASSUME NEW r \in Calls, NEW s \in Sessions, OpenPageInContext(r, s) PROVE SessionsNext
    BY <1>4 DEF OpenPageInContext, SessionsNext
<1>5. ASSUME NEW r \in Calls, RequireInContext(r) \/ CallFailsInContext(r) PROVE SessionsNext
    BY <1>5 DEF RequireInContext, CallFailsInContext, SessionsNext
<1>6. ASSUME NEW b \in Browsers, BrowserDies(b) PROVE UNCHANGED sessionVars
    BY <1>6 DEF BrowserDies
<1>7. ASSUME RestartWithContexts PROVE SessionsNext
    BY <1>7 DEF RestartWithContexts, SessionsNext
<1>8. ASSUME Elsewhere PROVE SessionsNext
    BY <1>8 DEF Elsewhere, SessionsNext
<1>9. CASE UNCHANGED browserVars
    BY <1>9 DEF browserVars
<1> QED
    BY <1>1, <1>2, <1>3, <1>4, <1>5, <1>6, <1>7, <1>8, <1>9 DEF ContextsNext

(* The login sessions in their browsers are login sessions: whatever is      *)
(* proved of LoginSessions holds of them.                                    *)
THEOREM ContextsImplementSessions == ContextsSpec => SessionsSpec
<1>1. ContextsInit => SessionsInit
    BY DEF ContextsInit
<1> QED
    BY <1>1, ContextsStep, PTL DEF ContextsSpec, SessionsSpec

AskRec == [pc : {"none", "judge", "remove", "launch", "register", "ready"},
           profile : Profiles \cup {NoProfile},
           browser : Browsers \cup {NoBrowser},
           seen : Browsers \cup {Free, Stale}]

(* Slots between the look into the map and the answer.                       *)
Asking(r) == ask[r].pc # "none"

(* A browser that runs has its profile's lock, unless the profile was raced  *)
(* for, and only an entry or a slot that was made with it names it.          *)
BrowsersInv ==
    /\ ContextsTypeOK
    /\ \A b \in Browsers : Runs(b) /\ running[b] \notin raced => lock[running[b]] = b
    /\ \A r \in Calls : Asking(r) => ask[r].profile \in Profiles
    /\ \A r \in Calls : In(r, "remove") => ask[r].seen = Stale
    /\ \A r \in Calls : Asking(r) /\ Runs(ask[r].browser) => running[ask[r].browser] = ask[r].profile
    /\ \A p \in Profiles : Runs(contexts[p]) => running[contexts[p]] = p
    /\ SharedContext

(* No two browsers can have one lock.                                        *)
LEMMA LockOfOne == ASSUME BrowsersInv PROVE OneBrowser
  BY ContextAssumption DEF BrowsersInv, OneBrowser, Runs, ContextsTypeOK

(* What a slot notes on its way keeps its shape.                             *)
LEMMA AskStep ==
    ASSUME NEW w \in AskRec, NEW c \in {"remove", "launch", "register", "ready"},
           NEW b \in Browsers \cup {NoBrowser}, NEW l \in Browsers \cup {Free, Stale}
    PROVE /\ [w EXCEPT !.pc = c] \in AskRec
          /\ [w EXCEPT !.pc = c, !.seen = l] \in AskRec
          /\ [w EXCEPT !.pc = c, !.browser = b] \in AskRec
    BY DEF AskRec

(* A slot that asks asks for a profile.                                      *)
LEMMA AskTyped ==
    ASSUME BrowsersInv, NEW r \in Calls, Asking(r)
    PROVE /\ ask \in [Calls -> AskRec]
          /\ ask[r] \in AskRec
          /\ ask[r].profile \in Profiles
          /\ lock[ask[r].profile] \in Browsers \cup {Free, Stale}
    BY DEF BrowsersInv, ContextsTypeOK, AskRec

(* No browser runs when the system starts.                                   *)
LEMMA BrowsersInit == ContextsInit => BrowsersInv
<1> SUFFICES ASSUME ContextsInit PROVE BrowsersInv
    OBVIOUS
<1>1. ContextsTypeOK
    BY DEF ContextsInit, ContextsTypeOK, NoAsk, Free, Stale
<1>2. QED
    BY <1>1, ContextAssumption
    DEF ContextsInit, BrowsersInv, Runs, Asking, In, NoAsk, SharedContext

(* A lock is removed by one who judged it, or the profile counts as raced;   *)
(* a browser starts where no other has the lock, and under a name nobody     *)
(* refers to: every step keeps BrowsersInv.                                  *)
LEMMA BrowsersStep == BrowsersInv /\ [ContextsNext]_browserVars => BrowsersInv'
<1> SUFFICES ASSUME BrowsersInv, [ContextsNext]_browserVars PROVE BrowsersInv'
    OBVIOUS
<1> USE ContextAssumption
<1>1. ASSUME NEW r \in Calls, NEW p \in Profiles, Find(r, p) PROVE BrowsersInv'
  <2>1. ContextsTypeOK'
    BY <1>1 DEF Find, BrowsersInv, ContextsTypeOK, NoAsk
  <2>2. QED
    BY <1>1, <2>1
    DEF Find, BrowsersInv, ContextsTypeOK, NoAsk, Runs, Asking, In, SharedContext
<1>2. ASSUME NEW r \in Calls, Judge(r) PROVE BrowsersInv'
  <2>1. Asking(r)
    BY <1>2 DEF Judge, In, Asking
  <2>2. PICK c \in {"remove", "launch"}, l \in Browsers \cup {Free, Stale} :
            /\ ask' = [ask EXCEPT ![r] = [@ EXCEPT !.pc = c, !.seen = l]]
            /\ c = "remove" => l = Stale
    <3>1. CASE ask' = [ask EXCEPT ![r].pc = "remove", ![r].seen = Stale]
      BY <3>1
    <3>2. CASE ask' = [ask EXCEPT ![r].pc = "launch"]
      <4>1. ask[r].seen \in Browsers \cup {Free, Stale}
        BY AskTyped, <2>1 DEF AskRec
      <4>2. [ask[r] EXCEPT !.pc = "launch", !.seen = ask[r].seen] = [ask[r] EXCEPT !.pc = "launch"]
        BY AskTyped, <2>1 DEF AskRec
      <4>3. QED
        BY <3>2, <4>1, <4>2
    <3>3. QED
      BY <1>2, <3>1, <3>2 DEF Judge, Step
  <2>3. ContextsTypeOK'
    <3>1. [ask[r] EXCEPT !.pc = c, !.seen = l] \in AskRec
      BY <2>1, AskTyped, AskStep
    <3>2. ask' \in [Calls -> AskRec]
      BY <2>1, <2>2, <3>1, AskTyped
    <3>3. QED
      BY <1>2, <3>2 DEF Judge, BrowsersInv, ContextsTypeOK, AskRec
  <2>4. QED
    BY <1>2, <2>1, <2>2, <2>3
    DEF Judge, BrowsersInv, ContextsTypeOK, Runs, Asking, In, SharedContext
<1>3. ASSUME NEW r \in Calls, RemoveLock(r) PROVE BrowsersInv'
  <2>1. ContextsTypeOK'
    <3>1. Asking(r)
      BY <1>3 DEF RemoveLock, In, Asking
    <3>2. ask'[r] \in AskRec
      BY <1>3, <3>1, AskTyped, AskStep DEF RemoveLock
    <3>3. ask' \in [Calls -> AskRec]
      BY <1>3, <3>1, <3>2, AskTyped DEF RemoveLock
    <3>4. QED
      BY <1>3, <3>1, <3>3, AskTyped DEF RemoveLock, BrowsersInv, ContextsTypeOK, AskRec
  <2>2. QED
    BY <1>3, <2>1
    DEF RemoveLock, BrowsersInv, ContextsTypeOK, Runs, Asking, In, SharedContext
<1>4. ASSUME NEW r \in Calls, NEW b \in Browsers, Launch(r, b) PROVE BrowsersInv'
  <2>1. ContextsTypeOK'
    <3>1. Asking(r)
      BY <1>4 DEF Launch, In, Asking
    <3>2. ask'[r] \in AskRec
      BY <1>4, <3>1, AskTyped, AskStep DEF Launch
    <3>3. ask' \in [Calls -> AskRec]
      BY <1>4, <3>1, <3>2, AskTyped DEF Launch
    <3>4. QED
      BY <1>4, <3>1, <3>3, AskTyped DEF Launch, BrowsersInv, ContextsTypeOK, AskRec
  <2>2. QED
    BY <1>4, <2>1
    DEF Launch, Fresh, BrowsersInv, ContextsTypeOK, Runs, Asking, In, SharedContext
<1>5. ASSUME NEW r \in Calls, Register(r) PROVE BrowsersInv'
  <2>1. ContextsTypeOK'
    <3>1. Asking(r)
      BY <1>5 DEF Register, In, Asking
    <3>2. ask'[r] \in AskRec
      BY <1>5, <3>1, AskTyped, AskStep DEF Register, Step
    <3>3. ask' \in [Calls -> AskRec]
      BY <1>5, <3>1, <3>2, AskTyped DEF Register, Step
    <3>4. QED
      BY <1>5, <3>1, <3>3, AskTyped DEF Register, BrowsersInv, ContextsTypeOK, AskRec
  <2>2. QED
    BY <1>5, <2>1
    DEF Register, Step, BrowsersInv, ContextsTypeOK, Runs, Asking, In, SharedContext
<1>6. ASSUME NEW r \in Calls, NEW s \in Sessions, OpenPageInContext(r, s) PROVE BrowsersInv'
  <2>1. ContextsTypeOK'
    BY <1>6 DEF OpenPageInContext, BrowsersInv, ContextsTypeOK, NoAsk
  <2>2. QED
    BY <1>6, <2>1
    DEF OpenPageInContext, BrowsersInv, ContextsTypeOK, NoAsk, Runs, Asking, In, SharedContext
<1>7. ASSUME NEW r \in Calls, CallFailsInContext(r) \/ EndProbe(r) PROVE BrowsersInv'
  <2>1. /\ ask' = [ask EXCEPT ![r] = NoAsk]
        /\ UNCHANGED <<contexts, running, lock, inside, raced>>
    BY <1>7 DEF CallFailsInContext, EndProbe
  <2>2. ContextsTypeOK'
    BY <2>1 DEF BrowsersInv, ContextsTypeOK, NoAsk
  <2>3. QED
    BY <2>1, <2>2
    DEF BrowsersInv, ContextsTypeOK, NoAsk, Runs, Asking, In, SharedContext
<1>8. ASSUME NEW b \in Browsers, BrowserDies(b) PROVE BrowsersInv'
  <2>1. ContextsTypeOK'
    BY <1>8 DEF BrowserDies, BrowsersInv, ContextsTypeOK
  <2>2. QED
    BY <1>8, <2>1
    DEF BrowserDies, BrowsersInv, ContextsTypeOK, Runs, Asking, In, SharedContext
<1>9. ASSUME RestartWithContexts PROVE BrowsersInv'
  <2>1. ContextsTypeOK'
    BY <1>9 DEF RestartWithContexts, BrowsersInv, ContextsTypeOK, NoAsk
  <2>2. QED
    BY <1>9, <2>1
    DEF RestartWithContexts, BrowsersInv, ContextsTypeOK, NoAsk, Runs, Asking, In, SharedContext
<1>10. CASE UNCHANGED contextVars
    BY <1>10
    DEF contextVars, BrowsersInv, ContextsTypeOK, Runs, Asking, In, SharedContext
<1>11. QED
    BY <1>1, <1>2, <1>3, <1>4, <1>5, <1>6, <1>7, <1>8, <1>9, <1>10
    DEF ContextsNext, FindForLogin, FindForProbe, Call, RequireInContext, Elsewhere, browserVars

(* However many requests find no context at once, and whichever browsers     *)
(* crash: one runs on a profile, unless it was raced for.                    *)
THEOREM OneBrowserAlways == ContextsSpec => []OneBrowser
<1>1. BrowsersInv => OneBrowser
    BY LockOfOne
<1>2. QED
    BY BrowsersInit, BrowsersStep, <1>1, PTL DEF ContextsSpec

(* What is logged in to in a profile is what its later probes work in.       *)
THEOREM SharedContextAlways == ContextsSpec => []SharedContext
<1>1. BrowsersInv => SharedContext
    BY DEF BrowsersInv
<1>2. QED
    BY BrowsersInit, BrowsersStep, <1>1, PTL DEF ContextsSpec
=============================================================================
