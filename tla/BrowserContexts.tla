--------------------------- MODULE BrowserContexts ---------------------------
(***************************************************************************)
(* The browsers behind the login sessions: context() of the sidecar, with  *)
(* removeStaleChromiumSingletonLocks.  A profile has a directory, in which *)
(* Chromium keeps a lock while it runs, and at most one entry in the map   *)
(* contexts; the entry is looked up first and made last, with several      *)
(* awaits in between.  Probes, cookie imports and header lookups ask for   *)
(* the context as a login session does, in a slot of their own.            *)
(*                                                                         *)
(* Chromium refuses to run on a directory whose lock is held by a browser  *)
(* that runs; whether it takes a lock over that a browser left behind is   *)
(* open.                                                                   *)
(***************************************************************************)
EXTENDS LoginSessions

CONSTANTS
    Profiles,
    NoProfile,
    Browsers,    \* names of the browsers that run at a time
    NoBrowser

Stale == "stale"   \* a lock whose browser is gone
Free == "free"     \* no lock

ASSUME ContextAssumption ==
    /\ NoProfile \notin Profiles
    /\ NoBrowser \notin Browsers
    /\ {Stale, Free} \cap Browsers = {}

VARIABLES
    contexts,   \* the map: the browser of a profile
    ask,        \* how far each slot has got in context()
    running,    \* the profile each browser runs on
    lock,       \* SingletonLock in the directory of each profile
    inside,     \* the browser a session's page was opened in
    raced       \* auxiliary: profiles whose lock was removed by somebody who had
                \* judged the one before it

contextVars == <<contexts, ask, running, lock, inside, raced>>
browserVars == <<sessionVars, contextVars>>

NoAsk == [pc |-> "none", profile |-> NoProfile, browser |-> NoBrowser, seen |-> Free]

ContextsInit ==
    /\ SessionsInit
    /\ contexts = [p \in Profiles |-> NoBrowser]
    /\ ask = [r \in Calls |-> NoAsk]
    /\ running = [b \in Browsers |-> NoProfile]
    /\ lock \in [Profiles -> {Free, Stale}]
    /\ inside = [s \in Sessions |-> NoBrowser]
    /\ raced = {}

Runs(b) == b \in Browsers /\ running[b] # NoProfile
In(r, pc) == ask[r].pc = pc
Step(r, pc) == ask' = [ask EXCEPT ![r].pc = pc]

----------------------------------------------------------------------------
(* context(): what is synchronous up to the first await is one step.         *)

Find(r, p) ==
    /\ In(r, "none")
    /\ ask' = [ask EXCEPT ![r] =
                  [NoAsk EXCEPT !.pc = IF contexts[p] = NoBrowser THEN "judge" ELSE "ready",
                                !.profile = p, !.browser = contexts[p]]]
    /\ UNCHANGED <<contexts, running, lock, inside, raced>>

(* A login session asks in the slot of its call ...                          *)
FindForLogin(r, p) ==
    /\ At(r, "start", "sent")
    /\ Find(r, p)
    /\ UNCHANGED sessionVars

(* ... a probe, an import and a lookup in one that is free.                  *)
FindForProbe(r, p) ==
    /\ work[r] = NoWork
    /\ Find(r, p)
    /\ UNCHANGED sessionVars

(* Fault: the process of a lock is not looked at.                            *)
JudgeByHost(r) ==
    LET seen == lock[ask[r].profile] IN
    /\ In(r, "judge")
    /\ \/ seen # Free /\ ask' = [ask EXCEPT ![r].pc = "remove", ![r].seen = seen]
       \/ Step(r, "launch")
    /\ UNCHANGED <<sessionVars, contexts, running, lock, inside, raced>>

(* readlink, and what becomes of the name and the process in it.  A process  *)
(* that runs is never judged gone; one that is gone may be judged to run, if *)
(* another has its number by now.                                            *)
Judge(r) ==
    LET seen == lock[ask[r].profile] IN
    /\ In(r, "judge")
    /\ \/ seen = Stale /\ ask' = [ask EXCEPT ![r].pc = "remove", ![r].seen = seen]
       \/ Step(r, "launch")
    /\ UNCHANGED <<sessionVars, contexts, running, lock, inside, raced>>

(* Whatever lock is there by now is removed.                                 *)
RemoveLock(r) ==
    LET p == ask[r].profile IN
    /\ In(r, "remove")
    /\ lock' = [lock EXCEPT ![p] = Free]
    /\ raced' = IF lock[p] \in Browsers /\ ask[r].seen # lock[p] THEN raced \cup {p} ELSE raced
    /\ ask' = [ask EXCEPT ![r].pc = "launch", ![r].seen = Free]
    /\ UNCHANGED <<sessionVars, contexts, running, inside>>

(* A name nobody refers to.                                                  *)
Fresh(b) == /\ running[b] = NoProfile
            /\ \A p \in Profiles : contexts[p] # b
            /\ \A r \in Calls : ask[r].browser # b
            /\ \A s \in Sessions : inside[s] # b

(* launchPersistentContext: a browser of its own, which takes the lock.      *)
Launch(r, b) ==
    LET p == ask[r].profile IN
    /\ In(r, "launch")
    /\ ~Runs(lock[p])
    /\ Fresh(b)
    /\ running' = [running EXCEPT ![b] = p]
    /\ lock' = [lock EXCEPT ![p] = b]
    /\ ask' = [ask EXCEPT ![r].pc = "register", ![r].browser = b]
    /\ UNCHANGED <<sessionVars, contexts, inside, raced>>

(* Fault: the entry is not made.                                             *)
RegisterNothing(r) ==
    /\ In(r, "register")
    /\ Step(r, "ready")
    /\ UNCHANGED <<sessionVars, contexts, running, lock, inside, raced>>

(* route and addInitScript, which need the browser, then the entry, which    *)
(* replaces another one.                                                     *)
Register(r) ==
    /\ In(r, "register")
    /\ Runs(ask[r].browser)
    /\ contexts' = [contexts EXCEPT ![ask[r].profile] = ask[r].browser]
    /\ Step(r, "ready")
    /\ UNCHANGED <<sessionVars, running, lock, inside, raced>>

----------------------------------------------------------------------------
(* The sessions in their browsers.                                           *)

(* A slot that serves a probe takes no call.                                 *)
Call(r, by) ==
    /\ In(r, "none")
    /\ Start(r, by) \/ \E op \in UseOps, s \in Sessions : Use(r, op, s, by)
    /\ UNCHANGED contextVars

OpenPageInContext(r, s) ==
    /\ In(r, "ready")
    /\ Runs(ask[r].browser)
    /\ OpenPage(r, s)
    /\ inside' = [inside EXCEPT ![s] = ask[r].browser]
    /\ ask' = [ask EXCEPT ![r] = NoAsk]
    /\ UNCHANGED <<contexts, running, lock, raced>>

(* A page whose browser died is in the map still, but nothing can be done    *)
(* with it.                                                                  *)
RequireInContext(r) ==
    /\ work[r].s \in Sessions => page[work[r].s] # "open" \/ Runs(inside[work[r].s])
    /\ Require(r)
    /\ UNCHANGED contextVars

(* What was launched by then runs on, and has no entry.                      *)
CallFailsInContext(r) ==
    /\ CallFails(r)
    /\ ask' = [ask EXCEPT ![r] = NoAsk]
    /\ UNCHANGED <<contexts, running, lock, inside, raced>>

(* A probe is done with the context, or has failed on the way to it.         *)
EndProbe(r) ==
    /\ work[r] = NoWork
    /\ ~In(r, "none")
    /\ ask' = [ask EXCEPT ![r] = NoAsk]
    /\ UNCHANGED <<sessionVars, contexts, running, lock, inside, raced>>

(* A browser crashes.  Its lock stays, and so does its entry in the map.     *)
BrowserDies(b) ==
    /\ Runs(b)
    /\ running' = [running EXCEPT ![b] = NoProfile]
    /\ lock' = [p \in Profiles |-> IF lock[p] = b THEN Stale ELSE lock[p]]
    /\ UNCHANGED <<sessionVars, contexts, ask, inside, raced>>

(* With the sidecar its browsers end; on a signal it closes them first.      *)
RestartWithContexts ==
    /\ SidecarRestart
    /\ contexts' = [p \in Profiles |-> NoBrowser]
    /\ ask' = [r \in Calls |-> NoAsk]
    /\ running' = [b \in Browsers |-> NoProfile]
    /\ \E left \in {Free, Stale} :
          lock' = [p \in Profiles |-> IF lock[p] = Free THEN Free ELSE left]
    /\ inside' = [s \in Sessions |-> NoBrowser]
    /\ raced' = {}

(* What does not reach a browser.                                            *)
Elsewhere ==
    /\ \/ \E r \in Calls : \/ ClosePage(r)
                          \/ StartAnswered(r) \/ ClickAnswered(r) \/ ViewAnswered(r) \/ CloseAnswered(r)
                          \/ GiveUp(r) \/ Discard(r)
       \/ \E s \in Sessions : Overdue(s)
       \/ ApiRestart
    /\ UNCHANGED contextVars

ContextsNext ==
    \/ \E r \in Calls :
          \/ \E p \in Profiles : FindForLogin(r, p) \/ FindForProbe(r, p)
          \/ Judge(r) \/ RemoveLock(r) \/ Register(r) \/ EndProbe(r)
          \/ \E b \in Browsers : Launch(r, b)
          \/ \E by \in [key : Keys, job : Jobs \cup {NoJob}] : Call(r, by)
          \/ \E s \in Sessions : OpenPageInContext(r, s)
          \/ RequireInContext(r) \/ CallFailsInContext(r)
    \/ \E b \in Browsers : BrowserDies(b)
    \/ RestartWithContexts
    \/ Elsewhere

ContextsSpec == ContextsInit /\ [][ContextsNext]_browserVars

----------------------------------------------------------------------------
(* Properties.                                                               *)

ContextsTypeOK ==
    /\ contexts \in [Profiles -> Browsers \cup {NoBrowser}]
    /\ ask \in [Calls -> [pc : {"none", "judge", "remove", "launch", "register", "ready"},
                          profile : Profiles \cup {NoProfile},
                          browser : Browsers \cup {NoBrowser},
                          seen : Browsers \cup {Free, Stale}]]
    /\ running \in [Browsers -> Profiles \cup {NoProfile}]
    /\ lock \in [Profiles -> Browsers \cup {Free, Stale}]
    /\ inside \in [Sessions -> Browsers \cup {NoBrowser}]
    /\ raced \subseteq Profiles

(* One browser runs on a profile, however many requests find no context at   *)
(* once, unless a lock was removed by a request that had judged the one      *)
(* before it.                                                                *)
OneBrowser ==
    \A p \in Profiles \ raced :
        \A a, b \in Browsers : running[a] = p /\ running[b] = p => a = b

(* Whoever works in a profile works in the browser the map names: what a     *)
(* user logs in to is what later probes see.                                 *)
SharedContext ==
    \A p \in Profiles \ raced :
        /\ \A s \in Sessions : inside[s] \in Browsers /\ running[inside[s]] = p
                                 => contexts[p] = inside[s]
        /\ \A r \in Calls : In(r, "ready") /\ ask[r].profile = p /\ Runs(ask[r].browser)
                              => contexts[p] = ask[r].browser
=============================================================================
