--------------------------- MODULE AccountsProofs ---------------------------
(***************************************************************************)
(* Proofs about the administrator's keys and the history of the job list,  *)
(* for every set of keys, secrets, requests and jobs and every bound.      *)
(***************************************************************************)
EXTENDS JobHistory, TLAPS

(* The inductive invariant of the keys.                                      *)
KeysInv == KeysTypeOK /\ OneAdmin /\ AdminRemains

(* An insertion makes one row, and leaves the others' roles and secrets.     *)
LEMMA InsertKeeps ==
    ASSUME KeysTypeOK, NEW k \in KeyIds, NEW r \in {"user", "admin"}, NEW s \in Secrets, Insert(k, r, s)
    PROVE  /\ row[k] = "none"
           /\ role' \in [KeyIds -> {"user", "admin"}]
           /\ secret' \in [KeyIds -> Secrets \cup {NoSecret}]
           /\ role'[k] = r
           /\ \A x \in KeyIds \ {k} : role'[x] = role[x]
BY DEF Insert, KeysTypeOK

(* Every step of the keys keeps the table well formed, with one              *)
(* administrator at most, and with one unless it was revoked.                *)
LEMMA KeysStep ==
    ASSUME KeysInv, [KeysNext]_keyVars
    PROVE  KeysInv'
<1> USE DEF KeysInv
<1>1. ASSUME NEW c \in Callers, NEW k \in KeyIds, Authorize(c, k)
      PROVE  KeysInv'
  BY <1>1 DEF Authorize, KeysTypeOK, OneAdmin, AdminRemains, HasAdmin, ActiveAdmin, keyRows
<1>2. ASSUME NEW c \in Callers, NEW k \in KeyIds, RevokeKey(c, k)
      PROVE  KeysInv'
  BY <1>2 DEF RevokeKey, Answered, KeysTypeOK, OneAdmin, AdminRemains, HasAdmin, ActiveAdmin
<1>3. ASSUME NEW c \in Callers, NEW k \in KeyIds, NEW s \in Secrets, CreateUserKey(c, k, s)
      PROVE  KeysInv'
  <2>1. Insert(k, "user", s) /\ row' = [row EXCEPT ![k] = "active"]
    BY <1>3 DEF CreateUserKey
  <2>2. \A x \in KeyIds : ActiveAdmin(x)' <=> ActiveAdmin(x)
    BY <2>1, InsertKeeps DEF ActiveAdmin, KeysTypeOK
  <2>3. KeysTypeOK'
    BY <1>3, <2>1, InsertKeeps DEF CreateUserKey, Answered, KeysTypeOK
  <2> QED
    BY <1>3, <2>2, <2>3 DEF CreateUserKey, OneAdmin, AdminRemains, HasAdmin
<1>4. ASSUME NEW c \in Callers, NEW k \in KeyIds, NEW s \in Secrets, RotateAdminKey(c, k, s)
      PROVE  KeysInv'
  <2>1. Insert(k, "admin", s) /\ row' = [AdminsRevoked EXCEPT ![k] = "active"]
    BY <1>4 DEF RotateAdminKey
  <2>2. AdminsRevoked \in [KeyIds -> {"none", "active", "revoked"}]
    BY DEF AdminsRevoked, KeysTypeOK
  <2>3. \A x \in KeyIds : ActiveAdmin(x)' <=> x = k
    BY <2>1, <2>2, InsertKeeps DEF ActiveAdmin, AdminsRevoked, KeysTypeOK
  <2>4. KeysTypeOK'
    BY <1>4, <2>1, <2>2, InsertKeeps DEF RotateAdminKey, Answered, KeysTypeOK
  <2> QED
    BY <2>3, <2>4 DEF OneAdmin, AdminRemains, HasAdmin
<1>5. ASSUME NEW c \in Callers, NEW s \in Secrets, RotateRefused(c, s)
      PROVE  KeysInv'
  BY <1>5 DEF RotateRefused, Answered, KeysTypeOK, OneAdmin, AdminRemains, HasAdmin, ActiveAdmin, keyRows
<1>6. ASSUME NEW c \in Callers, EndRequest(c)
      PROVE  KeysInv'
  BY <1>6 DEF EndRequest, Answered, KeysTypeOK, OneAdmin, AdminRemains, HasAdmin, ActiveAdmin, keyRows
<1>7. ASSUME NEW s \in Secrets \cup {NoSecret}, Boot(s)
      PROVE  KeysInv'
  <2>1. CASE s = NoSecret \/ HasAdmin
    BY <1>7, <2>1 DEF Boot, KeysTypeOK, OneAdmin, AdminRemains, HasAdmin, ActiveAdmin, keyRows
  <2>2. CASE ~(s = NoSecret \/ HasAdmin)
    <3>1. PICK k \in KeyIds : Insert(k, "admin", s) /\ row' = [row EXCEPT ![k] = "active"]
      BY <1>7, <2>2 DEF Boot
    <3>2. \A x \in KeyIds : ActiveAdmin(x)' <=> x = k
      BY <3>1, <2>2, InsertKeeps DEF ActiveAdmin, HasAdmin, KeysTypeOK
    <3>3. KeysTypeOK'
      BY <1>7, <2>2, <3>1, InsertKeeps DEF Boot, KeysTypeOK
    <3> QED
      BY <3>2, <3>3 DEF OneAdmin, AdminRemains, HasAdmin
  <2> QED
    BY <2>1, <2>2
<1>8. CASE Shutdown
  BY <1>8 DEF Shutdown, KeysTypeOK, OneAdmin, AdminRemains, HasAdmin, ActiveAdmin, keyRows
<1>9. CASE UNCHANGED keyVars
  BY <1>9 DEF keyVars, KeysTypeOK, OneAdmin, AdminRemains, HasAdmin, ActiveAdmin, keyRows
<1> QED
  BY <1>1, <1>2, <1>3, <1>4, <1>5, <1>6, <1>7, <1>8, <1>9 DEF KeysNext, KeyRequest

(* The invariant of the keys holds from the empty table on.                  *)
THEOREM KeysInvariant == KeysSpec => []KeysInv
<1>1. KeysInit => KeysInv
  BY DEF KeysInit, KeysInv, KeysTypeOK, OneAdmin, AdminRemains, HasAdmin, ActiveAdmin
<1>2. KeysInv /\ [KeysNext]_keyVars => KeysInv'
  BY KeysStep
<1> QED
  BY <1>1, <1>2, PTL DEF KeysSpec

----------------------------------------------------------------------------
(* The history of the job list runs on the keys: each of its requests is, to *)
(* the keys, a request that ends or a step that does not concern them.       *)
LEMMA HistoryIsKeys == [HistoryNext]_accountVars => [KeysNext]_keyVars
<1>1. ASSUME NEW c \in Callers, Calling(c), Answered(c), KeysKeep
      PROVE  KeysNext
  BY <1>1 DEF KeysNext, KeyRequest, EndRequest, KeysKeep
<1>2. ASSUME NEW c \in Callers, HistoryRequest(c)
      PROVE  [KeysNext]_keyVars
  BY <1>1, <1>2 DEF HistoryRequest, CreateJob, HideJobs, ReadLatest, RestoreBatch
<1>3. CASE KeysMove
  BY <1>3 DEF KeysMove, KeysNext, KeyRequest
<1>4. ASSUME NEW ids \in SUBSET Jobs, SweepRead(ids)
      PROVE  UNCHANGED keyVars
  BY <1>4 DEF SweepRead
<1>5. ASSUME NEW j \in Jobs, SweepHide(j)
      PROVE  UNCHANGED keyVars
  BY <1>5 DEF SweepHide
<1>6. CASE UNCHANGED accountVars
  BY <1>6 DEF accountVars
<1> QED
  BY <1>2, <1>3, <1>4, <1>5, <1>6 DEF HistoryNext

(* The module of the history implements the module of the keys.              *)
THEOREM HistoryImplementsKeys == HistorySpec => KeysSpec
<1>1. HistoryInit => KeysInit
  BY DEF HistoryInit
<1> QED
  BY <1>1, HistoryIsKeys, PTL DEF HistorySpec, KeysSpec

(* At most one administrator's key is in force, whatever requests to rotate  *)
(* race each other and whatever secrets the process is started with.         *)
THEOREM OneAdminAlways == HistorySpec => []OneAdmin
<1>1. KeysInv => OneAdmin
  BY DEF KeysInv
<1> QED
  BY <1>1, HistoryImplementsKeys, KeysInvariant, PTL

(* A configured API always has an administrator's key in force unless one    *)
(* was revoked and not replaced.                                             *)
THEOREM AdminAlwaysRemains == HistorySpec => []AdminRemains
<1>1. KeysInv => AdminRemains
  BY DEF KeysInv
<1> QED
  BY <1>1, HistoryImplementsKeys, KeysInvariant, PTL

----------------------------------------------------------------------------
(* The inductive invariant of the history.  A batch that is yet to be made   *)
(* is empty, so a new batch replaces none; the batches of a user's key hold  *)
(* jobs of that key, whose role and whose ownership never change.            *)
HistoryShape ==
    /\ owner \in [Jobs -> KeyIds \cup {NoKey}]
    /\ hidden \subseteq Jobs
    /\ batches \in 0 .. MaxBatches
    /\ batch \in [Batches -> [actor : KeyIds \cup {NoKey}, jobs : SUBSET Jobs, open : BOOLEAN]]
    /\ sweep \subseteq Jobs
    /\ swept \subseteq Jobs

Used(k) == k \in KeyIds => row[k] # "none"

UsersBatches ==
    /\ \A c \in Callers : Used(caller[c])
    /\ \A b \in Batches : Used(batch[b].actor)
    /\ \A b \in Batches : b > batches => batch[b] = Unmade
    /\ \A b \in Batches : batch[b].actor \in KeyIds /\ role[batch[b].actor] = "user"
                           => \A j \in batch[b].jobs : owner[j] = batch[b].actor

HistoryInv == KeysInv /\ HistoryShape /\ UsersBatches /\ HiddenOnce

(* What a step of the keys leaves alone: the roles of rows that exist, and   *)
(* the fact that they do.                                                    *)
LEMMA KeysKeepRows ==
    ASSUME KeysInv, [KeysNext]_keyVars, NEW k \in KeyIds, row[k] # "none"
    PROVE  row'[k] # "none" /\ role'[k] = role[k]
<1>1. KeysTypeOK
  BY DEF KeysInv
<1>2. CASE UNCHANGED keyRows
  BY <1>2 DEF keyRows
<1>3. ASSUME NEW c \in Callers, NEW x \in KeyIds, RevokeKey(c, x)
      PROVE  row'[k] # "none" /\ role'[k] = role[k]
  BY <1>1, <1>3 DEF RevokeKey, KeysTypeOK
<1>4. ASSUME NEW c \in Callers, NEW x \in KeyIds, NEW s \in Secrets,
             CreateUserKey(c, x, s) \/ RotateAdminKey(c, x, s)
      PROVE  row'[k] # "none" /\ role'[k] = role[k]
  BY <1>1, <1>4, InsertKeeps DEF CreateUserKey, RotateAdminKey, AdminsRevoked, KeysTypeOK
<1>5. ASSUME NEW s \in Secrets \cup {NoSecret}, Boot(s)
      PROVE  row'[k] # "none" /\ role'[k] = role[k]
  <2>1. CASE s = NoSecret \/ HasAdmin
    BY <1>5, <2>1 DEF Boot, keyRows
  <2>2. CASE ~(s = NoSecret \/ HasAdmin)
    <3>1. PICK x \in KeyIds : Insert(x, "admin", s) /\ row' = [row EXCEPT ![x] = "active"]
      BY <1>5, <2>2 DEF Boot
    <3> QED
      BY <1>1, <2>2, <3>1, InsertKeeps DEF KeysTypeOK
  <2> QED
    BY <2>1, <2>2
<1> QED
  BY <1>2, <1>3, <1>4, <1>5
     DEF KeysNext, KeyRequest, Authorize, RotateRefused, EndRequest, Shutdown, keyVars

(* A request is authorised by a row that exists, and stays so.               *)
LEMMA CallersUsed ==
    ASSUME HistoryInv, [KeysNext]_keyVars
    PROVE  \A c \in Callers : Used(caller[c])'
<1> SUFFICES ASSUME NEW c \in Callers, caller'[c] \in KeyIds
             PROVE  row'[caller'[c]] # "none"
  BY DEF Used
<1>1. KeysInv /\ KeysTypeOK /\ Used(caller[c])
  BY DEF HistoryInv, KeysInv, UsersBatches
<1>2. caller'[c] = caller[c] \/ (row[caller'[c]] = "active")
  <2>1. ASSUME NEW d \in Callers, KeyRequest(d)
        PROVE  caller'[c] = caller[c] \/ row[caller'[c]] = "active"
    BY <1>1, <2>1, KeyAssumption
       DEF KeyRequest, Authorize, RevokeKey, CreateUserKey, RotateAdminKey, RotateRefused,
           EndRequest, Answered, KeysTypeOK
  <2>2. CASE Shutdown
    BY <2>2, KeyAssumption DEF Shutdown
  <2> QED
    BY <2>1, <2>2 DEF KeysNext, Boot, keyVars
<1>3. row[caller'[c]] # "none"
  BY <1>1, <1>2 DEF Used
<1> QED
  BY <1>1, <1>3, KeysKeepRows

(* While the jobs and the batches stay, so does all that is said of them.    *)
LEMMA BatchesStay ==
    ASSUME HistoryInv, [KeysNext]_keyVars, UNCHANGED <<batches, batch>>,
           \A j \in Jobs : owner[j] # NoKey => owner'[j] = owner[j]
    PROVE  UsersBatches'
<1>1. KeysInv /\ HistoryShape /\ UsersBatches
  BY DEF HistoryInv
<1>2. \A b \in Batches : Used(batch[b].actor)'
  BY <1>1, KeysKeepRows DEF Used, UsersBatches
<1>3. ASSUME NEW b \in Batches, batch[b].actor \in KeyIds, role'[batch[b].actor] = "user",
             NEW j \in batch[b].jobs
      PROVE  owner'[j] = batch[b].actor
  <2>1. row[batch[b].actor] # "none"
    BY <1>1, <1>3 DEF UsersBatches, Used
  <2>2. role[batch[b].actor] = "user"
    BY <1>1, <1>3, <2>1, KeysKeepRows
  <2>3. owner[j] = batch[b].actor /\ j \in Jobs
    BY <1>1, <1>3, <2>2 DEF UsersBatches, HistoryShape
  <2> QED
    BY <2>3, <1>3, KeyAssumption
<1> QED
  BY <1>1, <1>2, <1>3, CallersUsed DEF UsersBatches

(* Clearing the list: the jobs of the new batch were visible, hence in no    *)
(* open batch, and its number is fresh.                                      *)
LEMMA HideKeepsOnce ==
    ASSUME HistoryInv, NEW c \in Callers, HideJobs(c)
    PROVE  HistoryShape' /\ HiddenOnce' /\ UsersBatches'
<1> DEFINE jobs == Clearable(c)
<1>1. KeysInv /\ KeysTypeOK /\ HistoryShape /\ UsersBatches /\ HiddenOnce
  BY DEF HistoryInv, KeysInv
<1>2. [KeysNext]_keyVars
  BY HistoryIsKeys DEF HistoryNext, HistoryRequest
<1>3. jobs \subseteq Visible /\ jobs \subseteq Jobs
  BY DEF Clearable, Visible
<1>4. CASE jobs = {}
  <2>1. UNCHANGED <<owner, hidden, batches, batch, sweep, swept>>
    BY <1>4 DEF HideJobs
  <2>2. HistoryShape' /\ HiddenOnce'
    BY <1>1, <2>1 DEF HistoryShape, HiddenOnce, HeldBy
  <2>3. UsersBatches'
    BY <1>2, <2>1, BatchesStay
  <2> QED
    BY <2>2, <2>3
<1>5. CASE jobs # {}
  <2> DEFINE n == batches + 1
             made == [actor |-> caller[c], jobs |-> jobs, open |-> TRUE]
  <2>1. /\ n \in Batches /\ batches' = n
        /\ batch' = [batch EXCEPT ![n] = made]
        /\ hidden' = hidden \cup jobs
        /\ UNCHANGED <<owner, sweep, swept>>
    <3>1. batches < MaxBatches /\ batches' = n
      BY <1>5 DEF HideJobs
    <3>2. batches \in Nat /\ n \in Batches
      BY <3>1, <1>1, HistoryAssumption DEF HistoryShape, Batches
    <3> QED
      BY <1>5, <3>1, <3>2 DEF HideJobs
  <2>2. caller[c] \in KeyIds /\ row[caller[c]] # "none"
    BY <1>1 DEF HideJobs, Calling, UsersBatches, Used
  <2>3. batch[n] = Unmade /\ batch'[n] = made
    BY <1>1, <2>1, HistoryAssumption DEF UsersBatches, HistoryShape, Batches
  <2>4. \A b \in Batches \ {n} : batch'[b] = batch[b]
    BY <1>1, <2>1 DEF HistoryShape
  <2>5. HistoryShape'
    <3>1. made \in [actor : KeyIds \cup {NoKey}, jobs : SUBSET Jobs, open : BOOLEAN]
      BY <1>3, <2>2
    <3>2. batches' \in 0 .. MaxBatches
      BY <2>1, HistoryAssumption DEF Batches
    <3> QED
      BY <1>1, <1>3, <2>1, <3>1, <3>2 DEF HistoryShape
  <2>6. \A j \in Jobs : HeldBy(j)' = IF j \in jobs THEN HeldBy(j) \cup {n} ELSE HeldBy(j)
    <3> SUFFICES ASSUME NEW j \in Jobs, NEW b \in Batches
                 PROVE  b \in HeldBy(j)' <=> b \in HeldBy(j) \/ (j \in jobs /\ b = n)
      BY <2>1 DEF HeldBy
    <3>1. CASE b = n
      BY <2>3, <3>1 DEF HeldBy, Unmade
    <3>2. CASE b # n
      BY <2>4, <3>2 DEF HeldBy
    <3> QED
      BY <3>1, <3>2
  <2>7. \A j \in jobs : HeldBy(j) = {}
    BY <1>1, <1>3 DEF HiddenOnce, Visible
  <2>8. HiddenOnce'
    <3> SUFFICES ASSUME NEW j \in Jobs
                 PROVE  /\ HeldBy(j)' # {} => j \in hidden'
                        /\ \A b1, b2 \in HeldBy(j)' : b1 = b2
                        /\ j \in hidden' => HeldBy(j)' # {} \/ j \in swept'
      BY DEF HiddenOnce
    <3>1. CASE j \in jobs
      BY <2>1, <2>6, <2>7, <3>1
    <3>2. CASE j \notin jobs
      BY <1>1, <2>1, <2>6, <3>2 DEF HiddenOnce
    <3> QED
      BY <3>1, <3>2
  <2>9. UsersBatches'
    <3>1. \A x \in Callers : Used(caller[x])'
      BY <1>2, CallersUsed
    <3>2. row' = row /\ role' = role
      BY DEF HideJobs, KeysKeep, keyRows
    <3>3. \A b \in Batches : Used(batch[b].actor)'
      BY <1>1, <2>2, <2>3, <2>4, <3>2 DEF Used, UsersBatches
    <3>4. \A b \in Batches : b > batches' => batch'[b] = Unmade
      BY <1>1, <2>1, <2>4, HistoryAssumption DEF UsersBatches, Batches, HistoryShape
    <3>5. \A b \in Batches : batch'[b].actor \in KeyIds /\ role'[batch'[b].actor] = "user"
                           => \A j \in batch'[b].jobs : owner'[j] = batch'[b].actor
      <4>1. role[caller[c]] = "user" => \A j \in jobs : owner[j] = caller[c]
        BY DEF Clearable, ByAdmin
      <4> QED
        BY <1>1, <2>1, <2>3, <2>4, <3>2, <4>1 DEF UsersBatches
    <3> QED
      BY <2>1, <3>1, <3>3, <3>4, <3>5 DEF UsersBatches
  <2> QED
    BY <2>5, <2>8, <2>9
<1> QED
  BY <1>4, <1>5

(* Restoring a batch shows the jobs it alone holds.                          *)
LEMMA RestoreKeepsOnce ==
    ASSUME HistoryInv, NEW c \in Callers, NEW b \in Batches, RestoreBatch(c, b)
    PROVE  HistoryShape' /\ HiddenOnce' /\ UsersBatches'
<1>1. KeysInv /\ HistoryShape /\ UsersBatches /\ HiddenOnce
  BY DEF HistoryInv
<1>2. [KeysNext]_keyVars
  BY HistoryIsKeys DEF HistoryNext, HistoryRequest
<1>3. CASE b \notin Restorable(c)
  <2>1. UNCHANGED <<owner, hidden, batches, batch, sweep, swept>>
    BY <1>3 DEF RestoreBatch
  <2>2. HistoryShape' /\ HiddenOnce'
    BY <1>1, <2>1 DEF HistoryShape, HiddenOnce, HeldBy
  <2>3. UsersBatches'
    BY <1>2, <2>1, BatchesStay
  <2> QED
    BY <2>2, <2>3
<1>4. CASE b \in Restorable(c)
  <2>1. /\ batch' = [batch EXCEPT ![b].open = FALSE]
        /\ hidden' = hidden \ batch[b].jobs
        /\ UNCHANGED <<owner, batches, sweep, swept>>
    BY <1>4 DEF RestoreBatch
  <2>2. batch[b].open
    BY <1>4 DEF Restorable
  <2>3. /\ \A x \in Batches \ {b} : batch'[x] = batch[x]
        /\ batch'[b] = [batch[b] EXCEPT !.open = FALSE]
    BY <1>1, <2>1 DEF HistoryShape
  <2>4. /\ batch[b] \in [actor : KeyIds \cup {NoKey}, jobs : SUBSET Jobs, open : BOOLEAN]
        /\ batch'[b].jobs = batch[b].jobs /\ batch'[b].actor = batch[b].actor /\ ~batch'[b].open
    BY <1>1, <2>3 DEF HistoryShape
  <2>5. HistoryShape'
    BY <1>1, <2>1 DEF HistoryShape
  <2>6. \A j \in Jobs : HeldBy(j)' = HeldBy(j) \ {b}
    BY <2>3, <2>4 DEF HeldBy
  <2>7. \A j \in batch[b].jobs : b \in HeldBy(j)
    BY <2>2 DEF HeldBy
  <2>8. HiddenOnce'
    <3> SUFFICES ASSUME NEW j \in Jobs
                 PROVE  /\ HeldBy(j)' # {} => j \in hidden'
                        /\ \A b1, b2 \in HeldBy(j)' : b1 = b2
                        /\ j \in hidden' => HeldBy(j)' # {} \/ j \in swept'
      BY DEF HiddenOnce
    <3>1. CASE j \in batch[b].jobs
      <4>1. HeldBy(j)' = {}
        BY <1>1, <2>6, <2>7, <3>1 DEF HiddenOnce
      <4> QED
        BY <2>1, <3>1, <4>1
    <3>2. CASE j \notin batch[b].jobs
      <4>1. HeldBy(j)' = HeldBy(j)
        BY <2>6, <3>2 DEF HeldBy
      <4> QED
        BY <1>1, <2>1, <3>2, <4>1 DEF HiddenOnce
    <3> QED
      BY <3>1, <3>2
  <2>9. UsersBatches'
    <3>1. \A x \in Callers : Used(caller[x])'
      BY <1>2, CallersUsed
    <3>2. row' = row /\ role' = role
      BY DEF RestoreBatch, KeysKeep, keyRows
    <3>3. ~(b > batches)
      BY <1>1, <2>2 DEF UsersBatches, Unmade
    <3> QED
      BY <1>1, <2>1, <2>3, <2>4, <3>1, <3>2, <3>3 DEF UsersBatches, Used
  <2> QED
    BY <2>5, <2>8, <2>9
<1> QED
  BY <1>3, <1>4

(* Every step of the history keeps its invariant.                            *)
LEMMA HistoryStep ==
    ASSUME HistoryInv, [HistoryNext]_accountVars
    PROVE  HistoryInv'
<1>1. KeysInv /\ HistoryShape /\ UsersBatches /\ HiddenOnce
  BY DEF HistoryInv
<1>2. [KeysNext]_keyVars
  BY HistoryIsKeys
<1>3. KeysInv'
  BY <1>1, <1>2, KeysStep
<1>4. ASSUME UNCHANGED <<owner, hidden, batches, batch, swept>>, sweep' \subseteq Jobs
      PROVE  HistoryShape' /\ HiddenOnce' /\ UsersBatches'
  BY <1>1, <1>2, <1>4, BatchesStay DEF HistoryShape, HiddenOnce, HeldBy
<1>5. ASSUME NEW c \in Callers, NEW j \in Jobs, CreateJob(c, j)
      PROVE  HistoryShape' /\ HiddenOnce' /\ UsersBatches'
  <2>1. /\ owner' = [owner EXCEPT ![j] = caller[c]] /\ owner[j] = NoKey
        /\ UNCHANGED <<hidden, batches, batch, sweep, swept>>
    BY <1>5 DEF CreateJob
  <2>2. HistoryShape' /\ HiddenOnce'
    BY <1>1, <1>5, <2>1 DEF CreateJob, Calling, HistoryShape, HiddenOnce, HeldBy
  <2>3. \A x \in Jobs : owner[x] # NoKey => owner'[x] = owner[x]
    BY <1>1, <2>1 DEF HistoryShape
  <2> QED
    BY <1>2, <2>1, <2>2, <2>3, BatchesStay
<1>6. ASSUME NEW j \in Jobs, SweepHide(j)
      PROVE  HistoryShape' /\ HiddenOnce' /\ UsersBatches'
  <2>1. UNCHANGED <<batches, batch, owner>>
    BY <1>6 DEF SweepHide
  <2>2. \A x \in Jobs : HeldBy(x)' = HeldBy(x)
    BY <2>1 DEF HeldBy
  <2>3. HistoryShape' /\ HiddenOnce'
    BY <1>1, <1>6, <2>1, <2>2 DEF SweepHide, HistoryShape, HiddenOnce
  <2> QED
    BY <1>2, <2>1, <2>3, BatchesStay
<1>7. ASSUME NEW ids \in SUBSET Jobs, SweepRead(ids)
      PROVE  HistoryShape' /\ HiddenOnce' /\ UsersBatches'
  BY <1>4, <1>7 DEF SweepRead
<1>8. CASE KeysMove
  <2>1. UNCHANGED <<owner, hidden, batches, batch, swept>>
    BY <1>8 DEF KeysMove
  <2>2. sweep' \subseteq Jobs
    BY <1>1, <1>8 DEF KeysMove, HistoryShape
  <2> QED
    BY <1>3, <1>4, <2>1, <2>2 DEF HistoryInv
<1>9. ASSUME NEW c \in Callers, ReadLatest(c)
      PROVE  HistoryShape' /\ HiddenOnce' /\ UsersBatches'
  BY <1>1, <1>4, <1>9 DEF ReadLatest, HistoryShape
<1>10. CASE UNCHANGED accountVars
  <2>1. UNCHANGED <<owner, hidden, batches, batch, sweep, swept>>
    BY <1>10 DEF accountVars, historyVars
  <2> QED
    BY <1>1, <1>3, <1>4, <2>1 DEF HistoryShape, HistoryInv
<1>11. ASSUME NEW c \in Callers, HistoryRequest(c)
      PROVE  HistoryShape' /\ HiddenOnce' /\ UsersBatches'
  <2>1. CASE HideJobs(c)
    BY <2>1, HideKeepsOnce
  <2>2. ASSUME NEW b \in Batches, RestoreBatch(c, b)
        PROVE  HistoryShape' /\ HiddenOnce' /\ UsersBatches'
    BY <2>2, RestoreKeepsOnce
  <2> QED
    BY <1>5, <1>9, <1>11, <2>1, <2>2 DEF HistoryRequest
<1> QED
  BY <1>3, <1>6, <1>7, <1>8, <1>10, <1>11 DEF HistoryNext, HistoryInv

(* A step that ends a request of a user's key and changes what is hidden     *)
(* clears or restores that key's jobs.                                       *)
LEMMA UserStep ==
    ASSUME HistoryInv, [HistoryNext]_accountVars, hidden' # hidden,
           NEW c \in Callers, Calling(c), ~Calling(c)', ~ByAdmin(c),
           NEW j \in Jobs, (j \in hidden) # (j \in hidden')
    PROVE  owner[j] = caller[c]
<1>1. KeysTypeOK /\ HistoryShape /\ UsersBatches
  BY DEF HistoryInv, KeysInv
<1>2. role[caller[c]] = "user"
  BY <1>1 DEF ByAdmin, Calling, KeysTypeOK
<1>3. ASSUME NEW d \in Callers, Calling(d), Answered(d)
      PROVE  d = c
  BY <1>1, <1>3 DEF Calling, Answered, KeysTypeOK
<1>4. ASSUME NEW d \in Callers, HideJobs(d)
      PROVE  owner[j] = caller[c]
  <2>1. d = c
    BY <1>3, <1>4 DEF HideJobs
  <2>2. j \in Clearable(c)
    BY <1>4, <2>1 DEF HideJobs
  <2> QED
    BY <2>2 DEF Clearable
<1>5. ASSUME NEW d \in Callers, NEW b \in Batches, RestoreBatch(d, b)
      PROVE  owner[j] = caller[c]
  <2>1. d = c
    BY <1>3, <1>5 DEF RestoreBatch
  <2>2. b \in Restorable(c) /\ j \in batch[b].jobs
    BY <1>5, <2>1 DEF RestoreBatch
  <2>3. batch[b].actor = caller[c]
    BY <2>2 DEF Restorable, MayRestore
  <2> QED
    BY <1>1, <1>2, <2>2, <2>3 DEF UsersBatches, Calling
<1>6. ASSUME NEW x \in Jobs, SweepHide(x)
      PROVE  FALSE
  BY <1>6 DEF SweepHide, keyVars, Calling
<1> QED
  BY <1>4, <1>5, <1>6 DEF HistoryNext, HistoryRequest, KeysMove, CreateJob, ReadLatest, SweepRead,
                          accountVars, historyVars

(* The invariant of the history holds from the empty database on.            *)
THEOREM HistoryInvariant == HistorySpec => []HistoryInv
<1>1. HistoryInit => HistoryInv
  <2> SUFFICES ASSUME HistoryInit
               PROVE  HistoryInv
    OBVIOUS
  <2>1. KeysInv
    BY DEF HistoryInit, KeysInit, KeysInv, KeysTypeOK, OneAdmin, AdminRemains, HasAdmin, ActiveAdmin
  <2>2. HistoryShape
    BY HistoryAssumption DEF HistoryInit, HistoryShape, Unmade
  <2>3. UsersBatches
    BY KeyAssumption DEF HistoryInit, KeysInit, UsersBatches, Used, Unmade
  <2>4. HiddenOnce
    BY DEF HistoryInit, HiddenOnce, HeldBy, Unmade
  <2> QED
    BY <2>1, <2>2, <2>3, <2>4 DEF HistoryInv
<1>2. HistoryInv /\ [HistoryNext]_accountVars => HistoryInv'
  BY HistoryStep
<1> QED
  BY <1>1, <1>2, PTL DEF HistorySpec

(* Clearing the list loses no job and clears none twice, for every number of *)
(* requests that clear and restore beside the retention sweep.               *)
THEOREM HiddenOnceAlways == HistorySpec => []HiddenOnce
<1>1. HistoryInv => HiddenOnce
  BY DEF HistoryInv
<1> QED
  BY <1>1, HistoryInvariant, PTL

(* A user's key hides and shows jobs of its own only, whatever it read       *)
(* before and whoever cleared the list in between.                           *)
THEOREM OwnJobsAlways == HistorySpec => OwnJobsOnly
<1> DEFINE Own == \A c \in Callers : Calling(c) /\ ~Calling(c)' /\ ~ByAdmin(c) /\ hidden' # hidden
                     => \A j \in Jobs : (j \in hidden) # (j \in hidden') => owner[j] = caller[c]
<1>1. HistoryInv /\ [HistoryNext]_accountVars => [Own]_accountVars
  BY UserStep
<1>2. OwnJobsOnly <=> [][Own]_accountVars
  BY PTL DEF OwnJobsOnly
<1> QED
  BY <1>1, <1>2, HistoryInvariant, PTL DEF HistorySpec
=============================================================================
