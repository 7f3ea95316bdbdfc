------------------------------ MODULE ApiKeys ------------------------------
(***************************************************************************)
(* The api_keys table, the administrator's handlers that change it, and    *)
(* the seeding of the administrator's key when the API starts.  A handler  *)
(* authorises its request first and acts on what it read then: the key may *)
(* be revoked in between.  A statement or a transaction of the store is    *)
(* one step; it either commits or leaves the table as it was.              *)
(*                                                                         *)
(* A secret stands for its hash: the column is UNIQUE, and rows are never  *)
(* deleted.  Labels, permissions and download limits are left out.         *)
(***************************************************************************)

CONSTANTS
    KeyIds,    \* ids of rows of api_keys
    NoKey,     \* no row
    Secrets,   \* the secrets keys are made from
    NoSecret,  \* RK_API_KEY is not set
    Callers    \* requests in flight

ASSUME KeyAssumption == NoKey \notin KeyIds /\ NoSecret \notin Secrets

VARIABLES
    row,         \* api_keys: no row, an active key, or one with revoked_at
    role,        \* api_keys.role
    secret,      \* api_keys.key_hash
    up,          \* whether the API runs
    configured,  \* RK_API_KEY as of this boot
    advised,     \* the secret this boot's warning says to rotate to
    caller,      \* the key each request was authorised with
    dropped      \* auxiliary: an administrator's key was revoked and not replaced

keyRows == <<row, role, secret>>
keyVars == <<keyRows, up, configured, advised, caller, dropped>>

KeysInit ==
    /\ row = [k \in KeyIds |-> "none"]
    /\ role = [k \in KeyIds |-> "user"]
    /\ secret = [k \in KeyIds |-> NoSecret]
    /\ up = FALSE
    /\ configured = NoSecret
    /\ advised = NoSecret
    /\ caller = [c \in Callers |-> NoKey]
    /\ dropped = FALSE

ActiveAdmin(k) == row[k] = "active" /\ role[k] = "admin"
HasAdmin == \E k \in KeyIds : ActiveAdmin(k)
Unused(s) == \A k \in KeyIds : row[k] # "none" => secret[k] # s

Insert(k, r, s) ==
    /\ row[k] = "none"
    /\ Unused(s)
    /\ role' = [role EXCEPT ![k] = r]
    /\ secret' = [secret EXCEPT ![k] = s]

----------------------------------------------------------------------------
(* Requests.                                                                 *)

(* find_api_key: an active row with the hash of the secret that was sent.    *)
Authorize(c, k) ==
    /\ up
    /\ caller[c] = NoKey
    /\ row[k] = "active"
    /\ caller' = [caller EXCEPT ![c] = k]
    /\ UNCHANGED <<keyRows, up, configured, advised, dropped>>

Calling(c) == caller[c] \in KeyIds
ByAdmin(c) == Calling(c) /\ role[caller[c]] = "admin"
Answered(c) == caller' = [caller EXCEPT ![c] = NoKey]

(* The request is refused, fails, or its client goes away.                   *)
EndRequest(c) ==
    /\ Calling(c)
    /\ Answered(c)
    /\ UNCHANGED <<keyRows, up, configured, advised, dropped>>

CreateUserKey(c, k, s) ==
    /\ ByAdmin(c)
    /\ Insert(k, "user", s)
    /\ row' = [row EXCEPT ![k] = "active"]
    /\ Answered(c)
    /\ UNCHANGED <<up, configured, advised, dropped>>

(* Any row, the administrator's own included.                                *)
RevokeKey(c, k) ==
    /\ ByAdmin(c)
    /\ row[k] = "active"
    /\ row' = [row EXCEPT ![k] = "revoked"]
    /\ dropped' = (dropped \/ role[k] = "admin")
    /\ Answered(c)
    /\ UNCHANGED <<role, secret, up, configured, advised>>

AdminsRevoked == [k \in KeyIds |-> IF ActiveAdmin(k) THEN "revoked" ELSE row[k]]

(* rotate_admin_key: one transaction revokes the administrators' keys and    *)
(* inserts the new one.                                                      *)
RotateAdminKey(c, k, s) ==
    /\ ByAdmin(c)
    /\ Insert(k, "admin", s)
    /\ row' = [AdminsRevoked EXCEPT ![k] = "active"]
    /\ dropped' = FALSE
    /\ Answered(c)
    /\ UNCHANGED <<up, configured, advised>>

(* Fault: the two statements of a rotation are not one transaction.          *)
RotateRefusedHalfway(c, s) ==
    /\ ByAdmin(c)
    /\ ~Unused(s)
    /\ row' = AdminsRevoked
    /\ Answered(c)
    /\ UNCHANGED <<role, secret, up, configured, advised, dropped>>

(* The insert meets a row with the same hash: the transaction rolls back.    *)
RotateRefused(c, s) ==
    /\ ByAdmin(c)
    /\ ~Unused(s)
    /\ Answered(c)
    /\ UNCHANGED <<keyRows, up, configured, advised, dropped>>

----------------------------------------------------------------------------
(* The process.                                                              *)

(* Fault: the configured secret is seeded whenever it is not in the table.   *)
BootSeedsAgain(s) ==
    /\ ~up
    /\ up' = TRUE
    /\ configured' = s
    /\ IF s = NoSecret \/ ~Unused(s)
       THEN UNCHANGED <<keyRows, dropped>>
       ELSE /\ dropped' = FALSE
            /\ \E k \in KeyIds : /\ Insert(k, "admin", s)
                                 /\ row' = [row EXCEPT ![k] = "active"]
    /\ advised' = NoSecret
    /\ UNCHANGED caller

(* AppState::new with RK_API_KEY = s: seed it unless some administrator's    *)
(* key is active, then warn when it is not the administrator's.  A seed that *)
(* meets a row with its hash fails, and the process does not start.          *)
Boot(s) ==
    /\ ~up
    /\ up' = TRUE
    /\ configured' = s
    /\ IF s = NoSecret \/ HasAdmin
       THEN UNCHANGED <<keyRows, dropped>>
       ELSE /\ dropped' = FALSE
            /\ \E k \in KeyIds : /\ Insert(k, "admin", s)
                                 /\ row' = [row EXCEPT ![k] = "active"]
    /\ advised' = IF s = NoSecret \/ (\E k \in KeyIds : ActiveAdmin(k)' /\ secret'[k] = s)
                  THEN NoSecret ELSE s
    /\ UNCHANGED caller

Shutdown ==
    /\ up
    /\ up' = FALSE
    /\ configured' = NoSecret
    /\ advised' = NoSecret
    /\ caller' = [c \in Callers |-> NoKey]
    /\ UNCHANGED <<keyRows, dropped>>

KeyRequest(c) ==
    \/ \E k \in KeyIds : Authorize(c, k) \/ RevokeKey(c, k)
    \/ \E k \in KeyIds, s \in Secrets : CreateUserKey(c, k, s) \/ RotateAdminKey(c, k, s)
    \/ \E s \in Secrets : RotateRefused(c, s)
    \/ EndRequest(c)

KeysNext ==
    \/ \E c \in Callers : KeyRequest(c)
    \/ \E s \in Secrets \cup {NoSecret} : Boot(s)
    \/ Shutdown

KeysSpec == KeysInit /\ [][KeysNext]_keyVars

----------------------------------------------------------------------------
(* Properties.                                                               *)

(* The shape of the table and of the requests in flight.                     *)
KeysTypeOK ==
    /\ row \in [KeyIds -> {"none", "active", "revoked"}]
    /\ role \in [KeyIds -> {"user", "admin"}]
    /\ secret \in [KeyIds -> Secrets \cup {NoSecret}]
    /\ up \in BOOLEAN
    /\ configured \in Secrets \cup {NoSecret}
    /\ advised \in Secrets \cup {NoSecret}
    /\ caller \in [Callers -> KeyIds \cup {NoKey}]
    /\ dropped \in BOOLEAN

(* There is never a second administrator's key in force: neither two         *)
(* rotations that were authorised by the same key, nor a boot after a        *)
(* rotation, leave two.                                                      *)
OneAdmin == \A k1, k2 \in KeyIds : ActiveAdmin(k1) /\ ActiveAdmin(k2) => k1 = k2

(* A rotation that fails half-way locks nobody out: while the API runs with  *)
(* a configured secret there is an administrator's key in force, unless one  *)
(* was revoked through the keys page and nothing has replaced it.            *)
AdminRemains == up /\ configured # NoSecret => HasAdmin \/ dropped
=============================================================================
