--------------------------- MODULE RuntimeSettings ---------------------------
(***************************************************************************)
(* The runtime settings: a table of the values an administrator has set,   *)
(* updated field by field in one transaction (update_runtime_settings of   *)
(* job_store.rs), and the limits a job reads from it                       *)
(* (EffectiveRuntimeSettings and effective_limits_for_job of state.rs).    *)
(*                                                                         *)
(* Two of the fields stand for all of them: they are written in the order  *)
(* of Fields, each after its range is checked.  Sizes are in MiB, the unit *)
(* of the table.                                                           *)
(***************************************************************************)
EXTENDS Integers, Sequences

CONSTANTS
    Fields,        \* the numeric settings, in the order they are written
    Ranges,        \* field -> [min, max], as validate_range is called
    Config,        \* field -> the value of the process's environment
    Forms,         \* the requests an administrator may send
    MaxUpdates     \* bound on the number of requests

Unset == 0
NoLimit == -1   \* of a key without a limit of its own
FieldNames == {Fields[i] : i \in DOMAIN Fields}
InRange(f, v) == Ranges[f].min <= v /\ v <= Ranges[f].max

ASSUME SettingsAssumption ==
    /\ Fields \in Seq(STRING)
    /\ "max_download_mb" \in FieldNames
    /\ Ranges \in [FieldNames -> [min : Nat \ {0}, max : Nat]]
    /\ Config \in [FieldNames -> Nat]
    /\ Forms \subseteq [FieldNames -> Nat]
    /\ MaxUpdates \in Nat

VARIABLES
    stored,     \* runtime_settings: the committed value of each field
    draft,      \* what the open transaction would commit
    form,       \* the request it serves; all fields unset when there is none
    position,   \* the fields written so far
    updates     \* requests so far, bounded

settings == <<stored, draft, form, position, updates>>

NoForm == [f \in FieldNames |-> Unset]

SettingsInit ==
    /\ stored = NoForm /\ draft = NoForm /\ form = NoForm
    /\ position = 0 /\ updates = 0

Open == position # 0
Field == Fields[position]

BeginUpdate ==
    /\ ~Open
    /\ updates < MaxUpdates
    /\ \E request \in Forms : form' = request
    /\ position' = 1
    /\ draft' = stored
    /\ updates' = updates + 1
    /\ UNCHANGED stored

Closed == position' = 0 /\ form' = NoForm /\ draft' = NoForm

\* A field that is given is checked against its range, then upserted.
WriteField ==
    /\ Open /\ position <= Len(Fields)
    /\ form[Field] = Unset \/ InRange(Field, form[Field])
    /\ draft' = IF form[Field] = Unset THEN draft ELSE [draft EXCEPT ![Field] = form[Field]]
    /\ position' = position + 1
    /\ UNCHANGED <<stored, form, updates>>

\* A value out of its range ends the request, and the transaction with it.
RefuseField ==
    /\ Open /\ position <= Len(Fields)
    /\ form[Field] # Unset /\ ~InRange(Field, form[Field])
    /\ Closed
    /\ UNCHANGED <<stored, updates>>

CommitUpdate ==
    /\ Open /\ position > Len(Fields)
    /\ stored' = draft
    /\ Closed
    /\ UNCHANGED updates

SettingsNext == BeginUpdate \/ WriteField \/ RefuseField \/ CommitUpdate

-----------------------------------------------------------------------------
\* from_config: a stored value replaces the one of the environment.
Effective(f) == IF stored[f] = Unset THEN Config[f] ELSE stored[f]

\* effective_limits_for_job: the key of the requester may lower the limit.
effective_limits_for_job(limit) ==
    LET general == Effective("max_download_mb")
    IN  IF limit # NoLimit /\ limit < general THEN limit ELSE general

SettingsTypeOK ==
    /\ stored \in [FieldNames -> Nat] /\ draft \in [FieldNames -> Nat]
    /\ form \in [FieldNames -> Nat]
    /\ position \in 0 .. Len(Fields) + 1
    /\ updates \in 0 .. MaxUpdates

(* update_runtime_settings is one transaction: the table changes only by all *)
(* the fields of one request, every one of them in its range.                *)
UpdatedAsAWhole ==
    [][stored' # stored =>
          /\ \A f \in FieldNames : form[f] # Unset => InRange(f, form[f])
          /\ stored' = [f \in FieldNames |-> IF form[f] = Unset THEN stored[f] ELSE form[f]]]_stored
=============================================================================
