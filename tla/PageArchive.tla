---------------------------- MODULE PageArchive ----------------------------
(***************************************************************************)
(* One run of persist_page_snapshot.  The resources the browser captured   *)
(* are copied to assets/, then what archived stylesheets refer to, then    *)
(* what the page and archived texts refer to; each pass works through a    *)
(* list it makes longer.  A map from references to copies is kept beside   *)
(* the copies, and in the end it rewrites the page and the texts.          *)
(*                                                                         *)
(* A document is the sequence of references it contains.  "absolute" is    *)
(* written with its origin, "rooted" without it, and "relative" has no     *)
(* slash in front, which only the scan of a stylesheet resolves.  (What    *)
(* begins with ./ or ../ is fetched from a text too, but its copy gets no  *)
(* key of that form: such references of texts are left out.)  A reference  *)
(* of a script is resolved against the script's URL, as in the code.  URLs *)
(* have no fragment.                                                       *)
(*                                                                         *)
(* Two predicates choose the documents.  The pass over stylesheets reads   *)
(* what is css, the pass over texts and the rewriting what is textual; a   *)
(* stylesheet known only by its resource type is the first and not the     *)
(* second.  Each of them reads a copy as UTF-8 and passes over one that is *)
(* not, without a record.                                                  *)
(* ArchiveOutputs adds what comes before and after the passes.             *)
(***************************************************************************)
EXTENDS Naturals, Sequences, FiniteSets

CONSTANTS
    Urls,      \* http and https URLs
    NoUrl,
    Page,      \* the page: its final URL, and its html
    Origin,    \* scheme, host and port
    Path,      \* path and query
    FileName,  \* the name unique_asset_name makes of host and last segment
    NoName,
    Size,      \* bytes of the body, and of the html
    Utf8,      \* those whose body read_to_string accepts
    Hint,      \* what a dependency is taken for by its extension
    Writes,    \* the references in a document
    Snapshots, \* what the sidecar may have captured: distinct archivable URLs
    Limits     \* resources, bytes in all, declared for one, downloaded for one

(* "sheet" is a stylesheet by nothing but its resource_type.                 *)
Kinds == {"css", "sheet", "text", "other"}
IsCss(kind) == kind \in {"css", "sheet"}
IsTextual(kind) == kind \in {"css", "text"}

Documents == Urls \cup {Page}
Reference == [form : {"absolute", "rooted", "relative"}, to : Urls]
Resource == [url : Urls, kind : Kinds, embedded : BOOLEAN, declared : Nat]
Limit == [count : Nat, total : Nat, declared : Nat, one : Nat]

ASSUME ArchiveAssumption ==
    /\ Page \notin Urls /\ NoUrl \notin Urls
    /\ NoName \notin [nth : Nat, base : {FileName[u] : u \in Urls}]
    /\ Size \in [Documents -> Nat]
    /\ Utf8 \subseteq Urls
    /\ Hint \in [Urls -> Kinds \ {"sheet"}]
    /\ Writes \in [Documents -> Seq(Reference)]
    /\ \A d \in Documents : \A i \in DOMAIN Writes[d] :
          Writes[d][i].form # "absolute" => Origin[Writes[d][i].to] = Origin[d]
    /\ \A s \in Snapshots : s \in Seq(Resource)
    /\ Limits \subseteq Limit

VARIABLES
    snapshot,  \* snapshot.resources
    limits,    \* the effective settings
    pass,      \* which loop is running
    next,      \* its index, of the snapshot or of archived
    doc,       \* the document that is being scanned
    todo,      \* positions of its references that are not dealt with yet
    late,      \* whether archive_deadline has passed
    archived,  \* archive.archived_resources
    total,     \* archive.total_bytes
    used,      \* archive.used_asset_paths
    files,     \* the files in assets/, by name: whose body they hold
    rewrites,  \* archive.rewrites
    noted      \* archive.resource_records: what was skipped or has failed

input == <<snapshot, limits>>
place == <<pass, next, doc, todo>>
store == <<archived, total, used, files, rewrites>>
archiveVars == <<input, place, late, store, noted>>

Absolute(u) == [form |-> "absolute", at |-> u]
Rooted(u)   == [form |-> "rooted", at |-> Path[u]]
RewriteKeys == {Absolute(u) : u \in Urls} \cup {Rooted(u) : u \in Urls}

(* What a reference is replaced by: nothing, a copy, or a URL.               *)
Leave   == [name |-> NoName, web |-> NoUrl]
Copy(n) == [name |-> n, web |-> NoUrl]
Web(u)  == [name |-> NoName, web |-> u]

ArchiveInit ==
    /\ snapshot \in Snapshots
    /\ limits \in Limits
    /\ pass = "captured"
    /\ next = 1
    /\ doc = Page
    /\ todo = {}
    /\ late = FALSE
    /\ archived = <<>>
    /\ total = Size[Page]
    /\ used = {}
    /\ files = <<>>
    /\ rewrites = [k \in RewriteKeys |-> Leave]
    /\ noted = {}

Deadline ==
    /\ pass # "done"
    /\ ~late
    /\ late' = TRUE
    /\ UNCHANGED <<input, place, store, noted>>

----------------------------------------------------------------------------
(* Copying one resource.                                                     *)

Remaining == limits.total - total
Spent == total >= limits.total

(* Fault: the second name is not looked up.                                  *)
UniqueNameOnce(u) ==
    LET plain == [nth |-> 0, base |-> FileName[u]]
    IN  IF plain \in used THEN [plain EXCEPT !.nth = 1] ELSE plain

(* unique_asset_name: the plain name or the first prefixed one that is free. *)
UniqueName(u) ==
    LET Nth(n) == [nth |-> n, base |-> FileName[u]]
    IN  Nth(CHOOSE n \in 0..Cardinality(used) :
                Nth(n) \notin used /\ \A m \in 0..(n - 1) : Nth(m) \in used)

(* Fault: only the reference with the origin leads to the copy.              *)
KeysOfAbsolute(base, u) == {Absolute(u)}

(* insert_page_rewrites: also without the origin, if it is that of the base. *)
KeysOf(base, u) ==
    {Absolute(u)} \cup (IF Origin[u] = Origin[base] THEN {Rooted(u)} ELSE {})

(* Fault: the bytes of a download are not held against what remains.         *)
KeepOverdrawn(u, kind, base) ==
    LET name == UniqueName(u) IN
    /\ archived' = Append(archived, [url |-> u, kind |-> kind, name |-> name])
    /\ total' = total + Size[u]
    /\ used' = used \cup {name}
    /\ files' = [n \in DOMAIN files \cup {name} |-> IF n = name THEN u ELSE files[n]]
    /\ rewrites' = [k \in RewriteKeys |-> IF k \in KeysOf(base, u) THEN Copy(name) ELSE rewrites[k]]
    /\ UNCHANGED noted

Keep(u, kind, base) ==
    LET name == UniqueName(u) IN
    /\ Size[u] <= Remaining
    /\ archived' = Append(archived, [url |-> u, kind |-> kind, name |-> name])
    /\ total' = total + Size[u]
    /\ used' = used \cup {name}
    /\ files' = [n \in DOMAIN files \cup {name} |-> IF n = name THEN u ELSE files[n]]
    /\ rewrites' = [k \in RewriteKeys |-> IF k \in KeysOf(base, u) THEN Copy(name) ELSE rewrites[k]]
    /\ UNCHANGED noted

(* The name is taken, the file of it, if there is one by now, removed.       *)
Lose(u) ==
    /\ used' = used \cup {UniqueName(u)}
    /\ noted' = noted \cup {u}
    /\ UNCHANGED <<archived, total, files>>

Skip(u) ==
    /\ noted' = noted \cup {u}
    /\ UNCHANGED store

----------------------------------------------------------------------------
(* The captured resources, as many of them as the limit admits.              *)

AtResource ==
    /\ pass = "captured"
    /\ next \in DOMAIN snapshot
    /\ next <= limits.count

Resourced == /\ next' = next + 1
             /\ UNCHANGED <<input, pass, doc, todo, late>>

Unfit(r) == late \/ Spent \/ r.declared > limits.declared \/ r.declared > Remaining

SkipResource ==
    /\ AtResource
    /\ Unfit(snapshot[next])
    /\ Skip(snapshot[next].url)
    /\ Resourced

(* An embedded body is written as it is; only a download has a size limit.   *)
KeepResource ==
    LET r == snapshot[next] IN
    /\ AtResource
    /\ ~Unfit(r)
    /\ r.embedded \/ Size[r.url] <= limits.one
    /\ Keep(r.url, r.kind, Page)
    /\ Resourced

LoseResource ==
    /\ AtResource
    /\ ~Unfit(snapshot[next])
    /\ Lose(snapshot[next].url)
    /\ UNCHANGED rewrites
    /\ Resourced

----------------------------------------------------------------------------
(* The references of stylesheets and of texts.                               *)

(* text_asset_references sorts them and drops what occurs twice.             *)
Positions(d) ==
    {i \in DOMAIN Writes[d] :
        pass' = "text" => \A j \in 1..(i - 1) : Writes[d][j] # Writes[d][i]}

(* It is in the archive already, or has failed in the pass over texts.       *)
Known(u) == (\E i \in DOMAIN archived : archived[i].url = u) \/ rewrites[Absolute(u)] # Leave

Resolves(ref) == pass = "css" \/ ref.form # "relative"
OverLimit == late \/ Len(archived) >= limits.count \/ Spent

At(i) == pass \in {"css", "text"} /\ i \in todo
Handled(i) == /\ todo' = todo \ {i}
              /\ UNCHANGED <<input, pass, next, doc, late>>

SkipReference(i) ==
    /\ At(i)
    /\ OverLimit
    /\ Skip(Writes[doc][i].to)
    /\ Handled(i)

PassReference(i) ==
    /\ At(i)
    /\ ~OverLimit
    /\ ~Resolves(Writes[doc][i]) \/ Known(Writes[doc][i].to)
    /\ Handled(i)
    /\ UNCHANGED <<store, noted>>

Fetching(i) ==
    /\ At(i)
    /\ ~OverLimit
    /\ Resolves(Writes[doc][i])
    /\ ~Known(Writes[doc][i].to)

KeepReference(i) ==
    LET u == Writes[doc][i].to IN
    /\ Fetching(i)
    /\ Size[u] <= limits.one
    /\ Keep(u, Hint[u], doc)
    /\ Handled(i)

(* The pass over texts makes a reference that failed lead to the web.        *)
LoseReference(i) ==
    LET ref == Writes[doc][i]
        key == IF ref.form = "absolute" THEN Absolute(ref.to) ELSE Rooted(ref.to) IN
    /\ Fetching(i)
    /\ Lose(ref.to)
    /\ rewrites' = IF pass = "css" THEN rewrites ELSE [rewrites EXCEPT ![key] = Web(ref.to)]
    /\ Handled(i)

(* The URL policy; only the pass over texts asks it before it takes a name.  *)
RefuseReference(i) ==
    /\ Fetching(i)
    /\ pass = "text"
    /\ Skip(Writes[doc][i].to)
    /\ Handled(i)

----------------------------------------------------------------------------
(* From one document to the next, and from one pass to the next.             *)

Chosen(kind) == IF pass = "css" THEN IsCss(kind) ELSE IsTextual(kind)

Legible(d) == d = Page \/ d \in Utf8

NextDocument ==
    /\ pass \in {"css", "text"}
    /\ todo = {}
    /\ next \in DOMAIN archived
    /\ next' = next + 1
    /\ UNCHANGED pass
    /\ IF Chosen(archived[next].kind) /\ Legible(archived[next].url)
       THEN doc' = archived[next].url /\ todo' = Positions(doc')
       ELSE UNCHANGED <<doc, todo>>
    /\ UNCHANGED <<input, late, store, noted>>

(* Fault: a pass ends with the last captured resource.                       *)
NextPassOfCaptured ==
    /\ pass # "done"
    /\ ~AtResource
    /\ todo = {}
    /\ pass \in {"css", "text"} => next \notin DOMAIN archived \cap DOMAIN snapshot
    /\ pass' = CASE pass = "captured" -> "css" [] pass = "css" -> "text" [] pass = "text" -> "done"
    /\ next' = 1
    /\ doc' = Page
    /\ todo' = IF pass' = "text" THEN Positions(Page) ELSE {}
    /\ UNCHANGED <<input, late, store, noted>>

(* The pass over texts begins with the page itself.                          *)
NextPass ==
    /\ pass # "done"
    /\ ~AtResource
    /\ todo = {}
    /\ pass \in {"css", "text"} => next \notin DOMAIN archived
    /\ pass' = CASE pass = "captured" -> "css" [] pass = "css" -> "text" [] pass = "text" -> "done"
    /\ next' = 1
    /\ doc' = Page
    /\ todo' = IF pass' = "text" THEN Positions(Page) ELSE {}
    /\ UNCHANGED <<input, late, store, noted>>

ArchiveNext ==
    \/ Deadline
    \/ SkipResource \/ KeepResource \/ LoseResource
    \/ \E i \in todo : \/ SkipReference(i) \/ PassReference(i) \/ KeepReference(i)
                       \/ LoseReference(i) \/ RefuseReference(i)
    \/ NextDocument \/ NextPass

----------------------------------------------------------------------------
(* Rewriting, when the passes are done.                                      *)

(* rewrite_css_urls: by the URL a reference of a stylesheet resolves to.     *)
InStylesheet(ref) ==
    IF rewrites[Absolute(ref.to)] # Leave THEN rewrites[Absolute(ref.to)] ELSE Web(ref.to)

(* rewrite_archive_text_references: by the characters of the reference.  (It *)
(* replaces them inside of longer ones too: an absolute reference that is in *)
(* no copy is damaged by a rooted one with the same path.)                   *)
InText(ref) ==
    CASE ref.form = "absolute" -> rewrites[Absolute(ref.to)]
      [] ref.form = "rooted"   -> rewrites[Rooted(ref.to)]
      [] ref.form = "relative" -> Leave

(* rewrite_archived_text_files; a document it passes over stays as it is.    *)
Rewritten(d, kind) == IsTextual(kind) /\ Legible(d)

LeadsTo(d, kind, ref) ==
    CASE ~Rewritten(d, kind) -> Leave
      [] Rewritten(d, kind) /\ kind = "css"  -> InStylesheet(ref)
      [] Rewritten(d, kind) /\ kind = "text" -> InText(ref)

----------------------------------------------------------------------------
(* Properties.                                                               *)

(* However the passes share them, the limits hold: the html and the copies   *)
(* stay below the total unless the html alone exceeds it, and there are no   *)
(* more copies than resources are allowed.                                   *)
WithinLimits ==
    /\ total <= limits.total \/ archived = <<>>
    /\ Len(archived) <= limits.count

(* Every copy has a file of its own that holds its bytes, and there are no   *)
(* others: neither a name that is used twice nor a failed download leaves    *)
(* anything else behind.                                                     *)
OwnCopies ==
    /\ \A i \in DOMAIN archived :
          archived[i].name \in DOMAIN files /\ files[archived[i].name] = archived[i].url
    /\ \A i, j \in DOMAIN archived : archived[i].name = archived[j].name => i = j
    /\ DOMAIN files = {archived[i].name : i \in DOMAIN archived}

(* A reference to an archived resource is replaced by its copy: always if it *)
(* is written with its origin or in a stylesheet, and one that begins at the *)
(* root on a page all of whose copies are of its own origin.  Excepted are   *)
(* the documents nobody rewrites: what is not UTF-8, and a stylesheet known  *)
(* only by its resource type, lead to the web although the copies are there. *)
Archived(u) == \E i \in DOMAIN archived : archived[i].url = u
OneOrigin == \A i \in DOMAIN archived : Origin[archived[i].url] = Origin[Page]

Shows(d, kind, ref) ==
    /\ Archived(ref.to)
    /\ ref.form = "absolute" \/ kind = "css" \/ (ref.form = "rooted" /\ OneOrigin)
    => /\ LeadsTo(d, kind, ref).name \in DOMAIN files
       /\ files[LeadsTo(d, kind, ref).name] = ref.to

ArchivedIsShown ==
    pass = "done" =>
        /\ \A i \in DOMAIN Writes[Page] : Shows(Page, "text", Writes[Page][i])
        /\ \A k \in DOMAIN archived : \A i \in DOMAIN Writes[archived[k].url] :
              IsTextual(archived[k].kind) /\ archived[k].url \in Utf8
                  => Shows(archived[k].url, archived[k].kind, Writes[archived[k].url][i])

(* Nothing is overlooked: whatever a copied document refers to is in the     *)
(* archive, or the records say that it was skipped or could not be fetched.  *)
(* Of the page and of textual documents this excepts what only the scan of a *)
(* stylesheet resolves; for a stylesheet known only by its resource type it  *)
(* excepts nothing.  A document that is not UTF-8 is overlooked altogether.  *)
Accounted(u) == Archived(u) \/ u \in noted

NothingMissed ==
    pass = "done" =>
        \A d \in Documents : \A i \in DOMAIN Writes[d] :
            LET ref == Writes[d][i] IN
            \/ d = Page /\ ref.form # "relative"
            \/ \E k \in DOMAIN archived :
                  /\ archived[k].url = d /\ d \in Utf8
                  /\ \/ IsTextual(archived[k].kind) /\ ref.form # "relative"
                     \/ archived[k].kind = "sheet"
            => Accounted(ref.to)
=============================================================================
