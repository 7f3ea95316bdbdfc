--------------------------- MODULE ArchiveOutputs --------------------------
(***************************************************************************)
(* What persist_page_snapshot does before and after its three passes.  It  *)
(* drops the page_html rows and the page directory of an earlier archive   *)
(* of the job; it ends with nine outputs in a fixed order, each written    *)
(* beside the page directory, most of them also into it, and entered as a  *)
(* row of artifacts; the last is a zip of the page directory.  The first   *)
(* error ends the run wherever it is.                                      *)
(*                                                                         *)
(* Only the page directory is replaced.  The outputs of an earlier archive *)
(* lie in the job's directory until they are overwritten, and those that   *)
(* are not written this time stay there without a row.  The list of files  *)
(* that is written into the page directory before the zip is part of it.   *)
(***************************************************************************)
EXTENDS PageArchive

CONSTANTS
    Wanted,  \* what optional outputs the settings admit and the snapshot has
    Earlier  \* the outputs of an earlier archive of the job, with their rows

Required == {"page.html", "index.html", "page.txt", "resources.json", "archive.zip"}
Optional == {"screenshot.png", "archive.mhtml", "archive.har", "archive.warc"}
Outputs == Required \cup Optional

Order == <<"page.html", "index.html", "page.txt", "screenshot.png", "resources.json",
           "archive.mhtml", "archive.har", "archive.warc", "archive.zip">>

(* The others are in the page directory too, page.html as two files.         *)
BesidePageOnly == {"index.html", "archive.zip"}

ASSUME OutputsAssumption ==
    /\ Wanted \subseteq SUBSET Optional
    /\ Earlier \subseteq SUBSET Outputs

VARIABLES
    stage,   \* how far the run has come
    at,      \* the output that comes next
    wanted,  \* the optional outputs of this run
    rows,    \* the page_html rows, by file name
    beside,  \* the outputs in the job's directory: which run has written them
    page,    \* the page directory apart from assets/: parts of outputs, "earlier" for leftovers
    zipped   \* what the zip of this run holds

outputVars == <<stage, at, wanted, rows, beside, page, zipped>>
vars == <<archiveVars, outputVars>>

NoZip == [page |-> {}, assets |-> {}]

Init ==
    /\ ArchiveInit
    /\ stage = "begin"
    /\ at = 1
    /\ wanted = {}
    /\ rows \in Earlier
    /\ beside = [o \in Outputs |-> IF o \in rows THEN "earlier" ELSE "none"]
    /\ page = IF rows = {} THEN {} ELSE {"earlier"}
    /\ zipped = NoZip

(* An error: in what comes before the outputs, or while one is being written.*)
Fail == stage' = "failed"

----------------------------------------------------------------------------
(* Fault: the rows of the earlier archive stay until they are replaced.      *)
ClearFilesOnly ==
    /\ stage = "begin"
    /\ page' \in {{}, page}
    /\ stage' \in {"passes", "failed"}
    /\ UNCHANGED <<archiveVars, at, wanted, rows, beside, zipped>>

(* The rows go first.  That the directory cannot be removed is not an error, *)
(* that it cannot be made is one.                                            *)
Clear ==
    /\ stage = "begin"
    /\ rows' = {}
    /\ page' \in {{}, page}
    /\ stage' \in {"passes", "failed"}
    /\ UNCHANGED <<archiveVars, at, wanted, beside, zipped>>

CopyAssets ==
    /\ stage = "passes"
    /\ ArchiveNext
    /\ UNCHANGED outputVars

(* The rows cannot be dropped, a directory or an asset cannot be written.    *)
FailBefore ==
    /\ stage \in {"begin", "passes"}
    /\ Fail
    /\ UNCHANGED <<archiveVars, at, wanted, rows, beside, page, zipped>>

(* The archived texts are rewritten; the settings and the snapshot have been *)
(* known all along and matter from here on.                                  *)
FinishAssets ==
    /\ stage = "passes"
    /\ pass = "done"
    /\ stage' = "outputs"
    /\ wanted' \in Wanted
    /\ UNCHANGED <<archiveVars, at, rows, beside, page, zipped>>

----------------------------------------------------------------------------
(* The outputs.                                                              *)

Writing(o) == stage = "outputs" /\ o = Order[at] /\ o \in Required \cup wanted

(* A WARC without a response is removed again.                               *)
Due == Required \cup {o \in wanted : o = "archive.warc" => archived # <<>>}

(* The WARC reads every copy, the zip everything in the page directory.      *)
Readable(o) == o = "archive.warc" => \A i \in DOMAIN archived : archived[i].name \in DOMAIN files

InPage(o) == page \cup ({o} \ BesidePageOnly)

WriteOutput(o) ==
    /\ Writing(o)
    /\ o \in Due
    /\ Readable(o)
    /\ beside' = [beside EXCEPT ![o] = "this"]
    /\ page' = InPage(o)
    /\ rows' = rows \cup {o}
    /\ IF o = "archive.zip"
       THEN /\ zipped' = [page |-> page, assets |-> DOMAIN files]
            /\ stage' = "done"
            /\ UNCHANGED at
       ELSE at' = at + 1 /\ UNCHANGED <<zipped, stage>>
    /\ UNCHANGED <<archiveVars, wanted>>

PassOutput(o) ==
    /\ stage = "outputs"
    /\ o = Order[at]
    /\ o \notin Due
    /\ beside' = IF o \in wanted THEN [beside EXCEPT ![o] = "none"] ELSE beside
    /\ at' = at + 1
    /\ UNCHANGED <<archiveVars, stage, wanted, rows, page, zipped>>

(* Anything may fail: the file is as it was, cut off or whole, its part in   *)
(* the page directory written or not, and the row not entered.               *)
LoseOutput(o) ==
    /\ Writing(o)
    /\ Fail
    /\ \/ beside' \in {beside, [beside EXCEPT ![o] = "cut"]} /\ UNCHANGED page
       \/ o \in Due /\ beside' = [beside EXCEPT ![o] = "this"] /\ page' \in {page, InPage(o)}
    /\ UNCHANGED <<archiveVars, at, wanted, rows, zipped>>

(* insert_artifact: a file above max_download_bytes is removed, an error.    *)
OversizeOutput(o) ==
    /\ Writing(o)
    /\ o \in Due
    /\ Fail
    /\ beside' = [beside EXCEPT ![o] = "none"]
    /\ page' = InPage(o)
    /\ UNCHANGED <<archiveVars, at, wanted, rows, zipped>>

Next ==
    \/ Clear \/ CopyAssets \/ FailBefore \/ FinishAssets
    \/ \E o \in Outputs : WriteOutput(o) \/ PassOutput(o) \/ LoseOutput(o) \/ OversizeOutput(o)

Spec == Init /\ [][Next]_vars

----------------------------------------------------------------------------
(* Properties.                                                               *)

(* The rows of a page archive are of one run and lead to whole files of that *)
(* run: a row is entered after its file, and the rows of the earlier run go  *)
(* before the first file is overwritten, whatever fails in between.          *)
RowsOfOneRun ==
    \E run \in {"earlier", "this"} : \A o \in rows : beside[o] = run

(* A run that ends without an error has entered every output that is due,    *)
(* the zip among them, to which the URL of the ready job leads, and the zip  *)
(* holds every copy and the part of every output that has one; of an earlier *)
(* archive only what could not be removed.                                   *)
DoneIsWhole ==
    stage = "done" =>
        /\ rows = Due
        /\ zipped.page \ {"earlier"} = Due \ BesidePageOnly
        /\ zipped.assets = DOMAIN files
        /\ zipped.page \subseteq page

ArchiveIsOfOneRun == RowsOfOneRun /\ DoneIsWhole
=============================================================================
