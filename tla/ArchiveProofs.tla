--------------------------- MODULE ArchiveProofs ---------------------------
(***************************************************************************)
(* The rows of a page archive are of one run, a run without an error is    *)
(* whole, the limits hold, every copy has a file of its own, references to *)
(* what is archived lead to its copy, and none is overlooked: for every    *)
(* page, capture and limit, every choice of outputs, and wherever an error *)
(* ends the run.                                                           *)
(*                                                                         *)
(* For the outputs, the invariant says at every stage what rows and page   *)
(* directory hold: while they are written, exactly those that are due and  *)
(* come before the next one.  For the copies it says what budget and names *)
(* were when a copy was kept; the name is new because of as many numbers   *)
(* as there are names and one more, one must be free.  For the references  *)
(* it says where those to a copy lead already (Led), and which documents   *)
(* the pass over texts has behind it (Overseen).                           *)
(***************************************************************************)
EXTENDS ArchiveOutputs, FiniteSetTheorems, TLAPS

Places == 1..9

(* What has been written when the output at this place comes next.           *)
WrittenBefore(i) == {o \in Due : \E k \in 1..(i - 1) : Order[k] = o}

Typed ==
    /\ stage \in {"begin", "passes", "outputs", "done", "failed"}
    /\ at \in Places
    /\ wanted \subseteq Optional
    /\ rows \subseteq Outputs
    /\ beside \in [Outputs -> {"none", "earlier", "cut", "this"}]

Untouched == stage = "begin" => at = 1 /\ page \subseteq {"earlier"} /\ \A o \in rows : beside[o] = "earlier"

Cleared == stage = "passes" => at = 1 /\ page \subseteq {"earlier"} /\ rows = {}

InOrder ==
    stage = "outputs" =>
        /\ rows = WrittenBefore(at)
        /\ page \ {"earlier"} = rows \ BesidePageOnly
        /\ \A o \in rows : beside[o] = "this"

Staged == Typed /\ Untouched /\ Cleared /\ InOrder /\ ArchiveIsOfOneRun

----------------------------------------------------------------------------
(* The places of the outputs in their order.                                 *)
LEMMA Places9 ==
    /\ \A k \in Places : Order[k] \in Outputs
    /\ \A o \in Outputs : \E k \in Places : Order[k] = o
    /\ \A k, l \in Places : Order[k] = Order[l] => k = l
    /\ \A k \in Places : Order[k] = "archive.zip" => k = 9
    /\ "earlier" \notin Outputs
  BY DEF Places, Order, Outputs, Required, Optional

(* What has been written with one more place: that output too, if it is due. *)
LEMMA OneMore ==
    ASSUME NEW i \in Places
    PROVE  /\ Order[i] \notin WrittenBefore(i)
           /\ Order[i] \in Due => WrittenBefore(i + 1) = WrittenBefore(i) \cup {Order[i]}
           /\ Order[i] \notin Due => WrittenBefore(i + 1) = WrittenBefore(i)
  <1>1. 1..((i + 1) - 1) = 1..(i - 1) \cup {i}
    BY DEF Places
  <1>2. \A k \in 1..(i - 1) : k \in Places /\ k # i
    BY DEF Places
  <1>3. Order[i] \notin WrittenBefore(i)
    BY <1>2, Places9 DEF WrittenBefore
  <1> QED
    BY <1>1, <1>3 DEF WrittenBefore

(* Nothing has been written at the first place, all at the last but the zip. *)
LEMMA FirstAndLast ==
    /\ WrittenBefore(1) = {}
    /\ WrittenBefore(10) = Due \cap Outputs
  <1>1. 1..(1 - 1) = {} /\ 1..(10 - 1) = Places
    BY DEF Places
  <1> QED
    BY <1>1, Places9 DEF WrittenBefore

LEMMA DueAreOutputs == wanted \subseteq Optional => Due \subseteq Outputs
  BY DEF Due, Outputs, Required, Optional

LEMMA ZipIsDue == "archive.zip" \in Due /\ "archive.zip" \in BesidePageOnly
  BY DEF Due, Required, BesidePageOnly

----------------------------------------------------------------------------
LEMMA InitStaged == Init => Staged
  <1> SUFFICES ASSUME Init PROVE Staged
    OBVIOUS
  <1>1. rows \subseteq Outputs
    BY OutputsAssumption DEF Init
  <1>2. Typed
    BY <1>1 DEF Init, Typed, Places, Optional
  <1>3. Untouched
    BY <1>1 DEF Init, Untouched
  <1>4. RowsOfOneRun
    BY <1>1 DEF Init, RowsOfOneRun
  <1> QED
    BY <1>2, <1>3, <1>4 DEF Init, Staged, Cleared, InOrder, ArchiveIsOfOneRun, DoneIsWhole

LEMMA ClearStaged == Staged /\ Clear => Staged'
  <1> SUFFICES ASSUME Staged, Clear PROVE Staged'
    OBVIOUS
  <1>1. Typed' /\ Untouched' /\ Cleared' /\ InOrder'
    BY DEF Staged, Clear, Typed, Untouched, Cleared, InOrder, Places
  <1>2. RowsOfOneRun' /\ DoneIsWhole'
    BY DEF Clear, RowsOfOneRun, DoneIsWhole
  <1> QED
    BY <1>1, <1>2 DEF Staged, ArchiveIsOfOneRun

LEMMA CopyAssetsStaged == Staged /\ CopyAssets => Staged'
  BY DEF Staged, CopyAssets, outputVars, Typed, Untouched, Cleared, InOrder,
         ArchiveIsOfOneRun, RowsOfOneRun, DoneIsWhole

LEMMA FailBeforeStaged == Staged /\ FailBefore => Staged'
  BY DEF Staged, FailBefore, Fail, Typed, Untouched, Cleared, InOrder,
         ArchiveIsOfOneRun, RowsOfOneRun, DoneIsWhole

LEMMA FinishAssetsStaged == Staged /\ FinishAssets => Staged'
  <1> SUFFICES ASSUME Staged, FinishAssets PROVE Staged'
    OBVIOUS
  <1>1. at' = 1 /\ rows' = {} /\ page' \subseteq {"earlier"}
    BY DEF Staged, FinishAssets, Cleared
  <1>2. wanted' \subseteq Optional
    BY OutputsAssumption DEF FinishAssets
  <1>3. Typed' /\ Untouched' /\ Cleared'
    BY <1>2 DEF Staged, FinishAssets, Typed, Untouched, Cleared
  <1>4. WrittenBefore(1)' = {}
    <2>1. 1..(1 - 1) = {}
      OBVIOUS
    <2> QED
      BY <2>1 DEF WrittenBefore
  <1>5. InOrder'
    BY <1>1, <1>4 DEF InOrder, WrittenBefore
  <1>6. RowsOfOneRun' /\ DoneIsWhole'
    BY <1>1 DEF FinishAssets, RowsOfOneRun, DoneIsWhole
  <1> QED
    BY <1>3, <1>5, <1>6 DEF Staged, ArchiveIsOfOneRun

(* What the steps that write start from: the next output has no row yet.     *)
LEMMA NextIsUnwritten ==
    ASSUME Staged, stage = "outputs", NEW o \in Outputs, o = Order[at]
    PROVE  /\ o \notin rows
           /\ rows = WrittenBefore(at)
           /\ page \ {"earlier"} = rows \ BesidePageOnly
           /\ \A q \in rows : beside[q] = "this"
           /\ at \in Places
           /\ Due \subseteq Outputs
  BY OneMore, DueAreOutputs DEF Staged, Typed, InOrder

LEMMA WriteOutputStaged ==
    ASSUME Staged, NEW o \in Outputs, WriteOutput(o)
    PROVE  Staged'
  <1>1. stage = "outputs" /\ o = Order[at] /\ o \in Due
    BY DEF WriteOutput, Writing
  <1>2. /\ o \notin rows
        /\ rows = WrittenBefore(at)
        /\ page \ {"earlier"} = rows \ BesidePageOnly
        /\ \A q \in rows : beside[q] = "this"
        /\ at \in Places
        /\ Due \subseteq Outputs
    BY <1>1, NextIsUnwritten
  <1>3. rows' = WrittenBefore(at + 1)
    BY <1>1, <1>2, OneMore DEF WriteOutput
  <1>4. Due' = Due
    BY DEF WriteOutput, Due, archiveVars, store
  <1>5. \A q \in rows' : beside'[q] = "this"
    BY <1>2 DEF WriteOutput, Staged, Typed
  <1>6. page' = page \cup ({o} \ BesidePageOnly) /\ rows' = rows \cup {o}
    BY DEF WriteOutput, InPage
  <1>7. beside' \in [Outputs -> {"none", "earlier", "cut", "this"}] /\ wanted' \subseteq Optional
        /\ rows' \subseteq Outputs
    BY DEF WriteOutput, Staged, Typed
  <1>8. RowsOfOneRun'
    BY <1>5 DEF RowsOfOneRun
  <1>9. CASE o = "archive.zip"
    <2>1. at = 9
      BY <1>1, <1>2, <1>9, Places9
    <2>2. rows' = Due
      BY <1>2, <1>3, <2>1, FirstAndLast
    <2>3. /\ zipped' = [page |-> page, assets |-> DOMAIN files]
          /\ stage' = "done" /\ at' = at /\ files' = files
      BY <1>9 DEF WriteOutput, archiveVars, store
    <2>4. rows = Due \ {"archive.zip"}
      BY <1>2, <1>6, <1>9, <2>2
    <2>5. page \ {"earlier"} = Due \ BesidePageOnly
      BY <1>2, <2>4, ZipIsDue
    <2>6. DoneIsWhole'
      BY <1>4, <1>6, <2>2, <2>3, <2>5 DEF DoneIsWhole
    <2> QED
      BY <1>2, <1>7, <1>8, <2>3, <2>6
      DEF Staged, Typed, Untouched, Cleared, InOrder, ArchiveIsOfOneRun
  <1>10. CASE o # "archive.zip"
    <2>1. at' = at + 1 /\ stage' = stage /\ zipped' = zipped
      BY <1>10 DEF WriteOutput
    <2>2. at # 9
      BY <1>1, <1>10 DEF Order
    <2>3. at' \in Places
      BY <1>2, <2>1, <2>2 DEF Places
    <2>4. rows' = WrittenBefore(at)'
      BY <1>3, <1>4, <2>1 DEF WrittenBefore
    <2>5. o # "earlier"
      BY Places9
    <2>6. (page \ {"earlier"})' = (rows \ BesidePageOnly)'
      BY <1>2, <1>6, <2>5
    <2>7. InOrder'
      BY <1>5, <2>4, <2>6 DEF InOrder
    <2> QED
      BY <1>1, <1>7, <1>8, <2>1, <2>3, <2>7
      DEF Staged, Typed, Untouched, Cleared, ArchiveIsOfOneRun, DoneIsWhole
  <1> QED
    BY <1>9, <1>10

LEMMA PassOutputStaged ==
    ASSUME Staged, NEW o \in Outputs, PassOutput(o)
    PROVE  Staged'
  <1>1. stage = "outputs" /\ o = Order[at] /\ o \notin Due
    BY DEF PassOutput
  <1>2. /\ o \notin rows
        /\ rows = WrittenBefore(at)
        /\ page \ {"earlier"} = rows \ BesidePageOnly
        /\ \A q \in rows : beside[q] = "this"
        /\ at \in Places
        /\ Due \subseteq Outputs
    BY <1>1, NextIsUnwritten
  <1>3. at' = at + 1 /\ stage' = stage /\ rows' = rows /\ page' = page /\ wanted' = wanted
    BY DEF PassOutput
  <1>4. Due' = Due
    BY DEF PassOutput, Due, archiveVars, store
  <1>5. rows' = WrittenBefore(at)'
    BY <1>1, <1>2, <1>3, <1>4, OneMore DEF WrittenBefore
  <1>6. at' \in Places
    BY <1>1, <1>2, <1>3, ZipIsDue DEF Places, Order
  <1>7. beside' \in [Outputs -> {"none", "earlier", "cut", "this"}]
    BY DEF PassOutput, Staged, Typed
  <1>8. \A q \in rows' : beside'[q] = "this"
    BY <1>2, <1>3 DEF PassOutput, Staged, Typed
  <1>9. RowsOfOneRun'
    BY <1>8 DEF RowsOfOneRun
  <1>10. InOrder'
    BY <1>2, <1>3, <1>5, <1>8 DEF InOrder
  <1> QED
    BY <1>1, <1>3, <1>6, <1>7, <1>9, <1>10
    DEF Staged, Typed, Untouched, Cleared, ArchiveIsOfOneRun, DoneIsWhole

(* An error leaves the rows as they are and touches no file that has one.    *)
LEMMA BrokenOffStaged ==
    ASSUME Staged, NEW o \in Outputs, LoseOutput(o) \/ OversizeOutput(o)
    PROVE  Staged'
  <1>1. stage = "outputs" /\ o = Order[at]
    BY DEF LoseOutput, OversizeOutput, Writing
  <1>2. o \notin rows /\ \A q \in rows : beside[q] = "this"
    BY <1>1, NextIsUnwritten
  <1>3. /\ stage' = "failed" /\ rows' = rows /\ at' = at /\ wanted' = wanted
        /\ \/ beside' = beside
           \/ \E w \in {"none", "cut", "this"} : beside' = [beside EXCEPT ![o] = w]
    BY DEF LoseOutput, OversizeOutput, Fail
  <1>4. \A q \in rows' : beside'[q] = "this"
    BY <1>2, <1>3 DEF Staged, Typed
  <1>5. RowsOfOneRun'
    BY <1>4 DEF RowsOfOneRun
  <1>6. Typed'
    BY <1>3 DEF Staged, Typed
  <1> QED
    BY <1>3, <1>5, <1>6 DEF Staged, Untouched, Cleared, InOrder, ArchiveIsOfOneRun, DoneIsWhole

LEMMA StutterStaged == Staged /\ UNCHANGED vars => Staged'
  BY DEF Staged, vars, archiveVars, store, outputVars, Typed, Untouched, Cleared, InOrder,
         WrittenBefore, Due, ArchiveIsOfOneRun, RowsOfOneRun, DoneIsWhole

(* The rows of a page archive lead to whole files of one run at any time,    *)
(* and a run that ends without an error has entered and packed everything.   *)
THEOREM ArchiveAlwaysOfOneRun == Spec => []ArchiveIsOfOneRun
  <1>1. Staged /\ [Next]_vars => Staged'
    BY ClearStaged, CopyAssetsStaged, FailBeforeStaged, FinishAssetsStaged, WriteOutputStaged,
       PassOutputStaged, BrokenOffStaged, StutterStaged DEF Next
  <1>2. Staged => ArchiveIsOfOneRun
    BY DEF Staged
  <1> QED
    BY InitStaged, <1>1, <1>2, PTL DEF Spec

----------------------------------------------------------------------------
(* The copies.                                                               *)

AssetNames == [nth : Nat, base : {FileName[u] : u \in Urls}]

PassesTyped ==
    /\ snapshot \in Seq(Resource)
    /\ limits \in Limit
    /\ pass \in {"captured", "css", "text", "done"}
    /\ next \in Nat \ {0}
    /\ doc \in Documents
    /\ todo \subseteq DOMAIN Writes[doc]
    /\ archived \in Seq([url : Urls, kind : Kinds, name : AssetNames])
    /\ total \in Nat
    /\ used \subseteq AssetNames /\ IsFiniteSet(used)

(* While the captured resources are copied there are fewer copies than tries.*)
Behind == pass = "captured" => Len(archived) < next

Named == \A i \in DOMAIN archived : archived[i].name \in used

Copied == PassesTyped /\ Behind /\ Named /\ WithinLimits /\ OwnCopies

(* A downward closed set of naturals ends at its cardinality.                *)
LEMMA FirstMissing ==
    ASSUME NEW c \in Nat, NEW P \in SUBSET (0..c), P # 0..c,
           \A n \in P : \A m \in 0..n : m \in P
    PROVE  /\ Cardinality(P) \in 0..c
           /\ Cardinality(P) \notin P
           /\ \A m \in 0..(Cardinality(P) - 1) : m \in P
  <1> DEFINE k == Cardinality(P)
  <1>1. IsFiniteSet(0..c) /\ Cardinality(0..c) = c + 1
    BY FS_Interval
  <1>2. IsFiniteSet(P) /\ k <= c + 1 /\ k # c + 1
    <2>1. /\ IsFiniteSet(P)
          /\ Cardinality(P) <= Cardinality(0..c)
          /\ Cardinality(0..c) = Cardinality(P) => 0..c = P
      BY <1>1, FS_Subset, Zenon
    <2> QED
      BY <1>1, <2>1
  <1>3. k \in 0..c
    BY <1>2, FS_CardinalityType
  <1>4. k \notin P
    <2> SUFFICES ASSUME k \in P PROVE FALSE
      OBVIOUS
    <2>1. 0..k \in SUBSET P
      OBVIOUS
    <2>2. Cardinality(0..k) = k + 1
      BY <1>3, FS_Interval
    <2>3. Cardinality(0..k) <= k
      BY <1>2, <2>1, FS_Subset
    <2> QED
      BY <1>3, <2>2, <2>3
  <1>5. ASSUME NEW m \in 0..(k - 1), m \notin P PROVE FALSE
    <2>1. m \in Nat /\ m < k
      BY <1>3, <1>5
    <2>2. P \in SUBSET (0..(m - 1))
      BY <1>5, <2>1
    <2>3. IsFiniteSet(0..(m - 1)) /\ Cardinality(0..(m - 1)) = m
      <3>1. Cardinality(0..(m - 1)) = IF 0 > m - 1 THEN 0 ELSE (m - 1) - 0 + 1
        BY <2>1, FS_Interval
      <3> QED
        BY <2>1, <3>1, FS_Interval
    <2>4. k <= m
      <3>1. Cardinality(P) <= Cardinality(0..(m - 1))
        BY <2>2, <2>3, FS_Subset, Zenon
      <3> QED
        BY <2>3, <3>1
    <2> QED
      BY <1>3, <2>1, <2>4
  <1> QED
    BY <1>3, <1>4, <1>5

(* unique_asset_name finds a name, and one that is not in use.               *)
LEMMA UniqueNameIsNew ==
    ASSUME IsFiniteSet(used), NEW u \in Urls
    PROVE  UniqueName(u) \in AssetNames /\ UniqueName(u) \notin used
  <1> DEFINE Nth(n) == [nth |-> n, base |-> FileName[u]]
             c == Cardinality(used)
             P == {n \in 0..c : \A m \in 0..n : Nth(m) \in used}
             k == Cardinality(P)
  <1>1. c \in Nat
    BY FS_CardinalityType
  <1>2. P # 0..c
    <2> SUFFICES ASSUME P = 0..c PROVE FALSE
      OBVIOUS
    <2> DEFINE f == [n \in 0..c |-> Nth(n)]
    <2>1. \A n \in 0..c : Nth(n) \in used
      BY <1>1
    <2>2. f \in [0..c -> used]
      BY <2>1
    <2>3. IsFiniteSet(0..c) /\ Cardinality(0..c) = c + 1
      BY <1>1, FS_Interval
    <2>4. Cardinality(used) < Cardinality(0..c)
      BY <1>1, <2>3
    <2> HIDE DEF f
    <2>5. \E x, y \in 0..c : x # y /\ f[x] = f[y]
      BY <2>2, <2>3, <2>4, FS_PigeonHole
    <2> QED
      BY <2>5 DEF f
  <1>3. P \in SUBSET (0..c) /\ \A n \in P : \A m \in 0..n : m \in P
    BY <1>1
  <1>4. k \in 0..c /\ k \notin P /\ \A m \in 0..(k - 1) : m \in P
    <2> HIDE DEF P
    <2> QED
      BY <1>1, <1>2, <1>3, FirstMissing
  <1>5. \A m \in 0..(k - 1) : Nth(m) \in used
    BY <1>1, <1>4
  <1>6. Nth(k) \notin used
    <2>1. \A m \in 0..k : m = k \/ m \in 0..(k - 1)
      BY <1>1, <1>4
    <2> QED
      BY <1>4, <1>5, <2>1
  <1>7. \E n \in 0..c : Nth(n) \notin used /\ \A m \in 0..(n - 1) : Nth(m) \in used
    BY <1>4, <1>5, <1>6
  <1>8. PICK n \in 0..c : UniqueName(u) = Nth(n) /\ Nth(n) \notin used
    BY <1>7 DEF UniqueName
  <1> QED
    BY <1>1, <1>8 DEF AssetNames

(* What keeping a copy does, in any pass.                                    *)
LEMMA KeepCopied ==
    ASSUME Copied, NEW u \in Urls, NEW kind \in Kinds, NEW base \in Documents,
           Keep(u, kind, base), Len(archived) < limits.count, limits' = limits
    PROVE  /\ archived' \in Seq([url : Urls, kind : Kinds, name : AssetNames])
           /\ Len(archived') = Len(archived) + 1
           /\ total' \in Nat
           /\ used' \subseteq AssetNames /\ IsFiniteSet(used')
           /\ Named' /\ WithinLimits' /\ OwnCopies'
  <1> DEFINE name == UniqueName(u)
             copy == [url |-> u, kind |-> kind, name |-> name]
             Copies == [url : Urls, kind : Kinds, name : AssetNames]
  <1>1. name \in AssetNames /\ name \notin used
    BY UniqueNameIsNew DEF Copied, PassesTyped
  <1>2. copy \in Copies
    BY <1>1
  <1>3. /\ archived \in Seq(Copies)
        /\ limits \in Limit /\ total \in Nat /\ Size[u] \in Nat
    BY ArchiveAssumption DEF Copied, PassesTyped, Documents
  <1>4. /\ archived' = Append(archived, copy)
        /\ total' = total + Size[u] /\ Size[u] <= limits.total - total
        /\ used' = used \cup {name}
        /\ files' = [n \in DOMAIN files \cup {name} |-> IF n = name THEN u ELSE files[n]]
    BY DEF Keep, Remaining
  <1> HIDE DEF name, copy
  <1>5. /\ archived' \in Seq(Copies)
        /\ Len(archived') = Len(archived) + 1
        /\ DOMAIN archived' = DOMAIN archived \cup {Len(archived) + 1}
        /\ \A i \in DOMAIN archived : archived'[i] = archived[i]
        /\ archived'[Len(archived) + 1] = copy
    BY <1>2, <1>3, <1>4
  <1>6. copy.url = u /\ copy.name = name
    BY DEF copy
  <1>7. total' \in Nat /\ total' <= limits.total
    BY <1>3, <1>4 DEF Limit
  <1>8. used' \subseteq AssetNames /\ IsFiniteSet(used')
    BY <1>1, <1>4, FS_AddElement DEF Copied, PassesTyped
  <1>9. Named'
    BY <1>4, <1>5, <1>6 DEF Copied, Named
  <1>10. Len(archived') <= limits.count
    BY <1>3, <1>5 DEF Limit
  <1>11. WithinLimits'
    BY <1>7, <1>10 DEF WithinLimits
  <1>12. \A i \in DOMAIN archived : archived[i].name # name
    BY <1>1 DEF Copied, Named
  <1>13. OwnCopies'
    <2>1. \A i \in DOMAIN archived' :
             archived'[i].name \in DOMAIN files' /\ files'[archived'[i].name] = archived'[i].url
      BY <1>4, <1>5, <1>6, <1>12 DEF Copied, OwnCopies
    <2>2. \A i, j \in DOMAIN archived' : archived'[i].name = archived'[j].name => i = j
      BY <1>5, <1>6, <1>12 DEF Copied, OwnCopies
    <2>3. DOMAIN files' = DOMAIN files \cup {name}
      BY <1>4
    <2>4. DOMAIN files = {archived[i].name : i \in DOMAIN archived}
      BY DEF Copied, OwnCopies
    <2>5. DOMAIN files' = {archived'[i].name : i \in DOMAIN archived'}
      BY <1>5, <1>6, <2>3, <2>4
    <2> QED
      BY <2>1, <2>2, <2>5 DEF OwnCopies
  <1> QED
    BY <1>5, <1>7, <1>8, <1>9, <1>11, <1>13

(* A failed download takes a name and nothing else, a skipped one nothing.   *)
LEMMA LoseCopied ==
    ASSUME Copied, NEW u \in Urls, Lose(u) \/ Skip(u) \/ UNCHANGED store, limits' = limits
    PROVE  /\ archived' = archived /\ total' = total
           /\ used' \subseteq AssetNames /\ IsFiniteSet(used')
           /\ Named' /\ WithinLimits' /\ OwnCopies'
  <1>1. archived' = archived /\ total' = total /\ files' = files
    BY DEF Lose, Skip, store
  <1>2. used' = used \/ used' = used \cup {UniqueName(u)}
    BY DEF Lose, Skip, store
  <1>3. used' \subseteq AssetNames /\ IsFiniteSet(used') /\ used \subseteq used'
    BY <1>2, UniqueNameIsNew, FS_AddElement DEF Copied, PassesTyped
  <1>4. Named'
    BY <1>1, <1>3 DEF Copied, Named
  <1>5. WithinLimits' /\ OwnCopies'
    BY <1>1 DEF Copied, WithinLimits, OwnCopies
  <1> QED
    BY <1>1, <1>3, <1>4, <1>5

LEMMA InitCopied == ArchiveInit => Copied
  <1> SUFFICES ASSUME ArchiveInit PROVE Copied
    OBVIOUS
  <1>1. PassesTyped
    <2>1. IsFiniteSet({})
      BY FS_EmptySet
    <2> QED
      BY <2>1, ArchiveAssumption DEF ArchiveInit, PassesTyped, Documents
  <1> QED
    BY <1>1 DEF ArchiveInit, Copied, Behind, Named, WithinLimits, OwnCopies, PassesTyped, Limit

LEMMA UnchangedCopied == Copied /\ UNCHANGED archiveVars => Copied'
  BY DEF Copied, archiveVars, input, place, store, PassesTyped, Behind, Named, WithinLimits, OwnCopies

(* A captured resource.                                                      *)
LEMMA ResourceCopied ==
    ASSUME Copied, SkipResource \/ KeepResource \/ LoseResource
    PROVE  Copied'
  <1> DEFINE r == snapshot[next]
  <1>1. /\ AtResource /\ Resourced
        /\ Keep(r.url, r.kind, Page) \/ Lose(r.url) \/ Skip(r.url)
    BY DEF SkipResource, KeepResource, LoseResource
  <1>2. r \in Resource /\ r.url \in Urls /\ r.kind \in Kinds /\ Page \in Documents
    <2>1. r \in Resource
      BY <1>1 DEF AtResource, Copied, PassesTyped
    <2> HIDE DEF r
    <2> QED
      BY <2>1 DEF Resource, Documents
  <1>3. /\ snapshot' = snapshot /\ limits' = limits /\ pass' = pass /\ doc' = doc /\ todo' = todo
        /\ next' = next + 1 /\ next <= limits.count /\ pass = "captured"
    BY <1>1 DEF AtResource, Resourced, input
  <1>4. Len(archived) < next /\ next \in Nat /\ limits.count \in Nat /\ Len(archived) \in Nat
    BY <1>3 DEF Copied, Behind, PassesTyped, Limit
  <1> HIDE DEF r
  <1>5. CASE Keep(r.url, r.kind, Page)
    <2>1. /\ archived' \in Seq([url : Urls, kind : Kinds, name : AssetNames])
          /\ Len(archived') = Len(archived) + 1
          /\ total' \in Nat
          /\ used' \subseteq AssetNames /\ IsFiniteSet(used')
          /\ Named' /\ WithinLimits' /\ OwnCopies'
      <3>1. Len(archived) < limits.count
        BY <1>3, <1>4
      <3> QED
        BY <1>2, <1>3, <1>5, <3>1, KeepCopied, Zenon
    <2> QED
      BY <1>3, <1>4, <2>1 DEF Copied, PassesTyped, Behind
  <1>6. CASE Lose(r.url) \/ Skip(r.url)
    <2>1. /\ archived' = archived /\ total' = total
          /\ used' \subseteq AssetNames /\ IsFiniteSet(used')
          /\ Named' /\ WithinLimits' /\ OwnCopies'
      BY <1>2, <1>3, <1>6, LoseCopied
    <2> QED
      BY <1>3, <1>4, <2>1 DEF Copied, PassesTyped, Behind
  <1> QED
    BY <1>1, <1>5, <1>6

(* A reference of a stylesheet or of a text.                                 *)
LEMMA ReferenceCopied ==
    ASSUME Copied, NEW i \in todo,
           \/ SkipReference(i) \/ PassReference(i) \/ KeepReference(i)
           \/ LoseReference(i) \/ RefuseReference(i)
    PROVE  Copied'
  <1> DEFINE u == Writes[doc][i].to
  <1>1. /\ At(i) /\ Handled(i)
        /\ \/ ~OverLimit /\ Keep(u, Hint[u], doc)
           \/ Lose(u) \/ Skip(u) \/ UNCHANGED store
    BY DEF SkipReference, PassReference, KeepReference, LoseReference, RefuseReference, Fetching
  <1>2. doc \in Documents /\ u \in Urls /\ Hint[u] \in Kinds
    <2>1. Writes[doc] \in Seq(Reference) /\ i \in DOMAIN Writes[doc]
      BY ArchiveAssumption DEF Copied, PassesTyped
    <2>2. Writes[doc][i] \in Reference
      BY <2>1
    <2> QED
      BY <2>2, ArchiveAssumption DEF Copied, PassesTyped, Reference
  <1>3. /\ snapshot' = snapshot /\ limits' = limits /\ pass' = pass /\ doc' = doc /\ next' = next
        /\ todo' \subseteq todo /\ pass \in {"css", "text"}
    BY <1>1 DEF At, Handled, input
  <1> HIDE DEF u
  <1>4. CASE ~OverLimit /\ Keep(u, Hint[u], doc)
    <2>1. Len(archived) < limits.count
      BY <1>4 DEF OverLimit, Copied, PassesTyped, Limit
    <2>2. /\ archived' \in Seq([url : Urls, kind : Kinds, name : AssetNames])
          /\ total' \in Nat
          /\ used' \subseteq AssetNames /\ IsFiniteSet(used')
          /\ Named' /\ WithinLimits' /\ OwnCopies'
      BY <1>2, <1>3, <1>4, <2>1, KeepCopied
    <2> QED
      BY <1>3, <2>2 DEF Copied, PassesTyped, Behind
  <1>5. CASE Lose(u) \/ Skip(u) \/ UNCHANGED store
    <2>1. /\ archived' = archived /\ total' = total
          /\ used' \subseteq AssetNames /\ IsFiniteSet(used')
          /\ Named' /\ WithinLimits' /\ OwnCopies'
      BY <1>2, <1>3, <1>5, LoseCopied
    <2> QED
      BY <1>3, <2>1 DEF Copied, PassesTyped, Behind
  <1> QED
    BY <1>1, <1>4, <1>5

(* From one document or pass to the next; the deadline.                      *)
LEMMA OnwardCopied ==
    ASSUME Copied, Deadline \/ NextDocument \/ NextPass
    PROVE  Copied'
  <1>1. /\ snapshot' = snapshot /\ limits' = limits /\ archived' = archived /\ total' = total
        /\ used' = used /\ files' = files
    BY DEF Deadline, NextDocument, NextPass, input, store
  <1>2. next' \in Nat \ {0}
    BY DEF Deadline, NextDocument, NextPass, place, Copied, PassesTyped
  <1>3. doc' \in Documents /\ todo' \subseteq DOMAIN Writes[doc']
    <2>1. CASE Deadline
      BY <2>1 DEF Deadline, place, Copied, PassesTyped
    <2>2. CASE NextPass
      BY <2>2 DEF NextPass, Positions, Documents
    <2>3. CASE NextDocument
      <3> DEFINE Copies == [url : Urls, kind : Kinds, name : AssetNames]
      <3>1. next \in DOMAIN archived
        BY <2>3 DEF NextDocument
      <3>2. archived \in Seq(Copies)
        BY DEF Copied, PassesTyped
      <3>3. archived[next] \in Copies
        <4> HIDE DEF Copies
        <4> QED
          BY <3>1, <3>2
      <3>4. archived[next].url \in Urls
        BY <3>3
      <3> QED
        BY <2>3, <3>4 DEF NextDocument, Positions, Documents, Copied, PassesTyped
    <2> QED
      BY <2>1, <2>2, <2>3
  <1>4. pass' = "captured" => pass = "captured" /\ next' = next
    BY DEF Deadline, NextDocument, NextPass, place, Copied, PassesTyped
  <1>5. pass' \in {"captured", "css", "text", "done"}
    BY DEF Deadline, NextDocument, NextPass, place, Copied, PassesTyped
  <1> QED
    BY <1>1, <1>2, <1>3, <1>4, <1>5 DEF Copied, PassesTyped, Behind, Named, WithinLimits, OwnCopies

(* Only CopyAssets changes what the passes work on.                          *)
LEMMA PassesAlone == [Next]_vars => ArchiveNext \/ UNCHANGED archiveVars
  BY DEF Next, Clear, CopyAssets, FailBefore, FinishAssets, WriteOutput, PassOutput, LoseOutput,
         OversizeOutput, vars

(* Every step of the passes keeps copies, names and budget in order.         *)
LEMMA CopiedStep == ASSUME Copied, ArchiveNext PROVE Copied'
  BY ResourceCopied, ReferenceCopied, OnwardCopied DEF ArchiveNext

LEMMA CopiedHolds == Spec => []Copied
  <1>1. Init => Copied
    BY InitCopied DEF Init
  <1>2. Copied /\ [Next]_vars => Copied'
    BY CopiedStep, UnchangedCopied, PassesAlone
  <1> QED
    BY <1>1, <1>2, PTL DEF Spec

(* However the passes share them, the limits on bytes and copies hold.       *)
THEOREM LimitsHold == Spec => []WithinLimits
  <1>1. Copied => WithinLimits
    BY DEF Copied
  <1> QED
    BY <1>1, CopiedHolds, PTL

(* Every copy has a file of its own that holds its bytes, and no other file  *)
(* is left behind.                                                           *)
THEOREM CopiesAreOwn == Spec => []OwnCopies
  <1>1. Copied => OwnCopies
    BY DEF Copied
  <1> QED
    BY <1>1, CopiedHolds, PTL

----------------------------------------------------------------------------
(* What the references lead to, and that none is overlooked.                 *)

Target == [name : AssetNames \cup {NoName}, web : Urls \cup {NoUrl}]

HasCopy(key, u) == rewrites[key].name \in DOMAIN files /\ files[rewrites[key].name] = u

(* Whatever is scanned is the page or in the archive, and what is in the     *)
(* archive is where its references lead.                                     *)
Led ==
    /\ rewrites \in [RewriteKeys -> Target]
    /\ doc = Page \/ Archived(doc)
    /\ \A u \in Urls : Archived(u) => HasCopy(Absolute(u), u)
    /\ OneOrigin => \A u \in Urls : Archived(u) => HasCopy(Rooted(u), u)

(* What a pass resolves, and which copies it reads.                          *)
Owed(p, ref) == p = "css" \/ ref.form # "relative"

Taken(p, copy) ==
    /\ \/ p = "css" /\ IsCss(copy.kind)
       \/ p = "text" /\ IsTextual(copy.kind)
    /\ copy.url \in Utf8

(* All references of a document that this pass resolves are accounted for.   *)
Dealt(p, d) == \A i \in DOMAIN Writes[d] :
                   Owed(p, Writes[d][i]) => Accounted(Writes[d][i].to)

(* What the document at hand refers to is accounted for or still to be dealt *)
(* with, once however often it is written there.                             *)
Current == \A i \in DOMAIN Writes[doc] :
               \/ ~Owed(pass, Writes[doc][i])
               \/ Accounted(Writes[doc][i].to)
               \/ \E j \in todo : Writes[doc][j] = Writes[doc][i]

(* Only the pass over texts begins with the page.                            *)
Reading == pass = "text" \/ doc # Page

(* The documents before the next one are dealt with, but for the one at hand.*)
Passed ==
    /\ Reading => Current
    /\ next <= Len(archived) + 1
    /\ \A k \in DOMAIN archived :
          k < next /\ Taken(pass, archived[k])
              => archived[k].url = doc \/ Dealt(pass, archived[k].url)

(* The pass over stylesheets has seen all that are known only by their type. *)
SheetsDealt ==
    \A k \in DOMAIN archived :
        archived[k].kind = "sheet" /\ archived[k].url \in Utf8 => Dealt("css", archived[k].url)

Overseen ==
    /\ rewrites \in [RewriteKeys -> Target]
    /\ \A u \in Urls : rewrites[Absolute(u)] # Leave => Accounted(u)
    /\ pass \in {"css", "text"} => Passed
    /\ pass = "text" /\ doc # Page => Dealt("text", Page)
    /\ pass \in {"text", "done"} => SheetsDealt
    /\ pass = "done" =>
          /\ Dealt("text", Page)
          /\ \A k \in DOMAIN archived : Taken("text", archived[k]) => Dealt("text", archived[k].url)

(* URLs without a fragment: within an origin, path and query tell them apart.*)
PathsTellApart == \A u, v \in Urls : Origin[u] = Origin[v] /\ Path[u] = Path[v] => u = v

(* An absolute and a rooted reference never share a key.                     *)
LEMMA KeysApart ==
    ASSUME NEW u \in Urls, NEW v \in Urls
    PROVE  /\ Absolute(u) \in RewriteKeys /\ Rooted(u) \in RewriteKeys
           /\ Absolute(u) # Rooted(v)
           /\ Absolute(u) = Absolute(v) => u = v
           /\ Rooted(u) = Rooted(v) => Path[u] = Path[v]
  <1>1. Absolute(u) \in RewriteKeys /\ Rooted(u) \in RewriteKeys
    BY DEF RewriteKeys
  <1>2. Absolute(u).form # Rooted(v).form
    BY DEF Absolute, Rooted
  <1>3. Absolute(u) = Absolute(v) => u = v
    BY DEF Absolute
  <1>4. Rooted(u) = Rooted(v) => Path[u] = Path[v]
    BY DEF Rooted
  <1> QED
    BY <1>1, <1>2, <1>3, <1>4

(* Positions drops later occurrences only: every reference keeps its first.  *)
LEMMA FirstKept ==
    ASSUME NEW d \in Documents, NEW i \in DOMAIN Writes[d]
    PROVE  \E j \in Positions(d) : Writes[d][j] = Writes[d][i]
  <1> DEFINE ref == Writes[d][i]
             P == {n \in 0..i : \A m \in 1..n : Writes[d][m] # ref}
             k == Cardinality(P)
  <1>1. i \in Nat \ {0} /\ DOMAIN Writes[d] = 1..Len(Writes[d]) /\ Len(Writes[d]) \in Nat
    <2>1. Writes[d] \in Seq(Reference)
      BY ArchiveAssumption
    <2> QED
      BY <2>1
  <1>2. P # 0..i
    <2>1. i \in 0..i /\ i \in 1..i
      BY <1>1
    <2> QED
      BY <2>1
  <1>3. P \in SUBSET (0..i) /\ \A n \in P : \A m \in 0..n : m \in P
    BY <1>1
  <1>4. k \in 0..i /\ k \notin P /\ \A m \in 0..(k - 1) : m \in P
    <2> HIDE DEF P
    <2> QED
      BY <1>1, <1>2, <1>3, FirstMissing
  <1> HIDE DEF k
  <1>5. PICK m \in 1..k : Writes[d][m] = ref
    BY <1>4
  <1>6. \A j \in 1..(m - 1) : Writes[d][j] # ref
    <2>1. k - 1 \in 0..(k - 1) /\ \A j \in 1..(m - 1) : j \in 1..(k - 1)
      BY <1>1, <1>4, <1>5
    <2>2. k - 1 \in P
      BY <1>4, <2>1
    <2> QED
      BY <2>1, <2>2
  <1>7. m \in DOMAIN Writes[d]
    BY <1>1, <1>4, <1>5
  <1> QED
    BY <1>5, <1>6, <1>7 DEF Positions

(* What keeping a copy adds: a file, an entry, and the ways that lead to it. *)
Kept(name, u, kind, base) ==
    /\ name \notin DOMAIN files
    /\ DOMAIN files' = DOMAIN files \cup {name}
    /\ files'[name] = u
    /\ \A n \in DOMAIN files : files'[n] = files[n]
    /\ DOMAIN archived' = DOMAIN archived \cup {Len(archived) + 1}
    /\ \A i \in DOMAIN archived : archived'[i] = archived[i]
    /\ archived'[Len(archived) + 1] = [url |-> u, kind |-> kind, name |-> name]
    /\ rewrites' = [k \in RewriteKeys |-> IF k \in KeysOf(base, u) THEN Copy(name) ELSE rewrites[k]]
    /\ noted' = noted

LEMMA KeepEffect ==
    ASSUME Copied, NEW u \in Urls, NEW kind \in Kinds, NEW base \in Documents, Keep(u, kind, base)
    PROVE  \E name \in AssetNames : Kept(name, u, kind, base)
  <1> DEFINE name == UniqueName(u)
             copy == [url |-> u, kind |-> kind, name |-> name]
             Copies == [url : Urls, kind : Kinds, name : AssetNames]
  <1>1. name \in AssetNames /\ name \notin used
    BY UniqueNameIsNew DEF Copied, PassesTyped
  <1>2. copy \in Copies
    BY <1>1
  <1>3. archived \in Seq(Copies)
    BY DEF Copied, PassesTyped
  <1>4. /\ archived' = Append(archived, copy)
        /\ files' = [n \in DOMAIN files \cup {name} |-> IF n = name THEN u ELSE files[n]]
        /\ rewrites' = [k \in RewriteKeys |-> IF k \in KeysOf(base, u) THEN Copy(name)
                                                                       ELSE rewrites[k]]
        /\ noted' = noted
    BY DEF Keep
  <1>5. name \notin DOMAIN files
    BY <1>1 DEF Copied, Named, OwnCopies
  <1> HIDE DEF name, copy
  <1>6. /\ DOMAIN archived' = DOMAIN archived \cup {Len(archived) + 1}
        /\ \A i \in DOMAIN archived : archived'[i] = archived[i]
        /\ archived'[Len(archived) + 1] = copy
    BY <1>2, <1>3, <1>4
  <1>7. /\ DOMAIN files' = DOMAIN files \cup {name}
        /\ files'[name] = u
        /\ \A n \in DOMAIN files : files'[n] = files[n]
    BY <1>4, <1>5
  <1> QED
    BY <1>1, <1>4, <1>5, <1>6, <1>7 DEF Kept, copy

(* The three things a step of the passes may do to copies and references.    *)
LEMMA StoreSteps ==
    ASSUME Copied, ArchiveNext
    PROVE  \/ \E u \in Urls, kind \in Kinds, base \in Documents :
                 Keep(u, kind, base) /\ (base = Page \/ base = doc) /\ doc' = doc
           \/ \E i \in todo : LoseReference(i) /\ pass = "text"
           \/ UNCHANGED <<archived, files, rewrites>> /\ noted \subseteq noted'
  <1>1. CASE SkipResource \/ LoseResource \/ Deadline \/ NextDocument \/ NextPass
    BY <1>1 DEF SkipResource, LoseResource, Deadline, NextDocument, NextPass, Skip, Lose, store
  <1>2. CASE KeepResource
    <2>1. snapshot[next] \in Resource
      BY <1>2 DEF KeepResource, AtResource, Copied, PassesTyped
    <2>2. snapshot[next].url \in Urls /\ snapshot[next].kind \in Kinds
      BY <2>1 DEF Resource
    <2>3. doc' = doc /\ Keep(snapshot[next].url, snapshot[next].kind, Page)
      BY <1>2 DEF KeepResource, Resourced
    <2> QED
      BY <2>2, <2>3 DEF Documents
  <1>3. ASSUME NEW i \in todo, KeepReference(i)
        PROVE  \E u \in Urls, kind \in Kinds, base \in Documents :
                  Keep(u, kind, base) /\ (base = Page \/ base = doc) /\ doc' = doc
    <2>1. Writes[doc] \in Seq(Reference) /\ i \in DOMAIN Writes[doc] /\ doc \in Documents
      BY ArchiveAssumption DEF Copied, PassesTyped
    <2>2. Writes[doc][i] \in Reference
      BY <2>1
    <2>3. Writes[doc][i].to \in Urls
      BY <2>2 DEF Reference
    <2>4. Hint[Writes[doc][i].to] \in Kinds
      BY <2>3, ArchiveAssumption
    <2>5. Keep(Writes[doc][i].to, Hint[Writes[doc][i].to], doc) /\ doc' = doc
      BY <1>3 DEF KeepReference, Handled
    <2> QED
      BY <2>1, <2>3, <2>4, <2>5
  <1>4. ASSUME NEW i \in todo, SkipReference(i) \/ PassReference(i) \/ RefuseReference(i)
        PROVE  UNCHANGED <<archived, files, rewrites>> /\ noted \subseteq noted'
    BY <1>4 DEF SkipReference, PassReference, RefuseReference, Skip, store
  <1>5. ASSUME NEW i \in todo, LoseReference(i), pass # "text"
        PROVE  UNCHANGED <<archived, files, rewrites>> /\ noted \subseteq noted'
    BY <1>5 DEF LoseReference, Fetching, At, Lose
  <1> QED
    BY <1>1, <1>2, <1>3, <1>4, <1>5 DEF ArchiveNext

(* A reference that fails in a text leads to the web, and only it does.      *)
Lost(u, key) ==
    /\ ~Archived(u)
    /\ \/ key = Absolute(u)
       \/ key = Rooted(u) /\ Origin[u] = Origin[doc]
    /\ rewrites' = [rewrites EXCEPT ![key] = Web(u)]
    /\ noted' = noted \cup {u}
    /\ UNCHANGED <<archived, files, doc>>

LEMMA LoseEffect ==
    ASSUME Copied, NEW i \in todo, LoseReference(i)
    PROVE  pass = "text" => \E u \in Urls, key \in RewriteKeys : Lost(u, key)
  <1> DEFINE ref == Writes[doc][i]
             u == ref.to
             key == IF ref.form = "absolute" THEN Absolute(u) ELSE Rooted(u)
  <1>1. Writes[doc] \in Seq(Reference) /\ i \in DOMAIN Writes[doc] /\ doc \in Documents
    BY ArchiveAssumption DEF Copied, PassesTyped
  <1>2. ref \in Reference
    BY <1>1
  <1>3. u \in Urls
    BY <1>2 DEF Reference
  <1>4. ref.form # "absolute" => Origin[u] = Origin[doc]
    BY <1>1, ArchiveAssumption
  <1>5. key \in RewriteKeys
    BY <1>3, KeysApart
  <1>6. ~Archived(u)
    BY DEF LoseReference, Fetching, Known, Archived
  <1>7. pass = "text" => rewrites' = [rewrites EXCEPT ![key] = Web(u)]
    BY DEF LoseReference
  <1>8. noted' = noted \cup {u} /\ UNCHANGED <<archived, files, doc>>
    BY DEF LoseReference, Lose, Handled
  <1>9. key = Absolute(u) \/ (key = Rooted(u) /\ Origin[u] = Origin[doc])
    BY <1>4
  <1> HIDE DEF key, u
  <1> QED
    BY <1>3, <1>5, <1>6, <1>7, <1>8, <1>9 DEF Lost

(* References lead nowhere, to a copy or to the web.                         *)
LEMMA TargetsStep ==
    ASSUME Copied, ArchiveNext, rewrites \in [RewriteKeys -> Target]
    PROVE  rewrites' \in [RewriteKeys -> Target]
  <1>1. ASSUME NEW u \in Urls, NEW kind \in Kinds, NEW base \in Documents, Keep(u, kind, base)
        PROVE  rewrites' \in [RewriteKeys -> Target]
    <2>1. PICK name \in AssetNames : Kept(name, u, kind, base)
      BY <1>1, KeepEffect
    <2> QED
      BY <2>1 DEF Kept, Copy, Target
  <1>2. ASSUME NEW i \in todo, LoseReference(i), pass = "text"
        PROVE  rewrites' \in [RewriteKeys -> Target]
    <2>1. PICK u \in Urls, key \in RewriteKeys : Lost(u, key)
      BY <1>2, LoseEffect
    <2> QED
      BY <2>1 DEF Lost, Web, Target
  <1> QED
    BY <1>1, <1>2, StoreSteps

(* There is nothing to lead to before the first copy.                        *)
LEMMA InitLed == ArchiveInit => Led
  BY DEF ArchiveInit, Led, Archived, Leave, Target

(* Keeping a copy leads its references to it and takes none from another.    *)
LEMMA KeepLed ==
    ASSUME PathsTellApart, Copied, Led, doc' = doc,
           NEW u \in Urls, NEW kind \in Kinds, NEW base \in Documents,
           Keep(u, kind, base), base = Page \/ base = doc
    PROVE  Led'
  <1>0. PICK name \in AssetNames : Kept(name, u, kind, base)
    BY KeepEffect
  <1>1. /\ name \notin DOMAIN files
        /\ DOMAIN files' = DOMAIN files \cup {name}
        /\ files'[name] = u
        /\ \A n \in DOMAIN files : files'[n] = files[n]
        /\ DOMAIN archived' = DOMAIN archived \cup {Len(archived) + 1}
        /\ \A i \in DOMAIN archived : archived'[i] = archived[i]
        /\ archived'[Len(archived) + 1].url = u
        /\ rewrites' = [k \in RewriteKeys |-> IF k \in KeysOf(base, u) THEN Copy(name)
                                                                       ELSE rewrites[k]]
    BY <1>0 DEF Kept
  <1>2. \A v : Archived(v)' <=> Archived(v) \/ v = u
    BY <1>1 DEF Archived
  <1>3. Copy(name) \in Target /\ Copy(name).name = name
    BY <1>1 DEF Copy, Target
  <1>4. rewrites' \in [RewriteKeys -> Target]
    BY <1>1, <1>3 DEF Led
  <1>5. \A k \in KeysOf(base, u) \cap RewriteKeys : HasCopy(k, u)'
    BY <1>1, <1>3 DEF HasCopy
  <1>6. ASSUME NEW v \in Urls, NEW k \in RewriteKeys \ KeysOf(base, u), HasCopy(k, v)
        PROVE  HasCopy(k, v)'
    BY <1>1, <1>6 DEF HasCopy
  <1>7. ASSUME NEW v \in Urls, Archived(v)' PROVE HasCopy(Absolute(v), v)'
    <2>1. CASE v = u
      BY <1>5, <2>1, KeysApart DEF KeysOf
    <2>2. CASE v # u
      <3>1. Absolute(v) \in RewriteKeys \ KeysOf(base, u)
        BY <2>2, KeysApart DEF KeysOf
      <3>2. HasCopy(Absolute(v), v)
        BY <1>2, <1>7, <2>2 DEF Led
      <3> QED
        BY <1>6, <3>1, <3>2
    <2> QED
      BY <2>1, <2>2
  <1>8. ASSUME OneOrigin', NEW v \in Urls, Archived(v)' PROVE HasCopy(Rooted(v), v)'
    <2>1. OneOrigin /\ Origin[u] = Origin[Page]
      BY <1>1, <1>8 DEF OneOrigin
    <2>2. \A w : Archived(w) => Origin[w] = Origin[Page]
      BY <2>1 DEF OneOrigin, Archived
    <2>3. Rooted(u) \in KeysOf(base, u)
      BY <2>1, <2>2 DEF Led, KeysOf
    <2>4. CASE v = u
      BY <1>5, <2>3, <2>4, KeysApart
    <2>5. CASE v # u
      <3>1. Archived(v) /\ Path[v] # Path[u]
        BY <1>2, <1>8, <2>1, <2>2, <2>5 DEF PathsTellApart
      <3>2. Rooted(v) \in RewriteKeys \ KeysOf(base, u)
        BY <3>1, KeysApart DEF KeysOf
      <3>3. HasCopy(Rooted(v), v)
        BY <2>1, <3>1 DEF Led
      <3> QED
        BY <1>6, <3>2, <3>3
    <2> QED
      BY <2>4, <2>5
  <1>9. (doc = Page \/ Archived(doc))'
    BY <1>2 DEF Led
  <1> QED
    BY <1>4, <1>7, <1>8, <1>9 DEF Led

(* What fails is not in the archive, so nothing there loses a reference.     *)
LEMMA LoseLed ==
    ASSUME PathsTellApart, Copied, Led, NEW i \in todo, LoseReference(i), pass = "text"
    PROVE  Led'
  <1>0. PICK u \in Urls, key \in RewriteKeys : Lost(u, key)
    BY LoseEffect
  <1>1. /\ ~Archived(u)
        /\ key = Absolute(u) \/ (key = Rooted(u) /\ Origin[u] = Origin[doc])
        /\ rewrites' = [rewrites EXCEPT ![key] = Web(u)]
        /\ UNCHANGED <<archived, files, doc>>
    BY <1>0 DEF Lost
  <1>2. Web(u) \in Target
    BY DEF Web, Target
  <1>3. /\ rewrites' \in [RewriteKeys -> Target]
        /\ \A k \in RewriteKeys : k # key => rewrites'[k] = rewrites[k]
    BY <1>1, <1>2 DEF Led
  <1>4. \A v : Archived(v)' <=> Archived(v)
    BY <1>1 DEF Archived
  <1>5. ASSUME NEW v \in Urls, Archived(v) PROVE HasCopy(Absolute(v), v)'
    <2>1. Absolute(v) # key /\ Absolute(v) \in RewriteKeys
      BY <1>1, <1>5, KeysApart
    <2> QED
      BY <1>1, <1>3, <1>5, <2>1 DEF Led, HasCopy
  <1>6. ASSUME OneOrigin, NEW v \in Urls, Archived(v) PROVE HasCopy(Rooted(v), v)'
    <2>1. \A w : Archived(w) => Origin[w] = Origin[Page]
      BY <1>6 DEF OneOrigin, Archived
    <2>2. Rooted(v) # key /\ Rooted(v) \in RewriteKeys
      <3>1. Origin[doc] = Origin[Page] /\ v # u
        BY <1>1, <1>6, <2>1 DEF Led
      <3> QED
        BY <1>1, <1>6, <2>1, <3>1, KeysApart DEF PathsTellApart
    <2> QED
      BY <1>1, <1>3, <1>6, <2>2 DEF Led, HasCopy
  <1>7. OneOrigin' <=> OneOrigin
    BY <1>1 DEF OneOrigin
  <1> QED
    BY <1>1, <1>3, <1>4, <1>5, <1>6, <1>7 DEF Led

(* No step of the passes leaves an archived resource without its references. *)
LEMMA PassesLed ==
    ASSUME PathsTellApart, Copied, Led, ArchiveNext
    PROVE  Led'
  <1>1. doc' = Page \/ doc' = doc \/ Archived(doc')
    BY DEF ArchiveNext, Deadline, SkipResource, KeepResource, LoseResource, Resourced, SkipReference,
           PassReference, KeepReference, LoseReference, RefuseReference, Handled, NextDocument,
           NextPass, Archived, place
  <1>2. CASE UNCHANGED <<archived, files, rewrites>>
    BY <1>1, <1>2 DEF Led, Archived, HasCopy, OneOrigin
  <1> QED
    BY <1>2, StoreSteps, KeepLed, LoseLed

(* With the passes done or not, what is in the archive is shown.             *)
LEMMA LedIsShown ==
    ASSUME Copied, Led
    PROVE  ArchivedIsShown
  <1>1. ASSUME NEW d \in Documents, Legible(d), NEW i \in DOMAIN Writes[d],
               NEW kind \in {"css", "text"}
        PROVE  Shows(d, kind, Writes[d][i])
    <2> DEFINE ref == Writes[d][i]
    <2>1. ref \in Reference
      BY ArchiveAssumption
    <2>2. ref.to \in Urls /\ ref.form \in {"absolute", "rooted", "relative"}
      BY <2>1 DEF Reference
    <2> HIDE DEF ref
    <2>3. Archived(ref.to) => rewrites[Absolute(ref.to)] # Leave
      <3>1. Archived(ref.to) => rewrites[Absolute(ref.to)].name \in DOMAIN files
        BY <2>2 DEF Led, HasCopy
      <3>2. NoName \notin DOMAIN files
        BY ArchiveAssumption DEF Copied, PassesTyped, Named, OwnCopies, AssetNames
      <3> QED
        BY <3>1, <3>2 DEF Leave
    <2>r. Rewritten(d, kind)
      BY <1>1 DEF Rewritten, IsTextual
    <2>c. LeadsTo(d, kind, ref) = IF kind = "css" THEN InStylesheet(ref) ELSE InText(ref)
      BY <1>1, <2>r DEF LeadsTo
    <2>4. Shows(d, kind, ref)
      <3>1. CASE kind = "css"
        BY <2>2, <2>3, <2>c, <3>1 DEF Led, HasCopy, Shows, InStylesheet
      <3>2. CASE kind # "css" /\ ref.form = "absolute"
        BY <2>2, <2>c, <3>2 DEF Led, HasCopy, Shows, InText
      <3>3. CASE kind # "css" /\ ref.form = "rooted"
        BY <2>2, <2>c, <3>3 DEF Led, HasCopy, Shows, InText
      <3>4. CASE kind # "css" /\ ref.form = "relative"
        BY <3>4 DEF Shows
      <3> QED
        BY <2>2, <3>1, <3>2, <3>3, <3>4
    <2> QED
      BY <2>4 DEF ref
  <1>2. ASSUME NEW k \in DOMAIN archived, IsTextual(archived[k].kind), archived[k].url \in Utf8
        PROVE  /\ archived[k].url \in Documents /\ Legible(archived[k].url)
               /\ archived[k].kind \in {"css", "text"}
    BY <1>2, ArchiveAssumption DEF Documents, Legible, IsTextual
  <1>3. Legible(Page) /\ Page \in Documents
    BY DEF Legible, Documents
  <1> QED
    BY <1>1, <1>2, <1>3 DEF ArchivedIsShown

(* In the page, and in every archived document that is textual and UTF-8, a  *)
(* reference to an archived resource is replaced by its copy, if it is       *)
(* written with its origin or in a stylesheet, or the copies are all of the  *)
(* page's origin: no later copy and no failed download takes it away.        *)
THEOREM ArchivedStaysShown ==
    ASSUME PathsTellApart
    PROVE  Spec => []ArchivedIsShown
  <1>1. Init => Led
    BY InitLed DEF Init
  <1>2. Copied /\ Led /\ [Next]_vars => Led'
    <2> SUFFICES ASSUME Copied, Led, [Next]_vars PROVE Led'
      OBVIOUS
    <2>1. ArchiveNext \/ UNCHANGED archiveVars
      BY PassesAlone
    <2>2. CASE UNCHANGED archiveVars
      BY <2>2 DEF archiveVars, place, store, Led, Archived, HasCopy, OneOrigin
    <2> QED
      BY <2>1, <2>2, PassesLed
  <1>3. Copied /\ Led => ArchivedIsShown
    BY LedIsShown
  <1> QED
    BY <1>1, <1>2, <1>3, CopiedHolds, PTL DEF Spec

(* A copy stays in its place, and a step adds at most one behind.            *)
LEMMA CopiesStay ==
    ASSUME Copied, ArchiveNext
    PROVE  /\ \A k \in DOMAIN archived : k \in DOMAIN archived' /\ archived'[k] = archived[k]
           /\ \A k \in DOMAIN archived' \ DOMAIN archived : k = Len(archived) + 1
           /\ Len(archived) \in Nat /\ Len(archived') \in Nat /\ Len(archived) <= Len(archived')
  <1>1. Copied'
    BY CopiedStep
  <1> DEFINE Copies == [url : Urls, kind : Kinds, name : AssetNames]
  <1>2. archived \in Seq(Copies) /\ archived' \in Seq(Copies)
    BY <1>1 DEF Copied, PassesTyped
  <1> HIDE DEF Copies
  <1>3. /\ Len(archived) \in Nat /\ DOMAIN archived = 1..Len(archived)
        /\ Len(archived') \in Nat /\ DOMAIN archived' = 1..Len(archived')
    BY <1>2
  <1>4. \/ archived' = archived
        \/ /\ DOMAIN archived' = DOMAIN archived \cup {Len(archived) + 1}
           /\ \A k \in DOMAIN archived : archived'[k] = archived[k]
    BY StoreSteps, KeepEffect, LoseEffect DEF Kept, Lost
  <1> QED
    BY <1>3, <1>4

(* The pass over texts comes last.                                           *)
LEMMA InitOverseen == ArchiveInit => Overseen
  BY KeysApart DEF ArchiveInit, Overseen, Leave, Target

(* What is accounted for stays so, and so does what has been dealt with.     *)
LEMMA AccountsStay ==
    ASSUME Copied, ArchiveNext
    PROVE  /\ \A u : Accounted(u) => Accounted(u)'
           /\ \A p, d : Dealt(p, d) => Dealt(p, d)'
  <1>1. ASSUME UNCHANGED archived, noted \subseteq noted' PROVE \A u : Accounted(u) => Accounted(u)'
    BY <1>1 DEF Accounted, Archived
  <1>2. ASSUME NEW u \in Urls, NEW kind \in Kinds, NEW base \in Documents, Keep(u, kind, base)
        PROVE  \A v : Accounted(v) => Accounted(v)'
    BY <1>2, KeepEffect DEF Kept, Accounted, Archived
  <1>3. ASSUME NEW i \in todo, LoseReference(i), pass = "text"
        PROVE  UNCHANGED archived /\ noted \subseteq noted'
    BY <1>3, LoseEffect DEF Lost
  <1>4. \A u : Accounted(u) => Accounted(u)'
    BY <1>1, <1>2, <1>3, StoreSteps
  <1> QED
    BY <1>4 DEF Dealt, Owed

(* A reference that leads somewhere has been kept or has failed.             *)
LEMMA LeadingAccounted ==
    ASSUME Copied, Overseen, ArchiveNext
    PROVE  /\ rewrites' \in [RewriteKeys -> Target]
           /\ \A u \in Urls : rewrites'[Absolute(u)] # Leave => Accounted(u)'
  <1>t. rewrites' \in [RewriteKeys -> Target]
    BY TargetsStep DEF Overseen
  <1> SUFFICES ASSUME NEW v \in Urls, rewrites'[Absolute(v)] # Leave PROVE Accounted(v)'
    BY <1>t
  <1>0. rewrites[Absolute(v)] # Leave => Accounted(v)'
    BY AccountsStay DEF Overseen
  <1>1. ASSUME NEW u \in Urls, NEW kind \in Kinds, NEW base \in Documents, Keep(u, kind, base)
        PROVE  Accounted(v)'
    <2>0. PICK name \in AssetNames : Kept(name, u, kind, base)
      BY <1>1, KeepEffect
    <2>1. CASE v = u
      BY <2>0, <2>1 DEF Kept, Accounted, Archived
    <2>2. CASE v # u
      <3>1. Absolute(v) \in RewriteKeys \ KeysOf(base, u)
        BY <2>2, KeysApart DEF KeysOf
      <3>2. rewrites'[Absolute(v)] = rewrites[Absolute(v)]
        BY <2>0, <3>1 DEF Kept
      <3> QED
        BY <1>0, <3>2
    <2> QED
      BY <2>1, <2>2
  <1>2. ASSUME NEW i \in todo, LoseReference(i), pass = "text" PROVE Accounted(v)'
    <2>1. PICK u \in Urls, key \in RewriteKeys : Lost(u, key)
      BY <1>2, LoseEffect
    <2>2. CASE v = u
      BY <2>1, <2>2 DEF Lost, Accounted
    <2>3. CASE v # u
      <3>1. Absolute(v) \in RewriteKeys /\ Absolute(v) # key
        BY <2>1, <2>3, KeysApart DEF Lost
      <3>2. rewrites'[Absolute(v)] = rewrites[Absolute(v)]
        BY <2>1, <3>1 DEF Lost, Overseen
      <3> QED
        BY <1>0, <3>2
    <2> QED
      BY <2>2, <2>3
  <1> QED
    BY <1>0, <1>1, <1>2, StoreSteps

(* However a reference is dealt with, it is accounted for.                   *)
LEMMA ReferenceAccounted ==
    ASSUME Copied, Overseen, NEW i \in todo, NEW ref, ref = Writes[doc][i],
           \/ SkipReference(i) \/ PassReference(i) \/ KeepReference(i)
           \/ LoseReference(i) \/ RefuseReference(i)
    PROVE  Owed(pass, ref) => Accounted(ref.to)'
  <1>1. Writes[doc] \in Seq(Reference) /\ i \in DOMAIN Writes[doc] /\ doc \in Documents
    BY ArchiveAssumption DEF Copied, PassesTyped
  <1>2. ref \in Reference
    BY <1>1
  <1>3. ref.to \in Urls /\ Hint[ref.to] \in Kinds
    BY <1>2, ArchiveAssumption DEF Reference
  <1>4. CASE SkipReference(i) \/ RefuseReference(i) \/ LoseReference(i)
    BY <1>4 DEF SkipReference, RefuseReference, LoseReference, Skip, Lose, Accounted
  <1>5. CASE PassReference(i)
    <2>1. Owed(pass, ref) => Known(ref.to)
      BY <1>5 DEF PassReference, Resolves, Owed
    <2>2. Known(ref.to) => Accounted(ref.to)
      BY <1>3 DEF Known, Overseen, Accounted, Archived
    <2>3. archived' = archived /\ noted' = noted
      BY <1>5 DEF PassReference, store
    <2> QED
      BY <2>1, <2>2, <2>3 DEF Accounted, Archived
  <1>6. CASE KeepReference(i)
    <2>1. Keep(ref.to, Hint[ref.to], doc)
      BY <1>6 DEF KeepReference
    <2>2. PICK name \in AssetNames : Kept(name, ref.to, Hint[ref.to], doc)
      BY <1>1, <1>3, <2>1, KeepEffect
    <2> QED
      BY <2>2 DEF Kept, Accounted, Archived
  <1> QED
    BY <1>4, <1>5, <1>6

(* A reference never brings a stylesheet that is known only by its type.     *)
LEMMA SheetsStay ==
    ASSUME Copied, SheetsDealt, ArchiveNext, NEW i \in todo,
           \/ SkipReference(i) \/ PassReference(i) \/ KeepReference(i)
           \/ LoseReference(i) \/ RefuseReference(i)
    PROVE  SheetsDealt'
  <1>1. /\ \A k \in DOMAIN archived : k \in DOMAIN archived' /\ archived'[k] = archived[k]
        /\ \A k \in DOMAIN archived' \ DOMAIN archived : k = Len(archived) + 1
    BY CopiesStay
  <1>2. CASE archived' = archived
    BY <1>2, AccountsStay DEF SheetsDealt
  <1>3. CASE KeepReference(i)
    <2>1. Writes[doc] \in Seq(Reference) /\ i \in DOMAIN Writes[doc] /\ doc \in Documents
      BY ArchiveAssumption DEF Copied, PassesTyped
    <2>2. Writes[doc][i] \in Reference
      BY <2>1
    <2>3. PICK u \in Urls : u = Writes[doc][i].to
      BY <2>2 DEF Reference
    <2>4. Hint[u] \in Kinds /\ Hint[u] # "sheet"
      BY ArchiveAssumption
    <2>5. PICK name \in AssetNames : Kept(name, u, Hint[u], doc)
      BY <1>3, <2>1, <2>3, <2>4, KeepEffect DEF KeepReference
    <2>6. archived'[Len(archived) + 1].kind # "sheet"
      BY <2>4, <2>5 DEF Kept
    <2> QED
      BY <1>1, <2>6, AccountsStay DEF SheetsDealt
  <1> QED
    BY <1>2, <1>3 DEF SkipReference, PassReference, LoseReference, RefuseReference, Skip, Lose, store

(* A reference is dealt with: the others that are due stay due.              *)
LEMMA ReferenceOverseen ==
    ASSUME Copied, Overseen, ArchiveNext, NEW i \in todo,
           \/ SkipReference(i) \/ PassReference(i) \/ KeepReference(i)
           \/ LoseReference(i) \/ RefuseReference(i)
    PROVE  Overseen'
  <1>1. /\ doc' = doc /\ next' = next /\ pass' = pass /\ todo' = todo \ {i}
        /\ pass \in {"css", "text"}
    BY DEF SkipReference, PassReference, KeepReference, LoseReference, RefuseReference, Fetching,
           At, Handled
  <1>2. \A ref : ref = Writes[doc][i] => (Owed(pass, ref) => Accounted(ref.to)')
    BY ReferenceAccounted
  <1>3. (Reading => Current)'
    BY <1>1, <1>2, AccountsStay DEF Overseen, Passed, Reading, Current, Owed
  <1>4. (pass = "text" /\ doc # Page => Dealt("text", Page))'
    BY <1>1, AccountsStay DEF Overseen
  <1>5. /\ \A k \in DOMAIN archived : k \in DOMAIN archived' /\ archived'[k] = archived[k]
        /\ \A k \in DOMAIN archived' \ DOMAIN archived : k = Len(archived) + 1
        /\ Len(archived) \in Nat /\ Len(archived') \in Nat /\ Len(archived) <= Len(archived')
        /\ next \in Nat
    BY CopiesStay DEF Copied, PassesTyped
  <1>6. (next <= Len(archived) + 1)'
    BY <1>1, <1>5 DEF Overseen, Passed
  <1>7. \A k \in DOMAIN archived' : k < next => k \in DOMAIN archived
    BY <1>1, <1>5 DEF Overseen, Passed
  <1>8. (\A k \in DOMAIN archived :
             k < next /\ Taken(pass, archived[k])
                 => archived[k].url = doc \/ Dealt(pass, archived[k].url))'
    <2> SUFFICES ASSUME NEW k \in DOMAIN archived', k < next', Taken(pass', archived'[k]),
                        NEW d, d = archived'[k].url
                 PROVE  d = doc' \/ Dealt(pass, d)'
      OBVIOUS
    <2>1. Taken(pass, archived[k]) /\ k < next /\ k \in DOMAIN archived /\ d = archived[k].url
      BY <1>1, <1>5, <1>7 DEF Taken
    <2>2. d = doc \/ Dealt(pass, d)
      BY <1>1, <2>1 DEF Overseen, Passed
    <2> QED
      BY <1>1, <2>2, AccountsStay
  <1>9. Passed'
    BY <1>3, <1>6, <1>8 DEF Passed
  <1>10. (pass \in {"text", "done"} => SheetsDealt)'
    BY <1>1, SheetsStay DEF Overseen
  <1> QED
    BY <1>1, <1>4, <1>9, <1>10, LeadingAccounted DEF Overseen

(* A captured resource: only the references that lead somewhere count.       *)
LEMMA EarlierOverseen ==
    ASSUME Copied, Overseen, ArchiveNext, pass' = "captured"
    PROVE  Overseen'
  BY LeadingAccounted DEF Overseen

(* Where the pass stands at the page or at a copy with nothing left to do,   *)
(* that is dealt with.                                                       *)
LEMMA DocumentDone ==
    ASSUME Overseen, pass \in {"css", "text"}, todo = {}, Reading
    PROVE  Dealt(pass, doc)
  BY DEF Overseen, Passed, Current, Dealt

(* The copies are documents, and none of them is the page.                   *)
LEMMA CopiesAreDocuments ==
    ASSUME Copied, NEW k \in DOMAIN archived
    PROVE  /\ archived[k].url \in Urls /\ archived[k].url \in Documents
           /\ archived[k].url # Page /\ archived[k].kind \in Kinds
  <1> DEFINE Copies == [url : Urls, kind : Kinds, name : AssetNames]
  <1>1. archived \in Seq(Copies)
    BY DEF Copied, PassesTyped
  <1>2. archived[k] \in Copies
    <2> HIDE DEF Copies
    <2> QED
      BY <1>1
  <1> QED
    BY <1>2, ArchiveAssumption DEF Documents

(* The next document of a pass, when all of the last is done.                *)
LEMMA NextDocumentOverseen ==
    ASSUME Copied, Overseen, NextDocument
    PROVE  Overseen'
  <1>0. ArchiveNext /\ pass \in {"css", "text"}
    BY DEF ArchiveNext, NextDocument
  <1>u. archived[next].url # Page /\ next \in DOMAIN archived
    BY CopiesAreDocuments DEF NextDocument
  <1>1. /\ todo = {} /\ next \in DOMAIN archived /\ next' = next + 1 /\ pass' = pass
        /\ UNCHANGED <<archived, noted>>
        /\ \/ Taken(pass, archived[next]) /\ doc' = archived[next].url /\ todo' = Positions(doc')
           \/ ~Taken(pass, archived[next]) /\ doc' = doc /\ todo' = todo
    <2>1. Chosen(archived[next].kind) /\ Legible(archived[next].url) <=> Taken(pass, archived[next])
      BY <1>0, <1>u DEF Chosen, Legible, Taken
    <2> QED
      BY <2>1 DEF NextDocument, store
  <1>2. Reading => Dealt(pass, doc)
    BY <1>0, <1>1, DocumentDone
  <1>3. pass = "text" => Dealt("text", Page)
    BY <1>2 DEF Overseen, Reading
  <1>4. (Reading => Current)'
    <2>1. CASE doc' = doc /\ todo' = todo
      BY <1>0, <1>1, <2>1, AccountsStay DEF Overseen, Passed, Reading, Current, Owed
    <2>2. CASE todo' = Positions(doc')
      <3>1. doc' \in Documents
        BY <1>0, CopiedStep DEF Copied, PassesTyped
      <3>2. \A i \in DOMAIN Writes[doc'] :
               \E j \in Positions(doc') : Writes[doc'][j] = Writes[doc'][i]
        BY <3>1, FirstKept
      <3> QED
        BY <2>2, <3>2 DEF Current
    <2> QED
      BY <1>1, <2>1, <2>2
  <1>5. archived \in Seq([url : Urls, kind : Kinds, name : AssetNames]) /\ next \in Nat
    BY DEF Copied, PassesTyped
  <1>6. (next <= Len(archived) + 1)'
    BY <1>1, <1>5
  <1>7. \A k \in DOMAIN archived : k < next + 1 /\ Taken(pass, archived[k])
                                      => archived[k].url = doc' \/ Dealt(pass, archived[k].url)
    <2> SUFFICES ASSUME NEW k \in DOMAIN archived, k < next + 1, Taken(pass, archived[k])
                 PROVE  archived[k].url = doc' \/ Dealt(pass, archived[k].url)
      OBVIOUS
    <2>1. CASE k = next
      BY <1>1, <2>1
    <2>2. CASE k # next
      <3>1. k < next
        BY <1>5, <2>2
      <3>2. archived[k].url = doc \/ Dealt(pass, archived[k].url)
        BY <1>0, <3>1 DEF Overseen, Passed
      <3>3. archived[k].url = doc => Reading
        BY CopiesAreDocuments DEF Reading
      <3> QED
        BY <1>2, <3>2, <3>3
    <2> QED
      BY <2>1, <2>2
  <1>8. Passed'
    <2>1. (\A k \in DOMAIN archived : k < next /\ Taken(pass, archived[k])
                                         => archived[k].url = doc \/ Dealt(pass, archived[k].url))'
      BY <1>0, <1>1, <1>7, AccountsStay DEF Taken
    <2> QED
      BY <1>4, <1>6, <2>1 DEF Passed
  <1>9. (pass \in {"text", "done"} => SheetsDealt)'
    BY <1>0, <1>1, AccountsStay DEF Overseen, SheetsDealt
  <1> QED
    BY <1>0, <1>1, <1>3, <1>8, <1>9, LeadingAccounted, AccountsStay DEF Overseen

(* The pass over texts begins with the page, and the last pass ends with all *)
(* documents done.                                                           *)
LEMMA NextPassOverseen ==
    ASSUME Copied, Overseen, NextPass
    PROVE  Overseen'
  <1>0. ArchiveNext
    BY DEF ArchiveNext
  <1>1. /\ todo = {} /\ next' = 1 /\ doc' = Page
        /\ pass \in {"css", "text"} => next \notin DOMAIN archived
        /\ pass \in {"captured", "css", "text"}
        /\ pass' = CASE pass = "captured" -> "css" [] pass = "css" -> "text"
                     [] pass = "text" -> "done"
        /\ todo' = IF pass' = "text" THEN Positions(Page) ELSE {}
        /\ UNCHANGED <<archived, noted>>
    BY DEF NextPass, Copied, PassesTyped, store
  <1>2. archived \in Seq([url : Urls, kind : Kinds, name : AssetNames]) /\ next \in Nat \ {0}
    BY DEF Copied, PassesTyped
  <1>3. \A k \in DOMAIN archived : ~(k < 1)
    BY <1>2
  <1>4. 1 <= Len(archived) + 1
    BY <1>2
  <1>5. ASSUME pass \in {"css", "text"}, NEW k \in DOMAIN archived, Taken(pass, archived[k])
        PROVE  Dealt(pass, archived[k].url)
    <2>1. k < next
      BY <1>1, <1>2, <1>5 DEF Overseen, Passed
    <2>2. archived[k].url = doc \/ Dealt(pass, archived[k].url)
      BY <1>5, <2>1 DEF Overseen, Passed
    <2>3. archived[k].url = doc => Reading
      BY CopiesAreDocuments DEF Reading
    <2> QED
      BY <1>1, <1>5, <2>2, <2>3, DocumentDone
  <1>6. CASE pass = "captured"
    <2>1. pass' = "css"
      BY <1>1, <1>6
    <2>2. Passed'
      BY <1>1, <1>3, <1>4, <2>1 DEF Passed, Reading
    <2> QED
      BY <1>0, <1>1, <2>1, <2>2, LeadingAccounted DEF Overseen
  <1>7. CASE pass = "css"
    <2>1. pass' = "text" /\ todo' = Positions(Page)
      BY <1>1, <1>7
    <2>2. \A i \in DOMAIN Writes[Page] : \E j \in Positions(Page) : Writes[Page][j] = Writes[Page][i]
      BY FirstKept DEF Documents
    <2>3. Passed'
      BY <1>1, <1>3, <1>4, <2>1, <2>2 DEF Passed, Current
    <2>4. SheetsDealt
      <3> SUFFICES ASSUME NEW k \in DOMAIN archived, archived[k].kind = "sheet",
                          archived[k].url \in Utf8
                   PROVE  Dealt("css", archived[k].url)
        BY DEF SheetsDealt
      <3>1. Taken(pass, archived[k])
        BY <1>7 DEF Taken, IsCss
      <3> QED
        BY <1>5, <1>7, <3>1
    <2>5. SheetsDealt'
      BY <1>0, <1>1, <2>4, AccountsStay DEF SheetsDealt
    <2> QED
      BY <1>0, <1>1, <2>1, <2>3, <2>5, LeadingAccounted DEF Overseen
  <1>8. CASE pass = "text"
    <2>1. pass' = "done"
      BY <1>1, <1>8
    <2>2. Dealt("text", Page)
      BY <1>1, <1>8, DocumentDone DEF Overseen, Reading
    <2>3. SheetsDealt /\ \A k \in DOMAIN archived : Taken("text", archived[k]) => Dealt("text", archived[k].url)
      BY <1>5, <1>8 DEF Overseen
    <2>4. SheetsDealt'
      BY <1>0, <1>1, <2>3, AccountsStay DEF SheetsDealt
    <2>5. (\A k \in DOMAIN archived : Taken("text", archived[k]) => Dealt("text", archived[k].url))'
      BY <1>0, <1>1, <2>3, AccountsStay DEF Taken
    <2> QED
      BY <1>0, <1>1, <2>1, <2>2, <2>4, <2>5, LeadingAccounted, AccountsStay DEF Overseen
  <1> QED
    BY <1>1, <1>6, <1>7, <1>8

(* No step of the passes overlooks a reference.                              *)
LEMMA PassesOverseen ==
    ASSUME Copied, Overseen, ArchiveNext
    PROVE  Overseen'
  <1>1. CASE Deadline
    <2>1. UNCHANGED <<place, archived, noted, rewrites>>
      BY <1>1 DEF Deadline, store
    <2> QED
      BY <2>1 DEF place, Overseen, Passed, Reading, SheetsDealt, Current, Dealt, Taken, Owed,
                  Accounted, Archived
  <1>2. CASE SkipResource \/ KeepResource \/ LoseResource
    <2>1. pass' = "captured"
      BY <1>2 DEF SkipResource, KeepResource, LoseResource, AtResource, Resourced
    <2> QED
      BY <2>1, EarlierOverseen
  <1>3. ASSUME NEW i \in todo,
               \/ SkipReference(i) \/ PassReference(i) \/ KeepReference(i)
               \/ LoseReference(i) \/ RefuseReference(i)
        PROVE  Overseen'
    BY <1>3, ReferenceOverseen
  <1> QED
    BY <1>1, <1>2, <1>3, NextDocumentOverseen, NextPassOverseen DEF ArchiveNext

(* Whatever the page or an archived document that is textual and UTF-8       *)
(* refers to, and whatever a captured stylesheet does that is known only by  *)
(* its resource type, is in the archive or in the records of what was        *)
(* skipped or failed, in whatever order the references are taken and         *)
(* wherever a limit or the deadline strikes.                                 *)
THEOREM NothingIsMissed == Spec => []NothingMissed
  <1>1. Init => Overseen
    BY InitOverseen DEF Init
  <1>2. Copied /\ Overseen /\ [Next]_vars => Overseen'
    <2> SUFFICES ASSUME Copied, Overseen, [Next]_vars PROVE Overseen'
      OBVIOUS
    <2>1. ArchiveNext \/ UNCHANGED archiveVars
      BY PassesAlone
    <2>2. CASE UNCHANGED archiveVars
      BY <2>2 DEF archiveVars, place, store, Overseen, Passed, Reading, SheetsDealt, Current, Dealt,
                  Taken, Owed, Accounted, Archived
    <2> QED
      BY <2>1, <2>2, PassesOverseen
  <1>3. Overseen => NothingMissed
    <2> SUFFICES ASSUME Overseen, pass = "done", NEW d \in Documents, NEW i \in DOMAIN Writes[d],
                        NEW ref, ref = Writes[d][i],
                        \/ d = Page /\ ref.form # "relative"
                        \/ \E k \in DOMAIN archived :
                              /\ archived[k].url = d /\ d \in Utf8
                              /\ \/ IsTextual(archived[k].kind) /\ ref.form # "relative"
                                 \/ archived[k].kind = "sheet"
                 PROVE  Accounted(ref.to)
      BY DEF NothingMissed
    <2>1. CASE d = Page /\ ref.form # "relative"
      BY <2>1 DEF Overseen, Dealt, Owed
    <2>2. ASSUME NEW k \in DOMAIN archived, archived[k].url = d, d \in Utf8,
                 IsTextual(archived[k].kind), ref.form # "relative"
          PROVE  Accounted(ref.to)
      <3>1. Dealt("text", d)
        BY <2>2 DEF Overseen, Taken
      <3> QED
        BY <2>2, <3>1 DEF Dealt, Owed
    <2>3. ASSUME NEW k \in DOMAIN archived, archived[k].url = d, d \in Utf8,
                 archived[k].kind = "sheet"
          PROVE  Accounted(ref.to)
      <3>1. Dealt("css", d)
        BY <2>3 DEF Overseen, SheetsDealt
      <3> QED
        BY <3>1 DEF Dealt, Owed
    <2> QED
      BY <2>1, <2>2, <2>3
  <1> QED
    BY <1>1, <1>2, <1>3, CopiedHolds, PTL DEF Spec
=============================================================================
