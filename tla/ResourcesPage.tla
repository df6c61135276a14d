---------------------------- MODULE ResourcesPage ---------------------------
(***************************************************************************)
(* The resource dashboard (frontend/app/resources/page.tsx): the load and  *)
(* the state sync that share one view state, the export, and the table     *)
(* with its filters, its order and the comparison of a resource that has   *)
(* drifted (components/ui/resource-table.tsx).                             *)
(*                                                                         *)
(* The inventory is the page's own mock: a stand-in for a service that the *)
(* repository does not have yet.  What its query string asks for decides   *)
(* what it answers.                                                        *)
(***************************************************************************)
EXTENDS Naturals, Sequences, SequencesExt

CONSTANT Lines,    \* one line each: the entries of a planned or an actual state
         MaxLines  \* bound: entries of a planned or an actual state

ASSUME ResourcesPageAssumption == 
  MaxLines \in Nat /\ Lines \cap {"{", "}", "{}"} = {}

VARIABLES dash,    \* the page
          table    \* the table, as it is mounted with every load

resourcesVars == <<dash, table>>

\* Two of the resources are equal in what one column shows.  A name, a time of
\* the last sync or a region is its rank; found is the text search of the query.
mockResources ==
  << [id |-> 1, name |-> 2, lastSynced |-> 2, provider |-> "aws", drift |-> TRUE,  found |-> TRUE],
     [id |-> 2, name |-> 1, lastSynced |-> 2, provider |-> "aws", drift |-> FALSE, found |-> FALSE],
     [id |-> 3, name |-> 2, lastSynced |-> 1, provider |-> "gcp", drift |-> FALSE, found |-> TRUE] >>

\* JSON.stringify(state, null, 2).split("\n").
Metadata ==
  {<<"{}">>} \cup {<<"{">> \o body \o <<"}">> : body \in UNION {[1..n -> Lines] : n \in 1..MaxLines}}

providerCounts(rs, p) == Len(SelectSeq(rs, LAMBDA r : r.provider = p))
driftCount(rs)        == Len(SelectSeq(rs, LAMBDA r : r.drift))

-----------------------------------------------------------------------------
(* Loading, syncing, exporting.                                            *)

NewTable == [search |-> FALSE, provider |-> "all", drift |-> "all",
             key |-> "name", dir |-> "asc", expanded |-> 0]

fetchResources(scenario) ==
  CASE scenario = "error" -> [success |-> FALSE, data |-> <<>>]
    [] scenario = "empty" -> [success |-> TRUE,  data |-> <<>>]
    [] OTHER              -> [success |-> TRUE,  data |-> mockResources]

\* The table goes with the view that showed it.
StartLoad(d) == [d EXCEPT !.view = "loading", !.error = FALSE]

\* load after its await, and the rest of handleSync if it was the caller.
Fetched ==
  /\ dash.view = "loading"
  /\ LET result == fetchResources(dash.scenario)
     IN  dash' = [dash EXCEPT
           !.view = CASE ~result.success   -> "error"
                      [] result.success /\ result.data = <<>> -> "empty"
                      [] OTHER              -> "default",
           !.resources = result.data, !.error = ~result.success, !.syncing = FALSE,
           !.feedback = IF ~dash.syncing THEN @
                        ELSE IF result.success THEN "up to date" ELSE "sync failed"]
  /\ table' = NewTable

\* fetchResources throws: the catch block of load.
FetchThrows ==
  /\ dash.view = "loading"
  /\ dash' = [dash EXCEPT !.view = "error", !.error = TRUE, !.resources = <<>>,
                          !.syncing = FALSE,
                          !.feedback = IF dash.syncing THEN "sync failed" ELSE @]
  /\ table' = NewTable

RetryResources ==
  /\ dash.error \/ dash.view = "error"
  /\ dash' = StartLoad(dash)
  /\ UNCHANGED table

handleSync ==
  /\ ~dash.syncing /\ dash.view # "loading"
  /\ dash' = StartLoad([dash EXCEPT !.syncing = TRUE, !.feedback = "none"])
  /\ UNCHANGED table

\* One synchronous call: isExporting is never seen by another one.
handleExport ==
  /\ dash.resources # <<>> /\ dash.view # "loading"
  /\ dash' = [dash EXCEPT !.feedback = "exported"]
  /\ UNCHANGED table

DismissSync ==
  /\ dash.feedback # "none"
  /\ dash' = [dash EXCEPT !.feedback = "none"]
  /\ UNCHANGED table

-----------------------------------------------------------------------------
(* The table.                                                              *)

Matches(r) ==
  /\ table.search => r.found
  /\ table.provider \in {"all", r.provider}
  /\ table.drift = "drift" => r.drift
  /\ table.drift = "clean" => ~r.drift

\* Array.sort is stable; the comparison is turned around for "desc".
Before(a, b) ==
  IF table.dir = "asc" THEN a[table.key] < b[table.key] ELSE b[table.key] < a[table.key]

rows == SortSeq(SelectSeq(dash.resources, Matches), Before)

InTable == dash.view = "default"
SetTable(t) == InTable /\ t # table /\ table' = t /\ UNCHANGED dash

Search(on)         == SetTable([table EXCEPT !.search = on])
FilterProvider(p)  == SetTable([table EXCEPT !.provider = p])
FilterDrift(d)     == SetTable([table EXCEPT !.drift = d])
ClearFilters       == SetTable([table EXCEPT !.search = FALSE, !.provider = "all", !.drift = "all"])

toggleSort(key) ==
  SetTable([table EXCEPT !.key = key,
              !.dir = IF table.key = key /\ table.dir = "asc" THEN "desc" ELSE "asc"])

\* Only a row on the page can be clicked; it stays the expanded one when a
\* filter hides it.
ToggleRow(id) ==
  /\ \E i \in DOMAIN rows : rows[i].id = id
  /\ SetTable([table EXCEPT !.expanded = IF @ = id THEN 0 ELSE id])

-----------------------------------------------------------------------------
(* diffLines: the lines of two states that a longest common subsequence    *)
(* leaves over, found by walking the table of lengths backwards.           *)

LcsLength(left, right) ==
  LET dp[i \in 0..Len(left), j \in 0..Len(right)] ==
        IF i = 0 \/ j = 0 THEN 0
        ELSE IF left[i] = right[j] THEN dp[i - 1, j - 1] + 1
        ELSE IF dp[i - 1, j] >= dp[i, j - 1] THEN dp[i - 1, j] ELSE dp[i, j - 1]
  IN  dp

\* Mutant of Backtrack: the smaller of the two neighbours is followed.
BacktrackSmaller(left, right) ==
  LET dp == LcsLength(left, right)
      walk[i \in 0..Len(left), j \in 0..Len(right)] ==
        IF i = 0 \/ j = 0 THEN {}
        ELSE IF left[i] = right[j] THEN walk[i - 1, j - 1] \cup {<<i, j>>}
        ELSE IF dp[i - 1, j] <= dp[i, j - 1] THEN walk[i - 1, j] ELSE walk[i, j - 1]
  IN  walk[Len(left), Len(right)]

\* The pairs of positions that are marked as matched.
Backtrack(left, right) ==
  LET dp == LcsLength(left, right)
      walk[i \in 0..Len(left), j \in 0..Len(right)] ==
        IF i = 0 \/ j = 0 THEN {}
        ELSE IF left[i] = right[j] THEN walk[i - 1, j - 1] \cup {<<i, j>>}
        ELSE IF dp[i - 1, j] >= dp[i, j - 1] THEN walk[i - 1, j] ELSE walk[i, j - 1]
  IN  walk[Len(left), Len(right)]

diffLines(left, right) ==
  LET matched == Backtrack(left, right)
  IN  [left  |-> {i \in 1..Len(left)  : \A p \in matched : p[1] # i},
       right |-> {j \in 1..Len(right) : \A p \in matched : p[2] # j}]

-----------------------------------------------------------------------------
\* The page is opened with some query string; the first load is on its way.
ResourcesInit ==
  /\ \E scenario \in {"default", "empty", "error"} :
       dash = [view |-> "loading", error |-> FALSE, resources |-> <<>>, syncing |-> FALSE,
               feedback |-> "none", scenario |-> scenario]
  /\ table = NewTable

ResourcesNext ==
  \/ Fetched \/ FetchThrows \/ RetryResources \/ handleSync \/ handleExport \/ DismissSync
  \/ ClearFilters \/ \E on \in BOOLEAN : Search(on)
  \/ \E p \in {"all", "aws", "azure", "gcp"} : FilterProvider(p)
  \/ \E d \in {"all", "drift", "clean"} : FilterDrift(d)
  \/ \E key \in {"name", "lastSynced"} : toggleSort(key)
  \/ \E id \in 1..Len(mockResources) : ToggleRow(id)

ResourcesTypeOK ==
  /\ dash.view \in {"loading", "default", "empty", "error"}
  /\ dash.feedback \in {"none", "up to date", "sync failed", "exported"}
  /\ table.expanded \in 0..Len(mockResources)

-----------------------------------------------------------------------------
(* Properties.                                                             *)

\* "Inventory is up to date." stands above the inventory that the last sync
\* has loaded: no later load, retry or failure, which all share the view with
\* the sync, leaves it above another result.
SyncMessageTrue ==
  dash.feedback = "up to date" =>
    /\ dash.view \in {"default", "empty"} /\ ~dash.error /\ ~dash.syncing
    /\ dash.resources = fetchResources(dash.scenario).data

\* The rows are the resources that match, each once, in the order asked for;
\* resources that tie keep the order of the inventory in both directions, so
\* turning the direction around never shuffles them.
RowsStable ==
  InTable =>
    LET rs == rows
    IN  /\ ToSet(rs) = {r \in ToSet(dash.resources) : Matches(r)}
        /\ \A i, j \in DOMAIN rs : i < j =>
             ~Before(rs[j], rs[i]) /\ (Before(rs[i], rs[j]) \/ rs[i].id < rs[j].id)

\* The comparison of a resource that has drifted marks as few lines as can be:
\* what it leaves unmarked is the same text on both sides, in the same order,
\* and no two unmarked selections that agree are longer.  It is looked at when
\* the row is first opened; nothing else in the table changes it.
DiffMaximal ==
  InTable /\ table = [NewTable EXCEPT !.expanded = 1] /\ dash.feedback = "none" =>
    \A expected, actual \in Metadata :
      LET diff == diffLines(expected, actual)
          Pick(s, marked) == SetToSortSeq(DOMAIN s \ marked, <)
          Text(s, marked) == LET p == Pick(s, marked) IN [i \in DOMAIN p |-> s[p[i]]]
          common == Text(expected, diff.left)
      IN  /\ common = Text(actual, diff.right)
          /\ ~\E m \in SUBSET DOMAIN expected, n \in SUBSET DOMAIN actual :
               /\ Cardinality(DOMAIN expected \ m) > Len(common)
               /\ Text(expected, m) = Text(actual, n)

\* Message, rows and comparison are true of the inventory that is shown.
ResourcesPageInv == ResourcesTypeOK /\ SyncMessageTrue /\ RowsStable /\ DiffMaximal
=============================================================================
