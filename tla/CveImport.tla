------------------------------ MODULE CveImport -------------------------------
(***************************************************************************)
(* Imports, prunes and index rebuilds of the CVE database, each of them one *)
(* READ COMMITTED transaction.  The transactions overlap: nothing but the   *)
(* row locks orders two imports, or an import and a rebuild.                *)
(*                                                                         *)
(* A row is one CVE of one source.  Two tables are derived from the rows:   *)
(* cve_affected_packages, by which the matcher finds its candidates, and    *)
(* cve_reference_keys, by which the search groups advisories.  They are     *)
(* kept alike but rebuilt differently; a behaviour looks at one of them.    *)
(* A statement that has to wait for a lock is taken when the lock is free.  *)
(***************************************************************************)
EXTENDS Naturals, FiniteSets

CONSTANTS CveIds,
          Feeds,        \* the sources of the CVE database
          Items,        \* affected products, or references
          Importers, Rebuilders,
          MaxTxs,       \* bounds the transactions
          MaxTries,     \* the attempts of an import
          ImportFaults  \* bounds failing statements and restarts

ASSUME CveImportAssumption == MaxTxs \in Nat \ {0} /\ {MaxTries, ImportFaults} \subseteq Nat

VARIABLES rows,     \* cve_database
          index,    \* the table derived from it
          txs,      \* the transaction of each job
          table,    \* which table that is: "affected" or "reference"
          deferred, \* (history) rows left to a later finalization, or overtaken
          begun, importFaults

importVars == <<rows, index, txs, table, deferred, begun, importFaults>>

Jobs == Importers \cup Rebuilders
CveKeys == CveIds \X Feeds

(* id: the row's own, which ON CONFLICT DO UPDATE keeps. *)
NoCve == [id |-> 0, items |-> {}]
CveRow == [id : 0..MaxTxs, items : SUBSET Items]
NoRows == [key \in CveKeys |-> NoCve]

IdleTx == [at |-> "idle", kind |-> "rebuild", feeds |-> Feeds, finalize |-> TRUE, id |-> 0,
           brings |-> [key \in CveKeys |-> {}], old |-> {}, gone |-> {}, written |-> NoRows,
           wiped |-> {}, seen |-> NoRows, added |-> {}, tries |-> 0]

Tuple == [key : CveKeys, id : 1..MaxTxs, item : Items]

CveImportTypeOK ==
  /\ rows \in [CveKeys -> CveRow]
  /\ index \subseteq Tuple
  /\ \A j \in Jobs :
       /\ txs[j].at \in {"idle", "delete", "upsert", "wipe", "read", "write", "commit"}
       /\ txs[j].written \in [CveKeys -> CveRow] /\ txs[j].seen \in [CveKeys -> CveRow]
       /\ txs[j].wiped \subseteq Tuple /\ txs[j].added \subseteq Tuple
  /\ table \in {"affected", "reference"} /\ deferred \subseteq CveKeys
  /\ begun \in 0..MaxTxs /\ importFaults \in 0..ImportFaults

-----------------------------------------------------------------------------
Exists(r) == r.id # 0
Others(j) == Jobs \ {j}

(* What a statement of j sees: what is committed, and its own changes. *)
Visible(j, key) ==
  IF Exists(txs[j].written[key]) THEN txs[j].written[key]
  ELSE IF key \in txs[j].gone THEN NoCve ELSE rows[key]

VisibleIndex(j) ==
  {t \in (index \ txs[j].wiped) \cup txs[j].added : Visible(j, t.key).id = t.id}

(* The rows that j has changed and not committed. *)
RowLocks(j) == txs[j].gone \cup {key \in CveKeys : Exists(txs[j].written[key])}
(* Those that a row of the derived table refers to must not be deleted. *)
Referred(j) == {t.key : t \in txs[j].added}

Tuples(key, r) == {[key |-> key, id |-> r.id, item |-> i] : i \in r.items}

(* A finished import has left row and table as if it had been alone. *)
InitCveImport ==
  /\ rows \in [CveKeys -> {NoCve} \cup [id : {1}, items : (SUBSET Items) \ {{}}]]
  /\ index = UNION {Tuples(key, rows[key]) : key \in CveKeys}
  /\ txs = [j \in Jobs |-> IdleTx]
  /\ table \in {"affected", "reference"}
  /\ deferred = {} /\ begun = 1 /\ importFaults = 0

At(j, step) == txs[j].at = step
Goes(j, tx) == txs' = [txs EXCEPT ![j] = tx]

Begin(j, tx) ==
  /\ At(j, "idle")
  /\ begun < MaxTxs
  /\ begun' = begun + 1
  /\ Goes(j, [tx EXCEPT !.id = begun + 1])
  /\ UNCHANGED <<rows, index, table, deferred, importFaults>>

-----------------------------------------------------------------------------
Brings(feeds) ==
  {brings \in [CveKeys -> SUBSET Items] :
     /\ \E key \in CveKeys : brings[key] # {}
     /\ \A key \in CveKeys : brings[key] # {} => key[2] \in feeds}

Of(feeds) == {key \in CveKeys : key[2] \in feeds}

(* An import brings entries of one source.  It may replace those there are, and
   leave the derived tables to a later one. *)
BeginImport(j) ==
  \E f \in Feeds, replace \in BOOLEAN, finalize \in BOOLEAN : \E brings \in Brings({f}) :
    Begin(j, [IdleTx EXCEPT !.at = IF replace THEN "delete" ELSE "upsert", !.kind = "import",
                            !.feeds = {f}, !.finalize = finalize, !.brings = brings,
                            !.old = IF replace THEN Of({f}) ELSE {}])

(* A bundle replaces everything, in a request or in a goroutine behind it. *)
BeginBundle(j) ==
  \E brings \in Brings(Feeds) :
    Begin(j, [IdleTx EXCEPT !.at = "delete", !.kind = "bundle", !.brings = brings, !.old = CveKeys])

(* handleCveDbPruneStaleSource: the rows of a source that are older than a full
   sync. *)
BeginPrune(j) ==
  \E f \in Feeds : \E old \in SUBSET Of({f}) :
    Begin(j, [IdleTx EXCEPT !.at = "delete", !.kind = "prune", !.feeds = {f}, !.old = old])

(* A rebuild of the reference keys reads the rows before its transaction begins, *)
ReferenceFrom == "read"

(* Mutant: the affected packages are rebuilt like the reference keys. *)
FirstStepIsRead == ReferenceFrom

(* one of the affected packages deletes and then inserts from the rows. *)
AffectedFrom == "wipe"

FirstStep == IF table = "affected" THEN AffectedFrom ELSE ReferenceFrom

(* A request, or a goroutine of which there is one at a time. *)
BeginAffectedRebuild(j) == table = "affected" /\ Begin(j, [IdleTx EXCEPT !.at = FirstStep])
BeginReferenceRebuild(j) == table = "reference" /\ Begin(j, [IdleTx EXCEPT !.at = FirstStep])

-----------------------------------------------------------------------------
(* DELETE FROM cve_database.  Rows that others insert meanwhile are not seen. *)
DeleteRows(j) ==
  LET victims == {key \in txs[j].old : Exists(rows[key])}
  IN /\ At(j, "delete")
     /\ \A k \in Others(j) : victims \cap (RowLocks(k) \cup Referred(k)) = {}
     /\ Goes(j, [txs[j] EXCEPT !.gone = victims,
                               !.at = IF txs[j].kind = "prune" THEN "commit" ELSE "upsert"])
     /\ UNCHANGED <<rows, index, table, deferred, begun, importFaults>>

(* INSERT ... ON CONFLICT DO UPDATE: products and references are merged. *)
Upserted(j, key) ==
  LET r == Visible(j, key)
      brought == txs[j].brings[key]
  IN CASE brought = {} -> NoCve
       [] brought # {} /\ Exists(r) -> [r EXCEPT !.items = @ \cup brought]
       [] OTHER -> [id |-> txs[j].id, items |-> brought]

UpsertCveEntriesTx(j) ==
  /\ At(j, "upsert")
  /\ \A k \in Others(j) : \A key \in RowLocks(k) : txs[j].brings[key] = {}
  /\ Goes(j, [txs[j] EXCEPT !.written = [key \in CveKeys |-> Upserted(j, key)],
                            !.at = IF txs[j].finalize THEN "wipe" ELSE "commit"])
  /\ UNCHANGED <<rows, index, table, deferred, begun, importFaults>>

ReadFirst(j) == txs[j].kind = "rebuild" /\ FirstStep = "read"

(* The derived rows of the sources are deleted. *)
Wipe(j) ==
  LET wiped == {t \in VisibleIndex(j) : t.key[2] \in txs[j].feeds}
  IN /\ At(j, "wipe")
     /\ \A k \in Others(j) : wiped \cap txs[k].wiped = {}
     /\ Goes(j, [txs[j] EXCEPT !.wiped = wiped,
                               !.at = IF ReadFirst(j) THEN "write" ELSE "read"])
     /\ UNCHANGED <<rows, index, table, deferred, begun, importFaults>>

(* The rows are selected, *)
ReadRows(j) ==
  /\ At(j, "read")
  /\ Goes(j, [txs[j] EXCEPT
                !.seen = [key \in CveKeys |->
                            IF key[2] \in txs[j].feeds THEN Visible(j, key) ELSE NoCve],
                !.at = IF ReadFirst(j) THEN "wipe" ELSE "write"])
  /\ UNCHANGED <<rows, index, table, deferred, begun, importFaults>>

(* and what is derived from them is inserted.  The reference keys are copied,
   without ON CONFLICT.  A row that is gone fails the foreign key. *)
Derived(j) == UNION {Tuples(key, txs[j].seen[key]) : key \in CveKeys}

CanWrite(j) ==
  /\ \A key \in CveKeys : Exists(txs[j].seen[key]) => Visible(j, key).id = txs[j].seen[key].id
  /\ table = "reference" => Derived(j) \cap VisibleIndex(j) = {}

WriteIndex(j) ==
  /\ At(j, "write")
  /\ \A k \in Others(j) :
       /\ \A key \in txs[k].gone : ~Exists(txs[j].seen[key])
       /\ Derived(j) \cap txs[k].added = {}
  /\ Goes(j, IF CanWrite(j) THEN [txs[j] EXCEPT !.added = Derived(j), !.at = "commit"]
             ELSE IdleTx)
  /\ UNCHANGED <<rows, index, table, deferred, begun, importFaults>>

(* Deleting a row deletes what is derived from it. *)
CommitTx(j) ==
  LET tx == txs[j]
      newRows == [key \in CveKeys |-> Visible(j, key)]
      written == {key \in CveKeys : Exists(tx.written[key])}
      overtaken == {key \in CveKeys : table = "reference" /\ tx.kind = "rebuild"
                                     /\ newRows[key] # tx.seen[key]}
      covered == {key \in CveKeys : newRows[key] = tx.seen[key]}
  IN /\ At(j, "commit")
     /\ rows' = newRows
     /\ index' = {t \in (index \ tx.wiped) \cup tx.added : newRows[t.key].id = t.id}
     /\ deferred' = {key \in (deferred \cup (IF tx.finalize THEN overtaken ELSE written)) \ covered :
                       Exists(newRows[key])}
     /\ Goes(j, IdleTx)
     /\ UNCHANGED <<table, begun, importFaults>>

(* A statement fails and the transaction is rolled back.  importCveJSONL tries
   again after a deadlock, as long as it may. *)
RollBack(j) ==
  /\ ~At(j, "idle")
  /\ importFaults < ImportFaults
  /\ importFaults' = importFaults + 1
  /\ \E retried \in BOOLEAN :
       LET tx == txs[j]
       IN /\ retried => tx.kind = "import" /\ tx.tries + 1 < MaxTries
          /\ Goes(j, IF ~retried THEN IdleTx
                     ELSE [IdleTx EXCEPT
                             !.at = IF tx.old # {} THEN "delete" ELSE "upsert",
                             !.kind = tx.kind, !.feeds = tx.feeds, !.finalize = tx.finalize,
                             !.id = tx.id, !.brings = tx.brings, !.old = tx.old,
                             !.tries = tx.tries + 1])
  /\ UNCHANGED <<rows, index, table, deferred, begun>>

(* A restart ends all transactions.  EnsureCveAffectedPackages and
   EnsureCveReferenceKeys then rebuild a table that is empty. *)
TableIsEmpty == index = {} /\ \E key \in CveKeys : Exists(rows[key])

Restart ==
  /\ importFaults < ImportFaults
  /\ importFaults' = importFaults + 1
  /\ \E r \in Rebuilders :
       txs' = [j \in Jobs |-> IF j = r /\ TableIsEmpty THEN [IdleTx EXCEPT !.at = FirstStep]
                              ELSE IdleTx]
  /\ UNCHANGED <<rows, index, table, deferred, begun>>

Statement(j) ==
  DeleteRows(j) \/ UpsertCveEntriesTx(j) \/ Wipe(j) \/ ReadRows(j) \/ WriteIndex(j) \/ CommitTx(j)

NextCveImport ==
  \/ \E j \in Importers : BeginImport(j) \/ BeginBundle(j) \/ BeginPrune(j)
  \/ \E j \in Rebuilders : BeginAffectedRebuild(j) \/ BeginReferenceRebuild(j)
  \/ \E j \in Jobs : Statement(j) \/ RollBack(j)
  \/ Restart

CveImportSpec == InitCveImport /\ [][NextCveImport]_importVars

-----------------------------------------------------------------------------
(* Whatever overlaps, fails or is retried: what can be derived from a row is in the
   table, unless the import that wrote the row left that to a later one.  A rebuild
   of the reference keys also loses those of a row that is written while it runs. *)
IndexIsComplete ==
  \A key \in CveKeys \ deferred : Tuples(key, rows[key]) \subseteq index

=============================================================================
