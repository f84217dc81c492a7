-------------------------- MODULE SensitiveBackfill --------------------------
(* The operator's script that moves sensitive columns behind encryption and     *)
(* blind indexes, table by table, while the services go on. A table is emptied  *)
(* in batches: the rows found are rewritten by id, from the values the query    *)
(* returned. It may be killed and started again.                               *)
(*                                                                              *)
(* In a "seal" table (profiles, beneficiaries, verification phones) the         *)
(* plaintext is replaced by a ciphertext, one row at a time; in an "index"      *)
(* table (verification and partner references) an index is added beside the     *)
(* value, a whole batch in one transaction.                                    *)
EXTENDS Naturals, FiniteSets

CONSTANTS
  Records,
  NTables,    \* tables, in the order of the script
  TableOf,    \* [Records -> 1..NTables]
  KindOf,     \* [1..NTables -> {"seal", "index"}]
  BatchSize,  \* 100 in the code
  Blank       \* records that hold an empty string: profiles, beneficiaries and
              \* partner references can, the other two tables have no trouble with it

ASSUME BackfillAssumption ==
  /\ IsFiniteSet(Records)
  /\ NTables \in Nat /\ BatchSize \in Nat \ {0}
  /\ TableOf \in [Records -> 1..NTables]
  /\ KindOf \in [1..NTables -> {"seal", "index"}]
  /\ Blank \subseteq Records

VARIABLES
  open,    \* the plaintext column
  sealed,  \* the ciphertext or index column, as the value it was made from
  truth,   \* the value last given to the record by anyone who meant to
  table,   \* where the script is; NTables + 1 when it is complete
  fetched, \* the rows it still has to write, with the values it read
  raced    \* rows a service rewrote between that read and that write

backfillVars == <<open, sealed, truth, table, fetched, raced>>

Null == "null"
Kind(r) == KindOf[TableOf[r]]
Reveal(r) == IF open[r] # Null THEN open[r] ELSE sealed[r]
InBatch(r) == \E b \in fetched : b.row = r

BackfillInit ==
  /\ open \in {[r \in Records |-> IF r \in B THEN "" ELSE "old"] : B \in {{}, Blank}}
  /\ sealed = [r \in Records |-> Null]
  /\ truth = open
  /\ table = 1
  /\ fetched = {}
  /\ raced = {}

(* Mutant of Pending: what is indexed already is found again.                  *)
PendingAgain(r) == TableOf[r] = table /\ open[r] # Null

(* The query of the table: a value, and nothing made from it yet.              *)
Pending(r) == TableOf[r] = table /\ open[r] # Null /\ sealed[r] = Null

(* Up to a batch of them in no particular order; none ends the table.          *)
FindBatch ==
  /\ table <= NTables /\ fetched = {}
  /\ LET rows == {r \in Records : Pending(r)}
     IN IF rows = {}
        THEN table' = table + 1 /\ UNCHANGED fetched
        ELSE /\ \E R \in SUBSET rows :
                  /\ Cardinality(R) = BatchSize
                       \/ (R = rows /\ Cardinality(R) < BatchSize)
                  /\ fetched' = {[row |-> r, value |-> open[r]] : r \in R}
             /\ UNCHANGED table
  /\ UNCHANGED <<open, sealed, truth, raced>>

(* Mutant of SealRow: the plaintext is cleared whether or not it was encrypted. *)
SealRowAlways(b) ==
  /\ b \in fetched /\ Kind(b.row) = "seal"
  /\ open' = [open EXCEPT ![b.row] = Null]
  /\ sealed' = [sealed EXCEPT ![b.row] = IF b.value = "" THEN @ ELSE b.value]
  /\ fetched' = fetched \ {b}
  /\ UNCHANGED <<truth, table, raced>>

(* One row of a seal table. For an empty string there is nothing to encrypt:    *)
(* the row stays as it is and the query will find it again.                    *)
SealRow(b) ==
  /\ b \in fetched /\ Kind(b.row) = "seal"
  /\ IF b.value = ""
     THEN UNCHANGED <<open, sealed>>
     ELSE /\ open' = [open EXCEPT ![b.row] = Null]
          /\ sealed' = [sealed EXCEPT ![b.row] = b.value]
  /\ fetched' = fetched \ {b}
  /\ UNCHANGED <<truth, table, raced>>

(* A batch of an index table in one transaction; an empty string has no index.  *)
IndexBatch ==
  /\ fetched # {} /\ \A b \in fetched : Kind(b.row) = "index"
  /\ sealed' = [r \in Records |->
                  IF InBatch(r)
                  THEN LET b == CHOOSE x \in fetched : x.row = r
                       IN IF b.value = "" THEN Null ELSE b.value
                  ELSE sealed[r]]
  /\ fetched' = {}
  /\ UNCHANGED <<open, truth, table, raced>>

(* A service gives the record a new value, protected from the start: an approval *)
(* replaces a phone, a worker stores a new partner reference.                  *)
LiveReplace(r) ==
  /\ truth[r] # "new"
  /\ truth' = [truth EXCEPT ![r] = "new"]
  /\ open' = [open EXCEPT ![r] = IF Kind(r) = "seal" THEN Null ELSE "new"]
  /\ sealed' = [sealed EXCEPT ![r] = "new"]
  /\ raced' = IF InBatch(r) THEN raced \union {r} ELSE raced
  /\ UNCHANGED <<table, fetched>>

(* The script is killed, or a write fails and ends it, and it is run again.     *)
Rerun ==
  /\ table > 1 \/ fetched # {}
  /\ table' = 1 /\ fetched' = {}
  /\ UNCHANGED <<open, sealed, truth, raced>>

Script == FindBatch \/ (\E b \in fetched : SealRow(b)) \/ IndexBatch

BackfillNext == Script \/ (\E r \in Records : LiveReplace(r)) \/ Rerun

BackfillSpec == BackfillInit /\ [][BackfillNext]_backfillVars

(* ------------------------------ Properties --------------------------------- *)

(* Every variable keeps its type.                                              *)
BackfillTypeOK ==
  /\ open \in [Records -> {Null, "", "old", "new"}]
  /\ sealed \in [Records -> {Null, "", "old", "new"}]
  /\ truth \in [Records -> {Null, "", "old", "new"}]
  /\ table \in 1..(NTables + 1)
  /\ \A b \in fetched : b.row \in Records /\ b.value \in {"", "old", "new"}
  /\ Cardinality(fetched) <= BatchSize
  /\ raced \subseteq Records

(* However often the script is cut and run again, and whatever the services     *)
(* write meanwhile, every record shows the value it was last given and an index *)
(* is that of its value. Only a row that a service rewrote between the script's *)
(* read and its write may have gone back.                                      *)
NothingLost ==
  \A r \in Records \ raced :
    /\ Reveal(r) = truth[r]
    /\ Kind(r) = "index" => sealed[r] \in {Null, open[r]}

(* The script is not killed for ever, and goes on as long as it runs.          *)
BackfillFairness == WF_backfillVars(Script) /\ <>[][~Rerun]_backfillVars

(* Without empty strings every batch makes progress, and the script ends with   *)
(* nothing sensitive left open in the tables it seals.                         *)
EventuallySealed ==
  (\A r \in Records : open[r] # "")
    ~> /\ table = NTables + 1
       /\ \A r \in Records : Kind(r) = "seal" => open[r] = Null
=============================================================================
