--------------------------- MODULE SchemaHistory ----------------------------
(***************************************************************************)
(* What bidding.db.migrations promises: the schema of the database grows   *)
(* by whole releases.  In one atomic step a release adds the migrations    *)
(* that are missing, in the order of their versions, and it does so only   *)
(* if the migrations it shares with the database are the very same.        *)
(***************************************************************************)
EXTENDS Integers, Sequences, FiniteSets

CONSTANT Releases     \* the sets of migration files that releases ship

VARIABLE history      \* the migrations executed on the database, in order

Applied == {history[i] : i \in 1..Len(history)}

Missing(files) == files \ Applied

(***************************************************************************)
(* No file of the release contradicts a migration that was executed.       *)
(***************************************************************************)
Compatible(files) ==
  \A m \in files, n \in Applied : m.version = n.version => m = n

Upgrade(files) ==
  /\ Compatible(files)
  /\ Len(history') = Len(history) + Cardinality(Missing(files))
  /\ \A i \in 1..Len(history) : history'[i] = history[i]
  /\ LET new == Len(history) + 1 .. Len(history')
     IN  /\ {history'[i] : i \in new} = Missing(files)
         /\ \A i, j \in new : i < j => history'[i].version < history'[j].version

HistoryNext == \E files \in Releases : Upgrade(files)

HistorySpec == history = <<>> /\ [][HistoryNext]_history

=============================================================================
