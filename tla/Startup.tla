------------------------------ MODULE Startup -------------------------------
(***************************************************************************)
(* How a process of the platform comes up and goes down: the settings it   *)
(* reads from its environment, its connection pool, the migrations it runs *)
(* before it serves (bidding.config, the lifespan of bidding.api.app and   *)
(* bidding.db.migrations).                                                 *)
(*                                                                         *)
(* Several processes do this at once: servers, rolling from one release to *)
(* the next, and the command bidding.db.migrations, which migrates and     *)
(* ends.  A step is one SQL statement, or what happens between two; the    *)
(* CREATE TABLE IF NOT EXISTS of schema_migrations is one step with the    *)
(* SELECT after it.  What a transaction has written is private to it until *)
(* it commits.                                                             *)
(***************************************************************************)
EXTENDS Integers, Sequences, FiniteSets

CONSTANTS Servers,       \* processes that run the application
          Tools,         \* processes that run bidding.db.migrations
          PoolOwners,    \* the servers whose pool is not given to them
          Releases,      \* the sets of migration files that releases ship
          Broken,        \* the files whose SQL fails
          Environments,  \* the environments processes are started in
          Invalid,       \* a setting that is not a number
          Fractions,     \* floats above 0, or NaN, that are not whole numbers
          lower,         \* str.lower, as a function on names of strategies
          NULL

Processes == Servers \cup Tools

(***************************************************************************)
(* A migration file: its version, and its body for its name and checksum.  *)
(* A file whose name does not match the pattern has version NULL.          *)
(***************************************************************************)
WellNamed(file) == file.version # NULL

VARIABLES records,   \* committed rows of schema_migrations
          schema,    \* the migrations executed on the database, in order
          lock,      \* the transaction that holds the advisory lock
          stage,     \* where a process is
          files,     \* the migration files of its release
          existing,  \* the rows it has read
          todo,      \* the files its loop has yet to visit
          executed,  \* the migrations its transaction has executed, in order
          recorded,  \* the rows its transaction has inserted
          pool       \* is its connection pool open?

txn == <<existing, todo, executed, recorded>>

vars == <<records, schema, lock, stage, files, txn, pool>>

InTransaction == {"inspecting", "applying", "recording"}

Stages ==
  {"off", "opening", "locking", "serving", "closing", "ended"} \cup InTransaction

AllFiles == UNION Releases

ASSUME ReleasesAssumption ==
  \A m \in AllFiles : m.version = NULL \/ m.version \in Nat

ASSUME ProcessAssumption ==
  NULL \notin Processes /\ PoolOwners \subseteq Servers

(* The type invariant of the processes and the table of migrations. *)
StartupTypeOK ==
  /\ records \subseteq AllFiles
  /\ schema \in Seq(AllFiles)
  /\ lock \in Processes \cup {NULL}
  /\ stage \in [Processes -> Stages]
  /\ files \in [Processes -> SUBSET AllFiles]
  /\ existing \in [Processes -> SUBSET AllFiles]
  /\ todo \in [Processes -> SUBSET AllFiles]
  /\ executed \in [Processes -> Seq(AllFiles)]
  /\ recorded \in [Processes -> SUBSET AllFiles]
  /\ pool \in [Processes -> BOOLEAN]

Init ==
  /\ records = {}
  /\ schema = <<>>
  /\ lock = NULL
  /\ stage = [p \in Processes |-> "off"]
  /\ files = [p \in Processes |-> {}]
  /\ existing = [p \in Processes |-> {}]
  /\ todo = [p \in Processes |-> {}]
  /\ executed = [p \in Processes |-> <<>>]
  /\ recorded = [p \in Processes |-> {}]
  /\ pool = [p \in Processes |-> p \notin PoolOwners]

-----------------------------------------------------------------------------
(***************************************************************************)
(* Settings.from_env and its validation; of the URL the scheme is kept.    *)
(***************************************************************************)
Defaults ==
  [DATABASE_URL |-> "postgresql", BID_STRATEGY |-> "pessimistic",
   DB_POOL_MIN_SIZE |-> 2, DB_POOL_MAX_SIZE |-> 20,
   DB_POOL_TIMEOUT_SECONDS |-> 5, DB_LOCK_TIMEOUT_MS |-> 2000,
   DB_STATEMENT_TIMEOUT_MS |-> 5000, OPTIMISTIC_MAX_ATTEMPTS |-> 5]

Integral ==
  DOMAIN Defaults \ {"DATABASE_URL", "BID_STRATEGY", "DB_POOL_TIMEOUT_SECONDS"}

from_env(env) ==
  [name \in DOMAIN Defaults |->
     IF name \in DOMAIN env THEN env[name] ELSE Defaults[name]]

positive_int(value) == value \in Nat \ {0}

positive_float(value) == value \in (Nat \ {0}) \cup Fractions

ValidSettings(settings) ==
  /\ settings.DATABASE_URL \in {"postgresql", "postgres"}
  /\ lower[settings.BID_STRATEGY] \in {"unsafe", "pessimistic", "optimistic"}
  /\ \A name \in Integral : positive_int(settings[name])
  /\ positive_float(settings.DB_POOL_TIMEOUT_SECONDS)
  /\ settings.DB_POOL_MIN_SIZE <= settings.DB_POOL_MAX_SIZE

-----------------------------------------------------------------------------
Goto(p, label) == stage' = [stage EXCEPT ![p] = label]

SessionLock(p) ==   \* mutated form: pg_advisory_lock, which outlives COMMIT
  /\ lock' = lock
  /\ existing' = [existing EXCEPT ![p] = {}]
  /\ todo' = [todo EXCEPT ![p] = {}]
  /\ executed' = [executed EXCEPT ![p] = <<>>]
  /\ recorded' = [recorded EXCEPT ![p] = {}]

(***************************************************************************)
(* The transaction is over; the advisory lock goes with it.                *)
(***************************************************************************)
EndTransaction(p) ==
  /\ lock' = IF lock = p THEN NULL ELSE lock
  /\ existing' = [existing EXCEPT ![p] = {}]
  /\ todo' = [todo EXCEPT ![p] = {}]
  /\ executed' = [executed EXCEPT ![p] = <<>>]
  /\ recorded' = [recorded EXCEPT ![p] = {}]

TriesLate(p) ==   \* mutated form: the try begins after the migrations
  p \in Servers /\ stage[p] = "serving"

(***************************************************************************)
(* Is the process inside the try statement of its lifespan?  The command   *)
(* has none, and a server enters it when its pool has been opened.         *)
(***************************************************************************)
Guarded(p) ==
  p \in Servers /\ stage[p] \in {"locking", "serving"} \cup InTransaction

(***************************************************************************)
(* An exception, or the end, takes the process to its finally clause, or   *)
(* where there is none ends it as it is.                                   *)
(***************************************************************************)
Leave(p) ==
  /\ Goto(p, IF Guarded(p) THEN "closing" ELSE "ended")
  /\ files' = [files EXCEPT ![p] = {}]
  /\ UNCHANGED pool

(***************************************************************************)
(* The finally clause closes the pool, unless it was given to the server.  *)
(***************************************************************************)
Finally(p) ==
  /\ stage[p] = "closing"
  /\ Goto(p, "ended")
  /\ pool' = [pool EXCEPT ![p] = @ /\ p \notin PoolOwners]
  /\ UNCHANGED <<records, schema, lock, files, txn>>

NoRollback(p) ==   \* mutated form: each statement commits by itself
  Leave(p) /\ EndTransaction(p) /\ UNCHANGED records
  /\ schema' = schema \o executed[p]

(***************************************************************************)
(* An exception: what the process has written is rolled back.              *)
(***************************************************************************)
Fail(p) == Leave(p) /\ EndTransaction(p) /\ UNCHANGED <<records, schema>>

-----------------------------------------------------------------------------
(***************************************************************************)
(* A process is started, or started again, with some release.              *)
(***************************************************************************)
Start(p, release, env) ==
  /\ stage[p] \in {"off", "ended"}
  /\ \/ ~ ValidSettings(from_env(env)) /\ Fail(p)
     \/ /\ ValidSettings(from_env(env))
        /\ files' = [files EXCEPT ![p] = release]
        /\ Goto(p, "opening")
        /\ UNCHANGED <<records, schema, lock, txn, pool>>

(***************************************************************************)
(* The pool is opened, or the command connects; a pool that cannot be      *)
(* filled in time closes itself.                                           *)
(***************************************************************************)
Open(p) ==
  /\ stage[p] = "opening"
  /\ Goto(p, "locking")
  /\ pool' = [pool EXCEPT ![p] = TRUE]
  /\ UNCHANGED <<records, schema, lock, files, txn>>

OpenTimeout(p) == stage[p] = "opening" /\ Fail(p)

NoLock(p) ==   \* mutated form: no advisory lock
  /\ stage[p] = "locking"
  /\ Goto(p, "inspecting")
  /\ UNCHANGED <<records, schema, lock, files, txn, pool>>

(***************************************************************************)
(* pg_advisory_xact_lock.                                                  *)
(***************************************************************************)
TakeLock(p) ==
  /\ stage[p] = "locking"
  /\ lock = NULL
  /\ lock' = p
  /\ Goto(p, "inspecting")
  /\ UNCHANGED <<records, schema, files, txn, pool>>

(***************************************************************************)
(* The rows are read, then the files: a name that does not match and two   *)
(* files of one version are refused.                                       *)
(***************************************************************************)
discoverable(release) ==
  /\ \A m \in release : WellNamed(m)
  /\ \A m, n \in release : m.version = n.version => m = n

Inspect(p) ==
  /\ stage[p] = "inspecting"
  /\ \/ ~ discoverable(files[p]) /\ Fail(p)
     \/ /\ discoverable(files[p])
        /\ existing' = [existing EXCEPT ![p] = records]
        /\ todo' = [todo EXCEPT ![p] = files[p]]
        /\ Goto(p, "applying")
        /\ UNCHANGED <<records, schema, lock, files, executed, recorded, pool>>

Unsorted(p, m) == m \in todo[p]   \* mutated form: the files are not sorted

(***************************************************************************)
(* The file the loop visits next.                                          *)
(***************************************************************************)
IsNext(p, m) == m \in todo[p] /\ \A n \in todo[p] : m.version <= n.version

VersionOnly(p, m) ==   \* mutated form: the checksum is not compared
  IF \E r \in existing[p] : r.version = m.version THEN {m} ELSE {}

Previous(p, m) == {r \in existing[p] : r.version = m.version}

Skip(p, m) ==
  /\ todo' = [todo EXCEPT ![p] = @ \ {m}]
  /\ UNCHANGED <<records, schema, lock, stage, files, existing, executed,
                 recorded, pool>>

(***************************************************************************)
(* Two files of one version create the same tables, so PostgreSQL makes    *)
(* the second wait for the transaction of the first, and then refuses it.  *)
(***************************************************************************)
InFlight(p, m) ==
  \E q \in Processes \ {p} : \E i \in 1..Len(executed[q]) :
    executed[q][i].version = m.version

Exists(m) == \E i \in 1..Len(schema) : schema[i].version = m.version

Execute(p, m) ==
  /\ ~ InFlight(p, m)
  /\ \/ (m \in Broken \/ Exists(m)) /\ Fail(p)
     \/ /\ m \notin Broken
        /\ ~ Exists(m)
        /\ executed' = [executed EXCEPT ![p] = Append(@, m)]
        /\ Goto(p, "recording")
        /\ UNCHANGED <<records, schema, lock, files, existing, todo, recorded,
                       pool>>

(***************************************************************************)
(* One turn of the loop, up to the INSERT of the row.                      *)
(***************************************************************************)
Visit(p) ==
  /\ stage[p] = "applying"
  /\ \E m \in AllFiles :
       /\ IsNext(p, m)
       /\ \/ Previous(p, m) \notin {{}, {m}} /\ Fail(p)
          \/ Previous(p, m) = {m} /\ Skip(p, m)
          \/ Previous(p, m) = {} /\ Execute(p, m)

NoChecksum(p) ==   \* mutated form: the row has no checksum
  /\ stage[p] = "recording"
  /\ LET m == executed[p][Len(executed[p])]
     IN  /\ recorded' = [recorded EXCEPT ![p] = @ \cup {[m EXCEPT !.body = NULL]}]
         /\ todo' = [todo EXCEPT ![p] = @ \ {m}]
  /\ Goto(p, "applying")
  /\ UNCHANGED <<records, schema, lock, files, existing, executed, pool>>

Record(p) ==
  /\ stage[p] = "recording"
  /\ LET m == executed[p][Len(executed[p])]
     IN  /\ recorded' = [recorded EXCEPT ![p] = @ \cup {m}]
         /\ todo' = [todo EXCEPT ![p] = @ \ {m}]
  /\ Goto(p, "applying")
  /\ UNCHANGED <<records, schema, lock, files, existing, executed, pool>>

(***************************************************************************)
(* COMMIT.  A server goes on to serve, the command is done; or the answer  *)
(* is lost, and the process fails though its migrations are in force.      *)
(***************************************************************************)
Commit(p) ==
  /\ stage[p] = "applying"
  /\ todo[p] = {}
  /\ records' = records \cup recorded[p]
  /\ schema' = schema \o executed[p]
  /\ \/ p \in Servers /\ Goto(p, "serving") /\ UNCHANGED <<files, pool>>
     \/ Leave(p)
  /\ EndTransaction(p)

(***************************************************************************)
(* A lock_timeout or statement_timeout of the session, or a lost           *)
(* connection: the server rolls the transaction back.                      *)
(***************************************************************************)
Interrupt(p) == stage[p] \in InTransaction \cup {"locking"} /\ Fail(p)

(***************************************************************************)
(* The end of the lifespan.                                                *)
(***************************************************************************)
Shutdown(p) ==
  /\ stage[p] = "serving"
  /\ Leave(p)
  /\ UNCHANGED <<records, schema, lock, txn>>

(***************************************************************************)
(* The process is killed: no finally clause runs, its connections break,   *)
(* and another process takes its place.                                    *)
(***************************************************************************)
Kill(p) ==
  /\ stage[p] \notin {"off", "ended"}
  /\ Goto(p, "off")
  /\ files' = [files EXCEPT ![p] = {}]
  /\ pool' = [pool EXCEPT ![p] = p \notin PoolOwners]
  /\ EndTransaction(p)
  /\ UNCHANGED <<records, schema>>

StartupStep(p) ==
  \/ Open(p) \/ TakeLock(p) \/ Inspect(p) \/ Visit(p) \/ Record(p) \/ Commit(p)
  \/ Finally(p)

Next ==
  \E p \in Processes :
    \/ \E release \in Releases, env \in Environments : Start(p, release, env)
    \/ StartupStep(p)
    \/ OpenTimeout(p) \/ Interrupt(p) \/ Shutdown(p) \/ Kill(p)

Spec == Init /\ [][Next]_vars

(***************************************************************************)
(* Processes run, and PostgreSQL grants a lock in the order of requests.   *)
(***************************************************************************)
FairSpec ==
  /\ Spec
  /\ \A p \in Processes : WF_vars(StartupStep(p)) /\ SF_vars(TakeLock(p))

-----------------------------------------------------------------------------
(***************************************************************************)
(* The table schema_migrations and the schema never disagree, whatever     *)
(* fails between a migration and its record: what is recorded is what was  *)
(* executed, once each, and no two migrations of one version.              *)
(***************************************************************************)
RecordsMatchSchema ==
  /\ records = {schema[i] : i \in 1..Len(schema)}
  /\ \A i, j \in 1..Len(schema) : schema[i].version = schema[j].version => i = j

(***************************************************************************)
(* "Runs checksum-verified SQL migrations during lifespan startup": a      *)
(* server that serves has every migration of its release in the database,  *)
(* with the very content it ships, and an open pool.                       *)
(***************************************************************************)
ServersAreCurrent ==
  \A p \in Servers : stage[p] = "serving" => files[p] \subseteq records /\ pool[p]

(***************************************************************************)
(* Processes that start together do not trip over each other: the tables   *)
(* that one is about to create have not been created by another.           *)
(***************************************************************************)
NoCollisions ==
  \A p \in Processes, m \in AllFiles :
    stage[p] = "applying" /\ IsNext(p, m) /\ Previous(p, m) = {}
      => ~ Exists(m) /\ ~ InFlight(p, m)

(***************************************************************************)
(* Wherever the lifespan of a server fails or ends, its own pool has been  *)
(* closed when it is over and when it is run again, and a pool that the    *)
(* server was given is still open.                                         *)
(***************************************************************************)
PoolsAreReturned ==
  \A p \in Servers : stage[p] \in {"ended", "opening"} =>
    pool[p] = (p \notin PoolOwners)

(***************************************************************************)
(* The migrations that processes run, interleaved, interrupted and         *)
(* repeated, amount to whole releases applied one at a time.               *)
(***************************************************************************)
Abstract == INSTANCE SchemaHistory WITH history <- schema

ImplementsHistory == Abstract!HistorySpec

(***************************************************************************)
(* A process that was started serves or ends, unless it is killed: neither *)
(* the advisory lock nor a wait for another's tables holds it up for ever. *)
(***************************************************************************)
StartsEnd ==
  \A p \in Processes :
    stage[p] = "opening" ~> stage[p] \in {"serving", "ended", "off"}

=============================================================================
