------------------------------ MODULE StoreRecovery ------------------------------
(***************************************************************************)
(* crates/storage/src/sqlite.rs and open_store of the server: opening the  *)
(* database, and the recovery when an instance that was killed left it     *)
(* read-only.  A row is committed into the log beside the database file,   *)
(* and a checkpoint moves the rows of the log into the file.  The process  *)
(* may be killed between any two steps.                                    *)
(***************************************************************************)
EXTENDS Naturals, FiniteSets

CONSTANTS Rows,        \* rows that are written
          MaxOpenings  \* bound: how often the store is opened

ASSUME StoreAssumption == MaxOpenings \in Nat

VARIABLES mainFile,  \* rows in the database file
          logFile,   \* [there, rows]: the -wal file
          shmThere,  \* the -shm file is there
          readonly,  \* the first write would answer SQLITE_READONLY
          opener,    \* closed, open, or the next step of SqliteStore::open
          retried,   \* try_open is called for the second time
          openCalls, \* openings begun
          logCopy,   \* rows in the copy the last recovery made of the log
          committed, \* history: rows written with success
          forfeited  \* history: rows of a log whose copy failed, or whose copy was overwritten

fileVars  == <<mainFile, logFile, shmThere, readonly>>
storeVars == <<fileVars, opener, retried, openCalls, logCopy, committed, forfeited>>

NoLog == [there |-> FALSE, rows |-> {}]

StoreInit ==
  /\ mainFile = {} /\ logFile = NoLog /\ shmThere = FALSE /\ readonly = FALSE
  /\ opener = "closed" /\ retried = FALSE /\ openCalls = 0
  /\ logCopy = {} /\ committed = {} /\ forfeited = {}

------------------------------------------------------------------------------
(* SQLite and the operating system.                                          *)

Commit(r) ==
  /\ opener = "open" /\ r \notin committed
  /\ logFile' = [logFile EXCEPT !.rows = @ \cup {r}] /\ committed' = committed \cup {r}
  /\ UNCHANGED <<mainFile, shmThere, readonly, opener, retried, openCalls, logCopy, forfeited>>

Checkpointed == mainFile' = mainFile \cup logFile.rows

Checkpoint ==
  /\ opener = "open" /\ Checkpointed /\ logFile' = [logFile EXCEPT !.rows = {}]
  /\ UNCHANGED <<shmThere, readonly, opener, retried, openCalls, logCopy, committed, forfeited>>

\* What a killed process leaves behind may make the database read-only.
Killed ==
  /\ opener # "closed" /\ opener' = "closed"
  /\ readonly' \in {readonly, logFile.there \/ shmThere}
  /\ UNCHANGED <<mainFile, logFile, shmThere, retried, openCalls, logCopy, committed, forfeited>>

\* reset_store, or the end of the process: the last connection that closes clears up.
Closed ==
  /\ opener = "open" /\ opener' = "closed" /\ Checkpointed /\ logFile' = NoLog /\ shmThere' = FALSE
  /\ UNCHANGED <<readonly, retried, openCalls, logCopy, committed, forfeited>>

------------------------------------------------------------------------------
(* open_store and SqliteStore::open                                          *)

\* The failed opening of a store is tried again by the next call that needs one.
OpenStore ==
  /\ opener = "closed" /\ openCalls < MaxOpenings
  /\ openCalls' = openCalls + 1 /\ opener' = "try" /\ retried' = FALSE
  /\ UNCHANGED <<fileVars, logCopy, committed, forfeited>>

\* try_open, its write probe included; only a read-only database is recovered, and only once.
TryOpen ==
  /\ opener = "try"
  /\ \/ ~readonly /\ opener' = "open" /\ logFile' = [logFile EXCEPT !.there = TRUE] /\ shmThere' = TRUE
     \/ readonly /\ opener' = (IF retried THEN "closed" ELSE "checkpoint") /\ UNCHANGED <<logFile, shmThere>>
     \/ opener' = "closed" /\ UNCHANGED <<logFile, shmThere>>
  /\ UNCHANGED <<mainFile, readonly, retried, openCalls, logCopy, committed, forfeited>>

\* The checkpoint through one connection may fail at any point, and its failure is ignored.
RecoverInPlace ==
  /\ opener = "checkpoint" /\ opener' = "copy_log"
  /\ \/ UNCHANGED fileVars
     \/ Checkpointed /\ logFile' = [logFile EXCEPT !.rows = {}] /\ UNCHANGED <<shmThere, readonly>>
     \/ Checkpointed /\ logFile' = NoLog /\ shmThere' = FALSE /\ UNCHANGED readonly
  /\ UNCHANGED <<retried, openCalls, logCopy, committed, forfeited>>

\* bug: the log is gone before it is copied
CopyLogBug ==
  /\ opener = "copy_log" /\ opener' = "remove_log"
  /\ logFile' = [logFile EXCEPT !.rows = {}] /\ logCopy' = {}
  /\ UNCHANGED <<mainFile, shmThere, readonly, retried, openCalls, committed, forfeited>>

\* The copy takes the place of the last one; one that fails may leave a part, and is ignored.
CopyLog ==
  /\ opener = "copy_log"
  /\ IF logFile.there
     THEN /\ opener' = "remove_log"
          /\ logCopy' \in {logCopy} \cup SUBSET logFile.rows
          /\ forfeited' = forfeited \cup (((logCopy \ mainFile) \cup logFile.rows) \ logCopy')
     ELSE opener' = "remove_shm" /\ UNCHANGED <<logCopy, forfeited>>
  /\ UNCHANGED <<fileVars, retried, openCalls, committed>>

\* What cannot be removed ends the opening with an error.
RemoveLog ==
  /\ opener = "remove_log"
  /\ \/ opener' = "remove_shm" /\ logFile' = NoLog
     \/ opener' = "closed" /\ UNCHANGED logFile
  /\ UNCHANGED <<mainFile, shmThere, readonly, retried, openCalls, logCopy, committed, forfeited>>

\* Without side files the database may be writable again; the database file is copied as well.
RemoveShm ==
  /\ opener = "remove_shm"
  /\ \/ opener' = "try" /\ retried' = TRUE /\ shmThere' = FALSE /\ readonly' \in {readonly, FALSE}
     \/ shmThere /\ opener' = "closed" /\ UNCHANGED <<retried, shmThere, readonly>>
  /\ UNCHANGED <<mainFile, logFile, openCalls, logCopy, committed, forfeited>>

OpenStep == TryOpen \/ RecoverInPlace \/ CopyLog \/ RemoveLog \/ RemoveShm

StoreNext ==
  \/ OpenStore \/ OpenStep \/ Checkpoint \/ Killed \/ Closed
  \/ \E r \in Rows : Commit(r)

StoreSpec == StoreInit /\ [][StoreNext]_storeVars /\ WF_storeVars(OpenStep)

------------------------------------------------------------------------------
StoreTypeOK ==
  /\ mainFile \subseteq Rows /\ logFile \in [there : BOOLEAN, rows : SUBSET Rows]
  /\ shmThere \in BOOLEAN /\ readonly \in BOOLEAN /\ retried \in BOOLEAN
  /\ opener \in {"closed", "try", "checkpoint", "copy_log", "remove_log", "remove_shm", "open"}
  /\ openCalls \in 0..MaxOpenings
  /\ logCopy \subseteq Rows /\ committed \subseteq Rows /\ forfeited \subseteq Rows

\* A row that was written is in the database or in the copy beside it, however often the process
\* is killed in the middle of a recovery; it is gone only when the copy of its log failed or was
\* overwritten by that of a later recovery.  (crates/storage/src/sqlite.rs:157)
RowsKept ==
  /\ StoreTypeOK
  /\ committed \ forfeited \subseteq mainFile \cup logFile.rows \cup logCopy
  /\ logFile.rows # {} => logFile.there

\* An opening ends, recovery included, and is never begun anew by itself.
OpeningEnds == opener = "try" ~> opener \in {"open", "closed"}
===============================================================================
