------------------------------ MODULE Migrate -------------------------------
(***************************************************************************)
(* Schema migration at start-up: internal/migrate/migrate.go (Up, execSQL) *)
(* as cmd/server/main.go calls it.                                         *)
(*                                                                         *)
(* Replicas of several releases boot, die and are restarted by the         *)
(* platform in any order.  A release embeds the migration files 1..n, in   *)
(* the order of their names; a newer release adds files at the end.  Up is *)
(* one transaction, serialised by pg_advisory_xact_lock, whose statements  *)
(* read what is committed when they run (READ COMMITTED).                  *)
(***************************************************************************)
EXTENDS Naturals, Sequences

CONSTANTS
  Replicas,
  Releases,   \* a release is the number of migration files it embeds
  Chunks,     \* statements in a file, after splitStatements
  MaxFails,   \* bound on the failures of the platform
  Free        \* the advisory lock, when nobody holds it

ASSUME ReleasesAssumption == Releases \subseteq Nat \ {0}
ASSUME MigrateBounds == Chunks \in Nat \ {0} /\ MaxFails \in Nat
ASSUME MigrateFree == Free \notin Replicas

VARIABLES
  schema,     \* committed: the statements run, as << file, chunk >>, in order
  recorded,   \* committed rows of schema_migrations
  lock,       \* the holder of the advisory lock
  proc,       \* proc[r]: the replica, where its call of Up is and what that did
  fails

vars == << schema, recorded, lock, proc, fails >>

Down == [pc |-> "down", release |-> 0, auto |-> FALSE, file |-> 1, chunk |-> 1,
         ran |-> << >>, noted |-> {}]

Init ==
  /\ schema = << >>
  /\ recorded = {}
  /\ lock = Free
  /\ proc = [r \in Replicas |-> Down]
  /\ fails = 0

----------------------------------------------------------------------------
(* main: with AUTO_MIGRATE=false the server starts at once. *)
Boot(r) ==
  /\ proc[r].pc = "down"
  /\ \E n \in Releases, auto \in BOOLEAN :
       proc' = [proc EXCEPT ![r] = [Down EXCEPT !.release = n, !.auto = auto,
                                                !.pc = IF auto THEN "lock" ELSE "serving"]]
  /\ UNCHANGED << schema, recorded, lock, fails >>

(* Begin, pg_advisory_xact_lock, CREATE TABLE IF NOT EXISTS schema_migrations. *)
Lock(r) ==
  /\ proc[r].pc = "lock"
  /\ lock = Free
  /\ lock' = r
  /\ proc' = [proc EXCEPT ![r].pc = "check"]
  /\ UNCHANGED << schema, recorded, fails >>

(* The head of the loop over the files: SELECT EXISTS, which sees the rows
   that are committed and the transaction's own. *)
Check(r) ==
  LET p == proc[r] IN
  /\ p.pc = "check"
  /\ proc' = [proc EXCEPT ![r] =
       IF p.file > p.release THEN [p EXCEPT !.pc = "commit"]
       ELSE IF p.file \in recorded \cup p.noted THEN [p EXCEPT !.file = @ + 1]
       ELSE [p EXCEPT !.pc = "exec", !.chunk = 1]]
  /\ UNCHANGED << schema, recorded, lock, fails >>

(* Mutant of Exec: the chunk runs on the pool and commits by itself. *)
ExecOnPool(r) ==
  LET p == proc[r] IN
  /\ p.pc = "exec"
  /\ schema' = Append(schema, << p.file, p.chunk >>)
  /\ proc' = [proc EXCEPT ![r].pc = IF p.chunk = Chunks THEN "record" ELSE "exec",
                          ![r].chunk = @ + 1]
  /\ UNCHANGED << recorded, lock, fails >>

(* execSQL: the next chunk of the file, in the transaction. *)
Exec(r) ==
  LET p == proc[r] IN
  /\ p.pc = "exec"
  /\ proc' = [proc EXCEPT ![r].ran = Append(@, << p.file, p.chunk >>),
                          ![r].pc = IF p.chunk = Chunks THEN "record" ELSE "exec",
                          ![r].chunk = @ + 1]
  /\ UNCHANGED << schema, recorded, lock, fails >>

(* INSERT INTO schema_migrations; on to the next file.  Under the lock the
   primary key has nothing to refuse. *)
Record(r) ==
  /\ proc[r].pc = "record"
  /\ proc' = [proc EXCEPT ![r].noted = @ \cup {proc[r].file},
                          ![r].file = @ + 1,
                          ![r].pc = "check"]
  /\ UNCHANGED << schema, recorded, lock, fails >>

(* The server's side of COMMIT, which also releases the lock. *)
Committed(r) ==
  /\ schema' = schema \o proc[r].ran
  /\ recorded' = recorded \cup proc[r].noted
  /\ lock' = Free

(* Mutant of Commit: a session lock stays with the pooled connection. *)
CommitKeepsLock(r) ==
  /\ proc[r].pc = "commit"
  /\ schema' = schema \o proc[r].ran
  /\ recorded' = recorded \cup proc[r].noted
  /\ proc' = [proc EXCEPT ![r] = [Down EXCEPT !.pc = "serving", !.auto = TRUE,
                                              !.release = proc[r].release]]
  /\ UNCHANGED << lock, fails >>

(* Up returns nil and main goes on to serve. *)
Commit(r) ==
  /\ proc[r].pc = "commit"
  /\ Committed(r)
  /\ proc' = [proc EXCEPT ![r] = [Down EXCEPT !.pc = "serving", !.auto = TRUE,
                                              !.release = proc[r].release]]
  /\ UNCHANGED fails

(* The transaction commits but its answer is lost: main sees an error. *)
CommitUnheard(r) ==
  /\ proc[r].pc = "commit"
  /\ fails < MaxFails
  /\ fails' = fails + 1
  /\ Committed(r)
  /\ proc' = [proc EXCEPT ![r] = Down]

(* Mutant of Fail: main logs the error and serves. *)
FailAndServe(r) ==
  /\ proc[r].pc # "down"
  /\ fails < MaxFails
  /\ fails' = fails + 1
  /\ lock' = IF lock = r THEN Free ELSE lock
  /\ proc' = [proc EXCEPT ![r].pc = "serving"]
  /\ UNCHANGED << schema, recorded >>

(* A statement fails, Up rolls back and main exits (log.Fatalf); or the
   process dies or is redeployed.  Either way the transaction is undone. *)
Fail(r) ==
  /\ proc[r].pc # "down"
  /\ fails < MaxFails
  /\ fails' = fails + 1
  /\ lock' = IF lock = r THEN Free ELSE lock
  /\ proc' = [proc EXCEPT ![r] = Down]
  /\ UNCHANGED << schema, recorded >>

Work(r) == Boot(r) \/ Lock(r) \/ Check(r) \/ Exec(r) \/ Record(r) \/ Commit(r)

Next == \E r \in Replicas : Work(r) \/ CommitUnheard(r) \/ Fail(r)

Spec == Init /\ [][Next]_vars

(* A replica that can go on does; the platform restarts one that is down.
   The lock queue of Postgres is first come first served. *)
FairSpec == Spec /\ \A r \in Replicas : WF_vars(Work(r)) /\ SF_vars(Lock(r))

----------------------------------------------------------------------------
Files == UNION {1..n : n \in Releases}
Statements == Files \X (1..Chunks)

(* The variables keep their shapes; what main, Up and execSQL hold is a
   release, a place in it and the work of the open transaction. *)
TypeOK ==
  /\ schema \in Seq(Statements)
  /\ recorded \subseteq Files
  /\ lock \in Replicas \cup {Free}
  /\ proc \in [Replicas -> [pc : {"down", "lock", "check", "exec", "record", "commit", "serving"},
                            release : Releases \cup {0}, auto : BOOLEAN,
                            file : Nat, chunk : Nat,
                            ran : Seq(Statements), noted : SUBSET Files]]
  /\ fails \in 0..MaxFails

(* The statements of the first n files, each once and in order. *)
Script(n) == [i \in 1..(n * Chunks) |->
                << ((i - 1) \div Chunks) + 1, ((i - 1) % Chunks) + 1 >>]

(* Whichever replicas of whichever releases migrated, failed half way or
   committed without hearing of it, the database is exactly what running
   files 1..n once each, in order, would make it, and schema_migrations
   says so (migrate.Up). *)
SchemaMatchesRecord ==
  \E n \in Releases \cup {0} : recorded = 1..n /\ schema = Script(n)

(* A replica that migrates at start-up never serves on a schema older than
   its release, nor half way through one (main exits when Up fails). *)
ServesMigrated ==
  \A r \in Replicas :
    proc[r].pc = "serving" /\ proc[r].auto => 1..proc[r].release \subseteq recorded

(* A replica always gets to serve in the end: waiting for another one's
   migration, or a crash in the middle of one, never blocks it for ever. *)
EveryReplicaServes == \A r \in Replicas : []<>(proc[r].pc = "serving")
=============================================================================
