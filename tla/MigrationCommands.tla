------------------------- MODULE MigrationCommands -------------------------
(***************************************************************************)
(* What surrounds the runner on the command line: how a directory becomes  *)
(* a list of migrations (src/migrations/migration-loader.ts), and what     *)
(* migration:check and migration:status report of a table and exit with    *)
(* (src/cli/migration-verify.ts, src/cli/exit-codes.ts, src/cli/cli.ts).   *)
(*                                                                         *)
(* A directory is its files in the order of their names.  A source file is *)
(* a record: code, whether it is a migration by its name and no test or    *)
(* declaration; content, the hash of it; exports, how many different       *)
(* values with up() and down() it exports; named, the name these give, or  *)
(* Unset; stem, the name of the file; declared, the hash they give, or     *)
(* NoHash.                                                                 *)
(***************************************************************************)
EXTENDS MigrationMatching, FiniteSets

CONSTANTS Unset,      \* no name given
          Refused,    \* the loader threw
          Missing     \* there is no such directory

NameOf(f) == IF f.named # Unset THEN f.named ELSE f.stem

IsMigrationFile(f) == f.code

Loadable(files) ==
  \A i, j \in DOMAIN files :
    /\ files[i].exports = 1
    /\ files[i].declared \in {NoHash, files[i].content}
    /\ i # j => /\ files[i].content # files[j].content
                /\ NameOf(files[i]) # NameOf(files[j])

(* The hash of a migration is that of its file, whatever it declares.       *)
LoadMigrationsFromDir(dir) ==
  IF dir = Missing THEN Refused
  ELSE LET files == SelectSeq(dir, IsMigrationFile)
       IN  IF Loadable(files)
             THEN [i \in DOMAIN files |-> [name |-> NameOf(files[i]), hash |-> files[i].content]]
             ELSE Refused
-----------------------------------------------------------------------------
(* migration:check.  A table that does not exist has applied nothing.       *)

NotThere(f) ==
  [applied |-> FALSE, interrupted |-> FALSE, contentChanged |-> FALSE, orphan |-> FALSE]

Status(t, exists, f) == IF exists THEN FileStatus(t, f) ELSE NotThere(f)

(* State and drift: what verify() of the configured entities found, if      *)
(* there are any.                                                           *)
VerdictState(t, exists, list, drift) ==
  LET state == IF exists THEN CheckState(t, list)
               ELSE IF list = <<>> THEN "ok" ELSE "pending"
  IN  IF state = "ok" /\ drift = "issues" THEN "schema-drift" ELSE state

MigrationStateExitCode(state) ==
  CASE state = "ok"           -> 0
    [] state = "pending"      -> 1
    [] state = "interrupted"  -> 2
    [] state = "schema-drift" -> 3
    [] state = "modified"     -> 4

(* main(): an error of a verification command.                             *)
CommandError == 5

(* runMigrationVerification() and main(): the command connects, loads,      *)
(* reads the table and describes the entities' tables; each may throw.      *)
CheckExitCode(dir, t, exists, drift) ==
  LET list == LoadMigrationsFromDir(dir)
  IN  IF list = Refused \/ drift = "error" THEN CommandError
      ELSE MigrationStateExitCode(VerdictState(t, exists, list, drift))

HealthilyApplied(s) == s.applied /\ ~s.interrupted /\ ~s.contentChanged

(* isBookkeepingApplied(): nothing is pending, interrupted or modified.     *)
BookkeepingApplied(t, exists, list) ==
  IF exists THEN Reasons(t, list) = {} ELSE list = <<>>

(* buildJsonReport(): of each file whether it is applied, of all of them    *)
(* together, how many, and whether the database is ready.                   *)
BuildJsonReport(t, exists, list, drift) ==
  LET state   == VerdictState(t, exists, list, drift)
      healthy == {k \in DOMAIN list : HealthilyApplied(Status(t, exists, list[k]))}
  IN  [ready        |-> state = "ok",
       exitCode     |-> MigrationStateExitCode(state),
       total        |-> Len(list),
       appliedCount |-> Cardinality(healthy),
       applied      |-> BookkeepingApplied(t, exists, list),
       migrations   |-> [k \in DOMAIN list |-> k \in healthy]]
=============================================================================
