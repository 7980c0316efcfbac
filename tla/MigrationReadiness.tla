------------------------ MODULE MigrationReadiness ------------------------
(***************************************************************************)
(* migration:check against migration:run (src/cli/cli.ts): what the        *)
(* read-only commands say of a directory and a table, and what a run       *)
(* started on them does, in the tables that deployments leave behind.      *)
(***************************************************************************)
EXTENDS MigrationRunner, MigrationCommands

CONSTANTS Directories,  \* what may be in the migrations directory
          Drift         \* what verify() of the entities may come to

(* What is loaded from them is run.                                        *)
ASSUME DirectoriesAssumption ==
  {LoadMigrationsFromDir(d) : d \in Directories} \ {Refused} \subseteq Inputs
ASSUME DriftAssumption == Drift \subseteq {"unchecked", "none", "issues", "error"}

(* What migration:run would do with directory dir on table t, from the code *)
(* of the loader and of run(): fail before it looks, refuse, stop at a      *)
(* changed file, apply at least one file, or have nothing to do.            *)
RunOutcome(t, dir) ==
  LET list    == LoadMigrationsFromDir(dir)
      kind(k) == MatchAppliedRecord(t, list[k]).kind
      stops   == {k \in DOMAIN list : kind(k) # "matched"}
      changed == \E k \in stops : kind(k) = "changed" /\ \A l \in stops : k <= l
  IN  IF list = Refused THEN "fails"
      ELSE IF ~NoDuplicates(list) THEN "fails"
      ELSE IF Started(t) # {} THEN "refuses"
      ELSE IF stops = {} THEN "nothing"
      ELSE IF changed THEN "stops" ELSE "applies"

(* Whether the table can be missing: run() has created it otherwise.        *)
MayExist == IF Recorded(table) = {} THEN BOOLEAN ELSE {TRUE}

(* The `started` rows that the check does not see: some file of the list    *)
(* has the row's hash or name, but every such file matches another row or   *)
(* none.                                                                    *)
Hidden(t, list) ==
  {i \in Started(t) \ Orphans(t, list) :
     \A k \in DOMAIN list :
       LET m == MatchAppliedRecord(t, list[k]) IN m.kind = "pending" \/ m.id # i}

(* A deployment that is told it is ready has nothing to migrate, one that   *)
(* is told migrations are pending can run them, one that is told it is      *)
(* blocked is, and where migration:check fails so does migration:run, if it *)
(* is not for the tables of the entities.  But where a `started` row is     *)
(* hidden from the check, migration:run refuses whatever the check said     *)
(* (migration-runner.ts:257 looks at all rows).                             *)
ExitCodeForetells ==
  \A dir \in Directories :
    LET list    == LoadMigrationsFromDir(dir)
        outcome == RunOutcome(table, dir)
    IN  \/ list # Refused /\ Hidden(table, list) # {} /\ outcome = "refuses"
        \/ \A exists \in MayExist, drift \in Drift :
             LET code == CheckExitCode(dir, table, exists, drift)
             IN  /\ code \in {0, 3} => outcome = "nothing"
                 /\ code = 1 => outcome = "applies"
                 /\ code = 4 => outcome \in {"stops", "applies"}
                 /\ code = 2 => outcome = "refuses"
                 /\ code = 5 => outcome = "fails" \/ drift = "error"

(* The report of --json agrees with the exit code, and a migration it calls *)
(* applied is in the database (migration-verify.ts:281, #212), if its row   *)
(* was not resolved in haste.                                               *)
ReportIsTrue ==
  \A list \in Inputs, exists \in MayExist, drift \in Drift \ {"error"} :
    LET report == BuildJsonReport(table, exists, list, drift)
    IN  /\ report.applied <=> report.exitCode \in {0, 3}
        /\ report.ready   <=> report.exitCode = 0
        /\ report.applied => report.appliedCount = report.total
        /\ \A k \in DOMAIN list :
             report.migrations[k] =>
               LET id == MatchAppliedRecord(table, list[k]).id
               IN  id \in hasty \/ schema[id] = "present"

VerdictForetellsRun == ExitCodeForetells /\ ReportIsTrue
=============================================================================
