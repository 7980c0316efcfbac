------------------------ MODULE MigrationLifecycle ------------------------
(***************************************************************************)
(* What the migration runner promises of each migration, by the comment on *)
(* YdbMigrationRunner (src/migrations/migration-runner.ts): it is in one   *)
(* pair of hands at a time, an interruption freezes it, and only an        *)
(* explicit decision takes it out of the interrupted state.  Who decides   *)
(* about a migration that is in somebody's hands forfeits the promise.     *)
(***************************************************************************)
CONSTANT Migration

VARIABLE life

State == {"absent", "applying", "applied", "reverting", "interrupted", "forfeit"}

Init == life \in [Migration -> {"absent", "applied"}]

Move(m, from, to) == life[m] = from /\ life' = [life EXCEPT ![m] = to]

Start(m)     == Move(m, "absent", "applying")
Complete(m)  == Move(m, "applying", "applied")
Undo(m)      == Move(m, "applied", "reverting")
Undone(m)    == Move(m, "reverting", "absent")
Interrupt(m) == Move(m, "applying", "interrupted")
                  \/ Move(m, "reverting", "interrupted")
Decide(m)    == Move(m, "interrupted", "applied")
                  \/ Move(m, "interrupted", "absent")

Meddle(m)    == \E from \in {"applying", "reverting", "interrupted"} : Move(m, from, "forfeit")

Next == \E m \in Migration :
  \/ Start(m) \/ Complete(m) \/ Undo(m) \/ Undone(m) \/ Interrupt(m) \/ Decide(m)
  \/ Meddle(m)

Spec == Init /\ [][Next]_life
=============================================================================
