--------------------------- MODULE Configurations ---------------------------
(***************************************************************************)
(* The ORM configurations of one process: NestJS applications, each with   *)
(* one core module per configuration (src/nest/), and configureEntities()  *)
(* without NestJS (src/core/standalone.ts), share the map of entity owners *)
(* (src/core/orm-scope.ts) and one runtime record per entity class         *)
(* (src/entity/entity-runtime.ts).                                         *)
(*                                                                         *)
(* One action is a piece of code without an await.  NestJS is external: it *)
(* runs each provider factory once, after those it injects, and goes on    *)
(* with the rest of them when one throws, but an application with a failed *)
(* factory never bootstraps, and its shutdown hooks are never called.      *)
(***************************************************************************)
EXTENDS Naturals, FiniteSets

CONSTANTS
  Entity,    \* entity classes
  Core,      \* core modules, one per forRootAsync()
  App,       \* the application each core belongs to
  Name,      \* the configuration name of each core
  Default,   \* the default name, and the scope that goes with it
  Features,  \* the entities forFeature() attaches to each core
  Library,   \* scopes made with createOrmScope() outside NestJS
  None       \* undefined

Scope == {Default} \cup Core \cup Library

(* Where an executor or a transaction setting came from: a core, or a call *)
(* of configureEntities(), Standalone.                                     *)
Standalone == "standalone"
Source     == Core \cup {Standalone}

ASSUME NamesAssumption ==
  /\ None \notin Scope \cup Source
  /\ Default \notin Core \cup Library /\ Core \cap Library = {}
  /\ Standalone \notin Core
  /\ DOMAIN App = Core /\ DOMAIN Name = Core
  /\ Features \in [Core -> SUBSET Entity]

ScopeOf(c) == IF Name[c] = Default THEN Default ELSE c

VARIABLES
  owner,      \* entityOwners
  members,    \* `entities` of each scope
  settings,   \* `transactions` of each scope: the core that wrote them
  process,    \* the process-wide settings: the core that wrote them
  runtime,    \* the runtime of each entity
  slots,      \* activeCoreModules
  pc,         \* where each core is
  driver,     \* its ownedDriver
  requested,  \* its entityScope
  failed      \* applications a factory or a bootstrap hook of which threw

vars == <<owner, members, settings, process, runtime, slots, pc, driver, requested, failed>>
books == <<owner, members>>
allSettings == <<settings, process>>

(* Of the dependencies of a repository only the executor is kept.          *)
Runtime == [executor : Source \cup {None}, transactions : Core \cup {None},
            repository : Source \cup {None}]
Unset   == [executor |-> None, transactions |-> None, repository |-> None]

TypeOK ==
  /\ owner \in [Entity -> Scope \cup {None}]
  /\ members \in [Scope -> SUBSET Entity]
  /\ settings \in [Scope -> Core \cup {None}]
  /\ process \in Core \cup {None}
  /\ runtime \in [Entity -> Runtime]
  /\ slots \in SUBSET Core
  /\ pc \in [Core -> {"new", "claimed", "compiled", "syncing", "running",
                      "closed", "broken"}]
  /\ driver \in [Core -> {"none", "open", "closed"}]
  /\ requested \in [Core -> SUBSET Entity]
  /\ failed \in SUBSET {App[c] : c \in Core}

Init ==
  /\ owner     = [e \in Entity |-> None]
  /\ members   = [s \in Scope |-> {}]
  /\ settings  = [s \in Scope |-> None]
  /\ process   = None
  /\ runtime   = [e \in Entity |-> Unset]
  /\ slots     = {}
  /\ pc        = [c \in Core |-> "new"]
  /\ driver    = [c \in Core |-> "none"]
  /\ requested = [c \in Core |-> {}]
  /\ failed    = {}

-----------------------------------------------------------------------------
(* Ownership. *)

Claimable(s, E) == \A e \in E : owner[e] \in {None, s}

ClaimEntitiesForScope(s, E) ==
  /\ owner'   = [e \in Entity |-> IF e \in E THEN s ELSE owner[e]]
  /\ members' = [members EXCEPT ![s] = @ \cup E]

(* Mutant: the whole list is given up, not only what the call claimed.     *)
RolledBackWhole(s, E) ==
  /\ owner'   = [e \in Entity |-> IF e \in E THEN None ELSE owner[e]]
  /\ members' = [members EXCEPT ![s] = @ \ E]

(* claimEntitiesForScopeWithTracking, then releaseEntitiesFromScope of the  *)
(* entities that had no owner before.                                      *)
RolledBack(s, E) ==
  LET newly == {e \in E : owner[e] = None}
  IN  /\ owner'   = [e \in Entity |-> IF e \in newly THEN None
                                      ELSE IF e \in E THEN s ELSE owner[e]]
      /\ members' = [members EXCEPT ![s] = (@ \cup E) \ newly]

(* Mutant: the set of the scope is forgotten. *)
ReleaseOrmScopeHalf(s) ==
  /\ owner' = [e \in Entity |->
                 IF e \in members[s] /\ owner[e] = s THEN None ELSE owner[e]]
  /\ UNCHANGED members

ReleaseOrmScope(s) ==
  /\ owner' = [e \in Entity |->
                 IF e \in members[s] /\ owner[e] = s THEN None ELSE owner[e]]
  /\ members' = [members EXCEPT ![s] = {}]

-----------------------------------------------------------------------------
(* Runtimes. *)

(* setExecutor and the other setters drop the repository, which            *)
(* getOrCreateRepository makes again.                                      *)
Wiring(s, x) == [executor |-> x, transactions |-> settings[s], repository |-> x]

(* Wiring breaks off before getOrCreateRepository is through. *)
Half(s, x) == [executor |-> x, transactions |-> settings[s], repository |-> None]

(* restoreEntityRuntime of every entity of the call, after those of `done`  *)
(* were wired and e broke off, with the snapshots taken before.            *)
Restored(E, done, e, s, x) ==
  LET reached == [f \in Entity |-> IF f \in done THEN Wiring(s, x)
                                   ELSE IF f = e THEN Half(s, x) ELSE runtime[f]]
  IN  [f \in Entity |-> IF f \in E THEN runtime[f] ELSE reached[f]]

ConfigureEntities(s, E) ==
  /\ Claimable(s, E)
  /\ ClaimEntitiesForScope(s, E)
  /\ runtime' = [e \in Entity |-> IF e \in E THEN Wiring(s, Standalone) ELSE runtime[e]]
  /\ UNCHANGED <<allSettings, slots, pc, driver, requested, failed>>

ConfigureEntitiesThrows(s, E) ==
  /\ Claimable(s, E)
  /\ RolledBack(s, E)
  /\ \E e \in E : \E done \in SUBSET (E \ {e}) :
       runtime' = Restored(E, done, e, s, Standalone)
  /\ UNCHANGED <<allSettings, slots, pc, driver, requested, failed>>

(* releaseOrmScope() called by the owner of a library scope. *)
ReleaseLibrary(s) ==
  /\ ReleaseOrmScope(s)
  /\ UNCHANGED <<allSettings, runtime, slots, pc, driver, requested, failed>>

-----------------------------------------------------------------------------
(* Compilation of an application. *)

Goto(c, l) == pc' = [pc EXCEPT ![c] = l]
Fail(c)    == failed' = failed \cup {App[c]}

(* The options are there: the slot is claimed, the settings are written.   *)
ClaimCoreModuleInit(c) ==
  /\ pc[c] = "new"
  /\ \A d \in slots : Name[d] # Name[c]
  /\ slots' = slots \cup {c}
  /\ settings' = [settings EXCEPT ![ScopeOf(c)] = c]
  /\ process' = IF ScopeOf(c) = Default THEN c ELSE process
  /\ Goto(c, "claimed")
  /\ UNCHANGED <<books, runtime, driver, requested, failed>>

(* The name is taken, or the options could not be made. *)
OptionsFail(c) ==
  /\ pc[c] = "new"
  /\ Goto(c, "broken") /\ Fail(c)
  /\ UNCHANGED <<books, allSettings, runtime, slots, driver, requested>>

DriverOpens(c) ==
  /\ pc[c] = "claimed"
  /\ driver' = [driver EXCEPT ![c] = "open"]
  /\ Goto(c, "compiled")
  /\ UNCHANGED <<books, allSettings, runtime, slots, requested, failed>>

(* No credentials or no driver: the slot is given back. *)
DriverFails(c) ==
  /\ pc[c] = "claimed"
  /\ slots' = slots \ {c}
  /\ Goto(c, "broken") /\ Fail(c)
  /\ UNCHANGED <<books, allSettings, runtime, driver, requested>>

(* The provider of entity e (createActiveRecordEntityProvider) runs, once. *)
Request(c, e) ==
  /\ pc[c] = "compiled"
  /\ e \in Features[c] \ requested[c]
  /\ requested' = [requested EXCEPT ![c] = @ \cup {e}]
  /\ UNCHANGED <<allSettings, slots, pc, driver>>

Attach(c, e) ==
  /\ Request(c, e)
  /\ Claimable(ScopeOf(c), {e})
  /\ ClaimEntitiesForScope(ScopeOf(c), {e})
  /\ runtime' = [runtime EXCEPT ![e] = Wiring(ScopeOf(c), c)]
  /\ UNCHANGED failed

(* The metadata is invalid, or the entity is in other hands. *)
AttachRefused(c, e) ==
  /\ Request(c, e)
  /\ Fail(c)
  /\ UNCHANGED <<books, runtime>>

AttachThrows(c, e) ==
  /\ Request(c, e)
  /\ Claimable(ScopeOf(c), {e})
  /\ RolledBack(ScopeOf(c), {e})
  /\ runtime' = Restored({e}, {}, e, ScopeOf(c), c)
  /\ Fail(c)

-----------------------------------------------------------------------------
(* Life of an application. *)

Peers(c) == {d \in Core : App[d] = App[c]}

Compiled(c) == \A d \in Peers(c) :
  pc[d] \notin {"new", "claimed"} /\ requested[d] = Features[d]

(* The hooks run one after the other. *)
Bootstrap(c) ==
  /\ pc[c] = "compiled" /\ Compiled(c) /\ App[c] \notin failed
  /\ \A d \in Peers(c) : pc[d] # "syncing"
  /\ Goto(c, "syncing")
  /\ UNCHANGED <<books, allSettings, runtime, slots, driver, requested, failed>>

SyncDone(c) ==
  /\ pc[c] = "syncing"
  /\ Goto(c, "running")
  /\ UNCHANGED <<books, allSettings, runtime, slots, driver, requested, failed>>

Dispose(c) ==
  /\ slots' = slots \ {c}
  /\ ReleaseOrmScope(ScopeOf(c))
  /\ driver' = [driver EXCEPT ![c] = "closed"]
  /\ Goto(c, "closed")

SyncFails(c) ==
  /\ pc[c] = "syncing"
  /\ Dispose(c) /\ Fail(c)
  /\ UNCHANGED <<allSettings, runtime, requested>>

(* app.close(), also on a signal during the bootstrap: then the end of the *)
(* sync finds the core disposed.                                           *)
OnApplicationShutdown(c) ==
  /\ pc[c] \in {"syncing", "running"} /\ App[c] \notin failed
  /\ Dispose(c)
  /\ UNCHANGED <<allSettings, runtime, requested, failed>>

Next ==
  \/ \E s \in Library \cup {Default} : \E E \in SUBSET Entity :
       ConfigureEntities(s, E) \/ ConfigureEntitiesThrows(s, E)
  \/ \E s \in Library : ReleaseLibrary(s)
  \/ \E c \in Core :
       \/ ClaimCoreModuleInit(c) \/ OptionsFail(c)
       \/ DriverOpens(c) \/ DriverFails(c)
       \/ \E e \in Entity : Attach(c, e) \/ AttachRefused(c, e) \/ AttachThrows(c, e)
       \/ Bootstrap(c) \/ SyncDone(c) \/ SyncFails(c) \/ OnApplicationShutdown(c)

Spec == Init /\ [][Next]_vars

-----------------------------------------------------------------------------
(* The two halves of the books agree through every claim, rollback and      *)
(* release: otherwise a release frees what another configuration owns, or   *)
(* leaves what nobody can free.  And a named configuration that owns an     *)
(* entity holds its name: two cores of one name never share entities.       *)
BooksAgree ==
  \A e \in Entity :
    /\ \A s \in Scope : owner[e] = s <=> e \in members[s]
    /\ owner[e] \in Core => owner[e] \in slots

(* While a configuration bootstraps or runs, its entities are its own: they *)
(* use its settings, its driver is open, and no other bootstrap, failure,   *)
(* rollback or shutdown repoints them.  Only configureEntities() on the     *)
(* default scope shares them with the default configuration.  A repository  *)
(* never outlives the executor it was made with, not even then.             *)
RunningIsWired ==
  /\ \A e \in Entity : runtime[e].repository = runtime[e].executor
  /\ \A c \in Core : pc[c] \in {"syncing", "running"} =>
       /\ driver[c] = "open"
       /\ ScopeOf(c) = Default => process = c
       /\ \A e \in Features[c] :
            /\ owner[e] = ScopeOf(c)
            /\ runtime[e].transactions = c
            /\ \/ runtime[e].executor = c
               \/ ScopeOf(c) = Default /\ runtime[e].executor = Standalone

(* "If forFeature fails during initialization, ownership is rolled back":   *)
(* once every provider of a named core of a failed application has run, and *)
(* the application will never start, the core owns nothing.                 *)
NoZombie ==
  \A c \in Core :
    App[c] \in failed /\ pc[c] = "compiled" /\ requested[c] = Features[c] =>
      \A e \in Entity : owner[e] # c
=============================================================================
