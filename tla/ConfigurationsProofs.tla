------------------------ MODULE ConfigurationsProofs ------------------------
(* BooksAgree and RunningIsWired for any entities, configurations,          *)
(* applications and library scopes.                                         *)
EXTENDS Configurations, TLAPS

Attaching == {"compiled", "syncing", "running"}
Holding   == Attaching \cup {"claimed"}

(* No two cores that hold a slot have one name. *)
OneName == \A c, d \in slots : Name[c] = Name[d] => c = d

(* Between the claim of its slot and the end, a core has the slot and the   *)
(* settings of its scope to itself.                                         *)
Slotted == \A c \in Core : pc[c] \in Holding =>
  /\ c \in slots
  /\ settings[ScopeOf(c)] = c
  /\ ScopeOf(c) = Default => process = c

Driven == \A c \in Core : pc[c] \in Attaching => driver[c] = "open"

(* Only a core whose providers may have run owns anything. *)
Owning == \A e \in Entity : owner[e] \in Core =>
  pc[owner[e]] \in Attaching /\ Name[owner[e]] # Default

Members == \A e \in Entity : \A s \in Scope : owner[e] = s <=> e \in members[s]

Fresh == \A e \in Entity : runtime[e].repository = runtime[e].executor

(* What a core's provider has attached stays attached, unless another       *)
(* provider of the application failed before it started.                    *)
Wired(c, e) ==
  /\ owner[e] = ScopeOf(c)
  /\ runtime[e].transactions = c
  /\ \/ runtime[e].executor = c
     \/ ScopeOf(c) = Default /\ runtime[e].executor = Standalone

Live(c) == \/ pc[c] \in {"syncing", "running"}
           \/ pc[c] = "compiled" /\ App[c] \notin failed

Attached == \A c \in Core :
  /\ pc[c] \in {"new", "claimed"} => requested[c] = {}
  /\ Live(c) => \A e \in requested[c] : Wired(c, e)
  /\ pc[c] \in {"syncing", "running"} => requested[c] = Features[c]

Held == OneName /\ Slotted /\ Driven
IInv == TypeOK /\ Held /\ Owning /\ Members /\ Fresh /\ Attached

-----------------------------------------------------------------------------
(* Scopes: a core's is its own, or the default one that goes with its name. *)

LEMMA ScopeIsScope ==
  ASSUME NEW c \in Core
  PROVE  /\ ScopeOf(c) \in Scope /\ ScopeOf(c) \notin Library /\ ScopeOf(c) # None
         /\ \/ ScopeOf(c) = c /\ Name[c] # Default
            \/ ScopeOf(c) = Default /\ Name[c] = Default
BY NamesAssumption DEF ScopeOf, Scope

LEMMA OneScope ==
  ASSUME Held, NEW c \in Core, NEW d \in Core, pc[c] \in Holding, pc[d] \in Holding,
         ScopeOf(c) = ScopeOf(d)
  PROVE  c = d
<1>1. Name[c] = Name[d]
  BY ScopeIsScope, NamesAssumption
<1> QED
  BY <1>1 DEF Held, OneName, Slotted

LEMMA NoneIsNoScope == \A s \in Scope : s # None
BY NamesAssumption

-----------------------------------------------------------------------------
(* The books. *)

LEMMA Claims ==
  ASSUME TypeOK, Members, NEW s \in Scope, NEW E \in SUBSET Entity,
         Claimable(s, E), ClaimEntitiesForScope(s, E)
  PROVE  /\ owner' \in [Entity -> Scope \cup {None}]
         /\ members' \in [Scope -> SUBSET Entity]
         /\ Members'
         /\ \A e \in Entity : owner'[e] = IF e \in E THEN s ELSE owner[e]
BY NoneIsNoScope DEF TypeOK, Members, Claimable, ClaimEntitiesForScope

(* What a call that breaks off gives back is what it had taken. *)
LEMMA RollbackIsExact ==
  ASSUME TypeOK, Members, NEW s \in Scope, NEW E \in SUBSET Entity,
         Claimable(s, E), RolledBack(s, E)
  PROVE  UNCHANGED books
<1>1. owner' = owner
  BY DEF TypeOK, Claimable, RolledBack
<1>2. members'[s] = members[s]
  BY NoneIsNoScope DEF TypeOK, Members, Claimable, RolledBack
<1>3. members' = members
  BY <1>2 DEF TypeOK, RolledBack
<1> QED
  BY <1>1, <1>3 DEF books

LEMMA Releases ==
  ASSUME TypeOK, Members, NEW s \in Scope, ReleaseOrmScope(s)
  PROVE  /\ owner' \in [Entity -> Scope \cup {None}]
         /\ members' \in [Scope -> SUBSET Entity]
         /\ Members'
         /\ \A e \in Entity : owner'[e] = IF owner[e] = s THEN None ELSE owner[e]
BY NoneIsNoScope DEF TypeOK, Members, ReleaseOrmScope

LEMMA RestoreIsExact ==
  ASSUME TypeOK, NEW s, NEW x, NEW E \in SUBSET Entity, NEW e \in E,
         NEW done \in SUBSET (E \ {e})
  PROVE  Restored(E, done, e, s, x) = runtime
BY DEF TypeOK, Restored

(* A configureEntities() that throws, whatever it had wired by then, leaves *)
(* everything as it was.                                                    *)
LEMMA ThrowIsUndone ==
  ASSUME TypeOK, Members, NEW s \in Scope, NEW E \in SUBSET Entity,
         ConfigureEntitiesThrows(s, E)
  PROVE  UNCHANGED vars
<1>1. UNCHANGED books
  BY RollbackIsExact DEF ConfigureEntitiesThrows
<1>2. runtime' = runtime
  BY RestoreIsExact DEF ConfigureEntitiesThrows
<1> QED
  BY <1>1, <1>2 DEF ConfigureEntitiesThrows, books, allSettings, vars

(* ... and so does a provider, but for the record that it ran and failed. *)
LEMMA AttachIsUndone ==
  ASSUME TypeOK, Members, NEW c \in Core, NEW e \in Entity, AttachThrows(c, e)
  PROVE  UNCHANGED <<books, runtime>>
<1>1. UNCHANGED books
  BY RollbackIsExact, ScopeIsScope DEF AttachThrows
<1>2. runtime' = runtime
  BY RestoreIsExact DEF AttachThrows
<1> QED
  BY <1>1, <1>2

-----------------------------------------------------------------------------
(* One lemma per action, or per group of actions that disturb the same     *)
(* parts of the invariant.                                                 *)

LEMMA InitIInv == Init => IInv
<1> SUFFICES ASSUME Init PROVE IInv
  OBVIOUS
<1>1. TypeOK
  BY NamesAssumption DEF Init, TypeOK, Runtime, Unset
<1>2. Held /\ Owning /\ Members /\ Fresh /\ Attached
  BY NamesAssumption, NoneIsNoScope
     DEF Init, Held, OneName, Slotted, Driven, Owning, Members, Fresh, Attached,
         Live, Holding, Attaching, Unset, Scope, Source
<1> QED
  BY <1>1, <1>2 DEF IInv

LEMMA ConfigureStep ==
  ASSUME IInv, NEW s \in Library \cup {Default}, NEW E \in SUBSET Entity,
         ConfigureEntities(s, E)
  PROVE  IInv'
<1>0. s \in Scope /\ s \notin Core /\ TypeOK /\ Members /\ s # None
  BY NamesAssumption, NoneIsNoScope DEF Scope, IInv
<1>1. /\ Claimable(s, E)
      /\ runtime' = [e \in Entity |-> IF e \in E THEN Wiring(s, Standalone) ELSE runtime[e]]
      /\ UNCHANGED <<settings, process, slots, pc, driver, requested, failed>>
  BY DEF ConfigureEntities, allSettings
<1>2. /\ owner' \in [Entity -> Scope \cup {None}]
      /\ members' \in [Scope -> SUBSET Entity]
      /\ Members'
      /\ \A e \in Entity : owner'[e] = IF e \in E THEN s ELSE owner[e]
  BY <1>0, Claims DEF ConfigureEntities
<1>3. TypeOK'
  <2>1. Wiring(s, Standalone) \in Runtime
    BY <1>0 DEF Wiring, Runtime, Source, TypeOK
  <2> QED
    BY <1>0, <1>1, <1>2, <2>1 DEF TypeOK
<1>4. Held'
  BY <1>1 DEF IInv, Held, OneName, Slotted, Driven
<1>5. Owning'
  BY <1>0, <1>1, <1>2 DEF IInv, Owning
<1>6. Fresh'
  BY <1>1 DEF IInv, Fresh, Wiring
<1>7. Attached'
  <2> SUFFICES ASSUME NEW c \in Core, Live(c), NEW e \in requested[c] PROVE Wired(c, e)'
    BY <1>1 DEF IInv, Attached, Live
  <2>1. e \in Entity /\ Wired(c, e)
    BY <1>0 DEF IInv, Attached, TypeOK
  <2>2. CASE e \notin E
    BY <1>1, <1>2, <2>1, <2>2 DEF Wired, ScopeOf
  <2>3. CASE e \in E
    <3>1. s = ScopeOf(c) /\ s = Default
      BY <1>0, <1>1, <2>1, <2>3, ScopeIsScope DEF Wired, Claimable
    <3>2. settings[s] = c
      BY <3>1 DEF IInv, Held, Slotted, Live, Holding, Attaching
    <3> QED
      BY <1>1, <1>2, <2>1, <2>3, <3>1, <3>2 DEF Wired, Wiring, ScopeOf
  <2> QED
    BY <2>2, <2>3
<1> QED
  BY <1>2, <1>3, <1>4, <1>5, <1>6, <1>7 DEF IInv

(* What another scope gives up leaves the entities of a core alone. *)
LEMMA StaysWired ==
  ASSUME NEW c \in Core, NEW e \in Entity, Wired(c, e),
         owner'[e] = owner[e], runtime'[e] = runtime[e]
  PROVE  Wired(c, e)'
BY DEF Wired, ScopeOf

LEMMA ReleaseLibraryStep ==
  ASSUME IInv, NEW s \in Library, ReleaseLibrary(s)
  PROVE  IInv'
<1>0. s \in Scope /\ s \notin Core /\ TypeOK /\ Members
  BY NamesAssumption DEF Scope, IInv
<1>1. UNCHANGED <<settings, process, runtime, slots, pc, driver, requested, failed>>
  BY DEF ReleaseLibrary, allSettings
<1>2. /\ owner' \in [Entity -> Scope \cup {None}]
      /\ members' \in [Scope -> SUBSET Entity]
      /\ Members'
      /\ \A e \in Entity : owner'[e] = IF owner[e] = s THEN None ELSE owner[e]
  BY <1>0, Releases DEF ReleaseLibrary
<1>3. TypeOK'
  BY <1>0, <1>1, <1>2 DEF TypeOK
<1>4. Held' /\ Fresh'
  BY <1>1 DEF IInv, Held, OneName, Slotted, Driven, Fresh
<1>5. Owning'
  BY <1>1, <1>2, NamesAssumption DEF IInv, Owning, Scope
<1>6. Attached'
  <2> SUFFICES ASSUME NEW c \in Core, Live(c), NEW e \in requested[c] PROVE Wired(c, e)'
    BY <1>1 DEF IInv, Attached, Live
  <2>1. e \in Entity /\ Wired(c, e)
    BY <1>0 DEF IInv, Attached, TypeOK
  <2>2. owner[e] # s
    BY <2>1, ScopeIsScope DEF Wired
  <2> QED
    BY <1>1, <1>2, <2>1, <2>2, StaysWired
<1> QED
  BY <1>2, <1>3, <1>4, <1>5, <1>6 DEF IInv

LEMMA ClaimSlotStep ==
  ASSUME IInv, NEW c \in Core, ClaimCoreModuleInit(c)
  PROVE  IInv'
<1>0. /\ TypeOK /\ ScopeOf(c) \in Scope
      /\ pc[c] = "new" /\ pc' = [pc EXCEPT ![c] = "claimed"]
      /\ \A d \in slots : Name[d] # Name[c]
      /\ slots' = slots \cup {c}
      /\ settings' = [settings EXCEPT ![ScopeOf(c)] = c]
      /\ process' = IF ScopeOf(c) = Default THEN c ELSE process
      /\ UNCHANGED <<owner, members, runtime, driver, requested, failed>>
  BY ScopeIsScope DEF IInv, ClaimCoreModuleInit, Goto, books
<1>1. TypeOK'
  BY <1>0 DEF TypeOK
<1>2. Held'
  <2>1. OneName'
    BY <1>0 DEF IInv, Held, OneName, TypeOK
  <2>2. Slotted'
    <3> SUFFICES ASSUME NEW d \in Core, pc'[d] \in Holding
                 PROVE  /\ d \in slots' /\ settings'[ScopeOf(d)] = d
                        /\ ScopeOf(d) = Default => process' = d
      BY DEF Slotted, ScopeOf
    <3>1. CASE d = c
      BY <1>0, <3>1 DEF TypeOK
    <3>2. CASE d # c
      <4>1. /\ d \in slots /\ settings[ScopeOf(d)] = d
            /\ ScopeOf(d) = Default => process = d
        BY <1>0, <3>2 DEF IInv, Held, Slotted, TypeOK
      <4>2. ScopeOf(d) # ScopeOf(c)
        BY <1>0, <4>1, ScopeIsScope, NamesAssumption
      <4> QED
        BY <1>0, <4>1, <4>2 DEF TypeOK
    <3> QED
      BY <3>1, <3>2
  <2>3. Driven'
    BY <1>0 DEF IInv, Held, Driven, TypeOK, Attaching
  <2> QED
    BY <2>1, <2>2, <2>3 DEF Held
<1>3. Owning' /\ Members' /\ Fresh'
  BY <1>0 DEF IInv, Owning, Members, Fresh, TypeOK, Attaching
<1>4. Attached'
  BY <1>0 DEF IInv, Attached, Live, Wired, ScopeOf, TypeOK
<1> QED
  BY <1>1, <1>2, <1>3, <1>4 DEF IInv

(* Steps of one core that touch neither books nor runtimes nor settings.   *)
LEMMA QuietStep ==
  ASSUME IInv, NEW c \in Core,
         \/ OptionsFail(c) \/ DriverOpens(c) \/ DriverFails(c)
         \/ Bootstrap(c) \/ SyncDone(c)
  PROVE  IInv'
<1>0. /\ TypeOK
      /\ UNCHANGED <<owner, members, settings, process, runtime, requested>>
      /\ failed' \in {failed, failed \cup {App[c]}}
  BY DEF IInv, OptionsFail, DriverOpens, DriverFails, Bootstrap, SyncDone, books, allSettings, Fail
<1>1. /\ slots' \in {slots, slots \ {c}}
      /\ slots' # slots => pc'[c] = "broken"
      /\ pc'[c] \in {"compiled", "syncing", "running"} => driver'[c] = "open"
      /\ \A d \in Core : d # c => pc'[d] = pc[d] /\ driver'[d] = driver[d]
      /\ pc'[c] \in Holding => pc[c] \in Holding
      /\ pc[c] \in Attaching => pc'[c] \in Attaching
      /\ pc'[c] \in {"syncing", "running"} => Live(c)
      /\ pc'[c] \notin {"new", "claimed"}
  BY <1>0 DEF IInv, Held, Driven, TypeOK, OptionsFail, DriverOpens, DriverFails, Bootstrap,
              SyncDone, Goto, Holding, Attaching, Live
<1>2. TypeOK'
  BY <1>0 DEF TypeOK, OptionsFail, DriverOpens, DriverFails, Bootstrap, SyncDone, Goto
<1>3. Held'
  BY <1>0, <1>1 DEF IInv, Held, OneName, Slotted, Driven, ScopeOf, Holding, Attaching
<1>4. Owning' /\ Members' /\ Fresh'
  BY <1>0, <1>1 DEF IInv, Owning, Members, Fresh
<1>5. Attached'
  <2>1. ASSUME NEW d \in Core, Live(d)', NEW e \in requested[d] PROVE Wired(d, e)
    <3>1. CASE Live(d)
      BY <2>1, <3>1 DEF IInv, Attached
    <3>2. CASE d = c /\ pc[c] = "claimed"
      BY <2>1, <3>2 DEF IInv, Attached
    <3> QED
      BY <1>0, <1>1, <2>1, <3>1, <3>2 DEF Live, OptionsFail, DriverOpens, DriverFails,
                                          Bootstrap, SyncDone, Goto, TypeOK
  <2>2. pc'[c] \in {"syncing", "running"} => requested[c] = Features[c]
    BY <1>0 DEF IInv, Attached, TypeOK, OptionsFail, DriverOpens, DriverFails, Bootstrap,
                SyncDone, Goto, Compiled, Peers
  <2> QED
    BY <1>0, <1>1, <2>1, <2>2 DEF IInv, Attached, Wired, ScopeOf
<1> QED
  BY <1>2, <1>3, <1>4, <1>5 DEF IInv

LEMMA AttachStep ==
  ASSUME IInv, NEW c \in Core, NEW e \in Entity, Attach(c, e)
  PROVE  IInv'
<1> DEFINE s == ScopeOf(c)
<1>0. /\ TypeOK /\ Members /\ s \in Scope /\ s # None
      /\ s \in Core => s = c /\ Name[c] # Default
  BY ScopeIsScope, NamesAssumption DEF IInv
<1>1. /\ pc[c] = "compiled" /\ Claimable(s, {e})
      /\ runtime' = [runtime EXCEPT ![e] = Wiring(s, c)]
      /\ requested' = [requested EXCEPT ![c] = @ \cup {e}]
      /\ UNCHANGED <<settings, process, slots, pc, driver, failed>>
  BY DEF Attach, Request, allSettings
<1>2. /\ owner' \in [Entity -> Scope \cup {None}]
      /\ members' \in [Scope -> SUBSET Entity]
      /\ Members'
      /\ \A f \in Entity : owner'[f] = IF f \in {e} THEN s ELSE owner[f]
  BY <1>0, Claims DEF Attach
<1>3. settings[s] = c
  BY <1>1 DEF IInv, Held, Slotted, Holding, Attaching
<1>4. TypeOK'
  <2>1. Wiring(s, c) \in Runtime
    BY <1>3 DEF Wiring, Runtime, Source
  <2> HIDE DEF s
  <2> QED
    BY <1>0, <1>1, <1>2, <2>1 DEF TypeOK
<1>5. Held'
  BY <1>1 DEF IInv, Held, OneName, Slotted, Driven, ScopeOf
<1>6. Owning'
  <2> HIDE DEF s
  <2> QED
    BY <1>0, <1>1, <1>2 DEF IInv, Owning, Attaching
<1>7. Fresh'
  <2> HIDE DEF s
  <2> QED
    BY <1>0, <1>1 DEF IInv, Fresh, Wiring, TypeOK
<1>8. Attached'
  <2>1. ASSUME NEW d \in Core, Live(d), NEW f \in requested'[d] PROVE Wired(d, f)'
    <3>1. CASE d = c /\ f = e
      <4>1. runtime'[f] = Wiring(s, c) /\ owner'[f] = s
        BY <1>0, <1>1, <1>2, <3>1 DEF TypeOK
      <4> QED
        BY <1>3, <3>1, <4>1 DEF Wired, Wiring, ScopeOf
    <3>2. CASE f \in requested[d]
      <4>0. f \in Entity /\ Wired(d, f) /\ ScopeOf(d) # None
        BY <1>0, <2>1, <3>2, ScopeIsScope DEF IInv, Attached, TypeOK
      <4>1. CASE f # e
        <5>1. runtime'[f] = runtime[f] /\ owner'[f] = owner[f]
          BY <1>0, <1>1, <1>2, <4>0, <4>1 DEF TypeOK
        <5> QED
          BY <4>0, <5>1, StaysWired
      <4>2. CASE f = e
        <5>1. ScopeOf(d) = ScopeOf(c)
          BY <1>1, <4>0, <4>2 DEF Claimable, Wired
        <5>2. d = c
          BY <1>1, <2>1, <5>1, OneScope DEF IInv, Live, Holding, Attaching
        <5> QED
          BY <3>1, <4>2, <5>2
      <4> QED
        BY <4>1, <4>2
    <3> QED
      BY <1>0, <1>1, <2>1, <3>1, <3>2 DEF TypeOK
  <2> QED
    BY <1>0, <1>1, <2>1 DEF IInv, Attached, Live, TypeOK
<1> QED
  BY <1>2, <1>4, <1>5, <1>6, <1>7, <1>8 DEF IInv

(* The application of a core one of whose providers failed never starts.   *)
LEMMA AttachFailsStep ==
  ASSUME IInv, NEW c \in Core, NEW e \in Entity,
         AttachRefused(c, e) \/ AttachThrows(c, e)
  PROVE  IInv'
<1>0. TypeOK /\ Members
  BY DEF IInv
<1>1. UNCHANGED <<owner, members, runtime>>
  BY <1>0, AttachIsUndone DEF AttachRefused, books
<1>2. /\ pc[c] = "compiled" /\ e \in Features[c]
      /\ requested' = [requested EXCEPT ![c] = @ \cup {e}]
      /\ failed' = failed \cup {App[c]}
      /\ UNCHANGED <<settings, process, slots, pc, driver>>
  BY DEF AttachRefused, AttachThrows, Request, Fail, allSettings
<1>3. TypeOK'
  BY <1>0, <1>1, <1>2 DEF TypeOK
<1>4. Held' /\ Owning' /\ Members' /\ Fresh'
  BY <1>1, <1>2 DEF IInv, Held, OneName, Slotted, Driven, Owning, Members, Fresh, ScopeOf
<1>5. Attached'
  <2>1. \A d \in Core : Live(d)' => Live(d) /\ d # c
    BY <1>2 DEF Live
  <2> QED
    BY <1>0, <1>1, <1>2, <2>1 DEF IInv, Attached, Wired, ScopeOf, TypeOK
<1> QED
  BY <1>3, <1>4, <1>5 DEF IInv

LEMMA DisposeStep ==
  ASSUME IInv, NEW c \in Core, SyncFails(c) \/ OnApplicationShutdown(c)
  PROVE  IInv'
<1> DEFINE s == ScopeOf(c)
<1>0. /\ TypeOK /\ Members /\ s \in Scope
      /\ Name[c] # Default => s = c
  BY ScopeIsScope DEF IInv
<1>1. /\ pc[c] \in {"syncing", "running"}
      /\ slots' = slots \ {c}
      /\ driver' = [driver EXCEPT ![c] = "closed"]
      /\ pc' = [pc EXCEPT ![c] = "closed"]
      /\ failed' \in {failed, failed \cup {App[c]}}
      /\ UNCHANGED <<settings, process, runtime, requested>>
  BY DEF SyncFails, OnApplicationShutdown, Dispose, Goto, Fail, allSettings
<1>2. /\ owner' \in [Entity -> Scope \cup {None}]
      /\ members' \in [Scope -> SUBSET Entity]
      /\ Members'
      /\ \A e \in Entity : owner'[e] = IF owner[e] = s THEN None ELSE owner[e]
  BY <1>0, Releases DEF SyncFails, OnApplicationShutdown, Dispose
<1>3. TypeOK'
  BY <1>0, <1>1, <1>2 DEF TypeOK
<1>4. Held'
  BY <1>0, <1>1 DEF IInv, Held, OneName, Slotted, Driven, ScopeOf, TypeOK, Holding, Attaching
<1>5. Owning'
  <2> SUFFICES ASSUME NEW e \in Entity, owner'[e] \in Core
               PROVE  pc'[owner'[e]] \in Attaching /\ Name[owner'[e]] # Default
    BY DEF Owning
  <2>1. owner[e] = owner'[e] /\ owner[e] # s
    BY <1>2, NamesAssumption DEF Source
  <2>2. owner[e] # c
    BY <1>0, <2>1 DEF IInv, Owning
  <2> QED
    BY <1>0, <1>1, <2>1, <2>2 DEF IInv, Owning, TypeOK
<1>6. Fresh'
  BY <1>1 DEF IInv, Fresh
<1>7. Attached'
  <2>1. ASSUME NEW d \in Core, Live(d)', NEW e \in requested[d] PROVE Wired(d, e)'
    <3>1. Live(d) /\ d # c
      BY <1>0, <1>1, <2>1 DEF Live, TypeOK
    <3>2. Wired(d, e) /\ e \in Entity
      BY <1>0, <2>1, <3>1 DEF IInv, Attached, TypeOK
    <3>3. ScopeOf(d) # s
      BY <1>1, <3>1, OneScope DEF IInv, Live, Holding, Attaching
    <3> QED
      BY <1>1, <1>2, <3>2, <3>3, StaysWired DEF Wired
  <2> QED
    BY <1>0, <1>1, <2>1 DEF IInv, Attached, TypeOK
<1> QED
  BY <1>2, <1>3, <1>4, <1>5, <1>6, <1>7 DEF IInv

LEMMA StutterStep == ASSUME IInv, UNCHANGED vars PROVE IInv'
BY DEF IInv, TypeOK, Held, OneName, Slotted, Driven, Owning, Members, Fresh, Attached,
       Live, Wired, ScopeOf, vars

LEMMA InvStep == IInv /\ [Next]_vars => IInv'
<1> SUFFICES ASSUME IInv, [Next]_vars PROVE IInv'
  OBVIOUS
<1>1. ASSUME NEW s \in Library \cup {Default}, NEW E \in SUBSET Entity,
             ConfigureEntities(s, E) \/ ConfigureEntitiesThrows(s, E)
      PROVE  IInv'
  <2>1. s \in Scope
    BY DEF Scope
  <2> QED
    BY <1>1, <2>1, ConfigureStep, ThrowIsUndone, StutterStep DEF IInv
<1>2. ASSUME NEW c \in Core,
             \/ ClaimCoreModuleInit(c) \/ OptionsFail(c)
             \/ DriverOpens(c) \/ DriverFails(c)
             \/ \E e \in Entity : Attach(c, e) \/ AttachRefused(c, e) \/ AttachThrows(c, e)
             \/ Bootstrap(c) \/ SyncDone(c) \/ SyncFails(c) \/ OnApplicationShutdown(c)
      PROVE  IInv'
  BY <1>2, ClaimSlotStep, QuietStep, AttachStep, AttachFailsStep, DisposeStep
<1> QED
  BY <1>1, <1>2, ReleaseLibraryStep, StutterStep DEF Next

-----------------------------------------------------------------------------
(* Each variable keeps its type. *)
THEOREM TypeCorrect == Spec => []TypeOK
<1>1. IInv => TypeOK
  BY DEF IInv
<1> QED
  BY <1>1, InitIInv, InvStep, PTL DEF Spec

(* The owner of each entity and the lists of the scopes are two views of    *)
(* one thing through every claim, rollback and release, and only a core     *)
(* that holds its name owns entities under it.                              *)
THEOREM BooksAreRight == Spec => []BooksAgree
<1>1. IInv => BooksAgree
  BY DEF IInv, BooksAgree, Members, Owning, Held, Slotted, Holding
<1> QED
  BY <1>1, InitIInv, InvStep, PTL DEF Spec

(* From its bootstrap to its shutdown a configuration has its entities, its *)
(* settings and its driver, whatever other configurations start, fail, roll *)
(* back and stop.                                                           *)
THEOREM WiredWhileRunning == Spec => []RunningIsWired
<1>1. IInv => RunningIsWired
  <2> SUFFICES ASSUME IInv PROVE RunningIsWired
    OBVIOUS
  <2>1. ASSUME NEW c \in Core, pc[c] \in {"syncing", "running"}
        PROVE  /\ driver[c] = "open"
               /\ ScopeOf(c) = Default => process = c
    BY <2>1 DEF IInv, Held, Driven, Slotted, Holding, Attaching
  <2>2. ASSUME NEW c \in Core, pc[c] \in {"syncing", "running"}, NEW e \in Features[c]
        PROVE  Wired(c, e)
    BY <2>2 DEF IInv, Attached, Live
  <2> QED
    BY <2>1, <2>2 DEF IInv, Fresh, RunningIsWired, Wired
<1> QED
  BY <1>1, InitIInv, InvStep, PTL DEF Spec

(* A configureEntities() or a provider that throws half-way through takes   *)
(* nothing from anyone and repoints nothing.                                *)
THEOREM FailuresAreUndone ==
  Spec => [][/\ \A s \in Library \cup {Default} : \A E \in SUBSET Entity :
                  ConfigureEntitiesThrows(s, E) => UNCHANGED vars
             /\ \A c \in Core : \A e \in Entity :
                  AttachThrows(c, e) => UNCHANGED <<books, runtime>>]_vars
<1>1. IInv => /\ \A s \in Library \cup {Default} : \A E \in SUBSET Entity :
                   ConfigureEntitiesThrows(s, E) => UNCHANGED vars
              /\ \A c \in Core : \A e \in Entity :
                   AttachThrows(c, e) => UNCHANGED <<books, runtime>>
  BY ThrowIsUndone, AttachIsUndone DEF IInv, Scope
<1> QED
  BY <1>1, InitIInv, InvStep, PTL DEF Spec
=============================================================================
