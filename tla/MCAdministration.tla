--------------------------- MODULE MCAdministration ---------------------------
(***************************************************************************)
(* Small instances of RuntimeSettings, RechargePlans and Startup in one    *)
(* specification. The three have no row and no variable in common: in each *)
(* behaviour the variable part says which of them moves while the others   *)
(* stay as they were at first, so that the states of the three add up and  *)
(* every property is about all behaviours of its own module. Where it is   *)
(* not Startup that moves, the processes are up.                           *)
(***************************************************************************)
EXTENDS RuntimeSettings, RechargePlans, Startup

CONSTANTS
  p1, p2,        \* the providers: p1 has no limit of its own, p2 has
  lower,         \* the update that asks for less than the defaults
  planA,         \* a plan that an edit makes an ordinary one
  old            \* a process of an earlier build, with one migration less

VARIABLE part

vars == <<part, settingsVars, plansVars, startupVars>>

\* The default of the global limit is its most, so that it can be lowered; the
\* provider limit can be raised. One update asks for 1 and 0, another for too much.
MCBounds ==
  [k \in Keys |->
     [least |-> 1, most |-> 2, default |-> IF k = "global" THEN 2 ELSE 1]]
MCBody ==
  [u \in Updates |->
     IF u = lower THEN [k \in Keys |-> IF k = "global" THEN 1 ELSE 0]
     ELSE [k \in Keys |-> CASE k = "global" -> 9 [] k = "provider" -> 2 [] OTHER -> 0]]

\* Two tasks of p1 and one of p2
MCProviderOf == [t \in Tasks |-> IF t = 3 THEN p2 ELSE p1]
MCOwnLimit == [p \in Providers |-> IF p = p2 THEN 1 ELSE 0]

\* An edit makes a plan the default one, or planA an ordinary one
MCBodies ==
  {[plan |-> p, isDefault |-> TRUE] : p \in Plans}
  \cup {[plan |-> planA, isDefault |-> FALSE]}

MCShipped == [p \in Processes |-> IF p = old THEN 2 ELSE 3]

\* One initial state where an edit does not move
FirstPlans ==
  /\ body = [e \in Edits |-> CHOOSE b \in Bodies : TRUE]
  /\ \A p \in Migrated : isDefault[p] <=> p = planA

Up ==
  /\ pc = [p \in Processes |-> "up"]
  /\ next = [p \in Processes |-> Shipped[p] + 1]
  /\ applied = Versions
  /\ effects = [m \in Versions |-> 1]
  /\ failures = 0

Init ==
  /\ part \in {"settings", "plans", "start"}
  /\ SettingsInit
  /\ PlansInit /\ (part # "plans" => FirstPlans)
  /\ IF part = "start" THEN StartupInit ELSE Up

SettingsStep == part = "settings" /\ UNCHANGED <<part, plansVars, startupVars>>
PlansStep == part = "plans" /\ UNCHANGED <<part, settingsVars, startupVars>>
StartStep == part = "start" /\ UNCHANGED <<part, settingsVars, plansVars>>

Next ==
  \/ SettingsStep /\ SettingsNext
  \/ PlansStep /\ PlansNext
  \/ StartStep /\ StartupNext

\* The fairness of each module: its handlers, workers and processes go on, the
\* database ends deadlocks, and a process that exits is started again
Fairness ==
  /\ \A w \in Workers : WF_vars(SettingsStep /\ WorkerStep(w))
  /\ \A e \in Edits : WF_vars(PlansStep /\ EditStep(e) /\ edit[e] # "new")
  /\ WF_vars(PlansStep /\ \E e \in Deadlocked : FailEdit(e))
  /\ \A p \in Processes : WF_vars(StartStep /\ ProcessStep(p))

Spec == Init /\ [][Next]_vars /\ Fairness

----------------------------------------------------------------------------
\* Every variable of the three modules keeps its type; no limit is ever 0.
TypeOK == SettingsTypeOK /\ PlansTypeOK /\ StartupTypeOK
=============================================================================
