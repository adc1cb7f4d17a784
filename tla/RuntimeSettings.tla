--------------------------- MODULE RuntimeSettings ---------------------------
(***************************************************************************)
(* The limits an administrator may change while the program runs           *)
(* (internal/httpapi/runtime_settings.go) and the workers that live by     *)
(* them (internal/httpapi/tasks.go).                                       *)
(*                                                                         *)
(* An update writes its three rows by three statements, so that two        *)
(* updates may mix, and one may stop half-way. A worker reads the rows     *)
(* before it claims: by then they may be others, and where the reading     *)
(* fails it uses the built-in defaults. TaskLifecycle has the limits as    *)
(* constants and all of a task's life; here a task is queued, running or   *)
(* over, and is then asked for again. What it has of that life is what the *)
(* counts of the claim see: a fallback moves a running task to another     *)
(* provider without looking at any limit, and a task whose worker ends     *)
(* without a last write, or whose process stops, stays running until a     *)
(* later start finds it stale.                                             *)
(***************************************************************************)
EXTENDS Integers, Sequences, FiniteSets, SequencesExt

CONSTANTS
  Tasks,
  Providers,
  ProviderOf,     \* the provider that the request for a task has selected
  OwnLimit,       \* service_profiles.max_concurrent, 0 where it is not set
  Workers,
  Updates,        \* PUT requests of an administrator
  Body,           \* what each of them asks for
  Bounds,         \* of each key: least, most and default value
  MaxMishaps,     \* bound on failed readings, claims and last writes, and stops
  NoTask

\* The rows, in the order an update writes them
Order == <<"global", "provider", "timeout">>
Keys == {Order[n] : n \in 1 .. Len(Order)}

ASSUME TaskAssumption ==
  /\ IsFiniteSet(Tasks) /\ NoTask \notin Tasks
  /\ ProviderOf \in [Tasks -> Providers]
  /\ OwnLimit \in [Providers -> Nat]
ASSUME UpdatesAssumption == Body \in [Updates -> [Keys -> Int]]
ASSUME BoundsAssumption ==
  \A k \in Keys : /\ Bounds[k].least \in Nat \ {0} /\ Bounds[k].most \in Nat
                  /\ Bounds[k].default \in Bounds[k].least .. Bounds[k].most
ASSUME MishapsAssumption == MaxMishaps \in Nat

VARIABLES
  setting,  \* app_settings.value of each key
  update,   \* how many of its statements each update has executed
  worker,   \* where each worker is
  limits,   \* the runtimeSettings each worker has read
  claimed,  \* the task each worker executes
  queue,    \* the queued tasks in the order of created_at
  running,  \* the running tasks
  profile,  \* tasks.service_profile
  mishaps   \* history: what has failed or stopped so far, see MaxMishaps

taskVars == <<queue, running, profile, claimed>>
settingsVars == <<setting, update, worker, limits, taskVars, mishaps>>

\* boundedInt; the mutant takes the value as it is
Unbounded(k, value) == value

BoundedInt(k, value) ==
  LET b == Bounds[k]
      v == IF value <= 0 THEN b.default ELSE value
  IN IF v < b.least THEN b.least ELSE IF v > b.most THEN b.most ELSE v

Defaults == [k \in Keys |-> Bounds[k].default]

SettingsInit ==
  /\ setting = Defaults
  /\ update = [u \in Updates |-> 0]
  /\ worker = [w \in Workers |-> "poll"]
  /\ limits = [w \in Workers |-> Defaults]
  /\ claimed = [w \in Workers |-> NoTask]
  /\ queue = <<>>
  /\ running = {}
  /\ profile = ProviderOf
  /\ mishaps = 0

Mishap == mishaps < MaxMishaps /\ mishaps' = mishaps + 1

----------------------------------------------------------------------------
(***************************************************************************)
(* handleAdminUpdateRuntimeSettings                                        *)
(***************************************************************************)

\* The statement for the next row. An update ends after the last one; or after
\* any, with an error or a timeout.
WriteRow(u) ==
  LET n == update[u] + 1
      k == Order[n]
  IN
  /\ n <= Len(Order)
  /\ setting' = [setting EXCEPT ![k] = BoundedInt(k, Body[u][k])]
  /\ \E done \in {n, Len(Order)} : update' = [update EXCEPT ![u] = done]
  /\ UNCHANGED <<worker, limits, taskVars, mishaps>>

----------------------------------------------------------------------------
(***************************************************************************)
(* Tasks and workers                                                       *)
(***************************************************************************)

\* handleCreateTask, as far as the queue is concerned
Submit(t) ==
  /\ t \notin running
  /\ ~Contains(queue, t)
  /\ queue' = Append(queue, t)
  /\ UNCHANGED <<setting, update, worker, limits, running, profile, claimed, mishaps>>

\* Mutant: a worker does not read the settings.
LoadOmitted(w) ==
  /\ worker[w] = "poll"
  /\ worker' = [worker EXCEPT ![w] = "claim"]
  /\ UNCHANGED <<setting, update, limits, taskVars, mishaps>>

\* loadRuntimeSettings in processNextQueuedTask: one statement reads the rows; the
\* default stands for a row that is not read, be it one of them or all
Load(w) ==
  /\ worker[w] = "poll"
  /\ worker' = [worker EXCEPT ![w] = "claim"]
  /\ \E unread \in SUBSET Keys :
       /\ limits' = [limits EXCEPT ![w] =
            [k \in Keys |-> IF k \in unread THEN Defaults[k] ELSE BoundedInt(k, setting[k])]]
       /\ IF unread = {} THEN UNCHANGED mishaps ELSE Mishap
  /\ UNCHANGED <<setting, update, taskVars>>

\* The provider's own max_concurrent, or the setting where it has none
ProviderLimit(w, p) ==
  IF OwnLimit[p] > 0 THEN OwnLimit[p] ELSE limits[w]["provider"]

RunningOn(p) == {t \in running : profile[t] = p}

\* globalTaskSlotAvailable and the claiming SELECT, with the limits w has read
Claimable(w) ==
  IF Cardinality(running) < limits[w]["global"]
  THEN {n \in 1 .. Len(queue) :
          LET p == profile[queue[n]]
          IN Cardinality(RunningOn(p)) < ProviderLimit(w, p)}
  ELSE {}

\* The settings are local to processNextQueuedTask
Forget(w) == limits' = [limits EXCEPT ![w] = Defaults]

\* Mutant: the tasks are claimed in the order of created_at DESC.
ClaimNewest(w) ==
  /\ worker[w] = "claim"
  /\ \E n \in Claimable(w) :
       /\ \A m \in Claimable(w) : m <= n
       /\ claimed' = [claimed EXCEPT ![w] = queue[n]]
       /\ running' = running \cup {queue[n]}
       /\ queue' = RemoveAt(queue, n)
  /\ worker' = [worker EXCEPT ![w] = "work"]
  /\ Forget(w)
  /\ UNCHANGED <<setting, update, profile, mishaps>>

\* claimNextQueuedTask, under the advisory lock
Claim(w) ==
  /\ worker[w] = "claim"
  /\ \E n \in Claimable(w) :
       /\ \A m \in Claimable(w) : n <= m
       /\ claimed' = [claimed EXCEPT ![w] = queue[n]]
       /\ running' = running \cup {queue[n]}
       /\ queue' = RemoveAt(queue, n)
  /\ worker' = [worker EXCEPT ![w] = "work"]
  /\ Forget(w)
  /\ UNCHANGED <<setting, update, profile, mishaps>>

\* No task is claimable, or the transaction fails: the worker sleeps and polls again
ClaimNothing(w) ==
  /\ worker[w] = "claim"
  /\ IF Claimable(w) = {} THEN UNCHANGED mishaps ELSE Mishap
  /\ worker' = [worker EXCEPT ![w] = "poll"]
  /\ Forget(w)
  /\ UNCHANGED <<setting, update, taskVars>>

Executing == {w \in Workers : worker[w] \in {"work", "again"}}

\* The call fails and executeTask selects another provider, once; the UPDATE of
\* service_profile may fail. Which provider it can be is in ProviderRouting.
FallBack(w) ==
  /\ worker[w] = "work"
  /\ worker' = [worker EXCEPT ![w] = "again"]
  /\ \E p \in Providers : profile' = [profile EXCEPT ![claimed[w]] = p]
  /\ UNCHANGED <<setting, update, limits, queue, running, claimed, mishaps>>

\* Tasks are over; asked for again, each gets a new row, with its own provider
Finish(over) ==
  /\ running' = running \ over
  /\ profile' = [t \in Tasks |-> IF t \in over THEN ProviderOf[t] ELSE profile[t]]

\* executeTask ends, and the task is done or in error (see TaskLifecycle); or the
\* statement that says so fails, and the task stays running
Complete(w) ==
  /\ w \in Executing
  /\ \/ Finish({claimed[w]}) /\ UNCHANGED mishaps
     \/ Mishap /\ UNCHANGED <<running, profile>>
  /\ claimed' = [claimed EXCEPT ![w] = NoTask]
  /\ worker' = [worker EXCEPT ![w] = "poll"]
  /\ UNCHANGED <<setting, update, limits, queue>>

\* The process stops, at any point of its workers and updates, and starts again:
\* recovery finds some of the running tasks stale
Restart ==
  /\ Mishap
  /\ \E recovered \in SUBSET running : Finish(recovered)
  /\ worker' = [w \in Workers |-> "poll"]
  /\ limits' = [w \in Workers |-> Defaults]
  /\ claimed' = [w \in Workers |-> NoTask]
  /\ update' = [u \in Updates |-> IF update[u] > 0 THEN Len(Order) ELSE 0]
  /\ UNCHANGED <<setting, queue>>

----------------------------------------------------------------------------
WorkerStep(w) == Load(w) \/ Claim(w) \/ ClaimNothing(w) \/ FallBack(w) \/ Complete(w)

SettingsNext ==
  \/ \E u \in Updates : WriteRow(u)
  \/ \E t \in Tasks : Submit(t)
  \/ \E w \in Workers : WorkerStep(w)
  \/ Restart

SettingsSpec == SettingsInit /\ [][SettingsNext]_settingsVars

\* taskWorkerLoop goes on, and a call ends: it has a timeout. Nobody has to
\* submit a task, to update a setting, or to finish an update.
SettingsFairness == \A w \in Workers : WF_settingsVars(WorkerStep(w))

----------------------------------------------------------------------------
(***************************************************************************)
(* Properties                                                              *)
(***************************************************************************)

\* Every variable keeps its type. In particular every row, and every mix of rows
\* that a worker reads, is within the bounds: no limit is ever 0.
SettingsTypeOK ==
  /\ \A k \in Keys : setting[k] \in Bounds[k].least .. Bounds[k].most
  /\ \A w \in Workers, k \in Keys : limits[w][k] \in Bounds[k].least .. Bounds[k].most
  /\ update \in [Updates -> 0 .. Len(Order)]
  /\ worker \in [Workers -> {"poll", "claim", "work", "again"}]
  /\ claimed \in [Workers -> Tasks \cup {NoTask}]
  /\ ToSet(queue) \subseteq Tasks
  /\ running \subseteq Tasks
  /\ profile \in [Tasks -> Providers]
  /\ mishaps \in 0 .. MaxMishaps

\* The running tasks that no worker executes: they were left so
Left == running \ {claimed[w] : w \in Workers}

\* The first calls that are made to provider p
FirstCalls(p) == {w \in Workers : worker[w] = "work" /\ profile[claimed[w]] = p}

\* A limit that was lowered holds in the end: workers may claim once more with the
\* limits they had read before, or with defaults, but then no task is executed
\* while more of them are running than the rows allow, those left behind included;
\* and a provider never has more first calls than its limit. (Fallbacks look at no
\* limit of a provider, but they count against it for later claims.)
LoweredLimitHolds ==
  <>[](/\ Executing # {} => Cardinality(running) <= setting["global"]
       /\ \A p \in Providers : OwnLimit[p] = 0 =>
            Cardinality(FirstCalls(p)) <= setting["provider"])

\* Tasks left behind fill the global limit, or that of the provider of task t
Clogged(t) ==
  LET p == ProviderOf[t]
      limit == IF OwnLimit[p] > 0 THEN OwnLimit[p] ELSE setting["provider"]
  IN \/ Cardinality(Left) >= setting["global"]
     \/ Cardinality({l \in Left : profile[l] = p}) >= limit

\* A fallback has brought a task of another provider to that of task t
Visited(t) ==
  \E w \in Workers :
    /\ worker[w] = "again"
    /\ profile[claimed[w]] = ProviderOf[t]
    /\ ProviderOf[claimed[w]] # ProviderOf[t]

\* Whatever the administrator asks for, however updates mix, and however many tasks
\* come after it, a queued task is executed in the end: no value of a setting stops
\* the queue, and no task starves while its provider is at its limit. Two things
\* alone can keep it waiting: tasks left behind that fill a limit until the next
\* start, and fallbacks to its provider that never end.
QueueDrains ==
  \A t \in Tasks : \/ <>[]Clogged(t)
                   \/ []<>Visited(t)
                   \/ Contains(queue, t) ~> t \in running
=============================================================================
