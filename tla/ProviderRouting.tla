---------------------------- MODULE ProviderRouting ----------------------------
(***************************************************************************)
(* Which provider makes an image (internal/httpapi/tasks.go, and the       *)
(* provider pages of internal/httpapi/product_api.go): the request selects *)
(* a provider by the tier of the image, a worker loads that provider when  *)
(* it has claimed the task, calls it, records how the call went, and after *)
(* a failure selects another one. Two failures put a provider on cooldown. *)
(* An administrator edits and deletes providers at any time.               *)
(*                                                                         *)
(* A selection keeps the connection of its query while its UPDATE asks the *)
(* pool for a second one. A request gives up after its timeout; a worker   *)
(* has none there. What else a task goes through is in TaskLifecycle, and  *)
(* who pays for it in TaskAdmission.                                       *)
(***************************************************************************)
EXTENDS BillingSelection, FiniteSets, Functions

CONSTANTS
  Jobs,        \* POST /v1/tasks, and the task each of them may create
  Tier,        \* the size tier of each
  Held,        \* the services of which its wallet has an entitlement with a balance
  Refused,     \* those TaskAdmission refuses; the others may be refused
  Providers,   \* ids of service_profiles
  AtFirst,     \* tier_bucket, status and priority of each provider at first
  Edits,       \* what the administrator may write to a provider
  Deletions,   \* the providers it may delete
  Workers,     \* number of worker goroutines
  Pool,        \* connections of the database pool
  NoProvider

Settings == [bucket : Buckets, status : {"active", "disabled"}, priority : Nat \ {0}]

ASSUME JobsAssumption == 
  /\ IsFiniteSet(Jobs)
  /\ Tier \in [Jobs -> Tiers]
  /\ Refused \subseteq Jobs
  /\ Held \in [Jobs -> SUBSET Services]
ASSUME ProvidersAssumption ==
  /\ AtFirst \in [Providers -> Settings]
  /\ Edits \subseteq [provider : Providers, row : Settings]
  /\ Deletions \subseteq Providers
  /\ NoProvider \notin Providers
\* more connections than workers: see docs/deployment.md, DB_POOL_MAX_CONNS
ASSUME PoolAssumption == Workers \in Nat \ {0} /\ Pool \in Nat /\ Pool > Workers

VARIABLES
  provider,  \* the rows of service_profiles an administrator writes
  failures,  \* service_profiles.failure_count
  cooling,   \* is service_profiles.disabled_until in the future?
  removing,  \* the provider handleAdminDeleteServiceProfile has counted tasks of
  stage,     \* where each job is
  route,     \* what each job has of its provider
  failed     \* history: how many calls to each provider failed

providerVars == <<provider, failures, cooling>>
vars == <<providerVars, removing, stage, route, failed>>

\* The request, up to the insert of the task; then the worker
RequestStages == {"new", "touch", "insert"}
WorkerStages == {"load", "call", "succeeded", "failed", "again", "retouch", "move"}
Stages == RequestStages \cup {"queued"} \cup WorkerStages \cup {"over"}

\* The billed service; the provider that was read and its failure_count then
\* (0 where it is of no more use); the providers tried; tasks.service_profile
Routes == [service : Services, provider : Providers \cup {NoProvider},
           failures : Nat, tried : SUBSET Providers,
           task : Providers \cup {NoProvider}]

\* serviceProfileCooldownFailures and serviceProfileFallbackRetries
CooldownFailures == 2
FallbackRetries == 1

\* Mutant: the rows of a query are only closed when the job goes on with the next.
HoldingLonger == {j \in Jobs : stage[j] \in {"touch", "insert", "retouch", "call"}}

\* The jobs whose query is open while their UPDATE waits for a connection
Holding == {j \in Jobs : stage[j] \in {"touch", "retouch"}}
ConnectionFree == Cardinality(Holding) < Pool

NoRoute == [service |-> SD, provider |-> NoProvider, failures |-> 0,
            tried |-> {}, task |-> NoProvider]

Init ==
  /\ provider = AtFirst
  /\ failures = [p \in Providers |-> 0]
  /\ cooling = [p \in Providers |-> FALSE]
  /\ removing = NoProvider
  /\ stage = [j \in Jobs |-> "new"]
  /\ route = [j \in Jobs |-> NoRoute]
  /\ failed = [p \in Providers |-> 0]

GoTo(j, s) == stage' = [stage EXCEPT ![j] = s]

\* The request is answered with an error, or the task has ended
End(j) == GoTo(j, "over") /\ route' = [route EXCEPT ![j] = NoRoute]

----------------------------------------------------------------------------
(***************************************************************************)
(* selectServiceProfileForWallet                                           *)
(***************************************************************************)

\* WHERE: the providers of the buckets that are active and not on cooldown,
\* without those the job has tried
Usable(buckets, tried) ==
  {p \in Providers \ tried : /\ provider[p].bucket \in Range(buckets)
                             /\ provider[p].status = "active"
                             /\ ~cooling[p]}

\* ORDER BY: the bucket, then the priority. Which of two equals was selected
\* longer ago is left open.
Precedes(p, q, buckets) ==
  LET position(r) == CHOOSE n \in DOMAIN buckets : buckets[n] = provider[r].bucket
  IN \/ position(p) < position(q)
     \/ position(p) = position(q) /\ provider[p].priority < provider[q].priority

Best(buckets, tried) ==
  LET usable == Usable(buckets, tried)
  IN {p \in usable : \A q \in usable : ~Precedes(q, p, buckets)}

\* Mutant: that no provider was found goes unnoticed.
SelectProviderUnchecked(j, service, onward) ==
  LET best == Best(CandidateBuckets(service, Tier[j]), route[j].tried) IN
  /\ ConnectionFree
  /\ GoTo(j, onward)
  /\ \E p \in IF best = {} THEN {NoProvider} ELSE best :
       route' = [route EXCEPT ![j].service = service, ![j].provider = p]
  /\ UNCHANGED <<providerVars, removing, failed>>

\* The query finds a provider and the job goes on to the UPDATE; or it finds none,
\* or fails
SelectProvider(j, service, onward) ==
  /\ ConnectionFree
  /\ \/ End(j)
     \/ /\ GoTo(j, onward)
        /\ \E p \in Best(CandidateBuckets(service, Tier[j]), route[j].tried) :
             route' = [route EXCEPT ![j].service = service, ![j].provider = p,
                                    ![j].failures = failures[p]]
  /\ UNCHANGED <<providerVars, removing, failed>>

----------------------------------------------------------------------------
(***************************************************************************)
(* Requests                                                                *)
(***************************************************************************)

\* The entitlement that pays, or else the credits (see TaskAdmission)
PaidServices(j) ==
  LET held == EntitlementBillings(Tier[j], Held[j])
  IN {b.service : b \in IF held # {} THEN held
                        ELSE CreditBillings(Tier[j], [s \in Services |-> 1])}

\* handleCreateTask up to the selection
Ask(j) ==
  /\ stage[j] = "new"
  /\ \E service \in PaidServices(j) : SelectProvider(j, service, "touch")

\* UPDATE of selection_count and last_selected_at on a second connection
Touch(j) ==
  /\ stage[j] = "touch"
  /\ ConnectionFree
  /\ GoTo(j, "insert")
  /\ UNCHANGED <<providerVars, removing, route, failed>>

\* The transaction of TaskAdmission: the request is refused, or the task queued
\* with the id of its provider
Insert(j) ==
  /\ stage[j] = "insert"
  /\ ConnectionFree
  /\ \/ End(j)
     \/ /\ j \notin Refused
        /\ GoTo(j, "queued")
        /\ route' = [route EXCEPT ![j].failures = 0, ![j].task = route[j].provider]
  /\ UNCHANGED <<providerVars, removing, failed>>

\* Mutant: the selection of a request does not end with its context.
TimeOutOutsideSelection(j) ==
  /\ stage[j] = "insert"
  /\ End(j)
  /\ UNCHANGED <<providerVars, removing, failed>>

\* The request's context ends: no more statements, whatever it was waiting for
TimeOut(j) ==
  /\ stage[j] \in {"touch", "insert"}
  /\ End(j)
  /\ UNCHANGED <<providerVars, removing, failed>>

----------------------------------------------------------------------------
(***************************************************************************)
(* Workers                                                                 *)
(***************************************************************************)

Claimed == {j \in Jobs : stage[j] \in WorkerStages}

\* claimNextQueuedTask, whose limits are in RuntimeSettings
Claim(j) ==
  /\ stage[j] = "queued"
  /\ Cardinality(Claimed) < Workers
  /\ ConnectionFree
  /\ GoTo(j, "load")
  /\ UNCHANGED <<providerVars, removing, route, failed>>

\* serviceProfileByID: the row as it is now, whatever its status and its bucket;
\* or a database error, which ends the task
Load(j) ==
  /\ stage[j] = "load"
  /\ ConnectionFree
  /\ \/ /\ GoTo(j, "call")
        /\ route' = [route EXCEPT ![j].failures = failures[route[j].provider]]
     \/ End(j)
  /\ UNCHANGED <<providerVars, removing, failed>>

\* callImageService: the image, or an error, which may be the user's
Call(j) ==
  LET p == route[j].provider IN
  /\ stage[j] = "call"
  /\ \/ /\ GoTo(j, "succeeded")
        /\ route' = [route EXCEPT ![j].tried = @ \cup {p}, ![j].failures = 0]
        /\ UNCHANGED failed
     \/ /\ GoTo(j, "failed")
        /\ route' = [route EXCEPT ![j].tried = @ \cup {p}]
        /\ failed' = [failed EXCEPT ![p] = @ + 1]
  /\ UNCHANGED <<providerVars, removing>>

\* recordServiceProfileSuccess, whose error is ignored; what the worker does with
\* the image then is in TaskLifecycle
RecordSuccess(j) ==
  LET p == route[j].provider IN
  /\ stage[j] = "succeeded"
  /\ ConnectionFree
  /\ End(j)
  /\ \/ /\ failures' = [failures EXCEPT ![p] = 0]
        /\ cooling' = [cooling EXCEPT ![p] = FALSE]
     \/ UNCHANGED <<failures, cooling>>
  /\ UNCHANGED <<provider, removing, failed>>

\* Mutant: the cooldown begins with the first failure.
CoolsDownAtOnce(count) == count >= CooldownFailures - 1

CoolsDown(count) == count >= CooldownFailures

\* recordServiceProfileFailure writes the count it read plus one, and with it the
\* end of the cooldown or NULL; its error is ignored. A retry may be left.
RecordFailure(j) ==
  LET p == route[j].provider
      count == route[j].failures + 1
  IN
  /\ stage[j] = "failed"
  /\ ConnectionFree
  /\ IF Cardinality(route[j].tried) <= FallbackRetries
     THEN GoTo(j, "again") /\ route' = [route EXCEPT ![j].failures = 0]
     ELSE End(j)
  /\ \/ /\ failures' = [failures EXCEPT ![p] = count]
        /\ cooling' = [cooling EXCEPT ![p] = CoolsDown(count)]
     \/ UNCHANGED <<failures, cooling>>
  /\ UNCHANGED <<provider, removing, failed>>

\* The fallback: another provider for the service that was billed
SelectAgain(j) ==
  /\ stage[j] = "again"
  /\ SelectProvider(j, route[j].service, "retouch")

\* Its UPDATE, for which a worker waits as long as it takes; its error is ignored
TouchAgain(j) ==
  /\ stage[j] = "retouch"
  /\ ConnectionFree
  /\ GoTo(j, "move")
  /\ UNCHANGED <<providerVars, removing, route, failed>>

\* The UPDATE of tasks.service_profile; its error is ignored too, and the call is
\* made to the new provider in any case
MoveTask(j) ==
  /\ stage[j] = "move"
  /\ ConnectionFree
  /\ GoTo(j, "call")
  /\ \/ route' = [route EXCEPT ![j].task = route[j].provider]
     \/ UNCHANGED route
  /\ UNCHANGED <<providerVars, removing, failed>>

----------------------------------------------------------------------------
(***************************************************************************)
(* Time and administrators                                                 *)
(***************************************************************************)

\* serviceProfileCooldown passes; failure_count stays
CooldownEnds(p) ==
  /\ cooling[p]
  /\ cooling' = [cooling EXCEPT ![p] = FALSE]
  /\ UNCHANGED <<provider, failures, removing, stage, route, failed>>

\* handleAdminUpsertServiceProfile: disabled_until becomes NULL, the counters
\* stay. (The key, the limit and the mode it has read before are not modelled.)
Upsert(e) ==
  /\ provider' = [provider EXCEPT ![e.provider] = e.row]
  /\ cooling' = [cooling EXCEPT ![e.provider] = FALSE]
  /\ UNCHANGED <<failures, removing, stage, route, failed>>

\* The tasks of a provider that handleAdminDeleteServiceProfile counts
TasksOf(p) ==
  {j \in Jobs : stage[j] \in WorkerStages \cup {"queued"} /\ route[j].task = p}

CountForDelete(p) ==
  /\ removing = NoProvider
  /\ TasksOf(p) = {}
  /\ removing' = p
  /\ UNCHANGED <<providerVars, stage, route, failed>>

\* UPDATE ... SET status = 'deleted', without another look; or its error
Delete ==
  /\ removing # NoProvider
  /\ removing' = NoProvider
  /\ \/ provider' = [provider EXCEPT ![removing].status = "deleted"]
     \/ UNCHANGED provider
  /\ UNCHANGED <<failures, cooling, stage, route, failed>>

----------------------------------------------------------------------------
RequestStep(j) == Ask(j) \/ Touch(j) \/ Insert(j) \/ TimeOut(j)

WorkerStep(j) ==
  \/ Claim(j) \/ Load(j) \/ Call(j) \/ RecordSuccess(j) \/ RecordFailure(j)
  \/ SelectAgain(j) \/ TouchAgain(j) \/ MoveTask(j)

Next ==
  \/ \E j \in Jobs : RequestStep(j) \/ WorkerStep(j)
  \/ \E p \in Providers : CooldownEnds(p)
  \/ \E p \in Deletions : CountForDelete(p)
  \/ \E e \in Edits : Upsert(e)
  \/ Delete

Spec == Init /\ [][Next]_vars

\* A request that is under way and a worker go on, the pool gives a connection to
\* someone who waits, calls return or time out. Nothing makes a request arrive,
\* an administrator act or a cooldown end.
Fairness ==
  \A j \in Jobs : /\ WF_vars(RequestStep(j) /\ stage[j] # "new")
                  /\ WF_vars(WorkerStep(j))

FairSpec == Spec /\ Fairness

----------------------------------------------------------------------------
(***************************************************************************)
(* Properties                                                              *)
(***************************************************************************)

\* Every variable keeps its type, and whoever calls has a provider.
TypeOK ==
  /\ provider \in [Providers -> [bucket : Buckets, priority : Nat \ {0},
                                 status : {"active", "disabled", "deleted"}]]
  /\ failures \in [Providers -> Nat]
  /\ cooling \in [Providers -> BOOLEAN]
  /\ removing \in Providers \cup {NoProvider}
  /\ stage \in [Jobs -> Stages]
  /\ route \in [Jobs -> Routes]
  /\ failed \in [Providers -> Nat]
  /\ \A j \in Jobs :
       stage[j] \in {"touch", "insert", "queued"} \cup WorkerStages
         => route[j].provider \in Providers

\* docs/deployment.md: whoever pays, the first selection and the fallback of a 2K
\* or 4K image only take HD providers, of the HD service; those of a 1K image take
\* one only when no other provider is usable and untried.
TierIsServed ==
  [][\A j \in Jobs :
       stage'[j] # stage[j] /\ stage'[j] \in {"touch", "retouch"} =>
         LET p == route'[j].provider IN
         /\ IsHigh(Tier[j]) => provider[p].bucket = "hd" /\ route'[j].service = HD
         /\ ~IsHigh(Tier[j]) /\ provider[p].bucket = "hd" =>
              \A q \in Providers \ route[j].tried :
                provider[q].bucket = "hd" \/ provider[q].status # "active" \/ cooling[q]
    ]_vars

\* However the stale counts that workers write back overlap, a provider is put on
\* cooldown only after two calls to it failed, and never counts more failures
\* than there were.
HealthIsEarned ==
  \A p \in Providers : /\ failures[p] <= failed[p]
                       /\ cooling[p] => failed[p] >= CooldownFailures

\* Whatever requests and fallbacks select at the same time, the pool is exhausted
\* only while a request is among those that hold one connection and wait for
\* another, and a request gives up: the workers, which do not, never get there
\* alone.
WorkersLeaveConnections == ConnectionFree \/ \E j \in Jobs : stage[j] = "touch"

\* Every request that selected a provider is answered and every task ends, though
\* selections hold one connection while they wait for another, and though its
\* provider may be disabled, moved, deleted or on cooldown by the time it is
\* called.
EveryJobEnds ==
  \A j \in Jobs : stage[j] # "new" ~> stage[j] = "over"
=============================================================================
