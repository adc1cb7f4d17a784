--------------------------- MODULE TaskLifecycle ---------------------------
(***************************************************************************)
(* The life of an image-generation task (internal/httpapi/tasks.go): a     *)
(* request debits one balance row and inserts a queued task; a worker of   *)
(* some process claims it, calls the image service, falls back to another  *)
(* provider once, stores the output and marks the task done, or marks it   *)
(* error and gives the debit back; a process that starts recovers tasks    *)
(* that an earlier process left running.                                   *)
(*                                                                         *)
(* Everything in the database is shared by all processes; a worker keeps   *)
(* the row it scanned when it claimed the task and never reads it again.   *)
(* A step below is one database transaction, or one statement outside a    *)
(* transaction, or one outcome of an external call.                        *)
(***************************************************************************)
EXTENDS Integers, FiniteSets

CONSTANTS
  Tasks,          \* tasks, numbered in the order of created_at
  Accounts,       \* balance rows: a wallet_entitlements row or wallets.credits
  Profiles,       \* rows of service_profiles
  Instances,      \* runs of the program, one per process start
  Slots,          \* worker goroutines of one process (TASK_WORKER_CONCURRENCY)
  Cost,           \* units one task debits from an account
  Grant,          \* what each account holds before the first task
  GlobalLimit,    \* ImageGlobalConcurrency
  ProfileCap,     \* service_profiles.max_concurrent, or the default
  Overlap,        \* may a process start while another one still runs?
  LostWrites,     \* may a statement whose error the code ignores fail?
  NoTask,
  NoProfile

ASSUME TasksAssumption ==
  /\ Tasks \subseteq Nat
  /\ IsFiniteSet(Tasks)
ASSUME RowsAssumption == Accounts # {} /\ Profiles # {}
ASSUME CostAssumption ==
  /\ Cost \in [Accounts -> Nat \ {0}]
  /\ Grant \in [Accounts -> Nat]
ASSUME LimitAssumption ==
  /\ GlobalLimit \in Nat \ {0}
  /\ ProfileCap \in [Profiles -> Nat \ {0}]
ASSUME SwitchAssumption == Overlap \in BOOLEAN /\ LostWrites \in BOOLEAN
ASSUME NullAssumption == NoTask \notin Tasks /\ NoProfile \notin Profiles

VARIABLES
  instance,  \* instance[i]: has process i been started, has it stopped?
  status,    \* tasks.status, "none" before the row exists
  account,   \* the balance row the task was billed to
  profile,   \* tasks.service_profile
  reserved,  \* tasks.credit_reserved
  charged,   \* tasks.credit_charged
  stale,     \* is tasks.updated_at older than the recovery cutoff?
  balance,   \* wallet_entitlements.remaining or wallets.credits
  pc,        \* where each worker goroutine is
  held,      \* what each worker goroutine keeps of its task
  refunds    \* history: how often the task's debit was given back

rowVars == <<status, account, profile, reserved, charged, stale>>
vars == <<instance, rowVars, balance, pc, held, refunds>>

Workers == Instances \X Slots

Statuses == {"none", "queued", "running", "done", "error"}

\* serviceProfileFallbackRetries: providers tried after the first one failed
FallbackRetries == 1

\* "off": no goroutine; "poll": between tasks; then the statements and calls of
\* executeTask and failTaskAndRefund, in order
Stages == {"off", "poll", "load", "call", "store", "finish",
           "fail", "refund", "release"}

Busy(w) == pc[w] \notin {"off", "poll"}

\* The taskRow a worker scanned when it claimed, and the providers it has used
Copies == [task : Tasks \cup {NoTask}, reserved : BOOLEAN, charged : BOOLEAN,
           tried : SUBSET Profiles, profile : Profiles \cup {NoProfile}]

NoCopy == [task |-> NoTask, reserved |-> FALSE, charged |-> FALSE,
           tried |-> {}, profile |-> NoProfile]

Running == {t \in Tasks : status[t] = "running"}
RunningOn(p) == {t \in Running : profile[t] = p}
Queued == {t \in Tasks : status[t] = "queued"}

Init ==
  /\ instance = [i \in Instances |-> "new"]
  /\ status = [t \in Tasks |-> "none"]
  \* the columns of a row that does not exist yet mean nothing
  /\ account = [t \in Tasks |-> CHOOSE a \in Accounts : TRUE]
  /\ profile = [t \in Tasks |-> CHOOSE p \in Profiles : TRUE]
  /\ reserved = [t \in Tasks |-> FALSE]
  /\ charged = [t \in Tasks |-> FALSE]
  /\ stale = [t \in Tasks |-> FALSE]
  /\ balance = Grant
  /\ pc = [w \in Workers |-> "off"]
  /\ held = [w \in Workers |-> NoCopy]
  /\ refunds = [t \in Tasks |-> 0]
----------------------------------------------------------------------------
(***************************************************************************)
(* Requests                                                                *)
(***************************************************************************)

\* Mutant: the balance is not checked under the row lock.
CreateTaskUnchecked(t, a, p) ==
  /\ \E i \in Instances : instance[i] = "up"
  /\ status[t] = "none"
  /\ \A u \in Tasks : u < t => status[u] # "none"
  /\ balance' = [balance EXCEPT ![a] = @ - Cost[a]]
  /\ status' = [status EXCEPT ![t] = "queued"]
  /\ account' = [account EXCEPT ![t] = a]
  /\ profile' = [profile EXCEPT ![t] = p]
  /\ reserved' = [reserved EXCEPT ![t] = TRUE]
  /\ charged' = [charged EXCEPT ![t] = FALSE]
  /\ UNCHANGED <<instance, stale, pc, held, refunds>>

\* handleCreateTask, from the debit to the commit: the row of account a is
\* locked and holds enough, it is debited and the task is inserted with the
\* provider p selected before. The count of active tasks that may refuse the
\* request is the subject of TaskAdmission and is left out: it only removes
\* behaviours of this module.
CreateTask(t, a, p) ==
  /\ \E i \in Instances : instance[i] = "up"
  /\ status[t] = "none"
  /\ \A u \in Tasks : u < t => status[u] # "none"
  /\ balance[a] >= Cost[a]
  /\ balance' = [balance EXCEPT ![a] = @ - Cost[a]]
  /\ status' = [status EXCEPT ![t] = "queued"]
  /\ account' = [account EXCEPT ![t] = a]
  /\ profile' = [profile EXCEPT ![t] = p]
  /\ reserved' = [reserved EXCEPT ![t] = TRUE]
  /\ charged' = [charged EXCEPT ![t] = FALSE]
  /\ UNCHANGED <<instance, stale, pc, held, refunds>>

\* Time passes the recovery cutoff since the row's last write. A live worker
\* does not prevent it: PutBytes has no timeout and the upstream timeout, which
\* the cutoff is computed from, may be lowered while a call runs.
Age(t) ==
  /\ status[t] = "running"
  /\ ~stale[t]
  /\ stale' = [stale EXCEPT ![t] = TRUE]
  /\ UNCHANGED <<instance, status, account, profile, reserved, charged,
                 balance, pc, held, refunds>>

----------------------------------------------------------------------------
(***************************************************************************)
(* Workers: processNextQueuedTask and executeTask                          *)
(***************************************************************************)

\* Mutant: the global limit is compared with <=.
ClaimableOffByOne ==
  IF Cardinality(Running) <= GlobalLimit
  THEN {t \in Queued : Cardinality(RunningOn(profile[t])) < ProfileCap[profile[t]]}
  ELSE {}

\* globalTaskSlotAvailable, and the WHERE clause of the claiming SELECT
Claimable ==
  IF Cardinality(Running) < GlobalLimit
  THEN {t \in Queued : Cardinality(RunningOn(profile[t])) < ProfileCap[profile[t]]}
  ELSE {}

\* claimNextQueuedTask: one transaction under the claim advisory lock
Claim(w, t) ==
  /\ pc[w] = "poll"
  /\ t \in Claimable
  /\ \A u \in Claimable : t <= u
  /\ status' = [status EXCEPT ![t] = "running"]
  /\ stale' = [stale EXCEPT ![t] = FALSE]
  /\ held' = [held EXCEPT ![w] = [task |-> t, reserved |-> reserved[t],
                charged |-> charged[t], tried |-> {}, profile |-> profile[t]]]
  /\ pc' = [pc EXCEPT ![w] = "load"]
  /\ UNCHANGED <<instance, account, profile, reserved, charged, balance, refunds>>

\* Decoding request_json and looking the provider up succeed, or one fails
Load(w) ==
  /\ pc[w] = "load"
  /\ \E next \in {"call", "fail"} : pc' = [pc EXCEPT ![w] = next]
  /\ UNCHANGED <<instance, rowVars, balance, held, refunds>>

\* callImageService returns images
CallSucceeds(w) ==
  /\ pc[w] = "call"
  /\ pc' = [pc EXCEPT ![w] = "store"]
  /\ UNCHANGED <<instance, rowVars, balance, held, refunds>>

\* Mutant: only the last provider is excluded from the next selection.
TriedLastOnly(w) == {held[w].profile}

Tried(w) == held[w].tried \cup {held[w].profile}

\* callImageService fails and a retry is left: another provider is selected and
\* written to the task, whatever the task's status and that provider's load
CallFallsBack(w, p) ==
  LET t == held[w].task IN
  /\ pc[w] = "call"
  /\ Cardinality(Tried(w)) <= FallbackRetries
  /\ p \notin Tried(w)
  /\ held' = [held EXCEPT ![w].tried = Tried(w), ![w].profile = p]
  /\ \/ /\ profile' = [profile EXCEPT ![t] = p]
        /\ stale' = [stale EXCEPT ![t] = FALSE]
     \/ /\ LostWrites
        /\ UNCHANGED <<profile, stale>>
  /\ UNCHANGED <<instance, status, account, reserved, charged, balance, pc,
                 refunds>>

\* callImageService fails after the last retry, or no other provider is usable
CallGivesUp(w) ==
  /\ pc[w] = "call"
  /\ held' = [held EXCEPT ![w].tried = Tried(w)]
  /\ pc' = [pc EXCEPT ![w] = "fail"]
  /\ UNCHANGED <<instance, rowVars, balance, refunds>>

\* PutBytes of every output succeeds, or one fails
Store(w) ==
  /\ pc[w] = "store"
  /\ \E next \in {"finish", "fail"} : pc' = [pc EXCEPT ![w] = next]
  /\ UNCHANGED <<instance, rowVars, balance, held, refunds>>

\* The worker drops its task and returns to taskWorkerLoop
Drop(w) ==
  /\ pc' = [pc EXCEPT ![w] = "poll"]
  /\ held' = [held EXCEPT ![w] = NoCopy]

\* The UPDATE that marks the task done names the id only
Finish(w) ==
  LET t == held[w].task IN
  /\ pc[w] = "finish"
  /\ \/ /\ status' = [status EXCEPT ![t] = "done"]
        /\ charged' = [charged EXCEPT ![t] = TRUE]
        /\ stale' = [stale EXCEPT ![t] = FALSE]
     \/ /\ LostWrites
        /\ UNCHANGED <<status, charged, stale>>
  /\ Drop(w)
  /\ UNCHANGED <<instance, account, profile, reserved, balance, refunds>>

----------------------------------------------------------------------------
(***************************************************************************)
(* failTaskAndRefund: three statements, no transaction, errors ignored     *)
(***************************************************************************)

\* Mutant: the task is not marked error before it is refunded.
FailMarkOmitted(w) ==
  /\ pc[w] = "fail"
  /\ pc' = [pc EXCEPT ![w] = "refund"]
  /\ UNCHANGED <<instance, rowVars, balance, held, refunds>>

FailMark(w) ==
  LET t == held[w].task
      owes == held[w].reserved /\ ~held[w].charged
  IN
  /\ pc[w] = "fail"
  /\ \/ /\ status[t] = "running"
        /\ status' = [status EXCEPT ![t] = "error"]
        /\ stale' = [stale EXCEPT ![t] = FALSE]
     \/ /\ status[t] # "running" \/ LostWrites
        /\ UNCHANGED <<status, stale>>
  /\ IF owes THEN pc' = [pc EXCEPT ![w] = "refund"] /\ held' = held
             ELSE Drop(w)
  /\ UNCHANGED <<instance, account, profile, reserved, charged, balance, refunds>>

\* Mutant: one unit is given back whatever the task cost.
FailRefundsOneUnit(w) ==
  /\ pc[w] = "refund"
  /\ balance' = [balance EXCEPT ![account[held[w].task]] = @ + 1]
  /\ refunds' = [refunds EXCEPT ![held[w].task] = @ + 1]
  /\ pc' = [pc EXCEPT ![w] = "release"]
  /\ UNCHANGED <<instance, rowVars, held>>

FailRefund(w) ==
  LET t == held[w].task
      a == account[t]
  IN
  /\ pc[w] = "refund"
  /\ \/ /\ balance' = [balance EXCEPT ![a] = @ + Cost[a]]
        /\ refunds' = [refunds EXCEPT ![t] = @ + 1]
     \/ /\ LostWrites
        /\ UNCHANGED <<balance, refunds>>
  /\ pc' = [pc EXCEPT ![w] = "release"]
  /\ UNCHANGED <<instance, rowVars, held>>

\* Mutant: executeTask does not return after failTaskAndRefund.
FailReleaseFallsThrough(w) ==
  LET t == held[w].task IN
  /\ pc[w] = "release"
  /\ reserved' = [reserved EXCEPT ![t] = FALSE]
  /\ stale' = [stale EXCEPT ![t] = FALSE]
  /\ pc' = [pc EXCEPT ![w] = "finish"]
  /\ UNCHANGED <<instance, status, account, profile, charged, balance, held, refunds>>

FailRelease(w) ==
  LET t == held[w].task IN
  /\ pc[w] = "release"
  /\ \/ /\ reserved' = [reserved EXCEPT ![t] = FALSE]
        /\ stale' = [stale EXCEPT ![t] = FALSE]
     \/ /\ LostWrites
        /\ UNCHANGED <<reserved, stale>>
  /\ Drop(w)
  /\ UNCHANGED <<instance, status, account, profile, charged, balance, refunds>>

----------------------------------------------------------------------------
(***************************************************************************)
(* Processes                                                               *)
(***************************************************************************)

\* The rows recoverStaleWalletRunningTasks updates
Abandoned == {t \in Running : reserved[t] /\ ~charged[t] /\ stale[t]}

\* Mutant: an abandoned task is refunded and also put back in the queue.
RecoverRequeues ==
  /\ status' = [t \in Tasks |-> IF t \in Abandoned THEN "queued" ELSE status[t]]
  /\ reserved' = [t \in Tasks |-> reserved[t] /\ t \notin Abandoned]
  /\ stale' = [t \in Tasks |-> stale[t] /\ t \notin Abandoned]
  /\ balance' = [a \in Accounts |->
       balance[a] + Cost[a] * Cardinality({t \in Abandoned : account[t] = a})]
  /\ refunds' = [t \in Tasks |-> IF t \in Abandoned THEN refunds[t] + 1
                                                    ELSE refunds[t]]

\* recoverStaleWalletRunningTasks: marks and refunds in one transaction
Recover ==
  /\ status' = [t \in Tasks |-> IF t \in Abandoned THEN "error" ELSE status[t]]
  /\ reserved' = [t \in Tasks |-> reserved[t] /\ t \notin Abandoned]
  /\ stale' = [t \in Tasks |-> stale[t] /\ t \notin Abandoned]
  /\ balance' = [a \in Accounts |->
       balance[a] + Cost[a] * Cardinality({t \in Abandoned : account[t] = a})]
  /\ refunds' = [t \in Tasks |-> IF t \in Abandoned THEN refunds[t] + 1
                                                    ELSE refunds[t]]

\* App.Run and StartTaskWorkers: recovery once, then the worker goroutines. A
\* recovery that fails is rolled back and logged, and the workers start anyway.
Start(i) ==
  /\ instance[i] = "new"
  /\ Overlap \/ \A j \in Instances : instance[j] # "up"
  /\ instance' = [instance EXCEPT ![i] = "up"]
  /\ pc' = [w \in Workers |-> IF w[1] = i THEN "poll" ELSE pc[w]]
  /\ \/ Recover
     \/ LostWrites /\ UNCHANGED <<status, reserved, stale, balance, refunds>>
  /\ UNCHANGED <<account, profile, charged, held>>

\* The process crashes, or its context is cancelled: App.Run does not wait for
\* the workers, and every statement a worker still issues fails with the context
Stop(i) ==
  /\ instance[i] = "up"
  /\ instance' = [instance EXCEPT ![i] = "down"]
  /\ pc' = [w \in Workers |-> IF w[1] = i THEN "off" ELSE pc[w]]
  /\ held' = [w \in Workers |-> IF w[1] = i THEN NoCopy ELSE held[w]]
  /\ UNCHANGED <<rowVars, balance, refunds>>

----------------------------------------------------------------------------
WorkerStep(w) ==
  \/ \E t \in Tasks : Claim(w, t)
  \/ Load(w)
  \/ CallSucceeds(w)
  \/ \E p \in Profiles : CallFallsBack(w, p)
  \/ CallGivesUp(w)
  \/ Store(w)
  \/ Finish(w)
  \/ FailMark(w)
  \/ FailRefund(w)
  \/ FailRelease(w)

Next ==
  \/ \E t \in Tasks, a \in Accounts, p \in Profiles : CreateTask(t, a, p)
  \/ \E t \in Tasks : Age(t)
  \/ \E w \in Workers : WorkerStep(w)
  \/ \E i \in Instances : Start(i) \/ Stop(i)

Spec == Init /\ [][Next]_vars

\* docs/deployment.md: restart: unless-stopped
Restart ==
  /\ \A j \in Instances : instance[j] # "up"
  /\ \E i \in Instances : Start(i)

\* A goroutine that can go on does (the runtime schedules it, every call it
\* makes returns or times out), time passes, and a process is started when none
\* runs. Nothing makes a request arrive or a process stop.
Fairness ==
  /\ \A w \in Workers : WF_vars(WorkerStep(w))
  /\ \A t \in Tasks : WF_vars(Age(t))
  /\ WF_vars(Restart)

FairSpec == Spec /\ Fairness

----------------------------------------------------------------------------
(***************************************************************************)
(* Properties                                                              *)
(***************************************************************************)

\* Every variable keeps its type, and a worker that executes a task has one.
TypeOK ==
  /\ instance \in [Instances -> {"new", "up", "down"}]
  /\ status \in [Tasks -> Statuses]
  /\ account \in [Tasks -> Accounts]
  /\ profile \in [Tasks -> Profiles]
  /\ reserved \in [Tasks -> BOOLEAN]
  /\ charged \in [Tasks -> BOOLEAN]
  /\ stale \in [Tasks -> BOOLEAN]
  /\ balance \in [Accounts -> Nat]
  /\ pc \in [Workers -> Stages]
  /\ held \in [Workers -> Copies]
  /\ refunds \in [Tasks -> Nat]
  /\ \A w \in Workers :
       Busy(w) => held[w].task \in Tasks /\ held[w].profile \in Profiles

\* Two workers, of one process or of two, never execute the same task: the
\* claim (advisory lock, SKIP LOCKED, WHERE status = 'queued') hands a task out
\* once, and nothing ever puts a task back in the queue.
ExclusiveExecution ==
  \A v, w \in Workers :
    Busy(v) /\ Busy(w) /\ held[v].task = held[w].task => v = w

\* However the claims of several processes interleave and whatever crashes
\* leave behind, no more tasks are running than the global limit.
GlobalConcurrency == Cardinality(Running) <= GlobalLimit

\* A task that is done was charged and keeps its reservation: its debit was
\* never given back. (Marking done after a refund would make the image free.)
DoneIsPaid ==
  \A t \in Tasks : status[t] = "done" => /\ charged[t]
                                         /\ reserved[t]
                                         /\ refunds[t] = 0

\* The debit of one task is given back at most once, whatever the interleaving
\* of failTaskAndRefund, crashes and the recovery of a later process.
RefundedOnce == \A t \in Tasks : refunds[t] <= 1

\* done and error are final: no later write of a worker or of a recovery moves
\* a task out of them.
OutcomeIsFinal ==
  [][\A t \in Tasks : status[t] \in {"done", "error"} => status'[t] = status[t]]_vars

\* What the accounts hold and what has been delivered, or may still be, never
\* exceeds what was granted: every queued, running or done task is covered by
\* one debit that nobody gave back.
NoFreeImages ==
  \A a \in Accounts :
    LET covered == {t \in Tasks : account[t] = a
                                  /\ status[t] \in {"queued", "running", "done"}}
    IN balance[a] + Cost[a] * Cardinality(covered) <= Grant[a]

\* Provider concurrency: the running tasks of a provider stay within its cap.
ProviderConcurrency ==
  \A p \in Profiles : Cardinality(RunningOn(p)) <= ProfileCap[p]

\* If some process is eventually up for good, every task that was created is
\* eventually done, or in error with its debit returned: no request hangs and
\* keeps its credit and its slot for ever.
EveryTaskSettles ==
  <>[](\E i \in Instances : instance[i] = "up") =>
    \A t \in Tasks :
      status[t] = "queued" ~> \/ status[t] = "done"
                              \/ status[t] = "error" /\ refunds[t] > 0

\* And where no process stops, the workers settle every task by themselves: no
\* recovery is needed, whatever fails in the calls they make.
UninterruptedTasksSettle ==
  [](\A i \in Instances : instance[i] # "down") =>
    \A t \in Tasks :
      status[t] = "queued" ~> \/ status[t] = "done"
                              \/ status[t] = "error" /\ refunds[t] > 0

----------------------------------------------------------------------------
(***************************************************************************)
(* The ledger this module implements                                       *)
(***************************************************************************)

PhaseOf(t) ==
  IF refunds[t] > 0 THEN "returned"
  ELSE IF status[t] = "none" THEN "open"
  ELSE IF status[t] = "done" THEN "spent"
  ELSE "held"

Ledger == INSTANCE CreditLedger WITH phase <- [t \in Tasks |-> PhaseOf(t)]

\* Every step of requests, workers and recoveries reserves, spends or returns
\* the cost of tasks as the ledger allows, or leaves the ledger alone.
ImplementsLedger == Ledger!LedgerSpec
=============================================================================
