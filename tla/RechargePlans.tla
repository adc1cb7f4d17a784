---------------------------- MODULE RechargePlans ----------------------------
(***************************************************************************)
(* The plans a wallet can be recharged with (internal/httpapi/payments.go):*)
(* administrators edit them, each edit in a transaction that first takes   *)
(* is_default from every other plan when it makes its own the default one. *)
(* The other columns are what the edit says, and no other plan's row       *)
(* depends on them: they are left out.                                     *)
(*                                                                         *)
(* An UPDATE sees the rows that were committed when it began, locks them   *)
(* one after the other, and waits for a row that another transaction       *)
(* holds. An edit may insert a plan that another edit's UPDATE did not     *)
(* see. What an edit writes shows when it commits; the database aborts one *)
(* transaction of every cycle of waits (external).                         *)
(***************************************************************************)
EXTENDS Integers, FiniteSets

CONSTANTS
  Plans,      \* ids of plans that exist or may be created
  Migrated,   \* the plans that exist from the start
  Edits,      \* PUT requests of administrators
  Bodies,     \* what an edit may ask for
  NoEdit

ASSUME PlanAssumption == Migrated \subseteq Plans /\ NoEdit \notin Edits
ASSUME BodyAssumption == Bodies \subseteq [plan : Plans, isDefault : BOOLEAN]

VARIABLES
  isDefault,  \* credit_topup_plans.is_default of the committed rows, by id
  edit,       \* where each edit is
  body,       \* what it asks for
  todo,       \* rows its UPDATE has seen and not locked yet
  holder      \* the edit that holds each plan's row

plansVars == <<isDefault, edit, body, todo, holder>>

\* One plan is the default one at first (0010_credit_pricing_and_topup.sql)
PlansInit ==
  /\ \E first \in Migrated : isDefault = [p \in Migrated |-> p = first]
  /\ edit = [e \in Edits |-> "new"]
  /\ body \in [Edits -> Bodies]
  /\ todo = [e \in Edits |-> {}]
  /\ holder = [p \in Plans |-> NoEdit]

----------------------------------------------------------------------------
(***************************************************************************)
(* handleAdminUpsertTopupPlan                                              *)
(***************************************************************************)

\* COMMIT or ROLLBACK
Release(e) ==
  /\ edit' = [edit EXCEPT ![e] = "over"]
  /\ todo' = [todo EXCEPT ![e] = {}]
  /\ holder' = [p \in Plans |-> IF holder[p] = e THEN NoEdit ELSE holder[p]]
  /\ UNCHANGED body

\* BEGIN; the UPDATE starts if the plan is to be the default one
BeginEdit(e) ==
  /\ edit[e] = "new"
  /\ IF body[e].isDefault
     THEN /\ edit' = [edit EXCEPT ![e] = "clear"]
          /\ todo' = [todo EXCEPT ![e] = DOMAIN isDefault \ {body[e].plan}]
     ELSE edit' = [edit EXCEPT ![e] = "upsert"] /\ UNCHANGED todo
  /\ UNCHANGED <<isDefault, body, holder>>

\* Mutant: the rows are not locked, as if is_default were taken in memory.
ClearRowUnlocked(e) ==
  /\ edit[e] = "clear"
  /\ \E p \in todo[e] : todo' = [todo EXCEPT ![e] = @ \ {p}]
  /\ UNCHANGED <<isDefault, edit, body, holder>>

\* UPDATE ... SET is_default = false WHERE id <> $1 reaches one more row
ClearRow(e) ==
  /\ edit[e] = "clear"
  /\ \E p \in todo[e] :
       /\ holder[p] \in {NoEdit, e}
       /\ holder' = [holder EXCEPT ![p] = e]
       /\ todo' = [todo EXCEPT ![e] = @ \ {p}]
  /\ UNCHANGED <<isDefault, edit, body>>

EndClear(e) ==
  /\ edit[e] = "clear"
  /\ todo[e] = {}
  /\ edit' = [edit EXCEPT ![e] = "upsert"]
  /\ UNCHANGED <<isDefault, body, todo, holder>>

\* INSERT ... ON CONFLICT (id) DO UPDATE
Upsert(e) ==
  /\ edit[e] = "upsert"
  /\ holder[body[e].plan] \in {NoEdit, e}
  /\ holder' = [holder EXCEPT ![body[e].plan] = e]
  /\ edit' = [edit EXCEPT ![e] = "commit"]
  /\ UNCHANGED <<isDefault, body, todo>>

\* The rows as the edit leaves them: the rows it holds are those its UPDATE has
\* reached and its own
CommitEdit(e) ==
  /\ edit[e] = "commit"
  /\ isDefault' = [p \in DOMAIN isDefault \cup {body[e].plan} |->
       IF p = body[e].plan THEN body[e].isDefault
                           ELSE isDefault[p] /\ holder[p] # e]
  /\ Release(e)

\* The edit that keeps e from its next row
WaitsFor(e) ==
  LET needed == CASE edit[e] = "clear" -> todo[e]
                  [] edit[e] = "upsert" -> {body[e].plan}
                  [] OTHER -> {}
  IN {holder[p] : p \in needed} \ {NoEdit, e}

\* The edits on a cycle of waits
Deadlocked ==
  LET Cyclic(S) == \A e \in S : /\ WaitsFor(e) \cap S # {}
                                /\ \E f \in S : e \in WaitsFor(f)
  IN UNION {S \in SUBSET Edits : Cyclic(S)}

\* Mutant: an edit that fails answers without rolling back.
FailWithoutRollback(e) ==
  /\ edit[e] \in {"clear", "upsert", "commit"}
  /\ edit' = [edit EXCEPT ![e] = "over"]
  /\ UNCHANGED <<isDefault, body, todo, holder>>

\* A statement fails, the request times out, the process crashes, or the
\* database ends a deadlock: the transaction is rolled back
FailEdit(e) ==
  /\ edit[e] \in {"clear", "upsert", "commit"}
  /\ Release(e)
  /\ UNCHANGED isDefault

----------------------------------------------------------------------------
EditStep(e) ==
  BeginEdit(e) \/ ClearRow(e) \/ EndClear(e) \/ Upsert(e) \/ CommitEdit(e)

PlansNext == \E e \in Edits : EditStep(e) \/ FailEdit(e)

PlansSpec == PlansInit /\ [][PlansNext]_plansVars

\* External: the database grants a lock that is free and ends a deadlock. A
\* handler goes on. Nobody has to begin an edit.
PlansFairness ==
  /\ \A e \in Edits : WF_plansVars(EditStep(e) /\ edit[e] # "new")
  /\ WF_plansVars(\E e \in Deadlocked : FailEdit(e))

----------------------------------------------------------------------------
(***************************************************************************)
(* Properties                                                              *)
(***************************************************************************)

\* Every variable keeps its type.
PlansTypeOK ==
  /\ DOMAIN isDefault \subseteq Plans
  /\ \A p \in DOMAIN isDefault : isDefault[p] \in BOOLEAN
  /\ edit \in [Edits -> {"new", "clear", "upsert", "commit", "over"}]
  /\ body \in [Edits -> Bodies]
  /\ todo \in [Edits -> SUBSET Plans]
  /\ holder \in [Plans -> Edits \cup {NoEdit}]

\* However edits of the default plan interleave, deadlock and fail, at most one
\* of the plans that existed before them is the default one. (A plan that one
\* edit inserts is not seen by the UPDATE of another and may be a second one.)
OneDefault ==
  Cardinality({p \in Migrated : isDefault[p]}) <= 1

\* Edits that lock rows in different orders may wait for each other, but every
\* edit that was begun ends, without any timeout.
EveryEditEnds == \A e \in Edits : edit[e] \notin {"new", "over"} ~> edit[e] = "over"
=============================================================================
