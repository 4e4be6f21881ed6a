------------------------------- MODULE People --------------------------------
(***************************************************************************)
(* The people of a council: consultant firms and their logins, agents and  *)
(* portfolios (apps/accounts/api/views.py), payers, their logins and their *)
(* delegations (apps/registry), and the payers of a firm billed for its    *)
(* registration.  Requests overlap as in module Requests; a reset of the   *)
(* council's data (reset_council_data) is one more request.                *)
(*                                                                         *)
(* A row is named by its table and an id; the rows a request creates bear  *)
(* its number.  What bills cost and how they are paid is module BillLedger.*)
(***************************************************************************)
EXTENDS Requests, FiniteSets

CONSTANTS
  Id,        \* ids of rows, 1..N those of the requests
  MaxTries,  \* attempts at a free agent code
  Workloads  \* pairs of the rows there are at first and the jobs of the requests

None == 0
User(i) == <<"user", i>>
Firm(i) == <<"firm", i>>
Agent(i) == <<"agent", i>>
Grant(i) == <<"grant", i>>         \* ConsultantPortfolio
Narrowing(i) == <<"narrowing", i>> \* AgentPortfolio
Payer(i) == <<"payer", i>>
Bill(i) == <<"bill", i>>
Payment(i) == <<"payment", i>>
Delegation(i) == <<"delegation", i>>

Table == {"user", "firm", "agent", "grant", "narrowing", "payer", "bill", "payment", "delegation"}
Row == Table \X Id
IdOrNone == Id \cup {None}

FirmKinds == {"ONBOARD", "STATUS", "DATES", "OFFICER", "STAKEHOLDER", "AGENT", "AGENTSTATUS", "GRANT", "ENDGRANT",
              "NARROW", "ENDNARROW"}
PayerKinds == {"ENROL", "REPLAY", "KYC", "DESTROY", "ASSIGN", "INVITE", "DELEGATE", "REVOKE", "BILL", "PAY", "REVERSE"}
Kinds == FirmKinds \cup PayerKinds \cup {"DEACTIVATE", "RESET"}

UserRow == [name : Nat \X Nat, email : Nat \X Nat, role : {"COUNCIL_ADMIN", "CONSULTANT", "REVENUE_OFFICER", "AGENT", "GLOBAL_VIEW", "RATEPAYER", "RATEPAYER_PROXY"},
            firm : IdOrNone, active : BOOLEAN]
FirmRow == [ref : Nat, status : {"PENDING", "ACTIVE", "SUSPENDED"}, payer : IdOrNone, start : Nat, end : Nat]
AgentRow == [user : Id, code : Nat, ward : Nat, status : {"ACTIVE", "SUSPENDED"}] \* ward 0: none
GrantRow == [whom : Id, item : Nat, ward : Nat, open : BOOLEAN] \* ward 0: all wards
PayerRow == [phone : Nat, ward : Nat, kyc : {"PENDING", "VERIFIED"}, by : Id, to : IdOrNone, login : IdOrNone]
BillRow == [payer : Id, status : {"ISSUED", "PAID", "OVERDUE"}]
PaymentRow == [bill : Id, by : Id]
DelegationRow == [payer : Id, proxy : Id, open : BOOLEAN]

RowType(x) ==
  CASE x[1] = "user"  -> UserRow
    [] x[1] = "firm"  -> FirmRow
    [] x[1] = "agent" -> AgentRow
    [] x[1] = "payer" -> PayerRow
    [] x[1] = "bill"  -> BillRow
    [] x[1] = "payment" -> PaymentRow
    [] x[1] = "delegation" -> DelegationRow
    [] OTHER -> GrantRow

\* What a request asks for, of which row.
Asked == [kind : Kinds, on : Row, ref : Nat, login : BOOLEAN, billable : BOOLEAN, email : Nat \X Nat, by : Id,
          firm : IdOrNone, status : {"PENDING", "ACTIVE", "SUSPENDED"}, start : Nat, end : Nat, item : Nat, ward : Nat,
          phone : Nat, force : BOOLEAN, agent : Id, proxy : Id]

\* The table of that row.
Target ==
  [STATUS |-> "firm", DATES |-> "firm", OFFICER |-> "firm", AGENT |-> "firm", GRANT |-> "firm",
   AGENTSTATUS |-> "agent", NARROW |-> "agent", ENDGRANT |-> "grant", ENDNARROW |-> "narrowing",
   KYC |-> "payer", DESTROY |-> "payer", ASSIGN |-> "payer", INVITE |-> "payer", DELEGATE |-> "payer", BILL |-> "payer",
   PAY |-> "bill", REVERSE |-> "bill", REVOKE |-> "delegation", DEACTIVATE |-> "user"]

\* The contract does not end before it starts; 0 is no date.
Dated(y) == y.start # 0 /\ y.end # 0 => y.start <= y.end

ASSUME PeopleConstants ==
  /\ N \in Nat /\ MaxTries \in Nat \ {0}
  /\ Id \subseteq Nat /\ None \notin Id /\ 1..N \subseteq Id /\ IsFiniteSet(Id)
  /\ \A w \in Workloads :
       /\ DOMAIN w[1] \subseteq Row
       /\ \A x \in DOMAIN w[1] : x[2] \notin 1..N /\ w[1][x] \in RowType(x)
       /\ w[2] \in [1..N -> Asked]
       /\ \A r \in 1..N : /\ w[2][r].kind \in DOMAIN Target => w[2][r].on[1] = Target[w[2][r].kind]
                          /\ w[2][r].kind = "REPLAY" => w[2][r].firm = None
                          /\ w[2][r].kind = "AGENTSTATUS" => w[2][r].status # "PENDING"

ASSUME AbsentIsNoRow == \A x \in Row : Absent \notin RowType(x)

VARIABLES
  job,   \* Request -> what it asks for, fixed
  note   \* Request -> what it has read and uses later

vars == <<job, at, note, row, shown, holder>>

Steps == {"load", "insert", "name", "login", "agent", "payer", "bill", "save", "select", "delete", "commit"} \cup Ended
Note == [suffix : Nat, code : Nat, tries : Nat, start : Nat, end : Nat, by : IdOrNone,
         stage : 0..5, doomed : SUBSET Row]

TypeOK ==
  /\ job \in {w[2] : w \in Workloads} /\ at \in [Request -> Steps] /\ note \in [Request -> Note]
  /\ \A x \in Row : row[x] = Absent \/ row[x] \in RowType(x)
  /\ \A x \in Row : shown[x] = Absent \/ shown[x] \in RowType(x)
  /\ holder \in [Row -> 0..N]

-----------------------------------------------------------------------------
(* Queries and constraints. *)

Is(r, kinds) == job[r].kind \in kinds
On(r) == job[r].on
It(r) == Sees(r, On(r))
Rows(r, table) == {x \in {table} \X Id : There(r, x)}

\* uniq_open_consultant_portfolio_item_ward, uniq_open_agent_portfolio_item_ward
SameGrant(x, y) == x.open /\ y.open /\ x.whom = y.whom /\ x.item = y.item /\ x.ward = y.ward

\* Defect: a proxy may have any number of open delegations.
NoIndex(x, y) == FALSE

\* uniq_active_delegation_per_proxy
SameDelegation(x, y) == x.open /\ y.open /\ x.payer = y.payer /\ x.proxy = y.proxy

\* The unique constraints: rows x and y of one table cannot both be there.
Clash(table, x, y) ==
  CASE table = "user"  -> x.name = y.name \/ x.email = y.email
    [] table = "firm"  -> x.ref = y.ref
    [] table = "agent" -> x.code = y.code
    [] table = "delegation" -> SameDelegation(x, y)
    [] table \in {"grant", "narrowing"} -> SameGrant(x, y)
    [] OTHER -> FALSE

\* Rows in the way of an insert: there, or there unless another request ends one way or
\* the other.
Rivals(r, x, new) ==
  {y \in Row \ {x} :
     /\ y[1] = x[1]
     /\ \/ row[y] # Absent /\ Clash(x[1], new, row[y])
        \/ holder[y] \notin {0, r} /\ shown[y] # Absent /\ Clash(x[1], new, shown[y])}

\* A firm's or payer's bill that is still to be paid.
Owes(r, p) == \E b \in Rows(r, "bill") : Sees(r, b).payer = p /\ Sees(r, b).status # "PAID"

FirmOf(r, i) == Sees(r, User(i)).firm

IsActive(r, f) == There(r, Firm(f)) /\ Sees(r, Firm(f)).status = "ACTIVE"

\* validate_unique_email
EmailIsFree(r) == \A u \in Rows(r, "user") : Sees(r, u).email # job[r].email

\* An open grant of the kind asked for.
Granted(r, table, whom) ==
  \E g \in Rows(r, table) :
    /\ Sees(r, g).open /\ Sees(r, g).whom = whom
    /\ Sees(r, g).item = job[r].item /\ Sees(r, g).ward = job[r].ward

\* The foreign keys of row y, named x: those that keep their row from being deleted
\* (PROTECT), those that go with it (CASCADE), those that are emptied (SET_NULL).
Some(Name(_), i) == IF i = None THEN {} ELSE {Name(i)}

Protects(x, y) ==
  CASE x[1] = "user"  -> Some(Firm, y.firm)
    [] x[1] = "firm"  -> Some(Payer, y.payer)
    [] x[1] = "payer" -> {User(y.by)}
    [] x[1] = "bill"  -> {Payer(y.payer)}
    [] x[1] = "payment" -> {Bill(y.bill), User(y.by)}
    [] OTHER -> {}

GoesWith(x, y) ==
  CASE x[1] = "agent" -> {User(y.user)}
    [] x[1] = "grant" -> {Firm(y.whom)}
    [] x[1] = "narrowing"  -> {Agent(y.whom)}
    [] x[1] = "delegation" -> {Payer(y.payer), User(y.proxy)}
    [] OTHER -> {}

Emptied(x, y) == IF x[1] = "payer" THEN Some(User, y.to) \cup Some(User, y.login) ELSE {}

RefersTo(x, y) == IF y = Absent THEN {} ELSE Protects(x, y) \cup GoesWith(x, y) \cup Emptied(x, y)

\* The rows there are at first lack none they refer to.
ASSUME FirstRowsRefer ==
  \A w \in Workloads : \A x \in DOMAIN w[1] :
    RefersTo(x, w[1][x]) \subseteq {y \in DOMAIN w[1] : w[1][y] # Absent}

\* Their contracts are in order, no two agents share a login, ratepayers sign in as such and
\* delegate to proxies, to each once, and payers were handed over within their firm.
ASSUME FirstRowsFit ==
  \A w \in Workloads :
    LET At(x) == w[1][x]
        All(table) == {x \in DOMAIN w[1] : x[1] = table}
    IN /\ \A x \in All("firm") : Dated(At(x))
       /\ \A x, y \in All("agent") : At(x).user = At(y).user => x = y
       /\ \A x, y \in All("delegation") : SameDelegation(At(x), At(y)) => x = y
       /\ \A x \in All("delegation") : At(User(At(x).proxy)).role = "RATEPAYER_PROXY"
       /\ \A x \in All("payer") :
            /\ At(x).login # None => At(User(At(x).login)).role = "RATEPAYER"
            /\ At(x).to # None /\ At(User(At(x).to)).firm # None => At(User(At(x).by)).firm = At(User(At(x).to)).firm

\* What is deleted with rows S, as far as r sees: a login's agent, and the agent's items.
With(r, S) == S \cup {x \in Row : There(r, x) /\ GoesWith(x, Sees(r, x)) \cap S # {}}
Gone(r, S) == With(r, With(r, S))

Protected(r, S) == \E x \in Row : There(r, x) /\ Protects(x, Sees(r, x)) \cap S # {}

-----------------------------------------------------------------------------
(* What a caller is shown. *)

Present(table) == {x \in {table} \X Id : shown[x] # Absent}

\* The levels that may enrol payers, bill them, take their payments.
PayerCreators == {"COUNCIL_ADMIN", "CONSULTANT", "AGENT"}
BillCreators == {"COUNCIL_ADMIN", "CONSULTANT", "AGENT"}
PaymentCreators == {"COUNCIL_ADMIN", "CONSULTANT", "AGENT"}

\* The ward of a user who is an agent, 0 if none.
WardOf(u) ==
  LET agents == {a \in Present("agent") : shown[a].user = u}
  IN IF agents = {} THEN 0 ELSE shown[CHOOSE a \in agents : TRUE].ward

As(level, u) == [level |-> level, user |-> u, firm |-> shown[User(u)].firm, ward |-> WardOf(u)]

Caller(r) == As(shown[User(job[r].by)].role, job[r].by)

\* The caller still has a login, of one of the levels.
Allowed(r, levels) ==
  There(r, User(job[r].by)) /\ Sees(r, User(job[r].by)).active /\ Caller(r).level \in levels

FirmScoped == {"CONSULTANT", "CONSULTANT_STAFF", "REVENUE_OFFICER"}

\* The user whose list a payer is on: who it was handed to, else who enrolled it.
Keeper(p) == IF shown[p].to # None THEN shown[p].to ELSE shown[p].by

\* portfolio_filter: payer p is in the portfolio of viewer v.
InPortfolio(v, p) ==
  CASE v.level = "AGENT" -> Keeper(p) = v.user
    [] v.level = "AGENT_SUPERVISOR" -> v.ward # 0 /\ WardOf(Keeper(p)) = v.ward
    [] v.level \in FirmScoped -> shown[User(shown[p].by)].firm = v.firm
    [] OTHER -> TRUE

-----------------------------------------------------------------------------
(* The parts of a request: it checks, it inserts, it saves, it commits. *)

Move(r, step) == Go(r, step) /\ UNCHANGED <<job, note>>

Refuse(r) == Move(r, "refused") /\ ReadOnly

\* Defect: an error leaves what was written.
KeepOnError(r, end) == ReadOnly /\ Move(r, "commit")

\* An error undoes the request.
Fail(r, end) == Undo(HeldBy(r)) /\ Move(r, end)

Check(r, fine, next) ==
  /\ at[r] = "load"
  /\ \/ fine /\ Move(r, next) /\ ReadOnly
     \/ ~fine /\ Refuse(r)

Insert(r, step, x, new, next) ==
  /\ at[r] = step /\ Free(r, Rivals(r, x, new))
  /\ IF Rivals(r, x, new) = {} THEN Put(r, x, new) /\ Move(r, next)
     ELSE Fail(r, "failed")

\* save(update_fields): an error when the row is gone.
Save(r, x, new) ==
  /\ at[r] = "save" /\ Free(r, {x})
  /\ IF row[x] # Absent THEN Put(r, x, new) /\ Move(r, "commit")
     ELSE Fail(r, "failed")

-----------------------------------------------------------------------------
(* Logins. *)

\* derive_username_from_email: the first free suffix.
DeriveName(r) ==
  LET taken == {Sees(r, u).name : u \in Rows(r, "user")}
  IN /\ at[r] = "name"
     /\ \E n \in 1..(Cardinality(taken) + 1) :
          /\ <<job[r].email[1], n>> \notin taken
          /\ \A j \in 1..(n - 1) : <<job[r].email[1], j>> \in taken
          /\ note' = [note EXCEPT ![r].suffix = n]
     /\ Go(r, "login") /\ ReadOnly /\ UNCHANGED job

NewUser(r, role, firm) ==
  [name |-> <<job[r].email[1], note[r].suffix>>, email |-> job[r].email, role |-> role, firm |-> firm, active |-> TRUE]

\* SubConsultantViewSet.revenue_officers
OnboardOfficer(r) ==
  /\ Is(r, {"OFFICER"})
  /\ \/ Check(r, EmailIsFree(r), "name")
     \/ Insert(r, "login", User(r), NewUser(r, "REVENUE_OFFICER", On(r)[2]), "commit")

\* StakeholderViewSet.perform_create
OnboardStakeholder(r) ==
  /\ Is(r, {"STAKEHOLDER"})
  /\ \/ Check(r, EmailIsFree(r), "name")
     \/ Insert(r, "login", User(r), NewUser(r, "GLOBAL_VIEW", None), "commit")

\* deactivate_revenue_officer and StakeholderViewSet.deactivate, which do the same.
Deactivate(r) ==
  /\ Is(r, {"DEACTIVATE"})
  /\ \/ Check(r, There(r, On(r)), IF There(r, On(r)) /\ It(r).active THEN "save" ELSE "commit")
     \/ Save(r, On(r), [row[On(r)] EXCEPT !.active = FALSE])

-----------------------------------------------------------------------------
(* Firms. *)

NewPayer(r, phone, by) ==
  [phone |-> phone, ward |-> job[r].ward, kyc |-> "PENDING", by |-> by, to |-> None, login |-> None]

\* SubConsultantViewSet.perform_create; a refused registration bill undoes all of it.
OnboardFirm(r) ==
  /\ Is(r, {"ONBOARD"})
  /\ \/ Check(r, /\ job[r].login => EmailIsFree(r)
                 /\ Dated(job[r]) /\ \A f \in Rows(r, "firm") : Sees(r, f).ref # job[r].ref, "insert")
     \/ Insert(r, "insert", Firm(r),
               [ref |-> job[r].ref, status |-> "PENDING", payer |-> None, start |-> job[r].start, end |-> job[r].end],
               IF job[r].login THEN "name" ELSE "payer")
     \/ Insert(r, "login", User(r), NewUser(r, "CONSULTANT", r), "payer")
     \/ /\ at[r] = "payer"
        /\ Write(r, [x \in {Payer(r), Firm(r)} |->
                       IF x = Firm(r) THEN [row[x] EXCEPT !.payer = r] ELSE NewPayer(r, 0, job[r].by)])
        /\ Move(r, "bill")
     \/ /\ at[r] = "bill" /\ job[r].billable
        /\ Put(r, Bill(r), [payer |-> r, status |-> "ISSUED"])
        /\ Move(r, "commit")
     \/ at[r] = "bill" /\ ~job[r].billable /\ Fail(r, "refused")

\* SubConsultantViewSet.status_change
ChangeStatus(r) ==
  /\ Is(r, {"STATUS"})
  /\ \/ Check(r, There(r, On(r)) /\ (job[r].status = "ACTIVE" => ~Owes(r, It(r).payer)), "save")
     \/ Save(r, On(r), [row[On(r)] EXCEPT !.status = job[r].status])

\* Defect: only the date that was given is saved.
SaveGiven(r) ==
  [row[On(r)] EXCEPT !.start = IF job[r].start # 0 THEN job[r].start ELSE @,
                     !.end = IF job[r].end # 0 THEN job[r].end ELSE @]

SaveBoth(r) == [row[On(r)] EXCEPT !.start = note[r].start, !.end = note[r].end]

\* contract_dates: the date that is not given is the one it read.
ChangeDates(r) ==
  /\ Is(r, {"DATES"})
  /\ \/ at[r] = "load" /\ ~There(r, On(r)) /\ Refuse(r)
     \/ LET start == IF job[r].start # 0 THEN job[r].start ELSE It(r).start
            end == IF job[r].end # 0 THEN job[r].end ELSE It(r).end
        IN /\ at[r] = "load" /\ There(r, On(r))
           /\ note' = [note EXCEPT ![r].start = start, ![r].end = end]
           /\ Go(r, IF start # 0 /\ end # 0 /\ start > end THEN "refused" ELSE "save")
           /\ ReadOnly /\ UNCHANGED job
     \/ Save(r, On(r), SaveBoth(r))

\* Defect: the next attempt asks for the same code.
SameCode(r) == note[r].code

NextCode(r) == note[r].code + 1

\* FieldAgentViewSet.perform_create: a login and an agent in a savepoint, once more with
\* another code when a constraint is in the way.
Retry(r) ==
  /\ Undo(HeldBy(r)) /\ UNCHANGED job
  /\ IF note[r].tries < MaxTries THEN note' = [note EXCEPT ![r].code = NextCode(r), ![r].tries = @ + 1] /\ Go(r, "name")
     ELSE Go(r, "refused") /\ UNCHANGED note

TryInsert(r, step, x, new, next) ==
  /\ at[r] = step /\ Free(r, Rivals(r, x, new))
  /\ IF Rivals(r, x, new) = {} THEN Put(r, x, new) /\ Move(r, next) ELSE Retry(r)

OnboardAgent(r) ==
  /\ Is(r, {"AGENT"})
  /\ \/ /\ at[r] = "load"
        /\ IF EmailIsFree(r) /\ IsActive(r, On(r)[2])
           THEN /\ note' = [note EXCEPT ![r].code = Cardinality(Rows(r, "agent")) + 1, ![r].tries = 1]
                /\ Go(r, "name") /\ ReadOnly /\ UNCHANGED job
           ELSE Refuse(r)
     \/ TryInsert(r, "login", User(r), NewUser(r, "AGENT", On(r)[2]), "agent")
     \/ TryInsert(r, "agent", Agent(r), [user |-> r, code |-> note[r].code, ward |-> job[r].ward, status |-> "ACTIVE"], "commit")

\* FieldAgentViewSet.status_change
ChangeAgentStatus(r) ==
  /\ Is(r, {"AGENTSTATUS"})
  /\ \/ Check(r, There(r, On(r)), "save")
     \/ Save(r, On(r), [row[On(r)] EXCEPT !.status = job[r].status])

NewGrant(r) == [whom |-> On(r)[2], item |-> job[r].item, ward |-> job[r].ward, open |-> TRUE]

\* SubConsultantViewSet.portfolio
AssignItem(r) ==
  /\ Is(r, {"GRANT"})
  /\ \/ Check(r, There(r, On(r)) /\ ~Granted(r, "grant", On(r)[2]), "insert")
     \/ Insert(r, "insert", Grant(r), NewGrant(r), "commit")

\* FieldAgentViewSet.portfolio: only items of the agent's firm, in whichever ward.
NarrowAgent(r) ==
  LET firm == FirmOf(r, It(r).user)
      offered == \E g \in Rows(r, "grant") : Sees(r, g).open /\ Sees(r, g).whom = firm /\ Sees(r, g).item = job[r].item
  IN /\ Is(r, {"NARROW"})
     /\ \/ Check(r, There(r, On(r)) /\ firm # None /\ offered /\ ~Granted(r, "narrowing", On(r)[2]), "insert")
        \/ Insert(r, "insert", Narrowing(r), NewGrant(r), "commit")

EndAssignment(r) ==
  \/ Check(r, There(r, On(r)), "save")
  \/ Save(r, On(r), [row[On(r)] EXCEPT !.open = FALSE])

\* SubConsultantViewSet.end_portfolio
EndGrant(r) == Is(r, {"ENDGRANT"}) /\ EndAssignment(r)

\* FieldAgentViewSet.end_portfolio
EndNarrowing(r) == Is(r, {"ENDNARROW"}) /\ EndAssignment(r)

-----------------------------------------------------------------------------
(* Payers. *)

\* Defect: a payer is put down to whoever enrols it.
WhoEnrols(r) == {job[r].by}

\* The user a payer is put down to: the caller, or for an administrator some login of the
\* active firm asked for.
Enumerators(r) ==
  IF job[r].firm = None THEN {job[r].by}
  ELSE {u[2] : u \in {v \in Rows(r, "user") : IsActive(r, job[r].firm) /\ Sees(r, v).firm = job[r].firm /\ Sees(r, v).active}}

Known(r) == \E p \in Rows(r, "payer") : job[r].phone # 0 /\ Sees(r, p).phone = job[r].phone

\* create_payer; the look for a duplicate comes before.
CreatePayer(r) ==
  Insert(r, "insert", Payer(r), NewPayer(r, job[r].phone, note[r].by), "commit")

\* PayerViewSet.create
Enrol(r) ==
  /\ Is(r, {"ENROL"})
  /\ \/ /\ at[r] = "load"
        /\ IF ~Allowed(r, PayerCreators) \/ (Known(r) /\ ~job[r].force) \/ Enumerators(r) = {} THEN Refuse(r)
           ELSE /\ \E u \in Enumerators(r) : note' = [note EXCEPT ![r].by = u]
                /\ Go(r, "insert") /\ ReadOnly /\ UNCHANGED job
     \/ CreatePayer(r)

InOwnWard(r) == \E a \in Rows(r, "agent") : Sees(r, a).user = job[r].by /\ Sees(r, a).ward = job[r].ward /\ job[r].ward # 0

\* SyncView and _replay_payer: what an agent enrolled offline in its ward is put down to the
\* agent, never past a duplicate.
Replay(r) ==
  /\ Is(r, {"REPLAY"})
  /\ \/ /\ at[r] = "load"
        /\ IF ~Allowed(r, {"AGENT"}) \/ Known(r) \/ ~InOwnWard(r) THEN Refuse(r)
           ELSE note' = [note EXCEPT ![r].by = job[r].by] /\ Go(r, "insert") /\ ReadOnly /\ UNCHANGED job
     \/ CreatePayer(r)

\* PayerViewSet.kyc_status
ReviewKyc(r) ==
  /\ Is(r, {"KYC"})
  /\ \/ Check(r, There(r, On(r)), "save")
     \/ Save(r, On(r), [row[On(r)] EXCEPT !.kyc = "VERIFIED"])

\* PayerViewSet.destroy
Destroy(r) ==
  LET gone == Gone(r, {On(r)})
  IN /\ Is(r, {"DESTROY"})
     /\ \/ Check(r, There(r, On(r)) /\ ~\E b \in Rows(r, "bill") : Sees(r, b).payer = On(r)[2], "save")
        \/ /\ at[r] = "save" /\ Free(r, gone)
           /\ IF Protected(r, gone) THEN Fail(r, "failed")
              ELSE Write(r, [x \in gone |-> Absent]) /\ Move(r, "commit")

\* Defect: agents of other firms too.
AnyAgent(r, p, i) == TRUE

\* An agent of a firm only gets the payers of that firm.
MayAssign(r, p, i) == FirmOf(r, i) # None => FirmOf(r, Sees(r, p).by) = FirmOf(r, i)

\* FieldAgentViewSet.assign_payer
AssignPayer(r) ==
  LET agent == Agent(job[r].agent)
  IN /\ Is(r, {"ASSIGN"})
     /\ \/ /\ at[r] = "load"
           /\ IF There(r, agent) /\ There(r, On(r)) /\ MayAssign(r, On(r), Sees(r, agent).user)
              THEN note' = [note EXCEPT ![r].by = Sees(r, agent).user] /\ Go(r, "save") /\ ReadOnly /\ UNCHANGED job
              ELSE Refuse(r)
        \/ Save(r, On(r), [row[On(r)] EXCEPT !.to = note[r].by])

\* PayerViewSet.invite_ratepayer
Invite(r) ==
  /\ Is(r, {"INVITE"})
  /\ \/ Check(r, /\ Allowed(r, {"COUNCIL_ADMIN", "COUNCIL_IT", "AGENT"})
                 /\ There(r, On(r)) /\ InPortfolio(Caller(r), On(r)) /\ It(r).login = None /\ EmailIsFree(r), "name")
     \/ Insert(r, "login", User(r), NewUser(r, "RATEPAYER", None), "save")
     \/ Save(r, On(r), [row[On(r)] EXCEPT !.login = r])

OpenDelegations(r, p, proxy) ==
  {d \in Rows(r, "delegation") : Sees(r, d).open /\ Sees(r, d).payer = p /\ Sees(r, d).proxy = proxy}

\* The caller is the ratepayer of payer p.
OwnPayer(r, p) == Allowed(r, {"RATEPAYER"}) /\ There(r, p) /\ Sees(r, p).login = job[r].by

IsProxy(r, u) == There(r, u) /\ Sees(r, u).role = "RATEPAYER_PROXY"

\* RatepayerPortalViewSet.delegations: one that is there already is the answer.
Delegate(r) ==
  /\ Is(r, {"DELEGATE"})
  /\ \/ Check(r, OwnPayer(r, On(r)) /\ IsProxy(r, User(job[r].proxy)), IF OpenDelegations(r, On(r)[2], job[r].proxy) = {} THEN "insert" ELSE "commit")
     \/ Insert(r, "insert", Delegation(r), [payer |-> On(r)[2], proxy |-> job[r].proxy, open |-> TRUE], "commit")

\* revoke_delegation
Revoke(r) ==
  /\ Is(r, {"REVOKE"})
  /\ \/ Check(r, There(r, On(r)) /\ It(r).open /\ OwnPayer(r, Payer(It(r).payer)), "save")
     \/ Save(r, On(r), [row[On(r)] EXCEPT !.open = FALSE])

\* BillViewSet.create and issue_bill: a payer of the caller's is locked, so the look for an
\* open bill comes after.
IssueBill(r) ==
  /\ Is(r, {"BILL"})
  /\ \/ Check(r, Allowed(r, BillCreators) /\ There(r, On(r)) /\ InPortfolio(Caller(r), On(r)), "payer")
     \/ /\ at[r] = "payer" /\ Free(r, {On(r)})
        /\ IF row[On(r)] = Absent THEN Move(r, "failed") /\ ReadOnly
           ELSE Lock(r, On(r)) /\ Move(r, "bill")
     \/ /\ at[r] = "bill"
        /\ IF Owes(r, On(r)[2]) THEN Fail(r, "refused")
           ELSE Put(r, Bill(r), [payer |-> On(r)[2], status |-> "ISSUED"]) /\ Move(r, "commit")

\* A bill, if it is still there, is saved with the new payments of it.
Settle(r, status, payments) ==
  /\ at[r] = "save" /\ Free(r, {On(r)})
  /\ IF row[On(r)] = Absent THEN Fail(r, "failed")
     ELSE /\ Write(r, [x \in {On(r)} \cup payments |->
                         IF x = On(r) THEN [row[x] EXCEPT !.status = status]
                         ELSE [bill |-> On(r)[2], by |-> job[r].by]])
          /\ Move(r, "commit")

\* PaymentViewSet.create, of a bill's whole balance; BillLedger has the amounts.
PostPayment(r) ==
  /\ Is(r, {"PAY"})
  /\ \/ Check(r, /\ Allowed(r, PaymentCreators) /\ There(r, On(r)) /\ It(r).status # "PAID"
                 /\ InPortfolio(Caller(r), Payer(It(r).payer)), "save")
     \/ Settle(r, "PAID", {Payment(r)})

\* PaymentViewSet.reverse: the payment stays, reversed.
ReversePayment(r) ==
  /\ Is(r, {"REVERSE"})
  /\ \/ Check(r, There(r, On(r)) /\ It(r).status = "PAID", "save")
     \/ Settle(r, "OVERDUE", {})

-----------------------------------------------------------------------------
(* The reset of a council's data. *)

Wipes == <<"payment", "bill", "payer", "user", "firm">>

\* The rows of the next _wipe; of the logins only consultants, agents and stakeholders.
Match(r) ==
  {x \in Rows(r, Wipes[note[r].stage]) : x[1] = "user" => Sees(r, x).role \in {"CONSULTANT", "AGENT", "GLOBAL_VIEW"}}

\* A payer that stays keeps no login that goes.
Without(S, y) ==
  [y EXCEPT !.to = IF User(y.to) \in S THEN None ELSE @, !.login = IF User(y.login) \in S THEN None ELSE @]

\* Command.handle, _clear and _wipe, once it is confirmed; --full is left out.
Reset(r) ==
  LET doomed == note[r].doomed
      emptied == {x \in Rows(r, "payer") : x \notin doomed /\ Emptied(x, Sees(r, x)) \cap doomed # {}}
      gone == Gone(r, Match(r))
  IN /\ Is(r, {"RESET"})
     /\ \/ /\ at[r] = "load"
           /\ note' = [note EXCEPT ![r].stage = 1]
           /\ Go(r, IF job[r].force THEN "select" ELSE "refused") /\ ReadOnly /\ UNCHANGED job
        \/ at[r] = "select" /\ Protected(r, gone) /\ Fail(r, "failed")
        \/ /\ at[r] = "select" /\ ~Protected(r, gone)
           /\ note' = [note EXCEPT ![r].doomed = gone]
           /\ Go(r, "delete") /\ ReadOnly /\ UNCHANGED job
        \/ /\ at[r] = "delete" /\ Free(r, doomed \cup emptied)
           /\ Write(r, [x \in doomed \cup emptied |-> IF x \in doomed THEN Absent ELSE Without(doomed, row[x])])
           /\ note' = [note EXCEPT ![r].stage = IF @ = 5 THEN 5 ELSE @ + 1, ![r].doomed = {}]
           /\ Go(r, IF note[r].stage = 5 THEN "commit" ELSE "select") /\ UNCHANGED job

-----------------------------------------------------------------------------
(* The end of a request. *)

\* The rows that what a request wrote newly refers to.
Parents(r) ==
  UNION {RefersTo(x, row[x]) \ RefersTo(x, shown[x]) : x \in HeldBy(r)}

\* Rows that refer to what the request deletes.
Orphans(r) ==
  {x \in Row : There(r, x) /\ \E p \in RefersTo(x, Sees(r, x)) : p \in HeldBy(r) /\ row[p] = Absent}

\* Defect: no reference is checked.
Unchecked(r) == TRUE

\* Deferred foreign keys: what another request has not committed is not there.
ReferencesHold(r) == (\A p \in Parents(r) : There(r, p)) /\ Orphans(r) = {}

Commit(r) ==
  /\ at[r] = "commit"
  /\ \A p \in Parents(r) : row[p] = Absent => Free(r, {p})
  /\ IF ReferencesHold(r) THEN Publish(r) /\ Move(r, "done") ELSE Fail(r, "failed")

Init ==
  /\ \E w \in Workloads :
       /\ row = [x \in Row |-> IF x \in DOMAIN w[1] THEN w[1][x] ELSE Absent]
       /\ job = w[2]
  /\ at = [r \in Request |-> "load"]
  /\ note = [r \in Request |-> [suffix |-> 0, code |-> 0, tries |-> 0, start |-> 0, end |-> 0, by |-> None,
                           stage |-> 0, doomed |-> {}]]
  /\ shown = row
  /\ holder = [x \in Row |-> 0]

Work(r) ==
  \/ DeriveName(r) \/ OnboardOfficer(r) \/ OnboardStakeholder(r) \/ Deactivate(r)
  \/ OnboardFirm(r) \/ ChangeStatus(r) \/ ChangeDates(r)
  \/ OnboardAgent(r) \/ ChangeAgentStatus(r) \/ AssignItem(r) \/ NarrowAgent(r) \/ EndGrant(r) \/ EndNarrowing(r)
  \/ Enrol(r) \/ Replay(r) \/ ReviewKyc(r) \/ Destroy(r) \/ AssignPayer(r) \/ Invite(r)
  \/ Delegate(r) \/ Revoke(r) \/ IssueBill(r) \/ PostPayment(r) \/ ReversePayment(r) \/ Reset(r)
  \/ Commit(r)

AllEnded == (\A r \in Request : at[r] \in Ended) /\ UNCHANGED vars

Next == (\E r \in Request : Work(r)) \/ AllEnded

Spec == Init /\ [][Next]_vars

-----------------------------------------------------------------------------
(* Properties of what is committed. *)

\* A firm never appears half onboarded: with it come the payer it is billed as, its
\* registration bill and the manager login that was asked for, however the references
\* and logins of overlapping onboardings collide; only a reset of the council takes one
\* of them away (SubConsultantViewSet.perform_create).  And two administrators who change
\* one date of its contract each never leave it ending before it starts (contract_dates).
FirmsAreWhole ==
  /\ \A f \in Present("firm") : Dated(shown[f])
  /\ \A r \in Request : job[r].kind = "ONBOARD" =>
    LET there == shown[Firm(r)] # Absent
        with == {Payer(r), Bill(r)} \cup (IF job[r].login THEN {User(r)} ELSE {})
        wiped == \E q \in Request : Is(q, {"RESET"}) /\ at[q] = "done"
    IN /\ there => shown[Firm(r)].payer = r /\ \A x \in with : shown[x] # Absent
       /\ ~there /\ ~wiped => \A x \in {Payer(r), Bill(r), User(r)} : shown[x] = Absent

\* Nothing that overlaps the deletion of a payer or the reset of the council is left
\* without the rows it refers to: no bill without payer, agent without login or payer
\* without the login it is put down to (PayerViewSet.destroy: "this preserves the billing
\* history"; reset_council_data: "Deletion order matters").
RecordsKeepTheirParents ==
  \A x \in Row : \A p \in RefersTo(x, shown[x]) : shown[p] # Absent

\* Onboardings that overlap, and codes that agents no longer there have left taken, never
\* use up an agent's attempts at a code: only an email that another login took meanwhile
\* does (FieldAgentViewSet.perform_create).
CodesAreFound ==
  \A r \in Request : job[r].kind = "AGENT" /\ at[r] = "refused" /\ note[r].tries = MaxTries =>
    \E u \in Present("user") : shown[u].email = job[r].email
=============================================================================
