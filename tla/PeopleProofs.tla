----------------------------- MODULE PeopleProofs -----------------------------
(***************************************************************************)
(* Proofs about modules People and Visibility: whatever the requests are,  *)
(* how many there are and however they overlap, the committed rows have    *)
(* the rows they refer to, firms are whole, lists nest, creators find what *)
(* they created and a revocation ends access.                              *)
(***************************************************************************)
EXTENDS Visibility, FiniteSetTheorems, TLAPS

-----------------------------------------------------------------------------
(* What the statements of Requests do to a set R of rows and to who holds them. *)

\* UPDATE and INSERT of one row.
LEMMA PutDoes ==
  ASSUME NEW R, RowsAre(R), NEW r, NEW x \in R, NEW version, Put(r, x, version)
  PROVE  /\ RowsAre(R)' /\ holder[x] \in {0, r}
         /\ row'[x] = version /\ holder'[x] = r
         /\ \A y \in R \ {x} : row'[y] = row[y] /\ holder'[y] = holder[y]
         /\ shown' = shown
  BY DEF RowsAre, Put, Free

\* UPDATE and INSERT of several rows.
LEMMA WriteDoes ==
  ASSUME NEW R, RowsAre(R), NEW r, NEW new, Write(r, new)
  PROVE  /\ RowsAre(R)' /\ \A x \in DOMAIN new : holder[x] \in {0, r}
         /\ \A x \in R : row'[x] = IF x \in DOMAIN new THEN new[x] ELSE row[x]
         /\ \A x \in R : holder'[x] = IF x \in DOMAIN new THEN r ELSE holder[x]
         /\ shown' = shown
  BY DEF RowsAre, Write, Free

\* ROLLBACK, also to a savepoint.
LEMMA UndoDoes ==
  ASSUME NEW R, RowsAre(R), NEW xs, Undo(xs)
  PROVE  /\ RowsAre(R)'
         /\ \A x \in R : row'[x] = IF x \in xs THEN shown[x] ELSE row[x]
         /\ \A x \in R : holder'[x] = IF x \in xs THEN 0 ELSE holder[x]
         /\ shown' = shown
  BY DEF RowsAre, Undo

\* COMMIT.
LEMMA PublishDoes ==
  ASSUME NEW R, RowsAre(R), NEW r, Publish(r)
  PROVE  /\ RowsAre(R)'
         /\ \A x \in R : shown'[x] = IF holder[x] = r THEN row[x] ELSE shown[x]
         /\ \A x \in R : holder'[x] = IF holder[x] = r THEN 0 ELSE holder[x]
         /\ row' = row
  BY DEF RowsAre, Publish

\* Whatever a request does to rows, who holds them stays a function of the rows.
LEMMA HoldersKept ==
  ASSUME NEW R, RowsAre(R), NEW r,
         \/ \E x \in R : \E version : Put(r, x, version)
         \/ \E new : Write(r, new)
         \/ \E xs : Undo(xs)
         \/ Publish(r)
         \/ ReadOnly /\ holder = [x \in R |-> holder[x]]
  PROVE  holder' = [x \in R |-> holder'[x]]
  <1>1. CASE \E x \in R : \E version : Put(r, x, version)
    <2>1. PICK x \in R : holder' = [holder EXCEPT ![x] = r]
      BY <1>1 DEF Put
    <2>2. holder' = [y \in R |-> IF y = x THEN r ELSE holder[y]]
      BY <2>1 DEF RowsAre
    <2>3. QED BY <2>2
  <1>2. CASE \E new : Write(r, new)
    <2>1. PICK new : holder' = [x \in R |-> IF x \in DOMAIN new THEN r ELSE holder[x]]
      BY <1>2 DEF Write, RowsAre
    <2>2. QED BY <2>1
  <1>3. CASE \E xs : Undo(xs)
    <2>1. PICK xs : holder' = [x \in R |-> IF x \in xs THEN 0 ELSE holder[x]]
      BY <1>3 DEF Undo, RowsAre
    <2>2. QED BY <2>1
  <1>4. CASE Publish(r)
    <2>1. holder' = [x \in R |-> IF holder[x] = r THEN 0 ELSE holder[x]]
      BY <1>4 DEF Publish, RowsAre
    <2>2. QED BY <2>1
  <1>5. CASE ReadOnly /\ holder = [x \in R |-> holder[x]]
    BY <1>5 DEF ReadOnly, rows
  <1>6. QED BY <1>1, <1>2, <1>3, <1>4, <1>5

-----------------------------------------------------------------------------
(* The invariant. *)

\* Row i is of no request, or of one that is done.
Born(i) == i \in Request => at[i] = "done"

Versions(x) == {row[x], shown[x]} \ {Absent}

HoldsNone(r) == \A x \in Row : holder[x] # r
Has(r, x) == holder[x] = r /\ row[x] # Absent
Deleted(r, x) == holder[x] = r /\ row[x] = Absent

\* The columns that nothing ever changes.
Same(x, y, z) ==
  /\ x[1] = "user" => z.role = y.role /\ z.firm = y.firm
  /\ x[1] = "agent" => z.user = y.user /\ z.ward = y.ward
  /\ x[1] = "payer" => z.by = y.by /\ z.ward = y.ward
  /\ x[1] = "delegation" => z.payer = y.payer /\ z.proxy = y.proxy

\* What a committed login is, as long as it is there.
HasRole(i, roles) == Born(i) /\ (shown[User(i)] # Absent => shown[User(i)].role \in roles)
HasFirm(i, f) == Born(i) /\ (shown[User(i)] # Absent => shown[User(i)].firm = f)

\* A payer put down to i may be handed to user u.
SameFirm(u, i) ==
  /\ Born(u) /\ Born(i)
  /\ shown[User(u)] # Absent /\ shown[User(i)] # Absent /\ shown[User(u)].firm # None =>
       shown[User(i)].firm = shown[User(u)].firm

InWard(u, ward) ==
  shown[User(u)] # Absent =>
    \E a \in Row : a[1] = "agent" /\ shown[a] # Absent /\ shown[a].user = u /\ shown[a].ward = ward

\* User u is one that request r may put a payer down to.
EnrolledBy(r, u) ==
  /\ Is(r, {"ENROL"}) =>
       IF job[r].firm = None THEN u = job[r].by /\ HasRole(u, PayerCreators) ELSE HasFirm(u, job[r].firm)
  /\ Is(r, {"REPLAY"}) => u = job[r].by /\ HasRole(u, {"AGENT"}) /\ job[r].ward # 0 /\ InWard(u, job[r].ward)

\* The login that request r creates.
LoginOf(r, y) ==
  /\ Is(r, {"OFFICER"}) => y.role = "REVENUE_OFFICER" /\ y.firm = On(r)[2]
  /\ Is(r, {"STAKEHOLDER"}) => y.role = "GLOBAL_VIEW"
  /\ Is(r, {"AGENT"}) => y.firm = On(r)[2]
  /\ Is(r, {"INVITE"}) => y.role = "RATEPAYER"

RatepayerIs(i) == IF i \in Request THEN Is(i, {"INVITE"}) ELSE HasRole(i, {"RATEPAYER"})

\* What version y of row x may be.
FirmOK(x, y) ==
  /\ Dated(y)
  /\ x[2] \in Request /\ Is(x[2], {"ONBOARD"}) /\ at[x[2]] = "done" => y.payer = x[2]
UserOK(x, y) == x[2] \in Request => LoginOf(x[2], y)
AgentOK(x, y) == IF x[2] \in Request THEN Is(x[2], {"AGENT"}) /\ y.user = x[2] ELSE y.user \notin Request
PayerOK(x, y) ==
  /\ y.to # None => SameFirm(y.to, y.by)
  /\ y.login # None => RatepayerIs(y.login)
  /\ x[2] \in Request /\ Is(x[2], {"ENROL", "REPLAY"}) => EnrolledBy(x[2], y.by) /\ y.ward = job[x[2]].ward
DelegationOK(x, y) == HasRole(y.proxy, {"RATEPAYER_PROXY"})

VersionOK(x, y) ==
  /\ y \in RowType(x)
  /\ x[1] = "firm" => FirmOK(x, y)
  /\ x[1] = "user" => UserOK(x, y)
  /\ x[1] = "agent" => AgentOK(x, y)
  /\ x[1] = "payer" => PayerOK(x, y)
  /\ x[1] = "delegation" => DelegationOK(x, y)

\* Who deletes rows of the table of x.
Deletes(r, x) == Is(r, {"RESET"}) \/ (Is(r, {"DESTROY"}) /\ x[1] \in {"payer", "delegation"})

RowOK(x) ==
  /\ \A y \in Versions(x) : VersionOK(x, y)
  \* A row appears with the request it is named after, and never again.
  /\ x[2] \in Request /\ at[x[2]] # "done" => shown[x] = Absent /\ holder[x] \in {0, x[2]}
  /\ shown[x] = Absent /\ row[x] # Absent =>
       x[2] \in Request /\ holder[x] = x[2] /\ ~Is(x[2], {"DESTROY", "RESET"})
  /\ shown[x] # Absent /\ row[x] # Absent => Same(x, shown[x], row[x])
  /\ row[x] = Absent /\ holder[x] # 0 => Deletes(holder[x], x)
  \* An agent is deleted with the login.
  /\ x[1] = "agent" /\ row[x] = Absent /\ shown[x] # Absent => Deleted(holder[x], User(shown[x].user))

\* No two agents have one login, no two open delegations are of one payer to one proxy.
Apart(x, z) ==
  \A y \in Versions(x), v \in Versions(z) :
    /\ x[1] = "agent" /\ z[1] = "agent" => y.user # v.user
    /\ x[1] = "delegation" /\ z[1] = "delegation" => ~SameDelegation(y, v)

OnRows == (\A x \in Row : RowOK(x)) /\ \A x \in Row : \A z \in Row \ {x} : Apart(x, z)

Base ==
  /\ job \in {w[2] : w \in Workloads} /\ at \in [Request -> Steps] /\ note \in [Request -> Note]
  /\ RowsAre(Row) /\ LocksHold(Row) /\ holder \in [Row -> 0..N]

Wiped == \E q \in Request : Is(q, {"RESET"}) /\ at[q] = "done"

\* What each request has done and knows at its step.
OnboardOK(r) ==
  /\ at[r] = "insert" => Dated(job[r])
  /\ at[r] \in {"name", "login", "payer", "bill", "commit"} => Has(r, Firm(r))
  /\ at[r] \in {"payer", "bill", "commit"} /\ job[r].login => Has(r, User(r))
  /\ at[r] \in {"bill", "commit"} => row[Firm(r)].payer = r
  /\ at[r] = "commit" => Has(r, Bill(r))
  /\ at[r] = "done" =>
       /\ shown[Firm(r)] # Absent => shown[Bill(r)] # Absent /\ (job[r].login => shown[User(r)] # Absent)
       /\ ~Wiped => shown[Firm(r)] # Absent

AssignOK(r) ==
  at[r] = "save" =>
    /\ Born(On(r)[2]) /\ note[r].by # None
    /\ \A y \in Versions(On(r)) : SameFirm(note[r].by, y.by)

EnrolOK(r) == at[r] = "insert" => note[r].by # None /\ EnrolledBy(r, note[r].by)

DelegateOK(r) == at[r] = "insert" => HoldsNone(r) /\ HasRole(job[r].proxy, {"RATEPAYER_PROXY"})

DestroyOK(r) == at[r] = "save" => HoldsNone(r) /\ Born(On(r)[2])

RevokeOK(r) ==
  /\ at[r] \in {"save", "commit"} => Born(On(r)[2])
  /\ at[r] = "commit" => Has(r, On(r)) /\ ~row[On(r)].open

\* The reset deletes the bill or a login of a firm.
Takes(r, i) == Deleted(r, Bill(i)) \/ Deleted(r, User(i))

ResetOK(r) ==
  /\ at[r] \in {"select", "delete"} => note[r].stage \in 1..5
  /\ at[r] = "delete" =>
       /\ \A x \in note[r].doomed : Born(x[2])
       /\ \A x \in note[r].doomed : x[1] = "agent" /\ shown[x] # Absent => User(shown[x].user) \in note[r].doomed
  /\ at[r] = "delete" /\ note[r].stage = 5 =>
       /\ \A x \in note[r].doomed : x[1] \notin {"user", "bill"}
       /\ \A i \in Id : Takes(r, i) =>
            shown[Firm(i)] = Absent \/ Firm(i) \in note[r].doomed \/ Deleted(r, Firm(i))
  /\ at[r] = "commit" => \A i \in Id : Takes(r, i) => shown[Firm(i)] = Absent \/ Deleted(r, Firm(i))

Local(r) ==
  /\ at[r] \in {"load", "done"} => HoldsNone(r)
  /\ Is(r, {"ONBOARD"}) => OnboardOK(r)
  /\ Is(r, {"DATES"}) /\ at[r] = "save" => Dated(note[r])
  /\ Is(r, {"ASSIGN"}) => AssignOK(r)
  /\ Is(r, {"ENROL", "REPLAY"}) => EnrolOK(r)
  /\ Is(r, {"DELEGATE"}) => DelegateOK(r)
  /\ Is(r, {"DESTROY"}) => DestroyOK(r)
  /\ Is(r, {"REVOKE"}) => RevokeOK(r)
  /\ Is(r, {"RESET"}) => ResetOK(r)

PeopleInv == Base /\ OnRows /\ (\A r \in Request : Local(r)) /\ RecordsKeepTheirParents

-----------------------------------------------------------------------------
(* Names and columns of rows. *)

\* The parts of a row's name.
LEMMA RowNames ==
  /\ \A x \in Row : x[1] \in Table /\ x[2] \in Id /\ x = <<x[1], x[2]>>
  /\ \A i \in Id : /\ User(i) \in Row /\ Firm(i) \in Row /\ Agent(i) \in Row /\ Grant(i) \in Row
                   /\ Narrowing(i) \in Row /\ Payer(i) \in Row /\ Bill(i) \in Row /\ Payment(i) \in Row
                   /\ Delegation(i) \in Row
  /\ \A i : /\ User(i)[1] = "user" /\ User(i)[2] = i
           /\ Firm(i)[1] = "firm" /\ Firm(i)[2] = i
           /\ Agent(i)[1] = "agent" /\ Agent(i)[2] = i
           /\ Grant(i)[1] = "grant" /\ Grant(i)[2] = i
           /\ Narrowing(i)[1] = "narrowing" /\ Narrowing(i)[2] = i
           /\ Payer(i)[1] = "payer" /\ Payer(i)[2] = i
           /\ Bill(i)[1] = "bill" /\ Bill(i)[2] = i
           /\ Payment(i)[1] = "payment" /\ Payment(i)[2] = i
           /\ Delegation(i)[1] = "delegation" /\ Delegation(i)[2] = i
<1>1. \A x \in Row : x[1] \in Table /\ x[2] \in Id /\ x = <<x[1], x[2]>>
  BY DEF Row
<1>2. \A i \in Id : /\ User(i) \in Row /\ Firm(i) \in Row /\ Agent(i) \in Row /\ Grant(i) \in Row
                   /\ Narrowing(i) \in Row /\ Payer(i) \in Row /\ Bill(i) \in Row /\ Payment(i) \in Row
                   /\ Delegation(i) \in Row
  BY DEF Row, Table, User, Firm, Agent, Grant, Narrowing, Payer, Bill, Payment, Delegation
<1>3. \A i : /\ User(i)[1] = "user" /\ User(i)[2] = i
           /\ Firm(i)[1] = "firm" /\ Firm(i)[2] = i
           /\ Agent(i)[1] = "agent" /\ Agent(i)[2] = i
           /\ Grant(i)[1] = "grant" /\ Grant(i)[2] = i
           /\ Narrowing(i)[1] = "narrowing" /\ Narrowing(i)[2] = i
           /\ Payer(i)[1] = "payer" /\ Payer(i)[2] = i
           /\ Bill(i)[1] = "bill" /\ Bill(i)[2] = i
           /\ Payment(i)[1] = "payment" /\ Payment(i)[2] = i
           /\ Delegation(i)[1] = "delegation" /\ Delegation(i)[2] = i
  BY DEF User, Firm, Agent, Grant, Narrowing, Payer, Bill, Payment, Delegation
<1>. QED  BY <1>1, <1>2, <1>3

\* Requests have numbers that are ids of rows.
LEMMA RequestIds == Request \subseteq Id /\ 0 \notin Request /\ Request = 1..N /\ N \in Nat
  BY PeopleConstants DEF Request

\* The columns of each table.
LEMMA RowTypes ==
  ASSUME NEW x \in Row
  PROVE  /\ x[1] = "user" => RowType(x) = UserRow
         /\ x[1] = "firm" => RowType(x) = FirmRow
         /\ x[1] = "agent" => RowType(x) = AgentRow
         /\ x[1] \in {"grant", "narrowing"} => RowType(x) = GrantRow
         /\ x[1] = "payer" => RowType(x) = PayerRow
         /\ x[1] = "bill" => RowType(x) = BillRow
         /\ x[1] = "payment" => RowType(x) = PaymentRow
         /\ x[1] = "delegation" => RowType(x) = DelegationRow
  BY DEF RowType

\* A row is never the value that stands for a missing one.
LEMMA TypedIsRow == ASSUME NEW x \in Row, NEW y \in RowType(x) PROVE y # Absent
  BY AbsentIsNoRow

\* What a row of each table refers to.
LEMMA Keys ==
  ASSUME NEW x \in Row, NEW y, y # Absent
  PROVE  /\ x[1] = "user" => RefersTo(x, y) = IF y.firm = None THEN {} ELSE {Firm(y.firm)}
         /\ x[1] = "firm" => RefersTo(x, y) = IF y.payer = None THEN {} ELSE {Payer(y.payer)}
         /\ x[1] = "agent" => RefersTo(x, y) = {User(y.user)}
         /\ x[1] = "grant" => RefersTo(x, y) = {Firm(y.whom)}
         /\ x[1] = "narrowing" => RefersTo(x, y) = {Agent(y.whom)}
         /\ x[1] = "payer" => RefersTo(x, y) = {User(y.by)} \cup (IF y.to = None THEN {} ELSE {User(y.to)})
                                                            \cup (IF y.login = None THEN {} ELSE {User(y.login)})
         /\ x[1] = "bill" => RefersTo(x, y) = {Payer(y.payer)}
         /\ x[1] = "payment" => RefersTo(x, y) = {Bill(y.bill), User(y.by)}
         /\ x[1] = "delegation" => RefersTo(x, y) = {Payer(y.payer), User(y.proxy)}
<1>1. x[1] = "user" => RefersTo(x, y) = IF y.firm = None THEN {} ELSE {Firm(y.firm)}
  BY DEF RefersTo, Protects, GoesWith, Emptied, Some
<1>2. x[1] = "firm" => RefersTo(x, y) = IF y.payer = None THEN {} ELSE {Payer(y.payer)}
  BY DEF RefersTo, Protects, GoesWith, Emptied, Some
<1>3. x[1] = "agent" => RefersTo(x, y) = {User(y.user)}
  BY DEF RefersTo, Protects, GoesWith, Emptied
<1>4. x[1] = "grant" => RefersTo(x, y) = {Firm(y.whom)}
  BY DEF RefersTo, Protects, GoesWith, Emptied
<1>5. x[1] = "narrowing" => RefersTo(x, y) = {Agent(y.whom)}
  BY DEF RefersTo, Protects, GoesWith, Emptied
<1>6. x[1] = "payer" => RefersTo(x, y) = {User(y.by)} \cup (IF y.to = None THEN {} ELSE {User(y.to)})
                                                      \cup (IF y.login = None THEN {} ELSE {User(y.login)})
  BY DEF RefersTo, Protects, GoesWith, Emptied, Some
<1>7. x[1] = "bill" => RefersTo(x, y) = {Payer(y.payer)}
  BY DEF RefersTo, Protects, GoesWith, Emptied
<1>8. x[1] = "payment" => RefersTo(x, y) = {Bill(y.bill), User(y.by)}
  BY DEF RefersTo, Protects, GoesWith, Emptied
<1>9. x[1] = "delegation" => RefersTo(x, y) = {Payer(y.payer), User(y.proxy)}
  BY DEF RefersTo, Protects, GoesWith, Emptied
<1>. QED  BY <1>1, <1>2, <1>3, <1>4, <1>5, <1>6, <1>7, <1>8, <1>9

\* The foreign keys of each table.
LEMMA RowColumns ==
  ASSUME NEW x \in Row, NEW y \in RowType(x)
  PROVE  /\ x[1] = "user" => y.firm \in IdOrNone
         /\ x[1] = "firm" => y.payer \in IdOrNone
         /\ x[1] = "agent" => y.user \in Id
         /\ x[1] = "grant" => y.whom \in Id
         /\ x[1] = "narrowing" => y.whom \in Id
         /\ x[1] = "payer" => y.by \in Id /\ y.to \in IdOrNone /\ y.login \in IdOrNone
         /\ x[1] = "bill" => y.payer \in Id
         /\ x[1] = "payment" => y.bill \in Id /\ y.by \in Id
         /\ x[1] = "delegation" => y.payer \in Id /\ y.proxy \in Id
<1>1. x[1] = "user" => y.firm \in IdOrNone
  <2> SUFFICES ASSUME x[1] = "user" PROVE y.firm \in IdOrNone
    OBVIOUS
  <2>1. y \in UserRow
    BY RowTypes
  <2>. QED  BY <2>1 DEF UserRow
<1>2. x[1] = "firm" => y.payer \in IdOrNone
  <2> SUFFICES ASSUME x[1] = "firm" PROVE y.payer \in IdOrNone
    OBVIOUS
  <2>1. y \in FirmRow
    BY RowTypes
  <2>. QED  BY <2>1 DEF FirmRow
<1>3. x[1] = "agent" => y.user \in Id
  <2> SUFFICES ASSUME x[1] = "agent" PROVE y.user \in Id
    OBVIOUS
  <2>1. y \in AgentRow
    BY RowTypes
  <2>. QED  BY <2>1 DEF AgentRow
<1>4. x[1] = "grant" => y.whom \in Id
  <2> SUFFICES ASSUME x[1] = "grant" PROVE y.whom \in Id
    OBVIOUS
  <2>1. y \in GrantRow
    BY RowTypes
  <2>. QED  BY <2>1 DEF GrantRow
<1>5. x[1] = "narrowing" => y.whom \in Id
  <2> SUFFICES ASSUME x[1] = "narrowing" PROVE y.whom \in Id
    OBVIOUS
  <2>1. y \in GrantRow
    BY RowTypes
  <2>. QED  BY <2>1 DEF GrantRow
<1>6. x[1] = "payer" => y.by \in Id /\ y.to \in IdOrNone /\ y.login \in IdOrNone
  <2> SUFFICES ASSUME x[1] = "payer" PROVE y.by \in Id /\ y.to \in IdOrNone /\ y.login \in IdOrNone
    OBVIOUS
  <2>1. y \in PayerRow
    BY RowTypes
  <2>. QED  BY <2>1 DEF PayerRow
<1>7. x[1] = "bill" => y.payer \in Id
  <2> SUFFICES ASSUME x[1] = "bill" PROVE y.payer \in Id
    OBVIOUS
  <2>1. y \in BillRow
    BY RowTypes
  <2>. QED  BY <2>1 DEF BillRow
<1>8. x[1] = "payment" => y.bill \in Id /\ y.by \in Id
  <2> SUFFICES ASSUME x[1] = "payment" PROVE y.bill \in Id /\ y.by \in Id
    OBVIOUS
  <2>1. y \in PaymentRow
    BY RowTypes
  <2>. QED  BY <2>1 DEF PaymentRow
<1>9. x[1] = "delegation" => y.payer \in Id /\ y.proxy \in Id
  <2> SUFFICES ASSUME x[1] = "delegation" PROVE y.payer \in Id /\ y.proxy \in Id
    OBVIOUS
  <2>1. y \in DelegationRow
    BY RowTypes
  <2>. QED  BY <2>1 DEF DelegationRow
<1>. QED  BY <1>1, <1>2, <1>3, <1>4, <1>5, <1>6, <1>7, <1>8, <1>9

\* What a row refers to are rows.
LEMMA TypedRefers ==
  ASSUME NEW x \in Row, NEW y \in RowType(x)
  PROVE  RefersTo(x, y) \subseteq Row
<1>0. x[1] \in Table /\ y # Absent
  BY RowNames, TypedIsRow
<1>00. \A i \in Id : User(i) \in Row /\ Firm(i) \in Row /\ Agent(i) \in Row /\ Payer(i) \in Row /\ Bill(i) \in Row
  BY RowNames
<1>1. CASE x[1] = "user"
  <2>1. y.firm \in IdOrNone
    BY <1>1, RowColumns
  <2>2. RefersTo(x, y) = IF y.firm = None THEN {} ELSE {Firm(y.firm)}
    BY <1>0, <1>1, Keys
  <2>. QED  BY <1>00, <2>1, <2>2 DEF IdOrNone
<1>2. CASE x[1] = "firm"
  <2>1. y.payer \in IdOrNone
    BY <1>2, RowColumns
  <2>2. RefersTo(x, y) = IF y.payer = None THEN {} ELSE {Payer(y.payer)}
    BY <1>0, <1>2, Keys
  <2>. QED  BY <1>00, <2>1, <2>2 DEF IdOrNone
<1>3. CASE x[1] = "agent"
  <2>1. y.user \in Id
    BY <1>3, RowColumns
  <2>2. RefersTo(x, y) = {User(y.user)}
    BY <1>0, <1>3, Keys
  <2>. QED  BY <1>00, <2>1, <2>2
<1>4. CASE x[1] = "grant"
  <2>1. y.whom \in Id
    BY <1>4, RowColumns
  <2>2. RefersTo(x, y) = {Firm(y.whom)}
    BY <1>0, <1>4, Keys
  <2>. QED  BY <1>00, <2>1, <2>2
<1>5. CASE x[1] = "narrowing"
  <2>1. y.whom \in Id
    BY <1>5, RowColumns
  <2>2. RefersTo(x, y) = {Agent(y.whom)}
    BY <1>0, <1>5, Keys
  <2>. QED  BY <1>00, <2>1, <2>2
<1>6. CASE x[1] = "payer"
  <2>1. y.by \in Id /\ y.to \in IdOrNone /\ y.login \in IdOrNone
    BY <1>6, RowColumns
  <2>2. RefersTo(x, y) = {User(y.by)} \cup (IF y.to = None THEN {} ELSE {User(y.to)})
                                    \cup (IF y.login = None THEN {} ELSE {User(y.login)})
    BY <1>0, <1>6, Keys
  <2>3. User(y.by) \in Row /\ (y.to # None => User(y.to) \in Row) /\ (y.login # None => User(y.login) \in Row)
    BY <1>00, <2>1 DEF IdOrNone
  <2>. QED  BY <2>2, <2>3
<1>7. CASE x[1] = "bill"
  <2>1. y.payer \in Id
    BY <1>7, RowColumns
  <2>2. RefersTo(x, y) = {Payer(y.payer)}
    BY <1>0, <1>7, Keys
  <2>. QED  BY <1>00, <2>1, <2>2
<1>8. CASE x[1] = "payment"
  <2>1. y.bill \in Id /\ y.by \in Id
    BY <1>8, RowColumns
  <2>2. RefersTo(x, y) = {Bill(y.bill), User(y.by)}
    BY <1>0, <1>8, Keys
  <2>. QED  BY <1>00, <2>1, <2>2
<1>9. CASE x[1] = "delegation"
  <2>1. y.payer \in Id /\ y.proxy \in Id
    BY <1>9, RowColumns
  <2>2. RefersTo(x, y) = {Payer(y.payer), User(y.proxy)}
    BY <1>0, <1>9, Keys
  <2>. QED  BY <1>00, <2>1, <2>2
<1>. QED  BY <1>0, <1>1, <1>2, <1>3, <1>4, <1>5, <1>6, <1>7, <1>8, <1>9 DEF Table

-----------------------------------------------------------------------------
(* What the invariant says of one row and of one request. *)

\* A version of a row is of its table and as the invariant has it.
LEMMA VersionIs ==
  ASSUME OnRows, NEW x \in Row, NEW y \in Versions(x)
  PROVE  VersionOK(x, y) /\ y \in RowType(x) /\ y # Absent
<1>1. VersionOK(x, y)
  BY DEF OnRows, RowOK
<1>. QED  BY <1>1 DEF VersionOK, Versions

\* What a request asks for.
LEMMA AskedIs ==
  ASSUME Base, NEW r \in Request
  PROVE  /\ job[r] \in Asked /\ On(r) \in Row /\ On(r)[2] \in Id /\ On(r) = <<On(r)[1], On(r)[2]>>
         /\ job[r].by \in Id /\ job[r].firm \in IdOrNone /\ job[r].agent \in Id /\ job[r].proxy \in Id
         /\ job[r].kind \in DOMAIN Target => On(r)[1] = Target[job[r].kind]
         /\ Is(r, {"REPLAY"}) => job[r].firm = None
         /\ Is(r, {"AGENTSTATUS"}) => job[r].status # "PENDING"
<1>1. PICK w \in Workloads : job = w[2]
  BY DEF Base
<1>2. r \in 1..N
  BY RequestIds
<1>3. /\ job[r] \in Asked
      /\ job[r].kind \in DOMAIN Target => job[r].on[1] = Target[job[r].kind]
      /\ job[r].kind = "REPLAY" => job[r].firm = None
      /\ job[r].kind = "AGENTSTATUS" => job[r].status # "PENDING"
  BY <1>1, <1>2, PeopleConstants
<1>4. /\ job[r].on \in Row /\ job[r].by \in Id /\ job[r].firm \in IdOrNone /\ job[r].agent \in Id /\ job[r].proxy \in Id
  BY <1>3 DEF Asked
<1>. QED  BY <1>3, <1>4, RowNames DEF On, Is

\* A committed row is of a request that is done, or was there at first.
LEMMA ShownIsBorn ==
  ASSUME OnRows, NEW x \in Row, shown[x] # Absent
  PROVE  Born(x[2])
  BY DEF OnRows, RowOK, Born

\* Such a row, once gone, does not come back.
LEMMA GoneIsGone ==
  ASSUME Base, OnRows, \A r \in Request : Local(r), NEW x \in Row, Born(x[2]), shown[x] = Absent
  PROVE  row[x] = Absent
<1> SUFFICES ASSUME row[x] # Absent PROVE FALSE
  OBVIOUS
<1>1. x[2] \in Request /\ holder[x] = x[2]
  BY DEF OnRows, RowOK
<1>2. at[x[2]] = "done"
  BY <1>1 DEF Born
<1>3. HoldsNone(x[2])
  BY <1>1, <1>2 DEF Local
<1>. QED  BY <1>1, <1>3 DEF HoldsNone

\* What a request sees while it holds nothing.
LEMMA SeesShown ==
  ASSUME NEW r \in Request, HoldsNone(r), NEW x \in Row
  PROVE  Sees(r, x) = shown[x]
  BY DEF Sees, HoldsNone

\* A row that a request sees, one that nobody else holds, is the newest.
LEMMA SeesNewest ==
  ASSUME Base, NEW r \in Request, NEW x \in Row, holder[x] \in {0, r}
  PROVE  Sees(r, x) = row[x]
  BY DEF Base, LocksHold, Sees

\* The newest version of a row keeps the fixed columns.
LEMMA SameAsShown ==
  ASSUME OnRows, NEW x \in Row, NEW y \in Versions(x), shown[x] # Absent
  PROVE  Same(x, shown[x], y)
<1>1. CASE y = shown[x]
  BY <1>1 DEF Same
<1>2. CASE y = row[x] /\ row[x] # Absent
  BY <1>2 DEF OnRows, RowOK
<1>. QED  BY <1>1, <1>2 DEF Versions

-----------------------------------------------------------------------------
(* Steps before the commit. *)

\* Request r moves on alone, neither to its start nor to its end.
Turns(r) ==
  /\ job' = job /\ at[r] # "done" /\ at' \in [Request -> Steps] /\ note' \in [Request -> Note]
  /\ at'[r] \notin {"load", "done"}
  /\ \A q \in Request \ {r} : at'[q] = at[q] /\ note'[q] = note[q]

\* Version v may replace y as row x.
Alters(x, y, v) ==
  /\ x[1] = "firm" => Dated(v) /\ (v.payer = y.payer \/ (x[2] \in Request /\ at[x[2]] # "done"))
  /\ x[1] = "payer" => /\ v.to \in {y.to, None} \/ SameFirm(v.to, v.by)
                       /\ v.login \in {y.login, None} \/ RatepayerIs(v.login)
  /\ x[1] = "delegation" => (v.open => y.open)

Updates(x, v) ==
  /\ row[x] # Absent /\ v \in RowType(x)
  /\ Same(x, row[x], v) /\ Alters(x, row[x], v)

\* Request r may insert v as row x.
Adds(r, x, v) ==
  /\ x[2] = r /\ ~Is(r, {"DESTROY", "RESET"}) /\ VersionOK(x, v)
  /\ x[1] = "delegation" => \A z \in Row \ {x} : z[1] = "delegation" => \A y \in Versions(z) : ~SameDelegation(v, y)

\* Request r deletes row x, an agent with the login.
Removes(r, x) ==
  /\ row'[x] = Absent /\ Born(x[2]) /\ Deletes(r, x)
  /\ x[1] = "agent" /\ shown[x] # Absent => Deleted(r, User(shown[x].user))'

Kept(x) == row'[x] = row[x] /\ holder'[x] = holder[x]

Touched(r, x) ==
  /\ holder[x] \in {0, r} /\ holder'[x] = r
  /\ Updates(x, row'[x]) \/ Adds(r, x, row'[x]) \/ Removes(r, x)

Undone(r, x) == IF holder[x] = r THEN row'[x] = shown[x] /\ holder'[x] = 0 ELSE Kept(x)

\* Request r leaves the rows as the invariant has them, and what others hold alone.
Wrote(r) ==
  /\ RowsAre(Row)' /\ shown' = shown /\ holder' = [x \in Row |-> holder'[x]]
  /\ (\A x \in Row : Kept(x) \/ Touched(r, x)) \/ (\A x \in Row : Undone(r, x))

\* What others hold stays.
LEMMA OthersStay ==
  ASSUME NEW r \in Request, Wrote(r), NEW q \in Request, q # r, NEW x \in Row
  PROVE  /\ holder'[x] = q <=> holder[x] = q
         /\ holder[x] = q => row'[x] = row[x]
<1>1. q # 0
  BY RequestIds
<1>2. Kept(x) \/ Touched(r, x) \/ Undone(r, x)
  BY DEF Wrote
<1>. QED  BY <1>1, <1>2 DEF Kept, Touched, Undone

\* A row that nobody holds stays as committed.
LEMMA LocksStay ==
  ASSUME Base, NEW r \in Request, Wrote(r)
  PROVE  LocksHold(Row)' /\ holder' \in [Row -> 0..N]
<1>1. r # 0 /\ r \in 0..N
  BY RequestIds
<1> SUFFICES ASSUME NEW x \in Row
             PROVE  (holder'[x] = 0 => row'[x] = shown'[x]) /\ holder'[x] \in 0..N
  BY DEF LocksHold, Wrote
<1>2. Kept(x) \/ Touched(r, x) \/ Undone(r, x)
  BY DEF Wrote
<1>3. shown' = shown /\ (holder[x] = 0 => row[x] = shown[x]) /\ holder[x] \in 0..N
  BY DEF Wrote, Base, LocksHold
<1>4. 0 \in 0..N
  BY RequestIds
<1>5. CASE Kept(x)
  BY <1>3, <1>5 DEF Kept
<1>6. CASE Touched(r, x)
  <2>1. holder'[x] = r
    BY <1>6 DEF Touched
  <2>. QED  BY <1>1, <2>1
<1>7. CASE Undone(r, x)
  BY <1>3, <1>4, <1>7 DEF Undone, Kept
<1>. QED  BY <1>2, <1>5, <1>6, <1>7

\* What is committed means the same to the versions of rows.
LEMMA MeaningStays ==
  ASSUME NEW r \in Request, Turns(r), shown' = shown
  PROVE  /\ \A i : Born(i)' <=> Born(i)
         /\ \A i, f : HasFirm(i, f)' <=> HasFirm(i, f)
         /\ \A i, roles : HasRole(i, roles)' <=> HasRole(i, roles)
         /\ \A u, i : SameFirm(u, i)' <=> SameFirm(u, i)
         /\ \A i : RatepayerIs(i)' <=> RatepayerIs(i)
         /\ \A q \in Request : \A u : EnrolledBy(q, u)' <=> EnrolledBy(q, u)
         /\ \A q, kinds : Is(q, kinds)' <=> Is(q, kinds)
         /\ \A q, x : Deletes(q, x)' <=> Deletes(q, x)
         /\ \A x \in Row : \A y : VersionOK(x, y)' <=> VersionOK(x, y)
         /\ Wiped' <=> Wiped
<1>0. job' = job /\ shown' = shown /\ \A q \in Request : at'[q] = "done" <=> at[q] = "done"
  BY DEF Turns
<1>1. \A i : Born(i)' <=> Born(i)
  BY <1>0 DEF Born
<1>2. \A i, f : HasFirm(i, f)' <=> HasFirm(i, f)
  BY <1>0, <1>1 DEF HasFirm
<1>3. \A i, roles : HasRole(i, roles)' <=> HasRole(i, roles)
  BY <1>0, <1>1 DEF HasRole
<1>4. \A u, i : SameFirm(u, i)' <=> SameFirm(u, i)
  BY <1>0, <1>1 DEF SameFirm
<1>5. \A q, kinds : Is(q, kinds)' <=> Is(q, kinds)
  BY <1>0 DEF Is
<1>6. \A i : RatepayerIs(i)' <=> RatepayerIs(i)
  BY <1>3, <1>5 DEF RatepayerIs
<1>7. \A q \in Request : \A u : EnrolledBy(q, u)' <=> EnrolledBy(q, u)
  BY <1>0, <1>2, <1>3, <1>5 DEF EnrolledBy, InWard
<1>8. \A q, x : Deletes(q, x)' <=> Deletes(q, x)
  BY <1>5 DEF Deletes
<1>9. \A x \in Row : \A y : VersionOK(x, y)' <=> VersionOK(x, y)
  <2> SUFFICES ASSUME NEW x \in Row, NEW y PROVE VersionOK(x, y)' <=> VersionOK(x, y)
    OBVIOUS
  <2>1. FirmOK(x, y)' <=> FirmOK(x, y)
    BY <1>0, <1>5 DEF FirmOK
  <2>2. UserOK(x, y)' <=> UserOK(x, y)
    BY <1>0, <1>5 DEF UserOK, LoginOf, On
  <2>3. AgentOK(x, y)' <=> AgentOK(x, y)
    BY <1>5 DEF AgentOK
  <2>4. PayerOK(x, y)' <=> PayerOK(x, y)
    BY <1>0, <1>4, <1>5, <1>6, <1>7 DEF PayerOK
  <2>5. DelegationOK(x, y)' <=> DelegationOK(x, y)
    BY <1>3 DEF DelegationOK
  <2>. QED  BY <2>1, <2>2, <2>3, <2>4, <2>5 DEF VersionOK
<1>10. Wiped' <=> Wiped
  BY <1>0, <1>5 DEF Wiped
<1>. QED  BY <1>1, <1>2, <1>3, <1>4, <1>5, <1>6, <1>7, <1>8, <1>9, <1>10

\* The versions of a row that is written are as the invariant has them.
LEMMA VersionStays ==
  ASSUME OnRows, NEW r \in Request, Turns(r), NEW x \in Row, Updates(x, row'[x]), row'[x] # Absent
  PROVE  VersionOK(x, row'[x])
<1> DEFINE y == row[x]
           v == row'[x]
<1>1. VersionOK(x, y)
  BY VersionIs DEF Updates, Versions
<1>2. v \in RowType(x) /\ Same(x, y, v) /\ Alters(x, y, v)
  BY DEF Updates
<1> HIDE DEF y, v
<1>3. x[1] = "firm" => FirmOK(x, v)
  BY <1>1, <1>2 DEF VersionOK, FirmOK, Alters
<1>4. x[1] = "user" => UserOK(x, v)
  BY <1>1, <1>2 DEF VersionOK, UserOK, LoginOf, Same
<1>5. x[1] = "agent" => AgentOK(x, v)
  BY <1>1, <1>2 DEF VersionOK, AgentOK, Same
<1>6. x[1] = "payer" => PayerOK(x, v)
  <2> SUFFICES ASSUME x[1] = "payer" PROVE PayerOK(x, v)
    OBVIOUS
  <2>1. PayerOK(x, y) /\ v.by = y.by /\ v.ward = y.ward
    BY <1>1, <1>2 DEF VersionOK, Same
  <2>2. /\ v.to \in {y.to, None} \/ SameFirm(v.to, v.by)
        /\ v.login \in {y.login, None} \/ RatepayerIs(v.login)
    BY <1>2 DEF Alters
  <2>. QED  BY <2>1, <2>2 DEF PayerOK
<1>7. x[1] = "delegation" => DelegationOK(x, v)
  BY <1>1, <1>2 DEF VersionOK, DelegationOK, Same
<1>8. VersionOK(x, v)
  BY <1>2, <1>3, <1>4, <1>5, <1>6, <1>7 DEF VersionOK
<1>. QED  BY <1>8 DEF v

\* A row that is written.
LEMMA TouchedStays ==
  ASSUME Base, OnRows, NEW r \in Request, Turns(r), Wrote(r), NEW x \in Row, Touched(r, x)
  PROVE  RowOK(x)'
<1>0. shown' = shown /\ at[r] # "done" /\ r # 0
  BY RequestIds DEF Wrote, Turns
<1>1. /\ x[2] \in Request /\ at[x[2]] # "done" => shown[x] = Absent /\ holder[x] \in {0, x[2]}
      /\ shown[x] = Absent /\ row[x] # Absent =>
           x[2] \in Request /\ holder[x] = x[2] /\ ~Is(x[2], {"DESTROY", "RESET"})
      /\ shown[x] # Absent /\ row[x] # Absent => Same(x, shown[x], row[x])
      /\ shown[x] # Absent => VersionOK(x, shown[x])
      /\ holder[x] = 0 => row[x] = shown[x]
  BY DEF OnRows, RowOK, Versions, Base, LocksHold
<1>2. holder[x] \in {0, r} /\ holder'[x] = r
  BY DEF Touched
<1>3. \A y : VersionOK(x, y)' <=> VersionOK(x, y)
  BY <1>0, MeaningStays
<1>4. /\ \A i : Born(i)' <=> Born(i)
      /\ \A q, kinds : Is(q, kinds)' <=> Is(q, kinds)
      /\ \A q : Deletes(q, x)' <=> Deletes(q, x)
      /\ \A q \in Request : at'[q] = "done" <=> at[q] = "done"
  BY <1>0, MeaningStays DEF Turns
<1>5. CASE Updates(x, row'[x]) /\ row'[x] # Absent
  <2>1. VersionOK(x, row'[x]) /\ row[x] # Absent /\ Same(x, row[x], row'[x])
    BY <1>5, VersionStays DEF Updates
  <2>2. \A y \in Versions(x)' : VersionOK(x, y)'
    BY <1>0, <1>1, <1>3, <2>1 DEF Versions
  <2>3. x[2] \in Request /\ at'[x[2]] # "done" => shown'[x] = Absent /\ holder'[x] \in {0, x[2]}
    BY <1>0, <1>1, <1>2, <1>4, <2>1
  <2>4. shown'[x] = Absent /\ row'[x] # Absent =>
          x[2] \in Request /\ holder'[x] = x[2] /\ ~Is(x[2], {"DESTROY", "RESET"})'
    BY <1>0, <1>1, <1>2, <1>4, <2>1
  <2>5. shown'[x] # Absent /\ row'[x] # Absent => Same(x, shown'[x], row'[x])
    BY <1>0, <1>1, <2>1 DEF Same
  <2>. QED  BY <1>5, <2>2, <2>3, <2>4, <2>5 DEF RowOK
<1>6. CASE Adds(r, x, row'[x]) /\ row'[x] # Absent
  <2>1. x[2] = r /\ ~Is(r, {"DESTROY", "RESET"}) /\ VersionOK(x, row'[x]) /\ shown[x] = Absent
    BY <1>0, <1>1, <1>6 DEF Adds
  <2>. QED  BY <1>0, <1>2, <1>3, <1>4, <1>6, <2>1 DEF RowOK, Versions
<1>7. CASE Removes(r, x)
  <2>1. row'[x] = Absent /\ Born(x[2]) /\ Deletes(r, x)
        /\ (x[1] = "agent" /\ shown[x] # Absent => Deleted(r, User(shown[x].user))')
    BY <1>7 DEF Removes
  <2>2. \A y \in Versions(x)' : VersionOK(x, y)'
    BY <1>0, <1>1, <1>3, <2>1 DEF Versions
  <2>3. x[2] \in Request => at'[x[2]] = "done"
    BY <1>4, <2>1 DEF Born
  <2>. QED  BY <1>0, <1>2, <1>4, <2>1, <2>2, <2>3 DEF RowOK
<1>8. Updates(x, row'[x]) \/ Adds(r, x, row'[x]) => row'[x] # Absent
  BY TypedIsRow DEF Updates, Adds, VersionOK
<1>. QED  BY <1>5, <1>6, <1>7, <1>8 DEF Touched

\* A row that is left alone or undone.
LEMMA RestStays ==
  ASSUME Base, OnRows, NEW r \in Request, Turns(r), Wrote(r), NEW x \in Row,
         \/ Kept(x) /\ \A z \in Row : Kept(z) \/ Touched(r, z)
         \/ \A z \in Row : Undone(r, z)
  PROVE  RowOK(x)'
<1>0. shown' = shown /\ at[r] # "done" /\ r # 0
  BY RequestIds DEF Wrote, Turns
<1>1. /\ \A y \in Versions(x) : VersionOK(x, y)
      /\ x[2] \in Request /\ at[x[2]] # "done" => shown[x] = Absent /\ holder[x] \in {0, x[2]}
      /\ shown[x] = Absent /\ row[x] # Absent =>
           x[2] \in Request /\ holder[x] = x[2] /\ ~Is(x[2], {"DESTROY", "RESET"})
      /\ shown[x] # Absent /\ row[x] # Absent => Same(x, shown[x], row[x])
      /\ row[x] = Absent /\ holder[x] # 0 => Deletes(holder[x], x)
      /\ x[1] = "agent" /\ row[x] = Absent /\ shown[x] # Absent => Deleted(holder[x], User(shown[x].user))
      /\ holder[x] = 0 => row[x] = shown[x]
  BY DEF OnRows, RowOK, Base, LocksHold
<1>2. /\ \A y : VersionOK(x, y)' <=> VersionOK(x, y)
      /\ \A q, kinds : Is(q, kinds)' <=> Is(q, kinds)
      /\ \A q : Deletes(q, x)' <=> Deletes(q, x)
      /\ \A q \in Request : at'[q] = "done" <=> at[q] = "done"
  BY <1>0, MeaningStays DEF Turns
<1>3. Kept(x) \/ (holder[x] = r /\ row'[x] = shown[x] /\ holder'[x] = 0)
  BY DEF Undone
<1>4. Versions(x)' \subseteq Versions(x)
  BY <1>0, <1>3 DEF Versions, Kept
<1>5. Same(x, shown[x], shown[x])
  BY DEF Same
<1>6. ASSUME x[1] = "agent", row'[x] = Absent, shown[x] # Absent
      PROVE  holder'[User(shown[x].user)] = holder'[x] /\ row'[User(shown[x].user)] = Absent
  <2> DEFINE u == User(shown[x].user)
             h == holder[x]
  <2>1. row[x] = Absent /\ h = holder'[x] /\ h # 0
    BY <1>1, <1>3, <1>6 DEF Kept
  <2>2. Deleted(h, u) /\ Deletes(h, x)
    BY <1>1, <1>6, <2>1
  <2>3. u \in Row
    <3>1. shown[x] \in RowType(x)
      BY <1>1, <1>6 DEF Versions, VersionOK
    <3>2. shown[x].user \in Id
      BY <1>6, <3>1, RowColumns
    <3>. QED  BY <3>2, RowNames
  <2>4. CASE h # r
    <3>1. Kept(u) \/ Touched(r, u) \/ Undone(r, u)
      BY <2>3 DEF Wrote
    <3>. QED  BY <2>1, <2>2, <2>4, <3>1 DEF Deleted, Kept, Touched, Undone
  <2>5. CASE h = r
    <3>1. Kept(u) \/ Touched(r, u)
      BY <1>0, <1>6, <2>1, <2>3, <2>5 DEF Undone
    <3>2. ~Updates(u, row'[u])
      BY <2>2 DEF Updates, Deleted
    <3>3. ~Adds(r, u, row'[u])
      BY <2>2, <2>5 DEF Adds, Deletes, Is
    <3>. QED  BY <2>1, <2>2, <2>5, <3>1, <3>2, <3>3 DEF Deleted, Kept, Touched, Removes
  <2>. QED  BY <2>4, <2>5
<1>7. \A y \in Versions(x)' : VersionOK(x, y)'
  BY <1>1, <1>2, <1>4
<1>8. x[2] \in Request /\ at'[x[2]] # "done" => shown'[x] = Absent /\ holder'[x] \in {0, x[2]}
  BY <1>0, <1>1, <1>2, <1>3 DEF Kept
<1>9. shown'[x] = Absent /\ row'[x] # Absent =>
        x[2] \in Request /\ holder'[x] = x[2] /\ ~Is(x[2], {"DESTROY", "RESET"})'
  BY <1>0, <1>1, <1>2, <1>3 DEF Kept
<1>10. shown'[x] # Absent /\ row'[x] # Absent => Same(x, shown'[x], row'[x])
  BY <1>0, <1>1, <1>3, <1>5 DEF Kept
<1>11. (row[x] = Absent /\ holder[x] # 0 => Deletes(holder[x], x))'
  BY <1>0, <1>1, <1>3 DEF Kept, Deletes, Is, Turns
<1>12. (x[1] = "agent" /\ row[x] = Absent /\ shown[x] # Absent => Deleted(holder[x], User(shown[x].user)))'
  BY <1>0, <1>6 DEF Deleted
<1>. QED  BY <1>7, <1>8, <1>9, <1>10, <1>11, <1>12 DEF RowOK

\* What was apart of two rows stays so, in what is left of them and in what replaces it.
LEMMA ApartStays ==
  ASSUME Base, OnRows, NEW r \in Request, Turns(r), Wrote(r), NEW x \in Row, NEW z \in Row, x # z
  PROVE  Apart(x, z)'
<1>0. shown' = shown /\ at[r] # "done" /\ r \in Request /\ Apart(x, z) /\ Apart(z, x)
  BY DEF Wrote, Turns, OnRows
\* A version is new, or as far apart from others as an older one.
<1> DEFINE Newer(w, v) == Adds(r, w, v) /\ v # Absent
           Older(w, v, y) == /\ y \in Versions(w) /\ (w[1] = "agent" => v.user = y.user)
                             /\ w[1] = "delegation" => v.payer = y.payer /\ v.proxy = y.proxy /\ (v.open => y.open)
<1>1. ASSUME NEW w \in Row, NEW v \in Versions(w)'
      PROVE  Newer(w, v) \/ \E y : Older(w, v, y)
  <2>1. CASE v \in Versions(w)
    BY <2>1
  <2>2. CASE v \notin Versions(w)
    <3>1. v = row'[w] /\ v # Absent /\ v # row[w] /\ v # shown[w]
      BY <1>0, <2>2 DEF Versions
    <3>2. Updates(w, v) \/ Adds(r, w, v)
      BY <3>1 DEF Wrote, Kept, Undone, Touched, Removes
    <3>3. CASE Updates(w, v)
      <4>1. row[w] \in Versions(w) /\ Same(w, row[w], v) /\ Alters(w, row[w], v)
        BY <3>3 DEF Updates, Versions
      <4>2. Older(w, v, row[w])
        BY <4>1 DEF Same, Alters
      <4>. QED  BY <4>2
    <3>. QED  BY <3>1, <3>2, <3>3
  <2>. QED  BY <2>1, <2>2
<1>2. ASSUME NEW y \in Versions(x)', NEW v \in Versions(z)', x[1] = "agent", z[1] = "agent"
      PROVE  y.user # v.user
  <2>0. x[2] # z[2]
    BY <1>2, RowNames
  <2>1. \A w \in Row : \A u \in Versions(w) : w[1] = "agent" => AgentOK(w, u)
    BY VersionIs DEF VersionOK
  <2>2. ASSUME NEW w \in Row, NEW u \in Versions(w)', w[1] = "agent"
        PROVE  IF w[2] \in Request THEN u.user = w[2] ELSE u.user \notin Request
    <3>1. CASE Newer(w, u)
      BY <2>2, <3>1 DEF Adds, VersionOK, AgentOK
    <3>2. ASSUME NEW o, Older(w, u, o) PROVE IF w[2] \in Request THEN u.user = w[2] ELSE u.user \notin Request
      BY <2>1, <2>2, <3>2 DEF AgentOK
    <3>. QED  BY <1>1, <3>1, <3>2
  <2>3. CASE x[2] \in Request \/ z[2] \in Request
    BY <1>2, <2>0, <2>2, <2>3
  <2>4. CASE x[2] \notin Request /\ z[2] \notin Request
    <3>1. ~Newer(x, y) /\ ~Newer(z, v)
      BY <2>4 DEF Adds
    <3>2. (\E o : Older(x, y, o)) /\ (\E o : Older(z, v, o))
      BY <1>1, <3>1
    <3>. QED  BY <1>0, <1>2, <3>2 DEF Apart
  <2>. QED  BY <2>3, <2>4
<1>3. ASSUME NEW y \in Versions(x)', NEW v \in Versions(z)', x[1] = "delegation", z[1] = "delegation"
      PROVE  ~SameDelegation(y, v)
  <2>0. x[2] # z[2]
    BY <1>3, RowNames
  <2>1. CASE Newer(x, y)
    <3>1. ~Newer(z, v)
      BY <2>0, <2>1 DEF Adds
    <3>2. PICK o : Older(z, v, o)
      BY <1>1, <3>1
    <3>3. ~SameDelegation(y, o)
      BY <1>3, <2>1, <3>2 DEF Adds
    <3>. QED  BY <1>3, <3>2, <3>3 DEF SameDelegation
  <2>2. CASE Newer(z, v)
    <3>1. ~Newer(x, y)
      BY <2>0, <2>2 DEF Adds
    <3>2. PICK o : Older(x, y, o)
      BY <1>1, <3>1
    <3>3. ~SameDelegation(v, o)
      BY <1>3, <2>2, <3>2 DEF Adds
    <3>. QED  BY <1>3, <3>2, <3>3 DEF SameDelegation
  <2>3. ASSUME NEW o, Older(x, y, o), NEW p, Older(z, v, p) PROVE ~SameDelegation(y, v)
    <3>1. ~SameDelegation(o, p)
      BY <1>0, <1>3, <2>3 DEF Apart
    <3>. QED  BY <1>3, <2>3, <3>1 DEF SameDelegation
  <2>. QED  BY <1>1, <2>1, <2>2, <2>3
<1>. QED  BY <1>2, <1>3 DEF Apart

\* What another request has done and knows stays so.
LEMMA LocalStays ==
  ASSUME PeopleInv, NEW r \in Request, Turns(r), Wrote(r), NEW q \in Request, q # r
  PROVE  Local(q)'
<1>0. /\ Base /\ OnRows /\ Local(q) /\ shown' = shown /\ job' = job /\ at'[q] = at[q] /\ note'[q] = note[q]
      /\ at[r] # "done"
  BY DEF PeopleInv, Wrote, Turns
<1>1. \A x \in Row : (holder'[x] = q <=> holder[x] = q) /\ (holder[x] = q => row'[x] = row[x])
  BY OthersStay
<1>2. HoldsNone(q)' <=> HoldsNone(q)
  BY <1>1 DEF HoldsNone
<1>3. \A x \in Row : (Has(q, x)' <=> Has(q, x)) /\ (Deleted(q, x)' <=> Deleted(q, x))
  BY <1>1 DEF Has, Deleted
<1>4. /\ \A i : Born(i)' <=> Born(i)
      /\ \A i, roles : HasRole(i, roles)' <=> HasRole(i, roles)
      /\ \A u, i : SameFirm(u, i)' <=> SameFirm(u, i)
      /\ \A u : EnrolledBy(q, u)' <=> EnrolledBy(q, u)
      /\ \A kinds : Is(q, kinds)' <=> Is(q, kinds)
      /\ Wiped' <=> Wiped
  BY <1>0, MeaningStays
<1>5. q \in Id /\ \A i \in Id : Firm(i) \in Row /\ User(i) \in Row /\ Bill(i) \in Row
  BY RequestIds, RowNames
<1>6. On(q) \in Row /\ On(q)' = On(q)
  BY <1>0, AskedIs DEF On
<1>7. Is(q, {"ONBOARD"}) => OnboardOK(q)'
  <2>1. SUFFICES ASSUME OnboardOK(q) PROVE OnboardOK(q)'
    BY <1>0 DEF Local
  <2>2. Has(q, Firm(q)) => row'[Firm(q)] = row[Firm(q)]
    BY <1>1, <1>5 DEF Has
  <2>3. \A x \in {Firm(q), User(q), Bill(q)} : Has(q, x)' <=> Has(q, x)
    BY <1>3, <1>5
  <2>4. /\ at'[q] \in {"name", "login", "payer", "bill", "commit"} => Has(q, Firm(q))'
        /\ at'[q] \in {"payer", "bill", "commit"} /\ job'[q].login => Has(q, User(q))'
        /\ at'[q] \in {"bill", "commit"} => row'[Firm(q)].payer = q
        /\ at'[q] = "commit" => Has(q, Bill(q))'
    BY <1>0, <2>1, <2>2, <2>3 DEF OnboardOK
  <2>5. at'[q] = "insert" => Dated(job'[q])
    BY <1>0, <2>1 DEF OnboardOK
  <2>6. at'[q] = "done" =>
          /\ shown'[Firm(q)] # Absent => shown'[Bill(q)] # Absent /\ (job'[q].login => shown'[User(q)] # Absent)
          /\ ~Wiped' => shown'[Firm(q)] # Absent
    BY <1>0, <1>4, <2>1 DEF OnboardOK
  <2>. QED  BY <2>4, <2>5, <2>6 DEF OnboardOK
<1>8. Is(q, {"ASSIGN"}) => AssignOK(q)'
  <2>1. SUFFICES ASSUME Is(q, {"ASSIGN"}), at[q] = "save"
                 PROVE  Born(On(q)[2]) /\ note[q].by # None /\ \A y \in Versions(On(q))' : SameFirm(note[q].by, y.by)
    BY <1>0, <1>4, <1>6 DEF AssignOK
  <2>2. Born(On(q)[2]) /\ note[q].by # None /\ (\A y \in Versions(On(q)) : SameFirm(note[q].by, y.by))
        /\ On(q)[1] = "payer"
    <3>1. job[q].kind = "ASSIGN" /\ AssignOK(q)
      BY <1>0, <2>1 DEF Is, Local
    <3>2. On(q)[1] = "payer"
      BY <1>0, <3>1, AskedIs DEF Target
    <3>. QED  BY <2>1, <3>1, <3>2 DEF AssignOK
  <2>3. ASSUME NEW y \in Versions(On(q))', y \notin Versions(On(q)) PROVE SameFirm(note[q].by, y.by)
    <3>1. y = row'[On(q)] /\ y # Absent /\ y # row[On(q)] /\ y # shown[On(q)]
      BY <1>0, <1>6, <2>3 DEF Versions
    <3>2. Updates(On(q), y) \/ Adds(r, On(q), y)
      BY <1>6, <3>1 DEF Wrote, Kept, Undone, Touched, Removes
    <3>3. ~Adds(r, On(q), y)
      BY <1>0, <2>2 DEF Adds, Born
    <3>4. row[On(q)] \in Versions(On(q)) /\ y.by = row[On(q)].by
      BY <2>2, <3>2, <3>3 DEF Updates, Versions, Same
    <3>. QED  BY <2>2, <3>4
  <2>. QED  BY <2>2, <2>3
<1>9. Is(q, {"ENROL", "REPLAY"}) => EnrolOK(q)'
  BY <1>0, <1>4 DEF Local, EnrolOK
<1>10. Is(q, {"DELEGATE"}) => DelegateOK(q)'
  BY <1>0, <1>2, <1>4 DEF Local, DelegateOK
<1>11. Is(q, {"DESTROY"}) => DestroyOK(q)'
  BY <1>0, <1>2, <1>4, <1>6 DEF Local, DestroyOK
<1>12. Is(q, {"REVOKE"}) => RevokeOK(q)'
  BY <1>0, <1>1, <1>3, <1>4, <1>6 DEF Local, RevokeOK, Has
<1>13. Is(q, {"RESET"}) => ResetOK(q)'
  <2>1. SUFFICES ASSUME ResetOK(q) PROVE ResetOK(q)'
    BY <1>0 DEF Local
  <2>2. \A i \in Id : (Takes(q, i)' <=> Takes(q, i)) /\ (Deleted(q, Firm(i))' <=> Deleted(q, Firm(i)))
    BY <1>3, <1>5 DEF Takes
  <2>. QED  BY <1>0, <1>4, <2>1, <2>2 DEF ResetOK
<1>14. Is(q, {"DATES"}) /\ at'[q] = "save" => Dated(note'[q])
  BY <1>0 DEF Local
<1>15. at'[q] \in {"load", "done"} => HoldsNone(q)'
  BY <1>0, <1>2 DEF Local
<1>. QED  BY <1>4, <1>7, <1>8, <1>9, <1>10, <1>11, <1>12, <1>13, <1>14, <1>15 DEF Local

\* What a step before the commit does.
Fine(r) == Turns(r) /\ Wrote(r) /\ Local(r)'

\* Such a step keeps the invariant.
LEMMA FineKeeps ==
  ASSUME PeopleInv, NEW r \in Request, Fine(r)
  PROVE  PeopleInv'
<1>0. Base /\ OnRows /\ Turns(r) /\ Wrote(r) /\ Local(r)'
  BY DEF PeopleInv, Fine
<1>1. Base'
  <2>1. job' \in {w[2] : w \in Workloads} /\ at' \in [Request -> Steps] /\ note' \in [Request -> Note]
    BY <1>0 DEF Turns, Base
  <2>. QED  BY <1>0, <2>1, LocksStay DEF Base, Wrote
<1>2. \A x \in Row : RowOK(x)'
  <2> SUFFICES ASSUME NEW x \in Row PROVE RowOK(x)'
    OBVIOUS
  <2>1. CASE Touched(r, x)
    BY <1>0, <2>1, TouchedStays
  <2>2. CASE ~Touched(r, x)
    <3>1. \/ Kept(x) /\ \A z \in Row : Kept(z) \/ Touched(r, z)
          \/ \A z \in Row : Undone(r, z)
      BY <1>0, <2>2 DEF Wrote
    <3>. QED  BY <1>0, <3>1, RestStays
  <2>. QED  BY <2>1, <2>2
<1>3. \A x \in Row : \A z \in Row \ {x} : Apart(x, z)'
  BY <1>0, ApartStays
<1>4. \A q \in Request : Local(q)'
  BY <1>0, LocalStays
<1>5. RecordsKeepTheirParents'
  BY <1>0 DEF PeopleInv, RecordsKeepTheirParents, Wrote
<1>. QED  BY <1>1, <1>2, <1>3, <1>4, <1>5 DEF PeopleInv, OnRows

-----------------------------------------------------------------------------
(* The parts of a step. *)

\* Requests whose steps rely on what earlier ones of theirs found.
Careful == {"ONBOARD", "DATES", "ASSIGN", "ENROL", "REPLAY", "DELEGATE", "DESTROY", "REVOKE", "RESET"}

\* A step that notes nothing.
LEMMA MoveTurns ==
  ASSUME Base, NEW r \in Request, at[r] # "done", NEW step \in Steps \ {"load", "done"}, Move(r, step)
  PROVE  Turns(r) /\ at'[r] = step /\ note' = note /\ job' = job
<1>1. at' = [at EXCEPT ![r] = step] /\ job' = job /\ note' = note
  BY DEF Move, Go
<1>. QED  BY <1>1 DEF Turns, Base

\* One that does.
LEMMA NoteTurns ==
  ASSUME Base, NEW r \in Request, at[r] # "done", NEW step \in Steps \ {"load", "done"}, NEW n \in Note,
         Go(r, step), note' = [note EXCEPT ![r] = n], job' = job
  PROVE  Turns(r) /\ at'[r] = step /\ note'[r] = n
  BY DEF Turns, Base, Go

\* A step that writes nothing.
LEMMA ReadWrote ==
  ASSUME Base, ReadOnly, NEW r \in Request
  PROVE  Wrote(r) /\ row' = row /\ shown' = shown /\ holder' = holder
<1>1. RowsAre(Row) /\ holder = [x \in Row |-> holder[x]]
  BY DEF Base
<1>2. holder' = [x \in Row |-> holder'[x]]
  BY <1>1, HoldersKept
<1>. QED  BY <1>1, <1>2 DEF ReadOnly, rows, RowsAre, Wrote, Kept

\* UPDATE, INSERT or DELETE of one row.
LEMMA PutWrote ==
  ASSUME Base, NEW r \in Request, NEW x \in Row, NEW v, Put(r, x, v), Updates(x, v) \/ Adds(r, x, v)
  PROVE  /\ Wrote(r) /\ row'[x] = v /\ holder'[x] = r
         /\ \A y \in Row \ {x} : row'[y] = row[y] /\ holder'[y] = holder[y]
<1>1. RowsAre(Row)
  BY DEF Base
<1>2. /\ RowsAre(Row)' /\ holder[x] \in {0, r} /\ row'[x] = v /\ holder'[x] = r
      /\ \A y \in Row \ {x} : row'[y] = row[y] /\ holder'[y] = holder[y]
      /\ shown' = shown
  BY <1>1, PutDoes
<1>3. Touched(r, x)
  BY <1>2 DEF Touched
<1>4. \A y \in Row : Kept(y) \/ Touched(r, y)
  BY <1>2, <1>3 DEF Kept
<1>5. holder' = [y \in Row |-> holder'[y]]
  BY <1>1, HoldersKept
<1>. QED  BY <1>2, <1>4, <1>5 DEF Wrote

\* The same of several rows.
LEMMA WriteWrote ==
  ASSUME Base, NEW r \in Request, NEW new, Write(r, new),
         \A x \in Row \cap DOMAIN new : Updates(x, new[x]) \/ Adds(r, x, new[x]) \/ Removes(r, x)
  PROVE  Wrote(r)
<1>1. RowsAre(Row)
  BY DEF Base
<1>2. /\ RowsAre(Row)' /\ \A x \in DOMAIN new : holder[x] \in {0, r}
      /\ \A x \in Row : row'[x] = IF x \in DOMAIN new THEN new[x] ELSE row[x]
      /\ \A x \in Row : holder'[x] = IF x \in DOMAIN new THEN r ELSE holder[x]
      /\ shown' = shown
  BY <1>1, WriteDoes
<1>3. ASSUME NEW x \in Row PROVE Kept(x) \/ Touched(r, x)
  <2>1. CASE x \in DOMAIN new
    BY <1>2, <2>1 DEF Touched
  <2>2. CASE x \notin DOMAIN new
    BY <1>2, <2>2 DEF Kept
  <2>. QED  BY <2>1, <2>2
<1>4. holder' = [x \in Row |-> holder'[x]]
  BY <1>1, HoldersKept
<1>. QED  BY <1>2, <1>3, <1>4 DEF Wrote

\* ROLLBACK.
LEMMA UndoWrote ==
  ASSUME Base, NEW r \in Request, Undo(HeldBy(r))
  PROVE  Wrote(r)
<1>1. RowsAre(Row) /\ HeldBy(r) = {x \in Row : holder[x] = r}
  BY DEF Base, HeldBy, RowsAre
<1>2. /\ RowsAre(Row)' /\ shown' = shown
      /\ \A x \in Row : row'[x] = IF holder[x] = r THEN shown[x] ELSE row[x]
      /\ \A x \in Row : holder'[x] = IF holder[x] = r THEN 0 ELSE holder[x]
  BY <1>1, UndoDoes
<1>3. holder' = [x \in Row |-> holder'[x]]
  BY <1>1, HoldersKept
<1>. QED  BY <1>2, <1>3 DEF Wrote, Undone, Kept

\* A step that relies on nothing further.
LEMMA PlainIsFine ==
  ASSUME NEW r \in Request, Turns(r), Wrote(r), ~Is(r, Careful)
  PROVE  Fine(r)
<1>1. ~Is(r, Careful)' /\ at'[r] \notin {"load", "done"}
  BY DEF Turns, Is
<1>. QED  BY <1>1 DEF Fine, Local, Is, Careful

\* A request that is refused or fails is at its end.
LEMMA EndIsFine ==
  ASSUME NEW r \in Request, Turns(r), Wrote(r), at'[r] \in {"refused", "failed"}
  PROVE  Fine(r)
  BY DEF Fine, Local, OnboardOK, AssignOK, EnrolOK, DelegateOK, DestroyOK, RevokeOK, ResetOK

\* An update after which it commits.
LEMMA CommitIsFine ==
  ASSUME NEW r \in Request, Turns(r), Wrote(r), at'[r] = "commit", ~Is(r, {"ONBOARD", "REVOKE", "RESET"})
  PROVE  Fine(r)
<1>1. ~Is(r, {"ONBOARD", "REVOKE", "RESET"})'
  BY DEF Turns, Is
<1>. QED  BY <1>1 DEF Fine, Local, AssignOK, EnrolOK, DelegateOK, DestroyOK, Is

\* A refusal.
LEMMA RefuseIsFine ==
  ASSUME Base, NEW r \in Request, at[r] # "done", NEW step \in {"refused", "failed"}, ReadOnly, Move(r, step)
  PROVE  Fine(r)
<1>1. step \in Steps \ {"load", "done"}
  BY DEF Steps, Ended
<1>. QED  BY <1>1, MoveTurns, ReadWrote, EndIsFine

\* An error.
LEMMA FailIsFine ==
  ASSUME Base, NEW r \in Request, at[r] # "done", NEW step \in {"refused", "failed"}, Fail(r, step)
  PROVE  Fine(r)
<1>1. step \in Steps \ {"load", "done"}
  BY DEF Steps, Ended
<1>2. Undo(HeldBy(r)) /\ Move(r, step)
  BY DEF Fail
<1>. QED  BY <1>1, <1>2, MoveTurns, UndoWrote, EndIsFine

\* A check that a plain request makes.
LEMMA CheckIsFine ==
  ASSUME Base, NEW r \in Request, NEW fine, NEW next \in Steps \ {"load", "done"}, Check(r, fine, next), ~Is(r, Careful)
  PROVE  Fine(r)
<1>0. at[r] # "done"
  BY DEF Check
<1>1. CASE ReadOnly /\ Move(r, next)
  BY <1>0, <1>1, MoveTurns, ReadWrote, PlainIsFine
<1>2. CASE ReadOnly /\ Move(r, "refused")
  BY <1>0, <1>2, RefuseIsFine
<1>. QED  BY <1>1, <1>2 DEF Check, Refuse

\* An insert, and what it does when the row is there.
LEMMA InsertIsFine ==
  ASSUME Base, NEW r \in Request, NEW step, step # "done", NEW next \in Steps \ {"load", "done"}, NEW x \in Row, NEW new,
         Insert(r, step, x, new, next), Rivals(r, x, new) = {} => Adds(r, x, new)
  PROVE  \/ Fine(r)
         \/ /\ Turns(r) /\ Wrote(r) /\ at'[r] = next /\ note' = note
            /\ row'[x] = new /\ holder'[x] = r /\ \A y \in Row \ {x} : row'[y] = row[y] /\ holder'[y] = holder[y]
<1>0. at[r] # "done"
  BY DEF Insert
<1>1. CASE Rivals(r, x, new) = {}
  <2>1. Put(r, x, new) /\ Move(r, next)
    BY <1>1 DEF Insert
  <2>. QED  BY <1>0, <1>1, <2>1, MoveTurns, PutWrote
<1>2. CASE Rivals(r, x, new) # {}
  <2>1. Fail(r, "failed")
    BY <1>2 DEF Insert
  <2>. QED  BY <1>0, <2>1, FailIsFine
<1>. QED  BY <1>1, <1>2

\* save(update_fields).
LEMMA SaveIsFine ==
  ASSUME Base, NEW r \in Request, NEW x \in Row, NEW new, row[x] # Absent => Updates(x, new), Save(r, x, new)
  PROVE  \/ Fine(r)
         \/ Turns(r) /\ Wrote(r) /\ at'[r] = "commit" /\ row'[x] = new /\ holder'[x] = r /\ row[x] # Absent
<1>0. at[r] # "done" /\ "commit" \in Steps \ {"load", "done"}
  BY DEF Save, Steps, Ended
<1>1. CASE row[x] # Absent
  <2>1. Put(r, x, new) /\ Move(r, "commit")
    BY <1>1 DEF Save
  <2>. QED  BY <1>0, <1>1, <2>1, MoveTurns, PutWrote
<1>2. CASE row[x] = Absent
  <2>1. Fail(r, "failed")
    BY <1>2 DEF Save
  <2>. QED  BY <1>0, <2>1, FailIsFine
<1>. QED  BY <1>1, <1>2

-----------------------------------------------------------------------------
(* Logins, firms, agents and grants: requests that only write one row. *)

\* The row that a request saves is of its table, and of columns that it may change.
LEMMA SavedRow ==
  ASSUME Base, OnRows, NEW x \in Row, row[x] # Absent
  PROVE  row[x] \in RowType(x) /\ VersionOK(x, row[x])
  BY VersionIs DEF Versions

\* The steps that requests go on to.
LEMMA NextSteps == {"insert", "name", "login", "agent", "payer", "bill", "save", "select", "delete", "commit"}
                     \subseteq Steps \ {"load", "done"}
  BY DEF Steps, Ended

\* StakeholderViewSet.deactivate and its like.
LEMMA DeactivateIsFine == ASSUME PeopleInv, NEW r \in Request, Deactivate(r) PROVE Fine(r)
<1>0. Base /\ OnRows /\ job[r].kind = "DEACTIVATE" /\ ~Is(r, Careful)
  BY DEF PeopleInv, Deactivate, Is, Careful
<1>1. On(r) \in Row /\ On(r)[1] = "user" /\ job[r] \in Asked
  BY <1>0, AskedIs DEF Target
<1>2. ASSUME NEW fine, NEW next \in {"save", "commit"}, Check(r, fine, next) PROVE Fine(r)
  BY <1>0, <1>2, NextSteps, CheckIsFine
<1>3. CASE Save(r, On(r), [row[On(r)] EXCEPT !.active = FALSE])
  <2> DEFINE y == row[On(r)]
             v == [row[On(r)] EXCEPT !.active = FALSE]
  <2>1. ASSUME y # Absent PROVE Updates(On(r), v)
    <3>1. y \in UserRow /\ RowType(On(r)) = UserRow /\ VersionOK(On(r), y)
      BY <1>0, <1>1, <2>1, SavedRow, RowTypes
    <3>2. v \in UserRow /\ v.role = y.role /\ v.firm = y.firm
      BY <1>1, <3>1 DEF UserRow
    <3> HIDE DEF v
    <3>. QED  BY <1>1, <2>1, <3>1, <3>2 DEF Updates, Same, Alters
  <2> HIDE DEF v
  <2>. QED  BY <1>0, <1>1, <1>3, <2>1, SaveIsFine, PlainIsFine DEF v
<1>. QED  BY <1>2, <1>3 DEF Deactivate

\* SubConsultantViewSet.status_change.
LEMMA ChangeStatusIsFine == ASSUME PeopleInv, NEW r \in Request, ChangeStatus(r) PROVE Fine(r)
<1>0. Base /\ OnRows /\ job[r].kind = "STATUS" /\ ~Is(r, Careful)
  BY DEF PeopleInv, ChangeStatus, Is, Careful
<1>1. On(r) \in Row /\ On(r)[1] = "firm" /\ job[r] \in Asked
  BY <1>0, AskedIs DEF Target
<1>2. ASSUME NEW fine, NEW next \in {"save", "commit"}, Check(r, fine, next) PROVE Fine(r)
  BY <1>0, <1>2, NextSteps, CheckIsFine
<1>3. CASE Save(r, On(r), [row[On(r)] EXCEPT !.status = job[r].status])
  <2> DEFINE y == row[On(r)]
             v == [row[On(r)] EXCEPT !.status = job[r].status]
  <2>1. ASSUME y # Absent PROVE Updates(On(r), v)
    <3>1. y \in FirmRow /\ RowType(On(r)) = FirmRow /\ VersionOK(On(r), y)
      BY <1>0, <1>1, <2>1, SavedRow, RowTypes
    <3>2. v \in FirmRow /\ v.payer = y.payer /\ v.start = y.start /\ v.end = y.end
      BY <1>1, <3>1 DEF FirmRow, Asked
    <3> HIDE DEF v
    <3>. QED  BY <1>1, <2>1, <3>1, <3>2 DEF Updates, Same, Alters, Dated, VersionOK, FirmOK
  <2> HIDE DEF v
  <2>. QED  BY <1>0, <1>1, <1>3, <2>1, SaveIsFine, PlainIsFine DEF v
<1>. QED  BY <1>2, <1>3 DEF ChangeStatus

\* FieldAgentViewSet.status_change.
LEMMA ChangeAgentStatusIsFine == ASSUME PeopleInv, NEW r \in Request, ChangeAgentStatus(r) PROVE Fine(r)
<1>0. Base /\ OnRows /\ job[r].kind = "AGENTSTATUS" /\ ~Is(r, Careful)
  BY DEF PeopleInv, ChangeAgentStatus, Is, Careful
<1>1. On(r) \in Row /\ On(r)[1] = "agent" /\ job[r].status \in {"ACTIVE", "SUSPENDED"}
  BY <1>0, AskedIs DEF Target, Asked, Is
<1>2. ASSUME NEW fine, NEW next \in {"save", "commit"}, Check(r, fine, next) PROVE Fine(r)
  BY <1>0, <1>2, NextSteps, CheckIsFine
<1>3. CASE Save(r, On(r), [row[On(r)] EXCEPT !.status = job[r].status])
  <2> DEFINE y == row[On(r)]
             v == [row[On(r)] EXCEPT !.status = job[r].status]
  <2>1. ASSUME y # Absent PROVE Updates(On(r), v)
    <3>1. y \in AgentRow /\ RowType(On(r)) = AgentRow /\ VersionOK(On(r), y)
      BY <1>0, <1>1, <2>1, SavedRow, RowTypes
    <3>2. v \in AgentRow /\ v.user = y.user /\ v.ward = y.ward
      BY <1>1, <3>1 DEF AgentRow
    <3> HIDE DEF v
    <3>. QED  BY <1>1, <2>1, <3>1, <3>2 DEF Updates, Same, Alters
  <2> HIDE DEF v
  <2>. QED  BY <1>0, <1>1, <1>3, <2>1, SaveIsFine, PlainIsFine DEF v
<1>. QED  BY <1>2, <1>3 DEF ChangeAgentStatus

\* SubConsultantViewSet.end_portfolio.
LEMMA EndGrantIsFine == ASSUME PeopleInv, NEW r \in Request, EndGrant(r) PROVE Fine(r)
<1>0. Base /\ OnRows /\ job[r].kind = "ENDGRANT" /\ ~Is(r, Careful)
  BY DEF PeopleInv, EndGrant, Is, Careful
<1>1. On(r) \in Row /\ On(r)[1] = "grant" /\ job[r] \in Asked
  BY <1>0, AskedIs DEF Target
<1>2. ASSUME NEW fine, NEW next \in {"save", "commit"}, Check(r, fine, next) PROVE Fine(r)
  BY <1>0, <1>2, NextSteps, CheckIsFine
<1>3. CASE Save(r, On(r), [row[On(r)] EXCEPT !.open = FALSE])
  <2> DEFINE y == row[On(r)]
             v == [row[On(r)] EXCEPT !.open = FALSE]
  <2>1. ASSUME y # Absent PROVE Updates(On(r), v)
    <3>1. y \in GrantRow /\ RowType(On(r)) = GrantRow /\ VersionOK(On(r), y)
      BY <1>0, <1>1, <2>1, SavedRow, RowTypes
    <3>2. v \in GrantRow
      BY <1>1, <3>1 DEF GrantRow
    <3> HIDE DEF v
    <3>. QED  BY <1>1, <2>1, <3>1, <3>2 DEF Updates, Same, Alters
  <2> HIDE DEF v
  <2>. QED  BY <1>0, <1>1, <1>3, <2>1, SaveIsFine, PlainIsFine DEF v
<1>. QED  BY <1>2, <1>3 DEF EndGrant, EndAssignment

\* FieldAgentViewSet.end_portfolio.
LEMMA EndNarrowingIsFine == ASSUME PeopleInv, NEW r \in Request, EndNarrowing(r) PROVE Fine(r)
<1>0. Base /\ OnRows /\ job[r].kind = "ENDNARROW" /\ ~Is(r, Careful)
  BY DEF PeopleInv, EndNarrowing, Is, Careful
<1>1. On(r) \in Row /\ On(r)[1] = "narrowing" /\ job[r] \in Asked
  BY <1>0, AskedIs DEF Target
<1>2. ASSUME NEW fine, NEW next \in {"save", "commit"}, Check(r, fine, next) PROVE Fine(r)
  BY <1>0, <1>2, NextSteps, CheckIsFine
<1>3. CASE Save(r, On(r), [row[On(r)] EXCEPT !.open = FALSE])
  <2> DEFINE y == row[On(r)]
             v == [row[On(r)] EXCEPT !.open = FALSE]
  <2>1. ASSUME y # Absent PROVE Updates(On(r), v)
    <3>1. y \in GrantRow /\ RowType(On(r)) = GrantRow /\ VersionOK(On(r), y)
      BY <1>0, <1>1, <2>1, SavedRow, RowTypes
    <3>2. v \in GrantRow
      BY <1>1, <3>1 DEF GrantRow
    <3> HIDE DEF v
    <3>. QED  BY <1>1, <2>1, <3>1, <3>2 DEF Updates, Same, Alters
  <2> HIDE DEF v
  <2>. QED  BY <1>0, <1>1, <1>3, <2>1, SaveIsFine, PlainIsFine DEF v
<1>. QED  BY <1>2, <1>3 DEF EndNarrowing, EndAssignment

\* PayerViewSet.kyc_status.
LEMMA ReviewKycIsFine == ASSUME PeopleInv, NEW r \in Request, ReviewKyc(r) PROVE Fine(r)
<1>0. Base /\ OnRows /\ job[r].kind = "KYC" /\ ~Is(r, Careful)
  BY DEF PeopleInv, ReviewKyc, Is, Careful
<1>1. On(r) \in Row /\ On(r)[1] = "payer" /\ job[r] \in Asked
  BY <1>0, AskedIs DEF Target
<1>2. ASSUME NEW fine, NEW next \in {"save", "commit"}, Check(r, fine, next) PROVE Fine(r)
  BY <1>0, <1>2, NextSteps, CheckIsFine
<1>3. CASE Save(r, On(r), [row[On(r)] EXCEPT !.kyc = "VERIFIED"])
  <2> DEFINE y == row[On(r)]
             v == [row[On(r)] EXCEPT !.kyc = "VERIFIED"]
  <2>1. ASSUME y # Absent PROVE Updates(On(r), v)
    <3>1. y \in PayerRow /\ RowType(On(r)) = PayerRow /\ VersionOK(On(r), y)
      BY <1>0, <1>1, <2>1, SavedRow, RowTypes
    <3>2. v \in PayerRow /\ v.by = y.by /\ v.ward = y.ward /\ v.to = y.to /\ v.login = y.login
      BY <1>1, <3>1 DEF PayerRow
    <3> HIDE DEF v
    <3>. QED  BY <1>1, <2>1, <3>1, <3>2 DEF Updates, Same, Alters
  <2> HIDE DEF v
  <2>. QED  BY <1>0, <1>1, <1>3, <2>1, SaveIsFine, PlainIsFine DEF v
<1>. QED  BY <1>2, <1>3 DEF ReviewKyc

\* A new login's columns.
LEMMA NewUserIs ==
  ASSUME NEW r \in Request, job[r] \in Asked, note[r] \in Note, NEW f \in IdOrNone,
         NEW role \in {"COUNCIL_ADMIN", "CONSULTANT", "REVENUE_OFFICER", "AGENT", "GLOBAL_VIEW", "RATEPAYER", "RATEPAYER_PROXY"}
  PROVE  NewUser(r, role, f) \in UserRow
<1>1. job[r].email \in Nat \X Nat /\ job[r].email[1] \in Nat /\ note[r].suffix \in Nat
  BY DEF Asked, Note
<1>2. <<job[r].email[1], note[r].suffix>> \in Nat \X Nat
  BY <1>1
<1>. QED  BY <1>1, <1>2 DEF NewUser, UserRow

\* SubConsultantViewSet.revenue_officers.
LEMMA OnboardOfficerIsFine == ASSUME PeopleInv, NEW r \in Request, OnboardOfficer(r) PROVE Fine(r)
<1>0. Base /\ OnRows /\ job[r].kind = "OFFICER" /\ ~Is(r, Careful) /\ ~Is(r, {"DESTROY", "RESET"})
  BY DEF PeopleInv, OnboardOfficer, Is, Careful
<1>1. On(r)[2] \in Id /\ job[r] \in Asked /\ r \in Id /\ note[r] \in Note
  BY <1>0, AskedIs, RequestIds DEF Base
<1>2. ASSUME NEW fine, NEW next \in {"insert", "name"}, Check(r, fine, next) PROVE Fine(r)
  BY <1>0, <1>2, NextSteps, CheckIsFine
<1>3. CASE Insert(r, "login", User(r), NewUser(r, "REVENUE_OFFICER", On(r)[2]), "commit")
  <2>1. User(r) \in Row /\ User(r)[1] = "user" /\ User(r)[2] = r
    BY <1>1, RowNames
  <2>2. NewUser(r, "REVENUE_OFFICER", On(r)[2]) \in UserRow /\ RowType(User(r)) = UserRow
    BY <1>1, <2>1, RowTypes, NewUserIs DEF IdOrNone
  <2>3. VersionOK(User(r), NewUser(r, "REVENUE_OFFICER", On(r)[2]))
    BY <1>0, <2>1, <2>2 DEF VersionOK, UserOK, LoginOf, Is, NewUser
  <2>4. Adds(r, User(r), NewUser(r, "REVENUE_OFFICER", On(r)[2]))
    BY <1>0, <2>1, <2>3 DEF Adds
  <2>. QED  BY <1>0, <1>3, <2>1, <2>4, NextSteps, InsertIsFine, PlainIsFine
<1>. QED  BY <1>2, <1>3 DEF OnboardOfficer

\* StakeholderViewSet.perform_create.
LEMMA OnboardStakeholderIsFine == ASSUME PeopleInv, NEW r \in Request, OnboardStakeholder(r) PROVE Fine(r)
<1>0. Base /\ OnRows /\ job[r].kind = "STAKEHOLDER" /\ ~Is(r, Careful) /\ ~Is(r, {"DESTROY", "RESET"})
  BY DEF PeopleInv, OnboardStakeholder, Is, Careful
<1>1. On(r)[2] \in Id /\ job[r] \in Asked /\ r \in Id /\ note[r] \in Note
  BY <1>0, AskedIs, RequestIds DEF Base
<1>2. ASSUME NEW fine, NEW next \in {"insert", "name"}, Check(r, fine, next) PROVE Fine(r)
  BY <1>0, <1>2, NextSteps, CheckIsFine
<1>3. CASE Insert(r, "login", User(r), NewUser(r, "GLOBAL_VIEW", None), "commit")
  <2>1. User(r) \in Row /\ User(r)[1] = "user" /\ User(r)[2] = r
    BY <1>1, RowNames
  <2>2. NewUser(r, "GLOBAL_VIEW", None) \in UserRow /\ RowType(User(r)) = UserRow
    BY <1>1, <2>1, RowTypes, NewUserIs DEF IdOrNone
  <2>3. VersionOK(User(r), NewUser(r, "GLOBAL_VIEW", None))
    BY <1>0, <2>1, <2>2 DEF VersionOK, UserOK, LoginOf, Is, NewUser
  <2>4. Adds(r, User(r), NewUser(r, "GLOBAL_VIEW", None))
    BY <1>0, <2>1, <2>3 DEF Adds
  <2>. QED  BY <1>0, <1>3, <2>1, <2>4, NextSteps, InsertIsFine, PlainIsFine
<1>. QED  BY <1>2, <1>3 DEF OnboardStakeholder

\* SubConsultantViewSet.portfolio.
LEMMA AssignItemIsFine == ASSUME PeopleInv, NEW r \in Request, AssignItem(r) PROVE Fine(r)
<1>0. Base /\ OnRows /\ job[r].kind = "GRANT" /\ ~Is(r, Careful) /\ ~Is(r, {"DESTROY", "RESET"})
  BY DEF PeopleInv, AssignItem, Is, Careful
<1>1. On(r)[2] \in Id /\ job[r] \in Asked /\ r \in Id /\ note[r] \in Note
  BY <1>0, AskedIs, RequestIds DEF Base
<1>2. ASSUME NEW fine, NEW next \in {"insert", "name"}, Check(r, fine, next) PROVE Fine(r)
  BY <1>0, <1>2, NextSteps, CheckIsFine
<1>3. CASE Insert(r, "insert", Grant(r), NewGrant(r), "commit")
  <2>1. Grant(r) \in Row /\ Grant(r)[1] = "grant" /\ Grant(r)[2] = r
    BY <1>1, RowNames
  <2>2. NewGrant(r) \in GrantRow /\ RowType(Grant(r)) = GrantRow
    BY <1>1, <2>1, RowTypes DEF GrantRow, NewGrant, Asked
  <2>3. VersionOK(Grant(r), NewGrant(r))
    BY <1>0, <2>1, <2>2 DEF VersionOK, UserOK, LoginOf, Is
  <2>4. Adds(r, Grant(r), NewGrant(r))
    BY <1>0, <2>1, <2>3 DEF Adds
  <2>. QED  BY <1>0, <1>3, <2>1, <2>4, NextSteps, InsertIsFine, PlainIsFine
<1>. QED  BY <1>2, <1>3 DEF AssignItem

\* FieldAgentViewSet.portfolio.
LEMMA NarrowAgentIsFine == ASSUME PeopleInv, NEW r \in Request, NarrowAgent(r) PROVE Fine(r)
<1>0. Base /\ OnRows /\ job[r].kind = "NARROW" /\ ~Is(r, Careful) /\ ~Is(r, {"DESTROY", "RESET"})
  BY DEF PeopleInv, NarrowAgent, Is, Careful
<1>1. On(r)[2] \in Id /\ job[r] \in Asked /\ r \in Id /\ note[r] \in Note
  BY <1>0, AskedIs, RequestIds DEF Base
<1>2. ASSUME NEW fine, NEW next \in {"insert", "name"}, Check(r, fine, next) PROVE Fine(r)
  BY <1>0, <1>2, NextSteps, CheckIsFine
<1>3. CASE Insert(r, "insert", Narrowing(r), NewGrant(r), "commit")
  <2>1. Narrowing(r) \in Row /\ Narrowing(r)[1] = "narrowing" /\ Narrowing(r)[2] = r
    BY <1>1, RowNames
  <2>2. NewGrant(r) \in GrantRow /\ RowType(Narrowing(r)) = GrantRow
    BY <1>1, <2>1, RowTypes DEF GrantRow, NewGrant, Asked
  <2>3. VersionOK(Narrowing(r), NewGrant(r))
    BY <1>0, <2>1, <2>2 DEF VersionOK, UserOK, LoginOf, Is
  <2>4. Adds(r, Narrowing(r), NewGrant(r))
    BY <1>0, <2>1, <2>3 DEF Adds
  <2>. QED  BY <1>0, <1>3, <2>1, <2>4, NextSteps, InsertIsFine, PlainIsFine
<1>. QED  BY <1>2, <1>3 DEF NarrowAgent

-----------------------------------------------------------------------------
(* Requests that rely on what they found. *)

\* A request sees finitely many rows of a table.
LEMMA RowsFinite ==
  ASSUME NEW r, NEW table
  PROVE  IsFiniteSet(Rows(r, table)) /\ Cardinality(Rows(r, table)) \in Nat
<1> DEFINE f == [i \in Id |-> <<table, i>>]
<1>1. IsFiniteSet(Id)
  BY PeopleConstants
<1>2. f \in Surjection(Id, {table} \X Id)
  BY DEF Surjection
<1>3. IsFiniteSet({table} \X Id)
  BY <1>1, <1>2, FS_Surjection
<1>4. Rows(r, table) \in SUBSET ({table} \X Id)
  BY DEF Rows
<1>. QED  BY <1>3, <1>4, FS_Subset, FS_CardinalityType

\* derive_username_from_email: any request that creates a login.
LEMMA DeriveNameIsFine == ASSUME PeopleInv, NEW r \in Request, DeriveName(r) PROVE Fine(r)
<1> DEFINE taken == {Sees(r, u).name : u \in Rows(r, "user")}
           f == [u \in Rows(r, "user") |-> Sees(r, u).name]
<1>0. Base /\ Local(r) /\ at[r] = "name" /\ ReadOnly /\ Go(r, "login") /\ job' = job
  BY DEF PeopleInv, DeriveName
<1>1. Cardinality(taken) \in Nat
  <2>1. f \in Surjection(Rows(r, "user"), taken)
    BY DEF Surjection
  <2>2. IsFiniteSet(taken)
    BY <2>1, RowsFinite, FS_Surjection
  <2>. QED  BY <2>2, FS_CardinalityType
<1>2. PICK n \in 1..(Cardinality(taken) + 1) : note' = [note EXCEPT ![r].suffix = n]
  BY DEF DeriveName
<1>3. n \in Nat
  <2> HIDE DEF taken
  <2>. QED  BY <1>1, <1>2
<1>4. note' = [note EXCEPT ![r] = [note[r] EXCEPT !.suffix = n]] /\ [note[r] EXCEPT !.suffix = n] \in Note
  BY <1>0, <1>2, <1>3 DEF Base, Note
<1>5. "login" \in Steps \ {"load", "done"}
  BY NextSteps
<1>6. Turns(r) /\ at'[r] = "login"
  BY <1>0, <1>4, <1>5, NoteTurns
<1>7. Wrote(r) /\ row' = row /\ holder' = holder /\ shown' = shown
  BY <1>0, ReadWrote
<1>8. Is(r, {"ONBOARD"})' => OnboardOK(r)'
  <2>1. Is(r, {"ONBOARD"})' => OnboardOK(r)
    BY <1>0 DEF Local, Is
  <2>. QED  BY <1>0, <1>6, <1>7, <2>1 DEF OnboardOK, Has
<1>. QED  BY <1>6, <1>7, <1>8 DEF Fine, Local, AssignOK, EnrolOK, DelegateOK, DestroyOK, RevokeOK, ResetOK

\* SubConsultantViewSet.contract_dates: what it saves is in order, whoever else changed what
\* it read.
LEMMA ChangeDatesIsFine == ASSUME PeopleInv, NEW r \in Request, ChangeDates(r) PROVE Fine(r)
<1>0. Base /\ OnRows /\ Local(r) /\ job[r].kind = "DATES" /\ ~Is(r, Careful \ {"DATES"}) /\ note[r] \in Note
  BY DEF PeopleInv, ChangeDates, Is, Careful, Base
<1>1. On(r) \in Row /\ On(r)[1] = "firm" /\ job[r] \in Asked
  BY <1>0, AskedIs DEF Target
<1>2. CASE at[r] = "load" /\ ~There(r, On(r)) /\ Refuse(r)
  BY <1>0, <1>2, RefuseIsFine DEF Refuse
<1> DEFINE start == IF job[r].start # 0 THEN job[r].start ELSE It(r).start
           end == IF job[r].end # 0 THEN job[r].end ELSE It(r).end
           step == IF start # 0 /\ end # 0 /\ start > end THEN "refused" ELSE "save"
           n == [note[r] EXCEPT !.start = start, !.end = end]
<1>3. CASE /\ at[r] = "load" /\ There(r, On(r))
           /\ note' = [note EXCEPT ![r].start = start, ![r].end = end]
           /\ Go(r, step) /\ ReadOnly /\ UNCHANGED job
  <2>1. It(r) \in Versions(On(r))
    BY <1>3 DEF It, There, Sees, Versions
  <2>2. It(r) \in FirmRow
    BY <1>0, <1>1, <2>1, VersionIs, RowTypes
  <2>3. start \in Nat /\ end \in Nat
    BY <1>1, <2>2 DEF FirmRow, Asked
  <2>4. n \in Note /\ note' = [note EXCEPT ![r] = n] /\ n.start = start /\ n.end = end
    BY <1>0, <1>3, <2>3 DEF Note
  <2>5. step \in Steps \ {"load", "done"}
    BY DEF Steps, Ended
  <2>6. step = "save" => Dated(n)
    <3> HIDE DEF start, end
    <3>. QED  BY <2>3, <2>4 DEF Dated
  <2> HIDE DEF start, end, step, n
  <2>7. Turns(r) /\ at'[r] = step /\ note'[r] = n
    BY <1>0, <1>3, <2>4, <2>5, NoteTurns
  <2>8. Wrote(r)
    BY <1>0, <1>3, ReadWrote
  <2>9. job' = job
    BY <1>3
  <2>. QED  BY <1>0, <2>6, <2>7, <2>8, <2>9, NextSteps DEF Fine, Local, Is, Careful, Turns, step
<1>4. CASE Save(r, On(r), SaveBoth(r))
  <2> DEFINE y == row[On(r)]
             v == SaveBoth(r)
  <2>1. ASSUME y # Absent PROVE Updates(On(r), v)
    <3>1. y \in FirmRow /\ RowType(On(r)) = FirmRow
      BY <1>0, <1>1, <2>1, SavedRow, RowTypes
    <3>2. note[r].start \in Nat /\ note[r].end \in Nat /\ Dated(note[r])
      BY <1>0, <1>4 DEF Note, Save, Local, Is
    <3>3. v \in FirmRow /\ v.payer = y.payer /\ v.start = note[r].start /\ v.end = note[r].end
      BY <3>1, <3>2 DEF SaveBoth, FirmRow
    <3> HIDE DEF v
    <3>4. Dated(v)
      BY <3>2, <3>3 DEF Dated
    <3>. QED  BY <1>1, <2>1, <3>1, <3>3, <3>4 DEF Updates, Same, Alters
  <2>2. Fine(r) \/ (Turns(r) /\ Wrote(r) /\ at'[r] = "commit")
    <3> HIDE DEF v
    <3>. QED  BY <1>0, <1>1, <1>4, <2>1, SaveIsFine DEF v
  <2>. QED  BY <1>0, <2>2, CommitIsFine DEF Is
<1>. QED  BY <1>2, <1>3, <1>4 DEF ChangeDates

\* FieldAgentViewSet.perform_create.
LEMMA OnboardAgentIsFine == ASSUME PeopleInv, NEW r \in Request, OnboardAgent(r) PROVE Fine(r)
<1>0. Base /\ OnRows /\ job[r].kind = "AGENT" /\ ~Is(r, Careful) /\ ~Is(r, {"DESTROY", "RESET"}) /\ note[r] \in Note
  BY DEF PeopleInv, OnboardAgent, Is, Careful, Base
<1>1. On(r)[2] \in Id /\ job[r] \in Asked /\ r \in Id
  BY <1>0, AskedIs, RequestIds
<1>2. ASSUME NEW c \in Nat, NEW k \in Nat, at[r] # "done", Go(r, "name"), job' = job, ReadOnly \/ Undo(HeldBy(r)),
             note' = [note EXCEPT ![r].code = c, ![r].tries = k]
      PROVE  Fine(r)
  <2> DEFINE n == [note[r] EXCEPT !.code = c, !.tries = k]
  <2>1. note' = [note EXCEPT ![r] = n] /\ n \in Note
    BY <1>0, <1>2 DEF Note
  <2> HIDE DEF n
  <2>2. "name" \in Steps \ {"load", "done"}
    BY NextSteps
  <2>3. Turns(r)
    BY <1>0, <1>2, <2>1, <2>2, NoteTurns
  <2>. QED  BY <1>0, <1>2, <2>3, ReadWrote, UndoWrote, PlainIsFine
<1>3. ASSUME Retry(r), at[r] # "done" PROVE Fine(r)
  <2>1. CASE note[r].tries < MaxTries
    <3>1. note[r].code + 1 \in Nat /\ note[r].tries + 1 \in Nat
      BY <1>0 DEF Note
    <3>2. /\ note' = [note EXCEPT ![r].code = note[r].code + 1, ![r].tries = note[r].tries + 1]
          /\ Go(r, "name") /\ Undo(HeldBy(r)) /\ job' = job
      BY <1>3, <2>1 DEF Retry, NextCode
    <3>. QED  BY <1>2, <1>3, <3>1, <3>2
  <2>2. CASE ~(note[r].tries < MaxTries)
    <3>1. Fail(r, "refused")
      BY <1>3, <2>2 DEF Retry, Move, Fail
    <3>. QED  BY <1>0, <1>3, <3>1, FailIsFine
  <2>. QED  BY <2>1, <2>2
<1>4. ASSUME NEW step \in {"login", "agent"}, NEW next \in {"agent", "commit"}, NEW x \in Row, NEW new, Adds(r, x, new),
             TryInsert(r, step, x, new, next)
      PROVE  Fine(r)
  <2>0. at[r] # "done"
    BY <1>4 DEF TryInsert
  <2>1. CASE Rivals(r, x, new) = {}
    <3>1. Put(r, x, new) /\ Move(r, next)
      BY <1>4, <2>1 DEF TryInsert
    <3>2. Turns(r) /\ Wrote(r)
      BY <1>0, <1>4, <2>0, <3>1, NextSteps, MoveTurns, PutWrote
    <3>. QED  BY <1>0, <3>2, PlainIsFine
  <2>2. CASE Rivals(r, x, new) # {}
    BY <1>3, <1>4, <2>0, <2>2 DEF TryInsert
  <2>. QED  BY <2>1, <2>2
<1>5. CASE TryInsert(r, "login", User(r), NewUser(r, "AGENT", On(r)[2]), "agent")
  <2>1. User(r) \in Row /\ User(r)[1] = "user" /\ User(r)[2] = r
    BY <1>1, RowNames
  <2>2. NewUser(r, "AGENT", On(r)[2]) \in UserRow /\ RowType(User(r)) = UserRow
    BY <1>0, <1>1, <2>1, RowTypes, NewUserIs DEF IdOrNone
  <2>3. VersionOK(User(r), NewUser(r, "AGENT", On(r)[2]))
    BY <1>0, <2>1, <2>2 DEF VersionOK, UserOK, LoginOf, Is, NewUser
  <2>4. Adds(r, User(r), NewUser(r, "AGENT", On(r)[2]))
    BY <1>0, <2>1, <2>3 DEF Adds
  <2>. QED  BY <1>4, <1>5, <2>1, <2>4
<1>6. ASSUME NEW new, new = [user |-> r, code |-> note[r].code, ward |-> job[r].ward, status |-> "ACTIVE"],
             TryInsert(r, "agent", Agent(r), new, "commit")
      PROVE  Fine(r)
  <2>1. Agent(r) \in Row /\ Agent(r)[1] = "agent" /\ Agent(r)[2] = r
    BY <1>1, RowNames
  <2>2. new \in AgentRow /\ new.user = r
    BY <1>0, <1>1, <1>6 DEF AgentRow, Note, Asked
  <2>3. VersionOK(Agent(r), new)
    BY <1>0, <2>1, <2>2, RowTypes DEF VersionOK, AgentOK, Is
  <2>4. Adds(r, Agent(r), new)
    BY <1>0, <2>1, <2>3 DEF Adds
  <2>. QED  BY <1>4, <1>6, <2>1, <2>4
<1>7. CASE /\ at[r] = "load" /\ Go(r, "name") /\ ReadOnly /\ UNCHANGED job
           /\ note' = [note EXCEPT ![r].code = Cardinality(Rows(r, "agent")) + 1, ![r].tries = 1]
  <2>1. Cardinality(Rows(r, "agent")) + 1 \in Nat /\ 1 \in Nat
    BY RowsFinite
  <2>. QED  BY <1>2, <1>7, <2>1
<1>8. CASE at[r] = "load" /\ Refuse(r)
  BY <1>0, <1>8, RefuseIsFine DEF Refuse
<1>. QED  BY <1>5, <1>6, <1>7, <1>8 DEF OnboardAgent

\* create_payer: once it is noted whom the payer is put down to.
LEMMA CreatePayerIsFine ==
  ASSUME PeopleInv, NEW r \in Request, job[r].kind \in {"ENROL", "REPLAY"}, CreatePayer(r)
  PROVE  Fine(r)
<1>0. /\ Base /\ OnRows /\ Local(r) /\ Is(r, {"ENROL", "REPLAY"}) /\ ~Is(r, {"ONBOARD", "REVOKE", "RESET"})
      /\ ~Is(r, {"DESTROY", "RESET"}) /\ note[r] \in Note /\ r \in Id
  BY RequestIds DEF PeopleInv, Is, Base
<1>1. job[r] \in Asked /\ at[r] = "insert"
  BY <1>0, AskedIs DEF CreatePayer, Insert
<1>2. note[r].by \in Id /\ EnrolledBy(r, note[r].by)
  BY <1>0, <1>1 DEF Local, EnrolOK, Note, IdOrNone
<1>3. Payer(r) \in Row /\ Payer(r)[1] = "payer" /\ Payer(r)[2] = r
  BY <1>0, RowNames
<1>. PICK new : new = NewPayer(r, job[r].phone, note[r].by)
  OBVIOUS
<1>4. /\ new \in PayerRow /\ new.to = None /\ new.login = None /\ new.by = note[r].by /\ new.ward = job[r].ward
  BY <1>1, <1>2 DEF NewPayer, PayerRow, Asked, IdOrNone
<1>5. Insert(r, "insert", Payer(r), new, "commit")
  BY DEF CreatePayer
<1>6. VersionOK(Payer(r), new)
  <2>1. new \in RowType(Payer(r))
    BY <1>3, <1>4, RowTypes
  <2>. QED  BY <1>2, <1>3, <1>4, <2>1 DEF VersionOK, PayerOK
<1>7. Adds(r, Payer(r), new)
  BY <1>0, <1>3, <1>6 DEF Adds
<1>8. Fine(r) \/ (Turns(r) /\ Wrote(r) /\ at'[r] = "commit")
  <2>1. at[r] # "done" /\ "commit" \in Steps \ {"load", "done"}
    BY <1>1, NextSteps
  <2>2. CASE Rivals(r, Payer(r), new) = {}
    <3>1. Put(r, Payer(r), new) /\ Move(r, "commit")
      BY <1>5, <2>2 DEF Insert
    <3>. QED  BY <1>0, <1>3, <1>7, <2>1, <3>1, MoveTurns, PutWrote
  <2>3. CASE Rivals(r, Payer(r), new) # {}
    BY <1>0, <1>5, <2>1, <2>3, FailIsFine DEF Insert
  <2>. QED  BY <2>2, <2>3
<1>. QED  BY <1>0, <1>8, CommitIsFine

\* PayerViewSet.create and _replay_payer up to there.
LEMMA EnumeratorIsFine ==
  ASSUME PeopleInv, NEW r \in Request, job[r].kind \in {"ENROL", "REPLAY"}, NEW u \in Id, EnrolledBy(r, u), at[r] # "done",
         note' = [note EXCEPT ![r].by = u], Go(r, "insert"), ReadOnly, job' = job
  PROVE  Fine(r)
<1> DEFINE n == [note[r] EXCEPT !.by = u]
<1>0. Base /\ note[r] \in Note /\ u # None
  BY PeopleConstants DEF PeopleInv, Base
<1>1. note' = [note EXCEPT ![r] = n] /\ n \in Note /\ n.by = u
  BY <1>0 DEF Note, IdOrNone
<1> HIDE DEF n
<1>2. Turns(r) /\ at'[r] = "insert" /\ note'[r] = n
  BY <1>0, <1>1, NextSteps, NoteTurns
<1>3. Wrote(r) /\ shown' = shown
  BY <1>0, ReadWrote
<1>4. EnrolledBy(r, u)'
  BY <1>2, <1>3, MeaningStays
<1>5. EnrolOK(r)'
  BY <1>0, <1>1, <1>2, <1>4 DEF EnrolOK
<1>. QED  BY <1>2, <1>3, <1>5 DEF Fine, Local, Is

\* A caller that is allowed to do something is a committed login of one of the levels.
LEMMA AllowedIs ==
  ASSUME Base, OnRows, NEW r \in Request, Local(r), at[r] = "load", NEW levels, Allowed(r, levels)
  PROVE  /\ HasRole(job[r].by, levels) /\ shown[User(job[r].by)] # Absent
         /\ shown[User(job[r].by)].role \in levels
<1>1. HoldsNone(r) /\ User(job[r].by) \in Row /\ User(job[r].by)[2] = job[r].by
  BY AskedIs, RowNames DEF Local
<1>2. shown[User(job[r].by)] # Absent
  BY <1>1, SeesShown DEF Allowed, There
<1>3. shown[User(job[r].by)].role \in levels
  BY DEF Allowed, Caller, As
<1>4. Born(job[r].by)
  BY <1>1, <1>2, ShownIsBorn
<1>. QED  BY <1>2, <1>3, <1>4 DEF HasRole

\* PayerViewSet.create.
LEMMA EnrolIsFine == ASSUME PeopleInv, NEW r \in Request, Enrol(r) PROVE Fine(r)
<1>0. Base /\ OnRows /\ Local(r) /\ job[r].kind = "ENROL"
  BY DEF PeopleInv, Enrol, Is
<1>1. CASE at[r] = "load" /\ Refuse(r)
  BY <1>0, <1>1, RefuseIsFine DEF Refuse
<1>2. ASSUME at[r] = "load", Allowed(r, PayerCreators), NEW u \in Enumerators(r), note' = [note EXCEPT ![r].by = u],
             Go(r, "insert"), ReadOnly, job' = job
      PROVE  Fine(r)
  <2>1. HoldsNone(r)
    BY <1>0, <1>2 DEF Local
  <2>2. CASE job[r].firm = None
    <3>1. u = job[r].by /\ u \in Id
      BY <1>0, <1>2, <2>2, AskedIs DEF Enumerators
    <3>2. HasRole(u, PayerCreators)
      BY <1>0, <1>2, <3>1, AllowedIs
    <3>3. EnrolledBy(r, u)
      BY <1>0, <2>2, <3>1, <3>2 DEF EnrolledBy, Is
    <3>. QED  BY <1>0, <1>2, <3>1, <3>3, EnumeratorIsFine
  <2>3. CASE job[r].firm # None
    <3>1. PICK v \in Rows(r, "user") : Sees(r, v).firm = job[r].firm /\ u = v[2]
      BY <1>2, <2>3 DEF Enumerators
    <3>2. v \in Row /\ v[2] \in Id /\ v = User(u) /\ shown[v] # Absent /\ shown[v].firm = job[r].firm
      <4>1. v \in {"user"} \X Id /\ There(r, v)
        BY DEF Rows
      <4>2. v \in Row /\ v[2] \in Id /\ v = <<"user", v[2]>>
        BY <4>1 DEF Row, Table
      <4>. QED  BY <2>1, <3>1, <4>1, <4>2, SeesShown DEF There, User
    <3>3. HasFirm(u, job[r].firm)
      BY <1>0, <3>1, <3>2, ShownIsBorn DEF HasFirm
    <3>4. EnrolledBy(r, u)
      BY <1>0, <2>3, <3>3 DEF EnrolledBy, Is
    <3>. QED  BY <1>0, <1>2, <3>1, <3>2, <3>4, EnumeratorIsFine
  <2>. QED  BY <2>2, <2>3
<1>3. CASE CreatePayer(r)
  BY <1>0, <1>3, CreatePayerIsFine
<1>. QED  BY <1>1, <1>2, <1>3 DEF Enrol

\* _replay_payer.
LEMMA ReplayIsFine == ASSUME PeopleInv, NEW r \in Request, Replay(r) PROVE Fine(r)
<1>0. Base /\ OnRows /\ Local(r) /\ job[r].kind = "REPLAY"
  BY DEF PeopleInv, Replay, Is
<1>1. CASE at[r] = "load" /\ Refuse(r)
  BY <1>0, <1>1, RefuseIsFine DEF Refuse
<1>2. ASSUME at[r] = "load", Allowed(r, {"AGENT"}), InOwnWard(r), note' = [note EXCEPT ![r].by = job[r].by],
             Go(r, "insert"), ReadOnly, job' = job
      PROVE  Fine(r)
  <2>1. HoldsNone(r) /\ job[r].by \in Id
    BY <1>0, <1>2, AskedIs DEF Local
  <2>2. PICK a \in Rows(r, "agent") : Sees(r, a).user = job[r].by /\ Sees(r, a).ward = job[r].ward /\ job[r].ward # 0
    BY <1>2 DEF InOwnWard
  <2>3. a \in Row /\ a[1] = "agent" /\ There(r, a)
    BY DEF Rows, Row, Table
  <2>4. shown[a] # Absent /\ shown[a].user = job[r].by /\ shown[a].ward = job[r].ward
    BY <2>1, <2>2, <2>3, SeesShown DEF There
  <2>5. HasRole(job[r].by, {"AGENT"}) /\ InWard(job[r].by, job[r].ward)
    BY <1>0, <1>2, <2>3, <2>4, AllowedIs DEF InWard
  <2>6. EnrolledBy(r, job[r].by)
    BY <1>0, <2>2, <2>5 DEF EnrolledBy, Is
  <2>. QED  BY <1>0, <1>2, <2>1, <2>6, EnumeratorIsFine
<1>3. CASE CreatePayer(r)
  BY <1>0, <1>3, CreatePayerIsFine
<1>. QED  BY <1>1, <1>2, <1>3 DEF Replay

\* What a committed row refers to is committed.
LEMMA ParentIs ==
  ASSUME OnRows, RecordsKeepTheirParents, NEW x \in Row, shown[x] # Absent
  PROVE  /\ shown[x] \in RowType(x)
         /\ \A p \in RefersTo(x, shown[x]) : p \in Row /\ shown[p] # Absent /\ Born(p[2])
<1>1. shown[x] \in RowType(x)
  BY VersionIs DEF Versions
<1>2. ASSUME NEW p \in RefersTo(x, shown[x]) PROVE p \in Row /\ shown[p] # Absent
  BY <1>1, <1>2, TypedRefers DEF RecordsKeepTheirParents
<1>. QED  BY <1>1, <1>2, ShownIsBorn

\* A committed agent has a login, a payer the one it is put down to.
LEMMA LoginsOf ==
  ASSUME OnRows, RecordsKeepTheirParents, NEW x \in Row, shown[x] # Absent
  PROVE  /\ x[1] = "agent" => /\ shown[x].user \in Id /\ User(shown[x].user) \in Row
                              /\ shown[User(shown[x].user)] # Absent /\ Born(shown[x].user)
         /\ x[1] = "payer" => /\ shown[x].by \in Id /\ User(shown[x].by) \in Row
                              /\ shown[User(shown[x].by)] # Absent /\ Born(shown[x].by)
<1>1. /\ x[1] = "agent" => shown[x].user \in Id /\ User(shown[x].user) \in RefersTo(x, shown[x])
      /\ x[1] = "payer" => shown[x].by \in Id /\ User(shown[x].by) \in RefersTo(x, shown[x])
  <2>1. x[1] = "agent" => shown[x].user \in Id
    BY ParentIs, RowColumns
  <2>2. x[1] = "payer" => shown[x].by \in Id
    BY ParentIs, RowColumns
  <2>3. x[1] = "agent" => User(shown[x].user) \in RefersTo(x, shown[x])
    BY Keys
  <2>4. x[1] = "payer" => User(shown[x].by) \in RefersTo(x, shown[x])
    BY Keys
  <2>. QED  BY <2>1, <2>2, <2>3, <2>4
<1>2. \A i \in Id : User(i)[2] = i /\ User(i) \in Row
  BY RowNames
<1>3. \A p \in RefersTo(x, shown[x]) : shown[p] # Absent /\ Born(p[2])
  BY ParentIs
<1>. QED  BY <1>1, <1>2, <1>3

\* FieldAgentViewSet.assign_payer: the agent is of the firm of the payer's enumerator.
LEMMA AssignPayerIsFine == ASSUME PeopleInv, NEW r \in Request, AssignPayer(r) PROVE Fine(r)
<1>0. /\ Base /\ OnRows /\ Local(r) /\ RecordsKeepTheirParents /\ job[r].kind = "ASSIGN"
      /\ ~Is(r, Careful \ {"ASSIGN"}) /\ note[r] \in Note
  BY DEF PeopleInv, AssignPayer, Is, Careful, Base
<1>1. On(r) \in Row /\ On(r)[1] = "payer" /\ job[r].agent \in Id
  BY <1>0, AskedIs DEF Target
<1> DEFINE agent == Agent(job[r].agent)
<1>2. agent \in Row /\ agent[1] = "agent"
  BY <1>1, RowNames
<1>3. CASE at[r] = "load" /\ Refuse(r)
  BY <1>0, <1>3, RefuseIsFine DEF Refuse
<1>4. CASE /\ at[r] = "load" /\ There(r, agent) /\ There(r, On(r)) /\ MayAssign(r, On(r), Sees(r, agent).user)
           /\ note' = [note EXCEPT ![r].by = Sees(r, agent).user] /\ Go(r, "save") /\ ReadOnly /\ UNCHANGED job
  <2> HIDE DEF agent
  <2>1. HoldsNone(r)
    BY <1>0, <1>4 DEF Local
  <2>2. Sees(r, agent) = shown[agent] /\ Sees(r, On(r)) = shown[On(r)] /\ shown[agent] # Absent /\ shown[On(r)] # Absent
    BY <1>1, <1>2, <1>4, <2>1, SeesShown DEF There
  <2> DEFINE u == shown[agent].user
             i == shown[On(r)].by
             n == [note[r] EXCEPT !.by = u]
  <2>3. u \in Id /\ User(u) \in Row /\ Born(u) /\ i \in Id /\ User(i) \in Row /\ Born(i)
    BY <1>0, <1>1, <1>2, <2>2, LoginsOf
  <2>4. SameFirm(u, i)
    <3>1. MayAssign(r, On(r), u)
      BY <1>4, <2>2
    <3>2. FirmOf(r, u) = shown[User(u)].firm /\ FirmOf(r, i) = shown[User(i)].firm
      BY <2>1, <2>3, SeesShown DEF FirmOf
    <3>. QED  BY <2>2, <2>3, <3>1, <3>2 DEF SameFirm, MayAssign
  <2>5. \A y \in Versions(On(r)) : y.by = i
    BY <1>0, <1>1, <2>2, SameAsShown DEF Same
  <2>6. n \in Note /\ note' = [note EXCEPT ![r] = n] /\ n.by = u /\ u # None
    BY <1>0, <1>4, <2>2, <2>3, PeopleConstants DEF Note, IdOrNone
  <2>7. Born(On(r)[2])
    BY <1>0, <1>1, <2>2, ShownIsBorn
  <2> HIDE DEF u, i, n
  <2>8. Turns(r) /\ at'[r] = "save" /\ note'[r] = n /\ job' = job
    BY <1>0, <1>4, <2>6, NextSteps, NoteTurns
  <2>9. Wrote(r) /\ row' = row /\ shown' = shown
    BY <1>0, <1>4, ReadWrote
  <2>10. AssignOK(r)'
    <3>1. On(r)' = On(r) /\ Versions(On(r))' = Versions(On(r))
      BY <2>8, <2>9 DEF On, Versions
    <3>2. (\A j : Born(j)' <=> Born(j)) /\ (\A v, j : SameFirm(v, j)' <=> SameFirm(v, j))
      BY <2>8, <2>9, MeaningStays
    <3>. QED  BY <2>4, <2>5, <2>6, <2>7, <2>8, <3>1, <3>2 DEF AssignOK
  <2>. QED  BY <1>0, <2>8, <2>9, <2>10 DEF Fine, Local, Is, Careful, Turns
<1>5. CASE Save(r, On(r), [row[On(r)] EXCEPT !.to = note[r].by])
  <2> DEFINE y == row[On(r)]
             v == [row[On(r)] EXCEPT !.to = note[r].by]
  <2>1. ASSUME y # Absent PROVE Updates(On(r), v)
    <3>1. y \in PayerRow /\ RowType(On(r)) = PayerRow /\ y \in Versions(On(r))
      BY <1>0, <1>1, <2>1, SavedRow, RowTypes DEF Versions
    <3>2. at[r] = "save" /\ AssignOK(r)
      BY <1>0, <1>5 DEF Save, Local, Is
    <3>3. SameFirm(note[r].by, y.by)
      BY <3>1, <3>2 DEF AssignOK
    <3>4. v \in PayerRow /\ v.by = y.by /\ v.ward = y.ward /\ v.login = y.login /\ v.to = note[r].by
      BY <1>0, <3>1 DEF PayerRow, Note
    <3> HIDE DEF v
    <3>. QED  BY <1>1, <2>1, <3>1, <3>3, <3>4 DEF Updates, Same, Alters
  <2>2. Fine(r) \/ (Turns(r) /\ Wrote(r) /\ at'[r] = "commit")
    <3> HIDE DEF v
    <3>. QED  BY <1>0, <1>1, <1>5, <2>1, SaveIsFine DEF v
  <2>. QED  BY <1>0, <2>2, CommitIsFine DEF Is
<1>. QED  BY <1>3, <1>4, <1>5 DEF AssignPayer

\* PayerViewSet.invite_ratepayer: the payer's login is the one that this request creates.
LEMMA InviteIsFine == ASSUME PeopleInv, NEW r \in Request, Invite(r) PROVE Fine(r)
<1>0. Base /\ OnRows /\ job[r].kind = "INVITE" /\ ~Is(r, Careful) /\ ~Is(r, {"DESTROY", "RESET"})
  BY DEF PeopleInv, Invite, Is, Careful
<1>1. On(r) \in Row /\ On(r)[1] = "payer" /\ job[r] \in Asked /\ r \in Id /\ note[r] \in Note
  BY <1>0, AskedIs, RequestIds DEF Target, Base
<1>2. ASSUME NEW fine, NEW next \in {"save", "name"}, Check(r, fine, next) PROVE Fine(r)
  BY <1>0, <1>2, NextSteps, CheckIsFine
<1>3. CASE Insert(r, "login", User(r), NewUser(r, "RATEPAYER", None), "save")
  <2>1. User(r) \in Row /\ User(r)[1] = "user" /\ User(r)[2] = r
    BY <1>1, RowNames
  <2>2. NewUser(r, "RATEPAYER", None) \in UserRow /\ RowType(User(r)) = UserRow
    BY <1>1, <2>1, RowTypes, NewUserIs DEF IdOrNone
  <2>3. VersionOK(User(r), NewUser(r, "RATEPAYER", None))
    BY <1>0, <2>1, <2>2 DEF VersionOK, UserOK, LoginOf, Is, NewUser
  <2>4. Adds(r, User(r), NewUser(r, "RATEPAYER", None))
    BY <1>0, <2>1, <2>3 DEF Adds
  <2>. QED  BY <1>0, <1>3, <2>1, <2>4, NextSteps, InsertIsFine, PlainIsFine
<1>4. CASE Save(r, On(r), [row[On(r)] EXCEPT !.login = r])
  <2> DEFINE y == row[On(r)]
             v == [row[On(r)] EXCEPT !.login = r]
  <2>1. ASSUME y # Absent PROVE Updates(On(r), v)
    <3>1. y \in PayerRow /\ RowType(On(r)) = PayerRow
      BY <1>0, <1>1, <2>1, SavedRow, RowTypes
    <3>2. v \in PayerRow /\ v.by = y.by /\ v.ward = y.ward /\ v.login = r /\ v.to = y.to
      BY <1>1, <3>1 DEF PayerRow, IdOrNone
    <3>3. RatepayerIs(r)
      BY <1>0 DEF RatepayerIs, Is
    <3> HIDE DEF v
    <3>. QED  BY <1>1, <2>1, <3>1, <3>2, <3>3 DEF Updates, Same, Alters
  <2> HIDE DEF v
  <2>. QED  BY <1>0, <1>1, <1>4, <2>1, SaveIsFine, PlainIsFine DEF v
<1>. QED  BY <1>2, <1>3, <1>4 DEF Invite

\* RatepayerPortalViewSet.delegations: to a proxy, and no second one that is open.
LEMMA DelegateIsFine == ASSUME PeopleInv, NEW r \in Request, Delegate(r) PROVE Fine(r)
<1>0. /\ Base /\ OnRows /\ Local(r) /\ job[r].kind = "DELEGATE" /\ ~Is(r, Careful \ {"DELEGATE"})
      /\ ~Is(r, {"DESTROY", "RESET"}) /\ ~Is(r, {"ONBOARD", "REVOKE", "RESET"})
  BY DEF PeopleInv, Delegate, Is, Careful
<1>1. On(r)[2] \in Id /\ job[r].proxy \in Id /\ r \in Id
  BY <1>0, AskedIs, RequestIds
<1>2. CASE at[r] = "load" /\ Refuse(r)
  BY <1>0, <1>2, RefuseIsFine DEF Refuse
<1>3. CASE at[r] = "load" /\ Move(r, "commit") /\ ReadOnly
  <2>1. Turns(r) /\ at'[r] = "commit"
    BY <1>0, <1>3, NextSteps, MoveTurns
  <2>. QED  BY <1>0, <1>3, <2>1, ReadWrote, CommitIsFine
<1>4. CASE at[r] = "load" /\ Move(r, "insert") /\ ReadOnly /\ IsProxy(r, User(job[r].proxy))
  <2>1. Turns(r) /\ at'[r] = "insert" /\ job' = job
    BY <1>0, <1>4, NextSteps, MoveTurns
  <2>2. Wrote(r) /\ holder' = holder /\ shown' = shown
    BY <1>0, <1>4, ReadWrote
  <2>3. HoldsNone(r) /\ User(job[r].proxy) \in Row /\ User(job[r].proxy)[2] = job[r].proxy
    BY <1>0, <1>1, <1>4, RowNames DEF Local
  <2>4. shown[User(job[r].proxy)] # Absent /\ shown[User(job[r].proxy)].role = "RATEPAYER_PROXY"
    BY <1>4, <2>3, SeesShown DEF IsProxy, There
  <2>5. HasRole(job[r].proxy, {"RATEPAYER_PROXY"})
    BY <1>0, <2>3, <2>4, ShownIsBorn DEF HasRole
  <2>6. HasRole(job[r].proxy, {"RATEPAYER_PROXY"})'
    BY <2>1, <2>2, <2>5, MeaningStays
  <2>7. DelegateOK(r)'
    BY <2>1, <2>2, <2>3, <2>6 DEF DelegateOK, HoldsNone
  <2>. QED  BY <1>0, <2>1, <2>2, <2>7 DEF Fine, Local, Is, Careful
<1>5. ASSUME NEW new, new = [payer |-> On(r)[2], proxy |-> job[r].proxy, open |-> TRUE],
             Insert(r, "insert", Delegation(r), new, "commit")
      PROVE  Fine(r)
  <2>0. at[r] = "insert" /\ Delegation(r) \in Row /\ Delegation(r)[1] = "delegation" /\ Delegation(r)[2] = r
    BY <1>1, <1>5, RowNames DEF Insert
  <2>1. HoldsNone(r) /\ HasRole(job[r].proxy, {"RATEPAYER_PROXY"})
    BY <1>0, <2>0 DEF Local, DelegateOK, Is
  <2>2. new \in DelegationRow /\ new.proxy = job[r].proxy
    BY <1>1, <1>5 DEF DelegationRow
  <2>3. VersionOK(Delegation(r), new)
    BY <2>0, <2>1, <2>2, RowTypes DEF VersionOK, DelegationOK
  <2>4. CASE Rivals(r, Delegation(r), new) = {}
    <3>1. ASSUME NEW z \in Row \ {Delegation(r)}, z[1] = "delegation", NEW y \in Versions(z)
          PROVE  ~SameDelegation(new, y)
      <4>1. z \notin Rivals(r, Delegation(r), new) /\ y # Absent
        BY <2>4, <3>1 DEF Versions
      <4>2. /\ row[z] # Absent => ~Clash("delegation", new, row[z])
            /\ holder[z] \notin {0, r} /\ shown[z] # Absent => ~Clash("delegation", new, shown[z])
        BY <2>0, <3>1, <4>1 DEF Rivals
      <4>3. holder[z] # r /\ (holder[z] = 0 => row[z] = shown[z])
        BY <1>0, <2>1, <3>1 DEF HoldsNone, Base, LocksHold
      <4>4. ~Clash("delegation", new, y)
        BY <3>1, <4>1, <4>2, <4>3 DEF Versions
      <4>. QED  BY <4>4 DEF Clash
    <3>2. Adds(r, Delegation(r), new)
      BY <1>0, <2>0, <2>3, <3>1 DEF Adds
    <3>3. Put(r, Delegation(r), new) /\ Move(r, "commit")
      BY <1>5, <2>4 DEF Insert
    <3>4. Turns(r) /\ at'[r] = "commit"
      BY <1>0, <2>0, <3>3, NextSteps, MoveTurns
    <3>. QED  BY <1>0, <2>0, <3>2, <3>3, <3>4, PutWrote, CommitIsFine
  <2>5. CASE Rivals(r, Delegation(r), new) # {}
    BY <1>0, <1>5, <2>0, <2>5, FailIsFine DEF Insert
  <2>. QED  BY <2>4, <2>5
<1>. QED  BY <1>2, <1>3, <1>4, <1>5 DEF Delegate, Check

\* revoke_delegation: what commits is the delegation, closed.
LEMMA RevokeIsFine == ASSUME PeopleInv, NEW r \in Request, Revoke(r) PROVE Fine(r)
<1>0. Base /\ OnRows /\ Local(r) /\ job[r].kind = "REVOKE" /\ ~Is(r, Careful \ {"REVOKE"})
  BY DEF PeopleInv, Revoke, Is, Careful
<1>1. On(r) \in Row /\ On(r)[1] = "delegation"
  BY <1>0, AskedIs DEF Target
<1>2. CASE at[r] = "load" /\ Refuse(r)
  BY <1>0, <1>2, RefuseIsFine DEF Refuse
<1>3. CASE at[r] = "load" /\ Move(r, "save") /\ ReadOnly /\ There(r, On(r))
  <2>1. Turns(r) /\ at'[r] = "save" /\ job' = job
    BY <1>0, <1>3, NextSteps, MoveTurns
  <2>2. Wrote(r) /\ shown' = shown
    BY <1>0, <1>3, ReadWrote
  <2>3. HoldsNone(r)
    BY <1>0, <1>3 DEF Local
  <2>4. Born(On(r)[2])
    BY <1>0, <1>1, <1>3, <2>3, SeesShown, ShownIsBorn DEF There
  <2>5. RevokeOK(r)'
    BY <2>1, <2>2, <2>4, MeaningStays DEF RevokeOK, On
  <2>. QED  BY <1>0, <2>1, <2>2, <2>5 DEF Fine, Local, Is, Careful
<1>4. CASE Save(r, On(r), [row[On(r)] EXCEPT !.open = FALSE])
  <2> DEFINE y == row[On(r)]
             v == [row[On(r)] EXCEPT !.open = FALSE]
  <2>1. ASSUME y # Absent PROVE Updates(On(r), v) /\ v # Absent /\ ~v.open
    <3>1. y \in DelegationRow /\ RowType(On(r)) = DelegationRow
      BY <1>0, <1>1, <2>1, SavedRow, RowTypes
    <3>2. v \in DelegationRow /\ v.payer = y.payer /\ v.proxy = y.proxy /\ v.open = FALSE
      BY <3>1 DEF DelegationRow
    <3> HIDE DEF v
    <3>. QED  BY <1>1, <2>1, <3>1, <3>2, TypedIsRow DEF Updates, Same, Alters
  <2>2. Fine(r) \/ (Turns(r) /\ Wrote(r) /\ at'[r] = "commit" /\ row'[On(r)] = v /\ holder'[On(r)] = r /\ y # Absent)
    <3> HIDE DEF v
    <3>. QED  BY <1>0, <1>1, <1>4, <2>1, SaveIsFine DEF v
  <2> HIDE DEF v
  <2>3. CASE Turns(r) /\ Wrote(r) /\ at'[r] = "commit" /\ row'[On(r)] = v /\ holder'[On(r)] = r /\ y # Absent
    <3>1. On(r)' = On(r) /\ job' = job
      BY <2>3 DEF On, Turns
    <3>2. Born(On(r)[2])
      BY <1>0, <1>4 DEF Save, Local, RevokeOK, Is
    <3>3. RevokeOK(r)'
      BY <2>1, <2>3, <3>1, <3>2, MeaningStays DEF RevokeOK, Has, Wrote
    <3>. QED  BY <1>0, <2>3, <3>1, <3>3 DEF Fine, Local, Is, Careful
  <2>. QED  BY <2>2, <2>3
<1>. QED  BY <1>2, <1>3, <1>4 DEF Revoke, Check

\* A row that is locked is as it was.
LEMMA SameUpdates ==
  ASSUME Base, OnRows, NEW x \in Row, row[x] # Absent
  PROVE  Updates(x, row[x])
<1>1. row[x] \in RowType(x) /\ VersionOK(x, row[x])
  BY SavedRow
<1>. QED  BY <1>1 DEF Updates, Same, Alters, VersionOK, FirmOK

\* BillViewSet.create and issue_bill.
LEMMA IssueBillIsFine == ASSUME PeopleInv, NEW r \in Request, IssueBill(r) PROVE Fine(r)
<1>0. Base /\ OnRows /\ job[r].kind = "BILL" /\ ~Is(r, Careful) /\ ~Is(r, {"DESTROY", "RESET"})
  BY DEF PeopleInv, IssueBill, Is, Careful
<1>1. On(r) \in Row /\ On(r)[2] \in Id /\ r \in Id
  BY <1>0, AskedIs, RequestIds
<1>2. ASSUME NEW fine, Check(r, fine, "payer") PROVE Fine(r)
  BY <1>0, <1>2, NextSteps, CheckIsFine
<1>3. CASE at[r] = "payer" /\ Move(r, "failed") /\ ReadOnly
  BY <1>0, <1>3, RefuseIsFine
<1>4. CASE at[r] = "payer" /\ row[On(r)] # Absent /\ Lock(r, On(r)) /\ Move(r, "bill")
  <2>1. Turns(r)
    BY <1>0, <1>4, NextSteps, MoveTurns
  <2>2. Updates(On(r), row[On(r)]) /\ Put(r, On(r), row[On(r)])
    BY <1>0, <1>1, <1>4, SameUpdates DEF Lock
  <2>3. Wrote(r)
    BY <1>0, <1>1, <2>2, PutWrote
  <2>. QED  BY <1>0, <2>1, <2>3, PlainIsFine
<1>5. CASE at[r] = "bill" /\ Fail(r, "refused")
  BY <1>0, <1>5, FailIsFine
<1>6. ASSUME NEW new, new = [payer |-> On(r)[2], status |-> "ISSUED"], at[r] = "bill", Put(r, Bill(r), new),
             Move(r, "commit")
      PROVE  Fine(r)
  <2>1. Bill(r) \in Row /\ Bill(r)[1] = "bill" /\ Bill(r)[2] = r
    BY <1>1, RowNames
  <2>2. new \in BillRow
    BY <1>1, <1>6 DEF BillRow
  <2>3. Adds(r, Bill(r), new)
    BY <1>0, <2>1, <2>2, RowTypes DEF Adds, VersionOK
  <2>4. Wrote(r)
    BY <1>0, <1>6, <2>1, <2>3, PutWrote
  <2>5. Turns(r)
    BY <1>0, <1>6, NextSteps, MoveTurns
  <2>. QED  BY <1>0, <2>4, <2>5, PlainIsFine
<1>. QED  BY <1>2, <1>3, <1>4, <1>5, <1>6 DEF IssueBill

\* A bill that is saved with its new payments.
LEMMA SettleIsFine ==
  ASSUME PeopleInv, NEW r \in Request, job[r].kind \in {"PAY", "REVERSE"}, NEW status \in {"ISSUED", "PAID", "OVERDUE"},
         NEW payments \in SUBSET {Payment(r)}, Settle(r, status, payments)
  PROVE  Fine(r)
<1>0. Base /\ OnRows /\ ~Is(r, Careful) /\ ~Is(r, {"DESTROY", "RESET"}) /\ at[r] = "save"
  BY DEF PeopleInv, Is, Careful, Settle
<1>1. On(r) \in Row /\ On(r)[1] = "bill" /\ On(r)[2] \in Id /\ job[r].by \in Id /\ r \in Id
  BY <1>0, AskedIs, RequestIds DEF Target
<1>2. CASE row[On(r)] = Absent
  BY <1>0, <1>2, FailIsFine DEF Settle
<1>3. CASE row[On(r)] # Absent
  <2>. PICK new : new = [x \in {On(r)} \cup payments |-> IF x = On(r) THEN [row[x] EXCEPT !.status = status]
                                                     ELSE [bill |-> On(r)[2], by |-> job[r].by]]
    OBVIOUS
  <2>1. Write(r, new) /\ Move(r, "commit")
    BY <1>3 DEF Settle
  <2>2. Updates(On(r), new[On(r)])
    <3>1. row[On(r)] \in BillRow /\ RowType(On(r)) = BillRow
      BY <1>0, <1>1, <1>3, SavedRow, RowTypes
    <3>2. new[On(r)] = [row[On(r)] EXCEPT !.status = status]
      OBVIOUS
    <3>3. new[On(r)] \in BillRow
      BY <3>1, <3>2 DEF BillRow
    <3>. QED  BY <1>1, <1>3, <3>1, <3>3 DEF Updates, Same, Alters
  <2>3. Payment(r) \in payments => Adds(r, Payment(r), new[Payment(r)])
    <3>1. Payment(r) \in Row /\ Payment(r)[1] = "payment" /\ Payment(r)[2] = r /\ Payment(r) # On(r)
      BY <1>1, RowNames
    <3>2. Payment(r) \in payments => new[Payment(r)] = [bill |-> On(r)[2], by |-> job[r].by]
      BY <3>1
    <3>3. Payment(r) \in payments => new[Payment(r)] \in PaymentRow
      BY <1>1, <3>2 DEF PaymentRow
    <3>. QED  BY <1>0, <3>1, <3>3, RowTypes DEF Adds, VersionOK
  <2>4. DOMAIN new \subseteq {On(r), Payment(r)} /\ (Payment(r) \in DOMAIN new => Payment(r) \in payments \/ Payment(r) = On(r))
    OBVIOUS
  <2>5. Wrote(r)
    <3>1. \A x \in Row \cap DOMAIN new : Updates(x, new[x]) \/ Adds(r, x, new[x]) \/ Removes(r, x)
      BY <2>2, <2>3, <2>4
    <3>. QED  BY <1>0, <2>1, <3>1, WriteWrote
  <2>6. Turns(r)
    BY <1>0, <2>1, NextSteps, MoveTurns
  <2>. QED  BY <1>0, <2>5, <2>6, PlainIsFine
<1>. QED  BY <1>2, <1>3

\* PaymentViewSet.create.
LEMMA PostPaymentIsFine == ASSUME PeopleInv, NEW r \in Request, PostPayment(r) PROVE Fine(r)
<1>0. Base /\ job[r].kind = "PAY" /\ ~Is(r, Careful)
  BY DEF PeopleInv, PostPayment, Is, Careful
<1>1. ASSUME NEW fine, Check(r, fine, "save") PROVE Fine(r)
  BY <1>0, <1>1, NextSteps, CheckIsFine
<1>2. CASE Settle(r, "PAID", {Payment(r)})
  BY <1>0, <1>2, SettleIsFine
<1>. QED  BY <1>1, <1>2 DEF PostPayment

\* PaymentViewSet.reverse.
LEMMA ReversePaymentIsFine == ASSUME PeopleInv, NEW r \in Request, ReversePayment(r) PROVE Fine(r)
<1>0. Base /\ job[r].kind = "REVERSE" /\ ~Is(r, Careful)
  BY DEF PeopleInv, ReversePayment, Is, Careful
<1>1. ASSUME NEW fine, Check(r, fine, "save") PROVE Fine(r)
  BY <1>0, <1>1, NextSteps, CheckIsFine
<1>2. CASE Settle(r, "OVERDUE", {})
  BY <1>0, <1>2, SettleIsFine
<1>. QED  BY <1>1, <1>2 DEF ReversePayment

\* What goes with a row, by its table.
LEMMA GoesWithIs ==
  ASSUME NEW x \in Row, NEW y
  PROVE  \A p \in GoesWith(x, y) :
           /\ p[1] = "payer" => x[1] = "delegation"
           /\ p[1] = "user" => (x[1] = "agent" /\ p = User(y.user)) \/ x[1] = "delegation"
           /\ p[1] = "firm" => x[1] = "grant"
           /\ p[1] = "agent" => x[1] = "narrowing"
           /\ p[1] \in {"payer", "user", "firm", "agent"}
           /\ x[1] = "agent" => p = User(y.user)
  BY RowNames DEF GoesWith

\* PayerViewSet.destroy: the payer goes, and the delegations of it.
LEMMA DestroyIsFine == ASSUME PeopleInv, NEW r \in Request, Destroy(r) PROVE Fine(r)
<1>0. Base /\ OnRows /\ Local(r) /\ job[r].kind = "DESTROY" /\ ~Is(r, Careful \ {"DESTROY"}) /\ ~Is(r, {"ONBOARD", "REVOKE", "RESET"})
  BY DEF PeopleInv, Destroy, Is, Careful
<1>1. On(r) \in Row /\ On(r)[1] = "payer"
  BY <1>0, AskedIs DEF Target
<1>2. CASE at[r] = "load" /\ Refuse(r)
  BY <1>0, <1>2, RefuseIsFine DEF Refuse
<1>3. CASE at[r] = "load" /\ Move(r, "save") /\ ReadOnly /\ There(r, On(r))
  <2>1. Turns(r) /\ at'[r] = "save" /\ job' = job
    BY <1>0, <1>3, NextSteps, MoveTurns
  <2>2. Wrote(r) /\ holder' = holder /\ shown' = shown
    BY <1>0, <1>3, ReadWrote
  <2>3. HoldsNone(r)
    BY <1>0, <1>3 DEF Local
  <2>4. Born(On(r)[2])
    BY <1>0, <1>1, <1>3, <2>3, SeesShown, ShownIsBorn DEF There
  <2>5. On(r)' = On(r) /\ (\A i : Born(i)' <=> Born(i))
    BY <2>1, <2>2, MeaningStays DEF On
  <2>6. DestroyOK(r)'
    BY <2>1, <2>2, <2>3, <2>4, <2>5 DEF DestroyOK, HoldsNone
  <2>. QED  BY <1>0, <2>1, <2>2, <2>6 DEF Fine, Local, Is, Careful
<1> DEFINE gone == Gone(r, {On(r)})
<1>4. CASE at[r] = "save" /\ Fail(r, "failed")
  BY <1>0, <1>4, FailIsFine
<1>5. CASE at[r] = "save" /\ Write(r, [x \in gone |-> Absent]) /\ Move(r, "commit")
  <2>1. HoldsNone(r) /\ Born(On(r)[2])
    BY <1>0, <1>5 DEF Local, DestroyOK, Is
  <2>2. ASSUME NEW S, \A x \in S : x \in Row /\ x[1] \in {"payer", "delegation"} /\ Born(x[2]),
               NEW x \in With(r, S)
        PROVE  x \in Row /\ x[1] \in {"payer", "delegation"} /\ Born(x[2])
    <3>1. CASE x \in S
      BY <2>2, <3>1
    <3>2. CASE x \notin S
      <4>1. x \in Row /\ There(r, x) /\ GoesWith(x, Sees(r, x)) \cap S # {}
        BY <2>2, <3>2 DEF With
      <4>2. PICK p \in S : p \in GoesWith(x, Sees(r, x))
        BY <4>1
      <4>3. x[1] = "delegation"
        BY <2>2, <4>1, <4>2, GoesWithIs
      <4>4. shown[x] # Absent
        BY <2>1, <4>1, SeesShown DEF There
      <4>. QED  BY <1>0, <4>1, <4>3, <4>4, ShownIsBorn
    <3>. QED  BY <3>1, <3>2
  <2>3. \A x \in With(r, {On(r)}) : x \in Row /\ x[1] \in {"payer", "delegation"} /\ Born(x[2])
    BY <1>1, <2>1, <2>2
  <2>4. \A x \in gone : x \in Row /\ x[1] \in {"payer", "delegation"} /\ Born(x[2])
    BY <2>2, <2>3 DEF Gone
  <2> HIDE DEF gone
  <2>. PICK new : new = [x \in gone |-> Absent]
    OBVIOUS
  <2>5. Write(r, new) /\ Move(r, "commit") /\ RowsAre(Row)
    BY <1>0, <1>5 DEF Base
  <2>6. \A x \in Row : row'[x] = IF x \in DOMAIN new THEN new[x] ELSE row[x]
    BY <2>5, WriteDoes
  <2>7. \A x \in Row \cap DOMAIN new : Removes(r, x)
    BY <1>0, <2>4, <2>6 DEF Removes, Deletes, Is
  <2>8. Wrote(r)
    BY <1>0, <2>5, <2>7, WriteWrote
  <2>9. Turns(r) /\ at'[r] = "commit"
    BY <1>0, <1>5, NextSteps, MoveTurns
  <2>. QED  BY <1>0, <2>8, <2>9, CommitIsFine
<1>. QED  BY <1>2, <1>3, <1>4, <1>5 DEF Destroy, Check

\* SubConsultantViewSet.perform_create: what it commits is the firm with its payer, its bill
\* and the login that was asked for.
LEMMA OnboardFirmIsFine == ASSUME PeopleInv, NEW r \in Request, OnboardFirm(r) PROVE Fine(r)
<1>0. /\ Base /\ OnRows /\ Local(r) /\ OnboardOK(r) /\ job[r].kind = "ONBOARD" /\ ~Is(r, Careful \ {"ONBOARD"})
      /\ ~Is(r, {"DESTROY", "RESET"}) /\ note[r] \in Note
  BY DEF PeopleInv, OnboardFirm, Is, Careful, Base, Local
<1>1. job[r] \in Asked /\ job[r].by \in Id /\ r \in Id
  BY <1>0, AskedIs, RequestIds
<1>2. /\ Firm(r) \in Row /\ Firm(r)[1] = "firm" /\ Firm(r)[2] = r
      /\ User(r) \in Row /\ User(r)[1] = "user" /\ User(r)[2] = r
      /\ Payer(r) \in Row /\ Payer(r)[1] = "payer" /\ Payer(r)[2] = r
      /\ Bill(r) \in Row /\ Bill(r)[1] = "bill" /\ Bill(r)[2] = r
  BY <1>1, RowNames
<1>3. ASSUME Turns(r), Wrote(r), OnboardOK(r)' PROVE Fine(r)
  BY <1>0, <1>3 DEF Fine, Local, Is, Careful, Turns
<1>4. CASE at[r] = "load" /\ Refuse(r)
  BY <1>0, <1>4, RefuseIsFine DEF Refuse
<1>5. CASE at[r] = "load" /\ Move(r, "insert") /\ ReadOnly /\ Dated(job[r])
  <2>1. Turns(r) /\ at'[r] = "insert" /\ job' = job
    BY <1>0, <1>5, NextSteps, MoveTurns
  <2>. QED  BY <1>0, <1>3, <1>5, <2>1, ReadWrote DEF OnboardOK
<1>6. ASSUME NEW new, new = [ref |-> job[r].ref, status |-> "PENDING", payer |-> None, start |-> job[r].start, end |-> job[r].end],
             NEW next, next = IF job[r].login THEN "name" ELSE "payer",
             Insert(r, "insert", Firm(r), new, next)
      PROVE  Fine(r)
  <2>1. at[r] = "insert" /\ next \in Steps \ {"load", "done"}
    BY <1>6, NextSteps DEF Insert
  <2>2. new \in FirmRow /\ Dated(new) /\ new # Absent
    <3>1. Dated(job[r])
      BY <1>0, <2>1 DEF OnboardOK
    <3>2. new \in FirmRow
      BY <1>1, <1>6 DEF FirmRow, Asked, IdOrNone
    <3>3. new.start = job[r].start /\ new.end = job[r].end
      BY <1>6
    <3>. QED  BY <1>2, <3>1, <3>2, <3>3, RowTypes, TypedIsRow DEF Dated
  <2>3. VersionOK(Firm(r), new)
    BY <1>2, <2>1, <2>2, RowTypes DEF VersionOK, FirmOK
  <2>4. Adds(r, Firm(r), new)
    BY <1>0, <1>2, <2>3 DEF Adds
  <2>5. \/ Fine(r)
        \/ Turns(r) /\ Wrote(r) /\ at'[r] = next /\ row'[Firm(r)] = new /\ holder'[Firm(r)] = r
    <3>1. CASE Put(r, Firm(r), new) /\ Move(r, next)
      BY <1>0, <1>2, <2>1, <2>4, <3>1, MoveTurns, PutWrote
    <3>2. CASE Fail(r, "failed")
      BY <1>0, <2>1, <3>2, FailIsFine
    <3>. QED  BY <1>6, <3>1, <3>2 DEF Insert
  <2>6. CASE Turns(r) /\ Wrote(r) /\ at'[r] = next /\ row'[Firm(r)] = new /\ holder'[Firm(r)] = r
    <3>1. job' = job
      BY <2>6 DEF Turns
    <3>2. OnboardOK(r)'
      BY <1>6, <2>2, <2>6, <3>1 DEF OnboardOK, Has
    <3>. QED  BY <1>3, <2>6, <3>2
  <2>. QED  BY <2>5, <2>6
<1>7. CASE Insert(r, "login", User(r), NewUser(r, "CONSULTANT", r), "payer")
  <2>. PICK new : new = NewUser(r, "CONSULTANT", r)
    OBVIOUS
  <2>1. at[r] = "login" /\ "payer" \in Steps \ {"load", "done"} /\ Insert(r, "login", User(r), new, "payer")
    BY <1>7, NextSteps DEF Insert
  <2>2. new \in UserRow /\ new # Absent
    BY <1>0, <1>1, <1>2, RowTypes, TypedIsRow, NewUserIs DEF IdOrNone
  <2>3. VersionOK(User(r), new)
    BY <1>0, <1>2, <2>2, RowTypes DEF VersionOK, UserOK, LoginOf, Is
  <2>4. Adds(r, User(r), new)
    BY <1>0, <1>2, <2>3 DEF Adds
  <2>5. \/ Fine(r)
        \/ /\ Turns(r) /\ Wrote(r) /\ at'[r] = "payer" /\ row'[User(r)] = new /\ holder'[User(r)] = r
           /\ \A y \in Row \ {User(r)} : row'[y] = row[y] /\ holder'[y] = holder[y]
    <3>1. CASE Put(r, User(r), new) /\ Move(r, "payer")
      BY <1>0, <1>2, <2>1, <2>4, <3>1, MoveTurns, PutWrote
    <3>2. CASE Fail(r, "failed")
      BY <1>0, <2>1, <3>2, FailIsFine
    <3>. QED  BY <2>1, <3>1, <3>2 DEF Insert
  <2>6. CASE /\ Turns(r) /\ Wrote(r) /\ at'[r] = "payer" /\ row'[User(r)] = new /\ holder'[User(r)] = r
             /\ \A y \in Row \ {User(r)} : row'[y] = row[y] /\ holder'[y] = holder[y]
    <3>1. Has(r, Firm(r)) /\ Firm(r) # User(r)
      BY <1>0, <1>2, <2>1 DEF OnboardOK
    <3>2. Has(r, Firm(r))' /\ Has(r, User(r))'
      BY <1>2, <2>2, <2>6, <3>1 DEF Has
    <3>3. OnboardOK(r)'
      BY <2>6, <3>2 DEF OnboardOK
    <3>. QED  BY <1>3, <2>6, <3>3
  <2>. QED  BY <2>5, <2>6
<1>8. ASSUME NEW new, at[r] = "payer", Write(r, new), Move(r, "bill"),
             new = [x \in {Payer(r), Firm(r)} |->
                      IF x = Firm(r) THEN [row[x] EXCEPT !.payer = r] ELSE NewPayer(r, 0, job[r].by)]
      PROVE  Fine(r)
  <2>1. Has(r, Firm(r)) /\ (job[r].login => Has(r, User(r)))
    BY <1>0, <1>8 DEF OnboardOK
  <2>2. new[Firm(r)] = [row[Firm(r)] EXCEPT !.payer = r] /\ new[Payer(r)] = NewPayer(r, 0, job[r].by)
        /\ DOMAIN new = {Payer(r), Firm(r)}
    <3>1. Payer(r) # Firm(r)
      BY <1>2
    <3>. QED  BY <1>8, <3>1
  <2>3. Updates(Firm(r), new[Firm(r)]) /\ new[Firm(r)].payer = r /\ new[Firm(r)] # Absent
    <3>1. row[Firm(r)] \in FirmRow /\ RowType(Firm(r)) = FirmRow /\ Dated(row[Firm(r)]) /\ row[Firm(r)] # Absent
      BY <1>0, <1>2, <2>1, SavedRow, RowTypes DEF Has, VersionOK, FirmOK
    <3>. PICK v : v = [row[Firm(r)] EXCEPT !.payer = r]
      OBVIOUS
    <3>2. v \in FirmRow /\ v.payer = r /\ v.start = row[Firm(r)].start /\ v.end = row[Firm(r)].end
      BY <1>1, <3>1 DEF FirmRow, IdOrNone
    <3>3. v # Absent /\ Dated(v)
      BY <1>2, <3>1, <3>2, TypedIsRow DEF Dated
    <3>4. Updates(Firm(r), v)
      BY <1>2, <1>8, <3>1, <3>2, <3>3 DEF Updates, Same, Alters
    <3>. QED  BY <2>2, <3>2, <3>3, <3>4
  <2>4. Adds(r, Payer(r), new[Payer(r)])
    <3>. PICK v : v = NewPayer(r, 0, job[r].by)
      OBVIOUS
    <3>1. v \in PayerRow /\ v.to = None /\ v.login = None
      BY <1>1 DEF NewPayer, PayerRow, Asked, IdOrNone
    <3>2. VersionOK(Payer(r), v)
      BY <1>0, <1>2, <3>1, RowTypes DEF VersionOK, PayerOK, Is
    <3>. QED  BY <1>0, <1>2, <2>2, <3>2 DEF Adds
  <2>5. Wrote(r)
    <3>1. \A x \in Row \cap DOMAIN new : Updates(x, new[x]) \/ Adds(r, x, new[x]) \/ Removes(r, x)
      BY <2>2, <2>3, <2>4
    <3>. QED  BY <1>0, <1>8, <3>1, WriteWrote
  <2>6. Turns(r) /\ at'[r] = "bill" /\ job' = job
    BY <1>0, <1>8, NextSteps, MoveTurns
  <2>7. /\ \A x \in Row : row'[x] = IF x \in DOMAIN new THEN new[x] ELSE row[x]
        /\ \A x \in Row : holder'[x] = IF x \in DOMAIN new THEN r ELSE holder[x]
    <3>1. RowsAre(Row)
      BY <1>0 DEF Base
    <3>. QED  BY <1>8, <3>1, WriteDoes
  <2>8. /\ row'[Firm(r)] = new[Firm(r)] /\ holder'[Firm(r)] = r
        /\ row'[User(r)] = row[User(r)] /\ holder'[User(r)] = holder[User(r)]
    <3>1. User(r) \notin {Payer(r), Firm(r)}
      BY <1>2
    <3>. QED  BY <1>2, <2>2, <2>7, <3>1
  <2>9. OnboardOK(r)'
    <3>1. Has(r, Firm(r))' /\ row'[Firm(r)].payer = r
      BY <2>3, <2>8 DEF Has
    <3>2. job[r].login => Has(r, User(r))'
      BY <2>1, <2>8 DEF Has
    <3>. QED  BY <2>6, <3>1, <3>2 DEF OnboardOK
  <2>. QED  BY <1>3, <2>5, <2>6, <2>9
<1>9. ASSUME NEW new, new = [payer |-> r, status |-> "ISSUED"], at[r] = "bill", Put(r, Bill(r), new), Move(r, "commit")
      PROVE  Fine(r)
  <2>1. Has(r, Firm(r)) /\ (job[r].login => Has(r, User(r))) /\ row[Firm(r)].payer = r
    BY <1>0, <1>9 DEF OnboardOK
  <2>2. new \in BillRow /\ new # Absent
    <3>1. new \in BillRow
      BY <1>1, <1>9 DEF BillRow
    <3>. QED  BY <1>2, <3>1, RowTypes, TypedIsRow
  <2>3. Adds(r, Bill(r), new)
    BY <1>0, <1>2, <2>2, RowTypes DEF Adds, VersionOK
  <2>4. /\ Wrote(r) /\ row'[Bill(r)] = new /\ holder'[Bill(r)] = r
        /\ \A y \in Row \ {Bill(r)} : row'[y] = row[y] /\ holder'[y] = holder[y]
    BY <1>0, <1>2, <1>9, <2>3, PutWrote
  <2>5. Turns(r) /\ at'[r] = "commit" /\ job' = job
    BY <1>0, <1>9, NextSteps, MoveTurns
  <2>6. Firm(r) # Bill(r) /\ User(r) # Bill(r)
    BY <1>2
  <2>7. Has(r, Firm(r))' /\ (job[r].login => Has(r, User(r))') /\ row'[Firm(r)].payer = r /\ Has(r, Bill(r))'
    BY <1>2, <2>1, <2>2, <2>4, <2>6 DEF Has
  <2>8. OnboardOK(r)'
    BY <2>5, <2>7 DEF OnboardOK
  <2>. QED  BY <1>3, <2>4, <2>5, <2>8
<1>10. CASE at[r] = "bill" /\ Fail(r, "refused")
  BY <1>0, <1>10, FailIsFine
<1>. QED  BY <1>4, <1>5, <1>6, <1>7, <1>8, <1>9, <1>10 DEF OnboardFirm, Check

\* What the reset of a council's data sees is committed: it creates nothing.
LEMMA ResetSees ==
  ASSUME Base, OnRows, NEW r \in Request, Is(r, {"RESET"}), NEW x \in Row, There(r, x)
  PROVE  shown[x] # Absent /\ Born(x[2]) /\ Sees(r, x) \in Versions(x)
<1>1. shown[x] # Absent
  <2> SUFFICES ASSUME shown[x] = Absent PROVE FALSE
    OBVIOUS
  <2>1. holder[x] = r /\ row[x] # Absent
    BY DEF There, Sees
  <2>2. x[2] = r
    BY <2>1 DEF OnRows, RowOK
  <2>. QED  BY <2>1, <2>2 DEF OnRows, RowOK, Is
<1>. QED  BY <1>1, ShownIsBorn DEF There, Sees, Versions

\* What it deletes with the logins are their agents, with the firms nothing but their grants.
LEMMA DoomedAre ==
  ASSUME Base, OnRows, NEW r \in Request, Is(r, {"RESET"}), note[r].stage \in 1..5
  PROVE  LET doomed == Gone(r, Match(r))
         IN /\ doomed \subseteq Row
            /\ \A x \in doomed : Born(x[2])
            /\ \A x \in doomed : x[1] = "agent" /\ shown[x] # Absent => User(shown[x].user) \in doomed
            /\ note[r].stage = 5 =>
                 /\ \A x \in doomed : x[1] \notin {"user", "bill"}
                 /\ \A i \in Id : shown[Firm(i)] = Absent \/ Firm(i) \in doomed \/ Deleted(r, Firm(i))
<1> DEFINE M == Match(r)
           W == With(r, M)
           G == With(r, W)
<1>1. \A x \in M : x \in Row /\ x[1] = Wipes[note[r].stage] /\ There(r, x)
  <2> SUFFICES ASSUME NEW x \in M PROVE x \in Row /\ x[1] = Wipes[note[r].stage] /\ There(r, x)
    OBVIOUS
  <2>1. x \in {Wipes[note[r].stage]} \X Id /\ There(r, x)
    BY DEF Match, Rows
  <2>2. Wipes[note[r].stage] \in Table
    BY DEF Wipes, Table
  <2>. QED  BY <2>1, <2>2 DEF Row
<1>2. Wipes[note[r].stage] # "agent" /\ (note[r].stage = 5 => Wipes[note[r].stage] = "firm")
  BY DEF Wipes
<1> HIDE DEF M
<1>3. \A S : S \subseteq With(r, S) /\ \A x \in With(r, S) \ S : x \in Row /\ There(r, x) /\ GoesWith(x, Sees(r, x)) \cap S # {}
  BY DEF With
<1>4. M \subseteq W /\ W \subseteq G /\ \A x \in G : x \in Row /\ There(r, x)
  BY <1>1, <1>3
<1>5. \A x \in G : Born(x[2])
  BY <1>4, ResetSees
<1>6. ASSUME NEW x \in G, x[1] = "agent", shown[x] # Absent PROVE User(shown[x].user) \in G
  <2>1. x \notin M
    BY <1>1, <1>2, <1>6
  <2>2. GoesWith(x, Sees(r, x)) \cap G # {}
    BY <1>3, <1>4, <2>1
  <2>3. User(Sees(r, x).user) \in G
    BY <1>4, <1>6, <2>2, GoesWithIs
  <2>4. Sees(r, x).user = shown[x].user
    <3>1. Same(x, shown[x], Sees(r, x))
      BY <1>4, <1>6, ResetSees, SameAsShown
    <3>. QED  BY <1>6, <3>1 DEF Same
  <2>. QED  BY <2>3, <2>4
<1>7. ASSUME note[r].stage = 5, NEW x \in G PROVE x[1] \notin {"user", "bill"}
  <2>1. \A y \in M : y[1] = "firm"
    BY <1>1, <1>2, <1>7
  <2>2. ASSUME NEW y \in W PROVE y[1] \in {"firm", "grant"}
    <3>1. CASE y \in M
      BY <2>1, <3>1
    <3>2. CASE y \notin M
      <4>1. y \in Row /\ GoesWith(y, Sees(r, y)) \cap M # {}
        BY <1>3, <2>2, <3>2
      <4>2. PICK p \in M : p \in GoesWith(y, Sees(r, y))
        BY <4>1
      <4>. QED  BY <2>1, <4>1, <4>2, GoesWithIs
    <3>. QED  BY <3>1, <3>2
  <2>3. CASE x \in W
    BY <2>2, <2>3
  <2>4. CASE x \notin W
    <3>1. x \in Row /\ GoesWith(x, Sees(r, x)) \cap W # {}
      BY <1>3, <2>4
    <3>2. PICK p \in W : p \in GoesWith(x, Sees(r, x))
      BY <3>1
    <3>3. p[1] = "firm"
      BY <2>2, <3>1, <3>2, GoesWithIs
    <3>. QED  BY <3>1, <3>2, <3>3, GoesWithIs
  <2>. QED  BY <2>3, <2>4
<1>8. ASSUME note[r].stage = 5, NEW i \in Id PROVE shown[Firm(i)] = Absent \/ Firm(i) \in G \/ Deleted(r, Firm(i))
  <2>1. Firm(i) \in Row /\ Firm(i)[1] = "firm" /\ Firm(i) \in {"firm"} \X Id
    BY RowNames DEF Firm
  <2>2. CASE There(r, Firm(i))
    <3>1. Firm(i) \in M
      BY <1>2, <1>8, <2>1, <2>2 DEF M, Match, Rows
    <3>. QED  BY <1>4, <3>1
  <2>3. CASE ~There(r, Firm(i))
    BY <2>3 DEF There, Sees, Deleted
  <2>. QED  BY <2>2, <2>3
<1>. QED  BY <1>4, <1>5, <1>6, <1>7, <1>8 DEF Gone, M

\* reset_council_data.
LEMMA ResetIsFine == ASSUME PeopleInv, NEW r \in Request, Reset(r) PROVE Fine(r)
<1>0. /\ Base /\ OnRows /\ Local(r) /\ ResetOK(r) /\ job[r].kind = "RESET" /\ Is(r, {"RESET"}) /\ ~Is(r, Careful \ {"RESET"})
      /\ note[r] \in Note
  BY DEF PeopleInv, Reset, Is, Careful, Base, Local
<1>1. ASSUME Turns(r), Wrote(r), ResetOK(r)' PROVE Fine(r)
  BY <1>0, <1>1 DEF Fine, Local, Is, Careful, Turns
<1>2. CASE /\ at[r] = "load" /\ note' = [note EXCEPT ![r].stage = 1]
           /\ Go(r, IF job[r].force THEN "select" ELSE "refused") /\ ReadOnly /\ UNCHANGED job
  <2> DEFINE n == [note[r] EXCEPT !.stage = 1]
             step == IF job[r].force THEN "select" ELSE "refused"
  <2>1. n \in Note /\ note' = [note EXCEPT ![r] = n] /\ n.stage = 1
    BY <1>0, <1>2 DEF Note
  <2>2. step \in Steps \ {"load", "done"} /\ step \in {"select", "refused"}
    BY DEF Steps, Ended
  <2>3. Go(r, step)
    BY <1>2
  <2> HIDE DEF n, step
  <2>4. Turns(r) /\ at'[r] = step /\ note'[r] = n
    BY <1>0, <1>2, <2>1, <2>2, <2>3, NoteTurns
  <2>5. ResetOK(r)'
    BY <2>1, <2>2, <2>4 DEF ResetOK
  <2>. QED  BY <1>0, <1>1, <1>2, <2>4, <2>5, ReadWrote
<1>3. CASE at[r] = "select" /\ Fail(r, "failed")
  BY <1>0, <1>3, FailIsFine
<1>4. CASE /\ at[r] = "select" /\ note' = [note EXCEPT ![r].doomed = Gone(r, Match(r))]
           /\ Go(r, "delete") /\ ReadOnly /\ UNCHANGED job
  <2> DEFINE gone == Gone(r, Match(r))
             n == [note[r] EXCEPT !.doomed = gone]
  <2>1. note[r].stage \in 1..5
    BY <1>0, <1>4 DEF ResetOK
  <2>2. /\ gone \subseteq Row
        /\ \A x \in gone : Born(x[2])
        /\ \A x \in gone : x[1] = "agent" /\ shown[x] # Absent => User(shown[x].user) \in gone
        /\ note[r].stage = 5 =>
             /\ \A x \in gone : x[1] \notin {"user", "bill"}
             /\ \A i \in Id : shown[Firm(i)] = Absent \/ Firm(i) \in gone \/ Deleted(r, Firm(i))
    BY <1>0, <2>1, DoomedAre
  <2> HIDE DEF gone
  <2>3. n \in Note /\ note' = [note EXCEPT ![r] = n] /\ n.doomed = gone /\ n.stage = note[r].stage
    BY <1>0, <1>4, <2>2 DEF Note, gone
  <2> HIDE DEF n
  <2>4. Turns(r) /\ at'[r] = "delete" /\ note'[r] = n
    BY <1>0, <1>4, <2>3, NextSteps, NoteTurns
  <2>5. Wrote(r) /\ row' = row /\ shown' = shown /\ holder' = holder
    BY <1>0, <1>4, ReadWrote
  <2>6. \A i : Born(i)' <=> Born(i)
    BY <2>4, <2>5, MeaningStays
  <2>7. ResetOK(r)'
    <3>1. \A i \in Id : Deleted(r, Firm(i))' <=> Deleted(r, Firm(i))
      BY <2>5 DEF Deleted
    <3>. QED  BY <2>1, <2>2, <2>3, <2>4, <2>5, <2>6, <3>1 DEF ResetOK
  <2>. QED  BY <1>1, <2>4, <2>5, <2>7
<1> DEFINE doomed == note[r].doomed
           emptied == {x \in Rows(r, "payer") : x \notin doomed /\ Emptied(x, Sees(r, x)) \cap doomed # {}}
           step == IF note[r].stage = 5 THEN "commit" ELSE "select"
           n == [note[r] EXCEPT !.stage = IF note[r].stage = 5 THEN 5 ELSE note[r].stage + 1, !.doomed = {}]
<1>5. ASSUME NEW new, new = [x \in doomed \cup emptied |-> IF x \in doomed THEN Absent ELSE Without(doomed, row[x])],
             at[r] = "delete", Free(r, doomed \cup emptied), Write(r, new),
             note' = [note EXCEPT ![r] = n], Go(r, step), job' = job
      PROVE  Fine(r)
  <2>1. /\ note[r].stage \in 1..5
        /\ \A x \in doomed : Born(x[2])
        /\ \A x \in doomed : x[1] = "agent" /\ shown[x] # Absent => User(shown[x].user) \in doomed
        /\ note[r].stage = 5 =>
             /\ \A x \in doomed : x[1] \notin {"user", "bill"}
             /\ \A i \in Id : Takes(r, i) => shown[Firm(i)] = Absent \/ Firm(i) \in doomed \/ Deleted(r, Firm(i))
        /\ doomed \subseteq Row
    BY <1>0, <1>5 DEF ResetOK, Note
  <2>2. \A x \in emptied : x \in Row /\ x[1] = "payer" /\ There(r, x) /\ x \notin doomed
    BY DEF Rows, Row, Table
  <2>3. /\ \A x \in doomed : new[x] = Absent /\ x \in DOMAIN new
        /\ \A x \in emptied : new[x] = Without(doomed, row[x]) /\ x \in DOMAIN new
        /\ DOMAIN new = doomed \cup emptied
    BY <1>5, <2>2
  <2>4. n \in Note /\ n.stage \in 1..5
    <3>. PICK s : s = IF note[r].stage = 5 THEN 5 ELSE note[r].stage + 1
      OBVIOUS
    <3>1. s \in 1..5 /\ s \in 0..5
      BY <2>1
    <3>2. [note[r] EXCEPT !.stage = s, !.doomed = {}] \in Note
      BY <1>0, <3>1 DEF Note
    <3>3. [note[r] EXCEPT !.stage = s, !.doomed = {}].stage = s
      BY <1>0 DEF Note
    <3>. QED  BY <3>1, <3>2, <3>3
  <2>5. step \in {"commit", "select"} /\ step \in Steps \ {"load", "done"} /\ (step = "commit" => note[r].stage = 5)
    BY NextSteps
  <2> HIDE DEF doomed, emptied, n, step
  <2>6. /\ \A x \in Row : row'[x] = IF x \in DOMAIN new THEN new[x] ELSE row[x]
        /\ \A x \in Row : holder'[x] = IF x \in DOMAIN new THEN r ELSE holder[x]
        /\ shown' = shown
    <3>1. RowsAre(Row)
      BY <1>0 DEF Base
    <3>. QED  BY <1>5, <3>1, WriteDoes
  <2>7. ASSUME NEW x \in doomed PROVE Removes(r, x)
    <3>1. x \in Row /\ row'[x] = Absent /\ Born(x[2]) /\ Deletes(r, x)
      BY <1>0, <2>1, <2>3, <2>6, <2>7 DEF Deletes
    <3>2. x[1] = "agent" /\ shown[x] # Absent => Deleted(r, User(shown[x].user))'
      <4>1. \A y \in doomed : row'[y] = Absent /\ holder'[y] = r
        BY <2>1, <2>3, <2>6
      <4>. QED  BY <2>1, <2>6, <2>7, <4>1 DEF Deleted
    <3>. QED  BY <3>1, <3>2 DEF Removes
  <2>8. ASSUME NEW x \in emptied PROVE Updates(x, new[x])
    <3>1. x \in Row /\ x[1] = "payer" /\ holder[x] \in {0, r} /\ There(r, x) /\ new[x] = Without(doomed, row[x])
      BY <1>5, <2>2, <2>3, <2>8 DEF Free
    <3>2. row[x] # Absent
      BY <1>0, <3>1, SeesNewest DEF There
    <3>3. row[x] \in PayerRow /\ RowType(x) = PayerRow
      BY <1>0, <3>1, <3>2, SavedRow, RowTypes
    <3>. PICK v : v = Without(doomed, row[x])
      OBVIOUS
    <3>4. /\ v \in PayerRow /\ v.by = row[x].by /\ v.ward = row[x].ward
          /\ v.to \in {row[x].to, None} /\ v.login \in {row[x].login, None}
      BY <3>3 DEF Without, PayerRow, IdOrNone
    <3>. QED  BY <3>1, <3>2, <3>3, <3>4 DEF Updates, Same, Alters
  <2>9. Wrote(r)
    <3>1. \A x \in Row \cap DOMAIN new : Updates(x, new[x]) \/ Adds(r, x, new[x]) \/ Removes(r, x)
      BY <2>3, <2>7, <2>8
    <3>. QED  BY <1>0, <1>5, <3>1, WriteWrote
  <2>10. Turns(r) /\ at'[r] = step /\ note'[r] = n
    BY <1>0, <1>5, <2>4, <2>5, NoteTurns
  <2>11. ASSUME step = "commit", NEW i \in Id, Takes(r, i)'
         PROVE  shown[Firm(i)] = Absent \/ Deleted(r, Firm(i))'
    <3>1. /\ Bill(i) \in Row /\ Bill(i)[1] = "bill" /\ User(i) \in Row /\ User(i)[1] = "user"
          /\ Firm(i) \in Row /\ Firm(i)[1] = "firm"
      BY RowNames
    <3>2. Bill(i) \notin DOMAIN new /\ User(i) \notin DOMAIN new /\ Firm(i) \notin emptied
      BY <2>1, <2>2, <2>3, <2>5, <2>11, <3>1
    <3>3. Takes(r, i)
      BY <2>6, <2>11, <3>1, <3>2 DEF Takes, Deleted
    <3>4. shown[Firm(i)] = Absent \/ Firm(i) \in doomed \/ Deleted(r, Firm(i))
      BY <2>1, <2>5, <2>11, <3>3
    <3>5. Firm(i) \in doomed => Deleted(r, Firm(i))'
      BY <2>3, <2>6, <3>1 DEF Deleted
    <3>6. Firm(i) \notin doomed /\ Deleted(r, Firm(i)) => Deleted(r, Firm(i))'
      BY <2>3, <2>6, <3>1, <3>2 DEF Deleted
    <3>. QED  BY <3>4, <3>5, <3>6
  <2>12. ResetOK(r)'
    BY <2>4, <2>5, <2>6, <2>10, <2>11 DEF ResetOK
  <2>. QED  BY <1>1, <2>9, <2>10, <2>12
<1>6. CASE /\ at[r] = "delete" /\ Free(r, doomed \cup emptied)
           /\ Write(r, [x \in doomed \cup emptied |-> IF x \in doomed THEN Absent ELSE Without(doomed, row[x])])
           /\ note' = [note EXCEPT ![r].stage = IF @ = 5 THEN 5 ELSE @ + 1, ![r].doomed = {}]
           /\ Go(r, step) /\ UNCHANGED job
  <2>1. note' = [note EXCEPT ![r] = n]
    BY <1>0, <1>6 DEF Base, Note
  <2>. QED  BY <1>5, <1>6, <2>1
<1>. QED  BY <1>2, <1>3, <1>4, <1>6 DEF Reset

-----------------------------------------------------------------------------
(* The commit. *)

\* What a commit does: request r shows what it holds, and nothing of it refers to a row
\* that is not there.
Lands(r) ==
  /\ at[r] = "commit" /\ at'[r] = "done" /\ at' \in [Request -> Steps] /\ \A q \in Request \ {r} : at'[q] = at[q]
  /\ job' = job /\ note' = note /\ row' = row /\ RowsAre(Row)' /\ holder' = [x \in Row |-> holder'[x]]
  /\ \A x \in Row : shown'[x] = IF holder[x] = r THEN row[x] ELSE shown[x]
  /\ \A x \in Row : holder'[x] = IF holder[x] = r THEN 0 ELSE holder[x]
  /\ ReferencesHold(r)

\* A request commits or fails.
LEMMA CommitLands ==
  ASSUME PeopleInv, NEW r \in Request, Commit(r)
  PROVE  Fine(r) \/ Lands(r)
<1>0. Base /\ RowsAre(Row) /\ at[r] = "commit"
  BY DEF PeopleInv, Base, Commit
<1>1. CASE Fail(r, "failed")
  BY <1>0, <1>1, FailIsFine
<1>2. CASE ReferencesHold(r) /\ Publish(r) /\ Move(r, "done")
  <2>1. at' = [at EXCEPT ![r] = "done"] /\ job' = job /\ note' = note
    BY <1>2 DEF Move, Go
  <2>2. "done" \in Steps
    BY DEF Steps, Ended
  <2>3. /\ RowsAre(Row)' /\ row' = row
        /\ \A x \in Row : shown'[x] = IF holder[x] = r THEN row[x] ELSE shown[x]
        /\ \A x \in Row : holder'[x] = IF holder[x] = r THEN 0 ELSE holder[x]
    BY <1>0, <1>2, PublishDoes
  <2>4. holder' = [x \in Row |-> holder'[x]]
    BY <1>0, <1>2, HoldersKept
  <2>. QED  BY <1>0, <1>2, <2>1, <2>2, <2>3, <2>4 DEF Lands, Base
<1>. QED  BY <1>1, <1>2 DEF Commit

\* A commit shows no version that was not there, and no new row but those of the request.
LEMMA NothingAppears ==
  ASSUME PeopleInv, NEW r \in Request, Lands(r), NEW x \in Row
  PROVE  /\ Versions(x)' \subseteq Versions(x)
         /\ holder[x] = r => Versions(x)' \subseteq {row[x]}
         /\ shown[x] = Absent /\ shown'[x] # Absent => x[2] = r
<1>1. shown'[x] = IF holder[x] = r THEN row[x] ELSE shown[x]
  BY DEF Lands
<1>2. row' = row
  BY DEF Lands
<1>3. shown[x] = Absent /\ row[x] # Absent => holder[x] = x[2]
  BY DEF PeopleInv, OnRows, RowOK
<1>. QED  BY <1>1, <1>2, <1>3 DEF Versions

\* A row that is of no request under way is never new, and keeps its fixed columns.
LEMMA RowsLast ==
  ASSUME PeopleInv, NEW r \in Request, Lands(r), NEW x \in Row, Born(x[2]), shown'[x] # Absent
  PROVE  shown[x] # Absent /\ Same(x, shown[x], shown'[x])
<1>1. shown[x] # Absent
  BY NothingAppears DEF Born, Lands
<1>2. shown'[x] \in Versions(x)
  BY NothingAppears DEF Versions
<1>. QED  BY <1>1, <1>2, SameAsShown DEF PeopleInv

\* What a commit takes.
LEMMA TakenAre ==
  ASSUME PeopleInv, NEW r \in Request, Lands(r), NEW x \in Row, shown[x] # Absent, shown'[x] = Absent
  PROVE  Deleted(r, x) /\ Deletes(r, x) /\ (x[1] = "agent" => Deleted(r, User(shown[x].user)))
<1>1. holder[x] = r /\ row[x] = Absent
  BY DEF Lands
<1>2. r # 0
  BY RequestIds
<1>. QED  BY <1>1, <1>2 DEF PeopleInv, OnRows, RowOK, Deleted

\* What held of committed logins still holds.
LEMMA MeaningLasts ==
  ASSUME PeopleInv, NEW r \in Request, Lands(r)
  PROVE  /\ \A i : Born(i) => Born(i)'
         /\ \A i \in Id : \A f : HasFirm(i, f) => HasFirm(i, f)'
         /\ \A i \in Id : \A roles : HasRole(i, roles) => HasRole(i, roles)'
         /\ \A u \in Id, i \in Id : SameFirm(u, i) => SameFirm(u, i)'
         /\ \A i \in Id : RatepayerIs(i) => RatepayerIs(i)'
         /\ \A q \in Request, u \in Id : EnrolledBy(q, u) => EnrolledBy(q, u)'
         /\ \A q, kinds : Is(q, kinds)' <=> Is(q, kinds)
         /\ \A q, x : Deletes(q, x)' <=> Deletes(q, x)
<1>1. \A i : Born(i) => Born(i)'
  BY DEF Born, Lands
<1>2. ASSUME NEW i \in Id, Born(i), shown'[User(i)] # Absent
      PROVE  shown[User(i)] # Absent /\ shown'[User(i)].role = shown[User(i)].role /\ shown'[User(i)].firm = shown[User(i)].firm
  <2>1. User(i) \in Row /\ User(i)[1] = "user" /\ User(i)[2] = i
    BY RowNames
  <2>2. shown[User(i)] # Absent /\ Same(User(i), shown[User(i)], shown'[User(i)])
    BY <1>2, <2>1, RowsLast
  <2>. QED  BY <2>1, <2>2 DEF Same
<1>3. \A i \in Id : \A f : HasFirm(i, f) => HasFirm(i, f)'
  BY <1>1, <1>2 DEF HasFirm
<1>4. \A i \in Id : \A roles : HasRole(i, roles) => HasRole(i, roles)'
  BY <1>1, <1>2 DEF HasRole
<1>5. \A u \in Id, i \in Id : SameFirm(u, i) => SameFirm(u, i)'
  BY <1>1, <1>2 DEF SameFirm
<1>6. \A q, kinds : Is(q, kinds)' <=> Is(q, kinds)
  BY DEF Is, Lands
<1>7. \A i \in Id : RatepayerIs(i) => RatepayerIs(i)'
  BY <1>4, <1>6 DEF RatepayerIs
<1>8. \A q, x : Deletes(q, x)' <=> Deletes(q, x)
  BY <1>6 DEF Deletes
<1>9. ASSUME NEW u \in Id, Born(u), NEW ward, InWard(u, ward) PROVE InWard(u, ward)'
  <2> SUFFICES ASSUME shown'[User(u)] # Absent
               PROVE  \E a \in Row : a[1] = "agent" /\ shown'[a] # Absent /\ shown'[a].user = u /\ shown'[a].ward = ward
    BY DEF InWard
  <2>1. shown[User(u)] # Absent
    BY <1>2, <1>9
  <2>2. PICK a \in Row : a[1] = "agent" /\ shown[a] # Absent /\ shown[a].user = u /\ shown[a].ward = ward
    BY <1>9, <2>1 DEF InWard
  <2>3. shown'[a] # Absent
    <3> SUFFICES ASSUME shown'[a] = Absent PROVE FALSE
      OBVIOUS
    <3>1. Deleted(r, User(u)) /\ User(u) \in Row
      BY <2>2, TakenAre, RowNames
    <3>. QED  BY <3>1 DEF Deleted, Lands
  <2>4. Born(a[2])
    BY <2>2, ShownIsBorn DEF PeopleInv
  <2>5. Same(a, shown[a], shown'[a])
    BY <2>3, <2>4, RowsLast
  <2>. QED  BY <2>2, <2>3, <2>5 DEF Same
<1>10. ASSUME NEW q \in Request, NEW u \in Id, EnrolledBy(q, u) PROVE EnrolledBy(q, u)'
  <2>1. job' = job
    BY DEF Lands
  <2>2. Is(q, {"ENROL"}) => IF job[q].firm = None THEN u = job[q].by /\ HasRole(u, PayerCreators)'
                            ELSE HasFirm(u, job[q].firm)'
    BY <1>3, <1>4, <1>10, <2>1 DEF EnrolledBy
  <2>3. Is(q, {"REPLAY"}) => u = job[q].by /\ HasRole(u, {"AGENT"})' /\ job[q].ward # 0 /\ InWard(u, job[q].ward)'
    <3> SUFFICES ASSUME Is(q, {"REPLAY"}) PROVE u = job[q].by /\ HasRole(u, {"AGENT"})' /\ job[q].ward # 0 /\ InWard(u, job[q].ward)'
      OBVIOUS
    <3>1. u = job[q].by /\ HasRole(u, {"AGENT"}) /\ job[q].ward # 0 /\ InWard(u, job[q].ward)
      BY <1>10 DEF EnrolledBy
    <3>2. Born(u)
      BY <3>1 DEF HasRole
    <3>. QED  BY <1>4, <1>9, <2>1, <3>1, <3>2
  <2>. QED  BY <1>6, <2>1, <2>2, <2>3 DEF EnrolledBy, PayerCreators
<1>. QED  BY <1>1, <1>3, <1>4, <1>5, <1>6, <1>7, <1>8, <1>10

\* A version of a row that a commit leaves is as the invariant has it.
LEMMA VersionLasts ==
  ASSUME PeopleInv, NEW r \in Request, Lands(r), NEW x \in Row, NEW y \in Versions(x)'
  PROVE  VersionOK(x, y)'
<1>0. VersionOK(x, y) /\ y \in RowType(x) /\ job' = job
  BY NothingAppears, VersionIs DEF PeopleInv, Lands
<1>1. x[1] = "firm" => FirmOK(x, y)'
  <2>1. SUFFICES ASSUME x[1] = "firm", x[2] \in Request, Is(x[2], {"ONBOARD"}), at'[x[2]] = "done" PROVE y.payer = x[2]
    BY <1>0, MeaningLasts DEF VersionOK, FirmOK
  <2>2. CASE x[2] # r
    BY <1>0, <2>1, <2>2 DEF VersionOK, FirmOK, Lands
  <2>3. CASE x[2] = r
    <3>1. x = Firm(r)
      BY <2>1, <2>3, RowNames DEF Firm
    <3>2. OnboardOK(r) /\ at[r] = "commit"
      BY <2>1, <2>3 DEF PeopleInv, Local, Lands
    <3>3. holder[x] = r /\ row[x].payer = r
      BY <3>1, <3>2 DEF OnboardOK, Has
    <3>. QED  BY <2>3, <3>3, NothingAppears
  <2>. QED  BY <2>2, <2>3
<1>2. x[1] = "user" => UserOK(x, y)'
  BY <1>0, MeaningLasts DEF VersionOK, UserOK, LoginOf, On
<1>3. x[1] = "agent" => AgentOK(x, y)'
  BY <1>0, MeaningLasts DEF VersionOK, AgentOK
<1>4. x[1] = "payer" => PayerOK(x, y)'
  <2> SUFFICES ASSUME x[1] = "payer" PROVE PayerOK(x, y)'
    OBVIOUS
  <2>1. y.by \in Id /\ y.to \in IdOrNone /\ y.login \in IdOrNone
    BY <1>0, RowColumns
  <2>2. y.to # None => SameFirm(y.to, y.by)'
    BY <1>0, <2>1, MeaningLasts DEF VersionOK, PayerOK, IdOrNone
  <2>3. y.login # None => RatepayerIs(y.login)'
    BY <1>0, <2>1, MeaningLasts DEF VersionOK, PayerOK, IdOrNone
  <2>4. x[2] \in Request /\ Is(x[2], {"ENROL", "REPLAY"})' => EnrolledBy(x[2], y.by)' /\ y.ward = job'[x[2]].ward
    BY <1>0, <2>1, MeaningLasts DEF VersionOK, PayerOK
  <2>. QED  BY <2>2, <2>3, <2>4 DEF PayerOK
<1>5. x[1] = "delegation" => DelegationOK(x, y)'
  <2>1. x[1] = "delegation" => y.proxy \in Id
    BY <1>0, RowColumns
  <2>. QED  BY <1>0, <2>1, MeaningLasts DEF VersionOK, DelegationOK
<1>. QED  BY <1>0, <1>1, <1>2, <1>3, <1>4, <1>5 DEF VersionOK

\* A row after a commit.
LEMMA RowLasts ==
  ASSUME PeopleInv, NEW r \in Request, Lands(r), NEW x \in Row
  PROVE  RowOK(x)'
<1>0. /\ job' = job /\ row' = row /\ r # 0
      /\ shown'[x] = IF holder[x] = r THEN row[x] ELSE shown[x]
      /\ holder'[x] = IF holder[x] = r THEN 0 ELSE holder[x]
      /\ at[r] # "done" /\ \A q \in Request \ {r} : at'[q] = at[q]
  BY RequestIds DEF Lands
<1>1. /\ x[2] \in Request /\ at[x[2]] # "done" => shown[x] = Absent /\ holder[x] \in {0, x[2]}
      /\ shown[x] = Absent /\ row[x] # Absent =>
           x[2] \in Request /\ holder[x] = x[2] /\ ~Is(x[2], {"DESTROY", "RESET"})
      /\ shown[x] # Absent /\ row[x] # Absent => Same(x, shown[x], row[x])
      /\ row[x] = Absent /\ holder[x] # 0 => Deletes(holder[x], x)
      /\ x[1] = "agent" /\ row[x] = Absent /\ shown[x] # Absent => Deleted(holder[x], User(shown[x].user))
  BY DEF PeopleInv, OnRows, RowOK
<1>2. \A y \in Versions(x)' : VersionOK(x, y)'
  BY VersionLasts
<1>3. x[2] \in Request /\ at'[x[2]] # "done" => shown'[x] = Absent /\ holder'[x] \in {0, x[2]}
  <2> SUFFICES ASSUME x[2] \in Request, at'[x[2]] # "done" PROVE shown'[x] = Absent /\ holder'[x] \in {0, x[2]}
    OBVIOUS
  <2>1. x[2] # r
    BY DEF Lands
  <2>. QED  BY <1>0, <1>1, <2>1
<1>4. shown'[x] = Absent /\ row'[x] # Absent =>
        x[2] \in Request /\ holder'[x] = x[2] /\ ~Is(x[2], {"DESTROY", "RESET"})'
  BY <1>0, <1>1, MeaningLasts
<1>5. shown'[x] # Absent /\ row'[x] # Absent => Same(x, shown'[x], row'[x])
  <2>1. Same(x, row[x], row[x])
    BY DEF Same
  <2>. QED  BY <1>0, <1>1, <2>1
<1>6. (row[x] = Absent /\ holder[x] # 0 => Deletes(holder[x], x))'
  BY <1>0, <1>1 DEF Deletes, Is
<1>7. (x[1] = "agent" /\ row[x] = Absent /\ shown[x] # Absent => Deleted(holder[x], User(shown[x].user)))'
  <2> SUFFICES ASSUME x[1] = "agent", row[x] = Absent, shown'[x] # Absent
               PROVE  holder'[User(shown'[x].user)] = holder'[x] /\ row'[User(shown'[x].user)] = Absent
    BY <1>0 DEF Deleted
  <2>1. holder[x] # r /\ shown'[x] = shown[x] /\ holder'[x] = holder[x] /\ Deleted(holder[x], User(shown[x].user))
    BY <1>0, <1>1
  <2>2. User(shown[x].user) \in Row
    <3>1. shown[x] \in Versions(x)
      BY <2>1 DEF Versions
    <3>2. shown[x].user \in Id
      BY <3>1, VersionIs, RowColumns DEF PeopleInv
    <3>. QED  BY <3>2, RowNames
  <2>. QED  BY <1>0, <2>1, <2>2 DEF Deleted, Lands
<1>. QED  BY <1>2, <1>3, <1>4, <1>5, <1>6, <1>7 DEF RowOK

\* The foreign keys hold after a commit: it checked those of what it wrote, and that nobody
\* refers to what it deleted.
LEMMA ParentsLast ==
  ASSUME PeopleInv, NEW r \in Request, Lands(r)
  PROVE  RecordsKeepTheirParents'
<1> SUFFICES ASSUME NEW x \in Row, NEW p \in RefersTo(x, shown'[x]), shown'[p] = Absent PROVE FALSE
  BY DEF RecordsKeepTheirParents, RefersTo, Protects, GoesWith, Emptied, Some
<1>0. shown'[x] # Absent
  BY DEF RefersTo
<1>1. p \in Row
  <2>1. shown'[x] \in Versions(x)
    BY <1>0, NothingAppears DEF Versions
  <2>. QED  BY <2>1, VersionIs, TypedRefers DEF PeopleInv
<1>2. /\ shown'[x] = Sees(r, x)
      /\ shown'[x] = (IF holder[x] = r THEN row[x] ELSE shown[x])
      /\ shown'[p] = (IF holder[p] = r THEN row[p] ELSE shown[p])
  BY <1>1 DEF Lands, Sees
<1>3. ReferencesHold(r) /\ DOMAIN row = Row
  BY DEF Lands, PeopleInv, Base, RowsAre
<1>4. CASE holder[p] = r
  <2>1. p \in HeldBy(r) /\ row[p] = Absent
    BY <1>1, <1>2, <1>3, <1>4 DEF HeldBy
  <2>2. x \in Orphans(r)
    BY <1>0, <1>2, <2>1 DEF Orphans, There
  <2>. QED  BY <1>3, <2>2 DEF ReferencesHold
<1>5. CASE holder[p] # r
  <2>1. shown[p] = Absent
    BY <1>2, <1>5
  <2>2. p \notin RefersTo(x, shown[x])
    BY <2>1 DEF PeopleInv, RecordsKeepTheirParents
  <2>3. holder[x] = r /\ p \in RefersTo(x, row[x])
    BY <1>2, <2>2
  <2>4. x \in HeldBy(r)
    BY <1>3, <2>3 DEF HeldBy
  <2>5. p \in Parents(r)
    BY <2>2, <2>3, <2>4 DEF Parents
  <2>6. There(r, p)
    BY <1>3, <2>5 DEF ReferencesHold
  <2>. QED  BY <1>5, <2>1, <2>6 DEF There, Sees
<1>. QED  BY <1>4, <1>5

\* What other requests have done and know stays so when one commits.
LEMMA LocalsLast ==
  ASSUME PeopleInv, NEW r \in Request, Lands(r), NEW q \in Request, q # r
  PROVE  Local(q)'
<1>0. /\ job' = job /\ row' = row /\ note' = note /\ at'[q] = at[q] /\ Local(q) /\ at[r] = "commit" /\ at'[r] = "done"
      /\ Base /\ OnRows /\ note[q] \in Note
  BY DEF Lands, PeopleInv, Base
<1>1. q # 0 /\ \A x \in Row : holder'[x] = q <=> holder[x] = q
  BY RequestIds DEF Lands
<1>2. HoldsNone(q) => HoldsNone(q)'
  BY <1>1 DEF HoldsNone
<1>3. \A x \in Row : (Has(q, x)' <=> Has(q, x)) /\ (Deleted(q, x)' <=> Deleted(q, x))
  BY <1>0, <1>1 DEF Has, Deleted
<1>4. \A q1, kinds : Is(q1, kinds)' <=> Is(q1, kinds)
  BY <1>0 DEF Is
<1>5. /\ q \in Id /\ Firm(q) \in Row /\ User(q) \in Row /\ Bill(q) \in Row
      /\ Firm(q)[2] = q /\ User(q)[2] = q /\ Bill(q)[2] = q
      /\ \A i \in Id : /\ Firm(i) \in Row /\ Firm(i)[2] = i /\ Firm(i)[1] = "firm"
                       /\ User(i) \in Row /\ User(i)[2] = i /\ User(i)[1] = "user"
                       /\ Bill(i) \in Row /\ Bill(i)[2] = i /\ Bill(i)[1] = "bill"
  BY RequestIds, RowNames
<1>6. On(q) \in Row /\ On(q)' = On(q)
  BY <1>0, AskedIs DEF On
<1>7. Is(q, {"ONBOARD"}) => OnboardOK(q)'
  <2>1. SUFFICES ASSUME Is(q, {"ONBOARD"}), OnboardOK(q) PROVE OnboardOK(q)'
    BY <1>0 DEF Local
  <2>2. \A x \in {Firm(q), User(q), Bill(q)} : Has(q, x)' <=> Has(q, x)
    BY <1>3, <1>5
  <2>3. /\ at'[q] = "insert" => Dated(job'[q])
        /\ at'[q] \in {"name", "login", "payer", "bill", "commit"} => Has(q, Firm(q))'
        /\ at'[q] \in {"payer", "bill", "commit"} /\ job'[q].login => Has(q, User(q))'
        /\ at'[q] \in {"bill", "commit"} => row'[Firm(q)].payer = q
        /\ at'[q] = "commit" => Has(q, Bill(q))'
    BY <1>0, <2>1, <2>2 DEF OnboardOK
  <2>4. ASSUME at[q] = "done", NEW x \in {Firm(q), User(q), Bill(q)}, shown[x] # Absent, shown'[x] = Absent
        PROVE  Is(r, {"RESET"}) /\ Deleted(r, x)
    <3>1. x \in Row /\ x[1] \notin {"payer", "delegation"}
      BY <1>5, <2>4
    <3>. QED  BY <2>4, <3>1, TakenAre DEF Deletes
  <2>5. ASSUME at[q] = "done", shown'[Firm(q)] # Absent, NEW x \in {User(q), Bill(q)}, shown[x] # Absent
        PROVE  shown'[x] # Absent
    <3> SUFFICES ASSUME shown'[x] = Absent PROVE FALSE
      OBVIOUS
    <3>1. Is(r, {"RESET"}) /\ Takes(r, q)
      BY <2>4, <2>5 DEF Takes
    <3>2. ResetOK(r)
      BY <3>1 DEF PeopleInv, Local
    <3>3. shown[Firm(q)] = Absent \/ Deleted(r, Firm(q))
      BY <1>0, <1>5, <3>1, <3>2 DEF ResetOK
    <3>4. shown[Firm(q)] # Absent
      BY <1>5, <2>5, RowsLast DEF Born
    <3>5. holder[Firm(q)] = r /\ row[Firm(q)] = Absent
      BY <3>3, <3>4 DEF Deleted
    <3>6. shown'[Firm(q)] = Absent
      BY <1>5, <3>5 DEF Lands
    <3>. QED  BY <2>5, <3>6
  <2>6. ASSUME at[q] = "done", shown'[Firm(q)] # Absent
        PROVE  shown'[Bill(q)] # Absent /\ (job[q].login => shown'[User(q)] # Absent)
    <3>1. shown[Firm(q)] # Absent
      BY <1>5, <2>6, RowsLast DEF Born
    <3>2. shown[Bill(q)] # Absent /\ (job[q].login => shown[User(q)] # Absent)
      BY <2>1, <2>6, <3>1 DEF OnboardOK
    <3>. QED  BY <2>5, <2>6, <3>2
  <2>7. ASSUME at[q] = "done", ~Wiped' PROVE shown'[Firm(q)] # Absent
    <3>1. ~Wiped /\ ~Is(r, {"RESET"})
      <4>1. \A q1 \in Request : at[q1] = "done" => at'[q1] = "done"
        BY DEF Lands
      <4>. QED  BY <1>0, <1>4, <2>7, <4>1 DEF Wiped
    <3>2. shown[Firm(q)] # Absent
      BY <2>1, <2>7, <3>1 DEF OnboardOK
    <3>. QED  BY <2>4, <2>7, <3>1, <3>2
  <2>. QED  BY <1>0, <2>3, <2>6, <2>7 DEF OnboardOK
<1>8. Is(q, {"ASSIGN"}) => AssignOK(q)'
  <2>1. SUFFICES ASSUME job[q].kind = "ASSIGN", at[q] = "save"
                 PROVE  Born(On(q)[2])' /\ note[q].by # None /\ \A y \in Versions(On(q))' : SameFirm(note[q].by, y.by)'
    BY <1>0, <1>6 DEF AssignOK, Is
  <2>2. Born(On(q)[2]) /\ note[q].by # None /\ (\A y \in Versions(On(q)) : SameFirm(note[q].by, y.by))
    BY <1>0, <2>1 DEF Local, AssignOK, Is
  <2>3. note[q].by \in Id
    BY <1>0, <2>2 DEF Note, IdOrNone
  <2>4. ASSUME NEW y \in Versions(On(q))' PROVE SameFirm(note[q].by, y.by)'
    <3>1. y \in Versions(On(q))
      BY <1>6, <2>4, NothingAppears
    <3>2. On(q)[1] = "payer" /\ y \in RowType(On(q))
      BY <1>0, <1>6, <2>1, <3>1, AskedIs, VersionIs DEF Target
    <3>3. y.by \in Id
      BY <1>6, <3>2, RowColumns
    <3>. QED  BY <1>0, <2>2, <2>3, <3>1, <3>3, MeaningLasts
  <2>5. Born(On(q)[2])'
    BY <1>6, <2>2, MeaningLasts
  <2>. QED  BY <2>2, <2>4, <2>5
<1>9. Is(q, {"ENROL", "REPLAY"}) => EnrolOK(q)'
  <2>1. SUFFICES ASSUME at[q] = "insert", note[q].by # None, EnrolledBy(q, note[q].by) PROVE EnrolledBy(q, note[q].by)'
    BY <1>0 DEF Local, EnrolOK
  <2>2. note[q].by \in Id
    BY <1>0, <2>1 DEF Note, IdOrNone
  <2>. QED  BY <1>0, <2>1, <2>2, MeaningLasts
<1>10. Is(q, {"DELEGATE"}) => DelegateOK(q)'
  <2>1. SUFFICES ASSUME at[q] = "insert", HoldsNone(q), HasRole(job[q].proxy, {"RATEPAYER_PROXY"})
                 PROVE  HoldsNone(q)' /\ HasRole(job[q].proxy, {"RATEPAYER_PROXY"})'
    BY <1>0 DEF Local, DelegateOK
  <2>2. job[q].proxy \in Id
    BY <1>0, AskedIs
  <2>. QED  BY <1>0, <1>2, <2>1, <2>2, MeaningLasts
<1>11. Is(q, {"DESTROY"}) => DestroyOK(q)'
  BY <1>0, <1>2, <1>6, MeaningLasts DEF Local, DestroyOK
<1>12. Is(q, {"REVOKE"}) => RevokeOK(q)'
  BY <1>0, <1>3, <1>6, MeaningLasts DEF Local, RevokeOK
<1>13. Is(q, {"RESET"}) => ResetOK(q)'
  <2>1. SUFFICES ASSUME ResetOK(q) PROVE ResetOK(q)'
    BY <1>0 DEF Local
  <2>2. \A i \in Id : (Takes(q, i)' <=> Takes(q, i)) /\ (Deleted(q, Firm(i))' <=> Deleted(q, Firm(i)))
    BY <1>3, <1>5 DEF Takes
  <2>3. ASSUME NEW i \in Id, Takes(q, i), shown[Firm(i)] = Absent PROVE shown'[Firm(i)] = Absent
    <3> SUFFICES ASSUME shown'[Firm(i)] # Absent PROVE FALSE
      OBVIOUS
    <3>1. i = r
      BY <1>5, <2>3, NothingAppears
    <3>2. PICK x \in {Bill(r), User(r)} : holder[x] = q
      BY <2>3, <3>1 DEF Takes, Deleted
    <3>3. x \in Row /\ x[2] = r
      BY <1>5, <3>1, <3>2
    <3>4. holder[x] \in {0, r}
      BY <1>0, <3>3 DEF OnRows, RowOK
    <3>. QED  BY <1>1, <3>2, <3>4
  <2>4. ASSUME at[q] = "delete", NEW x \in note[q].doomed, x[1] = "agent", shown'[x] # Absent
        PROVE  User(shown'[x].user) \in note[q].doomed
    <3>1. x \in Row /\ Born(x[2])
      BY <1>0, <2>1, <2>4 DEF ResetOK, Note
    <3>2. shown[x] # Absent /\ Same(x, shown[x], shown'[x])
      BY <2>4, <3>1, RowsLast
    <3>. QED  BY <2>1, <2>4, <3>2 DEF ResetOK, Same
  <2>5. \A i : Born(i) => Born(i)'
    BY MeaningLasts
  <2>6. (at[q] \in {"select", "delete"} => note[q].stage \in 1..5)'
    BY <1>0, <2>1 DEF ResetOK
  <2>7. (at[q] = "delete" =>
           /\ \A x \in note[q].doomed : Born(x[2])
           /\ \A x \in note[q].doomed : x[1] = "agent" /\ shown[x] # Absent => User(shown[x].user) \in note[q].doomed)'
    BY <1>0, <2>1, <2>4, <2>5 DEF ResetOK
  <2>8. (at[q] = "delete" /\ note[q].stage = 5 =>
           /\ \A x \in note[q].doomed : x[1] \notin {"user", "bill"}
           /\ \A i \in Id : Takes(q, i) => shown[Firm(i)] = Absent \/ Firm(i) \in note[q].doomed \/ Deleted(q, Firm(i)))'
    BY <1>0, <2>1, <2>2, <2>3 DEF ResetOK
  <2>9. (at[q] = "commit" => \A i \in Id : Takes(q, i) => shown[Firm(i)] = Absent \/ Deleted(q, Firm(i)))'
    BY <1>0, <2>1, <2>2, <2>3 DEF ResetOK
  <2>. QED  BY <2>6, <2>7, <2>8, <2>9 DEF ResetOK
<1>14. Is(q, {"DATES"}) /\ at'[q] = "save" => Dated(note'[q])
  BY <1>0 DEF Local
<1>15. at'[q] \in {"load", "done"} => HoldsNone(q)'
  BY <1>0, <1>2 DEF Local
<1>. QED  BY <1>4, <1>7, <1>8, <1>9, <1>10, <1>11, <1>12, <1>13, <1>14, <1>15 DEF Local

\* The request that commits is done: what it onboarded is all there.
LEMMA LocalLands ==
  ASSUME PeopleInv, NEW r \in Request, Lands(r)
  PROVE  Local(r)'
<1>0. at'[r] = "done" /\ at[r] = "commit" /\ job' = job /\ r # 0
  BY RequestIds DEF Lands
<1>1. HoldsNone(r)'
  BY <1>0 DEF HoldsNone, Lands
<1>2. Is(r, {"ONBOARD"})' => OnboardOK(r)'
  <2> SUFFICES ASSUME Is(r, {"ONBOARD"}) PROVE OnboardOK(r)'
    BY <1>0 DEF Is
  <2>1. OnboardOK(r)
    BY DEF PeopleInv, Local
  <2>2. Has(r, Firm(r)) /\ Has(r, Bill(r)) /\ (job[r].login => Has(r, User(r)))
    BY <1>0, <2>1 DEF OnboardOK
  <2>3. \A x \in Row : Has(r, x) => shown'[x] # Absent
    BY DEF Has, Lands
  <2>4. Firm(r) \in Row /\ Bill(r) \in Row /\ User(r) \in Row
    BY RequestIds, RowNames
  <2>. QED  BY <1>0, <2>2, <2>3, <2>4 DEF OnboardOK
<1>. QED  BY <1>0, <1>1, <1>2
     DEF Local, AssignOK, EnrolOK, DelegateOK, DestroyOK, RevokeOK, ResetOK

\* A commit keeps the invariant.
LEMMA LandsKeeps ==
  ASSUME PeopleInv, NEW r \in Request, Lands(r)
  PROVE  PeopleInv'
<1>1. Base'
  <2>1. Base /\ job' = job /\ at' \in [Request -> Steps] /\ note' = note /\ row' = row /\ RowsAre(Row)' /\ holder' = [x \in Row |-> holder'[x]]
    BY DEF PeopleInv, Lands
  <2>2. ASSUME NEW x \in Row PROVE (holder'[x] = 0 => row'[x] = shown'[x]) /\ holder'[x] \in 0..N
    <3>1. /\ holder[x] \in 0..N /\ (holder[x] = 0 => row[x] = shown[x])
          /\ shown'[x] = (IF holder[x] = r THEN row[x] ELSE shown[x])
          /\ holder'[x] = (IF holder[x] = r THEN 0 ELSE holder[x])
      BY <2>1 DEF Base, LocksHold, Lands
    <3>2. 0 \in 0..N
      BY RequestIds
    <3>. QED  BY <2>1, <3>1, <3>2
  <2>3. holder' \in [Row -> 0..N]
    BY <2>1, <2>2
  <2>. QED  BY <2>1, <2>2, <2>3 DEF Base, LocksHold
<1>2. \A x \in Row : RowOK(x)'
  BY RowLasts
<1>3. ASSUME NEW x \in Row, NEW z \in Row \ {x} PROVE Apart(x, z)'
  <2>1. Versions(x)' \subseteq Versions(x) /\ Versions(z)' \subseteq Versions(z) /\ Apart(x, z)
    BY NothingAppears DEF PeopleInv, OnRows
  <2>. QED  BY <2>1 DEF Apart
<1>4. \A q \in Request : Local(q)'
  BY LocalsLast, LocalLands
<1>. QED  BY <1>1, <1>2, <1>3, <1>4, ParentsLast DEF PeopleInv, OnRows

-----------------------------------------------------------------------------
(* The invariant. *)

\* The rows there are at first, before any request has done anything.
LEMMA FirstRows ==
  ASSUME NEW w \in Workloads, row = [x \in Row |-> IF x \in DOMAIN w[1] THEN w[1][x] ELSE Absent], shown = row
  PROVE  /\ \A x \in Row : shown[x] # Absent => x \in DOMAIN w[1] /\ shown[x] = w[1][x] /\ shown[x] \in RowType(x) /\ Born(x[2]) /\ x[2] \notin Request
         /\ \A x \in Row : \A p \in RefersTo(x, shown[x]) : p \in Row /\ shown[p] # Absent
<1>1. /\ DOMAIN w[1] \subseteq Row
      /\ \A x \in DOMAIN w[1] : x[2] \notin 1..N /\ w[1][x] \in RowType(x)
  BY PeopleConstants
<1>2. \A x \in Row : shown[x] # Absent => x \in DOMAIN w[1] /\ shown[x] = w[1][x]
  OBVIOUS
<1>3. ASSUME NEW x \in Row, NEW p \in RefersTo(x, shown[x]) PROVE p \in Row /\ shown[p] # Absent
  <2>1. shown[x] # Absent
    BY <1>3 DEF RefersTo
  <2>2. x \in DOMAIN w[1] /\ shown[x] = w[1][x]
    BY <1>2, <2>1
  <2>3. RefersTo(x, w[1][x]) \subseteq {y \in DOMAIN w[1] : w[1][y] # Absent}
    BY <2>2, FirstRowsRefer
  <2>4. p \in DOMAIN w[1] /\ w[1][p] # Absent
    BY <1>3, <2>2, <2>3
  <2>. QED  BY <1>1, <2>4
<1>. QED  BY <1>1, <1>2, <1>3 DEF Born, Request

\* The versions of rows at first.
LEMMA FirstVersions ==
  ASSUME NEW w \in Workloads, row = [x \in Row |-> IF x \in DOMAIN w[1] THEN w[1][x] ELSE Absent], shown = row,
         NEW x \in Row, shown[x] # Absent
  PROVE  VersionOK(x, shown[x])
<1> DEFINE y == shown[x]
<1>1. /\ x \in DOMAIN w[1] /\ y = w[1][x] /\ y \in RowType(x) /\ x[2] \notin Request
      /\ \A p \in RefersTo(x, y) : p \in Row /\ shown[p] # Absent
      /\ \A z \in Row : shown[z] # Absent => shown[z] = w[1][z] /\ z[2] \notin Request /\ Born(z[2])
  BY FirstRows
<1> HIDE DEF y
<1>2. ASSUME NEW i \in Id, User(i) \in RefersTo(x, y)
      PROVE  shown[User(i)] # Absent /\ shown[User(i)] = w[1][User(i)] /\ i \notin Request /\ Born(i)
  <2>1. User(i) \in Row /\ User(i)[2] = i
    BY RowNames
  <2>. QED  BY <1>1, <1>2, <2>1
<1>3. y # Absent
  BY DEF y
<1>4. x[1] = "firm" => FirmOK(x, y)
  <2>1. x[1] = "firm" => Dated(w[1][x])
    BY <1>1, FirstRowsFit
  <2>. QED  BY <1>1, <2>1 DEF FirmOK
<1>5. x[1] = "user" => UserOK(x, y)
  BY <1>1 DEF UserOK
<1>6. x[1] = "agent" => AgentOK(x, y)
  <2>1. x[1] = "agent" => y.user \in Id /\ User(y.user) \in RefersTo(x, y)
    BY <1>1, <1>3, RowColumns, Keys
  <2>. QED  BY <1>1, <1>2, <2>1 DEF AgentOK
<1>7. x[1] = "payer" => PayerOK(x, y)
  <2> SUFFICES ASSUME x[1] = "payer" PROVE PayerOK(x, y)
    OBVIOUS
  <2>1. y.by \in Id /\ y.to \in IdOrNone /\ y.login \in IdOrNone
    BY <1>1, RowColumns
  <2>2. RefersTo(x, y) = {User(y.by)} \cup (IF y.to = None THEN {} ELSE {User(y.to)})
                                      \cup (IF y.login = None THEN {} ELSE {User(y.login)})
    BY <1>3, Keys
  <2>3. /\ y.login # None => w[1][User(y.login)].role = "RATEPAYER"
        /\ y.to # None /\ w[1][User(y.to)].firm # None => w[1][User(y.by)].firm = w[1][User(y.to)].firm
    BY <1>1, FirstRowsFit
  <2>4. y.to # None => SameFirm(y.to, y.by)
    BY <1>2, <2>1, <2>2, <2>3 DEF SameFirm, IdOrNone
  <2>5. y.login # None => RatepayerIs(y.login)
    <3> SUFFICES ASSUME y.login # None PROVE RatepayerIs(y.login)
      OBVIOUS
    <3>1. y.login \in Id /\ User(y.login) \in RefersTo(x, y)
      BY <2>1, <2>2 DEF IdOrNone
    <3>. QED  BY <1>2, <2>3, <3>1 DEF RatepayerIs, HasRole
  <2>. QED  BY <1>1, <2>4, <2>5 DEF PayerOK
<1>8. x[1] = "delegation" => DelegationOK(x, y)
  <2> SUFFICES ASSUME x[1] = "delegation" PROVE DelegationOK(x, y)
    OBVIOUS
  <2>1. y.proxy \in Id /\ User(y.proxy) \in RefersTo(x, y)
    <3>1. y.proxy \in Id
      BY <1>1, RowColumns
    <3>2. RefersTo(x, y) = {Payer(y.payer), User(y.proxy)}
      BY <1>3, Keys
    <3>. QED  BY <3>1, <3>2
  <2>2. w[1][User(y.proxy)].role = "RATEPAYER_PROXY"
    BY <1>1, FirstRowsFit
  <2>. QED  BY <1>2, <2>1, <2>2 DEF DelegationOK, HasRole
<1>9. VersionOK(x, y)
  BY <1>1, <1>4, <1>5, <1>6, <1>7, <1>8 DEF VersionOK
<1>. QED  BY <1>9 DEF y

\* The invariant holds at first.
LEMMA InitHolds == Init => PeopleInv
<1> SUFFICES ASSUME Init PROVE PeopleInv
  OBVIOUS
<1>1. PICK w \in Workloads : row = [x \in Row |-> IF x \in DOMAIN w[1] THEN w[1][x] ELSE Absent] /\ job = w[2]
  BY DEF Init
<1>2. /\ shown = row /\ holder = [x \in Row |-> 0] /\ at = [r \in Request |-> "load"]
      /\ note = [r \in Request |-> [suffix |-> 0, code |-> 0, tries |-> 0, start |-> 0, end |-> 0, by |-> None,
                                    stage |-> 0, doomed |-> {}]]
  BY DEF Init
<1>3. /\ \A x \in Row : shown[x] # Absent => x \in DOMAIN w[1] /\ shown[x] = w[1][x] /\ shown[x] \in RowType(x) /\ x[2] \notin Request
      /\ \A x \in Row : \A p \in RefersTo(x, shown[x]) : p \in Row /\ shown[p] # Absent
  BY <1>1, <1>2, FirstRows
<1>4. Base
  <2>1. [suffix |-> 0, code |-> 0, tries |-> 0, start |-> 0, end |-> 0, by |-> None, stage |-> 0, doomed |-> {}] \in Note
    BY DEF Note, IdOrNone
  <2>2. "load" \in Steps /\ 0 \in 0..N
    BY RequestIds DEF Steps
  <2>3. job \in {v[2] : v \in Workloads} /\ at \in [Request -> Steps] /\ note \in [Request -> Note]
    BY <1>1, <1>2, <2>1, <2>2
  <2>4. RowsAre(Row) /\ LocksHold(Row) /\ holder \in [Row -> 0..N]
    BY <1>1, <1>2, <2>2 DEF RowsAre, LocksHold
  <2>. QED  BY <2>3, <2>4 DEF Base
<1>5. ASSUME NEW x \in Row PROVE RowOK(x)
  <2>1. holder[x] = 0 /\ row[x] = shown[x]
    BY <1>2
  <2>2. \A y \in Versions(x) : VersionOK(x, y)
    <3>1. shown[x] # Absent => VersionOK(x, shown[x])
      BY <1>1, <1>2, FirstVersions
    <3>. QED  BY <2>1, <3>1 DEF Versions
  <2>3. Same(x, shown[x], shown[x])
    BY DEF Same
  <2>. QED  BY <1>3, <2>1, <2>2, <2>3 DEF RowOK
<1>6. ASSUME NEW x \in Row, NEW z \in Row \ {x} PROVE Apart(x, z)
  <2> SUFFICES ASSUME NEW y \in Versions(x), NEW v \in Versions(z)
               PROVE  /\ x[1] = "agent" /\ z[1] = "agent" => y.user # v.user
                      /\ x[1] = "delegation" /\ z[1] = "delegation" => ~SameDelegation(y, v)
    BY DEF Apart
  <2>1. x \in DOMAIN w[1] /\ z \in DOMAIN w[1] /\ y = w[1][x] /\ v = w[1][z] /\ x # z
    BY <1>2, <1>3 DEF Versions
  <2>2. x[1] = "agent" /\ z[1] = "agent" => w[1][x].user # w[1][z].user
    BY <2>1, FirstRowsFit
  <2>3. x[1] = "delegation" /\ z[1] = "delegation" => ~SameDelegation(w[1][x], w[1][z])
    BY <2>1, FirstRowsFit
  <2>. QED  BY <2>1, <2>2, <2>3
<1>7. ASSUME NEW r \in Request PROVE Local(r)
  <2>1. at[r] = "load" /\ HoldsNone(r)
    <3>1. r # 0
      BY RequestIds
    <3>. QED  BY <1>2, <3>1 DEF HoldsNone
  <2>. QED  BY <2>1 DEF Local, OnboardOK, AssignOK, EnrolOK, DelegateOK, DestroyOK, RevokeOK, ResetOK
<1>8. RecordsKeepTheirParents
  BY <1>3 DEF RecordsKeepTheirParents
<1>. QED  BY <1>4, <1>5, <1>6, <1>7, <1>8 DEF PeopleInv, OnRows

\* Every step of a request before its commit, or that commit.
LEMMA WorkIs ==
  ASSUME PeopleInv, NEW r \in Request, Work(r)
  PROVE  Fine(r) \/ (Commit(r) /\ Lands(r))
<1>1. CASE DeriveName(r) \/ OnboardOfficer(r) \/ OnboardStakeholder(r) \/ Deactivate(r)
  BY <1>1, DeriveNameIsFine, OnboardOfficerIsFine, OnboardStakeholderIsFine, DeactivateIsFine
<1>2. CASE OnboardFirm(r) \/ ChangeStatus(r) \/ ChangeDates(r)
  BY <1>2, OnboardFirmIsFine, ChangeStatusIsFine, ChangeDatesIsFine
<1>3. CASE OnboardAgent(r) \/ ChangeAgentStatus(r) \/ AssignItem(r) \/ NarrowAgent(r) \/ EndGrant(r) \/ EndNarrowing(r)
  BY <1>3, OnboardAgentIsFine, ChangeAgentStatusIsFine, AssignItemIsFine, NarrowAgentIsFine, EndGrantIsFine,
     EndNarrowingIsFine
<1>4. CASE Enrol(r) \/ Replay(r) \/ ReviewKyc(r) \/ Destroy(r) \/ AssignPayer(r) \/ Invite(r)
  BY <1>4, EnrolIsFine, ReplayIsFine, ReviewKycIsFine, DestroyIsFine, AssignPayerIsFine, InviteIsFine
<1>5. CASE Delegate(r) \/ Revoke(r) \/ IssueBill(r) \/ PostPayment(r) \/ ReversePayment(r) \/ Reset(r)
  BY <1>5, DelegateIsFine, RevokeIsFine, IssueBillIsFine, PostPaymentIsFine, ReversePaymentIsFine, ResetIsFine
<1>6. CASE Commit(r)
  BY <1>6, CommitLands
<1>. QED  BY <1>1, <1>2, <1>3, <1>4, <1>5, <1>6 DEF Work

\* A step in which nothing changes.
LEMMA StutterKeeps == ASSUME PeopleInv, UNCHANGED vars PROVE PeopleInv'
<1>1. job' = job /\ at' = at /\ note' = note /\ row' = row /\ shown' = shown /\ holder' = holder
  BY DEF vars
<1>2. Base'
  BY <1>1 DEF PeopleInv, Base, RowsAre, LocksHold
<1>. QED
  BY <1>1, <1>2 DEF PeopleInv, OnRows, RowOK, Apart, Versions, VersionOK, FirmOK, UserOK, AgentOK, PayerOK, DelegationOK,
     LoginOf, RatepayerIs, SameFirm, EnrolledBy, InWard, HasRole, HasFirm, Born, Is, On, Deletes, Deleted, Has, HoldsNone,
     Local, OnboardOK, AssignOK, EnrolOK, DelegateOK, DestroyOK, RevokeOK, ResetOK, Takes, Wiped, RecordsKeepTheirParents

\* Every step keeps the invariant.
LEMMA NextKeeps == ASSUME PeopleInv, [Next]_vars PROVE PeopleInv'
<1>1. ASSUME NEW r \in Request, Work(r) PROVE PeopleInv'
  BY <1>1, WorkIs, FineKeeps, LandsKeeps
<1>2. CASE AllEnded
  BY <1>2, StutterKeeps DEF AllEnded
<1>3. CASE UNCHANGED vars
  BY <1>3, StutterKeeps
<1>. QED  BY <1>1, <1>2, <1>3 DEF Next

\* The invariant holds throughout.
THEOREM PeopleInvariance == Spec => []PeopleInv
<1>1. PeopleInv /\ [Next]_vars => PeopleInv'
  BY NextKeeps
<1>. QED  BY InitHolds, <1>1, PTL DEF Spec

-----------------------------------------------------------------------------
(* What follows. *)

\* Rows, jobs, steps and notes have their types.
LEMMA TypesFollow == PeopleInv => TypeOK
<1> SUFFICES ASSUME PeopleInv PROVE TypeOK
  OBVIOUS
<1>1. Base /\ OnRows
  BY DEF PeopleInv
<1>2. ASSUME NEW x \in Row
      PROVE  (row[x] = Absent \/ row[x] \in RowType(x)) /\ (shown[x] = Absent \/ shown[x] \in RowType(x))
  BY <1>1, VersionIs DEF Versions
<1>3. holder \in [Row -> 0..N]
  <2>1. \A x \in Row : holder[x] \in 0..N
    BY <1>1 DEF Base
  <2>2. DOMAIN holder = Row
    BY <1>1 DEF Base, RowsAre
  <2>. QED  BY <1>1, <2>1, <2>2 DEF Base
<1>. QED  BY <1>1, <1>2, <1>3 DEF TypeOK, Base

\* A firm is there with its payer, its bill and its login, or none of them is.
LEMMA FirmsFollow == PeopleInv => FirmsAreWhole
<1> SUFFICES ASSUME PeopleInv PROVE FirmsAreWhole
  OBVIOUS
<1>0. Base /\ OnRows /\ RecordsKeepTheirParents
  BY DEF PeopleInv
<1>1. ASSUME NEW f \in Present("firm") PROVE Dated(shown[f])
  <2>1. f \in Row /\ f[1] = "firm" /\ shown[f] # Absent /\ shown[f] \in Versions(f)
    BY DEF Present, Row, Table, Versions
  <2>. QED  BY <1>0, <2>1, VersionIs DEF VersionOK, FirmOK
<1>2. ASSUME NEW r \in Request, job[r].kind = "ONBOARD"
      PROVE  /\ shown[Firm(r)] # Absent =>
                  /\ shown[Firm(r)].payer = r
                  /\ \A x \in {Payer(r), Bill(r)} \cup (IF job[r].login THEN {User(r)} ELSE {}) : shown[x] # Absent
             /\ shown[Firm(r)] = Absent /\ ~Wiped => \A x \in {Payer(r), Bill(r), User(r)} : shown[x] = Absent
  <2>1. /\ r \in Id /\ r # None
        /\ Firm(r) \in Row /\ Firm(r)[1] = "firm" /\ Firm(r)[2] = r
        /\ User(r) \in Row /\ User(r)[2] = r /\ Payer(r) \in Row /\ Payer(r)[2] = r /\ Bill(r) \in Row /\ Bill(r)[2] = r
    BY RequestIds, RowNames DEF None
  <2>2. OnboardOK(r)
    BY <1>2 DEF PeopleInv, Local, Is
  <2>3. ASSUME shown[Firm(r)] # Absent
        PROVE  /\ shown[Firm(r)].payer = r
               /\ \A x \in {Payer(r), Bill(r)} \cup (IF job[r].login THEN {User(r)} ELSE {}) : shown[x] # Absent
    <3>1. at[r] = "done"
      BY <1>0, <2>1, <2>3, ShownIsBorn DEF Born
    <3>2. shown[Firm(r)].payer = r
      <4>1. VersionOK(Firm(r), shown[Firm(r)])
        BY <1>0, <2>1, <2>3, VersionIs DEF Versions
      <4>. QED  BY <1>2, <2>1, <3>1, <4>1 DEF VersionOK, FirmOK, Is
    <3>3. shown[Payer(r)] # Absent
      <4>1. Payer(r) \in RefersTo(Firm(r), shown[Firm(r)])
        BY <2>1, <2>3, <3>2, Keys
      <4>. QED  BY <1>0, <2>1, <4>1 DEF RecordsKeepTheirParents
    <3>. QED  BY <2>2, <2>3, <3>1, <3>2, <3>3 DEF OnboardOK
  <2>4. ASSUME shown[Firm(r)] = Absent, ~Wiped PROVE \A x \in {Payer(r), Bill(r), User(r)} : shown[x] = Absent
    <3>1. at[r] # "done"
      BY <2>2, <2>4 DEF OnboardOK
    <3>. QED  BY <1>0, <2>1, <3>1 DEF OnRows, RowOK
  <2>. QED  BY <2>3, <2>4
<1>3. ASSUME NEW r \in Request, job[r].kind = "ONBOARD"
      PROVE  LET there == shown[Firm(r)] # Absent
                 with == {Payer(r), Bill(r)} \cup (IF job[r].login THEN {User(r)} ELSE {})
                 wiped == \E q \in Request : Is(q, {"RESET"}) /\ at[q] = "done"
             IN /\ there => shown[Firm(r)].payer = r /\ \A x \in with : shown[x] # Absent
                /\ ~there /\ ~wiped => \A x \in {Payer(r), Bill(r), User(r)} : shown[x] = Absent
  BY <1>2, <1>3 DEF Wiped
<1>. QED  BY <1>1, <1>3 DEF FirmsAreWhole

\* An agent is the only one of its login, and has the ward of that login.
LEMMA WardIs ==
  ASSUME PeopleInv, NEW a \in Row, a[1] = "agent", shown[a] # Absent
  PROVE  WardOf(shown[a].user) = shown[a].ward
<1> DEFINE agents == {b \in Present("agent") : shown[b].user = shown[a].user}
<1>1. a \in agents
  BY RowNames DEF Present
<1>2. ASSUME NEW b \in agents PROVE b = a
  <2>1. b \in Row /\ b[1] = "agent" /\ shown[b] # Absent /\ shown[b].user = shown[a].user
    BY DEF Present, Row, Table
  <2>2. b # a => Apart(b, a)
    BY <2>1 DEF PeopleInv, OnRows
  <2>3. shown[b] \in Versions(b) /\ shown[a] \in Versions(a)
    BY <2>1 DEF Versions
  <2>. QED  BY <2>1, <2>2, <2>3 DEF Apart
<1>3. agents # {} /\ (CHOOSE b \in agents : TRUE) = a
  BY <1>1, <1>2
<1>. QED  BY <1>3 DEF WardOf

\* What a committed payer is.
LEMMA PayerIs ==
  ASSUME PeopleInv, NEW p \in Present("payer")
  PROVE  /\ p \in Row /\ p[1] = "payer" /\ shown[p] # Absent /\ p = Payer(p[2])
         /\ PayerOK(p, shown[p]) /\ shown[p].by \in Id /\ shown[User(shown[p].by)] # Absent /\ Born(p[2])
         /\ Keeper(p) = IF shown[p].to = None THEN shown[p].by ELSE shown[p].to
<1>1. p \in Row /\ p[1] = "payer" /\ shown[p] # Absent /\ shown[p] \in Versions(p)
  BY DEF Present, Row, Table, Versions
<1>2. OnRows /\ RecordsKeepTheirParents
  BY DEF PeopleInv
<1>3. PayerOK(p, shown[p]) /\ Born(p[2])
  BY <1>1, <1>2, VersionIs, ShownIsBorn DEF VersionOK
<1>4. shown[p].by \in Id /\ shown[User(shown[p].by)] # Absent
  BY <1>1, <1>2, LoginsOf
<1>5. p = Payer(p[2])
  BY <1>1, RowNames DEF Payer
<1>. QED  BY <1>1, <1>3, <1>4, <1>5 DEF Keeper

\* Which payers are in a portfolio, by the level of its viewer.
LEMMA PortfolioIs ==
  ASSUME NEW v, NEW p
  PROVE  /\ v.level = "AGENT" => (InPortfolio(v, p) <=> Keeper(p) = v.user)
         /\ v.level = "AGENT_SUPERVISOR" => (InPortfolio(v, p) <=> v.ward # 0 /\ WardOf(Keeper(p)) = v.ward)
         /\ v.level \in FirmScoped => (InPortfolio(v, p) <=> shown[User(shown[p].by)].firm = v.firm)
         /\ v.level \notin {"AGENT", "AGENT_SUPERVISOR"} \cup FirmScoped => InPortfolio(v, p)
<1> DEFINE agent == Keeper(p) = v.user
           ward == v.ward # 0 /\ WardOf(Keeper(p)) = v.ward
           firm == shown[User(shown[p].by)].firm = v.firm
<1>1. InPortfolio(v, p) = CASE v.level = "AGENT" -> agent
                            [] v.level = "AGENT_SUPERVISOR" -> ward
                            [] v.level \in FirmScoped -> firm
                            [] OTHER -> TRUE
  BY DEF InPortfolio
<1> HIDE DEF agent, ward, firm
<1>2. /\ v.level = "AGENT" => (InPortfolio(v, p) <=> agent)
      /\ v.level = "AGENT_SUPERVISOR" => (InPortfolio(v, p) <=> ward)
      /\ v.level \in FirmScoped => (InPortfolio(v, p) <=> firm)
      /\ v.level \notin {"AGENT", "AGENT_SUPERVISOR"} \cup FirmScoped => InPortfolio(v, p)
  BY <1>1 DEF FirmScoped
<1>. QED  BY <1>2 DEF agent, ward, firm

\* An agent's payers are on the lists of the firm and of the ward.
LEMMA AgentsNest ==
  ASSUME PeopleInv, NEW a \in Present("agent"), NEW agent, agent = As("AGENT", shown[a].user),
         NEW theirs, theirs = PayersListed(agent)
  PROVE  /\ WorkList(a) \subseteq Narrowed(theirs, agent.ward, None)
         /\ agent.firm # None => \A l \in FirmScoped : theirs \subseteq PayersListed(As(l, agent.user))
         /\ agent.ward # 0 => theirs \subseteq PayersListed(As("AGENT_SUPERVISOR", agent.user))
<1> DEFINE u == shown[a].user
<1>1. a \in Row /\ a[1] = "agent" /\ shown[a] # Absent
  BY DEF Present, Row, Table
<1>2. /\ OnRows /\ RecordsKeepTheirParents /\ u \in Id /\ shown[User(u)] # Absent /\ WardOf(u) = shown[a].ward
  BY <1>1, LoginsOf, WardIs DEF PeopleInv
<1> HIDE DEF u
<1>3. agent.level = "AGENT" /\ agent.user = u /\ agent.firm = shown[User(u)].firm /\ agent.ward = shown[a].ward
  BY <1>2 DEF As, u
<1>4. theirs = {p \in Present("payer") : Keeper(p) = u}
  <2>1. "AGENT" \in PayerReaders
    BY DEF PayerReaders
  <2>2. \A p : InPortfolio(agent, p) <=> Keeper(p) = u
    BY <1>3, PortfolioIs
  <2>. QED  BY <1>3, <2>1, <2>2 DEF PayersListed, Listed
<1>5. WorkList(a) \subseteq Narrowed(theirs, agent.ward, None)
  BY <1>3, <1>4 DEF WorkList, Narrowed, u
<1>6. ASSUME agent.firm # None, NEW l \in FirmScoped, NEW p \in theirs PROVE p \in PayersListed(As(l, agent.user))
  <2>1. p \in Present("payer") /\ Keeper(p) = u
    BY <1>4, <1>6
  <2>2. shown[User(shown[p].by)].firm = agent.firm
    <3>1. CASE shown[p].to = None
      BY <1>3, <2>1, <3>1, PayerIs
    <3>2. CASE shown[p].to # None
      <4>1. shown[p].to = u /\ SameFirm(u, shown[p].by) /\ shown[User(shown[p].by)] # Absent
        BY <2>1, <3>2, PayerIs DEF PayerOK
      <4>. QED  BY <1>2, <1>3, <1>6, <4>1 DEF SameFirm
    <3>. QED  BY <3>1, <3>2
  <2>3. l \in PayerReaders /\ l \notin {"AGENT", "AGENT_SUPERVISOR"}
    BY DEF FirmScoped, PayerReaders
  <2>4. As(l, agent.user).level = l /\ As(l, agent.user).firm = agent.firm
    BY <1>3 DEF As
  <2>5. InPortfolio(As(l, agent.user), p)
    BY <2>2, <2>4, PortfolioIs
  <2>. QED  BY <2>1, <2>3, <2>4, <2>5 DEF PayersListed, Listed
<1>7. ASSUME agent.ward # 0, NEW p \in theirs PROVE p \in PayersListed(As("AGENT_SUPERVISOR", agent.user))
  <2>1. p \in Present("payer") /\ Keeper(p) = u
    BY <1>4, <1>7
  <2>2. As("AGENT_SUPERVISOR", agent.user).level = "AGENT_SUPERVISOR" /\ As("AGENT_SUPERVISOR", agent.user).ward = WardOf(u)
    BY <1>3 DEF As
  <2>3. InPortfolio(As("AGENT_SUPERVISOR", agent.user), p)
    BY <1>2, <1>3, <1>7, <2>1, <2>2, PortfolioIs
  <2>4. "AGENT_SUPERVISOR" \in PayerReaders
    BY DEF PayerReaders
  <2>. QED  BY <2>1, <2>2, <2>3, <2>4 DEF PayersListed, Listed
<1>. QED  BY <1>5, <1>6, <1>7

\* Whoever is shown a row is shown the one it leads to.
LEMMA RowsNest ==
  ASSUME PeopleInv, NEW v
  PROVE  /\ ReceiptsListed(v) \subseteq PaymentsListed(v)
         /\ \A m \in PaymentsListed(v) : Bill(shown[m].bill) \in BillsListed(v)
         /\ DebtsListed(v) \subseteq BillsListed(v)
         /\ \A b \in BillsListed(v) : Payer(shown[b].payer) \in PayersListed(v)
<1>0. OnRows /\ RecordsKeepTheirParents
  BY DEF PeopleInv
<1>1. ReceiptsListed(v) \subseteq PaymentsListed(v)
  BY DEF ReceiptsListed, PaymentsListed, Listed, ReceiptReaders, PaymentReaders
<1>2. ASSUME NEW m \in PaymentsListed(v) PROVE Bill(shown[m].bill) \in BillsListed(v)
  <2>1. m \in Present("payment") /\ InPortfolio(v, PayerOf(m)) /\ v.level \in BillReaders
    BY DEF PaymentsListed, Listed, PaymentReaders, BillReaders
  <2>2. m \in Row /\ m[1] = "payment" /\ shown[m] # Absent
    BY <2>1 DEF Present, Row, Table
  <2>3. shown[m].bill \in Id /\ shown[Bill(shown[m].bill)] # Absent
    <3>1. shown[m].bill \in Id
      BY <1>0, <2>2, ParentIs, RowColumns
    <3>2. Bill(shown[m].bill) \in RefersTo(m, shown[m])
      BY <2>2, Keys
    <3>. QED  BY <1>0, <2>2, <3>1, <3>2, ParentIs
  <2>4. Bill(shown[m].bill) \in Present("bill")
    BY <2>3 DEF Present, Bill
  <2>. QED  BY <2>1, <2>4 DEF BillsListed, Listed, PayerOf
<1>3. DebtsListed(v) \subseteq BillsListed(v)
  BY DEF DebtsListed, BillsListed, Listed, DebtReaders, BillReaders
<1>4. ASSUME NEW b \in BillsListed(v) PROVE Payer(shown[b].payer) \in PayersListed(v)
  <2>1. b \in Present("bill") /\ InPortfolio(v, Payer(shown[b].payer)) /\ v.level \in PayerReaders
    BY DEF BillsListed, Listed, BillReaders, PayerReaders, FirmScoped, Oversight
  <2>2. b \in Row /\ b[1] = "bill" /\ shown[b] # Absent
    BY <2>1 DEF Present, Row, Table
  <2>3. shown[b].payer \in Id /\ shown[Payer(shown[b].payer)] # Absent
    <3>1. shown[b].payer \in Id
      BY <1>0, <2>2, ParentIs, RowColumns
    <3>2. Payer(shown[b].payer) \in RefersTo(b, shown[b])
      BY <2>2, Keys
    <3>. QED  BY <1>0, <2>2, <3>1, <3>2, ParentIs
  <2>4. Payer(shown[b].payer) \in Present("payer")
    BY <2>3 DEF Present, Payer
  <2>. QED  BY <2>1, <2>4 DEF PayersListed, Listed
<1>. QED  BY <1>1, <1>2, <1>3, <1>4

\* Lists nest.
LEMMA ListsFollow == PeopleInv => ListsNest
  BY AgentsNest, RowsNest DEF ListsNest

\* What request r has created is among the committed rows of its table.
LEMMA CreatedIs ==
  ASSUME PeopleInv, NEW r \in Request
  PROVE  /\ shown[Payer(r)] # Absent => Payer(r) \in Present("payer")
         /\ shown[Agent(r)] # Absent => Agent(r) \in Present("agent")
         /\ shown[User(r)] # Absent => User(r) \in Present("user") /\ UserOK(User(r), shown[User(r)])
         /\ shown[Firm(r)] # Absent => Firm(r) \in Present("firm")
<1>1. r \in Id
  BY RequestIds
<1>2. shown[User(r)] # Absent => UserOK(User(r), shown[User(r)])
  <2>1. User(r) \in Row /\ User(r)[1] = "user"
    BY <1>1, RowNames
  <2>. QED  BY <2>1, VersionIs DEF Versions, VersionOK, PeopleInv
<1>. QED  BY <1>1, <1>2 DEF Present, Payer, Agent, User, Firm

\* A payer is on the list of whom it was enrolled for.
LEMMA EnrolledIsFound ==
  ASSUME PeopleInv, NEW r \in Request, Is(r, {"ENROL", "REPLAY"}), NEW p, p = Payer(r), shown[p] # Absent
  PROVE  IF job[r].firm # None
         THEN \A l \in FirmScoped : p \in PayersListed([level |-> l, user |-> None, firm |-> job[r].firm, ward |-> 0])
         ELSE shown[p].to = None =>
                /\ p \in PayersListed(Caller(r))
                /\ Is(r, {"REPLAY"}) => \E a \in Present("agent") : p \in WorkList(a) /\ shown[a].user = job[r].by
<1> DEFINE u == shown[p].by
<1>1. p \in Present("payer")
  BY CreatedIs
<1>2. p[2] = r /\ shown[User(u)] # Absent /\ Keeper(p) = (IF shown[p].to = None THEN u ELSE shown[p].to) /\ PayerOK(p, shown[p])
  BY <1>1, PayerIs, RowNames
<1>3. EnrolledBy(r, u) /\ shown[p].ward = job[r].ward
  BY <1>2 DEF PayerOK
<1>4. Is(r, {"REPLAY"}) => job[r].firm = None
  BY AskedIs DEF PeopleInv
<1> HIDE DEF u
<1>5. ASSUME job[r].firm # None, NEW l \in FirmScoped
      PROVE  p \in PayersListed([level |-> l, user |-> None, firm |-> job[r].firm, ward |-> 0])
  <2> DEFINE v == [level |-> l, user |-> None, firm |-> job[r].firm, ward |-> 0]
  <2>1. v.level = l /\ v.firm = job[r].firm
    OBVIOUS
  <2> HIDE DEF v
  <2>2. Is(r, {"ENROL"})
    BY <1>4, <1>5 DEF Is
  <2>3. shown[User(u)].firm = job[r].firm
    BY <1>2, <1>3, <1>5, <2>2 DEF EnrolledBy, HasFirm
  <2>4. InPortfolio(v, p)
    BY <2>1, <2>3, PortfolioIs DEF u
  <2>5. l \in PayerReaders
    BY DEF FirmScoped, PayerReaders
  <2>6. p \in PayersListed(v)
    BY <1>1, <2>1, <2>4, <2>5 DEF PayersListed, Listed
  <2>. QED  BY <2>6 DEF v
<1>6. ASSUME job[r].firm = None, shown[p].to = None
      PROVE  /\ p \in PayersListed(Caller(r))
             /\ Is(r, {"REPLAY"}) => \E a \in Present("agent") : p \in WorkList(a) /\ shown[a].user = job[r].by
  <2>1. Keeper(p) = u
    BY <1>2, <1>6
  <2>2. u = job[r].by /\ shown[User(u)].role \in PayerCreators
    <3>1. CASE Is(r, {"ENROL"})
      BY <1>2, <1>3, <1>6, <3>1 DEF EnrolledBy, HasRole
    <3>2. CASE Is(r, {"REPLAY"})
      BY <1>2, <1>3, <3>2 DEF EnrolledBy, HasRole, PayerCreators
    <3>. QED  BY <3>1, <3>2 DEF Is
  <2>3. Caller(r).level = shown[User(u)].role /\ Caller(r).user = u /\ Caller(r).firm = shown[User(u)].firm
    BY <2>2 DEF Caller, As
  <2>4. Caller(r).level \in {"COUNCIL_ADMIN", "CONSULTANT", "AGENT"}
    BY <2>2, <2>3 DEF PayerCreators
  <2>5. InPortfolio(Caller(r), p)
    <3>1. CASE Caller(r).level = "AGENT"
      BY <2>1, <2>3, <3>1, PortfolioIs
    <3>2. CASE Caller(r).level = "CONSULTANT"
      <4>1. Caller(r).level \in FirmScoped
        BY <3>2 DEF FirmScoped
      <4>. QED  BY <2>3, <4>1, PortfolioIs DEF u
    <3>3. CASE Caller(r).level = "COUNCIL_ADMIN"
      <4>1. Caller(r).level \notin {"AGENT", "AGENT_SUPERVISOR"} \cup FirmScoped
        BY <3>3 DEF FirmScoped
      <4>. QED  BY <4>1, PortfolioIs
    <3>. QED  BY <2>4, <3>1, <3>2, <3>3
  <2>6. p \in PayersListed(Caller(r))
    <3>1. Caller(r).level \in PayerReaders
      BY <2>4 DEF PayerReaders
    <3>. QED  BY <1>1, <2>5, <3>1 DEF PayersListed, Listed
  <2>7. ASSUME Is(r, {"REPLAY"}) PROVE \E a \in Present("agent") : p \in WorkList(a) /\ shown[a].user = job[r].by
    <3>1. job[r].ward # 0 /\ InWard(u, job[r].ward)
      BY <1>3, <2>7 DEF EnrolledBy
    <3>2. PICK a \in Row : a[1] = "agent" /\ shown[a] # Absent /\ shown[a].user = u /\ shown[a].ward = job[r].ward
      BY <1>2, <3>1 DEF InWard
    <3>3. a \in Present("agent")
      BY <3>2, RowNames DEF Present
    <3>4. p \in WorkList(a)
      BY <1>1, <1>3, <2>1, <3>1, <3>2 DEF WorkList
    <3>. QED  BY <2>2, <3>2, <3>3, <3>4
  <2>. QED  BY <2>6, <2>7
<1>. QED  BY <1>5, <1>6

\* An agent is on the list of every level that may onboard one.
LEMMA AgentIsFound ==
  ASSUME PeopleInv, NEW r \in Request, Is(r, {"AGENT"}), shown[Agent(r)] # Absent, NEW l \in AgentCreators, NEW by
  PROVE  Agent(r) \in AgentsListed([level |-> l, user |-> by, firm |-> On(r)[2], ward |-> 0])
<1> DEFINE v == [level |-> l, user |-> by, firm |-> On(r)[2], ward |-> 0]
           a == Agent(r)
<1>1. v.level = l /\ v.firm = On(r)[2] /\ v.ward = 0
  OBVIOUS
<1>2. a \in Present("agent")
  BY CreatedIs
<1>3. a \in Row /\ a[1] = "agent" /\ a[2] = r /\ shown[a] # Absent /\ shown[a] \in Versions(a)
  BY RequestIds, RowNames DEF Versions
<1>4. shown[a].user = r
  <2>1. AgentOK(a, shown[a])
    BY <1>3, VersionIs DEF PeopleInv, VersionOK
  <2>. QED  BY <1>3, <2>1 DEF AgentOK
<1>5. shown[User(r)] # Absent
  BY <1>3, <1>4, LoginsOf DEF PeopleInv
<1>6. shown[User(r)].firm = On(r)[2]
  <2>1. UserOK(User(r), shown[User(r)])
    BY <1>5, CreatedIs
  <2>. QED  BY <2>1, RowNames DEF UserOK, LoginOf
<1> HIDE DEF v, a
<1>7. l \in AgentReaders /\ l # "AGENT_SUPERVISOR"
  BY DEF AgentCreators, AgentReaders
<1>8. a \in AgentsListed(v)
  BY <1>1, <1>2, <1>4, <1>6, <1>7 DEF AgentsListed, Listed
<1>. QED  BY <1>8 DEF v, a

\* An officer and a stakeholder are on the lists of those that manage them.
LEMMA LoginIsFound ==
  ASSUME PeopleInv, NEW r \in Request, Is(r, {"OFFICER", "STAKEHOLDER"}), shown[User(r)] # Absent,
         NEW l \in OfficerManagers \cap StakeholderManagers, NEW by
  PROVE  User(r) \in OfficersListed(As(l, by), On(r)[2]) \cup StakeholdersListed(As(l, by))
<1>1. User(r) \in Present("user") /\ UserOK(User(r), shown[User(r)]) /\ As(l, by).level = l
  BY CreatedIs DEF As
<1>2. LoginOf(r, shown[User(r)])
  BY <1>1, RowNames DEF UserOK
<1>3. CASE Is(r, {"OFFICER"})
  BY <1>1, <1>2, <1>3 DEF LoginOf, OfficersListed, Listed
<1>4. CASE Is(r, {"STAKEHOLDER"})
  BY <1>1, <1>2, <1>4 DEF LoginOf, StakeholdersListed, Listed
<1>. QED  BY <1>3, <1>4 DEF Is

\* Creators find what they created.
LEMMA CreatorsFollow == PeopleInv => CreatorsFindTheirs
<1> SUFFICES ASSUME PeopleInv, NEW r \in Request
             PROVE  LET by == job[r].by
                        p == Payer(r)
                    IN /\ Is(r, {"ENROL", "REPLAY"}) /\ shown[p] # Absent =>
                            IF job[r].firm # None
                            THEN \A l \in FirmScoped :
                                   p \in PayersListed([level |-> l, user |-> None, firm |-> job[r].firm, ward |-> 0])
                            ELSE shown[p].to = None =>
                                   /\ p \in PayersListed(Caller(r))
                                   /\ Is(r, {"REPLAY"}) =>
                                        \E a \in Present("agent") : p \in WorkList(a) /\ shown[a].user = by
                       /\ Is(r, {"AGENT"}) /\ shown[Agent(r)] # Absent =>
                            \A l \in AgentCreators :
                              Agent(r) \in AgentsListed([level |-> l, user |-> by, firm |-> On(r)[2], ward |-> 0])
                       /\ Is(r, {"OFFICER", "STAKEHOLDER"}) /\ shown[User(r)] # Absent =>
                            \A l \in OfficerManagers \cap StakeholderManagers :
                              User(r) \in OfficersListed(As(l, by), On(r)[2]) \cup StakeholdersListed(As(l, by))
                       /\ Is(r, {"ONBOARD"}) /\ shown[Firm(r)] # Absent =>
                            \A l \in FirmCreators : Firm(r) \in FirmsListed(As(l, by))
  BY DEF CreatorsFindTheirs
<1>1. ASSUME shown[Firm(r)] # Absent, NEW l \in FirmCreators PROVE Firm(r) \in FirmsListed(As(l, job[r].by))
  <2>1. Firm(r) \in Present("firm") /\ As(l, job[r].by).level = l
    BY <1>1, CreatedIs DEF As
  <2>2. l \in FirmReaders
    BY DEF FirmCreators, FirmReaders
  <2>. QED  BY <2>1, <2>2 DEF FirmsListed, Listed
<1>. QED  BY <1>1, EnrolledIsFound, AgentIsFound, LoginIsFound

\* A proxy is no payer's own login.
ProxiesOwnNothing == \A d \in Present("delegation") : \A q \in Present("payer") : shown[q].login # shown[d].proxy

LEMMA ProxiesFollow == PeopleInv => ProxiesOwnNothing
<1> SUFFICES ASSUME PeopleInv, NEW d \in Present("delegation"), NEW q \in Present("payer"), shown[q].login = shown[d].proxy
             PROVE  FALSE
  BY DEF ProxiesOwnNothing
<1> DEFINE u == shown[d].proxy
<1>1. d \in Row /\ d[1] = "delegation" /\ shown[d] # Absent /\ shown[d] \in Versions(d)
  BY DEF Present, Row, Table, Versions
<1>2. OnRows /\ RecordsKeepTheirParents
  BY DEF PeopleInv
<1>3. u \in Id /\ User(u) \in Row /\ User(u)[1] = "user" /\ User(u)[2] = u /\ shown[User(u)] # Absent
  <2>1. u \in Id
    BY <1>1, <1>2, ParentIs, RowColumns
  <2>2. User(u) \in RefersTo(d, shown[d])
    BY <1>1, Keys
  <2>. QED  BY <1>1, <1>2, <2>1, <2>2, ParentIs, RowNames
<1>4. DelegationOK(d, shown[d])
  BY <1>1, <1>2, VersionIs DEF VersionOK
<1>5. RatepayerIs(u)
  <2>1. u # None
    BY <1>3, PeopleConstants
  <2>. QED  BY <2>1, PayerIs DEF PayerOK
<1> HIDE DEF u
<1>6. shown[User(u)].role = "RATEPAYER_PROXY"
  BY <1>3, <1>4 DEF DelegationOK, HasRole, u
<1>7. shown[User(u)].role = "RATEPAYER"
  <2>1. CASE u \in Request
    <3>1. UserOK(User(u), shown[User(u)])
      BY <1>2, <1>3, VersionIs DEF Versions, VersionOK
    <3>. QED  BY <1>3, <1>5, <2>1, <3>1 DEF RatepayerIs, UserOK, LoginOf
  <2>2. CASE u \notin Request
    BY <1>3, <1>5, <2>2 DEF RatepayerIs, HasRole
  <2>. QED  BY <2>1, <2>2
<1>. QED  BY <1>6, <1>7

\* The only step to the end of a request that succeeds is its own commit.
LEMMA DoneByCommit ==
  ASSUME PeopleInv, [Next]_vars, NEW r \in Request, at[r] = "commit", at'[r] = "done"
  PROVE  Lands(r)
<1>1. PICK q \in Request : Work(q)
  BY DEF Next, AllEnded, vars
<1>2. CASE Fine(q)
  BY <1>2 DEF Fine, Turns
<1>3. CASE Lands(q)
  BY <1>3 DEF Lands
<1>. QED  BY <1>1, <1>2, <1>3, WorkIs

\* A revocation leaves no open delegation, and closes the one it is about.
LEMMA RevokedIsClosed ==
  ASSUME PeopleInv, NEW r \in Request, Is(r, {"REVOKE"}), Lands(r), shown[On(r)].open,
         NEW p, p = shown[On(r)].payer, NEW proxy, proxy = shown[On(r)].proxy
  PROVE  /\ On(r) \in Present("delegation")' /\ shown'[On(r)].proxy = proxy
         /\ \A e \in Present("delegation")' : shown'[e].open /\ shown'[e].proxy = proxy => shown'[e].payer # p
<1> DEFINE d == On(r)
<1>1. d \in Row /\ d[1] = "delegation" /\ d[2] \in Id /\ d = <<d[1], d[2]>>
  BY AskedIs DEF PeopleInv, Is, Target
<1>2. Has(r, d) /\ ~row[d].open /\ Born(d[2]) /\ at[r] = "commit"
  BY DEF PeopleInv, Local, RevokeOK, Lands
<1> HIDE DEF d
<1>3. RowOK(d)
  BY <1>1 DEF PeopleInv, OnRows
<1>4. shown[d] # Absent
  BY <1>2, <1>3 DEF RowOK, Has, Born
<1>5. shown'[d] = row[d] /\ row[d] # Absent /\ row[d].payer = shown[d].payer /\ row[d].proxy = shown[d].proxy
  <2>1. Same(d, shown[d], row[d])
    BY <1>2, <1>3, <1>4 DEF RowOK, Has
  <2>. QED  BY <1>1, <1>2, <2>1 DEF Same, Has, Lands
<1>6. d \in Present("delegation")'
  BY <1>1, <1>5 DEF Present
<1>7. ASSUME NEW e \in Present("delegation")', shown'[e].open, shown'[e].proxy = proxy, shown'[e].payer = p
      PROVE  FALSE
  <2>1. e \in Row /\ e[1] = "delegation" /\ shown'[e] # Absent
    BY <1>7 DEF Present, Row, Table
  <2>2. e # d
    BY <1>2, <1>5, <1>7
  <2>3. shown'[e] \in Versions(e)
    BY <2>1, NothingAppears DEF Versions
  <2>4. shown[d] \in Versions(d)
    BY <1>4 DEF Versions
  <2>5. Apart(e, d)
    BY <1>1, <2>1, <2>2 DEF PeopleInv, OnRows
  <2>6. ~SameDelegation(shown'[e], shown[d])
    BY <1>1, <2>1, <2>3, <2>4, <2>5 DEF Apart
  <2>. QED  BY <1>7, <2>6 DEF SameDelegation, d
<1>. QED  BY <1>5, <1>6, <1>7 DEF d

\* A proxy whose delegation is revoked is shown nothing of the payer.
LEMMA RevokedIsShownNothing ==
  ASSUME PeopleInv, ProxiesOwnNothing', NEW r \in Request, Is(r, {"REVOKE"}), Lands(r), shown[On(r)].open,
         NEW p, p = shown[On(r)].payer, NEW proxy, proxy = shown[On(r)].proxy
  PROVE  /\ p \notin AccessiblePayerIds(proxy)'
         /\ \A b \in PortalBills(proxy)' : shown'[b].payer # p
         /\ \A m \in PortalPayments(proxy)' : Bill(shown'[m].bill) \in PortalBills(proxy)'
<1>1. /\ On(r) \in Present("delegation")' /\ shown'[On(r)].proxy = proxy
      /\ \A e \in Present("delegation")' : shown'[e].open /\ shown'[e].proxy = proxy => shown'[e].payer # p
  BY RevokedIsClosed
<1>2. \A q \in Present("payer")' : shown'[q].login # proxy
  BY <1>1 DEF ProxiesOwnNothing
<1>3. p \notin AccessiblePayerIds(proxy)'
  BY <1>1, <1>2 DEF AccessiblePayerIds
<1>4. \A b \in PortalBills(proxy)' : shown'[b].payer # p
  BY <1>3 DEF PortalBills
<1>5. \A m \in PortalPayments(proxy)' : Bill(shown'[m].bill) \in PortalBills(proxy)'
  BY DEF PortalPayments
<1>. QED  BY <1>3, <1>4, <1>5

-----------------------------------------------------------------------------
(* Theorems. *)

\* Rows, jobs, steps and notes have their types (module People).
THEOREM PeopleTypes == Spec => []TypeOK
  BY PeopleInvariance, TypesFollow, PTL

\* No committed row lacks one it refers to, whatever overlaps a deletion or a reset
\* (PayerViewSet.destroy, reset_council_data).
THEOREM RecordsAreWhole == Spec => []RecordsKeepTheirParents
<1>1. PeopleInv => RecordsKeepTheirParents
  BY DEF PeopleInv
<1>. QED  BY <1>1, PeopleInvariance, PTL

\* A firm is committed with its payer, its registration bill and its login or not at all,
\* and its contract never ends before it starts (SubConsultantViewSet.perform_create,
\* contract_dates).
THEOREM FirmsStayWhole == Spec => []FirmsAreWhole
  BY PeopleInvariance, FirmsFollow, PTL

\* What an agent is shown the firm's managers and the ward's supervisor are shown too, and
\* whoever is shown a row is shown the one it leads to (common/scoping.py).
THEOREM ListsStayNested == Spec => []ListsNest
  BY PeopleInvariance, ListsFollow, PTL

\* Whoever creates a row finds it on the lists of those that may create one like it
\* (FieldAgentViewSet, PayerViewSet).
THEOREM CreatorsAlwaysFind == Spec => []CreatorsFindTheirs
  BY PeopleInvariance, CreatorsFollow, PTL

\* From the commit of a revocation the proxy is shown nothing of the payer
\* (revoke_delegation, accessible_payer_ids).
THEOREM RevocationIsFinal == Spec => RevocationEndsAccess
<1> DEFINE Ends(r) == job[r].kind = "REVOKE" /\ at[r] = "commit" /\ at'[r] = "done" /\ shown[On(r)].open =>
       LET p == shown[On(r)].payer
           proxy == shown[On(r)].proxy
       IN /\ p \notin AccessiblePayerIds(proxy)'
          /\ \A b \in PortalBills(proxy)' : shown'[b].payer # p
          /\ \A m \in PortalPayments(proxy)' : Bill(shown'[m].bill) \in PortalBills(proxy)'
<1>1. ASSUME PeopleInv, ProxiesOwnNothing', [Next]_vars, NEW r \in Request PROVE Ends(r)
  <2> SUFFICES ASSUME job[r].kind = "REVOKE", at[r] = "commit", at'[r] = "done", shown[On(r)].open
               PROVE  LET p == shown[On(r)].payer
                          proxy == shown[On(r)].proxy
                      IN /\ p \notin AccessiblePayerIds(proxy)'
                         /\ \A b \in PortalBills(proxy)' : shown'[b].payer # p
                         /\ \A m \in PortalPayments(proxy)' : Bill(shown'[m].bill) \in PortalBills(proxy)'
    OBVIOUS
  <2>1. PICK proxy : proxy = shown[On(r)].proxy
    OBVIOUS
  <2>2. PICK p : p = shown[On(r)].payer
    OBVIOUS
  <2>3. Is(r, {"REVOKE"}) /\ Lands(r)
    BY <1>1, DoneByCommit DEF Is
  <2>4. shown'[On(r)].proxy = proxy /\ On(r)' = On(r)
    BY <1>1, <2>1, <2>2, <2>3, RevokedIsClosed DEF On, Lands
  <2>5. /\ p \notin AccessiblePayerIds(proxy)'
        /\ \A b \in PortalBills(proxy)' : shown'[b].payer # p
        /\ \A m \in PortalPayments(proxy)' : Bill(shown'[m].bill) \in PortalBills(proxy)'
    BY <1>1, <2>1, <2>2, <2>3, RevokedIsShownNothing
  <2>. QED  BY <2>2, <2>4, <2>5
<1>2. PeopleInv /\ ProxiesOwnNothing' /\ [Next]_vars => [\A r \in Request : Ends(r)]_vars
  BY <1>1
<1>. QED  BY <1>2, PeopleInvariance, ProxiesFollow, PTL DEF Spec, RevocationEndsAccess

=============================================================================
