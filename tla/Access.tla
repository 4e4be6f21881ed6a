------------------------------- MODULE Access --------------------------------
(***************************************************************************)
(* Who a request is and what it may see: the tenant context that the       *)
(* middleware takes from the token (apps/tenancy), reads across councils   *)
(* (apps/common/platform_scope.py), councils being onboarded and resolved  *)
(* from references through a cached map, and sessions (apps/accounts).     *)
(* Requests overlap as in module Requests.                                 *)
(*                                                                         *)
(* note[r].ctx is the setting app.council_id of the request's transaction: *)
(* row-level security hides every scoped row of another council.           *)
(***************************************************************************)
EXTENDS Requests, FiniteSets, TLC

CONSTANTS
  Id,        \* ids of rows, 1..N those of the requests
  Prefixes,  \* prefixes of bill references
  FirstRows, \* the rows there are from the start
  Worker,    \* processes, each with a cache
  TTL,       \* life of a prefix map, in ticks
  MaxTime,   \* ticks the clock may make
  Workloads  \* the jobs the requests may have

None == 0
Council(i) == <<"council", i>>
Config(i) == <<"config", i>>
Record(i) == <<"record", i>>     \* any row of a council: a settlement, a bill, an event
Receipt(i) == <<"receipt", i>>
Area(i) == <<"area", i>>         \* WardZone, Department
Client(i) == <<"client", i>>     \* APIClient
User(i) == <<"user", i>>
Grant(i) == <<"grant", i>>       \* CouncilGrant
Token(i) == <<"token", i>>       \* OutstandingToken
Spent(i) == <<"spent", i>>       \* BlacklistedToken
Trail(i) == <<"trail", i>>       \* AuditLog

Table == {"council", "config", "record", "receipt", "area", "client", "user", "grant", "token", "spent", "trail"}
Row == Table \X Id
IdOrNone == Id \cup {None}

Kinds == {"LIST", "GET", "DRILL", "ENTER", "OFF", "EDIT", "ONBOARD", "CLOSE", "VERIFY", "LOOKUP",
          "LOGIN", "REFRESH", "LOGOUT", "PASSWORD", "PROFILE", "DISABLE"}

CouncilRow == [code : Nat, active : BOOLEAN]
ConfigRow == [council : Id, prefix : Prefixes]
RecordRow == [council : Id, under : IdOrNone]  \* under: the settlement a bill belongs to
ReceiptRow == [council : Id, count : Nat]
AreaRow == [council : Id, code : Nat, name : Nat, active : BOOLEAN]
UserRow == [council : IdOrNone, level : {"ADMIN", "GLOBAL", "GRANTED", "DEVOPS"}, name : Nat, active : BOOLEAN,
            password : Nat, must : BOOLEAN]
GrantRow == [user : Id, council : Id, until : Nat] \* until 0: for good
TokenRow == [user : Id, council : IdOrNone, must : BOOLEAN]
SpentRow == [by : Nat]
TrailRow == [council : Id, by : IdOrNone]

RowType(x) ==
  CASE x[1] = "council" -> CouncilRow
    [] x[1] = "config"  -> ConfigRow
    [] x[1] = "record"  -> RecordRow
    [] x[1] = "receipt" -> ReceiptRow
    [] x[1] = "user"    -> UserRow
    [] x[1] = "grant"   -> GrantRow
    [] x[1] = "token"   -> TokenRow
    [] x[1] = "spent"   -> SpentRow
    [] x[1] = "trail"   -> TrailRow
    [] OTHER -> AreaRow

\* The unique constraints: rows x and y of one table cannot both be there.
Clash(table, x, y) ==
  CASE table = "council" -> x.code = y.code
    [] table = "config" -> x.prefix = y.prefix
    [] table = "area" -> x.council = y.council /\ x.code = y.code
    [] OTHER -> FALSE

\* The table of the row a request is about.
TablesOf(kind) ==
  CASE kind \in {"LIST", "GET", "DRILL", "LOOKUP"} -> {"record"}
    [] kind = "VERIFY"               -> {"receipt"}
    [] kind \in {"ENTER", "OFF"}     -> {"area", "client"}
    [] kind = "EDIT"                 -> {"area"}
    [] kind = "CLOSE"                -> {"council"}
    [] kind \in {"LOGIN", "DISABLE"} -> {"user"}
    [] OTHER                         -> Table

ASSUME AccessConstants ==
  /\ N \in Nat /\ TTL \in Nat /\ MaxTime \in Nat /\ None \notin Id /\ 1..N \subseteq Id /\ Id \subseteq Nat
  /\ \A x \in Row : Absent \notin RowType(x)
  /\ DOMAIN FirstRows \subseteq Row
  /\ \A x \in DOMAIN FirstRows :
       /\ x[2] \notin 1..N /\ FirstRows[x] \in RowType(x)
       /\ x[1] = "token" => User(FirstRows[x].user) \in DOMAIN FirstRows
       /\ \A y \in DOMAIN FirstRows \ {x} : x[1] = y[1] => ~Clash(x[1], FirstRows[x], FirstRows[y])
  /\ \A w \in Workloads : \A r \in 1..N :
       /\ w[r].kind \in Kinds /\ w[r].on \in TablesOf(w[r].kind) \X Id /\ w[r].worker \in Worker
       /\ w[r].bearer \in Id /\ w[r].token \in Id
       /\ w[r].code \in Nat /\ w[r].prefix \in Prefixes /\ w[r].password \in Nat

VARIABLES
  now,    \* the clock
  cache,  \* Worker -> the map from prefix to council it has cached
  job,    \* Request -> what it asks for, fixed
  note    \* Request -> its tenant context and what it has read

vars == <<now, cache, job, at, note, row, shown, holder>>

Map == [Prefixes -> IdOrNone]
NoMap == [p \in Prefixes |-> None]
Steps == {"load", "view", "scan", "answer", "bills", "insert", "config", "save", "token", "stamp", "list", "spend",
          "trail", "build", "identify", "read", "commit"} \cup Ended

TypeOK ==
  /\ now \in 1..MaxTime /\ job \in Workloads /\ at \in [Request -> Steps]
  /\ \A w \in Worker : cache[w].until \in Nat /\ cache[w].map \in Map
  /\ \A r \in Request : note[r].ctx \in IdOrNone /\ note[r].todo \subseteq Id /\ note[r].end \in Ended
  /\ \A x \in Row : row[x] = Absent \/ row[x] \in RowType(x)
  /\ \A x \in Row : shown[x] = Absent \/ shown[x] \in RowType(x)
  /\ holder \in [Row -> 0..N]

-----------------------------------------------------------------------------
(* Queries and constraints. *)

Is(r, kinds) == job[r].kind \in kinds
On(r) == job[r].on
It(r) == Sees(r, On(r))
Rows(r, table) == {x \in Row : x[1] = table /\ There(r, x)}
Least(S) == CHOOSE c \in S : \A d \in S : c <= d

Rivals(r, x, new) ==
  {y \in Row \ {x} :
     /\ y[1] = x[1]
     /\ \/ row[y] # Absent /\ Clash(x[1], new, row[y])
        \/ holder[y] \notin {0, r} /\ shown[y] # Absent /\ Clash(x[1], new, shown[y])}

\* Row-level security: the rows of council c that a query for them meets in context ctx.
Scoped(r, table, ctx, c) == {x \in Rows(r, table) : Sees(r, x).council = c /\ Sees(r, x).council = ctx}

ActiveCouncils(r) == {x[2] : x \in {y \in Rows(r, "council") : Sees(r, y).active}}

-----------------------------------------------------------------------------
(* The parts of a request. *)

Keep(r, step) == Go(r, step) /\ UNCHANGED <<now, cache, job>>
Move(r, step) == Keep(r, step) /\ UNCHANGED note
Refuse(r) == Move(r, "refused") /\ ReadOnly

\* Ends that commit, as a refusal does after a row was written about it.
EndAs(r, end) == note' = [note EXCEPT ![r].end = end] /\ Keep(r, "commit") /\ ReadOnly

\* Defect: what was inserted before an error stays.
KeepOnError(r) == ReadOnly /\ note' = [note EXCEPT ![r].ctx = None] /\ Keep(r, "commit")

\* An error undoes the request's work, and its context with the savepoint.
Fail(r) == Undo(HeldBy(r)) /\ note' = [note EXCEPT ![r].ctx = None] /\ Keep(r, "failed")

\* INSERT; row-level security lets it in only in its council's context.
Insert(r, step, x, new, ctx, next) ==
  /\ at[r] = step /\ Free(r, Rivals(r, x, new))
  /\ IF Rivals(r, x, new) = {} /\ (x[1] \in {"config", "area", "client"} => new.council = ctx)
     THEN Put(r, x, new) /\ note' = [note EXCEPT ![r].ctx = ctx] /\ Keep(r, next)
     ELSE Fail(r)

Save(r, x, new, next) ==
  /\ at[r] = "save" /\ Free(r, {x})
  /\ Put(r, x, new) /\ Move(r, next)

\* audit: one row in a council, in context ctx.
Audit(r, c, ctx, next) ==
  /\ at[r] = "trail"
  /\ IF c = ctx THEN Put(r, Trail(r), [council |-> c, by |-> note[r].user]) /\ Move(r, next) ELSE Fail(r)

\* audit_user_event: nothing for a platform user.
AuditUser(r, u, next) ==
  LET c == Sees(r, User(u)).council
  IN /\ at[r] = "trail"
     /\ IF c = None THEN Move(r, next) /\ ReadOnly ELSE Audit(r, c, note[r].ctx, next)

-----------------------------------------------------------------------------
(* The middleware and authentication. *)

Anonymous == {"LOGIN", "REFRESH", "VERIFY", "LOOKUP"}
AllowedBeforeChange == {"PASSWORD", "LOGOUT", "PROFILE"}

\* A forced change of password bars the rest.
Gated(r) == row[Token(job[r].bearer)].must /\ ~Is(r, AllowedBeforeChange)

\* CouncilContextMiddleware, then the look-up of the token's user.
Enter(r) ==
  LET t == Token(job[r].bearer)
      opened == [note[r] EXCEPT !.began = now, !.after = {q \in Request : at[q] = "done"}]
  IN /\ at[r] = "load"
     /\ \/ /\ Is(r, Anonymous)
           /\ note' = [note EXCEPT ![r] = opened] /\ Keep(r, "view") /\ ReadOnly
        \/ /\ ~Is(r, Anonymous)
           /\ IF shown[t] = Absent \/ Gated(r) \/ ~Sees(r, User(row[t].user)).active THEN Refuse(r)
              ELSE /\ note' = [note EXCEPT ![r] = [opened EXCEPT !.ctx = row[t].council, !.user = row[t].user,
                                                                 !.copy = Sees(r, User(row[t].user))]]
                   /\ Keep(r, "view") /\ ReadOnly

Me(r) == note[r].copy

-----------------------------------------------------------------------------
(* Reads, within a council and across councils. *)

\* granted_council_ids
Granted(r) ==
  {Sees(r, g).council : g \in {h \in Rows(r, "grant") : Sees(r, h).user = note[r].user
                                                         /\ (Sees(r, h).until = 0 \/ Sees(r, h).until > now)}}

\* accessible_council_ids of a platform user.
Accessible(r) ==
  CASE Me(r).level = "GRANTED" -> Granted(r)
    [] Me(r).level = "GLOBAL"  -> ActiveCouncils(r)
    [] OTHER -> {}

Asked(r, x) == Sees(r, x).under = None /\ (Is(r, {"LIST"}) \/ x = On(r))

BillsUnder(r, x) ==
  {y \in Rows(r, "record") : Sees(r, y).under = x[2] /\ Sees(r, y).council = Sees(r, x).council}

\* What is there to be seen in councils cs: the whole list, the row, or its bills.
Due(r, cs) ==
  LET hits == {x \in Rows(r, "record") : Asked(r, x) /\ Sees(r, x).council \in cs}
  IN IF Is(r, {"DRILL"}) THEN UNION {BillsUnder(r, x) : x \in hits} ELSE hits

\* Defect: the query runs when the loop is over, in the last council's context.
ReadLater(r, c) == {x \in Scoped(r, "record", IF note[r].todo = {c} THEN c ELSE None, c) : Asked(r, x)}

\* platform_wide_queryset: one council's rows, read in its context.
ReadCouncil(r, c) == {x \in Scoped(r, "record", c, c) : Asked(r, x)}

\* _settlement_bill_rows enters the settlement's council.
DrillContext(r, c) == c

\* list, retrieve and a settlement's bills; PlatformWideListMixin for a platform user.
Read(r) ==
  LET found == note[r].ans
      c == DrillContext(r, It(r).council)
  IN /\ Is(r, {"LIST", "GET", "DRILL"})
     /\ \/ LET mine == IF Me(r).council # None THEN {Me(r).council} ELSE Accessible(r)
           IN /\ at[r] = "view"
              /\ note' = [note EXCEPT ![r].todo = mine, ![r].may = mine, ![r].owed = Due(r, mine)]
              /\ Keep(r, "scan") /\ ReadOnly
        \/ \E next \in note[r].todo :
             /\ at[r] = "scan" /\ (Me(r).level = "GLOBAL" => next = Least(note[r].todo))
             /\ note' = [note EXCEPT ![r].ctx = next, ![r].todo = @ \ {next}, ![r].ans = @ \cup ReadCouncil(r, next)]
             /\ Keep(r, "scan") /\ ReadOnly
        \/ /\ at[r] = "scan" /\ note[r].todo = {}
           /\ IF Is(r, {"LIST"}) THEN EndAs(r, "done")
              ELSE IF found = {} THEN EndAs(r, "refused")
              ELSE IF Is(r, {"GET"}) THEN EndAs(r, "done")
              ELSE Move(r, "bills") /\ ReadOnly
        \/ /\ at[r] = "bills"
           /\ note' = [note EXCEPT ![r].ctx = c, ![r].ans = BillsUnder(r, On(r)) \cap Scoped(r, "record", c, It(r).council)]
           /\ Keep(r, "commit") /\ ReadOnly

CountInPlace(r, x) == [row[x] EXCEPT !.count = @ + 1]

\* VerifyReceiptView: find_across_active_councils, then the count.
Verify(r) ==
  LET c == Least(note[r].todo)
  IN /\ Is(r, {"VERIFY"})
     /\ \/ /\ at[r] = "view"
           /\ note' = [note EXCEPT ![r].todo = ActiveCouncils(r)] /\ Keep(r, "scan") /\ ReadOnly
        \/ /\ at[r] = "scan" /\ note[r].todo # {}
           /\ LET hit == On(r) \in Scoped(r, "receipt", c, c)
              IN /\ note' = [note EXCEPT ![r].ctx = c, ![r].todo = @ \ {c}, ![r].copy = IF hit THEN It(r) ELSE @]
                 /\ Keep(r, IF hit THEN "save" ELSE "scan") /\ ReadOnly
        \/ at[r] = "scan" /\ note[r].todo = {} /\ EndAs(r, "refused")
        \/ Save(r, On(r), CountInPlace(r, On(r)), "commit")

-----------------------------------------------------------------------------
(* Councils and the map from the prefix of a bill reference to its council. *)

Drop(w) == cache' = [cache EXCEPT ![w].until = 0]

\* Defect: a map is kept until it is dropped.
ForGood == MaxTime + 1

UntilWhen == now + TTL

\* onboard_council; the signal of each insert drops the map of the worker.
OnboardCouncil(r) ==
  LET Go2(step) == Go(r, step) /\ Drop(job[r].worker) /\ UNCHANGED <<now, job>>
      council == [code |-> job[r].code, active |-> TRUE]
      config == [council |-> r, prefix |-> job[r].prefix]
  IN /\ Is(r, {"ONBOARD"})
     /\ \/ at[r] = "view" /\ Move(r, "insert") /\ ReadOnly
        \/ /\ at[r] = "insert" /\ Free(r, Rivals(r, Council(r), council))
           /\ IF Rivals(r, Council(r), council) # {} THEN Fail(r)
              ELSE Put(r, Council(r), council) /\ note' = [note EXCEPT ![r].ctx = r] /\ Go2("config")
        \/ /\ at[r] = "config" /\ Free(r, Rivals(r, Config(r), config))
           /\ IF Rivals(r, Config(r), config) # {} THEN Fail(r)
              ELSE Put(r, Config(r), config) /\ UNCHANGED note /\ Go2("trail")
        \/ Audit(r, r, note[r].ctx, "commit")

\* External: an administrator edits a council; its signal drops the map.
CloseCouncil(r) ==
  /\ Is(r, {"CLOSE"})
  /\ \/ at[r] = "view" /\ (IF There(r, On(r)) THEN Move(r, "save") /\ ReadOnly ELSE Refuse(r))
     \/ /\ at[r] = "save" /\ Free(r, {On(r)})
        /\ Put(r, On(r), [row[On(r)] EXCEPT !.active = FALSE])
        /\ Go(r, "commit") /\ Drop(job[r].worker) /\ UNCHANGED <<now, job, note>>

\* PublicBillLookupView: resolve_council_from_bill_ref by the cached map, which is
\* rebuilt council by council when there is none; then the bill, in its council.
LookUp(r) ==
  LET mine == cache[job[r].worker]
      c == Least(note[r].todo)
      owner == note[r].map[job[r].prefix]
  IN /\ Is(r, {"LOOKUP"})
     /\ \/ /\ at[r] = "view" /\ mine.until > now
           /\ note' = [note EXCEPT ![r].map = mine.map] /\ Keep(r, "identify") /\ ReadOnly
        \/ /\ at[r] = "view" /\ mine.until <= now
           /\ note' = [note EXCEPT ![r].todo = ActiveCouncils(r)] /\ Keep(r, "build") /\ ReadOnly
        \/ LET held == {Sees(r, x).prefix : x \in Scoped(r, "config", c, c)}
           IN /\ at[r] = "build" /\ note[r].todo # {}
              /\ note' = [note EXCEPT ![r].ctx = c, ![r].todo = @ \ {c},
                                      ![r].map = [p \in Prefixes |-> IF @[p] = None /\ p \in held THEN c ELSE @[p]]]
              /\ Keep(r, "build") /\ ReadOnly
        \/ /\ at[r] = "build" /\ note[r].todo = {}
           /\ cache' = [cache EXCEPT ![job[r].worker] = [until |-> UntilWhen, map |-> note[r].map]]
           /\ Go(r, "identify") /\ ReadOnly /\ UNCHANGED <<now, job, note>>
        \/ /\ at[r] = "identify"
           /\ IF owner = None \/ owner \notin ActiveCouncils(r) THEN EndAs(r, "refused")
              ELSE note' = [note EXCEPT ![r].ctx = owner, ![r].found = owner] /\ Keep(r, "read") /\ ReadOnly
        \/ /\ at[r] = "read"
           /\ EndAs(r, IF On(r) \in Scoped(r, "record", note[r].ctx, owner) THEN "done" ELSE "refused")

-----------------------------------------------------------------------------
(* A council's wards, departments and API clients. *)

Trailed(x) == IF x[1] = "client" THEN "trail" ELSE "commit"

\* perform_create of the three.
Create(r) ==
  LET x == <<On(r)[1], r>>
      code == IF On(r)[1] = "client" THEN r ELSE job[r].code
  IN /\ Is(r, {"ENTER"})
     /\ \/ at[r] = "view" /\ (IF Me(r).level = "ADMIN" THEN Move(r, "insert") /\ ReadOnly ELSE Refuse(r))
        \/ Insert(r, "insert", x, [council |-> Me(r).council, code |-> code, name |-> 0, active |-> TRUE],
                  note[r].ctx, Trailed(x))
        \/ Audit(r, Me(r).council, note[r].ctx, "commit")

Reachable(r) == On(r) \in Scoped(r, On(r)[1], note[r].ctx, Me(r).council)

\* deactivate, and revoke of an API client: a repeated call changes nothing.
SwitchOff(r) ==
  /\ Is(r, {"OFF"})
  /\ \/ /\ at[r] = "view"
        /\ IF ~Reachable(r) THEN Refuse(r)
           ELSE Move(r, IF It(r).active THEN "save" ELSE "commit") /\ ReadOnly
     \/ Save(r, On(r), [row[On(r)] EXCEPT !.active = FALSE], "trail")
     \/ Audit(r, Me(r).council, note[r].ctx, "commit")

\* PATCH of a department writes every column back as it was read.
EditDepartment(r) ==
  /\ Is(r, {"EDIT"})
  /\ \/ /\ at[r] = "view"
        /\ IF ~Reachable(r) THEN Refuse(r)
           ELSE note' = [note EXCEPT ![r].copy = It(r)] /\ Keep(r, "save") /\ ReadOnly
     \/ Save(r, On(r), [note[r].copy EXCEPT !.name = r], "commit")

-----------------------------------------------------------------------------
(* Sessions. *)

\* LoginView and AppTokenObtainPairSerializer; an audit that fails does not fail the login.
LogIn(r) ==
  LET u == On(r)[2]
      fine == It(r).active /\ It(r).password = job[r].password
  IN /\ Is(r, {"LOGIN"})
     /\ \/ at[r] = "view" /\ ~There(r, On(r)) /\ Refuse(r)
        \/ /\ at[r] = "view" /\ There(r, On(r))
           /\ note' = [note EXCEPT ![r].end = IF fine THEN "done" ELSE "refused", ![r].user = u, ![r].copy = It(r)]
           /\ Keep(r, IF fine THEN "token" ELSE "trail") /\ ReadOnly
        \/ /\ at[r] = "token"
           /\ Put(r, Token(r), [user |-> u, council |-> Me(r).council, must |-> Me(r).must]) /\ Move(r, "stamp")
        \/ /\ at[r] = "stamp" /\ Lock(r, On(r)) /\ Move(r, "trail")
        \/ /\ at[r] = "trail" /\ Me(r).council # None
           /\ Put(r, Trail(r), [council |-> Me(r).council, by |-> u])
           /\ note' = [note EXCEPT ![r].ctx = Me(r).council] /\ Keep(r, "commit")
        \/ at[r] = "trail" /\ Me(r).council = None /\ Move(r, "commit") /\ ReadOnly

\* A refresh token that was issued and is not on the blacklist.
Live(r, t) == There(r, Token(t)) /\ ~There(r, Spent(t))

\* get_or_create on the blacklist: a token that is spent meanwhile is found there.
Blacklist(r, next) ==
  LET x == Spent(job[r].token)
  IN /\ at[r] = "spend" /\ Free(r, {x})
     /\ IF row[x] = Absent THEN Put(r, x, [by |-> r]) ELSE ReadOnly
     /\ Move(r, next)

\* External: the refresh view of simplejwt rotates the token and copies its claims.
Refresh(r) ==
  LET t == job[r].token
  IN /\ Is(r, {"REFRESH"})
     /\ \/ /\ at[r] = "view"
           /\ IF Live(r, t) /\ Sees(r, User(row[Token(t)].user)).active THEN Move(r, "spend") /\ ReadOnly ELSE Refuse(r)
        \/ Blacklist(r, "token")
        \/ at[r] = "token" /\ Put(r, Token(r), row[Token(t)]) /\ Move(r, "commit")

\* LogoutView; a token that is not live is no error.
LogOut(r) ==
  LET t == job[r].token
  IN /\ Is(r, {"LOGOUT"})
     /\ \/ /\ at[r] = "view"
           /\ note' = [note EXCEPT ![r].owed = {t} \cap {x[2] : x \in Rows(r, "token")}]
           /\ Keep(r, IF Live(r, t) THEN "spend" ELSE "commit") /\ ReadOnly
        \/ Blacklist(r, "commit")

\* Defect: the sessions of the request's own token only.
OneSession(r) == {t \in {job[r].bearer} : Live(r, t)}

\* revoke_all_sessions lists what is live.
LiveSessions(r) == {x[2] : x \in {y \in Rows(r, "token") : Sees(r, y).user = note[r].user /\ Live(r, y[2])}}

\* ChangePasswordView
ChangePassword(r) ==
  LET u == User(note[r].user)
      spend == {Spent(t) : t \in note[r].ans}
      left == {x \in spend : row[x] = Absent}
  IN /\ Is(r, {"PASSWORD"})
     /\ \/ /\ at[r] = "view"
           /\ IF Me(r).password # job[r].password THEN Refuse(r)
              ELSE /\ note' = [note EXCEPT ![r].owed = {x[2] : x \in {y \in Rows(r, "token") : Sees(r, y).user = note[r].user}}]
                   /\ Keep(r, "save") /\ ReadOnly
        \/ Save(r, u, [row[u] EXCEPT !.password = r, !.must = IF Me(r).must THEN FALSE ELSE @], "list")
        \/ /\ at[r] = "list"
           /\ note' = [note EXCEPT ![r].ans = LiveSessions(r)] /\ Keep(r, "spend") /\ ReadOnly
        \/ /\ at[r] = "spend" /\ Free(r, spend)
           /\ Write(r, [x \in left |-> [by |-> r]]) /\ Move(r, "trail")
        \/ AuditUser(r, note[r].user, "commit")

\* MeView.update writes every column of the user back as it was read, and an audit row only
\* if the e-mail is another one.
UpdateProfile(r) ==
  LET u == User(note[r].user)
  IN /\ Is(r, {"PROFILE"})
     /\ \/ at[r] = "view" /\ Move(r, "save") /\ ReadOnly
        \/ \E next \in {"trail", "commit"} : Save(r, u, [Me(r) EXCEPT !.name = r], next)
        \/ AuditUser(r, note[r].user, "commit")

\* A deactivation (module People), seen from here.
Disable(r) ==
  /\ Is(r, {"DISABLE"})
  /\ \/ at[r] = "view" /\ (IF There(r, On(r)) THEN Move(r, "save") /\ ReadOnly ELSE Refuse(r))
     \/ Save(r, On(r), [row[On(r)] EXCEPT !.active = FALSE], "commit")

-----------------------------------------------------------------------------
Commit(r) ==
  /\ at[r] = "commit"
  /\ Publish(r)
  /\ note' = [note EXCEPT ![r].ended = now]
  /\ Keep(r, note[r].end)

\* A tick is longer than a request: none lasts through two of them.
Tick ==
  /\ now < MaxTime
  /\ \A r \in Request : at[r] \in {"load"} \cup Ended \/ note[r].began = now
  /\ now' = now + 1
  /\ UNCHANGED <<cache, job, at, note, row, shown, holder>>

NoNote ==
  [ctx |-> None, user |-> None, copy |-> Absent, todo |-> {}, ans |-> {}, may |-> {}, owed |-> {}, found |-> None,
   map |-> NoMap, end |-> "done", began |-> 0, ended |-> 0, after |-> {}]

Init ==
  /\ now = 1
  /\ cache = [w \in Worker |-> [until |-> 0, map |-> NoMap]]
  /\ job \in Workloads
  /\ at = [r \in Request |-> "load"]
  /\ note = [r \in Request |-> NoNote]
  /\ row = [x \in Row |-> IF x \in DOMAIN FirstRows THEN FirstRows[x] ELSE Absent]
  /\ shown = row
  /\ holder = [x \in Row |-> 0]

Work(r) ==
  \/ Enter(r) \/ Read(r) \/ Verify(r) \/ OnboardCouncil(r) \/ CloseCouncil(r) \/ LookUp(r)
  \/ Create(r) \/ SwitchOff(r) \/ EditDepartment(r)
  \/ LogIn(r) \/ Refresh(r) \/ LogOut(r) \/ ChangePassword(r) \/ UpdateProfile(r) \/ Disable(r)
  \/ Commit(r)

AllEnded == (\A r \in Request : at[r] \in Ended) /\ UNCHANGED vars

Next == (\E r \in Request : Work(r)) \/ Tick \/ AllEnded

Spec == Init /\ [][Next]_vars

-----------------------------------------------------------------------------
(* Properties. *)

\* What a user reads across councils misses no row that was there when the councils were
\* looked up, and has none of a council that was not among them, though the context moves
\* while councils are onboarded, closed and written to (PlatformWideListMixin: "FORCE
\* ROW LEVEL SECURITY ... silently yields zero rows").
CrossReadsAreWhole ==
  \A r \in Request : Is(r, {"LIST", "GET", "DRILL"}) /\ at[r] = "done" =>
    /\ note[r].owed \subseteq note[r].ans
    /\ \A x \in note[r].ans : shown[x].council \in note[r].may

\* A council appears with its config and the record of its onboarding or not at all, and
\* a login or a change of password leaves its record in the user's council: an insert
\* that row-level security refuses takes the rest with it (onboard_council, _audit_login).
ChangesComeWhole ==
  \A r \in Request :
    /\ Is(r, {"ONBOARD"}) =>
         /\ (shown[Council(r)] # Absent) = (shown[Config(r)] # Absent)
         /\ (shown[Council(r)] # Absent) = (shown[Trail(r)] # Absent)
    /\ Is(r, {"LOGIN", "PASSWORD"}) /\ at[r] = "done" =>
         LET c == shown[User(note[r].user)].council
         IN c # None => shown[Trail(r)] # Absent /\ shown[Trail(r)].council = c

\* A reference of a council that is open is not resolved to it only while the map may be
\* from before the council was committed, which ends with the life of a map, whatever
\* rebuilt it during the onboarding (_bill_ref_prefix_map, _drop_prefix_map).
MissesAreRecent ==
  \A r, q \in Request :
    /\ Is(r, {"LOOKUP"}) /\ at[r] = "refused" /\ note[r].found = None
    /\ Is(q, {"ONBOARD"}) /\ at[q] = "done" /\ job[q].prefix = job[r].prefix /\ shown[Council(q)].active
    => note[r].began <= note[q].ended + TTL

\* The refresh tokens that request q spends: the one it exchanges or hands in, or those
\* there were when it changed its user's password.
Spends(q) ==
  IF Is(q, {"REFRESH"}) THEN {job[q].token}
  ELSE IF Is(q, {"LOGOUT", "PASSWORD"}) THEN note[q].owed ELSE {}

\* A refresh token that a rotation, a logout or a change of password has spent is never
\* exchanged by a request that begins afterwards ("revoke_all_sessions ... the refresh
\* path is what this closes").
SpentStaysSpent ==
  \A r, q \in Request :
    Is(r, {"REFRESH"}) /\ at[r] = "done" /\ q \in note[r].after => job[r].token \notin Spends(q)
=============================================================================
