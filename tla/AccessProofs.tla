----------------------------- MODULE AccessProofs ------------------------------
(***************************************************************************)
(* Sessions, changes that come whole, reads across councils and references *)
(* resolved through the cached map, for any number of requests, councils,  *)
(* users, tokens and workers, and any life of a map.                       *)
(*                                                                         *)
(* A request of a user stands on rows that others may hold, so the         *)
(* invariant separates what lasts, whoever runs (a committed row of        *)
(* council, user, token or blacklist is never taken away, and a user stays *)
(* in its council), from what each request knows of itself: the rows of    *)
(* its own that it holds at each step, and for each refresh token it is to *)
(* spend, that the blacklist has it, committed or in its hands. On that    *)
(* rest an invariant of the reads (CrossInv) and one of the map (MissInv). *)
(***************************************************************************)
EXTENDS Access, TLAPS

-----------------------------------------------------------------------------
(* What the statements of Requests do to a set R of rows and to who holds them. *)

\* UPDATE and INSERT of one row.
LEMMA PutDoes ==
  ASSUME NEW R, RowsAre(R), NEW r, NEW x \in R, NEW version, Put(r, x, version)
  PROVE  /\ RowsAre(R)' /\ holder[x] \in {0, r}
         /\ row'[x] = version /\ holder'[x] = r
         /\ \A y \in R \ {x} : row'[y] = row[y] /\ holder'[y] = holder[y]
         /\ shown' = shown
  BY DEF RowsAre, Put, Free

\* UPDATE and INSERT of several rows.
LEMMA WriteDoes ==
  ASSUME NEW R, RowsAre(R), NEW r, NEW new, Write(r, new)
  PROVE  /\ RowsAre(R)' /\ \A x \in DOMAIN new : holder[x] \in {0, r}
         /\ \A x \in R : row'[x] = IF x \in DOMAIN new THEN new[x] ELSE row[x]
         /\ \A x \in R : holder'[x] = IF x \in DOMAIN new THEN r ELSE holder[x]
         /\ shown' = shown
  BY DEF RowsAre, Write, Free

\* ROLLBACK, also to a savepoint.
LEMMA UndoDoes ==
  ASSUME NEW R, RowsAre(R), NEW xs, Undo(xs)
  PROVE  /\ RowsAre(R)'
         /\ \A x \in R : row'[x] = IF x \in xs THEN shown[x] ELSE row[x]
         /\ \A x \in R : holder'[x] = IF x \in xs THEN 0 ELSE holder[x]
         /\ shown' = shown
  BY DEF RowsAre, Undo

\* COMMIT.
LEMMA PublishDoes ==
  ASSUME NEW R, RowsAre(R), NEW r, Publish(r)
  PROVE  /\ RowsAre(R)'
         /\ \A x \in R : shown'[x] = IF holder[x] = r THEN row[x] ELSE shown[x]
         /\ \A x \in R : holder'[x] = IF holder[x] = r THEN 0 ELSE holder[x]
         /\ row' = row
  BY DEF RowsAre, Publish

\* Whatever a request does to rows, one that nobody holds is as committed.
LEMMA LocksKept ==
  ASSUME NEW R, RowsAre(R), LocksHold(R), NEW r, r # 0,
         \/ \E x \in R : \E version : Put(r, x, version)
         \/ \E new : Write(r, new)
         \/ \E xs : Undo(xs)
         \/ Publish(r)
         \/ ReadOnly
  PROVE  RowsAre(R)' /\ LocksHold(R)'
  <1>1. CASE \E x \in R : \E version : Put(r, x, version)
    <2>1. PICK x \in R : \E version : Put(r, x, version) BY <1>1
    <2>2. PICK version : Put(r, x, version) BY <2>1
    <2>3. QED BY <2>2, PutDoes DEF LocksHold
  <1>2. CASE \E new : Write(r, new)
    <2>1. PICK new : Write(r, new) BY <1>2
    <2>2. QED BY <2>1, WriteDoes DEF LocksHold
  <1>3. CASE \E xs : Undo(xs)
    <2>1. PICK xs : Undo(xs) BY <1>3
    <2>2. QED BY <2>1, UndoDoes DEF LocksHold
  <1>4. CASE Publish(r)
    BY <1>4, PublishDoes DEF LocksHold
  <1>5. CASE ReadOnly
    BY <1>5 DEF ReadOnly, rows, RowsAre, LocksHold
  <1>6. QED BY <1>1, <1>2, <1>3, <1>4, <1>5

-----------------------------------------------------------------------------
(* The invariant. *)

Fields == {"ctx", "user", "copy", "todo", "ans", "may", "owed", "found", "map", "end", "began", "ended", "after"}

Base ==
  /\ job \in Workloads /\ at \in [Request -> Steps] /\ DOMAIN note = Request
  /\ \A r \in Request : DOMAIN note[r] = Fields /\ note[r].end \in {"done", "refused"}
  /\ RowsAre(Row) /\ LocksHold(Row)

Stays(x) == shown[x] # Absent => row[x] # Absent

CouncilLasts(x) ==
  row[x] \in CouncilRow \cup {Absent} /\ shown[x] \in CouncilRow \cup {Absent} /\ Stays(x)

UserLasts(x) ==
  /\ row[x] \in UserRow \cup {Absent} /\ shown[x] \in UserRow \cup {Absent} /\ Stays(x)
  /\ shown[x] # Absent => row[x].council = shown[x].council

TokenLasts(x) ==
  /\ row[x] \in TokenRow \cup {Absent}
  /\ row[x] # Absent => shown[User(row[x].user)] # Absent
  /\ shown[x] # Absent => row[x] = shown[x]

\* What is committed lasts, and belongs to whom it did.
Lasting ==
  \A i \in Id : CouncilLasts(Council(i)) /\ UserLasts(User(i)) /\ TokenLasts(Token(i)) /\ Stays(Spent(i))

Running(r) == at[r] \notin Ended
Has(r, x) == holder[x] = r /\ row[x] # Absent

OwnRows(r) == {Council(r), Config(r), Token(r), Trail(r)}

\* A request holds nothing before it looked and after it ended; the rows that bear its
\* number are nobody else's while it runs.
Own(r) ==
  /\ \A x \in Row : holder[x] = r => Running(r) /\ at[r] \notin {"load", "view"}
  /\ \A x \in OwnRows(r) :
       /\ Running(r) => shown[x] = Absent
       /\ holder[x] \in {0, r} \/ (x = Council(r) /\ shown[x] # Absent)

\* onboard_council has inserted the council, then its config, then the record.
Onboards(r) ==
  Is(r, {"ONBOARD"}) =>
    /\ at[r] \in {"load", "view", "insert"} => \A x \in {Council(r), Config(r), Trail(r)} : holder[x] # r
    /\ at[r] = "config" => Has(r, Council(r)) /\ holder[Config(r)] # r /\ holder[Trail(r)] # r /\ note[r].ctx = r
    /\ at[r] = "trail" => Has(r, Council(r)) /\ Has(r, Config(r)) /\ holder[Trail(r)] # r /\ note[r].ctx = r
    /\ at[r] = "commit" => Has(r, Council(r)) /\ Has(r, Config(r)) /\ Has(r, Trail(r))
    /\ ~Running(r) => /\ (shown[Council(r)] # Absent) = (shown[Config(r)] # Absent)
                      /\ (shown[Council(r)] # Absent) = (shown[Trail(r)] # Absent)

Gone == {"load", "refused", "failed"}

\* A request of a user knows the user, as of when it looked.
Knows(r) ==
  /\ ~Is(r, Anonymous) /\ at[r] \notin Gone => note[r].user \in Id
  /\ Is(r, {"LOGIN", "PASSWORD", "PROFILE"}) /\ at[r] \notin Gone /\ (Is(r, {"LOGIN"}) => at[r] # "view") =>
       /\ note[r].user \in Id /\ shown[User(note[r].user)] # Absent
       /\ note[r].copy \in UserRow /\ note[r].copy.council = shown[User(note[r].user)].council
       /\ Is(r, {"LOGIN"}) => note[r].user = On(r)[2]
  /\ Is(r, {"CLOSE", "DISABLE"}) /\ at[r] = "save" => shown[On(r)] # Absent

\* A login or a change of password that is about to commit has its record.
Trails(r) ==
  Is(r, {"LOGIN", "PASSWORD"}) /\ at[r] \in {"commit", "done"} /\ note[r].copy.council # None =>
    /\ at[r] = "commit" => Has(r, Trail(r)) /\ row[Trail(r)].council = note[r].copy.council
    /\ at[r] = "done" => shown[Trail(r)] # Absent /\ shown[Trail(r)].council = note[r].copy.council

\* Token t is on the blacklist, committed or in the hands of q.
Barred(q, t) == shown[Spent(t)] # Absent \/ Has(q, Spent(t))

\* Each token q is to spend was issued to its user, is listed or spent already, and is
\* barred before q commits.
Revokes(q) ==
  /\ Spends(q) \subseteq Id
  /\ Is(q, {"REFRESH"}) /\ at[q] \in {"spend", "token"} => shown[Token(job[q].token)] # Absent
  /\ Is(q, {"LOGOUT"}) /\ at[q] = "spend" => Spends(q) \subseteq {job[q].token}
  /\ Is(q, {"PASSWORD"}) /\ at[q] \in {"save", "list"} =>
       \A t \in Spends(q) : shown[Token(t)] # Absent /\ shown[Token(t)].user = note[q].user
  /\ Is(q, {"PASSWORD"}) /\ at[q] = "spend" =>
       note[q].ans \subseteq Id /\ \A t \in Spends(q) : t \in note[q].ans \/ Barred(q, t)
  /\ at[q] \in {"token", "commit"} \/ (Is(q, {"PASSWORD"}) /\ at[q] = "trail") => \A t \in Spends(q) : Barred(q, t)
  /\ at[q] = "done" => \A t \in Spends(q) : shown[Spent(t)] # Absent

\* Those that were done when r began are, and a refresh that found its token live had it
\* from none of them.
Follows(r) ==
  /\ \A q \in note[r].after : q \in Request /\ at[q] = "done"
  /\ Is(r, {"REFRESH"}) /\ at[r] \notin Gone \cup {"view"} => \A q \in note[r].after : job[r].token \notin Spends(q)

Local(r) == Own(r) /\ Onboards(r) /\ Knows(r) /\ Trails(r) /\ Revokes(r) /\ Follows(r)

AccessInv == Base /\ Lasting /\ \A r \in Request : Local(r)

-----------------------------------------------------------------------------
(* What a step of a request may do. *)

\* Rows of different tables or ids differ, and all are in Row.
LEMMA RowsApart ==
  /\ \A i \in Id : {Council(i), Config(i), User(i), Token(i), Spent(i), Trail(i)} \subseteq Row
  /\ \A r \in Request : r \in Id /\ r # 0 /\ OwnRows(r) \subseteq Row
  /\ \A x \in Row : /\ x = <<x[1], x[2]>> /\ x[1] \in Table /\ x[2] \in Id
                    /\ x[1] = "council" <=> x = Council(x[2])
                    /\ x[1] = "config" <=> x = Config(x[2])
                    /\ x[1] = "user" <=> x = User(x[2])
                    /\ x[1] = "token" <=> x = Token(x[2])
                    /\ x[1] = "spent" <=> x = Spent(x[2])
                    /\ x[1] = "trail" <=> x = Trail(x[2])
  <1>1. \A r \in Request : r \in Id /\ r # 0
    BY AccessConstants DEF Request, None
  <1>2. \A i \in Id : {Council(i), Config(i), User(i), Token(i), Spent(i), Trail(i)} \subseteq Row
    BY DEF Council, Config, User, Token, Spent, Trail, Row, Table
  <1>3. \A x \in Row : /\ x = <<x[1], x[2]>> /\ x[1] \in Table /\ x[2] \in Id
                       /\ x[1] = "council" <=> x = Council(x[2])
                       /\ x[1] = "config" <=> x = Config(x[2])
                       /\ x[1] = "user" <=> x = User(x[2])
                       /\ x[1] = "token" <=> x = Token(x[2])
                       /\ x[1] = "spent" <=> x = Spent(x[2])
                       /\ x[1] = "trail" <=> x = Trail(x[2])
    BY DEF Council, Config, User, Token, Spent, Trail, Row
  <1>4. QED BY <1>1, <1>2, <1>3 DEF OwnRows

\* The rows of one id.
LEMMA RowsOfId ==
  ASSUME NEW i, NEW j
  PROVE  /\ Council(i)[1] = "council" /\ Council(i)[2] = i /\ (Council(i) = Council(j) <=> i = j)
         /\ Config(i)[1] = "config" /\ Config(i)[2] = i /\ (Config(i) = Config(j) <=> i = j)
         /\ User(i)[1] = "user" /\ User(i)[2] = i /\ (User(i) = User(j) <=> i = j)
         /\ Token(i)[1] = "token" /\ Token(i)[2] = i /\ (Token(i) = Token(j) <=> i = j)
         /\ Spent(i)[1] = "spent" /\ Spent(i)[2] = i /\ (Spent(i) = Spent(j) <=> i = j)
         /\ Trail(i)[1] = "trail" /\ Trail(i)[2] = i /\ (Trail(i) = Trail(j) <=> i = j)
  BY DEF Council, Config, User, Token, Spent, Trail

\* A row is not Absent.
LEMMA RowsAreThere ==
  ASSUME NEW i \in Id
  PROVE  Absent \notin CouncilRow /\ Absent \notin ConfigRow /\ Absent \notin UserRow
         /\ Absent \notin TokenRow /\ Absent \notin SpentRow /\ Absent \notin TrailRow
  <1>2. \A x \in Row : Absent \notin RowType(x)
    BY AccessConstants
  <1>3. RowType(Council(i)) = CouncilRow BY DEF RowType, Council
  <1>4. RowType(Config(i)) = ConfigRow BY DEF RowType, Config
  <1>5. RowType(User(i)) = UserRow BY DEF RowType, User
  <1>6. RowType(Token(i)) = TokenRow BY DEF RowType, Token
  <1>7. RowType(Spent(i)) = SpentRow BY DEF RowType, Spent
  <1>8. RowType(Trail(i)) = TrailRow BY DEF RowType, Trail
  <1>9. {Council(i), Config(i), User(i), Token(i), Spent(i), Trail(i)} \subseteq Row BY RowsApart
  <1>10. QED BY <1>2, <1>3, <1>4, <1>5, <1>6, <1>7, <1>8, <1>9

\* What request r may write at row x.
MayWrite(r, x) ==
  /\ x[1] # "record"
  /\ x[1] = "council" => row'[x] \in CouncilRow /\ (x = Council(r) \/ (shown[x] # Absent /\ ~row'[x].active))
  /\ x[1] \in {"config", "trail"} => x[2] = r
  /\ x[1] = "config" => /\ row'[x] \in ConfigRow
                         /\ \A y \in Row \ {x} : y[1] = "config" /\ row[y] # Absent => row[y].prefix # row'[x].prefix
  /\ x[1] = "user" => row'[x] \in UserRow /\ shown[x] # Absent /\ row'[x].council = shown[x].council
  /\ x[1] = "token" => x[2] = r /\ row'[x] \in TokenRow /\ shown[User(row'[x].user)] # Absent
  /\ x[1] = "spent" => row'[x] # Absent

Kept(x) == row'[x] = row[x] /\ holder'[x] = holder[x]
Wrote(r, x) == holder[x] \in {0, r} /\ holder'[x] = r /\ MayWrite(r, x)

\* It goes on: from its look-up on it may write rows that nobody else holds.
GoesOn(r) ==
  /\ at'[r] \notin Ended \cup {"load"} /\ (at[r] = "load" <=> at'[r] = "view")
  /\ at[r] = "load" => note'[r].began = now
  /\ shown' = shown
  /\ \A x \in Row : Kept(x) \/ (Wrote(r, x) /\ at[r] \notin {"load", "view"})

Refuses(r) == at[r] \in {"load", "view"} /\ at'[r] = "refused" /\ ReadOnly /\ note'[r] = note[r]
Fails(r) ==
  /\ at'[r] = "failed" /\ Undo(HeldBy(r))
  /\ note'[r].owed = note[r].owed /\ note'[r].after = note[r].after
Commits(r) ==
  /\ at[r] = "commit" /\ at'[r] = note[r].end /\ at'[r] \in {"done", "refused"}
  /\ Publish(r) /\ note'[r].ended = now
  /\ \A f \in Fields \ {"ended"} : note'[r][f] = note[r][f]

\* Only r moves, and only its notes change; when it began is noted when it enters, and
\* when it ended when it commits.
Alone(r) ==
  /\ job' = job /\ at' \in [Request -> Steps] /\ DOMAIN note' = Request
  /\ \A q \in Request \ {r} : at'[q] = at[q] /\ note'[q] = note[q]
  /\ DOMAIN note'[r] = Fields /\ note'[r].end \in {"done", "refused"}
  /\ note'[r].began = note[r].began \/ (at[r] = "load" /\ note'[r].began = now)
  /\ note'[r].ended = note[r].ended \/ (at[r] = "commit" /\ note'[r].ended = now)

Deed(r) == Running(r) /\ Alone(r) /\ (GoesOn(r) \/ Refuses(r) \/ Fails(r) \/ Commits(r))

\* The rows after a step of r, one by one.
LEMMA RowsAfter ==
  ASSUME AccessInv, NEW r \in Request, Deed(r), RowsAre(Row)'
  PROVE  \A x \in Row :
           \/ Kept(x) /\ shown'[x] = shown[x]
           \/ Wrote(r, x) /\ shown'[x] = shown[x] /\ GoesOn(r) /\ at[r] \notin {"load", "view"}
           \/ holder[x] = r /\ holder'[x] = 0 /\ shown'[x] = shown[x] /\ row'[x] = shown[x] /\ Fails(r)
           \/ holder[x] = r /\ holder'[x] = 0 /\ shown'[x] = row[x] /\ row'[x] = row[x] /\ Commits(r)
  <1>0. RowsAre(Row) BY DEF AccessInv, Base
  <1>1. CASE GoesOn(r)
    BY <1>1 DEF GoesOn
  <1>2. CASE Refuses(r)
    BY <1>2 DEF Refuses, ReadOnly, rows, Kept
  <1>3. CASE Fails(r)
    <2>1. Undo(HeldBy(r)) BY <1>3 DEF Fails
    <2>2. \A x \in Row : x \in HeldBy(r) <=> holder[x] = r BY <1>0 DEF HeldBy, RowsAre
    <2>3. QED BY <1>0, <1>3, <2>1, <2>2, UndoDoes DEF Kept
  <1>4. CASE Commits(r)
    <2>1. Publish(r) BY <1>4 DEF Commits
    <2>2. QED BY <1>0, <1>4, <2>1, PublishDoes DEF Kept
  <1>5. QED BY <1>1, <1>2, <1>3, <1>4 DEF Deed

\* A committed row of council, user, token or blacklist stays, and a user in its council.
LEMMA LastingKept ==
  ASSUME AccessInv, NEW r \in Request, Deed(r), RowsAre(Row)'
  PROVE  Lasting'
  <1>1. SUFFICES ASSUME NEW i \in Id
                 PROVE  (CouncilLasts(Council(i)) /\ UserLasts(User(i)) /\ TokenLasts(Token(i)) /\ Stays(Spent(i)))'
    BY DEF Lasting
  <1>2. CouncilLasts(Council(i)) /\ UserLasts(User(i)) /\ TokenLasts(Token(i)) /\ Stays(Spent(i))
    BY DEF AccessInv, Lasting
  <1>3. \A j \in Id : UserLasts(User(j)) BY DEF AccessInv, Lasting
  <1>4. \A x \in {Council(i), User(i), Token(i), Spent(i)} : x \in Row BY RowsApart
  <1>5. Absent \notin CouncilRow /\ Absent \notin UserRow /\ Absent \notin TokenRow BY RowsAreThere
  <1>6. ASSUME NEW j \in Id, shown[User(j)] # Absent PROVE shown'[User(j)] # Absent
    <2>1. User(j) \in Row BY RowsApart
    <2>2. QED BY <1>3, <1>6, <2>1, RowsAfter DEF UserLasts, Stays
  <1>7. CouncilLasts(Council(i))'
    BY <1>2, <1>4, <1>5, RowsAfter, RowsOfId DEF CouncilLasts, Stays, Kept, Wrote, MayWrite
  <1>8. UserLasts(User(i))'
    <2>1. PICK x \in Row : x = User(i) /\ x[1] = "user" BY <1>4, RowsOfId
    <2>2. UserLasts(x) BY <1>2, <2>1
    <2>3. CASE Wrote(r, x) /\ shown'[x] = shown[x]
      <3>1. row'[x] \in UserRow /\ row'[x].council = shown[x].council BY <2>1, <2>3 DEF Wrote, MayWrite
      <3>2. QED BY <1>5, <2>1, <2>2, <2>3, <3>1 DEF UserLasts, Stays
    <2>4. CASE row'[x] = row[x] /\ shown'[x] = shown[x]
      BY <2>1, <2>2, <2>4 DEF UserLasts, Stays
    <2>5. CASE row'[x] = shown[x] /\ shown'[x] = shown[x]
      BY <2>1, <2>2, <2>5 DEF UserLasts, Stays
    <2>6. CASE row'[x] = row[x] /\ shown'[x] = row[x]
      BY <2>1, <2>2, <2>6 DEF UserLasts, Stays
    <2>7. QED BY <2>3, <2>4, <2>5, <2>6, RowsAfter DEF Kept
  <1>9. Stays(Spent(i))'
    BY <1>2, <1>4, RowsAfter, RowsOfId DEF Stays, Kept, Wrote, MayWrite
  <1>10. TokenLasts(Token(i))'
    <2>1. PICK x \in Row : x = Token(i) BY <1>4
    <2>2. CASE Wrote(r, x) /\ shown'[x] = shown[x] /\ GoesOn(r)
      <3>1. i = r /\ row'[x] \in TokenRow /\ shown[User(row'[x].user)] # Absent
        BY <2>1, <2>2, RowsOfId DEF Wrote, MayWrite
      <3>2. shown[x] = Absent
        BY <2>1, <3>1 DEF AccessInv, Local, Own, OwnRows, Deed
      <3>3. row'[x].user \in Id BY <3>1 DEF TokenRow
      <3>4. QED BY <1>6, <2>1, <2>2, <3>1, <3>2, <3>3 DEF TokenLasts
    <2>3. CASE row'[x] = row[x] /\ shown'[x] \in {row[x], shown[x]}
      <3>1. row[x] # Absent => row[x].user \in Id
        BY <1>2, <2>1 DEF TokenLasts, TokenRow
      <3>2. QED BY <1>2, <1>6, <2>1, <2>3, <3>1 DEF TokenLasts
    <2>4. CASE holder[x] = r /\ row'[x] = shown[x] /\ shown'[x] = shown[x]
      <3>1. CASE shown[x] = Absent BY <2>1, <2>4, <3>1 DEF TokenLasts
      <3>2. CASE shown[x] # Absent
        <4>1. row'[x] = row[x] BY <1>2, <2>1, <2>4, <3>2 DEF TokenLasts
        <4>2. QED BY <2>3, <2>4, <4>1
      <3>3. QED BY <3>1, <3>2
    <2>5. QED BY <2>1, <2>2, <2>3, <2>4, RowsAfter DEF Kept
  <1>11. QED BY <1>7, <1>8, <1>9, <1>10

\* Nothing changes for a request that does not move.
LEMMA OthersKept ==
  ASSUME AccessInv, NEW r \in Request, Deed(r), RowsAre(Row)', NEW q \in Request, q # r
  PROVE  Local(q)'
  <1>1. Local(q) /\ at'[q] = at[q] /\ note'[q] = note[q] /\ job' = job
    BY DEF AccessInv, Deed, Alone
  <1>2. ASSUME NEW x \in Row
        PROVE  /\ holder'[x] = q <=> holder[x] = q
               /\ holder[x] = q => row'[x] = row[x] /\ shown'[x] = shown[x]
    <2>1. q # 0 BY RowsApart
    <2>2. \/ holder'[x] = holder[x] /\ row'[x] = row[x] /\ shown'[x] = shown[x]
          \/ holder[x] \in {0, r} /\ holder'[x] \in {0, r}
      BY RowsAfter DEF Kept, Wrote
    <2>3. QED BY <2>1, <2>2
  <1>3. q \in Id /\ q # 0 /\ OwnRows(q) \subseteq Row BY RowsApart
  \* Its own rows.
  <1>4. ASSUME NEW x \in OwnRows(q)
        PROVE  /\ shown[x] = Absent => shown'[x] = Absent
               /\ holder'[x] \in {0, q} \/ (x = Council(q) /\ shown'[x] # Absent)
               /\ x # Council(q) => shown'[x] = shown[x] \/ holder[x] = q
               /\ shown[x] # Absent /\ x = Council(q) => shown'[x] # Absent
    <2>1. x \in Row /\ (holder[x] \in {0, q} \/ (x = Council(q) /\ shown[x] # Absent))
      BY <1>1, <1>3 DEF Local, Own
    <2>2. x = Council(q) /\ shown[x] # Absent => row[x] # Absent
      BY <1>3 DEF AccessInv, Lasting, CouncilLasts, Stays
    <2>3. Wrote(r, x) => x = Council(q) /\ shown[x] # Absent
      BY <1>3, RowsOfId DEF Wrote, MayWrite, OwnRows
    <2>4. QED BY <2>1, <2>2, <2>3, RowsAfter, RowsApart DEF Kept
  <1>5. Own(q)'
    <2>1. ASSUME NEW x \in Row, holder'[x] = q PROVE Running(q)' /\ at'[q] \notin {"load", "view"}
      BY <1>1, <1>2, <2>1 DEF Local, Own, Running
    <2>2. ASSUME NEW x \in OwnRows(q), Running(q)' PROVE shown'[x] = Absent
      BY <1>1, <1>4, <2>2 DEF Local, Own, Running
    <2>3. QED BY <1>4, <2>1, <2>2 DEF Own, OwnRows, Running, Council, Config, Token, Trail
  <1>6. Onboards(q)'
    <2>1. {Council(q), Config(q), Trail(q)} \subseteq Row \cap OwnRows(q)
      BY <1>3 DEF OwnRows
    <2>2. Config(q) # Council(q) /\ Trail(q) # Council(q)
      BY DEF Config, Council, Trail
    <2>3. ~Running(q) => \A x \in Row : holder[x] # q BY <1>1 DEF Local, Own
    <2>4. ~Running(q) => /\ shown'[Config(q)] = shown[Config(q)] /\ shown'[Trail(q)] = shown[Trail(q)]
                         /\ (shown'[Council(q)] # Absent) = (shown[Council(q)] # Absent)
      BY <1>4, <2>1, <2>2, <2>3
    <2>5. \A x \in {Council(q), Config(q), Trail(q)} :
            (holder'[x] = q <=> holder[x] = q) /\ (holder[x] = q => row'[x] = row[x])
      BY <1>2, <2>1
    <2>6. Onboards(q) BY <1>1 DEF Local
    <2>7. QED BY <1>1, <2>4, <2>5, <2>6 DEF Onboards, Is, Has, Running, Council, Config, Trail
  \* What it knows of users and of the blacklist.
  <1>7. ASSUME NEW i \in Id
        PROVE  /\ shown[User(i)] # Absent => shown'[User(i)] # Absent /\ shown'[User(i)].council = shown[User(i)].council
               /\ shown[Council(i)] # Absent => shown'[Council(i)] # Absent
               /\ shown[Token(i)] # Absent => shown'[Token(i)] = shown[Token(i)]
               /\ shown[Spent(i)] # Absent => shown'[Spent(i)] # Absent
               /\ Has(q, Spent(i)) => Has(q, Spent(i))'
    <2>1. UserLasts(User(i)) /\ CouncilLasts(Council(i)) /\ TokenLasts(Token(i)) /\ Stays(Spent(i))
      BY DEF AccessInv, Lasting
    <2>2. {Council(i), User(i), Token(i), Spent(i)} \subseteq Row BY RowsApart
    <2>3. \A x \in {Council(i), User(i), Token(i), Spent(i)} : shown'[x] = shown[x] \/ shown'[x] = row[x]
      BY <2>2, RowsAfter
    <2>4. QED BY <1>2, <2>1, <2>2, <2>3 DEF UserLasts, CouncilLasts, TokenLasts, Stays, Has
  <1>8. Knows(q)'
    <2>1. Knows(q) BY <1>1 DEF Local
    <2>2. Is(q, {"CLOSE", "DISABLE"}) => \E i \in Id : On(q) \in {Council(i), User(i)}
      <3>1. job[q].on \in TablesOf(job[q].kind) \X Id BY AccessConstants DEF AccessInv, Base, Request
      <3>2. Is(q, {"CLOSE", "DISABLE"}) => TablesOf(job[q].kind) \subseteq {"council", "user"}
        BY DEF Is, TablesOf
      <3>3. QED BY <3>1, <3>2 DEF On, Council, User
    <2>3. On(q)' = On(q) /\ \A kinds : Is(q, kinds)' = Is(q, kinds) BY <1>1 DEF On, Is
    <2>4. Is(q, {"CLOSE", "DISABLE"}) /\ shown[On(q)] # Absent => shown'[On(q)] # Absent
      BY <1>7, <2>2
    <2>5. \A i \in Id : User(i)' = User(i) BY DEF User
    <2>6. QED BY <1>1, <1>7, <2>1, <2>3, <2>4, <2>5 DEF Knows
  <1>9. Trails(q)'
    <2>1. Trails(q) /\ Trail(q) \in Row /\ Trail(q) \in OwnRows(q) /\ Trail(q) # Council(q)
      BY <1>1, <1>3 DEF Local, OwnRows, Trail, Council
    <2>2. Has(q, Trail(q)) => Has(q, Trail(q))' /\ row'[Trail(q)] = row[Trail(q)]
      BY <1>2, <2>1 DEF Has, Trail
    <2>3. at[q] = "done" => shown'[Trail(q)] = shown[Trail(q)]
      BY <1>1, <1>4, <2>1 DEF Local, Own, Running, Ended
    <2>4. Trail(q)' = Trail(q) /\ \A kinds : Is(q, kinds)' = Is(q, kinds) BY <1>1 DEF Trail, Is
    <2>5. QED BY <1>1, <2>1, <2>2, <2>3, <2>4 DEF Trails
  <1>10. Revokes(q)'
    <2>1. Revokes(q) /\ Spends(q)' = Spends(q) BY <1>1 DEF Local, Spends, Is
    <2>2. \A t \in Spends(q) : t \in Id /\ (Barred(q, t) => Barred(q, t)')
      BY <1>7, <2>1 DEF Barred, Revokes, Spent
    <2>3. job[q].token \in Id BY AccessConstants DEF AccessInv, Base, Request
    <2>4. \A kinds : Is(q, kinds)' = Is(q, kinds) BY <1>1 DEF Is
    <2>5. \A t \in Id : Token(t)' = Token(t) /\ Spent(t)' = Spent(t) BY DEF Token, Spent
    <2>6. QED BY <1>1, <1>7, <2>1, <2>2, <2>3, <2>4, <2>5 DEF Revokes
  <1>11. Follows(q)'
    <2>1. \A p \in note[q].after : p \in Request /\ at[p] = "done" BY <1>1 DEF Local, Follows
    <2>2. \A p \in note[q].after : p # r BY <2>1 DEF Deed, Running, Ended
    <2>3. \A p \in note[q].after : at'[p] = at[p] /\ Spends(p)' = Spends(p)
      BY <2>1, <2>2 DEF Deed, Alone, Spends, Is
    <2>4. QED BY <1>1, <2>1, <2>3 DEF Local, Follows, Is
  <1>12. QED BY <1>5, <1>6, <1>8, <1>9, <1>10, <1>11 DEF Local

\* A request that goes on holds what it held and what it wrote.
LEMMA OwnKept ==
  ASSUME AccessInv, NEW r \in Request, Deed(r), RowsAre(Row)'
  PROVE  Own(r)'
  <1>1. Own(r) /\ Running(r) BY DEF AccessInv, Local, Deed
  <1>2. r \in Id /\ r # 0 /\ OwnRows(r) \subseteq Row BY RowsApart
  <1>3. OwnRows(r)' = OwnRows(r) BY DEF OwnRows, Council, Config, Token, Trail
  <1>4. ASSUME NEW x \in Row, holder'[x] = r
        PROVE  Running(r)' /\ at'[r] \notin {"load", "view"}
    <2>1. CASE GoesOn(r)
      BY <1>1, <1>4, <2>1 DEF GoesOn, Own, Running, Kept
    <2>2. CASE ~GoesOn(r)
      <3>1. Refuses(r) => at[r] \in {"load", "view"} /\ holder' = holder BY DEF Refuses, ReadOnly, rows
      <3>2. holder[x] = r => ~Refuses(r) BY <1>1, <3>1 DEF Own
      <3>3. (Kept(x) /\ shown'[x] = shown[x]) \/ holder'[x] = 0 BY <2>2, RowsAfter
      <3>4. holder[x] = r BY <1>2, <1>4, <3>3 DEF Kept
      <3>5. Fails(r) \/ Commits(r) BY <2>2, <3>2, <3>4 DEF Deed
      <3>6. holder'[x] = 0
        <4>1. RowsAre(Row) BY DEF AccessInv, Base
        <4>2. CASE Fails(r)
          <5>1. Undo(HeldBy(r)) /\ x \in HeldBy(r) BY <3>4, <4>1, <4>2 DEF Fails, HeldBy, RowsAre
          <5>2. QED BY <4>1, <5>1, UndoDoes
        <4>3. CASE Commits(r) BY <3>4, <4>1, <4>3, PublishDoes DEF Commits
        <4>4. QED BY <3>5, <4>2, <4>3
      <3>7. QED BY <1>2, <1>4, <3>6
    <2>3. QED BY <2>1, <2>2
  <1>5. ASSUME NEW x \in OwnRows(r)
        PROVE  /\ Running(r)' => shown'[x] = Absent
               /\ holder'[x] \in {0, r} \/ (x = Council(r) /\ shown'[x] # Absent)
    <2>1. shown[x] = Absent /\ holder[x] \in {0, r} BY <1>1, <1>5 DEF Own
    <2>2. Running(r)' => shown' = shown
      BY DEF Deed, GoesOn, Refuses, Fails, Commits, Running, Ended
    <2>3. holder'[x] \in {0, r} BY <1>2, <2>1, RowsAfter DEF Kept, Wrote
    <2>4. QED BY <2>1, <2>2, <2>3
  <1>6. QED BY <1>3, <1>4, <1>5 DEF Own, OwnRows, Council

\* A request that is refused or fails has nothing to show for it.
LEMMA NothingDone ==
  ASSUME AccessInv, NEW r \in Request, Running(r), Alone(r), RowsAre(Row)', Refuses(r) \/ Fails(r)
  PROVE  Onboards(r)' /\ Knows(r)' /\ Trails(r)' /\ Revokes(r)' /\ Follows(r)'
  <1>1. at'[r] \in {"refused", "failed"} /\ shown' = shown
        /\ note'[r].owed = note[r].owed /\ note'[r].after = note[r].after /\ job' = job
    <2>1. CASE Refuses(r) BY <2>1 DEF Refuses, ReadOnly, rows, Alone
    <2>2. CASE Fails(r) BY <2>2 DEF Fails, Undo, Alone
    <2>3. QED BY <2>1, <2>2
  <1>2. \A x \in OwnRows(r) : shown[x] = Absent BY DEF AccessInv, Local, Own
  <1>3. \A kinds : Is(r, kinds)' = Is(r, kinds) BY <1>1 DEF Is
  <1>4. Onboards(r)'
    BY <1>1, <1>2 DEF Onboards, OwnRows, Running, Ended, Is, Council, Config, Trail
  <1>5. Knows(r)' BY <1>1 DEF Knows, Gone
  <1>6. Trails(r)' BY <1>1 DEF Trails
  <1>7. Spends(r)' = Spends(r) BY <1>1 DEF Spends, Is
  <1>8. Revokes(r)'
    <2>1. Revokes(r) BY DEF AccessInv, Local
    <2>2. QED BY <1>1, <1>7, <2>1 DEF Revokes
  <1>9. Follows(r)'
    <2>1. \A q \in note[r].after : q \in Request /\ at[q] = "done" BY DEF AccessInv, Local, Follows
    <2>2. \A q \in note[r].after : at'[q] = "done" BY <2>1 DEF Alone, Running, Ended
    <2>3. QED BY <1>1, <2>1, <2>2 DEF Follows, Gone
  <1>10. QED BY <1>4, <1>5, <1>6, <1>8, <1>9

\* What a request had in its hands is committed with it.
LEMMA CommitKeeps ==
  ASSUME AccessInv, NEW r \in Request, Running(r), Alone(r), RowsAre(Row)', Commits(r)
  PROVE  Onboards(r)' /\ Knows(r)' /\ Trails(r)' /\ Revokes(r)' /\ Follows(r)'
  <1>1. at[r] = "commit" /\ at'[r] \in {"done", "refused"} /\ job' = job
        /\ \A f \in Fields \ {"ended"} : note'[r][f] = note[r][f]
    BY DEF Commits, Alone
  <1>2. /\ note'[r].owed = note[r].owed /\ note'[r].after = note[r].after /\ note'[r].user = note[r].user
        /\ note'[r].copy = note[r].copy
    BY <1>1 DEF Fields
  <1>3. Local(r) BY DEF AccessInv
  <1>4. \A x \in Row : shown'[x] = IF holder[x] = r THEN row[x] ELSE shown[x]
    BY PublishDoes DEF AccessInv, Base, Commits
  <1>5. r \in Id /\ OwnRows(r) \subseteq Row BY RowsApart
  <1>6. Onboards(r)'
    <2>1. {Council(r), Config(r), Trail(r)} \subseteq Row BY <1>5 DEF OwnRows
    <2>2. Is(r, {"ONBOARD"}) => \A x \in {Council(r), Config(r), Trail(r)} : shown'[x] # Absent
      BY <1>1, <1>3, <1>4, <2>1 DEF Local, Onboards, Has
    <2>3. QED BY <1>1, <2>2 DEF Onboards, Is, Running, Ended, Council, Config, Trail
  <1>7. ASSUME NEW i \in Id
        PROVE  /\ shown[User(i)] # Absent => shown'[User(i)] # Absent /\ shown'[User(i)].council = shown[User(i)].council
               /\ Barred(r, i) => shown'[Spent(i)] # Absent
    <2>1. UserLasts(User(i)) /\ Stays(Spent(i)) /\ {User(i), Spent(i)} \subseteq Row
      BY RowsApart DEF AccessInv, Lasting
    <2>2. QED BY <1>4, <2>1 DEF UserLasts, Stays, Barred, Has
  <1>8. Knows(r)'
    <2>1. Knows(r) BY <1>3 DEF Local
    <2>2. On(r)' = On(r) /\ \A kinds : Is(r, kinds)' = Is(r, kinds) BY <1>1 DEF On, Is
    <2>3. \A i \in Id : User(i)' = User(i) BY DEF User
    <2>4. QED BY <1>1, <1>2, <1>7, <2>1, <2>2, <2>3 DEF Knows, Gone
  <1>9. Trails(r)'
    <2>1. Trails(r) /\ Trail(r) \in Row BY <1>3, <1>5 DEF Local, OwnRows
    <2>2. QED BY <1>1, <1>2, <1>4, <2>1 DEF Trails, Has, Is, Trail
  <1>10. Revokes(r)'
    <2>1. Revokes(r) /\ Spends(r)' = Spends(r) BY <1>1, <1>2, <1>3 DEF Local, Spends, Is
    <2>2. \A t \in Spends(r) : t \in Id /\ Barred(r, t) BY <1>1, <2>1 DEF Revokes
    <2>3. \A t \in Id : Spent(t)' = Spent(t) BY DEF Spent
    <2>4. QED BY <1>1, <1>7, <2>1, <2>2, <2>3 DEF Revokes
  <1>11. Follows(r)'
    <2>1. Follows(r) BY <1>3 DEF Local
    <2>2. \A q \in note[r].after : q \in Request /\ at'[q] = "done" /\ Spends(q)' = Spends(q)
      BY <2>1 DEF Follows, Alone, Running, Ended, Spends, Is
    <2>3. QED BY <1>1, <1>2, <2>1, <2>2 DEF Follows, Gone, Is
  <1>12. QED BY <1>6, <1>8, <1>9, <1>10, <1>11

-----------------------------------------------------------------------------
(* The parts of a step. *)

\* What a request says of itself.
Tells(r) == Onboards(r) /\ Knows(r) /\ Trails(r) /\ Revokes(r) /\ Follows(r)

Steady(r) == Deed(r) /\ RowsAre(Row)' /\ LocksHold(Row)' /\ Tells(r)'

\* A deed after which the request tells the truth of itself keeps the invariant.
LEMMA SteadyKeeps ==
  ASSUME AccessInv, NEW r \in Request, Steady(r)
  PROVE  AccessInv'
  <1>1. Base'
    <2>1. job \in Workloads /\ job' = job /\ at' \in [Request -> Steps] /\ DOMAIN note' = Request
      BY DEF AccessInv, Base, Steady, Deed, Alone
    <2>2. \A q \in Request : DOMAIN note'[q] = Fields /\ note'[q].end \in {"done", "refused"}
      BY DEF AccessInv, Base, Steady, Deed, Alone
    <2>3. QED BY <2>1, <2>2 DEF Base, Steady, Request, Steps, Ended, Fields
  <1>2. Lasting' BY LastingKept DEF Steady
  <1>3. \A q \in Request : Local(q)' BY OthersKept, OwnKept DEF Steady, Tells, Local
  <1>4. QED BY <1>1, <1>2, <1>3 DEF AccessInv, Request

\* The notes of others stay, and those of r but for the fields fs.
Notes(r, fs) ==
  /\ DOMAIN note' = Request /\ \A q \in Request \ {r} : note'[q] = note[q]
  /\ DOMAIN note'[r] = Fields /\ \A f \in Fields \ fs : note'[r][f] = note[r][f]

\* Request r is where it goes to; others are where they were.
LEMMA Moves ==
  ASSUME Base, NEW r \in Request, NEW step \in Steps, Go(r, step), UNCHANGED job,
         NEW fs, Notes(r, fs), "end" \notin fs \/ note'[r].end \in {"done", "refused"},
         "began" \notin fs \/ (at[r] = "load" /\ note'[r].began = now), "ended" \notin fs \/ (at[r] = "commit" /\ note'[r].ended = now)
  PROVE  Alone(r) /\ at'[r] = step
  <1>1. at \in [Request -> Steps] /\ at' = [at EXCEPT ![r] = step] /\ "end" \in Fields
    BY DEF Base, Go, Fields
  <1>2. note'[r].end \in {"done", "refused"} BY <1>1 DEF Base, Notes
  <1>3. {"began", "ended"} \subseteq Fields BY DEF Fields
  <1>4. QED BY <1>1, <1>2, <1>3 DEF Alone, Notes

\* What a request finds refused or failed changes nothing of what it tells.
LEMMA RefusesSteady ==
  ASSUME AccessInv, NEW r \in Request, at[r] \in {"load", "view"}, Refuse(r)
  PROVE  Steady(r)
  <1>1. Base /\ RowsAre(Row) /\ LocksHold(Row) BY DEF AccessInv, Base
  <1>2. Go(r, "refused") /\ UNCHANGED <<job, note>> /\ ReadOnly BY DEF Refuse, Move, Keep
  <1>3. Notes(r, {}) BY <1>1, <1>2 DEF Base, Notes
  <1>4. Alone(r) /\ at'[r] = "refused" BY <1>1, <1>2, <1>3, Moves DEF Steps, Ended
  <1>5. Running(r) /\ Refuses(r) BY <1>2, <1>4 DEF Running, Refuses, Ended
  <1>6. RowsAre(Row)' /\ LocksHold(Row)' BY <1>1, <1>2, RowsApart, LocksKept
  <1>7. QED BY <1>4, <1>5, <1>6, NothingDone DEF Steady, Deed, Tells

\* The same of an error.
LEMMA FailsSteady ==
  ASSUME AccessInv, NEW r \in Request, Running(r), Fail(r)
  PROVE  Steady(r)
  <1>1. Base /\ RowsAre(Row) /\ LocksHold(Row) BY DEF AccessInv, Base
  <1>2. /\ Go(r, "failed") /\ UNCHANGED job /\ Undo(HeldBy(r))
        /\ note' = [note EXCEPT ![r].ctx = None]
    BY DEF Fail, Keep
  <1>3. Notes(r, {"ctx"}) BY <1>1, <1>2 DEF Base, Notes
  <1>4. Alone(r) /\ at'[r] = "failed" BY <1>1, <1>2, <1>3, Moves DEF Steps, Ended
  <1>5. Fails(r) BY <1>2, <1>3, <1>4 DEF Fails, Notes, Fields
  <1>6. RowsAre(Row)' /\ LocksHold(Row)' BY <1>1, <1>2, RowsApart, LocksKept
  <1>7. QED BY <1>4, <1>5, <1>6, NothingDone DEF Steady, Deed, Tells

\* The commit of any request.
LEMMA CommitsSteady ==
  ASSUME AccessInv, NEW r \in Request, Commit(r)
  PROVE  Steady(r)
  <1>1. Base /\ RowsAre(Row) /\ LocksHold(Row) BY DEF AccessInv, Base
  <1>2. /\ Go(r, note[r].end) /\ UNCHANGED job /\ Publish(r) /\ at[r] = "commit"
        /\ note' = [note EXCEPT ![r].ended = now]
    BY DEF Commit, Keep
  <1>3. Notes(r, {"ended"}) /\ note'[r].ended = now BY <1>1, <1>2 DEF Base, Notes, Fields
  <1>4. note[r].end \in {"done", "refused"} BY <1>1 DEF Base
  <1>5. Alone(r) /\ at'[r] = note[r].end BY <1>1, <1>2, <1>3, <1>4, Moves DEF Steps, Ended
  <1>6. Commits(r) /\ Running(r) BY <1>2, <1>3, <1>4, <1>5 DEF Commits, Notes, Running, Ended
  <1>7. RowsAre(Row)' /\ LocksHold(Row)' BY <1>1, <1>2, RowsApart, LocksKept
  <1>8. QED BY <1>5, <1>6, <1>7, CommitKeeps DEF Steady, Deed, Tells

\* A request goes on after it only read.
LEMMA ReadsOn ==
  ASSUME AccessInv, NEW r \in Request, Running(r), ReadOnly, Alone(r), at[r] = "load" => note'[r].began = now,
         at'[r] \notin Ended \cup {"load"}, at[r] = "load" <=> at'[r] = "view"
  PROVE  Deed(r) /\ GoesOn(r) /\ RowsAre(Row)' /\ LocksHold(Row)'
  <1>1. RowsAre(Row) /\ LocksHold(Row) BY DEF AccessInv, Base
  <1>2. RowsAre(Row)' /\ LocksHold(Row)' BY <1>1, RowsApart, LocksKept
  <1>3. GoesOn(r) BY DEF GoesOn, Kept, ReadOnly, rows
  <1>4. QED BY <1>2, <1>3 DEF Deed

\* A request goes on after it wrote a row that it may write.
LEMMA WritesOn ==
  ASSUME AccessInv, NEW r \in Request, Running(r), at[r] \notin {"load", "view"}, Alone(r),
         NEW x \in Row, NEW new, Put(r, x, new), row'[x] = new => MayWrite(r, x),
         at'[r] \notin Ended \cup {"load", "view"}
  PROVE  /\ Deed(r) /\ GoesOn(r) /\ RowsAre(Row)' /\ LocksHold(Row)'
         /\ row'[x] = new /\ holder'[x] = r /\ shown' = shown
         /\ \A y \in Row \ {x} : row'[y] = row[y] /\ holder'[y] = holder[y]
  <1>1. RowsAre(Row) /\ LocksHold(Row) BY DEF AccessInv, Base
  <1>2. /\ RowsAre(Row)' /\ holder[x] \in {0, r} /\ row'[x] = new /\ holder'[x] = r /\ shown' = shown
        /\ \A y \in Row \ {x} : row'[y] = row[y] /\ holder'[y] = holder[y]
    BY <1>1, PutDoes
  <1>3. LocksHold(Row)' BY <1>1, RowsApart, LocksKept
  <1>4. GoesOn(r)
    <2>1. \A y \in Row \ {x} : Kept(y) BY <1>2 DEF Kept
    <2>2. Wrote(r, x) BY <1>2 DEF Wrote
    <2>3. QED BY <1>2, <2>1, <2>2 DEF GoesOn
  <1>5. QED BY <1>2, <1>3, <1>4 DEF Deed

-----------------------------------------------------------------------------
(* The requests. *)

\* What a job may be.
LEMMA JobsAreGood ==
  ASSUME Base, NEW r \in Request
  PROVE  /\ job[r].kind \in Kinds /\ On(r) \in TablesOf(job[r].kind) \X Id /\ On(r) \in Row
         /\ job[r].bearer \in Id /\ job[r].token \in Id
         /\ job[r].code \in Nat /\ job[r].prefix \in Prefixes /\ job[r].password \in Nat
  <1>1. /\ job[r].kind \in Kinds /\ job[r].on \in TablesOf(job[r].kind) \X Id
        /\ job[r].bearer \in Id /\ job[r].token \in Id
        /\ job[r].code \in Nat /\ job[r].prefix \in Prefixes /\ job[r].password \in Nat
    BY AccessConstants DEF Base, Request
  <1>2. TablesOf(job[r].kind) \subseteq Table BY DEF TablesOf, Table
  <1>3. QED BY <1>1, <1>2 DEF On, Row

\* Before it has written anything a request sees what is committed.
LEMMA SeesCommitted ==
  ASSUME AccessInv, NEW r \in Request, at[r] \in {"load", "view"}, NEW x \in Row
  PROVE  Sees(r, x) = shown[x] /\ (There(r, x) <=> shown[x] # Absent)
  BY DEF AccessInv, Local, Own, Sees, There

\* CouncilContextMiddleware and the look-up of the token's user.
LEMMA EnterSteady ==
  ASSUME AccessInv, NEW r \in Request, Enter(r)
  PROVE  Steady(r)
  <1> DEFINE t == Token(job[r].bearer)
             since == {q \in Request : at[q] = "done"}
  <1>1. /\ Base /\ at[r] = "load" /\ Running(r) /\ Local(r)
        /\ job[r].bearer \in Id /\ t \in Row
    BY JobsAreGood, RowsApart DEF AccessInv, Base, Enter, Running, Ended
  <1>2. CASE Is(r, Anonymous) /\ note' = [note EXCEPT ![r] = [note[r] EXCEPT !.began = now, !.after = since]]
             /\ Keep(r, "view") /\ ReadOnly
    <2>1. Notes(r, {"began", "after"}) /\ note'[r].after = since /\ note'[r].began = now
      BY <1>1, <1>2 DEF Base, Notes, Fields
    <2>2. Alone(r) /\ at'[r] = "view" BY <1>1, <1>2, <2>1, Moves DEF Keep, Steps
    <2>3. Deed(r) /\ RowsAre(Row)' /\ LocksHold(Row)' /\ job' = job
      BY <1>1, <1>2, <2>1, <2>2, ReadsOn DEF Ended, Alone
    <2>4. Spends(r)' \subseteq Id
      <3>1. Revokes(r) /\ note'[r].owed = note[r].owed BY <1>1, <2>1 DEF Local, Notes, Fields
      <3>2. QED BY <2>3, <3>1 DEF Revokes, Spends, Is
    <2>5. \A kinds : Is(r, kinds)' = Is(r, kinds) BY <2>3 DEF Is
    <2>6. Onboards(r)' BY <1>2, <2>2, <2>5 DEF Onboards, Is, Anonymous
    <2>7. Knows(r)' BY <1>2, <2>2, <2>5 DEF Knows, Is, Anonymous
    <2>8. Trails(r)' /\ Revokes(r)' BY <1>2, <2>2, <2>4, <2>5 DEF Trails, Revokes, Is, Anonymous
    <2>9. Follows(r)'
      <3>1. \A q \in since : q \in Request /\ at'[q] = "done" BY <1>1, <2>2 DEF Alone
      <3>2. QED BY <2>1, <2>2, <3>1 DEF Follows
    <2>10. QED BY <2>3, <2>6, <2>7, <2>8, <2>9 DEF Steady, Tells
  <1>3. CASE Refuse(r) BY <1>1, <1>3, RefusesSteady
  <1>4. CASE /\ ~Is(r, Anonymous) /\ shown[t] # Absent
             /\ note' = [note EXCEPT ![r] = [note[r] EXCEPT !.began = now, !.after = since, !.ctx = row[t].council,
                                                            !.user = row[t].user, !.copy = Sees(r, User(row[t].user))]]
             /\ Keep(r, "view") /\ ReadOnly
    <2>1. /\ Notes(r, {"began", "after", "ctx", "user", "copy"}) /\ note'[r].after = since
          /\ note'[r].user = row[t].user /\ note'[r].copy = Sees(r, User(row[t].user)) /\ note'[r].began = now
      BY <1>1, <1>4 DEF Base, Notes, Fields
    <2>2. Alone(r) /\ at'[r] = "view" BY <1>1, <1>4, <2>1, Moves DEF Keep, Steps
    <2>3. Deed(r) /\ RowsAre(Row)' /\ LocksHold(Row)' /\ job' = job /\ shown' = shown /\ holder' = holder
      BY <1>1, <1>4, <2>1, <2>2, ReadsOn DEF Ended, Alone, ReadOnly, rows
    <2>4. Spends(r)' \subseteq Id
      <3>1. Revokes(r) /\ note'[r].owed = note[r].owed BY <1>1, <2>1 DEF Local, Notes, Fields
      <3>2. QED BY <2>3, <3>1 DEF Revokes, Spends, Is
    <2>5. \A kinds : Is(r, kinds)' = Is(r, kinds) BY <2>3 DEF Is
    <2>6. /\ row[t].user \in Id /\ shown[User(row[t].user)] # Absent
          /\ note'[r].copy = shown[User(row[t].user)] /\ shown[User(row[t].user)] \in UserRow
      <3>1. TokenLasts(t) BY <1>1 DEF AccessInv, Lasting
      <3>2. row[t] \in TokenRow /\ shown[User(row[t].user)] # Absent
        BY <1>1, <1>4, <3>1, RowsAreThere DEF TokenLasts
      <3>3. row[t].user \in Id BY <3>2 DEF TokenRow
      <3>4. User(row[t].user) \in Row /\ UserLasts(User(row[t].user))
        BY <3>3, RowsApart DEF AccessInv, Lasting
      <3>5. QED BY <1>1, <2>1, <3>2, <3>3, <3>4, SeesCommitted DEF UserLasts
    <2>7. Onboards(r)'
      <3>1. \A x \in {Council(r), Config(r), Trail(r)} : x \in Row BY RowsApart DEF OwnRows
      <3>2. \A x \in Row : holder[x] # r BY <1>1 DEF Local, Own
      <3>3. QED BY <2>2, <2>3, <3>1, <3>2 DEF Onboards, Running, Ended, Council, Config, Trail
    <2>8. Knows(r)' BY <1>4, <2>1, <2>2, <2>3, <2>5, <2>6 DEF Knows, User
    <2>9. Trails(r)' /\ Revokes(r)' BY <2>2, <2>4 DEF Trails, Revokes
    <2>10. Follows(r)'
      <3>1. \A q \in since : q \in Request /\ at'[q] = "done" BY <1>1, <2>2 DEF Alone
      <3>2. QED BY <2>1, <2>2, <3>1 DEF Follows
    <2>11. QED BY <2>3, <2>7, <2>8, <2>9, <2>10 DEF Steady, Tells
  <1>5. QED BY <1>2, <1>3, <1>4 DEF Enter

Plain == {"LIST", "GET", "DRILL", "VERIFY", "LOOKUP", "ENTER", "OFF", "EDIT"}

\* A request that neither onboards nor has to do with sessions has nothing to tell.
LEMMA PlainSteady ==
  ASSUME AccessInv, NEW r \in Request, Is(r, Plain), at[r] \notin Gone, NEW fs,
         Notes(r, fs), fs \cap {"user", "after"} = {},
         Deed(r), RowsAre(Row)', LocksHold(Row)', GoesOn(r)
  PROVE  Steady(r)
  <1>1. /\ Local(r) /\ job' = job /\ note'[r].user = note[r].user /\ note'[r].after = note[r].after
        /\ at'[r] \notin Ended
    BY DEF AccessInv, Deed, Alone, Notes, Fields, GoesOn
  <1>2. \A kinds : Is(r, kinds)' = Is(r, kinds) BY <1>1 DEF Is
  <1>3. Onboards(r)' /\ Trails(r)' /\ Revokes(r)'
    BY <1>1, <1>2 DEF Onboards, Trails, Revokes, Spends, Is, Plain, Ended
  <1>4. Knows(r)' BY <1>1, <1>2 DEF Local, Knows, Is, Plain
  <1>5. Follows(r)'
    <2>1. Follows(r) BY <1>1 DEF Local
    <2>2. \A q \in note[r].after : q \in Request /\ at'[q] = "done"
      BY <2>1 DEF Follows, Deed, Alone, Running, Ended
    <2>3. QED BY <1>1, <1>2, <2>2 DEF Follows, Is, Plain
  <1>6. QED BY <1>3, <1>4, <1>5 DEF Steady, Tells

\* What a request notes once.
Lived == {"user", "after", "began", "ended"}

\* It goes on after it read.
LEMMA PlainReads ==
  ASSUME AccessInv, NEW r \in Request, Is(r, Plain), at[r] \notin Gone \cup Ended,
         NEW step \in Steps, step \notin Ended \cup {"load", "view"}, Go(r, step), UNCHANGED job, ReadOnly,
         NEW fs, Notes(r, fs), fs \cap Lived = {},
         "end" \notin fs \/ note'[r].end \in {"done", "refused"}
  PROVE  Steady(r)
  <1>1. Base BY DEF AccessInv
  <1>2. Alone(r) /\ at'[r] = step BY <1>1, Moves DEF Lived
  <1>3. Running(r) /\ at[r] # "load" BY DEF Running, Gone
  <1>4. Deed(r) /\ GoesOn(r) /\ RowsAre(Row)' /\ LocksHold(Row)' BY <1>2, <1>3, ReadsOn
  <1>5. QED BY <1>4, PlainSteady DEF Lived

\* It goes on after it wrote a row that is none of council, user, token and blacklist.
LEMMA PlainWrites ==
  ASSUME AccessInv, NEW r \in Request, Is(r, Plain), at[r] \notin Gone \cup Ended \cup {"view"},
         NEW step \in Steps, step \notin Ended \cup {"load", "view"}, Go(r, step), UNCHANGED job,
         NEW x \in Row, NEW new, Put(r, x, new),
         x[1] \in {"receipt", "area", "client"} \/ x = Trail(r),
         NEW fs, Notes(r, fs), fs \cap Lived = {}, "end" \notin fs
  PROVE  Steady(r)
  <1>1. Base BY DEF AccessInv
  <1>2. Alone(r) /\ at'[r] = step BY <1>1, Moves DEF Lived
  <1>3. Running(r) /\ at[r] # "load" BY DEF Running, Gone
  <1>4. MayWrite(r, x) BY RowsOfId DEF MayWrite
  <1>5. Deed(r) /\ GoesOn(r) /\ RowsAre(Row)' /\ LocksHold(Row)' BY <1>2, <1>3, <1>4, WritesOn
  <1>6. QED BY <1>5, PlainSteady DEF Lived

\* The end of a request that only read or was refused late.
LEMMA EndsSteady ==
  ASSUME AccessInv, NEW r \in Request, Is(r, Plain), at[r] \notin Gone \cup Ended,
         NEW end \in {"done", "refused"}, EndAs(r, end)
  PROVE  Steady(r)
  <1>1. /\ Go(r, "commit") /\ UNCHANGED job /\ ReadOnly /\ note' = [note EXCEPT ![r].end = end]
    BY DEF EndAs, Keep
  <1>2. Notes(r, {"end"}) /\ note'[r].end = end BY <1>1 DEF AccessInv, Base, Notes, Fields
  <1>3. "commit" \in Steps /\ "commit" \notin Ended \cup {"load", "view"} BY DEF Steps, Ended
  <1>4. QED BY <1>1, <1>2, <1>3, PlainReads DEF Lived

\* A look-up of a plain request: it notes something and goes on.
LEMMA PlainNotes ==
  ASSUME AccessInv, NEW r \in Request, Is(r, Plain), at[r] \notin Gone \cup Ended,
         NEW step \in Steps, step \notin Ended \cup {"load", "view"}, Keep(r, step), ReadOnly,
         NEW fs \in SUBSET {"todo", "may", "owed", "ctx", "ans", "copy", "map", "found"}, Notes(r, fs)
  PROVE  Steady(r)
  BY PlainReads DEF Keep, Lived

\* Lists, rows and the bills of a settlement.
LEMMA ReadSteady ==
  ASSUME AccessInv, NEW r \in Request, Read(r)
  PROVE  Steady(r)
  <1> DEFINE c == DrillContext(r, It(r).council)
             mine == IF Me(r).council # None THEN {Me(r).council} ELSE Accessible(r)
             bills == BillsUnder(r, On(r)) \cap Scoped(r, "record", c, It(r).council)
  <1> HIDE DEF c, mine, bills
  <1>1. Base /\ Is(r, Plain) /\ at[r] \notin Gone \cup Ended BY DEF AccessInv, Read, Is, Plain, Gone, Ended
  <1>2. \A step \in {"scan", "bills", "commit"} : step \in Steps /\ step \notin Ended \cup {"load", "view"}
    BY DEF Steps, Ended
  <1>3. ASSUME note' = [note EXCEPT ![r].todo = mine, ![r].may = mine, ![r].owed = Due(r, mine)],
               Keep(r, "scan"), ReadOnly
        PROVE  Steady(r)
    <2>1. Notes(r, {"todo", "may", "owed"}) BY <1>1, <1>3 DEF Base, Notes, Fields
    <2>2. QED BY <1>1, <1>2, <1>3, <2>1, PlainNotes
  <1>4. ASSUME NEW next, Keep(r, "scan"), ReadOnly,
               note' = [note EXCEPT ![r].ctx = next, ![r].todo = @ \ {next}, ![r].ans = @ \cup ReadCouncil(r, next)]
        PROVE  Steady(r)
    <2>1. Notes(r, {"ctx", "todo", "ans"}) BY <1>1, <1>4 DEF Base, Notes, Fields
    <2>2. QED BY <1>1, <1>2, <1>4, <2>1, PlainNotes
  <1>5. ASSUME note' = [note EXCEPT ![r].ctx = c, ![r].ans = bills], Keep(r, "commit"), ReadOnly
        PROVE  Steady(r)
    <2>1. Notes(r, {"ctx", "ans"}) BY <1>1, <1>5 DEF Base, Notes, Fields
    <2>2. QED BY <1>1, <1>2, <1>5, <2>1, PlainNotes
  <1>6. ASSUME Move(r, "bills"), ReadOnly PROVE Steady(r)
    <2>1. Notes(r, {}) /\ Keep(r, "bills") BY <1>1, <1>6 DEF Base, Notes, Move
    <2>2. QED BY <1>1, <1>2, <1>6, <2>1, PlainNotes
  <1>7. ASSUME NEW end \in {"done", "refused"}, EndAs(r, end) PROVE Steady(r)
    BY <1>1, <1>7, EndsSteady
  <1>8. QED BY <1>3, <1>4, <1>5, <1>6, <1>7, Zenon DEF Read, c, mine, bills

Early == {"load", "view"}

\* A write of a plain request, its notes but for the context as they were.
LEMMA PlainPuts ==
  ASSUME AccessInv, NEW r \in Request, Is(r, Plain), at[r] \notin Gone \cup Ended \cup Early,
         NEW step \in {"save", "commit", "trail"}, Keep(r, step), Notes(r, {"ctx"}),
         NEW x \in Row, NEW new, Put(r, x, new),
         x[1] \in {"receipt", "area", "client"} \/ x = Trail(r)
  PROVE  Steady(r)
  <1>1. step \in Steps /\ step \notin Ended \cup {"load", "view"} BY DEF Steps, Ended
  <1>2. QED BY <1>1, PlainWrites DEF Keep, Early, Lived

\* The audit of a plain request.
LEMMA PlainAudits ==
  ASSUME AccessInv, NEW r \in Request, Is(r, Plain), NEW c, Audit(r, c, note[r].ctx, "commit")
  PROVE  Steady(r)
  <1>1. at[r] = "trail" /\ at[r] \notin Gone \cup Ended \cup Early BY DEF Audit, Gone, Ended, Early
  <1>2. Running(r) BY <1>1 DEF Running
  <1>3. CASE Fail(r) BY <1>2, <1>3, FailsSteady
  <1>4. ASSUME NEW new, Put(r, Trail(r), new), Move(r, "commit") PROVE Steady(r)
    <2>1. Notes(r, {"ctx"}) /\ Keep(r, "commit") BY <1>4 DEF AccessInv, Base, Notes, Move
    <2>2. Trail(r) \in Row BY RowsApart
    <2>3. QED BY <1>1, <1>4, <2>1, <2>2, PlainPuts
  <1>5. QED BY <1>3, <1>4, Zenon DEF Audit

\* Receipts.
LEMMA VerifySteady ==
  ASSUME AccessInv, NEW r \in Request, Verify(r)
  PROVE  Steady(r)
  <1> DEFINE c == Least(note[r].todo)
             hit == On(r) \in Scoped(r, "receipt", c, c)
             new == CountInPlace(r, On(r))
  <1> HIDE DEF c, hit, new
  <1>1. Base /\ Is(r, Plain) /\ Is(r, {"VERIFY"}) /\ at[r] \notin Gone \cup Ended
    BY DEF AccessInv, Verify, Is, Plain, Gone, Ended, Save
  <1>2. \A step \in {"scan", "save", "commit"} : step \in Steps /\ step \notin Ended \cup {"load", "view"}
    BY DEF Steps, Ended
  <1>3. ASSUME NEW todo, note' = [note EXCEPT ![r].todo = todo], Keep(r, "scan"), ReadOnly
        PROVE  Steady(r)
    <2>1. Notes(r, {"todo"}) BY <1>1, <1>3 DEF Base, Notes, Fields
    <2>2. QED BY <1>1, <1>2, <1>3, <2>1, PlainNotes
  <1>4. ASSUME NEW copies, note' = [note EXCEPT ![r].ctx = c, ![r].todo = @ \ {c}, ![r].copy = copies],
               NEW step \in {"scan", "save"}, Keep(r, step), ReadOnly
        PROVE  Steady(r)
    <2>1. Notes(r, {"ctx", "todo", "copy"}) BY <1>1, <1>4 DEF Base, Notes, Fields
    <2>2. QED BY <1>1, <1>2, <1>4, <2>1, PlainNotes
  <1>5. ASSUME EndAs(r, "refused") PROVE Steady(r)
    BY <1>1, <1>5, EndsSteady
  <1>6. ASSUME Save(r, On(r), new, "commit") PROVE Steady(r)
    <2>1. Put(r, On(r), new) /\ Move(r, "commit") /\ at[r] = "save" BY <1>6 DEF Save
    <2>2. Notes(r, {"ctx"}) /\ Keep(r, "commit") BY <1>1, <2>1 DEF Base, Notes, Move
    <2>3. On(r) \in Row /\ On(r)[1] = "receipt"
      <3>1. On(r) \in TablesOf(job[r].kind) \X Id /\ On(r) \in Row BY <1>1, JobsAreGood
      <3>2. TablesOf(job[r].kind) = {"receipt"} BY <1>1 DEF TablesOf, Is
      <3>3. QED BY <3>1, <3>2
    <2>4. QED BY <1>1, <2>1, <2>2, <2>3, PlainPuts DEF Early
  <1>7. QED BY <1>3, <1>4, <1>5, <1>6, Zenon DEF Verify, c, hit, new

\* References of bills.
LEMMA LookUpSteady ==
  ASSUME AccessInv, NEW r \in Request, LookUp(r)
  PROVE  Steady(r)
  <1> DEFINE mine == cache[job[r].worker]
             c == Least(note[r].todo)
             owner == note[r].map[job[r].prefix]
             held == {Sees(r, x).prefix : x \in Scoped(r, "config", c, c)}
  <1> HIDE DEF mine, c, owner, held
  <1>1. Base /\ Is(r, Plain) /\ at[r] \notin Gone \cup Ended
    BY DEF AccessInv, LookUp, Is, Plain, Gone, Ended
  <1>2. \A step \in {"identify", "build", "read"} : step \in Steps /\ step \notin Ended \cup {"load", "view"}
    BY DEF Steps, Ended
  <1>3. ASSUME note' = [note EXCEPT ![r].map = mine.map], Keep(r, "identify"), ReadOnly PROVE Steady(r)
    <2>1. Notes(r, {"map"}) BY <1>1, <1>3 DEF Base, Notes, Fields
    <2>2. QED BY <1>1, <1>2, <1>3, <2>1, PlainNotes
  <1>4. ASSUME NEW todo, note' = [note EXCEPT ![r].todo = todo], Keep(r, "build"), ReadOnly PROVE Steady(r)
    <2>1. Notes(r, {"todo"}) BY <1>1, <1>4 DEF Base, Notes, Fields
    <2>2. QED BY <1>1, <1>2, <1>4, <2>1, PlainNotes
  <1>5. ASSUME note' = [note EXCEPT ![r].ctx = c, ![r].todo = @ \ {c},
                                    ![r].map = [p \in Prefixes |-> IF @[p] = None /\ p \in held THEN c ELSE @[p]]],
               Keep(r, "build"), ReadOnly
        PROVE  Steady(r)
    <2>1. Notes(r, {"ctx", "todo", "map"}) BY <1>1, <1>5 DEF Base, Notes, Fields
    <2>2. QED BY <1>1, <1>2, <1>5, <2>1, PlainNotes
  <1>6. ASSUME Go(r, "identify"), ReadOnly, UNCHANGED <<now, job, note>> PROVE Steady(r)
    <2>1. Notes(r, {}) BY <1>1, <1>6 DEF Base, Notes
    <2>2. QED BY <1>1, <1>2, <1>6, <2>1, PlainReads DEF Lived
  <1>7. ASSUME note' = [note EXCEPT ![r].ctx = owner, ![r].found = owner], Keep(r, "read"), ReadOnly PROVE Steady(r)
    <2>1. Notes(r, {"ctx", "found"}) BY <1>1, <1>7 DEF Base, Notes, Fields
    <2>2. QED BY <1>1, <1>2, <1>7, <2>1, PlainNotes
  <1>8. ASSUME NEW end \in {"done", "refused"}, EndAs(r, end) PROVE Steady(r)
    BY <1>1, <1>8, EndsSteady
  <1>9. QED BY <1>3, <1>4, <1>5, <1>6, <1>7, <1>8, Zenon DEF LookUp, mine, c, owner, held

\* A step of a plain request that notes nothing and only reads.
LEMMA PlainGoes ==
  ASSUME AccessInv, NEW r \in Request, Is(r, Plain), at[r] \notin Gone \cup Ended,
         NEW step \in {"insert", "save", "commit", "trail"}, Move(r, step), ReadOnly
  PROVE  Steady(r)
  <1>1. step \in Steps /\ step \notin Ended \cup {"load", "view"} BY DEF Steps, Ended
  <1>2. Notes(r, {}) BY DEF AccessInv, Base, Notes, Move
  <1>3. QED BY <1>1, <1>2, PlainNotes DEF Move

\* Wards, departments and clients that are entered.
LEMMA CreateSteady ==
  ASSUME AccessInv, NEW r \in Request, Create(r)
  PROVE  Steady(r)
  <1> DEFINE x == <<On(r)[1], r>>
             code == IF On(r)[1] = "client" THEN r ELSE job[r].code
             new == [council |-> Me(r).council, code |-> code, name |-> 0, active |-> TRUE]
  <1> HIDE DEF new
  <1>1. Base /\ Is(r, Plain) /\ Is(r, {"ENTER"}) /\ at[r] \notin Gone \cup Ended
    BY DEF AccessInv, Create, Is, Plain, Gone, Ended, Insert, Audit
  <1>2. x \in Row /\ x[1] \in {"area", "client"}
    <2>1. On(r) \in TablesOf(job[r].kind) \X Id BY <1>1, JobsAreGood
    <2>2. TablesOf(job[r].kind) = {"area", "client"} BY <1>1 DEF TablesOf, Is
    <2>3. QED BY <2>1, <2>2, RowsApart DEF Row, Table
  <1>3. ASSUME at[r] = "view", IF Me(r).level = "ADMIN" THEN Move(r, "insert") /\ ReadOnly ELSE Refuse(r)
        PROVE  Steady(r)
    BY <1>1, <1>3, RefusesSteady, PlainGoes
  <1>4. ASSUME Insert(r, "insert", x, new, note[r].ctx, Trailed(x)) PROVE Steady(r)
    <2>1. at[r] = "insert" /\ Running(r) BY <1>4 DEF Insert, Running, Ended
    <2>2. ASSUME Put(r, x, new), note' = [note EXCEPT ![r].ctx = note[r].ctx], Keep(r, Trailed(x)) PROVE Steady(r)
      <3>1. Notes(r, {"ctx"}) BY <1>1, <2>2 DEF Base, Notes, Fields
      <3>2. Trailed(x) \in {"trail", "commit"} BY DEF Trailed
      <3>3. QED BY <1>1, <1>2, <2>1, <2>2, <3>1, <3>2, PlainPuts DEF Early
    <2>3. CASE Fail(r) BY <2>1, <2>3, FailsSteady
    <2>4. QED BY <1>4, <2>2, <2>3, Zenon DEF Insert
  <1>5. ASSUME Audit(r, Me(r).council, note[r].ctx, "commit") PROVE Steady(r)
    BY <1>1, <1>5, PlainAudits
  <1>6. QED BY <1>3, <1>4, <1>5, Zenon DEF Create, new

\* What is switched off.
LEMMA SwitchOffSteady ==
  ASSUME AccessInv, NEW r \in Request, SwitchOff(r)
  PROVE  Steady(r)
  <1> DEFINE new == [row[On(r)] EXCEPT !.active = FALSE]
  <1> HIDE DEF new
  <1>1. Base /\ Is(r, Plain) /\ Is(r, {"OFF"}) /\ at[r] \notin Gone \cup Ended
    BY DEF AccessInv, SwitchOff, Is, Plain, Gone, Ended, Save, Audit
  <1>2. On(r) \in Row /\ On(r)[1] \in {"area", "client"}
    <2>1. On(r) \in TablesOf(job[r].kind) \X Id /\ On(r) \in Row BY <1>1, JobsAreGood
    <2>2. TablesOf(job[r].kind) = {"area", "client"} BY <1>1 DEF TablesOf, Is
    <2>3. QED BY <2>1, <2>2
  <1>3. ASSUME at[r] = "view", Refuse(r) PROVE Steady(r)
    BY <1>3, RefusesSteady
  <1>4. ASSUME Move(r, IF It(r).active THEN "save" ELSE "commit"), ReadOnly PROVE Steady(r)
    BY <1>1, <1>4, PlainGoes
  <1>5. ASSUME Save(r, On(r), new, "trail") PROVE Steady(r)
    <2>1. Put(r, On(r), new) /\ Move(r, "trail") /\ at[r] = "save" BY <1>5 DEF Save
    <2>2. Notes(r, {"ctx"}) /\ Keep(r, "trail") BY <1>1, <2>1 DEF Base, Notes, Move
    <2>3. QED BY <1>1, <1>2, <2>1, <2>2, PlainPuts DEF Early
  <1>6. ASSUME Audit(r, Me(r).council, note[r].ctx, "commit") PROVE Steady(r)
    BY <1>1, <1>6, PlainAudits
  <1>7. QED BY <1>3, <1>4, <1>5, <1>6, Zenon DEF SwitchOff, new

\* A department that is edited.
LEMMA EditSteady ==
  ASSUME AccessInv, NEW r \in Request, EditDepartment(r)
  PROVE  Steady(r)
  <1> DEFINE new == [note[r].copy EXCEPT !.name = r]
  <1> HIDE DEF new
  <1>1. Base /\ Is(r, Plain) /\ Is(r, {"EDIT"}) /\ at[r] \notin Gone \cup Ended
    BY DEF AccessInv, EditDepartment, Is, Plain, Gone, Ended, Save
  <1>2. On(r) \in Row /\ On(r)[1] = "area"
    <2>1. On(r) \in TablesOf(job[r].kind) \X Id /\ On(r) \in Row BY <1>1, JobsAreGood
    <2>2. TablesOf(job[r].kind) = {"area"} BY <1>1 DEF TablesOf, Is
    <2>3. QED BY <2>1, <2>2
  <1>3. ASSUME at[r] = "view", Refuse(r) PROVE Steady(r)
    BY <1>3, RefusesSteady
  <1>4. ASSUME note' = [note EXCEPT ![r].copy = It(r)], Keep(r, "save"), ReadOnly PROVE Steady(r)
    <2>1. Notes(r, {"copy"}) BY <1>1, <1>4 DEF Base, Notes, Fields
    <2>2. "save" \in Steps /\ "save" \notin Ended \cup {"load", "view"} BY DEF Steps, Ended
    <2>3. QED BY <1>1, <1>4, <2>1, <2>2, PlainNotes
  <1>5. ASSUME Save(r, On(r), new, "commit") PROVE Steady(r)
    <2>1. Put(r, On(r), new) /\ Move(r, "commit") /\ at[r] = "save" BY <1>5 DEF Save
    <2>2. Notes(r, {"ctx"}) /\ Keep(r, "commit") BY <1>1, <2>1 DEF Base, Notes, Move
    <2>3. QED BY <1>1, <1>2, <2>1, <2>2, PlainPuts DEF Early
  <1>6. QED BY <1>3, <1>4, <1>5, Zenon DEF EditDepartment, new

-----------------------------------------------------------------------------
(* Onboarding, and requests that have to do with sessions. *)

\* What a step of a request that goes on leaves true of what it tells.
LEMMA ToldOn ==
  ASSUME AccessInv, NEW r \in Request, at[r] \notin Gone, NEW fs, Notes(r, fs), fs \cap {"user", "after"} = {},
         Deed(r), GoesOn(r)
  PROVE  /\ at[r] # "view" \/ ~Is(r, {"REFRESH"}) => Follows(r)'
         /\ ~Is(r, {"ONBOARD"}) => Onboards(r)'
         /\ /\ "copy" \notin fs
            /\ at[r] = "view" => ~Is(r, {"LOGIN"})
            /\ Is(r, {"CLOSE", "DISABLE"}) /\ at'[r] = "save" => shown[On(r)] # Absent
            => Knows(r)'
         /\ ~Is(r, {"LOGIN", "PASSWORD"}) => Trails(r)'
         /\ ~Is(r, {"REFRESH", "LOGOUT", "PASSWORD"}) => Revokes(r)'
  <1>1. /\ Local(r) /\ job' = job /\ note'[r].user = note[r].user /\ note'[r].after = note[r].after
        /\ at'[r] \notin Ended /\ shown' = shown
    BY DEF AccessInv, Deed, Alone, Notes, Fields, GoesOn
  <1>2. \A kinds : Is(r, kinds)' = Is(r, kinds) BY <1>1 DEF Is
  <1>3. ~Is(r, {"ONBOARD"}) => Onboards(r)' BY <1>2 DEF Onboards
  <1>4. ~Is(r, {"LOGIN", "PASSWORD"}) => Trails(r)' BY <1>2 DEF Trails
  <1>5. ~Is(r, {"REFRESH", "LOGOUT", "PASSWORD"}) => Revokes(r)'
    BY <1>1, <1>2 DEF Revokes, Spends, Is, Ended
  <1>6. ASSUME "copy" \notin fs, at[r] = "view" => ~Is(r, {"LOGIN"}),
               Is(r, {"CLOSE", "DISABLE"}) /\ at'[r] = "save" => shown[On(r)] # Absent
        PROVE  Knows(r)'
    <2>1. Knows(r) /\ note'[r].copy = note[r].copy BY <1>1, <1>6 DEF Local, Notes, Fields
    <2>2. On(r)' = On(r) BY <1>1 DEF On
    <2>3. User(note[r].user)' = User(note'[r].user) BY DEF User
    <2>4. QED BY <1>1, <1>2, <1>6, <2>1, <2>2, <2>3 DEF Knows, User
  <1>7. ASSUME at[r] # "view" \/ ~Is(r, {"REFRESH"}) PROVE Follows(r)'
    <2>1. Follows(r) BY <1>1 DEF Local
    <2>2. \A q \in note[r].after : q \in Request /\ at'[q] = "done" /\ Spends(q)' = Spends(q)
      BY <2>1 DEF Follows, Deed, Alone, Running, Ended, Spends, Is
    <2>3. QED BY <1>1, <1>2, <1>7, <2>1, <2>2 DEF Follows
  <1>8. QED BY <1>3, <1>4, <1>5, <1>6, <1>7

\* Where a request goes on to.
Later == Steps \ (Ended \cup {"load", "view"})

\* A look-up of a request.
LEMMA LooksOn ==
  ASSUME AccessInv, NEW r \in Request, at[r] \notin Gone \cup Ended,
         NEW step \in Later, Go(r, step), UNCHANGED job, ReadOnly,
         NEW fs, Notes(r, fs), fs \cap {"began", "ended"} = {},
         "end" \notin fs \/ note'[r].end \in {"done", "refused"}
  PROVE  /\ Deed(r) /\ GoesOn(r) /\ RowsAre(Row)' /\ LocksHold(Row)' /\ at'[r] = step
         /\ job' = job /\ row' = row /\ holder' = holder /\ shown' = shown
  <1>1. Base BY DEF AccessInv
  <1>2. Alone(r) /\ at'[r] = step /\ step \notin Ended \cup {"load", "view"} BY <1>1, Moves DEF Later
  <1>3. Running(r) /\ at[r] # "load" BY DEF Running, Gone
  <1>4. QED BY <1>2, <1>3, ReadsOn DEF ReadOnly, rows

\* A write of a request.
LEMMA PutsOn ==
  ASSUME AccessInv, NEW r \in Request, at[r] \notin Gone \cup Ended \cup {"view"},
         NEW step \in Later, Go(r, step), UNCHANGED job,
         NEW fs, Notes(r, fs), fs \cap {"began", "ended", "end"} = {},
         NEW x \in Row, NEW new, Put(r, x, new), row'[x] = new => MayWrite(r, x)
  PROVE  /\ Deed(r) /\ GoesOn(r) /\ RowsAre(Row)' /\ LocksHold(Row)' /\ at'[r] = step
         /\ job' = job /\ shown' = shown /\ row'[x] = new /\ holder'[x] = r
         /\ \A y \in Row \ {x} : row'[y] = row[y] /\ holder'[y] = holder[y]
  <1>1. Base BY DEF AccessInv
  <1>2. Alone(r) /\ at'[r] = step /\ step \notin Ended \cup {"load", "view"} BY <1>1, Moves DEF Later
  <1>3. Running(r) /\ at[r] # "load" BY DEF Running, Gone
  <1>4. QED BY <1>2, <1>3, WritesOn

\* The steps that requests go on to.
LEMMA LaterSteps ==
  /\ {"insert", "config", "save", "token", "stamp", "list", "spend", "trail", "commit"} \subseteq Later
  /\ \A s \in {"insert", "config", "save", "token", "stamp", "list", "spend", "trail", "commit"} :
       s \notin Gone \cup Ended \cup {"view"}
  /\ "view" \notin Gone \cup Ended
  BY DEF Later, Steps, Ended, Gone

\* Councils that are onboarded.
LEMMA OnboardSteady ==
  ASSUME AccessInv, NEW r \in Request, OnboardCouncil(r)
  PROVE  Steady(r)
  <1> DEFINE council == [code |-> job[r].code, active |-> TRUE]
             config == [council |-> r, prefix |-> job[r].prefix]
             trail == [council |-> r, by |-> note[r].user]
  <1> HIDE DEF council, config, trail
  <1>1. /\ Base /\ Is(r, {"ONBOARD"}) /\ Local(r) /\ r \in Id
        /\ at[r] \in {"view", "insert", "config", "trail"} /\ at[r] \notin Gone \cup Ended
    BY RowsApart, LaterSteps DEF AccessInv, OnboardCouncil, Audit
  <1>2. ~Is(r, {"LOGIN", "PASSWORD"}) /\ ~Is(r, {"REFRESH", "LOGOUT", "PASSWORD"}) /\ ~Is(r, {"LOGIN"})
        /\ ~Is(r, {"CLOSE", "DISABLE"}) /\ ~Is(r, {"REFRESH"}) /\ ~Is(r, Anonymous)
    BY <1>1 DEF Is, Anonymous
  <1>3. Running(r) /\ {Council(r), Config(r), Trail(r)} \subseteq Row
        /\ Council(r) # Config(r) /\ Council(r) # Trail(r) /\ Config(r) # Trail(r)
    BY <1>1, RowsApart DEF Running, Council, Config, Trail
  <1>4. /\ council \in CouncilRow /\ config \in ConfigRow
        /\ council # Absent /\ config # Absent /\ trail # Absent
    <2>1. job[r].code \in Nat /\ job[r].prefix \in Prefixes BY <1>1, JobsAreGood
    <2>2. note[r].user \in IdOrNone BY <1>1, <1>2, LaterSteps DEF Local, Knows, IdOrNone
    <2>3. council \in CouncilRow /\ config \in ConfigRow /\ trail \in TrailRow
      BY <1>1, <2>1, <2>2 DEF council, config, trail, CouncilRow, ConfigRow, TrailRow
    <2>4. QED BY <1>1, <2>3, RowsAreThere
  <1>5. ASSUME NEW fs, Notes(r, fs), fs \cap {"user", "after", "copy"} = {}, Deed(r), GoesOn(r),
               RowsAre(Row)', LocksHold(Row)', Onboards(r)'
        PROVE  Steady(r)
    <2>1. at[r] \notin Gone BY <1>1
    <2>2. QED BY <1>2, <1>5, <2>1, ToldOn DEF Steady, Tells
  <1>6. Is(r, {"ONBOARD"})' = Is(r, {"ONBOARD"}) /\ Council(r)' = Council(r) /\ Config(r)' = Config(r) /\ Trail(r)' = Trail(r)
    <2>1. job' = job BY DEF OnboardCouncil, Move, Keep, Fail, Audit
    <2>2. QED BY <2>1 DEF Is, Council, Config, Trail
  <1>7. ASSUME at[r] = "view", Move(r, "insert"), ReadOnly PROVE Steady(r)
    <2>1. Notes(r, {}) BY <1>1, <1>7 DEF Base, Notes, Move
    <2>2. Deed(r) /\ GoesOn(r) /\ RowsAre(Row)' /\ LocksHold(Row)' /\ at'[r] = "insert" /\ holder' = holder
      BY <1>1, <1>7, <2>1, LooksOn, LaterSteps DEF Move, Keep
    <2>3. Onboards(r)' BY <1>1, <1>6, <1>7, <2>2 DEF Local, Onboards, Running, Ended
    <2>4. QED BY <1>5, <2>1, <2>2, <2>3
  <1>8. ASSUME at[r] = "insert", Put(r, Council(r), council), note' = [note EXCEPT ![r].ctx = r],
               Go(r, "config"), UNCHANGED job
        PROVE  Steady(r)
    <2>1. Notes(r, {"ctx"}) /\ note'[r].ctx = r BY <1>1, <1>8 DEF Base, Notes, Fields
    <2>2. row'[Council(r)] = council => MayWrite(r, Council(r)) BY <1>4, RowsOfId DEF MayWrite
    <2>3. /\ Deed(r) /\ GoesOn(r) /\ RowsAre(Row)' /\ LocksHold(Row)' /\ at'[r] = "config"
          /\ row'[Council(r)] = council /\ holder'[Council(r)] = r
          /\ \A y \in Row \ {Council(r)} : row'[y] = row[y] /\ holder'[y] = holder[y]
      BY <1>1, <1>3, <1>8, <2>1, <2>2, PutsOn, LaterSteps
    <2>4. Onboards(r)' BY <1>1, <1>3, <1>4, <1>6, <1>8, <2>1, <2>3 DEF Local, Onboards, Running, Ended, Has
    <2>5. QED BY <1>5, <2>1, <2>3, <2>4
  <1>9. ASSUME at[r] = "config", Rivals(r, Config(r), config) = {}, Put(r, Config(r), config), UNCHANGED note,
               Go(r, "trail"), UNCHANGED job
        PROVE  Steady(r)
    <2>1. Notes(r, {}) BY <1>1, <1>9 DEF Base, Notes
    <2>2. row'[Config(r)] = config => MayWrite(r, Config(r))
      <3>1. \A y \in Row \ {Config(r)} : y[1] = "config" /\ row[y] # Absent => row[y].prefix # config.prefix
        <4>1. \A y \in Row \ {Config(r)} : y[1] = "config" /\ row[y] # Absent => ~Clash("config", config, row[y])
          BY <1>9, RowsOfId DEF Rivals
        <4>2. QED BY <4>1 DEF Clash
      <3>2. QED BY <1>4, <3>1, RowsOfId DEF MayWrite
    <2>3. /\ Deed(r) /\ GoesOn(r) /\ RowsAre(Row)' /\ LocksHold(Row)' /\ at'[r] = "trail"
          /\ row'[Config(r)] = config /\ holder'[Config(r)] = r
          /\ \A y \in Row \ {Config(r)} : row'[y] = row[y] /\ holder'[y] = holder[y]
      BY <1>1, <1>3, <1>9, <2>1, <2>2, PutsOn, LaterSteps
    <2>4. Onboards(r)' BY <1>1, <1>3, <1>4, <1>6, <1>9, <2>3 DEF Local, Onboards, Running, Ended, Has
    <2>5. QED BY <1>5, <2>1, <2>3, <2>4
  <1>10. ASSUME at[r] = "trail", Put(r, Trail(r), trail), Move(r, "commit") PROVE Steady(r)
    <2>1. Notes(r, {}) BY <1>1, <1>10 DEF Base, Notes, Move
    <2>2. row'[Trail(r)] = trail => MayWrite(r, Trail(r)) BY <1>4, RowsOfId DEF MayWrite
    <2>3. /\ Deed(r) /\ GoesOn(r) /\ RowsAre(Row)' /\ LocksHold(Row)' /\ at'[r] = "commit"
          /\ row'[Trail(r)] = trail /\ holder'[Trail(r)] = r
          /\ \A y \in Row \ {Trail(r)} : row'[y] = row[y] /\ holder'[y] = holder[y]
      BY <1>1, <1>3, <1>10, <2>1, <2>2, PutsOn, LaterSteps DEF Move, Keep
    <2>4. Onboards(r)' BY <1>1, <1>3, <1>4, <1>6, <1>10, <2>3 DEF Local, Onboards, Running, Ended, Has
    <2>5. QED BY <1>5, <2>1, <2>3, <2>4
  <1>11. CASE Fail(r) BY <1>3, <1>11, FailsSteady
  <1>12. QED BY <1>7, <1>8, <1>9, <1>10, <1>11, Zenon DEF OnboardCouncil, council, config, trail, Audit

\* What may be told of a request that is none of these kinds is told by ToldOn.
LEMMA OtherSteady ==
  ASSUME AccessInv, NEW r \in Request, at[r] \notin Gone, NEW fs, Notes(r, fs), fs \cap {"user", "after"} = {},
         Deed(r), GoesOn(r), RowsAre(Row)', LocksHold(Row)',
         ~Is(r, {"ONBOARD"}), ~Is(r, {"REFRESH"}) \/ at[r] # "view",
         "copy" \in fs => Knows(r)', Is(r, {"LOGIN"}) /\ at[r] = "view" => Knows(r)',
         Is(r, {"CLOSE", "DISABLE"}) /\ at'[r] = "save" => shown[On(r)] # Absent,
         Is(r, {"LOGIN", "PASSWORD"}) => Trails(r)',
         Is(r, {"REFRESH", "LOGOUT", "PASSWORD"}) => Revokes(r)'
  PROVE  Steady(r)
  <1>1. Follows(r)' /\ Onboards(r)' BY ToldOn
  <1>2. Knows(r)'
    <2>1. CASE "copy" \in fs BY <2>1
    <2>2. CASE Is(r, {"LOGIN"}) /\ at[r] = "view" BY <2>2
    <2>3. CASE "copy" \notin fs /\ ~(Is(r, {"LOGIN"}) /\ at[r] = "view") BY <2>3, ToldOn
    <2>4. QED BY <2>1, <2>2, <2>3
  <1>3. Trails(r)' /\ Revokes(r)' BY ToldOn
  <1>4. QED BY <1>1, <1>2, <1>3 DEF Steady, Tells

\* A committed user.
LEMMA UsersLast ==
  ASSUME AccessInv, NEW i \in Id, shown[User(i)] # Absent
  PROVE  /\ User(i) \in Row /\ row[User(i)] \in UserRow /\ shown[User(i)] \in UserRow
         /\ row[User(i)].council = shown[User(i)].council
         /\ \A r \in Request : Sees(r, User(i)) \in UserRow /\ Sees(r, User(i)).council = shown[User(i)].council
  <1>1. UserLasts(User(i)) /\ User(i) \in Row BY RowsApart DEF AccessInv, Lasting
  <1>2. QED BY <1>1 DEF UserLasts, Stays, Sees

\* A user's row may be written by whoever keeps its council.
LEMMA UsersWritten ==
  ASSUME AccessInv, NEW r \in Request, NEW i \in Id, shown[User(i)] # Absent,
         row'[User(i)] \in UserRow, row'[User(i)].council = shown[User(i)].council
  PROVE  MayWrite(r, User(i))
  BY RowsOfId DEF MayWrite

\* Councils that are closed.
LEMMA CloseSteady ==
  ASSUME AccessInv, NEW r \in Request, CloseCouncil(r)
  PROVE  Steady(r)
  <1> DEFINE new == [row[On(r)] EXCEPT !.active = FALSE]
  <1> HIDE DEF new
  <1>1. /\ Base /\ Is(r, {"CLOSE"}) /\ at[r] \in {"view", "save"} /\ at[r] \notin Gone \cup Ended /\ Local(r)
    BY LaterSteps DEF AccessInv, CloseCouncil
  <1>2. On(r) \in Row /\ \E i \in Id : On(r) = Council(i)
    <2>1. On(r) \in TablesOf(job[r].kind) \X Id /\ On(r) \in Row BY <1>1, JobsAreGood
    <2>2. TablesOf(job[r].kind) = {"council"} BY <1>1 DEF TablesOf, Is
    <2>3. QED BY <2>1, <2>2 DEF Council
  <1>3. PICK i \in Id : On(r) = Council(i) BY <1>2
  <1>4. ~Is(r, {"ONBOARD"}) /\ ~Is(r, {"REFRESH"}) /\ ~Is(r, {"LOGIN"}) /\ Is(r, {"CLOSE", "DISABLE"})
        /\ ~Is(r, {"LOGIN", "PASSWORD"}) /\ ~Is(r, {"REFRESH", "LOGOUT", "PASSWORD"})
    BY <1>1 DEF Is
  <1>5. ASSUME at[r] = "view", There(r, On(r)), Move(r, "save"), ReadOnly PROVE Steady(r)
    <2>1. Notes(r, {}) BY <1>1, <1>5 DEF Base, Notes, Move
    <2>2. Deed(r) /\ GoesOn(r) /\ RowsAre(Row)' /\ LocksHold(Row)' /\ at'[r] = "save"
      BY <1>1, <1>5, <2>1, LooksOn, LaterSteps DEF Move, Keep
    <2>3. shown[On(r)] # Absent BY <1>2, <1>5, SeesCommitted
    <2>4. QED BY <1>1, <1>4, <2>1, <2>2, <2>3, OtherSteady
  <1>6. ASSUME at[r] = "save", Put(r, On(r), new), Go(r, "commit"), UNCHANGED <<now, job, note>> PROVE Steady(r)
    <2>1. Notes(r, {}) BY <1>1, <1>6 DEF Base, Notes
    <2>2. shown[On(r)] # Absent BY <1>1, <1>4, <1>6 DEF Local, Knows
    <2>3. row'[On(r)] = new => MayWrite(r, On(r))
      <3>1. CouncilLasts(Council(i)) BY DEF AccessInv, Lasting
      <3>2. row[On(r)] \in CouncilRow BY <1>3, <2>2, <3>1 DEF CouncilLasts, Stays
      <3>3. new \in CouncilRow /\ ~new.active BY <3>2 DEF CouncilRow, new
      <3>4. QED BY <1>3, <2>2, <3>3, RowsOfId DEF MayWrite
    <2>4. Deed(r) /\ GoesOn(r) /\ RowsAre(Row)' /\ LocksHold(Row)' /\ at'[r] = "commit"
      BY <1>1, <1>2, <1>6, <2>1, <2>3, PutsOn, LaterSteps
    <2>5. QED BY <1>1, <1>4, <1>6, <2>1, <2>4, OtherSteady
  <1>7. ASSUME at[r] = "view", Refuse(r) PROVE Steady(r)
    BY <1>7, RefusesSteady
  <1>8. QED BY <1>5, <1>6, <1>7, Zenon DEF CloseCouncil, new

\* Users that are disabled.
LEMMA DisableSteady ==
  ASSUME AccessInv, NEW r \in Request, Disable(r)
  PROVE  Steady(r)
  <1> DEFINE new == [row[On(r)] EXCEPT !.active = FALSE]
  <1> HIDE DEF new
  <1>1. /\ Base /\ Is(r, {"DISABLE"}) /\ at[r] \in {"view", "save"} /\ at[r] \notin Gone \cup Ended /\ Local(r)
    BY LaterSteps DEF AccessInv, Disable, Save
  <1>2. On(r) \in Row /\ \E i \in Id : On(r) = User(i)
    <2>1. On(r) \in TablesOf(job[r].kind) \X Id /\ On(r) \in Row BY <1>1, JobsAreGood
    <2>2. TablesOf(job[r].kind) = {"user"} BY <1>1 DEF TablesOf, Is
    <2>3. QED BY <2>1, <2>2 DEF User
  <1>3. PICK i \in Id : On(r) = User(i) BY <1>2
  <1>4. ~Is(r, {"ONBOARD"}) /\ ~Is(r, {"REFRESH"}) /\ ~Is(r, {"LOGIN"}) /\ Is(r, {"CLOSE", "DISABLE"})
        /\ ~Is(r, {"LOGIN", "PASSWORD"}) /\ ~Is(r, {"REFRESH", "LOGOUT", "PASSWORD"})
    BY <1>1 DEF Is
  <1>5. ASSUME at[r] = "view", There(r, On(r)), Move(r, "save"), ReadOnly PROVE Steady(r)
    <2>1. Notes(r, {}) BY <1>1, <1>5 DEF Base, Notes, Move
    <2>2. Deed(r) /\ GoesOn(r) /\ RowsAre(Row)' /\ LocksHold(Row)' /\ at'[r] = "save"
      BY <1>1, <1>5, <2>1, LooksOn, LaterSteps DEF Move, Keep
    <2>3. shown[On(r)] # Absent BY <1>2, <1>5, SeesCommitted
    <2>4. QED BY <1>1, <1>4, <2>1, <2>2, <2>3, OtherSteady
  <1>6. ASSUME at[r] = "save", Put(r, On(r), new), Move(r, "commit") PROVE Steady(r)
    <2>1. Notes(r, {}) BY <1>1, <1>6 DEF Base, Notes, Move
    <2>2. shown[On(r)] # Absent BY <1>1, <1>4, <1>6 DEF Local, Knows
    <2>3. row'[On(r)] = new => MayWrite(r, On(r))
      <3>1. row[On(r)] \in UserRow /\ row[On(r)].council = shown[On(r)].council BY <1>3, <2>2, UsersLast
      <3>2. new \in UserRow /\ new.council = row[On(r)].council BY <3>1 DEF UserRow, new
      <3>3. QED BY <1>3, <2>2, <3>1, <3>2, UsersWritten
    <2>4. Deed(r) /\ GoesOn(r) /\ RowsAre(Row)' /\ LocksHold(Row)' /\ at'[r] = "commit"
      BY <1>1, <1>2, <1>6, <2>1, <2>3, PutsOn, LaterSteps DEF Move, Keep
    <2>5. QED BY <1>1, <1>4, <1>6, <2>1, <2>4, OtherSteady
  <1>7. ASSUME at[r] = "view", Refuse(r) PROVE Steady(r)
    BY <1>7, RefusesSteady
  <1>8. QED BY <1>5, <1>6, <1>7, Zenon DEF Disable, Save, new

\* The login.
LEMMA LogInSteady ==
  ASSUME AccessInv, NEW r \in Request, LogIn(r)
  PROVE  Steady(r)
  <1> DEFINE u == On(r)[2]
             fine == It(r).active /\ It(r).password = job[r].password
             token == [user |-> u, council |-> Me(r).council, must |-> Me(r).must]
             trail == [council |-> Me(r).council, by |-> u]
  <1> HIDE DEF u, fine, token, trail
  <1>1. /\ Base /\ Is(r, {"LOGIN"}) /\ at[r] \in {"view", "token", "stamp", "trail"}
        /\ at[r] \notin Gone \cup Ended /\ Local(r) /\ r \in Id
    BY LaterSteps, RowsApart DEF AccessInv, LogIn
  <1>2. On(r) = User(u) /\ u \in Id /\ On(r) \in Row /\ u = On(r)[2]
    <2>1. On(r) \in TablesOf(job[r].kind) \X Id /\ On(r) \in Row BY <1>1, JobsAreGood
    <2>2. TablesOf(job[r].kind) = {"user"} BY <1>1 DEF TablesOf, Is
    <2>3. QED BY <2>1, <2>2 DEF User, u
  <1>3. ~Is(r, {"ONBOARD"}) /\ ~Is(r, {"REFRESH"}) /\ ~Is(r, {"CLOSE", "DISABLE"})
        /\ ~Is(r, {"REFRESH", "LOGOUT", "PASSWORD"}) /\ Is(r, {"LOGIN", "PASSWORD"})
        /\ Is(r, {"LOGIN", "PASSWORD", "PROFILE"}) /\ Is(r, Anonymous)
    BY <1>1 DEF Is, Anonymous
  <1>4. job' = job => /\ On(r)' = On(r) /\ \A kinds : Is(r, kinds)' = Is(r, kinds)
    BY DEF Is, On
  <1>5. at[r] # "view" => /\ note[r].user = u /\ shown[On(r)] # Absent /\ Me(r) \in UserRow
                          /\ Me(r).council = shown[On(r)].council
    BY <1>1, <1>2, <1>3 DEF Local, Knows, Me
  <1>6. ASSUME at[r] = "view", There(r, On(r)), NEW end \in {"done", "refused"}, NEW step \in {"token", "trail"},
               note' = [note EXCEPT ![r].end = end, ![r].user = u, ![r].copy = It(r)], Keep(r, step), ReadOnly
        PROVE  Steady(r)
    <2>1. Notes(r, {"end", "user", "copy"}) /\ note'[r].end = end /\ note'[r].user = u /\ note'[r].copy = It(r)
          /\ note'[r].after = note[r].after
      BY <1>1, <1>6 DEF Base, Notes, Fields
    <2>2. /\ Deed(r) /\ GoesOn(r) /\ RowsAre(Row)' /\ LocksHold(Row)' /\ at'[r] = step /\ job' = job /\ shown' = shown
      BY <1>1, <1>6, <2>1, LooksOn, LaterSteps DEF Keep
    <2>3. It(r) = shown[On(r)] /\ shown[On(r)] # Absent BY <1>1, <1>2, <1>6, SeesCommitted DEF It
    <2>4. shown[On(r)] \in UserRow BY <1>2, <2>3, UsersLast
    <2>5. Knows(r)'
      <3>1. User(note[r].user)' = On(r) BY <1>2, <2>1 DEF User
      <3>2. QED BY <1>1, <1>2, <1>3, <1>4, <2>1, <2>2, <2>3, <2>4, <3>1 DEF Knows
    <2>6. Trails(r)' BY <1>6, <2>2 DEF Trails
    <2>7. Onboards(r)' /\ Revokes(r)' BY <1>3, <1>4, <2>2 DEF Onboards, Revokes, Spends, Is
    <2>8. Follows(r)'
      <3>1. \A q \in note[r].after : q \in Request /\ at'[q] = "done"
        BY <1>1, <2>2 DEF Local, Follows, Deed, Alone, Running, Ended
      <3>2. QED BY <1>3, <1>4, <2>1, <2>2, <3>1 DEF Follows
    <2>9. QED BY <2>2, <2>5, <2>6, <2>7, <2>8 DEF Steady, Tells
  <1>7. ASSUME at[r] = "token", Put(r, Token(r), token), Move(r, "stamp") PROVE Steady(r)
    <2>1. Notes(r, {}) BY <1>1, <1>7 DEF Base, Notes, Move
    <2>2. row'[Token(r)] = token => MayWrite(r, Token(r))
      <3>1. token \in TokenRow /\ token.user = u
        <4>1. Me(r).council \in IdOrNone /\ Me(r).must \in BOOLEAN BY <1>5, <1>7 DEF UserRow
        <4>2. QED BY <1>2, <4>1 DEF TokenRow, token
      <3>2. QED BY <1>2, <1>5, <1>7, <3>1, RowsOfId DEF MayWrite
    <2>3. Deed(r) /\ GoesOn(r) /\ RowsAre(Row)' /\ LocksHold(Row)' /\ at'[r] = "stamp"
      <3>1. Token(r) \in Row BY RowsApart DEF OwnRows
      <3>2. QED BY <1>1, <1>7, <2>1, <2>2, <3>1, PutsOn, LaterSteps DEF Move, Keep
    <2>4. Trails(r)' BY <2>3 DEF Trails
    <2>5. QED BY <1>1, <1>3, <1>7, <2>1, <2>3, <2>4, OtherSteady
  <1>8. ASSUME at[r] = "stamp", Lock(r, On(r)), Move(r, "trail") PROVE Steady(r)
    <2>1. Notes(r, {}) BY <1>1, <1>8 DEF Base, Notes, Move
    <2>2. row'[On(r)] = row[On(r)] => MayWrite(r, On(r))
      BY <1>2, <1>5, <1>8, UsersLast, UsersWritten
    <2>3. Deed(r) /\ GoesOn(r) /\ RowsAre(Row)' /\ LocksHold(Row)' /\ at'[r] = "trail"
      BY <1>1, <1>2, <1>8, <2>1, <2>2, PutsOn, LaterSteps DEF Move, Keep, Lock
    <2>4. Trails(r)' BY <2>3 DEF Trails
    <2>5. QED BY <1>1, <1>3, <1>8, <2>1, <2>3, <2>4, OtherSteady
  <1>9. ASSUME at[r] = "trail", Me(r).council # None, Put(r, Trail(r), trail),
               note' = [note EXCEPT ![r].ctx = Me(r).council], Keep(r, "commit")
        PROVE  Steady(r)
    <2>1. Notes(r, {"ctx"}) /\ note'[r].copy = note[r].copy BY <1>1, <1>9 DEF Base, Notes, Fields
    <2>2. row'[Trail(r)] = trail => MayWrite(r, Trail(r)) BY RowsOfId DEF MayWrite
    <2>3. /\ Deed(r) /\ GoesOn(r) /\ RowsAre(Row)' /\ LocksHold(Row)' /\ at'[r] = "commit" /\ job' = job
          /\ row'[Trail(r)] = trail /\ holder'[Trail(r)] = r
      <3>1. Trail(r) \in Row BY RowsApart DEF OwnRows
      <3>2. QED BY <1>1, <1>9, <2>1, <2>2, <3>1, PutsOn, LaterSteps DEF Keep
    <2>4. Trails(r)'
      <3>1. trail \in TrailRow /\ trail.council = note[r].copy.council
        <4>1. Me(r).council \in IdOrNone /\ Me(r).council \in Id BY <1>5, <1>9 DEF UserRow, IdOrNone
        <4>2. QED BY <1>2, <4>1 DEF TrailRow, IdOrNone, trail, Me
      <3>2. trail # Absent BY <1>1, <3>1, RowsAreThere
      <3>3. QED BY <2>1, <2>3, <3>1, <3>2 DEF Trails, Has, Trail
    <2>5. QED BY <1>1, <1>3, <1>9, <2>1, <2>3, <2>4, OtherSteady
  <1>10. ASSUME at[r] = "trail", Me(r).council = None, Move(r, "commit"), ReadOnly PROVE Steady(r)
    <2>1. Notes(r, {}) /\ note' = note BY <1>1, <1>10 DEF Base, Notes, Move
    <2>2. Deed(r) /\ GoesOn(r) /\ RowsAre(Row)' /\ LocksHold(Row)' /\ at'[r] = "commit"
      BY <1>1, <1>10, <2>1, LooksOn, LaterSteps DEF Move, Keep
    <2>3. Trails(r)' BY <1>10, <2>1 DEF Trails, Me
    <2>4. QED BY <1>1, <1>3, <1>10, <2>1, <2>2, <2>3, OtherSteady
  <1>11. ASSUME at[r] = "view", Refuse(r) PROVE Steady(r)
    BY <1>11, RefusesSteady
  <1>12. QED
    <2>1. ASSUME at[r] = "view", There(r, On(r)), ReadOnly,
                 note' = [note EXCEPT ![r].end = IF fine THEN "done" ELSE "refused", ![r].user = u, ![r].copy = It(r)],
                 Keep(r, IF fine THEN "token" ELSE "trail")
          PROVE  Steady(r)
      BY <1>6, <2>1
    <2>2. QED BY <1>7, <1>8, <1>9, <1>10, <1>11, <2>1, Zenon DEF LogIn, u, fine, token, trail

\* A row of the blacklist that somebody else does not hold is committed or in r's hands.
LEMMA ListedIsBarred ==
  ASSUME AccessInv, NEW r \in Request, NEW t \in Id, holder[Spent(t)] \in {0, r}, row[Spent(t)] # Absent
  PROVE  Barred(r, t)
  <1>1. Spent(t) \in Row BY RowsApart
  <1>2. QED BY <1>1 DEF AccessInv, Base, LocksHold, Barred, Has

\* A committed token is as it was issued, whoever looks.
LEMMA TokensLast ==
  ASSUME AccessInv, NEW t \in Id, shown[Token(t)] # Absent
  PROVE  /\ Token(t) \in Row /\ row[Token(t)] = shown[Token(t)] /\ row[Token(t)] \in TokenRow
         /\ shown[User(row[Token(t)].user)] # Absent
         /\ \A r \in Request : Sees(r, Token(t)) = shown[Token(t)]
  <1>1. TokenLasts(Token(t)) /\ Token(t) \in Row BY RowsApart DEF AccessInv, Lasting
  <1>2. QED BY <1>1 DEF TokenLasts, Sees

\* get_or_create on the blacklist leaves the token barred.
LEMMA BlacklistOn ==
  ASSUME AccessInv, NEW r \in Request, NEW next \in {"token", "commit"}, Blacklist(r, next)
  PROVE  /\ Notes(r, {}) /\ note' = note /\ Deed(r) /\ GoesOn(r) /\ RowsAre(Row)' /\ LocksHold(Row)'
         /\ at'[r] = next /\ job' = job /\ shown' = shown /\ job[r].token \in Id /\ Barred(r, job[r].token)'
  <1> DEFINE x == Spent(job[r].token)
  <1>1. Base /\ job[r].token \in Id /\ x \in Row BY JobsAreGood, RowsApart DEF AccessInv
  <1>2. /\ at[r] = "spend" /\ at[r] \notin Gone \cup Ended \cup {"view"} /\ holder[x] \in {0, r}
        /\ Go(r, next) /\ UNCHANGED job /\ note' = note
    BY LaterSteps DEF Blacklist, Free, Move, Keep
  <1>3. Notes(r, {}) BY <1>1, <1>2 DEF Base, Notes
  <1>4. CASE row[x] = Absent
    <2>1. Put(r, x, [by |-> r]) BY <1>4 DEF Blacklist
    <2>2. [by |-> r] # Absent
      <3>1. [by |-> r] \in SpentRow BY DEF SpentRow, Request
      <3>2. QED BY <1>1, <3>1, RowsAreThere
    <2>3. row'[x] = [by |-> r] => MayWrite(r, x) BY <2>2, RowsOfId DEF MayWrite
    <2>4. /\ Deed(r) /\ GoesOn(r) /\ RowsAre(Row)' /\ LocksHold(Row)' /\ at'[r] = next /\ job' = job /\ shown' = shown
          /\ row'[x] = [by |-> r] /\ holder'[x] = r
      BY <1>1, <1>2, <1>3, <2>1, <2>3, PutsOn, LaterSteps
    <2>5. QED BY <1>1, <1>2, <1>3, <2>2, <2>4 DEF Barred, Has, Spent
  <1>5. CASE row[x] # Absent
    <2>1. ReadOnly BY <1>5 DEF Blacklist
    <2>2. /\ Deed(r) /\ GoesOn(r) /\ RowsAre(Row)' /\ LocksHold(Row)' /\ at'[r] = next /\ job' = job
          /\ row' = row /\ holder' = holder /\ shown' = shown
      BY <1>1, <1>2, <1>3, <2>1, LooksOn, LaterSteps
    <2>3. Barred(r, job[r].token) BY <1>1, <1>2, <1>5, ListedIsBarred
    <2>4. QED BY <1>1, <1>2, <1>3, <2>2, <2>3 DEF Barred, Has, Spent
  <1>6. QED BY <1>4, <1>5

\* Tokens that are exchanged.
LEMMA RefreshSteady ==
  ASSUME AccessInv, NEW r \in Request, Refresh(r)
  PROVE  Steady(r)
  <1> DEFINE t == job[r].token
             live == Live(r, t) /\ Sees(r, User(row[Token(t)].user)).active
  <1>1. /\ Base /\ Is(r, {"REFRESH"}) /\ at[r] \in {"view", "spend", "token"}
        /\ at[r] \notin Gone \cup Ended /\ Local(r) /\ t \in Id /\ Token(t) \in Row /\ Spent(t) \in Row
    BY LaterSteps, RowsApart, JobsAreGood DEF AccessInv, Refresh, Blacklist
  <1>2. ~Is(r, {"ONBOARD"}) /\ ~Is(r, {"CLOSE", "DISABLE"}) /\ ~Is(r, {"LOGIN", "PASSWORD"}) /\ ~Is(r, {"LOGIN"})
        /\ Is(r, {"REFRESH", "LOGOUT", "PASSWORD"}) /\ ~Is(r, {"PASSWORD"})
        /\ ~Is(r, {"LOGIN", "PASSWORD", "PROFILE"}) /\ Is(r, Anonymous)
    BY <1>1 DEF Is, Anonymous
  <1>3. Spends(r) = {t} BY <1>1 DEF Spends
  <1>4. job' = job => /\ Spends(r)' = {t} /\ \A kinds : Is(r, kinds)' = Is(r, kinds)
    BY <1>1 DEF Spends, Is
  <1>5. ASSUME at[r] = "view", Live(r, t), Move(r, "spend"), ReadOnly PROVE Steady(r)
    <2>1. Notes(r, {}) /\ note' = note BY <1>1, <1>5 DEF Base, Notes, Move
    <2>2. /\ Deed(r) /\ GoesOn(r) /\ RowsAre(Row)' /\ LocksHold(Row)' /\ at'[r] = "spend" /\ job' = job /\ shown' = shown
      BY <1>1, <1>5, <2>1, LooksOn, LaterSteps DEF Move, Keep
    <2>3. shown[Token(t)] # Absent /\ shown[Spent(t)] = Absent BY <1>1, <1>5, SeesCommitted DEF Live
    <2>4. Revokes(r)' BY <1>1, <1>2, <1>4, <2>2, <2>3 DEF Revokes, Token
    <2>5. Follows(r)'
      <3>1. ASSUME NEW q \in note[r].after
            PROVE  q \in Request /\ at'[q] = "done" /\ Spends(q)' = Spends(q) /\ t \notin Spends(q)
        <4>1. q \in Request /\ at[q] = "done" /\ q # r BY <1>1, <1>5 DEF Local, Follows
        <4>2. Revokes(q) BY <4>1 DEF AccessInv, Local
        <4>3. \A s \in Spends(q) : shown[Spent(s)] # Absent BY <4>1, <4>2 DEF Revokes
        <4>4. at'[q] = at[q] /\ note'[q] = note[q] BY <4>1, <2>2 DEF Deed, Alone
        <4>5. QED BY <2>2, <2>3, <4>1, <4>3, <4>4 DEF Spends, Is
      <3>2. QED BY <2>1, <2>2, <3>1 DEF Follows
    <2>6. Onboards(r)' BY <1>2, <1>4, <2>2 DEF Onboards
    <2>7. Knows(r)' BY <1>2, <1>4, <2>2 DEF Knows
    <2>8. Trails(r)' BY <1>2, <1>4, <2>2 DEF Trails
    <2>9. QED BY <2>2, <2>4, <2>5, <2>6, <2>7, <2>8 DEF Steady, Tells
  <1>6. ASSUME Blacklist(r, "token") PROVE Steady(r)
    <2>1. at[r] = "spend" BY <1>6 DEF Blacklist
    <2>2. /\ Notes(r, {}) /\ Deed(r) /\ GoesOn(r) /\ RowsAre(Row)' /\ LocksHold(Row)'
          /\ at'[r] = "token" /\ job' = job /\ shown' = shown /\ Barred(r, t)'
      BY <1>6, BlacklistOn
    <2>3. shown[Token(t)] # Absent BY <1>1, <2>1 DEF Local, Revokes
    <2>4. Revokes(r)' BY <1>1, <1>2, <1>4, <2>2, <2>3 DEF Revokes, Token
    <2>5. QED BY <1>1, <1>2, <2>1, <2>2, <2>4, OtherSteady
  <1>7. ASSUME at[r] = "token", Put(r, Token(r), row[Token(t)]), Move(r, "commit") PROVE Steady(r)
    <2>1. Notes(r, {}) BY <1>1, <1>7 DEF Base, Notes, Move
    <2>2. shown[Token(t)] # Absent /\ Barred(r, t) BY <1>1, <1>3, <1>7 DEF Local, Revokes
    <2>3. row'[Token(r)] = row[Token(t)] => MayWrite(r, Token(r))
      <3>1. row[Token(t)] \in TokenRow /\ shown[User(row[Token(t)].user)] # Absent BY <1>1, <2>2, TokensLast
      <3>2. QED BY <3>1, RowsOfId DEF MayWrite
    <2>4. Token(r) \in Row /\ Token(r) # Spent(t) BY RowsApart DEF OwnRows, Token, Spent
    <2>5. /\ Deed(r) /\ GoesOn(r) /\ RowsAre(Row)' /\ LocksHold(Row)' /\ at'[r] = "commit" /\ job' = job /\ shown' = shown
          /\ \A y \in Row \ {Token(r)} : row'[y] = row[y] /\ holder'[y] = holder[y]
      BY <1>1, <1>7, <2>1, <2>3, <2>4, PutsOn, LaterSteps DEF Move, Keep
    <2>6. Barred(r, t)' BY <1>1, <2>2, <2>4, <2>5 DEF Barred, Has, Spent
    <2>7. Revokes(r)' BY <1>1, <1>2, <1>4, <2>5, <2>6 DEF Revokes
    <2>8. QED BY <1>1, <1>2, <1>7, <2>1, <2>5, <2>7, OtherSteady
  <1>8. ASSUME at[r] = "view", Refuse(r) PROVE Steady(r)
    BY <1>8, RefusesSteady
  <1>9. QED BY <1>5, <1>6, <1>7, <1>8, Zenon DEF Refresh

\* The logout.
LEMMA LogOutSteady ==
  ASSUME AccessInv, NEW r \in Request, LogOut(r)
  PROVE  Steady(r)
  <1> DEFINE t == job[r].token
             owed == {t} \cap {x[2] : x \in Rows(r, "token")}
  <1> HIDE DEF owed
  <1>1. /\ Base /\ Is(r, {"LOGOUT"}) /\ at[r] \in {"view", "spend"}
        /\ at[r] \notin Gone \cup Ended /\ Local(r) /\ t \in Id /\ Token(t) \in Row /\ Spent(t) \in Row
    BY LaterSteps, RowsApart, JobsAreGood DEF AccessInv, LogOut, Blacklist
  <1>2. ~Is(r, {"ONBOARD"}) /\ ~Is(r, {"CLOSE", "DISABLE"}) /\ ~Is(r, {"LOGIN", "PASSWORD"}) /\ ~Is(r, {"LOGIN"})
        /\ Is(r, {"REFRESH", "LOGOUT", "PASSWORD"}) /\ ~Is(r, {"PASSWORD"}) /\ ~Is(r, {"REFRESH"})
        /\ Is(r, {"LOGOUT", "PASSWORD"})
    BY <1>1 DEF Is
  <1>3. job' = job => /\ Spends(r)' = note'[r].owed /\ \A kinds : Is(r, kinds)' = Is(r, kinds)
    BY <1>2 DEF Spends, Is
  <1>4. ASSUME at[r] = "view", note' = [note EXCEPT ![r].owed = owed],
               Keep(r, IF Live(r, t) THEN "spend" ELSE "commit"), ReadOnly
        PROVE  Steady(r)
    <2>1. Notes(r, {"owed"}) /\ note'[r].owed = owed BY <1>1, <1>4 DEF Base, Notes, Fields
    <2>2. /\ Deed(r) /\ GoesOn(r) /\ RowsAre(Row)' /\ LocksHold(Row)' /\ job' = job /\ shown' = shown
          /\ at'[r] = IF Live(r, t) THEN "spend" ELSE "commit"
      BY <1>1, <1>4, <2>1, LooksOn, LaterSteps DEF Keep
    <2>3. owed \subseteq {t} /\ (t \in owed => There(r, Token(t)))
      <3>1. ASSUME t \in owed PROVE There(r, Token(t))
        <4>1. PICK x \in Row : x[1] = "token" /\ There(r, x) /\ x[2] = t BY <3>1 DEF owed, Rows
        <4>2. x = Token(t) BY <4>1, RowsApart
        <4>3. QED BY <4>1, <4>2
      <3>2. QED BY <3>1 DEF owed
    <2>4. t \in owed /\ ~Live(r, t) => shown[Spent(t)] # Absent BY <1>1, <1>4, <2>3, SeesCommitted DEF Live
    <2>5. Revokes(r)' BY <1>1, <1>2, <1>3, <2>1, <2>2, <2>3, <2>4 DEF Revokes, Barred, Spent
    <2>6. QED BY <1>1, <1>2, <2>1, <2>2, <2>5, OtherSteady
  <1>5. ASSUME Blacklist(r, "commit") PROVE Steady(r)
    <2>1. /\ Notes(r, {}) /\ note' = note /\ Deed(r) /\ GoesOn(r) /\ RowsAre(Row)' /\ LocksHold(Row)'
          /\ at'[r] = "commit" /\ job' = job /\ shown' = shown /\ Barred(r, t)'
      BY <1>5, BlacklistOn
    <2>2. at[r] = "spend" /\ Spends(r) = note[r].owed BY <1>2, <1>5 DEF Blacklist, Spends
    <2>3. Spends(r)' \subseteq {t} BY <1>1, <1>3, <2>1, <2>2 DEF Local, Revokes
    <2>4. Revokes(r)' BY <1>1, <1>2, <1>3, <2>1, <2>3 DEF Revokes
    <2>5. QED BY <1>1, <1>2, <2>1, <2>4, OtherSteady
  <1>6. QED BY <1>4, <1>5, Zenon DEF LogOut, owed

\* What a request that changes a user knows of it.
LEMMA UserKnown ==
  ASSUME AccessInv, NEW r \in Request, Is(r, {"PASSWORD", "PROFILE"}), at[r] \notin Gone
  PROVE  /\ note[r].user \in Id /\ shown[User(note[r].user)] # Absent /\ User(note[r].user) \in Row
         /\ note[r].copy \in UserRow /\ note[r].copy.council = shown[User(note[r].user)].council
         /\ ~Is(r, {"ONBOARD"}) /\ ~Is(r, {"REFRESH"}) /\ ~Is(r, {"LOGIN"}) /\ ~Is(r, {"LOGOUT"})
         /\ ~Is(r, {"CLOSE", "DISABLE"})
         /\ Is(r, {"PASSWORD"}) => Spends(r) = note[r].owed
         /\ Is(r, {"LOGIN", "PASSWORD"}) => Is(r, {"PASSWORD"})
         /\ Is(r, {"REFRESH", "LOGOUT", "PASSWORD"}) => Is(r, {"PASSWORD"})
  <1>1. Knows(r) BY DEF AccessInv, Local
  <1>2. Is(r, {"LOGIN", "PASSWORD", "PROFILE"}) /\ ~Is(r, {"LOGIN"}) BY DEF Is
  <1>3. /\ note[r].user \in Id /\ shown[User(note[r].user)] # Absent
        /\ note[r].copy \in UserRow /\ note[r].copy.council = shown[User(note[r].user)].council
    BY <1>1, <1>2 DEF Knows
  <1>4. User(note[r].user) \in Row BY <1>3, RowsApart
  <1>5. QED BY <1>2, <1>3, <1>4 DEF Is, Spends

\* audit_user_event
LEMMA AuditUserSteady ==
  ASSUME AccessInv, NEW r \in Request, Is(r, {"PASSWORD", "PROFILE"}), AuditUser(r, note[r].user, "commit")
  PROVE  Steady(r)
  <1> DEFINE u == note[r].user
             c == Sees(r, User(u)).council
             trail == [council |-> c, by |-> note[r].user]
  <1> HIDE DEF c, trail
  <1>1. /\ Base /\ Local(r) /\ at[r] = "trail" /\ at[r] \notin Gone \cup Ended \cup {"view"} /\ r \in Id
        /\ Running(r) /\ Trail(r) \in Row
    BY LaterSteps, RowsApart DEF AccessInv, AuditUser, OwnRows, Running
  <1>2. /\ u \in Id /\ shown[User(u)] # Absent /\ note[r].copy \in UserRow
        /\ note[r].copy.council = shown[User(u)].council
        /\ ~Is(r, {"ONBOARD"}) /\ ~Is(r, {"REFRESH"}) /\ ~Is(r, {"LOGIN"}) /\ ~Is(r, {"LOGOUT"})
        /\ ~Is(r, {"CLOSE", "DISABLE"})
        /\ Is(r, {"PASSWORD"}) => Spends(r) = note[r].owed
        /\ Is(r, {"LOGIN", "PASSWORD"}) => Is(r, {"PASSWORD"})
        /\ Is(r, {"REFRESH", "LOGOUT", "PASSWORD"}) => Is(r, {"PASSWORD"})
    BY <1>1, UserKnown
  <1>3. c = note[r].copy.council /\ c \in IdOrNone BY <1>2, UsersLast DEF c, UserRow
  <1>4. Is(r, {"PASSWORD"}) => Spends(r) \subseteq Id /\ \A t \in Spends(r) : Barred(r, t)
    BY <1>1 DEF Local, Revokes
  <1>5. ASSUME Notes(r, {}), note' = note, job' = job, at'[r] = "commit", Is(r, {"PASSWORD"}), shown' = shown,
               \A y \in Row \ {Trail(r)} : row'[y] = row[y] /\ holder'[y] = holder[y]
        PROVE  Revokes(r)'
    <2>1. Spends(r)' = Spends(r) /\ \A kinds : Is(r, kinds)' = Is(r, kinds) BY <1>5 DEF Spends, Is
    <2>2. ASSUME NEW t \in Spends(r) PROVE Barred(r, t)'
      <3>1. t \in Id /\ Barred(r, t) BY <1>4, <1>5
      <3>2. Spent(t) \in Row \ {Trail(r)} BY <3>1, RowsApart DEF Spent, Trail
      <3>3. QED BY <1>5, <3>1, <3>2 DEF Barred, Has, Spent
    <2>3. QED BY <1>2, <1>4, <1>5, <2>1, <2>2 DEF Revokes, Is
  <1>6. ASSUME c = None, Move(r, "commit"), ReadOnly PROVE Steady(r)
    <2>1. Notes(r, {}) /\ note' = note BY <1>1, <1>6 DEF Base, Notes, Move
    <2>2. /\ Deed(r) /\ GoesOn(r) /\ RowsAre(Row)' /\ LocksHold(Row)' /\ at'[r] = "commit" /\ job' = job
          /\ row' = row /\ holder' = holder /\ shown' = shown
      BY <1>1, <1>6, <2>1, LooksOn, LaterSteps DEF Move, Keep
    <2>3. Trails(r)' BY <1>3, <1>6, <2>1 DEF Trails
    <2>4. Is(r, {"PASSWORD"}) => Revokes(r)' BY <1>5, <2>1, <2>2
    <2>5. QED BY <1>1, <1>2, <2>1, <2>2, <2>3, <2>4, OtherSteady
  <1>7. ASSUME c # None, Put(r, Trail(r), trail), Move(r, "commit") PROVE Steady(r)
    <2>1. Notes(r, {}) /\ note' = note BY <1>1, <1>7 DEF Base, Notes, Move
    <2>2. row'[Trail(r)] = trail => MayWrite(r, Trail(r)) BY RowsOfId DEF MayWrite
    <2>3. /\ Deed(r) /\ GoesOn(r) /\ RowsAre(Row)' /\ LocksHold(Row)' /\ at'[r] = "commit" /\ job' = job
          /\ shown' = shown /\ row'[Trail(r)] = trail /\ holder'[Trail(r)] = r
          /\ \A y \in Row \ {Trail(r)} : row'[y] = row[y] /\ holder'[y] = holder[y]
      BY <1>1, <1>7, <2>1, <2>2, PutsOn, LaterSteps DEF Move, Keep
    <2>4. Trails(r)'
      <3>1. trail \in TrailRow /\ trail.council = note[r].copy.council
        BY <1>2, <1>3, <1>7 DEF TrailRow, IdOrNone, trail
      <3>2. trail # Absent BY <1>1, <3>1, RowsAreThere
      <3>3. QED BY <2>1, <2>3, <3>1, <3>2 DEF Trails, Has, Trail
    <2>5. Is(r, {"PASSWORD"}) => Revokes(r)' BY <1>5, <2>1, <2>3
    <2>6. QED BY <1>1, <1>2, <2>1, <2>3, <2>4, <2>5, OtherSteady
  <1>8. CASE Fail(r) BY <1>1, <1>8, FailsSteady
  <1>9. QED BY <1>6, <1>7, <1>8, Zenon DEF AuditUser, Audit, c, trail

\* The profile.
LEMMA ProfileSteady ==
  ASSUME AccessInv, NEW r \in Request, UpdateProfile(r)
  PROVE  Steady(r)
  <1> DEFINE u == User(note[r].user)
             new == [Me(r) EXCEPT !.name = r]
  <1> HIDE DEF new
  <1>1. /\ Base /\ Is(r, {"PROFILE"}) /\ Is(r, {"PASSWORD", "PROFILE"}) /\ at[r] \in {"view", "save", "trail"}
        /\ at[r] \notin Gone \cup Ended /\ ~Is(r, {"LOGIN", "PASSWORD"}) /\ ~Is(r, {"REFRESH", "LOGOUT", "PASSWORD"})
    BY LaterSteps DEF AccessInv, UpdateProfile, Save, AuditUser, Is
  <1>2. /\ note[r].user \in Id /\ shown[u] # Absent /\ u \in Row /\ note[r].copy \in UserRow
        /\ note[r].copy.council = shown[u].council
        /\ ~Is(r, {"ONBOARD"}) /\ ~Is(r, {"REFRESH"}) /\ ~Is(r, {"LOGIN"}) /\ ~Is(r, {"CLOSE", "DISABLE"})
    BY <1>1, UserKnown
  <1>3. ASSUME at[r] = "view", Move(r, "save"), ReadOnly PROVE Steady(r)
    <2>1. Notes(r, {}) BY <1>1, <1>3 DEF Base, Notes, Move
    <2>2. Deed(r) /\ GoesOn(r) /\ RowsAre(Row)' /\ LocksHold(Row)'
      BY <1>1, <1>3, <2>1, LooksOn, LaterSteps DEF Move, Keep
    <2>3. QED BY <1>1, <1>2, <2>1, <2>2, OtherSteady
  <1>4. ASSUME NEW next \in {"trail", "commit"}, at[r] = "save", Put(r, u, new), Move(r, next)
        PROVE  Steady(r)
    <2>1. Notes(r, {}) BY <1>1, <1>4 DEF Base, Notes, Move
    <2>2. row'[u] = new => MayWrite(r, u)
      <3>1. new \in UserRow /\ new.council = shown[u].council BY <1>2 DEF UserRow, new, Me, Request
      <3>2. QED BY <1>2, <3>1, UsersWritten
    <2>3. Deed(r) /\ GoesOn(r) /\ RowsAre(Row)' /\ LocksHold(Row)'
      BY <1>1, <1>2, <1>4, <2>1, <2>2, PutsOn, LaterSteps DEF Move, Keep
    <2>4. QED BY <1>1, <1>2, <2>1, <2>3, OtherSteady
  <1>5. ASSUME AuditUser(r, note[r].user, "commit") PROVE Steady(r)
    BY <1>1, <1>5, AuditUserSteady
  <1>6. QED BY <1>3, <1>4, <1>5, Zenon DEF UpdateProfile, Save, new

\* A request goes on after it put rows on the blacklist.
LEMMA SpendsOn ==
  ASSUME AccessInv, NEW r \in Request, at[r] = "spend", Move(r, "trail"),
         NEW ts \in SUBSET Id, Write(r, [x \in {Spent(t) : t \in ts} |-> [by |-> r]])
  PROVE  /\ Deed(r) /\ GoesOn(r) /\ RowsAre(Row)' /\ LocksHold(Row)' /\ at'[r] = "trail"
         /\ Notes(r, {}) /\ note' = note /\ job' = job /\ shown' = shown
         /\ \A t \in ts : Barred(r, t)'
         /\ \A t \in Id : Barred(r, t) => Barred(r, t)'
  <1> DEFINE xs == {Spent(t) : t \in ts}
             new == [x \in xs |-> [by |-> r]]
  <1>1. Base /\ RowsAre(Row) /\ LocksHold(Row) /\ r # 0 BY RowsApart DEF AccessInv, Base
  <1>2. [by |-> r] # Absent /\ xs \subseteq Row
    <2>1. [by |-> r] \in SpentRow /\ r \in Id BY RowsApart DEF SpentRow, Request
    <2>2. Absent \notin SpentRow BY <2>1, RowsAreThere
    <2>3. \A t \in ts : Spent(t) \in Row BY RowsApart
    <2>4. QED BY <2>1, <2>2, <2>3
  <1>3. /\ RowsAre(Row)' /\ \A x \in xs : holder[x] \in {0, r}
        /\ \A x \in Row : row'[x] = IF x \in xs THEN [by |-> r] ELSE row[x]
        /\ \A x \in Row : holder'[x] = IF x \in xs THEN r ELSE holder[x]
        /\ shown' = shown
    <2>1. Write(r, new) /\ DOMAIN new = xs /\ \A x \in xs : new[x] = [by |-> r] OBVIOUS
    <2>2. QED BY <1>1, <2>1, WriteDoes
  <1>4. LocksHold(Row)' BY <1>1, LocksKept
  <1>5. Notes(r, {}) /\ note' = note /\ job' = job BY <1>1 DEF Base, Notes, Move, Keep
  <1>6. Alone(r) /\ at'[r] = "trail" BY <1>1, <1>5, Moves, LaterSteps DEF Move, Keep, Later
  <1>7. GoesOn(r)
    <2>1. \A x \in Row \ xs : Kept(x) BY <1>3 DEF Kept
    <2>2. \A x \in xs : x[1] = "spent" BY DEF Spent
    <2>3. \A x \in xs : Wrote(r, x)
      <3>1. ASSUME NEW x \in xs PROVE MayWrite(r, x)
        <4>1. x \in Row /\ x[1] = "spent" /\ row'[x] # Absent BY <1>2, <1>3, <2>2
        <4>2. QED BY <4>1 DEF MayWrite
      <3>2. QED BY <1>2, <1>3, <3>1 DEF Wrote
    <2>4. QED BY <1>3, <1>6, <2>1, <2>3, LaterSteps DEF GoesOn, Gone
  <1>8. Deed(r) BY <1>6, <1>7 DEF Deed, Running, Ended
  <1>9. ASSUME NEW t \in Id, t \in ts \/ Barred(r, t) PROVE Barred(r, t)'
    <2>1. Spent(t) \in Row BY RowsApart
    <2>2. CASE t \in ts BY <1>2, <1>3, <2>1, <2>2 DEF Barred, Has, Spent
    <2>3. CASE t \notin ts /\ Barred(r, t)
      <3>1. Spent(t) \notin xs
        <4>1. \A s \in ts : Spent(s) # Spent(t) BY <2>3 DEF Spent
        <4>2. QED BY <4>1
      <3>2. QED BY <1>3, <2>1, <2>3, <3>1 DEF Barred, Has, Spent
    <2>4. QED BY <1>9, <2>2, <2>3
  <1>10. QED BY <1>3, <1>4, <1>5, <1>6, <1>7, <1>8, <1>9

\* The change of a password.
LEMMA PasswordSteady ==
  ASSUME AccessInv, NEW r \in Request, ChangePassword(r)
  PROVE  Steady(r)
  <1> DEFINE u == User(note[r].user)
             spend == {Spent(t) : t \in note[r].ans}
             left == {x \in spend : row[x] = Absent}
             new == [row[u] EXCEPT !.password = r, !.must = IF Me(r).must THEN FALSE ELSE @]
             owed == {x[2] : x \in {y \in Rows(r, "token") : Sees(r, y).user = note[r].user}}
  <1> HIDE DEF new, owed
  <1>1. /\ Base /\ Local(r) /\ Is(r, {"PASSWORD"}) /\ Is(r, {"PASSWORD", "PROFILE"})
        /\ at[r] \in {"view", "save", "list", "spend", "trail"} /\ at[r] \notin Gone \cup Ended
    BY LaterSteps DEF AccessInv, ChangePassword, Save, AuditUser, Is
  <1>2. /\ note[r].user \in Id /\ shown[u] # Absent /\ u \in Row /\ Me(r) \in UserRow /\ Spends(r) = note[r].owed
        /\ ~Is(r, {"ONBOARD"}) /\ ~Is(r, {"REFRESH"}) /\ ~Is(r, {"LOGIN"}) /\ ~Is(r, {"LOGOUT"})
        /\ ~Is(r, {"CLOSE", "DISABLE"})
    BY <1>1, UserKnown DEF Me
  <1>3. job' = job => /\ Spends(r)' = note'[r].owed /\ \A kinds : Is(r, kinds)' = Is(r, kinds)
    BY <1>1 DEF Spends, Is
  <1>4. Revokes(r) BY <1>1 DEF Local
  \* The tokens of the user, each committed.
  <1>5. ASSUME NEW t \in owed, at[r] = "view"
        PROVE  t \in Id /\ shown[Token(t)] # Absent /\ shown[Token(t)].user = note[r].user
    <2>1. PICK x \in Row : x[1] = "token" /\ There(r, x) /\ Sees(r, x).user = note[r].user /\ x[2] = t
      BY DEF owed, Rows
    <2>2. x = Token(t) /\ t \in Id BY <2>1, RowsApart
    <2>3. QED BY <1>5, <2>1, <2>2, SeesCommitted
  <1>6. ASSUME at[r] = "view", note' = [note EXCEPT ![r].owed = owed], Keep(r, "save"), ReadOnly PROVE Steady(r)
    <2>1. Notes(r, {"owed"}) /\ note'[r].owed = owed /\ note'[r].user = note[r].user
      BY <1>1, <1>6 DEF Base, Notes, Fields
    <2>2. /\ Deed(r) /\ GoesOn(r) /\ RowsAre(Row)' /\ LocksHold(Row)' /\ job' = job /\ shown' = shown /\ at'[r] = "save"
      BY <1>1, <1>6, <2>1, LooksOn, LaterSteps DEF Keep
    <2>3. Revokes(r)' BY <1>2, <1>3, <1>5, <1>6, <2>1, <2>2 DEF Revokes, Token
    <2>4. Trails(r)' BY <2>2 DEF Trails
    <2>5. QED BY <1>1, <1>2, <2>1, <2>2, <2>3, <2>4, OtherSteady
  <1>7. ASSUME at[r] = "save", Put(r, u, new), Move(r, "list") PROVE Steady(r)
    <2>1. Notes(r, {}) /\ note' = note BY <1>1, <1>7 DEF Base, Notes, Move
    <2>2. row'[u] = new => MayWrite(r, u)
      <3>1. row[u] \in UserRow /\ row[u].council = shown[u].council BY <1>2, UsersLast
      <3>2. new \in UserRow /\ new.council = shown[u].council
        <4>1. Me(r).must \in BOOLEAN /\ row[u].must \in BOOLEAN BY <1>2, <3>1 DEF UserRow
        <4>2. new = [row[u] EXCEPT !.password = r, !.must = IF Me(r).must THEN FALSE ELSE row[u].must]
          BY <3>1 DEF UserRow, new
        <4>3. PICK must \in BOOLEAN : new = [row[u] EXCEPT !.password = r, !.must = must]
          <5>1. CASE Me(r).must BY <4>2, <5>1
          <5>2. CASE ~Me(r).must BY <4>1, <4>2, <5>2
          <5>3. QED BY <5>1, <5>2
        <4>4. PICK mid : mid = [row[u] EXCEPT !.password = r] OBVIOUS
        <4>5. mid \in UserRow /\ mid.council = row[u].council BY <3>1, <4>4 DEF UserRow, Request
        <4>6. new = [mid EXCEPT !.must = must] BY <4>3, <4>4
        <4>7. QED BY <3>1, <4>5, <4>6 DEF UserRow
      <3>3. QED BY <1>2, <3>2, UsersWritten
    <2>3. Deed(r) /\ GoesOn(r) /\ RowsAre(Row)' /\ LocksHold(Row)' /\ job' = job /\ shown' = shown /\ at'[r] = "list"
      BY <1>1, <1>2, <1>7, <2>1, <2>2, PutsOn, LaterSteps DEF Move, Keep
    <2>4. Revokes(r)' BY <1>1, <1>2, <1>3, <1>4, <1>7, <2>1, <2>3 DEF Revokes, Token
    <2>5. Trails(r)' BY <2>3 DEF Trails
    <2>6. QED BY <1>1, <1>2, <1>7, <2>1, <2>3, <2>4, <2>5, OtherSteady
  <1>8. ASSUME at[r] = "list", note' = [note EXCEPT ![r].ans = LiveSessions(r)], Keep(r, "spend"), ReadOnly
        PROVE  Steady(r)
    <2>1. Notes(r, {"ans"}) /\ note'[r].owed = note[r].owed /\ note'[r].ans = LiveSessions(r)
      BY <1>1, <1>8 DEF Base, Notes, Fields
    <2>2. /\ Deed(r) /\ GoesOn(r) /\ RowsAre(Row)' /\ LocksHold(Row)' /\ job' = job /\ at'[r] = "spend"
          /\ row' = row /\ holder' = holder /\ shown' = shown
      BY <1>1, <1>8, <2>1, LooksOn, LaterSteps DEF Keep
    <2>3. LiveSessions(r) \subseteq Id BY RowsApart DEF LiveSessions, Rows
    <2>4. ASSUME NEW t \in Spends(r) PROVE t \in LiveSessions(r) \/ Barred(r, t)
      <3>1. t \in Id /\ shown[Token(t)] # Absent /\ shown[Token(t)].user = note[r].user
        BY <1>1, <1>4, <1>8 DEF Revokes
      <3>2. Sees(r, Token(t)) = shown[Token(t)] /\ Token(t) \in Row BY <3>1, TokensLast
      <3>3. CASE There(r, Spent(t)) BY <3>3 DEF There, Sees, Barred, Has
      <3>4. CASE ~There(r, Spent(t))
        <4>1. Live(r, t) /\ Token(t) \in Rows(r, "token") /\ Token(t)[2] = t
          BY <3>1, <3>2, <3>4, RowsOfId DEF Live, There, Rows
        <4>2. QED BY <3>1, <3>2, <4>1 DEF LiveSessions
      <3>5. QED BY <3>3, <3>4
    <2>5. \A t \in Spends(r) : Barred(r, t) => Barred(r, t)' BY <2>2 DEF Barred, Has, Spent
    <2>6. Revokes(r)' BY <1>1, <1>2, <1>3, <1>4, <2>1, <2>2, <2>3, <2>4, <2>5 DEF Revokes
    <2>7. Trails(r)' BY <2>2 DEF Trails
    <2>8. QED BY <1>1, <1>2, <1>8, <2>1, <2>2, <2>6, <2>7, OtherSteady
  <1>9. ASSUME at[r] = "spend", Free(r, spend), Write(r, [x \in left |-> [by |-> r]]), Move(r, "trail")
        PROVE  Steady(r)
    <2> DEFINE ts == {t \in note[r].ans : row[Spent(t)] = Absent}
    <2>1. note[r].ans \subseteq Id /\ \A t \in Spends(r) : t \in Id /\ (t \in note[r].ans \/ Barred(r, t))
      BY <1>1, <1>4, <1>9 DEF Revokes
    <2>2. left = {Spent(t) : t \in ts} OBVIOUS
    <2>3. ts \in SUBSET Id BY <2>1
    <2>4. /\ Deed(r) /\ GoesOn(r) /\ RowsAre(Row)' /\ LocksHold(Row)' /\ at'[r] = "trail"
          /\ Notes(r, {}) /\ note' = note /\ job' = job /\ shown' = shown
          /\ \A t \in ts : Barred(r, t)' 
          /\ \A t \in Id : Barred(r, t) => Barred(r, t)'
      <3>1. Write(r, [x \in {Spent(t) : t \in ts} |-> [by |-> r]]) BY <1>9, <2>2
      <3>2. QED BY <1>9, <2>3, <3>1, SpendsOn
    <2>5. \A t \in note[r].ans \ ts : Barred(r, t)
      <3>1. \A t \in note[r].ans : holder[Spent(t)] \in {0, r} BY <1>9 DEF Free
      <3>2. QED BY <2>1, <3>1, ListedIsBarred
    <2>6. \A t \in Spends(r) : Barred(r, t)' BY <2>1, <2>4, <2>5
    <2>7. Revokes(r)' BY <1>1, <1>2, <1>3, <2>1, <2>4, <2>6 DEF Revokes
    <2>8. Trails(r)' BY <2>4 DEF Trails
    <2>9. QED BY <1>1, <1>2, <1>9, <2>4, <2>7, <2>8, OtherSteady
  <1>10. ASSUME AuditUser(r, note[r].user, "commit") PROVE Steady(r)
    BY <1>1, <1>10, AuditUserSteady
  <1>11. ASSUME at[r] = "view", Refuse(r) PROVE Steady(r)
    BY <1>11, RefusesSteady
  <1>12. QED BY <1>6, <1>7, <1>8, <1>9, <1>10, <1>11, Zenon DEF ChangePassword, Save, new, owed

-----------------------------------------------------------------------------
(* The invariant and what follows from it. *)

\* A step that moves no request changes nothing.
LEMMA StillKeeps ==
  ASSUME AccessInv, UNCHANGED <<job, at, note, row, shown, holder>>
  PROVE  AccessInv'
  <1>1. Base' BY DEF AccessInv, Base, RowsAre, LocksHold, Request, Steps, Ended, Fields
  <1>2. Lasting'
    <2>1. SUFFICES ASSUME NEW i \in Id
                   PROVE  (CouncilLasts(Council(i)) /\ UserLasts(User(i)) /\ TokenLasts(Token(i)) /\ Stays(Spent(i)))'
      BY DEF Lasting
    <2>2. CouncilLasts(Council(i)) /\ UserLasts(User(i)) /\ TokenLasts(Token(i)) /\ Stays(Spent(i))
      BY DEF AccessInv, Lasting
    <2>3. QED BY <2>2 DEF CouncilLasts, UserLasts, TokenLasts, Stays, Council, User, Token, Spent
  <1>3. ASSUME NEW r \in Request PROVE Local(r)'
    <2>1. Local(r) /\ \A kinds : Is(r, kinds)' = Is(r, kinds) BY DEF AccessInv, Is
    <2>2. \A q : Spends(q)' = Spends(q) BY DEF Spends, Is
    <2>3. Own(r)' BY <2>1 DEF Local, Own, Running, OwnRows, Council, Config, Token, Trail
    <2>4. Onboards(r)' BY <2>1 DEF Local, Onboards, Has, Running, Council, Config, Trail
    <2>5. Knows(r)' BY <2>1 DEF Local, Knows, On, User
    <2>6. Trails(r)' BY <2>1 DEF Local, Trails, Has, Trail
    <2>7. Revokes(r)' BY <2>1, <2>2 DEF Local, Revokes, Barred, Has, Token, Spent
    <2>8. Follows(r)' BY <2>1, <2>2 DEF Local, Follows
    <2>9. QED BY <2>3, <2>4, <2>5, <2>6, <2>7, <2>8 DEF Local
  <1>4. QED BY <1>1, <1>2, <1>3 DEF AccessInv, Request

\* In the beginning.
LEMMA AccessInit ==
  ASSUME Init
  PROVE  AccessInv
  <1>1. Base
    <2>1. job \in Workloads /\ at \in [Request -> Steps] BY DEF Init, Steps
    <2>2. DOMAIN note = Request /\ \A r \in Request : DOMAIN note[r] = Fields /\ note[r].end \in {"done", "refused"}
      BY DEF Init, NoNote, Fields
    <2>3. RowsAre(Row) /\ LocksHold(Row) BY DEF Init, RowsAre, LocksHold
    <2>4. QED BY <2>1, <2>2, <2>3 DEF Base
  <1>2. \A x \in Row : /\ row[x] = IF x \in DOMAIN FirstRows THEN FirstRows[x] ELSE Absent
                       /\ shown[x] = row[x] /\ holder[x] = 0
    BY DEF Init
  <1>3. \A x \in Row : row[x] # Absent => x \in DOMAIN FirstRows /\ row[x] = FirstRows[x] /\ row[x] \in RowType(x)
    BY <1>2, AccessConstants
  <1>4. \A x \in DOMAIN FirstRows : x \in Row /\ row[x] # Absent
    BY <1>2, AccessConstants
  <1>5. Lasting
    <2>1. SUFFICES ASSUME NEW i \in Id
                   PROVE  CouncilLasts(Council(i)) /\ UserLasts(User(i)) /\ TokenLasts(Token(i)) /\ Stays(Spent(i))
      BY DEF Lasting
    <2>2. {Council(i), User(i), Token(i), Spent(i)} \subseteq Row BY RowsApart
    <2>3. CouncilLasts(Council(i))
      <3>1. RowType(Council(i)) = CouncilRow BY DEF RowType, Council
      <3>2. QED BY <1>2, <1>3, <2>2, <3>1 DEF CouncilLasts, Stays
    <2>4. UserLasts(User(i))
      <3>1. RowType(User(i)) = UserRow BY DEF RowType, User
      <3>2. QED BY <1>2, <1>3, <2>2, <3>1 DEF UserLasts, Stays
    <2>5. TokenLasts(Token(i))
      <3>1. RowType(Token(i)) = TokenRow /\ Token(i)[1] = "token" BY DEF RowType, Token
      <3>2. ASSUME row[Token(i)] # Absent PROVE shown[User(row[Token(i)].user)] # Absent
        <4>1. Token(i) \in DOMAIN FirstRows /\ row[Token(i)] = FirstRows[Token(i)] BY <1>3, <2>2, <3>2
        <4>2. User(row[Token(i)].user) \in DOMAIN FirstRows BY <3>1, <4>1, AccessConstants
        <4>3. QED BY <1>2, <1>4, <4>2
      <3>3. QED BY <1>2, <1>3, <2>2, <3>1, <3>2 DEF TokenLasts
    <2>6. QED BY <1>2, <2>2, <2>3, <2>4, <2>5 DEF Stays
  <1>6. ASSUME NEW r \in Request PROVE Local(r)
    <2>1. r \in Id /\ r # 0 /\ OwnRows(r) \subseteq Row BY RowsApart
    <2>2. at[r] = "load" /\ note[r] = NoNote BY DEF Init
    <2>3. \A x \in OwnRows(r) : shown[x] = Absent
      <3>1. \A x \in OwnRows(r) : x[2] = r BY DEF OwnRows, Council, Config, Token, Trail
      <3>2. \A x \in OwnRows(r) : x \notin DOMAIN FirstRows BY <3>1, AccessConstants DEF Request
      <3>3. QED BY <1>2, <2>1, <3>2
    <2>4. Own(r) BY <1>2, <2>1, <2>3 DEF Own
    <2>5. Onboards(r)
      <3>1. \A x \in {Council(r), Config(r), Trail(r)} : holder[x] # r BY <1>2, <2>1 DEF OwnRows
      <3>2. QED BY <2>2, <3>1 DEF Onboards, Running, Ended
    <2>6. Knows(r) BY <2>2 DEF Knows, Gone
    <2>7. Trails(r) BY <2>2 DEF Trails
    <2>8. Revokes(r)
      <3>1. Spends(r) \subseteq Id BY <1>1, <2>2, JobsAreGood DEF Spends, NoNote
      <3>2. QED BY <2>2, <3>1 DEF Revokes
    <2>9. Follows(r) BY <2>2 DEF Follows, Gone, NoNote
    <2>10. QED BY <2>4, <2>5, <2>6, <2>7, <2>8, <2>9 DEF Local
  <1>7. QED BY <1>1, <1>5, <1>6 DEF AccessInv

\* Every request is steady.
LEMMA WorkSteady ==
  ASSUME AccessInv, NEW r \in Request, Work(r)
  PROVE  Steady(r)
  BY EnterSteady, ReadSteady, VerifySteady, OnboardSteady, CloseSteady, LookUpSteady, CreateSteady,
     SwitchOffSteady, EditSteady, LogInSteady, RefreshSteady, LogOutSteady, PasswordSteady, ProfileSteady,
     DisableSteady, CommitsSteady DEF Work

\* Every step.
LEMMA AccessStep ==
  ASSUME AccessInv, [Next]_vars
  PROVE  AccessInv'
  <1>1. ASSUME NEW r \in Request, Work(r) PROVE AccessInv'
    BY <1>1, WorkSteady, SteadyKeeps
  <1>2. CASE Tick BY <1>2, StillKeeps DEF Tick
  <1>3. CASE AllEnded \/ UNCHANGED vars BY <1>3, StillKeeps DEF AllEnded, vars
  <1>4. QED BY <1>1, <1>2, <1>3 DEF Next

\* However the requests overlap, what is committed of councils, users, tokens and the
\* blacklist lasts and each request holds what it has to at each of its steps.
THEOREM AccessInvariance == Spec => []AccessInv
  <1>1. Init => AccessInv BY AccessInit
  <1>2. AccessInv /\ [Next]_vars => AccessInv' BY AccessStep
  <1>3. QED BY <1>1, <1>2, PTL DEF Spec

\* A refresh token that a rotation, a logout or a change of password has spent is never
\* exchanged by a request that begins afterwards.
THEOREM TokensStaySpent == Spec => []SpentStaysSpent
  <1>1. AccessInv => SpentStaysSpent
    BY DEF AccessInv, Local, Follows, SpentStaysSpent, Gone
  <1>2. QED BY <1>1, AccessInvariance, PTL

\* A council appears with its config and its record or not at all, and a login or a change
\* of password leaves its record in the user's council.
THEOREM ChangesAreWhole == Spec => []ChangesComeWhole
  <1>1. ASSUME AccessInv, NEW r \in Request, Is(r, {"ONBOARD"})
        PROVE  /\ (shown[Council(r)] # Absent) = (shown[Config(r)] # Absent)
               /\ (shown[Council(r)] # Absent) = (shown[Trail(r)] # Absent)
    <2>1. Own(r) /\ Onboards(r) BY <1>1 DEF AccessInv, Local
    <2>2. CASE Running(r) BY <2>1, <2>2 DEF Own, OwnRows
    <2>3. CASE ~Running(r) BY <1>1, <2>1, <2>3 DEF Onboards
    <2>4. QED BY <2>2, <2>3
  <1>2. ASSUME AccessInv, NEW r \in Request, Is(r, {"LOGIN", "PASSWORD"}), at[r] = "done",
               shown[User(note[r].user)].council # None
        PROVE  shown[Trail(r)] # Absent /\ shown[Trail(r)].council = shown[User(note[r].user)].council
    <2>1. Knows(r) /\ Trails(r) BY <1>2 DEF AccessInv, Local
    <2>2. note[r].copy.council = shown[User(note[r].user)].council
      BY <1>2, <2>1 DEF Knows, Is, Gone
    <2>3. QED BY <1>2, <2>1, <2>2 DEF Trails
  <1>3. AccessInv => ChangesComeWhole BY <1>1, <1>2 DEF ChangesComeWhole
  <1>4. QED BY <1>3, AccessInvariance, PTL

-----------------------------------------------------------------------------
(* Reads across councils: whatever moves meanwhile, what was there when the *)
(* councils were looked up is read, in the context of its council.          *)

Reads == {"LIST", "GET", "DRILL"}

\* The records that are read are not written by any of these requests.
RecordsStay == \A x \in Row : x[1] = "record" => row[x] = shown[x]

Wanted(r, x) ==
  /\ x[1] = "record" /\ shown[x] # Absent /\ shown[x].under = None
  /\ Is(r, {"LIST"}) \/ x = On(r)

\* What r asks for in the councils it may read.
Hit(r, x) == Wanted(r, x) /\ shown[x].council \in note[r].may

BillOf(x, y) ==
  y[1] = "record" /\ shown[y] # Absent /\ shown[y].under = x[2] /\ shown[y].council = shown[x].council

Owes(r, y) == IF Is(r, {"DRILL"}) THEN \E x \in Row : Hit(r, x) /\ BillOf(x, y) ELSE Hit(r, y)

\* On its way through the councils a read has every hit of those it has passed.
WholeReads(r) ==
  Is(r, Reads) =>
    /\ \A x \in note[r].ans : x \in Row /\ x[1] = "record"
    /\ at[r] \in {"load", "view"} => note[r].ans = {}
    /\ at[r] \in {"scan", "bills"} =>
         /\ \A y \in note[r].owed : y \in Row /\ Owes(r, y)
         /\ note[r].todo \subseteq note[r].may
         /\ \A x \in note[r].ans : Hit(r, x)
         /\ \A x \in Row : Hit(r, x) => shown[x].council \in note[r].todo \/ x \in note[r].ans
    /\ at[r] = "bills" => Is(r, {"DRILL"}) /\ Hit(r, On(r))
    /\ (at[r] = "commit" /\ note[r].end = "done") \/ at[r] = "done" =>
         /\ note[r].owed \subseteq note[r].ans
         /\ \A x \in note[r].ans : shown[x].council \in note[r].may

CrossInv == RecordsStay /\ \A r \in Request : WholeReads(r)

\* No step changes a record.
LEMMA RecordsKept ==
  ASSUME AccessInv, RecordsStay, NEW r \in Request, Steady(r)
  PROVE  RecordsStay' /\ \A x \in Row : x[1] = "record" => shown'[x] = shown[x]
  <1>1. ASSUME NEW x \in Row, x[1] = "record" PROVE row'[x] = shown[x] /\ shown'[x] = shown[x]
    <2>1. row[x] = shown[x] BY <1>1 DEF RecordsStay
    <2>2. ~Wrote(r, x) BY <1>1 DEF Wrote, MayWrite
    <2>3. QED BY <2>1, <2>2, RowsAfter DEF Kept, Steady
  <1>2. QED BY <1>1 DEF RecordsStay, Row, Table

\* What the queries of a read meet.
LEMMA QueriesMeet ==
  ASSUME AccessInv, RecordsStay, NEW r \in Request, Is(r, Reads)
  PROVE  /\ \A c : \A x : x \in ReadCouncil(r, c) <=> x \in Row /\ Wanted(r, x) /\ shown[x].council = c
         /\ \A cs : \A y \in Due(r, cs) :
              /\ y \in Row
              /\ IF Is(r, {"DRILL"}) THEN \E x \in Row : Wanted(r, x) /\ shown[x].council \in cs /\ BillOf(x, y)
                 ELSE Wanted(r, y) /\ shown[y].council \in cs
         /\ \A x \in Row : x[1] = "record" => \A y : y \in BillsUnder(r, x) <=> y \in Row /\ BillOf(x, y)
  <1>1. \A x \in Row : x[1] = "record" => Sees(r, x) = shown[x] /\ (There(r, x) <=> shown[x] # Absent)
    BY DEF RecordsStay, Sees, There
  <1>2. \A x : x \in Rows(r, "record") <=> x \in Row /\ x[1] = "record" /\ shown[x] # Absent
    BY <1>1 DEF Rows
  <1>3. \A x \in Row : x[1] = "record" /\ shown[x] # Absent => (Asked(r, x) <=> Wanted(r, x))
    BY <1>1 DEF Asked, Wanted
  <1>4. ASSUME NEW c, NEW x PROVE x \in ReadCouncil(r, c) <=> x \in Row /\ Wanted(r, x) /\ shown[x].council = c
    <2>1. x \in Scoped(r, "record", c, c) <=> x \in Rows(r, "record") /\ Sees(r, x).council = c BY DEF Scoped
    <2>2. QED BY <1>1, <1>2, <1>3, <2>1 DEF ReadCouncil, Wanted
  <1>5. ASSUME NEW x \in Row, x[1] = "record", NEW y
        PROVE  y \in BillsUnder(r, x) <=> y \in Row /\ BillOf(x, y)
    BY <1>1, <1>2, <1>5 DEF BillsUnder, BillOf
  <1>6. ASSUME NEW cs, NEW y \in Due(r, cs)
        PROVE  /\ y \in Row
               /\ IF Is(r, {"DRILL"}) THEN \E x \in Row : Wanted(r, x) /\ shown[x].council \in cs /\ BillOf(x, y)
                  ELSE Wanted(r, y) /\ shown[y].council \in cs
    <2> DEFINE hits == {x \in Rows(r, "record") : Asked(r, x) /\ Sees(r, x).council \in cs}
    <2>1. \A x \in hits : x \in Row /\ x[1] = "record" /\ Wanted(r, x) /\ shown[x].council \in cs
      BY <1>1, <1>2, <1>3
    <2>2. CASE Is(r, {"DRILL"})
      <3>1. PICK x \in hits : y \in BillsUnder(r, x) BY <1>6, <2>2 DEF Due
      <3>2. QED BY <1>5, <2>1, <2>2, <3>1
    <2>3. CASE ~Is(r, {"DRILL"})
      BY <1>6, <2>1, <2>3 DEF Due
    <2>4. QED BY <2>2, <2>3
  <1>7. QED BY <1>4, <1>5, <1>6

\* A request that does not move reads what it read.
LEMMA WholeKept ==
  ASSUME NEW q \in Request, WholeReads(q), job' = job, at'[q] = at[q], note'[q] = note[q], On(q) \in Row,
         \A x \in Row : x[1] = "record" => shown'[x] = shown[x]
  PROVE  WholeReads(q)'
  <1>1. \A kinds : Is(q, kinds)' = Is(q, kinds) BY DEF Is
  <1>2. On(q)' = On(q) /\ Row' = Row BY DEF On, Row, Table
  <1>3. \A x \in Row : Hit(q, x)' = Hit(q, x) BY <1>1, <1>2 DEF Hit, Wanted
  <1>4. \A y \in Row : Owes(q, y)' = Owes(q, y)
    <2>1. \A x, y \in Row : Hit(q, x) => BillOf(x, y)' = BillOf(x, y) BY DEF BillOf, Hit, Wanted
    <2>2. QED BY <1>1, <1>2, <1>3, <2>1 DEF Owes
  <1>5. CASE ~Is(q, Reads) BY <1>1, <1>5 DEF WholeReads, Reads
  <1>6. CASE Is(q, Reads)
    <2>1. \A x \in note[q].ans : x \in Row /\ shown'[x] = shown[x] BY <1>6 DEF WholeReads
    <2>2. at[q] \in {"scan", "bills"} => \A x \in note[q].ans : Hit(q, x)' BY <1>3, <1>6, <2>1 DEF WholeReads
    <2>3. at[q] \in {"scan", "bills"} => \A y \in note[q].owed : y \in Row /\ Owes(q, y)'
      BY <1>4, <1>6 DEF WholeReads
    <2>4. at[q] \in {"scan", "bills"} =>
            \A x \in Row : Hit(q, x)' => shown'[x].council \in note[q].todo \/ x \in note[q].ans
      BY <1>3, <1>6 DEF WholeReads, Hit, Wanted
    <2>5. at[q] = "bills" => Hit(q, On(q))' 
      BY <1>1, <1>2, <1>6 DEF WholeReads, Hit, Wanted
    <2>6. QED BY <1>1, <1>2, <1>6, <2>1, <2>2, <2>3, <2>4, <2>5 DEF WholeReads
  <1>7. QED BY <1>5, <1>6

\* A read on its way.
LEMMA ReadWhole ==
  ASSUME AccessInv, RecordsStay, NEW r \in Request, WholeReads(r), Read(r)
  PROVE  WholeReads(r)'
  <1> DEFINE c == DrillContext(r, It(r).council)
             mine == IF Me(r).council # None THEN {Me(r).council} ELSE Accessible(r)
             bills == BillsUnder(r, On(r)) \cap Scoped(r, "record", c, It(r).council)
             due == Due(r, mine)
  <1> HIDE DEF c, mine, bills, due
  <1>1. Base /\ Is(r, Reads) /\ at \in [Request -> Steps] BY DEF AccessInv, Base, Read, Reads
  <1>2. WholeReads(r) /\ \A x \in note[r].ans : x \in Row /\ x[1] = "record" BY <1>1 DEF WholeReads
  <1>3. ASSUME job' = job, shown' = shown
        PROVE  /\ \A kinds : Is(r, kinds)' = Is(r, kinds)
               /\ On(r)' = On(r)
               /\ \A x \in Row : Wanted(r, x)' = Wanted(r, x)
               /\ \A x, y : BillOf(x, y)' = BillOf(x, y)
    BY <1>3 DEF Is, On, Wanted, BillOf
  <1>4. ASSUME at[r] = "view", Keep(r, "scan"), ReadOnly,
               note' = [note EXCEPT ![r].todo = mine, ![r].may = mine, ![r].owed = due]
        PROVE  WholeReads(r)'
    <2>1. /\ at'[r] = "scan" /\ job' = job /\ shown' = shown /\ Row' = Row
          /\ note'[r].todo = mine /\ note'[r].may = mine /\ note'[r].owed = due /\ note'[r].ans = note[r].ans
      BY <1>1, <1>4 DEF Base, Keep, Go, ReadOnly, rows, Fields, Row, Table
    <2>2. note[r].ans = {} BY <1>1, <1>4 DEF WholeReads
    <2>3. \A x \in Row : Hit(r, x)' = (Wanted(r, x) /\ shown[x].council \in mine)
      BY <1>3, <2>1 DEF Hit
    <2>4. ASSUME NEW y \in due PROVE y \in Row /\ Owes(r, y)'
      <3>1. /\ y \in Row
            /\ IF Is(r, {"DRILL"}) THEN \E x \in Row : Wanted(r, x) /\ shown[x].council \in mine /\ BillOf(x, y)
               ELSE Wanted(r, y) /\ shown[y].council \in mine
        BY <1>1, QueriesMeet DEF due
      <3>2. Owes(r, y)' = IF Is(r, {"DRILL"}) THEN \E x \in Row : Hit(r, x)' /\ BillOf(x, y)' ELSE Hit(r, y)'
        BY <1>3, <2>1 DEF Owes
      <3>3. QED BY <1>3, <2>1, <2>3, <3>1, <3>2
    <2>5. \A x \in Row : Hit(r, x)' => shown'[x].council \in note'[r].todo BY <2>1, <2>3
    <2>6. QED BY <2>1, <2>2, <2>4, <2>5 DEF WholeReads
  <1>5. ASSUME at[r] = "scan", NEW next \in note[r].todo, Keep(r, "scan"), ReadOnly,
               note' = [note EXCEPT ![r].ctx = next, ![r].todo = @ \ {next}, ![r].ans = @ \cup ReadCouncil(r, next)]
        PROVE  WholeReads(r)'
    <2>1. /\ at'[r] = "scan" /\ job' = job /\ shown' = shown /\ Row' = Row
          /\ note'[r].todo = note[r].todo \ {next} /\ note'[r].may = note[r].may /\ note'[r].owed = note[r].owed
          /\ note'[r].ans = note[r].ans \cup ReadCouncil(r, next)
      BY <1>1, <1>5 DEF Base, Keep, Go, ReadOnly, rows, Fields, Row, Table
    <2>2. \A x \in Row : Hit(r, x)' = Hit(r, x) BY <1>3, <2>1 DEF Hit
    <2>3. \A x : x \in ReadCouncil(r, next) <=> x \in Row /\ Wanted(r, x) /\ shown[x].council = next
      BY <1>1, QueriesMeet
    <2>4. \A x \in ReadCouncil(r, next) : x \in Row /\ x[1] = "record" /\ Hit(r, x)
      BY <1>1, <1>2, <1>5, <2>3 DEF WholeReads, Hit, Wanted
    <2>5. \A x \in Row : Hit(r, x) => shown[x].council \in note'[r].todo \/ x \in note'[r].ans
      <3>1. \A x \in Row : Hit(r, x) => shown[x].council \in note[r].todo \/ x \in note[r].ans
        BY <1>1, <1>2, <1>5 DEF WholeReads
      <3>2. \A x \in Row : Hit(r, x) => Wanted(r, x) BY DEF Hit
      <3>3. QED BY <2>1, <2>3, <3>1, <3>2
    <2>6. \A y \in note[r].owed : y \in Row /\ Owes(r, y)'
      <3>1. \A y \in note[r].owed : y \in Row /\ Owes(r, y) BY <1>1, <1>2, <1>5 DEF WholeReads
      <3>2. QED BY <1>3, <2>1, <2>2, <3>1 DEF Owes
    <2>7. \A x \in note'[r].ans : x \in Row /\ x[1] = "record" /\ Hit(r, x)'
      <3>1. \A x \in note[r].ans : Hit(r, x) BY <1>1, <1>2, <1>5 DEF WholeReads
      <3>2. QED BY <1>2, <2>1, <2>2, <2>4, <3>1
    <2>8. note'[r].todo \subseteq note'[r].may BY <1>1, <1>2, <1>5, <2>1 DEF WholeReads
    <2>9. QED BY <2>1, <2>2, <2>5, <2>6, <2>7, <2>8 DEF WholeReads
  \* Nothing is left to be read.
  <1>6. ASSUME at[r] = "scan", note[r].todo = {}
        PROVE  /\ \A x \in Row : Hit(r, x) <=> x \in note[r].ans
               /\ \A x \in note[r].ans : Hit(r, x) /\ shown[x].council \in note[r].may
               /\ \A y \in note[r].owed : y \in Row /\ Owes(r, y)
    BY <1>1, <1>2, <1>6 DEF WholeReads, Hit
  <1>7. ASSUME at[r] = "scan", note[r].todo = {}, NEW end \in {"done", "refused"}, EndAs(r, end),
               end = "done" => ~Is(r, {"DRILL"})
        PROVE  WholeReads(r)'
    <2>1. /\ at'[r] = "commit" /\ job' = job /\ shown' = shown /\ Row' = Row /\ note'[r].end = end
          /\ note'[r].may = note[r].may /\ note'[r].owed = note[r].owed /\ note'[r].ans = note[r].ans
      BY <1>1, <1>7 DEF Base, EndAs, Keep, Go, ReadOnly, rows, Fields, Row, Table
    <2>2. end = "done" => note[r].owed \subseteq note[r].ans BY <1>6, <1>7 DEF Owes
    <2>3. QED BY <1>2, <1>6, <1>7, <2>1, <2>2 DEF WholeReads
  <1>8. ASSUME at[r] = "scan", note[r].todo = {}, note[r].ans # {}, Is(r, {"DRILL"}), Move(r, "bills"), ReadOnly
        PROVE  WholeReads(r)'
    <2>1. at'[r] = "bills" /\ job' = job /\ shown' = shown /\ Row' = Row /\ note' = note
      BY <1>1, <1>8 DEF Base, Move, Keep, Go, ReadOnly, rows, Row, Table
    <2>2. \A x \in Row : Hit(r, x)' = Hit(r, x) BY <1>3, <2>1 DEF Hit
    <2>3. On(r) \in Row /\ Hit(r, On(r))
      <3>1. PICK x \in note[r].ans : x \in Row /\ Hit(r, x) BY <1>2, <1>6, <1>8
      <3>2. x = On(r) BY <1>8, <3>1 DEF Hit, Wanted, Is
      <3>3. QED BY <3>1, <3>2
    <2>4. \A y \in Row : Owes(r, y)' = Owes(r, y) BY <1>3, <2>1, <2>2 DEF Owes
    <2>5. Hit(r, On(r))' BY <1>3, <2>1, <2>3 DEF Hit, Wanted
    <2>6. QED BY <1>1, <1>2, <1>3, <1>6, <1>8, <2>1, <2>2, <2>4, <2>5 DEF WholeReads
  <1>9. ASSUME at[r] = "bills", note' = [note EXCEPT ![r].ctx = c, ![r].ans = bills], Keep(r, "commit"), ReadOnly
        PROVE  WholeReads(r)'
    <2>1. /\ at'[r] = "commit" /\ job' = job /\ shown' = shown /\ Row' = Row
          /\ note'[r].may = note[r].may /\ note'[r].owed = note[r].owed /\ note'[r].ans = bills
      BY <1>1, <1>9 DEF Base, Keep, Go, ReadOnly, rows, Fields, Row, Table
    <2>2. Is(r, {"DRILL"}) /\ Hit(r, On(r)) /\ On(r) \in Row /\ On(r)[1] = "record"
      BY <1>1, <1>2, <1>9, JobsAreGood DEF WholeReads, Hit, Wanted
    <2>3. \A y : y \in BillsUnder(r, On(r)) <=> y \in Row /\ BillOf(On(r), y)
      BY <1>1, <2>2, QueriesMeet
    <2>4. It(r).council = shown[On(r)].council /\ c = It(r).council
      BY <2>2 DEF RecordsStay, It, Sees, c, DrillContext
    <2>5. \A y : y \in bills <=> y \in Row /\ BillOf(On(r), y)
      <3>1. \A y \in Row : BillOf(On(r), y) => y \in Scoped(r, "record", c, It(r).council)
        BY <2>4 DEF BillOf, Scoped, Rows, There, Sees, RecordsStay
      <3>2. QED BY <2>3, <3>1 DEF bills
    <2>6. ASSUME NEW y \in note[r].owed PROVE y \in bills
      <3>1. y \in Row /\ Owes(r, y) BY <1>1, <1>2, <1>9 DEF WholeReads
      <3>2. PICK x \in Row : Hit(r, x) /\ BillOf(x, y) BY <2>2, <3>1 DEF Owes
      <3>3. x = On(r) BY <2>2, <3>2 DEF Hit, Wanted, Is
      <3>4. QED BY <2>5, <3>1, <3>2, <3>3
    <2>7. \A y \in bills : y \in Row /\ y[1] = "record" /\ shown[y].council \in note[r].may
      BY <2>2, <2>5 DEF BillOf, Hit
    <2>8. QED BY <2>1, <2>6, <2>7 DEF WholeReads
  <1>10. ASSUME at[r] = "scan", note[r].todo = {},
                IF Is(r, {"LIST"}) THEN EndAs(r, "done")
                ELSE IF note[r].ans = {} THEN EndAs(r, "refused")
                ELSE IF Is(r, {"GET"}) THEN EndAs(r, "done")
                ELSE Move(r, "bills") /\ ReadOnly
         PROVE  WholeReads(r)'
    <2>1. (Is(r, {"LIST"}) => ~Is(r, {"DRILL"})) /\ (Is(r, {"GET"}) => ~Is(r, {"DRILL"})) BY DEF Is
    <2>2. ~Is(r, {"LIST"}) /\ ~Is(r, {"GET"}) => Is(r, {"DRILL"}) BY <1>1 DEF Is, Reads
    <2>3. CASE EndAs(r, "refused") BY <1>7, <1>10, <2>3
    <2>4. CASE EndAs(r, "done") /\ ~Is(r, {"DRILL"}) BY <1>7, <1>10, <2>4
    <2>5. CASE Is(r, {"DRILL"}) /\ note[r].ans # {} /\ Move(r, "bills") /\ ReadOnly BY <1>8, <1>10, <2>5
    <2>6. QED BY <1>10, <2>1, <2>2, <2>3, <2>4, <2>5
  <1>11. QED BY <1>4, <1>5, <1>9, <1>10, Zenon DEF Read, c, mine, bills, due

\* What each request does is for its kind.
LEMMA KindsOfWork ==
  ASSUME NEW r \in Request, Work(r)
  PROVE  /\ Is(r, Reads) => Enter(r) \/ Read(r) \/ Commit(r)
         /\ Is(r, {"LOOKUP"}) => Enter(r) \/ LookUp(r) \/ Commit(r)
         /\ Is(r, {"ONBOARD"}) => Enter(r) \/ OnboardCouncil(r) \/ Commit(r)
  <1>1. Read(r) => Is(r, Reads) BY DEF Read, Reads
  <1>2. Verify(r) => Is(r, {"VERIFY"}) BY DEF Verify
  <1>3. OnboardCouncil(r) => Is(r, {"ONBOARD"}) BY DEF OnboardCouncil
  <1>4. CloseCouncil(r) => Is(r, {"CLOSE"}) BY DEF CloseCouncil
  <1>5. LookUp(r) => Is(r, {"LOOKUP"}) BY DEF LookUp
  <1>6. Create(r) => Is(r, {"ENTER"}) BY DEF Create
  <1>7. SwitchOff(r) => Is(r, {"OFF"}) BY DEF SwitchOff
  <1>8. EditDepartment(r) => Is(r, {"EDIT"}) BY DEF EditDepartment
  <1>9. LogIn(r) => Is(r, {"LOGIN"}) BY DEF LogIn
  <1>10. Refresh(r) => Is(r, {"REFRESH"}) BY DEF Refresh
  <1>11. LogOut(r) => Is(r, {"LOGOUT"}) BY DEF LogOut
  <1>12. ChangePassword(r) => Is(r, {"PASSWORD"}) BY DEF ChangePassword
  <1>13. UpdateProfile(r) => Is(r, {"PROFILE"}) BY DEF UpdateProfile
  <1>14. Disable(r) => Is(r, {"DISABLE"}) BY DEF Disable
  <1>15. QED
    BY <1>1, <1>2, <1>3, <1>4, <1>5, <1>6, <1>7, <1>8, <1>9, <1>10, <1>11, <1>12, <1>13, <1>14 DEF Work, Is, Reads

\* What entering leaves: the request is refused, or has begun and sees nothing else yet.
LEMMA Enters ==
  ASSUME AccessInv, NEW r \in Request, Enter(r)
  PROVE  /\ at[r] = "load" /\ at'[r] \in {"refused", "view"} /\ rows' = rows /\ job' = job
         /\ \A f \in {"todo", "ans", "may", "owed", "found", "map", "end", "ended"} : note'[r][f] = note[r][f]
         /\ at'[r] = "refused" => ~Is(r, Anonymous) /\ note' = note
  <1> DEFINE t == Token(job[r].bearer)
             since == {q \in Request : at[q] = "done"}
  <1>1. Base BY DEF AccessInv
  <1>2. CASE Is(r, Anonymous) /\ note' = [note EXCEPT ![r] = [note[r] EXCEPT !.began = now, !.after = since]]
             /\ Keep(r, "view") /\ ReadOnly
    BY <1>1, <1>2 DEF Base, Keep, Go, ReadOnly, Enter, Fields
  <1>3. CASE ~Is(r, Anonymous) /\ Refuse(r)
    BY <1>1, <1>3 DEF Base, Refuse, Move, Keep, Go, ReadOnly, Enter
  <1>4. CASE /\ ~Is(r, Anonymous)
             /\ note' = [note EXCEPT ![r] = [note[r] EXCEPT !.began = now, !.after = since, !.ctx = row[t].council,
                                                            !.user = row[t].user, !.copy = Sees(r, User(row[t].user))]]
             /\ Keep(r, "view") /\ ReadOnly
    BY <1>1, <1>4 DEF Base, Keep, Go, ReadOnly, Enter, Fields
  <1>5. QED BY <1>2, <1>3, <1>4 DEF Enter

\* Entering and committing change nothing of what is read.
LEMMA EndsWhole ==
  ASSUME AccessInv, RecordsStay, NEW r \in Request, WholeReads(r), Is(r, Reads), Enter(r) \/ Commit(r),
         \A x \in Row : x[1] = "record" => shown'[x] = shown[x]
  PROVE  WholeReads(r)'
  <1>1. \A x \in note[r].ans : x \in Row /\ x[1] = "record" BY DEF WholeReads
  <1>2. CASE Enter(r)
    <2>1. at[r] = "load" /\ at'[r] \in {"refused", "view"} /\ note'[r].ans = note[r].ans BY <1>2, Enters
    <2>2. QED BY <1>1, <2>1 DEF WholeReads, Row, Table
  <1>3. CASE Commit(r)
    <2>1. Steady(r) /\ at[r] = "commit" BY <1>3, CommitsSteady DEF Commit
    <2>2. Commits(r)
      <3>1. at'[r] \in {"done", "refused"} BY <1>3 DEF Commit, Keep, Go, AccessInv, Base
      <3>2. QED BY <2>1, <3>1 DEF Steady, Deed, GoesOn, Refuses, Fails, Ended
    <2>3. /\ at'[r] = note[r].end /\ note'[r].owed = note[r].owed /\ note'[r].may = note[r].may
          /\ note'[r].ans = note[r].ans
      BY <2>2 DEF Commits, Fields
    <2>4. note[r].end \in {"done", "refused"} BY DEF AccessInv, Base
    <2>5. QED BY <1>1, <2>1, <2>3, <2>4 DEF WholeReads, Row, Table
  <1>4. QED BY <1>2, <1>3

\* Every step.
LEMMA CrossStep ==
  ASSUME AccessInv, CrossInv, [Next]_vars
  PROVE  CrossInv'
  <1>1. ASSUME NEW r \in Request, Work(r) PROVE CrossInv'
    <2>1. Steady(r) BY <1>1, WorkSteady
    <2>2. RecordsStay' /\ \A x \in Row : x[1] = "record" => shown'[x] = shown[x]
      BY <2>1, RecordsKept DEF CrossInv
    <2>3. ASSUME NEW q \in Request, q # r PROVE WholeReads(q)'
      <3>1. job' = job /\ at'[q] = at[q] /\ note'[q] = note[q] BY <2>1, <2>3 DEF Steady, Deed, Alone
      <3>2. On(q) \in Row BY JobsAreGood DEF AccessInv
      <3>3. QED BY <2>2, <3>1, <3>2, WholeKept DEF CrossInv
    <2>4. WholeReads(r)'
      <3>1. CASE Is(r, Reads)
        BY <1>1, <2>2, <3>1, KindsOfWork, ReadWhole, EndsWhole DEF CrossInv
      <3>2. CASE ~Is(r, Reads)
        BY <2>1, <3>2 DEF Steady, Deed, Alone, WholeReads, Is, Reads
      <3>3. QED BY <3>1, <3>2
    <2>5. QED BY <2>2, <2>3, <2>4 DEF CrossInv, Request
  <1>2. ASSUME UNCHANGED <<job, at, note, row, shown, holder>> PROVE CrossInv'
    <2>1. RecordsStay' BY <1>2 DEF CrossInv, RecordsStay, Row, Table
    <2>2. ASSUME NEW q \in Request PROVE WholeReads(q)'
      <3>1. On(q) \in Row BY JobsAreGood DEF AccessInv
      <3>2. QED BY <1>2, <3>1, WholeKept DEF CrossInv
    <2>3. QED BY <2>1, <2>2 DEF CrossInv, Request
  <1>3. QED BY <1>1, <1>2 DEF Next, Tick, AllEnded, vars

\* What a user reads across councils misses no row that was there when the councils were
\* looked up, and has none of a council that was not among them.
THEOREM ReadsAreWhole == Spec => []CrossReadsAreWhole
  <1>1. Init => CrossInv
    <2>1. ASSUME Init PROVE RecordsStay BY <2>1 DEF Init, RecordsStay
    <2>2. ASSUME Init, NEW r \in Request PROVE WholeReads(r)
      BY <2>2 DEF Init, WholeReads, NoNote
    <2>3. QED BY <2>1, <2>2 DEF CrossInv
  <1>2. AccessInv /\ CrossInv /\ [Next]_vars => CrossInv' BY CrossStep
  <1>3. CrossInv => CrossReadsAreWhole BY DEF CrossInv, WholeReads, CrossReadsAreWhole, Reads
  <1>4. QED BY <1>1, <1>2, <1>3, AccessInvariance, PTL DEF Spec

-----------------------------------------------------------------------------
(* References resolved through the cached map of prefixes: what a map lacks *)
(* was committed after the request that built it began.                     *)

\* No cached map outlives its time, and no request lasts through two ticks.
Times ==
  /\ now \in Nat /\ DOMAIN cache = Worker
  /\ \A w \in Worker : DOMAIN cache[w] = {"until", "map"} /\ cache[w].until \in Nat /\ cache[w].until <= now + TTL
  /\ \A r \in Request :
       /\ note[r].began \in Nat /\ note[r].ended \in Nat /\ note[r].began <= now /\ note[r].ended <= now
       /\ Running(r) /\ at[r] # "load" => now <= note[r].began + 1

\* A committed config stays as it is, and no two have one prefix.
Configs ==
  /\ \A x \in Row : x[1] = "config" =>
       row[x] \in ConfigRow \cup {Absent} /\ (shown[x] # Absent => row[x] = shown[x])
  /\ \A x, y \in Row :
       (x[1] = "config" /\ row[x] # Absent /\ y[1] = "config" /\ row[y] # Absent /\ row[x].prefix = row[y].prefix)
       => x = y

\* A council that is closed is not opened again.
Councils == \A i \in Id : shown[Council(i)] # Absent /\ row[Council(i)].active => shown[Council(i)].active

ConfigOf(q) == [council |-> q, prefix |-> job[q].prefix]

Onboarded(q) ==
  Is(q, {"ONBOARD"}) =>
    /\ at[q] \in {"trail", "commit"} => row[Config(q)] = ConfigOf(q)
    /\ at[q] = "done" => shown[Config(q)] = ConfigOf(q) /\ shown[Council(q)] # Absent

\* Request q has onboarded a council that is open still.
Counted(q) == Is(q, {"ONBOARD"}) /\ at[q] = "done" /\ shown[Council(q)].active

\* A map has every such council but those still to be visited and those that were
\* committed no more than k ticks before time t.
Since(map, todo, t, k) ==
  \A q \in Request : Counted(q) => map[job[q].prefix] = q \/ q \in todo \/ t <= note[q].ended + k

\* What a map says of a prefix a committed config bears out.
Borne(map) ==
  \A p \in Prefixes : map[p] # None =>
    \E x \in Row : x[1] = "config" /\ shown[x] # Absent /\ shown[x].prefix = p /\ shown[x].council = map[p]

Finds(r) ==
  Is(r, {"LOOKUP"}) =>
    /\ \A x \in Row : holder[x] # r
    /\ at[r] \in {"load", "view", "build"} => Borne(note[r].map)
    /\ at[r] = "build" => Since(note[r].map, note[r].todo, note[r].began, 0)
    /\ at[r] = "identify" => Since(note[r].map, {}, note[r].began, TTL)
    /\ at[r] = "read" => note[r].found # None
    /\ note[r].found = None /\ (at[r] = "refused" \/ (at[r] = "commit" /\ note[r].end = "refused")) =>
         \A q \in Request : Counted(q) /\ job[q].prefix = job[r].prefix => note[r].began <= note[q].ended + TTL

Cached == \A w \in Worker : Since(cache[w].map, {}, cache[w].until, TTL + 1)

MissInv == Times /\ Configs /\ Councils /\ Cached /\ \A r \in Request : Onboarded(r) /\ Finds(r)

\* A look-up that found no map has built one and caches it.
Rebuilds(r) ==
  /\ Is(r, {"LOOKUP"}) /\ at[r] = "build" /\ note[r].todo = {} /\ at'[r] = "identify"
  /\ cache' = [cache EXCEPT ![job[r].worker] = [until |-> UntilWhen, map |-> note[r].map]]

\* What the requests do to the clock and the caches.
LEMMA CacheMoves ==
  ASSUME AccessInv, NEW r \in Request, Work(r)
  PROVE  now' = now /\ (cache' = cache \/ Drop(job[r].worker) \/ Rebuilds(r))
  <1> DEFINE Same == now' = now /\ cache' = cache
  <1>1. Enter(r) => Same BY DEF Enter, Refuse, Move, Keep
  <1>2. Read(r) => Same BY Zenon DEF Read, EndAs, Move, Keep
  <1>3. Verify(r) => Same BY DEF Verify, EndAs, Save, Move, Keep
  <1>4. OnboardCouncil(r) => now' = now /\ (cache' = cache \/ Drop(job[r].worker))
    BY DEF OnboardCouncil, Audit, Fail, Move, Keep
  <1>5. CloseCouncil(r) => now' = now /\ (cache' = cache \/ Drop(job[r].worker))
    BY DEF CloseCouncil, Refuse, Move, Keep
  <1>6. LookUp(r) => now' = now /\ (cache' = cache \/ Rebuilds(r))
    <2>1. at \in [Request -> Steps] BY DEF AccessInv, Base
    <2>2. QED BY <2>1 DEF LookUp, EndAs, Keep, Go, Rebuilds
  <1>7. Create(r) => Same BY DEF Create, Insert, Audit, Fail, Refuse, Move, Keep
  <1>8. SwitchOff(r) => Same BY DEF SwitchOff, Save, Audit, Fail, Refuse, Move, Keep
  <1>9. EditDepartment(r) => Same BY DEF EditDepartment, Save, Refuse, Move, Keep
  <1>10. LogIn(r) => Same BY DEF LogIn, Refuse, Move, Keep
  <1>11. Refresh(r) => Same BY DEF Refresh, Blacklist, Refuse, Move, Keep
  <1>12. LogOut(r) => Same BY DEF LogOut, Blacklist, Move, Keep
  <1>13. ChangePassword(r) => Same BY DEF ChangePassword, Save, AuditUser, Audit, Fail, Refuse, Move, Keep
  <1>14. UpdateProfile(r) => Same BY DEF UpdateProfile, Save, AuditUser, Audit, Fail, Move, Keep
  <1>15. Disable(r) => Same BY DEF Disable, Save, Refuse, Move, Keep
  <1>16. Commit(r) => Same BY DEF Commit, Keep
  <1>17. QED
    BY <1>1, <1>2, <1>3, <1>4, <1>5, <1>6, <1>7, <1>8, <1>9, <1>10, <1>11, <1>12, <1>13, <1>14, <1>15, <1>16 DEF Work

\* The clock stands still while a request takes a step.
LEMMA TimesKept ==
  ASSUME AccessInv, Times, NEW r \in Request, Steady(r),
         now' = now, cache' = cache \/ Drop(job[r].worker) \/ Rebuilds(r)
  PROVE  Times'
  <1>1. TTL \in Nat /\ job[r].worker \in Worker
    BY AccessConstants DEF AccessInv, Base, Request
  <1>2. DOMAIN cache' = Worker /\ \A w \in Worker :
          DOMAIN cache'[w] = {"until", "map"} /\ cache'[w].until \in Nat /\ cache'[w].until <= now + TTL
    <2>1. now \in Nat /\ DOMAIN cache = Worker /\ \A w \in Worker :
            DOMAIN cache[w] = {"until", "map"} /\ cache[w].until \in Nat /\ cache[w].until <= now + TTL
      BY DEF Times
    <2>2. CASE cache' = cache BY <2>1, <2>2
    <2>3. CASE Drop(job[r].worker)
      <3>1. cache' = [cache EXCEPT ![job[r].worker].until = 0] BY <2>3 DEF Drop
      <3>2. 0 <= now + TTL BY <1>1, <2>1
      <3>3. QED BY <1>1, <2>1, <3>1, <3>2
    <2>4. CASE Rebuilds(r)
      <3>1. cache' = [cache EXCEPT ![job[r].worker] = [until |-> now + TTL, map |-> note[r].map]]
        BY <2>4 DEF Rebuilds, UntilWhen
      <3>2. now + TTL \in Nat /\ now + TTL <= now + TTL BY <1>1, <2>1
      <3>3. QED BY <1>1, <2>1, <3>1, <3>2
    <2>5. QED BY <2>2, <2>3, <2>4
  <1>3. ASSUME NEW q \in Request
        PROVE  /\ note'[q].began \in Nat /\ note'[q].ended \in Nat /\ note'[q].began <= now /\ note'[q].ended <= now
               /\ Running(q)' /\ at'[q] # "load" => now <= note'[q].began + 1
    <2>1. /\ now \in Nat /\ note[q].began \in Nat /\ note[q].ended \in Nat /\ note[q].began <= now /\ note[q].ended <= now
          /\ Running(q) /\ at[q] # "load" => now <= note[q].began + 1
      BY DEF Times
    <2>2. CASE q # r BY <2>1, <2>2 DEF Steady, Deed, Alone, Running
    <2>3. CASE q = r
      <3>1. Running(r) /\ Alone(r) /\ (GoesOn(r) \/ Refuses(r) \/ Fails(r) \/ Commits(r)) BY DEF Steady, Deed
      <3>2. note'[r].ended = note[r].ended \/ note'[r].ended = now
        BY <3>1 DEF Alone
      <3>3. note'[r].began = note[r].began \/ note'[r].began = now BY <3>1 DEF Alone
      <3>4. Running(r)' => at[r] # "load" \/ note'[r].began = now
        BY <3>1 DEF GoesOn, Refuses, Fails, Commits, Running, Ended
      <3>5. now <= now + 1 BY <2>1
      <3>6. note'[r].began \in Nat /\ note'[r].ended \in Nat /\ note'[r].began <= now /\ note'[r].ended <= now
        BY <2>1, <2>3, <3>2, <3>3
      <3>7. QED BY <2>1, <2>3, <3>1, <3>3, <3>4, <3>5, <3>6
    <2>4. QED BY <2>2, <2>3
  <1>4. QED BY <1>2, <1>3 DEF Times, Request

\* What is committed of configs stays, and prefixes stay apart.
LEMMA ConfigsKept ==
  ASSUME AccessInv, Configs, NEW r \in Request, Steady(r)
  PROVE  /\ Configs'
         /\ \A x \in Row : x[1] = "config" /\ shown[x] # Absent => shown'[x] = shown[x]
         /\ \A x \in Row : x[1] = "config" /\ holder[x] # r => row'[x] = row[x] \/ x[2] = r
  <1>1. \A x \in Row : x[1] = "config" =>
          row[x] \in ConfigRow \cup {Absent} /\ (shown[x] # Absent => row[x] = shown[x])
    BY DEF Configs
  <1>2. \A x, y \in Row :
          (x[1] = "config" /\ row[x] # Absent /\ y[1] = "config" /\ row[y] # Absent /\ row[x].prefix = row[y].prefix)
          => x = y
    BY DEF Configs
  <1>3. \A x \in Row : x[1] = "config" /\ x[2] = r => x = Config(r) /\ shown[x] = Absent
    <2>1. Config(r) \in OwnRows(r) /\ Own(r) /\ Running(r)
      BY DEF AccessInv, Local, OwnRows, Steady, Deed
    <2>2. shown[Config(r)] = Absent BY <2>1 DEF Own
    <2>3. \A x \in Row : x[1] = "config" => x = Config(x[2]) BY RowsApart
    <2>4. QED BY <2>2, <2>3
  \* Each row is as it was, or withdrawn, or r's own that nobody's prefix is in the way of.
  <1>4. ASSUME NEW x \in Row, x[1] = "config"
        PROVE  \/ row'[x] = row[x] /\ shown'[x] \in {shown[x], row[x]}
               \/ row'[x] = Absent /\ shown'[x] = Absent
               \/ /\ x[2] = r /\ shown'[x] = Absent /\ row'[x] \in ConfigRow
                  /\ \A y \in Row \ {x} : y[1] = "config" /\ row[y] # Absent => row[y].prefix # row'[x].prefix
    <2>1. CASE Wrote(r, x) /\ shown'[x] = shown[x]
      <3>1. /\ x[2] = r /\ row'[x] \in ConfigRow
            /\ \A y \in Row \ {x} : y[1] = "config" /\ row[y] # Absent => row[y].prefix # row'[x].prefix
        BY <1>4, <2>1 DEF Wrote, MayWrite
      <3>2. QED BY <1>3, <1>4, <2>1, <3>1
    <2>2. CASE ~(Wrote(r, x) /\ shown'[x] = shown[x])
      <3>1. \/ row'[x] = row[x] /\ shown'[x] \in {shown[x], row[x]}
            \/ row'[x] = shown[x] /\ shown'[x] = shown[x]
        BY <2>2, RowsAfter DEF Kept, Steady
      <3>2. QED BY <1>1, <1>4, <3>1
    <2>3. QED BY <2>1, <2>2
  <1>5. ASSUME NEW x \in Row, x[1] = "config"
        PROVE  row'[x] \in ConfigRow \cup {Absent} /\ (shown'[x] # Absent => row'[x] = shown'[x])
    BY <1>1, <1>4, <1>5
  <1>6. ASSUME NEW x \in Row, NEW y \in Row, x[1] = "config", row'[x] # Absent,
               y[1] = "config", row'[y] # Absent, row'[x].prefix = row'[y].prefix
        PROVE  x = y
    <2>1. CASE x[2] = r /\ y[2] = r BY <1>3, <1>6, <2>1
    <2>2. CASE row'[x] = row[x] /\ row'[y] = row[y] BY <1>2, <1>6, <2>2
    <2>3. CASE row'[x] = row[x] /\ \A z \in Row \ {y} : z[1] = "config" /\ row[z] # Absent => row[z].prefix # row'[y].prefix
      BY <1>6, <2>3
    <2>4. CASE row'[y] = row[y] /\ \A z \in Row \ {x} : z[1] = "config" /\ row[z] # Absent => row[z].prefix # row'[x].prefix
      BY <1>6, <2>4
    <2>5. QED BY <1>4, <1>6, <2>1, <2>2, <2>3, <2>4
  <1>7. Configs' BY <1>5, <1>6 DEF Configs
  <1>8. ASSUME NEW x \in Row, x[1] = "config", shown[x] # Absent PROVE shown'[x] = shown[x]
    <2>1. row[x] = shown[x] BY <1>1, <1>8
    <2>2. QED BY <1>8, <2>1, RowsAfter DEF Steady
  <1>9. ASSUME NEW x \in Row, x[1] = "config", holder[x] # r PROVE row'[x] = row[x] \/ x[2] = r
    BY <1>9, RowsAfter DEF Kept, Wrote, MayWrite, Steady
  <1>10. QED BY <1>7, <1>8, <1>9

\* A council that is closed is not opened.
LEMMA CouncilsKept ==
  ASSUME AccessInv, Councils, NEW r \in Request, Steady(r)
  PROVE  /\ Councils'
         /\ \A i \in Id : shown[Council(i)] # Absent =>
              shown'[Council(i)] # Absent /\ (shown'[Council(i)].active => shown[Council(i)].active)
  <1>1. ASSUME NEW i \in Id
        PROVE  /\ shown[Council(i)] # Absent =>
                    shown'[Council(i)] # Absent /\ (shown'[Council(i)].active => shown[Council(i)].active)
               /\ shown'[Council(i)] # Absent /\ row'[Council(i)].active => shown'[Council(i)].active
    <2>1. PICK x \in Row : x = Council(i) /\ x[1] = "council" BY RowsApart, RowsOfId
    <2>2. shown[x] # Absent /\ row[x].active => shown[x].active BY <2>1 DEF Councils
    <2>3. shown[x] # Absent => row[x] # Absent BY <2>1 DEF AccessInv, Lasting, CouncilLasts, Stays
    <2>4. Wrote(r, x) => shown[x] = Absent \/ ~row'[x].active
      BY <2>1 DEF Wrote, MayWrite, AccessInv, Local, Own, OwnRows, Steady, Deed
    <2>5. \/ row'[x] = row[x] /\ shown'[x] \in {shown[x], row[x]}
          \/ row'[x] = shown[x] /\ shown'[x] = shown[x]
          \/ Wrote(r, x) /\ shown'[x] = shown[x]
      BY RowsAfter DEF Kept, Steady
    <2>6. QED BY <2>1, <2>2, <2>3, <2>4, <2>5
  <1>2. Councils' BY <1>1 DEF Councils, Council
  <1>3. QED BY <1>1, <1>2

\* A council that counts did so before, or was committed in this step.
LEMMA CountedAfter ==
  ASSUME AccessInv, Councils, NEW r \in Request, Steady(r), NEW q \in Request, Onboarded(q), Counted(q)'
  PROVE  (q # r /\ Counted(q) /\ note'[q].ended = note[q].ended) \/ note'[q].ended = now
  <1>1. job' = job /\ at'[q] = "done" /\ Is(q, {"ONBOARD"}) /\ shown'[Council(q)].active
    BY DEF Counted, Steady, Deed, Alone, Is, Council
  <1>2. CASE q = r
    BY <1>1, <1>2 DEF Steady, Deed, GoesOn, Refuses, Fails, Commits, Ended
  <1>3. CASE q # r
    <2>1. at[q] = "done" /\ note'[q] = note[q] BY <1>1, <1>3 DEF Steady, Deed, Alone
    <2>2. q \in Id BY RowsApart
    <2>3. shown[Council(q)] # Absent BY <1>1, <2>1 DEF Onboarded
    <2>4. shown[Council(q)].active BY <1>1, <2>2, <2>3, CouncilsKept
    <2>5. QED BY <1>1, <1>3, <2>1, <2>4 DEF Counted
  <1>4. QED BY <1>2, <1>3

\* The rows of an onboarding.
LEMMA OnboardedKept ==
  ASSUME AccessInv, Configs, Councils, NEW r \in Request, Work(r), NEW q \in Request, Onboarded(q)
  PROVE  Onboarded(q)'
  <1>1. Steady(r) BY WorkSteady
  <1>2. job' = job /\ \A kinds : Is(q, kinds)' = Is(q, kinds) BY <1>1 DEF Steady, Deed, Alone, Is
  <1>3. /\ q \in Id /\ Config(q) \in Row /\ Config(q)[1] = "config" /\ Config(q)[2] = q
        /\ Config(q)' = Config(q) /\ Council(q)' = Council(q) /\ ConfigOf(q)' = ConfigOf(q) /\ Council(q) \in Row
    BY <1>2, RowsApart, RowsOfId DEF Config, Council, ConfigOf
  <1>4. CASE q # r
    <2>1. at'[q] = at[q] BY <1>1, <1>4 DEF Steady, Deed, Alone
    <2>2. at[q] \in {"trail", "commit"} /\ Is(q, {"ONBOARD"}) => holder[Config(q)] = q
      BY DEF AccessInv, Local, Onboards, Has
    <2>3. at[q] \in {"trail", "commit"} /\ Is(q, {"ONBOARD"}) => row'[Config(q)] = row[Config(q)]
      BY <1>1, <1>3, <1>4, <2>2, ConfigsKept
    <2>4. ConfigOf(q) # Absent
      <3>1. job[q].prefix \in Prefixes BY JobsAreGood DEF AccessInv
      <3>2. ConfigOf(q) \in ConfigRow BY <1>3, <3>1 DEF ConfigOf, ConfigRow
      <3>3. QED BY <1>3, <3>2, RowsAreThere
    <2>5. at[q] = "done" /\ Is(q, {"ONBOARD"}) =>
            shown'[Config(q)] = ConfigOf(q) /\ shown'[Council(q)] # Absent
      BY <1>1, <1>3, <2>4, ConfigsKept, CouncilsKept DEF Onboarded
    <2>6. QED BY <1>2, <1>3, <2>1, <2>3, <2>5 DEF Onboarded
  <1>5. CASE q = r /\ Is(r, {"ONBOARD"})
    <2>1. CASE Enter(r) BY <1>5, <2>1, Enters DEF Onboarded
    <2>2. CASE Commit(r)
      <3>1. /\ at[r] = "commit" /\ Publish(r) BY <2>2 DEF Commit
      <3>2. Has(r, Config(r)) /\ Has(r, Council(r)) /\ row[Config(r)] = ConfigOf(r)
        BY <1>5, <3>1 DEF AccessInv, Local, Onboards, Onboarded
      <3>3. shown'[Config(r)] = row[Config(r)] /\ shown'[Council(r)] = row[Council(r)]
        BY <1>3, <1>5, <3>1, <3>2, PublishDoes DEF AccessInv, Base, Has
      <3>4. at'[r] \notin {"trail", "commit"} BY <2>2 DEF Commit, Keep, Go, AccessInv, Base
      <3>5. QED BY <1>3, <1>5, <3>2, <3>3, <3>4 DEF Onboarded, Has
    <2>3. CASE OnboardCouncil(r)
      <3> DEFINE council == [code |-> job[r].code, active |-> TRUE]
                 trail == [council |-> r, by |-> note[r].user]
      <3> HIDE DEF council, trail
      <3>1. at \in [Request -> Steps] /\ RowsAre(Row) BY DEF AccessInv, Base
      <3>2. CASE at'[r] \notin {"trail", "commit", "done"} BY <1>5, <3>2 DEF Onboarded
      <3>3. ASSUME at[r] = "config", Put(r, Config(r), ConfigOf(r)), Go(r, "trail") PROVE Onboarded(q)'
        <4>1. at'[r] = "trail" /\ row'[Config(r)] = ConfigOf(r) BY <1>3, <1>5, <3>1, <3>3, PutDoes DEF Go
        <4>2. QED BY <1>3, <1>5, <4>1 DEF Onboarded
      <3>4. ASSUME at[r] = "trail", Put(r, Trail(r), trail), Move(r, "commit") PROVE Onboarded(q)'
        <4>1. Trail(r) \in Row /\ Trail(r) # Config(r) BY <1>3, RowsApart DEF OwnRows, Trail, Config
        <4>2. at'[r] = "commit" /\ row'[Config(r)] = row[Config(r)]
          BY <1>3, <1>5, <3>1, <3>4, <4>1, PutDoes DEF Move, Keep, Go
        <4>3. QED BY <1>3, <1>5, <3>4, <4>2 DEF Onboarded
      <3>5. ASSUME NEW step \in {"insert", "config", "failed"}, Go(r, step) PROVE Onboarded(q)'
        <4>1. at'[r] = step BY <3>1, <3>5 DEF Go
        <4>2. QED BY <3>2, <4>1
      <3>6. CASE Move(r, "insert") BY <3>5, <3>6 DEF Move, Keep
      <3>7. CASE Fail(r) BY <3>5, <3>7 DEF Fail, Keep
      <3>8. ASSUME Go(r, "config") PROVE Onboarded(q)' BY <3>5, <3>8
      <3>9. QED BY <2>3, <3>3, <3>4, <3>6, <3>7, <3>8, Zenon DEF OnboardCouncil, Audit, ConfigOf, council, trail
    <2>4. QED BY <1>5, <2>1, <2>2, <2>3, KindsOfWork
  <1>6. CASE ~Is(q, {"ONBOARD"}) BY <1>2, <1>6 DEF Onboarded
  <1>7. QED BY <1>4, <1>5, <1>6

\* A look-up that does not move finds what it found: councils that are committed
\* meanwhile are later than its beginning.
LEMMA FindsKept ==
  ASSUME AccessInv, MissInv, NEW r \in Request, Steady(r), NEW q \in Request, q # r
  PROVE  Finds(q)'
  <1>1. job' = job /\ at'[q] = at[q] /\ note'[q] = note[q] /\ \A kinds : Is(q, kinds)' = Is(q, kinds)
    BY DEF Steady, Deed, Alone, Is
  <1>2. ASSUME NEW p \in Request, Counted(p)'
        PROVE  (Counted(p) /\ note'[p].ended = note[p].ended) \/ note'[p].ended = now
    BY <1>2, CountedAfter DEF MissInv
  <1>3. TTL \in Nat /\ note[q].began \in Nat /\ now \in Nat /\ note[q].began <= now
        /\ \A p \in Request : note[p].ended \in Nat
    BY AccessConstants DEF MissInv, Times
  <1>4. Finds(q) BY DEF MissInv
  <1>5. CASE Is(q, {"LOOKUP"})
    <2>1. \A x \in Row : holder'[x] # q
      <3>1. q # 0 BY RowsApart
      <3>2. \A x \in Row : holder[x] # q BY <1>4, <1>5 DEF Finds
      <3>3. QED BY <3>1, <3>2, RowsAfter DEF Kept, Wrote, Steady
    <2>2. at[q] \in {"load", "view", "build"} => Borne(note[q].map)'
      <3>1. \A x \in Row : x[1] = "config" /\ shown[x] # Absent => shown'[x] = shown[x]
        BY ConfigsKept DEF MissInv
      <3>2. QED BY <1>1, <1>4, <1>5, <3>1 DEF Finds, Borne
    <2>3. ASSUME NEW p \in Request, Counted(p)', at[q] = "build"
          PROVE  note[q].map[job[p].prefix] = p \/ p \in note[q].todo \/ note[q].began <= note'[p].ended + 0
      BY <1>2, <1>3, <1>4, <1>5, <2>3 DEF Finds, Since
    <2>4. ASSUME NEW p \in Request, Counted(p)', at[q] = "identify"
          PROVE  note[q].map[job[p].prefix] = p \/ p \in {} \/ note[q].began <= note'[p].ended + TTL
      BY <1>2, <1>3, <1>4, <1>5, <2>4 DEF Finds, Since
    <2>5. ASSUME NEW p \in Request, Counted(p)', job[p].prefix = job[q].prefix, note[q].found = None,
                 at[q] = "refused" \/ (at[q] = "commit" /\ note[q].end = "refused")
          PROVE  note[q].began <= note'[p].ended + TTL
      BY <1>2, <1>3, <1>4, <1>5, <2>5 DEF Finds
    <2>6. at[q] = "build" => Since(note[q].map, note[q].todo, note[q].began, 0)' BY <1>1, <2>3 DEF Since, Request
    <2>7. at[q] = "identify" => Since(note[q].map, {}, note[q].began, TTL)' BY <1>1, <2>4 DEF Since, Request
    <2>8. at[q] = "read" => note[q].found # None BY <1>4, <1>5 DEF Finds
    <2>9. QED BY <1>1, <2>1, <2>2, <2>5, <2>6, <2>7, <2>8 DEF Finds, Request
  <1>6. CASE ~Is(q, {"LOOKUP"}) BY <1>1, <1>6 DEF Finds
  <1>7. QED BY <1>5, <1>6

\* A look-up that only reads: what counts is what counted.
LEMMA LookUpCounts ==
  ASSUME AccessInv, MissInv, NEW r \in Request, Is(r, {"LOOKUP"}), Steady(r), rows' = rows
  PROVE  /\ \A x \in Row : holder'[x] # r
         /\ shown' = shown /\ job' = job /\ \A kinds : Is(r, kinds)' = Is(r, kinds)
         /\ \A p \in Request : Counted(p)' => /\ Counted(p) /\ note'[p].ended = note[p].ended
                                              /\ p \in ActiveCouncils(r) /\ job[p].prefix \in Prefixes
  <1>1. job' = job /\ shown' = shown /\ holder' = holder /\ \A q \in Request \ {r} : at'[q] = at[q] /\ note'[q] = note[q]
    BY DEF Steady, Deed, Alone, rows
  <1>2. \A x \in Row : holder[x] # r BY DEF MissInv, Finds
  <1>3. ASSUME NEW p \in Request, Counted(p)'
        PROVE  /\ Counted(p) /\ note'[p].ended = note[p].ended
               /\ p \in ActiveCouncils(r) /\ job[p].prefix \in Prefixes
    <2>1. p # r BY <1>1, <1>3 DEF Counted, Is
    <2>2. Counted(p) /\ note'[p].ended = note[p].ended BY <1>1, <1>3, <2>1 DEF Counted, Is, Council
    <2>3. shown[Council(p)] # Absent BY <2>2 DEF MissInv, Onboarded, Counted
    <2>4. Council(p) \in Row /\ Council(p)[1] = "council" /\ Council(p)[2] = p BY RowsApart, RowsOfId
    <2>5. Sees(r, Council(p)) = shown[Council(p)] BY <1>2, <2>4 DEF Sees
    <2>6. Council(p) \in Rows(r, "council") BY <2>3, <2>4, <2>5 DEF Rows, There
    <2>7. p \in ActiveCouncils(r) BY <2>2, <2>4, <2>5, <2>6 DEF ActiveCouncils, Counted
    <2>8. job[p].prefix \in Prefixes BY JobsAreGood DEF AccessInv
    <2>9. QED BY <2>2, <2>7, <2>8
  <1>4. QED BY <1>1, <1>2, <1>3 DEF Is

\* What a visit of council c makes of a map.
Held(r, c) == {Sees(r, x).prefix : x \in Scoped(r, "config", c, c)}
Visited(r, c, map) == [p \in Prefixes |-> IF map[p] = None /\ p \in Held(r, c) THEN c ELSE map[p]]

\* A map that is being built: the council visited is in it, under its own prefix.
LEMMA VisitsOn ==
  ASSUME AccessInv, MissInv, NEW r \in Request, Is(r, {"LOOKUP"}), NEW c, NEW map, Borne(map)
  PROVE  /\ Borne(Visited(r, c, map))
         /\ \A q \in Request : Counted(q) /\ job[q].prefix \in Prefixes /\ (map[job[q].prefix] = q \/ q = c) =>
              Visited(r, c, map)[job[q].prefix] = q
  <1> DEFINE held == Held(r, c)
             next == Visited(r, c, map)
  <1>0. /\ held = {Sees(r, x).prefix : x \in Scoped(r, "config", c, c)}
        /\ next = [p \in Prefixes |-> IF map[p] = None /\ p \in held THEN c ELSE map[p]]
    BY DEF Held, Visited
  <1> HIDE DEF held, next
  <1>1. \A x \in Row : Sees(r, x) = shown[x] BY DEF MissInv, Finds, Sees
  <1>2. \A x : x \in Scoped(r, "config", c, c) <=>
          x \in Row /\ x[1] = "config" /\ shown[x] # Absent /\ shown[x].council = c
    BY <1>1 DEF Scoped, Rows, There
  <1>3. ASSUME NEW p \in Prefixes, next[p] # None
        PROVE  \E x \in Row : x[1] = "config" /\ shown[x] # Absent /\ shown[x].prefix = p /\ shown[x].council = next[p]
    <2>1. CASE map[p] = None /\ p \in held
      <3>1. PICK x \in Scoped(r, "config", c, c) : p = Sees(r, x).prefix BY <1>0, <2>1
      <3>2. next[p] = c BY <1>0, <2>1
      <3>3. QED BY <1>1, <1>2, <3>1, <3>2
    <2>2. CASE ~(map[p] = None /\ p \in held)
      BY <1>0, <1>3, <2>2 DEF Borne
    <2>3. QED BY <2>1, <2>2
  <1>4. ASSUME NEW q \in Request, Counted(q), job[q].prefix \in Prefixes, map[job[q].prefix] = q \/ q = c
        PROVE  next[job[q].prefix] = q
    <2>1. q \in Id /\ q # None /\ Config(q) \in Row /\ Config(q)[1] = "config"
      BY RowsApart, RowsOfId, AccessConstants DEF Request
    <2>2. shown[Config(q)] = ConfigOf(q) /\ shown[Config(q)] # Absent
      <3>1. shown[Config(q)] = ConfigOf(q) /\ shown[Council(q)] # Absent BY <1>4 DEF MissInv, Onboarded, Counted
      <3>2. (shown[Council(q)] # Absent) = (shown[Config(q)] # Absent)
        BY <1>4 DEF AccessInv, Local, Onboards, Counted, Running, Ended
      <3>3. QED BY <3>1, <3>2
    <2>3. CASE map[job[q].prefix] = q BY <1>0, <1>4, <2>1, <2>3
    <2>4. CASE q = c /\ map[job[q].prefix] = None
      <3>1. Config(q) \in Scoped(r, "config", c, c) /\ Sees(r, Config(q)).prefix = job[q].prefix
        BY <1>1, <1>2, <2>1, <2>2, <2>4 DEF ConfigOf
      <3>2. QED BY <1>0, <1>4, <2>4, <3>1
    <2>5. CASE q = c /\ map[job[q].prefix] # None
      <3>1. PICK x \in Row : /\ x[1] = "config" /\ shown[x] # Absent /\ shown[x].prefix = job[q].prefix
                             /\ shown[x].council = map[job[q].prefix]
        BY <1>4, <2>5 DEF Borne
      <3>2. row[x] = shown[x] /\ row[Config(q)] = shown[Config(q)] BY <2>1, <2>2, <3>1 DEF MissInv, Configs
      <3>3. x = Config(q)
        <4>1. row[x].prefix = row[Config(q)].prefix BY <2>2, <3>1, <3>2 DEF ConfigOf
        <4>2. row[x] # Absent /\ row[Config(q)] # Absent BY <2>2, <3>1, <3>2
        <4>3. QED BY <2>1, <3>1, <4>1, <4>2 DEF MissInv, Configs
      <3>4. QED BY <1>0, <1>4, <2>2, <2>5, <3>1, <3>3 DEF ConfigOf
    <2>6. QED BY <1>4, <2>3, <2>4, <2>5
  <1>5. QED BY <1>3, <1>4 DEF Borne, next

\* A look-up on its way.
LEMMA LookUpFinds ==
  ASSUME AccessInv, MissInv, NEW r \in Request, LookUp(r)
  PROVE  Finds(r)'
  <1> DEFINE mine == cache[job[r].worker]
             c == Least(note[r].todo)
             owner == note[r].map[job[r].prefix]
             held == {Sees(r, x).prefix : x \in Scoped(r, "config", c, c)}
             visited == [p \in Prefixes |-> IF note[r].map[p] = None /\ p \in held THEN c ELSE note[r].map[p]]
             open == ActiveCouncils(r)
  <1> HIDE DEF mine, c, owner, held, visited, open
  <1>1. /\ Base /\ Is(r, {"LOOKUP"}) /\ Steady(r) /\ Finds(r)
        /\ at \in [Request -> Steps] /\ DOMAIN note = Request /\ DOMAIN note[r] = Fields
    BY LookUpSteady DEF AccessInv, Base, LookUp, MissInv
  <1>2. /\ TTL \in Nat /\ now \in Nat /\ note[r].began \in Nat /\ note[r].began <= now /\ job[r].worker \in Worker
        /\ \A p \in Request : note[p].ended \in Nat
    BY AccessConstants DEF MissInv, Times, AccessInv, Base, Request
  \* What a step that only reads, and goes on to step, leaves to be shown.
  <1>3. ASSUME NEW step \in {"build", "identify", "read", "commit"}, Go(r, step), ReadOnly,
               step = "build" => Borne(note'[r].map),
               step = "build" => \A p \in Request : Counted(p)' =>
                 note'[r].map[job[p].prefix] = p \/ p \in note'[r].todo \/ note'[r].began <= note'[p].ended + 0,
               step = "identify" => \A p \in Request : Counted(p)' =>
                 note'[r].map[job[p].prefix] = p \/ note'[r].began <= note'[p].ended + TTL,
               step = "read" => note'[r].found # None,
               step = "commit" /\ note'[r].found = None /\ note'[r].end = "refused" =>
                 \A p \in Request : Counted(p)' /\ job[p].prefix = job[r].prefix => note'[r].began <= note'[p].ended + TTL
        PROVE  Finds(r)'
    <2>1. at'[r] = step /\ rows' = rows BY <1>1, <1>3 DEF Go, ReadOnly
    <2>2. (\A x \in Row : holder'[x] # r) /\ shown' = shown /\ job' = job /\ \A kinds : Is(r, kinds)' = Is(r, kinds)
      BY <1>1, <2>1, LookUpCounts
    <2>3. step = "build" => Borne(note[r].map)' BY <1>3, <2>2 DEF Borne
    <2>4. step = "build" => Since(note[r].map, note[r].todo, note[r].began, 0)' BY <1>3, <2>2 DEF Since, Request
    <2>5. step = "identify" => Since(note[r].map, {}, note[r].began, TTL)' BY <1>3, <2>2 DEF Since, Request
    <2>6. QED BY <1>3, <2>1, <2>2, <2>3, <2>4, <2>5 DEF Finds, Request
  <1>4. ASSUME ReadOnly, NEW p \in Request, Counted(p)'
        PROVE  /\ Counted(p) /\ note'[p].ended = note[p].ended /\ note[p].ended \in Nat
               /\ p \in open /\ job[p].prefix \in Prefixes
    BY <1>1, <1>2, <1>4, LookUpCounts DEF ReadOnly, open
  <1>5. ASSUME at[r] = "view", mine.until > now, note' = [note EXCEPT ![r].map = mine.map], Keep(r, "identify"), ReadOnly
        PROVE  Finds(r)'
    <2>1. note'[r].map = mine.map /\ note'[r].began = note[r].began BY <1>1, <1>5 DEF Fields
    <2>2. ASSUME NEW p \in Request, Counted(p)'
          PROVE  mine.map[job[p].prefix] = p \/ note[r].began <= note'[p].ended + TTL
      <3>1. Counted(p) /\ note'[p].ended = note[p].ended /\ note[p].ended \in Nat BY <1>4, <1>5, <2>2
      <3>2. Since(mine.map, {}, mine.until, TTL + 1) BY <1>2 DEF MissInv, Cached, mine
      <3>3. mine.until \in Nat BY <1>2 DEF MissInv, Times, mine
      <3>4. mine.map[job[p].prefix] = p \/ mine.until <= note[p].ended + (TTL + 1) BY <3>1, <3>2 DEF Since
      <3>5. QED BY <1>2, <1>5, <3>1, <3>3, <3>4
    <2>3. QED BY <1>3, <1>5, <2>1, <2>2 DEF Keep
  <1>6. ASSUME at[r] = "view", note' = [note EXCEPT ![r].todo = open], Keep(r, "build"), ReadOnly
        PROVE  Finds(r)'
    <2>1. note'[r].todo = open /\ note'[r].map = note[r].map BY <1>1, <1>6 DEF Fields
    <2>2. Borne(note[r].map) BY <1>1, <1>6 DEF Finds
    <2>3. \A p \in Request : Counted(p)' => p \in note'[r].todo BY <1>4, <1>6, <2>1
    <2>4. QED BY <1>3, <1>6, <2>1, <2>2, <2>3 DEF Keep
  <1>7. ASSUME at[r] = "build", Keep(r, "build"), ReadOnly,
               note' = [note EXCEPT ![r].ctx = c, ![r].todo = @ \ {c},
                                    ![r].map = [p \in Prefixes |-> IF @[p] = None /\ p \in held THEN c ELSE @[p]]]
        PROVE  Finds(r)'
    <2>1. /\ note'[r].todo = note[r].todo \ {c} /\ note'[r].map = visited /\ note'[r].began = note[r].began
      BY <1>1, <1>7 DEF Fields, visited
    <2>2. Borne(note[r].map) /\ Since(note[r].map, note[r].todo, note[r].began, 0) BY <1>1, <1>7 DEF Finds
    <2>3. /\ Borne(visited)
          /\ \A q \in Request : Counted(q) /\ job[q].prefix \in Prefixes /\ (note[r].map[job[q].prefix] = q \/ q = c) =>
               visited[job[q].prefix] = q
      <3>1. visited = Visited(r, c, note[r].map) BY DEF visited, held, Visited, Held
      <3>2. Is(r, {"LOOKUP"}) /\ Borne(note[r].map) BY <1>1, <2>2
      <3>3. QED BY <3>1, <3>2, VisitsOn
    <2>4. ASSUME NEW p \in Request, Counted(p)'
          PROVE  visited[job[p].prefix] = p \/ p \in note'[r].todo \/ note[r].began <= note'[p].ended + 0
      <3>1. Counted(p) /\ note'[p].ended = note[p].ended /\ note[p].ended \in Nat /\ job[p].prefix \in Prefixes
        BY <1>4, <1>7, <2>4
      <3>2. note[r].map[job[p].prefix] = p \/ p \in note[r].todo \/ note[r].began <= note[p].ended + 0
        BY <2>2, <3>1 DEF Since
      <3>3. CASE note[r].map[job[p].prefix] = p \/ p = c BY <2>3, <3>1, <3>3
      <3>4. CASE p \in note[r].todo /\ p # c BY <2>1, <3>4
      <3>5. CASE note[r].began <= note[p].ended + 0 BY <3>1, <3>5
      <3>6. QED BY <3>2, <3>3, <3>4, <3>5
    <2>5. QED BY <1>3, <1>7, <2>1, <2>3, <2>4 DEF Keep
  <1>8. ASSUME at[r] = "build", note[r].todo = {}, Go(r, "identify"), ReadOnly, UNCHANGED <<now, job, note>>
        PROVE  Finds(r)'
    <2>1. Since(note[r].map, {}, note[r].began, 0) BY <1>1, <1>8 DEF Finds
    <2>2. ASSUME NEW p \in Request, Counted(p)'
          PROVE  note[r].map[job[p].prefix] = p \/ note[r].began <= note'[p].ended + TTL
      <3>1. Counted(p) /\ note'[p].ended = note[p].ended /\ note[p].ended \in Nat BY <1>4, <1>8, <2>2
      <3>2. note[r].map[job[p].prefix] = p \/ note[r].began <= note[p].ended + 0 BY <2>1, <3>1 DEF Since
      <3>3. QED BY <1>2, <3>1, <3>2
    <2>3. QED BY <1>3, <1>8, <2>2
  <1>9. ASSUME at[r] = "identify", owner = None \/ owner \notin open, EndAs(r, "refused")
        PROVE  Finds(r)'
    <2>1. note'[r].began = note[r].began /\ Go(r, "commit") /\ ReadOnly
      BY <1>1, <1>9 DEF EndAs, Keep, Fields
    <2>2. ASSUME NEW p \in Request, Counted(p)', job[p].prefix = job[r].prefix
          PROVE  note[r].began <= note'[p].ended + TTL
      <3>1. Counted(p) /\ note'[p].ended = note[p].ended /\ p \in open BY <1>4, <2>1, <2>2
      <3>2. owner = p \/ note[r].began <= note[p].ended + TTL
        BY <1>1, <1>9, <2>2, <3>1 DEF Finds, Since, owner
      <3>3. p # None BY AccessConstants DEF Request
      <3>4. QED BY <1>9, <3>1, <3>2, <3>3
    <2>3. QED BY <1>3, <2>1, <2>2
  <1>10. ASSUME at[r] = "identify", owner # None,
                note' = [note EXCEPT ![r].ctx = owner, ![r].found = owner], Keep(r, "read"), ReadOnly
         PROVE  Finds(r)'
    <2>1. note'[r].found = owner BY <1>1, <1>10 DEF Fields
    <2>2. QED BY <1>3, <1>10, <2>1 DEF Keep
  <1>11. ASSUME at[r] = "read", NEW end \in {"done", "refused"}, EndAs(r, end)
         PROVE  Finds(r)'
    <2>1. note'[r].found = note[r].found /\ Go(r, "commit") /\ ReadOnly
      BY <1>1, <1>11 DEF EndAs, Keep, Fields
    <2>2. note[r].found # None BY <1>1, <1>11 DEF Finds
    <2>3. QED BY <1>3, <2>1, <2>2
  <1>12. ASSUME at[r] = "identify",
                IF owner = None \/ owner \notin open THEN EndAs(r, "refused")
                ELSE note' = [note EXCEPT ![r].ctx = owner, ![r].found = owner] /\ Keep(r, "read") /\ ReadOnly
         PROVE  Finds(r)'
    BY <1>9, <1>10, <1>12
  <1>13. ASSUME at[r] = "read",
                EndAs(r, IF On(r) \in Scoped(r, "record", note[r].ctx, owner) THEN "done" ELSE "refused")
         PROVE  Finds(r)'
    BY <1>11, <1>13
  <1>14. QED BY <1>5, <1>6, <1>7, <1>8, <1>12, <1>13, Zenon DEF LookUp, mine, c, owner, held, open

\* Entering finds nothing yet, and committing nothing more.
LEMMA FindsEnds ==
  ASSUME AccessInv, MissInv, NEW r \in Request, Is(r, {"LOOKUP"}), Enter(r) \/ Commit(r)
  PROVE  Finds(r)'
  <1>1. Steady(r) /\ Finds(r) BY WorkSteady DEF MissInv, Work
  <1>2. job' = job /\ Is(r, {"LOOKUP"})' BY <1>1 DEF Steady, Deed, Alone, Is
  <1>3. CASE Enter(r)
    <2>1. at[r] = "load" /\ at'[r] = "view" /\ rows' = rows /\ note'[r].map = note[r].map
      BY <1>3, Enters DEF Is, Anonymous
    <2>2. shown' = shown /\ holder' = holder BY <2>1 DEF rows
    <2>3. Borne(note[r].map)' BY <1>1, <2>1, <2>2 DEF Finds, Borne
    <2>4. \A x \in Row : holder'[x] # r BY <1>1, <2>2 DEF Finds
    <2>5. QED BY <1>2, <2>1, <2>3, <2>4 DEF Finds
  <1>4. CASE Commit(r)
    <2>1. at'[r] \in {"done", "refused"} BY <1>4 DEF Commit, Keep, Go, AccessInv, Base
    <2>2. Commits(r)
      <3>1. at[r] = "commit" BY <1>4 DEF Commit
      <3>2. QED BY <1>1, <2>1, <3>1 DEF Steady, Deed, GoesOn, Refuses, Fails, Ended
    <2>3. at[r] = "commit" /\ at'[r] = note[r].end /\ note'[r].began = note[r].began /\ note'[r].found = note[r].found
      BY <2>2 DEF Commits, Fields
    <2>4. \A x \in Row : holder'[x] # r
      <3>1. \A x \in Row : holder[x] # r BY <1>1 DEF Finds
      <3>2. ~GoesOn(r) BY <2>1 DEF GoesOn, Ended
      <3>3. QED BY <1>1, <3>1, <3>2, RowsAfter DEF Steady, Kept
    <2>5. ASSUME NEW q \in Request, Counted(q)', job[q].prefix = job[r].prefix,
                 note[r].found = None, note[r].end = "refused"
          PROVE  note[r].began <= note'[q].ended + TTL
      <3>1. (Counted(q) /\ note'[q].ended = note[q].ended) \/ note'[q].ended = now
        BY <1>1, <2>5, CountedAfter DEF MissInv
      <3>2. Counted(q) => note[r].began <= note[q].ended + TTL BY <1>1, <2>3, <2>5 DEF Finds
      <3>3. now \in Nat /\ note[r].began \in Nat /\ note[r].began <= now /\ TTL \in Nat
        BY AccessConstants DEF MissInv, Times
      <3>4. QED BY <3>1, <3>2, <3>3
    <2>6. QED BY <1>2, <2>1, <2>3, <2>4, <2>5 DEF Finds, Request
  <1>5. QED BY <1>3, <1>4

\* A map that is cached has what was committed before the request that built it began,
\* and lives at most a tick longer than TTL from that beginning.
LEMMA CachedKept ==
  ASSUME AccessInv, MissInv, NEW r \in Request, Steady(r), Times', now' = now,
         cache' = cache \/ Drop(job[r].worker) \/ Rebuilds(r)
  PROVE  Cached'
  <1>1. /\ TTL \in Nat /\ now \in Nat /\ job[r].worker \in Worker /\ job' = job /\ DOMAIN cache = Worker
        /\ \A w \in Worker : DOMAIN cache[w] = {"until", "map"} /\ cache[w].until \in Nat
    BY AccessConstants DEF MissInv, Times, AccessInv, Base, Request, Steady, Deed, Alone
  <1>2. ASSUME NEW w \in Worker, NEW p \in Request, Counted(p)'
        PROVE  cache'[w].map[job[p].prefix] = p \/ cache'[w].until <= note'[p].ended + (TTL + 1)
    <2>1. (Counted(p) /\ note'[p].ended = note[p].ended) \/ note'[p].ended = now
      BY <1>2, CountedAfter DEF MissInv
    <2>2. note'[p].ended \in Nat /\ cache'[w].until \in Nat /\ cache'[w].until <= now + TTL BY <1>2 DEF Times, Request
    <2>3. CASE note'[p].ended = now BY <1>1, <2>2, <2>3
    <2>4. CASE Counted(p) /\ note'[p].ended = note[p].ended
      <3>1. cache[w].map[job[p].prefix] = p \/ cache[w].until <= note[p].ended + (TTL + 1)
        BY <2>4 DEF MissInv, Cached, Since
      <3>2. CASE cache'[w] = cache[w] BY <2>4, <3>1, <3>2
      <3>3. CASE cache'[w].until = 0 BY <1>1, <2>2, <3>3
      <3>4. CASE Rebuilds(r) /\ w = job[r].worker
        <4>1. Is(r, {"LOOKUP"}) /\ at[r] = "build" /\ note[r].todo = {} BY <3>4 DEF Rebuilds
        <4>2. cache'[w].until = now + TTL /\ cache'[w].map = note[r].map
          BY <1>1, <3>4 DEF Rebuilds, UntilWhen
        <4>3. Since(note[r].map, {}, note[r].began, 0) BY <4>1 DEF MissInv, Finds
        <4>4. note[r].map[job[p].prefix] = p \/ note[r].began <= note[p].ended + 0 BY <2>4, <4>3 DEF Since
        <4>5. note[r].began \in Nat /\ now <= note[r].began + 1
          BY <4>1 DEF MissInv, Times, Running, Ended
        <4>6. QED BY <1>1, <2>2, <2>4, <4>2, <4>4, <4>5
      <3>5. QED
        <4>1. CASE cache' = cache BY <3>2, <4>1
        <4>2. CASE Drop(job[r].worker) BY <1>1, <3>2, <3>3, <4>2 DEF Drop
        <4>3. CASE Rebuilds(r)
          <5>1. w # job[r].worker => cache'[w] = cache[w] BY <1>1, <4>3 DEF Rebuilds
          <5>2. QED BY <3>2, <3>4, <4>3, <5>1
        <4>4. QED BY <4>1, <4>2, <4>3
    <2>5. QED BY <2>1, <2>3, <2>4
  <1>3. QED BY <1>1, <1>2 DEF Cached, Since, Request

\* What stands still while the rows and the requests do.
LEMMA StandsStill ==
  ASSUME MissInv, UNCHANGED <<cache, job, at, note, row, shown, holder>>
  PROVE  Configs' /\ Councils' /\ Cached' /\ \A r \in Request : Onboarded(r)' /\ Finds(r)'
  <1>1. Configs' /\ Councils' BY DEF MissInv, Configs, Councils, Row, Table, Council
  <1>2. ASSUME NEW p PROVE (Counted(p)' <=> Counted(p)) /\ \A kinds : Is(p, kinds)' = Is(p, kinds)
    BY DEF Counted, Is, Council
  <1>3. ASSUME NEW w \in Worker, NEW q \in Request, Counted(q)'
        PROVE  cache[w].map[job[q].prefix] = q \/ cache[w].until <= note[q].ended + (TTL + 1)
    <2>1. Counted(q) BY <1>2, <1>3
    <2>2. QED BY <2>1 DEF MissInv, Cached, Since
  <1>4. Cached' BY <1>3 DEF Cached, Since, Request
  <1>5. ASSUME NEW r \in Request PROVE Onboarded(r)'
    BY <1>2 DEF MissInv, Onboarded, Config, Council, ConfigOf
  <1>6. ASSUME NEW r \in Request PROVE Finds(r)'
    <2>1. Finds(r) /\ (Is(r, {"LOOKUP"})' <=> Is(r, {"LOOKUP"})) BY <1>2 DEF MissInv
    <2>2. CASE Is(r, {"LOOKUP"})
      <3>1. \A x \in Row : holder'[x] # r BY <2>1, <2>2 DEF Finds
      <3>2. at[r] \in {"load", "view", "build"} => Borne(note[r].map)' BY <2>1, <2>2 DEF Finds, Borne, Row, Table
      <3>3. ASSUME NEW q \in Request, Counted(q)', at[r] = "build"
            PROVE  note[r].map[job[q].prefix] = q \/ q \in note[r].todo \/ note[r].began <= note[q].ended + 0
        <4>1. Counted(q) BY <1>2, <3>3
        <4>2. QED BY <2>1, <2>2, <3>3, <4>1 DEF Finds, Since
      <3>4. ASSUME NEW q \in Request, Counted(q)', at[r] = "identify"
            PROVE  note[r].map[job[q].prefix] = q \/ note[r].began <= note[q].ended + TTL
        <4>1. Counted(q) BY <1>2, <3>4
        <4>2. QED BY <2>1, <2>2, <3>4, <4>1 DEF Finds, Since
      <3>5. ASSUME NEW q \in Request, Counted(q)', job[q].prefix = job[r].prefix, note[r].found = None,
                   at[r] = "refused" \/ (at[r] = "commit" /\ note[r].end = "refused")
            PROVE  note[r].began <= note[q].ended + TTL
        BY <1>2, <2>1, <2>2, <3>5 DEF Finds
      <3>6. at[r] = "read" => note[r].found # None BY <2>1, <2>2 DEF Finds
      <3>7. at[r] = "build" => Since(note[r].map, note[r].todo, note[r].began, 0)' BY <3>3 DEF Since, Request
      <3>8. at[r] = "identify" => Since(note[r].map, {}, note[r].began, TTL)' BY <3>4 DEF Since, Request
      <3>9. QED BY <3>1, <3>2, <3>5, <3>6, <3>7, <3>8 DEF Finds, Request
    <2>3. CASE ~Is(r, {"LOOKUP"}) BY <2>1, <2>3 DEF Finds
    <2>4. QED BY <2>2, <2>3
  <1>7. QED BY <1>1, <1>4, <1>5, <1>6 DEF Request

\* The clock may tick only when no request began before it stood where it stands.
LEMMA TicksOn ==
  ASSUME AccessInv, MissInv, Tick
  PROVE  MissInv'
  <1>1. UNCHANGED <<cache, job, at, note, row, shown, holder>> /\ now' = now + 1 BY DEF Tick
  <1>2. Times'
    <2>1. now \in Nat /\ TTL \in Nat /\ DOMAIN cache = Worker BY AccessConstants DEF MissInv, Times
    <2>2. ASSUME NEW w \in Worker
          PROVE  DOMAIN cache'[w] = {"until", "map"} /\ cache'[w].until \in Nat /\ cache'[w].until <= now' + TTL
      <3>1. DOMAIN cache[w] = {"until", "map"} /\ cache[w].until \in Nat /\ cache[w].until <= now + TTL
        BY DEF MissInv, Times
      <3>2. QED BY <1>1, <2>1, <3>1
    <2>3. ASSUME NEW r \in Request
          PROVE  /\ note'[r].began \in Nat /\ note'[r].ended \in Nat /\ note'[r].began <= now' /\ note'[r].ended <= now'
                 /\ Running(r)' /\ at'[r] # "load" => now' <= note'[r].began + 1
      <3>1. note[r].began \in Nat /\ note[r].ended \in Nat /\ note[r].began <= now /\ note[r].ended <= now
        BY DEF MissInv, Times
      <3>2. at[r] \in {"load"} \cup Ended \/ note[r].began = now BY DEF Tick
      <3>3. QED BY <1>1, <2>1, <3>1, <3>2 DEF Running
    <2>4. QED BY <1>1, <2>1, <2>2, <2>3 DEF Times, Request
  <1>3. QED BY <1>1, <1>2, StandsStill DEF MissInv, Request

\* Every step.
LEMMA MissStep ==
  ASSUME AccessInv, MissInv, [Next]_vars
  PROVE  MissInv'
  <1>1. ASSUME NEW r \in Request, Work(r) PROVE MissInv'
    <2>1. Steady(r) /\ now' = now /\ (cache' = cache \/ Drop(job[r].worker) \/ Rebuilds(r))
      BY <1>1, WorkSteady, CacheMoves
    <2>2. Times' BY <2>1, TimesKept DEF MissInv
    <2>3. Configs' /\ Councils' BY <2>1, ConfigsKept, CouncilsKept DEF MissInv
    <2>4. Cached' BY <2>1, <2>2, CachedKept
    <2>5. ASSUME NEW q \in Request PROVE Onboarded(q)' BY <1>1, OnboardedKept DEF MissInv
    <2>6. ASSUME NEW q \in Request PROVE Finds(q)'
      <3>1. CASE q # r BY <2>1, <3>1, FindsKept
      <3>2. CASE q = r /\ Is(r, {"LOOKUP"}) BY <1>1, <3>2, KindsOfWork, LookUpFinds, FindsEnds
      <3>3. CASE ~Is(q, {"LOOKUP"}) BY <2>1, <3>3 DEF Steady, Deed, Alone, Finds, Is
      <3>4. QED BY <3>1, <3>2, <3>3
    <2>7. QED BY <2>2, <2>3, <2>4, <2>5, <2>6 DEF MissInv, Request
  <1>2. ASSUME UNCHANGED vars PROVE MissInv'
    <2>1. UNCHANGED <<cache, job, at, note, row, shown, holder>> /\ now' = now BY <1>2 DEF vars
    <2>2. Times' BY <2>1 DEF MissInv, Times, Running, Request
    <2>3. QED BY <2>1, <2>2, StandsStill DEF MissInv, Request
  <1>3. QED BY <1>1, <1>2, TicksOn DEF Next, AllEnded

\* The first states.
LEMMA MissInit ==
  ASSUME Init
  PROVE  MissInv
  <1>1. /\ row = [x \in Row |-> IF x \in DOMAIN FirstRows THEN FirstRows[x] ELSE Absent]
        /\ shown = row /\ now = 1 /\ cache = [w \in Worker |-> [until |-> 0, map |-> NoMap]]
        /\ at = [r \in Request |-> "load"] /\ note = [r \in Request |-> NoNote] /\ holder = [x \in Row |-> 0]
    BY DEF Init
  <1>2. Times BY <1>1, AccessConstants DEF Times, NoNote
  <1>3. ASSUME NEW x \in Row, x[1] = "config" PROVE row[x] \in ConfigRow \cup {Absent}
    BY <1>1, <1>3, AccessConstants DEF RowType
  <1>4. ASSUME NEW x \in Row, NEW y \in Row, x[1] = "config", row[x] # Absent, y[1] = "config", row[y] # Absent,
               row[x].prefix = row[y].prefix
        PROVE  x = y
    <2>1. x \in DOMAIN FirstRows /\ y \in DOMAIN FirstRows /\ row[x] = FirstRows[x] /\ row[y] = FirstRows[y]
      BY <1>1, <1>4
    <2>2. Clash("config", FirstRows[x], FirstRows[y]) BY <1>4, <2>1 DEF Clash
    <2>3. y \in DOMAIN FirstRows \ {x} => ~Clash(x[1], FirstRows[x], FirstRows[y])
      BY <1>4, <2>1, AccessConstants
    <2>4. QED BY <1>4, <2>1, <2>2, <2>3
  <1>5. Configs BY <1>1, <1>3, <1>4 DEF Configs
  <1>6. Councils BY <1>1 DEF Councils
  <1>7. \A q \in Request : ~Counted(q) BY <1>1 DEF Counted
  <1>8. Cached BY <1>7 DEF Cached, Since
  <1>9. ASSUME NEW r \in Request PROVE Onboarded(r) /\ Finds(r)
    <2>1. at[r] = "load" /\ note[r].map = NoMap /\ (\A x \in Row : holder[x] # r)
      BY <1>1, RowsApart DEF NoNote
    <2>2. Borne(note[r].map) BY <2>1 DEF Borne, NoMap
    <2>3. QED BY <2>1, <2>2 DEF Onboarded, Finds
  <1>10. QED BY <1>2, <1>5, <1>6, <1>8, <1>9 DEF MissInv

\* A reference of a council that is open is missed only while the map may be from before
\* the council was committed, which ends with the life of a map.
THEOREM MissesEnd == Spec => []MissesAreRecent
  <1>1. Init => MissInv BY MissInit
  <1>2. AccessInv /\ MissInv /\ [Next]_vars => MissInv' BY MissStep
  <1>3. MissInv => MissesAreRecent BY DEF MissInv, Finds, MissesAreRecent, Counted
  <1>4. QED BY <1>1, <1>2, <1>3, AccessInvariance, PTL DEF Spec
=============================================================================
