---------------------------- MODULE IntakeProofs ------------------------------
(***************************************************************************)
(* A bank reference is paid once, every answer is true and the feed agrees *)
(* with the run of the day, for any number of requests, rows of a file,    *)
(* references, bills and clients.                                          *)
(*                                                                         *)
(* The properties speak of what is committed, but a payment is kept from   *)
(* being inserted twice while neither insert has committed: the invariant  *)
(* is about the newest versions.  It says who holds the payments of a      *)
(* request that is still running, which of them it has made so far, and    *)
(* that a row, once committed, is never taken away.                        *)
(***************************************************************************)
EXTENDS Intake, TLAPS

-----------------------------------------------------------------------------
(* What the statements of Requests do to a set R of rows and to who holds them. *)

\* UPDATE and INSERT of one row.
LEMMA PutDoes ==
  ASSUME NEW R, RowsAre(R), NEW r, NEW x \in R, NEW version, Put(r, x, version)
  PROVE  /\ RowsAre(R)' /\ holder[x] \in {0, r}
         /\ row'[x] = version /\ holder'[x] = r
         /\ \A y \in R \ {x} : row'[y] = row[y] /\ holder'[y] = holder[y]
         /\ shown' = shown
  BY DEF RowsAre, Put, Free

\* UPDATE and INSERT of several rows.
LEMMA WriteDoes ==
  ASSUME NEW R, RowsAre(R), NEW r, NEW new, Write(r, new)
  PROVE  /\ RowsAre(R)' /\ \A x \in DOMAIN new : holder[x] \in {0, r}
         /\ \A x \in R : row'[x] = IF x \in DOMAIN new THEN new[x] ELSE row[x]
         /\ \A x \in R : holder'[x] = IF x \in DOMAIN new THEN r ELSE holder[x]
         /\ shown' = shown
  BY DEF RowsAre, Write, Free

\* SELECT FOR UPDATE.
LEMMA LockDoes ==
  ASSUME NEW R, RowsAre(R), NEW r, NEW x \in R, Lock(r, x)
  PROVE  /\ RowsAre(R)' /\ holder[x] \in {0, r} /\ holder'[x] = r
         /\ \A y \in R : row'[y] = row[y]
         /\ \A y \in R \ {x} : holder'[y] = holder[y]
         /\ shown' = shown
  BY DEF RowsAre, Lock, Put, Free

\* ROLLBACK, also to a savepoint.
LEMMA UndoDoes ==
  ASSUME NEW R, RowsAre(R), NEW xs, Undo(xs)
  PROVE  /\ RowsAre(R)'
         /\ \A x \in R : row'[x] = IF x \in xs THEN shown[x] ELSE row[x]
         /\ \A x \in R : holder'[x] = IF x \in xs THEN 0 ELSE holder[x]
         /\ shown' = shown
  BY DEF RowsAre, Undo

\* COMMIT.
LEMMA PublishDoes ==
  ASSUME NEW R, RowsAre(R), NEW r, Publish(r)
  PROVE  /\ RowsAre(R)'
         /\ \A x \in R : shown'[x] = IF holder[x] = r THEN row[x] ELSE shown[x]
         /\ \A x \in R : holder'[x] = IF holder[x] = r THEN 0 ELSE holder[x]
         /\ row' = row
  BY DEF RowsAre, Publish

\* Whatever a request does to rows, one that nobody holds is as committed.
LEMMA LocksKept ==
  ASSUME NEW R, RowsAre(R), LocksHold(R), NEW r, r # 0,
         \/ \E x \in R : \E version : Put(r, x, version)
         \/ \E new : Write(r, new)
         \/ \E xs : Undo(xs)
         \/ Publish(r)
         \/ ReadOnly
  PROVE  RowsAre(R)' /\ LocksHold(R)'
  <1>1. CASE \E x \in R : \E version : Put(r, x, version)
    <2>1. PICK x \in R : \E version : Put(r, x, version) BY <1>1
    <2>2. PICK version : Put(r, x, version) BY <2>1
    <2>3. QED BY <2>2, PutDoes DEF LocksHold
  <1>2. CASE \E new : Write(r, new)
    <2>1. PICK new : Write(r, new) BY <1>2
    <2>2. QED BY <2>1, WriteDoes DEF LocksHold
  <1>3. CASE \E xs : Undo(xs)
    <2>1. PICK xs : Undo(xs) BY <1>3
    <2>2. QED BY <2>1, UndoDoes DEF LocksHold
  <1>4. CASE Publish(r)
    BY <1>4, PublishDoes DEF LocksHold
  <1>5. CASE ReadOnly
    BY <1>5 DEF ReadOnly, rows, RowsAre, LocksHold
  <1>6. QED BY <1>1, <1>2, <1>3, <1>4, <1>5

-----------------------------------------------------------------------------
(* The invariant. *)

\* The steps a request of each kind goes through.
StepsOf ==
  [WEBHOOK   |-> {"authenticate", "touch", "check", "receive", "lock", "post"},
   FILE      |-> {"receive", "lock", "post", "break"},
   MANUAL    |-> {"accept", "lock", "post"},
   SYNC      |-> {"known", "lock", "post", "record", "break"},
   REVERSE   |-> {"find", "hold", "lock", "undo"},
   RECONCILE |-> {"match", "run", "mark"},
   RESOLVE   |-> {"find", "note"},
   REVOKE    |-> {"revoke"}]

\* A request goes through the steps of its kind, for one notice after another.
Progress(r) ==
  /\ at[r] \in StepsOf[job[r].kind] \cup {"commit"} \cup Ended
  /\ answer[r] \in Seq(Outcomes) /\ Len(answer[r]) <= Len(job[r].notices)
  /\ at[r] \in StepsOf[job[r].kind] => Len(answer[r]) < Len(job[r].notices)
  /\ at[r] \in {"hold", "undo"} \/ (at[r] = "lock" /\ Is(r, "REVERSE")) =>
       \E p \in PaymentId : on[r] = Payment(p) /\ shown[on[r]] # Absent
  /\ at[r] = "note" => on[r] \in ExceptionRows

Running(r) == at[r] \notin Ended

\* The payments of request r: those of the notices it has dealt with, and the one it is
\* about to record or failed to; it holds them till it ends, and they are committed with it
\* or gone.
Payments(r) ==
  \A i \in 1..MaxRows :
    LET x == Payment(<<r, i>>)
    IN /\ row[x] # Absent => /\ \/ i <= Len(answer[r])
                                \/ at[r] \in {"record", "break", "failed"} /\ i = Current(r)
                             /\ at[r] \notin {"lost", "refused"}
                             /\ Running(r) => holder[x] = r
       /\ shown[x] # Absent => at[r] \in {"done", "failed"}

\* A payment that is committed is never taken away, nor is its reference changed.
PaymentStays(p) ==
  LET x == Payment(p)
  IN /\ row[x] \in PaymentRow \cup {Absent} /\ shown[x] \in PaymentRow \cup {Absent}
     /\ shown[x] # Absent => row[x] # Absent /\ row[x].ref = shown[x].ref /\ row[x].id = shown[x].id

\* No two payments, committed or in the making, have one bank reference.
RefsOnce ==
  \A p, q \in PaymentId :
    /\ row[Payment(p)] # Absent /\ row[Payment(q)] # Absent
    /\ row[Payment(p)].ref = row[Payment(q)].ref /\ row[Payment(p)].ref # NoRef
    => p = q

PaymentsOK ==
  /\ \A r \in Request : Payments(r)
  /\ \A p \in PaymentId : PaymentStays(p)
  /\ RefsOnce

Base ==
  /\ job \in Workloads /\ at \in [Request -> Steps]
  /\ DOMAIN answer = Request /\ DOMAIN on = Request
  /\ RowsAre(Row) /\ LocksHold(Row)
  /\ \A r \in Request : Progress(r)

IntakeInv == Base /\ PaymentsOK

-----------------------------------------------------------------------------
(* Where requests are. *)

\* The rows are all different.
LEMMA RowsApart ==
  ASSUME NEW p \in PaymentId
  PROVE  /\ Payment(p) \in Row
         /\ \A q \in PaymentId : Payment(p) = Payment(q) => p = q
         /\ \A ref : Payment(p) # Feed(ref)
         /\ \A id : Payment(p) # Sync(id)
         /\ \A b : Payment(p) # BillLock(b)
         /\ \A c : Payment(p) # ApiClient(c)
         /\ \A r, ref : Payment(p) # Exception(r, ref)
         /\ Payment(p) # Run
  BY DEF Payment, Feed, Sync, BillLock, ApiClient, Exception, Run, Row

\* What a job may be.
LEMMA JobsAreGood ==
  ASSUME Base, NEW r \in Request
  PROVE  /\ job[r].kind \in Kinds /\ Len(job[r].notices) \in 1..MaxRows
         /\ job[r].notices \in Seq(Notice)
         /\ job[r].kind \notin {"FILE", "SYNC"} => Len(job[r].notices) = 1
         /\ r \in 1..N /\ r # 0
  BY IntakeConstants DEF Base, Request

\* Which kinds of request reach a step.
LEMMA KindAt ==
  ASSUME Base, NEW r \in Request
  PROVE  /\ at[r] \in {"authenticate", "touch", "check"} => job[r].kind = "WEBHOOK"
         /\ at[r] = "receive" => job[r].kind \in {"WEBHOOK", "FILE"}
         /\ at[r] = "accept" => job[r].kind = "MANUAL"
         /\ at[r] \in {"known", "record"} => job[r].kind = "SYNC"
         /\ at[r] = "lock" => job[r].kind \in {"WEBHOOK", "FILE", "MANUAL", "SYNC", "REVERSE"}
         /\ at[r] = "post" => job[r].kind \in {"WEBHOOK", "FILE", "MANUAL", "SYNC"}
         /\ at[r] \in {"hold", "undo"} => job[r].kind = "REVERSE"
         /\ at[r] = "find" => job[r].kind \in {"REVERSE", "RESOLVE"}
         /\ at[r] \in {"match", "run", "mark"} => job[r].kind = "RECONCILE"
         /\ at[r] = "note" => job[r].kind = "RESOLVE"
         /\ at[r] = "revoke" => job[r].kind = "REVOKE"
         /\ at[r] = "break" => job[r].kind \in {"FILE", "SYNC"}
  <1>1. job[r].kind \in Kinds /\ at[r] \in StepsOf[job[r].kind] \cup {"commit"} \cup Ended
    BY JobsAreGood DEF Base, Progress
  <1>2. QED BY <1>1 DEF StepsOf, Kinds, Ended

\* A request at a step of its kind has a notice to deal with; one of a single notice has
\* dealt with none.
LEMMA AtWork ==
  ASSUME Base, NEW r \in Request, at[r] \in Steps \ ({"commit", "break"} \cup Ended)
  PROVE  /\ at[r] \in StepsOf[job[r].kind] /\ Running(r)
         /\ Len(answer[r]) \in Nat /\ Current(r) \in 1..Len(job[r].notices) /\ Current(r) \in 1..MaxRows
         /\ Of(r) \in Notice
         /\ job[r].kind \notin {"FILE", "SYNC"} => Len(answer[r]) = 0
  <1>1. at[r] \in StepsOf[job[r].kind] /\ Running(r) /\ answer[r] \in Seq(Outcomes)
        /\ Len(answer[r]) < Len(job[r].notices)
    BY DEF Base, Progress, Running
  <1>2. Len(answer[r]) \in Nat BY <1>1
  <1>3. Current(r) \in 1..Len(job[r].notices)
    BY <1>1, <1>2, JobsAreGood DEF Current
  <1>4. Of(r) \in Notice
    BY <1>3, JobsAreGood DEF Of
  <1>5. QED BY <1>1, <1>2, <1>3, <1>4, JobsAreGood, IntakeConstants

\* Request r makes a step and others stay where they are.
Alone(r) ==
  /\ job' = job /\ at' \in [Request -> Steps] /\ DOMAIN answer' = Request /\ DOMAIN on' = Request
  /\ \A q \in Request \ {r} : at'[q] = at[q] /\ answer'[q] = answer[q] /\ on'[q] = on[q]

\* What is committed is not taken away.
CommittedStays == \A p \in PaymentId : shown[Payment(p)] # Absent => shown'[Payment(p)] # Absent

\* A step of one request keeps where the others are.
LEMMA BaseKept ==
  ASSUME Base, NEW r \in Request, Alone(r), CommittedStays, Progress(r)', RowsAre(Row)', LocksHold(Row)'
  PROVE  Base'
  <1>1. ASSUME NEW q \in Request PROVE Progress(q)'
    <2>1. CASE q = r BY <2>1
    <2>2. CASE q # r
      <3>1. Progress(q) /\ job' = job /\ at'[q] = at[q] /\ answer'[q] = answer[q] /\ on'[q] = on[q]
        BY <2>2 DEF Base, Alone
      <3>2. at[q] \in {"hold", "undo"} \/ (at[q] = "lock" /\ Is(q, "REVERSE")) =>
              \E p \in PaymentId : on[q] = Payment(p) /\ shown'[on[q]] # Absent
        BY <3>1 DEF Progress, CommittedStays
      <3>3. QED BY <3>1, <3>2 DEF Progress, Is
    <2>3. QED BY <2>1, <2>2
  <1>2. QED BY <1>1 DEF Base, Alone

\* The answer to a notice: then the next one, or the end.
LEMMA AnswerMoves ==
  ASSUME Base, NEW r \in Request, NEW outcome \in Outcomes, Answer(r, outcome),
         at[r] \in Steps \ ({"commit", "break"} \cup Ended)
  PROVE  /\ Alone(r) /\ Progress(r)' /\ on' = on
         /\ answer'[r] = Append(answer[r], outcome) /\ Len(answer'[r]) = Len(answer[r]) + 1
         /\ at'[r] \in {"authenticate", "receive", "accept", "known", "find", "match", "revoke", "commit"}
  <1>1. /\ answer[r] \in Seq(Outcomes) /\ Len(answer[r]) \in Nat /\ Len(answer[r]) < Len(job[r].notices)
        /\ job[r].kind \in Kinds /\ Len(job[r].notices) \in Nat
    BY AtWork, JobsAreGood DEF Base, Progress
  <1>2. answer'[r] = Append(answer[r], outcome) /\ on' = on /\ job' = job
    BY DEF Answer, Base
  <1>3. Append(answer[r], outcome) \in Seq(Outcomes) /\ Len(Append(answer[r], outcome)) = Len(answer[r]) + 1
    BY <1>1
  <1>4. at'[r] = IF Len(answer[r]) + 1 < Len(job[r].notices) THEN Start[job[r].kind] ELSE "commit"
    BY DEF Answer, Base, Current
  <1>5. /\ Start[job[r].kind] \in StepsOf[job[r].kind] \cap Steps
        /\ Start[job[r].kind] \in {"authenticate", "receive", "accept", "known", "find", "match", "revoke"}
    BY <1>1 DEF Kinds, Start, StepsOf, Steps
  <1>6. "commit" \notin StepsOf[job[r].kind] /\ "commit" \in Steps
    BY <1>1 DEF Kinds, StepsOf, Steps
  <1>7. Alone(r)
    BY <1>4, <1>5, <1>6 DEF Alone, Answer, Base
  <1>8. at'[r] \in {"authenticate", "receive", "accept", "known", "find", "match", "revoke", "commit"}
    BY <1>4, <1>5
  <1>9. Progress(r)'
    <2>1. answer'[r] \in Seq(Outcomes) /\ Len(answer'[r]) <= Len(job[r].notices)
      BY <1>1, <1>2, <1>3
    <2>2. at'[r] \in StepsOf[job[r].kind] => Len(answer'[r]) < Len(job[r].notices)
      BY <1>1, <1>2, <1>3, <1>4, <1>6
    <2>3. at'[r] \in StepsOf[job[r].kind] \cup {"commit"}
      BY <1>4, <1>5
    <2>4. QED BY <1>2, <1>8, <2>1, <2>2, <2>3 DEF Progress
  <1>10. QED BY <1>2, <1>3, <1>7, <1>8, <1>9

\* Another step of the same notice, or the end.
LEMMA GotoMoves ==
  ASSUME Base, NEW r \in Request, NEW step \in Steps, Goto(r, step),
         step \in StepsOf[job[r].kind] \cup {"break"} \cup Ended, Running(r),
         at[r] = "commit" => step \in Ended,
         step = "break" => job[r].kind \in {"FILE", "SYNC"},
         step \notin {"hold", "note"},
         step = "undo" \/ (step = "lock" /\ Is(r, "REVERSE")) =>
           at[r] \in {"hold", "undo"} \/ (at[r] = "lock" /\ Is(r, "REVERSE")),
         CommittedStays
  PROVE  Alone(r) /\ Progress(r)' /\ on' = on /\ answer' = answer /\ at'[r] = step
  <1>1. job' = job /\ on' = on /\ answer' = answer /\ at'[r] = step /\ Alone(r)
    BY DEF Goto, Go, Stay, Base, Alone
  <1>2. Progress(r) /\ job[r].kind \in Kinds BY JobsAreGood DEF Base
  <1>3. step \in StepsOf[job[r].kind] \cup Ended
    BY <1>2 DEF StepsOf, Kinds
  <1>4. \A k \in Kinds : StepsOf[k] \cap (Ended \cup {"commit"}) = {}
    BY DEF StepsOf, Kinds, Ended
  <1>5. step \in StepsOf[job[r].kind] => Len(answer[r]) < Len(job[r].notices)
    BY <1>2, <1>4 DEF Progress, Running
  <1>6. step = "undo" \/ (step = "lock" /\ Is(r, "REVERSE")) =>
          \E p \in PaymentId : on[r] = Payment(p) /\ shown'[on[r]] # Absent
    BY <1>2 DEF Progress, CommittedStays
  <1>7. QED BY <1>1, <1>2, <1>3, <1>5, <1>6 DEF Progress, Is

-----------------------------------------------------------------------------
(* Steps that leave payments alone. *)

NotPayments == Row \ {Payment(p) : p \in PaymentId}

PaymentsUntouched ==
  /\ RowsAre(Row)' /\ LocksHold(Row)'
  /\ \A p \in PaymentId : LET x == Payment(p)
                          IN row'[x] = row[x] /\ shown'[x] = shown[x] /\ holder'[x] = holder[x]

\* Statements about other rows.
LEMMA Elsewhere ==
  ASSUME Base, NEW r \in Request,
         \/ ReadOnly
         \/ \E x \in NotPayments : \E version : Put(r, x, version)
         \/ \E new : DOMAIN new \subseteq NotPayments /\ Write(r, new)
         \/ \E xs \in SUBSET NotPayments : Undo(xs)
  PROVE  PaymentsUntouched /\ CommittedStays
  <1>1. RowsAre(Row) /\ LocksHold(Row) /\ r # 0 /\ NotPayments \subseteq Row
    BY JobsAreGood DEF Base, NotPayments
  <1>2. \A p \in PaymentId : Payment(p) \in Row /\ Payment(p) \notin NotPayments
    BY RowsApart DEF NotPayments
  <1>4. CASE ReadOnly
    <2>1. RowsAre(Row)' /\ LocksHold(Row)' BY <1>1, <1>4, LocksKept
    <2>2. QED BY <1>4, <2>1 DEF ReadOnly, rows, PaymentsUntouched, CommittedStays
  <1>5. CASE \E x \in NotPayments : \E version : Put(r, x, version)
    <2>1. PICK x \in NotPayments : \E version : Put(r, x, version) BY <1>5
    <2>2. PICK version : Put(r, x, version) BY <2>1
    <2>3. x \in Row BY <1>1
    <2>4. shown' = shown /\ \A y \in Row \ {x} : row'[y] = row[y] /\ holder'[y] = holder[y]
      BY <1>1, <2>2, <2>3, PutDoes
    <2>5. RowsAre(Row)' /\ LocksHold(Row)' BY <1>1, <2>2, <2>3, LocksKept
    <2>6. QED BY <1>2, <2>4, <2>5 DEF PaymentsUntouched, CommittedStays
  <1>6. CASE \E new : DOMAIN new \subseteq NotPayments /\ Write(r, new)
    <2>1. PICK new : DOMAIN new \subseteq NotPayments /\ Write(r, new) BY <1>6
    <2>2. /\ \A x \in Row : row'[x] = IF x \in DOMAIN new THEN new[x] ELSE row[x]
          /\ \A x \in Row : holder'[x] = IF x \in DOMAIN new THEN r ELSE holder[x]
          /\ shown' = shown
      BY <1>1, <2>1, WriteDoes
    <2>3. RowsAre(Row)' BY <1>1, <2>1, WriteDoes
    <2>4. LocksHold(Row)' BY <1>1, <2>2 DEF LocksHold
    <2>5. QED BY <1>2, <2>1, <2>2, <2>3, <2>4 DEF PaymentsUntouched, CommittedStays
  <1>7. CASE \E xs \in SUBSET NotPayments : Undo(xs)
    <2>1. PICK xs \in SUBSET NotPayments : Undo(xs) BY <1>7
    <2>2. /\ \A x \in Row : row'[x] = IF x \in xs THEN shown[x] ELSE row[x]
          /\ \A x \in Row : holder'[x] = IF x \in xs THEN 0 ELSE holder[x]
          /\ shown' = shown
      BY <1>1, <2>1, UndoDoes
    <2>3. RowsAre(Row)' /\ LocksHold(Row)' BY <1>1, <2>1, LocksKept
    <2>4. QED BY <1>2, <2>1, <2>2, <2>3 DEF PaymentsUntouched, CommittedStays
  <1>8. QED BY <1>4, <1>5, <1>6, <1>7

\* A step that leaves payments alone keeps the invariant, unless it recorded nothing or
\* ended with payments in hand.
LEMMA QuietStep ==
  ASSUME IntakeInv, NEW r \in Request, Running(r), Alone(r), Progress(r)',
         PaymentsUntouched, CommittedStays,
         Len(answer'[r]) \in Nat /\ Len(answer[r]) <= Len(answer'[r]),
         at[r] # "break",
         at[r] = "record" => Len(answer'[r]) = Len(answer[r]) + 1 \/ (answer'[r] = answer[r] /\ at'[r] = "break"),
         at'[r] \in {"lost", "refused"} => Len(answer[r]) = 0 /\ at[r] # "record"
  PROVE  IntakeInv'
  <1>1. Base' BY BaseKept DEF IntakeInv, PaymentsUntouched
  <1>2. Len(answer[r]) \in Nat BY DEF IntakeInv, Base, Progress
  <1>3. ASSUME NEW q \in Request PROVE Payments(q)'
    <2>1. Payments(q) BY DEF IntakeInv, PaymentsOK
    <2>2. \A i \in 1..MaxRows : <<q, i>> \in PaymentId BY DEF PaymentId
    <2>3. CASE q # r
      <3>1. at'[q] = at[q] /\ answer'[q] = answer[q] BY <2>3 DEF Alone
      <3>2. QED BY <2>1, <2>2, <3>1 DEF Payments, PaymentsUntouched, Running, Current
    <2>4. CASE q = r
      <3>1. ASSUME NEW i \in 1..MaxRows, row'[Payment(<<r, i>>)] # Absent
            PROVE  /\ i <= Len(answer'[r]) \/ (at'[r] = "break" /\ i = Len(answer'[r]) + 1)
                   /\ at'[r] \notin {"lost", "refused"}
                   /\ holder'[Payment(<<r, i>>)] = r
        <4>1. /\ row[Payment(<<r, i>>)] # Absent
              /\ holder'[Payment(<<r, i>>)] = holder[Payment(<<r, i>>)]
          BY <2>2, <2>4, <3>1 DEF PaymentsUntouched
        <4>2. /\ i <= Len(answer[r]) \/ (at[r] = "record" /\ i = Len(answer[r]) + 1)
              /\ holder[Payment(<<r, i>>)] = r
          BY <2>1, <2>4, <4>1 DEF Payments, Running, Current, Ended
        <4>3. QED BY <1>2, <4>1, <4>2
      <3>2. ASSUME NEW i \in 1..MaxRows PROVE shown'[Payment(<<r, i>>)] = Absent
        <4>1. shown[Payment(<<r, i>>)] = Absent
          BY <2>1, <2>4 DEF Payments, Running, Ended
        <4>2. QED BY <2>2, <2>4, <4>1 DEF PaymentsUntouched
      <3>3. QED BY <2>4, <3>1, <3>2 DEF Payments, Current
    <2>5. QED BY <2>3, <2>4
  <1>4. ASSUME NEW p \in PaymentId PROVE PaymentStays(p)'
    BY DEF IntakeInv, PaymentsOK, PaymentStays, PaymentsUntouched
  <1>5. RefsOnce'
    BY DEF IntakeInv, PaymentsOK, RefsOnce, PaymentsUntouched
  <1>6. QED BY <1>1, <1>3, <1>4, <1>5 DEF IntakeInv, PaymentsOK

\* Which rows are no payments.
LEMMA OtherRows ==
  /\ \A ref \in Ref : Feed(ref) \in NotPayments
  /\ \A id \in Id : Sync(id) \in NotPayments
  /\ \A b \in Bill : BillLock(b) \in NotPayments
  /\ \A c \in Client : ApiClient(c) \in NotPayments
  /\ \A r \in Request, ref \in Ref : Exception(r, ref) \in NotPayments
  /\ ExceptionRows \subseteq NotPayments /\ FeedRows \subseteq NotPayments
  /\ Run \in NotPayments
  BY DEF NotPayments, Payment, Feed, Sync, BillLock, ApiClient, Exception, Run, Row, FeedRows, ExceptionRows

\* An answer that leaves payments alone.
LEMMA QuietAnswer ==
  ASSUME IntakeInv, NEW r \in Request, at[r] \in Steps \ ({"commit", "break"} \cup Ended),
         NEW outcome \in Outcomes, Answer(r, outcome), PaymentsUntouched, CommittedStays
  PROVE  IntakeInv'
  <1>1. Running(r) /\ Len(answer[r]) \in Nat BY AtWork DEF IntakeInv
  <1>2. /\ Alone(r) /\ Progress(r)' /\ Len(answer'[r]) = Len(answer[r]) + 1
        /\ at'[r] \notin {"lost", "refused"}
    BY AnswerMoves DEF IntakeInv
  <1>3. QED BY <1>1, <1>2, QuietStep

\* A step on the way to an answer that leaves payments alone.
LEMMA QuietGoto ==
  ASSUME IntakeInv, NEW r \in Request, at[r] \in Steps \ ({"commit", "break", "record"} \cup Ended),
         NEW step \in Steps, Goto(r, step), PaymentsUntouched, CommittedStays,
         step \in StepsOf[job[r].kind] \cup {"refused"},
         step \notin {"hold", "note"},
         step = "undo" \/ (step = "lock" /\ Is(r, "REVERSE")) =>
           at[r] = "hold" \/ (at[r] = "lock" /\ Is(r, "REVERSE")),
         step = "refused" => Len(answer[r]) = 0
  PROVE  IntakeInv'
  <1>1. Running(r) /\ Len(answer[r]) \in Nat BY AtWork DEF IntakeInv
  <1>2. job[r].kind \in Kinds BY JobsAreGood DEF IntakeInv
  <1>3. step = "break" => job[r].kind \in {"FILE", "SYNC"}
    BY <1>2 DEF StepsOf, Kinds
  <1>4. Alone(r) /\ Progress(r)' /\ answer' = answer /\ at'[r] = step
    BY <1>1, <1>3, GotoMoves DEF IntakeInv, Ended
  <1>5. step # "lost"
    BY <1>2 DEF StepsOf, Kinds
  <1>6. QED BY <1>1, <1>4, <1>5, QuietStep

\* The rows a notice names.
LEMMA NoticeRows ==
  ASSUME Base, NEW r \in Request, at[r] \in Steps \ ({"commit", "break"} \cup Ended)
  PROVE  /\ ApiClient(Of(r).client) \in NotPayments /\ BillLock(Of(r).bill) \in NotPayments
         /\ Is(r, "WEBHOOK") \/ Is(r, "FILE") => Of(r).ref \in Ref /\ Feed(Of(r).ref) \in NotPayments
         /\ Is(r, "SYNC") => Of(r).id \in Id /\ Sync(Of(r).id) \in NotPayments
  <1>1. Of(r) \in Notice /\ Current(r) \in 1..Len(job[r].notices) /\ job[r].notices \in Seq(Notice)
    BY AtWork, JobsAreGood
  <1>2. Current(r) \in DOMAIN job[r].notices /\ job \in Workloads
    BY <1>1 DEF Base
  <1>3. Is(r, "WEBHOOK") \/ Is(r, "FILE") => Of(r).ref # NoRef
    BY <1>2, IntakeConstants DEF Is, Of
  <1>4. Is(r, "SYNC") => Of(r).id # NoId
    BY <1>2, IntakeConstants DEF Is, Of
  <1>5. QED BY <1>1, <1>3, <1>4, OtherRows DEF Notice

\* What leaves payments alone, in the forms in which actions use it.
LEMMA LooksOnly ==
  ASSUME Base, NEW r \in Request, ReadOnly
  PROVE  PaymentsUntouched /\ CommittedStays
  BY Elsewhere

\* UPDATE and INSERT of one row that is no payment.
LEMMA PutsElsewhere ==
  ASSUME Base, NEW r \in Request, NEW x \in NotPayments, NEW version, Put(r, x, version)
  PROVE  PaymentsUntouched /\ CommittedStays
  <1>1. \E y \in NotPayments : \E v : Put(r, y, v) OBVIOUS
  <1>2. QED BY <1>1, Elsewhere

\* The same of several rows.
LEMMA WritesElsewhere ==
  ASSUME Base, NEW r \in Request, NEW new, DOMAIN new \subseteq NotPayments, Write(r, new)
  PROVE  PaymentsUntouched /\ CommittedStays
  <1>1. \E f : DOMAIN f \subseteq NotPayments /\ Write(r, f) OBVIOUS
  <1>2. QED BY <1>1, Elsewhere

\* WebhookView and OTCSettlementView before the payment.
LEMMA FeedSteps ==
  ASSUME IntakeInv, NEW r \in Request, Authenticate(r) \/ Touch(r) \/ CheckFeed(r) \/ Receive(r)
  PROVE  IntakeInv'
  <1> DEFINE steps == {"authenticate", "touch", "check", "receive", "lock", "refused"}
  <1>1. Base /\ steps \subseteq Steps /\ {"duplicate", "invalid", "unmatched"} \subseteq Outcomes
    BY DEF IntakeInv, Steps, Outcomes, Ended
  <1>2. at[r] \in {"authenticate", "touch", "check", "receive"}
    BY DEF Authenticate, Touch, CheckFeed, Receive
  <1>3. at[r] \in Steps \ ({"commit", "break", "record"} \cup Ended)
    BY <1>2 DEF Steps, Ended
  <1>4. CASE Authenticate(r)
    <2>1. PICK step \in {"touch", "refused"} : Goto(r, step) BY <1>4 DEF Authenticate
    <2>2. job[r].kind = "WEBHOOK" /\ ReadOnly BY <1>1, <1>4, KindAt DEF Authenticate
    <2>3. "touch" \in StepsOf[job[r].kind] BY <2>2 DEF StepsOf
    <2>4. Len(answer[r]) = 0 BY <1>1, <1>3, <2>2, AtWork
    <2>5. PaymentsUntouched /\ CommittedStays BY <1>1, <2>2, LooksOnly
    <2>6. QED BY <1>1, <1>3, <2>1, <2>3, <2>4, <2>5, QuietGoto
  <1>5. CASE Touch(r)
    <2>1. job[r].kind = "WEBHOOK" BY <1>1, <1>5, KindAt DEF Touch
    <2>2. "check" \in StepsOf[job[r].kind] BY <2>1 DEF StepsOf
    <2>3. PaymentsUntouched /\ CommittedStays
      BY <1>1, <1>3, <1>5, NoticeRows, PutsElsewhere DEF Touch, Lock
    <2>4. QED BY <1>1, <1>3, <1>5, <2>2, <2>3, QuietGoto DEF Touch
  <1>6. CASE CheckFeed(r)
    <2>1. job[r].kind = "WEBHOOK" BY <1>1, <1>6, KindAt DEF CheckFeed
    <2>2. "receive" \in StepsOf[job[r].kind] BY <2>1 DEF StepsOf
    <2>3. PaymentsUntouched /\ CommittedStays BY <1>1, <1>6, LooksOnly DEF CheckFeed
    <2>4. Answer(r, "duplicate") \/ Goto(r, "receive") BY <1>6 DEF CheckFeed
    <2>5. QED BY <1>1, <1>3, <2>2, <2>3, <2>4, QuietGoto, QuietAnswer
  <1>7. CASE Receive(r)
    <2>1. job[r].kind \in {"WEBHOOK", "FILE"} BY <1>1, <1>7, KindAt DEF Receive
    <2>2. "lock" \in StepsOf[job[r].kind] /\ ~Is(r, "REVERSE") BY <2>1 DEF StepsOf, Is
    <2>3. Feed(Of(r).ref) \in NotPayments BY <1>1, <1>3, <2>1, NoticeRows DEF Is
    <2>4. CASE ReadOnly /\ (Answer(r, "invalid") \/ Answer(r, "duplicate"))
      <3>1. PaymentsUntouched /\ CommittedStays BY <1>1, <2>4, LooksOnly
      <3>2. QED BY <1>1, <1>3, <2>4, <3>1, QuietAnswer
    <2>5. CASE Put(r, Feed(Of(r).ref), FeedEntry(r, "UNMATCHED", NoPayment)) /\ Goto(r, "lock")
      <3>1. PaymentsUntouched /\ CommittedStays BY <1>1, <2>3, <2>5, PutsElsewhere
      <3>2. QED BY <1>1, <1>3, <2>2, <2>5, <3>1, QuietGoto
    <2>6. CASE Put(r, Feed(Of(r).ref), FeedEntry(r, "EXCEPTION", NoPayment)) /\ Answer(r, "unmatched")
      <3>1. PaymentsUntouched /\ CommittedStays BY <1>1, <2>3, <2>6, PutsElsewhere
      <3>2. QED BY <1>1, <1>3, <2>6, <3>1, QuietAnswer
    <2>7. QED BY <1>7, <2>4, <2>5, <2>6 DEF Receive
  <1>8. QED BY <1>4, <1>5, <1>6, <1>7

\* Payments typed in or replayed, before they are posted, and the records of a replay.
LEMMA RecordSteps ==
  ASSUME IntakeInv, RowsOK(row), RowsOK(shown), NEW r \in Request,
         Accept(r) \/ LookUpRecord(r) \/ Record(r)
  PROVE  IntakeInv'
  <1>1. Base /\ {"lock", "record", "refused"} \subseteq Steps /\ {"ACCEPTED", "REJECTED"} \subseteq Outcomes
    BY DEF IntakeInv, Steps, Outcomes, Ended
  <1>2. at[r] \in Steps \ ({"commit", "break"} \cup Ended)
    BY DEF Accept, LookUpRecord, Record, Steps, Ended
  <1>3. CASE Accept(r)
    <2>1. job[r].kind = "MANUAL" BY <1>1, <1>3, KindAt DEF Accept
    <2>2. PICK step \in {"lock", "refused"} : Goto(r, step) BY <1>3 DEF Accept
    <2>3. "lock" \in StepsOf[job[r].kind] /\ ~Is(r, "REVERSE") BY <2>1 DEF StepsOf, Is
    <2>4. Len(answer[r]) = 0 BY <1>1, <1>2, <2>1, AtWork
    <2>5. PaymentsUntouched /\ CommittedStays BY <1>1, <1>3, LooksOnly DEF Accept
    <2>6. at[r] # "record" BY <1>3 DEF Accept
    <2>7. QED BY <1>1, <1>2, <2>2, <2>3, <2>4, <2>5, <2>6, QuietGoto
  <1>4. CASE LookUpRecord(r)
    <2>1. job[r].kind = "SYNC" /\ Is(r, "SYNC") BY <1>1, <1>4, KindAt DEF LookUpRecord, Is
    <2>2. {"lock", "record"} \subseteq StepsOf[job[r].kind] /\ ~Is(r, "REVERSE") BY <2>1 DEF StepsOf, Is
    <2>3. PaymentsUntouched /\ CommittedStays BY <1>1, <1>4, LooksOnly DEF LookUpRecord
    <2>4. at[r] # "record" BY <1>4 DEF LookUpRecord
    <2>5. CASE There(r, Sync(Of(r).id)) /\ Answer(r, Sees(r, Sync(Of(r).id)))
      <3>1. Of(r).id \in Id BY <1>1, <1>2, <2>1, NoticeRows
      <3>2. Sees(r, Sync(Of(r).id)) \in {"ACCEPTED", "REJECTED"}
        BY <2>5, <3>1 DEF There, Sees, RowsOK
      <3>3. QED BY <1>1, <1>2, <2>3, <2>5, <3>2, QuietAnswer
    <2>6. CASE Goto(r, "lock") \/ Goto(r, "record")
      BY <1>1, <1>2, <2>2, <2>3, <2>4, <2>6, QuietGoto
    <2>7. QED BY <1>4, <2>5, <2>6 DEF LookUpRecord
  <1>5. CASE Record(r)
    <2>1. Is(r, "SYNC") BY <1>1, <1>5, KindAt DEF Record, Is
    <2>2. Of(r).id \in Id /\ Sync(Of(r).id) \in NotPayments BY <1>1, <1>2, <2>1, NoticeRows
    <2>3. CASE shown[Sync(Of(r).id)] # Absent /\ Answer(r, shown[Sync(Of(r).id)]) /\ ReadOnly
      <3>1. PaymentsUntouched /\ CommittedStays BY <1>1, <2>3, LooksOnly
      <3>2. shown[Sync(Of(r).id)] \in {"ACCEPTED", "REJECTED"} BY <2>2, <2>3 DEF RowsOK
      <3>3. QED BY <1>1, <1>2, <2>3, <3>1, <3>2, QuietAnswer
    <2>4. ASSUME NEW outcome \in {"ACCEPTED", "REJECTED"}, Put(r, Sync(Of(r).id), outcome), Answer(r, outcome)
          PROVE  IntakeInv'
      <3>1. PaymentsUntouched /\ CommittedStays BY <1>1, <2>2, <2>4, PutsElsewhere
      <3>2. QED BY <1>1, <1>2, <2>4, <3>1, QuietAnswer
    <2>5. QED BY <1>5, <2>3, <2>4 DEF Record
  <1>6. QED BY <1>3, <1>4, <1>5

\* post_payment and reverse_payment lock the bill.
LEMMA LockStep ==
  ASSUME IntakeInv, NEW r \in Request, LockBill(r)
  PROVE  IntakeInv'
  <1>1. Base /\ at[r] = "lock" /\ {"undo", "post"} \subseteq Steps
    BY DEF IntakeInv, LockBill, Steps
  <1>2. at[r] \in Steps \ ({"commit", "break", "record"} \cup Ended) BY <1>1 DEF Steps, Ended
  <1>3. BillLock(BillOf(r)) \in NotPayments
    <2>1. CASE Is(r, "REVERSE")
      <3>1. PICK p \in PaymentId : on[r] = Payment(p) /\ shown[on[r]] # Absent
        BY <1>1, <2>1 DEF Base, Progress
      <3>2. shown[on[r]] \in PaymentRow BY <3>1 DEF IntakeInv, PaymentsOK, PaymentStays
      <3>3. QED BY <2>1, <3>2, OtherRows DEF BillOf, PaymentRow
    <2>2. CASE ~Is(r, "REVERSE") BY <1>1, <1>2, <2>2, NoticeRows DEF BillOf
    <2>3. QED BY <2>1, <2>2
  <1>4. PaymentsUntouched /\ CommittedStays BY <1>1, <1>3, PutsElsewhere DEF LockBill, Lock
  <1>5. job[r].kind \in {"WEBHOOK", "FILE", "MANUAL", "SYNC", "REVERSE"} BY <1>1, KindAt
  <1>6. PICK step \in {"undo", "post"} :
          Goto(r, step) /\ step \in StepsOf[job[r].kind] /\ (step = "undo" => Is(r, "REVERSE"))
    BY <1>5 DEF LockBill, StepsOf, Is
  <1>7. QED BY <1>1, <1>2, <1>4, <1>6, QuietGoto

\* run_reconciliation, resolve_exception and the revocation of a client.
LEMMA ReconciliationSteps ==
  ASSUME IntakeInv, NEW r \in Request,
         \/ MatchFeed(r) \/ OpenRun(r) \/ Mark(r) \/ Revoke(r)
         \/ (Resolve(r) /\ shown[on[r]] # "DELETED")
  PROVE  IntakeInv'
  <1>1. Base /\ {"run", "mark"} \subseteq Steps /\ {"reconciled", "resolved", "revoked"} \subseteq Outcomes
    BY DEF IntakeInv, Steps, Outcomes
  <1>2. at[r] \in Steps \ ({"commit", "break", "record"} \cup Ended)
    BY DEF MatchFeed, OpenRun, Mark, Revoke, Resolve, Steps, Ended
  <1>3. CASE MatchFeed(r)
    <2>1. PaymentsUntouched /\ CommittedStays BY <1>1, <1>3, LooksOnly DEF MatchFeed
    <2>2. at[r] = "match" /\ at' = [at EXCEPT ![r] = "run"] /\ UNCHANGED <<job, answer, on>>
      BY <1>3 DEF MatchFeed, Go
    <2>3. Alone(r) /\ at'[r] = "run" BY <1>1, <2>2 DEF Alone, Base
    <2>4. Progress(r) /\ at[r] \in StepsOf[job[r].kind] /\ Len(answer[r]) \in Nat /\ job[r].kind = "RECONCILE"
      BY <1>1, <1>2, <2>2, AtWork, KindAt DEF Base
    <2>5. "run" \in StepsOf[job[r].kind] BY <2>4 DEF StepsOf
    <2>6. Progress(r)' BY <2>2, <2>3, <2>4, <2>5 DEF Progress
    <2>7. Running(r) BY <1>1, <1>2, AtWork
    <2>8. QED BY <2>1, <2>2, <2>3, <2>4, <2>6, <2>7, QuietStep
  <1>4. CASE OpenRun(r)
    <2>1. RunRows \subseteq NotPayments BY OtherRows DEF RunRows, Listed
    <2>2. PaymentsUntouched /\ CommittedStays BY <1>1, <1>4, <2>1, WritesElsewhere DEF OpenRun
    <2>3. job[r].kind = "RECONCILE" BY <1>1, <1>4, KindAt DEF OpenRun
    <2>4. "mark" \in StepsOf[job[r].kind] BY <2>3 DEF StepsOf
    <2>5. QED BY <1>1, <1>2, <1>4, <2>2, <2>4, QuietGoto DEF OpenRun
  <1>5. CASE Mark(r)
    <2> DEFINE there == {ref \in Ref : shown[Feed(ref)] # Absent}
               lone == {ref \in there : match[r][ref] = NoPayment}
               xs == {Feed(ref) : ref \in there} \cup {Exception(r, ref) : ref \in lone} \cup {Run}
               new == [x \in xs |->
                         CASE x = Run            -> RunStatus(lone)
                           [] x[1] = "exception" -> "OPEN"
                           [] x[1] = "feed" /\ x[2] \in lone -> [shown[x] EXCEPT !.status = "EXCEPTION"]
                           [] OTHER -> [shown[x] EXCEPT !.status = "MATCHED", !.payment = match[r][x[2]]]]
    <2>1. Write(r, new) BY <1>5, Zenon DEF Mark
    <2>2. DOMAIN new = xs OBVIOUS
    <2>5. xs \subseteq NotPayments BY OtherRows
    <2> HIDE DEF new, xs
    <2>3. PaymentsUntouched /\ CommittedStays BY <1>1, <2>1, <2>2, <2>5, WritesElsewhere
    <2>4. QED BY <1>1, <1>2, <1>5, <2>3, QuietAnswer DEF Mark
  <1>6. CASE Revoke(r)
    <2>1. PaymentsUntouched /\ CommittedStays BY <1>1, <1>2, <1>6, NoticeRows, PutsElsewhere DEF Revoke
    <2>2. QED BY <1>1, <1>2, <1>6, <2>1, QuietAnswer DEF Revoke
  <1>7. CASE Resolve(r) /\ shown[on[r]] # "DELETED"
    <2>1. on[r] \in NotPayments BY <1>1, <1>7, OtherRows DEF Resolve, Base, Progress
    <2>2. PaymentsUntouched /\ CommittedStays BY <1>1, <1>7, <2>1, PutsElsewhere DEF Resolve
    <2>3. QED BY <1>1, <1>2, <1>7, <2>2, QuietAnswer DEF Resolve
  <1>8. QED BY <1>3, <1>4, <1>5, <1>6, <1>7

\* reverse_payment and resolve_exception load their row.
LEMMA FindSteps ==
  ASSUME IntakeInv, NEW r \in Request, FindPayment(r) \/ FindException(r)
  PROVE  IntakeInv'
  <1>1. Base /\ at[r] = "find" /\ {"hold", "note", "refused"} \subseteq Steps /\ ReadOnly
        /\ job' = job /\ answer' = answer
    BY DEF IntakeInv, Steps, Ended, FindPayment, FindException
  <1>2. at[r] \in Steps \ ({"commit", "break", "record"} \cup Ended) BY <1>1 DEF Steps, Ended
  <1>3. PaymentsUntouched /\ CommittedStays BY <1>1, LooksOnly
  <1>4. /\ Running(r) /\ Progress(r) /\ Len(answer[r]) = 0 /\ job[r].kind \in {"REVERSE", "RESOLVE"}
        /\ Len(answer[r]) < Len(job[r].notices)
    BY <1>1, <1>2, AtWork, KindAt DEF Base, Progress
  <1>5. \/ /\ Is(r, "REVERSE") /\ at'[r] = "hold"
           /\ \E p \in PaymentId : on'[r] = Payment(p) /\ shown[Payment(p)] # Absent
        \/ Is(r, "RESOLVE") /\ at'[r] = "note" /\ on'[r] \in ExceptionRows
        \/ at'[r] = "refused"
    BY <1>1 DEF FindPayment, FindException, SameRef, Go, Base, Listed
  <1>6. Alone(r)
    BY <1>1 DEF FindPayment, FindException, Go, Base, Alone
  <1>7. {"hold", "lock"} \subseteq StepsOf["REVERSE"] /\ "note" \in StepsOf["RESOLVE"]
    BY DEF StepsOf
  <1>8. shown' = shown BY <1>1 DEF ReadOnly, rows
  <1>9. Progress(r)'
    <2>1. CASE Is(r, "REVERSE") /\ at'[r] = "hold" /\ \E p \in PaymentId : on'[r] = Payment(p) /\ shown[Payment(p)] # Absent
      BY <1>1, <1>4, <1>7, <1>8, <2>1 DEF Progress, Is
    <2>2. CASE Is(r, "RESOLVE") /\ at'[r] = "note" /\ on'[r] \in ExceptionRows
      BY <1>1, <1>4, <1>7, <2>2 DEF Progress, Is
    <2>3. CASE at'[r] = "refused"
      <3>1. "refused" \in Ended /\ "refused" \notin StepsOf["REVERSE"] /\ "refused" \notin StepsOf["RESOLVE"]
        BY DEF Ended, StepsOf
      <3>2. QED BY <1>1, <1>4, <2>3, <3>1 DEF Progress
    <2>4. QED BY <1>5, <2>1, <2>2, <2>3
  <1>10. QED BY <1>1, <1>3, <1>4, <1>6, <1>9, QuietStep

-----------------------------------------------------------------------------
(* Steps on payments. *)

\* Payments of a request that goes on: what its step must keep.
LEMMA PaymentsGoOn ==
  ASSUME IntakeInv, NEW q \in Request, at'[q] = at[q], answer'[q] = answer[q],
         \A i \in 1..MaxRows :
           LET x == Payment(<<q, i>>)
           IN \/ row'[x] = row[x] /\ holder'[x] = holder[x] /\ shown'[x] = shown[x]
              \/ /\ at[q] \in {"done", "failed"}
                 /\ row'[x] # Absent => row[x] # Absent
  PROVE  Payments(q)'
  <1>1. Payments(q) BY DEF IntakeInv, PaymentsOK
  <1>2. QED BY <1>1 DEF Payments, Running, Current, Ended

\* A payment that is committed, or not there, belongs to a request that has ended, or has
\* not made it.
LEMMA OwnerOf ==
  ASSUME IntakeInv, NEW p \in PaymentId
  PROVE  /\ p = <<p[1], p[2]>> /\ p[1] \in Request /\ p[2] \in 1..MaxRows
         /\ shown[Payment(p)] # Absent => at[p[1]] \in {"done", "failed"} /\ row[Payment(p)] # Absent
         /\ at[p[1]] \notin Ended /\ row[Payment(p)] # Absent => holder[Payment(p)] = p[1]
  <1>1. p = <<p[1], p[2]>> /\ p[1] \in Request /\ p[2] \in 1..MaxRows BY DEF PaymentId
  <1>2. Payments(p[1]) /\ PaymentStays(p) BY <1>1 DEF IntakeInv, PaymentsOK
  <1>3. QED BY <1>1, <1>2 DEF Payments, PaymentStays, Running

\* reverse_payment locks a committed payment and marks it.
LEMMA PutCommitted ==
  ASSUME IntakeInv, NEW r \in Request, Running(r), Alone(r), Progress(r)',
         NEW p \in PaymentId, shown[Payment(p)] # Absent,
         NEW version \in PaymentRow, version.ref = row[Payment(p)].ref, version.id = row[Payment(p)].id,
         Put(r, Payment(p), version),
         Len(answer'[r]) \in Nat /\ Len(answer[r]) <= Len(answer'[r]),
         at[r] \notin {"record", "break"}, at'[r] \notin {"lost", "refused"}
  PROVE  IntakeInv'
  <1>1. Base /\ RowsAre(Row) /\ LocksHold(Row) /\ r # 0 /\ Payment(p) \in Row
    BY JobsAreGood, RowsApart DEF IntakeInv, Base
  <1>2. /\ RowsAre(Row)' /\ row'[Payment(p)] = version /\ holder'[Payment(p)] = r
        /\ \A y \in Row \ {Payment(p)} : row'[y] = row[y] /\ holder'[y] = holder[y]
        /\ shown' = shown
    BY <1>1, PutDoes
  <1>3. LocksHold(Row)' BY <1>1, <1>2 DEF LocksHold
  <1>4. CommittedStays BY <1>2 DEF CommittedStays
  <1>5. Base' BY <1>1, <1>2, <1>3, <1>4, BaseKept
  <1>6. version # Absent BY AbsentIsNoRow
  <1>7. ASSUME NEW q \in PaymentId, q # p
        PROVE  row'[Payment(q)] = row[Payment(q)] /\ holder'[Payment(q)] = holder[Payment(q)]
    BY <1>2, <1>7, RowsApart
  <1>8. p[1] # r /\ at[p[1]] \in {"done", "failed"} /\ row[Payment(p)] # Absent /\ p = <<p[1], p[2]>>
    BY OwnerOf DEF Running, Ended
  <1>9. ASSUME NEW q \in Request PROVE Payments(q)'
    <2>1. \A i \in 1..MaxRows : <<q, i>> \in PaymentId BY DEF PaymentId
    <2>2. CASE q # r
      <3>1. at'[q] = at[q] /\ answer'[q] = answer[q] BY <2>2 DEF Alone
      <3>2. ASSUME NEW i \in 1..MaxRows
            PROVE  LET x == Payment(<<q, i>>)
                   IN \/ row'[x] = row[x] /\ holder'[x] = holder[x] /\ shown'[x] = shown[x]
                      \/ /\ at[q] \in {"done", "failed"}
                         /\ row'[x] # Absent => row[x] # Absent
        <4>1. CASE <<q, i>> = p BY <1>8, <4>1
        <4>2. CASE <<q, i>> # p BY <1>2, <1>7, <2>1, <4>2
        <4>3. QED BY <4>1, <4>2
      <3>3. QED BY <3>1, <3>2, PaymentsGoOn
    <2>3. CASE q = r
      <3>1. \A i \in 1..MaxRows : LET x == Payment(<<r, i>>)
                                  IN row'[x] = row[x] /\ holder'[x] = holder[x] /\ shown'[x] = shown[x]
        BY <1>2, <1>7, <1>8, <2>1, <2>3
      <3>2. Payments(r) /\ Len(answer[r]) \in Nat BY DEF IntakeInv, PaymentsOK, Base, Progress
      <3>3. ASSUME NEW i \in 1..MaxRows, row[Payment(<<r, i>>)] # Absent
            PROVE  i <= Len(answer'[r]) /\ holder[Payment(<<r, i>>)] = r
        <4>1. i <= Len(answer[r]) /\ holder[Payment(<<r, i>>)] = r BY <3>2, <3>3 DEF Payments, Running, Ended
        <4>2. QED BY <3>2, <4>1
      <3>4. \A i \in 1..MaxRows : shown[Payment(<<r, i>>)] = Absent BY <3>2 DEF Payments, Running, Ended
      <3>5. QED BY <2>3, <3>1, <3>3, <3>4 DEF Payments
    <2>4. QED BY <2>2, <2>3
  <1>10. ASSUME NEW q \in PaymentId PROVE PaymentStays(q)'
    <2>1. PaymentStays(q) BY DEF IntakeInv, PaymentsOK
    <2>2. CASE q = p BY <1>2, <1>6, <1>8, <2>1, <2>2 DEF PaymentStays
    <2>3. CASE q # p BY <1>2, <1>7, <2>1, <2>3 DEF PaymentStays
    <2>4. QED BY <2>2, <2>3
  <1>11. RefsOnce'
    <2>1. \A q \in PaymentId : /\ row'[Payment(q)] # Absent => row[Payment(q)] # Absent
                               /\ row'[Payment(q)].ref = row[Payment(q)].ref
      BY <1>2, <1>7, <1>8
    <2>2. QED BY <2>1 DEF RefsOnce, IntakeInv, PaymentsOK
  <1>12. QED BY <1>5, <1>9, <1>10, <1>11 DEF IntakeInv, PaymentsOK

\* reverse_payment locks and marks a payment: it stays, with another status.
LEMMA ReversalSteps ==
  ASSUME IntakeInv, NEW r \in Request, HoldPayment(r) \/ ReversePayment(r)
  PROVE  IntakeInv'
  <1>1. Base /\ at[r] \in {"hold", "undo"} /\ job[r].kind = "REVERSE"
    BY KindAt DEF IntakeInv, HoldPayment, ReversePayment
  <1>2. at[r] \in Steps \ ({"commit", "break", "record"} \cup Ended) BY <1>1 DEF Steps, Ended
  <1>3. Running(r) /\ Len(answer[r]) \in Nat BY <1>1, <1>2, AtWork
  <1>4. PICK p \in PaymentId : on[r] = Payment(p) /\ shown[on[r]] # Absent
    BY <1>1 DEF Base, Progress
  <1>5. row[on[r]] \in PaymentRow BY <1>4 DEF IntakeInv, PaymentsOK, PaymentStays
  <1>6. CASE HoldPayment(r)
    <2>1. Put(r, Payment(p), row[Payment(p)]) /\ Goto(r, "lock") /\ shown' = shown
      BY <1>4, <1>6 DEF HoldPayment, Lock, Put
    <2>2. "lock" \in Steps /\ "lock" \in StepsOf[job[r].kind] BY <1>1 DEF Steps, StepsOf
    <2>3. CommittedStays BY <2>1 DEF CommittedStays
    <2>4. at[r] = "hold" BY <1>6 DEF HoldPayment
    <2>5. Alone(r) /\ Progress(r)' /\ answer' = answer /\ at'[r] = "lock"
      BY <1>1, <1>3, <2>1, <2>2, <2>3, <2>4, GotoMoves
    <2>6. QED BY <1>1, <1>3, <1>4, <1>5, <2>1, <2>5, PutCommitted
  <1>7. CASE ReversePayment(r)
    <2>1. Put(r, Payment(p), [row[Payment(p)] EXCEPT !.status = "REVERSED"]) /\ Answer(r, "reversed")
      BY <1>4, <1>7 DEF ReversePayment
    <2>2. /\ [row[Payment(p)] EXCEPT !.status = "REVERSED"] \in PaymentRow
          /\ [row[Payment(p)] EXCEPT !.status = "REVERSED"].ref = row[Payment(p)].ref
          /\ [row[Payment(p)] EXCEPT !.status = "REVERSED"].id = row[Payment(p)].id
      BY <1>4, <1>5 DEF PaymentRow
    <2>3. "reversed" \in Outcomes BY DEF Outcomes
    <2>4. /\ Alone(r) /\ Progress(r)' /\ Len(answer'[r]) = Len(answer[r]) + 1
          /\ at'[r] \notin {"lost", "refused"}
      BY <1>1, <1>2, <2>1, <2>3, AnswerMoves
    <2>5. PICK version \in PaymentRow :
            /\ version.ref = row[Payment(p)].ref /\ version.id = row[Payment(p)].id
            /\ Put(r, Payment(p), version)
      BY <2>1, <2>2
    <2>6. Len(answer'[r]) \in Nat /\ Len(answer[r]) <= Len(answer'[r]) BY <1>3, <2>4
    <2>7. QED BY <1>1, <1>3, <1>4, <2>4, <2>5, <2>6, PutCommitted
  <1>8. QED BY <1>6, <1>7 DEF HoldPayment, ReversePayment

\* The insert waits for every payment of its bank reference that is in the making, so
\* that no payment, committed or not, has the reference when it goes through.
LEMMA RefIsFree ==
  ASSUME IntakeInv, NEW r \in Request, at[r] = "post", Ready(r), ~RefUsed(r, Of(r).ref),
         NEW p \in PaymentId, row[Payment(p)] # Absent, Of(r).ref # NoRef
  PROVE  row[Payment(p)].ref # Of(r).ref
  <1>1. SUFFICES ASSUME row[Payment(p)].ref = Of(r).ref PROVE FALSE OBVIOUS
  <1>2. SameRef(row[Payment(p)], Of(r).ref) BY <1>1 DEF SameRef
  <1>3. ~SameRef(Sees(r, Payment(p)), Of(r).ref) BY DEF RefUsed
  <1>4. holder[Payment(p)] # r BY <1>2, <1>3 DEF Sees
  <1>5. shown[Payment(p)] = Absent
    BY <1>1, <1>3, <1>4 DEF Sees, SameRef, IntakeInv, PaymentsOK, PaymentStays
  <1>6. Payment(p) \in RefPending(Of(r).ref) BY <1>2, <1>5 DEF RefPending
  <1>7. holder[Payment(p)] = 0 BY <1>4, <1>6 DEF Ready, Free, Wants
  <1>8. QED BY <1>5, <1>7, RowsApart DEF IntakeInv, Base, LocksHold

\* post_payment inserts a payment of a reference nobody has.
LEMMA NewPayment ==
  ASSUME IntakeInv, NEW r \in Request, at[r] = "post", Ready(r), ~RefUsed(r, Of(r).ref),
         Alone(r), Progress(r)', RowsAre(Row)', LocksHold(Row)', shown' = shown,
         row'[Mine(r)] = Paid(r), holder'[Mine(r)] = r,
         \A p \in PaymentId : Payment(p) # Mine(r) =>
           row'[Payment(p)] = row[Payment(p)] /\ holder'[Payment(p)] = holder[Payment(p)],
         at'[r] \notin {"lost", "refused"},
         \/ Len(answer'[r]) = Len(answer[r]) + 1
         \/ answer'[r] = answer[r] /\ at'[r] = "record"
  PROVE  IntakeInv'
  <1>1. Base /\ CommittedStays BY DEF IntakeInv, CommittedStays
  <1>2. Base' BY <1>1, BaseKept
  <1>3. at[r] \in Steps \ ({"commit", "break"} \cup Ended) BY DEF Steps, Ended
  <1>4. /\ Running(r) /\ Len(answer[r]) \in Nat /\ Current(r) \in 1..MaxRows /\ Current(r) = Len(answer[r]) + 1
        /\ Of(r) \in Notice
    BY <1>1, <1>3, AtWork DEF Current
  <1>5. PICK m \in PaymentId : m = <<r, Current(r)>> /\ Mine(r) = Payment(m)
    BY <1>4 DEF PaymentId, Mine
  <1>6. Payments(r) BY DEF IntakeInv, PaymentsOK
  <1>7. row[Payment(m)] = Absent /\ shown[Payment(m)] = Absent
    BY <1>4, <1>5, <1>6 DEF Payments, Running, Ended
  <1>8. /\ Paid(r) \in PaymentRow /\ Paid(r) # Absent /\ Paid(r).ref = Of(r).ref
    BY <1>4, AbsentIsNoRow DEF Paid, PaymentRow, Notice
  <1>9. \A p \in PaymentId : p # m => row'[Payment(p)] = row[Payment(p)] /\ holder'[Payment(p)] = holder[Payment(p)]
    BY <1>5, RowsApart
  <1>10. ASSUME NEW q \in Request PROVE Payments(q)'
    <2>1. \A i \in 1..MaxRows : <<q, i>> \in PaymentId BY DEF PaymentId
    <2>2. CASE q # r
      <3>1. at'[q] = at[q] /\ answer'[q] = answer[q] BY <2>2 DEF Alone
      <3>2. \A i \in 1..MaxRows : <<q, i>> # m BY <1>5, <2>2
      <3>3. QED BY <1>9, <2>1, <3>1, <3>2, PaymentsGoOn
    <2>3. CASE q = r
      <3>1. ASSUME NEW i \in 1..MaxRows, row'[Payment(<<r, i>>)] # Absent
            PROVE  /\ i <= Len(answer'[r]) \/ (at'[r] = "record" /\ i = Len(answer'[r]) + 1)
                   /\ holder'[Payment(<<r, i>>)] = r
        <4>1. CASE i = Current(r)
          BY <1>4, <1>5, <4>1
        <4>2. CASE i # Current(r)
          <5>1. <<r, i>> # m /\ <<r, i>> \in PaymentId BY <1>5, <2>1, <2>3, <4>2
          <5>2. row[Payment(<<r, i>>)] # Absent /\ holder'[Payment(<<r, i>>)] = holder[Payment(<<r, i>>)]
            BY <1>9, <3>1, <5>1
          <5>3. i <= Len(answer[r]) /\ holder[Payment(<<r, i>>)] = r
            BY <1>4, <1>6, <5>2 DEF Payments
          <5>4. QED BY <1>4, <5>2, <5>3
        <4>3. QED BY <4>1, <4>2
      <3>2. \A i \in 1..MaxRows : shown'[Payment(<<r, i>>)] = Absent
        BY <1>4, <1>6 DEF Payments, Running, Ended
      <3>3. QED BY <2>3, <3>1, <3>2 DEF Payments, Current
    <2>4. QED BY <2>2, <2>3
  <1>11. ASSUME NEW p \in PaymentId PROVE PaymentStays(p)'
    <2>1. PaymentStays(p) BY DEF IntakeInv, PaymentsOK
    <2>2. CASE p = m BY <1>5, <1>7, <1>8, <2>1, <2>2 DEF PaymentStays
    <2>3. CASE p # m BY <1>9, <2>1, <2>3 DEF PaymentStays
    <2>4. QED BY <2>2, <2>3
  <1>12. RefsOnce'
    <2>1. ASSUME NEW p \in PaymentId, p # m, row'[Payment(p)] # Absent, Of(r).ref # NoRef
          PROVE  row'[Payment(p)].ref # Of(r).ref
      BY <1>9, <2>1, RefIsFree
    <2>2. row'[Payment(m)] = Paid(r) BY <1>5
    <2>3. ASSUME NEW p \in PaymentId, NEW q \in PaymentId,
                 row'[Payment(p)] # Absent, row'[Payment(q)] # Absent,
                 row'[Payment(p)].ref = row'[Payment(q)].ref, row'[Payment(p)].ref # NoRef
          PROVE  p = q
      <3>1. CASE p = m BY <1>8, <2>1, <2>2, <2>3, <3>1
      <3>2. CASE q = m BY <1>8, <2>1, <2>2, <2>3, <3>2
      <3>3. CASE p # m /\ q # m
        BY <1>9, <2>3, <3>3 DEF RefsOnce, IntakeInv, PaymentsOK
      <3>4. QED BY <3>1, <3>2, <3>3
    <2>4. QED BY <2>3 DEF RefsOnce
  <1>13. QED BY <1>2, <1>10, <1>11, <1>12 DEF IntakeInv, PaymentsOK

\* post_payment makes the payment of the current notice.
LEMMA PostStep ==
  ASSUME IntakeInv, NEW r \in Request, PostPayment(r)
  PROVE  IntakeInv'
  <1>1. /\ Base /\ RowsAre(Row) /\ LocksHold(Row) /\ r # 0 /\ "posted" \in Outcomes
        /\ {"record", "post"} \subseteq Steps
    BY JobsAreGood DEF IntakeInv, Base, Outcomes, Steps
  <1>2. at[r] = "post" /\ Ready(r) /\ ~RefUsed(r, Of(r).ref) BY DEF PostPayment
  <1>3. at[r] \in Steps \ ({"commit", "break"} \cup Ended) BY <1>1, <1>2 DEF Ended
  <1>4. Running(r) /\ <<r, Current(r)>> \in PaymentId BY <1>1, <1>3, AtWork DEF PaymentId
  <1>5. Mine(r) \in Row /\ Mine(r) = Payment(<<r, Current(r)>>) BY <1>4, RowsApart DEF Mine
  <1>6. CASE Put(r, Mine(r), Paid(r)) /\ (Answer(r, "posted") \/ (Is(r, "SYNC") /\ Goto(r, "record")))
    <2>1. /\ RowsAre(Row)' /\ row'[Mine(r)] = Paid(r) /\ holder'[Mine(r)] = r /\ shown' = shown
          /\ \A y \in Row \ {Mine(r)} : row'[y] = row[y] /\ holder'[y] = holder[y]
      BY <1>1, <1>5, <1>6, PutDoes
    <2>2. LocksHold(Row)' BY <1>1, <2>1 DEF LocksHold
    <2>3. \A p \in PaymentId : Payment(p) # Mine(r) =>
            row'[Payment(p)] = row[Payment(p)] /\ holder'[Payment(p)] = holder[Payment(p)]
      BY <2>1, RowsApart
    <2>4. CASE Answer(r, "posted")
      <3>1. /\ Alone(r) /\ Progress(r)' /\ Len(answer'[r]) = Len(answer[r]) + 1
            /\ at'[r] \notin {"lost", "refused"}
        BY <1>1, <1>3, <2>4, AnswerMoves
      <3>2. QED BY <1>2, <2>1, <2>2, <2>3, <3>1, NewPayment
    <2>5. CASE Is(r, "SYNC") /\ Goto(r, "record")
      <3>1. "record" \in StepsOf[job[r].kind] BY <2>5 DEF Is, StepsOf
      <3>2. CommittedStays BY <2>1 DEF CommittedStays
      <3>3. Alone(r) /\ Progress(r)' /\ answer' = answer /\ at'[r] = "record"
        BY <1>1, <1>2, <1>4, <2>5, <3>1, <3>2, GotoMoves
      <3>4. QED BY <1>2, <2>1, <2>2, <2>3, <3>3, NewPayment
    <2>6. QED BY <1>6, <2>4, <2>5
  <1>7. CASE /\ Write(r, [x \in {Mine(r), Feed(Of(r).ref)} |->
                            IF x = Mine(r) THEN Paid(r) ELSE FeedEntry(r, "MATCHED", <<r, Current(r)>>)])
             /\ Answer(r, "posted")
    <2>1. PICK new : /\ DOMAIN new = {Mine(r), Feed(Of(r).ref)} /\ new[Mine(r)] = Paid(r)
                     /\ Write(r, new)
      BY <1>7
    <2>2. /\ \A x \in Row : row'[x] = IF x \in DOMAIN new THEN new[x] ELSE row[x]
          /\ \A x \in Row : holder'[x] = IF x \in DOMAIN new THEN r ELSE holder[x]
          /\ shown' = shown /\ RowsAre(Row)'
      BY <1>1, <2>1, WriteDoes
    <2>3. LocksHold(Row)' BY <1>1, <2>2 DEF LocksHold
    <2>4. \A p \in PaymentId : Payment(p) # Mine(r) =>
            row'[Payment(p)] = row[Payment(p)] /\ holder'[Payment(p)] = holder[Payment(p)]
      BY <2>1, <2>2, RowsApart
    <2>5. row'[Mine(r)] = Paid(r) /\ holder'[Mine(r)] = r BY <1>5, <2>1, <2>2
    <2>6. /\ Alone(r) /\ Progress(r)' /\ Len(answer'[r]) = Len(answer[r]) + 1
          /\ at'[r] \notin {"lost", "refused"}
      BY <1>1, <1>3, <1>7, AnswerMoves
    <2>7. QED BY <1>2, <2>2, <2>3, <2>4, <2>5, <2>6, NewPayment
  <1>8. QED BY <1>6, <1>7 DEF PostPayment

-----------------------------------------------------------------------------
(* The end of a request. *)

\* A request takes back rows it holds; the payments it keeps are those of notices it has
\* dealt with.
LEMMA TakenBack ==
  ASSUME IntakeInv, NEW r \in Request, Running(r), Alone(r), Progress(r)', answer' = answer,
         NEW xs, Undo(xs),
         \A p \in PaymentId : Payment(p) \in xs /\ row[Payment(p)] # Absent => holder[Payment(p)] = r,
         \A i \in 1..MaxRows : row[Payment(<<r, i>>)] # Absent /\ Payment(<<r, i>>) \notin xs =>
           i <= Len(answer[r]) /\ at'[r] \notin {"lost", "refused"}
  PROVE  IntakeInv'
  <1>1. Base /\ RowsAre(Row) /\ LocksHold(Row) /\ r # 0 BY JobsAreGood DEF IntakeInv, Base
  <1>2. /\ RowsAre(Row)' /\ shown' = shown
        /\ \A x \in Row : row'[x] = IF x \in xs THEN shown[x] ELSE row[x]
        /\ \A x \in Row : holder'[x] = IF x \in xs THEN 0 ELSE holder[x]
    BY <1>1, UndoDoes
  <1>3. LocksHold(Row)' BY <1>1, <1>2 DEF LocksHold
  <1>4. CommittedStays BY <1>2 DEF CommittedStays
  <1>5. Base' BY <1>1, <1>2, <1>3, <1>4, BaseKept
  <1>6. \A p \in PaymentId :
          /\ row'[Payment(p)] = IF Payment(p) \in xs THEN shown[Payment(p)] ELSE row[Payment(p)]
          /\ holder'[Payment(p)] = IF Payment(p) \in xs THEN 0 ELSE holder[Payment(p)]
    BY <1>2, RowsApart
  <1>7. ASSUME NEW p \in PaymentId, row'[Payment(p)] # Absent
        PROVE  /\ row[Payment(p)] # Absent
               /\ row'[Payment(p)].ref = row[Payment(p)].ref
               /\ row'[Payment(p)].id = row[Payment(p)].id
    BY <1>6, <1>7 DEF IntakeInv, PaymentsOK, PaymentStays
  <1>8. ASSUME NEW q \in Request PROVE Payments(q)'
    <2>1. \A i \in 1..MaxRows : <<q, i>> \in PaymentId BY DEF PaymentId
    <2>2. Payments(q) BY DEF IntakeInv, PaymentsOK
    <2>3. CASE q # r
      <3>1. at'[q] = at[q] /\ answer'[q] = answer[q] BY <2>3 DEF Alone
      <3>2. ASSUME NEW i \in 1..MaxRows, row'[Payment(<<q, i>>)] # Absent
            PROVE  /\ row[Payment(<<q, i>>)] # Absent
                   /\ Running(q) => holder'[Payment(<<q, i>>)] = q
        <4>1. row[Payment(<<q, i>>)] # Absent BY <1>7, <2>1, <3>2
        <4>2. Running(q) => holder[Payment(<<q, i>>)] = q BY <2>2, <4>1 DEF Payments
        <4>3. QED BY <1>6, <2>1, <2>3, <4>1, <4>2
      <3>3. QED BY <1>2, <2>2, <3>1, <3>2 DEF Payments, Running, Current
    <2>4. CASE q = r
      <3>1. \A i \in 1..MaxRows : shown[Payment(<<r, i>>)] = Absent
        BY <2>2, <2>4 DEF Payments, Running, Ended
      <3>2. ASSUME NEW i \in 1..MaxRows, row'[Payment(<<r, i>>)] # Absent
            PROVE  /\ i <= Len(answer'[r]) /\ at'[r] \notin {"lost", "refused"}
                   /\ holder'[Payment(<<r, i>>)] = r
        <4>1. <<r, i>> \in PaymentId BY <2>1, <2>4
        <4>2. Payment(<<r, i>>) \notin xs BY <1>6, <3>1, <3>2, <4>1
        <4>3. row[Payment(<<r, i>>)] # Absent BY <1>7, <3>2, <4>1
        <4>4. holder[Payment(<<r, i>>)] = r BY <2>2, <2>4, <4>3 DEF Payments
        <4>5. QED BY <1>6, <4>1, <4>2, <4>3, <4>4
      <3>3. QED BY <1>2, <2>4, <3>1, <3>2 DEF Payments
    <2>5. QED BY <2>3, <2>4
  <1>9. ASSUME NEW p \in PaymentId PROVE PaymentStays(p)'
    <2>1. PaymentStays(p) BY DEF IntakeInv, PaymentsOK
    <2>2. CASE Payment(p) \in xs BY <1>2, <1>6, <2>1, <2>2 DEF PaymentStays
    <2>3. CASE Payment(p) \notin xs BY <1>2, <1>6, <2>1, <2>3 DEF PaymentStays
    <2>4. QED BY <2>2, <2>3
  <1>10. RefsOnce' BY <1>7 DEF RefsOnce, IntakeInv, PaymentsOK
  <1>11. QED BY <1>5, <1>8, <1>9, <1>10 DEF IntakeInv, PaymentsOK

\* The whole transaction is taken back: a request that is lost, refused or failed.
LEMMA RolledBack ==
  ASSUME IntakeInv, NEW r \in Request, Running(r), NEW step \in {"lost", "refused", "failed"},
         Rollback(r, step)
  PROVE  IntakeInv'
  <1>1. Base /\ step \in Steps /\ step \in Ended BY DEF IntakeInv, Steps, Ended
  <1>2. PICK xs : xs = HeldBy(r) /\ Undo(xs) BY DEF Rollback
  <1>3. Goto(r, step) /\ CommittedStays BY DEF Rollback, Goto, Undo, CommittedStays
  <1>4. Alone(r) /\ Progress(r)' /\ answer' = answer
    BY <1>1, <1>3, GotoMoves DEF Ended
  <1>5. \A x \in Row : x \in xs <=> holder[x] = r BY <1>1, <1>2 DEF HeldBy, Base, RowsAre
  <1>6. \A p \in PaymentId : Payment(p) \in xs => holder[Payment(p)] = r BY <1>5, RowsApart
  <1>7. \A i \in 1..MaxRows : row[Payment(<<r, i>>)] # Absent => Payment(<<r, i>>) \in xs
    <2>1. \A i \in 1..MaxRows : <<r, i>> \in PaymentId BY DEF PaymentId
    <2>2. QED BY <1>5, <2>1, RowsApart DEF IntakeInv, PaymentsOK, Payments
  <1>8. QED BY <1>2, <1>4, <1>6, <1>7, TakenBack

\* The savepoint of replay_sync_record gives back the bill's lock.
LEMMA LockGivenBack ==
  ASSUME IntakeInv, NEW r \in Request, at[r] \in Steps \ ({"commit", "break"} \cup Ended),
         Undo(BillLocked(r))
  PROVE  PaymentsUntouched /\ CommittedStays
  <1>1. BillLocked(r) \in SUBSET NotPayments
    BY NoticeRows DEF BillLocked, IntakeInv
  <1>2. \E xs \in SUBSET NotPayments : Undo(xs) BY <1>1
  <1>3. QED BY <1>2, Elsewhere DEF IntakeInv

\* An error of post_payment, or in its place.
LEMMA FailStep ==
  ASSUME IntakeInv, NEW r \in Request, at[r] \in Steps \ ({"commit", "break", "record"} \cup Ended), Fail(r)
  PROVE  IntakeInv'
  <1>1. Base /\ Running(r) /\ {"break", "record"} \subseteq Steps
    BY AtWork DEF IntakeInv, Steps
  <1>2. CASE Rollback(r, "refused") \/ Rollback(r, "failed") BY <1>1, <1>2, RolledBack
  <1>3. CASE Is(r, "FILE") /\ Goto(r, "break") /\ ReadOnly
    <2>1. "break" \in StepsOf[job[r].kind] BY <1>3 DEF Is, StepsOf
    <2>2. PaymentsUntouched /\ CommittedStays BY <1>1, <1>3, LooksOnly
    <2>3. QED BY <1>1, <1>3, <2>1, <2>2, QuietGoto
  <1>4. CASE Is(r, "SYNC") /\ Undo(BillLocked(r)) /\ Goto(r, "record")
    <2>1. "record" \in StepsOf[job[r].kind] BY <1>4 DEF Is, StepsOf
    <2>2. PaymentsUntouched /\ CommittedStays BY <1>4, LockGivenBack
    <2>3. QED BY <1>1, <1>4, <2>1, <2>2, QuietGoto
  <1>5. QED BY <1>2, <1>3, <1>4 DEF Fail

\* The victim of a deadlock fails; one about to record a payment ends with it.
LEMMA AbortStep ==
  ASSUME IntakeInv, NEW r \in Request, Abort(r)
  PROVE  IntakeInv'
  <1>1. Base /\ "break" \in Steps BY DEF IntakeInv, Steps
  <1>2. Wants(r) # {} BY DEF Abort, DeadlockVictim, InWaitCycle
  <1>3. at[r] \in {"touch", "revoke", "receive", "lock", "post", "record", "hold", "note", "run", "mark"}
    BY <1>2 DEF Wants
  <1>4. at[r] \in Steps \ ({"commit", "break"} \cup Ended) BY <1>3 DEF Steps, Ended
  <1>5. CASE at[r] # "record" BY <1>4, <1>5, FailStep DEF Abort
  <1>6. CASE at[r] = "record"
    <2>1. Goto(r, "break") /\ ReadOnly BY <1>6 DEF Abort
    <2>2. PaymentsUntouched /\ CommittedStays BY <1>1, <2>1, LooksOnly
    <2>3. job[r].kind = "SYNC" BY <1>1, <1>6, KindAt
    <2>4. Running(r) /\ Len(answer[r]) \in Nat BY <1>1, <1>4, AtWork
    <2>5. Alone(r) /\ Progress(r)' /\ answer' = answer /\ at'[r] = "break"
      BY <1>1, <1>6, <2>1, <2>2, <2>3, <2>4, GotoMoves DEF Ended
    <2>6. QED BY <1>6, <2>2, <2>4, <2>5, QuietStep
  <1>7. QED BY <1>5, <1>6

\* COMMIT shows what a request holds.
LEMMA CommitStep ==
  ASSUME IntakeInv, NEW r \in Request, Commit(r)
  PROVE  IntakeInv'
  <1>1. Base /\ RowsAre(Row) /\ LocksHold(Row) /\ r # 0 /\ {"done", "failed"} \subseteq Steps
        /\ {"done", "failed"} \subseteq Ended
    BY JobsAreGood DEF IntakeInv, Base, Steps, Ended
  <1>2. at[r] \in {"commit", "break"} /\ Running(r) BY DEF Commit, Running, Ended
  <1>3. PICK step \in {"done", "failed"} : Goto(r, step) /\ (at[r] = "commit" <=> step = "done")
    BY DEF Commit
  <1>4. /\ RowsAre(Row)' /\ row' = row
        /\ \A x \in Row : shown'[x] = IF holder[x] = r THEN row[x] ELSE shown[x]
        /\ \A x \in Row : holder'[x] = IF holder[x] = r THEN 0 ELSE holder[x]
    BY <1>1, PublishDoes DEF Commit
  <1>5. LocksHold(Row)' BY <1>1, <1>4 DEF LocksHold
  <1>6. \A p \in PaymentId :
          /\ shown'[Payment(p)] = IF holder[Payment(p)] = r THEN row[Payment(p)] ELSE shown[Payment(p)]
          /\ holder'[Payment(p)] = IF holder[Payment(p)] = r THEN 0 ELSE holder[Payment(p)]
    BY <1>4, RowsApart
  <1>7. CommittedStays BY <1>6 DEF CommittedStays, IntakeInv, PaymentsOK, PaymentStays
  <1>8. Alone(r) /\ Progress(r)' /\ answer' = answer /\ at'[r] = step
    BY <1>1, <1>2, <1>3, <1>7, GotoMoves DEF Ended
  <1>9. Base' BY <1>1, <1>4, <1>5, <1>7, <1>8, BaseKept
  <1>10. ASSUME NEW q \in Request PROVE Payments(q)'
    <2>1. \A i \in 1..MaxRows : <<q, i>> \in PaymentId BY DEF PaymentId
    <2>2. Payments(q) BY DEF IntakeInv, PaymentsOK
    <2>3. CASE q # r
      <3>1. at'[q] = at[q] /\ answer'[q] = answer[q] BY <1>8, <2>3 DEF Alone
      <3>2. at[q] \in Steps BY <1>1 DEF Base
      <3>3. ASSUME NEW i \in 1..MaxRows, shown'[Payment(<<q, i>>)] # Absent
            PROVE  at[q] \in {"done", "failed"}
        <4>1. CASE holder[Payment(<<q, i>>)] = r
          <5>1. row[Payment(<<q, i>>)] # Absent BY <1>6, <2>1, <3>3, <4>1
          <5>2. ~Running(q) /\ at[q] \notin {"lost", "refused"} BY <2>2, <2>3, <4>1, <5>1 DEF Payments
          <5>3. QED BY <5>2 DEF Running, Ended
        <4>2. CASE holder[Payment(<<q, i>>)] # r
          BY <1>6, <2>1, <2>2, <3>3, <4>2 DEF Payments
        <4>3. QED BY <4>1, <4>2
      <3>4. \A i \in 1..MaxRows : Running(q) /\ row[Payment(<<q, i>>)] # Absent => holder'[Payment(<<q, i>>)] = q
        BY <1>6, <2>1, <2>2, <2>3 DEF Payments
      <3>5. QED BY <1>4, <2>2, <3>1, <3>3, <3>4 DEF Payments, Running, Current
    <2>4. CASE q = r
      <3>1. \A i \in 1..MaxRows : row[Payment(<<r, i>>)] # Absent =>
              i <= Len(answer[r]) \/ (step = "failed" /\ i = Current(r))
        BY <1>2, <1>3, <2>2, <2>4 DEF Payments
      <3>2. ~Running(r)' BY <1>1, <1>8 DEF Running
      <3>3. QED BY <1>4, <1>8, <2>4, <3>1, <3>2 DEF Payments, Current
    <2>5. QED BY <2>3, <2>4
  <1>11. ASSUME NEW p \in PaymentId PROVE PaymentStays(p)'
    <2>1. PaymentStays(p) BY DEF IntakeInv, PaymentsOK
    <2>2. CASE holder[Payment(p)] = r BY <1>4, <1>6, <2>1, <2>2 DEF PaymentStays
    <2>3. CASE holder[Payment(p)] # r BY <1>4, <1>6, <2>1, <2>3 DEF PaymentStays
    <2>4. QED BY <2>2, <2>3
  <1>12. RefsOnce' BY <1>4 DEF RefsOnce, IntakeInv, PaymentsOK
  <1>13. QED BY <1>9, <1>10, <1>11, <1>12 DEF IntakeInv, PaymentsOK

-----------------------------------------------------------------------------
(* Versions of rows. *)

\* What version v of row x may be.
Fits(x, v) ==
  /\ x[1] = "feed" => v \in FeedRow \cup {Absent}
  /\ x[1] = "payment" => v \in PaymentRow \cup {Absent}
  /\ x[1] = "sync" => v \in {Absent, "ACCEPTED", "REJECTED"}
  /\ x[1] = "client" => v \in {"ACTIVE", "REVOKED"}
  /\ x[1] = "exception" => v \in {Absent, "OPEN", "RESOLVED", "DELETED"}
  /\ x[1] = "run" => v \in {Absent, "OPEN", "BALANCED", "EXCEPTIONS"}

\* The type of the rows, row by row.
LEMMA RowsFit ==
  ASSUME NEW v
  PROVE  RowsOK(v) <=> \A x \in Row : Fits(x, v[x])
  <1>2. ASSUME RowsOK(v), NEW x \in Row PROVE Fits(x, v[x])
    <2>1. CASE x \in FeedRows \/ x \in ExceptionRows
      BY <1>2, <2>1 DEF RowsOK, Fits, FeedRows, ExceptionRows, Feed, Exception
    <2>2. CASE x = Run BY <1>2, <2>2 DEF RowsOK, Fits, Run
    <2>3. CASE \E p \in PaymentId : x = Payment(p) BY <1>2, <2>3 DEF RowsOK, Fits, Payment
    <2>4. CASE \E id \in Id : x = Sync(id) BY <1>2, <2>4 DEF RowsOK, Fits, Sync
    <2>5. CASE \E b \in Bill : x = BillLock(b) BY <2>5 DEF Fits, BillLock
    <2>6. CASE \E c \in Client : x = ApiClient(c) BY <1>2, <2>6 DEF RowsOK, Fits, ApiClient
    <2>7. QED BY <2>1, <2>2, <2>3, <2>4, <2>5, <2>6 DEF Row
  <1>3. (\A x \in Row : Fits(x, v[x])) => RowsOK(v)
    BY DEF RowsOK, Fits, Row, FeedRows, ExceptionRows, Feed, Payment, Sync, BillLock, ApiClient, Exception, Run
  <1>4. QED BY <1>2, <1>3

\* Whatever a request does to rows, they keep their types.
LEMMA TypesKept ==
  ASSUME Base, RowsOK(row), RowsOK(shown), NEW r \in Request,
         \/ \E x \in Row : \E version : Fits(x, version) /\ Put(r, x, version)
         \/ \E x \in Row : Lock(r, x)
         \/ \E new : DOMAIN new \subseteq Row /\ (\A x \in DOMAIN new : Fits(x, new[x])) /\ Write(r, new)
         \/ \E xs : Undo(xs)
         \/ Publish(r)
         \/ ReadOnly
  PROVE  RowsOK(row') /\ RowsOK(shown')
  <1>1. RowsAre(Row) /\ \A x \in Row : Fits(x, row[x]) /\ Fits(x, shown[x])
    BY RowsFit DEF Base
  <1>2. SUFFICES \A x \in Row : Fits(x, row'[x]) /\ Fits(x, shown'[x]) BY RowsFit
  <1>3. CASE \E x \in Row : \E version : Fits(x, version) /\ Put(r, x, version)
    <2>1. PICK x \in Row : \E version : Fits(x, version) /\ Put(r, x, version) BY <1>3
    <2>2. PICK version : Fits(x, version) /\ Put(r, x, version) BY <2>1
    <2>3. row'[x] = version /\ shown' = shown /\ \A y \in Row \ {x} : row'[y] = row[y]
      BY <1>1, <2>2, PutDoes
    <2>4. QED BY <1>1, <2>2, <2>3
  <1>4. CASE \E x \in Row : Lock(r, x)
    <2>1. PICK x \in Row : Lock(r, x) BY <1>4
    <2>2. shown' = shown /\ \A y \in Row : row'[y] = row[y] BY <1>1, <2>1, LockDoes
    <2>3. QED BY <1>1, <2>2
  <1>5. CASE \E new : DOMAIN new \subseteq Row /\ (\A x \in DOMAIN new : Fits(x, new[x])) /\ Write(r, new)
    <2>1. PICK new : DOMAIN new \subseteq Row /\ (\A x \in DOMAIN new : Fits(x, new[x])) /\ Write(r, new) BY <1>5
    <2>2. shown' = shown /\ \A x \in Row : row'[x] = IF x \in DOMAIN new THEN new[x] ELSE row[x]
      BY <1>1, <2>1, WriteDoes
    <2>3. QED BY <1>1, <2>1, <2>2
  <1>6. CASE \E xs : Undo(xs)
    <2>1. PICK xs : Undo(xs) BY <1>6
    <2>2. shown' = shown /\ \A x \in Row : row'[x] = IF x \in xs THEN shown[x] ELSE row[x]
      BY <1>1, <2>1, UndoDoes
    <2>3. QED BY <1>1, <2>2
  <1>7. CASE Publish(r)
    <2>1. row' = row /\ \A x \in Row : shown'[x] = IF holder[x] = r THEN row[x] ELSE shown[x]
      BY <1>1, <1>7, PublishDoes
    <2>2. QED BY <1>1, <2>1
  <1>8. CASE ReadOnly BY <1>1, <1>8 DEF ReadOnly, rows
  <1>9. QED BY <1>3, <1>4, <1>5, <1>6, <1>7, <1>8

\* The matching pass finds payments.
MatchOK == match \in [Request -> [Ref -> PaymentId \cup {NoPayment}]]

\* Only the matching pass changes what it found.
LEMMA MatchKept ==
  ASSUME MatchOK, NEW r \in Request, Work(r) \/ Crash(r)
  PROVE  MatchOK'
  <1>1. CASE MatchFeed(r)
    <2> DEFINE fit(ref) == {p \in PaymentId : /\ shown[Feed(ref)] # Absent /\ shown[Payment(p)] # Absent
                                             /\ Matches(shown[Payment(p)], Feed(ref))}
               found == [ref \in Ref |-> IF fit(ref) = {} THEN NoPayment ELSE CHOOSE p \in fit(ref) : TRUE]
    <2>1. match' = [match EXCEPT ![r] = found] BY <1>1 DEF MatchFeed
    <2>2. ASSUME NEW ref \in Ref PROVE found[ref] \in PaymentId \cup {NoPayment}
      <3>1. CASE fit(ref) = {} BY <3>1
      <3>2. CASE fit(ref) # {}
        <4>1. (CHOOSE p \in fit(ref) : TRUE) \in fit(ref) BY <3>2
        <4>2. QED BY <3>2, <4>1
      <3>3. QED BY <3>1, <3>2
    <2>3. found \in [Ref -> PaymentId \cup {NoPayment}] BY <2>2
    <2> HIDE DEF found
    <2>4. QED BY <2>1, <2>3 DEF MatchOK
  <1>2. CASE ~MatchFeed(r)
    <2>1. match' = match
      BY <1>2 DEF Work, Crash, Authenticate, Touch, CheckFeed, Receive, Accept, LookUpRecord, Record, LockBill,
         PostPayment, RefuseRef, Fail, FindPayment, HoldPayment, ReversePayment, OpenRun, Mark,
         FindException, Resolve, Revoke, Commit, Abort, Rollback, Goto, Stay, Answer
    <2>2. QED BY <2>1 DEF MatchOK
  <1>3. QED BY <1>1, <1>2

\* The rows a request writes have the versions they may have.
LEMMA WrittenFits ==
  ASSUME Base, NEW r \in Request, at[r] \in Steps \ ({"commit", "break"} \cup Ended)
  PROVE  /\ ApiClient(Of(r).client) \in Row /\ BillLock(Of(r).bill) \in Row
         /\ Fits(ApiClient(Of(r).client), "REVOKED")
         /\ Mine(r) \in Row /\ Fits(Mine(r), Paid(r))
         /\ Is(r, "SYNC") => /\ Sync(Of(r).id) \in Row
                             /\ \A v \in {"ACCEPTED", "REJECTED"} : Fits(Sync(Of(r).id), v)
         /\ Is(r, "WEBHOOK") \/ Is(r, "FILE") =>
              /\ Feed(Of(r).ref) \in Row
              /\ \A v \in {"UNMATCHED", "EXCEPTION"} : Fits(Feed(Of(r).ref), FeedEntry(r, v, NoPayment))
              /\ Fits(Feed(Of(r).ref), FeedEntry(r, "MATCHED", <<r, Current(r)>>))
  <1>1. /\ Of(r) \in Notice /\ <<r, Current(r)>> \in PaymentId
        /\ NotPayments \subseteq Row
    BY AtWork DEF PaymentId, NotPayments
  <1>2. Mine(r) \in Row BY <1>1, RowsApart DEF Mine
  <1>3. Paid(r) \in PaymentRow BY <1>1 DEF Paid, PaymentRow, Notice
  <1>4. Mine(r)[1] = "payment" BY DEF Mine, Payment
  <1>5. Fits(Mine(r), Paid(r)) BY <1>3, <1>4 DEF Fits
  <1>6. /\ \A v \in {"UNMATCHED", "EXCEPTION"} : FeedEntry(r, v, NoPayment) \in FeedRow
        /\ FeedEntry(r, "MATCHED", <<r, Current(r)>>) \in FeedRow
    BY <1>1 DEF FeedEntry, FeedRow, Notice
  <1>7. \A ref : \A v \in FeedRow : Fits(Feed(ref), v) BY DEF Fits, Feed
  <1>8. \A id : \A v \in {"ACCEPTED", "REJECTED"} : Fits(Sync(id), v) BY DEF Fits, Sync
  <1>9. Fits(ApiClient(Of(r).client), "REVOKED") BY DEF Fits, ApiClient
  <1>10. QED BY <1>1, <1>2, <1>5, <1>6, <1>7, <1>8, <1>9, NoticeRows

\* run_reconciliation marks the feed rows and lists the lone ones.
LEMMA MarkFits ==
  ASSUME IntakeInv, RowsOK(row), RowsOK(shown), MatchOK, NEW r \in Request, Mark(r)
  PROVE  \E new : DOMAIN new \subseteq Row /\ (\A x \in DOMAIN new : Fits(x, new[x])) /\ Write(r, new)
  <1> DEFINE there == {ref \in Ref : shown[Feed(ref)] # Absent}
             lone == {ref \in there : match[r][ref] = NoPayment}
             xs == {Feed(ref) : ref \in there} \cup {Exception(r, ref) : ref \in lone} \cup {Run}
             new == [x \in xs |->
                       CASE x = Run            -> RunStatus(lone)
                         [] x[1] = "exception" -> "OPEN"
                         [] x[1] = "feed" /\ x[2] \in lone -> [shown[x] EXCEPT !.status = "EXCEPTION"]
                         [] OTHER -> [shown[x] EXCEPT !.status = "MATCHED", !.payment = match[r][x[2]]]]
  <1>1. Write(r, new) BY Zenon DEF Mark
  <1>2. DOMAIN new = xs OBVIOUS
  <1>3. xs \subseteq Row BY DEF Row, FeedRows, ExceptionRows
  <1>4. ASSUME NEW ref \in there PROVE Fits(Feed(ref), new[Feed(ref)])
    <2>1. Feed(ref) \in xs /\ Feed(ref) # Run /\ Feed(ref)[1] = "feed" /\ Feed(ref)[2] = ref
      BY DEF Feed, Run
    <2>2. shown[Feed(ref)] \in FeedRow BY DEF RowsOK, FeedRows
    <2>3. match[r][ref] \in PaymentId \cup {NoPayment} BY DEF MatchOK
    <2>4. new[Feed(ref)] = IF ref \in lone THEN [shown[Feed(ref)] EXCEPT !.status = "EXCEPTION"]
                           ELSE [shown[Feed(ref)] EXCEPT !.status = "MATCHED", !.payment = match[r][ref]]
      BY <2>1
    <2>5. /\ [shown[Feed(ref)] EXCEPT !.status = "EXCEPTION"] \in FeedRow
          /\ [shown[Feed(ref)] EXCEPT !.status = "MATCHED", !.payment = match[r][ref]] \in FeedRow
      BY <2>2, <2>3 DEF FeedRow
    <2>6. new[Feed(ref)] \in FeedRow BY <2>4, <2>5
    <2> HIDE DEF new
    <2>7. QED BY <2>1, <2>6 DEF Fits
  <1>5. ASSUME NEW ref \in lone PROVE Fits(Exception(r, ref), new[Exception(r, ref)])
    <2>1. Exception(r, ref) \in xs /\ Exception(r, ref) # Run /\ Exception(r, ref)[1] = "exception"
      BY DEF Exception, Run
    <2>2. new[Exception(r, ref)] = "OPEN" BY <2>1
    <2> HIDE DEF new
    <2>3. QED BY <2>1, <2>2 DEF Fits
  <1>6. Fits(Run, new[Run])
    <2>1. Run \in xs /\ Run[1] = "run" BY DEF Run
    <2>2. new[Run] = RunStatus(lone) BY <2>1
    <2> HIDE DEF new
    <2>3. QED BY <2>1, <2>2 DEF Fits, RunStatus
  <1> HIDE DEF new
  <1>7. \A x \in xs : Fits(x, new[x]) BY <1>4, <1>5, <1>6
  <1>8. QED BY <1>1, <1>2, <1>3, <1>7

\* Every step of a request keeps the rows' types.
LEMMA RowsTyped ==
  ASSUME IntakeInv, RowsOK(row), RowsOK(shown), MatchOK, NEW r \in Request, Work(r) \/ Crash(r)
  PROVE  RowsOK(row') /\ RowsOK(shown')
  <1>1. Base BY DEF IntakeInv
  <1>2. CASE ReadOnly \/ Publish(r) \/ \E xs : Undo(xs) BY <1>1, <1>2, TypesKept
  <1>3. CASE at[r] \notin Steps \ ({"commit", "break"} \cup Ended)
    <2>1. ReadOnly \/ Publish(r) \/ \E xs : Undo(xs)
      <3>1. CASE Commit(r) BY <3>1 DEF Commit
      <3>2. CASE Crash(r) BY <3>2 DEF Crash, Rollback
      <3>3. CASE Abort(r)
        <4>1. CASE at[r] = "record" BY <3>3, <4>1 DEF Abort
        <4>2. CASE at[r] # "record" BY <3>3, <4>2 DEF Abort, Fail, Rollback
        <4>3. QED BY <4>1, <4>2
      <3>4. CASE Work(r) /\ ~Commit(r) /\ ~Abort(r)
        BY <1>3, <3>4 DEF Work, Authenticate, Touch, CheckFeed, Receive, Accept, LookUpRecord, Record, LockBill,
           PostPayment, RefuseRef, FindPayment, HoldPayment, ReversePayment, MatchFeed, OpenRun, Mark,
           FindException, Resolve, Revoke, Steps, Ended
      <3>5. QED BY <3>1, <3>2, <3>3, <3>4
    <2>2. QED BY <1>2, <2>1
  <1>4. CASE at[r] \in Steps \ ({"commit", "break"} \cup Ended)
    <2>1. CASE Touch(r) BY <1>1, <1>4, <2>1, WrittenFits, TypesKept DEF Touch
    <2>2. CASE Receive(r)
      <3>1. Is(r, "WEBHOOK") \/ Is(r, "FILE") BY <1>1, <2>2, KindAt DEF Receive, Is
      <3>2. \/ ReadOnly
            \/ \E v \in {"UNMATCHED", "EXCEPTION"} : Put(r, Feed(Of(r).ref), FeedEntry(r, v, NoPayment))
        BY <2>2 DEF Receive
      <3>3. QED BY <1>1, <1>2, <1>4, <3>1, <3>2, WrittenFits, TypesKept
    <2>3. CASE Record(r)
      <3>1. Is(r, "SYNC") BY <1>1, <2>3, KindAt DEF Record, Is
      <3>2. ReadOnly \/ \E v \in {"ACCEPTED", "REJECTED"} : Put(r, Sync(Of(r).id), v)
        BY <2>3 DEF Record
      <3>3. QED BY <1>1, <1>2, <1>4, <3>1, <3>2, WrittenFits, TypesKept
    <2>4. CASE LockBill(r)
      <3>1. BillLock(BillOf(r)) \in Row
        <4>1. CASE Is(r, "REVERSE")
          <5>1. PICK p \in PaymentId : on[r] = Payment(p) /\ shown[on[r]] # Absent
            BY <1>1, <2>4, <4>1 DEF LockBill, Base, Progress
          <5>2. shown[on[r]] \in PaymentRow BY <5>1 DEF IntakeInv, PaymentsOK, PaymentStays
          <5>3. QED BY <4>1, <5>2 DEF BillOf, PaymentRow, Row
        <4>2. CASE ~Is(r, "REVERSE") BY <1>1, <1>4, <4>2, WrittenFits DEF BillOf
        <4>3. QED BY <4>1, <4>2
      <3>2. QED BY <1>1, <2>4, <3>1, TypesKept DEF LockBill
    <2>5. CASE PostPayment(r)
      <3>1. CASE Put(r, Mine(r), Paid(r)) BY <1>1, <1>4, <3>1, WrittenFits, TypesKept
      <3>2. CASE /\ job[r].kind \in {"WEBHOOK", "FILE"}
                 /\ Write(r, [x \in {Mine(r), Feed(Of(r).ref)} |->
                                IF x = Mine(r) THEN Paid(r) ELSE FeedEntry(r, "MATCHED", <<r, Current(r)>>)])
        <4>1. PICK new : /\ DOMAIN new = {Mine(r), Feed(Of(r).ref)} /\ new[Mine(r)] = Paid(r)
                         /\ Feed(Of(r).ref) # Mine(r) => new[Feed(Of(r).ref)] = FeedEntry(r, "MATCHED", <<r, Current(r)>>)
                         /\ Write(r, new)
          BY <3>2
        <4>2. \A x \in DOMAIN new : x \in Row /\ Fits(x, new[x])
          BY <1>1, <1>4, <3>2, <4>1, WrittenFits DEF Is
        <4>3. QED BY <1>1, <4>1, <4>2, TypesKept
      <3>3. QED BY <2>5, <3>1, <3>2 DEF PostPayment
    <2>6. CASE HoldPayment(r) \/ ReversePayment(r)
      <3>1. PICK p \in PaymentId : on[r] = Payment(p) /\ shown[on[r]] # Absent
        BY <1>1, <2>6 DEF HoldPayment, ReversePayment, Base, Progress
      <3>2. row[on[r]] \in PaymentRow BY <3>1 DEF IntakeInv, PaymentsOK, PaymentStays
      <3>3. [row[on[r]] EXCEPT !.status = "REVERSED"] \in PaymentRow BY <3>2 DEF PaymentRow
      <3>4. on[r] \in Row /\ on[r][1] = "payment" BY <3>1, RowsApart DEF Payment
      <3>5. Fits(on[r], [row[on[r]] EXCEPT !.status = "REVERSED"]) BY <3>3, <3>4 DEF Fits
      <3>6. QED BY <1>1, <2>6, <3>4, <3>5, TypesKept DEF HoldPayment, ReversePayment
    <2>7. CASE OpenRun(r)
      <3>1. PICK new : /\ DOMAIN new = RunRows /\ Write(r, new)
                       /\ \A x \in RunRows : new[x] = IF x = Run THEN "OPEN" ELSE "DELETED"
        BY <2>7 DEF OpenRun
      <3>2. \A x \in RunRows : x \in Row /\ (x = Run \/ x \in ExceptionRows)
        BY DEF RunRows, Listed, Row
      <3>3. Fits(Run, "OPEN") /\ \A x \in ExceptionRows : Fits(x, "DELETED")
        BY DEF Fits, Run, ExceptionRows, Exception
      <3>4. DOMAIN new \subseteq Row /\ \A x \in DOMAIN new : Fits(x, new[x])
        BY <3>1, <3>2, <3>3
      <3>5. QED BY <1>1, <3>1, <3>4, TypesKept
    <2>8. CASE Mark(r) BY <1>1, <2>8, MarkFits, TypesKept
    <2>9. CASE Resolve(r)
      <3>1. on[r] \in ExceptionRows BY <1>1, <2>9 DEF Resolve, Base, Progress
      <3>2. on[r] \in Row /\ Fits(on[r], "RESOLVED")
        BY <3>1 DEF Row, ExceptionRows, Exception, Fits
      <3>3. Put(r, on[r], "RESOLVED") \/ \E xs : Undo(xs) BY <2>9 DEF Resolve, Rollback
      <3>4. QED BY <1>1, <3>2, <3>3, TypesKept
    <2>10. CASE Revoke(r) BY <1>1, <1>4, <2>10, WrittenFits, TypesKept DEF Revoke
    <2>11. CASE \/ Authenticate(r) \/ CheckFeed(r) \/ Accept(r) \/ LookUpRecord(r) \/ FindPayment(r)
                \/ MatchFeed(r) \/ FindException(r)
      BY <1>2, <2>11 DEF Authenticate, CheckFeed, Accept, LookUpRecord, FindPayment, MatchFeed, FindException
    <2>12. CASE RefuseRef(r) \/ Commit(r) \/ Crash(r)
      BY <1>2, <2>12 DEF RefuseRef, Fail, Rollback, Commit, Crash
    <2>13. CASE Abort(r)
      <3>1. CASE at[r] = "record" BY <1>2, <2>13, <3>1 DEF Abort
      <3>2. CASE at[r] # "record" BY <1>2, <2>13, <3>2 DEF Abort, Fail, Rollback
      <3>3. QED BY <3>1, <3>2
    <2>14. QED BY <2>1, <2>2, <2>3, <2>4, <2>5, <2>6, <2>7, <2>8, <2>9, <2>10, <2>11, <2>12, <2>13 DEF Work
  <1>5. QED BY <1>3, <1>4

-----------------------------------------------------------------------------
(* A bank reference is paid once. *)

Inv == IntakeInv /\ RowsOK(row) /\ RowsOK(shown) /\ MatchOK

\* Before the first request nothing is received, paid or recorded.
LEMMA IntakeInit ==
  ASSUME Init
  PROVE  Inv
  <1>1. job \in Workloads /\ answer = [r \in Request |-> <<>>] /\ shown = row
    BY DEF Init
  <1>2. \A r \in Request : job[r].kind \in Kinds /\ Len(job[r].notices) \in Nat \ {0}
    BY <1>1, IntakeConstants
  <1>3. \A k \in Kinds : Start[k] \in StepsOf[k] \cap Steps /\ Start[k] \notin {"hold", "undo", "lock", "note"}
    BY DEF Kinds, Start, StepsOf, Steps
  <1>4. at \in [Request -> Steps] /\ \A r \in Request : at[r] = Start[job[r].kind]
    BY <1>2, <1>3 DEF Init
  <1>5. \A x \in Row : row[x] = CASE x[1] = "client" -> "ACTIVE"
                                 [] x[1] = "bill" -> "HELD"
                                 [] OTHER -> Absent
    BY DEF Init
  <1>6. \A p \in PaymentId : row[Payment(p)] = Absent
    BY <1>5, RowsApart DEF Payment
  <1>7. RowsAre(Row) /\ LocksHold(Row) BY <1>1 DEF Init, RowsAre, LocksHold
  <1>8. ASSUME NEW r \in Request PROVE Progress(r)
    <2>1. answer[r] = <<>> /\ Len(answer[r]) = 0 /\ answer[r] \in Seq(Outcomes) BY <1>1
    <2>2. at[r] \in StepsOf[job[r].kind] /\ at[r] \notin {"hold", "undo", "lock", "note"}
      BY <1>2, <1>3, <1>4
    <2>3. QED BY <1>2, <2>1, <2>2 DEF Progress
  <1>9. Base BY <1>1, <1>4, <1>7, <1>8 DEF Base, Init
  <1>10. \A r \in Request, i \in 1..MaxRows : <<r, i>> \in PaymentId BY DEF PaymentId
  <1>11. PaymentsOK
    BY <1>1, <1>6, <1>10 DEF PaymentsOK, Payments, PaymentStays, RefsOnce
  <1>12. \A x \in Row : Fits(x, row[x])
    <2>1. SUFFICES ASSUME NEW x \in Row PROVE Fits(x, row[x]) OBVIOUS
    <2>2. CASE x[1] = "client" BY <1>5, <2>2 DEF Fits
    <2>3. CASE x[1] = "bill" BY <2>3 DEF Fits
    <2>4. CASE x[1] # "client" /\ x[1] # "bill"
      <3>1. row[x] = Absent BY <1>5, <2>4
      <3>2. QED BY <2>4, <3>1 DEF Fits
    <2>5. QED BY <2>2, <2>3, <2>4
  <1>13. MatchOK BY DEF Init, MatchOK
  <1>14. QED BY <1>1, <1>9, <1>11, <1>12, <1>13, RowsFit DEF Inv, IntakeInv

\* Every step keeps the invariant.
LEMMA IntakeStep ==
  ASSUME Inv, [Next]_vars
  PROVE  Inv'
  <1>1. CASE UNCHANGED vars
    BY <1>1 DEF vars, Inv, IntakeInv, Base, PaymentsOK, Payments, PaymentStays, RefsOnce, Progress, RowsAre,
       LocksHold, RowsOK, MatchOK, Is, Running, Current
  <1>2. ASSUME NEW r \in Request, Work(r) \/ Crash(r) PROVE Inv'
    <2>1. IntakeInv /\ RowsOK(row) /\ RowsOK(shown) /\ MatchOK BY DEF Inv
    <2>2. RowsOK(row)' /\ RowsOK(shown)' /\ MatchOK' BY <1>2, <2>1, RowsTyped, MatchKept
    <2>3. IntakeInv'
      <3>1. CASE Authenticate(r) \/ Touch(r) \/ CheckFeed(r) \/ Receive(r) BY <2>1, <3>1, FeedSteps
      <3>2. CASE Accept(r) \/ LookUpRecord(r) \/ Record(r) BY <2>1, <3>2, RecordSteps
      <3>3. CASE LockBill(r) BY <2>1, <3>3, LockStep
      <3>4. CASE PostPayment(r) BY <2>1, <3>4, PostStep
      <3>5. CASE RefuseRef(r)
        <4>1. at[r] \in Steps \ ({"commit", "break", "record"} \cup Ended) BY <3>5 DEF RefuseRef, Steps, Ended
        <4>2. QED BY <2>1, <3>5, <4>1, FailStep DEF RefuseRef
      <3>6. CASE FindPayment(r) \/ FindException(r) BY <2>1, <3>6, FindSteps
      <3>7. CASE HoldPayment(r) \/ ReversePayment(r) BY <2>1, <3>7, ReversalSteps
      <3>8. CASE MatchFeed(r) \/ OpenRun(r) \/ Mark(r) \/ Revoke(r) BY <2>1, <3>8, ReconciliationSteps
      <3>9. CASE Resolve(r)
        <4>1. CASE shown[on[r]] = "DELETED"
          <5>1. Rollback(r, "failed") /\ Running(r) BY <3>9, <4>1 DEF Resolve, Running, Ended
          <5>2. QED BY <2>1, <5>1, RolledBack
        <4>2. CASE shown[on[r]] # "DELETED" BY <2>1, <3>9, <4>2, ReconciliationSteps
        <4>3. QED BY <4>1, <4>2
      <3>10. CASE Commit(r) BY <2>1, <3>10, CommitStep
      <3>11. CASE Abort(r) BY <2>1, <3>11, AbortStep
      <3>12. CASE Crash(r) BY <2>1, <3>12, RolledBack DEF Crash, Running
      <3>13. QED BY <1>2, <3>1, <3>2, <3>3, <3>4, <3>5, <3>6, <3>7, <3>8, <3>9, <3>10, <3>11, <3>12 DEF Work
    <2>4. QED BY <2>2, <2>3 DEF Inv
  <1>3. QED BY <1>1, <1>2 DEF Next, AllEnded

\* The payments of running requests, committed ones and those in the making are what the
\* invariant says, whatever the requests.
THEOREM IntakeInvariance == Spec => []Inv
  BY IntakeInit, IntakeStep, PTL DEF Spec

\* However a bank reference arrives, by webhook, file, hand or phone, once or many times, it
\* is paid once.
THEOREM ReferencePaidOnce == Spec => []BankReferencePaysOnce
  <1>1. Inv => BankReferencePaysOnce
    <2>1. SUFFICES ASSUME Inv, NEW p \in PaymentId, NEW q \in PaymentId, Committed(p), Committed(q),
                          shown[Payment(p)].ref = shown[Payment(q)].ref, shown[Payment(p)].ref # NoRef
                   PROVE  p = q
      BY DEF BankReferencePaysOnce
    <2>2. PaymentStays(p) /\ PaymentStays(q) /\ RefsOnce BY <2>1 DEF Inv, IntakeInv, PaymentsOK
    <2>3. QED BY <2>1, <2>2 DEF PaymentStays, RefsOnce, Committed
  <1>2. QED BY <1>1, IntakeInvariance, PTL

-----------------------------------------------------------------------------
(* What a step does to the rows that answers are about. *)

\* A request sees what it has told till it ends, and when it is done it is committed.
Told(r) ==
  \A i \in 1..Len(answer[r]) :
    LET n == job[r].notices[i]
    IN /\ answer[r][i] = "posted" =>
            /\ Running(r) => row[Payment(<<r, i>>)] # Absent
            /\ at[r] = "done" => shown[Payment(<<r, i>>)] # Absent
       /\ answer[r][i] = "duplicate" =>
            \E ref \in Ref : /\ ref = n.ref
                             /\ Running(r) => There(r, Feed(ref))
                             /\ at[r] = "done" => shown[Feed(ref)] # Absent
       /\ answer[r][i] = "ACCEPTED" =>
            \E id \in Id : /\ id = n.id
                           /\ Running(r) => Sees(r, Sync(id)) = "ACCEPTED"
                           /\ at[r] = "done" => shown[Sync(id)] = "ACCEPTED"

\* A record is replayed by a request that has none of its client id.
Fresh(r) ==
  at[r] \in {"lock", "post", "record"} /\ Is(r, "SYNC") => holder[Sync(Of(r).id)] # r

\* What is received stays received, and what is recorded is not recorded again.
FeedsStay == \A ref \in Ref : shown[Feed(ref)] # Absent => row[Feed(ref)] # Absent
RecordsStay ==
  \A id \in Id : /\ shown[Sync(id)] # Absent => row[Sync(id)] = shown[Sync(id)]
                 /\ holder[Sync(id)] # 0 => row[Sync(id)] # Absent

\* A payment has the client id of its notice.
PaymentIds ==
  \A p \in PaymentId : row[Payment(p)] # Absent => row[Payment(p)].id = job[p[1]].notices[p[2]].id

\* An accepted record has its payment: committed, or in the hands of the request that
\* recorded it.
Backed ==
  \A id \in Id :
    /\ shown[Sync(id)] = "ACCEPTED" =>
         \E p \in PaymentId : shown[Payment(p)] # Absent /\ shown[Payment(p)].id = id
    /\ shown[Sync(id)] = Absent /\ row[Sync(id)] = "ACCEPTED" =>
         \E q \in Request : \E i \in 1..MaxRows :
           /\ holder[Sync(id)] = q /\ Running(q) /\ i <= Len(answer[q])
           /\ row[Payment(<<q, i>>)] # Absent /\ job[q].notices[i].id = id

AnswersInv ==
  /\ \A r \in Request : Told(r) /\ Fresh(r)
  /\ FeedsStay /\ RecordsStay /\ PaymentIds /\ Backed

Kept(x) == row'[x] = row[x] /\ shown'[x] = shown[x] /\ holder'[x] = holder[x]
Wrote(r, x) == holder[x] \in {0, r} /\ holder'[x] = r /\ shown'[x] = shown[x] /\ row'[x] # Absent

\* A payment stays as it is but for its status, or is made for the current notice.
PaymentMoves(r, p) ==
  LET x == Payment(p)
  IN \/ row[x] = Absent /\ row'[x] = Absent
     \/ row[x] # Absent /\ row'[x] # Absent /\ row'[x].id = row[x].id
     \/ p = <<r, Current(r)>> /\ row'[x] # Absent /\ row'[x].id = Of(r).id

\* Request r goes on: it writes feed rows, the record of the current notice, payments.
GoesOn(r) ==
  /\ Running(r) /\ at'[r] \notin Ended /\ shown' = shown
  /\ \A ref \in Ref : Kept(Feed(ref)) \/ Wrote(r, Feed(ref))
  /\ \A id \in Id :
       \/ Kept(Sync(id))
       \/ /\ Wrote(r, Sync(id)) /\ at[r] = "record" /\ id = Of(r).id /\ shown[Sync(id)] = Absent
          /\ row'[Sync(id)] = "ACCEPTED" => row[Mine(r)] # Absent
          /\ Len(answer'[r]) = Len(answer[r]) + 1
  /\ \A p \in PaymentId : PaymentMoves(r, p)

\* It says nothing, and comes to a sync record's payment only when there is no record.
Silent(r) ==
  /\ answer' = answer
  /\ at'[r] \in {"lock", "post", "record"} /\ Is(r, "SYNC") =>
       at[r] \in {"lock", "post"} \/ (at[r] = "known" /\ ~There(r, Sync(Of(r).id)))

\* It answers the current notice, and what it says is so.
Says(r, outcome) ==
  /\ answer'[r] = Append(answer[r], outcome) /\ at'[r] \notin {"lock", "post", "record"}
  /\ outcome = "posted" => row'[Mine(r)] # Absent
  /\ outcome = "duplicate" => \E ref \in Ref : ref = Of(r).ref /\ There(r, Feed(ref))'
  /\ outcome = "ACCEPTED" => \E id \in Id : id = Of(r).id /\ Sees(r, Sync(id))' = "ACCEPTED"

\* It ends, and all that it holds is committed or taken back.
Ends(r) ==
  /\ Running(r) /\ answer' = answer
  /\ \/ at'[r] \in {"done", "failed"} /\ Publish(r)
     \/ at'[r] \in Ended \ {"done"} /\ (Undo(HeldBy(r)) \/ (ReadOnly /\ Len(answer[r]) = 0))

Does(r) ==
  /\ Alone(r)
  /\ \/ GoesOn(r) /\ (Silent(r) \/ \E outcome \in Outcomes : Says(r, outcome))
     \/ Ends(r)

\* The rows that answers are about are all different.
LEMMA ToldApart ==
  /\ \A ref \in Ref : Feed(ref) \in Row /\ Feed(ref) \in FeedRows /\ Feed(ref)[1] = "feed"
  /\ \A id \in Id : Sync(id) \in Row /\ Sync(id) \notin FeedRows /\ Sync(id)[1] = "sync"
  /\ \A p \in PaymentId : Payment(p) \in Row /\ Payment(p) \notin FeedRows /\ Payment(p)[1] = "payment"
  /\ \A c : ApiClient(c)[1] = "client" /\ ApiClient(c) \notin FeedRows
  /\ \A b : BillLock(b)[1] = "bill" /\ BillLock(b) \notin FeedRows
  /\ \A x \in ExceptionRows : x \in Row /\ x[1] = "exception" /\ x \notin FeedRows
  /\ Run \in Row /\ Run[1] = "run" /\ Run \notin FeedRows
  BY DEF Feed, Sync, Payment, ApiClient, BillLock, Exception, Run, Row, FeedRows, ExceptionRows

\* A statement about no record and no payment.
LEMMA OnlyFeeds ==
  ASSUME Base, NEW r \in Request, Running(r), at'[r] \notin Ended,
         NEW xs, shown' = shown,
         \A x \in Row \ xs : row'[x] = row[x] /\ holder'[x] = holder[x],
         \A x \in xs : x[1] \notin {"sync", "payment"},
         \A x \in xs \cap FeedRows : holder[x] \in {0, r} /\ holder'[x] = r /\ row'[x] # Absent
  PROVE  GoesOn(r)
  <1>1. \A ref \in Ref : Kept(Feed(ref)) \/ Wrote(r, Feed(ref)) BY ToldApart DEF Kept, Wrote
  <1>2. \A id \in Id : Kept(Sync(id)) BY ToldApart DEF Kept
  <1>3. \A p \in PaymentId : row'[Payment(p)] = row[Payment(p)] BY ToldApart
  <1>4. \A p \in PaymentId : PaymentMoves(r, p) BY <1>3 DEF PaymentMoves
  <1>5. QED BY <1>1, <1>2, <1>4 DEF GoesOn

\* The same for the statements that actions make.
LEMMA NothingTold ==
  ASSUME Base, NEW r \in Request, Running(r), at'[r] \notin Ended,
         \/ ReadOnly
         \/ \E x \in Row : \E version : x[1] \notin {"sync", "payment", "feed"} /\ Put(r, x, version)
         \/ \E ref \in Ref : \E version : version # Absent /\ Put(r, Feed(ref), version)
         \/ \E new : /\ Write(r, new)
                     /\ \A x \in DOMAIN new : x \in Row /\ x[1] \notin {"sync", "payment"}
                     /\ \A x \in DOMAIN new \cap FeedRows : new[x] # Absent
         \/ \E xs : (\A x \in xs : x \in Row /\ x[1] \notin {"sync", "payment", "feed"}) /\ Undo(xs)
  PROVE  GoesOn(r)
  <1>1. RowsAre(Row) /\ \A x \in FeedRows : x[1] = "feed" BY DEF Base, FeedRows, Feed
  <1>2. CASE ReadOnly
    <2>1. PICK xs : xs = {} OBVIOUS
    <2>2. shown' = shown /\ \A x \in Row \ xs : row'[x] = row[x] /\ holder'[x] = holder[x]
      BY <1>2 DEF ReadOnly, rows
    <2>3. \A x : x \notin xs BY <2>1
    <2>4. QED BY <2>2, <2>3, OnlyFeeds
  <1>3. CASE \E x \in Row : \E version : x[1] \notin {"sync", "payment", "feed"} /\ Put(r, x, version)
    <2>1. PICK x \in Row : \E version : x[1] \notin {"sync", "payment", "feed"} /\ Put(r, x, version) BY <1>3
    <2>2. PICK version : Put(r, x, version) BY <2>1
    <2>3. shown' = shown /\ \A y \in Row \ {x} : row'[y] = row[y] /\ holder'[y] = holder[y]
      BY <1>1, <2>2, PutDoes
    <2>4. PICK xs : xs = {x} OBVIOUS
    <2>5. \A y : y \in xs <=> y = x BY <2>4
    <2>6. QED BY <1>1, <2>1, <2>3, <2>5, OnlyFeeds
  <1>4. CASE \E ref \in Ref : \E version : version # Absent /\ Put(r, Feed(ref), version)
    <2>1. PICK ref \in Ref : \E version : version # Absent /\ Put(r, Feed(ref), version) BY <1>4
    <2>2. PICK version : version # Absent /\ Put(r, Feed(ref), version) BY <2>1
    <2>3. PICK x \in Row : x = Feed(ref) /\ x[1] = "feed" BY ToldApart
    <2>4. /\ shown' = shown /\ \A y \in Row \ {x} : row'[y] = row[y] /\ holder'[y] = holder[y]
          /\ holder[x] \in {0, r} /\ holder'[x] = r /\ row'[x] # Absent
      BY <1>1, <2>2, <2>3, PutDoes
    <2>5. PICK xs : xs = {x} OBVIOUS
    <2>6. \A y : y \in xs <=> y = x BY <2>5
    <2>7. QED BY <2>3, <2>4, <2>6, OnlyFeeds
  <1>5. CASE \E new : /\ Write(r, new)
                      /\ \A x \in DOMAIN new : x \in Row /\ x[1] \notin {"sync", "payment"}
                      /\ \A x \in DOMAIN new \cap FeedRows : new[x] # Absent
    <2>1. PICK new : /\ Write(r, new)
                     /\ \A x \in DOMAIN new : x \in Row /\ x[1] \notin {"sync", "payment"}
                     /\ \A x \in DOMAIN new \cap FeedRows : new[x] # Absent
      BY <1>5
    <2>2. PICK xs : xs = DOMAIN new OBVIOUS
    <2>3. /\ shown' = shown /\ \A x \in xs : holder[x] \in {0, r}
          /\ \A x \in Row : row'[x] = IF x \in xs THEN new[x] ELSE row[x]
          /\ \A x \in Row : holder'[x] = IF x \in xs THEN r ELSE holder[x]
      BY <1>1, <2>1, <2>2, WriteDoes
    <2>4. QED BY <2>1, <2>2, <2>3, OnlyFeeds
  <1>6. CASE \E xs : (\A x \in xs : x \in Row /\ x[1] \notin {"sync", "payment", "feed"}) /\ Undo(xs)
    <2>1. PICK xs : (\A x \in xs : x \in Row /\ x[1] \notin {"sync", "payment", "feed"}) /\ Undo(xs) BY <1>6
    <2>2. /\ shown' = shown
          /\ \A x \in Row \ xs : row'[x] = row[x] /\ holder'[x] = holder[x]
      BY <1>1, <2>1, UndoDoes
    <2>3. QED BY <1>1, <2>1, <2>2, OnlyFeeds
  <1>7. QED BY <1>2, <1>3, <1>4, <1>5, <1>6

\* Another step of the same notice moves nobody else.
LEMMA GotoAlone ==
  ASSUME Base, NEW r \in Request, NEW step \in Steps, Goto(r, step)
  PROVE  /\ Alone(r) /\ at'[r] = step /\ answer' = answer
         /\ \/ step \notin {"lock", "post", "record"} \/ ~Is(r, "SYNC") \/ at[r] \in {"lock", "post"}
            \/ at[r] = "known" /\ ~There(r, Sync(Of(r).id))
            => Silent(r)
  BY DEF Goto, Go, Stay, Base, Alone, Silent

\* WebhookView and OTCSettlementView before the payment.
LEMMA FeedDoes ==
  ASSUME Inv, NEW r \in Request, Authenticate(r) \/ Touch(r) \/ CheckFeed(r) \/ Receive(r)
  PROVE  Does(r)
  <1>1. /\ Base /\ {"touch", "refused", "check", "receive", "lock"} \subseteq Steps
        /\ {"duplicate", "invalid", "unmatched"} \subseteq Outcomes
        /\ {"touch", "check", "receive", "lock"} \cap Ended = {} /\ "refused" \in Ended \ {"done"}
    BY DEF Inv, IntakeInv, Steps, Outcomes, Ended
  <1>2. at[r] \in Steps \ ({"commit", "break"} \cup Ended) /\ Running(r)
    BY DEF Authenticate, Touch, CheckFeed, Receive, Steps, Ended, Running
  <1>3. job[r].kind \in {"WEBHOOK", "FILE"} /\ ~Is(r, "SYNC")
    BY <1>1, KindAt DEF Authenticate, Touch, CheckFeed, Receive, Is
  <1>4. Of(r).ref \in Ref BY <1>1, <1>2, <1>3, NoticeRows DEF Is
  <1>5. CASE Authenticate(r)
    <2>1. PICK step \in {"touch", "refused"} : Goto(r, step) /\ ReadOnly BY <1>5 DEF Authenticate
    <2>2. Alone(r) /\ at'[r] = step /\ answer' = answer /\ Silent(r) BY <1>1, <1>3, <2>1, GotoAlone
    <2>3. CASE step = "touch" BY <1>1, <1>2, <2>1, <2>2, <2>3, NothingTold DEF Does
    <2>4. CASE step = "refused"
      <3>1. job[r].kind = "WEBHOOK" BY <1>1, <1>5, KindAt DEF Authenticate
      <3>2. Len(answer[r]) = 0 BY <1>1, <1>2, <3>1, AtWork
      <3>3. QED BY <1>1, <1>2, <2>1, <2>2, <2>4, <3>2 DEF Does, Ends
    <2>5. QED BY <2>3, <2>4
  <1>6. CASE Touch(r)
    <2>1. PICK x, version : x = ApiClient(Of(r).client) /\ Put(r, x, version)
      BY <1>6 DEF Touch, Lock
    <2>2. x \in Row /\ x[1] \notin {"sync", "payment", "feed"}
      BY <1>1, <1>2, <2>1, WrittenFits, ToldApart
    <2>3. Alone(r) /\ at'[r] = "check" /\ Silent(r) BY <1>1, <1>3, <1>6, GotoAlone DEF Touch
    <2>4. GoesOn(r) BY <1>1, <1>2, <2>1, <2>2, <2>3, NothingTold
    <2>5. QED BY <2>3, <2>4 DEF Does
  <1>7. CASE CheckFeed(r)
    <2>1. ReadOnly BY <1>7 DEF CheckFeed
    <2>2. CASE ReceivedBefore(r) /\ Answer(r, "duplicate")
      <3>1. /\ Alone(r) /\ answer'[r] = Append(answer[r], "duplicate") /\ at'[r] \notin Ended \cup {"lock", "post", "record"}
        BY <1>1, <1>2, <2>2, AnswerMoves DEF Ended
      <3>2. There(r, Feed(Of(r).ref)) BY <2>2 DEF ReceivedBefore
      <3>3. PICK ref \in Ref : ref = Of(r).ref BY <1>4
      <3>4. There(r, Feed(ref))' BY <2>1, <3>2, <3>3 DEF There, Sees, ReadOnly, rows
      <3>5. Says(r, "duplicate") BY <3>1, <3>3, <3>4 DEF Says
      <3>6. GoesOn(r) BY <1>1, <1>2, <2>1, <3>1, NothingTold
      <3>7. QED BY <1>1, <3>1, <3>5, <3>6 DEF Does
    <2>3. CASE Goto(r, "receive")
      <3>1. Alone(r) /\ at'[r] = "receive" /\ Silent(r) BY <1>1, <1>3, <2>3, GotoAlone
      <3>2. GoesOn(r) BY <1>1, <1>2, <2>1, <3>1, NothingTold
      <3>3. QED BY <3>1, <3>2 DEF Does
    <2>4. QED BY <1>7, <2>2, <2>3 DEF CheckFeed
  <1>8. CASE Receive(r)
    <2>1. PICK ref \in Ref : ref = Of(r).ref BY <1>4
    <2>2. ASSUME NEW outcome \in {"duplicate", "invalid", "unmatched"}, Answer(r, outcome),
                 ReadOnly \/ \E version : version # Absent /\ Put(r, Feed(ref), version),
                 outcome = "duplicate" => ReadOnly /\ ReceivedBefore(r)
          PROVE  Does(r)
      <3>1. Alone(r) /\ answer'[r] = Append(answer[r], outcome) /\ at'[r] \notin Ended \cup {"lock", "post", "record"}
        BY <1>1, <1>2, <2>2, AnswerMoves DEF Ended
      <3>2. GoesOn(r) BY <1>1, <1>2, <2>2, <3>1, NothingTold
      <3>3. outcome = "duplicate" => There(r, Feed(ref))'
        BY <2>1, <2>2 DEF ReceivedBefore, There, Sees, ReadOnly, rows
      <3>4. Says(r, outcome) BY <2>1, <2>2, <3>1, <3>3 DEF Says
      <3>5. QED BY <1>1, <2>2, <3>1, <3>2, <3>4 DEF Does
    <2>3. \A v \in {"UNMATCHED", "EXCEPTION"} : FeedEntry(r, v, NoPayment) # Absent
      <3>1. Of(r) \in Notice BY <1>1, <1>2, AtWork
      <3>2. \A v \in {"UNMATCHED", "EXCEPTION"} : FeedEntry(r, v, NoPayment) \in FeedRow
        BY <3>1 DEF FeedEntry, FeedRow, Notice
      <3>3. QED BY <3>2, AbsentIsNoRow
    <2>4. CASE Answer(r, "invalid") /\ ReadOnly BY <2>2, <2>4
    <2>5. CASE ReceivedBefore(r) /\ Answer(r, "duplicate") /\ ReadOnly BY <2>2, <2>5
    <2>6. CASE Put(r, Feed(Of(r).ref), FeedEntry(r, "EXCEPTION", NoPayment)) /\ Answer(r, "unmatched")
      <3>1. \E version : version # Absent /\ Put(r, Feed(ref), version) BY <2>1, <2>3, <2>6
      <3>2. QED BY <2>2, <2>6, <3>1
    <2>7. CASE Put(r, Feed(Of(r).ref), FeedEntry(r, "UNMATCHED", NoPayment)) /\ Goto(r, "lock")
      <3>1. \E version : version # Absent /\ Put(r, Feed(ref), version) BY <2>1, <2>3, <2>7
      <3>2. Alone(r) /\ at'[r] = "lock" /\ Silent(r) BY <1>1, <1>3, <2>7, GotoAlone
      <3>3. GoesOn(r) BY <1>1, <1>2, <3>1, <3>2, NothingTold
      <3>4. QED BY <3>2, <3>3 DEF Does
    <2>8. QED BY <1>8, <2>4, <2>5, <2>6, <2>7 DEF Receive
  <1>9. QED BY <1>5, <1>6, <1>7, <1>8

\* Payments typed in or replayed, before they are posted, and the records of a replay.
LEMMA RecordDoes ==
  ASSUME Inv, RecordsStay, NEW r \in Request, Accept(r) \/ LookUpRecord(r) \/ Record(r)
  PROVE  Does(r)
  <1>1. /\ Base /\ {"lock", "record", "refused"} \subseteq Steps /\ {"ACCEPTED", "REJECTED"} \subseteq Outcomes
        /\ {"lock", "record"} \cap Ended = {} /\ "refused" \in Ended \ {"done"}
        /\ Absent \notin {"ACCEPTED", "REJECTED"}
    BY AbsentIsNoRow DEF Inv, IntakeInv, Steps, Outcomes, Ended
  <1>2. at[r] \in Steps \ ({"commit", "break"} \cup Ended) /\ Running(r)
    BY DEF Accept, LookUpRecord, Record, Steps, Ended, Running
  <1>3. CASE Accept(r)
    <2>1. ~Is(r, "SYNC") BY <1>1, <1>3, KindAt DEF Accept, Is
    <2>2. PICK step \in {"lock", "refused"} : Goto(r, step) /\ ReadOnly BY <1>3 DEF Accept
    <2>3. Alone(r) /\ at'[r] = step /\ answer' = answer /\ Silent(r) BY <1>1, <2>1, <2>2, GotoAlone
    <2>4. CASE step = "lock" BY <1>1, <1>2, <2>2, <2>3, <2>4, NothingTold DEF Does
    <2>5. CASE step = "refused"
      <3>1. job[r].kind = "MANUAL" BY <1>1, <1>3, KindAt DEF Accept
      <3>2. Len(answer[r]) = 0 BY <1>1, <1>2, <3>1, AtWork
      <3>3. QED BY <1>1, <1>2, <2>2, <2>3, <2>5, <3>2 DEF Does, Ends
    <2>6. QED BY <2>4, <2>5
  <1>4. CASE LookUpRecord(r) \/ Record(r)
    <2>1. PICK id \in Id : id = Of(r).id
      <3>1. Is(r, "SYNC") BY <1>1, <1>4, KindAt DEF LookUpRecord, Record, Is
      <3>2. QED BY <1>1, <1>2, <3>1, NoticeRows
    <2>2. shown[Sync(id)] \in {Absent, "ACCEPTED", "REJECTED"} /\ row[Sync(id)] \in {Absent, "ACCEPTED", "REJECTED"}
      BY DEF Inv, RowsOK
    <2>3. ASSUME NEW outcome \in {"ACCEPTED", "REJECTED"}, Answer(r, outcome), ReadOnly,
                 Sees(r, Sync(id)) = outcome \/ shown[Sync(id)] = outcome,
                 Sees(r, Sync(id)) = outcome \/ row[Sync(id)] = shown[Sync(id)]
          PROVE  Does(r)
      <3>1. Alone(r) /\ answer'[r] = Append(answer[r], outcome) /\ at'[r] \notin Ended \cup {"lock", "post", "record"}
        BY <1>1, <1>2, <2>3, AnswerMoves DEF Ended
      <3>2. GoesOn(r) BY <1>1, <1>2, <2>3, <3>1, NothingTold
      <3>3. Sees(r, Sync(id))' = outcome BY <2>3 DEF Sees, ReadOnly, rows
      <3>4. Says(r, outcome) BY <2>1, <2>3, <3>1, <3>3 DEF Says
      <3>5. QED BY <1>1, <2>3, <3>1, <3>2, <3>4 DEF Does
    <2>4. CASE LookUpRecord(r)
      <3>1. CASE There(r, Sync(id)) /\ Answer(r, Sees(r, Sync(id))) /\ ReadOnly
        <4>1. PICK outcome \in {"ACCEPTED", "REJECTED"} : outcome = Sees(r, Sync(id))
          BY <2>2, <3>1 DEF There, Sees
        <4>2. QED BY <2>3, <3>1, <4>1
      <3>2. CASE ~There(r, Sync(id)) /\ ReadOnly /\ (Goto(r, "lock") \/ Goto(r, "record"))
        <4>1. PICK step \in {"lock", "record"} : Goto(r, step) BY <3>2
        <4>2. at[r] = "known" BY <2>4 DEF LookUpRecord
        <4>3. Alone(r) /\ at'[r] = step /\ Silent(r) BY <1>1, <2>1, <3>2, <4>1, <4>2, GotoAlone
        <4>4. GoesOn(r) BY <1>1, <1>2, <3>2, <4>1, <4>3, NothingTold
        <4>5. QED BY <4>3, <4>4 DEF Does
      <3>3. QED BY <2>1, <2>4, <3>1, <3>2 DEF LookUpRecord
    <2>5. CASE Record(r)
      <3>1. at[r] = "record" BY <2>5 DEF Record
      <3>2. CASE shown[Sync(id)] # Absent /\ Answer(r, shown[Sync(id)]) /\ ReadOnly
        <4>1. PICK outcome \in {"ACCEPTED", "REJECTED"} : outcome = shown[Sync(id)] BY <2>2, <3>2
        <4>2. row[Sync(id)] = shown[Sync(id)] BY <3>2 DEF RecordsStay
        <4>3. QED BY <2>3, <3>2, <4>1, <4>2
      <3>3. ASSUME NEW outcome \in {"ACCEPTED", "REJECTED"}, shown[Sync(id)] = Absent,
                   Put(r, Sync(id), outcome), Answer(r, outcome),
                   outcome = "ACCEPTED" => row[Mine(r)] # Absent
            PROVE  Does(r)
        <4>1. /\ Alone(r) /\ answer'[r] = Append(answer[r], outcome) /\ Len(answer'[r]) = Len(answer[r]) + 1
              /\ at'[r] \notin Ended \cup {"lock", "post", "record"}
          BY <1>1, <1>2, <3>3, AnswerMoves DEF Ended
        <4>2. PICK x \in Row : x = Sync(id) BY ToldApart
        <4>3. /\ shown' = shown /\ holder[x] \in {0, r} /\ row'[x] = outcome /\ holder'[x] = r
              /\ \A y \in Row \ {x} : row'[y] = row[y] /\ holder'[y] = holder[y]
          BY <1>1, <3>3, <4>2, PutDoes DEF Base
        <4>4. \A ref \in Ref : Feed(ref) \in Row /\ Feed(ref) # x BY <4>2, ToldApart
        <4>5. \A p \in PaymentId : Payment(p) \in Row /\ Payment(p) # x BY <4>2, ToldApart
        <4>6. \A d \in Id : d # id => Sync(d) \in Row /\ Sync(d) # x BY <4>2, ToldApart DEF Sync
        <4>7. \A ref \in Ref : Kept(Feed(ref)) BY <4>3, <4>4 DEF Kept
        <4>8. \A p \in PaymentId : PaymentMoves(r, p) BY <4>3, <4>5 DEF PaymentMoves
        <4>9. \A d \in Id : d # id => Kept(Sync(d)) BY <4>3, <4>6 DEF Kept
        <4>10. Wrote(r, Sync(id)) BY <1>1, <4>2, <4>3 DEF Wrote
        <4>11. GoesOn(r) BY <1>2, <2>1, <3>1, <3>3, <4>1, <4>2, <4>3, <4>7, <4>8, <4>9, <4>10 DEF GoesOn
        <4>12. Sees(r, Sync(id))' = outcome BY <4>2, <4>3 DEF Sees
        <4>13. Says(r, outcome) BY <2>1, <3>3, <4>1, <4>12 DEF Says
        <4>14. QED BY <1>1, <3>3, <4>1, <4>11, <4>13 DEF Does
      <3>4. QED BY <2>1, <2>5, <3>2, <3>3 DEF Record
    <2>6. QED BY <1>4, <2>4, <2>5
  <1>5. QED BY <1>3, <1>4

\* post_payment and reverse_payment, as far as answers are concerned.
LEMMA PaymentDoes ==
  ASSUME Inv, NEW r \in Request,
         LockBill(r) \/ PostPayment(r) \/ HoldPayment(r) \/ ReversePayment(r)
  PROVE  Does(r)
  <1>1. /\ Base /\ {"undo", "post", "lock", "record"} \subseteq Steps /\ {"posted", "reversed"} \subseteq Outcomes
        /\ {"undo", "post", "lock", "record"} \cap Ended = {} /\ RowsAre(Row)
    BY DEF Inv, IntakeInv, Base, Steps, Outcomes, Ended
  <1>2. at[r] \in Steps \ ({"commit", "break"} \cup Ended) /\ Running(r)
    BY DEF LockBill, PostPayment, HoldPayment, ReversePayment, Steps, Ended, Running
  <1>3. Of(r) \in Notice /\ <<r, Current(r)>> \in PaymentId BY <1>1, <1>2, AtWork DEF PaymentId
  <1>4. CASE LockBill(r)
    <2>1. PICK x, version : x = BillLock(BillOf(r)) /\ Put(r, x, version) BY <1>4 DEF LockBill, Lock
    <2>2. BillOf(r) \in Bill
      <3>1. CASE Is(r, "REVERSE")
        <4>1. PICK p \in PaymentId : on[r] = Payment(p) /\ shown[on[r]] # Absent
          BY <1>1, <1>4, <3>1 DEF LockBill, Base, Progress
        <4>2. shown[on[r]] \in PaymentRow BY <4>1 DEF Inv, IntakeInv, PaymentsOK, PaymentStays
        <4>3. QED BY <3>1, <4>2 DEF BillOf, PaymentRow
      <3>2. CASE ~Is(r, "REVERSE") BY <1>3, <3>2 DEF BillOf, Notice
      <3>3. QED BY <3>1, <3>2
    <2>3. x \in Row /\ x[1] = "bill" BY <2>1, <2>2 DEF Row, BillLock
    <2>4. PICK step \in {"undo", "post"} : Goto(r, step) BY <1>4 DEF LockBill
    <2>5. at[r] = "lock" BY <1>4 DEF LockBill
    <2>6. Alone(r) /\ at'[r] = step /\ Silent(r) BY <1>1, <2>4, <2>5, GotoAlone
    <2>7. GoesOn(r) BY <1>1, <1>2, <2>1, <2>3, <2>6, NothingTold
    <2>8. QED BY <2>6, <2>7 DEF Does
  <1>5. ASSUME NEW p \in PaymentId, NEW version, Put(r, Payment(p), version), version # Absent,
               \/ row[Payment(p)] # Absent /\ version.id = row[Payment(p)].id
               \/ p = <<r, Current(r)>> /\ version.id = Of(r).id,
               at'[r] \notin Ended
        PROVE  GoesOn(r) /\ row'[Payment(p)] # Absent
    <2>1. PICK x \in Row : x = Payment(p) BY RowsApart
    <2>2. /\ shown' = shown /\ row'[x] = version
          /\ \A y \in Row \ {x} : row'[y] = row[y] /\ holder'[y] = holder[y]
      BY <1>1, <1>5, <2>1, PutDoes
    <2>3. \A ref \in Ref : Kept(Feed(ref)) BY <2>1, <2>2, ToldApart DEF Kept
    <2>4. \A id \in Id : Kept(Sync(id)) BY <2>1, <2>2, ToldApart DEF Kept
    <2>5. ASSUME NEW q \in PaymentId PROVE PaymentMoves(r, q)
      <3>1. CASE q = p BY <1>5, <2>1, <2>2, <3>1 DEF PaymentMoves
      <3>2. CASE q # p
        <4>1. row'[Payment(q)] = row[Payment(q)] BY <2>1, <2>2, <3>2, RowsApart
        <4>2. QED BY <4>1 DEF PaymentMoves
      <3>3. QED BY <3>1, <3>2
    <2>6. QED BY <1>2, <1>5, <2>1, <2>2, <2>3, <2>4, <2>5 DEF GoesOn
  <1>6. Paid(r) \in PaymentRow /\ Paid(r).id = Of(r).id /\ Paid(r) # Absent
    BY <1>3, AbsentIsNoRow DEF Paid, PaymentRow, Notice
  <1>7. PICK m \in PaymentId : m = <<r, Current(r)>> /\ Mine(r) = Payment(m) BY <1>3 DEF Mine
  <1>8. CASE PostPayment(r)
    <2>1. at[r] = "post" BY <1>8 DEF PostPayment
    <2>2. ASSUME Answer(r, "posted")
          PROVE  Alone(r) /\ answer'[r] = Append(answer[r], "posted") /\ at'[r] \notin Ended \cup {"lock", "post", "record"}
      BY <1>1, <1>2, <2>2, AnswerMoves DEF Ended
    <2>3. CASE Put(r, Mine(r), Paid(r)) /\ Answer(r, "posted")
      <3>1. GoesOn(r) /\ row'[Mine(r)] # Absent BY <1>5, <1>6, <1>7, <2>2, <2>3
      <3>2. Says(r, "posted") BY <2>2, <2>3, <3>1 DEF Says
      <3>3. QED BY <1>1, <2>2, <2>3, <3>1, <3>2 DEF Does
    <2>4. CASE Put(r, Mine(r), Paid(r)) /\ Goto(r, "record")
      <3>1. Alone(r) /\ at'[r] = "record" /\ Silent(r) BY <1>1, <2>1, <2>4, GotoAlone
      <3>2. GoesOn(r) BY <1>1, <1>5, <1>6, <1>7, <2>4, <3>1
      <3>3. QED BY <3>1, <3>2 DEF Does
    <2>5. CASE /\ job[r].kind \in {"WEBHOOK", "FILE"}
               /\ Write(r, [x \in {Mine(r), Feed(Of(r).ref)} |->
                              IF x = Mine(r) THEN Paid(r) ELSE FeedEntry(r, "MATCHED", <<r, Current(r)>>)])
               /\ Answer(r, "posted")
      <3>1. PICK ref \in Ref : ref = Of(r).ref BY <1>1, <1>2, <2>5, NoticeRows DEF Is
      <3>2. PICK x \in Row, y \in Row : x = Payment(m) /\ y = Feed(ref) /\ x # y BY ToldApart
      <3>3. FeedEntry(r, "MATCHED", <<r, Current(r)>>) # Absent
        <4>1. FeedEntry(r, "MATCHED", <<r, Current(r)>>) \in FeedRow BY <1>3 DEF FeedEntry, FeedRow, Notice
        <4>2. QED BY <4>1, AbsentIsNoRow
      <3>4. PICK new : DOMAIN new = {x, y} /\ new[x] = Paid(r) /\ new[y] # Absent /\ Write(r, new)
        BY <1>7, <2>5, <3>1, <3>2, <3>3
      <3>5. /\ shown' = shown /\ row'[x] = Paid(r) /\ row'[y] # Absent
            /\ holder[y] \in {0, r} /\ holder'[y] = r
            /\ \A z \in Row \ {x, y} : row'[z] = row[z] /\ holder'[z] = holder[z]
        BY <1>1, <3>2, <3>4, WriteDoes
      <3>6. \A f \in Ref : f # ref => Feed(f) # Feed(ref) BY DEF Feed
      <3>7. \A f \in Ref : Kept(Feed(f)) \/ Wrote(r, Feed(f))
        BY <3>2, <3>5, <3>6, ToldApart DEF Kept, Wrote
      <3>8. \A id \in Id : Kept(Sync(id)) BY <3>2, <3>5, ToldApart DEF Kept
      <3>9. ASSUME NEW q \in PaymentId PROVE PaymentMoves(r, q)
        <4>1. CASE q = m BY <1>6, <1>7, <3>2, <3>5, <4>1 DEF PaymentMoves
        <4>2. CASE q # m
          <5>1. row'[Payment(q)] = row[Payment(q)] BY <3>2, <3>5, <4>2, RowsApart
          <5>2. QED BY <5>1 DEF PaymentMoves
        <4>3. QED BY <4>1, <4>2
      <3>10. GoesOn(r) BY <1>2, <2>2, <2>5, <3>5, <3>7, <3>8, <3>9 DEF GoesOn
      <3>11. Says(r, "posted") BY <1>6, <1>7, <2>2, <2>5, <3>2, <3>5 DEF Says
      <3>12. QED BY <1>1, <2>2, <2>5, <3>10, <3>11 DEF Does
    <2>6. QED BY <1>8, <2>3, <2>4, <2>5 DEF PostPayment
  <1>9. CASE HoldPayment(r) \/ ReversePayment(r)
    <2>1. PICK p \in PaymentId : on[r] = Payment(p) /\ shown[on[r]] # Absent
      BY <1>1, <1>9 DEF HoldPayment, ReversePayment, Base, Progress
    <2>2. row[Payment(p)] \in PaymentRow /\ row[Payment(p)] # Absent
      BY <2>1 DEF Inv, IntakeInv, PaymentsOK, PaymentStays
    <2>3. CASE HoldPayment(r)
      <3>1. Put(r, Payment(p), row[Payment(p)]) /\ Goto(r, "lock") BY <2>1, <2>3 DEF HoldPayment, Lock
      <3>2. ~Is(r, "SYNC") BY <1>1, <2>3, KindAt DEF HoldPayment, Is
      <3>3. Alone(r) /\ at'[r] = "lock" /\ Silent(r) BY <1>1, <3>1, <3>2, GotoAlone
      <3>4. PICK version : version = row[Payment(p)] OBVIOUS
      <3>5. GoesOn(r) BY <1>1, <1>5, <2>2, <3>1, <3>3, <3>4
      <3>6. QED BY <3>3, <3>5 DEF Does
    <2>4. CASE ReversePayment(r)
      <3>1. PICK version \in PaymentRow :
              version.id = row[Payment(p)].id /\ Put(r, Payment(p), version) /\ Answer(r, "reversed")
        <4>1. Put(r, Payment(p), [row[Payment(p)] EXCEPT !.status = "REVERSED"]) /\ Answer(r, "reversed")
          BY <2>1, <2>4 DEF ReversePayment
        <4>2. /\ [row[Payment(p)] EXCEPT !.status = "REVERSED"] \in PaymentRow
              /\ [row[Payment(p)] EXCEPT !.status = "REVERSED"].id = row[Payment(p)].id
          BY <2>2 DEF PaymentRow
        <4>3. QED BY <4>1, <4>2
      <3>2. Alone(r) /\ answer'[r] = Append(answer[r], "reversed") /\ at'[r] \notin Ended \cup {"lock", "post", "record"}
        BY <1>1, <1>2, <3>1, AnswerMoves DEF Ended
      <3>3. GoesOn(r) BY <1>5, <2>2, <3>1, <3>2, AbsentIsNoRow
      <3>4. Says(r, "reversed") BY <3>2 DEF Says
      <3>5. QED BY <1>1, <3>2, <3>3, <3>4 DEF Does
    <2>5. QED BY <1>9, <2>3, <2>4
  <1>10. QED BY <1>4, <1>8, <1>9

\* run_reconciliation, resolve_exception and the revocation of a client, likewise.
LEMMA ReconciliationDoes ==
  ASSUME Inv, NEW r \in Request,
         \/ FindPayment(r) \/ FindException(r) \/ MatchFeed(r) \/ OpenRun(r) \/ Mark(r) \/ Revoke(r)
         \/ (Resolve(r) /\ shown[on[r]] # "DELETED")
  PROVE  Does(r)
  <1>1. /\ Base /\ {"hold", "note", "run", "mark", "refused"} \subseteq Steps
        /\ {"reconciled", "resolved", "revoked"} \subseteq Outcomes
        /\ {"hold", "note", "run", "mark"} \cap Ended = {} /\ "refused" \in Ended \ {"done"}
    BY DEF Inv, IntakeInv, Steps, Outcomes, Ended
  <1>2. at[r] \in Steps \ ({"commit", "break"} \cup Ended) /\ Running(r)
    BY DEF FindPayment, FindException, MatchFeed, OpenRun, Mark, Revoke, Resolve, Steps, Ended, Running
  <1>3. ASSUME NEW outcome \in {"reconciled", "resolved", "revoked"}, Answer(r, outcome),
               at'[r] \notin Ended => GoesOn(r)
        PROVE  Does(r)
    <2>1. Alone(r) /\ answer'[r] = Append(answer[r], outcome) /\ at'[r] \notin Ended \cup {"lock", "post", "record"}
      BY <1>1, <1>2, <1>3, AnswerMoves DEF Ended
    <2>2. Says(r, outcome) BY <1>3, <2>1 DEF Says
    <2>3. QED BY <1>1, <1>3, <2>1, <2>2 DEF Does
  <1>4. CASE FindPayment(r) \/ FindException(r) \/ MatchFeed(r)
    <2>1. ReadOnly /\ answer' = answer /\ Alone(r) /\ at'[r] \in {"hold", "note", "run", "refused"}
      BY <1>1, <1>4 DEF FindPayment, FindException, MatchFeed, Go, Base, Alone
    <2>2. Silent(r) BY <2>1 DEF Silent
    <2>3. CASE at'[r] = "refused"
      <3>1. job[r].kind \in {"REVERSE", "RESOLVE", "RECONCILE"}
        BY <1>1, <1>4, KindAt DEF FindPayment, FindException, MatchFeed
      <3>2. Len(answer[r]) = 0 BY <1>1, <1>2, <3>1, AtWork
      <3>3. QED BY <1>1, <1>2, <2>1, <2>3, <3>2 DEF Does, Ends
    <2>4. CASE at'[r] # "refused"
      <3>1. GoesOn(r) BY <1>1, <1>2, <2>1, <2>4, NothingTold
      <3>2. QED BY <2>1, <2>2, <3>1 DEF Does
    <2>5. QED BY <2>3, <2>4
  <1>5. CASE OpenRun(r)
    <2>1. PICK new : DOMAIN new = RunRows /\ Write(r, new) BY <1>5 DEF OpenRun
    <2>2. \A x \in RunRows : x \in Row /\ x[1] \notin {"sync", "payment"} /\ x \notin FeedRows
      BY ToldApart DEF RunRows, Listed
    <2>3. Alone(r) /\ at'[r] = "mark" /\ Silent(r) BY <1>1, <1>5, GotoAlone DEF OpenRun
    <2>4. GoesOn(r) BY <1>1, <1>2, <2>1, <2>2, <2>3, NothingTold
    <2>5. QED BY <2>3, <2>4 DEF Does
  <1>6. CASE Mark(r)
    <2> DEFINE there == {ref \in Ref : shown[Feed(ref)] # Absent}
               lone == {ref \in there : match[r][ref] = NoPayment}
               xs == {Feed(ref) : ref \in there} \cup {Exception(r, ref) : ref \in lone} \cup {Run}
               new == [x \in xs |->
                         CASE x = Run            -> RunStatus(lone)
                           [] x[1] = "exception" -> "OPEN"
                           [] x[1] = "feed" /\ x[2] \in lone -> [shown[x] EXCEPT !.status = "EXCEPTION"]
                           [] OTHER -> [shown[x] EXCEPT !.status = "MATCHED", !.payment = match[r][x[2]]]]
    <2>1. Write(r, new) BY <1>6, Zenon DEF Mark
    <2>2. DOMAIN new = xs OBVIOUS
    <2>3. \A x \in xs : x \in Row /\ x[1] \notin {"sync", "payment"}
      BY ToldApart DEF ExceptionRows
    <2>4. ASSUME NEW x \in xs \cap FeedRows PROVE new[x] # Absent
      <3>1. PICK ref \in there : x = Feed(ref) /\ x # Run /\ x[1] = "feed" /\ x[2] = ref
        <4>1. PICK ref \in Ref : x = Feed(ref) BY DEF FeedRows
        <4>2. x # Run /\ x[1] = "feed" /\ x[2] = ref BY <4>1 DEF Feed, Run
        <4>3. ref \in there BY <4>1, <4>2 DEF Feed, Exception
        <4>4. QED BY <4>1, <4>2, <4>3
      <3>2. shown[x] \in FeedRow BY <3>1 DEF Inv, RowsOK, FeedRows
      <3>3. match[r][ref] \in PaymentId \cup {NoPayment} BY DEF Inv, MatchOK
      <3>4. /\ [shown[x] EXCEPT !.status = "EXCEPTION"] \in FeedRow
            /\ [shown[x] EXCEPT !.status = "MATCHED", !.payment = match[r][ref]] \in FeedRow
        BY <3>2, <3>3 DEF FeedRow
      <3>5. new[x] = IF ref \in lone THEN [shown[x] EXCEPT !.status = "EXCEPTION"]
                     ELSE [shown[x] EXCEPT !.status = "MATCHED", !.payment = match[r][ref]]
        BY <3>1
      <3>6. new[x] \in FeedRow BY <3>4, <3>5
      <3> HIDE DEF new
      <3>7. QED BY <3>6, AbsentIsNoRow
    <2> HIDE DEF new, xs
    <2>5. at'[r] \notin Ended => GoesOn(r) BY <1>1, <1>2, <2>1, <2>2, <2>3, <2>4, NothingTold
    <2>6. QED BY <1>3, <1>6, <2>5 DEF Mark
  <1>7. CASE Revoke(r)
    <2>1. PICK x : x = ApiClient(Of(r).client) /\ Put(r, x, "REVOKED") BY <1>7 DEF Revoke
    <2>2. x \in Row /\ x[1] = "client" BY <1>1, <1>2, <2>1, WrittenFits, ToldApart
    <2>3. at'[r] \notin Ended => GoesOn(r) BY <1>1, <1>2, <2>1, <2>2, NothingTold
    <2>4. QED BY <1>3, <1>7, <2>3 DEF Revoke
  <1>8. CASE Resolve(r) /\ shown[on[r]] # "DELETED"
    <2>1. PICK x \in ExceptionRows : x = on[r] BY <1>1, <1>8 DEF Resolve, Base, Progress
    <2>2. Put(r, x, "RESOLVED") BY <1>8, <2>1 DEF Resolve
    <2>3. at'[r] \notin Ended => GoesOn(r) BY <1>1, <1>2, <2>2, ToldApart, NothingTold
    <2>4. QED BY <1>3, <1>8, <2>3 DEF Resolve
  <1>9. QED BY <1>4, <1>5, <1>6, <1>7, <1>8

\* An error of post_payment, or in its place.
LEMMA FailDoes ==
  ASSUME Inv, NEW r \in Request, at[r] \in {"touch", "receive", "lock", "post"}, Fail(r)
  PROVE  Does(r)
  <1>1. /\ Base /\ {"break", "record"} \subseteq Steps /\ {"break", "record"} \cap Ended = {}
        /\ {"refused", "failed"} \subseteq Steps /\ {"refused", "failed"} \subseteq Ended \ {"done"}
    BY DEF Inv, IntakeInv, Steps, Ended
  <1>2. at[r] \in Steps \ ({"commit", "break"} \cup Ended) /\ Running(r) BY DEF Steps, Ended, Running
  <1>3. CASE Rollback(r, "refused") \/ Rollback(r, "failed")
    <2>1. PICK step \in {"refused", "failed"} : Rollback(r, step) BY <1>3
    <2>2. Goto(r, step) BY <2>1 DEF Rollback, Goto
    <2>3. Alone(r) /\ at'[r] = step /\ answer' = answer BY <1>1, <2>2, GotoAlone
    <2>4. QED BY <1>1, <1>2, <2>1, <2>3 DEF Does, Ends, Rollback
  <1>4. CASE Is(r, "FILE") /\ Goto(r, "break") /\ ReadOnly
    <2>1. Alone(r) /\ at'[r] = "break" /\ Silent(r) BY <1>1, <1>4, GotoAlone
    <2>2. GoesOn(r) BY <1>1, <1>2, <1>4, <2>1, NothingTold
    <2>3. QED BY <2>1, <2>2 DEF Does
  <1>5. CASE Is(r, "SYNC") /\ Undo(BillLocked(r)) /\ Goto(r, "record")
    <2>1. at[r] \in {"lock", "post"}
      <3>1. job[r].kind = "SYNC" BY <1>5 DEF Is
      <3>2. QED BY <1>1, <3>1, KindAt
    <2>2. Alone(r) /\ at'[r] = "record" /\ Silent(r) BY <1>1, <1>5, <2>1, GotoAlone
    <2>3. \A x \in BillLocked(r) : x \in Row /\ x[1] = "bill"
      BY <1>1, <1>2, WrittenFits, ToldApart DEF BillLocked
    <2>4. GoesOn(r) BY <1>1, <1>2, <1>5, <2>2, <2>3, NothingTold
    <2>5. QED BY <2>2, <2>4 DEF Does
  <1>6. QED BY <1>3, <1>4, <1>5 DEF Fail

\* Whatever a request does.
LEMMA EveryStepDoes ==
  ASSUME Inv, RecordsStay, NEW r \in Request, Work(r) \/ Crash(r)
  PROVE  Does(r)
  <1>1. Base /\ {"break", "done", "failed", "lost"} \subseteq Steps
        /\ {"done", "failed", "lost"} \subseteq Ended /\ "break" \notin Ended
    BY DEF Inv, IntakeInv, Steps, Ended
  <1>2. CASE Commit(r)
    <2>1. PICK step \in {"done", "failed"} : Goto(r, step) /\ Publish(r) BY <1>2 DEF Commit
    <2>2. Alone(r) /\ at'[r] = step /\ answer' = answer BY <1>1, <2>1, GotoAlone
    <2>3. Running(r) BY <1>2 DEF Commit, Running, Ended
    <2>4. QED BY <2>1, <2>2, <2>3 DEF Does, Ends
  <1>3. CASE RefuseRef(r) BY <1>3, FailDoes DEF RefuseRef
  <1>4. CASE Abort(r)
    <2>1. Wants(r) # {} BY <1>4 DEF Abort, DeadlockVictim, InWaitCycle
    <2>2. at[r] \in {"touch", "revoke", "receive", "lock", "post", "record", "hold", "note", "run", "mark"}
      BY <2>1 DEF Wants
    <2>3. CASE at[r] = "record"
      <3>1. Goto(r, "break") /\ ReadOnly BY <1>4, <2>3 DEF Abort
      <3>2. Alone(r) /\ at'[r] = "break" /\ Silent(r) BY <1>1, <3>1, GotoAlone
      <3>3. Running(r) BY <2>3 DEF Running, Ended
      <3>4. GoesOn(r) BY <1>1, <3>1, <3>2, <3>3, NothingTold
      <3>5. QED BY <3>2, <3>4 DEF Does
    <2>4. CASE at[r] # "record"
      <3>1. Fail(r) BY <1>4, <2>4 DEF Abort
      <3>2. job[r].kind \in {"MANUAL", "WEBHOOK", "FILE", "SYNC"} BY <3>1 DEF Fail, Is
      <3>3. at[r] \in {"touch", "receive", "lock", "post"} BY <1>1, <2>2, <2>4, <3>2, KindAt
      <3>4. QED BY <3>1, <3>3, FailDoes
    <2>5. QED BY <2>3, <2>4
  <1>5. CASE Crash(r)
    <2>1. Goto(r, "lost") /\ Undo(HeldBy(r)) /\ Running(r) BY <1>5 DEF Crash, Rollback, Goto, Running
    <2>2. Alone(r) /\ at'[r] = "lost" /\ answer' = answer BY <1>1, <2>1, GotoAlone
    <2>3. QED BY <1>1, <2>1, <2>2 DEF Does, Ends
  <1>6. CASE Resolve(r) /\ shown[on[r]] = "DELETED"
    <2>1. Goto(r, "failed") /\ Undo(HeldBy(r)) /\ Running(r) BY <1>6 DEF Resolve, Rollback, Goto, Running, Ended
    <2>2. Alone(r) /\ at'[r] = "failed" /\ answer' = answer BY <1>1, <2>1, GotoAlone
    <2>3. QED BY <1>1, <2>1, <2>2 DEF Does, Ends
  <1>7. QED BY <1>2, <1>3, <1>4, <1>5, <1>6, FeedDoes, RecordDoes, PaymentDoes, ReconciliationDoes DEF Work

-----------------------------------------------------------------------------
(* What was told is so. *)

Published(r) == \A x \in Row : IF holder[x] = r THEN row'[x] = row[x] /\ shown'[x] = row[x] /\ holder'[x] = 0
                               ELSE Kept(x)
TakenAway(r) == \A x \in Row : IF holder[x] = r THEN row'[x] = shown[x] /\ shown'[x] = shown[x] /\ holder'[x] = 0
                               ELSE Kept(x)

\* A request ends with all it holds committed, or all of it taken back, or holding nothing
\* that it told.
LEMMA EndRows ==
  ASSUME Base, NEW r \in Request, Ends(r)
  PROVE  \/ Published(r) /\ at'[r] \in {"done", "failed"}
         \/ TakenAway(r) /\ at'[r] \in Ended \ {"done"}
         \/ (\A x \in Row : Kept(x)) /\ Len(answer[r]) = 0 /\ at'[r] \in Ended \ {"done"}
  <1>1. RowsAre(Row) BY DEF Base
  <1>2. CASE at'[r] \in {"done", "failed"} /\ Publish(r)
    BY <1>1, <1>2, PublishDoes DEF Published, Kept
  <1>3. CASE at'[r] \in Ended \ {"done"} /\ Undo(HeldBy(r))
    <2>1. PICK xs : xs = HeldBy(r) /\ Undo(xs) BY <1>3
    <2>2. \A x \in Row : x \in xs <=> holder[x] = r BY <1>1, <2>1 DEF HeldBy, RowsAre
    <2>3. /\ \A x \in Row : row'[x] = IF x \in xs THEN shown[x] ELSE row[x]
          /\ \A x \in Row : holder'[x] = IF x \in xs THEN 0 ELSE holder[x]
          /\ shown' = shown
      BY <1>1, <2>1, UndoDoes
    <2>4. QED BY <1>3, <2>2, <2>3 DEF TakenAway, Kept
  <1>4. CASE at'[r] \in Ended \ {"done"} /\ ReadOnly /\ Len(answer[r]) = 0
    BY <1>4 DEF Kept, ReadOnly, rows
  <1>5. QED BY <1>2, <1>3, <1>4 DEF Ends

\* Feed rows, records and the client ids of payments stay as they are.
LEMMA RecordsKept ==
  ASSUME IntakeInv, FeedsStay, RecordsStay, PaymentIds, NEW r \in Request, Does(r)
  PROVE  FeedsStay' /\ RecordsStay' /\ PaymentIds'
  <1>1. Base /\ job' = job BY DEF IntakeInv, Does, Alone
  <1>2. \A p \in PaymentId : PaymentStays(p) BY DEF IntakeInv, PaymentsOK
  <1>3. CASE GoesOn(r)
    <2>1. FeedsStay' BY <1>3 DEF FeedsStay, GoesOn, Kept, Wrote
    <2>2. RecordsStay' BY <1>3 DEF RecordsStay, GoesOn, Kept, Wrote
    <2>3. ASSUME NEW p \in PaymentId, row'[Payment(p)] # Absent
          PROVE  row'[Payment(p)].id = job[p[1]].notices[p[2]].id
      <3>1. PaymentMoves(r, p) BY <1>3 DEF GoesOn
      <3>2. CASE row[Payment(p)] # Absent /\ row'[Payment(p)].id = row[Payment(p)].id BY <3>2 DEF PaymentIds
      <3>3. CASE p = <<r, Current(r)>> /\ row'[Payment(p)].id = Of(r).id BY <3>3 DEF Of
      <3>4. QED BY <2>3, <3>1, <3>2, <3>3 DEF PaymentMoves
    <2>4. QED BY <1>1, <2>1, <2>2, <2>3 DEF PaymentIds
  <1>4. CASE Ends(r)
    <2>1. \A x \in Row :
            \/ Kept(x)
            \/ holder'[x] = 0 /\ row'[x] = row[x] /\ shown'[x] = row[x]
            \/ holder'[x] = 0 /\ row'[x] = shown[x] /\ shown'[x] = shown[x]
      BY <1>1, <1>4, EndRows DEF Published, TakenAway
    <2>2. FeedsStay' BY <2>1, ToldApart DEF FeedsStay, Kept
    <2>3. RecordsStay' BY <2>1, ToldApart DEF RecordsStay, Kept
    <2>4. ASSUME NEW p \in PaymentId, row'[Payment(p)] # Absent
          PROVE  row'[Payment(p)].id = job[p[1]].notices[p[2]].id
      <3>1. row[Payment(p)] # Absent /\ row'[Payment(p)].id = row[Payment(p)].id
        BY <1>2, <2>1, <2>4, ToldApart DEF Kept, PaymentStays
      <3>2. QED BY <3>1 DEF PaymentIds
    <2>5. QED BY <1>1, <2>2, <2>3, <2>4 DEF PaymentIds
  <1>5. QED BY <1>3, <1>4 DEF Does

\* A committed payment stays committed and keeps its client id.
LEMMA CommittedKept ==
  ASSUME IntakeInv, NEW r \in Request, Does(r), NEW p \in PaymentId, shown[Payment(p)] # Absent
  PROVE  shown'[Payment(p)] # Absent /\ shown'[Payment(p)].id = shown[Payment(p)].id
  <1>1. Base /\ PaymentStays(p) BY DEF IntakeInv, PaymentsOK
  <1>2. CASE GoesOn(r) BY <1>2 DEF GoesOn
  <1>3. CASE Ends(r)
    <2>1. shown'[Payment(p)] \in {shown[Payment(p)], row[Payment(p)]}
      BY <1>1, <1>3, EndRows, ToldApart DEF Published, TakenAway, Kept
    <2>2. QED BY <1>1, <2>1 DEF PaymentStays
  <1>4. QED BY <1>2, <1>3 DEF Does

\* An accepted record keeps its payment.
LEMMA BackedKept ==
  ASSUME IntakeInv, RowsOK(row), RowsOK(shown), RecordsStay, PaymentIds, Backed, NEW r \in Request, Does(r)
  PROVE  Backed'
  <1>1. Base /\ job' = job /\ Alone(r) /\ "ACCEPTED" # Absent
    BY AbsentIsNoRow DEF IntakeInv, Does, Alone, Outcomes
  <1>2. \A q \in Request, i \in 1..MaxRows : <<q, i>> \in PaymentId BY DEF PaymentId
  <1>3. ASSUME NEW id \in Id, shown[Sync(id)] = "ACCEPTED"
        PROVE  \E p \in PaymentId : shown'[Payment(p)] # Absent /\ shown'[Payment(p)].id = id
    <2>1. PICK p \in PaymentId : shown[Payment(p)] # Absent /\ shown[Payment(p)].id = id
      BY <1>3 DEF Backed
    <2>2. QED BY <2>1, CommittedKept
  <1>4. ASSUME NEW id \in Id, shown'[Sync(id)] = "ACCEPTED"
        PROVE  \E p \in PaymentId : shown'[Payment(p)] # Absent /\ shown'[Payment(p)].id = id
    <2>1. CASE shown[Sync(id)] = "ACCEPTED" BY <1>3, <2>1
    <2>2. CASE shown[Sync(id)] # "ACCEPTED"
      <3>1. Ends(r) BY <1>4, <2>2 DEF Does, GoesOn
      <3>2. Published(r) /\ holder[Sync(id)] = r /\ row[Sync(id)] = "ACCEPTED"
        BY <1>1, <1>4, <2>2, <3>1, EndRows, ToldApart DEF Published, TakenAway, Kept
      <3>3. shown[Sync(id)] = Absent BY <2>2, <3>2 DEF RecordsStay
      <3>4. PICK i \in 1..MaxRows : /\ Running(r) /\ row[Payment(<<r, i>>)] # Absent
                                    /\ job[r].notices[i].id = id
        BY <3>2, <3>3 DEF Backed
      <3>5. PICK p \in PaymentId : p = <<r, i>> /\ row[Payment(p)] # Absent BY <1>2, <3>4
      <3>6. holder[Payment(p)] = r BY <3>4, <3>5 DEF IntakeInv, PaymentsOK, Payments
      <3>7. row[Payment(p)].id = id BY <3>4, <3>5 DEF PaymentIds
      <3>8. shown'[Payment(p)] = row[Payment(p)] BY <3>2, <3>6, ToldApart DEF Published
      <3>9. QED BY <3>5, <3>7, <3>8
    <2>3. QED BY <2>1, <2>2
  <1>5. ASSUME NEW id \in Id, shown'[Sync(id)] = Absent, row'[Sync(id)] = "ACCEPTED"
        PROVE  \E q \in Request : \E i \in 1..MaxRows :
                 /\ holder'[Sync(id)] = q /\ at'[q] \notin Ended /\ i <= Len(answer'[q])
                 /\ row'[Payment(<<q, i>>)] # Absent /\ job[q].notices[i].id = id
    <2>1. CASE GoesOn(r) /\ Kept(Sync(id))
      <3>1. PICK q \in Request, i \in 1..MaxRows :
              /\ holder[Sync(id)] = q /\ Running(q) /\ i <= Len(answer[q])
              /\ row[Payment(<<q, i>>)] # Absent /\ job[q].notices[i].id = id
        BY <1>5, <2>1 DEF Backed, Kept
      <3>2. PaymentMoves(r, <<q, i>>) BY <1>2, <2>1 DEF GoesOn
      <3>3. row'[Payment(<<q, i>>)] # Absent BY <3>1, <3>2 DEF PaymentMoves
      <3>4. i <= Len(answer'[q]) /\ at'[q] \notin Ended
        <4>1. CASE q = r
          <5>1. answer[r] \in Seq(Outcomes) BY <1>1 DEF Base, Progress
          <5>2. \/ answer'[r] = answer[r]
                \/ \E outcome \in Outcomes : answer'[r] = Append(answer[r], outcome)
            BY <2>1 DEF Does, Silent, Says, Ends
          <5>3. Len(answer'[r]) >= Len(answer[r]) /\ Len(answer'[r]) \in Nat /\ Len(answer[r]) \in Nat BY <5>1, <5>2
          <5>4. QED BY <2>1, <3>1, <4>1, <5>3 DEF GoesOn
        <4>2. CASE q # r BY <1>1, <3>1, <4>2 DEF Alone, Running
        <4>3. QED BY <4>1, <4>2
      <3>5. QED BY <2>1, <3>1, <3>3, <3>4 DEF Kept
    <2>2. CASE GoesOn(r) /\ ~Kept(Sync(id))
      <3>1. /\ Wrote(r, Sync(id)) /\ at[r] = "record" /\ id = Of(r).id /\ row[Mine(r)] # Absent
            /\ Len(answer'[r]) = Len(answer[r]) + 1 /\ at'[r] \notin Ended
        BY <1>5, <2>2 DEF GoesOn
      <3>2. at[r] \in Steps \ ({"commit", "break"} \cup Ended) BY <3>1 DEF Steps, Ended
      <3>3. Current(r) \in 1..MaxRows /\ Current(r) = Len(answer[r]) + 1 /\ Len(answer[r]) \in Nat
        BY <1>1, <3>2, AtWork DEF Current
      <3>4. PaymentMoves(r, <<r, Current(r)>>) BY <1>2, <2>2, <3>3 DEF GoesOn
      <3>5. row'[Payment(<<r, Current(r)>>)] # Absent BY <3>1, <3>4 DEF PaymentMoves, Mine
      <3>6. PICK i \in 1..MaxRows : i = Current(r) BY <3>3
      <3>7. job[r].notices[i].id = id BY <3>1, <3>6 DEF Of
      <3>8. QED BY <3>1, <3>3, <3>5, <3>6, <3>7 DEF Wrote
    <2>3. CASE Ends(r)
      <3>1. Kept(Sync(id)) BY <1>1, <1>5, <2>3, EndRows, ToldApart DEF Published, TakenAway, Kept
      <3>2. PICK q \in Request, i \in 1..MaxRows :
              /\ holder[Sync(id)] = q /\ Running(q) /\ i <= Len(answer[q])
              /\ row[Payment(<<q, i>>)] # Absent /\ job[q].notices[i].id = id
        BY <1>5, <3>1 DEF Backed, Kept
      <3>3. holder[Sync(id)] # r
        <4>1. Published(r) \/ TakenAway(r) \/ Len(answer[r]) = 0 BY <1>1, <2>3, EndRows
        <4>2. CASE Len(answer[r]) = 0 BY <3>2, <4>2
        <4>3. CASE Published(r) \/ TakenAway(r)
          BY <1>1, <3>1, <4>3, JobsAreGood, ToldApart DEF Published, TakenAway, Kept
        <4>4. QED BY <4>1, <4>2, <4>3
      <3>4. q # r /\ holder[Payment(<<q, i>>)] = q
        BY <3>2, <3>3 DEF IntakeInv, PaymentsOK, Payments
      <3>5. row'[Payment(<<q, i>>)] = row[Payment(<<q, i>>)]
        <4>1. Payment(<<q, i>>) \in Row BY <1>2, ToldApart
        <4>2. QED BY <1>1, <2>3, <3>4, <4>1, EndRows DEF Published, TakenAway, Kept
      <3>6. QED BY <1>1, <3>1, <3>2, <3>4, <3>5 DEF Alone, Running, Kept
    <2>4. QED BY <2>1, <2>2, <2>3 DEF Does
  <1>6. QED BY <1>1, <1>4, <1>5 DEF Backed, Running

\* What a request has told stays so while others make steps, and when it ends itself.
LEMMA ToldKept ==
  ASSUME IntakeInv, AnswersInv, NEW r \in Request, Does(r), NEW q \in Request
  PROVE  Told(q)'
  <1>1. Base /\ job' = job /\ Alone(r) /\ Told(q) /\ Fresh(r) /\ "ACCEPTED" # Absent /\ r # 0 /\ q # 0
    BY AbsentIsNoRow, JobsAreGood DEF IntakeInv, Does, Alone, AnswersInv, Outcomes
  <1>2. /\ answer[q] \in Seq(Outcomes) /\ Len(answer[q]) \in Nat /\ Len(answer[q]) <= MaxRows /\ MaxRows \in Nat
        /\ \A i \in 1..MaxRows : <<q, i>> \in PaymentId
    <2>1. /\ answer[q] \in Seq(Outcomes) /\ Len(answer[q]) <= Len(job[q].notices)
          /\ Len(job[q].notices) \in 1..MaxRows /\ MaxRows \in Nat
      BY <1>1, JobsAreGood, IntakeConstants DEF Base, Progress
    <2>2. Len(answer[q]) \in Nat BY <2>1
    <2>3. \A i \in 1..MaxRows : <<q, i>> \in PaymentId BY DEF PaymentId
    <2>4. QED BY <2>1, <2>2, <2>3
  <1>3. \A p \in PaymentId : PaymentStays(p) BY DEF IntakeInv, PaymentsOK
  \* An outcome that was told before.
  <1>4. ASSUME NEW i \in 1..Len(answer[q]), NEW outcome, outcome = answer[q][i], NEW n, n = job[q].notices[i]
        PROVE  /\ outcome = "posted" =>
                    /\ at'[q] \notin Ended => row'[Payment(<<q, i>>)] # Absent
                    /\ at'[q] = "done" => shown'[Payment(<<q, i>>)] # Absent
               /\ outcome = "duplicate" =>
                    \E ref \in Ref : /\ ref = n.ref
                                     /\ at'[q] \notin Ended => There(q, Feed(ref))'
                                     /\ at'[q] = "done" => shown'[Feed(ref)] # Absent
               /\ outcome = "ACCEPTED" =>
                    \E id \in Id : /\ id = n.id
                                   /\ at'[q] \notin Ended => Sees(q, Sync(id))' = "ACCEPTED"
                                   /\ at'[q] = "done" => shown'[Sync(id)] = "ACCEPTED"
    <2>1. PICK p \in PaymentId : p = <<q, i>> /\ PaymentStays(p) /\ i \in 1..MaxRows
      <3>1. i \in 1..MaxRows BY <1>2
      <3>2. QED BY <1>2, <1>3, <3>1
    <2>2. q = r => Running(q) BY DEF Does, GoesOn, Ends
    <2>3. q # r => at'[q] = at[q] BY <1>1 DEF Alone
    <2>4. Running(q) /\ row[Payment(p)] # Absent => holder[Payment(p)] = q
      BY <1>2, <2>1 DEF IntakeInv, PaymentsOK, Payments
    <2>5. outcome = "posted" => /\ Running(q) => row[Payment(p)] # Absent
                                /\ at[q] = "done" => shown[Payment(p)] # Absent
      BY <1>1, <1>4, <2>1 DEF Told
    <2>6. CASE GoesOn(r)
      <3>1. shown' = shown /\ at'[r] \notin Ended /\ PaymentMoves(r, p) BY <2>6 DEF GoesOn
      <3>2. outcome = "posted" => /\ Running(q) => row'[Payment(p)] # Absent
                                  /\ at[q] = "done" => shown'[Payment(p)] # Absent
        BY <2>5, <3>1 DEF PaymentMoves
      <3>3. /\ at'[q] \notin Ended => Running(q)
            /\ at'[q] = "done" => q # r /\ at[q] = "done"
        BY <2>2, <2>3, <3>1 DEF Running, Ended
      <3>4. ASSUME NEW ref \in Ref, There(q, Feed(ref)) PROVE There(q, Feed(ref))'
        <4>1. Kept(Feed(ref)) \/ Wrote(r, Feed(ref)) BY <2>6 DEF GoesOn
        <4>2. CASE Kept(Feed(ref)) BY <3>4, <4>2 DEF Kept, There, Sees
        <4>3. CASE Wrote(r, Feed(ref)) BY <1>1, <3>4, <4>3 DEF Wrote, There, Sees
        <4>4. QED BY <4>1, <4>2, <4>3
      <3>5. ASSUME NEW id \in Id, Running(q), Sees(q, Sync(id)) = "ACCEPTED" PROVE Sees(q, Sync(id))' = "ACCEPTED"
        <4>1. CASE Kept(Sync(id)) BY <3>5, <4>1 DEF Kept, Sees
        <4>2. CASE ~Kept(Sync(id))
          <5>1. Wrote(r, Sync(id)) /\ at[r] = "record" /\ id = Of(r).id /\ shown[Sync(id)] = Absent
            BY <2>6, <4>2 DEF GoesOn
          <5>2. Is(r, "SYNC") BY <1>1, <5>1, KindAt DEF Is
          <5>3. holder[Sync(id)] # r BY <1>1, <5>1, <5>2 DEF Fresh
          <5>4. QED BY <1>1, <3>5, <5>1, <5>3, JobsAreGood DEF Wrote, Sees
        <4>3. QED BY <4>1, <4>2
      <3>6. QED BY <1>1, <1>4, <2>1, <3>1, <3>2, <3>3, <3>4, <3>5 DEF Told
    <2>7. CASE Ends(r)
      <3>1. at'[r] \in Ended /\ Running(r)
        BY <1>1, <2>7, EndRows DEF Ended, Ends
      <3>2. CASE q = r
        <4>1. CASE at'[r] = "done"
          <5>1. Published(r) BY <1>1, <2>7, <4>1, EndRows
          <5>2. outcome = "posted" => shown'[Payment(p)] # Absent
            BY <2>4, <2>5, <3>1, <3>2, <5>1, ToldApart DEF Published
          <5>3. \A ref \in Ref : There(q, Feed(ref)) => shown'[Feed(ref)] # Absent
            BY <3>2, <5>1, ToldApart DEF Published, Kept, There, Sees
          <5>4. \A id \in Id : Sees(q, Sync(id)) = "ACCEPTED" => shown'[Sync(id)] = "ACCEPTED"
            BY <3>2, <5>1, ToldApart DEF Published, Kept, Sees
          <5>5. QED BY <1>1, <1>4, <2>1, <3>1, <3>2, <5>2, <5>3, <5>4 DEF Told
        <4>2. CASE at'[r] # "done" BY <1>1, <1>4, <3>1, <3>2, <4>2 DEF Told
        <4>3. QED BY <4>1, <4>2
      <3>3. CASE q # r
        <4>1. outcome = "posted" => /\ Running(q) => row'[Payment(p)] # Absent
                                    /\ at[q] = "done" => shown'[Payment(p)] # Absent
          <5>1. Running(q) /\ row[Payment(p)] # Absent => Kept(Payment(p))
            BY <1>1, <2>4, <2>7, <3>3, EndRows, ToldApart DEF Published, TakenAway
          <5>2. shown[Payment(p)] # Absent => shown'[Payment(p)] # Absent BY CommittedKept
          <5>3. QED BY <2>5, <5>1, <5>2 DEF Kept
        <4>2. ASSUME NEW ref \in Ref
              PROVE  /\ There(q, Feed(ref)) => There(q, Feed(ref))'
                     /\ shown[Feed(ref)] # Absent => shown'[Feed(ref)] # Absent
          <5>1. \/ Kept(Feed(ref))
                \/ /\ holder[Feed(ref)] = r /\ holder'[Feed(ref)] = 0
                   /\ shown'[Feed(ref)] \in {shown[Feed(ref)], row[Feed(ref)]}
            BY <1>1, <2>7, EndRows, ToldApart DEF Published, TakenAway
          <5>2. shown[Feed(ref)] # Absent => row[Feed(ref)] # Absent BY DEF AnswersInv, FeedsStay
          <5>3. QED BY <1>1, <3>3, <5>1, <5>2 DEF Kept, There, Sees
        <4>3. ASSUME NEW id \in Id
              PROVE  /\ Sees(q, Sync(id)) = "ACCEPTED" => Sees(q, Sync(id))' = "ACCEPTED"
                     /\ shown[Sync(id)] = "ACCEPTED" => shown'[Sync(id)] = "ACCEPTED"
          <5>1. \/ Kept(Sync(id))
                \/ /\ holder[Sync(id)] = r /\ holder'[Sync(id)] = 0
                   /\ shown'[Sync(id)] \in {shown[Sync(id)], row[Sync(id)]}
            BY <1>1, <2>7, EndRows, ToldApart DEF Published, TakenAway
          <5>2. shown[Sync(id)] = "ACCEPTED" => row[Sync(id)] = "ACCEPTED" BY <1>1 DEF AnswersInv, RecordsStay
          <5>3. QED BY <1>1, <3>3, <5>1, <5>2 DEF Kept, Sees
        <4>4. QED BY <1>1, <1>4, <2>1, <2>3, <3>3, <4>1, <4>2, <4>3 DEF Told, Running
      <3>4. QED BY <3>2, <3>3
    <2>8. QED BY <2>6, <2>7 DEF Does
  <1>5. CASE answer'[q] = answer[q]
    BY <1>1, <1>4, <1>5 DEF Told, Running
  <1>6. CASE answer'[q] # answer[q]
    <2>1. q = r /\ GoesOn(r) BY <1>1, <1>6 DEF Alone, Does, Ends
    <2>2. PICK new \in Outcomes : Says(r, new) BY <1>6, <2>1 DEF Does, Silent, Ends
    <2>3. /\ Len(answer'[r]) = Len(answer[r]) + 1 /\ answer'[r][Len(answer[r]) + 1] = new
          /\ \A i \in 1..Len(answer[r]) : answer'[r][i] = answer[r][i]
      BY <1>2, <2>1, <2>2 DEF Says
    <2>4. at'[r] \notin Ended BY <2>1 DEF GoesOn
    <2>5. Current(r) = Len(answer[r]) + 1 BY DEF Current
    <2>6. /\ new = "posted" => row'[Payment(<<r, Current(r)>>)] # Absent
          /\ new = "duplicate" => \E ref \in Ref : ref = job[r].notices[Current(r)].ref /\ There(r, Feed(ref))'
          /\ new = "ACCEPTED" => \E id \in Id : id = job[r].notices[Current(r)].id /\ Sees(r, Sync(id))' = "ACCEPTED"
      BY <2>2 DEF Says, Mine, Of
    <2>7. \A i \in 1..Len(answer'[r]) : i \in 1..Len(answer[r]) \/ i = Current(r) BY <1>2, <2>1, <2>3, <2>5
    <2>8. at'[r] # "done" BY <2>4 DEF Ended
    <2>9. ASSUME NEW i \in 1..Len(answer'[r]), NEW outcome, outcome = answer'[r][i], NEW n, n = job[r].notices[i]
          PROVE  /\ outcome = "posted" =>
                      /\ at'[r] \notin Ended => row'[Payment(<<r, i>>)] # Absent
                      /\ at'[r] = "done" => shown'[Payment(<<r, i>>)] # Absent
                 /\ outcome = "duplicate" =>
                      \E ref \in Ref : /\ ref = n.ref
                                       /\ at'[r] \notin Ended => There(r, Feed(ref))'
                                       /\ at'[r] = "done" => shown'[Feed(ref)] # Absent
                 /\ outcome = "ACCEPTED" =>
                      \E id \in Id : /\ id = n.id
                                     /\ at'[r] \notin Ended => Sees(r, Sync(id))' = "ACCEPTED"
                                     /\ at'[r] = "done" => shown'[Sync(id)] = "ACCEPTED"
      <3>1. CASE i \in 1..Len(answer[r])
        <4>1. outcome = answer[q][i] BY <2>1, <2>3, <2>9, <3>1
        <4>2. QED BY <1>4, <2>1, <2>9, <3>1, <4>1
      <3>2. CASE i = Current(r)
        <4>1. outcome = new BY <2>3, <2>5, <2>9, <3>2
        <4>2. QED BY <2>6, <2>8, <2>9, <3>2, <4>1
      <3>3. QED BY <2>7, <3>1, <3>2
    <2>10. QED BY <1>1, <2>1, <2>9 DEF Told, Running
  <1>7. QED BY <1>5, <1>6

\* A request never comes to replay a record that it has made itself.
LEMMA FreshKept ==
  ASSUME IntakeInv, AnswersInv, NEW r \in Request, Does(r), NEW q \in Request
  PROVE  Fresh(q)'
  <1>1. Base /\ job' = job /\ Alone(r) /\ Fresh(q) /\ RecordsStay /\ r # 0 /\ q # 0
    BY JobsAreGood DEF IntakeInv, Does, Alone, AnswersInv
  <1>2. SUFFICES ASSUME at'[q] \in {"lock", "post", "record"}, job[q].kind = "SYNC"
                 PROVE  holder'[Sync(Of(q).id)'] # q
    BY <1>1 DEF Fresh, Is
  <1>3. "lost" \in Ended /\ \A x \in {"lock", "post", "record"} : x \notin Ended BY DEF Ended
  <1>4. answer'[q] = answer[q] /\ at[q] \in {"known", "lock", "post", "record"}
        /\ (q = r => /\ GoesOn(r)
                     /\ \/ at[r] \in {"lock", "post"}
                        \/ at[r] = "known" /\ ~There(r, Sync(Of(r).id)))
    <2>1. CASE q # r BY <1>1, <1>2, <2>1 DEF Alone
    <2>2. CASE q = r
      <3>1. ~Ends(r)
        <4>1. Ends(r) => at'[r] \in Ended BY <1>1, EndRows DEF Ended
        <4>2. QED BY <1>2, <1>3, <2>2, <4>1
      <3>2. GoesOn(r) /\ Silent(r) BY <1>2, <2>2, <3>1 DEF Does, Says
      <3>3. QED BY <1>2, <2>2, <3>2 DEF Silent, Is
    <2>3. QED BY <2>1, <2>2
  <1>5. Sync(Of(q).id)' = Sync(Of(q).id)
    BY <1>1, <1>4 DEF Sync, Of, Current
  <1>6. PICK id \in Id : id = Of(q).id
    <2>1. at[q] \in Steps \ ({"commit", "break"} \cup Ended) BY <1>4 DEF Steps, Ended
    <2>2. QED BY <1>1, <1>2, <2>1, NoticeRows DEF Is
  <1>7. Sync(id) \in Row BY ToldApart
  <1>8. CASE q # r
    <2>1. holder[Sync(id)] # q BY <1>1, <1>2, <1>6, <1>8 DEF Fresh, Is, Alone
    <2>2. holder'[Sync(id)] \in {holder[Sync(id)], r, 0}
      <3>1. CASE GoesOn(r) BY <3>1 DEF GoesOn, Kept, Wrote
      <3>2. CASE Ends(r) BY <1>1, <1>7, <3>2, EndRows DEF Published, TakenAway, Kept
      <3>3. QED BY <3>1, <3>2 DEF Does
    <2>3. QED BY <1>1, <1>5, <1>6, <1>8, <2>1, <2>2
  <1>9. CASE q = r
    <2>1. holder[Sync(id)] # r
      <3>1. CASE at[r] \in {"lock", "post"} BY <1>1, <1>2, <1>6, <1>9, <3>1 DEF Fresh, Is
      <3>2. CASE at[r] = "known" /\ ~There(r, Sync(Of(r).id))
        BY <1>1, <1>6, <1>9, <3>2 DEF RecordsStay, There, Sees
      <3>3. QED BY <1>4, <1>9, <3>1, <3>2
    <2>2. Kept(Sync(id)) BY <1>4, <1>9 DEF GoesOn
    <2>3. QED BY <1>5, <1>6, <1>9, <2>1, <2>2 DEF Kept
  <1>10. QED BY <1>8, <1>9

\* At first nothing is received, recorded or told.
LEMMA AnswersInit ==
  ASSUME Init PROVE AnswersInv
  <1>1. Inv BY IntakeInit
  <1>2. /\ \A r \in Request : answer[r] = <<>>
        /\ shown = row /\ \A x \in Row : holder[x] = 0
    BY DEF Init
  <1>3. /\ \A ref \in Ref : row[Feed(ref)] = Absent
        /\ \A id \in Id : row[Sync(id)] = Absent
        /\ \A p \in PaymentId : row[Payment(p)] = Absent
    BY ToldApart DEF Init
  <1>4. "ACCEPTED" # Absent BY AbsentIsNoRow DEF Outcomes
  <1>5. \A r \in Request : Told(r)
    <2>1. \A r \in Request : 1..Len(answer[r]) = {} BY <1>2
    <2>2. QED BY <2>1 DEF Told
  <1>6. ASSUME NEW r \in Request PROVE Fresh(r)
    <2>1. at[r] = Start[job[r].kind] /\ job[r].kind \in Kinds
      BY <1>1, JobsAreGood DEF Init, Inv, IntakeInv
    <2>2. at[r] \notin {"lock", "post", "record"} BY <2>1 DEF Start, Kinds
    <2>3. QED BY <2>2 DEF Fresh
  <1>7. FeedsStay /\ RecordsStay
    BY <1>2, <1>3, ToldApart DEF FeedsStay, RecordsStay
  <1>8. PaymentIds /\ Backed
    BY <1>2, <1>3, <1>4 DEF PaymentIds, Backed
  <1>9. QED BY <1>5, <1>6, <1>7, <1>8 DEF AnswersInv

\* Every step keeps what was told true.
LEMMA AnswersStep ==
  ASSUME Inv, AnswersInv, [Next]_vars
  PROVE  AnswersInv'
  <1>1. CASE UNCHANGED vars
    BY <1>1 DEF vars, AnswersInv, Told, Fresh, FeedsStay, RecordsStay, PaymentIds, Backed, Running,
                There, Sees, Is, Of, Current
  <1>2. ASSUME NEW r \in Request, Work(r) \/ Crash(r) PROVE AnswersInv'
    <2>1. IntakeInv /\ RowsOK(row) /\ RowsOK(shown) BY DEF Inv
    <2>2. Does(r) BY <1>2, EveryStepDoes DEF AnswersInv
    <2>3. FeedsStay' /\ RecordsStay' /\ PaymentIds' BY <2>1, <2>2, RecordsKept DEF AnswersInv
    <2>4. Backed' BY <2>1, <2>2, BackedKept DEF AnswersInv
    <2>5. \A q \in Request : Told(q)' /\ Fresh(q)' BY <2>1, <2>2, ToldKept, FreshKept
    <2>6. QED BY <2>3, <2>4, <2>5 DEF AnswersInv
  <1>3. QED BY <1>1, <1>2 DEF Next, AllEnded

\* Answers, feed rows, records and payments agree in every reachable state.
THEOREM AnswersInvariance == Spec => [](Inv /\ AnswersInv)
  <1>1. Init => Inv /\ AnswersInv BY IntakeInit, AnswersInit
  <1>2. Inv /\ AnswersInv /\ [Next]_vars => (Inv /\ AnswersInv)' BY IntakeStep, AnswersStep
  <1>3. QED BY <1>1, <1>2, PTL DEF Spec

\* A request that is done was told the truth: what it posted is committed, what it called a
\* duplicate is in the feed, and a record it called accepted is, with a payment of its
\* client id (WebhookView, OTCSettlementView, replay_sync_record).
THEOREM AnswersTrue == Spec => []AnswerIsTrue
  <1>1. Inv /\ AnswersInv => AnswerIsTrue
    <2>1. SUFFICES ASSUME Inv, AnswersInv, NEW r \in Request, at[r] = "done", NEW i \in DOMAIN answer[r]
                   PROVE  LET n == job[r].notices[i]
                          IN CASE answer[r][i] = "posted"    -> Committed(<<r, i>>)
                               [] answer[r][i] = "duplicate" -> shown[Feed(n.ref)] # Absent
                               [] answer[r][i] = "ACCEPTED"  ->
                                    /\ shown[Sync(n.id)] = "ACCEPTED"
                                    /\ \E p \in PaymentId : Committed(p) /\ shown[Payment(p)].id = n.id
                               [] OTHER -> TRUE
      BY DEF AnswerIsTrue
    <2>2. i \in 1..Len(answer[r])
      <3>1. answer[r] \in Seq(Outcomes) BY <2>1 DEF Inv, IntakeInv, Base, Progress
      <3>2. QED BY <2>1, <3>1
    <2>3. /\ answer[r][i] = "posted" => Committed(<<r, i>>)
          /\ answer[r][i] = "duplicate" => shown[Feed(job[r].notices[i].ref)] # Absent
          /\ answer[r][i] = "ACCEPTED" => job[r].notices[i].id \in Id
                                          /\ shown[Sync(job[r].notices[i].id)] = "ACCEPTED"
      BY <2>1, <2>2 DEF AnswersInv, Told, Committed
    <2>4. ASSUME answer[r][i] = "ACCEPTED"
          PROVE  \E p \in PaymentId : Committed(p) /\ shown[Payment(p)].id = job[r].notices[i].id
      BY <2>1, <2>3, <2>4 DEF AnswersInv, Backed, Committed
    <2>5. QED BY <2>3, <2>4
  <1>2. QED BY <1>1, AnswersInvariance, PTL

-----------------------------------------------------------------------------
(* What the feed and the run of the day say of each other. *)

\* Payment y is one for feed row f of reference ref.
Bears(y, ref, f) == y # Absent /\ y.ref = ref /\ y.amount = f.amount

Matched(f) == f # Absent /\ f.status = "MATCHED"

\* What is received and paid keeps its amount.
AmountsLast ==
  /\ \A ref \in Ref : shown[Feed(ref)] # Absent =>
       row[Feed(ref)] # Absent /\ row[Feed(ref)].amount = shown[Feed(ref)].amount
  /\ \A p \in PaymentId : shown[Payment(p)] # Absent => row[Payment(p)].amount = shown[Payment(p)].amount

\* A matched feed row has its payment: committed, or in the hands of the request that matched it.
Borne(ref) ==
  LET x == Feed(ref)
  IN /\ Matched(shown[x]) =>
          shown[x].payment \in PaymentId /\ Bears(shown[Payment(shown[x].payment)], ref, shown[x])
     /\ Matched(row[x]) =>
          /\ row[x].payment \in PaymentId
          /\ \/ Bears(shown[Payment(row[x].payment)], ref, row[x])
             \/ /\ holder[x] # 0 /\ holder[Payment(row[x].payment)] = holder[x]
                /\ Bears(row[Payment(row[x].payment)], ref, row[x])

\* The feed row a bank's notice is paid through is in the hands of its request.
Received(r) ==
  at[r] \in {"lock", "post"} /\ job[r].kind \in {"WEBHOOK", "FILE"} =>
    holder[Feed(Of(r).ref)] = r /\ shown[Feed(Of(r).ref)] = Absent

\* The payments that the matching pass found fit still when the rows are marked.
Found(r) ==
  at[r] \in {"run", "mark"} => \A ref \in Ref : match[r][ref] # NoPayment =>
    /\ match[r][ref] \in PaymentId /\ shown[Feed(ref)] # Absent
    /\ Bears(shown[Payment(match[r][ref])], ref, shown[Feed(ref)])

\* The exception to be resolved was one of the run.
Noted(r) == at[r] = "note" => shown[on[r]] \in {"OPEN", "RESOLVED", "DELETED"}

\* A request with the run in its hands reconciles the day: the exceptions of the run are in
\* its hands too and deleted, and those it listed are its own, of feed rows that it marked.
\* Exceptions in other hands are being resolved, and feed rows received.
RunHeld(r) ==
  /\ at[r] = "mark" => holder[Run] = r
  /\ holder[Run] = r =>
       /\ at[r] \in {"mark", "commit"}
       /\ \A x \in Listed(shown) : holder[x] = r
       /\ \A x \in ExceptionRows : holder[x] = r =>
            /\ row[x] \in {"DELETED", "OPEN"}
            /\ row[x] = "OPEN" => /\ x[2][1] = r /\ row[Run] # "BALANCED" /\ at[r] = "commit"
                                  /\ holder[Feed(x[2][2])] = r
                                  /\ row[Feed(x[2][2])] # Absent /\ row[Feed(x[2][2])].status = "EXCEPTION"
  /\ holder[Run] # r =>
       /\ \A x \in ExceptionRows : holder[x] = r => x \in Listed(shown) /\ row[x] = "RESOLVED"
       /\ \A ref \in Ref : holder[Feed(ref)] = r => shown[Feed(ref)] = Absent

\* The exceptions of the run: one for each feed row it lists.
ListedOnce ==
  /\ \A x, y \in Listed(shown) : x[2][2] = y[2][2] => x = y
  /\ \A x \in Listed(shown) : shown[Feed(x[2][2])] # Absent /\ shown[Feed(x[2][2])].status = "EXCEPTION"
  /\ shown[Run] = "BALANCED" => Listed(shown) = {}

Own(r) == Received(r) /\ Found(r) /\ Noted(r) /\ RunHeld(r)

FeedInv ==
  /\ AmountsLast /\ \A ref \in Ref : Borne(ref)
  /\ \A r \in Request : Own(r)
  /\ ListedOnce

-----------------------------------------------------------------------------
(* Steps of a request that goes on. *)

\* Request r writes a feed row that nobody else has: a new one, or one that is marked with
\* its amount; and one that is matched has its payment.
FeedMoves(r, ref) ==
  LET x == Feed(ref)
  IN \/ Kept(x)
     \/ /\ holder[x] \in {0, r} /\ holder'[x] = r /\ row'[x] # Absent
        /\ shown[x] # Absent => row'[x].amount = shown[x].amount
        /\ Matched(row'[x]) =>
             /\ row'[x].payment \in PaymentId
             /\ \/ Bears(shown[Payment(row'[x].payment)], ref, row'[x])
                \/ /\ holder'[Payment(row'[x].payment)] = r
                   /\ Bears(row'[Payment(row'[x].payment)], ref, row'[x])

\* It writes a payment that nobody else has, which keeps its reference and amount.
PaymentGoes(r, p) ==
  LET x == Payment(p)
  IN \/ Kept(x)
     \/ /\ holder[x] \in {0, r} /\ holder'[x] = r /\ row'[x] # Absent
        /\ row[x] # Absent => row'[x].ref = row[x].ref /\ row'[x].amount = row[x].amount

Moves(r) ==
  /\ shown' = shown
  /\ \A ref \in Ref : FeedMoves(r, ref)
  /\ \A p \in PaymentId : PaymentGoes(r, p)
  /\ \A x \in ExceptionRows \cup {Run} : Kept(x) \/ (holder[x] \in {0, r} /\ holder'[x] = r)

\* Amounts last, and matched feed rows keep their payments.
LEMMA FeedWritten ==
  ASSUME Inv, FeedInv, NEW r \in Request, Moves(r)
  PROVE  AmountsLast' /\ \A ref \in Ref : Borne(ref)'
  <1>1. r # 0 /\ shown' = shown BY JobsAreGood DEF Inv, IntakeInv, Moves
  <1>2. ASSUME NEW p \in PaymentId
        PROVE  /\ shown[Payment(p)] # Absent =>
                    row'[Payment(p)] # Absent /\ row'[Payment(p)].amount = shown[Payment(p)].amount
               /\ PaymentGoes(r, p)
    <2>1. PaymentGoes(r, p) BY DEF Moves
    <2>2. PaymentStays(p) BY DEF Inv, IntakeInv, PaymentsOK
    <2>3. shown[Payment(p)] # Absent =>
            row[Payment(p)] # Absent /\ row[Payment(p)].amount = shown[Payment(p)].amount
      BY <2>2 DEF FeedInv, AmountsLast, PaymentStays
    <2>4. QED BY <2>1, <2>3 DEF PaymentGoes, Kept
  <1>3. ASSUME NEW ref \in Ref, shown[Feed(ref)] # Absent
        PROVE  row'[Feed(ref)] # Absent /\ row'[Feed(ref)].amount = shown[Feed(ref)].amount
    <2>1. FeedMoves(r, ref) BY DEF Moves
    <2>2. row[Feed(ref)] # Absent /\ row[Feed(ref)].amount = shown[Feed(ref)].amount
      BY <1>3 DEF FeedInv, AmountsLast
    <2>3. QED BY <1>3, <2>1, <2>2 DEF FeedMoves, Kept
  <1>4. AmountsLast' BY <1>1, <1>2, <1>3 DEF AmountsLast
  <1>5. ASSUME NEW ref \in Ref PROVE Borne(ref)'
    <2> DEFINE x == Feed(ref)
    <2>1. Borne(ref) /\ FeedMoves(r, ref) BY DEF FeedInv, Moves
    <2>2. Matched(shown'[x]) =>
            shown'[x].payment \in PaymentId /\ Bears(shown'[Payment(shown'[x].payment)], ref, shown'[x])
      BY <1>1, <2>1 DEF Borne
    <2>3. ASSUME Matched(row'[x])
          PROVE  /\ row'[x].payment \in PaymentId
                 /\ \/ Bears(shown'[Payment(row'[x].payment)], ref, row'[x])
                    \/ /\ holder'[x] # 0 /\ holder'[Payment(row'[x].payment)] = holder'[x]
                       /\ Bears(row'[Payment(row'[x].payment)], ref, row'[x])
      <3>1. CASE Kept(x)
        <4>1. /\ Matched(row[x]) /\ row'[x] = row[x] /\ holder'[x] = holder[x] /\ row[x].payment \in PaymentId
              /\ \/ Bears(shown[Payment(row[x].payment)], ref, row[x])
                 \/ /\ holder[x] # 0 /\ holder[Payment(row[x].payment)] = holder[x]
                    /\ Bears(row[Payment(row[x].payment)], ref, row[x])
          BY <2>1, <2>3, <3>1 DEF Kept, Borne
        <4>2. CASE Bears(shown[Payment(row[x].payment)], ref, row[x]) BY <1>1, <4>1, <4>2
        <4>3. CASE /\ holder[x] # 0 /\ holder[Payment(row[x].payment)] = holder[x]
                   /\ Bears(row[Payment(row[x].payment)], ref, row[x])
          <5>1. PICK p \in PaymentId : p = row[x].payment BY <4>1
          <5>2. PaymentGoes(r, p) BY <1>2
          <5>3. holder'[Payment(p)] = holder[x] /\ Bears(row'[Payment(p)], ref, row[x])
            BY <4>3, <5>1, <5>2 DEF PaymentGoes, Kept, Bears
          <5>4. QED BY <4>1, <4>3, <5>1, <5>3
        <4>4. QED BY <4>1, <4>2, <4>3
      <3>2. CASE ~Kept(x) BY <1>1, <2>1, <2>3, <3>2 DEF FeedMoves
      <3>3. QED BY <3>1, <3>2
    <2>4. QED BY <2>2, <2>3 DEF Borne, Bears, Matched
  <1>6. QED BY <1>4, <1>5

\* What is in the hands of other requests stays as it is.
LEMMA OthersOwn ==
  ASSUME Inv, FeedInv, NEW r \in Request, Moves(r), Alone(r), NEW q \in Request \ {r}, match'[q] = match[q]
  PROVE  Own(q)'
  <1>1. /\ job' = job /\ at'[q] = at[q] /\ answer'[q] = answer[q] /\ on'[q] = on[q] /\ shown' = shown
        /\ q # 0 /\ Own(q)
    BY JobsAreGood DEF Inv, IntakeInv, Alone, Moves, FeedInv
  <1>2. \A ref \in Ref : holder'[Feed(ref)] = q <=> holder[Feed(ref)] = q
    BY <1>1 DEF Moves, FeedMoves, Kept
  <1>3. \A ref \in Ref : holder[Feed(ref)] = q => row'[Feed(ref)] = row[Feed(ref)]
    BY <1>1 DEF Moves, FeedMoves, Kept
  <1>4. \A x \in ExceptionRows \cup {Run} : holder'[x] = q <=> holder[x] = q
    BY <1>1 DEF Moves, Kept
  <1>5. \A x \in ExceptionRows \cup {Run} : holder[x] = q => row'[x] = row[x]
    BY <1>1 DEF Moves, Kept
  <1>6. Received(q)'
    <2>1. SUFFICES ASSUME at[q] \in {"lock", "post"}, job[q].kind \in {"WEBHOOK", "FILE"}
                   PROVE  holder'[Feed(Of(q).ref)] = q /\ shown[Feed(Of(q).ref)] = Absent
      BY <1>1 DEF Received, Of, Current
    <2>2. Of(q).ref \in Ref
      <3>1. at[q] \in Steps \ ({"commit", "break"} \cup Ended) BY <2>1 DEF Steps, Ended
      <3>2. QED BY <2>1, <3>1, NoticeRows DEF Is, Inv, IntakeInv
    <2>3. QED BY <1>1, <1>2, <2>1, <2>2 DEF Own, Received
  <1>7. Found(q)' BY <1>1 DEF Own, Found, Bears
  <1>8. Noted(q)' BY <1>1 DEF Own, Noted
  <1>9. RunHeld(q)'
    <2>1. Listed(shown) = Listed(shown)' BY <1>1
    <2>2. \A x \in ExceptionRows : x[2][2] \in Ref BY DEF ExceptionRows, Exception
    <2>3. Listed(shown) \subseteq ExceptionRows BY DEF Listed
    <2>4. at[q] = "mark" => holder'[Run] = q BY <1>1, <1>4 DEF Own, RunHeld
    <2>5. ASSUME holder[Run] = q
          PROVE  /\ at[q] \in {"mark", "commit"}
                 /\ \A x \in Listed(shown) : holder'[x] = q
                 /\ row'[Run] = row[Run]
      BY <1>1, <1>4, <1>5, <2>3, <2>5 DEF Own, RunHeld
    <2>6. ASSUME holder[Run] = q, NEW x \in ExceptionRows, holder[x] = q
          PROVE  /\ row'[x] \in {"DELETED", "OPEN"}
                 /\ row'[x] = "OPEN" => /\ x[2][1] = q /\ row'[Run] # "BALANCED" /\ at[q] = "commit"
                                       /\ holder'[Feed(x[2][2])] = q
                                       /\ row'[Feed(x[2][2])] # Absent /\ row'[Feed(x[2][2])].status = "EXCEPTION"
      <3>1. row'[x] = row[x] BY <1>5, <2>6
      <3>2. PICK ref \in Ref : ref = x[2][2] BY <2>2
      <3>3. holder[Feed(ref)] = q => holder'[Feed(ref)] = q /\ row'[Feed(ref)] = row[Feed(ref)] BY <1>2, <1>3
      <3>4. QED BY <1>1, <2>5, <2>6, <3>1, <3>2, <3>3 DEF Own, RunHeld
    <2>7. ASSUME holder[Run] # q
          PROVE  /\ \A x \in ExceptionRows : holder'[x] = q => x \in Listed(shown) /\ row'[x] = "RESOLVED"
                 /\ \A ref \in Ref : holder'[Feed(ref)] = q => shown[Feed(ref)] = Absent
      BY <1>1, <1>2, <1>4, <1>5, <2>7 DEF Own, RunHeld
    <2>8. holder'[Run] = q <=> holder[Run] = q BY <1>4
    <2>9. QED BY <1>1, <1>4, <2>1, <2>4, <2>5, <2>6, <2>7, <2>8 DEF RunHeld
  <1>10. QED BY <1>6, <1>7, <1>8, <1>9 DEF Own

\* A request that goes on keeps the invariant, when what is in its own hands is in order.
LEMMA Onward ==
  ASSUME Inv, FeedInv, NEW r \in Request, Moves(r), Alone(r), Own(r)',
         \A q \in Request \ {r} : match'[q] = match[q]
  PROVE  FeedInv'
  <1>1. AmountsLast' /\ \A ref \in Ref : Borne(ref)' BY FeedWritten
  <1>2. \A q \in Request : Own(q)' BY OthersOwn
  <1>3. shown' = shown BY DEF Moves
  <1>4. ListedOnce' BY <1>3 DEF FeedInv, ListedOnce, Listed
  <1>5. QED BY <1>1, <1>2, <1>4 DEF FeedInv

\* Only the matching pass changes what a request found, and only what it found itself.
LEMMA MatchOthers ==
  ASSUME MatchOK, NEW r \in Request, Work(r) \/ Crash(r)
  PROVE  /\ \A q \in Request \ {r} : match'[q] = match[q]
         /\ ~MatchFeed(r) => match' = match
  <1>1. CASE MatchFeed(r)
    <2>1. PICK found : match' = [match EXCEPT ![r] = found] BY <1>1 DEF MatchFeed
    <2>2. QED BY <1>1, <2>1 DEF MatchOK
  <1>2. CASE ~MatchFeed(r)
    <2>1. match' = match
      BY <1>2 DEF Work, Crash, Authenticate, Touch, CheckFeed, Receive, Accept, LookUpRecord, Record, LockBill,
         PostPayment, RefuseRef, Fail, FindPayment, HoldPayment, ReversePayment, OpenRun, Mark,
         FindException, Resolve, Revoke, Commit, Abort, Rollback, Goto, Stay, Answer
    <2>2. QED BY <2>1
  <1>3. QED BY <1>1, <1>2

\* A statement about no feed row, no exception and not the run.
Quiet(r) ==
  /\ shown' = shown
  /\ \A ref \in Ref : Kept(Feed(ref))
  /\ \A p \in PaymentId : PaymentGoes(r, p)
  /\ \A x \in ExceptionRows \cup {Run} : Kept(x)

LEMMA QuietRows ==
  ASSUME Base, NEW r \in Request,
         \/ ReadOnly
         \/ \E x \in Row : \E version : x[1] \in {"client", "bill", "sync"} /\ Put(r, x, version)
         \/ \E p \in PaymentId : \E version :
              /\ version # Absent /\ Put(r, Payment(p), version)
              /\ row[Payment(p)] # Absent =>
                   version.ref = row[Payment(p)].ref /\ version.amount = row[Payment(p)].amount
         \/ \E xs : (\A x \in xs : x[1] = "bill") /\ Undo(xs)
  PROVE  Quiet(r)
  <1>1. RowsAre(Row) BY DEF Base
  <1>2. /\ \A ref \in Ref : Feed(ref) \in Row /\ Feed(ref)[1] = "feed"
        /\ \A p \in PaymentId : Payment(p) \in Row /\ Payment(p)[1] = "payment"
        /\ \A x \in ExceptionRows \cup {Run} : x \in Row /\ x[1] \in {"exception", "run"}
    BY ToldApart
  <1>3. ASSUME shown' = shown, \A x \in Row : x[1] \in {"feed", "payment", "exception", "run"} => Kept(x)
        PROVE  Quiet(r)
    BY <1>2, <1>3 DEF Quiet, PaymentGoes
  <1>4. CASE ReadOnly BY <1>3, <1>4 DEF ReadOnly, rows, Kept
  <1>5. CASE \E x \in Row : \E version : x[1] \in {"client", "bill", "sync"} /\ Put(r, x, version)
    <2>1. PICK x \in Row : \E version : x[1] \in {"client", "bill", "sync"} /\ Put(r, x, version) BY <1>5
    <2>2. PICK version : Put(r, x, version) BY <2>1
    <2>3. shown' = shown /\ \A y \in Row \ {x} : row'[y] = row[y] /\ holder'[y] = holder[y]
      BY <1>1, <2>2, PutDoes
    <2>4. QED BY <1>3, <2>1, <2>3 DEF Kept
  <1>6. CASE \E p \in PaymentId : \E version :
               /\ version # Absent /\ Put(r, Payment(p), version)
               /\ row[Payment(p)] # Absent =>
                    version.ref = row[Payment(p)].ref /\ version.amount = row[Payment(p)].amount
    <2>1. PICK p \in PaymentId : \E version :
                 /\ version # Absent /\ Put(r, Payment(p), version)
                 /\ row[Payment(p)] # Absent =>
                      version.ref = row[Payment(p)].ref /\ version.amount = row[Payment(p)].amount
      BY <1>6
    <2>2. PICK version :
                 /\ version # Absent /\ Put(r, Payment(p), version)
                 /\ row[Payment(p)] # Absent =>
                      version.ref = row[Payment(p)].ref /\ version.amount = row[Payment(p)].amount
      BY <2>1
    <2>3. PICK x \in Row : x = Payment(p) BY <1>2
    <2>4. /\ shown' = shown /\ row'[x] = version /\ holder'[x] = r /\ holder[x] \in {0, r}
          /\ \A y \in Row \ {x} : row'[y] = row[y] /\ holder'[y] = holder[y]
      BY <1>1, <2>2, <2>3, PutDoes
    <2>5. PaymentGoes(r, p) BY <2>2, <2>3, <2>4 DEF PaymentGoes
    <2>6. \A q \in PaymentId \ {p} : PaymentGoes(r, q)
      BY <1>2, <2>3, <2>4, RowsApart DEF PaymentGoes, Kept
    <2>7. \A ref \in Ref : Kept(Feed(ref)) BY <1>2, <2>3, <2>4 DEF Kept
    <2>8. \A y \in ExceptionRows \cup {Run} : Kept(y) BY <1>2, <2>3, <2>4 DEF Kept
    <2>9. QED BY <2>4, <2>5, <2>6, <2>7, <2>8 DEF Quiet
  <1>7. CASE \E xs : (\A x \in xs : x[1] = "bill") /\ Undo(xs)
    <2>1. PICK xs : (\A x \in xs : x[1] = "bill") /\ Undo(xs) BY <1>7
    <2>2. shown' = shown /\ \A x \in Row \ xs : row'[x] = row[x] /\ holder'[x] = holder[x]
      BY <1>1, <2>1, UndoDoes
    <2>3. QED BY <1>3, <2>1, <2>2 DEF Kept
  <1>8. QED BY <1>4, <1>5, <1>6, <1>7

\* It keeps the invariant: the request does not have the run.
LEMMA QuietKeeps ==
  ASSUME Inv, FeedInv, NEW r \in Request, Quiet(r), Alone(r), \A q \in Request \ {r} : match'[q] = match[q],
         at[r] \notin {"mark", "commit"}, at'[r] # "mark",
         at'[r] \in {"lock", "post"} /\ job[r].kind \in {"WEBHOOK", "FILE"} => at[r] = "lock" /\ answer' = answer,
         Found(r)', Noted(r)'
  PROVE  FeedInv'
  <1>1. Moves(r) BY DEF Quiet, Moves, FeedMoves
  <1>2. Own(r) /\ shown' = shown /\ job' = job /\ r # 0 BY JobsAreGood DEF FeedInv, Quiet, Alone, Inv, IntakeInv
  <1>3. Received(r)'
    <2>1. SUFFICES ASSUME at'[r] \in {"lock", "post"}, job[r].kind \in {"WEBHOOK", "FILE"}
                   PROVE  holder'[Feed(Of(r).ref)] = r /\ shown[Feed(Of(r).ref)] = Absent /\ answer' = answer
      BY <1>2 DEF Received, Of, Current
    <2>2. at[r] = "lock" /\ answer' = answer BY <2>1
    <2>3. Of(r).ref \in Ref
      <3>1. at[r] \in Steps \ ({"commit", "break"} \cup Ended) BY <2>2 DEF Steps, Ended
      <3>2. QED BY <2>1, <3>1, NoticeRows DEF Is, Inv, IntakeInv
    <2>4. holder[Feed(Of(r).ref)] = r /\ shown[Feed(Of(r).ref)] = Absent
      BY <1>2, <2>1, <2>2 DEF Own, Received
    <2>5. Kept(Feed(Of(r).ref)) BY <2>3 DEF Quiet
    <2>6. QED BY <2>2, <2>4, <2>5 DEF Kept
  <1>4. RunHeld(r)'
    <2>1. holder[Run] # r BY <1>2 DEF Own, RunHeld
    <2>2. holder'[Run] # r BY <2>1 DEF Quiet, Kept
    <2>3. Listed(shown) = Listed(shown)' BY <1>2
    <2>4. \A x \in ExceptionRows : holder'[x] = r => x \in Listed(shown) /\ row'[x] = "RESOLVED"
      BY <1>2, <2>1 DEF Own, RunHeld, Quiet, Kept
    <2>5. \A ref \in Ref : holder'[Feed(ref)] = r => shown[Feed(ref)] = Absent
      BY <1>2, <2>1 DEF Own, RunHeld, Quiet, Kept
    <2>6. QED BY <1>2, <2>2, <2>3, <2>4, <2>5 DEF RunHeld
  <1>5. Own(r)' BY <1>3, <1>4 DEF Own
  <1>6. QED BY <1>1, <1>5, Onward

\* The same when the steps that have something of their own to keep are left out.
LEMMA QuietWork ==
  ASSUME Inv, FeedInv, NEW r \in Request, Quiet(r), Alone(r), match' = match, at[r] \notin {"mark", "commit"},
         \/ at'[r] \notin {"run", "mark", "note", "lock", "post"}
         \/ at'[r] \in {"lock", "post"} /\ job[r].kind \notin {"WEBHOOK", "FILE"}
         \/ at'[r] = "post" /\ at[r] = "lock" /\ answer' = answer
  PROVE  FeedInv'
  <1>1. Found(r)' /\ Noted(r)' BY DEF Found, Noted
  <1>2. QED BY <1>1, QuietKeeps

\* Where an answer leads.
LEMMA AnswerLeads ==
  ASSUME Base, NEW r \in Request, NEW outcome, Answer(r, outcome)
  PROVE  /\ at'[r] \in {"authenticate", "receive", "accept", "known", "find", "match", "revoke", "commit"}
         /\ match' = match
  <1>1. job[r].kind \in Kinds BY JobsAreGood
  <1>2. Start[job[r].kind] \in {"authenticate", "receive", "accept", "known", "find", "match", "revoke"}
    BY <1>1 DEF Kinds, Start
  <1>3. QED BY <1>2 DEF Answer, Base

\* Where another step of the same notice leads.
LEMMA GotoLeads ==
  ASSUME Base, NEW r \in Request, NEW step, Goto(r, step)
  PROVE  at'[r] = step /\ match' = match /\ answer' = answer
  BY DEF Goto, Go, Stay, Base

\* Webhooks, files, payments typed in and records of a replay, but for what they write in the
\* feed and post.
LEMMA QuietNotices ==
  ASSUME Inv, FeedInv, NEW r \in Request, Alone(r),
         \/ Authenticate(r) \/ Touch(r) \/ CheckFeed(r)
         \/ (Receive(r) /\ ReadOnly /\ \E outcome : Answer(r, outcome))
         \/ Accept(r) \/ LookUpRecord(r) \/ Record(r) \/ LockBill(r) \/ Revoke(r)
  PROVE  FeedInv'
  <1>1. Base BY DEF Inv, IntakeInv
  <1>2. at[r] \in Steps \ ({"commit", "break"} \cup Ended) /\ at[r] \notin {"mark", "commit"}
    BY DEF Authenticate, Touch, CheckFeed, Receive, Accept, LookUpRecord, Record, LockBill, Revoke, Steps, Ended
  <1>3. /\ ApiClient(Of(r).client) \in Row /\ ApiClient(Of(r).client)[1] = "client"
        /\ BillLock(Of(r).bill) \in Row /\ \A b : BillLock(b)[1] = "bill"
        /\ Is(r, "SYNC") => Sync(Of(r).id) \in Row /\ Sync(Of(r).id)[1] = "sync"
    BY <1>1, <1>2, WrittenFits, ToldApart DEF Sync
  <1>4. ASSUME NEW outcome, Answer(r, outcome), Quiet(r) PROVE FeedInv'
    BY <1>1, <1>2, <1>4, AnswerLeads, QuietWork
  <1>5. ASSUME NEW step, Goto(r, step), Quiet(r), step \notin {"run", "mark", "note", "lock", "post"} PROVE FeedInv'
    BY <1>1, <1>2, <1>5, GotoLeads, QuietWork
  <1>6. CASE Authenticate(r) \/ CheckFeed(r)
    <2>1. Quiet(r) BY <1>1, <1>6, QuietRows DEF Authenticate, CheckFeed
    <2>2. Answer(r, "duplicate") \/ \E step \in {"touch", "refused", "receive"} : Goto(r, step)
      BY <1>6 DEF Authenticate, CheckFeed
    <2>3. QED BY <1>4, <1>5, <2>1, <2>2
  <1>7. CASE Touch(r)
    <2>1. PICK x, version : x \in Row /\ x[1] = "client" /\ Put(r, x, version) BY <1>3, <1>7 DEF Touch, Lock
    <2>2. Quiet(r) BY <1>1, <2>1, QuietRows
    <2>3. QED BY <1>5, <1>7, <2>2 DEF Touch
  <1>8. CASE ReadOnly /\ \E outcome : Answer(r, outcome)
    <2>1. Quiet(r) BY <1>1, <1>8, QuietRows
    <2>2. QED BY <1>4, <1>8, <2>1
  <1>9. CASE Accept(r) \/ LookUpRecord(r)
    <2>1. Quiet(r) BY <1>1, <1>9, QuietRows DEF Accept, LookUpRecord
    <2>2. job[r].kind \in {"MANUAL", "SYNC"} BY <1>1, <1>9, KindAt DEF Accept, LookUpRecord
    <2>3. (\E outcome : Answer(r, outcome)) \/ \E step \in {"lock", "refused", "record"} : Goto(r, step)
      BY <1>9 DEF Accept, LookUpRecord
    <2>4. ASSUME Goto(r, "lock") PROVE FeedInv'
      <3>1. at'[r] = "lock" /\ match' = match BY <1>1, <2>4, GotoLeads
      <3>2. QED BY <1>2, <2>1, <2>2, <3>1, QuietWork
    <2>5. QED BY <1>4, <1>5, <2>1, <2>3, <2>4
  <1>10. CASE Record(r)
    <2>1. Is(r, "SYNC") BY <1>1, <1>10, KindAt DEF Record, Is
    <2>2. \/ ReadOnly
          \/ \E x \in Row : \E version : x[1] = "sync" /\ Put(r, x, version)
      BY <1>3, <1>10, <2>1 DEF Record
    <2>3. Quiet(r) BY <1>1, <2>2, QuietRows
    <2>4. \E outcome : Answer(r, outcome) BY <1>10 DEF Record
    <2>5. QED BY <1>4, <2>3, <2>4
  <1>11. CASE LockBill(r)
    <2>1. BillOf(r) \in Bill
      <3>1. CASE Is(r, "REVERSE")
        <4>1. PICK p \in PaymentId : on[r] = Payment(p) /\ shown[on[r]] # Absent
          BY <1>1, <1>11, <3>1 DEF LockBill, Base, Progress
        <4>2. shown[on[r]] \in PaymentRow BY <4>1 DEF Inv, IntakeInv, PaymentsOK, PaymentStays
        <4>3. QED BY <3>1, <4>2 DEF BillOf, PaymentRow
      <3>2. CASE ~Is(r, "REVERSE") BY <1>1, <1>2, <3>2, AtWork DEF BillOf, Notice
      <3>3. QED BY <3>1, <3>2
    <2>2. PICK x, version : x \in Row /\ x[1] = "bill" /\ Put(r, x, version)
      BY <1>3, <1>11, <2>1 DEF LockBill, Lock, Row
    <2>3. Quiet(r) BY <1>1, <2>2, QuietRows
    <2>4. Goto(r, "undo") \/ Goto(r, "post") BY <1>11 DEF LockBill
    <2>5. ASSUME Goto(r, "post") PROVE FeedInv'
      <3>1. at'[r] = "post" /\ match' = match /\ answer' = answer BY <1>1, <2>5, GotoLeads
      <3>2. at[r] = "lock" BY <1>11 DEF LockBill
      <3>3. QED BY <2>3, <3>1, <3>2, QuietWork
    <2>6. QED BY <1>5, <2>3, <2>4, <2>5
  <1>12. CASE Revoke(r)
    <2>1. PICK x, version : x \in Row /\ x[1] = "client" /\ Put(r, x, version) BY <1>3, <1>12 DEF Revoke
    <2>2. Quiet(r) BY <1>1, <2>1, QuietRows
    <2>3. QED BY <1>4, <1>12, <2>2 DEF Revoke
  <1>13. QED BY <1>6, <1>7, <1>8, <1>9, <1>10, <1>11, <1>12

\* Payments posted by hand or replayed, and reversals.
LEMMA QuietPayments ==
  ASSUME Inv, FeedInv, NEW r \in Request, Alone(r),
         \/ (PostPayment(r) /\ job[r].kind \notin {"WEBHOOK", "FILE"})
         \/ FindPayment(r) \/ HoldPayment(r) \/ ReversePayment(r)
  PROVE  FeedInv'
  <1>1. Base BY DEF Inv, IntakeInv
  <1>2. at[r] \in Steps \ ({"commit", "break"} \cup Ended) /\ at[r] \notin {"mark", "commit"}
    BY DEF PostPayment, FindPayment, HoldPayment, ReversePayment, Steps, Ended
  <1>3. ASSUME NEW p \in PaymentId, NEW version, version # Absent, Put(r, Payment(p), version),
               row[Payment(p)] # Absent =>
                 version.ref = row[Payment(p)].ref /\ version.amount = row[Payment(p)].amount
        PROVE  Quiet(r)
    BY <1>1, <1>3, QuietRows
  <1>4. CASE PostPayment(r) /\ job[r].kind \notin {"WEBHOOK", "FILE"}
    <2>1. PICK p \in PaymentId : p = <<r, Current(r)>> /\ Mine(r) = Payment(p)
      BY <1>1, <1>2, AtWork DEF PaymentId, Mine
    <2>2. row[Payment(p)] = Absent
      <3>1. at[r] = "post" /\ Payments(r) /\ Current(r) \in 1..MaxRows /\ Len(answer[r]) \in Nat
        BY <1>1, <1>2, <1>4, AtWork DEF PostPayment, Inv, IntakeInv, PaymentsOK
      <3>2. QED BY <2>1, <3>1 DEF Payments, Current
    <2>3. Paid(r) # Absent
      <3>1. Paid(r) \in PaymentRow BY <1>1, <1>2, AtWork DEF Paid, PaymentRow, Notice
      <3>2. QED BY <3>1, AbsentIsNoRow
    <2>4. Put(r, Mine(r), Paid(r)) /\ (Answer(r, "posted") \/ Goto(r, "record"))
      BY <1>4 DEF PostPayment
    <2>5. Quiet(r) BY <1>3, <2>1, <2>2, <2>3, <2>4
    <2>6. /\ at'[r] \notin {"run", "mark", "note", "lock", "post"} /\ match' = match
      BY <1>1, <2>4, AnswerLeads, GotoLeads
    <2>7. QED BY <1>2, <2>5, <2>6, QuietWork
  <1>5. CASE FindPayment(r)
    <2>1. ReadOnly /\ match' = match /\ at'[r] \in {"hold", "refused"}
      BY <1>1, <1>5 DEF FindPayment, Go, Base
    <2>2. Quiet(r) BY <1>1, <2>1, QuietRows
    <2>3. QED BY <1>2, <2>1, <2>2, QuietWork
  <1>6. CASE HoldPayment(r) \/ ReversePayment(r)
    <2>1. PICK p \in PaymentId : on[r] = Payment(p) /\ shown[on[r]] # Absent
      BY <1>1, <1>6 DEF HoldPayment, ReversePayment, Base, Progress
    <2>2. row[Payment(p)] \in PaymentRow /\ row[Payment(p)] # Absent
      BY <2>1 DEF Inv, IntakeInv, PaymentsOK, PaymentStays
    <2>3. job[r].kind = "REVERSE" BY <1>1, <1>6, KindAt DEF HoldPayment, ReversePayment
    <2>4. CASE HoldPayment(r)
      <3>1. Put(r, Payment(p), row[Payment(p)]) /\ Goto(r, "lock") BY <2>1, <2>4 DEF HoldPayment, Lock
      <3>2. PICK version : version = row[Payment(p)] OBVIOUS
      <3>3. Quiet(r) BY <1>3, <2>2, <3>1, <3>2
      <3>4. at'[r] = "lock" /\ match' = match BY <1>1, <3>1, GotoLeads
      <3>5. QED BY <1>2, <2>3, <3>3, <3>4, QuietWork
    <2>5. CASE ReversePayment(r)
      <3>1. PICK version \in PaymentRow :
              /\ version.ref = row[Payment(p)].ref /\ version.amount = row[Payment(p)].amount
              /\ Put(r, Payment(p), version) /\ Answer(r, "reversed")
        <4>1. Put(r, Payment(p), [row[Payment(p)] EXCEPT !.status = "REVERSED"]) /\ Answer(r, "reversed")
          BY <2>1, <2>5 DEF ReversePayment
        <4>2. /\ [row[Payment(p)] EXCEPT !.status = "REVERSED"] \in PaymentRow
              /\ [row[Payment(p)] EXCEPT !.status = "REVERSED"].ref = row[Payment(p)].ref
              /\ [row[Payment(p)] EXCEPT !.status = "REVERSED"].amount = row[Payment(p)].amount
          BY <2>2 DEF PaymentRow
        <4>3. QED BY <4>1, <4>2
      <3>2. Quiet(r) BY <1>3, <3>1, AbsentIsNoRow
      <3>3. /\ at'[r] \notin {"run", "mark", "note", "lock", "post"} /\ match' = match
        BY <1>1, <3>1, AnswerLeads
      <3>4. QED BY <1>2, <3>2, <3>3, QuietWork
    <2>6. QED BY <1>6, <2>4, <2>5
  <1>7. QED BY <1>4, <1>5, <1>6

\* The matching pass finds payments that fit, and an exception to resolve is one of the run.
LEMMA LooksKeep ==
  ASSUME Inv, FeedInv, NEW r \in Request, Alone(r), MatchFeed(r) \/ FindException(r)
  PROVE  FeedInv'
  <1>1. Base /\ MatchOK BY DEF Inv, IntakeInv
  <1>2. ReadOnly /\ at[r] \notin {"mark", "commit"} BY DEF MatchFeed, FindException
  <1>3. Quiet(r) /\ shown' = shown BY <1>1, <1>2, QuietRows DEF Quiet
  <1>4. CASE MatchFeed(r)
    <2> DEFINE fit(ref) == {p \in PaymentId : /\ shown[Feed(ref)] # Absent /\ shown[Payment(p)] # Absent
                                             /\ Matches(shown[Payment(p)], Feed(ref))}
               found == [ref \in Ref |-> IF fit(ref) = {} THEN NoPayment ELSE CHOOSE p \in fit(ref) : TRUE]
    <2>1. match' = [match EXCEPT ![r] = found] /\ at'[r] = "run" BY <1>1, <1>4 DEF MatchFeed, Go, Base
    <2>2. ASSUME NEW ref \in Ref, found[ref] # NoPayment
          PROVE  /\ found[ref] \in PaymentId /\ shown[Feed(ref)] # Absent
                 /\ Bears(shown[Payment(found[ref])], ref, shown[Feed(ref)])
      <3>1. fit(ref) # {} /\ found[ref] = CHOOSE p \in fit(ref) : TRUE BY <2>2
      <3>2. found[ref] \in fit(ref) BY <3>1
      <3> HIDE DEF found
      <3>3. PICK p \in PaymentId : /\ p = found[ref] /\ shown[Feed(ref)] # Absent /\ shown[Payment(p)] # Absent
                                   /\ Matches(shown[Payment(p)], Feed(ref))
        BY <3>2
      <3>4. Feed(ref)[2] = ref BY DEF Feed
      <3>5. QED BY <3>3, <3>4 DEF Matches, SameRef, Bears
    <2> HIDE DEF found
    <2>3. match'[r] = found /\ \A q \in Request \ {r} : match'[q] = match[q] BY <1>1, <2>1 DEF MatchOK
    <2>4. Found(r)' BY <1>3, <2>2, <2>3 DEF Found, Bears
    <2>5. Noted(r)' BY <2>1 DEF Noted
    <2>6. QED BY <1>2, <1>3, <2>1, <2>3, <2>4, <2>5, QuietKeeps
  <1>5. CASE FindException(r)
    <2>1. match' = match /\ at'[r] \in {"note", "refused"} BY <1>1, <1>5 DEF FindException, Go, Base
    <2>2. Found(r)' BY <2>1 DEF Found
    <2>3. Noted(r)'
      <3>1. SUFFICES ASSUME at'[r] = "note" PROVE shown[on'[r]] \in {"OPEN", "RESOLVED"} BY <1>3 DEF Noted
      <3>2. PICK x \in Listed(shown) : on'[r] = x BY <1>1, <1>5, <3>1 DEF FindException, Go, Base
      <3>3. QED BY <3>2 DEF Listed
    <2>4. QED BY <1>2, <1>3, <2>1, <2>2, <2>3, QuietKeeps
  <1>6. QED BY <1>4, <1>5

\* Feed rows that are new in the hands of their request.
LEMMA NewFeed ==
  ASSUME Inv, FeedInv, NEW r \in Request, Moves(r), Alone(r), match' = match,
         at[r] \notin {"mark", "commit"}, at'[r] \notin {"run", "mark", "note"}, Received(r)',
         \A x \in ExceptionRows \cup {Run} : Kept(x),
         \A ref \in Ref : Kept(Feed(ref)) \/ shown[Feed(ref)] = Absent
  PROVE  FeedInv'
  <1>1. Own(r) /\ shown' = shown BY DEF FeedInv, Moves
  <1>2. Found(r)' /\ Noted(r)' BY DEF Found, Noted
  <1>3. RunHeld(r)'
    <2>1. holder[Run] # r BY <1>1 DEF Own, RunHeld
    <2>2. holder'[Run] # r BY <2>1 DEF Kept
    <2>3. Listed(shown) = Listed(shown)' BY <1>1
    <2>4. \A x \in ExceptionRows : holder'[x] = r => x \in Listed(shown) /\ row'[x] = "RESOLVED"
      BY <1>1, <2>1 DEF Own, RunHeld, Kept
    <2>5. \A ref \in Ref : holder'[Feed(ref)] = r => shown[Feed(ref)] = Absent
      BY <1>1, <2>1 DEF Own, RunHeld, Kept
    <2>6. QED BY <1>1, <2>2, <2>3, <2>4, <2>5 DEF RunHeld
  <1>4. QED BY <1>2, <1>3, Onward DEF Own

\* What a bank's notice writes in the feed before it is paid, or found to fit no bill.
LEMMA ReceiveKeeps ==
  ASSUME Inv, FeedInv, NEW r \in Request, Alone(r), Receive(r)
  PROVE  FeedInv'
  <1>1. Base /\ RowsAre(Row) /\ at[r] = "receive" BY DEF Inv, IntakeInv, Base, Receive
  <1>2. at[r] \in Steps \ ({"commit", "break"} \cup Ended) BY <1>1 DEF Steps, Ended
  <1>3. Of(r).ref \in Ref BY <1>1, <1>2, KindAt, NoticeRows DEF Is
  <1>4. PICK ref \in Ref : ref = Of(r).ref BY <1>3
  <1>5. CASE ReadOnly /\ \E outcome : Answer(r, outcome) BY <1>5, QuietNotices
  <1>6. ASSUME NEW status \in {"UNMATCHED", "EXCEPTION"}, ~ReceivedBefore(r),
               Put(r, Feed(ref), FeedEntry(r, status, NoPayment)),
               Goto(r, "lock") \/ \E outcome : Answer(r, outcome)
        PROVE  FeedInv'
    <2>1. PICK x \in Row : x = Feed(ref) BY ToldApart
    <2>2. PICK f \in FeedRow : f = FeedEntry(r, status, NoPayment) /\ f.status = status
      <3>1. FeedEntry(r, status, NoPayment) \in FeedRow /\ FeedEntry(r, status, NoPayment).status = status
        BY <1>1, <1>2, AtWork DEF FeedEntry, FeedRow, Notice
      <3>2. QED BY <3>1
    <2>3. /\ shown' = shown /\ row'[x] = f /\ holder'[x] = r /\ holder[x] \in {0, r}
          /\ \A y \in Row \ {x} : row'[y] = row[y] /\ holder'[y] = holder[y]
      BY <1>1, <1>6, <2>1, <2>2, PutDoes
    <2>4. shown[x] = Absent
      BY <1>4, <1>6, <2>1 DEF ReceivedBefore, There, Sees, FeedInv, AmountsLast
    <2>5. FeedMoves(r, ref)
      BY <2>1, <2>2, <2>3, <2>4, AbsentIsNoRow DEF FeedMoves, Matched
    <2>6. \A other \in Ref \ {ref} : Kept(Feed(other))
      <3>1. \A other \in Ref \ {ref} : Feed(other) \in Row \ {x} BY <2>1, ToldApart DEF Feed
      <3>2. QED BY <2>3, <3>1 DEF Kept
    <2>7. \A p \in PaymentId : Kept(Payment(p))
      <3>1. \A p \in PaymentId : Payment(p) \in Row \ {x} BY <2>1, ToldApart
      <3>2. QED BY <2>3, <3>1 DEF Kept
    <2>8. \A y \in ExceptionRows \cup {Run} : Kept(y)
      <3>1. \A y \in ExceptionRows \cup {Run} : y \in Row \ {x} BY <2>1, ToldApart
      <3>2. QED BY <2>3, <3>1 DEF Kept
    <2>9. Moves(r) BY <2>3, <2>5, <2>6, <2>7, <2>8 DEF Moves, FeedMoves, PaymentGoes
    <2>10. /\ match' = match /\ at'[r] \notin {"run", "mark", "note"}
           /\ at'[r] \in {"lock", "post"} => answer' = answer
      BY <1>1, <1>6, AnswerLeads, GotoLeads
    <2>11. Received(r)'
      <3>1. job' = job BY DEF Alone
      <3>2. SUFFICES ASSUME at'[r] \in {"lock", "post"}
                     PROVE  holder'[Feed(Of(r)'.ref)] = r /\ shown'[Feed(Of(r)'.ref)] = Absent
        BY DEF Received
      <3>3. Of(r)' = Of(r) BY <2>10, <3>1, <3>2 DEF Of, Current
      <3>4. QED BY <1>4, <2>1, <2>3, <2>4, <3>3
    <2>12. \A other \in Ref : Kept(Feed(other)) \/ shown[Feed(other)] = Absent BY <2>1, <2>4, <2>6
    <2>13. QED BY <1>1, <2>8, <2>9, <2>10, <2>11, <2>12, NewFeed
  <1>7. QED BY <1>1, <1>4, <1>5, <1>6 DEF Receive

\* A bank's notice is paid, and its feed row matched with the payment.
LEMMA PostKeeps ==
  ASSUME Inv, FeedInv, NEW r \in Request, Alone(r), PostPayment(r)
  PROVE  FeedInv'
  <1>1. Base /\ RowsAre(Row) /\ at[r] = "post" BY DEF Inv, IntakeInv, Base, PostPayment
  <1>2. at[r] \in Steps \ ({"commit", "break"} \cup Ended) BY <1>1 DEF Steps, Ended
  <1>3. CASE job[r].kind \notin {"WEBHOOK", "FILE"} BY <1>3, QuietPayments
  <1>4. CASE job[r].kind \in {"WEBHOOK", "FILE"}
    <2>1. PICK ref \in Ref : ref = Of(r).ref BY <1>1, <1>2, <1>4, NoticeRows DEF Is
    <2>2. PICK m \in PaymentId : m = <<r, Current(r)>> /\ Mine(r) = Payment(m)
      BY <1>1, <1>2, AtWork DEF PaymentId, Mine
    <2>3. PICK x \in Row, z \in Row : x = Feed(ref) /\ z = Payment(m) /\ x # z BY ToldApart
    <2>4. /\ Of(r) \in Notice /\ Current(r) \in 1..MaxRows /\ Len(answer[r]) \in Nat
      BY <1>1, <1>2, AtWork
    <2>5. holder[x] = r /\ shown[x] = Absent
      BY <1>1, <1>4, <2>1, <2>3 DEF FeedInv, Own, Received
    <2>6. row[z] = Absent
      <3>1. Payments(r) BY DEF Inv, IntakeInv, PaymentsOK
      <3>2. QED BY <1>1, <2>2, <2>3, <2>4, <3>1 DEF Payments, Current
    <2>7. PICK y \in PaymentRow : y = Paid(r) /\ y.ref = ref /\ y.amount = Of(r).amount
      <3>1. Paid(r) \in PaymentRow /\ Paid(r).ref = Of(r).ref /\ Paid(r).amount = Of(r).amount
        BY <2>4 DEF Paid, PaymentRow, Notice
      <3>2. QED BY <2>1, <3>1
    <2>8. PICK f \in FeedRow : f = FeedEntry(r, "MATCHED", <<r, Current(r)>>) /\ f.payment = m /\ f.amount = Of(r).amount
      <3>1. /\ FeedEntry(r, "MATCHED", <<r, Current(r)>>) \in FeedRow
            /\ FeedEntry(r, "MATCHED", <<r, Current(r)>>).payment = <<r, Current(r)>>
            /\ FeedEntry(r, "MATCHED", <<r, Current(r)>>).amount = Of(r).amount
        BY <2>2, <2>4 DEF FeedEntry, FeedRow, Notice
      <3>2. QED BY <2>2, <3>1
    <2>9. Answer(r, "posted") BY <1>4 DEF PostPayment, Is
    <2>10. PICK new : DOMAIN new = {x, z} /\ new[z] = y /\ new[x] = f /\ Write(r, new)
      <3>1. Write(r, [w \in {Mine(r), Feed(Of(r).ref)} |->
                        IF w = Mine(r) THEN Paid(r) ELSE FeedEntry(r, "MATCHED", <<r, Current(r)>>)])
        BY <1>4 DEF PostPayment, Is
      <3>2. QED BY <2>1, <2>2, <2>3, <2>7, <2>8, <3>1
    <2>11. /\ shown' = shown /\ row'[x] = f /\ row'[z] = y
           /\ holder[x] \in {0, r} /\ holder'[x] = r /\ holder[z] \in {0, r} /\ holder'[z] = r
           /\ \A w \in Row \ {x, z} : row'[w] = row[w] /\ holder'[w] = holder[w]
      BY <1>1, <2>3, <2>10, WriteDoes
    <2>12. y # Absent /\ f # Absent BY AbsentIsNoRow
    <2>13. FeedMoves(r, ref)
      <3>1. Bears(row'[Payment(row'[x].payment)], ref, row'[x]) /\ holder'[Payment(row'[x].payment)] = r
        BY <2>3, <2>7, <2>8, <2>11, <2>12 DEF Bears
      <3>2. QED BY <2>3, <2>5, <2>8, <2>11, <2>12, <3>1 DEF FeedMoves
    <2>14. \A other \in Ref \ {ref} : Kept(Feed(other))
      <3>1. \A other \in Ref \ {ref} : Feed(other) \in Row \ {x, z} BY <2>3, ToldApart DEF Feed
      <3>2. QED BY <2>11, <3>1 DEF Kept
    <2>15. \A p \in PaymentId : PaymentGoes(r, p)
      <3>1. \A p \in PaymentId \ {m} : Payment(p) \in Row \ {x, z} BY <2>3, ToldApart, RowsApart
      <3>2. \A p \in PaymentId \ {m} : Kept(Payment(p)) BY <2>11, <3>1 DEF Kept
      <3>3. PaymentGoes(r, m) BY <2>3, <2>6, <2>11, <2>12 DEF PaymentGoes
      <3>4. QED BY <3>2, <3>3 DEF PaymentGoes
    <2>16. \A w \in ExceptionRows \cup {Run} : Kept(w)
      <3>1. \A w \in ExceptionRows \cup {Run} : w \in Row \ {x, z} BY <2>3, ToldApart
      <3>2. QED BY <2>11, <3>1 DEF Kept
    <2>17. Moves(r) BY <2>11, <2>13, <2>14, <2>15, <2>16 DEF Moves, FeedMoves
    <2>18. match' = match /\ at'[r] \notin {"run", "mark", "note", "lock", "post"} BY <1>1, <2>9, AnswerLeads
    <2>19. Received(r)' BY <2>18 DEF Received
    <2>20. \A other \in Ref : Kept(Feed(other)) \/ shown[Feed(other)] = Absent BY <2>3, <2>5, <2>14
    <2>21. QED BY <1>1, <2>16, <2>17, <2>18, <2>19, <2>20, NewFeed
  <1>5. QED BY <1>3, <1>4

\* The run is begun: its exceptions are deleted.
LEMMA OpenRunKeeps ==
  ASSUME Inv, FeedInv, NEW r \in Request, Alone(r), OpenRun(r)
  PROVE  FeedInv'
  <1>1. /\ Base /\ RowsAre(Row) /\ at[r] = "run" /\ at'[r] = "mark" /\ match' = match
        /\ Own(r) /\ Listed(shown) \subseteq ExceptionRows
    BY GotoLeads DEF Inv, IntakeInv, Base, OpenRun, FeedInv, Listed
  <1>2. PICK new : /\ DOMAIN new = RunRows /\ Write(r, new)
                   /\ \A x \in RunRows : new[x] = IF x = Run THEN "OPEN" ELSE "DELETED"
    BY DEF OpenRun
  <1>3. /\ shown' = shown /\ \A x \in RunRows : holder[x] \in {0, r}
        /\ \A x \in Row : row'[x] = IF x \in RunRows THEN new[x] ELSE row[x]
        /\ \A x \in Row : holder'[x] = IF x \in RunRows THEN r ELSE holder[x]
    BY <1>1, <1>2, WriteDoes
  <1>4. \A x \in RunRows : x \in ExceptionRows \cup {Run} BY <1>1 DEF RunRows
  <1>5. \A ref \in Ref : Kept(Feed(ref))
    <2>1. \A ref \in Ref : Feed(ref) \in Row /\ Feed(ref) \notin RunRows BY <1>4, ToldApart
    <2>2. QED BY <1>3, <2>1 DEF Kept
  <1>6. \A p \in PaymentId : Kept(Payment(p))
    <2>1. \A p \in PaymentId : Payment(p) \in Row /\ Payment(p) \notin RunRows BY <1>4, ToldApart
    <2>2. QED BY <1>3, <2>1 DEF Kept
  <1>7. \A x \in ExceptionRows \cup {Run} : x \in Row BY ToldApart
  <1>8. Moves(r)
    <2>1. \A x \in ExceptionRows \cup {Run} : Kept(x) \/ (holder[x] \in {0, r} /\ holder'[x] = r)
      BY <1>3, <1>7 DEF Kept
    <2>2. QED BY <1>3, <1>5, <1>6, <2>1 DEF Moves, FeedMoves, PaymentGoes
  <1>9. Received(r)' /\ Noted(r)' BY <1>1 DEF Received, Noted
  <1>10. Found(r)' BY <1>1, <1>3 DEF Own, Found, Bears
  <1>11. RunHeld(r)'
    <2>1. Listed(shown) = Listed(shown)' BY <1>3
    <2>2. Run \in RunRows /\ Listed(shown) \subseteq RunRows BY DEF RunRows
    <2>3. holder'[Run] = r /\ \A x \in Listed(shown) : holder'[x] = r
      BY <1>1, <1>3, <1>7, <2>2
    <2>4. holder[Run] # r BY <1>1 DEF Own, RunHeld
    <2>5. ASSUME NEW x \in ExceptionRows, holder'[x] = r PROVE row'[x] = "DELETED"
      <3>1. x \in RunRows
        <4>1. CASE x \notin RunRows
          <5>1. holder[x] = r BY <1>3, <1>7, <2>5, <4>1
          <5>2. x \in Listed(shown) BY <1>1, <2>4, <5>1 DEF Own, RunHeld
          <5>3. QED BY <2>2, <4>1, <5>2
        <4>2. QED BY <4>1
      <3>2. x # Run BY ToldApart
      <3>3. QED BY <1>2, <1>3, <1>7, <3>1, <3>2
    <2>6. QED BY <1>1, <2>1, <2>3, <2>5 DEF RunHeld
  <1>12. QED BY <1>1, <1>8, <1>9, <1>10, <1>11, Onward DEF Own

\* The feed rows that nothing was found for.
Lone(r) == {ref \in Ref : shown[Feed(ref)] # Absent /\ match[r][ref] = NoPayment}

\* What marking the feed does to rows, one by one.
LEMMA MarkRows ==
  ASSUME Inv, NEW r \in Request, Mark(r)
  PROVE  /\ shown' = shown /\ Answer(r, "reconciled")
         /\ holder[Run] \in {0, r} /\ holder'[Run] = r /\ row'[Run] = RunStatus(Lone(r))
         /\ \A ref \in Ref : shown[Feed(ref)] = Absent => Kept(Feed(ref))
         /\ \A ref \in Ref : shown[Feed(ref)] # Absent =>
              /\ holder[Feed(ref)] \in {0, r} /\ holder'[Feed(ref)] = r /\ row'[Feed(ref)] # Absent
              /\ row'[Feed(ref)].amount = shown[Feed(ref)].amount
              /\ ref \in Lone(r) => row'[Feed(ref)].status = "EXCEPTION"
              /\ ref \notin Lone(r) => row'[Feed(ref)].payment = match[r][ref]
         /\ \A x \in ExceptionRows :
              \/ Kept(x)
              \/ /\ \E ref \in Lone(r) : x = Exception(r, ref)
                 /\ holder[x] \in {0, r} /\ holder'[x] = r /\ row'[x] = "OPEN"
         /\ \A p \in PaymentId : Kept(Payment(p))
  <1> DEFINE there == {ref \in Ref : shown[Feed(ref)] # Absent}
             lone == {ref \in there : match[r][ref] = NoPayment}
             xs == {Feed(ref) : ref \in there} \cup {Exception(r, ref) : ref \in lone} \cup {Run}
             new == [x \in xs |->
                       CASE x = Run            -> RunStatus(lone)
                         [] x[1] = "exception" -> "OPEN"
                         [] x[1] = "feed" /\ x[2] \in lone -> [shown[x] EXCEPT !.status = "EXCEPTION"]
                         [] OTHER -> [shown[x] EXCEPT !.status = "MATCHED", !.payment = match[r][x[2]]]]
  <1>1. Write(r, new) BY Zenon DEF Mark
  <1>2. DOMAIN new = xs OBVIOUS
  <1>3. lone = Lone(r) BY DEF Lone
  <1>4. RowsAre(Row) BY DEF Inv, IntakeInv, Base
  <1>5. /\ Run \in xs /\ new[Run] = RunStatus(lone)
        /\ \A ref \in Ref : Feed(ref) \in xs <=> ref \in there
        /\ \A p : Payment(p) \notin xs
    <2>1. Run \in xs /\ new[Run] = RunStatus(lone)
      <3>1. Run \in xs /\ Run[1] = "run" BY DEF Run
      <3>2. QED BY <3>1
    <2>2. \A p : Payment(p) \notin xs BY DEF Payment, Feed, Exception, Run
    <2>3. \A ref \in Ref : Feed(ref) \in xs <=> ref \in there BY DEF Feed, Exception, Run
    <2>4. QED BY <2>1, <2>2, <2>3
  <1>6. ASSUME NEW ref \in Ref, shown[Feed(ref)] # Absent
        PROVE  /\ new[Feed(ref)] # Absent /\ new[Feed(ref)].amount = shown[Feed(ref)].amount
               /\ ref \in lone => new[Feed(ref)].status = "EXCEPTION"
               /\ ref \notin lone => new[Feed(ref)].payment = match[r][ref]
    <2>1. Feed(ref) \in xs /\ Feed(ref) # Run /\ Feed(ref)[1] = "feed" /\ Feed(ref)[2] = ref
      BY <1>6 DEF Feed, Run
    <2>2. shown[Feed(ref)] \in FeedRow BY <1>6 DEF Inv, RowsOK, FeedRows
    <2>3. match[r][ref] \in PaymentId \cup {NoPayment} BY DEF Inv, MatchOK
    <2>4. new[Feed(ref)] = IF ref \in lone THEN [shown[Feed(ref)] EXCEPT !.status = "EXCEPTION"]
                           ELSE [shown[Feed(ref)] EXCEPT !.status = "MATCHED", !.payment = match[r][ref]]
      BY <2>1
    <2> HIDE DEF new
    <2>5. PICK g \in FeedRow : g = [shown[Feed(ref)] EXCEPT !.status = "EXCEPTION"]
                               /\ g.amount = shown[Feed(ref)].amount /\ g.status = "EXCEPTION"
      <3>1. /\ [shown[Feed(ref)] EXCEPT !.status = "EXCEPTION"] \in FeedRow
            /\ [shown[Feed(ref)] EXCEPT !.status = "EXCEPTION"].amount = shown[Feed(ref)].amount
            /\ [shown[Feed(ref)] EXCEPT !.status = "EXCEPTION"].status = "EXCEPTION"
        BY <2>2 DEF FeedRow
      <3>2. QED BY <3>1
    <2>6. PICK h \in FeedRow : h = [shown[Feed(ref)] EXCEPT !.status = "MATCHED", !.payment = match[r][ref]]
                               /\ h.amount = shown[Feed(ref)].amount /\ h.payment = match[r][ref]
      <3>1. /\ [shown[Feed(ref)] EXCEPT !.status = "MATCHED", !.payment = match[r][ref]] \in FeedRow
            /\ [shown[Feed(ref)] EXCEPT !.status = "MATCHED", !.payment = match[r][ref]].amount = shown[Feed(ref)].amount
            /\ [shown[Feed(ref)] EXCEPT !.status = "MATCHED", !.payment = match[r][ref]].payment = match[r][ref]
        BY <2>2, <2>3 DEF FeedRow
      <3>2. QED BY <3>1
    <2>7. CASE ref \in lone BY <2>4, <2>5, <2>7, AbsentIsNoRow
    <2>8. CASE ref \notin lone BY <2>4, <2>6, <2>8, AbsentIsNoRow
    <2>9. QED BY <2>7, <2>8
  <1>7. ASSUME NEW x \in ExceptionRows, x \in xs
        PROVE  new[x] = "OPEN" /\ \E ref \in lone : x = Exception(r, ref)
    <2>1. x # Run /\ x[1] = "exception" /\ \A ref : x # Feed(ref) BY ToldApart DEF Feed, Run
    <2>2. new[x] = "OPEN" BY <1>7, <2>1
    <2>3. \E ref \in lone : x = Exception(r, ref) BY <1>7, <2>1
    <2>4. QED BY <2>2, <2>3
  <1> HIDE DEF new, xs
  <1>8. /\ shown' = shown /\ \A x \in xs : holder[x] \in {0, r}
        /\ \A x \in Row : row'[x] = IF x \in xs THEN new[x] ELSE row[x]
        /\ \A x \in Row : holder'[x] = IF x \in xs THEN r ELSE holder[x]
    BY <1>1, <1>2, <1>4, WriteDoes
  <1>9. holder[Run] \in {0, r} /\ holder'[Run] = r /\ row'[Run] = RunStatus(Lone(r))
    BY <1>3, <1>5, <1>8, ToldApart
  <1>10. \A p \in PaymentId : Kept(Payment(p)) BY <1>5, <1>8, ToldApart DEF Kept
  <1>11. ASSUME NEW ref \in Ref, shown[Feed(ref)] = Absent PROVE Kept(Feed(ref))
    <2>1. Feed(ref) \in Row /\ Feed(ref) \notin xs BY <1>5, <1>11, ToldApart
    <2>2. QED BY <1>8, <2>1 DEF Kept
  <1>12. ASSUME NEW ref \in Ref, shown[Feed(ref)] # Absent
         PROVE  holder[Feed(ref)] \in {0, r} /\ holder'[Feed(ref)] = r /\ row'[Feed(ref)] = new[Feed(ref)]
    <2>1. Feed(ref) \in Row /\ Feed(ref) \in xs BY <1>5, <1>12, ToldApart
    <2>2. QED BY <1>8, <2>1
  <1>13. ASSUME NEW x \in ExceptionRows
         PROVE  \/ Kept(x)
                \/ /\ \E ref \in lone : x = Exception(r, ref)
                   /\ holder[x] \in {0, r} /\ holder'[x] = r /\ row'[x] = "OPEN"
    <2>1. x \in Row BY ToldApart
    <2>2. CASE x \in xs BY <1>7, <1>8, <2>1, <2>2
    <2>3. CASE x \notin xs BY <1>8, <2>1, <2>3 DEF Kept
    <2>4. QED BY <2>2, <2>3
  <1>14. Answer(r, "reconciled") BY DEF Mark
  <1>15. QED BY <1>3, <1>6, <1>8, <1>9, <1>10, <1>11, <1>12, <1>13, <1>14

\* The feed is marked, with the payments found and the exceptions that are left.
LEMMA MarkKeeps ==
  ASSUME Inv, FeedInv, NEW r \in Request, Alone(r), Mark(r)
  PROVE  FeedInv'
  <1>1. Base /\ at[r] = "mark" /\ Own(r) /\ r # 0 /\ holder[Run] = r
    BY JobsAreGood DEF Inv, IntakeInv, Mark, FeedInv, Own, RunHeld
  <1>2. at'[r] = "commit" /\ match' = match
    <2>1. at[r] \in Steps \ ({"commit", "break"} \cup Ended) /\ job[r].kind = "RECONCILE"
      BY <1>1, KindAt DEF Steps, Ended
    <2>2. Len(answer[r]) = 0 /\ Len(job[r].notices) = 1 BY <1>1, <2>1, AtWork, JobsAreGood
    <2>3. Answer(r, "reconciled") BY MarkRows
    <2>4. QED BY <1>1, <2>2, <2>3 DEF Answer, Current, Base
  <1>3. \A ref \in Lone(r) : ref \in Ref /\ shown[Feed(ref)] # Absent /\ match[r][ref] = NoPayment BY DEF Lone
  <1>4. ASSUME NEW ref \in Ref PROVE FeedMoves(r, ref)
    <2>1. CASE shown[Feed(ref)] = Absent BY <2>1, MarkRows DEF FeedMoves
    <2>2. CASE shown[Feed(ref)] # Absent /\ ref \in Lone(r) BY <2>2, MarkRows DEF FeedMoves, Matched
    <2>3. CASE shown[Feed(ref)] # Absent /\ ref \notin Lone(r)
      <3>1. match[r][ref] # NoPayment BY <2>3 DEF Lone
      <3>2. match[r][ref] \in PaymentId /\ Bears(shown[Payment(match[r][ref])], ref, shown[Feed(ref)])
        BY <1>1, <3>1 DEF Own, Found
      <3>3. /\ holder[Feed(ref)] \in {0, r} /\ holder'[Feed(ref)] = r /\ row'[Feed(ref)] # Absent
            /\ row'[Feed(ref)].amount = shown[Feed(ref)].amount /\ row'[Feed(ref)].payment = match[r][ref]
        BY <2>3, MarkRows
      <3>4. Bears(shown[Payment(row'[Feed(ref)].payment)], ref, row'[Feed(ref)])
        BY <3>2, <3>3 DEF Bears
      <3>5. QED BY <3>2, <3>3, <3>4 DEF FeedMoves
    <2>4. QED BY <2>1, <2>2, <2>3
  <1>5. \A x \in ExceptionRows \cup {Run} : Kept(x) \/ (holder[x] \in {0, r} /\ holder'[x] = r)
    BY MarkRows
  <1>6. shown' = shown /\ holder'[Run] = r /\ row'[Run] = RunStatus(Lone(r)) BY MarkRows
  <1>7. \A p \in PaymentId : PaymentGoes(r, p) BY MarkRows DEF PaymentGoes
  <1>8. Moves(r) BY <1>4, <1>5, <1>6, <1>7 DEF Moves
  <1>9. Received(r)' /\ Found(r)' /\ Noted(r)' BY <1>2 DEF Received, Found, Noted
  <1>10. RunHeld(r)'
    <2>1. Listed(shown) = Listed(shown)' /\ Listed(shown) \subseteq ExceptionRows BY <1>6 DEF Listed
    <2>2. \A x \in Listed(shown) : holder'[x] = r
      <3>1. \A x \in Listed(shown) : holder[x] = r BY <1>1 DEF Own, RunHeld
      <3>2. QED BY <1>5, <2>1, <3>1 DEF Kept
    <2>3. ASSUME NEW x \in ExceptionRows, holder'[x] = r
          PROVE  /\ row'[x] \in {"DELETED", "OPEN"}
                 /\ row'[x] = "OPEN" => /\ x[2][1] = r /\ row'[Run] # "BALANCED" /\ at'[r] = "commit"
                                       /\ holder'[Feed(x[2][2])] = r
                                       /\ row'[Feed(x[2][2])] # Absent /\ row'[Feed(x[2][2])].status = "EXCEPTION"
      <3>1. CASE Kept(x)
        <4>1. holder[x] = r BY <2>3, <3>1 DEF Kept
        <4>2. row[x] = "DELETED" BY <1>1, <4>1 DEF Own, RunHeld
        <4>3. QED BY <3>1, <4>2 DEF Kept
      <3>2. CASE ~Kept(x)
        <4>1. PICK ref \in Lone(r) : x = Exception(r, ref) /\ row'[x] = "OPEN" BY <3>2, MarkRows
        <4>2. x[2][1] = r /\ x[2][2] = ref BY <4>1 DEF Exception
        <4>3. row'[Run] = "EXCEPTIONS" BY <1>6, <4>1 DEF RunStatus
        <4>4. holder'[Feed(ref)] = r /\ row'[Feed(ref)] # Absent /\ row'[Feed(ref)].status = "EXCEPTION"
          BY <1>3, <4>1, MarkRows
        <4>5. QED BY <1>2, <4>1, <4>2, <4>3, <4>4
      <3>3. QED BY <3>1, <3>2
    <2>4. QED BY <1>2, <1>6, <2>1, <2>2, <2>3 DEF RunHeld
  <1>11. QED BY <1>2, <1>8, <1>9, <1>10, Onward DEF Own

\* An exception of the run is resolved.
LEMMA ResolveKeeps ==
  ASSUME Inv, FeedInv, NEW r \in Request, Alone(r), Resolve(r), shown[on[r]] # "DELETED"
  PROVE  FeedInv'
  <1>1. Base /\ RowsAre(Row) /\ at[r] = "note" /\ Own(r) BY DEF Inv, IntakeInv, Base, Resolve, FeedInv
  <1>2. PICK x \in ExceptionRows : x = on[r] BY <1>1 DEF Base, Progress
  <1>3. Put(r, x, "RESOLVED") /\ Answer(r, "resolved") BY <1>2 DEF Resolve
  <1>4. x \in Row /\ x \in Listed(shown) BY <1>1, <1>2, ToldApart DEF Own, Noted, Listed
  <1>5. /\ shown' = shown /\ row'[x] = "RESOLVED" /\ holder'[x] = r /\ holder[x] \in {0, r}
        /\ \A y \in Row \ {x} : row'[y] = row[y] /\ holder'[y] = holder[y]
    BY <1>1, <1>3, <1>4, PutDoes
  <1>6. \A ref \in Ref : Kept(Feed(ref))
    <2>1. \A ref \in Ref : Feed(ref) \in Row \ {x} BY ToldApart
    <2>2. QED BY <1>5, <2>1 DEF Kept
  <1>7. \A p \in PaymentId : Kept(Payment(p))
    <2>1. \A p \in PaymentId : Payment(p) \in Row \ {x} BY ToldApart
    <2>2. QED BY <1>5, <2>1 DEF Kept
  <1>8. \A y \in (ExceptionRows \cup {Run}) \ {x} : Kept(y)
    <2>1. \A y \in (ExceptionRows \cup {Run}) \ {x} : y \in Row \ {x} BY ToldApart
    <2>2. QED BY <1>5, <2>1 DEF Kept
  <1>9. Moves(r) BY <1>5, <1>6, <1>7, <1>8 DEF Moves, FeedMoves, PaymentGoes
  <1>10. match' = match /\ at'[r] \notin {"run", "mark", "note", "lock", "post"} BY <1>1, <1>3, AnswerLeads
  <1>11. Received(r)' /\ Found(r)' /\ Noted(r)' BY <1>10 DEF Received, Found, Noted
  <1>12. RunHeld(r)'
    <2>1. Listed(shown) = Listed(shown)' /\ Run # x BY <1>5, ToldApart
    <2>2. holder[Run] # r BY <1>1 DEF Own, RunHeld
    <2>3. holder'[Run] # r BY <1>8, <2>1, <2>2 DEF Kept
    <2>4. ASSUME NEW y \in ExceptionRows, holder'[y] = r PROVE y \in Listed(shown) /\ row'[y] = "RESOLVED"
      <3>1. CASE y = x BY <1>4, <1>5, <3>1
      <3>2. CASE y # x
        <4>1. Kept(y) BY <1>8, <3>2
        <4>2. holder[y] = r BY <2>4, <4>1 DEF Kept
        <4>3. y \in Listed(shown) /\ row[y] = "RESOLVED" BY <1>1, <2>2, <4>2 DEF Own, RunHeld
        <4>4. QED BY <4>1, <4>3 DEF Kept
      <3>3. QED BY <3>1, <3>2
    <2>5. \A ref \in Ref : holder'[Feed(ref)] = r => shown[Feed(ref)] = Absent
      BY <1>1, <1>6, <2>2 DEF Own, RunHeld, Kept
    <2>6. QED BY <1>5, <1>10, <2>1, <2>3, <2>4, <2>5 DEF RunHeld
  <1>13. QED BY <1>9, <1>10, <1>11, <1>12, Onward DEF Own

-----------------------------------------------------------------------------
(* The end of a request, as the feed and the run see it. *)

\* All that the request holds is committed or taken back, row by row.
Settled(r) ==
  \A x \in Row : IF holder[x] = r THEN /\ holder'[x] = 0 /\ row'[x] = shown'[x]
                                       /\ shown'[x] \in {row[x], shown[x]}
                 ELSE Kept(x)

\* A payment that bears a feed row bears it for ever.
LEMMA BearsOn ==
  ASSUME Inv, FeedInv, NEW r \in Request, Settled(r), NEW p \in PaymentId, NEW ref, NEW f,
         Bears(shown[Payment(p)], ref, f)
  PROVE  Bears(shown'[Payment(p)], ref, f)
  <1>1. PaymentStays(p) /\ Payment(p) \in Row BY ToldApart DEF Inv, IntakeInv, PaymentsOK
  <1>2. Bears(row[Payment(p)], ref, f) BY <1>1 DEF FeedInv, AmountsLast, PaymentStays, Bears
  <1>3. shown'[Payment(p)] \in {row[Payment(p)], shown[Payment(p)]} BY <1>1 DEF Settled, Kept
  <1>4. QED BY <1>2, <1>3

\* Other requests find what they held and found.
LEMMA SettledOwn ==
  ASSUME Inv, FeedInv, NEW r \in Request, Alone(r), Settled(r), match' = match, at'[r] \in Ended,
         NEW q \in Request
  PROVE  Own(q)'
  <1>1. Base /\ Own(q) /\ Own(r) /\ r # 0 /\ q # 0 BY JobsAreGood DEF Inv, IntakeInv, FeedInv
  <1>2. /\ \A ref \in Ref : Feed(ref) \in Row
        /\ \A x \in ExceptionRows \cup {Run} : x \in Row
    BY ToldApart
  <1>3. CASE q = r
    <2>1. at'[r] \notin {"lock", "post", "run", "mark", "note"} BY DEF Ended
    <2>2. \A x \in Row : holder'[x] # r BY <1>1 DEF Settled, Kept
    <2>3. Received(r)' /\ Found(r)' /\ Noted(r)' BY <2>1 DEF Received, Found, Noted
    <2>4. RunHeld(r)' BY <1>2, <2>1, <2>2 DEF RunHeld
    <2>5. QED BY <1>3, <2>3, <2>4 DEF Own
  <1>4. CASE q # r
    <2>1. job' = job /\ at'[q] = at[q] /\ answer'[q] = answer[q] /\ on'[q] = on[q] BY <1>4 DEF Alone
    <2>2. \A x \in Row : holder'[x] = q <=> holder[x] = q BY <1>1, <1>4 DEF Settled, Kept
    <2>3. \A x \in Row : holder[x] = q => Kept(x) BY <1>1, <1>4 DEF Settled
    <2>4. Received(q)'
      <3>1. SUFFICES ASSUME at[q] \in {"lock", "post"}, job[q].kind \in {"WEBHOOK", "FILE"}
                     PROVE  holder'[Feed(Of(q).ref)] = q /\ shown'[Feed(Of(q).ref)] = Absent
        BY <2>1 DEF Received, Of, Current
      <3>2. Of(q).ref \in Ref
        <4>1. at[q] \in Steps \ ({"commit", "break"} \cup Ended) BY <3>1 DEF Steps, Ended
        <4>2. QED BY <1>1, <3>1, <4>1, NoticeRows DEF Is
      <3>3. holder[Feed(Of(q).ref)] = q /\ shown[Feed(Of(q).ref)] = Absent
        BY <1>1, <3>1 DEF Own, Received
      <3>4. QED BY <1>2, <2>2, <2>3, <3>2, <3>3 DEF Kept
    <2>5. Found(q)'
      <3>1. SUFFICES ASSUME at[q] \in {"run", "mark"}, NEW ref \in Ref, match[q][ref] # NoPayment
                     PROVE  /\ match[q][ref] \in PaymentId /\ shown'[Feed(ref)] # Absent
                            /\ Bears(shown'[Payment(match[q][ref])], ref, shown'[Feed(ref)])
        BY <2>1 DEF Found, Bears
      <3>2. PICK p \in PaymentId : /\ p = match[q][ref] /\ shown[Feed(ref)] # Absent
                                   /\ Bears(shown[Payment(p)], ref, shown[Feed(ref)])
        BY <1>1, <3>1 DEF Own, Found
      <3>3. shown'[Feed(ref)] \in {row[Feed(ref)], shown[Feed(ref)]} BY <1>2 DEF Settled, Kept
      <3>4. shown'[Feed(ref)] # Absent /\ shown'[Feed(ref)].amount = shown[Feed(ref)].amount
        BY <3>2, <3>3 DEF FeedInv, AmountsLast
      <3>5. Bears(shown'[Payment(p)], ref, shown[Feed(ref)]) BY <3>2, BearsOn
      <3>6. QED BY <3>2, <3>4, <3>5 DEF Bears
    <2>6. Noted(q)'
      <3>1. SUFFICES ASSUME at[q] = "note" PROVE shown'[on[q]] \in {"OPEN", "RESOLVED", "DELETED"}
        BY <2>1 DEF Noted
      <3>2. PICK x \in ExceptionRows : x = on[q] BY <1>1, <3>1 DEF Base, Progress
      <3>3. shown[x] \in {"OPEN", "RESOLVED", "DELETED"} BY <1>1, <3>1, <3>2 DEF Own, Noted
      <3>4. holder[x] = r => row[x] \in {"OPEN", "RESOLVED", "DELETED"} BY <1>1 DEF Own, RunHeld
      <3>5. QED BY <1>2, <3>2, <3>3, <3>4 DEF Settled, Kept
    <2>7. RunHeld(q)'
      <3>1. at[q] = "mark" => holder'[Run] = q BY <1>1, <1>2, <2>2 DEF Own, RunHeld
      <3>2. ASSUME holder[Run] = q, NEW x \in ExceptionRows, shown'[x] \in {"OPEN", "RESOLVED"}
            PROVE  holder'[x] = q
        <4>1. holder[x] # r
          <5>1. SUFFICES ASSUME holder[x] = r PROVE FALSE OBVIOUS
          <5>2. x \in Listed(shown) BY <1>1, <1>4, <3>2, <5>1 DEF Own, RunHeld
          <5>3. holder[x] = q BY <1>1, <3>2, <5>2 DEF Own, RunHeld
          <5>4. QED BY <1>4, <5>1, <5>3
        <4>2. Kept(x) BY <1>2, <4>1 DEF Settled
        <4>3. x \in Listed(shown) BY <3>2, <4>2 DEF Kept, Listed
        <4>4. holder[x] = q BY <1>1, <3>2, <4>3 DEF Own, RunHeld
        <4>5. QED BY <4>2, <4>4 DEF Kept
      <3>3. ASSUME holder[Run] = q, NEW x \in ExceptionRows, holder[x] = q
            PROVE  /\ row'[x] \in {"DELETED", "OPEN"}
                   /\ row'[x] = "OPEN" => /\ x[2][1] = q /\ row'[Run] # "BALANCED" /\ at[q] = "commit"
                                         /\ holder'[Feed(x[2][2])] = q
                                         /\ row'[Feed(x[2][2])] # Absent /\ row'[Feed(x[2][2])].status = "EXCEPTION"
        <4>1. row'[x] = row[x] /\ row'[Run] = row[Run] BY <1>2, <2>3, <3>3 DEF Kept
        <4>2. PICK ref \in Ref : ref = x[2][2] BY DEF ExceptionRows, Exception
        <4>3. holder[Feed(ref)] = q => holder'[Feed(ref)] = q /\ row'[Feed(ref)] = row[Feed(ref)]
          BY <1>2, <2>2, <2>3 DEF Kept
        <4>4. QED BY <1>1, <3>3, <4>1, <4>2, <4>3 DEF Own, RunHeld
      <3>4. ASSUME holder[Run] # q, NEW x \in ExceptionRows, holder[x] = q
            PROVE  x \in Listed(shown)' /\ row'[x] = "RESOLVED"
        <4>1. Kept(x) BY <1>2, <2>3, <3>4
        <4>2. x \in Listed(shown) /\ row[x] = "RESOLVED" BY <1>1, <3>4 DEF Own, RunHeld
        <4>3. QED BY <4>1, <4>2 DEF Kept, Listed
      <3>5. ASSUME holder[Run] # q, NEW ref \in Ref, holder[Feed(ref)] = q PROVE shown'[Feed(ref)] = Absent
        <4>1. Kept(Feed(ref)) BY <1>2, <2>3, <3>5
        <4>2. QED BY <1>1, <3>5, <4>1 DEF Own, RunHeld, Kept
      <3>6. \A x \in Listed(shown)' : x \in ExceptionRows /\ shown'[x] \in {"OPEN", "RESOLVED"} BY DEF Listed
      <3>7. holder[Run] = q => at[q] \in {"mark", "commit"} BY <1>1 DEF Own, RunHeld
      <3>8. QED BY <1>2, <2>1, <2>2, <3>1, <3>2, <3>3, <3>4, <3>5, <3>6, <3>7 DEF RunHeld
    <2>8. QED BY <2>4, <2>5, <2>6, <2>7 DEF Own
  <1>5. QED BY <1>3, <1>4

\* What is committed is matched with payments that are committed, and the exceptions of the
\* run that is committed are the ones it lists.
LEMMA PublishedKeeps ==
  ASSUME Inv, FeedInv, NEW r \in Request, Alone(r), Published(r), match' = match, at'[r] \in Ended
  PROVE  FeedInv'
  <1>1. Own(r) /\ r # 0 BY JobsAreGood DEF Inv, IntakeInv, FeedInv
  <1>2. /\ \A ref \in Ref : Feed(ref) \in Row
        /\ \A p \in PaymentId : Payment(p) \in Row
        /\ \A x \in ExceptionRows \cup {Run} : x \in Row
        /\ \A x \in ExceptionRows : x[2][2] \in Ref
    BY ToldApart DEF ExceptionRows, Exception
  <1>3. \A x \in Row : /\ row'[x] = row[x]
                       /\ holder[x] = r => shown'[x] = row[x] /\ holder'[x] = 0
                       /\ holder[x] # r => shown'[x] = shown[x] /\ holder'[x] = holder[x]
    BY DEF Published, Kept
  <1>4. Settled(r) BY DEF Published, Settled
  <1>5. AmountsLast'
    <2>1. \A ref \in Ref : shown'[Feed(ref)] # Absent =>
            row'[Feed(ref)] # Absent /\ row'[Feed(ref)].amount = shown'[Feed(ref)].amount
      BY <1>2, <1>3 DEF FeedInv, AmountsLast
    <2>2. \A p \in PaymentId : shown'[Payment(p)] # Absent => row'[Payment(p)].amount = shown'[Payment(p)].amount
      BY <1>2, <1>3 DEF FeedInv, AmountsLast
    <2>3. QED BY <2>1, <2>2 DEF AmountsLast
  <1>6. ASSUME NEW ref \in Ref PROVE Borne(ref)'
    <2>1. PICK x \in Row : x = Feed(ref) BY <1>2
    <2>2. /\ Matched(shown[x]) => shown[x].payment \in PaymentId
                                  /\ Bears(shown[Payment(shown[x].payment)], ref, shown[x])
          /\ Matched(row[x]) =>
               /\ row[x].payment \in PaymentId
               /\ \/ Bears(shown[Payment(row[x].payment)], ref, row[x])
                  \/ /\ holder[x] # 0 /\ holder[Payment(row[x].payment)] = holder[x]
                     /\ Bears(row[Payment(row[x].payment)], ref, row[x])
      BY <2>1 DEF FeedInv, Borne
    <2>3. ASSUME Matched(row[x])
          PROVE  /\ row[x].payment \in PaymentId
                 /\ \/ Bears(shown'[Payment(row[x].payment)], ref, row[x])
                    \/ /\ holder[x] # r /\ holder[x] # 0 /\ holder'[Payment(row[x].payment)] = holder[x]
                       /\ Bears(row[Payment(row[x].payment)], ref, row[x])
      <3>1. PICK p \in PaymentId : p = row[x].payment BY <2>2, <2>3
      <3>2. CASE Bears(shown[Payment(p)], ref, row[x])
        <4>1. Bears(shown'[Payment(p)], ref, row[x]) BY <1>4, <3>2, BearsOn
        <4>2. QED BY <3>1, <4>1
      <3>3. CASE holder[x] # 0 /\ holder[Payment(p)] = holder[x] /\ Bears(row[Payment(p)], ref, row[x])
        <4>1. Payment(p) \in Row BY <1>2
        <4>2. CASE holder[x] = r
          <5>1. shown'[Payment(p)] = row[Payment(p)] BY <1>3, <3>3, <4>1, <4>2
          <5>2. QED BY <3>1, <3>3, <5>1
        <4>3. CASE holder[x] # r
          <5>1. holder'[Payment(p)] = holder[x] BY <1>3, <3>3, <4>1, <4>3
          <5>2. QED BY <3>1, <3>3, <4>3, <5>1
        <4>4. QED BY <4>2, <4>3
      <3>4. QED BY <2>2, <2>3, <3>1, <3>2, <3>3
    <2>4. Matched(shown'[x]) =>
            shown'[x].payment \in PaymentId /\ Bears(shown'[Payment(shown'[x].payment)], ref, shown'[x])
      <3>1. CASE holder[x] = r
        <4>1. shown'[x] = row[x] BY <1>3, <3>1
        <4>2. QED BY <2>3, <3>1, <4>1
      <3>2. CASE holder[x] # r
        <4>1. shown'[x] = shown[x] BY <1>3, <3>2
        <4>2. QED BY <1>4, <2>2, <4>1, BearsOn
      <3>3. QED BY <3>1, <3>2
    <2>5. Matched(row'[x]) =>
            /\ row'[x].payment \in PaymentId
            /\ \/ Bears(shown'[Payment(row'[x].payment)], ref, row'[x])
               \/ /\ holder'[x] # 0 /\ holder'[Payment(row'[x].payment)] = holder'[x]
                  /\ Bears(row'[Payment(row'[x].payment)], ref, row'[x])
      <3>1. row'[x] = row[x] /\ (holder[x] # r => holder'[x] = holder[x]) BY <1>3
      <3>2. SUFFICES ASSUME Matched(row[x])
                     PROVE  /\ row[x].payment \in PaymentId
                            /\ \/ Bears(shown'[Payment(row[x].payment)], ref, row[x])
                               \/ /\ holder'[x] # 0 /\ holder'[Payment(row[x].payment)] = holder'[x]
                                  /\ Bears(row'[Payment(row[x].payment)], ref, row[x])
        BY <3>1
      <3>3. PICK p \in PaymentId : p = row[x].payment BY <2>2, <3>2
      <3>4. row'[Payment(p)] = row[Payment(p)] BY <1>2, <1>3
      <3>5. QED BY <2>3, <3>1, <3>2, <3>3, <3>4
    <2>6. QED BY <2>1, <2>4, <2>5 DEF Borne, Bears, Matched
  <1>7. \A q \in Request : Own(q)' BY <1>4, SettledOwn
  <1>8. ListedOnce'
    <2>1. \A x \in Listed(shown)' : x \in ExceptionRows /\ shown'[x] \in {"OPEN", "RESOLVED"} BY DEF Listed
    <2>2. CASE holder[Run] = r
      <3>1. ASSUME NEW x \in Listed(shown)'
            PROVE  /\ x[2][1] = r /\ shown'[Run] # "BALANCED"
                   /\ shown'[Feed(x[2][2])] # Absent /\ shown'[Feed(x[2][2])].status = "EXCEPTION"
        <4>1. x \in ExceptionRows /\ x \in Row /\ shown'[x] \in {"OPEN", "RESOLVED"} BY <1>2, <2>1
        <4>2. holder[x] = r
          <5>1. SUFFICES ASSUME holder[x] # r PROVE FALSE OBVIOUS
          <5>2. shown[x] \in {"OPEN", "RESOLVED"} BY <1>3, <4>1, <5>1
          <5>3. x \in Listed(shown) BY <4>1, <5>2 DEF Listed
          <5>4. QED BY <1>1, <2>2, <5>1, <5>3 DEF Own, RunHeld
        <4>3. row[x] = "OPEN"
          <5>1. row[x] \in {"DELETED", "OPEN"} BY <1>1, <2>2, <4>1, <4>2 DEF Own, RunHeld
          <5>2. row[x] \in {"OPEN", "RESOLVED"} BY <1>3, <4>1, <4>2
          <5>3. QED BY <5>1, <5>2
        <4>4. /\ x[2][1] = r /\ row[Run] # "BALANCED" /\ holder[Feed(x[2][2])] = r
              /\ row[Feed(x[2][2])] # Absent /\ row[Feed(x[2][2])].status = "EXCEPTION"
          BY <1>1, <2>2, <4>1, <4>2, <4>3 DEF Own, RunHeld
        <4>5. PICK ref \in Ref : ref = x[2][2] BY <1>2, <4>1
        <4>6. QED BY <1>2, <1>3, <2>2, <4>4, <4>5
      <3>2. ASSUME NEW x \in Listed(shown)', NEW y \in Listed(shown)', x[2][2] = y[2][2] PROVE x = y
        <4>1. x[2][1] = r /\ y[2][1] = r /\ x \in ExceptionRows /\ y \in ExceptionRows BY <2>1, <3>1
        <4>2. QED BY <3>2, <4>1 DEF ExceptionRows, Exception
      <3>3. QED BY <3>1, <3>2 DEF ListedOnce
    <2>3. CASE holder[Run] # r
      <3>1. ASSUME NEW x \in ExceptionRows
            PROVE  shown'[x] \in {"OPEN", "RESOLVED"} <=> shown[x] \in {"OPEN", "RESOLVED"}
        <4>1. CASE holder[x] = r
          <5>1. x \in Listed(shown) /\ row[x] = "RESOLVED" BY <1>1, <2>3, <4>1 DEF Own, RunHeld
          <5>2. shown[x] \in {"OPEN", "RESOLVED"} BY <5>1 DEF Listed
          <5>3. QED BY <1>2, <1>3, <4>1, <5>1, <5>2
        <4>2. CASE holder[x] # r BY <1>2, <1>3, <4>2
        <4>3. QED BY <4>1, <4>2
      <3>2. Listed(shown)' = Listed(shown) BY <3>1 DEF Listed
      <3>3. ASSUME NEW x \in Listed(shown) PROVE shown'[Feed(x[2][2])] = shown[Feed(x[2][2])]
        <4>1. PICK ref \in Ref : ref = x[2][2] BY <1>2, <3>3 DEF Listed
        <4>2. shown[Feed(ref)] # Absent BY <3>3, <4>1 DEF FeedInv, ListedOnce
        <4>3. holder[Feed(ref)] # r BY <1>1, <2>3, <4>2 DEF Own, RunHeld
        <4>4. QED BY <1>2, <1>3, <4>1, <4>3
      <3>4. shown'[Run] = shown[Run] BY <1>2, <1>3, <2>3
      <3>5. QED BY <3>2, <3>3, <3>4 DEF FeedInv, ListedOnce
    <2>4. QED BY <2>2, <2>3
  <1>9. QED BY <1>5, <1>6, <1>7, <1>8 DEF FeedInv

\* What is taken back is as it was committed.
LEMMA TakenKeeps ==
  ASSUME Inv, FeedInv, NEW r \in Request, Alone(r), TakenAway(r), match' = match, at'[r] \in Ended
  PROVE  FeedInv'
  <1>1. r # 0 BY JobsAreGood DEF Inv, IntakeInv
  <1>2. /\ \A ref \in Ref : Feed(ref) \in Row
        /\ \A p \in PaymentId : Payment(p) \in Row
        /\ \A x \in ExceptionRows \cup {Run} : x \in Row
        /\ \A x \in ExceptionRows : x[2][2] \in Ref
    BY ToldApart DEF ExceptionRows, Exception
  <1>3. \A x \in Row : /\ shown'[x] = shown[x]
                       /\ holder[x] = r => row'[x] = shown[x] /\ holder'[x] = 0
                       /\ holder[x] # r => row'[x] = row[x] /\ holder'[x] = holder[x]
    BY DEF TakenAway, Kept
  <1>4. Settled(r) BY <1>3 DEF Settled, Kept
  <1>5. AmountsLast'
    <2>1. \A ref \in Ref : shown'[Feed(ref)] # Absent =>
            row'[Feed(ref)] # Absent /\ row'[Feed(ref)].amount = shown'[Feed(ref)].amount
      BY <1>2, <1>3 DEF FeedInv, AmountsLast
    <2>2. \A p \in PaymentId : shown'[Payment(p)] # Absent => row'[Payment(p)].amount = shown'[Payment(p)].amount
      BY <1>2, <1>3 DEF FeedInv, AmountsLast
    <2>3. QED BY <2>1, <2>2 DEF AmountsLast
  <1>6. ASSUME NEW ref \in Ref PROVE Borne(ref)'
    <2>1. PICK x \in Row : x = Feed(ref) BY <1>2
    <2>2. /\ Matched(shown[x]) => shown[x].payment \in PaymentId
                                  /\ Bears(shown[Payment(shown[x].payment)], ref, shown[x])
          /\ Matched(row[x]) =>
               /\ row[x].payment \in PaymentId
               /\ \/ Bears(shown[Payment(row[x].payment)], ref, row[x])
                  \/ /\ holder[x] # 0 /\ holder[Payment(row[x].payment)] = holder[x]
                     /\ Bears(row[Payment(row[x].payment)], ref, row[x])
      BY <2>1 DEF FeedInv, Borne
    <2>3. \A p \in PaymentId : shown'[Payment(p)] = shown[Payment(p)] BY <1>2, <1>3
    <2>4. Matched(shown'[x]) =>
            shown'[x].payment \in PaymentId /\ Bears(shown'[Payment(shown'[x].payment)], ref, shown'[x])
      BY <1>3, <2>2, <2>3
    <2>5. ASSUME Matched(row'[x])
          PROVE  /\ row'[x].payment \in PaymentId
                 /\ \/ Bears(shown'[Payment(row'[x].payment)], ref, row'[x])
                    \/ /\ holder'[x] # 0 /\ holder'[Payment(row'[x].payment)] = holder'[x]
                       /\ Bears(row'[Payment(row'[x].payment)], ref, row'[x])
      <3>1. CASE holder[x] = r
        <4>1. row'[x] = shown[x] BY <1>3, <3>1
        <4>2. QED BY <2>2, <2>3, <2>5, <4>1
      <3>2. CASE holder[x] # r
        <4>1. row'[x] = row[x] /\ holder'[x] = holder[x] BY <1>3, <3>2
        <4>2. PICK p \in PaymentId : p = row[x].payment BY <2>2, <2>5, <4>1
        <4>3. CASE Bears(shown[Payment(p)], ref, row[x]) BY <2>3, <4>1, <4>2, <4>3
        <4>4. CASE holder[x] # 0 /\ holder[Payment(p)] = holder[x] /\ Bears(row[Payment(p)], ref, row[x])
          <5>1. row'[Payment(p)] = row[Payment(p)] /\ holder'[Payment(p)] = holder[Payment(p)]
            BY <1>2, <1>3, <3>2, <4>4
          <5>2. QED BY <4>1, <4>2, <4>4, <5>1
        <4>5. QED BY <2>2, <2>5, <4>1, <4>2, <4>3, <4>4
      <3>3. QED BY <3>1, <3>2
    <2>6. QED BY <2>1, <2>4, <2>5 DEF Borne, Bears, Matched
  <1>7. \A q \in Request : Own(q)' BY <1>4, SettledOwn
  <1>8. ListedOnce'
    <2>1. Listed(shown)' = Listed(shown) BY <1>2, <1>3 DEF Listed
    <2>2. \A x \in Listed(shown) : shown'[Feed(x[2][2])] = shown[Feed(x[2][2])]
      BY <1>2, <1>3 DEF Listed
    <2>3. shown'[Run] = shown[Run] BY <1>2, <1>3
    <2>4. QED BY <2>1, <2>2, <2>3 DEF FeedInv, ListedOnce
  <1>9. QED BY <1>5, <1>6, <1>7, <1>8 DEF FeedInv

\* A request ends in one of these ways.
LEMMA EndKeeps ==
  ASSUME Inv, FeedInv, NEW r \in Request, Alone(r), match' = match, at'[r] \in Ended,
         Publish(r) \/ Undo(HeldBy(r))
  PROVE  FeedInv'
  <1>1. RowsAre(Row) BY DEF Inv, IntakeInv, Base
  <1>2. CASE Publish(r)
    <2>1. Published(r) BY <1>1, <1>2, PublishDoes DEF Published, Kept
    <2>2. QED BY <2>1, PublishedKeeps
  <1>3. CASE Undo(HeldBy(r))
    <2>1. PICK xs : xs = HeldBy(r) /\ Undo(xs) BY <1>3
    <2>2. \A x \in Row : x \in xs <=> holder[x] = r BY <1>1, <2>1 DEF HeldBy, RowsAre
    <2>3. /\ \A x \in Row : row'[x] = IF x \in xs THEN shown[x] ELSE row[x]
          /\ \A x \in Row : holder'[x] = IF x \in xs THEN 0 ELSE holder[x]
          /\ shown' = shown
      BY <1>1, <2>1, UndoDoes
    <2>4. TakenAway(r) BY <2>2, <2>3 DEF TakenAway, Kept
    <2>5. QED BY <2>4, TakenKeeps
  <1>4. QED BY <1>2, <1>3

\* An error of post_payment, or in its place.
LEMMA FailKeeps ==
  ASSUME Inv, FeedInv, NEW r \in Request, Alone(r), at[r] \in {"touch", "receive", "lock", "post"}, Fail(r)
  PROVE  FeedInv'
  <1>1. Base /\ {"refused", "failed"} \subseteq Ended BY DEF Inv, IntakeInv, Ended
  <1>2. CASE Rollback(r, "refused") \/ Rollback(r, "failed")
    <2>1. PICK step \in {"refused", "failed"} : Rollback(r, step) BY <1>2
    <2>2. Goto(r, step) /\ Undo(HeldBy(r)) BY <2>1 DEF Rollback, Goto
    <2>3. at'[r] \in Ended /\ match' = match BY <1>1, <2>2, GotoLeads
    <2>4. QED BY <2>2, <2>3, EndKeeps
  <1>3. CASE Is(r, "FILE") /\ Goto(r, "break") /\ ReadOnly
    <2>1. Quiet(r) BY <1>1, <1>3, QuietRows
    <2>2. at'[r] = "break" /\ match' = match BY <1>1, <1>3, GotoLeads
    <2>3. QED BY <2>1, <2>2, QuietWork
  <1>4. CASE Is(r, "SYNC") /\ Undo(BillLocked(r)) /\ Goto(r, "record")
    <2>1. \A x \in BillLocked(r) : x[1] = "bill" BY DEF BillLocked, BillLock
    <2>2. Quiet(r) BY <1>1, <1>4, <2>1, QuietRows
    <2>3. at'[r] = "record" /\ match' = match BY <1>1, <1>4, GotoLeads
    <2>4. QED BY <2>2, <2>3, QuietWork
  <1>5. QED BY <1>2, <1>3, <1>4 DEF Fail

\* Whatever a request does, the feed and the run of the day agree.
LEMMA FeedStep ==
  ASSUME Inv, AnswersInv, FeedInv, [Next]_vars
  PROVE  FeedInv'
  <1>1. CASE UNCHANGED vars
    BY <1>1 DEF vars, FeedInv, AmountsLast, Borne, Matched, Bears, Own, Received, Found, Noted, RunHeld,
                ListedOnce, Listed, Of, Current
  <1>2. ASSUME NEW r \in Request, Work(r) \/ Crash(r) PROVE FeedInv'
    <2>1. Base /\ {"done", "failed", "lost"} \subseteq Ended BY DEF Inv, IntakeInv, Ended
    <2>2. Alone(r) BY <1>2, EveryStepDoes DEF AnswersInv, Does
    <2>3. CASE Authenticate(r) \/ Touch(r) \/ CheckFeed(r) \/ Accept(r) \/ LookUpRecord(r) \/ Record(r)
               \/ LockBill(r) \/ Revoke(r)
      BY <2>2, <2>3, QuietNotices
    <2>4. CASE FindPayment(r) \/ HoldPayment(r) \/ ReversePayment(r) BY <2>2, <2>4, QuietPayments
    <2>5. CASE MatchFeed(r) \/ FindException(r) BY <2>2, <2>5, LooksKeep
    <2>6. CASE Receive(r) BY <2>2, <2>6, ReceiveKeeps
    <2>7. CASE PostPayment(r) BY <2>2, <2>7, PostKeeps
    <2>8. CASE OpenRun(r) BY <2>2, <2>8, OpenRunKeeps
    <2>9. CASE Mark(r) BY <2>2, <2>9, MarkKeeps
    <2>10. CASE Resolve(r)
      <3>1. CASE shown[on[r]] # "DELETED" BY <2>2, <2>10, <3>1, ResolveKeeps
      <3>2. CASE shown[on[r]] = "DELETED"
        <4>1. Goto(r, "failed") /\ Undo(HeldBy(r)) BY <2>10, <3>2 DEF Resolve, Rollback, Goto
        <4>2. at'[r] \in Ended /\ match' = match BY <2>1, <4>1, GotoLeads
        <4>3. QED BY <2>2, <4>1, <4>2, EndKeeps
      <3>3. QED BY <3>1, <3>2
    <2>11. CASE Commit(r)
      <3>1. PICK step \in {"done", "failed"} : Goto(r, step) /\ Publish(r) BY <2>11 DEF Commit
      <3>2. at'[r] \in Ended /\ match' = match BY <2>1, <3>1, GotoLeads
      <3>3. QED BY <2>2, <3>1, <3>2, EndKeeps
    <2>12. CASE Crash(r)
      <3>1. Goto(r, "lost") /\ Undo(HeldBy(r)) BY <2>12 DEF Crash, Rollback, Goto
      <3>2. at'[r] \in Ended /\ match' = match BY <2>1, <3>1, GotoLeads
      <3>3. QED BY <2>2, <3>1, <3>2, EndKeeps
    <2>13. CASE RefuseRef(r) BY <2>2, <2>13, FailKeeps DEF RefuseRef
    <2>14. CASE Abort(r)
      <3>1. Wants(r) # {} BY <2>14 DEF Abort, DeadlockVictim, InWaitCycle
      <3>2. at[r] \in {"touch", "revoke", "receive", "lock", "post", "record", "hold", "note", "run", "mark"}
        BY <3>1 DEF Wants
      <3>3. CASE at[r] = "record"
        <4>1. Goto(r, "break") /\ ReadOnly BY <2>14, <3>3 DEF Abort
        <4>2. Quiet(r) BY <2>1, <4>1, QuietRows
        <4>3. at'[r] = "break" /\ match' = match BY <2>1, <4>1, GotoLeads
        <4>4. QED BY <2>2, <3>3, <4>2, <4>3, QuietWork
      <3>4. CASE at[r] # "record"
        <4>1. Fail(r) BY <2>14, <3>4 DEF Abort
        <4>2. job[r].kind \in {"MANUAL", "WEBHOOK", "FILE", "SYNC"} BY <4>1 DEF Fail, Is
        <4>3. at[r] \in {"touch", "receive", "lock", "post"} BY <2>1, <3>2, <3>4, <4>2, KindAt
        <4>4. QED BY <2>2, <4>1, <4>3, FailKeeps
      <3>5. QED BY <3>3, <3>4
    <2>15. QED BY <1>2, <2>3, <2>4, <2>5, <2>6, <2>7, <2>8, <2>9, <2>10, <2>11, <2>12, <2>13, <2>14 DEF Work
  <1>3. QED BY <1>1, <1>2 DEF Next, AllEnded

\* Before the first request the feed is empty and there is no run.
LEMMA FeedInit ==
  ASSUME Init
  PROVE  FeedInv
  <1>1. /\ shown = row /\ \A x \in Row : holder[x] = 0
        /\ \A r \in Request : at[r] = Start[job[r].kind] /\ job[r].kind \in Kinds
    BY IntakeConstants DEF Init
  <1>2. /\ \A ref \in Ref : Feed(ref) \in Row /\ row[Feed(ref)] = Absent
        /\ \A p \in PaymentId : Payment(p) \in Row /\ row[Payment(p)] = Absent
        /\ \A x \in ExceptionRows : x \in Row /\ row[x] = Absent
        /\ Run \in Row
    BY ToldApart DEF Init
  <1>3. AmountsLast /\ \A ref \in Ref : Borne(ref) BY <1>1, <1>2 DEF AmountsLast, Borne, Matched
  <1>4. ASSUME NEW r \in Request PROVE Own(r)
    <2>1. at[r] \notin {"lock", "post", "run", "mark", "note"} BY <1>1 DEF Start, Kinds
    <2>2. r # 0 BY DEF Request
    <2>3. RunHeld(r) BY <1>1, <1>2, <2>1, <2>2 DEF RunHeld
    <2>4. QED BY <2>1, <2>3 DEF Own, Received, Found, Noted
  <1>5. Listed(shown) = {} BY <1>1, <1>2, AbsentIsNoRow DEF Listed
  <1>6. ListedOnce BY <1>5 DEF ListedOnce
  <1>7. QED BY <1>3, <1>4, <1>6 DEF FeedInv

\* The feed, the run of the day and the payments that match agree in every reachable state.
THEOREM FeedInvariance == Spec => [](Inv /\ AnswersInv /\ FeedInv)
  <1>1. Init => FeedInv BY FeedInit
  <1>2. Inv /\ AnswersInv /\ FeedInv /\ [Next]_vars => FeedInv' BY FeedStep
  <1>3. QED BY <1>1, <1>2, AnswersInvariance, PTL DEF Spec

\* However webhooks, files, reconciliations and resolutions overlap, a feed row that is
\* MATCHED names a payment of its own reference and amount, and the run of the day lists each
\* feed row once, only rows marked EXCEPTION, and none when it is BALANCED
\* (run_reconciliation, resolve_exception, OTCSettlementView, WebhookView).
THEOREM FeedReconciled == Spec => []FeedIsReconciled
  <1>1. FeedInv => FeedIsReconciled
    <2>1. SUFFICES ASSUME FeedInv PROVE FeedIsReconciled OBVIOUS
    <2>2. ASSUME NEW ref \in Ref, shown[Feed(ref)] # Absent, shown[Feed(ref)].status = "MATCHED"
          PROVE  LET y == shown[Payment(shown[Feed(ref)].payment)]
                 IN y # Absent /\ y.ref = ref /\ y.amount = shown[Feed(ref)].amount
      BY <2>1, <2>2 DEF FeedInv, Borne, Matched, Bears
    <2>3. ListedOnce BY <2>1 DEF FeedInv
    <2>4. QED BY <2>2, <2>3 DEF FeedIsReconciled, ListedOnce
  <1>2. QED BY <1>1, FeedInvariance, PTL
=============================================================================
