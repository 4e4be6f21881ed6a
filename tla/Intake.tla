------------------------------- MODULE Intake --------------------------------
(***************************************************************************)
(* How money gets in: bank webhooks, end-of-day settlement files, payments *)
(* typed in by hand and payments replayed from an agent's phone, all on    *)
(* one bank channel of one council and one day, beside reversals, the      *)
(* reconciliation of that day, the resolving of its exceptions and the     *)
(* revocation of an API client.  Requests overlap, are retried, and may be *)
(* lost with their worker.                                                 *)
(*                                                                         *)
(* Module Requests says what a request is.  What a payment does to its     *)
(* bill is module BillLedger; here a bill is a lock, and whether it takes  *)
(* payments.                                                               *)
(*                                                                         *)
(* A view's unhandled error becomes a response inside the transaction, so  *)
(* what the request did before it is committed: all of a settlement file   *)
(* up to the failing row.  The webhook runs inside the savepoint of        *)
(* council_context and undoes everything.                                  *)
(***************************************************************************)
EXTENDS Sequences, FiniteSets, Requests

CONSTANTS
  MaxRows,    \* rows of a settlement file, records of a sync batch
  Ref, NoRef, \* bank transaction references
  Id, NoId,   \* client ids of the phone's queue
  Bill,       \* bill references
  BillState,  \* whether a bill takes payments
  Client,     \* API clients of the channel
  Amount,
  Workloads   \* the jobs the requests may have

PaymentId == Request \X (1..MaxRows)
NoPayment == <<0, 0>>

\* One payment as the outside world tells of it.
Notice ==
  [ref : Ref \cup {NoRef}, id : Id \cup {NoId}, bill : Bill, amount : Amount,
   client : Client, valid : BOOLEAN]
Kinds == {"WEBHOOK", "FILE", "MANUAL", "SYNC", "REVERSE", "RECONCILE", "RESOLVE", "REVOKE"}

ASSUME IntakeConstants ==
  /\ N \in Nat /\ MaxRows \in Nat \ {0} /\ Amount \subseteq Nat
  /\ NoRef \notin Ref /\ NoId \notin Id
  /\ BillState \in [Bill -> {"OPEN", "TERMINAL", "MISSING"}]
  /\ \A w \in Workloads : \A r \in Request :
       /\ w[r].kind \in Kinds
       /\ w[r].notices \in Seq(Notice) /\ Len(w[r].notices) \in 1..MaxRows
       /\ w[r].kind \notin {"FILE", "SYNC"} => Len(w[r].notices) = 1
       \* adapters.validate and SyncRecordInputSerializer
       /\ w[r].kind \in {"WEBHOOK", "FILE"} => \A i \in DOMAIN w[r].notices : w[r].notices[i].ref # NoRef
       /\ w[r].kind = "SYNC" => \A i \in DOMAIN w[r].notices : w[r].notices[i].id # NoId

Feed(ref) == <<"feed", ref>>
Payment(p) == <<"payment", p>>
Sync(id) == <<"sync", id>>
BillLock(b) == <<"bill", b>>
ApiClient(c) == <<"client", c>>
Exception(r, ref) == <<"exception", <<r, ref>>>>
Run == <<"run", 0>>

FeedRows == {Feed(ref) : ref \in Ref}
ExceptionRows == {Exception(r, ref) : r \in Request, ref \in Ref}
Row == FeedRows \cup ExceptionRows \cup {Run}
         \cup {Payment(p) : p \in PaymentId} \cup {Sync(id) : id \in Id}
         \cup {BillLock(b) : b \in Bill} \cup {ApiClient(c) : c \in Client}

NoRow == <<"none", 0>>

VARIABLES
  job,     \* Request -> its kind and notices, fixed
  answer,  \* Request -> outcome of each notice it has dealt with
  on,      \* Request -> the row it loaded first, of a REVERSE or RESOLVE job
  match    \* Request -> Ref -> the payment its matching pass found

vars == <<job, at, answer, on, match, row, shown, holder>>

Steps == {"authenticate", "touch", "check", "receive", "accept", "known", "lock", "post",
          "record", "find", "hold", "undo", "match", "run", "mark", "note", "revoke",
          "commit", "break"} \cup Ended
Start ==
  [WEBHOOK |-> "authenticate", FILE |-> "receive", MANUAL |-> "accept", SYNC |-> "known",
   REVERSE |-> "find", RECONCILE |-> "match", RESOLVE |-> "find", REVOKE |-> "revoke"]
Outcomes == {"posted", "duplicate", "unmatched", "invalid", "ACCEPTED", "REJECTED",
             "reversed", "reconciled", "resolved", "revoked"}

FeedRow == [amount : Amount, status : {"UNMATCHED", "MATCHED", "EXCEPTION"},
            payment : PaymentId \cup {NoPayment}]
PaymentRow == [status : {"CONFIRMED", "REVERSED"}, ref : Ref \cup {NoRef}, amount : Amount,
               bill : Bill, id : Id \cup {NoId}]

\* A row that does not exist is no version of one.
ASSUME AbsentIsNoRow == Absent \notin PaymentRow \cup FeedRow \cup Outcomes \cup {"OPEN", "RESOLVED"}

RowsOK(v) ==
  /\ \A x \in FeedRows : v[x] \in FeedRow \cup {Absent}
  /\ \A p \in PaymentId : v[Payment(p)] \in PaymentRow \cup {Absent}
  /\ \A id \in Id : v[Sync(id)] \in {Absent, "ACCEPTED", "REJECTED"}
  /\ \A c \in Client : v[ApiClient(c)] \in {"ACTIVE", "REVOKED"}
  /\ \A x \in ExceptionRows : v[x] \in {Absent, "OPEN", "RESOLVED", "DELETED"}
  /\ v[Run] \in {Absent, "OPEN", "BALANCED", "EXCEPTIONS"}

TypeOK ==
  /\ job \in Workloads
  /\ at \in [Request -> Steps]
  /\ \A r \in Request : Len(answer[r]) <= MaxRows /\ \A i \in DOMAIN answer[r] :
       answer[r][i] \in Outcomes
  /\ on \in [Request -> Row \cup {NoRow}]
  /\ match \in [Request -> [Ref -> PaymentId \cup {NoPayment}]]
  /\ RowsOK(row) /\ RowsOK(shown) /\ shown[Run] # "OPEN"
  /\ holder \in [Row -> 0..N]

-----------------------------------------------------------------------------
(* Rows and locks. *)

\* The notice a request is dealing with.
Current(r) == Len(answer[r]) + 1
Of(r) == job[r].notices[Current(r)]
Is(r, kind) == job[r].kind = kind

\* Defect: a payment that was reversed no longer counts.
SameConfirmedRef(y, ref) == y # Absent /\ y.ref = ref /\ ref # NoRef /\ y.status = "CONFIRMED"

\* Payments in the way of one more with this bank reference, which is unique on
\* its channel whatever has become of the payment.
SameRef(y, ref) == y # Absent /\ y.ref = ref /\ ref # NoRef

RefUsed(r, ref) == \E p \in PaymentId : SameRef(Sees(r, Payment(p)), ref)
RefPending(ref) == {Payment(p) : p \in {q \in PaymentId :
                      shown[Payment(q)] = Absent /\ SameRef(row[Payment(q)], ref)}}

\* The exceptions of the day's run.
Listed(v) == {x \in ExceptionRows : v[x] \in {"OPEN", "RESOLVED"}}

\* Defect: two runs of one day do not wait for each other.
ListedRows == Listed(shown)
RunRows == {Run} \cup Listed(shown)

BillOf(r) == IF Is(r, "REVERSE") THEN shown[on[r]].bill ELSE Of(r).bill

\* The rows a request needs for its next step.
Wants(r) ==
  CASE at[r] \in {"touch", "revoke"} -> {ApiClient(Of(r).client)}
    [] at[r] = "receive" /\ Of(r).valid /\ Sees(r, Feed(Of(r).ref)) = Absent -> {Feed(Of(r).ref)}
    [] at[r] = "lock"    -> {BillLock(BillOf(r))}
    [] at[r] = "post"    -> RefPending(Of(r).ref)
    [] at[r] = "record"  -> {Sync(Of(r).id)}
    [] at[r] \in {"hold", "note"} -> {on[r]}
    [] at[r] = "run"     -> RunRows
    [] at[r] = "mark"    -> FeedRows
    [] OTHER             -> {}

Ready(r) == Free(r, Wants(r))
Stay == UNCHANGED <<job, answer, on, match>>
Rollback(r, step) == Undo(HeldBy(r)) /\ Go(r, step) /\ Stay

\* The outcome of a notice; then the next one, or the end.
Answer(r, outcome) ==
  /\ answer' = [answer EXCEPT ![r] = Append(@, outcome)]
  /\ at' = [at EXCEPT ![r] = IF Current(r) < Len(job[r].notices) THEN Start[job[r].kind]
                             ELSE "commit"]
  /\ UNCHANGED <<job, on, match>>

Goto(r, step) == Go(r, step) /\ Stay

-----------------------------------------------------------------------------
(* WebhookView and OTCSettlementView. *)

\* The signature is checked against the clients whose key is active ...
Authenticate(r) ==
  /\ at[r] = "authenticate"
  /\ Goto(r, IF Of(r).valid /\ shown[ApiClient(Of(r).client)] = "ACTIVE" THEN "touch" ELSE "refused")
  /\ ReadOnly

\* ... and last_used_at of the one that fits is updated: webhooks of one client queue here.
Touch(r) ==
  /\ at[r] = "touch"
  /\ Lock(r, ApiClient(Of(r).client))
  /\ Goto(r, "check")

\* Defect: the feed is searched for what is not committed either.
SeenBefore(r) == row[Feed(Of(r).ref)] # Absent

ReceivedBefore(r) == There(r, Feed(Of(r).ref))

CheckFeed(r) ==
  /\ at[r] = "check"
  /\ IF ReceivedBefore(r) THEN Answer(r, "duplicate") ELSE Goto(r, "receive")
  /\ ReadOnly

FeedEntry(r, status, p) == [amount |-> Of(r).amount, status |-> status, payment |-> p]

\* get_or_create of the feed row: it waits for a row of this reference in the making.
Receive(r) ==
  /\ at[r] = "receive"
  /\ \/ ~Of(r).valid /\ Answer(r, "invalid") /\ ReadOnly
     \/ Of(r).valid /\ ReceivedBefore(r) /\ Answer(r, "duplicate") /\ ReadOnly
     \/ /\ Of(r).valid /\ ~ReceivedBefore(r) /\ BillState[Of(r).bill] = "OPEN"
        /\ Put(r, Feed(Of(r).ref), FeedEntry(r, "UNMATCHED", NoPayment)) /\ Goto(r, "lock")
     \/ /\ Of(r).valid /\ ~ReceivedBefore(r) /\ BillState[Of(r).bill] # "OPEN"
        /\ Put(r, Feed(Of(r).ref), FeedEntry(r, "EXCEPTION", NoPayment)) /\ Answer(r, "unmatched")

-----------------------------------------------------------------------------
(* POST /payments and replay_sync_record. *)

Accept(r) ==
  /\ at[r] = "accept"
  /\ Goto(r, IF Of(r).valid /\ BillState[Of(r).bill] = "OPEN" THEN "lock" ELSE "refused")
  /\ ReadOnly

\* A record already dealt with is not replayed.
LookUpRecord(r) ==
  /\ at[r] = "known"
  /\ IF There(r, Sync(Of(r).id)) THEN Answer(r, Sees(r, Sync(Of(r).id)))
     ELSE Goto(r, IF Of(r).valid /\ BillState[Of(r).bill] = "OPEN" THEN "lock" ELSE "record")
  /\ ReadOnly

Mine(r) == Payment(<<r, Current(r)>>)

\* The bill locked for the current notice, unless an earlier one paid it.
BillLocked(r) ==
  (HeldBy(r) \cap {BillLock(Of(r).bill)}) \ {BillLock(row[Payment(<<r, i>>)].bill) :
     i \in {j \in 1..Len(answer[r]) : row[Payment(<<r, j>>)] # Absent}}

\* The record with its outcome; another request may have recorded its own meanwhile.
Record(r) ==
  /\ at[r] = "record"
  /\ LET x == Sync(Of(r).id)
         outcome == IF row[Mine(r)] # Absent THEN "ACCEPTED" ELSE "REJECTED"
     IN IF shown[x] # Absent THEN Answer(r, shown[x]) /\ ReadOnly
        ELSE Put(r, x, outcome) /\ Answer(r, outcome)

-----------------------------------------------------------------------------
(* post_payment and reverse_payment. *)

LockBill(r) ==
  /\ at[r] = "lock"
  /\ Lock(r, BillLock(BillOf(r)))
  /\ Goto(r, IF Is(r, "REVERSE") THEN "undo" ELSE "post")

Paid(r) ==
  [status |-> "CONFIRMED", ref |-> Of(r).ref, amount |-> Of(r).amount,
   bill |-> Of(r).bill, id |-> Of(r).id]

\* The payment is inserted unless its bank reference is taken.
PostPayment(r) ==
  /\ at[r] = "post" /\ Ready(r) /\ ~RefUsed(r, Of(r).ref)
  /\ \/ /\ job[r].kind \in {"WEBHOOK", "FILE"}
        /\ Write(r, [x \in {Mine(r), Feed(Of(r).ref)} |->
                       IF x = Mine(r) THEN Paid(r) ELSE FeedEntry(r, "MATCHED", <<r, Current(r)>>)])
        /\ Answer(r, "posted")
     \/ Is(r, "MANUAL") /\ Put(r, Mine(r), Paid(r)) /\ Answer(r, "posted")
     \/ Is(r, "SYNC") /\ Put(r, Mine(r), Paid(r)) /\ Goto(r, "record")

\* An error of post_payment: 409, or a REJECTED record, or a 500 after which the
\* webhook leaves nothing and the settlement file what it had done.
Fail(r) ==
  \/ Is(r, "MANUAL") /\ Rollback(r, "refused")
  \/ Is(r, "WEBHOOK") /\ Rollback(r, "failed")
  \/ Is(r, "FILE") /\ Goto(r, "break") /\ ReadOnly
  \/ Is(r, "SYNC") /\ Undo(BillLocked(r)) /\ Goto(r, "record")

RefuseRef(r) == at[r] = "post" /\ RefUsed(r, Of(r).ref) /\ Fail(r)

FindPayment(r) ==
  /\ Is(r, "REVERSE") /\ at[r] = "find"
  /\ \/ \E p \in PaymentId :
          /\ SameRef(shown[Payment(p)], Of(r).ref) /\ shown[Payment(p)].status = "CONFIRMED"
          /\ on' = [on EXCEPT ![r] = Payment(p)]
          /\ Go(r, "hold")
     \/ /\ \A p \in PaymentId : SameRef(shown[Payment(p)], Of(r).ref) =>
             shown[Payment(p)].status # "CONFIRMED"
        /\ Go(r, "refused") /\ UNCHANGED on
  /\ ReadOnly /\ UNCHANGED <<job, answer, match>>

HoldPayment(r) == at[r] = "hold" /\ Lock(r, on[r]) /\ Goto(r, "lock")

ReversePayment(r) ==
  /\ at[r] = "undo"
  /\ Put(r, on[r], [row[on[r]] EXCEPT !.status = "REVERSED"])
  /\ Answer(r, "reversed")

-----------------------------------------------------------------------------
(* run_reconciliation, resolve_exception and the revocation of a client. *)

\* Defect: the amounts are not compared.
MatchesRef(y, x) == y.status = "CONFIRMED" /\ SameRef(y, x[2])

Matches(y, x) == y.status = "CONFIRMED" /\ SameRef(y, x[2]) /\ y.amount = shown[x].amount

\* The payment of each feed row there is, read before the run is touched.
MatchFeed(r) ==
  /\ at[r] = "match"
  /\ match' = [match EXCEPT ![r] = [ref \in Ref |->
       LET fit == {p \in PaymentId : /\ shown[Feed(ref)] # Absent /\ shown[Payment(p)] # Absent
                                     /\ Matches(shown[Payment(p)], Feed(ref))}
       IN IF fit = {} THEN NoPayment ELSE CHOOSE p \in fit : TRUE]]
  /\ Go(r, "run")
  /\ ReadOnly /\ UNCHANGED <<job, answer, on>>

\* update_or_create of the run, and exceptions.all().delete().
OpenRun(r) ==
  /\ at[r] = "run"
  /\ Write(r, [x \in RunRows |-> IF x = Run THEN "OPEN" ELSE "DELETED"])
  /\ Goto(r, "mark")

RunStatus(lone) == IF lone = {} THEN "BALANCED" ELSE "EXCEPTIONS"

\* The feed is read again; a row without a match becomes an exception.
Mark(r) ==
  LET there == {ref \in Ref : shown[Feed(ref)] # Absent}
      lone == {ref \in there : match[r][ref] = NoPayment}
  IN /\ at[r] = "mark"
     /\ Write(r, [x \in {Feed(ref) : ref \in there} \cup {Exception(r, ref) : ref \in lone} \cup {Run} |->
                    CASE x = Run            -> RunStatus(lone)
                      [] x[1] = "exception" -> "OPEN"
                      [] x[1] = "feed" /\ x[2] \in lone -> [shown[x] EXCEPT !.status = "EXCEPTION"]
                      [] OTHER -> [shown[x] EXCEPT !.status = "MATCHED", !.payment = match[r][x[2]]]])
     /\ Answer(r, "reconciled")

FindException(r) ==
  /\ Is(r, "RESOLVE") /\ at[r] = "find"
  /\ \/ \E x \in Listed(shown) :
          x[2][2] = Of(r).ref /\ on' = [on EXCEPT ![r] = x] /\ Go(r, "note")
     \/ /\ \A x \in Listed(shown) : x[2][2] # Of(r).ref
        /\ Go(r, "refused") /\ UNCHANGED on
  /\ ReadOnly /\ UNCHANGED <<job, answer, match>>

\* An UPDATE that meets no row is an error.
Resolve(r) ==
  /\ at[r] = "note" /\ Ready(r)
  /\ IF shown[on[r]] = "DELETED" THEN Rollback(r, "failed")
     ELSE Put(r, on[r], "RESOLVED") /\ Answer(r, "resolved")

Revoke(r) ==
  /\ at[r] = "revoke"
  /\ Put(r, ApiClient(Of(r).client), "REVOKED")
  /\ Answer(r, "revoked")

-----------------------------------------------------------------------------
(* The end of a request. *)

Commit(r) ==
  /\ at[r] \in {"commit", "break"}
  /\ Publish(r)
  /\ Goto(r, IF at[r] = "commit" THEN "done" ELSE "failed")

\* PostgreSQL's deadlock detector fails one of the requests that wait in a circle.
DeadlockVictim(r) == InWaitCycle(r, [q \in Request |-> Wants(q)])

\* The insert of a sync record has a savepoint of its own: the payment made for it stays.
Abort(r) ==
  /\ DeadlockVictim(r)
  /\ IF at[r] = "record" THEN Goto(r, "break") /\ ReadOnly ELSE Fail(r)

\* The worker dies, or the connection of the database.
Crash(r) == at[r] \notin Ended /\ Rollback(r, "lost")

Init ==
  /\ job \in Workloads
  /\ at = [r \in Request |-> Start[job[r].kind]]
  /\ answer = [r \in Request |-> <<>>]
  /\ on = [r \in Request |-> NoRow]
  /\ match = [r \in Request |-> [ref \in Ref |-> NoPayment]]
  /\ row = [x \in Row |-> CASE x[1] = "client" -> "ACTIVE"
                            [] x[1] = "bill" -> "HELD"
                            [] OTHER -> Absent]
  /\ shown = row
  /\ holder = [x \in Row |-> 0]

Work(r) ==
  \/ Authenticate(r) \/ Touch(r) \/ CheckFeed(r) \/ Receive(r)
  \/ Accept(r) \/ LookUpRecord(r) \/ Record(r)
  \/ LockBill(r) \/ PostPayment(r) \/ RefuseRef(r)
  \/ FindPayment(r) \/ HoldPayment(r) \/ ReversePayment(r)
  \/ MatchFeed(r) \/ OpenRun(r) \/ Mark(r)
  \/ FindException(r) \/ Resolve(r) \/ Revoke(r)
  \/ Commit(r) \/ Abort(r)

AllEnded == (\A r \in Request : at[r] \in Ended) /\ UNCHANGED vars

Next == (\E r \in Request : Work(r) \/ Crash(r)) \/ AllEnded

Spec == Init /\ [][Next]_vars

-----------------------------------------------------------------------------
(* Properties of what is committed. *)

Committed(p) == shown[Payment(p)] # Absent

\* However a bank reference arrives, by webhook, file, hand or phone, once or many
\* times, it is paid once (UNIQUE on channel and bank_txn_ref).
BankReferencePaysOnce ==
  \A p, q \in PaymentId :
    /\ Committed(p) /\ Committed(q)
    /\ shown[Payment(p)].ref = shown[Payment(q)].ref /\ shown[Payment(p)].ref # NoRef
    => p = q

\* What a request was told is so: a posted payment and an accepted record are
\* committed, a duplicate really is in the feed.
AnswerIsTrue ==
  \A r \in Request : at[r] = "done" => \A i \in DOMAIN answer[r] :
    LET n == job[r].notices[i]
    IN CASE answer[r][i] = "posted"    -> Committed(<<r, i>>)
         [] answer[r][i] = "duplicate" -> shown[Feed(n.ref)] # Absent
         [] answer[r][i] = "ACCEPTED"  ->
              shown[Sync(n.id)] = "ACCEPTED" /\ \E p \in PaymentId : Committed(p) /\ shown[Payment(p)].id = n.id
         [] OTHER -> TRUE

\* A feed row that is MATCHED names a payment of its own reference and amount, whether its
\* webhook or a reconciliation matched it; and however often and however close together a
\* day is reconciled, its run lists each feed row at most once, only rows marked EXCEPTION,
\* and is BALANCED when it lists none (run_reconciliation: exceptions are recomputed from
\* scratch each time).
FeedIsReconciled ==
  /\ \A ref \in Ref : shown[Feed(ref)] # Absent /\ shown[Feed(ref)].status = "MATCHED" =>
       LET y == shown[Payment(shown[Feed(ref)].payment)]
       IN y # Absent /\ y.ref = ref /\ y.amount = shown[Feed(ref)].amount
  /\ \A x, y \in Listed(shown) : x[2][2] = y[2][2] => x = y
  /\ \A x \in Listed(shown) : shown[Feed(x[2][2])].status = "EXCEPTION"
  /\ shown[Run] = "BALANCED" => Listed(shown) = {}

\* A record replayed twice takes the money once: the loser of a race on one client_id
\* undoes its side effects (replay_sync_record docstring).
ClientIdPaysOnce ==
  \A p, q \in PaymentId :
    /\ Committed(p) /\ Committed(q)
    /\ shown[Payment(p)].id = shown[Payment(q)].id /\ shown[Payment(p)].id # NoId
    => p = q
=============================================================================
