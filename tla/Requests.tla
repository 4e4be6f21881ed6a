------------------------------ MODULE Requests -------------------------------
(***************************************************************************)
(* What the modules of overlapping requests share.  Each request is one    *)
(* transaction from its first read to its commit                           *)
(* (CouncilContextMiddleware) under PostgreSQL READ COMMITTED.  shown      *)
(* holds the committed version of every row and row the newest one; a row  *)
(* that a request has updated, locked or inserted is held by it to its     *)
(* end.  An insert that meets another request's uncommitted row of the     *)
(* same key waits for that request.                                        *)
(***************************************************************************)
EXTENDS Integers

CONSTANTS
  N,      \* requests 1..N
  Absent  \* stands for a row that does not exist

VARIABLES
  at,     \* Request -> the step it is at
  row,    \* row -> newest version
  shown,  \* row -> committed version
  holder  \* row -> the request that holds it, 0 if none

Request == 1..N
rows == <<row, shown, holder>>
Ended == {"done", "refused", "failed", "lost"}

\* The version of a row that a request reads: its own or the committed one.
Sees(r, x) == IF holder[x] = r THEN row[x] ELSE shown[x]
There(r, x) == Sees(r, x) # Absent

HeldBy(r) == {x \in DOMAIN row : holder[x] = r}

\* Nobody else holds one of the rows xs.
Free(r, xs) == \A x \in xs : holder[x] \in {0, r}

\* UPDATE, SELECT FOR UPDATE or INSERT of the rows of the function new.
Write(r, new) ==
  /\ Free(r, DOMAIN new)
  /\ row' = [x \in DOMAIN row |-> IF x \in DOMAIN new THEN new[x] ELSE row[x]]
  /\ holder' = [x \in DOMAIN holder |-> IF x \in DOMAIN new THEN r ELSE holder[x]]
  /\ UNCHANGED shown

\* The same of one row.
Put(r, x, version) ==
  /\ Free(r, {x})
  /\ row' = [row EXCEPT ![x] = version]
  /\ holder' = [holder EXCEPT ![x] = r]
  /\ UNCHANGED shown

\* SELECT FOR UPDATE, or an UPDATE of columns that are left out.
Lock(r, x) == Put(r, x, row[x])

\* ROLLBACK of the rows xs.
Undo(xs) ==
  /\ row' = [x \in DOMAIN row |-> IF x \in xs THEN shown[x] ELSE row[x]]
  /\ holder' = [x \in DOMAIN holder |-> IF x \in xs THEN 0 ELSE holder[x]]
  /\ UNCHANGED shown

Publish(r) ==
  /\ shown' = [x \in DOMAIN shown |-> IF holder[x] = r THEN row[x] ELSE shown[x]]
  /\ holder' = [x \in DOMAIN holder |-> IF holder[x] = r THEN 0 ELSE holder[x]]
  /\ UNCHANGED row

ReadOnly == UNCHANGED rows

Go(r, step) == at' = [at EXCEPT ![r] = step]

\* r waits for itself, directly or through others, when wants tells which rows each
\* request waits for: r lies in every set that holds whom it waits for and, with a
\* request, whom that one waits for.
InWaitCycle(r, wants) ==
  LET WaitsFor(p, q) == p # q /\ \E x \in wants[p] : holder[x] = q
  IN /\ \E q \in Request : WaitsFor(r, q)
     /\ \A S \in SUBSET Request :
          (\A p \in S \cup {r}, q \in Request : WaitsFor(p, q) => q \in S) => r \in S

-----------------------------------------------------------------------------
(* What holds of any set R of rows. *)

\* The rows are those of R.
RowsAre(R) == DOMAIN row = R /\ DOMAIN shown = R /\ DOMAIN holder = R

\* A row that nobody holds is as committed.
LocksHold(R) == \A x \in R : holder[x] = 0 => row[x] = shown[x]
=============================================================================
