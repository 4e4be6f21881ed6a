------------------------------ MODULE ReadCache ------------------------------
(***************************************************************************)
(* The cached read models, the dashboard summary and the catalogue list:   *)
(* version tokens and payloads in the cache of each worker process         *)
(* (apps/common/cachekeys.py), the signals that replace a token when a row *)
(* is saved (apps/common/signals.py), and browsers that keep a payload     *)
(* under its ETag (CouncilRevenueItemViewSet.list).                        *)
(*                                                                         *)
(* One namespace of one council and one visibility scope.  A payload is    *)
(* the set of edits it shows.  Requests of one worker run in threads, and  *)
(* a save is seen by others only once its request commits.                 *)
(***************************************************************************)
EXTENDS Integers

CONSTANTS
  Worker,     \* processes, each with a cache of its own
  Browser, NoBrowser,
  Request,
  Workloads,  \* the jobs the requests may have
  Ttl,        \* life of a token and of a payload
  MaxNow,     \* bound of the clock
  MaxTokens   \* bound on tokens ever minted

Kinds == {"LIST", "EDIT", "BULK"}

ASSUME ReadCacheConstants ==
  /\ Ttl \in Nat \ {0} /\ MaxNow \in Nat /\ MaxTokens \in Nat /\ NoBrowser \notin Browser
  /\ \A w \in Workloads : \A r \in Request :
       w[r].kind \in Kinds /\ w[r].worker \in Worker /\ w[r].browser \in Browser \cup {NoBrowser}

VARIABLES
  job,      \* Request -> what it does, where, and for which browser; fixed
  at,       \* Request -> the step it is at
  now,
  minted,   \* tokens minted so far
  token,    \* Worker -> its current token, until when; id 0 when there is none
  entry,    \* Worker -> token id -> the payload stored under it, until when
  held,     \* Browser -> the ETag and payload it keeps
  tag, key, \* Request -> the tokens of its ETag and of its cache key
  value,    \* Request -> the payload it computed or answers
  began,    \* Request -> when it was first heard of
  saved     \* Request -> when its edit committed; Never if it has not

vars == <<job, at, now, minted, token, entry, held, tag, key, value, began, saved>>

Token == 0..MaxTokens
Edits == {r \in Request : job[r].kind # "LIST"}
Payload == SUBSET Request
Nothing == [data |-> {}, until |-> 0]
Never == -1

Steps == {"start", "key", "get", "compute", "store", "commit", "done", "lost"}

TypeOK ==
  /\ job \in Workloads
  /\ at \in [Request -> Steps]
  /\ now \in 0..MaxNow /\ minted \in Token
  /\ token \in [Worker -> [id : Token, until : 0..(MaxNow + Ttl)]]
  /\ entry \in [Worker -> [Token -> [data : Payload, until : 0..(MaxNow + Ttl)]]]
  /\ held \in [Browser -> [tag : Token, data : Payload]]
  /\ tag \in [Request -> Token] /\ key \in [Request -> Token]
  /\ value \in [Request -> Payload]
  /\ began \in [Request -> 0..MaxNow] /\ saved \in [Request -> Never..MaxNow]

-----------------------------------------------------------------------------
(* version_token, bump and cached. *)

W(r) == job[r].worker

\* Defect: tokens are counters, which start again with the process.
CounterToken(w) == token[w].id + 1

\* uuid4: never one used before.
FreshToken(w) == minted + 1

\* Defect: a token outlives its time.
TokenThere(w) == token[w].id # 0

TokenAlive(w) == token[w].id # 0 /\ now < token[w].until

\* When what is stored now expires.
Expiry == now + Ttl

Mint(w, id) ==
  /\ id <= MaxTokens
  /\ token' = [token EXCEPT ![w] = [id |-> id, until |-> Expiry]]
  /\ minted' = minted + 1 /\ minted < MaxTokens

\* version_token: the worker's token, minted if it has none; found is what the caller gets.
VersionToken(w, found) ==
  \/ TokenAlive(w) /\ found = token[w].id /\ UNCHANGED <<token, minted>>
  \/ ~TokenAlive(w) /\ found = FreshToken(w) /\ Mint(w, found)

Committed == {e \in Edits : saved[e] # Never}

Step(r, s) == at' = [at EXCEPT ![r] = s]

\* The answer to a browser; it keeps the payload under the request's ETag.
Answer(r, data) ==
  /\ value' = [value EXCEPT ![r] = data]
  /\ held' = IF job[r].browser = NoBrowser THEN held
             ELSE [held EXCEPT ![job[r].browser] = [tag |-> tag[r], data |-> data]]

\* The ETag of a list, from the current token.
ReadTag(r) ==
  /\ at[r] = "start" /\ job[r].kind = "LIST" /\ job[r].browser # NoBrowser
  /\ \E t \in Token : VersionToken(W(r), t) /\ tag' = [tag EXCEPT ![r] = t]
  /\ began' = [began EXCEPT ![r] = now]
  /\ Step(r, "key")
  /\ UNCHANGED <<job, now, entry, held, key, value, saved>>

\* 304: the browser still has what it was given under this ETag.
NotModified(r) ==
  /\ at[r] = "key" /\ job[r].browser # NoBrowser /\ held[job[r].browser].tag = tag[r]
  /\ value' = [value EXCEPT ![r] = held[job[r].browser].data]
  /\ Step(r, "done")
  /\ UNCHANGED <<job, now, minted, token, entry, held, tag, key, began, saved>>

\* cached: the token once more, in the key; the dashboard summary begins here.
ReadKey(r) ==
  /\ \/ at[r] = "key" /\ held[job[r].browser].tag # tag[r] /\ UNCHANGED began
     \/ /\ at[r] = "start" /\ job[r].kind = "LIST" /\ job[r].browser = NoBrowser
        /\ began' = [began EXCEPT ![r] = now]
  /\ \E t \in Token : VersionToken(W(r), t) /\ key' = [key EXCEPT ![r] = t]
  /\ Step(r, "get")
  /\ UNCHANGED <<job, now, entry, held, tag, value, saved>>

Hit(r) ==
  /\ at[r] = "get" /\ now < entry[W(r)][key[r]].until
  /\ Answer(r, entry[W(r)][key[r]].data)
  /\ Step(r, "done")
  /\ UNCHANGED <<job, now, minted, token, entry, tag, key, began, saved>>

Miss(r) ==
  /\ at[r] = "get" /\ now >= entry[W(r)][key[r]].until
  /\ Step(r, "compute")
  /\ UNCHANGED <<job, now, minted, token, entry, held, tag, key, value, began, saved>>

\* compute(): what is committed.
Compute(r) ==
  /\ at[r] = "compute"
  /\ value' = [value EXCEPT ![r] = Committed]
  /\ Step(r, "store")
  /\ UNCHANGED <<job, now, minted, token, entry, held, tag, key, began, saved>>

\* Defect: the payload is stored under the token current by then.
KeyByNow(r) == token[W(r)].id

StoreKey(r) == key[r]

Store(r) ==
  /\ at[r] = "store"
  /\ entry' = [entry EXCEPT ![W(r)][StoreKey(r)] = [data |-> value[r], until |-> Expiry]]
  /\ Answer(r, value[r])
  /\ Step(r, "done")
  /\ UNCHANGED <<job, now, minted, token, tag, key, began, saved>>

-----------------------------------------------------------------------------
(* Edits, the clock and restarts. *)

\* A save through the model API: post_save replaces the token of this worker at once.
Save(r) ==
  /\ at[r] = "start" /\ job[r].kind = "EDIT"
  /\ Mint(W(r), FreshToken(W(r)))
  /\ Step(r, "commit")
  /\ UNCHANGED <<job, now, entry, held, tag, key, value, began, saved>>

\* queryset.update, and the nightly job in its own process: no signal here.
BulkUpdate(r) ==
  /\ at[r] = "start" /\ job[r].kind = "BULK"
  /\ Step(r, "commit")
  /\ UNCHANGED <<job, now, minted, token, entry, held, tag, key, value, began, saved>>

Commit(r) ==
  /\ at[r] = "commit"
  /\ saved' = [saved EXCEPT ![r] = now]
  /\ Step(r, "done")
  /\ UNCHANGED <<job, now, minted, token, entry, held, tag, key, value, began>>

RollBack(r) ==
  /\ at[r] = "commit"
  /\ Step(r, "lost")
  /\ UNCHANGED <<job, now, minted, token, entry, held, tag, key, value, began, saved>>

Tick ==
  /\ now < MaxNow
  /\ now' = now + 1
  /\ UNCHANGED <<job, at, minted, token, entry, held, tag, key, value, began, saved>>

\* A worker's restart empties its cache and loses the requests it was at.
Restart(w) ==
  /\ token[w].id # 0
  /\ token' = [token EXCEPT ![w] = [id |-> 0, until |-> 0]]
  /\ entry' = [entry EXCEPT ![w] = [t \in Token |-> Nothing]]
  /\ at' = [r \in Request |-> IF W(r) = w /\ at[r] \notin {"start", "done"} THEN "lost" ELSE at[r]]
  /\ UNCHANGED <<job, now, minted, held, tag, key, value, began, saved>>

Init ==
  /\ job \in Workloads
  /\ at = [r \in Request |-> "start"]
  /\ now = 0 /\ minted = 0
  /\ token = [w \in Worker |-> [id |-> 0, until |-> 0]]
  /\ entry = [w \in Worker |-> [t \in Token |-> Nothing]]
  /\ held = [b \in Browser |-> [tag |-> 0, data |-> {}]]
  /\ tag = [r \in Request |-> 0] /\ key = tag
  /\ value = [r \in Request |-> {}]
  /\ began = [r \in Request |-> 0]
  /\ saved = [r \in Request |-> Never]

Next ==
  \/ \E r \in Request :
       \/ ReadTag(r) \/ NotModified(r) \/ ReadKey(r) \/ Hit(r) \/ Miss(r) \/ Compute(r) \/ Store(r)
       \/ Save(r) \/ BulkUpdate(r) \/ Commit(r) \/ RollBack(r)
  \/ \E w \in Worker : Restart(w)
  \/ Tick

Spec == Init /\ [][Next]_vars

-----------------------------------------------------------------------------
(* Properties of the answers. *)

Answered(r) == job[r].kind = "LIST" /\ at[r] # "done" /\ at'[r] = "done"

\* Nothing is staler than the life of a token: whichever worker answers, from its cache
\* or with a 304, after restarts and edits that no signal told of, an answer shows every
\* edit that was committed Ttl before the request began (TOKEN_TTL: "the ceiling on
\* staleness").
BoundedStaleness ==
  [][\A r \in Request : Answered(r) =>
       \A e \in Committed : saved[e] + Ttl <= began[r] => e \in value'[r]]_vars
=============================================================================
