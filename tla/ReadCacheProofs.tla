--------------------------- MODULE ReadCacheProofs ---------------------------
(***************************************************************************)
(* The staleness bound of the cached read models, for every number of      *)
(* workers, browsers, requests, tokens and restarts, and every Ttl.        *)
(*                                                                         *)
(* No variable says when a token was minted, but the bound is about that   *)
(* moment: a token lives Ttl, so a request that uses one began less than   *)
(* Ttl after it was minted; and whatever is kept under a token (an entry   *)
(* of a worker's cache, the payload of a browser's ETag) was computed      *)
(* after that moment, so it shows every edit committed before it.  The     *)
(* invariant says there is an assignment of minting times, the stamps,     *)
(* for which all of this holds.                                            *)
(***************************************************************************)
EXTENDS ReadCache, TLAPS

\* The payload shows every edit committed before token t was minted.
Shows(stamp, data, t) == \A e \in Committed : saved[e] < stamp[t] => e \in data

\* Tokens are minted in the order of their ids, none in the future.
Stamps(stamp) ==
  /\ \A t \in 1..minted : stamp[t] <= now
  /\ \A t, u \in 1..minted : t <= u => stamp[t] <= stamp[u]

TokensLast(stamp) ==
  \A w \in Worker : token[w].id # 0 =>
    token[w].id \in 1..minted /\ token[w].until = stamp[token[w].id] + Ttl

EntryShows(stamp, w, t) ==
  entry[w][t].until > 0 => t \in 1..minted /\ Shows(stamp, entry[w][t].data, t)

BrowserShows(stamp, b) ==
  held[b].tag # 0 => held[b].tag \in 1..minted /\ Shows(stamp, held[b].data, held[b].tag)

\* Request r began within the life of token t.
Within(stamp, r, t) == t \in 1..minted /\ began[r] < stamp[t] + Ttl

\* What a request carries from step to step.
Carries(stamp, r) ==
  /\ began[r] <= now
  /\ at[r] \in {"key", "get", "compute", "store"} =>
       /\ job[r].kind = "LIST"
       /\ job[r].browser # NoBrowser =>
            /\ Within(stamp, r, tag[r])
            /\ token[W(r)].id # 0 => tag[r] <= token[W(r)].id
  /\ at[r] = "key" => job[r].browser # NoBrowser
  /\ at[r] \in {"get", "compute", "store"} =>
       /\ Within(stamp, r, key[r])
       /\ job[r].browser # NoBrowser => tag[r] <= key[r]
  /\ at[r] = "store" => Shows(stamp, value[r], key[r])
  /\ at[r] = "commit" => job[r].kind # "LIST"

StampedBy(stamp) ==
  /\ Stamps(stamp) /\ TokensLast(stamp)
  /\ \A w \in Worker, t \in Token : EntryShows(stamp, w, t)
  /\ \A b \in Browser : BrowserShows(stamp, b)
  /\ \A r \in Request : Carries(stamp, r)

Stamping == [Token -> 0..MaxNow]

CacheInv == TypeOK /\ \E stamp \in Stamping : StampedBy(stamp)

-----------------------------------------------------------------------------
(* Types. *)

\* What a job may be.
LEMMA JobsAreGood ==
  ASSUME TypeOK, NEW r \in Request
  PROVE  /\ job[r].kind \in Kinds /\ W(r) \in Worker
         /\ job[r].browser # NoBrowser => job[r].browser \in Browser
  BY ReadCacheConstants DEF TypeOK, W

\* version_token and the signals of a save keep the types.
LEMMA MintTypes ==
  ASSUME TypeOK, NEW w \in Worker, NEW t, VersionToken(w, t) \/ (Mint(w, t) /\ t = FreshToken(w))
  PROVE  /\ t \in Token /\ minted' \in Token
         /\ token' \in [Worker -> [id : Token, until : 0..(MaxNow + Ttl)]]
  <1>1. minted + 1 \in Nat /\ now + Ttl \in 0..(MaxNow + Ttl) /\ token[w].id \in Token
    BY ReadCacheConstants DEF TypeOK, Token
  <1>2. CASE Mint(w, t) /\ t = FreshToken(w)
    <2>1. t \in Token /\ minted' \in Token
      BY <1>1, <1>2, ReadCacheConstants DEF TypeOK, Mint, FreshToken, Token
    <2>2. QED BY <1>1, <1>2, <2>1 DEF TypeOK, Mint, Expiry
  <1>3. CASE token[w].id = t /\ UNCHANGED <<token, minted>>
    BY <1>1, <1>3 DEF TypeOK
  <1>4. QED BY <1>2, <1>3 DEF VersionToken

\* An answer keeps the types of what the browser keeps.
LEMMA AnswerTypes ==
  ASSUME TypeOK, NEW r \in Request, NEW data \in Payload, Answer(r, data)
  PROVE  value' \in [Request -> Payload] /\ held' \in [Browser -> [tag : Token, data : Payload]]
  <1>1. job[r].browser # NoBrowser => job[r].browser \in Browser
    BY JobsAreGood
  <1>2. QED BY <1>1 DEF TypeOK, Answer

\* Every step keeps the types.
LEMMA TypeStep ==
  ASSUME TypeOK, [Next]_vars
  PROVE  TypeOK'
  <1>1. ASSUME NEW r \in Request, ReadTag(r) PROVE TypeOK'
    <2>1. W(r) \in Worker BY JobsAreGood
    <2>2. PICK t \in Token : VersionToken(W(r), t) /\ tag' = [tag EXCEPT ![r] = t]
      BY <1>1 DEF ReadTag
    <2>3. QED BY <1>1, <2>1, <2>2, MintTypes DEF TypeOK, ReadTag, Step, Steps
  <1>2. ASSUME NEW r \in Request, NotModified(r) PROVE TypeOK'
    <2>1. job[r].browser \in Browser BY <1>2, JobsAreGood DEF NotModified
    <2>2. QED BY <1>2, <2>1 DEF TypeOK, NotModified, Step, Steps
  <1>3. ASSUME NEW r \in Request, ReadKey(r) PROVE TypeOK'
    <2>1. W(r) \in Worker BY JobsAreGood
    <2>2. PICK t \in Token : VersionToken(W(r), t) /\ key' = [key EXCEPT ![r] = t]
      BY <1>3 DEF ReadKey
    <2>3. QED BY <1>3, <2>1, <2>2, MintTypes DEF TypeOK, ReadKey, Step, Steps
  <1>4. ASSUME NEW r \in Request, Hit(r) PROVE TypeOK'
    <2>1. W(r) \in Worker BY JobsAreGood
    <2>2. entry[W(r)][key[r]].data \in Payload BY <2>1 DEF TypeOK
    <2>3. value' \in [Request -> Payload] /\ held' \in [Browser -> [tag : Token, data : Payload]]
      BY <1>4, <2>2, AnswerTypes DEF Hit
    <2>4. QED BY <1>4, <2>3 DEF TypeOK, Hit, Step, Steps
  <1>5. ASSUME NEW r \in Request, Miss(r) PROVE TypeOK'
    BY <1>5 DEF TypeOK, Miss, Step, Steps
  <1>6. ASSUME NEW r \in Request, Compute(r) PROVE TypeOK'
    BY <1>6 DEF TypeOK, Compute, Step, Steps, Committed, Edits, Payload
  <1>7. ASSUME NEW r \in Request, Store(r) PROVE TypeOK'
    <2>1. W(r) \in Worker /\ key[r] \in Token /\ value[r] \in Payload BY JobsAreGood DEF TypeOK
    <2>2. now + Ttl \in 0..(MaxNow + Ttl) BY ReadCacheConstants DEF TypeOK
    <2>3. value' \in [Request -> Payload] /\ held' \in [Browser -> [tag : Token, data : Payload]]
      BY <1>7, <2>1, AnswerTypes DEF Store
    <2>4. entry' \in [Worker -> [Token -> [data : Payload, until : 0..(MaxNow + Ttl)]]]
      BY <1>7, <2>1, <2>2 DEF TypeOK, Store, StoreKey, Expiry
    <2>5. QED BY <1>7, <2>3, <2>4 DEF TypeOK, Store, Step, Steps
  <1>8. ASSUME NEW r \in Request, Save(r) PROVE TypeOK'
    <2>1. W(r) \in Worker BY JobsAreGood
    <2>2. QED BY <1>8, <2>1, MintTypes DEF TypeOK, Save, Step, Steps
  <1>9. ASSUME NEW r \in Request, BulkUpdate(r) \/ RollBack(r) PROVE TypeOK'
    BY <1>9 DEF TypeOK, BulkUpdate, RollBack, Step, Steps
  <1>10. ASSUME NEW r \in Request, Commit(r) PROVE TypeOK'
    <2>1. now \in Never..MaxNow BY ReadCacheConstants DEF TypeOK, Never
    <2>2. QED BY <1>10, <2>1 DEF TypeOK, Commit, Step, Steps
  <1>11. ASSUME NEW w \in Worker, Restart(w) PROVE TypeOK'
    <2>1. 0 \in Token /\ 0 \in 0..(MaxNow + Ttl) /\ Nothing \in [data : Payload, until : 0..(MaxNow + Ttl)]
      BY ReadCacheConstants DEF Token, Nothing, Payload
    <2>2. QED BY <1>11, <2>1 DEF TypeOK, Restart, Steps
  <1>12. CASE Tick
    BY <1>12, ReadCacheConstants DEF TypeOK, Tick
  <1>13. CASE UNCHANGED vars
    BY <1>13 DEF TypeOK, vars, Committed, Edits
  <1>14. QED
    BY <1>1, <1>2, <1>3, <1>4, <1>5, <1>6, <1>7, <1>8, <1>9, <1>10, <1>11, <1>12, <1>13 DEF Next

\* The initial state has the types.
LEMMA TypeInit ==
  ASSUME Init
  PROVE  TypeOK
  <1>1. 0 \in Token /\ 0 \in 0..MaxNow /\ 0 \in 0..(MaxNow + Ttl) /\ Never \in Never..MaxNow
    BY ReadCacheConstants DEF Token, Never
  <1>2. QED BY <1>1 DEF Init, TypeOK, Steps, Nothing, Payload

\* The caches, the browsers and the requests keep their types.
THEOREM CacheTypes == Spec => []TypeOK
  BY TypeInit, TypeStep, PTL DEF Spec
-----------------------------------------------------------------------------
(* What a step keeps of what is stamped. *)

\* A step after which the stamps are n: it mints no token again, and whatever it commits
\* is committed now.
Goes(stamp, n) ==
  /\ job' = job /\ minted <= minted' /\ now <= now'
  /\ \A t \in 1..minted : n[t] = stamp[t]
  /\ \A e \in Request : saved'[e] = saved[e] \/ saved'[e] = now

\* A payload that shows what was committed before its token goes on doing so: later
\* commits come after every token there is.
LEMMA ShowsKept ==
  ASSUME TypeOK, NEW stamp \in Stamping, NEW n \in Stamping, Stamps(stamp), Goes(stamp, n),
         NEW t \in 1..minted, NEW data, Shows(stamp, data, t),
         NEW e \in Request, job'[e].kind # "LIST", saved'[e] # Never, saved'[e] < n[t]
  PROVE  e \in data
  <1>1. n[t] = stamp[t] /\ stamp[t] <= now /\ t \in Token /\ stamp[t] \in Int /\ now \in Int
    BY ReadCacheConstants DEF Goes, Stamps, TypeOK, Token, Stamping
  <1>2. saved'[e] = saved[e]
    BY <1>1 DEF Goes
  <1>3. QED BY <1>1, <1>2 DEF Shows, Committed, Edits, Goes

\* Tokens stay tokens.
LEMMA MintedKept ==
  ASSUME TypeOK, TypeOK', NEW stamp, NEW n, Goes(stamp, n)
  PROVE  1..minted \subseteq 1..minted' /\ 1..minted \subseteq Token
  <1>1. minted \in Nat /\ minted' \in Nat /\ minted <= minted' /\ minted <= MaxTokens
    BY ReadCacheConstants DEF TypeOK, Token, Goes
  <1>2. QED BY <1>1, ReadCacheConstants DEF Token

\* An entry that a step leaves alone shows what it did.
LEMMA EntryKept ==
  ASSUME TypeOK, TypeOK', NEW stamp \in Stamping, NEW n \in Stamping, Stamps(stamp), Goes(stamp, n),
         NEW w \in Worker, NEW t \in Token, EntryShows(stamp, w, t), entry'[w][t] = entry[w][t]
  PROVE  EntryShows(n, w, t)'
  <1>1. SUFFICES ASSUME entry[w][t].until > 0
                 PROVE  t \in 1..minted' /\ Shows(n, entry[w][t].data, t)'
    BY DEF EntryShows, Shows
  <1>2. t \in 1..minted /\ Shows(stamp, entry[w][t].data, t)
    BY <1>1 DEF EntryShows
  <1>3. t \in 1..minted'
    BY <1>2, MintedKept
  <1>4. \A e \in Request : job'[e].kind # "LIST" /\ saved'[e] # Never /\ saved'[e] < n[t] => e \in entry[w][t].data
    BY <1>2, ShowsKept
  <1>5. QED BY <1>3, <1>4 DEF Shows, Committed, Edits

\* A payload that a step leaves with its browser shows what it did.
LEMMA BrowserKept ==
  ASSUME TypeOK, TypeOK', NEW stamp \in Stamping, NEW n \in Stamping, Stamps(stamp), Goes(stamp, n),
         NEW b \in Browser, BrowserShows(stamp, b), held'[b] = held[b]
  PROVE  BrowserShows(n, b)'
  <1>1. SUFFICES ASSUME held[b].tag # 0
                 PROVE  held'[b].tag \in 1..minted' /\ Shows(n, held[b].data, held[b].tag)'
    BY DEF BrowserShows
  <1>2. held[b].tag \in 1..minted /\ Shows(stamp, held[b].data, held[b].tag)
    BY <1>1 DEF BrowserShows
  <1>3. held'[b].tag \in 1..minted'
    BY <1>2, MintedKept
  <1>4. \A e \in Request : job'[e].kind # "LIST" /\ saved'[e] # Never /\ saved'[e] < n[held[b].tag] => e \in held[b].data
    BY <1>2, ShowsKept
  <1>5. QED BY <1>3, <1>4 DEF Shows, Committed, Edits

\* A token minted by a step comes after all others, or the worker keeps its own, or it
\* has lost it.
TokenGoesOn(w) ==
  token'[w].id # 0 => token'[w].id = token[w].id \/ token'[w].id = minted + 1

\* A request that a step leaves alone carries what it did.
LEMMA CarriedKept ==
  ASSUME TypeOK, TypeOK', NEW stamp \in Stamping, NEW n \in Stamping, Stamps(stamp), Goes(stamp, n),
         NEW r \in Request, Carries(stamp, r), TokenGoesOn(W(r)),
         at'[r] = at[r], tag'[r] = tag[r], key'[r] = key[r], value'[r] = value[r], began'[r] = began[r]
  PROVE  Carries(n, r)'
  <1>1. began[r] \in Int /\ now \in Int /\ now' \in Int /\ tag[r] \in Int /\ minted \in Int
    BY ReadCacheConstants DEF TypeOK, Token
  <1>2. job' = job /\ began'[r] <= now'
    BY <1>1 DEF Goes, Carries
  <1>3. \A t \in 1..minted : Within(stamp, r, t) => Within(n, r, t)'
    BY <1>2, MintedKept DEF Within, Goes
  <1>4. ASSUME at[r] \in {"key", "get", "compute", "store"}, job[r].browser # NoBrowser
        PROVE  Within(n, r, tag[r])' /\ (token'[W(r)].id # 0 => tag[r] <= token'[W(r)].id)
    <2>1. Within(stamp, r, tag[r]) /\ tag[r] \in 1..minted
      BY <1>4 DEF Carries, Within
    <2>2. token'[W(r)].id # 0 => tag[r] <= token'[W(r)].id
      BY <1>1, <1>4, <2>1 DEF TokenGoesOn, Carries
    <2>3. QED BY <1>3, <2>1, <2>2 DEF Within
  <1>5. ASSUME at[r] \in {"get", "compute", "store"}
        PROVE  Within(n, r, key[r])'
    <2>1. Within(stamp, r, key[r]) /\ key[r] \in 1..minted
      BY <1>5 DEF Carries, Within
    <2>2. QED BY <1>3, <2>1 DEF Within
  <1>6. ASSUME at[r] = "store"
        PROVE  Shows(n, value[r], key[r])'
    <2>1. Shows(stamp, value[r], key[r]) /\ key[r] \in 1..minted
      BY <1>6 DEF Carries, Within
    <2>2. \A e \in Request : job'[e].kind # "LIST" /\ saved'[e] # Never /\ saved'[e] < n[key[r]] => e \in value[r]
      BY <2>1, ShowsKept
    <2>3. QED BY <2>2 DEF Shows, Committed, Edits
  <1>7. QED BY <1>2, <1>4, <1>5, <1>6 DEF Carries, Within, Shows, W, Committed, Edits
-----------------------------------------------------------------------------
(* The invariant. *)

\* A stamp for the token minted now keeps tokens in order.
LEMMA MintStamps ==
  ASSUME TypeOK, NEW stamp \in Stamping, Stamps(stamp), TokensLast(stamp),
         NEW w \in Worker, Mint(w, FreshToken(w)), UNCHANGED <<job, now, saved>>
  PROVE  \E n \in Stamping :
           /\ Goes(stamp, n) /\ Stamps(n)' /\ TokensLast(n)'
           /\ n[minted + 1] = now /\ minted + 1 \in 1..minted'
           /\ \A v \in Worker : TokenGoesOn(v)
  <1>1. minted \in Nat /\ minted + 1 \in Token /\ minted' = minted + 1 /\ now \in 0..MaxNow
    BY ReadCacheConstants DEF TypeOK, Token, Mint, FreshToken
  <1>n. PICK n \in Stamping : n = [stamp EXCEPT ![minted + 1] = now]
    BY <1>1 DEF Stamping
  <1>2. n[minted + 1] = now
    BY <1>1, <1>n DEF Stamping
  <1>3. \A t \in 1..minted : t \in Token /\ t # minted + 1 /\ n[t] = stamp[t] /\ stamp[t] <= now /\ stamp[t] \in Int
    BY <1>1, <1>n, ReadCacheConstants DEF Token, Stamping, Stamps
  <1>4. Goes(stamp, n)
    BY <1>1, <1>3, ReadCacheConstants DEF Goes
  <1>5. \A t \in 1..minted' : t \in 1..minted \/ t = minted + 1
    BY <1>1
  <1>6. Stamps(n)'
    <2>1. \A t \in 1..minted' : n[t] <= now'
      BY <1>1, <1>2, <1>3, <1>5
    <2>2. ASSUME NEW t \in 1..minted', NEW u \in 1..minted', t <= u PROVE n[t] <= n[u]
      <3>1. CASE u = minted + 1
        BY <1>2, <2>1, <3>1
      <3>2. CASE u \in 1..minted
        <4>1. t \in 1..minted BY <1>1, <2>2, <3>2
        <4>2. QED BY <1>3, <2>2, <3>2, <4>1 DEF Stamps
      <3>3. QED BY <1>5, <3>1, <3>2
    <2>3. QED BY <2>1, <2>2 DEF Stamps
  <1>7. \A v \in Worker : token'[v] = IF v = w THEN [id |-> minted + 1, until |-> now + Ttl] ELSE token[v]
    BY DEF TypeOK, Mint, FreshToken, Expiry
  <1>8. TokensLast(n)'
    <2>1. minted + 1 \in 1..minted' /\ 1..minted \subseteq 1..minted' BY <1>1
    <2>2. ASSUME NEW v \in Worker, token'[v].id # 0
          PROVE  token'[v].id \in 1..minted' /\ token'[v].until = n[token'[v].id] + Ttl
      <3>1. CASE v = w BY <1>2, <1>7, <2>1, <3>1
      <3>2. CASE v # w BY <1>3, <1>7, <2>1, <2>2, <3>2 DEF TokensLast
      <3>3. QED BY <3>1, <3>2
    <2>3. QED BY <2>2 DEF TokensLast
  <1>9. minted + 1 \in 1..minted' BY <1>1
  <1>10. \A v \in Worker : TokenGoesOn(v)
    BY <1>7 DEF TokenGoesOn
  <1>11. QED BY <1>2, <1>4, <1>6, <1>8, <1>9, <1>10

\* The token version_token returns is alive: the request is within its life.
LEMMA TokenFound ==
  ASSUME TypeOK, NEW stamp \in Stamping, Stamps(stamp), TokensLast(stamp),
         NEW w \in Worker, NEW t, VersionToken(w, t), UNCHANGED <<job, now, saved>>
  PROVE  \E n \in Stamping :
           /\ Goes(stamp, n) /\ Stamps(n)' /\ TokensLast(n)'
           /\ t \in 1..minted' /\ now < n[t] + Ttl /\ token'[w].id = t
           /\ token[w].id # 0 => token[w].id <= t
           /\ token[w].id = 0 => \A u \in 1..minted : u <= t
           /\ \A v \in Worker : TokenGoesOn(v)
  <1>1. CASE TokenAlive(w) /\ t = token[w].id /\ UNCHANGED <<token, minted>>
    <2>1. t \in 1..minted' /\ now < stamp[t] + Ttl /\ token'[w].id = t /\ t # 0
      BY <1>1 DEF TokensLast, TokenAlive
    <2>2. Goes(stamp, stamp)
      BY <1>1, ReadCacheConstants DEF Goes, TypeOK, Token
    <2>3. Stamps(stamp)' /\ TokensLast(stamp)'
      BY <1>1 DEF Stamps, TokensLast
    <2>4. \A v \in Worker : TokenGoesOn(v)
      BY <1>1 DEF TokenGoesOn
    <2>5. QED BY <1>1, <2>1, <2>2, <2>3, <2>4
  <1>2. CASE t = FreshToken(w) /\ Mint(w, t)
    <2>1. PICK n \in Stamping :
            /\ Goes(stamp, n) /\ Stamps(n)' /\ TokensLast(n)'
            /\ n[minted + 1] = now /\ minted + 1 \in 1..minted'
            /\ \A v \in Worker : TokenGoesOn(v)
      BY <1>2, MintStamps
    <2>2. t = minted + 1 /\ token'[w].id = t
      BY <1>2 DEF FreshToken, Mint, TypeOK
    <2>3. now < n[t] + Ttl
      BY <2>1, <2>2, ReadCacheConstants DEF TypeOK
    <2>4. minted \in Nat
      BY ReadCacheConstants DEF TypeOK, Token
    <2>5. token[w].id # 0 => token[w].id <= t
      BY <2>2, <2>4 DEF TokensLast
    <2>6. \A u \in 1..minted : u <= t
      BY <2>2, <2>4
    <2>7. QED BY <2>1, <2>2, <2>3, <2>5, <2>6
  <1>3. QED BY <1>1, <1>2 DEF VersionToken

\* The initial state is stamped.
LEMMA CacheInit ==
  ASSUME Init
  PROVE  CacheInv
  <1> DEFINE stamp == [t \in Token |-> 0]
  <1>1. stamp \in Stamping
    BY ReadCacheConstants DEF Stamping
  <1>2. Stamps(stamp) /\ TokensLast(stamp)
    BY DEF Init, Stamps, TokensLast
  <1>3. \A w \in Worker, t \in Token : EntryShows(stamp, w, t)
    BY DEF Init, EntryShows, Nothing
  <1>4. \A b \in Browser : BrowserShows(stamp, b)
    BY DEF Init, BrowserShows
  <1>5. \A r \in Request : Carries(stamp, r)
    BY DEF Init, Carries
  <1>6. QED BY <1>1, <1>2, <1>3, <1>4, <1>5, TypeInit DEF CacheInv, StampedBy

\* A step after which some stamps do: the caches and browsers are as before but for what
\* is named, and so are the requests.
LEMMA StepStamped ==
  ASSUME CacheInv, TypeOK', NEW stamp \in Stamping, StampedBy(stamp),
         NEW n \in Stamping, Goes(stamp, n), Stamps(n)', TokensLast(n)',
         \A v \in Worker : TokenGoesOn(v),
         \A w \in Worker, t \in Token : entry'[w][t] = entry[w][t] \/ EntryShows(n, w, t)',
         \A b \in Browser : held'[b] = held[b] \/ BrowserShows(n, b)',
         \A q \in Request :
           \/ /\ at'[q] = at[q] /\ tag'[q] = tag[q] /\ key'[q] = key[q]
              /\ value'[q] = value[q] /\ began'[q] = began[q]
           \/ Carries(n, q)'
  PROVE  CacheInv'
  <1>1. TypeOK /\ Stamps(stamp) BY DEF CacheInv, StampedBy
  <1>2. ASSUME NEW w \in Worker, NEW t \in Token PROVE EntryShows(n, w, t)'
    BY <1>1, EntryKept DEF StampedBy
  <1>3. ASSUME NEW b \in Browser PROVE BrowserShows(n, b)'
    BY <1>1, BrowserKept DEF StampedBy
  <1>4. ASSUME NEW q \in Request PROVE Carries(n, q)'
    <2>1. W(q) \in Worker /\ Carries(stamp, q) BY <1>1, JobsAreGood DEF StampedBy
    <2>2. QED BY <1>1, <2>1, CarriedKept
  <1>5. StampedBy(n)' BY <1>2, <1>3, <1>4 DEF StampedBy
  <1>6. QED BY <1>5 DEF CacheInv

\* A step that mints no token keeps the stamps.
LEMMA SameStamps ==
  ASSUME CacheInv, TypeOK', NEW stamp \in Stamping, StampedBy(stamp),
         UNCHANGED <<job, minted, token>>, now <= now',
         \A e \in Request : saved'[e] = saved[e] \/ saved'[e] = now
  PROVE  /\ Goes(stamp, stamp) /\ Stamps(stamp)' /\ TokensLast(stamp)'
         /\ \A v \in Worker : TokenGoesOn(v)
  <1>1. minted \in Nat /\ now \in Int /\ now' \in Int /\ minted <= MaxTokens
    BY ReadCacheConstants DEF CacheInv, TypeOK, Token
  <1>2. Goes(stamp, stamp)
    BY <1>1 DEF Goes
  <1>3. \A t \in 1..minted : stamp[t] \in Int /\ stamp[t] <= now
    BY <1>1, ReadCacheConstants DEF StampedBy, Stamps, Stamping, Token
  <1>4. Stamps(stamp)'
    BY <1>1, <1>3 DEF StampedBy, Stamps
  <1>5. TokensLast(stamp)'
    BY DEF StampedBy, TokensLast
  <1>6. QED BY <1>2, <1>4, <1>5 DEF TokenGoesOn

\* What is stored under a token serves the request that has it as its key, and any
\* older ETag.
LEMMA ShowsOlder ==
  ASSUME TypeOK, NEW stamp \in Stamping, Stamps(stamp), NEW t \in 1..minted, NEW u \in 1..minted, t <= u,
         NEW data, Shows(stamp, data, u)
  PROVE  Shows(stamp, data, t)
  <1>1. stamp[t] <= stamp[u] /\ stamp[t] \in Int /\ stamp[u] \in Int
    BY ReadCacheConstants DEF Stamps, Stamping, TypeOK, Token
  <1>2. \A e \in Request : saved[e] \in Int
    BY ReadCacheConstants DEF TypeOK, Never
  <1>3. QED BY <1>1, <1>2 DEF Shows, Committed, Edits

\* An answer that shows what its key promises leaves its browser with what the ETag
\* promises.
LEMMA AnswerStamped ==
  ASSUME TypeOK, NEW stamp \in Stamping, StampedBy(stamp), NEW r \in Request,
         at[r] \in {"get", "store"}, NEW data, Shows(stamp, data, key[r]), Answer(r, data),
         UNCHANGED <<job, minted, saved>>
  PROVE  \A b \in Browser : held'[b] = held[b] \/ BrowserShows(stamp, b)'
  <1>1. Carries(stamp, r) /\ key[r] \in 1..minted BY DEF StampedBy, Carries, Within
  <1>2. CASE job[r].browser = NoBrowser
    BY <1>2 DEF Answer
  <1>3. CASE job[r].browser # NoBrowser
    <2>1. tag[r] \in 1..minted /\ tag[r] <= key[r]
      BY <1>1, <1>3 DEF Carries, Within
    <2>2. Shows(stamp, data, tag[r])
      BY <1>1, <2>1, ShowsOlder DEF StampedBy
    <2>3. \A b \in Browser : held'[b] = IF b = job[r].browser THEN [tag |-> tag[r], data |-> data] ELSE held[b]
      BY <1>3 DEF Answer, TypeOK
    <2>4. ASSUME NEW b \in Browser, b = job[r].browser PROVE BrowserShows(stamp, b)'
      BY <2>1, <2>2, <2>3, <2>4 DEF BrowserShows, Shows, Committed, Edits
    <2>5. QED BY <2>3, <2>4
  <1>4. QED BY <1>2, <1>3

\* ReadTag: the ETag of a request that begins now is a token alive now.
LEMMA ReadTagStamped ==
  ASSUME CacheInv, TypeOK', NEW r \in Request, ReadTag(r)
  PROVE  CacheInv'
  <1>1. PICK stamp \in Stamping : StampedBy(stamp) BY DEF CacheInv
  <1>2. PICK t \in Token : VersionToken(W(r), t) /\ tag' = [tag EXCEPT ![r] = t] BY DEF ReadTag
  <1>3. PICK n \in Stamping :
          /\ Goes(stamp, n) /\ Stamps(n)' /\ TokensLast(n)'
          /\ t \in 1..minted' /\ now < n[t] + Ttl /\ token'[W(r)].id = t
          /\ \A v \in Worker : TokenGoesOn(v)
    <2>1. TypeOK /\ W(r) \in Worker /\ UNCHANGED <<job, now, saved>> BY JobsAreGood DEF CacheInv, ReadTag
    <2>2. Stamps(stamp) /\ TokensLast(stamp) BY <1>1 DEF StampedBy
    <2>3. QED BY <1>2, <2>1, <2>2, TokenFound
  <1>4. Carries(n, r)'
    <2>1. /\ job' = job /\ job[r].kind = "LIST" /\ job[r].browser # NoBrowser
          /\ at'[r] = "key" /\ tag'[r] = t /\ began'[r] = now /\ now' = now /\ now \in Int
      BY <1>2, ReadCacheConstants DEF ReadTag, Step, CacheInv, TypeOK
    <2>2. t <= t BY ReadCacheConstants DEF Token
    <2>3. QED BY <1>3, <2>1, <2>2 DEF Carries, Within, W
  <1>5. \A q \in Request : q # r =>
          /\ at'[q] = at[q] /\ tag'[q] = tag[q] /\ key'[q] = key[q]
          /\ value'[q] = value[q] /\ began'[q] = began[q]
    BY <1>2 DEF ReadTag, Step, CacheInv, TypeOK
  <1>6. UNCHANGED <<entry, held>> BY DEF ReadTag
  <1>7. QED BY <1>1, <1>3, <1>4, <1>5, <1>6, StepStamped

\* cached: the token of the key is no older than the ETag's, and alive now.
LEMMA ReadKeyStamped ==
  ASSUME CacheInv, TypeOK', NEW r \in Request, ReadKey(r)
  PROVE  CacheInv'
  <1>1. PICK stamp \in Stamping : StampedBy(stamp) BY DEF CacheInv
  <1>2. PICK t \in Token : VersionToken(W(r), t) /\ key' = [key EXCEPT ![r] = t] BY DEF ReadKey
  <1>3. W(r) \in Worker /\ Carries(stamp, r) BY <1>1, JobsAreGood DEF CacheInv, StampedBy
  <1>4. PICK n \in Stamping :
          /\ Goes(stamp, n) /\ Stamps(n)' /\ TokensLast(n)'
          /\ t \in 1..minted' /\ now < n[t] + Ttl /\ token'[W(r)].id = t
          /\ token[W(r)].id # 0 => token[W(r)].id <= t
          /\ token[W(r)].id = 0 => \A u \in 1..minted : u <= t
          /\ \A v \in Worker : TokenGoesOn(v)
    <2>1. TypeOK /\ UNCHANGED <<job, now, saved>> BY DEF CacheInv, ReadKey
    <2>2. Stamps(stamp) /\ TokensLast(stamp) BY <1>1 DEF StampedBy
    <2>3. QED BY <1>2, <1>3, <2>1, <2>2, TokenFound
  <1>5. /\ job' = job /\ at'[r] = "get" /\ key'[r] = t /\ tag' = tag /\ now' = now
        /\ began[r] \in Int /\ now \in Int /\ t \in Int /\ tag[r] \in Int /\ token[W(r)].id \in Int
    BY <1>2, <1>3, ReadCacheConstants DEF ReadKey, Step, CacheInv, TypeOK, Token
  <1>6. Carries(n, r)'
    <2>1. CASE at[r] = "key"
      <3>1. began' = began BY <2>1 DEF ReadKey
      <3>2. /\ began[r] <= now /\ job[r].kind = "LIST" /\ job[r].browser # NoBrowser
            /\ Within(stamp, r, tag[r]) /\ (token[W(r)].id # 0 => tag[r] <= token[W(r)].id)
        BY <1>3, <2>1 DEF Carries
      <3>3. tag[r] <= t
        BY <1>4, <1>5, <3>2 DEF Within
      <3>4. tag[r] \in 1..minted' /\ n[tag[r]] = stamp[tag[r]]
        BY <1>4, <3>2, MintedKept DEF Within, Goes, CacheInv
      <3>5. n[t] \in Int BY <1>2, ReadCacheConstants DEF Stamping
      <3>6. QED BY <1>4, <1>5, <3>1, <3>2, <3>3, <3>4, <3>5, ReadCacheConstants DEF Carries, Within, W
    <2>2. CASE at[r] = "start"
      <3>1. began'[r] = now /\ job[r].kind = "LIST" /\ job[r].browser = NoBrowser
        BY <2>2 DEF ReadKey, CacheInv, TypeOK
      <3>2. QED BY <1>4, <1>5, <3>1 DEF Carries, Within
    <2>3. QED BY <2>1, <2>2 DEF ReadKey
  <1>7. \A q \in Request : q # r =>
          /\ at'[q] = at[q] /\ tag'[q] = tag[q] /\ key'[q] = key[q]
          /\ value'[q] = value[q] /\ began'[q] = began[q]
    BY <1>2 DEF ReadKey, Step, CacheInv, TypeOK
  <1>8. UNCHANGED <<entry, held>> BY DEF ReadKey
  <1>9. QED BY <1>1, <1>4, <1>6, <1>7, <1>8, StepStamped

\* A request that has ended carries nothing but when it began.
LEMMA EndedCarries ==
  ASSUME TypeOK, NEW stamp, NEW n, NEW r \in Request, Carries(stamp, r),
         began'[r] = began[r], now <= now', now' \in Int, at'[r] \in {"done", "lost"}
  PROVE  Carries(n, r)'
  <1>1. began[r] <= now /\ began[r] \in Int /\ now \in Int
    BY ReadCacheConstants DEF Carries, TypeOK
  <1>2. QED BY <1>1 DEF Carries

\* The steps of a list between its key and its answer, and the steps of edits, keep the
\* invariant: what is computed shows every edit, and an edit that commits now comes after
\* every stamp.
LEMMA RequestStamped ==
  ASSUME CacheInv, TypeOK', NEW r \in Request,
         \/ NotModified(r) \/ Hit(r) \/ Miss(r) \/ Compute(r) \/ Store(r)
         \/ BulkUpdate(r) \/ Commit(r) \/ RollBack(r)
  PROVE  CacheInv'
  <1>1. PICK stamp \in Stamping : StampedBy(stamp) BY DEF CacheInv
  <1>2. TypeOK /\ W(r) \in Worker /\ Carries(stamp, r) BY <1>1, JobsAreGood DEF CacheInv, StampedBy
  <1>3. UNCHANGED <<job, now, minted, token, tag, key, began>>
    BY DEF NotModified, Hit, Miss, Compute, Store, BulkUpdate, Commit, RollBack
  <1>4. \A e \in Request : saved'[e] = saved[e] \/ saved'[e] = now
    BY <1>2 DEF NotModified, Hit, Miss, Compute, Store, BulkUpdate, Commit, RollBack, TypeOK
  <1>5. now \in Int BY <1>2, ReadCacheConstants DEF TypeOK
  <1>6. Goes(stamp, stamp) /\ Stamps(stamp)' /\ TokensLast(stamp)' /\ \A v \in Worker : TokenGoesOn(v)
    BY <1>1, <1>3, <1>4, <1>5, SameStamps
  <1>7. \A q \in Request : q # r => at'[q] = at[q] /\ value'[q] = value[q]
    BY <1>2 DEF NotModified, Hit, Miss, Compute, Store, BulkUpdate, Commit, RollBack, Step, Answer, TypeOK
  <1>8. \A w \in Worker, t \in Token : entry'[w][t] = entry[w][t] \/ EntryShows(stamp, w, t)'
    <2>1. CASE Store(r)
      <3>1. key[r] \in 1..minted /\ Shows(stamp, value[r], key[r]) /\ key[r] \in Token
        BY <1>2, <2>1 DEF Store, Carries, Within, TypeOK
      <3>2. entry' = [entry EXCEPT ![W(r)][key[r]] = [data |-> value[r], until |-> Expiry]] /\ saved' = saved
        BY <2>1 DEF Store, StoreKey
      <3>3. entry'[W(r)][key[r]].data = value[r]
        BY <1>2, <3>1, <3>2 DEF TypeOK
      <3>4. \A w \in Worker, t \in Token : w = W(r) /\ t = key[r] => EntryShows(stamp, w, t)'
        BY <1>3, <3>1, <3>2, <3>3 DEF EntryShows, Shows, Committed, Edits
      <3>5. \A w \in Worker, t \in Token : entry'[w][t] = entry[w][t] \/ (w = W(r) /\ t = key[r])
        BY <1>2, <3>1, <3>2 DEF TypeOK
      <3>6. QED BY <3>4, <3>5
    <2>2. CASE ~Store(r)
      BY <2>2 DEF NotModified, Hit, Miss, Compute, BulkUpdate, Commit, RollBack
    <2>3. QED BY <2>1, <2>2
  <1>9. \A b \in Browser : held'[b] = held[b] \/ BrowserShows(stamp, b)'
    <2>1. CASE Store(r)
      <3>1. Shows(stamp, value[r], key[r]) /\ at[r] = "store" /\ saved' = saved
        BY <1>2, <2>1 DEF Store, Carries
      <3>2. QED BY <1>1, <1>2, <1>3, <2>1, <3>1, AnswerStamped DEF Store
    <2>2. CASE Hit(r)
      <3>1. at[r] = "get" /\ key[r] \in 1..minted /\ key[r] \in Token /\ saved' = saved
        BY <1>2, <2>2 DEF Hit, Carries, Within, TypeOK
      <3>2. now < entry[W(r)][key[r]].until /\ 0 <= now /\ entry[W(r)][key[r]].until \in Int
        BY <1>2, <2>2, <3>1, ReadCacheConstants DEF Hit, TypeOK
      <3>3. Shows(stamp, entry[W(r)][key[r]].data, key[r])
        BY <1>1, <1>2, <1>5, <3>1, <3>2 DEF StampedBy, EntryShows
      <3>4. QED BY <1>1, <1>2, <1>3, <2>2, <3>1, <3>3, AnswerStamped DEF Hit
    <2>3. CASE ~Store(r) /\ ~Hit(r)
      BY <2>3 DEF NotModified, Miss, Compute, BulkUpdate, Commit, RollBack
    <2>4. QED BY <2>1, <2>2, <2>3
  <1>10. Carries(stamp, r)'
    <2>1. CASE NotModified(r) \/ Hit(r) \/ Store(r) \/ Commit(r) \/ RollBack(r)
      <3>1. at'[r] \in {"done", "lost"}
        BY <1>2, <2>1 DEF NotModified, Hit, Store, Commit, RollBack, Step, TypeOK
      <3>2. QED BY <1>2, <1>3, <1>5, <3>1, EndedCarries
    <2>2. CASE Miss(r)
      <3>1. at[r] = "get" /\ at'[r] = "compute"
        BY <1>2, <2>2 DEF Miss, Step, TypeOK
      <3>2. QED BY <1>2, <1>3, <3>1 DEF Carries, Within, W
    <2>3. CASE Compute(r)
      <3>1. at[r] = "compute" /\ at'[r] = "store" /\ value'[r] = Committed /\ saved' = saved
        BY <1>2, <2>3 DEF Compute, Step, TypeOK
      <3>2. Shows(stamp, value[r], key[r])'
        BY <1>3, <3>1 DEF Shows, Committed, Edits
      <3>3. QED BY <1>2, <1>3, <3>1, <3>2 DEF Carries, Within, W
    <2>4. CASE BulkUpdate(r)
      <3>1. at'[r] = "commit" /\ job[r].kind # "LIST"
        BY <1>2, <2>4 DEF BulkUpdate, Step, TypeOK
      <3>2. QED BY <1>2, <1>3, <3>1 DEF Carries
    <2>5. QED BY <2>1, <2>2, <2>3, <2>4
  <1>11. QED BY <1>1, <1>3, <1>6, <1>7, <1>8, <1>9, <1>10, StepStamped

\* A save replaces its worker's token by one stamped now.
LEMMA SaveStamped ==
  ASSUME CacheInv, TypeOK', NEW r \in Request, Save(r)
  PROVE  CacheInv'
  <1>1. PICK stamp \in Stamping : StampedBy(stamp) BY DEF CacheInv
  <1>2. TypeOK /\ W(r) \in Worker /\ Carries(stamp, r) BY <1>1, JobsAreGood DEF CacheInv, StampedBy
  <1>3. PICK n \in Stamping :
          /\ Goes(stamp, n) /\ Stamps(n)' /\ TokensLast(n)' /\ \A v \in Worker : TokenGoesOn(v)
    <2>1. UNCHANGED <<job, now, saved>> /\ Mint(W(r), FreshToken(W(r))) BY DEF Save
    <2>2. QED BY <1>1, <1>2, <2>1, MintStamps DEF StampedBy
  <1>4. Carries(n, r)'
    <2>1. at'[r] = "commit" /\ job' = job /\ job[r].kind = "EDIT" /\ began' = began /\ now' = now
      BY <1>2 DEF Save, Step, TypeOK
    <2>2. QED BY <1>2, <2>1 DEF Carries
  <1>5. \A q \in Request : q # r =>
          /\ at'[q] = at[q] /\ tag'[q] = tag[q] /\ key'[q] = key[q]
          /\ value'[q] = value[q] /\ began'[q] = began[q]
    BY <1>2 DEF Save, Step, TypeOK
  <1>6. UNCHANGED <<entry, held>> BY DEF Save
  <1>7. QED BY <1>1, <1>3, <1>4, <1>5, <1>6, StepStamped

\* A restart loses the worker's token, its entries and its requests.
LEMMA RestartStamped ==
  ASSUME CacheInv, TypeOK', NEW w \in Worker, Restart(w)
  PROVE  CacheInv'
  <1>1. PICK stamp \in Stamping : StampedBy(stamp) BY DEF CacheInv
  <1>2. TypeOK /\ UNCHANGED <<job, now, minted, held, tag, key, value, began, saved>> BY DEF CacheInv, Restart
  <1>3. now \in Int /\ minted \in Int BY <1>2, ReadCacheConstants DEF TypeOK, Token
  <1>4. \A v \in Worker : token'[v] = IF v = w THEN [id |-> 0, until |-> 0] ELSE token[v]
    BY <1>2 DEF Restart, TypeOK
  <1>5. Goes(stamp, stamp) BY <1>2, <1>3 DEF Goes
  <1>6. Stamps(stamp)' BY <1>1, <1>2 DEF StampedBy, Stamps
  <1>7. TokensLast(stamp)' BY <1>1, <1>2, <1>4 DEF StampedBy, TokensLast
  <1>8. \A v \in Worker : TokenGoesOn(v) BY <1>4 DEF TokenGoesOn
  <1>9. ASSUME NEW v \in Worker, NEW t \in Token PROVE entry'[v][t] = entry[v][t] \/ EntryShows(stamp, v, t)'
    <2>1. CASE v = w
      <3>1. entry'[v][t].until = 0 BY <1>2, <2>1 DEF Restart, TypeOK, Nothing
      <3>2. QED BY <3>1 DEF EntryShows
    <2>2. CASE v # w BY <1>2, <2>2 DEF Restart, TypeOK
    <2>3. QED BY <2>1, <2>2
  <1>10. ASSUME NEW q \in Request PROVE at'[q] = at[q] \/ Carries(stamp, q)'
    <2>1. at'[q] = at[q] \/ at'[q] = "lost" BY DEF Restart
    <2>2. Carries(stamp, q) BY <1>1 DEF StampedBy
    <2>3. QED BY <1>2, <1>3, <2>1, <2>2, EndedCarries
  <1>11. QED BY <1>1, <1>2, <1>5, <1>6, <1>7, <1>8, <1>9, <1>10, StepStamped

\* Time passes.
LEMMA TickStamped ==
  ASSUME CacheInv, TypeOK', Tick \/ UNCHANGED vars
  PROVE  CacheInv'
  <1>1. PICK stamp \in Stamping : StampedBy(stamp) BY DEF CacheInv
  <1>2. /\ UNCHANGED <<job, at, minted, token, entry, held, tag, key, value, began, saved>>
        /\ now <= now'
    BY ReadCacheConstants DEF CacheInv, TypeOK, Tick, vars
  <1>3. Goes(stamp, stamp) /\ Stamps(stamp)' /\ TokensLast(stamp)' /\ \A v \in Worker : TokenGoesOn(v)
    BY <1>1, <1>2, SameStamps
  <1>4. QED BY <1>1, <1>2, <1>3, StepStamped

\* Every step keeps the invariant.
LEMMA CacheStep ==
  ASSUME CacheInv, [Next]_vars
  PROVE  CacheInv'
  <1>1. TypeOK' BY TypeStep DEF CacheInv
  <1>2. ASSUME NEW r \in Request,
               \/ ReadTag(r) \/ NotModified(r) \/ ReadKey(r) \/ Hit(r) \/ Miss(r) \/ Compute(r) \/ Store(r)
               \/ Save(r) \/ BulkUpdate(r) \/ Commit(r) \/ RollBack(r)
        PROVE  CacheInv'
    BY <1>1, <1>2, ReadTagStamped, ReadKeyStamped, RequestStamped, SaveStamped
  <1>3. QED BY <1>1, <1>2, RestartStamped, TickStamped DEF Next

\* There are always stamps.
THEOREM CacheInvariance == Spec => []CacheInv
  BY CacheInit, CacheStep, PTL DEF Spec

\* A request that is answered began within the life of the token of its answer, and the
\* answer shows what was committed before that token (NotModified, cached).
LEMMA AnswersShow ==
  ASSUME CacheInv, Next, NEW r \in Request, Answered(r),
         NEW e \in Committed, saved[e] + Ttl <= began[r]
  PROVE  e \in value'[r]
  <1>1. PICK stamp \in Stamping : StampedBy(stamp) BY DEF CacheInv
  <1>2. TypeOK /\ W(r) \in Worker /\ Carries(stamp, r) BY <1>1, JobsAreGood DEF CacheInv, StampedBy
  <1>3. NotModified(r) \/ Hit(r) \/ Store(r)
    <2>1. ASSUME NEW q \in Request,
                 \/ ReadTag(q) \/ NotModified(q) \/ ReadKey(q) \/ Hit(q) \/ Miss(q) \/ Compute(q) \/ Store(q)
                 \/ Save(q) \/ BulkUpdate(q) \/ Commit(q) \/ RollBack(q)
          PROVE  NotModified(r) \/ Hit(r) \/ Store(r)
      <3>1. q = r
        BY <1>2, <2>1 DEF Answered, TypeOK, Step, ReadTag, NotModified, ReadKey, Hit, Miss, Compute, Store,
                          Save, BulkUpdate, Commit, RollBack
      <3>2. ~Commit(q)
        BY <1>2, <3>1 DEF Commit, Carries, Answered
      <3>3. QED
        BY <1>2, <2>1, <3>1, <3>2 DEF Answered, TypeOK, Step, ReadTag, ReadKey, Miss, Compute,
                                      Save, BulkUpdate, RollBack
    <2>2. ~Tick /\ \A w \in Worker : ~Restart(w)
      BY DEF Answered, Tick, Restart
    <2>3. QED BY <2>1, <2>2 DEF Next
  <1>4. saved[e] \in Int /\ began[r] \in Int /\ e \in Request /\ \A t \in 1..minted : stamp[t] \in Int
    BY <1>2, ReadCacheConstants DEF TypeOK, Never, Committed, Edits, Stamping, Token
  <1>5. \A t \in 1..minted : Within(stamp, r, t) => saved[e] < stamp[t]
    BY <1>4, ReadCacheConstants DEF Within
  <1>6. CASE NotModified(r)
    <2>1. job[r].browser \in Browser /\ value'[r] = held[job[r].browser].data /\ held[job[r].browser].tag = tag[r]
      BY <1>2, <1>6, JobsAreGood DEF NotModified, TypeOK
    <2>2. tag[r] \in 1..minted /\ Within(stamp, r, tag[r])
      BY <1>2, <1>6 DEF NotModified, Carries, Within
    <2>3. Shows(stamp, held[job[r].browser].data, tag[r])
      BY <1>1, <2>1, <2>2 DEF StampedBy, BrowserShows
    <2>4. QED BY <1>5, <2>1, <2>2, <2>3 DEF Shows
  <1>7. CASE Hit(r)
    <2>1. key[r] \in 1..minted /\ Within(stamp, r, key[r]) /\ key[r] \in Token
      BY <1>2, <1>7 DEF Hit, Carries, Within, TypeOK
    <2>2. 0 < entry[W(r)][key[r]].until
      BY <1>2, <1>7, <2>1, ReadCacheConstants DEF Hit, TypeOK
    <2>3. Shows(stamp, entry[W(r)][key[r]].data, key[r])
      BY <1>1, <1>2, <2>1, <2>2 DEF StampedBy, EntryShows
    <2>4. value'[r] = entry[W(r)][key[r]].data
      BY <1>2, <1>7 DEF Hit, Answer, TypeOK
    <2>5. QED BY <1>5, <2>1, <2>3, <2>4 DEF Shows
  <1>8. CASE Store(r)
    <2>1. key[r] \in 1..minted /\ Within(stamp, r, key[r]) /\ Shows(stamp, value[r], key[r])
      BY <1>2, <1>8 DEF Store, Carries, Within
    <2>2. value'[r] = value[r]
      BY <1>2, <1>8 DEF Store, Answer, TypeOK
    <2>3. QED BY <1>5, <2>1, <2>2 DEF Shows
  <1>9. QED BY <1>3, <1>6, <1>7, <1>8

\* Nothing is staler than the life of a token, whatever the workers, the restarts and the
\* edits that no signal tells of: "the ceiling on staleness" (TOKEN_TTL).
THEOREM StalenessBounded == Spec => BoundedStaleness
  <1>1. CacheInv /\ [Next]_vars =>
          [\A r \in Request : Answered(r) =>
             \A e \in Committed : saved[e] + Ttl <= began[r] => e \in value'[r]]_vars
    BY AnswersShow
  <1>2. QED BY <1>1, CacheInvariance, PTL DEF Spec, BoundedStaleness
=============================================================================
