----------------------------- MODULE ClientAuth -----------------------------
(* Client credentials: the records of the clients in Vault, their operators,  *)
(* and POST /v1/auth/token with its progressive block.                        *)
(*                                                                            *)
(* A request checks the block, has the secret verified against the record,    *)
(* and counts a failure or resets the counter of its pair and issues a token  *)
(* (usecase/clienttoken).  The counters are in Redis, one atomic script per   *)
(* operation, and in each replica's memory for when Redis fails               *)
(* (adapter/authblock).  Operators create, rotate and revoke with a reading   *)
(* and a check-and-set (kms/provisioning).  One client and one address: the   *)
(* counters are those of the pair and of the address.                         *)
(*                                                                            *)
(* Times are what is left of them.                                            *)
EXTENDS Naturals, FiniteSets

CONSTANTS
  Requests, Operators,
  PairTolerance, IpTolerance,    \* failures without a block
  Initial, Factor, Cap, Forget,  \* the progression of the block
  MaxCount,                      \* a count from which on every block is Cap
  MaxLocalKeys,                  \* counters a replica keeps
  MaxSecret                      \* secrets made

\* Policy.Validate.
ASSUME PolicyAssumption ==
  /\ {PairTolerance, IpTolerance, Initial, Factor, Cap, Forget, MaxCount} \subseteq Nat \ {0}
  /\ Initial <= Cap

VARIABLES
  rec,    \* the client's record: status, secret, version (0: none)
  made,   \* secrets made so far
  op,     \* each operator's command between its reading and its write
  redis,  \* the counters in Redis
  local,  \* the counters in the replica's memory
  req     \* each request: where it is, what it carries

vars == <<rec, made, op, redis, local, req>>

Counters == {"pair", "ip"}

\* What a request may carry besides a secret that was made.
Wrong == 0
Malformed == MaxSecret + 1

Tolerance(k) == IF k = "pair" THEN PairTolerance ELSE IpTolerance

\* A counter: failures, what is left of the block, and of its life (0: no entry).
NoEntry == [n |-> 0, block |-> 0, life |-> 0]
Entries == {NoEntry} \cup [n : 1..MaxCount, block : 0..Cap, life : 1..Cap + Forget]

NoRecord == [status |-> "none", secret |-> 0, version |-> 0]
Idle == [at |-> "idle"]

Init ==
  /\ rec = NoRecord /\ made = 0
  /\ op = [o \in Operators |-> Idle]
  /\ redis = [k \in Counters |-> NoEntry] /\ local = [k \in Counters |-> NoEntry]
  /\ req = [r \in Requests |-> Idle]

----------------------------------------------------------------------------
(* The records and the operators *)

\* NewSecret: a secret nobody has, with its own salt.
NewSecret == made < MaxSecret /\ made' = made + 1

\* Mutant: the write does not compare versions.
WriteClientAnyway(cas, status, secret) ==
  rec' = [status |-> status, secret |-> secret, version |-> rec.version + 1]

\* WriteClient: the write stands only if the version is still the one given.
WriteClient(cas, status, secret) ==
  IF rec.version = cas
  THEN rec' = [status |-> status, secret |-> secret, version |-> cas + 1] ELSE UNCHANGED rec

\* Create: version 0, so never over a client that exists or was revoked.
Create(o) ==
  /\ op[o] = Idle /\ NewSecret
  /\ WriteClient(0, "active", made + 1)
  /\ UNCHANGED <<op, redis, local, req>>

\* Rotate and Revoke read the record; only an active client goes on (ReadClient).
ReadClient(o) ==
  /\ op[o] = Idle /\ rec.status = "active"
  /\ \E what \in {"rotate", "revoke"} : op' = [op EXCEPT ![o] = [at |-> what, version |-> rec.version]]
  /\ UNCHANGED <<rec, made, redis, local, req>>

Rotate(o) ==
  /\ op[o].at = "rotate" /\ NewSecret
  /\ WriteClient(op[o].version, "active", made + 1)
  /\ op' = [op EXCEPT ![o] = Idle] /\ UNCHANGED <<redis, local, req>>

\* The record loses its hash.
Revoke(o) ==
  /\ op[o].at = "revoke"
  /\ WriteClient(op[o].version, "revoked", 0)
  /\ op' = [op EXCEPT ![o] = Idle] /\ UNCHANGED <<made, redis, local, req>>

\* The command's write fails, or the operator stops it.
CommandFails(o) ==
  /\ op[o] # Idle
  /\ op' = [op EXCEPT ![o] = Idle] /\ UNCHANGED <<rec, made, redis, local, req>>

----------------------------------------------------------------------------
(* The counters *)

\* math.Pow(Factor, e).
Power[e \in 0..MaxCount] == IF e = 0 THEN 1 ELSE Power[e - 1] * Factor

\* Policy.Block: the block the failure number n causes.
Block(k, n) ==
  IF n <= Tolerance(k) THEN 0
  ELSE LET d == Initial * Power[n - Tolerance(k) - 1] IN IF d < Cap THEN d ELSE Cap

\* luaFail multiplies, e times, while it is below the cap.
LuaLoop[e \in 0..MaxCount] ==
  IF e = 0 THEN Initial
  ELSE IF Factor > 1 /\ LuaLoop[e - 1] < Cap THEN LuaLoop[e - 1] * Factor ELSE LuaLoop[e - 1]

\* Mutant: the loop runs once more.
LuaBlockOnceMore(k, n) ==
  IF n <= Tolerance(k) THEN 0
  ELSE LET d == LuaLoop[n - Tolerance(k)] IN IF d > Cap THEN Cap ELSE d

\* The same block in luaFail.
LuaBlock(k, n) ==
  IF n <= Tolerance(k) THEN 0
  ELSE LET d == LuaLoop[n - Tolerance(k) - 1] IN IF d > Cap THEN Cap ELSE d

\* Mutant: the counter lives for Forget only.
BumpedForgetOnly(e, n, block) ==
  [n |-> n, block |-> IF block > 0 THEN block ELSE e.block, life |-> Forget]

\* One more failure: the new block replaces the old one, and the counter lives
\* for what is left of the block and Forget.
Bumped(e, n, block) ==
  LET left == IF block > e.block THEN block ELSE e.block
  IN [n |-> n, block |-> IF block > 0 THEN block ELSE e.block, life |-> left + Forget]

More(e) == IF e.n < MaxCount THEN e.n + 1 ELSE e.n

\* luaFail for the keys ks.
LuaFail(ks) ==
  [k \in Counters |-> IF k \in ks THEN Bumped(redis[k], More(redis[k]), LuaBlock(k, More(redis[k]))) ELSE redis[k]]

Tracked(m) == {k \in Counters : m[k] # NoEntry}

\* Local.bump: with the memory full, what is not blocked goes (evict); when that
\* makes no room the failure is not counted.
Bump(m, k) ==
  LET full  == k \notin Tracked(m) /\ Cardinality(Tracked(m)) >= MaxLocalKeys
      room  == IF full THEN [j \in Counters |-> IF m[j].block > 0 THEN m[j] ELSE NoEntry] ELSE m
  IN IF full /\ Cardinality(Tracked(room)) >= MaxLocalKeys THEN room
     ELSE [room EXCEPT ![k] = Bumped(@, More(@), Block(k, More(@)))]

\* Local.Fail: the pair first, then the address.
LocalFail(ks) ==
  LET one == IF "pair" \in ks THEN Bump(local, "pair") ELSE local IN Bump(one, "ip")

\* What Check answers: the longest block of the keys, in the store that answered.
Blocked(m, ks) == \E k \in ks : m[k].block > 0

----------------------------------------------------------------------------
(* A request: IssueToken.Run *)

\* The counters of a request: without well-formed credentials, only the address.
KeysOf(cred) == IF cred = Malformed THEN {"ip"} ELSE Counters

Goes(r, at) == req' = [req EXCEPT ![r].at = at]

\* The oldest secret that may still pass for a request that begins now.
ValidFrom == IF rec.status = "active" THEN rec.secret ELSE made + 1

\* Check, in Redis or, when that fails, in the local state.  A blocked request
\* ends without the KMS being asked.
Check(r) ==
  /\ req[r] = Idle
  /\ \E cred \in {Wrong, Malformed} \cup 1..made, m \in {redis, local} :
       /\ ~Blocked(m, KeysOf(cred))
       /\ req' = [req EXCEPT ![r] = [at   |-> IF cred = Malformed THEN "fail" ELSE "verify",
                                     cred |-> cred, from |-> ValidFrom]]
  /\ UNCHANGED <<rec, made, op, redis, local>>

\* Mutant: an earlier version of the record will do.
VerifiesEarlier(cred) == rec.status = "active" /\ cred \in 1..rec.secret

\* VerifyClient: the record is active and the secret is its secret.
Verifies(cred) == rec.status = "active" /\ cred = rec.secret

Verify(r) ==
  /\ req[r].at = "verify"
  /\ Goes(r, IF Verifies(req[r].cred) THEN "reset" ELSE "fail")
  /\ UNCHANGED <<rec, made, op, redis, local>>

\* The KMS, or a later step, is not available: no failure is counted.
Unavailable(r) ==
  /\ req[r].at \in {"verify", "issue"}
  /\ req' = [req EXCEPT ![r] = Idle]
  /\ UNCHANGED <<rec, made, op, redis, local>>

\* Fail: Redis counts; or it counts and its answer is lost, and the local state
\* counts too; or only the local state counts.
Fail(r) ==
  /\ req[r].at = "fail"
  /\ LET ks == KeysOf(req[r].cred)
     IN \/ redis' = LuaFail(ks) /\ UNCHANGED local
        \/ redis' = LuaFail(ks) /\ local' = LocalFail(ks)
        \/ UNCHANGED redis /\ local' = LocalFail(ks)
  /\ req' = [req EXCEPT ![r] = Idle]
  /\ UNCHANGED <<rec, made, op>>

\* Reset: the counter of the pair goes, in Redis or else in the local state.
Reset(r) ==
  /\ req[r].at = "reset"
  /\ \/ redis' = [redis EXCEPT !["pair"] = NoEntry] /\ UNCHANGED local
     \/ UNCHANGED redis /\ local' = [local EXCEPT !["pair"] = NoEntry]
  /\ Goes(r, "issue")
  /\ UNCHANGED <<rec, made, op>>

\* The token.
Issue(r) ==
  /\ req[r].at = "issue"
  /\ req' = [req EXCEPT ![r] = Idle]
  /\ UNCHANGED <<rec, made, op, redis, local>>

----------------------------------------------------------------------------

Sooner(a) == IF a > 0 THEN a - 1 ELSE 0
Aged(e) == IF e.life <= 1 THEN NoEntry ELSE [n |-> e.n, block |-> Sooner(e.block), life |-> e.life - 1]

Tick ==
  /\ redis' = [k \in Counters |-> Aged(redis[k])] /\ local' = [k \in Counters |-> Aged(local[k])]
  /\ UNCHANGED <<rec, made, op, req>>

Next ==
  \/ \E o \in Operators : Create(o) \/ ReadClient(o) \/ Rotate(o) \/ Revoke(o) \/ CommandFails(o)
  \/ \E r \in Requests : Check(r) \/ Verify(r) \/ Unavailable(r) \/ Fail(r) \/ Reset(r) \/ Issue(r)
  \/ Tick

Spec == Init /\ [][Next]_vars

----------------------------------------------------------------------------
(* Properties *)

\* A revoked client stays revoked, whatever other commands were under way
\* (clients.go:96, "a rotação e a revogação não perdem escrita concorrente").
RevokedStaysRevoked == [][rec.status = "revoked" => rec'.status = "revoked"]_vars

\* A request that begins after its secret was replaced, or its client revoked,
\* gets no token (provisioning/clients.go:62, "o antigo deixa de valer na hora").
OldSecretDies == \A r \in Requests : req[r].at \in {"reset", "issue"} => req[r].cred >= req[r].from

\* A block is never cut short or forgotten before its time, in either store, but
\* for the pair's by a request with the right secret: the longer life of a
\* counter covers its block, and making room in the memory spares the blocked.
BlockHolds ==
  [][\A k \in Counters :
       /\ redis'[k].block + 1 >= redis[k].block \/ (k = "pair" /\ redis'[k] = NoEntry /\ \E r \in Requests : req[r].at = "reset")
       /\ local'[k].block + 1 >= local[k].block \/ (k = "pair" /\ local'[k] = NoEntry /\ \E r \in Requests : req[r].at = "reset")]_vars

\* Redis and the local state follow one algorithm (authblock.go:76, "mesma
\* fórmula de clientauth.Policy.Block").
SameFormula == \A k \in Counters : LuaBlock(k, redis[k].n) = Block(k, redis[k].n)
=============================================================================
