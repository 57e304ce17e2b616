--------------------------- MODULE ClientAuthProofs ---------------------------
(* Proofs about ClientAuth, for any number of operators, requests and         *)
(* secrets: concurrent commands never bring a revoked client back, and a      *)
(* secret gets no token for a request that began after it was replaced; and,  *)
(* for any progression, that Redis and the memory compute the same block and  *)
(* that no block ends before its time.                                        *)
EXTENDS ClientAuth, IntervalProofs, TLAPS

Records == [status : {"none", "active", "revoked"}, secret : Nat, version : Nat]
Commands == {Idle} \cup [at : {"rotate", "revoke"}, version : Nat]
Carried == {Idle} \cup [at : {"verify", "fail", "reset", "issue"},
                        cred : {Wrong, Malformed} \cup Nat, from : Nat]

\* A record has a version from its creation on, and a secret that was made.
RecordHolds ==
  /\ made \in Nat /\ rec \in Records
  /\ rec.version = 0 => rec.status = "none"
  /\ rec.secret <= made

\* What an operator read is the record as it is, or a version behind it.
ReadHolds(c) == c = Idle \/ c.version < rec.version \/ (c.version = rec.version /\ rec.status = "active")

CommandsHold == op \in [Operators -> Commands] /\ \A o \in Operators : ReadHolds(op[o])

\* Whatever is written after a request began is a secret that may still pass for it.
CarriedHolds(q) ==
  q = Idle \/ /\ q.from <= made + 1 /\ (rec.status = "active" => q.from <= rec.secret)
              /\ q.at \in {"reset", "issue"} => q.cred \in Nat /\ q.from <= q.cred

RequestsHold == req \in [Requests -> Carried] /\ \A r \in Requests : CarriedHolds(req[r])

IInv == RecordHolds /\ CommandsHold /\ RequestsHold

-----------------------------------------------------------------------------
(* Writes of the record *)

\* A secret was made and the record was written with it, or somebody's write
\* came first; what the operators read and what the requests carry still holds.
LEMMA SecretMade ==
  ASSUME IInv, NEW cas \in Nat, cas = 0 \/ (rec.version = cas => rec.status = "active"),
         made' = made + 1, WriteClient(cas, "active", made + 1)
  PROVE  /\ RecordHolds' /\ (rec.status = "revoked" => rec'.status = "revoked")
         /\ \A c \in Commands : ReadHolds(c) => ReadHolds(c)'
         /\ \A q \in Carried : CarriedHolds(q) => CarriedHolds(q)'
<1>1. made \in Nat /\ made' \in Nat /\ made' = made + 1 /\ rec \in Records
      /\ rec.version \in Nat /\ rec.secret \in Nat /\ rec.secret <= made
  BY DEF IInv, RecordHolds, Records
<1>2. CASE rec.version = cas
  <2>1. rec' = [status |-> "active", secret |-> made + 1, version |-> cas + 1]
    BY <1>2 DEF WriteClient
  <2>2. RecordHolds'
    BY <1>1, <2>1 DEF RecordHolds, Records
  <2>3. rec.status # "revoked"
    BY <1>2 DEF IInv, RecordHolds
  <2>4. \A c \in Commands : ReadHolds(c) => ReadHolds(c)'
    BY <1>1, <1>2, <2>1 DEF ReadHolds, Commands
  <2>5. \A q \in Carried : CarriedHolds(q) => CarriedHolds(q)'
    BY <1>1, <2>1 DEF CarriedHolds, Carried
  <2> QED BY <2>2, <2>3, <2>4, <2>5
<1>3. CASE rec.version # cas
  <2>1. rec' = rec
    BY <1>3 DEF WriteClient
  <2>2. RecordHolds'
    BY <1>1, <2>1 DEF IInv, RecordHolds
  <2>3. \A q \in Carried : CarriedHolds(q) => CarriedHolds(q)'
    BY <1>1, <2>1 DEF CarriedHolds, Carried
  <2> QED BY <2>1, <2>2, <2>3 DEF ReadHolds
<1> QED
  BY <1>2, <1>3

\* The same for a revocation.
LEMMA RecordRevoked ==
  ASSUME IInv, NEW cas \in Nat, UNCHANGED made, WriteClient(cas, "revoked", 0)
  PROVE  /\ RecordHolds' /\ (rec.status = "revoked" => rec'.status = "revoked")
         /\ \A c \in Commands : ReadHolds(c) => ReadHolds(c)'
         /\ \A q \in Carried : CarriedHolds(q) => CarriedHolds(q)'
<1>1. made \in Nat /\ rec \in Records /\ rec.version \in Nat
  BY DEF IInv, RecordHolds, Records
<1>2. CASE rec.version = cas
  <2>1. rec' = [status |-> "revoked", secret |-> 0, version |-> cas + 1]
    BY <1>2 DEF WriteClient
  <2>2. RecordHolds'
    BY <1>1, <2>1 DEF RecordHolds, Records
  <2>3. \A c \in Commands : ReadHolds(c) => ReadHolds(c)'
    BY <1>1, <1>2, <2>1 DEF ReadHolds, Commands
  <2>4. \A q \in Carried : CarriedHolds(q) => CarriedHolds(q)'
    BY <2>1 DEF CarriedHolds
  <2> QED BY <2>1, <2>2, <2>3, <2>4
<1>3. CASE rec.version # cas
  <2>1. rec' = rec
    BY <1>3 DEF WriteClient
  <2> QED BY <2>1 DEF IInv, RecordHolds, ReadHolds, CarriedHolds
<1> QED
  BY <1>2, <1>3

-----------------------------------------------------------------------------
(* The commands of the operators *)

\* A step that writes the record, of the operator o or of nobody, keeps the rest.
LEMMA WriteKeeps ==
  ASSUME IInv, RecordHolds', UNCHANGED req,
         \A c \in Commands : ReadHolds(c) => ReadHolds(c)',
         \A q \in Carried : CarriedHolds(q) => CarriedHolds(q)',
         \/ UNCHANGED op
         \/ \E o \in Operators : op' = [op EXCEPT ![o] = Idle]
  PROVE  IInv'
<1>1. RequestsHold'
  BY DEF IInv, RequestsHold
<1>2. op' \in [Operators -> Commands] /\ \A o \in Operators : op'[o] = op[o] \/ op'[o] = Idle
  BY DEF IInv, CommandsHold, Commands
<1>3. CommandsHold'
  BY <1>2 DEF IInv, CommandsHold, ReadHolds
<1> QED
  BY <1>1, <1>3 DEF IInv

\* What an operator between its reading and its write knows.
LEMMA ReadVersion ==
  ASSUME IInv, NEW o \in Operators, op[o].at \in {"rotate", "revoke"}
  PROVE  op[o].version \in Nat /\ (rec.version = op[o].version => rec.status = "active")
<1>1. op[o] \in Commands /\ op[o] # Idle /\ ReadHolds(op[o]) /\ rec.version \in Nat
  BY DEF IInv, CommandsHold, RecordHolds, Records, Idle
<1>2. op[o].version \in Nat
  BY <1>1 DEF Commands
<1> QED
  BY <1>1, <1>2 DEF ReadHolds

\* Every command keeps the invariant, and no command brings a revoked client back.
LEMMA CommandKeeps ==
  ASSUME IInv, NEW o \in Operators, Create(o) \/ ReadClient(o) \/ Rotate(o) \/ Revoke(o) \/ CommandFails(o)
  PROVE  IInv' /\ (rec.status = "revoked" => rec'.status = "revoked")
<1>1. CASE Create(o)
  <2>1. made' = made + 1 /\ WriteClient(0, "active", made + 1) /\ UNCHANGED <<op, req>>
    BY <1>1 DEF Create, NewSecret
  <2> QED BY <2>1, SecretMade, WriteKeeps
<1>2. CASE Rotate(o)
  <2>1. /\ made' = made + 1 /\ WriteClient(op[o].version, "active", made + 1) /\ UNCHANGED req
        /\ op' = [op EXCEPT ![o] = Idle] /\ op[o].at = "rotate"
    BY <1>2 DEF Rotate, NewSecret
  <2> QED BY <2>1, ReadVersion, SecretMade, WriteKeeps
<1>3. CASE Revoke(o)
  <2>1. /\ WriteClient(op[o].version, "revoked", 0) /\ UNCHANGED <<made, req>>
        /\ op' = [op EXCEPT ![o] = Idle] /\ op[o].at = "revoke"
    BY <1>3 DEF Revoke
  <2> QED BY <2>1, ReadVersion, RecordRevoked, WriteKeeps
<1>4. CASE ReadClient(o)
  <2>1. /\ UNCHANGED <<rec, made, req>> /\ rec.status = "active"
        /\ \E what \in {"rotate", "revoke"} : op' = [op EXCEPT ![o] = [at |-> what, version |-> rec.version]]
    BY <1>4 DEF ReadClient
  <2>2. rec.version \in Nat /\ op \in [Operators -> Commands]
    BY DEF IInv, RecordHolds, Records, CommandsHold
  <2>3. op' \in [Operators -> Commands] /\ \A p \in Operators : op'[p] = op[p] \/ op'[p].version = rec.version
    BY <2>1, <2>2 DEF Commands
  <2>4. CommandsHold'
    BY <2>1, <2>3 DEF IInv, CommandsHold, ReadHolds
  <2> QED BY <2>1, <2>4 DEF IInv, RecordHolds, RequestsHold, CarriedHolds
<1>5. CASE CommandFails(o)
  <2>1. UNCHANGED <<rec, made, req>> /\ op' = [op EXCEPT ![o] = Idle]
    BY <1>5 DEF CommandFails
  <2> QED BY <2>1, WriteKeeps DEF IInv, RecordHolds, ReadHolds, CarriedHolds
<1> QED
  BY <1>1, <1>2, <1>3, <1>4, <1>5

-----------------------------------------------------------------------------
(* The requests *)

\* A step of a request that leaves it as q.
LEMMA RequestStep ==
  ASSUME IInv, NEW r \in Requests, NEW q \in Carried, CarriedHolds(q),
         req' = [req EXCEPT ![r] = q], UNCHANGED <<rec, made, op>>
  PROVE  IInv'
<1>1. req' \in [Requests -> Carried] /\ \A p \in Requests : req'[p] = req[p] \/ req'[p] = q
  BY DEF IInv, RequestsHold
<1>2. RequestsHold'
  BY <1>1 DEF IInv, RequestsHold, CarriedHolds
<1> QED
  BY <1>2 DEF IInv, RecordHolds, CommandsHold, ReadHolds

LEMMA RequestKeeps ==
  ASSUME IInv, NEW r \in Requests,
         Check(r) \/ Verify(r) \/ Unavailable(r) \/ Fail(r) \/ Reset(r) \/ Issue(r)
  PROVE  IInv' /\ UNCHANGED rec
<1>1. /\ req \in [Requests -> Carried] /\ req[r] \in Carried /\ CarriedHolds(req[r])
      /\ made \in Nat /\ rec.secret \in Nat /\ rec.secret <= made
  BY DEF IInv, RequestsHold, RecordHolds, Records
<1>2. Idle \in Carried /\ CarriedHolds(Idle)
  BY DEF Carried, CarriedHolds
<1>3. CASE Check(r)
  <2>1. PICK cred \in {Wrong, Malformed} \cup 1..made :
             req' = [req EXCEPT ![r] = [at |-> IF cred = Malformed THEN "fail" ELSE "verify",
                                        cred |-> cred, from |-> ValidFrom]]
    BY <1>3 DEF Check
  <2> DEFINE q == [at |-> IF cred = Malformed THEN "fail" ELSE "verify", cred |-> cred, from |-> ValidFrom]
  <2>2. ValidFrom \in Nat /\ ValidFrom <= made + 1 /\ (rec.status = "active" => ValidFrom <= rec.secret)
    BY <1>1 DEF ValidFrom
  <2>3. q \in Carried
    BY <1>1, <2>1, <2>2 DEF Carried
  <2>4. CarriedHolds(q)
    BY <2>2 DEF CarriedHolds
  <2>5. UNCHANGED <<rec, made, op>>
    BY <1>3 DEF Check
  <2> HIDE DEF q
  <2>6. req' = [req EXCEPT ![r] = q]
    BY <2>1 DEF q
  <2> QED BY <2>3, <2>4, <2>5, <2>6, RequestStep
<1>4. CASE Verify(r)
  <2> DEFINE q == [req[r] EXCEPT !.at = IF Verifies(req[r].cred) THEN "reset" ELSE "fail"]
  <2>1. req' = [req EXCEPT ![r] = q] /\ UNCHANGED <<rec, made, op>> /\ req[r].at = "verify"
    BY <1>1, <1>4 DEF Verify, Goes
  <2>2. req[r] \in Carried \ {Idle}
    BY <1>1, <2>1 DEF Idle
  <2>3. q \in Carried
    BY <2>2 DEF Carried
  <2>4. CarriedHolds(q)
    BY <1>1, <2>2 DEF CarriedHolds, Carried, Verifies
  <2> HIDE DEF q
  <2> QED BY <2>1, <2>3, <2>4, RequestStep
<1>5. CASE Reset(r)
  <2> DEFINE q == [req[r] EXCEPT !.at = "issue"]
  <2>1. req' = [req EXCEPT ![r] = q] /\ UNCHANGED <<rec, made, op>> /\ req[r].at = "reset"
    BY <1>1, <1>5 DEF Reset, Goes
  <2>2. req[r] \in Carried \ {Idle}
    BY <1>1, <2>1 DEF Idle
  <2>3. q \in Carried
    BY <2>2 DEF Carried
  <2>4. CarriedHolds(q)
    BY <1>1, <2>1, <2>2 DEF CarriedHolds, Carried
  <2> HIDE DEF q
  <2> QED BY <2>1, <2>3, <2>4, RequestStep
<1>6. CASE Unavailable(r) \/ Fail(r) \/ Issue(r)
  <2>1. req' = [req EXCEPT ![r] = Idle] /\ UNCHANGED <<rec, made, op>>
    BY <1>6 DEF Unavailable, Fail, Issue
  <2> QED BY <1>2, <2>1, RequestStep
<1> QED
  BY <1>3, <1>4, <1>5, <1>6

-----------------------------------------------------------------------------
(* The theorems *)

LEMMA InitIInv == Init => IInv
BY DEF Init, IInv, RecordHolds, CommandsHold, RequestsHold, Records, Commands, Carried, ReadHolds,
       CarriedHolds, NoRecord

LEMMA NextIInv == IInv /\ [Next]_vars => IInv' /\ (rec.status = "revoked" => rec'.status = "revoked")
<1> SUFFICES ASSUME IInv, [Next]_vars PROVE IInv' /\ (rec.status = "revoked" => rec'.status = "revoked")
  OBVIOUS
<1>1. CASE Tick \/ UNCHANGED vars
  <2>1. UNCHANGED <<rec, made, op, req>>
    BY <1>1 DEF Tick, vars
  <2> QED BY <2>1 DEF IInv, RecordHolds, CommandsHold, RequestsHold, ReadHolds, CarriedHolds
<1> QED
  BY <1>1, CommandKeeps, RequestKeeps DEF Next

\* What is recorded, read and carried fits together in every reachable state.
THEOREM RecordsInvariance == Spec => []IInv
BY InitIInv, NextIInv, PTL DEF Spec

\* A revoked client stays revoked, whatever rotations, revocations and creations
\* any number of operators have under way (provisioning/clients.go:96).
THEOREM RevokedIsForGood == Spec => RevokedStaysRevoked
<1>1. IInv /\ [Next]_vars => [rec.status = "revoked" => rec'.status = "revoked"]_vars
  BY NextIInv
<1> QED
  BY <1>1, RecordsInvariance, PTL DEF Spec, RevokedStaysRevoked

\* A request that begins after its secret was replaced or its client revoked
\* gets no token, whatever the operators do meanwhile (provisioning/clients.go:62).
THEOREM OldSecretsDie == Spec => []OldSecretDies
<1>1. IInv => OldSecretDies
  BY DEF IInv, RequestsHold, CarriedHolds, Carried, OldSecretDies, Idle
<1> QED
  BY <1>1, RecordsInvariance, PTL

-----------------------------------------------------------------------------
(* The progression *)

LEMMA Policy ==
  /\ PairTolerance \in Nat \ {0} /\ IpTolerance \in Nat \ {0} /\ Initial \in Nat \ {0}
  /\ Factor \in Nat \ {0} /\ Cap \in Nat \ {0} /\ Forget \in Nat \ {0} /\ MaxCount \in Nat \ {0}
  /\ Initial <= Cap
BY PolicyAssumption

LEMMA Times ==
  ASSUME NEW a \in Nat, NEW b \in Nat \ {0}
  PROVE  a * b \in Nat /\ a * b >= a /\ (a # 0 => a * b # 0)
OBVIOUS

LEMMA TimesTimes ==
  ASSUME NEW a \in Nat, NEW b \in Nat, NEW c \in Nat
  PROVE  a * (b * c) = (a * b) * c
OBVIOUS

LEMMA PowerSteps ==
  Power[0] = 1 /\ \A e \in 1..MaxCount : Power[e] = Power[e - 1] * Factor
<1> DEFINE step == [x \in Nat |-> x * Factor]
           IsPower(f) == f = [e \in 0..MaxCount |-> IF e = 0 THEN 1 ELSE f[e - 1] * Factor]
<1>1. step \in [Nat -> Nat] /\ \A x \in Nat : step[x] = x * Factor
  BY Policy, Times
<1> HIDE DEF step
<1>2. MaxCount \in Nat /\ 1 \in Nat
  BY Policy
<1>3. PICK f \in [0..MaxCount -> Nat] : Iterates(f, MaxCount, 1, step)
  <2>1. step \in [Nat -> Nat]
    BY <1>1
  <2> QED BY <1>2, <2>1, IterateExists
<1>4. \A e \in 0..MaxCount : f[e] = IF e = 0 THEN 1 ELSE step[f[e - 1]]
  BY <1>3 DEF Iterates
<1>5. ASSUME NEW e \in 0..MaxCount, e # 0 PROVE step[f[e - 1]] = f[e - 1] * Factor
  <2>1. e - 1 \in 0..MaxCount
    BY <1>2, <1>5
  <2>2. f[e - 1] \in Nat
    BY <1>3, <2>1
  <2> QED BY <1>1, <2>2
<1>6. IsPower(f)
  <2>1. f = [e \in 0..MaxCount |-> f[e]]
    BY <1>3
  <2>2. \A e \in 0..MaxCount : f[e] = IF e = 0 THEN 1 ELSE f[e - 1] * Factor
    BY <1>4, <1>5
  <2> QED BY <2>1, <2>2
<1>7. Power = CHOOSE g : IsPower(g)
  BY DEF Power
<1>8. IsPower(Power)
  BY <1>6, <1>7
<1> DEFINE pow == Power
<1>9. pow = [e \in 0..MaxCount |-> IF e = 0 THEN 1 ELSE pow[e - 1] * Factor]
  BY <1>8
<1> HIDE DEF pow
<1>10. pow[0] = 1 /\ \A e \in 1..MaxCount : pow[e] = pow[e - 1] * Factor
  BY <1>9, Policy
<1> QED
  BY <1>10 DEF pow

Looped(d) == IF Factor > 1 /\ d < Cap THEN d * Factor ELSE d

LEMMA LoopSteps ==
  LuaLoop[0] = Initial /\ \A e \in 1..MaxCount : LuaLoop[e] = Looped(LuaLoop[e - 1])
<1> DEFINE step == [x \in Nat |-> Looped(x)]
           IsLoop(f) == f = [e \in 0..MaxCount |->
             IF e = 0 THEN Initial
             ELSE IF Factor > 1 /\ f[e - 1] < Cap THEN f[e - 1] * Factor ELSE f[e - 1]]
<1>1. step \in [Nat -> Nat] /\ \A x \in Nat : step[x] = Looped(x)
  BY Policy, Times DEF Looped
<1> HIDE DEF step
<1>2. MaxCount \in Nat /\ Initial \in Nat
  BY Policy
<1>3. PICK f \in [0..MaxCount -> Nat] : Iterates(f, MaxCount, Initial, step)
  <2>1. step \in [Nat -> Nat]
    BY <1>1
  <2> QED BY <1>2, <2>1, IterateExists
<1>4. \A e \in 0..MaxCount : f[e] = IF e = 0 THEN Initial ELSE step[f[e - 1]]
  BY <1>3 DEF Iterates
<1>5. ASSUME NEW e \in 0..MaxCount, e # 0 PROVE step[f[e - 1]] = Looped(f[e - 1])
  <2>1. e - 1 \in 0..MaxCount
    BY <1>2, <1>5
  <2>2. f[e - 1] \in Nat
    BY <1>3, <2>1
  <2> QED BY <1>1, <2>2
<1>6. IsLoop(f)
  <2>1. f = [e \in 0..MaxCount |-> f[e]]
    BY <1>3
  <2>2. \A e \in 0..MaxCount : f[e] = IF e = 0 THEN Initial ELSE Looped(f[e - 1])
    BY <1>4, <1>5
  <2> QED BY <2>1, <2>2 DEF Looped
<1>7. LuaLoop = CHOOSE g : IsLoop(g)
  BY DEF LuaLoop
<1>8. IsLoop(LuaLoop)
  BY <1>6, <1>7
<1> DEFINE loop == LuaLoop
<1>9. loop = [e \in 0..MaxCount |-> IF e = 0 THEN Initial ELSE Looped(loop[e - 1])]
  BY <1>8 DEF Looped
<1> HIDE DEF loop
<1>10. loop[0] = Initial /\ \A e \in 1..MaxCount : loop[e] = Looped(loop[e - 1])
  BY <1>9, Policy
<1> QED
  BY <1>10 DEF loop

\* The loop follows the power until the cap, and stays beyond it.
LEMMA LoopIsPower ==
  \A e \in 0..MaxCount :
    /\ Power[e] \in Nat \ {0} /\ LuaLoop[e] \in Nat
    /\ LuaLoop[e] = Initial * Power[e] \/ (LuaLoop[e] >= Cap /\ Initial * Power[e] >= Cap)
<1> DEFINE Agree(p, l) == /\ p \in Nat \ {0} /\ l \in Nat
                          /\ l = Initial * p \/ (l >= Cap /\ Initial * p >= Cap)
           S == {e \in 0..MaxCount : Agree(Power[e], LuaLoop[e])}
<1>1. 0 \in S
  BY PowerSteps, LoopSteps, Policy
<1>2. ASSUME NEW p, NEW l, Agree(p, l) PROVE Agree(p * Factor, Looped(l))
  <2>1. p * Factor \in Nat \ {0} /\ l * Factor \in Nat /\ l * Factor >= l
    BY <1>2, Policy, Times
  <2>2. Initial * p \in Nat /\ Initial * (p * Factor) = (Initial * p) * Factor
        /\ (Initial * p) * Factor \in Nat /\ (Initial * p) * Factor >= Initial * p
    BY <1>2, Policy, Times, TimesTimes
  <2> DEFINE q == Initial * p
             r == (Initial * p) * Factor
  <2>3. q \in Nat /\ r \in Nat /\ r >= q /\ r = q * Factor
    BY <2>2
  <2>4. l = q \/ (l >= Cap /\ q >= Cap)
    BY <1>2
  <2> HIDE DEF q, r
  <2>5. Looped(l) = r \/ (Looped(l) >= Cap /\ r >= Cap)
    <3>1. CASE Factor > 1 /\ l < Cap
      BY <1>2, <2>3, <2>4, <3>1, Policy DEF Looped
    <3>2. CASE Factor > 1 /\ ~(l < Cap)
      BY <1>2, <2>3, <2>4, <3>2, Policy DEF Looped
    <3>3. CASE ~(Factor > 1)
      <4>1. Factor = 1
        BY <3>3, Policy
      <4> QED BY <1>2, <2>3, <2>4, <3>3, <4>1 DEF Looped
    <3> QED BY <3>1, <3>2, <3>3
  <2>6. Looped(l) \in Nat
    BY <1>2, <2>1 DEF Looped
  <2> QED BY <2>1, <2>2, <2>5, <2>6 DEF r
<1>3. ASSUME NEW e \in 0..MaxCount, e < MaxCount, e \in S PROVE e + 1 \in S
  <2>1. e + 1 \in 1..MaxCount /\ (e + 1) - 1 = e /\ e + 1 \in 0..MaxCount
    BY <1>3, Policy
  <2>2. Power[e + 1] = Power[e] * Factor /\ LuaLoop[e + 1] = Looped(LuaLoop[e])
    BY <2>1, PowerSteps, LoopSteps
  <2>3. Agree(Power[e], LuaLoop[e])
    BY <1>3
  <2> HIDE DEF Agree
  <2>4. Agree(Power[e + 1], LuaLoop[e + 1])
    BY <1>2, <2>2, <2>3
  <2> QED BY <2>1, <2>4
<1> HIDE DEF S
<1>4. \A e \in 0..MaxCount : e \in S
  BY <1>1, <1>3, Policy, IntervalInduction
<1> QED
  BY <1>4 DEF S

LEMMA ToleranceType == ASSUME NEW k \in Counters PROVE Tolerance(k) \in Nat \ {0}
BY Policy DEF Tolerance

\* luaFail computes the block of Policy.Block.
LEMMA LuaBlockIsBlock ==
  ASSUME NEW k \in Counters, NEW n \in 0..MaxCount
  PROVE  LuaBlock(k, n) = Block(k, n)
<1>1. CASE n <= Tolerance(k)
  BY <1>1 DEF LuaBlock, Block
<1>2. CASE ~(n <= Tolerance(k))
  <2> DEFINE e == n - Tolerance(k) - 1
             d == Initial * Power[e]
             l == LuaLoop[e]
  <2>1. e \in 0..MaxCount
    BY <1>2, ToleranceType, Policy
  <2>2. l \in Nat /\ Power[e] \in Nat \ {0} /\ (l = d \/ (l >= Cap /\ d >= Cap))
    BY <2>1, LoopIsPower
  <2>3. d \in Nat
    BY <2>2, Policy, Times
  <2>4. /\ LuaBlock(k, n) = IF l > Cap THEN Cap ELSE l
        /\ Block(k, n) = IF d < Cap THEN d ELSE Cap
    BY <1>2 DEF LuaBlock, Block
  <2> HIDE DEF d, l
  <2> QED BY <2>2, <2>3, <2>4, Policy
<1> QED
  BY <1>1, <1>2

\* One more failure never shortens the block.
LEMMA BlockGrows ==
  ASSUME NEW k \in Counters, NEW n \in 0..MaxCount
  PROVE  /\ Block(k, n) \in Nat /\ (n = 0 => Block(k, n) = 0)
         /\ n < MaxCount => Block(k, n) <= Block(k, n + 1)
<1>1. ASSUME NEW m \in 0..MaxCount, ~(m <= Tolerance(k))
      PROVE  m - Tolerance(k) - 1 \in 0..MaxCount
  BY <1>1, ToleranceType, Policy
<1>2. ASSUME NEW m \in 0..MaxCount PROVE Block(k, m) \in Nat
  <2>1. CASE m <= Tolerance(k)
    BY <2>1 DEF Block
  <2>2. CASE ~(m <= Tolerance(k))
    <3> DEFINE d == Initial * Power[m - Tolerance(k) - 1]
    <3>1. d \in Nat
      BY <1>1, <2>2, LoopIsPower, Policy, Times
    <3>2. Block(k, m) = IF d < Cap THEN d ELSE Cap
      BY <2>2 DEF Block
    <3> HIDE DEF d
    <3> QED BY <3>1, <3>2, Policy
  <2> QED BY <2>1, <2>2
<1>3. n = 0 => Block(k, n) = 0
  BY ToleranceType DEF Block
<1>4. ASSUME n < MaxCount PROVE Block(k, n) <= Block(k, n + 1)
  <2>1. n + 1 \in 0..MaxCount /\ Block(k, n) \in Nat /\ Block(k, n + 1) \in Nat
    BY <1>2, <1>4, Policy
  <2>2. CASE n <= Tolerance(k)
    <3>1. Block(k, n) = 0
      BY <2>2 DEF Block
    <3> QED BY <2>1, <3>1
  <2>3. CASE ~(n <= Tolerance(k))
    <3> DEFINE e == n - Tolerance(k) - 1
               c == Initial * Power[e]
               d == Initial * Power[e + 1]
    <3>1. e \in 0..MaxCount /\ e + 1 \in 1..MaxCount /\ (e + 1) - 1 = e
          /\ (n + 1) - Tolerance(k) - 1 = e + 1 /\ ~(n + 1 <= Tolerance(k))
      BY <1>4, <2>3, ToleranceType, Policy
    <3>2. Power[e] \in Nat \ {0} /\ Power[e + 1] = Power[e] * Factor
      BY <3>1, LoopIsPower, PowerSteps
    <3>3. c \in Nat /\ d = c * Factor
      BY <3>2, Policy, Times, TimesTimes
    <3>4. d \in Nat /\ d >= c
      BY <3>3, Policy, Times
    <3>5. /\ Block(k, n) = IF c < Cap THEN c ELSE Cap
          /\ Block(k, n + 1) = IF d < Cap THEN d ELSE Cap
      BY <2>3, <3>1 DEF Block
    <3> HIDE DEF c, d
    <3> QED BY <3>3, <3>4, <3>5, Policy
  <2> QED BY <2>2, <2>3
<1> QED
  BY <1>2, <1>3, <1>4
-----------------------------------------------------------------------------
(* The counters *)

Entry == [n : 0..MaxCount, block : Nat, life : Nat]

\* What is left of a block is at most the block of that many failures, and the
\* counter outlives it.
EntryHolds(k, e) == e.block <= Block(k, e.n) /\ (e.block > 0 => e.life > e.block)

StoreHolds(m) == m \in [Counters -> Entry] /\ \A k \in Counters : EntryHolds(k, m[k])

CountersInv == StoreHolds(redis) /\ StoreHolds(local)

\* Nothing of the block of an entry is lost from e to f.
Keeps(e, f) == f.block >= e.block

LEMMA NoEntryHolds == NoEntry \in Entry /\ NoEntry.block = 0 /\ \A k \in Counters : EntryHolds(k, NoEntry)
<1>1. NoEntry \in Entry /\ NoEntry.block = 0 /\ NoEntry.n = 0
  BY Policy DEF NoEntry, Entry
<1>2. \A k \in Counters : Block(k, 0) \in Nat
  BY BlockGrows, Policy
<1> QED
  BY <1>1, <1>2 DEF EntryHolds

\* A failure more: the block of the new count is no shorter than what was left.
LEMMA BumpedHolds ==
  ASSUME NEW k \in Counters, NEW e \in Entry, EntryHolds(k, e)
  PROVE  /\ More(e) \in 0..MaxCount
         /\ Bumped(e, More(e), Block(k, More(e))) \in Entry
         /\ EntryHolds(k, Bumped(e, More(e), Block(k, More(e))))
         /\ Keeps(e, Bumped(e, More(e), Block(k, More(e))))
<1> DEFINE n == More(e)
           b == Block(k, n)
           f == Bumped(e, n, b)
           left == IF b > e.block THEN b ELSE e.block
<1>1. e.n \in 0..MaxCount /\ e.block \in Nat /\ e.life \in Nat
  BY DEF Entry
<1>2. n \in 0..MaxCount /\ (n = e.n \/ (e.n < MaxCount /\ n = e.n + 1))
  BY <1>1, Policy DEF More
<1>3. b \in Nat /\ Block(k, e.n) \in Nat
  BY <1>1, <1>2, BlockGrows
<1>4. Block(k, e.n) <= b
  BY <1>1, <1>2, <1>3, BlockGrows
<1>5. e.block <= b
  BY <1>1, <1>3, <1>4 DEF EntryHolds
<1>6. f = [n |-> n, block |-> IF b > 0 THEN b ELSE e.block, life |-> left + Forget]
  BY DEF Bumped
<1> HIDE DEF n, b, f
<1>7. f.n = n /\ f.block = b /\ f.life = b + Forget /\ f \in Entry
  BY <1>1, <1>2, <1>3, <1>5, <1>6, Policy DEF Entry
<1>8. Block(k, f.n) = b
  BY <1>7 DEF b
<1> QED
  BY <1>1, <1>2, <1>3, <1>5, <1>7, <1>8, Policy DEF EntryHolds, Keeps, f, b, n

LEMMA LuaFailHolds ==
  ASSUME NEW ks, StoreHolds(redis)
  PROVE  StoreHolds(LuaFail(ks)) /\ \A k \in Counters : Keeps(redis[k], LuaFail(ks)[k])
<1>1. ASSUME NEW k \in Counters
      PROVE  LuaFail(ks)[k] \in Entry /\ EntryHolds(k, LuaFail(ks)[k]) /\ Keeps(redis[k], LuaFail(ks)[k])
  <2>1. redis[k] \in Entry /\ EntryHolds(k, redis[k]) /\ redis[k].block \in Nat
    BY DEF StoreHolds, Entry
  <2>2. CASE k \in ks
    <3>1. LuaFail(ks)[k] = Bumped(redis[k], More(redis[k]), LuaBlock(k, More(redis[k])))
      BY <2>2 DEF LuaFail
    <3>2. LuaBlock(k, More(redis[k])) = Block(k, More(redis[k]))
      BY <2>1, BumpedHolds, LuaBlockIsBlock
    <3> QED BY <2>1, <3>1, <3>2, BumpedHolds
  <2>3. CASE k \notin ks
    <3>1. LuaFail(ks)[k] = redis[k]
      BY <2>3 DEF LuaFail
    <3> QED BY <2>1, <3>1 DEF Keeps
  <2> QED BY <2>2, <2>3
<1>2. LuaFail(ks) = [k \in Counters |-> LuaFail(ks)[k]]
  BY DEF LuaFail
<1>3. LuaFail(ks) \in [Counters -> Entry]
  BY <1>1, <1>2
<1> QED
  BY <1>1, <1>3 DEF StoreHolds

\* Making room spares every block, and the counter that is counted keeps its own.
LEMMA BumpHolds ==
  ASSUME NEW m, StoreHolds(m), NEW k \in Counters
  PROVE  StoreHolds(Bump(m, k)) /\ \A j \in Counters : Keeps(m[j], Bump(m, k)[j])
<1> DEFINE full == k \notin Tracked(m) /\ Cardinality(Tracked(m)) >= MaxLocalKeys
           spared == [j \in Counters |-> IF m[j].block > 0 THEN m[j] ELSE NoEntry]
           room == IF full THEN spared ELSE m
           bumped == Bumped(room[k], More(room[k]), Block(k, More(room[k])))
<1>1. \A j \in Counters : m[j] \in Entry /\ EntryHolds(j, m[j]) /\ m[j].block \in Nat
  BY DEF StoreHolds, Entry
<1>2. StoreHolds(spared) /\ \A j \in Counters : Keeps(m[j], spared[j])
  BY <1>1, NoEntryHolds DEF StoreHolds, Keeps
<1>3. StoreHolds(m) /\ \A j \in Counters : Keeps(m[j], m[j])
  BY <1>1 DEF Keeps
<1> HIDE DEF spared
<1>4. StoreHolds(room) /\ \A j \in Counters : Keeps(m[j], room[j])
  BY <1>2, <1>3
<1>5. Bump(m, k) = room \/ Bump(m, k) = [room EXCEPT ![k] = bumped]
  BY DEF Bump, spared
<1> HIDE DEF room
<1>6. room[k] \in Entry /\ EntryHolds(k, room[k]) /\ room \in [Counters -> Entry]
  BY <1>4 DEF StoreHolds
<1>7. bumped \in Entry /\ EntryHolds(k, bumped) /\ Keeps(room[k], bumped)
  BY <1>6, BumpedHolds
<1> HIDE DEF bumped
<1>8. CASE Bump(m, k) = [room EXCEPT ![k] = bumped]
  <2>1. \A j \in Counters : Bump(m, k)[j] = IF j = k THEN bumped ELSE room[j]
    BY <1>6, <1>8
  <2>2. StoreHolds(Bump(m, k))
    BY <1>4, <1>6, <1>7, <1>8, <2>1 DEF StoreHolds
  <2>3. Keeps(m[k], bumped)
    <3>1. m[k].block \in Nat /\ room[k].block \in Nat /\ bumped.block \in Nat
      BY <1>1, <1>6, <1>7 DEF Entry
    <3> QED BY <1>4, <1>7, <3>1 DEF Keeps
  <2> QED BY <1>4, <2>1, <2>2, <2>3
<1> QED
  BY <1>4, <1>5, <1>8

LEMMA LocalFailHolds ==
  ASSUME NEW ks, StoreHolds(local)
  PROVE  StoreHolds(LocalFail(ks)) /\ \A k \in Counters : Keeps(local[k], LocalFail(ks)[k])
<1> DEFINE one == IF "pair" \in ks THEN Bump(local, "pair") ELSE local
<1>1. \A k \in Counters : local[k].block \in Nat
  BY DEF StoreHolds, Entry
<1>2. "pair" \in Counters /\ "ip" \in Counters
  BY DEF Counters
<1>3. StoreHolds(one) /\ \A k \in Counters : Keeps(local[k], one[k])
  BY <1>1, <1>2, BumpHolds DEF Keeps
<1>4. LocalFail(ks) = Bump(one, "ip")
  BY DEF LocalFail
<1> HIDE DEF one
<1>5. StoreHolds(Bump(one, "ip")) /\ \A k \in Counters : Keeps(one[k], Bump(one, "ip")[k])
  BY <1>2, <1>3, BumpHolds
<1>6. \A k \in Counters : one[k].block \in Nat /\ Bump(one, "ip")[k].block \in Nat
  BY <1>3, <1>5 DEF StoreHolds, Entry
<1>7. \A k \in Counters : Keeps(local[k], Bump(one, "ip")[k])
  BY <1>1, <1>3, <1>5, <1>6 DEF Keeps
<1> QED
  BY <1>4, <1>5, <1>7

LEMMA AgedHolds ==
  ASSUME NEW k \in Counters, NEW e \in Entry, EntryHolds(k, e)
  PROVE  Aged(e) \in Entry /\ EntryHolds(k, Aged(e)) /\ Aged(e).block + 1 >= e.block
<1>1. e.n \in 0..MaxCount /\ e.block \in Nat /\ e.life \in Nat
  BY DEF Entry
<1>2. CASE e.life <= 1
  <2>1. e.block = 0
    BY <1>1, <1>2 DEF EntryHolds
  <2>2. Aged(e) = NoEntry
    BY <1>2 DEF Aged
  <2> QED BY <2>1, <2>2, NoEntryHolds
<1>3. CASE ~(e.life <= 1)
  <2> DEFINE b == Sooner(e.block)
             f == [n |-> e.n, block |-> b, life |-> e.life - 1]
  <2>1. Aged(e) = f
    BY <1>3 DEF Aged
  <2>2. b \in Nat /\ b <= e.block /\ b + 1 >= e.block /\ (b > 0 => b = e.block - 1)
    BY <1>1 DEF Sooner
  <2>3. Block(k, e.n) \in Nat
    BY <1>1, BlockGrows
  <2> HIDE DEF b
  <2>4. f.n = e.n /\ f.block = b /\ f.life = e.life - 1
    OBVIOUS
  <2>5. f \in Entry
    BY <1>1, <1>3, <2>2 DEF Entry
  <2> HIDE DEF f
  <2> QED BY <1>1, <1>3, <2>1, <2>2, <2>3, <2>4, <2>5 DEF EntryHolds
<1> QED
  BY <1>2, <1>3

LEMMA StoreAges ==
  ASSUME NEW m, StoreHolds(m)
  PROVE  /\ StoreHolds([k \in Counters |-> Aged(m[k])])
         /\ \A k \in Counters : Aged(m[k]).block + 1 >= m[k].block
<1>1. ASSUME NEW k \in Counters
      PROVE  Aged(m[k]) \in Entry /\ EntryHolds(k, Aged(m[k])) /\ Aged(m[k]).block + 1 >= m[k].block
  <2>1. m[k] \in Entry /\ EntryHolds(k, m[k])
    BY DEF StoreHolds
  <2> QED BY <2>1, AgedHolds
<1> QED
  BY <1>1 DEF StoreHolds

\* What a step may do to the counters m.
Spares(m, new) ==
  \A k \in Counters :
    new[k].block + 1 >= m[k].block \/ (k = "pair" /\ new[k] = NoEntry /\ \E r \in Requests : req[r].at = "reset")

LEMMA KeptIsSpared ==
  ASSUME NEW m, NEW new, StoreHolds(m), StoreHolds(new), \A k \in Counters : Keeps(m[k], new[k])
  PROVE  Spares(m, new)
<1> SUFFICES ASSUME NEW k \in Counters PROVE new[k].block + 1 >= m[k].block
  BY DEF Spares
<1>1. m[k].block \in Nat /\ new[k].block \in Nat
  BY DEF StoreHolds, Entry
<1> QED
  BY <1>1 DEF Keeps

LEMMA SameIsSpared == ASSUME NEW m, StoreHolds(m) PROVE Spares(m, m)
<1>1. \A k \in Counters : m[k].block \in Nat
  BY DEF StoreHolds, Entry
<1> QED
  BY <1>1 DEF Spares

LEMMA ResetHolds ==
  ASSUME NEW m, StoreHolds(m), NEW r \in Requests, req[r].at = "reset"
  PROVE  StoreHolds([m EXCEPT !["pair"] = NoEntry]) /\ Spares(m, [m EXCEPT !["pair"] = NoEntry])
<1> DEFINE new == [m EXCEPT !["pair"] = NoEntry]
<1>1. new \in [Counters -> Entry] /\ \A k \in Counters : new[k] = IF k = "pair" THEN NoEntry ELSE m[k]
  BY NoEntryHolds DEF StoreHolds
<1>2. \A k \in Counters : m[k].block \in Nat /\ EntryHolds(k, m[k])
  BY DEF StoreHolds, Entry
<1> HIDE DEF new
<1>3. StoreHolds(new)
  BY <1>1, <1>2, NoEntryHolds DEF StoreHolds
<1>4. Spares(m, new)
  BY <1>1, <1>2 DEF Spares
<1> QED
  BY <1>3, <1>4 DEF new

\* Every step keeps the counters within the progression, and spares the blocks.
LEMMA CountersStep ==
  ASSUME CountersInv, [Next]_vars
  PROVE  /\ StoreHolds(redis') /\ Spares(redis, redis')
         /\ StoreHolds(local') /\ Spares(local, local')
<1>1. StoreHolds(redis) /\ StoreHolds(local) /\ Spares(redis, redis) /\ Spares(local, local)
  BY SameIsSpared DEF CountersInv
<1>2. CASE UNCHANGED <<redis, local>>
  BY <1>1, <1>2
<1>3. ASSUME NEW r \in Requests, Fail(r)
      PROVE  /\ StoreHolds(redis') /\ Spares(redis, redis')
             /\ StoreHolds(local') /\ Spares(local, local')
  <2>1. PICK ks : redis' \in {redis, LuaFail(ks)} /\ local' \in {local, LocalFail(ks)}
    BY <1>3 DEF Fail
  <2>2. StoreHolds(LuaFail(ks)) /\ Spares(redis, LuaFail(ks))
    BY <1>1, LuaFailHolds, KeptIsSpared
  <2>3. StoreHolds(LocalFail(ks)) /\ Spares(local, LocalFail(ks))
    BY <1>1, LocalFailHolds, KeptIsSpared
  <2> QED BY <1>1, <2>1, <2>2, <2>3
<1>4. ASSUME NEW r \in Requests, Reset(r)
      PROVE  /\ StoreHolds(redis') /\ Spares(redis, redis')
             /\ StoreHolds(local') /\ Spares(local, local')
  <2>1. /\ req[r].at = "reset"
        /\ redis' \in {redis, [redis EXCEPT !["pair"] = NoEntry]}
        /\ local' \in {local, [local EXCEPT !["pair"] = NoEntry]}
    BY <1>4 DEF Reset
  <2> QED BY <1>1, <2>1, ResetHolds
<1>5. CASE Tick
  <2>1. redis' = [k \in Counters |-> Aged(redis[k])] /\ local' = [k \in Counters |-> Aged(local[k])]
    BY <1>5 DEF Tick
  <2>2. (\A k \in Counters : redis'[k] = Aged(redis[k])) /\ (\A k \in Counters : local'[k] = Aged(local[k]))
    BY <2>1
  <2>3. StoreHolds(redis') /\ StoreHolds(local')
    BY <1>1, <2>1, StoreAges
  <2>4. Spares(redis, redis') /\ Spares(local, local')
    BY <1>1, <2>2, StoreAges DEF Spares
  <2> QED BY <2>3, <2>4
<1>6. \/ UNCHANGED <<redis, local>> \/ Tick
      \/ \E r \in Requests : Fail(r) \/ Reset(r)
  BY DEF Next, vars, Create, ReadClient, Rotate, Revoke, CommandFails, Check, Verify, Unavailable, Issue
<1> QED
  BY <1>2, <1>3, <1>4, <1>5, <1>6

\* In Redis and in the memory of a replica, whichever of them counts and whatever
\* is evicted, a counter is within the progression and outlives its block.
THEOREM CountersInvariance == Spec => []CountersInv
<1>1. Init => CountersInv
  <2>1. Init => redis = [k \in Counters |-> NoEntry] /\ local = [k \in Counters |-> NoEntry]
    BY DEF Init
  <2> QED BY <2>1, NoEntryHolds DEF CountersInv, StoreHolds
<1>2. CountersInv /\ [Next]_vars => CountersInv'
  BY CountersStep DEF CountersInv, StoreHolds
<1> QED
  BY <1>1, <1>2, PTL DEF Spec

\* No block is cut short or forgotten before its time but by the right secret,
\* for any tolerance, whole factor, life and capacity (authblock.go:76).
THEOREM BlocksHold == Spec => BlockHolds
<1>1. CountersInv /\ [Next]_vars =>
        [\A k \in Counters :
           /\ redis'[k].block + 1 >= redis[k].block \/ (k = "pair" /\ redis'[k] = NoEntry /\ \E r \in Requests : req[r].at = "reset")
           /\ local'[k].block + 1 >= local[k].block \/ (k = "pair" /\ local'[k] = NoEntry /\ \E r \in Requests : req[r].at = "reset")]_vars
  BY CountersStep DEF Spares
<1> QED
  BY <1>1, CountersInvariance, PTL DEF Spec, BlockHolds

\* The script of Redis and Policy.Block compute the same block, for any
\* whole factor and any number of failures (authblock.go:76).
THEOREM FormulaIsOne == Spec => []SameFormula
<1>1. CountersInv => SameFormula
  <2> SUFFICES ASSUME CountersInv, NEW k \in Counters
               PROVE  LuaBlock(k, redis[k].n) = Block(k, redis[k].n)
    BY DEF SameFormula
  <2>1. redis[k].n \in 0..MaxCount
    BY DEF CountersInv, StoreHolds, Entry
  <2> QED BY <2>1, LuaBlockIsBlock
<1> QED
  BY <1>1, CountersInvariance, PTL

=============================================================================
