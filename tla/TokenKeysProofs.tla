--------------------------- MODULE TokenKeysProofs ---------------------------
(* The key of a token outlives the token, and the validator learns a new key  *)
(* soon: proved for any number of rotators, any periods, margins and          *)
(* intervals, and clocks apart by no more than the margin.                    *)
EXTENDS TokenKeys, TLAPS

Cycles ==
  {Idle, [at |-> "rotate"], [at |-> "reread"]} \cup [at : {"config"}, min : Nat \ {0}]
Jobs == {Idle} \cup [at : {"sign"}, try : {0, 1}, left : 0..Accepted, v : Nat]

RingTypeOK ==
  /\ age \in Seq(Nat) /\ Len(age) \in 1..MaxVersion
  /\ minVersion \in 1..Len(age)
  /\ rot \in [Rotators -> Cycles]
  /\ known \in Nat /\ job \in Jobs
  /\ life \in [1..MaxVersion -> 0..Accepted]

\* Version m may be the oldest: every version that replaced an earlier one is
\* as old as a token may become.
MayBeOldest(m) == \A n \in 2..m : age[n] >= Accepted

\* A rotator that is about to write a minimum decided it on ages that only grow
\* since; a token and the version after its own are never both young.
OldEnough ==
  /\ MayBeOldest(minVersion)
  /\ \A r \in Rotators : rot[r].at = "config" => rot[r].min <= Len(age) /\ MayBeOldest(rot[r].min)
  /\ \A v \in 1..Len(age) - 1 : life[v] > 0 => life[v] + age[v + 1] <= Accepted

IInv == RingTypeOK /\ OldEnough

LEMMA AcceptedType == Accepted \in Nat /\ Accepted > 0
BY KeysAssumption DEF Accepted

LEMMA InitIInv == Init => IInv
<1> SUFFICES ASSUME Init PROVE IInv
  OBVIOUS
<1>1. age = <<0>> /\ Len(age) = 1 /\ minVersion = 1 /\ known = 0 /\ job = Idle
  BY DEF Init
<1>2. MaxVersion \in Nat \ {0}
  BY KeysAssumption
<1>3. RingTypeOK
  BY <1>1, <1>2, AcceptedType DEF Init, RingTypeOK, Cycles, Jobs
<1>4. OldEnough
  BY <1>1 DEF Init, OldEnough, MayBeOldest, Idle
<1> QED
  BY <1>3, <1>4 DEF IInv

\* The decision of a cycle: the clock may be ahead, but not by more than the
\* margin the code adds.
LEMMA NewMinIsOldEnough ==
  ASSUME IInv, NEW m \in minVersion..Newest, NEW ahead \in 0..Skew, IsNewMin(m, ahead)
  PROVE  MayBeOldest(m)
<1> SUFFICES ASSUME NEW n \in 2..m PROVE age[n] >= Accepted
  BY DEF MayBeOldest
<1>1. m \in Nat /\ minVersion \in Nat /\ Len(age) \in Nat /\ m <= Len(age) /\ age[n] \in Nat
  BY DEF IInv, RingTypeOK, Newest
<1>2. CASE n <= minVersion
  BY <1>1, <1>2 DEF IInv, OldEnough, MayBeOldest
<1>3. CASE n > minVersion
  <2>1. age[n] + ahead >= Accepted + Margin
    BY <1>1, <1>3 DEF IsNewMin
  <2>2. ahead <= Margin /\ ahead \in Nat /\ Margin \in Nat
    BY KeysAssumption
  <2> QED BY <1>1, <2>1, <2>2, AcceptedType
<1> QED
  BY <1>1, <1>2, <1>3

\* Steps of a rotator that touch nothing but its own cycle.
LEMMA CycleKeeps ==
  ASSUME IInv, NEW r \in Rotators, NEW s \in Cycles, Goes(r, s),
         s.at = "config" => s.min <= Len(age) /\ MayBeOldest(s.min),
         UNCHANGED <<ringVars, issueVars>>
  PROVE  IInv'
<1>1. rot' = [rot EXCEPT ![r] = s] /\ rot' \in [Rotators -> Cycles]
  BY DEF Goes, IInv, RingTypeOK
<1>2. UNCHANGED <<age, minVersion, known, job, life>>
  BY DEF ringVars, issueVars
<1>3. RingTypeOK'
  BY <1>1, <1>2 DEF IInv, RingTypeOK
<1>4. \A q \in Rotators : rot'[q].at = "config" => rot'[q].min <= Len(age) /\ MayBeOldest(rot'[q].min)
  BY <1>1 DEF IInv, RingTypeOK, OldEnough
<1>5. OldEnough'
  BY <1>2, <1>4 DEF IInv, OldEnough, MayBeOldest
<1> QED
  BY <1>3, <1>5 DEF IInv

LEMMA PurgesKeeps ==
  ASSUME IInv, NEW r \in Rotators, NEW ahead \in 0..Skew, Purges(r, ahead),
         UNCHANGED <<ringVars, issueVars>>
  PROVE  IInv'
<1>1. PICK m \in minVersion..Newest :
        /\ IsNewMin(m, ahead)
        /\ Goes(r, IF m > minVersion THEN [at |-> "config", min |-> m] ELSE Idle)
  BY DEF Purges
<1>2. MayBeOldest(m) /\ m \in Nat \ {0} /\ m <= Len(age)
  BY <1>1, NewMinIsOldEnough DEF IInv, RingTypeOK, Newest
<1>3. CASE m > minVersion
  <2> DEFINE s == [at |-> "config", min |-> m]
  <2>1. s \in Cycles /\ s.min <= Len(age) /\ MayBeOldest(s.min)
    BY <1>2 DEF Cycles
  <2>2. Goes(r, s)
    BY <1>1, <1>3
  <2> QED BY <2>1, <2>2, CycleKeeps
<1>4. CASE ~(m > minVersion)
  BY <1>1, <1>4, CycleKeeps DEF Cycles, Idle
<1> QED
  BY <1>3, <1>4

LEMMA RotateKeeps ==
  ASSUME IInv, NEW r \in Rotators, Rotate(r)
  PROVE  IInv'
<1>1. /\ age' = Append(age, 0) /\ rot' = [rot EXCEPT ![r] = [at |-> "reread"]]
      /\ UNCHANGED <<minVersion, known, job, life>>
      /\ Len(age) < MaxVersion /\ age \in Seq(Nat)
  BY DEF Rotate, Goes, issueVars, IInv, RingTypeOK, Newest
<1>2. /\ age' \in Seq(Nat) /\ Len(age') = Len(age) + 1
      /\ \A n \in 1..Len(age) : age'[n] = age[n]
      /\ age'[Len(age) + 1] = 0
  BY <1>1
<1>3. Len(age) \in Nat \ {0} /\ MaxVersion \in Nat
  BY KeysAssumption DEF IInv, RingTypeOK
<1>4. RingTypeOK'
  BY <1>1, <1>2, <1>3 DEF IInv, RingTypeOK, Cycles
<1>5. \A m \in Nat : m <= Len(age) /\ MayBeOldest(m) => MayBeOldest(m)'
  BY <1>2, <1>3 DEF MayBeOldest
<1>6. MayBeOldest(minVersion)'
  BY <1>1, <1>2, <1>3 DEF IInv, RingTypeOK, OldEnough, MayBeOldest
<1>7. ASSUME NEW q \in Rotators, rot'[q].at = "config"
      PROVE  rot'[q].min <= Len(age') /\ MayBeOldest(rot[q].min)' /\ rot'[q] = rot[q]
  <2>1. rot'[q] = rot[q] /\ rot[q] \in Cycles
    BY <1>1, <1>7 DEF IInv, RingTypeOK
  <2>2. rot[q].min \in Nat /\ rot[q].min <= Len(age) /\ MayBeOldest(rot[q].min)
    BY <1>7, <2>1 DEF IInv, OldEnough, Cycles, Idle
  <2>3. \A n \in 2..rot[q].min : age'[n] >= Accepted
    BY <1>2, <1>3, <2>2 DEF MayBeOldest
  <2> QED BY <1>2, <1>3, <2>1, <2>2, <2>3 DEF MayBeOldest
<1>8. ASSUME NEW v \in 1..Len(age') - 1, life'[v] > 0
      PROVE  life'[v] + age'[v + 1] <= Accepted
  <2>1. life'[v] = life[v] /\ life[v] \in 0..Accepted
    BY <1>1, <1>2, <1>3, <1>8 DEF IInv, RingTypeOK
  <2>2. CASE v = Len(age)
    BY <1>2, <2>1, <2>2, AcceptedType
  <2>3. CASE v < Len(age)
    <3>1. v \in 1..Len(age) - 1 /\ v + 1 \in 1..Len(age)
      BY <1>2, <1>3, <2>3
    <3>2. age'[v + 1] = age[v + 1] /\ life[v] > 0
      BY <1>2, <1>8, <2>1, <3>1
    <3> QED BY <2>1, <3>1, <3>2 DEF IInv, OldEnough
  <2> QED BY <1>2, <1>3, <2>2, <2>3
<1>9. OldEnough'
  BY <1>6, <1>7, <1>8 DEF OldEnough, MayBeOldest
<1> QED
  BY <1>4, <1>9 DEF IInv

LEMMA WriteMinKeeps ==
  ASSUME IInv, NEW r \in Rotators, WriteMin(r)
  PROVE  IInv'
<1>1. /\ rot[r].at = "config" /\ minVersion' = rot[r].min /\ rot' = [rot EXCEPT ![r] = Idle]
      /\ UNCHANGED <<age, known, job, life>>
  BY DEF WriteMin, Goes, issueVars
<1>2. rot[r].min \in Nat \ {0} /\ rot[r].min <= Len(age) /\ MayBeOldest(rot[r].min)
  BY <1>1 DEF IInv, RingTypeOK, OldEnough, Cycles, Idle
<1>3. RingTypeOK'
  BY <1>1, <1>2 DEF IInv, RingTypeOK, Cycles
<1>4. OldEnough'
  BY <1>1, <1>2 DEF IInv, RingTypeOK, OldEnough, MayBeOldest, Idle
<1> QED
  BY <1>3, <1>4 DEF IInv

LEMMA IssueKeeps ==
  ASSUME IInv, StartIssue \/ Sign \/ SignFails
  PROVE  IInv'
<1>1. UNCHANGED <<age, minVersion, rot>>
  BY DEF StartIssue, Sign, SignFails, ringVars
<1>2. Len(age) \in Nat \ {0} /\ Len(age) <= MaxVersion /\ MaxVersion \in Nat
  BY KeysAssumption DEF IInv, RingTypeOK
<1>3. known' \in Nat /\ job' \in Jobs
  <2>1. known \in Nat /\ job \in Jobs
    BY DEF IInv, RingTypeOK
  <2>2. CASE StartIssue
    BY <1>2, <2>1, <2>2, AcceptedType DEF StartIssue, Jobs, Newest
  <2>3. CASE Sign
    BY <1>2, <2>1, <2>3 DEF Sign, Jobs, Idle, SigningVersion, Newest
  <2>4. CASE SignFails
    BY <2>1, <2>4 DEF SignFails, Jobs
  <2> QED BY <2>2, <2>3, <2>4
<1>4. /\ life' \in [1..MaxVersion -> 0..Accepted]
      /\ \A v \in 1..Len(age) - 1 : life'[v] = life[v]
  <2>1. life \in [1..MaxVersion -> 0..Accepted] /\ job \in Jobs
    BY DEF IInv, RingTypeOK
  <2>2. CASE UNCHANGED life
    BY <1>2, <2>1, <2>2
  <2>3. CASE life' # life
    <3>1. /\ job.at = "sign" /\ job.v = Len(age)
          /\ life' = [life EXCEPT ![job.v] = IF job.left > @ THEN job.left ELSE @]
      BY <2>3 DEF StartIssue, Sign, SignFails, SigningVersion, Newest
    <3>2. job.left \in 0..Accepted
      BY <2>1, <3>1 DEF Jobs, Idle
    <3> QED BY <1>2, <2>1, <3>1, <3>2
  <2> QED BY <2>2, <2>3
<1>5. RingTypeOK'
  BY <1>1, <1>3, <1>4 DEF IInv, RingTypeOK
<1>6. OldEnough'
  BY <1>1, <1>4 DEF IInv, OldEnough, MayBeOldest
<1> QED
  BY <1>5, <1>6 DEF IInv

LEMMA TickKeeps ==
  ASSUME IInv, Tick
  PROVE  IInv'
<1>1. /\ age' = [v \in 1..Len(age) |-> Later(age[v], Oldest)]
      /\ life' = [v \in 1..MaxVersion |-> Sooner(life[v])]
      /\ job' = IF job = Idle THEN Idle ELSE [job EXCEPT !.left = Sooner(@)]
      /\ UNCHANGED <<minVersion, rot, known>>
  BY DEF Tick, Newest
<1>2. /\ age \in Seq(Nat) /\ Len(age) \in 1..MaxVersion /\ MaxVersion \in Nat
      /\ life \in [1..MaxVersion -> 0..Accepted] /\ job \in Jobs
  BY KeysAssumption DEF IInv, RingTypeOK
<1>3. \A v \in 1..Len(age) : /\ Later(age[v], Oldest) \in Nat
                             /\ Later(age[v], Oldest) \in {age[v], age[v] + 1}
  BY <1>2 DEF Later
<1>4. /\ age' \in Seq(Nat) /\ Len(age') = Len(age)
      /\ \A v \in 1..Len(age) : age'[v] \in {age[v], age[v] + 1}
  BY <1>1, <1>2, <1>3
<1>5. /\ life' \in [1..MaxVersion -> 0..Accepted]
      /\ \A v \in 1..MaxVersion : life'[v] > 0 => life[v] > 0 /\ life'[v] = life[v] - 1
  BY <1>1, <1>2, AcceptedType DEF Sooner
<1>6. job' \in Jobs
  <2>1. CASE job = Idle
    BY <1>1, <2>1 DEF Jobs
  <2>2. CASE job # Idle
    <3>1. job \in [at : {"sign"}, try : {0, 1}, left : 0..Accepted, v : Nat]
      BY <1>2, <2>2 DEF Jobs
    <3>2. Sooner(job.left) \in 0..Accepted
      BY <3>1, AcceptedType DEF Sooner
    <3> QED BY <1>1, <2>2, <3>1, <3>2 DEF Jobs
  <2> QED BY <2>1, <2>2
<1>7. RingTypeOK'
  BY <1>1, <1>2, <1>4, <1>5, <1>6 DEF IInv, RingTypeOK
<1>8. ASSUME NEW m \in Nat, m <= Len(age), MayBeOldest(m)
      PROVE  \A n \in 2..m : age'[n] >= Accepted
  <2> TAKE n \in 2..m
  <2>1. n \in 1..Len(age) /\ age[n] >= Accepted /\ age[n] \in Nat
    BY <1>2, <1>8 DEF MayBeOldest
  <2>2. age'[n] \in {age[n], age[n] + 1}
    BY <1>4, <2>1
  <2> QED BY <2>1, <2>2, AcceptedType
<1>9. \A n \in 2..minVersion' : age'[n] >= Accepted
  <2>1. minVersion \in Nat /\ minVersion <= Len(age) /\ MayBeOldest(minVersion)
    BY <1>2 DEF IInv, RingTypeOK, OldEnough
  <2> QED BY <1>1, <1>8, <2>1
<1>10. ASSUME NEW r \in Rotators, rot'[r].at = "config"
       PROVE  rot'[r].min <= Len(age') /\ \A n \in 2..rot'[r].min : age'[n] >= Accepted
  <2>1. rot[r].min \in Nat /\ rot[r].min <= Len(age) /\ MayBeOldest(rot[r].min)
    BY <1>1, <1>10 DEF IInv, RingTypeOK, OldEnough, Cycles, Idle
  <2> QED BY <1>1, <1>4, <1>8, <2>1
<1>11. ASSUME NEW v \in 1..Len(age') - 1, life'[v] > 0
       PROVE  life'[v] + age'[v + 1] <= Accepted
  <2>1. v \in 1..Len(age) - 1 /\ v \in 1..MaxVersion /\ v + 1 \in 1..Len(age)
    BY <1>2, <1>4
  <2>2. life[v] > 0 /\ life'[v] = life[v] - 1 /\ age'[v + 1] \in {age[v + 1], age[v + 1] + 1}
    BY <1>4, <1>5, <1>11, <2>1
  <2>3. life[v] + age[v + 1] <= Accepted
    BY <2>1, <2>2 DEF IInv, OldEnough
  <2>4. life[v] \in Nat /\ age[v + 1] \in Nat
    BY <1>2, <2>1
  <2> QED BY <2>2, <2>3, <2>4, AcceptedType
<1>12. OldEnough'
  BY <1>9, <1>10, <1>11 DEF OldEnough, MayBeOldest
<1> QED
  BY <1>7, <1>12 DEF IInv

LEMMA NextIInv == IInv /\ [Next]_vars => IInv'
<1> SUFFICES ASSUME IInv, [Next]_vars PROVE IInv'
  OBVIOUS
<1>1. ASSUME NEW r \in Rotators, StartCheck(r) PROVE IInv'
  <2>1. PICK force \in BOOLEAN, ahead \in 0..Skew :
          IF force \/ age[Newest] + ahead >= Period
          THEN Goes(r, [at |-> "rotate"]) ELSE Purges(r, ahead)
    BY <1>1 DEF StartCheck
  <2>2. UNCHANGED <<ringVars, issueVars>>
    BY <1>1 DEF StartCheck
  <2>3. CASE Goes(r, [at |-> "rotate"])
    BY <2>2, <2>3, CycleKeeps DEF Cycles
  <2>4. CASE Purges(r, ahead)
    BY <2>2, <2>4, PurgesKeeps
  <2> QED BY <2>1, <2>3, <2>4
<1>2. ASSUME NEW r \in Rotators, Rotate(r) PROVE IInv'
  BY <1>2, RotateKeeps
<1>3. ASSUME NEW r \in Rotators, Reread(r) PROVE IInv'
  BY <1>3, PurgesKeeps DEF Reread
<1>4. ASSUME NEW r \in Rotators, WriteMin(r) PROVE IInv'
  BY <1>4, WriteMinKeeps
<1>5. ASSUME NEW r \in Rotators, CheckFails(r) PROVE IInv'
  BY <1>5, CycleKeeps DEF CheckFails, Cycles, Idle
<1>6. CASE StartIssue \/ Sign \/ SignFails
  BY <1>6, IssueKeeps
<1>7. ASSUME UNCHANGED <<ringVars, rot, issueVars>> PROVE IInv'
  BY <1>7 DEF ringVars, issueVars, IInv, RingTypeOK, OldEnough, MayBeOldest
<1>8. CASE PeriodicReload \/ ReloadByKid \/ \E c \in Causes : Store(c) \/ ReloadFails(c)
  BY <1>7, <1>8 DEF PeriodicReload, ReloadByKid, Store, ReloadFails
<1>9. CASE Tick
  BY <1>9, TickKeeps
<1>10. CASE UNCHANGED vars
  BY <1>7, <1>10 DEF vars
<1> QED
  BY <1>1, <1>2, <1>3, <1>4, <1>5, <1>6, <1>8, <1>9, <1>10 DEF Next

\* A token that is still accepted has its key: when its version was replaced it
\* had at most Accepted left, and the version that replaced it is not yet so old.
LEMMA IInvImpliesKept == IInv => NoTokenOutlivesKey
<1> SUFFICES ASSUME IInv, NEW v \in Presented, v < minVersion PROVE FALSE
  BY DEF NoTokenOutlivesKey, Presented, Newest, IInv, RingTypeOK
<1>1. /\ v \in Nat \ {0} /\ v + 1 \in 2..minVersion /\ minVersion \in 1..Len(age)
      /\ v \in 1..Len(age) - 1 /\ Len(age) <= MaxVersion
  BY DEF Presented, Newest, IInv, RingTypeOK
<1>2. age[v + 1] >= Accepted /\ age[v + 1] \in Nat
  BY <1>1 DEF IInv, OldEnough, MayBeOldest, RingTypeOK
<1>3. life[v] > 0 /\ life[v] + age[v + 1] <= Accepted
  <2>1. life[v] > 0
    BY DEF Presented
  <2> QED BY <1>1, <2>1 DEF IInv, OldEnough
<1>4. life[v] \in Nat
  <2>1. v \in 1..MaxVersion
    BY <1>1, KeysAssumption
  <2>2. life \in [1..MaxVersion -> 0..Accepted]
    BY DEF IInv, RingTypeOK
  <2> QED BY <2>1, <2>2, AcceptedType
<1> QED
  BY <1>2, <1>3, <1>4, AcceptedType

THEOREM KeysInvariance == Spec => []IInv
<1> QED BY InitIInv, NextIInv, PTL DEF Spec

\* rotation.go:91: what was issued with an earlier version of the key stays
\* valid until it expires, with any number of rotators at any step.
THEOREM TokensKeepTheirKey == Spec => []NoTokenOutlivesKey
<1> QED BY KeysInvariance, IInvImpliesKept, PTL

----------------------------------------------------------------------------
(* The validator *)

Loads == {Idle} \cup [at : {"reading"}, ks : SUBSET Nat, age : 0..CallTime]

ValidatorTypeOK ==
  /\ keys \in SUBSET Nat /\ quiet \in 0..KidInterval
  /\ load \in [Causes -> Loads] /\ spoilt \in Nat

\* A version that was replaced and has no token left gets no other one.
Retired(v) == v < Len(age) /\ life[v] = 0

\* What was read t ago lacks only versions that came since or are retired.
Brings(ks, t) == \A v \in 1..Len(age) : v \in ks \/ Retired(v) \/ age[v] <= t

LoadsBring == \A c \in Causes : load[c] # Idle => Brings(load[c].ks, load[c].age)

\* lastReload was set by a reload that was stored, which lacks no version older
\* than its call and the time since, or by one for an unknown version, which is
\* on its way or failed.
KeysArrive ==
  /\ LoadsBring
  /\ quiet < KidInterval =>
       \A v \in 1..Len(age) :
         \/ v \in keys \/ Retired(v) \/ age[v] <= CallTime + quiet \/ v <= spoilt
         \/ load["kid"] # Idle /\ v \in load["kid"].ks

VInv == IInv /\ ValidatorTypeOK /\ KeysArrive

LEMMA InitVInv == Init => VInv
<1> SUFFICES ASSUME Init PROVE VInv
  OBVIOUS
<1>1. /\ keys = {1} /\ quiet = 0 /\ load = [c \in Causes |-> Idle] /\ spoilt = 0 /\ Len(age) = 1
  BY DEF Init
<1>2. ValidatorTypeOK
  BY <1>1, KeysAssumption DEF ValidatorTypeOK, Loads
<1>3. KeysArrive
  BY <1>1 DEF KeysArrive, LoadsBring, Causes
<1> QED
  BY <1>2, <1>3, InitIInv DEF VInv

\* What a step does to the versions: they age in a Tick only, a new one has age
\* 0, and a retired one stays retired.
LEMMA VersionsStep ==
  ASSUME IInv, [Next]_vars
  PROVE  /\ Len(age) \in Nat /\ Len(age') \in {Len(age), Len(age) + 1}
         /\ \A v \in 1..Len(age) : /\ age[v] \in Nat /\ (Retired(v) => Retired(v)')
                                   /\ age'[v] = age[v] \/ (age'[v] = age[v] + 1 /\ Tick)
         /\ \A v \in 1..Len(age') : v \notin 1..Len(age) => age'[v] = 0
<1>1. /\ age \in Seq(Nat) /\ Len(age) \in Nat \ {0} /\ Len(age) <= MaxVersion /\ MaxVersion \in Nat
      /\ life \in [1..MaxVersion -> 0..Accepted]
  BY KeysAssumption DEF IInv, RingTypeOK
<1>2. \A v \in 1..Len(age) : age[v] \in Nat
  BY <1>1
<1>3. CASE UNCHANGED <<age, life>>
  BY <1>2, <1>1, <1>3 DEF Retired
<1>4. ASSUME NEW r \in Rotators, Rotate(r)
      PROVE  age' = Append(age, 0) /\ life' = life
  BY <1>4 DEF Rotate, issueVars
<1>5. CASE \E r \in Rotators : Rotate(r)
  <2>1. age' = Append(age, 0) /\ life' = life
    BY <1>4, <1>5
  <2>2. /\ Len(age') = Len(age) + 1 /\ \A v \in 1..Len(age) : age'[v] = age[v]
        /\ age'[Len(age) + 1] = 0
    BY <1>1, <2>1
  <2> QED BY <1>2, <1>1, <2>1, <2>2 DEF Retired
<1>6. CASE StartIssue \/ Sign \/ SignFails
  <2>1. age' = age /\ \A v \in 1..Len(age) - 1 : life'[v] = life[v]
    <3>1. CASE UNCHANGED life
      BY <1>6, <3>1 DEF StartIssue, Sign, SignFails, ringVars
    <3>2. CASE life' # life
      <4>1. /\ job.v = Len(age) /\ age' = age
            /\ life' = [life EXCEPT ![job.v] = IF job.left > @ THEN job.left ELSE @]
        BY <1>6, <3>2 DEF StartIssue, Sign, SignFails, SigningVersion, Newest, ringVars
      <4> QED BY <1>1, <4>1
    <3> QED BY <3>1, <3>2
  <2>2. ASSUME NEW v \in 1..Len(age), Retired(v) PROVE Retired(v)'
    <3>1. v \in 1..Len(age) - 1 /\ life[v] = 0
      BY <1>1, <2>2 DEF Retired
    <3>2. v < Len(age') /\ life'[v] = 0
      BY <1>1, <2>1, <3>1
    <3> QED BY <3>2 DEF Retired
  <2> QED BY <1>2, <1>1, <2>1, <2>2
<1>7. CASE Tick
  <2>1. /\ age' = [v \in 1..Len(age) |-> Later(age[v], Oldest)]
        /\ life' = [v \in 1..MaxVersion |-> Sooner(life[v])]
    BY <1>7 DEF Tick, Newest
  <2>2. \A v \in 1..Len(age) : Later(age[v], Oldest) \in {age[v], age[v] + 1}
    BY DEF Later
  <2>3. age' \in Seq(Nat) /\ Len(age') = Len(age) /\ \A v \in 1..Len(age) : age'[v] \in {age[v], age[v] + 1}
    BY <1>1, <2>1, <2>2
  <2>4. \A v \in 1..MaxVersion : life[v] = 0 => life'[v] = 0
    BY <2>1 DEF Sooner
  <2> QED BY <1>2, <1>1, <1>7, <2>3, <2>4 DEF Retired
<1>8. ASSUME NEW r \in Rotators, StartCheck(r) \/ Reread(r) \/ WriteMin(r) \/ CheckFails(r)
      PROVE  UNCHANGED <<age, life>>
  BY <1>8 DEF StartCheck, Reread, WriteMin, CheckFails, ringVars, issueVars
<1>9. ASSUME PeriodicReload \/ ReloadByKid \/ (\E c \in Causes : Store(c) \/ ReloadFails(c)) \/ UNCHANGED vars
      PROVE  UNCHANGED <<age, life>>
  BY <1>9 DEF PeriodicReload, ReloadByKid, Store, ReloadFails, ringVars, issueVars, vars
<1> QED
  BY <1>3, <1>5, <1>6, <1>7, <1>8, <1>9 DEF Next

\* What Vault returns lacks only what is retired.
LEMMA PublicKeysBring == ASSUME IInv PROVE Brings(PublicKeys, 0) /\ PublicKeys \in SUBSET Nat
<1>1. minVersion \in 1..Len(age) /\ Len(age) \in Nat /\ Len(age) <= MaxVersion /\ MaxVersion \in Nat
      /\ life \in [1..MaxVersion -> 0..Accepted]
  BY KeysAssumption DEF IInv, RingTypeOK
<1>2. ASSUME NEW v \in 1..Len(age), v \notin PublicKeys PROVE Retired(v)
  <2>1. v < minVersion /\ v < Len(age)
    BY <1>1, <1>2 DEF PublicKeys, Newest
  <2>2. ~(life[v] > 0)
    BY <1>1, <2>1, IInvImpliesKept DEF NoTokenOutlivesKey, Presented, Newest
  <2>3. life[v] \in 0..Accepted
    BY <1>1
  <2> QED BY <2>1, <2>2, <2>3, AcceptedType DEF Retired
<1> QED
  BY <1>1, <1>2 DEF Brings, PublicKeys, Newest

\* The same after a step.
LEMMA BringsAfter ==
  ASSUME IInv, [Next]_vars, NEW ks, NEW t \in Nat, NEW u \in Nat, Brings(ks, t),
         (u = t /\ ~Tick) \/ u = t + 1
  PROVE  \A v \in 1..Len(age') : v \in ks \/ Retired(v)' \/ age'[v] <= u
<1> TAKE v \in 1..Len(age')
<1>1. CASE v \in 1..Len(age)
  BY <1>1, VersionsStep DEF Brings
<1>2. CASE v \notin 1..Len(age)
  BY <1>2, VersionsStep
<1> QED
  BY <1>1, <1>2

\* A load that goes on, one that begins and one that ends.
LEMMA LoadsStep == ASSUME VInv, [Next]_vars PROVE load' \in [Causes -> Loads] /\ LoadsBring'
<1> USE DEF VInv
<1>1. load \in [Causes -> Loads] /\ CallTime \in Nat /\ Idle \in Loads
  BY KeysAssumption DEF ValidatorTypeOK, Loads
<1> DEFINE Arrives(l) == l # Idle => \A v \in 1..Len(age') : v \in l.ks \/ Retired(v)' \/ age'[v] <= l.age
<1>2. ASSUME \A c \in Causes : Arrives(load'[c])
      PROVE  LoadsBring'
  BY <1>2 DEF LoadsBring, Brings
<1>3. ASSUME NEW c \in Causes, load[c] # Idle
      PROVE  /\ load[c] \in [at : {"reading"}, ks : SUBSET Nat, age : 0..CallTime]
             /\ load[c].age \in Nat /\ Brings(load[c].ks, load[c].age)
  BY <1>1, <1>3 DEF Loads, KeysArrive, LoadsBring
<1>4. ASSUME NEW c \in Causes, ~Tick PROVE Arrives(load[c])
  BY <1>3, <1>4, BringsAfter
<1>5. CASE load' = load /\ ~Tick
  BY <1>1, <1>2, <1>4, <1>5
<1>6. CASE Tick
  <2>1. /\ load' = [c \in Causes |-> IF load[c] = Idle THEN Idle ELSE [load[c] EXCEPT !.age = @ + 1]]
        /\ \A c \in Causes : load[c] # Idle => load[c].age < CallTime
    BY <1>6 DEF Tick
  <2>2. ASSUME NEW c \in Causes, load[c] # Idle
        PROVE  load'[c] \in Loads /\ Arrives(load'[c])
    <3>1. load'[c].ks = load[c].ks /\ load'[c].age = load[c].age + 1 /\ load'[c] \in Loads
      BY <1>1, <1>3, <2>1, <2>2 DEF Loads
    <3>2. load[c].age \in Nat /\ load'[c].age \in Nat /\ Brings(load[c].ks, load[c].age)
      BY <1>3, <2>2, <3>1
    <3>3. \A v \in 1..Len(age') : v \in load[c].ks \/ Retired(v)' \/ age'[v] <= load[c].age + 1
      BY <3>1, <3>2, BringsAfter
    <3> QED BY <3>1, <3>3
  <2>3. ASSUME NEW c \in Causes, load[c] = Idle
        PROVE  load'[c] \in Loads /\ Arrives(load'[c])
    BY <1>1, <2>1, <2>3
  <2>4. load' \in [Causes -> Loads]
    BY <2>1, <2>2, <2>3
  <2> QED BY <1>2, <2>2, <2>3, <2>4
<1>7. CASE (PeriodicReload \/ ReloadByKid) /\ ~Tick
  <2>1. PICK c \in Causes : Reads(c)
    BY <1>7 DEF PeriodicReload, ReloadByKid, Causes
  <2> DEFINE new == [at |-> "reading", ks |-> PublicKeys, age |-> 0]
  <2>2. Brings(PublicKeys, 0) /\ PublicKeys \in SUBSET Nat
    BY PublicKeysBring
  <2>3. new \in Loads /\ new.ks = PublicKeys /\ new.age = 0
    BY <1>1, <2>2 DEF Loads
  <2>4. Arrives(new)
    BY <1>7, <2>2, <2>3, BringsAfter
  <2>5. load' = [load EXCEPT ![c] = new]
    BY <2>1 DEF Reads
  <2> HIDE DEF new
  <2>6. \A d \in Causes : load'[d] = IF d = c THEN new ELSE load[d]
    BY <1>1, <2>5
  <2>7. load' \in [Causes -> Loads]
    BY <1>1, <2>3, <2>5
  <2>8. \A d \in Causes : Arrives(load'[d])
    BY <1>4, <1>7, <2>4, <2>6
  <2> QED BY <1>2, <2>7, <2>8
<1>8. ASSUME NEW c \in Causes, Store(c) \/ ReloadFails(c), ~Tick
      PROVE  load' \in [Causes -> Loads] /\ LoadsBring'
  <2>1. load' = [load EXCEPT ![c] = Idle]
    BY <1>8 DEF Store, ReloadFails
  <2>2. \A d \in Causes : load'[d] = IF d = c THEN Idle ELSE load[d]
    BY <1>1, <2>1
  <2>3. \A d \in Causes : Arrives(load'[d])
    BY <1>4, <1>8, <2>2
  <2> QED BY <1>1, <1>2, <2>1, <2>3
<1>9. ASSUME NEW r \in Rotators, StartCheck(r) \/ Rotate(r) \/ Reread(r) \/ WriteMin(r) \/ CheckFails(r)
      PROVE  load' = load
  BY <1>9 DEF StartCheck, Rotate, Reread, WriteMin, CheckFails, validatorVars
<1>10. ASSUME StartIssue \/ Sign \/ SignFails \/ UNCHANGED vars PROVE load' = load
  BY <1>10 DEF StartIssue, Sign, SignFails, validatorVars, vars
<1> QED
  BY <1>5, <1>6, <1>7, <1>8, <1>9, <1>10 DEF Next

LEMMA ValidatorStep ==
  ASSUME VInv, [Next]_vars
  PROVE  keys' \in SUBSET Nat /\ quiet' \in 0..KidInterval /\ spoilt' \in Nat
<1>1. /\ keys \in SUBSET Nat /\ quiet \in 0..KidInterval /\ spoilt \in Nat
      /\ load \in [Causes -> Loads] /\ KidInterval \in Nat /\ Len(age) \in Nat
  BY KeysAssumption, VersionsStep DEF VInv, ValidatorTypeOK
<1>2. CASE UNCHANGED <<keys, quiet, spoilt>>
  BY <1>1, <1>2
<1>3. ASSUME NEW c \in Causes, Store(c)
      PROVE  keys' \in SUBSET Nat /\ quiet' = 0 /\ spoilt' = spoilt
  BY <1>1, <1>3 DEF Store, Loads
<1>4. ASSUME NEW c \in Causes, ReloadFails(c)
      PROVE  keys' = keys /\ quiet' = quiet /\ spoilt' = Len(age)
  BY <1>4 DEF ReloadFails, Newest
<1>5. CASE Tick
  BY <1>1, <1>5 DEF Tick, Later
<1>6. PeriodicReload => UNCHANGED <<keys, quiet, spoilt>>
  BY DEF PeriodicReload
<1>7. ReloadByKid => quiet' = 0 /\ UNCHANGED <<keys, spoilt>>
  BY DEF ReloadByKid
<1>8. ASSUME NEW r \in Rotators, StartCheck(r) \/ Rotate(r) \/ Reread(r) \/ WriteMin(r) \/ CheckFails(r)
      PROVE  UNCHANGED <<keys, quiet, spoilt>>
  BY <1>8 DEF StartCheck, Rotate, Reread, WriteMin, CheckFails, validatorVars
<1>9. CASE StartIssue \/ Sign \/ SignFails \/ UNCHANGED vars
  BY <1>1, <1>9 DEF StartIssue, Sign, SignFails, validatorVars, vars
<1>10. CASE quiet' = 0 /\ keys' \in SUBSET Nat /\ spoilt' = spoilt
  BY <1>1, <1>10
<1>11. CASE UNCHANGED <<keys, quiet>> /\ spoilt' = Len(age)
  BY <1>1, <1>11
<1>12. CASE PeriodicReload \/ ReloadByKid \/ \E c \in Causes : Store(c) \/ ReloadFails(c)
  BY <1>1, <1>2, <1>3, <1>4, <1>6, <1>7, <1>10, <1>11, <1>12
<1>13. CASE \E r \in Rotators : StartCheck(r) \/ Rotate(r) \/ Reread(r) \/ WriteMin(r) \/ CheckFails(r)
  BY <1>2, <1>8, <1>13
<1> QED
  BY <1>5, <1>9, <1>12, <1>13 DEF Next

\* A version that the validator lacks is young, on its way, or a reload failed.
LEMMA KeysStep ==
  ASSUME VInv, [Next]_vars, quiet' < KidInterval, NEW v \in 1..Len(age')
  PROVE  \/ v \in keys' \/ Retired(v)' \/ age'[v] <= CallTime + quiet' \/ v <= spoilt'
         \/ load'["kid"] # Idle /\ v \in load'["kid"].ks
<1>1. /\ keys \in SUBSET Nat /\ quiet \in 0..KidInterval /\ quiet' \in 0..KidInterval
      /\ spoilt \in Nat /\ CallTime \in Nat /\ KidInterval \in Nat /\ Len(age) \in Nat /\ IInv
      /\ load \in [Causes -> Loads]
  BY KeysAssumption, VersionsStep, ValidatorStep DEF VInv, ValidatorTypeOK
<1>2. ASSUME v \notin 1..Len(age) PROVE age'[v] <= CallTime + quiet'
  BY <1>1, <1>2, VersionsStep
<1>3. CASE ~Tick /\ UNCHANGED <<keys, quiet, spoilt>> /\ load'["kid"] = load["kid"]
  BY <1>1, <1>2, <1>3, VersionsStep DEF VInv, KeysArrive
<1>4. CASE Tick
  <2>1. keys' = keys /\ spoilt' = spoilt /\ quiet' = quiet + 1
    BY <1>1, <1>4 DEF Tick, Later
  <2>2. load["kid"] # Idle => load'["kid"] # Idle /\ load'["kid"].ks = load["kid"].ks
    <3>1. load'["kid"] = IF load["kid"] = Idle THEN Idle ELSE [load["kid"] EXCEPT !.age = @ + 1]
      BY <1>4 DEF Tick, Causes
    <3>2. load["kid"] # Idle => load["kid"] \in [at : {"reading"}, ks : SUBSET Nat, age : 0..CallTime]
      BY <1>1 DEF Causes, Loads
    <3> QED BY <1>1, <3>1, <3>2 DEF Idle
  <2>3. CASE v \in 1..Len(age)
    <3>1. /\ age[v] \in Nat /\ (Retired(v) => Retired(v)')
          /\ age'[v] \in {age[v], age[v] + 1} /\ quiet < KidInterval
      BY <1>1, <2>1, <2>3, VersionsStep
    <3>2. \/ v \in keys \/ Retired(v) \/ age[v] <= CallTime + quiet \/ v <= spoilt
          \/ load["kid"] # Idle /\ v \in load["kid"].ks
      BY <2>3, <3>1 DEF VInv, KeysArrive
    <3>3. age[v] <= CallTime + quiet => age'[v] <= CallTime + quiet'
      BY <1>1, <2>1, <3>1
    <3> QED BY <2>1, <2>2, <3>1, <3>2, <3>3
  <2> QED BY <1>2, <2>3
<1>5. CASE ReloadByKid
  <2>1. quiet' = 0 /\ UNCHANGED <<age, life>> /\ load' = [load EXCEPT !["kid"] = [at |-> "reading", ks |-> PublicKeys, age |-> 0]]
    BY <1>5 DEF ReloadByKid, Reads, ringVars, issueVars
  <2>2. load'["kid"] # Idle /\ load'["kid"].ks = PublicKeys
    BY <1>1, <2>1 DEF Causes, Idle
  <2>3. v \in PublicKeys \/ Retired(v) \/ age[v] <= 0
    BY <1>1, <2>1, PublicKeysBring DEF Brings
  <2> QED BY <1>1, <2>1, <2>2, <2>3, VersionsStep
<1>6. ASSUME NEW c \in Causes, Store(c)
      PROVE  v \in keys' \/ Retired(v)' \/ age'[v] <= CallTime + quiet'
  <2>1. keys' = load[c].ks /\ quiet' = 0 /\ UNCHANGED <<age, life>> /\ load[c] # Idle
    BY <1>6 DEF Store, ringVars, issueVars
  <2>2. load[c].age \in 0..CallTime /\ Brings(load[c].ks, load[c].age)
    BY <1>1, <2>1 DEF Loads, VInv, KeysArrive, LoadsBring
  <2>3. v \in load[c].ks \/ Retired(v) \/ age[v] <= load[c].age
    BY <2>1, <2>2 DEF Brings
  <2> QED BY <1>1, <2>1, <2>2, <2>3, VersionsStep
<1>7. ASSUME NEW c \in Causes, ReloadFails(c)
      PROVE  v <= spoilt'
  BY <1>1, <1>7 DEF ReloadFails, Newest, ringVars
<1>8. CASE PeriodicReload /\ ~Tick
  BY <1>1, <1>3, <1>8 DEF PeriodicReload, Reads, Causes
<1>9. ASSUME NEW r \in Rotators, StartCheck(r) \/ Rotate(r) \/ Reread(r) \/ WriteMin(r) \/ CheckFails(r)
      PROVE  UNCHANGED <<keys, quiet, spoilt, load>>
  BY <1>9 DEF StartCheck, Rotate, Reread, WriteMin, CheckFails, validatorVars
<1>10. ASSUME StartIssue \/ Sign \/ SignFails \/ UNCHANGED vars PROVE UNCHANGED <<keys, quiet, spoilt, load>>
  BY <1>10 DEF StartIssue, Sign, SignFails, validatorVars, vars
<1> QED
  BY <1>3, <1>4, <1>5, <1>6, <1>7, <1>8, <1>9, <1>10 DEF Next

LEMMA NextVInv == VInv /\ [Next]_vars => VInv'
<1> SUFFICES ASSUME VInv, [Next]_vars PROVE VInv'
  OBVIOUS
<1>1. IInv'
  BY NextIInv DEF VInv
<1>2. ValidatorTypeOK'
  BY LoadsStep, ValidatorStep DEF ValidatorTypeOK
<1>3. KeysArrive'
  BY LoadsStep, KeysStep DEF KeysArrive
<1> QED
  BY <1>1, <1>2, <1>3 DEF VInv

\* What a validator knows, and each reload under way will bring, lacks only young
\* versions, in every reachable state (validator.go, reload).
THEOREM ValidatorInvariance == Spec => []VInv
<1> QED BY InitVInv, NextVInv, PTL DEF Spec

\* validator.go, reloadByKid: a token of a key that Vault has is refused only in
\* the first moments of the key, while a reload brings it, or after one failed.
THEOREM RefusalsAreShort == Spec => []RefusalIsShort
<1>1. VInv => RefusalIsShort
  <2> SUFFICES ASSUME VInv, NEW v \in Presented, v \notin keys, quiet < KidInterval
               PROVE  \/ load["kid"] # Idle /\ v \in load["kid"].ks
                      \/ age[v] < CallTime + KidInterval
                      \/ v <= spoilt
    BY DEF RefusalIsShort
  <2>1. v \in 1..Len(age) /\ ~Retired(v)
    BY DEF Presented, Newest, Retired
  <2>2. quiet \in Nat /\ KidInterval \in Nat /\ CallTime \in Nat /\ age \in Seq(Nat)
    BY KeysAssumption DEF VInv, ValidatorTypeOK, IInv, RingTypeOK
  <2>3. age[v] \in Nat
    BY <2>1, <2>2
  <2> QED BY <2>1, <2>2, <2>3 DEF VInv, KeysArrive
<1> QED
  BY <1>1, ValidatorInvariance, PTL
=============================================================================
