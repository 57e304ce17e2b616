------------------------------ MODULE TokenKeys ------------------------------
(* The signing key of the session tokens, from Vault to the API.              *)
(*                                                                            *)
(* Rotators (the service's `jwt schedule` and an operator's `rotate --now`)   *)
(* add versions of the key and raise the oldest version Vault keeps; the      *)
(* issuer signs with the newest; the validator keeps the public keys in       *)
(* memory and reloads them from time to time and when it meets a version it   *)
(* does not know.  Calls of rotators, issuer and validator interleave and     *)
(* may fail.  The key of the client tokens is handled by the same code with   *)
(* other names (client_issuer.go, client_validator.go).                       *)
(*                                                                            *)
(* Time is kept as ages, counted up to what the code compares them with; the  *)
(* rotators' clock may be ahead of Vault's.                                   *)
EXTENDS Naturals, Sequences

CONSTANTS
  Rotators,
  Period,       \* JWT_ROTACAO: age at which a version is replaced
  Validity,     \* JWT_VALIDADE: life of a token
  Leeway,       \* JWT_FOLGA
  Margin,       \* the 10 minutes added to both
  Skew,         \* how far the rotators' clock may be ahead of Vault's
  KidInterval,  \* the 30 s between reloads for an unknown version
  CallTime,     \* the longest a call may take
  Oldest,       \* the largest age the code or a property compares
  MaxVersion

ASSUME KeysAssumption ==
  /\ {Period, Validity, KidInterval, MaxVersion} \subseteq Nat \ {0}
  /\ {Leeway, Margin, Skew, CallTime} \subseteq Nat
  /\ Skew <= Margin
  /\ Oldest \in Nat /\ \A a \in {Validity + Leeway + Margin, Period, CallTime + KidInterval} : Oldest >= a

VARIABLES
  age,        \* age of each version of the key
  minVersion, \* min_decryption_version
  rot,        \* each rotator's cycle: where it is, and the minimum it will write
  known,      \* the issuer's last known version (0: none)
  job,        \* the issue in progress
  life,       \* for each version, how long its last token to expire is still accepted
  keys,       \* the versions in the validator's memory
  quiet,      \* time since lastReload
  load,       \* the reload in progress of each cause: the versions it read
  spoilt      \* the newest version when a reload last failed (history)

ringVars == <<age, minVersion>>
issueVars == <<known, job, life>>
validatorVars == <<keys, quiet, load, spoilt>>
vars == <<ringVars, rot, issueVars, validatorVars>>

Newest == Len(age)
Causes == {"period", "kid"}

\* A token is accepted until its expiry and the leeway.
Accepted == Validity + Leeway

Later(a, top) == IF a < top THEN a + 1 ELSE a
Sooner(a) == IF a > 0 THEN a - 1 ELSE 0

Idle == [at |-> "idle"]

\* What Vault returns for the key (publicKeys drops the versions below the minimum).
PublicKeys == minVersion..Newest

Init ==
  /\ age = <<0>> /\ minVersion = 1
  /\ rot = [r \in Rotators |-> Idle]
  /\ known = 0 /\ job = Idle /\ life = [v \in 1..MaxVersion |-> 0]
  /\ keys = {1} /\ quiet = 0 /\ load = [c \in Causes |-> Idle] /\ spoilt = 0

----------------------------------------------------------------------------
(* A rotator: Check *)

Goes(r, s) == rot' = [rot EXCEPT ![r] = s]

\* Mutant: the age of the version itself decides.
IsNewMinByOwnAge(m, ahead) ==
  LET gone(n) == age[n - 1] + ahead >= Accepted + Margin
  IN (\A n \in minVersion + 1..m : gone(n)) /\ (m < Newest => ~gone(m + 1))

\* m is the minimum a cycle leaves: version k goes once version k+1 is as old as
\* the last token signed with k may become.
IsNewMin(m, ahead) ==
  LET gone(n) == age[n] + ahead >= Accepted + Margin
  IN (\A n \in minVersion + 1..m : gone(n)) /\ (m < Newest => ~gone(m + 1))

\* After the (last) reading of the state: write the new minimum, if it rises.
Purges(r, ahead) ==
  \E m \in minVersion..Newest :
    /\ IsNewMin(m, ahead)
    /\ Goes(r, IF m > minVersion THEN [at |-> "config", min |-> m] ELSE Idle)

\* Reads the state and decides; `force` is rotate --now.
StartCheck(r) ==
  /\ rot[r] = Idle
  /\ \E force \in BOOLEAN, ahead \in 0..Skew :
       IF force \/ age[Newest] + ahead >= Period
       THEN Goes(r, [at |-> "rotate"]) ELSE Purges(r, ahead)
  /\ UNCHANGED <<ringVars, issueVars, validatorVars>>

\* A new version.
Rotate(r) ==
  /\ rot[r].at = "rotate" /\ Newest < MaxVersion
  /\ age' = Append(age, 0) /\ Goes(r, [at |-> "reread"])
  /\ UNCHANGED <<minVersion, issueVars, validatorVars>>

\* Reads the state again and decides the minimum.
Reread(r) ==
  /\ rot[r].at = "reread"
  /\ \E ahead \in 0..Skew : Purges(r, ahead)
  /\ UNCHANGED <<ringVars, issueVars, validatorVars>>

\* Vault takes any minimum, also one below the present one.
WriteMin(r) ==
  /\ rot[r].at = "config"
  /\ minVersion' = rot[r].min /\ Goes(r, Idle)
  /\ UNCHANGED <<age, issueVars, validatorVars>>

\* A call fails: the cycle ends.
CheckFails(r) ==
  /\ rot[r] # Idle /\ Goes(r, Idle)
  /\ UNCHANGED <<ringVars, issueVars, validatorVars>>

----------------------------------------------------------------------------
(* The issuer: Issue *)

\* The claims, and the version the header names: the last known one, or the
\* newest public key.
StartIssue ==
  /\ job = Idle
  /\ job' = [at |-> "sign", try |-> 0, left |-> Accepted,
             v |-> IF known = 0 THEN Newest ELSE known]
  /\ UNCHANGED <<ringVars, rot, known, life, validatorVars>>

\* sign: Vault uses its newest version, and says which it was.
SigningVersion == Newest

\* When Vault signs with another version than the header names, the header is
\* made again, once.
Sign ==
  /\ job.at = "sign"
  /\ known' = SigningVersion
  /\ IF SigningVersion = job.v
     THEN life' = [life EXCEPT ![job.v] = IF job.left > @ THEN job.left ELSE @] /\ job' = Idle
     ELSE UNCHANGED life /\ job' = IF job.try = 0 THEN [job EXCEPT !.try = 1, !.v = SigningVersion] ELSE Idle
  /\ UNCHANGED <<ringVars, rot, validatorVars>>

SignFails ==
  /\ job.at = "sign" /\ job' = Idle
  /\ UNCHANGED <<ringVars, rot, known, life, validatorVars>>

----------------------------------------------------------------------------
(* The validator *)

\* The versions of the tokens a request may bring that have not expired.
Presented == {v \in 1..Newest : life[v] > 0}

\* reload: the keys Vault has now, stored when the answer arrives.
Reads(c) == load' = [load EXCEPT ![c] = [at |-> "reading", ks |-> PublicKeys, age |-> 0]]

\* UpdatePeriodically.
PeriodicReload ==
  /\ load["period"] = Idle /\ Reads("period")
  /\ UNCHANGED <<ringVars, rot, issueVars, keys, quiet, spoilt>>

\* Mutant: lastReload is set by every request with an unknown version.
ReloadByKidEachTime ==
  /\ \E v \in Presented : v \notin keys
  /\ quiet' = 0
  /\ IF quiet >= KidInterval /\ load["kid"] = Idle THEN Reads("kid") ELSE UNCHANGED load
  /\ UNCHANGED <<ringVars, rot, issueVars, keys, spoilt>>

\* Validate meets a version it does not know: reloadByKid, at most every 30 s.
\* Before that, and after a reload that does not bring it, the token is refused.
ReloadByKid ==
  /\ \E v \in Presented : v \notin keys
  /\ quiet >= KidInterval /\ load["kid"] = Idle
  /\ quiet' = 0 /\ Reads("kid")
  /\ UNCHANGED <<ringVars, rot, issueVars, keys, spoilt>>

Store(c) ==
  /\ load[c] # Idle
  /\ keys' = load[c].ks /\ quiet' = 0 /\ load' = [load EXCEPT ![c] = Idle]
  /\ UNCHANGED <<ringVars, rot, issueVars, spoilt>>

\* The call fails: the keys stay, and so does lastReload.
ReloadFails(c) ==
  /\ load[c] # Idle
  /\ load' = [load EXCEPT ![c] = Idle] /\ spoilt' = Newest
  /\ UNCHANGED <<ringVars, rot, issueVars, keys, quiet>>

----------------------------------------------------------------------------

\* Time passes; a reload does not last longer than its call may.
Tick ==
  /\ \A c \in Causes : load[c] # Idle => load[c].age < CallTime
  /\ age' = [v \in 1..Newest |-> Later(age[v], Oldest)]
  /\ life' = [v \in 1..MaxVersion |-> Sooner(life[v])]
  /\ job' = IF job = Idle THEN Idle ELSE [job EXCEPT !.left = Sooner(@)]
  /\ quiet' = Later(quiet, KidInterval)
  /\ load' = [c \in Causes |-> IF load[c] = Idle THEN Idle ELSE [load[c] EXCEPT !.age = @ + 1]]
  /\ UNCHANGED <<minVersion, rot, known, keys, spoilt>>

Next ==
  \/ \E r \in Rotators : StartCheck(r) \/ Rotate(r) \/ Reread(r) \/ WriteMin(r) \/ CheckFails(r)
  \/ StartIssue \/ Sign \/ SignFails
  \/ PeriodicReload \/ ReloadByKid \/ \E c \in Causes : Store(c) \/ ReloadFails(c)
  \/ Tick

Spec == Init /\ [][Next]_vars

----------------------------------------------------------------------------
(* Properties *)

\* The key of a token outlives the token: what was issued with an earlier
\* version stays valid until it expires (rotation.go:91), whoever rotates, with
\* how many rotators and clocks apart by less than the margin.
NoTokenOutlivesKey == \A v \in Presented : v >= minVersion

\* A token is refused for its key only while a reload that brings the key is on
\* its way, or in the first moments of the key: the time of a reload that began
\* before it, and the 30 s during which there is no other.  A reload that failed
\* since excuses it; two reloads that overlap, stored in the wrong order, do not.
RefusalIsShort ==
  \A v \in Presented : v \notin keys /\ quiet < KidInterval =>
    \/ load["kid"] # Idle /\ v \in load["kid"].ks
    \/ age[v] < CallTime + KidInterval
    \/ v <= spoilt
=============================================================================
