------------------------------ MODULE KmsCalls ------------------------------
(* The calls of the API to the KMS service and of the service to Vault.       *)
(*                                                                            *)
(* A caller (a request the API is serving) passes the API's breaker and its   *)
(* semaphore, then makes up to two attempts, each with a time limit           *)
(* (adapter/kmsclient).  Each attempt runs a handler in the KMS service,      *)
(* which passes the breaker and the semaphore of the Vault client and asks    *)
(* Vault with retries and one new login (kms/vault).  When the API stops      *)
(* waiting, the context of the handler is cancelled and the handler goes on   *)
(* by itself until it notices.                                                *)
(*                                                                            *)
(* Time is a Tick, enabled only when nothing is due: no attempt out of time,  *)
(* nobody at a gate or a lock that is free, no cancelled request still going. *)
EXTENDS Breaker, FiniteSets

CONSTANTS
  Callers,
  ApiSlots, VaultSlots,   \* places of the two semaphores
  Timeout,                \* time limit of one attempt, on both sides
  Retries                 \* VAULT_RETENTATIVAS

ASSUME CallsAssumption ==
  /\ ApiSlots \in Nat \ {0} /\ VaultSlots \in Nat \ {0}
  /\ Timeout \in Nat \ {0} /\ Retries \in Nat

VARIABLES
  call,     \* the call of each caller
  hand,     \* the handler of each attempt, <<caller, 0 or 1>>
  apiBrk,   \* the API's breaker
  vltBrk,   \* the KMS service's breaker
  keeper,   \* the goroutine that keeps the Vault token alive
  vault,    \* what Vault does with a request
  token,    \* whether the service's Vault token is valid
  ready     \* the service's ready flag

vars == <<call, hand, apiBrk, vltBrk, keeper, vault, token, ready>>

Handlers == Callers \X {0, 1}

NoCall == [at |-> "idle", try |-> 0, age |-> 0, probe |-> FALSE]
NoHandler == [at |-> "none", t |-> 0, age |-> 0, probe |-> FALSE, gone |-> FALSE, said |-> "nothing"]
Sent == [NoHandler EXCEPT !.at = "sent"]
Asleep == [at |-> "asleep", age |-> 0]

Init ==
  /\ call = [c \in Callers |-> NoCall] /\ hand = [h \in Handlers |-> NoHandler]
  /\ apiBrk = Closed /\ vltBrk = Closed
  /\ keeper = Asleep /\ vault = "up" /\ token = TRUE /\ ready = TRUE

----------------------------------------------------------------------------
(* The API's client *)

Calling == {c \in Callers : call[c].at = "out"}

\* call: the breaker lets it in.  A refused call changes nothing.
Ask(c) ==
  /\ call[c] = NoCall /\ \A k \in {0, 1} : hand[<<c, k>>] = NoHandler
  /\ Allows(apiBrk)
  /\ apiBrk' = Admit(apiBrk)
  /\ call' = [call EXCEPT ![c] = [NoCall EXCEPT !.at = "gate", !.probe = Tripped(apiBrk)]]
  /\ UNCHANGED <<hand, vltBrk, keeper, vault, token, ready>>

\* The context ends at the semaphore: the breaker hears nothing.
GiveUp(c) ==
  /\ call[c].at = "gate"
  /\ call' = [call EXCEPT ![c] = NoCall]
  /\ UNCHANGED <<hand, apiBrk, vltBrk, keeper, vault, token, ready>>

\* A place in the semaphore, and the first attempt.
Enter(c) ==
  /\ call[c].at = "gate" /\ Cardinality(Calling) < ApiSlots
  /\ call' = [call EXCEPT ![c].at = "out"] /\ hand' = [hand EXCEPT ![<<c, 0>>] = Sent]
  /\ UNCHANGED <<apiBrk, vltBrk, keeper, vault, token, ready>>

\* The call ends, and its breaker hears how.
Ends(c, brk) == call' = [call EXCEPT ![c] = NoCall] /\ apiBrk' = brk

\* once gave ErrKMSUnavailable and left its handler as h: a second attempt, for
\* any cause (the cause is kept only as text, so a time limit is not told
\* apart), or a failure.
Unavailable(c, h) ==
  LET k == call[c].try
  IN IF k = 0
     THEN /\ call' = [call EXCEPT ![c].try = 1, ![c].age = 0]
          /\ hand' = [hand EXCEPT ![<<c, 0>>] = h, ![<<c, 1>>] = Sent]
          /\ UNCHANGED apiBrk
     ELSE hand' = [hand EXCEPT ![<<c, 1>>] = h] /\ Ends(c, Failure(apiBrk))

\* The handler the caller waits for.
Mine(c) == hand[<<c, call[c].try>>]

\* What the code leaves of a handler whose caller stopped waiting.
Abandoned(h) == IF h.at \in {"sent", "none", "done"} THEN NoHandler ELSE [h EXCEPT !.gone = TRUE]

\* Mutant: any answer at all is taken for a service that works.
AnswerOfAnyStatus(c) ==
  /\ call[c].at = "out" /\ Mine(c).at = "done"
  /\ hand' = [hand EXCEPT ![<<c, call[c].try>>] = NoHandler] /\ Ends(c, Success(apiBrk))
  /\ UNCHANGED <<vltBrk, keeper, vault, token, ready>>

\* A 2xx, another 4xx (an error for the caller, but the service is up), or the
\* service's 503 kms_indisponivel.
Answer(c) ==
  /\ call[c].at = "out" /\ Mine(c).at = "done"
  /\ IF Mine(c).said = "failed"
     THEN Unavailable(c, NoHandler)
     ELSE hand' = [hand EXCEPT ![<<c, call[c].try>>] = NoHandler] /\ Ends(c, Success(apiBrk))
  /\ UNCHANGED <<vltBrk, keeper, vault, token, ready>>

\* The attempt's time limit, or no connection to the service.
NoAnswer(c) ==
  /\ call[c].at = "out" /\ (call[c].age = Timeout \/ Mine(c).at = "none")
  /\ Unavailable(c, Abandoned(Mine(c)))
  /\ UNCHANGED <<vltBrk, keeper, vault, token, ready>>

\* The caller's own context ends during an attempt: no second one, a failure.
Cancel(c) ==
  /\ call[c].at = "out"
  /\ hand' = [hand EXCEPT ![<<c, call[c].try>>] = Abandoned(@)]
  /\ Ends(c, Failure(apiBrk))
  /\ UNCHANGED <<vltBrk, keeper, vault, token, ready>>

----------------------------------------------------------------------------
(* A handler of the KMS service and its Vault client *)

Asking == {h \in Handlers : hand[h].at \in {"out", "lock", "login"}}

\* loginMu: one login at a time, of a handler or of keepAlive.
LockFree == keeper.at # "login" /\ \A h \in Handlers : hand[h].at # "login"

KeepCalls == UNCHANGED <<call, apiBrk, keeper, vault, ready>>

\* The handler ends: with Vault's answer ("ok"), with the 503 (vaultError,
\* "failed") or with a 4xx of its own ("refused"); nobody reads it when the API
\* stopped waiting.
Replies(h, said) ==
  hand' = [hand EXCEPT ![h] = IF @.gone THEN NoHandler
                              ELSE [NoHandler EXCEPT !.at = "done", !.said = said]]

\* The service refuses the request before it asks Vault: the client's
\* certificate, the type or size of the body, its form.
Refuses(h) ==
  /\ hand[h].at = "sent"
  /\ Replies(h, "refused")
  /\ KeepCalls /\ UNCHANGED <<vltBrk, token>>

\* call: the breaker.
Arrive(h) ==
  /\ hand[h].at = "sent"
  /\ IF Allows(vltBrk)
     THEN /\ vltBrk' = Admit(vltBrk)
          /\ hand' = [hand EXCEPT ![h].at = "gate", ![h].probe = Tripped(vltBrk)]
     ELSE Replies(h, "failed") /\ UNCHANGED vltBrk
  /\ KeepCalls /\ UNCHANGED token

\* The context ends at the semaphore: the breaker hears nothing.
HandlerGivesUp(h) ==
  /\ hand[h].at = "gate" /\ hand[h].gone
  /\ hand' = [hand EXCEPT ![h] = NoHandler]
  /\ KeepCalls /\ UNCHANGED <<vltBrk, token>>

HandlerEnters(h) ==
  /\ hand[h].at = "gate" /\ Cardinality(Asking) < VaultSlots
  /\ hand' = [hand EXCEPT ![h].at = "out"]
  /\ KeepCalls /\ UNCHANGED <<vltBrk, token>>

\* The end of the loop with an error that is not transient, or with none.
Settled(h, said) == vltBrk' = Success(vltBrk) /\ Replies(h, said)

\* A transient error: again, while there are retries.
Transient(h) ==
  IF hand[h].t < Retries
  THEN hand' = [hand EXCEPT ![h].t = @ + 1, ![h].age = 0] /\ UNCHANGED vltBrk
  ELSE vltBrk' = Failure(vltBrk) /\ Replies(h, "failed")

\* raw: Vault serves the request, or refuses it (4xx: an unknown key).
Served(h) ==
  /\ hand[h].at = "out" /\ ~hand[h].gone /\ vault = "up" /\ token
  /\ \E said \in {"ok", "failed"} : Settled(h, said)
  /\ KeepCalls /\ UNCHANGED token

\* raw: 403.  Only the first time the service logs in again.
Forbidden(h) ==
  /\ hand[h].at = "out" /\ ~hand[h].gone /\ vault = "up" /\ ~token
  /\ IF hand[h].t = 0
     THEN hand' = [hand EXCEPT ![h].at = "lock", ![h].age = 0] /\ UNCHANGED vltBrk
     ELSE Settled(h, "failed")
  /\ KeepCalls /\ UNCHANGED token

\* raw: a 5xx, or no answer within the time limit.
Failing(h) ==
  /\ hand[h].at = "out" /\ ~hand[h].gone
  /\ vault = "failing" \/ hand[h].age = Timeout
  /\ Transient(h)
  /\ KeepCalls /\ UNCHANGED token

\* raw with a cancelled context: not transient, so Vault is taken to be up.
Cancelled(h) ==
  /\ hand[h].at = "out" /\ hand[h].gone
  /\ Settled(h, "failed")
  /\ KeepCalls /\ UNCHANGED token

\* login: its turn at loginMu, which the request's context does not bound.
TakeLock(h) ==
  /\ hand[h].at = "lock" /\ LockFree
  /\ hand' = [hand EXCEPT ![h].at = "login"]
  /\ KeepCalls /\ UNCHANGED <<vltBrk, token>>

\* login: `continue` on success (the loop may be over: then the 403 stands); on
\* failure the 403 stands.
LogIn(h) ==
  /\ hand[h].at = "login"
  /\ \/ /\ vault = "up" /\ ~hand[h].gone /\ token' = TRUE
        /\ IF Retries = 0 THEN Settled(h, "failed")
           ELSE /\ hand' = [hand EXCEPT ![h].at = "out", ![h].t = 1, ![h].age = 0]
                /\ UNCHANGED vltBrk
     \/ /\ vault = "failing" \/ hand[h].age = Timeout \/ hand[h].gone
        /\ Settled(h, "failed") /\ UNCHANGED token
  /\ KeepCalls

KeepRest == UNCHANGED <<call, hand, apiBrk, vltBrk, vault>>

\* keepAlive, after a sleep: a renewal that fails (one that works leaves
\* everything as it is), then login.
RenewFails ==
  /\ keeper.at = "asleep" /\ keeper.age = Timeout /\ ~(vault = "up" /\ token)
  /\ keeper' = [at |-> "lock", age |-> 0]
  /\ KeepRest /\ UNCHANGED <<token, ready>>

KeeperTakesLock ==
  /\ keeper.at = "lock" /\ LockFree
  /\ keeper' = [keeper EXCEPT !.at = "login"]
  /\ KeepRest /\ UNCHANGED <<token, ready>>

KeeperLogsIn ==
  /\ keeper.at = "login" /\ keeper' = Asleep
  /\ \/ vault = "up" /\ token' = TRUE /\ ready' = TRUE
     \/ (vault = "failing" \/ keeper.age = Timeout) /\ ready' = FALSE /\ UNCHANGED token
  /\ KeepRest

\* Ready, which /saude/pronta of the service answers.
KmsReady == ready /\ ~IsOpen(vltBrk)

----------------------------------------------------------------------------
(* The world *)

\* Vault works, answers with 5xx or does not answer.
VaultTurns ==
  /\ vault' \in {"up", "failing", "hung"} \ {vault}
  /\ UNCHANGED <<call, hand, apiBrk, vltBrk, keeper, token, ready>>

TokenExpires ==
  /\ token /\ token' = FALSE
  /\ UNCHANGED <<call, hand, apiBrk, vltBrk, keeper, vault, ready>>

\* The service restarts (it starts only when the login works).
KmsRestarts ==
  /\ vault = "up"
  /\ hand' = [h \in Handlers |-> NoHandler] /\ vltBrk' = Closed /\ keeper' = Asleep
  /\ token' = TRUE /\ ready' = TRUE
  /\ UNCHANGED <<call, apiBrk, vault>>

Tick ==
  /\ \A c \in Callers :
       /\ call[c].at = "out" => call[c].age < Timeout
       /\ call[c].at = "gate" => Cardinality(Calling) >= ApiSlots
  /\ \A h \in Handlers :
       /\ hand[h].at \in {"out", "login"} => hand[h].age < Timeout /\ ~hand[h].gone
       /\ hand[h].at = "gate" => Cardinality(Asking) >= VaultSlots /\ ~hand[h].gone
       /\ hand[h].at = "lock" => ~LockFree
       /\ hand[h].at # "sent"
  /\ keeper.at = "login" => keeper.age < Timeout
  /\ keeper.at = "lock" => ~LockFree
  /\ call' = [c \in Callers |-> [call[c] EXCEPT !.age = IF call[c].at = "out" THEN @ + 1 ELSE 0]]
  /\ hand' = [h \in Handlers |-> [hand[h] EXCEPT
                 !.age = IF hand[h].at \in {"out", "login"} THEN @ + 1 ELSE 0]]
  /\ keeper' = [keeper EXCEPT !.age = IF keeper.at # "lock" /\ @ < Timeout THEN @ + 1 ELSE @]
  /\ apiBrk' = Elapse(apiBrk) /\ vltBrk' = Elapse(vltBrk)
  /\ UNCHANGED <<vault, token, ready>>

CallerGoesOn(c) == Enter(c) \/ Answer(c) \/ NoAnswer(c)

HandlerGoesOn(h) ==
  \/ Refuses(h) \/ Arrive(h) \/ HandlerGivesUp(h) \/ HandlerEnters(h)
  \/ Served(h) \/ Forbidden(h) \/ Failing(h) \/ Cancelled(h)
  \/ TakeLock(h) \/ LogIn(h)

KeepAlive == RenewFails \/ KeeperTakesLock \/ KeeperLogsIn

Next ==
  \/ \E c \in Callers : Ask(c) \/ GiveUp(c) \/ CallerGoesOn(c) \/ Cancel(c)
  \/ \E h \in Handlers : HandlerGoesOn(h)
  \/ KeepAlive \/ VaultTurns \/ TokenExpires \/ KmsRestarts \/ Tick

Spec == Init /\ [][Next]_vars

\* The goroutines of the calls, the loop of keepAlive and the clock go on.
FairSpec ==
  /\ Spec /\ WF_vars(KeepAlive) /\ WF_vars(Tick)
  /\ \A c \in Callers : WF_vars(CallerGoesOn(c))
  /\ \A h \in Handlers : WF_vars(HandlerGoesOn(h))

----------------------------------------------------------------------------
(* Properties *)

TypeOK ==
  /\ call \in [Callers -> [at : {"idle", "gate", "out"}, try : {0, 1}, age : 0..Timeout, probe : BOOLEAN]]
  /\ hand \in [Handlers -> [at : {"none", "sent", "gate", "out", "lock", "login", "done"}, t : 0..Retries,
                            age : 0..Timeout, probe : BOOLEAN, gone : BOOLEAN,
                            said : {"nothing", "ok", "failed", "refused"}]]
  /\ apiBrk \in Breakers /\ vltBrk \in Breakers
  /\ keeper \in [at : {"asleep", "lock", "login"}, age : 0..Timeout]
  /\ vault \in {"up", "failing", "hung"} /\ token \in BOOLEAN /\ ready \in BOOLEAN

ApiProbes == {c \in Callers : call[c].probe}
VaultProbes == {h \in Handlers : hand[h].probe}

\* Only the end of the probe itself ends the half-open phase ("1 sonda",
\* breaker.go:11): no report of a call that was admitted before the breaker
\* opened clears the flag of a later probe.  Such calls may wait at the gate and
\* report long after the opening; each failure among them starts the wait again
\* (breaker.go:56), so all have ended when it is over.  Hence there are never
\* two probes.
ProbeDecides ==
  [][/\ apiBrk.probe /\ ~apiBrk'.probe => \E c \in Callers : call[c].probe /\ ~call'[c].probe
     /\ vltBrk.probe /\ ~vltBrk'.probe => \/ \E h \in Handlers : hand[h].probe /\ ~hand'[h].probe
                                         \/ KmsRestarts]_vars

\* A breaker whose wait is over takes the next call when no probe is out
\* (breaker_test.go, "sonda deveria passar"): it does not stay shut for ever.
HalfOpenAdmits ==
  /\ Tripped(apiBrk) /\ apiBrk.left = 0 /\ ApiProbes = {} => Allows(apiBrk)
  /\ Tripped(vltBrk) /\ vltBrk.left = 0 /\ VaultProbes = {} => Allows(vltBrk)

\* A probe is lost only where its caller gives up at the semaphore
\* (kmsclient/client.go:104, vault/client.go:258): every other way out of a call -
\* an answer, a time limit, a cancelled attempt, the other breaker open, a failed
\* login, a restart - tells the breaker.
LostOnlyAtTheGate ==
  [][HalfOpenAdmits => \/ HalfOpenAdmits'
                       \/ \E c \in Callers : call[c].probe /\ GiveUp(c)
                       \/ \E h \in Handlers : hand[h].probe /\ HandlerGivesUp(h)]_vars

\* The API's breaker closes only on an answer that shows the service at work, in
\* time and to the attempt its caller waits for: what Vault said, or a 4xx of
\* the service itself (client.go:127).  Its 503, a time limit, a cancelled call
\* and the late answer of an earlier attempt leave it tripped.
ClosesOnService ==
  [][Tripped(apiBrk) /\ ~Tripped(apiBrk') =>
       \E c \in Callers : call[c].at = "out" /\ Mine(c).said \in {"ok", "refused"}]_vars

\* The Vault client's breaker closes only while Vault answers (client.go:286,
\* "2xx e 4xx significam que o Vault está de pé").
VaultClosesOnAnswer == [][Tripped(vltBrk) /\ ~Tripped(vltBrk') => vault = "up"]_vars

\* With Vault up for good and its breaker closed, the service says it is ready
\* (kms-http-contract.md:140, "`200` se o token do Vault é válido e o disjuntor
\* está fechado").
ReadyAgain == <>[](vault = "up" /\ token /\ ~IsOpen(vltBrk)) => <>[]KmsReady
=============================================================================
