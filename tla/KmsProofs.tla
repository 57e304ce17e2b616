------------------------------ MODULE KmsProofs ------------------------------
(* Proofs about KmsCalls, for any callers, places, limits and times: a probe  *)
(* is lost only where its caller gives up at the semaphore, and the API's     *)
(* breaker closes only on an answer that shows the service at work.           *)
EXTENDS KmsCalls, TLAPS

Quiet == {"none", "sent", "done"}

\* Only a handler inside its breaker holds a probe, and one that is done has said
\* something.
Tidy(x) == (x.at \in Quiet => ~x.probe) /\ (x.at = "done" => x.said # "nothing")

\* A breaker whose probe is out is half open.
Sound == {b \in Breakers : b.probe => Tripped(b) /\ b.left = 0}

\* Where the probe may be.  A call starts without handlers and its second attempt
\* finds none in its place, so no handler is overwritten with its probe.
ProbeHeld ==
  /\ \A h \in Handlers : Tidy(hand[h])
  /\ \A c \in Callers : call[c].at = "gate" => hand[<<c, 0>>] = NoHandler
  /\ \A c \in Callers : call[c].at \in {"gate", "out"} /\ call[c].try = 0 => hand[<<c, 1>>] = NoHandler
  /\ apiBrk \in Sound /\ vltBrk \in Sound

IInv == TypeOK /\ ProbeHeld

\* A probe that is out has a holder.
Held == (apiBrk.probe => ApiProbes # {}) /\ (vltBrk.probe => VaultProbes # {})

\* What each step but one keeps.
Keeps == IInv' /\ (Held => Held')

LEMMA Parameters ==
  /\ Timeout \in Nat \ {0} /\ Retries \in Nat
  /\ Limit \in Nat \ {0} /\ Wait \in Nat \ {0}
BY CallsAssumption, BreakerAssumption

-----------------------------------------------------------------------------
(* The breaker *)

LEMMA BreakerTypes ==
  ASSUME NEW b \in Sound
  PROVE  /\ Allows(b) => Admit(b) \in Sound
         /\ Success(b) \in Sound /\ Failure(b) \in Sound /\ Elapse(b) \in Sound
<1> USE Parameters DEF Sound, Breakers, Tripped
<1>1. Allows(b) => Admit(b) \in Sound
  BY DEF Admit, Allows
<1>2. Success(b) \in Sound
  <2>1. 0 \in 0..Limit /\ b.left \in 0..Wait
    OBVIOUS
  <2> QED BY <2>1 DEF Success
<1>3. Failure(b) \in Sound
  BY DEF Failure
<1>4. Elapse(b) \in Sound
  BY DEF Elapse
<1> QED
  BY <1>1, <1>2, <1>3, <1>4

\* What a breaker that was told of an end, or saw time pass, remembers of its probe.
LEMMA BreakerProbes ==
  ASSUME NEW b \in Sound
  PROVE  /\ ~Success(b).probe /\ ~Failure(b).probe /\ Elapse(b).probe = b.probe
         /\ Admit(b).probe = (b.probe \/ Tripped(b))
BY DEF Success, Failure, Elapse, Admit, Sound, Breakers

\* Only Success closes a breaker.
LEMMA BreakerCloses ==
  ASSUME NEW b \in Sound, Tripped(b)
  PROVE  Tripped(Failure(b)) /\ Tripped(Elapse(b)) /\ Tripped(Admit(b))
BY Parameters DEF Tripped, Failure, Elapse, Admit, Sound, Breakers

-----------------------------------------------------------------------------
(* Steps of one caller and steps of one handler *)

Calls == [at : {"idle", "gate", "out"}, try : {0, 1}, age : 0..Timeout, probe : BOOLEAN]
Hands == [at : {"none", "sent", "gate", "out", "lock", "login", "done"}, t : 0..Retries,
          age : 0..Timeout, probe : BOOLEAN, gone : BOOLEAN, said : {"nothing", "ok", "failed", "refused"}]

LEMMA StartTypes == NoCall \in Calls /\ NoHandler \in Hands /\ Sent \in Hands /\ Closed \in Sound
<1> USE Parameters
<1>1. 0 \in 0..Timeout /\ 0 \in 0..Retries /\ 0 \in 0..Limit /\ 0 \in 0..Wait
  OBVIOUS
<1>2. NoCall \in Calls
  BY <1>1 DEF NoCall, Calls
<1>3. NoHandler \in Hands /\ Sent \in Hands
  BY <1>1 DEF NoHandler, Sent, Hands
<1>4. Closed \in Sound
  BY <1>1 DEF Closed, Sound, Breakers
<1> QED
  BY <1>2, <1>3, <1>4

LEMMA StartValues ==
  /\ NoCall.at = "idle" /\ NoCall.probe = FALSE /\ NoCall.try = 0
  /\ NoHandler.at = "none" /\ NoHandler.probe = FALSE /\ Tidy(NoHandler)
  /\ Sent.at = "sent" /\ Sent.probe = FALSE /\ Tidy(Sent)
  /\ Closed.probe = FALSE
BY DEF Tidy, Quiet, NoCall, NoHandler, Sent, Closed

\* A caller's step gives the caller y and its breaker another state; of the
\* handlers it touches only its own, and takes the probe of none.
LEMMA CallerStep ==
  ASSUME IInv, NEW c \in Callers, NEW y \in Calls, call' = [call EXCEPT ![c] = y],
         apiBrk' \in Sound,
         hand' \in [Handlers -> Hands],
         \A h \in Handlers : /\ h[1] # c => hand'[h] = hand[h]
                             /\ hand'[h].probe = hand[h].probe /\ Tidy(hand'[h]),
         y.at = "gate" => hand'[<<c, 0>>] = NoHandler,
         y.at \in {"gate", "out"} /\ y.try = 0 => hand'[<<c, 1>>] = NoHandler,
         UNCHANGED <<vltBrk, keeper, vault, token, ready>>
  PROVE  /\ IInv'
         /\ (apiBrk'.probe => y.probe \/ (apiBrk.probe /\ ~call[c].probe)) => Keeps
<1>1. call \in [Callers -> Calls] /\ call' \in [Callers -> Calls] /\ call'[c] = y
      /\ \A d \in Callers \ {c} : call'[d] = call[d]
  BY DEF IInv, TypeOK, Calls
<1>2. TypeOK'
  BY <1>1 DEF IInv, TypeOK, Calls, Hands, Sound
<1>3. \A d \in Callers, k \in {0, 1} : <<d, k>> \in Handlers /\ <<d, k>>[1] = d
  BY DEF Handlers
<1>4. \A d \in Callers \ {c}, k \in {0, 1} : hand'[<<d, k>>] = hand[<<d, k>>]
  BY <1>3
<1>5. ASSUME NEW d \in Callers
      PROVE  /\ call'[d].at = "gate" => hand'[<<d, 0>>] = NoHandler
             /\ call'[d].at \in {"gate", "out"} /\ call'[d].try = 0 => hand'[<<d, 1>>] = NoHandler
  <2>1. CASE d = c
    BY <1>1, <2>1
  <2>2. CASE d # c
    BY <1>1, <1>4, <2>2 DEF IInv, ProbeHeld
  <2> QED BY <2>1, <2>2
<1>6. IInv'
  <2>1. vltBrk' \in Sound /\ \A h \in Handlers : Tidy(hand'[h])
    BY DEF IInv, ProbeHeld
  <2> QED BY <1>2, <1>5, <2>1 DEF IInv, ProbeHeld, Tidy
<1>7. ASSUME apiBrk'.probe => y.probe \/ (apiBrk.probe /\ ~call[c].probe), Held PROVE Held'
  <2>1. ASSUME apiBrk'.probe PROVE ApiProbes' # {}
    <3>1. CASE y.probe
      BY <1>1, <3>1 DEF ApiProbes
    <3>2. CASE apiBrk.probe /\ ~call[c].probe
      <4>1. PICK d \in Callers : call[d].probe
        BY <1>7, <3>2 DEF Held, ApiProbes
      <4>2. call'[d].probe
        BY <1>1, <3>2, <4>1
      <4> QED BY <4>2 DEF ApiProbes
    <3> QED BY <1>7, <2>1, <3>1, <3>2
  <2>2. VaultProbes' = VaultProbes
    BY DEF VaultProbes
  <2> QED BY <1>7, <2>1, <2>2 DEF Held
<1> QED
  BY <1>6, <1>7 DEF Keeps

\* A handler's step gives the handler x and its breaker another state.
LEMMA HandlerStep ==
  ASSUME IInv, NEW h \in Handlers, hand[h].at # "none", NEW x \in Hands,
         hand' = [hand EXCEPT ![h] = x], Tidy(x),
         vltBrk' \in Sound,
         token' \in BOOLEAN,
         UNCHANGED <<call, apiBrk, keeper, vault, ready>>
  PROVE  /\ IInv'
         /\ (vltBrk'.probe => x.probe \/ (vltBrk.probe /\ ~hand[h].probe)) => Keeps
<1>1. hand \in [Handlers -> Hands] /\ hand' \in [Handlers -> Hands] /\ hand'[h] = x
      /\ \A g \in Handlers \ {h} : hand'[g] = hand[g]
  BY DEF IInv, TypeOK, Hands
<1>2. TypeOK'
  BY <1>1 DEF IInv, TypeOK, Calls, Hands, Sound
<1>3. \A g \in Handlers : hand[g] = NoHandler => hand'[g] = NoHandler
  BY <1>1, StartValues
<1>4. \A d \in Callers, k \in {0, 1} : <<d, k>> \in Handlers
  BY DEF Handlers
<1>5. \A g \in Handlers : Tidy(hand'[g])
  BY <1>1 DEF IInv, ProbeHeld
<1>6. IInv'
  <2>1. apiBrk' \in Sound
    BY DEF IInv, ProbeHeld
  <2> QED BY <1>2, <1>3, <1>4, <1>5, <2>1 DEF IInv, ProbeHeld, Tidy
<1>7. ASSUME vltBrk'.probe => x.probe \/ (vltBrk.probe /\ ~hand[h].probe), Held PROVE Held'
  <2>1. ASSUME vltBrk'.probe PROVE VaultProbes' # {}
    <3>1. CASE x.probe
      BY <1>1, <3>1 DEF VaultProbes
    <3>2. CASE vltBrk.probe /\ ~hand[h].probe
      <4>1. PICK g \in Handlers : hand[g].probe
        BY <1>7, <3>2 DEF Held, VaultProbes
      <4>2. hand'[g].probe
        BY <1>1, <3>2, <4>1
      <4> QED BY <4>2 DEF VaultProbes
    <3> QED BY <1>7, <2>1, <3>1, <3>2
  <2>2. ApiProbes' = ApiProbes
    BY DEF ApiProbes
  <2> QED BY <1>7, <2>1, <2>2 DEF Held
<1> QED
  BY <1>6, <1>7 DEF Keeps

-----------------------------------------------------------------------------
(* The callers *)

LEMMA Types ==
  ASSUME IInv
  PROVE  /\ call \in [Callers -> Calls] /\ hand \in [Handlers -> Hands]
         /\ apiBrk \in Sound /\ vltBrk \in Sound
         /\ token \in BOOLEAN
         /\ \A c \in Callers : <<c, 0>> \in Handlers /\ <<c, 1>> \in Handlers
         /\ \A h \in Handlers : Tidy(hand[h])
BY DEF IInv, TypeOK, Calls, Hands, Handlers, ProbeHeld

LEMMA AskKeeps == ASSUME IInv, NEW c \in Callers, Ask(c) PROVE Keeps
<1> DEFINE y == [NoCall EXCEPT !.at = "gate", !.probe = Tripped(apiBrk)]
<1>1. /\ call' = [call EXCEPT ![c] = y] /\ Allows(apiBrk) /\ apiBrk' = Admit(apiBrk) /\ call[c] = NoCall
      /\ hand[<<c, 0>>] = NoHandler /\ hand[<<c, 1>>] = NoHandler
      /\ UNCHANGED <<hand, vltBrk, keeper, vault, token, ready>>
  BY DEF Ask
<1>2. Tripped(apiBrk) \in BOOLEAN
  BY DEF Tripped
<1>3. y \in Calls /\ y.probe = Tripped(apiBrk) /\ y.at = "gate"
  BY <1>2, StartTypes DEF NoCall, Calls
<1>4. apiBrk' \in Sound /\ apiBrk'.probe = (apiBrk.probe \/ Tripped(apiBrk))
  BY <1>1, Types, BreakerTypes, BreakerProbes
<1>5. ~call[c].probe
  BY <1>1, StartValues
<1> HIDE DEF y
<1> QED
  BY <1>1, <1>3, <1>4, <1>5, Types, CallerStep DEF IInv, ProbeHeld

LEMMA GiveUpKeeps ==
  ASSUME IInv, NEW c \in Callers, GiveUp(c)
  PROVE  IInv' /\ (~call[c].probe => Keeps)
<1>1. call' = [call EXCEPT ![c] = NoCall] /\ UNCHANGED <<hand, apiBrk, vltBrk, keeper, vault, token, ready>>
  BY DEF GiveUp
<1> QED
  BY <1>1, Types, StartTypes, StartValues, CallerStep DEF IInv, ProbeHeld

LEMMA EnterKeeps == ASSUME IInv, NEW c \in Callers, Enter(c) PROVE Keeps
<1> DEFINE y == [call[c] EXCEPT !.at = "out"]
<1>1. /\ call' = [call EXCEPT ![c] = y] /\ hand' = [hand EXCEPT ![<<c, 0>>] = Sent]
      /\ call[c].at = "gate" /\ UNCHANGED <<apiBrk, vltBrk, keeper, vault, token, ready>>
  BY DEF Enter
<1>2. y \in Calls /\ y.probe = call[c].probe /\ y.at = "out" /\ y.try = call[c].try
  BY Types DEF Calls
<1>3. hand[<<c, 0>>] = NoHandler /\ (call[c].try = 0 => hand[<<c, 1>>] = NoHandler)
  BY <1>1 DEF IInv, ProbeHeld
<1>4. hand' \in [Handlers -> Hands]
  BY <1>1, Types, StartTypes
<1>5. \A h \in Handlers : /\ h[1] # c => hand'[h] = hand[h]
                          /\ hand'[h].probe = hand[h].probe /\ Tidy(hand'[h])
  <2> TAKE h \in Handlers
  <2>1. CASE h = <<c, 0>>
    BY <1>1, <1>3, <2>1, Types, StartValues
  <2>2. CASE h # <<c, 0>>
    BY <1>1, <2>2, Types
  <2> QED BY <2>1, <2>2
<1>6. hand'[<<c, 1>>] = hand[<<c, 1>>]
  BY <1>1, Types
<1> HIDE DEF y
<1>7. /\ apiBrk' \in Sound /\ (apiBrk'.probe => y.probe \/ (apiBrk.probe /\ ~call[c].probe))
      /\ y.at # "gate" /\ (y.try = 0 => hand'[<<c, 1>>] = NoHandler)
  BY <1>1, <1>2, <1>3, <1>6, Types
<1> QED
  BY <1>1, <1>2, <1>4, <1>5, <1>7, CallerStep

\* once gave no answer, and what it leaves of its handler keeps the probe.
LEMMA UnavailableKeeps ==
  ASSUME IInv, NEW c \in Callers, call[c].at = "out", NEW x \in Hands,
         x.probe = Mine(c).probe, Tidy(x),
         Unavailable(c, x), UNCHANGED <<vltBrk, keeper, vault, token, ready>>
  PROVE  Keeps
<1>1. call[c].try \in {0, 1} /\ call[c] \in Calls
  BY Types DEF Calls
<1>2. CASE call[c].try = 0
  <2> DEFINE y == [call[c] EXCEPT !.try = 1, !.age = 0]
  <2>1. /\ call' = [call EXCEPT ![c] = y] /\ UNCHANGED apiBrk
        /\ hand' = [hand EXCEPT ![<<c, 0>>] = x, ![<<c, 1>>] = Sent]
    BY <1>2, Types DEF Unavailable
  <2>2. y \in Calls /\ y.probe = call[c].probe /\ y.at = "out" /\ y.try = 1
    <3>1. 0 \in 0..Timeout
      BY Parameters
    <3> QED BY <1>1, <1>2, <3>1 DEF Calls
  <2>3. hand[<<c, 1>>] = NoHandler /\ x.probe = hand[<<c, 0>>].probe
    BY <1>2 DEF IInv, ProbeHeld, Mine
  <2>4. hand' \in [Handlers -> Hands]
    BY <2>1, Types, StartTypes
  <2>5. \A h \in Handlers : /\ h[1] # c => hand'[h] = hand[h]
                            /\ hand'[h].probe = hand[h].probe /\ Tidy(hand'[h])
    <3> TAKE h \in Handlers
    <3>1. CASE h = <<c, 0>>
      BY <2>1, <2>3, <3>1, Types
    <3>2. CASE h = <<c, 1>>
      BY <2>1, <2>3, <3>2, Types, StartValues
    <3>3. CASE h \notin {<<c, 0>>, <<c, 1>>}
      BY <2>1, <3>3, Types
    <3> QED BY <3>1, <3>2, <3>3
  <2> HIDE DEF y
  <2>6. /\ apiBrk' \in Sound /\ (apiBrk'.probe => y.probe \/ (apiBrk.probe /\ ~call[c].probe))
        /\ y.at # "gate" /\ y.try # 0
    BY <2>1, <2>2, Types
  <2> QED BY <2>1, <2>2, <2>4, <2>5, <2>6, CallerStep
<1>3. CASE call[c].try = 1
  <2>1. /\ call' = [call EXCEPT ![c] = NoCall] /\ apiBrk' = Failure(apiBrk)
        /\ hand' = [hand EXCEPT ![<<c, 1>>] = x]
    BY <1>3 DEF Unavailable, Ends
  <2>2. apiBrk' \in Sound /\ ~apiBrk'.probe
    BY <2>1, Types, BreakerTypes, BreakerProbes
  <2>3. x.probe = hand[<<c, 1>>].probe
    BY <1>3 DEF Mine
  <2>4. hand' \in [Handlers -> Hands]
    BY <2>1, Types
  <2>5. \A h \in Handlers : /\ h[1] # c => hand'[h] = hand[h]
                            /\ hand'[h].probe = hand[h].probe /\ Tidy(hand'[h])
    <3> TAKE h \in Handlers
    <3>1. CASE h = <<c, 1>>
      BY <2>1, <2>3, <3>1, Types
    <3>2. CASE h # <<c, 1>>
      BY <2>1, <3>2, Types
    <3> QED BY <3>1, <3>2
  <2> QED BY <2>1, <2>2, <2>4, <2>5, StartTypes, StartValues, CallerStep
<1> QED
  BY <1>1, <1>2, <1>3

LEMMA MineIsMine ==
  ASSUME IInv, NEW c \in Callers
  PROVE  /\ <<c, call[c].try>> \in Handlers /\ Mine(c) = hand[<<c, call[c].try>>]
         /\ Mine(c) \in Hands /\ Tidy(Mine(c))
<1>1. call[c].try \in {0, 1}
  BY Types DEF Calls
<1>2. <<c, call[c].try>> \in Handlers
  BY <1>1 DEF Handlers
<1> QED
  BY <1>2, Types DEF Mine, IInv, ProbeHeld

\* The call ends, and its handler is x from now on.
LEMMA EndsKeeps ==
  ASSUME IInv, NEW c \in Callers, NEW brk \in Sound, ~brk.probe, Ends(c, brk),
         NEW x \in Hands, x.probe = Mine(c).probe, Tidy(x),
         hand' = [hand EXCEPT ![<<c, call[c].try>>] = x],
         UNCHANGED <<vltBrk, keeper, vault, token, ready>>
  PROVE  Keeps
<1>1. call' = [call EXCEPT ![c] = NoCall] /\ apiBrk' = brk
  BY DEF Ends
<1>2. hand' \in [Handlers -> Hands]
  BY Types
<1>3. \A h \in Handlers : /\ h[1] # c => hand'[h] = hand[h]
                          /\ hand'[h].probe = hand[h].probe /\ Tidy(hand'[h])
  <2> TAKE h \in Handlers
  <2>1. CASE h = <<c, call[c].try>>
    BY <2>1, Types, MineIsMine
  <2>2. CASE h # <<c, call[c].try>>
    BY <2>2, Types
  <2> QED BY <2>1, <2>2
<1> QED
  BY <1>1, <1>2, <1>3, StartTypes, StartValues, CallerStep

LEMMA AbandonedKeeps ==
  ASSUME NEW h \in Hands, Tidy(h)
  PROVE  /\ Abandoned(h) \in Hands /\ Abandoned(h).probe = h.probe
         /\ Tidy(Abandoned(h))
<1>1. CASE h.at \in Quiet
  BY <1>1, StartTypes, StartValues DEF Abandoned, Tidy, Quiet, Hands
<1>2. CASE h.at \notin Quiet
  <2>1. Abandoned(h) = [h EXCEPT !.gone = TRUE]
    BY <1>2 DEF Abandoned, Tidy, Quiet
  <2>2. /\ [h EXCEPT !.gone = TRUE] \in Hands
        /\ [h EXCEPT !.gone = TRUE].probe = h.probe /\ [h EXCEPT !.gone = TRUE].at = h.at
    BY DEF Hands
  <2> QED BY <1>2, <2>1, <2>2 DEF Tidy, Quiet
<1> QED
  BY <1>1, <1>2

LEMMA AnswerKeeps == ASSUME IInv, NEW c \in Callers, Answer(c) PROVE Keeps
<1>1. call[c].at = "out" /\ Mine(c).at = "done" /\ UNCHANGED <<vltBrk, keeper, vault, token, ready>>
  BY DEF Answer
<1>2. NoHandler \in Hands /\ NoHandler.probe = Mine(c).probe /\ Tidy(NoHandler)
  BY <1>1, MineIsMine, StartTypes, StartValues DEF Hands, Tidy, Quiet
<1>3. CASE Mine(c).said # "failed"
  <2>1. Ends(c, Success(apiBrk)) /\ hand' = [hand EXCEPT ![<<c, call[c].try>>] = NoHandler]
    BY <1>3 DEF Answer
  <2>2. Success(apiBrk) \in Sound /\ ~Success(apiBrk).probe
    BY Types, BreakerTypes, BreakerProbes
  <2> QED BY <1>1, <1>2, <2>1, <2>2, EndsKeeps
<1>4. CASE Mine(c).said = "failed"
  <2>1. Unavailable(c, NoHandler)
    BY <1>4 DEF Answer
  <2> QED BY <1>1, <1>2, <2>1, UnavailableKeeps
<1> QED
  BY <1>3, <1>4

LEMMA NoAnswerKeeps == ASSUME IInv, NEW c \in Callers, NoAnswer(c) PROVE Keeps
<1>1. call[c].at = "out" /\ Unavailable(c, Abandoned(Mine(c))) /\ UNCHANGED <<vltBrk, keeper, vault, token, ready>>
  BY DEF NoAnswer
<1>2. /\ Abandoned(Mine(c)) \in Hands /\ Abandoned(Mine(c)).probe = Mine(c).probe
      /\ Tidy(Abandoned(Mine(c)))
  BY MineIsMine, AbandonedKeeps
<1> QED
  BY <1>1, <1>2, UnavailableKeeps

LEMMA CancelKeeps == ASSUME IInv, NEW c \in Callers, Cancel(c) PROVE Keeps
<1>1. Ends(c, Failure(apiBrk)) /\ UNCHANGED <<vltBrk, keeper, vault, token, ready>>
  BY DEF Cancel
<1>2. hand' = [hand EXCEPT ![<<c, call[c].try>>] = Abandoned(Mine(c))]
  BY MineIsMine DEF Cancel
<1>3. /\ Abandoned(Mine(c)) \in Hands /\ Abandoned(Mine(c)).probe = Mine(c).probe
      /\ Tidy(Abandoned(Mine(c)))
  BY MineIsMine, AbandonedKeeps
<1>4. Failure(apiBrk) \in Sound /\ ~Failure(apiBrk).probe
  BY Types, BreakerTypes, BreakerProbes
<1> QED
  BY <1>1, <1>2, <1>3, <1>4, EndsKeeps

-----------------------------------------------------------------------------
(* The handlers *)

\* A reply leaves the handler without the probe.
LEMMA RepliesLeave ==
  ASSUME IInv, NEW h \in Handlers, NEW said \in {"ok", "failed", "refused"}, Replies(h, said)
  PROVE  \E x \in Hands : x.probe = FALSE /\ Tidy(x) /\ hand' = [hand EXCEPT ![h] = x]
<1> DEFINE x == IF hand[h].gone THEN NoHandler ELSE [NoHandler EXCEPT !.at = "done", !.said = said]
<1>1. hand' = [hand EXCEPT ![h] = x]
  BY DEF Replies
<1>2. x \in Hands /\ x.probe = FALSE /\ Tidy(x)
  BY StartTypes, StartValues DEF Hands, NoHandler, Tidy, Quiet
<1> QED
  BY <1>1, <1>2

\* The breaker hears of the end of a handler, which leaves it without the probe.
LEMMA EndKeeps ==
  ASSUME IInv, NEW h \in Handlers, hand[h].at # "none", NEW said \in {"ok", "failed", "refused"}, Replies(h, said),
         vltBrk' \in Sound, vltBrk'.probe => vltBrk.probe /\ ~hand[h].probe,
         token' \in BOOLEAN, KeepCalls
  PROVE  Keeps
<1>1. PICK x \in Hands : x.probe = FALSE /\ Tidy(x) /\ hand' = [hand EXCEPT ![h] = x]
  BY RepliesLeave
<1>2. UNCHANGED <<call, apiBrk, keeper, vault, ready>>
  BY DEF KeepCalls
<1> QED
  BY <1>1, <1>2, HandlerStep

LEMMA SettledKeeps ==
  ASSUME IInv, NEW h \in Handlers, hand[h].at # "none", NEW said \in {"ok", "failed", "refused"}, Settled(h, said),
         token' \in BOOLEAN, KeepCalls
  PROVE  Keeps
<1>1. vltBrk' \in Sound /\ ~vltBrk'.probe /\ Replies(h, said)
  BY Types, BreakerTypes, BreakerProbes DEF Settled
<1> QED
  BY <1>1, EndKeeps

\* The handler goes on, with the probe if it had it.
LEMMA GoesOnKeeps ==
  ASSUME IInv, NEW h \in Handlers, hand[h].at # "none", NEW x \in Hands,
         hand' = [hand EXCEPT ![h] = x], x.probe = hand[h].probe, Tidy(x),
         token' \in BOOLEAN, KeepCalls, UNCHANGED vltBrk
  PROVE  Keeps
<1>1. vltBrk' \in Sound /\ (vltBrk'.probe => x.probe \/ (vltBrk.probe /\ ~hand[h].probe))
  BY Types
<1>2. UNCHANGED <<call, apiBrk, keeper, vault, ready>>
  BY DEF KeepCalls
<1> QED
  BY <1>1, <1>2, HandlerStep

LEMMA ArriveKeeps == ASSUME IInv, NEW h \in Handlers, Arrive(h) PROVE Keeps
<1>1. hand[h].at = "sent" /\ ~hand[h].probe /\ token' \in BOOLEAN /\ KeepCalls
  BY Types DEF Arrive, Tidy, Quiet
<1>2. CASE Allows(vltBrk)
  <2> DEFINE x == [hand[h] EXCEPT !.at = "gate", !.probe = Tripped(vltBrk)]
  <2>1. vltBrk' = Admit(vltBrk) /\ hand' = [hand EXCEPT ![h] = x]
    BY <1>2, Types DEF Arrive
  <2>2. Tripped(vltBrk) \in BOOLEAN
    BY DEF Tripped
  <2>3. x \in Hands /\ x.probe = Tripped(vltBrk) /\ x.at = "gate"
    BY <2>2, Types DEF Hands
  <2>4. vltBrk' \in Sound /\ vltBrk'.probe = (vltBrk.probe \/ Tripped(vltBrk))
    BY <1>2, <2>1, Types, BreakerTypes, BreakerProbes
  <2>5. UNCHANGED <<call, apiBrk, keeper, vault, ready>>
    BY <1>1 DEF KeepCalls
  <2> HIDE DEF x
  <2>6. Tidy(x) /\ (vltBrk'.probe => x.probe \/ (vltBrk.probe /\ ~hand[h].probe))
    BY <1>1, <2>3, <2>4 DEF Tidy, Quiet
  <2> QED BY <1>1, <2>1, <2>3, <2>4, <2>5, <2>6, HandlerStep
<1>3. CASE ~Allows(vltBrk)
  <2>1. Replies(h, "failed") /\ vltBrk' = vltBrk
    BY <1>3 DEF Arrive
  <2> QED BY <1>1, <2>1, Types, EndKeeps
<1> QED
  BY <1>2, <1>3

LEMMA RefusesKeeps == ASSUME IInv, NEW h \in Handlers, Refuses(h) PROVE Keeps
<1>1. /\ hand[h].at = "sent" /\ ~hand[h].probe /\ token' \in BOOLEAN /\ KeepCalls
      /\ Replies(h, "refused") /\ vltBrk' = vltBrk
  BY Types DEF Refuses, Tidy, Quiet
<1> QED
  BY <1>1, Types, EndKeeps

LEMMA HandlerGivesUpKeeps ==
  ASSUME IInv, NEW h \in Handlers, HandlerGivesUp(h)
  PROVE  IInv' /\ (~hand[h].probe => Keeps)
<1>1. /\ hand[h].at = "gate" /\ hand' = [hand EXCEPT ![h] = NoHandler]
      /\ UNCHANGED <<call, apiBrk, keeper, vault, ready, vltBrk, token>>
  BY DEF HandlerGivesUp, KeepCalls
<1> QED
  BY <1>1, Types, StartTypes, StartValues, HandlerStep

LEMMA HandlerEntersKeeps == ASSUME IInv, NEW h \in Handlers, HandlerEnters(h) PROVE Keeps
<1> DEFINE x == [hand[h] EXCEPT !.at = "out"]
<1>1. hand[h].at = "gate" /\ hand' = [hand EXCEPT ![h] = x] /\ KeepCalls /\ UNCHANGED <<vltBrk, token>>
  BY DEF HandlerEnters
<1>2. x \in Hands /\ x.probe = hand[h].probe /\ x.at = "out" /\ token' \in BOOLEAN
  BY <1>1, Types DEF Hands
<1> HIDE DEF x
<1>3. Tidy(x)
  BY <1>2 DEF Tidy, Quiet
<1> QED
  BY <1>1, <1>2, <1>3, GoesOnKeeps

LEMMA ServedKeeps == ASSUME IInv, NEW h \in Handlers, Served(h) PROVE Keeps
<1>1. hand[h].at = "out" /\ token' \in BOOLEAN /\ KeepCalls /\ \E said \in {"ok", "failed"} : Settled(h, said)
  BY Types DEF Served
<1> QED
  BY <1>1, SettledKeeps

LEMMA ForbiddenKeeps == ASSUME IInv, NEW h \in Handlers, Forbidden(h) PROVE Keeps
<1>1. hand[h].at = "out" /\ token' \in BOOLEAN /\ KeepCalls
  BY Types DEF Forbidden
<1>2. CASE hand[h].t = 0
  <2> DEFINE x == [hand[h] EXCEPT !.at = "lock", !.age = 0]
  <2>1. hand' = [hand EXCEPT ![h] = x] /\ UNCHANGED vltBrk
    BY <1>2, Types DEF Forbidden
  <2>2. 0 \in 0..Timeout
    BY Parameters
  <2>3. x \in Hands /\ x.probe = hand[h].probe /\ x.at = "lock"
    BY <1>1, <2>2, Types DEF Hands
  <2> HIDE DEF x
  <2>4. Tidy(x)
    BY <2>3 DEF Tidy, Quiet
  <2> QED BY <1>1, <2>1, <2>3, <2>4, GoesOnKeeps
<1>3. CASE hand[h].t # 0
  <2>1. Settled(h, "failed")
    BY <1>3 DEF Forbidden
  <2> QED BY <1>1, <2>1, SettledKeeps
<1> QED
  BY <1>2, <1>3

LEMMA FailingKeeps == ASSUME IInv, NEW h \in Handlers, Failing(h) PROVE Keeps
<1>1. hand[h].at = "out" /\ token' \in BOOLEAN /\ KeepCalls /\ Transient(h)
  BY Types DEF Failing
<1>2. CASE hand[h].t < Retries
  <2> DEFINE x == [hand[h] EXCEPT !.t = @ + 1, !.age = 0]
  <2>1. hand' = [hand EXCEPT ![h] = x] /\ UNCHANGED vltBrk
    BY <1>1, <1>2, Types DEF Transient
  <2>2. 0 \in 0..Timeout /\ hand[h].t \in 0..Retries
    <3>1. 0 \in 0..Timeout
      BY Parameters
    <3>2. hand[h] \in Hands
      BY Types
    <3> QED BY <3>1, <3>2 DEF Hands
  <2>3. hand[h].t + 1 \in 0..Retries
    BY <1>2, <2>2, Parameters
  <2>4. x \in Hands /\ x.probe = hand[h].probe /\ x.at = "out"
    BY <1>1, <2>2, <2>3, Types DEF Hands
  <2> HIDE DEF x
  <2>5. Tidy(x)
    BY <2>4 DEF Tidy, Quiet
  <2> QED BY <1>1, <2>1, <2>4, <2>5, GoesOnKeeps
<1>3. CASE ~(hand[h].t < Retries)
  <2>1. vltBrk' \in Sound /\ ~vltBrk'.probe /\ Replies(h, "failed")
    BY <1>1, <1>3, Types, BreakerTypes, BreakerProbes DEF Transient
  <2> QED BY <1>1, <2>1, EndKeeps
<1> QED
  BY <1>2, <1>3

LEMMA CancelledKeeps == ASSUME IInv, NEW h \in Handlers, Cancelled(h) PROVE Keeps
<1>1. hand[h].at = "out" /\ token' \in BOOLEAN /\ KeepCalls /\ Settled(h, "failed")
  BY Types DEF Cancelled
<1> QED
  BY <1>1, SettledKeeps

LEMMA TakeLockKeeps == ASSUME IInv, NEW h \in Handlers, TakeLock(h) PROVE Keeps
<1> DEFINE x == [hand[h] EXCEPT !.at = "login"]
<1>1. hand[h].at = "lock" /\ hand' = [hand EXCEPT ![h] = x] /\ KeepCalls /\ UNCHANGED <<vltBrk, token>>
  BY DEF TakeLock
<1>2. x \in Hands /\ x.probe = hand[h].probe /\ x.at = "login" /\ token' \in BOOLEAN
  BY <1>1, Types DEF Hands
<1> HIDE DEF x
<1>3. Tidy(x)
  BY <1>2 DEF Tidy, Quiet
<1> QED
  BY <1>1, <1>2, <1>3, GoesOnKeeps

LEMMA LogInKeeps == ASSUME IInv, NEW h \in Handlers, LogIn(h) PROVE Keeps
<1>1. hand[h].at = "login" /\ token' \in BOOLEAN /\ KeepCalls
  BY Types DEF LogIn
<1>2. CASE Settled(h, "failed")
  BY <1>1, <1>2, SettledKeeps
<1>3. CASE ~Settled(h, "failed")
  <2> DEFINE x == [hand[h] EXCEPT !.at = "out", !.t = 1, !.age = 0]
  <2>1. Retries # 0 /\ hand' = [hand EXCEPT ![h] = x] /\ UNCHANGED vltBrk
    BY <1>3, Types DEF LogIn
  <2>2. 0 \in 0..Timeout /\ 1 \in 0..Retries
    BY <2>1, Parameters
  <2>3. x \in Hands /\ x.probe = hand[h].probe /\ x.at = "out"
    BY <1>1, <2>2, Types DEF Hands
  <2> HIDE DEF x
  <2>4. Tidy(x)
    BY <2>3 DEF Tidy, Quiet
  <2> QED BY <1>1, <2>1, <2>3, <2>4, GoesOnKeeps
<1> QED
  BY <1>2, <1>3

-----------------------------------------------------------------------------
(* The world *)

Outside == KeepAlive \/ VaultTurns \/ TokenExpires

LEMMA OutsideKeeps == ASSUME IInv, Outside \/ UNCHANGED vars PROVE Keeps
<1>1. UNCHANGED <<call, hand, apiBrk, vltBrk>>
  BY DEF Outside, KeepAlive, RenewFails, KeeperTakesLock, KeeperLogsIn, KeepRest, VaultTurns, TokenExpires, vars
<1>2. vault' \in {"up", "failing", "hung"} /\ token' \in BOOLEAN /\ ready' \in BOOLEAN
  BY DEF IInv, TypeOK, Outside, KeepAlive, RenewFails, KeeperTakesLock, KeeperLogsIn, KeepRest, VaultTurns,
         TokenExpires, vars
<1>3. keeper' \in [at : {"asleep", "lock", "login"}, age : 0..Timeout]
  <2>1. 0 \in 0..Timeout
    BY Parameters
  <2>2. keeper \in [at : {"asleep", "lock", "login"}, age : 0..Timeout]
    BY DEF IInv, TypeOK
  <2> QED BY <2>1, <2>2 DEF Outside, KeepAlive, RenewFails, KeeperTakesLock, KeeperLogsIn, KeepRest, VaultTurns,
                      TokenExpires, vars, Asleep
<1> QED
  BY <1>1, <1>2, <1>3 DEF IInv, TypeOK, ProbeHeld, ApiProbes, VaultProbes, Held, Keeps

LEMMA RestartKeeps == ASSUME IInv, KmsRestarts PROVE Keeps
<1>1. /\ hand' = [h \in Handlers |-> NoHandler] /\ vltBrk' = Closed /\ keeper' = Asleep
      /\ token' = TRUE /\ ready' = TRUE /\ UNCHANGED <<call, apiBrk, vault>>
  BY DEF KmsRestarts
<1>2. TypeOK'
  <2>1. Closed \in Breakers /\ Asleep \in [at : {"asleep", "lock", "login"}, age : 0..Timeout]
    BY Parameters, StartTypes DEF Sound, Asleep
  <2> QED BY <1>1, <2>1, StartTypes DEF IInv, TypeOK, Hands
<1>3. \A h \in Handlers : hand'[h] = NoHandler
  BY <1>1
<1>4. ProbeHeld'
  BY <1>1, <1>3, Types, StartTypes, StartValues DEF IInv, ProbeHeld
<1>5. Held => Held'
  BY <1>1, StartValues DEF Held, ApiProbes
<1> QED
  BY <1>2, <1>4, <1>5 DEF IInv, Keeps

LEMMA TickKeeps == ASSUME IInv, Tick PROVE Keeps
<1> DEFINE y(c) == [call[c] EXCEPT !.age = IF call[c].at = "out" THEN @ + 1 ELSE 0]
           x(h) == [hand[h] EXCEPT !.age = IF hand[h].at \in {"out", "login"} THEN @ + 1 ELSE 0]
<1>1. call' = [c \in Callers |-> y(c)] /\ hand' = [h \in Handlers |-> x(h)]
      /\ apiBrk' = Elapse(apiBrk) /\ vltBrk' = Elapse(vltBrk) /\ UNCHANGED <<vault, token, ready>>
      /\ keeper' = [keeper EXCEPT !.age = IF keeper.at # "lock" /\ @ < Timeout THEN @ + 1 ELSE @]
  BY DEF Tick
<1>2. ASSUME NEW c \in Callers
      PROVE  y(c) \in Calls /\ y(c).probe = call[c].probe /\ y(c).at = call[c].at /\ y(c).try = call[c].try
  <2>1. call[c] \in Calls /\ (call[c].at = "out" => call[c].age < Timeout)
    BY Types DEF Tick
  <2>2. (IF call[c].at = "out" THEN call[c].age + 1 ELSE 0) \in 0..Timeout
    BY <2>1, Parameters DEF Calls
  <2> QED BY <2>1, <2>2 DEF Calls
<1>3. ASSUME NEW h \in Handlers
      PROVE  /\ x(h) \in Hands /\ x(h).probe = hand[h].probe /\ x(h).at = hand[h].at
             /\ x(h).said = hand[h].said
  <2>1. hand[h] \in Hands /\ (hand[h].at \in {"out", "login"} => hand[h].age < Timeout)
    BY Types DEF Tick
  <2>3. hand[h].age \in 0..Timeout
    BY <2>1 DEF Hands
  <2>2. (IF hand[h].at \in {"out", "login"} THEN hand[h].age + 1 ELSE 0) \in 0..Timeout
    BY <2>1, <2>3, Parameters
  <2> QED BY <2>1, <2>2 DEF Hands
<1>4. ASSUME NEW h \in Handlers, hand[h] = NoHandler PROVE x(h) = NoHandler
  <2>1. NoHandler.at \notin {"out", "login"} /\ x(h) = [NoHandler EXCEPT !.age = 0]
    BY <1>4, StartValues
  <2>2. [NoHandler EXCEPT !.age = 0] = NoHandler
    BY DEF NoHandler
  <2> QED BY <2>1, <2>2
<1> HIDE DEF x, y
<1>5. apiBrk' \in Sound /\ apiBrk'.probe = apiBrk.probe /\ vltBrk' \in Sound /\ vltBrk'.probe = vltBrk.probe
  BY <1>1, Types, BreakerTypes, BreakerProbes
<1>6. call' \in [Callers -> Calls] /\ hand' \in [Handlers -> Hands]
  BY <1>1, <1>2, <1>3
<1>12. keeper' \in [at : {"asleep", "lock", "login"}, age : 0..Timeout]
  <2>1. keeper \in [at : {"asleep", "lock", "login"}, age : 0..Timeout]
    BY DEF IInv, TypeOK
  <2>2. keeper.age \in 0..Timeout
    BY <2>1
  <2>3. (IF keeper.at # "lock" /\ keeper.age < Timeout THEN keeper.age + 1 ELSE keeper.age) \in 0..Timeout
    BY <2>2, Parameters
  <2> QED BY <1>1, <2>1, <2>3
<1>7. TypeOK'
  BY <1>1, <1>5, <1>6, <1>12 DEF Sound, IInv, TypeOK, Calls, Hands
<1>8. ApiProbes' = ApiProbes /\ VaultProbes' = VaultProbes
  BY <1>1, <1>2, <1>3 DEF ApiProbes, VaultProbes
<1>9. \A h \in Handlers : Tidy(hand'[h]) /\ (hand[h] = NoHandler => hand'[h] = NoHandler)
  BY <1>1, <1>3, <1>4 DEF IInv, ProbeHeld, Tidy
<1>10. \A c \in Callers : call'[c].at = call[c].at /\ call'[c].try = call[c].try
  BY <1>1, <1>2
<1>11. ProbeHeld'
  BY <1>5, <1>8, <1>9, <1>10, Types DEF IInv, ProbeHeld
<1> QED
  BY <1>5, <1>7, <1>8, <1>11 DEF IInv, Held, Keeps

-----------------------------------------------------------------------------
(* The theorems *)

LEMMA InitIInv == Init => IInv
<1> SUFFICES ASSUME Init PROVE IInv
  OBVIOUS
<1>1. TypeOK
  <2>1. Closed \in Breakers /\ Asleep \in [at : {"asleep", "lock", "login"}, age : 0..Timeout]
    BY Parameters, StartTypes DEF Sound, Asleep
  <2> QED BY <2>1, StartTypes DEF Init, TypeOK, Calls, Hands
<1>2. \A h \in Handlers : hand[h] = NoHandler
  BY DEF Init
<1>3. \A c \in Callers : <<c, 0>> \in Handlers /\ <<c, 1>> \in Handlers
  BY DEF Handlers
<1>4. ProbeHeld
  BY <1>2, <1>3, StartTypes, StartValues DEF Init, ProbeHeld
<1> QED
  BY <1>1, <1>4 DEF IInv

\* The steps where a caller gives up its probe at the semaphore.
Lost == \/ \E c \in Callers : call[c].probe /\ GiveUp(c)
        \/ \E h \in Handlers : hand[h].probe /\ HandlerGivesUp(h)

LEMMA NextKeeps == ASSUME IInv, [Next]_vars PROVE IInv' /\ (Lost \/ Keeps)
<1>1. ASSUME NEW c \in Callers, Ask(c) \/ GiveUp(c) \/ CallerGoesOn(c) \/ Cancel(c)
      PROVE  IInv' /\ (Lost \/ Keeps)
  <2>1. CASE GiveUp(c)
    BY <2>1, GiveUpKeeps DEF Lost
  <2>2. CASE ~GiveUp(c)
    BY <1>1, <2>2, AskKeeps, EnterKeeps, AnswerKeeps, NoAnswerKeeps, CancelKeeps DEF CallerGoesOn, Keeps
  <2> QED BY <2>1, <2>2
<1>2. ASSUME NEW h \in Handlers, HandlerGoesOn(h) PROVE IInv' /\ (Lost \/ Keeps)
  <2>1. CASE HandlerGivesUp(h)
    BY <2>1, HandlerGivesUpKeeps DEF Lost
  <2>2. CASE ~HandlerGivesUp(h)
    BY <1>2, <2>2, RefusesKeeps, ArriveKeeps, HandlerEntersKeeps, ServedKeeps, ForbiddenKeeps,
       FailingKeeps, CancelledKeeps, TakeLockKeeps, LogInKeeps DEF HandlerGoesOn, Keeps
  <2> QED BY <2>1, <2>2
<1>3. CASE Outside \/ UNCHANGED vars
  BY <1>3, OutsideKeeps DEF Keeps
<1>4. CASE KmsRestarts \/ Tick
  BY <1>4, RestartKeeps, TickKeeps DEF Keeps
<1> QED
  BY <1>1, <1>2, <1>3, <1>4 DEF Next, Outside

\* Every reachable state has the types of its parts, and every probe is where
\* the code can still hear of it or lost at a semaphore.
THEOREM CallsInvariance == Spec => []IInv
<1>1. IInv /\ [Next]_vars => IInv'
  BY NextKeeps
<1> QED
  BY <1>1, InitIInv, PTL DEF Spec

\* A half-open breaker admits the next call when no probe is out, for any number
\* of callers, places, attempts and failures, until a caller that has the probe
\* gives up at the semaphore (kmsclient/client.go:104, vault/client.go:258): no
\* other step of the code loses it.
THEOREM ProbesAreLostOnlyThere == Spec => LostOnlyAtTheGate
<1>1. ASSUME IInv PROVE HalfOpenAdmits <=> Held
  BY <1>1 DEF IInv, ProbeHeld, Sound, HalfOpenAdmits, Held, Allows
<1>2. ASSUME IInv, [Next]_vars, HalfOpenAdmits PROVE HalfOpenAdmits' \/ Lost
  <2>1. IInv' /\ (Lost \/ (Held => Held'))
    BY <1>2, NextKeeps DEF Keeps
  <2>2. IInv' => (HalfOpenAdmits' <=> Held')
    BY DEF IInv, ProbeHeld, Sound, HalfOpenAdmits, Held, Allows
  <2> QED BY <1>1, <1>2, <2>1, <2>2
<1>3. IInv /\ [Next]_vars => [HalfOpenAdmits => HalfOpenAdmits' \/ Lost]_vars
  BY <1>2
<1> QED
  BY <1>3, CallsInvariance, PTL DEF Spec, LostOnlyAtTheGate, Lost

\* The API's breaker closes only on what Vault said or on a 4xx of the service
\* itself, in any step of any number of callers (kmsclient/client.go:121-128): a
\* 503 of the service, a time limit and a cancelled call leave it tripped.
THEOREM ClosesOnAnswer == Spec => ClosesOnService
<1> DEFINE Good == Tripped(apiBrk) /\ ~Tripped(apiBrk') => \E c \in Callers : call[c].at = "out" /\ Mine(c).said \in {"ok", "refused"}
<1>1. IInv /\ [Next]_vars => [Good]_vars
  <2> SUFFICES ASSUME IInv, Next, Tripped(apiBrk), ~Tripped(apiBrk')
               PROVE  \E c \in Callers : call[c].at = "out" /\ Mine(c).said \in {"ok", "refused"}
    OBVIOUS
  <2>1. apiBrk' # apiBrk /\ apiBrk' # Failure(apiBrk) /\ apiBrk' # Elapse(apiBrk) /\ apiBrk' # Admit(apiBrk)
    BY Types, BreakerCloses
  <2>2. ~(KeepAlive \/ VaultTurns \/ TokenExpires \/ KmsRestarts \/ Tick)
    BY <2>1 DEF KeepAlive, RenewFails, KeeperTakesLock, KeeperLogsIn, KeepRest, VaultTurns, TokenExpires, KmsRestarts, Tick
  <2>3. \A h \in Handlers : ~HandlerGoesOn(h)
    BY <2>1 DEF HandlerGoesOn, Refuses, TakeLock, Arrive, HandlerGivesUp, HandlerEnters, Served, Forbidden, Failing,
                Cancelled, LogIn, KeepCalls
  <2>4. PICK c \in Callers : Ask(c) \/ GiveUp(c) \/ CallerGoesOn(c) \/ Cancel(c)
    BY <2>2, <2>3 DEF Next
  <2>5. ~(Ask(c) \/ GiveUp(c) \/ Enter(c) \/ NoAnswer(c) \/ Cancel(c))
    BY <2>1 DEF Ask, GiveUp, Enter, NoAnswer, Cancel, Unavailable, Ends
  <2>6. Answer(c)
    BY <2>4, <2>5 DEF CallerGoesOn
  <2>7. ~Unavailable(c, NoHandler)
    BY <2>1 DEF Unavailable, Ends
  <2>8. /\ call[c].at = "out" /\ Mine(c).at = "done" /\ Mine(c).said # "failed"
    BY <2>6, <2>7 DEF Answer
  <2>9. Mine(c) \in Hands /\ Tidy(Mine(c))
    BY MineIsMine
  <2> QED BY <2>8, <2>9 DEF Tidy, Hands
<1> QED
  BY <1>1, CallsInvariance, PTL DEF Spec, ClosesOnService
=============================================================================
