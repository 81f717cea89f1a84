------------------------ MODULE ServiceAuthReplayProofs ------------------------
(***************************************************************************)
(* Theorems about ServiceAuthReplay, for every value of its constants: any  *)
(* number of messages, nonces and deliveries, any window and clean-up limit.*)
(***************************************************************************)
EXTENDS ServiceAuthReplay, TLAPS

(***************************************************************************)
(* Type correctness.                                                        *)
(***************************************************************************)

\* Every state of the replay protection has its types.
THEOREM TypeCorrect == Spec => []TypeOK
  <1>1. Init => TypeOK
    BY WindowAssumption DEF Init, TypeOK, Steps
  <1>2. TypeOK /\ [Next]_vars => TypeOK'
    <2> SUFFICES ASSUME TypeOK, [Next]_vars PROVE TypeOK'
      OBVIOUS
    <2>1. ASSUME NEW d \in Deliveries, Deliver(d) PROVE TypeOK'
      BY <2>1, WindowAssumption DEF TypeOK, Deliver, Goto, Steps, inputs
    <2>2. ASSUME NEW d \in Deliveries, Verify(d) PROVE TypeOK'
      BY <2>2 DEF TypeOK, Verify, Goto, Steps, Ended, inputs
    <2>3. ASSUME NEW d \in Deliveries, Consume(d) PROVE TypeOK'
      <3>1. ExpiryOf(d) \in Int /\ NonceOf(d) \in Nonces
        BY WindowAssumption DEF TypeOK, ExpiryOf, IssuedAt, NonceOf
      <3>2. expiresAt' \in [Nonces -> Int \cup {NoRow}]
        BY <2>3, <3>1 DEF TypeOK, Consume
      <3>3. pc' \in [Deliveries -> Steps] /\ acceptedAt' \in [Deliveries -> Int]
        <4>1. /\ Goto(d, "denied") \/ Goto(d, "accepted") \/ Goto(d, "unknown")
              /\ acceptedAt' = [acceptedAt EXCEPT ![d] = clock] \/ UNCHANGED acceptedAt
          BY <2>3 DEF Consume
        <4>2. QED
          BY <4>1 DEF TypeOK, Goto, Steps, Ended
      <3>4. QED
        BY <2>3, <3>2, <3>3 DEF TypeOK, Consume, inputs
    <2>4. CASE Tick
      BY <2>4 DEF TypeOK, Tick, inputs
    <2>5. CASE UNCHANGED vars
      BY <2>5 DEF TypeOK, vars, inputs
    <2>6. QED
      BY <2>1, <2>2, <2>3, <2>4, <2>5 DEF Next
  <1>3. QED
    BY <1>1, <1>2, PTL DEF Spec

(***************************************************************************)
(* What a consume() does, in the terms of the invariants.                   *)
(***************************************************************************)

\* A row that is not expired survives a consume(), which inserts only where no
\* unexpired row is; and what it answers says which happened.
LEMMA ConsumeEffect ==
  ASSUME TypeOK, NEW d \in Deliveries, Consume(d)
  PROVE  /\ \A n \in Nonces :
              \/ expiresAt'[n] = expiresAt[n]
              \/ expiresAt'[n] = NoRow /\ n \in Expired
              \/ /\ n = NonceOf(d) /\ expiresAt'[n] = ExpiryOf(d)
                 /\ expiresAt[n] = NoRow \/ n \in Expired
                 /\ pc'[d] \in {"accepted", "unknown"}
         /\ pc'[d] = "accepted" =>
              /\ acceptedAt'[d] = clock /\ ExpiryOf(d) > clock
              /\ expiresAt'[NonceOf(d)] = ExpiryOf(d)
              /\ expiresAt[NonceOf(d)] = NoRow \/ NonceOf(d) \in Expired
         /\ pc'[d] = "denied" => ~Retainable(d) \/ expiresAt[NonceOf(d)] # NoRow
         /\ pc'[d] \in {"accepted", "denied", "unknown"}
         /\ \A e \in Deliveries \ {d} : pc'[e] = pc[e] /\ acceptedAt'[e] = acceptedAt[e]
         /\ UNCHANGED <<clock, inputs, now>>
  <1>1. NonceOf(d) \in Nonces
    BY DEF TypeOK, NonceOf
  <1>2. CASE ~Retainable(d) /\ Goto(d, "denied") /\ UNCHANGED <<expiresAt, acceptedAt>>
    BY <1>2 DEF TypeOK, Consume, Goto
  <1>3. ASSUME NEW S \in SUBSET Expired, Retainable(d),
               LET kept == [n \in Nonces |-> IF n \in S THEN NoRow ELSE expiresAt[n]]
               IN  \/ /\ kept[NonceOf(d)] # NoRow
                      /\ expiresAt' = kept
                      /\ Goto(d, "denied")
                      /\ UNCHANGED acceptedAt
                   \/ /\ kept[NonceOf(d)] = NoRow
                      /\ expiresAt' = [kept EXCEPT ![NonceOf(d)] = ExpiryOf(d)]
                      /\ \/ /\ Goto(d, "accepted")
                            /\ acceptedAt' = [acceptedAt EXCEPT ![d] = clock]
                         \/ LostReplies /\ Goto(d, "unknown") /\ UNCHANGED acceptedAt
        PROVE  /\ \A n \in Nonces :
                    \/ expiresAt'[n] = expiresAt[n]
                    \/ expiresAt'[n] = NoRow /\ n \in Expired
                    \/ /\ n = NonceOf(d) /\ expiresAt'[n] = ExpiryOf(d)
                       /\ expiresAt[n] = NoRow \/ n \in Expired
                       /\ pc'[d] \in {"accepted", "unknown"}
               /\ pc'[d] = "accepted" =>
                    /\ acceptedAt'[d] = clock
                    /\ expiresAt'[NonceOf(d)] = ExpiryOf(d)
                    /\ expiresAt[NonceOf(d)] = NoRow \/ NonceOf(d) \in Expired
               /\ pc'[d] = "denied" => expiresAt[NonceOf(d)] # NoRow
               /\ pc'[d] \in {"accepted", "denied", "unknown"}
               /\ \A e \in Deliveries \ {d} : pc'[e] = pc[e] /\ acceptedAt'[e] = acceptedAt[e]
    <2> DEFINE kept == [n \in Nonces |-> IF n \in S THEN NoRow ELSE expiresAt[n]]
    <2>1. CASE /\ kept[NonceOf(d)] # NoRow /\ expiresAt' = kept
               /\ Goto(d, "denied") /\ UNCHANGED acceptedAt
      BY <1>1, <2>1 DEF TypeOK, Goto
    <2>2. CASE /\ kept[NonceOf(d)] = NoRow
               /\ expiresAt' = [kept EXCEPT ![NonceOf(d)] = ExpiryOf(d)]
               /\ \/ /\ Goto(d, "accepted")
                     /\ acceptedAt' = [acceptedAt EXCEPT ![d] = clock]
                  \/ LostReplies /\ Goto(d, "unknown") /\ UNCHANGED acceptedAt
      <3>1. expiresAt[NonceOf(d)] = NoRow \/ NonceOf(d) \in Expired
        BY <1>1, <2>2
      <3>2. pc'[d] \in {"accepted", "unknown"}
        BY <2>2 DEF TypeOK, Goto
      <3>3. pc'[d] = "accepted" => acceptedAt'[d] = clock
        BY <2>2 DEF TypeOK, Goto
      <3>4. \A e \in Deliveries \ {d} : pc'[e] = pc[e] /\ acceptedAt'[e] = acceptedAt[e]
        BY <2>2 DEF TypeOK, Goto
      <3>5. expiresAt'[NonceOf(d)] = ExpiryOf(d)
        BY <1>1, <2>2
      <3>6. \A n \in Nonces \ {NonceOf(d)} :
              expiresAt'[n] = expiresAt[n] \/ (expiresAt'[n] = NoRow /\ n \in Expired)
        <4>1. \A n \in Nonces \ {NonceOf(d)} : expiresAt'[n] = kept[n]
          <5> HIDE DEF kept
          <5>1. DOMAIN kept = Nonces
            BY DEF kept
          <5>2. QED
            BY <2>2, <5>1
        <4>2. \A n \in Nonces :
                kept[n] = expiresAt[n] \/ (kept[n] = NoRow /\ n \in Expired)
          OBVIOUS
        <4>3. QED
          BY <4>1, <4>2
      <3>7. QED
        BY <3>1, <3>2, <3>3, <3>4, <3>5, <3>6
    <2>3. QED
      BY <1>3, <2>1, <2>2
  <1>4. Retainable(d) => ExpiryOf(d) > clock
    BY DEF Retainable
  <1>5. UNCHANGED <<clock, inputs, now>> /\ Consume(d)
    BY DEF Consume
  <1>6. CASE Retainable(d)
    <2>1. PICK S \in SUBSET Expired :
            LET kept == [n \in Nonces |-> IF n \in S THEN NoRow ELSE expiresAt[n]]
            IN  \/ /\ kept[NonceOf(d)] # NoRow
                   /\ expiresAt' = kept
                   /\ Goto(d, "denied")
                   /\ UNCHANGED acceptedAt
                \/ /\ kept[NonceOf(d)] = NoRow
                   /\ expiresAt' = [kept EXCEPT ![NonceOf(d)] = ExpiryOf(d)]
                   /\ \/ /\ Goto(d, "accepted")
                         /\ acceptedAt' = [acceptedAt EXCEPT ![d] = clock]
                      \/ LostReplies /\ Goto(d, "unknown") /\ UNCHANGED acceptedAt
      BY <1>5, <1>6 DEF Consume
    <2>2. QED
      BY <1>3, <1>4, <1>5, <1>6, <2>1
  <1>7. CASE ~Retainable(d)
    BY <1>2, <1>5, <1>7 DEF Consume
  <1>8. QED
    BY <1>6, <1>7

(***************************************************************************)
(* Replay.                                                                  *)
(***************************************************************************)

\* Until an accepted message expires its nonce has a row that outlives it; and two
\* acceptances of one nonce are a whole window apart.
ReplayInv ==
  /\ \A d \in Deliveries : pc[d] = "accepted" =>
       /\ acceptedAt[d] < ExpiryOf(d)
       /\ clock < ExpiryOf(d) =>
            expiresAt[NonceOf(d)] # NoRow /\ expiresAt[NonceOf(d)] >= ExpiryOf(d)
  /\ NonceReusedAfterExpiry

\* The replay invariant is inductive.
LEMMA ReplayStep ==
  ASSUME TypeOK, ReplayInv, [Next]_vars
  PROVE  ReplayInv'
  <1> USE DEF ReplayInv, NonceReusedAfterExpiry
  <1>1. ASSUME NEW d \in Deliveries, Deliver(d) \/ Verify(d) PROVE ReplayInv'
    BY <1>1 DEF TypeOK, Deliver, Verify, Goto, inputs, NonceOf, ExpiryOf, IssuedAt
  <1>2. ASSUME NEW d \in Deliveries, Consume(d) PROVE ReplayInv'
    <2>1. /\ \A e \in Deliveries : NonceOf(e)' = NonceOf(e) /\ ExpiryOf(e)' = ExpiryOf(e)
          /\ clock' = clock
      BY <1>2 DEF Consume, inputs, NonceOf, ExpiryOf, IssuedAt
    <2>2. \A e \in Deliveries : ExpiryOf(e) \in Int /\ NonceOf(e) \in Nonces
      BY WindowAssumption DEF TypeOK, ExpiryOf, IssuedAt, NonceOf
    <2>3. \A e \in Deliveries :
            pc[e] = "accepted" /\ clock < ExpiryOf(e) =>
              expiresAt[NonceOf(e)] # NoRow /\ NonceOf(e) \notin Expired
      BY <2>2 DEF Expired, TypeOK
    <2>4. ASSUME NEW e \in Deliveries, pc'[e] = "accepted"
          PROVE  /\ acceptedAt'[e] < ExpiryOf(e)
                 /\ clock < ExpiryOf(e) =>
                      expiresAt'[NonceOf(e)] # NoRow /\ expiresAt'[NonceOf(e)] >= ExpiryOf(e)
      <3>1. CASE e = d
        BY <1>2, <2>2, <2>4, <3>1, ConsumeEffect, NoRowAssumption
      <3>2. CASE e # d
        <4>1. pc[e] = "accepted" /\ acceptedAt'[e] = acceptedAt[e]
          BY <1>2, <2>4, <3>2, ConsumeEffect
        <4>2. clock < ExpiryOf(e) => expiresAt'[NonceOf(e)] = expiresAt[NonceOf(e)]
          BY <1>2, <2>2, <2>3, <4>1, ConsumeEffect
        <4>3. QED
          BY <4>1, <4>2
      <3>3. QED
        BY <3>1, <3>2
    <2>5. ASSUME NEW e \in Deliveries, e # d, pc'[d] = "accepted", pc'[e] = "accepted",
                 NonceOf(d) = NonceOf(e)
          PROVE  acceptedAt'[d] >= ExpiryOf(e)
      <3>1. pc[e] = "accepted"
        BY <1>2, <2>5, ConsumeEffect
      <3>2. acceptedAt'[d] = clock
            /\ (expiresAt[NonceOf(d)] = NoRow \/ NonceOf(d) \in Expired)
        BY <1>2, <2>5, ConsumeEffect
      <3>3. ~(clock < ExpiryOf(e))
        BY <2>3, <2>5, <3>1, <3>2
      <3>4. QED
        BY <2>2, <3>2, <3>3 DEF TypeOK
    <2>6. ASSUME NEW e \in Deliveries, NEW f \in Deliveries, e # f,
                 pc'[e] = "accepted", pc'[f] = "accepted", NonceOf(e) = NonceOf(f)
          PROVE  acceptedAt'[e] >= ExpiryOf(f) \/ acceptedAt'[f] >= ExpiryOf(e)
      <3>1. CASE e = d
        BY <2>5, <2>6, <3>1
      <3>2. CASE f = d
        BY <2>5, <2>6, <3>2
      <3>3. CASE e # d /\ f # d
        <4>1. /\ pc[e] = "accepted" /\ acceptedAt'[e] = acceptedAt[e]
              /\ pc[f] = "accepted" /\ acceptedAt'[f] = acceptedAt[f]
          BY <1>2, <2>6, <3>3, ConsumeEffect
        <4>2. QED
          BY <2>6, <4>1
      <3>4. QED
        BY <3>1, <3>2, <3>3
    <2>7. QED
      BY <2>1, <2>4, <2>6
  <1>3. CASE Tick
    BY <1>3, WindowAssumption DEF TypeOK, Tick, inputs, NonceOf, ExpiryOf, IssuedAt
  <1>4. CASE UNCHANGED vars
    BY <1>4 DEF vars, inputs, NonceOf, ExpiryOf, IssuedAt
  <1>5. QED
    BY <1>1, <1>2, <1>3, <1>4 DEF Next

\* The replay invariant holds in every state.
LEMMA ReplayInvariant == Spec => []ReplayInv
  <1>1. Init => ReplayInv
    BY DEF Init, ReplayInv, NonceReusedAfterExpiry
  <1>2. QED
    BY <1>1, ReplayStep, TypeCorrect, PTL DEF Spec

\* A nonce that is accepted again is accepted after the first message's expiry.
THEOREM NoncesDoNotOverlap == Spec => []NonceReusedAfterExpiry
  <1>1. ReplayInv => NonceReusedAfterExpiry
    BY DEF ReplayInv
  <1>2. QED
    BY <1>1, ReplayInvariant, PTL

\* No signed message is ever accepted twice.
THEOREM NoReplay == Spec => []AcceptedOnce
  <1>1. TypeOK /\ ReplayInv => AcceptedOnce
    <2> SUFFICES ASSUME TypeOK, ReplayInv, NEW d \in Deliveries, NEW e \in Deliveries,
                        pc[d] = "accepted", pc[e] = "accepted", carries[d] = carries[e],
                        d # e
                 PROVE  FALSE
      BY DEF AcceptedOnce
    <2>1. NonceOf(d) = NonceOf(e) /\ ExpiryOf(d) = ExpiryOf(e)
      BY DEF NonceOf, ExpiryOf, IssuedAt
    <2>2. /\ ExpiryOf(d) \in Int /\ acceptedAt[d] \in Int /\ acceptedAt[e] \in Int
          /\ acceptedAt[d] < ExpiryOf(d) /\ acceptedAt[e] < ExpiryOf(e)
      BY WindowAssumption DEF TypeOK, ReplayInv, ExpiryOf, IssuedAt
    <2>3. acceptedAt[d] >= ExpiryOf(e) \/ acceptedAt[e] >= ExpiryOf(d)
      BY <2>1 DEF ReplayInv, NonceReusedAfterExpiry
    <2>4. QED
      BY <2>1, <2>2, <2>3
  <1>2. QED
    BY <1>1, ReplayInvariant, TypeCorrect, PTL

(***************************************************************************)
(* Windows, refusals and denials.                                           *)
(***************************************************************************)

\* A delivery that reached the object was verified inside its window at a `now` that
\* was not ahead of the object's clock by more than the skew.
VerifiedInv ==
  \A d \in Deliveries :
    /\ pc[d] # "idle" => now[d] <= clock + MaxSkew
    /\ pc[d] \in {"consuming", "accepted", "denied", "unknown"} =>
         genuine[d] /\ InWindow(d)
    /\ pc[d] = "accepted" =>
         /\ acceptedAt[d] < ExpiryOf(d)
         /\ IssuedAt(d) - Window <= acceptedAt[d] + MaxSkew

\* The verification invariant is inductive.
LEMMA VerifiedStep ==
  ASSUME TypeOK, VerifiedInv, [Next]_vars
  PROVE  VerifiedInv'
  <1> USE DEF VerifiedInv
  <1>1. ASSUME NEW d \in Deliveries, Deliver(d) PROVE VerifiedInv'
    BY <1>1, WindowAssumption
    DEF TypeOK, Deliver, Goto, inputs, InWindow, ExpiryOf, IssuedAt
  <1>2. ASSUME NEW d \in Deliveries, Verify(d) PROVE VerifiedInv'
    BY <1>2 DEF TypeOK, Verify, Goto, inputs, InWindow, ExpiryOf, IssuedAt
  <1>3. ASSUME NEW d \in Deliveries, Consume(d) PROVE VerifiedInv'
    <2>1. /\ \A e \in Deliveries : /\ ExpiryOf(e)' = ExpiryOf(e) /\ IssuedAt(e)' = IssuedAt(e)
                                    /\ InWindow(e)' = InWindow(e)
          /\ UNCHANGED <<clock, now, genuine>>
      BY <1>3 DEF Consume, inputs, ExpiryOf, IssuedAt, InWindow
    <2>2. pc[d] = "consuming"
      BY <1>3 DEF Consume
    <2>3. \A e \in Deliveries \ {d} : pc'[e] = pc[e] /\ acceptedAt'[e] = acceptedAt[e]
      BY <1>3, ConsumeEffect
    <2>4. pc'[d] = "accepted" => acceptedAt'[d] = clock /\ ExpiryOf(d) > clock
      BY <1>3, ConsumeEffect
    <2>5. IssuedAt(d) - Window <= clock + MaxSkew
      BY <2>2, WindowAssumption DEF TypeOK, InWindow, IssuedAt
    <2>6. ExpiryOf(d) > clock => clock < ExpiryOf(d)
      BY WindowAssumption DEF TypeOK, ExpiryOf, IssuedAt
    <2>7. QED
      BY <2>1, <2>2, <2>3, <2>4, <2>5, <2>6
  <1>4. CASE Tick
    BY <1>4, WindowAssumption DEF TypeOK, Tick, inputs, InWindow, ExpiryOf, IssuedAt
  <1>5. CASE UNCHANGED vars
    BY <1>5 DEF vars, inputs, InWindow, ExpiryOf, IssuedAt
  <1>6. QED
    BY <1>1, <1>2, <1>3, <1>4, <1>5 DEF Next

\* The verification invariant holds in every state.
LEMMA VerifiedInvariant == Spec => []VerifiedInv
  <1>1. Init => VerifiedInv
    BY DEF Init, VerifiedInv
  <1>2. QED
    BY <1>1, VerifiedStep, TypeCorrect, PTL DEF Spec

\* What is accepted is genuine and in its window on the object's own clock.
THEOREM AcceptanceIsCurrent == Spec => []AcceptedWhileCurrent
  <1>1. VerifiedInv => AcceptedWhileCurrent
    BY DEF VerifiedInv, AcceptedWhileCurrent
  <1>2. QED
    BY <1>1, VerifiedInvariant, PTL

\* The rows stand for genuine deliveries: the step relation preserves it.
LEMMA RowsStep ==
  ASSUME TypeOK, VerifiedInv, RefusedTakesNoNonce, [Next]_vars
  PROVE  RefusedTakesNoNonce'
  <1>1. ASSUME NEW d \in Deliveries, Deliver(d) \/ Verify(d) PROVE RefusedTakesNoNonce'
    BY <1>1 DEF RefusedTakesNoNonce, TypeOK, Deliver, Verify, Goto, inputs,
                NonceOf, ExpiryOf, IssuedAt
  <1>2. ASSUME NEW d \in Deliveries, Consume(d) PROVE RefusedTakesNoNonce'
    <2>1. /\ \A e \in Deliveries : NonceOf(e)' = NonceOf(e) /\ ExpiryOf(e)' = ExpiryOf(e)
          /\ genuine' = genuine
      BY <1>2 DEF Consume, inputs, NonceOf, ExpiryOf, IssuedAt
    <2>2. pc[d] = "consuming" /\ genuine[d]
      BY <1>2 DEF Consume, VerifiedInv
    <2>3. \A e \in Deliveries : pc[e] \in {"accepted", "unknown"} => pc'[e] = pc[e]
      BY <1>2, <2>2, ConsumeEffect
    <2>4. ASSUME NEW n \in Nonces, expiresAt'[n] # NoRow
          PROVE  \E e \in Deliveries :
                   /\ pc'[e] \in {"accepted", "unknown"} /\ genuine[e]
                   /\ NonceOf(e) = n /\ ExpiryOf(e) = expiresAt'[n]
      <3>1. CASE expiresAt'[n] = expiresAt[n]
        BY <2>3, <2>4, <3>1 DEF RefusedTakesNoNonce
      <3>2. CASE /\ n = NonceOf(d) /\ expiresAt'[n] = ExpiryOf(d)
                 /\ pc'[d] \in {"accepted", "unknown"}
        BY <2>2, <3>2
      <3>3. QED
        BY <1>2, <2>4, <3>1, <3>2, ConsumeEffect
    <2>5. QED
      BY <2>1, <2>4 DEF RefusedTakesNoNonce
  <1>3. CASE Tick
    BY <1>3 DEF RefusedTakesNoNonce, Tick, inputs, NonceOf, ExpiryOf, IssuedAt
  <1>4. CASE UNCHANGED vars
    BY <1>4 DEF RefusedTakesNoNonce, vars, inputs, NonceOf, ExpiryOf, IssuedAt
  <1>5. QED
    BY <1>1, <1>2, <1>3, <1>4 DEF Next

\* A delivery that fails verification takes no nonce.
THEOREM RefusalsAreHarmless == Spec => []RefusedTakesNoNonce
  <1>1. Init => RefusedTakesNoNonce
    BY DEF Init, RefusedTakesNoNonce
  <1>2. QED
    BY <1>1, RowsStep, VerifiedInvariant, TypeCorrect, PTL DEF Spec

\* A denial inside the window has a taken nonce behind it: the retention limit is
\* wider than any verified window, so the object never refuses one.
LEMMA DenialStep ==
  ASSUME TypeOK, VerifiedInv, RefusedTakesNoNonce, OnlyReplaysAreDenied, [Next]_vars
  PROVE  OnlyReplaysAreDenied'
  <1>1. ASSUME NEW d \in Deliveries, Deliver(d) \/ Verify(d) PROVE OnlyReplaysAreDenied'
    BY <1>1 DEF OnlyReplaysAreDenied, TypeOK, Deliver, Verify, Goto, inputs,
                NonceOf, ExpiryOf, IssuedAt
  <1>2. ASSUME NEW d \in Deliveries, Consume(d) PROVE OnlyReplaysAreDenied'
    <2>1. /\ \A e \in Deliveries : NonceOf(e)' = NonceOf(e) /\ ExpiryOf(e)' = ExpiryOf(e)
          /\ clock' = clock
      BY <1>2 DEF Consume, inputs, NonceOf, ExpiryOf, IssuedAt
    <2>2. pc[d] = "consuming" /\ InWindow(d) /\ now[d] <= clock + MaxSkew
      BY <1>2 DEF Consume, VerifiedInv
    <2>3. clock < ExpiryOf(d) => Retainable(d)
      BY <2>2, WindowAssumption DEF TypeOK, InWindow, Retainable, ExpiryOf, IssuedAt
    <2>4. \A e \in Deliveries \ {d} : pc'[e] = pc[e]
      BY <1>2, ConsumeEffect
    <2>5. ASSUME NEW e \in Deliveries, pc'[e] = "denied", clock < ExpiryOf(e)
          PROVE  \E f \in Deliveries :
                   f # e /\ pc'[f] \in {"accepted", "unknown"} /\ NonceOf(f) = NonceOf(e)
      <3>1. CASE e = d
        <4>1. expiresAt[NonceOf(d)] # NoRow
          BY <1>2, <2>3, <2>5, <3>1, ConsumeEffect
        <4>2. NonceOf(d) \in Nonces
          BY DEF TypeOK, NonceOf
        <4>3. PICK f \in Deliveries :
                pc[f] \in {"accepted", "unknown"} /\ NonceOf(f) = NonceOf(d)
          BY <4>1, <4>2 DEF RefusedTakesNoNonce
        <4>4. f # d /\ pc'[f] = pc[f]
          BY <2>2, <2>4, <4>3
        <4>5. QED
          BY <3>1, <4>3, <4>4
      <3>2. CASE e # d
        <4>1. PICK f \in Deliveries :
                f # e /\ pc[f] \in {"accepted", "unknown"} /\ NonceOf(f) = NonceOf(e)
          BY <2>4, <2>5, <3>2 DEF OnlyReplaysAreDenied
        <4>2. f # d
          BY <2>2, <4>1
        <4>3. QED
          BY <2>4, <4>1, <4>2
      <3>3. QED
        BY <3>1, <3>2
    <2>6. QED
      BY <2>1, <2>5 DEF OnlyReplaysAreDenied
  <1>3. CASE Tick
    BY <1>3, WindowAssumption
    DEF OnlyReplaysAreDenied, TypeOK, Tick, inputs, NonceOf, ExpiryOf, IssuedAt
  <1>4. CASE UNCHANGED vars
    BY <1>4 DEF OnlyReplaysAreDenied, vars, inputs, NonceOf, ExpiryOf, IssuedAt
  <1>5. QED
    BY <1>1, <1>2, <1>3, <1>4 DEF Next

\* A genuine delivery is denied inside its window only for a nonce that was taken.
THEOREM DenialsAreReplays == Spec => []OnlyReplaysAreDenied
  <1>1. Init => OnlyReplaysAreDenied
    BY DEF Init, OnlyReplaysAreDenied
  <1>2. QED
    BY <1>1, DenialStep, VerifiedInvariant, RefusalsAreHarmless, TypeCorrect, PTL DEF Spec

\* What a nonce is worth: the three theorems about it together.
THEOREM NoncesSpentRightly == Spec => []NoncesAreSpentRightly
  BY NoncesDoNotOverlap, RefusalsAreHarmless, DenialsAreReplays, PTL DEF NoncesAreSpentRightly

(***************************************************************************)
(* A signed message is a token for one request.                             *)
(***************************************************************************)

\* Only a consume() accepts a delivery, and what is accepted stays accepted.
LEMMA OnlyConsumeAccepts ==
  ASSUME TypeOK, NEW d \in Deliveries, Deliver(d) \/ Verify(d)
  PROVE  UNCHANGED Uses
  <1>1. \A e \in Deliveries : pc'[e] = "accepted" <=> pc[e] = "accepted"
    BY DEF TypeOK, Deliver, Verify, Goto
  <1>2. carries' = carries
    BY DEF Deliver, Verify, inputs
  <1>3. QED
    BY <1>1, <1>2 DEF Uses

\* Replay protection implements single-use messages: each acceptance is the use of its
\* message, although the nonce that stands for it may expire, be cleaned up and come back.
THEOREM MessagesAreTokens == Spec => ImplementsOneUse
  <1>1. Init => Promise!Init
    BY DEF Init, Promise!Init, Uses
  <1>2. TypeOK /\ AcceptedOnce' /\ [Next]_vars => [Promise!Next]_Uses
    <2> SUFFICES ASSUME TypeOK, AcceptedOnce', [Next]_vars PROVE [Promise!Next]_Uses
      OBVIOUS
    <2>1. ASSUME NEW d \in Deliveries, Consume(d) PROVE [Promise!Next]_Uses
      <3> DEFINE Accepted == {e \in Deliveries : pc[e] = "accepted"}
      <3>1. /\ pc[d] = "consuming" /\ carries' = carries
            /\ \A e \in Deliveries \ {d} : pc'[e] = pc[e]
        BY <2>1, ConsumeEffect DEF Consume, inputs
      <3>2. CASE pc'[d] = "accepted"
        <4>1. Accepted' = Accepted \cup {d}
          BY <3>1, <3>2
        <4>2. Uses' = Uses \cup {<<carries[d], d>>}
          BY <3>1, <4>1 DEF Uses
        <4>3. \A use \in Uses : use[1] # carries[d]
          <5> SUFFICES ASSUME NEW e \in Accepted, carries[e] = carries[d] PROVE FALSE
            BY DEF Uses
          <5>1. e # d /\ pc'[e] = "accepted"
            BY <3>1
          <5>2. QED
            BY <3>1, <3>2, <5>1 DEF AcceptedOnce
        <4>4. carries[d] \in Messages
          BY DEF TypeOK
        <4>5. QED
          BY <4>2, <4>3, <4>4 DEF Promise!Next, Promise!Use
      <3>3. CASE pc'[d] # "accepted"
        BY <3>1, <3>3 DEF Uses
      <3>4. QED
        BY <3>2, <3>3
    <2>2. CASE Tick \/ UNCHANGED vars
      BY <2>2 DEF Tick, vars, inputs, Uses
    <2>3. QED
      BY <2>1, <2>2, OnlyConsumeAccepts DEF Next
  <1>3. QED
    BY <1>1, <1>2, TypeCorrect, NoReplay, PTL DEF Spec, ImplementsOneUse, Promise!Spec
================================================================================
