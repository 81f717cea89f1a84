--------------------------- MODULE ServiceAuthReplay ---------------------------
(***************************************************************************)
(* Service authentication: authenticateServiceRequest and verifyServiceAuth  *)
(* in the Workers, and the consumed-nonce table of the one Durable Object    *)
(* that a principal and key are routed to.  A signed message may be          *)
(* delivered any number of times, at any time; a delivery captures `now`     *)
(* before it reads the body, and its consume() runs arbitrarily later.       *)
(***************************************************************************)
EXTENDS Integers, FiniteSets

CONSTANTS
  Messages,      \* what the service signed: a nonce and a timestamp
  Nonces,
  Deliveries,    \* requests that carry a message
  NoRow,         \* the table has no row for a nonce
  Window,        \* allowedClockSkewMs, 300_000
  MaxRetention,  \* MAX_RETENTION_MS, 24 hours
  PurgeLimit,    \* 256 rows of each clean-up
  MaxSkew,       \* a Worker's Date differs from the object's by at most this
  LastIssued,    \* bound: no message is dated later
  MaxClock,      \* bound: the clock stops here
  LostReplies    \* may consume() take effect and its reply be lost?

ASSUME WindowAssumption ==
  /\ Window \in Nat \ {0} /\ MaxSkew \in Nat
  /\ LastIssued \in Nat /\ MaxClock \in Nat
  /\ MaxRetention \in Nat /\ 2 * Window + MaxSkew <= MaxRetention
ASSUME PurgeAssumption == PurgeLimit \in Nat \ {0}
ASSUME NoRowAssumption == NoRow \notin Int
ASSUME LostRepliesAssumption == LostReplies \in BOOLEAN

VARIABLES
  clock,       \* Date.now() in the Durable Object
  nonceOf,     \* the nonce of each message
  issuedAt,    \* the timestamp of each message
  carries,     \* the message each delivery carries
  genuine,     \* whether its digest, key and signature verify as delivered
  pc,          \* where each delivery is
  now,         \* the `now` each delivery captured
  expiresAt,   \* consumed_nonces: nonce -> expires_at
  acceptedAt   \* history: when each accepted delivery was consumed

inputs == <<nonceOf, issuedAt, carries, genuine>>
vars == <<clock, inputs, pc, now, expiresAt, acceptedAt>>

--------------------------------------------------------------------------------

Ended == {"accepted", "denied", "refused", "unknown"}
Steps == {"idle", "reading", "consuming"} \cup Ended

TypeOK ==
  /\ clock \in Nat
  /\ nonceOf \in [Messages -> Nonces]
  /\ issuedAt \in [Messages -> Nat]
  /\ carries \in [Deliveries -> Messages]
  /\ genuine \in [Deliveries -> BOOLEAN]
  /\ pc \in [Deliveries -> Steps]
  /\ now \in [Deliveries -> Int]
  /\ expiresAt \in [Nonces -> Int \cup {NoRow}]
  /\ acceptedAt \in [Deliveries -> Int]

Init ==
  /\ clock = 0
  /\ nonceOf \in [Messages -> Nonces]
  /\ issuedAt \in [Messages -> 0 .. LastIssued]
  /\ carries \in [Deliveries -> Messages]
  /\ genuine \in [Deliveries -> BOOLEAN]
  /\ pc = [d \in Deliveries |-> "idle"]
  /\ now = [d \in Deliveries |-> 0]
  /\ expiresAt = [n \in Nonces |-> NoRow]
  /\ acceptedAt = [d \in Deliveries |-> 0]

--------------------------------------------------------------------------------

NonceOf(d) == nonceOf[carries[d]]
IssuedAt(d) == issuedAt[carries[d]]

\* The expires_at the verifier asks the store to keep the nonce until.
ExpiryOf(d) == IssuedAt(d) + Window

Goto(d, step) == pc' = [pc EXCEPT ![d] = step]

\* The request arrives: `now = new Date()` before the body is read.
Deliver(d) ==
  /\ pc[d] = "idle"
  /\ \E t \in (clock - MaxSkew) .. (clock + MaxSkew) : now' = [now EXCEPT ![d] = t]
  /\ Goto(d, "reading")
  /\ UNCHANGED <<clock, inputs, expiresAt, acceptedAt>>

\* |now - issuedAt| <= allowedClockSkewMs, both ends included.
InWindow(d) ==
  /\ now[d] - IssuedAt(d) <= Window
  /\ IssuedAt(d) - now[d] <= Window

\* Body digest, timestamp window, key and signature: all before the store is asked.
Verify(d) ==
  /\ pc[d] = "reading"
  /\ Goto(d, IF genuine[d] /\ InWindow(d) THEN "consuming" ELSE "refused")
  /\ UNCHANGED <<clock, inputs, now, expiresAt, acceptedAt>>

Expired == {n \in Nonces : expiresAt[n] # NoRow /\ expiresAt[n] <= clock}

\* The clean-up of a consume(): the PurgeLimit oldest expired rows, or all of them.
Purged(S) ==
  /\ S \subseteq Expired
  /\ Cardinality(S) <= PurgeLimit
  /\ S # Expired => Cardinality(S) = PurgeLimit
  /\ \A m \in S, n \in Expired \ S : expiresAt[m] <= expiresAt[n]

\* Mutant: the object trusts the Worker's window and never looks at its own clock.
Retainable_Trusting(d) == ExpiryOf(d) > IssuedAt(d)

\* Mutant: the limit is one window, which a Worker's clock that is behind exceeds.
Retainable_Narrow(d) ==
  /\ ExpiryOf(d) > IssuedAt(d)
  /\ ExpiryOf(d) > clock
  /\ ExpiryOf(d) - clock <= Window

\* The object's own window: not expired, and not retained beyond the limit.
Retainable(d) ==
  /\ ExpiryOf(d) > IssuedAt(d)
  /\ ExpiryOf(d) > clock
  /\ ExpiryOf(d) - clock <= MaxRetention

\* Mutant: a nonce that is present is overwritten, and the caller told it is new.
Consume_Upsert(d) ==
  /\ pc[d] = "consuming"
  /\ Retainable(d)
  /\ expiresAt' = [expiresAt EXCEPT ![NonceOf(d)] = ExpiryOf(d)]
  /\ acceptedAt' = [acceptedAt EXCEPT ![d] = clock]
  /\ Goto(d, "accepted")
  /\ UNCHANGED <<clock, inputs, now>>

\* Mutant: the columns of the insert are swapped.
Consume_Swapped(d) ==
  /\ pc[d] = "consuming"
  /\ Retainable(d)
  /\ expiresAt' = [expiresAt EXCEPT ![NonceOf(d)] = NonceOf(d)]
  /\ acceptedAt' = [acceptedAt EXCEPT ![d] = clock]
  /\ Goto(d, "accepted")
  /\ UNCHANGED <<clock, inputs, now>>

\* consume() in the object: a window it refuses, or one transaction that cleans up
\* and inserts unless the nonce is still there.  A call that fails without effect is
\* a delivery that takes no further step.
Consume(d) ==
  /\ pc[d] = "consuming"
  /\ \/ /\ ~Retainable(d)
        /\ Goto(d, "denied")
        /\ UNCHANGED <<expiresAt, acceptedAt>>
     \/ /\ Retainable(d)
        /\ \E S \in SUBSET Expired :
             /\ Purged(S)
             /\ LET kept == [n \in Nonces |-> IF n \in S THEN NoRow ELSE expiresAt[n]]
                IN  \/ /\ kept[NonceOf(d)] # NoRow
                       /\ expiresAt' = kept
                       /\ Goto(d, "denied")
                       /\ UNCHANGED acceptedAt
                    \/ /\ kept[NonceOf(d)] = NoRow
                       /\ expiresAt' = [kept EXCEPT ![NonceOf(d)] = ExpiryOf(d)]
                       /\ \/ /\ Goto(d, "accepted")
                             /\ acceptedAt' = [acceptedAt EXCEPT ![d] = clock]
                          \/ LostReplies /\ Goto(d, "unknown") /\ UNCHANGED acceptedAt
  /\ UNCHANGED <<clock, inputs, now>>

Tick ==
  /\ clock < MaxClock
  /\ clock' = clock + 1
  /\ UNCHANGED <<inputs, pc, now, expiresAt, acceptedAt>>

Next == Tick \/ \E d \in Deliveries : Deliver(d) \/ Verify(d) \/ Consume(d)

Spec == Init /\ [][Next]_vars

--------------------------------------------------------------------------------
(* Properties *)

\* A signed message is accepted at most once, whenever its copies arrive and
\* whatever the clean-up has removed.
AcceptedOnce ==
  \A d, e \in Deliveries :
    pc[d] = "accepted" /\ pc[e] = "accepted" /\ carries[d] = carries[e] => d = e

\* A nonce that two messages share is accepted twice only in disjoint windows: the
\* second one after the first message has expired.
NonceReusedAfterExpiry ==
  \A d, e \in Deliveries :
    /\ pc[d] = "accepted" /\ pc[e] = "accepted"
    /\ d # e /\ NonceOf(d) = NonceOf(e)
    => acceptedAt[d] >= ExpiryOf(e) \/ acceptedAt[e] >= ExpiryOf(d)

\* What is accepted is genuine and inside its window when it is consumed, on the
\* object's clock: the `now` the Worker captured may be stale by then.
AcceptedWhileCurrent ==
  \A d \in Deliveries : pc[d] = "accepted" =>
    /\ genuine[d]
    /\ acceptedAt[d] < ExpiryOf(d)
    /\ IssuedAt(d) - Window <= acceptedAt[d] + MaxSkew

\* A delivery that failed verification took no nonce: each row stands for a genuine
\* delivery that reached the object.
RefusedTakesNoNonce ==
  \A n \in Nonces : expiresAt[n] # NoRow =>
    \E d \in Deliveries :
      /\ pc[d] \in {"accepted", "unknown"} /\ genuine[d]
      /\ NonceOf(d) = n /\ ExpiryOf(d) = expiresAt[n]

\* A delivery is denied inside its window only because its nonce was taken: bounded
\* clean-up may keep an expired row, and then only a reused nonce meets it.
OnlyReplaysAreDenied ==
  \A d \in Deliveries : pc[d] = "denied" /\ clock < ExpiryOf(d) =>
    \E e \in Deliveries :
      e # d /\ pc[e] \in {"accepted", "unknown"} /\ NonceOf(e) = NonceOf(d)

\* A nonce is spent by genuine messages only, stays spent as long as the message it was
\* spent on is in its window, and is denied to nothing but replays.
NoncesAreSpentRightly ==
  NonceReusedAfterExpiry /\ RefusedTakesNoNonce /\ OnlyReplaysAreDenied

\* What the rest of the system relies on: a signed message is a token for one request.
Uses == {<<carries[d], d>> : d \in {e \in Deliveries : pc[e] = "accepted"}}
Promise == INSTANCE OneUse WITH
  Tokens <- Messages, Users <- Deliveries, used <- Uses

\* Nonces that expire, are cleaned up and are used again keep that promise.
ImplementsOneUse == Promise!Spec
================================================================================
