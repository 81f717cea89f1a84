----------------------- MODULE ActivationConnectorProofs -----------------------
(***************************************************************************)
(* Theorems about ActivationConnector, for every value of its constants: any *)
(* number of calls under way at once, any number of acts of the owner.       *)
(***************************************************************************)
EXTENDS ActivationConnector, TLAPS

Position == {"idle"} \cup UnderWay \cup Ended

USE NamesAssumption

(***************************************************************************)
(* Type correctness.                                                        *)
(***************************************************************************)

\* Where a call goes, and what it forgets when it ends.
LEMMA MovesType ==
  ASSUME TypeOK, NEW c \in Calls, NEW x \in Position, Goto(c, x)
  PROVE  /\ pc' \in [Calls -> Position] /\ pc'[c] = x
         /\ \A d \in Calls \ {c} : pc'[d] = pc[d]
  BY DEF TypeOK, Goto, Position

LEMMA NothingIsSeen == Nothing \in Seen
  BY DEF Nothing, Seen

LEMMA EndsType ==
  ASSUME TypeOK, NEW c \in Calls, NEW x \in Position, Ends(c, x)
  PROVE  /\ pc' \in [Calls -> Position] /\ seen' \in [Calls -> Seen]
         /\ pc'[c] = x /\ \A d \in Calls \ {c} : pc'[d] = pc[d] /\ seen'[d] = seen[d]
  BY MovesType, NothingIsSeen DEF Ends, TypeOK

\* A read that passes, with or without something to remember.
LEMMA PassesType ==
  ASSUME TypeOK, NEW c \in Calls, NEW x \in Position, NEW y \in Position, Passes(c, x, y),
         seen' \in [Calls -> Seen]
  PROVE  TypeOK'
  <1>1. pc' \in [Calls -> Position]
    BY MovesType DEF Passes
  <1>2. QED
    BY <1>1 DEF TypeOK, Passes, account, custody, Position

LEMMA ReportsType ==
  ASSUME TypeOK, NEW c \in Calls, NEW x \in Position, NEW y \in Position, Reports(c, x, y)
  PROVE  TypeOK'
  <1>1. pc' \in [Calls -> Position] /\ seen' \in [Calls -> Seen]
    BY EndsType DEF Reports
  <1>2. QED
    BY <1>1 DEF TypeOK, Reports, account, custody, Position

LEMMA WrittenType ==
  ASSUME TypeOK, NEW c \in Calls, NEW x \in Position, NEW y \in Position, Written(c, x, y)
  PROVE  /\ pc' \in [Calls -> Position] /\ seen' \in [Calls -> Seen]
         /\ pc'[c] \in {y, "stopped"} /\ pc[c] = x
         /\ \A d \in Calls \ {c} : pc'[d] = pc[d] /\ seen'[d] = seen[d]
         /\ ownerActs' = ownerActs
  <1>1. "stopped" \in Position
    BY DEF Position, Ended
  <1>2. CASE Goto(c, y) /\ UNCHANGED seen
    BY <1>2, MovesType DEF Written, TypeOK
  <1>3. CASE Ends(c, "stopped")
    BY <1>1, <1>3, EndsType DEF Written
  <1>4. QED
    BY <1>2, <1>3 DEF Written

\* What a read adds to what a call has seen: a token or an application, the version and
\* its deployment, the secrets its custodian was given.
LEMMA SeesName ==
  ASSUME TypeOK, NEW c \in Calls, NEW x \in Calls,
         \/ seen' = [seen EXCEPT ![c].token = x]
         \/ seen' = [seen EXCEPT ![c].app = x]
  PROVE  seen' \in [Calls -> Seen]
  <1> DEFINE s == seen[c]
             token == [s EXCEPT !.token = x]
             app == [s EXCEPT !.app = x]
  <1>0. s \in Seen
    BY DEF TypeOK
  <1>1. token \in Seen /\ app \in Seen
    BY <1>0 DEF TypeOK, Seen
  <1>2. seen' = [seen EXCEPT ![c] = token] \/ seen' = [seen EXCEPT ![c] = app]
    OBVIOUS
  <1>3. QED
    BY <1>1, <1>2 DEF TypeOK

LEMMA SeesVersion ==
  ASSUME TypeOK, NEW c \in Calls, NEW v \in Versions, NEW n \in Nat,
         seen' = [seen EXCEPT ![c].version = v, ![c].deployment = n]
  PROVE  seen' \in [Calls -> Seen]
  <1> DEFINE s == seen[c]
             version == [s EXCEPT !.version = v, !.deployment = n]
  <1>0. s \in Seen
    BY DEF TypeOK
  <1>1. version \in Seen
    BY <1>0 DEF TypeOK, Seen
  <1>2. seen' = [seen EXCEPT ![c] = version]
    OBVIOUS
  <1>3. QED
    BY <1>1, <1>2 DEF TypeOK

LEMMA SeesCustody ==
  ASSUME TypeOK, NEW c \in Calls,
         seen' = [seen EXCEPT ![c].credential = credential, ![c].principal = principal]
  PROVE  seen' \in [Calls -> Seen]
  <1> DEFINE s == seen[c]
             custodian == [s EXCEPT !.credential = credential, !.principal = principal]
  <1>0. s \in Seen
    BY DEF TypeOK
  <1>1. custodian \in Seen
    BY <1>0 DEF TypeOK, Seen
  <1>2. seen' = [seen EXCEPT ![c] = custodian]
    OBVIOUS
  <1>3. QED
    BY <1>1, <1>2 DEF TypeOK

LEMMA BeginStopType ==
  ASSUME TypeOK, NEW c \in Calls, Begin(c) \/ Stop(c)
  PROVE  TypeOK'
  <1>1. CASE Begin(c)
    <2>1. PICK x \in {"list", "check", "unexposed", "disabled"} : Goto(c, x)
      BY <1>1 DEF Begin
    <2>2. x \in Position
      BY DEF Position, UnderWay, Creating, Ensuring, Activating, Enabling
    <2>3. pc' \in [Calls -> Position]
      BY <2>1, <2>2, MovesType
    <2>4. seen' \in [Calls -> Seen]
      BY <1>1, SeesCustody DEF Begin
    <2>5. QED
      BY <1>1, <2>3, <2>4 DEF Begin, TypeOK, Position, account, custody
  <1>2. CASE Stop(c)
    <2>1. "stopped" \in Position
      BY DEF Position, Ended
    <2>2. pc' \in [Calls -> Position] /\ seen' \in [Calls -> Seen]
      BY <1>2, <2>1, EndsType DEF Stop
    <2>3. QED
      BY <1>2, <2>2 DEF Stop, TypeOK, Position, account, custody
  <1>3. QED
    BY <1>1, <1>2

LEMMA CreateType ==
  ASSUME TypeOK, NEW c \in Calls, CreateServiceToken(c)
  PROVE  TypeOK'
  <1> Creating \subseteq Position /\ Reported \subseteq Position
    BY DEF Position, UnderWay, Ended
  <1> USE DEF Creating, Reported
  <1>1. CASE ListTokens(c) \/ VerifyToken(c)
    BY <1>1, PassesType DEF ListTokens, VerifyToken, TypeOK
  <1>2. CASE PostToken(c)
    BY <1>2, WrittenType DEF PostToken, TypeOK, custody, Position
  <1>3. CASE StoreCredential(c)
    BY <1>3, WrittenType DEF StoreCredential, TypeOK, account, Position
  <1>4. CASE RelistTokens(c)
    BY <1>4, ReportsType DEF RelistTokens
  <1>5. QED
    BY <1>1, <1>2, <1>3, <1>4 DEF CreateServiceToken

LEMMA EnsureType ==
  ASSUME TypeOK, NEW c \in Calls, EnsureAccessProtection(c)
  PROVE  TypeOK'
  <1> Ensuring \subseteq Position /\ Reported \subseteq Position
    BY DEF Position, UnderWay, Ended
  <1> USE DEF Ensuring, Reported
  <1>1. CASE CheckToken(c)
    <2>1. seen' \in [Calls -> Seen]
      BY <1>1, SeesName DEF CheckToken
    <2>2. QED
      BY <1>1, <2>1, PassesType DEF CheckToken
  <1>2. CASE SearchApps(c)
    BY <1>2, PassesType DEF SearchApps, TypeOK
  <1>3. CASE CreateApp(c)
    BY <1>3, WrittenType DEF CreateApp, TypeOK, custody, Position
  <1>4. CASE CreatePolicy(c)
    <2>1. seen[c].token \in Calls \cup {None}
      BY DEF TypeOK, Seen
    <2>2. QED
      BY <1>4, <2>1, WrittenType DEF CreatePolicy, TypeOK, custody, Position
  <1>5. CASE ConfirmApp(c)
    <2>1. seen' \in [Calls -> Seen]
      BY <1>5, SeesName DEF ConfirmApp
    <2>2. QED
      BY <1>5, <2>1, PassesType DEF ConfirmApp
  <1>6. CASE ConfirmPolicy(c)
    BY <1>6, ReportsType DEF ConfirmPolicy
  <1>7. QED
    BY <1>1, <1>2, <1>3, <1>4, <1>5, <1>6 DEF EnsureAccessProtection

LEMMA ActivateType ==
  ASSUME TypeOK, NEW c \in Calls, ActivateReviewedWorker(c)
  PROVE  TypeOK'
  <1> Activating \subseteq Position /\ Reported \subseteq Position
    BY DEF Position, UnderWay, Ended
  <1> USE DEF Activating, Reported
  <1>1. CASE \/ CheckUnexposed(c) \/ CheckHistory(c) \/ CheckLatest(c)
             \/ CheckSecrets(c) \/ CheckContinuity(c)
    BY <1>1, PassesType
    DEF CheckUnexposed, CheckHistory, CheckLatest, CheckSecrets, CheckContinuity, TypeOK
  <1>2. CASE StorePrincipal(c)
    BY <1>2, WrittenType DEF StorePrincipal, TypeOK, account, Position
  <1>3. CASE Derive(c)
    <2>1. CodeOf(latest) \in {"none", "reviewed", "other"}
      BY DEF CodeOf, TypeOK
    <2>2. QED
      BY <1>3, <2>1, WrittenType DEF Derive, TypeOK, Versions, custody, Position
  <1>4. CASE Deploy(c)
    <2>1. Append(deployments, c) \in Seq(Versions)
      BY DEF TypeOK, Versions
    <2>2. QED
      BY <1>4, <2>1, WrittenType DEF Deploy, TypeOK, custody, Position
  <1>5. CASE CheckStillUnexposed(c)
    BY <1>5, ReportsType DEF CheckStillUnexposed
  <1>6. QED
    BY <1>1, <1>2, <1>3, <1>4, <1>5 DEF ActivateReviewedWorker

LEMMA EnableType ==
  ASSUME TypeOK, NEW c \in Calls, EnableSubdomainAndRunCanary(c)
  PROVE  TypeOK'
  <1> Enabling \subseteq Position /\ Reported \subseteq Position
    BY DEF Position, UnderWay, Ended
  <1> USE DEF Enabling, Reported
  <1>1. CASE \/ CheckDisabled(c) \/ CheckProvenance(c) \/ RecheckToken(c) \/ ReadCustody(c)
             \/ RecheckAllocation(c) \/ RecheckLatest(c) \/ ReadBack(c)
    BY <1>1, PassesType
    DEF CheckDisabled, CheckProvenance, RecheckToken, ReadCustody, RecheckAllocation,
        RecheckLatest, ReadBack, TypeOK
  <1>2. CASE CheckAllocation(c)
    <2>1. Len(deployments) \in Nat
      BY DEF TypeOK
    <2>2. seen' \in [Calls -> Seen]
      BY <1>2, <2>1, SeesVersion DEF CheckAllocation
    <2>3. QED
      BY <1>2, <2>2, PassesType DEF CheckAllocation
  <1>3. CASE CheckIsolation(c)
    <2>1. seen' \in [Calls -> Seen]
      BY <1>3, SeesName DEF CheckIsolation
    <2>2. QED
      BY <1>3, <2>1, PassesType DEF CheckIsolation
  <1>4. CASE CheckPolicy(c)
    <2>1. seen' \in [Calls -> Seen]
      BY <1>4, SeesName DEF CheckPolicy
    <2>2. QED
      BY <1>4, <2>1, PassesType DEF CheckPolicy
  <1>5. CASE Enable(c)
    BY <1>5, WrittenType DEF Enable, TypeOK, custody, Position
  <1>6. CASE RunCanary(c)
    BY <1>6, ReportsType DEF RunCanary
  <1>7. QED
    BY <1>1, <1>2, <1>3, <1>4, <1>5, <1>6 DEF EnableSubdomainAndRunCanary

LEMMA OwnerType == ASSUME TypeOK, Owner PROVE TypeOK'
  <1>1. CASE OwnerUploads
    BY <1>1 DEF Owner, OwnerUploads, TypeOK, Versions, custody
  <1>2. CASE OwnerDeploys
    <2>1. \A v \in Versions : Append(deployments, v) \in Seq(Versions)
      BY DEF TypeOK
    <2>2. QED
      BY <1>2, <2>1 DEF Owner, OwnerDeploys, TypeOK, Versions, custody
  <1>3. ASSUME NEW t \in Calls, OwnerDeletesToken(t) PROVE TypeOK'
    BY <1>3 DEF Owner, OwnerDeletesToken, TypeOK, custody
  <1>4. QED
    BY <1>1, <1>2, <1>3 DEF Owner

LEMMA TypeStep == TypeOK /\ [Next]_vars => TypeOK'
  <1>1. TypeOK /\ UNCHANGED vars => TypeOK'
    BY DEF TypeOK, vars, account, custody
  <1>2. QED
    BY <1>1, BeginStopType, CreateType, EnsureType, ActivateType, EnableType, OwnerType DEF Next

\* Every state of the account, the custody and the calls has its types.
THEOREM TypeCorrect == Spec => []TypeOK
  <1>1. Init => TypeOK
    <2> SUFFICES ASSUME Init PROVE TypeOK
      OBVIOUS
    <2>1. seen \in [Calls -> Seen]
      BY NothingIsSeen DEF Init
    <2>2. deployments \in Seq(Versions)
      BY DEF Init
    <2>3. QED
      BY <2>1, <2>2 DEF Init, TypeOK, Versions
  <1>2. QED
    BY <1>1, TypeStep, PTL DEF Spec

(***************************************************************************)
(* The credential in custody.  Of the calls that have found their own token  *)
(* to be the only one, or that have reported it and the owner has not        *)
(* removed it since, there is at most one: a second would have had to find   *)
(* the first one's token gone.                                              *)
(***************************************************************************)
Posted == {"verify", "storeCredential", "relist"}
Holds(c) == pc[c] \in {"storeCredential", "relist"} \/ (pc[c] = "tokenReady" /\ c \in tokens)
Stored(c) == pc[c] = "relist" \/ (pc[c] = "tokenReady" /\ c \in tokens)

CustodyInv ==
  /\ \A c \in Calls : pc[c] \in Posted => c \in tokens
  /\ \A c, d \in Calls : Holds(c) /\ Holds(d) => c = d
  /\ \A c \in Calls : Stored(c) => credential = c

\* A step of a call that neither writes a token or the credential nor arrives at a place
\* the invariant speaks of.
LEMMA CustodyFrame ==
  ASSUME TypeOK, CustodyInv, NEW c \in Calls, NEW x \in Position, Goto(c, x),
         x \notin Posted \cup {"tokenReady"}, UNCHANGED <<tokens, credential>>
  PROVE  CustodyInv'
  BY MovesType DEF CustodyInv, Posted, Holds, Stored

\* The steps that are of that kind: all but four of createServiceToken.
LEMMA CustodyElsewhere ==
  ASSUME NEW c \in Calls,
         \/ Begin(c) \/ Stop(c) \/ ListTokens(c) \/ EnsureAccessProtection(c)
         \/ ActivateReviewedWorker(c) \/ EnableSubdomainAndRunCanary(c)
  PROVE  /\ \E x \in Position \ (Posted \cup {"tokenReady"}) : Goto(c, x)
         /\ UNCHANGED <<tokens, credential>>
  <1> USE DEF Position, UnderWay, Ended, Reported, Creating, Ensuring, Activating, Enabling,
              Posted, Passes, Written, Reports, Ends, account, custody
  <1>1. CASE Begin(c) \/ Stop(c) \/ ListTokens(c)
    BY <1>1 DEF Begin, Stop, ListTokens
  <1>2. CASE EnsureAccessProtection(c)
    BY <1>2
    DEF EnsureAccessProtection, CheckToken, SearchApps, CreateApp, CreatePolicy, ConfirmApp,
        ConfirmPolicy
  <1>3. CASE ActivateReviewedWorker(c)
    BY <1>3
    DEF ActivateReviewedWorker, CheckUnexposed, CheckHistory, CheckLatest, CheckSecrets,
        StorePrincipal, Derive, CheckContinuity, Deploy, CheckStillUnexposed
  <1>4. CASE EnableSubdomainAndRunCanary(c)
    BY <1>4
    DEF EnableSubdomainAndRunCanary, CheckDisabled, CheckAllocation, CheckProvenance,
        CheckIsolation, CheckPolicy, RecheckToken, ReadCustody, RecheckAllocation,
        RecheckLatest, Enable, ReadBack, RunCanary
  <1>5. QED
    BY <1>1, <1>2, <1>3, <1>4

LEMMA CreateCustody ==
  ASSUME TypeOK, CustodyInv, NEW c \in Calls,
         PostToken(c) \/ VerifyToken(c) \/ StoreCredential(c) \/ RelistTokens(c)
  PROVE  CustodyInv'
  <1> USE DEF CustodyInv, Posted, Holds, Stored
  <1> {"verify", "storeCredential", "relist", "tokenReady"} \subseteq Position
    BY DEF Position, UnderWay, Ended, Creating, Reported
  <1>1. CASE PostToken(c)
    <2>1. tokens' = tokens \cup {c} /\ credential' = credential
      BY <1>1 DEF PostToken, custody
    <2>2. /\ pc[c] = "post" /\ pc'[c] \in {"verify", "stopped"}
          /\ \A d \in Calls \ {c} : pc'[d] = pc[d]
      BY <1>1, WrittenType DEF PostToken, Position, UnderWay, Creating
    <2>3. QED
      BY <2>1, <2>2
  <1>2. CASE VerifyToken(c)
    <2>1. tokens = {c} /\ tokens' = tokens /\ credential' = credential
      BY <1>2 DEF VerifyToken, ExactlyPinned, Passes, account, custody
    <2>2. pc'[c] = "storeCredential" /\ \A d \in Calls \ {c} : pc'[d] = pc[d]
      BY <1>2, MovesType DEF VerifyToken, Passes
    <2>3. QED
      BY <2>1, <2>2
  <1>3. CASE StoreCredential(c)
    <2>1. tokens' = tokens /\ credential' = c
      BY <1>3 DEF StoreCredential, account
    <2>2. /\ pc[c] = "storeCredential" /\ pc'[c] \in {"relist", "stopped"}
          /\ \A d \in Calls \ {c} : pc'[d] = pc[d]
      BY <1>3, WrittenType DEF StoreCredential
    <2>3. QED
      BY <2>1, <2>2
  <1>4. CASE RelistTokens(c)
    <2>1. tokens' = tokens /\ credential' = credential /\ pc[c] = "relist"
      BY <1>4 DEF RelistTokens, Reports, account, custody
    <2>2. pc'[c] = "tokenReady" /\ \A d \in Calls \ {c} : pc'[d] = pc[d]
      BY <1>4, MovesType DEF RelistTokens, Reports, Ends
    <2>3. QED
      BY <2>1, <2>2
  <1>5. QED
    BY <1>1, <1>2, <1>3, <1>4

LEMMA CustodyStep == TypeOK /\ CustodyInv /\ [Next]_vars => CustodyInv'
  <1> SUFFICES ASSUME TypeOK, CustodyInv, [Next]_vars PROVE CustodyInv'
    OBVIOUS
  <1>1. CASE Owner
    <2>1. pc' = pc /\ credential' = credential
      BY <1>1 DEF Owner, custody
    <2>2. tokens' \subseteq tokens /\ \A t \in tokens \ tokens' : pc[t] \in Ended
      BY <1>1 DEF Owner, OwnerUploads, OwnerDeploys, OwnerDeletesToken
    <2>3. QED
      BY <2>1, <2>2 DEF CustodyInv, Posted, Holds, Stored, Ended, Reported
  <1>2. ASSUME NEW c \in Calls,
               \/ Begin(c) \/ Stop(c) \/ CreateServiceToken(c) \/ EnsureAccessProtection(c)
               \/ ActivateReviewedWorker(c) \/ EnableSubdomainAndRunCanary(c)
        PROVE  CustodyInv'
    BY <1>2, CustodyElsewhere, CustodyFrame, CreateCustody DEF CreateServiceToken
  <1>3. CASE UNCHANGED vars
    BY <1>3 DEF vars, account, custody, CustodyInv, Posted, Holds, Stored
  <1>4. QED
    BY <1>1, <1>2, <1>3 DEF Next

\* A reported token's credential is the one in custody, however many calls create tokens at
\* the same time.
THEOREM TokenInCustody == Spec => []ReportedTokenIsInCustody
  <1>1. Init => CustodyInv
    BY DEF Init, CustodyInv, Posted, Holds, Stored
  <1>2. CustodyInv => ReportedTokenIsInCustody
    BY DEF CustodyInv, Stored, ReportedTokenIsInCustody
  <1>3. QED
    BY <1>1, <1>2, CustodyStep, TypeCorrect, PTL DEF Spec

(***************************************************************************)
(* What is deployed.  The code of the version a call derived is looked at    *)
(* before the version is deployed, and no step after that derives it anew.   *)
(***************************************************************************)
Past == {"stillUnexposed", "activated", "stopped"}

DeployInv ==
  /\ \A c \in Calls : pc[c] = "deploy" => code[c] = "reviewed"
  /\ \A i \in 1 .. Len(deployments) : deployments[i] \in Calls => pc[deployments[i]] \in Past
  /\ DeployedIsReviewed

\* A step of a call that neither derives nor deploys, does not arrive at the deployment and
\* does not go back from behind it.
LEMMA DeployFrame ==
  ASSUME TypeOK, DeployInv, NEW c \in Calls, NEW x \in Position, Goto(c, x),
         x # "deploy", pc[c] \in Past => x \in Past, UNCHANGED <<code, deployments>>
  PROVE  DeployInv'
  BY MovesType DEF DeployInv, DeployedIsReviewed, Past

LEMMA DeployElsewhere ==
  ASSUME NEW c \in Calls,
         \/ Begin(c) \/ Stop(c) \/ CreateServiceToken(c) \/ EnsureAccessProtection(c)
         \/ CheckUnexposed(c) \/ CheckHistory(c) \/ CheckLatest(c) \/ CheckSecrets(c)
         \/ StorePrincipal(c) \/ CheckStillUnexposed(c) \/ EnableSubdomainAndRunCanary(c)
  PROVE  /\ \E x \in Position \ {"deploy"} : Goto(c, x) /\ (pc[c] \in Past => x \in Past)
         /\ UNCHANGED <<code, deployments>>
  <1> USE DEF Position, UnderWay, Ended, Reported, Creating, Ensuring, Activating, Enabling,
              Past, Passes, Written, Reports, Ends, account, custody
  <1>1. CASE Begin(c) \/ Stop(c)
    BY <1>1 DEF Begin, Stop
  <1>2. CASE CreateServiceToken(c)
    BY <1>2
    DEF CreateServiceToken, ListTokens, PostToken, VerifyToken, StoreCredential, RelistTokens
  <1>3. CASE EnsureAccessProtection(c)
    BY <1>3
    DEF EnsureAccessProtection, CheckToken, SearchApps, CreateApp, CreatePolicy, ConfirmApp,
        ConfirmPolicy
  <1>4. CASE \/ CheckUnexposed(c) \/ CheckHistory(c) \/ CheckLatest(c) \/ CheckSecrets(c)
             \/ StorePrincipal(c) \/ CheckStillUnexposed(c)
    BY <1>4
    DEF CheckUnexposed, CheckHistory, CheckLatest, CheckSecrets, StorePrincipal,
        CheckStillUnexposed
  <1>5. CASE EnableSubdomainAndRunCanary(c)
    BY <1>5
    DEF EnableSubdomainAndRunCanary, CheckDisabled, CheckAllocation, CheckProvenance,
        CheckIsolation, CheckPolicy, RecheckToken, ReadCustody, RecheckAllocation,
        RecheckLatest, Enable, ReadBack, RunCanary
  <1>6. QED
    BY <1>1, <1>2, <1>3, <1>4, <1>5

LEMMA ActivateDeploy ==
  ASSUME TypeOK, DeployInv, NEW c \in Calls, Derive(c) \/ CheckContinuity(c) \/ Deploy(c)
  PROVE  DeployInv'
  <1> USE DEF DeployInv, DeployedIsReviewed, Past
  <1> {"continuity", "deploy", "stillUnexposed", "derive"} \subseteq Position
    BY DEF Position, UnderWay, Activating
  <1>1. CASE Derive(c)
    <2>1. deployments' = deployments /\ \A d \in Calls \ {c} : code'[d] = code[d]
      BY <1>1 DEF Derive, TypeOK
    <2>2. /\ pc[c] = "derive" /\ pc'[c] \in {"continuity", "stopped"}
          /\ \A d \in Calls \ {c} : pc'[d] = pc[d]
      BY <1>1, WrittenType DEF Derive
    <2>3. QED
      BY <2>1, <2>2
  <1>2. CASE CheckContinuity(c)
    <2>1. code' = code /\ deployments' = deployments /\ code[c] = "reviewed"
      BY <1>2 DEF CheckContinuity, Passes, account
    <2>2. pc[c] = "continuity" /\ \A d \in Calls \ {c} : pc'[d] = pc[d]
      BY <1>2, MovesType DEF CheckContinuity, Passes
    <2>3. QED
      BY <2>1, <2>2
  <1>3. CASE Deploy(c)
    <2>1. code' = code /\ deployments' = Append(deployments, c)
      BY <1>3 DEF Deploy
    <2>2. /\ pc[c] = "deploy" /\ pc'[c] \in {"stillUnexposed", "stopped"}
          /\ \A d \in Calls \ {c} : pc'[d] = pc[d]
      BY <1>3, WrittenType DEF Deploy
    <2>3. \A i \in 1 .. Len(deployments') :
            \/ i \in 1 .. Len(deployments) /\ deployments'[i] = deployments[i]
            \/ deployments'[i] = c
      BY <2>1 DEF TypeOK
    <2>4. QED
      BY <2>1, <2>2, <2>3
  <1>4. QED
    BY <1>1, <1>2, <1>3

LEMMA DeployStep == TypeOK /\ DeployInv /\ [Next]_vars => DeployInv'
  <1> SUFFICES ASSUME TypeOK, DeployInv, [Next]_vars PROVE DeployInv'
    OBVIOUS
  <1>1. CASE Owner
    <2>1. code' = code /\ pc' = pc
      BY <1>1 DEF Owner, OwnerUploads, OwnerDeploys, OwnerDeletesToken
    <2>2. CASE deployments' = deployments
      BY <2>1, <2>2 DEF DeployInv, DeployedIsReviewed
    <2>3. ASSUME NEW v \in {Reviewed, latest} \ Calls, deployments' = Append(deployments, v)
          PROVE  DeployInv'
      <3>1. \A i \in 1 .. Len(deployments') :
              \/ i \in 1 .. Len(deployments) /\ deployments'[i] = deployments[i]
              \/ deployments'[i] = v
        BY <2>3 DEF TypeOK, Versions
      <3>2. QED
        BY <2>1, <2>3, <3>1 DEF DeployInv, DeployedIsReviewed
    <2>4. QED
      BY <1>1, <2>2, <2>3 DEF Owner, OwnerUploads, OwnerDeploys, OwnerDeletesToken
  <1>2. ASSUME NEW c \in Calls,
               \/ Begin(c) \/ Stop(c) \/ CreateServiceToken(c) \/ EnsureAccessProtection(c)
               \/ ActivateReviewedWorker(c) \/ EnableSubdomainAndRunCanary(c)
        PROVE  DeployInv'
    BY <1>2, DeployElsewhere, DeployFrame, ActivateDeploy DEF ActivateReviewedWorker
  <1>3. CASE UNCHANGED vars
    BY <1>3 DEF vars, account, DeployInv, DeployedIsReviewed
  <1>4. QED
    BY <1>1, <1>2, <1>3 DEF Next

\* Every version the connector has deployed is the reviewed code with a secret, whatever the
\* owner and other calls do to the latest version meanwhile.
THEOREM ReviewedCode == Spec => []DeployedIsReviewed
  <1>1. Init => DeployInv
    BY DEF Init, DeployInv, DeployedIsReviewed
  <1>2. DeployInv => DeployedIsReviewed
    BY DEF DeployInv
  <1>3. QED
    BY <1>1, <1>2, DeployStep, TypeCorrect, PTL DEF Spec

(***************************************************************************)
(* What stands before the subdomain.  An application keeps its policy, for   *)
(* only the call that created it writes to it and does so once, and a        *)
(* deployment stays in the history: what a call has found of either is still *)
(* so when it enables the subdomain.                                        *)
(***************************************************************************)
Applying == {"restrict", "confirm", "confirmPolicy", "protected", "stopped"}
Pinned == {"search", "create", "restrict", "confirm", "confirmPolicy"}
AfterPolicy == {"token", "custody", "reallocation", "relatest", "enable", "readBack", "canary"}
AfterProvenance == {"isolation", "policy"} \cup AfterPolicy

Found(c) == \E i \in 1 .. Len(deployments) : deployments[i] = seen[c].version

ExposureInv ==
  /\ \A c \in Calls : apps[c] # None => pc[c] \in Applying
  /\ \A c \in Calls : pc[c] \in Pinned => seen[c].token \in Calls
  /\ \A c \in Calls : pc[c] = "provenance" => Found(c)
  /\ \A c \in Calls : pc[c] = "policy" => seen[c].app \in Calls
  /\ \A c \in Calls : pc[c] \in AfterPolicy => Protected
  /\ \A c \in Calls : pc[c] \in AfterProvenance => Activated
  /\ subdomain => Protected /\ Activated

\* A step of a call that writes none of the three: what it arrives at must be earned.
LEMMA ExposureFrame ==
  ASSUME TypeOK, ExposureInv, NEW c \in Calls, NEW x \in Position, Goto(c, x),
         \A d \in Calls \ {c} : seen'[d] = seen[d],
         UNCHANGED <<apps, deployments, subdomain>>,
         pc[c] \in Applying => x \in Applying,
         x \in Pinned => seen'[c].token \in Calls,
         x = "provenance" => \E i \in 1 .. Len(deployments) : deployments[i] = seen'[c].version,
         x = "policy" => seen'[c].app \in Calls,
         x \in AfterPolicy => Protected,
         x \in AfterProvenance => Activated
  PROVE  ExposureInv'
  <1>1. pc'[c] = x /\ \A d \in Calls \ {c} : pc'[d] = pc[d]
    BY MovesType
  <1>2. QED
    BY <1>1 DEF ExposureInv, Protected, Activated, Found

\* The steps that arrive at nothing the invariant speaks of.
LEMMA ExposureElsewhere ==
  ASSUME TypeOK, ExposureInv, NEW c \in Calls,
         \/ Begin(c) \/ Stop(c) \/ CreateServiceToken(c) \/ ConfirmPolicy(c)
         \/ CheckUnexposed(c) \/ CheckHistory(c) \/ CheckLatest(c) \/ CheckSecrets(c)
         \/ StorePrincipal(c) \/ Derive(c) \/ CheckContinuity(c) \/ CheckStillUnexposed(c)
         \/ CheckDisabled(c) \/ RunCanary(c)
  PROVE  ExposureInv'
  <1> DEFINE Quiet(x) == /\ Goto(c, x) /\ (pc[c] \in Applying => x \in Applying)
                         /\ x \notin Pinned \cup {"provenance"} \cup AfterProvenance
  <1>1. \E x \in Position : Quiet(x)
    <2> USE DEF Position, UnderWay, Ended, Reported, Creating, Ensuring, Activating, Enabling,
                Passes, Written, Reports, Ends, Applying, Pinned, AfterProvenance, AfterPolicy
    <2>1. CASE Begin(c) \/ Stop(c) \/ ConfirmPolicy(c)
      BY <2>1 DEF Begin, Stop, ConfirmPolicy
    <2>2. CASE CreateServiceToken(c)
      BY <2>2
      DEF CreateServiceToken, ListTokens, PostToken, VerifyToken, StoreCredential, RelistTokens
    <2>3. CASE \/ CheckUnexposed(c) \/ CheckHistory(c) \/ CheckLatest(c) \/ CheckSecrets(c)
               \/ StorePrincipal(c) \/ Derive(c) \/ CheckContinuity(c)
               \/ CheckStillUnexposed(c) \/ CheckDisabled(c) \/ RunCanary(c)
      BY <2>3
      DEF CheckUnexposed, CheckHistory, CheckLatest, CheckSecrets, StorePrincipal, Derive,
          CheckContinuity, CheckStillUnexposed, CheckDisabled, RunCanary
    <2>4. QED
      BY <2>1, <2>2, <2>3
  <1>2. UNCHANGED <<apps, deployments, subdomain>>
    BY DEF Begin, Stop, CreateServiceToken, ListTokens, PostToken, VerifyToken, StoreCredential,
           RelistTokens, ConfirmPolicy, CheckUnexposed, CheckHistory, CheckLatest, CheckSecrets,
           StorePrincipal, Derive, CheckContinuity, CheckStillUnexposed, CheckDisabled,
           RunCanary, Passes, Written, Reports, account
  <1>3. \A d \in Calls \ {c} : seen'[d] = seen[d]
    BY DEF Begin, Stop, CreateServiceToken, ListTokens, PostToken, VerifyToken, StoreCredential,
           RelistTokens, ConfirmPolicy, CheckUnexposed, CheckHistory, CheckLatest, CheckSecrets,
           StorePrincipal, Derive, CheckContinuity, CheckStillUnexposed, CheckDisabled,
           RunCanary, Passes, Written, Reports, Ends, TypeOK
  <1>4. PICK x \in Position : Quiet(x)
    BY <1>1
  <1>5. x \notin AfterPolicy
    BY <1>4 DEF AfterProvenance
  <1>6. x # "policy"
    BY <1>4 DEF AfterProvenance
  <1>7. QED
    BY <1>2, <1>3, <1>4, <1>5, <1>6, ExposureFrame

\* A write that keeps what is protected, activated and found keeps the invariant, if what it
\* writes and arrives at does.
LEMMA ExposureWrite ==
  ASSUME TypeOK, ExposureInv, NEW c \in Calls, NEW x \in Position, NEW y \in Position,
         Written(c, x, y),
         \A d \in Calls \ {c} : apps'[d] = apps[d],
         apps'[c] # None => y \in Applying,
         y \in Pinned => seen[c].token \in Calls,
         Protected => Protected',
         deployments' = deployments \/ \E v \in Versions : deployments' = Append(deployments, v),
         y \notin {"provenance", "policy"}, y \in AfterPolicy => x \in AfterPolicy,
         y \in AfterProvenance => x \in AfterProvenance,
         subdomain' => subdomain \/ x \in AfterPolicy
  PROVE  ExposureInv'
  <1>1. \A i \in 1 .. Len(deployments) :
          i \in 1 .. Len(deployments') /\ deployments'[i] = deployments[i]
    BY DEF TypeOK
  <1>2. Activated => Activated'
    BY <1>1 DEF Activated
  <1>3. /\ pc[c] = x /\ pc'[c] \in {y, "stopped"}
        /\ \A d \in Calls \ {c} : pc'[d] = pc[d] /\ seen'[d] = seen[d]
    BY WrittenType
  <1>4. pc'[c] = y => seen'[c] = seen[c] \/ y = "stopped"
    BY MovesType DEF Written, Ends, Goto, TypeOK
  <1>5. \A d \in Calls : apps'[d] # None => pc'[d] \in Applying
    BY <1>3 DEF ExposureInv, Applying
  <1>6. \A d \in Calls : pc'[d] \in Pinned => seen'[d].token \in Calls
    BY <1>3, <1>4 DEF ExposureInv, Pinned
  <1>7. \A d \in Calls : pc'[d] = "provenance" => Found(d)'
    BY <1>1, <1>3 DEF ExposureInv, Found
  <1>8. \A d \in Calls : pc'[d] \in AfterPolicy => Protected'
    BY <1>3 DEF ExposureInv, AfterPolicy
  <1>9. \A d \in Calls : pc'[d] \in AfterProvenance => Activated'
    BY <1>2, <1>3 DEF ExposureInv, AfterProvenance, AfterPolicy
  <1>10. subdomain' => Protected' /\ Activated'
    BY <1>2, <1>3 DEF ExposureInv, AfterProvenance
  <1>11. \A d \in Calls : pc'[d] = "policy" => seen'[d].app \in Calls
    BY <1>3 DEF ExposureInv
  <1>12. QED
    BY <1>5, <1>6, <1>7, <1>8, <1>9, <1>10, <1>11 DEF ExposureInv

LEMMA EnsureExposure ==
  ASSUME TypeOK, ExposureInv, NEW c \in Calls,
         CheckToken(c) \/ SearchApps(c) \/ CreateApp(c) \/ CreatePolicy(c) \/ ConfirmApp(c)
  PROVE  ExposureInv'
  <1> Ensuring \subseteq Position
    BY DEF Position, UnderWay
  <1> USE DEF Ensuring, Applying, Pinned, AfterPolicy, AfterProvenance
  <1> seen[c] \in Seen /\ seen \in [Calls -> Seen]
    BY DEF TypeOK
  <1>1. CASE CheckToken(c)
    <2>1. /\ pc[c] = "check" /\ Goto(c, "search") /\ UNCHANGED <<apps, deployments, subdomain>>
          /\ \A d \in Calls \ {c} : seen'[d] = seen[d]
      BY <1>1 DEF CheckToken, Passes, account
    <2>2. seen'[c].token \in Calls
      BY <1>1 DEF CheckToken, Seen
    <2>3. QED
      BY <2>1, <2>2, ExposureFrame
  <1>2. CASE SearchApps(c)
    <2>1. PICK x \in {"create", "confirm"} : Goto(c, x)
      BY <1>2 DEF SearchApps, Passes
    <2>2. /\ pc[c] = "search" /\ seen' = seen /\ UNCHANGED <<apps, deployments, subdomain>>
      BY <1>2 DEF SearchApps, Passes, account
    <2>3. seen'[c].token \in Calls
      BY <2>2 DEF ExposureInv
    <2>4. QED
      BY <2>1, <2>2, <2>3, ExposureFrame
  <1>3. CASE CreateApp(c)
    <2>1. Written(c, "create", "restrict") /\ pc[c] = "create" /\ seen[c].token \in Calls
      BY <1>3 DEF CreateApp, Written, ExposureInv
    <2>2. apps' = [apps EXCEPT ![c] = NoPolicy] /\ UNCHANGED <<deployments, subdomain>>
      BY <1>3 DEF CreateApp
    <2>3. apps[c] = None /\ \A d \in Calls \ {c} : apps'[d] = apps[d]
      BY <2>1, <2>2 DEF ExposureInv, TypeOK
    <2>4. Protected => Protected'
      BY <2>3 DEF Protected
    <2>5. QED
      BY <2>1, <2>2, <2>3, <2>4, ExposureWrite
  <1>4. CASE CreatePolicy(c)
    <2>1. Written(c, "restrict", "confirm") /\ pc[c] = "restrict" /\ seen[c].token \in Calls
      BY <1>4 DEF CreatePolicy, Written, ExposureInv
    <2>2. apps' = [apps EXCEPT ![c] = seen[c].token] /\ UNCHANGED <<deployments, subdomain>>
      BY <1>4 DEF CreatePolicy
    <2>3. apps'[c] \in Calls /\ \A d \in Calls \ {c} : apps'[d] = apps[d]
      BY <2>1, <2>2 DEF TypeOK
    <2>4. Protected'
      BY <2>3 DEF Protected
    <2>5. QED
      BY <2>1, <2>2, <2>3, <2>4, ExposureWrite
  <1>5. CASE ConfirmApp(c)
    <2>1. /\ pc[c] = "confirm" /\ Goto(c, "confirmPolicy")
          /\ UNCHANGED <<apps, deployments, subdomain>>
          /\ \A d \in Calls \ {c} : seen'[d] = seen[d]
      BY <1>5 DEF ConfirmApp, Passes, account
    <2>2. seen'[c].token = seen[c].token
      BY <1>5 DEF ConfirmApp, Seen
    <2>3. seen'[c].token \in Calls
      BY <2>1, <2>2 DEF ExposureInv
    <2>4. QED
      BY <2>1, <2>3, ExposureFrame
  <1>6. QED
    BY <1>1, <1>2, <1>3, <1>4, <1>5

LEMMA DeployExposure ==
  ASSUME TypeOK, ExposureInv, NEW c \in Calls, Deploy(c)
  PROVE  ExposureInv'
  <1>1. Written(c, "deploy", "stillUnexposed") /\ UNCHANGED <<apps, subdomain>>
    BY DEF Deploy
  <1>2. c \in Versions /\ deployments' = Append(deployments, c)
    BY DEF Deploy, Versions
  <1>3. Protected => Protected'
    BY <1>1 DEF Protected
  <1>4. "deploy" \in Position /\ "stillUnexposed" \in Position
    BY DEF Position, UnderWay, Activating
  <1>5. apps[c] = None
    BY <1>1 DEF ExposureInv, Written, Applying
  <1>6. QED
    BY <1>1, <1>2, <1>3, <1>4, <1>5, ExposureWrite DEF Pinned, AfterPolicy, AfterProvenance

LEMMA EnableExposure ==
  ASSUME TypeOK, ExposureInv, NEW c \in Calls,
         \/ CheckAllocation(c) \/ CheckProvenance(c) \/ CheckIsolation(c) \/ CheckPolicy(c)
         \/ RecheckToken(c) \/ ReadCustody(c) \/ RecheckAllocation(c) \/ RecheckLatest(c)
         \/ Enable(c) \/ ReadBack(c)
  PROVE  ExposureInv'
  <1> Enabling \subseteq Position
    BY DEF Position, UnderWay
  <1> USE DEF Enabling, Applying, Pinned, AfterPolicy, AfterProvenance
  <1> seen[c] \in Seen /\ seen \in [Calls -> Seen]
    BY DEF TypeOK
  <1>1. CASE CheckAllocation(c)
    <2>1. PICK v \in Versions \ {Reviewed} :
            /\ Active(v)
            /\ seen' = [seen EXCEPT ![c].version = v, ![c].deployment = Len(deployments)]
      BY <1>1 DEF CheckAllocation
    <2>2. /\ pc[c] = "allocation" /\ Goto(c, "provenance")
          /\ UNCHANGED <<apps, deployments, subdomain>>
          /\ \A d \in Calls \ {c} : seen'[d] = seen[d]
      BY <1>1, <2>1 DEF CheckAllocation, Passes, account
    <2>3. Len(deployments) \in 1 .. Len(deployments)
      BY <2>1 DEF Active, TypeOK
    <2>4. seen'[c].version = v
      BY <2>1 DEF Seen
    <2>5. QED
      BY <2>1, <2>2, <2>3, <2>4, ExposureFrame DEF Active
  <1>2. CASE CheckProvenance(c)
    <2>1. /\ pc[c] = "provenance" /\ Goto(c, "isolation") /\ seen' = seen
          /\ seen[c].version \in Calls /\ UNCHANGED <<apps, deployments, subdomain>>
      BY <1>2 DEF CheckProvenance, Passes, account
    <2>2. Activated
      BY <2>1 DEF ExposureInv, Found, Activated
    <2>3. QED
      BY <2>1, <2>2, ExposureFrame
  <1>3. CASE CheckIsolation(c)
    <2>1. /\ pc[c] = "isolation" /\ Goto(c, "policy")
          /\ UNCHANGED <<apps, deployments, subdomain>>
          /\ \A d \in Calls \ {c} : seen'[d] = seen[d]
      BY <1>3 DEF CheckIsolation, Passes, account
    <2>2. Activated
      BY <2>1 DEF ExposureInv
    <2>3. seen'[c].app \in Calls
      BY <1>3 DEF CheckIsolation, Seen
    <2>4. QED
      BY <2>1, <2>2, <2>3, ExposureFrame
  <1>4. CASE CheckPolicy(c)
    <2>1. /\ pc[c] = "policy" /\ Goto(c, "token") /\ apps[seen[c].app] \in Calls
          /\ UNCHANGED <<apps, deployments, subdomain>>
          /\ \A d \in Calls \ {c} : seen'[d] = seen[d]
      BY <1>4 DEF CheckPolicy, Passes, account
    <2>2. Activated
      BY <2>1 DEF ExposureInv
    <2>3. Protected
      BY <2>1 DEF ExposureInv, Protected
    <2>4. QED
      BY <2>1, <2>2, <2>3, ExposureFrame
  <1>5. CASE \/ RecheckToken(c) \/ ReadCustody(c) \/ RecheckAllocation(c) \/ RecheckLatest(c)
             \/ ReadBack(c)
    <2>1. /\ pc[c] \in AfterPolicy /\ \E x \in AfterPolicy : Goto(c, x)
          /\ seen' = seen /\ UNCHANGED <<apps, deployments, subdomain>>
      BY <1>5
      DEF RecheckToken, ReadCustody, RecheckAllocation, RecheckLatest, ReadBack, Passes, account
    <2>2. Protected /\ Activated
      BY <2>1 DEF ExposureInv
    <2>3. QED
      BY <2>1, <2>2, ExposureFrame
  <1>6. CASE Enable(c)
    <2>1. Written(c, "enable", "readBack") /\ UNCHANGED <<apps, deployments>>
      BY <1>6 DEF Enable
    <2>2. Protected => Protected'
      BY <2>1 DEF Protected
    <2>3. apps[c] = None
      BY <2>1 DEF ExposureInv, Written
    <2>4. QED
      BY <2>1, <2>2, <2>3, ExposureWrite
  <1>7. QED
    BY <1>1, <1>2, <1>3, <1>4, <1>5, <1>6

LEMMA ExposureStep == TypeOK /\ ExposureInv /\ [Next]_vars => ExposureInv'
  <1> SUFFICES ASSUME TypeOK, ExposureInv, [Next]_vars PROVE ExposureInv'
    OBVIOUS
  <1>1. CASE Owner
    <2>1. UNCHANGED <<apps, subdomain, pc, seen>>
      BY <1>1 DEF Owner, OwnerUploads, OwnerDeploys, OwnerDeletesToken
    <2>2. \/ deployments' = deployments
          \/ \E v \in Versions : deployments' = Append(deployments, v)
      BY <1>1 DEF Owner, OwnerUploads, OwnerDeploys, OwnerDeletesToken, TypeOK, Versions
    <2>3. \A i \in 1 .. Len(deployments) :
            i \in 1 .. Len(deployments') /\ deployments'[i] = deployments[i]
      BY <2>2 DEF TypeOK
    <2>4. QED
      BY <2>1, <2>3 DEF ExposureInv, Protected, Activated, Found
  <1>2. ASSUME NEW c \in Calls,
               \/ Begin(c) \/ Stop(c) \/ CreateServiceToken(c) \/ EnsureAccessProtection(c)
               \/ ActivateReviewedWorker(c) \/ EnableSubdomainAndRunCanary(c)
        PROVE  ExposureInv'
    BY <1>2, ExposureElsewhere, EnsureExposure, DeployExposure, EnableExposure
    DEF EnsureAccessProtection, ActivateReviewedWorker, EnableSubdomainAndRunCanary
  <1>3. CASE UNCHANGED vars
    BY <1>3 DEF vars, account, ExposureInv, Protected, Activated, Found
  <1>4. QED
    BY <1>1, <1>2, <1>3 DEF Next

\* workers.dev is enabled only where a service-token policy protects the Worker and an
\* activated version has been deployed.
THEOREM ExposureIsProtected == Spec => []ExposedIsProtected
  <1>1. Init => ExposureInv
    BY DEF Init, ExposureInv, Applying, Pinned, AfterPolicy, AfterProvenance
  <1>2. ExposureInv => ExposedIsProtected
    BY DEF ExposureInv, ExposedIsProtected, Protected, Activated
  <1>3. QED
    BY <1>1, <1>2, ExposureStep, TypeCorrect, PTL DEF Spec

(***************************************************************************)
(* What a custodian was given.  A credential is stored by a call that is     *)
(* alone with its token, and is replaced only when the owner has removed     *)
(* that token: so whatever credential a custodian began with, if its token   *)
(* still exists, it is the one in custody.                                  *)
(***************************************************************************)
AfterStore == {"relist", "tokenReady", "stopped"}
AfterCustody == {"reallocation", "relatest", "enable", "readBack", "canary"}

CustodianInv ==
  /\ \A c \in Calls : credential = c => pc[c] \in AfterStore
  /\ \A c, d \in Calls : seen[c].credential = d => pc[d] \in AfterStore
  /\ \A d \in Calls : credential \in tokens /\ pc[d] = "storeCredential" => d = credential
  /\ \A c \in Calls : seen[c].credential \in tokens => credential = seen[c].credential
  /\ \A c \in Calls : pc[c] \in AfterCustody => seen[c].credential = seen[c].token

\* A step of a call that writes neither a token nor the credential, does not arrive at the
\* writing of the credential, and has seen what it should have where it arrives.
LEMMA CustodianFrame ==
  ASSUME TypeOK, CustodianInv, NEW c \in Calls, NEW x \in Position, Goto(c, x),
         \A d \in Calls \ {c} : seen'[d] = seen[d], UNCHANGED <<tokens, credential>>,
         seen'[c].credential \in {seen[c].credential, credential, None},
         x # "storeCredential", pc[c] \in AfterStore => x \in AfterStore,
         x \in AfterCustody => seen'[c].credential = seen'[c].token
  PROVE  CustodianInv'
  <1>1. pc'[c] = x /\ \A d \in Calls \ {c} : pc'[d] = pc[d]
    BY MovesType
  <1>2. \A d \in Calls : pc[d] \in AfterStore => pc'[d] \in AfterStore
    BY <1>1
  <1>3. None \notin tokens
    BY DEF TypeOK
  <1>4. \A d \in Calls : credential = d => pc'[d] \in AfterStore
    BY <1>2 DEF CustodianInv
  <1>5. \A d, e \in Calls : seen'[d].credential = e => pc'[e] \in AfterStore
    BY <1>2 DEF CustodianInv
  <1>6. \A d \in Calls : credential \in tokens /\ pc'[d] = "storeCredential" => d = credential
    BY <1>1 DEF CustodianInv
  <1>7. \A d \in Calls : seen'[d].credential \in tokens => credential = seen'[d].credential
    BY <1>3 DEF CustodianInv
  <1>8. \A d \in Calls : pc'[d] \in AfterCustody => seen'[d].credential = seen'[d].token
    BY <1>1 DEF CustodianInv
  <1>9. QED
    BY <1>4, <1>5, <1>6, <1>7, <1>8 DEF CustodianInv

\* The steps that neither write nor confirm a token, and have not passed the custodian.
LEMMA CustodianElsewhere ==
  ASSUME TypeOK, CustodianInv, NEW c \in Calls,
         \/ Begin(c) \/ Stop(c) \/ ListTokens(c) \/ RelistTokens(c)
         \/ EnsureAccessProtection(c) \/ ActivateReviewedWorker(c)
         \/ CheckDisabled(c) \/ CheckAllocation(c) \/ CheckProvenance(c)
         \/ CheckIsolation(c) \/ CheckPolicy(c) \/ RecheckToken(c) \/ RunCanary(c)
  PROVE  CustodianInv'
  <1> DEFINE Quiet(x) == /\ Goto(c, x) /\ (pc[c] \in AfterStore => x \in AfterStore)
                         /\ x \notin AfterCustody \cup {"storeCredential"}
             Quietly == /\ \E x \in Position : Quiet(x)
                        /\ UNCHANGED <<tokens, credential>>
                        /\ \A d \in Calls \ {c} : seen'[d] = seen[d]
                        /\ seen'[c].credential \in {seen[c].credential, credential, None}
  <1>0. /\ seen[c] \in Seen /\ seen \in [Calls -> Seen] /\ Nothing \in Seen
        /\ Nothing.credential = None
    BY NothingIsSeen DEF TypeOK, Nothing
  <1> USE DEF Position, UnderWay, Ended, Reported, Creating, Ensuring, Activating, Enabling,
              Passes, Written, Reports, Ends, AfterStore, AfterCustody, account, custody
  <1>1. CASE Begin(c) \/ Stop(c) \/ ListTokens(c) \/ RelistTokens(c)
    <2>1. Quietly
      BY <1>0, <1>1 DEF Begin, Stop, ListTokens, RelistTokens, Seen
    <2>2. QED
      BY <2>1, CustodianFrame
  <1>2. CASE EnsureAccessProtection(c)
    <2>1. Quietly
      BY <1>0, <1>2
      DEF EnsureAccessProtection, CheckToken, SearchApps, CreateApp, CreatePolicy, ConfirmApp,
          ConfirmPolicy, Seen
    <2>2. QED
      BY <2>1, CustodianFrame
  <1>3. CASE ActivateReviewedWorker(c)
    <2>1. Quietly
      BY <1>0, <1>3
      DEF ActivateReviewedWorker, CheckUnexposed, CheckHistory, CheckLatest, CheckSecrets,
          StorePrincipal, Derive, CheckContinuity, Deploy, CheckStillUnexposed, Seen
    <2>2. QED
      BY <2>1, CustodianFrame
  <1>4. CASE \/ CheckDisabled(c) \/ CheckAllocation(c) \/ CheckProvenance(c)
             \/ CheckIsolation(c) \/ CheckPolicy(c) \/ RecheckToken(c) \/ RunCanary(c)
    <2>1. /\ \E x \in Position : Quiet(x)
          /\ UNCHANGED <<tokens, credential>>
      BY <1>4
      DEF CheckDisabled, CheckAllocation, CheckProvenance, CheckIsolation, CheckPolicy,
          RecheckToken, RunCanary
    <2>2. ASSUME CheckAllocation(c)
          PROVE  /\ \A d \in Calls \ {c} : seen'[d] = seen[d]
                 /\ seen'[c].credential = seen[c].credential
      <3>1. PICK v \in Versions :
              seen' = [seen EXCEPT ![c].version = v, ![c].deployment = Len(deployments)]
        BY <2>2 DEF CheckAllocation
      <3>2. seen'[c].credential = seen[c].credential
        BY <1>0, <3>1 DEF Seen
      <3>3. QED
        BY <1>0, <3>1, <3>2
    <2>3. ASSUME CheckIsolation(c) \/ CheckPolicy(c)
          PROVE  /\ \A d \in Calls \ {c} : seen'[d] = seen[d]
                 /\ seen'[c].credential = seen[c].credential
      BY <1>0, <2>3 DEF CheckIsolation, CheckPolicy, Seen
    <2>4. ASSUME CheckDisabled(c) \/ CheckProvenance(c) \/ RecheckToken(c) \/ RunCanary(c)
          PROVE  /\ \A d \in Calls \ {c} : seen'[d] = seen[d]
                 /\ seen'[c].credential \in {seen[c].credential, None}
      BY <1>0, <2>4 DEF CheckDisabled, CheckProvenance, RecheckToken, RunCanary
    <2>5. QED
      BY <1>4, <2>1, <2>2, <2>3, <2>4, CustodianFrame
  <1>5. QED
    BY <1>1, <1>2, <1>3, <1>4

\* The custodian hands over what is of the token, and no later step of the tool changes
\* what its call has seen.
LEMMA CustodianKeeps ==
  ASSUME TypeOK, CustodianInv, NEW c \in Calls,
         \/ ReadCustody(c) \/ RecheckAllocation(c) \/ RecheckLatest(c) \/ Enable(c)
         \/ ReadBack(c)
  PROVE  CustodianInv'
  <1> Enabling \subseteq Position /\ Ended \subseteq Position
    BY DEF Position, UnderWay
  <1> USE DEF Enabling, Ended, AfterStore, AfterCustody
  <1>1. UNCHANGED <<tokens, credential>>
    BY DEF ReadCustody, RecheckAllocation, RecheckLatest, Enable, ReadBack, Passes, account,
           custody
  <1>2. CASE ReadCustody(c)
    <2>1. /\ pc[c] = "custody" /\ Goto(c, "reallocation") /\ seen' = seen
          /\ seen[c].credential = seen[c].token
      BY <1>2 DEF ReadCustody, Passes
    <2>2. QED
      BY <1>1, <2>1, CustodianFrame
  <1>3. CASE /\ pc[c] \in AfterCustody /\ seen' = seen
             /\ \E x \in AfterCustody : Goto(c, x)
    <2>1. seen[c].credential = seen[c].token
      BY <1>3 DEF CustodianInv
    <2>2. QED
      BY <1>1, <1>3, <2>1, CustodianFrame
  <1>4. CASE pc[c] \in AfterCustody /\ Ends(c, "stopped")
    <2>1. /\ Goto(c, "stopped") /\ seen' = [seen EXCEPT ![c] = Nothing]
      BY <1>4 DEF Ends
    <2>2. seen'[c].credential = None /\ \A d \in Calls \ {c} : seen'[d] = seen[d]
      BY <2>1 DEF TypeOK, Nothing
    <2>3. QED
      BY <1>1, <2>1, <2>2, CustodianFrame
  <1>5. QED
    BY <1>2, <1>3, <1>4 DEF RecheckAllocation, RecheckLatest, Enable, ReadBack, Passes, Written

LEMMA CreateCustodian ==
  ASSUME TypeOK, CustodyInv, CustodianInv, NEW c \in Calls,
         PostToken(c) \/ VerifyToken(c) \/ StoreCredential(c)
  PROVE  CustodianInv'
  <1> {"post", "verify", "storeCredential", "relist"} \subseteq Position
    BY DEF Position, UnderWay, Creating
  <1> USE DEF AfterStore
  <1>1. CASE PostToken(c)
    <2>1. tokens' = tokens \cup {c} /\ credential' = credential
      BY <1>1 DEF PostToken, custody
    <2>2. /\ pc[c] = "post" /\ pc'[c] \in {"verify", "stopped"}
          /\ \A d \in Calls \ {c} : pc'[d] = pc[d] /\ seen'[d] = seen[d]
          /\ seen'[c] = seen[c] \/ (pc'[c] = "stopped" /\ seen'[c] = Nothing)
      BY <1>1, WrittenType DEF PostToken, Written, Ends, TypeOK
    <2>3. credential # c /\ \A d \in Calls : seen[d].credential # c
      BY <2>2 DEF CustodianInv
    <2>4. Nothing.credential = None /\ None \notin tokens' /\ None \notin Calls
      BY <2>1 DEF Nothing, TypeOK
    <2>5. QED
      BY <2>1, <2>2, <2>3, <2>4 DEF CustodianInv, AfterCustody
  <1>2. CASE VerifyToken(c)
    <2>1. tokens = {c} /\ tokens' = tokens /\ credential' = credential /\ seen' = seen
      BY <1>2 DEF VerifyToken, ExactlyPinned, Passes, account, custody
    <2>2. /\ pc[c] = "verify" /\ pc'[c] = "storeCredential"
          /\ \A d \in Calls \ {c} : pc'[d] = pc[d]
      BY <1>2, MovesType DEF VerifyToken, Passes
    <2>3. QED
      BY <2>1, <2>2 DEF CustodianInv, AfterCustody
  <1>3. CASE StoreCredential(c)
    <2>1. tokens' = tokens /\ credential' = c
      BY <1>3 DEF StoreCredential, account
    <2>2. /\ pc[c] = "storeCredential" /\ pc'[c] \in {"relist", "stopped"}
          /\ \A d \in Calls \ {c} : pc'[d] = pc[d] /\ seen'[d] = seen[d]
          /\ seen'[c] = seen[c] \/ (pc'[c] = "stopped" /\ seen'[c] = Nothing)
      BY <1>3, WrittenType DEF StoreCredential, Written, Ends, TypeOK
    <2>3. credential # c
      BY <2>2 DEF CustodianInv
    <2>4. credential \notin tokens
      BY <2>2, <2>3 DEF CustodianInv
    <2>5. \A d \in Calls : seen[d].credential \notin tokens
      BY <2>4 DEF CustodianInv
    <2>6. Nothing.credential = None /\ None \notin tokens
      BY DEF Nothing, TypeOK
    <2>7. \A d \in Calls : seen'[d].credential \notin tokens'
      BY <2>1, <2>2, <2>5, <2>6
    <2>8. \A d \in Calls : pc'[d] = "storeCredential" => d = c
      BY <2>2 DEF CustodyInv, Holds
    <2>9. \A d, e \in Calls : seen'[d].credential = e => pc'[e] \in AfterStore
      BY <2>2, <2>6 DEF CustodianInv
    <2>10. \A d \in Calls : pc'[d] \in AfterCustody => seen'[d].credential = seen'[d].token
      BY <2>2 DEF CustodianInv, AfterCustody
    <2>11. \A d \in Calls : credential' = d => pc'[d] \in AfterStore
      BY <2>1, <2>2
    <2>12. QED
      BY <2>1, <2>7, <2>8, <2>9, <2>10, <2>11 DEF CustodianInv
  <1>4. QED
    BY <1>1, <1>2, <1>3

LEMMA CustodianStep == TypeOK /\ CustodyInv /\ CustodianInv /\ [Next]_vars => CustodianInv'
  <1> SUFFICES ASSUME TypeOK, CustodyInv, CustodianInv, [Next]_vars PROVE CustodianInv'
    OBVIOUS
  <1>1. CASE Owner
    <2>1. UNCHANGED <<credential, pc, seen>> /\ tokens' \subseteq tokens
      BY <1>1 DEF Owner, OwnerUploads, OwnerDeploys, OwnerDeletesToken, custody
    <2>2. QED
      BY <2>1 DEF CustodianInv
  <1>2. ASSUME NEW c \in Calls,
               \/ Begin(c) \/ Stop(c) \/ CreateServiceToken(c) \/ EnsureAccessProtection(c)
               \/ ActivateReviewedWorker(c) \/ EnableSubdomainAndRunCanary(c)
        PROVE  CustodianInv'
    BY <1>2, CustodianElsewhere, CustodianKeeps, CreateCustodian
    DEF CreateServiceToken, EnableSubdomainAndRunCanary
  <1>3. CASE UNCHANGED vars
    BY <1>3 DEF vars, account, custody, CustodianInv
  <1>4. QED
    BY <1>1, <1>2, <1>3 DEF Next

(***************************************************************************)
(* Whom the application admits.  A policy is written once, by the call that  *)
(* created its application: what the tool has found it to admit, it admits.  *)
(***************************************************************************)
Admits(c) ==
  /\ seen[c].app \in Calls /\ seen[c].token \in Calls
  /\ apps[seen[c].app] = seen[c].token

AdmissionInv ==
  /\ \A c \in Calls : pc[c] = "restrict" => apps[c] = NoPolicy
  /\ \A c \in Calls : pc[c] \in AfterPolicy => Admits(c)
  /\ \A c \in Calls : pc[c] = "canary" => subdomain

\* A step of a call that writes to no application.
LEMMA AdmissionFrame ==
  ASSUME TypeOK, AdmissionInv, NEW c \in Calls, NEW x \in Position, Goto(c, x),
         \A d \in Calls \ {c} : seen'[d] = seen[d], UNCHANGED apps, subdomain => subdomain',
         x # "restrict",
         x \in AfterPolicy =>
           /\ seen'[c].app \in Calls /\ seen'[c].token \in Calls
           /\ apps[seen'[c].app] = seen'[c].token,
         x = "canary" => subdomain'
  PROVE  AdmissionInv'
  <1>1. pc'[c] = x /\ \A d \in Calls \ {c} : pc'[d] = pc[d]
    BY MovesType
  <1>2. QED
    BY <1>1 DEF AdmissionInv, Admits

\* The steps that arrive before the policy is found, or end.
LEMMA AdmissionElsewhere ==
  ASSUME TypeOK, AdmissionInv, NEW c \in Calls,
         \/ Begin(c) \/ Stop(c) \/ CreateServiceToken(c) \/ CheckToken(c) \/ SearchApps(c)
         \/ ConfirmApp(c) \/ ConfirmPolicy(c) \/ ActivateReviewedWorker(c)
         \/ CheckDisabled(c) \/ CheckAllocation(c) \/ CheckProvenance(c)
         \/ CheckIsolation(c) \/ RunCanary(c)
  PROVE  AdmissionInv'
  <1> DEFINE Quiet(x) == Goto(c, x) /\ x \notin AfterPolicy \cup {"restrict"}
             Quietly == /\ \E x \in Position : Quiet(x)
                        /\ UNCHANGED <<apps, subdomain>>
                        /\ \A d \in Calls \ {c} : seen'[d] = seen[d]
  <1>0. seen \in [Calls -> Seen]
    BY DEF TypeOK
  <1> USE DEF Position, UnderWay, Ended, Reported, Creating, Ensuring, Activating, Enabling,
              Passes, Written, Reports, Ends, AfterPolicy, account
  <1>1. CASE Begin(c) \/ Stop(c) \/ CreateServiceToken(c)
    <2>1. Quietly
      BY <1>0, <1>1
      DEF Begin, Stop, CreateServiceToken, ListTokens, PostToken, VerifyToken, StoreCredential,
          RelistTokens
    <2>2. QED
      BY <2>1, AdmissionFrame
  <1>2. CASE CheckToken(c) \/ SearchApps(c) \/ ConfirmApp(c) \/ ConfirmPolicy(c)
    <2>1. Quietly
      BY <1>0, <1>2 DEF CheckToken, SearchApps, ConfirmApp, ConfirmPolicy
    <2>2. QED
      BY <2>1, AdmissionFrame
  <1>3. CASE ActivateReviewedWorker(c)
    <2>1. Quietly
      BY <1>0, <1>3
      DEF ActivateReviewedWorker, CheckUnexposed, CheckHistory, CheckLatest, CheckSecrets,
          StorePrincipal, Derive, CheckContinuity, Deploy, CheckStillUnexposed
    <2>2. QED
      BY <2>1, AdmissionFrame
  <1>4. CASE \/ CheckDisabled(c) \/ CheckAllocation(c) \/ CheckProvenance(c)
             \/ CheckIsolation(c) \/ RunCanary(c)
    <2>1. (\E x \in Position : Quiet(x)) /\ UNCHANGED <<apps, subdomain>>
      BY <1>4 DEF CheckDisabled, CheckAllocation, CheckProvenance, CheckIsolation, RunCanary
    <2>2. \A d \in Calls \ {c} : seen'[d] = seen[d]
      BY <1>0, <1>4 DEF CheckDisabled, CheckAllocation, CheckProvenance, CheckIsolation, RunCanary
    <2>3. QED
      BY <2>1, <2>2, AdmissionFrame
  <1>5. QED
    BY <1>1, <1>2, <1>3, <1>4

\* The two writes to an application: it is new, or it has no policy yet, so no call has
\* found it to admit a token.
LEMMA EnsureAdmission ==
  ASSUME TypeOK, ExposureInv, AdmissionInv, NEW c \in Calls, CreateApp(c) \/ CreatePolicy(c)
  PROVE  AdmissionInv'
  <1> Ensuring \subseteq Position
    BY DEF Position, UnderWay
  <1> USE DEF Ensuring
  <1>1. UNCHANGED subdomain
    BY DEF CreateApp, CreatePolicy
  <1>2. PICK x \in {"create", "restrict"}, y \in {"restrict", "confirm"} :
          /\ Written(c, x, y) /\ (x = "create" <=> y = "restrict")
          /\ apps' = [apps EXCEPT ![c] = IF x = "create" THEN NoPolicy ELSE seen[c].token]
    BY DEF CreateApp, CreatePolicy
  <1>3. /\ pc[c] = x /\ pc'[c] \in {y, "stopped"}
        /\ \A d \in Calls \ {c} : pc'[d] = pc[d] /\ seen'[d] = seen[d]
    BY <1>2, WrittenType
  <1>4. apps[c] \in {None, NoPolicy}
    BY <1>2, <1>3 DEF ExposureInv, AdmissionInv, Applying
  <1>5. \A d \in Calls \ {c} : apps'[d] = apps[d]
    BY <1>2 DEF TypeOK
  <1>6. \A d \in Calls : pc'[d] \in AfterPolicy => d # c /\ Admits(d)
    BY <1>3 DEF AdmissionInv, AfterPolicy
  <1>7. \A d \in Calls : pc'[d] \in AfterPolicy => Admits(d)'
    <2> SUFFICES ASSUME NEW d \in Calls, pc'[d] \in AfterPolicy PROVE Admits(d)'
      OBVIOUS
    <2>1. Admits(d) /\ seen'[d] = seen[d]
      BY <1>3, <1>6
    <2>2. seen[d].app # c
      BY <1>4, <2>1 DEF Admits
    <2>3. QED
      BY <1>5, <2>1, <2>2 DEF Admits
  <1>8. \A d \in Calls : pc'[d] = "restrict" => apps'[d] = NoPolicy
    BY <1>2, <1>3, <1>5 DEF AdmissionInv, TypeOK
  <1>9. \A d \in Calls : pc'[d] = "canary" => subdomain'
    BY <1>1, <1>3 DEF AdmissionInv
  <1>10. QED
    BY <1>7, <1>8, <1>9 DEF AdmissionInv

LEMMA EnableAdmission ==
  ASSUME TypeOK, ExposureInv, AdmissionInv, NEW c \in Calls,
         \/ CheckPolicy(c) \/ RecheckToken(c) \/ ReadCustody(c) \/ RecheckAllocation(c)
         \/ RecheckLatest(c) \/ Enable(c) \/ ReadBack(c)
  PROVE  AdmissionInv'
  <1> Enabling \subseteq Position /\ Ended \subseteq Position
    BY DEF Position, UnderWay
  <1> USE DEF Enabling, Ended, AfterPolicy
  <1>1. UNCHANGED apps /\ (subdomain => subdomain')
    BY DEF CheckPolicy, RecheckToken, ReadCustody, RecheckAllocation, RecheckLatest, Enable,
           ReadBack, Passes, account
  <1>2. CASE CheckPolicy(c)
    <2>1. PICK t \in Calls : apps[seen[c].app] = t /\ seen' = [seen EXCEPT ![c].token = t]
      BY <1>2 DEF CheckPolicy
    <2>2. pc[c] = "policy" /\ Goto(c, "token")
      BY <1>2 DEF CheckPolicy, Passes
    <2>3. seen[c].app \in Calls
      BY <2>2 DEF ExposureInv
    <2>4. seen[c] \in Seen /\ seen \in [Calls -> Seen]
      BY DEF TypeOK
    <2>5. /\ seen'[c].token = t /\ seen'[c].app = seen[c].app
          /\ \A d \in Calls \ {c} : seen'[d] = seen[d]
      BY <2>1, <2>4 DEF Seen
    <2>6. QED
      BY <1>1, <2>1, <2>2, <2>3, <2>5, AdmissionFrame
  <1>3. CASE /\ pc[c] \in AfterPolicy /\ seen' = seen
             /\ \E x \in AfterPolicy : Goto(c, x) /\ (x = "canary" => subdomain')
    <2>1. Admits(c)
      BY <1>3 DEF AdmissionInv
    <2>2. QED
      BY <1>1, <1>3, <2>1, AdmissionFrame DEF Admits
  <1>4. CASE Ends(c, "stopped")
    <2>1. Goto(c, "stopped") /\ \A d \in Calls \ {c} : seen'[d] = seen[d]
      BY <1>4 DEF Ends, TypeOK
    <2>2. QED
      BY <1>1, <2>1, AdmissionFrame
  <1>5. QED
    BY <1>2, <1>3, <1>4
    DEF RecheckToken, ReadCustody, RecheckAllocation, RecheckLatest, Enable, ReadBack, Passes,
        Written, account

LEMMA AdmissionStep == TypeOK /\ ExposureInv /\ AdmissionInv /\ [Next]_vars => AdmissionInv'
  <1> SUFFICES ASSUME TypeOK, ExposureInv, AdmissionInv, [Next]_vars PROVE AdmissionInv'
    OBVIOUS
  <1>1. CASE Owner
    <2>1. UNCHANGED <<apps, subdomain, pc, seen>>
      BY <1>1 DEF Owner, OwnerUploads, OwnerDeploys, OwnerDeletesToken
    <2>2. QED
      BY <2>1 DEF AdmissionInv, Admits
  <1>2. ASSUME NEW c \in Calls,
               \/ Begin(c) \/ Stop(c) \/ CreateServiceToken(c) \/ EnsureAccessProtection(c)
               \/ ActivateReviewedWorker(c) \/ EnableSubdomainAndRunCanary(c)
        PROVE  AdmissionInv'
    BY <1>2, AdmissionElsewhere, EnsureAdmission, EnableAdmission
    DEF EnsureAccessProtection, EnableSubdomainAndRunCanary
  <1>3. CASE UNCHANGED vars
    BY <1>3 DEF vars, account, AdmissionInv, Admits
  <1>4. QED
    BY <1>1, <1>2, <1>3 DEF Next

\* What the three invariants say where the canary passes.
LEMMA CanaryConcludes ==
  TypeOK /\ CustodianInv /\ AdmissionInv /\ DeployedIsReviewed => CanaryIsConclusive
  <1> SUFFICES ASSUME TypeOK, CustodianInv, AdmissionInv, DeployedIsReviewed, NEW c \in Calls,
                      pc[c] = "canary", CanaryPasses(c)
               PROVE  /\ subdomain
                      /\ credential = seen[c].token /\ credential \in tokens
                      /\ apps[seen[c].app] = credential
                      /\ \E v \in Calls : Active(v) /\ code[v] = "reviewed"
    BY DEF CanaryIsConclusive
  <1>1. seen[c].credential = seen[c].token /\ seen[c].token \in tokens
    BY DEF CustodianInv, AfterCustody, CanaryPasses
  <1>2. credential = seen[c].token
    BY <1>1 DEF CustodianInv
  <1>3. subdomain /\ apps[seen[c].app] = seen[c].token
    BY DEF AdmissionInv, AfterPolicy, Admits
  <1>4. seen[c].principal \in Calls \cup {None}
    BY DEF TypeOK, Seen
  <1>5. Active(seen[c].principal) /\ Len(deployments) \in 1 .. Len(deployments)
    BY DEF CanaryPasses, Active, TypeOK
  <1>6. deployments[Len(deployments)] \in Versions
    BY <1>5 DEF TypeOK
  <1>7. seen[c].principal \in Calls
    BY <1>4, <1>5, <1>6 DEF Active, Versions
  <1>8. code[seen[c].principal] = "reviewed"
    BY <1>5, <1>7 DEF Active, DeployedIsReviewed
  <1>9. QED
    BY <1>1, <1>2, <1>3, <1>5, <1>7, <1>8

\* A token that is handed over is the one in custody, and a canary that passes has proved
\* what it stands for: whatever else the other calls and the owner have done since the tool
\* made its checks, the credential, the policy and the code it answered for are in place.
THEOREM ReportsTrue == Spec => []ReportsAreTrue
  <1>1. Init => ExposureInv /\ DeployInv
    BY DEF Init, ExposureInv, Applying, Pinned, AfterPolicy, AfterProvenance, DeployInv,
           DeployedIsReviewed
  <1>2. Init => CustodyInv /\ CustodianInv /\ AdmissionInv
    BY DEF Init, CustodyInv, Posted, Holds, Stored, CustodianInv, AfterStore, AfterCustody,
           Nothing, AdmissionInv, AfterPolicy
  <1>3. TypeOK /\ CustodianInv /\ AdmissionInv /\ DeployInv => CanaryIsConclusive
    BY CanaryConcludes DEF DeployInv
  <1>4. Spec => []CanaryIsConclusive
    BY <1>1, <1>2, <1>3, TypeCorrect, CustodyStep, CustodianStep, ExposureStep, AdmissionStep,
       DeployStep, PTL DEF Spec
  <1>5. ReportedTokenIsInCustody /\ CanaryIsConclusive => ReportsAreTrue
    BY DEF ReportsAreTrue
  <1>6. QED
    BY <1>4, <1>5, TokenInCustody, PTL

(***************************************************************************)
(* The refinement.  Of the steps of all tools, three write what the promise  *)
(* speaks of: a policy, a deployment, the subdomain.                        *)
(***************************************************************************)

\* The creation of an application does not take the place of one with a policy, the policy
\* protects, and every other step leaves the applications alone.
LEMMA ProtectionKept ==
  ASSUME TypeOK, ExposureInv, [Next]_vars
  PROVE  /\ Protected => Protected'
         /\ Protected' # Protected => UNCHANGED <<deployments, subdomain>>
  <1>1. ASSUME NEW c \in Calls, CreateApp(c)
        PROVE  /\ Protected => Protected'
               /\ UNCHANGED <<deployments, subdomain>>
    <2>1. pc[c] = "create" /\ apps' = [apps EXCEPT ![c] = NoPolicy]
      BY <1>1 DEF CreateApp, Written
    <2>2. apps[c] = None /\ \A d \in Calls \ {c} : apps'[d] = apps[d]
      BY <2>1 DEF ExposureInv, Applying, TypeOK
    <2>3. QED
      BY <1>1, <2>2 DEF CreateApp, Protected
  <1>2. ASSUME NEW c \in Calls, CreatePolicy(c)
        PROVE  /\ Protected'
               /\ UNCHANGED <<deployments, subdomain>>
    <2>1. pc[c] = "restrict" /\ apps' = [apps EXCEPT ![c] = seen[c].token]
      BY <1>2 DEF CreatePolicy, Written
    <2>2. seen[c].token \in Calls
      BY <2>1 DEF ExposureInv, Pinned
    <2>3. QED
      BY <1>2, <2>1, <2>2 DEF CreatePolicy, Protected, TypeOK
  <1>3. CASE UNCHANGED apps
    BY <1>3 DEF Protected
  <1>4. CASE Owner \/ UNCHANGED vars
    BY <1>3, <1>4 DEF Owner, OwnerUploads, OwnerDeploys, OwnerDeletesToken, vars, account
  <1>5. ASSUME NEW c \in Calls,
               \/ Begin(c) \/ Stop(c) \/ CreateServiceToken(c) \/ ActivateReviewedWorker(c)
               \/ EnableSubdomainAndRunCanary(c)
        PROVE  UNCHANGED apps
    <2> USE DEF Passes, Written, Reports, account
    <2>1. CASE Begin(c) \/ Stop(c) \/ CreateServiceToken(c)
      BY <2>1
      DEF Begin, Stop, CreateServiceToken, ListTokens, PostToken, VerifyToken, StoreCredential,
          RelistTokens
    <2>2. CASE ActivateReviewedWorker(c)
      BY <2>2
      DEF ActivateReviewedWorker, CheckUnexposed, CheckHistory, CheckLatest, CheckSecrets,
          StorePrincipal, Derive, CheckContinuity, Deploy, CheckStillUnexposed
    <2>3. CASE EnableSubdomainAndRunCanary(c)
      BY <2>3
      DEF EnableSubdomainAndRunCanary, CheckDisabled, CheckAllocation, CheckProvenance,
          CheckIsolation, CheckPolicy, RecheckToken, ReadCustody, RecheckAllocation,
          RecheckLatest, Enable, ReadBack, RunCanary
    <2>4. QED
      BY <1>5, <2>1, <2>2, <2>3
  <1>6. ASSUME NEW c \in Calls,
               CheckToken(c) \/ SearchApps(c) \/ ConfirmApp(c) \/ ConfirmPolicy(c)
        PROVE  UNCHANGED apps
    BY <1>6 DEF CheckToken, SearchApps, ConfirmApp, ConfirmPolicy, Passes, Reports, account
  <1>7. QED
    BY <1>1, <1>2, <1>3, <1>4, <1>5, <1>6 DEF Next, EnsureAccessProtection

\* A deployment is added to the history or nothing happens to it; only the last tool writes
\* the subdomain, when it has found both the policy and the activation.
LEMMA ActivationKept ==
  ASSUME TypeOK, ExposureInv, [Next]_vars
  PROVE  /\ Activated => Activated'
         /\ deployments' # deployments => UNCHANGED <<apps, subdomain>>
         /\ subdomain' # subdomain =>
              Protected /\ Activated /\ subdomain' = TRUE /\ UNCHANGED <<apps, deployments>>
  <1> DEFINE Quiet == UNCHANGED <<deployments, subdomain>>
             Deployed == /\ \E v \in Versions : deployments' = Append(deployments, v)
                         /\ UNCHANGED <<apps, subdomain>>
             Enabled == /\ Protected /\ Activated
                        /\ subdomain' = TRUE /\ UNCHANGED <<apps, deployments>>
  <1>1. ASSUME NEW c \in Calls,
               Begin(c) \/ Stop(c) \/ CreateServiceToken(c) \/ EnsureAccessProtection(c)
        PROVE  Quiet
    <2> USE DEF Passes, Written, Reports, account
    <2>1. CASE Begin(c) \/ Stop(c) \/ CreateServiceToken(c)
      BY <2>1
      DEF Begin, Stop, CreateServiceToken, ListTokens, PostToken, VerifyToken, StoreCredential,
          RelistTokens
    <2>2. CASE EnsureAccessProtection(c)
      BY <2>2
      DEF EnsureAccessProtection, CheckToken, SearchApps, CreateApp, CreatePolicy, ConfirmApp,
          ConfirmPolicy
    <2>3. QED
      BY <1>1, <2>1, <2>2
  <1>2. ASSUME NEW c \in Calls, ActivateReviewedWorker(c)
        PROVE  Quiet \/ Deployed
    BY <1>2
    DEF ActivateReviewedWorker, CheckUnexposed, CheckHistory, CheckLatest, CheckSecrets,
        StorePrincipal, Derive, CheckContinuity, Deploy, CheckStillUnexposed, Passes, Written,
        Reports, account, Versions
  <1>3. ASSUME NEW c \in Calls, EnableSubdomainAndRunCanary(c)
        PROVE  Quiet \/ Enabled
    <2>1. CASE Enable(c)
      BY <2>1 DEF Enable, Written, ExposureInv, AfterPolicy, AfterProvenance
    <2>2. CASE ~Enable(c)
      BY <1>3, <2>2
      DEF EnableSubdomainAndRunCanary, CheckDisabled, CheckAllocation, CheckProvenance,
          CheckIsolation, CheckPolicy, RecheckToken, ReadCustody, RecheckAllocation,
          RecheckLatest, ReadBack, RunCanary, Passes, Reports, account
    <2>3. QED
      BY <2>1, <2>2
  <1>4. CASE Owner \/ UNCHANGED vars
    <2>1. Quiet \/ Deployed
      BY <1>4
      DEF Owner, OwnerUploads, OwnerDeploys, OwnerDeletesToken, vars, account, TypeOK, Versions
    <2>2. QED
      BY <2>1 DEF Activated, TypeOK
  <1>5. CASE Quiet \/ Deployed \/ Enabled
    <2>1. \A i \in 1 .. Len(deployments) :
            i \in 1 .. Len(deployments') /\ deployments'[i] = deployments[i]
      BY <1>5 DEF TypeOK
    <2>2. Activated => Activated'
      BY <2>1 DEF Activated
    <2>3. QED
      BY <1>5, <2>2
  <1>6. QED
    BY <1>1, <1>2, <1>3, <1>4, <1>5 DEF Next

\* However calls of the four tools and the owner's acts interleave, and wherever calls end,
\* workers.dev is enabled only once the Worker is behind Access and an activated version has
\* been deployed, and nothing of the three is ever undone.
THEOREM ImplementsPromise == Spec => ImplementsGuardedExposure
  <1>1. Init => ExposureInv /\ Promise!Init
    BY DEF Init, ExposureInv, Applying, Pinned, AfterPolicy, AfterProvenance, Promise!Init,
           Protected, Activated
  <1>2. TypeOK /\ TypeOK' /\ ExposureInv /\ [Next]_vars => [Promise!Next]_(Promise!vars)
    <2> SUFFICES ASSUME TypeOK, TypeOK', ExposureInv, [Next]_vars
                 PROVE  [Promise!Next]_(Promise!vars)
      OBVIOUS
    <2> USE DEF Promise!Next, Promise!Protect, Promise!Activate, Promise!Expose, Promise!vars
    <2>1. CASE subdomain' # subdomain
      <3>1. Protected' = Protected /\ Activated' = Activated
        BY <2>1, ActivationKept DEF Protected, Activated
      <3>2. QED
        BY <2>1, <3>1, ActivationKept
    <2>2. CASE subdomain' = subdomain /\ deployments' # deployments
      <3>1. Protected' = Protected
        BY <2>2, ActivationKept DEF Protected
      <3>2. (Activated' = Activated) \/ Activated'
        BY ActivationKept DEF Activated
      <3>3. QED
        BY <2>2, <3>1, <3>2
    <2>3. CASE subdomain' = subdomain /\ deployments' = deployments
      <3>1. Activated' = Activated
        BY <2>3 DEF Activated
      <3>2. (Protected' = Protected) \/ Protected'
        BY ProtectionKept DEF Protected
      <3>3. QED
        BY <2>3, <3>1, <3>2
    <2>4. QED
      BY <2>1, <2>2, <2>3
  <1>3. QED
    BY <1>1, <1>2, ExposureStep, TypeCorrect, PTL DEF Spec, ImplementsGuardedExposure, Promise!Spec
================================================================================
