-------------------------- MODULE ActivationConnector --------------------------
(***************************************************************************)
(* The four writing tools of the Cloudflare Admin v7 connector, and what     *)
(* they read and write through the Cloudflare API: Access service tokens and *)
(* applications, Worker versions and deployments, the workers.dev subdomain, *)
(* and the connector's two managed secrets.  Every tool is a sequence of     *)
(* requests with nothing that holds the account still between them.          *)
(*                                                                         *)
(* What a call creates is named after the call: its token, its application,  *)
(* its secret and the version that carries it.  All calls fall on one day,   *)
(* so all keys have the same ID (`canary-<date>`).  A request that fails at   *)
(* its caller has taken effect by then or never does: none is carried out     *)
(* late, after its call has thrown.                                          *)
(***************************************************************************)
EXTENDS Naturals, Sequences, FiniteSets

CONSTANTS
  Calls,         \* invocations of the writing tools
  None,          \* no token, application, version or secret
  NoPolicy,      \* an application that has no policy yet
  Reviewed,      \* TARGET_WORKER_VERSION_ID
  Upload,        \* a version of other code, uploaded by the owner
  MaxOpen,       \* bound: calls under way at a time
  MaxOwnerActs   \* bound: what the owner does by hand

ASSUME NamesAssumption ==
  /\ None \notin Calls /\ NoPolicy \notin Calls \cup {None}
  /\ Reviewed \notin Calls \cup {None} /\ Upload \notin Calls \cup {None, Reviewed}
ASSUME BoundsAssumption == MaxOpen \in Nat /\ MaxOwnerActs \in Nat

VARIABLES
  tokens,       \* Access service tokens of the pinned name
  apps,         \* the Worker-level application each call created, by the token its policy admits
  code,         \* the code of the version each call derived
  latest,       \* what versions/latest names
  deployments,  \* the versions deployed at 100 percent, the active one last
  subdomain,    \* workers.dev is enabled for the Worker
  credential,   \* CANARY_ACCESS_CREDENTIAL_JSON: the token it is of
  principal,    \* CANARY_SERVICE_AUTH_PRINCIPAL_JSON: the call whose secret it is
  ownerActs,    \* what the owner has done so far
  pc,           \* where each call is
  seen          \* what each call has captured or read

account == <<tokens, apps, code, latest, deployments, subdomain>>
custody == <<credential, principal>>
vars == <<account, custody, ownerActs, pc, seen>>

--------------------------------------------------------------------------------

Creating == {"list", "post", "verify", "storeCredential", "relist"}
Ensuring == {"check", "search", "create", "restrict", "confirm", "confirmPolicy"}
Activating == {"unexposed", "history", "latest", "secrets", "storePrincipal", "derive",
               "continuity", "deploy", "stillUnexposed"}
Enabling == {"disabled", "allocation", "provenance", "isolation", "policy", "token",
             "custody", "reallocation", "relatest", "enable", "readBack", "canary"}
UnderWay == Creating \cup Ensuring \cup Activating \cup Enabling
Reported == {"tokenReady", "protected", "activated", "proven"}
Ended == Reported \cup {"stopped"}

Versions == Calls \cup {Reviewed, Upload}

Seen == [credential : Calls \cup {None}, principal : Calls \cup {None},
         token : Calls \cup {None}, app : Calls \cup {None},
         version : Versions \cup {None}, deployment : Nat]
Nothing == [credential |-> None, principal |-> None, token |-> None, app |-> None,
            version |-> None, deployment |-> 0]

TypeOK ==
  /\ tokens \subseteq Calls
  /\ apps \in [Calls -> Calls \cup {None, NoPolicy}]
  /\ code \in [Calls -> {"none", "reviewed", "other"}]
  /\ latest \in Versions
  /\ deployments \in Seq(Versions)
  /\ subdomain \in BOOLEAN
  /\ credential \in Calls \cup {None} /\ principal \in Calls \cup {None}
  /\ ownerActs \in Nat
  /\ pc \in [Calls -> {"idle"} \cup UnderWay \cup Ended]
  /\ seen \in [Calls -> Seen]

\* The Worker is bootstrapped, the reviewed version uploaded on top and not deployed.
Init ==
  /\ tokens = {}
  /\ apps = [c \in Calls |-> None]
  /\ code = [c \in Calls |-> "none"]
  /\ latest = Reviewed
  /\ deployments = <<>>
  /\ subdomain = FALSE
  /\ credential = None /\ principal = None
  /\ ownerActs = 0
  /\ pc = [c \in Calls |-> "idle"]
  /\ seen = [c \in Calls |-> Nothing]

Goto(c, step) == pc' = [pc EXCEPT ![c] = step]
Ends(c, how) == Goto(c, how) /\ seen' = [seen EXCEPT ![c] = Nothing]

\* An approved tool call begins.  Its custodian reads the secrets of the environment it
\* was invoked with, which a later write to the secrets does not change.
Begin(c) ==
  /\ pc[c] = "idle" /\ Cardinality({d \in Calls : pc[d] \in UnderWay}) < MaxOpen
  /\ \E first \in {"list", "check", "unexposed", "disabled"} : Goto(c, first)
  /\ seen' = [seen EXCEPT ![c].credential = credential, ![c].principal = principal]
  /\ UNCHANGED <<account, custody, ownerActs>>

\* Anything that throws ends the call where it is: a refusal, a failed request without
\* effect, an incomplete listing, the end of the isolate.  Nothing is undone or retried.
Stop(c) ==
  /\ pc[c] \in UnderWay
  /\ Ends(c, "stopped")
  /\ UNCHANGED <<account, custody, ownerActs>>

\* A read, and the check of what it returned, that let the call go on.  A listing is
\* collected from all its pages, and one that is not complete stops the call; it is one
\* step here, as it is while it fits one page of 1000.
Passes(c, step, next) ==
  /\ pc[c] = step /\ Goto(c, next)
  /\ UNCHANGED <<account, custody, ownerActs>>

\* A write takes effect; its answer lets the call go on, or is lost or ambiguous.
Written(c, step, next) ==
  /\ pc[c] = step
  /\ (Goto(c, next) /\ UNCHANGED seen) \/ Ends(c, "stopped")
  /\ UNCHANGED ownerActs

\* The last step of a tool: it reports success.
Reports(c, step, report) ==
  /\ pc[c] = step /\ Ends(c, report)
  /\ UNCHANGED <<account, custody, ownerActs>>

\* Mutant: the token has to be in the listing, not to be all of it.
ExactlyPinned_Listed(t) == t \in tokens

\* #exactPinnedServiceToken: one token has the pinned name, and it is this one.
ExactlyPinned(t) == tokens = {t}

--------------------------------------------------------------------------------
(* createServiceToken *)

ListTokens(c) == Passes(c, "list", "post") /\ tokens = {} /\ UNCHANGED seen

PostToken(c) ==
  /\ Written(c, "post", "verify")
  /\ tokens' = tokens \cup {c}
  /\ UNCHANGED <<apps, code, latest, deployments, subdomain, custody>>

VerifyToken(c) == Passes(c, "verify", "storeCredential") /\ ExactlyPinned(c) /\ UNCHANGED seen

StoreCredential(c) ==
  /\ Written(c, "storeCredential", "relist")
  /\ credential' = c
  /\ UNCHANGED <<account, principal>>

\* confirmCustody looks for the name of the secret; then the listing is read again.
RelistTokens(c) ==
  Reports(c, "relist", "tokenReady") /\ credential # None /\ ExactlyPinned(c)

--------------------------------------------------------------------------------
(* ensureAccessProtection *)

CheckToken(c) ==
  /\ Passes(c, "check", "search")
  /\ \E t \in Calls : ExactlyPinned(t) /\ seen' = [seen EXCEPT ![c].token = t]

\* The applications whose destination is the Worker.
Protecting == {a \in Calls : apps[a] # None}

SearchApps(c) ==
  /\ UNCHANGED seen
  /\ \/ Passes(c, "search", "create") /\ Protecting = {}
     \/ Passes(c, "search", "confirm") /\ \E a \in Calls : Protecting = {a}

CreateApp(c) ==
  /\ Written(c, "create", "restrict")
  /\ apps' = [apps EXCEPT ![c] = NoPolicy]
  /\ UNCHANGED <<tokens, code, latest, deployments, subdomain, custody>>

CreatePolicy(c) ==
  /\ Written(c, "restrict", "confirm")
  /\ apps' = [apps EXCEPT ![c] = seen[c].token]
  /\ UNCHANGED <<tokens, code, latest, deployments, subdomain, custody>>

ConfirmApp(c) ==
  /\ Passes(c, "confirm", "confirmPolicy")
  /\ \E a \in Calls : Protecting = {a} /\ seen' = [seen EXCEPT ![c].app = a]

ConfirmPolicy(c) ==
  Reports(c, "confirmPolicy", "protected") /\ apps[seen[c].app] = seen[c].token

--------------------------------------------------------------------------------
(* activateReviewedWorker *)

CodeOf(v) == IF v \in Calls THEN code[v] ELSE IF v = Reviewed THEN "reviewed" ELSE "other"
Active(v) == deployments # <<>> /\ deployments[Len(deployments)] = v

CheckUnexposed(c) == Passes(c, "unexposed", "history") /\ ~subdomain /\ UNCHANGED seen

CheckHistory(c) ==
  /\ Passes(c, "history", "latest") /\ UNCHANGED seen
  /\ \A i \in 1 .. Len(deployments) : deployments[i] # Reviewed

CheckLatest(c) == Passes(c, "latest", "secrets") /\ latest = Reviewed /\ UNCHANGED seen

\* The secrets listed are those of the version that is deployed.
CheckSecrets(c) ==
  Passes(c, "secrets", "storePrincipal") /\ ~(\E v \in Calls : Active(v)) /\ UNCHANGED seen

\* Mutant: the secret is filed under the version it is for.
StorePrincipal_ByVersion(c) ==
  /\ Written(c, "storePrincipal", "derive")
  /\ principal' = Reviewed
  /\ UNCHANGED <<account, credential>>

StorePrincipal(c) ==
  /\ Written(c, "storePrincipal", "derive")
  /\ principal' = c
  /\ UNCHANGED <<account, credential>>

\* Once the secret's name is listed: PATCH versions/latest adds, or replaces, the secret
\* in whatever is the latest version by now.
Derive(c) ==
  /\ Written(c, "derive", "continuity") /\ principal # None
  /\ code' = [code EXCEPT ![c] = CodeOf(latest)]
  /\ latest' = c
  /\ UNCHANGED <<tokens, apps, deployments, subdomain, custody>>

\* Mutant: the derived version is deployed without a look at what was derived.
CheckContinuity_IdOnly(c) ==
  Passes(c, "continuity", "deploy") /\ latest = c /\ UNCHANGED seen

\* The version is still the latest, and only the secret was changed.
CheckContinuity(c) ==
  /\ Passes(c, "continuity", "deploy") /\ UNCHANGED seen
  /\ latest = c /\ code[c] = "reviewed"

Deploy(c) ==
  /\ Written(c, "deploy", "stillUnexposed")
  /\ deployments' = Append(deployments, c)
  /\ UNCHANGED <<tokens, apps, code, latest, subdomain, custody>>

CheckStillUnexposed(c) == Reports(c, "stillUnexposed", "activated") /\ ~subdomain

--------------------------------------------------------------------------------
(* enableSubdomainAndRunCanary *)

CheckDisabled(c) == Passes(c, "disabled", "allocation") /\ ~subdomain /\ UNCHANGED seen

\* The version the caller named has all the traffic; its deployment is remembered.
CheckAllocation(c) ==
  /\ Passes(c, "allocation", "provenance")
  /\ \E v \in Versions \ {Reviewed} :
       /\ Active(v)
       /\ seen' = [seen EXCEPT ![c].version = v, ![c].deployment = Len(deployments)]

\* The annotation of an activation, the latest version, the reviewed code.
CheckProvenance(c) ==
  /\ Passes(c, "provenance", "isolation") /\ UNCHANGED seen
  /\ seen[c].version \in Calls /\ latest = seen[c].version
  /\ code[seen[c].version] = "reviewed"

CheckIsolation(c) ==
  /\ Passes(c, "isolation", "policy")
  /\ \E a \in Calls : Protecting = {a} /\ seen' = [seen EXCEPT ![c].app = a]

\* Mutant: an application is taken for protection before its policy is there.
CheckPolicy_Any(c) ==
  /\ Passes(c, "policy", "token")
  /\ \E t \in Calls : seen' = [seen EXCEPT ![c].token = t]

\* Its one policy admits the token the caller named.
CheckPolicy(c) ==
  /\ Passes(c, "policy", "token")
  /\ \E t \in Calls : apps[seen[c].app] = t /\ seen' = [seen EXCEPT ![c].token = t]

RecheckToken(c) ==
  Passes(c, "token", "custody") /\ ExactlyPinned(seen[c].token) /\ UNCHANGED seen

\* The credential must be of this token; the secret only of the same Worker and key ID.
ReadCustody(c) ==
  /\ Passes(c, "custody", "reallocation") /\ UNCHANGED seen
  /\ seen[c].credential = seen[c].token /\ seen[c].principal # None

RecheckAllocation(c) ==
  /\ Passes(c, "reallocation", "relatest") /\ UNCHANGED seen
  /\ Active(seen[c].version) /\ Len(deployments) = seen[c].deployment

RecheckLatest(c) ==
  Passes(c, "relatest", "enable") /\ latest = seen[c].version /\ UNCHANGED seen

Enable(c) ==
  /\ Written(c, "enable", "readBack")
  /\ subdomain' = TRUE
  /\ UNCHANGED <<tokens, apps, code, latest, deployments, custody>>

ReadBack(c) == Passes(c, "readBack", "canary") /\ subdomain /\ UNCHANGED seen

\* Access lets the token pass, and the active version knows the secret.
CanaryPasses(c) == seen[c].token \in tokens /\ Active(seen[c].principal)

RunCanary(c) == Reports(c, "canary", "proven") /\ CanaryPasses(c)

--------------------------------------------------------------------------------
(* The owner, outside the connector *)

\* A token is removed in the dashboard, once the call that created it has ended.
OwnerDeletesToken(t) ==
  /\ t \in tokens /\ pc[t] \in Ended
  /\ tokens' = tokens \ {t}
  /\ UNCHANGED <<apps, code, latest, deployments, subdomain>>

OwnerUploads ==
  /\ latest' = Upload
  /\ UNCHANGED <<tokens, apps, code, deployments, subdomain>>

OwnerDeploys ==
  /\ \E v \in {Reviewed, latest} \ Calls : deployments' = Append(deployments, v)
  /\ UNCHANGED <<tokens, apps, code, latest, subdomain>>

Owner ==
  /\ ownerActs < MaxOwnerActs /\ ownerActs' = ownerActs + 1
  /\ OwnerUploads \/ OwnerDeploys \/ \E t \in Calls : OwnerDeletesToken(t)
  /\ UNCHANGED <<custody, pc, seen>>

--------------------------------------------------------------------------------

CreateServiceToken(c) ==
  \/ ListTokens(c) \/ PostToken(c) \/ VerifyToken(c) \/ StoreCredential(c) \/ RelistTokens(c)
EnsureAccessProtection(c) ==
  \/ CheckToken(c) \/ SearchApps(c) \/ CreateApp(c) \/ CreatePolicy(c)
  \/ ConfirmApp(c) \/ ConfirmPolicy(c)
ActivateReviewedWorker(c) ==
  \/ CheckUnexposed(c) \/ CheckHistory(c) \/ CheckLatest(c) \/ CheckSecrets(c)
  \/ StorePrincipal(c) \/ Derive(c) \/ CheckContinuity(c) \/ Deploy(c)
  \/ CheckStillUnexposed(c)
EnableSubdomainAndRunCanary(c) ==
  \/ CheckDisabled(c) \/ CheckAllocation(c) \/ CheckProvenance(c) \/ CheckIsolation(c)
  \/ CheckPolicy(c) \/ RecheckToken(c) \/ ReadCustody(c) \/ RecheckAllocation(c)
  \/ RecheckLatest(c) \/ Enable(c) \/ ReadBack(c) \/ RunCanary(c)

Next ==
  \/ Owner
  \/ \E c \in Calls :
       \/ Begin(c) \/ Stop(c)
       \/ CreateServiceToken(c) \/ EnsureAccessProtection(c)
       \/ ActivateReviewedWorker(c) \/ EnableSubdomainAndRunCanary(c)

Spec == Init /\ [][Next]_vars

--------------------------------------------------------------------------------
(* Properties *)

\* A call that reports a token has the token's credential in custody, and keeps it there
\* until the owner removes the token: of two calls that both found no token, and both
\* created one, no two report success, and none overwrites the credential of the other.
ReportedTokenIsInCustody ==
  \A c \in Calls : pc[c] = "tokenReady" /\ c \in tokens => credential = c

\* The canary answers long after the checks of its call, with the secrets its custodian was
\* given before them.  If it passes, what it stands for is so at this moment: the Worker is
\* exposed, the credential in custody is of the token it used, which exists and which the
\* policy of the application found admits, and reviewed code with a secret is active.
CanaryIsConclusive ==
  \A c \in Calls : pc[c] = "canary" /\ CanaryPasses(c) =>
    /\ subdomain
    /\ credential = seen[c].token /\ credential \in tokens
    /\ apps[seen[c].app] = credential
    /\ \E v \in Calls : Active(v) /\ code[v] = "reviewed"

\* What a tool that hands over a token, or that has run the canary, reports is true.
ReportsAreTrue == ReportedTokenIsInCustody /\ CanaryIsConclusive

\* What the connector deploys is the reviewed code with a secret, although the version is
\* derived from whatever is the latest one long after the reviewed version was seen there.
DeployedIsReviewed ==
  \A i \in 1 .. Len(deployments) : deployments[i] \in Calls => code[deployments[i]] = "reviewed"

Protected == \E a \in Calls : apps[a] \in Calls
Activated == \E i \in 1 .. Len(deployments) : deployments[i] \in Calls

\* Whenever workers.dev is enabled, an Access application with a service-token policy
\* protects the Worker and an activated version has been deployed: no interleaving of the
\* tools, and of what each has seen, exposes the Worker earlier.
ExposedIsProtected == subdomain => Protected /\ Activated

Promise == INSTANCE GuardedExposure
             WITH protected <- Protected, activated <- Activated, exposed <- subdomain

\* The same as a promise of every step: the Worker is exposed only when it is protected and
\* activated, no step does two of the three at once, and none is ever taken back.
ImplementsGuardedExposure == Promise!Spec
================================================================================
