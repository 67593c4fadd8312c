------------------------------- MODULE Access -------------------------------
(***************************************************************************)
(* What happens to a request before and after its handler: who it is from, *)
(* whether a role may do it, how often, and what the audit trail says      *)
(* (middleware/security_middleware.py, security/jwt_auth.py, rbac.py,      *)
(* rate_limiter.py, audit_logger.py, integrations/redis_client.py).        *)
(*                                                                         *)
(* The middleware awaits nothing but the handler: an instance checks one   *)
(* request after the other, instances interleave at Redis. A path is its   *)
(* text after /api/v1, cut wherever an entry of the table may end: one     *)
(* text begins with another where IsPrefix holds, also in the middle of a  *)
(* segment (/graphs is <<"graph", "s">>). Signatures and claims are what   *)
(* is wrong with a token, checked by the JWT library.                      *)
(***************************************************************************)
EXTENDS Integers, Sequences, SequencesExt, FiniteSets, TLC

CONSTANTS
  Gates,        \* application instances
  Paths,        \* paths that are requested
  Tokens,       \* bearer tokens: [sub, roles, role, flaws], see Verified
  RateLimit,    \* _RATE_LIMIT_REQUESTS
  RedisFails,   \* may Redis fail?
  MaxRequests   \* bound: requests that arrive

ASSUME AccessAssumption == RateLimit \in Nat \ {0} /\ RedisFails \in BOOLEAN /\ MaxRequests \in Nat

VARIABLES
  deployment,   \* ENVIRONMENT
  gate,         \* instance -> the request in its checks, or Open
  rateCount,    \* Redis: <<user, path>> -> stored count, 0 for no key
  granted,      \* history: <<user, path>> -> requests let through in this window
  outcome,      \* history: the request that ended last
  arrived

accessVars == <<deployment, gate, rateCount, granted, outcome, arrived>>

-----------------------------------------------------------------------------
(* _ENDPOINT_RBAC_MAP, in its order, and _PERMISSION_MATRIX.                *)

LearningReads == << << <<"learning", "/state">>, "logs:view">>,
  << <<"learning", "/history">>, "logs:view">>, << <<"learning", "/proposals">>, "logs:view">> >>
LearningRest == << << <<"learning">>, "admin:config">> >>

(* Mutant: the general path of the learning endpoints is listed first.      *)
LearningGeneralFirst == LearningRest \o LearningReads

LearningEntries == LearningReads \o LearningRest

EndpointRBAC == <<
  << <<"admin", "/config">>, "admin:config">>, << <<"debug", "/retrieval">>, "admin:config">> >>
  \o LearningEntries \o <<
  << <<"graph", "/stats">>, "documents:search">>, << <<"graph", "/nodes">>, "documents:search">>,
  << <<"graph", "/neighborhood">>, "documents:search">>, << <<"graph">>, "admin:config">>,
  << <<"actions", "/approve">>, "actions:approve">>, << <<"actions">>, "actions:execute">>,
  << <<"review", "/queue">>, "incidents:view">>, << <<"review", "/verdicts">>, "incidents:view">>,
  << <<"review">>, "actions:approve">>,
  << <<"incidents", "/resolve">>, "incidents:resolve">>, << <<"incidents">>, "incidents:view">>,
  << <<"documents", "/ingest">>, "documents:ingest">>, << <<"documents">>, "documents:search">>,
  << <<"ingest">>, "documents:ingest">>,
  << <<"knowledge", "/delete">>, "admin:config">>, << <<"knowledge", "/reindex">>, "admin:config">>,
  << <<"knowledge", "/curate">>, "admin:config">>, << <<"knowledge">>, "documents:search">>,
  << <<"data-center">>, "admin:config">>,
  << <<"kpis", "/trigger">>, "kpis:trigger">>, << <<"kpis">>, "kpis:read">>,
  << <<"trigger">>, "kpis:trigger">>,
  << <<"logs">>, "logs:view">>, << <<"observability">>, "logs:view">>,
  << <<"connectors", "/health">>, "documents:ingest">>,
  << <<"connectors", "/sync">>, "admin:config">>, << <<"connectors">>, "documents:ingest">>,
  << <<"mesh">>, "logs:view">>, << <<"system">>, "logs:view">>,
  << <<"audit">>, "logs:view">>, << <<"replay">>, "logs:view">> >>

PermissionMatrix ==
  LET readonly == {"kpis:read", "documents:search", "incidents:view", "logs:view"}
      analyst == readonly \cup {"kpis:trigger"}
      operator == analyst \cup {"documents:ingest", "incidents:resolve", "actions:execute"}
  IN [readonly |-> readonly, analyst |-> analyst, operator |-> operator,
      admin |-> operator \cup {"actions:approve", "admin:config"},
      auditor |-> {"incidents:view", "logs:view"}]

(* _PUBLIC_PATHS; /health is not below /api/v1.                             *)
PublicPaths ==
  {<<"health">>, <<"auth/dev-token">>, <<"auth/sso/config">>, <<"auth/sso/callback">>}

-----------------------------------------------------------------------------
(* Identity and permission *)

(* _is_bypassed: whatever begins with /internal, which is not below /api/v1.*)
Bypassed(path) == IsPrefix(<<"/internal">>, path) \/ path \in PublicPaths

(* verify: signature, expiry, issuer and audience, each of them required.   *)
Verified(token) == token.flaws = {}

(* _extract_roles: the list claim, or the single one if there is no list.   *)
ExtractRoles(token) ==
  IF token.roles # <<>> THEN token.roles[1] ELSE {token.role} \ {""}

(* _resolve_rbac: the grant of the first entry the text begins with.        *)
ResolveRBAC(path) ==
  LET matching == {i \in DOMAIN EndpointRBAC : IsPrefix(EndpointRBAC[i][1], path)}
      first == CHOOSE i \in matching : \A j \in matching : i <= j
  IN IF matching = {} THEN "" ELSE EndpointRBAC[first][2]

(* check_permission: any of the roles suffices; unknown roles grant nothing.*)
CheckPermission(roles, grant) ==
  \E r \in roles \cap DOMAIN PermissionMatrix : grant \in PermissionMatrix[r]

-----------------------------------------------------------------------------
(* The audit trail *)

(* log: the file first, then, as far as it goes, the database; a file that  *)
(* cannot be written ends it, and the middleware goes on.                   *)
AuditTrails(entry) ==
  {[file |-> {}, rows |-> {}], [file |-> {entry}, rows |-> {}], [file |-> {entry}, rows |-> {entry}]}

Open == [at |-> "open"]

(* A request is answered: its outcome, and what dispatch writes about it in *)
(* its finally block. A request refused for its token was never given its   *)
(* status: the record says 200.                                             *)
Ends(g, request, user, status) ==
  LET entry == [user |-> user, path |-> request.path,
                status |-> IF status = 401 THEN 200 ELSE status]
  IN /\ gate' = [gate EXCEPT ![g] = Open]
     /\ \E trail \in AuditTrails(entry) :
          outcome' = <<[request |-> request, user |-> user, status |-> status, trail |-> trail]>>

-----------------------------------------------------------------------------
(* dispatch *)

AccessInit ==
  /\ deployment \in {"development", "production"}
  /\ gate = [g \in Gates |-> Open]
  /\ rateCount = <<>> /\ granted = <<>> /\ outcome = <<>>
  /\ arrived = 0

Count(f, key) == IF key \in DOMAIN f THEN f[key] ELSE 0

Arrives(g) == gate[g] = Open /\ arrived < MaxRequests /\ arrived' = arrived + 1
              /\ UNCHANGED <<deployment, rateCount>>

(* In development, and on public paths, the handler runs at once and        *)
(* nothing is audited here.                                                 *)
PassesBy(g) ==
  /\ Arrives(g)
  /\ \E path \in Paths : deployment = "development" \/ Bypassed(path)
  /\ UNCHANGED <<gate, granted, outcome>>

(* No bearer token, or one that does not verify, also because the key set   *)
(* of the identity provider cannot be fetched.                              *)
RefusesToken(g) ==
  /\ Arrives(g) /\ deployment # "development"
  /\ \E path \in Paths, token \in Tokens :
       /\ ~Bypassed(path)
       /\ Ends(g, [path |-> path, token |-> token], "anonymous", 401)
  /\ UNCHANGED granted

(* A path without an entry is open to every principal.                      *)
Permitted(request) ==
  LET grant == ResolveRBAC(request.path)
  IN grant = "" \/ CheckPermission(ExtractRoles(request.token), grant)

(* Mutant: the principal is noted after the permission check.               *)
ChecksPermissionFirst(g) ==
  /\ Arrives(g) /\ deployment # "development"
  /\ \E path \in Paths, token \in Tokens :
       LET request == [path |-> path, token |-> token]
       IN /\ ~Bypassed(path) /\ Verified(token)
          /\ IF Permitted(request)
             THEN /\ gate' = [gate EXCEPT ![g] = [at |-> "count", request |-> request]]
                  /\ UNCHANGED outcome
             ELSE Ends(g, request, "anonymous", 403)
  /\ UNCHANGED granted

ChecksPermission(g) ==
  /\ Arrives(g) /\ deployment # "development"
  /\ \E path \in Paths, token \in Tokens :
       LET request == [path |-> path, token |-> token]
       IN /\ ~Bypassed(path) /\ Verified(token)
          /\ IF Permitted(request)
             THEN /\ gate' = [gate EXCEPT ![g] = [at |-> "count", request |-> request]]
                  /\ UNCHANGED outcome
             ELSE Ends(g, request, token.sub, 403)
  /\ UNCHANGED granted

RateKey(request) == <<request.token.sub, request.path>>

Forwards(g, request) ==
  /\ gate' = [gate EXCEPT ![g] = [at |-> "handle", request |-> request]]
  /\ granted' = (RateKey(request) :> Count(granted, RateKey(request)) + 1) @@ granted

(* allow, up to its GET: over the limit, to be stored, or Redis failed and  *)
(* the request may pass.                                                    *)
ReadsCount(g) ==
  LET request == gate[g].request
      next == Count(rateCount, RateKey(request)) + 1
  IN /\ gate[g].at = "count"
     /\ \/ /\ next > RateLimit
           /\ Ends(g, request, request.token.sub, 429) /\ UNCHANGED granted
        \/ /\ next <= RateLimit
           /\ gate' = [gate EXCEPT ![g] = [at |-> "store", request |-> request,
                                           value |-> [type |-> "int", is |-> next]]]
           /\ UNCHANGED <<granted, outcome>>
        \/ RedisFails /\ Forwards(g, request) /\ UNCHANGED outcome
     /\ UNCHANGED <<deployment, rateCount, arrived>>

(* RedisClient.setex takes strings only and raises on anything else.        *)
SetexTakes(value) == value.type = "str"

(* ... its SETEX: whatever it raises, the request may pass.                 *)
StoresCount(g) ==
  LET request == gate[g].request
      value == gate[g].value
  IN /\ gate[g].at = "store"
     /\ \/ /\ SetexTakes(value)
           /\ rateCount' = (RateKey(request) :> value.is) @@ rateCount
        \/ (RedisFails \/ ~SetexTakes(value)) /\ UNCHANGED rateCount
     /\ Forwards(g, request)
     /\ UNCHANGED <<deployment, outcome, arrived>>

(* The time of a window passes.                                             *)
WindowEnds ==
  /\ \E key \in DOMAIN granted :
       /\ granted' = [granted EXCEPT ![key] = 0]
       /\ rateCount' = [k \in DOMAIN rateCount \ {key} |-> rateCount[k]]
  /\ UNCHANGED <<deployment, gate, outcome, arrived>>

(* The handler answers, or raises, which becomes a 500.                     *)
Handles(g) ==
  /\ gate[g].at = "handle"
  /\ \E status \in {200, 404, 500} :
       Ends(g, gate[g].request, gate[g].request.token.sub, status)
  /\ UNCHANGED <<deployment, rateCount, granted, arrived>>

AccessNext ==
  \/ WindowEnds
  \/ \E g \in Gates : \/ PassesBy(g) \/ RefusesToken(g) \/ ChecksPermission(g)
                      \/ ReadsCount(g) \/ StoresCount(g) \/ Handles(g)

AccessSpec == AccessInit /\ [][AccessNext]_accessVars

-----------------------------------------------------------------------------
(* Properties *)

(* The most specific entry that matches a path decides it, whatever entry   *)
(* comes first: who reaches the handler is permitted by it, who is answered *)
(* 403 is not (security_middleware.py:564).                                 *)
MostSpecificRuleDecides ==
  LET PermittedBySpecific(request) ==
        LET entries == {e \in ToSet(EndpointRBAC) : IsPrefix(e[1], request.path)}
        IN \A e \in entries :
             \/ \E f \in entries : Len(f[1]) > Len(e[1])
             \/ CheckPermission(ExtractRoles(request.token), e[2])
  IN /\ \A g \in Gates : gate[g].at \in {"store", "handle"} => PermittedBySpecific(gate[g].request)
     /\ (outcome # <<>> /\ outcome[1].status = 403) => ~PermittedBySpecific(outcome[1].request)

(* Everyone whose token verified is audited by name with the status of the  *)
(* answer, and the database never holds a record the file lacks             *)
(* (security_middleware.py:476, audit_logger.py:127).                       *)
AuditNamesThePrincipal ==
  outcome # <<>> =>
    LET o == outcome[1]
    IN /\ o.trail.rows \subseteq o.trail.file
       /\ \A e \in o.trail.file : o.status # 401 => /\ e.user = o.request.token.sub
                                                    /\ e.status = o.status

(* Who may do what is decided by the most specific rule, and everyone whose *)
(* token verified is named in the audit (security_middleware.py:476, 564).  *)
AccessSound == MostSpecificRuleDecides /\ AuditNamesThePrincipal

(* security_middleware.py:194-197: everything under /connectors but the     *)
(* read paths listed first falls through to admin:config. The last entry    *)
(* asks for documents:ingest.                                               *)
ConnectorRestIsForAdmins ==
  \A g \in Gates :
    gate[g].at = "handle" =>
      LET request == gate[g].request
      IN /\ IsPrefix(<<"connectors">>, request.path)
         /\ ~IsPrefix(<<"connectors", "/health">>, request.path)
         => CheckPermission(ExtractRoles(request.token), "admin:config")

(* security_middleware.py:603: the record holds the final HTTP status code  *)
(* of the response.                                                         *)
AuditTellsTheStatus ==
  outcome # <<>> => \A e \in outcome[1].trail.file : e.status = outcome[1].status

(* tests/test_phase8_security.py:96 and rate_limiter.py:88: with Redis up   *)
(* and one instance, no more than the limit pass in a window.               *)
WindowIsLimited == \A key \in DOMAIN granted : granted[key] <= RateLimit

=============================================================================
