----------------------------- MODULE Connectors -----------------------------
(***************************************************************************)
(* One connector of the framework (connectors/base.py, registry.py,        *)
(* enterprise/documents.py, enterprise/metrics.py) and what is reported of *)
(* it (connectors/health.py). What a synchronization does with it is in    *)
(* ConnectorSync; here it only leaves its run behind.                      *)
(*                                                                         *)
(* A connector object is [client, authenticated, secret, error]: its client *)
(* ("none", "mock", "closed", or the credential in its headers, "short" or *)
(* "long"; closing clears them), whether it holds a verified credential, the*)
(* credential it remembers to take out of messages, and the message it     *)
(* keeps, <<>> or <<why, the credential that can be read in it>>.          *)
(***************************************************************************)
EXTENDS Integers, Sequences

CONSTANT ConnectorKinds    \* [capability, mock, enabled]: a kind and its settings

VARIABLES
  source,      \* one of ConnectorKinds
  row,         \* its row in the database: whether the configuration is complete
  credential,  \* what SecretManager finds: "none", a "short" or a "long" credential
  upstream,    \* "up", or "down": it then fails and repeats what it was sent
  member,      \* the object the monitor reads rows from; <<>> for none
  rows,        \* whether the monitor's last read found rows; <<>> before the first
  lent,        \* the object a report or a synchronization is using; <<>> for none
  syncing,     \* whether it is a synchronization that uses it
  elsewhere,   \* whether another instance synchronizes the connector
  runs,        \* the newest run: its status, instance and error; and the age of the last
               \* success, <<>> for none
  report       \* the report being sent; <<>> for none

connectorVars == <<source, row, credential, upstream, member, rows, lent, syncing, elsewhere,
                   runs, report>>

-----------------------------------------------------------------------------
(* The connector object *)

Credentials == {"short", "long"}

NewConnector ==
  [client |-> IF source.mock THEN "mock" ELSE "none", authenticated |-> FALSE,
   secret |-> "none", error |-> <<>>]

(* sanitize: a credential the object resolved is taken out of a message,    *)
(* unless it is shorter than six characters (_MIN_SCRUB_LENGTH).            *)
Sanitize(c, message) == [message EXCEPT !.shows = IF c.secret = "long" THEN "nothing" ELSE @]

Refused(c, why, shows) ==
  [c EXCEPT !.authenticated = FALSE, !.error = <<Sanitize(c, [why |-> why, shows |-> shows])>>]

(* A client fails a ping or a read when it was closed or upstream is down;  *)
(* the mocks never fail.                                                    *)
Works(client) == client = "mock" \/ (client \in Credentials /\ upstream = "up")

(* What upstream repeats when it fails.                                     *)
Echo(client) == IF client \in Credentials THEN client ELSE "nothing"

(* ping: the last thing asked before the object counts as authenticated.    *)
Pinged(c) ==
  IF Works(c.client) THEN [c EXCEPT !.authenticated = TRUE, !.error = <<>>]
  ELSE Refused(c, "upstream", Echo(c.client))

(* Mutant: the credential goes into the client and is not remembered.       *)
ConnectedForgetting(c) ==
  IF credential = "none" THEN Refused(c, "credential", "nothing")
  ELSE IF source.capability = "metrics" THEN Refused(c, "sdk", "nothing")
  ELSE Pinged([c EXCEPT !.client = credential])

(* No real client is part of the build for metrics.                         *)
Connected(c) ==
  LET own == [c EXCEPT !.secret = credential]
  IN IF credential = "none" THEN Refused(c, "credential", "nothing")
     ELSE IF source.capability = "metrics" THEN Refused(own, "sdk", "nothing")
     ELSE Pinged([own EXCEPT !.client = credential])

Authenticate(c) ==
  IF ~row THEN Refused(c, "configuration", "nothing")
  ELSE IF c.client = "none" THEN Connected(c)
  ELSE Pinged(c)

Close(c) ==
  [c EXCEPT !.client = IF c.client \in Credentials THEN "closed" ELSE c.client,
            !.secret = "none", !.authenticated = FALSE]

-----------------------------------------------------------------------------
(* Around it *)

RowIsEdited ==
  /\ row' = ~row
  /\ UNCHANGED <<source, credential, upstream, member, rows, lent, syncing, elsewhere, runs,
                 report>>

CredentialChanges ==
  /\ credential' \in {"none"} \cup Credentials
  /\ UNCHANGED <<source, row, upstream, member, rows, lent, syncing, elsewhere, runs, report>>

UpstreamChanges ==
  /\ upstream' = IF upstream = "up" THEN "down" ELSE "up"
  /\ UNCHANGED <<source, row, credential, member, rows, lent, syncing, elsewhere, runs, report>>

(* build_metric_sources, once, when the process starts: a connector that    *)
(* cannot authenticate joins all the same.                                  *)
BuildMetricSources ==
  /\ member = <<>> /\ rows = <<>>
  /\ source.capability = "metrics" /\ source.enabled
  /\ member' = <<Authenticate(NewConnector)>>
  /\ UNCHANGED <<source, row, credential, upstream, rows, lent, syncing, elsewhere, runs, report>>

(* fetch_rows, in the monitor's pass: never raises.                         *)
FetchRows ==
  /\ member # <<>>
  /\ rows' = <<member[1].authenticated /\ Works(member[1].client)>>
  /\ UNCHANGED <<source, row, credential, upstream, member, lent, syncing, elsewhere, runs, report>>

(* _summarise: of an age that cannot be read, whether it is stale is not    *)
(* known either, and counts as no.                                          *)
Category(entry) ==
  IF ~entry.enabled \/ ~entry.configured THEN "unknown"
  ELSE IF entry.status = "failed" \/ ~entry.authenticated THEN "unhealthy"
  ELSE IF entry.succeeded = <<>> THEN "unknown"
  ELSE IF entry.succeeded = <<"old">> THEN "unhealthy" ELSE "healthy"

(* Where the object has no error to tell, the newest run's is told.         *)
Entry(authenticated, error) ==
  LET entry == [enabled |-> source.enabled, configured |-> row, authenticated |-> authenticated,
                status |-> runs.status, succeeded |-> runs.succeeded,
                error |-> IF error # <<>> THEN error ELSE runs.error]
  IN <<[entry |-> entry, tried |-> error, category |-> Category(entry)]>>

(* A report of a connector that is disabled contacts nobody; otherwise it   *)
(* builds an object of its own, authenticates it and closes it.             *)
ReportsDisabled ==
  /\ lent = <<>> /\ report = <<>> /\ ~source.enabled
  /\ report' = Entry(FALSE, <<[why |-> "disabled", shows |-> "nothing"]>>)
  /\ UNCHANGED <<source, row, credential, upstream, member, rows, lent, syncing, elsewhere, runs>>

Reports ==
  /\ lent = <<>> /\ report = <<>> /\ source.enabled
  /\ LET tried == Authenticate(NewConnector)
     IN lent' = <<Close(tried)>> /\ report' = Entry(tried.authenticated, tried.error)
  /\ UNCHANGED <<source, row, credential, upstream, member, rows, syncing, elsewhere, runs>>

ReportIsSent ==
  /\ report # <<>>
  /\ lent' = <<>> /\ report' = <<>>
  /\ UNCHANGED <<source, row, credential, upstream, member, rows, syncing, elsewhere, runs>>

(* What a synchronization with an object may come to: it fails when the     *)
(* object is not authenticated, and succeeds for metrics otherwise. Of      *)
(* documents some or all may fail to be taken in; only when upstream went   *)
(* down does the listing fail, with a message of its own.                   *)
RunResult(status, error) == [status |-> status, error |-> error]
SomeFailed == <<[why |-> "counted", shows |-> "nothing"]>>
Results(c) ==
  IF ~c.authenticated THEN {RunResult("failed", c.error)}
  ELSE IF source.capability = "metrics" THEN {RunResult("succeeded", <<>>)}
  ELSE {RunResult("partial", SomeFailed), RunResult("failed", SomeFailed)}
       \cup (IF Works(c.client) THEN {RunResult("succeeded", <<>>)}
             ELSE {RunResult("failed", Refused(c, "upstream", Echo(c.client)).error)})

(* A synchronization begins. Reports and synchronizations are handlers of   *)
(* one event loop: one at a time, but for those of another instance.        *)
StartRun(instance) ==
  runs' = [runs EXCEPT !.status = "running", !.by = instance, !.error = <<>>]

SyncStarts ==
  /\ lent = <<>> /\ report = <<>> /\ source.enabled
  /\ lent' = <<Authenticate(NewConnector)>> /\ syncing' = TRUE
  /\ StartRun("here")
  /\ UNCHANGED <<source, row, credential, upstream, member, rows, elsewhere, report>>

SyncStartsElsewhere ==
  /\ ~elsewhere /\ source.enabled
  /\ elsewhere' = TRUE
  /\ StartRun("elsewhere")
  /\ UNCHANGED <<source, row, credential, upstream, member, rows, lent, syncing, report>>

(* finish writes the run's own row, which may not be the newest any more; a *)
(* partial success is one.                                                  *)
EndRun(instance, result) ==
  LET ended == IF runs.by = instance
               THEN [runs EXCEPT !.status = result.status, !.error = result.error] ELSE runs
  IN runs' = IF result.status = "failed" THEN ended ELSE [ended EXCEPT !.succeeded = <<"fresh">>]

SyncEnds ==
  /\ syncing
  /\ \E result \in Results(lent[1]) : EndRun("here", result)
  /\ lent' = <<>> /\ syncing' = FALSE
  /\ UNCHANGED <<source, row, credential, upstream, member, rows, elsewhere, report>>

(* The other instance's object is what one comes to by then; it may also    *)
(* die, which leaves its run running.                                       *)
SyncEndsElsewhere ==
  /\ elsewhere /\ elsewhere' = FALSE
  /\ \/ \E result \in Results(Authenticate(NewConnector)) : EndRun("elsewhere", result)
     \/ UNCHANGED runs
  /\ UNCHANGED <<source, row, credential, upstream, member, rows, lent, syncing, report>>

(* This instance dies and starts again.                                     *)
ProcessRestarts ==
  /\ member' = <<>> /\ rows' = <<>> /\ lent' = <<>> /\ syncing' = FALSE /\ report' = <<>>
  /\ UNCHANGED <<source, row, credential, upstream, elsewhere, runs>>

(* A day goes by without another success, or its time is edited.            *)
SuccessAges ==
  /\ runs.succeeded # <<>>
  /\ \E age \in {"old", "unreadable"} : runs' = [runs EXCEPT !.succeeded = <<age>>]
  /\ UNCHANGED <<source, row, credential, upstream, member, rows, lent, syncing, elsewhere, report>>

ConnectorInit ==
  /\ source \in ConnectorKinds
  /\ row \in BOOLEAN /\ credential \in {"none"} \cup Credentials /\ upstream \in {"up", "down"}
  /\ member = <<>> /\ rows = <<>> /\ lent = <<>> /\ report = <<>>
  /\ syncing = FALSE /\ elsewhere = FALSE
  /\ runs = [status |-> "never_synced", by |-> "here", error |-> <<>>, succeeded |-> <<>>]

ConnectorNext ==
  \/ RowIsEdited \/ CredentialChanges \/ UpstreamChanges
  \/ BuildMetricSources \/ FetchRows
  \/ ReportsDisabled \/ Reports \/ ReportIsSent
  \/ SyncStarts \/ SyncEnds \/ SyncStartsElsewhere \/ SyncEndsElsewhere
  \/ ProcessRestarts \/ SuccessAges

ConnectorSpec == ConnectorInit /\ [][ConnectorNext]_connectorVars

-----------------------------------------------------------------------------
(* Properties *)

Objects == {o \in {member, lent} : o # <<>>}

(* Every message that is kept, stored or told.                              *)
MessagesKept == {o[1].error : o \in Objects} \cup {runs.error}
            \cup (IF report = <<>> THEN {} ELSE {report[1].entry.error})

(* Whatever fails when, no message that is kept or shown carries a          *)
(* credential of six characters or more, and an object that was closed      *)
(* holds none (connectors/base.py:119, 144, 537).                           *)
NothingLeaks ==
  /\ \A m \in MessagesKept : m # <<>> => m[1].shows # "long"
  /\ report # <<>> /\ lent # <<>> => lent[1].secret = "none" /\ lent[1].client \notin Credentials

(* A connector is told healthy only when the report has just reached it     *)
(* itself, its newest run, if it ended, did not fail, and a success is on   *)
(* record that is not known to be old; one that is set up and that the      *)
(* report could not reach is told unhealthy, never merely unknown           *)
(* (connectors/health.py:304).                                              *)
HealthIsEarned ==
  report # <<>> =>
    LET e == report[1].entry
    IN /\ report[1].category = "healthy" =>
            /\ e.enabled /\ e.configured /\ e.authenticated /\ report[1].tried = <<>>
            /\ e.status \in {"running", "succeeded", "partial"}
            /\ e.succeeded \in {<<"fresh">>, <<"unreadable">>}
       /\ e.enabled /\ e.configured /\ report[1].tried # <<>> => report[1].category = "unhealthy"

(* The monitor gets rows only from an object that was authenticated.        *)
RowsAreAuthenticated ==
  rows = <<TRUE>> => member[1].authenticated /\ member[1].error = <<>>

ConnectorsSound == NothingLeaks /\ HealthIsEarned /\ RowsAreAuthenticated

(* A connector that yields the monitor nothing because it could not be      *)
(* authenticated is not told healthy (connectors/registry.py:230, "the      *)
(* failure is visible in connector health"). It may be, once a new object   *)
(* authenticates.                                                           *)
QuietFailureShows ==
  (rows = <<FALSE>> /\ ~member[1].authenticated /\ report # <<>>) =>
    report[1].category # "healthy"

(* connectors/base.py:131: what is returned is "the sanitised string", any  *)
(* "supplied secret value removed" (124). One of fewer than six characters  *)
(* is not.                                                                  *)
NoCredentialShown == \A m \in MessagesKept : m # <<>> => m[1].shows = "nothing"

(* connectors/health.py:318-320: "counting it as healthy is exactly the     *)
(* misrepresentation this phase forbids", of a connector whose state is not *)
(* known; 25: "we cannot tell whether this is stale" is not "this is        *)
(* fresh". One whose last success has a time that cannot be read is told    *)
(* healthy.                                                                 *)
UnreadableIsNotHealthy ==
  report # <<>> /\ report[1].entry.succeeded = <<"unreadable">> => report[1].category # "healthy"

=============================================================================
