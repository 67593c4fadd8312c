------------------------------ MODULE Delivery ------------------------------
(***************************************************************************)
(* What an action does to the world: the handlers the action agent calls   *)
(* (agents/action/*_actions.py), each a row of stages, inside the agent's  *)
(* attempts. ActionAgent models the agent around them; here one delivery   *)
(* runs from its first attempt to its result.                              *)
(*                                                                         *)
(* A text is its length and whether it is blank; the other parameters are  *)
(* those of them that are missing or blank.                                *)
(***************************************************************************)
EXTENDS Integers, Sequences

CONSTANT Jobs    \* the actions to deliver: type, blanks, title, message, hook

MaxAttempts == 3
HeaderTextMax == 150
SectionTextMax == 3000

VARIABLES
  credentials,  \* does the secret manager know the credentials?
  delivery,     \* the delivery under way, or NoDelivery
  accepted,     \* history: requests of it that the provider carried out
  unreported    \* history: those of them whose answer never reached the handler

deliveryVars == <<credentials, delivery, accepted, unreported>>

NoDelivery == [at |-> "none"]

(* The handlers: the stages each goes through, in its order, and the        *)
(* parameters it does not do without.                                       *)
SendAlert == [stages |-> <<"parameters", "payload", "post">>, required |-> {"message"}]
SendEmail == [stages |-> <<"credentials", "token", "parameters", "post">>,
              required |-> {"to", "subject", "body"}]
AppendRow == [stages |-> <<"token", "parameters", "post">>,
              required |-> {"spreadsheet_id", "sheet_name", "values"}]
Trigger == [stages |-> <<"parameters", "registry", "post">>, required |-> {"webhook_name"}]
CreateTicket == [stages |-> <<"parameters", "post">>, required |-> {"summary"}]
Snapshot == [stages |-> <<"parameters">>, required |-> {"params"}]
FlagForMonitoring == [stages |-> <<"parameters">>, required |-> {"params"}]

Registry == [slack |-> SendAlert, email |-> SendEmail, sheets |-> AppendRow,
             webhook |-> Trigger, jira |-> CreateTicket,
             diagnostics |-> Snapshot, monitoring |-> FlagForMonitoring]

(* A text without blanks around it is blank only where the parameter is.    *)
ASSUME DeliveryAssumption ==
  \A job \in Jobs :
    /\ job.type \in DOMAIN Registry
    /\ job.title.length \in Nat /\ job.message.length \in Nat
    /\ "message" \notin job.blanks => ~job.message.blank

Handler == Registry[delivery.job.type]
StageNow == Handler.stages[delivery.stage]

-----------------------------------------------------------------------------
(* Slack's payload *)

(* Mutant: the ellipsis is added to a text cut at the limit itself.         *)
TruncatedAtLimit(text, max) ==
  IF text.length <= max THEN text ELSE [length |-> max + 1, blank |-> FALSE]

(* A long text is cut so that it fits with its ellipsis, which is not blank.*)
Truncated(text, max) ==
  IF text.length <= max THEN text ELSE [length |-> max, blank |-> FALSE]

BuildPayload(job) ==
  [header |-> Truncated(job.title, HeaderTextMax),
   section |-> Truncated(job.message, SectionTextMax),
   elements |-> IF "incident_id" \in job.blanks THEN 1 ELSE 2]

(* _validate_payload, on what the header, the section and the context hold. *)
ValidPayload(payload) ==
  /\ ~payload.header.blank /\ payload.header.length <= HeaderTextMax
  /\ ~payload.section.blank /\ payload.section.length <= SectionTextMax
  /\ payload.elements > 0

-----------------------------------------------------------------------------
(* The handlers *)

MissesParameter == delivery.job.blanks \cap Handler.required # {}

DeliveryInit ==
  /\ credentials \in BOOLEAN
  /\ delivery = NoDelivery
  /\ accepted = 0 /\ unreported = 0

Deliver ==
  /\ delivery = NoDelivery
  /\ \E job \in Jobs : delivery' = [at |-> "handler", job |-> job, attempt |-> 1, stage |-> 1]
  /\ UNCHANGED <<credentials, accepted, unreported>>

InStage(stage) == delivery.at = "handler" /\ StageNow = stage

Ended(result, permanent) ==
  [at |-> "ended", job |-> delivery.job, attempt |-> delivery.attempt,
   result |-> result, permanent |-> permanent]

(* The stage succeeds; after the last one the attempt has.                  *)
Passes ==
  delivery' = IF delivery.stage < Len(Handler.stages)
              THEN [delivery EXCEPT !.stage = @ + 1]
              ELSE Ended("SUCCESS", FALSE)

(* The handler raises: an error of its own kind ends the delivery, any      *)
(* other, a parameter's included, is tried again.                           *)
Raises == delivery' = IF delivery.attempt < MaxAttempts
                      THEN [delivery EXCEPT !.attempt = @ + 1, !.stage = 1]
                      ELSE Ended("FAILED", FALSE)
RaisesForGood == delivery' = Ended("FAILED", TRUE)

ChecksParameters ==
  /\ InStage("parameters")
  /\ IF MissesParameter THEN Raises ELSE Passes
  /\ UNCHANGED <<credentials, accepted, unreported>>

ChecksPayload ==
  /\ InStage("payload")
  /\ IF ValidPayload(BuildPayload(delivery.job)) THEN Passes ELSE RaisesForGood
  /\ UNCHANGED <<credentials, accepted, unreported>>

(* send_email looks for its three credentials before anything else.         *)
ChecksCredentials ==
  /\ InStage("credentials")
  /\ IF credentials THEN Passes ELSE RaisesForGood
  /\ UNCHANGED <<credentials, accepted, unreported>>

(* _get_access_token: Google answers with a token, or not; append_row signs *)
(* with whatever credentials there are.                                     *)
FetchesToken ==
  /\ InStage("token")
  /\ \/ Raises
     \/ (delivery.job.type = "sheets" => credentials) /\ Passes
  /\ UNCHANGED <<credentials, accepted, unreported>>

(* trigger: the name is registered, its method and its kind of              *)
(* authentication are supported.                                            *)
LooksUpWebhook ==
  /\ InStage("registry")
  /\ IF delivery.job.hook = "usable" THEN Passes ELSE Raises
  /\ UNCHANGED <<credentials, accepted, unreported>>

(* The provider does what it is asked and says so.                          *)
ProviderConfirms ==
  /\ InStage("post")
  /\ accepted' = accepted + 1
  /\ Passes
  /\ UNCHANGED <<credentials, unreported>>

(* The provider does it, but its answer is late, lost or not what the       *)
(* handler reads; a webhook's answer is never read.                         *)
AnswerIsLost ==
  /\ InStage("post")
  /\ accepted' = accepted + 1 /\ unreported' = unreported + 1
  /\ Raises
  /\ UNCHANGED credentials

(* Mutant: only the status of Slack's answer is looked at.                  *)
ProviderRefusesBlindly ==
  /\ InStage("post")
  /\ \/ delivery.job.type # "slack" /\ Raises
     \/ delivery.job.type = "slack" /\ Passes
  /\ UNCHANGED <<credentials, accepted, unreported>>

(* The provider cannot be reached, or refuses with an error status. Slack   *)
(* refuses with status 200 and ok = false: some of its codes are final.     *)
ProviderRefuses ==
  /\ InStage("post")
  /\ \/ Raises
     \/ delivery.job.type = "slack" /\ RaisesForGood
  /\ UNCHANGED <<credentials, accepted, unreported>>

(* A webhook answers with a status that is no error and no 200, a 304 say:  *)
(* raise_for_status lets it pass.                                           *)
WebhookAnswersOddly ==
  /\ InStage("post") /\ delivery.job.type = "webhook"
  /\ Passes
  /\ UNCHANGED <<credentials, accepted, unreported>>

(* A secret appears in the environment or the settings, or leaves them.     *)
CredentialsChange ==
  /\ delivery.at = "handler"
  /\ credentials' = ~credentials
  /\ UNCHANGED <<delivery, accepted, unreported>>

DeliveryNext ==
  \/ Deliver \/ ChecksParameters \/ ChecksPayload \/ ChecksCredentials \/ FetchesToken
  \/ LooksUpWebhook \/ ProviderConfirms \/ AnswerIsLost \/ ProviderRefuses
  \/ WebhookAnswersOddly \/ CredentialsChange

DeliverySpec == DeliveryInit /\ [][DeliveryNext]_deliveryVars

-----------------------------------------------------------------------------
(* Properties *)

Over == delivery.at = "ended"

(* An action reported as a success was carried out once, one reported as a  *)
(* failure never, except by the attempts whose answer was lost              *)
(* (action_agent.py:374, slack_actions.py:276). Webhooks may report what    *)
(* nobody did (webhook_actions.py:252).                                     *)
ReportedAsDone ==
  Over => LET reported == accepted - unreported
              calls == delivery.job.type \notin {"diagnostics", "monitoring"}
          IN \/ reported = IF delivery.result = "SUCCESS" /\ calls THEN 1 ELSE 0
             \/ delivery.job.type = "webhook" /\ delivery.result = "SUCCESS"

(* Only what cannot succeed is given up without being tried again: a text   *)
(* of any length is sent, and what Slack's rules do not allow, a short      *)
(* title that is blank, reaches nobody (slack_actions.py:236, 367; the rest *)
(* are codes Slack itself answers and a mail's missing credentials).        *)
GivenUpForGood ==
  (Over /\ delivery.permanent) =>
    \/ /\ delivery.job.type = "slack"
       /\ ValidPayload(BuildPayload(delivery.job)) \/ (delivery.job.title.blank /\ accepted = 0)
    \/ delivery.job.type = "email" /\ accepted = unreported

DeliverySound == ReportedAsDone /\ GivenUpForGood

=============================================================================
