----------------------------- MODULE AckErrors -----------------------------
(***************************************************************************)
(* Error classes that flow from the AWS SDK through a resource manager to  *)
(* the reconciler, and the ACK condition each of them becomes.  An error   *)
(* is abstracted to what the code tells apart: whether it unwraps to a     *)
(* smithy.APIError, which code it carries, and, for InvalidChangeBatch,    *)
(* which of the messages of demoteTransientChangeBatchError it contains.   *)
(***************************************************************************)

(* No error; an error that is no API error (network, timeout, errors.New); *)
(* the ackerr sentinels; and API errors, named by code (or by code and     *)
(* message where the code looks at the message).  OtherAPIError stands for *)
(* every code the repository does not name.                                *)
Sentinels == {"none", "plain", "notFound", "terminalError"}

BatchErrors == {"alreadyExists", "aliasTarget", "invalidBatch"}

APIErrors == BatchErrors \cup
  {"OtherAPIError", "InvalidInput", "NoSuchHostedZone", "NoSuchHealthCheck",
   "InvalidVPCId", "InvalidDomainName", "DelegationSetNotReusable",
   "HealthCheckInUse", "HealthCheckVersionMismatch",
   "ConflictingDomainExists", "VPCAssociationNotFound", "LastVPCAssociation"}

Errors == Sentinels \cup APIErrors

Mut_IsAPIError(err) == err # "none"
IsAPIError(err) == err \in APIErrors

(* smithy.APIError.ErrorCode() *)
ErrorCode(err) == IF err \in BatchErrors THEN "InvalidChangeBatch" ELSE err

Conditions == {"none", "Synced", "NotSynced", "Recoverable", "Terminal"}

(* updateConditions followed by the scan of onError / onSuccess: the       *)
(* condition a resource manager call leaves on the resource it returns,    *)
(* where terminalCodes are the codes terminalAWSError names.  Conditions   *)
(* were reset at the start of the reconciliation, so "none" means that     *)
(* updateConditions reports nothing updated.                               *)
ConditionOf(err, terminalCodes) ==
  IF err = "terminalError" \/ (IsAPIError(err) /\ ErrorCode(err) \in terminalCodes)
    THEN "Terminal"
    ELSE IF err = "none" THEN "none" ELSE "Recoverable"
=============================================================================
