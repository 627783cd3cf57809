---------------------------- MODULE ProviderErrors ----------------------------
(***************************************************************************)
(* How a failed OpenStack call becomes what a reconciler does about it:    *)
(* the category of the error (apierrors/classify.go) and the policy of the *)
(* category (provider_outcomes.go).  Reasons and messages are left out.    *)
(***************************************************************************)
EXTENDS Integers

Unclassified == "unclassified"
Categories == {"Authentication", "Authorization", "Quota", "RateLimit", "Timeout",
               "RetryableService", "TerminalValidation", "ResourceFailure",
               "OwnershipConflict"}

(* An error: a response with its status and whether its body is Neutron's     *)
(* OverQuota fault; a failure without a response; one of the provider's own,  *)
(* which has its category; either of the first two after a reauthentication   *)
(* ("after"), or the failure of the reauthentication itself ("reauth").       *)
Response == [kind : {"response"}, quota : BOOLEAN,
             status : {400, 401, 403, 404, 405, 406, 408, 409, 412, 413, 415, 422, 429, 498,
                       500, 501, 502, 503, 504, 505}]
Failure == [kind : {"canceled", "deadline", "input", "eof", "certificate", "network timeout",
                    "host not found", "dns", "connection", "url", "other"}]
Plain == Response \cup Failure
Errors == Plain \cup [kind : {"after", "reauth"}, cause : Plain]
                \cup [kind : {"provider"}, category : {"ResourceFailure", "OwnershipConflict"}]

categoryForResponse(status, quota) ==
    CASE status \in {403, 409} /\ quota -> "Quota"
      [] status = 401 -> "Authentication"
      [] status = 403 /\ ~quota -> "Authorization"
      [] status \in {408, 504} -> "Timeout"
      [] status = 413 -> "Quota"
      [] status \in {429, 498} -> "RateLimit"
      [] status \in {400, 405, 406, 415, 422, 501, 505} -> "TerminalValidation"
      [] status \in {500, 502, 503} -> "RetryableService"
      [] OTHER -> Unclassified    \* 404, 409 and 412: the caller knows what they mean

transportErrorCategory(kind) ==
    CASE kind \in {"eof", "dns", "connection"} -> "RetryableService"
      [] kind \in {"certificate", "host not found", "url"} -> "TerminalValidation"
      [] kind = "network timeout" -> "Timeout"
      [] OTHER -> Unclassified

ClassifyPlain(e) ==
    CASE e.kind = "response" -> categoryForResponse(e.status, e.quota)
      [] e.kind = "deadline" -> "Timeout"
      [] e.kind = "input" -> "TerminalValidation"
      [] OTHER -> transportErrorCategory(e.kind)

(* The wrappers do not unwrap: Classify looks into them itself. *)
Classify(e) ==
    CASE e.kind = "provider" -> e.category
      [] e.kind = "after" -> ClassifyPlain(e.cause)
      [] e.kind = "reauth" ->
           IF ClassifyPlain(e.cause) \in {"Timeout", "RateLimit", "RetryableService"}
           THEN ClassifyPlain(e.cause) ELSE "Authentication"
      [] OTHER -> ClassifyPlain(e)

(* Octavia answers a change of a load balancer that is PENDING with 409.  The *)
(* method that sent the change classifies what is returned here once more.    *)
ClassifyOctaviaMutation(e) ==
    LET inner == IF e.kind = "after" THEN e.cause ELSE e
    IN  IF inner.kind = "response" /\ inner.status = 409 THEN "RetryableService" ELSE Classify(e)

-----------------------------------------------------------------------------
(* status and advance: the condition reported and whether it is one of the    *)
(* current generation.  requeue: a retry, by backoff or after an interval.    *)
(* An error without a category is returned, and nothing is reported.          *)
ProviderFailurePolicyFor(category) ==
    LET evaluated == category \in {"Quota", "TerminalValidation", "ResourceFailure",
                                   "OwnershipConflict"}
    IN  [reported |-> category # Unclassified,
         status |-> IF evaluated THEN "False" ELSE "Unknown", advance |-> evaluated,
         requeue |-> category # "TerminalValidation"]

(* The policies of the errors that a read and a change of OpenStack may meet. *)
Failures == {ProviderFailurePolicyFor(c) :
               c \in {Classify(e) : e \in Errors} \cup {ClassifyOctaviaMutation(e) : e \in Errors}}

ASSUME EveryCategoryOccurs == {Classify(e) : e \in Errors} = Categories \cup {Unclassified}
=============================================================================
