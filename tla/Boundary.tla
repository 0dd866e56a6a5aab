------------------------------ MODULE Boundary ------------------------------
(***************************************************************************)
(* What becomes of a call between two services (boundary.py, the clients   *)
(* contract/client.py and triage/client.py, and the translation in         *)
(* triage/pipeline.py): how a reply is read, which exception it is, and    *)
(* what the boundary in between answers its own caller.                    *)
(***************************************************************************)
EXTENDS Integers

\* What the systems refuse for, as their contract names it, and our own codes.
ErrorCodes ==
  {"invalid_payload", "claim_not_found", "policy_not_found", "idempotency_key_reuse",
   "service_unavailable"}
BoundaryCodes ==
  ErrorCodes \union {"not_found", "unsupported_media_type", "payload_too_large",
                       "document_refused", "rate_limited"}

\* A reply's body is an operation's own document, an error by its code, or neither:
\* the text of an uncaught exception.
Reply(status, body) == [status |-> status, body |-> body]
NoReply == Reply(0, "nothing")
InternalServerError == Reply(500, "text")

\* How a call ends for the one who made it: with a document, or an exception, a
\* refusal with the status and the code it was answered with.
Ending(is) == [is |-> is, status |-> 0, code |-> "none"]
Refusal(is, status, code) == [is |-> is, status |-> status, code |-> code]
Ok == Ending("ok")

\* CoreSimClient._request: the status is read before the body.
AskedOfSystems(reply, expected) ==
  IF reply = NoReply THEN Ending("CoreSimUnreachable")
  ELSE IF reply.status = expected /\ reply.body = "document" THEN Ok
  ELSE IF reply.status # expected /\ reply.body \in ErrorCodes
       THEN Refusal("Refusal", reply.status, reply.body)
  ELSE Ending("UnexpectedResponse")

\* TriagePipeline.run: what a run raises to the boundary it is called at.
Raised(ending) ==
  IF ending.is \in {"CoreSimUnreachable", "TriageStoreUnavailable"} THEN Ending("Unavailable")
  ELSE IF ending.is = "Refusal" THEN Refusal("Refused", ending.status, ending.code)
  ELSE ending

\* boundary.install: what a boundary answers; an exception no handler takes is the
\* server's own 500.
Answered(ending, expected) ==
  IF ending = Ok THEN Reply(expected, "document")
  ELSE IF ending.is = "Unavailable" THEN Reply(503, "service_unavailable")
  ELSE IF ending.is = "Refused" THEN Reply(ending.status, ending.code)
  ELSE InternalServerError

\* RunClient._request: the body is decoded before the status is looked at, and a
\* boundary that cannot serve is told like one that cannot be reached.
\* Mutant: every 5xx is.
AskedOfBoundaryByStatus(reply, expected) ==
  IF reply = NoReply \/ reply.status >= 500 THEN Ending("Unavailable")
  ELSE IF reply.status = expected THEN Ok
  ELSE Refusal("Refused", reply.status, reply.body)

AskedOfBoundary(reply, expected) ==
  IF reply = NoReply THEN Ending("Unavailable")
  ELSE IF reply.status = expected /\ reply.body = "document" THEN Ok
  ELSE IF reply.status = expected \/ reply.body \notin BoundaryCodes THEN Ending("UnexpectedAnswer")
  ELSE IF reply.body = "service_unavailable" THEN Ending("Unavailable")
  ELSE Refusal("Refused", reply.status, reply.body)
=============================================================================
