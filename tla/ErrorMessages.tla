----------------------------- MODULE ErrorMessages -----------------------------
(***************************************************************************)
(* src/lib/errorMessages.ts: the codes the browser has a sentence for.  A  *)
(* sentence stands for its code; every other code gets Fallback.           *)
(***************************************************************************)

Fallback == "OPERATION_FAILED"

\* Codes the browser itself gives to a request (ApiClient).
ClientCodes == {"NETWORK_ERROR", "INVALID_RESPONSE", "HTTP_ERROR"}

ProviderCodes ==
  {"PROVIDER_TEMPORARY_ERROR", "PROVIDER_AUTHENTICATION_FAILED",
   "PROVIDER_MODEL_INVALID", "PROVIDER_INSUFFICIENT_BALANCE",
   "PROVIDER_FORBIDDEN", "PROVIDER_REQUEST_REJECTED",
   "PROVIDER_OUTPUT_TRUNCATED", "PROVIDER_OUTPUT_UNFINISHED",
   "PROVIDER_OUTPUT_INTERRUPTED", "PROVIDER_OUTPUT_INCOMPLETE",
   "PROVIDER_CONTENT_FILTERED", "PROVIDER_ERROR", "PROVIDER_UNAVAILABLE"}

ERROR_MESSAGES ==
  ClientCodes \cup ProviderCodes \cup
  {"REQUEST_VALIDATION_FAILED", "INVALID_PROVIDER_SELECTION", "RUN_NOT_FOUND",
   "RUN_CAPACITY_REACHED", "STORE_CAPACITY_REACHED", "EVENTS_EXPIRED",
   "RUN_TIMEOUT", "STRUCTURED_OUTPUT_INVALID", "WORKFLOW_FAILED",
   "APP_SHUTTING_DOWN", "RUN_TERMINAL", "RUN_NOT_PAUSABLE", "RUN_NOT_PAUSED",
   "INTERNAL_ERROR"}

localizedErrorMessage(code) == IF code \in ERROR_MESSAGES THEN code ELSE Fallback

================================================================================
