--------------------------- MODULE SpendingCeiling ---------------------------
(***************************************************************************)
(* What a budget promises of one run: "a ceiling can be overshot by at     *)
(* most one response" (llm/budget.py).  Nothing is said of prompts, caches *)
(* or retries: a call is started only below the ceilings, and then costs   *)
(* what its reply costs.                                                   *)
(***************************************************************************)
EXTENDS Integers

CONSTANTS
  MaxTokens,  \* the ceiling on tokens; 0 is no ceiling
  MaxCalls,   \* the ceiling on calls; 0 is no ceiling
  MinPrompt,  \* no prompt is estimated at less
  MaxReply    \* no call costs more

VARIABLES tokens, calls

Init == tokens = 0 /\ calls = 0

Spend ==
  /\ MaxCalls = 0 \/ calls < MaxCalls
  /\ MaxTokens = 0 \/ tokens + MinPrompt <= MaxTokens
  /\ \E cost \in 1..MaxReply : tokens' = tokens + cost
  /\ calls' = calls + 1

Spec == Init /\ [][Spend]_<<tokens, calls>>

-----------------------------------------------------------------------------
(* The overshoot is less than one response, and calls are never overshot. *)
OneResponseOver ==
  /\ MaxTokens > 0 => tokens < MaxTokens + MaxReply
  /\ MaxCalls > 0 => calls <= MaxCalls
=============================================================================
