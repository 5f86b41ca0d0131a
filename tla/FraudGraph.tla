----------------------------- MODULE FraudGraph -----------------------------
(***************************************************************************)
(* One run of the fraud scoring graph (app/fraud: graph, validator,        *)
(* guards) for one request: its nodes, what each of them does when an      *)
(* audit write, the enrichment or the model fails, and the validation of   *)
(* the model's reply.  An action is a node function with the helper it     *)
(* calls.  Scores are hundredths.                                          *)
(***************************************************************************)
EXTENDS Integers

CONSTANTS
    Scores,     \* risk scores a model may reply with, also out of range
    FlagAt,     \* FRAUD_SCORE_THRESHOLD
    BlockAt     \* FRAUD_BLOCK_THRESHOLD

\* FraudConfig refuses other thresholds.
ASSUME ThresholdAssumption ==
    /\ Scores \subseteq Int
    /\ FlagAt \in 0..99
    /\ BlockAt \in 1..100
    /\ FlagAt < BlockAt

VARIABLES
    node,      \* the node to run next; "done" or "raised" at the end
    attempt,   \* 1, or 2 after the corrective prompt
    prompt,    \* the prompt in hand: "none", "initial" or "corrective"
    cleared,   \* whether input_guard has accepted this prompt
    calls,     \* calls to the model so far
    reply,     \* the raw response
    outcome,   \* state.outcome
    stored     \* the outcome in fraud_sessions

graphVars == <<node, attempt, prompt, cleared, calls, reply, outcome, stored>>

Actions == {"allow", "flag", "block"}

Reasons == {"enrichment_failed", "prompt_rejected", "model_failed",
            "validation_failed"}

\* What a reply looks like to validate_verdict.
Forms == {"ok", "too_large", "not_json", "incomplete", "bad_score",
          "bad_reason", "sensitive"}

Replies == [form : Forms, action : Actions \cup {"other"}, score : Scores]

\* No reply yet, and no outcome yet.
NoReply == [form |-> "none", action |-> "other", score |-> 0]

Nodes == {"create_session", "build_sanitized_context", "enrich_transaction",
          "build_prompt", "input_guard", "call_llm", "validate_verdict",
          "retry_prompt", "complete_session", "done", "raised"}

-----------------------------------------------------------------------------
(* validate_verdict.                                                       *)

\* _score: a score a hair out of range is accepted and clamped.
InRange(score) == score >= -1 /\ score <= 101

Clamped(score) ==
    IF score < 0 THEN 0 ELSE IF score > 100 THEN 100 ELSE score

\* The action that counts, whatever the model says.
Canonical(score) ==
    CASE score >= BlockAt                     -> "block"
      [] score >= FlagAt /\ score < BlockAt   -> "flag"
      [] score < FlagAt                       -> "allow"

Accepted(r) ==
    /\ r.form = "ok"
    /\ r.action \in Actions
    /\ InRange(r.score)

Verdict(r) == Canonical(Clamped(r.score))

-----------------------------------------------------------------------------

\* stored is what another run of the graph left: nothing, or an outcome.
GraphInit ==
    /\ node = "create_session"
    /\ attempt = 1
    /\ prompt = "none"
    /\ cleared = FALSE
    /\ calls = 0
    /\ reply = NoReply
    /\ outcome = "none"
    /\ stored \in Actions \cup Reasons \cup {"none"}

GotoNode(n) == node' = n

\* An exception leaves the graph; score turns it into audit_failed.  It can come
\* from the audit write of any node, or from complete_session, which the
\* database may have done all the same.
Raise ==
    /\ node \notin {"done", "raised", "enrich_transaction"}
    /\ GotoNode("raised")
    /\ calls' = IF node = "call_llm" THEN calls + 1 ELSE calls
    /\ stored' \in (IF node = "complete_session" THEN {stored, outcome} ELSE {stored})
    /\ UNCHANGED <<attempt, prompt, cleared, reply, outcome>>

CreateSessionNode ==
    /\ node = "create_session"
    /\ IF stored # "none"
       THEN GotoNode("done") /\ outcome' = stored
       ELSE GotoNode("build_sanitized_context") /\ UNCHANGED outcome
    /\ UNCHANGED <<attempt, prompt, cleared, calls, reply, stored>>

BuildSanitizedContext ==
    /\ node = "build_sanitized_context"
    /\ GotoNode("enrich_transaction")
    /\ UNCHANGED <<attempt, prompt, cleared, calls, reply, outcome, stored>>

\* Any error here, that of the audit write included, is an enrichment failure.
EnrichTransaction ==
    /\ node = "enrich_transaction"
    /\ \/ GotoNode("build_prompt") /\ UNCHANGED outcome
       \/ GotoNode("complete_session") /\ outcome' = "enrichment_failed"
    /\ UNCHANGED <<attempt, prompt, cleared, calls, reply, stored>>

BuildPrompt ==
    /\ node = "build_prompt"
    /\ GotoNode("input_guard")
    /\ prompt' = "initial"
    /\ UNCHANGED <<attempt, cleared, calls, reply, outcome, stored>>

\* Mutant: an initial prompt that is rejected is built again.
InputGuardRetries ==
    /\ node = "input_guard"
    /\ \/ /\ GotoNode("call_llm")
          /\ cleared' = TRUE
          /\ UNCHANGED outcome
       \/ /\ GotoNode(IF attempt = 1 THEN "build_prompt" ELSE "complete_session")
          /\ outcome' = IF attempt = 1 THEN outcome ELSE "prompt_rejected"
          /\ UNCHANGED cleared
    /\ UNCHANGED <<attempt, prompt, calls, reply, stored>>

\* guard_prompt accepts the prompt or rejects it.
InputGuard ==
    /\ node = "input_guard"
    /\ \/ /\ GotoNode("call_llm")
          /\ cleared' = TRUE
          /\ UNCHANGED outcome
       \/ /\ GotoNode("complete_session")
          /\ outcome' = "prompt_rejected"
          /\ UNCHANGED cleared
    /\ UNCHANGED <<attempt, prompt, calls, reply, stored>>

CallLLM ==
    /\ node = "call_llm"
    /\ calls' = calls + 1
    /\ \/ /\ GotoNode("validate_verdict")
          /\ reply' \in Replies
          /\ UNCHANGED outcome
       \/ /\ GotoNode("complete_session")
          /\ outcome' = "model_failed"
          /\ UNCHANGED reply
    /\ UNCHANGED <<attempt, prompt, cleared, stored>>

ValidateVerdict ==
    /\ node = "validate_verdict"
    /\ \/ /\ Accepted(reply)
          /\ outcome' = Verdict(reply)
          /\ GotoNode("complete_session")
       \/ /\ ~Accepted(reply) /\ attempt = 1
          /\ GotoNode("retry_prompt")
          /\ UNCHANGED outcome
       \/ /\ ~Accepted(reply) /\ attempt # 1
          /\ outcome' = "validation_failed"
          /\ GotoNode("complete_session")
    /\ UNCHANGED <<attempt, prompt, cleared, calls, reply, stored>>

\* The rejected response is dropped; the corrective prompt replaces the first.
RetryPrompt ==
    /\ node = "retry_prompt"
    /\ prompt' = "corrective"
    /\ cleared' = FALSE
    /\ reply' = NoReply
    /\ attempt' = 2
    /\ GotoNode("input_guard")
    /\ UNCHANGED <<calls, outcome, stored>>

\* Mutant: the outcome is returned although the session was not completed.
CompleteSessionUnsaved ==
    /\ node = "complete_session"
    /\ stored' \in {stored, outcome}
    /\ GotoNode("done")
    /\ UNCHANGED <<attempt, prompt, cleared, calls, reply, outcome>>

\* store.complete_session; its failure raises (Raise).
CompleteSessionNode ==
    /\ node = "complete_session"
    /\ stored' = outcome
    /\ GotoNode("done")
    /\ UNCHANGED <<attempt, prompt, cleared, calls, reply, outcome>>

GraphNext ==
    \/ CreateSessionNode \/ BuildSanitizedContext \/ EnrichTransaction
    \/ BuildPrompt \/ InputGuard \/ CallLLM \/ ValidateVerdict \/ RetryPrompt
    \/ CompleteSessionNode \/ Raise

GraphSpec == GraphInit /\ [][GraphNext]_graphVars

\* The graph runs node after node; every port call returns or raises.
FairGraphSpec == GraphSpec /\ WF_graphVars(GraphNext)

-----------------------------------------------------------------------------
(* Properties.                                                             *)

\* Every variable has its type.
GraphTypeOK ==
    /\ node \in Nodes
    /\ attempt \in {1, 2}
    /\ prompt \in {"none", "initial", "corrective"}
    /\ cleared \in BOOLEAN
    /\ calls \in Nat
    /\ reply \in Replies \cup {NoReply}
    /\ outcome \in Actions \cup Reasons \cup {"none"}
    /\ stored \in Actions \cup Reasons \cup {"none"}

\* "persists the final outcome before returning it": what score returns, on any
\* path, is what the session holds.
ReturnedIsStored == node = "done" => outcome # "none" /\ stored = outcome

\* A run that called the model returns an action only for a reply that passed
\* the validation, and then the canonical one of its score: out-of-range scores,
\* the model's own action and a rejected first reply have no influence.
ActionIsCanonical ==
    node = "done" /\ outcome \in Actions /\ calls > 0 =>
       /\ InRange(reply.score) /\ reply.form = "ok"
       /\ outcome = "block" <=> Clamped(reply.score) >= BlockAt
       /\ outcome = "allow" <=> Clamped(reply.score) < FlagAt

\* "Every model call passes through the input guard", the corrective one with
\* its own prompt, and the model is called at most twice.
CallsAreGuarded ==
    /\ node = "call_llm" => cleared
    /\ calls <= 2
    /\ calls = 2 => prompt = "corrective"

\* score returns: the one corrective retry cannot turn into a loop.
ScoreEnds == <>(node \in {"done", "raised"})

-----------------------------------------------------------------------------

\* Nodes before the first call to the model.
Before == {"create_session", "build_sanitized_context", "enrich_transaction",
           "build_prompt"}

\* The inductive invariant: calls and prompt follow the attempt, and an outcome
\* is set exactly where the graph is about to store it or has stored it.
GraphInv ==
    /\ GraphTypeOK
    /\ node \in Before => attempt = 1 /\ calls = 0 /\ ~cleared
    /\ node \in {"input_guard", "call_llm"} => calls = attempt - 1
    /\ node \in {"validate_verdict", "retry_prompt"} => calls = attempt
    /\ node = "retry_prompt" => attempt = 1
    /\ calls <= attempt
    /\ node \in {"input_guard", "call_llm", "validate_verdict", "retry_prompt"} =>
          prompt = IF attempt = 1 THEN "initial" ELSE "corrective"
    /\ calls = 2 => prompt = "corrective"
    /\ node = "call_llm" => cleared
    /\ node \in {"complete_session", "done"} => outcome # "none"
    /\ node \notin {"create_session", "done", "raised"} => stored = "none"
    /\ node = "done" => stored = outcome
    /\ node \in {"complete_session", "done"} /\ outcome \in Actions /\ calls > 0 =>
          /\ Accepted(reply)
          /\ outcome = Verdict(reply)

=============================================================================
