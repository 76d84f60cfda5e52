---------------------------- MODULE ToolAgentLoop ----------------------------
(***************************************************************************)
(* One multi-turn rollout of verl's "tool_agent" loop: the state machine   *)
(* of experimental/agent_loop/tool_agent_loop.py, the prompt truncation of *)
(* agent_loop.py, the token budget of the rollout server, and the count of *)
(* tool calls that rl_reward.py derives from the finished trajectory.      *)
(*                                                                         *)
(* A token is its provenance: "prompt", "llm" or "tool". Text, images and  *)
(* the contents of a tool response are left out; what they decide (how     *)
(* many tokens, how many calls) is chosen freely.                          *)
(***************************************************************************)
EXTENDS Naturals, Sequences, FiniteSets

CONSTANTS
    PromptLength,    \* rollout.prompt_length
    ResponseLength,  \* rollout.response_length
    MaxTemplate,     \* bound: tokens a chat template renders before truncation
    MaxCalls,        \* bound: tool calls the parser finds in one completion
    AbortReturns,    \* an aborted completion is handed to the loop as it is
    Configs          \* the settings of a deployment, one is chosen per rollout

ASSUME LengthsAssumption ==
    /\ PromptLength \in Nat \ {0}
    /\ ResponseLength \in Nat \ {0}
    /\ MaxTemplate \in Nat \ {0}
    /\ MaxCalls \in Nat
    /\ AbortReturns \in BOOLEAN

\* max_tool_calls is the budget of the task; a limit of 0 turns is "no limit".
ASSUME ConfigsAssumption ==
    Configs \subseteq [max_assistant_turns : Nat, max_user_turns : Nat,
                       max_parallel_calls : Nat \ {0}, max_model_len : Nat,
                       calculate_log_probs : BOOLEAN, max_tool_calls : Nat]

VARIABLES
    config,             \* the settings this rollout runs under
    state,              \* AgentState, or "FAILED" when the coroutine raised
    prompt_ids,         \* the transcript: prompt, completions, tool responses
    response_mask,      \* 1 for a generated token, 0 for a tool token
    response_logprobs,  \* "sampled" or the 0.0 placeholder of a tool token
    tool_calls,         \* number of calls of this round that are executed
    finished,           \* calls of this round that returned, as they returned
    messages,           \* tool messages kept, as <<assistant turn, call>>
    tool_rewards,       \* number of rewards collected from tools
    user_turns,
    assistant_turns,
    output              \* the AgentLoopOutput; NoOutput until run returns

transcript == <<prompt_ids, response_mask, response_logprobs>>
round == <<tool_calls, finished>>
kept == <<messages, tool_rewards>>
turns == <<user_turns, assistant_turns>>
vars == <<config, state, transcript, round, kept, turns, output>>

-----------------------------------------------------------------------------
Lesser(a, b) == IF a <= b THEN a ELSE b
Greater(a, b) == IF a >= b THEN a ELSE b

Repeat(value, n) == [i \in 1..n |-> value]

\* Python's s[:n] and s[-n:]; the second is the whole of s when n is 0.
FirstOf(s, n) == SubSeq(s, 1, Lesser(n, Len(s)))
LastOf(s, n) == IF n = 0 THEN s ELSE SubSeq(s, Len(s) - n + 1, Len(s))

\* Mutant: the template's tokens are used without truncation.
TruncatedNever(n) == n

\* Every prompt and tool response is cut on the left to prompt_length.
Truncated(n) == Lesser(n, PromptLength)

\* The server clamps what is left of the length budget to [1, room].
MaxTokens(len, room) ==
    LET budget == Lesser(ResponseLength,
                         IF len <= PromptLength + ResponseLength
                           THEN PromptLength + ResponseLength - len ELSE 0)
    IN  Greater(1, Lesser(budget, room))

\* The number of tool calls the reward charges for.
NumToolCalls(num_turns) ==
    IF num_turns <= 2 THEN 0 ELSE (num_turns - 2) \div 2

\* The fields of AgentLoopOutput that describe the trajectory, and the value
\* before there is one; a returned output has num_turns at least 2.
NoOutput == [prompt_ids |-> <<>>, response_ids |-> <<>>, response_mask |-> <<>>,
             response_logprobs |-> <<>>, num_turns |-> 0]

-----------------------------------------------------------------------------
Init ==
    /\ config \in Configs
    /\ state = "PENDING"
    /\ prompt_ids = <<>> /\ response_mask = <<>> /\ response_logprobs = <<>>
    /\ tool_calls = 0 /\ finished = <<>>
    /\ messages = <<>> /\ tool_rewards = 0
    /\ user_turns = 0 /\ assistant_turns = 0
    /\ output = NoOutput

\* _handle_pending_state: the chat template renders and truncates the prompt.
HandlePending ==
    /\ state = "PENDING"
    /\ \E n \in 1..MaxTemplate : prompt_ids' = Repeat("prompt", Truncated(n))
    /\ state' = "GENERATING"
    /\ UNCHANGED <<config, response_mask, response_logprobs, round, kept,
                   turns, output>>

\* Mutant: one assistant turn too many.
OutOfBudgetLate(mask, assistant, user) ==
    \/ Len(mask) >= ResponseLength
    \/ config.max_assistant_turns # 0 /\ assistant > config.max_assistant_turns
    \/ config.max_user_turns # 0 /\ user >= config.max_user_turns

\* The limits that end a rollout after a completion, in the code's terms.
OutOfBudget(mask, assistant, user) ==
    \/ Len(mask) >= ResponseLength
    \/ config.max_assistant_turns # 0 /\ assistant >= config.max_assistant_turns
    \/ config.max_user_turns # 0 /\ user >= config.max_user_turns

\* A completion of n tokens extends the transcript and counts as a turn.
AppendCompletion(n) ==
    /\ assistant_turns' = assistant_turns + 1
    /\ prompt_ids' = prompt_ids \o Repeat("llm", n)
    /\ response_mask' = response_mask \o Repeat(1, n)
    /\ response_logprobs' = IF config.calculate_log_probs
                              THEN response_logprobs \o Repeat("sampled", n)
                              ELSE response_logprobs

\* An engine completion has a token; an aborted one may have none, and then
\* no tool call can be parsed out of it.
Completions(room) ==
    LET most == MaxTokens(Len(prompt_ids), room)
    IN  (IF AbortReturns THEN 0 ELSE 1)..most

\* _handle_generating_state, with the server's generate it awaits.
HandleGenerating ==
    /\ state = "GENERATING"
    /\ IF config.max_model_len <= Len(prompt_ids)
         THEN /\ state' = "FAILED"
              /\ UNCHANGED <<transcript, round, turns>>
         ELSE \E n \in Completions(config.max_model_len - Len(prompt_ids)) :
              /\ AppendCompletion(n)
              /\ UNCHANGED user_turns
              /\ IF OutOfBudget(response_mask', assistant_turns', user_turns)
                   THEN state' = "TERMINATED" /\ UNCHANGED round
                   ELSE \E k \in 0..(IF n = 0 THEN 0 ELSE MaxCalls) :
                        /\ tool_calls' = Lesser(k, config.max_parallel_calls)
                        /\ finished' = <<>>
                        /\ state' = IF k = 0 THEN "TERMINATED"
                                             ELSE "PROCESSING_TOOLS"
    /\ UNCHANGED <<config, kept, output>>

\* Mutants: calls counted from 0, and a last call that is never made.
ToolReturnsFromZero(i, kind) ==
    /\ state = "PROCESSING_TOOLS"
    /\ \A j \in 1..Len(finished) : finished[j].call # i - 1
    /\ finished' = Append(finished, [call |-> i - 1, kind |-> kind])
    /\ UNCHANGED <<config, state, transcript, tool_calls, kept, turns, output>>
ToolReturnsButLast(i, kind) ==
    /\ state = "PROCESSING_TOOLS"
    /\ i < tool_calls
    /\ \A j \in 1..Len(finished) : finished[j].call # i
    /\ finished' = Append(finished, [call |-> i, kind |-> kind])
    /\ UNCHANGED <<config, state, transcript, tool_calls, kept, turns, output>>

\* One of the gathered _call_tool coroutines returns. Errors inside a tool
\* become text; a video, or an image without a processor, makes the loop raise.
ToolReturns(i, kind) ==
    /\ state = "PROCESSING_TOOLS"
    /\ \A j \in 1..Len(finished) : finished[j].call # i
    /\ finished' = Append(finished, [call |-> i, kind |-> kind])
    /\ UNCHANGED <<config, state, transcript, tool_calls, kept, turns, output>>

\* Mutant: the responses are kept in the order in which they arrived.
ArrivedMessages ==
    [i \in 1..tool_calls |-> <<assistant_turns, finished[i].call>>]

\* asyncio.gather yields the responses in the order of the calls.
GatheredMessages ==
    [i \in 1..tool_calls |-> <<assistant_turns, i>>]

Raises == \E j \in 1..Len(finished) : finished[j].kind = "unsupported"

ToolLogprobs(n) ==
    IF response_logprobs = <<>> THEN <<>>
    ELSE response_logprobs \o Repeat("zero", n)

\* Mutants: tool tokens are trained on, have no log-probabilities, or are not
\* counted as a turn.
AppendToolTrained(n) ==
    /\ prompt_ids' = prompt_ids \o Repeat("tool", n)
    /\ response_mask' = response_mask \o Repeat(1, n)
    /\ response_logprobs' = ToolLogprobs(n)
    /\ user_turns' = user_turns + 1
AppendToolUnpadded(n) ==
    /\ prompt_ids' = prompt_ids \o Repeat("tool", n)
    /\ response_mask' = response_mask \o Repeat(0, n)
    /\ user_turns' = user_turns + 1
    /\ UNCHANGED response_logprobs
AppendToolUncounted(n) ==
    /\ prompt_ids' = prompt_ids \o Repeat("tool", n)
    /\ response_mask' = response_mask \o Repeat(0, n)
    /\ response_logprobs' = ToolLogprobs(n)
    /\ UNCHANGED user_turns

\* The n rendered tokens of the tool responses extend the transcript.
AppendToolResponse(n) ==
    /\ prompt_ids' = prompt_ids \o Repeat("tool", n)
    /\ response_mask' = response_mask \o Repeat(0, n)
    /\ response_logprobs' = ToolLogprobs(n)
    /\ user_turns' = user_turns + 1

\* _handle_processing_tools_state after the gather: the messages and rewards
\* are kept even when the rendered responses do not fit and are dropped.
\* Function tools, the only tools of this pipeline, always have a reward.
HandleProcessingTools ==
    /\ state = "PROCESSING_TOOLS"
    /\ Len(finished) = tool_calls
    /\ IF Raises
         THEN /\ state' = "FAILED"
              /\ UNCHANGED <<transcript, kept, turns>>
         ELSE \E n \in 1..MaxTemplate :
              LET rendered == Truncated(n)
              IN  /\ messages' = messages \o GatheredMessages
                  /\ tool_rewards' = tool_rewards + tool_calls
                  /\ UNCHANGED assistant_turns
                  /\ IF Len(response_mask) + rendered >= ResponseLength
                       THEN /\ state' = "TERMINATED"
                            /\ UNCHANGED <<transcript, user_turns>>
                       ELSE /\ state' = "GENERATING"
                            /\ AppendToolResponse(rendered)
    /\ UNCHANGED <<config, round, output>>

\* The end of run: split the transcript and cap it at response_length.
Finalize ==
    /\ state = "TERMINATED"
    /\ output = NoOutput
    /\ output' =
        [prompt_ids |-> FirstOf(prompt_ids, Len(prompt_ids) - Len(response_mask)),
         response_ids |-> FirstOf(LastOf(prompt_ids, Len(response_mask)),
                                  ResponseLength),
         response_mask |-> FirstOf(response_mask, ResponseLength),
         response_logprobs |-> FirstOf(response_logprobs, ResponseLength),
         num_turns |-> user_turns + assistant_turns + 1]
    /\ UNCHANGED <<config, state, transcript, round, kept, turns>>

Next ==
    \/ HandlePending
    \/ HandleGenerating
    \/ \E i \in 1..tool_calls, kind \in {"text", "unsupported"} : ToolReturns(i, kind)
    \/ HandleProcessingTools
    \/ Finalize

\* The event loop keeps running the coroutine; the engine and the tools answer.
Fairness == WF_vars(Next)

Spec == Init /\ [][Next]_vars
FairSpec == Spec /\ Fairness

-----------------------------------------------------------------------------
Done == output # NoOutput

\* Every variable stays in its type; turns and rewards are counted, not lost.
TypeOK ==
    /\ config \in Configs
    /\ state \in {"PENDING", "GENERATING", "PROCESSING_TOOLS", "TERMINATED", "FAILED"}
    /\ prompt_ids \in Seq({"prompt", "llm", "tool"})
    /\ response_mask \in Seq({0, 1})
    /\ response_logprobs \in Seq({"sampled", "zero"})
    /\ tool_calls \in 0..MaxCalls
    /\ finished \in Seq([call : 1..MaxCalls, kind : {"text", "unsupported"}])
    /\ messages \in Seq(Nat \X (1..MaxCalls))
    /\ tool_rewards \in Nat
    /\ user_turns \in Nat
    /\ assistant_turns \in Nat
    /\ output \in [prompt_ids : Seq({"prompt", "llm", "tool"}),
                   response_ids : Seq({"prompt", "llm", "tool"}),
                   response_mask : Seq({0, 1}),
                   response_logprobs : Seq({"sampled", "zero"}),
                   num_turns : Nat]

\* What training reads: the response fits, has one mask entry per token, the
\* mask is 1 exactly on the tokens the model generated, and no prompt token
\* is taken for a response nor a response token for the prompt. The exception
\* is an empty mask, left by a first completion aborted before any token: then
\* prompt_ids[-0:], the whole prompt, is taken for the response.
ResponseAligned ==
    Done /\ (AbortReturns => output.response_mask # <<>>) =>
    /\ Len(output.response_ids) = Len(output.response_mask)
    /\ Len(output.response_ids) <= ResponseLength
    /\ \A i \in 1..Len(output.response_ids) :
          output.response_ids[i] = IF output.response_mask[i] = 1 THEN "llm" ELSE "tool"
    /\ Len(output.prompt_ids) \in 1..PromptLength
    /\ \A i \in 1..Len(output.prompt_ids) : output.prompt_ids[i] = "prompt"

\* When log-probabilities are recorded, each response token has its own: a
\* sampled one under mask 1, the 0.0 placeholder under mask 0, however many
\* tool rounds were inserted between the completions.
LogprobsAligned ==
    Done /\ config.calculate_log_probs =>
    /\ Len(output.response_logprobs) = Len(output.response_mask)
    /\ \A i \in 1..Len(output.response_mask) :
          output.response_logprobs[i] =
             IF output.response_mask[i] = 1 THEN "sampled" ELSE "zero"

\* The maximal blocks of tool tokens in a response mask.
ToolBlocks(mask) ==
    {i \in 1..Len(mask) : mask[i] = 0 /\ (i = 1 \/ mask[i - 1] = 1)}

\* The reward never sees the calls, only num_turns. What it charges is the
\* number of tool responses the returned response shows, and it misses at most
\* one executed round: the one whose response did not fit.
ToolUseCharged ==
    Done =>
    LET charged == NumToolCalls(output.num_turns)
    IN  /\ Cardinality(ToolBlocks(output.response_mask)) = charged
        /\ charged <= tool_rewards
        /\ tool_rewards <= (charged + 1) * config.max_parallel_calls

\* The turn limit the training command derives from the call budget keeps what
\* the reward charges within that budget, for a budget of at least one call.
WithinCallBudget ==
    Done /\ config.max_tool_calls >= 1
         /\ config.max_assistant_turns = Greater(2, config.max_tool_calls + 1)
    => NumToolCalls(output.num_turns) <= config.max_tool_calls

\* The conversation keeps one message per executed call in the order the
\* model issued them, whatever order the tools answered in; every round up to
\* user_turns is there, and only a terminated rollout has a round unseen.
MessagesInCallOrder ==
    /\ \A i, j \in 1..Len(messages) :
          i < j => \/ messages[i][1] < messages[j][1]
                   \/ messages[i][1] = messages[j][1] /\ messages[i][2] < messages[j][2]
    /\ \A t \in 1..user_turns : \E i \in 1..Len(messages) : messages[i][1] = t
    /\ \A i \in 1..Len(messages) :
          messages[i][1] > user_turns =>
             messages[i][1] = user_turns + 1 /\ state = "TERMINATED"

\* With the default max_model_len = prompt_length + response_length, the
\* loop never asks the server for a completion that cannot hold a token,
\* which the server answers by raising and the rollout by failing.
RoomToGenerate ==
    config.max_model_len >= PromptLength + ResponseLength /\ state = "GENERATING"
    => Len(prompt_ids) < config.max_model_len

\* A rollout ends, by returning or by raising, also when no turn limit is
\* set: each round adds a token and response_length bounds them.
Terminates == <>(Done \/ state = "FAILED")
=============================================================================
