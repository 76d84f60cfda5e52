--------------------------- MODULE MCToolAgentLoop ---------------------------
(***************************************************************************)
(* Small rollouts: the settings the stock pipeline deploys (a turn limit    *)
(* one above the call budget, sequential calls, room for both lengths) and  *)
(* the settings that exercise the other branches of the loop.               *)
(***************************************************************************)
EXTENDS ToolAgentLoop

Setting(assistant, user, parallel, len, logprobs, budget) ==
    [max_assistant_turns |-> assistant, max_user_turns |-> user,
     max_parallel_calls |-> parallel, max_model_len |-> len,
     calculate_log_probs |-> logprobs, max_tool_calls |-> budget]

\* One entry per situation: the deployed limits, no limit at all, parallel
\* calls under a user limit, and a model too short for the two lengths.
MCConfigs ==
    {Setting(2, 0, 1, PromptLength + ResponseLength, TRUE, 1),
     Setting(3, 0, 1, PromptLength + ResponseLength, TRUE, 2),
     Setting(0, 0, 1, PromptLength + ResponseLength, FALSE, 1),
     Setting(0, 2, 2, PromptLength + ResponseLength + 1, TRUE, 1),
     Setting(0, 0, 2, PromptLength + ResponseLength - 1, TRUE, 1)}
=============================================================================
