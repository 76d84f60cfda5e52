------------------------ MODULE ToolAgentLoop_proofs ------------------------
(***************************************************************************)
(* For every prompt and response length and every setting: a rollout never *)
(* asks for a completion without room for a token, the reward's count of   *)
(* tool calls stays in the call budget, and the response handed to         *)
(* training is aligned with its mask. Its state is well typed, the reward  *)
(* charges exactly the tool rounds the response shows, log-probabilities   *)
(* stay with their tokens, and tool messages are in the order of the calls.*)
(***************************************************************************)
EXTENDS ToolAgentLoop, FiniteSetTheorems, SequenceTheorems, TLAPS

Tags == {"prompt", "llm", "tool"}

\* Where the prompt ends in the transcript.
PromptEnd == Len(prompt_ids) - Len(response_mask)

\* The types the arguments below need.
Typed ==
    /\ config \in Configs
    /\ prompt_ids \in Seq(Tags)
    /\ response_mask \in Seq({0, 1})
    /\ tool_calls \in Nat
    /\ user_turns \in Nat
    /\ assistant_turns \in Nat

\* A tool round follows each completion but the last one, and a round is only
\* entered below the turn limit and below the response length.
TurnsPaired ==
    /\ state = "PENDING" => user_turns = 0 /\ assistant_turns = 0
    /\ state = "GENERATING" => assistant_turns = user_turns
    /\ state \in {"PROCESSING_TOOLS", "TERMINATED"} => assistant_turns = user_turns + 1
    /\ state \in {"GENERATING", "PROCESSING_TOOLS"} =>
          /\ Len(response_mask) < ResponseLength
          /\ config.max_assistant_turns # 0 =>
                assistant_turns < config.max_assistant_turns
    /\ state = "TERMINATED" /\ config.max_assistant_turns # 0 =>
          assistant_turns <= config.max_assistant_turns

\* The transcript is a prompt of at most prompt_length tokens, then one token
\* per mask entry, of the provenance the entry says.
Aligned ==
    /\ state = "PENDING" => prompt_ids = <<>> /\ response_mask = <<>>
    /\ state # "PENDING" => PromptEnd \in 1..PromptLength
    /\ \A i \in 1..PromptEnd : prompt_ids[i] = "prompt"
    /\ \A i \in 1..Len(response_mask) :
          prompt_ids[PromptEnd + i] = IF response_mask[i] = 1 THEN "llm" ELSE "tool"
    /\ state \in {"PROCESSING_TOOLS", "TERMINATED"} /\ ~AbortReturns =>
          Len(response_mask) > 0

\* What Finalize puts in the output it makes of such a transcript.
Returned ==
    Done =>
    /\ state = "TERMINATED"
    /\ output.num_turns = user_turns + assistant_turns + 1
    /\ output.prompt_ids =
          FirstOf(prompt_ids, Len(prompt_ids) - Len(response_mask))
    /\ output.response_ids =
          FirstOf(LastOf(prompt_ids, Len(response_mask)), ResponseLength)
    /\ output.response_mask = FirstOf(response_mask, ResponseLength)

IInv == Typed /\ TurnsPaired /\ Aligned /\ Returned

-----------------------------------------------------------------------------
\* A run of equal tokens is a sequence of its length.
LEMMA RepeatProperties ==
    ASSUME NEW S, NEW v \in S, NEW n \in Nat
    PROVE  /\ Repeat(v, n) \in Seq(S)
           /\ Len(Repeat(v, n)) = n
           /\ \A i \in 1..n : Repeat(v, n)[i] = v
BY DEF Repeat

\* Extending a sequence by a run keeps what it has and adds the run's value.
LEMMA ExtendProperties ==
    ASSUME NEW S, NEW s \in Seq(S), NEW v \in S, NEW n \in Nat
    PROVE  /\ s \o Repeat(v, n) \in Seq(S)
           /\ Len(s \o Repeat(v, n)) = Len(s) + n
           /\ \A i \in 1..Len(s) : (s \o Repeat(v, n))[i] = s[i]
           /\ \A i \in 1..n : (s \o Repeat(v, n))[Len(s) + i] = v
<1> DEFINE t == Repeat(v, n)
<1>1. t \in Seq(S) /\ Len(t) = n /\ \A i \in 1..n : t[i] = v
  BY RepeatProperties
<1> HIDE DEF t
<1>2. Len(s) \in Nat
  BY LenProperties
<1>3. /\ s \o t \in Seq(S)
      /\ Len(s \o t) = Len(s) + n
      /\ \A i \in 1..Len(s) + n : (s \o t)[i] = IF i <= Len(s) THEN s[i] ELSE t[i - Len(s)]
  BY <1>1, ConcatProperties
<1>4. \A i \in 1..n : (s \o t)[Len(s) + i] = v
  BY <1>1, <1>2, <1>3
<1> QED BY <1>2, <1>3, <1>4 DEF t

\* The first n elements of a sequence, and the last n when n is not 0.
LEMMA SliceProperties ==
    ASSUME NEW S, NEW s \in Seq(S), NEW n \in Nat
    PROVE  /\ Len(FirstOf(s, n)) = Lesser(n, Len(s))
           /\ \A i \in 1..Lesser(n, Len(s)) : FirstOf(s, n)[i] = s[i]
           /\ n > 0 /\ n <= Len(s) =>
                /\ LastOf(s, n) \in Seq(S)
                /\ Len(LastOf(s, n)) = n
                /\ \A i \in 1..n : LastOf(s, n)[i] = s[Len(s) - n + i]
<1>1. Len(s) \in Nat /\ \A i \in 1..Len(s) : s[i] \in S
  BY LenProperties, ElementOfSeq
<1>2. Lesser(n, Len(s)) \in Nat /\ Lesser(n, Len(s)) <= Len(s)
  BY <1>1 DEF Lesser
<1>3. /\ Len(FirstOf(s, n)) = Lesser(n, Len(s))
      /\ \A i \in 1..Lesser(n, Len(s)) : FirstOf(s, n)[i] = s[i]
  <2> DEFINE m == Lesser(n, Len(s))
  <2>1. m \in Nat /\ m <= Len(s)
    BY <1>2
  <2> HIDE DEF m
  <2>2. \A i \in 1..m : s[i] \in S
    BY <1>1, <2>1
  <2>3. /\ Len(SubSeq(s, 1, m)) = IF 1 <= m THEN m - 1 + 1 ELSE 0
        /\ \A i \in 1..(m - 1 + 1) : SubSeq(s, 1, m)[i] = s[1 + i - 1]
    BY <2>1, <2>2, SubSeqProperties
  <2>4. Len(SubSeq(s, 1, m)) = m /\ \A i \in 1..m : SubSeq(s, 1, m)[i] = s[i]
    BY <2>1, <2>3
  <2> QED BY <2>4 DEF m, FirstOf
<1>4. ASSUME n > 0, n <= Len(s)
      PROVE  /\ LastOf(s, n) \in Seq(S)
             /\ Len(LastOf(s, n)) = n
             /\ \A i \in 1..n : LastOf(s, n)[i] = s[Len(s) - n + i]
  <2>1. LastOf(s, n) = SubSeq(s, Len(s) - n + 1, Len(s))
    BY <1>4 DEF LastOf
  <2> DEFINE a == Len(s) - n + 1
  <2>2. a \in 1..Len(s) /\ \A i \in a..Len(s) : s[i] \in S
    BY <1>1, <1>4
  <2>3. /\ SubSeq(s, a, Len(s)) \in Seq(S)
        /\ Len(SubSeq(s, a, Len(s))) = Len(s) - a + 1
        /\ \A i \in 1..(Len(s) - a + 1) : SubSeq(s, a, Len(s))[i] = s[a + i - 1]
    BY <1>1, <2>2, SubSeqProperties
  <2> QED BY <1>1, <1>4, <2>1, <2>3
<1> QED BY <1>3, <1>4

\* What is left of a template, and of the budget of a completion.
LEMMA TruncatedType ==
    \A n \in 1..MaxTemplate : Truncated(n) \in 1..PromptLength
BY LengthsAssumption DEF Truncated, Lesser

\* A completion has a length that leaves it within the transcript's types.
LEMMA CompletionsType ==
    ASSUME NEW room \in Nat, NEW n \in Completions(room)
    PROVE  n \in Nat /\ (~AbortReturns => n > 0)
BY LengthsAssumption DEF Completions, MaxTokens, Lesser, Greater

\* The settings a rollout runs under have the fields the guards compare.
LEMMA ConfigType ==
    config \in Configs =>
    /\ config.max_assistant_turns \in Nat
    /\ config.max_tool_calls \in Nat
    /\ config.max_model_len \in Nat
BY ConfigsAssumption

-----------------------------------------------------------------------------
\* A rollout that has not started satisfies the invariant.
LEMMA InitIInv == Init => IInv
<1> SUFFICES ASSUME Init PROVE IInv
  OBVIOUS
<1>1. Typed
  BY EmptySeq DEF Init, Typed
<1>2. TurnsPaired
  BY DEF Init, TurnsPaired
<1>3. Len(prompt_ids) = 0 /\ Len(response_mask) = 0
  BY EmptySeq DEF Init
<1>4. Aligned
  BY <1>3 DEF Init, Aligned, PromptEnd
<1>5. Returned
  BY DEF Init, Returned, Done
<1> QED BY <1>1, <1>2, <1>4, <1>5 DEF IInv

\* Appending n tokens of one provenance, and n mask entries that say so, keeps
\* the transcript aligned.
LEMMA ExtendAligned ==
    ASSUME Typed, Aligned, state # "PENDING",
           NEW n \in Nat, NEW tag \in Tags, NEW m \in {0, 1},
           tag = (IF m = 1 THEN "llm" ELSE "tool"),
           prompt_ids' = prompt_ids \o Repeat(tag, n),
           response_mask' = response_mask \o Repeat(m, n)
    PROVE  /\ prompt_ids' \in Seq(Tags)
           /\ response_mask' \in Seq({0, 1})
           /\ Len(response_mask') = Len(response_mask) + n
           /\ PromptEnd' \in 1..PromptLength
           /\ \A i \in 1..PromptEnd' : prompt_ids'[i] = "prompt"
           /\ \A i \in 1..Len(response_mask') :
                 prompt_ids'[PromptEnd' + i] =
                    IF response_mask'[i] = 1 THEN "llm" ELSE "tool"
<1>1. /\ prompt_ids' \in Seq(Tags)
      /\ Len(prompt_ids') = Len(prompt_ids) + n
      /\ \A i \in 1..Len(prompt_ids) : prompt_ids'[i] = prompt_ids[i]
      /\ \A i \in 1..n : prompt_ids'[Len(prompt_ids) + i] = tag
  BY ExtendProperties DEF Typed
<1>2. /\ response_mask' \in Seq({0, 1})
      /\ Len(response_mask') = Len(response_mask) + n
      /\ \A i \in 1..Len(response_mask) : response_mask'[i] = response_mask[i]
      /\ \A i \in 1..n : response_mask'[Len(response_mask) + i] = m
  <2> DEFINE Bits == {0, 1}
  <2>1. response_mask \in Seq(Bits) /\ m \in Bits
    BY DEF Typed
  <2> HIDE DEF Bits
  <2>2. /\ response_mask \o Repeat(m, n) \in Seq(Bits)
        /\ Len(response_mask \o Repeat(m, n)) = Len(response_mask) + n
        /\ \A i \in 1..Len(response_mask) :
              (response_mask \o Repeat(m, n))[i] = response_mask[i]
        /\ \A i \in 1..n : (response_mask \o Repeat(m, n))[Len(response_mask) + i] = m
    BY <2>1, ExtendProperties
  <2> QED BY <2>2 DEF Bits
<1>3. Len(prompt_ids) \in Nat /\ Len(response_mask) \in Nat
  BY LenProperties DEF Typed
<1>4. PromptEnd \in 1..PromptLength /\ PromptEnd' = PromptEnd
      /\ PromptEnd + Len(response_mask) = Len(prompt_ids)
  BY <1>1, <1>2, <1>3 DEF Aligned, PromptEnd
<1>5. \A i \in 1..PromptEnd' : prompt_ids'[i] = "prompt"
  BY <1>1, <1>3, <1>4, LengthsAssumption DEF Aligned
<1>6. ASSUME NEW i \in 1..Len(response_mask')
      PROVE  prompt_ids'[PromptEnd' + i] =
                IF response_mask'[i] = 1 THEN "llm" ELSE "tool"
  <2>1. CASE i \in 1..Len(response_mask)
    <3>1. PromptEnd + i \in 1..Len(prompt_ids)
      BY <2>1, <1>3, <1>4, LengthsAssumption
    <3>2. prompt_ids[PromptEnd + i] = IF response_mask[i] = 1 THEN "llm" ELSE "tool"
      BY <2>1 DEF Aligned
    <3> QED BY <2>1, <3>1, <3>2, <1>1, <1>2, <1>4
  <2>2. CASE i \notin 1..Len(response_mask)
    <3> DEFINE j == i - Len(response_mask)
    <3>1. j \in 1..n /\ i = Len(response_mask) + j
      BY <2>2, <1>2, <1>3
    <3> HIDE DEF j
    <3>2. /\ PromptEnd' = PromptEnd /\ PromptEnd \in Int /\ j \in Int
          /\ PromptEnd + Len(response_mask) = Len(prompt_ids)
      BY <3>1, <1>4, LengthsAssumption
    <3>3. PromptEnd' + i = Len(prompt_ids) + j
      <4> HIDE DEF PromptEnd
      <4> QED BY <3>1, <3>2, <1>3
    <3> QED BY <3>1, <3>3, <1>1, <1>2
  <2> QED BY <2>1, <2>2
<1> QED BY <1>1, <1>2, <1>4, <1>5, <1>6

\* The first render makes the whole transcript a prompt that fits.
LEMMA PendingStep == IInv /\ HandlePending => IInv'
<1> SUFFICES ASSUME IInv, HandlePending PROVE IInv'
  OBVIOUS
<1> USE DEF IInv
<1>1. PICK n \in 1..MaxTemplate : prompt_ids' = Repeat("prompt", Truncated(n))
  BY DEF HandlePending
<1>2. Truncated(n) \in 1..PromptLength
  BY TruncatedType
<1>3. /\ prompt_ids' \in Seq(Tags)
      /\ Len(prompt_ids') = Truncated(n)
      /\ \A i \in 1..Truncated(n) : prompt_ids'[i] = "prompt"
  <2>1. Truncated(n) \in Nat /\ "prompt" \in Tags
    BY <1>2, LengthsAssumption DEF Tags
  <2> QED BY <1>1, <2>1, RepeatProperties
<1>4. response_mask' = <<>> /\ Len(response_mask') = 0
  BY EmptySeq DEF HandlePending, Aligned
<1>5. PromptEnd' = Truncated(n)
  BY <1>2, <1>3, <1>4 DEF PromptEnd
<1>6. Typed'
  BY <1>3, <1>4, EmptySeq DEF HandlePending, Typed, turns, round
<1>7. TurnsPaired'
  BY <1>4, LengthsAssumption, ConfigType DEF HandlePending, TurnsPaired, Typed, turns
<1>8. Aligned'
  BY <1>2, <1>3, <1>4, <1>5 DEF Aligned, HandlePending
<1>9. Returned'
  BY DEF HandlePending, Returned, Done
<1> QED BY <1>6, <1>7, <1>8, <1>9

\* A completion pairs a turn and decides, by the limits, how to go on.
LEMMA GeneratingStep == IInv /\ HandleGenerating => IInv'
<1> SUFFICES ASSUME IInv, HandleGenerating PROVE IInv'
  OBVIOUS
<1> USE DEF IInv
<1>0. /\ Len(prompt_ids) \in Nat /\ Len(response_mask) \in Nat
      /\ config.max_model_len \in Nat /\ config.max_assistant_turns \in Nat
      /\ state = "GENERATING" /\ config' = config /\ output' = output
  BY LenProperties, ConfigType DEF Typed, HandleGenerating
<1>1. Returned'
  BY <1>0 DEF Returned, Done
<1>2. CASE config.max_model_len <= Len(prompt_ids)
  <2>1. state' = "FAILED" /\ UNCHANGED <<transcript, round, turns>>
    BY <1>2 DEF HandleGenerating
  <2>2. Typed'
    BY <2>1, <1>0 DEF Typed, transcript, round, turns
  <2>3. TurnsPaired'
    BY <2>1 DEF TurnsPaired
  <2>4. Aligned'
    BY <2>1, <1>0 DEF Aligned, PromptEnd, transcript
  <2> QED BY <1>1, <2>2, <2>3, <2>4
<1>3. CASE ~(config.max_model_len <= Len(prompt_ids))
  <2> DEFINE room == config.max_model_len - Len(prompt_ids)
  <2>1. room \in Nat
    BY <1>0, <1>3
  <2>2. PICK n \in Completions(room) :
          /\ AppendCompletion(n)
          /\ UNCHANGED user_turns
          /\ \/ /\ OutOfBudget(response_mask', assistant_turns', user_turns)
                /\ state' = "TERMINATED" /\ UNCHANGED round
             \/ /\ ~OutOfBudget(response_mask', assistant_turns', user_turns)
                /\ \E k \in 0..(IF n = 0 THEN 0 ELSE MaxCalls) :
                      /\ tool_calls' = Lesser(k, config.max_parallel_calls)
                      /\ finished' = <<>>
                      /\ state' = IF k = 0 THEN "TERMINATED" ELSE "PROCESSING_TOOLS"
    BY <1>3 DEF HandleGenerating
  <2>3. n \in Nat /\ (~AbortReturns => n > 0)
    BY <2>1, CompletionsType
  <2>4. /\ prompt_ids' \in Seq(Tags)
        /\ response_mask' \in Seq({0, 1})
        /\ Len(response_mask') = Len(response_mask) + n
        /\ PromptEnd' \in 1..PromptLength
        /\ \A i \in 1..PromptEnd' : prompt_ids'[i] = "prompt"
        /\ \A i \in 1..Len(response_mask') :
              prompt_ids'[PromptEnd' + i] =
                 IF response_mask'[i] = 1 THEN "llm" ELSE "tool"
    <3>1. /\ prompt_ids' = prompt_ids \o Repeat("llm", n)
          /\ response_mask' = response_mask \o Repeat(1, n)
      BY <2>2 DEF AppendCompletion
    <3>2. "llm" \in Tags /\ 1 \in {0, 1} /\ state # "PENDING"
      BY <1>0 DEF Tags
    <3> QED BY <2>3, <3>1, <3>2, ExtendAligned
  <2>5. assistant_turns' = assistant_turns + 1 /\ user_turns' = user_turns
    BY <2>2 DEF AppendCompletion
  <2>6. state' \in {"TERMINATED", "PROCESSING_TOOLS"}
    BY <2>2
  <2>7. tool_calls' \in Nat
    <3>1. CASE UNCHANGED round
      BY <3>1 DEF round, Typed
    <3>2. CASE \E k \in 0..(IF n = 0 THEN 0 ELSE MaxCalls) :
                  tool_calls' = Lesser(k, config.max_parallel_calls)
      BY <3>2, ConfigsAssumption, LengthsAssumption DEF Typed, Lesser
    <3> QED BY <2>2, <3>1, <3>2
  <2>8. state' = "PROCESSING_TOOLS" =>
           ~OutOfBudget(response_mask', assistant_turns', user_turns)
    BY <2>2
  <2>9. Typed'
    BY <1>0, <2>4, <2>5, <2>7 DEF Typed
  <2>10. TurnsPaired'
    <3>1. state' = "PROCESSING_TOOLS" =>
             /\ Len(response_mask') < ResponseLength
             /\ config'.max_assistant_turns # 0 =>
                   assistant_turns' < config'.max_assistant_turns
      BY <1>0, <2>3, <2>4, <2>5, <2>8, LengthsAssumption DEF OutOfBudget, Typed
    <3> QED BY <1>0, <2>5, <2>6, <3>1 DEF TurnsPaired, Typed
  <2>11. Aligned'
    BY <1>0, <2>3, <2>4, <2>6 DEF Aligned
  <2> QED BY <1>1, <2>9, <2>10, <2>11
<1> QED BY <1>2, <1>3

\* A tool that returns changes nothing the invariant reads.
LEMMA ToolReturnsStep ==
    ASSUME NEW i, NEW kind, IInv, ToolReturns(i, kind)
    PROVE  IInv'
<1>1. Typed' /\ TurnsPaired' /\ Aligned'
  BY DEF IInv, ToolReturns, Typed, TurnsPaired, Aligned, PromptEnd, transcript, turns
<1>2. Returned'
  BY DEF IInv, ToolReturns, Returned, Done, transcript, turns
<1> QED BY <1>1, <1>2 DEF IInv

\* A tool round either fits and pairs the turn, or ends the rollout.
LEMMA ProcessingStep == IInv /\ HandleProcessingTools => IInv'
<1> SUFFICES ASSUME IInv, HandleProcessingTools PROVE IInv'
  OBVIOUS
<1> USE DEF IInv
<1>0. /\ state = "PROCESSING_TOOLS" /\ UNCHANGED <<config, tool_calls, output>>
      /\ config.max_assistant_turns \in Nat /\ Len(response_mask) \in Nat
  BY LenProperties, ConfigType DEF Typed, HandleProcessingTools, round
<1>1. Returned'
  BY <1>0 DEF Returned, Done
<1>2. CASE Raises
  <2>1. state' = "FAILED" /\ UNCHANGED <<transcript, turns>>
    BY <1>2 DEF HandleProcessingTools
  <2>2. Typed' /\ TurnsPaired' /\ Aligned'
    BY <2>1, <1>0 DEF Typed, TurnsPaired, Aligned, PromptEnd, transcript, turns
  <2> QED BY <1>1, <2>2
<1>3. CASE ~Raises
  <2>1. PICK n \in 1..MaxTemplate :
          /\ UNCHANGED assistant_turns
          /\ \/ /\ Len(response_mask) + Truncated(n) >= ResponseLength
                /\ state' = "TERMINATED" /\ UNCHANGED <<transcript, user_turns>>
             \/ /\ ~(Len(response_mask) + Truncated(n) >= ResponseLength)
                /\ state' = "GENERATING"
                /\ prompt_ids' = prompt_ids \o Repeat("tool", Truncated(n))
                /\ response_mask' = response_mask \o Repeat(0, Truncated(n))
                /\ user_turns' = user_turns + 1
    BY <1>3 DEF HandleProcessingTools, AppendToolResponse, ToolLogprobs
  <2>2. Truncated(n) \in Nat
    BY TruncatedType, LengthsAssumption
  <2>3. CASE state' = "TERMINATED" /\ UNCHANGED <<transcript, user_turns>>
    <3>1. Typed' /\ TurnsPaired'
      BY <1>0, <2>1, <2>3 DEF Typed, TurnsPaired, transcript
    <3>2. Aligned'
      BY <1>0, <2>3 DEF Aligned, PromptEnd, transcript
    <3> QED BY <1>1, <3>1, <3>2
  <2>4. CASE /\ ~(Len(response_mask) + Truncated(n) >= ResponseLength)
             /\ state' = "GENERATING"
             /\ prompt_ids' = prompt_ids \o Repeat("tool", Truncated(n))
             /\ response_mask' = response_mask \o Repeat(0, Truncated(n))
             /\ user_turns' = user_turns + 1
    <3> DEFINE r == Truncated(n)
    <3>1. /\ "tool" \in Tags /\ 0 \in {0, 1} /\ state # "PENDING"
          /\ "tool" = (IF 0 = 1 THEN "llm" ELSE "tool")
      BY <1>0 DEF Tags
    <3>a. /\ r \in Nat
          /\ prompt_ids' = prompt_ids \o Repeat("tool", r)
          /\ response_mask' = response_mask \o Repeat(0, r)
      BY <2>2, <2>4
    <3> HIDE DEF r
    <3>b. /\ prompt_ids' \in Seq(Tags)
          /\ response_mask' \in Seq({0, 1})
          /\ Len(response_mask') = Len(response_mask) + r
          /\ PromptEnd' \in 1..PromptLength
          /\ \A i \in 1..PromptEnd' : prompt_ids'[i] = "prompt"
          /\ \A i \in 1..Len(response_mask') :
                prompt_ids'[PromptEnd' + i] =
                   IF response_mask'[i] = 1 THEN "llm" ELSE "tool"
      BY <3>1, <3>a, ExtendAligned
    <3>2. /\ prompt_ids' \in Seq(Tags)
          /\ response_mask' \in Seq({0, 1})
          /\ Len(response_mask') = Len(response_mask) + Truncated(n)
          /\ PromptEnd' \in 1..PromptLength
          /\ \A i \in 1..PromptEnd' : prompt_ids'[i] = "prompt"
          /\ \A i \in 1..Len(response_mask') :
                prompt_ids'[PromptEnd' + i] =
                   IF response_mask'[i] = 1 THEN "llm" ELSE "tool"
      BY <3>b DEF r
    <3>3. Typed'
      BY <1>0, <2>1, <2>4, <3>2 DEF Typed
    <3>4. TurnsPaired'
      BY <1>0, <2>1, <2>2, <2>4, <3>2, LengthsAssumption DEF TurnsPaired, Typed
    <3>5. Aligned'
      BY <2>4, <3>2 DEF Aligned
    <3> QED BY <1>1, <3>3, <3>4, <3>5
  <2> QED BY <2>1, <2>3, <2>4
<1> QED BY <1>2, <1>3

\* Splitting the transcript keeps the invariant and makes the output.
LEMMA FinalizeStep == IInv /\ Finalize => IInv'
<1> SUFFICES ASSUME IInv, Finalize PROVE IInv'
  OBVIOUS
<1>1. UNCHANGED <<config, state, transcript, round, kept, turns>>
  BY DEF Finalize
<1>2. Typed' /\ TurnsPaired' /\ Aligned'
  BY <1>1 DEF IInv, Typed, TurnsPaired, Aligned, PromptEnd, transcript, round, turns
<1>3. /\ state' = "TERMINATED"
      /\ output'.num_turns = user_turns' + assistant_turns' + 1
      /\ output'.prompt_ids =
            FirstOf(prompt_ids', Len(prompt_ids') - Len(response_mask'))
      /\ output'.response_ids =
            FirstOf(LastOf(prompt_ids', Len(response_mask')), ResponseLength)
      /\ output'.response_mask = FirstOf(response_mask', ResponseLength)
  BY <1>1 DEF Finalize, transcript, turns
<1>4. Returned'
  BY <1>3 DEF Returned
<1> QED BY <1>2, <1>4 DEF IInv

\* The invariant is inductive.
THEOREM Invariance == Spec => []IInv
<1>1. IInv /\ [Next]_vars => IInv'
  <2> SUFFICES ASSUME IInv, [Next]_vars PROVE IInv'
    OBVIOUS
  <2>1. CASE HandlePending
    BY <2>1, PendingStep
  <2>2. CASE HandleGenerating
    BY <2>2, GeneratingStep
  <2>3. CASE \E i \in 1..tool_calls, kind \in {"text", "unsupported"} : ToolReturns(i, kind)
    BY <2>3, ToolReturnsStep
  <2>4. CASE HandleProcessingTools
    BY <2>4, ProcessingStep
  <2>5. CASE Finalize
    BY <2>5, FinalizeStep
  <2>6. CASE UNCHANGED vars
    <3>1. Typed' /\ TurnsPaired' /\ Aligned'
      BY <2>6 DEF IInv, vars, Typed, TurnsPaired, Aligned, PromptEnd, transcript, round, turns
    <3>2. Returned'
      BY <2>6 DEF IInv, vars, Returned, Done, transcript, turns
    <3> QED BY <3>1, <3>2 DEF IInv
  <2> QED BY <2>1, <2>2, <2>3, <2>4, <2>5, <2>6 DEF Next
<1> QED BY <1>1, InitIInv, PTL DEF Spec

-----------------------------------------------------------------------------
\* With room for both lengths the server never has to refuse a completion:
\* the transcript is a truncated prompt and less than response_length tokens.
THEOREM AlwaysRoom == Spec => []RoomToGenerate
<1>1. IInv => RoomToGenerate
  <2> SUFFICES ASSUME IInv, state = "GENERATING",
                      config.max_model_len >= PromptLength + ResponseLength
               PROVE  Len(prompt_ids) < config.max_model_len
    BY DEF RoomToGenerate
  <2>1. Len(prompt_ids) \in Nat /\ Len(response_mask) \in Nat
        /\ config.max_model_len \in Nat
    BY LenProperties, ConfigType DEF IInv, Typed
  <2>2. Len(prompt_ids) - Len(response_mask) <= PromptLength
        /\ Len(response_mask) < ResponseLength
    BY LengthsAssumption DEF IInv, Aligned, TurnsPaired, PromptEnd
  <2> QED BY <2>1, <2>2, LengthsAssumption
<1> QED BY <1>1, Invariance, PTL

\* What the reward charges is the number of paired turns, which the turn limit
\* keeps within the budget.
THEOREM BudgetKept == Spec => []WithinCallBudget
<1>1. IInv => WithinCallBudget
  <2> SUFFICES ASSUME IInv, Done, config.max_tool_calls >= 1,
                      config.max_assistant_turns = Greater(2, config.max_tool_calls + 1)
               PROVE  NumToolCalls(output.num_turns) <= config.max_tool_calls
    BY DEF WithinCallBudget
  <2>1. config.max_tool_calls \in Nat
    BY ConfigType DEF IInv, Typed
  <2>2. config.max_assistant_turns = config.max_tool_calls + 1
    BY <2>1 DEF Greater
  <2>3. /\ user_turns \in Nat /\ assistant_turns = user_turns + 1
        /\ assistant_turns <= config.max_assistant_turns
        /\ output.num_turns = user_turns + assistant_turns + 1
    BY <2>1, <2>2 DEF IInv, Typed, TurnsPaired, Returned
  <2>4. output.num_turns = 2 * user_turns + 2
    BY <2>3
  <2>5. NumToolCalls(output.num_turns) = user_turns
    BY <2>3, <2>4 DEF NumToolCalls
  <2> QED BY <2>1, <2>2, <2>3, <2>5
<1> QED BY <1>1, Invariance, PTL

\* The response handed to training agrees with its mask, also when completions
\* reach the loop that were aborted before any token.
THEOREM ResponseMatchesMask == Spec => []ResponseAligned
<1>1. IInv => ResponseAligned
  <2> SUFFICES ASSUME IInv, Done, AbortReturns => output.response_mask # <<>>
               PROVE  ResponseAligned
    BY DEF ResponseAligned
  <2> DEFINE p == Len(prompt_ids)
             m == Len(response_mask)
             kept_len == Lesser(ResponseLength, m)
  <2>m. m > 0
    <3>1. CASE ~AbortReturns
      BY <3>1 DEF IInv, Aligned, Returned
    <3>2. CASE AbortReturns
      <4>1. FirstOf(response_mask, ResponseLength) # <<>>
        BY <3>2 DEF IInv, Returned
      <4>2. response_mask # <<>>
        BY <4>1, LengthsAssumption DEF FirstOf, Lesser
      <4> QED BY <4>2, EmptySeq DEF IInv, Typed
    <3> QED BY <3>1, <3>2
  <2>1. /\ p \in Nat /\ m \in Nat /\ m > 0
        /\ p - m \in 1..PromptLength
        /\ prompt_ids \in Seq(Tags) /\ response_mask \in Seq({0, 1})
    BY <2>m, LenProperties DEF IInv, Typed, Aligned, Returned, PromptEnd
  <2>2. /\ \A i \in 1..(p - m) : prompt_ids[i] = "prompt"
        /\ \A i \in 1..m : prompt_ids[p - m + i] =
                              IF response_mask[i] = 1 THEN "llm" ELSE "tool"
    BY DEF IInv, Aligned, PromptEnd
  <2>3. /\ output.prompt_ids = FirstOf(prompt_ids, p - m)
        /\ output.response_ids = FirstOf(LastOf(prompt_ids, m), ResponseLength)
        /\ output.response_mask = FirstOf(response_mask, ResponseLength)
    BY DEF IInv, Returned
  <2> HIDE DEF p, m
  <2>4. kept_len \in Nat /\ kept_len <= ResponseLength /\ kept_len <= m
    BY <2>1, LengthsAssumption DEF Lesser
  <2>5. /\ LastOf(prompt_ids, m) \in Seq(Tags)
        /\ Len(LastOf(prompt_ids, m)) = m
        /\ \A i \in 1..m : LastOf(prompt_ids, m)[i] = prompt_ids[p - m + i]
    <3>1. m <= Len(prompt_ids) /\ Len(prompt_ids) = p
      BY <2>1, LengthsAssumption DEF p
    <3> QED BY <2>1, <3>1, SliceProperties
  <2>6. /\ Len(output.response_ids) = kept_len
        /\ \A i \in 1..kept_len : output.response_ids[i] = LastOf(prompt_ids, m)[i]
    <3> DEFINE tail == LastOf(prompt_ids, m)
    <3>1. tail \in Seq(Tags) /\ Len(tail) = m /\ ResponseLength \in Nat
      BY <2>5, LengthsAssumption
    <3>2. output.response_ids = FirstOf(tail, ResponseLength)
      BY <2>3
    <3> HIDE DEF tail
    <3>3. /\ Len(FirstOf(tail, ResponseLength)) = Lesser(ResponseLength, Len(tail))
          /\ \A i \in 1..Lesser(ResponseLength, Len(tail)) :
                FirstOf(tail, ResponseLength)[i] = tail[i]
      BY <3>1, SliceProperties
    <3> QED BY <3>1, <3>2, <3>3 DEF tail
  <2>7. /\ Len(output.response_mask) = kept_len
        /\ \A i \in 1..kept_len : output.response_mask[i] = response_mask[i]
    <3> DEFINE Bits == {0, 1}
    <3>1. response_mask \in Seq(Bits) /\ Len(response_mask) = m
      BY <2>1 DEF m
    <3> HIDE DEF Bits
    <3>2. /\ Len(FirstOf(response_mask, ResponseLength)) =
                Lesser(ResponseLength, Len(response_mask))
          /\ \A i \in 1..Lesser(ResponseLength, Len(response_mask)) :
                FirstOf(response_mask, ResponseLength)[i] = response_mask[i]
      BY <3>1, SliceProperties, LengthsAssumption
    <3> QED BY <2>3, <3>1, <3>2
  <2>8. /\ Len(output.prompt_ids) = p - m
        /\ \A i \in 1..(p - m) : output.prompt_ids[i] = prompt_ids[i]
    <3>1. p - m \in Nat /\ Lesser(p - m, Len(prompt_ids)) = p - m
      BY <2>1, LengthsAssumption DEF Lesser, p
    <3> DEFINE n == p - m
    <3>2. n \in Nat /\ Lesser(n, Len(prompt_ids)) = n
          /\ output.prompt_ids = FirstOf(prompt_ids, n)
      BY <2>3, <3>1
    <3> HIDE DEF n
    <3>3. /\ Len(FirstOf(prompt_ids, n)) = n
          /\ \A i \in 1..n : FirstOf(prompt_ids, n)[i] = prompt_ids[i]
      BY <2>1, <3>2, SliceProperties
    <3> QED BY <3>2, <3>3 DEF n
  <2>9. \A i \in 1..kept_len :
           output.response_ids[i] = IF output.response_mask[i] = 1 THEN "llm" ELSE "tool"
    <3> TAKE i \in 1..kept_len
    <3>1. i \in 1..m
      BY <2>1, <2>4
    <3> QED BY <3>1, <2>2, <2>5, <2>6, <2>7
  <2> HIDE DEF kept_len
  <2> QED BY <2>1, <2>2, <2>4, <2>6, <2>7, <2>8, <2>9 DEF ResponseAligned
<1> QED BY <1>1, Invariance, PTL

-----------------------------------------------------------------------------
(* What the handlers do, without their quantifiers.                         *)

\* A completion fails for want of room, or extends the transcript and ends the
\* rollout, or has a token and starts a round of tool calls.
LEMMA GeneratingDoes ==
    ASSUME IInv, HandleGenerating
    PROVE  \/ /\ state' = "FAILED"
              /\ UNCHANGED <<config, transcript, round, kept, turns, output>>
           \/ \E n \in Nat :
                 /\ AppendCompletion(n)
                 /\ UNCHANGED <<config, kept, output, user_turns>>
                 /\ \/ /\ state' = "TERMINATED"
                       /\ \/ UNCHANGED round
                          \/ tool_calls' = 0 /\ finished' = <<>>
                    \/ /\ state' = "PROCESSING_TOOLS" /\ n > 0
                       /\ tool_calls' \in 1..MaxCalls
                       /\ tool_calls' <= config.max_parallel_calls
                       /\ finished' = <<>>
<1>1. CASE config.max_model_len <= Len(prompt_ids)
  BY <1>1 DEF HandleGenerating
<1>2. CASE ~(config.max_model_len <= Len(prompt_ids))
  <2> DEFINE room == config.max_model_len - Len(prompt_ids)
  <2>1. room \in Nat
    BY <1>2, LenProperties, ConfigType DEF IInv, Typed
  <2>2. PICK n \in Completions(room) :
          /\ AppendCompletion(n)
          /\ UNCHANGED user_turns
          /\ \/ state' = "TERMINATED" /\ UNCHANGED round
             \/ \E k \in 0..(IF n = 0 THEN 0 ELSE MaxCalls) :
                   /\ tool_calls' = Lesser(k, config.max_parallel_calls)
                   /\ finished' = <<>>
                   /\ state' = IF k = 0 THEN "TERMINATED" ELSE "PROCESSING_TOOLS"
    BY <1>2 DEF HandleGenerating
  <2>3. n \in Nat
    BY <2>1, CompletionsType
  <2>4. config.max_parallel_calls \in Nat \ {0}
    BY ConfigsAssumption DEF IInv, Typed
  <2>5. UNCHANGED <<config, kept, output>>
    BY DEF HandleGenerating
  <2>6. CASE state' = "TERMINATED" /\ UNCHANGED round
    BY <2>2, <2>3, <2>5, <2>6
  <2>7. ASSUME NEW k \in 0..(IF n = 0 THEN 0 ELSE MaxCalls),
               tool_calls' = Lesser(k, config.max_parallel_calls),
               finished' = <<>>,
               state' = IF k = 0 THEN "TERMINATED" ELSE "PROCESSING_TOOLS"
        PROVE  \/ state' = "TERMINATED" /\ tool_calls' = 0 /\ finished' = <<>>
               \/ /\ state' = "PROCESSING_TOOLS" /\ n > 0
                  /\ tool_calls' \in 1..MaxCalls
                  /\ tool_calls' <= config.max_parallel_calls
                  /\ finished' = <<>>
    <3>1. CASE k = 0
      BY <2>4, <2>7, <3>1 DEF Lesser
    <3>2. CASE k # 0
      BY <2>3, <2>4, <2>7, <3>2, LengthsAssumption DEF Lesser
    <3> QED BY <3>1, <3>2
  <2> QED BY <2>2, <2>3, <2>5, <2>6, <2>7
<1> QED BY <1>1, <1>2

\* A round raises, or keeps its messages and rewards and either ends the rollout
\* or appends its rendered responses, which fit.
LEMMA ProcessingDoes ==
    ASSUME IInv, HandleProcessingTools
    PROVE  /\ state = "PROCESSING_TOOLS"
           /\ UNCHANGED <<config, round, output, assistant_turns>>
           /\ \/ state' = "FAILED" /\ UNCHANGED <<transcript, kept, user_turns>>
              \/ /\ messages' = messages \o GatheredMessages
                 /\ tool_rewards' = tool_rewards + tool_calls
                 /\ \/ state' = "TERMINATED" /\ UNCHANGED <<transcript, user_turns>>
                    \/ \E n \in 1..PromptLength :
                          /\ state' = "GENERATING"
                          /\ Len(response_mask) + n < ResponseLength
                          /\ AppendToolResponse(n)
<1>1. state = "PROCESSING_TOOLS" /\ UNCHANGED <<config, round, output>>
  BY DEF HandleProcessingTools
<1>2. CASE Raises
  BY <1>1, <1>2 DEF HandleProcessingTools, turns
<1>3. CASE ~Raises
  <2>1. PICK n \in 1..MaxTemplate :
          /\ messages' = messages \o GatheredMessages
          /\ tool_rewards' = tool_rewards + tool_calls
          /\ UNCHANGED assistant_turns
          /\ \/ state' = "TERMINATED" /\ UNCHANGED <<transcript, user_turns>>
             \/ /\ ~(Len(response_mask) + Truncated(n) >= ResponseLength)
                /\ state' = "GENERATING"
                /\ AppendToolResponse(Truncated(n))
    BY <1>3 DEF HandleProcessingTools
  <2>2. Truncated(n) \in 1..PromptLength
    BY TruncatedType
  <2>3. Len(response_mask) \in Nat
    BY LenProperties DEF IInv, Typed
  <2>4. ~(Len(response_mask) + Truncated(n) >= ResponseLength) =>
           Len(response_mask) + Truncated(n) < ResponseLength
    BY <2>2, <2>3, LengthsAssumption
  <2> QED BY <1>1, <2>1, <2>2, <2>4
<1> QED BY <1>2, <1>3

-----------------------------------------------------------------------------
(* Types.                                                                   *)

Calls == [call : 1..MaxCalls, kind : {"text", "unsupported"}]

Outputs == [prompt_ids : Seq(Tags), response_ids : Seq(Tags),
            response_mask : Seq({0, 1}), response_logprobs : Seq({"sampled", "zero"}),
            num_turns : Nat]

\* A slice of a sequence is one over the same set.
LEMMA SliceTyped ==
    ASSUME NEW S, NEW s \in Seq(S), NEW n \in Nat
    PROVE  /\ FirstOf(s, n) \in Seq(S)
           /\ n <= Len(s) => LastOf(s, n) \in Seq(S)
<1>1. Len(s) \in Nat /\ \A i \in 1..Len(s) : s[i] \in S
  BY LenProperties, ElementOfSeq
<1> DEFINE m == Lesser(n, Len(s))
<1>2. m \in Nat /\ m <= Len(s)
  BY <1>1 DEF Lesser
<1> HIDE DEF m
<1>3. \A i \in 1..m : s[i] \in S
  BY <1>1, <1>2
<1>4. SubSeq(s, 1, m) \in Seq(S)
  BY <1>2, <1>3, SubSeqProperties
<1>5. FirstOf(s, n) \in Seq(S)
  BY <1>4 DEF FirstOf, m
<1>6. ASSUME n <= Len(s) PROVE LastOf(s, n) \in Seq(S)
  <2>1. CASE n = 0
    BY <2>1 DEF LastOf
  <2>2. CASE n # 0
    BY <1>6, <2>2, SliceProperties
  <2> QED BY <2>1, <2>2
<1> QED BY <1>5, <1>6

\* The messages of a round are well typed.
LEMMA MessagesTyped ==
    ASSUME NEW c \in 0..MaxCalls, tool_calls = c, assistant_turns \in Nat
    PROVE  /\ GatheredMessages \in Seq(Nat \X (1..MaxCalls))
           /\ Len(GatheredMessages) = c
           /\ \A i \in 1..c : GatheredMessages[i] = <<assistant_turns, i>>
<1>1. c \in Nat /\ \A i \in 1..c : <<assistant_turns, i>> \in Nat \X (1..MaxCalls)
  BY LengthsAssumption
<1> QED BY <1>1 DEF GatheredMessages

\* A completion or a tool response of any length keeps the transcript typed.
LEMMA AppendTyped ==
    ASSUME TypeOK, NEW n \in Nat
    PROVE  /\ AppendCompletion(n) =>
                 /\ prompt_ids' \in Seq(Tags) /\ response_mask' \in Seq({0, 1})
                 /\ response_logprobs' \in Seq({"sampled", "zero"})
                 /\ assistant_turns' \in Nat
           /\ AppendToolResponse(n) =>
                 /\ prompt_ids' \in Seq(Tags) /\ response_mask' \in Seq({0, 1})
                 /\ response_logprobs' \in Seq({"sampled", "zero"})
                 /\ user_turns' \in Nat
<1> DEFINE Bits == {0, 1}
           Logs == {"sampled", "zero"}
<1>1. /\ prompt_ids \in Seq(Tags) /\ response_mask \in Seq(Bits)
      /\ response_logprobs \in Seq(Logs)
      /\ assistant_turns \in Nat /\ user_turns \in Nat
  BY DEF TypeOK, Tags
<1>2. /\ "llm" \in Tags /\ "tool" \in Tags /\ 0 \in Bits /\ 1 \in Bits
      /\ "sampled" \in Logs /\ "zero" \in Logs
  BY DEF Tags
<1> HIDE DEF Bits, Logs
<1>3. /\ prompt_ids \o Repeat("llm", n) \in Seq(Tags)
      /\ prompt_ids \o Repeat("tool", n) \in Seq(Tags)
  BY <1>1, <1>2, ExtendProperties
<1>4. /\ response_mask \o Repeat(1, n) \in Seq(Bits)
      /\ response_mask \o Repeat(0, n) \in Seq(Bits)
  BY <1>1, <1>2, ExtendProperties
<1>5. /\ response_logprobs \o Repeat("sampled", n) \in Seq(Logs)
      /\ response_logprobs \o Repeat("zero", n) \in Seq(Logs)
  BY <1>1, <1>2, ExtendProperties
<1>6. AppendCompletion(n) =>
         /\ prompt_ids' \in Seq(Tags) /\ response_mask' \in Seq(Bits)
         /\ response_logprobs' \in Seq(Logs)
         /\ assistant_turns' \in Nat
  BY <1>1, <1>3, <1>4, <1>5 DEF AppendCompletion
<1>7. AppendToolResponse(n) =>
         /\ prompt_ids' \in Seq(Tags) /\ response_mask' \in Seq(Bits)
         /\ response_logprobs' \in Seq(Logs)
         /\ user_turns' \in Nat
  BY <1>1, <1>3, <1>4, <1>5 DEF AppendToolResponse, ToolLogprobs
<1> QED BY <1>6, <1>7 DEF Bits, Logs

\* Every step of a rollout keeps its variables typed.
LEMMA TypeKept ==
    ASSUME IInv, TypeOK, [Next]_vars
    PROVE  TypeOK'
<1>1. CASE HandlePending
  <2>1. PICK n \in 1..MaxTemplate : prompt_ids' = Repeat("prompt", Truncated(n))
    BY <1>1 DEF HandlePending
  <2>2. Truncated(n) \in Nat /\ "prompt" \in Tags
    BY TruncatedType, LengthsAssumption DEF Tags
  <2>3. prompt_ids' \in Seq(Tags)
    BY <2>1, <2>2, RepeatProperties
  <2> QED BY <1>1, <2>3 DEF HandlePending, TypeOK, Tags, round, kept, turns
<1>2. CASE HandleGenerating
  <2>1. CASE /\ state' = "FAILED"
             /\ UNCHANGED <<config, transcript, round, kept, turns, output>>
    BY <2>1 DEF TypeOK, transcript, round, kept, turns
  <2>2. ASSUME NEW n \in Nat, AppendCompletion(n),
               UNCHANGED <<config, kept, output, user_turns>>,
               state' \in {"TERMINATED", "PROCESSING_TOOLS"},
               \/ UNCHANGED round
               \/ tool_calls' \in 0..MaxCalls /\ finished' = <<>>
        PROVE  TypeOK'
    <3>1. /\ prompt_ids' \in Seq(Tags) /\ response_mask' \in Seq({0, 1})
          /\ response_logprobs' \in Seq({"sampled", "zero"})
          /\ assistant_turns' \in Nat
      BY <2>2, AppendTyped
    <3>2. /\ tool_calls' \in 0..MaxCalls
          /\ finished' \in Seq([call : 1..MaxCalls, kind : {"text", "unsupported"}])
      <4>1. finished \in Seq(Calls) /\ <<>> \in Seq(Calls) /\ tool_calls \in 0..MaxCalls
        BY EmptySeq DEF TypeOK, Calls
      <4> HIDE DEF Calls
      <4>2. tool_calls' \in 0..MaxCalls /\ finished' \in Seq(Calls)
        BY <2>2, <4>1 DEF round
      <4> QED BY <4>2 DEF Calls
    <3> QED BY <2>2, <3>1, <3>2 DEF TypeOK, Tags, kept
  <2>3. 1..MaxCalls \subseteq 0..MaxCalls /\ 0 \in 0..MaxCalls
    BY LengthsAssumption
  <2> QED BY <1>2, <2>1, <2>2, <2>3, GeneratingDoes
<1>3. CASE \E i \in 1..tool_calls, kind \in {"text", "unsupported"} : ToolReturns(i, kind)
  <2>1. PICK i \in 1..tool_calls, kind \in {"text", "unsupported"} : ToolReturns(i, kind)
    BY <1>3
  <2>2. i \in 1..MaxCalls
    BY LengthsAssumption DEF TypeOK
  <2>3. finished' = Append(finished, [call |-> i, kind |-> kind])
    BY <2>1 DEF ToolReturns
  <2>4. finished' \in Seq(Calls)
    <3>1. finished \in Seq(Calls) /\ [call |-> i, kind |-> kind] \in Calls
      BY <2>2 DEF TypeOK, Calls
    <3> HIDE DEF Calls
    <3> QED BY <2>3, <3>1, AppendProperties
  <2> QED BY <2>1, <2>4 DEF ToolReturns, TypeOK, Calls, transcript, kept, turns
<1>4. CASE HandleProcessingTools
  <2>1. UNCHANGED <<config, round, output, assistant_turns>>
    BY <1>4, ProcessingDoes
  <2>2. CASE state' = "FAILED" /\ UNCHANGED <<transcript, kept, user_turns>>
    BY <2>1, <2>2 DEF TypeOK, transcript, round, kept
  <2>3. ASSUME messages' = messages \o GatheredMessages,
               tool_rewards' = tool_rewards + tool_calls
        PROVE  messages' \in Seq(Nat \X (1..MaxCalls)) /\ tool_rewards' \in Nat
    <3> DEFINE M == Nat \X (1..MaxCalls)
    <3>1. messages \in Seq(M) /\ GatheredMessages \in Seq(M)
      BY MessagesTyped DEF TypeOK
    <3> HIDE DEF M
    <3>2. messages' \in Seq(M)
      BY <2>3, <3>1, ConcatProperties
    <3>3. tool_rewards' \in Nat
      BY <2>3, LengthsAssumption DEF TypeOK
    <3> QED BY <3>2, <3>3 DEF M
  <2>4. CASE /\ messages' = messages \o GatheredMessages
             /\ tool_rewards' = tool_rewards + tool_calls
             /\ state' = "TERMINATED" /\ UNCHANGED <<transcript, user_turns>>
    BY <2>1, <2>3, <2>4 DEF TypeOK, transcript, round
  <2>5. ASSUME messages' = messages \o GatheredMessages,
               tool_rewards' = tool_rewards + tool_calls,
               NEW n \in 1..PromptLength, state' = "GENERATING", AppendToolResponse(n)
        PROVE  TypeOK'
    <3>1. n \in Nat
      BY LengthsAssumption
    <3>2. /\ prompt_ids' \in Seq(Tags) /\ response_mask' \in Seq({0, 1})
          /\ response_logprobs' \in Seq({"sampled", "zero"})
          /\ user_turns' \in Nat
      BY <2>5, <3>1, AppendTyped
    <3> QED BY <2>1, <2>3, <2>5, <3>2 DEF TypeOK, Tags, round
  <2> QED BY <1>4, <2>2, <2>4, <2>5, ProcessingDoes
<1>5. CASE Finalize
  <2>0. UNCHANGED <<config, state, transcript, round, kept, turns>>
    BY <1>5 DEF Finalize
  <2> DEFINE Bits == {0, 1}
             Logs == {"sampled", "zero"}
             p == Len(prompt_ids)
             m == Len(response_mask)
             turn == user_turns + assistant_turns + 1
  <2>1. /\ prompt_ids \in Seq(Tags) /\ response_mask \in Seq(Bits)
        /\ response_logprobs \in Seq(Logs) /\ turn \in Nat
    BY DEF TypeOK, Tags
  <2>2. p \in Nat /\ m \in Nat /\ p - m \in Nat /\ m <= p /\ ResponseLength \in Nat
    BY <1>5, <2>1, LenProperties, LengthsAssumption DEF IInv, Aligned, PromptEnd, Finalize
  <2>3. output' = [prompt_ids |-> FirstOf(prompt_ids, p - m),
                   response_ids |-> FirstOf(LastOf(prompt_ids, m), ResponseLength),
                   response_mask |-> FirstOf(response_mask, ResponseLength),
                   response_logprobs |-> FirstOf(response_logprobs, ResponseLength),
                   num_turns |-> turn]
    BY <1>5 DEF Finalize
  <2>4. m <= Len(prompt_ids)
    BY <2>2
  <2> HIDE DEF Bits, Logs, p, m, turn
  <2>5. FirstOf(prompt_ids, p - m) \in Seq(Tags)
    BY <2>1, <2>2, SliceTyped
  <2>6. FirstOf(LastOf(prompt_ids, m), ResponseLength) \in Seq(Tags)
    <3>1. LastOf(prompt_ids, m) \in Seq(Tags)
      BY <2>1, <2>2, <2>4, SliceTyped
    <3> QED BY <2>2, <3>1, SliceTyped
  <2>7. /\ FirstOf(response_mask, ResponseLength) \in Seq(Bits)
        /\ FirstOf(response_logprobs, ResponseLength) \in Seq(Logs)
    BY <2>1, <2>2, SliceTyped
  <2>8. output' \in [prompt_ids : Seq(Tags), response_ids : Seq(Tags),
                     response_mask : Seq(Bits), response_logprobs : Seq(Logs),
                     num_turns : Nat]
    BY <2>1, <2>3, <2>5, <2>6, <2>7
  <2>9. output' \in Outputs
    BY <2>8 DEF Outputs, Bits, Logs
  <2> QED BY <2>0, <2>9 DEF TypeOK, Outputs, Tags, transcript, round, kept, turns
<1>6. CASE UNCHANGED vars
  BY <1>6 DEF TypeOK, vars, transcript, round, kept, turns
<1> QED BY <1>1, <1>2, <1>3, <1>4, <1>5, <1>6 DEF Next

\* tool_agent_loop.py:102-185. The state of a rollout is well typed for all
\* lengths and settings; calls and messages stay within the calls parsed.
THEOREM TypeCorrect == Spec => []TypeOK
<1>1. Init => TypeOK
  <2> SUFFICES ASSUME Init PROVE TypeOK
    OBVIOUS
  <2>1. \A S : <<>> \in Seq(S)
    BY EmptySeq
  <2>2. 0 \in 0..MaxCalls
    BY LengthsAssumption
  <2>3. output \in [prompt_ids : Seq({"prompt", "llm", "tool"}),
                    response_ids : Seq({"prompt", "llm", "tool"}),
                    response_mask : Seq({0, 1}),
                    response_logprobs : Seq({"sampled", "zero"}),
                    num_turns : Nat]
    BY <2>1 DEF Init, NoOutput
  <2> QED BY <2>1, <2>2, <2>3 DEF Init, TypeOK
<1>2. IInv /\ TypeOK /\ [Next]_vars => TypeOK'
  BY TypeKept
<1> QED BY <1>1, <1>2, Invariance, PTL DEF Spec

-----------------------------------------------------------------------------
(* Log-probabilities.                                                       *)

\* A log-probability for every entry of a mask, of the kind the entry says.
Paired(mask, logs) ==
    /\ Len(logs) = Len(mask)
    /\ \A i \in 1..Len(mask) : logs[i] = IF mask[i] = 1 THEN "sampled" ELSE "zero"

\* Each response token of the transcript has its log-probability, and a round
\* of tools follows a completion with a token, so that its responses are given
\* placeholders.
Recorded ==
    config.calculate_log_probs =>
    /\ state # "FAILED" => Paired(response_mask, response_logprobs)
    /\ state = "PROCESSING_TOOLS" => Len(response_mask) > 0
    /\ Done => /\ state = "TERMINATED"
               /\ output.response_mask = FirstOf(response_mask, ResponseLength)
               /\ output.response_logprobs = FirstOf(response_logprobs, ResponseLength)

\* Appending n mask entries and the n log-probabilities that go with them.
LEMMA ExtendPaired ==
    ASSUME NEW Bits, NEW Logs, NEW mask \in Seq(Bits), NEW logs \in Seq(Logs),
           NEW n \in Nat, NEW m \in Bits, NEW value \in Logs,
           (m = 1 /\ value = "sampled") \/ (m = 0 /\ value = "zero")
    PROVE  Paired(mask, logs) => Paired(mask \o Repeat(m, n), logs \o Repeat(value, n))
<1> DEFINE mask2 == mask \o Repeat(m, n)
           logs2 == logs \o Repeat(value, n)
<1>2. /\ Len(mask2) = Len(mask) + n
      /\ \A i \in 1..Len(mask) : mask2[i] = mask[i]
      /\ \A i \in 1..n : mask2[Len(mask) + i] = m
  BY ExtendProperties
<1>3. /\ Len(logs2) = Len(logs) + n
      /\ \A i \in 1..Len(logs) : logs2[i] = logs[i]
      /\ \A i \in 1..n : logs2[Len(logs) + i] = value
  BY ExtendProperties
<1>4. Len(mask) \in Nat
  BY LenProperties
<1> HIDE DEF mask2, logs2
<1>5. ASSUME Paired(mask, logs), NEW i \in 1..Len(mask2)
      PROVE  logs2[i] = IF mask2[i] = 1 THEN "sampled" ELSE "zero"
  <2>1. CASE i \in 1..Len(mask)
    BY <2>1, <1>2, <1>3, <1>5 DEF Paired
  <2>2. CASE i \notin 1..Len(mask)
    <3> DEFINE j == i - Len(mask)
    <3>1. j \in 1..n /\ i = Len(mask) + j
      BY <2>2, <1>2, <1>4
    <3> HIDE DEF j
    <3>2. mask2[i] = m /\ logs2[i] = value
      BY <3>1, <1>2, <1>3, <1>5 DEF Paired
    <3> QED BY <3>2
  <2> QED BY <2>1, <2>2
<1>6. Paired(mask, logs) => Paired(mask2, logs2)
  BY <1>2, <1>3, <1>5 DEF Paired
<1> QED BY <1>6 DEF mask2, logs2

\* A completion of sampled tokens, and a response of tool tokens.
LEMMA ExtendRecorded ==
    ASSUME TypeOK, NEW n \in Nat
    PROVE  /\ Paired(response_mask, response_logprobs) =>
                 Paired(response_mask \o Repeat(1, n), response_logprobs \o Repeat("sampled", n))
           /\ Paired(response_mask, response_logprobs) =>
                 Paired(response_mask \o Repeat(0, n), response_logprobs \o Repeat("zero", n))
           /\ Len(response_mask \o Repeat(1, n)) = Len(response_mask) + n
<1> DEFINE Bits == {0, 1}
           Logs == {"sampled", "zero"}
<1>1. /\ response_mask \in Seq(Bits) /\ response_logprobs \in Seq(Logs)
      /\ 0 \in Bits /\ 1 \in Bits /\ "sampled" \in Logs /\ "zero" \in Logs
  BY DEF TypeOK
<1> HIDE DEF Bits, Logs
<1>2. ASSUME NEW m \in Bits, NEW value \in Logs,
             (m = 1 /\ value = "sampled") \/ (m = 0 /\ value = "zero")
      PROVE  /\ Paired(response_mask, response_logprobs) =>
                   Paired(response_mask \o Repeat(m, n), response_logprobs \o Repeat(value, n))
             /\ Len(response_mask \o Repeat(m, n)) = Len(response_mask) + n
  <2> DEFINE mask == response_mask
             logs == response_logprobs
  <2>1. /\ mask \in Seq(Bits) /\ logs \in Seq(Logs)
        /\ n \in Nat /\ m \in Bits /\ value \in Logs
        /\ (m = 1 /\ value = "sampled") \/ (m = 0 /\ value = "zero")
    BY <1>1, <1>2
  <2> HIDE DEF mask, logs
  <2>2. Paired(mask, logs) => Paired(mask \o Repeat(m, n), logs \o Repeat(value, n))
    BY <2>1, ExtendPaired, Zenon
  <2>3. Len(mask \o Repeat(m, n)) = Len(mask) + n
    BY <2>1, ExtendProperties
  <2> QED BY <2>2, <2>3 DEF mask, logs
<1>3. /\ Paired(response_mask, response_logprobs) =>
            Paired(response_mask \o Repeat(1, n), response_logprobs \o Repeat("sampled", n))
      /\ Len(response_mask \o Repeat(1, n)) = Len(response_mask) + n
  BY <1>1, <1>2
<1>4. Paired(response_mask, response_logprobs) =>
            Paired(response_mask \o Repeat(0, n), response_logprobs \o Repeat("zero", n))
  BY <1>1, <1>2
<1> QED BY <1>3, <1>4

\* No handler parts a token from its log-probability.
LEMMA RecordedKept ==
    ASSUME IInv, TypeOK, Recorded, [Next]_vars
    PROVE  Recorded'
<1> SUFFICES ASSUME config'.calculate_log_probs
             PROVE  /\ state' # "FAILED" => Paired(response_mask', response_logprobs')
                    /\ state' = "PROCESSING_TOOLS" => Len(response_mask') > 0
                    /\ Done' =>
                          /\ state' = "TERMINATED"
                          /\ output'.response_mask = FirstOf(response_mask', ResponseLength)
                          /\ output'.response_logprobs = FirstOf(response_logprobs', ResponseLength)
  BY DEF Recorded
<1>0. config' = config
  BY DEF Next, HandlePending, HandleGenerating, ToolReturns, HandleProcessingTools,
         Finalize, vars
<1>1. /\ state # "FAILED" => Paired(response_mask, response_logprobs)
      /\ state = "PROCESSING_TOOLS" => Len(response_mask) > 0
      /\ Done => /\ state = "TERMINATED"
                 /\ output.response_mask = FirstOf(response_mask, ResponseLength)
                 /\ output.response_logprobs = FirstOf(response_logprobs, ResponseLength)
  BY <1>0 DEF Recorded
<1>2. Len(response_mask) \in Nat /\ Len(response_logprobs) \in Nat
  BY LenProperties DEF TypeOK
<1>3. CASE HandlePending
  <2>1. state = "PENDING" /\ UNCHANGED <<response_mask, response_logprobs, output>>
        /\ state' = "GENERATING"
    BY <1>3 DEF HandlePending
  <2> QED BY <2>1, <1>1 DEF Done
<1>4. CASE HandleGenerating
  <2>0. state = "GENERATING" /\ Paired(response_mask, response_logprobs) /\ ~Done
    BY <1>1, <1>4 DEF HandleGenerating
  <2>1. CASE /\ state' = "FAILED"
             /\ UNCHANGED <<config, transcript, round, kept, turns, output>>
    BY <2>0, <2>1 DEF Done
  <2>2. ASSUME NEW n \in Nat, AppendCompletion(n), output' = output,
               state' = "TERMINATED" \/ (state' = "PROCESSING_TOOLS" /\ n > 0)
        PROVE  /\ Paired(response_mask', response_logprobs')
               /\ state' = "PROCESSING_TOOLS" => Len(response_mask') > 0
               /\ ~Done'
    <3>1. /\ response_mask' = response_mask \o Repeat(1, n)
          /\ response_logprobs' = response_logprobs \o Repeat("sampled", n)
      BY <1>0, <2>2 DEF AppendCompletion
    <3>2. Paired(response_mask', response_logprobs') /\ Len(response_mask') = Len(response_mask) + n
      BY <2>0, <3>1, ExtendRecorded
    <3> QED BY <1>2, <2>0, <2>2, <3>2 DEF Done
  <2> QED BY <1>4, <2>1, <2>2, GeneratingDoes
<1>5. CASE \E i \in 1..tool_calls, kind \in {"text", "unsupported"} : ToolReturns(i, kind)
  BY <1>1, <1>5 DEF ToolReturns, transcript, Done
<1>6. CASE HandleProcessingTools
  <2>0. /\ state = "PROCESSING_TOOLS" /\ Paired(response_mask, response_logprobs) /\ ~Done /\ Len(response_mask) > 0
        /\ output' = output
    BY <1>1, <1>6, ProcessingDoes
  <2>1. CASE state' = "FAILED"
    BY <2>0, <2>1 DEF Done
  <2>2. CASE state' = "TERMINATED" /\ UNCHANGED transcript
    BY <2>0, <2>2 DEF Done, transcript
  <2>3. ASSUME NEW n \in 1..PromptLength, state' = "GENERATING", AppendToolResponse(n)
        PROVE  Paired(response_mask', response_logprobs') /\ ~Done'
    <3>1. response_logprobs # <<>>
      BY <1>2, <2>0 DEF Paired
    <3>2. /\ response_mask' = response_mask \o Repeat(0, n)
          /\ response_logprobs' = response_logprobs \o Repeat("zero", n)
          /\ n \in Nat
      BY <2>3, <3>1, LengthsAssumption DEF AppendToolResponse, ToolLogprobs
    <3>3. Paired(response_mask', response_logprobs')
      BY <2>0, <3>2, ExtendRecorded
    <3> QED BY <2>0, <3>3 DEF Done
  <2> QED BY <1>6, <2>1, <2>2, <2>3, ProcessingDoes
<1>7. CASE Finalize
  BY <1>1, <1>7 DEF Finalize, transcript
<1>8. CASE UNCHANGED vars
  BY <1>1, <1>8 DEF vars, transcript, Done
<1> QED BY <1>3, <1>4, <1>5, <1>6, <1>7, <1>8 DEF Next

\* tool_agent_loop.py:215-258, 362-377, 178-183. Every response token that is
\* returned has its own log-probability, however many rounds of tools came in
\* between, whether or not aborted completions reach the loop.
THEOREM LogprobsStay == Spec => []LogprobsAligned
<1>1. Init => Recorded
  BY EmptySeq DEF Init, Recorded, Paired, Done
<1>2. IInv /\ TypeOK /\ Recorded /\ [Next]_vars => Recorded'
  BY RecordedKept
<1>3. IInv /\ TypeOK /\ Recorded => LogprobsAligned
  <2> SUFFICES ASSUME TypeOK, Recorded, Done, config.calculate_log_probs
               PROVE  /\ Len(output.response_logprobs) = Len(output.response_mask)
                      /\ \A i \in 1..Len(output.response_mask) : output.response_logprobs[i] =
                            IF output.response_mask[i] = 1 THEN "sampled" ELSE "zero"
    BY DEF LogprobsAligned
  <2> DEFINE Bits == {0, 1}
             Logs == {"sampled", "zero"}
             m == Lesser(ResponseLength, Len(response_mask))
  <2>1. /\ response_mask \in Seq(Bits) /\ response_logprobs \in Seq(Logs)
        /\ ResponseLength \in Nat
    BY LengthsAssumption DEF TypeOK
  <2>2. /\ Len(response_logprobs) = Len(response_mask)
        /\ \A i \in 1..Len(response_mask) :
              response_logprobs[i] = IF response_mask[i] = 1 THEN "sampled" ELSE "zero"
        /\ output.response_mask = FirstOf(response_mask, ResponseLength)
        /\ output.response_logprobs = FirstOf(response_logprobs, ResponseLength)
    BY DEF Recorded, Paired
  <2>3. Len(response_mask) \in Nat /\ m \in Nat /\ m <= Len(response_mask)
    BY <2>1, LenProperties DEF Lesser
  <2>7. m = Lesser(ResponseLength, Len(response_logprobs))
    BY <2>2
  <2> HIDE DEF Bits, Logs
  <2>4. /\ Len(FirstOf(response_mask, ResponseLength)) = m
        /\ \A i \in 1..m : FirstOf(response_mask, ResponseLength)[i] = response_mask[i]
    BY <2>1, SliceProperties
  <2>5. /\ Len(FirstOf(response_logprobs, ResponseLength)) = m
        /\ \A i \in 1..m : FirstOf(response_logprobs, ResponseLength)[i] = response_logprobs[i]
    BY <2>1, <2>2, <2>7, SliceProperties
  <2> HIDE DEF m
  <2>6. \A i \in 1..m : i \in 1..Len(response_mask)
    BY <2>3
  <2> QED BY <2>2, <2>4, <2>5, <2>6
<1> QED BY <1>1, <1>2, <1>3, Invariance, TypeCorrect, PTL DEF Spec

-----------------------------------------------------------------------------
(* The order of the messages.                                               *)

\* A message of an earlier round, or of an earlier call of the same round.
Before(a, b) == a[1] < b[1] \/ (a[1] = b[1] /\ a[2] < b[2])

Ascending(s) == \A i, j \in 1..Len(s) : i < j => Before(s[i], s[j])

\* No message is of a round after turn, and every round up to it has one.
RoundsUpTo(s, turn) == \A i \in 1..Len(s) : s[i][1] <= turn
EachRound(s, turn) == \A t \in 1..turn : \E i \in 1..Len(s) : s[i][1] = t

\* The round that is being processed is one after the last that was kept.
InOrder ==
    /\ state = "PROCESSING_TOOLS" => tool_calls > 0
    /\ state # "TERMINATED" => RoundsUpTo(messages, user_turns)
    /\ state = "TERMINATED" => RoundsUpTo(messages, user_turns + 1)
    /\ Ascending(messages)
    /\ EachRound(messages, user_turns)

\* Rounds are numbered.
LEMMA RoundNumbers == TypeOK => \A i \in 1..Len(messages) : messages[i][1] \in Nat
<1> SUFFICES ASSUME TypeOK PROVE \A i \in 1..Len(messages) : messages[i][1] \in Nat
  OBVIOUS
<1> DEFINE Pairs == Nat \X (1..MaxCalls)
<1>1. messages \in Seq(Pairs) /\ \A x \in Pairs : x[1] \in Nat
  BY DEF TypeOK
<1> HIDE DEF Pairs
<1> QED BY <1>1, ElementOfSeq

\* No round after n + 1, when there is none after n.
LEMMA RoundsRelaxed ==
    ASSUME NEW s, NEW n \in Nat, \A i \in 1..Len(s) : s[i][1] \in Int
    PROVE  RoundsUpTo(s, n) => RoundsUpTo(s, n + 1)
BY DEF RoundsUpTo

\* When each round up to n + 1 is there, each round up to n is.
LEMMA RoundsFewer ==
    ASSUME NEW s, NEW n \in Nat
    PROVE  EachRound(s, n + 1) => EachRound(s, n)
BY DEF EachRound

\* The messages of one round, at the end of those of the rounds before it.
LEMMA AppendRound ==
    ASSUME TypeOK, Ascending(messages), RoundsUpTo(messages, user_turns),
           EachRound(messages, user_turns),
           tool_calls > 0, assistant_turns = user_turns + 1
    PROVE  /\ Ascending(messages \o GatheredMessages)
           /\ RoundsUpTo(messages \o GatheredMessages, user_turns + 1)
           /\ EachRound(messages \o GatheredMessages, user_turns + 1)
<1> DEFINE Pairs == Nat \X (1..MaxCalls)
           long == messages \o GatheredMessages
           old == Len(messages)
<1>1. /\ messages \in Seq(Pairs) /\ user_turns \in Nat /\ tool_calls \in Nat
      /\ tool_calls \in 0..MaxCalls /\ assistant_turns \in Nat /\ MaxCalls \in Nat
  BY LengthsAssumption DEF TypeOK
<1>2. \A i \in 1..tool_calls : <<assistant_turns, i>> \in Pairs
  BY <1>1
<1> HIDE DEF Pairs
<1>3. /\ GatheredMessages \in Seq(Pairs) /\ Len(GatheredMessages) = tool_calls
      /\ \A i \in 1..tool_calls : GatheredMessages[i] = <<assistant_turns, i>>
  BY <1>1, <1>2 DEF GatheredMessages
<1>4. /\ Len(long) = old + tool_calls
      /\ \A i \in 1..old + tool_calls :
            long[i] = IF i <= old THEN messages[i] ELSE GatheredMessages[i - old]
  BY <1>1, <1>3, ConcatProperties
<1>5. old \in Nat
  BY <1>1, LenProperties
<1> HIDE DEF long, old
<1>6. ASSUME NEW i \in 1..Len(long)
      PROVE  \/ i \in 1..old /\ long[i] = messages[i] /\ long[i][1] <= user_turns
             \/ i > old /\ long[i][1] = user_turns + 1 /\ long[i][2] = i - old
  <2>1. CASE i <= old
    BY <2>1, <1>4, <1>5 DEF RoundsUpTo, old
  <2>2. CASE i > old
    <3>1. i - old \in 1..tool_calls
      BY <2>2, <1>1, <1>4, <1>5
    <3>2. long[i] = <<assistant_turns, i - old>>
      BY <2>2, <3>1, <1>1, <1>3, <1>4, <1>5
    <3> QED BY <2>2, <3>2
  <2> QED BY <2>1, <2>2, <1>5
<1>7. \A i \in 1..old : messages[i][1] \in Nat
  BY <1>1, ElementOfSeq DEF Pairs, old
<1>8. Ascending(long)
  <2> SUFFICES ASSUME NEW i \in 1..Len(long), NEW j \in 1..Len(long), i < j
               PROVE  Before(long[i], long[j])
    BY DEF Ascending
  <2>1. CASE j <= old
    BY <2>1, <1>4, <1>5, <1>6 DEF Ascending, old
  <2>2. CASE j > old /\ i <= old
    BY <2>2, <1>1, <1>5, <1>6, <1>7 DEF Before
  <2>3. CASE j > old /\ i > old
    BY <2>3, <1>4, <1>5, <1>6 DEF Before
  <2> QED BY <2>1, <2>2, <2>3, <1>4, <1>5
<1>9. RoundsUpTo(long, user_turns + 1)
  BY <1>1, <1>5, <1>6, <1>7 DEF RoundsUpTo
<1>10. EachRound(long, user_turns + 1)
  <2> SUFFICES ASSUME NEW t \in 1..(user_turns + 1)
               PROVE  \E i \in 1..Len(long) : long[i][1] = t
    BY DEF EachRound
  <2>1. CASE t \in 1..user_turns
    <3>1. PICK i \in 1..old : messages[i][1] = t
      BY <2>1 DEF EachRound, old
    <3>2. i \in 1..Len(long) /\ long[i] = messages[i]
      BY <1>1, <1>4, <1>5
    <3> QED BY <3>1, <3>2
  <2>2. CASE t = user_turns + 1
    <3>1. old + 1 \in 1..Len(long) /\ ~(old + 1 \in 1..old)
      BY <1>1, <1>4, <1>5
    <3> QED BY <2>2, <3>1, <1>6
  <2> QED BY <2>1, <2>2, <1>1
<1> QED BY <1>8, <1>9, <1>10 DEF long

\* Only a round of tools touches the messages, and it appends to them.
LEMMA OrderKept ==
    ASSUME IInv, TypeOK, InOrder, [Next]_vars
    PROVE  InOrder'
<1>1. CASE HandlePending
  BY <1>1 DEF HandlePending, InOrder, round, kept, turns
<1>2. CASE HandleGenerating
  <2>0. state = "GENERATING"
    BY <1>2 DEF HandleGenerating
  <2>1. CASE /\ state' = "FAILED"
             /\ UNCHANGED <<config, transcript, round, kept, turns, output>>
    BY <2>0, <2>1 DEF InOrder, kept, turns
  <2>2. CASE /\ state' \in {"TERMINATED", "PROCESSING_TOOLS"}
             /\ UNCHANGED <<kept, user_turns>>
             /\ state' = "PROCESSING_TOOLS" => tool_calls' \in 1..MaxCalls
    <3>1. /\ UNCHANGED <<messages, user_turns>> /\ user_turns \in Nat
          /\ state' = "PROCESSING_TOOLS" => tool_calls' > 0
      BY <2>2, LengthsAssumption DEF kept, TypeOK
    <3>2. \A i \in 1..Len(messages) : messages[i][1] \in Int
      BY RoundNumbers
    <3>3. RoundsUpTo(messages, user_turns) => RoundsUpTo(messages, user_turns + 1)
      BY <3>1, <3>2, RoundsRelaxed
    <3>4. /\ RoundsUpTo(messages, user_turns) /\ Ascending(messages)
          /\ EachRound(messages, user_turns)
      BY <2>0 DEF InOrder
    <3>5. /\ RoundsUpTo(messages', user_turns') /\ Ascending(messages')
          /\ EachRound(messages', user_turns') /\ RoundsUpTo(messages', user_turns' + 1)
      BY <3>1, <3>3, <3>4
    <3> QED BY <3>1, <3>5 DEF InOrder
  <2> QED BY <1>2, <2>1, <2>2, GeneratingDoes
<1>3. CASE \E i \in 1..tool_calls, kind \in {"text", "unsupported"} : ToolReturns(i, kind)
  BY <1>3 DEF ToolReturns, InOrder, kept, turns
<1>4. CASE HandleProcessingTools
  <2>0. /\ state = "PROCESSING_TOOLS" /\ tool_calls > 0
        /\ RoundsUpTo(messages, user_turns) /\ Ascending(messages)
        /\ EachRound(messages, user_turns)
        /\ assistant_turns = user_turns + 1
    BY <1>4, ProcessingDoes DEF InOrder, IInv, TurnsPaired
  <2>1. CASE state' = "FAILED" /\ UNCHANGED <<transcript, kept, user_turns>>
    BY <2>0, <2>1 DEF InOrder, kept
  <2>2. CASE /\ messages' = messages \o GatheredMessages
             /\ state' = "TERMINATED" /\ UNCHANGED user_turns
    <3>1. /\ Ascending(messages') /\ RoundsUpTo(messages', user_turns + 1)
          /\ EachRound(messages', user_turns + 1)
      BY <2>0, <2>2, AppendRound
    <3>2. EachRound(messages', user_turns)
      BY <3>1, RoundsFewer DEF TypeOK
    <3> QED BY <2>2, <3>1, <3>2 DEF InOrder
  <2>3. CASE /\ messages' = messages \o GatheredMessages
             /\ state' = "GENERATING" /\ user_turns' = user_turns + 1
    <3>1. /\ Ascending(messages') /\ RoundsUpTo(messages', user_turns + 1)
          /\ EachRound(messages', user_turns + 1)
      BY <2>0, <2>3, AppendRound
    <3> QED BY <2>3, <3>1 DEF InOrder
  <2> QED BY <1>4, <2>1, <2>2, <2>3, ProcessingDoes DEF AppendToolResponse
<1>5. CASE Finalize
  BY <1>5 DEF Finalize, InOrder, round, kept, turns
<1>6. CASE UNCHANGED vars
  BY <1>6 DEF vars, InOrder, round, kept, turns
<1> QED BY <1>1, <1>2, <1>3, <1>4, <1>5, <1>6 DEF Next

\* tool_agent_loop.py:279-344. The conversation keeps one message per call in
\* the order of the calls, each round up to user_turns is there, and only a
\* terminated rollout has a round the model was not shown.
THEOREM OrderOfCalls == Spec => []MessagesInCallOrder
<1>1. Init => InOrder
  <2> SUFFICES ASSUME Init PROVE InOrder
    OBVIOUS
  <2>1. Len(messages) = 0 /\ user_turns = 0 /\ state = "PENDING"
    BY EmptySeq DEF Init
  <2> QED BY <2>1 DEF InOrder, RoundsUpTo, EachRound, Ascending
<1>2. IInv /\ TypeOK /\ InOrder /\ [Next]_vars => InOrder'
  BY OrderKept
<1>3. TypeOK /\ InOrder => MessagesInCallOrder
  <2> SUFFICES ASSUME TypeOK, InOrder PROVE MessagesInCallOrder
    OBVIOUS
  <2>1. \A i \in 1..Len(messages) : messages[i][1] \in Nat
    BY RoundNumbers
  <2>2. user_turns \in Nat
    BY DEF TypeOK
  <2>3. ASSUME NEW i \in 1..Len(messages), messages[i][1] > user_turns
        PROVE  messages[i][1] = user_turns + 1 /\ state = "TERMINATED"
    BY <2>1, <2>2, <2>3 DEF InOrder, RoundsUpTo
  <2> QED BY <2>3 DEF InOrder, Ascending, Before, EachRound, MessagesInCallOrder
<1> QED BY <1>1, <1>2, <1>3, Invariance, TypeCorrect, PTL DEF Spec

-----------------------------------------------------------------------------
(* What the reward charges.                                                 *)

\* Between one and max_parallel_calls rewards for each of n rounds.
Paid(rewards, n, parallel) == n <= rewards /\ rewards <= n * parallel

\* One block of tool tokens for each turn that was shown, before the cut at
\* response_length; one more round may have been paid for when the rollout ends.
Charged ==
    /\ Cardinality(ToolBlocks(response_mask)) = user_turns
    /\ \A i \in 1..Len(response_mask) : response_mask[i] = 0 => i < ResponseLength
    /\ state = "PROCESSING_TOOLS" =>
          /\ Len(response_mask) > 0 /\ response_mask[Len(response_mask)] = 1
          /\ tool_calls \in 1..config.max_parallel_calls
    /\ \/ Paid(tool_rewards, user_turns, config.max_parallel_calls)
       \/ state = "TERMINATED" /\ Paid(tool_rewards, user_turns + 1, config.max_parallel_calls)

\* One more round is paid for one to parallel times.
LEMMA PaidRound ==
    ASSUME NEW r \in Nat, NEW u \in Nat, NEW parallel \in Nat \ {0},
           NEW c \in 1..parallel, Paid(r, u, parallel)
    PROVE  Paid(r + c, u + 1, parallel)
<1>1. (u + 1) * parallel = u * parallel + parallel
  OBVIOUS
<1> DEFINE p == u * parallel
<1>2. p \in Nat /\ r <= p /\ u <= r
  BY DEF Paid
<1> HIDE DEF p
<1>3. r + c <= p + parallel /\ u + 1 <= r + c
  BY <1>2
<1> QED BY <1>1, <1>3 DEF p, Paid

\* Tokens of a completion start no block.
LEMMA BlocksOfCompletion ==
    ASSUME NEW mask \in Seq({0, 1}), NEW n \in Nat
    PROVE  /\ ToolBlocks(mask \o Repeat(1, n)) = ToolBlocks(mask)
           /\ Len(mask \o Repeat(1, n)) = Len(mask) + n
           /\ \A i \in 1..Len(mask) : (mask \o Repeat(1, n))[i] = mask[i]
           /\ \A i \in 1..n : (mask \o Repeat(1, n))[Len(mask) + i] = 1
<1> DEFINE Bits == {0, 1}
           long == mask \o Repeat(1, n)
           k == Len(mask)
<1>1. mask \in Seq(Bits) /\ 1 \in Bits
  OBVIOUS
<1> HIDE DEF Bits
<1>2. /\ Len(long) = k + n
      /\ \A i \in 1..k : long[i] = mask[i]
      /\ \A i \in 1..n : long[k + i] = 1
  BY <1>1, ExtendProperties
<1>3. k \in Nat
  BY <1>1, LenProperties
<1> HIDE DEF long, k
<1>4. \A i \in 1..(k + n) : long[i] = 0 => i \in 1..k
  <2> TAKE i \in 1..(k + n)
  <2>1. CASE i > k
    <3>1. i - k \in 1..n /\ k + (i - k) = i
      BY <2>1, <1>3
    <3>2. long[k + (i - k)] = 1
      BY <3>1, <1>2
    <3> QED BY <3>1, <3>2
  <2> QED BY <2>1, <1>3
<1>5. \A i \in 1..k : i \in ToolBlocks(long) <=> i \in ToolBlocks(mask)
  <2> TAKE i \in 1..k
  <2>1. i = 1 \/ i - 1 \in 1..k
    BY <1>3
  <2>2. i \in 1..(k + n) /\ long[i] = mask[i] /\ (i = 1 \/ long[i - 1] = mask[i - 1])
    BY <2>1, <1>2, <1>3
  <2> QED BY <2>2, <1>2 DEF ToolBlocks, k
<1>6. ToolBlocks(long) \subseteq 1..k /\ ToolBlocks(mask) \subseteq 1..k
  BY <1>2, <1>4 DEF ToolBlocks, k
<1>7. ToolBlocks(long) = ToolBlocks(mask)
  BY <1>5, <1>6
<1> QED BY <1>2, <1>7 DEF long, k

\* Tokens of a response, after one of a completion, are a block.
LEMMA BlocksOfResponse ==
    ASSUME NEW mask \in Seq({0, 1}), NEW n \in Nat \ {0},
           Len(mask) > 0, mask[Len(mask)] = 1
    PROVE  /\ ToolBlocks(mask \o Repeat(0, n)) = ToolBlocks(mask) \union {Len(mask) + 1}
           /\ Len(mask \o Repeat(0, n)) = Len(mask) + n
<1> DEFINE Bits == {0, 1}
           long == mask \o Repeat(0, n)
           k == Len(mask)
<1>1. mask \in Seq(Bits) /\ 0 \in Bits /\ n \in Nat
  OBVIOUS
<1> HIDE DEF Bits
<1>2. /\ Len(long) = k + n
      /\ \A i \in 1..k : long[i] = mask[i]
      /\ \A i \in 1..n : long[k + i] = 0
  BY <1>1, ExtendProperties
<1>3. k \in Nat /\ k > 0 /\ mask[k] = 1
  BY <1>1, LenProperties
<1> HIDE DEF long, k
<1>4. \A i \in 1..(k + n) : i > k => long[i] = 0
  <2> TAKE i \in 1..(k + n)
  <2> HAVE i > k
  <2>1. i - k \in 1..n /\ k + (i - k) = i
    BY <1>3
  <2>2. long[k + (i - k)] = 0
    BY <2>1, <1>2
  <2> QED BY <2>1, <2>2
<1>5. \A i \in 1..k : i \in ToolBlocks(long) <=> i \in ToolBlocks(mask)
  <2> TAKE i \in 1..k
  <2>1. i = 1 \/ i - 1 \in 1..k
    BY <1>3
  <2>2. i \in 1..(k + n) /\ long[i] = mask[i] /\ (i = 1 \/ long[i - 1] = mask[i - 1])
    BY <2>1, <1>2, <1>3
  <2> QED BY <2>2, <1>2 DEF ToolBlocks, k
<1>6. k + 1 \in ToolBlocks(long)
  <2>1. k + 1 \in 1..(k + n) /\ k + 1 > k /\ (k + 1) - 1 = k /\ k \in 1..k
    BY <1>1, <1>3
  <2>2. long[k + 1] = 0 /\ long[(k + 1) - 1] = 1
    BY <2>1, <1>2, <1>3, <1>4
  <2> QED BY <2>1, <2>2, <1>2 DEF ToolBlocks
<1>7. \A i \in 1..(k + n) : i > k + 1 => i \notin ToolBlocks(long)
  <2> TAKE i \in 1..(k + n)
  <2> HAVE i > k + 1
  <2>1. i - 1 \in 1..(k + n) /\ i - 1 > k /\ i # 1
    BY <1>3
  <2>2. long[i - 1] = 0
    BY <2>1, <1>4
  <2> QED BY <2>1, <2>2 DEF ToolBlocks
<1>8. ToolBlocks(long) \subseteq 1..(k + n) /\ ToolBlocks(mask) \subseteq 1..k
  BY <1>2 DEF ToolBlocks, k
<1>9. \A i \in 1..(k + n) : i \in 1..k \/ i = k + 1 \/ i > k + 1
  BY <1>3
<1>10. ToolBlocks(long) = ToolBlocks(mask) \union {k + 1}
  BY <1>5, <1>6, <1>7, <1>8, <1>9
<1> QED BY <1>2, <1>10 DEF long, k

\* The cut at response_length removes no block when none reaches it.
LEMMA BlocksOfSlice ==
    ASSUME NEW mask \in Seq({0, 1}), NEW n \in Nat,
           \A i \in 1..Len(mask) : mask[i] = 0 => i < n
    PROVE  ToolBlocks(FirstOf(mask, n)) = ToolBlocks(mask)
<1> DEFINE Bits == {0, 1}
           cut == FirstOf(mask, n)
           k == Len(mask)
           m == Lesser(n, Len(mask))
<1>1. mask \in Seq(Bits)
  OBVIOUS
<1> HIDE DEF Bits
<1>2. Len(cut) = m /\ \A i \in 1..m : cut[i] = mask[i]
  BY <1>1, SliceProperties
<1>3. k \in Nat /\ m \in Nat /\ m <= k /\ \A i \in 1..k : mask[i] = 0 => i \in 1..m
  BY <1>1, LenProperties DEF Lesser
<1> HIDE DEF cut, k, m
<1>4. \A i \in 1..m : i \in ToolBlocks(cut) <=> i \in ToolBlocks(mask)
  <2> TAKE i \in 1..m
  <2>1. i = 1 \/ i - 1 \in 1..m
    BY <1>3
  <2>2. i \in 1..k /\ cut[i] = mask[i] /\ (i = 1 \/ cut[i - 1] = mask[i - 1])
    BY <2>1, <1>2, <1>3
  <2> QED BY <2>2, <1>2 DEF ToolBlocks, k
<1>5. ToolBlocks(cut) \subseteq 1..m /\ ToolBlocks(mask) \subseteq 1..m
  BY <1>2, <1>3 DEF ToolBlocks, k
<1> QED BY <1>4, <1>5 DEF cut

\* A response adds one to the blocks there are.
LEMMA OneMoreBlock ==
    ASSUME NEW mask \in Seq({0, 1}), NEW n \in Nat \ {0},
           Len(mask) > 0, mask[Len(mask)] = 1
    PROVE  Cardinality(ToolBlocks(mask \o Repeat(0, n))) = Cardinality(ToolBlocks(mask)) + 1
<1>1. Len(mask) \in Nat
  BY LenProperties
<1>2. ToolBlocks(mask) \subseteq 1..Len(mask) /\ IsFiniteSet(1..Len(mask))
  BY <1>1, FS_Interval DEF ToolBlocks
<1>3. IsFiniteSet(ToolBlocks(mask))
  BY <1>2, FS_Subset
<1>4. Len(mask) + 1 \notin ToolBlocks(mask)
  BY <1>1, <1>2
<1>5. ToolBlocks(mask \o Repeat(0, n)) = ToolBlocks(mask) \union {Len(mask) + 1}
  BY BlocksOfResponse
<1> QED BY <1>3, <1>4, <1>5, FS_AddElement

\* No handler charges for a round that is not there, or loses one that is.
LEMMA ChargedKept ==
    ASSUME IInv, TypeOK, Charged, [Next]_vars
    PROVE  Charged'
<1> DEFINE parallel == config.max_parallel_calls
<1>0. /\ parallel \in Nat \ {0} /\ response_mask \in Seq({0, 1})
      /\ user_turns \in Nat /\ tool_rewards \in Nat /\ Len(response_mask) \in Nat
      /\ ResponseLength \in Nat
  BY ConfigsAssumption, LengthsAssumption, LenProperties DEF TypeOK
<1>1. CASE HandlePending
  BY <1>1 DEF HandlePending, Charged, round, kept, turns
<1>2. CASE HandleGenerating
  <2>0. state = "GENERATING"
    BY <1>2 DEF HandleGenerating
  <2>1. CASE /\ state' = "FAILED"
             /\ UNCHANGED <<config, transcript, round, kept, turns, output>>
    BY <2>0, <2>1 DEF Charged, transcript, kept, turns
  <2>2. ASSUME NEW n \in Nat, AppendCompletion(n), UNCHANGED <<config, kept, output, user_turns>>,
               \/ state' = "TERMINATED"
               \/ /\ state' = "PROCESSING_TOOLS" /\ n > 0
                  /\ tool_calls' \in 1..MaxCalls /\ tool_calls' <= parallel
        PROVE  Charged'
    <3>1. response_mask' = response_mask \o Repeat(1, n)
      BY <2>2 DEF AppendCompletion
    <3>2. /\ ToolBlocks(response_mask') = ToolBlocks(response_mask)
          /\ Len(response_mask') = Len(response_mask) + n
          /\ \A i \in 1..Len(response_mask) : response_mask'[i] = response_mask[i]
          /\ \A i \in 1..n : response_mask'[Len(response_mask) + i] = 1
      BY <1>0, <3>1, BlocksOfCompletion
    <3>3. \A i \in 1..Len(response_mask') : response_mask'[i] = 0 => i < ResponseLength
      <4> TAKE i \in 1..Len(response_mask')
      <4>1. CASE i \in 1..Len(response_mask)
        BY <4>1, <3>2 DEF Charged
      <4>2. CASE i \notin 1..Len(response_mask)
        <5>1. i - Len(response_mask) \in 1..n /\ Len(response_mask) + (i - Len(response_mask)) = i
          BY <1>0, <4>2, <3>2
        <5>2. response_mask'[Len(response_mask) + (i - Len(response_mask))] = 1
          BY <5>1, <3>2
        <5> QED BY <5>1, <5>2
      <4> QED BY <4>1, <4>2
    <3>4. /\ state' = "PROCESSING_TOOLS" =>
             /\ Len(response_mask') > 0 /\ response_mask'[Len(response_mask')] = 1
             /\ tool_calls' \in 1..config'.max_parallel_calls
      BY <1>0, <2>2, <3>2, LengthsAssumption
    <3>5. Paid(tool_rewards', user_turns', config'.max_parallel_calls)
      BY <2>0, <2>2 DEF Charged, kept
    <3>6. Cardinality(ToolBlocks(response_mask')) = user_turns'
      BY <2>2, <3>2 DEF Charged
    <3> QED BY <3>3, <3>4, <3>5, <3>6 DEF Charged
  <2> QED BY <1>2, <2>1, <2>2, GeneratingDoes
<1>3. CASE \E i \in 1..tool_calls, kind \in {"text", "unsupported"} : ToolReturns(i, kind)
  BY <1>3 DEF ToolReturns, Charged, transcript, kept, turns
<1>4. CASE HandleProcessingTools
  <2>0. /\ state = "PROCESSING_TOOLS" /\ UNCHANGED config
        /\ tool_calls \in 1..parallel
        /\ Len(response_mask) > 0 /\ response_mask[Len(response_mask)] = 1
        /\ Paid(tool_rewards, user_turns, parallel)
        /\ Cardinality(ToolBlocks(response_mask)) = user_turns
        /\ \A i \in 1..Len(response_mask) : response_mask[i] = 0 => i < ResponseLength
    BY <1>4, ProcessingDoes DEF Charged
  <2>1. Paid(tool_rewards + tool_calls, user_turns + 1, parallel)
    BY <1>0, <2>0, PaidRound
  <2>2. CASE state' = "FAILED" /\ UNCHANGED <<transcript, kept, user_turns>>
    BY <2>0, <2>2 DEF Charged, transcript, kept
  <2>3. CASE /\ tool_rewards' = tool_rewards + tool_calls
             /\ state' = "TERMINATED" /\ UNCHANGED <<transcript, user_turns>>
    BY <2>0, <2>1, <2>3 DEF Charged, transcript
  <2>4. ASSUME tool_rewards' = tool_rewards + tool_calls,
               NEW n \in 1..PromptLength, state' = "GENERATING",
               Len(response_mask) + n < ResponseLength, AppendToolResponse(n)
        PROVE  Charged'
    <3>1. /\ response_mask' = response_mask \o Repeat(0, n) /\ user_turns' = user_turns + 1
          /\ n \in Nat \ {0}
      BY <2>4, LengthsAssumption DEF AppendToolResponse
    <3>2. Cardinality(ToolBlocks(response_mask')) = user_turns'
      BY <1>0, <2>0, <3>1, OneMoreBlock
    <3>3. Len(response_mask') < ResponseLength /\ Len(response_mask') \in Nat
      BY <1>0, <2>0, <2>4, <3>1, BlocksOfResponse
    <3>4. \A i \in 1..Len(response_mask') : response_mask'[i] = 0 => i < ResponseLength
      BY <1>0, <3>3
    <3>5. Paid(tool_rewards', user_turns', config'.max_parallel_calls)
      BY <2>0, <2>1, <2>4, <3>1
    <3> QED BY <2>4, <3>2, <3>4, <3>5 DEF Charged
  <2> QED BY <1>4, <2>2, <2>3, <2>4, ProcessingDoes
<1>5. CASE Finalize
  BY <1>5 DEF Finalize, Charged, transcript, round, kept, turns
<1>6. CASE UNCHANGED vars
  BY <1>6 DEF vars, Charged, transcript, round, kept, turns
<1> QED BY <1>1, <1>2, <1>3, <1>4, <1>5, <1>6 DEF Next

\* rl_reward.py:45-55 and tool_agent_loop.py:186-345. What the reward charges,
\* derived from num_turns alone, is the number of tool responses the returned
\* response shows; at most one executed round is missed.
THEOREM ChargeIsShown == Spec => []ToolUseCharged
<1>1. Init => Charged
  <2> SUFFICES ASSUME Init PROVE Charged
    OBVIOUS
  <2>1. Len(response_mask) = 0 /\ user_turns = 0 /\ tool_rewards = 0 /\ state = "PENDING"
        /\ config.max_parallel_calls \in Nat
    BY EmptySeq, ConfigsAssumption DEF Init
  <2>2. ToolBlocks(response_mask) = {}
    BY <2>1 DEF ToolBlocks
  <2>3. Cardinality(ToolBlocks(response_mask)) = 0
    BY <2>2, FS_EmptySet
  <2> QED BY <2>1, <2>3 DEF Charged, Paid
<1>2. IInv /\ TypeOK /\ Charged /\ [Next]_vars => Charged'
  BY ChargedKept
<1>3. IInv /\ TypeOK /\ Charged => ToolUseCharged
  <2> SUFFICES ASSUME IInv, TypeOK, Charged, Done PROVE ToolUseCharged
    BY DEF ToolUseCharged
  <2> DEFINE parallel == config.max_parallel_calls
             charged == NumToolCalls(output.num_turns)
  <2>1. /\ parallel \in Nat \ {0} /\ response_mask \in Seq({0, 1})
        /\ user_turns \in Nat /\ tool_rewards \in Nat /\ ResponseLength \in Nat
    BY ConfigsAssumption, LengthsAssumption DEF TypeOK
  <2>2. /\ output.response_mask = FirstOf(response_mask, ResponseLength)
        /\ output.num_turns = user_turns + assistant_turns + 1
        /\ assistant_turns = user_turns + 1
    BY DEF IInv, Returned, TurnsPaired
  <2>3. charged = user_turns
    <3>1. output.num_turns = 2 * user_turns + 2
      BY <2>1, <2>2
    <3> QED BY <2>1, <3>1 DEF NumToolCalls
  <2>4. Cardinality(ToolBlocks(output.response_mask)) = user_turns
    <3>1. ToolBlocks(FirstOf(response_mask, ResponseLength)) = ToolBlocks(response_mask)
      BY <2>1, BlocksOfSlice DEF Charged
    <3> QED BY <2>2, <3>1 DEF Charged
  <2>5. user_turns <= tool_rewards /\ tool_rewards <= (user_turns + 1) * parallel
    <3> DEFINE p == user_turns * parallel
    <3>1. p \in Nat /\ (user_turns + 1) * parallel = p + parallel
      BY <2>1
    <3>2. \/ user_turns <= tool_rewards /\ tool_rewards <= p
          \/ user_turns + 1 <= tool_rewards /\ tool_rewards <= (user_turns + 1) * parallel
      BY DEF Charged, Paid
    <3> HIDE DEF p, parallel
    <3> QED BY <2>1, <3>1, <3>2
  <2> QED BY <2>3, <2>4, <2>5 DEF ToolUseCharged
<1> QED BY <1>1, <1>2, <1>3, Invariance, TypeCorrect, PTL DEF Spec
=============================================================================
