----------------------------- MODULE BatchFlow ------------------------------
(***************************************************************************)
(* The way of one batch through the synchronous trainer of verl: the       *)
(* prompts are repeated, padded or joined with greedy baselines, split     *)
(* over the agent loop workers, whose rollouts end in any order, put       *)
(* together again, balanced over the data-parallel ranks, and on every     *)
(* rank split into micro-batches and restored (trainer/ppo/ray_trainer.py, *)
(* experimental/agent_loop, protocol.py, workers/engine/utils.py).         *)
(*                                                                         *)
(* A prompt is its index in the batch and stands for its uid. A row is its *)
(* position; the log-probs of a row are the position they were made for.   *)
(***************************************************************************)
EXTENDS Balancing, SequencesExt

CONSTANTS
    Batches,     \* [kind: "train", "remax" or "validate", prompts, n]
    Workers,     \* the number of agent loop workers
    Ranks,       \* the number of data-parallel ranks
    Lengths,     \* the lengths a prompt and its response can have together
    MaxTokens    \* max_token_len_per_gpu

ASSUME SizesAssumption ==
    /\ Workers \in Nat \ {0} /\ Ranks \in Nat \ {0} /\ MaxTokens \in Nat \ {0}
    /\ Lengths \subseteq Nat \ {0}

ASSUME BatchesAssumption ==
    Batches \subseteq [kind : {"train", "remax", "validate"},
                       prompts : Nat \ {0}, n : Nat \ {0}]

VARIABLES
    batch,    \* the batch that is under way
    phase,    \* where the driver is
    sent,     \* the rows sent to the workers, split
    reply,    \* what each worker has of its rows
    rows,     \* the batch after the rollout: prompt, baseline and response
    heap,     \* the partial solutions of _balance_batch
    parts,    \* the solution: the rows of each rank, before the reordering
    count,    \* each rank's number of micro-batches; 0 until it is known
    heaps,    \* the partial solutions of each rank
    micros,   \* each rank's micro-batches: positions in its share
    logprobs  \* each rank's answer

rollout == <<sent, reply>>
balance == <<heap, parts>>
ranks == <<count, heaps, micros, logprobs>>
vars == <<batch, phase, rollout, rows, balance, ranks>>

-----------------------------------------------------------------------------
\* repeat with interleave=True.
Repeat(s, n) == [i \in 1..(Len(s) * n) |-> s[((i - 1) \div n) + 1]]

PadSize(s, d) == IF Len(s) % d = 0 THEN 0 ELSE d - (Len(s) % d)

\* The padding is the first rows, again and again when there are too few.
PadToDivisor(s, d) ==
    s \o [i \in 1..PadSize(s, d) |-> s[((i - 1) % Len(s)) + 1]]

Unpad(s, size) == SubSeq(s, 1, Len(s) - size)

\* Mutant: the rows are dealt out in turn.
ChunkDealt(s, k) ==
    [c \in 1..k |-> [i \in 1..(Len(s) \div k) |-> s[k * (i - 1) + c]]]

\* chunk: k parts of the same length.
Chunk(s, k) ==
    LET size == Len(s) \div k
    IN  [c \in 1..k |-> [i \in 1..size |-> s[(c - 1) * size + i]]]

\* concat, of parts of the same length.
Concat(ps) ==
    LET size == Len(ps[1])
    IN  [i \in 1..(Len(ps) * size) |->
            ps[((i - 1) \div size) + 1][((i - 1) % size) + 1]]

\* The generation batch: for REMAX the greedy baselines follow the samples.
GenBatch(b) ==
    LET Prompts(m) == [p \in 1..b.prompts |-> [prompt |-> p, mode |-> m]]
        samples == Repeat(Prompts(IF b.kind = "validate" THEN "validate" ELSE "sample"), b.n)
    IN  CASE b.kind = "train" -> samples
          [] b.kind = "remax" -> samples \o Prompts("greedy")
          [] b.kind = "validate" -> PadToDivisor(samples, Workers)

NoReply == [prompt |-> 0, mode |-> "none", len |-> 0]

NotComputed ==
    [count |-> [j \in 1..Ranks |-> 0], heaps |-> [j \in 1..Ranks |-> {}],
     micros |-> [j \in 1..Ranks |-> <<>>], logprobs |-> [j \in 1..Ranks |-> <<>>]]

Init ==
    /\ batch \in Batches /\ phase = "submit"
    /\ sent = <<>> /\ reply = <<>> /\ rows = <<>> /\ heap = {} /\ parts = <<>>
    /\ count = NotComputed.count /\ heaps = NotComputed.heaps
    /\ micros = NotComputed.micros /\ logprobs = NotComputed.logprobs

Fails == phase' = "failed"

-----------------------------------------------------------------------------
(* Rollout: the manager splits the batch, the workers run a task per row.   *)

Submit ==
    /\ phase = "submit"
    /\ IF Len(GenBatch(batch)) % Workers # 0
         THEN Fails /\ UNCHANGED rollout
         ELSE /\ phase' = "rollout"
              /\ sent' = Chunk(GenBatch(batch), Workers)
              /\ reply' = [c \in 1..Workers |-> [i \in 1..Len(sent'[c]) |-> NoReply]]
    /\ UNCHANGED <<batch, rows, balance, ranks>>

RolloutEnds(c, i) ==
    /\ phase = "rollout" /\ reply[c][i] = NoReply
    /\ \E len \in Lengths :
          reply' = [reply EXCEPT ![c][i] =
              [prompt |-> sent[c][i].prompt, mode |-> sent[c][i].mode, len |-> len]]
    /\ UNCHANGED <<batch, phase, sent, rows, balance, ranks>>

\* One exception fails the gather of its worker, that of the manager, the step.
RolloutRaises(c, i) ==
    /\ phase = "rollout" /\ reply[c][i] = NoReply
    /\ Fails
    /\ UNCHANGED <<batch, rollout, rows, balance, ranks>>

Answered == \A c \in 1..Workers : \A i \in DOMAIN reply[c] : reply[c][i] # NoReply

\* The batch with its responses: the prompts, for REMAX with the reward of their
\* baseline, are repeated and united with the samples.
Union(b, output) ==
    LET samples == IF b.kind = "validate"
                     THEN Unpad(output, PadSize(Repeat([p \in 1..b.prompts |-> p], b.n), Workers))
                     ELSE SubSeq(output, 1, b.prompts * b.n)
        Baseline(p) == IF b.kind = "remax"
                         THEN SubSeq(output, b.prompts * b.n + 1, Len(output))[p]
                         ELSE NoReply
        prompts == Repeat([p \in 1..b.prompts |-> [prompt |-> p, baseline |-> Baseline(p)]], b.n)
    IN  [i \in 1..Len(samples) |->
            [prompt |-> prompts[i].prompt, baseline |-> prompts[i].baseline,
             response |-> samples[i]]]

\* Every gather is through: the outputs are concatenated in the order of the
\* tasks. A validation batch is scored; a training batch is balanced, for which
\* its size must be divisible.
Collect ==
    /\ phase = "rollout" /\ Answered
    /\ rows' = Union(batch, Concat(reply))
    /\ CASE batch.kind = "validate" ->
              phase' = "done" /\ UNCHANGED heap
         [] batch.kind # "validate" /\ Len(rows') % Ranks # 0 ->
              Fails /\ UNCHANGED heap
         [] OTHER ->
              /\ phase' = "balance"
              /\ heap' = StartEqual([i \in 1..Len(rows') |-> CalculateWorkload(rows'[i].response.len)], Ranks)
    /\ sent' = <<>> /\ reply' = <<>>
    /\ UNCHANGED <<batch, parts, ranks>>

-----------------------------------------------------------------------------
(* _balance_batch, and the dispatch of the ranks' shares.                   *)

Work == [i \in 1..Len(rows) |-> CalculateWorkload(rows[i].response.len)]

BalanceMerge ==
    /\ phase = "balance" /\ heap' \in MergesOf(heap)
    /\ UNCHANGED <<batch, phase, rollout, rows, parts, ranks>>

\* Short rows at both ends.
Ordered(items) ==
    LET s == ByWorkload(Work, items)
    IN  EverySecond(s, 1) \o Reverse(EverySecond(s, 2))

\* The rows are reordered, rank after rank.
Reorder ==
    /\ phase = "balance" /\ Solved(heap)
    /\ LET order == Concat([j \in 1..Ranks |-> Ordered(Solution(heap)[j].items)])
       IN  rows' = [i \in 1..Len(rows) |-> rows[order[i]]]
    /\ parts' = Solution(heap)
    /\ heap' = {}
    /\ phase' = "compute"
    /\ UNCHANGED <<batch, rollout, ranks>>

-----------------------------------------------------------------------------
(* The old log-probs: every rank gets an equal part of the batch.           *)

\* The positions of a rank's rows, and their workloads.
Share(j) == Chunk([i \in 1..Len(rows) |-> i], Ranks)[j]

ShareWork(j) == [i \in 1..Len(Share(j)) |-> Work[Share(j)[i]]]

Tokens(j) ==
    LET total[i \in 0..Len(Share(j))] ==
            IF i = 0 THEN 0 ELSE total[i - 1] + rows[Share(j)[i]].response.len
    IN  total[Len(Share(j))]

Fits(j) == \A i \in DOMAIN Share(j) : rows[Share(j)[i]].response.len <= MaxTokens

\* A row longer than max_token_len raises on its rank before the all-reduce, and
\* the others wait there.
TooLong(j) ==
    /\ phase = "compute" /\ count[j] = 0 /\ ~Fits(j)
    /\ Fails
    /\ UNCHANGED <<batch, rollout, rows, balance, ranks>>

\* A rank's own number of micro-batches, which it takes to the all-reduce.
CountMicroBatches(j) ==
    /\ phase = "compute" /\ count[j] = 0 /\ Fits(j)
    /\ count' = [count EXCEPT ![j] = Min({Len(Share(j)), CeilDiv(Tokens(j), MaxTokens)})]
    /\ UNCHANGED <<batch, phase, rollout, rows, balance, heaps, micros, logprobs>>

\* Every rank has come: each goes on with the largest number.
AllReduce(j) ==
    /\ phase = "compute" /\ \A r \in 1..Ranks : count[r] # 0
    /\ heaps[j] = {} /\ micros[j] = <<>>
    /\ heaps' = [heaps EXCEPT ![j] =
          StartUneven(ShareWork(j), Max({count[r] : r \in 1..Ranks}))]
    /\ UNCHANGED <<batch, phase, rollout, rows, balance, count, micros, logprobs>>

MicroMerge(j) ==
    /\ phase = "compute"
    /\ \E next \in MergesOf(heaps[j]) : heaps' = [heaps EXCEPT ![j] = next]
    /\ UNCHANGED <<batch, phase, rollout, rows, balance, count, micros, logprobs>>

First(set) == Min(set.items)

\* The micro-batches of a solution: light ones at both ends, and the positions
\* of each in increasing order.
MicroBatches(solution) ==
    LET sets == {solution[i] : i \in 1..Len(solution)}
        heavier(a, b) == \/ a.sum > b.sum
                         \/ a.sum = b.sum /\ First(a) > First(b)
        s == SortedBy(sets, heavier)
        m == Reverse(EverySecond(s, 1)) \o EverySecond(s, 2)
    IN  [i \in 1..Len(m) |-> SortedBy(m[i].items, <)]

\* A rank runs its micro-batches and puts the answers back in order.
Compute(j) ==
    /\ phase = "compute" /\ Solved(heaps[j])
    /\ IF \E i \in 1..Len(Solution(heaps[j])) : Solution(heaps[j])[i].items = {}
         THEN Fails /\ UNCHANGED <<heaps, micros, logprobs>>
         ELSE LET m == MicroBatches(Solution(heaps[j]))
                  idx == FlattenSeq(m)
                  answers == [i \in 1..Len(idx) |-> Share(j)[idx[i]]]
              IN  /\ micros' = [micros EXCEPT ![j] = m]
                  /\ logprobs' = [logprobs EXCEPT ![j] = RestoreDynamicBatch(answers, idx)]
                  /\ heaps' = [heaps EXCEPT ![j] = {}]
                  /\ UNCHANGED phase
    /\ UNCHANGED <<batch, rollout, rows, balance, count>>

Gather ==
    /\ phase = "compute" /\ \A j \in 1..Ranks : micros[j] # <<>>
    /\ phase' = "done"
    /\ UNCHANGED <<batch, rollout, rows, balance, ranks>>

-----------------------------------------------------------------------------
NextBatch ==
    /\ phase = "done"
    /\ batch' \in Batches /\ phase' = "submit"
    /\ rows' = <<>> /\ parts' = <<>>
    /\ count' = NotComputed.count /\ micros' = NotComputed.micros
    /\ logprobs' = NotComputed.logprobs
    /\ UNCHANGED <<rollout, heap, heaps>>

\* The exception has ended the trainer.
Stopped == phase = "failed" /\ UNCHANGED vars

Next ==
    \/ Submit \/ Collect \/ BalanceMerge \/ Reorder \/ Gather
    \/ NextBatch \/ Stopped
    \/ \E c \in 1..Workers : phase = "rollout" /\ \E i \in DOMAIN reply[c] :
          RolloutEnds(c, i) \/ RolloutRaises(c, i)
    \/ \E j \in 1..Ranks :
          TooLong(j) \/ CountMicroBatches(j) \/ AllReduce(j) \/ MicroMerge(j) \/ Compute(j)

Spec == Init /\ [][Next]_vars

-----------------------------------------------------------------------------
\* ray_trainer.py:1439-1507, protocol.py:74-106, agent_loop.py:1111-1118. From
\* the end of the rollout on, in whatever order the rollouts ended, every row
\* has a response to its own prompt, sampled in the mode the row asked for; the
\* baseline beside it is the greedy one of the same prompt; every prompt has n
\* rows; and no row of the padding is left.
OwnResponse ==
    phase \in {"balance", "compute", "done"} =>
        /\ \A p \in 1..batch.prompts :
              Cardinality({i \in DOMAIN rows : rows[i].prompt = p}) = batch.n
        /\ Len(rows) = batch.prompts * batch.n
        /\ \A i \in DOMAIN rows :
              /\ rows[i].response.prompt = rows[i].prompt
              /\ rows[i].response.mode = IF batch.kind = "validate" THEN "validate" ELSE "sample"
              /\ batch.kind = "remax" =>
                    /\ rows[i].baseline.prompt = rows[i].prompt
                    /\ rows[i].baseline.mode = "greedy"

\* seqlen_balancing.py:49-254, 403. The method never makes things worse:
\* between the ranks, which get the same number of rows, the workloads differ
\* by no more than within the widest group of neighbours in the order of the
\* workloads; between micro-batches by no more than one row's. Every row is in
\* one micro-batch of its rank, none is empty, and all ranks have equally many,
\* or the collectives of the forward passes would wait forever.
BalancedPartitions ==
    /\ phase = "compute" =>
          /\ \E s \in StartEqual(Work, Ranks) : Spread(parts) <= Spread(s)
          /\ \A j \in 1..Ranks : Cardinality(parts[j].items) * Ranks = Len(rows)
          /\ UNION {parts[j].items : j \in 1..Ranks} = DOMAIN rows
    /\ \A j, r \in 1..Ranks :
          micros[j] # <<>> /\ micros[r] # <<>> => Len(micros[j]) = Len(micros[r])
    /\ \A j \in 1..Ranks : micros[j] # <<>> =>
          LET load(m) == SumFunction([i \in DOMAIN m |-> ShareWork(j)[m[i]]])
          IN  /\ \A a, b \in DOMAIN micros[j] :
                    load(micros[j][a]) - load(micros[j][b])
                      <= Max({ShareWork(j)[i] : i \in DOMAIN ShareWork(j)})
              /\ \A a \in DOMAIN micros[j] : micros[j][a] # <<>>
              /\ IsInjective(FlattenSeq(micros[j]))
              /\ Range(FlattenSeq(micros[j])) = 1..Len(Share(j))

\* seqlen_balancing.py:471-551, workers/engine/utils.py:124-141. However the rows
\* were dealt to micro-batches, every log-prob comes back to the row it was made
\* for: the old log-probs of the ranks, one after the other, are in the order of
\* the batch.
LogprobsRestored ==
    phase = "done" /\ batch.kind # "validate" =>
        FlattenSeq(logprobs) = [i \in 1..Len(rows) |-> i]
=============================================================================
