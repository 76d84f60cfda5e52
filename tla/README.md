# A TLA+ verification of the stock search-agent pipeline

This directory specifies the parts of the repository that carry its logic and
can go wrong in ways a unit test hardly reaches: the multi-turn rollout in which
a language model calls tools, the point-in-time tables and tools it searches,
the cache those tables are kept in, the balancer that spreads rollouts over
inference servers, those servers while weights are pushed and GPUs are lent to
validation, the way of a batch through workers, ranks and micro-batches,
the synchronous trainer with its checkpoints, the fully asynchronous trainer
and rollouter with the queue between them, and the reward of a rollout. Each is a module of its own,
model-checked by TLC on small instances; the theorems are proved with TLAPS for
every value of the constants.

Paths below are relative to the repository. `V` stands for
`verl-main/verl`, the local framework copy the pipeline trains with.

## 1. The system and its parts

| Part | Source | State it keeps | Operations |
|---|---|---|---|
| Tool agent loop | `V/experimental/agent_loop/tool_agent_loop.py` | one `AgentData` per rollout: the token transcript, its mask and log-probabilities, turn counters, tool calls of the round | the handlers of the states PENDING, GENERATING, PROCESSING_TOOLS; `run` |
| Agent loop worker | `V/experimental/agent_loop/agent_loop.py` | a batch of rollouts | `generate_sequences`, template and padding helpers |
| Rollout server | `V/workers/rollout/vllm_rollout/vllm_async_server.py` | engine, awake or asleep, outstanding requests | `generate`, `abort_all_requests`, `sleep`, `wake_up` |
| Load balancer and client | `V/workers/rollout/llm_server.py` | pool, in-flight count per server, LRU cache of routes | acquire, release, add, remove; client `generate` |
| Rollouter | `V/experimental/fully_async_policy/fully_async_rollouter.py` | `paused`, `staleness_samples`, `active_tasks`, pending queue, a lock | feeder, processor, sample tasks, monitor, `reset_staleness`, add/remove replicas, resuming client |
| Message queue | `V/.../message_queue.py` | a deque of bounded length | put, get, size |
| Async trainer | `V/.../fully_async_trainer.py` | local step, parameter version, last checkpointed version | collect, update, push weights, validate, save |
| Async main | `V/.../fully_async_main.py` | two running futures | start both, cancel on failure |
| Reward | `rl_reward.py`, `V/experimental/reward_loop/reward_manager/naive.py` | none | `parse_final_answer`, `compute_stock_reward` |
| Tools | `rl_tools.py` | a process-wide table cache | seven point-in-time queries |
| Data pipeline, table cache | `rl_data.py`, `rl_common.py` | tables on disk in three formats, run directories | fetch, cache, build tables, tasks and labels |
| Dataset export | `rl_dataset.py` | training and validation files | merge tasks and labels, split |
| Configuration | `rl_config.py`, `rl_verl.py` | none | derive the training command |
| SFT, baseline, report | `rl_sft.py`, `rl_baseline.py`, `rl_report.py`, `stock_agent_rl_mvp.py` | files | straight-line transformations |
| Synchronous PPO trainer | `V/trainer/ppo/ray_trainer.py` | `global_steps`, epoch, position of the data loader; weights on every rank | `fit`, `_save_checkpoint`, `_load_checkpoint` |
| Checkpoint manager | `V/utils/checkpoint/checkpoint_manager.py` and the FSDP one | the paths kept per role; files per rank, the tracker | room before, register after a save, `find_latest_ckpt_path` |
| Batch protocol and balancing | `V/protocol.py`, `V/utils/seqlen_balancing.py`, `V/workers/engine/utils.py` | a batch on its way | repeat, pad, chunk, concat, union, reorder; partitions; micro-batches and their restoration |
| Checkpoint engine | `V/checkpoint_engine/base.py` | which replicas are awake | sleep the replicas, push weights |

How they interact. The pipeline fetches tables once and caches them on disk,
builds tasks from them and writes a training command. The trainer asks agent
loop workers for rollouts; each rollout is a coroutine that alternates between
the model and the tools. For the model it asks the load balancer (an actor) for
a server, awaits the server's generation and releases the server by a message
it does not wait for. Tools are coroutines gathered in parallel; they read the
cached tables. A finished transcript becomes training data, and the reward
function reads from it the turn count and the answer. In the asynchronous policy the
rollouter streams rollouts into a bounded queue; the trainer takes batches out
of it, and after some updates pushes its weights to the servers and resets the
rollouter's staleness counter by a remote call.

What is hard, part by part, and what makes the part correct:

- *Tool agent loop.* Tools answer in any order; four limits end a rollout; a
  tool response that does not fit is dropped after it was executed. Correct:
  the returned response, mask and log-probabilities agree token by token;
  messages are in call order; what the reward charges is what happened; the
  server always has room for a token; a rollout ends.
- *Load balancer.* Releases are delayed and overtake the removal and return of
  their server; routes are evicted or point to removed servers. Correct: counts
  do not leak, sessions stick, new sessions go to the least loaded server.
- *Rollouter, queue, trainer.* Coroutines interleave at awaits, and a remote
  reset overlaps them; a generation may raise; the queue may fill. Correct:
  freshness control holds, no sample disappears, neither side waits for the
  other forever, the end of training is reached and saved.
- *Rollout server with hybrid replicas.* Requests race with the push of weights,
  abort, removal and sleep; an aborted response is resumed on another server.
  Correct: the version labels of a response are true of its tokens, validation
  sees one version, and no request runs on a sleeping engine unless it was on its
  way when its server was removed.
- *Table cache.* Crashes between the writes of three formats; two runs at once.
  Correct: what is read is the newest complete table, or the run fails.
- *Tools and tables.* A build saves nine tables one by one and may be
  interrupted; a process caches tables one by one for good; the model fills in
  the dates of its calls; trading days, announcement days and report days do not
  coincide. Correct: nothing from after the date asked for is ever shown, labels
  lie beyond what is shown, and validation is held out.
- *Synchronous trainer and checkpoints.* A checkpoint is a file per rank and
  role, then the data position, then the tracker; a crash may come between any
  two, over what an earlier attempt left; old checkpoints are removed on the way.
  Correct: what is resumed from is one consistent step, no batch is trained twice
  or skipped, the replicas always serve the latest actor, the last step is saved.
- *Batches.* Rollouts end in any order on several workers; rows are padded,
  joined with baselines, permuted over ranks and again into micro-batches.
  Correct: a row keeps its prompt, its response, its baseline and its
  log-probs; ranks are balanced, and none waits for a micro-batch another lacks.

- *Reward.* The answer is looked for in the whole transcript, between drafts, calls
  and tool results with strings and braces of their own, some of them cut; bonus,
  penalty and cost of calls are computed apart. Correct: the answer written last is
  the one scored, and no part of the score pays for what the prompt forbids.

`PROJECT.json` lists these hazards line by line with the properties that guard
against each one, and says for each component what is modelled and what is not.

## 2. The modules

### ToolAgentLoop: one rollout

A token is its provenance (`"prompt"`, `"llm"`, `"tool"`), so that the
transcript tells what training must be able to tell. Each handler of the code
is one action, and the return of each gathered tool call is an action:

| Action | Code |
|---|---|
| `HandlePending` | `_handle_pending_state`, with `apply_chat_template`'s truncation |
| `HandleGenerating` | `_handle_generating_state`, with the server's token budget and its refusal |
| `ToolReturns(i, kind)` | one `_call_tool` coroutine ends; errors become text |
| `HandleProcessingTools` | `_handle_processing_tools_state` after the gather, in all its outcomes |
| `Finalize` | the end of `run`: split at `-len(response_mask)`, cap at `response_length` |

`Next` is the `while` loop of `run`. `state = "FAILED"` stands for an exception
that leaves `run`. The number of tokens a template or the engine produces and
the number of calls the parser finds are chosen freely within `MaxTemplate`,
the server's budget and `MaxCalls`. `NumToolCalls` is `rl_reward.py`'s count of
tool calls for a trajectory. `AbortReturns` says whether a completion aborted
before its first token reaches the loop, which the client allows when
`partial_rollout` is off.

### LoadBalancer: the pool and its clients

The balancer is a single-threaded actor, so each call is a step. A conversation
goes through `Acquire`, `Finish` (the generation is over, the release is on its
way) and `Release`; hybrid servers are added and removed at any moment by
`AddServers` and `RemoveServers`, in `LoadBalancer`; `HybridValidation` says when.
`routes` is the LRU cache, least recently
used first. Ties between equally loaded servers are left open, where the code
takes insertion order. `since` and `inexact` are history variables that only
properties read. A client's next acquire is behind its own release because both
travel from the same process to the same actor.

### HybridValidation: engines, resuming client and validation

This module composes `LoadBalancer` with the engines behind it, the client that
resumes aborted generations, and the trainer that stops the engines to push
weights and, to validate, lends its own GPUs: hybrid replicas are woken, added to
the pool, used, removed and put to sleep. `Steps` is that sequence of calls, and
`pc` the trainer's place in it; a call that is gathered from replicas is answered
by one replica at a time, in any order, while clients and engines go on.

| Action | Code |
|---|---|
| `Ask` | `FullyAsyncLLMServerClient.generate`: a turn of its loop, with `acquire_server`; `do_validate` for the requests of validation |
| `Start` `Produce` `Complete` | the server's `generate`: waits while paused, produces a token, replies with its `global_steps` |
| `Fail` `MergeAborted` `Release` | `generate` raises; the client merges an aborted reply and goes on; the release arrives |
| `TrainStep` | the local updates of a period, up to the new `current_param_version` |
| `AbortReplica` `ResumeReplica` | `abort_all_requests` (with vLLM's `pause_generation`) and `resume_generation` on one replica |
| `PushReplica` | the checkpoint engine's transfer to one standalone replica |
| `WakeReplica` `SleepReplica` | the naive `update_weights`, which wakes a hybrid replica with new weights; `sleep` |
| `AddReplicas` `RemoveReplicas` | the manager's `add_replicas`, `remove_replicas`, which call the balancer |
| `Validated` | `do_validate` has all its responses |
| `Gathered` | all replicas have answered; after a push, validation or the next period |

A response is the set of versions that computed its tokens (`made`; `None` for a
token computed by a sleeping engine) and its two labels. vLLM 0.12, the version
`requirements-stockverl.txt` pins, decides what pausing does. The run
starts after the first push. The weights of a server and its label change in one
step: both happen while it is paused or asleep, when only a call in `late` could
tell them apart. `partial_rollout` is on; the agent
loops give no `max_tokens`, so that its write-back does not occur. `late` is a history
variable: the calls on their way to a hybrid server when it was removed.

### FullyAsync: rollouter, queue and trainer

The unit of atomicity is what an asyncio coroutine does from one await that
yields to the next. That is why `_should_pause_generation` is two actions
(`CheckQueue` asks the queue; `Pause` and `Take` decide with the staleness of
the time the answer is there), why taking a sample and submitting it are two
(the counter is incremented before the lock is waited for), and why
`reset_staleness` is two (it awaits the queue's size while it holds the lock).
`lock` is the asyncio lock where it is held across a yield.

| Actions | Code |
|---|---|
| `CheckQueue` `Pause` `PauseLate` `DrainReap` `Resumed` `Take` `Locks` `WaitReap` `ReapRaises` `Submit` | `_processor_worker` |
| `TaskEnds` `TaskPuts` `TaskRaises` | `_process_single_sample_streaming`: the generation ends, the sample reaches the queue, or the generation raises |
| `Finish` | the `finally` clause of `_streaming_generation_main` |
| `MonitorAsks` `MonitorDecides` `MonitorResumes` | `_async_monitor_loop` |
| `Collect` | `_get_samples_from_queue`, one entry at a time |
| `Update` `UpdateWeights` `Save` `Final` | `fit_step`, `_fit_update_weights`, `_fit_save_checkpoint`, the end of `fit` |
| `ResetBegins` `ResetEnds` | `reset_staleness` |

A queued sample is the version its generation ended under and the one served when it
was put: in between the task awaits `get_statistics` and the put, weights may be
pushed, and other tasks may overtake it. Failure of
a generation (`MayFail`) makes the processor raise when it reaps the task; the
code's outer `gather(..., return_exceptions=True)` then lets the rollouter put
its termination signal and end, and training ends early and quietly.

### PointInTime: tables, export and tools

A row keeps when, not what: its date, the time it claims to be visible from, and
the time of the newest data it was computed from. A day has five moments (the
close, a task's as_of of 15:30, news at 15:35, valuation notes at 15:40,
announcements at 18:00), so that a time is five times the day and the moment. A table is determined by the settings of the build that
saved it, so the disk and the tool cache map each table to such settings, and
`Content` says which rows that means.

| Action or operator | Code |
|---|---|
| `StartBuild` `WriteTable` | `build_data`: a build starts, possibly over an interrupted one, and saves its next table |
| `DailyRows` `RankedRows` `FundamentalRows` `AnnouncementRows` `NewsRows` | what the `build_*` functions put in the tables |
| `LabelledDays` `SampledDays` `KeptDays` `SplitOf` `Tasks` | `build_tasks_and_labels`: shifted prices, warm-up, stride, thinning to `max_tasks`, splits |
| `Train` | `export_verl_dataset` with its fallbacks, and processes starting with empty caches |
| `StartRollout` | a rollout of some row of the dataset |
| `GetRow` | `get_price_factors`, `get_market_context`, `get_industry_context`, `get_peer_context` |
| `GetFundamentalSnapshot` `Search` | the tools of these names, announcements and news |

One stock stands for all: `max_tasks` then counts days, and the ranks across
stocks of one date look at that date only. A rank over the whole table
(`valuation_pe_percentile_2y`, `turnover_percentile_1y`, the relative strength in
`peer_score`, which decides the order of the peers shown) is dated by the last
day of the table. Keywords and document types select freely within the window.

### TableStore: the table cache on disk

A table is the answer of the data service it was made from, and each of its
three files is absent, torn (opened and not completed) or whole. Runs of the
pipeline are processes that share the data directory, one after the other or
overlapping, and may be killed between any two steps.

| Action | Code |
|---|---|
| `MakeTimestampRunDir` `NoRunDir` `EnsureDirs` | `make_timestamp_run_dir` looks for a free name; the directory is created later, with `exist_ok` |
| `CacheHit` `CacheRaises` `Fetch` `FetchFails` | `fetch_or_cache`, with its retries, core and optional tables |
| `Process` `ReadBack` `ReadBackRaises` | the processed tables: saved, and read back by the next function |
| `OpenFile` `CloseFile` `ParquetRefused` | `save_table`: pickle, CSV, parquet, the last of which may be refused |
| `Crash` | a run is killed |

`Stem` is the file of a raw table. `table_path` is `stem.with_suffix`, which replaces
whatever follows the last dot of the name: `stock_basic_L` has none, and the names
of a stock's tables have no dot either and keep their dates, but of
`index_weight_000016.SH_<start>_<end>` (and `index_daily_...`) only what comes before
`.SH` remains, so that runs of all dates (`Dates`) share that
table (`Undated`). `ReadTable` is `read_table`'s order of preference; a torn pickle or parquet
raises, a torn CSV parses with fewer rows. `earlier` and `refused` are history
variables that only properties read.

### SyncTrainer and SavedProgress: training, checkpoints, restarts

The weights of a model are the set of `<<step, batch>>` pairs it has learned, on
every rank. `shards` are the files, one per step, role and rank; `data` is the
data loader's position in `data.pt`; `tracker` is `latest_checkpointed_iteration.txt`.

| Action | Code |
|---|---|
| `LoadRaises` `LoadScratch` `LoadCheckpoint` | `_load_checkpoint` with `resume_mode="auto"`, `find_latest_ckpt_path` |
| `PushInitial` `ValidateInitial` | the start of `fit` |
| `NextBatch` `NextEpoch` `EndOfData` | the two loops of `fit` |
| `Generate` `Train` `Sync` `Validate` | a step: rollout and sleep, critic and actor updates with the warm-up, the push of weights, validation |
| `EnsureCapacity` `OpenShard` `CloseShard` `Register` | saving one role: room, a file per rank, the barrier, rotation |
| `OpenData` `CloseData` `OpenTracker` `CloseTracker` | the rest of `_save_checkpoint` |
| `Crash` `Restart` `Rerun` | the job dies, is started again, or is started again after it returned |

`SavedProgress` is the abstract specification: a policy that learns a batch at a
time, and a saved policy that a restart resumes. `SyncTrainer` implements it
under the mapping `policy` (what the ranks hold, when the job runs) and `saved`
(what a restart would load now).

`Totals` are the values `total_training_steps` may be given at a start. The code does
not compare it with the batches (`ray_trainer.py:440-441`): when it is larger, `fit`
leaves its loops with the data (`EndOfData`, `:1769-1770`) and there is no last step.
The pipeline's own command sets `resume_mode=disable`, has no critic (GRPO), no
warm-up and `save_freq=5` (`rl_verl.py:110, 169-177`): loading, the critic and the
warm-up are the trainer's, for whoever starts it otherwise.

### Balancing and BatchFlow: a batch through the trainer

`Balancing` has the operators of `seqlen_balancing.py`: the differencing method
of Karmarkar and Karp as a heap of partial solutions and a round on it
(`MergesOf`), the start with and without equal sizes, the restoration of
micro-batches. `BatchFlow` is the batch that uses them:

| Action | Code |
|---|---|
| `Submit` | `repeat`, `pad_dataproto_to_divisor` or REMAX's join with greedy rows, `chunk` over the workers |
| `RolloutEnds` `RolloutRaises` | one task of a worker's gather |
| `Collect` | the gathers of workers and manager, `concat`, `unpad_dataproto`, `union` with the repeated prompts |
| `BalanceMerge` `Reorder` | `_balance_batch` with `get_seqlen_balanced_partitions`, then `reorder` |
| `CountMicroBatches` `TooLong` `AllReduce` `MicroMerge` `Compute` | on every rank: `rearrange_micro_batches` and `restore_dynamic_batch` |
| `Gather` `NextBatch` `Stopped` | the driver collects the log-probs; the next batch; an exception has ended the trainer |

A row is its position and the log-probs of a row are the position they were made
for, so that a mix-up shows. The configuration is the pipeline's
(`rl_verl.py:139`, dynamic batch sizes) with the balancing of ranks on. Ties of
the heap and of sorting are left open where the code breaks them by indices.

### FinalAnswer and StockReward: what a rollout is worth

`StockReward` has the terms of `compute_stock_reward` as operators over integers: a
score is a numerator over `Scale(p)`, so nothing is rounded. Of an answer it keeps
the probabilities, the class it predicts, whether `alpha_score` is left out or near
enough, and what its evidence earns.

`FinalAnswer` extends it. It first writes a transcript, then scans it as
`parse_final_answer` does, one character per step, and scores what it found:

| Action | Code |
|---|---|
| `ToolRound` | the model says something and calls a tool; `_call_tool` cuts the result (`ToolResponse`) |
| `EndRollout` | the model ends, with an answer amid prose or none, and the reward manager decodes the response |
| `Scan`: `InString` `OpenString` `OpenBrace` `CloseBrace` `OtherChar` | the branches of the scan |
| `ComputeScore` | `Picked`, the loop over the reversed candidates, and `compute_score` |

A character is its class: brace, quote, backslash or anything else. Two texts stand
for the answers; what they say is chosen when they are scored. `written` records the
answers the model wrote, and the properties about scores compare the score with what
the same rollout would have earned with another forecast or another number of calls.
The template's own text is left out, and the cut of the response to its length is
`ToolAgentLoop`'s.

The MC modules give the constants of the instances.

## 3. What the runs check

| Run | Instance | Properties |
|---|---|---|
| `rollout` | lengths 2 and 6, templates of up to 3 tokens, up to 3 calls found, five settings, completions aborted | `TypeOK` `ResponseAligned` `LogprobsAligned` `ToolUseCharged` `WithinCallBudget` `MessagesInCallOrder` `RoomToGenerate` `Terminates` |
| `balancer` | `HybridValidation` with one standalone and one hybrid server, a conversation of training and one of validation of two turns each, a cache of one, two versions | `InflightCounts` `VersionsTrue` `StickySession` `FewestOutstanding` `Drains` |
| `fully_async` | 7 samples, batches of 1, a push every 2 updates, limit 4, two tasks, failures | `OutstandingBounded` `SamplesAccounted` `NeverStarved` `QueueIsFresh` `Terminates` |
| `point_in_time` | seven trading days of nine, reports and announcements on open and closed days, three settings, two builds | `WholeBuilds` `PointInTimeAnswers` `LabelBeyondShown` `LatestReport` `HeldOut` |
| `sync_trainer` | two ranks, an actor keeping two checkpoints and a critic keeping one, two epochs of three batches, told to train 5 steps or 7, a save every 4, two crashes or reruns | `TrackedComplete` `InStep` `OnPolicy` `EndsTrained` `Completes` `ResumesSaved` |
| `table_store` | three runs, one of other dates, two at a time, one killed, one core raw table whose file is the same for all dates, and the processed one | `NeverTruncated` `Reproducible` `ReadsOwnBuild` `OwnDirectory` |
| `batch_flow` | three workers, two ranks, six batches of the three kinds, four lengths, at most 6 tokens per micro-batch | `OwnResponse` `BalancedPartitions` `LogprobsRestored` |
| `final_answer` | a tool round with two results, four pieces of prose, two of which leave a string or a brace open, two answers, three cuts; probabilities in steps of 1/13, four tasks, up to six calls | `AnswerScored` `FormatPays` `CallsPayAsAsked` `TruthPays` |
| `cut_response` | two tool rounds, results cut in the middle | `FinalAnswerExtracted` is violated |
| `factors_from_past` | as `point_in_time` | `FactorsFromPast` is violated |
| `effective_by_as_of` | as `point_in_time` | `EffectiveByAsOf` is violated |
| `last_updates` | 3 samples, a push every 2 updates, a save at every version | `LastUpdatesSaved` is violated |

What they show:

- **rollout.** `ResponseAligned` and `LogprobsAligned` are what training relies
  on: one mask entry and one log-probability per response token, 1 exactly on
  generated tokens, and no token on the wrong side of the prompt. `ToolUseCharged`
  relates three counts kept in different places: the reward never sees tool
  calls, only `num_turns`, and still charges exactly the tool responses the
  transcript shows; it misses at most the one round whose response did not fit.
  `WithinCallBudget` ties the command's `max_assistant_turns = max(2, max_tool_calls + 1)`
  to that charge (for a budget of 0 the charge can be 1, since two turns are
  always allowed). `MessagesInCallOrder` says the gather restores call order.
  `RoomToGenerate` says the default model length never makes the server refuse.
  `Terminates` says that rollouts end without any turn limit.
  Further behaviour seen in the model: a first completion that is aborted before any
  token and handed to the loop (`partial_rollout` off) ends the rollout with an empty
  mask. `prompt_ids[-0:]`, the whole prompt, is then taken for the response, though
  `agent_loop.py:93-96` defines `response_ids` as generated and tool tokens and the
  mask as one entry for each. `ResponseAligned` states this exception.
- **balancer.** `InflightCounts` states what the counters are worth: never more
  than what is outstanding, and exact unless a server left and came back with
  requests of its first life outstanding. `StickySession` states how long a
  route survives: the server is kept if fewer conversations than the cache has
  entries acquired in between, even if the server was away meanwhile.
  `FewestOutstanding` is the class comment's promise about true loads, and needs
  the counts to be exact. `Drains`: once all conversations are over every count
  returns to 0 and stays there. `VersionsTrue` relates what a response says of
  itself to what happened to it: however often it was aborted and resumed over
  pushes, on whichever servers, its first label is not above and its last not
  below any version that computed a token, although each label is read from a
  reply, and an empty reply has none. A validation response is of one version,
  the one validated.
  Further behaviour seen in the model: between the abort and the removal of a
  hybrid replica a training call may still acquire it. The call waits in the
  paused engine, the engine is put to sleep, and `resume_generation` then runs the
  call on an engine whose weights are released. `VersionsTrue` says that only such
  calls, the ones in `late`, can.
- **fully_async.** `OutstandingBounded` is the freshness control as the code
  really enforces it, `max_required_samples + 1`; `QueueIsFresh` is what it is
  worth in versions: no queued sample was put more than `Wait` versions ago. Of
  the age counted from the end of the generation that is not true, since a task may
  be held up between its end and its put for as long as calls take; but no more
  than `max_concurrent_samples` older ones are queued at any time. `SamplesAccounted` balances every sample and says that a
  run in which no generation raised has trained on all but an incomplete
  batch. `NeverStarved` excludes the state in which rollouter and trainer wait
  for each other; the proviso is needed, and its comment says what happens
  without it. It does not hold of a staleness threshold of 0, for which the
  property therefore says nothing.
  Further behaviour seen in the model: `reset_staleness` overwrites the increment of
  the sample the processor holds but has not submitted, since the increment is made
  without the lock. That is the one sample by which `OutstandingBounded` exceeds
  `rollout_num`, the bound `fully_async_policy/README.md:136-138` gives.
- **point_in_time.** `PointInTimeAnswers` is the promise of the tools: whatever
  day the model asks for, wherever its search window ends, and whichever builds
  the cached tables are of, no row is of a later day. It also says that a row was
  not computed from later data, except for the two tables ranked over all dates,
  where that is false (below). `LabelBeyondShown` relates the tools to the labels:
  at its own date everything shown about a task precedes the price its return
  starts from. `LatestReport` says the fundamentals are not older than they need
  be. `HeldOut` covers the fallbacks of the export and the merge of tasks and
  labels of different builds: training and validation rows are disjoint whenever
  the merge has rows of the training split and of another. `WholeBuilds` says what
  an interrupted build may leave behind, and what not.
  The model also shows two things that are no error by any document: thinning to
  `max_tasks` cuts off the latest days rather than spreading them, and the labels
  of the last training days end within the validation period.
- **sync_trainer.** `TrackedComplete` is why the order of the files matters: at
  any moment, after crashes in the middle of this save or of an earlier one into
  the same folder, the tracker names a checkpoint that is whole on every rank and
  role. The exception it states is real: a role with `max_ckpt_to_keep = 1` loses
  its only tracked checkpoint when the next is registered, before the tracker
  names that one. `InStep` relates the step counter, the data loader and the
  weights of every rank over any number of restarts. `OnPolicy` follows the
  replicas through warm-up steps, saves and pushes. `EndsTrained` is about the
  forced save of the last step and the ways `fit` returns: at the last step, at once
  after a resume, or at the end of the data without a last step. Every step that was
  due to be saved is saved or superseded by a later one; the steps after the last one
  due are lost when there is no last step, fewer than `save_freq`. (Nothing is due
  during the warm-up.) `Completes` says a job
  that is started again whenever it dies ends, unless a crash hit one of two
  windows: the tracker just opened (opening empties it, and `int('')` raises at
  every restart), or the single checkpoint just removed. `ResumesSaved` is the
  refinement.
  Further behaviour seen in the model: the list of kept paths is lost in a
  restart, so that directories of an earlier life are never removed; rerunning a
  finished run whose explicit `total_training_steps` is less than its batches
  trains one step more.
- **table_store.** `NeverTruncated` holds for a reason nobody wrote down: a CSV
  cut short would parse silently, but a pickle is opened before any CSV exists
  and is preferred to it. `Reproducible` and `ReadsOwnBuild` say what the cache is
  for, and what force_refresh and a refused parquet do to it; runs of other dates are
  bound alike where the name of the file has lost its dates, and then work with the
  index weights of the dates that were fetched first. `OwnDirectory`
  says which runs can come to share a result directory: only runs that overlap.
  The model also shows: a refused parquet leaves an older one in force though the
  log says that pickle and CSV are available; a torn pickle or parquet makes
  every later run raise until it is told to refresh; an empty answer of the
  service is cached like any other.
- **batch_flow.** `OwnResponse` holds in whatever order rollouts end, because
  nothing but position ties a response to its prompt: repeat, chunk, gather and
  concat must agree, also with padding longer than the batch and with baselines
  behind the samples. `BalancedPartitions` is the promise of the differencing
  method: equally many rows per rank and workloads no further apart than within a
  group of neighbours, no empty micro-batch (an assertion of the code, which raises
  otherwise, so that this part holds by its guard), equally many of them on all ranks.
  `LogprobsRestored` composes both permutations and their inverses.
  Further behaviour seen in the model: a row longer than `max_token_len` raises on
  its rank before the all-reduce while the others wait in it; and a micro-batch
  may hold more than `max_token_len` tokens (three rows of 6 with a limit of 10
  make two micro-batches, one of 12), though the docstring of
  `rearrange_micro_batches` calls it a maximum.
- **final_answer.** `AnswerScored` relates the scan's result to what the model wrote:
  strings with braces, escaped quotes, stray closing braces, earlier drafts and
  nested objects do not mislead it, as long as no tool response was cut and no prose
  before one, or before the answer itself, leaves a string or a brace open (`intact`).
  The code ensures neither: a model that writes a lone quotation mark before its answer
  loses it. The answer may then be lost, or an earlier draft taken for it, but nothing
  is scored that the model did not write. `FormatPays` bounds the worst forecast of a
  rollout within its call budget, which `WithinCallBudget` grants, above the scores
  of broken formats, as long as `SettingsAssumption` holds. `CallsPayAsAsked` says
  what the tool terms add up to: a required call never costs, and a call beyond the
  required ones and the first never pays. `TruthPays` needs label and return to
  agree: labels are quantiles of a day's relative returns, and for an "up" stock
  that fell by more than the scale of the profit, moving belief from "down" to "up"
  lowers the score (`MCTasks` has such a task).

The four runs with an expected violation are disagreements between the code
and what the repository says of it; `PROJECT.json` quotes both sides.

1. A trainer that ends within a trigger period does not save its last updates,
   `force=True` notwithstanding.
2. The industry percentiles and the peer ranking are computed over all dates of the
   table, so that the tools show factors that depend on later data.
3. The search tools compare days, so that documents of the task's day that take
   effect after its as_of of 15:30 are shown.
4. A tool response cut in the middle hides the final answer from the reward, which
   then scores the rollout as one without an answer.

### Bounds, and why they are enough

- *rollout*: a response of 6 tokens with completions and tool responses of 1 to
  3 tokens allows three tool rounds, responses that fill the budget exactly, one
  token less and one more, and both endings of each handler. The five settings
  are the deployed one with a call budget of 1 and 2, no limit at all, a user
  turn limit with parallel calls, and a model too short for both lengths. Completions
  of no tokens reach the loop in this run (4,883 states).
- *balancer*: two conversations against a cache of one evict routes; two turns
  suffice for a session to come back, and for a response to be aborted and
  resumed once; with two versions it then has tokens of both, and a replica sleeps
  through one push (699,702 states). Larger pools and caches are left to the
  theorems, which prove all of the run's properties but `Drains`.
  No symmetry is used, since the run also checks liveness.
- *fully_async*: 7 samples allow three pushes and an incomplete trigger period
  at the end; a limit of 4 is two trigger periods, so that pausing, the reset
  and a full queue all happen, and `NeverStarved`'s proviso holds with equality; two
  tasks overtake each other on the way to the queue, over a push or not (180,659 states).
- *point_in_time*: with a horizon of one trading day and one of warm-up, the
  seven trading days give four tasks. The three settings make the export take the
  validation split, fall back on the test split (after thinning), and fall back on
  training rows; with a second build, tasks and labels of different settings are
  merged. Two reports tell the latest from the first. A training process asks for
  one table (`MaxLoaded`) of one date at a time, up to a day beyond its task
  (`AskAhead`): no property relates two answers. Deadlock is checked here.
- *sync_trainer*: two ranks tell a torn shard from a whole one; a save at step 4
  and one at the last step 5, with the capacity block expiring at others, rotate
  both kinds of retention; 7 steps are one more than the six batches, so that the run
  ends without a last step and with steps 5 and 6 unsaved; two epochs make a restart at the epoch boundary and
  inside; a warm-up of 2 has a step that trains only the critic; two stops allow a
  crash during recovery of a crash (847,900 states). The expiring block may make any
  step be saved, the first included, which of the two branches of `should_save_ckpt_esi`
  only the SageMaker one does (`checkpoint_manager.py:260-266`).
- *table_store*: two runs overlap and a third comes after, before or in between;
  the run that is killed may be any. One raw table suffices because tables do not
  interact; one answer, since an empty one tells old data from new. The runs are
  interchangeable, hence the symmetry (3,978,506 states).
- *batch_flow*: lengths 1, 2, 4 and 7 include one that fits no micro-batch; the
  batches include one padded more than once around and one of each size that is
  refused. Deadlock is checked (183,543 states).
- *final_answer*: of the three cuts, one leaves the longer result whole and the others
  cut it on the left and, inside a string, in the middle, the deployed side; one
  round puts a draft before the response and the answer behind it. Steps of 1/13 are
  the coarsest for which sums below, at and above 1 are valid; returns lie below, at
  and beyond the scale of the profit on both sides; six calls go past the budget of
  four; the theorems say the rest about forecasts, of which the run has those that leave
  none, little or half for neutral and add up to 1 or nearly (467,740 states).

`CHECK_DEADLOCK FALSE` is given where the system stops: a rollout returns, a response
is scored, the conversations run out of turns, training ends, the runs of the
pipeline are over.

### Fairness

- *rollout*: weak fairness of `Next`. One coroutine runs on an event loop;
  engine and tools answer (the code sets no timeout on either).
- *balancer* (`HFairness`): an engine that is not paused produces and ends what it
  runs, Ray delivers a release, replicas answer and the trainer goes on. Nothing
  is assumed of acquires: nobody must ask for another turn.
- *fully_async*: each coroutine goes on when it can. Waiting for the asyncio
  lock is strongly fair because the lock serves its waiters in order. The
  monitor's timer fires again and again, so its question is strongly fair too.
  A generation ends, and is not assumed to raise or not to.
- *sync_trainer*: the processes run, and whoever started the job starts it again
  after a crash. Nothing is assumed of crashes, reruns and the expiration of the
  machine. The other runs check safety only.

## 4. What is proved

The theorems hold for every value of the constants that satisfies the modules'
assumptions: lengths of at least 1, a non-empty standalone pool, a finite set of
requests, a cache of at least one entry, and for the asynchronous policy
`max_required_samples >= required_samples * trigger_parameter_sync_step` (a
staleness threshold that is not negative) and a concurrency of at most
`max_required_samples`, which `set_max_required_samples` sees to; for the
synchronous trainer at least one rank, an actor with or without a critic, and any
integers for `total_training_steps`.

The reward has assumptions of its own. `TasksAssumption` gives the settings of a task
their ranges: `min_tool_calls` is at most `max_tool_calls`, and the bonus is not negative,
neither of which the code checks; the penalty is taken by its absolute value there.
`SettingsAssumption` keeps the penalty
for missing calls, and what a used-up budget of calls costs, below 0.56 of the
reward's unit; the code checks neither, the scripts set at most 0.30.
`ForecastsAssumption` gives the numbers of an answer their types.
`TextsAssumption` is about the texts a transcript is made of: the four characters
the scan looks at are different, no uncut tool result leaves a string or a brace open
(the tools return JSON), an answer is one object, and it says something nothing else
in the transcript says, so that two of them can be told apart. Nothing is assumed of
the prose, which the model is free to leave unbalanced: that is a condition of
`AnswerScored` itself.

| Module | Theorem | Statement |
|---|---|---|
| `ToolAgentLoop_proofs` | `Invariance` | `Spec => []IInv` |
| | `AlwaysRoom` | `Spec => []RoomToGenerate` |
| | `BudgetKept` | `Spec => []WithinCallBudget` |
| | `ResponseMatchesMask` | `Spec => []ResponseAligned` |
| | `TypeCorrect` | `Spec => []TypeOK` |
| | `LogprobsStay` | `Spec => []LogprobsAligned` |
| | `OrderOfCalls` | `Spec => []MessagesInCallOrder` |
| | `ChargeIsShown` | `Spec => []ToolUseCharged` |
| `HybridValidation_proofs` | `TypeCorrect` | `Spec => []TypeOK` |
| | `CountersAccount` | `Spec => []InflightCounts` |
| | `GetsLeastLoaded` | `Spec => FewestOutstanding` |
| | `SessionsStick` | `Spec => StickySession` |
| | `Composes` | `HSpec => Spec`, so that the above hold of the composition |
| | `LabelsTrue` | `HSpec => []VersionsTrue` |
| `FullyAsync_proofs` | `TypeCorrect` | `Spec => []TypeOK` |
| | `OutstandingLimited` | `Spec => []OutstandingBounded` |
| | `AgeLimited` | `Spec => []QueueIsFresh` |
| | `NothingLost` | `Spec => []SamplesAccounted` |
| | `NoMutualWait` | `Spec => []NeverStarved` |
| `PointInTime_proofs` | `Invariance` | `Spec => []Inv` |
| | `BuildsWhole` | `Spec => []WholeBuilds` |
| | `NothingFromTheFuture` | `Spec => []PointInTimeAnswers` |
| | `ReportsCurrent` | `Spec => []LatestReport` |
| | `LabelsUnseen` | `Spec => []LabelBeyondShown` |
| | `ValidationHeldOut` | `Spec => []HeldOut` |
| `SyncTrainer_proofs` | `Invariant` | `Spec => []IInv` |
| | `TypeCorrect` | `Spec => []TypeOK` |
| | `BatchesOnce` | `Spec => []InStep` |
| | `CheckpointComplete` | `Spec => []TrackedComplete` |
| | `RolloutOnPolicy` | `Spec => []OnPolicy` |
| | `DeployedAtEnd` | `Spec => []EndsTrained` |
| | `Implements` | `Spec => ResumesSaved`, the refinement of `SavedProgress` |
| `TableStore_proofs` | `Invariant` | `Spec => []IInv` |
| | `NoneTruncated` | `Spec => []NeverTruncated` |
| | `RunsReproducible` | `Spec => []Reproducible` |
| | `OwnBuildRead` | `Spec => []ReadsOwnBuild` |
| | `DirectoriesOwn` | `Spec => []OwnDirectory` |
| `FinalAnswer_proofs` | `Invariant` | `Spec => []IInv` |
| | `LastAnswerScored` | `Spec => []AnswerScored` |
| | `FormatAlwaysPays` | `Spec => []FormatPays` |
| | `CallsAlwaysPay` | `Spec => []CallsPayAsAsked` |
| | `TruthAlwaysPays` | `Spec => []TruthPays` |
| `BatchFlow_proofs` | `InvariantHolds` | `Spec => []Invariant` |
| | `ResponsesOwn` | `Spec => []OwnResponse` |
| | `PartitionsBalanced` | `Spec => []BalancedPartitions` |
| | `AnswersRestored` | `Spec => []LogprobsRestored` |
| | `StartEqualSorted` | balancing starts from sorted groups of neighbours |
| | `MergeKeepsSpread` | a round keeps every bound on the spread |
| | `MergeKeepsRows` | a round loses and doubles no row and keeps sizes equal |
| | `RestoreUndoes` | restoring undoes any permutation |

The arguments:

- *ToolAgentLoop.* No property about the returned output is inductive: the
  output is a function of the transcript, so the transcript must be known. `IInv`
  has four parts. `Typed` is the part of the types the other parts need.
  `TurnsPaired` says that a user turn follows each assistant turn but the last,
  and how far both are below the turn limit in each state. `Aligned` says the
  transcript is a prompt of at most `prompt_length` tokens followed by one token
  per mask entry, generated exactly where the mask is 1, and that the mask is
  within the budget whenever the loop goes on. `Returned` says the output was
  cut from the transcript at its mask. `AlwaysRoom` follows from `Aligned`,
  `BudgetKept` from `TurnsPaired`, `ResponseMatchesMask` from `Aligned` and
  `Returned`: a mask that is not empty cuts the transcript where the prompt ends. The
  properties of the rounds need
  three more invariants, each inductive with `IInv` and `TypeOK`: `Recorded`, a
  log-probability for each mask entry, and a token before every round of tools
  (else the responses would get no placeholders); `InOrder`, which rounds the
  messages kept are of, and that a round has a call; `Charged`, that the mask has
  one block of tool tokens per user turn, none of them beyond the response
  length, and that a round starts after a generated token, so that its block is
  a new one (`OneMoreBlock`).
- *LoadBalancer.* `InflightCounts` is inductive with `TypeOK` because it speaks
  of the requests still outstanding on a server in any of its lives. A release
  that finds the count at 0 belongs to a former life; the history variable
  `inexact` marks the server until those have arrived. With exact counts the least
  count is the least load, hence `GetsLeastLoaded`. `SessionsStick` needs the
  order of the cache: `CacheKnows` says that every conversation is either still
  in the cache, with the server it held last, and all entries behind its own are
  of conversations that acquired since, or as many of those as the cache has
  entries have acquired. An eviction removes the first entry; then all others are
  behind it, and they are different (`DistinctMany`, `RememberedKeeps`).
- *HybridValidation.* `Composes` shows that every step is one of the balancer's
  callers or leaves the balancer alone. `LabelsTrue` rests on an invariant `HInv`
  of three parts. `Placed` reads off the trainer's position which engines are
  paused, asleep and in the pool, and how far the version each serves is behind.
  `Conversation` has what holds of a response under way: no call runs in a paused
  engine (hence none is computed while weights change); its tokens and first
  label are of versions that all standalone servers have reached, and so has the
  server it is at, wherever it was resumed; while it has no label its tokens are
  all of the version being served; and in validation there is one version. Steps
  of others change none of this (`Untouched`, `StepAround`). The pool being
  non-empty is what makes a hybrid server comparable with the standalone ones.
- *FullyAsync.* `OutstandingBounded` is not inductive: a reset sets the counter to
  what it has counted, so one must know that this is at least what is
  outstanding. `Bounded` adds that outstanding samples exceed the counter by at
  most the sample in hand, and that during a reset the running tasks are among
  those it counted. The lemmas on `Slots` count the samples of a queue through
  `Tail` and `Append`, since the termination signal is an entry but not a sample.
  For the age of samples, `Fresh` adds up three numbers: the entries in front of an
  old entry, a period's samples for each further version, and what the current
  period has collected. Taking an entry moves a unit from the first to the third, an
  update moves a period from the third to the second, and an entry becomes old with
  at most a queue in front of it. For the samples that were made long before they were
  put, `HeldBack` counts, for every version, those made before it and put under it or
  later together with those not yet put: when a version is pushed they are tasks at
  once, at most `max_concurrent_samples`, and a task that ends later is not of them
  (`Places`). With `Fresh`, whatever is too old by its making is held back. `NothingLost` needs that the termination signal is
  never dropped: the processor ends when nothing is generating, or failed, and then
  one task less than `max_concurrent_samples` can still put behind it (`SignalKept`).
  For `NoMutualWait`, the staleness counter never exceeds what is outstanding, what
  the period has collected and the tasks a reset counts twice (`Explained`), or
  else a sample was dropped from a full queue, which a period cannot empty
  (`Plenty`).

- *PointInTime.* `WholeBuilds` speaks of finished builds only, so `Inv` adds
  `Progress`, the tables the running build has saved, and `Prefix`, that a table
  exists only when all before it in the build order do; since the export reads the
  last table, the second part of `WholeBuilds` follows. `NothingFromTheFuture` needs no invariant of
  the disk: the lemmas `RowsDated`, `FundamentalsDated` and `DocumentsDated` hold
  of the tables of every build, hence of any mixture in the cache. `LatestReport`
  does need to know which table was cached when the answer was given
  (`ShownFundamentals`), and that it has a row for each of its days. `LabelsUnseen`
  adds that a task's entry day exists, is one day and lies after the task
  (`EntryNext`: the least of the later trading days), and that every rollout is of
  such a task (`Rollout`, over `Exported`, which `ValidationHeldOut` uses too: the
  files on disk are always a split of one merge). The assumptions
  are that days are positive naturals and a build's end date is one of them.

- *SyncTrainer.* None of the properties is inductive, and each needs the others.
  `IInv` adds: `Counted`, that step, epoch and position agree at every place of
  the loop; `Trained`, which step's weights all ranks hold there; `Written` and
  `Registered`, what the save under way has completed; `TrackerBehind`, that the
  tracker is older than the step until the save ends; `Tracked`, which says when a
  tracked checkpoint may be gone; `Remembered`, that the list of kept paths is
  increasing and ends with the tracked step, so that rotation never removes
  it; `Serving`; and `DueSaved`, that
  the tracker is at or past every step that was due, from which `EndsTrained` follows.
  With them a crash at any point leaves a disk from which
  `LoadCheckpoint` restores `Counted` and `Trained`: the arithmetic of the epoch
  boundary is in the lemmas `Position` and `Resumed`. `Implements` proves that
  initial states map to initial states and every step to a step of
  `SavedProgress` or a stutter, given `IInv`.
- *TableStore.* `IInv` has, beside the types, `Stages` (which table and format each
  place of a run is at), `PickleFirst`, the reason `NeverTruncated` holds: a CSV is
  there only where a pickle is, and a reader prefers the pickle; and `Directories`,
  that a run past its start has made the directory it was given, and that a run
  earlier than another is over, from which `OwnDirectory` follows. For `ReadsOwnBuild`,
  `Building` follows the three writes: what has been written is torn or by a run that
  was not over when this one started (`Fresh`), and a parquet is absent, fresh or
  refused. `Reproducible` needs the longest argument: `Keeping` says that an
  undisturbed run under way has all it used on disk, or is the one saving it, format
  by format, and `Kepts` that a run that is done leaves it there, where every later
  run finds those of them that are its own too, and hence saves none of them again.
- *FinalAnswer.* The arithmetic of the reward is by lemmas on each term: the squared
  error lies between 0 and 2 and falls when belief moves to the true class
  (`BrierBounded`, `BrierFalls`), the profit does not fall then (`ProfitKept`), the
  penalty of the missing calls is shared evenly (`PenaltyShared`), and clipping
  keeps the order (`ClipMonotone`). `LastAnswerScored` has an invariant of the scan.
  `Texts`: a mark of an answer is in the text only if that answer was written, cuts or
  no cuts. `Candidates`: the objects found are in order, end before the scan, and one
  that is open has begun behind them, where `start` says. `Follows`: while `intact`, that is, while nothing was
  cut or left open, the scan is where that of the whole text is, which during the rollout ends with nothing open; the
  answer written last is an object of it at some place, with no mark of an answer
  behind; and once the scan is past that place, it is a candidate. A text that leaves
  nothing open is continued by the scan of the next piece alone (`ScanContinues`), so
  that whatever is written next keeps this (`PieceKept`). The last candidate that is
  an answer is then the answer written last; with a cut, by `Texts`, still one of those
  written.
- *BatchFlow.* `Invariant` has three parts. `OwnInvariant` follows the rows: while
  rollouts run, every answer is to the row at its own place of the batch that was
  sent (`RolloutRight`); joining, unpadding and the union keep places, by the
  arithmetic of places in parts (`PlaceOf`, `PlaceAt`), hence `RowsRight`; and a
  heap over the rows holds each of them once, in sets of equal size (`Balanced`), so
  that the order it gives is a permutation (`OrderIs`). `BalanceInvariant` bounds
  every solution of the heap by the widest of the first groups. One round keeps such
  a bound (`MergeKeepsSpread`): the heaviest set of one solution is joined with the
  lightest of the other; for any two sets of the join, the order of one part is the
  reverse of the order of the other, so their difference is at most one of the two
  spreads (`SumsApart`). A rearrangement of finitely many sets is a bijection
  (`PermutesOnce`), hence nothing is lost by sorting (`MergeKeepsRows`). The bound is
  stated on the rows as they are, so the reordering must not change it: rearranged
  workloads are the same when sorted, since as many of them are below any limit
  (`SameOrder`, `SpreadsStay`). `RanksInvariant` has what a rank knows in each state
  (`RankRight`): no rank goes on before all numbers are there; then every solution on its
  heap has the same number of sets, whose sums are the workloads of their rows
  (`MicroHeap`); and what comes of it are micro-batches that enumerate the share
  (`MicroRight`) and an answer in its order. It holds in a step that fails too, since
  the other ranks keep what they have. The number a rank brings is at least 1 because
  lengths are positive and running totals grow (`CountIs`).

Only model-checked: the liveness properties (`Terminates`, `Drains`, `Completes`):
liveness under fairness and ENABLED are beyond the prover. All the invariants the
passing runs check are proved, and the action properties too. The types of
`LoadBalancer`, `FullyAsync` and `SyncTrainer` are proved and not among the runs'
properties; those of `PointInTime`, `TableStore` and `FinalAnswer` are parts of the
invariants proved of them, and `BatchFlow`'s invariant has the types its properties need.

What a recursive definition computes for every input needs induction. The library's
induction theorems take an operator, which the provers cannot instantiate, and modules
with RECURSIVE operators cannot carry theorems; the modules above have none. Where a
proof needs induction on numbers, it uses the least member of a set of counterexamples
(`NoLeast`, from `WFMin`): so for running totals (`RunningTotal`), for the sum and
the concatenation of the community modules (`TotalIs`, `SumsExist`, `FlattenIs`,
`FlattenEnumerates`, `FlattenShares`).

## 5. Plan

Done, in the order in which it was built: `ToolAgentLoop`, `LoadBalancer`,
`FullyAsync`, `PointInTime`, each with theorems; `SyncTrainer` over the abstract
`SavedProgress`, with the refinement checked and proved; `TableStore`; `Balancing`
and `BatchFlow`; `HybridValidation` over `LoadBalancer`, with theorems on both;
`FinalAnswer` and `StockReward`; theorems on `TableStore`, `FinalAnswer` and
`BatchFlow`.

What is worth adding:

| Module | Content | Composition |
|---|---|---|
| `PartialRollout` | the `max_tokens` the resuming client writes back into the caller's sampling parameters | refines the server call of `ToolAgentLoop` |
| `BoundedStream` | abstract specification: a stream of samples of bounded age | `FullyAsync` refines it |

Theorems still worth proving: the refinements of these two.

## 6. What is not modelled, and why

- Options the pipeline does not turn on: remote copies of checkpoints, asynchronous
  saving, `resume_path`, lora and HuggingFace exports; the prefix grouper,
  `keep_minibatch`, fixed micro-batch sizes and the mini-batches of the update
  loop, which reuse the same partitioning.
- The removal of a checkpoint directory is atomic in the model; the order in which
  a shuffled epoch yields its batches is the same after a restart, as the data
  loader's state restores it.
- Contents: texts, images, tokens beyond their provenance, prices and labels.
- PPO arithmetic, advantage estimation, weight transfer: numerical code and pure
  I/O, out of a model checker's reach.
- In the reward: the penalties for invalid and future-time tool calls, whose counts
  nothing in the repository supplies, the fallbacks for malformed settings, negative
  and non-numeric probabilities, and the metrics beside the score.
- The inference engine: external; modelled by what `generate` may return, and in
  `HybridValidation` by what pausing, sleeping and new weights do to it.
- An abort whose exception `abort_all_requests` swallows, vLLM before 0.12, and
  the last push of a run, which may repeat the version of the one before.
- In the asynchronous trainer, saving because a machine is about to expire (`esi_redundant_time`), an option
  the pipeline's configuration does not turn on.
- `clear_queue` and `shutdown` of the message queue, called only when a run is
  over, and its memory statistics.
- Cancellation of the other component after a failure in `fully_async_main.py`.
- Several stocks and industries, the membership of the universe, and the prompt
  text of a dataset row.
- Report, SFT, baseline: straight-line code without concurrency
  or persistence beyond the table cache.
