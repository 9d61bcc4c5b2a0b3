# A verification of dlp-server

dlp-server inspects the requests that employees send to language models, and
the responses. A proxy calls `Inspect` for both directions; the server finds
personal data, replaces it, and puts it back into the response for those who
may see it. This directory holds TLA+ modules of the server, configurations
for TLC, and proofs for TLAPS. Paths in this text are relative to the root of
the repository unless they end in `.tla` or `.cfg`.

    tlc -config vault_calls.cfg MCTokenVault
    tlapm TokenVault_proofs.tla

## The system

| part | code | state | operations |
|---|---|---|---|
| bootstrap | `app/main.py` | the stop event | warm-up of the NER model, gRPC server, dashboard, stop on a signal |
| connection pool | `app/db.py` | `_pool` | made by the first use, lends connections, closed at the end |
| gRPC server | `app/grpc_server.py` | none | `Inspect`, on a pool of 8 threads; each call runs `pipeline.analyze` to its end |
| pipeline | `app/pipeline.py` | none but the call's context | six input stages, two output stages, the block check, one event for every decision |
| adapters | `app/adapters/` | none | body to turns, turns to body, for the Gateway and Gemini formats |
| guardrails | `app/guardrail/` | none | injection check of a request; rescan of a response |
| detection | `app/detect/` | the loaded dictionary; `_engine` and its model, under locks | three layers, merged into disjoint spans |
| purpose, role | `app/purpose/` | none | keywords to purpose, headers to role |
| multi-turn context | `app/context/` | `_states`, session id to `SessionState`, in memory | load, save, expire, sweep; `multiturn_stage`, `remember_purpose_stage`, `get_last_purpose` |
| risk accumulator | `app/context/accumulator.py` | inside `SessionState` | `accumulate`: entities, turn times, score |
| policy engine | `app/policy/engine.py` | `_cache`, a ruleset | `decide`; the first call loads the ruleset |
| policy seeding | `scripts/seed_policy.py`, `scripts/apply_schema.py` | three tables | seed, `--reset`, drop and make the schema |
| transform | `app/transform/apply.py` | none | replaces spans, calls the vault |
| token vault | `app/transform/vault.py` | `token_vault`, `token_vault_access_log` | `tokenize`, `detokenize`, `revoke_session`, `purge_expired` |
| audit log, bus | `app/logging/`, `app/pipeline.py:128-163` | `log_events`, a JSONL file, the subscribers' queues | insert, fall back to the file, publish |
| dashboard API | `app/api.py` | one queue for each stream | `/events/stream`, `/events`, timelines, `/stats` |

How they meet:

* Calls of one session run in several threads at once. They share the
  `SessionState` object (the store hands out the object itself, its lock covers
  the dictionary only), the session's rows in the vault, the policy cache and
  the bus.
* A response finds its purpose in the session: `get_last_purpose` returns what
  the last request of the session left there.
* An expired session calls back, outside the store's lock, and revokes its
  tokens.
* Engine, session store, policy cache and pool are module globals that the first
  use makes: the engine under a lock, checked twice; the others without one.
* The vault relies on PostgreSQL: an advisory lock for each session and type, a
  unique index on the live rows, READ COMMITTED statements.

What is hard: the steps of two threads between two statements or two accesses
to a shared object; a commit whose acknowledgement is lost; a stage that raises
after others have changed shared state; expiry between load and save; a policy
reseeded or dropped under a loader; first calls that each make what there should
be one of; a stop that overtakes calls; full queues and dead streams. `PROJECT.json` lists
each hazard with its line and the properties about it.

What makes each part correct:

* Vault: a label means one value for ever; a value has one live label; what is
  restored is what was tokenized, with a row in the access log; no call hangs.
* Session: no turn, entity, count or purpose is lost; a turn is judged by its own
  score; an expiry revokes the expired session's tokens, all and only those.
* Risk: the incremental state gives the score of the whole conversation; a
  block needs a recent combination; the representative scenario blocks.
* Merge and transform: spans are disjoint and of the highest layer; the text
  between them is untouched, but for white space at the end before a summary.
* Policy: a decision uses one whole policy, and is determined by it.
* Pipeline: nothing goes out raw that the policy does not keep, and nothing
  comes back raw that the vault did not restore, whatever fails on the way.
* Log: what is answered is recorded; what is shown is committed; streams lose
  events only to a full queue, or one when they leave; a timeline shows a request
  before its response.
* Process: the configured model is loaded once; no race costs a call its
  database; a signal ends the process, whoever holds on to it.
* Adapters: the body sent on says what the stages left.

## Modules

| module | models | composed with |
|---|---|---|
| `TokenVault` | `vault.py`, one action for each SQL statement or commit | implements `LabelRegistry` |
| `LabelRegistry` | what a vault promises, with no locks or counters | |
| `TokenVault_proofs` | theorems about `TokenVault`, and that it implements `LabelRegistry` | |
| `RiskScore` | `accumulator.py`, as operators | used by the next two |
| `RiskAccumulator` | one session, turn after turn | |
| `RiskAccumulator_proofs` | theorems about `RiskAccumulator`, and lemmas about the sums of `RiskScore` | |
| `MultiturnSession` | `store.py`, `stage.py` and `accumulate`, one action for each access to a shared object, but for the two that read all records | the vault's live tokens, as a set |
| `MultiturnSession_proofs` | theorems about `MultiturnSession` | |
| `SpanMerge` | layers, thresholds, merge and replacement of one request text; rescan and masks of one response text | |
| `PolicyRules` | `pick_action`, overrides and `policy.yaml`, as operators | used by the next two |
| `PolicyCache` | `ruleset()` in threads beside `seed_policy.py` and `apply_schema.py` | |
| `PolicyCache_proofs` | theorems about `PolicyCache` and `PolicyRules` | |
| `InspectPipeline` | `analyze` in threads: a stage is a step, and so is a vault call | policy, session purpose, vault rows |
| `InspectPipeline_proofs` | theorems about `InspectPipeline` | |
| `EventLog` | `_emit_log`, `write_pg`, the bus, `/events/stream`, and the queries of the dashboard | |
| `EventLog_proofs` | theorems about `EventLog` | |
| `Server` | `main.py`, `db.py`, the lazy parts of `ner.py` and `stage.py`, in the threads of a process from start to stop | |
| `Server_proofs` | theorems about `Server` | |
| `AdapterBodies` | `extract_turns`, `rebuild`, `parse_response`, `rebuild_response` | |
| `Texts_proofs` | theorems about `SpanMerge` and `AdapterBodies`, whose loops share lemmas | |

`AdapterBodies` says `BodyInit`, `BodyNext` and `BodySpec`, because
`Texts_proofs` extends it together with `SpanMerge`. A module `MCx` gives `x` its values for TLC. Names follow the code. `pc` says
which statement a thread runs next, and `arg`, `loc` or `ctx` holds its local
variables. Variables called history in a comment are no state of the program;
they only serve to state properties. A definition marked "Mutant" is a
plausible mistake that no behaviour of the module uses: `PROJECT.json` names the
property that finds it.

Data is reduced to what the properties tell apart. A hash is what is hashed, a
ciphertext its plaintext, a label its type and number, a confidence a whole
number of thousandths, a score of hundredths. A text is a row of positions in
`SpanMerge`, a set of pieces `[form, value]` in `InspectPipeline`, a sequence
of words in `AdapterBodies`.

Five choices that matter:

* In `TokenVault` the count, the insert and the re-selection of one tokenize
  are separate steps, because under READ COMMITTED each statement sees what has
  been committed when it runs. A commit may succeed and its acknowledgement be
  lost: the row is there and the caller sees a failure. The row of the access
  log, its commit and the return of the value are three steps of a restore
  (`LogAccess`, `CommitAccess`, `Grant`), and each of the first two may fail.
  The insert of a tokenize is one step with its commit, because nobody reads
  between the two what the advisory lock and the unique index keep apart.
* In `MultiturnSession` a step is one access to a shared object: the
  interpreter may switch threads between any two. Looking up an entity (`Get`,
  `Miss`), writing its last turn, reading its count and writing it back are four
  steps, and an insertion is one of its own; the records are numbered, so that
  a thread goes on writing to a record that another has replaced. Only the scan
  for active records and the computation of the scores read the records, and the
  stamps, in one action each. Growth of a dictionary during its iteration
  raises, as in Python.
* In `EventLog` a stream waits in a worker thread of its own, as
  `asyncio.to_thread` makes it (`api.py:125`): `Take` and `TimesOut` are steps of
  that thread, `Get` and `Heartbeat` those of the stream that resumes, and
  `Cancel` takes the stream away and leaves the thread, unless the pool has not
  yet begun the wait.
* In `PolicyCache` TRUNCATE and DROP wait for the transactions that have read a
  table (their ACCESS EXCLUSIVE lock), and both restart the version numbers.
  Without the wait a loader would mix two policies under one number.
* In `Server` a read of a module global and an assignment to it are separate
  steps, and so is the second read in `return _pool`. Stores and pools are
  numbered, so that a call that was returned the one that was replaced goes on
  with it. A call keeps to one connection at a time.

## Runs

| run | question | instance |
|---|---|---|
| `vault_calls` | Are labels unambiguous, restores faithful and audited, does the table implement the registry, and does every call end? | 2 threads, 2 values, a listed and an unlisted type, 2 rows, 1 restore, a scope that grants to everyone, clock to 2 |
| `vault_erased` | Is a label number never reused, as `vault.py:100` says? | 2 threads, 2 values, one type, 3 rows; violated |
| `risk_score` | Is the score that of the conversation, and what does a block need? | 5 turns of 6 kinds, gaps of 30 and 31 s, thresholds 0.6 and 0.8, window 3 |
| `session_calls` | What survives overlapping calls, and what when they do not overlap? | 2 threads, 3 calls, 3 settings |
| `session_lost_turn` | Does the store's lock keep every turn, as `tests/test_accumulator.py:225` says? | 2 threads, 3 calls that overlap freely; violated |
| `merge_spans` | Are spans disjoint, rightly chosen and rightly replaced, and is a response masked? | every set of up to 3 findings in 4 positions, of a request and of a response; white space nowhere, at the end, or inside |
| `policy_cache` | Does a decision use one whole policy, and is it determined? | 2 threads, 2 policies, 3 runs of the scripts |
| `pipeline_calls` | What may go out and come back raw? | 2 threads, 2 roles, 2 purposes that a text may name at once, risks 0, 0.6 and 0.8, injection threshold 0.75 |
| `pipeline_scope` | Does a label's scope fit the request it goes out with, as `apply.py:133-134` says? | 1 thread; violated |
| `events_logged` | Is every decision recorded, what may a stream miss, and do timelines and statistics agree with what was decided? | 2 writers, 2 events, 3 sinks; 2 streams with different filters and queues of 1, or 3 queries of `/stats` and a clock to 2 |
| `adapter_plain` | Does the rebuilt body say what the stages left? | requests of up to 2 items of both formats, those that are `Plain`; responses of up to 2 messages, choices or candidates |
| `server_life` | Do start, first calls and stop leave one of each, and does the process end? | 2 workers, a reader of the dashboard, 3 calls, a pool of 1, one stream |

The properties of each run, with what each excludes:

* `vault_calls`: `OneLiveLabelPerValue` (two live rows of one value);
  `LabelsUnambiguous` (one label, two values, at one time);
  `LabelDenotesOneValue` (the same over all labels ever returned);
  `RestoresTheTokenizedValue` (a label gives back another value);
  `RestorationsAudited` (a value handed out though the insert into the access
  log or its commit failed);
  `ImplementsRegistry` (a step that the registry does not allow, such as a
  revoked label that comes back to life); `CallsEnd` (a thread that waits for
  ever).
* `risk_score`: `ScoreOfConversation` (what `accumulate` keeps is not enough),
  `BlockedForRecentCombination`, `RepresentativeScenarioBlocks`.
* `session_calls`: `TurnsCounted`, `PurposeOfLastTurn`,
  `RiskOfOwnTurn`, `EntitiesKept`, `ExpiredTokensRevoked`, `OnlyExpiredRevoked`
  (what another thread or an expiry takes from a call).
* `merge_spans`: `SpansDisjoint`, `OneSpanPerChain`, `HigherLayerWins`,
  `SpansReplacedInPlace` (offsets shifted by a replacement; a summary that takes
  more than the white space at the end); `RescanMasksAll` (text that no finding covers is lost, or text that one covers goes out).
* `events_logged`: `AnsweredIsRecorded`, `SentIsLogged` (a stream shows what no
  query finds), `DeliveredOrDropped` (an event that a stream loses though its queue had
  room and its worker did not take it), `TimelineInOrder` (a response listed before
  its request), `StatsSectionsGrow` (a later section of one answer counts less
  than an earlier one).
* `policy_cache`: `NoTornRuleset`, `OneBestRule` (a decision that depends on the
  order of the rows).
* `pipeline_calls`: `PassedWithinPolicy`, `RawIsRestored`, `RestoredToItsRole`,
  `BlockedTouchesNothing`.
* `adapter_plain`: `SentBodyHoldsTurns`, `OnlyLatestTextReplaced`.
* `server_life`: `ConfiguredModelLoadedOnce` (an engine of default settings, or
  a model loaded twice); `DatabaseReachedWhileServing` (a call that finds its
  pool closed or gone before the end); `TurnsKept` (a turn saved in a store that
  is replaced later); `PoolsClosedAtExit`; `CallsFinish` (a failed load that
  keeps the lock); `ServerStops` (a stream that keeps the process alive).
* `vault_erased`, `session_lost_turn` and `pipeline_scope` refute
  `LabelsNeverReused`, `LockKeepsTurns` and `ScopeMatches`.

What they show beside the bare statements:

* Label properties hold for *settled* sessions: no two raw session ids map to
  one UUID, and `purge_expired` has hard-deleted no row of that session and
  type. `vault_erased` shows that the second condition is needed: the number is
  a row count, which a deletion makes smaller.
* `session_calls` puts three settings side by side. With free overlap
  entities are kept, and nothing more: turns, scores and purposes are not, and
  the count of an entity may be less than its mentions, because two increments
  met or because a record was inserted over another. With input calls one after the other these hold too, among output calls,
  expiries and sweeps. Only where nothing of a session overlaps does an expiry
  revoke the right tokens, since its hook runs outside the lock.
* `pipeline_calls` is about `fail_action = block`. With `allow` a stage that
  raises lets the body through as it came, by intention (`app/config.py:109`).
* `adapter_plain` takes the requests that `rebuild` can put together: what is no
  object comes after the objects, and no turn has the role of a system
  instruction that has no text (`Plain`). For others `SentBodyHoldsTurns` is
  false. Responses are unrestricted: their adapters read and write one item,
  found by the same conditions.
* A block by the risk threshold comes after the stages: such a request has
  changed the session and the vault. `BlockedTouchesNothing` is about blocks by
  the injection guard and the policy.

* `server_life` says what the races of first calls cost. Two pools: the one
  that is replaced stays open and serves the calls that have it, and is never
  closed, so that `PoolsClosedAtExit` is about pools without such a race. Two
  stores: a turn is lost with its store only if its call took the store while
  another first call was still to make one.
* `events_logged`: a stream that leaves may lose an event that was in its queue:
  the worker of its last wait took it, and nobody sends it.
* `merge_spans`: a summary of amounts takes the white space before it. Where a
  span was emptied at the end of the text, that is the white space before the
  span.
* `merge_spans`: where a response has an RRN without a hyphen inside a longer
  CARD or EMAIL finding, the mask of the RRN is one character longer than the
  RRN, and the end of the text that the longer finding covers appears again
  behind its mask. `RescanMasksAll` allows that much and no more.

### Bounds

Two threads are enough for the races, each of which is one thread between two
accesses of another. Two values are the least that can be confused. Two rows
allow the second to be numbered while the first is read, revoked or deleted; the
three rows of `vault_erased` allow one to be deleted, one to remain and a third to
be numbered.
One restore meets every refusal but that
by role or purpose, which is a look at the scope alone: `pipeline_calls` has two
roles and two purposes.
Sessions get three calls: one that makes the state and two that meet on it; the
clock passes their lifetime of two ticks. Where calls overlap freely it stands
still, since what is claimed there is about the shared object alone. Five turns
exceed the window of three by two, so that turns leave it while others repeat,
and the gaps of 30 and 31 s meet and miss the speed threshold of 60 s for three
turns and of 120 s for five. Three findings are the least that chain two which do not overlap. A queue
of one is full after one event. Two policies and three runs of the scripts allow a loader
to meet the end of one policy, a gap, and the next. One clock tick is a window of
`/stats`, and three queries of its five let a row appear, and age, between two
others. A pool of one is exhausted by a second call; three calls let two meet as
first calls and a third find what they have left. `MaxRows`, `MaxTime`,
`MaxAttempts`, `MaxTurns`, `MaxCalls`, `MaxFindings`, `MaxRuns`, `MaxEvents`
and `until` bound what the program leaves unbounded. Symmetry is used for
threads and values that no definition singles out, in runs without liveness.

Deadlock is checked in the vault, policy and pipeline runs. The other runs say
`CHECK_DEADLOCK FALSE`, because calls, turns or events run out, because one
text or body has been dealt with, or because the process has ended.

### Fairness

Liveness is checked for the vault and the process. In the vault, a thread that has begun a call runs on (weak
fairness of its steps): nothing preempts a worker for ever. A thread that waits
for an advisory lock gets it if the lock is free again and again (strong
fairness): PostgreSQL queues the waiters in order of arrival. Nobody has to
begin a call, to revoke or to purge. `CallsEnd` then says that no failure
leaves the lock with a thread that is gone.

In `Server` the threads and the main thread run on (weak fairness). A lock is
held for a few steps that always end, and three calls are all there are, so that
weak fairness of a thread waiting for it is enough. Nothing is
assumed of a signal, of a client that holds a stream, of uvicorn, or of a model
that can be loaded. `ServerStops` then rests on the timeout of `join`, and
`CallsFinish` on the release of the lock by a load that raises.

## Proofs

Eight modules hold theorems, the `*_proofs`. Run `tlapm` on each. A theorem holds for every value of the constants that the
`ASSUME` of the model allows, so for any number of threads, sessions, values and
calls, and whatever the bounds. TLC
evaluates each `ASSUME` in a run. A property that a run checks carries the same
name in its theorem. Most properties are not inductive, since they speak of what
has been answered already and not of the call that is under way: the invariant
of each part says what a thread may rely on between two of its steps.

### Vault

`TokenVault_proofs` assumes of the constants that threads are finitely many (the registry counts the labels that are being made),
every raw id has a UUID, bounds are natural numbers, scopes are sets of roles
and purposes, and `None` is neither a thread nor a role nor a purpose.

* `TypeCorrect`: the state has its types.
* `InvariantHolds`: `VaultInv` is an invariant. It is inductive, and this is
  the argument. A thread in the counter section holds the lock of its session
  and type (`LockHeld`). In a settled session that is the one lock for the
  counter, so nobody else inserts, and the count a thread has read is still
  the number of rows when it inserts (`CountCurrent`). Rows are revoked, not
  deleted, so every number up to the count was given once (`NumberedOnce`), and
  the next one is fresh. A row's hash is that of its ciphertext
  (`HashOfValue`), so a look-up by hash finds the right label, and a label that
  has been issued stays in the table (`IssuedInTable`).
* `LabelsAreUnambiguous`: two rows of one label are one row.
* `LabelsDenoteOneValue`: callers given one label had one value.
* `LiveLabelsAreUnique`: a value has one live row, settled or not; this is the
  unique index together with the conflict clause.
* `RestorationIsFaithful`: what is restored under a label is what was
  tokenized under it. Besides `VaultInv` it needs `RestoreInv`: the row that a
  restore has read stays in the table while the session is settled, revoked in
  the meantime or not.
* `RestorationsAreAudited`: a restored value has its row in the access log,
  whichever insert or commit fails or is not acknowledged. `AuditInv` adds the
  calls that are about to return: each has committed the row of its own attempt
  (`Logged`), since a call whose insert or commit fails returns without a value.
* `RevokedStayDead`: a step makes no revoked label of a settled session live
  again. No run checks this one; it is a step towards the next.
* `VaultImplementsRegistry`: every step of the vault is a step of `LabelRegistry`
  or none, under the mapping of `TokenVault.tla`. It is proved where no two raw
  ids share a UUID (`NobodyShares`), as in the run: with two spellings of one
  session a value may be live twice, which the registry forbids. Besides
  `VaultInv` the proof needs that a row's hash is of its own session
  (`HashOfSession`), and that the table has room for what is being inserted
  (`RoomInv`), which is what ties the bound of the vault to that of the registry.

### Sessions

`MultiturnSession_proofs` assumes (`StoreAssumption`) a positive lifetime,
known settings, and that `None` is no number and no session.

* `NoEntityIsLost`: with free overlap, a mention that was registered has its
  entity, with a count not above the number of mentions. `MentionsInv` says so
  of every record there ever was, of every object, in the store or not, whether
  its key still leads to it or another thread has replaced it; a thread halfway
  through an increment has read no more than the mentions there are. An
  increment may be lost, but a key never is. Where input calls come one after the
  other the count is exact: by `ExactInv` the only thread that updates the
  object holds the one record of its key and the count it has.
* `TurnsAreKept`, `PurposeIsKept`, `RiskIsItsOwn`: while the input calls of a
  session come one after the other, its turns are counted, its purpose is the
  last, and a turn is judged by its own score. `InputsInv` follows the one
  input call: the state of its session is the one it holds, or has been removed
  because it expired (`StoreOK`); while that lives it has counted the
  session's turns (`CountOK`) and holds the purpose (`PurposeOK`) and the score
  (`ScoreOK`) of the call. `SessionOK` says what is left between two calls.
  Others only read, or take away what has expired (`Aside`).
* `ExpiryRevokesNoLiveToken`, `ExpiryRevokesItsTokens`: with one call of a
  session at a time and no sweeper, an expiry revokes the tokens of the expired
  state, only those and all of them. `TokenOK` says where the state of a token
  is: in the store, at a thread that is about to revoke, or among those whose
  hook has failed.

### Risk

`RiskAccumulator_proofs` assumes (`ScoreAssumption`, `AccumulatorAssumption`)
a window of at least one turn, caps and weights and thresholds that are natural
numbers, and that turns are sequences of keys. The types, the combinations and
the velocity thresholds are those of the code.

* `ScoreIsOfConversation`: the score `accumulate` stores is the one of the whole
  conversation. `RiskInv` is inductive: the entities are the keys of all turns,
  each with the number of its mentions in all of them (`CountIn` is `Mentions`)
  and with the last turn that names it. So the entities last seen in the window
  are the keys of the window's turns (`ActiveAreRecent`), and their counts make
  the repetitions (`RepeatsAreExtra`). `ScoreInv` says that the score is the one
  of the last turn.
* `BlockNeedsCombination`: no block without a combination in the window. The
  theorem assumes what the reason is: `RepeatCap` plus the 15 hundredths of both
  velocity thresholds (`VelocityBounds`) stay below each `HardBlocks`. `config.py`
  and `config.yaml` have 15, and 60 and 80; with a repeat cap of 0.45 and
  `config.py` the property would be false.
* `RepresentativeIsBlocked`: a name, an RRN and an account complete three
  combinations, which weigh 80 together (`RepresentativeTotal`). It assumes that no
  threshold is above 80 or above `ComboCap`.

The sums of the model and the loop over the spans of a turn are recursive
functions. The module first proves that there are such functions (`SumExists`,
`LoopExists`), then that a sum does not depend on the order (`SumSplits`) or on
what is outside the set (`SumAgrees`), and that the loop has registered the spans
it has passed (`RegisterEffect`). Each of these is an induction, done by hand
with the least set or number that would be an exception (`LeastSubset`,
`LeastNumber`), because the induction theorems of the library take an operator.

### Policy

`PolicyCache_proofs` assumes (`PolicyAssumption`) that a policy is a record of
rules and overrides, and that the empty cache is told from every ruleset.

* `DecidesByWholePolicy`: no thread decides by a torn ruleset. `CacheInv`
  adds what a loader halfway has read: a part of the policy that is still
  committed (`PartRead`), since TRUNCATE and DROP wait for it; that what is
  committed is a whole policy or none (`TablesWhole`); and that the script which
  fills the tables does so only while no version is active (`SeedingSafe`), so
  that it meets no loader either.
* `DecidesInOneWay`: if each policy is `Unambiguous`, every question has one
  answer. That is: two rules that can match one turn and name equally many
  columns are one rule, and the overrides agree in action and priority. Among
  rules that match there is a most specific one because a rule has three columns
  (`MostSpecificExists`); nothing else about the policy is used. Both policies
  of the run are unambiguous; a policy that is not depends on the row order,
  which no check of `seed_policy.py` excludes.
* `ShippedDecidesInOneWay`: `policy.yaml` is unambiguous, whatever roles, entity
  types and risks are asked for.

### Pipeline

`InspectPipeline_proofs` assumes (`PipelineAssumption`) that purposes named by
texts are among the shipped ones without "unknown" (no keyword of
`classifier.py` leads to it), that `NoRole` and `NoPurpose` are told from the
others, and that risks and the threshold are hundredths.

* `PipelineInvariant`: `PipelineInv`, from which the others follow. The context
  of each thread fits its stage (`ContextInv`): from the transform on nothing is
  raw that the policy does not keep, a stage that blocked leads to the decision
  and nowhere else, and what has been restored was in scope for the
  role and the purpose looked up before. `RowsScoped` says that a row grants to
  the role (to every role if there was none) and the purpose it was made under,
  whoever inserts meanwhile.
* `OnlyPolicyPasses`, `OnlyRestoredIsRaw`, `RestoredForItsRole`.
* `BlockedIsInert`, about steps: a blocked request changes neither the session
  nor the vault.

### Log

`EventLog_proofs` assumes (`EventLogAssumption`) queues of at least one event
and a window of at least one tick.

* `SentIsFound`: a stream sends committed rows that its filter admits
  (`QueuesInv`), because a writer publishes only what it has committed
  (`RowsInv`).
* `AnswersAreRecorded`: an answered decision is in the table or in the file,
  unless the file could not be written either.
* `TimelinesAreInOrder`: `OrderInv` adds the rows still to be committed: they
  already come after every row of a decision that was answered before.
* `StatsOnlyGrow`: what a section saw is committed and young enough for the next.
* `EverySubscriberIsServed`: `DeliveryInv` says that a stream of the copy has
  been served or is still to come in it. Streams that leave shift the list of
  subscribers, and never the copy. What is in a queue moves only to the worker
  of its stream, and from there to the client, or among what the filter passed
  over; the worker of a stream that has left keeps what it took, and begins no
  second wait.

### Process

`Server_proofs` assumes (`ServerAssumption`) that workers, readers and the main
thread are different threads and that `None` is none of them, no number, and
neither of the two settings of the engine. `ThreadsOK` says that the engine is
made before the first call comes.

* `ModelIsLoadedOnce`: besides, who is between the second check and the end of
  the load holds the lock, and who loads has found no model (`ModelInv`).
* `TurnsStay`: a store of which a call was told while no thread was about to
  make one stays the last (`StoreInv`), because `_store` is never None again.
* `DatabaseIsReached`: until the pool is closed every pool ever made is open,
  and a thread that goes on from the check has one (`PoolInv`).
* `PoolsAreClosed`: a pool that was made alone is the one that main() closes
  (`ExitInv`).

### Texts and bodies

`Texts_proofs` assumes of `SpanMerge` (`MergeAssumption`) that confidences,
ranks and bounds are natural numbers, that a kind of finding has a rank of its
own (rank is its place in the list, and breaks ties of stable sorts), and that
actions are among the four. Nothing is assumed of the thresholds. Of
`AdapterBodies` it assumes (`BodyAssumption`) that bodies have the fields of
their format, of any length, that what the stages put in a text is not empty,
and that `Missing` is no list.

The loops are recursive functions here, and each proof has the same three parts:
there is such a function (`LoopExists`), an invariant of its rounds, and an
induction by hand over their number (`UpTo`). Sorting chooses an order: that
there is one for any finite set with distinct keys (`SortedExists`) is an
induction over its subsets.

* `SpansDisjointHolds`, `OneSpanPerChainHolds`, `HigherLayerWinsHolds`:
  `MergeInv` says of the spans what `MergeSpansAre` proves of `MergeSpans`. The
  invariant of the sweep is `SweepOK`: the clusters so far part what has been
  swept, each is connected, they end before the next begins, and `maxEnd` is the
  furthest end of the last. So a finding that starts before `maxEnd` overlaps a
  member of that cluster, and one that does not overlaps none; at the end the
  clusters are the chains (`ClustersAre`). A span stands for its cluster
  (`ResolveIs`), and the final sort moves nothing, because the spans already come
  in order (`ByStartSame`).
* `SpansReplacedInPlaceHolds`: the text between the spans stays, but for the
  white space at the end, which a summary takes away (`AppendSummary`). After each round the text is the original one up
  to some position and what is to be there after it (`Mixed`); the next
  span ends at or before that position, since spans are disjoint and go from
  right to left (`ReplaceSpansAre`).
* `RescanMasksAllHolds`: the findings need not be disjoint. After each mask the
  text up to the start of the finding just masked is the original one, what is
  left of the rest stands in its order, and what no finding covers is there
  (`InPlace`). Of a position that is still there either no finding covers it
  that has been masked, and it is shifted by at most the longer masks before it
  (`Shifts`), or it is among the last positions of a finding, which longer masks
  inside have pushed behind its own mask (`Displaced`, `Left`).
* `SentBodySaysTurns`, `LatestTextIsReplaced`: `BodyInv` says that the
  turns are those read from the body, but for the text of the latest. Both
  assume that requests are `Plain`, as TLC checks them. Then the objects are the
  first `k` items (`ObjectsAre`), so that the pairs of `rebuild` are those of
  `extract_turns` (`MessagesReplaced`, `ContentsReplaced`). A system turn with a
  text keeps a text, hence is read again as one: what is put in is never empty.

### What TLC alone checks

Every invariant and every action property of the passing runs is a theorem.
Liveness is not: `CallsEnd`, `CallsFinish` and `ServerStops` need fairness and
ENABLED, which the prover does not handle. The three violated statements are
TLC's counterexamples. The inductive invariants, or those of their parts that
were in doubt, were checked by TLC before they were proved; no run lists them
now, as the theorems hold for every instance.

## Where code and text disagree

Three runs end in a violation, of a statement quoted from the repository:

* `vault_erased`: a label number is reused after `purge_expired` has deleted a
  row (`vault.py:101` against the comment at line 100).
* `session_lost_turn`: two overlapping calls of a session number their turns
  alike, and one is lost (`stage.py:134` against `tests/test_accumulator.py:225`).
  The test does what the stage does; it passes when its threads happen not to
  meet.
* `pipeline_scope`: a value tokenized for one purpose is sent under another
  with the old label, and the response to it cannot be restored
  (`apply.py:136` against `apply.py:133-134`).

Read in the code while modelling, and not the subject of a run:

* The lock key is the raw session id, the counter's key is the UUID
  (`vault.py:98`): two spellings of one UUID are not serialized.
* A restore that fails to decrypt leaves no row in the access log
  (`vault.py:201` against line 136).
* RRN, account and phone in slow turns score 0.55, below either threshold
  (`accumulator.py:59` against `tests/test_context_integration.py:94`); the
  test passes by the weight of its speed.
* A turn that is sent again is counted again (`accumulator.py:163`).
* The sweeper is never started (`store.py:188` says that the bootstrap does).
* Findings are merged along chains of overlaps, so that a finding of a high
  layer may be dropped for another it does not overlap (`merge.py:88`).
* An event whose insert fails is not pushed to the streams (`pipeline.py:158`).
* Two threads may both load the policy (`engine.py:149`), and the one that stores
  last wins, with an older policy or an empty one; nothing says which is meant.
* A call that outlasts the stop finds no pool and makes another, which nobody
  closes (`db.py:29` against the first lines of `db.py`). `grpc_server.stop`
  returns at once (`main.py:71`), so that the grace of two seconds runs while
  the pool is being closed.
* A signal that arrives before `main.py:54`, during the load of the model, ends
  the process without any of this.
* A row that has expired and is not purged yet still answers `tokenize`, with a
  label that `detokenize` refuses (`vault.py:86`).
* An ACCOUNT finding gives way to an overlapping CARD finding whose checksum
  fails, and which the threshold then removes (`regex_rules.py:211`).
* What an overlong RRN mask inside another finding leaves of the response
  (`output_check.py:79`): see `merge_spans` above.
* `rebuild` counts items that `extract_turns` skips (`gateway.py:38`), and takes
  any first turn with the role system for the instruction (`gemini.py:77`).
  `AdapterBodies` models both; `adapter_plain` and the theorems keep to requests
  without them (`Plain`).

## Not modelled

* What the patterns, the dictionary and the NER model find in characters, which
  keywords a text holds, and the characters of masks, generalizations and
  synthetic values: string algorithms, whose results are inputs here. The order
  of the rules, their scores and thresholds, and the lengths of masks where they
  matter, are modelled.
* AES-GCM and SHA-256, taken as injective.
* The parsing and validation of the configuration, whose values are constants
  here; the caches of single settings and of the compiled dictionary, which two
  threads fill with the same value.
* `/health` and `/vault-access`: one SELECT each. Limits, windows and the shapes
  of answers of the other endpoints.
* What gRPC tells the client of a call that the stop cuts off, and what
  psycopg_pool does inside: both are external. `Server` has no outage of the
  database either: a failing statement is a step of `TokenVault` and `EventLog`.
* In `Server` the process has ended when `main()` is over. The interpreter then
  joins the threads of the gRPC executor, which end with their calls
  (`CallsFinish`).
* `store.delete` and `configure()`, which the server does not call.
* The limit on the worker threads of `asyncio.to_thread`: each stream has one
  when it needs one. With more streams than threads they wait for each other's
  heartbeats.
* Migrations and the scripts of developers: sequential, and not run beside the
  server.
* `openai.py`, `anthropic.py`, `agent_control/` and `eval/`: empty files.

## Plan

The order was: the vault, since everything restored depends on it; the session
and the risk, where threads meet on one object; merge and transform; the
pipeline that composes them; policy, log and adapters; then the process itself,
the rescan of responses, the dashboard's queries and the scripts that write the
policy. Done: all of these, and theorems about every one of them, for all that
the passing runs check but liveness. To come, most important first:

1. `MultiturnSession` composed with the rows of the vault instead of a set of
   tokens.
2. The hazards that no property covers: two of the vault, where the authors would
   first have to say what they mean by a row that has expired and still answers
   `tokenize`, and by two spellings of one session; the purpose of a response,
   which another request of the session may have changed; and the sweeper that
   nothing starts.
