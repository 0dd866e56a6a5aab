# Verification of the claim-triage agent

TLA+ models of the claim-triage agent (`src/claim_triage` in the repository), the TLC
configurations that check them on small instances, and proofs, checked by the TLA+ proof system,
of what holds for every instance. Paths below are relative to `src/claim_triage` unless they start
with `docs/` or `tests/`.

- Section 1 is the inventory: the parts of the system, their state, how they interact, what is hard.
- Section 2 says which module models what, and how to read it against the code.
- Section 3 lists the runs, their bounds, and what each shows.
- Section 4 is what is proved and how.
- Section 5 is where the code and its documents disagree.
- Section 6 is what is not modelled, and what is left to do.

Run a check with `tlc -config TriageStore.cfg MCTriageStore` and a proof with
`tlapm TriageStoreProofs.tla`, in this directory. `PROJECT.json` maps every definition to the lines
it stands for.

## 1. The system

A claim arrives at the **entry point** (`api/surface.py`), which limits its caller's rate, screens
its documents, mints a run identifier and forwards the claim to the **triager**
(`triage/surface.py`). The triager's **pipeline** takes the claim in at **core-sim** (the insurer's
surrounding systems, here simulated), lets the graph decide, records the run together with its audit
entry in one transaction of its own **store**, and only then tells core-sim the status. Apart from
the request path, an **evaluation gate** scores a build against golden sets and decides whether a
release may be recorded.

    caller --POST /claims--> entry point --POST /runs--> triager --POST /claims, -----> core-sim
                             rate limit                  graph       ../{id}/status     claims,
                             screening                   audit log                    attachments,
                             (in memory)                 (Postgres)                   keys (Postgres)

| part | state it keeps | operations | what is hard | what makes it correct |
|---|---|---|---|---|
| rate limiter (`guards/rate_limit.py`) | a bucket for each caller, in a bounded table | `Limiters.take` | fractions of tokens, a full table, a wait rounded to seconds | the rate a bucket admits is bounded; a caller that obeys Retry-After is let in; a full table drops who went quiet first |
| ingress (`guards/ingress.py`, `guards/verdict.py`) | none | `declared_size`, `read_bounded`, `screen`, `first_refusal` | limits met exactly, several faults in several documents, decoders that must not see what was cut short | what is let in is exactly what is within every limit, with the evidence of every check |
| entry point (`api/surface.py`) | the limiter | middleware, `submit_claim` | refusing before the body is read | a refusal names the first fault; the middleware's refusals read no body |
| pipeline (`triage/pipeline.py`, `graph.py`, `run.py`) | a run in flight | `run`: take in, decide, record, emit | requests lost, late and repeated; a crash between steps | no status in the system of record without evidence; a run is one claim; success is true |
| triage store (`triage/store.py`) | `triage_runs`, `audit_log` | `transaction` with `record_run`, `append_entry`; reads | concurrent appends, lost connections, lost answers to COMMIT | run and entry together and once; the chain never forks; what the caller hears is true |
| audit chain (`triage/audit.py`) | none | `digest`, `append`, `continues`, `verify` | what a sequence of edits to stored rows can hide | only a cut of the end verifies; the last hash pins the rest |
| core-sim store (`core_sim/store.py`, surface in `app.py`) | claims, documents, parties, idempotency keys | four writes behind a key, three reads | two calls with one key, two transitions of one claim, waits for rows and keys | one write for each key, the same answer to every retry, no transition lost |
| schema on first use (both stores) | a flag and a lock of the process | `_apply_schema` | a flag set inside a transaction that may roll back | one transaction creates the tables; a schema held for applied is there |
| clients (`triage/client.py`, `contract/client.py`) | a connection pool | a request, its reply, its refusal | replies outside the contract, timeouts | an outage, a refusal and a defect are told apart, also two hops away |
| boundary (`boundary.py`) | none | `refusal`, `answer`, `install` | which failure becomes which status, and what a client makes of that status | the caller is told how its run ended |
| compose and smoke (`compose.yaml`, `smoke.py`) | what runs; the smoke's step and deadline | start in order, health checks, restarts; wait, submit, read back | stops and timeouts at every hop, a readiness that does not ask of core-sim | green is true; one claim at most; a healthy stack goes green |
| evaluation gate (`evaluation/gate.py`, `baselines.py`, `runner.py`) | the baseline file of a tag | judge, record, refuse | runs recorded over one another; rounding | evidence never leaves a record; the floor is kept; the table agrees with the exit code |
| scoring (`evaluation/metrics.py`, `scoring.py`) | none | every metric | ties, ranks, absent fields, labels no case carries | each metric is what it is defined as; a right answer never lowers what it is about |
| golden sets and answers (`evaluation/sets.py`, `answers.py`, `material.py`) | the files of a run | read the sets, read the answers against them | files and lines missing, stray, repeated, undecodable, of another capability | every line is a case scored, or an answer counted, once, or the run says what is wrong |
| model port (`model/`) | fixtures by fingerprint, read once | `complete` of replay and provider | a directory edited underneath, a reply of each kind | a stage gets what was recorded for the call it made |
| contract code generator (`codegen.py`) | two generated files | load, check, generate, write | a document refused half way; a schema's keywords that nothing reads | both files are of one contract, or untouched; they say what it says |
| registry, bootstrap, config, telemetry, stub services | nothing that outlives a call | start-up | pure input and output | not modelled |

**Interactions.** Calls between services are synchronous HTTP with a timeout at the caller; the
callee is not cancelled by it. Both stores share one pattern: one connection per call, READ
COMMITTED, commit on leaving `with connection`. Routes are plain functions, so a service runs many
of them at once on threads; the entry point's middleware runs on the event loop and does not await
while it takes a token. Nothing is shared between the triager and core-sim but requests.

## 2. Modules

| module | models | state |
|---|---|---|
| `AuditChain` | `triage/audit.py`: the chain as pure operators | none |
| `AuditLog` | the promise of the triage store: run and entry in one step | `recorded`, `log` |
| `TriageStore` | `triage/store.py`: each statement of a recording transaction is an action | `runs`, `log`, `lock` (the advisory lock), and each attempt's `pc`, `tail`, `answer` |
| `AuditRows` | changes to the stored rows behind the store's back | `log`, `rows` |
| `ClaimRecords` | core-sim's four writes as operators | none |
| `IdempotentWrites` | the promise of core-sim's writes: one step for each key | `claims`, `attachments`, `keys`, `call`, `told`, `answer` |
| `CoreSim` | `core_sim/store.py`: each statement of a write is an action | the tables, and each attempt's `pc`, `call`, `written`, `told` |
| `Pipeline` | one run across three services; uses `ClaimRecords` and `AuditLog`, so each store takes part as the one-step promise it is shown to implement | the tables of both, `requests` on the network, and each call's `pc`, `claim`, `told` |
| `SchemaOnFirstUse` | `_apply_schema` of both stores, in several processes on one database | `applied` and `lock` of each process, `tables`, `created`, each call's `pc` and `answer`, and `undone`, a history |
| `Boundary` | `boundary.py`, and what each client makes of a reply or of none: operators | none |
| `Stack` | `compose.yaml` and `smoke.py` around the three services; uses `Boundary` | what is `begun` and `up`; the claims and the runs; each run's `stage` and how it `raised`; the smoke |
| `RateLimit` | `guards/rate_limit.py` with an explicit clock | `now`, `buckets`, and history |
| `Intake` | the entry point's order of checks over `guards/ingress.py` | the submission, `pc`, `bodyRead`, `verdicts`, `answer` |
| `ReleaseGate` | a baseline file's life under `evaluation/gate.py` | `file`, `run` |
| `Scoring` | `evaluation/metrics.py` as `scoring.py` uses it | the `cases` read so far |
| `Material` | `evaluation/sets.py`, `answers.py`, `material.py`: the files of a run, in the order they are read | the files, and how far the `reading` has got |
| `ModelPort` | `model/`: the replay fixtures, and a provider's replies as the port's exceptions | `directory`, `adapter`, `told` |
| `ContractGenerator` | `codegen.py`: what is refused, what reaches the models, what is on disk | the contract, `files`, `outcome` |
| `Sequential` | `AuditRows`, `Scoring`, `Material`, `ModelPort` and `ContractGenerator` side by side | theirs, and which `part` a behaviour is of |
| `*Proofs` | the theorems: each of `AuditChain`, `TriageStore`, `CoreSim`, `Pipeline` and `ReleaseGate` has its own; `EntryPointProofs` is about `RateLimit` and `Intake`, `StackProofs` about `SchemaOnFirstUse` and `Stack`, `SequentialProofs` about the parts of `Sequential` | |
| `MC*` | values of the constants for TLC | |

How they compose: `TriageStore` implements `AuditLog` (`RecordsAtomically`) and `CoreSim` implements
`IdempotentWrites` (`WritesOncePerKey`), both by a refinement mapping. `Pipeline` is built over the
abstract sides, which keeps the interleavings of the network in reach. `Stack` takes a run's three
steps as `Pipeline` has them and adds the processes they run in: what stops, what is restarted, and
what each failure is told as on its way back through two boundaries and two clients. `Sequential` runs
the parts that share no state and never run at once; a behaviour is of one of them, so its states are
the sum and not the product of theirs.

How to read an action against the code, with the choices a reader should know:

- **Postgres.** A statement sees what was committed before it. An insert waits for an uncommitted
  row of the same primary key, and fails once that row is committed. `FOR UPDATE` waits for every
  other holder of the row and reads it again; a row that references a claim holds it too. Locks and
  uncommitted rows go when the transaction ends. A commit whose answer is lost has happened.
  `TriageStore` has the commit and its answer as two steps (`Commit`, `Answer`): in between the
  connection may be lost, a `"defect"`, or the process may die, and then the rows are there and nobody
  was told. `CoreSim` has them as one with either answer; a process that dies in between is to its
  tables, and to its caller, a commit whose answer was lost.
- **Failures.** `LoseConnection` is any operational error of a statement; `Crash` takes every call of
  the process with it, the committed rows staying where they are. Each ends in the answer the code
  gives, and `"lost"` in none: `"unavailable"` is a 503, `"defect"`
  and `"duplicate"` an untranslated exception and so a 500.
- **Schema.** `TriageStore` and `CoreSim` assume their tables are there; how they come to be there is
  `SchemaOnFirstUse`.
- **Boundary.** An `Ending` is how a handler ended: its answer, or the exception it raised. `Answered`
  is the reply the boundary makes of it, `AskedOfSystems` and `AskedOfBoundary` what the two clients
  make of a reply, and `Raised` what the pipeline raises in turn. Statuses and codes are kept, wording is
  left out.
- **Stack.** A call and its reply are one step where nothing can come between that changes either; the
  steps that end without a reply (`TakeInTimesOut`, `CommitLost`, `EmitTimesOut`, `ApiTimesOut`) have
  been served or not. `late` is the smoke's deadline: it may pass at any step and is looked at where
  the code looks. Only stops, timeouts and the deadline count as faults.
- **Material** leaves `"crashed"` for what escapes the reader by traceback, apart from what the run refuses.
- **ContractGenerator** keeps of a schema node its type, its reference and which keywords stand beside
  them; the generated classes are what of that they say.
- **Hashes** are symbolic: a hash is the tuple it is the hash of, so hashing is injective by
  assumption. The canonical form's own conversions (time zones, JSON) are not modelled.
- **Attempts tell rows apart.** `trace_id` in an entry and `by` in a transition stand for what
  differs between two attempts (times, traces, minted ids).
- **Pipeline.** A request is served once, later, or never, and its reply may be lost. Requests that
  are equal in every respect are one element of the set, so a resend while the first is still on its
  way is that same request; a repeat after it was served is new. A caller may give up before the
  run ends, and may call again after any failure.
- **IdempotentWrites** lets a call be refused for a claim that is not there even when its key was
  used meanwhile: the code reads the key and the claim in two statements, and both orders are real.
- **RateLimit** counts tokens exactly, in units; the code's are floats. `take` is one step because the
  event loop never gives way inside it.
- **ReleaseGate** has integers for rates; `Place` units are the sixth decimal. `Rounded` is rounding
  to that decimal. Python rounds exact halves to even and the model rounds them up; the properties
  hold of both because they allow half a place either way. The tolerance is a run's own, since the rules
  are a file each run reads (`--rules`), and may be zero; the floors are the same for all runs.
- **Scoring** keeps shares as pairs of counts. A count is how many cases, or fields of cases, added one to
  it; no case adds more. Two values that `compare` takes for one are one symbol. A claim's score is a whole
  number: only the order of scores is read. `Ranked` is the order that `sorted` puts them in, which is stable.

## 3. Runs

Twelve runs: nine that pass and three that show a disagreement (section 5).

| run | instance | shows |
|---|---|---|
| `triage_store` | four attempts, two with one run | the chain verifies after every interleaving, runs and entries are recorded together, a duplicate is really one, a return means recorded and a 503 or a duplicate means not (a caller whose attempt ended in a defect or died with its process cannot know), the store implements `AuditLog`, and every attempt ends |
| `core_sim` | three writes, two keys, one claim held | attempts under one key get one answer, every change has its key, a retry never fails on its twin, the store implements `IdempotentWrites`, and the waits for rows and keys are never circular |
| `pipeline` | four callers, three with one run, one of those for a policy not held | a status needs evidence, a run is one claim, success is true |
| `pipeline_retry` | two callers with one run | violation, section 5 |
| `schema` | two threads of one process and one of another, restarts | threads of one process never create at once, a set flag misleads only while its own creator is open or after it rolled back, and no call waits for ever |
| `schema_rolled_back` | two threads of one process | violation, section 5 |
| `rate_limit` | three callers, a table of two, a burst of two, five instants | the sustained rate, Retry-After, who is dropped |
| `intake` | every submission of at most two documents, with each size, extent and form around each limit | exactly the acceptable is let in, decoders see only what was taken, refusals name the fault |
| `release_gate` | two capabilities, three metrics, two versions, two depths, two tolerances, two tags, a write cut short | the floor and the evidence are kept, the table explains the exit, a recorded run passes again unless its tolerance is finer than the rounding |
| `stack` | the four services and the smoke, five faults, three runs | a green smoke's claim was carried, one claim at most is left behind, the caller is told how its run ended, and a stack on which nothing fails goes green |
| `sequential` | three entries and three changes of their rows; two documents, two questions or three claims; files of two cases for each of three capabilities; two fixture files; two edits of a contract | only a beginning of the log verifies and the last hash pins it; every metric against its definition; every line counts once; answers are the recordings; both generated files are of one contract |
| `contract_ignored` | the same | violation, section 5 |

**Why the bounds are enough.** `triage_store` needs three attempts for a waiter behind a waiter and two
with one run for a duplicate; the fourth lets two appends follow the duplicate. `core_sim` needs two
attempts that race for a key and a third that moves the claim between; two keys let one attempt
use another's claim. A chain's edit is local to an entry and its neighbours, so three entries have a
first, a middle and a last one. `pipeline` has every pair that differs: same run and same claim, same
run and another claim, another run. In `rate_limit` the table holds fewer than the callers, a token
(three units) is not a multiple of the refill (two), and time suffices to refill a burst.
`release_gate` has values just under, at and just over the tolerance, the floor and a rounding, and
tolerances of zero and of just half of the last decimal recorded. `intake` takes every type that has
checks, and two that have none or are not configured; a type that has checks and is taken off the
allow-list (`tests/test_guard_ingress.py:98`) is not in its instance, and is covered by the theorems
`LetsInTheAcceptable`, `DecodesOnlyTheTaken` and `NamesTheFault`, which are about any allow-list.
`stack` has more faults than a submission has hops, so each hop can fail once with a restart before and
after; no property needs more runs than the one the smoke's submission mints, and the others show that
none is minted. `schema` has the three ways two creators relate: one call and its sibling, and a call of
another process. In `sequential`, `Scoring` has ties, absent and wrong values and ranks at and beyond the
depth; `Material` has each file missing, stray and wrong, and each line good, repeated, mislabelled,
malformed and undecodable; `ContractGenerator` has a document of each kind that is refused, and a field
of each kind that is not, before and after an edit. Where symmetry is used
(`core_sim`, `pipeline`) only safety is checked, over attempts and keys, or callers, that the model
does not tell apart.

**Fairness.** Liveness needs that threads go on: a statement that can be executed is (weak fairness).
Where Postgres or a process lock queues its waiters, the statement that waits is granted if it can be
again and again (strong fairness); Postgres does queue the waiters of locks, rows and keys. An HTTP
client gives up after its timeout (weak fairness of `TimeOut`). In `SchemaOnFirstUse` a creator waits
for another's transaction as long as that is open, and is granted its turn if it can be again and again.
In `Stack` compose starts, and restarts, every service it can, and each process goes on. Nothing is
assumed about connections being lost, stops, timeouts, deadlines, crashes, or callers. `PersistentSpec` and `HealthySpec` are stronger on purpose:
they state the best the surroundings can do (a failed run is sent again for ever, and no service
fails it every time), so that what goes wrong in the two runs under them is the code's own doing.
`CHECK_DEADLOCK FALSE` is said where the system stops: a submission that was answered, a set that was
read, the bound on edits, a smoke that has ended.

**Mutants.** Each property of each passing run has a mutated definition in its module, marked as one,
that breaks it: a dropped lock, a key for the call instead of the run, a flag not looked at again. None
is reached by the specifications.

## 4. Proofs

**`AuditChainProofs`**, about any contents and logs of any length, under symbolic hashing:

- `NextEntryKeepsChain`: appending the next entry to a log that verifies gives one that verifies.
- `WithoutNewHashesOnlyACut`: rows that verify, and whose hashes are all among those written, are a
  beginning of the written log. By the least position at which they differ: the hash there was
  written at some position, so its entry was; its predecessor's hash puts it where it was.
- `HeadPinsEveryEntry`: two logs that verify and end in one hash are equal, whatever was recomputed,
  going backwards from the end with `DigestInjective`.

**`TriageStoreProofs`**, for any sets of attempts and runs. Nothing but `RunOfAssumption` and
`NoOneAssumption` is assumed. `IInv` is the inductive invariant; the properties are not inductive
alone, since a commit appends what was computed from a tail read earlier. What it adds:

- `LockHeld`: the advisory lock is held by exactly the attempt between taking it and the end of its transaction;
- `TailCurrent`: what an attempt read under the lock is still the last row, since only a holder commits;
- `RunsInFlight`: an uncommitted run is neither committed nor in flight twice;
- `Unanswered`: an attempt that is not over has no answer;
- `WrittenByCommit`: an attempt has its entry once it has committed, and not before, so that what its end
  tells the caller (`EndKeepsIInv`) can be compared with the log;
- `EntriesOfAttempts` and `Numbered`: an entry is its attempt's, and positions count up from one, so
  the next position is always free.

One lemma for each kind of action shows `IInv` preserved (`CommitKeepsIInv` is where the chain and the
tables meet, `EndKeepsIInv` where an answer meets the log); `NextKeepsIInv` joins them, and `Inductive` is `Spec => []IInv`. From it follow
`TypeCorrect`, `ChainNeverForks`, `NoRunWithoutEvidence`, `NoFalseDuplicate` and `AnswersAreTrue`.
`StoreKeepsPromise` is the refinement: `Commit` maps to `AuditLog`'s `Record` by `CommitIsRecord`, which
needs `TailCurrent` and `RunsInFlight`, and every other step to a stutter.

**`ReleaseGateProofs`**, for any capabilities, metrics, values, floors, tolerances and number of
decimals. Assumed: the decimals and the tolerances are numbers (`PlaceAssumption`; a tolerance may be
zero, as `evaluation/gate.py:84` has it), a metric belongs to one capability (`MetricsAssumption`; its name begins with the capability's), floors are numbers
(`NumbersAssumption`). `RoundedIsNear` and `RoundedIsMonotone` are all that is used of rounding. The
invariant adds that a run to be judged is one that can be measured, and that what is on file are
numbers. `RecordedPassed` is the heart: a file only ever changes into the record of a run that no rule
fired for, judged against the file there was. From it follow `FloorNeverLost` (by monotonicity),
`EvidenceNeverLost` and `RecordedPassesAgain` (by nearness), as properties of every step. The last is in two
parts: the record of a run breaks no rule for that run but the degradation (`BreaksNoOtherRule`), under any
tolerance, and not that one either if half of the last decimal is within the run's tolerance
(`RoundingWithinTolerance`).
`TableAgreesWithExit` compares the two pieces of code for any baseline and run.

**`CoreSimProofs`**, for any attempts, keys, policies and claims held. Assumed: a claim's id is minted
afresh (`HeldAssumption`), and no call is `Nothing`. The properties are about what is committed, and a
commit makes public what an attempt computed several statements earlier; `IInv` says that nothing has
made it stale since:

- `WrittenCurrent`: what an attempt has written is what it would write now. This is what the row
  lock is for: a status holds its claim's row from the read to the commit, and creating a claim or
  attaching to one does not depend on what others do.
- `RowsHeld`: of two attempts that hold one claim's row, neither is about to move the claim;
- `KeysInserted`: an uncommitted key is neither committed nor inserted twice; `KeysLost`: an attempt that
  rolled back did so because its key is committed;
- `Minted`, `KeysOfAttempts`, `OkIsTheKeys`: who wrote what a key answers, and that an attempt told "ok"
  has what its key answers;
- `HistoriesOfKeys`, `AttachmentsOfKeys`: the parts of `EveryChangeHasItsKey`, by position in a history.

From it follow `SameAnswerPerKey`, `ChangesHaveTheirKeys` and `RetryFindsItsTwin`. `WaitsAreNotCircular`
needs only the order of the steps: if an attempt has inserted its key it can go on, if none has, one that
holds a row can, and if none does, any can. `CoreSimKeepsPromise` is the refinement: `Commit` maps to
`IdempotentWrites`' `Write` by `WrittenCurrent` and `KeysInserted`, replays to `Replay`, a failure and a
crash to `Fail`, and the statements before a commit to a stutter.

**`PipelineProofs`**, for any calls, runs and policies. `IInv` relates core-sim's two tables, the
triager's two and what is on its way: a run's keys name its one claim and every claim is the one of its
run's key (`KeysNameClaims`); a row is its run's only one, has its entry, and names that claim
(`RowsAreEvidence`); a claim has moved exactly if its run's second key is held (`HistoriesAreOfKeys`); a
request on its way is a run's claim or the status of a run that is recorded (`RequestsAreSteps`), which
is why a late one does no harm; and what a call has got to is true (`CallKnows`). `CreatingKeepsSystems`
and `EmittingKeepsSystems` are the two things core-sim can be made to do, `RecordingKeepsRecords` the one
the store can. From it follow `StatusHasEvidence`, `RunTakesInOneClaim` and `SuccessIsTrue`.

**`StackProofs`** begins with the schema, for any threads and processes: `SiblingsNeverClash` and
`FlagMisledOnlyByItsOwn`. The invariant adds that the lock is held by the call inside it, that a process
with a creator has set its flag, and that one with a call still inserting has not (`FlagFollowsCreator`).
The rest is about the services together, for any number of faults and runs. `TwoHopsTellTheEnd` is about `Boundary` alone: whatever
a run ended with, two boundaries and two clients tell it as what it was. `GreenIsTrue`, `OneClaimAtMost` and
`CallerIsToldTheEnd` rest on an invariant that follows the one run that was sent: no other leaves "unsent"
(`OneRunSent`), its claim, its row and its stage agree (`StageOf`), and what was heard of it, unless it
was cut off, is what it ended with (`HeardAsItEnded`).

**`EntryPointProofs`** begins with the rate limiter, for any callers, burst, refill, seconds and size of the table, and for ever: the
clock's bound is only TLC's. `LimitAssumption` has them positive, which the settings validate. The invariant
adds that what was admitted from a bucket since any time, with the tokens left, is no more than a burst and
what has come back since (`Paid`), which is what makes the bound inductive; that a caller told to come back
finds a token then (`Told`, from `WaitIsEnough`: rounding the seconds up returns what was missing); and that
the table is in the order its callers were seen (`Ordered`, by `TableLookedUp`, which says where each bucket
of the table was before). From it follow `RateIsBounded`, `RetryAfterLetsIn` and `QuietestIsDropped`.

Then `Intake`, for any documents, declared types and limits, and any number of documents at once. Assumed:
limits, sizes and extents are numbers (`LimitsAssumption`, `DocumentsAssumption`), and only a PDF has pages.
The heart is not the invariant but what the screening returns: `ScreenedIs` says of every document, case by
case, where its evidence ends, so that `PassedIfAcceptable`, `LastStep` and `NotDecoded` can say which
documents pass, with what and undecoded; `OnlyRefusal` and `ScreenIs` carry that to the first refusal among
several documents. `IntakeInv` then follows a submission through the order of the checks: it was answered
because it was turned away before a document was screened (`TurnedAway`) or by exactly what the screening
found (`Screening`). From it follow `LetsInTheAcceptable`, `DecodesOnlyTheTaken` and `NamesTheFault`.

**`SequentialProofs`**, for any values of the constants of the parts. Assumed: bounds are numbers
(`BoundsAssumption`), fixture names are in an order (`NamesAssumption`), there is a capability
(`CapabilitiesAssumption`), a case states finitely many fields (`DocumentsAssumption`), a claim is positive
or not and its answer's score a whole number (`ClaimsAssumption`: the code's are floats of [0, 1], of which
the area needs only the order), an answered question has a list of clauses
(`QuestionsAssumption`), the depth is a number (`DepthAssumption`), and a field's node is a node of a
contract (`FieldsAssumption`). `SequentialInv` is the conjunction of what the parts keep; each has a lemma for its start, its step and
what it shows, and a part at rest keeps what it has. `SequentialKeeps` is `Spec => []SequentialInv`.

- `RowsInv`: the log is a chain that verifies, no two rows have one position, and without a hash computed
  anew every row's hash is one that was written. `SortingExists` (a case of `RankingExists`) is what lets
  `ORDER BY seq` be chosen at all. With `AuditChainProofs` it gives `RowsVerifyOnlyCut` and `HeadPins`.
- `PortInv`: a replay adapter was built from fixtures of which no two record one call, and holds what they
  say; gives `RecordingsAnswer`, however the directory was edited meanwhile.
- `MaterialInv`: how far the run has got, what it has read by then, and that every file read so far is whole.
  `CasesCounted` is the argument: in a file without repeats the lines that are cases are in bijection with
  the cases. Gives `LinesCountOnce`.
- `FilesInv`: both files are of one contract, which was accepted and has the shape of one.
  `AcceptedIgnoresNothing` shows of every node what the generated field asks; gives `FilesAreOfOne`.

- `ScoringInv`: a set holds one capability's cases. What is counted is then a set of right, of wrong and of
  missed answers, the first disjoint from the other two (`FieldsCounted`, `LabelsCounted` by `TwoKinds`), and
  a right case adds to the first alone (`RightHits`). Gives `AnswersCountOnce`, with `F1IsBetween` about any
  counts. `HitsAreRanks` and `CitationsAreRetrieved` are about one list.

What the set's measures are of, beyond counts, is a sum of shares. The prover cannot instantiate an induction
theorem, so induction over a finite set is stated as a fact about sets: a set of subsets that has the empty
one, and each of its members with one element more, has the whole (`AddingOneByOne`, from the smallest subset
left out). On it rest:

- *Sums.* `FoldFunction` is recursive, and picks its members by `CHOOSE`. `SumExists` shows that its equation
  has a solution, stage by stage; `AnyMemberFirst` that the member picked makes no difference; `SumAdds` that
  a sum is its parts added one by one. Then a sum keeps the order (`SumsGrow`), is bounded by its parts
  (`SumIsBounded`), and adds equal shares as often as they occur (`AlikeAdd`). Shares are compared by
  cross-multiplication throughout, so nothing is rounded.
- *Means.* `SumIsBounded` with `RankIsBounded` gives the bound of the mean reciprocal rank, and so
  `RetrievalReadsOneList`. A right answer adds one hit to its label and touches no other (`RightLabelAdds`),
  so each label's recall grows (`RecallsGrow`), and one that is new is found every time, at a recall that
  no mean exceeds (`NewLabelIsFound`, `OneMore`); with `RightHits` and `RightValuesNeverLower` for the fields
  this gives `RightAnswersNeverLower`.
- *The area.* `RankingExists` and `RankingIsOnto`: a finite set with a total order can be ranked, and its
  ranking holds each member once. `average_precision`'s is such an order (`AheadOrders`), so the ranked cases
  are a curve (`Curve`). Between two ends of it the scores are equal and after it lower (`BlockIsFlat`), so
  the cases scored no lower than one of the block are those up to its end (`AsHighAs`), and the block adds to
  the area what its positives add to the mean (`BlockAdds`). From end to end that is `StepsAreHigh`, and
  gives `AreaIsTheMean`: how the ties were ordered makes no difference.

**Only model-checked**: liveness under fairness (`EveryAttemptEnds`, `EveryCallEnds`,
`HealthyStackGoesGreen`), which is out of the proof system's reach. Every other property of a passing run is
the statement of a theorem.

## 5. Disagreements

Shown by a run:

1. `pipeline_retry`: `docs/adr/0005` says of a run that was recorded but not emitted that the
   emission's idempotency key lets a retry close the gap. A retry of the run stops at the recording:
   the run is there, the insert raises a `UniqueViolation`, and the emission is never reached.
2. `schema_rolled_back`: `core_sim/store.py:13` says the schema is applied on the first connection that
   succeeds. The flag is set inside the transaction of the first call; if that call is refused, the
   tables roll back with it and the flag stays, and the process fails every later call.
3. `contract_ignored`: `docs/adr/0004` says that nothing in a contract is ignored without a word: what the
   generator does not know is refused. What stands beside a `$ref` is neither read nor refused
   (`codegen.py:440`), though the documents are OpenAPI 3.1, where it counts. The run ends in a generator
   that succeeded, ruff's passes over its files included.

Read off the code while modelling, without a run of their own:

- The answer to COMMIT is lost outside the translation in `triage/store.py:186`, so the pipeline's caller
  gets a 500 where `triage/pipeline.py:10-13` has anything unreachable answered as `Unavailable`.
  `TriageStore` has it as the answer `"defect"`.
- core-sim answers a database it cannot reach with a bare 500 on every route but its health check
  (`core_sim/app.py` maps three refusals). So an outage of Postgres while the smoke reads its claim back
  is told as a defect and fails it, though `smoke.py:9-11` has what is not reachable waited out.
- A number of more than 4300 digits in a golden line (a `ValueError` of `json.loads`), or an `OSError` while
  recording, ends a run by traceback with exit code 1, which `evaluation/runner.py:57-66` reserves for a
  declared rule. `Material` has the first as `"crashed"`.
- A fixture that is not UTF-8 escapes the replay adapter as a `UnicodeDecodeError`.
- An operation with two header parameters is generated as a method that the linter then refuses, the files
  overwritten already; an array of a named primitive becomes a class the models do not define.
- A 500 of core-sim at the emission is answered 500 by the triager (`triage/pipeline.py:92`), not the
  503 that `docs/adr/0005` describes.
- Removing the last entries leaves a chain that verifies; `triage/audit.py` says an entry removed stops
  matching. `OnlyACutVerifies` states what does hold.
- A second thread sees the schema's flag before the first commits, and its statements may find no tables.
- `tests/support.py`'s double of the store raises `TriageStoreUnavailable` for a duplicate run, the real
  one a `UniqueViolation`.
- `compare` (`evaluation/metrics.py:92`) is not transitive over spellings of an amount: `1840.5` is
  `1 840.50`, which is the same with a line break in it, which is not `1840.5`.
- A citation is held to the last clause retrieved under its identity (`evaluation/metrics.py:171`), not to
  any of them.
- `docs/adr/0008` says above the floor; a value that equals the floor passes.
- `evaluation/baselines.py:34` says the decimals recorded are finer than any rule compares.
  `evaluation/gate.py:84` accepts a tolerance of zero, under which a metric that recording rounded up
  is a regression of the very build that was recorded. The committed rules have 0.02, where it is true.
  `PassesAgain` says for which tolerances a recorded run passes again.
- A right answer can lower a macro average when it brings in a label; `RightAnswerNeverLowers` covers
  recall and routing there.

## 6. Not modelled, and what is left

**Not modelled.** Parsing and validation of fields (pydantic, multipart, pypdf, zipfile: a document or a
line is what they can tell of it); settings and telemetry, which keep no state a property could be about
(the limits appear as constants); the OpenAPI documents and the text of the generated classes and methods;
start-up wiring and the registry; the stub services, which answer health only; report wording. Each is
noted at its component in `PROJECT.json`.

**Left out of a model on purpose.** `ContractGenerator` writes both files in one step, after all the sources
are made: a write that fails between the two (`codegen.py:317`, a full disk) leaves a mixture that
`AllFilesOrNone` is not about; it is about what a refusal leaves. `OkMeansDone` is about a success, not
about which failure a caller is told: a 500 of core-sim that the triager answers as 500 is in section 5.
`OnlyItsOwnCreatorMisleads` allows what a thread sees while its own process's creator is open, which is
in section 5 too; what it excludes is being misled by another process.

**Hazards that no property covers**: a second thread that sees the schema's flag before the first commits
(`triage/store.py:215`), which the code lets happen; tokens are doubles, and at the
exact second of Retry-After a sum of rounded products may fall short of one (`guards/rate_limit.py:103`;
the model's tokens are exact); an entry is hashed with its time as one time zone's text and read back as
another's (`triage/audit.py:137`, a conversion the model takes for faithful); a record may be lowered
without end by runs that each stay within the tolerance (`evaluation/runner.py:186`, what the code means).

**Order of the work**, the most important behaviour first; all of it is done but the last.

1. `AuditChain`, `AuditLog`, `TriageStore`: the evidence. Proved.
2. `ClaimRecords`, `IdempotentWrites`, `CoreSim`: the idempotent writes. Proved.
3. `Pipeline` over both promises, and `SchemaOnFirstUse` under both stores. Proved.
4. `AuditRows`: what the chain is for. Proved.
5. `RateLimit` and `Intake`: the entry point. Proved.
6. `ReleaseGate` and `Scoring`: the gate a release passes. Proved.
7. `Boundary` and `Stack`: the services together, as they are started and driven. Proved.
8. `Material`, `ModelPort`, `ContractGenerator`: the files behind the gate, the port and the contract. Proved.
9. Left: what a stage does with the port's answers, once one calls it; what `Scoring` measures as the
   input of `ReleaseGate`.
