# ossx in TLA+

Specifications of `ossx`, the object-storage library in `pkg/ossx`, and of its
Alibaba Cloud adapter in `adapters/aliyun`. Line numbers are those of the
repository at the modelled commit; `PROJECT.json` maps every definition to the
lines it stands for.

Contents: [the system](#the-system), [the modules](#the-modules),
[what is checked](#what-is-checked), [what is proved](#what-is-proved),
[abstractions](#abstractions), [not modelled](#not-modelled), [plan](#plan).

## The system

A caller uses a `Store` (`blobstore.go`). Each operation checks that the store is
open and the context alive, checks its arguments, and calls one method of an
adapter through `Store.run`: a retry loop (`withRetry`) under a circuit breaker
that all callers of the same operation name share (`retry.go`). The adapter talks
to the object store: `adapters/aliyun` by requests through the vendor's SDK,
`inmemory.go` in a map under a mutex.

| component | state it keeps | operations | interacts with |
|---|---|---|---|
| errors (`errors.go`) | none | `isRetryableKind`, `kindToClass`, wrapping | everybody |
| breaker and retry (`retry.go`) | `failures`, `state`, `openedAt` under `cb.mu`; locals of each call | `allow`, `recordSuccess`, `recordFailure`, `do`, `withRetry`, `delay` | called by `Store.run`; calls the adapter |
| object operations (`blobstore.go`) | `closed`, the breakers | Put, Get, Head, Exists, Delete, Copy, Close | policies before, `Store.run`, adapter |
| listing (`blobstore.go`, adapters) | none; the caller holds the token | List | adapter |
| multipart sessions (`multipart.go`) | `done` per session, under `s.mu` | Initiate, UploadPart, ListParts, Complete, Abort | `Store.run`, adapter |
| aliyun adapter (`oss.go`) | `uploads` under `a.mu`, `closed` | object, list, multipart, presign, Health, Close | the SDK, by requests |
| in-memory adapter (`inmemory.go`) | `objects`, `uploads`, `closed` under `a.mu` | the same | none |
| config and gates (`config.go`, `policy.go`, `presign.go`, `helpers.go`) | the store's `Config` | `withDefaults`, `Validate`, `NewBlobStore`, key, checksum and retention policies, Presign | run once, then read by everything |
| checksum reader (`helpers.go`) | hash, `checked`, `ChecksumVerified` | Read, Close | wraps the body of a Get |
| lifecycle (`blobstore.go`) | `closed`, the health gauge | Health, Close | adapter |
| environment (`env.go`) | none | `ConfigFromEnv` | hands its config to `NewBlobStore` |
| keys and metadata (`object.go`) | none | `NewKey`, `validateMetadata` | asked by every operation |
| observability (`observability.go`) | none that decides anything | metrics, traces, logs, audit events | called by everything |

What is hard here, and what makes each part correct:

* **Breaker.** Its methods are atomic, but a call spends seconds between `allow`
  and `record...`, and by then the breaker may have opened, cooled down and been
  tried by others. It has to tell outages from final errors, reopen on a failed
  trial, and never lock callers out for good.
* **Retry.** An attempt may have taken effect although it failed; the loop must
  stop at a final answer, at the bound and at the end of the context, and hand
  back the last answer.
* **Object operations.** An attempt is one or two requests; answers get lost,
  requests arrive late, other callers write the same key, Close comes in between.
  Whatever is returned must have been true at some moment of the call, and a
  Delete must respect what it looked at.
* **Multipart.** Three tables (the session's marks, the adapter's handles, the
  provider's uploads) are updated by different steps with requests in between.
  One Complete at a time, nothing published but what was asked for, no handle
  to be had after an Abort.
* **Listing.** A token outlives the object it names.
* **In-memory adapter.** One mutex makes its methods atomic, but two of them read
  the caller's reader under it, and the operations above run them more than once.
  What callers see must still be one step per call, and nobody may be left waiting.
* **Checksum reader.** Bytes come in any portions, with or without an EOF, whole,
  cut, extended or changed. A body that ends clean must be the one that was hashed.
* **Config.** Zeros, defaults, caps, prefixes and the spelling of keys interact at
  the boundaries.

`PROJECT.json` lists these as hazards, each at its line.

## The modules

| module | models | state and actions |
|---|---|---|
| `OssErrors` | `errors.go`, `ctxErrCheck` | answers of a call, retryable or not |
| `RunContract` | what `Store.run` promises one caller | `Start`, `Invoke`, `Answer`, `Finish`, `CtxEnds`: the abstract specification |
| `RetryBreaker` | `retry.go`, `Store.run` | `failures`, `state`, `age` are the breaker's fields; `pc` is the place of a call in `do`/`withRetry`; one action per step between two shared accesses |
| `Multipart` | `multipart.go`, the multipart half of `oss.go`, the provider | `done`, `handles`, `upload`/`staged`/`published`; on `RunContract` |
| `BlobStore` | Put, Get, Head, Delete, Copy, Close of `blobstore.go`, the object half of `oss.go`, the provider | `stage` and `step` place a call, `object` is the provider; on `RunContract` |
| `Listing` | `Store.List` and both `ListObjects` | `token`, `page`; which adapter it is, is chosen in `Init` |
| `MemoryTables` | the methods of `inmemory.go` | one operator per critical section: tables, call and content in, tables and answer out |
| `AtomicStore` | what a Store over that adapter promises its callers | `Invoke`, `Perform`, `Return`, `Probe`, `Close`: the abstract specification |
| `MemoryStore` | the operations of `Store` but List, those of a multipart session, Health and Close, over `inmemory.go` | `stage` and `phase` place a call, `holder` is the owner of `a.mu` while a body is read, `tables` is the adapter; on `RunContract` |
| `VerifiedRead` | what a verifying reader promises | `Open`, `Deliver`, `Conclude`: the abstract specification |
| `ChecksumReader` | `Store.Get` with VerifyChecksum, `helpers.go` | `left`, `received`, `hashed`, `checked`; `Get`, `Read`, `Close` |
| `ObjectKeys` | `NewKey`, `validateMetadata` of `object.go` | operators on keys as sequences of characters |
| `StorePolicy` | `config.go`, `env.go`, `policy.go`, `presign.go`, the constructors of `retry.go`; uses `ObjectKeys` | `given`, `cfg`, `call`; `ConfigFromEnv`, `NewBlobStore`, and one action per gated operation |
| `MC...` | instances for TLC | model values and small sets |
| `InductionLemmas` | nothing: lemmas for the proofs | induction over numbers, on membership in a set |
| `...Proofs` | theorems | one module each for `RetryBreaker`, `Multipart`, `BlobStore`, `Listing`, `StorePolicy`, `ChecksumReader`, `MemoryStore` |

How they compose: `RetryBreaker` implements `RunContract` (checked by TLC and
proved). `Multipart`, `BlobStore` and `MemoryStore` take their calls from
`RunContract` (`Run == INSTANCE RunContract`), so their results hold whatever the
breaker does: any call may be turned away with `unavailable`. `MemoryStore` in turn
implements `AtomicStore`, and `ChecksumReader` implements `VerifiedRead` (both
checked by TLC and proved). What `ChecksumReader` assumes of the objects of the
in-memory adapter, that a checksum is that of the object's own body, is
`MemoryStore`'s `SumsMatchBodies`. The modules with calls that may fail use
`OssErrors`.

In `Multipart` and `BlobStore` an adapter method is split where the code can be
interrupted: the closed test (`AdapterEntry`), the table lookup under `a.mu`
(`AdapterLookup`), the sending of the request after the mutex is released (`Send`),
its fate (`Serve` and its failures), and the return
(`FnReturns`, which also updates the handles, the last thing a method does before
it returns). `Finish` is the return of `Store.run` and of the operation;
`Complete` takes one more step, `Unmark`, because its failure path locks the
session again. `Close` is two steps, the store's flag and the adapter's.

In `MemoryStore` an attempt waits for the mutex after `Invoke`. A method that reads
no body is one step (`Section`). `PutObject` and `UploadPart` take two: `Lock`, and
the end of the read (`ReadEnds`) or its failure (`ReadFails`), both of which unlock.
A reader is `fed` when what it yields comes from a Get on the same store: it waits
until another caller's Get has returned. `Decided` says when a call has had its
effect; with it the refinement mapping tells "pending" from "done".

Actions that are not `ossx` code are marked external in `PROJECT.json`: the object
store, the network, the clock, other writers, the crash of the process.

## What is checked

Passing runs (TLC, exhaustively):

| run | instance | shows |
|---|---|---|
| `retry_breaker` | 2 callers, 3 attempts, threshold 3, cooldown 2 | the counter tells the state, a failed trial reopens, every return is justified, `RunContract` is implemented; every call returns, an open breaker is left, it recovers after an outage |
| `multipart_session` | 2 callers of 1 session, 1 upload, 2 attempts, 1 late request, Close | types; one Complete at a time; no handle obtained once an Abort has returned; a nil Complete published its parts |
| `multipart_lists` | 2 sessions, 2 parts, good and bad lists, 1 restart | what is published is contiguous and is what was asked for, and a returned Abort holds, with requests of the earlier life of the process on their way |
| `blob_reads` | 2 callers, 3 workloads (a writer against gets and copies, against heads and deletes, against a writer), 2 attempts, 2 versions, Close | types; every answer was true during its call, the info of a Put included, and a Put that succeeds at once stored all of its body; every call runs down |
| `blob_deletes` | 2 workloads (strict deletes and a writer; one caller with puts, gets and both deletes), retention, 2 attempts, 2 versions, 1 late request | answers; the version a Delete checked and found too young is not what it removes, though the object is replaced after the check and the delete is retried |
| `listing` | both adapters, 5 keys, 4 matching, pages of 1 to 3, 3 changes | nothing skipped, the walk ends once the keys stop changing, no repetition and no token that moves back but by the in-memory adapter after it lost a listed object |
| `memory_store` | 2 callers, 2 attempts, 2 keys, 1 upload, six workloads | types; checksums match bodies; nothing comes back after a Close; `AtomicStore` is implemented; every call returns unless the store is frozen |
| `checksum_reader` | every content of up to 2 bytes, three kinds of adapter, every way of reading | bytes and hash stay together; a clean end is a verified one, and no sound body is refused; `VerifiedRead` is implemented; a verdict comes |
| `policy_gates` | every config around a valid one in the fields that meet in a gate, and every small environment | keys, URLs, writes, delays and breakers within their bounds; a config from the environment is taken as it is |

Each property of a passing run has a mutant in its module: a definition with a
plausible mistake (an off-by-one, a dropped guard, a missing reset) that makes
TLC find the property violated.

Runs that end in a counterexample show where the code departs from what the
repository says of it:

| run | the repository says | the code |
|---|---|---|
| `put_truncated` | "Put streams body to key" (`blobstore.go:14`) | a retry stores what the first attempt left of the reader |
| `retention_bypassed` | retention "forbids deleting objects younger than" (`policy.go:37`) | a failed head skips the check; a newer version is not checked |
| `abort_frees` | Abort "frees staged parts ... safe after partial failure" (`multipart.go:27`) | the retry of an Abort that failed finds no handle and returns nil |

Further claims that the code does not keep stand at the end of their modules as
properties without a run of their own; named in the configuration file given
here, TLC finds each of them violated:

| property, configuration file | the repository says | the code |
|---|---|---|
| `OpenForCooldown`, `BreakerCalls` | CircuitCooldown is the "breaker open duration" (`config.go:103`) | a success of a call admitted earlier closes an open breaker at once |
| `DeadlineIsTimeout`, `BreakerCalls` | "deadline context should be timeout kind" (`acceptance_coverage_test.go:149`) | inside `withRetry` an expired deadline is `canceled` |
| `NotFoundMeansUnpublished`, `MultipartSession` | "Complete/Abort are idempotent" (`multipart.go:13`) | a repeated Complete reports not_found for what it published |
| `PublishedIsFullSet`, `MultipartLists` | "must be the full ordered set" (`multipart.go:24`) | a list without the last parts is accepted |
| `StrictDeleteRemoves`, `BlobDeletes` | "missing objects produce ErrNotFound" (`object.go:113`) | two strict deletes both succeed |
| `InfoDescribesBody`, `BlobReads` | a reader "plus metadata" (`object.go:135`) | body and metadata come from two requests, the second may fail silently |
| `StableList`, `Walks` | "stable List output" (`blobstore.go:421`) | over the in-memory adapter a deleted token restarts the listing |
| `TTLWithinMaxTTL`, `PolicyGates` | TTL "≤ PresignPolicy.MaxTTL" (`presign.go:16`) | a MaxTTL below a second grants up to 15 minutes |
| `EnvCapsTTL`, `PolicyGates` | PRESIGN_MAX_TTL is "capped at MaxAllowedPresignTTL" (`env.go:31`) | a larger value is refused, not capped |
| `PresignAudited`, `PolicyGates` | "An AuditEvent is emitted with the ... result" (`presign.go:21`) | a Presign whose key is not valid emits none |
| `DefaultsFillOnlyZeros`, `PolicyGates` | "fills zero-valued ... fields" (`config.go:237`) | two zero fields replace the whole retry config |
| `AcceptedPrefixesDisjoint`, `PolicyGates` | "denied must not overlap allowed" (`config.go:198`) | only equal prefixes are refused |
| `DeletesWithinPolicy`, `PolicyGates` | policies "enforced before write/presign/delete" (`CHANGELOG.md:50`) | Delete does not ask the key policy |
| `AskedIsVerified`, `VerifiedReads` | VerifyChecksum verifies the body (`README.md:66`, `CHANGELOG.md:56`) | a body without a checksum, or with an algorithm this package does not know, is returned unverified |
| `MismatchCloses`, `VerifiedReads` | on a mismatch "the reader is closed" (`helpers.go:88`) | it stays open |
| `MismatchStays`, `VerifiedReads` | "On checksum mismatch, Read returns an *Error" (`helpers.go:87`) | once: the next Read returns EOF |
| `PublishesParts`, `MemoryCalls` | "concatenates staged parts into the final object" (`inmemory.go:319`) | the object is empty |
| `CloseReleases`, `MemoryCalls` | "Close releases resources" (`blobstore.go:382`) | a second Close returns while the first still waits |
| `GaugeTellsHealth`, `MemoryCalls` | the gauge is `ossx_health_status` (`observability.go:109`) | it keeps its last failure when a probe succeeds again |

And a half-open breaker admits every caller, not "one trial attempt"
(`acceptance_coverage_test.go:1657`), as `Admits` shows.

### Bounds

* `MaxAttempts` 2 (3 for the breaker) makes a first, a repeated and a last attempt
  different; `multipart_lists` uses 1, because there a request that outlives a restart
  is itself a second delivery, and the caller may call again.
* `FailureCap` stops the failure counter above the threshold: `recordFailure`
  only compares it with the threshold, so larger values behave the same. The
  theorems hold for every cap.
* `Cooldown` ticks: `allow` compares the age with the cooldown only; 2 gives a
  moment strictly between.
* `MaxVersions` bounds the objects written (a further PUT or COPY does not reach
  the store: it can still be lost or refused). Two are an
  object and the one that replaces it. `MaxLate` bounds the requests that
  outlive their client's patience. `MaxRestarts`, `MaxCloses` bound crashes and
  Closes. `Ids` bounds the uploads opened; one upload is enough for the races on
  one upload, uploads do not share state but the tables.
* Two callers: the races listed as hazards are between two steps of two calls, and
  the invariants proved for any number of callers speak of pairs.
* Listing: five keys and pages of up to three give three pages, an exact last page,
  a deleted token, and keys written on either side of it; `Sizes` includes none,
  negative and beyond the cap. `MaxChanges` bounds the writes and deletes.
* StorePolicy: two ticks to the second reach the truncation of fractions; the cap
  is three seconds, with TTLs on both sides. Configs vary together the fields that
  meet in a gate. A variable of the environment is unset or unparsable (no number),
  negative, zero, allowed, or beyond its cap. Keys are up to seven characters of
  `x`, `y`, `.`, `/` and a byte that is no UTF-8: one more than the bound, and every
  spelling of a path that `NewKey` has a test for. `Asked` lets a store be asked
  once: no gate looks at an earlier call. A refused config and a store that was
  asked have no further step, so the configuration file switches the deadlock check
  off.
* MemoryStore: `Workloads` splits the calls into six sets, the calls that meet in one
  table, one lock or one flag; an instance makes the calls of one set, any number of
  times, by either caller. Two data values, one upload and one part number are enough
  for the races on one object and one upload: the tables of an adapter share nothing
  but the mutex, `seq` and `closed`. `MaxUploads` bounds the Initiates. A store
  whose mutex is held by a reader that waits for another call can stop (that is the
  hazard), so the configuration file switches the deadlock check off;
  `EveryCallReturns` says that nothing else stops it.
* ChecksumReader: contents of up to two bytes, so that a body can lack, add or change
  a byte of its object, at its head or its end, and come in one or several portions.
* The bounds of `MemoryStore` and `ChecksumReader` are parameters of their theorems.
* BlobStore: `Workloads` says which calls each caller makes, any number of times; an
  instance has the calls that meet at one object. A writer's content is whole where a
  retry may cut it, and nothing where only its presence matters. `CheckedVersionKept`
  needs a version that replaces the one looked at and a delete that is retried, so
  `blob_deletes` has two versions, two attempts and a request that arrives late;
  Close is in `blob_reads`, where a retry meets the closed adapter.
* Multipart: `multipart_session` has the retries, the lost answers, the late request
  and the Close, `multipart_lists` the restart and the second session;
  `NoUseAfterAbort` and `CompleteOkPublishes` are in both.
* Symmetry: the passing runs of `Multipart` permute the two callers (with their
  sessions, where each has its own), which the model uses only as indices. No liveness property is checked under symmetry.

### Fairness

* `RetryBreaker!FairSpec`: weak fairness of each call's steps and of `Tick`. A
  goroutine that can run is scheduled, a timer fires, the SDK bounds every request
  by its timeouts, the mutex sections do not block. No fairness of callers,
  contexts or the provider: `OpenIsLeft` and `RecoversAfterOutage` assume callers
  that keep calling and, for the latter, a provider that stays up, as premises.
* `Listing!FairSpec`: weak fairness of fetching the next page: a caller that has
  begun a walk goes on with it.
* `ChecksumReader!FairSpec`: weak fairness of `Get` and of reads that get on. A
  consumer that reads on is the premise of `VerdictGiven`, and so is a body that comes
  to its end: reads may fail any number of times in between, but a connection that
  breaks for good gives no verdict, nor should it. That a reader yields bytes or its
  EOF is the contract of `io.Reader`, which discourages returning neither.
* `MemoryStore!FairSpec`: weak fairness of the steps of a call that do not need the
  mutex, strong fairness of those that do (`Enter`): the mutex is free again and
  again while others pass through it, and a `sync.Mutex` in starvation mode hands it
  to its waiters in turn. A reader that waits for no call of this store ends or
  fails. No fairness of callers or contexts.
* `Multipart`, `BlobStore` and `StorePolicy` state no liveness: that a call returns
  is `RetryBreaker`'s `EveryCallReturns`, and `MemoryStore`'s over that adapter.
  `CallsRunDown` of `BlobStore` needs no fairness: it bounds the steps a call can take.

## What is proved

TLAPS checks, for every value of the constants that meets the named assumptions
(`BreakerAssumption`, `MultipartAssumption`, `BlobStoreAssumption`,
`ListingAssumption`, `StorePolicyAssumption`, `ChecksumAssumption`,
`MemoryAssumption`, all evaluated by TLC on the runs), the results below. Each
module proves an inductive invariant, one lemma per action, and draws its theorems
from it.

`RetryBreakerProofs`, any number of callers, thresholds and attempts:

* `TypeCorrect`, `CounterTellsState`, `AttemptsAndReturns`: the invariants of
  `retry_breaker`. The inductive invariant is their conjunction. The types
  need the third, since it is `AttemptDue` that keeps `tries` within
  `MaxAttempts` at the head of the loop.
* `CallsTerminate`: `StepsLeft`, at most `3 * MaxAttempts + 2`, falls with every step
  of the call (`OwnStepsCost`) and stays with those of others (`OthersCostNothing`).
  It is the part of `EveryCallReturns` that needs no fairness: a call cannot go round
  for ever, whatever the breaker and the other callers do. No run checks it on its own:
  `retry_breaker` checks `EveryCallReturns`.
* `TrialFailureReopens`: from `CounterTellsState`. A breaker that is half-open
  still holds at least `Threshold` failures, so one more reopens it.
* `Refinement`: `Spec => Contract!Spec`. Each step of `do`/`withRetry` maps to one
  step of `RunContract` or to none; the justification of returns is what
  `MayReturn` asks for.

`MultipartProofs`, any number of callers, sessions, uploads, late requests, restarts:

* `TypeCorrect`, `SingleCompleter`, `AbortIsFinal`.
* The inductive invariant `IInv` adds to the types where a call can be
  (`Control`), that a Complete in progress holds its mark (`Marks`), that ids not
  yet returned are nobody else's (`Fresh`), that an Initiate about to return OK
  has an id (`Opened`), that other calls are about ids some Initiate returned
  (`Started`), and that an Abort past its lookup left no handle (`HandlesGone`).
* `SingleCompleter` needs `Marks`: a second Complete would have to pass the test
  of `done`. That `Unmark` does not clear another call's mark is the
  uniqueness itself, so the two are proved together.
* `AbortIsFinal`: no method obtains the handle of an upload whose Abort has returned
  nil, until the adapter is closed. It does not say that nothing is sent: a part whose
  method has the handle is sent outside the mutex, maybe after the Abort has returned.
  It needs `HandlesGone`, which only a returning Initiate could break,
  by adding the handle of an aborted id. `Fresh` says that its id has not been
  returned to anybody, and `Started` that nobody could have aborted it.

* `PublishedIsContiguous`, `OkIsPublished`: a second invariant, `PInv`, on top of
  `IInv`. Every Complete under way or on its way late carries a list that
  `ValidArguments` passed (`Checked`), and one that has been answered OK finds its
  parts published (`Answered`); nothing overwrites what was published, because the
  upload is gone with it.

`BlobStoreProofs`, any number of callers, keys, attempts, versions, late requests:

* `TypeCorrect`, `AnswersTrue`, `CheckedStaysKept`, `CallsTerminate`.
* The invariant says of each call what its place allows its locals to say. `held` is
  the history of what the key has held since the call began, and it follows every
  step of the object store, late requests included. `GetFits`, `InfoFits`, `HeadFits`,
  `GoneFits`, `StrictFits`, `CopyFits` and `PutFits` tie the answer a call has been told (the
  adapter is about to return it, or `last` holds it) to that history, so a retry that
  comes later cannot make it false. A final answer is told once: `Shape` has that an
  attempt under way follows no answer that was OK or not_found.
* `WholeFits` is the reader of a Put: nothing is read of it before the first attempt, so
  that a Put which succeeds at that attempt stored all that it was given. It claims nothing of later
  attempts, where the code stores what is left (`put_truncated`).
* `CheckFits` is the retention check: once the delete proper runs, the version that
  the head saw is not young. It stays so because versions are handed out in order
  (`Versions`) and what becomes young later is new (`Renewed`).
* `CallsTerminate`: `StepsLeft`, at most `10 * MaxAttempts + 2`, falls with each step of
  the call (`GoingOnCosts`), and a step that is not its own leaves it alone
  (`OwnStepOrNone`): no answer that is lost, late or repeated sends a call back. A
  Delete pays for both of its `Store.run`s in advance, since the second starts anew.

`ListingProofs`, any number of keys, page sizes, writes and deletes:

* `TypeCorrect`, `WalkIsComplete`, `PagesAreDisjoint`.
* They rest on `PageFacts`: a page is the smallest keys of what remains, so all that
  it leaves out is above its last key, the token. The invariant has that every key
  that stayed is listed or above the token (`Covered`), and that the token is the
  greatest key listed unless the in-memory adapter was sent back (`Ordered`). So each
  page that is not the last moves the token up, past all that was listed.

`StorePolicyProofs`, every config, environment, key and TTL:

* `GrantsWithinPolicy`, `AcceptedWritesFit`, `KeysLeadToThemselves`,
  `EveryDelayBounded`, `EnvConfigTaken`. The store's config is
  its caller's filled with defaults (`FilledPolicies`), filling twice changes nothing
  (`FilledTwice`), and a Validate that passed bounds what the gates read.
* `GrantsWithinPolicy` bounds a TTL by the cap always, and by MaxTTL when that is a
  second or more; below a second the code grants more (`TTLWithinMaxTTL`).
* `KeysLeadToThemselves` is about keys of any length. What `strings.Split` makes of a
  key and where its segments lead are functions defined by recursion over their
  positions. By induction, the segments tell the key (`SegmentsTell`: the segments of a
  prefix tell its last character and the segments before it), and segments without `.`,
  `..` and the empty one lead to the path of those segments (`FollowedPlain`). `NewKey`
  lets no other through, so two keys that lead to one place are one key.
* `EveryDelayBounded` needs that no power in a delay is negative (`PowerPositive`, by
  induction); the filled policy bounds the rest.
* The inductions rest on `InductionLemmas`: a set that has 0 and, below N, with each
  number the next, has all of 0..N (`UpTo`), and a function may be defined by recursion
  up to N (`Recursion`). They speak of sets, which the provers can instantiate, where
  the library's induction theorems take a predicate.

`ChecksumReaderProofs`, any bytes, contents and ways of reading:

* `TypeCorrect`, `CleanEnd`, `Refinement`: `Spec => Promise!Spec` with the
  verdict as `checked` and `verified`. The invariant adds to the types that the
  verdict is the comparison over all bytes handed over, and that EOF is told after it
  only. `CleanEnd` has both directions: what ends clean is what the checksum was made
  from, and a mismatch is told of a body that has another checksum only, so never of
  one from the in-memory adapter, whose objects carry the checksum of their own body
  (`MemorySums`; `MemoryStore` proves that).

`MemoryStoreProofs`, any number of callers, keys, uploads, attempts:

* `TypeCorrect`, `SumsMatch`, `Refinement`: `Spec => Atomic!Spec`.
* The invariant has the place of each call (`Control`), the checksums, that a closed
  adapter keeps nothing (`SumsFit`), and that there
  is room for the uploads of the Initiates under way (`Room`, by counting).
* The refinement maps the step that ends an attempt with a final answer to `Perform`,
  the end of the call to `Return` or `GiveUp`, and the steps between to none. That an
  attempt that failed left the tables alone is what makes a retried call one step;
  the strict Delete's head that finds nothing performs the whole Delete, the one that
  finds something performs nothing.

Only checked by TLC: the liveness properties (fairness and ENABLED are out of the
prover's reach): `EveryCallReturns` of `RetryBreaker` and of `MemoryStore`,
`OpenIsLeft`, `RecoversAfterOutage`, `VerdictGiven`, `WalkEnds`. Of the first and the
last the proofs have the part that is safety: what a call or a walk does brings its end
nearer (`CallsTerminate`, `PagesAreDisjoint`); `BlobStore` has that part too. Every invariant,
action property and refinement of the passing runs is proved. No module declares a RECURSIVE operator.

## Abstractions

* An answer is its error kind. Messages, wrapping and redaction are left out, and
  so are latencies and metrics.
* The object store serves a request in one step. A request may be refused, may be
  lost, may lose its answer, or may be served after its client gave up. All
  network failures are answered `timeout`, the other retryable kinds behave the
  same in the loop. The provider's delete does not report missing objects
  (`oss.go:152` says so).
* A call starts with a live context and arguments that passed `NewKey` and
  `validateMetadata`; the context may end at any step after that.
* A body is whole, a tail, or nothing: what is left of a reader. Objects have
  versions, which stand for ETag and date together; the provider dates every
  object, so the age check always has a date.
* `Ages` makes an object older than the retention period at any moment, which
  covers every clock.
* A process crash forgets all that is not the object store, and may leave the
  requests in flight on their way.
* An upload id is handed out once. The parts of an upload are their number and
  ETag.
* The object store may refuse any request of an upload as unauthorized, and one for an
  upload that is not open. A part may come back without an ETag, which UploadPart
  refuses after it was staged; that the part number could come back changed is left out
  (both adapters echo it).
* The metadata that a Put or a Get returns is the version it was read from, none if the
  second request failed. `AnswersWereTrue` says that this version was there during the
  call, `InfoDescribesBody` that it would be the one of the body.
* `Exists` is Head with another result; `ListParts` reads only, and is modelled over
  the in-memory adapter.
* The prefix, MaxKeys and token are all a List has; keys are numbers in the order
  of their names.
* A digest is what it was computed from and the length of its hex form: collisions
  are left out, and algorithms are told apart by that length, as `inferChecksumAlgo`
  does.
* In `MemoryStore` a content is what it was made from and how much of it is there;
  content types, tags, metadata and dates are copied along and left out, and so is the
  Size that its Complete returns, a sum of what the caller listed over an object that is
  empty (`PublishesParts`). A Delete takes its own head when it is strict; the head for
  the retention policy, whose failures and races are those of `BlobStore`, is there only. A multipart
  call has a session of its own (the marks are in `Multipart`). The health of an
  adapter around this one may be any error of `Faults`. There is one adapter:
  `inMemoryUploadSeq` is shared by all adapters of a process without a common lock,
  and what a second one would do to it is left out.
* In `StorePolicy` the checks of a call are its gates only: closed stores, contexts
  and the adapter's own failures are in the other modules. The prefix rules apply to
  the key as it is spelt, as in the code.

## Not modelled

* Metrics, traces, logs and their no-op defaults (`observability.go`): output, on
  which no decision depends. The gauge and the audit event of a Presign, which carry
  state a reader relies on, are in `MemoryStore` and `StorePolicy`.
* The parsers of the standard library behind `env.go`; redaction of errors
  (`errors.go`), key scopes (`SanitizedScope`), `Sanitize`: wording.
* `New` of the aliyun adapter (client construction), its Health and PresignURL: one
  call of the SDK each. Signing of URLs. The SDK and the provider beyond the requests
  used.
* `store.go` declares interfaces only. CI, release evidence and scripts are not part
  of the running program.
* That a lost answer of an Initiate leaves an upload open at the provider: the model
  has the behaviour, but the repository promises nothing about it.

## Plan

Done: `OssErrors`, `RunContract`, `RetryBreaker`, `Multipart`, `BlobStore`,
`Listing`, `StorePolicy` with `ObjectKeys` and the environment, `ChecksumReader` on
`VerifiedRead`, `MemoryTables`, `MemoryStore` on `AtomicStore`, and the proofs of
all seven, which cover every safety property and refinement that the runs check.

Next, in this order:

1. A `BlobStore` that stores bodies with checksums, so that a Get with VerifyChecksum
   over retried Puts is one behaviour from Put to the last Read.
2. `Multipart` with the readers of parts over the provider, as `MemoryStore` has them.
3. Two in-memory adapters over one `inMemoryUploadSeq`.
4. Proofs: variants for the other liveness properties, as `CallsTerminate` is one for
   `EveryCallReturns`: the reads of `ChecksumReader`, the calls of `Multipart` and of
   `MemoryStore`.
