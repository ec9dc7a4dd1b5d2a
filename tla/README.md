# SecretShield: TLA+ models, model checking and proofs

SecretShield is a proxy that adds credentials to outbound API calls. A
microservice calls the proxy without a secret; the proxy checks its policy and
budget, takes the secret from an encrypted vault, calls the upstream, redacts
and caches the answer, charges the call and writes it to a hash-chained audit
ledger. Paths below are relative to `src/src/secretshield/`.

The proxy is one asyncio process. Its components are plain objects shared by
every request handler, and none of them takes a lock, so the code between two
`await`s is atomic and everything an object's method does across an `await` can
interleave with the same method in another request. That is where the hard
behaviour of this code lies, and what the models are about.

## Inventory

| component | state | operations | talks to |
|---|---|---|---|
| Audit ledger (`audit/logger.py`, `audit/verifier.py`) | table `audit_ledger` (SQLite), `_last_hash` in memory | `init_db`, `log_request`, `get_recent_entries`, `verify_chain` | called by the pipeline after the charge, and by two admin endpoints |
| Circuit breaker (`proxy/resilience.py`) | per profile: state, two counters, time of the last change | `state` (a property that changes state), `check_can_execute`, `record_success`, `record_failure` | asked and informed by the forwarder, read by the metrics endpoint |
| Budget limiter (`policy/budget_limiter.py`) | per service: a budget and a deque of (time, cost) | `set_budget`, `check_budget`, `record_spend`, `get_metrics` | asked when a request arrives, informed when it has been answered, read by the metrics endpoints and the 80% warning |
| Forwarder (`proxy/forwarder.py`) | an HTTP client | `forward`: profile, secret, breaker, upstream, breaker | vault, breaker, upstream |
| Request pipeline (`server.py`) | `recent_events` | `handle_proxy_execution`: RBAC, budget, DLP, cache, forward, redact, charge, count, cache fill, alert, audit | every other component |
| Response cache (`proxy/cache.py`) | an ordered dictionary of entries, hit and miss counters | `generate_cache_key`, `get`, `set`, `clear`, `get_stats` | pipeline, metrics endpoints |
| Vault (`vault/store.py`, `vault/migration.py`, `vault/cipher.py`) | table `vault_profiles` (SQLite) | `set_profile`, `rotate_secret`, `delete_profile`, reads, export, import | admin endpoints, CLI, forwarder |
| Policy (`policy/rbac.py`, `policy/authenticator.py`, `policy/cost_models.py`) | rules, keys, price tables | `set_rule`, `is_allowed`, `issue_service_token`, `authenticate`, `estimate_from_response` | pipeline |
| DLP guard, redactor, injector (`proxy/dlp.py`, `proxy/redactor.py`, `proxy/injector.py`) | patterns and modes | pure transformations | pipeline, forwarder, audit |
| Alerts (`alert/dispatcher.py`) | an HTTP client, webhook URLs | `notify_*`: awaited, errors swallowed | pipeline |
| Metrics (`metrics/prometheus.py`) | counters | `record_request`, `render_prometheus_text` | pipeline; a scrape reads limiter, breakers and cache |
| Scanner (`scanner/`) | where it is in a diff, its findings | `scan_git_diff`, `scan_directory`, `scan_file` | `scan` command, whose exit code is a gate in CI |
| CLI, configuration, client shim, dashboards, packaging | none of their own | presentation | the components above |

What makes each component correct, and what makes that hard:

* **Audit ledger.** Every record carries the hash of the record before it, and
  the verifier rejects a ledger only if somebody edited it. Hard because
  `_last_hash` is read and written around awaits by every request, because a
  read endpoint writes it as well, and because inserts fail and the proxy restarts.
* **Circuit breaker.** Fail fast for the whole timeout; trip and close only on
  unbroken runs of outcomes; never stay open for ever. Hard because outcomes
  arrive long after the circuit has moved on and because the move to half open
  is made by whoever happens to look.
* **Budget limiter.** Spending within limits in three windows at once. Hard
  because the check and the charge are separated by the upstream call, and
  because of the boundaries (`>=` for calls, `>` for dollars, limits of zero).
* **Pipeline.** An answered call is charged once and audited; a hit in the cache
  is neither. Hard because each step can fail after the earlier ones took effect.
* **Cache.** A hit is an answer to the same request, younger than its TTL, with
  its own headers; capacity holds. Hard because concurrent misses fill the same key.
* **Decisions.** A caller is who it proves to be; a narrower rule takes away and
  never adds; what leaves the proxy is masked as far as it says, carries the
  vault's credential and is paid for. Hard because each decision combines lists and
  settings of several modules, and because masking one thing can uncover another.
* **Scanner.** A diff that adds a secret does not pass. Hard because the scanner
  has to guess from each line alone what git means by it.
* **Vault.** A rotation is never lost, the previous secret is the one that was
  replaced, a backup is a state the vault was in. Hard because reads and writes
  of one operation are separate transactions.

The hazards, each at its line and with the properties that cover it, are listed
in `PROJECT.json`.

## Modules

| module | what it is |
|---|---|
| `HashChain` | abstract: one history that only grows |
| `AuditLedger` | the logger and the verifier; each call nobody overlaps is a step of `HashChain` |
| `AuditLedgerProofs` | theorems about `AuditLedger` |
| `CircuitBreaker` | one breaker and the calls through it |
| `CircuitBreakerProofs` | theorems about `CircuitBreaker` |
| `SpendGate` | abstract: a limit that is checked before a request and charged after it |
| `BudgetLimiter` | one service's budget and requests; refines `SpendGate` three times |
| `BudgetLimiterProofs` | theorems about `BudgetLimiter`, and about `SpendGate` for any gate |
| `ResponseCache` | the response cache |
| `ResponseCacheProofs` | theorems about `ResponseCache` |
| `AtomicVault` | abstract: a table in which storing, rotating and deleting a profile each happen at one instant |
| `VaultStore` | the vault, its backups and the reads of the forwarder; an operation nobody overlaps is a step of `AtomicVault` |
| `VaultStoreProofs` | theorems about `VaultStore` |
| `CallMeter` | abstract: what the proxy promises of its accounts |
| `RequestPipeline` | requests from arrival to answer, through every await of `server.py`; refines `CallMeter` |
| `RequestPipelineProofs` | theorems about `RequestPipeline`, one of them by way of `CallMeter` |
| `RequestGuards` | the decisions about a request: caller, rules, DLP, credential, price |
| `RequestGuardsProofs` | theorems about `RequestGuards` |
| `DiffScanner` | the scanner behind git, and its gate |
| `DiffScannerProofs` | theorems about `DiffScanner` |
| `MC*` | instances for TLC |

The modules meet where the code's components do. `RequestPipeline` is the
composition: it has an action for each way a component can answer it and keeps of
each component what the others depend on (how many charges, hits and records,
which answer is cached). The modules of the components say when they give which
answer: `BudgetLimiter` and `RequestGuards` when a request is refused,
`CircuitBreaker` and `VaultStore` when the forwarder is, `ResponseCache` when an
answer is evicted, `AuditLedger` how a record is written.

Definitions introduced by `Mutant:` in a comment are wrong on purpose: each is the
form a definition would have after a plausible slip, and shows that a property
can fail. No specification uses them.

### AuditLedger

`ledger` is the table, `lastHash` is `_last_hash`. A call is a coroutine with a
program counter; its steps are the stretches of code between awaits:

| action | code |
|---|---|
| `Select` | `init_db` up to the fetch of the newest `record_hash` |
| `Adopt` | `init_db` stores it in `_last_hash` and returns through two awaits |
| `Seal` | `log_request` reads `_last_hash`, hashes the record |
| `Commit`, `Fail` | `INSERT` and commit succeed, or raise |
| `Publish` | `_last_hash` takes the new hash; the call returns |
| `AdoptForTail` | the store of `Adopt` on behalf of `get_recent_entries`, which then only reads |
| `Restart` | the process ends at any point; tables survive, memory and calls do not |

The hash of a record is the sequence of payloads it commits to: SHA-256 without
collisions. `alone` and `serial` are ghosts that remember which records were
written by calls nobody overlapped.

### CircuitBreaker

`state`, `fails`, `succs`, `elapsed` are the fields of the breaker; `elapsed`
replaces the time stamp `_last_state_change`. `Evaluate` is the `state`
property, and is part of every action that reads it (`Admit`, `Reject`,
`Scrape`). `Succeed`, `Fail` and `Abandon` end a call: an answer below 500, a
5xx or `httpx.RequestError`, or an end that reports nothing. `healthy` is the
upstream. `sinceTrip`, `good` and `bad` are ghosts: the time since the last trip
and the current runs of outcomes, counted as they are reported.

### SpendGate and BudgetLimiter

`BudgetLimiter` models one service: `txs` is its deque, with ages for time
stamps; `Admit`, `RejectRate` and `RejectSpend` are the outcomes of
`check_budget`; `Record` is `record_spend`; `End` is a request that ends before
it is charged; `GetMetrics` only prunes. `SpendGate` is what one window
promises, and `MinuteGate`, `HourGate` and `DayGate` map the limiter to it: a
call weighs 1 in the minute and its cost in the hour and in the day, and the
minute's limit is `rpm - 1` because the code compares it with `>=`. `owed` is a
ghost: what was used and outstanding when the limit was last set, which no limit
can undo.

`SpendGate` has no run of its own: its theorems hold for every gate, and that the
limiter's three windows are gates is checked by the run of `BudgetLimiter` and
proved (`WindowsRefineGates`; a lemma shows that they meet the theorems' assumption).

### ResponseCache

`entry` is the dictionary and `older` its order: per key, the keys before it.
Ages replace time stamps. No method awaits, so each outcome of a method is one
step: `Hit` and `Expire` are `get` finding an entry, fresh or not, `Set` is
`set` with its eviction, `Clear` is `clear`, `Tick` is time. The pipeline can
call them in any order, because any number of requests can be between its `get`
and its `set`. `sinceSet` and `usedSince` are ghosts: the time since a key was
stored, and the keys that were used since it was. `TypeOK` includes `Line`: the
order is total over the cached keys and holds no others.

### VaultStore

`rows` is the table `vault_profiles`, `backup` the backup file. A client is a
request handler or a command line process; `pc`, `arg`, `seen`, `todo` and
`done` are the local variables of its operation. Every statement that is
committed is a step, and so is every read whose result is used after an await:

| action | code |
|---|---|
| `SetBegin`, `SetRead`, `SetWrite` | `set_profile`: called, the `SELECT` of the version, the upsert |
| `ImportBegin` | `import_vault` has read its file; it then stores item after item |
| `RotateRead`, `RotateWrite` | `rotate_secret`: `get_profile`, the `UPDATE` |
| `Delete` | `delete_profile` |
| `UseBegin`, `ReadSecret`, `Send` | `forward`: `get_profile`, `get_decrypted_secret`, the request (or the 500) |
| `ExportBegin`, `ReadSecret`, `SaveBackup` | `export_vault`: `get_all_profiles`, one secret after another, the file |
| `Abort` | a statement raises or the process ends; what was committed stays |

A secret stands for its encryption (AES-GCM bound to the profile's name, one
master key). `Empty` is the empty secret: it can be stored and rotated in like any
other, but export skips it and `forward` answers 500 as if there were none
(`HasSecret`). `touched` and `history` are ghosts: the names other clients wrote
since an operation began, and every item that was ever a row.

### CallMeter and RequestPipeline

A handler (`Request`) runs from await to await, and each action is what it does
between two. `pc` names the await it is in; `call` and `answer` are its local
variables; `outcome` is how its last request ended.

| `pc` | awaits | ends with |
|---|---|---|
| `notifying` | `notify_budget_exhausted` | `Notified` |
| `body` | `request.body()` | `Disconnect`, `Block`, `Hit`, `Miss` |
| `forwarding` | `forwarder.forward` | `Unavailable`, `RespondText`, `RespondBinary` |
| `collecting` | the chunks of a text answer | `Break`, `Collected` |
| `warning` | `notify_budget_warning` | `Warned` |
| `auditing` | `log_request` | `AuditText`, `AuditBinary`, `AuditFails` |
| `streaming` | the chunks of a binary answer, read by the web framework | `Streamed`, `StreamBreaks` |

A request arrives with `Unrouted`, `Refuse`, `RefuseBudget` or `Admit`. `Evict` is
what cache entries do by themselves, `Change` an upstream whose answer to a call
changes, `Restart` the end of the process at any point. `spent`, `counted`,
`hits`, `recorded` and `events` are the lengths and counters of limiter, metrics,
cache, ledger and `recent_events`; `unclosed` counts the upstream responses whose
stream is open. A call stands for a cache key. An answer has a version, the
upstream's at that time, whether its status is 200 (`ok`), whether it is
text or JSON (`text`), and whether the handler has read it to its end (`whole`).
Statuses other than 200 behave alike here. The ghosts
count what restarts forget, and note which version a handler's client could
already know when its request arrived (`since`) and which calls two handlers ever
fetched at the same time (`raced`).

`CallMeter` says of these numbers only: charging and counting an answer are one
step, a hit is only counted, a charged call is open until it is recorded or given
up, and a crash clears what is in memory. `Meter` maps the pipeline to it: the
open calls are those in `warning` and `auditing`.

### RequestGuards

One request is in hand at a time, because between identification and permission
there is no await; `req` keeps of it what later decisions use. `Arrive` is
`authenticate` and `enforce`, `Inspect` is `inspect_payload`, `Send` is
`prepare_headers`, `Priced` is `estimate_from_response`; `Issue`, `SetRule` and
`Tick` change tokens, rules and time between them. A rule's pattern is the set of
names it matches. Of a body the model keeps whether it can be decoded (if not, the
guard lets it out unscanned in every mode), which kinds of sensitive data the
guard's patterns see in it, and which of these hide a card: `123-45-6789
378282246310005` is one long candidate that fails the Luhn check until the SSN is
replaced. `Replaced` is one substitution, and `Sanitized` the substitutions of
masking in their order, with what each uncovers. A header is a name, its spelling
and whose value it has. The web framework lowers the names of the caller's headers,
the profile's name is sent as it was stored, and the dictionary replaces only a name
spelled alike: that is `Outbound`. Rules and static keys have a place in the model
because the classes have one; the server itself starts without any.

### DiffScanner

`at` is where git is in the diff, `current_file` and `current_line` where
`scan_git_diff` thinks it is. Each action is a line of the diff: `OpenFile` (`+++
b/f`, which git quotes if the name has unusual characters and ends with a tab if it
has a space), `DeleteFile` (`+++ /dev/null` and its hunk), `Hunk` (`@@`), `Add`
(`+`). Source lines have shapes: plain ones, those that begin with `++`, and those
that Python splits and git does not. `lost` notes what the scanner cannot know at
this point by what it has been shown, `clear` collects the secrets it cannot miss,
`odd` whether anything odd has come up. A name is a path and whether git's tab is
behind it: `line[6:]` keeps the tab, so the findings are shown with it (`Shown`) and
the rules that ignore a file by its name or suffix do not apply (`is_path_ignored`,
`IgnoredByName`). `StartTree`, `ScanFile` and `SkipFile` are the scan of a directory
or file, `GitFails` is a diff without output, `DecodeFails` one whose bytes cannot
be decoded and which is dropped with all its secrets, `Exit` is the exit code. A
rule is reduced to whether it matches; a secret is one a rule knows, or random.

## Runs

Safety and liveness of one component share a run where their bounds do.

| run | question | bounds |
|---|---|---|
| `audit` | what survives any interleaving, failure and restart; do undisturbed calls extend one history | 2 calls at a time, 2 payloads, 3 records (4 with the call in flight) |
| `audit_fork` | does the ledger always verify: no | 2 calls, 1 payload |
| `breaker` | fail fast, earned trips and closings; does an open circuit end, does it recover | 3 calls, thresholds 3 and 2, timeout 2 ticks, fair |
| `budget` | exact daily total, bounded overshoot; does each window refine the gate; is a refused service let in again | 2 requests, 2 budgets (one call a minute, and an answer that exhausts the hour; one that two answers exhaust for a day), windows 1, 2, 3 ticks, costs -1 and 2, 2 transactions, fair |
| `budget_spent` | is a limit that has been spent a limit reached: no | 1 request, 1 budget, 1 cost that equals its limits |
| `cache` | capacity, order of use and freshness over any sequence of calls | 4 keys, capacity 3, times to live 0 and 2 ticks |
| `vault` | what survives any interleaving of stores, rotations, deletions, reads, exports and imports; are undisturbed operations atomic; what do exports and imports have | 2 clients, 2 profiles, 2 secrets, one of them empty, versions up to 2 |
| `vault_lost` | is the replaced secret the backup key: no | 2 clients |
| `pipeline` | do the accounts agree and refine the meter, is the cache right, are responses closed, do handlers move on | 2 handlers, 1 call, 2 versions of its answer, 4 requests, events trimmed at 1, fair |
| `guards` | are callers identified, narrower rules narrower, and what leaves fit to | 3 services, a static key, 1 token, 2 rules, 3 methods, all header sets, all bodies, every blocking and masking guard and one that audits, 2 prices |
| `scanner` | does the scanner keep in step, does it find what it can | 2 files at a time of 4 (plain, ignored, quoted, with a space), 2 lines each |
| `scanner_diff` | does a diff that adds a secret fail: no | the same, decodable diffs |

Why the bounds are enough. *Audit*: a fork needs two overlapping calls, a late
store by a third party is a second call as well, and a record that adopts a
stale hash and is followed by a correct one needs three records; forks deeper
than that repeat. *Breaker*: three calls give an outcome that arrives in every
state plus two probes that disagree; a failure threshold above the half-open one
tells the two counters apart. *Budget*: the windows differ by a tick each, so a
transaction can be in any prefix of them; two transactions and two requests in
flight give every order of charge, expiry and check; a cost below zero meets the
clamp. Budgets change between the two, so a limit is lowered under requests in
flight. *Cache*: there is one key more than the capacity, so a set into a full
cache evicts, and three cached keys can be hit, overwritten and evicted in any
order; a time to live of zero expires with the first tick. *Vault*: what goes
wrong needs one operation in the middle and one that overtakes it, so two
clients; two secrets tell the replaced one from the new one, and one that is empty
meets the reads that skip it; two profiles are needed where one operation goes
through several; one rotation of a profile makes its backup key and version, and a
second starts from both.
*Pipeline*: handlers meet only in the shared numbers and in the cache, where two
that fetch one call are what can go wrong, and a third request can then read what
they left, before or after an eviction or a restart; four requests leave one more.
Calls do not influence each other. Two versions tell old from new. *Guards*: there
is a service with a static key, one that tokens can be issued to, and both ways of
being nobody; a time to live of one tick expires within the clock. The rules
differ by a denial, an allowance and an empty list, and a method neither allows is
there too. *Scanner*: the scanner carries its file and line from one header to the
next only, so two files, of every two kinds and in either order, either of them
possibly deleted; two lines are an odd one and the one behind it, in the same hunk
or the next.

Ages stop at `Day + 1` and the breaker's clock at its timeout, beyond which every
comparison in the code has the same outcome. `MaxRecords`, `MaxTransactions`,
`MaxRequests`, `MaxTokens` and `MaxVersion` only stop new work from starting,
`MaxLine` and `MaxFiles` bound what git writes, and `MaxTime` stops the clock of the
guards after the last token has expired.

Four runs find disagreements between the code and what its documentation or its
own comments say, and are recorded under `findings` in `PROJECT.json`: the forked
chain, the spent budget that still admits, the lost rotation, and added lines that
look like headers.

Some behaviour is modelled as the code has it and is worth knowing, though no run
calls it wrong:

* Requests that overlap pass on one balance, so a minute can hold more calls than
  `rate_limit_rpm` and a window more dollars than its limit; `OvershootBounded` says
  by how much.
* A rotation of a profile that is deleted meanwhile stores nothing and reports
  success.
* The cache does not look at methods: a `POST` with status 200 is answered from it
  (`server.py:293`, `:353`), where README.md:44 speaks of idempotent responses.
* A hit repeats the headers as the upstream sent them, with their length, and the
  redacted body may have another.
* Two requests that fetch one call at the same time can leave the older answer in
  the cache.
* The upstream's response of a binary answer stays open if its audit fails or if its
  client is gone before the first chunk.
* Models are priced by the first known name in theirs, so `gpt-4o-mini` is priced
  as `gpt-4o` (`policy/cost_models.py:60`).
* The profile's header name is set in a dictionary beside the caller's headers, whose
  names the web framework has lowered: a caller's `authorization` goes upstream
  beside the injected `Authorization` (`proxy/injector.py:44`), where
  docs/architecture.md:61 has the credential injected into the request.
* A body with one byte that is not UTF-8 passes the guard unscanned in every mode,
  `block` included (`proxy/dlp.py:97`), and masking does not scan its result, in which
  a replaced SSN or key can uncover a card.
* An empty secret can be stored; it is then neither exported nor sent.
* If git fails, or its output cannot be decoded, the gate passes
  (`scanner/engine.py:329`).
* In a diff, a file with a space in its name is not ignored for its name or suffix, and
  is reported with a tab behind its name (`scanner/engine.py:336`).

## Fairness

`CircuitBreaker`: time passes; calls end, because what is reported to the breaker is
the head of the answer, and the HTTP client has a timeout for it; clients keep
calling, so some caller asks again; and a caller whose upstream is healthy again and
again is answered again and again (strong fairness on `Succeed`): without it every
probe could be cancelled and the circuit would stay half open, as the code would
too. `BudgetLimiter`: time passes, and nothing else is assumed: requests may be in
flight for ever. `RefusalEnds` speaks of positive limits: a budget of nothing may
refuse for good. `RequestPipeline`: two awaits end, one way or another, and which
way is not assumed. `forward` returns or raises, because the head of an answer is
finite (the HTTP client bounds its size) and silence ends after 30 s; and
`log_request` ends, because the database's lock timeout does. Nothing else is
assumed: `httpx.Timeout` is a limit for each read (`proxy/forwarder.py:39`), so a
body that comes piece by piece for ever, an event stream for example, keeps the loop
at `server.py:321` reading, and the answer of a webhook could do the same. Nothing
is assumed about clients either. So `RequestsMoveOn` speaks of the two awaits in
`forwarding` and `auditing`, and says that they are not entered again and again for
one request: an unavailable upstream or a failed audit ends the request instead of
being tried for ever.

## Proofs

TLAPS proves, for every value of the constants:

* **AuditLedger.** `TypeCorrect`; `SerialLinks`; `Rooted`; `SerialCallsExtend`; and,
  assuming `Coroutine = {c}`, `SingleCallerChain` and the refinement
  `SingleCallerRefinement`. `SerialRecordsLinked` is not inductive: a record is
  linked because the call that wrote it still holds the newest hash in each of
  its steps, and that holds only while `alone` does; the strengthening relates
  the program counter of a call that is alone to `row`, `lastHash` and `sealed`
  and says that only one call can be alone while others are idle.
  `EveryRecordIsRooted` needs that every hash anywhere (in memory, fetched,
  sealed) is the genesis hash or the hash of a stored record or of a record its
  own call has committed; it survives because the table only grows.
  `SerialCallsExtend` puts both together. Of the verifier two things are proved.
  `NeverCalledTampered`: what concurrency does to a ledger is never reported as
  tampering. `NewestHashCommits`: of two tables it accepts, the one whose newest
  hash continues the other's continues it record by record, because each accepted
  hash spells out all contents before it (`AcceptedHashes`, by induction over the
  records). That is what a verdict is worth: it pins down the ledger under a newest
  hash that is known from elsewhere. It says nothing of latency, client address
  and metadata, which are not hashed, and it takes SHA-256 to have no collisions.
* **CircuitBreaker.** `TypeCorrect`, `Tolerates`, `FailsFast`, `ClosesWhenEarned`,
  `TripsWhenEarned`. The invariant `IInv` adds to the types that an open circuit's
  `elapsed` is at most `sinceTrip` (late failures only push the recovery back)
  and that `succs` and `fails` are bounded by the ghosts' runs in the states in
  which they are used.
* **BudgetLimiter.** All it is checked for but `RefusalEnds`: `TypeCorrect`,
  `DailySpendsExactly`, the refinement `WindowsRefineGates` and
  `OvershootsByOneChargeEach`, with `SerialCallersKeepTheRate` for a service whose
  requests do not overlap; and of any gate `GateTypeCorrect` and
  `GateOvershoots`, which assume `GateAssumption`. Two invariants carry them.
  The deque stays in the order of age (`Ordered`), so what pruning leaves is
  exactly the last day and the sum over it needs no look at ages, as the code has
  it. And usage plus what requests in flight may still be charged is within limit
  and overshoot, or within what was owed (`Pledged`): usage alone is not
  inductive, since a charge moves dollars from the requests in flight to it. What
  a sum does when the deque is pruned, charged or ages is shown by counting: a
  total is the number of its units (`TotalCounts`), pruning maps the units that
  count one to one, a tick only loses some, a charge adds its own. That the
  library's recursive sum is that number is shown by induction over sets, which
  follows from the well-foundedness of `<` on the natural numbers (`LeastNumber`,
  `Induct`, `FiniteInduct`).
* **ResponseCache.** `TypeCorrect`, `NeverOverfull`, `RecentIsKept`, `FreshHits`.
  What is evicted is least recently used because of every two cached keys one is
  either before the other or was used since it (`Recency`): the first key has all
  others among those used since. Together with the capacity that is inductive.
* **VaultStore.** `TypeCorrect`, `BackupKeysMakeSense`, `RotatedStaysRotated`,
  `RotatesUndisturbed`, `UndisturbedAreAtomic`, `ReadsStayCurrent`,
  `ImportsRestore`; and, with no rotations among the operations, the refinement
  `StoresAreAtomic`. A backup key was in use because every row, and every secret a
  rotation has read and not yet written back, is in `history`. That what a reader
  has got is the profile's own (`ReadsStayCurrent`) rests on the same: what it has
  listed was a row (`OwnInvariant`). The theorems about
  what a client holds rest on one lemma, `OthersUndisturbed`: a step of another
  client changes only rows it touches. `ImportsRestore` also needs that a backup
  has one item per profile, which export keeps although it reads name after name,
  so that no item of an import overwrites another. `StoresAreAtomic` needs that
  every version is 1 without rotations. With rotations the refinement fails, because
  a store that overlaps a deletion or a rotation writes a version it has read
  before, and because of what `vault_lost` shows; `UndisturbedAreAtomic` is what
  remains of it.
* **RequestPipeline.** All it is checked for but `RequestsMoveOn`: `TypeCorrect`,
  `AccountsAgree`, `CachesComplete`, `EventsAreTrimmed`, `StreamsAreClosed`,
  `MeterRefinement`, `ReadsForward`; and `NothingRecordedTwice`, which is shown of
  the meter alone (records and open calls together are never more than the charges)
  and holds of the pipeline because it refines the meter. The invariant `Ledgers`
  has five parts, each shown on its own from the ones before it: which local
  variables a handler has at each await, the numbers, the answers, the ghosts, the
  open streams. That a cached answer is complete needs that a handler past its
  collecting holds a whole text, and that no answer is newer than the upstream's.
  `ReadsForward` needs more (`Fresh`): for a call that was never fetched twice at a
  time, a cached answer, and one that is being collected, is at least as new as
  anything a client has had, and while somebody fetches it, it is not cached.
* **RequestGuards.** `TypeCorrect`, `OnlyFitLeaves`, `IdentifiesCallers`,
  `NarrowingGrantsNothing`, for any services, keys, tokens, rules, settings and
  prices. Each rests on a lemma about one decision: `Authenticates` (the answer is
  a service exactly for its own credentials), `SanitizedIsClean` (what masking leaves
  of what the guard looks for is a card, and what hid it is gone), `CredentialWins`
  (against its own spelling), `TokensCost`. `IdentifiesCallers` needs that no service is
  called `None`, and nothing about tokens and static keys being different.
* **DiffScanner.** `TypeCorrect`, `KeepsInStep`, `FindsExactly`. The invariant adds
  that without oddities the scanner knows file and line wherever git adds lines and
  the file has no space in its name, and that a passed gate that fails on findings
  has none. `Finds` is why a tab does no harm to what must be found: with one the
  scanner ignores less.

The assumptions are the `ASSUME`s of the modules, which TLC evaluates in the runs:
constants have the types the code gives them, sets of callers are finite, and what
stands for Python's `None` is none of the values beside it. None of them bounds
anything: `MaxTransactions`, `MaxTokens`, `MaxTime` and the like are arbitrary in
the proofs.

Only model-checked: liveness (`OpenEnds`, `Recovers`, `RefusalEnds`,
`RequestsMoveOn`), because TLAPS does not reason about fairness here. Every safety
property, action property and refinement that a passing run checks is also proved.

## Plan

Done: the components in the order of their hazards, then the pipeline that joins
them, the decisions, the scanner. Left:

1. Lengths of bodies and answers in `RequestPipeline`, for the headers of hits.
2. The host lookup of the transparent route (`get_profile_by_host`) in `VaultStore`.

## Not modelled

Regular expressions (redactor, DLP, scanner rules), Luhn and entropy, cryptography,
formats and texts (problem documents, Prometheus, Slack, Discord, reports), the
counts of a scan, dashboards, the CLI but for `scan`, configuration, the client
shim, packaging. Floating-point dollars are integers, so rounding is out. Of the
vault, the schema migration of `init_db`, the read-only listings and the columns no
operation reads back are left out, and the backup file is written in one step. Of
the pipeline, redirects and connections are the HTTP client's and latencies are
left out. Cache keys are calls: that no two requests share a hash, and that the JSON
of a body is normalised, is not modelled.
