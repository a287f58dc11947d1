# TLA+ models of athenadriver

This directory models the Go Athena driver (`src/go`) with TLA+ and checks it with TLC.

## The system

- **Connection.QueryContext** (`src/go/connection.go:302-526`) is the heart of the driver. One call goes through these steps:
  - pseudo-command prefix (`pc:get_query_id`, `pc:get_query_id_status`, `pc:stop_query_id`, `pc:get_driver_version`);
  - read-only check;
  - argument interpolation;
  - workgroup lookup and optional remote creation;
  - `StartQueryExecution`;
  - a poll loop. Each round calls `GetQueryExecution` and then waits in a `select` that races the caller's `ctx.Done()` against a one-interval timer.
  - The loop ends in one of these ways:
    - on SUCCEEDED, it returns rows;
    - on FAILED or CANCELLED, it returns an error;
    - on caller cancellation, it issues `StopQueryExecution` and returns;
    - on the client-side timeout (`isQueryTimeOut`), it returns.
- **getWG** (`src/go/wg.go:72-97`) memoizes `GetWorkGroup` for 10 minutes in the process-wide single-flight group `getWGGroup`. All connections share it. `CreateWGRemotely` (`wg.go:100-115`) creates a missing workgroup.
- **Interpolation** (`interpolateParams`, `buildExecutionParams`) turns `?` arguments into SQL literals or Athena execution parameters.
- **Facade**: `ExecContext`, `Ping`, `Prepare`, `Begin`, `Close`.
- **Mock Athena client** (`src/unnamed/part_001`): its scripted answers are what the models' environment may answer.
- **Examples** (`src/unnamed/part_000`, `src/examples/readonly.go`, `src/examples/query/ddl_msck.go`).

Code the driver calls that is not in the repository is modelled from `spec.md`. This covers `memoize.Group`, `isQueryTimeOut`, `isReadOnlyStatement`, `IsQID`, `Rows` and `printCost`. `PROJECT.json` marks these definitions `spec_modelled`.

## Modules

### QueryExecution.tla (MC: MCQueryExecution.tla)

One `QueryContext` call, with the Athena backend and the caller's context as its environment.

**State**
- `pc`: where the goroutine is. The values are idle, submit, poll, wait and done.
- `call`: the arguments of the call, one record drawn from `Calls`. It holds the pseudo-command, the text class (read / write / execution id), arguments, the read-only and money-wise settings, the workgroup name, and whether remote creation is allowed.
- `remote`: the execution's state at Athena. `reason` records whether a FAILED state carries a reason.
- `seen`: the last status the driver read.
- `elapsed`: poll intervals since the start.
- `ctxDone`: whether the caller has cancelled.
- History variables, kept only for properties: `qidKnown`, `starts`, `stopCalls`, `costPrinted`, `outcome` and `startAns` (the answer StartQueryExecution gave).

**Actions** (each one is a whole block of code, including the handling of its remote call's answer)

| Action | What it models | Lines of connection.go |
|---|---|---|
| `Invoke` | prefix parsing, driver-version row, unknown command, read-only check, interpolation outcome, workgroup decision | 302-372 |
| `SubmitQID` | the execution-id branch: status, stop, or cached results | 374-405 |
| `Submit` | `StartQueryExecution` with its six answer kinds (an id may come back with an error), including the request-id row for `pc:get_query_id` | 407-440 |
| `Poll` | `GetQueryExecution` and the state switch | 441-486 |
| `WaitCancel` | the `ctx.Done()` arm | 487-511 |
| `WaitTimer` | the timer arm and `isQueryTimeOut`, only while the caller has not cancelled | 512-522 |

The timer of the `select` is a fresh `time.After(pollInterval)` made each time the `select` is entered, so it is never ready at entry. A cancellation that happened before the timer fired, whether during the last `GetQueryExecution` or during the wait, is therefore the case the `select` takes. `WaitTimer` is guarded by `~ctxDone` for this reason.

The environment is:
- `CallerCancel`;
- `RemoteAdvance`, the backend moving an execution through QUEUED, RUNNING and a terminal state;
- `Finished`, a stuttering step once the call has returned and the backend is idle.

### WorkgroupCache.tla (MC: MCWorkgroupCache.tla)

Several sessions resolve one workgroup name through `getWGGroup` while someone outside the driver enables, disables, creates or deletes the workgroup.

**State**
- `entry`: the memoized value, with its fetch and expiry times.
- `inflight`: the fetch goroutines running.
- Per session:
  - `pc`: idle, waiting, create or done;
  - the result it got and the age of that result;
  - QueryContext's verdict on it;
  - whether it allows remote creation.

**Actions**
- `Resolve(s)`: a hit, or joining or starting the fetch.
- `FetchComplete`: the answer is cached (errors are not kept), and every waiter decides on it.
- `Create(s)`: `CreateWGRemotely`.
- `Complete(s)`.
- Environment: `Tick` and `AdminChange`.

### WorkgroupLookup.tla (the contract of spec 4.3)

The abstract cache: a set of sessions resolves in one step, from the cache while the value is within its TTL, otherwise with one lookup whose answer (error included) they all get; a good answer is kept for TTL from that moment, an error is not kept. `WorkgroupCache` defines `Lookup == INSTANCE WorkgroupLookup WITH pc <- LookupPc`, where `LookupPc` maps idle and waiting to idle and create and done to done. Every step of the detailed model is a step of the contract or a stutter: a fetch completing is the atomic `Resolve` of all its waiters. `ImplementsLookup == Lookup!Spec` is checked as a PROPERTY.

### Interpolation.tla (MC: MCInterpolation.tla)

`interpolateParams` and `buildExecutionParams` (`connection.go:55-222`) as operators, and the two entry points that use them, `ExecContext` (interpolate, validate, then `QueryContext` with no args) and `QueryContext` (interpolate only to validate, then submit the original text with execution parameters).
- The byte loop is the RECURSIVE operator `Loop`; each argument becomes a literal as the code writes it: `NULL` (with no buffer check), int64 in decimal, `1`/`0`, `_binary'...'`, quoted strings with `\` and `'` escaped, and times.
- Times follow the code digit by digit: rounding by adding 500 ns (with the carry through seconds to the year), the year split by Go's truncating `/` and `%`, and the `digits10`/`digits01` tables, whose out-of-range index is a panic.
- `Prepare` (`connection.go:544-555`) refuses an empty query or records `numInput`, the number of `?` in the text. `database/sql` lets a later call through only when it has that many arguments.
- `StatementAsSpecified` compares what reaches Athena, with Athena's positional substitution of execution parameters applied, to the statement spec 4.1 describes.
- `MCInterpolation` enumerates every query of up to 4 bytes over `{c, ?}` and every list of up to 2 (3 for the overflow run) arguments drawn from nil, two ints, a bool, bytes holding a backslash, a string holding a quote and a `?`, the zero time, a leap-day time that rounds into March, an ordinary time with microseconds and 9999-12-31 23:59:59.9999995, which rounds into year 10000.

## Runs

| Run | Expect | What it shows |
|---|---|---|
| `query_execution` | pass | Over every call shape and every interleaving of backend progress, caller cancellation and timer, the driver behaves as follows. `PollBounded`: it never polls past the timeout. `OutcomeMatchesExecution`: a result reports the backend's terminal state, and a timeout comes only from an execution still active and never stopped. `QueryContextReturns`: every call eventually returns. `CancelInWaitStops` (spec 8's cancel-while-running scenario): a cancellation while the driver waits between polls leads to exactly one `StopQueryExecution` and a cancellation or stop error, never a timeout. |
| `workgroup_cache` | pass | `ImplementsLookup`: the cache refines the contract of spec 4.3. Every step of the shared cache, over three sessions, expiry, admin changes and transient lookup errors, is a step of `WorkgroupLookup`: a session only gets an answer the workgroup's state allowed when the value was fetched within the TTL, and a fetch error is never cached. |
| `interpolation` | pass | `StatementAsSpecified`: for every query and argument list, what `ExecContext` and `QueryContext` send to Athena is the statement the spec describes (text and bytes arguments on the query path are native parameters by design and excluded). |
| `interpolation_panic` | violation | A time that rounds into year 10000 indexes `digits10` with 100 and panics (connection.go:178). |
| `interpolation_overflow` | violation | NULL arguments skip the buffer check, so `ExecContext` builds a statement longer than the bound the check enforces (connection.go:144). |
| `start_error_drops_id` | violation | StartQueryExecution returning an execution id with an error: the driver returns the error, or under `pc:get_query_id` the request id as its one row, and the execution id is lost (connection.go:423-431), against spec 4.5 step 3. |
| `cancel_without_stop` | violation | A cancellation that lands during `GetQueryExecution` returns without `StopQueryExecution` (connection.go:444-453). |
| `failed_without_reason` | violation | FAILED without `StateChangeReason` dereferences nil (connection.go:468). |
| `cancel_after_success` | violation | An execution that succeeded during the wait is reported cancelled after a "successful" stop (connection.go:487-500). A retry runs the write twice. |
| `pseudo_command_submits` | violation | `pc:get_query_id_status` / `pc:stop_query_id` with text that is not an execution id run that text as SQL (connection.go:375-412). |
| `cost_on_failure` | violation | No `printCost` on FAILED (connection.go:467-475), though the spec asks for it at every terminal state. |

Each property of a passing run has a mutant in `PROJECT.json`. A mutant is a plausible bug in a mapped definition (for example `CachedErrorsToo`, which caches a failed lookup, or `WaitTimerIgnoresCtx`, which lets the poll timer beat a cancellation), and TLC finds the property violated when the mutant replaces the definition.

## Bounds and why they are enough

**QueryExecution**
- Three statement types. DDL has a timeout of 2 intervals; DML and UTILITY have 1. Differing limits make the timeout depend on the statement type of the last status read.
- `MaxElapsed = 4` exceeds every limit, so the timeout branch is reached for every type.
- The text classes and pseudo-commands cover every branch of the prefix switch.
- The answer sets are those of the mock client:
  - for start: ok, service error, transport error, a lost response, and an id returned with a plain error or with a service error (the mock's FAILED_AFTER_GETQID cases);
  - ok, error and lost response for stop.
- The run has about 177k distinct states.

**WorkgroupCache**
- Three sessions of one query each. Two callers can join a fetch a third started (spec 8's K concurrent resolutions), and a later caller is served from the entry. Three sessions of two queries each take about 7 minutes and 2.2M states.
- `TTL = 2` with `MaxTime = 4` lets an entry expire and be refetched.
- The run has about 196k distinct states.

**Interpolation**
- `MaxQueryStringLength = 4` with queries of up to 4 bytes and 2 arguments: enough for every count mismatch, a `?` at either end, two adjacent `?`, and, on two-argument lists, pairs drawn from the argument values listed above; 25k distinct states (the three entry points).
- The overflow run lowers the bound to 1 and allows 3 arguments, the fewest NULLs whose text passes the bound.
- The four times reach every carry of the rounding: none, into March of a leap year, and into a new year past 9999.

## Fairness

- **QueryExecution**: `WF_vars(Driver)`. The goroutine running `QueryContext` keeps running, and the timer arm of the `select` fires eventually unless the caller cancels first, in which case the `ctx.Done()` arm is enabled and stays enabled. The caller and the backend get no fairness: the caller may never cancel and the backend may never finish, and termination must still hold (through the timeout).
- **WorkgroupCache**: none. Its one property, `ImplementsLookup`, is a safety property, so the specification is `Init /\ [][Next]_vars`.

## Not modelled, and what comes next

- **Result cursor** (`Rows`, `NewRows`, pagination): `rows.go` is not in the repository. A module built from the spec alone would check the spec against itself, so it is left out.
- **Waiter cancellation in getWG** (`connection.go:344`): what `memoize.Group.Do` does when one waiter's context ends is library behaviour not in the repository; it is not guessed.
- **float64 arguments**: both paths format them with the same `strconv` call; nothing to tell apart.
- **A module composing `QueryExecution` with `WorkgroupCache`**: it would add nothing.
  - The cache is the only state sessions share (spec 5). `WorkgroupCache` already models that sharing across sessions.
  - `QueryExecution` takes every answer the workgroup block can get (enabled, disabled, lookup error, creation success or failure). A composition would only restrict those answers. It would reach no driver state `QueryExecution` does not already reach.
- **Ping** (`connection.go:534-541`): it is `QueryContext("SELECT 1")` with every error mapped to `driver.ErrBadConn`. `database/sql` retries `ErrBadConn` on other connections, and that retry loop is outside the repository. Listed as a hazard.
- **printCost of a failed final status** (`connection.go:502`): `printCost` is outside `src/`, so what it does with a nil response is unknown.
- Left out for good:
  - `Begin`/`BeginTx` and `Prepare` have no state;
  - `Close` only clears fields;
  - logging and metrics are I/O only;
  - `CheckNamedValue` is `database/sql`'s default converter;
  - `ExecContext`'s row count comes from `Rows`, which is not in the repository.
- **Examples**: the spec excludes the command-line examples as external collaborators. Each one opens a connection, makes one or two calls and exits on the first error. Their calls are call shapes `QueryExecution` already enumerates: `pc:get_query_id`, a CTAS in a read-only session, and `MSCK REPAIR TABLE`, which is DDL. A module of their own would only replay it.
