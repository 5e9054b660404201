# A TLA+ model of `sn`

`sn` is a command-line client for ServiceNow instances. A single invocation is
a short sequential program. What is hard about it is what happens *between*
programs and on the other end of the wire: many invocations run at once over one
configuration directory and one OAuth profile; the long-running ones (`sn watch`,
`sn table list --all`, `sn impersonate`, `sn cache refresh`) talk for minutes or
hours to an instance that drops sessions, filters rows and changes its data
underneath them; and the short ones use endpoints that answer success whatever
they did. These modules model those parts, check them with TLC on small
instances, and prove some of the results for every value of the constants with
TLAPS. Paths below are relative to the repository's `src/`.

## Inventory

| Component | Source | State it keeps | Operations | Modelled |
|---|---|---|---|---|
| Configuration store | `config.rs`, `cli/profile.rs`, `cli/init.rs`, `cli/kernel.rs` | `config.toml`, `credentials.toml`, the flock on `.sn.lock`; per process: loaded files, `Snapshot` | save / verify / restore, remove, use, save and clear tokens, unlocked resolution | `ConfigStore` implements `ProfileStore` |
| OAuth token lifecycle | `oauth.rs`, `cli/auth.rs` | a profile's `oauth_tokens`; at the IdP: the valid refresh tokens | `ensure_access_token`, `force_refresh`, login, logout, re-add, remove | `TokenRefresh` |
| Watch supervisor | `cli/watch.rs` | the current session, its replacement, attempt counter, open gap, seam keys, emitted count, stdout | connect, subscribe, pump, rotate, drain, back off, give up | `Watch` |
| AMB session | `amb.rs` | the websocket, `client_id`, `dying`; at the instance: session, outstanding connects | handshake, priming connect, re-arm, subscribe, poll, disconnect | `Amb` |
| Pagination | `client.rs`, `query.rs`, `cli/table.rs` | cursor, skip, previous page, buffer, emitted count | fetch by keyset or link, fall back, emit, resume | `Keyset` |
| Impersonation, attachment download | `cli/impersonate.rs`, `cli/attachment.rs` | the minted session, `HopState`, the process's one SIGINT handler, a staging file | mint, hop, run the wrapped command, revert, log out; stream, rename | `Impersonate` |
| Schema cache | `schema_cache.rs`, `cli/cache.rs`, `cli/completion.rs` | the cache file; four workers, a shared counter, slots | plan shards, fetch rounds, split on timeout, merge, save; lineage offline | `SchemaCache` |
| External token command | `external_token.rs` | `token_cache` of a profile | run the command without the lock, store under it | `SideCaches` |
| Record references, prefix cache | `cli/record_ref.rs`, `cli/get_record.rs` | `number_prefixes.toml`, a third file under the same lock | resolve, store, re-check, forget | `SideCaches`, `Command` |
| HTTP client, arguments, output | `client.rs`, `error.rs`, `output.rs`, `cli/kernel.rs`, `main.rs` | none between requests | one request, one response, no retry; exit code; writes to stdout | `Command` |
| Flows | `cli/flow.rs`, `cli/flow/debug.rs` | none | list, get, versions; runs, debug, steps, logs, why-not, tail | `Flow`, `FlowDebug` |
| Decision tables | `cli/decision.rs` | none | list, show, run with checked inputs | `Decision` |
| Doctor | `cli/doctor.rs` | the roots given up | one document, asked again without roots that fail | `Doctor` |
| GraphQL, journal, playbooks | `cli/graphql.rs`, `cli/journal.rs`, `cli/playbook.rs` | none | documents whose failures come in band | `GraphQl` |
| Session context, catalog variables | `cli/context.rs`, `cli/variables.rs` | none | write, read back, compare | `ReadBack` |
| CI/CD | `cli/cicd.rs`, `cli/app.rs`, `cli/update_set.rs`, `cli/atf.rs`, `cli/progress.rs` | a job's link and a deadline | start, poll, give up | `Jobs` |
| Scripts, XML | `cli/script.rs`, `cli/xml.rs` | the schema read so far | run and judge; check columns and export; import | `ClassicUi` |
| Table and domain APIs, `get` nouns, JWT, agent hooks | the rest of `src/cli`, `jwt.rs`, `hooks/` | none | one request and its response | no, see below |

How they interact:

- Every command resolves its profile with two loads and **no** lock
  (`build_profile`), `config.toml` first. Everything that writes one of the three
  files takes `.sn.lock` around its whole read-modify-write (`with_config_lock`),
  and each file is replaced by one `rename(2)`.
- `build_client` calls `ensure_access_token`, or `external_token::ensure_token`,
  before a request. An OAuth refresh holds `.sn.lock` across its HTTP round trip; a
  token command runs without it; a prefix lookup waits 2 s for it and goes without.
- `sn watch` mints session cookies through the HTTP client, opens `Amb` sessions
  through the trait `Link`, and is the only reader of what they deliver. SIGINT
  sets a flag that its loops look at. `sn flow tail` ends in the same watch.
- `sn impersonate` runs another command inside the same process; the handler
  thread of SIGINT shares its session, and `attachment download` wants the same
  handler.
- A paginated walk is one process's loop over HTTP pages, and the user closes
  the outer loop by running it again with `--resume-from`.
- All other commands go through `main`, `connect`, `Client`, `RecordRef::resolve`
  and `write_response`, which is what `Command` holds.

Hard behaviours, in the order they decide correctness: lost updates on whole
files; a profile being two files; rollback of a write that others have seen;
rotating refresh tokens among processes that woke up together; loss and
duplication at session seams; a server that goes on answering for a session it
has killed; a table that changes under a cursor; a signal handler that ends a
session another thread uses; results stored after what they belong to has gone;
endpoints that answer 200 and did nothing, or drop the term that was the question.
PROJECT.json lists each hazard at its line with the properties that cover it.

## Modules

### `ProfileStore` and `ConfigStore`

`ProfileStore` is what the directory promises: one slot per profile in each
file, and every write puts one profile's slot, moving `default_profile` only to
or away from that profile. `ConfigStore` is the program: a process is one
invocation, `pc` walks it through look, wait, load, first rename, second rename,
unlock, unlocked read and verdict. The refinement is the explicit
`Store == INSTANCE ProfileStore WITH ...` of `ConfigStore`, and
`SlotsAreIndependent == Store!Spec` is both a property of the run `config` and a
theorem.

| TLA+ | Code |
|---|---|
| `profiles`, `default_profile`, `creds` | the two TOML files as they are on disk |
| `lock`, `Acquire`, `LockTimeout`, `Unlock` | `DirLock`, `lock_dir`, its deadline, `Drop` |
| `image`, `Load` | what `load_config_from` / `load_credentials_from` returned inside the lock |
| `WriteFirst`, `WriteSecond`, `FirstFile` | the two `save_*_to` calls and their order |
| `snapshot`, `Reject`, transaction `"restore"` | `Snapshot`, `save_and_verify`, `restore` |
| `ReadConfig`, `ReadCreds`, `view` | `build_profile` |
| `Mint`, transaction `"tokens"` | `complete_oauth_login`, `save_oauth_tokens` |
| `IOError`, `Crash` | any failed load or rename; a killed process, whose flock the kernel drops |

A profile's contents are the identity of the input that wrote them, which is
what decides whether the instance accepts them. The merge of single fields
(proxy, TLS, `no_proxy`), the environment variables and the order in which flags
win are abstracted: they are functions of one input and one stored entry and
touch no other slot. The nested lock (`HELD_LOCKS`) is taken for what it is, a
no-op.

### `TokenRefresh`

One OAuth profile, any number of invocations, and an external identity provider
that may rotate a refresh token, keep it, or process a request whose sender has
given up. A token is the number of the answer that issued it. `view` and `snap`
are what the invocation resolved before it waited; `Reread` is the look inside
the lock; `Plan` is the decision of `ensure_access_token` and `force_refresh`.
Time is ticks, only where one timeout races another: `Http[p]` is an
invocation's `--timeout`, `Budget` its patience for the lock
(`refresh_lock_timeout`, or `LOCK_TIMEOUT` for plain writers). The browser and
the loopback listener of an authorization-code login are one step, `Exchange`.

### `Watch` and `Amb`

`Amb` is one session from the upgrade to its end. Messages are on an ordered
wire and a frame is any non-empty run of them, so every framing the instance may
choose is tried. `await_reply` returns from the middle of a frame as the code
does; `poll` collects the events, answers a connect reply with the next connect,
and keeps a verdict back until the events beside it are out. What the client looks
for in a frame is a set of messages (`RepliesTo`, `Connect`, `Condemning`), and the
events of a frame are numbered by their places in it. The instance's half
is written from what `amb.rs` relies on (events flow while a connect is
outstanding; a reaped session still answers) and marked external.

`Watch` sees a session as the trait `Link` shows it: an inbox, whether it is
subscribed, whether it is up. `Supervise` is `supervise`, `session`, `pump`,
`pump_rotating`, `drain` and `decide`, one action per exit of each loop body.
A poll leaves its events in `batch`, and `deliver` takes them one at a time
(`DeliverSkip`, `DeliverEvent`, `DeliverFails`), so the instance publishes, sessions
die and Ctrl-C arrives between two events of one poll. Events are numbered as they
are published and the stream on stdout is the sequence `out`, in which 0 is a gap
marker.

### `Keyset`

Rows are their `sys_id`s. The table changes during the walk (`Change`), some rows
are hidden from the caller, responses may or may not carry `X-Total-Count`, and
the instance may be one that drops the `sys_id>` term (`deaf`). `FetchKeyset` is
`fetch_keyset` with its canary, its skip over hidden pages and its notion of the
last page; `FallBack` is the restart by offset of an untouched walk; `Resume` is
the user running it again with the token.

### `Impersonate`

One process with two threads: the main one, and the handler that SIGINT starts.
A request leaves a thread (`flight`) and is served later (`Served`), so the
requests of the threads overtake each other, a timeout may come before or after
the instance has acted (`NoAnswer`), and what is in flight when the process exits
may still be served (`LateRequest`). `Ignored` names the requests the instance
answers with success and does not do, which is why `run` re-reads the session.

| TLA+ | Code |
|---|---|
| `Prepare`, `Mint`, `Guard` | `prepare_inner`, `get_secret_with_cookies`, `EndOnDrop` and `install_sigint` |
| `CheckCan`, `Resolve`, `Arm`, `PostHop`, `Took` | `can_impersonate`, `resolve_user`, `Hop::arm`, the POST, the re-read |
| `Work`, `Create`, `Install`, `Copy`, `Rename` | `dispatch(inner)`; `stream_to_file` when that is a download |
| `End`, `EndRequest`, `Confirm`, `Unlocked` | `Hop::end` with its mutex held throughout |
| `lock`, `ended`, `revert_to`, `end_result` | `HopState` and what `end` returned |
| `handler`, `Interrupt`, `Unlink`, `HandlerExits`, `Kill` | the disposition of SIGINT, its thread, `exit(130)`, SIGKILL |

A panic takes the way of an early return: both drop the guard.

### `SchemaCache`

`plan_shards` as a loop, `fetch_round` as workers that claim numbers from a shared
counter and fill slots, `fetch_shards` as the rounds around it. A shard's halves
have twice its number and that plus one, which keeps the order the code gets from
a vector. The instance may apply the range terms or drop them (`Answers`), list
the plan in an order of its own (`Plans`), hold pseudo-tables that are in
`sys_dictionary` only, and be altered between any two requests (`Alter`). The
offline side (`Lineage`, `AllColumns`, `Extending`) is what `sn cache columns` and
completion compute from the file: the loop of `lineage` is a recursive function
over the numbers (`Up` is one turn of it), which is compared with a definition by
paths. Its specification is called `BuildSpec`, so that the proofs of this module
and of `SideCaches` can share one.

### `SideCaches`

Two small caches that many processes fill: the result of a `token_command` in
`credentials.toml` and the prefix map of `sn get <number>`. Both are fetched
without the lock and stored under it. A token carries the run that made it and the
command it was made with; `command` counts the rewrites of the profile. `owner` is
the instance's `sys_number`, which an administrator may change (`Renumber`).
`CachedTable`, `Lookup`, `Store`, `Locate`, `Recheck` and `Retry` are
`resolve_prefix` to `recheck_prefix` and the second attempt around them.

### `Command` and `Sn`

`Command` is what one run of any other command is made of: arguments that are
refused before anything is sent (`Rejects`), a confirmation (`Declines`),
`Connect`, requests that fail in every way `parse_response` tells apart
(`Failure`), lookups over an instance that may drop the term (`Answers`,
`ResolveRef`), writes that are carried out although their answer is lost
(`Written`), and a result that stdout takes, or not (`Emit`). `know` is what the
command has read so far, and `Others` is one change by somebody else, at any point
between two requests. The modules that extend it add their commands' requests in
the order the handlers send them and say what `inst` holds for them:

| Module | Commands | What the instance may do to them |
|---|---|---|
| `FlowDebug` | `flow runs`, `debug`, `steps`, `logs`, `why-not`, `tail` | a flow edited between reads, rows that are hidden, conditions with change operators and terms it drops |
| `Flow` | `flow list`, `get`, `versions` | errors under 200, an unknown flow's empty history, a query of several alternatives |
| `Decision` | `decision list`, `show`, `run` | an evaluator that passes over what it does not understand; definitions that read as null |
| `Doctor` | `doctor` | getters that lie, a schema without a namespace, a dropped name term |
| `GraphQl` | `graphql`, `journal`, `playbook ...` | errors in band, beside data or as typed data; columns a table lacks; counts before ACLs |
| `ReadBack` | `context ...`, `variables ...` | writes that are acknowledged and not done |
| `Jobs` | `cicd ...` | a job that goes on by itself, fails, or does not end; a status of another type |
| `ClassicUi` | `script run`, `xml export`, `xml import` | pages that say 200 whatever happened, scopes that fall back, query terms that are dropped |

`Sn` composes them: `main` runs one command, of whichever module. Its properties
are those that every command shares. Two loops over a sequence are recursive
functions with one turn as an operator of its own: `Follow` (`Along`) is the walk of
`check_columns` along a dotted path, and `SplitCondition` (`Take`, `Bind`, `Closed`)
is `split_condition`, with the segments it has closed and the clauses of the one it
has open.

The header of each module says what a command line and an instance look like to its
commands. `Shaped` collects that, and `CommandLines` assumes it of the constants
`Commands` and `Instances`; TLC evaluates it on the run `sn`.

## Runs

Each run asks one question; a violation run shows a disagreement between the
code and what a comment or a document says of it.

| Run | Shows | Instance |
|---|---|---|
| `config` | Two invocations of *any* profile command, killed or failing anywhere: locked sections see the disk, each rename touches one profile, adds are all or nothing, a refusing add never clobbers, only a rollback leaves half a profile or a dangling default | 2 processes, 2 names, a good, a refused and an OAuth input, every policy |
| `refresh` | Single flight; nobody presents a token a sibling spent and the disk's refresh token is live (`RotationIsSafe`); a waiter that is not overtaken out-waits its holder; nobody hangs | 2 processes with different timeouts, 2 clients (one headless), 3 IdP answers, all commands |
| `refresh_readd` | A waiting command writes the old client's tokens under the new client | 2 processes, one reconfiguration |
| `watch` | No unmarked loss and one marker per outage (`LossIsMarked`), order across seams, limits count events, subscriptions say goodbye, it stops when asked and gives up (`WatchEnds`) | 4 events (one filtered, one without write identity), 2 drops, limit 3, 2 attempts |
| `amb` | The long poll stays armed, events are whole and in order, a verdict comes after the events beside it and is not answered with another connect, a reaped session is noticed and an event arrives or the session ends (`EventArrives`) | 3 events, every framing |
| `amb_quiet` | A frame that shares the subscribe reply and a connect reply leaves no connect outstanding | 1 event |
| `keyset` | Order without repeats and completeness (`AllButTheSlid`), truthful tokens, termination with a canary that accuses only the guilty (`WalkEnds`) | 4 rows, pages of 2, 2 changes, 1 failure, caps 0 and 3 |
| `impersonate` | Uninterrupted, the command acts as the target only; a guarded session is ended on every exit and success means it is not the target's any more; no partial or staging file stays; Ctrl-C ends the process | a download alone, and every kind of wrapped command line; 2 requests; hop, revert and logout may be ignored |
| `impersonate_interrupt` | After Ctrl-C a request of the wrapped command runs as the original user | the same, nothing ignored |
| `schema` | No round loses a shard; a published index has every column that was there throughout and none that never was, and lineage is what the parents say | 4 names (one pseudo-table), 2 columns, 2 workers, shards of 3 rows, 1 split round, 1 alteration, parents with a chain and a cycle |
| `sidecaches` | Stores lose nothing of one another, a removed profile stays removed, a stale prefix line never hides a record | 2 processes, 2 prefixes (one built in), 2 tables, 2 token runs, 1 renumbering, 2 rewrites |
| `sn` | Every command of the eight modules: exit codes tell what happened, resolved names are the ones asked for, `why-not` is exact, nothing given to an evaluator is ignored, read-backs hold, scripts and exports do what was asked, checks are true, every command ends | one change by others per command, 2 decisions in the window, a deadline after one poll or two, the command lines and instances of `MCSn` |

Some properties name several promises that stand or fall together:
`BrokenOnlyByRollback` is `TornOnlyByRollback` and `DanglesOnlyByRollback`;
`RotationIsSafe` is `NoSiblingSpentIt` and `DiskTokenIsLive`; `WatchEnds` is
`StopsWhenAsked` and `GivesUp`; `AllButTheSlid` includes `Ascending`, `WalkEnds`
includes `CanaryIsRight`, `LossIsMarked` includes `OneMarkerPerOutage`,
`EventArrives` includes `ReapedIsNoticed`, `IndexIsComplete` includes
`ColumnsAreInherited`; `ExitCodeTells` is `UsageMeansUntouched` and
`ZeroMeansDelivered`, `OkMeansDone` is `JobVerdict` and `QueriesAreAnswered`, and
`NoStrangers` includes `FlowsAreAsAsked`. Every part can be checked by itself by
naming it in a configuration; so can `TypeOK`, which each module with a state of
its own has and which is proved for all of them (`BuildTypeOK` for `SchemaCache`). The
commands of `Sn` need no more of their types than where each may be and what
`Shaped` says, which is `Proper` below.

### Why the bounds are enough

- `ConfigStore`: every race in it is between two critical sections and one
  unlocked read, so two processes suffice to show one; the theorems below
  cover any number. Two names tell "my slot" from "another's"; three inputs
  are one the instance accepts, one it refuses and one that mints tokens.
- `TokenRefresh`: three answers allow an initial token, a successor and a
  successor of that. Two ticks for one process and one for the other make timeouts
  that race in both orders. When the IdP has no answers left it stops
  answering, which is also one of its legal behaviours. A waiter can be overtaken
  by a third process only; `WaiterOutlastsHolder` is stated of those that are not.
- `Watch`: two drops allow one session to die while its replacement is set up
  and another afterwards; two attempts are one retry and the last one; four
  drain polls and two quiet polls exercise both ends of the drain. The constants
  of the code (10 attempts, 50 polls, 3 quiet) only repeat these steps.
- `Amb`: three events make frames with events before and after a reply.
- `Keyset`: four rows are two full pages, or a full page, a hidden one and a
  short one; two changes are what sliding a row and restoring it takes. `MaxOut`
  is twice the number of rows: it only keeps a broken variant finite, and a
  correct walk does not reach it.
- `Impersonate`: a process has these two threads; two requests are one before and
  one after the revert; a process takes one SIGINT (a second one finds the handler
  at work and changes nothing).
- `SchemaCache`: two workers race for one counter; four names with up to two
  columns each make shards of one and of several tables under `SHARD_ROWS = 3`; one
  round of halving produces a half that times out again and must fail. Four rounds
  and four workers repeat this.
- `SideCaches`: two processes are a fetcher and the one who stores, removes or
  rewrites meanwhile; two prefixes tell a store from another's; one renumbering is
  one answer going stale.
- `Sn`: one command sees one change by others, at every point. A second change
  restores what the first did or is like one before the command. Sets of two or
  three rows make "none", "one", "several" and "the wrong one" of every lookup;
  conditions go up to four terms, with an `OR` binding to either side, an
  alternative, and a change operator in each place.

Deadlock is not checked where the system stops by design: invocations end, a
watch exits, a session closes, a walk finishes, a command is done.

### Fairness and what it rests on

- `ConfigStore`, `SchemaCache` and `SideCaches` state safety only.
- `TokenRefresh`: an invocation that can take a step of its own takes it
  eventually and time passes. Nothing is assumed of the IdP or of the user a
  login waits for. `NobodyHangs` rests on the request timeout and the lock budget.
- `Watch`: the supervisor keeps moving. Its polls, sleeps, requests and Bayeux
  exchanges all have timeouts; the TLS and websocket handshakes have none of
  their own, and that they end is an assumption (and a finding). Nothing is
  assumed of the instance.
- `Amb`: the instance serves requests, answers held connects and delivers while a
  connect is out; the client reads. Without the first three there is nothing a
  client could notice.
- `Keyset`: pages are answered or fail. Other users' writes need not happen.
- `Impersonate`: both threads are scheduled and each request is answered or times
  out (`--timeout` has a default). `End` is strongly fair because the mutex may be
  taken and released before a thread that waits for it runs; the other thread takes
  it once at most. Nothing is assumed of signals.
- `Sn`: the command takes its steps: requests time out and polls sleep for two
  seconds. Nothing is assumed of jobs, so a `--wait` without `--wait-timeout` on a
  job that does not end is the one exception `CommandEnds` makes (`WaitsForever`).

### Assumptions

- `Watch`: the second copies of a seam's events are read before `SEAM_TTL` and
  before the next rotation (`Settled`); the end of a session is seen, so
  half-open sockets are left out; when `--idle-timeout` fires is a choice.
- `Keyset`: `--setlimit` is positive. Completeness is stated for instances that
  send the count header; without it the code itself says that a wholly hidden page
  ends the walk. `--array` and the stripping of `sys_id` do not affect the order or
  the set of records and are left out.
- `ConfigStore`: a crash happens between steps; a rename is atomic.
- `SchemaCache`: the answer to one request is a snapshot of the instance, and a
  dropped range term is dropped on both sides.
- `Sn`: properties that compare an answer with the instance are stated for the
  runs in which nobody changed it meanwhile (`still`); nothing a client does could
  promise more. On a table of a single row a dropped term cannot be told from one
  that matched (`NoStrangers`). `why-not` promises exactness of a record trigger
  and of a record the caller can read; what it prints as a note (kinds of
  operation, who runs it) is no blocker and left out.
- `Sn`, of any command line and any instance (`CommandLines`): they have the fields their
  handlers read, clap has given `out` and `verb` their values, tables, roles and records
  are finite, numbers belong to records, sequences are sequences, a dotted path has a
  column (`split` returns at least one piece) and `why-not` names its flow (the argument
  is required). Two facts are about the world: no instance has a single role, or a
  dropped name term could not be told from a role that is there (an instance ships with
  hundreds); and no property has the value "null" or "unset", the two words the model
  uses for what a getter that lies answers.
- Playbooks with `--output raw` print what came and do not look at it
  (a finding), so `QueriesAreAnswered` leaves them out. Of every other command it is
  about, it speaks of exit code 0, which is `ok` and `BrokenPipe` (`ExitsZero`), and
  excepts errors beside the data of a `graphql` query whose reader has gone.
- `flow list`: `alternatives` is the caller's query as parsed and `leads` says that its
  text begins with `NQ` (or with `OR`, behind a single flag; behind several an `OR`
  lists fewer flows than the model). `FlowsAreAsAsked` is of queries that do not.

## Proofs

Each module below EXTENDS the component it is about and rests on that
component's named assumptions on its constants only: any number of invocations,
profiles, events, rows or requests, any timeouts, any instance. Every invariant a
theorem needs was model-checked on the run's instance before it was proved. Every
invariant and every action property a passing run checks is a theorem here, the
refinement included; liveness is left to TLC.

| Module | Theorem | States |
|---|---|---|
| `ConfigStoreProofs` | `TypeCorrect` | `Spec => []TypeOK` |
| | `LockedSectionsSeeTheDisk` | `ImageIsDisk`: mutual exclusion, and what was loaded under the lock is on disk when it is written back |
| | `ImplementsProfileStore` | `SlotsAreIndependent`, which is `Store!Spec`: the two whole files implement a store of independent slots |
| | `AddsDoNotClobber` | `AddNeverClobbers` |
| | `OnlyRollbacksTear`, `OnlyRollbacksDangle`, `OnlyRollbacksBreak` | `TornOnlyByRollback`, `DanglesOnlyByRollback` and, from the two, `BrokenOnlyByRollback` |
| | `AddsAreAllOrNothing` | `AllOrNothing`: what an `init` or `profile add` leaves in both files when nobody else wrote there |
| `TokenRefreshProofs` | `SingleFlight` | `RefreshesOnce` |
| | `RotationSafety` | `RotationIsSafe`: `NoSiblingSpentIt` and `DiskTokenIsLive` |
| | `WaitersOutlast` | `WaiterOutlastsHolder`, for all timeouts |
| `ImpersonateProofs` | `CommandRunsAsTarget` | `ActsAsTargetUnlessInterrupted` |
| | `SessionsEnd` | `EndedOnEveryExit` |
| | `FilesAreWhole` | `NoPartialFiles` |
| `CacheProofs` | `NoRecordHidden` | `StaleCacheIsHarmless` |
| | `NothingLost`, `StaysRemoved` | the action properties `StoresLoseNothing` and `RemovedStaysRemoved` |
| | `BuildTypeCorrect`, `ShardsAreKept` | `BuildTypeOK`; `NoShardLost` for any number of workers, tables and rounds |
| | `IndexesAreComplete` | `IndexIsComplete`, lineage included, for any hierarchy, chains and cycles of any length |
| `WatchProofs` | `LossesAreMarked` | `LossIsMarked` |
| | `StreamInOrder` | `InOrder` |
| | `LimitIsExact`, `NoneStranded` | `LimitCountsEvents`, `NothingStranded` |
| `KeysetProofs` | `WalkIsComplete` | `AllButTheSlid`: order, no repeats, completeness |
| | `TokensAreTruthful` | `TokenIsLastWritten` |
| | `CanaryAccusesTheGuilty` | `CanaryIsRight`, the safety part of `WalkEnds` |
| `AmbProofs` | `OneConnectIsOut` | `ArmedOnce` |
| | `StreamHasNoHole` | `NoHole` |
| | `NothingLostToVerdicts` | the action property `VerdictComesLast` |
| `SnProofs` | `ExitCodes` | `ExitCodeTells` |
| | `OkIsDone` | `OkMeansDone`: `JobVerdict` and `QueriesAreAnswered`, for every outcome of exit code 0 |
| | `NothingStrange` | `NoStrangers`, `FlowsAreAsAsked` included |
| | `ReadBackIsTrue`, `DoctorIsTruthful` | `ResultHolds`, `ChecksAreTrue` |
| | `ScriptIsRunAsAsked`, `NoInputIsIgnored` | `ScriptRanAsAsked`, `NothingIgnored` |
| | `ExportsAreFiltered` | `ExportIsFiltered`, for paths of any length and any schema |
| | `WhyNotIsRight` | `WhyNotIsExact`, for conditions of any length |

All but `SnProofs` also state `TypeCorrect` or include the types in `InvAlways`,
`Spec => []Inv`, which is the inductive invariant of the module. None of the
properties is inductive as it stands. What was missing, module by module:

- **`ConfigStoreProofs`**: that the second rename writes the file it loaded needs to
  know which file went first, and that a process is in a two-file transaction at
  all. `ControlState` records what the program counter implies: the transaction is
  one of the six, a restore has a snapshot, an image is there between load and
  unlock, a refusing save loaded an empty slot, and what the first rename put is
  still in the slot when the second comes. `ProfilesSlot`, `DefaultSlot` and
  `CredsSlot` say that a transaction differs from what it loaded in one slot;
  with `ImageIsDisk` a rename is therefore a `PutConfig` or a `PutCreds` of the
  profile the invocation names (`RenamePutsOneSlot`), which is the refinement. The
  action properties follow because no other action changes the disk (`OnlyRenames`).
  For `AddsAreAllOrNothing`, `SlotsHold` says for each stage of an add (save, tokens,
  verify, restore) what its slots in the two files hold as long as `touched` is false;
  a step of another invocation either leaves them alone or sets it (`TouchedTells`).
- **`TokenRefreshProofs`**: a rotated token is safe because of where it is. `TokensInUse`
  says that the token on disk is good or somebody has the answer that spent it in
  hand under the lock; `LoginIsPrivate` that what a login got from the browser is
  known to no one until it saves it, which keeps two rotations apart; `AnswerInHand`
  and `KnownWereIssued` that tokens come from answers only. `Clocks` compares the
  time a waiter waited with the time the holder has held.
- **`ImpersonateProofs`**: `ThreadState` (what is in flight is what the thread's step
  sends), `Guarding` (guard and handler exist from the mint to the exit),
  `EndState` (the mutex is held from the decision to the verdict) and `TargetState`
  (a session that may be the target's has `revert_to` set before the hop is sent)
  hold whatever overtakes what; `FileState` is about the staging file.
- **`CacheProofs`**, of `SideCaches`: `Locking` says that what the holder loaded is what
  is on disk. `Answering` follows one lookup as long as the instance stands still
  (`steady`): a table the instance named is the owner, one that missed is not, and a
  re-check that was answered left no other table to try. Of `SchemaCache`: `Cutting` is
  the loop of `plan_shards`, `Tiling` that the shards of every round tile the plan
  (`HalvesMeet`), `Claims` that the last worker goes only when nothing is unclaimed and
  that who claimed a shard fills its slot. `Coverage` says that the rows of a shard have
  every lasting column of its range and none that never was; that tiles cover every name,
  in whatever order the plan lists them, is `RangesCover`: of the shards that begin below
  a name, the last holds it. A lineage is a chain without repeats (`UpKeepsChain`), so as
  many steps as there are tables are enough (`LineageIsClosed`, by the pigeonhole
  principle), and it reaches what a path of parents reaches (`LineageIsAncestors`).
- **`WatchProofs`**: `Copies` says that what a session still has to deliver is newer than
  everything printed, or a second copy that the seam knows; `Seam` says what the
  new session of a drain must have; `Losses` follows every event from its publication
  to stdout, to a marker after it, or to a state in which a marker must come first
  (`Owed`), including an old session that died in a drain while older events were
  still unread. `Arrival` orders each inbox, `Holes` and `Counts` relate gaps,
  markers and outages.
- **`KeysetProofs`**: `CursorIsLast` (the cursor is the last row fetched), `Sorted` (written,
  then buffered, then the cursor) and `NothingLeft`: no stable row is below the
  cursor and unfetched, none among the hidden rows an offset steps over, and none at
  all once the last page was seen. `Ranks`, `PageInOrder` and `Scans` are the
  arithmetic of an offset over a finite set of rows, which writes by others shift.
- **`AmbProofs`**: `Armed` counts the connects that are on their way, held, and answered but
  unread, together with the priming one; `Ordered` and `Whole` say that what was
  returned, what is on the wire and what the instance holds is one rising run
  without a hole, of which a reaped or broken session loses an end only; `Final`
  that nothing follows a verdict. `CountJoined`, `EventsJoined` and `Ranked` are about
  runs of messages and how a frame splits them.

- **`SnProofs`**: a step of one module must not be one of another module's command.
  `InPlace` says where each verb may be and `Apart` that only its own module moves it
  (`OwnSteps`); `Orderly` adds what the places imply of `wrote`, `printed` and `outcome`,
  which is all that exit codes need. Each module then says what its commands may alter
  of the instance (`Alters`), so that its shape stays (`Proper = Orderly /\ Shaped`). On
  that rest the parts that say what a command knows at each place: `GraphRead` (which
  columns the journal tried and which rows it has), `ContextRead` and `VariablesRead` (a
  read-back is the instance as long as `still`), `KnownSought` (every row a lookup kept was
  named, or alone in its table), `FlowsRead`, `InputsRead` (inputs are complete, and
  acceptable before the lookup of a number and understood after it), `ScriptRan`,
  `ExportChecked` and `WhyNotRead`.
  - `ExportsAreFiltered`: what was read of the schema is what there is (`Faithful`), so a
    path that nothing stops names a column (`UnstoppedNames`, from its end to its start).
  - `WhyNotIsRight` has to relate two readings of a condition: the segments of clauses the
    code tests, and what the engine makes of the positions of the terms (`Holds`).
    `Describes` is the loop invariant of `split_condition` between them: which terms are in
    the closed segments, which in the open one, and that its last clause is the last group
    (`Open`). `OpensNext`, `BindsTerm` and `TakesTerm` are the three things a term can do to
    it, and `SplitTells` is the result: some segment has a true term in every clause if and
    only if the condition holds. `WhyNotRead` carries the verdict on the clauses tested so
    far (`Tested`) and the blockers, place by place; it depends on no order of the terms.

Loops over data. A recursive function is defined by `CHOOSE`, so the prover knows nothing
of it before somebody shows that such a function exists, and the library's induction
theorems take an operator, which the provers cannot instantiate. The way around both is
to do induction over *sets*: the numbers are well ordered (`LeastNumber`, from
`WFMin`), so a set that has 0 and with each number the next has all of them
(`StepByStep`). `LoopRuns` and `Iterates` use it to show that a loop whose turns stay in a
set has a run, which makes the recursive function what its definition says
(`FollowIsALoop`, `SplitIsALoop`, `LineageIsClosed`); a loop invariant is then the set of
the turns at which it holds.

Trying to prove changed the models where they could not be reasoned about or said
too little:

- The `CASE` of `Plan` in `TokenRefresh` and the one of `UiConnect` in `ClassicUi` had arms
  that overlapped, which leaves the choice between them open.
- `None` had to be assumed different from every request, thread and session
  (`ImpersonateAssumption`, `SessionAssumption`), which the types of the program give, and
  what the modules of `Sn` say of their instances in comments is now assumed in one place.
- `Watch` delivered a whole poll in one step, with a filter over the sequence; it now has
  the loop of `deliver`, with everything that can happen between two of its turns. `Amb`
  speaks of the places at which a frame holds a kind of message.
- `know` grows by `Added` instead of an operator of `TLC`, which the prover does not read.
- Three folds and filters became the loops of the code: `lineage`, `check_columns` and
  `split_condition`. The last one pushed empty segments and filtered them afterwards; it
  now leaves them out as the code does, when the segment is closed.

All keep the states and the verdicts of their runs, except for `Watch`, which has more.

Only model-checked: liveness (`NobodyHangs`, `WatchEnds`, `EventArrives`, `WalkEnds`,
`CommandEnds`, `InterruptExits`), since fairness and ENABLED are beyond the prover. The
safety part of `WalkEnds` is proved (`CanaryAccusesTheGuilty`).

## What the models found

PROJECT.json quotes the lines. In short, with the run that shows it:

1. A command that waits for the lock refreshes from its own old snapshot when the
   file has no tokens, which undoes `--force` (`refresh_readd`), a removal and a
   logout.
2. `await_reply` drops what shares the frame of the reply it waits for, a connect
   reply included (`amb_quiet`), and does not look for a verdict in the reply to
   the priming connect.
3. Ctrl-C switches an impersonated session back before it logs it out, and a
   request of the wrapped command in between runs as the operator
   (`impersonate_interrupt`).

Statements the modules hold and TLC refutes when they are added to a configuration:

4. `NoUnverifiedSurvivor` (`ConfigStore.cfg`): the rollback of `save_and_verify` can
   reinstate another invocation's refused profile.
5. `RotationOpensNoGap` (`Watch.cfg`): events fall between a dying session and its
   replacement, unmarked.
6. `GivesUp` with `SlowConnect = TRUE` (`Watch.cfg`): slowly failing connects reset
   the retry counter.
7. `StableRowsAppear` (`Keyset.cfg`): a stable row is missed when a hidden row
   before it is deleted.
8. `CacheIsCurrent` (`SideCaches.cfg`): a token command that was under way when the
   profile was rewritten stores the old command's token.
9. `FailureIsTold` and `OutputSurvives` (`Sn.cfg`): a script that failed exits 0 when
   the reader of stdout has gone, and the output of a script that ran is lost when
   the lookup of its rollback context fails. `ErrorsAreTold` (`Sn.cfg`): a `graphql`
   query with errors beside its data exits 0 too when the reader has gone.
10. `CaughtMeansCaught` (`Sn.cfg`): `flow debug` says of a run in progress that it
    ended.
11. `FiltersHold` (`Sn.cfg`): a `--query` of `flow list` whose text begins with `NQ`
    passes the test for `^NQ`, and what it adds to the filter flags is a second
    alternative that they do not filter.

And by reading, while modelling: `save_profile` overwriting a profile lets a reader
combine the old configuration with the new credentials; the websocket upgrade has
no timeout; a minted session stays open when its first answer is refused;
`write_jsonl_line` takes a full disk for a closed pipe; `playbook --output raw`
exits 0 on typed failures.

Where a property had to be weakened to what the code delivers, the weaker form is
checked (`ArmedOnce`, `AllButTheSlid`, `TornOnlyByRollback`,
`ActsAsTargetUnlessInterrupted`, `RemovedStaysRemoved`, `ScriptRanAsAsked`,
`QueriesAreAnswered` in `OkMeansDone`, `FlowsAreAsAsked` in `NoStrangers`), so that the
remainder is known to hold.

## Not modelled

- The table and domain commands of one request, and the `get` nouns: their whole
  behaviour is arguments, one or two reads and a layout, and what could go wrong in
  them (a failed answer, a closed stdout, a confirmation) is in `Command`.
- JWT assertions: encoding and signing. Agent hooks: a display outside of the binary.
- Layout, wording, logging, completion scripts, the text of encoded queries.
- The child process of a token command, the loopback listener of an OAuth login:
  one step each.

## Plan

What would say most next:

1. `Link`, the abstract session that `Watch` uses, implemented by `Amb`.
2. The merge of single fields in a profile, as functions of one input and one entry.
3. The hazards that PROJECT.json lists without a property: a half-open socket, the
   expiry of a seam by the clock, a login that gives up on the lock before a refresher's
   request does.
