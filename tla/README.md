# Verification of the Wazuh AI correlation engine

TLA+ specifications of the engine in `src/`, the TLC configurations that check
them on small instances, and TLAPS proofs of the properties that matter most for
every instance.

* [The system](#the-system) and [its components](#components)
* [The modules](#modules): [incident store](#incidentstore),
  [rate limiting](#ratelimit-and-windowlimiter),
  [dead-letter queue](#deadletterqueue),
  [alert pipeline](#alertpipeline-intake-deduplication-normalization-correlation),
  [webhooks](#webhookdelivery-and-eventdelivery), [accounts](#accounts),
  [enrichment and scoring](#assessment-enrichment-scoring), [AI analysis](#analysis)
* [Runs](#runs), [bounds](#bounds-and-why-they-are-enough),
  [fairness](#fairness), [proofs](#proofs)
* [Where code and documentation disagree](#where-code-and-documentation-disagree)
* [What is not modelled](#what-is-not-modelled)

To check a module: `tlc -config IncidentStoreSerial.cfg MCIncidentStore.tla`.
To check its proofs: `tlapm IncidentStoreProofs.tla`.

## The system

A FastAPI process serves a REST API over one SQL database (SQLite or
PostgreSQL). Almost every handler is a plain `def`, so FastAPI runs it on a
thread of a pool: handlers of different requests interleave. Each opens a
SQLAlchemy session of its own (`core/database.py:54`), created with
`autoflush=False`. There is no row locking, no version column and no retry:
whatever isolation there is comes from the transactions of the database
(PostgreSQL's default, READ COMMITTED; with SQLite, writers are serialised but a
SELECT outside a write transaction holds nothing).

Beside the API there are a cron job that deletes old rows
(`scripts/cleanup.py`), a dashboard that calls the API, and command-line tools.
The pipeline stages (ingestion, deduplication, correlation, enrichment, scoring,
webhooks) are library classes. Of these the API calls ingestion of single alerts,
the false-positive feedback of correlation, AI analysis, the scoring baseline,
report rendering, and registration of webhooks. Only tests call the other entry
points (`deduplicate`, `correlate`, `score_incident`, `enrich_incident`,
`dispatch`). Where the models compose them, they do so in the order of the
architecture section of `src/README.md`, with one engine of each kind per process,
as `incidents.py:59` creates them.

Three things make the system hard:

* **Stale reads.** A handler reads rows, computes new values in Python and writes
  them in a later transaction. A flush writes only the columns that changed, by
  primary key. Overlapping handlers therefore merge column by column in ways
  nobody wrote down.
* **Several commits per request.** A merge is a commit of the change, then one of
  the feedback row, then one of the audit row; an alert is looked up among the
  fingerprints in one transaction and marked in another. Deletions, failures and
  crashes fall between.
* **Process-local state** (rate-limit windows, gauges, caches, the vector store)
  beside the database, lost at a restart and updated without locks.

## Components

| component | state it keeps | operations | talks to | what must hold |
|---|---|---|---|---|
| Incident store (`api/routes/incidents.py`, `core/models/orm_models.py`) | alerts, incidents, incident_alerts, analyst_feedback, audit_logs | PUT, DELETE, merge, split, feedback | correlation statistics, retention job | no dangling rows; no alert lost by merge or split; counts agree with links; closed incidents dated; the audit trail is true and complete |
| Retention job (`scripts/cleanup.py`) | none | delete old alerts, closed incidents, audit rows, webhook logs | the tables | what it deletes under running handlers leaves nothing dangling |
| False-positive statistics (`correlation/engine.py`) | correlation_rule_stats | `record_false_positive` | incident store | tallies never exceed what was marked |
| Rate limiting (`api/middleware/rate_limit.py`) | two windows per (role, address), in memory | `dispatch`, `allow` | every request | the bound on requests per window, whichever counter admits; the documented limit per role |
| Dead-letter queue (`ingestion/dlq.py`) | dead_letter_queue, `dlq_size` | add, retry, discard, retry-all | ingestion, admin API | settled records stay settled; counts and gauge |
| Ingestion (`ingestion/service.py`) | Kafka offsets | Kafka, HTTP, files, single alerts | normalisation, dead-letter queue | no message skipped; every payload becomes an alert, a dead letter or a duplicate |
| Normalisation (`normalization/`) | none | raw alert to normalised alert, fingerprint | ingestion | the fingerprint keeps apart what later stages need |
| Deduplication (`deduplication/engine.py`) | dedup_fingerprints | check, mark | pipeline | an alert is dropped only for one that goes on; duplicates are bounded |
| Correlation (`correlation/engine.py`, `vector_store.py`) | the vector store of its process | `correlate` | pipeline | groups reflect keys and similarity |
| Enrichment (`enrichment/engine.py`, `core/cache.py`) | TTL cache | lookup, merge of feed answers | external services | no verdict lost to a race or to the merge |
| Risk scoring (`scoring/`) | none (reads a baseline) | score, normalise, band, MITRE | enrichment | more evidence never scores less |
| AI analysis (`ai/`) | columns of the incident | analyse with fall-back, override | providers, incident store | an override is there unless another request changed the column, and its record is true |
| Webhooks (`webhooks/engine.py`) | webhooks, webhook_delivery_log | register, delete, dispatch with retries | external endpoints | attempts bounded, log and count true, every dispatch ends |
| Accounts (`api/middleware/auth.py`, account routes, `scripts/reset_password.py`) | users, password_reset_tokens | change, reset, code, create, update, delete | every request | names unique; passwords set by others are temporary; a code works once; an administrator remains |
| Reporting, dashboard, configuration, logging, metrics, e-mail, other scripts | none of their own | rendering, I/O | API | not modelled |

`PROJECT.json` lists the hazards of this code with their lines and the properties
that cover them.

## Modules

| module | models | role |
|---|---|---|
| `IncidentLedger` | incidents that hold alerts, and requests that act on them at once | abstract specification |
| `IncidentStore`, `MCIncidentStore` | handlers of incidents, retention job, false-positive tallies; implements `IncidentLedger` with one worker | specification, instance |
| `IncidentStoreProofs` | types; references, audit, dates and tally under overlap; counts, tallies, merges and the refinement for a single worker | TLAPS |
| `WindowLimiter` | one sliding window per client | abstract specification |
| `RateLimit`, `MCRateLimit` | the middleware's two counters; implements `WindowLimiter` | specification, instance |
| `RateLimitProofs` | bound and refinement | TLAPS |
| `DeadLetterQueue`, `MCDeadLetterQueue` | the queue and its gauge | specification, instance |
| `DeadLetterQueueProofs` | three theorems under overlap, two without (on `MCDeadLetterQueue`, which records overlap) | TLAPS |
| `Deduplication` | the table of fingerprints | part of `Intake` |
| `Intake` | calls of the ingestion service up to the hand-over | specification |
| `Normalization`, `Correlation` | pure functions on payloads and batches | used by `AlertPipeline` |
| `AlertPipeline`, `MCAlertPipeline` | the four together | composition, instance |
| `AlertPipelineProofs` | payloads, duplicates, offsets, groups by entity and by similarity | TLAPS |
| `EventDelivery` | at-most-N delivery with a final verdict | abstract specification |
| `WebhookDelivery`, `MCWebhookDelivery` | the webhook engine; implements `EventDelivery` | specification, instance |
| `WebhookDeliveryProofs` | log, count, refinement | TLAPS |
| `Accounts`, `MCAccounts` | users, reset codes and the requests on them | specification, instance |
| `AccountsProofs` | types, names, codes, temporary passwords, last administrator | TLAPS |
| `Enrichment` | tasks over the shared cache | part of `Assessment` |
| `Scoring` | score, normalisation, bands, techniques as functions | part of `Assessment` |
| `Assessment`, `MCAssessment` | enrichment, MITRE mapping and scoring of an incident | composition, instance |
| `AssessmentProofs` | monotone scoring, feeds, the race on the cache | TLAPS |
| `Analysis`, `MCAnalysis` | AI analysis, override and update of one incident | specification, instance |
| `AnalysisProofs` | the records of overrides | TLAPS |

Definitions marked "(variant ...)" are plausible mistakes, such as a dropped
guard; each stands in for the definition after it in one mutation experiment of
`PROJECT.json`, which shows that the property concerned would notice the mistake.
They are not part of any specification.

### IncidentStore

State: one variable per table and, for each request, the progress and contents of
its session.

| variable | code |
|---|---|
| `alerts`, `incidents`, `links`, `stats`, `feedback`, `audit` | the tables, keyed as in `orm_models.py`; an incident keeps `status`, `alert_count`, the union of its three scope columns (IPs, hosts, users) and whether `closed_at` is set |
| `pc`, `call` | how far the handler of a request is, and its parameters |
| `seen`, `rows`, `seenStats` | the ORM objects the session has loaded: incidents, link rows, statistics rows |
| `pending`, `counted` | lazy collections still to be loaded; `total_alerts` of a merge |

The body of a PUT is a raw dict, so `Statuses` has, beside those the code compares with,
"other" for any text. An incident created by a split is named by its request, standing for its fresh
uuid. A link row carries its history in place of its generated key, so that two
rows for the same alert and incident remain two rows.

| action | code |
|---|---|
| `Load`, `Reject` | the first SELECT and the 400/404 checks of each handler |
| `LoadLinks` | each first use of `incident.alerts` (a SELECT of its own) |
| `LoadStats` | the SELECTs of `record_false_positive`, one per rule, as one step |
| `CommitUpdate` | PUT, with `record_false_positive`, which commits the caller's session |
| `CommitDelete`, `CommitMerge`, `CommitSplit`, `CommitNote` | the flush and commit of the other handlers |
| `Abort` | a flush that fails: row gone, foreign key, unique rule name, or the database (`MayFail`) |
| `RecordFeedback` | the second commit of merge and split |
| `AuditFalsePositive`, `Audit` | `_log_audit` |
| `LoseAudit` | `_log_audit` when the insertion fails (`MayFail`): the error is swallowed, the row is lost, and what follows decides whether the request still answers with success (`AfterLostAudit`) |
| `Interrupt` | the error when an expired object is read again and its row is gone, or when the feedback row cannot be written |
| `RunCleanup` | one run of the retention job, on any rows that may be old |
| `Crash` | the server is killed; sessions in progress are lost |

`Flush` is the heart of the model: a column the handler set to the value it had
read is not written and keeps what the row holds by then. Sets stand for the JSON
lists of scope columns; whether Python happens to produce the same order again,
and so whether an equal list counts as changed, is not distinguished. The three
statistics columns `false_positive_count`, `total_incidents` and `weight` are
modelled (the rate is their quotient); weights are counted in tenths.

`IncidentLedger` states what a client that is alone may expect: a status, a scope and a
set of alerts per incident, a merge that gives the master what the others have, a split
that moves alerts to a new incident, each in one step or not at all, and a retention job
that removes old alerts and closed incidents. It promises no more of the scopes after a
split than that nothing is added, since the code empties them.
`ActsAtOnce` maps `status` and `scope` to the columns and `holds` to the alerts the link
rows name. Under it `CommitUpdate`, `CommitDelete`,
`CommitMerge` and `CommitSplit` are the steps, `RunCleanup` is a purge, and the loading,
the feedback and audit rows, failures and crashes are stutters. The purge may fall
between what a handler loads and its commit: then a foreign key, or the row that has
gone, stops the commit as a whole.

### RateLimit and WindowLimiter

`dispatch` is an `async` function that does not await between the two
`allow()` calls, so an arrival is one action. `sustained[c]` and `burst[c]` hold
the entries of the two counters of a client as positions in `arrivals`; time is
counted in ticks. Both counters read the clock in the same tick: in the code the
second reading is microseconds later. `Larger(c)` is the larger of role limit and
burst limit: which one it is depends on `RATE_LIMIT_BURST`.

`WindowLimiter` is one sliding window: a request is admitted exactly when fewer than
`Bound[c]` requests of its client were admitted in the last window. `RateLimit`
implements it with `Bound <- Larger`, which is surprising enough to deserve a
proof: requests are recorded in both counters independently, so one might expect
a client to get up to the sum of the two limits. It is what the code does and not what
the documentation says of it: there the limit is that of the role, which is
`RoleLimitEnforced`, and a run of its own shows it violated. Requests that `dispatch`
passes on unseen (`SKIP_PATHS`, `APP_ENV=testing`) touch no counter and are no arrivals.

### DeadLetterQueue

Every operation reads, commits, counts, and sets the gauge, in four steps;
`Fail` is a database error in the commit (rolled back) or in the count (the
commit stands); a `Crash` between any two restarts the gauge at zero. `committed`
is a history variable, and `overlapped` of the instance another. `add()` is
modelled with the record named by its operation (its uuid). `max_retries` is never
read by the code and does not appear; the status "reprocessed" of the column's
comment is never set. `list_records` and `get_record` change nothing.

### AlertPipeline: Intake, Deduplication, Normalization, Correlation

`Intake` follows calls of the ingestion service. Payloads are numbered in order of
arrival, so payload *i* is the Kafka message at offset *i - 1*; its *shape* is an
alert, a JSON object that does not normalise, JSON that is neither an object nor a list,
text that is not JSON, or bytes that are not UTF-8.

| action | code |
|---|---|
| `Arrive`, `Elapse` | a payload reaches the sources; time passes |
| `Begin` | a call of a source; a consumer starts at the committed offset, or at the end (`auto.offset.reset` "latest") |
| `Poll`, `AutoCommit`, `Close` | `poll()`, the client library's commits in the background, and `consumer.close()`, which commits |
| `Fetch` | one attempt of an HTTP source under `@retry` |
| `Read`, `Post` | files of a directory, one payload each, in the order of their names, which is taken to be that of their arrival; `POST /alerts/ingest` with a list of objects |
| `Process` | normalisation of a batch, bad payloads to the dead letters, whose writing may fail |
| `Check`, `Mark` | `is_duplicate`, which lets a database error out and ends the call, and `mark_as_seen`, which swallows it: two transactions |
| `HandOver`, `Store` | `correlate()` on what is left; the insertion of posted alerts |
| `Crash` | the process is killed, and its vector store with it |

`Deduplication` keeps the latest expiry of each fingerprint, which is all
`is_duplicate` looks at. `Normalization` translates the search of addresses, users,
hosts and event types through the fields of a payload, on words instead of texts.
`Correlation` computes the six keys and the groups of `correlate()`, with an
embedding abstracted to its similarities, and says when `correlate()` raises: when
`min()` compares a time with a zone to one without. `AlertPipeline` instantiates
both on the payloads of `Intake` and states what relates them.

The fingerprint is a hash of four texts joined with `|`, which a host or a user may hold
itself. `Pieces` gives the pieces between the separators of each text, and `Fingerprint` is
the concatenation of the pieces of the four: two alerts have one fingerprint exactly when
the joined texts are the same, wherever the fields ended. (The hash is taken for the text it
is of.) The host "a|b" of user "c" and the host "a" of user "b|c" have one fingerprint, and
the later of two such alerts is dropped. `NoGroupLost` therefore speaks of dropped alerts
that are `Plain`, without a separator: such a one can only be dropped for an alert with the
same four texts. In `pipeline` one alert holds a separator and none collides with it;
`EntityGroupsKept` covers every collision there can be.

### WebhookDelivery and EventDelivery

| action | code |
|---|---|
| `Register`, `Delete` | the two routes; the foreign key clears `webhook_id` in the log |
| `Dispatch` | the query of `dispatch()`, in a session closed before the first delivery |
| `Deliver`, `Post` | `_deliver` of the next webhook; one attempt, answered, lost before or after it arrived, or ended by a URL that httpx cannot parse |
| `Log` | `_log_delivery`, whose errors are swallowed |
| `Return` | the count of successes |
| `Crash` | nothing of a dispatch is kept outside the process |

`receipts` is what the receiver got, which the engine cannot see; `verdict` is what
the loop concluded. `EventDelivery` promises that a receiver gets a notification at
most `Max` times, that verdicts are final, and that only what arrived is called
accepted or refused. In the refinement `Post` arrives or stutters, `Log` concludes.

### Accounts

A request is authorised by `get_current_user` and `require_permission` on the row
of the user (`Begin`), reads and checks (`Read`), hashes a password, and commits
(`Commit`). The commit writes only columns that differ from what was read, except
the password, whose hash is salted. Operations: `change_password`,
`reset_password`, the script, the request (`forgot`) and use (`redeem`) of a reset
code, `admin_create_user`, `admin_update_user`, `admin_delete_user`; a code expires
in `Expire`. History variables record who chose a password, how many passwords a code
has set, and whether requests ever overlapped. Account ids and codes are never
reused.

### Assessment: Enrichment, Scoring

A task is one `enrich_incident()` followed by `map_incident()` and
`score_incident()`. `Look`, `Evict` and `Ask` are the three steps of a lookup
between which another thread may run: reading the entry, deleting it when it has
expired (a `KeyError` when it has gone), and asking and storing. `RaisedBy` is the
`@retry` of the two feeds behind a key. `Scoring` computes in 300ths of a point,
in which every weight and every fraction the raw score takes of one is whole, and
so are the hundredths of a baseline and the tenths that `round(score, 1)` keeps. A
product that is not whole is truncated to a 300th, which does not change the tenth it
rounds to; a tie is rounded up. `Normalized` raises and lowers by the baseline, and
`Severity` is the table of bands.

Assumption, stated in `Tick`: a lookup does not outlast a cache entry (3600 s
against request timeouts of seconds).

### Analysis

Requests on one incident: `Load` reads for an override or a PUT, `Analyze` for an
analysis, `Ask` is the provider's answer or, when it has none, that of the rules, which
answer always; `Commit` is the flush of the columns that differ from what was read,
`Record` the feedback row of an override, `Fail` a database error in either commit.
Three columns stand for all: one every analysis assigns (`root_cause`), one it assigns
when it has a technique, and one only analysts assign. `touched` is a history variable:
the columns others have changed since a request read the row.

## Runs

| run | configuration | distinct states | shows |
|---|---|---|---|
| `store_serial` | `IncidentStoreSerial` | 1 564 405 | one handler at a time, alerts, incidents and audit rows purged, failed transactions and crashes between its steps: counts and tallies are exact, every request acts at once (refinement of `IncidentLedger`) |
| `store_overlap` | `IncidentStoreOverlap` | 2 978 924 | two handlers at a time of three requests, alerts and incidents purged, failed transactions, crashes: rows name what is there, nothing dangles, no alert is orphaned, records are true, closed incidents are dated, tallies are not exceeded |
| `store_audit` | `IncidentStoreAudit` | 5 476 | liveness: with server and database up a committed change is audited in the end, but for a merge or split whose incident is deleted first |
| `rate_limit` | `RateLimit` | 533 247 | bound, refinement of one window with the larger limit |
| `rate_limit_role` | `RateLimitRole` | violation | the limit of a role is exceeded |
| `dlq` | `DeadLetterQueue` | 95 491 | two operations at a time of three, failures and crashes: settled stays settled, bounds of the count; exact count and gauge without overlap |
| `pipeline` | `AlertPipeline` | 966 212 | two calls of any sources, all shapes of payloads, a fingerprint of two types, failed checks and marks, crashes: no message is skipped, nothing vanishes, duplicates are bounded and covered, no asset, user or network group is lost, semantic groups are chains |
| `webhooks` | `WebhookDelivery` | 204 512 | two dispatches, lost answers, deletions, an unusable URL, crashes: log and count are true, every dispatch ends, refinement |
| `accounts` | `Accounts` | 398 670 | any three requests, two at a time, any role and address: unique names, codes, temporary passwords, last administrator |
| `accounts_reset` | `AccountsReset` | violation | an overlapping reset leaves a password that need not be changed |
| `assessment` | `Assessment` | 2 806 815 | two tasks over one expiring cache: feeds count, races cost no verdict, scoring is monotone |
| `analysis` | `Analysis` | 2 162 934 | three overlapping analyses, overrides and updates with failing providers and commits: feedback is explained, the rules keep a technique they have read |

Properties that hold only without overlap say so: `AlertCountIsLinkCount`,
`TallyIsExact` and `ActsAtOnce` are checked with a pool of one, `RetryCountExact`,
`SuccessRefreshesGauge`, `OthersPasswordsAreTemporary` and
`DeletionLeavesAnAdministrator` carry the condition (`~overlapped`, `~overlap`).
With overlap the code does lose updates, as the hazards say; what remains true then
is a property of its own (`TallyNeverExceedsMarks`, `RetryCountBounds`,
`CodesAreSpentOnce` with its bound of one per worker).

### Bounds and why they are enough

* Incident store: two seeded incidents and three alerts, so that an incident can
  be split in two and merged with another; three requests (two for liveness), so that
  a third can act on what an overlap of two
  left; a pool of one or two threads. The calls (`SerialCalls`, `OverlapCalls`)
  contain each operation, merges in both orders, a merge of an incident with
  itself, a split that names an alert of another incident, and operations on the
  incident a split creates. The conflicts of this code are between two handlers
  over one row; a third request reaches the states that follow. Two of
  the three alerts may be purged, so that a purge can take all, some or none of what a
  merge or a split has loaded. The database may fail any transaction (`MayFail`) in the
  two large runs; the liveness run assumes that it does not.
* Rate limiting: a client whose burst limit is the larger and one whose burst
  limit is cut below its role limit; a window of 3 ticks, 6 ticks (two windows)
  and 7 requests, against limits of 2 to 4: both counters fill, refuse and drain.
  `Exhausted` ends a run at these bounds.
* Dead-letter queue: two stored records and three operations, two at a time.
* Pipeline: three payloads. The first and the third have one fingerprint, different
  types and their addresses in different fields; the second may have any shape, and as an
  alert has a host with a separator. Batches of two, so that a batch can be full
  with a message left; two calls, so that one can follow a lost one or overlap it; a
  deduplication window of one tick and a clock of two readings, so that it can end; two
  attempts. The similarities (`MCSimilarity`) make chains: neighbours are within the
  threshold, the first and the third are not.
* Webhooks: two webhooks, one of both events and one with an unusable URL, two
  dispatches, three attempts (the default of `retry_max_attempts`).
* Accounts: one seeded administrator and one analyst, two ids to create, two names
  (so that names collide), two passwords, one code, three requests, two at a time:
  an account can be created, promoted and then act. The roles are the three that have
  permissions and one that stands for any other text.
* Assessment: one address and three configured feeds (the fourth is
  unconfigured), entries that live two ticks and a clock that reaches their end,
  three incidents whose scores lie below, about and above the deviations of the
  baseline and of which each pair is ordered.
* Analysis: two texts, three requests, overrides of one, two and all columns, a key
  configured, every provider name.

Requests, calls, tasks, stored records and ids yet to be created are
interchangeable; most safety runs use that symmetry, the runs with liveness do not.
`MaxTime`, `MaxArrivals`, `Length` and the ids of accounts and codes bound what
would grow; each is a named constant or a comment at its guard. The theorems
remove the bounds for the properties they prove.

### Fairness

`FairSpec` of `IncidentStore` assumes weak fairness of each handler: a thread that
holds a request keeps running, which is what a thread pool and a database without
held locks provide. Nothing is assumed about requests being picked up, about the
retention job or about crashes, and the liveness run has no crash: after one, no
code writes the missing audit row. `Spec` of `WebhookDelivery` assumes weak fairness
of each dispatch: it runs in a thread, every POST has a timeout
(`webhooks/engine.py`), and the sleep between attempts ends. Nothing is assumed about
the receivers, registration or crashes. No other property needs fairness.

## Proofs

| module | theorem | for every |
|---|---|---|
| `IncidentStoreProofs` | `TypeCorrect`, `RowsAlwaysResolve`, `AlertsNeverOrphaned`, `RecordsAlwaysTrue`, `ClosedAlwaysDated`, `TallyBounded` | set of alerts, incidents, requests and calls, any status a client may send, pool size, retention, failures, crashes |
| | `TallyExact`, `CountIsExact`, `HandlersActAtOnce` (refinement), `MergesAbsorb` | the same with a pool of one |
| `RateLimitProofs` | `TypeCorrect`, `WindowBounded`, `OneWindow` (refinement) | set of clients, limits, multipliers, window length |
| `DeadLetterQueueProofs` | `TypeCorrect`, `RetryCountBounded`, `SettledStays`, `RetriesCounted`, `GaugeRefreshed` | set of records and operations, overlap, failures, crashes |
| `WebhookDeliveryProofs` | `TypeCorrect`, `LogTrue`, `CountTrue`, `Refines` (refinement) | set of webhooks, events and dispatches, number of attempts, unusable URLs, crashes |
| `AlertPipelineProofs` | `NothingLost`, `DropsCovered`, `OffsetsAreSafe`, `FewDuplicates`, `EntityGroupsKept`, `SemanticGroupsChain` | texts and shapes of payloads, length of the topic, set of sources and calls, batch size, attempts, window, similarities, threshold, enabled rules, overlap, crashes |
| `AccountsProofs` | `TypeCorrect`, `CodesSpentOnce`, `NamesAreUnique`, `PasswordsAreTemporary`, `AnAdministratorRemains` | set of accounts, names, passwords, codes and requests, pool size |
| `AssessmentProofs` | `ScoreMono`, `FeedsCount`, `ScoringMonotone`, `RaceHarmless` | evidence, baseline, set of tasks, addresses, incidents, configuration |
| `AnalysisProofs` | `FeedbackTrue`, `TechniqueKept` | set of requests, texts and overrides, configured providers |

Assumptions: `StoreAssumption` (seeds and requests are finite and distinct, calls have their
shape, at least one thread), `EventIdAssumption` (an alert's primary key, generated on
insert, is never an `event_id`), `RateAssumption` (limits are natural numbers),
`QueueAssumption` (records and operations are finite and distinct),
`DeduplicationAssumption`, `IntakeAssumption` (the window, the batch and the attempts are
positive, every payload has shapes and a fingerprint), `PipelineAssumption` (the fingerprint
by which deduplication goes is the one the normalised alert computes; a text is at least one
piece and its pieces determine it; the enabled rules are rules of the engine; similarity is
symmetric, being the scalar product of two embeddings), `WebhookAssumption` (finitely many
webhooks, at least one attempt), `AccountsAssumption` (the seeded accounts are distinct and
so are their names), `EnrichmentAssumption` and `AssessmentAssumption` (the constants have
their types), `AnalysisAssumption` and `OverrideAssumption` (NULL is no text, overrides
assign modelled columns). TLC evaluates them in the runs. Four theorems about the store have
the hypothesis `Workers = 1`, as `store_serial` does: the statements are false for handlers
that overlap.

**Incident store.** `TypeOK` says that rows have the keys they name, whatever clients
send, of statuses too; alone it is not inductive. `TypeInv` adds that tables
are finite (so that `alert_count` gets a number from `Cardinality`), that a
session which is past its first SELECT has loaded the incidents its call names,
and that statistics rows are never deleted, so that a row a session has read is
still there when it writes it. `RowsResolve` needs nothing about other requests:
each commit re-establishes it because the guards of the flush, the foreign keys,
are evaluated against the tables at that moment. `NoAlertOrphaned` is a property
of steps; the case that needs work is a split, which deletes rows it loaded some
time ago but inserts in the same transaction a row for each alert it takes away.
`RecordsAreTrue` needs that a request only moves forward.
`ClosedIncidentsAreDated` needs that what a session has read was true when it read
it, and that `closed_at` is never cleared: a flush that writes a closing status
also writes a date, unless the date was there when it read the row.
`TallyNeverExceedsMarks` becomes inductive with `SeenBacked`: every copy of a
statistics row, in the table or in a session, is at most the marks that were durable
when it was read, marks stay durable, and the increment comes with one more.

With a pool of one, `SerialInv` says that at most one handler runs (`Alone`) and that what
it has read is what the tables hold (`Current`), as far as the incidents it names are
still there: the retention job is no handler and may delete them under it, after which
its commit fails. From this `TallyExact` and `MergesAbsorb` follow by the step of the
commit. `CountIsExact` comes from `CountInv`, in which `Covers` compares a
number with a number of rows: equal while no alert has been purged, at least ever after.
It needs three more parts. A merge adds the numbers of rows it finds one
incident after the other, so the rows must not be counted twice: what it has still to
go through are different incidents and not the master (`OnceEach`), and the rows it
holds and the running total are those of the incidents it has been through
(`Counted`). And moving a row must not make it equal to another one, or a set of rows would
count fewer than the table: `Keyed` says that the last entry of a row's path is the
request that wrote it and determines where the row is, so that an alert and a path
identify a row. A merge adds columns, so a column too high before is too high after. A
split counts the rows it moves, which may include rows that were purged after it
loaded them; but its insertions name the purged alerts, the foreign key fails, and
nothing of it is committed.

`HandlersActAtOnce` shows that the initial states map to initial states and each step to
a step of `IncidentLedger` or a stutter (`LedgerStep`). The commits are atomic in the
database; what has to be shown is that each is the step of the ledger on the incidents
and alerts as they are *now*, although it was computed from rows loaded in several
transactions before. `SerialInv` gives that for what is still there, and the foreign
keys for the rest. A split must also move something (`SomethingMoves`): the code answers
400 when the alerts named are not among those it has loaded. `MergesAbsorb` is one of
its consequences, proved on its own: a merge leaves the master with every alert and every
attribute of the others.

**Rate limiting.** The invariant `Nested` says that the entries the smaller
counter still holds are among those of the larger, that the larger holds at most
its limit, and that it holds at most the difference of the limits more than the
smaller. From the last part, when the smaller counter has room the larger has room
too (`OfferBoth`), so the smaller never decides; `Covers` says that the larger
counter's live entries are the admitted requests of the window. Ageing preserves
both because it removes the same positions from both (`ForgetBoth`).

**Dead-letter queue.** What an operation has read may be stale when it writes it.
`Faithful` says how stale: since then the row can only have been retried more often
and have left "pending". So a write of `old.retries + 1` exceeds the retries so far
by at most the one it performs, and a status that is not written, because it equals
the one that was read, is not "pending" now either. As long as no two operations were
in progress at once (`~overlapped`), `Alone` says that at most one is, that what it has
read or counted is still so, and that the counts are exact. Crashes and failures after
the commit are included: the retry they cut short has been counted.

**Alert pipeline.** `Intact` follows each payload a call has taken: it is still among
the call's items, or dead-lettered, or let through, or dropped (`Held`); what is
dropped has an alert with its fingerprint whose mark was written in the window before
(`Represented`); and the row of a fingerprint expires one window after the latest of
its marks and not before any (`Marks`), so that a look-up that finds it proves that
there is such an alert. Between a check and the hand-over the clock runs and other
calls mark, which only adds marks. For the committed offset, `Offsets` says that the
position of each consumer that is still polling, and whatever is committed, has
behind it only messages that some consumer was given or that are older than all that
a surviving consumer was given; there is one consumer at a time, and a new one starts
at the committed offset or, with nothing committed, behind everything. `Crowd` bounds duplicates:
for each window that has not ended, once it has let an alert through, those it has
let through and those whose calls are between check and mark are at most the workers,
because a check after that finds the row; and a window without an alert has at most
the calls in progress waiting to mark. That is a bound on the alerts whose mark was written;
all that pass are these and those whose own mark failed, each of which lets one more
through, and `FewDuplicates` counts both (`Passed`). `EntityGroupsKept` follows from
`Represented`: two joined texts of which one has three separators only are equal only field by field
(`FourPieces`, `SameFields`), so what was dropped and what it was dropped for agree in
host, user and source address, which are the keys. It does not speak of the other
rules: the time, the type of an event and its embedding are not in the fingerprint, and
an alert with a new one is dropped all the same.

`SemanticGroupsChain` is about the keys that the semantic rule gives to the alerts an
engine was given, each looked up among those before it. A lemma first shows that this
recursive definition has a function that satisfies it, by taking the least position at
which it would not. Every key is then that of a founder at or before its alert, and each
member of a group other than the founder was within the threshold of an earlier member.
Take a part of a group that is neither empty nor all of it. If it lacks the founder, its
first member is near an earlier member, which is outside the part; if it has the
founder, the same holds of the rest, and similarity is symmetric.

**Webhooks.** For each dispatch, `Untouched` says that nothing has happened to a
webhook it has still to do, `Current` that the receiver of the delivery in progress
has the event at most as often as attempts were made, and `Tally` that the count is
the number of webhooks that accepted so far and that those without a verdict are
still to do or in progress. `RowsOK` says that a row of the log is about a delivery
that has its verdict, after which nothing is received, so that the row stays true.
Each step of a dispatch disturbs only its own pairs. The refinement follows from the
same invariant: `Post` increments a count that is below `MaxAttempts` and whose
verdict is open, `Log` gives the one verdict.

**Accounts.** `OneAccountPerName` rests on the unique column, which is evaluated when
the row is inserted, and on renaming being impossible. The other two speak of
requests that never overlapped; `Alone` says that then the request in progress is
the only one, that it has read the row it is about to change as it still is, and
that a delete is by an administrator other than its target, who is therefore still
there afterwards. A password set by another is written together with the flag, and
a flag that is not written was already set when it was read. `TypeCorrect` says of
requests that overlap too that a handler past its checks has seen the row it is going
to write, and of codes that they belong to a row that is there (`Tables`, `Stage`).
For `CodesSpentOnce`, `SpentInTime` adds to the uses of a used code the requests that have
checked it and not yet committed: no request joins them, and they were at most as many
as the workers, or one without overlap.

**Assessment.** `ScoreMono` is arithmetic without a bound on the evidence: each capped
term is monotone (`RawMono`), and so is the normalisation (`NormalizedMono`), whose
three branches are joined at two and at minus one and a half deviations: a raised
score is at least what it was (`RaisedMono`), a lowered one at most (`LoweredMono`),
and rounding and bands keep the order (`RoundedMono`, `SeverityMono`). The inductive
invariant `Scored` ties the result of a task to its incident and to what its feeds
said, which do not change once it is done; `ScoringMonotone` follows by `ScoreMono`.
`FeedsCount` is the case analysis of the merge: VirusTotal's word replaces
AbuseIPDB's, and the flag keeps the latter. `RaceHarmless` needs the clock: a repeated
lookup can find only an entry that was stored after the lookup began (`Recent`), which
is too young to be evicted (`Timely`), so a feed that is tried twice loses the race at
most once.

**Analysis.** `Knows` says that what a request has read agrees with the row in every
column that no other request has changed since, and that after its commit the row
holds what it assigned there; `Explained` says the same of a feedback row for ever.
`RulesAgree` says that an answer of the rules names the technique they were given, so
that the flush finds nothing to write: `TechniqueKept`, whatever was committed meanwhile.

Two properties are only model-checked: `CommittedIsAudited` and `EveryDispatchEnds` are
liveness under fairness, which TLAPS does not prove. Every other property of a passing
run is a theorem. The properties that fail (`ResetForcesChange`, `RoleLimitEnforced`) have
counterexamples.

## Where code and documentation disagree

As violation runs:

1. **Reset by an administrator** (`auth.py:134`). The handler answers "User will be
   required to change on next login." When the user's own change of password
   commits between its read and its commit, the flag, already set when it was read,
   is not written: the user keeps the administrator's password and need not change
   it (`accounts_reset`).
2. **Limit of a role** (`rate_limit.py:115`; `docs/wazuh-integration.md:345`, "Per-role
   rate limiting enforced (... analyst: 100/min ...)"). A request passes when only the burst
   counter has room, so the lower limit never binds: an analyst can send 150 requests in
   every minute (`rate_limit_role`; `OneWindow` proves that it is the larger limit that
   counts).

Noted while modelling, and visible in the models without a run of their own:

* Below the comment "Recalculate source_ips, hosts, users" (`incidents.py:649`), a split
  selects alerts by `event_id` from a list of primary keys. None is found, and both
  incidents end with empty scopes (`CommitSplit`).
* `_log_audit` commits its row after the change and swallows what that raises
  (`incidents.py:1095`): a deletion answers with success and is not in the trail, of which
  README line 17 says "All actions recorded in audit trail" (`LoseAudit`).
* A merge whose master is deleted between its commits ends with a 500 and no audit
  row (`incidents.py:601`). `CommittedIsAudited` excepts exactly this and the same of a
  split.
* A file that is not JSON, or holds neither an object nor a list, is only logged
  (`service.py:66`, `84`), where `docs/wazuh-integration.md:346` says "Invalid records go
  to the dead-letter queue". `NothingVanishes` excepts such files by name.
* An analysis waits for its provider and assigns its conclusion without looking again
  (`incidents.py:422`): an override of the root cause that was committed meanwhile is
  replaced. Of the technique it is only when a remote provider answers, or when there was
  none before (`RulesKeepTechnique`).
* A record discarded while retry-all runs is marked retried (`dlq.py:137`, README
  line 306); a database error in a retry is answered with "DLQ record not found".
* A merged-away incident is accepted as the master of another merge.
* Two administrators who delete each other at the same moment both go; the last one
  can always be demoted or deactivated.
* Webhook retries wait linearly longer, not "with exponential backoff" (README line
  14); a URL that httpx cannot parse raises `httpx.InvalidURL`, which is no
  `HTTPError`, and ends the dispatch for the webhooks after it; only the last
  attempt is logged.
* Messages polled before one that is not UTF-8, or before a crash, are committed and
  lost; a dead letter whose row cannot be written is lost.
* PUT takes any text for a status and the account routes any text for a role; an account
  with a role of no name may do nothing.
* Alerts whose host or user holds the separator `|` may share a fingerprint
  (`schema.py:28`), and the later one is dropped.
* A look-up of a fingerprint that raises ends the call after it has marked earlier alerts
  of the batch, whose redeliveries are then dropped until the window ends.
* An override equal to the value it read is not written and does not win over an
  overlapping change; its feedback row is missing when the second commit fails.
  An analysis writes `mitre_technique_id` without the names that go with it.
* GeoIP and ASN lose an answer when two tasks evict the same entry. The merged
  reputation may read "clean" where AbuseIPDB said "malicious". A VirusTotal answer
  whose `asn` is a number fails validation, is retried, and is lost.
* With floats a score of 60.99999999999999 is "medium" and stored as 61.0; the model
  computes exactly. The technique of an incident with several event types depends on
  the order of a set.
* The vector store of a process is never emptied: `remove_expired` has no caller.

## What is not modelled

* The columns of a PUT other than status and severity, which are assigned the same
  way; titles, dates and descriptions: no modelled decision depends on them.
* Database errors other than those the model's own state explains, except where
  they decide what is left behind: in the dead-letter queue, in deduplication marks,
  dead letters, look-ups and the delivery log, in the commits of the incident store and in
  the two commits of an override.
* Code without a caller: `buffer_alert` and `flush_buffer` (the former would drop the
  batch of a full buffer), `_cleanup_stale`, `record_incident_generated`,
  `remove_expired`, `summarize`, `map_rule_id`.
* Response headers of the rate limiter; login, which changes nothing; the analysis
  of a single alert, which writes only its audit row; webhook logs in the retention
  job; hit counters of the cache; tokens, hashes and signatures.
* The baseline's query: `get_historical_baseline` is an input of scoring, with any
  number, mean and deviation (`func.stddev`, which SQLite does not have, fails there).
* The addresses of accounts: whether one is taken is any answer (`EmailTaken`), since
  nothing else depends on them.
* Which webhooks an event selects: `events.contains` on a JSON column is a text match;
  the model takes the subscription as it was meant.
* Texts: formatting, embeddings, prompts, explanations of a score.
* Reporting (templates rendered to files), the dashboard (a Streamlit page whose
  state is that of its widgets), configuration, logging, metrics other than the
  queue's gauge, e-mail, migrations, and the sample-data generator: conversions and
  I/O without state that a property of this system could be about.
