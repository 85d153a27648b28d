# Verification of the Jarvis assistant

Jarvis is a Telegram assistant for one owner and a family: a `python-telegram-bot`
application that answers through the OpenAI Responses API with local tools
(reminders, memory, documents, location, read-only SSH diagnostics, a crypto-bot
runtime). This directory holds TLA+ modules translated from that code, TLC
configurations that check them on small instances, and proofs for every instance.

1. [Inventory](#1-inventory-of-the-system)
2. [Modules](#2-modules-and-their-correspondence-with-the-code)
3. [Runs](#3-runs-bounds-and-what-they-show)
4. [Fairness](#4-fairness)
5. [Proofs](#5-proofs)
6. [Disagreements found](#6-disagreements-between-the-code-and-what-it-says)
7. [Abstractions and limits](#7-abstractions-and-limits)
8. [Plan](#8-plan)

To check: `tlc -config MCReminders_leases.cfg MCReminders.tla` (likewise the
others), and `tlapm` on the modules `*Proof.tla`.

## 1. Inventory of the system

### Concurrency, in one paragraph

One process runs one asyncio loop. `Application` is built without
`concurrent_updates` and no handler has `block=False`, so updates are handled one
after the other; `handle_text`'s per-user lock is never contended. What does run
concurrently: the reminder scheduler task; the hourly document clean-up, in a
thread; and worker threads (`asyncio.to_thread`) whose request was given up by
`asyncio.wait_for` at its deadline: the coroutine is cancelled, the thread goes on
and commits. Some of these threads run event loops of their own: the crypto tools call
`asyncio.run` for each remote query, on SSH objects they share with the bot's loop.
During a restart two processes may share the SQLite files. All
databases are SQLite, one short transaction per storage call.

### Components

| Component (code) | State | Operations | Hard behaviour | Correct means |
| --- | --- | --- | --- | --- |
| Reminders (`app/reminders`) | table `reminders` (status, is_active, next run, attempts, lease); per process the claimed batch | create, cancel, pause, resume, move; tick: claim, guard, send, record; retry with backoff; recurrence; overdue expiry | two schedulers, leases, crash between send and record, lost answers, batches with one snapshot time, check-then-insert from abandoned threads | a due reminder is served; completed means sent; failed means retried; no second scheduler inside a lease; limit and deduplication hold up to the race |
| Agent loop (`app/ai/agent.py`, `app/tools`, `app/ai/tool_adapter.py`) | per request: rounds, seen calls, executed capabilities, search count, `guard_retried` | gates, first request, reply handling, tool calls, retries, fallback messages | any reply at any time, retries that chain, deadline in the middle | an answer rests on the tools routing required; no call twice; bounded requests; every request ends |
| LLM provider (`app/ai/openai_provider.py`) | the model in use | one request, model fall-back, error translation | time-outs, partial failure | as above: it is the agent's environment |
| Routing (`app/routing`) | a ring of audit events | classify a text | none: pure | its decisions are the agent's inputs |
| Conversation (`app/conversation`) | state per (user, chat), messages, pending question | record user/assistant/tool, context, reset | expiry and restarts against pending questions | a text answers only a question that is still open |
| Access (`app/access.py`) | users, invites, sliding-window limits | invite, redeem, revoke, enable, disable, remove, bootstrap of owners | an invite used once; rows that are never deleted; a changed allow-list | nobody active who was not let in; who was put out stays out |
| Telegram handlers (`app/handlers.py`) | processed updates, user locks, pending locations | commands, texts, documents, locations | deadline against late answers, redelivered updates, a bounded set of processed ones | a text is worked on once |
| Memory (`app/memory`) | records, projects, events | remember, recall, update, forget, autosave, summarise, bootstrap | look-up and insert in two transactions, keys made of contents, a partial index | one live row per remembered text; what is forgotten stays so |
| Documents (`app/documents`) | rows, chunks, files | ingest, select, forget, clean up | files and rows fail separately; clean-up in a thread and from the command line | every file has its row, every ready row its file; what expires is forgotten |
| Location (`app/location`) | saved and pending place | propose, confirm, clear | a confirmation by nonce, then a save that may fail | what is saved was confirmed |
| SSH service (`app/ssh_agent/{service,limits,metrics,transport}`) | permits, token buckets, metrics, child processes | admit, run, time out, cancel, composite plans | permits through cancellation, TERM/KILL, several event loops | limits hold, no permit or process leaks, every request counted once |
| SSH policy, plans, parsers, tools; deployment kit | immutable configuration | validation, rendering | none: pure | only allow-listed commands |
| Crypto control (`app/crypto_control`) | result cache | fetch through SSH, parse, advise | a cache dated before the await, event loops per call | no answer older than the cache time |
| Rollout (`scripts/production_rollout.py`, `install_service.sh`, `config/jarvis.service`) | unit and its backups, settings, owners of databases, systemd's state | prepare, validate, install, start, rollback, migrate | root commands that create what the service must write; repeated installs; interrupts | a rollback undoes the install; nothing of the operator's is lost; a startable service runs |
| Skills, health, legacy tools, other scripts | none of their own | reports | none | see PROJECT.json |

### Interactions

A text passes `handle_text`: reminder commands go straight to `ReminderService` in a
worker thread, everything else to `JarvisAgent.ask`, which reads the conversation,
location and memory, asks the provider, and runs tools through `ToolManager`
(reminders, memory, documents, crypto) or `SSHServiceTool`. The scheduler meets the
user only in the `reminders` table, and the access component only in the guard of
`ReminderDelivery.send`. The crypto tools use the SSH transport, and for the git
status the SSH service, from event loops of their own. A document's caption becomes a
question to the agent; a text that begins like a document command goes to the
documents, in a thread. The hourly clean-up and two command lines (memory, documents)
work on the same databases as the bot. The rollout scripts run as root on files the
service, as user `jarvis`, must be able to write.

### Hazards

`PROJECT.json` lists them, each at its line, with the properties that would catch it
going wrong, or the reason why none does.

## 2. Modules and their correspondence with the code

### ReminderLifecycle

What the reminder subsystem promises, with three variables: the `phase` of each
reminder (none, live, over), who has `undertaken` its delivery, and to whose user the
message was `told`. Nothing that is over becomes live or is undertaken again; nobody
is told without an undertaking made while the reminder was live.

### Reminders

The subsystem itself. `rows` is the table; a row's `active`, `status`, `next`,
`sched`, `attempts`, `owner`, `until` are the columns of those names
(`is_active`, `next_run_at_utc`, `scheduled_at_utc`, `lease_owner`, `lease_until`).
`batch[p]` is the list the `tick()` of process *p* walks through: for each claimed
reminder what `_process` takes from its snapshot, and how far its delivery is.
`thread[t]` is what a worker thread holds between two transactions. `sent`,
`failures` and `overtaken` are history.

| Action | Code |
| --- | --- |
| `CreateCount`, `CreateDedup`, `CreateInsert` | `ReminderService.create`: three transactions (`active_count`, `_find_dedup`, `storage.create`) |
| `Resolve`, `Commit` | `parse_and_handle` and `cancel`, `pause`, `resume`, `update_time`: a look-up, then an unconditional `update_owned` |
| `Claim` | `claim_due`: BEGIN IMMEDIATE, select by status, time and lease, mark running |
| `ExpireOverdue`, `Block`, `Send`, `Arrive`, `Fail`, `Confirm` | `_process` and `ReminderDelivery.send`: the overdue check, the access guard, the await, its two ends and the write-backs |
| `Abort` | a write-back that raises: `tick()` logs it and goes on |
| `Crash` | the process stops or dies, threads included |
| `SetAccess` | the owner disables or enables a family user |
| `Tick` | time |

A crash loses `batch` and `thread` and nothing else: that is what is not in SQLite.

### AgentLoop

`JarvisAgent.ask`, one request after the other. `req` is a request as routed: who
asks, which gates it would meet, and the capabilities the routing requires
(`Routed` is what `classify` guarantees). `ask` is the request to the provider, with
its tools and `tool_choice`; `rounds`, `seen`, `executed`, `hosted`, `retried` are the
locals of those names (`seen_calls`, `executed_capabilities`,
`web_search_call_count`, `guard_retried`); `model` is the provider's field. `ran`,
`succeeded`, `asks` are history.

| Action | Code |
| --- | --- |
| `Refuse`, `Start` | the gates of `ask`, in order (`Closed`), and the first request |
| `CallTools`, `StopSearching`, `StopCalling`, `StopUnsourced`, `RetrySearch`, `StopUnsearched`, `RetryRefusal`, `StopEmpty`, `RetryRequired`, `StopRequired`, `Answer` | the ways the `while True` loop treats a response; exactly one applies to each |
| `FallBack`, `Reattempt`, `FailRequest` | `OpenAIProvider._create`, `_create_response`, the `except` clauses |
| `StopRepeating`, `RejectCall`, `RunCall`, `ToolReturns`, `AskAgain` | the loop over the calls, `_execute_call`, the request with the outputs |
| `Deadline` | `asyncio.wait_for` in `handle_text` |
| `NextRequest` | the next update |

Tools are represented by one of each kind that `_capability_for_tool` and
`tool_capability` tell apart. A reply is any combination of calls, hosted searches
with or without citations, and text that is empty, a refusal (in the guard's sense)
or plain, within what the request offered; the model is not trusted to obey
`tool_choice`, as `ask` does not trust it either.

### SshSlots

What the concurrency limits of the SSH service promise: which checks are running,
never more than the limits for all, for a user and on a server.

### SshService

`SSHService._request` on several event loops: `Bot`, and `Threads`, the loops of
`CryptoControlService.git_status` in worker threads, each of which lives for one
request. `phase[l]` is how far loop *l* is; `job[l]` holds the locals of its request
(`left` checks of a composite, `result` of the present one, `good` if one has
succeeded, `spoiled` once a check was given up, `cancelled`); `proc[l]` is the process
of the check; `taken` is `_global`, `_users`, `_servers`; `lock` is the limiter's
`asyncio.Lock`: who holds it, who waits with what signal, the loop it is bound to, and
who is `late`: has found it taken and is not in its queue yet. `outcome` and `clean` are
history.

| Action | Code |
| --- | --- |
| `Begin`, `Refuse`, `List`, `Dispatch` | `SSHMetrics.start`; `_preflight` and the policy; `_dispatch` |
| `Acquire`, `FindTaken`, `Wait`, `WrongLoop`, `Resume` | `async with self._lock` of `permit`, on entry and in its `finally`; `asyncio.Lock` seen from several loops: `acquire` looks first and queues later, and a release in between wakes nobody |
| `Busy`, `Admit` | the critical section on entry: a limit reached, or three counters up |
| `NotStarted`, `Spawn`, `Exit`, `GiveUp`, `Kill`, `Reap`, `Drain` | `transport.execute`: start, time-out, `_stop_process` (SIGTERM, grace, SIGKILL), `wait`, the pipes; `_result` makes the `Verdicts` |
| `Release` | the critical section in the `finally`; then the next check of a composite, or `SSHMetrics.finish` (`Settle`, `Finish`) |
| `CancelStart`, `CancelCheck`, `CancelWait` | the deadline of the bot's request, at each kind of await |

A loop waits only at an await, so each action runs from one await to the next. Two
loops are two threads, and those are switched anywhere; what they share is the lock,
the counters and the metrics. A setting says where a switch falls that no await invites.
`setting.contended`: among the few calls on the lock and under it; if not, no loop ever
meets the lock taken. `setting.torn`: in the one call of `SSHMetrics.finish`, between
its reading and its writing `active_requests` (metrics.py:22); what another loop has
written meanwhile is then lost (`Written`). The augmented assignments of the metrics
contain no call and are not interrupted in the CPython versions the project supports, so
the totals lose nothing.

### Memory

The tables `memories` and `projects` under calls that overlap. `rows` is the first, by
id; a row's `owner`, `scope`, `content`, `source` are its columns, `key` is
`memory_key` (a hash of the content, or a name), `live` is `is_active`, `expires` is
`expires_at`, `bucket` the bucket a summary is of, `used` whether it was ever recalled.
`threads[t]` is what a call holds between its transactions; `touched` is history: the
rows others have changed while a call is under way.

| Action | Code |
| --- | --- |
| `Start`, `Answer` | `asyncio.to_thread` around a tool, an extraction or a recall |
| `Look`, `Store` | `MemoryManager.remember`: `find_duplicate`, then `MemoryStorage.create` (`upsert_memory`: `ON CONFLICT` on the partial unique index) |
| `Count`, `Check`, `Summarize` | `maybe_summarize`: `list_active` without an owner, the look for the bucket's summary, `upsert_memory` |
| `Extract`, `Fields`, `Event` | `extract_and_remember`, `remember_family`, `upsert_project`, `record_event` |
| `List`, `Mark` | `recall`, `build_family_user_context`, and `mark_used` afterwards |
| `Update`, `Forget`, `EditProject` | the tools of those names |
| `Bootstrap` | `python -m app.memory.cli bootstrap`, a process of its own |
| `Restart`, `Tick` | the process ends; time |

### Access

Users, invites and places. `users`, `invites`, `places` are the tables `users`,
`family_invites`, `user_locations`; `offers` is `pending_locations` of the process,
`given` all nonces shown. `configured`, `letin`, `barred`, `decided` are history.

| Action | Code |
| --- | --- |
| `Boot`, `Crash` | `build_application` and `AccessStorage.initialize` with the allow-list of that start; the end of the process |
| `InviteFamily`, `Redeem`, `RevokeInvites` | `invite_family_command`, `start` with a token and `redeem`, `revoke_family_invite_command` |
| `SetStatus` | disable, enable and remove commands, `set_family_status` |
| `SendLocation`, `Press`, `ClearLocation` | `handle_location`, `location_callback`, `clear_location_command` |

### Dialogue

What a dialogue promises: `open`, the question put to each user last, while it stands,
and the questions `answered`. Only that one can be answered, once; no question that was
replaced, dropped or answered comes back.

### Chat

Texts and dialogues: `handle_text`, the caption of `handle_document`, the table
`conversation_states`, `processed_updates` and the sliding window. `dialogue[u]` keeps
of a state its status, pending question and end; questions are numbered as they are
asked. `handler` is the text in work, `past` is history: whom a question was put to and
what became of it, when the bot last dealt with a user, which texts were taken.

| Action | Code |
| --- | --- |
| `Boot`, `Crash`, `Tick`, `ChangeAccess` | the process, time, the owner's commands |
| `ResetContext` | `/reset_context`, `ConversationStorage.clear` |
| `TakeNew`, `TakeAgain`, `TakeCaption` | a text for the first time or once more, `authorize`, `processed_updates`, `RateLimiter._allow`; a caption, for which neither is asked |
| `Elsewhere` | a text that never reaches the dialogue |
| `RecordUser` | `ConversationManager.record_user` over `get_state` and `classify` |
| `RecordAssistant`, `Fail` | `record_assistant` with or without a question; a request that ends without it |

What `AgentLoop` leaves out of a request - what it leaves behind in the dialogue - is
here: `RecordUser` comes before its `Start`, `RecordAssistant` after its `Answer`, or
at once where `ask` puts a question of its own (which place?), `Fail` after the others.

### DocumentLifecycle

What becomes of the documents, by the message they came with: `status` (none, kept, due,
gone) and `doomed`, which ones somebody is about to forget. A message gives one document
at most; it goes because somebody asked for it or because a sweep came upon it after its
time, and what is gone stays gone.

### Documents

`docs` is the table `document_sessions` with its chunks, `files` the storage directory,
`handler` the document that `handle_document` takes in, `workers` who forgets documents:
threads of the bot, its clean-up task ("loop"), the command line ("cli"). `left` and
`torn` are history: documents whose file, or whose forgetting, a fault has hit.

| Action | Code |
| --- | --- |
| `SendDocument`, `DeliverAgain` | `handle_document` up to the look by message id |
| `Download`, `Refuse`, `Move`, `Reject`, `Break`, `Insert` | the download and `DocumentService.ingest`: checks, the move to the target, extraction, the row with its chunks; what each kind of exception cleans up |
| `AskToForget` | a text (`active`, the newest) or a tool (any document of the chat) |
| `HourlyCleanup`, `CliCleanup` | `cleanup` in the bot's task and of the command line |
| `Unlink`, `UnlinkRefused`, `Commit`, `Abort` | `DocumentStorage.forget`: the file, then chunks and row in one transaction; its failures |
| `Crash`, `Boot`, `Tick` | the process and time |

### Rollout

The operator's commands as root, systemd, and the service as user `jarvis`. `tool` is
the command under way, a sequence of steps that an interrupt, or a failure of systemctl
where `check=True`, ends. `installed`, `backups` are unit files; `env` the settings;
`owner` and `dir` who owns each database and directory; `service` is systemd's view of
the unit, `proc` the process. `undo` and `service.wanted` are history. `env.fit` says
whether all else is there that a start needs of what the settings name: SSH keys and
servers the agent accepts, document libraries, the crypto project (startup.py), a free
port for the health server, a token Telegram takes. The operator changes it, and two
steps of the installers may: new modes of the files (`Modes`) and of the keys (`Keys`).

| Action | Code |
| --- | --- |
| `Begin`, `Interrupt`, `Edit`, `Checkout` | the operator |
| `Directories`, `Settings`, `Modes`, `Owners`, `Keys` | `prepare`, and in its own order (`AfterStep`) the first half of `install_service.sh`, which has no `Directories` |
| `Validate` | `validate`, which opens (creates, migrates) the databases the settings turn on |
| `Backup`, `Copy`, `Reload`, `Enable` | `install` |
| `CopyUnsaved`, `ReloadAndEnd` | the second half of `install_service.sh` |
| `Start`, `Probe`; `Stop`, `Disable`, `Restore` | `start`; `rollback` |
| `Migrate`, `HandOver` | `family_access_migration.py --apply`: the database as root, then its owner; or the refusal |
| `Boot` | `StateDirectory=`, and `main` up to the health server: settings, logs, `startup_self_check`; a setting that does not fit fails here or in `BuildFails` |
| `Build`, `BuildFails`, `Crash` | `build_application`, `run_polling`, `Restart=on-failure` |

### MC modules

Instances for TLC: kinds of requests, calls, and the constants that are not numbers.

### Proof modules

`RemindersProof`, `AgentLoopProof`, `SshServiceProof`, `MemoryProof`, `AccessProof`,
`ChatProof`, `DocumentsProof`, `RolloutProof`: the theorems of section 5.

## 3. Runs, bounds and what they show

| Run | Checks | Instance | States, time |
| --- | --- | --- | --- |
| `leases` | `TypeOK`, `ClaimIntact`, `ClaimsRunOut`, `CompletedWasSent`, `FailedWasRetried`, `NoPrematureTakeover`, `LifecycleKept` | 2 schedulers, 1 thread, 1 row, both kinds of reminder, clock 0..3, lease 1, 2 attempts | 2.1 million, 2 minutes |
| `serve` | `DueIsServed` | 1 scheduler, 2 rows in one batch (one of a kind that is always blocked), access coming and going, a crash | 300 thousand, 1 minute |
| `intake` | `LimitOvershootBounded`, `DuplicatesBounded`, `OneRowPerMessage` | 2 threads, 4 rows, the same words in a message of known and of unknown id; symmetry over rows | 480 thousand, 40 seconds |
| `rounds` | `EvidenceBeforeAnswer`, `EachCallOnce`, `AsksBounded`, `Terminates` | 16 requests (one per gate and per kind of evidence), 4 calls, lists of up to 2, 2 rounds | 62 thousand, 20 seconds |
| `permits` | `PermitsMatch`, `ProcessesReaped`, `SuccessMeansRan`, `MetricsTrue`, `Answered`, `SlotsKept` | 3 loops, 3 requests (single, composite of 2, list) of 2 users on 2 servers, 4 settings | 361 thousand, 2 minutes |
| `memory` | `NoDuplicateRemember`, `RememberedOrTaken`, `Durable`, `SummaryOnce`, `UneditedIsKept` | 2 threads, 1 user and the system, 2 texts, 1 bootstrap fact, 3 calls, 5 rows; symmetry over threads and texts | 900 thousand, 1 minute |
| `access` | `AccessEarned`, `LocationConfirmed` | 3 users, 2 allow-lists, 2 places, 2 invites, 2 offers, 2 starts | 380 thousand, 20 seconds |
| `dialogue` | `TypeOK`, `AnswersOpenQuestion`, `TextTakenOnce`, `DialogueKept` | 2 users (symmetric), 4 sorts of text, 3 texts, 2 processed updates kept, a limit of 2, 2 starts | 1.2 million, 30 seconds |
| `documents` | `TypeOK`, `FilesAccounted`, `OncePerMessage`, `ExpiredAreForgotten` | 2 chats, a tool thread, clean-up task and command line, 2 documents, 1 live at a time, 1 fault | 200 thousand, 20 seconds |
| `rollout` | `RollbackUndoes`, `NothingLost`, `StaysStartable`, `RetriedUntilItRuns` | 3 databases, 3 unit versions, 3 commands, 2 edits, 1 fault | 943 thousand, 2 minutes |
| `stranded`, `overwritten` | `PermitsReturned`, `DedupIsExact`: violated | as small as shows it | section 6 |

Why the bounds are enough. *leases*: the hazards are between two schedulers on one
row, and between a scheduler and one command; with a lease of 1, a grace of 2 and a
clock up to 3 a lease is taken over while its holder still sends, and the holder then
writes back; two attempts are the least that tell "retry" from "give up". Faults are
confined to instant 0 (`FaultsUntil`), where with `MinLead = 0` reminders are already
created, claimed, sent and recorded, so a crash strikes at each of these steps and the
rest of the behaviour shows the recovery. *serve*: two rows are a batch with an order.
*intake*: the overshoot is proportional to the threads; 2 threads and a limit of 2 with
4 rows leave room for one more row than the bound allows. *rounds*: the limits of
rounds (4 in production) and searches (4) are 2, enough for a round after a round and
for reaching each limit in one reply or in several; all reasons for a retry can arise
in any order. *permits*: in three of the settings one limit each is 1 and the others
do not bite, in one of these `finish` may be torn, in the fourth the lock may be met
taken; the two are not combined, since nothing reads the metrics; three loops are the least for a
holder, a waiter and a third that meets both, and with two requests of threads beside a
composite of the bot every limit is reached while a permit is being given back.
*memory*: every race is between two calls; three calls let a third be a change of the
row the other two are about, and with a threshold of 1 and one fact a summary is due at
once and a second one after another fact text. *access*: two starts with different
allow-lists, and two invites, so that a used and a valid one meet; the third user is
one who comes by invite only. *dialogue*: three texts are a question, something in
between and an answer, of two users or of one; the processed set of 2 overflows at the
third. *documents*: two documents are one at the limit and its successor; one fault
hits each statement and system call, at every point of every other activity.
*rollout*: two installs and a rollback are three commands; three versions tell the last
unit from the one before and from the new one; both seconds of the clock matter, since
stamps may collide; the settings turn on either the one database that every
configuration has or all of them, one in each place (`Selections`).

The properties say, in short:

- `ClaimIntact`: a claim nobody has overtaken is exactly what its row says, however
  late `tick()` reaches it. `NoPrematureTakeover`: nobody takes a row from under an
  intact claim before its lease has run out. `ClaimsRunOut`: a row that says "running" is
  active, due and leased for no longer than a lease from now, whatever the user does to
  it meanwhile and whoever dies.
- `CompletedWasSent`, `FailedWasRetried`: outcomes are true of what happened outside.
- `LifecycleKept`: Reminders implements ReminderLifecycle under the mapping `Phase`,
  `Undertaken`, `sent`.
- `DueIsServed`: no reminder stays due, a crash with the row claimed included.
- `LimitOvershootBounded`, `DuplicatesBounded`, `OneRowPerMessage`: how far the
  check-then-insert of `create` may be passed, and where the unique index holds.
- `EvidenceBeforeAnswer`: an answer rests on the tools and the search that routing
  asked for. `EachCallOnce`, `AsksBounded`, `Terminates`: no call twice, one request to
  the provider per round and one retry more, and an end to each request.
- `PermitsMatch`: the counters are never below the permits held, and exact unless the
  lock was met taken. `SlotsKept`: so the processes themselves stay within the limits
  (SshService implements SshSlots). `ProcessesReaped`: none outlives its check.
- `SuccessMeansRan`: a success rests on an exit with status 0 before the check was
  given up. `MetricsTrue`: a request fails at most once and not while it lasts, and it
  counts as active exactly while it lasts, unless a thread is switched inside `finish`.
- `Answered`: every request ends, or waits at the limiter's lock where threads contend
  for it.
- `NoDuplicateRemember`, `RememberedOrTaken`: what two threads remember is one row, and
  the row `remember` returns is the caller's unless somebody changed it meanwhile.
  `Durable`: a forgotten row is never written again, a project's events never lost.
  `SummaryOnce`: how far the three transactions of a summary may be passed.
  `UneditedIsKept`: a text under its own hash is lost to no call unless it was edited.
- `AccessEarned`: nobody is active whom no configuration and no invite has let in, and
  who was put out stays out. `LocationConfirmed`: a place is saved by the button of the
  last offer, once.
- `AnswersOpenQuestion`: a text is taken for the answer to a question only while that
  question is open and in time. `TextTakenOnce`: where `processed_updates` suffices.
  `DialogueKept`: Chat implements Dialogue, with `pending` as what stands.
- `FilesAccounted`: files, rows and chunks agree, but for what a fault left behind, and
  then exactly that. `OncePerMessage`: Documents implements DocumentLifecycle.
  `ExpiredAreForgotten`: as long as the clean-up task lives.
- `RollbackUndoes`, `NothingLost`: a rollback restores the unit that the last install
  replaced, and which commands may lose a unit. `StaysStartable`: what can take from the
  service what it needs to start: settings that pass its checks, a log and databases it
  can write. `RetriedUntilItRuns`: a service that was started and can run does, whatever
  made it exit before, settings that did not fit among it.

The type invariants are theorems (section 5). A run repeats one only where it carries a
limit of the code: the attempts of a reminder (`leases`), the requests let through in a
window (`dialogue`), the live documents (`documents`).

Deadlock checking is off in the reminder runs because their clock is bounded: at
`MaxTime`, with nothing due, nothing need happen; and in the SSH runs because the
number of requests is: after the last one the service is idle. In the other modules
users, operator and clock may do nothing more once their bounds are used up. The agent
run keeps it on.

Every property has a mutant in PROJECT.json: a definition changed as a plausible bug
would change it, kept beside the original in the module (`GivesUp_OneShort`,
`Repeated_Never`, ...), under which the run reports the property violated.

## 4. Fairness

`Reminders!FairSpec`: weak fairness of `Tick` (time passes) and of each process's
`SchedulerStep` (the task is `while True: tick(); sleep`, and `send_message` ends by an
answer or by the client's time-out). No fairness for users, the owner, faults or
threads: nobody promises those. `DueIsServed` needs no more, since faults are finite
and a dead process's lease runs out.

`AgentLoop!FairSpec`: weak fairness of `Progress`: the provider's client has a
time-out, so every request to it ends in a reply or an error, and tools return. No
fairness for `NextRequest` or `Deadline`: `Terminates` does not lean on the deadline.

`SshService!FairSpec`: weak fairness of each loop's `Progress`. It covers the
scheduling of loops and threads, the transport's timers (time-out, grace period) and
SIGKILL, which a process cannot refuse. `Exit` is not fair: a process need not end by
itself nor upon SIGTERM. Neither are `Begin` and `Cancel`. `Answered` excepts who waits
at the lock where it is contended. A release that comes before the waiter is in the queue
wakes nobody, and one from another thread completes a future without waking the waiter's
loop, which a thread's loop may sleep through (`lost`). Nor does the deadline end every
wait: a question asked with a document has none (handlers.py:745), so it gets no
fairness. Without contention nobody waits, and every request ends.

`Documents!FairSpec`: weak fairness of `Boot` (systemd restarts the bot), of
`HourlyCleanup` (the task is `while True: sleep; cleanup`) and of its thread's steps.
None for requests, the command line or faults. A task that has died is no part of it:
`ExpiredAreForgotten` says so.

`Rollout!FairSpec`: weak fairness of `ServiceStep`: `Restart=on-failure` restarts the
process and the process goes on. None for the operator.

Memory, Access and Chat state no liveness: their code waits for users.

## 5. Proofs

`RemindersProof` proves, for all constants that satisfy the assumptions of Reminders:

- `TypeCorrect`: `Spec => []TypeOK`.
- `ClaimsStayIntact`: `Spec => []ClaimIntact`.
- `LeaseRespected`: `Spec => NoPrematureTakeover`.
- `CompletedMeansSent`, `FailedMeansRetried`: `[]CompletedWasSent`,
  `[]FailedWasRetried`.
- `NothingIsStranded`: `Spec => []ClaimsRunOut`.
- `InvariantHolds`: `Spec => []IInv`.
- `OvershootIsBounded`: `[]LimitOvershootBounded`; `MessagesMakeOneRow`:
  `[]OneRowPerMessage`; `DuplicatesAreBounded`: `[]DuplicatesBounded`, where no command
  is "update".

The inductive invariant is built in three layers, each carried through every action.
`Shape` is `TypeOK` and that batches and threads name rows that exist (rows are never
deleted). `Claims` adds that a batch names a row once, and `ClaimIntact`: `Claim`
establishes it, and every write of a row by anybody but the holder puts the holder
into `overtaken`. `Outcomes` adds the facts about the world: a job past its send was
sent, and an attempt count never exceeds the failures there were. The last is why
`FailedWasRetried` is not inductive alone: the count comes from a snapshot, so the
snapshot has to be bounded too.

`ClaimsRunOut` rests on `Shape` alone; the steps that could break it are the commands,
which rewrite status, time and lease of a claimed row independently of each other.

The intake rests on `IntakeSteps`: but for the count, the look-up and the insert of a
creation, a step only amends rows (`Amends`: never their request, their making or, but
for "update", their time, and never back to active). `LimitInv` counts who has passed the
limit and not yet inserted along with the active rows; an insert exchanges one for the
other. `DupInv` counts, with the copies of a reminder, the threads that have looked in
vain for its key and may still insert inside its window: nobody joins them once it is
there. Both need that the threads are finitely many and at least one
(`ThreadAssumption`).

It also proves `LifecycleImplemented`: `Spec => LifecycleKept`. The
initial states map to an initial state; creation maps to `Create`, a claim to
`Undertake`, `Arrive` to `Tell`, the write-backs to `Settle`, cancellation to
`Withdraw`, a crash to `Lose`, and everything else stutters. The heart of it is that
no UPDATE sets `is_active` back to 1 (`WritesOnlyDeactivate`,
`CommandsOnlyDeactivate`).

`SshServiceProof` proves, for all numbers of loops, users, servers and requests and all
limits:

- `SshTypeCorrect`: `Spec => []TypeOK`; `PermitsAlwaysMatch`: `[]PermitsMatch`;
  `ProcessesAlwaysReaped`: `[]ProcessesReaped`; `SuccessAlwaysRan`: `[]SuccessMeansRan`;
  `MetricsAreTrue`: `[]MetricsTrue`.
- `PermitsLostOnlyAtLock`: `LostOnlyAtLock`: a permit is lost only by a loop that meets the
  lock taken on its way out.
- `RequestsAreUsedUp`: `RequestsUsedUp`: each step lowers a triple of naturals of its
  request, two of them bounded, and raises that of no other.
- `PermitsReturnedUncontended`: `[](~ setting.contended => PermitsReturned)`. What the
  run `stranded` refutes holds wherever no loop meets the lock taken.
- `SshInvariantHolds`: `Spec => []IInv`.

`IInv` has four parts. `Typed` joins `TypeOK`, `PermitsMatch` and `WaiterWaits`, since
each needs the others: that `Release` keeps the counters natural numbers follows from
its own loop being counted, and that a loop may go away without giving its permit back
only where the lock is contended follows from who waits. The counting itself is in
`QuietCounts`, `DropCounts`, `AdmitCounts` and `ReleaseCounts`. `Reaped` adds where a
process can be at all; `SuccessGrounded` what is on its way to become a success, through
the `spoiled` and `cancelled` marks; `TakenWithin` that the counters respect the limits.

It also proves `SlotsImplemented`: `Spec => SlotsKept`. `Spawn` maps to
`Start`, the end of a process (`Exit`, `Kill`) to `Stop`, all else stutters. That a
start is within the limits is `RunningWithin`: live processes belong to different loops
that hold permits (`ChecksOfLoops`, an injection), the counters are not below those,
and the limits not below the counters.

`AgentLoopProof` proves, for all requests, calls, replies and limits, `AgentTypes`,
`CallsRunOnce`, `RequestsAreBounded`, `AnswersAreEvident`, `RequestsAreUsedUp`:
`[]TypeOK`, `[]EachCallOnce`, `[]AsksBounded`, `[]EvidenceBeforeAnswer`, and `UsedUp`:
each step of a request lowers a triple of naturals. The eleven ways `ask` treats a reply
are three kinds: going on to the calls, ending (`StopKinds`) and retrying
(`RetryKinds`: each of the three retries needs the permission `guard_retried` withholds).
The invariant adds to the types `Paced` (requests sent against rounds, retry and the one
under way), `Once` (what ran was seen), `Earned` (what is credited succeeded) and
`Grounded` (an answer was judged by both).

`AccessProof` proves `AccessTypes`, `AccessIsEarned` and `LocationIsConfirmed`. The
invariant: `RowsFounded`, every row has a configuration or an invite behind it;
`InvitesUsed`, only a used invite has let somebody in, and one user; `BarredKept`, who is
put out is out, and a row that exists is never inserted again; `OffersNewest`, the
pending nonce is the user's newest and undecided. The last is why an old button, or one
pressed twice, saves nothing.

`ChatProof` proves `ChatTypes`, `AnswersAreToOpenQuestions` and `TextsAreTakenOnce`. `Fits` ties a
dialogue to the history: its pending question was put to its user, is open as long as
the dialogue is active, and the dialogue ends `Ttl` after the bot last dealt with him;
so a question `classify` matches is open and in time. `AllRemembered`: as long as a
process has taken no more texts than it may remember, it remembers exactly those, by
counting. `ChatTypes` proves Chat's `TypeOK`, whose hard part is the limiter: a bucket is
in the order of time (`Filled`), so behind as many entries as have left the window none
has (`RecentType`).

`DialogueImplemented` is the refinement of Dialogue: `RecordUser` maps to `Answer`,
`Drop` or a stutter, `RecordAssistant` to `Put` or a stutter, a reset to `Drop`, the rest
stutters; so does expiry, since a dialogue that has run out keeps its pending question in
the table until the next text is read. `Fits` makes what is answered a question still open.
`PendingIsUnanswered` carries over what Dialogue comes to: what is pending was never
answered and is pending for one user.

`MemoryProof` proves all that the run `memory` checks: `MemoryTypes`, `RememberedOnce`,
`AnswersAreTrue`, `MemoryIsDurable`, `OneSummaryPerBucket`, `UneditedTextsAreKept`.
The invariant: `Unique`, the
partial index; `WellKept`, a row of the tool that nobody has edited has the key of its
content, so two live ones with one content are one row, and the system's rows, the
summaries among them, neither die nor expire; `Holding`, from its insert on a call's row
is the caller's and holds the text or has been touched; `SeesNone`, who is about to store
a summary has been touched by every summary of its bucket. `UpsertWrites` says what an
upsert does to the table, and `OthersKeep` that a write disturbs no other call but
through the row it touches. `UneditedTextsAreKept` gives the finding of `overwritten` its
exact extent: only `update`, which leaves the key behind, makes a text one that a later
call may overwrite.

`DocumentsProof` proves `FilesAreAccounted` and `DocumentsTypes`. `InWork`: the document
being taken in has its file, a name no row has, and nothing left of the download.
`NamesUsed`: names are used once, so a new file is never one that a clean-up is about to
remove. `Forgettable`: between the file and the row, the file is gone or the system
refused. `RoomKept` counts: `Move` asks for room and `Insert` comes later, but only the
handler adds documents, and everything else makes them fewer.
`LifecycleImplemented`: `Insert` maps to `Keep`, `Tick` to `Lapse`, the three ways to
forget to `Ask` and `Sweep`, `Commit` to `Forget`, failures and the crash to `GiveUp`.
It needs that a message has one row at most (`DeliverAgain` looks at forgotten ones too)
and that the time to live is not zero (`DocumentsAssumption`).

`RolloutProof` proves `RolloutTypes`, `RollbackAlwaysUndoes`, `NothingIsLost`,
`WantedStaysUp` and `StartableIsKept`.
`StampsPast`: stamps lie in the past, tell backups apart, and one is the latest.
`FoundSaved`: between backup and copy the latest backup holds the unit in place.
`UndoSaved`: the latest backup holds what a rollback would undo. `MachineTyped` adds that
a process runs only under an active unit and that a polling bot owns its databases.

The assumptions are the named ASSUMEs of each module, which TLC evaluates in its runs.

Only model-checked: liveness, which is beyond the prover. Every other property of a
passing run is proved. Of each liveness property the safety part is a theorem, so that
what is left to TLC is that a step which stays possible is taken.
`UsedUp`, `LostOnlyAtLock`, `RequestsUsedUp` and `WantedUp` are stated by
theorems only, no run repeats them:

| Property | Proved of it |
| --- | --- |
| `DueIsServed` | `NothingIsStranded`: what a dead scheduler held is free again within a lease |
| `Terminates` | `RequestsAreUsedUp` of AgentLoop: no step gives back what a request has used up |
| `Answered` | `RequestsAreUsedUp` of SshService: no step, a look at the lock and a place in its queue included, gives back what a request has used up |
| `ExpiredAreForgotten` | `LifecycleImplemented`: what is due leaves that state by being forgotten only |
| `RetriedUntilItRuns` | `WantedStaysUp`, `StartableIsKept`: the unit stays up, and the service keeps what it needs to start |

## 6. Disagreements between the code and what it says

| Run | What the code does | What is said |
| --- | --- | --- |
| `stranded` | the limiter's `asyncio.Lock` is shared by the bot's loop and the loops of worker threads; a loop that meets it taken on the way out gets `RuntimeError` instead of giving its permit back, and the slot is lost | limits.py:1: atomic concurrency admission; test_ssh_agent_service.py:128: `limiter.active == 0` afterwards |
| `overwritten` | `update` rewrites a memory's content and leaves its key, the hash of the old content; remembering the old text again then finds the row by its key and overwrites it | memory/storage.py:174: the hash-like key is for exact dedup only |

Seen while modelling, each part of a module, without a run of its own.

*Reminders.* The guard's refusal counts as a failed attempt (scheduler.py:132), so a
disabled user's one-time reminder fails for good, although README.md:423-425 keeps it for
/enable_family_user. The write-back after a send (scheduler.py:105) replaces a time the
user has moved the reminder to meanwhile. A cancelled, completed or failed reminder can
be resumed by number (service.py:240): it is announced and never runs, being inactive.

*Agent.* `tool_choice` stays "required" after the required tool has run (agent.py:700),
where README.md:131-140 has a final answer asked for. `get_project_memory_status` is
credited as an SSH source (agent.py:879), `list_server_projects` is not.
A request about the crypto bot and the web is refused as a whole although
handlers.py sends compound requests to the agent to be answered in parts;
`_fallback_without_web` is unreachable, since only requests that need the search are
offered it. While the question "which place?" is pending, any text of at most 120
characters counts as the place (agent.py:262-270).

*Access and location.* `location_callback` asks nobody whether its user is still
allowed: a disabled user can still press "save" (README.md:422: disabling forbids new
requests at once). An owner taken off the allow-list stays an owner (README.md:413).

*SSH.* The limiter's lock is no lock between threads: a loop that has found it taken
and is not in its queue yet misses the release that should wake it, the bot's included
(`Answered`). `SSHMetrics.active_requests` may stay wrong for good once a loop has been
switched out of `finish` for another that begins or ends a request (metrics.py:22, `MetricsTrue`); it only shows in a status.

*Rollout.* `validate`, and with it `install` and `start`, runs the SSH self-check as root,
but ssh_agent/config.py:202 wants servers.json to belong to whoever reads it, which
docs/ssh-agent-deployment.md:21 has as `jarvis`: with SSH enabled the commands refuse what
the service accepts, and the other way round. `prepare` and `install_service.sh` make the
keys in /etc/jarvis/keys 0640, as README.md:342-344 does, and readiness.py:41 accepts no
such key (`Keys`); the documents of the SSH agent keep its keys in /etc/jarvis/ssh.

*Handlers.* `/reset_context` resets thread 0 of a chat only. The user lock and its "still
processing" reply are unreachable in the built application.

*Documents.* `service.image` (handlers.py:654, :743) does not exist: whoever sends a
picture with a question is told it failed, though it is stored. `by_message` finds
forgotten documents too, so a message delivered again after its document was forgotten
is "already processed". The duplicate path of `ingest` would leave the download behind,
but the handler's own look comes first. A "forget the document" text
delivered again after a restart forgets the next one.

## 7. Abstractions and limits

- Time in Reminders is one clock in small units; the two processes' clocks do not
  drift. `claim_due`'s `now` is read just before its transaction and is the
  transaction's here; resume reads the clock when it resolves. Rules are evenly spaced
  (`Period`); calendars, time zones and texts are data.
- Threads run concurrently only because `wait_for` abandons them; the model lets two
  interleave freely, which includes that.
- The delivery-enabled flag is on; the notification text and parsing of commands are
  left out. A command by text instead of number resolves some of the rows a number
  does.
- AgentLoop leaves out what a request writes to the dialogue (Chat) and the memory
  (Memory), and the tools' own effects. After a deadline the abandoned thread may still
  change the provider's model; AgentLoop lets it do so at the deadline.
- Citations that cannot be parsed and citations that are missing are one case
  (`sources = FALSE`). A tool output over 64 KB counts as a failure, as in the code.
- SshService: the token bucket and the policy are one possible refusal (`Refuse`); time-outs
  are untimed, a check may be given up at any moment; the pipes end with the process
  (a grandchild that keeps one open is not modelled); a request is cancelled once. The
  crypto tools' other queries call the transport without the service, hence without a
  permit, and are left out: the limits never were about them. Where threads contend,
  taking a free lock is one step, and so is each critical section. Of the first that is
  what CPython does as long as no loop has ever waited; once the queue exists, `acquire`
  calls `all` between its look and its assignment, and two threads switched right there
  could both enter and pass a limit together. `PermitsMatch` and `SlotsKept` do not speak
  of that; without contention they hold of the code as they stand.
- Memory: one project, one type of the remember tool; how often and when a row was used
  is one bit; relevance and order of a recall are left out, so is redaction of secrets.
  Every thread may be one that its request has given up.
- Access: a token is the number of its invite, so that it is guessed is not modelled;
  the audit log is left out.
- Chat: a user writes in one chat; of a dialogue's state the pending question, status and
  end are kept, not the collected facts, the topic and the message window. The sorts of
  text are what `classify` tells apart. A text's handling takes no time on the clock,
  since its deadline is short against every period; a caption's may.
- Documents: one user, since rows are read by user; the content, its checks and the
  chunks' text are data; a failed system call either has its effect or none.
- Rollout: a unit file is its version, settings are a few facts; modes and owners of
  other files, users and secrets are part of `Ready` and of `env.fit`, which stands for
  all that a start needs besides loadable settings, its log and its databases. The modes
  of /etc/jarvis change in one step, so do a migration's backup and check, and `validate`
  opens its databases in one; a process reads settings and `fit` once, at `Boot`. The
  migration of a database's schema is not modelled. An operator runs one command at a time.

### Not modelled

- The token buckets of the SSH service and the result cache of the crypto tools: the
  service's part of the former is `Refuse`. Read from the code, not checked by a run: one
  loop's bucket keeps its rate, but `allow` (limits.py:45-56) takes the bucket out of the
  table and puts it back without a lock, so a second thread in between starts with a
  full one; a slow look at the crypto server may overwrite a later one (service.py:43),
  within its time to live, since its end is counted from before the look.
- The message window of a dialogue (`recent_messages`) and the limiter's window for web
  searches: AgentLoop takes the latter's decision as an input.
- Routing's classification, parsers, formatters, policy and plan look-ups: pure functions
  of texts by word lists and regular expressions; their decisions are inputs.
- The deployment kit (it renders files), the legacy remote tools, the skills registry, the
  health endpoint, logging, and scripts that only read: no state of their own.

PROJECT.json has the status of each part, and says for each hazard without a property
why it has none.

## 8. Plan

1. Reminders, SshService, AgentLoop: done, with proofs of every safety property the
   runs check and of the safety part of each liveness property.
2. Access, Chat, Rollout: done, with proofs of every safety property the runs check.
3. Memory, Documents: done, with proofs of every safety property the runs check.
4. Left to model: the message window of a dialogue, the token buckets and the crypto
   cache, as one small module of windows and caches (no answer older than its time, no
   more than the limit in any window).
