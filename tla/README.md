# omniclaude: TLA+ models, model checks and proofs

This directory holds TLA+ specifications of the concurrent and crash-prone
parts of omniclaude, the TLC configurations that check them on small instances,
and TLAPS proofs of what matters most for every size. Paths are relative to the
repository; `lib/` stands for `plugins/onex/hooks/lib/`.

Contents: 1 inventory, 2 modules, 3 the hook-emit journal and its drainer,
4 PR claims and the ownership guard, 5 the agent actions consumer, 6 the
canonical clone sync, 7 session state, 8 findings, 9 proofs, 10 what is not
modelled, 11 running it.

## 1. Inventory

omniclaude is a Claude Code plugin plus a Python package. Hook scripts run once
per tool call in processes of their own; resident daemons (the emit drainer, the
hook runtime, the delegation daemon), timers (the clone sync) and short CLIs
share state with them through files; consumers share a Kafka partition and a
database. Almost every hard behaviour is therefore of one of three kinds:
several processes that read, rename and unlink the same files, with no common
lock or with one that times out; a process that dies between two of its durable
steps; and memory that is ahead of what was made durable.

| Component | State it keeps | Operations | Talks to | Hard because | What makes it correct |
|---|---|---|---|---|---|
| Hook-emit journal (`lib/hook_emit_journal.py`, `lib/hook_emit_append.py`) | one file per record in the journal directory, `deferred/`, `quarantine/`; the loss log | append, defer, release_deferred, enforce_bound, list_pending, ack, record_loss | every hook process; the drainer; the drainer's status file | writers run beside the drainer; every step may be the last one | nothing is unlinked unaccounted for; ledger rows survive the bound |
| Hook-emit drainer (`lib/hook_emit_drainer.py`) | `failure_counts`, `refused_event_types`, `publishable`; a status file | migrate_legacy_journal, drain_once, stand-down probe, quarantine_record, reload | journal, broker, emit registry, launchd | head-of-line blocking, lost answers, broker outages, registry upgrades, crashes | order, at-least-once, only refused records set aside, no permanent stall |
| PR claim registry (`lib/pr_claim_registry.py`) | one claim file per PR, tombs, temp files | acquire, release, heartbeat, cleanup_stale_own_claims | concurrent skill runs | check-then-act on one path by rename, link and unlink; expiry by clock | two runs never hold one PR |
| PR ownership guard (`src/omniclaude/nodes/node_pr_ownership_guard_effect/`) | none of its own | judge a command from the claim on its target, record_claims | the claim registry | decides on one read and acts later; drops acquire's answer | a lane never mutates a peer lane's work |
| Agent actions consumer (`consumers/agent_actions_consumer.py`) | the batch in memory, retry counts, the committed offset | poll, insert, count retries, dead-letter, commit | Kafka, PostgreSQL | what was polled is ahead of what was stored; rebalances; crashes between insert, dead letter and commit | the offset passes nothing that was not dealt with |
| Canonical clone sync (`lib/canonical_clone_sync.py`) | one shared clone's refs, checkout and working tree; a lock file; a refusal record | sync_clone, the return to the default branch, roll-back, refresh_clone | git, GitHub, launchd, lanes working in the clone | checks before moves that others may overtake; a lock that not everybody asks for; kills half way | never loses a lane's work, never serves a script that does not parse, gets current again |
| Session state (`lib/node_session_state_effect.py`, `..._adapter.py`, called by `hooks/scripts/session-start.sh` and `session-end.sh`) | a run document per run, the index `session.json`, stamps | init, end, garbage collection | background hooks of several sessions | a lock with a timeout, best-effort index updates, a collector beside writers | no index update is lost, active runs keep their documents, every document goes in the end |
| Session aggregator (`src/omniclaude/aggregators/session_aggregator.py`) | sessions, prompts, tools by correlation, per-session locks | process_event per kind, finalize, timeout sweep, orphan eviction | Kafka consumer, persistence | out-of-order and duplicate events; but no handler suspends while it holds a lock, so that an event is one step | one final snapshot per session |
| Spool drain (`src/omniclaude/hooks/spool_drain.py`) | spool files per topic | drain, retry, dead-letter | a gateway | one-shot batch upload | no loss, bounded retries |
| Hook runtime and delegation state (`src/omniclaude/hook_runtime/`) | per-session counters and flags in memory | classify, record, reset per prompt | hook clients over a socket | concurrent connections, restart loses memory | a rule fires once per prompt |
| Delegation daemon (`lib/delegation_daemon.py`) | socket, pid file, background jobs | start, serve, stop, reclaim a stale socket, submit and poll a job | hook clients, the operating system | signals in the serving thread; two servers at one socket path | a stopped daemon is gone, a running one keeps its socket |
| Quirk controller (`src/omniclaude/quirks/controller.py`) | findings, stages | observe, promote, demote | detectors | promotion thresholds | no stage is skipped |
| Standalone inbox, CI and Linear relays (`src/omniclaude/services/`) | message files, cursor, rate windows | send, receive, garbage-collect; admit | agents, GitHub | a cursor that passes what it filtered; windows at their edge | no message skipped |
| Routing latency guard (`lib/latency_guard.py`) | a latency window, a circuit, an agreement rate | record, open, close, half-open | `route_via_events` | a gate that suppresses the observations that would open it | a closed gate can open again |
| Dispatch claims (`lib/dispatch_claim_gate.py`, `..._release.py`) | one claim file per blocker | claim, expire, release | dispatched agents | unlink by path after an earlier read | one agent per blocker |
| Lane registry (`lib/lane_registry.py`) | a record per lane, an append-only index per session | open, close, reconcile | hooks of several sessions | best-effort correlation of close with open | an open lane is never taken for a completed one |
| Persistent bus, bounded runner, health probe (`lib/hook_emit_bus.py`, `lib/hook_emit_bounded.py`, `lib/hook_emit_health.py`) | one Kafka bus; a subprocess with a deadline; alarm markers | start, discard, close; run, kill, alarm; evaluate | drainer, hook scripts | cancellation, deadlines against late acks | an emit reported lost is not recorded |
| Guards, pruner, injectors, validators, routers, skills, CI (`plugins/onex`, `scripts/`, `.github/`, `src/omniclaude/{routing,nodes,...}`) | none, or read-only contracts and policies | decisions on one input | Claude Code | text rules | unit-testable |

`PROJECT.json` lists the same parts as "components", with what is modelled of
each, and under "hazards" the places where the code is hard to test, each at its
line and with the properties that watch it.

How the parts that are modelled interact: hook processes append to the journal
and never speak to the broker; one drainer per host empties the journal, and what
it learns about the emit registry reaches the writers through its status file;
operators act on the dead-letter directory and on the broker's grants. The claim
registry is used by skill runs directly and, through the ownership guard, by
lanes of one session. The consumer reads what the broker has. The clone sync and
session state share nothing with the others but the host and its kills.

## 2. Modules

The order is that of consequence: losing events or letting two runs push to one
branch is worse than a stale index.

| Modules | Composes or refines | Runs | Proofs |
|---|---|---|---|
| `HookEmitJournal`, `HookEmitDrainer`, `HookEmitDelivery`, `HookEmitOrdering` | the drainer extends the journal; delivery refines `DurableOutbox` | `emit_delivery`, `emit_upgrade`, `emit_liveness` | `HookEmitProofs`, `HookEmitOrderProofs` |
| `PrClaimRegistry` | | `claims_reap_race` | `PrClaimProofs`, `PrClaimLockProofs` |
| `PrOwnershipGuard` | extends the registry; lanes' own calls and the guard's run side by side | `claims_guard`, `claims_faults`, `guard_first_writer` | `PrGuardProofs` |
| `AgentActionsConsumer` | refines `LogReader` | `actions_consumer`, `actions_failed_batch` | `AgentActionsProofs` |
| `CanonicalCloneSync` | syncs, refreshes, lanes and the remote in one module | `clone_sync` | `CloneSyncProofs` |
| `SessionState` | refines `RunIndex` | `session_state`, `session_end_other` | `SessionStateProofs` |

The abstract specifications (`DurableOutbox`, `LogReader`, `RunIndex`) say what
the component promises with no processes, no memory and no locks, and each is
both a PROPERTY of a run and the right-hand side of a theorem.

Left for later, in this order: the lifecycle of the two daemons and the shutdown
listed under the hazards; dispatch claims, as a variant of the registry;
the latency guard composed with the calls of `route_via_events`; the persistent
bus and the bounded runner below the answer that the drainer's model gives them.
Of theorems, every safety property that a passing run checks has one by now, some
of them under hypotheses that section 9 names; what is left is a roll-back of the
clone that is itself shown to lose nothing, and weaker hypotheses.

## 3. The hook-emit journal and its drainer

### Correspondence with the code

`HookEmitJournal` is `lib/hook_emit_journal.py` with `append_event`. A record is
one file whose name starts with the nanosecond clock; the module numbers the
records in filename order, so it assumes that the clock does not step back (the
code assumes it as well: it sorts by name). Every move of a record is a rename, so
`place` is a function from records to directories:

| `place` | in the code |
|---|---|
| `unwritten`, `writing`, `deferring` | not begun; a temp file bound for the journal, for `deferred/` |
| `unwritable` | `JournalWriteError`, or a writer killed before its rename |
| `journal`, `deferred`, `quarantine` | the directory the file is in |
| `gone` | unlinked |

`torn` holds files that no longer parse, `status` the types in the drainer's
status file (which decide whether a ledger row is deferred), `lossLog` the
records with a line in the loss log, `unlogged` those whose line could not be
written and was reported on stderr.

`HookEmitDrainer` is `run` and `drain_once` of `lib/hook_emit_drainer.py` and
everything they call. Each durable effect (a rename, an unlink, a line, a
publish) is a step of its own, and `pc` names the next one, so that a crash may
fall between any two:

| Steps | Code |
|---|---|
| `Start`, `Migrate...` | `run` up to its loop; `migrate_legacy_journal` |
| `CheckSources` | the fingerprint comparison at the top of the loop, exit for reload |
| `ReleaseDeferred`, `EnforceBound`, `SkipBound`, `Evict...` | the start of `drain_once`; `enforce_bound` with its loss callback. A file whose read raises is like one that does not parse: a ledger row among them becomes evictable (`misread` remembers it) |
| `List` | `list_pending`, which leaves out files whose read raises |
| `Publish`, `Ack`, `PassOver`, `StandDown`, `HaltBatch`, `BatchDone` | the publish loop; the three outcomes of a failure |
| `Probe...`, `WriteReason`, `MoveAside`, `DeadLetterLoss` | `_broker_answers_behind_the_head`, `quarantine_record`, the refused class |
| `RecordCycle` | `_record_cycle`, and the end of a one-shot or stopping process |

`counts`, `refused` and `known` are the process's memory and are lost by
`ProcessEnds`. `counts` is cut off at the threshold, which is all it is compared
with. There is one drainer because `SingletonLock` is a kernel lock held until
the process ends: a second one exits at once.

Around it stand `Crash`, `Signal`, `Tear` (a renamed file whose data a host
failure lost: nothing is synced), `BrokerDown` and `BrokerUp`, a lost answer (a
publish the broker has, or has not, that is not confirmed: `NotConfirmed`),
`InstallRegistry` (`registry` is the emit registry on disk, {} when it cannot be
read), `Provision` and `Replay` (what the reason file tells the operator to do).

The broker is external and modelled by its answer: it accepts a record if it is
up, the type is in the registry the process read and the principal holds the
grant. `hook_emit_bus` and `hook_emit_bounded` are seen only as that answer and
as a writer that may be killed. The ordering node that builds the probe's
candidates is modelled by what `ProbeOrder` returns.

`HookEmitOrdering` adds one history variable, the batch that the cycle listed.
It changes no step.

### Runs

| Run | Instance | What it shows |
|---|---|---|
| `emit_delivery` | three records of an accepted, a refused (later grantable) and a ledger type, bound 2, one fault, one outage | nothing is unlinked unaccounted for, a readable ledger row leaves the disk undelivered only if its read raised in the eviction that dropped it, a dead letter has its reason, eviction stops at the bound, and the whole refines `DurableOutbox` |
| `emit_upgrade` | two records, legacy, unconvertible, malformed or ledger; registry missing, without ledger types, or full, changed once; resident and one-shot drainer; bound 1, one fault, no outage | the inductive invariant and the refinement hold through migration, reload and deferral; only what broker or registry refuse is set aside, and only after publish has answered for another record, a malformed one included; under fairness a deferred row whose type the registry lists is released |
| `emit_liveness` | three well-formed records in one batch, one fault, one outage | every record the broker would accept leaves the journal; none overtakes an older one of its batch except past a proven class or on the probe |

Why the bounds suffice. The rules compare a record with the head, with one
record of its class and with one of another: three records give all three roles
at once. The bound, the batch and the threshold are set so that each is both
reached and not. One fault is enough to fall between any two durable steps, and
with the restart that follows it covers a crash in each half-done operation; two
crashes add only sequences of such recoveries, which the proofs cover since they
put no bound on the faults. `QuarantineAfter` is 2 because 1 never waits and the
code's default of 5 adds only failures that change a counter; it is one more than
the lost answers allowed, or "the answers were lost" would itself reach the
threshold.

Fairness. `Drainer` is weakly fair: `scripts/launchd/ai.omninode.hook-emit-drainer.plist`
line 61 has KeepAlive, which starts an ended drainer again, and the process runs
a loop that blocks only for bounded times. `BrokerUp` is weakly fair: an outage
ends. Nothing is assumed of hook processes, operators, faults or grants; in
particular a writer may stay between its temp file and its rename for ever.

Some of these properties hold in their instance because a cause is absent from
it, and the cause breaks them: a batch smaller than the journal or a malformed
record for `AuthorisedLeavesJournal`, an outage for `OnlyRefusedSetAside`. Section
8 has each.

## 4. PR claims and the ownership guard

### Correspondence with the code

`PrClaimRegistry` is `lib/pr_claim_registry.py`. A claim is one file per pull
request, and no operation looks at two of them, so the module follows one path.
There is no lock around it: `acquire`, `release`, `heartbeat` and
`cleanup_stale_own_claims` are sequences of accesses to that path, and a step of
the module is one access. What a call does to files that only it knows (its tomb,
its temp file for the link) is part of the neighbouring step, since nobody else
can see the difference; the heartbeat's temp path, however, is one name for all
callers, and is the variable `beatTmp`. An `exists()` and the read that follows
it are one step: the file that vanishes between the two reads as no claim.

| Variable | Code |
|---|---|
| `file` | what the claim path holds: nothing, a file that is not JSON, or a claim with its claim and heartbeat times |
| `pc`, `tries`, `mine`, `tomb` | the local state of a call in progress |
| `now` | the wall clock, in ticks of between one and two hours: a claim's heartbeat (30 minutes) is stale after one, the claim itself (2 hours) is old after two |
| `held`, `answer`, `met` | history: the record a caller goes ahead on, what its last acquire answered, what that acquire met |

| Steps | Code |
|---|---|
| `Acquire`, `Read...`, `Reap...`, `Settle...`, `Link`, `Collide`, `LinkFails` | `acquire` and its reaping: read, rename to a tomb, revalidate it, link back or unlink, link the new claim, at most four times |
| `Release...` | `release`, which passes no session |
| `Heartbeat...` | `heartbeat`: read, open the temp path (which empties it), fill it, rename it; an absent, unreadable or another run's claim is no step, because the call then changes nothing. Who finds its temp file renamed by another's beat fills the file where that is by now, the claim path, or raises |
| `Cleanup...` | `cleanup_stale_own_claims` |

`Run`, `Lane` and `Session` give each caller its identity; lanes of one session
share a run id and are told apart by `IsOwnClaim`. `LateCalls` says which calls a
caller makes that does not, or no longer, hold a live claim, and `LateUntil` until
when. A heartbeat thread beside its run (`pr_claim_registry.py:48`) is a caller
with that run's id, lane and session whose late call is the heartbeat; `SameOwner`
makes the two one owner. The instance-id file
decides nothing about claims and is left out; `dry_run` and the listings write
nothing and have no action.

`PrOwnershipGuard` is the handler `handler_pr_ownership.py` of the node
`node_pr_ownership_guard_effect`. It keeps nothing, but between its steps others
act: `stage` says what the guard is doing for each caller.

| `stage` | Code |
|---|---|
| `none` -> `owning` | `evaluate_mutations`: an active claim proves that this lane owns the target (`JudgeOwner`) |
| `none` -> `first` | no active claim, and an exclusivity command: allowed (`JudgeFirstWriter`) |
| `first` -> `recording` -> `cleared` | `record_claims` calls `acquire`, whose steps are the registry's own, and goes on whatever it answers |
| `owning`, `cleared` -> `none` | the gh command runs (`Mutate`) |

Every other verdict refuses and is no step. A caller's guard and its own registry
calls take turns, since a lane waits for the command it runs.

### Runs

| Run | Instance | What it shows |
|---|---|---|
| `claims_guard` | two lanes that share a run id, with guards; claims lapse; release also by a lane that holds nothing, until the first claim could lapse; a malformed leftover | they never go ahead at once, a fresh claim that a reaper took aside is put back, and a verdict of ownership is still true when its command runs |
| `claims_faults` | two runs with guards, a malformed leftover, every call at any time, one I/O error, one crash | under fairness acquire answers within its attempts, and is refused only after it met a live claim, one that two heartbeats have torn, or an error |
| `claims_reap_race` | three runs and one expired claim | finding: a winner's fresh claim is lost and a second caller is told True |
| `guard_first_writer` | two lanes, nothing lapses, nothing fails | finding: both are cleared as first writers |

Why the bounds suffice. Two contenders suffice for every race of one reaper with
one winner; the third is what the reap race needs and is there in
`claims_reap_race`. Three ticks let a claim be made, lapse (at the second tick),
be reaped, and its successor live on with a stale heartbeat. Four attempts are
the code's own. Fairness is weak fairness of a call in progress and of the guard
around it: a process that is not killed finishes the call it is in; nothing makes
a caller call.

What `claims_guard` leaves out, since the code does not survive it, is in section
8: a release, heartbeat or cleanup that starts after the caller's claim may have
lapsed, two heartbeats or a heartbeat beside its own run's release, and a threshold
that passes inside a call or between a verdict and its command (`SleepMidCall`;
`GuardTick` waits for the command). All but the last are in `claims_faults`, which
has no heartbeat thread. The runs about exclusion show what a careful caller may
rely on. And a reaper killed between its rename and its link back leaves a live
claim in a tomb that no code opens again; `claims_faults` has that kill and does
not ask for exclusion.

## 5. The agent actions consumer

### Correspondence with the code

`AgentActionsConsumer` is `consumers/agent_actions_consumer.py` for one partition
and the consumers of its group. A step is one call to the broker or the database,
with what the consumer does in memory before the next.

| Variable | Code |
|---|---|
| `committed`, `owner` | the group's committed offset, the consumer the partition is assigned to |
| `position`, `batch` | the client's read position; `batch` of `consume_loop` |
| `retryCounts`, `giveUp` | `self.retry_counts`; `committable_offsets` of one failed batch |
| `stored`, `twice`, `dead`, `refused` | rows in the database, messages with two of them, the dead letter topic, messages of a batch whose insert failed |

| Steps | Code |
|---|---|
| `Assign`, `Revoke` | the group coordinator |
| `Poll` | one `poll` of `consume_loop`, and the test that a batch is full or old |
| `Insert`, `InsertFails`, `InsertUnanswered` | `insert_batch` in one transaction |
| `CommitPosition`, `CommitPositionFails` | `commit()` after it |
| `CountRetries`, `CommitPast`, `CommitPastFails` | the except branch of `process_batch` |
| `Crash`, `Restart` | a kill or a signal, and the service manager |

`refused` is deliberately weak: a message counts as dealt with once a batch with
it was refused, because that is all that the code guarantees (see the finding).

### Runs

| Run | Instance | What it shows |
|---|---|---|
| `actions_consumer` | two consumers, three messages of which the database always refuses one, batches of two, one retry, one failed or unanswered call, two crashes or revocations | the committed offset passes nothing that was not tried (`LogReader`), every message is dealt with in the end, and the retry path alone stores nothing twice |
| `actions_failed_batch` | one consumer, one failed insert, no crash | finding: the offset passes messages with neither row nor dead letter |

Three messages with batches of two make a full batch, a partial one and a message
behind a failed batch; one retry makes the count reach its limit on the second
failure; two moves give a rebalance away and back, which is how a batch comes to
hold a message twice. Fairness: the loop runs and every batch gets old enough
(weak fairness of processing), a dead consumer is restarted (by systemd after a
kill; after a clean exit on SIGTERM, which `Restart=on-failure` leaves alone, by
whoever sent it), and a free partition
is assigned to each consumer that keeps polling sooner or later (strong fairness
of `Assign`: a consumer is not always polling when the partition is free, and the
coordinator waits for it).

## 6. The canonical clone sync

### Correspondence with the code

`CanonicalCloneSync` is `lib/canonical_clone_sync.py` for one clone. A commit is
the set of the changes it contains, so that "is an ancestor" is a subset and a
merge of two branches a union; a change is also the path it touches. One change
makes hook scripts that do not parse, another repairs them. A step is one git call
that reads or moves what others move too, with the checks that follow it.

| Variable | Code |
|---|---|
| `remote`, `remoteDefault`; `tracking`, `symref` | the branches on GitHub; the clone's remote refs and `origin/HEAD` |
| `local`, `head`, `shared` | the clone's branches, what is checked out, whether it has a commit lock |
| `overtaken` | history: `git switch -c` has made a branch from a tracking ref that was no longer what the sync had checked |
| `unstaged`, `busy`, `stray` | what lanes left in the working tree: edits, staged paths or an operation in progress, an uncommitted script that does not parse |
| `lock` | the clone's flock |
| `pc`, `branch`, `before`, `target`, `result` | the locals of `sync_clone` |
| `refused` | the refusal record |
| `rpc`, `wanted`, `asked`, `fresh` | `refresh_clone` for one branch: what it was told and whether it exited 0 |

| Steps | Code |
|---|---|
| `Look`, `TakeLock`, `LockTimesOut`, `SetHead` | `sync_clone` up to the choice between following and returning |
| `Follow`, `FastForward`, `MergeStays`, `ReadBack`, `RollBack` | fetch, checks, `merge --ff-only`, `readback_or_roll_back` |
| `Return`, `Switch` | `_return_to_default` |
| `Track` | `track_refusal`, which takes the lock a second time |
| `Ask`, `Accept`, `GiveUp`, `TakeLockToFetch`, `RefreshFetch` | `refresh_clone` |
| `Merge`, `LaneMove`, `LanesDone`, `LaneFetch`, `Crash` | the world around it |

### Runs

| Run | Instance | What it shows |
|---|---|---|
| `clone_sync` | two syncs, one refresh, two branches of which one may be missing locally, a commit that does not parse and its repair, the clone shared or not, one trouble | the inductive invariant; the clone serves only what parses, unless it was overtaken; an exit 0 of a refresh stays true; no step of a sync drops a commit or an edit; once lanes leave nothing behind, the clone gets to the head of the default branch and its refusal is cleared |

Failures, kills, fetches past the lock and what lanes do share one budget
(`MaxTroubles = 1`): each property is about one of them falling into a window of
a sync, and the proofs have no such bound. Two syncs are what it takes for one to
be overtaken, and two changes for a commit that must not be served and the one
that makes it right.

Fairness: launchd and merges start syncs again and again, and a sync that is not
killed goes on; a refresh that holds the lock gets through its fetch. Nothing is
assumed of lanes, of merges or of who starts a refresh. `EventuallyCurrent` is
conditional on `Quiet`: lanes leave nothing behind from some time on, what the
remote serves parses, no local branch has a commit of its own, and a clone that
has a commit lock is already on the default branch, which is all the code ever
promises to move.

`ServesWhatParses` names its one exception. If the default branch does not exist
locally, the return parses the fetched sha, and then `switch --track -c` names the
tracking ref (`canonical_clone_sync.py:1037`); somebody who fetches without the clone
lock in between makes the clone serve a commit nobody parsed. The run reaches it:
without `overtaken` in the property it fails in seven steps.

One counterexample has no run (constants of `clone_sync.cfg`, no refresh,
`SharedTrees = {FALSE}`, specification `Spec`): `OnlyOwnUpstream` with
`FaultKinds = {"set-head"}`. A sync reads the checked-out branch (main), waits for
the lock while another one returns the clone to dev, and then cannot learn the
default branch: it follows main, and `merge --ff-only` fast-forwards whatever is
checked out. dev now contains main's head.

## 7. Session state

### Correspondence with the code

`SessionState` is `lib/node_session_state_effect.py` and its adapter, as the
background subshells of `session-start.sh` and `session-end.sh` run them. A hook is
one such process, a step one file that it reads, writes, renames or unlinks.

| `pc` | Code |
|---|---|
| `spawned`, `init`, `unpid`, `stamp` | `_init_session_state` of `session-start.sh`: the pid file, `cmd_init`, `rm .pid`, `.done`. The guards on stamp and pid file come before the spawn |
| `register`, `prune`, `clear` and `registering`, `pruning`, `clearing` | `update_session_index` before and after it has the lock and has read the index |
| `undo` | the orphaned document taken back when the index could not be locked |
| `collect`, `touch`, `scan`, `unlink` | `gc_stale_runs` |
| `read`, `end` | `cmd_end` for the active run that the script has read |

`docs` are the run documents, `index` is `session.json`, `lock` the flock on
`session.json.lock`, `stamp` and `pidFile` the two guard files of a session,
`gcDue` the age of `.gc_last_run`. A lock that is held may time out at any moment
(`NotLocked`), without being counted as a fault. A read of the index that raises
under the lock makes the hook go on from an empty one, which it then writes: that is
a fault of `Lock`, and `unread`, in `RunIndex`, says that the next operation starts
from nothing. `leftover` is a history variable:
the runs that a collector unlinked and then failed to take out of the index.
`Known` is uuid4: an id is taken again only when nothing knows it any more. The
index is written by a rename, so a reader without the lock sees one whole index.

### Runs

| Run | Instance | What it shows |
|---|---|---|
| `session_state` | two hooks that start runs, one of which may be an end instead, one session, three ids, an index of one recent run, no pid guard, one I/O error or kill | whoever changes the index holds the lock and has read what it replaces, or its read has failed; the index changes by whole operations of `RunIndex`, from an empty index only after such a failure; it names no run but those a collector answers for; active runs keep their documents; every document is collected in the end |
| `session_end_other` | two sessions | finding: the end of one ends the run of the other |

`PidGuard = FALSE` is the weaker guard, of a bash without `$BASHPID`: with it two
inits of one session meet. Two hooks are what it takes to lose an update. An index
of one run lets a second registration push the first one out; the third id is there
for liveness, since a document that is never collected keeps its id and with two
ids the next session would find none. `Enders` keeps the run short: with both
hooks as possible ends it has 1.9 million states, takes four minutes and shows the
same. The index properties are proved for any number of hooks, runs and faults.
Deadlock is not checked: nothing obliges anyone to start a session, and the bound on
ids stops them when each names a run that nobody ended.

Fairness: a background process that is not killed goes on, `updated_at` gets older
and the collection's interval passes. `EventuallyCollected` is about sessions that
go on starting: a collection is run only by an init. Its point is the documents
of hooks that died, which no index names.

Behaviours of this code that no property of the run covers: the garbage collector and `cmd_end`
both write a document they have read earlier without a lock, so a run that ends
between the collector's reading it as an orphan and the unlink loses its document,
and `cmd_end` may bring back one that was collected (`ActiveKept` is about active
runs only); two inits may both pass the
pid guard, which is looked at before and written after the spawn; and ids that a
collector failed to prune stay, because the next collection looks only at
documents ("Next GC cycle will retry", `node_session_state_effect.py:489`).
`IndexNamesRuns` is stated so that these ids are the only ones.

## 8. Findings

Four disagreements between the code and what its own comments say have a run
whose counterexample is short; PROJECT.json quotes the lines.

| Run | What happens |
|---|---|
| `claims_reap_race` | three contenders for one expired claim: two are told True |
| `guard_first_writer` | the answer of acquire is dropped: two first writers |
| `actions_failed_batch` | a batch that failed once is skipped by a later commit |
| `session_end_other` | a session's end ends another session's run |

The others are reproduced by changing an instance, and are no runs:

| Property | Instance | What happens |
|---|---|---|
| `AuthorisedLeavesJournal` | `emit_liveness` with `BatchLimit = 2`, tool and denied records, no faults | two refused records fill the batch, so the probe finds no other class and the third never goes out (`lib/hook_emit_drainer.py:943`) |
| `EveryLossLogged` | `emit_delivery` with two records, denied and tool, threshold 1, no outage | killed between the move to the dead letter and its loss line (`:775`), against the comment at `hook_emit_journal.py:99` |
| `OnlyRefusedSetAside` | `emit_delivery` with two records, tool and ledger, no faults | failures counted during an outage condemn an acceptable head when the probe goes out after it (`:942`) |
| `ProbeIsEvidence` | `emit_liveness` with two records, tool and broken | a malformed record's publish is True without the broker, and is taken for evidence (`lib/hook_emit_drainer.py:495`) |
| `AuthorisedLeavesJournal` | `emit_liveness` with `broken` among the writers' types | the same answer, in an outage, condemns an acceptable class for the life of the process; a record of it that the operator replays is passed over behind a refused head for ever |
| `LedgerRowKept` without `misread` | `emit_delivery` | a read of a ledger row that raises in `enforce_bound` makes the row evictable (`hook_emit_journal.py:454`), which the docstring of `enforce_bound` says it never is |
| `MutualExclusion` | `claims_guard` with `LateCalls` one of `{"release"}`, `{"heartbeat"}`, `{"cleanup"}` and `LateUntil = 3` | a call that starts after its claim lapsed reads the old claim and then unlinks or overwrites the next owner's (`pr_claim_registry.py:570`, `:613`, `:660`) |
| `MutualExclusion` | `claims_guard` with `LateCalls = {}`, `SleepMidCall = TRUE` | a release in time, and the threshold passes between its read and its unlink |
| `OwnerMutatesAlone` | the same | the claim lapses between the verdict and the end of the command |
| `MutualExclusion` | `MCPrClaims`, a third caller that is the first one's heartbeat thread, `MaxTime = 0` | the beat reads the claim, its run releases, another run links its own, and the beat's rename puts the first claim over it |
| `RacingClaimPreserved` | the same | two beats of one claim: one has emptied the temp path when the other renames it, and the claim path is torn |
| `ServesWhatParses` without `overtaken` | `clone_sync` | section 6 |
| `OnlyOwnUpstream` | section 6 | the clone's branch is read before the lock |
| `ImplementsIndex` without `Misread` | `session_state` | a read of `session.json` that raises under the lock is taken for a missing file, and the write that follows wipes what other hooks registered (`node_session_state_effect.py:334`) |

And failures behind the head count towards the threshold by which the head is
judged (`lib/hook_emit_drainer.py:926`), so a record may be dead-lettered after
fewer failures at the head than `quarantine_after`.

## 9. Proofs

The constants are constrained only by the ASSUMEs of their modules: sets of types,
positive bounds, null values outside the sets they complete. The numbers of
records, callers, consumers, syncs, hooks, faults and attempts are arbitrary.

**Drainer.** `HookEmitProofs` proves `TypeCorrect`. The three delivery invariants
are not inductive: from `Accounted` alone nothing follows about `Ack`, which
unlinks what an earlier step published. `DeliveryInv` adds what the process
carries between two durable steps: `InFlight` (what it is about to work on has
not been moved by anyone: hook processes never touch a landed record, and the
operator moves only dead letters), `Justified` (the broker's answer or the loss
line is already there before an unlink, and no readable ledger row is up for
eviction but one whose read has raised) and `Explained` (the reason file is there before the move). With these
every action preserves the whole; `emit_upgrade` checks the same formula with
TLC. `NoSilentLoss`, `LedgerRowsSurvive` and `DeadLettersExplained` are its parts.

`ImplementsDurableOutbox` is the refinement. `DurableOutbox` has items, not
files: an item leaves the queue only as sent, as accounted for, or to where it
can be put back. The mapping is `ItemOf`; each drainer step is one outbox step or
a stutter, and the invariant is what justifies `Settle` and `Drop`. The lemmas
`UnlinkSettlesOrDrops` and `RenameMoves` carry the two kinds of file operation.

`HookEmitOrderProofs` proves what the drainer does in a cycle, each from an
invariant of its own on top of `DeliveryInv`.

- `EvictsOnlyOverBound`: `EvictInv` counts. While records are evicted the journal
  holds at least `JournalBound` files besides those still to go; writers and
  replays only add to it, and each unlink takes one from both sides.
- `OrderIsKept`: `OrderInv` says what the batch has become since it was listed.
  Whatever left it is settled or of a class proven refused, and a probe's
  candidates have nothing unsettled of their own class before them. It rests on
  lemmas about the records a batch lists and how they are ordered (`Newest`,
  `FirstOfAtMost`).
- `AnswerBeforeSetAside`: after a probe, what let it pass was answered for
  (`ProbeInv`): the broker has it, or no request can be made of it and its loss
  was reported. That is all there is to prove: section 8 has the counterexample to
  `ProbeIsEvidence`, that the broker had it.
- `SetsAsideOnlyRefused`, if the broker stays up, its grants stay as they are and
  fewer answers are lost than a record needs failures (`Reachable`): `SetAsideInv`
  bounds the failures of a record the broker would accept by the answers lost.
  Section 8 has the counterexample with an outage.

**Registry.** `PrClaimProofs` proves `TypeCorrect`, strengthened by `Carrying`
(inside acquire a caller carries a claim, so that a link never writes a null).

`RefusalsJustified`, for any number of callers, late calls and heartbeat threads
included: if no threshold passes inside a call (`SleepMidCall = FALSE`) and no access
fails, a refused acquire has met a live claim or one that was torn under it. The
delicate branch is `Collide`: a link that meets a file proves nothing unless that
file is live or torn. `ClearedStaysLive` says so (nothing else can appear before a
caller that has seen the path clear), and holds because whatever is linked or
renamed to the path bears the present time (`Stamped`) and a tomb that is put back
is live. `TombNoted` does the same for the reaper.

`ExclusiveUntilLapse`, for any number of callers that do not pass for each other
(`SeparateOwners`) while nothing can lapse and nobody fails or is killed (`NoLapse`):
two owners never go ahead at once. `LockInv` says that the path holds exactly the
claim of whoever goes ahead, whatever the others call, and that the reaping branch is
never entered. A third caller and a lapse together break it: `claims_reap_race`.

With two callers (`TwoCallers`) claims may lapse: `ExclusiveAcrossLapse` and
`RacingClaimComesBack`. The path no longer holds the claim
of whoever goes ahead, because a reaper that decided on a lapsed claim may take
away the live one that replaced it. `RaceInv` therefore says of a live claim that
it is `Kept`: at the path, or in the tomb of a caller about to put it back while
the path is empty. Around that it says that whoever goes ahead does so on a claim
of its own that is kept (`HoldersKept`), that a caller with a live claim about is
never itself reaping (`ReapersClear`, so that two tombs never both hold live
claims), and that release and heartbeat are past their check only while the
caller's claim is kept (`ActsOnOwn`). `OneStanding` concludes that only one caller
can have a claim kept, and `KeptStep` that no step of the other loses it; this is
where a third caller would break in. `LapsedIsAlone`, that a lapsed claim at the
path is the only one there is, uses that no threshold passes inside a call; `Untorn`, that no heartbeat empties the
temp file of another, that two callers never beat at once (`AloneBeating`).
`Orderly` collects the other hypotheses, which are those of `claims_guard`: no
error, no kill, no threshold inside a call, and callers without a live claim call
release or cleanup at most, while nothing can have lapsed yet. Each of these is
needed: section 8 has what happens without it.

**Guard.** `GuardImplementsRegistry`: every step of the guard's specification is a
registry step or a stutter, so the registry's theorems hold beside the guard.
`OwnershipLasts`, under the hypotheses of `ExclusiveUntilLapse`: a lane that was
let through as owner runs its command alone. `Owning` ties the verdict to the
claim (the file is the owner's as long as its command runs), and holds because
only the owner's own calls move its claim and those wait for the command.
`OwnershipOutlivesReaper` is the same for two lanes across lapses: the owner's
claim is then kept in the sense of `RaceInv`, wherever it is (`OwnerStands`).

**Consumer.** `TypeCorrect`, and `ReaderImplemented`: the consumer implements
`LogReader`. `ReadInv` says that below the committed offset everything is dealt
with (`CommittedDealt`), that below a position everything is dealt with or in the
batch (`PolledKnown`), that whatever lies below a message of a batch is dealt with
or in that batch too (`BatchGapless`), and that a batch whose insert was answered
or gave up was tried (`TriedBatch`). `CommitPosition` needs the second
and the fourth; `CommitPast`, which commits one offset in the middle of a batch,
needs the third.

`RetriesStoreOnce`: as long as every call is answered and the partition does not
move, no message has two rows. `StableInv` says that the owner's batch ascends and
lies below its position (so that it holds no message twice), that nobody else has a
batch, and that what is in a batch outside a commit has no row yet. The lemmas
`PollElements` and `PollAscends` say what a poll appends to a batch.

**Clone.** `CloneInvariant` (the inductive invariant that the run checks),
`NothingDropped`, `FreshStaysFresh` and `ServedParses`, without hypotheses. For the
last, `Parsed` says that every local branch, what a sync has checked and is on its way
to, and what it would roll back to parse, and `Checked` that this holds until a sync
is overtaken. `SwitchParsed` is where it may end: a branch that is made is what was
checked, or `overtaken` is set. Lanes may commit meanwhile, because what they commit
does not unparse a script (`CloneAssumption`).

**Session state.** `Invariant` is `IndexInv`: shapes, what a hook has at each step,
and `LockedIndex`, which says that what the holder of the lock has seen is the index,
or empty if `unread`. `IndexLocked` and the refinement `IndexByWholeOperations`
follow, failed reads included. `TypeCorrect` rests on what is left of a sequence when runs are taken out
of it (`Without`, a recursive function): `WithoutSpec` proves it for every length
by the smallest counterexample, since every non-empty set of numbers has a least
element (`Least`). `NamedRunsHaveDocuments`: `NamesInv` follows a run's name. It is
in the index only with its document on disk, while a collector is about to take it
out, or once one gave up. What a hook is about to register is known to no other
hook and not in the index, and its document is there and too young to be collected
(`Private`); a collector remembers what it unlinked (`Remembered`). `ActiveRunsKept` needs `Doomed`: what a collector is about to unlink is
gone, ended or an orphan, and stays so whatever others do, since nothing makes an
ended run active or an old document fresh but its end, and `Known` keeps the
victim's id from being taken again.

Every inductive invariant named here was evaluated by TLC, before it was proved,
over the states of a run's instance that satisfies the theorem's hypotheses;
`DeliveryInv`, `CloneInv` and `LockedIndex` are properties of the runs as well.

| Property | TLC | TLAPS |
|---|---|---|
| `TypeOK` of every component (`GuardTypeOK`, `CloneInv`); `Accounted`, `LedgerRowKept`, `DeadLetterExplained`, `DeliveryInv`, `LockedIndex`, `IndexNamesRuns` | yes | for every value of the constants |
| `ImplementsOutbox`, `ImplementsLogReader`, `ImplementsIndex` | yes | for every value of the constants |
| `EvictionOnlyOverBound`, `OrderKept`, `SetAsideAfterAnswer`, `SyncsDropNothing`, `FreshIsFresh`, `ServesWhatParses`, `ActiveKept`, `StoredOnceWhileStable` | yes | for every value of the constants |
| `OnlyRefusedSetAside` | without an outage or a new grant, one lost answer | without an outage or a new grant, answers lost below the threshold |
| `RefusalJustified` | also with an error and a crash | without errors; no threshold inside a call |
| `MutualExclusion`, `OwnerMutatesAlone` | two contenders, across lapses | any number of callers until a claim lapses, two across lapses |
| `RacingClaimPreserved` | two contenders, across lapses | two callers across lapses |
| `AuthorisedLeavesJournal`, `DeferredReleased`, `AcquireAnswers`, `EveryMessageDealtWith`, `EventuallyCurrent`, `EventuallyCollected` | yes | out of reach |

Liveness under fairness and ENABLED are out of the prover's reach, so the last row
stays with TLC and its bounds. `RefusalJustified` with I/O errors stays with TLC as
well: it holds only while there are fewer errors than attempts, because a tomb that
cannot be read is put back unseen, and a caller that meets such a leftover has met
nothing (with `MaxAttempts = 1` TLC finds the refusal after one error, with 2 after
two). What a recursive definition returns is provable here only by arguments over
numbers like the one for `Without`; modules with RECURSIVE operators are out of
reach, and there are none.

## 10. What is not modelled

- Payloads, lane and actor stamping, formats, logging, alarms and log rotation:
  no property depends on them. A malformed event is a type no request can be
  built for; a torn file is a set.
- The clock that steps back under the journal's sequence numbers, and a journal
  directory that is edited by hand (except the replay the reason file asks for).
- The persistent bus and the bounded runner below the answer they give.
- Of the guard, how a mutation is found in the text of a command and how its
  target is resolved. Of the consumer, the tables a message is routed to and
  messages that are not JSON. Of the clone sync, clones that are bare, detached or
  have no upstream, lab clones, whose default branch is never asked for again
  (`canonical_clone_sync.py:949`), tags, and a guard hook that refuses half a switch. Of
  session state, `set-active-run`, which no hook calls, and files that do not parse.
- Of the claim registry, which inode a late fill of a renamed heartbeat file hits is
  over-approximated by "the file at the path", and a tomb that such a fill rewrites is
  left out. The instance-id file decides nothing.
- That systemd does not restart a consumer that left cleanly on SIGTERM: whoever
  stopped it is taken to start it again.
- The daemons: their lifecycle is a hazard (`lib/delegation_daemon.py:809`: the
  handler of a signal waits for the loop it interrupted), which is a property of
  `socketserver`'s threads more than of the order of this code's steps.
- Most of the repository by size: skills, prompts, CI gates, schemas, dashboards,
  validators, injectors, routers, contract-declared nodes, the worktree pruner's
  predicate. One input decides one output, or the behaviour is that of a service
  they call; unit tests say more about them than a state machine would. This is
  why the models cover a small share of the lines.

## 11. Running it

`tlc -config <run>.cfg <module>.tla`, with

| Runs | Module |
|---|---|
| `emit_delivery`, `emit_upgrade` | `MCHookEmit` |
| `emit_liveness` | `MCHookEmitOrdering` |
| `claims_guard`, `claims_faults`, `guard_first_writer` | `MCPrGuard` |
| `claims_reap_race` | `MCPrClaims` |
| `actions_consumer`, `actions_failed_batch` | `MCAgentActions` |
| `clone_sync` | `MCCanonicalClone` |
| `session_state`, `session_end_other` | `MCSessionState` |

Each takes at most a few minutes with two workers. `tlapm <module>.tla` checks the
proofs of each of the eight modules whose name ends in `Proofs`. Definitions whose
comment starts with "Mutant of" are plausible bugs of the operator they name: put
in its place, each makes the run that PROJECT.json names fail.
