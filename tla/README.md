# A verification project for the orchestrator

The orchestrator runs AI coding agents ("workers") on local and remote machines.
A FastAPI server keeps one SQLite row per session, starts an agent for it in a
tmux window or in a PTY of a daemon on the remote host, streams its terminal to
browsers, gives the user files, notebooks and a browser beside it, and tries to
keep every session connected while networks fail, agents exit and the server
itself is restarted. This directory holds TLA+ models of the part where that is
hard, the TLC configurations that check them, and TLAPS proofs of most of the
safety properties. Paths below are relative to the repository root, where they start with
`session/`, `terminal/`, `api/`... to `orchestrator/`.

Contents: [inventory](#inventory), [modules](#modules-and-their-correspondence-to-the-code),
[runs](#runs), [bounds](#bounds), [fairness](#fairness), [proofs](#proofs),
[divergences](#divergences), [limits](#what-is-not-modelled), [plan](#plan).

## Inventory

`PROJECT.json` lists every component with its files. The ones that carry the
program's own logic:

| component | state it keeps | operations | interacts with |
|---|---|---|---|
| Status state machine `session/state_machine.py` | none | statuses, transition table, reconnectable states | read by routes and health checks |
| Reconnect pipelines `session/reconnect.py` | per-session locks, progress steps, backoff | `trigger_reconnect`, `reconnect_remote_worker`, `reconnect_local_worker` | rows, daemon, pool, tunnels, tmux |
| Health checks `session/health.py` | circuit breaker per host, backoff per session | check of one session (remote, local), bulk check with probe and peers, auto-reconnect | rows, daemon, tunnels, tmux, pipelines |
| Session routes `api/routes/sessions.py` | the rows | create (with a setup thread), delete, reconnect, pause, continue, stop, patch, send, forward tunnels | pipelines, locks, daemon, tmux |
| Terminals `api/ws_terminal.py` | locals of one WebSocket handler | stream a remote PTY, stream a local pane with drift correction, confirm an exit, trigger a reconnect | rows, daemon, stream pool |
| Stream pool `terminal/pty_stream.py` | a reader and consumers per pane | subscribe, unsubscribe, dispatch, eager restart | tmux, terminals |
| Daemon client `terminal/_rws_client.py` | forward tunnel, command socket, two locks | `execute`, `reconnect_tunnel`, `start`, PTY stream sockets | daemon |
| Client pool `terminal/_rws_pool.py` | one client per host, background starts, a backoff | get, background start, forced restart | client, pipeline |
| Daemon `terminal/_rws_daemon.py` | PTYs, stream connections, browsers, kernel installation; a PID file and a port | one handler per command, the start beside another daemon | agents, client |
| Reverse tunnels `session/tunnel.py` | registry, failure counts, PIDs in the rows | start, restart, stop, is_alive, recover | SSH, rows |
| Forward tunnels `session/tunnel.py` | a cache of the ssh processes | discover, create, close | SSH, browser views |
| Tunnel monitor `session/tunnel_monitor.py` | locals of one loop | check, probe, restart, mark disconnected | tunnels, rows |
| Browser view `browser/`, `api/ws_browser_view.py` | active views, DevTools sockets, a proxy and a remembered tab per session | start, stop, reopen, switch tabs, follow new tabs | Chrome, forwards |
| Notebook kernels `kernel/manager.py`, `api/ws_kernel.py` | kernel sessions, subscribers, message-to-cell map | start, execute, restart, shut down, install | jupyter, daemon |
| Files `api/routes/files.py` | caches of remote listings and contents | list, read, save, create, delete, move | daemon, the agent's own writes |
| Input `terminal/session.py`, `terminal/manager.py` | none | paste, Enter with retries, interrupt, trust prompt | the agent's input line |
| Backup `backup.py`, `api/routes/backup.py` | archives, a scheduled task | run, prune, restore | database connections |
| Start-up `core/lifecycle.py` | none | recover tunnels, migrate legacy rows | rows, tunnels |

Who runs concurrently: FastAPI route handlers in a thread pool, a background
thread per reconnect and per setup, the worker pool of the bulk health check,
WebSocket handlers on the event loop, the monitor and backup loops with their
executors, the CDP proxies in threads with loops of their own, the agents' hooks
calling back, and the remote host. What they share: the rows (no transaction
spans a read and the write that depends on it), the registry of reconnect locks,
the single command socket of a host, the pool of clients, the tunnel registry,
the remote ports, tmux windows and the input line of an agent.

What makes each part correct, and what is hard about it:

* **Reconnect**: one pipeline per session at a time; one agent per session; an
  agent that runs is re-used, never replaced; a lock always has a living owner.
  Hard: `locked()` is tested long before the lock is taken; a crash between
  creating a PTY and recording it; a listing, a kill or a create that is lost
  or executed twice. A local reconnect always ends in an exception.
* **Health checks**: a check never takes a running agent for dead; a session is
  never stuck. Hard: checks act on Session objects read earlier; a cycle spans
  minutes; breaker, backoff and the two-minute rule for "connecting" interact; a
  local check kills and re-creates the window a reconnect may be using.
* **Terminals**: a closing terminal never costs a session its agent; what a
  program wrote is shown, without gaps. Hard: history and live output come over
  two connections; readers end, are restarted and replaced by four parties.
* **Create and delete**: locks released by those who do not hold them and
  dropped from the registry must neither break exclusion nor stay held.
* **Daemon, client, pool**: a command runs at most twice, every call ends, the
  pool comes back to a server that works. Hard: two locks and a socket; checks
  outside the lock; a busy daemon looks like a dead one.
* **Tunnels**: the host of a session reaches the orchestrator again after any
  failure; checks of old entries do not undo new ones; no forward leaks.
* **Browsers**: no tab comes to belong to two sessions but by a user's switch to
  it; no browser runs that nobody can stop. Hard: three records of a session's
  tab are set after awaits; starts, stops and deletes of a view overlap.
* **Files, kernels, input, backup**: a save replaces nothing newer; a complete
  cell stays complete; a text is given once; once a backup succeeded there is one.

`PROJECT.json` lists forty hazards at the line where each bites, with the
properties that cover them. Three have none: the code loses the pre-disconnect
status, re-creates the agent of a deleted session and kills the tunnels of a
host's other sessions, see [divergences](#divergences).

## Modules and their correspondence to the code

```
SessionStatus <- Reconnect <- HealthCheck <- HealthCycle   AgentSlots
                           <- TerminalStream                 (abstract, refined
                           <- SessionLifecycle                by Reconnect)
HealthCycle, TerminalStream, SessionLifecycle <- SessionActors
RwsClient      RwsPool      ReverseTunnel <- TunnelMonitor
PtyDaemon      PaneStream   LocalWorker   ForwardTunnels <- BrowserView
BrowserTabs    RemoteBrowser   FileAccess   Kernels   AgentInput   Backup

Proofs: AgentSlotsProofs <- ReconnectProofs <- SessionLifecycleProofs
        SessionLifecycleProofs <- ObserverProofs (SessionActors)
        TransportProofs (TunnelMonitor, RwsClient, RwsPool)
        StreamProofs (PtyDaemon, PaneStream)
        BrowserProofs (RemoteBrowser, BrowserTabs, BrowserView)
        WorkbenchProofs (Kernels, FileAccess, AgentInput, Backup)
```

An arrow is EXTENDS: the modules on the right run their own actors beside all
the actors of the module they extend, so a property of a composed module is about
rows, locks and agents that all of them change. `MC*.tla` and `MC*_*.cfg`
instantiate them. Modules without common state are checked by one run: a
variable `part` (in MCHealthCycle `scenario`) is chosen at the start and says
which of them acts. A program counter (`pc`, `hpc`, `vpc`, or a field `step` or
`at` of a record per thread) names the next piece of code between two points
where another thread can interfere: a lock, an SQL statement, a network call, an
await, a sleep.

Sessions:

* **SessionStatus** - the statuses, the transition table, the reconnectable
  states; `Absent` stands for a row that is not there. The table is there for
  reference; the reconnect and health code does not consult it (see below).
* **Reconnect** - `status`, `ptyId`, `assigned` are the columns; `registry` and
  `locked` are `_reconnect_locks`, a lock object being `<<session, generation>>`
  because a delete drops the registered object while others still refer to it;
  `pty` and `owner` are the daemon's PTYs and their session tags. A thread goes
  through `Ask` (the caller read a reconnectable row), `TestLock`,
  `MarkConnecting`, `FetchLock`, `Acquire` or `AcquireTimeout` and the stages
  of the pipeline: host, tunnel and daemon, `CheckPty`, `Attach` or
  `KillOrphans`, `CreatePty`, `RecordPty`, `VerifyPty`, a second try after
  `CleanupStale`, `GiveUp`; then `Release` and `RecordSuccess` or
  `RecordFailure`. The daemon
  side: `CreatePtyTwice` is `execute()` repeating a command that ran,
  `CreateReplyLost` one whose answer did not come, `DaemonReaps` the loop that
  forgets exited children. Routes and hooks write statuses and tasks;
  `AgentDies`, `NetworkDown`, `NetworkUp`, `ServerRestart` are the environment.
  `unsure` is a history variable: the sessions for which a pipeline's kill did
  not reach the host or whose create ran twice; nothing the code knows at that
  point can tell it, so the properties exempt exactly those.
* **AgentSlots** - what `Reconnect` promises, without threads, locks, rows or a
  daemon: sessions are claimed and given back; agents are launched only in a
  claimed session in which none runs (or about which nobody can tell), and
  terminated only by its claimant; agents exit by themselves. The mapping:
  `running` is the live PTYs by session tag, `claimed` the sessions some thread
  is in the pipeline of, `doubtful` is `unsure`.
* **HealthCheck** - `_check_rws_pty_health` of one session from the Session
  object it was given, beside `Reconnect`.
* **HealthCycle** - `check_all_workers_health`: classification, circuit breaker,
  probe and peers, auto-reconnect, backoff, with the passing of time (a row
  that has been "connecting" for two minutes, a backoff window, a cooldown) as
  nondeterministic actions. `list` holds what the cycle read of each row at its
  start, the age of "connecting" included; it is compared and written over the
  row whatever became of it since.
* **TerminalStream** - `stream_remote_pty` from the row it read to the clearing
  of the row, and the reconnect a terminal triggers.
* **SessionLifecycle** - `create_session` with its setup thread, `delete_session`
  with its lock, which it may fail to get and releases anyway, also when the
  database raised and the row stays (`DeleteRowRaises`, noted in `kept`).
* **SessionActors** - all the modules above at once: `ActorsNext` is a step of
  the reconnect threads and routes, of a check, of the cycle, of a terminal, of a
  create or delete, or a restart, which ends them all; each leaves the locals of
  the others alone. What the cycle does beside checks it did not start itself
  (`Regathers`) is weaker than what `QueryPool` of `HealthCycle` waits for.
* **LocalWorker** - one worker in a tmux window: `tmux` is what the window holds
  (nothing, a shell, a launch under way, an agent), `doing` the progress of the
  periodic check and of requests. Checks look for the agent, kill and renew the
  window, mark the row; reconnects launch and always end in `VerifyRaises`.

Connections:

* **RwsClient** - `execute`, `_ensure_connected`, `_connect_command_socket`,
  `reconnect_tunnel` over TCP streams; a message is named by who sent it, the
  daemon answers one line per line, in order.
* **RwsPool** - `pool` is `_server_pool` of one host, `server` the clients with
  tunnel and socket, `daemon`, `pidFile` and the port's owner the remote side.
  Users look, remove a stale server, start one in the background (`Bg`), which
  deploys: it reads the PID file, pings, defers or makes an upgrade, kills the
  port's owner, forks. `Forces` and `Reconnects` are force_restart_server and
  `_reconnect_rws_for_host`.
* **ReverseTunnel** - the registry and the SSH processes; one process of a host
  can hold the remote port, and the sshd of a dead client may keep it. `failures`
  saturates at the limit. A PID is used again when nothing refers to it.
* **TunnelMonitor** - one cycle of the monitor, action by action, beside
  reconnects and health checks that restart the same tunnel.
* **ForwardTunnels** - `ssh` are the processes, `found` the five-second cache.
  A route chooses a port and spawns in two steps; the event loop does both.
* **PtyDaemon** - the output of a PTY is numbered chunks; a chunk goes to the
  ring buffer and to every stream connection. `entries` is `pty_stream_conns`,
  `socket` the bytes under way. A terminal connects, reads the acknowledgment,
  fetches the history and reads the stream; the daemon drops a connection
  whose socket is full, and exits when idle.
* **PaneStream** - `registered` and `consumers` are the pool, `reader` the
  reader objects, `ended` a reader whose end has not been handled yet, `window`
  the pane, the screen it shows and the reader its `cat` feeds. A handler
  flushes, syncs (capture, hash, send) and runs the drift correction.

Around the sessions:

* **BrowserView** (EXTENDS ForwardTunnels) - the registry of views of remote
  Chromes, their DevTools sockets (`link`), requests that start, stop and
  overlap (`req`), deletes at any point of them, and dashboard clients (`client`).
  `late` and `dropped` note what such overlaps leave behind.
* **BrowserTabs** - local sessions share a Chrome: the proxy's target, the
  remembered tab and the view's tab of each, set by the proxy's thread and
  the event loop. A user may switch to, or close, any tab; `strayed` are the
  sessions whose view was switched to a tab that was not made for them.
* **RemoteBrowser** - the daemon's `entry` per session and its `process`es;
  a browser that exited is defunct until a later subprocess call reaps it.
* **FileAccess** - a file is the number of the write that made it; a request
  stats, reads, caches, checks and replaces in separate steps where the code
  does, in one where the daemon's handler does.
* **Kernels** - kernel sessions, the two channels with their readers, the
  WebSockets' subscriptions, and the installation shared by notebooks. Restarts
  of one kernel by two WebSockets overlap (`restarts`).
* **AgentInput** - the agent's input `line` and what was `submitted`, for an agent
  in a tmux pane; senders paste, try other means when tmux refuses, press Enter,
  verify and press again; others type, interrupt, answer. A tmux command that
  does not answer in 10 s may have typed the text or not; the request then fails.
  (An agent behind a daemon gets its input by one `execute()`, which sends it
  again after a lost connection: see `ExecutedAtMostTwice`.)
* **Backup** - `archives` on disk, one `backup` per thread, `file` and `handle`
  the database file and the connections that have it, or an unlinked WAL, open.
  `overtaken`: a backup found as many archives newer than its own as are kept.

Several definitions are preceded by the comment "Mutant": they are plausible
bugs of the definition that follows, used to see that each property notices.

## Runs

| run | shows |
|---|---|
| MCReconnect_safety | Two threads reconnect one session while an agent dies twice, the network fails, a hook or route writes and the server restarts: `OnePipelinePerSession`, `OneAgentPerSession`, `NoAbandonedLock`; `OrphanReused`: a pipeline that got an answer to its listing never kills a running agent; `ImplementsAgentSlots`: every step is a step of the abstract specification or none. |
| MCSessionActors_safety | The actors beside the reconnects, each kind alone and a check, a terminal and a delete of one session together. `CheckSeesTheAgent`: a check concludes "PTY dead or gone" only when no agent of the session runs, however old its Session object (it holds because the daemon drops exited children before it lists, and fails at once if it does not). `RowPtyIsOwn`, with two sessions of a host. `AgentSurvivesTerminals`: a terminal may erase a PTY id a reconnect just wrote, but the agent is found again. `OnePipelineWhileRowExists`, `NoLockSurvivesItsHolder` and `OneAgentWhileRowExists` with two deletes, which may fail. In the part "cycle" two sessions of a host, so that the outcome of one session's probe is applied to the other. Each part is a subset of the steps of `SessionActors`. |
| MCHealthCycle_recovers | `AlwaysRecovers`: after an outage (or a death and a restart) at any point of a cycle or reconnect the session is connected with a running agent again. One session: two are more than 12 million states, out of reach of a liveness check, so that the peers of a failed probe recover is not covered; that they keep their agents is, above. |
| MCTunnelMonitor_recovers | `TunnelRecovers`: the remote port reaches the orchestrator infinitely often; `CleanupSparesTheNew`: a check of a dead tunnel never removes the entry of its successor. |
| MCRemote_recovers | Two threads on one client: `ExecutedAtMostTwice`, `CallsEnd` (no call waits for ever on the two locks and the socket). The pool: `PoolComesBack`, a server that reaches a running daemon is offered again and again. |
| MCStreams_recovers | Remote PTYs: `LiveHasNoGap`, `HistoryMeetsLive`, `OutputArrives`. Local panes: `ReaderComesBack`, `ViewCatchesUp`, with the exceptions listed under divergences. Local workers: `LocalRecovers`. |
| MCWorkbench_safety | Browser views (`NoForwardLeaks`), tabs of local sessions (`StrayingSharesOnlyOwnTabs`), the daemon's browsers (`NoBrowserEscapes`), notebooks (`CompleteIsLast`, which says nothing of output that is lost because the reply is read first, and `OneInstallThread`), input (`GivenAtMostOnce`), backups (`KeepsABackup`), readers of a pane two terminals share (`NoStrayReader`, `ReaderHasConsumer`), files on a remote host (`SavesReplaceNothingNewer`). |
| MCReconnect_keeps_agents, MCReverseTunnel_orphans, MCRwsClient_replies, MCRwsPool_keeps_agents, MCBackup_restore | violations: see Divergences. |

Each passing run also checks type invariants. All configurations say
CHECK_DEADLOCK FALSE: the bounded environments run out of faults and requests,
and a program whose threads are all idle is at rest. Progress is checked as
liveness instead.

## Bounds

Every bound is a constant. Faults and requests: `MaxOutages`, `MaxDeaths`,
`MaxRestarts`, `MaxFaults`, `MaxTroubles`, `MaxSpent`, `MaxBreaks`, `MaxOps`
(writes by routes and hooks), `MaxCalls`, `MaxChecks`, `MaxEvents`, `MaxTurns`,
`MaxRuns`, `MaxTime`, `MaxFailures` (of backups). Objects: `MaxSocks`,
`MaxPanes`, `MaxReaders`, `MaxBrowsers`, `MaxKernels`, `MaxVersion`, `MaxOutput`
and `MaxChunks` (what a program writes). Limits of the code, made small:
`MaxAttempts` and, for tunnels, `MaxFailures` saturate counters the code only
compares (the backoff exponent is capped; the monitor compares with 5, the model
with 2); `FailureThreshold` is 2 where the code has 3; `RingMax` and `SocketMax`
stand for a ring buffer and a socket buffer that are full; `MaxBuffer` for the
size at which a terminal drops its buffer for a sync; `Retention` is 2 archives,
and as many runs may fail; `MaxEnters` is the code's 3.

A recovery needs one fault to be set off and the races need two threads; `Ptys`,
`Procs` and `Daemons` leave room for the one that was there, the one that
replaces it and one created by mistake. When no unused one is left, creating
waits: with the bounds on deaths and restarts that is not reached before the
interesting part. The pool of MCRemote_recovers has one user beside its background
thread and the forced restarts; the client there has two callers. Two `Links`: at
most two DevTools sockets are open or held.
Pages of the local browser: one more than the sessions hold, so that a
replacement can meet what it replaces. Threads are used again for later requests.
The tunnel runs use one session per host, as the design has it
(docs/design_logs/010), and probe in every cycle (`ProbeEvery = 1`; the code every
fifth). Three chunks overrun the ring buffer of one and the socket of two.

The combined runs bound single parts further, in the MC module, by a constraint
on the next state. In MCSessionActors: two faults in all (`TwoFaults`); one
reconnect thread and one of the two deleters when all kinds of actors interleave
(`OneThread`, `OneDelete`); two PTYs where no agent dies (`AtMostPtys`); the lock
object is dropped once or twice (`TwoLocks`), after a restart one delete at a
time runs, and beside the delete that fails there is no other, no restart and one
PTY; deletes fail when they interleave
with reconnects, not with all kinds of actors; the cycle
runs without checks of other requests and goes on when its own have ended, as its
executor joins them (`PoolJoined`). In
MCStreams: output and faults share a budget and the behaviour ends when the third
reader would be needed (`PaneBound`); heartbeats and cut tunnels occur with one
terminal (`DaemonBound`); the last of a local worker's troubles comes while no
request is under way or while one waits for its agent (`LocalBound`), the earlier
ones at any time, so every trouble still meets every stage of a request. In
MCWorkbench: editors open one path, the second is
where it moves (`FileBound`); connections are open beside a restore or backups are
made, not both (`BackupBound`); kernels start after the installation's thread has
ended (`KernelBound`); of two terminals of a quiet pane one at a time makes a sync
(`PaneBound`). The last three only cut interleavings of steps on disjoint state.

Symmetry is used for safety only: the threads of MCReconnect_safety and
MCSessionActors_safety, and in MCWorkbench_safety the sessions, requests,
notebooks, senders and watchers, to which the configuration gives the same two
names so that one permutation serves every part. PTYs, views and links are not
permuted: an unused one is taken with CHOOSE.

## Fairness

Safety runs assume none. Liveness runs assume:

* started threads are scheduled, and every blocking call has a timeout (lock
  acquires 5 and 10 s, socket operations, subprocesses): weak fairness of each
  thread's next step, of each event-loop handler and of the daemon's loop
  (`Fairness`, `RFairness`, `PoolFairness`, `PaneFairness`, `DaemonFairness`,
  `LocalFairness`);
* the health cycle is run again and again: the dashboard calls
  health-check-all when it opens and every five minutes
  (`frontend/src/context/AppContext.tsx:437-467`). The server has no timer of
  its own: with no browser open nothing recovers, and neither `AlwaysRecovers`
  nor `LocalRecovers` holds. Likewise `PoolComesBack` assumes that somebody asks
  for a server (`KeepsAsking`); the pool does nothing by itself;
* time passes: rows age, backoff windows and cooldowns end, readers grow stale;
* outages end, a busy daemon answers again, and the sshd of a dead client
  notices in the end;
* for tunnels, strong fairness of `Connects`: handshakes sometimes finish before
  the process is killed by the next restart. The code waits 3 s and the monitor
  a minute; a network on which no handshake ever finishes in that time has no
  tunnel under any program. For local workers likewise strong fairness of
  `AgentStarts`: `claude -r` sometimes starts before a check renews its window
  (the update and install steps before it can take longer than a cycle; an
  install that always does never ends, see divergences).

Where one run holds several parts, the fairness of those not chosen asks
nothing: none of their fair actions is enabled in their initial states.

## Proofs

TLAPS proves every safety property the passing runs check, for every value of
the constants. `PROJECT.json` lists the theorems. The assumptions are those of
the modules, named where the constants are declared: null values are none of the
objects (`NoPtyAssumption`, `NoProcAssumption`, `CallersAssumption`,
`TabAssumption`), bounds are naturals (`BoundsAssumption`, `TunnelBounds`,
`MonitorAssumption`, `ClientBounds`, `KernelBounds`, `PaneStreamAssumption`,
`BackupBounds`, `EventsAssumption`, `PtyDaemonAssumption`, `PoolAssumption`),
ports and process ids are positive and there
is a largest process id (`PortsAssumption`, `SshAssumption`), Chrome's port is one
of the services (`ViewAssumption`), and there are sessions, processes, callers,
paths and PTYs to speak of (`SessionsAssumption`, `TunnelBounds`,
`CallersAssumption`, `PathsAssumption`, `PtyDaemonAssumption`).
The monitor is one of the tunnel manager's threads and not the only one, and
finitely many threads run backups. One theorem, EveryForwardIsHeld, has a
hypothesis of its own.

No property below is inductive as it stands, except those of the type; what is
added to each, and why, is the argument of its proof.

**ReconnectProofs** (`Reconnect`):

* *TypeCorrect* - `Spec => []TypeOK`.
* *MutualExclusion*, `OnePipelinePerSession`, and *NoLockAbandoned*,
  `NoAbandonedLock`. Exclusion needs that a thread in the pipeline holds the
  lock of its session *and that it is the registered generation*, or two threads
  could hold two lock objects of one session. `LocksInv` adds `LocksOwned`,
  which says this of every thread from the moment it fetched the lock.
* *AtMostOneAgent*, `OneAgentPerSession`. The strengthening `AgentsInv` says of
  every thread what it may rely on (`Knows`): one that is about to create an
  agent knows that its session has none, one that created or found one knows
  which; that rests on `LocksInv`, as only the thread in the pipeline creates or
  kills agents of the session. It also carries `PtysOwned` and
  `NoCorpseBesideAgent`: a dead PTY is not listed beside a live one of the
  session, because the daemon reaps before it creates.
* *OrphansAreReused* - `Spec => OrphanReused`, an action property, from the same
  invariant: a thread at "kill" whose listing was answered knows that there is
  nothing to kill.
* *Refinement* - `Spec => ImplementsAgentSlots`: initial states map to initial
  states, every action to an action of AgentSlots or a stutter. The step that
  creates needs `AgentsInv` (nothing of the session runs, or it is in doubt),
  those that acquire and release need `LocksInv` (the session was not claimed,
  respectively nobody else claims it).

**AgentSlotsProofs**: *SlotsHaveOneAgent*, of the abstract specification alone: a
session about which nothing is in doubt has at most one agent running.

**SessionLifecycleProofs** (`SessionLifecycle`): *LifecycleTypes*;
*LocksDieWithTheirHolders*, `NoLockSurvivesItsHolder`;
*PipelinesExcludeWhileRowExists*, `OnePipelineWhileRowExists`; and
*OneAgentBesideDeletes*, `OneAgentWhileRowExists`. A delete drops the
lock object from the registry and releases a lock it may not hold, so
`LocksInv` is not an invariant here. `RowInv` is what is left of it:
`RowLocksOwned`, `LocksOwned` for the threads of sessions whose row exists and
was not kept by a delete that failed (`kept`, see divergences);
`RowGoesFirst`, a delete that releases or drops a lock has removed the row or
kept it that way; and
`RowsHandedOut`, a row that is gone does not come back (new sessions have new
ids), or the pipelines of the old one would meet those of the new. `AgentsInv` is
for the same reason stated for sessions that are `Certain`: not in doubt, with
a row, and not kept. A session that loses its row never gets certain again, so
pipelines that go on beside a delete, two of them perhaps, are outside of what
anything relies on. A row is created with an id nothing was launched for,
`AgentsHandedOut`. The delete itself only ends PTYs.

**ObserverProofs** (`HealthCheck`, `HealthCycle`, `TerminalStream`, and all of them
with `SessionLifecycle` in `SessionActors`): `Bystands` describes what checks and
terminals do to the state of the pipelines: rows get statuses and PTY
ids that belong to their session or none, the daemon reaps what has died,
nothing else. Every such step keeps `LocksInv` and `AgentsInv`
and is a stutter of AgentSlots. Beside one kind of observer:

* *RowsNameTheirOwnAgent*, `RowPtyIsOwn`, from `HInv`: beside those two
  invariants, `ChecksOwned`, the PTY ids in the old Session object of a check
  and in its own listing are tagged with its session, also when their process
  has died since. *CycleRowsOwn* says the same of the cycle: `CycleInv` adds that
  its list, read once for all its checks, names the sessions' own PTYs
  (`ListOwned`) and that only listed rows are classified (`Listed`).
* *ChecksSeeTheAgent*, the action property `CheckSeesTheAgent`: at the query,
  `NoCorpseBesideAgent` and `RowPtyIsOwn` make "PTY dead" mean that nothing
  runs, unless the session is in doubt.
* *TerminalsSpareAgents*, the action property `AgentSurvivesTerminals`, and
  *ChecksRefine*, *CycleRefines*, *TerminalsRefine*: reconnects beside checks,
  the cycle, or terminals still implement AgentSlots. *CheckTypesCorrect*,
  *CycleTypesCorrect*, *TerminalTypesCorrect*: their types.

And of everything at once, for `ActorsSpec`, from `ActorsInv`: the invariant of
the lifecycle (`LifeInv`) with those of the checks, the cycle and the terminals.
Its step lemma has a step per kind of actor: a bystander keeps `LifeInv`
(`LifeBeside`), and whatever lets a PTY id go on belonging to its session
(`OwnLasts`) keeps what checks and cycle hold (`ChecksBeside`, `CycleBeside`).

* *ActorsTypesCorrect*, `ActorsTypeOK`; *ActorsRowsOwn*, `RowPtyIsOwn`;
  *ActorsExclude*, `OnePipelineWhileRowExists`; *ActorsReleaseLocks*,
  `NoLockSurvivesItsHolder`; *ActorsKeepOneAgent*, `OneAgentWhileRowExists`;
  *ActorsSpareAgents*, `AgentSurvivesTerminals`.
* *ActorsSeeTheAgent*: `CheckSeesTheAgent` for sessions that have a row.

`ImplementsAgentSlots` is not claimed of `ActorsSpec`, as it does not hold there:
beside a delete two pipelines of a session without a row may run at once, and
each may launch an agent (see divergences).

**TransportProofs** (`TunnelMonitor` with `ReverseTunnel`, `RwsClient`, `RwsPool`):

* *CleanupIsSafe* and *MonitoredCleanupIsSafe*, the action property
  `CleanupSparesTheNew`, of the tunnel manager alone and under the monitor. A
  cleanup compares the registered process with one it saw dead some steps ago;
  `CleanupOfDead` says that this one is still dead, which holds because the
  system gives its PID to nobody while the check refers to it.
  *TunnelTypesCorrect*, *MonitorTypesCorrect*: the types.
* *CommandsRunTwice*, `ExecutedAtMostTwice`. The daemon executes what is still in
  a connection whose client has long gone, so what was executed and what is
  pending on any connection must be counted together. `ExecutedWithinBudget`:
  executions and pending copies of a caller's current command are at most what
  its loop variable allows, one less while this attempt has not sent it.
  `CallsStarted` says that no message of a later call is on the wire, so a new
  call starts with none pending; `CallersSound` names the connection of a thread
  that waits. Copies are counted without a cardinality: none, at most one or at
  most two places hold the command. *ClientTypesCorrect*: the types.
* *OneDaemonAnswers*, of the pool alone: one process at most listens on the
  daemon's port and every agent is a child of it (`OneDaemonListens`), although
  PID files are removed under running daemons and daemons are forked beside them.
  *RemoteTypesCorrect*, `RemoteTypeOK`: the types of client and pool.
  `PoolInv` adds that a step which stops or installs a client has one in hand and
  one that judges a daemon has its PID (`Equipped`).

**StreamProofs** (`PtyDaemon`, `PaneStream`):

* *DaemonTypeCorrect*, `DaemonTypeOK`; *LiveOutputHasNoGap*, `LiveHasNoGap`;
  *HistoryMeetsLiveOutput*, `HistoryMeetsLive`. A chunk is at different times in
  the daemon's ring buffer, in a socket among heartbeats, in a terminal's buffer
  and on its screen. `StreamInv` puts them in one row (`OneRow`): there are
  counts `a <= l <= m <= b` such that the screen shows the chunks after `a` up to
  `l`, the buffer has those up to `m` and the socket, heartbeats apart, those up
  to `b`, which is all the daemon has read while the terminal is attached; and
  `a` is not beyond the end of the fetched history. Each step moves one of these
  borders. `EndsInLast` says that the ring buffer ends with what was read last,
  `Greeted` and `Unanswered` that an acknowledgement comes first and once. That
  taking the heartbeats out of a socket leaves the chunks in their order is a
  lemma about `Without`, which gives the items that stay by their places.
* *ReadersAreInThePool*, `NoStrayReader`, and *ReadersHaveConsumers*,
  `ReaderHasConsumer`, together inductive with the types of the pool of readers
  and that windows and handlers name panes (`PaneInv`).

**BrowserProofs** (`RemoteBrowser`, `BrowserTabs`, `BrowserView` with
`ForwardTunnels`): *BrowsersStayKnown*,
`NoBrowserEscapes` with `BrowserInv`: reaping touches defunct processes only, and
an entry is dropped only when its process does not run.
*LoyalSessionsStaySeparate*,
`StrayingSharesOnlyOwnTabs`: three records of a session's tab are set by two
threads after awaits, and when a proxy makes a tab in place of one that is gone,
whoever remembered the old one remembers the new, be it another session.
`LoyalNameOwn` therefore lets a session that did not stray name a tab made for
one that did, and `LoyalAreApart` says that no two such sessions name one tab, in
their records or in a call under way, and that a tab a call is about to publish
is named by nobody else; tabs are made once (`NamedWereMade`, `CallsMakeOwn`).
*TabTypesCorrect*: the types.
*EveryForwardIsHeld*, `NoForwardLeaks`, assuming `Cdp \notin Asked`: nobody but
the views asks for forwards to Chrome (one that a client of the tunnel routes
asked for is its own to close). `FwdInv` says that, until two processes got one
port, ports are told apart by their process and a cache that is not empty knows
every process that lives, so closing a port ends what is behind it; this
rests on every spawn emptying the cache. `ForwardsHeld` is sharper than the
property: a request that starts the browser has closed its port and does not
count. `PortsTaken`: a request holds a port from the moment it has a forward
until it closes it or hands it to a view; `dropped` are the ports of views that
another start registered over, which nobody closes. *ViewTypesCorrect*: the types.

**WorkbenchProofs** (`Kernels`, `FileAccess`, `AgentInput`, `Backup`):

* *OneInstallerAtATime*, `OneInstallThread`: the flag is set exactly while the
  thread lives (`ActiveWhileThread`). *NothingAfterCompletion*,
  `CompleteIsLast`: `CellsOpen`, a message is in one kernel's map only
  until its completion was sent, and a new execution's message is in none.
* *SavesSpareTheNewer*, the action property `SavesReplaceNothingNewer` on remote
  hosts. `FileInv` says of every content an editor or the cache has that its
  time is not later than its version (`Paired`): a save that knows a time as new
  as the file's has seen the file. It uses that the daemon runs one handler at
  a time (`RemoteSound`), so nothing but the agent changes a file between
  the check and the replacement.
* *TextsAreGivenOnce*, `GivenAtMostOnce`: a text is in the line or submitted,
  never in both or twice (`OnceInLine`, `NotBoth`, `OnceSubmitted`), and nowhere
  as long as its request may still bring it (`TextsBrought`): a request goes on
  to other means only after tmux refused the one before, which typed nothing.
* *ABackupIsKept*, `KeepsABackup`, for every retention and any number of failures
  and overlaps. `DoomedAreOlder` says that some complete archive is newer than
  everything on any list to remove, however old the lists are. It rests on
  `ListedHaveNewer` and `GoneHaveNewer`: what is listed, and an archive that went
  before its backup listed, has as many newer names as are kept; so a backup that
  is not `overtaken` by that many has its own archive, complete (`OwnNames`), and
  lists only older ones. That the number of newer names does not shrink when
  archives are removed, as those that are have that many newer themselves, is an
  argument along the order of the names. Two exceptions are real losses: two
  backups that began in one second write one file (`clash`), and a backup before
  whose listing as many others were begun as are kept, none of which need be
  complete, may remove the last complete archive (`overtaken`).

Every step lemma has one step per action. What stays with TLC:

* liveness: `AlwaysRecovers`, `TunnelRecovers`, `CallsEnd`, `PoolComesBack`,
  `OutputArrives`, `ReaderComesBack`, `ViewCatchesUp`, `LocalRecovers`.
  Fairness and ENABLED are out of the prover's reach;
* what is false: the violation runs.

## Divergences

Where the code does not do what its documentation, comments or tests say. Five
are kept as violation runs:

* **MCReconnect_keeps_agents** - a `pty_list` that raised is treated like an
  empty one (`session/reconnect.py:980-981`), and the running agent is killed
  over SSH (1022). docs/learnings/008:31: "Never destroy remote resources to
  recover from local connection failures."
* **MCReverseTunnel_orphans** - `restart_tunnel` "Holds the internal lock across
  stop+start to prevent concurrent restarts from creating orphaned SSH
  processes" (`session/tunnel.py:782-783`); it holds it for the pop (787-788).
  The orphan lives until some later start kills all tunnels of the host.
* **MCRwsClient_replies** - `execute` "uses a lock to serialize access to the
  command socket" (`terminal/_rws_client.py:312`); a new socket is installed and
  pinged outside it (270-276), so another thread can read the pong as its answer.
* **MCRwsPool_keeps_agents** - the pool does "NOT kill the daemon - it may have
  active PTYs with running Claude sessions" (`terminal/_rws_pool.py:147-148`); a
  daemon that is too busy to answer the ping of the next deployment loses its PID
  file (`terminal/_rws_daemon.py:1510-1519`), and is then killed as the port's
  owner (1387-1438).
* **MCBackup_restore** - "no open handles at this point"
  (`api/routes/backup.py:455`): only the shared connection was closed. One of
  another request keeps the old WAL and writes it into the restored file.

Others were met while modelling. The modules behave as the code does, and a
property exempts what they break.

Remote sessions:

* The transition table is "consistent status management across the codebase"
  (`session/state_machine.py:4`); the pipeline writes statuses without it
  (`reconnect.py:1049`), a "disconnected" row goes straight to "idle".
* `_recovery_status` "preserves blocked" (`reconnect.py:51-52`) but reads the
  status after `trigger_reconnect` has overwritten it (1590, 61).
* Giving up is to let "the backoff" prevent oscillation (`reconnect.py:1093-1094`);
  the pipeline returns normally and the backoff is reset (1615).
* A check's dead-PTY branch clears the PTY id a concurrent reconnect just
  recorded (`health.py:843`); docs/design_logs/test_plan_remote_architecture.md:725-726
  expects no conflicting updates. CheckSeesTheAgent is what still holds.
* An unreachable host is recorded as "disconnected" (`health.py:895`; the test
  plan, line 720, says otherwise).
* Peers are failed without a check as "Host unreachable" (`health.py:1171`) also
  when the probed session merely had no agent.
* A terminal compares and clears in two steps (`ws_terminal.py:997-1003`; comment
  at 985-986).
* An exit that the daemon has reaped is taken for a transient loss
  (`ws_terminal.py:959-966`).
* A leftover "failed:" step counts as a running reconnect (`ws_terminal.py:668`,
  696): the client is told to keep retrying.
* A reconnect that was waiting while its session was deleted re-creates the
  agent (`reconnect.py:1155`; comment at `api/routes/sessions.py:695-696`).
* The per-session lock "prevents concurrent reconnects" (`session/reconnect.py:7`).
  `delete_session` drops it from the registry in a `finally`
  (`api/routes/sessions.py:703-708`) even when `repo.delete_session` (842) raised
  and the session is still there: a reconnect that runs or waits and the next one
  have different locks, and two pipelines of one session run at once. Sessions
  this happened to are `kept`, which `OnePipelineWhileRowExists` exempts and
  `OneAgentWhileRowExists` counts as in doubt.
* The setup reads a key that does not exist, "skip_preferences" for
  "skip_permissions" (`sessions.py:535` and 620; keys at 206 and 213), so a new
  remote session always starts "disconnected", and a new local one, whose branch
  is to "deploy scripts and launch agent" (590), launches nothing.
* `_kill_orphan_tunnels` kills "untracked" tunnels (`tunnel.py:556`), in fact all
  of the host, registered ones of its other sessions included.
* After `MAX_CONSECUTIVE_FAILURES` the monitor is to "mark the session as error"
  (`tunnel.py:462-463`); it marks it "disconnected" (`tunnel_monitor.py:140`),
  which is what lets the health cycle retry - TunnelRecovers depends on it.
* A client in the pool is overwritten by a background start or a forced restart
  that began before it, and never stopped.
* Several threads that create forwards may choose one port; `close_tunnel` of one
  may then kill the other, which `NoForwardLeaks` exempts (`clashed`).

Local sessions:

* Status checks "just check status without sending commands"
  (`sessions.py:1207`); the check of a local worker kills and re-creates its
  window (`health.py:665-692`), also of one whose agent is still being installed,
  and of a worker deleted meanwhile.
* `reconnect_local_worker` calls `_verify_session_started`, which nothing defines
  (`reconnect.py:1478`, 1500): every local reconnect fails after launching the
  agent. LocalRecovers says why it works nevertheless.
* The agent is given `.claude/settings.json` (`providers/runtimes/claude.py:233`);
  deployment writes `configs/settings.json` (`agents/deploy.py:735-738`).
* Drift correction "provides ground-truth sync even if streaming is active"
  (`ws_terminal.py:477`). It skips the pane-change check of an idle pane, repairs
  the pipe but not what was lost every 60 s, and skips a sync whose hash did not
  change; `ViewCatchesUp` exempts these cases, and no other: the handler of a pane
  that it does not take for idle must notice that the window was made anew.
* A reader that was stopped removes whichever reader is registered when its end
  is handled.

Around the sessions:

* The daemon is to "Clean up dead browsers" (`_rws_daemon.py:1619`) with a test
  that a defunct Chrome passes, until a later subprocess call reaps it.
* `pty_stream_conns` keeps entries of a PTY that was cleaned up, so the daemon
  does not exit for inactivity; the last output of a reaped child is dropped.
* The proxies of local sessions are there so that "each Playwright MCP only sees
  its own tab" (`browser/cdp_worker_proxy.py:9`). `switchTab` takes any target of
  the Chrome they share (`browser/cdp_proxy.py:1247-1253`), and closing the tab
  that is shown goes to the first other page, whoever's it is (1263-1271);
  `switch_to_tab` makes it the session's remembered tab and its proxy's target
  (1178-1185). One click, and two agents work in one tab; when it closes, the
  proxy gives both of them the tab it makes instead.
  `StrayingSharesOnlyOwnTabs` says what is left: it takes such a switch.
* `start_browser_view` is to raise "Browser view already active for this session."
  (`browser/cdp_proxy.py:343`); it tests this (346) before its awaits and registers
  after them (523). Of two overlapping starts of one session the slower overwrites
  the view of the faster, whose forward and socket nobody closes. `NoForwardLeaks`
  exempts these forwards (`dropped`) and the views of sessions that were deleted
  during a start (`late`).
* `monitor_tabs` is "Non-destructive: never closes tabs" (`cdp_proxy.py:1055`); the
  handler that receives its answer closes the old tab. Two clients of a view
  read from one DevTools socket.
* Deleting a session in a thread drops its view without closing the socket or
  tab; a start that is under way then registers a view of a deleted session.
* A remote read that was under way during a save puts the content before it
  back into the cache, for two minutes; deleting and moving remote files do not
  touch the cache (`files.py:1102`, 1170). The conflict check still holds.
* On a local directory stat and read are steps of concurrent threads, and files
  that are moved in between defeat the check: a read takes the time of `a` at its
  second version, `a` is moved away and an older `b` to `a`, the content read is
  that of `b`, `a` is moved back, and the save finds the time it knows and replaces
  a version its editor never saw. TLC finds this with three paths; so
  `SavesReplaceNothingNewer` is stated for remote hosts, where the daemon reads
  content and time in one handler.
 two notebooks that wait for one installation take the
  result from each other.
* Texts of two senders of one agent are submitted as one message; the test
  whether a message was sent may report success for a short one that is stuck.
* Archives are written in place: an incomplete one counts for the retention, two
  runs of one second write one file, an overlapping pruning may delete the
  archive that was just completed, or, for a backup overtaken by as many as are
  kept, the last complete one; KeepsABackup states what is left.
* A check takes a row for "connecting" since two minutes from the list of the
  cycle's start and writes "disconnected" over whatever was written since
  (`health.py:1048-1058`), also over the status of a reconnect that has succeeded.

## What is not modelled

Of the modelled components: config deployment, deferral while a user types,
detection of the work directory, keyboard input and resizing of remote
terminals, frames and mouse input of browser views, the kernel relay and
environment setup of the daemon, codex and gemini agents. Sessions of several
hosts do not interact except through thread pools. In `HealthCheck` and
`HealthCycle` the tunnel check is left out (it is in `TunnelMonitor`), and
`_kill_orphan_tunnels` acts at once (`ps`, SIGTERM and the SIGKILL a second
later are one step). A Popen that fails (`tunnel.py:612`) is not modelled.
Tunnel probes err only as the port does. `AgentInput` has tmux panes only.
`RwsPool` and `Reconnect` are not
composed: in `Reconnect` the daemon is there while the host is reachable, and a
daemon replaced with its agents is their death.

Whole components left out, with the reason, are listed in PROJECT.json: overlay
CLIs, whose streaming is that of any other window; single-request GitHub and
database operations, the activity tracker, subprocess wrappers, the frontend and
the desktop shell.

## Plan

Later work, most important first:

1. **RwsPool composed with Reconnect**, so that a deployment that kills the
   daemon meets a pipeline that is listing its PTYs.
2. **SessionLifecycle** with the tunnel a delete stops; **TaskBoard** (index
   allocation, assignment and status); **HumanTracker**, **InteractiveCli**.
3. Two sessions per host in `TunnelMonitor`, and in a liveness run of the health
   cycle with a coarser model of the pipeline; two users of a pool.
