# A TLA+ model of shell-remote

shell-remote gives browsers and scripts access to machines ("agents") behind NAT. One *relay*
(`src/src/relay/`) keeps the sessions; an *agent* (`src/src/agent/`) registers with it over HTTP, keeps a
downlink open (`GET /agent/events`, server-sent events), answers with POSTs, and sends heartbeats. Browsers
hold an event stream of their own. Nothing is stored on the relay's disk but settings, recordings and
artifacts: a relay that restarts knows no session. Everything runs as tokio tasks over maps, each behind a
lock of its own, and most operations need several maps: what goes wrong here goes wrong *between* two locks,
two tasks, or two processes.

This directory holds the specifications of that code (`*.tla`), the instances TLC checks (`MC*.tla`, `*.cfg`),
machine-checked proofs (`*Proofs.tla`, section 5), and `PROJECT.json`, which lists components, runs, mutants, the lines each definition stands for, findings, hazards and theorems.

    tlc -workers 2 -config RelayPlane_safety.cfg MCRelayPlane.tla     # one run
    for m in *Proofs.tla; do tlapm $m; done                           # the proofs

Contents: [1 Inventory](#1-inventory) · [2 Modules](#2-modules-and-the-code) ·
[3 Runs](#3-runs-bounds-and-what-they-show) · [4 Fairness](#4-fairness) · [5 Proofs](#5-proofs) ·
[6 Findings](#6-findings) · [7 Also seen](#7-also-seen-while-modelling) · [8 Not modelled](#8-what-is-not-modelled) ·
[9 Plan](#9-plan)

## 1 Inventory

Files are under `src/src/`. After each name, the module that models it; where there is none, section 8 says why.

### The relay

| Component | State | Operations | What makes it correct |
|---|---|---|---|
| **Session registry** `relay/session.rs` — *SessionRegistry* | `sessions` (session → token list, fixed key, metadata), `token_map` (token → session, permission); two RwLocks | `register`, `register_existing`, `remove`, `revoke_token`, `regenerate_session`, `set_token_permission`, `authenticate`, `can_reclaim` | the two maps agree; no reader sees half an operation; no deadlock between the locks |
| **Session plane** `relay/ws.rs`, `relay/mod.rs`, `relay/admin.rs` — *RelayPlane* | `agent_broadcast` (channels to agent and browsers), `sse_sessions`, `last_activity` and some twenty further maps by session | agent registration, `/agent/events` and its teardown, browser SSE, heartbeat, kick, revoke, regenerate, idle reaper | teardown of the old never hurts the new; a credential change reaches every stream; an agent always gets back |
| **Upgrade status** `relay/ws.rs`, `relay/admin.rs` — *UpgradeStatus* | `agent_upgrades` (session → stage, id, time) | trigger (one device, fleet), `absorb_agent_frame`, `converge_upgrade_on_reconnect`, `sweep_stale_upgrades` | a conclusion is reached, kept, and true |
| **TCP tunnels** `relay/tcp_tunnel.rs` — *TcpTunnel* | `conns`, `by_session` counts, per-tunnel queues and windows | `open`, `route`, `poll_read/write/shutdown`, `Drop`, `close_session` | bytes in order, bounded, nothing leaked, no truncated stream that looks whole |
| Message routing, event buffers `relay/ws.rs` | event ring per session, rate limiters | `route_agent_message`, `browser_send`, `deliver` | each message's effect is in the module of the component it is for |
| **MCP requests** `relay/mcp.rs` — *ToolCalls* | pending table by request id | call, answer, time-out | an answer goes to its caller, once; the table does not grow |
| **File transfer** `relay/file_transfer.rs` — *FileDownload*, *FileUpload* | sinks by transfer, ranges, pending uploads | download, PUT, browser's POST, abort | what is said to be whole is whole, in order, in its range |
| **Web maps** `relay/web_map.rs` — *WebMaps* | maps and their order of use, runtimes with idle tunnels and permits | map, visit, retry, reuse, expire, revoke | a page gets the answer to its own request; what may not be repeated is sent once |
| **Web proxy** `relay/web_proxy.rs` — *WebRequests* | stream states, in-flight count | request, head, chunk, end, cancel | a page is a prefix of the page; places are given back |
| **Desktop fan-out** `relay/desktop.rs` — *DesktopVideo* | init segment, viewers, key-frame gates | join, init, frame, leave, removal | a viewer sees nothing it cannot decode, and in the end a picture |
| **Bandwidth limits** `relay/bandwidth.rs` — *TokenBucket* | tokens, queue and count of waiters | `acquire`, `try_acquire`, `consume`, `set_rate` | the rate is kept; whoever waits is served |
| Recording, audit `relay/recorder.rs` | append-only files behind a channel | append, close | — (I/O) |
| Artifact store `relay/artifact_store.rs` | release manifests, files | plan, refresh | — (data) |
| Admin pages, login `relay/admin.rs`, `relay/auth.rs` | admin sessions, settings | login, overview, settings | single reads and writes; the handlers that change sessions are in RelayPlane and UpgradeStatus |

### The agent

| Component | State | Operations | What makes it correct |
|---|---|---|---|
| **Reconnect loop** `agent/mod.rs`, `agent/client.rs` — *RelayPlane* | cached session id and tokens, back-off, missed heartbeats | register, open the downlink, heartbeat, reconnect | it never tries for ever what the relay refuses |
| **Self-upgrade** `agent/update_apply.rs`, `agent/systemd_helper.rs`, `agent/upgrade.rs` — *UpgradeSwap*, *UpgradeStatus* | files `target`, `.bak`, `.part`, handoff file, `.restore-pending`; helper process; watchdog | plan, hand off, exchange, start, confirm, roll back, report | the old version is kept until the new one has registered; the device comes back; reports are true |
| **TCP tunnels** `agent/tcp_tunnel.rs` — *TcpTunnel* | table of connections, tombstones, uplink queue | dispatcher, `run_conn` and its halves, uplink batches, `abort_in_flight` | as on the relay, and the 32 slots come free |
| **Overlay upgrade** `agent/overlay.rs` — *OverlayHandoff* | `current.json`, binaries, pending identity, rejected mark | install, decide, exec, confirm, reject | a bad version is given up after three starts; the device comes back |
| **Artifact download** `agent/download.rs`, `agent/upgrade.rs` — *ArtifactDownload* | a partial file per source, the verified file | fetch, resume, verify, hand over | only the artifact is installed; no source is lost to leftovers |
| **Long-running commands** `agent/exec_sessions.rs` — *ExecSessions* | table, permits, input queues, children | start, read, feed, close | an exit that is told is one, and nothing written is lost |
| **Desktop capture** `agent/desktop/mod.rs`, uplink task of `agent/mod.rs` — *DesktopVideo* | pipelines, `running`, queue of frames | start, stop, restart, new encoder, uplink batches | the relay's picture of it is true |
| **Web proxy, files** `agent/web_proxy.rs`, `agent/mod.rs` — *WebRequests*, *FileDownload*, *FileUpload* | requests in flight, reading tasks, open uploads | fetch, read, write | as on the relay |
| **Peers, LAN** `agent/p2p.rs`, `agent/lan.rs`, `src/web/desktop.js` — *DesktopPeers* | the one peer session, its driver and queue; a view's transports and timers | offer, answer, connect, lose, fall back | every view comes to rest with one picture, or says why it has none, though the last offer takes the session |
| Terminals `agent/shell.rs`, device probe `agent/device.rs` | pseudo-terminals | — | — (I/O) |

Wire format (`proto/`), command line, TUI, GUI (`main.rs`, `tui.rs`, `gui.rs`, `status.rs`, `tlsutil.rs`) and the browser client
(`src/web/`, another program) carry no protocol of their own; the start-up order an upgrade relies on is in UpgradeSwap.

### How they interact

    browser ──SSE── relay: sse_sessions ─┐
                                         ├─ agent_broadcast[sid] ──SSE downlink── agent: dispatcher ─ shell, tunnels, upgrade...
    admin ── kick / revoke / regenerate ─┤          ▲                                │
    reaper (every five minutes) ─────────┘          └────── POST /agent/message ─────┘  (heartbeats, events, tunnel batches)
             session registry: every one of them asks it who a token is

* *Shared state.* All relay handlers share `RelayState`: several dozen maps, one lock each. Outside the registry an operation
  gives up one lock before it takes the next: an operation over five maps is five critical sections.
* *Messages.* Relay to agent: a bounded channel per downlink, dropped with it. Agent to relay: one POST at a time, each in order.
* *Callbacks.* `AgentEventsCleanup` runs when the HTTP layer drops a downlink's stream, at an unknown time after the agent
  has gone, and possibly after it has come back.
* *Processes.* An upgrade passes through the old agent, a helper or systemd, and the new agent; files are what they share.

### Hard behaviours

Interleaving of critical sections (registration, teardown, kick, reaper, credential changes); teardown that runs late;
replies and connections that are lost; processes that die between two renames; time-outs that race the event they wait
for; verdicts inferred from silence; queues and counters at their limits. `PROJECT.json` lists forty such places, each with
its line, and the properties that would fail if the code got it wrong.

## 2 Modules and the code

**CredentialDirectory** is the abstract specification: one map `grant` from tokens to (session, permission), atomic `Claim`,
`Drop`, `Revoke`, `Rotate`, `SetPermission`. It is what every caller of the registry relies on.

**SessionRegistry** is `session.rs`. `sessions` and `token_map` are its maps, `holder` who holds which lock for writing,
`call` the call a task is in. A call takes its first lock (`TakeFirst`), its second (`TakeSecond`), then changes the maps and
releases both. `remove` alone takes `token_map` after it has changed `sessions` (`RemoveEntry`, `RemoveTokens`). A read holds one lock
for one step, so what a reader can see are the states in which that lock is not held. Token lists are functions from tokens to
permissions: the lists the program builds name a token once (`agent_register` builds at most two entries, a key and a
fresh token; `register_existing` is given the list the agent got from an earlier registration).
It implements CredentialDirectory with `grant <- token_map` (`RefinesDirectory`).

**RelayPlane** is everything that touches a session while it lives. One action is what a task does under one lock:

| Actions | Code |
|---|---|
| `RegisterOnline` to `RegisterReply` | `agent_register`: online check, reclaim, claim, channel map, activity, reply (which may be lost) |
| `Events*`, `LoseConn`, `DropStream`, `Cleanup` | `agent_events_handler`, its stream, `AgentEventsCleanup` |
| `SendRegister`, `Dial`, `Heartbeat`, `NoticeLoss`, `LoseReply` | the agent's loop: `agent/mod.rs`, `client.rs` (cached tokens kept or dropped, giving up after three heartbeats) |
| `Browser*` | `browser_sse_handler` and the clearing guard of its stream |
| `Kick*` | `kick_session_handler`: channel, streams, tokens, state |
| `RevokeFind`, `RevokeToken`, `Regenerate`, `DisconnectEntries`, `RemoveStreams` | the credential handlers and `disconnect_streams` |
| `Reaper*` | the idle reaper's pass |

`newest`, `cut`, `kicked` are history: the downlink installed last, the streams a change of credentials has to close, those
a kick found. `sessions` is one atomic map here, which SessionRegistry's proofs justify.

**UpgradeSwap** starts with a verified file. `probe` holds the facts that `systemd_helper::decide` looks at, `disk` which binary is at
`target`, `backup` and `.part`. Three paths follow the plan: `Direct*` (helper of an unmanaged agent), `Unit*` (helper that may stop
the unit), `Restart*` (the old agent itself, then systemd). Every rename, removal, process start and `systemctl` call is a step
that can fail (`Fault`), and the process doing it can die before any of them. `Boot`, `Register`, `Complete*` are the
new process up to its confirmation, `Watchdog*` the self-rollback. `version` is what the new binary is like: good, hangs (runs, never registers),
crashes (after it has read its pointer), dead (does not start).

**UpgradeStatus** is the relay's entry and all that writes it: `AskOne`/`AskFleet`, `Deliver`, `InsertStarted` (two steps, in that
order), the agent's task and its frames, the process's exit and return, `RegisterReads`/`RegisterConcludes` (the convergence decides and writes under
different locks), `Absorb`, `Sweep`. `of` in entries and frames is history: the round they are about.

**TcpTunnel** has both ends of a tunnel. On the relay `tunnel[c]` is the `TunnelStream` with its entry in `conns`; `counted` is `by_session`,
`owed` the removals not yet taken off it, `sweep` what `close_session` has left and who runs it (the code does these in separate critical
sections; a kick or the reaper takes the channels first, `SessionRemoved`, and gets to the tunnels later, `RemovalSweeps`: the agent may be back by then). On the agent `conn[c]` is a connection's record and the task behind it, `closed` the tombstones, `uplink` and `post` what
is queued and in flight. Bytes are lengths. `Route` is the relay's treatment of one message, including all the checks that make
it fail a tunnel; `blamed` remembers for which of them (`Charges`).

**OverlayHandoff** is an upgrade of an agent that cannot write its own directory: a base binary that is never touched, a pointer to the version
it execs at start, an attempt counted before the exec, a version given up after three, health and rejection after a registration. What restarts
the base is systemd, a helper in a transient unit, or a helper that is a child.

**ArtifactDownload** is what happens before UpgradeSwap: `fetch` over the sources in turn, `download_from` with each answer a server
may give to a range request, the rename, and the three looks at the file before it is installed (`Check`, `Smoke`, the verification of
`Swap` or of the helper). Paths and inodes are told apart, because after a reconnection a second task may run on the same files:
one may append to, empty, rename or remove what the other has open. `crowded` is a history variable: three tasks have run at a time, which
takes two reconnections during one download.

**AgentServices** composes seven modules, five of them over one connection and one main loop (**AgentDownlink**: two bounded channels, the loop, answers,
disconnections): **FileDownload** (reading task, routing, sink, GET handler), **FileUpload** (PUT and browser upload, reassembly, abort
by path), **ToolCalls** (pending entry, answer, time-out), **ExecSessions** (child, watcher, writer, entry, the client), **WebRequests** (handler,
guard, event queue, the agent's fetching task, its uplink). The modules share the main loop: one that waits in it stops the others. Beside the main loop, and in behaviours of their own:

* **WebMaps**: `recent` is the session's list of maps in their order of use, `runtime` and `idle` the runtimes and their pools, `visit` a request with what its
  handler or its response body holds, `pipe` a tunnel (TcpTunnel with its two ends abstracted to open and cut) with the chunks the target still has to deliver on it. A
  runtime lives as long as the table, a handler or a body refers to it (`Referred`); `Pools` closes the idle tunnels of one that nobody refers to. `hits`
  counts how often a request got to the target.
* **TokenBucket**: one direction of the limit. `bucket` has the rate, the tokens and the time since they were last worked out, `gate` the FIFO queue, `waiters`
  its counter, `setting` a `set_rate` between the exchange of the rate and the settling of the tokens. A tick is `MAX_SLEEP`; whoever has something to do does it
  before the next one.

**DesktopVideo** follows a frame from the capture to a viewer's decoder: `Pipeline` (the loop of `run_desktop_pipeline`), the queue and
its draining (`Batch`), the two transports, `Route*`, the relay's stream with its cached init and the gates of its viewers, `Join` to
`StreamEnds` for a viewer, and whatever replaces or removes a stream: stop, restart, credential changes, disconnections. Two things are history: a delta is
`torn` for a viewer that the relay has not sent every frame since its key (`missed`), and `cut` if the agent's uplink has lost one of them before, by its drain or by a batch that failed
(`broken`, `Missing`, `WithCuts`).

**DesktopPeers** is the choice of a way to the picture: a view (`page[v]`, one record with the transports and timers of `DesktopView`) tries the LAN, then the peer session, then the
relay; the agent has one `slot` for a session, which every offer takes from the one before (`HandleOffer` aborts its driver), and one queue of frames (`mirror`, `video_tx`). A view's methods are
operators on its record (`StartWs`, `OnP2pFailed`, `Disconnect`, ...), composed as the code calls them; events and timers are actions. A fetch stream may end (`StreamOver`) or not be there yet (`NoStreamYet`), after which the page tries again;
it may be refused (`Refused`) or break (`BodyFails`), after which it only says so (`failed`). The timers that nobody can clear any more (`loose`)
stay and fire late. ICE, DTLS and SCTP are two steps (`CanMeet`, then both ends see it). Assumed: where `closes` says that closing a connection fires the close event of its channel, that is the
page's next event; and a driver that was aborted between two awaits comes to its end sooner than another connection is made. `DesktopVideo` and `DesktopPeers` share a run, in behaviours of their own.

**MC\*** modules define the instances' values and symmetry sets. Several choose a *scene* in the initial state (which faults, which
users, how many of each): a behaviour then has the interleavings of a few of them rather than of all.

Every mapped definition is in `PROJECT.json` with its lines. Definitions named `X_Something` above an `X` are mutants: what `X`
would be with a plausible bug. Each property is broken by at least one of them under its own run.

## 3 Runs, bounds and what they show

| Run | Instance | Shows |
|---|---|---|
| `registry_safety` | 2 sessions, 1 key, 1 mintable token, 2 concurrent calls; symmetric | `TokensAgree`, `NoTornToken`, `NoCircularWait`, `RefinesDirectory` |
| `plane_safety` | 1 session, 1 agent, 2 downlinks, 2 losses, one request of the administrator (kick, revoke or regenerate); with a browser stream, or with the reaper; fair | `NewestOwns`, `CutStreamsClosed`, `AgentRecovers` |
| `upgrade_safety` | the exchange: every probe, every new version, 2 faults of any kind at any step, or one of the network; fair. Or, in behaviours of their own, the download: CDN and relay, 2 chunks, 2 attempts, every content × ranges × size × leftover with 2 faults; 2 tasks with a reconnection and another fault | `OldVersionKept`, `ReportsAreTrue`, `DeviceComesBack`; `InstalledIsArtifact`, `FailureIsDeserved` |
| `status_safety` | 2 overlapping requests of either kind, 1 lost connection; fair | `RegisteredIsTrue`, `ConclusionStays`, `StatusConcludes` |
| `tunnel_safety` | 1 tunnel that carries 2 messages each way with 1 failed POST; 1 tunnel with 1 message each way, a failed POST and 2 sessions; 2 tunnels for 1 slot on each side with a message that waits too long. Window 2, reads and writes of 1 or 2 bytes, all queues at 1, also the number of messages that may wait to be read | `WindowsBalanced`, `AgentNotBlamed`, `SlotsReturned`, `WholeStreams` |
| `overlay_safety` | 2 upgrades, 2 versions each good, crashing or hanging, 3 restarters, 3 faults (I/O, power, a damaged file, a slow start), the base replaced once; fair | `PointerIsTrue`, `RejectedIsDeserved`, `DeviceReturns` |
| `services_safety` | fourteen sets of requests: one or two of the five services, three maps of two targets, two visits of a map, two that wait for tokens; at most 1 disconnection, 1 lost post, failed write or closed connection, queues of 1 or 2; fair | `BodyIsRange`, `AnsweredIsWritten`, `ExitedIsWhole`, `PageIsPrefix`, `OwnAnswer`, `SentOnce`, `RateKept`, `EveryRequestEnds` |
| `desktop_safety` | 1 viewer, 2 pipelines, queue and channel of 2, seven scenes of 2 or 3 commands and mishaps; or 1 view with 2 failures of eight kinds, 1 view whose streams break or are refused for good, 1 view with the LAN and another failure, 2 views that compete for the session; fair | `ChainUnbroken`, `InitNotStale`, `SnapshotIsTrue`, `OneFeed`, `QueuesReachable`, `PictureComesBack`, `PeersSettle` |
| `plane_kick`, `desktop_revoked`, `desktop_uplink`, `bandwidth_large` | smallest instance that shows it | the findings of section 6 |

`registry_safety`, `upgrade_safety` and `status_safety` check a `TypeOK` too; RelayPlane's is proved only, and the proofs of the others have their types in their invariants. Why the bounds are enough:

* *Registry.* An operation concerns a token, the session it moves from and the session it moves to; two calls are enough for every
  interleaving of two lock orders. The proofs of section 5 remove these bounds.
* *Plane.* The races are between an old and a new downlink of one session, and between a stream that leaves and one that joins: two of each.
  Two losses give a reconnect that is itself lost. Whether the relay has a password decides what a heartbeat of an unknown session is
  told: refused (with) or silently dropped (without). Recovery does not hold without (section 7), so the scenes have one. A second
  administrator's request adds nothing that a first does not do to the same maps, since none of them reads what an earlier one left
  beyond those maps. The reaper and browsers are in separate scenes to keep each in reach.
* *Exchange.* Two faults are one more than the code claims to survive (an error and the failure of its undo). The 217 probes are all
  combinations of what `decide` distinguishes. The runs have an agent without `--key` and `--session-id` whose old version knows
  the pointer file; the other values of `HasKey`, `HasSid` and `OldKnowsPointer` give the same results.
* *Status.* Two requests are what "the entry of an earlier round" needs; one loss is what makes convergence, the sweep and late frames meet.
* *Tunnels.* A window of 2 with messages of 1 and 2 bytes has the boundary cases (full, exactly full, one short). `AgentQueue` is 1, below the window, so that
  the queue-full branch of the dispatcher is taken. `MaxQueuedMsgs` is 1, fewer messages than a window has bytes, as in the code (8192 messages, 512 KiB): an agent that keeps to its window *is* found to
  send too many messages in this run, and `AgentNotBlamed` says of what it is never found guilty. Two sessions give the late teardown; a failed POST gives `abort_in_flight`.
* *Overlay.* Three attempts is the code's own number; a second upgrade meets everything a first one leaves; three faults are what it
  takes to have a good version given up, and no fewer do.
* *Download.* Two chunks give a leftover that is nothing, a proper prefix, other bytes, all, and too much. Two sources make a source whose failure matters
  and one that can still save the round. Two tasks are what one reconnection gives.
* *Services.* Queues of 1 (2 where a message and its end must both wait) are full at once; the code's are 16 to 256. Requests in pairs
  compete for the main loop, a path or a place; the code shares nothing else between them. One permit and one idle tunnel make a second visit wait for
  the first and take its tunnel; three maps of which one fits make room and share a target. Two waiters give a queue; a bucket of four with requests of three
  and two, a frame of five and messages of one meets every branch of the three calls; the rate changes to or from no limit once. Of two commands that compete
  each writes to one of its outputs; the race of the outputs of one command is a scene of its own.
* *Desktop.* A viewer does not affect another but through the stream's removal, so one viewer is enough; two pipelines are the old and
  the new one of a restart. A batch of two leaves a backlog of one behind. Views do not know of each other: two of them are what a session that is taken away needs, and one meets every
combination of two failures of its own ways.

`CHECK_DEADLOCK FALSE` is set where the system ends: an upgrade, a tunnel, a request, a desktop whose scene is played has nothing more to do. In the registry and
the plane there is always a next step, and deadlock is checked.

## 4 Fairness

Only what the scheduler or a timer guarantees is fair; what a user, an administrator, a network or a target does is not.

* `RelayPlane!FairSpec`: weak fairness of the relay's tasks (handlers, cleanups, a stream that is dropped once its peer is gone, the reaper's pass once begun) and of
  the agent's loop, which sleeps for bounded times. None for losses, browsers, the administrator, or idleness.
* `UpgradeSwap!FairSpec`: weak fairness of the helper, the old agent's exit, systemd, the starting process and the deadlines. None for faults.
* `UpgradeStatus!StatusFairSpec`: weak fairness of handlers, the agent's tasks, the device's return in one form or another, its registration, `Absorb`, the passing of
  time, the sweep (every five minutes). None for requests, for a connection's loss, or for the relay to notice it.
* `TcpTunnel` has no liveness: `SlotsReturned` says in every state that a slot of the agent that nobody at the relay uses any more is on its way
  to being free (its close is on the way or could not be sent in time, its task is about to end, or the agent loses its session), which needs no fairness.
* `OverlayHandoff!FairSpec`: weak fairness of a start's steps, of systemd and of the helper's steps. None for upgrades, the administrator, faults.
* `AgentServices!FairSpec`: weak fairness of the union of all tasks (nothing in it goes on for ever without requests), and of each
  command's watching task and its idle time-out, which a command that writes without end could otherwise keep waiting. For a web map that is its handlers,
  their time-outs and the sweep, for the limit those who wait, the second half of `set_rate` and the time. None for clients, children, targets, faults.
* `TokenBucket!BucketSpec` (the limit by itself): the same for the limit alone. Messages and frames are nobody's duty.
* `DesktopVideo!FairSpec`: weak fairness of commands' completion, each pipeline, the uplink task, each transport's routing and each viewer;
  strong fairness of a key frame, which the pipeline's clock forces (it is not always the next thing to do, but again and again).
* `DesktopPeers!PeerFairness`: weak fairness of the union of the timers, probes and answers of the views and of the steps of the drivers (none of which can be taken for ever as long as views do not take the session from each other). None for failures, restarts, or a view that skips the peer.
* `ArtifactDownload` has no liveness: `FailureIsDeserved` says when a round may fail, and a round's steps are finitely many.

## 5 Proofs

`SessionRegistryProofs` proves, for any sets of tokens, keys, sessions and callers, from `KeyAssumption` (keys are tokens) and `NoneAssumption` (`None` is no
session, grant, key, call or worker):

| Theorem | Statement |
|---|---|
| `Invariance` | `Spec => []IInv` |
| `TypeCorrect` | `Spec => []TypeOK` |
| `MapsAgree` | `Spec => []TokensAgree` |
| `NoTear` | `Spec => []NoTornToken` |
| `DeadlockFree` | `Spec => []NoCircularWait` |
| `Refinement` | `Spec => RefinesDirectory` |

`TokensAgree` speaks of states in which no lock is held, so it cannot be inductive. The strengthening `IInv` says what holds while
locks are held: `LockInv` (who has `token_map` has `sessions`, a removal between its halves has `sessions`), `ListedInv` (a listed token is mapped to the session
that lists it), `MappedInv` (a mapped token is listed, or in the hand of a removal), `RemovalInv` (a removal has in its hand exactly the
tokens still mapped to the session it took out). There is one lemma per operation (`RegisterIInv`, `RemoveEntryIInv`, ...), each with a
step per conjunct; `OneOwner` and `Settled` say that with both locks held no removal is half-way, which reduces most operations to a
statement about two maps (`AgreedIInv`). For the refinement, `StepRefines` maps each step to a step of CredentialDirectory or a stutter; `RemoveEntry`
is a stutter, because the directory is `token_map`.

`UpgradeFilesProofs` is about two modules that share no state, the download and the exchange of an upgrade's file. Of UpgradeSwap it proves `TypeCorrect`, `OldVersionNotLost` (`Spec => []OldVersionKept`) and `ReportsHold` (`Spec => []ReportsAreTrue`), from `UpgradeAssumption`
(sets and markers are what they are said to be): for any probes and new versions, for faults of any kind and of any number. `OldVersionKept` is not inductive: the next rename may take the last copy
away. The strengthening `IInv` adds where the two files are at every step of the exchange (`Files`: nothing has been moved before the backup, the old version is in the backup between
the renames and after them, and at its path after the way back); that nobody else moves them meanwhile (`Watching`: only a process with a watchdog does, and one is armed
only after the last step of SystemdRestart); that no agent runs while the unit is stopped (`Stopped`); that nothing is reported before the end (`Reporting`); and that,
as long as the new version has not registered, nothing is there that would be taken for its registration: no marker, no consumed handoff but by the old version, no watched process of the old
version (`Unconfirmed`). A backup is removed only by who has seen a registration, so the last part is what makes `OldVersionKept` inductive. There is one lemma per action.

`UpgradeProofs` is about two modules that share no state. Of OverlayHandoff it proves `AccountIsKept` (`Spec => []IInv`), `PointerStaysTrue` (`[]PointerIsTrue`) and `RejectionIsDeserved` (`[]RejectedIsDeserved`), from `OverlayAssumption`: for any versions,
restarters, number of upgrades, `MAX_ATTEMPTS` and faults. Whether a version was given up rightly is decided long after the starts and faults that led to it, so `IInv` keeps an account: every attempt
on the pointer is a start of that version or a fault, and one of a version that works is a fault or a process still on its way to the registration that wipes it out (`Counted`, `Flying`). The other parts say which
processes, restarters and helpers there can be (`Processes`, `Helpers`), that the file the pointer names is in place while an upgrade is being installed (`Placed`), and that what was given up does not run
(`Silenced`).

Of UpgradeStatus `UpgradeProofs` proves `FlagIsUpgrade` (`[]TypeOK`), `RegisteredStandsForNewVersion` (`[]RegisteredIsTrue`) and `ConclusionsStay` (the action property), from `StatusAssumption`: for any requests and losses.
What the panel says comes from frames, so the invariant is about frames that have not arrived: every one that says "registered" belongs to a round that has succeeded (`TrueFrames`, `Truth`), and so does what a
convergence has read and not yet written. `Flag` says that `upgrade_in_progress` is set exactly while a task of the session runs, which is why two never do.

`RelayPlaneProofs` proves `PlaneInvariant` (`[]IInv`), `TypeCorrect`, `ReconnectSurvives` (`[]NewestOwns`) and `ChangeReachesStreams` (`[]CutStreamsClosed`), from `ParameterAssumption`: for any sessions, streams, agents and requests.
`CutStreamsClosed` speaks of the end of a request; `CutInv` says that until then a stream that was cut and is still kept is in the map the request has still to look at, or on the list of those it has still to close
(`Closing`), and the others what that rests on: an open stream has its entry (`StreamInv`), the steps still to do of a request (`AdminInv`) and of the reaper (`ReaperInv`), which map an open downlink is in and that an
agent marked off has none (`MapInv`, `AgentsInv`). The reaper is the exception that the property names: when it takes a session's channel map between the change and the closing, the streams of the map
are in nobody's reach (`ReaperChannel`).

`AgentServicesProofs` is about AgentServices with all its parts at once, from the assumptions of its modules: for any number of requests, any capacities and losses. All services share the channels to the agent, so each
proof has the same two halves: what lies in a channel for this service (a request is there once, and only before it was begun: `Carries`, `Once`, `Quiet`), and the state that it alone writes; `Channels` proves the types of
the channels once for all, and the steps of other services are one case (they leave this one's variables and only take messages out or put in others).

| Theorem | Statement | Along which argument |
|---|---|---|
| `CommandsAreWhole` | `[]ExitedIsWhole` | the watcher says "exited" after both outputs were drained; what a reader has still to take is bounded by what was written (`Drains`, `Verdict`) |
| `UploadsAreWritten` | `[]AnsweredIsWritten` | chunks are in the channel in their order, the file is what was taken so far, and a path has one writer as long as no other upload met it (`FileInv`, `Alone`) |
| `PagesAreWhole` | `[]PageIsPrefix` | the uplink of a page holds parts *a*..*b*−1 in order (`Flight`), after what the browser has and before what the agent has still to send (`Follows`, `Leads`); once something was lost nothing claims that the page is whole |
| `BodiesAreRanges` | `~AgentIgnoresRange => []BodyIsRange` | the events on the way to the sink continue where the body ends, without a gap and in the range (`Course`, `Counted`, `Within`), and end it only when it is whole |
| `AnswersAreOnesOwn`, `RequestsAreSentOnce` | `[]OwnAnswer`, `[]SentOnce` | a connection is held by one visit or lies at one place of one pool (`Linked`), and one that lies in a pool has nothing of an answer left on it |

The limit, of which no other service knows, has two theorems: `LimitKept`, `BucketSpec => []RateKept`, of the limit alone, from `BucketAssumption` (rates, sizes and the bucket are natural
numbers, requests and frames are bounded), and `RatesAreKept`, `Spec => []RateKept`, beside all the rest. `RateKept` speaks of the excess alone, while what may be passed next
depends on the tokens, which may be a debt and lag behind the time. The strengthening `LimitInv` therefore speaks of what the bucket *would* hold if it were
asked now (`Claimed`): with the excess it never makes more than one full bucket (`LimitBalanced`). A tick adds to `Claimed` what it takes from the excess (`TickLimit`), a caller's refill
clips, which only takes (`Asking`), and whoever passes takes as much as it adds (`Spending`, of which every call is a case: `Refilling`, `Paying`, `Lending`).
While the rate is being set nothing is claimed (`LimitOn`), and the settling starts it anew.

`AgentIgnoresRange` is an agent older than the fields of a range, which returns bytes from 0 (section 7); the run has an agent of this version, and the theorem needs it.

Of ArtifactDownload `UpgradeFilesProofs` proves `InstallationIsTrue` (`[]InstalledIsArtifact`) and `FailureIsTrue` (`[]FailureIsDeserved`), from `DownloadAssumption`, `PathsAssumption` and `ScenesAssumption`: for any number of tasks, sources
in any order, any content they serve and any leftovers, any length of the artifact, attempts and faults.

* The first rests on who has a file open. What a task that may install has tried is open to nobody (`Tried`), because it executed, and nobody opens it from then on: an answer opens the file of a source, and the file at
  `part` has no other name (`Distinct`). Between the trying and the exchange only a task that places its own file could put another one there, and of two tasks it would be the
  one that has nothing open (`AtMostTwo`). What is installed is the artifact and stays so (`Sealed`), though an exchange takes whatever is at `part`. `InodeFree`
  counts: with a path without a file and a task without a descriptor an inode is left for a new file.
* The second is an account of a round (`Told`). As long as nobody disturbed it and nothing but attempts failed, either a source ahead has as many attempts to spare as the round
  began with, or the one it is at has them less the failed ones, one of which is the 416 that a part as long as the artifact costs (`Used`, `Chance`, `Hope`); and the file and the rest of the
  answer make up the artifact (`Ending`). So a source is given up only for one ahead or with nothing to spare (`Abandons`, `Retries`), and what comes after a verified file fails only if the binary does not run.
  What a source is left with is nothing, or what it had (`Leaves`).

`TcpTunnelProofs` proves `SlotsAreReturned` (`[]SlotsReturned`) and `StreamsAreWhole` (`[]WholeStreams`), and `TcpTunnelWindowProofs`, which extends it, `WindowsAreBalanced` (`[]WindowsBalanced`) and
`AgentIsNotBlamed` (`[]AgentNotBlamed`), from `TunnelAssumption` (limits are positive, messages are no larger than the window) and
`NoneAssumption`: for any number of tunnels, sessions, lost downlinks, failed POSTs and late messages, any window and any capacities. The inductive invariant is `Typed /\ Life /\ Order /\ Windows /\ Room`, which TLC checked on the run's instance
before it was proved.

* *Why `SlotsReturned` is not inductive*: it speaks of a record whose tunnel is gone, and what a step needs is what was true of the two ends before. `Life` says what each end can still know at each
  time of a tunnel's life. The request to open it is the first message of a tunnel and the only one of its kind, so a record is not made again behind a close (`OpenFirst`); before it is sent nobody knows of the
  tunnel (`Unborn`), and before it is handled nothing comes from the connection (`Quiet`); tunnel and connection belong to the same session (`Sessions`), a session that is over holds
  nothing (`Channels`). `Ending` is the heart: an agent that works for a tunnel that is over at the relay, *or is yet to be asked to*, will be told, has missed it, or is about to lose the session.
* *Why `WholeStreams` is not inductive*: when the end is read it is too late to say that nothing is missing. `Order` looks at what is still coming, the part of the batch being posted and of the uplink that belongs to
  a tunnel and is not filtered (`Coming`): it `Runs` from the number the relay waits for to the last the agent has given out, then come the ends (`Ordered`). An end is put in the queue only when nothing more is read from
  the target (`Silenced`), so when it is routed all data has been (`EndSeen`). A failed POST breaks `Ordered`, which therefore holds for `failures = 0`.
* *Why `WindowsBalanced` is not inductive*: it is about two ends that exist, and they begin to exist one after the other, in the middle of traffic. `Windows` says of one tunnel, with the part of every queue that is
  its own (`Part`, and `Rising` for what can still reach the relay, since a tombstone filters the queue before the batch), what holds before the two ends know of each other (`Fresher`: nothing is counted, queued or
  confirmed as long as the connection is young) and what holds while they do (`Even`). `WriteEven` and `ReadEven` are the two equations. They hold only with `EndWritten`, which says where the end of the user's stream
  can be (`Going`, all that is on its way to the target in one sequence, has it last, and the agent that has taken it has nothing left): a write half that ends *throws away what is queued*, and were there bytes in it they would
  never be confirmed. Each step is then a lemma about the one tunnel it is about (`...Even`) and one that no other tunnel's part has changed (`...Windows`).
* *Why `AgentNotBlamed` is not inductive*: it says nothing of what is still on its way. That no sequence number is wrong is `Ordered`. That the queue never has more bytes than the window is `Room`: what is on its way to the
  user, in the uplink, the batch and the queue, is never more than the window (`Above`), and a connection that reads has counted all of it and all that is read and not yet confirmed (`Behind`), and counts no more
  than the window. Unlike `Windows` this is an inequality, and so it survives what the equation does not: a lost downlink, a connection that is gone, a tunnel that has been taken out, and late confirmations; and it
  holds of every connection, also of those whose other end is gone. It is what the comment at `relay/tcp_tunnel.rs:599` claims. `RouteBlames` puts both together. The third check, the number of messages, has no such invariant: the code's
  numbers do not exclude it (section 7), and the property names it.
* The sums and the filtered queues of the model are recursive functions over `0 .. Len(queue)`. What they compute for any queue is proved by induction in a form the provers can use: a *set* of numbers or of sequences
  that has the first and with each the next is all of them (`FromOneToTheNext`, `AppendByAppend`, from the well-foundedness of `<` on the natural numbers). `AlongExists` and
  `AlongUnique` give the function of a recursion, `Kept...`, `Sum...` and `Taken...` the laws the steps need.
* `UplinkTakes` and the routing are the long steps: a batch is cut anywhere and filtered by the tombstones of the moment, and what remains must be what `Coming` says.

`DesktopProofs` proves `NoTornDelta` (`[]ChainUnbroken`), `SnapshotsAreTrue` (`[]SnapshotIsTrue`) and `InitsComeFirst` (`[]InitNotStale`), from `DesktopAssumption`: for any finite set of viewers, any scenes, any
capacities of the agent's queue and the viewers' channels (`NoTornDelta` is about what the relay drops; for what the uplink drops it does not hold, section 6). `PictureTyped` (`[]Seated`) has the types, and that a viewer's stream is one that was made. The drain (`MaxPending`) takes pictures from the middle of a batch and the socket
reorders nothing, so the proofs are about what a round of the uplink leaves of a queue: `Sifted` (a recursive function) keeps the messages of some types, `RoundSplits` says where a batch is cut.

* `ChainUnbroken` is about the channel, and what closes it is the gate: a viewer whose gate is open has missed nothing since its last key (`Gate`). Every drop and every join closes it.
* *Why `SnapshotIsTrue` is not inductive*: it is about the moment when nothing is on its way. `Announced` says at any time what the relay *will* know when all that is queued or posted has arrived (`Final`, the last `started` or
  `stopped` on its way, or what it knows): running if a pipeline captures and the desktop is on, not running if none captures or is opening. A round keeps the order of what is announced (`RoundKeepsOrder`), though it
  drops pictures between.
* *Why `InitNotStale` is not inductive*: `set_init` stores first and broadcasts later, and viewers join between. `Fresh` follows the encoder of the last init that was routed, *r*: on the agent's side every picture on its way
  is of the encoder of the last init before it, and inits come in the order of the encoders (`Made`); the stream's cache has *r*, or is about to (`Cached`); and what a viewer is sent begins where what it can decode ends (`Watched`).
  A round that drops an init breaks `Made`, so the invariant holds as long as none was dropped, no stop gave up waiting (`Lone`: one pipeline at a time), and no message took another way (`OneWay`). These are the
  exceptions the property names; section 7 says what happens in them.

Of DesktopPeers it proves `FedOnce` (`[]OneFeed`) and `QueuesAreReached` (`[]QueuesReachable`), from `PeersAssumption`: for any number of views and offers, and any failures in any number.

* *Why `OneFeed` is not inductive*: two streams are decoded when two ways were under way before. `OneTrack` says that a page which is not tangled has one way under way at a time (a calibration, a fetch or probe, the
  three seconds of waiting, a connection of its own, or a socket), that no timer but that of a dead socket runs which nobody can clear, and that while the close event of a connection is still to come nothing but a
  socket is under way: that event may start one. Each method of the view has a lemma about what it leaves (`...Page`) and one about `OneTrack` (`...Track`), each event one that cites them (`...Turns`).
* `QueuesReachable` needs that a driver which nobody has stopped has the slot (`Held`), and that one which has not installed its queue yet finds all the older ones closed (`Lonely`).

*Only model-checked*, and why. Liveness (`AgentRecovers`, `DeviceComesBack`, `StatusConcludes`, `DeviceReturns`, `EveryRequestEnds`, `PictureComesBack`, `PeersSettle`), which rests on fairness and ENABLED.

## 6 Findings

Each is a run that TLC must find violated; the quotation is in `PROJECT.json`.

1. **A kick leaves browser streams open** (`plane_kick`, `relay/admin.rs:300`). The handler removes *user ids* from `sse_sessions`, which is keyed by stream ids.
   The comment above it and `docs/admin.md` say that browsers are disconnected.
2. **After a credential change the desktop is not seen again** (`desktop_revoked`, `relay/ws.rs:2382`). The stream is removed with its init segment; the next frame
   creates one without, and the agent posts an init only with a new encoder. The comment says that browsers fetch the stream again with the new credential.
3. **A chunk larger than the bucket may wait for ever** (`bandwidth_large`, `relay/bandwidth.rs:342`). The capacity is raised for it only while it looks itself; every message
   or frame in between, even one that is refused, clips the tokens to the ordinary capacity. The comment at line 215 and the test of point 2.4 say that it does not wait for ever. The chunk
   of a browser's upload is larger than the bucket of any limit below some 14 Mbit/s, and it waits in the agent's downlink, before everything else that is sent to the agent.
4. **What the agent's uplink loses tears the picture** (`desktop_uplink`, `agent/mod.rs:1690`). `relay/desktop.rs:233`–`236` says that one lost frame breaks the chain of references of every viewer and that they therefore wait for the next key,
   which the relay sees to for the frames it drops itself (`ChainUnbroken`). The oldest frames of a backlog and those of a failed batch are lost without it: the agent forces no key, the relay and the page only count the gap in
   the numbers (`ws.rs:662`, `desktop.js:1112`), and viewers go on being sent deltas that rest on what they were never sent, until the clock makes a key (up to 6 s).

## 7 Also seen while modelling

These are behaviours of the code that the models have, or that stand next to what they have, and that differ from a comment or deserve a
second look; no run is spent on them.

*Sessions.* `regenerate_session` keeps the fixed key, whose comment (`session.rs:385`) says it is replaced. A stream that was authenticated just before a revocation
is installed after it and stays (`ws.rs:2420`–`2480`; `admin.rs:332` says at once). The guard that takes a browser out of the maps is created on the stream's
first poll (`ws.rs:2277`). A registration that evicts a session calls no `remove_session_state` for it (`ws.rs:1492`). The online check and the claim
are two critical sections (`ws.rs:1453`). The reaper takes the session and then the channel map (`mod.rs:2777`); a registration
in between loses its channel map, and on a relay without a password its heartbeats go on being accepted: `AgentRecovers` fails with
`ServerPassword = FALSE` (and holds again with `ReaperRuns = FALSE`). The reaper may also take the channel map between a change of credentials and `disconnect_browser_streams`: the streams of that map stay.

*Upgrades.* The watchdog looks at `consumed` and renames in two steps; `docs/upgrade.md:397` says that a registration at that very moment is never killed. The helper's rollback starts the old version
before it binds the identity (`docs/upgrade.md:582` says after). The pointer is deleted when it is read: a new version that then exits before it registers is started
again with neither pointer nor watchdog and never rolled back, which `main.rs:349` names as what must not happen. The reason of a rollback is passed in a variable that is
read only together with another, which the same function removes (`update_apply.rs:3107`): no process ever sends `rolled_back`. A failed Coordinated upgrade leaves the pointer behind (`update_apply.rs:2448`), so that the old version finds it and reports
success. `Aborted` may be concluded after the old agent has exited all the same (`update_apply.rs:1880`).

*Status.* A late frame of an earlier round takes the entry over (`ws.rs:306` against the comment at `ws.rs:289`). The comment at the fleet's gate says that conclusions are let through; `registered` is not on its list (`admin.rs:1338`), so a device that has upgraded
counts as upgrading until its entry is removed. `started` carries no time and is swept at once (`admin.rs:1236`), and is inserted after the command was
delivered (`admin.rs:1234`). The convergence reads and writes under different locks (`ws.rs:1650`).

*Tunnels.* When a POST fails, connections that still have a record are aborted and get a tombstone. One whose record is already gone, because its task had queued
its last message, gets none: what is left of it in the queue is posted after the gap. If the gap was data, the relay finds a sequence number missing and
blames the agent; if nothing but the end follows, the reader sees a clean end of a truncated stream (`agent/tcp_tunnel.rs:635`, `relay/tcp_tunnel.rs:773`). That is why `AgentNotBlamed` and
`WholeStreams` are conditional on `failures = 0`. A connection's end is told at most once, and not always: `handle_eof` drops a record silently when the write half
has ended or its queue is full (`agent/tcp_tunnel.rs:573`), and `abort_in_flight` says nothing, where the module comment (lines 24–25) has exactly one. The queues count messages and the
windows bytes (`agent/tcp_tunnel.rs:113`, `relay/tcp_tunnel.rs:65`): a target that sends more than 8192 pieces of less than 64 bytes on average, each read by itself, to a reader that does not read
has its tunnel aborted and the agent blamed, though the agent keeps to its window, which the comment at line 63 takes for enough: `AgentNotBlamed` allows it for the number of messages, and for nothing else.
A kick or the reaper that is overtaken by the agent's return (`relay/mod.rs:559` after `admin.rs:295`) closes tunnels of the new session at the relay alone; the agent keeps their connections until their targets end them (`SlotsReturned` says `untold`). A detached `tcp:ack` or `tcp:close` is dropped after five seconds
(`relay/tcp_tunnel.rs:320`); the properties name the exception. `close_session` can forget a count that an `open` has just taken (`relay/tcp_tunnel.rs:266`).
`tcp_tunnel.rs:264` has every tunnel of a disconnected agent fail; the cleanup closes tunnels only if its channels are still the session's (`relay/ws.rs:1841`), so those of a
downlink that was replaced before its loss was noticed stay, and their readers wait for ever.

*Overlay.* A helper logs "it is now running the overlay build" when the file of the upgrade is gone, whatever runs (`update_apply.rs:1729`). `SR_OVERLAY_FROM` is inherited through the
helper and the base, so the base takes itself for an overlay process (`overlay.rs:660`): on a device without systemd a second upgrade stays on the base
and is reported as registered. A helper kills a child that crashes or hangs and nobody starts the base again; a version that hangs under systemd is never rejected. `rejected_reported` is
written before the frame is sent. Restarts while the relay is away count as failures (`overlay.rs:685`).

*Download.* A comment (`download.rs:1202`) excludes that a part is complete; after a crash, a deadline or a failed rename it can be, and the 416 it gets throws it away. A part that is
stale costs its source the whole round: content that does not verify is not asked for again ("重试同一个源没有意义"), though only the resumed bytes were bad. `cleanup_stale_parts` looks for names
that begin with `.shell-remote-upgrade-`; the parts of sources begin with `..shell-remote-upgrade-` (`part_path_for` puts a dot before), so those of
abandoned targets stay. The verified file is said to be resumed by a retry (`upgrade.rs`, step 4) and is not. `smoke_test` has no time-out. What keeps a second task
from changing the file between the hash and its installation is that Linux does not execute a file that is open for writing; on Windows, where
`smoke_test` is skipped, it is the helper's verification after the agent's exit. Of three tasks at a time (two reconnections) that is not enough: after the first has tried its file, the second may rename its own to `part`, the
first puts that in place, whose bytes it reads but which it does not execute again, and the third, which opened it as its own part, still appends to it: 25 steps, which TLC finds with three tasks when
`InstalledIsArtifact` is stated without `~crowded`.

*Files and tools.* `handle_upload_abort` removes whatever its path names, also what a retry has completed meanwhile (`mod.rs:914`–`930`). The end of a session drops open uploads and leaves their partial
files. A browser's POST is answered 200 when its chunks are queued. An older agent that ignores the offset returns bytes from 0 for `bytes=N-`. A call whose PUT client leaves keeps its pending entry. The main loop waits for
room in a command's input queue (`exec_sessions.rs:420`), for as long as the command does not read. Closing reports "killed" for a process that has closed both outputs and lives on; a kill reaches
`sh` only.

*Web.* The end of a page carries no count: if the last chunk's post fails and the end's does not, a short page is finished as whole (`web_proxy.rs:1043`, against the comment at 1025). A page that is cut ends its
chunked response normally. The relay gives back its place before the agent does, so the next request may find the agent busy. A web map retries any failed request without a body on a reused pipe, whatever its method, where the comment
has that the target cannot have handled it (`web_map.rs:1028`): `SentOnce` allows for the second time. It evicts
the oldest mapping of an arbitrary session where LRU is said (`web_map.rs:213`). `POOL_IDLE` is looked at only when the pool is used next (`web_map.rs:731`): four maps with six idle tunnels each hold
all 24 tunnels of a session, and a fifth page is refused until a map expires. A map that is revoked while a request waits for a permit gets a new runtime, which only the sweep removes.

*Bandwidth.* Video frames are asked for past the queue of waiters: as long as frames take what there is, a chunk waits. Between the two steps of `set_rate` another call refills at the new rate for a time
at the old one, and up to a bucket more passes. A sleeper between two notices misses one, which costs it a tick at most.

*Desktop.* A `stopped` of the previous session's uplink may remove the new stream and its init (`mod.rs:1632`, against 1963). The drain drops key frames and inits, where `mod.rs:1637` says only frames that are not keys (section 6, 4). An init is lost
on a full channel (`desktop.rs:204` says never). Frames after `stopped` make a stream that `ws.rs:720` says must not linger. A pipeline that ends by itself leaves `running` set, so a start is ignored (`desktop/mod.rs:706`); a stop that times
out and a start give two pipelines in one stream (`desktop/mod.rs:755`). A `started` that carries an error still sets the snapshot.

*Ways to the picture.* `p2p.rs:38–43` promises that no view stays black. A fetch stream that breaks (`desktop.js:490`–`494`), gets no answer (852–856) or another status than 404 (844–846) is not tried again: the view stays black, with an error on its
status line, until the user or the next `desktop:started` connects it again (`PeersSettle` says `failed`). A browser on the peer session that is told another's answer closes its connection (`desktop.js:625`) and starts nothing itself: what starts the relay's stream
is the close event of the channel, which not every browser fires for a connection it has closed itself (`PeersSettle` says `peering.closes`). `_startWs` does not clear its four-second time-out when the socket fails or is closed: a
second fetch then feeds the same decoder. `skipP2P` during the calibration, the LAN probe or a fetch leaves those going, and two `connect`s in a calibration give two chains (`OneFeed` says `~tangled`). The init goes over the unordered, unreliable channel
once: lost there, the view stays black until the next encoder. A driver that is aborted after it has opened its queue but before its slot is known leaves the queue open until another overwrites it (`QueuesReachable` says `~overrun`).
`lan.rs:78–80` says that the oldest frame is dropped; `try_send` drops the newest. The recorder appends a second header when a file is closed and opened within a second.

## 8 What is not modelled

Components without a module: section 1 and the notes in `PROJECT.json`. Inside the modelled ones:

* *SessionRegistry*: setters of metadata (one lock, no credential); `MintingExhausted` is an artefact of a finite token set.
* *RelayPlane*: message routing, permissions, agents without tokens, metadata and `MAX_SESSIONS`, cancellation of a handler half-way, and what the teardown does
  to desktop, web and tunnel tables; the heartbeat's three reads are one step.
* *UpgradeSwap*: the Windows copy of the helper, two upgrades at once.
* *UpgradeStatus*: removal of the entry with its session, failure kinds, the choice of the artifact, the overlay's frame.
* *TcpTunnel*: malformed messages, argument checks, the byte limit of a batch, `MAX_TOMBSTONES`, the channel of a lost downlink filling up.
* *OverlayHandoff*: owners, modes and digests of files are one fact (intact or not); the other platforms.
* *ArtifactDownload*: name resolution, proxies, tokens, the identity of the artifact, the size limit, progress frames, removal of day-old parts, Windows.
* *AgentServices*: tickets, authentication, capabilities, headers, malformed frames, duplicate ids and audit, and where the limit is asked; the relay and the agent notice a disconnection together; a killed child dies at once.
* *WebMaps*: the quota over all sessions, parsing of targets, rewriting of headers and cookies, TLS; a request body is sent in one piece; the two ends of a tunnel.
* *TokenBucket*: the settings file, statistics, fractions; loading the rate and locking the tokens are one step.
* *DesktopVideo*: pixels, bit rates, statistics, `desktop:congested`, input and clipboard; leaving is one step, the two locks of `started` and `stopped` are one, and so are lookup and push of a frame.

* *DesktopPeers*: ICE, DTLS and SCTP (libraries'), candidates, the recovery of a decoder and the limit of ten retries, the LAN server's fan-out (DesktopVideo's with another front end).

Components without a module, and why: *message routing* apart from its effects (lookups and fan-out), *artifact store* (a function of files), *recording* (append-only files), *admin pages and login* (single reads and
writes), *terminals*, *device probe*, *wire format*, *command line and screens*, *browser client* (data, I/O, presentation). About half of the lines of the source files are tests in the same file.

## 9 Plan

Done, in this order: CredentialDirectory and SessionRegistry (what everything asks), their proofs, RelayPlane (who may talk to whom), UpgradeSwap and UpgradeStatus (the
code whose failure loses a device), TcpTunnel, OverlayHandoff, AgentServices with its parts, DesktopVideo, ArtifactDownload, WebMaps, TokenBucket, DesktopPeers; theorems of UpgradeSwap, TokenBucket, OverlayHandoff,
UpgradeStatus, RelayPlane, AgentServices, ArtifactDownload, TcpTunnel, DesktopVideo and DesktopPeers.

Next: an abstract byte pipe that TcpTunnel implements and WebMaps uses.
