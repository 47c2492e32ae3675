# A verification project for Elfiee

Elfiee (`src/`) keeps a project's blocks, tasks, sessions and permissions as an
event log in `.elf/eventstore.db`. One engine actor per project holds the state
the log amounts to, checks every command against it, commits the resulting event
and applies it. These modules model that engine in TLA+, check it with TLC and
prove its central properties with TLAPS.

Paths below are relative to the Rust crate's `src/` (in `PROJECT.json`:
`src/src/...`); those that begin with `docs/` are the repository's documents.

## 1. The system

### Components

| Component | State | Operations | Talks to |
|---|---|---|---|
| State projection (`engine/state.rs`) | blocks, editors, grants, editor counts, reverse index `parents` | `apply_event`, `replay`, full-state snapshot and restore, lookups | owned by the actor; temporary ones for time travel |
| Grants table (`capabilities/grants.rs`) | editor -> (capability, block) pairs, wildcards | `process_event`, `has_grant`, removal with the editor | part of the projection |
| Capabilities (`capabilities/`, `extensions/`) | none (registry built at start) | certificator; one handler per capability: 9 core and editor, 7 on documents, tasks and sessions | called by the actor |
| Engine actor (`engine/actor.rs`) | projection, mailbox | start (snapshot + increment, or full replay), `process_command`, 11 queries, shutdown with snapshot | event store, cache, callers through oneshot replies |
| Event store (`engine/event_store.rs`) | table `events` | append row by row, read all / by entity / after an id / latest id | actor, bootstrap, scan |
| Snapshot cache (`engine/cache_store.rs`) | table `snapshots`, under the *home* directory | save, latest | actor |
| Project opening (`services/project.rs`) | none of its own | already-open check, bootstrap seed, spawn, register | event store, manager, `AppState` |
| Manager, `AppState` (`engine/manager.rs`, `state.rs`) | open engines, open projects, active editors, broadcast channel | spawn, shutdown, list, notify | services, MCP server |
| Services (`services/*.rs`) | none | reads filtered by permission, commands, time travel | several mailbox messages each |
| MCP server (`mcp/`) | a connection's editor behind a lock | 18 tools, resources by URI, one notification task per client | services, `AppState`, the broadcast channel |
| Command line (`cli/`) | none; a process per command | init, scan, register, unregister, grant, revoke, run, event ... | opens the project itself; writes the agent's files; never sends Shutdown |
| Project directory (`elf_project/`), configuration (`config.rs`, `utils/`) | `.elf/`, `~/.elf/config.json`, `~/.elf/.elftypes` | create, open, load, save | every command, through existence checks |
| Extension generator (`elfiee-ext-gen/`) | the files of an extension, three files of the project it is entered in | create, validate, guide | the file system |
| Models, macro crate | - | types, code generation | - |

### What is hard here

* **Two copies of one truth.** The state served is a cache of the log, the
  snapshot a cache of the state, `parents` a cache of the children lists. Every
  combination of stop, crash, snapshot and replay must bring the same state.
* **Events carry results, not intentions.** `core.link` writes the whole children
  map, `task.write` the whole contents, computed from the state the handler saw.
  That is right only while the state is the log's.
* **Authority is a projection too.** Owner, grants, wildcards, revocation, deleted
  editors: the right to commit is computed from state and lives on in a log.
* **Nothing enforces one actor per store.** Opening checks a table before several
  awaits; closing does not wait for the actor; the command line opens the same
  files in another process. The cache lives outside the project directory, so Git
  can move the store without it.
* **Multi-row, multi-message and multi-file operations**: bootstrap seed, scan,
  registration, permission-filtered reads, generated files. Between any two steps
  another client is served, another process runs, or the process dies.
* **Notices are counted, not kept.** The broadcast channel is bounded, and a client
  that falls behind loses its task.

The complete list, at its lines, is `hazards` in `PROJECT.json`, with the
properties that would catch each going wrong; those without a property carry the
reason.

### What makes each component correct

* Projection: the index mirrors the children, the implement relation is acyclic.
* Handlers: an event changes what its command is about and nothing else.
* Certificator and grants: every event in the log is justified by those before it.
* Actor, store, cache: the state served is the replay of the log; the snapshot is
  the replay of the prefix it is filed under; clocks follow the log; an open
  settles.
* Manager, mailbox and opening: what a client hears of its command is what happened
  to it; the two tables of open projects agree; an engine that is alone on its store
  has seen all of it; nobody waits for an answer that cannot come.
* Services: an answer is what was there, and what was permitted, during the call.
* MCP server: identities do not mix, a commit is announced once, an answer is not
  older than its command.
* Notification tasks: what a client does not know it has been, or will be, told.
* Registration: whatever fails or dies on the way, no file names a half-granted
  editor; what was unregistered, when its registration was over, does not return;
  what the user saved while no command was about to write the file is kept.
* Initialisation: a directory that neither init nor open accepts has somebody at, or
  cut off at, one of two steps; whoever may not act as the system editor met an
  incomplete seed or one for another id.
* Scan: one scan at a time gives no file two blocks, and a scan that is reported done
  left no file it saw without one.
* Generator: what `create` reports done is complete, as far as the project has a place
  for its lines and until a later create is cut off in one of its files; `validate`
  says so, and warns of the rest.

## 2. Modules

| Module | Contents |
|---|---|
| `Projection` | State, Event and their types; `Apply`, with one operator per arm of `apply_event`; `History`/`Replay`; reachability in the implement relation. No variables. |
| `Capabilities` | From a command to its event: `Certified`, `NoCycle`, the handlers (`HandleLink` ...), `Stamp`, `Outcome`. No variables. |
| `Engine` | The actors of one project with its two files: `log`, `minted`, `cache`, and per actor `phase`, `st`, `todo`, `mark`. |
| `EventSourcing` | The promise: a growing log, and answers only from the replay of all of it. |
| `EngineProperties` | The properties of `Engine` and the refinement mapping to `EventSourcing`. |
| `EngineTornCache` | `Engine` with snapshot rows that fail to parse at any field. |
| `EngineRuntime`, `RuntimeProperties` | The engines of one process and their callers: `open_project` and `close_project` step by step, handles, mailboxes, replies, Shutdown. |
| `Services`, `ServiceProperties` | Each service as the messages it sends, with other clients' commands between them, over the State and the commands of `Capabilities`. |
| `McpServer`, `McpProperties` | Connections and their requests, from one access to shared state to the next. |
| `Notifications` | The broadcast channel and the task of each client, with its properties. |
| `AgentRegistration`, `RegistrationProperties` | `elf register`, `unregister`, `run` as processes over the event store and the agent's files. |
| `ProjectSetup`, `SetupProperties` | `elf init`, `run` and every open, over the project directory and the configuration. |
| `FileScan` | `elf init` and `elf scan` over the files of a project, with its properties. |
| `ExtensionScaffold`, `ScaffoldProperties` | `elfiee-ext-gen create` and `validate`. |
| `MC*`, `*.cfg` | The instances TLC runs. |
| `Projection_proofs` | `History` satisfies its recursion; types of `Apply` and of the handlers; each arm of `apply_event` keeps the index and acyclicity; what an event leaves of blocks and owners. |
| `Engine_proofs` | Types; the inductive invariants for one actor, without and with torn snapshots, and what follows; the refinement; what is left of it with several actors on one store. |
| `EngineRuntime_proofs` | The invariant of callers, engines, mailboxes and the tables of open projects. |
| `Services_proofs` | The invariant of the messages of a service call. |
| `McpServer_proofs` | The invariant of requests, identities and announcements. |
| `Notifications_proofs` | The invariant of the notification tasks, for any channel and any number of clients. |
| `AgentRegistration_proofs` | The invariant of registrations and of the user's entries. |
| `ProjectFiles_proofs` | The invariants of initialising and opening, of scans and of the generator: three models of one directory. |

`Engine` extends `Capabilities`, which extends `Projection`. `map` in
`PROJECT.json` names the source lines of every definition. How the actions of
`Engine` correspond to code:

| Action | Code |
|---|---|
| `OpenNew`, `OpenExisting`, `SeedNext` | `open_project`, `seed_bootstrap_events`, one row of `append_events` per step |
| `RestoreSnapshot`, `FetchIncrement` | fast path of `ElfileEngineActor::new` |
| `FetchFallback` | the read after the restore fails: fresh state, full log |
| `FetchAll` | slow path: no cache, an unreadable one, or no snapshot |
| `ApplyNext` | `apply_event`, of the replay and after a commit |
| `ProcessCommand` | `process_command` up to the insert |
| `CloseRead`, `CloseSave` | the two database calls of `save_cache_snapshot`, then the end of `run` |
| `Crash` | the task ends without Shutdown: kill, Ctrl-C, end of a CLI process, an open that fails |
| `CacheLost` | external: somebody deletes `cache.db` |

One action is one statement that touches a file or replaces the state. Between
them an actor only computes on what it owns, so what others do there makes no
difference to it.

How the layers stack: `Engine` shows that one actor on one store is an atomic,
durable log with a faithful state (`EventSourcing`); `EngineRuntime` shows what the
callers of several such actors see through handles and mailboxes; `Services` takes
the engine to be what `EventSourcing` promises and composes its messages into
services; `McpServer` takes a command to be accepted or refused and follows the
requests around it; `Notifications` follows an announcement to the clients.

| Actions of `EngineRuntime` | Code |
|---|---|
| `OpenFound`, `OpenFresh` | look-up in the table of open files (`project.rs:85`) |
| `SeedCheck`, `Seed` | `seed_bootstrap_events`, one row per step |
| `Load`, `Publish`, `Register` | `spawn_engine` before and after its await; `register_file` |
| `OpenFails` | any `?` on the way |
| `CloseFind` ... `CloseForget` | `close_project`, `shutdown_engine`: handle, Shutdown, drop, forget |
| `SweepList`, `SweepNext`, `SweepClear` | `shutdown_all` |
| `Lookup`, `GetHandle`, `Deliver` | a service finds the project, clones the handle, sends, waits |
| `Commit`, `Refuse`, `Read`, `History` | arms of the actor's loop, with the reply |
| `TakeShutdown`, `Stop`, `Abandoned` | the ways the loop ends, and the mailbox with it |

| Actions of `Services` | Code |
|---|---|
| `Begin`, `Message` | a service call and its messages, service by service (`block.rs`, `document.rs`, `task.rs`, `session.rs`, `editor.rs`, `grant.rs`, `event.rs`) |
| `Elsewhere` | another client's command, from `Menu` |
| `CloseEngine` | the project is closed under the call |

| Actions of `McpServer` | Code |
|---|---|
| `Receive` | a tool call or resource request arrives |
| `Authenticate`, `Release` | `elfiee_auth` takes the identity's write lock; the skill guide is read under it |
| `OpenProject`, `CloseProject`, `List` | `elfiee_open`, `elfiee_close`, `elfiee_file_list`, `list_resources` |
| `GetFileId`, `GetConnectionEditor`, `GetEngine` | the three look-ups every tool starts with |
| `Accept`, `Refuse`, `Announce`, `Look` | `execute_capability`: command, broadcast, read for the answer |
| `ReadBlocks`, `ReadBlock`, `ReadHistory`, `ReadPast` | the reading tools |
| `Route`, `Resolve`, `Unresolved` | `read_resource`: one of the open projects whose path begins the URI, its engine |
| `ProjectResource`, `EventsFail`, `BlockResource`, `OwnResource` | the resources of a project, of a block, of one's own |

| Actions of `Notifications` | Code |
|---|---|
| `Announce` | `notify_state_changed` |
| `Connect`, `Disconnect` | a client is served; its peer goes away |
| `Task` | one step of the spawned task: subscribe, receive, notify (`transport.rs:60-85`) |
| `Fetch` | the client reads again because it was told |

| Actions of `AgentRegistration` | Code |
|---|---|
| `StartRegister`, `CreateEditor`, `GiveGrant`, `AllGranted` | `register`: look-up, one command per grant |
| `ReadMcp`, `WriteMcp`, `ReadSettings`, `WriteSettings` | read, change in memory, write, of the two files |
| `InstallSkill`, `RemoveSkill` | the skill directory |
| `StartUnregister`, `DeleteEditor` | `unregister` |
| `Serve` | `run` when every role is registered |
| `Fail` | a `?`: the engine refuses, a file does not open |
| `Die` | a killed process, or a write that fails (the file may be torn) |
| `UserSavesMcp`, `UserSavesSettings` | external: the user's own tool, at any time |

| Actions of `ProjectSetup` | Code |
|---|---|
| `LoadConfig`, `EmptyConfig`, `SaveConfig` | `get_system_editor_id`: read, empty the file, write it |
| `ConfigFails` | any error of it, for which the callers take `system` |
| `CheckAbsent`, `MakeDirectory`, `MakeStore`, `EmptyProjectConfig`, `SaveProjectConfig` | `ElfProject::init` |
| `Find` | `ElfProject::open`, which may have a `config.toml` to write |
| `CheckSeed`, `AppendSeed` | `seed_bootstrap_events`, one row per step |
| `SpawnEngine` | `spawn_engine`: the replay of what is there |
| `ScanFiles`, `Act` | what follows: files in, or a command of the system editor |
| `GiveUp` | any `?`, or a killed process |
| `Move` | the directory on another machine |

| Actions of `FileScan` | Code |
|---|---|
| `OpenProject`, `ScanProject`, `ReadFile` | `elf scan`: the list of blocks, then the walk or one file |
| `InitProject`, `AppendEvent` | `create_blocks_for_files`, row by row |
| `UpdateBlock`, `CreateBlock`, `WriteBlock`, `Finish` | `run_batch`, `run_single_file`, command by command |
| `WriteRefused` | `document.write` on a block that got another type |
| `EditFile`, `EditTypes`, `ScanDies` | the user, and a killed process |

| Actions of `ExtensionScaffold` | Code |
|---|---|
| `Create`, `WriteFile` | `CreateCommand::execute`: render, then write file by file |
| `EnsureExtensionModule`, `UpdateRegistry`, `UpdateSpectaTypes` | the amendments |
| `Missing`, `NoPlace` | the file to be amended, or `register_extensions` in it, is not there |
| `Fail` | a write fails before it changed the file, or the user interrupts between two |
| `FileCutOff`, `ModulesCutOff`, `RegistryCutOff`, `TypesCutOff` | the same, in the middle of a write |
| `Validate` | `Validator::validate_extension` |

### Abstractions

* Total functions with `None` stand for hash maps, sets for lists whose order no
  operation uses (children, parents, grants).
* Names, texts and entries are members of `Text`. `name` stands for name and
  description. A block's contents are three fields: the document's text and two
  of the four task fields; a session's entries and the keys `source` and `format`
  are not fields, since no handler writes them after creation and, in the code as
  it is, no event ever changes a session's entries.
* Event ids are numbers from a counter instead of uuids; only their equality is
  used. A new block's id is one the log does not mention, in an event's entity or
  a children map: a dangling link can never meet a fresh uuid.
* An editor's id in `editor.create` is the payload's; one the handler draws itself
  is a member of `Editor` no event has mentioned.
* Block and editor ids are different values, neither is `*`.
* Commands have the shape the services build: the block of a grant or revoke
  command is the payload's target. Malformed payloads are rejected before any
  state is touched, as every rejection; a rejected command, and a read
  capability, which emits nothing, change nothing and are no step.
* Every handler emits at most one event, so the loop in `append_events` matters for
  the seed only, and there it is one step per row.
* `has_conflict` is left out: it compares a count with itself and only logs.
* Every event the handlers and the seed write has mode full, except
  `session.append`, whose events no arm of `apply_event` takes; the branches for the
  other modes are unreachable.
* SQLite makes one INSERT atomic and durable.
* `EngineRuntime` does not look into events: an entry is the command it is of. What
  certificator and handler decide is a choice between `Commit` and `Refuse`.
* `McpServer` likewise accepts or refuses any command whose capability is
  registered; a path is a model value, and `Begins` says which path's text begins
  another's. Of several open projects that a URI may mean, it takes any.
* `Notifications` counts changes instead of describing them, as the code's notice
  has no content.
* In the file modules a file is absent, torn or whole, and its contents are the
  entries that matter: the user's, the agent's, a text. Reads and writes of a file
  are steps; a write that is interrupted tears the file. `fs::write` empties a file
  before it writes: in `ProjectSetup` these are two steps, since there another process
  may take the empty file for a configuration; in `AgentRegistration` the empty file
  is an error for whoever reads it (`Fail`), or what is left (`Die`).
* `ProjectSetup` has of the store which rows of which id's seed are in it. What is
  in it besides belongs to the other modules.
* `ExtensionScaffold` has sets of lines for texts, and a name is what the case
  conversions make of it: words and pieces. `layout` and `anchored` say where the
  project's files have places for new lines. A write of such a file that is cut off
  keeps all or none of the old lines that matter, and the file may not parse any more.
* `skill` is changed as the commands change it; nothing reads it.
* Some variables are history and belong to the properties: `safe` and `removed`,
  with the field `settled`, in `AgentRegistration`; `names`, `cut` and the fields
  `seen` and `short` in `ProjectSetup`; `torn` and `last` in `ExtensionScaffold`;
  `call.from`, `call.lost` in `Services`.

## 3. What is checked

`graph` and `auth` have one actor at a time, which is how the code means it. Nothing
enforces it, so `several` has two, and the properties that survive the second;
`two_snapshot` shows one that does not.

| Run | Instance | Shows |
|---|---|---|
| `graph` | `Engine`: 3 blocks, 1 editor; create, all links and unlinks incl. dangling and self links, delete; 5 seed events and 6 more | `ViewIsReplay`, `SnapshotCoherent`, `IndexAgrees`, `ImplementAcyclic`, `LinksKeepOthers`, and the type invariant `TypeOK` |
| `auth` | `EngineTornCache`: 3 editors, 1 block; create, task writes, wildcard and block grants, to an editor and to everybody, revocation, deletion of an editor and of the block; snapshots that fail at any field; 7 seed events and 5 more | `EventsAreAuthorised`, `ClocksFollowLog`, `WritesKeepOthers`, `PromiseKept` (the refinement) |
| `several` | `Engine` with two actors: 1 editor, 2 blocks; create and task writes; 3 seed events of each actor, interleaved or cut short by a crash, and commands while the log is shorter than 4; fair | `ServesReading`, `EventsAreOutcomes`, `OpenSettles` |
| `runtime` | `EngineRuntime`: 2 clients of 3 calls each, 2 paths, 2 file ids, every call | `ToldTrue`, `TablesAgree`, `SoleEngineSeesAll`, `WaitersAreHeard` |
| `reads` | `Services`: 3 editors, of which one has an id that begins with `editor-`, 2 blocks, 5 events and 3 more; every service, a store that may fail; grants to an editor and to everybody, revocation, deletion | `ReadsArePermitted`, `HistoryIsWhole`, `ListIsRight`, `EventListIsRight`, `PastIsOneInstant`, `TasksAreDescribed` |
| `agents` | `McpServer`: 2 connections, 3 requests at a time, 2 projects, of which one's path begins the other's; 14 kinds of requests | `ActsAsItself`, `Announced`, `AnswerIsFresh`, `ResourcesResolve` |
| `notices` | `Notifications`: 2 clients, a channel of 2, 5 changes; fair | `StaleIsTold`, `EndedLate`, `Catches` |
| `registration` | `AgentRegistration`: 2 processes, 2 editors, a team of two roles and a role on a missing block, one directory where the user's tool saves a server and a setting, at any time | `NamedIsComplete`, `TeamIsComplete`, `RemovedStays`, `UserEntriesKept` |
| `setup` | `ProjectSetup`: 2 processes, 3 ids, a seed of 3 rows; errors and kills at every step, and moves | `NotStuck`, `SystemMayAct` |
| `scan` | `FileScan`: one scan at a time, 3 files (one ignored, one named like a task, one that the user's own `.elftypes` gives another type), 2 texts and binary, 4 blocks, 3 changes | `OneBlockPerFile`, `ScanIsComplete` |
| `scaffold` | `ExtensionScaffold`: 2 extensions, one in capitals, and a name that is refused; 2 capabilities, of which two joined names coincide; 3 creates, which may be cut off in any write; project files of any layout, with an anchor or not, and any of them missing | `DoneIsClean`, `DoneIsComplete` |
| `two_snapshot` | `Engine` with two actors | `SnapshotCoherent` is violated |

**Bounds.** `MaxLog` bounds commits by clients (the seed is always complete or
cut by a crash). Six commands suffice in `graph` for three creates and the three links
of a would-be cycle, or create, create, link, delete, unlink with a restart between any
two; five in `auth` for grant, create, grant to another, revocation or deletion, and the
attempt to write after it. In `several` one command after a seed, or two after a seed cut
short at its first grant, are enough for one actor to miss what the other committed, to
commit on that state, to save it, and for the next to start from it; its properties are
proved for any length. `core.write`, `document.write`, `task.commit`,
`session.append` and `editor.create` are issued in `reads` only: in `Engine` every command
takes the same path, and the theorems are for every menu. Restarts,
crashes, lost caches and refused snapshots are not bounded at all: they do not
make the log longer. `RegistryOrders` lists one of the orders in which the
registry's hash map can enumerate its capabilities: which grants of a partial seed
are missing is all that depends on it.
`MaxCalls` is 3: open, close and open again, or open, send and close, with another
client at every point of them. Three events on top of the seed of `reads` are a
grant, what it allows and its end, inside one call of two messages. `MaxLog` is 1
per project in `agents`: an answer is stale, or an announcement missing, after the
first commit or never; the invariants are proved for any length, and those of
`runtime` for any number of calls. Five changes overrun a channel of two twice. Processes of `registration`, `setup` and `scan`
start again as often as they like; ids are finite (an id is handed out once, as a
uuid), so that `registration` has one team, or two registrations that fail on the way,
with any number of `unregister`s beside them, and `setup`
may generate a system editor's id three times: two first commands at once and one after
a move. Two rows of its seed are grants, so that a seed may be cut with one of them
missing. `MaxCreates` is 3: an extension, a second create of it or of another, and one
after that, each of which may be cut off. Requests of connections, deaths and
failures are not bounded.

**Symmetry.** Block ids in `graph` and `scan`, clients, paths and file ids in
`runtime`, the two requests of one connection in `agents`, processes and ids in
`registration` and `setup`: their instances mention none of these by name. Runs with
liveness properties use no symmetry.

**Deadlock** is not checked where the system may stop: menus, ids or calls run out
(`CHECK_DEADLOCK FALSE`). It is checked in the runs of `Engine`, in `agents` and in
`setup`: an engine can always be stopped and started, a request ends, and a command
can be given again.

**Fairness.** `Engine`'s `FairSpec` gives every actor weak fairness on the steps it
takes by itself until it serves, and on finishing a shutdown it began: tokio polls a
task that is ready, and no step of the start waits for anybody. No command, shutdown,
crash or open is fair: nobody owes them. `OpenSettles` therefore says that an open
ends in an actor that serves or in the end of its process, with two actors as with one. `Notifications`'
`FairSpec` has the task of each client run when it can, for the same reason, and has
clients read what they are sent: that the transport drains a connected client is its
part of the protocol, and a client that is gone is `Disconnect`. `Catches` excuses a
task that ended behind a burst, for nothing restarts it; `EndedLate` says when only
that may happen.

**Disagreement found** (`findings` in `PROJECT.json`, with the quotation): with a
second actor on the store, `save_cache_snapshot` files a state under an event the
state does not contain. A close followed at once by an open is enough, since
`shutdown_engine` does not wait; so is an `elf grant` beside a server. The
documented equivalence of a start with and one without the cache fails.

**What the code does not promise.** The properties leave out, by a condition that
the comment in the module names, what the models have and the code does not keep.
A reader who drops the condition gets the counterexample:

* *One actor per store.* Two opens of a path at once both find it closed
  (`project.rs:85`); a project opened again after a close has a second engine while
  the first works through its mailbox (`manager.rs:74`); of two opens of a new
  project one may serve on the other's first seed row (`project.rs:29`). Hence
  `Once` in `SoleEngineSeesAll`, and `OneActor` in the proofs. With two actors a
  link event may also undo another link (`link.rs:37`), an event may rest on a grant
  that was revoked, and a graph with a cycle may be served. What remains is in
  section 4, *Several actors*.
* *Lost updates.* A command is committed though another editor's was committed
  after it was issued (`actor.rs:429`).
* *Replaced stores.* If the store is replaced by an earlier version of itself, the
  cache's event id is unknown, the increment is empty instead of an error, and the
  abandoned state is served (`event_store.rs:172`).
* *Partial seeds.* A crash among the bootstrap rows leaves a project without some
  grants for good (`event_store.rs:95`). A restore that fails has assigned the
  fields before the bad one (`state.rs:515`); `auth` shows that the replay after it
  repairs that.
* *Appends.* `session.append` events are committed and no arm of `apply_event` takes
  them (`state.rs:150`), although `docs/concepts/engine.md:126`,
  `docs/concepts/event-system.md:39` and `session_append.rs:10` say that they append
  to the session's entries. No property speaks of a session's entries.
* *Lists.* Blocks granted to everybody are missing from `list_blocks`
  (`block.rs:13`). A comment says that events about editors are not filtered
  (`event.rs:7`, `:15`); those about editors whose id does not begin with `editor-`
  are (`event.rs:16`), and `docs/guides/cli-reference.md:99` gives ids that do not.
  `EventListIsRight` requires the events of those that do (`Prefixed`) and leaves the
  others open.
* *Tasks.* `create_task` passes over a store that fails under its second command and
  reports a task without its description (`task.rs:68`; `call.lost` in
  `TasksAreDescribed`).
* *MCP.* With one project's path the beginning of another's, a resource may be
  looked for in the wrong project and reported unknown (`server.rs:1157`), although
  it is listed; `ResourcesResolve` says what remains: no other project's data is given
  as this one's, and nothing is unknown for another reason; the editor tools run capabilities no registry holds (`server.rs:794`);
  `elfiee_block_list` needs authentication (`server.rs:567`); a connection that
  authenticates anew is refused meanwhile (`server.rs:204`); the parent of
  `elfiee_block_create` is not linked (`server.rs:660`).
* *Notices.* A task that lagged is not restarted (`transport.rs:68`), so that its
  client is told nothing more, where `docs/guides/mcp-tools-reference.md:724` and `:898` have
  every connected client told; and a change
  before the subscription is not announced (`transport.rs:66`; `joined` in the
  properties).
* *Registration.* `unregister` removes another agent's entries from a shared
  directory (`unregister.rs:43`), and it does not look whether the editor's own
  registration is still at work, which then goes on to give grants and to write its
  entry (`unregister.rs:12`; hence `settled` in `RemovedStays`). What the user's tool
  saves between a command's read and its write is lost (`register.rs:306`; `safe`
  leaves it out), and so are all servers under `mcpServers` of `settings.local.json`,
  the user's too (`register.rs:314`).
* *Setup.* An error or a kill between making `.elf` and making the store leaves a
  directory that init refuses as there and open as without a store
  (`elf_project/mod.rs:60`); one while `config.toml` is written leaves a file that
  open refuses (`NotStuck` says that nothing else does). A seed that is cut short is
  never completed (`event_store.rs:95`). Two first commands may generate two
  system editors (`config.rs:55`), a configuration that is just being written is
  empty and makes its reader `system` (`config.rs:83`), and on another machine there
  is always another id: then the system editor may have no grants
  (`project.rs:33`); `SystemMayAct` says that there is no other reason. Two inits at once
  both succeed (`elf_project/mod.rs:52`); opening a path that is not there is an error
  (`project.rs:96`).
* *Scans.* Two scans at once make two blocks for one file (`scan.rs:266`): the run and
  the proofs have one at a time, so that a list of blocks that is stale because of a
  second is not in what they show. Files with unlisted extensions get blocks
  (`block_type_inference.rs:93`); the user's `.elftypes` is written over, and if that
  fails is used (`block_type_inference.rs:36`), and a file which it gives a type
  other than document gets an empty block, at which the scan ends with an error.
* *Generator.* An extension that is registered nowhere passes `validate` with
  warnings (`validator.rs:72`). A `lib.rs` without an anchor, as the repository's own
  is and that of the fixture in `create.rs:139`, gets no types and no error
  (`create.rs:325`), and register lines go after the last `self.register(` in the file, which
  need not be in `register_extensions`, the only place `validate` looks at
  (`create.rs:291`, `validator.rs:410`): `Misplaced` in `DoneIsClean`, which has
  `validate` warn of them. Names in capitals are registered by one
  conversion and looked for by another (`validator.rs:247`), and `mod.rs` declares them
  as they are while the files are named by the conversion (`generator.rs:136`). Joined
  names may coincide (`create.rs:283`); a second create drops the first one's
  capabilities from `mod.rs` (`generator.rs:120`), hence `Handlers(e) \subseteq
  declared[e]` in `Done`. A write that is cut off may take the lines of other
  extensions with it (`file_ops.rs:50`; `torn`).

**Mutants.** Each property of a passing run has a mutant in the module it is
about (`..._KeepsGrants`, `CloseRead_Early`, `NoCycle_SelfOnly` ...): a plausible
slip that the property catches in that run.

## 4. What is proved

**The engine** (`Projection_proofs`, `Engine_proofs`). For every set of editors, blocks
and texts, every registry, every menu of commands and every bound on the log, from the
assumptions named in the modules (ids are distinct from `None` and `*`, the menu contains
commands, the registry's orders enumerate it):

| Theorem | Statement |
|---|---|
| `TypesKept` | `Spec => []TypeOK`, for any number of actors |
| `SoloSafety` | `Spec => []SoloInv`, the inductive invariant |
| `ServesReplay` | `Spec => []ViewIsReplay` |
| `SnapshotsAgree` | `Spec => []SnapshotCoherent` |
| `IndexStaysMirrored` | `Spec => []IndexAgrees` |
| `GraphStaysSound` | `Spec => []ImplementAcyclic` |
| `LinksAreSingle` | `Spec => []LinksKeepOthers` |
| `EngineKeepsPromise` | `Spec => PromiseKept`: `Engine` implements `EventSourcing` |
| `TornSafety` | `TornSpec => []TornInv`, the invariant with snapshots that fail at any field |
| `SpecIsTorn` | `Spec => TornSpec` |
| `ReplayRepairs` | `TornSpec => []ViewIsReplay` |
| `TornKeepsPromise` | `TornSpec => PromiseKept`: the refinement, also where a restore is given up half-way |
| `LogJustifiesItself` | `TornSpec => []EventsAreAuthorised` |
| `ClocksSayTheOrder` | `TornSpec => []ClocksFollowLog` |
| `WritesAreMerged` | `TornSpec => []WritesKeepOthers` |

All of these but `TypesKept` and `SpecIsTorn` assume `OneActor`; the run `two_snapshot` shows that the
assumption is needed.

**The argument.** `ViewIsReplay` alone is not inductive: a start goes through
states in which nothing is served. `SoloInv` says what each stage of an actor's
life has in hand:

* `ActorSound`: while an actor starts or has just committed, its state and the
  events it has yet to apply together make up the log (`Covers`: the state is
  `History(log)[k]` for some `k`, the rest is the log from `k + 1`). Between
  restore and read, the state is the replay up to the event it remembers. Between
  the two halves of a shutdown it is the replay of all. An empty `todo` then makes
  the state the replay of the whole log (`ServedWhole`).
* `SnapshotCoherent` supplies the restored state, `IdsSound` (ids are used once)
  makes "the events after this id" the right suffix.
* `LogSound`: every event `Fits` the state the log led to before it: no block
  created twice, a link adds one child that closes no cycle, an unlink removes at
  most one. It holds for a new event because the state the command was checked
  against is the replay (`OutcomeFits`), which is what ties the checks in front of
  the handler to the log. From `Fits`, `ApplyKeepsGraph` gives a sound graph in
  every `History(log)[i]`, and `LinksKeepOthers`.
* `TypeInv` adds to `TypeOK` that a started actor finds a log that is not empty.

`Downstream`, the set a depth-first search visits, is defined as the least closed
set, so that reachability needs no recursion: adding a link is acyclic because
the complement of what reaches the source is closed (`Separated`, `OneMoreKid`).
That `History`, a recursive function, satisfies its equations, and that the
history of a longer log extends that of its prefix, is proved from the least
number principle (`LeastNat`, `ReplayExists`, `ReplayUnique`).

The refinement maps `view` to the state of the actor that serves, `None` while
none does. `ProcessCommand` and `SeedNext` are `Commit`; the step that empties
`todo`, or a fetch that finds nothing to replay, is `Reveal`; shutdown and crash
are `Withdraw`; the others stutter (`PromiseNext`).

**What the log says.** `LogMade`: every event was `Made` from the state the log led to
before it, that is, the certificator's answer can be read off it (`Licensed`), it keeps the
fields it is not about (`KeepsFields`), and its clock is above that state's counts
(`Stamped`). That alone speaks of states, and the properties of events only. `Backed`
goes from the one to the other, by induction over the log: a block that is there rests on
its creation with no deletion since, its owner on that event, a grant on an event that
made it and none that took it away. The counts of a state are the highest entries of the
clocks before it, hence `ClocksFollowLog`.

**Half a restore.** After a restore that failed at a field the actor replays the whole log
on top of what it assigned. `Mends` says of the state after `k` events that it differs from
the proper replay of these `k` only by what the snapshot, a replay of some `m` events, put
there and the events still to come will put there again: a block whose creation is still
to come, a grant that the rest removes or makes, counts that the rest exceeds. At the end
nothing is still to come (`Mending`, `ReplayRepairs`).

**Several actors** (`Engine_proofs`, without `OneActor`). An actor knows the events it
read when it started and those it committed; what others commit meanwhile it never
sees, and the snapshot it leaves passes the gap on.

| Theorem | Statement |
|---|---|
| `ManySafety` | `Spec => []ManyInv`, the inductive invariant |
| `StatesAreReadings` | `Spec => []ServesReading` |
| `EveryEventIsAnOutcome` | `Spec => []EventsAreOutcomes` |
| `NobodyActsWithoutGround` | `Spec => []EventsHaveGrounds` |
| `ParentsStayTrue` | `Spec => []ParentsAreTrue` |

A *reading* of the log is a state that one comes to by applying its events in order and
leaving out some (`Readings`; that this recursive function satisfies its equations is
proved as for `History`, `ReadsExist` and `ReadsUnique`). `ManyInv` says of an actor that
serves or catches up that its state is a reading of the first `k` events, and that what it
still has to apply are the events `k + 1` to `n` (`Awaits`); of one between restore and
read, or between the two halves of a shutdown, that its state is a reading up to the event
it remembers (`Reached`); and the same of the snapshot. A commit puts the event at the end of
the log, so that the actor applies it last and the others leave it out: no event is ever
applied twice, or after a later one. The actor's state is a reading when it checks a
command, hence `EventsAreOutcomes`.

`EventsHaveGrounds` and `ParentsAreTrue` are read off that, through what every reading
satisfies. Blocks and grants of a reading rest on events of the log (`Rooted`), so that an
event is never committed on the strength of a grant nobody made or a block nobody
created; that the grant had been revoked before is what the second actor may miss. New
blocks get ids that the log does not mention, so that no reading creates a block twice, and
no arm of `apply_event` leaves a parent whose children do not name the child
(`ApplyTrue`, one lemma for each arm that touches the index). The converse, a child whose
parent is missing from the index, is what an unlink made from an older list leaves behind.

**Callers and engines** (`EngineRuntime_proofs`), for every number of clients, paths,
file ids, seed rows and calls, from `NoneAssumption` (the name of no caller, file,
path or operation is `None`), `OpsAssumption`, `SeedRowsAssumption` (a seed has a row)
and `MaxCallsAssumption`; nothing is assumed about how many engines a project has:

| Theorem | Statement |
|---|---|
| `RuntimeInvariant` | `Spec => []IInv`, the inductive invariant |
| `AlwaysToldTrue` | `Spec => []ToldTrue` |
| `WaitersAlwaysHeard` | `Spec => []WaitersAreHeard` |
| `TablesAlwaysAgree` | `Spec => []TablesAgree` |
| `SoleEngineAlwaysSeesAll` | `Spec => []SoleEngineSeesAll` |
| `RuntimeTyped` | `Spec => []TypeOK` |

`IInv` adds to the types: `Callers`, what a call is about at each of its stages;
`Homes`, that an engine belongs to the path it was drawn for, and that tables and the
calls past an opening know published engines only; `Owns`, that a call that opens has
a file id no other call knows, but for a `shutdown_all` that finds the engine in the
table; and `Boxes`, that a caller waits exactly while one message of its own lies in the
mailbox of an engine that is alive. `TablesAgree` needs `Owns`: without it a close
could take away the entry that an open is about to make. `WaitersAreHeard` is `Boxes`,
counted: every way an actor's loop ends answers, or drops, the whole mailbox in the
same step. `ToldTrue` needs `Dated` besides (no entry bears the tag of a command still
in progress) and `Boxes`, so that a commit answers the one command it is of.
`SoleEngineSeesAll` needs `Loaded`, the same of an engine read but not yet published,
and `Owns`, so that the one who seeds and loads is the only one.

**The notification tasks** (`Notifications_proofs`), for any number of clients, any
length of the channel and any number of changes:

| Theorem | Statement |
|---|---|
| `NoticesTyped` | `Spec => []TypeOK` |
| `StaleClientsAreTold` | `Spec => []StaleIsTold` |
| `TasksEndLate` | `Spec => []EndedLate` |

`StaleIsTold` speaks of a client that shows something old; what makes it inductive is
the converse, `Covered`: of a task that waits and has nothing left to pass on, the
client has seen everything up to the receiver's position. A fetch sees everything, so
it restores `Covered` whenever it consumes a notice.

**The MCP server** (`McpServer_proofs`), for any number of connections, overlapping
requests and projects, and any menu of requests:

| Theorem | Statement |
|---|---|
| `EachActsAsItself` | `Spec => []ActsAsItself` |
| `AnswersAreFresh` | `Spec => []AnswerIsFresh` |
| `EachIsAnnounced` | `Spec => []Announced` |
| `ServerTyped` | `Spec => []TypeOK` |

`McpInv` says of a request at each of its stages what it carries (`Underway`): from
the look-up of the identity on, the identity is one its own connection may have
authenticated as (`Identified`: what stands behind a lock is such a one, and
`LocksAreOwn`: only requests of the connection hold it); after the commit, the number
of its event is within the project's log. That makes `ActsAsItself` and `AnswerIsFresh`
step by step. `Announced` is counted: `Owing(p)` is the set of requests about to
announce a commit on `p`; a commit adds its request to the set and an event to the
log, an announcement takes it out (`AnnouncedAccept`, `AnnouncedAnnounce`), and closing a
project or any other step leaves the set as it is (`StepsAside`).

`ResourcesAreKnown` (`Spec => []ResourcesResolve`) is for any paths and any relation
`Begins` in which each begins itself: a request whose URI was taken for one of a project
has been through `Route`, which takes only projects whose path begins the URI, and the
answer is decided by whether that project is the one the URI names.

**The services** (`Services_proofs`), for every seed, menu of others' commands and set of
calls, and any number of steps of others between two messages:

| Theorem | Statement |
|---|---|
| `ServiceSafety` | `Spec => []ServiceInv` |
| `ReadsWerePermitted` | `Spec => []ReadsArePermitted` |
| `HistoriesAreWhole` | `Spec => []HistoryIsWhole` |
| `ListsAreRight` | `Spec => []ListIsRight` |
| `EventListsAreRight` | `Spec => []EventListIsRight` |
| `PastsAreOneInstant` | `Spec => []PastIsOneInstant` |
| `TasksGetDescribed` | `Spec => []TasksAreDescribed`, if `core.write` is registered |

`ServiceInv` has three parts. `Engine`: the states are those the log goes through
(`Shape`), a block that is or was there is mentioned in the log (`Known`), so that no event
creates it a second time and it keeps one owner (`OwnersStay`). `Underway`: what a call
carries from a message to the next is of an instant since the call began (`Checking`,
`Listing`, `Filtering` ...). `Answers`: the properties, which a log that grows cannot
break. In `Filtering` the events sifted and the events to come are together a prefix
of the log; `TasksGetDescribed` needs `OwnersStay`, for what lets the second command
through is that its author created the block. It excuses a store that failed, and no
refusal.

**Registration** (`AgentRegistration_proofs`), for any number of processes, agents and
directories, any templates, and any deaths, failures and torn files:

| Theorem | Statement |
|---|---|
| `RegistrationSafety` | `Spec => []RegistrationInv` |
| `NamedAreComplete` | `Spec => []NamedIsComplete` |
| `TeamsAreComplete` | `Spec => []TeamIsComplete` |
| `RemovedIsGone` | `Spec => []RemovedStays` |
| `UserIsKept` | `Spec => []UserEntriesKept` |

`Working` says what each process has done by its stage: what is granted and what is left
make up the role, or the editor was deleted since (`Done`), and from the first file on
nothing is left. `Named` then holds of every file. An `unregister` that found the
editor's registration over (`Settled`) has an editor that nobody can bring back: ids are
not given again, and no process has it in hand but to remove it. That is what `Removed`
keeps for every pair in `removed`; an `unregister` beside a registration at work makes no such
pair. `UserIsKept` rests on what commands remember between reading and writing: what is
safe of a file is in the file and in the copy that any process is about to write
(`SafeWith`). A save with a writer in between does not become safe, so that the order of
commands does not matter; a torn file has nothing safe.

**The files of a project** (`ProjectFiles_proofs`), whatever dies or fails on the way:

| Theorem | Statement | Assumes |
|---|---|---|
| `SetupSafety` | `Spec => []SetupInv` | |
| `NeverStuck` | `Spec => []NotStuck` | |
| `SystemIsNoStranger` | `Spec => []SystemMayAct` | |
| `ScanSafety` | `ScanSpec => []ScanInv` | `OneScan` |
| `FilesHaveOneBlock` | `ScanSpec => []OneBlockPerFile` | `OneScan` |
| `ScansAreComplete` | `ScanSpec => []ScanIsComplete` | `OneScan` |
| `MakeSafety` | `ScaffoldSpec => []MakeInv` | |
| `DoneMeansComplete` | `ScaffoldSpec => []DoneIsComplete` | |
| `DoneMeansClean` | `ScaffoldSpec => DoneIsClean` | |

`SetupInv`, of initialising and opening for any number of processes, ids, rows, errors,
kills and moves: a store or a `config.toml` that is missing or torn has somebody at it, or
somebody who was cut off there (`NotStuck`); every row of a seed is for an id that was
given out, and the seed it is of is complete, being appended or cut short (`SeedInv`,
`Seeded`). Who appends has put in the rows before the one it is at (`Appending`), so that
a seed nobody is at and nobody was cut off in is whole. An engine that was started while
no seed was unfinished has therefore read whole seeds only, and at least one (`Seen`):
if its process is still refused, they are another id's, which is `SystemMayAct`. Nothing
is said of how many ids there are.

`Tidy`, of one scan at a time and any files, contents and changes: what the scan is
through with is in blocks, and every block it did not find when it opened it made for
such a file, or for the one at hand. So the list of blocks from the beginning of a scan
is enough to know whether a file has one (`MakesFirst`). With two scans it is not
(`scan.rs:266`), hence `OneScan`.

`AtWork`, of the generator, any names and any layout of the project's files: what the
create in progress has done by its step, on top of whatever earlier ones left; `Left`,
what a create that was reported done leaves until the next one of the same extension
begins: its own files, and its lines (`Entered`) in those files of the project that no
later create was cut off in. A step writes to the extension of its create only
(`Spares`), and lines go only from a file that is cut off (`Keeps`); hence no other
create disturbs `Left`. `DoneMeansClean` compares `Left` with what `validate` looks for.

**Model-checked only.** `OpenSettles` and `Catches` are liveness under fairness, which is
out of the prover's reach. Every other property of a passing run is stated by a theorem,
on the conditions named above, each of which the run's instance satisfies.

**Proved only.** The type invariants, `EventsHaveGrounds` and `ParentsAreTrue` with
several actors, and the inductive invariants themselves; `TypeOK` of `Engine` is checked as
well, in `graph`.

## 5. What is not modelled

* The macro crate, and in the generator `guide` with its analyzer: they turn text into
  text and keep no state.
* The per-block operations of `CacheStore` and their counterparts in
  `StateProjector`, and `active_editors` in `AppState`: nothing outside tests and their
  own accessors uses them.
* `elf event`, `status`, `block` and `resolve`, which print; JSON schemas of tools and
  the wording of answers; time and path utilities, which are pure functions.
* Texts byte by byte: the preview that cuts a text inside a character
  (`server.rs:300`) is listed as a hazard without a property.
* SQLite, tokio and the MCP transport are taken at their word: an INSERT is atomic and
  durable, a channel keeps its order, a ready task is polled.

## 6. Plan

The plan of this project was: the engine and its promise, then its callers, the services
and servers around it, the processes that share its files, and for each the proof of what
its run checks. That is done. Open:

* With several actors, which events a reading leaves out: those that others committed
  while the actor, or one whose snapshot it goes back to, was serving.
* A model of a store that is replaced under its cache (`event_store.rs:172`).
* The composition of `Services` with `McpServer`, whose models of the engine are both
  `EventSourcing` but are not linked by a refinement.
