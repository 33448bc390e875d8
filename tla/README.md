# WBO in TLA+

TLA+ models of the WBO collaborative whiteboard (`lovasoa/whitebophir`), model
checked with TLC and, in part, proved with TLAPS. They follow a drawing
operation through its life: a tool draws it and paces it out, the page buffers
it, the server checks who may write, how fast, in which form and where; it is
sequenced, broadcast, kept in a replay log, folded into a stored SVG, and brought
to every page that was elsewhere when it happened, or taken back where it was
drawn.

Modules, configurations and checks:

    tlc -config MCReplayLog.cfg MCReplayLog.tla      # and the other MC*.cfg
    tlapm ReplayLogProofs.tla                        # and the other *Proofs.tla

`PROJECT.json` lists the runs, the mutants, the source lines of every
definition, the findings, the hazards and the theorems.

## 1. Inventory

| component | source | state it keeps | operations |
|---|---|---|---|
| replay log | `server/board/mutation_log.mjs` | newest and persisted sequence number, accepted mutations since the replay floor | append, readFrom, markPersisted, trimPersistedOlderThan |
| board registry and replay pins | `server/board/registry.mjs` | `loadedBoards` (name to promise of an instance), `replayPinsByBoard` | get/set/delete, pin, prune, discard, reset |
| save scheduling | `server/board/data_persistence.mjs`, `configuration.mjs` | dirty window (`dirtyFromMs`, `lastWriteAtMs`, `dirtyDuringSaveFromMs`), save timer, save in progress and its target | delaySave, scheduleDirtySave, save, unsafeSaveBoard, dispose |
| board lifecycle | `server/socket/index.mjs`, `socket/replay.mjs`, `board/serial_task_queue.mjs` | users of an instance, unload timers, `shuttingDown`, synchronized sockets | getBoard, prepareConnectionReplay, bootstrap, disconnect, unloadBoard, dropLoadedBoardInstance, shutdownBoards |
| writes and broadcasts | `server/socket/broadcasts.mjs`, `board/session.mjs` | none of its own; orders application and recording | validate, accept, record, broadcast, reject |
| stored SVG | `server/persistence/svg_board_store.mjs`, `svg_board_paths.mjs`, `legacy_json_board_source.mjs` | the SVG, its staging file (`.svg.bak`), quarantined files, an old JSON file | read with fallback, quarantine, promote, stream, rewrite, write, migrate |
| HTTP | `server/routes/board_page.mjs`, `board_assets.mjs`, `board_http_helpers.mjs` | none; pins what it serves | page, 304, baseline SVG, preview, download |
| page synchronization | `client-data/js/board_connection_module.js`, `board_replay_module.js`, `board_message_module.js` | sequence number shown, generation, reconnect timer, queue of broadcasts, messages waiting for a tool | start, connect, refused, disconnected, replay, resync |
| optimistic writes | `client-data/js/board_write_module.js`, `board_optimistic_module.js`, `optimistic_*.js` | buffered writes, journal, rollback snapshots | draw, send, acknowledge, reject, undo, resend |
| board document | `server/board/canonical_*.mjs`, `message_processing.mjs`, `data.mjs` | items, tombstones, copies, dirtiness, paint order, live count, trim index, ids found in the file | create, update, write, append, copy, delete, clear, batches, trimming, snapshot, finalize after a save, load |
| message validation and geometry | `server/socket/message_validation.mjs`, `client-data/js/message_common.js`, `client-data/tools/*` contracts | bounds of every item, extent of the drawing | normalize, check, bound, extend |
| SVG codecs | `server/persistence/*codec*`, `svg_extent.mjs`, `svg_envelope.mjs` | attributes in the file | parse, format |
| rate limits and Turnstile | `server/socket/rate_limits.mjs`, `bounded_state_map.mjs`, `turnstile.mjs`, `client-data/js/rate_limit_*.js`, `board_turnstile.js` | windows per address; the page's history of sent costs; validations of either side | consume, expire, evict, pace, challenge, verify |
| moderation | `server/socket/bans.mjs`, `reports.mjs`, `temporary_moderators.mjs`, `client-data/js/board_access_module.js` | bans, grants, the access each page was told, timers | ban, unban, report, warn, grant, revoke, expire |
| authentication and capabilities | `server/auth` | none | roles of a token, capabilities |
| people on the board | `server/socket/presence.mjs`, `client-data/js/board_presence_module.js` | roster, list, cursors, friends | join, leave, act, refresh, toggle |
| page tools | `client-data/tools/*`, `board_tool_registry_module.js`, `board_tool_input.js` | open strokes, shapes, texts, selections; which tool is current and who owns a touch | press, move, release, cancel, activate |
| viewport | `client-data/js/board_viewport.js` | scroll position, scale, extent, hash, pan and pinch | zoom, pan, pinch, follow a link |
| front end, observability, other user interface | `server/http`, `server/observability`, menus, grid, downloads | rendering | not state of the system |

**How they interact.** The server is one Node process. Everything in it runs as
callbacks of one event loop, so two handlers interleave only at an `await`, but
loads, saves and unloads await the disk for many turns, and the registry, the
pins and the users are read and written by all of them. A page is served over
HTTP (which pins the sequence number of what it served), then opens a socket
with that number; the handshake loads the board if it must, computes the replay
and joins; writes are accepted by the instance that the registry names, at the
time of the write, and emitted to the sockets of that instance. A save rewrites
the file and then trims the log, except for what a pin protects. The last
disconnect unloads the board, unless the save failed, somebody came, or a pin
needs the history, in which case a timer tries again. Pages and server share
nothing but messages. In a page, a tool draws its own write at once, the
journal remembers how to undo it, and the buffer sends it when the budget, the
connection and the Turnstile check allow; the acknowledgement comes as the cast of
the write itself, in order with those of others.

**What is hard about it**

- An unload, a load and a save can overlap, on different instances of the
  same board; the registry is keyed by name.
- The file changes some turns before the log records it; HTTP requests, loads
  and handshakes may run in between.
- The replay batch is computed before the socket joins, and a write may be
  accepted in the same turn.
- A page may be cut off or restarted at any point of its own asynchronous
  startup, while a mutation waits for the code of its tool.
- A restart loses unsaved writes: the server goes backwards, the pages do not.
- The index does not hold what is stored: texts and strokes are known by their
  sizes, copies by the item whose stored content they continue, bounds by what
  each write made of the earlier ones, and all of it changes while a save
  streams the old file into a new one.
- Every reader of the files also repairs them, with renames that others are
  about to do.
- The save timer, the save queue and the window that orders them all change
  during a save.
- A write is drawn before it is allowed: its rejection takes back what was drawn
  on top of it, in the right order, while some of that is already under way.
- The page paces itself by a sliding sum, the server counts in fixed windows
  whose start the page cannot know; both have timers, as have bans, loans of the
  moderator role and validations, each on both sides.
- A tool draws more often than it sends. Whatever ends a gesture (a release, a
  second finger, another tool, a rejection, an erasing by somebody else, a lost
  connection) has to leave on the page what the server has.

**What makes each part correct.** Replay log: a replay is exactly the missing
mutations, and a pinned baseline stays replayable. Saving: no write is left
without a timer or a save; stored content only grows.
Lifecycle: joined pages belong to the instance that accepts writes and show its
content; unloading, shutting down and reloading lose nothing. Document: index and
file together are the drawing, before, during and after a save, every board can
be saved, and bounds and extent are those of the content. Files: what was stored
is found by every reader, whatever is renamed meanwhile or lost in a crash. Pages:
they show a prefix of the history at all times and all of it in the end; what is
drawn ahead of the server is what waits for an answer, and every write gets one.
Limits: a page that paces itself is not cut off; nobody exceeds twice the limit.
Moderation: a ban holds for whom and as long as it was meant, and everybody's
access is real in the end. Tools: once all is answered, the page shows what the
server has; nobody uses a tool without the right to it.

## 2. What is modelled, module by module

All server modules take **one turn of the event loop** as their step: the
callback and every promise continuation it releases, in the order the
microtask queue runs them. A board's content is represented by the writes it
consists of, so a sequence number is a length (`BoardLifecycle`, `BoardSync`)
or the number itself (`ReplayLog`, `SaveScheduler`). One board is modelled:
boards share no state.

### MutationLog, ReplayLog

`MutationLog` translates the log's operations as operators on a record. The
mutations are opaque. `readFrom` keeps its computation with an offset, so that it
is right only as long as the entries are contiguous; trimming keeps the longest
tail that starts with an entry protected by its age, by a pin or by not being
stored. The code passes the least pinned baseline to trimming, the model the set
of pinned baselines; the comment at `Protected` says why this is the same.
`trimBefore`, used only by tests, is left out.

`ReplayLog` is a state machine around one log: `Load`, `Accept`, `StartSave`,
`RenameSavedFile`, `FinishSave`, `FailSave`, `Unload`, `Crash`, and HTTP requests in
three steps (read the stored number; pin it; open the file). Three ways to serve
exist: streaming the file after the pin (`StreamBaseline`), a 304 after reading
the file (`StoredNotModified`), and a 304 from the loaded board
(`LoadedNotModified`). Trimming uses the clock and the pins of the start of the
save, as the code does. `Accept` takes the time at which the message arrived,
which may be older than its predecessor's. A page that never connects is
forgotten when its pin expires. One request is in flight at a time; requests
touch each other only through pins, which accumulate.

### SaveScheduler, WriteBehind

`SaveScheduler` is the timer, the dirty window and the save queue of one
instance. Timers may fire arbitrarily late. The `stat` the code awaits between
recording a save and ending it is the phase `recorded`. `StaleSave` disposes of
the board, as `handleStaleBoardSave` does for a registered instance. `dirty` items
are represented by sequence numbers (`seq # persisted`).

`WriteBehind` is the abstract promise of saving, a counter of accepted writes
and a counter of stored ones. `SaveScheduler` implements it with `accepted <- seq,
stored <- disk, open <- ~disposed`. Its `SchedulerInit`, `SchedulerNext` and so on are
named apart because `SavingProofs` extends this module and `CanonicalItems`.

### BoardLifecycle

Several instances of one board, the registry entry, the users and sockets, the
pins, the timers of postponed unloads, the stored file, another process that
may replace the file, shutdown, exit and crash. Handlers are operators on a
record of the server (`Server`), composed in the order of the continuations, and
`Install` makes the result the next state.

Orders that matter and are taken from the code:

- the next task of the save queue starts *before* the unload that awaited the
  previous save goes on (`EndSave`): the queue chains on the same promise first;
- when a load ends, the waiting handshakes compute their replay, then a waiting
  write is accepted and emitted, then a waiting unload asks for a save, then the
  sockets join (socket.io runs connection handlers in `nextTick`);
- a write and a disconnect look the instance up by name, in the registry, and
  not through the socket;
- a rewrite reads the stored sequence number when it begins and replaces the
  file later; a board that had no stored item is written without looking.

Simplifications: at most one write waits for a load; an unload timer is due
when any pin expires (the code computes the earliest expiry and may fire early
and re-arm); when trimming happens, it drops all that is stored or nothing, as
far as pins allow (`ReplayLog` has the detail). Timer saves may happen whenever
there is something to save (`SaveScheduler` says when). A board whose load
failed is a disposed instance nobody can find.

A scenario (the constant `Scenarios`) holds the bounds and selects between two
environments. Without `overlap` no socket connects while an unload is under way
(`Quiet`), and the timer of a postponed unload fires only when no load is in
progress; with it both may happen, and another process may replace the file.
`Calm` is the first of them, without a foreign writer; everything holds in it. In the
second, `SoundWhenOverlapping` still holds; findings 2 and 3 say what does not.

### CanonicalItems, DrawnBoard

`CanonicalItems` is the index of one board with its stored file. Items have the
fields of the code that matter to a save: deleted, dirty, the unsaved text, the
number of stored points and the unsaved ones, the copy source. Object identity,
which `finalizePersistedCanonicalItems` uses to tell what changed since the
snapshot, is the field `held`: a save sets it on every item, a replacement
clears it. A text is its length and a stroke a short sequence of points, so that
"the file holds what the index believes" can be stated. Looks stand for all
attributes: `seed` is a shape without extent, `huge` an update that the bounds
check refuses. A batch goes through its overlay one mutation after the other, as in
`processMessageBatch` (`OverlayOf`); it may hold updates, copies and deletions
(`BatchMessages`, the `batchMessageFields` of the hand). What is filtered out of an order or a file is
a `Part` of it: both are functions rather than folds so that they can be proved about, and
so is `ApplyAll` of `DrawnBoard`.

`Accept`, `Refuse` and `DropSeed` are the outcomes of a message; removals that make
room (`commitMutation`) belong to the same step and appear in `recorded`, the
mutations that collaborators are told of. `StartSave` includes `clean()` and
takes the snapshot, `FinishSave` writes the file and folds it back, `FailSave` is a
disk that refuses or an item that cannot be serialized, `Load` a restart or an
unload followed by a load.

`DrawnBoard` is the abstract board: what is shown, stored and being saved, as
plain functions from ids to contents. An edit changes what is shown by exactly
the recorded mutations; a save stores what was shown when it began. The
refinement mapping (`Drawing`) reads an item as the save would write it: index
and file together.

The constants `CopyDuringSave` and `ReuseIds` open two environments in which the
properties fail (findings 4, 5 and 7). Bounds, positions and the extent are in
`ItemGeometry`. The first is an ordinary interleaving;
the second takes a client that reuses ids, which the browser does not do.

### SvgFiles

The files of one board, one file operation per step: the fallback from the SVG
to the staging file with quarantine and promotion (`StatSvg` .. `Promote`), for the
four kinds of readers (a load parses everything, a page and a baseline read the
root element and then stream the file, a download takes any text), the two
renames of a save (`Stage`, `Replace`) after the comparison of the stored sequence
number (`ChooseSource`, `RewriteSource`), and the migration of a JSON board with the
same two renames. An open and the reading that follows it is one step, because
files are replaced and never modified in place. Crashes come anywhere, and
somebody may damage or remove the SVG (`Spoil`). Temporary files have unique names
and need no state. Documents are sequences of mutations; what a rewrite takes
from the old file and what from the index is `CanonicalItems`' subject.

The constant `Overlap` again selects the environment. With `FALSE`, reads, loads
and saves overlap in any way while there is an intact SVG; while there is none (a
first save, a migration, a repair), one of them runs at a time, except that
readers who find nothing may meet. With `TRUE` nothing is restricted.

### BoardSync

The page's side, against a server that writes, saves, trims arbitrarily (pins
are not modelled here, so a refusal is always possible) and restarts with only
what was stored. The connection delivers in order and may be cut at any time,
with any prefix of what was under way still arriving. `Start` .. `Disconnected` are
`board_connection_module.js`, `Deliver` .. `Draw` are
`board_replay_module.js`. A drain (an activation of `processIncomingBroadcast`)
remembers the generation it belongs to and may wait for a tool; after a resync
its pending message is dropped and it ends without effect.

`Write(FALSE)` is a write the joined page is not told of: what `BoardLifecycle`
shows can happen to a page that outlives its instance.

A page that loses its connection, is refused as not replayable or sees a gap
fetches a new baseline before it connects again. The generation checks inside
`start()` cannot fail, because nothing raises the generation while a start is in
progress, so they have no disjunct. Disconnects by a moderator are in
`Moderation`.

`DrawFails` is a tool that cannot be loaded or a draw that throws: the activation
ends and the page stays at its sequence number until the next mutation shows it
the gap; within the replay batch of a handshake it also stays unable to write until
then. The message of a tool that could not be loaded remains pending, and
`MountLate` draws it when the user chooses the tool, without advancing the sequence
number. A mutation that is partly drawn when it throws, and tools that the server
blocks, are not modelled.

### OptimisticWrites

A page's own writes from drawing to answer. `DrawAndSend` draws a mutation,
enters it with what it depends on and how to undo it into the journal, and puts
it into the buffer; `PumpBufferedWrites` sends a beginning of the buffer;
`Accept`, `Refuse` and `Limit` are the server; `HearBroadcast`, `HearRejection`,
`HearLimit` and `Disconnected` the page's handlers, with the journal's pruning by
casts of others (`Cast`), the expansion of a rejection to its dependents
(`Dependents`) and their restoration from the newest to the oldest, of which what
the oldest one replaced is what stays (`Restored`).
A cast may wait behind a tool that is being loaded (`ToolReady`, `DrainInbox`),
which is when an acknowledgement can be lost. A page that was cut off for
writing too fast holds its buffer back, reconnects, and sends it again.

The content of an item is the sequence of the mutations that made it, so that
every difference of order shows. Ghost variables name the documented exceptions:
`crossed` (the page's drawing may differ from the board after a write of somebody
else fell between two own ones; a baseline repairs it) and `unacked`. Lists are filtered
by position (`Part`), because the proof system knows nothing of `SelectSeq`.

### WriteAdmission

Time in the path of a write. The server's part: the bounded table of addresses
with its pruning and eviction (`Pruned`, `Touched`), the fixed windows
(`Consumed`, `Enforced`) and the order of the checks in `Receive`. The page's
part: the sliding history (`WithinBudget`), `Emit`, the pause after a
limit, and the Turnstile validation with its timer, its challenge, its
acknowledgement timeout and the writes that wait for it (`Refresh`, `Solved`,
`Verify`, `Acknowledged`, `SubmitTimesOut`). Messages take up to the scenario's
`jitter`. What was spent is kept as an amount per unit of time (`Plus`, `Recent`,
`Total`), which is what the list of times and costs in the code comes down to. In a
scenario that is `alone` others write from other addresses only, which may still
drive the page's entry out of the table.

Two things the code does are visible in it and are no property: a write that was
drawn while the check was valid and then held by the pacing is emitted later
without asking again, may be ignored, and stays drawn (the ignored write is
excused by `IgnoredOnlyIfOver`, which is about the margin); a lost connection
forgets the writes that wait for a challenge, although the page says they are
preserved.

### ItemGeometry

What the tools make of a pointer (clamping, equal spans, room above a text),
which fields a message must have (`Schema`, `IsWellFormed`), the bounds it may
have, what a write makes of the bounds of its item (`Updated`, `Appended`,
transforms and copies), the extent (`Extended`), and what is left of an item in
the attributes of the file (`Serialized`, `Parsed`), where a restart reads it
(`Load`). Numbers are half units, because an ellipse is stored by its centre.

The server never computes bounds anew; the property compares them with
those of the content. Ellipses of an odd span come back half a unit aside, which
`AcceptedFits` and `StoredIsStable` allow for. The page measures a text by its
glyphs and the server estimates it, so `malformed` is about the form and the
beginning of what a tool sends and not about its last letter.

### BoardCapabilities, ClientAddress, Moderation

`BoardCapabilities` is the pure part of `server/auth`: the role in a token or
by secret, the access state with its two ends, and the capabilities.
`ClientAddress` is the pure part of `policy.mjs` that finds the address of a
client in the connection and the configured header; headers are sequences of
entries, `Blank` is one without an address, and `Proxied` is the environment: a request that has
passed a number of proxies, each of which appends who called it.
`MCModeration` evaluates `ClientIp` for all paths of up to three addresses with up
to two entries that the request brought along. `Moderation` resolves the addresses
of its pages with it and has the server's tables (bans by secret and by address, grants), the
timer of the published bans, the rooms, the two-step disconnection with a notice
(`CloseReported` is its acknowledgement or 150 ms), and the pages: what each was
told of access and bans, its refresh timer, the notice its user has to
acknowledge, and reconnection. `Join` evaluates the same resolver as a
write does. Ghost variable `issued` remembers every ban with whom it was meant
for.

Left out: the caps of the tables (4096 entries), the toast of a report, reports
of sockets that linger; the clock stands still at `MaxTime`.

### Presence

The server's roster, the rows of one page, the queue in which activity waits
behind drawings, cursors with their frame, and the friends in the storage that
the tabs of a browser share. `Toggled` reads the storage again before it writes.
Positions are left out (server and pages keep different ones), and so are
reports, pulses and the layout of rows.

### PencilStrokes, ShapesAndTexts, HandSelection

The tools that write. Each has the tool's state, the elements of the page, its
journal, the writes under way and the server's items; how writes are buffered is
`OptimisticWrites`' subject and is one queue here. Others write too; writes are
refused; connections are lost, after which the page redraws from a baseline;
access is lost and regained; tools change.

- `PencilStrokes`: the open stroke on the overlay, the paced points, the limit of
  points, the commit at the end, other people's lines drawn beside the board and
  committed in groups, cancellation and rejection.
- `ShapesAndTexts`: a shape that follows the pointer and is sent at most every
  70 ms and once more at its end; the text editor with its timer; the eraser.
- `HandSelection`: selection by press and by a frame whose content is known only
  frames later; moving, copying, deleting; stale elements.

Their properties compare page and server when everything is answered. `exempt`,
`loose` and `crossed` collect the items about which the code itself lets them
differ, each at the action where it happens and with a comment; section 6 lists
these cases. Anything that would make them differ elsewhere violates the
property.

### ToolRegistry, Viewport

`ToolRegistry`: activation of a tool whose module is still loading, with further
clicks and changes of rights meanwhile (`Click`, `Mount`, `Activated`,
`ApplyBoardState`), and the dispatch of touches to the current tool, the browser,
or nobody (`Dispatch`). Two excuses are kept in `stuck` and `excused`.

`Viewport`: scroll position, scale, extent and hash, changed by wheel, pan,
pinch, zoom tool, scrolling, drawing and links, each of which schedules or
suppresses the update of the hash. One axis; whole numbers.

`MCPageTools` checks these two with the three tools and `Presence`: a variable
`part` chooses the module at the start, which is sound as their state is
disjoint. It extends `ToolRegistry`, whose theorems are about the very properties
the run checks, and whose variables stay as they begin while another part runs; the
others are instances. `MCWriteAdmission` does the same for `WriteAdmission` and
`ItemGeometry`.

## 3. The runs

| run | configuration | what it shows |
|---|---|---|
| `replay_log` | `MCReplayLog.cfg` | replays are exact; a stored or streamed baseline stays replayable until its pin expires; trimming drops only what is stored, expired and unpinned |
| `save_scheduler` | `MCSaveScheduler.cfg` | every order of writes, requests, failures and timers keeps unsaved writes scheduled; implements `WriteBehind` with its liveness |
| `board_lifecycle` | `MCBoardLifecycle.cfg` | in calm operation, with failures, crashes, shutdowns and postponed unloads: joined pages belong to the registered instance and show exactly its content, unload and exit lose nothing, a sole process never takes its file for stale; with arbitrary overlap and a foreign writer: the registry never names a dead instance, no page shows a write twice |
| `canonical_items` | `MCCanonicalItems.cfg` | the index stays exact and within its limit, sizes agree with the stored content, every snapshot can be written, and index and file implement `DrawnBoard`, with batches, trims, failures and restarts |
| `copy_source_lost` | `MCCanonicalItemsSource.cfg` | violation: a copy may name content that no file holds any more (finding 5) |
| `svg_files` | `MCSvgFiles.cfg` | around an intact SVG every order of file operations is harmless; every crash and every repair by a single reader keeps what was stored; only unreadable files are moved away; saves succeed |
| `board_sync` | `MCBoardSync.cfg` | a page shows a prefix of the history through cuts, refusals, refreshes, restarts, late tools and an untold mutation, and in the end all of it |
| `optimistic_writes` | `MCOptimisticWrites.cfg` | what is drawn ahead is what is pending; through refusals, limits, lost connections and resending page and server agree in the end, nothing is accepted twice, and every write is answered |
| `rollback_undoes_accepted` | `MCOptimisticWritesRollback.cfg` | violation: a rejection takes back a dependent write that the server accepts (finding 9) |
| `write_admission` | `MCWriteAdmission.cfg` | a page that paces itself is never cut off, at any alignment of the windows; nobody is let through more than twice the limit; a write is ignored only when the page's validation was over; bounds, limits and extent are exact through writes, saves and restarts |
| `moderation` | `MCModeration.cfg` | bans hold for whom and as long as they were meant; moderators see the bans in force; a notice holds its page; everybody's access is real in the end |
| `page_tools` | `MCPageTools.cfg` | pencil, shapes, texts, eraser and hand leave on the page what the server has, however a gesture ends; no tool acts without its right or on two fingers; people, friends and cursors are those of the server; the hash names the view |

**Bounds and why they are enough**

- `ReplayLog`: 2 mutations, clock up to 3, retention 1, pin lifetime 2. A pin
  outlives the retention, expires within the run, and a save can start before
  and end after either. Two mutations give a log that is trimmed in part. The
  proofs remove the bounds.
- `SaveScheduler`: interval 1, maximum delay 2, 3 writes, queue of 2, clock to 6.
  Three writes move the idle deadline past the maximum delay; two queued
  requests make one of them start and the other skip. A write is accepted only
  when its deadline is within the clock, so every timer can become due. The
  proofs remove the bounds here too.
- `BoardLifecycle`: two pages (interchangeable, hence the symmetry), three
  instances. Calm scenario: 3 writes, a queue of 2, one failure, two retries;
  overlapping scenario: 2 writes and one by another process. The races of
  findings 2 and 3 need two instances and two pages; a third instance covers a
  reload after them. Two unloads queued behind a save make one skip.
- `CanonicalItems`: 3 ids, 4 messages (a message may be a batch of two), a limit
  of 2 items, strokes of at most 3 points out of 2, texts of length 0 or 1.
  Create, append, save, append during the save, restart fit; a third item makes
  room. With 5 messages and one kind of point (1.2 million states) the result is
  the same. The violation run differs from it in one constant.
- `SvgFiles`: two requests, the load and a save, 2 mutations, one crash, one
  damage, with and without a JSON file. A stale staging file, a lineage that
  diverges from it and its return need one crash, one damage and two mutations.
  With 3 mutations, 2 crashes and 2 damages (1.3 million states) the result is the
  same.
- `BoardSync`: 3 writes, one cut, failed fetch, failed draw or refresh, one
  restart, one untold mutation; with 2 failures the result is the same; pages do not influence each other, so there is one.
- `OptimisticWrites`: 2 own writes on 2 items, up to 2 by others, and one refusal,
  one rate limit, one cut, one tool that must be loaded, in three combinations.
  Two own writes make one depend on the other; two foreign ones fall between and
  behind them.
- `WriteAdmission`: limits 3 per 3 ticks and 2 per 2, safety 1, a validation of 5
  ticks with a margin of 2, clock to 7: the window starts over twice and a
  validation ends within a run. A table of one address makes every other
  address evict. There are six scenarios: a page alone on its address without others
  and with one who evicts it, one that shares its address, others alone, and the
  anonymous board with a cut or a failed challenge. Margins are at least as large as twice the delay where the
  property needs it; the code has 250 ms for limits.
- `ItemGeometry`: a board of 4 units, items of at most 3, two items, 3 or 4 writes,
  a save and a restart; pointers above the line of a text, between two
  coordinates and past the edge; transforms that shift, scale and turn. All
  limits of the code are reached from both sides.
- `Moderation`: a moderator and two others, bans and loans of 1 or 2 ticks, clock
  to 3, six scenarios: neighbours at one address, one person in two tabs, a
  visitor without a secret, with and without open reports. One ban can end before,
  with and after another, and before and after a reconnection. All are behind one
  proxy.
- The parts of `MCPageTools`: one or two gestures of two or three steps each, and
  one or two interruptions (foreign write, refusal, cut, pause, tool change), in
  several combinations of budgets. Viewport: a window of half the board, scales
  1 to 4, so that the page is both shorter and much longer than what is laid out;
  Presence: 4 sockets of 3 people, two of them tabs of the page's own user.

**Fairness.** `SaveScheduler`: the clock runs, a due timer fires, what a save has
begun goes on (weak), and a rename that is attempted again and again succeeds
some time (strong: a disk that fails for ever stores nothing). `BoardSync`: what
page and server have begun goes on (weak on the handshake, timers, responses,
delivery, processing and drawing); writes, saves, cuts and restarts need not
happen. Cuts and restarts are bounded, so "once failures are over" is part of
every behaviour. `EventuallySynchronized` excepts a page whose *last* mutation was
kept from it or could not be drawn: nothing tells it until the next one. `OptimisticWrites`: the server
handles what arrives (accepting or refusing), the page hears it, loads tools,
ends its pause, pumps and reconnects (weak on each). `Moderation`: the clock runs,
timers fire, messages arrive, pages reconnect (weak); nobody has to report,
lift a ban or acknowledge a notice, hence the exception in
`AccessEventuallyReal`. All of it is what an event loop, its timers and socket.io
give; no handler waits for a user.

The other modules state safety only.

Deadlock checking is off where the system may really stop: `MCSaveScheduler` (a
disposed board at the end of the clock), `MCBoardSync` (everything delivered, no
write left), `MCCanonicalItems`, `MCSvgFiles`, `MCOptimisticWrites`,
`MCWriteAdmission`, `MCModeration` and `MCPageTools` (idle when the bounds are used
up).

## 4. Findings

1. `respondWithBoardPageNotModified` pins a sequence number that was read before
   an `await`. If the board is loaded, written, saved and unloaded in between,
   the number that is pinned is no longer replayable, although ARCHITECTURE.md
   says that served baselines are pinned against this. The page is refused and
   refetches; nothing is lost.
2. `unloadBoard` deletes the registry entry by name after awaiting its save. Two
   unloads of one instance, the second waiting behind the first one's save, and
   an instance loaded in between: the second removes the registration of the
   live instance. The next request loads another one, and a page joined to the
   first is not told of what the other accepts.
3. The same unload disposes of an instance whose next save has already started
   (`EndSave`). That save replaces the file after the successor has read it;
   the successor's next save is then stale, and its accepted writes are dropped
   without a crash.
4. A copy that is made while a save runs keeps its own unsaved points, or the
   length of its text, and continues the stored content of its original. The
   save then stores those points in the original's path, and
   `finalizePersistedCanonicalItems`, which looks only at ids of the snapshot,
   does not rebase the copy: the next save gives it the points twice.
5. A copy of a copy that is not stored yet names the *first* original. If that
   one was erased before the save, the save is the last to see its content; a
   copy made while it runs names content that is in no file afterwards. Every
   later save fails with "Missing persisted pencil path data", and nothing on
   the board is stored any more.
6. A stroke that has no point when a save runs is left out of the file and
   written behind everything by a later one: after a reload it covers what was
   drawn over it (`PaintOrderIsStored` in `CanonicalItems`).
7. With reused ids (`ReuseIds <- TRUE`): a stroke created under the id of a stored
   one is saved with the old one's points in front (`SizesAgree`), and an item
   created again under an id that the trim index has passed is never trimmed, so
   that the board exceeds `MAX_ITEM_COUNT` (last line of `IndexIsConsistent`, with
   `MaxItemCount <- 1`; a clear moves the trim index to the end).
8. `readCanonicalBoardState` takes every `ENOENT` of a migration for a missing JSON
   file. A request that finds the migration's staging file promotes it, the
   migration's rename fails, and the board is loaded empty although its drawing
   is stored; the first save overwrites it. With `Overlap <- TRUE` the other
   properties of `SvgFiles` fail too, by the same kind of race: a reader that looks
   between two renames finds neither file; of two readers that repair, the second
   may quarantine what the first has promoted; and a first save whose staging
   file is promoted by a reader reports a failure.
9. When a write is rejected, the page also takes back its own later writes about
   the same item, although they are under way and the server accepts them. Their
   acknowledgement does not draw them again, so that the page differs from the
   server until its next baseline (ARCHITECTURE.md:53 promises that rollback
   restores the state; `RollbackRestores`).

Findings 5 and 9 have runs. Findings 1, 2, 3, 4, 6, 7 and 8 can be shown by giving
the property or constant named with them to the module's configuration: for 2
and 3 the properties of `BoardLifecycle` without `Calm` in a scenario with
`overlap` (they need a page that connects, or a retry timer that fires, while an
unload waits for the disk), for 4 `SizesAgree` with `CopyDuringSave`, for 8
`BoardContinuesFile` with `Overlap`.

**Smaller observations** made while modelling, each visible in the model as an
exception with a comment:

- Moderation: the comment at `bans.mjs:149-151` does not hold, a newer and
  shorter ban at the same address replaces the entry of the address. The
  refresh of access reconnects a page whose notice is not acknowledged. Other tabs
  and neighbours of a banned visitor are not told.
- Pencil, shapes, texts: a shape that is erased, cleared or rejected while being
  drawn is drawn again by the next step that is not sent and stays on the page;
  leaving the tool in the middle of a shape keeps the shape open, and hovering
  goes on with it after the return; the last letters, typed less than 100 ms before Enter, Escape, a press
  elsewhere or a change of tool, are drawn and never sent; a refused update
  was drawn before its snapshot was taken, so undoing keeps it; after a
  reconnection the editor compares with a text it had sent before.
- Hand: a refused drag leaves the items where they were last drawn (against
  ARCHITECTURE.md:53); quitting or losing the connection removes the shortcuts of
  the selection, and nothing adds them again; deleting with an empty selection
  sends an empty batch; duplicating does not look for stale elements; what is
  drawn when the release is off the board or not seen is never sent.
- Presence: an update replaces a row by a copy, so that a pending report stays
  pending and the end of a pulse is lost; server and pages keep different positions
  of a visitor.
- Tools: access that is lost before the hand is mounted leaves the old tool
  current; a tool replaced in the middle of a touch remembers it as its own and
  loses the next one; a second finger is not noticed while the page cannot write.
- Viewport: a hand pan that a keyboard shortcut interrupts never ends, and the hash
  stops following until the next pan; the zoom tool keeps its press likewise; a
  second finger close to the first keeps an old anchor; wheel or hash during a
  mouse pan is undone by the next step; the frame of a tiny move after a click
  undoes the click's zoom. That a cancelled pinch leaves the hash behind is
  intended (`board_viewport.test.js:880`).
- Geometry: stored ellipses of an odd span lie half a unit aside, at the far edge
  half a unit off the board, and later moves of them are refused; a selection
  larger than the limit of a batch is sent and refused as a whole; a selection of
  zero width is scaled by a division by zero.

## 5. What is proved

The proofs of a component are in a module of their own, for every value of the
constants that the named assumption of its model allows.

`ReplayLogProofs` begins with lemmas about any log: each operation keeps the
entries a contiguous run that ends at the newest mutation; the floor is then
newest minus length; reading from a baseline returns exactly the numbers after
it; trimming drops only unprotected entries.

Its theorems, for all values of the constants in `Nat` (assumption
`ReplayLogAssumption`): `TypeCorrect`, `ReplayExact`, `StoredReplayable`,
`StreamedReplayable`, `TrimsOnlyExpired`, `StoredSeqMonotone`. The inductive
invariant `IInv` adds to the types

- `LogInv`, the log is contiguous;
- `DiskInv`, `SaveInv`: the file is the persisted prefix or the target of the save
  that has just replaced it, and an unloaded board's log is the file;
- `RequestInv`: a request holds a number no newer than the file, and its pin is
  at least as long as it thinks;
- `ServedInv`: each streamed page is covered by a pin, of its baseline *or an
  older one*, that lasts as long as its own. `StreamedBaselineReplayable` is not
  inductive without it: the file read after the pin may be newer than the
  pinned number, and trimming spares it only because of the older pin.

`SavingProofs` has two parts. The first one is about the scheduler, for all values in
`Nat` with `SaveInterval <= MaxDelay` (assumption `SaveSchedulerAssumption`; `configuration.mjs` refuses anything else):
`SchedulerTypeCorrect`, `AlwaysScheduled`, `NeverTooLate`, `NeverTooEarly`,
`NeverRecordsUnstored`, and `KeepsPromise`, that each step of the scheduler is a
step of `WriteBehind` or a stutter. The deadlines are stated over the times at
which writes were accepted, which the code does not keep. The invariant
`WindowInv`/`DuringInv` says which writes the three remembered times stand for: the
window opens with the first write that is not recorded and ends with the newest;
`dirtyDuring` is the first write the running save does not cover, which is what
lets `RecordSave` restart the window there.

Four of the theorems are about `NoLaterThanMaxDelay`, `NotBeforeIdle`,
`RecordedIsStored` and `StoredSeqMonotonic`, which no run checks any more: they are
proved for all values.

The second part is about the items, for any ids, points, batches and limits
(`BoundsAssumption`) and any number of messages. `IndexStaysConsistent` holds when
creations and copies carry ids the board does not know (`~ReuseIds`, what a browser
does; finding 7 is about the others). Its invariant, `IInv`, adds to the property what the
next turn needs:

- `Passed`: everything before the trim index is erased, so that the scan that makes
  room finds the oldest live item first and ends within the limit (`TrimFacts`);
- `FileInv`: the file lists each item once, and `persistedItemIds` are its ids;
- `Stored`: what is stored is still known to the index, erased or not, and an item
  that is not dirty is stored and alive;
- `HeldInv`: an item marked `held` is the one in the snapshot, every other one is dirty,
  and no id of the snapshot was forgotten;
- `SaveInv`: the snapshot is itself such an index, within the limit.

A batch is followed through its overlay: `OverlayOk` says that the fresh ids are
exactly those the overlay has and the index has not, each once, and goes by induction
over the messages (`Stepwise`, with the minimal counterexample of a set of numbers
instead of an induction principle). `Counted` and `Parts` are the lemmas about
positions and sub-sequences everything else cites.

`SizesStayKnown` and `BoardsStayStorable` also exclude copies during a save
(`~CopyDuringSave`; with them both are false, findings 4 and 5). They rest on a second invariant,
`SizeInv`, about which stored content a live item continues (`Of`: its own when it is in
the file, otherwise its copy source's):

- `Tied`, of the index and of the running save's snapshot: that content is in the file,
  with the kind of the item, and its size is what the index says (`TextSized`,
  `StrokeSized`); every stored item, erased or not, has the kind it is stored with;
- `Since`: what replaced an item of the snapshot has its kind and its source and is
  alive only if that one was; a text not rewritten since is as long as it was, a stroke
  has the points it had, and maybe more; and an
  item that is not in the snapshot continues nothing. So `Rebased` may count what the
  snapshot held as stored, and clear the source.

`SizesAgree` alone is not inductive, because it says nothing of the items in the snapshot, nor
of the erased ones whose content a copy continues.

`IndexDrawsTheBoard` is the refinement, under the same two hypotheses: `Spec` implies
`ImplementsDrawnBoard`, all of it (`DrawnBoard` states no fairness). What the mapping
(`Drawing`) reads of an item by way of a rewrite is shown to be its `Painting`
(`DrawingIs`): the stored content it continues, then what was written since. From there
the argument goes turn by turn:

- messages: `Leads` is a list of mutations seen as a path from one drawing to another. Each
  message of an accepted batch extends the path of what the overlay shows
  (`PreparePaints`, `BatchPaints`), applying the overlay changes nothing more
  (`AppliedPaints`), and the removals that make room are the rest of the path, in the
  order of the recorded deletions (`TrimPaints`), whatever the batch and however many must go.
  This needs that a text is only written into a text (`WritesFirst`, from `Sendable`
  and `BatchMessages`);
- the end of a save: what is written of an item is how the snapshot paints it
  (`ContentPaints`), so the new file is the drawing of the moment the save began, without
  the strokes that have no point (`ContentIsDrawing`); and an item that was replaced,
  settled or left alone is painted from the new file as it was from the old one
  (`FinalPaints`). For a stroke extended meanwhile this is that its points continue those of
  the snapshot (`Continues`, in `Since`), so that those dropped are those just stored;
- a restart paints what the file holds (`LoadedPaints`).

It adds a third invariant, `DrawInv`: a stored stroke has a point and a stored shape no
body (`FileDrawn`), and an item that is not dirty, in the index or in the snapshot, has the
look and the text that the file has (`Agrees`). Without it a save that copies the entries of
clean items as they are could store an old look.

`AdmissionProofs` has four parts. For every set of addresses, every path of at least
one proxy and everything a request may bring along: `ClientBehindProxies`, with the
Forwarded header. It rests on `SelectedIsFirstOfPath`, about the position of the
client when the chain is counted back from the connection. The same for
X-Forwarded-For, whose blank entries are filtered by a recursive operator of the
standard modules, is evaluated by TLC only. For any durations, delays, limits and
numbers of writes, cuts and failed challenges: `IgnoredOnlyLate`. `MarginInv` follows
the validation from the server to the page and back: it lasts the margin, less one
delay, longer than the page believes, the same longer than a write under way that was
sent in good faith, and the whole window from a positive answer under way. Two
delays within the margin then leave the write in time, whatever newer validations,
cuts and timeouts come between.

The other two are about the limits, for any kinds, limits, periods, costs and sizes of
the table. `LimitsHold` is about a window and the one before it. Its invariant,
`WindowInv`, splits what an entry has let through (`WindowOk`): since the start of its
window no more than was counted and no more than the limit, in the period before that
no more than the limit, and nothing after the window's end; an address without an
entry has nothing to remember. A window that starts over turns the first part into the
second, because the new one starts a period later at least. `CountedOk` says what
pruning, touching and evicting leave of a table: the entry of the address is the newest
and counted from the old one or from zero, every other entry is from the table, and no
address has two.

`PacedNeverLimited` compares the page's history with a window it knows nothing of. Its
invariant, `PaceInv`, needs what is under way: the amounts that wait behind the n-th
message form a chain of functions (`WaitOk`), as the proof system has no recursion over
messages. No interval of a period and the margin holds more than the limit; what waits
was sent at most one delay ago; and an open window has counted no more than what was
sent for it (`SentFor`: at most one delay before its start, or later) less what still
waits (`PaceOk`). All of that was sent within one paced interval (`OpenWindowIsPaced`),
so the window is never full. Arrivals, cuts, evictions and expiry keep this; a new
window starts with what waits. The hypotheses are those of the code's pacing: the page
is alone on its address, messages are late by no more than the margin, and no single
write costs more than the limit (the page sends such a write anyway).

Sums over time are what both rest on: `Total` is a recursive function, so every fact
about it (`TotalSum`, `TotalLeq`, `TotalAt`) goes by induction over the partial sums
(`Sums`, `UpTo`), where the set of times that are right is a subset of the times.

`OptimisticWritesProofs`, for any items and any numbers of writes, refusals, limits,
cuts and tools to wait for: `WritesAreAcceptedOnce` and `PagesFollowTheServer`.

The invariant of the first one, `IInv`, follows a mutation
that was accepted while it is still buffered (`HeardInv`): its cast is under way or in
the page's queue, or the connection broke before the page was told to slow down. In
the last case a page that is not paused discards its buffer when it notices; one that
is paused keeps it, but was told last of all (`LinkInv`) and by then had heard its
casts or had them in its queue (`PauseInv`), so that what the reconnection drops is
`unacked`. What is under way to the server is numbered apart, not queued and not
accepted (`UpInv`), and the replay after a connection comes before anything is sent
(`AwaitInv`). The drawing and the journal play no part in it.

The invariant of the second one, `FInv`, says what a page shows. A property like "the
drawing is the board's once nothing is pending" is far from inductive: it says nothing
while something is. `Follows` does: there is a stack of drawings, the lowest is the
board after the mutations the page has seen (`Board[page.seq]`), each next one is what
an entry of the journal makes of the one below, the highest is what is shown, and the
snapshot in each entry is what its items were one step below. Then

- `RejectKeeps` and `PruneKeeps`: entries may be taken out of the middle of the stack.
  `expandRejectedIds` takes out what was made of the undone items, and
  `restoreRollback` takes back the others' items only; whatever collides with an undone
  entry and stays is what the model counts as `crossed`.
- `AcknowledgeKeeps`: the acknowledged entry leaves the journal and nothing is
  drawn. This is right if the entry can be moved to the bottom of the stack, that is,
  if no older entry collides with it. It needs the server's answers to come in the order
  in which the page drew, which is an invariant of everything under way (`PipeInv`):
  the page's queue, then the connection, then the server's, then the buffer, the
  numbers go down, and what is in flight is in one of the three.
- `ShowKeeps`: somebody else's mutation is drawn on top, and belongs at the bottom;
  where it collides with an entry, it is `crossed`.
- `PumpedKeeps` and `DrawKeeps`: a held write leaves the journal when it is held and
  enters it on top when it is sent again (`HeldOrder`: no entry of the journal that
  collides with it is younger), and a new one is captured before it is drawn.
- `ReplayedKeeps`: a page that waits for its replay has an empty journal
  (`EmptyInv`), and all that is buffered is held.

`CastInv` says of every cast and replay under way that it is the accepted mutation
of its number. These lemmas are about any page and any board, and each action then
puts them together. Recursive functions (the board after *n* mutations, the drawing
after *n* redrawn writes) are reasoned about with `UpTo` and `Stepwise`, which get the
induction up to a number from the minimal element of a set of numbers.

`BoardSyncProofs`, for any number of writes, failures, restarts and mutations that
are kept from the page: `PageNeverWrong` and `PageNothingMissing`. Neither property
is inductive: it says nothing of a page without a socket, of messages of a
connection that is over, or of activations that a resynchronization has left
behind. The invariant follows a mutation all the way: what is under way, in
either phase of the handshake, is true and in order; a page that is about to
connect shows a beginning of the *stored* board, which is why a restart between
its baseline and its handshake cannot mislead it; and of the activations of
`processIncomingBroadcast` at most one belongs to the present generation.

Its last part is about the page's tools, for any set of tools and any bounds
(hypothesis `ToolRegistryAssumption`, which `MCPageTools` assumes of its tools: the
hand is a tool that neither draws nor edits nor acts at once):
`OnlyAllowedToolsAreHeld`, because every way to a current tool goes through one
check of the toolbar made in the same step, and whatever changes the rights
goes through one that falls back to the hand (`RightsInv`); and
`GesturesStayOneFinger`, whose invariant (`GestureInv`) adds to the property that an
unexcused gesture is the *current* tool's, that a drawing tool has none in a view too
far to draw, and that its touch has not been lost to the browser or a second finger.

`BoardLifecycleProofs`, for any number of instances, pages, writes and failures and
every scenario: `NeverUnsound`. Requests find only live instances because whatever
disposes of an instance also removes an entry of the registry, be it another
one's (which is finding 2, and does not endanger this). That no page shows a write
twice needs `PlacesInv`: there is one numbering of all writes to which every
content in the system keeps (instances, file, targets of saves, replays under way,
pages), though they may differ in what they have lost.

Its second part goes on from there for the scenarios the properties call
`Calm`: `CalmPagesAreExact`, `SavesOnlyExtend`, `EveryoneHears`, `NothingIsForgotten`,
`ExitLosesNothing`. `CalmInv` adds: at most one instance can still write the file, and
it is the registered one until its unload removes it; its file is the beginning of
its content that it knows of, except between rename and record; an unloading
instance without a failure has stored all; a page shows a beginning of the file
until it joins and the whole content afterwards. The handlers are operators on
servers, so most lemmas are about one operator and any server.

`ModerationProofs`, for any pages, secrets, addresses, bans and loans (assumption
`ModerationAssumption`): `BansHold`, because the secret of a person always names the newest
of its bans (`BansInv`), so that whatever replaces the entry of an address does not
matter to it; `ShownBansAreCurrent`, because of a page that has not heard everything
the *last* list on its way has the bans in force, and besides only such as the
timer of `emitBoardBans` is set for (`ShownInv`); `NoticesHold`.

`SvgFilesProofs`, for any number of requests, mutations, crashes and damages while
`Overlap` is `FALSE`: `AnswersStayCurrent`, `BoardsContinueFiles`, `SavesOnlyExtendFiles`
and `SavesSucceed`. The invariant says what each process knows of the files between
two of its operations (`Knows`: who stands before the quarantine has found the
staging file that is still there, and so on); that it is alone whenever there is
something to repair (`QuietInv`); that a staging file next to an SVG is newer than
it, and newer than the board unless it is the running save's; and that a save past its
comparison still has an intact SVG with that sequence number. The hypothesis
`~Overlap` is the environment of the run; with `Overlap` the properties are false
(finding 8).

The assumptions on constants are what the code gives: numbers are naturals, and the
values that stand for "nothing" (`NoFile`, `NoBoard`, `NoSave`, `None`) or for an error
(`Failed`) are not themselves files, boards, saves or documents.

**Only model checked:** `ItemGeometry`, `Presence`, `PencilStrokes`, `ShapesAndTexts`,
`HandSelection` and `Viewport`; all liveness, and the fairness part of
`ImplementsWriteBehind`, because the proof system handles neither `ENABLED` nor
fairness. `BoundsAreExact` speaks of a minimum over contents, which a library
operator computes whose definition is out of the installed provers' reach.

## 6. What is not modelled, and the plan

Not modelled and not planned: HTTP dispatch, templates and compression, logs and
metrics, signing and parsing of tokens, scanning and escaping of SVG text,
previews and downloads, menus, panels and grid, a vendored path polyfill, colours,
sizes and opacities.

Left out of modelled parts: mutations that are partly drawn when a draw throws in
`BoardSync`; windows that are resized, the second axis and the
keys that change a style in `Viewport`; rows, reports and pulses in `Presence`; the
buttons and shortcuts of the hand; the layout of texts; the caps of the tables in
`Moderation`.

**Differences the tool models allow** (`exempt`, `loose`, `crossed`): a stroke that
was open when the next one was pressed; an erasing that could not be sent; creations
that cross a clear; an item left, closed or moved on while its last drawing could
not be or was not sent; an item drawn again after it had gone, refused after it was
drawn, or crossed by somebody else's write.

Planned, in this order:

1. Proofs: the tools that draw (`PencilStrokes`, `ShapesAndTexts`, `HandSelection`), `Presence` and `Viewport`.
2. `BoardLifecycle` with the liveness of a handshake, and with the board that an abandoned handshake leaves loaded.
