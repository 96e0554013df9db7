# QSL in TLA+

QSL is a desktop mail client: Rust crates for storage, IMAP, JMAP, SMTP, OAuth
and synchronisation (`crates/`), a Tauri host that runs the sync engine and
serves the UI's commands (`apps/desktop/src-tauri`), a Dioxus UI
(`apps/desktop/ui`) and a command-line tool (`apps/mailcli`). This directory
specifies what it does and keeps in TLA+, checks it with TLC and proves the
results that matter most with TLAPS.

1. [The system](#the-system): its parts, their state, how they interact
2. [Modules](#modules): which part each models, and how it corresponds to the code
3. [Runs](#runs): what TLC checks, the bounds, the fairness
4. [What is proved](#what-is-proved)
5. [What the models found](#what-the-models-found)
6. [Not modelled](#not-modelled)

`PROJECT.json` has the components, the runs, a mutant for each property (a
plausible bug that the run then finds), the source lines of every definition,
the hazards at their lines and the theorems.

## The system

| part | state | operations | talks to |
|---|---|---|---|
| outbox table (`storage/repos/outbox.rs`) | rows: account, kind, payload, dedup key, attempts, next attempt | enqueue, enqueue_dedup, list_due, delete, record_failure | commands insert, the drain settles |
| drafts and sending (`commands/drafts.rs`, `messages_send`, `repos/drafts.rs`) | drafts table with the id of the server's copy | save, delete, send | compose pane above, outbox below |
| outbox drain (`sync/outbox_drain.rs`, timer in `sync_engine.rs`) | the copied batch, the current row | list due rows, dispatch, settle | outbox, drafts, backends |
| message commands (`commands/messages.rs`) | messages table, body files | mark read, flag, move, archive, delete, open, load older, attachments | outbox, folder sync, blobs |
| folder sync (`sync/lib.rs`, `threading.rs`) | messages, threads, sync cursors | list, apply chunk, thread, reconcile, flag updates, fetch bodies | backends, messages |
| history pull (`sync/history.rs`, `commands/history_sync.rs`) | history rows, cancel tokens, account locks, the FTS index | start, cancel, resume, driver, producer and consumer | backends, messages, search, panel |
| sync engine (`sync_engine.rs`, `imap_idle.rs`, `jmap_push.rs`) | watchers, event channel, debounce maps, watched folders | boot, spawn, debounce, sync, rebuild on account change | folder sync, drain, watchers |
| backend cache (`backend_factory.rs`) | one handle per account | open, share, reuse, evict by age or auth failure | vault, IMAP/JMAP |
| OAuth and vault (`crates/auth`, `commands/accounts.rs`) | keychain tokens, the loopback listener | authorise, exchange, refresh, revoke | providers |
| IMAP client (`crates/imap-client`) | one session per handle | dial, probe, select, list, store, move, append | SMTP for submission |
| JMAP client (`crates/jmap-client`) | none between calls | query, changes, set, import, submit | |
| storage (`turso_conn.rs`, `migrations.rs`, `blobs.rs`) | the SQLite file, schema version, body files | begin, commit, roll back, migrate, put, get, delete | everything |
| UI (`ui/app.rs`, `settings.rs`, `oauth_add.rs`, `reader_only.rs`) | compose pane, list, selection, reader, panels | edit, save, send, undo, select, scroll, bulk actions | commands and events |

There are two connections to one database file: commands lock `state.db`; the
engine, the drain and the history drivers lock `state.sync_db`. A lock makes a
caller's statements exclusive on *its* connection only, so statements of a
command and of the drain interleave freely. Everything else is async tasks that
share maps behind mutexes and give them up at each await. The UI is one thread
whose handlers run from await to await; a future spawned in a component's scope
dies with the component, one spawned by the app does not. Most of the hazards
come from these three facts, from servers that answer late, partly or never,
and from a process that may end between any two statements.

What makes each part correct: the outbox neither loses nor silently repeats
mail; the drain retries what failed, gives up on time and never overwrites newer
content with older; a folder's cursor never runs ahead of what is stored, and an
operation hits the message it was made for; a history pull is complete when it
says so, ends, and resumes after a crash; no account added and no event
reported is forgotten by the engine; one session is built for all who wait
for it, a refused one is not used again, and the last working token is not
thrown away; what the user typed is saved, what was undone is not sent, and what
a list, panel or control shows is what the table has.

## Modules

A *component* has a module of its own, a `…Properties` module where the
properties are more than a few, a `…Proofs` module where there are theorems, and
an `MC…` module with the constants of its runs (`PartsProofs`, `MessageProofs` and
`LetterProofs` are about small modules). In
every component an action is what happens between two points where another party
may come in: two awaits, two statements on different locks, two exchanges with a
server. Where a command and its reply cannot be told apart by anyone, they are
one step.

### Outbox and sending

* `OutboxTable`: the table as a function from ids to rows, one operator per SQL
  statement. `Outbox`: the system around it. Commands run one at a time (`cmd`,
  the holder of `state.db`) and are split where a statement of the drain can fall
  between two of theirs: `SaveUpsert`, `SaveLookup`, `SaveWrite` are
  `drafts_save`; `SendEnqueue`, `SendDeleteDraft` are `messages_send`;
  `DraftsDelete` is `drafts_delete`. The drain is a process with a program
  counter: `DrainTick` (list_due), `Submit` or `ReadServerId`, `Upload…`,
  `RecordServerId` (dispatch), `Settle…` (the end of `process_one`). `Crash` drops
  the command and the drain and keeps the tables. A server id is unique and
  carries the version it was uploaded from. `accepted` and `lost` are history: how
  often the server took a message, and how often the news did not reach the table.
* `Submission`: the abstract promise of the Send button. A message is queued
  once, may be taken while queued, and leaves the queue delivered or given up.
* `Delivery`: one message on the wire: bytes as lines, envelope, Bcc, SMTP or
  JMAP, the copies in Drafts and Sent, refusals and lost answers.
* `Compose`: the pane above: form, autosave, save, send with its undo window, discard,
  closing, as futures that outlive or do not outlive what they touch.
* `Replies`: who an answer goes to and what it refers to, over a conversation of
  several turns. `Recipients`: contacts, suggestions and the address field.

### Messages and folders

* `ImapServer` (external): a mailbox with UIDs, UIDVALIDITY, UIDNEXT and
  mod-sequences. A message has a name the client does not see, by which
  properties follow it across moves and rebuilds.
* `Mailbox`: rows and cursors, queued operations, the server. Three parties
  write: a command, a pass of the sync or of the drain (both hold `sync_db` from
  beginning to end, hence one program counter `at`), and other clients.

  | actions | code |
  |---|---|
  | `FlagRead`, `MoveRead`, `DeleteRead`; `FlagWrite`, `MoveWrite`, `DeleteWrite`, `RowVanished`; `Enqueue`, `CommandFails` | `messages_mark_read`, `_flag`, `_move`, `_archive`, `_delete`: read the row, change it, queue the operation |
  | `Dispatch`, `DispatchFails`, `DispatchLost` | `process_one` and `dispatch` with the IMAP backend's `update_flags`, `move_messages`, `delete_messages`, and settlement |
  | `SyncStart`, `ClearCursor` | `sync_folder` up to the listing; the recovery from a new UIDVALIDITY |
  | `Select`, `Fetch`, `Changes` | the three exchanges of `list_messages` |
  | `FindExisting`, `ApplyChunk` | `apply_chunk`, its reads and its transaction |
  | `ListKnown`, `ListLocal`, `Prune` | the reconciliation |
  | `UpdateFlags`, `PutCursor`, `SyncFails` | the rest of `sync_folder`; any early return or crash |
  | `Arrive`, `Flip`, `Expunge`, `Rebuild` | other clients and the server |

  `wish`, `taken` and `low` are history: what the user last wished a flag to be,
  which ids the user moved or deleted, where the full listing of a folder began.
* `JmapSync`: the folders of a JMAP account one after the other, with
  Email/changes, query and get, which speak of different moments. `JmapOps`: the
  drain's batches on a JMAP server, message by message and keyword by keyword.
* `Threading`: the resolution chain over sync chunks, load-older and pulls.
  `Folders`: accounts whose mailboxes have the same keys: scoped ids, the pass
  of an account, the sidebar, the unified inbox. An IMAP mailbox goes by its name
  and lists what is new in it; a JMAP mailbox goes by its id and, after the first
  sync, lists what changed in the whole account: `SyncMailbox` puts all of it into
  the folder it syncs and prunes what the mailbox does not have. `claimed` is history:
  what such a sync took from the other mailboxes. `Paging`: load-older, with a step for
  each header it stores; `abandoned` is history: what a load that stopped had left.
  `Bodies`: blob files (an inode has the halves written so far), renders,
  fetches, prunes and moves. `ImapSession`: the shared session: bounded dial,
  probe, redial, SELECT and the UIDVALIDITY check of each operation.

### History pull

* `HistorySync`: a *job* is one start command, or one turn of the resume loop,
  and the driver it spawns. `pc` says between which two awaits it stands, `of` is
  its folder, `token` its cancel flag, `gen` which of the account's locks it found
  in the map, `last` the anchor it holds in a local.

  | actions | code |
  |---|---|
  | `StartCheck` .. `StartRegister` | `history_sync_start`, cut at its awaits |
  | `ResumeList`, `ResumeComplete`, `ResumeSkip`, `ResumeClaim`, `ResumeRegister` | `resume_running_jobs` over the list it has read |
  | `MarkPending` .. `Opened` | `run_driver` up to `pull_history`: lock, second look at the flag, open the backend, count the pull |
  | `StartPull`, `DropIndex`, `RebuildIndex` | `pull_history` around its producer and consumer |
  | `Fetch`, `FetchFails`, `FetchGivesUp`, `ProducerStops` | `run_producer` with the server's answer, `pull_history_chunk` |
  | `Receive` .. `Drained`, `Finish` | `run_consumer` |
  | `EndPull`, `DropCanceller` | PullGuard, `drop_canceller` |
  | `CancelToken`, `CancelDelete` | `history_sync_cancel` |
  | `RemoveSignal`, `RemoveLock`, `RemoveRows` | `accounts_remove`, as far as pulls are concerned |
  | `MoveIn` | `messages_move` and `messages_archive`: the row keeps its id, and the UID in it |
  | `Restart` | process exit, `ensure_fts_index` at boot |

  The channel (`pipe`) has the capacity of the code: one chunk the consumer works
  on, one in the channel, one whose send waits. A chunk is the set of its UIDs
  with the next anchor. Each statement is a step; `SyncDbFree` is the mutex a
  consumer keeps from storing a chunk to recording it.
* `PullPanel`: what the user sees of it: rows, events, the panel's refetches,
  cancels and starts, `resume_running_jobs` row by row, a restart at any point, the
  line in the status bar. `unheard` is history: rows that a resume has completed, of
  which no event tells, since the panel last read the table.

### Engine, sessions, accounts, storage

* `Engine`: `at` is the step of `run_once`: wait for the UI, list accounts, boot
  each, spawn, then the loop with its three branches, or rest a minute. A watcher
  is `pool[<<pass, unit>>]`: its connection, what it has yet to tell, the buffer
  of its forwarder; `pass` numbers the pools, for those of an earlier pass live on
  until they next send. `channel` and `pending` are the channel and the debounce
  maps, `permit` the stored notification of `accounts_changed`. Times are order:
  a pause ends, a debounce ends, a poll comes.
* `Backends`: a task is a call (read with retry, sync, watcher, add, remove),
  `slots` are the cells that `get_or_open` makes, `cell` their sessions, `builder`
  the holder of a cell's permit. Tokens are numbered as they are minted:
  `honoured` by the provider, `vault` in the keychain.
* `AddAccount`: the add-account window, flows with their listener and deadline,
  `accounts_add_oauth` and `accounts_remove` over row and keychain, and the list
  the main window shows.
* `Settings`: one key of `app_settings_v1` with the controls, windows and tray that
  show it, and the account rows of the settings tab. `Storage`: connections whose
  dropped transactions poison them, and migrations of two programs on one file.

### The windows

* `Lists`: selection, bulk bar, context menu, drag and drop, keyboard and reader
  toolbar, over pages that are fetched while commands and events change the
  folder. `Reader`: what a render may load from the network, as the answer
  belongs to a message, thread and permission that may have changed since.
  `Attachments`: free names in the Downloads folder, and what is opened.

`MCParts` runs the small modules: a behaviour chooses one of them, its *part*,
and runs it alone with the constants set there, so that one run of TLC checks
many small instances. They share no state in the code either, other than through
what each of them models from its side. It extends the modules about which there
are theorems, so that TLC evaluates their assumptions on the constants, and
instantiates the others.

## Runs

| run | instance | question | result |
|---|---|---|---|
| outbox_safety | 2 accounts, 1 draft, 2 saves, 2 attempts, 1 mishap | is mail lost, repeated or replaced by older; does the system implement `Submission` | no; it does |
| outbox_liveness | 1 account, 1 draft, 1 save, 2 mishaps, fair | does every row settle | yes |
| history_safety | 2 jobs, UIDs {1, 3}, 2 tries, 1 mishap, 1 restart | is a completed row complete, is the index back | yes |
| history_removal | 1 job, UIDs {1, 3}, account removed, a message moved in, 1 restart, fair | is anything brought back, does every pull settle | no; yes |
| history_liveness | 2 jobs, UIDs {1, 2}, fair | does every job end | yes |
| mailbox_sync | 1 folder, 1 message and a window of 1, 1 command, 3 changes elsewhere | does the cursor keep its promises, does the drain hit the right message | yes |
| mailbox_moves | 2 folders, 2 commands, 2 attempts, 1 mishap | do moves keep every message exactly once | up to one copy a mishap; none lost |
| engine | 3 accounts of 2, 1 and 1 folders; cap, channel and buffers of 1; 2 pools; fair | is a skipped click covered, is an account, a report or a poll forgotten | yes; no |
| backends | 2 overlapping calls of any kind, 1 mishap, 4 cells, 3 tokens, both providers, fair | is a retry on a new session, does a working token survive, does every call return | yes |
| parts | fourteen modules, one after the other | the property of each, see below | hold |
| parts_liveness | `Compose`, `Lists`, `AddAccount`, `JmapSync`, fair | do panes settle, lists and additions come out right, destroyed messages go | yes |
| sent_means_accepted | `Delivery` | was what the outbox deleted accepted by a server | no, see findings |

The properties of *parts*, each stated and explained in its module:

| property | module | what it rules out |
|---|---|---|
| `SettingsAreApplied` | `Settings` | a control, window or tray that shows another value than the table's when nothing is under way |
| `PanelShowsTheTable` | `PullPanel` | a cancelled, ended, resumed or started pull whose panel stays as it was, but for a row that a resume completes |
| `PickedAreParsed` | `Recipients` | a picked recipient that a later pick, or a comma in a name, drops |
| `RepliesReachEveryone` | `Replies` | someone lost or doubled over a chain of reply-alls; a broken reference chain |
| `BlindCopiesArriveBlind` | `Delivery` | a Bcc header that leaves the client, or a Bcc recipient who gets nothing |
| `RemoteIsAskedFor` | `Reader` | remote content shown where nobody asked for it, because a render came late |
| `NoHoles` | `Paging` | a message between the oldest row and the newest that no page ever brings, but one that a load had still to store when it stopped |
| `ThreadsAreSound` | `Threading` | rows that name no thread, badges that say too little, replies apart from what they answer |
| `FoldersStayApart` | `Folders` | accounts that overwrite or prune each other's rows; mail missing from a listing or the unified inbox that no other mailbox of its JMAP account took |
| `BodiesAreSound` | `Bodies` | half a file, a recorded body without one, a file of a message that is gone |
| `OpsAreCarriedOut` | `JmapOps` | a row settled with part of its batch not done; a draft without a server copy |
| `StorageIsSound` | `Storage` | confirmed statements that are gone, half a transaction, a migration run twice |
| `SessionIsSound` | `ImapSession` | an operation on a dead session, on another folder, or on UIDs that were renumbered |
| `FilesAreKept` | `Attachments` | a file overwritten or run, a click that opens another part |

### Bounds

*Outbox.* `MaxVersions` bounds how often a draft is saved and `MaxMishaps` how
many crashes, failed local statements and lost replies happen; refused or failed
dispatches are not counted, a row may fail every time. Two saves are what the
overwriting hazards need (one in flight, one after it, and a move to another
account); two attempts are a retry and a last failure; two due rows and a limit
of one or two make the batch wait and the limit bite. Commands stop when the
bounds are used up, so the runs do not check for deadlock. `View` identifies
states that differ only in the absolute time or in the numbers of server copies;
no property reads either but by comparison.

*History.* `Jobs` bounds how many starts and drivers are alive at once; a job
that is over is used again, so the number of pulls is not bounded. Two are enough
for every race of this code: each is between a driver and one other start,
cancel, resume or driver. UIDs in a gap (`{1, 3}`) or next to each other, chunks
of one UID, so that a pull takes several chunks and the producer fills the
channel. One restart and one failed statement may fall anywhere; failed fetches
are bounded only by the code's own limit. Jobs are symmetric in the safety run
and told apart in the fair ones. The theorems cover any number of folders.

*Mailbox.* Commands, what other clients do, and lost replies are bounded; syncs,
refused operations and failed passes are not. Three changes elsewhere let a
message arrive, another go and the mailbox be rebuilt so that its UID is taken by
the first, between any two steps of a pass. A window of one message (the engine
passes 50) makes the second message push the first out of the full listing. Two
commands on one message are a change and a change of mind. One flag is enough
because an operation carries one, and `FlagsAreNotMissed` leaves out a message
the user has flagged altogether.

*Engine.* A plan says which accounts there may be and which of an edit, a change
on the server and a mishap happen, once each; what the engine does is not
bounded. A cap of one leaves the second folder of an account to the poller;
a channel and buffers of one fill at the second event. Two pools at once: the
present one and one that is being left; a third would have to wait in the model
only (`Spawn` needs a free number), and the code cannot be there before the
watchers of the first have had the time to notice.

*Backends.* Two calls that overlap, one mishap, four cells and three tokens: an
old session, one that two callers build, one for a retry, one for a watcher; the
token at hand, its rotation, a second authorisation. The theorems cover any
number of calls, cells and tokens.

*Parts.* Each has a constant (`Plans`, `Courses`, `Stories`, …) that lists small
scenarios: how often the user and the world do what kind of thing. The steps that
follow from them, retries and refetches included, are not bounded. A scenario is
as small as what it is for: two saves and a discard, two clicks on an attachment
of the same name and a file deleted meanwhile, a chunk cut short and delivered
again, and so on.

### Fairness

Nothing is assumed of users, and nothing of success: every dispatch, dial, fetch
and write may fail every time, except where a scenario counts failures.

*Outbox:* time passes and the drain keeps taking steps: a tokio interval calls it
every five seconds for ever (`sync_engine.rs:137-150`) and each of its awaits is a
database call or a backend call that returns an answer or an error. The second
half is an assumption on the backends: several IMAP commands have no timeout.

*History:* a spawned task keeps running (weak fairness of commands and
producers); an await on `sync_db` or on the account's mutex ends when it is free
infinitely often (strong fairness: tokio's mutex is first in, first out); the
resume loop begins after boot and goes on to its next row; a cancel gets to its
DELETE. The model makes a resume turn wait for a free job slot, hence strong
fairness there.

*Engine:* every task that can run does. In the loop `select!` polls its ready
branches in random order, so a branch that is ready again and again is taken:
strong fairness of `AccountsChanged` and `Receive`. Every debounce ends at times,
for polls are minutes apart.

*Backends:* a task runs while it can, and the permits of a cell go round in
order (`OnceCell` queues its waiters).

*Parts:* timers fire and commands and requests answer (`Sends`, `OtherFutures`,
`Commands`, `Pages`, `Works`, `PassSteps`); the user need not do anything more.

## What is proved

The theorems hold for every value of the constants that satisfies the ASSUMEs of
the modules. NULL is no number or draft and None no job, folder, task or account;
limits, delays, chunk sizes and UIDs are positive; bounds are numbers; the sets of
jobs, and of what else is counted, are finite. `Storage` assumes that a program
migrates on one of its own connections; `ImapSession` that the holder of a free
session is no user; `Attachments` that a name is a sequence of characters and the
numeral of a counter is not a dot; `Paging` that the rows it starts with are the
newest of the folder; `JmapOps` that a batch is about some messages unless it is a
draft; `Bodies` that `new` and `gone` are no folders; `Reader` that the attributes
with URLs that it is given are those a browser fetches or follows; `Folders` that
one mailbox name at most is an account's inbox; `Threading` that a message has one
In-Reply-To at most and that a fetch brings some messages, none twice; `Recipients`
that a display name is a list of parts; `Replies` that who begins a conversation
answers nothing and names each of its authors, and where it wants answers, once;
`Delivery` that a draft is lists of addresses.

**Outbox** (`OutboxProofs`). `Consistent`: `IInv` is an
invariant, by `InitIInv`, `TypeStep` (types) and `QueueStep` (everything else), one
step per action. From it `Typed`, `NothingSentIsLost`, `DuplicatesAreAccountedFor`,
`DedupIsSound`, `RowsStaySound` and `SubmitGivesUpOnTime`. None of these is inductive
alone. That mail is not lost needs `BatchFollowsTable` (what the drain works on is
still in the table) and `TakenIsAccountedFor` (a row about to be deleted after "ok"
was taken), which need `DrainControl` and that ids are not used again
(`IdsAreFresh`). That dedup is sound needs `SaveSawTheTable`: between the SELECT and
the INSERT of `enqueue_dedup` only the drain moves, and it only deletes. That giving
up is on time needs that a submit row is never overwritten (`RowsAreRegular`), so
the drain's stale count is still the row's. `Implements` says that every step of the
system is a step of `Submission` or none; `OneMessageMoves`, that it concerns at most
one message. The drafts have an invariant of their own (`DraftsConsistent`), on top
of the first: a server id names one copy, of the draft it is recorded for, and what
an upload destroys or records is of its own draft (`CopiesAreTheirs`); the drain's
copy of a row is never ahead of the row (`VersionsFollowSaves`); what is recorded of a
draft is no later than what waits to be uploaded (`UploadsAreNewer`). From it
`DraftsAlwaysHaveACopy` (the old copy goes only after the new one is there) and
`UploadsOnlyRise` (what the server gets of a draft never gets older), for which
`RowsAfter` and `BatchAfter` say what any step may do to the rows of one draft.

**History pull** (`HistoryProofs`). `Consistent` by `TypeStep`, `ControlStep`,
`HonestStep` and `IndexStep`; from it `Typed`, `AnchorsAreHonest`,
`CompletedRowsAreComplete`, `NothingOfRemovedAccounts`, `TokensAreAlive` and
`IndexComesBack`.

* *Control*: the chunks in a pipe form a chain, each fetched where the one before
  it ended, the first at the consumer's anchor (`PipesAreChains`). Hence
  `NeverStuck`: the exit of `run_consumer` for a chunk that neither moved nor brought
  anything is not taken above UID 1, so a consumer that completes has reached the
  bottom.
* *Honesty*: what is stored is all messages of the server above some UID
  (`NoHoles`), and every anchor, in a row, in a driver's local or in the list a
  resume has read, has everything above it stored (`AnchorIsHonest`,
  `JobsAreHonest`, `ListedIsHonest`). A chunk moves an anchor no further down than to
  the lowest UID it brings, or over UIDs that hold nothing (`ChunkReachesItsEnd`),
  and is stored before the anchor is recorded (`RecordingIsStored`). An anchor is
  honest by what is stored, and the store only grows; that is why several drivers
  on one row, stale lists and undone cancels do no harm here.
* *Index*: `pull_in_progress` is the number of drivers in a pull (`PullsAreCounted`),
  and an index that is dropped was dropped by a driver still in one
  (`DroppedByAPull`).

Most actions leave alone what a part is about; frame lemmas (`FineStep`,
`QuietStep`, `CountStays`, `ChainsKept`) say so once, in terms of what happens to one
row, one job or one pipe.

**Mailbox** (`MailboxProofs`). `IdsNameTheirMessage`: an id in a row, a queued
operation, a command or a listing is of a UIDVALIDITY the folder has or had, and if
it has it, its UID is that of the message the id was made for. The lemmas on the
server say what an append, a removal, a flag change and a rebuild do to the UIDs
of the messages that stay (`AddsOne`, `RemovesOne`, `MarksOne`, `Renumbers`, together
`Evolves`); those on the account say when rows that move along keep their names
right (`Follows`, `Spares`). From it `DrainHitsItsMessage` (a `Dispatch` touches no
message but one an operation is queued for: `DrainTouches`) and `OthersKeepMail`.
`MovesDoNotMultiply` counts: of each message that ever arrived the copies in all
folders are finite and at most one more than the mishaps so far (`CopiesInv`).
`AtMost(w, v, n)` says that from the mailboxes w to v nothing is new and no message
has more than n copies more, and one lemma for each effect says which n: none for
flags, removals and a whole move (`StoredCounts`, `WithoutCounts`, `MovedCounts`, which
takes away as many as it adds), none for a rebuild, whose renumbering is an injection
(`RebuiltKeeps`), and one for the COPY without its EXPUNGE (`HalfwayCounts`), which
only a step that counts a mishap can take.
`TypesHold` proves the type invariant, which no run of this component lists: the
tables and the mailboxes have their shapes, an operation always has an attempt left,
and cursors are what a SELECT can return: a validity, a UIDNEXT and a mod-sequence.

**Cursors** (`MailboxProofs`, its second half). `CursorsHold`: `CInv` says
what a cursor promises of each message separately (`Promised`), and what a pass
that is under way has learned (`PassRead`). The promise about a message, that it has
a row and that the row has the server's flags unless the user wished them
otherwise, speaks of messages up to the cursor's UIDNEXT and MODSEQ only, so
whatever other clients do raises a message above the cursor and out of the promise.
A pass is the hard part: it reads at three moments and writes at four. What saves it
is that what it has read of a message stays true as long as the message's MODSEQ
has not passed the one its SELECT returned (`Old`), which is what the new cursor
will promise; and a message that has passed it is for the next pass. One lemma for
each party, the user (`UserMoves`), the pass (`PassWrites`) and the server, says what
its steps leave alone; `CursorsStayHonest` follows.

**Sessions and tokens** (`BackendsProofs`). `BackendsAlways`: at most one builder
a cell and only in cells that are empty (`OneBuilder`), cells of an account in the
order they were made (`SlotsInOrder`), a retry after its own eviction
(`Renewing`). `RetryAlwaysFresh` follows: the refused session's cell is out of the
map for good. `CredentialsAlwaysSurvive` needs that a token on its way to the keychain
works unless it was lost or revoked (`HeldWork`), and differs from the one in the
keychain and from every other token that is held or about to be spent
(`HeldAreNew`): spending one token does not break another.

**Engine** (`EngineProofs`). `PassesAreSound`: outside the loop nothing is watched;
in it the receivers of the current pass are open, and each watched IMAP folder has
an idle watcher of this pass, or its account is stale: gone, or changed with the
notification stored or about to be. `FoldersStayCovered` follows.
`BuffersHold` proves the type invariant and with it the sizes of the two kinds of
buffer. Nothing is pending between passes, and a pass syncs exactly while it has
folders for it (`Accounted`); a forwarder's own buffer is never over full
(`Fitting`); and the channel holds at most `EVENT_CHANNEL_BUFFER` events and one more
for each watcher whose forwarder waits for room, since a forwarder that waits does so
once (`Queueing`, counted by `FewWait`). It needs finitely many accounts and folders.

**Parts** (`PartsProofs`).

* `StorageSound`: a caller at work has a number nobody else has and nothing is
  stored under it before it commits (`CallersAreTheirOwn`), a connection's
  uncommitted writes are those of its caller, or of one that was dropped and left
  it poisoned (`TransactionsAreTheirOwn`), and a migration under way is the one after
  the last that is stored (`MigrationsFollow`). A poisoned connection is rolled back
  by whoever comes next, before its first statement.
* `SessionSound`: one task has the session (`OneHolds`); between its SELECT and its
  command the selected folder is its own (`SelectedIsTheirs`); a session that passed
  the probe is alive or its loss is on record (`ProbedIsAlive`).
* `FilesKept`: a name that an opening has chosen was free then, and is its own
  unless another chose it in between, which `raced` records (`OpeningsAreSound`). That
  what is launched is harmless rests on lemmas about names: cleaning, the `_` before
  reserved stems and the numbered alternatives never bring an extension back.
* `SettingsReachEveryone`: the control of the settings window has the stored value or
  will read again, whatever overlapped (`ControlCatchesUp`), since each write ends in
  a refetch after it. Marks, tray and main window follow while there is one call at
  a time (`AllFollow`): what it announced is in the queue or has been heard, and a
  read begun after it returns its value.
* `FoldersAreApart`: the rows of a folder are those of its own mailbox at its last sync,
  in JMAP without what a later sync of another mailbox took, and what the mailbox has
  had since is above the folder's cursor (`SyncedHolds`). Scoped ids differ as accounts
  and mailboxes do (`IdsAreScoped`), ids of messages as accounts and messages do
  (`MailIdsDiffer`), so that a pass of one account leaves the others' rows alone.

**Messages** (`MessageProofs`).

* `PagingLeavesNoHoles`: from the anchor that a load has computed up to where a sync
  has seen, everything on the server has a row or was left by a load that stopped
  (`AnchorIsCovered`), and what the load got is all that the server has in its window
  and is not yet stored (`AllWasGot`). A load that stops leaves just that behind
  (`FailureKeeps`).
* `OpsAreDone`: the requests of a batch so far are for each of its messages up to the
  present one, in order (`SoFar`); server copies of a draft are numbered by the
  attempt that made them, and there is one unless an attempt failed.
* `BodiesHold`: an inode has one name and its writers are of one message and folder
  (`FilesAreApart`, `WritersOwn`); it has one writer and is whole when renamed unless
  two puts of the message overlapped (`WritersAreAlone`); and rows, tasks and files agree for
  every message that was not moved under a running fetch (`RowsAgree`).
* `UndoneStaysUnsent`: one future per click (`OneFuturePerClick`); only a future that
  is the pane's pending one goes on from its countdown (`GoOnInTime`).
* `PanelKeepsUp`: the panel shows the table, or has a refetch under way, or a driver
  or cancel that changed a row has yet to send its event (`EventIsDue`), or the row is
  one that a resume completed (`Shown`). That `history_sync_cancel` sends after its
  DELETE is what the proof turns on.
* `NothingLoadsUnasked`: a render carries the visit and permission it was begun with
  (`RendersAreSound`), and the one call that the pane still awaits is of the selected
  message and this visit (`AwaitedIsCurrent`), so that a late answer to any other
  changes only what a window may show. `BlockedLoadsNothing` says of `sanitize` that
  what it keeps of an untrusted message fetches nothing. When the setting is
  switched off, what was rendered before stays until the main window is told, which is
  why the invariant has `untold` in it.

**Letters** (`LetterProofs`). The three properties compare what loops over lists compute, so
each needs an invariant of the steps and an induction over the loop. The library
states induction for an operator, which no prover at hand can instantiate; here it
comes from two facts of first order, that `<` on the naturals is well founded and that
a set without a least element is empty (`WFMin`). `NatSet` is the result: a set that
has 0 and the successor of each number in it has them all. The set is then that of
the numbers of passes after which the loop is right. `Recursion` gets from it that a
loop of n passes exists, and is what the recursive functions of the models denote.

* `PickedStayParsed`: every picked address is that of a segment before the one being
  typed (`LinesAreSound`), which is the only one that an edit or a pick replaces.
  `FormatKeepsAddress` says that a name with commas has its address in the last of
  the segments it falls into. The answers to queries are anything: rows and names of
  the contacts are all that is known of them.
* `AnswersReachEveryone`: every message stands alone or is an answer to an earlier one
  (`Sound`), a draft or a reply under way will be one (`Sendable`), and what one step of
  answering keeps, a chain of them keeps (`ChainsAreKept`). A chain is the least set
  closed under "what this answers" (`ChainGoesUp`, `ChainStays`: an answer adds itself
  to the chain of its message and changes no other). `UnseenOnce` is about the loop of
  `reply_all_cc` alone: it copies whoever is not seen yet, each once. The
  property speaks of conversations in which nobody asked for answers elsewhere and nobody
  answered one person alone, and for the references, of those in which everyone sent some.
* `LettersArriveBlind`: the row holds what was built of the draft, and everything a
  server has taken is what is submitted of such a row (`DeliveryInv`). That this is
  right is a matter of the bytes: `HeadEnds` and `HeadsJoin` say where the headers of a
  built letter end, `EnvelopeIsEveryone` that those in To, Cc and Bcc, with their
  continuation lines, are who is in the draft, and `OnlyBlindIsStripped` that the one
  pass of `strip_bcc_header` leaves what would have been written without blind
  recipients, whatever stands in the body.

**Only model-checked**: liveness, as fairness and ENABLED are out of the prover's
reach: `EveryRowSettles`, `EveryPullSettles`, `EveryJobEnds`, `NothingIsMissed`,
`CallsReturn`, and the four of `parts_liveness`. Every invariant and every action
property that a passing run checks is proved.

## What the models found

`sent_means_accepted` is a run because it contradicts a comment outright: JMAP's
`submit_message` (`jmap-client/lib.rs:597-605`) ends with Ok as soon as
EmailSubmission/set has answered, without looking for its create under
`notCreated`; the drain deletes the row, and the message is sent nowhere while
`messages.rs:1327-1331` says that a failure shows the "failed to send" banner. What
follows was met while modelling. The models take these steps, and the properties
are stated as the code keeps them.

*Outbox and drafts*
* A save that comes while an upload of the draft is in flight overwrites its row;
  the drain then deletes the row by its id, and the newest bytes with it
  (`outbox.rs:150`; `0008_outbox_dedup.sql:9-10` says otherwise). It also resets the
  row's attempts while the drain holds the older count, so `record_failure` may
  dead-letter a fresh upload (`outbox.rs:233`).
* A crash between the server's answer and the DELETE sends a message twice;
  `DuplicatesNeedLostNews` says exactly when.
* `outbox.rs:42` says the sixth failure dead-letters a row; the fifth does.
* When destroying the prior server copy of a draft fails, the new id overwrites
  the old one and nothing retries (`backend.rs:1162` says the next cycle will). Over
  JMAP each failed submission leaves a `$draft` copy.
* SMTP errors that will not go away are retried like the others
  (`smtp-client/lib.rs:92-95`, `outbox_drain.rs:199-230`).
* Two clicks on Send with undo off send twice (`app.rs:2871`); two first saves that
  both have no id make two drafts; a save in flight after a discard or a send
  brings the draft back (`drafts.rs:75-88`); an answer that arrives late closes
  whichever pane is open (`app.rs:2982`); a draft that fails to load shows an empty
  form under its id, and the next autosave stores it (`app.rs:2648-2651`).

*Messages and folders*
* A flag set right after a move, before the drain runs, is lost: both operations
  name the message by the id it had in its old folder, the move goes first, and
  the STORE finds no such UID and succeeds. In the same way a move there and back
  ends at the target.
* A flag operation that failed is retried after a newer one of the same message
  has gone out, and wins (`outbox_drain.rs:195`; `DESIGN.md:123`, `PHASE_1.md:63`).
* `messages_mark_read` writes all the flags as it read them. A sync that updates
  another flag of the row in between is undone, and the cursor has moved past that
  change ("last-write-wins *per flag*").
* A first sync that is cut short leaves rows and no cursor. The next one lists the
  newest 50 again; a row that has left that window keeps the flags it has, though
  the new cursor says they are current (hence `low[f] <= u` in `FlagsAreNotMissed`).
* `list_messages` asks for `uidnext:*`, which always contains the newest message:
  `apply_chunk` puts its row back as the server has it, and takes back a change
  whose operation is still queued.
* A moved row is pruned by a sync of the target folder that comes before the
  drain; when the operation is dead-lettered the message is in no folder locally
  until the source folder is listed anew.
* The reconciliation takes an empty list of known ids for "not supported"
  (`sync/lib.rs:180`): the last rows of a folder that was emptied elsewhere stay.
* JMAP's Email/changes is account-wide: every folder of the account claims the
  mail that changed (`jmap-client/lib.rs:233`), `apply_chunk` moves its row there, and
  the reconciliation of that folder deletes it. A pass that goes on from the inbox to
  another mailbox so takes new mail out of the inbox and of the unified one, where it
  stays missing until it changes again or the inbox is synced from nothing
  (`claimed` in `Folders`; `sync/lib.rs:178-203`). The state that
  Email/query returns is stored as one of Email/changes (`lib.rs:275-281`). A batch
  with one message destroyed elsewhere fails at every retry; a delete whose reply
  was lost does too.
* Folders that are gone from the server stay in the sidebar: nothing in the sync
  calls `folders::delete` (`commands/folders.rs:25-27`).
* `messages_load_older` stores the headers of a window one by one, the lowest UID
  first, and returns at the first failure (`messages.rs:1468-1485`). The lowest stored
  row is the next anchor, so what was left is a hole that no page brings; so is what a
  program that ends in the loop leaves (`abandoned` in `Paging`).
* Subjects are not chained within one chunk, and `threads.rs:185-189` leaves a
  thread with counts and no messages when load-older and a sync overlap.

*History pull*
* A message moved in lowers the anchor a pull starts at, and what lies between is
  skipped (`history_sync.rs:598`, `0010_history_sync.sql:13`).
* A cancelled driver that was still waiting puts its row back (`history.rs:140`;
  `commands/history_sync.rs:168-170`).
* Two starts, or a start and the resume loop, both pass the check at
  `history_sync.rs:95` and spawn two drivers, though `:77` says the second is
  rejected. The theorems hold for any number of drivers.
* `drop_canceller` removes whatever token is registered, its successor's included
  (`history_sync.rs:537`); that pull can then no longer be cancelled.
* A resume that finds nothing left completes the row and sends no event
  (`commands/history_sync.rs:652-663`): a panel that is open goes on showing "Running"
  until something else makes it read the table (`unheard` in `PullPanel`).
* A consumer that fails by `?` leaves the row "running" (`history.rs:336`) until the
  next boot; `EveryPullSettles` is stated of runs without failed local statements.
* `messages_search` asks whether a pull is in progress and then waits for the
  database (`messages.rs:221-226`): the index may be dropped in between.

*Engine, sessions, accounts*
* A change between the boot sync and the watcher's SELECT is not reported, and
  clicks are skipped for a watched folder (`messages.rs:1539`, against `:1525`).
* Watchers of an earlier pass leave at their second send only (`sync_engine.rs:168`),
  so the cap on connections is exceeded after a rebuild (`:56`). A boot sync that
  failed is not repeated while another account's succeeded. Every event pushes the
  debounce back. The backoff of a watcher is never reset (`imap_idle.rs:92-97`).
* A call that opened the account before its removal puts the handle, and with a
  rotation the keychain entry, back (`backend_factory.rs:93`; `accounts.rs:288,297`).
* A rotated token whose write to the keychain failed is gone (`refresh.rs:132`); two
  callers may refresh with the same token (`:100-102`). Only `messages.rs:871` goes
  through `with_auth_retry`.
* A keychain write that fails after the row was inserted leaves an account without
  token, of which nobody is told.
* A session whose command fails counts as used just now (`imap-client/backend.rs:130-132`);
  NOOP has no timeout.

*Windows*
* The tray's count is not computed anew after the user's own mark-read or a history
  pull (`tray.rs:247-251` says every change does). The bar of a pull that ended
  unseen stays (`app.rs:646-650`).
* Clicks apply to the messages a thread had when it was opened (`app.rs:5582`); the
  list loads the newest 200 only to find where to go on (`messages.rs:1428`), and
  past them paging does not move.
* After 999 tries an attachment is written over an older file; two clicks at once
  may choose one name.
* The panel's row keeps the folder it started for (`settings.rs:426-512`); rows of
  the accounts tab keep the old account's listeners (`settings.rs:183`).

## Not modelled

* *Search*: a pure parser of query strings, with unit tests; its index only as far
  as pulls drop and rebuild it. The export of a message's source.
* *Text*: MIME and HTML as characters, link cleaning, the grammar of FETCH,
  wire formats. What a conversion loses or keeps is modelled where a property is
  about it (Bcc, envelope, parts, remote content, names of files and recipients).
* *Appearance and I/O*: markup and styles, keyboard maps, windows and tray icons,
  telemetry.
* *`mailcli`*: a sequential diagnostic tool over the same crates; in `Storage` it is
  the second program that opens the database.

The models have limits of their own. Messages and drafts carry a version and no
content; a draft has recipients or none. The copy IMAP appends to Sent is in
`Delivery`; its failure is logged and changes nothing else. In `HistorySync` a folder
begins with its newest messages stored, as a first synchronisation leaves it, and
the server's folder does not change during a pull; a message moved in stays. When
the consumer returns early the producer stops at its next step. Totals are left
out. An `accounts_remove` that a crash interrupts is forgotten. In `Mailbox` a
command has one id: a row with several, the first done and the second refused, is
retried as a whole, which repeats what is idempotent. Threads, bodies and JMAP are
in modules of their own and do not run beside it. A `\Deleted` mark whose EXPUNGE
failed is invisible to this client. The server keeps the contract of RFC 3501 and
RFC 7162, and does not rebuild a mailbox that is selected. In `Folders` a sync is one
step, no mailbox becomes empty (the reconciliation spares those, see above), no IMAP
mailbox takes the name of a synced one that is gone (new UIDVALIDITYs are in `Mailbox`),
and the emails of two JMAP accounts have different ids, though RFC 8620 promises that
of one account only and `messages.id` is a global key. In `PullPanel` the rows of one
`resume_running_jobs` are read in one step.
