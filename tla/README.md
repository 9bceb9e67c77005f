# A TLA+ model of ichat

ichat is a chat application: a FastAPI backend over PostgreSQL and Redis, worker
processes that run the model, Celery workers for e-mail, titles, files and avatars,
and a React client. A user's message starts a *run*; a worker claims it, streams
the model's answer through three sinks, and ends it in one transaction, while the
user may cancel, reload, edit, delete, and any process may die. On the other side, a
browser shows all this through requests whose answers cross. This directory models
the server's core and the client's state, checks them with TLC on small
instances, and proves with TLAPS, for every instance, the invariants of the server and
those of the client's attachments, options, answers, links, overlays and
administration.

`PROJECT.json` lists the components, runs, mutants, findings, hazards and theorems,
and maps every definition to the lines it models.

## 1. The system

| Part | State it keeps | Operations | What is hard about it |
|---|---|---|---|
| Run lifecycle (`services/runs/lifecycle.py`) | `runs.status`, lease, `run_events` | claim, streaming, succeeded, failed, cancelled, renew, recover | executor, cancel endpoint and recovery all want to end a run |
| Executor and sinks (`worker/executor.py`, `event_sink.py`) | seq counter, draft buffer, cancel event, `run_drafts` | emit to PostgreSQL, Redis and the draft at once; checkpoint; finalize | a sink that raises leaves the others running; the process dies anywhere |
| Worker pool (`worker/main.py`) | semaphore, tasks, stop event, wake-up event | claim loop, drain, recovery loop | overlapping claims, lost hints, failed commits |
| Run stream (`run_events/stream.py`, `runs/wakeup.py`) | Redis stream, pub/sub | append, tail, latest seq, hints | best effort: drops, trims, refuses, expires |
| Run SSE and state (`runs/streaming.py`, `runs/service.py`) | cursor and text of one connection | replay, merge, tail, restore | three stores read one after the other while all change |
| Conversations (`conversations/service.py`) | messages, positions, archive, `deleted_at`, pins, stars | submit, edit, regenerate, delete, restore, purge, pin, star, rename | several tabs, workers that insert answers without the lock |
| Authentication (`services/auth`) | refresh tokens, one-time links, the account | login, rotate, revoke, verify, reset, delete | rotation is not atomic, several requests meet a 401 together |
| Files (`services/files`) | upload sessions, assets, quota, bindings | reserve, confirm, process, bind, cancel, sweep, reclaim | cancel against send, a worker or a tab that is gone |
| Shares (`services/shares`) | links | create, revoke, visit | two tabs at once |
| Model catalog (`services/model_catalog`) | models, upstreams, routes, archived or not | upsert, archive, restore, resolve | administrators at once without locks |
| Client: chat (`frontend/src/app`, `runs`, `conversations`) | selection, thread, active run, address | select, send, stop, stream, recover, refetch | each await is an interleaving point; two effects mirror each other |
| Client: list, attachments, search, options, reading, overlays, account, administration | rows, drafts, caches, timers, focus | see section 2 | answers out of order, storage shared by tabs, components that are gone when their request settles |
| Design workbench (`design/src`) | conversations, runs, drafts and a catalog in memory | the client's page on canned answers and timers, controls around it | every answer is applied by the handler of the render that asked |
| Jobs (titles, e-mail, avatars), chat agent, providers | job rows, tool rounds | claim, complete, retry | not modelled, see section 7 |

How they interact. A request inserts message and run in one transaction, commits,
and publishes a hint. A worker's claim takes the oldest queued row (`FOR UPDATE SKIP
LOCKED`), gives it a lease, and starts a task. The task's events go to
PostgreSQL (semantic events), to a Redis stream (everything) and to a draft row (a
cumulative checkpoint). The SSE endpoint merges the three by seq. Cancelling sets
the status and publishes a hint; the heartbeat polls for the status. The recovery
loop of every worker fails runs whose lease expired. When the run succeeds, the
assistant message is inserted in the transaction that ends the run. Requests on one
conversation serialise on its row; workers do not take that lock. The client keeps a
store changed by reducers; hooks send requests, and what a hook does after an await
may find another conversation, another run or another user.

What must be right: a run ends exactly once and its event, status and message
agree; a run nobody executes is ended; a cancel is carried out; no run is executed
twice; no permit is lost; a client's text is complete, in order and unrepeated; a
conversation has one active run and each answer stands behind its question. A tab
never logs itself out, shows no event of another run, frees its composer, and ends
with what the server has. An attached file is neither lost, nor sent elsewhere, nor
deleted once a message has it, and the quota is given back once.

## 2. Modules

| Module | Models | Part of run |
|---|---|---|
| `RunStatuses` | statuses, the sets the transitions start from | shared |
| `RunLifecycle` | **abstract**: what a run promises: status, terminal events, message; a cancel settles | refined in `run`, `conversation` |
| `RunExecution` | one run with everything that touches it; implements `RunLifecycle` | `run` |
| `WorkerPool` | many workers and runs; a run is `queued`, `active` or `ended` | `pool` |
| `RunSse` | one client, the SSE and state endpoints, and what the worker writes; deltas are letters, a text is a sequence of seqs | `sse`, `nothing_skipped` |
| `Conversation` | one conversation, several tabs, its runs, trash and purge; every run in it takes steps of `RunLifecycle` | `conversation` |
| `AuthServer` | tokens, links and account of one user | `account` |
| `AuthSession` | `localStorage` and the `ApiClient` of each tab; extends `AuthServer` | `account` |
| `AccountPages` | login form, account card, avatar cropper, banner, pages behind mailed links; extends `AuthSession` | `account` |
| `ChatClient` | the chat of one tab against a server of conversations and runs | `chat` |
| `ConversationList` | the rows of the sidebar against the server's rows | `list` |
| `Uploads` | drafts, cards, uploads, quota, workers and sweeps | `uploads` |
| `MultipartPut`, `FileCard`, `SearchDialog`, `SearchReveal` | one component each; composed by `RequestParts` | `requests` |
| `DesignChat`, `DesignResults` | the chat page of the design workbench, and its services; composed by `RequestParts` | `requests` |
| `RunOptions`, `ComposerMenus`, `ThreadScroll`, `ReplyQuotes`, `CodeBlocks`, `AnswerParts`, `ShareLinks`, `Favorites`, `Overlays` | one component each; composed by `ScreenParts` | `screens` |
| `CatalogRows`, `ModelAdmin` | the rows of the catalog under several administrators; the console of one; composed by `AdminParts` | `admin` |
| `WorkerProofs` (about `RunExecution` and `WorkerPool`), `RunSseProofs`, `ConversationProofs`, `ChatClientProofs`, `UploadsProofs`, `ScreenProofs`, `AccountProofs`, `PartsProofs` (about `AdminParts` and `RequestParts`) | theorems about the module or the composition each is named after | |
| `MC*` | instances for TLC | |

The detail of each run lives in `RunExecution`; the other modules take from it only
what they can see: `WorkerPool` that a task ends, raises or is orphaned,
`RunSse` in which order the sinks write, `Conversation` that a run moves along
`RunLifecycle`, `ChatClient` that it emits events and ends.

`RequestParts`, `ScreenParts` and `AdminParts` gather components that share no
state: an initial state switches one of them on (`on`, or a part name), and a
behaviour is a behaviour of that one. Their properties are conjunctions of the
components' properties, which carry their own comments where they are defined.

### RunExecution
PostgreSQL: `status`, `lease` (owner and expiry in one: none, live, expired),
`events`, `draft` (its seq), `message`. Redis: `stream`, `hint`. The executor: `pc`
(where `execute_run` is), `seq`, the `sinks` still busy with the last event,
`cancel`, `heartbeat`, `outcome`, `terminal`; the sinks' own fields `pending`,
`latest`, `streamingStarted`, `bgError`. `recovery` and `api` say how far the
recovery loop and the cancel endpoint are. An action is one transaction, one Redis
command or one uninterrupted stretch of a coroutine. A transaction that needs the
row of the run waits while recovery holds it. `asyncio.gather` is modelled as it
is: when one sink raises, the executor goes on to its clean-up while the others
may still write. `MaxFaults` bounds how often something fails; recovery may
find Redis unreachable at any time.

### WorkerPool
A claim is two steps (SELECT with its lock, then the commit) so that claims overlap;
`ClaimFails` covers a commit that took effect although its answer was lost. `told` is
a history variable: a hint came after the SELECT whose result the worker acts on.

### RunSse
`iter_run_events` is a coroutine with a program counter (`list`, `replay`, `merge`,
`check`, `tail`); everything it reads is read at its own step, and the
worker writes in between. `healthy` is a history variable: Redis has dropped,
trimmed and refused nothing so far.

### Conversation
Rows of `messages` and `runs` of one conversation. A request holds the conversation
(`lock`) from its SELECT FOR UPDATE to its end; the check for an active run and the
inserts are separate steps because READ COMMITTED lets every statement see a newer
state. The worker's final transaction reads its position (`Finalize`) before it waits
for the conversation and inserts (`CommitFinalize`). Purging and an open final
transaction would wait for each other; PostgreSQL aborts one of them, so both
outcomes are possible.

### AuthServer, AuthSession, AccountPages
A pair of tokens is the number of its issue; `live` holds the refresh tokens that are
neither used nor revoked. `RefreshAdmits` and `RefreshWrite` are the two halves of
`refresh_tokens`, which reads the token without a lock; in `AuthSession` they are steps of
their own (`RefreshRead`, `RefreshCommit`), and an answer is lost (`RefreshLost`)
before or after what it tells took effect. Time does not pass: whatever has a TTL
may be refused at any use, and so may whatever is rate limited; every endpoint may refuse. `calls` holds
the requests of all tabs that are under way, each under a number that is free again once it has
settled (`Settled`, `Unused`); `Serve` is the endpoint,
`Lose` a lost answer, and the action named after the continuation (`SignedIn`,
`UserUpdated`, `AvatarStep`, ...) what its `then` does. A request whose
component is gone settles without its `setState` (`att`). `refresh[t]` is the one
promise that all requests of a tab share, `rotated` the history of what it was given.
`OtherTab` is a second tab that writes the storage. Two presentations of one token can both
be admitted, as in the code, and both pairs then live; no text of the repository
says otherwise, and no property tells this outcome from others (`TabsTrue` is about a tab that
presents a token it has rotated itself).

### ChatClient
`st` is the store: `sel`, `detail`, `active`, `pending`. Each reducer is an operator
(`DetailLoaded`, `RunStarted`, `RunRestored`, `RunTerminal`, ...) and a hook between two
awaits is the composition of its dispatches. `tasks` are the requests under way with
what the server answered *then*. `seen` is what the last render showed, because
effects and callbacks use the values of their render: `Commit` runs the effects that
copy the address into the selection and back. A turn of a thread is named by its run.
`odd` is a history variable: `race` when an answer was lost, or came for a
conversation or a thread that had moved on, `lag` when an ended run was restored while
a stream still read it; the properties that hold without such luck say so.

### ConversationList
`srv` has one record per conversation and `ver` counts its changes, so that an answer
carries the time it was made at; `known` is the newest the tab was told and
`overtaken` says that an older answer was applied after it. Reducers are operators
again (`MergeFirstPage`, `WithPinned`, `ReconcileList`, `ApplyMarkers`), requests are
`tasks`, and `Tick` is the timer of `useConversationListSync`.

### Uploads
`list` and `text` are the composer's draft of the open conversation, `store` the drafts
kept per conversation, `up`, `exp`, `del`, `rem` and `snd` the requests of upload,
reading a pasted text, cancellation, removal of pictures and submission, `srv`, `tries`,
`asset`, `reserved` the rows of the server, `running` the attempts whose worker is
still at it (an attempt writes only while it has the lease), `preview` who owns an
object URL. A request is sent, served and answered in steps of their own:
`CreateUpload`, `ConfirmUpload`, `CancelUpload`, `CancelMany` and `CreateMessage` are the
endpoints, `CreateAnswered`, `Sent`, ... the continuations, and a failure may come before
or after the endpoint took effect. A poll reads and applies at once. `New` is the scope
of the start page: a submission from it makes a conversation, to which the tab goes.
A file is added at most once, also a restored one (`Restored`). `home` and `fate` are
history: where a file was added, and what became of it; `crossed` says that a
submission or an expanded text was answered for after its conversation was left. Left out:
the limit in bytes, the order of the cards, the retry of a failed upload (a failed card is
taken away, so that there is none to retry), and a user who is deactivated meanwhile.

### The parts of RequestParts and ScreenParts
- `MultipartPut`: the shared cursor of `putMultipartFile`, attempts per part, and a
  confirmation of the parts in order. `FileCard`: a clock, the cache of signed URLs
  and the URL's own life, previews, downloads and pasted text.
- `SearchDialog`: `ConversationSearch` with its input method, debounce, current
  request, pages, cached recent page and choice of a row. `SearchReveal`: the intent
  in `AppShell` and the reveal, which awaits a hash while the message is rendered.
- `DesignChat`: `canvas/ChatPage.tsx` with `runtime/outcomes.ts`, the product's page over
  conversations in memory. A handler is a function of the render it belongs to: what it
  uses after its wait is in its call (`page`). A step is a handler or timers, then the
  render's effects (`DesignCommit`); two intervals may fire before one render. A run is
  on the screen (`run`, `step`) or off it (`bg`); a script is a list of frames, computed as
  the code does from lengths (`ToolScript`, `ChunkedScript`). `gone`, `jumped`, `stale`,
  `strayed`, `begun` and `answers` are history: what was deleted, whether a control took the
  ticket of a message under way, whether an older list replaced a newer one, whether a file
  was added elsewhere than it was chosen, and how many runs began and ended where.
- `DesignResults`: `runtime/results.ts`, the mirror of the catalog's archive rules, and links
  with their snapshots in memory and in `localStorage`. Archive times are distinct, which
  the code takes from a clock of milliseconds; the mirror lacks the checks of a row that
  the server makes when a model returns. `solo` and `revoked` are history.
- `RunOptions`: the two copies of model, level and web search, and the effect
  that picks a model for a conversation with pictures, once per key. `ComposerMenus`:
  popovers, and the counter of drag events.
- `ThreadScroll`: `useStickToBottom` with its remembered positions; the browser clamps
  and reports later. The anchor is the question that was the newest when it was lifted
  (`at`, `ab`), which is not the newest one (`ut`, `ub`) once a turn appears that was not
  asked for. `ReplyQuotes`: candidate, quote, stored draft, the check on the
  server, and the way back to the source. `CodeBlocks`: one promise per source, cached
  parsers, copying. `AnswerParts`: reasoning, citation card, bubble.
- `ShareLinks`: `create_share` with its lock and the three places that call it, and the
  public page. `Favorites`: optimistic stars. `Overlays`: toast, dialogs, sheet, focus.

### CatalogRows, ModelAdmin
A transaction of an administrator is two steps, `Begin` with a plan made of what it
read, and `Commit`, which the partial unique indexes may refuse (`Conflict`). Rows are
archived with the time of the operation, by which restoring finds the routes that
went with their model (`Batch`). `ModelAdmin` is the console: `flights` are its
requests, of which the answer is the whole catalog, `OtherAdmin` and `RotateKey` what
others do meanwhile. A request carries what it asks for: a switch asks for the opposite
of what the console shows, which may be an older catalog, and the service sets what is
asked. Of the search field and the selected row only `shown` is kept, whether the pane's
detail is on the screen. `strays` are requests that nobody waits for: the page was loaded again, or the
connection failed before the service came to them. The service still does them, at any
later time, also after the reopened page has read the catalog (`ServeStray`). So a console
at rest may show an old catalog. `others` says that a stray or another administrator came in
since the service last answered this page, `lost` that an answer was lost; `ConsoleTrue`
is about every other moment, and a stray or another administrator that came in before an
answer is in it.

## 3. Runs

| Run | Instance | Result |
|---|---|---|
| `run` | 2 agent events after `run_started`, pending limit and gap 2, 1 fault | status, event and message agree; recovery's terminal seq is last; a cancelled or orphaned run ends; `RunLifecycle` is implemented with its fairness |
| `pool` | 2 workers, 2 runs, 1 permit, 1 fault | one executor per run, permits add up, hints are not swallowed; runs are taken, orphans recovered, draining ends |
| `conversation` | 2 tabs, 4 runs, 8 messages | one active run, unique positions, answers in place, nothing asked in the trash, every run follows `RunLifecycle` |
| `sse` | 3 events, draft and stream hold 2 | resumed text is in order, restored and first answers are complete, streams end |
| `account` | 1 tab and another that writes the storage, 2 requests of the user, 1 poll | `TabsTrue`: a tab is not logged out by its own rotation, a spinner has its request; `SessionsSettle`: verified stays verified, everything settles |
| `chat` | 2 conversations, 2 runs of 1 event, 2 actions, 1 fault | `DraftTrue`: the draft is one run's, in order, once; `ClientSettles`, `ThreadCatchesUp`: submission, composer, address and thread come right |
| `list` | 2 conversations, pages of 1, 1 pin, 2 actions, 1 fault | `RowsSound`: one row each, the open one is read; `RowsSettle`: rows only move forward and tell the truth in the end |
| `uploads` | 2 conversations, a picture and a pasted text, 1 upload at a time, 3 actions, 1 fault | `UploadsSound`: quota, previews and drafts are exact; `UploadsSettle`: what a message has stays, cards and uploads end |
| `requests` | 3 parts, 2 workers, 2 attempts; links of 3 ticks cached for 2; 2 texts, 2 rows, 2 pages; 2 conversations, 2 renders; workbench: 14 scenes, 2 moves, 4 changes of the services | `RequestsSound`, `RequestsEnd`: nothing untrue is shown or sent, every wait ends; `WorkbenchSound`: a run of the workbench answers once, and drafts, marks and links stay with their own |
| `screens` | see `MCScreenParts.cfg` | `OptionsSound`, `ThreadSound`, `AnswerSound`, `LibrarySound`, `ScreenSteps` |
| `admin` | 2 administrators, 2 rows per table, 2 archive operations; 3 edits in the console, 1 stray at a time | `AdminSound`, `AdminSteps`: keys unique, previews true, runs keep their upstream, solo archives stay, the console shows what the server had when it answered last |
| `nothing_skipped` | as `sse` | **violated**, see section 5 |

Why the bounds are enough. In `run` two agent events follow `run_started`: a tool event
and a delta after it are the shortest case in which an event in PostgreSQL and a delta
without a checkpoint coexist, and of two deltas the first leaves the pending limit of 2
unreached, for the timer and the flush, and the second forces a checkpoint.
The instances of `run` and `pool` are small because they also carry
liveness; their invariants are proved for all bounds (section 6), as are those of
`conversation`, `sse`, `account`, `chat`, `uploads`, `admin` and `screens`, and `RequestsSound` of `requests`. In `RunSse`, three events with room for two let
trimming and a shortened draft happen. Four runs with eight messages allow an
answer, an edit of it, a regeneration and one more turn. In the client, two
conversations and two actions are the least in which an answer meets another
conversation, and one fault lets a failure hit each of them; a third action in
`uploads` is a cancellation after an add and a send, or after a move. Two texts, one of
them empty, two rows and two pages let an old answer, an old page and a cached page
come late. A page of one row makes the second conversation a further page. On the workbench two moves are
the least in which an answer meets another conversation, and in which a run leaves the
screen, returns and ends, or returns and leaves again. A reasoning of 2 or 6
characters in chunks of 2 has one frame or several, a plain run has 1 step of reasoning
and 1 of text instead of 3 and 24, and two files and one pin reach their limits. Two
administrators with two rows per table allow a key to be given to a second row while
the first is archived, and to be restored. Three
edits in the console are a change, a reload that leaves it behind, and another change beside
it; one stray is enough for it to come before or after each answer. Every property has a mutant, a plausible bug
in one mapped definition, that the same instance refutes.

Deadlock is not checked: every instance may rest, as the system may (a run that
ended, workers that stopped, a user who does nothing more).

## 4. Fairness

Weak fairness, with one exception at the end of this section, of what the code's own scheduling guarantees. Server: tasks of a
live process run; transactions end; leases expire (`LeaseExpires`, in the pool `LeaseRunsOut`; a lease that is not
renewed passes its `lease_expires_at`); some live worker runs the recovery loop,
which sleeps on a timer; the claim loop polls every `worker_poll_interval_seconds`;
XREAD blocks for at most three seconds; Celery beat runs the sweep, and a worker takes a
queued upload. In `WorkerPool` and the client modules a task or run ends, because calls
to the model have a timeout and recovery ends the rest, which `RunExecution` shows
without assuming it: there the agent may hang. Nothing is assumed of users, of hints,
of the checkpoint timer or of Redis.

Client, and the workbench, whose requests are timers: a request is answered or fails, and then its continuation runs; a stream that is
open goes on; effects run after a render; the timers of the list, the upload poll, the
debounce and the reveal fire; a hidden page is shown again (the poll of
uploads pauses while it is hidden). Nothing is assumed of what an answer says.

The exception is `SearchReveal`, with strong fairness for the hash of a message and for
the frames that scroll and paint (`RevealFairness`). Choosing another hit and leaving the page
start or stop a reveal, so a user who does so without end disables these steps again and again,
always before they are taken; under weak fairness alone no reveal would ever have to
end. A hash takes milliseconds and a frame comes sixty times a second, so that
nobody chooses faster than they come each time.

## 5. Sentences of the documentation that the code does not keep

One is a run with a finding, `nothing_skipped`: a tool event that is committed between
the empty XREAD and the read of `run_events` moves the cursor over deltas that only
Redis has, although resuming is documented to lose nothing.

The others are stated as definitions beside the properties, so that they can be
checked by adding the name to the `INVARIANTS` or `PROPERTIES` of the configuration of
their module; TLC then prints the behaviour:

- `CancelledOnlyWhenAsked` (`MCRunExecution`): one failed heartbeat makes a run
  `cancelled` that nobody cancelled, which the state machine of
  `docs/architecture/overview.md` does not have.
- `SeqNamesOneEvent` (`MCRunExecution`): an executor that is late, not dead, numbers a
  delta with the seq recovery gave to `run_failed`; `CONTEXT.md` says seqs are shared.
- `ClosedAfterTerminal` (`MCRunSse`): a run that ends between the read of its events and
  the terminal check closes the stream without its terminal event.
- `NoLetterTwice` (`MCRunSse`): a first connection that finds a draft which Redis covers
  gets its text twice; `README.md` says duplicates are removed by seq.
- `FallbackComplete` (`MCRunSse`): without Redis a draft longer than its list of events
  loses its beginning.
- `ParentsActive` (`CatalogRows`): a route is inserted while its model or upstream is
  archived; the plan of the archive and a comment in `management.py` say that the
  parents of an active route are active. Users are not served such a route. `ParentsAlone`, a
  part of `AdminSound`, leaves this interleaving out: it is about administrators whose
  transactions do not overlap.
- `RowStopsSpinning` (`ConversationList`): a row that was loaded with a later page keeps
  its spinner when its run fails elsewhere, since only the first page is read again.
- `DraftsAlwaysScoped` (`Uploads`): a submission that fails after its conversation was
  left stores the cards of the other conversation under the first.
- `VisionCorrected` (`RunOptions`): a model without image input picked on the start page
  is not corrected when the conversation with pictures is opened again.

Smaller observations, where nothing is documented: a failed send returns its quote into
whatever composer is open, where it is cleared with a toast, or lost if that composer
has a quote; a candidate for a quote may stay after a `pointercancel`; a parser whose
import failed is cached as failed for as long as the page lives; a reader who opens the
reasoning, leaves and comes back after the end finds it open; a console of the
administration that was loaded again while an operation was on its way may show the catalog from
before it, until the next answer.

On the workbench a handler that waited puts back the list of its own render: a send,
rename or deletion that is answered for late undoes an answer, a title or a deletion that
came before it (`stale`), and so does the effect on `step` with an answer off the screen when
both timers fire before one render. `Play` or `Step` while a message is under way takes
its ticket, after which the composer waits until another conversation is opened
(`jumped`). The answer to `Stop` cancels whichever run is shown by then. Opening the
conversation that is open drops its run, and a deletion that was confirmed in it returns to
the start page from wherever the reviewer is. A file still on its way when its
conversation is left never gets its answer, the second of two files goes to the prompt
shown by then (`strayed`), and two choices that overlap can exceed the limit. A token is
numbered by how many links there are, so that after one was withdrawn two conversations
can have the same (`revoked`). The properties of `DesignChat` and `DesignResults` name these
cases where they exclude them.

## 6. Proofs

`WorkerProofs`, on `RunExecution`, for every `MaxSeq`, `MaxPending`, `Gap` and `MaxFaults`:

- `TypeCorrect`. `TypeOK` is not inductive: the draft buffer stays within its limit
  only because a delta is buffered when there is room, so `LoopInv` says where
  `pending < MaxPending` holds, that sinks are busy only while or after something
  was emitted, and that a queued run has no executor. `HasMax` (every
  non-empty subset has an element of largest seq) stands for finiteness of `events` and `stream`
  and makes `LastSeq` a number. Together: `TypeInv`.
- `OneTerminalEvent`, `MessageWithSuccess`, `LeaseWhileActive` from `RowInv`: the
  three, plus that recovery holds the row only of an active run. Each terminal
  transaction decides under the row's lock, so it starts from a run without
  terminal events (`SetTerminalRow`).
- `CancelIsFinal`, an action property, and `ImplementsLifecycle`: every initial state
  and step maps to one of `RunLifecycle` or a stutter (its safety part).

- `RecoveryNumbersLast`: `RecoverySeqSafe`, that the terminal event of recovery is after
  everything, and with it `UncheckpointedWithinGap`. `SeqInv` has five parts. `FreshInv`: a run
  nobody has claimed has left nothing, and only a live process has sinks at work. `OrderInv`: until
  the run is terminal the executor is ahead of all that is recorded, and drafts move
  forward. `AheadInv`: it is ahead of what PostgreSQL has by the buffered deltas, and
  by one more while an event is with the sinks, which bounds what only Redis
  has by `MaxPending`, hence by `Gap`. `EndInv`: it does not look back once it has ended the run.
  `RecoveryInv`: what recovery has computed is above everything unless the executor
  it believes dead still runs. `AheadInv` is needed only of an active run, where
  recovery reads; afterwards `TerminalIsLast` itself is kept.

`WorkerProofs`, on `WorkerPool`, for every set of workers, number of runs, capacity and faults:
`PoolTypes`, `NoTwoExecutors`, `PermitsAddUp` from `PoolInv`, which adds `LockInv` (a
locked row is queued and locked by the one claim of its worker) and `TaskInv` (a task
executes a claimed run). Types, locks and permits need each other: a permit can only
be spent on a task that was not there before. `HintsAreKept`: a hint that came
after the SELECT leaves the wake-up event set (`HintInv`), so `HintNotLost`.

`RunSseProofs`, for every `MaxSeq` and `MaxEvents`: `SseTypes`, `ResumedTextInOrder`,
`AnswersHaveNoHole` from `SseInv`. A text is the increasing sequence of a set of seqs
(`IsText`); that it exists and is unique (`SortExists`, `TextsAgree`) is shown without
induction, by a smallest counterexample. `ControlInv`, `WorkerInv` and `SeenInv` say where
everybody is and that no request remembers a seq that does not exist yet. `ResumeInv` is
the reason why a resumed text is in order: the merge sends the whole snapshot of a draft
only to a client of which the server knows nothing, and in later rounds the merge has not
asked Redis, so a newer draft is sent as its events. `HealthyInv` is the reason why
nothing is missing while Redis has lost nothing: the stream has every delta but the one
on its way to it (`StreamInv`), and what was read before the stream was read is covered by it
(`StateReads`, `ConnReads`), whatever the worker wrote in between.

`ConversationProofs`, for every set of tabs and every bound: `ConvTypes`,
`SingleActiveRun`, `NoSharedPosition`, `AnswersBehindQuestions`, `ActiveRunIsLast` from
`ConvInv`, and the action properties `TrashIsQuiet` and `HistoryIsKept`. `LockInv`
says that a request past its check holds the conversation and finds no run active;
`FinInv` that an open final transaction belongs to a run that is still `started` and
that the position it read is still the next. The argument is a circle that only
closes as one invariant: because one run is active at a time, no message but its own
answer is added while it is, so the position is not stale and the answer lands
behind its question, which is the last visible message; because the answer and the
end of the run are one transaction, the next request starts from a conversation
without active runs. Positions turn out to equal the order of insertion
(`RowInv`), since archived messages count in `get_next_message_position`. One lemma
per kind of change of the rows (`StatusStep`, `NewTurn`, `AskedAgain`, `RunAnswers`)
carries the work. `RunsFollowTheLifecycle` is the refinement of `RunLifecycle` by every run of
the conversation, step by step: a run has an answer exactly if it has succeeded
(`AnswerInv`), so a final transaction maps to `Succeed`, `Fail` or `Cancel` and every other step to a step of the
status or to a stutter (`StepsFollow`).

`ChatClientProofs`, for every set of conversations and every bound: `DraftStaysTrue`, that
is `DraftTrue`, from `ChatInv`. Everything a tab or a request names is typed by the runs
there are and not by the bound (`Stores(n)`, `TasksAt(n)`), so an accepted message or
a recovery names a run that exists. `DraftOK` says that while the stream and the active run
are the same, the stream stands exactly where the draft ends (`InStep`): the next event of
the stream is then the next of the draft. Most reducers leave run, seq and
draft alone (`Quiet`), also when they are composed in one handler; those that make
another run the active one start the stream with it (`StartedIs`, `RestoredIs`), and the
one exception, an ended run that `useRunRecovery` restores while its stream still reads,
is what `lag` records.

`UploadsProofs`, for all conversations, files and limits: `DraftsAndQuota`, that is
`UploadsSound`, and the action property `SentFilesStay`, from `UploadsInv`. The quota
is exact because each of the ways an upload ends takes it from the active ones in the
transaction that subtracts it (`QuotaChange`, `QuotaCancel`), which needs `StartInv`: an
upload that the client still waits to create does not exist yet. Drafts need `TraceInv` (a file
that was never added has left no trace), `CallsScoped` (a request is about files of the
conversation it was made in) and `DraftKept` together: each handler commits the list of
the scope its closure was made in, so it must be shown that the list on the screen is that
scope's. `SendInv` ties a preview that was handed to the thread to the submission under
way. Deletion spares bound assets since `AttemptsInv` holds and the guards are in the same
transaction.

`ScreenProofs`: the parts share no state, so each has its own inductive invariant, and
`OptionsStaySound`, `ThreadStaysSound`, `AnswerStaysSound`, `LibraryStaysSound`,
`StepsStaySound` put them together.

- Options (`OptionsInv`): the two copies of the chosen options agree wherever the code reads
  one for the other (`CopiesAgree`). Menus (`MenusInv`): the depth counter is that of
  files over the page.
- The thread (`ScrollInv`): the position is within the thread (`Fits`); only a held question is
  lifted and a pause follows nothing (`ModesIn`); the way back is offered once no event is
  to come (`ReturnIn`); who follows is at the end, except for a scroll of the reader that
  was not reported yet (`FollowIn`); reserved space ends above the lower edge (`BlankIn`). The
  browser clamps the position and reports later, so each helper of `useStickToBottom` has
  a lemma about what it gives from *any* state within the bounds (`SetTopGives`,
  `HoldGives`, `LiftGives`, ...), and the steps compose them. The two action properties
  need what the remembered positions mean (`ReadIn`). A reader who is away stands at or above
  `prev`, and above it while an event is to come (`AwayIn`): otherwise the event of a
  clamp, which only ever moves up, would be taken for a way back to the end. Until the
  layout changes, the page last put a held question where the anchor wants it, and only
  the reader moves it from there (`HoldIn`); so an event on a held question that is not
  the reader's finds `top = lastSet` and leaves the hold alone. `HoldIn` holds since
  the anchor's measures, not those of the newest question, decide where it wants to be.
  Quotes (`QuotesInv`): a quote in a
  composer or on its way names an answer as it stands, its stored copy goes with it, and
  the handle that lit a paragraph is the one that puts it back.
- Links (`ShareInv`): whoever is between the check and the insert of `create_share` has
  the lock (`LockHeld`), a client was told of a revocation that took place (`ToldRevoked`),
  and a conversation has one link that is active (`OneOfEach`).
- Favorites (`FavoritesInv`): as long as no two toggles crossed, the row on the screen is what
  the one request under way asked for, or will be put back to (`CallsAhead`).
- Overlays (`OverlayInv`): a toast has its whole time (`ToastWhole`), the toast on the screen has the
  last id that was given, so that the next one starts its countdown (`SeqOfToast`), and the focus
  is among the controls there are (`FocusWithin`).
- Code (`CodeInv`): what is shown is highlighted, its highlighting is under way, or its
  language has no parser that could be loaded (`HighlightDue`). Parts of an answer (`PartsInv`): when the answer is handed from the
  stream to the thread both show the same (`HandoffSame`), a stored choice is of
  reasoning that is over and is taken once (`StoredIsOver`, `TakenIsStored`).

`PartsProofs`, on the administration: `CatalogAndConsole` and `CatalogAndConsoleSteps`, that is `AdminSound` and
`AdminSteps`, for any number of administrators, rows and operations. `CatalogInv`: a
route names rows that exist, nothing is archived in the future, a run's
upstream is its route's; keys are unique since a commit that breaks that is refused. The rule
of the catalog (an active route has active parents and fits its upstream; a route
archived by itself is not taken along) is kept only as long as no two transactions
were ever open together, and to be inductive it has to be said of the tables *and* of
what the open transaction will make of them (`AloneInv`: `RulesNow`, `RulesAfter`,
`SoloSpared`). One lemma per operation of the service (`PlanModelGood`, ...,
`PlanRestoreRouteGood`) shows that what it plans is such an edit; `BecomesKeeps` and
`CommitKeeps` that the commit does what was planned. `AdminInv` is about the console: one
request at a time, and the spinner that shows it (`BusyInv`), what an answer can be
(`AnswerInv`), a dialog stands before everything that starts a request (`DialogInv`), and
what the console shows, or is about to show, is what the service has, unless `others` or
`lost` (`SeenInv`). Strays are typed and nothing more: whatever they ask for and whenever the
service comes to them, they leave the catalog in order and set `others` (`StrayStep`).
So `SwitchedOnServing` is proved of requests made from an old catalog and of requests nobody
waits for, and not only of the request on the screen.

`PartsProofs`, on the requests: `RequestsStaySound`, that is `RequestsSound`, for any number of
parts, workers, attempts, texts, rows and pages.

- A file in parts (`PutInv`): a part below the cursor is complete or one worker has it
  (`PutOnce`, `PutLeft`), unless the upload has failed or was aborted. When the last
  worker is done every part is complete once, and putting them in ascending order gives
  exactly `1..Parts` (`Ascending`), whatever order they were finished in.
- A card (`CardInv`): an entry of the cache that is looked up has a link younger than its life, since
  it is kept for less (`CacheGood`), a spinner has its request (`LoadingGood`), and an error
  does not stand over a text that is there as long as no two reads overlapped (`TextGood`).
- The search (`SearchInv`): of the requests under way only one can still be answered, and it
  asks for the text in the input (`SearchLiveGood`); pages hold a conversation once, which a
  further page keeps since `RowsLeft` drops what is there (`RowsWithout`); the row that spins
  is the one that opens (`SearchQuiet`).
- A reveal (`RevealInv`): it runs for the hit that is meant, on the page that shows it, and
  only it paints (`RevealOwned`).

`AccountProofs`: `TabsStayTrue`, that is `TabsTrue`, for every set of tabs and every bound, from
`AccountInv`: types, `WaitInv`, `TokenInv` and `Screens`. Two arguments, which meet
in how a request ends.

- Screens (`ScreenOK`): a spinner is on exactly while one request of its own is shown as under way
  (`SpinPart`). It holds only since a screen makes no other requests than its own
  (`RoutePart`), nothing is started before the start-up has answered (`BootPart`), and a
  screen that is not mounted has no spinner on (`QuietPart`): the card unmounts when the session
  ends, and a request that outlives it settles without `setState`. `SettledShows` and
  `RequestShows` say what one settled or one new request does to what is shown; each
  continuation is then a case of them.
- Tokens: no tab presents a token that it has rotated itself. A pair that was granted is known to nobody
  until it is saved (`Unspent`), and no tab has rotated the pair in the storage unless its own
  refresh was granted or lost and is about to end, which stores another pair or none
  (`TokenInv`). The `.finally` in `refreshSession` drops the promise when it ends,
  and only a request that waits keeps a refresh going (`WaitInv`). The lemmas follow a
  pair: every endpoint issues at most one (`HandleTypes`), nobody has it yet (`FreshPair`),
  what saving it does to the rest (`SavedToken`), and that a step which saves, grants and
  rotates none keeps `TokenInv` (`TurnsToken`).

The assumptions are the ASSUMEs of the modules: bounds are natural numbers, capacity
and limits are positive, `Gap >= MaxPending` (true of the default settings, 4096 and
4096; the settings do not enforce it), "nobody" is not a worker or a tab, "no room" is not a conversation, a screen has at least
three lines (`Port`; question and foot must fit) and being near the end is a positive
distance (`Near`; 80 pixels in the code), the bound on
the controls of an overlay is at least two (`MaxFocus`), and those on the length of a source
(`MaxLen`) and on the runs of a chat (`ChatClient`'s `MaxRuns`; one exists when the tab
opens) at least one.

`PoolTypes`, `LeaseWhileActive`, `CancelIsFinal` and `HistoryIsKept` are proved and not run:
the theorem says more than an instance would.

Only model-checked: liveness and the fairness of the refinement (outside the prover's
reach), `RowsSound` and `WorkbenchSound`.

## 7. Not modelled

Text, formats, layout, timing metrics and ownership checks; provider retries before the
first event (they change no state); expiry of the Redis stream key (it takes a
day without any worker, after which `latest_seq` answers 0 and recovery adds no gap); several conversations on the server (they
share nothing but the worker pool). Components listed as `not_modelled` in
`PROJECT.json`, with the reasons there: jobs for titles, e-mail and avatars, which the
modelled parts meet only as something that happens later or never; the search query and
the history shown to the model, which are conversions of text; providers, storage and
Celery, which are external; of the design workbench, the pages around the chat and the copies of
the client's components, whose logic is that of the client.

The client modules are bounded by few user actions. What several failures in a row do
is not explored, and `odd`, `overtaken`, `crossed` and `foreign` exclude from some
properties the orders in which the code is known to show something old until the next
refetch; section 5 says which.

## 8. Plan

1. Proofs: `RowsSound`, where the history variable `overtaken` has to be tied to
   the requests under way; `WorkbenchSound`, where what a handler keeps of its render
   (`page`) has to be tied to the state it is applied to.
2. Models: an abstract `LeasedJob` with title jobs and e-mail outbox as
   implementations; the avatar service; stream expiry in `RunExecution`.
