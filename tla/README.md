# Verification of the AI free chatbot bridge

The program turns a prompt posted to an HTTP API into a chat in a real web page
of a chat site, and stores what the site answers.  One process holds the FastAPI
application and one thread per provider; each thread drives one browser page.
This directory models that process in TLA+, checks the models with TLC on small
instances and proves the main safety properties with TLAPS for all instances.

Paths below are relative to `src/` of the repository unless they start with
`docs/`.

## 1. The system

### Components

| component | state it keeps | operations | code |
|---|---|---|---|
| task API | `tasks` rows; `_rr_cursor`; the locals of the handlers that are running | create (list sessions, look them up in the pool, choose, insert, refuse), poll (with an extraction), latest, purge at start-up | `api/routers/tasks.py`, `models/task.py` |
| provider workers | one thread per provider: its ident, its place in the loop, its task | start, boot (row, page), poll a command, claim, find page, chat, save, mark, count rounds, new chat, stop, clean up | `browser/worker.py` |
| session pool | `_entries`: provider → browser page with the ident of the thread that made it | create or reuse, refuse to a foreign thread, rebuild a closed page, close | `browser/session_pool.py` |
| chat adapter | locals of one run: the box, the last text and when it was read | fill, click, keyboard fallbacks, wait for a reply that has stood still | `browser/providers/` |
| command channel | `COMMAND_QUEUE`, `RESULT_QUEUE` | put, drain by every worker, put back, age limit, handle, wait for a result | `browser/worker.py` 139–206 |
| provider administration | `provider_configs`, `sessions` | create, update (start or stop a worker), delete, list, rediscover, verify, mark login, clear cache | `api/routers/providers.py`, `sessions.py`, `browser/session_manager.py` |
| scheduler | WRR cursor and weights | pick a session, recover timed-out tasks | `browser/scheduler.py` |
| storage | SQLite tables behind repositories, one transaction per call | everything above | `storage/` |
| response parsing | none | find the JSON object in a reply, standardise it | `parser/` |
| browser controller | a driver, a browser, a context; on disk the profile with its lock file | start (two attempts on the profile, then without it), open a page, close | `browser/browser_controller.py` |
| task client | one task and its deadline | post, poll, give up | `examples/client_common.py`, `examples/example_test_extract_api.py` |
| mock chat site | the page's script: overlays, messages, timers | accept, verify, log in, send, answer after 250 ms | `mock_openchat/site.py` |
| mock server manager | a state file; the process table | status, start, stop under a lock | `api/routers/mock_openai.py` |
| others | – | logging, metrics, static pages, extraction test endpoint | `logging_mp.py`, `analyzer/statistics.py`, `api/static/` |

### How they interact

* **Through the tables.** A request and a worker never meet: the request writes
  an owner (a thread ident) into a row, and a worker claims rows that carry its
  own ident.  Every repository call is a transaction of its own
  (`session_scope`), so what two calls together mean is open to interleaving.
* **Through the pool dictionary.** Handlers read `_entries` while workers add,
  replace and remove entries.  A page is bound to the thread that made it; other
  threads get a `RuntimeError`.
* **Through the two queues.** Handlers send `verify_session`, `mark_login_ok` and
  `stop_thread`; each worker takes *all* commands out, keeps its own and puts the
  others back.  A handler that waits for a result blocks the event loop.  One wait has
  no limit: the `get()` of a worker that saw a command which another has taken since.
* **Through the browser.** The site answers when it likes, the user may close a
  page, and every wait on the browser has a time limit.

### What makes it hard

* `threading.get_ident()` is used as the identity of a worker, and the operating
  system gives idents of dead threads to new ones: a row may name a dead owner
  and later, by accident, the worker of another provider.
* `create_task` reads the table, the pool and the cursor in separate steps, and
  the row it finally inserts describes the past.
* A worker that fails between two transactions leaves rows behind in an
  intermediate state; nothing ever repairs them, except the purge at start-up.
* The round counter is in the database, the page it counts for is not.
* A drain of the shared queue runs in several threads at once.
* A poll is four reads of a table and a dictionary that others write meanwhile.
* `mark_login_ok` waits, inside a worker's loop, for a task that a worker's loop
  must process; that worker may be waiting too, or be the same one.
* A browser that a failed call leaves behind keeps its profile's lock file, and a
  dead one may leave the file as well: the same file stands for both.
* Pids, like thread idents, are reused, and the mock's state file outlives them.
* The chat page has its own memory: an earlier prompt in the box, an earlier
  reply as the last element.

### What makes each component correct

* task API + workers: a task is worked on by one worker, the owner; its prompt is
  handed out once; its status tells the truth about its replies; it gets a final
  status; requests are spread over the providers.
* session pool: an open page always belongs to a live worker, and only its owner
  uses it.
* command channel: no command is lost or executed twice or by the wrong thread;
  results belong to commands that ran; nobody is blocked for ever (which holds for a
  worker that is alone only).
* chat adapter: a run ends; it submits its own prompt and only a few times; the
  reply is the reply to the prompt.
* provider administration: an enabled provider has a worker, a disabled or
  deleted one has none.
* task client: what it is told is whole, final and never runs backwards, and it
  comes to an end.
* selector help: no circle of waiting workers lasts, and the answer that is saved
  is an answer.
* browser controller and pool: the login's profile is used by one browser, a start
  ends, and every browser is closed by somebody.
* mock site: a prompt is asked once and answered once; mock manager: it stops what
  it has started, and nothing else.
* scheduler: shares follow the weights; a task that timed out is retried a
  bounded number of times.

`PROJECT.json` lists the hazards behind these, each with its line.

## 2. The modules

| module | models | EXTENDS / uses |
|---|---|---|
| `TaskPool` | what a client may rely on: the life of a row of `tasks`, which sessions and pool entries there are | – |
| `TaskDispatch` | requests, workers, pool and tables together | refines `TaskPool` |
| `TaskDispatchProofs` | the theorems about `TaskDispatch` | `MCTaskDispatch`, TLAPS |
| `MCTaskDispatch` | instances for TLC, `Undisturbed`, `EvenSpread` | `TaskDispatch` |
| `ClientPoll` | the polling endpoints and their client | `TaskPool` for the rows, the sessions and the pool |
| `CommandBox` | what the users of the command channel may rely on | – |
| `CommandQueue` | the command channel | refines `CommandBox` |
| `MCCommandQueue` | instances: a worker alone on the queue, or several | `CommandQueue` |
| `CommandQueueProofs` | the theorems about `CommandQueue` | `MCCommandQueue`, TLAPS |
| `SelectorHelp` | `mark_login_ok` and its internal task | – |
| `ChatPage` | the adapter and any chat site | – |
| `MockSite` | the adapter and the mock site | refines `ChatPage` |
| `Browsers` | one provider's worker, pool entry, controller and profile over many lives | – |
| `MockProcess` | the manager of the mock server and the host under it | – |
| `WorkerLifecycle` | create, update, discover, delete, clear and verify against the worker threads | – |
| `MCWorkerLifecycle` | instances: any administrators, or a patient one | `WorkerLifecycle` |
| `WorkerLifecycleProofs` | the theorems about it | `MCWorkerLifecycle`, TLAPS |
| `ClientPollProofs`, `SelectorHelpProofs`, `BrowsersProofs`, `MockProcessProofs` | the theorems about the module of that name | that module, TLAPS |
| `ChatProofs` | the theorems about the adapter, with the mock and with any site | `MockSite`, `ChatPage`, TLAPS |

How they fit: `TaskDispatch` is the hub.  Its tables and the keys of its pool, seen from outside, are `TaskPool`,
over which `ClientPoll` puts the clients; its `VerifySession` and `StopCommand` are the
ends of `CommandQueue`; its `Chat` is a run of `ChatPage`, and `MockSite` is one site that
such a run may meet; its `BootPage` and `PopEntry` are taken apart in `Browsers`; its
`StartWorker` is what `WorkerLifecycle` decides about.

Every module but the abstract `TaskPool` and `CommandBox` has a `TypeOK`.  It is no property of the runs,
where it would say little, but a theorem of each specification (`Typing`,
`TypeCorrect`, `AnySiteTypeCorrect`), and in `dispatch_crashes` it is a conjunct of
`IInv`.
Operators whose comment begins with "Bug variant for the checks" are not part of
a specification.  Each is a definition of the model with one plausible mistake
in it, and substituting it for the original must make TLC reject a property: this
is how we know that every property can fail.

### TaskDispatch

One action is one transaction, one access to the pool dictionary or one wait on
the browser; everything in between is local to a thread.

| state | in the code |
|---|---|
| `status`, `owner`, `prov`, `stamp` | columns of `tasks` (`stamp` is `created_at` as a rank) |
| `replies` | the number of `raw_responses` rows of a task |
| `sessions`, `rounds`, `cut` | which `sessions` rows exist, their `chat_rounds`, and the tasks whose `session_id` the ORM set to NULL when their row was deleted |
| `entry` | `ProviderSessionPool._entries`: owner ident and whether the page is open |
| `rpc`, `listed`, `at`, `ready`, `target` | a call of `create_task`: where it is and its locals |
| `rr` | `_rr_cursor` |
| `wpc`, `wid`, `wtask` | a worker thread: where it is, its ident, its task |
| `clock`, `sent`, `left` | history: rows inserted, prompts handed to the adapter; bounds |

`ListSessions → ScanEntry* → PickTarget → InsertTask → RejectTask` is
`create_task`; its loop reads the pool once per session row, so the pool may
change between two entries.  `StartWorker → UpsertSession → BootPage ×2` is
`start_worker_thread` up to its loop, `BootFails` the exceptions on the way.
`ClaimTask → FindPage → Chat → SaveReply → MarkCompleted → CountRound →
CheckRounds → ResetRounds` is a successful `run_once`; `MarkFailed` the other
branch; `WorkerFault` an exception of a transaction, which leaves the loop for
`PopEntry → ThreadExit`, the finally block.  `VerifySession` and `StopCommand`
are the commands' effects; `BlockInGet` and `Unblock` are what the worker's look into the
command queue may do to it when another worker looks at the same time (`CommandQueue` has
the steps of that look).  `DropSession`, `DiscoverSession`, `ClosePage` and
`Restart` are the rest of the server and the world; a restart keeps the
`sessions` table and empties `tasks`.

Abstractions.  A provider has exactly the one session `s-<p>-1` that the code
gives it, so rows and entries are indexed by the provider.  Times are ranks.  The
prompt and reply texts are not in this module.  The internal task of
`mark_login_ok` is in `SelectorHelp`, the polls in `ClientPoll`.  `InsertTask` takes
the stamp at the insert, the code a moment before its transaction
(`repositories.py` 155), so two rows inserted together may have their stamps the other way
round; no property is about which is older.  `DropSession` sets `session_id` to
NULL; deleting the provider as well would do the same to `tasks.provider`, but providers
are a constant here (`WorkerLifecycle` has their rows).

### TaskPool

The abstract specification: a row appears, is dispatched, gets a final status and
is never changed afterwards, except by a purge; session rows and pool entries come and
go one at a time, and a restart empties the pool with the table.  It has the variables
`status`, `owner`, `replies`, `sess` and `entries` and none of the dispatch's machinery.
`ImplementsTaskPool` states that the dispatch is a behaviour of it, with `sessions`
for `sess` and the keys of `entry` (`Entered`) for `entries`.  `ClientPoll` is built
on it: everything that happens to these five between a client's reads is an action of
`TaskPool`, so what a client may conclude follows from these promises alone,
whichever way the dispatch keeps them.

### CommandQueue

`queue` and `results` are the two queues.  `Put`, `TakeResult` and `GiveUp` are
the handlers (`put_command`, `get_command_result`), `BeginDrain`, `Check`, `Get`,
`PutBack`, `EndDrain` are the steps of `get_command_for_thread` between two
accesses to the queue, `Handle` is `_handle_command`.  `Check` and `Get` are
separate because the code tests `empty()` and then calls the blocking `get()`.
`Age` is the passing of 30 s.  Handlers that wait are coroutines that block the
event loop, so no second command is sent meanwhile: the guard `waiting = None`.

Two workers that share the queue can block each other in `get()`; a worker that is
alone cannot.  `MCCommandQueue` fixes at the beginning which workers are alive
(`alive`) and states the two halves in one run: what holds for any number of them,
and what holds for one (`Alone => ...`).  The history variable `behind` notes which
commands were sent while another was pending: only these may be overtaken by a later one.

### CommandBox

The abstract specification of the channel, without queues and drains: a sent command
lies in the box, is taken by the thread it is addressed to, or thrown away when it is
old, and executed once; results are a set, and the handler that waits reads its own.

| state of `CommandBox` | in `CommandQueue` |
|---|---|
| `place` | `Life`: "box" while it is in `COMMAND_QUEUE` or in some worker's `temp`, "hand" in `found`, "done" or "dropped" by history |
| `results` | `Unread`: in `RESULT_QUEUE` or kept aside by the waiter |
| `stopped` | `Stopped`: the workers that have left their loop |

The rest has the same name.  The other modules rest on this view: `stops` in
`WorkerLifecycle` and `queued` in `SelectorHelp` are sets of commands, not queues.
They are not instances of `CommandBox` (stop commands expire there only
while their worker is busy, and no age is kept), but the order they leave out is one
that the box leaves out too.

### ChatPage

Runs of the adapter in one page.  `Fill`, `Click`, `AfterClick`, `PressEnter`,
`AfterEnter` are `send_message` with its fallbacks, `Look`, `Second` and
`Deadline` are `wait_for_response`, `NewChat` is what `run_once` does at the limit
of rounds.  The site is free: a press may be ignored, the box may be cleared late,
a reply may begin late and grows in `Parts` pieces; it may also greet, or be reloaded
by its user (`Hello`, `Reload`).  A text is a pair "reply of which prompt, how much of
it".
### ClientPoll

| state | in the code |
|---|---|
| `status`, `owner`, `replies` | the rows, moved by the actions of `TaskPool` (`Pool == INSTANCE TaskPool`) only |
| `json` | whether the reply's text holds a JSON object |
| `sess`, `entries` | providers with a `sessions` row, keys of `_entries`, moved by `TaskPool` too |
| `at`, `api`, `row`, `raw`, `listed` | a request: where it is, its endpoint, its locals |
| `told`, `late` | the client's last answer; that its `timeout_seconds` are over |

`ReadRow → ReadReply → ReadSessions → ReadEntry*` is `get_task` with
`_build_task_payload` and `_all_sessions_unhealthy_or_unavailable`;
`get_task_result` ends after the second.  `Post`, `Posted`, `Ask`, `Decide` are the loop
of `examples/example_test_extract_api.py`, `Raise` its `raise_for_status`.  A restart
breaks the requests in progress off, empties the pool and purges the rows.

### SelectorHelp

`TakeCommand → GetPage → Hello → Ask → Poll` is the handler of `mark_login_ok` that gets
an answer; `Elapsed`, `NobodyToAsk` and `Raises` are its other ends, and all of them save
something and put a result, as the code does.  `Claim → Process` is the helper's
`run_once`: an idle worker looks at the commands first and then at the tasks.  `api` is
the request the event loop is blocked on; `GiveUp` leaves its command in the queue.
`BlockInGet` is the look for a command that another worker has taken.
Threads that are started again and ordinary tasks are left out.  A circle is two calls
whose questions lie with each other's target; the two may be the same call.

### MockSite

The page's script (`mock_openchat/site.py` 299–438): overlays, box, `setTimeout`, the
greeting that is restored with local storage.  The adapter's steps are taken from
`ChatPage` (`Chat!Fill`, `Chat!Click` and so on) and combined with what the page does
on that input; `Chat` is `INSTANCE ChatPage WITH` the page's state as the site's, so
`ImplementsChatPage` is a refinement: the free site of `ChatPage` allows the mock.
`Elapsed` is the one fact about time that matters: 250 ms are less than the adapter's
half second.

### MockProcess

`ReadRecord → Probe` is `_collect_status`, `Spawn → Write` the rest of
`_start_mock_openai`, `Kill → Wait → Post` of `_stop_mock_openai`; start and stop begin
and end with a status (`Request.last`).  They run under `_STATE_LOCK`, so there is one
request at a time, while the host moves between any two steps: processes listen, end,
stay as zombies until the server's next `Popen`, are started by hand under free pids,
and the server is killed.  `Scan` takes a process for a mock exactly if it is one; the code looks for
the name of the module in the command line (`mock_openai.py` 151), and would take a
shell or an editor whose command line holds that name for one as well.

### Browsers

One provider.  `thread` is the worker of the moment and `at` its place, from the two
page requests of its boot to its finally block; `entry` is what the pool holds;
`browser`, `profile` and `lock` are the host's side.  `Launch → OnProfile | ProfileLocked
| WithoutProfile → LoadPage` is `get_or_create_provider_session` with
`BrowserController.start` and `open_page`; `Reuse` and `Refuse` are its early ways out
and those of `get_page`.  Each exception (`LaunchFails`, `LoadFails`) leaves what had been
started, as the code does.  A browser that ends removes its `SingletonLock`; one that dies
may leave it behind (`Crash`, lock "stale"), and whether the next one takes it over or
refuses to start is open.  `PopEntry → CloseBrowser` is `_close_entry`.

### WorkerLifecycle

| state | in the code |
|---|---|
| `row`, `sessions` | `provider_configs` with its `enable`, and which `sessions` rows exist |
| `thread` | live worker threads by ident: the provider in the thread's name, the place in `worker_thread()` |
| `stops` | the `stop_thread` commands in `COMMAND_QUEUE` |
| `loop` | the coroutine that runs on the event loop of the server |
| `step`, `op`, `prov`, `want`, `was`, `todo` | a request: where it is, what it is, and its locals (`payload.enable`, `row.enable` as it was read, the providers still to verify) |

`ReadRow → WriteRow → DiscoverRows → VerifyNext* → Finish` is `update_provider` or
`create_provider`; `DiscoverRequest` enters at the third.  These are coroutines:
`loop` is held up to the first `await` in `discover_sessions`, and each POST of
`VerifyNext` lets others in.  The POST is served by the same process
(`EnsureWorker`), or gives up after 15 s because the loop was busy.  `Finish`
chooses on the locals (`Disable`, `Enable`, `Keep`).  `Delete → DeleteSessions →
DeleteRow`, `ListSessions → CleanSession` and `ClearSessions` are plain functions,
which run in pool threads: only their transactions are atomic.  `CheckSession` and
`NotifyReady` are the coroutines that open, verify and announce a session; they end in
the same `VerifyNext` as a discover.  `VerifyRequest` is the verification that a page of
the UI asks for.  A worker is reduced to its life:
`BootRow → BootPage → (BeginChat → EndChat)* → ObeyStop → Exit`, with
`WorkerFault` for an exception.  What it does with tasks is `TaskDispatch`, how
its commands travel is `CommandQueue`; here a stop command is taken, or thrown
away after 30 s (`StopExpires`) when its worker has not been idle or somebody is
blocked with it in `get()` (`BlockInGet`).  `Finish` sends the stop and deletes the
session row in one step; the code does the one after the other (`providers.py` 139–145),
and a worker or a request in a pool thread may come between them.

`Next` lets everything overlap; `CalmNext` is the same system under an administrator
who begins a request only when nothing is under way (`Quiet`).  `MCWorkerLifecycle` has
both kinds in one run (`patient`).
## 3. The runs

* `dispatch_races` (`MCTaskDispatch`, `dispatch_races.cfg`): Two providers, two
  tasks and two thread idents with one stop, one failed transaction and one closed
  page: reused idents never make two workers share a task or a page, and no prompt
  is handed out twice. Checks `WorkerOwnsTask`, `PromptAtMostOnce`,
  `ReplyMatchesStatus`, `OpenPageHasLiveOwner`, `ChatOnOwnPage`.
* `dispatch_crashes` (`MCTaskDispatch`, `dispatch_crashes.cfg`): One provider and
  three tasks with a stop, a fault, a closed page and a restart of the server, and
  session rows that come and go: the inductive invariant, types included, holds,
  with it the chat rounds stay near their limit, and the server, as its clients see
  it, implements TaskPool. Checks `IInv`, `ImplementsTaskPool`.
* `dispatch_live` (`MCTaskDispatch`, `dispatch_live.cfg`): Two concurrent requests
  at a server that is up, with one stop and one closed page, and with workers that
  may be left in the untimed get() of the command queue: a task whose worker neither
  ends nor stays in that get() gets a final status, even when its page is closed,
  and as long as nothing is stopped the shared cursor spreads the requests evenly
  however they interleave. Checks `EvenSpread`, `EveryTaskSettles`.
* `client_poll` (`ClientPoll`, `client_poll.cfg`): A client posts and polls through
  either endpoint while the row, the session rows and the pool entries move as
  TaskPool promises, through restarts: what a client is told is whole, final and
  never runs backwards, except for the CRITICAL that get_task makes up, and the
  client ends. Checks `AnswerIsWhole`, `VerdictHolds`, `NeverBackwards`,
  `EveryClientEnds`.
* `commands` (`MCCommandQueue`, `commands.cfg`): Two workers take the shared queue
  apart and put it back, or one works alone, while commands are sent, age and are
  answered: no command is lost, duplicated or executed by the wrong thread, the
  whole implements CommandBox, and a worker that is alone never blocks in get() and
  lets no later command overtake one that was sent while none was pending, and as
  long as nobody is left in get() every command is resolved. Checks
  `CommandConserved`, `OnlyTargetTakes`, `AloneNeverBlocked`, `OvertakenOnlyBehind`,
  `ImplementsCommandBox`, `ResolvesUnlessBlocked`.
* `selector_help` (`SelectorHelp`, `selector_help.cfg`): Two mark_login_ok requests
  among three workers, with a closed page, a stopped thread, an exception or a
  worker that is left in get(): a worker that asks itself gets no answer, of two
  that wait for each other one at least goes without, every handler ends, and a
  question that it has given up is put to the chat all the same unless its worker is
  gone or stays in get(). Checks `SelfHelpFails`, `CircleCostsOne`, `HandlersEnd`,
  `QuestionsAreAsked`.
* `chat_page` (`ChatPage`, `chat_page.cfg`): Three adapter runs on a chat site that
  may ignore presses, clear its box late, greet and stream replies slowly: a prompt
  is submitted only by its own run, and every run ends. Checks `SubmitsOwnPrompt`,
  `EveryRunEnds`.
* `mock_chat` (`MockSite`, `mock_chat.cfg`): Four adapter runs on the repository's
  mock site with reloads and failed browser calls: it is one of the chat sites of
  ChatPage, never gets a prompt twice and, left in peace, answers each run with its
  own reply. Checks `AskedOnce`, `CalmRunsAnswered`, `ImplementsChatPage`.
* `stale_reply` (`ChatPage`, `stale_reply.cfg`, violation expected): A message that
  is already on the page, a greeting or the reply of an earlier prompt, is returned
  as the reply of the next. Checks `AnswersOwnPrompt`.
* `admin` (`MCWorkerLifecycle`, `admin.cfg`): Two requests of any kind overlap while
  workers start, chat, fail and stop, or an administrator waits for one change
  before the next: no provider gets a second worker, and the patient administrator
  finds threads and session rows in step with the enable flags and each stop with
  the worker it was meant for; in the end every change is followed, unless a worker
  is left in get() behind a command that another has taken. Checks `OneWorker`,
  `PatientSettles`, `PatientStopsHit`, `PatientFollowed`.
* `browsers` (`Browsers`, `browsers.cfg`): One provider's worker is started and
  stopped again and again while windows are closed, browsers die and calls raise:
  every browser that is left behind is accounted for, an undisturbed worker keeps
  its profile, a new worker is never refused its page and a start always ends.
  Checks `OrphansAccounted`, `CalmKeepsProfile`, `NeverRefused`, `StartsEnd`.
* `mock_process` (`MockProcess`, `mock_process.cfg`): Three requests to the manager
  of the mock server while processes end, are started by hand or take over a free
  pid and the API server is killed: no mock it has started is forgotten, no process
  is signalled whose pid was never a mock's, and a stop that says so has stopped.
  Checks `NoneForgotten`, `OnlyMockPidsSignalled`, `StopIsTrue`, `EveryRequestEnds`.

### Bounds, and why they are enough

* `TaskDispatch`: two idents for two providers is the smallest instance in which
  a thread that ends hands its ident to the worker of *another* provider while a
  row with that ident is waiting.  Two tasks let an old and a new owner's rows
  meet; three let the order of claims matter.  `MaxStops`, `MaxFaults`,
  `MaxCloses` and `MaxRestarts` bound what the environment does; one of each
  suffices for every sequence "something goes wrong, then the system goes on",
  and the theorems hold for any number.  `MaxRounds = 1` makes the reset happen
  after each task.  `dispatch_live` starts from a server that is up (`InitReady`),
  since `EvenSpread` is about requests that see the same ready sessions.  Its stop ends
  the owner of a task that waits, or drops the session of one; its two tasks may both
  wait for one worker, and its two workers can leave each other in `get()`.
* `CommandQueue`: two workers and two commands (`MaxShared`) are the smallest instance
  in which each drain holds a command of the other's in its `temp` while its own is in
  the other's; for a worker that is alone, three commands: one in hand, one put back,
  one sent meanwhile.
* `ChatPage`: three runs are enough for a reply to be late by two; two parts are
  enough for a text that is still growing.
* `ClientPoll`: clients do not meet, so one is every one; two providers let a scan of the
  sessions find one entry gone and the next one there.  Two changes (`MaxChanges`) are
  one that is read and one that makes it stale.
* `SelectorHelp`: two calls are a circle of two or, with one target, a call behind
  another; three workers add a helper outside the circle.  Two locked providers make
  the preference for a locked helper matter.  One fault: a page that closes, a thread
  that stops or an exception, at any step.
* `MockSite`: a prompt that is lost by a reload and one that is answered late need three
  runs; four runs and four troubles leave one of each for every run.
* `Browsers`: four browsers are the one in use and three left behind; two idents suffice,
  since there is one worker at a time and a page can only carry the ident of the thread
  before.  Two failed calls use both attempts up; two closes are one of a page and one of
  a browser; one task without a url.  Start and stop are not bounded.
* `MockProcess`: two pids are a mock and a process that takes a pid over; a third request
  stops what the first has started after the second was broken off by a crash.
* `WorkerLifecycle`: the races are between two requests, so two calls suffice, and
  the initial states are all combinations of rows, threads and session rows that a
  start of the server allows, so that two calls are two arbitrary consecutive
  changes.  Two idents are one for each provider, or two for one, so a second worker of a
  provider would be possible.  One fault and one late command (`MaxFaults`, `MaxLate`).
`CHECK_DEADLOCK FALSE` is in the configurations because a run of the model ends
when all of its tasks (commands, prompts, ...) are used up and its budgets spent; the
server then simply waits.  Real blocking is stated as a property
(`AloneNeverBlocked`, `HandlersEnd`, `StartsEnd`, `EveryRequestEnds`).  `SYMMETRY` is used only in runs without temporal
formulas of liveness.

### Fairness

Every thread that can take a step of its own eventually takes one: weak fairness
of `HandleRequest`, `WorkerStep`, `Drain` and of the adapter's steps.  The code
justifies it: workers poll in a loop with half a second of sleep
(`browser/worker.py` 92), waits on the browser and on a queue's result have a
timeout, and no lock is held over a wait.

One wait has no timeout, the `get()` on the command queue (`worker.py` 168), in which a
worker may be left when another takes the last command.  Every `run_once` goes through it,
so every module with several live workers has it as a place of its own: a worker that
looks for a command may go there (`BlockInGet`) whenever another one may be looking too,
and comes out when somebody sends a command (`Unblock`).  Neither is fair.  Where a
command comes from is left open, so the models allow more of this than the code: a
property that holds in spite of it does not rest on how often commands are sent.  What
may happen to a worker that stays there is therefore named in each liveness property: its
tasks are `Abandoned` (`EveryTaskSettles`), its questions are not asked
(`QuestionsAreAsked`), and a stop in somebody's hands is not obeyed (`PatientFollowed`).
`CommandQueue` has the steps themselves (`Check`, `Get`); there `Get` is not enabled
while the queue is empty, so its fairness assumes nothing of a worker that is blocked.

Nothing is assumed of the user, the site, commands, faults or restarts.  `Deadline` alone
is fair in `ChatPage`, not `Look`: a run must end even if nothing is ever read.

* `ClientPoll`: `WF(Request)`, since a handler has no wait of its own; the client asks
  again after its pause and time passes.  Nothing is assumed of the workers, the
  sessions or the server.
* `SelectorHelp`: a handler goes on (`Elapsed` included: its loop looks at the clock
  each second), a chat ends because the adapter has a deadline, the endpoint waits a
  minute at most, and a worker that stays in its loop claims its questions.  That a
  command is taken is not assumed: it may lie in the hands of a worker that is blocked.
  A worker looks for commands before it claims, so a stream of commands without end could
  starve its questions; there are `MaxCalls` of them.  The order of these minutes is a
  guard of `Elapsed`: the endpoint began to wait before the handler did, so its minute is
  over first.
* `WorkerLifecycle`, calm: the requests and the workers' own steps are fair; that a chat
  begins is not, and a verification need not start anything.  A worker does not find its
  stop at every look, because others that drain the queue may have it in their
  hands and put it back, so one that looks again and again is given strong fairness,
  and only for looks while nobody is blocked (`~SomeBlocked`).  Others could hide a stop from
  every look until it is 30 s old, but that no command waits that long is the premise
  of calm.
* `Browsers`: a call to Playwright returns or raises (its own timeouts), so `Starting` and
  `Closing` are fair; when the loop is left or entered is not.
* `MockProcess`: the thread of the request (`Manage`).  The eight seconds of `Wait` pass
  whatever the process does; that it ends is not assumed.

`MockSite` has no fairness: its properties are safety.

### What the runs found

Properties that the repository states and the code does not keep are runs with
the expectation "violation"; `PROJECT.json` quotes the statement of each.

* `stale_reply`, `AnswersOwnPrompt` at `src/src/browser/providers/base.py:106`:
  run() passes previous_response=None, so the last reply element on the page is
  accepted even if it answers no prompt or an earlier one (the greeting of the site,
  a reply that came after its run timed out, a prompt whose submission failed): it
  is stored as the reply of this task. src/browser/providers/base.py:88 says "2.
  发送消息（拼接 prompt+document_text）。 3. 等待回复。" and base.py:294 "取所有匹配元素的最后一个（最新回复）" (the
  last match is the newest reply).

### What else the models show

These follow from the same models (state the property and TLC gives the behaviour),
and are not kept as runs of their own.

* `create_task` (`api/routers/tasks.py` 163–189) copies the thread id out of the
  pool and inserts the row later: the owner may have ended by then, although
  `docs/task-dispatch-redesign.md` 48 wants a valid thread id.
* A thread ident is given out again: a new worker of `q` claims a row that was
  assigned to `p` (`repositories.py` 182), against
  `docs/task-dispatch-thread-owner.md` 26.  `ChatOnOwnPage` shows that the damage ends
  there: the task fails because the page of `p` is not `q`'s to use.
* `create_task` counts an entry whose page is closed as a healthy session (line 163).
* `update_provider` decides after its `await` on the row it read before it
  (`providers.py` 136–149), so an update that enables a provider may start its worker
  after another one has disabled it.
* The session row of a deleted provider comes back when its worker is still booting
  or a discover works on an older list, against `docs/session-lifecycle.md` 35; if it
  comes between the two deletes, the provider's row cannot be deleted.
* A stop command for a worker that has failed meanwhile ends the worker that was given
  its ident.  Without a fault, and while changes wait for each other, this does not happen
  (`PatientStopsHit`).
* With two workers `get_command_for_thread` is not what its docstring says
  ("线程安全", `worker.py` 162): both see the queue non-empty, one takes the last
  command, the other blocks in `get()` until somebody sends another, and may hold its
  own command, which then is neither executed nor discarded.  Section "Fairness" says
  how every liveness property accounts for it.
* A stop that waits for longer than 30 s is dropped, and its worker goes on
  (`StopExpires`, `worker.py` 172): `ResolvesUnlessBlocked` counts a dropped command as
  resolved, and `PatientFollowed` leaves such delays out.
* A result that comes after its waiter gave up is never taken out of `RESULT_QUEUE`;
  `CommandBox` allows it, and promises only that nobody takes it for another's.
* A task whose owner has stopped, or is blocked in `get()`, is claimed by nobody and stays
  PENDING until a restart purges it, against `docs/task-dispatch-thread-owner.md` 22, which lets the
  client poll until the task has completed or failed.  The client of the examples is
  saved by its own deadline (`EveryClientEnds`).
* Enabling a provider whose worker has a stop command waiting starts nothing
  (`providers.py` 147 finds the thread), and the command ends that worker:
  the provider is enabled and has none, against the comment at line 135.
* A client that has seen CRITICAL may see DISPATCHED and COMPLETED in a later poll:
  `get_task` makes the status up while no session has an entry (`tasks.py` 230).
  `VerdictHolds` shows that this is the only verdict that may be wrong.
* `get_task` catches the 404 it raises for an unknown task and answers 500 (`tasks.py`
  222, 240), against `docs/task-dispatch-redesign.md` 44; `get_task_result` answers 404.
* A task is COMPLETED with any text, JSON or not (`worker.py` 713): `json` is free in
  `ClientPoll`, while `docs/task-state-machine.md` 16 has COMPLETED mean valid JSON.
* A worker that has nobody else to ask asks itself, as the comment at `worker.py` 239
  has it, and cannot answer: its loop is inside the handler (`SelfHelpFails`).
* `mark_login_ok` reports "success" in every case, and after its 500 still saves a guess
  over the selectors that an administrator may have entered meanwhile.
* A task that finds its page closed never reopens it: `process` has no url, `goto(None)`
  raises, the task fails and the browser that was started stays behind
  (`OrphansAccounted` counts it), against `docs/requirement.md` 12 and
  `docs/implementation-plan.md` 168.  A verification does reopen it.
* `rebuild_session` reads `row.enabled` (`sessions.py` 383), a column `SessionORM` no
  longer has, and answers 500 before it deletes anything; `tests/test_sessions_api.py` 170
  expects 200.
* `open_session` and `verify_session` post to their own server with the client's default
  limit of 5 s, while that endpoint blocks the event loop for up to 10 s: the worker's
  thread is started all the same, and the caller sees an error.
* Chrome's `SingletonLock` is a dangling link on Linux, so `exists()` is false and the
  lock is never removed; the worker then goes on without its profile and login
  (`WithoutProfile`).  Where the file is removed, two browsers may share a profile.
* `start` of a mock that is running raises a `TypeError` (the message is passed twice)
  and answers 500; `stop` with another port stops the recorded mock; a state file whose
  pid has been given away is believed, and that process signalled (`OnlyMockPidsSignalled`
  says how far this goes).

## 4. The proofs

Every safety property that holds in a run, invariant or action property, is also a
theorem, and so are the three refinements.  Three invariants are proved
although no run lists them: `RoundsBounded` is a conjunct of `IInv`, `ResultsAreReal` says of
the queues what the box already shows, and `SubmitsBounded` of `ChatPage`, which counts
presses, is a conjunct of `SubmitsOwnPrompt`.  The theorems hold for any providers, idents,
tasks, commands, pids and bounds: they assume the `ASSUME` of the module they are about
(`None` is not one of the values it stands beside, bounds are naturals, a set that is
counted is finite) and nothing else, unless the theorem names a hypothesis itself:
`EveryOnce` (the list of sessions names each provider once) for the even spread, one
live worker for `AloneNeverBlocks`, the constants of a chat page for the theorems about
any site.

* `TaskDispatchProofs`.`Typing`: Every variable of the dispatch keeps its type in
  every reachable state.
* `TaskDispatchProofs`.`Invariance` (`IInv`): The strengthened invariant is
  inductive, for any providers, idents, tasks and bounds.
* `TaskDispatchProofs`.`Ownership` (`WorkerOwnsTask`): A task in progress is held by
  exactly the worker its row names, although idents are reused.
* `TaskDispatchProofs`.`PromptOnce` (`PromptAtMostOnce`): No task is handed to the
  adapter twice, through faults, stops and restarts.
* `TaskDispatchProofs`.`TruthfulStatus` (`ReplyMatchesStatus`): COMPLETED means one
  stored reply, FAILED none.
* `TaskDispatchProofs`.`PagesOwned` (`OpenPageHasLiveOwner`): An open page always
  belongs to the live worker of its provider.
* `TaskDispatchProofs`.`OwnPageOnly` (`ChatOnOwnPage`): A worker chats only in its
  own provider's page, with a task of that provider.
* `TaskDispatchProofs`.`RoundsLimited`: `RoundsBounded`, a part of `IInv`: the round
  counter exceeds its limit by at most the number of lost resets.
* `TaskDispatchProofs`.`Refinement` (`ImplementsTaskPool`): The dispatch, seen
  through the rows, the session rows and the keys of the pool, is a behaviour of
  TaskPool, which is all that ClientPoll assumes of the server.
* `TaskDispatchProofs`.`SpreadEvenly` (`EvenSpread`): From a server that is up, and
  while nothing is stopped, dropped, broken or restarted, requests are spread evenly
  over any list of sessions, however many there are, however they interleave and
  whichever workers are left in get().
* `WorkerLifecycleProofs`.`TypeCorrect`: Rows, threads, commands and requests of the
  administration keep their types.
* `WorkerLifecycleProofs`.`NeverTwoWorkers` (`OneWorker`): No provider ever has two
  worker threads, for any providers, idents and number of overlapping requests.
* `WorkerLifecycleProofs`.`PatientAdminSettles` (`PatientSettles`): While nothing is
  under way, the rows, the session rows and the workers of an administrator who
  waits for each request to end match.
* `WorkerLifecycleProofs`.`PatientStopsFind` (`PatientStopsHit`): While changes wait
  for each other and nothing fails, a stop command always finds the worker it was
  sent for, although it carries only an ident.
* `CommandQueueProofs`.`TypeCorrect`: Commands, queues and the workers' locals keep
  their types, and whatever is on its way has been sent.
* `CommandQueueProofs`.`TargetTakes` (`OnlyTargetTakes`): A command is only ever
  kept by the thread it is addressed to, however many workers drain the queue at
  once.
* `CommandQueueProofs`.`NothingLost` (`CommandConserved`): A sent command exists
  exactly once, queued, in one worker's hands, executed or discarded for its age,
  however many workers take the queue apart at once.
* `CommandQueueProofs`.`ResultsHold`: `ResultsAreReal`: a result exists at most once
  and only for a command that ran, and a handler is told one only if its own command
  ran.
* `CommandQueueProofs`.`AloneNeverBlocks`: A worker whose fellows are all dead from
  the start never blocks in get() behind its test of empty(), for any commands.
* `CommandQueueProofs`.`AloneInInstances` (`AloneNeverBlocked`): The same in the
  instances of the run, which begin with any set of live workers.
* `CommandQueueProofs`.`ChannelRefinesBox` (`ImplementsCommandBox`): The channel,
  with its two queues and every worker's drain, is a behaviour of CommandBox, for
  any number of workers and commands.
* `CommandQueueProofs`.`LoneWorkerOrder` (`OvertakenOnlyBehind`): A worker that is
  alone on the queue never executes a later command before one that was sent while
  none was pending, for any number of commands: the exchange by the put-back needs a
  third.
* `ClientPollProofs`.`TypeCorrect`: Rows, pool, requests and the client's memory
  keep their types.
* `ClientPollProofs`.`AnswersAreWhole` (`AnswerIsWhole`): A COMPLETED answer brings
  its reply and a FAILED one none, although the handler reads row, reply, sessions
  and pool one by one.
* `ClientPollProofs`.`VerdictsHold` (`VerdictHolds`): Every final status a client
  was told is the status of the row, but for the CRITICAL that get_task makes up.
* `ClientPollProofs`.`PollsGoOn` (`NeverBackwards`): From one poll to the next a
  client never sees its task go backwards, whichever reads its polls are made of.
* `MockProcessProofs`.`TypeCorrect`: The state file, the processes and the manager's
  locals keep their types.
* `MockProcessProofs`.`NeverForgotten` (`NoneForgotten`): A mock that the manager
  has started is named by the state file for as long as it lives, unless the start
  breaks off before it can write it.
* `MockProcessProofs`.`NeverTwo`: The manager never has two mocks of its own
  running, whichever ports it is asked about.
* `MockProcessProofs`.`OnlyMocksHit` (`OnlyMockPidsSignalled`): The manager never
  signals a pid that has not been a mock's.
* `MockProcessProofs`.`StopTellsTruth` (`StopIsTrue`): A stop that answers "not
  running" has left no started mock alive.
* `BrowsersProofs`.`TypeCorrect`: Threads, pool entry, browsers, profile and lock
  keep their types.
* `BrowsersProofs`.`NextThreadWelcome` (`NeverRefused`): No worker's boot is refused
  its page because an earlier thread has left one open in the pool.
* `BrowsersProofs`.`CalmIsTidy` (`CalmKeepsProfile`): As long as no call fails and
  nobody closes a page, there is at most one browser and it is the one on the
  profile.
* `BrowsersProofs`.`OrphansCounted` (`OrphansAccounted`): A browser that nobody will
  ever close is the remnant of a failed call, a closed page or a task without a url,
  one each.
* `SelectorHelpProofs`.`TypeCorrect`: Calls, questions, workers and locks keep their
  types.
* `SelectorHelpProofs`.`AskingOneselfFails` (`SelfHelpFails`): A worker that asks
  itself never gets an answer.
* `SelectorHelpProofs`.`WaitingForEachOther` (`CircleCostsOne`): Of two calls that
  wait for each other's target at most one is answered.
* `ChatProofs`.`TypeCorrect`: The page, its timers, the adapter's place and the
  history keep their types.
* `ChatProofs`.`NeverAskedTwice` (`AskedOnce`): The mock never receives a prompt
  twice, although the adapter clicks and presses two keys.
* `ChatProofs`.`CalmRunsAreAnswered` (`CalmRunsAnswered`): A run with no trouble
  since the start gets the answer to its own prompt.
* `ChatProofs`.`MockIsAChatSite` (`ImplementsChatPage`): The page of the mock is one
  of the sites that ChatPage allows.
* `ChatProofs`.`AnySiteTypeCorrect`: With any site, the adapter and the page keep
  their types.
* `ChatProofs`.`NeverMoreThanThrice`: `SubmitsBounded` of `ChatPage`: on any site a
  prompt is submitted at most three times, once by the click and once by either key.
* `ChatProofs`.`OwnPromptOnly`: `SubmitsOwnPrompt` of `ChatPage`: on any site what
  is submitted is the prompt of the run that is going on, never for a fourth time,
  and nothing once it has ended.

### TaskDispatch

The argument is one inductive invariant, `IInv`, which TLC checks too
(`dispatch_crashes`).  None of the properties is inductive alone:

* `WorkerOwnsTask` needs `UniqueIdents`: a claim compares the row's owner with the
  claimer's ident, and what is working on a row already has the same owner, so a
  second claimer would have to share a live ident.  It also needs `RequestStage`
  and `TaskStage`, or a request could rewrite a row that is being worked on.
* `PromptAtMostOnce` needs `TaskStage`: only a worker that has just claimed a row
  may chat, and a row is claimed only from `PENDING`, where nothing was sent.
* `ReplyMatchesStatus` needs the counts `TaskStage` keeps for the task in hand: a
  reply is stored only between "save" and "done".
* `ChatOnOwnPage` is the subtle one.  A reused ident can make worker `p` claim a
  task of provider `q`.  It then looks for `q`'s page, and may use it only if the
  entry carries `p`'s ident.  By `PageStage` an open page belongs to the live
  worker of `q`, so that worker and `p` would have one ident, and `UniqueIdents`
  gives `p = q`.
* `RoundsBounded` needs `BudgetsKept` (budgets only shrink, and a row that is gone
  has counted nothing): a reset is lost only with a fault or a restart.  A task whose
  session row was dropped while it was worked on counts nowhere (`cut`), even if
  the row has been written again since.

`Refinement` follows from `IInv`: each action leaves rows, session rows and pool keys
alone, or is the action of `TaskPool` that its place in the worker's loop says
(`PoolStep`), or changes one session row or one entry (`SeenStep`), or is the restart.
With it the theorems of `ClientPollProofs` speak of clients of this dispatch: `ClientPoll`
lets `TaskPool` take any step between two steps of a client, but for the insert, which
is the client's own, the rejection, which is a step of the client's own request, and the
bound `MaxChanges`, which is arbitrary in the theorems.
The proof is laid out by action, with frame lemmas (`RequestFrame`, `WorkerFrame`,
`LedgerFrame`, `OtherWorkers`) for the conjuncts an action does not touch.

`SpreadEvenly` has an invariant of its own (`SpreadInv`), since it speaks of a server that
is up.  Bounds are only spent (`CalmBefore`), so a system that is `Undisturbed` always was;
in one every provider keeps its row and its entry, and its worker stays in its loop
(`Up`).  A request therefore finds all sessions, in the order of the list
(`FindsAll`), and takes the one at the cursor: after `m` rounds of the cursor and `rr` more
places every provider has `m` tasks and those at places 2 to `rr + 1` one more (`Turns`).
The first place comes last in a round, because the cursor is advanced before it is read.
Pages may be closed at any time: the entry stays.  `DispatchAssumption` says that `None` is
no `Slot` either, which an assigned request must not be mistaken for.

### WorkerLifecycle

The invariant for `OneWorker` is uniqueness together
with the types of threads and requests (the providers that a request will verify
must be providers).  The threads change in four ways only, one lemma each: one
starts where the provider has none (`StartKeeps`), one moves on, one ends, none
changes.  The theorem rests on the handlers' being coroutines: the look at
`threading.enumerate()` and the start have no `await` between them.  Turning one of
them into a plain `def` would take the premise of `StartKeeps` away.

`PatientSettles` speaks of quiet states only and says nothing of the way there.  `Calm`
does: one call at a time is active and what it has read of its row is still true
(`Informed`); no stop command is on its way while a call is (`OneAtATime`), and each has
one thread to stop (`StopsFit`); and a provider whose row says "on" has a worker, or a call
that is about to start it, while one that is off has none but those already told to
stop, or a call that is about to tell them (`Fits`).

`PatientStopsHit` says that an ident still means the worker it meant when the stop was
sent.  `Calm` has that a target lives until it obeys; that it belongs to the
provider of the call is `StopsOwn`, and a live thread keeps its provider
(`ThreadsStayOwned`), since an ident is only given to a new thread after the old
one's end.

### CommandQueue

`OnlyTargetTakes` is not inductive by itself: that a command kept by a
worker is addressed to it says nothing unless the command has been sent.  The invariant
therefore says that whatever is on its way (`queue`, every `temp`, every `found`) is a
command that was sent, `Seq(Out)` (`ChannelOK`); at which stage a worker may hold anything
(`Stage`); and that what it keeps is its own (`Targets`).  There is one lemma per kind of
step; a send only adds to `Out` (`PutKeeps`).

`ChannelRefinesBox` maps each step to a step of `CommandBox` or to none.  A step of a
drain that only moves a command between `queue` and a `temp` must not change
`Life`: by `Sole` it lies in one place before and after.  A command that is thrown away
was old at the drain's `now`, and has stayed old (`seen` is a subset of `old`).  A waiter
that ends its wait puts back what it kept aside, so `Unread` loses only its own result.

`LoneWorkerOrder` rests on `Foremost`: a command that was sent while none was pending is
the head of the queue, with nothing put aside, until it is found; a get() finds it, so
nothing is put back before it, and a later command cannot have been found yet.

`AloneNeverBlocks` has the premise that all other workers are dead at the beginning: then
a queue that the one worker has seen to be non-empty is only appended to until its `get()`
(`Lonely`).  With a second worker the statement is false, which is why
`AloneNeverBlocked` is limited to `Alone`.

### ClientPoll

A handler reads the row first and everything else later, so a conjunct of the properties
about the row is not kept by the row's next step.  `Sound(t)` says what the locals still
tell: the row has only moved on from what was read (`ReadSound`, `Later`), the reply was
there before the status said COMPLETED (`RowSound`), and what the client was told is true
of a row that cannot leave it again (`ToldSound`).  Clients do not meet, so a step of one
task keeps the others' conjuncts by `Frame`.

### SelectorHelp

`SelfHelpFails` needs to know that a worker that asks itself stays in the circle: as long
as the handler waits, its question is PENDING, because only the helper could claim it
(`Given`) and the helper is inside the handler (`Handled`).  `SelfHelp` is that circle, or
the handler has left it without an answer for good (`Over`).  For two calls,
`Lasting` is the same as a fact about steps, and `CircleCostsOne` follows from it in
temporal logic.

### Browsers

`OrphansAccounted` is not inductive, because some failures are counted before
their browser is left behind: an entry whose page is closed still refers to its browser
until it is overwritten, and a start for a task is going to fail.  `Covered` puts both on
the bill (`OwedPage`, `OwedTask`).  `CalmKeepsProfile` needs `Tidy`, which names the one
browser and who answers for it; `NeverRefused` needs the stages of the thread.

### MockProcess

`NoneForgotten` is inductive with `FileEmpty`: from the probe to the write the state file
says nothing, so the only mock that may be running is the one in the hands of the start.
`OnlyMockPidsSignalled` needs that whatever the manager takes for a mock's pid, in the
file or in its locals, has been one (`Known`).  `NeverTwo` follows from the first two: two
mocks would both have to be the one that the file names, or the one about to be written.

### MockSite and ChatPage

The page's script empties the box in the same handler that takes the prompt, so what is in
the box has not been sent (`NotSent`); `AskedOnce` follows.  `CalmRunsAnswered` needs
the adapter's place against the page's (`OnCourse`): after the click the box is empty, and
while the adapter waits no timer is running.  `MockIsAChatSite` goes action by action: each
is an action of `ChatPage` under the mapping of `MockSite` or leaves what is mapped alone
(`NextMaps`).  For any site `AnyTurn`
counts the submissions of the run in progress against the adapter's place
(`Allowed`): each press adds one, and earlier runs add nothing.

### What is only model-checked

The liveness properties: `EveryTaskSettles`, `EveryClientEnds`, `ResolvesUnlessBlocked`,
`HandlersEnd`, `QuestionsAreAsked`, `EveryRunEnds`, `PatientFollowed`, `StartsEnd`,
`EveryRequestEnds`.  The prover has neither fairness nor `ENABLED` in reach.

## 5. Not modelled

* Pure text: prompt assembly, standardising a reply, selectors, formatting, logging.
* Pure I/O: what Playwright does inside a call; that it returns, raises or is overtaken
  by a dying browser is in `Browsers`.
* Metrics, static pages, settings, schema and migrations: no state of their own
  that another part decides on.
* `ThreadedWorkerManager` and `discover_and_launch_sessions`: nothing calls them.
* Write conflicts inside SQLite: a transaction is atomic and either happens or
  raises (`WorkerFault`, `RejectTask`).
* The scheduler (`browser/scheduler.py`): workers construct it, no production code calls
  it, and its claim passes an argument (`provider_hint`) that `claim_next_pending` does
  not take.  `_record_rebuild`, `reset_session`, `close_all` and the update and remove of
  `SessionManager` have no caller either.
* Logging, the analysis of metrics, settings and pages of the UI, the extraction test
  endpoint, the brace matching of the extractor: text and reading only.
* `rebuild_session`, which changes nothing (see above).  The http-session probe and the
  mock's open-browser are disabled in the code.
* Inside `SelectorHelp`: threads that start again, tasks that are not questions.

## 6. Plan

The models of the plan are written, and every safety property of the runs is proved.
What could still be added:

1. The hazards without a property (`PROJECT.json`).  A stream that pauses for more than a
   second needs a site with a clock.  The others the code does not exclude: requests that
   overlap and decide on what they read before, a stop that is dropped, cursors
   over different lists, the session row of a deleted provider.
2. The steps between the modules.  `ClientPoll` is an open system over `TaskPool`, and
   `Refinement` shows that the dispatch is one; that the two together satisfy the
   theorems of `ClientPollProofs` is their composition, argued in section 4 and not
   stated as a theorem.  `SelectorHelp` uses the rows of its tasks in its own way.
