# A TLA+ model of cmdra

cmdra is a daemon (`cmdrad`) that runs programs for remote callers over gRPC with
mutual TLS, keeps their metadata and output in SQLite, and lets callers attach,
replay, cancel, delete and transfer files; `cmdractl` and the terminal program
`cmdraui` are its clients. These modules model the daemon, the streams between it
and its clients, and the clients' own state. TLC checks them on small instances, and
TLAPS proves the most important facts for every value of the constants.

All line numbers refer to the files under `src/`.

## 1. Inventory

| Part | State it keeps | Operations | Modelled in |
| --- | --- | --- | --- |
| Job table, `internal/history/store.go` | table `jobs` (state, owner, outcome, counters), table `job_output`; one SQLite connection | CreateJob, UpdateJobProcess, CompleteJob, UpdatePTYSize, AppendOutput, StreamOutput, DeleteOutput, DeleteJob, ListJobs | `JobHistory`, `Lifecycle`, `OutputPipeline`, `ExecIO` |
| Execution manager, `internal/execution/manager.go` | `Manager.executions` under `Manager.mu`; per execution: state, cancel flag, stdin, pty, subscriber under its own `mu` | start, Delete, ClearHistory, Cancel, StartTransfer, CompleteTransfer; goroutines waitForExit and captureOutput | `Lifecycle` (rows, registry, process), `OutputPipeline` (output), `ExecIO` (mutex and pipes) |
| gRPC service, `internal/server/service.go` | none between requests; per stream a receive goroutine, a subscription, offsets | the RPC handlers; Attach; UploadFile, DownloadFile, DownloadArchive | handlers in the three modules above; the stream of Attach with its receive goroutine in `AttachStream`; the transfer handlers in `Transfers` |
| Platform layer, `internal/platform/` | none | TerminateProcess, StartProcessWithPTY, Resize | through its use in `Lifecycle` and `ExecIO` |
| Daemon, `cmd/cmdrad/run.go` | listener, gRPC server, manager, audit log | startRuntime, stop, close | `Lifecycle!CrashRestart`; graceful stop, timeout, error of the listener and close in `Transfers` |
| Authentication, `internal/auth/auth.go` | the set of allowed names | common name of the verified chain | the `Owners` of `Lifecycle` |
| Audit log, `internal/audit/logger.go` | a file under a mutex | Write | no: nothing reads it, its errors are dropped |
| Configuration and OS service, `cmd/cmdrad/{config,service}.go` | the installed unit | precedence of settings, relative paths, install, uninstall, start, stop | `ServiceConfig` (systemd) |
| Go client, `pkg/cmdraclient`, and `cmd/cmdractl` | none / the interactive attach loop | one RPC per call; transfer loops; WriteStdin; attach | `Transfers`, `AttachStream` |
| Terminal user interface, `internal/tui` | a Bubble Tea model, commands that answer asynchronously; per attach session a stream and a terminal emulator | refresh, detail, confirmations, prompt, forms, attach; text and control functions | `TuiApp`, `TuiForms`, `TuiFocus`, `TuiAttach`, `Terminal` |
| Generated stubs, Python SDK, website, scripts | - | - | no |

How they interact. An RPC handler runs in its own goroutine and calls the manager,
which calls the store. `start` writes the row, starts the process, writes its pid,
registers the execution and starts a `captureOutput` goroutine per source (each
with a reader goroutine behind a channel of 32 chunks) and `waitForExit`.
`captureOutput` appends to the store and publishes to the one subscriber; the end
of `waitForExit` persists the outcome and publishes EOF to the same subscriber. An
Attach handler subscribes, replays from the store, then forwards live events.

What is hard in it:

- *several steps where a reader would like one*: the row, the process and the
  registry entry of an execution are created and removed in different steps, with
  store calls that can fail in between, and the daemon can die anywhere;
- *three goroutines at the end of an execution*: the wait closes the pipes that the
  readers still read, and EOF is published while the captures still drain;
- *locks held across blocking I/O*: `WriteStdin` writes to the child with the
  execution's mutex held, and everything else of that execution, a deferred detach
  included, needs the mutex; a replay holds the only database connection while it sends
  to its client;
- *checks that are stale when used*: delete after a state check, discard after a
  replay, replay after a subscription;
- *bounded channels*: chunks (32) block, subscriber events (256) are dropped;
- *two goroutines per attach stream*, of which one may block in a write to the child,
  and a client that leaves at any moment, gracefully or not;
- *a transfer has four ends*: the client's file, the stream, the handler and the row, and
  each can fail while the daemon is being stopped;
- *answers that come late*: every command of the user interface runs concurrently, and its
  answer is taken in whatever state the user has reached by then; attach events do not say
  which session they belong to;
- *a state machine driven by arbitrary bytes*: the terminal emulator keeps cursor, saved
  cursor, scroll region and two buffers consistent through any sequence of control
  functions and resizes;
- *settings that are read twice*: a service is installed from one directory and run in
  another, later.

`PROJECT.json` lists each of these hazards at its line with the properties that
watch it.

Properties that make each part correct:

- job table: an id is used once, a job gets one outcome, only finished jobs go, only
  their owner removes them (`HistorySpec`, `OnlyOwnerActs`);
- lifecycle: what runs is visible and managed, the registry does not leak, memory and
  row agree (`LiveIsVisible`, `RunningIsManaged`, `RegistryTracksRows`,
  `OutcomeIsTheWaiters`), cancels work and requests are answered;
- output: nothing reordered, duplicated or dropped on the way to the store, right
  offsets, no gap between replay and live events, every attachment ends;
- input: messages stay whole, nothing is written to a closed input, calls return;
- streams: success is told only of what was done (`SuccessMeansWhole`,
  `WrittenMeansDelivered`), and a client that leaves or a daemon that stops in good order
  leaves nothing attached or running (`LeavingFreesAttachment`, `TransfersEnd`,
  `DrainedMeansFinished`);
- user interface: what is destroyed was announced, a selection and a prompt keep their
  target, focus and cursor fit the section, the detail panel catches up, an attached user
  is told of the exit;
- terminal: everything stays on the screen, the primary screen survives the alternate one,
  text stays inside the scroll region;
- service: a portable command line means the same to the service as to a foreground run.

## 2. Modules

- `JobHistory`: the abstract specification, one record per id, with `Create`, `Finish`
  and `Delete`.
- `Lifecycle`: rows, registry, processes, `waitForExit`, and handlers for start, delete,
  clear, cancel and transfers, with crashes of the daemon. It implements
  `JobHistory` under the mapping `Hist`. `MCLifecycle` instantiates it.
- `LifecycleProofs`: the inductive invariant `IInv`, the theorems on `Lifecycle`, and the
  proof that it implements `JobHistory`.
- `OutputPipeline`: one execution's output, from the child's writes to the clients.
  `MCOutputPipeline` instantiates it.
- `OutputPipelineProofs`: the inductive invariant and the theorems on `OutputPipeline`;
  `OutputStagesProofs` adds those on what is on its way from the child to the store.
- `ExecIO`: one execution's mutex, its stdin and the bounded pipes to a child that does as
  it likes.
- `ExecIOProofs`: the inductive invariants and the theorems on `ExecIO`.
- `Transfers`: one upload, download or archive from end to end, and the daemon being stopped.
- `AttachStream`: one attach stream, used by `Client.WriteStdin` or by an attached user.
- `Terminal`: the terminal emulator of attach mode; `TerminalProofs`: theorems on it.
- `TuiFocus` (operators), `TuiApp`, `TuiForms`, `TuiAttach`: the user interface.
- `ServiceConfig`: the configuration and the systemd service.
- `StreamProofs` (on `Transfers` and `AttachStream`), `TuiProofs`, `ServiceConfigProofs`:
  theorems on these.
- `MCParts` and `MCClients` instantiate the modules from `Transfers` on. A behaviour of
  theirs is one of one part, chosen in `Init`, while the other parts stay in one state:
  the parts share no state that their models keep, so that a product would only repeat
  the interleavings of each.

The three detailed modules of the daemon look at the same goroutines at different places and
leave out what they do not need: `Lifecycle` has no output and knows of stdin and of
replays only that they hold locks, `OutputPipeline` has one execution whose row goes
running, final, gone (the only way `Lifecycle` allows), and `ExecIO` has neither rows nor
subscribers. Composing them would multiply state that
does not interact: output needs only the row's state, and stdin needs only the child.

### Lifecycle and the code

| Variables | Code |
| --- | --- |
| `jobs`, `used` | table `jobs`, and the ids ever inserted (an id is 64 random bits; `newID` never repeats in the model) |
| `registered`, `memState`, `cancelRequested` | `Manager.executions`, `managedExecution.state`, `.cancelRequested` |
| `held` | the locks that requests outside the module hold: an execution's `mu`, or the store's one connection |
| `proc` | the child: alive, sent SIGKILL, zombie, reaped |
| `waiter`, `exitCode` | where `waitForExit` is, what the wait function returned |
| `pc`, `caller`, `target`, `todo`, `skipped` | a handler goroutine and its local variables |

A step is what happens between two points where another goroutine may run: a store
call (one connection, hence atomic), a critical section, a system call.
`StartBegin`, `StartSpawn`, `StartPid`, `StartRegister`, `StartWatch` are the stages of
`Manager.start` (277-401): a snapshot for the audit takes the mutex of the execution,
which other requests can find by then, before the captures and `waitForExit` are started
(390-398), and another is the answer (`AnswerView`, 400). `StartSpawnFails` and `StartPidFails` are its error exits.
`DeleteCheck`, `DeleteRow`, `DeleteMap` are `Delete` (432-457); the `Clear...` actions
`ClearHistory` (460-483), which ignores rows that are gone; the `Cancel...` actions
`getOwned`, `Cancel` and `TerminateProcess`, whose probe, kill and errors are told
apart: `CancelRefused` is the exit after a signal the system refuses, which is so for the
ids of `Refusing` (a program that runs as another user), and after the kill of a process
that has been waited for since the probe. `OtherLocks` and `OtherUnlocks` are the
requests that keep a lock while a program or a client does not read (`WriteStdin`,
594-617; a replay, `store.go` 297-318): what holds a lock may keep it for ever. The
sections of `start`, `Cancel` and `waitForExit` that take the mutex, and every store call,
wait for it. `WaiterReap`, `WaiterFinish`,
`WaiterPersist` are `waitForExit`. Errors of `CompleteJob` are dropped in the code and
so in the model. `CrashRestart` loses all memory and keeps rows and processes.
The owner of a managed execution is not stored twice: `getOwned` checks the row.

### OutputPipeline and the code

A unit is what one `Read` returns; `chunkSize` is counted in units. `pipe` is the
kernel's buffer, `queue` the channel plus the one chunk a blocked reader holds,
`pending` the buffer, `current` the locals of `appendOutput` and `publish`. `log` is the
table `job_output`; rows are never removed from the sequence, `discarded` says how many
are deleted. `publish` is two steps, taking the subscriber under the lock and sending
after it (862-880), for data and for EOF. A send on a closed channel sets `panicked`,
after which the daemon takes no step. A pty has one source, and its master is closed by
`waitForExit` (804); plain pipes are closed by `cmd.Wait` (362). A store call and a
whole replay are one step, because the store has one connection and a replay
keeps it for as long as it reads rows. `AttachReplay` replays from any offset a client may
ask for, one inside a row included: `Replayed(o)` are the rows that begin at `o` or later.

### ExecIO and the code

`mu` is `managedExecution.mu`. A message is `MsgLen` units; each one is written when
there is room, with the mutex held as in `WriteStdin` (594-624). Nothing is assumed of the
child: it reads or does not, prints as much as it likes and whenever it likes, closes its
stdin and ends. `CaptureTake` and `CapturePublish` are the capture goroutine, whose second
half needs the mutex. `Cancel` takes the mutex before it signals, and again for its answer;
a signal may be refused. A resize holds it from the terminal to the row and has two
error exits: the terminal refuses the size and nothing has changed (641-643), or the store
fails when memory has (644-646). A terminal size is named by the call that asked for it.

### Transfers and the code

The client's call (`client.go` 394-446, 547-580), the stream, the handler (`service.go`
283-509), the goroutine that walks an archive, the row, and `runForeground`, `stop` and
`close` (`run.go` 33-160) are one state machine per transfer; a chunk is a unit. A
`Send` blocks while `wire` holds `Window` chunks. A stream breaks when the connection
is lost, when the client's context ends, or when the daemon stops by force; data that
arrived before an error of the handler is received before it. `caller` says whether the
context ends with the call: it does in `cmdractl`, which exits, and in `cmdraui`, but
need not in a program that uses the library. `Conclude` and `HandlerCompletes` are the
two halves of every exit of a handler: what it decided, and `CompleteTransfer`, which can
fail before its update (the row runs on: `unrecorded`) or after it. Only the end of an upload
looks at the error, and answers Internal (350-352); a download or an archive is
reported as a success all the same (420, 507). `ServeFails` is the way out of `runForeground`
after an error of the listener (52-56), which closes the database and stops nothing.

### AttachStream and the code

The peer is `Client.WriteStdin` (329-371) or a session of `runAttach` and its goroutines.
The handler's loop (252-280) may take any case of its `select` that is ready. The receive
goroutine (219-250) takes one frame at a time; `ReceiverWrites` is what a write to the child
comes to, and is the child's choice; until then the goroutine holds the execution's mutex
(`MutexFree`), and so may that of an earlier session (`elder`). Attaching, detaching, a cancel,
the publishing of output and `waitForExit` wait for it. An execution that has ended can be attached to
as any other, and EOF reaches only who is attached when it is published (`eof`). Frames that
arrived stay readable after the stream ended. A handler that is done detaches first, in a
deferred call (663-670), and then returns, which ends the stream's context; the goroutine
is not waited for. That an exit of the client breaks the link is gRPC's doing (external).

### User interface and the code

`Update` is one action per message and per key that changes state. `mail` is the set of
answers under way. An answer is computed when its command is started, which is the earliest
it can be; it is taken at any later step, in any order. Commands that fail set the error
line and are left out. `server` moves by itself (ends, other clients' starts and deletions).
Where `Update` ends with a refresh, `Refreshed` is added; where it loads a detail,
`LoadDetail`. `announced` is history: what the last press of `x` or `X` named. Those two keys
leave a pending action armed even where they are ignored (`KeyIgnored`: `x` without a selected
item, either of them in another section); every other key disarms (560-563).
A cancel ends a running execution; of a transfer the daemon knows nothing (`KeyCancel`).
`TuiApp` treats the three form sections as one; `TuiForms` has their focus, fields and modes
(field contents are not kept, so that a form may or may not validate). In `TuiAttach` a
session is a stream, `receiving` the number of goroutines in `Recv` for it (the program may
start several), and an event keeps its session only as history: `TakeEvent` does not look
at it. `Connect` is accepted for an ended execution too; such a session is "deaf" when EOF had
been published before.

### Terminal and the code

A cell is a blank, a glyph with its style and its width of one or two columns, or the tail
of a wide glyph. Every function of `Model` that the parser calls is one action:
`PrintRune`, `execute` (`Backspace`, `TabStop`, ...), `handleEsc`, `handleCsi` (with any
parameter of `Counts`; a missing one is the code's default, which is 1 for a count and 0 for
an erasure), modes 47, 1047, 1049, and `Resize`. The buffer is a library's
(`ultraviolet`), modelled from its use: insertion and deletion of lines and cells inside an
area, overwriting one half of a wide glyph blanks the other.

### ServiceConfig and the code

A value is a path or empty. `Load` is `loadConfig` (defaults, file, flags, in this order,
relative paths of a file taken from its directory), `RunArgs` is `runArgsFromConfig`,
`Effective` is what a process started in a directory then opens. `Install` can fail after the
unit file was written, after the reload, or after enabling. `daemonProcess` keeps
what the service runs with and, as history, what `cmdrad run` would have used at that
moment with the flags of the last successful install.

## 3. Runs

| Run | Checks | Instance |
| --- | --- | --- |
| `lifecycle` | `TypeOK`, `LiveIsVisible`, `RegistryTracksRows`, `RunningIsManaged`, `OutcomeIsTheWaiters`, `OnlyOwnerActs`, `HistorySpec` | 2 ids, 2 owners, 2 handlers, one crash, one failing write, programs that may refuse signals |
| `lifecycle_live` | `CancelTakesEffect`, `RequestsAreAnswered` | 1 id, 1 owner, 3 handlers, other requests that hold the mutex and the store's connection, no crash and no fault, under `FairSpec` |
| `output` | `TypeOK`, `StagesInOrder`, `ResumeIsExact`, `AttachHasNoGap`, `LiveInSourceOrder`, `AttachmentIsKept`, `EofAfterOutcome` | pty or pipes, 2 units of output, 2 sessions, chunk size 2 |
| `output_live` | `PipelineDrains`, `AttachmentEnds` | pty, one session with a channel of 1, one discarding reader, one failing write |
| `exec_io` | `TypeOK`, `MessagesStayWhole`, `InputOnlyWhileOpen`, `SizesAgree`, `NoWriteWaits`, `CancelEndsChild`, `CallsReturn` | 2 writers of 2 units, one of them closing, into an input of 2; 2 resizes, a cancel |
| `parts` | `TermTypeOK`, `PrimarySurvivesAlt`, `TextStaysInMargins`, `FocusFitsSection`, `DestructionIsConfirmed`, `PromptKeepsTarget`, `RefreshKeepsSelection`, `ServiceRunsAsForeground` | screens of up to 2 x 3 with one glyph and one resize; 2 jobs, both taking input, 2 answers in flight, other clients that delete; all forms; 2 settings per place |
| `clients` | `SuccessMeansWhole`, `DrainedMeansFinished`, `WrittenMeansDelivered`, `TransfersEnd`, `LeavingFreesAttachment`, `AttachLearnsExit`, `DetailCatchesUp` | files of 0 to 2 chunks, stream window 1; 2 frames, 1 live output; 2 attach sessions with 1 output each; 2 jobs, 2 answers in flight |

Why the bounds are enough. In `lifecycle` every conflict is between two parties (a
start and a delete, a clear and a delete, a cancel and an exit), so two handlers on
two rows reach each of them, and the second crash or fault only repeats the first. Its
`Locks` are empty: a lock that others hold only delays steps there, and its invariants
speak of states. In `lifecycle_live` the locks multiply the states, so that one id has to do;
what waits is a matter of one execution and the store, three handlers are a start or a
cancel with one or two others, and a list goes stale by a second clear. In
`output`, two units make two rows of one source or one of each, two rows are what an
order or an offset needs, and capacities of one make every queue both empty and full;
the flush timer can fire at any time, so rows of one and of two units both occur. The
subscriber channel has 2 places in `output`, so that events can stand in it in the
wrong order, and one in `output_live`, so that it overflows. In `exec_io` two
messages of two units can mix, and two resizes can overtake each other. The input holds two
units: the first message alone just fits, which is the edge of `AllFits`, and nothing there
may wait for the child; the second message, its EOT, and the first behind the second do not
fit, so that a writer waits in the middle of a message or before the EOT for a child that need
not read. Run `execio_cancel` shows what can come of that.

In `parts`, a screen of 2 columns and 3 lines is the smallest with a wide glyph, a
wrap and a scroll region that has a line above or below it; heights of 1 and parameters of 0
and 3 are the edges of every clamp; one glyph is enough to see where it was drawn (the proofs
have any number). Two jobs are what a selection can be confused between, and two answers in
flight what can overtake each other. The jobs are executions that take input, so that
the prompt is always at stake; transfers differ in nothing but the list they are in. In
`clients` a file of two chunks with a window of one makes a sender wait and leaves half a
file behind; two sessions are what events can be mistaken between. There, no other client
deletes, because a job that is deleted under the user empties the panel by the same list
that `parts` checks.

Some runs switch deadlock off: executions end, ids and faults are used up, and then the
system may rightly stop.

Fairness. `Lifecycle!FairSpec` lets every handler and every waiter that can take a step
again and again take one (strong fairness: a starving Go mutex is handed over, and requests
for the store's connection queue up), faults excepted, and a process that got SIGKILL die
(the kernel). It does not assume that programs exit, that clients ask for anything or read
what they are sent, or that a lock is ever given back: both liveness properties say what
holds of a request that does not wait for a lock somebody keeps for ever.
`OutputPipeline!FairSpec` does the same for readers, captures, the waiter and the
attach handlers; the last includes that an attached client takes what it is sent.
`ExecIO!FairSpec` assumes that the goroutines go on when they can and that a killed child
dies. It assumes nothing of a living child, which reads, prints, closes its side and exits as
it likes. `CancelEndsChild` and `CallsReturn` therefore carry the condition `ChildMakesRoom`:
no writer is left waiting for ever for room in the input. Without it they are false of the
code, which run `execio_cancel` shows.
`clients` assumes that the client library, the handler and the walker of a transfer, the
handler and the receive goroutine of an attach stream, and the goroutines in `Recv` each go on
when they can (Go's scheduler), and that the user interface's runtime delivers every answer
and every tick. It does not assume that files or connections fail, that a user presses a key,
that a child reads its input or ends, or that the daemon is ever stopped; a write to the child
may block for ever. The conditions of the four parts are joined pairwise (`Fair1` to `Fair3`),
which is the same as stating them apart, because a behaviour stays in its part. Their
liveness properties have the form "again and again" (`[]<>`): for a state that, once left, is
not entered again this is "eventually" said in one branch of the checker's tableau.

### What the code does not do

Five runs are expected to end in a violation; each states what a document of the
repository says, and TLC finds a run of the code that does otherwise.

- `cancel_transfer`: `README.md:218` offers `c` to cancel a running transfer; `Cancel` looks
  the id up in the registry of executions, where no transfer ever is, and answers
  not found (`manager.go:571`, `827-832`).
- `send_on_closed`: a capture goroutine that took the subscriber before EOF sends on it
  after `waitForExit` closed it (`manager.go:873-879`); the panic ends the daemon.
- `output_complete`: `cmd.Wait` closes the pipes while readers still read
  (`manager.go:362`); what they had not read is not persisted.
- `discard_unread`: a discard deletes rows appended after its replay
  (`manager.go:698`), because the job's state is final before its output is.
- `execio_cancel`: while a child does not read a message that its input cannot hold, the
  writer keeps the mutex (`manager.go:594`), and a cancel waits for it (`575`) and never
  signals. A child that stops reading because its own output is full waits for the capture,
  which waits for the same mutex.

Met while modelling and without a run of their own: rows of executions that ran when
the daemon stopped say running for ever and cannot be deleted; an attach after EOF was
published is never ended; the comment at `manager.go:810` is right about the row's state
(`EofAfterOutcome`) but not about the output, the tail of which may be appended later.

The models also have these exits of the code, which the properties above leave room for and
say so: an error of `CompleteTransfer` leaves the row of a transfer running, while a download
or an archive goes on to report success (`service.go:420`, `507`) and an upload is answered
Internal with its file whole (`350-352`); when serving fails, the database is closed without
waiting for the handlers (`run.go:52-56`); a resize whose row could not be written has changed
the terminal and the memory all the same (`manager.go:644-646`); an attach handler that is
done waits for the mutex in its deferred detach (`663-665`), so that an attachment is not free
while a `WriteStdin` waits for the child; `x` and `X` stay armed through an `x` or `X` that is
ignored (`app.go:560-563`, `612-616`); and in attach mode the exit of a session that was left
is taken for the exit of the new one.

Likewise of the clients: `README.md:110-113` installs the Linux service with
`--config ./dev/cmdrad.json`, which the service, run in `/`, does not find (`service.go:217`
hands the argument on as it was typed; only `Portable` command lines are the same to both);
flags given beside `--config` are dropped from the unit (`config.go:223`); a second install with
`--start-now` does not restart a running service; `cmdractl attach` leaves the terminal in raw
mode, for `defer restoreRaw()` evaluates the variable while it is the empty function
(`main.go:419-420`); the walker of an archive whose client has gone stays blocked in its pipe
(`service.go:437`), although the row ends; a program that keeps its context after a failed
upload leaves the row running (`client.go:434-442`); and `q` typed into a field of a form
quits the program (`app.go:565`).

Each property of a passing run has a seeded fault, an operator beside the definition it
replaces (commented as such in the modules, used by no specification), under which TLC
finds the property violated.

## 4. Proofs

`LifecycleProofs` proves, for all sets of ids, owners and handlers and any bound on
crashes and faults, from the assumption `LifecycleAssumption` alone:

- `TypeCorrect`, `LiveStaysVisible`, `RegistryHasNoLeak`, `RunningHasACompleter`,
  `OutcomeAgrees`: the five invariants of run `lifecycle`;
- `OwnerActsAlone`: `Spec => OnlyOwnerActs`;
- `ImplementsHistory`: `Spec => HistorySpec`.

The argument. None of the invariants is inductive alone. `IInv` adds to them:

- `UnusedIsClean`: an id not yet drawn has no row, object, process or handler, so that a
  new start finds a clean slate (needed where `CreateJob` resets nothing else);
- `HandlersAreShaped`: which locals a handler has at which place; only a clearing handler
  has ids to do, an idle one works on nothing;
- `CompletersAreAlone`: a start or a transfer that has not given its row an outcome is
  alone with a running row: no waiter, no registry entry, no second completer. This is
  what keeps outcomes final;
- `StartsAreExecs`: the row a start works on is an execution's, for the waiter it leads to;
- `WaitersAreVisible`: `LiveIsVisible`, and what the waiter has decided in memory by when;
- `OwnersAreChecked`: the owner a delete, clear or cancel compared is still the owner of
  the row it works on, if the row still exists;
- `EndsAreChecked`: a row that a delete or clear has on its list has an outcome, if it
  still exists: the check made in an earlier step is still good.

The last two are the reason that check-then-delete is harmless here: ids are never
reused, owners never change, and outcomes are final, so a check cannot go stale.
`Init` implies `IInv` (`IInvInit`); the step is one lemma per conjunct, each with one
step per action; `Invariant` puts them together. `IInv` was checked by TLC as an
invariant of the `lifecycle` instance before it was proved, and so were the invariants below
on the instances of their runs. The refinement takes
`IInv` as its invariant: `CompleteJob` is `Finish` because the row it meets is running,
and `DeleteJob` is `Delete` because the row it meets has an outcome.

`ExecIOProofs` proves, for any sets of writers and resizers and any message length and
pipe capacities, from `ExecIOAssumption`:

- `TypeCorrect`, `ResizesAgree` (`SizesAgree`) and `WritesFindInputOpen`
  (`InputOnlyWhileOpen`), from the invariant `LockIsHeld`: who is in a critical section
  is who `mu` names, a writer in it has found the input open, and the size in memory is
  that of the resizer in it. Where memory and row differ, the resize that memory shows is
  about to be stored, or was answered with the error of the store;
- `MessagesAreWhole` (`MessagesStayWhole`), which needs two more: `MessagesInOrder`, that
  behind the last unit written there is either its own next unit, or its writer with the
  mutex and that unit in hand, or an exited child nobody writes to any more; and
  `UnitsAreCounted`, that each writer's units in the input are what its message has lost.
  The second is an induction on the cardinality of `UnitsOf(w)` (`AppendedUnit`);
- `FittingInputNeverWaits` (`NoWriteWaits`), by counting: what is in the input was accepted
  (`InputWasAccepted`), no unit is accepted twice (`AcceptedOnce`), and a writer that waits
  has one in hand that was not. All of them belong to calls that have had the mutex
  (`Served`), and a full input and the one in hand are more than `AllFits` allows, whatever
  the child does.

`OutputPipelineProofs` proves, for any number of sessions and readers, any capacities and
chunk size, and any bound on units and faults, from `OutputAssumption`: `TypeCorrect`,
`ResumeGetsTheRest` (`ResumeIsExact`), `SubscriberMissesNothing`,
`SourcesStayInOrder`, `AttachmentSurvives` and `EndComesLast`. The seven
actions of `captureOutput` are first reduced to four effects (`Quiet`, `Appended`,
`Grabbed`, `Published`: `CaptureEffects`). `IInv` adds to these:

- `HeldRows`: between the append and the send a capture goroutine holds a row of its own
  source, and otherwise none. A row is therefore in somebody's hand from its append until
  it is in the subscriber's channel or dropped, which is why no gap opens (`NoGapKept`);
- `HeldIsLast`, `LiveRows`: what is held is later than every row of its source in a
  channel, and channels hold rows and EOF only; so a send keeps the order of a source;
- `Attachments`: who is attached is known from the session and from the subscriber, and
  EOF takes the subscriber once. A detach clears a subscriber only if it is its own;
- `EndsInOrder`: what `waitForExit` has done by each of its places;
- `SizeIsEnd`, `StartsAtRow`: the stored size is where the next row starts, and a live
  session's first row is at least 1;
- `RowsFollow`: every row has output and ends where the next begins or earlier, so that
  offsets grow with the rows. Appending only non-empty rows (`manager.go:727`, `760`) is
  what `ResumeIsExact` depends on beside the contiguous offsets.

With a replay from any offset, the first row a session gets is the least of `Replayed(o)`
(`Smallest`), and what `AttachHasNoGap` counts from there on is proved as before.

`OutputStagesProofs` proves `OutputStaysInOrder` (`StagesInOrder`) from the same assumption. What is on its way from one source is a single
sequence, the locals of `appendOutput`, the buffer, the channel and the pipe put together.
Each of the actions has one of four effects on it: it leaves it alone (`Moved`, for regrouping
chunks is what `\o` does not see), extends it by what the child wrote (`Wrote`), or takes a
piece off its front that is persisted (`Stored`) or a piece that is lost (`Dropped`).
`StagesKept` puts the effects together. That an ended capture has left nothing behind needs `Drained`: a reader that is
done has an empty pipe, a capture that is done an empty channel and buffer, in both cases
because the earlier stage can no longer write; a pty keeps being one (`PtyStays`).

`StreamProofs` proves, for `Transfers`, `SuccessIsWhole` and `DrainedIsFinished`, for files of
any length and any window. The invariant counts chunks along the way (`UploadsAreCounted`: as long as
the handler has not given up, what the client has sent is in the stream or in the file;
`DownloadsAreCounted` the same way, through the walker's pipe); `EndsAreReached` and
`OkIsFinal` turn the end of the file into the outcome and the client's answer, and `Recorded`
into the row. The completion of a row may fail (`unrecorded`): then a download or an archive
succeeds over a row that says running, and an upload does not; such rows are the only ones a
drained stop leaves running.

For `AttachStream` it proves `WrittenIsDelivered`. `EndIsBehindInput` follows the end of the
writer's side through the receiving goroutine, its channel and the status: at none of these
places is it ahead of the input (`ReceiverIsStarted` and `OneFrame` say that there is one
goroutine and one frame).

`TuiProofs` proves, for any jobs, answers and other clients:

- `FocusAlwaysFits` (`FocusFitsSection`), from `CursorFits`: the cursor is on a field of the
  form even while the focus is elsewhere, so that the focus may come back at any time;
- `DestructionConfirmed`, from `ArmedIsAnnounced`: what is armed is what was announced last,
  though keys that were ignored may have come in between;
- `SelectionIsKept` (`RefreshKeepsSelection`), from `SelectionIsKnown`; that the item at the
  new index is the item meant is an argument on cardinalities (`IndexFindsItem`);
- `TargetIsKept` (`PromptKeepsTarget`), which follows, because the keys that move the
  selection close the prompt.

`TerminalProofs` proves, for windows of every size, every parameter and any number of control
functions:

- `TerminalTypeCorrect` (`TermTypeOK`): one lemma per buffer operation (it turns a screen of
  the window's size into another), then one per group of control functions. That the cursor,
  the saved cursor and the region stay inside is what makes every cell access of the code
  one inside the buffer;
- `PrimaryIsKept` (`PrimarySurvivesAlt`), by one step per control function;
- `MarginsHoldText` (`TextStaysInMargins`), from `IndexStaysInRegion` and `TextInRegion`: a
  line feed at the bottom margin scrolls the region and leaves the other lines alone.

`ServiceConfigProofs` proves `ServiceRunsWhatWasAsked` (`ServiceRunsAsForeground`), for any
number of settings given in one place. `LoadedAsAsked` says that what systemd has loaded was made
from the flags of the last install that succeeded, with some configuration file they were valid
with then. `PortableMeansSame` is the rest, a fact about `loadConfig` and `runArgsFromConfig`: out of
portable flags every path comes absolute (`FileGivesAbsolutes`, `FlagsGiveAbsolutes`), absolute
paths mean the same in every directory (`AbsoluteStays`), and what `RunArgs` wrote out loads to
what it was made from, whatever the file says by then.

Every invariant and every action property of the passing runs is thus a theorem. Model-checked
only is the liveness: it needs fairness and ENABLED, which the proof system does not handle. Also
left to TLC are the five violations, which are counterexamples and need no proof.

## 5. Not modelled, and plan

Not modelled: encodings (protobuf, SQL columns, timestamps), TLS and the check of names
(stateless: the owner of a request is a parameter of every request), the audit log (nothing
reads it), Windows, launchd, the text of unit files, rendering and formatting, the raw mode of
the user's terminal, generated stubs, the Python SDK. In the user interface: the
running-only filter, commands that fail, and what is typed into fields.

Left for later: theorems on the safety halves of more liveness properties (as `NoWriteWaits` is
one of `CallsReturn`, and what `AttachmentIsKept` says of EOF one of `AttachmentEnds`); that
`Transfers` implements `JobHistory` for one row, but for a completion that fails; the store's
connection in `OutputPipeline`, where the append of a capture waits for the replay to another
client (`Lifecycle` has it as a lock that others hold); the composition of two streams of
`AttachStream` over one `ExecIO` (`AttachStream` has one stream whole, and of the other only
that its writer may hold the mutex).
