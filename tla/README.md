# A verification model of free-whisper

free-whisper is a local-first dictation program: a Tauri desktop host records a
short utterance, a worker process transcribes it with whisper.cpp, and the host
corrects, stores and pastes the text. This directory holds TLA+ modules of the
parts whose correctness depends on the order in which things happen (concurrent
tasks, two stores written one after the other, crashes, other applications) or
on an algorithm with awkward corners, TLC configurations that check them on small
instances, and TLAPS proofs of the safety properties for instances of any size.

Everything below is translated from the source under `src/`; documents are
quoted only where a property states what they promise. `lib.rs` without a crate
is `apps/desktop/src-tauri/src/lib.rs`.

## 1. Inventory of the system

| Component | State it keeps | Operations | Interacts with |
| --- | --- | --- | --- |
| Job state machine (`crates/domain`) | one `AppState` per job | `transition` | carried by the job in the host |
| Recording coordinator (`crates/application`) | `CapturePhase` | reserve, commit, begin/release finalization, abandon, cancel | host, under the `coordinator` mutex |
| Queue and registry (`crates/application`) | FIFO of bounded capacity, machines by job | enqueue, dequeue, register, transition | mirrored by the host, not called by it |
| Inference slot (host) | `processing`, `queued`, `processing_available` | reserve, clear, cancel token, notify | stop and cancel commands |
| Job controller (host) | `recording` plus everything above | `start_recording`, `stop_recording`, `cancel_current_job` | window, tray and hotkey call it concurrently |
| Provider clients (`crates/providers`) | local child process, start gate, capabilities | start, ask, transcribe, cancel, shutdown | controller above, worker below |
| Worker service (`apps/worker`) | one permit, cancellation tokens by request, rate window | health, models, transcribe, cancel | provider clients, engine |
| Engine adapter (`apps/worker`) | inner whisper.cpp process, start gate | ensure running, stop, restart, infer | worker handlers |
| Audio capture (`crates/audio`) | sample buffer, overflow and limit flags | start, finish, discard, callback | controller, audio thread |
| Model manager and model commands | files, partial downloads, SQLite rows, download tokens | install, cancel, activate, delete | host, network |
| Storage (`crates/storage`) | SQLite | migrations, repositories | host, one mutex |
| Lexicon (`crates/lexicon`) | pure | correction, prompt terms, import | stop command |
| Windows integration | clipboard, target window, hotkey registration | copy, paste, restore, register | host, other programs |
| Remote profiles | SQLite row, credential store, active setting | save, activate, delete | host |
| User interface (Svelte) | last sequence number, push-to-talk gesture | event filter, deferred stop or cancel | host events and commands |
| Wire protocol, test support, build scripts, legacy Python | none of their own at run time | - | - |

What is hard here:

* The three controller commands are asynchronous tasks on a multi-threaded
  runtime. Each holds a mutex only for a few lines; the capture phase, the audio
  handle, the slot and the queue entry live under four different mutexes, and a
  job crosses them over many awaits.
* A cancellation acts on what it read before it awaited the worker.
* The wait for the slot uses a `Notify` whose notification can be consumed by a
  waiter that is cancelled at the same time.
* The worker kills and restarts an engine process that requests share with
  health probes.
* Several operations touch two stores (files and SQLite, SQLite and the
  credential store, a partial download and the metadata that resumes it) one
  after the other, with failures, crashes and other commands in between.
* The clipboard, the foreground window and the hotkeys belong to Windows: other
  applications change them between any two calls of the program.
* A recording on toggle ends by itself only if a chain of a microphone callback,
  two flags, a polling timer and events of several jobs stays unbroken.
* Corrections are found in a case-folded text and applied to the raw one, where
  offsets differ.

For each component, correctness means: a resource (microphone, slot, queue
entry, child process, permit, registration, engine process) always has exactly
one task that will give it back; no job or request changes another one's state;
waiters are woken; the bounded queue is bounded; what is shown follows the legal
graph.

## 2. Modules

| Module | Models | Kind |
| --- | --- | --- |
| `JobIds` | job identifiers and `Option<JobId>` | constants |
| `JobStateMachine` | `AppState`, its legal graph, the machines; `JobMachineSpec` | component and abstract specification |
| `RecordingCoordinator` | the coordinator's six operations | component |
| `ProcessingSlot` | slot, queue entry, token, `Notify` | component |
| `BoundedPipeline` | one active and one waiting job | abstract specification |
| `DesktopJobs` | the three commands over all of these | composition |
| `LocalProvider` | the provider that starts and stops the packaged worker | component |
| `WhisperEngine` | the shared whisper.cpp process, its mutex and start gate | component |
| `Worker` | the HTTP handlers over permit, registrations and engine | composition |
| `CaptureSession` | microphone callback, buffer, live VAD, status polling, state events, the window's recording controls | composition |
| `ModelStore` | install, cancel, activate and delete over files, SQLite and the download map | composition |
| `RemoteProfiles` | remote profiles over SQLite, credential store and selection | composition |
| `TextInsertion` | copy, guarded paste and clipboard restore | composition |
| `GlobalHotkey` | message-loop threads, registration commands, exit | composition |
| `Lexicon` | lexicon edits, snapshots, prompt selection, corrections, reverts | algorithm and commands |
| `MC...` | constants and symmetry sets for TLC, one per checked module | model checking |
| `DesktopJobs_proofs` | controller: invariant, ownership, slot and wakeups, refinements, isolation | proofs |
| `Worker_proofs` | the worker and, in a part of its own, the provider that starts it | proofs |
| `CaptureSession_proofs`, `ModelStore_proofs`, `RemoteProfiles_proofs`, `TextInsertion_proofs`, `GlobalHotkey_proofs` | invariant and safety theorems of the module | proofs |
| `Lexicon_proofs` | what the algorithms compute, by induction; the invariant | proofs |

How they fit together: `DesktopJobs` contains `RecordingCoordinator`,
`ProcessingSlot` and `JobStateMachine` and implements `BoundedPipeline` and
`JobMachineSpec`. It sees a provider call as one step that may fail or be
cancelled; `LocalProvider` opens up those calls, and `Worker` with
`WhisperEngine` what happens behind them. `CaptureSession` opens up the capture
of one job, where `DesktopJobs` has one step, and adds the window; it has the rest
of the job in a few steps. `TextInsertion` begins where a job has its text.
`ModelStore`, `RemoteProfiles`, `GlobalHotkey` and `Lexicon` share no state with
the controller except what a job reads once.

### How `DesktopJobs` corresponds to the code

A job is one recording. Its two commands are program counters: `start[j]` for
`start_recording_inner`, `stop[j]` for `stop_recording_inner`; `cancel[c]` is
invocation `c` of `cancel_current_job_inner`, and `target[c]` the job it works
on. One action is one critical section of a mutex, or one awaited call, together
with the straight-line code up to the next such point. For instance
`StopTrySlot` is the block of `reserve_processing_slot` that locks `processing`,
`StopEnqueue` the one that locks `queued`, and `StopAwait` the `select!`, with
the polling order of its two branches left open as tokio leaves it. A Rust
method that returns `Err` without changing anything is the negation of a guard,
and the caller's failure branch is a disjunct of its own.

The data are abstracted to what the properties distinguish: audio is "speech",
"no speech" or "unusable" (the faults `silence` and `audio`), a transcript is
"stored" or not, and the worker is `request[j]`, the registration of the job's
request there. The `Notify` and the worker's answer are external and modelled
from their use: `notify_one` wakes one registered waiter or stores one permit,
and a registered waiter that is dropped after it was notified passes the
notification on, as tokio documents.

Poisoned mutexes are not modelled: no critical section of these commands can
panic. `Advance` moves a job's machine without asking the graph; that the graph
allows each such move, so that the `state_error` branches cannot be reached, is
a property (`JobMachineSpec`), not an assumption.

Faults are a constant. Each name in `FaultKinds` enables the error path of one
external operation at every point where the code handles it; a run names those
it wants.

### How `Worker` and `WhisperEngine` correspond to the code

A task is one invocation of a handler: a request (`transcribe`), a cancellation
(`cancel`) or a probe (`health` or `models`, which differ only in the shape of
their answer). `handler[t]` is its program counter and `step[t]` the one of the
call of `ensure_running` or `stop_and_restart` inside it, so one task's engine
call interleaves with everybody else's. `ensure_running` looks at the process,
probes and stops it once without the gate and once more under it; the steps
under the gate have names of their own (`UnderGate`).

A task starts at most one child, so a child and its loopback address are named
by the task. That a new child never gets the port of a dead one that somebody
still has in mind is part of this abstraction. `address[t]` is what
`ensure_running` returned, and stays what it was when the child is gone:
`Infer` gives a text only if that child is still alive.

`Disconnect` is hyper dropping the future of a handler at an await. What Rust
releases by a destructor is released in that step: the permit, the gate, and a
child that is not stored yet (`kill_on_drop`). What the code releases by a
statement is not: the token stays in `tokens`.

The answers carry only their kind. Authorization, which precedes everything and
changes nothing, is left out. The rate limiter is the failure `rate`, the
parsing and validation of a body the failure `body`. `CancellationToken` is a
set of cancelled requests; `Register` keeps the order of the code, in which
`insert` replaces the token before the conflict is reported.

### How `LocalProvider` corresponds to the code

A call is one method of `LocalWhisperCppProvider`: the ones that need the worker
begin with `provider()`, which looks at `started`, takes `start_gate`, looks
again, checks the files and the packaged version, spawns, waits for the handoff
line and polls the worker until it answers; `shutdown` takes the gate, takes the
child out of `started` and kills it. `started` is locked only between awaits and
`start_gate` across them, so the latter is a variable with a holder. A `Child`
that goes out of scope on an error return is killed in that step, as
`kill_on_drop` says. A client is the child it talks to: `child[c]` stays what
`provider()` returned while `c` asks, whatever becomes of the child.

### How `CaptureSession` corresponds to the code

A sample of the model is a VAD frame of 30 ms, and a packet one invocation of the
stream callback. `Deliver` is its `try_lock`: it appends, or finds the mutex held
and goes on to store the overflow flag as a step of its own (`StoreOverflow`), so
that it can be preempted in between. `buffer` is `CaptureState` with its mutex
and the flags beside it; `finish` pauses the stream, loads the error flag, loads
the overflow flag, takes the lock and analyses, each a step. The live VAD runs
with the frames (`Push`); its decision about one frame is the frame's kind.

The window is `ui`: what `App.svelte` knows (phase, last sequence number, the
polling timer, an outstanding request, a deferred stop). `emit_state` numbers an
event (`Emit`) and then sends it (`Send`), so events of two jobs may arrive in
the other order and the older one is dropped. `runtime_snapshot` takes the same
buffer lock as a poll and has the same effect on the callback. `lost` and
`raced` are histories: from which recordings a frame was dropped before the stop,
and in which the callback had not stored that yet when `finish` looked.

### How `ModelStore` corresponds to the code

A file is the sequence of its chunks, each right or wrong; only the whole and
right one has the size and hash of the manifest. A call is one invocation of
`install_model`, `activate_model` or `delete_model`; one action is one file
operation, one statement against SQLite or one locked section of the download
map, with its failure as a disjunct. The HTTP server may answer 200 or 206 to a
range request, send right or wrong chunks, stop early or send too much. A crash
keeps files and rows and drops everything else; it may leave a resume file half
written (`torn`), and so may a write that fails. A download entry whose call
returned early because the model manager could not be built is `Leaked`: it names
nobody, and only a restart removes it. `legacy` counts the staging directories an alpha version left,
which `recover_legacy_partial` adopts. Retries are unbounded; what fails and what
is deleted has a budget.

### How `RemoteProfiles` corresponds to the code

`save_remote_provider` is asynchronous: probe, look up, `write_secret`, save the
row, and perhaps activate. `activate`, `use local` and `delete` are synchronous
commands of the main thread, so one runs at a time beside the save; the start of
a recording reads the row under the database mutex and the token later. A token
is named by the worker that accepts it, so a probe accepts the pair `(w, w)` and
mixing two pairs is visible. `damaged` and `overlapped` are histories: which
profiles a fault hit between two steps, and which were saved and deleted at once.

### How `TextInsertion` corresponds to the code

An attempt is one transcript that is copied, pasted automatically, or pasted on
confirmation; the steps are the Win32 calls of `WindowsClipboard` and
`WindowsDesktop` in the order of the code: look at the foreground window, read
the old text, write the new one, read the sequence counter for the ticket, focus,
apply the policy, `SendInput`, save the outcome, wait, compare the counter,
rewrite. The counter is `unchanged[a]`: every write by anybody else clears it.
When the application handles a Ctrl+V (`Insert`) it inserts what the clipboard
then holds. `stale`, `slipped`, `hit` and `switched` record that the user or
another attempt came in between two neighbouring calls, and `revived` which
transcripts such a race has put back.

### How `GlobalHotkey` corresponds to the code

`thread[t]` is `hotkey_message_loop` on thread `t`: register, report through the
`started` channel, run until `WM_QUIT`, unregister. `cmd` is the one command on
the main thread (the registration at start-up, saving the settings, or
re-registering), step by step through `register_global_hotkey` and
`GlobalHotkey::start` with its two-second timeout; `exit` is
`request_clean_exit`, which runs beside it and holds the registration's mutex
while it joins the thread. A name in `Threads` is a Windows thread id, which is
given out again once its thread has been joined. That matters because
`Drop for GlobalHotkey` calls `shutdown` a second time, and so posts `WM_QUIT` to
the id of a thread that is gone: nearly everywhere the registration goes out of
scope right after its join, but `reregister_global_hotkey` keeps it (`cmd.late`)
until the new loop is installed, and `Drop` posts then. `struck` records which
stored registration that message reached. `owner` is Windows: a binding belongs to one thread of
one application, and another application may take a free one at any time.

### How `Lexicon` corresponds to the code

A text is a sequence of characters and an offset the number of characters before
it; `Fold` maps a character to one or more characters. `FoldedText` with its two
offset maps is `FoldedOffset`, `find_all` is `FindAll`, and the selection among
overlapping candidates is `Selected`. A loop of the code is a recursive function
of the number of its rounds (`Chosen`, `Scan`, `WithoutOverlaps`, `Built`, `Merged`),
a sort is `InOrder` with the sort key as a relation. The commands are database
transactions behind one mutex: each is a step that happens or does not.
`Corrected` is the reference definition the rendered text is compared with: it
says for each character what becomes of it.

## 3. Runs

| Run | Instance | What it shows |
| --- | --- | --- |
| `controller_faults` | 2 jobs (one local, one remote), 1 cancellation, all faults | ownership of microphone, queue entry, slot and worker child, job isolation, and both refinements; deadlock is allowed because an early return (section 4) really blocks a waiter |
| `controller_returns` | 2 jobs, 1 cancellation, unreadable Windows settings, weak fairness | one inference at a time unless a cancellation intervenes; every stop command returns, except that a recording behind a job that returned early is stranded |
| `worker_returns` | 1 request, 1 cancellation, 1 probe, all failures, weak fairness | no leaked engine process, the gate never left locked, the permit always with its request, every call that has begun is answered |
| `worker_undisturbed` | 2 requests with one id, 1 cancellation, 2 probes, a working engine, no disconnects | no request fails before some request was cancelled; registrations name requests in progress, also after a conflict |
| `provider` | 3 calls, 3 process ids, 2 failures or exits | one worker process at most, always owned; clients keep theirs; every call returns |
| `capture` | 1 recording, 2 packets of up to 2 frames, buffer of 2 frames, every frame kind and failure, VAD on and off, window and hotkey | incomplete audio is never used; silence or the limit ends the recording |
| `models` | 1 model of 2 chunks, 2 calls, 3 faults, 2 deletions | only verified files in place, only a cut-short rewrite of the metadata spoils a partial, a download entry names its working call, a retrying user succeeds |
| `profiles` | 2 profiles, 2 workers, 1 fault | selection, tested pairs and credentials stay consistent |
| `insertion` | 2 attempts, 3 processes sharing 1 handle (one elevated), 1 user action, 1 fault | what is pasted where and what the clipboard holds afterwards |
| `hotkey` | 2 bindings, 2 threads, another application, weak fairness | registrations are owned, the status is true unless a second `WM_QUIT` struck, every command returns |
| `lexicon` | every text of up to 3 of 5 characters, 5 overlapping entries, 1 profile, 3 edits | corrections exact and disjoint, reverts give the right text, prompts bounded and full |
| `auto_stop` | 2 recordings, 1 packet each, no faults, hotkey only | violation: section 4 |

Configurations beside the runs. Two check properties of the runs on instances with
one more job or thread, and pass:

| Configuration | Module | Instance | Properties |
| --- | --- | --- | --- |
| `controller_queue.cfg` | `MCDesktopJobs` | 3 local jobs, no cancellation, no faults: the third finalized recording meets a full queue | `QueueEntryHasOwner`, `WakeupNotLost`, `PipelineSpec` |
| `hotkey_threads.cfg` | `MCGlobalHotkey` | 3 threads: a rebinding beside the orphan of a timed-out start | `RegistrationHasOwner`, `StatusIsTruthful` |

The others each give a counterexample to one statement that the code's own documents,
comments or messages make; section 4 says what happens. The statement is a property
of the runs without its exception, or on an instance where it fails:

| Configuration | Module | Instance | Statement |
| --- | --- | --- | --- |
| `controller_overlap.cfg` | `MCDesktopJobs` | 2 jobs, 1 cancellation, no faults | `OneInference` |
| `controller_wakeup.cfg` | `MCDesktopJobs` | 3 local jobs, 1 cancellation, no faults | `WakeupNotLost` |
| `controller_leak.cfg` | `MCDesktopJobs` | 2 local jobs, unreadable Windows settings, weak fairness | `EveryStopReturns` |
| `worker_cancels.cfg` | `MCWorker` | 2 requests with their own ids, 1 cancellation, nothing fails | `OnlyOwnCancellation` |
| `worker_token.cfg` | `MCWorker` | 1 request whose client may disconnect | `TokenHasOwner` |
| `models_torn.cfg` | `MCModelStore` | that of `models` | `DownloadsStayResumable` |
| `models_leaked.cfg` | `MCModelStore` | that of `models` | `RefusedOnlyWhileDownloading` |
| `models_row.cfg` | `MCModelStore` | 1 model, 2 calls, no faults, 1 deletion | `CatalogIsTrue` |
| `profiles_mixed.cfg` | `MCRemoteProfiles` | 1 profile, 2 workers, no faults | `PairsAreTested` |
| `insertion_revived.cfg` | `MCTextInsertion` | 2 attempts, an idle user, no faults | `LeftoverIsTold` |
| `hotkey_reused.cfg` | `MCGlobalHotkey` | 1 binding, 2 threads | `ShownHotkeyWorks` |

Bounds. *Controller*: a job goes through the controller once, so the number of
jobs bounds the behaviours; there are no counters. Two jobs are the least that
contend for microphone, slot and queue, and with them every fault and a
cancellation are explored. A third job is what it takes to meet a full queue with
another job in it (`controller_queue.cfg`) or to come behind a cancelled waiter
(`controller_wakeup.cfg`); the safety properties are proved for any number of jobs.
`StopReturns` for three jobs without cancellations also holds, but TLC takes long
for it. One cancellation meets every command at every point; that overlapping
cancellations keep the invariants is proved (section 5). *Worker*: two requests
contend for the permit, and any two tasks for gate and engine. *Provider*: three
calls are one that starts, one that waits behind it and a shutdown; ids of dead
children are used again, so their number bounds only how many live at once.
*Models*: two chunks make partial, complete, wrong and whole files, two calls the
overlaps; the third fault is what it takes to fail, crash and be cancelled in one
behaviour. The installs of different models share nothing but the map and the
client. *Profiles*: one fault between any two steps, and two workers, because one
cannot be mixed with anything. *Insertion*: two attempts and one action of the
user, since every exception in the properties names one event. *Hotkey*: the old
thread and the new one, or one of them and the orphan of a timed-out start; thread
ids are used again. `hotkey_threads.cfg` has all three.
*Lexicon*: three characters hold two overlapping matches, a character that folds
to two, and a space. *Capture*: the buffer is as long as the end of silence plus
one frame, so both limits are met, and a packet may fit in part.

Fairness. The controller's `FairSpec` assumes weak fairness of each command's
next step: the runtime polls every ready task, a mutex is held only for a few
lines, and every awaited operation has a deadline or is bounded (HTTP timeouts,
the start-up timeout of the child, `kill`). Nobody is obliged to press stop or
cancel: `StopBegin` and `CancelBegin` are outside the fair steps. The wait for the slot
gets no fairness of its own, its progress follows from the releases. In the
worker every handler that has begun is polled until it answers: the engine's
mutexes are fair, a probe has 250 ms, a start the start-up timeout and an
inference the client's ten minutes; no request has to be sent. `LocalProvider`
adds strong fairness of `Lock`, because a tokio mutex is granted in the order of
the requests and a waiter is not overtaken for ever. In `ModelStore` calls
progress (connect and total timeouts of the HTTP client), and strong fairness of
`InstallClaim` is the user who tries again as long as the model is missing: the
property is about what a retry can still achieve. In `GlobalHotkey` threads, the
main thread and the exit run; in `CaptureSession` tasks run, the window handles
what arrives and its timer fires, and a callback that has failed to lock stores
its flag. Neither the device, nor the user, nor another application has to do
anything anywhere. `Lexicon`, `RemoteProfiles` and `TextInsertion` state no
liveness.

Deadlock is allowed where the system may stop: when every recording is over
(`CaptureSession`), the process has ended (`GlobalHotkey`), the budgets are used
up (`TextInsertion`, `Lexicon`, `ModelStore`) or a waiter is blocked
(`controller_faults`, `controller_returns`).

Mutants. Next to a modelled definition there may be a mutated form of it, marked
`Mutant` and not used by any specification: the definition with one plausible
mistake. For every property of every passing run there is one that makes TLC
report it, so none of the properties holds by the shape of the model alone.

## 4. Where the code differs from what it says

*Silence does not always end the recording* (run `auto_stop`, `App.svelte:111`).
`onStateChange` stops the status polling at a terminal state without looking at
the event's job. While job 1 is transcribed the hotkey starts job 2; the
`completed` event of job 1 then stops the polling that job 2 needs, and nothing
starts it again. Job 2 records on until the user stops it, and at the limit its
audio is refused as a whole. `docs/adr/0007-audio-vad.md:10` says that a toggle
recording "must end on actual silence".

Each of the following is the counterexample of a configuration beside the runs
(section 3); the property of the runs says, where there is one, that nothing worse
happens.

*The next job transcribes beside a cancelled one* (`controller_overlap.cfg`,
`lib.rs:1661`). A cancellation clears the slot of a job whose stop command is still
running. If its request is not registered at the worker yet, there is nothing to
cancel there; the next job takes the slot and both are computed.
`docs/architecture.md:30` "permits one active inference". `OneRunningJob`, which
holds, excepts exactly the jobs a cancellation is aimed at.

*Lost wakeup* (`controller_wakeup.cfg`, `lib.rs:3231`). A cancelled waiter that was
woken through the notification returns without handing it on. A job that read the
slot as busy before the release and enters the queue after the cancelled one has
left it sleeps next to a free slot, against the comment at `lib.rs:3190`.

*Slot leak* (`controller_leak.cfg`, `lib.rs:1427`). Two early returns between the
corrections and the save leave the slot taken and the waiting recording asleep,
although `docs/architecture.md:32` has waiters notified. `StopReturns`, which
holds on its instance, says that this and the lost wakeup are the only ways in which
a recording is left waiting (`Stranded`).

*Cancellation hits another request* (`worker_cancels.cfg`, worker `lib.rs:270`).
The engine's `cancel` ignores the request id and restarts the child. The token is
cloned under the map's lock but cancelled after it, so the request may have
answered by then, and the restart hits the next one;
`docs/planning/v2-implementation.md:24` says that "one job cannot change another
job's state".

*Stale registration* (`worker_token.cfg`, worker `lib.rs:227`). A dropped handler
never unregisters: a repetition under the same id is refused for ever, and a
cancellation of it restarts the engine instead of being told "no active
transcription has this request id" (worker `lib.rs:266`).

*A partial download that nothing resumes* (`models_torn.cfg`,
`model-manager/src/lib.rs:730`). The metadata beside a partial is overwritten in
place. Cut short by a failure or a crash it does not parse, and every later
install ends with `InvalidResume`; `docs/model-manifest.md:18-21` promises that
downloads remain resumable. `PartialIsResumable`, which holds, says that this is
the only step that spoils a partial.

*An install that refuses all others* (`models_leaked.cfg`, `lib.rs:796`). If the
model manager cannot be built, the download entry stays, and every later install
is told that "this model is already downloading" (`lib.rs:789`) until a restart.

*A row without its file* (`models_row.cfg`, `lib.rs:894`). A deletion does not look
at the download map. It may remove file and row between the moment an install has
its file in place and the moment it saves its row, and the catalogue then shows a
model that is not there. `InstallRecovers` says that another install repairs it.

*Endpoint and token of two workers* (`profiles_mixed.cfg`, `lib.rs:2914`). A save
overwrites the token before the row, and the start of a recording reads the row
and then the token: it may send the new token to the old endpoint, a pair no test
has accepted (`docs/desktop-command-contract.md:31`).

*A transcript comes back unannounced* (`insertion_revived.cfg`,
`platform-windows/src/native.rs:86`). A second paste reads the clipboard as its
backup while the first transcript is in it, and writes its own text after the
first restore. Its counter does not move again, so its restore puts the first
transcript back; both are recorded as restored, although `docs/privacy.md:19-21`
has every race recorded as a warning. `LeftoverIsExplained`, which holds, excepts
exactly such a revived transcript.

*A registered hotkey that is dead* (`hotkey_reused.cfg`, `lib.rs:2791`).
`reregister_global_hotkey` keeps the old registration until it returns, and
dropping it posts `WM_QUIT` a second time (`native.rs:241-245`) to a thread id
that the new message loop may have been given. The loop ends, the status stays
"registered"; `docs/desktop-command-contract.md:20` has it report the status.

One more was met and has no configuration: *the result is not final* (`lib.rs:1660`).
Cancellation and stop show states for the same job independently, so `Failed` may
be followed by working states. The controller's model has the machines and not the
events a window is shown, and no document promises their order.

Smaller observations, which the exceptions in the properties name:

* Models (`NeedsHelp`): a complete partial with the wrong hash, the empty directory
  of an interrupted deletion and two legacy staging directories are, like a torn
  resume file, errors that no retry gets past. A reinstallation of the active model
  leaves it inactive.
* Profiles: a save that overlaps a deletion of the same profile can leave a
  credential without a row; a selected profile that is disabled refuses every
  recording.
* Insertion: the paste happens before the transcript row knows its outcome, and a
  failed save drops the restore ticket. Any copy overwrites a clipboard that is not
  text, which `docs/privacy.md:21` denies without naming the copy.
* Hotkey: a start that gives up after two seconds leaves a registration nobody
  knows until its keys are pressed (`Orphan`).
* Lexicon: disabling the active profile leaves it active. `match_indices` reports
  matches that do not overlap, so a match off a word boundary can hide one on it.
* Capture: contention of a poll with the callback, or reaching the limit, loses
  the whole recording, as ADR 0007 wants. A callback preempted between its
  `try_lock` and its store can still be missed by `finish` (`raced`).

## 5. Proofs

All are for any value of the constants, under the named assumptions, which TLC
evaluates on every run. No safety invariant of interest is inductive alone; each
module has its strengthening `IInv` (TLC has checked each as an invariant), the
proof module shows `Init => IInv` and `IInv /\ [Next]_vars => IInv'` by one lemma
per part of the invariant with one case per action, and the theorems follow. Every
invariant and action property that the runs check is also a theorem; three of
them carry a hypothesis, which is named with the theorem and without which the
statement is false.

`DesktopJobs_proofs` proves, for any sets of jobs and cancellations, any split
into local and remote jobs and any set of faults, that `Spec` implies the
invariants `TypeOK`, `HandleFollowsCapture`, `MicrophoneHasOwner`,
`QueueEntryHasOwner`, `SlotHasOwner` and `SidecarHasOwner`. Assumptions:
`NoJobAssumption`, `LocalJobsAssumption`, `FaultsAssumption`. `IInv` adds
`CommandOrder` (a stop exists only for a committed start; only a start that still
prepares owns a preparing slot), `OneTaker` (two cancellations never take the
same handle: the coordinator is freed before the handle is taken, and a second
job cannot commit while the old handle is there), `TargetIsJob` and
`MachineFollowsCommands` (where the local machine of a job is for each program
counter).

The second part is about the inference slot and its `Notify`. `SlotInv` says that
a job from taking the slot to releasing it owns it unless a cancellation is aimed
at it (`SlotKept`), that a worker computes only while the stop command waits
(`RequestHasTask`), that the registered waiters are the parked jobs and a stored
permit leaves none of them without a notification (`WaitersAreParked`), and that a
free slot somebody waits for is owed a wakeup: a permit, a notification, a
`notify_one` under way or a job that will try again (`WakeupOwed`). It gives
`OneRunning` (`OneRunningJob`, no hypothesis) and `NoLostWakeup`: `WakeupNotLost`
*as long as no waiting job has been cancelled*. The hypothesis is needed from three
jobs on, where `controller_wakeup.cfg` violates the statement.

The third part uses both invariants for theorems about steps: `MachinesAreLegal`
(`Spec => JobMachineSpec`), `PipelineIsBounded` (`Spec => PipelineSpec`, with the
mapping in which a job that owns the slot has already left the queue) and
`NoForeignChange` (`Spec => JobsKeepToThemselves`).

`Worker_proofs` proves `TypeOK`, `EngineHasOwner`, `GateHasOwner` and
`PermitHasOwner` for any numbers of requests, cancellations and probes, any ids
and any failures. Assumptions: `NoTaskAssumption`, `TasksAssumption`,
`IdAssumption`. `EngineHasOwner` is not inductive: the process is looked at and
stopped outside the gate, too, so the invariant needs `StartsAlone` (while a call
is between its second look and its start, the process is the one it has seen or
none). `TypeOK` needs `TokenFound`: a cancellation that goes on holds a token.
One lemma covers every step of an engine call; the worker's actions are then
shown to do one such step or none.

Two more theorems are about what requests do to each other. `TokenOwnership` is
`TokenHasOwner` *if no handler is dropped*; behind it stands `TokenInv` without
that hypothesis: a token belongs to a registered request or to one whose client
went away, and no two requests with one id are ever registered together
(`OneRegistered`). The permit alone does not give this, because it is released
before the id is; what does is that `insert` replaces a token only under a request
that is then refused while the first one is still there to remove it.
`OthersAreUndisturbed` is `FailsOnlyAfterCancellation` *while the engine works*:
until some request is cancelled, whatever requests and probes overlap and whichever
clients disconnect, nothing stops the child that somebody uses (`EngineSteady`),
although the first stop is outside the gate. Both hypotheses are those of the run
`worker_undisturbed` or weaker: disconnects are allowed in the second.

Its last part proves `ChildHasOwner`, `OneChild` and `ClientKeepsWorker` of
`LocalProvider` for any calls, children and budget (`ProviderAssumption`). `ChildHasOwner` needs
that the gate is held exactly inside it (`StartGateHasOwner`), that nothing is
stored while a call starts or kills a child (`NothingStored`, the point of the
second look), and that nobody else knows a child that is being started
(`ChildIsOwn`). `OneChild` follows: two living children would be two owners under
the gate.

`ModelStore_proofs` proves `InstalledIsVerified`, `PartialIsResumable`,
`DownloadHasOwner` and `RowHasModel` for any models, calls, chunk count and
budgets (`StoreAssumption`). What a call does rests on what an earlier step of it
has seen, so the invariant carries what is still true of it: `StepFacts` per
program counter (a file that is being placed is verified, and so on) and
`OffsetIsLength` (what is appended goes where the partial ends). That no other
call interferes is `DownloadHasOwner`: the set of calls at work on a model's files is
the one its entry names, or empty. `PartialIsResumable` is an action property; behind
it stand that a call past `resume_offset` has found or written metadata that fits
(part of `StepFacts`), that no partial is without metadata (`PartialHasMetadata`)
and that nothing touches the legacy directories before their recovery
(`LegacyIsUntouched`, `PastRecovery`). The deletions, which do not look at the
download map, are why `RowHasModel` stops at the first of them.

`RemoteProfiles_proofs` proves `ActiveIsUsable`, `TestedPairIsUsed` and
`SecretHasProfile` for any profiles, workers and budget (`ProfilesAssumption`).
The strengthening says which step of which command explains each disagreement
between row, credential and selection: `PairMatches` and `SaveKnows` for the two
writes of a save, `SelectionUsable` and `SecretExplained` for the order in which a
deletion takes credential, row and selection, `RecordedPairMatches` for what a
recording has read, `OverlapNoted` for the history.

`CaptureSession_proofs` proves `CaptureIsComplete` for any jobs, packets, buffer
length, modes and faults (`CaptureAssumption`). The invariant follows the trace a
dropped frame leaves: until `finish` has looked, one of limit flag, overflow flag
and a callback about to store it (`Visible`); after the overflow flag was read, the
limit flag under the lock or the recorded race (`LossIsKnown`). That these traces
are of the right recording is `OneCapture`: the microphone belongs to one job, and
the phase says how far that job is. The window, the events and the polling touch
none of it except through a lock, which `StepsOfRecording` states once: every step
of the whole system is one of the recording's steps or leaves the recording alone.

`TextInsertion_proofs` proves the four properties of the insertion for any
attempts, windows, processes and user texts (`InsertionAssumption`). The action
properties rest on what an attempt knows at each program counter: while its
counter has not moved the clipboard holds its text (`CounterIsSound`), the text is
there until the keys are handled (`TextWaits`), the target that was allowed is in
front (`TargetInFront`), the backup is what the copy will replace
(`BackupIsCurrent`); each up to the race that a history variable records.
`LeftoverIsExplained` is about the attempt whose transcript is left. A transcript in
the clipboard is known (`TranscriptIsKnown`): its attempt has not ended, or the user
was told of it, or a raced restore put it back. That needs the same of a transcript
another attempt holds as its backup, unless that restore will not come because its
counter has moved (`Doomed`) or has raced (`BackupIsKnown`); and that nobody can
have a text in hand before it was copied (`CopiedFirst`).

`GlobalHotkey_proofs` proves `RegistrationHasOwner` and `StatusIsTruthful` for any
bindings and threads (`HotkeyAssumption`). The invariant has the agreement of
Windows with the message loops (`RegistrationsMatch`), which threads a command has
in hand at each point and in which condition (`CommandShape`, `PreviousWorks`,
`NextWorks`, the stored registration in `HotkeyWorks`; each `LiveUnlessStruck`), who listens to a starting thread (`ListenerIsStarter`), that the exit
joins a thread nobody else has (`ExitIsAlone`), and that every other loop is the
orphan of a timed-out start (`LoopsAreKnown`).

`Lexicon_proofs` proves `CorrectionsAreExact`, `FinalTextMatches` and
`PromptIsBounded` for any alphabet, case folding, length of texts, entries, limits
and edits (`LexiconAssumption`: the folding of a character, a variant and a
canonical text are never empty, and ids are unique). What the loops of the code
compute is a matter of induction over the data. The induction theorems of the
library take an operator, which the provers cannot instantiate; but `WFMin`,
that a well-founded relation has a minimal element in every set, takes only sets, so
`SetInduction` derives induction for a *set* of naturals from it, `RecursionExists`
the equations of a recursive function, and each loop invariant is such a set.

* Sorting: the modules have no comparison sort, `InOrder` puts each element at its
  rank. `InOrderSorts`: in a strict total order the ranks are 0 to n - 1, every
  element is listed once, and positions follow the order. That the sort keys of the
  code are total on what they sort is shown for each (`CandidateOrderIsTotal`); for
  stored corrections it holds because they do not overlap.
* The prompt: `ChosenWell` is the loop invariant. A term that was passed over would
  still not fit at the end because the sum only grows (`ConsiderIsRight`).
* Matching: folding a text is folding its parts (`FoldTextSplits`), so a match of
  the folded text that begins and ends with a character is the folding of that
  range (`FoundTextFolds`). `CandidatesAreRight` adds the word boundaries.
* Corrections: a candidate that begins behind the cursor overlaps nothing chosen
  (`OverlapsAreLeftOut`). `ReplaceCorrects`: the loop with its cursor gives the text
  that `Corrected` defines character by character, by induction over the list and,
  for one correction, over its characters. With that `RenderIsRight` shows that
  `render_corrections` accepts every set of such corrections and renders it, so
  neither a save nor a revert is ever refused; `SomeAreRight` is the revert.

The invariant `LexiconInv /\ JobInv` (in this module, TLC has checked it on the
instance of the run) then only says that entries are finitely many, that the job
has a snapshot of valid entries in scope, and that its corrections are right.

Only model-checked: the liveness properties (`StopReturns`, `CallsReturn`,
`ProviderReturns`, `InstallRecovers`, `CommandsReturn`, `SilenceEndsRecording`),
which rest on fairness. `WakeupNotLost` after a waiter was cancelled (true with two
jobs, false with three). Outside their hypotheses `TokenHasOwner` and
`FailsOnlyAfterCancellation` fail, the first under `worker_token.cfg`. That a
correction's rule is in the snapshot of its job is proved as part of
`CorrectionsAreExact`.

## 6. Not modelled, and what is left

Not modelled, and why:

* Signal processing (resampling, down-mixing, the VAD's decision), signature
  checks, CSV and JSON documents, request encoding, SQL statements and
  migrations: conversions without state, or the business of a library.
* Rendering, settings pages and push-to-talk gestures of the window. Of the
  window's races, a repaint from an older snapshot and an event that overtakes a
  poll's answer are not in `CaptureSession`; they change what is shown until the
  next refresh, not what is recorded.
* The worker's rate limiter with its clock: one comparison over one deque, kept
  as a refusal at any time. `RemoteWorkerProvider`: HTTP requests without state.
* A VAD rate the live detector does not know (`"late"` in `VadModes`) is modelled
  but in no run: then nothing reports silence, and only the limit ends a
  recording.
* That a request behind `DesktopJobs`' provider step is a request of `Worker`, as
  a refinement: the two share only the request's outcome.
* The legacy Python application, build scripts and test support.

Left to do: that refinement, with the request's outcome as the mapping; a proof that
the wakeup of `controller_wakeup.cfg` is the only one that can get lost.
