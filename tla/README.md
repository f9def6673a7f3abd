# VulnoraIQ: TLA+ specification, model checking and proofs

This directory specifies VulnoraIQ, the LLM/agent assessment framework in this
repository: on the server, how a scan is admitted, queued, run, stopped, recorded
and watched, and how projects, containers, agents and targets come and go; in the
browser, how the console asks for all that and shows what came of it. Paths below
are relative to the repository root; the console's are under
`webui/console/src/` where only a `.tsx` or `lib/` name is given.

* `*.tla` specifications, `MC*.tla` their instances for TLC, `*.cfg` the runs,
  `*Proofs.tla` the TLAPS proofs.
* Check a run with `tlc -config slot_gate.cfg MCSlotGate.tla`, a proof with
  `tlapm SlotGateProofs.tla`.
* `PROJECT.json` is the index: components, runs, the source lines each
  definition stands for, findings, hazards, theorems, and for every checked
  property a mutant of the code that breaks it.

## 1. The system and its parts

One Python process (`webui/hosted_server.py`, a threading HTTP server) serves a
React console. Every request runs on a thread of its own, every scan on one
more. They share the process-wide state below, a SQLite (or JSON) job store, a
few files and the Docker daemon.

| Component | State it keeps | Operations | Hard behaviour | What makes it correct |
|---|---|---|---|---|
| Scan state machine, `core/scan_state.py` | status and transition rows of a run | `transition`, `is_terminal` | several threads move one run | rows are a legal history ending at the status; an ended run never changes |
| Admission and slot gate, `webui/hosted_server.py:172-195, 856-868` | `_active_scans`, `_queued_scans`, a `Condition` | capacity check, enqueue, `_acquire_scan_slot`, `_release_scan_slot` | check and enqueue are separate critical sections; `notify()` may be spent on a thread that timed out; threads that never start | slot bound, every seat accounted for, no lost wakeup, documented queue limit |
| Scan runner, `run_scan_job`, `core/real_scan.py`, `integrations/target_adapters.py` | worker thread's place, its token, the report files | claim, validate, send payloads, analyse, report, finish; except and finally clauses | a stop, the budget, an exception or a crash at any point; retries | traffic only with a slot and a running record; at most one late request; every run ends |
| Cancellation, `core/cancellation.py`, `_handle_scan_cancel` | token registry | create, adopt, cancel, discard | the handler acts on a status read earlier; the token may not exist yet or any more | a timely stop is heeded; a run that is over sends nothing |
| Job store, `webui/persistent_jobs.py` | jobs, events, transitions, findings and their history | create, get, list, update, reconcile, update_finding | one shared connection, one unlocked writer; exception in the middle of an update; crash during the JSON rewrite | updates are atomic and none is lost |
| Event stream, `_send_events`, `webui/console/src/App.tsx` | cursor, socket, EventSource | stream loop, reconnect with `Last-Event-ID` | two reads of a record that changes; lost connections, deadlines, restarts | no event lost, repeated or reordered; the end is always learnt |
| Findings triage | remediation state, history | PATCH finding | concurrent patches | history chains, no patch lost |
| Runtime targets, `core/runtime_targets.py` | one YAML file | register, delete | unlocked read-modify-write from several threads | a target points where something answered for it |
| Agent Lab and Agent host, `webui/agent_lab.py`, `agent_host.py`, `docker_cli.py` | imported projects, deployments, containers, templates, targets | import, analyse, deploy, stop, start, remove | a redeploy or removal half done; two deploys sharing a container name; Docker refusing | no dead target, no running container without a record (but for failures and races that section 5 names), agents and their targets come and go together |
| Web security, `webui/web_security.py` | rate-limit windows, CSRF tokens | allow, issue, validate, clean up | window edge, token expiring between fetch and use | at most N per window; an expired token fails no call and repeats none |
| Console shell, `App.tsx`, `HeaderBar.tsx`, `lib/findings.ts`, `lib/severity.ts`, `lib/scanState.ts` | active scan, findings, selection, scanning and cancelling flags, stream, offered targets | start, stop, follow, load saved findings, review | answers that are late, lost or for an earlier scan; handlers that go on with what they captured | a scan that ended without results never reads as clean; findings belong to the active scan; Stop stays reachable |
| Console workspace, `AnalysisWorkspace.tsx`, `TriageControl.tsx`, `RawEvidencePanel.tsx`, `LiveCveLookupCard.tsx`, `AskVulnoraIQChat.tsx` | what each panel shows and asks about the selected finding | explain, look up, review, open evidence, ask | effects and answers while another finding is selected | every panel is about the finding shown; a decision carries its own reason |
| Console targets view, `TargetsManager.tsx` | list, draft, Docker's URLs | pick, add, edit, save, test, delete, scan | reloads that replace the draft, a URL shown from one place and saved from another | what is saved is what is shown, and of this target; edits survive answers |
| Console projects and agents views, `ProjectImporter.tsx`, `AgentHost.tsx` | selection, analysis, form, busy flags, logs, templates | import, analyse, deploy, remove, logs | two answers in the other order; a view left while its request is out | nothing typed for one project or provider reaches another |
| Console HTTP client, `lib/api.ts` | cached CSRF token | GET, POST, PATCH with one retry | token expired or forgotten by a restart, answers lost | a change is made as often as its answer says |
| Authentication and permissions, `webui/auth.py` | principals, session rules | authenticate, authorise, start-up gate | roles against routes | no route without its permission |
| Assistant, `webui/assistant*.py` | model file, loaded model, generation lock | download, load, chat | concurrent first chats, interrupted download | one load, one generation at a time, no half file loaded |
| Tool requests, policy and exceptions, `core/tool_request.py`, `policy_engine.py`, `exception_registry.py` | none (pure) | validate, authorise, evaluate | order of the checks, expiry boundaries | fail closed |
| Target configuration, `target_adapters.py`, `config_validation.py` | none (pure) | URL and allowlist decision | composition of several opt-ins | fail closed |
| Scoring, results, trends, `core/risk_scoring.py`, `results_engine.py`, `finding_trends.py` | none (pure) | score, carry forward | boundaries, gaps in the series | equals a reference definition |
| Evaluators, reports, harnesses, evidence index, process boundary, scripts | data and files | | | not modelled, see section 7 |

Interactions: the POST handler writes the store, registers a token, joins the
queue and starts a worker; the worker passes the gate, writes the store and
sends requests; the cancel handler reads the store, sets a token and may write
the store; stream threads read the store; at start-up `reconcile_interrupted`
fails whatever a dead process left; the console reads, streams and posts. The
Agent Lab and agent host handlers run docker commands, edit the registry file and
(Agent Lab) a file of deployment records, none of them under a lock; every change
of the registry is reported to the shell, which reloads the targets its header
offers for the next scan.

## 2. The modules

| Module | Models | State and code |
|---|---|---|
| `ScanState` | `core/scan_state.py` | the transition table as a function, `MayMove` is "transition() does not raise" |
| `SlotGate` | admission check, queue and slots | `activeScans` = `_active_scans`, `queuedScans` = `_queued_scans`, `waiters` = the condition's wait set, `gate[j]` = how far job j's handler and thread have come |
| `RunRecord` | what the stored record promises, whoever writes it (abstract) | `status`, `transitions`, `reports`, and the history variable `traffic` |
| `ScanRunner` | a scan from POST to its last write | the variables of `SlotGate` and `RunRecord`, the `token` registry, and where the POST handler (`post`), the worker (`run`) and each operator's cancel handler (`cancel`) are; `up` is the process |
| `EventStream` | `_send_events` and the console's EventSource | `rows` = the events table, `conn` = the server's loop, `wire` = the socket, `client` and `seen` = the browser |
| `JobStore` | `update` and `update_finding` of `SqliteJobStore`, statement by statement | `view` = what the shared connection sees, `durable` = what is committed, `lock` = `_lock`, `updater` and `triager` = each thread's next statement |
| `RuntimeTargets` | `core/runtime_targets.py` | `targets` = the file, `staleWrite` remembers that a change was written over a newer file |
| `AgentLab` | the handlers of `agent_lab.py` and `agent_host.py` | `imported`, `templates`, `container`, `records` = the deployment records, and `call` = the requests that are open: each one's place in its handler, what it read, and its continuation in the console |
| `ProjectImporter`, `AgentHost` | the Projects and the Agents view | `importer`, `host` = the components' React state |
| `LabConsole` | the shell with these two views over `AgentLab` | `view`, `offers`, `scanTarget` |
| `MutationCall` | what a change promises the component that asks for it (abstract) | `status` and `effects` of each call |
| `CsrfClient` | `lib/api.ts` against `CsrfTokenStore` | `cached` = the client's copy, `permitted`, and in `call` each call's token, attempt and number of times it was carried out |
| `FindingViews` | the rules of `lib/findings.ts`, `lib/severity.ts`, `lib/scanState.ts` | operators |
| `ScanConsole` | the shell's scan and findings, `App.tsx` | `app` = its React state, `runs` and `reviews` = the server's scans and reviews |
| `FindingPanels` | the workspace's panels | `panels`, with what each effect last ran for |
| `TargetsManager` | the Targets view over the registry | `manager`, and `targets` of `RuntimeTargets` |
| `Console` | the shell with the workspace and the Targets view | all of these |
| `SlotGateProofs`, `RunRecordProofs`, `JobStoreProofs` | theorems about the module each is named after | section 6 |
| `ScanRunnerProofs` | theorems about the runner; instantiates the two proof modules of what it implements | section 6 |
| `EventStreamProofs` | theorems about the stream | section 6 |
| `LabConsoleTypes`, `LabConsoleProofs` | the route of every kind of request and the types; then the promises of the views and of the server | section 6 |
| `ConsoleProofs` | theorems about `Console`: types and routes of its calls, the client's promise, the shell, the panels, the Targets view, the counts | section 6 |

`ScanRunner` composes: `Gate == INSTANCE SlotGate` gives it the gate's actions
and `Record == INSTANCE RunRecord` the promises; `GateKept == Gate!Spec` and
`RecordKept == Record!Spec` say it implements both (each step of the runner is
a step or a stutter of the gate and of the record). `CsrfClient` implements
`MutationCall` in the same way: `Promise == INSTANCE MutationCall WITH ...` counts,
for each call, how often the server carried it out, and `PromiseKept ==
Promise!Spec` says that a call that succeeds was carried out once, one that fails at
most once and one that is refused never, with the token fetched, cached, lapsing
and fetched again in between. `LabConsole` and `Console` compose the views, which
extend the server part they talk to and share its `call`.

Reading the actions:

* A step of a thread ends where others get in: a call on the store or the token
  registry (each under its own lock), a critical section of the gate, a request
  to a target. So the cancel handler is three steps (read the status, set the
  token, record the end), and the POST handler six.
* `Condition.wait` is modelled as Python does it: `notify()` takes a thread off
  the wait set at once; a thread whose wait timed out stays listed until it has
  the lock again, so a notification can be spent on it. Any listed thread may be
  chosen: Python's documentation promises no order.
* The budget and every wait are clocks. Expiry is a choice at the places the
  code looks at the clock (`raise_if_stopped`, `remaining <= 0`, the stream's
  deadline).
* A scan is reduced to its checks and requests: some number of payloads, a check
  before each, attempts per request, a last check after the scan. Fixture targets
  and the offline profile send nothing; that is the choice of 0 payloads.
* A crash erases what is process-local (sets, threads, tokens) and keeps the
  store. `Reconcile` and `Serve` are the start-up.
* The browser is one thread. A handler of a component runs to its first `await`
  when its control is used and goes on with each answer; each such piece is one
  action, whose guard is the control being enabled or the answer being there. What
  the JavaScript closure captured is in the call's record (`saw`, `form`, `of`),
  what it reads through a setter's function is the state of the moment. A call of a
  view that was left goes on with `live` FALSE and sets no state.
* React runs effects after a render and before the next event: `Operate` waits for
  `Settled`, answers wait for `Rendered`.
* On the server, a handler of the lab lets others in between two docker commands
  and between two accesses of a file; a change of the registry, or of the deployment
  records, is two steps, read and write, of which the second may raise (`FileFails`). In `Console`, which has only the Targets view's changes, it is one.
* Data of the console is told apart by its origin only: a field of a form by the
  project it was filled in for, a URL by where it came from and which target it is
  of (`Typed(t)`, `Published(t)`, `Scaffold`), an answer by what it is about.
* A GET is one step: its answer is what the server holds when it is taken. Reads of
  the Agents and Projects views keep what they read in `copy` where the answer can
  be overtaken by a change (`TargetsServed`, `TargetsLoaded`).
* There is no clock. A CSRF token is told by whether the server would take it now;
  it lapses only while a request carrying it is under way (`Lapse`), and the copy's
  own time limit is the choice of starting without one.
* A fault (`MaxFaults`) is anything the code does not do itself: a command, request
  or image that fails, an answer lost after the change was made, a lapse of the
  token, a role that may not change anything.
* A worker's body may raise at every call on the store or a report generator
  (`BodyRaises`); `TerminalWriteRaises` is the write of the outcome itself
  failing, and `stranded` remembers the jobs whose record it leaves behind.

## 3. Runs

| Run | Instance | Shows |
|---|---|---|
| `slot_gate` | 5 jobs, 2 slots, queue limit 4, symmetric | slot bound, accounting of seats (those of threads that never started among them), no lost wakeup |
| `scan_runner` | 2 jobs, 1 slot, 1 operator, 2 payloads, storage faults, crashes | the gate and the record are implemented; at most one late request; a timely stop is heeded; traffic holds a slot; no orphaned run |
| `scan_runner_live` | 2 jobs, 1 slot, 1 operator, 1 payload, storage faults, crashes | every admitted run ends and gives its slot back, also when the write of its outcome raises |
| `event_stream` | 2 jobs, 1 reader, 4 rows plus the final ones, 2 faults | nothing lost or repeated, `done` after the end, the console learns the end |
| `job_store` | 2 updating and 2 triaging threads, 4 calls, 2 fields, statements that raise, crashes, symmetric | answered writes are committed and survive; a record is half written only when a raise or a triage commit falls into an update |
| `lab_console` | 2 projects, 2 agents of one image (one of them a custom one), 2 ports, 2 providers, 2 open requests, 3 gestures, 1 fault, symmetric | targets reach what they were registered for; a running container can be removed, but for the exceptions of section 5; agents and targets come and go together; views, forms, spinners and the header's offers agree with the selection and the server |
| `console` | 2 findings, 2 scans, 2 targets and a new one, 3 open calls, 3 gestures, 1 fault, symmetric | no failed scan reads as clean; findings, panels and decisions belong to what is shown; Stop stays reachable; saves and edits in the Targets view; counts agree; `CsrfClient` implements `MutationCall` |
| `queue_limit` (violation) | 3 jobs, limit 2 | finding 1 |
| `retry_stop` (violation) | 1 job, 2 attempts | finding 2 |
| `late_stop` (violation) | 1 job | finding 3 |
| `stale_cancel` (violation) | 1 job, 1 operator | finding 4 |
| `triage_lost` (violation) | 2 triaging threads, 2 calls | finding 5 |

Why the bounds are enough. Five jobs at two slots and limit four gives two
holders, two or three waiters and one arrival at the same time: a waiter that
timed out, one that was notified and a newcomer that barges in can all be awake
for one slot. With two jobs and one slot, one worker runs while the other is
admitted, waits, is cancelled in the queue, and takes over; two payloads put a
whole check/send/answer round before and after a stop. One operator can press
Stop repeatedly and on both jobs, and a second one adds no write the first
cannot make (`status` and `token` are the only things a handler touches). In
`event_stream` the second job's rows take ids between the first one's, and two
faults allow a lost connection after a reconnect and a restart after a lost
connection. In `job_store` two threads of each kind and four calls let an update
run between any two statements of a triage patch and the other way round, with a
raise or a crash between any two statements of both.

In `lab_console` two requests at once are two deploys of one project, a deploy and a
removal, two reads whose answers cross, or a request of a view that was left and
one of the view that was opened; three gestures are enough to start, go elsewhere
and act there; one fault is a docker command or the write of a file that fails in any of them. Two agents
of one image are the case in which the removal of one takes the other's target, two
target types the one in which a removal leaves a target behind. In `console` three
calls are an effect's request, one of the operator and a follow-up; two scans are
one before and one that is started; the second finding is the other one to be
selected, with a severity the console does not know and a score above the scale.
The initial states are scenes from the middle of a session, all reachable in a
longer one: the console being opened over no scan, a running one or one that ended;
the workspace over a completed scan, a decision possibly half entered; the Targets
view over two ended scans; the Projects view over any imported projects, at most one
deployed (on another port than the preferred one when there is no other project), with the
deployment shown; the Agents view over one deployed project with the templates' agents at work.
Opening the console, and what led to the half entered decision, count as a gesture.
That the exceptions of section 5 are enough for longer sessions too is what the
theorems of section 6 say: they hold for any number of gestures, faults and open
calls. Random simulation (TLC's `-simulate`, 14 gestures, some ten million states) had
not been enough to tell: section 6 describes what it missed.

Bounds in guards: `MaxPayloads`, `Attempts` (`ScanRunner`), `MaxRows`,
`MaxBatch`, `MaxFaults` (`EventStream`), `MaxOps` (`JobStore`),
`Slots`, `MaxFaults` and `MaxGestures` (`AgentLab`, `LabConsole`, `CsrfClient`,
`Console`), `Scans` and `Statuses` (`ScanConsole`, `FindingPanels`). A browser has
no bound on open requests: with all slots taken, a gesture or an effect that needs
one waits. Crashes of `ScanRunner` are not
bounded; a job id is used once, as `uuid4` makes it.

`CHECK_DEADLOCK FALSE` is set where the instance may really stop: in
`event_stream` when both runs are over, the table is full and the console has closed
its source; in `lab_console` and `console` when the operator has done the last
gesture and every answer has come. Elsewhere a crash is always possible, and deadlock is checked.

`event_stream` numbers rows as the SQLite store does, across jobs; the JSON store
numbers them within a job, which is the instance with one job.

## 4. Fairness

Liveness runs use `FairSpec`. Weak fairness is assumed of a worker
(`Working(j)`): the operating system schedules threads, slot waits have a
timeout, and every request has one (`target_adapters.py`, `timeout`); of a POST
handler once it has begun; of a stream's thread and of the browser's
connection (`Streaming`, `Reading`); and of the restart of a server that went
down. Nothing is assumed of people: nobody has to post a scan, press Stop or
open a console, so no property relies on it. Crashes are not fair either, and
`EveryRunEnds` holds although the server may crash again and again, because
each restart reconciles before it serves. The runs of the console state safety
only: nothing obliges an operator to act or a request to be answered.

## 5. What disagrees with the documentation

1. `queue_limit`: the capacity check and the enqueue are two critical sections
   (`hosted_server.py:857` and `:865`), so concurrent posts exceed
   `VULNORAIQ_SCAN_QUEUE_LIMIT` (`docs/reference/environment-variables.md:49`).
2. `retry_stop`: a failed request is retried without a look at the token
   (`target_adapters.py:351`); with `retry.attempts` 2 or more, more than the one
   request of `core/cancellation.py:18-20` leaves after a stop.
3. `late_stop`: a stop accepted after line 335, while the reports are written, is
   answered 202 and ignored; the run is recorded as completed
   (`docs/guides/web-console.md:100`).
4. `stale_cancel`: a cancel that read "queued" ends the record although the
   worker has claimed the run meanwhile, and the worker sends its next request for
   a run the record says is over, which `hosted_server.py:301` says never to do.
   The worker stops at its next check, so at most one request is affected.
5. `triage_lost`: `update_finding` of the SQLite store reads, merges and replaces
   without `_lock` (`persistent_jobs.py:602`). The second of two concurrent
   patches overwrites the first without having seen it, and its history entry names
   a previous state that was not the one it replaced
   (`docs/guides/findings.md:94`).

Three more the passing runs reach. They are not runs of their own; the properties name
them as exceptions, so that each says what holds beside them:

* A lost seat: when `Thread.start()` raises after the job was listed
  (`hosted_server.py:865-868`), its seat in `_queued_scans` counts against the limit
  until a restart, so posts are refused while fewer scans run or wait
  (`docs/reference/environment-variables.md:49`, `docs/guides/troubleshooting.md:68`).
  `SeatsAccounted` lists it as `NeverStarted`.
* A leaked container: after a failed health check a failing `docker rm` is swallowed
  (`agent_lab.py:679-682`), and the answer says "deployment aborted and container
  removed" (687) of a container that is still there, without a record that could
  remove it. `RunningIsRecorded` excuses it as `docker`.
* A stale base URL: with an agent-backed target shown, pick it in the list again: the
  field goes on showing the URL that Docker publishes, the draft is the stored
  record again, and Save sends the stored URL, where `TargetsManager.tsx:320-321`
  says that it is always taken from Docker. The effect that copies Docker's URL into
  the draft (325-330) runs only when that URL changes. `SavesWhatIsShown` excuses it as
  `relocked`.

Seen while modelling and not stated as a run: `reconcile_interrupted` adds its
`failed` event without `data.state`, which `docs/reference/api.md:148` promises
for every state change.

The properties of `lab_console` and `console` hold with exceptions, and each
exception is something the code does not guard against. They are history
variables, set when the situation occurs, and each property names the ones it
needs; without any one of them TLC finds a counterexample.

| Exception | What the code does |
|---|---|
| `late` | `refreshScanFindings` (App.tsx:119-135) takes the answer for an earlier scan after a new one was started; a failed mount request clears a scan started meanwhile (145-151) |
| `unstarted` | a scan that cannot be started leaves the completed scan before it active with its findings cleared (214, 225-230): the overview says it completed without findings |
| `creating` | Stop pressed while `POST /api/scans` is pending stops the previous scan and leaves the control spent (233-244) |
| `pending` | the status and the reason of a half entered decision stay when another finding is shown (TriageControl.tsx:36-57) |
| `artifact` | `openArtifact` (RawEvidencePanel.tsx:63-76) shows an artifact asked for under another finding |
| `relocked` | the draft is replaced, by picking the target again or by a reload, while Docker's URL for it stays the same one: the effect does not run, and what is saved is the stored URL while the form shows Docker's (TargetsManager.tsx:320-330); see above. Where Docker's URL appears, changes or goes, the effect keeps the two equal |
| `typing` | every load of the list replaces the draft (TargetsManager.tsx:158-179); so does the list that follows an earlier save, when the URL is typed while that save is under way, even if it was typed again after a second save |
| `analyse` | an analysis answered late fills in its port and its panel under another project (ProjectImporter.tsx:207-217) |
| `moved` | a deployment answered after another project was selected is shown under that one (ProjectImporter.tsx:386) |
| `logs` | logs of two agents answered the other way round (AgentHost.tsx:193-200) |
| `reloads`, `chosen` | two reloads of the targets cross, or the target is chosen while one is due: `loadTargets` decides by the render that asked (App.tsx:84-98) |
| a project or agent in `overlapped` | two requests for it at once: the name of its container is shared, and the loser of an import removes the winner's directory (agent_lab.py:172-209, 607-688) |
| `redeploy` | a redeploy that fails has removed the old container, whose record and target stay (agent_lab.py:607-688) |
| `types` | a removal deletes the targets of the first matching record only (agent_lab.py:910-955); a redeploy under another type, which may get another port, leaves the target of the earlier type (673-699) |
| `docker` | a docker failure read as "gone" deletes targets and records of a container that runs (agent_lab.py:890-897); the clean-up after a failed health check swallows a failing `docker rm` (679-682); `remove` of an agent ignores a failing `docker rm` (agent_host.py:171-183) |
| `unsaved`, `unrecorded` | the registry, or the file of the deployment records, cannot be written: the request ends with what it did so far, a container running without target or record, a target whose reload nobody asks for, a record or target of a container that is gone (agent_lab.py:692-722, 946-947) |
| `overwritten` | the deployment records were written over a newer file: a record of another project was lost, or one came back (agent_lab.py:881-887, 900-907) |
| `agents` | a container of Agent Lab was stopped, started or removed from the Agents view, which lists it too |
| `image` | removing an agent deletes the targets of every template with its image (agent_host.py:211-225) |
| `staleWrite` | a change of the registry was written over a newer file (runtime_targets.py:47-92) |

Also seen: a permission refused with 403 is retried once like an expired token
(api.ts:85-97); the connectivity check needs no permission
(hosted_server.py:661-672); it runs although the save before it failed
(TargetsManager.tsx:268); a page reloaded during a scan does not follow that scan
(App.tsx:137-156); the evidence panel closed before its answer and opened again
stays on "Loading evidence" (RawEvidencePanel.tsx:41-61); one `busy` text for all
requests of the Projects view enables Deploy while one is pending
(ProjectImporter.tsx:392, 688); the form of a custom agent typed during a deploy is
reset when that ends (AgentHost.tsx:169-178).

## 6. Proofs

`SlotGateProofs`, for any finite set of jobs and any limits:

* `TypeCorrect`, `SeatsAreAccounted` (`SeatsAccounted`): inductive relative to the
  type invariant. The seats are those of the threads that still try to get a slot and of
  those that were never started, which section 5 describes.
* `SlotBound` (`ActiveBound`): a slot is taken only below the limit; the proof is
  about cardinalities and needs `JobsFinite`.
* `WakeupsNeverLost` (`NoLostWakeup`). That no thread sleeps beside a free slot is
  not inductive as one would first say it ("waiters imply all slots taken"): between a release and the
  moment the woken thread has the lock, a slot is free and others are listed. The
  invariant counts: while anybody is listed, the slots are covered by the holders
  and by the *roused* threads, those awake that no later `notify()` can pick. It is
  inductive together with `SeatsAccounted`, which says who is listed. A release
  trades one holder for one roused thread; a roused thread that takes the slot
  trades back; one that gives up, or sleeps again, does so only at capacity, which
  makes the sum large enough by itself.

`RunRecordProofs`, for any set of jobs and histories of any length:

* `TypeCorrect`, `RowsAreHistory` (`TransitionsChain`): the lemma `HistoryGrows`
  says that a legal move extends a history by the row that continues it.
* `TrafficIsCovered` (`RecordCoversTraffic`): rows are never taken back
  (`VisitedGrows`).
* `OverNeverChanges` (`OverIsFinal`): an action property, from the type invariant.

`JobStoreProofs`, for any number of threads, fields and calls:

* `AnsweredIsDurable` (`AnsweredSurvives`): every write stays in the connection's
  view, so what is durable is a part of it, and a thread that reaches its commit
  has its own writes in the view (`WritesDone`). Any commit then makes them
  durable, and no step takes anything out of `durable`.
* `RecordsAreWhole` (`WholeUnlessTorn`): the lock has one holder (`OneHolder`), and
  as long as nothing tore a record, the invariant `Progressing` says for each of
  the holder's statements which parts of the record already agree.

`ScanRunnerProofs`, for any finite set of jobs, any operators, payloads, attempts
and positive limits. One invariant, `AllFit`, says job by job how the place of its
handler and worker, its seat at the gate, its stored status and rows, its counters
and its token fit together:

* `TypeCorrect`; `GateRefined` (`GateKept`) and `RecordRefined` (`RecordKept`): every
  step of the runner, crashes and restarts included, is a step of the gate and of the
  record or leaves them alone. The first holds of the actions as they are; the second
  needs `StatusFits` and `RowsFit`: the status a worker was at may have been ended
  behind its back by a cancel handler, and `transition()` then refuses its writes.
* `GatePromises`, `RecordPromises`: by these refinements and the theorems above, the
  runner's gate and record have what `SlotGate` and `RunRecord` promise. They are
  cited through `INSTANCE SlotGateProofs` and `INSTANCE RunRecordProofs`.
* `TrafficNeedsSlot` (`TrafficHoldsSlot`): who sends is seated, and those seated are
  at most `MaxConcurrentScans`.
* `TimelyStopsHeeded` (`TimelyStopHeeded`): a stop accepted before the worker's last
  look at the token stays on the token until that look (`StopFits`).
* `LateRequestsBounded`: after an accepted stop at most `Attempts` requests leave, and
  they belong to one payload (`LateFits`). With one attempt that is `OneLateRequest`
  (`AtMostOneLateRequest`); with two it is why `retry_stop` finds a second request and
  would never find a third.
* `NoRunOrphaned` (`NoOrphanRun`): from where handler and worker are, and `stranded`.

`EventStreamProofs`, for any jobs, readers, rows, batches and faults:

* `TypeCorrect`. That a batch is a sequence of rows of the job needs that a finite set
  of numbers can be listed in increasing order (`EnumerationExists`), shown from the
  least number for which it could fail.
* `NeverLostOrRepeated` (`NothingLostOrRepeated`): what a console has received, what is
  in the socket and what is left of the batch are, one after the other, the rows of the
  run from the first on with none left out, and the server's cursor is the last row it
  wrote. A reconnect cuts the socket and the batch off and starts behind what was
  received (`RowsFit`).
* `NeverDoneEarly` (`DoneAfterEnd`): the status is read before the rows are listed, so
  a stream that saw the run over lists its last row too (`EndFits`, `EndsStored`).

`LabConsoleTypes` and `LabConsoleProofs`, for any projects, agents, ports, open
requests, faults and gestures. `Requests` is the type of a request and carries the route
of each task (`Stands`: an undeploy is at "undeploy", "load", "write", "drop", is answered
and reloads the targets); `TypeCorrect` keeps every request on its route, which is what
lets a proof tell which handler may serve it (`WhoServes`). The rest splits into:

* `TargetsHealthy` (`TargetsWereHealthy`). The file alone is not inductive: a copy that
  was read earlier is written back later. The invariant `IHealthy` says it of the file, of
  every copy a request holds, and of the URL each request is about to register.
* The views, from `IViews`: `LeaksNothing` (`NothingTypedLeaks`), `PanelOfSelected`
  (`PanelIsOfSelected`), `SpinnersHeld` (`SpinnersWait`), `LogsOwn` (`LogsBelong`). It
  ties each flag, form and panel to the selection and to a live request at the step that
  will release it, and says what the history `overlapped` leaves out (`IOverlap`).
* `OffersRegistered` (`OffersAreRegistered`): the offers are the registered targets, or
  some request will yet reload them (`Due`): the one that changed them is due from
  the write until its reload, whether its view is still mounted or not. `ChoiceKept`
  (`ChoiceIsKept`) is an action property of that reload.
* The server at rest: `RecordedWhenUp` (`RunningIsRecorded`), `TargetsAlive`
  (`NoDeadTarget`), `TargetsFollow` (`AgentTargetsFollow`). None of the three holds
  while a request is under way, so the invariant (`IServer`) says for each subject
  either that it rests and is promised everything (`Rests`), or what is promised at the stage its
  one request has reached (`Stage`): a deploy that runs is not accounted for yet, one
  that registers has a container that serves its URL and no target of the project on
  another port, an undeploy has taken the container away and every target left on a
  port is among those it will take out. A request that writes the records back from an
  older copy either leaves those of every other project as they are or notes
  `overwritten` (`KeepsOthers`), so only its own subject has to be followed. It rests on three smaller ones: no port is
  published twice (`IPorts`), a request edits targets of its own only (`IEdits`), and
  a deployment id names one project (`IRecords`). Each handler's action then leads
  to the next stage or to rest (`Lands`), and leaves every other subject alone
  (`HandlerElsewhere`). `NoDeadTarget` is about targets that exist *and* have a record
  (`Backed`), which the property does not say: without it, the failure of a
  redeploy could leave a target without the `redeploy` exception being noted.

`ConsoleProofs`, for any findings (whatever the backend says of each), scans, targets,
open calls, faults and gestures:

* `TypeCorrect` (`TypeOK`), together with what every later proof needs (`ITypes`): each call
  is about a subject of its task and stands at a step of its task's route, scans are
  created in order, and each finding shown has a status. `TypesStep` also says that
  every slot keeps its promise (`Kept`), one lemma per action.
* `ClientKeepsPromise` (`PromiseKept`), the refinement. Under the types, a slot looks to
  `MutationCall` by the step its call stands at (`SlotLooks`): idle, asked with no effect
  as long as it is being sent, whatever token it carries and however often, and
  answered with at most one. Each step of `Console`, those of the views included, is then
  a step or a stutter of each of its calls (`SlotKeeps`).
* The Targets view, from `IManager`: `SavesFitting` (`SavesWhatIsShown`) needs that the
  form and the list hold only URLs of the target they are stored under, through
  every reload, and that a save under way carries what it was asked with
  (`IRegistry`, `IDraft`, `ISaves`), and that the draft is Docker's URL where there is one,
  unless it was replaced while that URL stayed (`ILocked`). No step but such a
  replacement breaks that, because every step that makes Docker's URL another one
  copies it into the draft (`ConsoleLocks`). `EditsKeeping` (`EditsSurvive`) is an action property;
  a list replaces what was typed, so the registry must hold just that URL as long as a
  save that was carried out is still to be listed for (`IEdited`).
* The panels, from `IPanels`, one conjunct for each: what an effect last ran for, what
  is waited for and what is shown agree (`IExplain`, `ICve`, `IChat`, `IEvidence`), and the
  reason typed is of the decision that is pending (`IReason`). A late answer sets a
  panel only if its call is live, and a live call is of what the effect last ran for.
  `PanelsFollow` (`PanelsOfSelected`) needs besides that nothing is rendered before the
  effects have run. `TriageReasons` (`TriageReasonFits`) follows a decision from
  the form into the call.
* The shell, from `IShell`: a status that a call brings, or that the shell shows, is that of a
  run that ended that way if it is an end at all (`ICalls`, `ActiveHonest`); at most one
  scan is being started, and one that starts or is followed keeps Run away
  (`IScanning`); findings shown with a completed scan are all it has (`IShown`); and unless
  a load came in late, the screen is empty while a scan runs (`ILate`). From this
  `FindingsFollow` (`FindingsOfActive`), `CleanStaysTrue` (`CleanIsTrue`) and, with the stop's
  call on its way or on record (`IStop`), `StopStaysReachable` (`StopReachable`).
* `CountersKeepAgreeing` (`CountersAgree`), from the types alone: the findings shown
  are finitely many because they are an image of the ids; splitting them by severity five times
  gives the sum (`CountsAddUp`), the greatest score exists because scores are at most
  100 (`GreatestScore`), a highest severity because there are five (`HighestThere`).

All of them rest on `IOverlap`: an overlap that section 5 excuses has been noted as
long as it lasts. In `Console` most overlaps are therefore predicates of the state
(`Late`, `Creating`, `Unstarted`, `Misplaced`, `Relisted`), noted by the step that leads into it;
`Relocked` is a step, a draft replaced while Docker's URL stays, and says nothing of
what the draft is compared with what is shown.

The proof of `EditsSurvive` failed at first, and rightly so. With six gestures, three more than
the run has, TLC finds: a new target is saved, and its list is slow; Add target is
pressed again, and Test saves the defaults under the same id; the URL is typed anew; the
list of the first save arrives, selects the target, and replaces what was typed by
the defaults. The property now names that among its exceptions (`Edited` with a save under
way when the URL is typed, a deletion under way, a save of another URL under way whose
view was left).

These invariants were model-checked on the instances of section 3 before they were proved.

The theorems assume what the modules declare: jobs are finitely many, and the limits
and `retry.attempts` positive (`RunnerAssumption`: the adapter makes at least one attempt
whatever it is given; `hosted_server.py:78` takes the two limits from the environment
as they are, 5 and 20 when unset, and a server given 0 of either would run no scan at
all); batches are not empty (`StreamAssumption`); projects, agents and the ids of their targets are told
apart, a port of the host is neither an external URL nor an agent's, and slots are
numbers (`LabAssumption`); scans are numbered from one, and the scenes `Console` starts in
need two (`ScanAssumption`); what the backend says of a finding is any string and any
score not below 0 (`ScanAssumption`; a negative one would be clamped to 0 by
`lib/findings.ts`); `None`, which models `null`, is none of the values it stands beside
(`ScanAssumption`, `StatusAssumption`, `TargetsAssumption`); the operator picks
statuses that exist (`StatusAssumption`); the URLs a form may hold exist
(`TargetsAssumption`); bounds are numbers, and those that an initial scene has
used one of are positive (`ClientAssumption`, `GesturesAssumption`).

Only model-checked:

* liveness (`EveryRunEnds`, `ReaderLearnsEnd`): the prover handles neither fairness nor
  ENABLED;
* what the runs expected to fail show: a counterexample is found, not proved.

## 7. What is not modelled

* Text: evaluators, detectors, payload files, report and dashboard formatting,
  the console's layout and messages. They keep no state, and a property of them would be about
  wording.
* Summary, progress and outputs of a record are data. In `ScanRunner` a store
  call is atomic and either happens or raises; `JobStore` shows when that is not
  so (`torn`): the statements written before a raise stay in the open transaction
  and are committed by whoever commits next.
* The JSON store, whose file is rewritten at every change, and the record that
  `create` leaves half inserted when one of its statements raises.
* Heartbeats of the stream: they carry no id and no event. The console keeps the
  last 50 events for display; `seen` is what it received.
* In the console: the trend, the scan history and job lists, live events, phases and
  progress, the connectivity result, the validation report, logs' text, the chat's
  model controls, the reading of custom environment lines, loading flags that only
  dim a list, the read-only flag of projects. They are shown and decide nothing that
  a property speaks of. Every registered target is taken as ready. The id
  of a new target is `NewId`, though the form lets it be edited until it is saved: an operator
  who types the id of a stored target replaces that one, which no property is about.
  Which scan `latestScan` finds depends on timestamps; the model takes any (`ScansListed`).
* In the lab: what the analysis finds in a project beyond its port, the generated
  Dockerfile, environment variables, the Docker network, identifiers that collide
  after normalisation. Deployment ids are unique in the model (the code makes them of
  a time in seconds). Reading or writing a file is one step: a reader that meets a half
  written file, a write that stops in the middle, and the limit of 200 deployment records
  are left out, and a change of the templates' file is one step.
* The rate limiter, the security headers, sessions and the permission table; the
  assistant; tool requests, policy and exceptions; URL decisions; scoring and trends
  on the server. The first two and the assistant keep state and would be modules of
  their own; the rest are pure rules over text and data files.
* Scripts, launchers, packaging, evidence file reading, offline harnesses.

## 8. Plan

Every invariant, action property and refinement that a run checks is now a theorem
as well; what is left to TLC is liveness and the counterexamples of section 5.

To model, in this order: the JSON store beside `JobStore` (every change rewrites the
file in place; a store that was readable stays readable); the rate limiter's window;
the assistant's download, load and generation; operators for the tool-request
pipeline, policy exceptions, URL decision and trends against reference definitions.

Later modules keep to the form of these: constants with named assumptions, one
action per operation, invariants as conjunctions, recursive functions or folds
in place of RECURSIVE operators.
