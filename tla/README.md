# Models and proofs for signalr-bench

signalr-bench benchmarks the Azure SignalR service. Its own code is shell scripts,
Python tables and small C# and Go programs: Jenkins jobs create a service and test
machines, start app servers and agents, run *masters* that play scenarios, collect
results and counters, and take everything down again. What is hard about them lies
between the programs: shells in the background that outlive the one that started
them, remote processes reached by `ssh` calls that may fail, files shared by all jobs
of a node, logs polled for a line of text, resources in Azure that must go away
however a job ends.

The repository also holds the chat sample that the benchmark's app servers are built
from, and with it the code its page runs: a SignalR client, the binary hub protocol on
a MessagePack library with its streams and buffers, jQuery and Bootstrap. Most of the
repository's program text is there, and it is concurrent in the other way: callbacks,
promises, timers and events that come in any order between the turns of one thread.

This directory holds TLA+ models of both, TLC configurations that check them on small
instances, and TLAPS proofs of their most important properties. `PROJECT.json` lists
the parts, runs, theorems, hazards, and for every definition the lines it stands for;
a definition preceded by `\* Mutant:` is a plausible bug in the definition below it,
and shows that a property can fail.

Paths without a directory are under `src/`; `scripts/` is
`src/AzureSignalRChatSample/ChatSample/wwwroot/scripts/`.

## 1. The system

### The benchmark

| Part | Files | State | Operations |
|---|---|---|---|
| Websocket session | `func_env.sh`, `run_websocket.sh`, `collect_top.sh` | agents, background shell, flag file `master_status.tmp`, error mark, master's pid file, result directories | start and stop agents, launch a scenario's master, wait, look for agent errors, reap, fetch |
| C# command line bench | `csharpcli.sh`, `run_csharp_cli.sh`, `jenkins-run-csharpcli*.sh` | app servers, agents, generated script, logs and their copies, pid files | launch and poll each server and agent, run masters, stop all |
| Jenkins job | `jenkins_script_config.sh`, `az_signalr_service.sh`, `collect_*.sh` | resource group, services, collectors, connection string, `set -e`, clean-up scripts in `/tmp`, az's current cloud | login, create a service per unit, run it, stop collectors, delete; exit handler and its daemons |
| Runs of a unit | `run_benchmark` in `jenkins_script_config.sh`, `gen_complex_pipeline.py`, the scenarios' `.py` files | loop variables, `job.yaml`, the bench tool's clients, the report | configure a run, play its pipeline, report |
| Search for the load | `jenkins-dogfood-run-sz.sh`, `jenkins-run-websocket.sh`, waits and patches of `kubectl_utils.sh`, app server of `func_env.sh` | service, pods' limits, numbers of connections, `jenkins_env.sh`, result folders, error mark | create, patch, wait, try with a higher load, judge, delete |
| Creation of machines | `AzureAccess/*.cs`, `jenkins_create_vm_from_img.sh` | key file, addresses, interfaces, machines, host file | create three batches in parallel, undo, retry |
| Pods | rest of `kubectl_utils.sh`, `collect_pod_top.sh` ... | pods of a deployment | restart, track |
| Service on machines | `build_launch_signalr_service.sh`, `jenkins-signalr-service-on-vm*.sh` | service process, its log | build, launch, poll, stop |
| Power of machines | `az_startdeallocatevms.sh`, `az_vm_*.sh` | power states | start, deallocate |
| Counters, reports | `parseresult.go`, `gen*.go`, `gen_*.sh` | none that lasts | filter counters, print pages |
| System load from MDM | `MDMSystemLoad/*` | none | pass queries on |

How they interact: a Jenkins job runs the creation of machines, then one of the job
scripts, which runs a session (`run_websocket.sh` or `run_csharp_cli.sh`) as a child
process. They communicate by sourced files (`jenkins_env.sh`, `servers_env.sh`), result
directories, and the file `error.mark`. A session's driver talks to its own background
shells through a file that only says 0 or 1, and to remote hosts through `ssh` and
`scp`, whose exit codes are ignored. Jobs of one node share `/tmp` and the az client's
settings; jobs of one user share resource groups.

### The chat sample's page

| Part | Files | State | Operations |
|---|---|---|---|
| Chat hub | `ChatSample/*.cs` | groups of connections | echo, broadcast, join, leave |
| Promises | `scripts/signalr.js` 26-1200 (es6-promise) | promises, subscribers, the queue of `asap` | then, resolve, reject, publish, all, race, finally |
| Client | rest of `scripts/signalr.js` | connection state, transports, callbacks by invocation id, the server's timeout | start with negotiation and redirects, handshake, invoke, stream, stop, close |
| Streams | `scripts/msgpack5.js` 4156-6546 | buffers, flags and listeners of a Transform, a Writable and a Readable | write, cork, read, pipe, unpipe, pause, end, destroy |
| Data | rest of `scripts/msgpack5.js`, `scripts/signalr-protocol-msgpack.js` | lists of buffers, half characters | encode, decode, frame, parse, copy, read and write numbers |
| jQuery | `scripts/jquery-1.10.2.js` | callback lists, handlers, queues and timers, requests, what a search keeps at the elements | Callbacks, Deferred, bind and trigger, animate, ajax, find |
| Bootstrap | `scripts/bootstrap.js` | classes, flags and timers of the widgets | modal, collapse, carousel, tooltip |

How they interact: the client's `start`, `invoke` and `stop` return promises, which are
the polyfill's where the browser has none; its messages go through a hub protocol, the
binary one being frames of MessagePack arrays; MessagePack's encoder and decoder are
streams and read their input from a list of buffers. jQuery's animations and requests
are deferreds that run on its callback lists; Bootstrap's widgets talk through jQuery's
events and the end of CSS transitions.

### What is hard, and what makes it correct

| Part | Hard | Correct when |
|---|---|---|
| Websocket session | killing a background shell leaves its ssh client and master; one flag file for all scenarios; failing ssh; masters that hang | one master at a time, results complete or known to be doubtful, no one waits for ever, nothing left |
| C# command line bench | logs polled with a limit, copies of logs from earlier runs, a script rewritten while shells may read it | each shell acts on its own host, "started" means started, all are stopped |
| Jenkins job | collectors that end on their own, a deletion that runs in the background, clean-up after any failure | a unit is measured on its own service, success means counters, resources go away |
| Runs of a unit | numbers asked for again and again by separate calls; tables kept by hand for seven sizes | the report shows the run that was played, every step of a pipeline applies |
| Search for the load | error mark and folders that outlive a try, waits that fall through | a load is only raised after a clean try, nothing is overwritten, limits are as asked |
| Creation of machines | parallel creations, undoing by deleting all of a group while another job works in it | hosts listed exist, a retry starts clean |
| Promises | callbacks that make and settle promises while the queue is walked, foreign thenables that call back twice | settled once, told once, in order |
| Client | answers, closes, timeouts and stop between any two awaits of start | every invocation gets its own answer or an error, stop returns, one timer |
| Streams | callbacks inside calls, a destination that is full, errors in between | nothing lost or reordered, finish and end once and last, a full destination is waited for, no stall |
| Data | bytes cut anywhere, inside lengths, characters and numbers | what was sent arrives, once and whole |
| jQuery | lists and queues changed while they are walked, abort against answer, caches on the page's elements | told once and in order, the queue goes on, one answer per request, a search finds what the selector means |
| Bootstrap | a transition's end told twice, calls during a transition | a widget at rest is what its state says |

The hazards, each at its line, are in `PROJECT.json`. Others, which no property covers:

- `az_signalr_service.sh:49` deletes a group that is found without waiting and creates it
  again at once, which Azure refuses.
- `jenkins_script_config.sh:506`: the collectors run for 30 rounds, while
  `websocketsecho` with 100 units has 32 and `websocketssendgroup` with 50 has 35.
- `jenkins_script_config.sh:561` kills a collector that may have ended since the line
  before asked for it; under `set -e` the job then ends. The model has this.
- `jenkins_script_config.sh:593`: names of services have a resolution of a second.
- `jenkins_create_vm_from_img.sh:128` writes every user's key to the same file,
  because `Aliasa` is never set; two jobs of a node can take each other's key.
- `func_env.sh:376` says that an error breaks the benchmark; `:392` leaves the wait of
  the current scenario only, and as `fail_flag_g` is never reset, the later ones are
  launched and left at once.
- `csharpcli.sh:211` and `:508`: a wait for an agent falls through after 120 s, and
  `killall dotnet` ends other users' servers of the host too.
- `jenkins-dogfood-run-sz.sh:91` and `:151` use `bench_type_tag` before it has a value:
  without steps the folder of a session does not exist. `:176`: the throttling that unit
  11 lifts stays lifted for the units after it.
- `kubectl_utils.sh:301` takes the namespace from `$3`, the duration, when given four
  arguments; `:336` looks the tracked pods up only once; `:463` counts the pods before it
  deletes them and then waits for the old number.
- `jenkins-run-websocket.sh:80` starts the connection tracker with two of three
  arguments, so that it ends at once and the kill at `:92` meets any process.
- `build_launch_signalr_service.sh:273` gives up after 60 s as if the service had
  started; `jenkins-signalr-service-on-vm-sz.sh:86` returns from a failed launch without
  stopping what may still come up, `:105` (and `jenkins-dogfood-single-pod-run-sz.sh:142`)
  raises a variable the configuration is not written from, `:258` appends hosts to
  `servers_env.sh` and never removes them.
- `az_startdeallocatevms.sh:16` reads a power state once: a machine that is just being
  deallocated is neither stopped nor started.
- `Chat.cs:25`: `AddToGroupAsync` is not awaited, so that a client may be told it has
  joined before it has.
- `jenkins_script_config.sh:317` appends every customer's name to the tag.
- `parseresult.go:276` takes a step's last counter only if a counter with another number
  of senders follows.
- `gen_complex_pipeline.py:82` says that `-M` is 1.5 times the connections; the long
  polling tables have 3000 for 2500 and 30000 for 25000.
- `scripts/signalr.js:1796`: a connection that closes between the handshake and start's
  continuation has its timer armed when it is dead already.

## 2. The modules

| Module | Models | Rests on |
|---|---|---|
| `BenchPlan` | what a session promises: scenarios handled in order, each once, and measured as long as nothing failed | |
| `WebsocketBench` | a session, implements `BenchPlan` | |
| `JenkinsJobs` | Jenkins jobs over service units on one node | |
| `AzureVms` | jobs that create machines | |
| `CliBench` | the C# command line bench | |
| `Pipelines` | tables and pipelines of the scenario files, as operators | |
| `UnitBench` | `run_benchmark` over them | `Pipelines` |
| `StepUp` | the dogfood job that raises the load, with one session as one step | |
| `Es6Promise` | the promise polyfill of the client | |
| `Es6PromiseInvariants` | its inductive invariants, and how a call changes the heap | `Es6Promise` |
| `HubClient` | hub connection, http connection and the three transports | |
| `Streams` | Transform, Writable and Readable of the browser bundles | |
| `Bytes` | operations on a Buffer | |
| `Numbers` | integers and floats in a Buffer, with the size of a byte as a parameter | `Bytes` |
| `BufferList`, `StringDecoder` | the list of buffers; strings out of pieces of bytes | `Bytes` |
| `Msgpack`, `HubProtocolMsgpack` | values to bytes and back; hub messages in frames | `BufferList`, `Msgpack` |
| `Codec` | the codecs at work on a wire that is cut anywhere | the six above |
| `JqDeferred`, `JqEvents`, `JqFx`, `JqAjax`, `JqSelect` | jQuery's callbacks and deferreds, events, animations, requests, search | |
| `BsTransition` | how Bootstrap's widgets wait for a transition | |
| `BsModal`, `BsCollapse`, `BsCarousel`, `BsTooltip` | the widgets | `BsTransition` |
| `PageLibraries` | one of the nine above at a time | them, by INSTANCE |
| `MC...` | instances for TLC (`WebsocketBench`, `JenkinsJobs`, `CliBench`, `Es6Promise`, `HubClient` and `Streams` are checked as they are) | the module named |
| `...Proofs` | theorems | the module named (`Es6PromiseProofs`: `Es6PromiseInvariants`), `TLAPS` |

### WebsocketBench

`pc` is the driver's place in `launch_all_websocket_scripts`: `startAgents`
(`do_single_sigbench` per agent, index `idx`), `clearMark`, then for every
scenario `launch`, `wait`, `check`, `reap`, `fetch`, and `stopAgents`. `flag` is
`master_status.tmp`, `finish` the shell variable it is read into. A background
shell's life (`runner[k]`) is `forked` -> `flagged` (it wrote 0) -> `inssh` ->
`returned` -> `ended` (it wrote 1), or `killed`. What it starts through ssh,
`remote[k]`, has a life of its own: the generated script removes the old result,
kills the master named by the pid file, and becomes the new master. `Reap` kills
the background shell and the collector; it does not reach `remote[k]`. The index
0 of `Masters` is a master that an earlier session left running, with a stale
result. `Drop` is a failing `ssh` or `scp`, `drops` counts them.

`Elapse` is the clock passing `$end`; with `PromptLaunch` it happens after the
background shell's first `echo` and the driver's second look, which the code
obtains by running for at least 240 seconds while a look takes one. `round`
counts these looks up to 2.

`BenchPlan` is reached by `outcome[k]` = pending, measured or doubtful, as
`fetched[k]` says, and `broken` = an agent error was found or a call failed.

### JenkinsJobs

Each job has its own `pc`, unit, connection string, collectors and resource group;
`script` (the two files in `/tmp`, by the job that wrote them last) and `cloud`
are shared. `Failed(j, q)` is the line's error under `set -e` or without it:
`errexit` is in force from the first unit's `copy_log` on, and from the start in
those jobs Jenkins started with `-e` (`Init` allows both). `Abort` goes to the
exit handler. A daemon reads its script (`ReadScript`), not at the time at which
it is started. Deleting a group takes time (`GroupGone`). `FaultBudget` bounds the
calls of az, dotnet and the machines' tool that fail.

The measuring of a scenario run is one step that leaves counters or not; inside
it is `UnitBench`.

### AzureVms

A job goes through the calls of `Program.Main`. Batches `ips` and `nics` are
retried; `done[j]` are the members that were answered, with or without an
exception; `JoinBatch` is `Task.WhenAll`; on an exception the catch block lists all
of the group (`ListBatch`), deletes (`DropBatch`) and tries again, so that
deletions of one job meet creations of another. `keyFile` is the one file all jobs
write, because its name contains the variable `Aliasa`, which is never set.
Azure is external: it refuses to delete what is in use.

### CliBench

The controller launches server after server, each through a background shell that
executes the one file `auto_local_launch.sh`, polls its log (`PollServer`,
`PollTimeout`), does the same for agents, runs the masters and stops all.
`LocalSignalr` chooses between the two polls of the code: the one for
"Application started" tests the log; the other tests that a line count is not the
empty string, and so never waits.

Nothing is clean at first: an app host may run a server that an earlier job left, and an
agent's log may be there from an earlier run (`stale` in `Logs`), on the agent's host
(`agentLog`), where the new agent's `tee` overwrites it, and as a copy on the controller
(`cliLog`), where `FetchLog` overwrites it unless the copy fails. `relied` are the agents of
which the controller printed that they have started, by whichever log. A poll of a server
that times out exits the job's shell at once (`exit1`); `LeftAtExit` says what is
left then.

### Pipelines and UnitBench

`Pipelines` holds, per scenario file, the table of connections, rates, senders and
groups as operators of the unit and of `-M`, and `Pipeline(...)` as a sequence of
operations. The values were compared with what the Python prints for every
combination of scenario, transport, unit, `-M` and variant. `UnitBench` is the
loop: `Configure` asks for the numbers and writes `job`, `Play` takes one operation of
the pipeline, `GenReport` asks for the numbers again and writes `report`,
`NoCounters` is a run whose counters got lost. As the jobs switch
`--stopSendIfLatencyBig` and `--stopSendIfConnectionErrorBig` on, the tool may end the
sending after any round (`StopSending`): it goes on to the pipeline's closing, and
`cut` remembers it. What was played is then a proper prefix of what the report lists.

### StepUp

`Job` is the shell: the service, the pods' limits, the wait (`WaitReady`, which
falls through), the tries. A try writes `env` (`jenkins_env.sh`) and a folder,
checks its inputs, starts the app server (`StartServer`, `ServerUp`, `ServerFails`,
`Poll`), runs a session, stops the server and is judged by `error.mark`. `Session`
is what `WebsocketBench` leaves behind: the mark cleared, then written or not,
and a result in the folder.

### Es6Promise

Promises, their subscribers and the queue of `asap` are a heap; `Then`, `resolve`,
`reject`, `publish` and the others are operators from heap to heap. JavaScript runs one
callback at a time, but a loop of the library that calls back into the program
(`flush`, `publish`, `_enumerate`, the loop of `race`) can be entered with its state
changed by what it called. Those loops keep their index (`at`, `turn`, `loop`) and take
one turn per step, and no other step is enabled meanwhile. What a callback does is chosen
in the step: it may call `then`, `catch` or `finally` first (`InCallback`), on any promise,
also the one whose callbacks are being called; it may fulfill a promise made with `new`; and it
throws, or returns a plain value, a foreign object or any promise (`Outcomes`). `all`,
`race`, `resolve` and `reject` are called by the program outside of callbacks only.
`Thenables` are foreign objects whose `then` calls back once, twice, late, or throws.

### HubClient

The client is one record, `client`. An operator takes it through one turn of
JavaScript; an `await` ends the turn. The coroutines of `start` and `stop` and the posts of
a send are records with a label (`pc`), and one whose promise has settled goes
on (`Resuming`) before the browser delivers the next event: microtasks come before
tasks. Negotiation and its redirects, connecting, the handshake's answer or loss, the
server's timeout, closes, failing posts and the DELETE of long polling are actions of
the world around it. `stopped` and `answered` are history. Errors are not told apart;
urls, tokens, headers and logging are left out.

### Streams

`s` holds a Transform in object mode, as msgpack5's Encoder and Decoder are, with the
Writable it is piped into (`mode` "pipe"), or a `data` or a `readable` listener.
Functions of the library are operators from `s` to `s` that make all calls the function
makes, listeners included, and so they are RECURSIVE. An action is one turn of the
browser: a call by the program (write, cork, uncork, end, read, pause, resume, unpipe,
destroy), a transform's or a destination's late answer, or a job of `process.nextTick`.
`ChunkKinds` are the kinds of chunks: of a `pair` come two chunks at once, of a `late` one
comes one in a later turn; one that is `unencodable` gives an error and the transform's
callback, as in the Encoder; one that is `garbled` gives an error and no callback, as in
the Decoder.

### Codec and the modules below it

The lower modules are pure: an encoder, a decoder and the buffers' operations over
sequences of bytes, with offsets from 0 as the code has them, and results as records
with a status where the code throws. `Codec` is the machine: bytes that were written are
cut into pieces, in every way, and given to what takes them. A behaviour plays one of
six parts: `values` (Decoder over a list of buffers, which must tell "not enough" from
"broken" at every cut), `text` (StringDecoder in UTF-8, UTF-16, base64 or one byte per
character), `list` (the list itself, consumed and copied from), `frames` (the hub
protocol, whose pieces may hold several messages or a part of one), `buffer` (copies
and fills that overlap) and `number`.

A 64-bit integer is its sign and the bytes of its magnitude, so that nothing needs more
than 32 bits of arithmetic. `Numbers` has the count of values of a byte (`Base`) and
the bits of a float as parameters, because the code's loops do not depend on them;
all bit patterns of a small format can then be tried. Floats in `Msgpack` are opaque,
with the fact that matters: whether four bytes are near enough.

A value that is decoded is pushed, and `push(null)` is the end of a stream: after a nil
nothing more comes out (`pushed`). `cuts` is history: a cut inside a value makes the
Decoder read it again from the start.

### JqDeferred, JqEvents, JqFx, JqAjax

In all four a callback of the program may call the library again, also what is running.
The calls under way are therefore a stack of items, the first of which runs next; a
step is one item, or, where the item is the program's callback, one choice of what it
does or its return. What a loop re-reads (`firingLength`, `cur`, the length of the
queue) is in the state, what it keeps is in the item. `JqDeferred` has
`jQuery.Callbacks` with its options, `Deferred`, `then` and `when`; `JqEvents` direct
and delegated handlers, namespaces, `one`, triggering with native events and default
actions, on a path of elements; `JqFx` the queue of an element, its sentinel and hooks,
the ticks, `stop`, `finish`, `delay` and `promise`, with the history of the steps that were
begun (`begun`) and of the two calls that break a queue (`halted`, `cleared`); `JqAjax` requests by XMLHttpRequest
and by a script element (jsonp), time-outs, `abort` and the global events.

### JqSelect

Sizzle as it works for selectors the browser does not know, and jQuery's `find`, `filter`,
`not`, `is`, `closest` and walks. A selector is groups of tokens; the matchers built of
them are operators over `G`, which holds the page and what Sizzle leaves at the elements
between and during searches: `dirruns` and the results of walks (`dirs`), `cachedruns`,
`runs`, positions among siblings (`nths`), `outermost`. `Move` changes the page between two
searches, so that what the first one left can be stale for the second.

### BsTransition, BsModal, BsCollapse, BsCarousel, BsTooltip

`t` holds the completions bound to an element's end of transition and the armed timers
of `emulateTransitionEnd`. The end may come from the browser, from the timer, from both, or
bubble from an element below. A widget is its classes and flags, with its completions as
named operators. Calls and clicks come at any time, in a transition too.

### PageLibraries

The nine parts share no state, so a behaviour is one of one part. `Hasty` stands for
callers that do what the libraries are known not to bear (section 6); runs have it FALSE
and show that callers who wait are served.

## 3. Runs

| Run | Instance | Shows |
|---|---|---|
| `bench_core` | 2 scenarios, 2 agents, monitored host, 2 failing calls, prompt launch | results, masters, clean-up, the end of a session though masters may hang after an agent's error, refinement of the plan |
| `jobs_one` | 1 job, 3 units, 3 collectors, 2 scenario runs, 3 faults; 615,601 states | right service, one at a time, collectors stopped, no success without counters, resources removed |
| `vms_shared` | 2 jobs in a group, 2 machines each, 2 attempts, 3 faults; 251,989 states | hosts exist, retries start clean |
| `cli_local` | 3 servers, 3 agents, 2 scenarios, local SignalR, servers and logs of earlier runs; 26,778 states | servers before masters; at the end every server and every agent that was seen to start is stopped; a job that exits at a poll leaves the servers it had started, and no more |
| `unit_runs` | every unit with and without `-M`, each transport, one of six scenarios or two of which one sends to groups, 4 group types, 4 sizes, 3 servers, early stops of the sending; 315,604 states | pipelines apply, the report shows the run, or more senders than were raised |
| `step_tries` | 2 units, 2 sizes, 3 tries, a limit of 2 connections, 2 faults; 381,423 states | load raised after clean tries only, tries apart from each other, the job ends |
| `promise_calls` | 2 promises made with `new`, 2 further calls of the program, callbacks that register callbacks; 3.39 million states | callbacks once and in order, `all` and `race`, nobody forgotten, settled once |
| `client_once` | 1 start, 2 stops, 2 invocations, the three transports; 255,621 states | own answers, one timer, nobody waits on a dead connection, stop settles |
| `client_stopped` | 1 start, 1 stop | (violation) a stopped connection comes up, see below |
| `stream_flow` | high-water mark 2, 3 writes of 4 kinds, 2 other calls, 3 consumers; 2.72 million states | order, `finish`, `end` and write callbacks, backpressure, no stall |
| `codec_cut` | all formats, texts of 4 bytes, 2 cuts, 2-byte numbers with 4 values per byte; 34,927 states | what was sent arrives whatever the cuts |
| `page_use` | 3 deferreds; a path of 4 elements; 3 animations; 2 requests; 2 searches of 7 selectors; widgets with 6 calls; 808,688 states | the nine libraries' promises |

One disagreement between code and text has a run of its own: `signalr.js:2845` changes the
state only from Connecting, so as not to overwrite Disconnected, but `:2922` has set it
to Connecting without a look by then: a `stop` that came while the first transport was
connecting is lost when that connect fails and the next transport is tried. (One that
comes during the negotiation is seen, `:2805`.) Two others, met while the models were
written, are exceptions that the formulas name exactly:

- `csharpcli.sh:217` prints "agent started!" after a look at the controller's
  file, which may be the log of an earlier run: the copy at `:213` came before the new
  agent's `tee`, or failed and left the old copy. `:237` then prints "agent stoped!", but the
  stop script kills what the pid file names, and that agent may not have written it yet
  (`stale` in `ReliedHasStarted`; `SeenAgentsStopped` is of agents whose own log was read).
- `msgpack5.js:5239` is to ensure that readable listeners eventually get something; one that is
  added when a chunk is there already hears nothing of it as long as there are fewer
  than the mark and the input goes on (`Unheard` in `NoStall`).

Why the bounds are enough to show the interesting cases:

- Two scenarios are the least in which one can disturb the next; a third behaves
  to the second as the second to the first, and index 0 adds a master older than
  both. Two agents make it visible which one is blamed and that the second is not
  asked after the first. Two failing calls allow one on the way up and one on
  the way down of the same process, or one in each scenario.
- Three units give a unit after one that failed after one that went well; three
  collectors are those of the code; three faults let a creation, its deletion and
  the exit handler's call fail in the same job. Two jobs that create machines are the
  least that share a group.
- Two attempts are one and its retry; two members of a batch let one succeed while
  the other fails; three faults exhaust both attempts of one batch and break another.
- Two message sizes and two units give every next service in the order of loops; a
  unit with throttling that can be lifted and one without follow each other; three
  tries are one raise after a raise.
- `unit_runs` has no bound on the tables: all units are tried. Lists of three
  scenarios repeat the passage from one to the next that lists of two have; those in which
  one member sends to groups suffice: for the others `run_benchmark` asks for all the numbers
  itself before each run, for that one `gen_sendgroup_job_config` does (`:218`).
- Promises: the two further calls may be one outside callbacks and one inside the callback that
  it registered (longer chains of callbacks that register callbacks are left to the proof);
  `Firsts` lets `all` and `race` begin with one of the two promises made with `new`, as
  the two differ in nothing else (the proof has any `Firsts`); two promises and two calls give chains of
  up to ten promises, `all` and `race` over settled and pending ones, and thenables that answer after another one has. One
  value, reason and thenable of a kind suffice, because the library compares none.
- Client: one start meets two stops (before, during and after it) and two invocations,
  so that an answer can be another's. Two redirects are one that is followed and one that
  is refused. A second start is left out: see section 6.
- Streams: three writes fill a mark of two and leave one waiting; two other calls are a
  pause with its resume, an unpipe and a failure, and so on; a chunk that gives two
  makes the readable side overtake its mark; a garbled one is followed by up to two
  that have to wait behind it.
- Codec: two cuts give three pieces, and every position is tried: a value can end in
  the first, have its length in two, or be alone in the middle. Texts are all sequences
  up to four of five bytes that begin, continue and are a character, and an emoji.
- Page: three deferreds are a source, one that follows it and one for `when`; four
  elements have a target, a delegate, the document and the window; three animations are
  one that runs, one that waits and one beside the queue; two requests share a jsonp
  name or the count of active ones; two searches with a page that changes between make
  the first one's marks old; six calls bring a widget from rest through two transitions.

`CHECK_DEADLOCK FALSE` is in the runs of the page's modules, where the program may
just do nothing more and no message be under way. The runs of the benchmark check
for deadlock: each of those modules has a step (`Done`, `Ended`, `Quiet`, `Finished`)
that is enabled only where the program has ended.

## 4. Fairness

Liveness is checked of five specifications.

- `WebsocketBench!Spec`: weak fairness of the driver, of every background shell and
  remote script, and of the clock: the operating systems run ready processes,
  and nothing in those steps waits for anyone but what their guards name. Of
  `MasterExits` (the bench tool's master plays a pipeline of fixed duration) only while
  no agent's error was seen: with agents lost a master may hang, and the session must
  end all the same. No fairness for agents' errors, nor for failing calls.
- `JenkinsJobs!Spec`: weak fairness of each job's shell, its daemons, of Azure's
  deletion once accepted, and of the collectors' loops, which have a fixed
  number of rounds. Calls that fail are never forced to.
- `StepUp!Spec`: weak fairness of the shell, of a rollout that has begun and of an
  app server that is starting.
- `BenchPlan!PlanSpec`: weak fairness of handling a pending scenario, which
  `bench_core` shows to be implemented.
- `HubClient!FairSpec`: weak fairness of coroutines that can go on, of the requests
  for negotiation, connecting, posting and deleting, which a browser answers or
  fails, and of a transport's close once it was asked to close. A server that is
  connected need not send anything, least of all an answer.

The other modules state no liveness and no fairness. What must be true when nothing more
is under way (`NoStall`, `CallbacksCalled`, `QueueServed`, `RequestsAnswered`,
`DeferredsSettle`, `WidgetsSettled`) is stated as an invariant of the states in which
the library has nothing left to do.

## 5. What is proved

The proofs hold for every value of the constants that satisfies the named
assumptions of the modules, which TLC evaluates in the runs.

| Module | Theorem | Argument |
|---|---|---|
| `WebsocketBenchProofs` | `TypeCorrect` | inductive |
| | `LoneRunnerHolds` | inductive: only `Launch` forks, only after `Reap` |
| | `ErrorMarkHolds` | `BlameInv`: the mark is cleared before the first look, written with `failFlag`, and `failFlag` is never reset |
| | `FetchHolds`, `WaitHolds` | see below |
| | `ExclusiveHolds`, `UndisturbedHolds` | `HealthInv` and `LeftoverInv`: a script kills what the pid file names, and with every earlier master exited that is only the leftover |
| | `SessionClean` | `CleanEnd` from `ReapedInv` (no collector outside a wait, no scenario launched without a shell), `StoppedInv` (agents the last loop has passed are down), `HealthInv` and `LeftoverInv`; with it `CleanSession`, the property of the run |
| | `SessionImplementsPlan` | the safety part of the refinement: each step is a `Handle`, a `Break` or a stutter |
| `JenkinsJobsProofs` | `TypeCorrect` | inductive |
| | `OwnServiceHolds` | `ConnInv`: the string is emptied at the start of each unit and set only by the query of that unit |
| | `CountersHold` | `ExitInv`, `BegunInv`, `CountInv`: while no error was noted, the counters are those of the runs that are over |
| | `CollectorsHold` | `CollInv`: the collectors of a unit run together or not at all, and those before the one aimed at have ended |
| | `OwnServiceAloneHolds` | for one job: `TrapInv`, `CloudInv` (az stays on the cloud of the job), `AloneInv` (the only service is that of the unit at hand); with a second job its daemon changes the cloud of az under the first, and a deletion may be refused |
| `AzureVmsProofs` | `TypeCorrect` | inductive, with `PlaceOK` and `HeldOK` apart |
| | `CleanHolds` | `CleanInv` (`OwnIps`, `OwnNics`) and `Frame`: another job's step never adds to a job's names |
| | `HostsHold` | `Wired` (a machine keeps its interface, that its address) with `MachineInv` (which members of the last batch exist) |
| `CliBenchProofs` | `TypeCorrect` | `ControlOK`, `ServersOK`, `AgentsOK` |
| | `OwnScriptHolds`, `ServersHold` | `LaunchInv`: a shell that has not read its script is that of the server at hand, and servers passed by the poll are up; under `LocalSignalr` |
| | `StartedAndStoppedHolds` | `EndInv`: on the way down every server is up until the loop has passed it; `StartInv`: a log that says "started" is that of an agent that is up and named by its pid file, up to the loop that stops it (a log of an earlier run says so too, and is the exception the formula names); with it what an exit at a poll leaves; under `LocalSignalr` |
| `StepUpProofs` | `RaisedHolds`, `ApartHolds` | `PlaceInv`, `ServiceInv`, `LimitsInv`, `ResultInv` (results of other services are of earlier tries), `LoadInv` (the tries of the service at hand are clean up to the mark), `MarkInv`; under `NoRepeats`: the job's lists name no unit and no size twice |
| `UnitBenchProofs` | `StepsApplyHolds`, `RunAsAskedHolds` | `Asked` (what the shell asked for is what `job.yaml` has, and the tool plays only then) and `Placed` (the clients, the senders and what was played, by the position in the pipeline); a pipeline is an opening, so many rounds and a closing, whose lengths are lemmas over the tables; the lists name at least one entry (`UnitBenchAssumption`); when the sending was stopped early, what was played is a proper prefix of what the report lists |
| `HubClientProofs` | `OneTimerHolds`, `AnsweredOwnHolds` | `Good`: a timer is armed exactly when the handle refers to one, ids below `nextId` were given once, and the id of a message under way or arrived is that of its own call or of none. Every operator from client to client keeps it |
| | `SettledWhenDeadHolds` | `Sound`: see below; for a client that is started once (`MaxStarts <= 1`) |
| `Es6PromiseProofs` (invariants: `Es6PromiseInvariants`) | `SettledOnceHolds` | `Shape` (what a heap's states and results can be) and `Kept`: every operator of the library leaves a settled promise alone, each by its test of PENDING or because its caller made it |
| | `CallbacksInOrderHolds`, `CallbacksCalledHolds` | `PInv`: see below; there are promises enough (`ValuesApart`), which is proved and not assumed of each step |
| | `CombinedRightHolds` | `CInv` beside `PInv`: see below; under `ArraysApart`: no array is a promise or an object whose `then` cannot be read |

The properties of a session are not inductive. That a result fetched is complete
follows from the driver leaving its wait late, that from what the flag says, and that
from where the background shell and the remote script are; so the invariants are
proved in this order: `OrderInv` (what is fetched is what is over), `ExitInv` (a
master that exited left a complete result), `FlagInv` (what the flag and the
driver's copy tell of the shell), `PhaseInv` (a shell past its ssh has a finished
remote script, as long as no call failed), `HealthInv` (no master was killed and
earlier ones have exited). `FlagInv` needs the constant `PromptLaunch`: without it
the driver may read the 1 of the scenario before. The theorems that rest on it have
`PromptLaunch` as their assumption.

A client's calls are settled when its connection is over because a call that waits
is registered (`Registered`), and because while one waits some transport that the client
handles has not ended (`Held`): it is closing, or it polls, or it is the client's own
while the client is connected or a stop is under way. When that end is told, all that is
registered is settled. `Line` is what makes it inductive: until its transport has
connected the one start waits and no transport is handled; a handled transport is the client's as
long as it has one; a stop waits for the start there is. It is false for a
client that starts again while its first start has not ended, as TLC shows with
`MaxStarts = 2` in eleven steps: a start is redirected, a stop closes the
client, a second start opens a transport and a call is made on it; then the request of the
first start fails late, and its `catch` takes the transport and the state off the
second. Hence the assumption of the theorem.

A promise's callbacks are followed wherever they go, also when a callback registers them
while the queue or a list of subscribers is walked. A reaction (a call of `then` or
`finally`) is a subscriber of its parent, a job of the queue, or has been called; or its parent
settled in the way it has no callback for (`Due`). All that will call the program back is
a reaction (`Known`). For one parent, what was called comes before what waits in
its list, and that before what waits in the queue, behind a `publish` of the parent
(`SubsFirst`, `CallsFirst`, `SubsOrdered`, `JobsOrdered`). Who is settled with subscribers has
a `publish` ahead in the queue (`Published`), and a queue that is not empty is being flushed or
is scheduled (`Flow`). Most of the library neither gives nor calls a callback of the
program: each of its operators is shown to be `Calm`, which keeps all of this at
once (`CalmWorld`), however resolutions nest. Left are `then` and `finally`, the jobs of
`flush` and the turns of `publish`. New promises must be new, or a child would have two
parents: `Budget` counts the promises made against the calls, where a
`finally` that has not been called and a loop that runs are charged for what they will make.

That `all` and `finally` combine outcomes right is about promises that the program
cannot settle, so the proof follows who can. A subscriber or a job that may settle a
promise is a hand of it. Each operator settles none but the promises it was called
for, and gives nobody else a hand on one that was there before (`Spares`; for the steps of the
loops, which also use subscribers and jobs up, `Moves`). Hence a promise that waits for one thing goes
on waiting for that thing. The invariant (`Combined`) has four parts:

- `Sane`: what is settled, queued or given to a foreign thenable was made, and nothing
  is fulfilled with a promise or with an object whose `then` cannot be read;
- `LoopMade`: so with the entries of the loop that runs;
- `Finals`: until its callback has been called, the promise of a `finally` has no hand but
  its own reaction; afterwards it hangs on one inner promise only (`OnlyLink`), which
  is going to repeat the parent's outcome (`Repeater`), or it has repeated it or was rejected;
- `Alls`: for each enumerator, that nobody else settles its promise (`Private`), that a
  place which is left is either still to be walked or waits for one promise, at one place of one
  list (`Placing`), that what is waited for ends as the entry does (`Mirrors`), and that while the
  promise is pending `remaining` is the number of places left and the others hold their
  values (`Summed`). Once it is settled it has all values, or the reason of
  an entry that failed.

A place that is left when the queue is at rest then waits for an entry that is pending, or was
given to a foreign thenable, of which nothing is promised. `remaining` alone would
not do: that no place is counted down twice needs `Placing`, and that what arrives is the
entry's outcome needs `Mirrors`, since `all` subscribes not to a pending entry but to a
promise that it made and linked to the entry (`_eachEntry`, `_willSettleAt`).
`ArraysApart` is what JavaScript grants: `all` fulfills its promise with an array that it has made,
which has no `then` (`Array.prototype` has none); were an array one of `BadThens`, a chained promise
would be rejected where its parent is fulfilled.

Only model-checked:

- `Streams`, `Codec` and the modules below it, jQuery's and Bootstrap's: they
  have functions that call each other or themselves over data
  of any depth, as RECURSIVE operators, with which the SMT prover is lost; what they
  compute for every input would need induction with an operator as parameter, which
  the installed provers cannot instantiate.
- All liveness: `SessionEnds`, `ResourcesRemoved`, `JobEnds`, `StopSettles`, and
  the fairness part of `ImplementsPlan`. The provers do not reason about ENABLED
  and so not about fairness.

## 6. What is not modelled, and what is known not to hold

### Inside modelled parts of the benchmark

- Session: contents of the generated configuration files; the copying of logs.
- Jenkins job: `run_customer_bench`, zipping of logs, the parsing of counters. Jobs that
  run at the same time on a node share `/tmp` and the clean-up scripts there; a daemon of one
  can then remove the resources of the other, so `jobs_one` has one job.
- Machines: Windows machines, a given subnet, the table of image names, the mail,
  files from earlier builds of a workspace.
- Command line bench: collectors, contents of the master's scripts, copying of
  results, the look for errors in the servers' log (`jenkins-run-csharpcli-on-multiple-serv.sh:70`),
  which ends the job with all servers up, as a poll's exit does with some. A server that was seen to start
  is stopped only by a job that reaches its end: `LeftAtExit` says that one that gives up
  on a server leaves the others up. The branch without local SignalR is in the module, but no run has it:
  its poll waits for nothing, so that its properties would only repeat that. `StartedAndStopped`
  allows for agents that an old log spoke for (section 3).
- Units: that the collectors end before a long scenario. When the tool stops the sending
  early, the report's senders exceed what was raised, and no counter says so.
- Search for the load: the trackers, the variant for the command line bench, which
  differs in the script it calls.

### Client

Left out: `on`, `off` and `onclose` beyond their part in closing, `Subject`,
`AbortController`, `HubConnectionBuilder`, the headers of requests. Known:

- A promise can be fulfilled with a thenable: the comment at `signalr.js:814` says
  otherwise, but `handleForeignThenable` (297-301) fulfils with the value when the thenable
  hands on itself. The model has it.
- A long-polling connection that is stopped gives up its transport after the DELETE
  (`:2761`) and may be seen Connected without one. Posts reach the server before the
  handshake has been answered. A first poll answered by a status of success other than
  200 connects a transport that is dead.
- With a second start while the first one's end is under way, a call may be left without
  an answer: `SettledWhenDead` is of clients that start once (section 5).

### Streams

Left out: object mode off, `setEncoding`, `unshift`, several destinations. Known:

- A `readable` listener that is added late may hear nothing of what is buffered (section 3).
- After a write that failed, a later one may overtake an earlier one (`:6142`). The callbacks
  of writes come once each, and before `finish`, but two of them may come out of order: one
  called in the next tick after one called at once.
- The Decoder never calls its transform's callback after an error other than
  IncompleteBufferError (`msgpack5.js:911`): whatever is written later waits for ever, and
  neither `finish` nor `end` comes. The exception `Garbled` of `NoStall`.
- That a decoded nil ends the Decoder's stream is in `Codec`, not in `Streams`.

### Data

- `readInt64BE` negates the buffer in place, so that a negative 64-bit integer that is
  decoded again, after a cut behind it in the same value, has lost its sign.
  `ValuesAsSent` allows for it exactly there (`Unsigned64`).
- A nil cannot be sent through a Decoder: `push(null)` ends its stream (`msgpack5.js:909`),
  and what is decoded after it only gives errors. `ValuesAsSent` says so.
- A slice of a list whose start is behind its end gives bytes. `utf8ToBytes` loses a
  second lead surrogate at the end. Dates before 1970 are wrong or throw. Overlapping
  copies between two views of one array ascend where they should descend.
- Maps of more than 65535 keys are not decodable; the header of a longer one wraps.
- Both bundles hold a Buffer of their own with the same text; one is modelled.
- Left out: `toJSON`, `inspect`, hexadecimal strings, 24- and 48-bit accessors that are the
  same loops, and registered types other than dates and one extension.

### jQuery

- Callbacks: a list emptied and filled while it is fired skips a callback.
- Events: a handler of `one` may be called twice by a trigger inside it; a trigger of the
  same type inside another's native default action is thrown away. Left out: inline
  handlers, special events that change their type, data of handlers.
- Effects: a `stop(..., true)` or `finish` that meets a running delay cuts its timer off and
  does not go on (9374), so that the queue stands until the next call (`halted`); `clearQueue()`
  during an animation takes the sentinel away (`cleared`), so that a second one may run
  beside it. `QueueServed` names both as its exceptions. An animation without length
  beside the queue is counted off before its `complete` (9101). What is drawn is left out.
- Requests: `abort` in a handler of `ajaxSend` calls the request's callbacks twice (8167,
  `AbortInSend`); a script that was taken off the page and still runs answers another
  request (`LateScripts`); a script that fails to load never ends a request without a
  time-out. Headers, caches, converters' texts are left out.
- Search: a nested `:has` with more than one group leaves its `cachedruns` (2742) to the outer
  search, so that `div:has(p:visible) span` misses an element; `$("a:even b")` gives
  duplicates, `filter(":first.b, :last")` loses one, `:not(> a)` throws. Filters by position
  and the browser's own `querySelectorAll` are left out.
- Not modelled: attributes, CSS and offsets, manipulation of the page, support tests.

### Bootstrap

- A modal that is shown while it hides leaks a backdrop (`Overlap`); one whose `show` was prevented leaves the
  body's class. Two quick clicks on an accordion open two panels (`Patient`).
- A carousel called between the end of a slide and its event shows a stale indicator
  (`Between`); a slide that was prevented leaves it sliding; one slide alone is stuck.
- A tooltip destroyed while it is shown stays (`Rash`); one that is disabled while
  it fades and entered again stays, invisible; one shown by a call while it hides is
  taken out.
- Alert, button, dropdown, tab, scrollspy, affix and popover are not modelled: they set
  a class or two in one call.

`Hasty`, the constant of `PageLibraries`, allows `AbortInSend`, `LateScripts`, `Overlap`,
`Between` and `Rash`, and takes `Patient` back; the properties are then false, as the
lines named say.

### Whole parts

Pods' restarts and trackers, the service on machines, the power of machines, the chat
sample's hub and the counters' evaluation are in the plan below. Reports, the MDM
queries, ansible, the sample's page and build files and one-line tools keep no state
and have no order of steps a property could be about.

## 7. Plan

Done, in this order, each with its proofs where named: `WebsocketBench` with
`BenchPlan`; `JenkinsJobs`; `AzureVms`; `CliBench`; `Pipelines` with `UnitBench`;
`StepUp`; then the page: `Es6Promise`, `HubClient`, `Streams`, `Codec` with what is below
it, jQuery's five and Bootstrap's five in `PageLibraries`.

Next:

1. `ChatHub`: joins, leaves and sends of concurrent connections over an external
   group manager; that a client which was told it has joined receives what is sent
   to the group, against the calls that are not awaited (`Chat.cs:25`, `:39`).
   Instance: two clients, one group, two calls each.
2. `StepUp` composed with `BenchPlan`: `Session` replaced by the plan's outcome, so
   that "clean" is what `WebsocketBench` is proved to mean by it.
3. `ServiceVms`: launch and poll of a service on machines, the tries over it, and
   what a failed launch leaves; with `restart_all_pods` and the trackers as the
   same pattern for pods; `VmPower` for start and deallocation.
4. `Counters`: the choice of counters at a step's boundary and the filter of
   outliers of `parseresult.go`, against a reference definition over all short
   sequences of counters.
5. Proofs: the queue and the write side of `Streams` in a module of their own
   without recursion.
