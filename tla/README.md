# A TLA+ model of nclink-c

nclink-c is a C library for NC-Link, a protocol by which applications read,
write and command CNC machines through an MQTT broker. A *device* runs the
server side, an *application* the client side, and files travel over an FTP
connection that the device opens to an endpoint of the application. The library
is multi-threaded C over one mutex and one condition variable per object, and
nearly all that is hard in it is there: which thread holds which lock, what was
read before a lock was released and is used after, who frees what when several
threads finish at once. That is what these modules model.

The machines themselves are reached through *drivers*, one per vendor protocol.

The modules are translated from the source under `src/stack/src` and
`src/clients`; references like `client.c:1362` are to files there (`client.c`
without a directory is `mqtt/client.c`). `PROJECT.json` lists components, runs and hazards
and maps every definition to the lines it models.

## Inventory

| Part | Source | State | Operations | What makes it correct |
|---|---|---|---|---|
| Thread pool | core/thread_pool.c 1-280 | queue, worker slots, counter, shutdown flag | create, submit, worker loop, shutdown | accepted tasks run once and in order; count = threads; core size kept; shutdown ends |
| Thread service | core/thread_pool.c 281-314 | the process-wide pool | get (created on demand), shutdown | one pool; no deadlock with its own tasks |
| TTL cache | core/thread_pool.c 316-551 | entries with expiry | put, get, remove, purge | a value has one owner; entries do not pile up |
| Condition variables | core/platform.c | Windows: waiters, semaphore; POSIX: pthread | wait, signal, broadcast | no lost wake-up |
| MQTT client | mqtt/client.c | socket, session flags, pending slots, SUBACK slots, remembered filters, inbound QoS 2 table | create, connect, disconnect, publish, subscribe, unsubscribe, reader thread with keep alive and reconnect | below |
| MQTT packets | mqtt/packet.c | none | encode, decode | round trip |
| Client requests | client/client.c | response cache, condition variable, handlers | request, on_message, subscribe | own response, once, in time |
| Client holder | client/client_holder.c | table of clients by serial number | get or create, idle sweep, routing, shutdown | one client per device, with its filters; no client freed in use; no stall of the reader |
| Server requests | server/server.c | table of method tasks, bindings, model | on_message, dispatch, async call / status / result, free | outcome told once; nothing used after its free |
| Sample channels | server/server.c 1920-2600 | one thread per channel, a table of them | add, remove, stop all, collect, publish | one sampler per channel with one owner; windows complete; none outlives the server |
| File channel | file/file_channel.c, file/file_tool.c, file/server_file_tool.c | lease, login, FTP session | open, refuse, preempt, close, transfer | peer and device agree; a login lives as long as its lease |
| FTP server | ftp/ftp_server.c | accounts, sessions with REST offset and data connection | commands, add and remove account, stop | a revoked login is cut off; a session ends |
| FTP client | ftp/ftp_client.c, ftp/ftp_common.c, file/server_file_tool.c | control connection, attempts | login, upload, download, list | commands and replies in step; OK means a whole copy; resuming loses nothing |
| HTTP and REST | http/http_server.c, rest/rest_api.c | listener, accept thread | start, stop, serve | |
| Host and tools | tool/host.c, tool/tool.c | declaration, model document, registered points | create, join the file tool, register, poll, free | every point placed once, under its own id; failures leave nothing behind |
| Device model | model/model.c, server/server.c | tree of nodes, table of bindings, METHODS item | resolve, call, probe, replace the model | the declared point runs; METHODS is what can be called |
| Data | message, json, schema, regex, codec, charset, config, general | trees and strings | parse, print, validate | sequential |
| Platform | core/socket, env, common, logger, library, ncl_mem | | | I/O |
| Machine drivers | clients/, tool/driver.c | one connection, one pair of buffers and one mutex each | open, close, read a batch, write, raw | the answer decoded is the answer to the request; a failure does not outlive its call |
| Packaging | plugins, dist, tools, examples | | | |

How they interact. The MQTT **reader thread** calls `on_message` of the holder
or of the host. On the client side that puts the response in the cache of the
client and broadcasts to the threads that wait in a request, or runs an event
handler on the reader thread itself. On the device side it submits a task to the
**thread service**; the task computes an answer and publishes it with QoS 2,
which waits until the reader has read the acknowledgement. An asynchronous
method is a second task of the same pool. Opening a file channel is such a
method: it makes the device dial back to the FTP endpoint of the application.
Items are read from the machine by a driver, on pool threads and on the sampling
threads, which publish their windows through the same MQTT client.
So the MQTT client serves everything and must not be blocked, and the pool may
run a task on the very thread that submitted it, which may be the reader.

The hard behaviours, each listed with its line in `PROJECT.json`: callers and
reader on the slots of the MQTT client while the connection goes and comes;
disconnect against the reader; time-outs that race with late answers; the pool
growing, shrinking and shutting down under submitters; a free of the server
under running methods; two peers that want one lease; calls lost halfway; an
answer of a machine that comes after its request was given up; a client found in
a table and freed by a sweep; a sampler stopped while it publishes; a file that
is resumed at an offset which was right for an earlier connection.

## Modules

`TaskService` is the abstract pool; `ThreadPool` implements it and `ServerCalls`
is built on it. The modules of the MQTT client cut one C structure along the
fields they use: publishing reads `connected` and the slots, subscriptions the
table of filters, the session the socket and its flags. Each has the loss of a
connection as actions, since all three meet there. Their proofs share
`MqttClientProofs`, which extends all three; so `ServerCalls` is proved about beside
`ClientRequests`, in `RequestsProofs`, and `FtpTransfer` beside `FileChannel`, in
`FileChannelProofs`. Names differ where two modules of such a pair would clash:
`SubsSpec`, `SessionSpec`, `ServerSpec` and `FtpSpec` are the specifications.

### TaskService, ThreadPool, ThreadPoolProofs

`TaskService` says what a pool promises: tasks are accepted while it is open,
start once in the order of acceptance (or at once on the caller's thread when
the queue is full), and finish; after a shutdown nothing is accepted but from callers
that were already inside, waiting for room.

`ThreadPool` has one action per critical section of `thread_pool.c`. `queue`, `workers`,
`slots` and `phase` are the fields of the pool; `wstate` and `job` say where each thread
is, `task` and `round` where each call of submit is. The wait on the condition is two
states, blocked and returned (woken, or expired), because others get the lock in
between; signals pick any waiter, and waits may end for no reason. A call that waited
for room does not look at `shutting_down` again (`thread_pool.c:206`): what it queues
after a shutdown began is marked `late`, a mark of the model only, since nothing is
promised for it. Threads are named once and never born again: the set `Threads` bounds
how often the pool can grow. `Rounds` is the 10 of the code.

### MqttPublish

Publishing threads, the reader, the connection and a broker. A call takes an id,
then a slot, sends, waits, and gives the slot back, each under its own hold of
the mutex; the reader reads packets in order of arrival and completes slots; the
connection may be lost at any moment with packets in both directions, and comes
back by the three steps of the code (socket open, CONNECT sent, CONNACK read).
`Recursive` says whether a thread may take a mutex twice: a Windows critical
section may be, the default pthread mutex of `platform.c:51` may not.

### MqttSubscriptions

Threads that subscribe and unsubscribe, the table of remembered filters, and the
reader's restore of that table on a new session, which walks the table by index
with the lock released between entries. `linked` is `connected`, `online` says whether
the socket is open, `stage`, `reply` and `outcome` follow a call, `outgoing` and
`incoming` are the packets on the way. The broker acts on what it is sent.
`Apart` keeps calls of unsubscribe out of a restore.

### MqttSession, MqttClientProofs

One thread that calls connect and disconnect in any order, and the reader, step
by step between their uses of the mutex: socket opened, shaken hands, detached,
shut down, joined, closed. Sockets are numbered, so that a close of the wrong
one or a second close shows. The peer may fall silent, close, or send DISCONNECT,
also for a session taken over.

### ClientRequests

Threads that make requests and wait, the reader that puts responses in the cache
and broadcasts, the time to live of the cache, and a device that answers in any
order, late, or never. A response is filed under its topic (probes) or its
`@id`; the caller has a key of its own; both are modelled as the code computes
them. An event handler may itself make requests, on the reader thread.

### ServerCalls, RequestsProofs

Requests from the reader through the pool (as `TaskService`) to the answer. An
asynchronous call registers its task and submits its method; the method stores
its outcome; status and result queries look in the table. `ncl_server_free` may
begin at any time and goes through the table entry by entry. Use of freed memory
is the state `undefined`, after which nothing is claimed.

Before each submit stands `GetService`, which needs the mutex of the thread service.
`ncl_thread_service_shutdown` may be called once, at any time (`ncl_thread.h:58`):
`ClosePool` takes that mutex, `CloseEnds` returns it when the queue is drained and the
workers are gone, and in between a worker that wants to submit a method waits for the
mutex, and the shutdown for the worker. `Stuck` names that state and its sibling, a late
request the drain loop waits for; liveness is claimed outside them, and
`ServiceShutsDown`, which is not checked, shows the first (see the divergences). A submit
that waits for room (`Pool!Enter`) may outlive the pool, which is `undefined` as well.

### FileChannel

Peers open and close leases over method calls that may time out before or after
the device handles them. A call's number stands for the password it mints. The
device keeps one lease, dials back with the password it was given, and is cut
off when the peer revokes the login. `force` takes the channel from another
peer. The device may restart. `troubled` collects the peers to which something
out of the ordinary has happened (a time-out, a preemption, a restart): agreement
is claimed for the others. A session goes through PASS in two steps, `Transfer` and
`LogIn`; `slipped` says that its login was revoked between them.

### DriverExchange, DriverExchangeProofs

Two threads share one driver context. What distinguishes the eleven drivers with a
connection, FOCAS counted once more as it is when "retries" is configured, is described
by records: `Exchange` (is the request numbered, must the answer name its function, does
a receive that fails shut the socket), `Request` (what a retry does), `Session`
(handshake, what counts as open), each entry translated from the function it is mapped
to. The actions are shared: open on demand under no lock (`Look`, tool/driver.c:464),
then lock, exchange, decode, unlock. The device answers in order; a late answer stays
`owed` on the connection until somebody reads it or the connection is closed. Not every
driver may claim everything: `Cutting` are the drivers that shut the socket after a
failed receive. The other drivers' retries are the default of each. FOCAS has 0
(`focas_driver.c:1203` reads another number); with more it sends again on the socket
that failed and shuts it only after the last attempt, so `focas_retry` is not in
`Cutting`.

### ClientHolder, ClientHolderProofs

The process-wide table of clients: applications look clients up, start the holder
and shut it down; the reader thread looks one up for each message. A lookup
sweeps idle clients and creates missing ones, under `holder->mutex`, and a
creation subscribes filter by filter, waiting each time for a SUBACK that only the
reader takes in. The connection remembers its filters, may lose its link, and
some acknowledgement may not come. Idle time is a choice: a client nobody has
looked up since may be idle.

### SampleChannels, SampleChannelsProofs

Samplers, and the threads that add and remove them, stop them all and free the
server. A task is owned by the table, or by the thread that took it out or has not
put it in yet (`held`); the stop flag and the table are under two mutexes, and
each use of one is a step. A sampler fills a window of `Rounds` rounds, looks at
its flag before each and before it publishes, and sleeps until the next.

### FtpTransfer, FileChannelProofs

One file moved by the file tool with the FTP client against sessions of the FTP
server at the peer. Commands, replies (preliminary and final), data connections in
both modes, the REST offset, the open and the truncating close of the local and
the remote file, the retries at three levels (modes, attempts, tries) and the
sessions, which read, store and end on their own. A copy is a sequence of pieces:
missing, a prefix, the whole, or stale. `pc` is the command or the loop that the
client is at, `asked` whether its reply is awaited; `OnReply` does what the client does
with a reply, or without one (`NoReply`). The ghosts `strayed` and `crossed` mark
the two situations in which the code does not keep its promise (see the
divergences); what is claimed is claimed outside them.

### DeviceModel, DeviceModelProofs

From a declaration to an answered request. The host builds a document from the
declaration of an adapter (or takes the one a site names), joins the file tool,
creates the server, subscribes, and then opens tool after tool and registers point
after point (`BuildDocument` ... `RegisterBuiltin`, each with its failure). As soon as
there is a server, handlers resolve an id in the tree, look the point up, call it,
answer probes and replace the model. Documents are sequences of nodes with a path
and an id; an id is a letter and a number, so that the renumbering of a joined tool
is arithmetic. Which of several nodes of one path counts (`Shadowed`) follows the
order in which `model.c` enters them in its map. One row of `bindings` stands for the
methods of a point and for the bindings of its path. The METHODS item is built from
the table in one step and put into the tree in another, as the code does without a
lock; `raced` marks the histories in which two threads were between such steps, which
`CapabilitiesTold` leaves out in part (see the divergences).

## Runs

`MC<Module>.tla` holds the instances, `<run>.cfg` the values. Runs check for
deadlock except where their .cfg says that the system may stop. The sizes are the
smallest at which the interesting case of each property can happen; each property
has a mutant in `PROJECT.json`, a plausible bug in one definition under which the
same run finds it violated. Several invariants are conjunctions of named parts
(`WorkersSound`, `SlotsSound`, `FiltersSound`, `SessionSound`, `AnswersSound`,
`OutcomeSound`, `HandlesSound`, `ClientsSound`, `TasksSound`, `InStep`,
`DocumentSound`, `CapabilitiesTold`): the parts
are defined just above them, with what each says. So are `WorkGetsDone`,
`ServerAnswers` and `LossHandled`, each of two liveness properties.

| Run | Instance | Shows |
|---|---|---|
| ThreadPool | 3 tasks, 3 threads, core 1, max 2, queue 1, 2 rounds, shutdown with and without wait | counters and slots are right and the pool never falls below its core size; a task accepted before shutdown is run before the pool is freed; `TaskService` is implemented; shutdown returns unless it waits for a late task |
| MqttPublish | a QoS 1 and a QoS 2 publish, 1 slot, ids 1..2, 2 lost connections | no slot leaked or shared and NCL_OK only for a message the broker took; no caller sleeps past its acknowledgement; publish returns |
| MqttSubscriptions | 2 subscribes (one denied), 1 unsubscribe, 3 filters, 2 lost connections | at rest the broker has what the table says, a filter subscribed survives a loss, an unsubscribed one stays gone; a remembered one becomes active |
| MqttSession | 4 calls, 4 sockets, 2 refused handshakes | sockets closed once and not under a receive, `running` tells whether there is a reader; calls return; silence is noticed; a lost session is replaced |
| ClientRequests | 2 queries, 2 probes, one probe inside an event handler, 1 query the device answers in time | own response, taken once; no sleep beside a response; no missed response; an answered query returns although a handler blocks the reader for a while |
| ServerCalls | 1 asynchronous call, 1 status, 2 result queries | the outcome is told once and is the method's; a handle works until it is collected and nothing is used after its free while server and service are up; requests are answered, calls finish and the shutdown of the service returns, unless it is `Stuck` |
| FileChannel | 2 peers (one forces), 3 leases, 4 calls, 1 restart | a login lives exactly as long as it is of use; peer and device agree; a session that is logged in has a login |
| DriverExchange | 12 drivers (FOCAS twice), 2 threads, 2 calls each of 5 kinds, 2 faults | cutting and numbered drivers decode their own answers; a cutting driver leaves nothing behind; nothing is asked before the handshake; one failure does not outlive its call |
| ClientHolder | 2 applications, 2 devices of 2 filters, 3 clients, 4 calls, 1 message, 1 fault | one client per device, whose filters the connection keeps; no client used after a sweep freed it; no lasting wait for the reader under its lock |
| SampleChannels | 2 callers, the owner, 2 channels, 2 samplers, 3 calls, windows of 2 | one owner per sampler, one sampler per channel; none samples a freed server; whole windows only; stops return |
| FtpTransfer | 2 pieces, 2 attempts, 2 tries, 1 call, 2 faults, 1 of them a lost control connection | a command is sent only when no reply is due; OK means a whole copy; what was uploaded is not lost by a resume; orphaned sessions end |
| DeviceModel | 7 declarations, 2 documents of a site, file tool or not, 2 handlers, 5 questions, 1 probe-set | every point is placed, and sampled under its own id but for a declaration whose numbers the join misses; the declared point runs, or none is there; METHODS tells what can be called |

Bounds. One slot with two publishers makes every contention for a slot; ids up to 2 are
enough for a late acknowledgement to meet another call's slot and do not wrap into a
live one with two calls. Two losses let a restore be interrupted by another loss. Four
calls of connect and disconnect reach connect, disconnect, connect, disconnect, the
longest sequence whose parts differ. Three threads let a pool of two grow, retire a
worker and grow again. Four file calls let each peer open and close, or one open, be
preempted, and open again. Two threads and two calls let a late answer of one call meet
the next call of the same thread and of the other; two faults make a retry fail too.
Three clients let a device be swept and created again while the other lives. Two
samplers let two additions of one channel meet. Two attempts and two tries take every
way through each loop: first, retry, last; a file of two pieces can be missing, partial,
whole and stale. The declarations of DeviceModel are the shapes that differ for it: a
component shared with the file tool and none, a method between two values, nested
components, such a component numbered last, a device of another type, and those that are
refused; one probe-set meets every stage of the registration (two were run once, 5.9
million states, with the same result); three ids for METHODS are enough for its
documents to take one (`MaxIds`, 100 in the code). Counters (calls, drops, restarts,
refusals, sockets, clients, messages, faults) are bounded in guards and named as
constants.

Fairness. Threads that can run do run: weak fairness of each worker, caller,
sampler, session and of the reader (the scheduler of the operating system). Timed
waits end: `SubmitTimeout`, `Deadline` and the idle timeouts are actions of those
threads. A broker that has received a packet and a live connection answers only
where a property needs it (`MqttSubscriptions`), a device answers in time for the
requests in `Patient`, methods return. Faults are finite (`MaxDrops`,
`MaxFaults`). Nothing is fair about faults, refusals, calls of the application, or
which waiter a signal picks.

## Proofs

TLAPS proves, for any values of the constants allowed by the assumptions:

* **ThreadPoolProofs** (from `PoolAssumption`). `IInv` is inductive and holds of `Spec`.
  It adds to the checked properties that the queue holds each queued task once
  (`QueueInv`), that busy workers and running tasks correspond (`JobInv`), how far a
  shutdown is (`ShutdownInv`), and that somebody is left to drain a queue (`DrainInv`).
  None of `WorkerAccounting`, `CoreStaffed` or `CleanShutdown` is inductive by itself:
  the counter could be right while a task is queued twice, or run by nobody. From it:
  `TypeCorrect`, `Accounting`, `CoreSize`, `NothingLost`, and `PoolServes`, that every
  step of the pool is a step of `TaskService` or a stutter. Calls that wait for room
  when a shutdown begins are in it; `DrainInv` and `NothingLost` speak of what was
  queued before. Cardinality arguments use the facts of FiniteSetTheorems about adding
  and removing one element.
* **FileChannelProofs** (from `FileChannelAssumption`). `TypeCorrect`, in four parts
  (peers, wire, device, history) so that a step argues only about what it changes;
  `LoginCorrect`: a login exists exactly while its peer holds a lease or asks for one;
  `RevocationHolds`: a session that is logged in has a login, unless it was inside PASS
  when that was revoked. `SessionInv` adds to this that a session inside PASS has one
  too or has slipped, that who is dialled is a peer, and that there is no session with
  nobody; by it `LogIn`, which looks at nothing, keeps the property. `LoginTracksLease`
  is inductive relative to the types, because every path out of an open, the failing
  ones too, decides about the login in the same step as it ends the call. What the
  device does cannot matter to it (`DeviceLeavesPeers`). `LeasesCorrect`: outside a
  call, device and peer agree on the lease unless something out of the ordinary has
  happened to that peer. `LeaseInv` says of each such peer what its request and its
  answer on the way still mean (`Calm`): the request is the one it waits for, the answer
  is true of the device until it is read. It needs that numbers of calls are fresh
  (`Numbered`) and that a lease has the name of its owner (`Named`).
* **FileChannelProofs**, transfers (from `TransferAssumption`: any length of the file,
  any attempts, tries, calls, faults and sessions). `CommandsInStep`: `FtpInv` says at
  each place of the client what the session of its connection owes it (`Protocol`):
  nothing before a command is sent, one answer after it, for a transfer first the 150
  and then the completion, which a client that gives up still waits for. Its `Offset`
  and `Bounded` say that a session never has more of the file to send than the client
  lacks, so that the client's count stays a length. `DoneMeansWhole` and `NeverCutBack`
  (`OkMeansWhole`, `KeepsPrefix`) come from `Copies`, on top of `FtpInv`: as long as
  nothing has gone astray, a copy is the beginning of the file or too long (`Sane`); one
  session at most stores, the client's own (`Alone`); its copy ends where the pieces
  under way begin (`Stores`), or will when it reads its command (`Ordered`); what SIZE
  answered is still so when the client reads it, since answering was the last the
  session did (`Told`, `Measured`); and what the client counts is what lies there and on
  the way (`Resumes`, `Uploads`, `Downloads`). The two properties say nothing of how the
  two sides come to agree on an offset; that agreement is the invariant.
* **RequestsProofs**, the caller's side (from `RequestsAssumption`: any requests of any
  kinds). `Own`, `TakenOnce` and `WakesCaller`, from an invariant `RInv` in five parts:
  the types; `FiledRight`, an entry and what a caller got answer a request that is filed
  under that key; `InOnePlace`, a response is unsent, on its way, in the cache or with
  one caller, never in two of these (`AnswerTakenOnce` alone says nothing of a copy left
  behind in the cache); `LockHeld`, only a caller between its look and its wait holds
  the mutex across steps; and `Woken`, which extends `AnswerWakesCaller` to that caller:
  it is what makes the broadcast, which needs the mutex, come after the wait. `InTime`
  (`AnsweredInTime`) supposes that no request is a probe-set: the response to one is
  filed where its caller does not look, and `ProbeSetUnanswered` proves that it is never
  returned. Its invariant `StaysPut` says that a response put in time under the key of a
  caller who is alone with it stays there until that caller takes it.
* **RequestsProofs**, the server's side (from `CallsAssumption`: any calls and queries).
  `OutcomesSound` and `HandlesWork` (`OutcomeSound`, `HandlesSound`). `CallsInv` adds
  that a task waits in the pool once, for the request or the method that is queued
  (`PoolInv`), which answers each stage of a request allows (`StepInv`), that a call is
  in the table from its registration until it is collected (`TableInv`), that a query
  told an outcome has taken the call out of the table, so no second query finds it
  (`ToldInv`), and that while the server is up only that query frees the task (`UpInv`).
* **DriverExchangeProofs** (from `DriverAssumption`: any threads, drivers, numbers
  of calls and faults). `NothingLeft`: a driver that shuts the socket down when a
  receive fails never leaves an answer for a later request; `CuttingReadsOwn`:
  every answer such a driver decodes is the answer to the request just sent. The
  invariant `IInv` adds to them the types and mutual exclusion: between `Enter`
  and `Leave` one thread holds the context, and what is owed on the connection is
  owed to that thread. Without it a second thread could send between the request
  and its answer.
  `ReadsOwn` (`OwnReply`) extends that to S7, which goes on with a connection after a failed
  receive but numbers its requests: `S7Inv` says that a second attempt starts on a
  connection of its own, so what is owed is never older than the request before, and two
  successive numbers differ. The assumption has numbers of at least two
  values, `Ids > 1`; the code has 256 or more. `Greets` (`GreetedFirst`): every open
  connection of a driver other than LSV2 is a greeted one (`Greeted`), since what a
  driver does on its first connection it does on those that its retries make.
* **MqttClientProofs**, publishing (from `PublishAssumption`: any calls, slots, identifiers
  and losses). `SlotsKept`: the slots in use are those of the calls in progress, one each,
  and no error path keeps one; `NobodyOversleeps`: no caller sleeps past its
  acknowledgement or the end of the session. The invariant `IInv` adds to these
  `PublishOfCall`, that a PUBLISH on its way belongs to a call, without which the
  types say nothing of whose message the broker takes. `SlotsCorrect` adds
  `OkMeansTaken` and so has all of `SlotsSound`, supposing no more calls than identifiers
  (65535 in the code; when they wrap into live ones the property is false, see
  `IdsDistinct` below). Identifiers are given in turn: `IdsInv` measures how far each lies
  behind the one given last, which makes the next one new; `SentInv`, `AckInv` and `DoneInv`
  follow a message from its packet to the slot, through the acknowledgements that may come
  late, after a time-out or for an earlier connection.
* **MqttClientProofs**, the session (from `SessionAssumption`: any calls, sockets and
  refusals). `SessionCorrect` supposes that a thread can be started (`~StartMayFail`): a
  `connect` whose thread does not start leaves `running` set, see the divergences.
  `SessionInv` adds who has which socket at each place of the caller and of the reader
  (`SocketInv`), and when there is a reader at all (`ThreadInv`).
* **MqttClientProofs**, subscriptions (from `SubscriptionsAssumption`: any filters,
  calls and losses). `FiltersCorrect` has the hypotheses under which the code keeps its
  promise: no unsubscribe begins during a restore (`Apart`), no filter is both
  subscribed and unsubscribed (`Distinct`: the two calls change the table and write to
  the socket under separate holds of the mutex, so concurrent ones may leave table and
  broker disagreeing), the table is large enough (`Room`), and nobody finds all slots
  for a SUBACK taken (`SlotLeft`, of every state: the restore skips a filter then).
  `SubsInv` says of every filter in the table that the broker has it, a SUBSCRIBE is on
  its way, or the walk of the restore has yet to come to it (`TableCovered`), and that
  behind an UNSUBSCRIBE nothing asks for its filter again (`Withdrawn`); the run checks
  two kinds of calls at once, the theorem any number.
* **SampleChannelsProofs** (from `SamplesAssumption`: any callers, channels, samplers
  and windows). `TasksKept`, `FreeIsLast` and `PacketsWhole`. The invariant `IInv` says
  of every sampler that the table or one thread has it (`OwnedOnce`), what a thread has
  in hand at each place of its call (`CallerHolds`, `OwnerHolds`), that a task not born
  has no thread (`Unborn`), that only late additions are in the table once the free has
  begun (`FreeInv`), and how far a window is filled where its sampler stands
  (`WindowInv`). `TasksSound` counts owners; `Counted` derives the count from
  `OwnedOnce` with the facts about singletons.
* **ClientHolderProofs** (from `HolderAssumption`: any threads, devices, clients,
  filters and faults). `ClientsKept` and `NeverSwept`. The invariant `IInv` adds which
  locks a thread holds at each place, and that a holder that is gone has no reader or is
  being shut down (`LocksHeld`); that clients are numbered as they are made
  (`Numbered`); that a client handed to somebody is fresh (`UseInv`), which is why no
  sweep takes it; and what the holder of the mutex has done so far (`WorkInv`): whose
  filters it took away, which of them it subscribed.
* **DeviceModelProofs** (from `DeviceAssumption`: any declarations with a finite list of
  points). `PlacesEveryPoint` (`DocumentSound`): the document built of any declarations
  is sound, whatever is numbered last. The order of the nodes is written without
  recursion (`Ordered`: the member with k others before it is the k-th), so the proof is
  about ranks and cardinalities (`OrderedAll`, `PickedAll`), not about the loop: every
  component and point is there once, under a number of its own (`ToolModelIs`); where
  the walk meets the highest number (`NumbersMet`) the offset is above every id of the
  letter (`OffsetAbove`), so the ids of the joined tool are new (`JoinedIs`); that the
  server accepts the document needs less, that no component has the id of a point
  (`Parses`); a component that both tools have is left out and nothing else (`Joining`).
  `Holds` collects what the four parts of `DocumentSound` need, `DocBuilt` is the
  inductive invariant that says how the document came about. The hypothesis is
  `Declarable`: the path of a point with a value is neither empty, nor a component on
  the way to another, nor SAMPLE_CHANNEL; the file tool has no channel and no nested
  component, and no point at or around one of the adapter it joins. The validation in
  `tool.c:309` demands none of this, but the declarations in `plugins/`, in the tests
  and in `file_tool.c` keep to it, and TLC evaluates it for the declarations of the run
  (`AllDeclarable`). Nothing is supposed about numbers: what a declaration that fails
  `NumbersMet` loses, its unique ids and its channel, is excepted in `DocumentSound`
  itself, and the run has such a declaration, `NestedLast`. `RunsRightPoint`: the
  invariant `IInv` says that the table holds rows of the tools and of the built in tool
  only (`TableInv`) and every row that the registration has passed (`Complete`); the
  first makes the point that runs the declared one, the second makes "not found" final
  once the host runs. Neither depends on the tree, which is why replacing it in between
  does no harm. `TellsOnlyBound`: METHODS tells of nothing that cannot be called,
  however many threads are at the item; `TellsCapabilities` (`CapabilitiesTold`): as
  long as one is, it tells of all. `CapInv` says that what is told, and what a thread
  that refreshes the item has read, is in the table (`Told`), which only grows, and that
  with nobody between two steps and nothing dirty there is one item with everything in
  it (`Alone`). The second theorem supposes `Room`: each document leaves one of the
  identifiers that are tried for the item. The code tries a hundred and uses the last
  whether it is free or not.

Only model-checked:

* The liveness properties (one or two in every run but DeviceModel's and FileChannel's):
  fairness and ENABLED are outside the proof system. Every invariant and every action
  property of the runs is the conclusion of a theorem.
* What the theorems' hypotheses exclude: identifiers that wrap, threads that do not start,
  filters that are subscribed and unsubscribed at once. The divergences tell what happens
  then, and what happens in the states that properties except (`Stranded`, `Stuck`,
  `slipped`, `troubled`, `strayed`, `crossed`, `raced`, `NumbersMet`).

## Known divergences

Each of these has a definition in its module and no run of its own. Put the named
property alone in the .cfg, with the constants given, to see the trace.

* `MqttPublish!PublishReturns` with `Recursive = FALSE`: a publish whose wait ends
  without an acknowledgement calls `set_error` with the mutex held (`client.c:1362`),
  and `set_error` takes it (`client.c:122`). A Windows critical section may be taken
  twice; the default pthread mutex of `platform.c:51` may not, and there the caller
  blocks for ever, and with it every user of the client, against "the call blocks until
  the broker acknowledges ... or timeout_ms elapses" (`ncl_mqtt.h:403`). The run checks
  the property for the recursive mutex.
* `MqttSession!KeepsReconnecting` (with `MaxOps = 3`): `disconnect` clears
  `automatic_reconnect` (`client.c:1276`) and no later `connect` sets it: from then
  on a lost session stays lost.
* `ClientRequests!AnsweredReturns` with a ping among the requests (`OnePing`,
  `WithPing`, `Nobody` as handler, `ThePing` patient, so without its deadline, and
  therefore `CHECK_DEADLOCK FALSE`): `ncl_client_subscribe` leaves
  out `Pong/<sn>` (`client/client.c:203`), so a ping times out although the server
  answers it (`server/server.c:1666`).
* `ServerCalls!RunningCallOutlivesServer`: a method that outlives its server locks
  the destroyed mutex of the freed server to find out that it was abandoned
  (`server/server.c:1787`, 909).
* `FileChannel!HeldLeaseWorks`: opening again while a channel is held changes the
  password of the login (`file/file_channel.c:534`) before the device is asked;
  when it refuses, or answers `reused`, the channel that is held no longer works.
* `ThreadPool!JoinsEveryWorker`: a worker started when all slots belong to
  retired, unjoined workers is detached (`thread_pool.c:125`) and not joined;
  `ncl_thread.h:49` says "join every worker".
* `ThreadPool!StopsAccepting`: a submit that was waiting for a place queues its task
  after the shutdown began (`thread_pool.c:208`), against "Stop accepting work"
  (`ncl_thread.h:49`). The caller is told NCL_OK, and if every worker has left the task
  is never run; with `wait` the loop that drains the queue then waits for it for ever
  (`ShutdownReturns` without `Stranded`), and without, the pool is freed with the task
  in it. The caller itself may still be inside, and goes on with a destroyed mutex.
* `ServerCalls!ServiceShutsDown`: `ncl_thread_service_shutdown` holds the mutex of the
  service while it drains the pool and joins the workers (`thread_pool.c:306`); a worker
  that handles a Method/Call asks for the service to submit the method
  (`server.c:1423`), waits for that mutex, and is never joined. The header says "Shut the
  shared pool down (call once during process teardown)" (`ncl_thread.h:58`) and nothing of
  requests that must be over. A reader that waits for the mutex has it destroyed under it.
* `FileChannel!EveryLiveSessionHasLogin`: "A revoked credential must not keep its control
  connection alive" (`ftp_server.c:1346`), but a session that has checked its password and
  not yet set `logged_in` when the login is removed (`ftp_server.c:974`) is not seen.
* `DriverExchange!FocasReadsOwn`: FOCAS with "retries" configured sends again on a socket
  it has not shut (`focas_driver.c:183`); the late answer to the first attempt is taken
  for that to the second, whose own then meets the next request of that function,
  against "one session, one request in flight" (`focas_driver.c:13`).
* `MqttPublish!IdsDistinct` (ids wrap, `client.c:185`) and `ConnectFirst` (a
  publisher that was waiting can send on the new socket before CONNECT,
  `client.c:689`).
* `MqttSession!DisconnectIsFinal` (`client.c:752`), `ConnectMeansAccepted`
  (`client.c:1199`), and `RunningMeansReader` with `StartMayFail = TRUE`
  (`client.c:1226`).
* `MqttSubscriptions!Restored` with `Apart = FALSE`: an unsubscribe moves the
  table under the index of the restore, which skips a filter (`client.c:819`);
  with `MaxSubacks = 1` it skips one because the slot is taken (`client.c:788`).
  `UnsubscribedGone` with `Remembered <- TwoRemembered`, `Calls <- OneCall`,
  `Kind <- AllUnsubscribe`, `Apart = FALSE`: the restore remembers again what
  was unsubscribed (`client.c:782`). `Restored` with `MaxSubs = 1`: a filter
  beyond the table is not remembered and the call does not say so
  (`client.c:302`).
* `ServerCalls!HandledOffReader`: a full pool runs the request on the reader
  thread, which `server.c:1849` says must not happen.
* `FileChannel!RevocationFailsTransfers`: a close or a forced open frees the FTP
  client that a transfer on another pool thread uses (`file_tool.c:322`).
* `DriverExchange!GreetedFirst` without its exception: a retry of LSV2 connects
  and does not log in (`lsv2_driver.c:155`), against "a lost link is rebuilt (login
  included)" (`lsv2_driver.c:153`).
* `DriverExchange!OwnReply` for the drivers it leaves out: FINS, LSV2 and Modbus RTU
  keep the connection after a timeout on the last attempt, and from then on each
  request reads the answer to the one before. S7 notices by the number and fails
  calls until the connection is remade. For MELDAS and Syntec `Recovers` fails:
  a socket that was shut still counts as a session (`tool/driver.c:464`).
* `FtpTransfer!OkMeansWhole` without `strayed`: a REST whose transfer never began
  stays in force at the server; the next RETR starts at an offset the client did not
  ask for, and the client returns OK for a file that is not the peer's
  (`ftp_server.c:679` and its RETR counterpart, against `ncl_ftp.h:165`). Without
  `crossed`: a control connection lost in the middle of an upload leaves a session
  that is still storing while the next one resumes (against `ncl_ftp.h:151`).

* `DeviceModel!UpToDate` by itself: a registration between the two halves of a refresh
  (`server.c:673`, 279) is missing from METHODS although `methods_dirty` is cleared, until
  the next registration or probe-set; and while `save_model` has the item out
  (`server.c:990`) a refresh makes a second one, and a file may be written with it.
* `DeviceModel!DocumentSound` without its exception for `NumbersMet`, that is `Built =>
  IdsUnique`: the walk that finds the highest id does not descend into nested components
  (`tool.c:1124`), so of `NestedLast` the components of the file tool get ids that are
  taken. No adapter in the repository has a nested component with the highest number.
  For the same reason a nested point of a joined tool keeps its id, a channel that
  samples it makes the model unparsable, and of a component both tools have, the nested
  components of the second are dropped (`tool.c:1277`).

Found by reading, in parts not modelled or abstracted. *Requests and server*: the answer
to a probe-set is filed under its topic while its caller waits for its `@id`
(`client/client.c:302`, 519), so it times out; probes that overlap on one topic may take
each other's answers, a late one included (`OwnAnswer` excludes probes for this reason);
responses nobody collects stay in the cache; a result whose answer is lost is gone, and
the next query is told ERROR; status stays at the text the method last reported after it
has ended; a peer whose lease was taken by force can still write through the device's
new endpoint. *Drivers*: `s7_raw` takes no mutex (`s7_driver.c:569`); a raw reply, and
`last_raw`, are read after the unlock (`modbus_driver.c:893`, tool/host.c:134); writes
are sent again by retries; a Syntec answer numbered 0 and a Modbus transaction of 0xFFFF
match any request. *Holder*: a half-failed subscription leaves a client without part of
its filters; a sweep on the reader thread waits for UNSUBACKs it cannot read; a message
that comes during a shutdown creates a client nobody frees; a handler that looks a
client up while a shutdown joins the reader blocks both; `g_holder_mutex` is created on
demand without a lock. *Samples*: adding a channel again with bad parameters removes the
one that ran; the model is read without a lock when a task is created (`server.c:957`);
pool threads are not drained before `ncl_server_free`; `host->points[].node` dangles
after a probe-set, and `ncl_host_poll_one` writes to it (tool/host.c:612, 1039); an open
that fails leaks the paths of the registration (tool/tool.c:1610); a copy of a node
shares the nodes its channels sample (model/model.c); the host frees its server before
it disconnects MQTT, against the comment at tool/host.c:815, though `main.c` never gets
there. *Transfers*: a passive data command that is refused leaks the connected socket,
and a server that was already storing waits on it for ever, with `stop` waiting for the
session (`leaked` in FtpTransfer); the receive loop of STOR heeds neither time-outs nor
the stop flag (`ftp_server.c:697`); RETR without a login sends two replies; a stale
mirror of the same size is taken for the file; `stop` joins and frees its list of
sessions unlocked while `remove_account` may walk it.

## Not modelled

The modules cover what is concurrent, stateful and hard to test; by lines that is a
small part of the repository, and much of the rest would not be better checked as TLA+.
Bytes, packets, JSON, schemas and the model tree are sequential code whose state space
is its input; unit tests and fuzzers cover them. Of the model tree DeviceModel takes
what ids, paths and channels need. A handler that walks a tree which another frees
(`server.c:957`) is below its steps. Also left out are the frame and value codecs of the
drivers, the largest files of `clients/`: tables of vendor numbers that a model could
only copy. The HTTP drivers (knd, mtconnect) hold no connection between requests. Late
replies beyond the 30 s of an FTP command, listings, directory changes, account reaping
and failures of local files are left out of FtpTransfer. Allocation failures are left
out except where an action names them. Packaging, language bindings, examples and
scripts contain no logic of their own. The HTTP server and its REST routes serve one
request at a time. Polling by the host and inbound delivery are in the plan.

## Plan

Done: the modules above. Next, in order:

1. Inbound QoS 1 and 2 with MqttPublish: duplicates after a lost connection, the
   table of ids when full or stale (`client.c:526`).
2. The Windows condition variable against an abstract one; the TTL cache; the two
   mutexes that are created on demand without a lock (`thread_pool.c:288` and the
   holder's).
3. Teardown of host, server and MQTT client together; samplers and requests on
   the broker client they share.
4. Sessions of the FTP server on their own: PASS against revocation, accept, reap
   and stop; the session part of FileChannel and FtpTransfer as its abstraction.

Theorems next: that `FileChannel` and `FtpTransfer` are abstractions of the sessions of
item 4, once those are modelled, and the lemmas about joining documents that need no
induction. A theorem about `Restored` without `Distinct` needs a weaker property: what holds
when calls about one filter overlap.
