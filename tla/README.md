# A TLA+ model of pcap_app

pcap_app captures packets on Windows machines and forwards a summary of each
packet, a *snapshot*, to a cluster:

    packet -> sniffer_packages.dll -> named pipe -> WpfApp -> gRPC -> LoadBalancer
           -> srv_pub (outbox in MySQL) -> Kafka -> srv_sub -> TCP -> MasterNode

This directory has TLA+ modules of the parts of that path that carry state and
can go wrong, TLC configurations that check them on small instances, and proofs,
checked by TLAPS, of the safety properties that hold for every instance.

* [Inventory](#inventory)
* [Modules and how they correspond to the code](#modules-and-how-they-correspond-to-the-code)
* [What the runs check and show](#what-the-runs-check-and-show)
* [Where the code disagrees with what it says](#where-the-code-disagrees-with-what-it-says)
* [Fairness](#fairness)
* [Proofs](#proofs)
* [What is not modelled](#what-is-not-modelled)
* [Plan](#plan)

To check a module: `tlc -config MCOutbox.cfg MCOutbox.tla`; to check the proofs
of one: `tlapm SnifferProofs.tla`.

## Inventory

| component | state | operations | interacts with | hard behaviour | what makes it correct |
|---|---|---|---|---|---|
| **Packet capture session** (`sniffer_packages/Sniffer.cpp`) | the bounded `PacketBuffer` with a mutex and two condition variables, the flag `running`, the pcap handle, the subscriber's pipe handle | `Start`, `Stop`, `~Sniffer`, the capture loop, the dispatch loop, `OnPacketCaptured` | controlled by `mainFunc`; writes to the named pipe | three threads; waits and notifications; a full buffer; a client that leaves; a stop while a thread waits | no lost wake-up; items neither lost, doubled nor reordered; the handle is closed last; a stop ends the session |
| **Capture control** (`ipc.cpp`, `mainFunc.cpp`, `builderDevice.cpp`, the P/Invoke wrappers in `WpfApp/IPC/Ptr`) | `quit_flag` with `m` and `cv`, `d1`, `_adhandle1`, the event, the pipe, the capture thread | `fnCPPDLL`, `fnPutdevCPPDLL`, `fnStartCapture`, `fnStopCapture`, `fnCloseApp`, `mainFunc` | called by WpfApp and serviceApp from any thread; runs sessions | signals raised while the other side is not waiting; globals outside the lock | no signal is lost; the newest device is captured; only an open handle is used |
| **Pipe reader of WpfApp** (`Worker.cs`, `ReadClass.cs`, `ObjectPool.cs`) | the client end of the pipe; `BackgroundTasks` (for the user interface) and `BackgroundTaskGrpc` | connect with a timeout, read a message, enqueue twice, wait and retry, stop | the pipe; the two queues | end of the pipe in the middle of a read; a stop during a read | what was captured is enqueued in order, and zeros only at the end of a pipe; a stop ends the loop, and leaves nothing from before its clean-up and at most one snapshot from after its cancellation |
| **gRPC streaming** (`GrpcService.cs`, `AsyncConcurrencyQueue.cs`, `srv_pub/Services/StreamingService.cs`) | the buffer block and the semaphore of its enumerator, `_clientStreamingCall`, the loop and its token; the server's end of each call | `StartAsync`, `StopAsync`, `ExecuteAsync`, `GetStreamingData` | fed by the pipe reader, stores into the outbox | start and stop that nobody awaits: several loops and calls at a time; calls that fail | one reader at a time; order; every snapshot accounted for; a stop ends |
| **WpfApp control services** (`StartService.cs`, `PutDevice.cs`, `NavigationViewModel.cs`) | flags of the capture thread, the selected device, the toggle | start, stop, select a device, toggle streaming | call the DLL and `GrpcService` | fire-and-forget calls, flags never set | what the user asked for last holds |
| **serviceApp** (`serviceApp.cpp`, `StreamSession.cpp`, `NpcapCommands.cpp`) | the service status, the session, a static read buffer | start the capture, put a device, connect to the pipe, read snapshots, stop | calls the DLL, reads the pipe, logs | a second reader of the same pipe; a stop the reader never looks at; a new process after it | each instance of the pipe has one reader, which gets the capture in order |
| **Transactional outbox and relay** (`outbox/`) | a table with `IsProcessing`, `IsProcessed`, `ExpiredAt`; row locks; one transaction per replica | `AddAsync`, `PublishAsync`, the cleanup job | MySQL; the producer | replicas at the same time; crashes; a dropped connection in the middle of the job | a row has one owner; it is marked only after its report; nothing stored is lost |
| **Kafka producer** (`kafka/KafkaMessagePub.cs`) | the producer's queue, the topic | `SendAsync` with delivery reports, `Flush` | called by the relay | retries without idempotence; failed reports | a stored message reaches the topic |
| **Subscriber** (`srv_sub/`) | the consumer's position, the committed offset, the batch, handlers under way, one TCP connection | connect, consume, `OnNext`, the asynchronous handlers, commit | Kafka; MasterNode | handlers that overlap on one connection; commits in any order; crashes | a commit is backed by an answer and never goes back; a failed message is retried |
| **MasterNode** (`MasterNode/`) | per connection: the handler's behaviour, its `AuthActor`, a `MongoDBActor` per chunk | authenticate, process a chunk, answer | the subscriber | chunks and answers that merge; answers in any order | nothing is processed before the key is accepted |
| **Legacy packet ring** (`packages.h`, `handleProto.h`) | ring with two atomic indices and a mutex; the name of the last protocol | `producer`, `consumer`, the table of protocols | compiled, no longer started; wrote to the same pipe | tests and stores without the lock; a default item into a full ring | until a lap every item is taken once, in order, under its name |
| **Listing of devices** (`builderDevice.cpp`, `fnDevCPPDLL`, `DevicesPtr.cs`, `NavigationViewModel.SetDevice`, `PutDevice.cs`) | the list the user sees, the machine's interfaces, the handlers and the state of `_worker` | count, list, pick, put | the DLL finds the interfaces anew in every call | interfaces that come and go; a number that is written into a text and read back from its first letter; handlers that add up with every pick, runs that are refused, tasks nobody waits for | what is selected leads back to an entry that was picked; no pick but a refused one is forgotten |
| **Live device of PcapPlusPlus** (`header/.../pcap/PcapLiveDevice.cpp`, `PcapLiveDeviceList.cpp`, `SystemUtils.cpp`) | two descriptors, the flags of the capture and statistics threads, `m_StopThread`; the list of devices and name servers; masks of cores; the handler of interrupts | open, close, send, start (threaded, into a vector, blocking, polling), stop; look up, clone, reset; build a mask; register, interrupt | libpcap, the operating system; no target compiles it yet | a thread that waits in libpcap while it is stopped; a dispatch that fails; an open that fails half way; a list that is fetched anew under the application; interrupts on several threads | the device keeps the contract of its header; the list is one fetch's; a handler is called once |
| **srv_pub host, LoadBalancer, WpfApp views, root desktop project, vendored code** | configuration, presentation | - | - | - | - |

The hazards, each at its line with the properties that watch over it, are in
`PROJECT.json` under `hazards`.

## Modules and how they correspond to the code

`PROJECT.json` maps every definition to the lines it translates. The style is the
same throughout: one action per critical section or per stretch of code between
two awaits, guards from the code's conditions and early returns, data reduced to
what the properties tell apart (an item is its number, a message its offset).

**`PacketChannel`** promises a bounded FIFO channel that may break once.
**`Sniffer`** is one session of the DLL: `capturer`, `dispatcher` and `control` are
the program counters of the capture thread, the dispatch thread and `mainFunc`'s
thread. `Push` and `Pop` are one step each, because they hold the mutex; the
notification each sends after unlocking is a step of its own, and so is a spurious
wake-up. `StartCapturer`, `StartDispatcher`, `StopRunning`, `JoinCapturer`,
`JoinDispatcher` and `CloseSniffer` are the statements of `Start`, `Stop` and
`~Sniffer`. The client may read or leave at any time. `ImplementsChannel` is the
refinement mapping.

**`CaptureControl`** has the exported functions, which several client threads call
at the same time (`caller` says where each call is), `fnCPPDLL`, and `mainFunc`
(`main`). Its definitions that other modules name alike begin with `Dll` (`DllInit`,
`DllNext`, `DllSpec`). A wait on `cv` is three steps: test the predicate under `m`, fall asleep,
wake up; `m` is held from the test to the sleep, so a notifier that takes `m`
(`CanLock`) has to wait, and one that does not (`ipc.cpp:153`) need not. A session
appears here only as the device and the handle it captures from.

**`OutboxContract`** says what the outbox owes a stored message. **`Outbox`** has
the table, one publish job per replica, its Kafka producer and the topic. The
reservation, the sending, the marking and the commit of `Relay.PublishAsync` are
one database transaction, so what others see are the *committed* columns; a
transaction's own writes follow from `stage`. `session` tells whether the database
still keeps the transaction: after `ConnectionLost` the job goes on without
knowing. Faults are crashes, lost connections, exceptions, failed reports, and lost
acknowledgements.

**`StreamingContract`** promises that a posted snapshot is stored once, for one call and in
the order of capture, or lost, and when it may be lost.
**`GrpcStreaming`** is the gRPC leg of WpfApp. Every start opens a call and a loop,
and since nobody awaits `StartAsync` and `StopAsync`, loops and calls of several
starts exist at a time: `loop`, `item`, `target` and `stopper` are indexed by the
start, `call`, `inFlight` and `stored` by the call. `Start`, `Stop` and
`CompleteAsync` are the two methods split at their awaits; `Receive`, `Write`,
`Written`, `WriteThrows`, `Delayed` and `DelayCancelled` are the loop; `CanEnter`
and `Leave` are the semaphore of the enumerator. `lost` and `cut` are history
variables: they record which snapshots an exception dropped and whether a stop
completed a later start's call. Under the refinement mapping `Pending` is what is queued,
held by a loop or under way in a call, and the contract is `disturbed` once a call has
failed or was cut.

**`MasterNode`** is one TCP connection: what is on its way in both directions, the
behaviour of the `ConnectionHandler`, and the questions its actors have not yet
answered. Whoever reads takes any non-empty prefix of what has arrived, so messages
and answers merge as they do on a socket; `merged` remembers that this happened.
**`ForwardingContract`** is a cursor into the topic that only moves forward, and uses up an
accepted chunk with each move. **`Forwarding`** extends `MasterNode` with the subscriber: `Consume`, `BatchFails`, `OnNext`
are the consumer's loop, `ReadResponse`, `ReadFails`, `Commit` the asynchronous
handler of one message, of which any number overlap.

**`NamedPipe`** has the instances of the pipe and `fnCPPDLL`, which serves one: the
steps `DllOpenEvent`, `DllCreate`, `DllAccept`, `DllStartCapture` are its statements, and
a client may open the instance between two of them; `DllGivesUp`, `DllCreateFails`,
`DllAcceptFails` and `DllWaitFails` are their failures, of which the last returns and leaves
a pipe that somebody may hold. **`PipeReader`** is WpfApp's
`Worker`, its loops split at every test of the token and every blocking call;
`WorkerReadsEnd` is the read that returns nothing and is queued as zeros. `StopAsync` is two
steps, `WorkerClean` and `WorkerCancel`, between which the loop goes on; `uiQueue` says how far
the stop was when the snapshots in the queue of the user interface came.
**`ServiceApp`** is the process of the service: `ServiceMain` with its commands, the
control handler (`ServiceStop`, which only reports a status) and the end of the
process under the reader. **`ProtocolNames`** is the table of `handleProto.h`, and
**`PacketRing`** the ring that was once between capture and pipe: each access to an
index, a slot or the mutex is a step. **`PipePath`** composes them: the pipe is served
either by `serviceApp`, whose own reader competes with the Worker for it, or by a
process that runs the ring. `enqueued`, `logged`, `packets`, `taken`, `late` and
`lapped` are history variables.

**`DeviceListing`** follows a device's number. `Builder`, `FindDevices`, `SelectDevice`
and `ListDevices` are the methods of `builderDevice::Builder` as operators on the record
of its members, because every call makes a new one; a description is the sequence of the
lengths of its words, since only the cut to 53 letters and the last blank matter.
`CountDevices`, `GetAllDevices` and `PutDevice` are WpfApp's calls, between which `Plug`
changes the machine. `SetDevice` is a pick: it adds a handler to `DoWork` of the one
`BackgroundWorker` and asks for a run, which is refused while another is under way; `DoWork`
calls every handler there is, each of which starts a task, and any of the tasks that are
started may be the next to put its number.

**`LiveDeviceContract`** is what the class of the live device comes to for an application,
where a thread that has ended does not capture, and `active` is what `captureActive()` says.
**`LiveDevice`** is the device of PcapPlusPlus with one application thread that
makes every call in any order. `close` keeps stale descriptors and does not look at
the capture; where libpcap then gets a descriptor that is null or closed, or loses
one that a thread is in, the effect is undefined: the model marks that, says whether the
application had `misused` the device, and ends. `Send` is every way to send, with the
check against the MTU in scaled numbers; the blocking capture is a step for each turn of
its loops (`BlockTest`, `Poll`, `BlockDispatch`, `BlockFails`, `BlockEnd`). `BreakLoop` may go
unheard, as the comment at `PcapLiveDevice.cpp:42-54` reports of macOS.
**`DeviceList`** puts the device into the list it is from: `ListInit` and `Reset` fetch,
with the constructor's queries for address and gateway (`OnLinux` says which of several routes it keeps), `Lookup`, `Clone` and
`DeleteClone` are the application's, `Change` is the machine's. **`SystemUtils`** has the masks of
cores, a mask being the set of the positions of its 1 bits, so that `|` is the union;
**`InterruptHandler`** the handler of interrupts, where every read and write of the handler's
two members is a step.

The `MC...` modules only instantiate: they give the ring its traffic and the list its machines.
`MCCapture` and `MCLiveDevice` check parts that share nothing in one run, as alternatives:
whichever begins goes on alone, so that TLC explores the sum of the parts and not their product. An operator with the comment "Faulty variant of" belongs to no
specification; it is the definition after it with a plausible bug, kept to show
that the property named in `PROJECT.json` under `mutants` notices that bug.

## What the runs check and show

| run | instance | shows |
|---|---|---|
| `capture` | a session: buffer of 2, pipe of 1, 6 items; the signals: 2 client threads, 4 calls of any exported function, no device that opens; the gRPC leg: 3 starts, 3 snapshots, 1 failed call (62 thousand states) | of the session `NoLostWakeup`; `Accounting` and `GaplessPrefix` (nothing lost, doubled, reordered); `NoUseAfterClose`; that it implements `PacketChannel` (`ImplementsChannel`); `ItemsArrive`; a stop ends it or strands it in one of exactly two ways (`StopEndsOrStrands`), and a stranded session is never torn down (`StrandedForGood`). Of the signals `NoLostSignal`; once no call is under way the capture thread follows the flag and leaves after `fnCloseApp` (`SignalsHeeded`). Of the gRPC leg `OneEnumerator`; `CarriedInOrder`; `NobodyStuck` (before a waiting loop another is inside, a write has a call that answers, a waiting stop has cancelled its loop); that it implements `StreamingContract` (`ImplementsContract`); `StopEndsOnTraffic`; `Streamed` |
| `outbox` | 2 replicas, 2 rows, batches of up to 2, 2 faults | `BatchesOwned` (no row in two live batches); `ReservationNeverVisible`; `NothingOrphaned` (a row is locked only by a transaction that will end); `DuplicatesNeedFaults`; the outbox implements `OutboxContract`; `StoredEventuallyPublished`, also when a replica dies with the batch in its hands |
| `forwarding_commits` | 4 messages, batches of 2, one rejected and one that does not deserialize, 2 faults | `OnlyAuthenticatedWrite`; `ReadersServed` (an answer is under way for each waiting handler); subscriber and MasterNode implement `ForwardingContract` (a commit goes forward, to a message that was produced, and no two rest on one "Ok"); `ReaderAnswered` |
| `pipe_path` | pipe of 1, 2 items of each process or 3 results of the ring's capture, 2 instances of the pipe, ring of 2 slots, 2 attempts to connect; the Worker is stopped where the host is the service (125 thousand states) | `ReadInOrder` (each instance has one reader, which gets every item once and in order, and zeros only last); `RingOrder`; `LateReads` (a stopped Worker leaves nothing from before its clean-up and at most one snapshot from after its cancellation); `WorkerStops` (a stop ends the Worker or finds it in a read only the server can end); `ReaderIsFed` (whoever has connected to an instance gets an item of it or its end, unless a failed wait has left it) |
| `live_device` | a machine of two shapes, on Linux, 2 changes or resets; 4 cores, vectors of 3; 2 threads interrupted, 2 registrations; up to 3 interfaces of 4 kinds, 1 change of the machine, numbers of base 3, 2 picks (262 thousand states) | `QuietWhenInactive`; `DefinedUse` (libpcap gets open descriptors, unless the device was misused or is `nflog`); the device implements `LiveDeviceContract`; `StopReturns`, unless its `pcap_breakloop` goes unheard; `ListIsOneFetch`, the gateway being that of the last route; `MasksAgree`; `CalledOnce`; what is selected leads back to an entry that was picked, by its number while that has one digit and the machine stays, by its first digit from then on (`ListingLeadsBack`); no pick is forgotten unless its run was refused (`PicksArePut`) |

The other runs find the violations of the next section.

**Why the bounds are enough for these questions.** Six items through a buffer of
two wrap it three times and leave one item in each of the five places an item can be
(capturer, buffer, dispatcher, pipe, client) with one to spare. Four calls let two
threads overlap in every pair of exported functions, with two more calls after or
between. That no device opens leaves every step of the signals there is: a session then has no
handle, and the flag does not depend on handles; which device a session takes is the question
of `control_switch` and `control_handle`, which have devices. Two replicas compete for a row, two rows make one full batch or two
partial ones, and two faults are a crash and another one during the recovery. Three
starts let a stop be overtaken by two later starts, so the semaphore has two
waiters. Four messages in batches of two overlap four handlers on one connection.
Two instances of the pipe are two processes of the service, of which the second
may be read by the reader the first did not have, or by the same again, which then has to be
fed anew. The Worker's stop does not look at the host of the pipe, so one host is enough for it
(`StopHosts`). Three results wrap a ring of two
slots (one item), fill it and lap it, and with a test for room that is off by one the
third overwrites the first; more slots are the proof's; the traffic of `MCPipePath` has a packet
whose handler looks at its ports and one whose protocol has no handler.
With numbers of base 3 the third interface is
the first that has two digits, as the tenth is in the code; four kinds of interface have no
description, one of short words, one that is cut, and one long word. Two picks are enough for an
earlier number to be put after a later one, and for a run to be refused; more are the proof's. The two
shapes of the machine differ in what may differ: an interface goes, another comes first, one
takes an address that another had, routes and name servers change, and one interface has two
default routes. Two registrations and two
threads put a second registration between any two steps of two interrupts.
`maxSize`, `BatchSize` and `_maxConsumeBatchSize` are 100 each in the code; the proofs
hold for any value.

Every bound that the code does not have (`MaxItems`, `MaxCalls`, `MaxRows`, `MaxFaults`,
`MaxRuns`, `MaxSnapshots`, `MaxOffset`, `MaxServes`, `MaxAttempts`, `MaxCaptures`, `MaxPackets`,
`MaxChanges`, `MaxVector`, `MaxRegistrations`, `MaxInterfaces`, `MaxPlugs`, `MaxPicks`, `StopHosts`) stands in the guard of the action it limits. The
specifications therefore reach states where nothing more happens, and stopped or
crashed components stay so: deadlock is not checked, and progress is stated as
liveness instead.

## Where the code disagrees with what it says

* **A stop may hang** (`sniffer_stop`, `StopCompletes`; `Sniffer.cpp:302`). `Stop`
  clears `running` and joins both threads without waking one that waits. If the
  dispatcher leaves first and the buffer is full, the capturer waits for ever; if
  the capturer leaves first and the buffer is empty, the dispatcher does. `StrandedNeverEnds`
  proves that this is for good: not even a spurious wake-up helps.
* **The newest device is not captured** (`control_switch`, `LatestDeviceCaptured`;
  `ipc.cpp:153`). `fnPutdevCPPDLL` clears `quit_flag` without a notification and
  sets it again: the running session sleeps through it and keeps the old device.
* **A closed handle is captured from** (`control_handle`, `CapturesFromOpenHandle`;
  `Sniffer.cpp:294`). A session that cannot open its device falls back on
  `_adhandle1`, which nobody resets when an earlier session has closed it.
* **A message can be lost** (`outbox_loss`, `NothingLost`; `KafkaMessagePub.cs:87`). A
  delivery report that is not `Persisted` is logged, and the row is marked and
  deleted all the same; the topics for failed requests are created and never used.
* **An announced retry does not happen** (`forwarding_retry`, `RetriedAfterIoError`;
  `KafkaConsumeRx.cs:186`). After an `IOException` the handler logs that it will
  reconnect and retry, and returns.
* **A blocking capture may outlive its timeout** (`device_timeout`, `TimeoutKept`;
  `PcapLiveDevice.cpp:368`). With `usePoll` the header says that the method does not block
  indefinitely when no packets are available (`PcapLiveDevice.h:420`). What `poll()` watches is
  the descriptor for sending, from which nobody reads: after the first packet it is
  always readable, and the dispatch of the other descriptor may wait for ever.
* **`captureActive()` speaks of a thread that has ended** (`device_active`,
  `ActiveMeansRunning`; `PcapLiveDevice.cpp:190`). The header says "True if a capture thread is
  currently running" (`PcapLiveDevice.h:432`); after a failed dispatch it is not, and the flag
  stays up, and refuses another start, until the application stops.
* **On Linux the last gateway is returned, not the first** (`PcapLiveDevice.cpp:1028-1056`
  against `PcapLiveDevice.h:316`). `ListIsOneFetch` states what the code does, exactly, and
  `MCMachines` has an interface with two default routes.
* **A stop of the live device may wait for a packet** where `pcap_breakloop` goes unheard. The
  comment at `PcapLiveDevice.cpp:42-54` says that 10 ms is the least time-out with which it is
  heard on macOS and FreeBSD, and the macro below it gives macOS 1 ms. `StopReturns` excepts it.

Three things no document of the repository denies, which the properties state as they are:

* *Picks add up* (`NavigationViewModel.cs:151-155`): a pick puts the numbers of all
  earlier picks again, in any order, so that an earlier device may stay selected; and a pick made
  while `_worker` is busy throws, is logged, and is put with the next run. `ListingLeadsBack` and
  `PicksArePut` say exactly what is left.
* *A failed wait leaves a client unserved* (`ipc.cpp:118-120`): `fnCPPDLL` returns without
  closing the pipe, and whoever is connected waits until the process ends. `ReaderIsFed` excepts it.
* *The queue of the user interface is not empty after a stop* (`Worker.cs:138`): it is emptied
  before the loop is cancelled, and what is read in between, any number of snapshots, stays.

## Fairness

Each specification has a `SafetySpec` without fairness, which the safety runs and
all proofs use, and a `Spec` with it (`DllSafetySpec`, `DllSpec` and `StreamSafetySpec`,
`StreamSpec` where a run composes several). Weak fairness is assumed, with two exceptions,
and only of what the code runs by itself:

* Threads that can run do run (in `Sniffer` the capture thread, the dispatch thread,
  and the statements of a start or a stop that has begun; in `CaptureControl`
  `MainNext`, `CallNext`, `ConnectNext`, under `DllFairness`): the operating system schedules them. The
  client at the other end of the pipe reads in a loop until it closes its end, so
  `ClientRead` is fair; it owes no close, nobody owes a call, and nothing owes a
  spurious wake-up or a failing write while the client is there.
* `CaptureControl` assumes that `Sniffer::Stop` returns. `Sniffer` says exactly when
  it does (`StopEndsOrStrands`) and that it need not.
* Publish jobs, the broker and the calls that store a row go on (`Outbox`): the job is a
  timer without an end, the producer retries by itself. A replica that is down need not be restarted.
* Awaits whose condition holds continue, and the server reads its stream
  (`GrpcStreaming`). Waiters of `SemaphoreSlim.WaitAsync` are served in order, as it
  is implemented.
* The subscriber's loop and handlers and the actors run (`Forwarding`). Somebody
  starts the process; messages need not come.
* The Worker, `ServiceMain`, `fnCPPDLL`, the capture and the ring's threads run, and a
  stopped process ends (`PipePath`). An exception: the ring's capture is strongly fair
  in its reads, since `pcap_next_ex` may fail now and then, or bring a packet while
  capturing is switched off, but returns one or times out again and again. Nobody owes a
  start, a stop or an I/O error, but a stop that has cleaned the queue goes on to the
  cancellation. The failures of `fnCPPDLL` are among its steps and not owed either.
* The threads of `LiveDevice` run, a call that has begun goes on, and `pcap_dispatch`
  returns once `pcap_breakloop` has been called and heard; otherwise it may wait for packets for ever. `poll()`
  returns, since it has a timeout; and a loop that looks at the clock at every turn finds
  its time over some day, which is the other exception: `BlockEnd` is strongly fair,
  because it is enabled only between two turns.

No fault is ever owed.

## Proofs

The proof modules hold these theorems for every value of the constants that satisfies the
module's assumption (natural numbers, a positive buffer or batch size, a base of at
least two, `NoWorker` outside `Workers`); they use `SafetySpec` only (`DllSafetySpec`,
`StreamSafetySpec`, `PcapSafetySpec`, `HandlerSafetySpec`, `CoresSpec`, `ListingSafetySpec` and `RingSpec` for the parts that a run
composes with others). Every safety property of the passing runs is among them. Some
invariants are checked by no run, since a refinement that a run checks says as much
or a proof says more: every `TypeOK`, `MarkedWasReported`, `OnlyStoredPublished`,
`LossExplained`, `AllAccounted`, `CommitsBacked`,
`CommittedNeverBack`, `HangsOnlyStranded` and `StopIsHeard`.

| module | theorems | inductive invariant |
|---|---|---|
| `SnifferProofs` | `WakeupsKept`, `ItemsAccounted`, `ClientSeesPrefix`, `HandleClosedLast`, `StopsHangStranded`, `StrandedNeverEnds`, `Refinement` | `SnifferInv` joins `Accounting` with `Phases`: where the threads may be, given where `mainFunc`'s thread is. Without `Phases` a thread could start after its join, and an item could be in the dispatcher's hands that never was in the buffer. `Hopeless` is what a stranded session keeps: one thread has left, and what the other waits for only that one could bring |
| `OutboxProofs` | `Ownership`, `ReservationUnseen`, `MarkedReported`, `StoredPublished`, `Refinement`, `DuplicatesAreFaults`, `LocksEnd` | `OutboxInv` adds `RowLife` (a row being inserted is locked, a marked row is stored), `Holdings` (what a job or its producer holds was stored) and `Reports` (what a job has sent is under way or reported). `BatchesOwned` speaks of jobs whose transaction is alive; the others cover a job that goes on after its transaction was dropped. `CopiesInv` over it: the copies of a row, the rights to copy it that jobs and producers hold, and the one that is free while nobody publishes it are at most 1 + `faults`. The rights are the elements of a set of tokens, so that a step adds or removes one and no sum over the replicas is needed. `NothingOrphaned` is inductive over `OutboxInv` (`EndUnlocks`: a transaction that ends frees what it locked) |
| `CaptureControlProofs` | `SignalsKept`, `ListingTypeCorrect`, `EntriesLeadBack`, `PicksReachTheDll` | `SignalInv`: between the test of a predicate and the sleep the thread holds `m`, so the predicate cannot change unless a notification follows, except for the store outside `m`, which is followed by another. `ListingInv`: what each of the three calls answered is what it computes from the machine it was asked of; what that is, for a machine with any number of interfaces, is `DevicesListed`: after k interfaces the list has one entry for each described one among the first k. For the picks: a handler whose run was not refused has been put, has a task, or its run is still to begin |
| `GrpcStreamingProofs` | `EnumeratorExclusive`, `LossesExplained`, `StreamOrdered`, `SnapshotsAccounted`, `StreamRefinement`, `NobodyWaitsForever` | `EnumeratorInv`: the semaphore is 1 only if no loop enumerates, and a loop that leaves gives it to one waiter. `LossInv` adds that the loops get the enumerator in the order of their starts, so a loop that finds the call in the field completed was overtaken. `FlowInv`: the queue follows the snapshot a loop holds, which follows all that calls carry, and calls later than the one being written to carry none. The refinement rests on it: what is pending is in one place only (`PendingApart`), so a step that stores, drops or fails takes exactly the snapshots away that the contract says. `WaitInv`: a taken semaphore has a holder, a write under way a call that is open or has failed, and a stop that waits has cancelled a loop that was started; with the order of the starts of `LossInv` it gives `NobodyStuck` |
| `ForwardingProofs` | `CommitsMonotone`, `AuthenticatedOnly`, `CommitsAnswered`, `ForwardRefinement`, `NoReaderForgotten` | `OffsetInv`: a running consumer's position is not behind the committed one; `AuthInv`: a subscriber that runs with `checkApiKey` on an open connection has been accepted, and the actor's state never goes back on that connection; `OksCounted`: the commits, the handlers about to commit, the "Ok"s among the replies and those of the MongoDBActors on their way are together at most the chunks accepted. The refinement needs both, and `HandlersBehind`: a handler's message has been consumed in this life of the process. `ServedInv` adds to `ReadersServed` that handlers wait on a connection only where the key has been accepted, since elsewhere a message is read without an answer |
| `PipePathProofs` | `RingTypeCorrect`, `RingInOrder`, `PathTypeCorrect`, `PathRingInOrder`, `StopLeavesOneSnapshot`, `PipeInOrder` | `RingInv`: the ring holds, in order from `full_index` on, exactly the items stored and not yet removed (`Contents`, until the first lap), and `InHand`: `protoStr` is the name of the last packet with a handler. Indices are compared by their distance round the ring. `RingOrder` carries over to the pipe because every step of `PipePath` is a step of the ring or leaves it alone. `LateInv`: a Worker that is in a read has queued nothing after the cancellation, since it enters a read only before it; and once the queue is cleaned nothing is put there as from before. `OrderInv` has one `Share` for each instance of the pipe: what its one reader has got and what is still in the pipe are together an initial piece of what was captured, zeros come only at the end and only when the server is gone, and an instance nobody has opened yet, or that was never served, has given nothing to anybody. It rests on `RingInv`, since a lap of the ring ends what is promised |
| `LiveDeviceProofs` | `DeviceTypeCorrect`, `QuietDevice`, `UseIsDefined`, `StopHeard`, `DeviceRefinement`, `OneFetch`, `MasksUndone`, `HandlerCalledOnce` | `DeviceInv`: `Phases` says where the threads and flags are, given where the application is (nothing of an earlier capture is left when the next may start, and a stop that has begun has its thread to join), `Descriptors` that whoever captures has an open device unless the application misused it; `BrokenOff`, for `StopHeard`, that `pcap_breakloop` has been called for a thread being joined since it entered its dispatch. The refinement needs `Phases` and that a thread ends only in a test that finds `m_StopThread` up, which a failed dispatch has set itself. `MasksUndone` needs no invariant but the type of the vector: it unfolds the folds that make a mask and a vector of it, for any width. `ListInv`: the list is what one fetch of one machine can return; the theorem is then about the operators that build it. `HandlerInv`: the mutex lets one thread at a time between the test and the clearing, and a handler that is in place has not been called unless its caller is about to clear it (`Exclusive`, which says nothing of `windows`, where there is no mutex); a routine runs only once a registration is complete, so a foreign cookie needs a second one (`Registered`) |
| `FoldLemmas` | (lemmas) | a set of natural numbers has a least element, hence induction up to a number, recursion, and what a fold over a sequence is: a function from positions to intermediate values |

`TypeOK` is part of each and is not inductive alone where a sequence is read:
`TypeInv` adds, for instance, that a batch lies behind the position. The inductive
invariants were checked by TLC on the instances of the runs before they were proved.

**Induction over data.** The induction theorems of the library take an operator as a
parameter and none of the provers can instantiate them. `FoldLemmas` goes round that:
what is to be shown of every number is the *set* of the numbers of which it holds, and
a set of numbers that misses one has a least one it misses (`WFMin`, which takes no
operator). `InductionUpTo`, `FoldExists` and `DescentExists` are stated over sets and
functions. With them the proofs unfold `FoldLeftDomain` in `ListDevices`, the
folds over the name servers, the search for an address in the list, and the recursive functions of `DeviceListing`
(`FirstDigit` ends at a digit for every number), and in `SystemUtils` the folds over masks
and bits.

**What a liveness property rests on.** Liveness itself is out of the provers' reach, but that
whoever waits waits for something that can still come is a safety property, and the one that
a wrong order of steps breaks first. It is proved for the threads of a session
(`WakeupsKept`, `StopsHangStranded`), the signals of the capture control (`SignalsKept`), the
rows of the outbox (`LocksEnd`, `StoredPublished`), the loops, writes and stops of the
streaming (`NobodyWaitsForever`), the handlers of the subscriber (`NoReaderForgotten`) and a stop
of the live device (`StopHeard`). `StrandedNeverEnds` is the opposite: what a stranded stop waits for never
comes. That the awaited step is then taken is fairness, and TLC's.

**Only model-checked:** every liveness property and whatever depends on fairness
or `ENABLED`, which TLAPS cannot handle here, and that each violated property is violated.

## What is not modelled

* *Timing.* A timeout is a choice: waiting for the event may succeed or expire.
* *Packet contents* and their decoding: an item is its number.
* *The build of the DLL for other systems*, whose functions are stubs.
* *`CancellationToken`s of the closing application.* The process ends anyway.
* *`Sequential` rows of the outbox*: `StreamingService` passes `false`, and no one else
  stores rows. *The creation of topics and tables at start-up.*
* *A TCP segment that splits a message*; the choice of a shard and the insertion into
  MongoDB, which is commented out; the two actors that only print.
* *A graceful stop of `srv_sub`*: like a crash, but it leaves earlier; `Crash` covers it.
* *Partial reads.* Both ends of the pipe use messages of one size and the same
  structure, so the loop in `NpcapCommands.cpp:59-101` that reassembles snapshots never
  has anything left over. (It would not work if it had: `buffer + filled` at line 60
  advances by whole snapshots while `filled` counts bytes.)
* *The grid of WpfApp*, which drains its queue on one thread, and the flags of
  `StartService`, of which `_currentDevice` is never set.
* *What a lapped ring delivers*: two threads are then in one slot, and nothing is promised.
  Packets whose protocol name is longer than the bytes behind `proto` (`Overruns`) have
  no defined effect and are left out of the traffic.
* *Three things the code drops without a state that could tell*: only the last message
  of a Kafka batch is written to MasterNode (`KafkaConsumeRx.cs:99`); the actor answers "Ok"
  with the insertion commented out (`MongoDBActor.cs:49`); a handle opened by
  `fnPutdevCPPDLL` that no session uses is never closed (`ipc.cpp:156`).
* *The rest of `SystemUtils.cpp`*: clocks, sleeping, byte order, a shell command, a test for a
  directory. Of *the live device*, filters, the parts of a configuration that libpcap is handed as
  they are, and the copy of a whole list, which is a new fetch.
* *Two things of the live device that the model shows and no document denies*: on the
  interface `nflog` sending and closing take a descriptor that is null (`DefinedUse` excepts
  it); the MTU of a loopback, `0xffffffff`, is read as -1, so that every packet whose length
  is checked is refused there (`PcapLiveDevice.cpp:676`, `:803`; `DoMtuCheck`).
* *What a misused device does.* `close()` after an `open()` that failed half way, and a second
  `close()`, hand libpcap a descriptor it must not get. Both are called on a device that is not
  open, which `DefinedUse` counts as misuse: it covers the other calls after a failed open
  (open, start, send), but says nothing of these two.
* *A further start of the capture thread of the DLL when `std::jthread` cannot be made*: it is
  logged, and nothing captures.
* *From the tenth interface on* an entry of the device list selects another device
  (`NavigationViewModel.cs:150` reads one digit); `ListingLeadsBack` says which one.
* *Configuration, presentation, generated code, and vendored code* but for the live
  device and its list: the headers of Npcap under `header/` declare constants, structures and
  functions that some library outside the repository implements, and make up more than half of
  the lines of C and C++. Of the others most are mapped.

## Plan

Done, in the order of importance: `Sniffer`, `Outbox`, `CaptureControl`, `MasterNode`
and `Forwarding`, `GrpcStreaming`, then `NamedPipe` with `PipeReader`, `ServiceApp` and
`PacketRing`, composed in `PipePath`, `LiveDevice` with `DeviceList` and its contract,
`DeviceListing`; each with its run and mutants, and proofs for all of them.

What could follow:

1. **`Control` of WpfApp**: the start service's flags on top of `CaptureControl` and `DeviceListing`.
2. **`Pipeline`**: the legs as channels (`PacketChannel`, the pipe, the gRPC leg, the
   outbox's contract, the topic, the connection), composed end to end, to say what of a
   captured packet is guaranteed where.
3. **Proofs**: the legs that implement a contract each (`PacketChannel`, `StreamingContract`,
   `OutboxContract`, `ForwardingContract`), as theorems about the composition of 2.
