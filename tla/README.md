# TLA+ models of the FreeRADIUS core

FreeRADIUS 4 is a multi-threaded RADIUS server. Network threads read packets
from sockets and hand them to worker threads; a worker decodes a packet, runs the
policy of the configuration on it, and hands a reply back. No lock is taken on
this path: the threads share bounded queues, ring buffers and one-byte pipes. A
request that is proxied goes out through a trunk, a set of connections a
worker has to one server; a session that takes several round trips is kept in a
table all workers share. This directory models these parts, from the entries of the
lock-free queue to the life of a request, checks them with TLC, and proves the safety
of most of them with TLAPS.

Paths are relative to the repository. `PROJECT.json` maps each definition to the
lines it models, and lists components, hazards, runs, mutants and theorems.

## 1. Inventory

### The path of a packet

```
 socket ──read──> network thread ──channel──> worker thread ──> interpreter
        <─write──                <─channel──                <──
                        │                          │
          channel = 2 atomic queues (data) + control planes (signals)
          control plane = atomic queue + pipe + ring buffer per sender
          message set   = message rings + ring buffers, one per writer

 interpreter ──enqueue──> trunk ──> connections ──> home server
             <──result───       <──
 interpreter <──take / store──> session state (one table, one mutex)
```

| component | state it keeps | operations | what is hard | what makes it correct |
|---|---|---|---|---|
| atomic queue `lib/io/atomic_queue.c` | `head`, `tail`, entries with a sequence number | push, pop, by any number of threads | threads delayed between two atomic operations while others wrap the queue | an entry has one owner, elements come out once and in order, a push fails only on a full queue |
| ring buffer `lib/io/ring_buffer.c` | four offsets and a reservation | reserve, alloc, free, split, close | the wrapped shape, frees across the wrap, a reservation outliving other calls | no byte is handed out twice, a reservation is honoured, in place unless a free has emptied the buffer |
| message set `lib/io/message.c` | arrays of message rings and ring buffers that grow and are packed | reserve, alloc, collect; other threads mark messages done | the collection runs inside a reservation, recipients finish in any order | header and data of a message survive until it is done |
| control plane `lib/io/control.c` | one queue and pipe per receiver, one ring buffer per sender | send, collect, wake, receive | a byte and a message travel separately | no message is overwritten before it is copied, none stays behind |
| channel `lib/io/channel.c` | two data queues, sequence numbers, counters, the state of both ends | send and receive at both ends, signal, sleep, close | calls nest, signals are optimised away, a close races with data | everything sent is read, the assertions on numbers hold, a close completes |
| network: workers `lib/io/network.c` | array of workers, blocked flags and counter, suspended flag | choose a worker, send, block, unblock, suspend, resume, exit | two counters changed by functions that call each other through a channel | flags and counters agree, a packet is dropped for a reason, the exit completes |
| network: sockets `lib/io/network.c` | per socket: pending message, outstanding packets, dead, blocked; heap of replies | read, reply, write, partial write, error, delete | a socket dies while workers hold its packets; a write is interrupted | a reply is written or released, a socket lives as long as its packets |
| worker `lib/io/worker.c` | heaps of runnable and of all requests, tree of duplicates, counters | decode, NAK, duplicates, run, yield, time out, close | a reply reads the next packets before it returns | one answer for each packet while the queue of replies has room, heaps and tree agree, nothing outlives the worker |
| scheduler `lib/io/schedule.c` | threads, their states, semaphores | create, start, stop | the order of start and exit | every thread is joined, channels outlive both ends |
| listeners `lib/io/master.c` | clients, connections, tracked packets | track, dynamic clients, expiry | conflicting packets, a client defined while packets wait | one worker sees a packet once |
| session state `lib/server/state.c` | tree and expiry list under a mutex | create, thaw, discard, expire | the mutex is released in the middle of a creation | a session belongs to one request at a time |
| connections `lib/server/connection.c` | state, deferred signals, watchers | signals of a connection | signals from inside handlers, free in the middle | every state change is legal, every signal is applied |
| trunks `lib/server/trunk.c` | connections by state, requests by state | enqueue, move, cancel, rebalance | a request moves while its connection fails | a request is in one list and completes or fails once |
| pool `lib/server/pool.c` | connections under a mutex | reserve, release, spawn, reap | spawning without the mutex | counts are exact, limits hold |
| interpreter `lib/unlang/*.c` | stack of frames per request | run, yield, signal, subrequest, parallel, detach | cancelling a parent while a child runs | every request is done once |
| heap, retry, event loop `lib/util/*.c` | arrays, intervals, timers | | boundaries | order, limits |
| RADIUS client `modules/rlm_radius` | identifiers, retransmissions | allocate, send, retry, expire | a late answer for a reused identifier | an answer reaches its request |
| detail reader `listen/detail` | files, offsets | rename, lock, read, mark | restart between two steps | a record is processed, and marked afterwards |
| everything else | | | sequential conversion, or input and output | |

The threads meet in the queues only. A network thread calls into a channel,
which pushes on an atomic queue and signals through the control plane of the
other thread; that thread's event loop reads the pipe and calls the channel back,
which calls `worker_recv_request` or `fr_network_recv_reply`. Within a thread
these callbacks nest: `fr_channel_send_reply` reads requests, and a request
that is refused or stopped sends a reply.

### Modules

| module | models | composed with |
|---|---|---|
| `FifoQueue` | what the queue promises: a bounded FIFO | |
| `AtomicQueue` | `atomic_queue.c` | implements `FifoQueue` |
| `RingOps` | the arithmetic of `ring_buffer.c` as operators on a record | |
| `RingBuffer` | ring buffers and a caller | `RingOps` |
| `MessageSet` | `message.c` | `RingOps` for rings and buffers |
| `Control` | `control.c` | `RingOps`, and the publish step of the queue |
| `Channel` | `channel.c` and what both threads do at its ends | queues as sequences, as `FifoQueue` allows |
| `Dispatch` | the workers of a network thread | channels as counters |
| `NetworkSocket` | the sockets of a network thread | workers as a set of packets |
| `Worker` | a worker thread and the subrequests of its interpreter | channel as a sequence |
| `SessionStore` | what the table of sessions promises | |
| `SessionState` | `state.c`, and the requests that use it | implements `SessionStore` |
| `Connection` | `connection.c` with three of its users | a trunk connection, by its state |
| `Trunk` | `trunk.c` driven by `rlm_radius_udp.c` | connections, as `Connection` shows them to the watchers |
| `RingBufferProofs` | lemmas on `RingOps`, theorems on `RingBuffer` | |
| `ControlProofs` | theorems on `Control` | the lemmas of `RingBufferProofs` |
| `AtomicQueueProofs`, `ChannelProofs`, `DispatchProofs`, `NetworkSocketProofs`, `WorkerProofs`, `SessionStateProofs` | theorems on the module each is named after | |
| `MC...` | the instances for TLC | |

## 2. How the modules correspond to the code

**AtomicQueue.** `head`, `tail`, `seq` and `data` are the fields of the queue.
Each load, compare-and-swap and store is a step, and each thread has a program
counter. Accesses are
acquire/release pairs on the entries' sequence numbers, so interleaved steps give
the results the memory model allows. `hist` is a history variable: the elements
in the order of their tickets.

**RingOps, RingBuffer.** The record has the fields of `fr_ring_buffer_t`; the
bytes are offsets. `live` is a history variable with the bytes handed out, oldest
first. The caller may ask for more than there is, and free more than it got, also between a reservation
and the allocation it is for. The history variable `emptied` says that such a free has emptied a
buffer since the reservation, which moves `write_offset`, and with it the reserved room, to the start.

**MessageSet.** Headers take one unit of a message ring; packet data is in bytes.
One action is one public function with everything it calls: a reservation first
collects, packs the arrays, and may grow them. A recipient's only action is
`Done`. The history variable `spilled` says that the leftover of a reservation has been moved to another
ring buffer. A message whose ring buffer the set has dropped would make the code follow a stale `m->rb`; the model
frees nothing then, and this only happens after an overtake or with `spilled` set.

**Control.** A send is three steps: collect if needed, allocate and claim an entry;
publish it; write a byte. The receiver reads up to `ReadSize` bytes and pops one message for
each. Sending to a full pipe is silently refused, as the code ignores the
result of `write`.

**Channel.** Both ends are there, each with its sequence numbers and counters. The
worker's nested calls are a stack. `MayReply` is the test of the channel that `worker_send_reply` and `worker_nak`
make before they encode a reply, a step of its own, as the network thread may close the channel after it. Signals are sequences of bounded length;
a signal that does not fit is lost, as the code ignores it. Code under
`ENABLE_SKIPS`, which is off, is left out.

**Dispatch.** The array of workers, `num_workers`, `num_blocked` and `suspended`
are variables; `fr_rand` is a choice. The defective removal from the array is
modelled with what it leaves there, a value that is part of a pointer (`Torn`).

**NetworkSocket.** One event is served at a time, and the turns of the
read and write loops are steps. The transport may return a packet, nothing, an error,
a partial write or would-block.

**Worker.** Variables are the two heaps, the tree of duplicates and `num_active`.
`stack` holds the calls that have not returned, each with what it still does. The
interpreter yields, finishes, or makes a subrequest (`Subrequest`), which enters both heaps
as any request does, and waits until `ChildDone` wakes it. `StopRequest` is the signal
`FR_SIGNAL_CANCEL`: the frame that waits passes it on to the subrequest, the frame of a subrequest
does not tell the parent. `again` records, for the properties only, which subrequests were ended twice.
The queue of replies has `QueueSize` entries, which the network thread empties (`RecvReply`); a reply that finds it full
is dropped (`PushReply`, `refused`), and what follows is the same: the request is freed and the channel read.
The assertions on a second end (`worker.c:484`, `time_tracking.h:262`) are not enforced: the model goes on as a build without them.
`fr_heap_peek_tail` is any entry that may be the last of the array, so never the first of several.

**SessionState.** A section under the mutex is a step. `state_entry_create` releases the
mutex to free what it unlinked and takes it again to insert, so `Save` and `Insert`
are two steps, and other workers run in between. A value has a random part, a count of
rounds and a part that is mixed with the `context_id`; each request may bring any
value that was ever given out, or none. Session states are talloc contexts: `live` is
what is allocated, and `ctx`, `child`, `kid` and the entries are the pointers to them.

**Connection.** One event changes the state several times: a state function calls
watchers and callbacks, these signal the connection, a signal inside a handler is
deferred, and the deferred ones are processed when the outermost handler returns.
`calls` is the C stack, the innermost function first. `owner` says which callbacks there
are: those of `rlm_radius_udp`, of `lib/redis/io.c` or of `rlm_logtee`. The trunk
connection is one state, changed by its watchers.

**Trunk.** A handler of the event loop, a timer or a call of the client is one step,
with everything it calls. The functions call each other in a circle (a request that
leaves a full connection makes it active, which drains the backlog into it, which
can fill it); they are recursive operators from one value of the record `trunk` to
the possible next ones. A failed assertion is recorded in `tripped`, with its name, as
the process would abort there. `client` is what the owner of a request knows. `tried` has the requests that were sent and not
yet forgotten, as a connection becomes a zombie only when something was sent on it and not answered.

## 3. Runs

All constants below are in the `.cfg` files.

| run | instance | what it shows |
|---|---|---|
| `aq` | 2 producers, 2 consumers, 2 elements, 2 entries, 3 tickets | the first entry is reused and threads are overtaken by a lap; `SlotExclusive`, `PopsWhatWasPushed`, `PushFalseMeansInUse`, `RefinesFifo` |
| `rb` | 2 buffers of 5 bytes, sizes 1, 2, 3 and 6 | linear and wrapped shapes, exact fits, refusals, excess frees, a free that empties a buffer with a reservation; `NoByteTwice`, `ReservationHonoured`, `Inv` |
| `ms` | first ring 1 header, 4 bytes, arrays of 3; sizes 1 and 2, rings to 4 headers and 16 bytes, one message may overtake older ones; or size 1, rings to 8 headers and 8 bytes, none overtakes | rings double, are packed and reused; `HeadersSurvive`, `LastCollectionEmpties`, and `DataSurvives` while messages finish in the order sent and no leftover has moved to another ring buffer |
| `ct` | 2 senders, 3 calls each, sizes 2 | rings wrap and the queue fills; `MessagesIntact`, `DeliveredInOrder`; with a single active sender `ByteForEveryMessage`, `DeliveredIfAlone` |
| `ct_wakeup` | 2 senders, 1 call each | **violation** of `EveryMessageDelivered` |
| `ch` | queues of 2, 3 requests | full queues, nested replies, a close at every moment; `Assertions` (those of the code), `NothingLeftBehind`, `EveryMessageRead`, `CloseCompletes` |
| `dispatch` | 2 workers, queues of 2, limit 3, 5 packets | workers fill up, block and resume; `WorkersAccounted` (flags and counters agree), `BlockedUntilReply`, `NetworkExits` |
| `socket` | 2 sockets, 2 packets | writes block, fail and continue, sockets die; `SocketsAccounted` (pending messages, outstanding packets), `DeadIsFreed`, `PendingIsFinished` |
| `worker` | 4 packets: two in conflict, a duplicate, one apart; a subrequest of any of them; limit 3, a queue of 1 reply | replies are refused, calls nest five deep and more, and subrequests end, time out, or are stopped with their parent; `AnsweredOnce`, `HeapsAgree`, `OneRequestPerContext`, `EveryPacketAnswered` |
| `state` | 3 requests, 2 workers, limit 1, timeout 1, clock to 2 | sessions are taken, stored, discarded and expire while others are between the halves of a creation, and old values come again; `OneOwner`, `SessionsBounded`, `RefinesStore` |
| `conn` | one connection of each owner, with and without timeout and delay | signals inside callbacks, watchers and I/O handlers, frees in the middle; `HandleSound`, `TrunkFollows`, `SignalsProcessed`, `Recovers` |
| `trunk` | 2 requests, 2 connections, 2 requests on each, `max_uses` 3, 2 disturbances, 5 settings | connections open, fail, fill, drain, expire and become zombies in every order; `RequestsPlaced`, `NoIdleCapacity`, `ToldOnce`, `NoBadTransition`, `EveryRequestTold` |

The type invariant `TypeOK` of each module is checked by its passing run, alone or as a
conjunct of another invariant. Each property of a passing run has a mutant in `PROJECT.json`: a plausible
error in one definition under which TLC finds the property violated.

**Why the bounds are enough.** Queues of two entries wrap after two elements, and
the third ticket is one lap behind the first, which is where a stale sequence number could
be taken for a fresh one. In five bytes, blocks of one, two and three bytes
leave gaps before and behind the data, and six never fits. The first message ring of `ms`
holds one header, so that a second message in use makes the set grow; with rings of up to eight headers a leftover moves
while both its message and the next one are in use. A queue of one reply is full after each answer until the network thread reads it. With a limit of
one session and two workers the limit can be exceeded, by the second worker; three requests let a
value be taken, saved under its next one, and come again. In `trunk` two requests fill a connection or
are spread over two, `MaxUses` is reached by retransmissions, and two disturbances (a failure, timeout,
expiry or cancellation) can meet in one connection or hit both. `conn` is finite
as it is: a deferred signal is raised once for each handler. Counters are bounded by the number of packets or calls; the runs stop
when these are used up, so deadlock is not checked there. In `aq` a
pop can always begin, and deadlock is checked.

**Fairness.** Weak fairness stands for threads that finish the call they are in,
and for event loops that serve a descriptor that stays ready. It is never assumed
that packets arrive or that the server shuts down. Strong fairness is used where other events of the same loop disable an event in
between: `PostBegins` and `WriteReady` of `NetworkSocket`, and the event loop
actions of `Worker`. `NetworkSocket` further assumes that a socket does not refuse
writes for ever, and that a worker ends its request; `Worker`
shows the latter under the timer of `max_request_time`. `Dispatch` assumes that
a worker ends a request with or without a reply. `Connection` runs its stack to the end,
and its timers go off. `Trunk` assumes that the event loop serves something infinitely
often while something is ready, and that the management timer, which re-arms itself, runs while it has
work; that a connection opens or an answer comes is not assumed, a connection may time out and a request
be given up instead. These two are written out over `Next`, as in TLC the
enabling condition of a recursive operator costs as much as the step.

## 4. What the runs found

One run ends in a counterexample to a statement of the repository.

* `ct_wakeup`, `control.c:109`: a byte spent on a queue that only looks empty,
  because another sender has claimed an entry and not published it, leaves a message in
  the queue until somebody sends again.

Other disagreements have no run of their own; where one has a hazard, that says more.
They were met in modelling, and where a model reaches them the property of the
passing run is stated so as to say what does hold.

In the threads:

* The collection frees packet data from the start
  of a ring buffer in the order in which *headers* are collected (`message.c:327`). With two message
  rings on one ring buffer, data of a message in use is freed and reused; `DataSurvives`
  is stated for messages that finish in the order sent.
* `fr_message_alloc_reserve` leaves `rb_size` of a message at the whole reservation. When the leftover has moved to another ring
  buffer, the bytes behind the message belong to the next one, and the collection of the first frees them, also
  with all messages finished in order; `DataSurvives` leaves that case out (`spilled`), and TLC finds it when it is put back.
* The initial limit `~((fr_time_t) 0)` of `network.c:584` is -1
  as the type is signed, so with one worker blocked all packets are dropped.
* A reply that arrives while another one is pending is put into no list (`network.c:1396`).
* A queue of one entry overwrites its element (`atomic_queue.c:85`); the theorems
  need two entries. A pop reports an empty queue behind an unfinished push.
* `fr_ring_buffer_start` reports the wrong block of a wrapped buffer; a free of
  too many bytes fails after it has freed some.
* A free that empties a ring buffer moves a reservation to its start (`ring_buffer.c:468`): the allocation succeeds, and not at the
  pointer that was reserved. `ReservationHonoured` says so; `message.c` never frees between the two calls.
* A message ring is doubled although others are empty.
* With a full queue of replies a request is freed, or a packet refused, unanswered (`worker.c:354`, `worker.c:591`), and the network
  thread counts it as outstanding for good; `AnsweredOnce` and `EveryPacketAnswered` name this as the only way out.
* A null reply is missing in the counters of a channel, in the limit of `Dispatch` and
  in the outstanding packets of a socket: each one takes a place for good.
* With a full control plane a signal, and with it a reply or a close, is lost.
* A close can reach the assertion "Wanted to send reply but channel has been
  closed" in an ordinary shutdown, and frees replies that were not read.
* A worker may be blocked after all its replies were read; nothing then unblocks
  it. Removing a worker copies a count of entries as if it were bytes.
* A third packet with the same `packet_ctx`, read while the first is stopped for the
  second, leaves two active requests, one of them not in the tree. More than
  `max_requests` may be active after a conflict.
* `worker_max_request_time` looks at the last entry of the heap, not the oldest
  request; `async->priority` is compared and never set.
* The signal that stops a request is passed on to its subrequest also when that has ended or was stopped by
  its own timeout (`subrequest.c:54`). `_worker_request_done_internal` then runs twice: a debug build stops at the assertion of `time_tracking.h:262`
  or `worker.c:484`, and in others `num_active` is one short, or wraps below zero. What `HeapsAgree` says of the counter
  holds until then; what it says of heaps and tree, always. A subrequest that is stopped does not wake its parent,
  which waits for its own timeout.
* The handler of the detach signal hands the parent's frame to `talloc_get_type_abort` in place of the state of that
  frame, and `_worker_request_detach` asserts that the request is detached before `request_detach` is called.

In the session state:

* `max_sessions` is tested before the mutex is released, so it can be exceeded
  by one session less than there are workers; `SessionsBounded` says so.
* The count of rounds in a value is a byte. After 256 rounds values come again, and a
  request with an old one can meet a session that is not its own; the theorems
  assume that this is not reached.
* The list of entries is "implicitely ordered by cleanup time" by a comment, and is not when
  a session that goes on was created early. `entry->thawed` points to a request that may have been freed.
* A request rejected because another has thawed its session removes the entry, so a
  third one with the same value goes on as if it had none.
* `fr_state_to_request` returns -2 where its comment says -1. `process/radius/base.c`
  says it creates a State for an Access-Challenge, and replaces one only if it exists. The TACACS and TTLS
  users never find, or never look for, what they saved.

In connections:

* `fr_connection_signal_halt`, and freeing, hit a bad transition in state SHUTDOWN, against the
  comment that this is how a shut down connection is closed.
* Without `reconnection_delay` a connection that the loop over deferred signals halts is never freed.
* Deferred signals are processed in the middle of a state function, against "all pending C stack state
  changes are complete". A shutdown callback that signals before it returns loses the reconnect timer.
* `fr_connection_signal_reconnect` trips an assertion in state FAILED, and with FR_CONNECTION_EXPIRED and no shutdown
  callback leaves a connection closed without a timer; nobody calls it so.

In trunks:

* The masks of connection states combine with exclusive or: INACTIVE_DRAINING connections are counted among
  the connections, and their requests are not, against "Count all connections except draining and draining to free".
* `_trunk_connection_on_failed` tests for a state it never is in, so the backlog of a trunk without connections is not
  failed there.
* `trunk_connection_enter_full` accepts ACTIVE only, and is called from INACTIVE and DRAINING as well.
* A FULL connection is not serviceable: a retransmission, or a datagram `sendmmsg` did not take, fails the
  request instead of enqueueing it again.
* Past `max_uses`, anything sent again on the connection enters DRAINING_TO_FREE a second
  time, which is an assertion. So does the end of its `lifetime` (`trunk.c:3160`), as the timer is deleted only when the connection
  closes. `NoBadTransition` excepts these two by name (`max_uses`, `lifetime`), and no other.
* When a datagram is too large (`EMSGSIZE`), `request_mux` goes on to use the request it has just failed; a
  duplicate signal for a request in the backlog follows the connection it does not have (NULL). Both are named where they occur in `Trunk`.
* With `num_answers_to_alive` above one, the count of answers is reset with each answer, so a
  connection that was a zombie stays inactive; `EveryRequestTold` excepts it.
* `fr_trunk_request_enqueue` wraps `fr_trunk_request_alloc` in `MEM`, against "Do not use MEM to check the result": at the
  limit of requests the server exits. The run does not reach it.

## 5. Theorems

Assumptions on constants are named in the modules that declare them; TLC checks
them in each run.

**AtomicQueueProofs** (any number of threads, tickets and entries; two or more
entries except for `TypeCorrect`). `SlotExclusive` is not inductive: that two
threads are in different entries follows only from what the sequence numbers say. The
inductive invariant `IInv` has a conjunct `SeqTellsTicket(t)` for every ticket, by
which the sequence number of its entry tells whether it is free, claimed,
published, being read or released, and `ProducerKnows`, `ConsumerKnows`, by which
a thread's local variables agree with that. Lemma `EntryAlone` then says that of the
tickets that share an entry one at most is in use. There is one lemma
for each step that changes an entry; all others fall under `LocalStep`. From `IInv`
follow `NoSharedEntry`, `PopReturnsPushed` and `ImplementsFifo`, which shows that
each step is a step of `FifoQueue` or leaves its variables unchanged. `PushFailsInUse` adds `FirstLap`: a sequence number
is never smaller than the place of its entry. A push that gives up has read one that is behind its ticket, so the entry is of an
earlier lap, and `SeqTellsTicket` of the ticket one lap before says that it has not been released.

**RingBufferProofs** (any number of buffers, any size, any request sizes). The first lemmas are on one ring buffer: what
`Reserve`, `Alloc` and `Free` do to
its shape and to `Layout`, the list of bytes its fields describe. An allocation appends bytes that were not there, a free
drops the oldest, and no byte is listed twice. `Inv` says that `Layout` equals
the history `live` and that a reservation is still good: what was reserved is still free in one piece, at the reserved pointer or,
once a free has emptied the buffer, at its start. `InvariantHolds` lifts the
lemmas to the specification, and `BytesAreNeverShared` and
`ReservationsAreHonoured` follow.

**ControlProofs** (any number of senders, any sizes). `MessagesIntact` is not inductive: that a message's place is
not given to another one depends on what `fr_control_gc` may free. `IInv` says of all that is queued or being
copied that it is `Live` (marked as used, and among the bytes of its ring buffer), and `Before` what was sent later by the same
sender: another place and a smaller number. A collection frees the first messages while they are done, so it leaves what is live; an
allocation takes a place that is not listed, so the new entry differs from all before it. `MessagesInvariant` follows, and
with the numbers `InOrder`: a callback is never called for an older message than the last one.
`LoneSenderNeverStranded` counts. As long as one thread has sent (`Alone`), messages in the queue and in
the receiver's hand are as many as bytes in the pipe, bytes already read, and the
byte the sender is about to write (`Balance`). That count needs that a pop never finds a queue that
only looks empty: an entry not published is the last, and its byte is not
written. When two threads have sent, it is false, which is what `ct_wakeup` shows.

The facts about ring buffers (`RingFacts`) are a hypothesis of the lemmas; at the end of the module they are taken
from an instance of `RingBufferProofs` whose buffers are those of the senders.

**ChannelProofs** (any sizes of the queues and the control planes, any number of requests). The assertions of `channel.c` compare
the sequence and acknowledgement numbers of two ends that only know what the other one has told them, while the worker's calls nest:
receiving a request may refuse, stop or answer others, and answering receives again. `IInv` counts what the worker owes
(`Owed`: requests that run and requests held by a call that will accept, answer or replace them). No request is owed twice
(`OwedAtMostOnce`), and `OwedOnce` bounds them by the worker's `num_outstanding` and by what it has received and not
answered. The messages in the queues carry consecutive numbers that continue those of the reader (`RequestsInStep`, `RepliesInStep`),
and what the network thread counts as outstanding is in a queue or with the worker (`CountsAgree`). There is one lemma for each
action, and for the worker's calls one for each kind of change of the stack. `NumbersInStep` follows.

`ClosesEmpty` is `NothingLeftBehind` as long as neither control plane is full (`RoomForSignals`); with a full one a signal
is refused and the property is false. `Cover` says why a signal may be left out: a request in the queue is still to be signalled by the
network thread, or a signal is on its way ahead of the close, or the worker is in a call that reads the queue until it is
empty; the same for the replies. The close comes last in its control plane, so when it is handled nothing is left to read.
In the instance of the run `RoomForSignals` holds in every state.

**DispatchProofs** (any workers, sockets, times and limits, any size of the queues). That the sockets are suspended only while every
worker is blocked rests on a count: `fr_network_send_request` compares `num_blocked` with `num_workers`. `IInv` says what makes
the comparison right: until the exit the first `num_workers` places of the array hold the workers that have started,
each once (`ArraySound`), only these are ever blocked, and the one a call is about to block is not blocked yet
(`CallSound`). So when the numbers are equal the sets are (`BlockKeeps`). No worker starts once there are sockets, and
any reply ends the suspension. `Covered` is the bound on what a worker owes; requests that end without a reply only make
the difference of the counters larger. The torn pointer that an acknowledged close can leave
in the array (`memcpy` is given entries where it takes bytes) is part of the model; the count of workers that are still to
acknowledge is exact all the same.

**NetworkSocketProofs** (any listeners, packets and length of a burst). In `SocketsAccounted` the count of a socket could be
disturbed by a handler that works on a packet which is somewhere else as well, or a pending message
by the end of another socket. `IInv` adds what the handlers rely on: the packet being written is with the socket that the
call is about and not its pending one, what is pending belongs to the socket that has it, a packet with a worker is not
localized, and a socket that is not open has nothing. The step that frees a socket is the case that needs it:
nothing is outstanding, so no worker has a packet of it, and what it drops was its own.

**WorkerProofs** (any packets, subrequests, contexts, times and limits). A call of the worker can contain any
others, so an invariant must not depend on where in the stack a call is. `IInv` says where a request can be: queued and in the channel
or about to be inserted by a call; live and in the time order or about to be freed by a call; and never in two of these places,
nor held by two calls (`HeldOnce`). What a nested call does to a request is then no concern of the calls around it. `AnswersSound` says that
an answer is sent, or refused by the full queue, when the request enters the list of what will be freed. There is one lemma for each kind of
step: a call begins, a call ends, a request is stopped with its subrequest, freed, inserted, run. `AnsweredOnceInvariant` follows. `Counted`
is the rest of `HeapsInvariant`: every step that enters or leaves the time order changes `num_active`, and
a second end of a subrequest enters it into `again`, so until the first of these the counter is exact. `OneRequestInvariant` needs the order in which packets
leave the channel (`OriginalsFirst`: a duplicate is read after its original; `InsertsLast`: while a request is about to be inserted,
all originals of its context have been read).
With two packets of a context, what is read while the first is stopped for the second can only be a duplicate of
these.

**SessionStateProofs** (any requests, workers and limits). `OneOwner` says of each session
state that it has one owner if it is allocated and none if not. It is not inductive: a
request may take `<<r, 1>>` only because nobody has it, and a subrequest's state may be stored only where there
is none. `OwnInv` splits it: `Placed` says where each kind of session
state can be, `NoneDangles` that what is pointed to is allocated, `NoneLeaks` the converse, `NoneShared` that no two
point to the same, and `Fresh` that what a request is going to allocate is not in use. There is one
lemma for each action; `Ownership` follows.

`Refinement` and `Limit` further assume that no session goes beyond its byte of rounds (`FewRounds`). `Valued` adds what
the values mean: an entry has the latest value of its session and is the only one of it, what is between the two
halves of a creation has a later one and is in no entry, and an entry a running request finds is the one it has
thawed. So a session that goes on always leaves the tree before its next value enters it. `Limit` follows by counting;
`Refinement` maps `RecvKnown` to `Take`, `Insert` to `Put`, `Discard` to `Finish` or nothing, `Save` to `Expire`, and all
other steps to nothing. Without `FewRounds` both are false.

`ListInvariant` needs no such assumption: the list by which entries expire has every entry of the tree once and nothing
else. `ListSound` says that no value is twice in the list or in the tree; what `Remove` leaves is shown by induction on the length
of the list, and the length is the number of entries because the list gives a bijection. `Bounded` puts
`ListInvariant` and `Limit` together.

Induction over a list is stated for sets (a set of natural numbers that has 0 and with each number the next has all of them) and
proved from the library's theorem that a well-founded order has minimal elements.

Cardinalities: a proof module that needs them takes `FiniteSetTheorems` as a named instance at its end, or states what it needs as
a hypothesis (`Counting`) that is discharged there; extended, the library would be part of every obligation.

Model-checked only:

* all liveness properties;
* `MessageSet`, whose collection folds over the rings of a set that it packs at the same time;
* `Trunk`, whose operators are recursive;
* `Connection`, which has no constant that could be larger than in its run.

## 6. Limits

* Same-thread mode of channels and control planes calls the receiver directly and
  is left out, as are registration of callbacks, statistics and logging.
* Memory allocation does not fail. Memory that was freed is not modelled as such;
  its use is excluded where a property says that an object in use is not freed.
* `Channel` takes signals as reliable up to the size of the control plane. `ct_wakeup`
  shows that with several senders a wake-up can be late, so liveness of `Channel`
  is about a control plane that is served.
* `Worker` has one channel. Of the requests that the interpreter makes it has those of the `subrequest` keyword, one
  level deep; parallel sections and detached requests are left out, and so is a subrequest whose packet type is
  not known, which is never run. The copy of a subrequest's attributes to its parent does not fail.
* `SessionState` follows the requests of `process/radius`; request data other than that of
  subrequests moves with the session state. The tree is not freed.
* `Connection` leaves out failures of the event loop to insert a timer or a descriptor, and the use by `lib/ldap`.
* `Trunk` gives a request up as the asynchronous mode of `rlm_radius` does; with `synchronous` the client's own retransmissions
  take that part, and `EveryRequestTold` is not about it. It leaves out `always_writable`, `fr_trunk_reconnect`, starting and stopping the management, and functions to
  prioritise requests; a heap of more than two connections is taken as sorted.
* `fr_time_t`, tickets and sequence numbers are 64 bits wide and do not overflow in the
  life of a server; they are unbounded here.

## 7. Not modelled, and plan

The components with status `not_modelled` in `PROJECT.json` are of two kinds. Dictionaries, codecs, the compiler of
the policy language, configuration, logging and the modules (nine tenths of the source) are sequential conversion of
data, or calls of a library or a service: a small instance shows nothing about them that a test does not. The others
have state worth modelling, and would come next:

1. Scheduler and channels together: start and exit of all threads, and the life of a
   channel across them.
2. The other requests of the interpreter in `Worker`: parallel sections and detached requests with their
   `Request-Lifetime`.
3. Listeners (`master.c`): tracking of packets, dynamic clients, expiry.
4. The connection pool; the detail reader across restarts; heap and retry timers as pure algorithms against
   reference definitions.
5. Proofs: `MessageSet`, from the lemmas of `RingBufferProofs`.
