# A TLA+ model of KendyNet

KendyNet is a Go networking library. A *session* owns a connection, a send
queue and the goroutines, or completion callbacks, that send and receive;
listeners and connectors make sessions; an RPC layer matches requests and
responses on sessions; timers, an event queue, event handlers, a goroutine pool,
buffers and a log serve programs built on it. This directory holds TLA+
modules of these parts, the TLC runs that check them on small instances, and
proofs, checked by TLAPS, of the main safety properties for every instance.

## Parts and modules

| Part | Source | Modules | What is hard about it |
|---|---|---|---|
| Send queue | `socket/sendqueue.go` | `SendQueue`, `LibraryProofs` | signals given after the unlock, expiry against wake-up, close against waiters |
| Condition variable | `socket/sendqueue.go` | `Cond`, `CondImpl`, `CondImplProofs` | nodes reused while a timed-out wait still holds them |
| Stream session | `socket/socketBase.go`, `socket/streamSocket.go` | `StreamSocket`, `StreamSocketProofs` | who reports the close, graceful close, partial writes, encoding errors |
| WebSocket session | `socket/websocket.go` | `WebSocket` | the same, on a connection that keeps its first errors |
| AIO session | `socket/aio/aiosocket.go` | `AioSocket`, `AioSocketProofs` | who sends when `sendLock` is released, completions against `Close` |
| Goroutine pool | `gopool/gopool.go` | `GoPool`, `ExecutorsProofs`, `LinkList`, `TailList` | hand-over after the unlock, limits, close beside work |
| Timer | `timer/timer.go` | `Timer`, `ExecutorsProofs` | cancel against the callback and the re-arm |
| RPC | `rpc/` | `RPCChannel`, `RPCClient`, `RPCServer`, `RPC`, `RPCClientProofs`, `RPCProofs` | response, timeout, send error and disconnection of one call; reused contexts; replyers used from several goroutines |
| Event queue | `event/priorityQueue.go`, `event/eventQueue.go` | `EventQueue`, `TailList`, `EventQueueProofs` | blocking with priorities, events that post, close |
| Event handler | `event/eventHandler.go` | `EventHandler`, `LibraryProofs` | registration and removal during an emit |
| Buffers | `buffer/buffer.go` | `Bytes`, `Buffer` | ends of buffers and of number ranges |
| Buffer pool | `buffer/pool.go` | `BufferPool` | calibration beside counting |
| Heap | `util/minHeap.go` | `MinHeap` | elements that carry their index |
| Packets, receivers | `example/pb`, `example/codec/pb.go`, `example/aio/aio_sharebuffer.go` | `PB`, `Receiver`, `Bytes` | reads that end anywhere, buffers that are lent |
| Log | `golog/log.go`, `golog/output_logger.go` | `Logger`, `LibraryProofs` | lines and files across midnight |
| Listeners | `socket/listener/` | `Listener`, `LibraryProofs` | close during accept |

`MC...` modules give values to the constants for TLC. `MCSessions`,
`MCExecutors` and `MCLibrary` put several parts into one run: a behaviour
chooses one part at the start, and the others stay as they are.

Interactions: a session uses a send queue, which uses two condition variables;
`SendQueue` and `EventQueue` are built on `Cond`, which `CondImpl` implements
for the former (package `sync` provides the latter), and the sessions use the
queue as the atomic bounded FIFO that `SendQueue` shows it to be. `WebSocket`
extends `StreamSocket`, as both sessions share `socketBase.go`. `TailList` is the
circular list that the event queue and the pool have in common. `RPC` composes
client and server over a channel, in practice a session whose close callback
calls `OnChannelDisconnect`. `Receiver` uses the decoder of `PB`, which is
written with the operators of `Bytes`.

In every module a goroutine has a program counter, and a step is what the code
does between two points where another goroutine can be seen: a section under a
lock, one atomic operation, one channel operation, one call of a callback.
Definitions whose comment begins with "Mutant:" are faulty variants of the
definition that follows them; no specification uses them. They are there so
that each property can be shown to depend on the code.

### Send queue and condition variable

`SendQueue` has one action per critical section; the signals and broadcasts
the code gives after `Unlock` are actions of their own. Goroutines blocked in
a condition variable are in the wait sets of `Cond`, one per condition, whose
operations are atomic. `CondImpl` models the code behind it: nodes from a
`sync.Pool`, linked lists, the channel each wait makes, and `popWait` in
`broadcast`, which runs on a detached list without the lock. It implements
`Cond` while no wait has a timeout. `removeWait` is one step, so the torn
outcomes of the data race between `broadcast` and a timed-out wait are not
explored.

### Sessions

`StreamSocket` has the goroutines of the program (`Users`), the send and the
receive goroutine, and the goroutine a delayed `Close` starts. `Close` is a
sub-procedure any of them can be in, since callbacks call it too. Messages are
`[]byte` ("bytes"), encodable objects ("obj") and objects `EnCode` rejects
("bad"); each is `Units` units on the wire. The connection may accept all or part
of a write, fail, or time out. Calls other than `Close` in callbacks are those
of a user. `BeginRecv` and the sends start their goroutines once.

`WebSocket` has the loops of its own two goroutines and `DirectSend`: a message is
a frame with a write of its own, and an encoding error or a write error belongs
to that frame. gorilla's connection returns its first write error and its first
read error from every later call; after a close frame of the peer the close
handler closes the connection from the receive goroutine. `SendWSClose` is a
`Send`. A behaviour uses `Send` or `DirectSend`, as `StreamSession.go:39`
("不应与Send混用") asks. A `WSMessage` without data would be an empty frame and is
left out.

`AioSocket` has no send or receive goroutine: a pool routine (`Tasks`) sends
what is queued until it finds the queue empty, and a completed receive runs the
callback and asks for the next. `sendLock` decides which task sends. The
connection of the goaio library is external: it completes each request once,
with success, a timeout or an error after a proper prefix of the bytes, and
refuses requests after its own `Close`. `EnCode` may fail on any message. Where
one thread's consecutive atomic operations cannot be told apart by the others
they are one step: `fclosed` with `ShutdownRead`, `addIO` with the start of the
task, `CloseWrite` with the close of `sendOverChan`.

### Pool, timer

`GoPool` gives each caller the task it is handing over (`hand`), each routine
its place in `run`; its lists are sequences there, and `LinkList` models the task
list itself, with its own free items and the pool all lists share. `Timer` has
the goroutine in `newTimer`, which arms the first `time.Timer` and then stores it,
the goroutines in which expired `time.Timer`s call `call`, and the goroutines that
cancel and reset, once `newTimer` has returned or a callback has given them the
timer.

### Event queue and event handler

`EventQueue` has goroutines that post (`Post`, `PostNoWait`, `PostFullReturn`, chosen
as `EmitToEventQueue` does), change the size and close, and the goroutine in
`Run`, whose events may post to the queue they are called from. The queue has one
`TailList` per priority with `count` and `high`, as in the code.

`EventHandler` is one event: its slot, the slots `Clear` has dropped and that
may still be emitting, and goroutines whose stack says which slots' handlers
they are in. While an emitter holds the lock between two callbacks nothing else
moves; the module says why nothing is lost by that. `Lists` has the operators on
sequences that it and `Logger` use.

### RPC

`RPCClient` is at the level of pointers: contexts and list heads with `nnext`
and `pprev`, the two maps, the pool. What `AsynCall` writes into a context
before `addCall` is written with it: a goroutine that still holds the context
would find neither its old nor its new sequence number in the map in between.
A context may be new or reused. `panicked` records a dereferenced nil pointer.
`RPCServer` takes a handler to be any program that replies, drops, panics or
returns, in any order, and lets any goroutine use any replyer later. A
behaviour has one environment: the server module with one channel, or failing
sends or disconnections with two channels and `AnyServer`, which answers a
request at most once, as `RepliesCounted` shows of `RPCServer`.

### Data structures, packets, log, listeners

`Bytes` has the operators for big-endian numbers, strings and readers that
the getters and `Append...` methods share, over bytes of `Base` values; `Buffer`
fills a buffer, patches and cuts it, and reads it back. `BufferPool` has the
goroutines in `Get` and `Put` and the one in `calibrate`; a buffer that is filled
beyond its capacity gets any larger one of `Caps`, as `append` may. `MinHeap` has the
operations of `container/heap` it uses as recursive operators. `Receiver` delivers
the encoded messages in pieces of any size to either of the two receivers: the
one with a buffer of its own, and the one that borrows a shared buffer while
data arrives. The session may be closed between any two of its calls, and before a
read that is going on completes. `Logger` takes a line's time before the lock and writes it after,
into the file of its day. `Listener` is `Serve` and `Close` of the three listeners;
the aio one repeats the tcp one word for word, and the websocket one has its loop
in `net/http`.

## Runs

Each run is one cfg file. "States" are distinct states.

| Run | Instance | States | Shows |
|---|---|---|---|
| `send_queue` | 2 producers, 2 consumers, a controller, sizes 1 and 2 | 251k | `WaitersCounted`, `NoLostWakeup`, `CapacityBound`, `ClosedRefusesItems`; `Progress` |
| `cond` | 4 goroutines, 3 nodes; no timed wait, or one goroutine that makes them | 405k | `LinkedNodesLive`; `IdealCond`, the refinement with fairness |
| `session` | 2 users, 2 messages; every call but `DirectSend`, or `DirectSend` with `Send` and `Close` | 592k | `CloseCallbackOnce`, `NoLostClose`, `DelayedCloseDrains` |
| `session_data` | 1 user, stream or websocket, rejected messages, timeouts; `DirectSend` and delayed close, or the shutdowns | 587k | `WireInOrder`, `DropsOnlyRejected`; `CloseCompletes` |
| `executors` | pool: 2 callers, 3 routines, 4 tasks, nine settings; timer: 2 users, 3 calls in flight, 3 `time.Timer`s | 121k | `RoutinesUsed`, `TaskOnce`, `PoolProgress`; `CallbacksExclusive`, `CancelStops`, `TimerFires` |
| `event_queue` | 2 posters, `Run`, 2 priorities and values outside them, sizes 1 and 2, 3 events | 189k | `QueueExact`, `NoLostWakeup`, `ServedInOrder`; `CloseDrains` |
| `aio` | 2 users, 2 tasks, 2 messages; the write side with `DirectSend`, or receives | 534k | `SendersSound`, `WireInOrder`, `IoAccounted` |
| `library` | nine parts, see `MCLibrary` | 585k | see below |
| `cond_stranded`, `session_stale_err`, `session_graceful`, `share_buffer` | small ones | | *violations*: see below |

`library` shows of RPC (2 calls, 2 contexts, 2 channels, 2 server goroutines) that
a handler is called once and with the response of its call (`HandlerOnce`), that
contexts, lists and the map agree (`ContextsMatch`), that a call is answered or on
its way to be (`CallNotForgotten`), and that the server answers once and counts
what is pending (`RepliesCounted`); of the event handler (2 goroutines, 3 handles,
2 slots, 2 emits, 2 removals) `CurrentLinked` and `CarriedOutOnce`; of the heap (4
elements, 3 keys, any sequence of calls) `HeapSound`; of the task list `ListIsQueue`;
of the buffer pool (2 goroutines, 3 classes, 4 puts, lengths beyond the last class) `Calibrated`; of buffers
`ReadsBack`; of the receivers (three streams, every way to cut them into reads)
`UnpackedInOrder` and `ReceiveBufferSound`; of the log (3 lines, 3 seconds, 2 days)
`LinesFiled`; of the listeners (3 callers, 2 clients) `ServeEndsQuietly`. Each
property is stated in words where it is defined.

Why these bounds: the hazards need one goroutine of each role and one rival.
Two producers and two consumers make a signal reach the wrong one; three nodes
for four goroutines force reuse of a node and keep one in a list; two users
let one call `Close` between two steps of the other's `Send`; three routines
exceed every limit of the pool; two calls and two contexts make a
context be reused while its former users still hold it, and put two nodes in
one list; two messages and two tasks let one task end while the other starts;
two slots let a cleared slot emit beside its successor, and three handles leave
a neighbour on each side of a removed one; three events over two priorities
leave one behind another of its own and beside one of the other priority; four
elements give the heap a node with two children and a grandchild; the streams
have packets that are empty, of an unknown type, of the largest size and
beyond. Counters are bounded by the finite sets of goroutines and by `MaxMsgs`,
`MaxDirect`, `MaxEvents`, `MaxEmits`, `MaxRemoves`, `MaxPuts`, `MaxValues`, `MaxTime`
and `MaxClients`. Numbers have their width in `Bytes` only, where bytes of two bits
in `ReadsBack` reach both ends of every signed range; the other integers of the
modelled code do not come near theirs. Deadlock checking is off because a
closed queue, session, pool or listener, a cancelled timer and a client that
has made all its calls do stop.

Fairness: in `SendQueue`, `CondImpl`, the sessions, `GoPool`, `Timer` and
`EventQueue` each goroutine that can take a step eventually takes one, which is
what Go's scheduler gives. Nothing more is assumed: a goroutine in a read or a
write only returns when the connection is closed (or, in a websocket, keeps an
error); no user is assumed to make a call; events and tasks return; a
`time.Timer` that is armed expires, unless it is reset before, which may go on for
ever (`TimerFires` allows for that). `Progress` of the queue's timed calls is shown
with the ideal condition variable of `Cond`, from which `removeWait` departs in the
way `cond_stranded` shows.

### Disagreements with the code's own statements

- `cond_stranded`: `removeWait` in the timeout branch of `waitWithTimeout`
  acts on a node that may have been popped and handed to another wait. The
  other goroutine is unlinked and not even `Close` wakes it, although
  `StreamSession.go:47` promises that sends return an error after `Close`.
- `session_stale_err`: after a message `EnCode` rejects, `[]byte` messages that
  follow are dropped as well, because `err` keeps its value between rounds.
  The comment at `streamSocket.go:203` speaks of the rejected packet only.
- `session_graceful`: `Close` with a delay looks at the length of the queue, not
  at what the send goroutine has taken, and closes at once in the middle of a
  batch, against `StreamSession.go:44-45`.
- `share_buffer`: when a read ends inside a header, `aio_sharebuffer.go:95`
  copies the bytes into a buffer of size 0 and loses them, although line 94 says
  that the rest of an incomplete packet goes into a buffer of its own. The
  passing run therefore has headers that arrive whole (`SplitHeaders`) for this
  receiver.

Seen while modelling, without a run of their own:

- a batch whose last part is unsent when a write times out is freed with that
  part (`streamSocket.go:244-250`);
- `closeCallBack` need not be the last callback: `ioDone` decrements and then
  tests, so a goroutine that saw 0 before another one was started may report
  the close while the other is in a callback. `CloseCallbackOnce` states what
  does hold;
- after a receive timeout a websocket session reads again and gets the same
  error again, without end unless the callback closes it; gorilla panics after
  a thousand such reads;
- tasks queued when the pool is closed are never run (`PoolProgress` says which
  tasks are);
- `Cancel` can leave a `time.Timer` armed; its expiry does nothing;
- `newTimer` stores its `time.Timer` after arming it (`timer.go:84`). If a repeat
  timer calls back and waits again before that, a `Cancel` finds nothing in `t` and
  panics (`timer.go:55`), although the comment in `call` says that it stops the old
  one; `LoadsTimer` says that this is the only such case. A late store over a newer
  `time.Timer` only makes `Cancel` stop the older one;
- the buffer pool counts lengths and keeps by capacity (`pool.go:69,76`), so a
  buffer of a length within `maxSize` may be dropped, since `append` allocates more;
  lengths beyond the largest class are counted in it and exceed any `maxSize`;
- when a read of the asynchronous session completes after `Close`, `OnData` is not
  called (`aiosocket.go:233`) and a shared buffer that was read into is not released:
  it is left to the garbage collector;
- `Send` of a websocket session accepts any object once there is an encoder; one
  that is neither a `[]byte` nor a `WSMessage` makes the send goroutine panic
  (`websocket.go:219`). The model has the first two only;
- an event that calls the blocking `Post` on a full queue waits for itself, until
  the queue is closed or made larger;
- in the RPC client, a timer that fires late on a reused context times out the
  call the context stands for now (it is answered, with `ErrCallTimeout`, before
  its time); a failed send whose context was reused removes the other call
  without an answer (`CallNotForgotten` is about behaviours without failed
  sends); between taking a channel's list and walking it, `OnChannelDisconnect`
  leaves calls in the map whose channel has no entry, and a response or timeout
  that arrives then dereferences nil (`client.go:109`); the walk itself may
  follow a link that was cleared (`client.go:145`). `ListsMatch` is about
  behaviours without disconnections for this reason;
- in the asynchronous session, a sender whose message another task has already
  sent starts a task of its own; if the queue is closed by then, both tasks pass
  `onSendComplete:3` and the second `close(s.sendOverChan)` panics
  (`aiosocket.go:431`). The model stops there (`panicked`);
- there, too, `closeCallBack` may be called while a sender is between its
  compare-and-swap and `addIO`; the task it starts finds the connection closed;
- `Remove` of a handle whose registration is still queued for the emitter does
  nothing, since the handle has no version yet (`eventHandler.go:108`);
- `OnServiceStop` answers posts, too; the client ignores the answer;
- a negative number written with `AppendInt` comes back from `GetInt` as a positive
  one where `int` has 64 bits, since 32 bits are written and read back unsigned;
- two calls of `Put` that both cross the threshold can calibrate one after the
  other, the second on counts that are almost all 0;
- `pb.Encode` accepts up to four bytes more than `pb.Decode` does for the same
  maximum, since only the decoder counts the number of the type; one of the
  streams has a message in between, on which the receivers end with an error;
- the log, when it opens a file of the same second again, counts its bytes from 0,
  although the field is commented as the bytes written to the file
  ("累计写入文件的字节数量");
- `Serve` of the websocket listener returns the error of `http.Serve` also after
  `Close`; `ServeEndsQuietly` says what holds for each kind.

## Proofs

Each theorem comes from an inductive invariant: it holds initially, every action
keeps it (one lemma per action), and the property follows. All are for any sets
of goroutines, messages, nodes, calls and so on, under the assumptions named in
the component's module: sets that are counted are finite, sizes and options are
integers, and the special values (`None`, `Nil`) are none of the goroutines,
contexts or events. `Contexts` and `Heads`
bound what `RPCClient` can allocate: `AsynCall` takes a context, and a list head that
nothing refers to, only where there is one; the theorems are for any such sets,
infinite ones included, but for `MapAndListsAgree`, which counts the contexts.
Two theorems about the stream session have a hypothesis of their own, `NoStale`
(below).

| Module | Theorems | Argument |
|---|---|---|
| `LibraryProofs` (send queue) | `TypeCorrect`, `CountersCorrect` (`WaitersCounted`), `WakeupsKept` (`NoLostWakeup`), `CapacityRespected` (`CapacityBound`), `ClosedQueueRefusesItems` (`ClosedRefusesItems`) | The code wakes nobody when a counter is 0, so that no wake-up is lost needs the counters to be exact, and these need the types. |
| `LibraryProofs` (event handler) | `HandlersLinked` (`CurrentLinked`), `HandlersCarriedOut` (`CarriedOutOnce`) | `EInv`: the version of a handle is the slot whose list it is in (`Linked`); a slot that emits is at a handle of its list, except while its emitter holds the lock (`AtHandle`), and is on one stack, once; a registration that is queued is the only one of its handle, which has no version yet (`Awaiting`); a handler of `RegisterOnce` that was called is being called, or is in no list and no queue (`CalledOnce`). An operation is queued only for a slot that emits, and its emitter leaves only with an empty queue. |
| `LibraryProofs` (listeners) | `ServeEnds` (`ServeEndsQuietly`) | `ServeInv`: the `net.Listener` of tcp and aio is closed by `Close` only, which sets `closed` first; so a `Serve` that got the error of a closed listener is still at its test of `closed`, and finds it set. Whoever is in the loop has set `started`, which nothing resets, so there is one at most. |
| `LibraryProofs` (log) | `LinesKept` (`LinesFiled`) | `LogInv`: a line is in a file only when `Log` is done with it (`AtFile`), so `Write` adds a line that is in no file; and the file it adds to is of the day of the line's own time, which was taken before the lock, because `checkOutputFile` compares that time and not the clock. That the last line decides about the size needs that an open file is not empty (`NotOverfull`). |
| `EventQueueProofs` | `WakeupsKept` (`NoLostWakeup`); `QueueKept` (`QueueExact`), `OrderKept` (`ServedInOrder`) | The first as for the send queue, with the wake-ups of `Run` and of posters. The others rest on `Linked`: a circular list whose links go from each event to the next younger one of the set, and from the youngest, the tail, to the oldest. `PushLinked` and `PopLinked` say what the two operations do to that set; the invariant `QInv` adds that `count` and `high` are those of the set. |
| `ExecutorsProofs` (pool) | `RoutinesBounded` (`RoutinesUsed`), `TaskKept` (`TaskOnce`) | `PoolInv`: the free list holds routines that wait, each once; a routine a caller sends to waits too, and no list and no other caller has it; a task is queued, handed over, running, started by itself or finished, and no two have the same one. That a task waits only while every permitted routine exists rests on `routineCount` being their number until `Close`. |
| `ExecutorsProofs` (timer) | `CallbacksDoNotOverlap` (`CallbacksExclusive`), `CancelIsFinal` (`CancelStops`) | At most one goroutine is between the compare-and-swap that begins a callback and its next one on `status`, none while the status is "waitting", and a `Cancel` that returned leaves the status "removed" for good. `Loaded`: once `newTimer` has returned there is a `time.Timer` in `t`, and a once timer cannot be waiting when others know it before that. |
| `StreamSocketProofs` | `CloseIsReported` (`NoLostClose`), `ReportedOnce` (`CloseCallbackOnce`) | `ioCount` counts the goroutines that have yet to call `ioDone`, since each is started once; the flags are set in the order in which the others test them. |
| `StreamSocketProofs` (data) | `SentInOrder` (`WireInOrder`), `DroppedWereRejected` (`DropsOnlyRejected`), `DelayDrains` (`DelayedCloseDrains`) | See below. |
| `AioSocketProofs` | `OneSender` (`SendersSound`); `AccountedFor` (`IoAccounted`), `InOrder` (`WireInOrder`) | At most one goroutine is between taking and releasing `sendLock`, even where one takes it for another; a queued message with the lock free has a goroutine about to try for it. That the lock is left behind only in a closed session needs what `fclosed` says about `closeOnce`. From this invariant comes the next, `JInv`: `ioCount` is the number of goroutines in an operation; a session that was closed has somebody left who will call `closeCallBack` (`ClosePending`), a closed queue somebody who will shut the write side (`WriteEnds`); and what is on the wire, in the buffer of the one task that holds the lock and in the queue are, one after the other, in the order of `Send` (`Ordered`). That a task continues after a timed-out write where it stopped needs that nobody else touched its buffer, which is `OneSender`. |
| `CondImplProofs` | `WakeupsReachWaiters` (`LinkedNodesLive`), `ImplementsCond` | A node is on one list, once, and carries the channel of one wait in progress. A broadcast and a timed wait act on a node and a channel they remember; `Owned` says that the only linked node with that channel is the remembered one, without which closing the one could leave the other. Without timed waits every step of `CondImpl` is a step of `Cond`, or changes neither wait sets nor blocked sets; `Untimed` (a broadcast is alone on the list it took) is what this adds to the invariant. With timed waits the mapping is constant, and `ImplementsCond` says nothing. |
| `RPCClientProofs`, `RPCProofs` (client) | `HandlersCalledOnce` (`HandlerOnce`), `ContextsReleasedOnce` (`ReleasedOnce`, a part of `ContextsMatch`), `CallsKept` (`CallNotForgotten`), `MapAndListsAgree` (`ContextsMatch`) | See below. |
| `RPCProofs` (server) | `OneReplyEach` (`RepliesCounted`) | A request is put in flight once and taken out once, and the flag of its replyer only goes from "none" to "open" to "fired". Only the goroutine that fires it may send; `pendingCount` is the number of open replyers and of goroutines between firing and counting down. |

The client of RPC is the hard one, because a context goes back to the pool while
a timer, a failed send or a walk of `OnChannelDisconnect` may still hold it.
`ClientInv` does not say that holders are gone. It says that a context has at
most one *use* at a time: it is in the map, or one goroutine has taken it out and
is about to call its handler, or it is in the pool (`OneUse`). Who takes it out is
decided under the lock, and a late holder looks in the map before it does
anything; so it finds the call that the context stands for now, or nothing.
`Named` says that the fields of a context belong to one call, `Mapped` that a call
in the map has its own context and its own timer on its way, `Over` that a call
that was answered is out of the map and with nobody, and `Kept` that, while no
send failed, a call that left the map without an answer is with somebody. A nil
dereference ends the client between two steps (`panicked`); of the states after
it `ClientInv` keeps the types, `HandlerOnce` and `ReleasedOnce`. `RPCClientProofs`
has one lemma per action; `RPCProofs` puts them together under any server.

`ClientInv` says nothing of the links of the lists, because a disconnection can
leave them in any shape. Without disconnections `ListInv` holds as well: for every
channel that has calls there is a sequence of the contexts of exactly these calls,
without repetition, such that the links go from the head through it and back
(`Ring`), no two channels share a head, and nothing has panicked. `RingGrows` and
`RingShrinks` say that `add` and `remove` of a context turn a ring into the one with
the context in front, or without it. `ListsMatch` walks the links `Cardinality(Contexts)`
times; that the walk sees the whole ring and ends at the head needs that a ring is
no longer than there are contexts, hence the finite set.

The data of the stream session. `KInv` says where the messages are: in the queue,
in the batch the send goroutine took, encoded in its buffer, on the wire, or
dropped; the numbers of the messages ascend along these places (`Numbered`,
`Ordered`), which is `WireInOrder` on the wire. Its conjunct `Complete` says that
while no write failed and the session is open, or closing with a delay,
every unit of a message that `EnCode` accepts is on the wire, or still ahead of it;
for this `Delays` says that a delayed `Close` has not touched the connection while
the send goroutine has something to write. `Complete` has the hypothesis `NoStale`:
the program does not send both a `[]byte` and a message that `EnCode` rejects. It is
necessary, as `session_stale_err` shows, and `DroppedWereRejected` and `DelayDrains`
state it; `SentInOrder` does not need it.

`ClientInv`, `ListInv`, `ServerInv`, `EInv`, `LogInv`, `ServeInv`, `KInv`, `JInv`, `PoolInv`,
`QInv` and the other invariants were also checked with TLC on the instances of the runs.

The provers cannot use an induction theorem that takes a predicate. Where
induction is needed, the proofs take a set of natural numbers instead: if it had
not all of them it would have a least missing one, which a theorem of the library
provides (`EveryNat`, `AllNaturals`). In this way `EncodeResult` says what the
encoding loop makes of a batch of any length, and `WalkOfRing` where a walk along
the links gets to. `TailList` and `CondImpl` state their lists by links and by
membership rather than by recursion.

Only model-checked: liveness, and so the fairness part of `IdealCond`
(`ImplementsCond` is `Ideal!Safety`); what recursive operators compute, which are
the heap, the buffers and the receivers; the task list of the pool, the buffer
pool, and what `WebSocket` adds to `StreamSocket`.

## Not modelled

- `util/notify.go`: a channel of one place that nothing in the library uses.
  `util/flag.go` is part of the sessions' models, one action per operation.
- `util/hook.go`, `util/util.go`: patching of machine code, stack traces,
  reflection, paths.
- Connectors: a dial, then the construction of a session; no state in between.
- `log.go`, `golog/level.go`, `golog/color.go`, `golog/log_windows.go`, and the
  layout of a line: an interface, names and escape sequences.
- `StreamSession.go`, `error.go`, `message/`: interfaces, error values and message
  types; the promises in the comments of the first are properties of the sessions.
- `example/`: benchmarks that only call the library, generated protocol buffer
  code, and `sock_proxy.go`, which uses functions the library no longer has and
  does not build. Registration of message types is a constant set in `PB`, and
  `proto.Unmarshal` accepts what `proto.Marshal` made.
- In the sessions: finalizers, the ping and pong handlers of a websocket, the
  service that creates asynchronous connections, and the default inbound
  processor. Encoders and inbound processors otherwise belong to the program;
  the models have what they can return.
- Torn reads and writes: the data races in `sendqueue.go` (`broadcast` against
  `removeWait`) and in the unlocked walk of `rpc/client.go` are explored at the
  grain of whole links, not of the outcomes below it.
