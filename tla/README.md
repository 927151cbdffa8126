# TLA+ models of the Rookie2025_Spring server programs

The repository collects network programs in C and C++: small examples of one system call, complete servers, and the
components they are built from (a thread pool, HTTP parsers, timer containers, a process pool). This directory holds TLA+
specifications of the ones that have state and behaviour of their own, TLC configurations that check them on small
instances, and proofs that TLAPS checks for all instances. Paths and line numbers refer to the sources; `PROJECT.json`
gives, for every definition that models code, the lines it stands for.

## 1. Inventory

### The chapter 15 web server

| component | state | operations | interacts with |
|---|---|---|---|
| thread pool (`15/03_threadpool.h`, `14/02_locker.h`) | `m_workqueue`, mutex, semaphore, `m_stop`, the threads' places | `append`, `run`, destructor | main appends; workers call `process()` of the object they pop |
| event loop (`15/05_main.cpp`) | the batch of events, `users[]` | `epoll_wait`, accept, dispatch by event kind | kernel, `http_conn`, pool |
| connections (`15/04_http_conn.*`) | per descriptor: `m_sockfd`, buffers and indices, `m_linger`, file mapping; global `m_user_count` | `init`, `read`, `write`, `process`, `close_conn` | called by main *and* by workers, without a lock |
| parsers (`15/04_http_conn.cpp`, `08/http_praser.c`) | parser state, `m_checked_idx`, `m_start_line`, `m_read_idx` | `parse_line` and the loops around it | fed by `read` in pieces |

Hard: `users[fd]` is shared without a lock and handed over by `EPOLLONESHOT` alone; a worker's `close_conn` releases the
descriptor before it has finished with the object; `m_user_count` is changed without a lock; `append` may refuse and
nobody looks; input is cut anywhere. Correct means: one owner per connection, nothing queued forgotten, every complete
request answered or its connection closed, a verdict that does not depend on how the input was cut. The last two do not hold for a
request with a body: a read that ends inside it makes `process_read` lose its place, and such a request may never be
answered (section 3 has this and the other exceptions).

### Timers (chapter 11)

| component | state | operations | interacts with |
|---|---|---|---|
| sorted list (`11/02_lst_timer.h`) | a doubly linked list with `head` and `tail` | add, adjust, delete, tick | callbacks |
| wheel (`11/03_timer_wheel.h`) | 60 slots, the hand, per timer its rotation and slot | add, delete, tick | callbacks |
| heap (`11/04_ime_heap.h`) | an array that doubles, its size | add, lazy delete, pop, tick | callbacks |
| server (`11/02_timer_server.c`) | `users[]` and their timers, the alarm, the signal pipe | accept, recv, signals, tick | the list, kernel, signals |

Hard: links and indices under any sequence of calls; deleted timers that stay in the heap; whole turns of the wheel; the
alarm that is set again only if its byte came through the pipe; one `recv` per edge-triggered event; descriptors and
timer objects that are reused. Correct means: what is due fires, nothing else does, timers and connections stay matched,
idle connections are closed and live ones are not.

### Servers with several processes

| component | state | operations | interacts with |
|---|---|---|---|
| chat server (`13/02_chat_server.c`) | `users[]`, `user_count`, `sub_process[]`, shared memory by slots, one pipe per child | accept and fork, forward an index, reap, SIGTERM; the child's loop | children write slots that other children read; signals are bytes in a pipe |
| process pool (`15/01_process_pool.h`) | the round robin's place, `m_pid[]`, `m_stop` of each process | announce a connection, reap, SIGTERM; the child's accept | children share the listening socket; ints in socket pairs |
| CGI server (`15/02_pool_cgi.c`) | the same, and the open connections and scripts of a child | the same, and serving, forking a script | the end of the parent is the end of the pipes |

Hard: SIGCHLD merges, children end in any order while the parent forks others and the kernel reuses process numbers;
an index travels through two pipes while the slot it names is written again; a signal falls between the test of a flag and
`epoll_wait`; one int is read per edge. Correct means: the parent's tables describe the children; the server ends after
all of its children; a connection announced is accepted; nobody hears his own text.

### Single-threaded loops

| component | state | operations | interacts with |
|---|---|---|---|
| poll chat server (`09/05_poll_server.c`) | `fds[]` packed, `users[]` by descriptor, a `write_buf` into a neighbour's buffer | the pass over poll's results: accept, error, leave, read, write | kernel; the results are those of before the pass |
| epoll loops (`09/02_epoll.c`), echo server (`09/06_echo_server.c`) | per connection what is unread and what is reported | level- and edge-triggered reading, datagrams, echo | kernel |
| libevent excerpts (chapter 12) | `ev_flags`, the map of I/O events, `event_count` | `event_add_internal`, `event_queue_insert`, `event_base_loop` | callbacks that add events |
| tiny and rio (`tiny-web/`) | `rio_t`: buffer and count; tiny: place in the request, `buf` on the stack | the three readers; request, headers, answer, CGI child | one client at a time |
| answer of the web server (`15/04_http_conn.cpp`) | `m_write_buf`, `m_iv`, mapping, `bytes_have_send` | `process_write`, `write` | the socket takes less than it is offered |

Hard: an entry moves while the pass over the array goes on; an edge that is not read to its end; a request cut anywhere; a
`writev` that stops in the middle. Correct means: the two arrays agree; no data without an event; the reader returns the
stream as it came; what a response announces is what is sent.

### Small programs

The one-shot example (`09/03_epolloneshot.c`), which starts a thread per event, is modelled. The unified signal source
(chapter 10), the deadlock and signal examples (chapter 14), the semaphore and descriptor passing (chapter 13), the load
generator (chapter 16), the connect examples and the socket API examples (chapters 5 to 7) are not; section 6 says why.

## 2. Modules

```
  RequestQueue  <--implements (TLC, TLAPS)--  ThreadPool          TimerSet  <--implements (TLC, TLAPS)--  SortTimerList
       ^                                                             ^      <--implements (TLC, TLAPS)--  TimerWheel
       | used in place of the pool                                   |      <--implements (TLC, TLAPS)--  TimeHeap
   WebServer        HttpParser      EpollOneshot                     | used in place of the list
                                                                 TimerServer

   SignalPipe <-- ChatServer          PollServer, EpollLoops  (MCSockets)          HttpWrite, Rio <-- Tiny  (MCIo)
       ^
       +--------- ProcessPool <-- PoolCgi  (MCPools)             EventBase
```

**RequestQueue** is what the pool promises: a bounded FIFO queue whose entries each go to one worker. **ThreadPool** is
the code: a step is one access to shared state (take the lock, push, unlock, post; test `m_stop`, wait, lock, pop, unlock,
process), so every interleaving of lock, semaphore and queue exists. The bound is compared with `>` as in line 70. After the
destructor has set `m_stop` the pool may be freed at any time, which ends the behaviour: using it then is undefined.

**WebServer** is main, the kernel's side of epoll, the `users[fd]` objects and the workers' `process()`. A request is
`RequestPieces` pieces. `epoll_wait` disarms what it reports (`EPOLLONESHOT`), `modfd` arms it again and looks at the state
afresh. `close_conn` of a worker is four steps (close the descriptor, forget it, load the count, store it), and so is
`init`'s count, because main and the other workers run in between. The pool is RequestQueue's actions; that is sound
because ThreadPool implements RequestQueue. `body_cut` of an object says that `process_read`, called when a read had ended inside the
body, has moved `m_checked_idx` into it (`NoRequestYet`, lines 228-229 and 253-257): the length of the body is then measured from
the wrong place, and the request is `NO_REQUEST` however complete it is, until the client sends as much more (`Parsed`). The model keeps
four histories (`reused`, `refused`, `lost`, `abandoned`) that no modelled action reads: they name the situations in which the code
gives no guarantee, and the properties except exactly those.

**HttpParser** holds both parsers: indices, states and loops as in the code, over an input of tokens (CR, LF, and one
token per piece of text the parsers distinguish). Each `recv` takes any number of tokens. The properties compare the verdict
with a reference that reads the whole prefix at once with quantifiers, not with a scan.

**EpollOneshot** is the one-shot example with the thread argument passed by address.

**TimerSet** is what a container of timers promises: per timer that is set the time `left`, and per step the timers that
`fired`. It has two clocks: in `ClockedNext` time passes in steps of its own (list and heap read `time(NULL)`), in
`TickedNext` the call of `tick` is the unit of time (wheel). **SortTimerList** keeps `next` as the sequence `chain` and, apart
from it, the `prev` pointers and `tail`, which the code updates in different places; `tail` is left dangling by `tick` as in
lines 104-122. Its caller never shortens a deadline: `adjust_timer` cannot move a timer towards the head, and the only caller
in the repository adds a constant to the current time. **TimerWheel** keeps a slot as a set, since `tick` visits all of it.
**TimeHeap** has the array, both constructors, `percolate_down`, `resize`, lazy deletion and `pop_timer`. Each of the code's loops is a
function of one turn (`Down`, `Up`, `HeapifyNode`, `Pop`) and a recursive function over the turns. The code keeps the timer that moves in a local
and the array with a hole; here the timer is in the hole all the time, so that a turn is a `Swap` and the array holds the same timers throughout.

**TimerServer** is the event loop over TimerSet. Time is counted down in `left` and `alarm`, so it is unbounded. Signals reach
the loop through the pipe; the timers are looked at after a whole batch of events. In `cb_func` the global `epollfd` is not
main's (main shadows it), so the `EPOLL_CTL_DEL` does nothing, and `close` alone removes the registration: `Close` models that.

**SignalPipe** is what chat server and pools share: a handler writes a byte into a pipe, and a signal that is pending when it
is raised again is one byte.

**ChatServer** has the parent, a process per client, and the pipes as sequences of indices. A process number is reused as
soon as it is reaped, and a child has the code's places between which a signal makes a difference: forked (the parent's
handlers still), deaf, the test of `stop_child`, the gap before `epoll_wait`, blocked. A slot holds the name of the process
whose client wrote it. When the parent fills the gap in `users` with the last user (line 282), that user's process goes on
writing into its old slot, and the next client is given the same one: `moved` records it. Without that exception `NoEcho`
is violated.

**ProcessPool** is run_parent and run_child with the pipes, the signals and children that may crash at any time; **PoolCgi**
extends it and says where the CGI server differs: the parent does not look whether a child is alive, a child takes SIGTERM
as a flag, and it ends when the pipe ends. Copies of the parent's ends are inherited by the children forked later and by their
scripts, so that a killed parent is noticed from the last child to the first.

**PollServer** makes the pass over poll's results a step per entry, because clients act meanwhile and an entry that is
moved keeps the results it was given. **EpollLoops** has the two modes of `02_epoll.c` and the echo server in one variable `mode`:
a piece of data is what one `recv` takes.

**HttpWrite** counts bytes where WebServer has "a response": lines of the header, the blank line and the file are units, and
`writev` takes any number of them that fits. **Rio** is the buffered reader over a stream that arrives in any pieces; **Tiny**
extends it with the server, whose failing wrappers end the program: a write or read to a client that has gone, `Open` of a file that the
process may not read, `Mmap` of an empty one. An error whose cause is about as long as a line overflows `body` in `clienterror`
(`filled`, `"long error"`); the program may then end or go on.

**EventBase** is the excerpts of chapter 12 as they stand.

MCTimers, MCPools, MCSockets and MCIo let the initial state choose one of the systems they hold (`which`), so that
each run explores all of them side by side. MCTimers, MCPools and MCIo extend a module whose names they prefix (`ListInit`,
`IoNext`) and instantiate the others.

The proofs are in modules of their own: ThreadPoolProofs, WebServerProofs, TimerServerProofs and ChatServerProofs, each about the
module it is named for; TimeHeapProofs about the heap of MCTimers, and TimersProofs, which extends it, about the list, the wheel and the
three together; EventLoopProofs about PollServer, EpollLoops, ProcessPool and PoolCgi; IoProofs about HttpParser, Rio, Tiny and HttpWrite.

## 3. Runs

| run | instance | states | what it shows |
|---|---|---|---|
| `thread_pool` | 2 producers, 2 workers, 2 requests, bound 1 | 3,026 | semaphore plus tokens in flight count the queue; a worker let through never finds the queue empty (the branch of lines 92-95 is dead); the queue holds at most bound + 1; the pool is the abstract queue, with its liveness |
| `web_server` | 2 descriptors, 2 workers, 2 connections, requests of 2 pieces | 166,695 | exactly one owner per connection; `m_user_count` right unless two updates overlap; a mapping outlives its response only after a close; a request that has come whole is answered unless a read ended inside its body, and every response is sent, or the connection closed |
| `http_parser` | all cuts of about 770 inputs: right and wrong request lines, two headers, each kind of line end, bodies from too short to too long | 67,545 | both verdicts are independent of the cuts, that of `http_conn` as long as no read ended inside the body; a request is never handed on before its body is there |
| `timers` | 4 timers; list and heap: delays 1..3, time to 3; wheel: 3 slots, delays up to 7 ticks; heap: capacity 1, or an array of 4 | 28,220 | links and order of the list, slots of the wheel, heap order, and step by step the same promises for all three containers |
| `timer_server` | 2 descriptors, 2 timers, `TIMESLOT` 2, idle limit 6 | 364,193 | timers and connections match one to one; no live connection is closed before the limit; idle and abandoned ones are always closed |
| `chat_server` | 2 process numbers, 2 slots, 3 clients, 2 texts, 1 SIGTERM | 922,591 | the tables describe the children in every order of exits; the server ends after its children and does end after SIGTERM; nobody is sent his own text until a user is moved |
| `process_pools` | 2 children that may crash, 3 connections, 1 SIGTERM, a parent that may be killed | 75,625 | `m_pid` is -1 exactly for reaped children and the parent ends after them; connections are accepted; SIGTERM ends the server; the CGI children follow a killed parent |
| `sockets` | 3 descriptors, 2 users, 2 texts; 3 connections, 3 pieces | 337,016 | both arrays of the poll server agree with the kernel, a text reaches exactly the others, from its writer's buffer; no data or end of stream of the epoll loops waits without an event, and no more connections do than came on another's edge |
| `io` | files of 0 to 2 units; 6 streams, buffer 3, line 4 | 380,190 | what `write` takes to be sent is one response, header and file, unless a `writev` was short; rio hands on the stream without loss or repetition; a client of tiny that sends a whole request is served, unless a wrapper exits over the file or the error names a cause as long as a line |
| `epoll_oneshot` | 2 sockets, 2 threads | violated | two threads receive on one socket, against the file's opening comment |
| `event_base` | 1 I/O event, 1 timer | violated | the loop returns with the report that no events are registered while one is |
| `echo` | as `sockets` | violated | the echo server drops what does not fit into the socket |

The finding of `epoll_oneshot`: `main` passes each thread `&fds_for_new_worker`, a local it writes again for the next event
(`09/03_epolloneshot.c:154-155`); the thread reads it when it first runs (line 65). Both threads may then read the second
socket. Line 5 of the file promises one thread per socket at any moment.

The finding of `event_base`: the comment of `12/02_event_internal.c:85` says that the event is marked as inserted; the code
enters an I/O event into the map (line 86) and does not call `event_queue_insert(base, ev, EVLIST_INSERTED)`. `event_count`
stays 0, the loop returns 1 with "no events registered" (`12/06_event_base_loop.c:48`), and adding the event again enters it twice. The property is
one of the step in which the loop returns, since events may be added as soon as it has.

The finding of `echo`: the connections are non-blocking, and `09/06_echo_server.c:191` prints the result of `send` and forgets it.
Line 7 of the file promises that what is received is sent back.

### What the properties except

An exception is a situation that the code really gets into and gives no guarantee for; it is named by a history variable or
in the property, and the model goes through it.

* `web_server`: a descriptor that is given out again before a worker has finished with it (`15/04_http_conn.cpp:54-55`, `reused`) may have two
  owners, and the worker wipes the new connection's `m_sockfd`. Two updates of `m_user_count` that overlap lose one (line 56, `lost`);
  a connection closed before its response is written keeps its mapping (`abandoned`); a request that `append` refuses
  (`15/05_main.cpp:114`, `refused`) leaves its descriptor disarmed. A request of which a read ended inside the body may never be
  answered (lines 253-257, `body_cut`).
* `http_parser`: the same cut (`partial`) is excepted from the verdict of `http_conn`. `BodyNeverShort` has no exception: even then no request is
  handed on without its body.
* `timers`, `timer_server`: `adjust_timer` is never called with an earlier deadline (the guard of `AdjustTimer`). `NoEarlyClose`
  measures a connection's silence from the last `recv` that found data: data that comes after `epoll_wait` has returned does
  not save it from the tick of that batch.
* `chat_server`: a child caught by SIGTERM between `fork` and `addsig`, or between the test of `stop_child` and `epoll_wait`
  (`13/02_chat_server.c:97`), does not end; a client accepted after SIGTERM was handled never hears of it (`excused`, which
  `StopsAfterTerm` and `NoOrphan` both except). After a user was moved two children may write one slot (`moved`): from then on `NoEcho` and the
  slots of `TableMatches` say nothing.
* `process_pools`: two arrivals that become one edge, or an int sent to a child that has ended unnoticed, leave a connection
  waiting until the next one (`stranded`, which stays set). If all children die before the parent has its SIGCHLD handler, or SIGTERM finds a child
  between test and wait, the server does not end (`excused`). In the CGI server `kill(m_pid)` of a reaped child is
  `kill(-1)` (`15/02_pool_cgi.c:304`). The children of the process pool do not notice a killed parent, only those of the CGI server do.
* `sockets`: the listening socket of `02_epoll.c` is edge triggered and `accept` is called once: of two connections that arrive
  together one waits for the next, and so does every one after it, since an edge is good for one `accept`. `merged` counts
  them, and that many may wait. `SendsTheirText` says nothing of a writer who has left: his buffer may be another's by then (`dangling`).
* `io`: after a `writev` that took a part, `write` offers the same bytes again from the first one (`15/04_http_conn.cpp:322`, `short`); an
  empty file makes `mmap` fail, so the web server sends a header that announces nothing it can send (line 287). Tiny exits over an
  empty file (`Mmap`, `tiny.c:165`) and over one that its owner may read and the server may not (`Open`, line 164), and may not survive an error
  whose cause fills the line (line 96).
  A client that hangs up ends tiny by SIGPIPE or `unix_error`, and one that ends its stream inside the headers keeps it in a loop
  (`tiny.c:114`).

### Bounds, and why they are enough

* Two of each kind of thread is the least with interference inside a kind; bound 1 makes the queue run full (two entries)
  with two producers. The proofs remove these bounds altogether.
* Two descriptors and two connections make one descriptor be closed, chosen again by `accept` (which takes the lowest free
  one), and used by a worker that has not finished with it. `RequestPieces` 2 makes a request incomplete once; `BufferSize` 3
  makes the read buffer overflow once. The buffer is full then, so a client that makes up for a cut body by sending more has
  its connection closed instead; that it is answered in a larger buffer is an outcome that `RequestAnswered` does not need.
* Parser inputs have at most one malformed line end, after the request line or after the first header, and two header
  lines, so that a header can repeat. `BufferSize` 14 is less than the longest input, so that the buffer-full path is taken.
* Four timers give the list an inner node with neighbours on both sides and the heap three levels, with a node that has
  two children. Capacity 1 makes `resize` run twice. Three slots and delays of 7 ticks give up to two whole turns. The
  symmetry of the timers is used in `timers` only, which has no liveness property.
* `TIMESLOT` 2 puts accepts, data and deadlines between two alarms as well as at them. One piece of unread data per
  connection is enough for the end of the stream to stay unread behind it.

* Chat server: two process numbers and three clients reuse a number and a slot while the other child lives; two texts are two
  indices in the pipes at once. Two is also the least with a user to move. The proof removes these bounds for the tables.
* Pools: two children are the least with a round robin and with a copy of another's pipe; three connections let both be
  announced to and two arrivals merge. Three children with two connections pass as well. `MaxTerms` 1: a second SIGTERM asks for the same.
* `sockets`: three descriptors with `USER_LIMIT` 2 refuse a client and move an entry; `Room` 1 fills the echo's socket. The
  descriptors are symmetric: the properties are safety, and no model orders them.
* `io`: `WRITE_BUFFER_SIZE` 8 holds each answer. The longest is 6 units and `Room` is 7: one answer fits, the second one of
  a connection that is kept alive meets what the client has not read of the first, so that `writev` is cut in the header,
  between the two buffers and in the file, and also finds no room at all. `MaxReceived` 8 lets the client read one whole answer and
  a part of the next. A buffer of 3 and lines of 4 make rio refill within a line and cut a line that is too long; the streams have a whole request, one with a
  header longer than `MAXLINE`, one whose first line is, one that stops in its headers, one with another method whose line is
  full, and one without a method.

Deadlock checking is off in every run: each of the models stops legitimately (clients need not come; the pool is destroyed;
the parser has reached a verdict; `timer_server` exits; time is bounded in `timers`).

### Fairness

* `ThreadPool`: a thread that can take its next step takes it. Taking the mutex is strongly fair: the futex queue does not
  starve a waiter. Nobody has to call `append` or destroy the pool.
* `WebServer`: main and every worker run, and a client that receives drains its socket. `write` may meet a full socket
  again and again; strong fairness on the write that leaves room says that a window drained over and over lets the response
  fit in the end. Nothing obliges a client to connect, send or hang up.
* `TimerServer`: main runs, time passes, and a signal that is due is delivered before more time passes. Nothing obliges a
  client to do anything.
* `ChatServer`: the kernel runs the parent and every child; one weakly fair disjunction for each, which is what one
  loop over `epoll_wait` gives, since every event is returned in some batch.
* `MCPools`: the same for the parent and each child, and strong fairness for a CGI child's event on its pipe: `epoll_wait` returns
  every event there is, so requests of other connections cannot keep it away for ever. Connections, scripts and crashes owe nothing.
* `MCIo`: tiny runs, a CGI program ends, and a client that has begun goes on sending: tiny waits for one client and has no
  timeout, so that nothing could be promised to the others otherwise.
* `HttpParser`, `timers` and `sockets` state safety only and assume none. `EpollOneshot` and
  `EchoesAll` are checked for an invariant, `EventBase` for a property of its steps.

## 4. Proofs

**ThreadPoolProofs** (323 obligations) assumes `PoolAssumption`: a bound of at least 1, which the constructor enforces,
finite sets of threads, producers that are not workers. The inductive invariant `IInv` is `TypeOK`, `MutualExclusion` (the
owner of the mutex is exactly the thread between `lock` and `unlock`), `RequestHeld` (where a thread has a request in its
hands) and `TokenCount` (length of the queue = semaphore + tokens in flight). `TokenCount` alone is not inductive: that a
push and a pop change it by one needs mutual exclusion, and that a popped worker really carries a token needs the program
counters. From `IInv` follow:

* `TypeCorrect`, `Exclusion`, `Tokens`: its parts, for every number of threads;
* `NoEmptyPop`: a worker at the pop carries a token, so the set in flight is not empty, so neither is the queue;
* `Bounded`: at most `MaxRequests + 1` requests, from the test under the lock;
* `Implementation`: `Spec => RQ!QueueSafety`. Each step maps to `Submit` (push), `Start` (pop), `Finish` (end of process),
  `Close` (destructor) or a stutter; that a worker serves nothing when it pops is `RequestHeld`.

**TimersProofs** (2171 obligations) is about the list and the wheel of MCTimers. Of its `ContainersAssumption` they need `ListAssumption` (delays
and times are natural numbers, and `NULL` is not a timer) and `WheelAssumption` (at least one slot, a positive interval and delays that
`add_timer` does not refuse). A step of one container leaves the variables of the others alone (`StepAll`, `HeapStep`). The list:

* `TypeCorrect` and `StaysLinked`: after any sequence of calls the chain has no timer twice, each `prev` pointer leads to the
  predecessor, `tail` to the last timer, and the deadlines do not fall along the chain. The invariant `LinkInv` adds `Unlinked`: a
  timer outside the list has no back pointer. It is needed because `add_timer` before `head` and into the empty list leaves
  the `prev` of the new head as it finds it. `LinkGood`, `UnlinkGood` and `BehindGood` say what linking a node in, taking one out and
  appending one does to the links and the order; the operations of the list follow from them.
* `ListImplementation`: the list is `TimerSet`, `left` being the deadline minus the clock. `tick` stops at the first timer that is not
  due; that this is all that is due follows from the order, so the refinement needs `StaysLinked`.

The wheel:

* `TypeCorrect`: hand and slots stay in the wheel, `rotation` stays a natural number, and a timer is in no slot but the
  one its `time_slot` names, where `del_timer` looks for it. This invariant is inductive as it stands.
* `WheelImplementation`: the wheel is `TimerSet` for every number of slots. The mapping takes a timer to
  `rotation * N + distance from the hand`. The lemmas `Division` and `Ahead` show that `add_timer`'s quotient and remainder make
  this the number of ticks asked for; `WheelTickMaps` shows that a tick lowers it by one for every timer: in the slot of the hand
  the rotation goes down and the distance wraps to `N - 1`, elsewhere the distance goes down.

**TimeHeapProofs** (1461 obligations) is about the heap. It assumes `HeapAssumption`: delays are natural numbers, and neither the capacity
nor the given array is empty (`resize` doubles, so a heap of capacity 0 would never grow).

* A loop is treated once and for all: `Loop` says that a loop whose turns stay in a set of states and lower a number
  until nothing changes has come to rest after that many turns, and `LoopExists` that the recursive function over the turns exists. Both rest on
  `Least`, that a finite set of numbers has a least element. So what is shown of a turn holds of `percolate_down`, of the loop of
  `add_timer`, of the second constructor's loop and of `tick`'s, for an array of any size.
* `Percolated`: `percolate_down(hole)` on an array in order below `hole` makes it in order at `hole` too, with the same timers and nothing
  changed above. During the loop (`Sinking`) the order fails at the children of the hole at most, and what is above the hole already
  fits its grandchildren. `Risen` is the same for `add_timer` with the order failing between the hole and its parent at most (`Rising`).
* `StaysHeap` (`HeapOrdered`) and `HeapImplementation` (`HeapImplements`), and the heap's part of `TypeCorrect`: the top is the first to expire (`TopFirst`, the induction up
  the tree), so `tick` takes out exactly what is due (`Popped`); `left` is that of the timers that were not deleted. The invariant `HeapInv` has besides the
  order that no timer is in the array twice, that what was not deleted is in it, and that after a tick that fired something nothing is due: a
  `pop_timer` that throws away a deleted timer then maps to a tick that finds nothing.

**TimerServerProofs** (656 obligations) assumes `ServerAssumption`: a positive `TIMESLOT`, a finite set of
descriptors other than the listening socket and the pipe, `NULL` not a timer, and the one delay that the server uses.

* `TypeCorrect`, `TimersFound` (`TimersMatch`) and `NoneClosedEarly` (`NoEarlyClose`). The last one is an action property and
  rests on an equation between two clocks: for an open connection, the time since its last data plus what is left of its
  timer is the idle limit (`Paired`). So a timer that is due belongs to a connection that was silent for the whole limit.
* The invariant `Inv` has besides: a set timer belongs to an open connection that points back to it (`SetTimers`, `Reaches`); an event of a
  batch that is not handled yet is about a descriptor that is still open (`Batch`), since only the handler of a connection and the tick at the
  end of the batch close it; epoll reports no closed descriptor (`Unreported`).

**ChatServerProofs** (1004 obligations) assumes `ChatAssumption`: a finite set of process numbers without `NULL`, and at
least one user. The first invariant is `TypeOK /\ TableMatches`; each needs the other, for that the last entry of `users`
is a process, and its index one of the table, is what `TableMatches` says.

* `TypeCorrect`: `user_count` stays within `USER_LIMIT`, so that every child has a slot in the shared memory.
* `Tables`: `users` and `sub_process` describe exactly the processes not yet reaped. `WaitpidTable` is the heart of it: the
  process that is reaped is found at its own entry; if it is not the last one, the last one takes its place and its index is
  brought up to date; no other entry is touched. `AcceptTable` shows that a process number that is reused has no entry left.
* `Orphans`: a server that ended has no child that runs on. `NoOrphan` is not inductive: the loop decides to end in one step
  and ends in another, so the strengthening `NoneWhenStopped` says that a server that has decided has `user_count` 0, the
  excused cases apart. `NobodyLeft`, from the tables, turns the count 0 into "no process".
* `Echo`: as long as the parent has moved no user, no user reads his own text. The invariant says that whatever a child or the
  parent has in its hands names the slot of the one who wrote it (`SendsOwnIndex`), that what is on the way to a child names
  somebody else's slot (`HearsOthers`), and that a child's index is the one the parent knows (`OwnSlot`).

**EventLoopProofs** (1225 obligations) is about the loops of one process over an array or an epoll descriptor. It assumes `PollAssumption`, at
least one user, for the poll server, and `LoopAssumption` for the epoll loops; the pools need no assumption.

* `Table`: `fds` and `users` of the poll server describe the same open descriptors, each once, at every point of a pass.
* `OthersText`: what it sends is another user's own text, unless the writer has left. The invariant `PInv` is the table with its
  equation of sets taken apart, and two facts about a pass: an entry that is still to be looked at and was reported writable is
  switched to writing (`ResultsFit`, which holds although entries are moved and switched meanwhile, because the last entry takes
  its results along), and a user who is switched to writing points to another user's buffer, with that user's text in it
  (`PointsToText`).
* `PoolEnds` (process pool) and `CgiEnds` (CGI server): for any children, the parent's loop ends only when no child runs. The
  invariant is the type of the children's states and `EndsAfterChildren` itself; `WaitpidStep` is the step that can disturb
  it, and `NobodyReaped` shows that no other does.
* `NothingWaits` (`NothingForgotten`): in the loops of EpollLoops no data or end of stream waits without an event, and no more connections do
  than came on another's edge. `LoopInv` adds the types of what is counted.

**WebServerProofs** (2676 obligations) assumes `ServerAssumption` and, for the queue, `QueueAssumption`. The invariant `IInv`
says who owns a descriptor, which `ExactlyOneOwner` only counts.

* Ownership, for a descriptor that was not reused: at most one kind of owner has it (`OneKind`) and at most
  one of that kind (`OneOfKind`); an open one has its initialised object and an owner, or was refused by the queue (`OpenOwned`), and then
  it stays open with no owner at all (`Stranded`); a closed one is at most
  with the worker that closed it (`ClosedLeft`), and `AtWorker` says how far that worker is with the steps of `close_conn`.
* For every descriptor: the object of an open or owned one has `m_sockfd` equal to its own index or -1 (`Known`). So
  a worker that is late with a descriptor that was given out again disturbs this one only, and the exception does not spread.
  A batch of `epoll_wait` has one event per connection, and a worker is idle exactly when it serves nothing (`Threads`).
* `TypeCorrect` and `OneOwner` follow. The step of `accept` needs that a lowest free descriptor exists (`LowestFree`), the
  count of owners that each of the five sets of `Owners` has at most one member (`OwnersCount`).
* `Counted` (`UserCountExact`): `m_user_count` is the number of open connections, except for those being opened or closed right now.
  `Balanced` is the equation with these written out: main between `accept` and `count++`, main in `close_conn`, each worker after its
  `close`. It is kept as long as no two updates have overlapped (`lost`) and no descriptor was given out before a worker
  had finished with it (`reused`). Each step of `close_conn` removes a descriptor from one side and puts a worker on the other, and that the
  worker was not there before is `AtWorker`.
* `MappingAccounted`: a mapping belongs to a response that waits to be sent on an open connection, or `close_conn` has left it behind. The
  strengthening `MappingInv` speaks of the time in which main initialises a connection: the object comes from whoever had it
  last, and is nobody else's (`Fresh`).

**IoProofs** (2680 obligations) is about what goes through the sockets. Of the parsers it assumes `ParserAssumption`: inputs are
sequences of tokens, a body and a buffer have a positive length.

* `ParserTypeOK` (`TypeOK` of HttpParser): the three indices of a parser stay in order, whatever is sent in whatever pieces.
* `ProgVerdict`, `ConnVerdict` (`Prog-` and `ConnIndependentOfPieces`) and `BodyWhole`: for every input of any length and every
  way to cut it, the verdict is that of the reference, which looks at all that was read at once, for `http_conn` as long as
  no read ended inside the body. Even then no request is handed on before its body is there (`BodyNeverShort`). The invariant
  `ParseInv` says of a parser in progress what the part it is past amounts to: everything up to `m_start_line` is
  lines that end in CRLF (`Lines`), there is no CR or LF between `m_start_line` and `m_checked_idx` except a CR at the very end (`Free`,
  `Scanned`), the first blank line is still ahead or was just found (`HeadAt`), and the flags hold what the headers up to here
  say (`Noted`). A parser that waits has nothing left to look at (`Waits`); a verdict is kept as the existence of a
  bad place (`Refused`) or of an end of the head (`Complete`) in what was read. None of the three properties is inductive alone,
  since they speak of the states between two calls only and the scan has its intermediate ones.
* `RioReads` and `TinyReads` (`ReadsStream`): what the callers of `rio_readnb`, `rio_readn` and `rio_readlineb` got, followed by the
  buffer, what waits in the kernel and what the client has not sent yet, is the stream (`Flows`); the call in progress holds the last
  part of it (`CallGoes`), and what a call returned is as long as promised, or ends in a newline, or the stream has ended (`Got`).
  `RioAssumption` asks for a buffer of at least one character, `TinyAssumption` for a line of at least two.
* `Framing` (`ResponseFramed`): an answer of which no `writev` was short arrives as the header it announces and its whole file or page. `AnswerInv`
  says that an answer that waits is as `process_write` left it (`FileReady`, `PageReady`), untouched unless one was short, and that
  `bytes_have_send` is 0 whenever `writev` starts on it. `WriteAssumption` says that the write buffer holds every answer,
  so that no `add_response` fails, as its size in the source does.

`HeapInv`, `Inv` of TimerServerProofs, `ParseInv`, `RioInv` and `AnswerInv` were checked by TLC on the instances of the runs before they were
proved.

Only model-checked:

* liveness under fairness (`QueuedIsProcessed`, the fair part of `ImplementsQueue`, `RequestAnswered`, `ResponseSent`,
  `IdleIsClosed`, `StopsAfterTerm`, `EveryoneServed`, `CgiOrphansEnd`, `ServesWhole`), which TLAPS does not treat;
* the three runs that end in a violation, which show a counterexample and need no proof.

## 5. Plan

Done: every module of section 2, with its runs, and a proof of every safety property that the passing runs check. What is
left, in order of importance:

1. The remaining hazards without a property (`PROJECT.json` names the reason for each): they concern code that is not modelled
   or behaviour that is undefined.
2. Refinement of a larger kind: the web server as a whole against "every request is answered once", whose safety part
   needs the identity of requests, which the model does not keep.

## 6. Not modelled, and assumed

* What the bytes say: formatting of responses, file names, `stat` and permissions, the inside of the request line. The choice
  of a response is nondeterministic.
* Failing system calls other than those named: `epoll_wait` errors, thread creation (the pool's constructor throws while
  the threads it has created run), memory exhaustion. `TimerServer` takes for granted that `accept` succeeds when a connection
  waits; the code does not look and would use `users[-1]`.
* The destructors of the containers, and `threadpool`'s beyond `m_stop`: its workers are detached and blocked in `wait`, so any
  use after it is undefined.
* Web server and timer server, too, accept once for an edge of the listening socket (`15/05_main.cpp:98`, `11/02_timer_server.c:124`): of two
  connections that complete together one waits for the next. Their models have the edge and the backlog, and no property that says otherwise.
* The wall clock moves forwards. If it is set back, the sorted list can lose its order.
* In `WebServer` a partial `writev` is a full socket; what is sent then, byte by byte, is `HttpWrite`.
* `add_headers` of the web server has no return statement (`15/04_http_conn.cpp:356`), which is undefined in C++; `HttpWrite` takes it
  to return, and no caller looks at the value.
* `writen` to a client that does not read blocks tiny for ever; `Tiny` lets the client read. The wrappers that fail for want of
  resources (`Accept`, `Fork`, `Open` without a free descriptor) end the program in the code and are left out. The inside of a URI, MIME types and
  the wrappers of csapp.c that only pass a call on are left out.
* **Unified signal source** (chapter 10): the same code as in the servers, where `TimerServer` and `SignalPipe` model it.
  **Thread examples** (chapter 14): a deadlock shown on purpose, a `fork` while a lock is held, a `sigwait` loop; there is no
  promise to check. **Semaphore and descriptor passing** (chapter 13): the operations are the kernel's. **Load generator** (chapter 16):
  a client; those of the models may do whatever it does. **select and connect with a timeout** (`09/01`, `09/04`, `11/01`), the poll
  client, the socket API examples (chapters 5 to 7): one call after the other, on one connection.
