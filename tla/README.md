# A verification project for frak

frak draws the Mandelbrot set in a browser. The page (`src/web`) asks one of
several backends to calculate the picture block by block: a dispatcher in a web
worker of the page itself, or a C++, Go or Java server behind a WebSocket. The
arithmetic is simple; what is hard is the protocol around it. Every zoom aborts
the calculation that runs and starts another, while blocks, completions and
aborted replies of the old one are still on their way, connections come and go,
and the user changes backends in between.

## Inventory

| Part | State it keeps | Operations | Talks to |
| --- | --- | --- | --- |
| Client controller: `web/backends.js`, `web/core.js`, `web/store.js`, `web/main.js` | calculation state, requested and current calculation, selected backend, state and worker count of each backend and their copies in the store, coordinates, screen | request (zoom, benchmark, max_n, back/forward), choice of backend, two timers, messages and close events of each backend | backends (messages), history and screen (calls), store (subscriptions) |
| Web worker dispatcher: `web/dispatcher.js`, `web/worker.js` | blocks not given out, workers, workingCount | START, ABORT, block completed | client, workers (FIFO ports, terminate) |
| History: `web/history.js` | entries by id, id pushed last, id popped last | push, update, popstate | client (callbacks), browser |
| C++ server: `cpp-server/src` | one session at a time, message queue, block queue, worker threads, abort flag, block count, last id | receive loop, dispatcher thread, workers, destructor | client over its own WebSocket implementation |
| Go server: `go-server` | connection, outgoing channel, wait group, aborting flag | reader, writer, workers, completion goroutine, Close | client over gorilla/websocket |
| Java server: `java-server` | current session, current executor (both static) | open, message, close, executor callbacks | client over javax.websocket |
| Screen and colors: `web/screen.hpp`, `web/color_mapper.hpp`, `web/colors.js` | pixels, gradients | clear, clear_in_progress, fill_rect, statistics, color mapping | client (calls through WebAssembly) |
| Settings: `web/store.js`, `web/inputs.js` | persistent properties in localStorage, which all tabs share; subscribers; what each input shows | get, put, wheel, click | every other part (subscriptions) |
| Benchmark list: `web/benchmark.js` | items, the list made of them | scan, save, calculateTopList | store, DynamoDB |
| GUI: `web/gui.js`, `web/util.js` | mouse state, animation, inputs | mouse and wheel events, drawing | client, store |
| Registry: `registry/registry.js` | registered backends and whether they are alive | register, list, check once a second | HTTP |
| C64 version: `c64/main.asm` | screen memory | plot, calculate | ROM routines |

What makes each part correct:

* Client: one calculation at a time on all backends together; every calculation
  reported as ended once before the next; the screen shows one place, and all of
  it when "completed"; a START asks for the workers its backend has; a lost
  connection is noticed and repaired; every abort ends.
* Dispatchers: each block is reported started and completed once, COMPLETED
  comes after all of them, nothing of an aborted calculation comes after
  ABORTED, a START finds no work of the calculation before; every START and
  every ABORT is answered; closing a session stops its workers.
* WebSocket session: a message is the concatenation of its frames, whatever the
  sizes in which the data arrive; the end of the stream ends the session.
* History: back and forward show the place that was on the screen, and the
  max_n that it was last calculated with.
* Settings: each tab uses what its inputs show, whatever other tabs store.
* Mouse: a rectangle is drawn only while a button is held.
* Top list: it shows what is known and passes the filters, each result once.
* Registry: a backend is marked offline for its own failures only, and a dead one
  does not stay alive.
* Blocks tile the screen; every depth that fits into 32 bits has one color; the
  statistics loop ends; plot writes to the address its comment states.

The hard behaviours are the interleavings of handlers in the client, of threads
in the servers, stale messages, lost connections, and calls that throw midway.
`PROJECT.json` lists them by line.

## Plan

1. `Backends`: the client controller over abstract backends (done).
2. `CalculationService`, the promise of a dispatcher, and `WebDispatcher`, which
   implements it (done).
3. `CppDispatcher`, `GoDispatcher`, `JavaDispatcher`: threads, queues, session
   start and end (done), and `WebSocketSession`, how the C++ server reads its
   connection (done).
4. The parts around the protocol, checked together in `MCParts`: `Settings`,
   `Mouse`, `Navigation` (history), `TopList`, `Registry`, `BlockGrid`, `Colors`,
   `Histogram`, `C64Plot` (done), and `Navigation` alone in `MCNavigation` (done).
5. Proofs of the client (`BackendsProofs`, `BackendsScreenProofs`), of the parts
   (`PartsProofs`), of the web dispatcher with its refinement
   (`WebDispatcherProofs`), of the C++ session (`WebSocketSessionProofs`) and of the
   three servers (`CppDispatcherProofs`, `GoDispatcherProofs`,
   `JavaDispatcherProofs`) (done).

The client and the dispatchers are composed by assumption and guarantee instead
of in one module: `Backends` shows that the client starts nothing while something
runs (`NothingRunsUnwatched`), which is the client that each dispatcher module
has, and the dispatchers show what the abstract `server` in `Backends` does.

## Modules

### `Backends`

The browser runs one handler at a time, so each handler is one action, with all
it calls: `OnAborted(b)` is `Backends.onAborted` with the `core.onAborted`
callback, `handleCalculationState` and, if a request waits, `start` down to
`connection.send`. `Handle(st, calc, req)` is `handleCalculationState` at the
end of another handler: `st` and `calc` are the state and calculation that
handler leaves, and the selected backend and the store are read primed, since
`onConfig` and `onBackendChange` write them before the subscriber in
`window.init` starts the first calculation.

| Variable | Code |
| --- | --- |
| `state`, `coordinates`, `storeBackendState`, `storeMaxWorkers` | the fields of `Store` |
| `requested`, `current` | `requestedCalculation`, `currenctCalculation`; the three times only as set or unset |
| `selected`, `backendState`, `maxWorkers` | `selectedBackend`, and `state` and `max_workers` of each backend |
| `startup` | whether `window.init` has run, and still has its subscription |
| `history` | the places pushed; empty is `currentHistoryId === null` |
| `screen` | one pixel per block: not calculated, calculating, or calculated by which calculation at which place |
| `conn`, `toServer`, `toClient` | `readyState` and the two directions of a WebSocket, or of the port of the web worker |
| `server` | what a backend does: nothing, calculate, or still send queued messages after ABORTED; how many messages it has received and left in its buffer (`kept`); whether it accepts nobody any more (`dead`) |
| `lastId`, `repeats` | what `createId` returned last, and how often that was the id before again |
| `completed`, `aborted` | history: the ids the two callbacks were called with |

A connection can be refused, or lost with any suffix of what the server sent and
all that it had not read; what is sent on a connection that is not open is lost
(`Send`). `Flushing` names the backends that may send queued messages after
ABORTED and before the next START (the C++ server), `OwnId` those that answer ABORT with the id they
started last (the C++ server) instead of the one they were sent. A throwing
`onBeforeStart` ends `start` before it sends: `BeforeStartThrows`.

Two more of the C++ server's ways matter to the client. A backend in `Buffering`
receives, with the message it returns, any part of what follows, and looks at
that only when more arrives (`LeftOver`, `ServerReads`): the module
`WebSocketSession` says why. A backend in `Hanging` may, when a connection is
lost, accept nobody any more (`dead`), because it loops in the end of the
stream or its process has ended.

`createId` is the time in milliseconds, so a new id is the next number or, up to
`MaxRepeats` times, the one before again (`Repeats`, `NewId`). Properties that tell
calculations apart by their ids are stated for `repeats = 0`, and say so.

The abort timeout is modelled with what it does (`GiveUpAbort`), under the
condition the code tests (`AbortTimedOut`).

### `CalculationService` and `WebDispatcher`

`CalculationService` says what a dispatcher promises by what it reports: sets of
blocks started and done and a status per calculation. `WebDispatcher` has the
dispatcher's fields, FIFO ports to each worker and back, `workers[i].mail` and
`workers[i].posted`, which `terminate()` empties, and the list of everything
posted to the client. Its client obeys the protocol that `Backends` is shown to
obey (`NothingRunsUnwatched`). `Service` maps the list of answers to the state
of `CalculationService`.

### The three servers

Each server module has its threads, the queues or channels between them, and a
client that obeys the protocol of `Backends`: it starts a calculation when the
one before has ended, aborts it at most once, and may leave at any time. It
handles only ends of calculations, since blocks do not change what it does next.
A step of a thread reads or writes shared state once, up to steps that commute.
Blocks are opaque; `NumBlocks` of them are cut from every calculation.

* `CppDispatcher`: `main` is the main thread (`receive`, then the parts of
  `close` and `~Dispatcher` in order), `thread` the dispatcher thread with the
  message it handles, `workers[i]` a worker thread. `queue`, `blocks`, `abort`,
  `destroy`, `blockCount` and `id` are the fields. The server serves one session
  after the other. Undefined behaviour has two outcomes: two threads that join
  the same workers both go on, or the process terminates (`DataRace`); a
  descriptor that was closed gives an error (`Send`). `crashed` says why the
  process ended. `kept` is how much of `toServer` `recv` has returned and
  `receive` has not: the rest is looked at only after more has come (`MayKeep`). A
  client leaves with a CLOSE, with an error, or with an end of the stream without
  a CLOSE, after which `receive` never returns and the main thread can do nothing
  else (`"vanished"`). A client that closes and gets no answer ends the stream at
  last (`ClientHangsUp`), which wakes the `recv` that a CLOSE left over needs:
  that browsers do is assumed.
* `GoDispatcher`: one connection. `pc` says where the reader, the writer and
  main are: each may be inside `Abort`, the last two only through `Close`. Each
  START makes a channel of blocks and workers of its own, `blocks[id]` and
  `workers[id]`, since workers of the calculation before keep the channel they were
  given. `completion[id]` is the goroutine that waits for the end of a calculation. A
  channel operation that would block is not enabled. A WaitGroup releases all
  that wait when its counter becomes zero, and a goroutine that wakes up to find
  it in use again panics.
* `JavaDispatcher`: any number of sessions with one handler each; the static
  fields `currentSession` and `currentSessionThreads` (as the calculation it was
  started for); `executors[id]` with its queue, its tasks, and the threads that
  have sent a block and not yet counted it. A handler is cut where it reads
  `currentSessionThreads` again outside of the lock.

### `WebSocketSession`

The constructor and `receive` of the C++ server's session. Bytes are counted,
not spelled out: a frame has an opcode, two flags and a payload of some size,
and `recv` returns any number of the bytes that are there. What was received and
not used is a number too, because the stream is the frames in the order they
were written; `ends`, a history variable, has the place in it where each frame ends
and `BytesOf(n)` that of the n-th. `LengthSize` stands for the three forms of the length; the runs
use a payload of 0 bytes, without an extended length, and one of 3 bytes, with
two bytes of extended length in place of more than 125 bytes.

### The proofs and the `MC` modules

`BackendsProofs` and `BackendsScreenProofs`, which extends it, hold the theorems about
`Backends`; `PartsProofs` those about the parts of `MCParts`; `WebDispatcherProofs`,
`WebSocketSessionProofs`, `CppDispatcherProofs`, `GoDispatcherProofs` and
`JavaDispatcherProofs` those about the modules they are named after. The `MC` modules are the instances
for TLC; `MCNavigation` has `Navigation` alone, for one run that follows max_n.

### `Settings`, `Mouse` and `Navigation`

What the user does before it becomes a request. `Settings` has localStorage and,
for each open tab, what its inputs show and which backend it uses; two settings
stand for all, one with each kind of input. Values count steps of the wheel, the
cube root of 2. Handlers of one tab are atomic, tabs interleave.

`Mouse` has `hover` and `down` of `MouseState` and, beside them, where the mouse
really is and which buttons are pressed: events are heard over the canvas only.

`Navigation` has the rectangles of `Mouse`, the wheel over max_n and the
benchmarks as requests, and history.js between them and the browser's session
history: `entries` and `position` are the browser's and survive a reload,
`historyData` and `currentHistoryId` are the page's. `Backends` is reduced to a
request that starts, waits or is refused. A place is a benchmark and the squares
zoomed into; that stands for indexes and deltas, whose rounding is left out.

### `TopList` and `Registry`

`TopList` is benchmark.js with its data base as a set that a scan returns a part
of. The list is a set of rows with sums and counts; averages, order and scaling
follow from them. `Registry` numbers the objects that registrations make, since
checks under way hold on to them. `ResCode` is `"undefined"`: responses have no
`code`.

### `BlockGrid`, `Colors`, `Histogram` and `C64Plot`

The arithmetic, as steps, because each depends on state left by steps before.
`BlockGrid` cuts a screen and puts it together from blocks in any order, and
each pixel carries the place it belongs to. `Colors` stretches and lays gradients
between turns of three wheels; a color is opaque. Starts, lengths and ends are
`uint32_t` in the code and numbers modulo `DepthModulus` here, 1000 in the run;
`total`, a history variable, is what the lengths add up to without it. `Histogram` is the loop of
`get_statistics`, with 4 buckets in place of 128 and 3/4 in place of 99.8 %.
`C64Plot` is the loop over the screen with 8-bit additions and their carries, at
its real size.

These share no state with each other. `MCParts` chooses one of them, or
`WebDispatcher`, in the initial state, and leaves the others alone: one run has
the states of all one after the other, not their product.

## Runs

| Run | Bounds | What it shows |
| --- | --- | --- |
| `client` | own backend and a remote one (with `OwnId` and `Flushing`), 2 symmetric blocks, 2 places, 2 inputs, 1 failure, 1 id given twice | the safety properties of the client below |
| `client_liveness` | own backend and a remote one like the C++ server (`OwnId`, `Flushing`, `Buffering`, `Hanging`), 1 block, 1 place, 2 inputs, 2 failures, 1 id given twice | calculations and aborts end, with the exceptions stated; the selected backend comes online again while it accepts |
| `abort_timeout` | 2 inputs, 1 failure | a violation, see Findings |
| `new_max_n` | 2 inputs | a violation, see Findings |
| `parts` | web dispatcher: 2 blocks, 1, 2 or 3 workers, 3 calculations; 2 tabs, 3 options, 4 values; 3 points and 2 buttons; 2 entries pushed, 1 zoom; 3 results; 2 backends, 3 registrations; 2 screens, 12 block sizes; the 3 lists of colors, 5 scales, depths modulo 1000; depths to 11 with 0 or 1 pixel; all pixels of the C64 | the web dispatcher's properties, its refinement of `CalculationService`, and that every calculation ends; the properties of the parts around it |
| `history_max_n` | 1 zoom, 2 entries pushed, 2 values of max_n | a violation, see Findings |
| `cpp_dispatcher` | a calculation of 2 blocks and one of 1, 2 workers, 2 sessions | answers in order, COMPLETED last, the count of blocks; sessions and calculations end, with the exceptions stated |
| `web_socket_session` | 3 frames of 2 lengths, any cuts | messages are whole, no byte is lost |
| `web_socket_end` | 1 frame | a violation, see Findings |
| `go_dispatcher` | a calculation of 2 blocks and one of 1, 2 workers, a channel for 1 message | order of what is posted, no workers left at START, every calculation ends or a goroutine panics |
| `go_close_hangs` | 1 calculation of 2 blocks, 1 or 2 workers, a channel for 1 message | a violation, see Findings |
| `java_dispatcher` | 2 calculations of 2 blocks, 2 workers, 2 sessions | the types; and until a second session opens: COMPLETED after all blocks, nothing after ABORTED, no tasks left at START, every calculation ends |

Two inputs are enough, with the calculation that `window.init` starts by itself,
for a request that aborts it and one that overwrites the request, or for a change
of backend in between; and for an ABORT that crosses COMPLETED with the next
START behind it, which is what the buffer leaves over. One id given twice is a
calculation taken for the one before. One remote backend and the page's own one
are enough to leave one that calculates for one that is offline, and back. All
properties of `client` but `EndsOnce` are proved too, for any bounds. Three
calculations of the web dispatcher let the worker count shrink and grow again.
Two blocks let one be done while another is calculated or not given out.
Two workers, two calculations and two sessions are enough for any pair of them
to meet: a worker of one calculation and the START of the next, a thread of one
session and the next session. The first calculation has more blocks than the
second, so that what is left of it could be taken for all of the second. The
capacity of the Go server's channel is 256 in the code; 1 shows what happens
when it is full. `CountWidth` is 8 bits in place of 32: no run has 256 blocks,
and a count below zero would still be far from one.

The bounds of the parts: two tabs are enough for one to store what the other
has shown; three options are a first, a middle and a last one; an entry to go back
to and another pushed last need two; three registrations are one that is replaced
twice, or two under one key and one under another. One of the results is of
another machine, one of other workers. The block sizes include some that do not
divide the screens, which the client must refuse. The scales go from the
smallest the wheel allows to two where the gradients together are just below
1000 and at or beyond it, where sums wrap; offsets include none,
a part and the least depth, depths the last before 2^32 (1000 here) so that the
subtraction wraps. All subsets of 12 depths include the empty screen and a
few very deep pixels, where buckets shrink in several rounds.

The properties of the client:

* `PendingIffAborting`, `RunningIsUnfinished`: what `state`, `requested`,
  `current` and the callbacks made say about each other after every handler. The
  200 ms timer has nothing to do.
* `NothingRunsUnwatched`: whatever calculates, or has a START under way, on any
  backend, is the current calculation of a client that shows calculating or
  aborting. This is the property that makes the protocol work: servers rely on
  it, since none of them expects a START while it calculates.
* `EveryCalculationEnds`, `EndsOnce`: each id is reported ended before the next
  starts, and a second time only in the case below.
* `ScreenIsTrue`: stale blocks never reach the screen (`ScreenShowsCoordinates`),
  and "completed" means all of it is there (`CompletedScreenIsFull`).
* `WorkersFitBackend`: the count in START is neither the 1 of a backend without
  CONFIG nor the count of the backend selected before.
* `StartupIsFirst`: the first calculation of `window.init` never interrupts the user.
* `CalculationEnds`: once START or ABORT is under way on an open connection, the
  calculation or the abort ends, whatever failed before. It names three
  exceptions, since the code has them: the connection is lost (`AbortGivesUp` says
  what should happen then); the message is left over in the C++ server's buffer
  (`Kept`); and a session that never heard of the calculation answers ABORT with
  another id (`AnswersAnotherId`). `SelectedRecovers`: the selected backend comes
  online again and again, while its server accepts at all.

`NothingRunsUnwatched`, `EveryCalculationEnds`, `EndsOnce`, `ScreenIsTrue` and a
part of `RunningIsUnfinished` are stated for `repeats = 0`. With an id given twice
they are not true of the code: COMPLETED crosses ABORT, the next calculation has
the same id, and the late ABORTED is taken for its end while the server runs it.

`EndsOnce` allows both callbacks to be called for one id in one state, and the
code does call both: a request that is dropped because the chosen backend is
offline leaves a completed calculation current, and its late ABORTED is accepted.

The properties of the dispatchers. In each, `AnswersAreSound` is the conjunction of
the named parts below:

* `StartFindsWorkersIdle`, `WorkingCountIsBusy` (web): a START finds no worker of the
  calculation before at work, whatever an abort crossed, and the count that decides
  when to post COMPLETED is the number of busy workers. `ImplementsService` says
  that nothing of an aborted calculation comes after its ABORTED.
* `CompletedIsComplete`: COMPLETED is never sent before every block was, although
  in C++ the count is used on after an abort, in Go the goroutine that
  sends it may wake up late, and in Java any thread may be the last. The Java
  server keeps this, `StartFindsNoTasks`, `NothingAfterAborted` and `CalculationsEnd`
  only while it has had one session (`OneSession`), see below.
* `AnswersInOrder` (C++), `PostedInOrder` (Go), `NothingAfterAborted` (Java): what
  may follow ABORTED. The three differ. The C++ server still sends blocks that
  were queued, the Go server may still send COMPLETED, the Java server nothing.
* `CountIsOutstanding` (C++): the count is the number of blocks not yet sent,
  wherever they are.
* `StartFindsNoWorkers` (Go), `StartFindsNoTasks` (Java): these two servers do not
  abort before they start; they rely on the client.
* `SessionsEndOrCrash` (C++): the session that the client closes or loses makes room
  for the next, or the process ends. Of a client that vanishes nothing is said
  here, see `EndIsNoticed`. `CalculationsEnd`
  (all): in C++ unless the START is left over in the buffer, in Go unless a
  goroutine panics, which ends the process.
* `CloseReturns` (Go), `EndIsNoticed` (C++ session): what comments say and the code
  does not do, see Findings.
* `MessagesAreWhole`: however the stream is cut, `receive` returns the messages that
  were written: every byte is used, kept or still on the connection
  (`BytesAreKept`), messages are made of the frames in order, each once
  (`FramesInOrder`), and end where the client ended them (`EndsInPlace`).

The properties of the parts:

* `TabsAgree`: the backend a tab uses is the one its input shows, and the tab that
  changed a setting last shows what is stored. Others show what they last knew.
* `DownIsHeld`: while a rectangle is drawn some button is held, although presses and
  releases outside the canvas go unheard. It cannot say the same button: any
  button ends a rectangle, and one that is pressed outside goes unnoticed.
* `BackShowsWhatWasPushed`: back and forward never show another place than the
  entry was made for, after a reload either. `MaxNUpdatesTheCurrent`: a change of
  max_n is recorded in the entry shown; the code does not do this, see Findings.
* `TopListIsCurrent`: the table has each result that passes the filters once, in the
  right group, whether the scan answers before or after results are saved.
* `LateAnswersAreIgnored`, `OfflineIsNoticed`: a check that was under way when a
  backend registered again does not mark the new registration offline; a backend
  that refuses connections does not stay alive.
* `BlocksTile`: the blocks the client accepts cover the screen without overlap, each
  pixel ends where it belongs, and the counts Go and Java make in advance are right.
* `EveryColorShows`: each depth finds exactly one gradient, and none is empty, as
  long as the gradients together are shorter than 2^32. Beyond, which the wheel
  reaches (gui.js:212 has no upper bound), the sums of color_mapper.hpp wrap.
* `HistogramEnds`: the loop of `get_statistics` ends for every screen.
* `PlotAddress`: the carries give the address in the comment at main.asm:368.

### Fairness

The browser delivers every message and runs its timers; servers accept
connections, unless they are in `Hanging` and have died, and go on calculating;
they read what arrives, in `Buffering` as far as `recv` lets them; workers run. Nothing is assumed about the
user or about failures, which are bounded and need not happen. Connections are
attempted again once a second (`ReviveBackend`), so with finitely many failures
one attempt succeeds if the server accepts. In the servers every thread, goroutine or executor that can
run does so, which operating system, Go scheduler and executor give. The
registry's interval goes on, and the answers of one host come when it answers,
whatever others do; nothing is assumed of a host that hangs. In `CppDispatcher`
what was sent to the client is delivered, and one that has closed ends the stream. The histogram loop
is one call that nothing interrupts.

### Findings

* `abort_timeout`: `ABORT_TIMEOUT` (backends.js:167) never fires. The time it is
  compared with is set only in `onAborted`. After a lost connection the ABORT
  that the next request sends is lost too, and the client stays in aborting for
  ever, although the connection is back. `TimesUnset`, which is part of the
  invariant proved for every instance, is the reason.
* `new_max_n`: "Setting max n will cause immediate recalculation" (core.js:22)
  fails when nothing was pushed on the history: `History.update` throws inside
  `start`, after the state was set to calculating and before START is sent.
* `web_socket_end`: `recv` returning 0 is not noticed, and the server is busy with
  a session that has ended.
* `history_max_n`: `update` should update "the current" (history.js:27). It writes
  into the entry pushed last; `onpopstate` remembers the entry gone back to in
  `historyId`, which nobody reads.
* `go_close_hangs`: when the writer stops with the channel full, `Abort` waits for
  workers that wait for the writer, and main never serves another client.

The properties of the servers are stated around some more behaviours that the
models have, because the code has them:

* C++, `crashed`: `send` "returns false if connection was closed"
  (web_socket_session.hpp:14), and it and `close` "can be called from any thread"
  (line 12), although line 15 adds that `send` is not thread safe. `close` closes
  the descriptor before it sets `_socket` to -1: a send of the dispatcher thread
  between the two throws where nobody catches. So does one on a connection that was
  lost, which its comment allows for. A START that is handled between the
  destructor's abort and the end of the dispatcher thread leaves threads that
  are not joined; both threads may join the same workers.
* C++, `kept`: a message that was received behind another is not returned before more
  data arrives, although `receive` should "block until one message is received"
  (web_socket_session.hpp:11). The client can cause it: ABORT crosses COMPLETED,
  START follows at once, and both arrive together. Then the calculation does not
  start. If it is a CLOSE, the session goes on until the client ends the stream.
* Go: a goroutine that is released from `Wait` when the next START has already
  begun panics. `Close` should see to it that "all workers" are "aborted"
  (dispatcher.go:70), but the reader goes on between its `Abort` and the closing of
  the connection, and a START it reads then starts workers that nobody aborts.
* Java: "in case a second connects, abort all calculations and close existing
  sessions" (Dispatcher.java:31). The handler of the replaced session gives its
  remaining blocks to the new session's executor, where they are sent to the new
  client and counted: COMPLETED comes before all of the new calculation's own blocks
  were sent, and the START after it finds some of them left. And the executor of the
  replaced session is never shut down, since `onClose` tests for the opposite of
  what it needs.

Other disagreements met while modelling:

* Registry: `res.code` (registry.js:45, 49) does not exist, so each check that is
  answered marks its backend offline and none ever back online: a backend is alive
  from its registration to the first answer. The timeout of `http.get` only emits an
  event that nobody listens to, so a host that hangs stays alive for ever. A body
  that is not JSON, or `/backends` without a user-agent, ends the process.
* History: the comment at core.js:59 says that going back keeps max_n and updates
  the record; the code takes max_n from the record and updates nothing.
* Zoom: `startFromZoom` sends max_n with its fraction (core.js:51), where
  `startFromNewMaxN` rounds; the Go server decodes into a uint32 (dispatcher.go:37)
  and ends the session. A click is a rectangle of no size (gui.js:78): the deltas
  are 0 and the indexes are not numbers.
* Mouse: when dx and dy have opposite signs, `asRectWithAspectRatio` gives the
  smaller the sign of the larger, so the square is not where the second point is.
* C64: `cmp #200` (main.asm:288) compares the accumulator that the ROM routine
  left, not y, so the loop over lines does not end: y goes on to 255, to addresses
  beyond the bitmap, and around.
* Colors: at a scale of about 2^32, which is 36 turns of the wheel after some
  benchmarks, the end of the last gradient is 0 and the depth is taken modulo it
  (color_mapper.hpp:145). A depth below the offset wraps around at 2^32, to a color
  that depends on the length of the scale.

## Proofs

Every theorem holds for all values of the constants that the assumptions named in
each module allow: any backends, places, blocks, workers, keys, tabs and bounds.
The assumptions are types, that a worker count is not 0, and that the model values
which stand for null, unknown or outside are none of the values they stand beside
(`NoCalcAssumption`, `Unset \notin Tabs` in `Settings`, `Null \notin Points` in
`Mouse`, `NoData` in `Navigation`). Each section below names the inductive invariant
and why the property alone is not inductive.

### The client

`ControlInv` (`BackendsProofs`) gives `[]TypeOK` and `[]PendingIffAborting`, and with
`UniqueInv` below `[]RunningIsUnfinished`. None of the three is inductive alone: the types of ABORT
messages need a current calculation whenever one runs, that the timeout branch is
dead needs `TimesUnset`, and the types of the blocks a server reports need
that a server which is not idle has a calculation (`SessionOK`). `HandleType` is the
central lemma: whatever consistent state a handler hands to
`handleCalculationState` (`Handed`), the result is consistent.

`WatchInv` (`BackendsProofs`) gives `NothingRunsUnwatched`, that no backend
calculates what the client does not wait for. The property speaks of what is
running; what makes it hold is on the wire. The invariant says that at most one
START is under way to a backend, for the watched calculation, never for an id the
backend had before, with its ABORT behind it (`StartsOK`); that an answer which
reports an end is sent by a backend that neither runs the calculation nor has its
START still to read (`EndsOK`), which is why the client may stop watching when it
reads one; and that the client gave every id mentioned anywhere, the last one to
one backend (`IdsKnown`). Handlers change `state` and `current` before they call
`handleCalculationState`, so the invariant is a formula `Watch(st, calc)` of both and
the lemmas speak of the state handed over. `EndsInv` adds what was reported:
`EveryCalculationEnds` follows. All of this is about ids that differ, so what is
inductive is `UniqueInv`: `WatchInv` and `EndsInv` if `repeats = 0`. That `repeats`
never comes down again (`RepeatsGrow`) makes it so. `kept` and `dead` do not matter:
the invariants speak of `toServer`, read and unread alike.

`OnlineInv` (`BackendsScreenProofs`) gives `WorkersFitBackend` and `StartupIsFirst`:
the fields of the store are those of the selected backend (`MirrorOK`), an online
backend announced its workers and a CONFIG under way says the same
(`AnnouncedOK`), and until `window.init` starts a calculation there was none
(`FirstOK`).

`ScreenInv` (`BackendsScreenProofs`) gives `ScreenIsTrue`. A picture is completed
when COMPLETED is read, so the invariant has to say of every prefix of the messages
under way what the screen will be after it: `Settled` says that by then the block is
painted, `ProgressOK` that what a backend reported of a block fits where the block
is, `CompletionOK` that COMPLETED comes after all of it, `OrdersOK` that nothing is
said of a calculation before its START is read, `RequestOK` that "max_n", which keeps
the pixels, is asked for only where they belong.

### The parts

`PartsProofs`, one section each:

* `SettingsInv`: `TabsAgree` needs that what a tab stored is something an input can
  show, or a page opened again would show something else.
* `MouseInv`: `DownIsHeld` needs that the page knows of no place while the mouse is
  outside.
* `RegistryInv`: `LateAnswersAreIgnored`, an action property, needs that objects are
  numbered by registration, and that a check names an object registered before it
  was sent.
* `PlotInv`: `PlotAddress` follows from arithmetic on the bytes; the lemmas say where
  a carry can arise (`NoCarry`, `HighByte`, `LowSum`).
* `NavigationInv`: `BackShowsWhatWasPushed` needs that the browser's entries and the
  page's own data of them agree on the place (`EntriesAgree`), that no entry has an
  id still to be given, and that the data a waiting request was made of do not
  change until it starts (`Fits`).
* `TopListInv`: the table is the list made of the items and filters in use
  (`ListIsCurrent`). The rest of `TopListIsCurrent`, what the fold over the results
  sums up to, stays with TLC.
* `GridInv`: `BlocksTile` needs that the blocks are those of the sizes chosen, and
  for each block completed that its pixels are right. A place of the screen is in
  the block whose number is `BlockAt` and in no other (`FilledOnce`,
  `FilledSomewhere`), so painting a block leaves the others alone; and what a worker
  calculates for a pixel is the place where the client puts it (`WrittenIsOwn`). The
  lemmas on quotients say why the truncating divisions of the Go and the Java server
  lose nothing once the client has accepted the sizes.

### The web dispatcher

`WebInv` gives `TypeOK`, `AnswersAreSound` and the refinement of
`CalculationService`. `Cur` is the calculation of the last START handled. The inbox
holds what is left of one calculation after an ABORT that crossed the COMPLETED of
the one before (`InboxOK`); the client goes on only after an end (`ClientOK`);
`Sound` says of the list of answers that nothing is in it twice and what may come
after what; and `WorkOK` that a calculation that has ended left nothing behind
(`Resting`), and one that has not (`Running`) has each block either still in
`blocks`, with exactly one worker, or reported, that `workingCount` is the number of
workers that hold one, and that this is never 0. `AnswersAreSound` is not inductive
without that: that COMPLETED comes after every block follows from the count only
because a block is with one worker and a worker has one block.

`ServiceImplemented` is the refinement, step by step: `OnStart` begins, a block
reported progresses, an `OnAbort` of what runs aborts, one that crossed COMPLETED
changes nothing there, and so does every other action. What the service sees is a
function of the list of answers, so the lemmas (`SeenChanges`) say what one answer
more changes in it. The attempt showed the mapping to be ambiguous where it was a
`CASE` whose arms overlap, as was one in `ServerAbort` of `Backends`: TLC takes the
first arm, the language any. Both are now `IF`.

### The C++ session

`SessionInv` gives `TypeOK` and `MessagesAreWhole`, for frames of all sizes, buffers
of any size and however many bytes each `recv` returns. `BytesAreKept` is where
`data`, `wire` and the frames meet: that the frame whose length the code compares
with what it holds is the next one follows from it, and so does that there is a next
one once two bytes are there (`FrameIsWritten`). `EndsInPlace` speaks of finished messages;
`FragmentsOK` says the same of the one under way, and that `opcode` is
"continuation" exactly while it has no frames, which is what `Unexpected` compares.

### The C++ server

`CppInv` gives `TypeOK` and `AnswersAreSound`, for any number of sessions. That
`_block_count`, a `uint32_t` that is decremented after aborts too, never wraps is a
matter of type here, and needs most of the invariant:

* `StartsOK`, `RequestsOK`: at most one START is anywhere between the client and the
  end of its handling, and while it is, nothing is left of the calculation before but
  messages (`Idle`): the client has read its end, and COMPLETED and ABORTED are both
  sent only when no block waits and no worker calculates.
* `QueueOK`, `IdsOK`: those messages are ahead of the START on the queue. So what is
  on the queue is always of `_id`, although no message is compared with it, and
  `AnswersInOrder` follows.
* `CountOK`: what is outstanding, in `_block_queue`, with a worker or on
  the queue as completed, is never more than the count, in a session that ends and
  after an abort too; it is equal to it while neither is the case. The inequality is
  what keeps the count from wrapping, and what makes `_block_count-- == 1` mean that
  nothing else is outstanding.
* `ReportsOK`: while what is sent reaches the client (`Live`) a block is reported, that
  is sent or on the queue, first as started and then as completed, each once, and
  as many were sent as completed as the count has come down. So COMPLETED comes
  after every block. It fails once an answer is lost, with the connection or with the
  session; then nothing more is sent, and what was sent keeps being `Sound`.

Nothing of it depends on which of the two threads that may join the workers at the
same time is first (`DataRace`). Nor on how long messages are left over in the
buffer: `kept` is at most the length of `toServer`, and no more of it is needed.

### The Go server

`GoInv` gives `TypeOK`, `AnswersAreSound` and the action property `PostedInOrder`. No
goroutine looks at the id of a calculation, so none of this is inductive by itself:

* `RequestsOK`, `AbortsOK`: at most one START is under way, that of the last
  calculation; an ABORT comes behind its START and only once. So ABORTED cannot be
  posted twice.
* `EndsOK`: an end is posted only when the workers of that calculation have returned,
  and the client asks for the next only after an end. This is why `START` finds no
  workers, and why nothing but COMPLETED comes after ABORTED.
* `BlocksOK`: each block of a calculation is still in its channel, or with exactly
  one worker, or reported, and reported as started before it is reported as
  completed. So nothing is posted twice.
* `CountOK`: the counter of a calculation is the number of its blocks that were
  reported as completed. This, and not that all workers have returned, is why
  COMPLETED comes after every block: `Wait` may release the goroutine when the
  workers were aborted, or late, when others run.

The attempt corrected the model: it had one channel of blocks for all calculations,
and a START behind which aborted workers would have gone on with the new blocks; in
the code they keep the channel they were started with. It also showed that
`StartFindsNoWorkers` does not depend on the connection being open.

### The Java server

`BaseInv` gives `TypeOK` for any number of sessions: a handler uses only executors
that were started, and nothing belongs to a session that was never opened (`NewOK`).
That an executor has no more threads than the client asked for speaks of the
threads that calculate and those that have still to count.

`JavaInv` adds `OneInv`, which gives `AnswersAreSound` and `NothingAfterAborted` while
there has been one session. Executors are never compared with the calculation a
handler works for, so it says first that they belong together:

* `RequestsOK`, `HandlerOK`: at most one START is under way; every message is for the
  calculation that is the last when it is read (`LastStarted`), which is the one of
  `currentSessionThreads` until the session is closed and the one the handler works for.
* `EndsOK`: an end is sent when the executor has nothing in its queue, no thread that
  calculates and none that has still to count (`Quiet`), and the client asks for the
  next calculation only after an end. Hence nothing follows ABORTED, and a START
  replaces an executor that is done.
* `BlocksOK`: blocks are added and taken in order, so that what was sent as started,
  what waits and what the handler has still to add follow each other; and the blocks
  sent as completed are as many as were counted and are about to be. When the last is
  counted, all blocks were sent, so nothing waits and the handler has ended. This is
  what makes COMPLETED an end, and it is why `afterExecute` may compare with zero
  although several threads count at the same time.

The attempt corrected a property: `StartFindsNoTasks` was stated for any number of
sessions. With two sessions and three calculations, one more than the run has, TLC
finds the START that comes upon a task: see Findings.

### Only model-checked

* Liveness and what depends on fairness: `CalculationEnds` and the other properties
  under fairness, in all modules.
* What folds compute: the sums of `TopListIsCurrent`, the loop of `Histogram`,
  `EveryColorShows`.
* `PartsTypeOK`, the conjunction of the parts' types in `MCParts`. `PartsProofs` proves
  those of `Settings`, `BlockGrid` and other parts each under its own specification.

## Not modelled

Of the
C++ session, `send` is modelled as the dispatcher thread sees it, not frame by
frame: only one thread sends while the socket is open, and each message is
written whole. Of the handshake only what decides whether the request is
complete. Of the Go server, that the writer waits for ever on the channel after
`Close` (nobody closes it), which holds nothing but itself. Of the Java server,
the two minutes after which `awaitTermination` gives up.

Of the client, the worker count the user chooses and the guesses about hardware.
Of the GUI, painting, its pause 30 seconds after the last event, and formatting. Of
the screen, mixing two colors, the pulse of unfinished pixels and float rounding.
Of the C64, the colors of pixels, which ROM routines calculate.

Left out for good: drawing and layout, the
storage of benchmarks (an external service), the experiments, and the floating
point arithmetic of the pixels, which every dispatcher leaves to its workers.
In the model `createId` repeats only the id it gave last, and at most `MaxRepeats`
times. In `CppDispatcher` the receive timeout of two hours is left out
(`WebSocketSession` has it). The user's worker count is a constant of the model.
