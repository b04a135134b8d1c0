# A verification of grabzbar

grabzbar reads barcodes from a live line camera. One process runs three
threads (camera, barcode, streamer), a small HTTP server with a pool of three
threads that shows the live image as an MJPEG stream, and optionally a stress
test that replays images from disk. This directory holds TLA+ models of its
parts, the TLC configurations that check them on small instances, and proofs
that TLAPS checks for every instance.

Run a check with `tlc -config X.cfg M` and a proof with `tlapm M.tla`;
`PROJECT.json` lists the runs, the mutants each property is tested with, the
lines of code each definition models, the findings, the hazards and the
theorems.

## Inventory

`src/` below is the repository; the program is `src/grabzbar.cpp` and the
server `mjpeg/`.

| component | code | state | operations | what makes it correct |
|---|---|---|---|---|
| live image | `src/grabzbar.cpp:228-463` | `currentImage`, the global `mutex`, the camera's pixel format | allocate, scroll by one block (two `memcpy`), clone (two readers) | the image is the last rows the camera delivered, in order; a clone shows nothing older than its beginning; nothing is copied into a missing image |
| streamer | `mjpeg/mjpeg_server.cpp:24-121` | `jpg_buffer_`, `watchers_`, `mtx_`, `cond_`, one `connection` per page | `post_image`, `handle_stream`, `handle_initial_header_write` | an indivisible broadcast; the count is exact; a post reaches the pages counted before it; no page and no request starves; no page holds up the poster |
| HTTP server | `mjpeg/server.cpp` | acceptor, `new_connection_`, `io_service_`, pool of threads | constructor, `run`, `start`, `handle_accept` (`stop` is never called) | a socket is accepted into once and started once; the server goes on listening |
| connection | `mjpeg/connection.{cpp,hpp}` | socket, buffer, request, parser, reply, references to the object | `start`, `handle_read`, `handle_write`, `async_write` | one activity at a time; the reply is not touched while it is written; the object is destroyed when its peer is gone |
| request parser | `mjpeg/request_parser.{cpp,hpp}` | parser state, request | `consume`, `parse` (`reset` is never called) | accepts the requests of the grammar, however they are cut into reads, and loses no byte of them |
| request handler | `mjpeg/request_handler.cpp` | table of handlers, document root | `handle_request`, `url_decode`, `register_request_handler`, `get_request_handlers` | a request reaches the handler it names; files lie below the root |
| stream registration | `mjpeg/mjpeg_server.cpp:123-186` | the table of handlers | `register_streamer`, `handle_redirect`, `list_all_streams` | a registered stream is listed and is reached through its redirect |
| reply | `mjpeg/reply.{cpp,hpp}`, `header.hpp`, `mime_types.cpp` | status, headers, content | `stock_reply`, `to_buffers`, `headers_to_buffers`, `content_to_buffers`, `extension_to_type` | what is sent is a response, and the parts of a stream, with exactly the announced content |
| barcode scan | `src/grabzbar.cpp:115-223`, `399-410` | the thread's clone, the threshold | `run_barcode`, one pass of `barcode()` per threshold | every threshold of the range is tried, what is readable is printed, the scan ends |
| stress test | `src/grabzbar.cpp:465-535` | `stressTestList`, `it`, `stressTestImage` | `run_stresstest`, `run_stresstest_image` | no thread works on an image older than its own; two reports are not mixed; the iterator points at an element |
| start-up | `src/grabzbar.cpp:538-712` | options, globals | parse, list, create threads, debug window, join | what threads read is set before they run; one thread that ends stops no other |

How they interact. `main` sets the globals and starts the threads. The camera
thread writes `currentImage` without a lock; the barcode and streamer threads
clone it under `mutex`, which the stress test also takes to print. The
streamer thread owns the server: it registers one stream, starts the pool and
then posts a clone every 60 ms (or a coloured image every second while there
is none). The pool's threads run the completion handlers of the acceptor and
of all connections; `handle_read` feeds the parser, hands a parsed request to
the table of handlers, and the one registered for the stream goes on as
`handle_initial_header_write`, which blocks its thread until the next post.

What is hard in this code: the unlocked scroll beside the clones (and a
`memcpy` whose arguments overlap); a condition variable used without a
predicate; a pool of three threads of which every viewer blocks one; handlers
of one connection that only the order of their steps keeps apart; buffers that
point into a reply; the order of decoding, splitting and checking a URL; a byte
machine that is fed in arbitrary pieces.  The list with lines and properties is
"hazards" in `PROJECT.json`.

## Modules

| module | models | state and actions |
|---|---|---|
| `LineWindow` | what the live image promises (abstract) | one indivisible `Scroll` |
| `Capture` | live image, camera thread, the two readers | `AllocateImage`, `StartGrabbing`, `GrabSucceeded`/`GrabFailed`, the two copies row by row (`ShiftRow`, `AppendRow`), `CaptureThrows`; `Lock`, `BeginClone`, `CloneRow`, `Unlock` and `Scan` or `Post` of a reader |
| `Broadcast` | what a stream promises (abstract) | `Publish`, `Show`, `Reload` |
| `Streamer` | `post_image` and the handlers of the pages | one action per step between two accesses to shared state; taking `mtx_` to be counted and entering the wait, which releases it, are two; `conn[p]` is where page p's handler is, `ready` the queue of the `io_service`, `due` (history) the pages counted when a post took `mtx_` |
| `HttpServer` | acceptor, connections, pool | `pending` asynchronous operations, `ready` handlers, `thread` the step each thread is at; `Complete` and `PeerCloses` are the operating system, all others are lines of the handlers |
| `RequestParser` | `consume`/`parse` | one action, `Consume(c)` |
| `RequestGrammar` | the text of a request as its grammar writes it: the reference the parser is compared with | no state of its own; `RequestText`, `Unfold` |
| `RequestClient`, `MCRequestParser` | a client that writes one request by the grammar, folding header values as it likes, or anything at all | `request`; `WriteByte` gives the parser the next byte, `WriteAnyByte` any; the MC module gives the requests |
| `RequestHandler` | the table of handlers, `url_decode`, streams | `RegisterStreamer`, `HandleRequest`; `AnswerTo` is `handle_request` |
| `Reply` | replies, their buffers, MIME types | no state: one operator per function of `reply.cpp`, one per reply a handler fills in; what is sent is a sequence of lines and contents |
| `Response`, `MCRequestHandler` | the answer of `RequestHandler` made into a `Reply` and sent; the parts of a stream | `rep` is `reply_`, `wire` what was sent; `Respond`, `SendBoundary`, `SendPart`; the MC module gives paths, URIs and files |
| `Globals` | options, `mutex`, `currentImage` as the scan sees it | `Defaults`, `Given`, `Acquire`, `Release` |
| `BarcodeScan` | the barcode thread | `BarcodeLock`, `BarcodeClone`, one `ScanThreshold` per pass of the loop, `ScanEnds`; `thres` wraps around like an int |
| `StressTest` | the stress test thread and the threads it starts | the assignment of an image as three steps (`BeginAssign` releases the old one, `AssignSize`, `AssignPixels`), the clone as two (`ReadSize`, `ReadPixels`), the report as two |
| `Program`, `MCProgram` | `main`, and the threads beside each other | `ParseOptions`, `StartStressTest`, `StartStreamer`, ... each a line of `main`; camera and streamer as far as they share the mutex and the image |
| `CaptureProofs`, `StreamerProofs`, `RequestParserProofs`, `HttpServerProofs`, `ProgramProofs`, `RequestHandlerProofs`, `ResponseProofs` | proofs | |
| `SequenceLemmas` | lemmas about sequences that the last three share | |

Each definition with a comment that begins "Mutant:" is a plausible
bug; it is used by no specification and exists to show that a property notices
it.

How they fit together. `Capture` and `Streamer` meet in `run_streamer`:
`Post` of the first is `CallPost` of the second, and neither waits for the
other (`PostReturns`).  `Streamer` and `HttpServer` describe the same handler
from two sides: the first with the lock, the count and the wait, the second
with the connection, its reply and its strand.  `HttpServer` chooses freely
what the parser returns and what the table answers; `RequestParser` and
`RequestHandler` say what they are, and `Response` what is then sent.
`Program` extends `BarcodeScan` and `StressTest`, which share `Globals`; its
readers take the mutex like those of `Capture`, which looks at the rows of the
image instead of the bar codes on it.

## Checks

| run | instance | what it shows |
|---|---|---|
| `capture_up` | image of 3 rows, blocks of 1, 4 rows | the image is the window of the last rows between scrolls, clones are regular and never go back, no wild copy, and the row-by-row copies refine `LineWindow` |
| `capture_empty_post` | | finding: an empty clone can be posted |
| `capture_format` | a camera that offers Mono8 and starts in YUV422 | finding: it is switched to Mono8, but has no image |
| `streamer_safety` | 3 pages, one of which stalls, 2 threads, timeouts and spurious wakeups | exact count, one handler per connection, refinement of `Broadcast` |
| `streamer_live` | 3 pages, one stalls, 2 threads, spurious wakeups, no timeouts | a post reaches the pages counted when it took `mtx_`, waiting pages and requests are served, and every `post_image` returns |
| `streamer_lost_post` | 2 pages, 1 thread, timeouts | finding: a page whose wait times out during a post misses it |
| `server_safety` | 3 connection objects, 2 threads | one activity per connection, sockets accepted into once, replies stable while written, one answer per connection |
| `server_live` | 3 connection objects, 2 threads, one of which a viewer may block for ever | connections of gone peers are destroyed; the server accepts again and again |
| `request` | all inputs of up to 25 bytes in ten classes; 1884 requests of up to 2 headers, values of up to 3 lines | what is accepted is parsed as written and well formed; every written request is accepted with its last byte, and read into what was written |
| `handler` | 3 stream paths, 3 registrations, about 3000 URIs, 2 parts of a stream | redirect, list, file names, unambiguous patterns; responses and parts are framed as announced |
| `program` | 5 command lines, ints up to 200, 4 bar codes, lists of up to 2 images, 2 workers | the scan prints what is readable, clones of the stress test are not older than their thread, no two reports mix, options do not change under a thread, both readers go on for ever |
| `stress_end` | as `program` | finding: `end()` is dereferenced in every round of the stress test |

Bounds.  Four rows scroll every row of a three-row image out once, so a stale
row would be seen; the overlap of the copy's arguments (2 of 3 rows kept, moved
by 1) is the smallest there is.  `MaxPosts` only limits how far images are told
apart: after it all look the same, and two are enough to tell an old from a
current one.  Two threads and three pages (or connections) are the smallest
pool with a thread to lose and a queue to wait in.  In `server_live` one connection may be
a viewer (`Viewers`), which may block one of the two threads for ever; with a
single thread both properties fail, as the code would.  A request arrives in one
read there (`Inputs`); requests in pieces and bad ones are in `server_safety`.  A
connection object that is destroyed is reused, so the behaviours are infinite
although three objects are.  25 bytes are one header line with a folded value
after the shortest request line; the requests a client writes have values without
a fold, with one and with two, an empty line before a fold, and bytes whose class
depends on the state.  Ints up to 200 leave room for the default
thresholds and let a large step wrap around; the command lines are the defaults,
a scan that ends between two steps (100, 130, with CLAHE), one that overflows,
one that never ends, and a stress test, whose shorter scan keeps the product of
the threads small.  Two workers are enough for one to clone while the image of
the other is assigned and for two reports to meet; two images are one more than
the list that wraps at once.

Fairness.  A thread that can run does (WF).  `mtx_` is held for a few
instructions by a page and for one encoding by the poster, and both do much else
before they want it again, so whoever wants it gets it (SF on taking it).  The
`io_service` queue is first in, first out, so a handler is not passed over for
ever.  Only the writes of pages that read are promised to end; `Stalled` pages
never promise anything, and there must be fewer of them than threads, otherwise
no request is ever handled.  `server_live` promises the end of a viewer's
synchronous write (`mjpeg_server.cpp:45`) only once its peer has gone; it
assumes that not every write to such a peer succeeds, and that a waiting stream
handler is given an image, which `streamer_live` shows.  As in `streamer_live`
there must be one thread more than viewers that stop reading.  `streamer_live`
has no timeouts: it is about the camera delivering, when posts come every 60 ms
and the timed wait lasts a second.  The coloured images come every 1000 ms, where
a wait may time out between two of them; that is `streamer_lost_post`.  No fairness is assumed of
accepts, clients, the camera or timeouts.  In `program` a thread that can go on
does (WF), and one that waits for the global mutex gets it in the end (SF): it is
held for a clone or a line of output, the streamer pauses 60 ms or a second and
the barcode thread scans in between.  Only while there is no image does the
barcode thread lock and unlock without doing anything, and there the assumption
rests on `pthread_mutex` letting a waiter in.  No fairness is assumed of `main`,
the camera, the assignments of the stress test or the recognition of addresses,
which may take for ever.

## Findings

The runs that expect a violation, with the lines they contradict, are in
"findings" of `PROJECT.json`: an empty image posted (`grabzbar.cpp:442`), the
image allocated for the format before Mono8 is set (`grabzbar.cpp:305`), the
post lost in a wait without a predicate (`mjpeg_server.cpp:51`) and the
dereferenced `end()` of the stress test (`grabzbar.cpp:526`).

Seen as well, without a run of their own:

- The reads after the first are not wrapped in the strand
  (`connection.cpp:66-69`), although `connection.hpp:74` says that no callbacks
  are called concurrently.  Harmless: `OneActivity` is what the code relies on,
  and it holds (and is proved).
- `post_image` returns the pages that wait at the moment; `mjpeg_server.hpp:28`
  calls it the number of viewers.  Nothing uses the result.
- `url_decode` accepts `%1g` (`request_handler.cpp:155`), against
  `request_handler.hpp:60`; it is one of the tokens of `RequestHandler`.
- The boundary a stream announces ends in a line break (`mjpeg_server.cpp:19`,
  used in a header at line 95): the header lines end early, and the delimiter of
  the parts lacks the two hyphens the format puts before the announced text.
  `PartsFramed` states what is sent.
- With `--bc_clahe` the image has three bytes a pixel, and zbar is told one
  (`grabzbar.cpp:186`): it reads the top third of the rows, each as three rows of a
  third of the width, so a symbol must lie in one of these (`Scanned`).
- `notify_all` is called without the mutex (`mjpeg_server.cpp:119`): a page that
  has counted itself after the image was encoded but does not wait yet misses the
  notification and waits for the next post.  `PostReachesWatchers` is about the
  pages counted when the post took the mutex; without timeouts it holds, and is
  proved.
- After a failed accept none follows (`server.cpp:106`), and nothing ends the
  server; `KeepsAccepting` leaves such behaviours out.
- A stress test thread reports lines 494-500 under the mutex, and no two such
  reports mix (`ReportsWhole`); the rest of its output, that of the barcode thread
  and `debugTime` (lines 208-210, 222, 468, 489, 502) are written without it and
  may cut into a line.
- A symbol is printed once for each threshold at which it is read:
  `codeRetry` (`grabzbar.cpp:129`) is never set.
- The comment "counting here down" over a loop that counts up (`:163`);
  `--debugwindow` without `--name` dereferences a null pointer (`:704`, the fault
  `null_recogniser`).
- A stream registered below another's path is never reached, because the shorter
  pattern comes first in the table (`RequestHandlerAssumption` leaves such paths
  out).

## Proofs

Every leaf is checked by TLAPS, for every value of the constants.

- `CaptureProofs`: `TypeCorrect`; `ImageIsAlwaysWindow`, `CaptureRefinesWindow`,
  `SnapshotIsRegular`, `SnapshotsNeverGoBack`.  All but the first assume
  `CopyIsSafe`: a `memcpy` that moves rows downwards must not be given
  overlapping arguments (`Kept <= GrabHeight`).  The standard leaves overlapping
  arguments undefined, and this is the exact condition under which the code
  still works for either order.  The invariant behind them, `ImageInv`, says of every row
  which of the two windows it belongs to while a copy is under way; the clones
  need in addition, for each row already copied, bounds that both grow with the
  scrolls (`ReaderOK`).
- `StreamerProofs`: `TypeCorrect`, `HandlersNeverConcurrent`,
  `WatchersAlwaysExact`, `StreamerRefinesBroadcast`; `PostsReachWatchers` if no
  wait times out.  The inductive invariant adds `MutexInv`: the poster holds `mtx_`
  exactly while it encodes, when the buffer is cleared, and a page exactly between
  counting itself and its wait.  So when the poster takes `mtx_` every page that
  is counted waits or has been woken, and stays so until it is notified or served
  (`DueInv`).
- `RequestParserProofs`, for every sequence of bytes:
  - `TypeCorrect`, `BackIsSafe`: one inductive invariant, since the type of the
    headers and their being there depend on each other.
  - `AcceptedAreWellFormed`.  What a field is made of holds in every state
    (`LineInv`, `NamesInv`), that it is not empty from the state on in which it
    has been read.  It is inductive only with `state # "uri_start"`: that state
    of the machine would store a blank in the URI, and no state leads to it.
  - `AcceptedAreParsedAsWritten`.  `TextInv` says, for each of the states, what
    part of `RequestText` the unfolded input is (`LineRead`, `HeadersRead`): in
    `http_version_p`, say, it is the method, the URI and `" HTT"`.  It needs
    three things beside: a field is empty before its state (`EmptyInv`); the
    input ends in a line break that a blank would continue only at the start of
    a line and in `header_lws` (`BreaksInv`); and a blank at the start of a line
    turns the end of the last header back into the middle of its value
    (`BlankContinues`), because `Unfold` forgets the line break with the first
    blank after it (`UnfoldBreak`).  One step per transition (`Moves`).
  - `WrittenAreAccepted`, `ReadAreAsWritten`: for every set of requests a client
    may write, of any size.  `TextInv` looks back at the input and says nothing of
    a machine that refuses too much; `Writing` looks ahead.  It says that the
    input and some rest `x` are the text of the request, and that `x` fits the
    state (`Fits`): in `uri`, say, it is what is missing of the URI, a blank and
    the version and all headers (`LineLeft`), and in the headers it is the rest of
    the present line, the lines that continue it and the headers to come
    (`HeadersLeft`, where the headers read so far and the rest together make up
    all of them).  A rest that fits is not empty, and the machine goes on with its
    first byte to a state that what is then left fits (`Fitting`, with one lemma
    per state), so no byte is refused, and it accepts exactly when nothing is
    left, after the empty line at the end.  A text is taken apart from
    its front (`FirstJoined`, `FoldsFirst`, `HeadersFirst`), as `TextInv` puts it
    together at its end.  The one place where the grammar needs care is a folded
    line that begins with a blank: it belongs to the fold (`Folds`), since
    `header_lws` drops it.
- `RequestHandlerProofs`, for every table that registrations in any order can
  build, and every URI:
  - `FilesAreBelowRoot`, from the order in which `handle_request` decodes, cuts
    off the query, checks and appends `index.html`;
  - `PatternsAreApart`, `RedirectsReachStreams`, `ListNamesStreams`, from
    `TableInv`: the table has the two keys of the list, and of each registered
    path a redirect and a pattern that calls the streamer registered last.
    They rest on `RequestHandlerAssumption`: the paths of streams are absolute,
    have nothing in them that means something in a URL or a regular expression,
    do not begin with `/_all` or `/_stream`, and none lies below another.
- `ResponseProofs`: `ResponseImplementsHandler` (a connection that sends is a
  request handler, so the four results hold of it too); `ResponsesAreFramed` and
  `PartsAreFramed`, for every request and any number of parts, from `WireInv`:
  what has been sent is the reply of the answer, and of a stream as many
  whole parts as `reply_` says, with one in the making.
- `SequenceLemmas`: what `FlattenSeq`, `ReplaceFirstSubSeq`, prefixes and
  appended elements do.  These operators are recursive functions; where a lemma
  needs induction it takes the least element of a set of indices
  (`LeastElement`, `SetInduction`), since the library's induction theorems take a
  predicate as a parameter.

- `HttpServerProofs`: `TypeCorrect`, `OneActivityAlways`,
  `AcceptsAlwaysIntoClosed`, `RepliesStayUnchanged`, `AnswersAlwaysOnce`: for any
  number of connections and threads.  The invariant `Inv` has four parts beside
  the last property: `Types`; `Single`, that a connection has one operation, or
  one handler that has not come to its end; `Accepting`, that accepts belong to
  `newConnection`, come one at a time, and nothing else refers to it or to the
  connection just created; `Fresh`, that a connection has no reply before its
  request is handled, and none after it is destroyed.  There is one lemma per
  shape of step: going on, setting the reply, beginning an operation, and
  the steps of their own (`Listen`, `Swap`, `Return`, `Complete`, `Take`).
- `ProgramProofs`: `TypeCorrect` (thresholds that wrap stay ints);
  `OptionsStayFrozen`, from the order in which `main` starts its threads
  (`StartOrder`); `ReportsAlwaysWhole`, from who holds the mutex where
  (`MutexHeld`); `ClonesAreNotOlder`, from what `stressTestImage` shows at each
  step of an assignment (`CloneInv`); `ScansPrintReadable`, from the invariant
  that all readable below the next threshold is printed and that this threshold
  is `start + k * step` (`ScanInv`), with the arithmetic of multiples as lemmas
  of its own.  It holds for all thresholds whose loop can end, and for any
  images.
- `CaptureProofs!NeverWildCopy`: if the camera is in Mono8 from the start and
  a block is not higher than the image, no copy has a wrapped length.  Run
  `capture_format` shows that the first condition is needed.

Only model-checked: liveness (fairness and ENABLED are beyond the prover).  All
invariants and action properties of the runs that pass, and the two refinements,
are proved, under the conditions named with them.

## Not modelled, and why

- The allocation of the image is one step: a reader beside it sees no image, or
  a blank one, as before or after it.  Rows are the grain of the copies.
- Drawing the text, JPEG encoding, thresholding and decoding of an image, the
  recognition of addresses, wording and logging.  A symbol is what zbar reads of
  it: its type, what the filter asks of it, and at which thresholds.
- The images a stress test replays are told apart by their numbers only; an
  image file that cannot be read is an image like any other.
- `post_image` can wait for a first viewer (`mjpeg_server.cpp:105`), but every
  caller in the repository passes `wait` as false; nothing requests the
  interruption it tests for; `server::stop` has no caller.
- `list_all_streams` makes a regular expression of the user's URL
  (`mjpeg_server.cpp:144`): of what has a meaning in one, a URI of the model has only
  the dot, and the exception of a malformed one (line 151) is left out.
- The strand shares locks between connections inside asio: it can only delay.
- The value of the HTTP version, which nothing reads; the query of a URL,
  likewise.
- `args.hxx` (vendored), `mjpeg/main.cpp` (a demo the Makefile does not build),
  the `ocrs` submodule (empty).

## Plan

What a next step could add:

1. `Capture` and `Streamer` composed, so that what a page shows is bounded by
   what the camera had delivered when it was posted.
2. `Streamer` and `HttpServer` composed: both describe
   `handle_initial_header_write`, with different state.
3. A list of the stress test that `main` goes on to change would break
   `FrozenWhileThreadsRun`; a bound on the threads it starts would need a
   property of its own.
