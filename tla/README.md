# Verification of TinyWebServer-start

TLA+ models of the web server in `src/http-server-v1`, the TLC runs that check them on small
instances, and TLAPS proofs of their central safety properties for every instance. `PROJECT.json`
maps each definition to the lines it models and lists the runs, the mutants, the findings, the
hazards and the theorems.

## The system

One process: the main thread runs an epoll loop; a pool of worker threads runs closures that the
loop queues; a pool of MySQL connections serves the request handlers; a logger thread writes the
log.

| Component | State | Operations | Interacts through |
|---|---|---|---|
| `ThreadPool` | `tasks_`, `stopping_`, `workers_`, one mutex, one condition variable | `enqueue`, `shutdown`, `worker_loop` | called by `WebServer`; runs its closures |
| `WebServer` | `users_` and `last_active_` under `users_mutex_`; `epfd_`, `listenfd_`, `events_` | `run`, `handle_timeout/accept/read/write`, `close_conn`, `modfd`, two closures | kernel (epoll, descriptors), `ThreadPool`, `HttpConn` |
| `HttpConn` | `fd_`, `gen_`, `read_buf_`, `write_buf_`, `bytes_sent_`, `keep_alive_` | `init`, `read_once`, `process`, `write`, `reset_for_next_request`, … | always called with `users_mutex_` held |
| `Sql_Connection_Pool` and its guard | `conns_`, `inited_`, `stopping_`, one mutex, one condition variable | `init`, `get_connection`, `release_connection`, `shutdown` | request handlers, `main()` |
| `Logger` | `dq_`, `stopping_`, `cur_date_`, `file_`, one mutex, one condition variable | `init`, `enqueue`, `shutdown`, `worker_loop`, `log` | every component logs |
| Auth, sessions, blog handlers | tables `users`, `sessions`, `articles`; a cookie in each browser | `register_user`, `login_user`, nine handlers, `get_session_user_id` | `process()`; MySQL through guards |
| Text utilities, templates | – | `url_decode`, `html_escape`, `escape_json`, `replace_placeholder`, `get_form_value` | the handlers |
| File cache, static routes | `file_cache_` | `read_file`, `route` | `process()` |
| `main()` | – | argument parsing, table creation, start | all |

Four threads or more share the connection table, and the kernel gives a descriptor number to a new
client as soon as it is closed. What is hard:

* **Descriptor reuse.** Events in a batch, closures in the queue and calls made after the lock is
  released all name a connection by its descriptor.
* **Lock blocks with calls after them.** `close_conn()`, `modfd()` and `enqueue()` follow a block
  under `users_mutex_` but are outside it.
* **Level-triggered epoll.** A descriptor stays ready until it is read or written, so one arrival
  can queue several read closures. (`http-server-v1/README.md:14,56` say edge triggered, but no registration has
  `EPOLLET`.)
* **Condition variables.** Lost and misdirected wake-ups in three pools; shutdown with work queued.
* **Partial failure.** A refused task, a failed `epoll_ctl`, an `init()` that stops half way, a
  statement that fails or whose reply is lost, a log file that does not open.
* **Framing.** Requests come in any segments, with lengths the client chooses, computed modulo
  2^64, and with two parsers that disagree about what a header says.
* **A lock held over everything.** `process()` runs SQL and waits for a pool connection with
  `users_mutex_` held.
* **Text through five encodings.** Form, page, string literal, the script around it, template.

What makes each component correct:

* ThreadPool: tasks are taken once and in order; nobody sleeps on work or on shutdown for ever;
  shutdown drains. Abstractly: a bounded FIFO (`TaskQueue`).
* WebServer: an entry is bound to the socket behind its descriptor; nothing leaks; the idle clock
  covers every connection; a client receives its own responses, whole and in order; every
  connection ends; every request is answered or its connection closed.
* HttpConn: each response answers the next request, whatever the segments; the limits hold; the
  buffer is bounded; a connection is never closed in mid-stream.
* Sql_Connection_Pool: a handle is in one place at a time; nobody is forgotten; nothing leaks.
* Logger: what is accepted is printed once, in order and before the program ends, in the file of
  its day. Abstractly: the same bounded FIFO with one worker.
* Auth, sessions, blog: a cookie opens no session but one's own; only a logged-in browser changes
  an article, and only the one it names; what an answer says is so; a handler never waits for a
  pool connection that only another handler could give back.
* Text: what the author typed is what readers, the editor and the list are shown.

## Modules

| Module | Models | State and actions |
|---|---|---|
| `TaskQueue` | what `thread_pool.cpp` promises | the queue, what each worker runs; `Accept`, `Start`, `Finish`, `Stop` |
| `ThreadPool` | `thread_pool.cpp` | `tasks`, `stopping`, program counters of workers and callers, and three history variables; one action per mutex block, per notification and per wake-up |
| `HttpConn` | `http_conn.cpp`: the connection object | no variables: a record and one operator per method |
| `WebServer` | `webserver.cpp`, the kernel and the clients as far as it depends on them | see below |
| `SqlConnectionPool` | `sql_connection_pool.cpp/.hpp` | queue, flags, open handles, guards; one action per mutex block, notification and `mysql_close()` |
| `HttpSession` | the framing of `http_conn.cpp` under every kind of request, driven by the handlers without overlap | the client's script and what is on the way, the connection, its registration, the answers sent; `Send`, `Fin`, `HandleHup`, `HandleRead`, `HandleWrite`, `RunPipe` |
| `Logger` | `logger.cpp` | queue, writer, callers, destructor, the date, the open file, the lines printed; one action per mutex block, notification and reading of the clock |
| `TextUtils` | `template.hpp`, `get_form_value()` and the browser's side of each | operators on sequences of characters |
| `Blog` | `auth.cpp`, the handlers of `http_conn.cpp`, `read_file()` for their templates | the tables, the pool's guards, the running handler, cookies, the last page; one action per statement |
| `ThreadPool_proofs`, `WebServer_proofs`, `SqlConnectionPool_proofs`, `HttpSession_proofs`, `Logger_proofs`, `Blog_proofs` | | the theorems about each module and their lemmas; `Blog_proofs` has those about `TextUtils` too |
| `HttpConn_proofs` | | lemmas on the operators of `HttpConn` and on buffers that begin a request, for `WebServer_proofs` and `HttpSession_proofs` |
| `SequenceLemmas` | | lemmas on sequences for the proofs about streams and texts: least elements, `FlattenSeq`, functions that read a sequence to its end |
| `MCThreadPool`, `MCWebServer`, `MCSqlConnectionPool`, `MCHttpSession`, `MCLogger`, `MCBlog` | | constants for TLC; `MCBlog` also a symmetry, for it checks no liveness |

`WebServer` composes: it extends `HttpConn` for the objects in `users_` and instantiates
`TaskQueue` (with `stopping` always false, for `run()` never ends) for the pool. `ThreadPool` is
shown to implement `TaskQueue`, by TLC with liveness and by TLAPS without, and so is `Logger`, with
its writer as the one worker. `HttpSession` composes the operators of `HttpConn` in another way,
and `Blog` builds on `TextUtils`.

How `WebServer` corresponds to the code:

* `file`, `interest`, `backlog`, `inbox`, `closed`: the kernel's side. `Ready` is what
  `epoll_wait()` would report; `FreeFd` is what `accept()` may return.
* `users`, `lastActive`: the two tables. A clock is `fresh` or `stale`, older than the limit.
* `mpc`, `cur`, `events`, `toclose`: the main thread's place in `run()` and its locals. The batch
  is dispatched in any order, which includes epoll's.
* `tasks`, `wtask`, `wpc`: the pool. A task is a closure's captures (`kind`, `fd`, `gen`); `sock`
  is a history field that only properties read.
* A block under `users_mutex_` is one action: nobody else sees its middle. What the code does
  outside the lock (`epoll_ctl`, `enqueue`, the two halves of `close_conn`) is a separate action.

Abstractions, with their reasons:

* Bytes are units: a header is some `part` units and a `head` unit, a body is `body` units. A
  request is a model value whose header's meaning the constant `Request` gives; limits and lengths
  count units. `recv()` takes up to `RecvMax` of them, and the loop of `read_once()` may stop at any
  unit where the code could have stopped.
* `process()` is keep-alive, status class and one response. All handlers build exactly one response
  and return true: the branch `if (!process()) need_close = true` is dead code, and so is the
  `need_mod_write` of `handle_write()`.
* `send()` may take any part of the rest (`AGAIN`), fail if the peer has sent its FIN, or finish. A
  send buffer is never full for ever. `SIGPIPE` is not modelled.
* After `accept()` the next client takes any free descriptor; a failing `EPOLL_CTL_ADD` is
  `AcceptDrop`; other failures of `accept()` end the handler like `EAGAIN`.
* Clients connect once, send their script and may send a FIN at any time. `Pipelining` says whether
  they wait for each answer.

How the others correspond:

* `HttpSession` is the projection of `WebServer` to one connection on which no two closures
  overlap and a response goes out in one `write()`; in exchange its requests are malformed,
  oversized, late or lying about their length. `reg` is the epoll registration; `"pipe"` stands
  for the closure that `handle_write()` queues for a request that is in the buffer already, which
  goes to `process()` without a limit test. `derailed` is a history variable: the server has
  kept the connection after a request whose end the bytes it had could not tell (`Derails`).
* `Logger`: `log()` runs without the mutex and reads the clock twice, so it is two actions and
  `Midnight` may come between them. Each `open()` may fail. `init()` is the initial state, for
  `main()` calls it first and once.
* `Blog`: `pc` says how far the handler is: about to look up the session, to do the statement of
  the request, or to store a login's token. A statement that changes a table may take effect and
  fail all the same (`"lost"`). `Save` sends an editor page back as it came; between two requests of
  one browser any number of requests of the other may be served. `hurt` remembers that a statement
  of the current request has failed. A user is named by the name, a hash by its password.
* `Blog`, pages: `DetailPage`, `EditorPage` and `ListItem` follow the title, the category and the content
  of a row through the places of the template, filled one after another in the code's order, or
  through the page that stands in when the template is missing (no category there, and none of the
  template's places). What the editor fills in before the texts (`HEADING`, `FORM_ACTION`) cannot touch
  them and is left out. `Save` leaves out an editor whose texts have broken its markup, which takes a
  text that holds `{{DELETE_HTML}}`.
* `TextUtils`: a text is a sequence of characters, with `&amp;` and the like as the characters
  `&`, `amp`, `;`, the name of a tag as one character behind its `<`, and a template's marker as one
  character. What a browser does is marked external: `FormEncode`, `HtmlShows` for text and attribute
  values, `LiteralValue` for a string literal, `ScriptState` for where the text of a `<script>` ends: at
  the first `</script>`, but for what `<!--` and a second `<script>` do to it. `ScriptValue` is what
  the script of `detail.html` gets: nothing, if the script has ended inside the literal. `BreakLength`
  is how much of the line break behind `<pre>` or `<textarea>` a browser skips. Elsewhere a line break
  is taken as it is written (browsers make one `\n` of `\r\n` in a page, and `\r\n` again in a form).

## Runs and what they show

| Run | Instance | Shows |
|---|---|---|
| `pool` | 3 tasks and the null task, 2 workers, 2 callers, queue of 2, fairness | passes: FIFO, wake-ups, draining, and the refinement of `TaskQueue` |
| `server_reuse` | 2 clients on 1 descriptor, 2 workers, queue of 1, responses of 2 units, no pipelining | passes, about 975 000 states: ownership of descriptors, entries and clocks, and whole responses in order |
| `server_pipeline` | 1 client that pipelines 2 requests, 2 workers, queue of 2, fair threads | passes: the first request of a connection is always answered |
| `server_ends` | 2 clients on 1 descriptor, 1 worker, fair threads and clock | passes: every connection ends |
| `server_stale`, `server_lost`, `server_stuck` | 1 or 2 clients, 1 worker | violated: findings |
| `sql_pool` | 4 threads, 2 handles, fairness | passes: one place for each handle, wake-ups, nothing leaks, shutdown closes and frees |
| `session` | 1 connection, 12 kinds of requests in all pairs and 3 triples, every segmentation, limits of 2 units, arithmetic modulo 8 | passes, 12 508 states: framing, answers, limits, the buffer's bound, closes, every request answered |
| `logger` | 3 messages, 2 callers, queue of 2, 3 days | passes, about 101 000 states: exactly once, draining, files by day, and the refinement of `TaskQueue` |
| `blog` | 2 browsers, names, passwords, tokens and articles, 1 pool handle, 1 failing statement; all texts of up to 3 of 30 characters, and all rows over 11 sample texts | passes, about 622 000 states: no waiting under the lock, own cookies, true answers, changes by their own request, the list in order, texts as typed |
| `blog_raw_text` | 1 browser, an article whose title is `{{DATE}}` and whose content has `</script>` in it | violated: two findings, both in the last state of the trace |

**Bounds, and why they are enough.** One descriptor and two clients force every reuse; two workers
give two closures for one connection at the same time; a queue of one makes `enqueue()` fail; two
response units make partial writes; a request of two units makes partial reads; r1 keeps the
connection and r3 closes it. Pools with more workers than tasks, and more tasks than room, have
sleepers, misdirected notifications and refusals. In `session` a limit of 2 units and a `recv()` of 2
put a request just inside, just over and far over each limit, with the next request behind it in
the same chunk; a length of 7 modulo 8 ends in the header or at its start. There `MaxAnswers` = 5
bounds the responses, for the request `loop`, whose end wraps around to 0, is answered for ever: it
is never removed from the buffer. In `logger` `MaxDay` = 3 gives two midnights, one for each reading
of the clock, and three messages overfill the queue. In `blog` `MaxId` = 2 articles, `ListLimit` = 1
and one fault (`MaxFaults`) per behaviour give a list that is cut, an edit of a row that is gone, a
retry after a lost reply and a pool that would deadlock if a handler kept its guard. Two titles
tell its articles apart, and one of them has a marker of the reader's page. `EveryTextSurvives` depends on
no state and is evaluated once: the text functions on every text of at most three characters
(`MaxText`), of those that any function treats in its own way or writes (`PageChar`), for an escape and an
end tag are three characters long; and the form and the pages on every row of which the title, the category
and the content are among eleven texts (`Samples`) that hold each marker of the three pages, alone or
with a neighbour, and what each encoding and each reader treats in its own way. No page mixes the
texts of two rows but the list, which only puts them one behind another. The theorems have
no such bounds on clients, workers, requests, sizes, faults or texts.

**Fairness.** `Threads` gives weak fairness to the main thread, whose `epoll_wait()` returns at least
every second, and to each worker: the operating system runs every runnable thread, and no handler
waits for a client. `Clock` says that a connection on which nothing happens passes the idle limit;
only `server_ends` uses it. Clients are never obliged to do anything in `WebServer`. In the three
queues only the threads that are inside an operation are fair, with the logger's writer; nobody is
obliged to begin one, and spurious wake-ups are possible but not fair. A guard of
`SqlConnectionPool` is released in the end, since each lives for one block of a handler.
`HttpSession` has fair server steps, for the same reasons as above, and one assumption about its
client: it goes on sending what it has begun, unless it sends a FIN. `ScriptAnswered` is about such
clients only. `Blog` has no liveness property and no fairness.

### Findings

Each is a run whose property states what a comment or a document says and whose trace is a run of
the code; `PROJECT.json` quotes the lines.

* `server_stale`: the generation check never fails where it matters. `close_conn()` erases the
  `HttpConn`, and a new object starts again from generation 0, so `init()` always makes it 1.
* `server_lost`: between the reset for a pipelined request and the closure that answers it the
  descriptor is still registered for `EPOLLOUT`; `handle_write()` takes the empty response for a
  finished one, finds `keep_alive_` false and closes.
* `server_stuck`: a client that waits for its first answer and then sends a second request may get
  no answer. A duplicate read closure reads the request, builds the response and calls
  `modfd(EPOLLOUT)` between the end of the block under the lock in `handle_write()` and its
  `modfd(EPOLLIN)`. The request is no longer in the socket, so nothing reports the connection again
  until the idle sweep closes it. Only the first request of a connection is safe from this
  (`FirstRequestServed`, checked in `server_pipeline`): the late call needs an earlier response.
* `blog_raw_text`, the article's title: `handle_blog_detail()` fills the places of its template one after
  another over the whole page, so a marker in an article's texts is filled as well.
* `blog_raw_text`, its content: `escape_json()` makes a string literal of the article, and the page has it in
  an inline `<script>`. A browser looks for `</script>` before it looks at literals, so an article that holds
  one (a text about HTML) ends the script, and the reader sees no article. `<!--` with `<script>` does
  the same by commenting the end tag out (`LeavesScript` names both).

Other behaviour worth knowing, which the models have and no property forbids:

* A closure that decided to close releases the lock first; the descriptor can be another client's
  when it calls `close_conn()`, and that client is cut off.
* `handle_timeout()` closes connections that became active after its snapshot.
* A duplicate read closure does the same to the refusal of an oversized request (413, 431): it finds more
  of the body, refuses again and starts the response anew. `PlainRequests`, a hypothesis of
  `ServerStreamIntegrity`, excludes it; `PROJECT.json` lists it as a hazard.
* With pipelining a duplicate read closure runs `process()` while a response is on its way, and the
  stream restarts it: `StreamIntegrity` is broken by `Pipelining = TRUE` in `MCWebServerReuse.cfg`.
* A request whose end wraps around to 0 is answered again and again; any other end that wraps lies
  in front of its body and makes the limits of a pipelined request meaningless (`Wraps`).
  `AnswersTheScript` exempts such requests.
* A GET with a body that comes late derails the stream: its body begins the next request. `FramingKept`
  says nothing of a connection from there on (`derailed`).
* A text that holds `{{DELETE_HTML}}` breaks the editor that shows it: the markup with its quotes is filled
  in there.
* A login whose `INSERT` of the session fails says it succeeded; a deletion that fails too. `AnswerIsTrue`
  exempts the two (`hurt`), and 404 and "log in first", which may hide a failure.
* A line break at the very start of an article is swallowed by `<pre>` and `<textarea>`, and by the
  next save of the editor.

Despite the stale closures and late closes, ownership holds (`OwnsFd`, `NoFdLeak`,
`IdleClockInSync`, proved): a closure finds the object of whoever owns the descriptor now, so what
goes wrong is that the wrong client is closed, never that data crosses from one to the other. For
clients that wait for their answers and keep within the limits `StreamIntegrity` holds as well,
checked by `server_reuse` and proved.

## Proofs

`tlapm` checks every theorem to its leaves. The assumptions are `PoolAssumption`,
`HttpAssumption`, `ServerAssumption`, `TaskAssumption`, `SqlAssumption`, `SessionAssumption`, `WireAssumption`,
`LoggerAssumption`, `BlogAssumption` and `TextAssumption`: ranges of the constants, markers (`NoTask`, `NoConn`, …) that
are not members of the sets they mark, that the threads of the connection pool are finitely many,
that one `recv()` fits in each limit, that HEADLIMIT and a `recv()` are not over BODYLIMIT by more than
two units, that the limits fit in `size_t`, that no client sends a request of 2^64 bytes, and that titles,
categories and contents are sequences of characters. TLC evaluates them in every run
of the modules.

**ThreadPool** (`PoolInvariant`). The invariant is the type invariant, `FifoExactlyOnce`, the two
wake-up conditions, and three facts about places in the code: a worker holds a task exactly while
it runs it, one that has left its loop left a stopping and empty pool, and `shutdown()` has joined
only workers that have left.
`FifoExactlyOnce` is inductive with types alone. The wake-up properties are preserved because a
push leaves its caller in `notify_one` and a worker that sleeps has seen the queue empty with the
mutex held. `ShutdownDrains` needs that a worker exits only when `stopping` holds with an empty
queue, after which nothing is accepted. `PoolImplementsQueue` maps each action to an action of
`TaskQueue` or to a stutter.

**Logger** (`LogInv`). The same argument with one worker, whose local `task` is what it has taken and not
printed: `HoldsWhileLogging` says so, `ExitIsDrained` that the writer left a stopping and empty queue,
`OwnerInOrder` that the destructor has stopped before it joins. `OneLineLateAtMidnight` needs
`FileIsNew`: no line is stamped later than today, and the open file is as new as any stamp printed
so far while the writer is between its two readings.

**SqlConnectionPool** (`SqlInv`). `OnePlaceEach` is inductive with two facts about places in the code: a
guard has a handle exactly while its thread uses it (`HeldWhileUsed`), and of `conns_` and the queue that
`shutdown()` has swapped it for at most one is in use (`OwnerInOrder`). `NothingLeaks` follows from
them where `shutdown()` has returned. `WaiterHasAWaker` counts: there are at least as many threads about
to test the queue or to notify (`Busy`) as there are handles that sleepers could take, which is an
argument about cardinalities of a finite set of threads.

**HttpConn** and **SequenceLemmas**. Every operation returns a connection record bound to the same socket; the step that
needs work is `reset_for_next_request()`, whose cut lies inside the buffer because `find` returns a
position of it. The client's stream is a `FlattenSeq` of requests, which the community modules define by
recursion. A schema of induction is out of the prover's reach, but not one set at a time: every
non-empty set of naturals has a least element, so a shortest counterexample can be taken and refuted.
`FlattenExists` shows in this way that the recursion has a solution, `FlattenFront` how it unfolds from the
front, `ByFront` that a set with `<<>>` that is closed under one more element has every sequence.

**HttpSession** (`SessionInv`). `BufferBounded` looks local and is not: `read_once()` tests its limits on
what it has appended, so the bound rests on what the buffer held before, which the last reset left
there. The invariant says that a connection that waits for input holds no complete request and
less than the limits; that what a reset will leave behind a response is less than a header and one
chunk; and that a request found in the buffer is answered from less than that. The lemmas follow
`find()` over a growing buffer and over its prefixes: a header's end does not move, a verdict of
"more" bounds the length, and a chunk goes past the first unit that satisfies the loop by less than
`RecvMax`. `LimitsHold` adds `LimitsInv`: a request found in the buffer passes no test, but what is in the
buffer by then is so little (`Small`) that a body over the limit cannot be whole there, unless its end
wraps around; this uses that HEADLIMIT and a chunk are below BODYLIMIT. `CloseIsAnnounced` is proved from
the guards of the actions that close.

`FramingKept` and `AnswersTheScript` rest on `FramingInv`: until the connection derails, what lies in the
buffer, in the socket and with the client is the rest of the script (`FramingKept` itself); a response on
its way that will keep the connection answers a request that is whole by its own account
(`KeptIsWhole`), and is the one that the next request deserves (`NextDeserved`); and what lies behind
it in the buffer is less than a chunk (`LessThanAChunk`), for otherwise the limits could be met by the
bytes of two requests together. The step that matters is the reset: it cuts by the Content-Length it
finds, and the invariant makes that cut the request's end. `WireAssumption` keeps a request's own
length apart from one that wraps around.

**WebServer** (`ServerInvariant`). The properties are not inductive by themselves. The invariant
adds that handlers and closures have their locals (`HasLocals`), that entries are bound to sockets
(`BoundConns`), that a client stays within its script (`SendsScript`) and, the one that matters,
`InsertsFresh`: between `accept()` and the insertion the descriptor is open and has no entry. It
holds because `close_conn()` erases the entry in the same block that closes the descriptor, and it
is what makes a worker's late `close_conn()` harmless there: it finds no entry and leaves the new
descriptor alone. Each action then touches the tables in one of three ways (not at all, an update
of an existing entry, an erasure), with one lemma for each (`TablesKept`, `TablesUpdated`,
`TablesErased`); accept and insertion are proved by themselves.

`ServerStreamIntegrity` adds `StreamInv` to it. A socket is open under one descriptor (`OneFdEach`); no
closure of the second kind is ever made (`OnlyReads`); what clients have received is intact
(`AllIntact`); and each connection is in turn with its client (`AnswersInTurn`): for some number d of
answered requests it either waits, with a beginning of request d + 1 in its buffer and socket
(`Waits`), or answers, with that request whole in the buffer, part of its response sent and nothing
behind it (`Answers`). A connection that is about to be erased is exempt, for
the main thread will not write to it, and a new connection object is in turn with a client that has
none. With that a second or stale read closure finds an empty socket while a response is under way,
and `read_once()` returns `AGAIN` or `CLOSED`. The theorem has two hypotheses and would be false without either:
`~Pipelining` (a client waits for each answer) and `PlainRequests` (requests are within the limits,
and send no more than the header announces). TLC's instance satisfies both.

**Blog** (`BlogInv`). `HandlerNeverWaits` is the counting half of the type invariant: a handler's
guard is the only one there is, and each statement gives it back. `ChangesOwnRowLoggedIn` needs
`CheckedBefore`: a handler that is past its session check was let past by a session of the browser
that sent the request, and nobody can change that while it runs, because `process()` holds
`users_mutex_`. `CookieIsOwnSession` needs that tokens are drawn once.

**Text**. `EveryText` proves `TextSurvives` for every text over any characters, where TLC has the short
ones. Each reader (`UrlDecode`, `HtmlShows`, `LiteralValue`) is a function over positions that reads what
is there and goes on behind it (`Scans`), each writer (`FormEncode`, `HtmlEscape`, `EscapeJson`, filling a
place) replaces every character by a sequence (`Joined`). `FormReads`, `HtmlReads` and `LiteralReads` say
that a reader in front of what one character became reads that character and goes on
behind it; `JoinedBack` concludes for the whole text, by `ByFront`. `FormFields` finds each of the three fields
in a form's body, because no value has a separator in it. For a script the text
must not leave it (`LeavesScript`), which is the exception in the theorem and one of the findings of
`blog_raw_text`: `EscapedQuiet` shows that then the literal has neither an end tag nor a comment's
beginning, though escaping puts characters between those of the text, and `QuietPlain` that the browser
is still in the script, in its plain state, at the literal's end. `UrlDecodeStays` is about what is no whole escape.

**Answers and pages** (`Told`, with `BlogInv`). `AnswerIsTrue` and `ShowsTheText` speak of the last answer, and
every request replaces it, so they are preserved for a simple reason and established for a deep one.
The invariant says that a handler has texts to store and a row to look for (`RequestTexts`), that
the editor shows texts (`PageOK`), since saving sends them back, and that the table has what was typed
(`RowsOK`), which is `EveryText` for the three fields of the form. `DetailShows`, `EditorShows` and
`ListItemShows` follow a row through the places of a page: what is escaped has no marker unless the text
has, and escaping commutes with the line break that the browser skips (`SkipBreakEscaped`). The
exceptions of `ShowsTheText` are hypotheses here: a text that holds a marker of the same page
(`DetailMarkers`, `EditorMarkers`, `ListMarkers`) is not claimed to be shown, nor a content that leaves its
script. An editor may show such texts all the same and be saved: `EditorTyped` says over which
characters they then are (`TextChar`: those of the texts and of what the places put in).
`EveryRow` collects them for the rows that TLC samples. `NewestFirstIs` shows that the list's order exists, `ListItems` that what it leaves out is older than
what it has.

Only model-checked: every liveness property (out of the prover's reach), and with them the fair part of
the refinements; the theorems are about the safety part. Every invariant that a passing run checks
is proved, `StreamIntegrity` under the two hypotheses above. The findings are runs of an instance.

## Not modelled

* `main()`: argument parsing and table creation, once, before anything runs; its order of
  construction is the `Init` of the modules.
* The static pages, `/echo`, `route()` and `get_content_type()`: a read of a file and one answer, which
  change no state. A file that changes on the disk after it was cached: nothing promises that
  it is noticed.
* The destruction of `WebServer`: `run()` comes back only when `epoll_wait()` fails, and the order of its
  members is then listed as a hazard.
* `SIGPIPE`, which ends the process; a MySQL server that restarts, beyond statements that fail.
* The three bytes by which the test of `HEADLIMIT` differs before and after the blank line.
* Password hashing and OpenSSL, SQL itself, log levels and the wording of lines, pages and build files.

## The plan

1. `StreamIntegrity` without `PlainRequests`: as it stands for clients whose requests are refused it is
   false; what remains true is that no other client's data is mixed in, and could be stated and proved.
2. The enabling conditions behind the liveness properties as invariants: that a waiting thread has
   one that will wake it is proved, that an accepted connection has a registration or a
   closure that will end it is only checked.
3. A `Teardown` module: the workers against the destruction of `users_`.
