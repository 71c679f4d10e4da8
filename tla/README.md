# A TLA+ model of kanon_httpd

kanon_httpd is an HTTP server on top of the kanon event-loop library: one loop
accepts connections, a pool of I/O threads serves them, and each connection has
one `HttpSession`.  The repository holds two servers: version 2 (`src/src/http2`,
the one the build produces by default) and the deprecated version 1
(`src/src/http`).  This directory specifies version 2 first and, of version 1,
what it does not share with it: the parser that keeps its phase between messages,
and CGI.  Paths below start at the repository's root,
which is `src/` in `PROJECT.json`.

## 1. Inventory

| Component | State | Operations | Interacts through |
|---|---|---|---|
| Descriptor cache, `http_server2.cc` `GetFd()` | `fd_map_` (path to `weak_ptr<int>`), its mutex, the reference counts | `GetFd()`; the deleter of a `shared_ptr` | called by sessions of all I/O threads; the deleter runs wherever the last reference is dropped |
| Mapping cache, `GetAddr()` | `addr_map_`, its mutex, mapped regions and their lengths | `GetAddr()`; deleter | as above, with `mmap()` |
| Session, `http_session.cc` | two timer ids, `cur_filesize_`, `cache_filesize_`, the write-complete callback and what it captures | `Setup`, `Teardown`, `OnMessage`, `ServeFile`, `SendFile`, `SendFileOfMmap`, `ServeDynamicContent`, `CloseConnection`, `SendErrorResponse`, two timer callbacks | called by the connection on its loop; calls the caches, the parser, the plugins |
| Server, `http_server2.cc` | the session in the connection's context | the connection callback | creates and destroys sessions |
| Parser, `http2/http_parser.cc` | `parse_phase_`, `content_length_`, the request | `Parse` and its phases | consumes the connection's input buffer |
| Responses, `common/`, `http2/http_response.h` | a buffer | `AddHeader`, `AddBody`, `AddChunk` | by value |
| Query arguments, plugins | a map; a loaded library and a generator object | `ParseArgs`; load, create, generate | `ServeDynamicContent` |
| Configuration, file reader | `g_config`, a stdio handle | read once at startup | read by sessions |
| Version 1 parser and server | phase, cached URL and length; pipes and a child process per CGI request | `Parse`, `ServeFile`, `ExecuteCgi` | one session per connection; two pipes to the child |
| Options (`takina`), `main` | option table | parse once | startup only |

What is hard in it:

* **Interleaving.** A handle of the descriptor cache falls to zero references
  *outside* the mutex; only then does its deleter wait for the mutex.  In the
  meantime any thread may find the entry expired, open the file anew and publish
  a second handle, which may itself be dropped before the first deleter runs.
* **Stale state.** `cache_filesize_`, the timer ids, the callback and the
  `HttpRequest` it refers to outlive the response they were made for.
* **Ordering.** Messages, write-complete notifications, two timers and the
  disconnection reach a session in any order.
* **Partial failure.** `open()`, `mmap()`, `pread()` fail in the middle of
  something: with an entry already in the map, with half a file already sent.
* **Partial input.** A message is any prefix of what the client will send, or
  one request and part of the next.  Version 1 goes on where it was, but not with
  everything: the state of its request line starts anew.
* **Processes.** The server of version 1 and its children interleave at every
  system call; a pipe ends for its reader only when *every* process has closed the
  other end, and children inherit whatever is open.
* **Liveness.** Somebody must close a descriptor nobody uses and a connection
  nobody uses; `Parse()` must return.

Correctness, per component:

* *Descriptor cache*: a descriptor in use is open; a descriptor in use is the one
  new requests share; the map never names a closed descriptor; an unused one is
  closed, once, by somebody; the mutex is always released.
* *Session*: an armed timer can be cancelled; nothing refers to a session that is
  gone; a timer does not interrupt a response; a file arrives byte for byte; a
  silent client is closed; keep-alive is honoured.
* *Parser*: a request is accepted if and only if the bytes are one, and exactly
  its bytes are consumed; the answer does not depend on how bytes were split;
  `Parse()` returns.
* *Mapping cache*: as the descriptor cache, and the length a session reads is the
  length that is mapped.
* *Lines and URLs*: a request line is accepted if and only if it is one; a URL is
  brought to one form; an escape stands for one character; the query is what
  follows the first `?`, and is split into pairs; both versions agree.
* *CGI exchange*: the client gets what the program writes, whole and in order;
  parent and child do not wait for each other for ever, or for anybody else; what
  an exchange leaves open is known.

`PROJECT.json` lists every hazard at its line, with the properties that cover it
or the reason none does yet.

## 2. Modules

| Module | Models | Role |
|---|---|---|
| `FileSharing` | what the cache promises to sessions | abstract specification: no lock, no map, no weak pointer |
| `FdCache` | `GetFd()`, the deleter, the places where a session takes or drops a reference | one action per step between which another thread can run |
| `FdCacheProofs` | | inductive invariant, five safety theorems, refinement of `FileSharing` |
| `HttpSession` | one connection: `OnMessage()` with all its outcomes, callbacks, timers, counters, setup and teardown | one action per handler and outcome |
| `HttpSessionProofs` | | types, timer invariants, exactness of a fresh file |
| `AddrCache` | `GetAddr()`, `Mmap()`, the deleter, the places where a session reads from a mapping or drops it | as `FdCache`; implements `FileSharing` with mappings for handles |
| `AddrCacheProofs` | | inductive invariant, five safety theorems, refinement of `FileSharing` |
| `HttpParser` | `Parse()` over a buffer that grows in pieces | one action per turn of the loop and outcome |
| `HttpParserProofs` | | inductive invariant, soundness and completeness of the parser, progress of its loop |
| `ComplexUrl` | `ParseComplexUrl()`, the state machine both versions have | a fold over the characters, with a reference for plain paths |
| `HeaderLine` | version 2's `ParseHeaderLine()` and `ParseArgs()` | functions of a line, of a query |
| `HeaderLineProofs` | | laws of every fold; URLs, escapes and queries of any length |
| `HttpRequestParser` | version 1's `Parse()`, which keeps its phase between messages | one action per turn and outcome; extends `HeaderLine` |
| `RequestLines` | | what a request line is, and the properties of both parsers |
| `RequestLinesProofs` | | five of those properties, for all inputs and all cuts |
| `RequestGrammarProofs` | | the other four: what version 1 accepts, and that both versions agree |
| `CgiExchange` | `ExecuteCgi()` with its pipes and processes, and the program `adder` | one action per system call, of the server or of a child |
| `CgiExchangeProofs` | | two inductive invariants (the pipe ends, the bytes), four safety theorems |
| `MC*` | bounds, symmetry, the clients of the parsers | for TLC only |

### FdCache

A *handle* is an open file description together with the control block of its
`shared_ptr`.  `local[w]` is the variable of `ServeFile()`, `captured[w]` the copy
in the write-complete callback.  `pc` follows a worker from `get` (waiting for the
mutex in `GetFd()`) through `find`, `open`, `unlock`, `serve`, `return`, and in
the deleter through `del`, `erase`, `close`.  Dropping a reference is the
operator `Drop`: when it was the last, the worker goes to `del` with the handle
in `doomed`, and afterwards to where `then` says, because C++ runs the deleter in
the middle of whatever dropped the reference.  Steps under the mutex are separate
actions although no other thread can take the mutex: other threads *can* drop and
create references meanwhile, and `Expired` looks at those.

A worker is one session on its own thread.  Sessions that share a thread have
fewer interleavings than that, so every behaviour of the program is one of the
model.  A session may call `GetFd()` while its earlier callback still holds a
handle, also of the same path.

### HttpSession

All of it runs on the connection's loop, so a handler is one step.  `OnMessage()`
is split by outcome: `OnShort` (parse needs more), `OnShortBody` (`Parse()` does
not return), `OnError`, `OnUnopened` (cache returns null), `OnUnreadable` (first
`pread()` fails), `OnStatic`, `OnDynamic`.  `output` says that the output buffer
holds bytes; when it has been emptied the callback installed at that time runs:
`LastWriteComplete`, `SendFile`, `SendFileEnds`, `SendFileFails`,
`SendFileOfMmap`, `SendFileOfMmapFaults`.  A byte of a file is its offset, so
`reply.sent = Bytes(0, size)` says that the whole file arrived in order and once.
`reply` is a history variable: no action's guard reads it, except to keep it.

`CloseConnection` chooses freely between keep-alive and shutdown, because the
callback reads a request that no longer exists.  Remainders of sizes are taken
modulo `WordSize` (the counters are `uint64_t`).  After a read past the end of a
mapping the program may crash or send what lies there: both are actions.

The kanon library is external.  Assumed of it: `Send()` appends to the output
buffer and does nothing after `ShutdownWrite()`; each emptying of the buffer gives
one write-complete notification, to the callback installed then; a timer fires
once or is cancelled; callbacks of a connection run on its loop.  Files do not
change size during a response and `pread()` reads whole parts.

### AddrCache

The steps are those of `FdCache`, under the same mutex discipline.  What is new:

* `len` is the length the deleter has captured, `extent` how much of a region is
  mapped, `size` how far the session intends to read (`cur_filesize_`, from its own
  `stat()`).  Sizes are in units of which `BufferSize` make a buffer, and `HeaderSize`
  of the first part is the header.  `ChangeFile` is the world outside: a file that
  changes while the server runs.  `SizesOf` gives, for every path, the sizes its file
  has one after another.
* A file is read part by part: `InstallCallback` has copied the first one
  (`FirstPart`), `SendPart` reads a buffer and leaves the callback where it is,
  `GuardAddr` reads the last one.  Which of the two is next depends on `Left`, the
  remainder `cur_filesize_ - cache_filesize_` modulo `WordSize`.  `cache_filesize_` is
  counted as in the code, so that a session's next file starts with the offset of the
  one before; only a new connection (`Disconnect`) starts from zero.  `upto` is the end
  of what a handler reads, and may lie past the mapping.  `fresh` is a history
  variable: the offset was zero when the first part was counted.
* `OpenFile`, `Mmap` and `MmapFails` are steps of their own since a descriptor is
  open between them.  `fd` is the number of `open()`s less that of `close()`s, so that
  a descriptor closed twice shows as well as one left open.  A mapping of length zero
  does not exist, so for an empty file only `MmapFails` is possible.
* `buf` is the raw pointer a handler reads from.  In `SendFileOfMmap()` the callback
  that owns the mapping is replaced (`SetLastWriteComplete`) before the last part is
  copied (`Sent`), and only the copy that `GuardAddr` takes keeps the mapping.
* `shut` is the set of workers whose connection an error response has shut down.  A
  request that fails overwrites `cur_filesize_` (`size`) while the callback of the
  transfer before it stays installed with its own mapping.  What keeps that callback
  from reading one file as far as another one is long is that `Send()` does nothing
  after `ShutdownWrite()` (`Sends`).

### HttpParser

The bytes of a client are units: a text (a header line or a field, as a record of
what the parser takes from it), a line end, or a body byte.  A piece ends between
two units: a split inside a text differs from one before it in nothing the parser
looks at, since it does not look before it has a line end.  `OnMessage` appends a
piece and starts a new parser, as the session does.  `taken` is the history of
what this call consumed, against which `IsRequest`, a definition of what a request
is that does not know the state machine, is compared.  Its header lines are
records; what a line of characters becomes is `HeaderLine`.  `StreamsAssumption` says
what the cutting into units means: a text that is not the last unit reaches to its line
end, so what follows it is one; and the value of a Content-Length is a number or
`NoLength`, which is what `strtoull()` makes of it.

### ComplexUrl, HeaderLine, HttpRequestParser, RequestLines

Here a text is a sequence of character codes, because the properties are about
characters.  The loops of the code are folds over the text; a state machine's state
is a field of the folded record, next to the members it sets.

`HttpRequestParser` has one parser for the whole connection.  `input` is what a
client will send (the characters of a request line, then header lines as units) with
the places where a message ends, and `arrived` how much of it has.  The call of
`ParseRequestLine()` is one step, since nothing can happen in the middle of it; it
starts in `kStart` at `parsed_pos_`, whatever state was reached before.  The parser
keeps pointers into the connection's buffer; the model has positions instead and
assumes that the buffer does not move while a request is incomplete.
`InputsAssumption` says that characters are bytes, that a header line is a field, a text
without a colon or blank, and that messages end where there is something.

`RequestLines` says what a request line is: three words and a line end
(`IsRequestLine`), and `IsNearlyRequestLine` with the liberties version 1 takes.  The
definitions split and compare words; they know no state machine.  `Taken` is the part
of `input.line` up to `parsed_pos_`: what is accepted is measured against that, so a
line may be followed by anything.  The `switch` of each state is a `CASE` whose guards
exclude each other or an `IF` in the order of the code, since of a `CASE` with two true
guards TLA+ does not say that the first one counts.

### CgiExchange

Process 0 is the server, process x the child of its x-th exchange; version 1 has one
loop on one thread, so an exchange is over before the next one starts.  `holds` says
which pipe ends each process has: `Fork` copies the server's, no end is closed on
`execl()`, and `Pipe` has no destructor.  Reads and writes take any number of bytes that
there are, or that there is room for.  The child stands for the program `adder` in
`src/cgi`, which reads `CONTENT_LENGTH` bytes, writes them again and a page after
them.  `PipeThrows`, `ForkFails`, `WriteFails` and `ExecFails` are the failures.
Assumed: SIGPIPE is ignored in the server (the kanon library's way), and nothing is
buffered for standard output when the server forks.

## 3. Runs

| Run | Configuration | Shows |
|---|---|---|
| `fd_cache` | 3 workers, 2 paths, 3 handles | the safety invariants of the cache, `SharesFiles` (refinement), `MutexReleased`, `QuietDrains` |
| `session` | 4 messages, files of 0, 2, 5, 7 units, buffer 3, header 1, 3 timer ids | the safety invariants and `SilentClientIsClosed` |
| `session_reuse` | 2 messages | **violated**: `EveryFileIsExact` |
| `session_keep_alive` | 1 message | **violated**: `KeepAliveIsHonoured` |
| `parser` | two messages, split anywhere | `GoodIsWholeRequest`, `WholeRequestIsAccepted`, `OnlyBodiesBlock` |
| `parser_returns` | as `parser` | **violated**: `ParseReturns` |
| `parser_pieces` | well-formed requests without body | **violated**: `RequestIsNoError` |
| `addr_cache` | 2 workers, 2 paths, 3 mappings, files of 6 and 3 units, of which the first shrinks to 1; buffer 3, header 1 | the safety invariants of the mapping cache, `SharesMappings` (refinement), `QuietUnmaps` |
| `request_lines` | all short lines, some lines in all pieces | what both parsers accept and store |
| `request_assert` | POST lines | **violated**: `QuestionIsThere` |
| `request_hex` | GET lines with `/ % 4 a F` in the URL | **violated**: `HexEscapesAreDecoded` |
| `cgi` | 3 exchanges, 6 descriptors, pipe and buffer of 2, bodies and pages up to 3 | answers, descriptors, `ExchangeEnds` |

What the properties say:

* `HeldHandlesOpen`, `LiveHandleIsCached`, `MapNeverNamesClosed`, `OpenIsOwned`:
  the four parts of the cache's correctness in section 1.  `QuietDrains` says
  that when threads stop asking for files all unused descriptors get closed.
* `ArmedIsRecorded`: `CloseConnection()` overwrites `keep_alive_timer_id_`; no
  sequence of messages and callbacks makes it overwrite an armed one.
  `NothingOutlivesSession`: after a disconnection nothing calls the session.
  `NoTimerDuringTransfer`: no timer shuts down a connection in the middle of a
  file.  `FreshFileIsExact`: the first large file on a connection arrives
  exactly, although later messages change the counters it uses.
* `SilentClientIsClosed`: after connecting, or after a file, a client that reads
  and says nothing is shut down in the end.
* `GoodIsWholeRequest`: what is accepted is one whole request, and the request
  object says what the message says.  `WholeRequestIsAccepted`: the converse.
  `OnlyBodiesBlock`: nothing but a short body keeps `Parse()` from returning.

* `ReadsAreMapped`: no order of the other threads' deleters unmaps what a raw pointer
  is about to read, also after the callback that owned it has been replaced.
  `ReadsFitUnlessChanged`: a session's own idea of the size, part by part, is within
  a mapping that another one made, *as long as the file has not changed*, and for the
  parts after the first *only if the offset was zero when the first was counted*.  The
  run has behaviours in which each of the two fails and the mapping is overrun: the
  file shrinks between two requests that share a mapping, or a connection carries a
  second file and the remainder wraps.  `MappedIsOwned`, `DescriptorsAreClosed`: no
  mapping and no descriptor is lost or given up twice on any path through `GetAddr()`.
  `SharesMappings`: the specification `FileSharing` of the descriptor cache holds of
  mappings, too.
* `RequestLineIsAccepted` and `AcceptedIsRequestLine` are the two halves of one
  equivalence for version 1, with `IsNearlyRequestLine` on the side where the code is
  more liberal.  The first is about lines in one piece, the second about lines in any
  pieces; it does not say which lines in pieces are accepted (section 4).
  `HeaderPiecesAgree`: the header does not depend on how it was cut.
* `UrlIsNormal`, `EscapesAreDecoded`, `QueryIsSplit`, `ArgsAreSplit`: what becomes of
  the URL.  That no two slashes follow each other, and what escapes are decoded to, is
  stated of paths in which only digits are digits (`OnlyDigits`): the code also takes
  some control characters for digits, and the run has lines with them (`ControlLines`).
  `EscapesAreDecoded` leaves out escapes with the letters a to f, about which
  `HexEscapesAreDecoded` says what the comments of the code do and is violated.
  `QueryIsSplit` says which URL and which query version 2 stores of a line that is no
  POST: the URL as sent if an escape in it is wrong; cut at the first `?` if the last
  segment has one; no query if there is no `?`.  Of a `?` in a directory alone it says
  nothing (section 4).
* `VersionsAgree`: two parsers written separately, one of characters and one of words,
  store the same method, and the same URL, but for the query, if version 2 finds it
  complex or version 1 does not.  Nothing is said of a URL that only version 1 finds
  complex, and there they store different ones: of `GET /%41` version 1 stores `/A` and
  version 2 `/%41`, of `GET /.` they store `/` and `/.`, because version 2 looks for
  dots and escapes in directories only.
* `AnswerIsExact`: through two pipes, two buffers and short reads and writes the
  client gets the answer of its own request.  `OnlyItsChildIsAwaited`: the reader's
  end-of-file depends on one child only, although children inherit the ends of
  earlier exchanges.  `DescriptorsAreAccounted`: an exchange leaves exactly two ends
  open, or four if `fork()` fails.  `ExchangeEnds`: no deadlock between a server that
  writes and a child that writes.

Bounds.  *Cache*: the races of the code need two generations of a path's handle
waiting for their deleters while a third is in use, which three workers give
(each worker deletes one handle at a time), and two paths show that the entries
are independent.  Three handles are just these three; the proofs cover
every number of workers, paths and handles.  *Session*: the sizes give files of one
part (exactly full and not), two and three parts, and empty ones; four messages
let a response be interrupted by another, twice, with a stale callback in
between.  `MaxOffset` only bounds how far a read past a mapping goes, and
`MaxMessages` only how often a client speaks.  Again the proofs cover every
value.  *Parser*: a message after the first shows what happens at the border of
two requests; longer streams only repeat it, since the state between messages is
the buffer alone.  *Mapping cache*: with two workers one mapping
of a path waits for its deleter while the next one is read; two files of different sizes,
so that the size of one request may be taken for another's.  The larger one takes a
first, a middle and a last part, and shrinks, so that a session may expect more or less
than is mapped.  `MaxOffset` bounds how often a session is asked again: 4 lets a response
be counted from an offset that leaves less of its file than there is, or that is past
its end, where the remainder wraps; `WordSize` only has to be larger than what is counted.  The proofs
cover every number.  *Lines*: each part of a line varies over
all short strings of the characters its code tells apart, and five or six characters of
a URL hold every pair and triple of segments, an escape after anything, a query before
and after either; pieces and header fields are varied on a few lines, since the phases
share nothing but `parsed_pos_`.  *CGI*: bodies and pages longer than pipe and buffer make
both sides wait; six descriptors are enough for two exchanges with a successful fork
and not for a third, so that `PipeThrows` happens.

Fairness.  *Cache*: weak fairness of each thread's own steps, because a thread
that is not blocked runs; taking the mutex is only weakly fair, since
`std::mutex` promises no order, and `CallGetFd` and `ReplaceCallback` (a request
arrives, a transfer ends) are not fair at all.  `MutexReleased` therefore does not
assume that anybody gets the mutex, and `QuietDrains` speaks of times when no
thread competes for it in `GetFd()`.  *Session*: the loop runs due timers and, for
a client that reads, write-complete callbacks; nothing makes the client send or
disconnect.  *Parser*: only the thread in `Parse()`.  *Mapping cache*: as the cache.
*CGI*: each process that can go on does, since the kernel schedules it; nothing makes
a request come.

A run that stops is allowed (`CHECK_DEADLOCK FALSE`) where the system may stop: a
connection that is down, a client that has sent all, a server whose exception nobody
catches.  The runs of both caches check deadlock.

## 4. Findings

Six places where the program does not do what its documents and assertions say;
each is a run whose counterexample shows it.

* `EveryFileIsExact`: `ServeFile()` adds to `cache_filesize_` and nothing resets
  it.  The second file on a connection that has carried one of several parts is
  read from the old offset.  With `mmap()` the unsigned remainder can wrap.
* `KeepAliveIsHonoured`: the write-complete callback reads `is_keep_alive` of a
  request that was a local variable of `OnMessage()`.
* `ParseReturns`: a body that is not all in the buffer keeps `Parse()` in its loop.
* `RequestIsNoError`: the parser is constructed anew for each message, so a
  request whose header arrives in two pieces is answered with an error.
* `QuestionIsThere`: `ParseComplexUrl()` of version 2 asserts that a URL it splits has a
  `?`; a POST is never static, and `POST //` is complex without one.
* `HexEscapesAreDecoded`: the comment lists `% Hex Hex` among the cases that
  `ParseComplexUrl()` handles (`http2/http_parser.cc:229`), but after bringing a letter to
  lower case (354) the code asks `isdigit()` again, so `%4a` is an error.

Four more disagreements with comments of the code.  No run has a property of its own for
them; the properties around them are stated so that they claim neither reading.

* A request line of version 1 survives being cut only inside the method: the state it
  has reached is not stored, so a line in two pieces is refused if it is cut further on.
  `http_request_parser.h` has a result for a "short red" (17) and a member for the state
  (`state_`, 154-158).  `AcceptedIsRequestLine` only says that such a line is never taken
  for another.
* Once a request is complete the parser of version 1 answers every later message with
  the first request.  The comment there says `// Reset` (`http_request_parser.cc:139`),
  and nothing is reset (`Complete`).
* `GET /a?/` and `GET /?a/` keep their `?` in the URL, because version 2 looks for a query
  in the last segment only (`http2/http_parser.cc:160`); the comment at 228 lists
  `/?query_string`.
* An error that `ParseComplexUrl()` finds is dropped by `ParseHeaderLine()` (217): version 2
  serves the URL as it was sent, version 1 the part that was decoded before the error.

What else the models say of the code, where no document promises otherwise:

* The test for a digit of an escape sets a bit first, so that the control characters 16
  to 25 count as digits, with values below zero; an escape of two digits may stand for a
  slash, which is stored next to another one.
* An escape that the end of the URL cuts short is dropped; a character decoded right
  after a slash may cost that slash's segment.
* The colon of a header line of version 1 is looked for in all that has arrived.
* Both versions disagree on `GET /%41` and `GET /.` (`VersionsAgree` above).
* `HTTP/0.101` and `HTTP/1.` are versions to version 2, which adds up what is there.
* An exchange with a CGI program costs two descriptors and a zombie, as nothing waits
  for the child.

The properties that hold are stated so that they do not hide these: `FreshFileIsExact`
is restricted to a counter of zero, and so is `ReadsFitUnlessChanged` after the first
part; `OnlyBodiesBlock` names the phase that blocks; `EscapesAreDecoded` leaves out the
escapes of `HexEscapesAreDecoded`.

## 5. Proofs

TLAPS checks, for every value of the constants:

* **Cache** (`FdCacheProofs`; assumption `DistinctConstants`: the null values are
  not handles, paths or workers): `TypeCorrect`, `HeldHandlesStayOpen`,
  `LiveHandlesAreCached`, `NoStaleEntry`, `OneDeleter`, and `ImplementsSharing`.
* **Mapping cache** (`AddrCacheProofs`; assumptions `DistinctConstants`, and
  `SizesAssumption`: every file has a size, the header fits the buffer, and sizes fit the
  word): `TypeCorrect`, `ReadsStayMapped`, `ReadsFit`,
  `OneDeleter`, `NoDescriptorIsLeft`, and `ImplementsSharing`.
* **CGI** (`CgiExchangeProofs`; assumption `ConstantsAssumption`: bounds are numbers, pipe
  and buffer hold something): `TypeCorrect`, `NobodyElseIsAwaited`, `CostIsAccounted`,
  `AnswersAreExact`.
* **Session** (`HttpSessionProofs`; assumptions `SizesAssumption`: the header fits
  the buffer and sizes fit the word, and `TimersAssumption`): `TypeCorrect`,
  `ArmedIsAlwaysRecorded`, `SessionIsLast`, `FilesAreNotInterrupted`,
  `FreshFilesAreExact`.
* **Parser of version 2** (`HttpParserProofs`; `StreamsAssumption`): `TypeCorrect`,
  `GoodIsRequest`, `RequestIsGood`, `TurnsGetOn`.
* **Parser of version 1 and header lines** (`RequestLinesProofs`; `InputsAssumption`):
  `TypeCorrect`, `PiecesAgree`, `QueryIsAlwaysSplit`,
  `ArgsAreAlwaysSplit`, `EscapesAreAlwaysDecoded`.
* **Request lines** (`RequestGrammarProofs`; `InputsAssumption`):
  `AcceptedIsAlwaysRequestLine`, `UrlIsAlwaysNormal`, `RequestLineIsAlwaysAccepted`,
  `VersionsAlwaysAgree`.
* **URLs, escapes, queries of any length** (`HeaderLineProofs`; no assumption):
  `PlainIsResolved`, `RunIsNormal`, `EscapesDecoded`, `QueryArgs`.

The argument for the cache.  None of the invariants is inductive.  That a live
handle stays in the map depends on the deleter's test of the entry *and* on what
the tested entry can be; that a deleter closes only its own descriptor depends on
nobody taking a new reference to a doomed handle.  `Inductive` adds:
`MutexHeld` (the holder of the mutex is the one worker in a critical section),
`Places` (what a place in the code says of a worker's variables), `StillExpired` (an
entry found expired stays so while the finder holds the mutex, since only it could
take a reference), `DoomedAlone` (a handle with a deleter is open, unreferenced,
and no other worker's), `Unnamed` (between `Erase` and `CloseFd` the map
does not name the doomed handle), `FileOfOpen` and `OpenHasOwner`.  Each action
preserves it by one lemma.  The refinement uses it to show that a handle found in
the map is one somebody uses (so `Find` is `Share`), that `Open` finds no user of
the path (so it is `OpenFresh`), and that `CloseFd` closes a handle nobody uses.

The argument for the mapping cache has the same shape (`Sharers`), with two differences.
A reader may hold only a raw pointer: `BesideReference` says that whoever is about to
read has a reference to the same mapping in a variable of its own.  And a length that
was mapped is compared with a length that was asked for: `WholeMappings` (what is in use
is mapped as far as its deleter will unmap), `MappedSizes` and `KnownSizes` (both are the
file's size, as long as it has not changed and no error has shut the connection) meet
in `ReadsFit`.  Between them is `Offsets`: what is read ends within the size the session
expects, because the offset of a transfer that began with zero is less than that size as
long as its callback is installed, and so the unsigned remainder is the true one.

The argument for CGI.  That the loop waits for the newest child alone is a
statement about all earlier exchanges, so the invariant follows the pipe ends through all
of them: `Newest` (what the place in the loop says of the newest child), `OlderEnds` (no
process has an end of an exchange later than its own, since it copied what the server
had before there was one), `ServerHolds` (exactly which ends the server has at every
place).  The writing end of the newest output is in no earlier child by `OlderEnds`, in
no later one by `Newest`, and not in the server by `ServerHolds`.

The argument for the session.  `CloseConnection()` arms a timer and overwrites the
id of the last one without a look at it.  That is safe because it runs only when
output has just been emptied, output waits only after a message, and a message
cancels both timers: `Quiet` says that while output waits no timer is armed.  From
`ArmedIsRecorded` a message leaves nothing armed, from `Quiet` a callback finds
nothing armed, and each maintains the other.  For the file, `Progress` says that while a
fresh response is being sent the callback's size, `cur_filesize_` and the response
agree and exactly the bytes before `cache_filesize_` have been sent.
`BytesJoin` says that a part continues what was sent, and `SmallRemainder` that the
unsigned remainder is exact as long as the offset is within the file.

The argument for CGI answers follows the bytes of the newest exchange.  `Flow` has two
equations: what the program has read, what is in its input pipe and what the server has
still to write make up the body; what the client has been sent, what the server has
buffered, what is in the output pipe and what the program has still to write make up
the answer.  Every step moves a part from the front of one of these sequences to the end
of the next.  That the equations speak of the right pipes is the first
invariant; that the server meets the end of the output pipe only when nothing
is left is `Sound`: a child keeps its writing end until it has written all and exited.

The argument for the parser of version 2.  The invariant (`Inductive`) follows what a
call has consumed: in every phase it is exactly so much of a request, and the members of
the request object are read off it.  So what has been accepted is a request
(`GoodIsRequest`).  The converse needs that a message can be a request in one way only:
`OneHead` says that no proper beginning of a head is a head, and `NextLineIsGood` that a
call which has consumed part of a head finds the next line of the same head.
`TurnsGetOn`, the safety core of `OnlyBodiesBlock`, says that every turn returns or makes
the buffer shorter, unless the body is short.

The argument for lines and URLs has three layers.

* *Folds.*  The loops are folds, and the community module's `FoldLeft` is defined by
  `CHOOSE` of a table over sets of positions.  `FoldTable` shows that the table exists,
  so the fold of `Append(s, x)` is one more turn on the fold of `s` (`FoldLaws`).
  Induction over sequences is a lemma (`SequenceInduction`) in which a *set* takes the
  place of the predicate, and induction over positions likewise (`Induction`); both
  come from the well-foundedness of the numbers.
* *Characters.*  The state of the machine is the state of the last segment, and its URL is
  the resolved beginning: by induction over the URL (`PlainIsResolved`).  A query mark
  that was met stays (`QuestionStays`), so the `?` that a GET is cut at is there, and
  one of the last segment is one of the URL (`LastSegmentIsPart`).  For
  escapes `Follows` relates the machine to the parts that percent signs separate, and
  every character keeps the relation.  `SplitCuts` says that parts joined again are the
  text, `FirstPairCounts` that of equal names the first one counts.
* *Lines and steps.*  `IsHeaderLine` and the lemmas before it give the words of a line by
  the positions of its spaces.  For version 1, `NextIs` and `TurnType` say what a turn of
  the loop does to the members, and `ParseTurns` that a call is so many turns: positions
  never pass the text, and a URL has begun before it ends.  `Fields` is the invariant of
  the header phase: the lines that have been parsed, wherever the messages ended, have
  given the fields that they would give at once.

The argument for request lines.  What version 1 accepts is defined by words, and the
parser looks at characters; neither half of the equivalence is inductive.

* *What is accepted is a request line.*  `Shape` says, for each state of the machine, what
  the text is that has been read when it is in it: how many words, what the first one
  is, how far the second is a scheme, a host or a path, which members point where.  The
  words of a text that grows by a character are known (`WordsIs`, `WordStarts`), so every
  turn of the loop keeps the shape (`ShapeTurns` and one lemma per group of states
  before it), and the shape of `kDone` is `IsNearlyRequestLine`.  `QuietRuns` adds that a
  path which was not found complex is what the machine of the URL would make of it.
* *However it is cut.*  A call starts in `kStart` again, so a shape is relative to the
  position `p` where the call began, and the word that is under way there is only known
  to be letters.  `Come` says what a call has come to: a shape, or an error, which the
  call does not leave.  `Judged` is the invariant of all calls: once a line has been
  accepted, the members are those of that line.
* *A request line is accepted.*  `AtPlace` says that the text read so far is the front of
  a request line, with the character that follows; for each state the definition by words
  says what that character can be (`UrlPlace`, `VersionGoes` and the lemmas around
  them), and the machine goes on with it.  So a call reads to the line end (`RequestIsRead`).
  `AtOnce` is the invariant: with one message there is one call, from the beginning.
* *Both versions agree.*  The members of version 1 are the words of the line by the two
  halves, and version 2 looks for the words itself (`ThreeAre`, `GoodLine`).  A version of
  one or two digits is 1.0 or 1.1 exactly if the sum that version 2 makes of it is 100 or
  101 (`VersionAgrees`); a path in which version 1 found nothing complex is not complex to
  version 2 (`QuietIsSimple`), and then the URL is the path itself.

Only model-checked, and why:

* the liveness properties (`MutexReleased`, `QuietDrains`, `SilentClientIsClosed`,
  `OnlyBodiesBlock`, `QuietUnmaps`, `ExchangeEnds`), which need fairness and ENABLED and
  are out of the prover's reach;
* that the places, bounds and inputs of the runs are reached at all: the theorems say
  what holds in every state, the runs that there are such states.

## 6. Plan

What is left, in this order:

1. A composition of sessions with `FdCache`: the reference a callback holds follows
   the session's callback, so that teardown releases the descriptor.
2. The static files of version 1 (`ServeFile()`, `SendFile()`): the pattern of
   `HttpSession` with one file per transfer.

## 7. Not modelled

* Responses, logging, MIME types, error pages: formatting of text from tables, which
  leaves no state behind.
* The command line (`takina`), `main`'s options, the configuration file: sequential code
  that runs once, before there is anything to interleave with.
* The file reader: a wrapper of `fread()` and `fgets()` for one caller.
* Plugins: the lifetimes of loader, library and generator lie within one call on one
  thread; `OnDynamic` has what a plugin does to the connection.
* Version 1's static files and its check of the Host field: see section 6.
* The kanon library: not part of the repository; its assumptions are in section 2.
* What a plugin or a CGI program computes, beyond the order in which the program of
  `src/cgi` reads and writes.
