# nntpbench in TLA+

Formal models of nntpbench, the NNTP load generator, typed client and fixture
server of this repository: TLA+ modules translated from the Rust sources, TLC
configurations that check them on small instances, and proofs, checked by
TLAPS, of results that hold for every instance. `PROJECT.json` is the index:
components, runs, mutants, the map from definitions to source lines, hazards and
theorems. Sources are named below relative to the crate's `src/` (`client.rs`).

## The system

| part | source | modules |
| --- | --- | --- |
| request kinds, their coordination and the statuses that answer them | `protocol.rs`, `client.rs` | `CommandCoordination` |
| typed client: callers, writer task, reader task | `client.rs` | `ClientConnection`, `OrderedExchange` |
| pipeline gate | `client.rs` | `PipelineGate`, `IdleWait` |
| client writes | `client.rs` | `RequestWriter` |
| terminators, multiline framing | `terminator.rs`, `terminator/vector_scanner.rs` | `Terminator`, `VectorScanner` |
| response receiver | `protocol/response_receiver.rs` | `ResponseInitial`, `ResponseReceiver` |
| requests as text | `protocol.rs`, `lib.rs` | `RequestForms`, `RequestLine`, `CommandLine` |
| responses as text | `protocol.rs` | `ResponseRules` |
| articles as text | `protocol/article.rs`, `lib.rs` | `ArticleText` |
| scripted sessions and the one-shot client | `lib.rs` | `RequestLine`, `SessionScript`, `OneShotFetch` |
| load mode | `lib.rs` | `LoadRun`, `LoadReader`, `OfferedLoad`, `LatencyHistogram`, `LoadPlan` |
| server: accept loop, limit, statistics | `lib.rs` | `ServerAccept` |
| server: reading commands, writing responses | `lib.rs` | `CommandStream`, `ResponseWriter` |
| server: commands, selection, tables, store | `lib.rs`, `article_store.rs` | `ServerSession`, `ArticleCursor`, `Selectors`, `ArticleIndex` |
| server: wildmats, dates, generated sizes | `lib.rs` | `Wildmat`, `NewsDates`, `PayloadSizing` |

A typed client is one TCP connection shared by any number of callers.

    caller --queue--> writer --wire--> peer --frames--> reader --> caller
                         \------------chan------------>/

A caller locks the *send barrier*, checks that the connection is not closed and
that the server's capabilities are known if its command needs them, and queues a
request. The *writer* takes a batch from the queue, writes it, counts each command
on the *pipeline gate* and passes it to the *reader*, which pairs the next response
with it by position. Some commands are exclusive (nothing else may be outstanding);
some carry the barrier with them until they are answered (nothing may follow);
POST and IHAVE with an article make the writer pause until the reader has seen 340
or 335. Any failure ends both tasks and answers everything they own.

Load mode runs one session per connection, each with a window of pipelined requests,
under a shared stop flag, byte limit and statistics. The server accepts connections up
to a limit; a session reads a batch of commands, answers each from generated payloads,
fixed tables, article files or an index, and writes the answers through pooled buffers.

## Modules

### The client

`CommandCoordination` holds the request kinds and, as sets, what
`RequestKind::coordination`, the capability rules of `client.rs` and
`ResponseDescriptor` say of each.

`ClientConnection` is the connection. Its variables are the objects of the code:

| variables | code |
| --- | --- |
| `pc`, `want`, `slot` | where a caller's future is, its call, the request it awaits |
| `barrier`, `probe` | holder of `send_barrier` (a caller, or a request that took the guard along) and of `capabilities_probe` |
| `caps`, `closed`, `poisoned` | `capability_list` (0 for `None`, else the version of the list), `PipelineGate.closed`, the stored error |
| `req` | every request ever queued, with its reply one-shot (`reply`) and the continuation one-shot (`proceed`) |
| `queue`, `chan` | the request channel and the in-flight channel |
| `inflight`, `abort` | `PipelineGate.inflight`, `writer_abort` |
| `wpc`, `batch`, `sendq`, `held`, `cont` | `run_writer_task`: step, commands not yet written, written and not yet published, the command held for the next batch, the article being waited for |
| `rpc`, `cur`, `resp` | `run_reader_task`: step, request being served, its response |
| `wire`, `frames`, `wants`, `open`, `epoch` | the sockets and the peer (external) |
| `written`, `done` | history used by properties |

There is one action per step between two touches of shared state, so that the
tasks interleave as on a multi-threaded runtime. Two atomic steps deserve a word.
`EnqueueLocked` takes the barrier and reads `closed` and the capability list in one
step: `closed` is set, and the list is cleared, only for commands that hold the
barrier, so neither can change once the barrier is taken. `WriterPoison` drains the
queue and `WriterReturn` closes it in two steps, because a caller may get a request
in between; its one-shot is then dropped with the channel. A caller may be cancelled
at every await (`Cancel`), and the connection dropped once no caller is left.

A response is one frame with a status; responses that do not frame or do not
validate for their command are the status `bad`. The frame carries the name of the
command it answers and the version of the peer's capability list, which only
properties read. The peer answers in order, treats anything it receives while it
waits for an article as text, and may close at any time.

`OrderedExchange` is what the connection promises its callers: requests answered in
the order of submission, each once and with its own response; after a failure nothing
submitted later is answered. `ClientConnection` instantiates it (`Exchange`).

`PipelineGate` takes apart the wait that `ClientConnection` makes in one step:
`wait_until_idle` creates and enables a `Notified`, loads the counter and awaits,
while `end_inflight` subtracts and then notifies. Notify is external: `permit` is its
stored notification, `future` the writer's waiter. `IdleWait` is the one-step wait,
and `PipelineGate` instantiates it with `waiting` being every step of the loop.

`RequestWriter` puts a batch on a socket that takes any part of what it is given: one
request as groups of slices through `write_all_vectored`, several through one buffer,
TAKETHIS with its article line by line.

### Responses from bytes

`Terminator` holds the pure operators of `terminator.rs` over sequences of bytes: line ends,
the search of a whole block, and `MultilineFramer::push` with its empty terminator detector
and its four-byte tail. Offsets are exclusive ends as in the code; 0, which the code never
returns, is `None`. The run's own module, `MCResponseFraming`, feeds a framer a text in
chunks. `VectorScanner` is the block-wise search of the ARM64 and AVX builds, where a filter
may pass blocks without a terminator and must pass those with one; a byte is its set of bits
so that the filter's OR is union. `find_repeat` is in the source and modelled, though no
target compiles it at present.

`ResponseInitial` decides from the status line where a response ends.
`ResponseReceiver` is `BufferedResponseReceiver`: `receive` starts, extracts from what is
pending, reads more, and ends with a frame, an error or by being dropped. A status code
is one byte whose meaning depends on the request, and one byte, `!`, stands for anything
validation refuses. `WholeBounds` and `ParseFrame`, the reference, are
`ResponseFrame::parse`, which sees all bytes at once. `LoadReader` is the load session's
own reader: one buffer for all responses, compacted and grown, frames counted and not
kept, the Message-ID of the status line compared, sizes bounded.

### Text

Text is abstracted to what the grammars tell apart. `RequestForms` has the words: a word
is its letters without case, the shape of its characters (`dotted`, `num`, `id`, `span`,
...; the module lists them), its length and its case; validators are sets of shapes. It
also has `Request`, the commands a client can build, their wire lines and accessors.
`RequestLine` is `RequestLine::parse` with `parse_command_line` and the argument helpers
of the server's handlers, and `parse_session_line`, the other reading of a line.
`CommandLine` joins client and server: `Build` writes a request, `Type` and `AddBlank`
make any other line (external), `Receive` parses.

`SessionScript` reads a script, parses all of it, connects and runs it, over a connection
given by its answers. `OneShotFetch` is `validate_fetch_args` and `prepare_fetch`.

`ResponseRules` validates a response in the two ways the client does: whole
(`ResponseFrame::parse`) and in stages (status line, then the framed block).
`ArticleText` reads a 220 to 223 response by the framed and the compatibility parser,
cuts HEAD and BODY from a stored article, and encodes an article for transfer.
`NewsDates` counts days as people do and compares the closed formulas of the server
with that calendar; `Wildmat` matches group lists; `PayloadSizing` has the lengths of
generated responses, prebuilt and assembled.

### Load mode

`LoadRun` is `run_load` and its sessions. A step is what a session does between two
accesses of shared state (stop flag, byte counter, statistics). A timeout may fire
wherever the code waits for something that is not there. `OfferedLoad` is one session
with `--offered-rate` against a clock: sleep to the deadline, issue a batch, read in
order, record. `LatencyHistogram` records, merges and asks for percentiles. `LoadPlan`
is how processes side by side share a workload: argument checks, segment file, quotas,
requests by index, endpoints and the identity of the workload.

### The server

`ServerAccept` is `run_server`: accept loop, permits, session tasks, the reporter, each
`fetch_add`, load and permit a step. `CommandStream` is `read_command_batch` over bytes
split anywhere: first line, buffered further lines, article bodies with the
`TakeThisBodyState` automaton; a verb is one byte. `ResponseWriter` is `PendingWrite`,
the vectored write behind it, file copies in chunks and both buffer pools, with a peer
that takes any number of bytes or fails.

`ServerSession` is `handle_command` for every kind of request: `SessionState` (selected
group and current article), the backends, and the auxiliary buffer of indexed answers.
It also has `process_request_to_buffer`, the same server without a session
(`BufferFrame`). `Selectors` has selectors, ranges and fixed tables, and the index;
`ArticleIndex` builds the index from the files in any order. `ArticleCursor` is the
abstract session: a cursor that only moves inside the selected group.

The MC modules give TLC its instances. `MCProgress`, `MCResponseFraming`,
`MCServerTasks`, `MCServerSession`, `MCLoad`, `MCRequestText` and `MCResponseText` each
hold several components that do not interact: a variable `part`, constant in every
behaviour, says which one the behaviour is about, and the variables of the others do not
change. Their properties are the components' properties, each for its own part.

## Runs

| run | states | parts and instance | shows |
| --- | --- | --- | --- |
| `client_transfer` | 3.0 M | DATE, POST with article and bare | responses match callers, exclusive commands alone, articles only where awaited, gate exact, no request stranded |
| `client_capabilities` | 4.9 M | OVER, MODE READER, CAPABILITIES | no command sent with a capability list from before a change |
| `client_auth` | 3.2 M | AUTHINFO USER, HDR, large TAKETHIS | with authentication and a command the writer holds, the connection implements `OrderedExchange` |
| `client_liveness` | 0.2 M | DATE, POST with article, QUIT, two calls | nothing follows a barrier command or QUIT; every call returns |
| `progress` | 43 k | gate (6 commands), load (3 requests on 2 connections), writer, stream, accept (1 slot, 3 peers) | no lost wake-up, the gate's wait implements `IdleWait`; runs return, batches and waiting clients are answered, slots come back |
| `response_framing` | 0.6 M | framer, receiver, load reader, scanner | all four agree with the definition of a response under every split |
| `server_session` | 10 k | commands over six files and the built-in groups; index builds | the selection is a cursor, rows come from the right articles, one answer each, the client accepts it, the order of the directory does not matter |
| `server_tasks` | 2.4 M | stream, writer (2 sessions), accept (limit 2, 3 peers), report | splits decide nothing, bytes leave in order through clean pools, limit and counters are exact |
| `load` | 0.5 M | quota, transfer, offer, histogram, plan | what a run reports is what it did; shares cover the workload |
| `request_text` | 1.3 M | line, typed, alone, script, fetch, write | a request means the same in every form and survives partial writes |
| `response_text` | 1.3 M | responses, article, stored, transfer, dates, wildmats, sizes | the two validations and the two article parsers agree; dates, wildmats and sizes match their reference |
| `range_rows` | | as `server_session` | expected violation, see Findings |

Each property has a mutant: a changed form of the definition that upholds it, kept beside
it (`Forgetful_ReadBody` before `ReadBody`), under which TLC must find it violated.

### Bounds

Client: two callers, three calls (two in the liveness run), channel depth 1, batches of
2. Two callers suffice for each hazard, which needs one command in progress and one that
arrives at the wrong time; three calls give a third command behind both. Depth 1 and
batch 2 make every channel fill up, the batch limit bind and a command be held. A call
that negotiates is two requests. With a wire and a frame buffer of one or two, the peer
answers commands while the batch that holds them is still being written. The public
methods `post` and `ihave` send the command alone and return its first response
(`client.rs:1382`); `client_transfer` has such a bare POST beside the one with its article.

Framing: all texts of up to seven bytes over CR, LF, dot and another byte, which hold a
terminator (five) with a carried prefix of the empty terminator or near misses on either
side. The receiver and the load reader get streams of one to three responses that combine
status lines at, below and above the limits, bare line feeds and invalid ones with empty,
ordinary, dot-led and unterminated content; the load reader's buffer is four bytes, so that
it compacts and grows. Scanners have lanes of four, two to a block; a terminator is at each
of seven places between bytes that collide under the filter's OR.

Server: a line limit of four bytes, a read buffer of eight and batches of two make lines
overflow, articles straddle reads and batches fill. The pending buffer is two bytes and a
pool keeps one buffer, so every response is at or beyond a limit and sessions compete for the
buffer. Three peers and two slots refuse one. The reporter takes two snapshots, in a part
of its own, while a session publishes. The store has two groups that share an article, a
file that is not at the path of its number, one that does not parse and one known by
message-id only.

Load: seven requests over two sessions with a window of two, ids that wrap within the
run, a peer that lies, closes or refuses; a byte limit of seven with a window of three,
and two of four clients. Offered load runs 40 ticks with responses faster and slower
than interval and timeout. Histograms get up to four samples inside, between and beyond
their bins.

Text: every request kind with arguments of every shape, lines of up to three words,
one added blank; scripts of three lines, and every line alone; three options at a time.
Responses have up to three rows (nine for LIST OVERVIEW.FMT, which has seven required
ones) and numbers up to 4. Articles have up to four arbitrary pieces, stored ones five
lines, transfers six bytes. Dates cover 1968-1973, 1999-2033 and the turn of each of
four centuries.

### Deadlock and fairness

Deadlock is checked where a stuck state would be a fault: the client, the load run, the
server's stream and accept loop and the gate. Readers and parsers simply end when their
text, script or command is used up (`CHECK_DEADLOCK FALSE` in `response_framing`,
`server_session`, `request_text`, `response_text`); in the others a step `MayEnd` lets only
the named parts end, when their bound on samples or responses is reached.

`client_liveness`: the writer, the reader and the peer go on while they can; a caller
whose send or reply is ready proceeds. Lock acquisition is strongly fair, because
tokio's mutex queues its waiters. Nothing is assumed of starting calls, cancelling, or of
the peer closing. The batch fits in the two socket buffers; the writer publishes a batch
to the reader only after all of it is written, so a peer that stopped reading with a
larger batch outstanding could stop the connection for good. The run's POST comes with
its article: after 340 to a bare one the peer waits for a text that nobody sends, and takes
the commands that follow for it.

`progress`: a task that can run is polled (weak fairness of its steps). At the gate these
are the steps of the wait and the notification that follows a subtraction; responses may
never come. A load session's timeouts are steps of its own, so that a silent peer does not
hold it. The server's peer takes bytes; a client with input left sends it; peers of a full
server hang up.

`ExclusiveAlone` and the other properties on what is written stop at the abort of
the writer: once a response has failed, what is still on the wire is no longer
answered. For `ExclusiveAlone` the promise ends one step earlier, because the reader
lowers the gate before it aborts.

## Proofs

The theorems hold for every value of the constants. All of them rest on inductive
invariants that TLC checked before they were proved.

### The client

The constants of `ClientConnection` have named assumptions: sizes are positive, a lock
holder is not confused with a request number, an article is handed over only with POST and
IHAVE, and only a TAKETHIS is large. The proofs are three modules, each on top of the one
before.

`ClientConnectionProofs`: types, buffers and the gate, and the order of the requests and
the barrier.

- `TypeCorrect` (`TypeOK`): `inflight`, unsigned in the code, never goes below zero.
- `GateIsExact` (`GateExact`): until the writer is aborted, the gate equals the in-flight
  channel plus the command being published plus the one being served.
- `NoRequestStranded` (`NoStrandedRequest`): a request without an answer is always in a
  channel or with a live task.
- `NothingBehindTheBarrier` (`NoFollow`).
- `ExclusiveRunsAlone` (`ExclusiveAlone`).

The invariant of the first three is `IInv`: the types, `WriterShape` and `ReaderShape`
(which buffers are non-empty where a task looks at their head, where the writer's batch is
empty, which error a failing task carries), `GateShape` (while the reader is alive and not
failing, nothing has aborted it) and `GateExact`. `TypeOK` alone is not inductive: a
subtraction keeps `inflight` a natural number only because the gate is at least one wherever
it is lowered, which is what `GateExact` and `GateShape` give, also after an abort, when the
gate may exceed the count. `NoStrandedRequest` is inductive relative to `IInv`: a step moves
a request between two owners (`MoveKeeps`) or answers exactly the ones it lets go
(`AnswerKeeps`).

The idea of the other two is that reader, in-flight channel, published and unpublished part
of the batch, held command and request channel together hold the numbers `done + 1`, `done +
2`, ... without a gap (`OrderInv`). `ClientInv` adds what each place may hold (a command
that is not served has no reply, a batch with an exclusive command has no other).
`BarrierInv` says who holds the barrier: a caller that is sending, or the last request until
it is answered; after 205 to QUIT the connection is closed and nobody is sending. `NoFollow`
follows from the numbering and the holder being last; `ExclusiveAlone` from the gate, which
is zero before an exclusive command is written, and from the batch behind it being empty.

`ClientPeerProofs`: the sockets and what the callers get.

- `ResponsesMatch` (`ResponseMatch`).
- `ConnectionIsOrderedExchange` (`AnswersInOrder`): the refinement of `OrderedExchange`,
  action by action: a send is a submission, a reply answers the oldest open request, and
  a failure, poisoning or abort fails a set of open requests.

Responses carry no name, so `PeerInv` follows them: the wire holds the last commands
written, or one article ahead of them; the frames hold the responses that follow the one
being served; between the two nothing is missing, except for the command whose article is
awaited; a response that asks for an article is the last frame, and peer, reader and
writer wait for the same one. `Replies` then says that exactly the requests up to `done`
have a response, each its own.

`ClientViewProofs`: what the client believes of its peer.

- `ArticleIsAwaited` (`ArticlePause`).
- `CapabilitiesAreFresh` (`CapsFresh`).

`Pause` and `CapsInv` are inductive relative to the invariants above. A peer that waits for
an article the writer has finds nothing else on the wire. After 340 or 335 to a bare POST or
IHAVE nobody has an article to send: commands may follow, and `ArticlePause` says only that
none of them is an article. A request that needs the list and is queued, in the batch or on
the wire was sent with the current list, because who can change the list holds the barrier
until the list is cleared.

`PipelineGate` proves its own properties, for any number of commands in flight:

- `WakeupNeverLost` (`NoLostWakeup`): a writer that sleeps while nothing is in flight has
  a notification there or on its way.
- `WaitRefines`: every step is a step or a stutter of `IdleWait`.

Their inductive invariant is `TypeOK /\ NoLostWakeup`, with no further strengthening:
each step that brings the counter to zero leaves its notification outstanding, and
each step that consumes a notification goes back to reading the counter. The bounds of the
counter are guards of this module; that the code keeps them is `GateIsExact` above.

### The server

`ServerSessionProofs`, for every article directory, every set of commands and any limit on
batches. A directory is a finite set of files of which no two indexed ones carry the same
number (`DiskAssumption`; directories where some do are `ArticleIndex`'s, and only
model-checked); commands have the arguments their parser lets through (`CommandsAssumption`).

- `SessionIsCursor` (`IsCursor`): the refinement of `ArticleCursor`, and that refused
  commands keep the selection and NEXT and LAST go to the neighbouring article.
- `CommandsAreAnswered` (`OneAnswerEach`): one answer for each command but the lists of an
  index, batched or not, and the one that `process_request_to_buffer` gives.
- `AnswersNameTheirArticles` (`AnswersNameArticles`): numbers, message-ids and the rows of
  indexed groups.

All rest on `SessionInv` (`SelectionIsSound`): a selected group exists, the current article
is one of its articles or none, and a session has an index only over a directory. `Turn`
states once what a handler may do to the session, and each handler's result is shown to be a
`Turn`. For the rows, `Listed` shows that `InOrder` lists exactly the numbers of a finite
set, in order, and the row of an article is found by its number; for the answers, every
handler's result is shown to hold one frame (`OneReply`).

`ResponseWriterProofs`: `ResponsesAreWrittenExactly` is `WritesExact` of `ResponseWriter`,
assuming only that sizes are natural numbers (`SizesAreNumbers`). Every sequence that holds
bytes of a session holds consecutive ones: the wire from the first byte on, the pending
buffer or the write in progress from where the wire ends, what is held back from where the
write ends (`Placed`). `Counted` says how far `bytes_sent` is behind in each kind of write,
and `Bounded` why the pending buffer never outgrows its capacity. A step joins two runs or
cuts one (`RunJoins`, `RunSplits`), and no other session's bytes move.

`ServerAcceptProofs`, for finitely many sessions and any limit and counters
(`ServerParameters`):

- `LimitHolds`: `ActiveBound` of `ServerAccept`.
- `CountsAreExact`: `CountsExact /\ SnapshotsGrow`; a failed session is counted as an error
  once and an offered connection as accepted or refused once, and the reporter, which loads
  the counters one by one while they grow, never sees one fall.

The invariant counts: permits, live sessions and the connection being set up add up to the
limit (`PermitsExact`); the active counter is the number of sessions between their two
updates of it (`ActiveExact`), which are alive; the reporter is behind every counter
(`SeenBefore`). Each task step moves one session in or out of the sets counted (`TaskStep`).

### Load mode

`LoadRun` proves `LoadAccountsExactly`, four of the properties that `RunAccounts` checks,
for what `LoadConfig::from_args` lets through (`LoadParameters`: at least one client in
total and a window of at least one request):

- `WindowExact`: `in_flight` is what was written and not answered, and within the window;
- `MismatchIsReal`: a session fails verification only if the peer answered wrongly;
- `QuotaFilled`: a run that reports, was not stopped and had no timeout has completed the
  quota of every session;
- `OutcomesExplained`: only a timeout leaves requests incomplete, only a stop drains.

The invariant has a part for each session (`SInv`): the requests and responses on its
connection are those that follow the last one read, in order (`Window`, `InOrder`), and it
ends without a timeout only when the quota is issued, or after a stop, or past the byte
limit (`Ending`). Shared state ties the sessions together: past the byte limit the stop
flag is set, or the session that will set it is about to (`LimitStops`), so that a run in
which all sessions have ended and nobody was told to stop cannot have met the limit. That
is what `QuotaFilled` needs, since sessions read the flag and the byte counter at different
times. The shared totals are sums over the sessions and stay with TLC.

### Model-checked only

- Liveness (`CallsReturn`, the return of the wait in `WaitIsAtomic`, `RunReturns`,
  `BatchAnswered`, `WaitingClientAnswered`, `SlotsReturn`) is out of the prover's reach.
- What recursive definitions compute for every input needs induction over data: the
  framing, text, date, wildmat and size properties (`FramerExact`, `VerdictExact`,
  `ScanExact`, `ReceiverExact`, `LinesAgree`, `ScriptFaithful`, `WrittenIsWire`,
  `ResponsesAgree`, `ArticlesAgree`, `SelectorsExact`, `SizesExact`, `PercentileExact`,
  `PlanCovers`, `SplitsInvisible`), and `WorkExact`, the conjunct of `TotalsExact` that is
  a sum over all sessions.
- `ReportedTotals`, `OvershootBound` and the totals in `QuotaExact` and `ReportAccounts`,
  which are sums over all sessions, and `DisjointIds`, which is about products modulo
  2^64; the rest of `RunAccounts` is proved.
- `ScheduleExact` of load mode, and `AnswersAccepted` and `OrderFree` of the server's
  sessions, are checked on the instances of the runs.

## Findings

Run `range_rows`: the fixed tables of OVER, XOVER, HDR and XHDR have no case for some ranges
and fall back to their default rows (`lib.rs:7777`): OVER 3- returns article one and HDR 3-
articles one and two. HDR 1- covers two and three, which is all that is asked of it
(`lib.rs:8352`), and so returns these and omits article one. A test comment asks for "every
matching article row" (`lib.rs:12424`).

Other places where the code and a test, comment or document disagree, met while
modelling. The models do what the code does; the properties named leave these cases out.

| code | does | said | left out of |
| --- | --- | --- | --- |
| `lib.rs:8030` | LISTGROUP looks only at whether a range is empty and whether it starts at two | the range limits the numbers returned (`lib.rs:11850`) | |
| `lib.rs:7406` | an indexed LIST is appended to the auxiliary buffer without clearing it, and is sent with the answer before it | each answer alone (`lib.rs:19108`) | `OneAnswerEach`, `AnswersAccepted` |
| `lib.rs:4048`, `4683` | with an index, HEAD, STAT and BODY of a missing file are generated, and OVER and HDR of a missing id give the built-in row | `docs/protocol-scope.md` on indexed stores | `NamesPointer` |
| `lib.rs:4506` | with an index, NEXT and LAST in a built-in group end the session | "real session behavior" (`docs/protocol-scope.md:9`) | `OneAnswerEach` |
| `lib.rs:7866` | a hyphen in a message-id makes OVER treat it as a range | 430 for a missing id (`lib.rs:13046`) | |
| `lib.rs:7884` | LISTGROUP of a group that only the index has is 411 | `docs/protocol-scope.md` on indexed stores | |
| `lib.rs:6952`, `6953` | the rest of a line longer than the buffer is another command; an overlong TAKETHIS loses its verb and its article is read as commands | one 501 (`lib.rs:12783`); the article is always read (`docs/protocol-scope.md:59`) | `SplitsInvisible` |
| `lib.rs:6922` | behind another command of the same read, a line with a bare LF swallows the next | 501, then the next answer (`lib.rs:12816`) | `SplitsInvisible` |
| `lib.rs:4375` | GROUP compares its argument with trailing blanks | trailing blanks accepted (`lib.rs:12887`) | `SpacingInvisible`, which is about kinds |
| `protocol/article.rs:2181` | after an empty first line a folded line is accepted with no header before it | "header cannot start with folding whitespace" (`article.rs:1010`) | `StoredAgree`: a stored block starts with a header line |
| `terminator.rs:463` | `None` for empty content | returns `start` (`terminator.rs:460`; its test agrees with the code) | |
| `lib.rs:2014` | the drain timeout also covers the sleep until the next scheduled request | "for each response" (`lib.rs:1009`) | |
| `lib.rs:471` | a deadline casts the request index to 32 bits | the arrival rate is kept (`lib.rs:1013`) | `BurstBound`: fewer indexes than wrap |
| `lib.rs:2296` | a single-line response is not compared with the size limit | "maximum response frame size" (`lib.rs:978`) | |

## Not modelled

- Manifests, JSON and the printed report: formatting of values the other parts compute.
- `main.rs`, argument parsing by its library; benchmarks and scripts.
- Dialing, TLS, socket options, and the operating system's shutdown signals beyond
  `run_server` returning.
- Of articles, charset checks and the accessors of a parsed article; of responses, rows
  whose rule looks at one line and no other are words of a few shapes; of generated
  payloads, the yEnc bytes. `PROJECT.json` marks these parts as partly modelled.
- A Date header whose hour is so large that `hour * 3600` overflows (`lib.rs:6134`):
  `NewsDates` has hours of a day.
- Words of a session script hold no CR and no form feed.
