# Node Crunch 2 in TLA+

Specifications, model-checking configurations and machine-checked proofs for
Node Crunch 2, a library for distributing a computation over nodes, and for its
example, which computes a Mandelbrot image.  Paths are those of the repository
without the leading `src/`; `nc_*.cpp` are in `src/nodcru2/`, `mandel_*.cpp`
and `util.cpp` (of the example) in `example/mandel/src/`.

## The system

| Part | State | Operations | Made correct by |
|---|---|---|---|
| **Server** `nc_server.cpp` | `quit`, `all_nodes` (id to time of last heartbeat), `server_mutex`, the queue of client threads | `nc_run` accepts, starts a thread per connection, joins the oldest above 10, saves and joins at the end; `nc_handle_node` answers one request; `nc_check_heartbeat` calls `nc_node_timeout` for silent nodes | no thread outlives `nc_run`; bounded threads; only registered nodes get work; quit exactly when the job is done; requests get answered |
| **Node** `nc_node.cpp` | `quit`, `node_mutex`, `run_state`, two error counters, the result in hand | `nc_run`: register, fetch, compute, send; `nc_send_heartbeat`; both through `nc_send_msg_return_answer` | one exchange at a time; answers reach the thread that asked; results are kept until acknowledged; both threads end together |
| **Network** `nc_network.cpp` | TCP sockets | connect, accept, send and receive a size and that many bytes | whole messages or exceptions |
| **Codec** `nc_message.cpp`, `nc_compression.cpp`, `nc_encryption.cpp`, `nc_util.cpp` | none | encode, compress, encrypt and back | what is decoded is what was encoded, on hosts of any byte order |
| **Job** `mandel_server.cpp`, `mandel_node.cpp` | per row a status and a line; `node_map` from nodes to rows | the six callbacks of the server's data processor, the node's `nc_process_data` | each row computed, once counted, never overwritten; what is saved is complete |
| **Configuration** `nc_config.cpp` | none; each host has a file of its own | `nc_config_from_json` | no program starts with a timeout below the least; nodes and server may still differ |
| Node ids, exceptions, logging, command line | | | not modelled, see below |

A node opens a new connection for every request; the server answers it and
closes.  Server threads share `quit`, `all_nodes` (under `server_mutex`) and the
user's data processor, which the library calls back without a lock, except for
`nc_node_timeout`.  Node threads share `quit` and, under `node_mutex`, the
network client.  What makes the program hard to test is the meeting of these
threads with crashes, lost connections and timeouts: a row may be timed out,
handed to another node and completed by the first; the answer to a request may
be lost after its effect; the thread that decides to quit is never the one that
has to act on it.  `PROJECT.json` lists these hazards with their lines.

## Modules

    MandelThreads    the callbacks statement by statement on several threads
      MandelThreadsProofs
    MandelJob        the callbacks as operators on the processor object
      MandelServer     the processor alone, called in any order
        JobBoard         what it promises (abstract)
        MandelServerProofs
    NCNetwork        messages and connections
      NCNetworkProofs  lemmas about them
      NCServer         the server, over any data processor
        MCNCServer, NCServerProofs
      NCNode           the nodes, over any nc_process_data
        NCNodeEnv        nodes against the server's contract
          MCNCNode, NCNodeProofs
      NCSystem         NCServer + NCNode + MandelJob
        MCNCSystem, NCSystemProofs
    NCConfig         from a configuration file to a configuration
      NCHeartbeat      heartbeats and timeouts on a clock
        MCNCHeartbeat, NCHeartbeatProofs
    NCCodec          the codec as operators
      NCTransfer       one message from encoder to decoder
        NCChannel        what NCNetwork assumes of it (abstract)
        MCNCTransfer, NCTransferProofs

Operators and variables carry the names of the code.  `PROJECT.json` maps each
to its lines.  A value that may be absent is a set of at most one element.

**NCServer.**  One action per stretch of code between two points where another
thread can see or change something: `quit` is read once in `nc_receive_data`
(line 211) and the job is asked in a later step (214); a `lock_guard` block is
one step; `nc_valid_node_id` and the use of the id are two steps.  The loop of
`nc_check_heartbeat` is one step per node, with `server_mutex` held
(`heartbeat_pc = "check"`) and handlers that need it blocked.  `node_time` is
abstracted to absent, fresh or stale; `Expire` lets the clock pass, and not
during the loop, which reads the clock once.  An exception in a client thread is
`Terminate`: nothing catches it.  `nc_send_data` is never blocked by the node, and
an answer to a node that is gone is lost or (`nc_send_dataThrows`) noticed.  The data
processor is given by four operator constants and the set of its states.
The environment sends any request, even from ids that never registered.

**NCNode.**  Each node has threads `main` and `beat`, each with a place, an error
counter, a socket and an answer.  `nc_connect` takes the mutex with the
connection, `Hangup` gives both up, on the normal path and on the exception
path (`ExchangeThrows`).  Counters wrap at `ErrorMod`, as `uint8_t` does.

**NCNodeEnv** replaces the server by what the nodes rely on: each request gets one
of the answers `nc_handle_node` has for it, or the server is gone.  NCSystem's
property `KeepsContract` checks that the server of NCServer implements it.  The
server may be restarted any number of times and then knows no node (`known`
stands for the keys of `all_nodes`); restarts are not counted.  A registered node may be told it
is unknown, because an older request of its own, given up by the node, may
register it between the check and the answer.

**NCConfig, NCHeartbeat.**  NCServer lets a heartbeat become stale at any moment;
NCHeartbeat says when it does.  Time goes in ticks, `Second` of them a second;
instead of time points the model keeps their ages, so that nothing grows without
bound.  A sleep takes at least `heartbeat_timeout`, and everything else a thread
does in a round at most `Delay` ticks (`Tick` is disabled while some thread is
due).  The clock is read before `server_mutex` is taken, by handlers and by
`nc_check_heartbeat`, so stamps are stored late and ages may be negative.
`nc_check_heartbeat` compares whole seconds with `>`, which gives a node one
second of grace; two delays have to fit into it (`ClockAssumption`): that of the
round that sent the last heartbeat and that of the present round.
Server and nodes each start from any file NCConfig accepts.

**MandelThreads.**  One action per statement of a callback that reads or writes
the processor, for client threads of several nodes and `nc_run`, which saves before
it joins.  Statuses and pixel values are read and written whole.  An insertion
into `node_map` while another thread uses it is undefined behaviour: the model
sets `raced` and stops, so that the safety properties speak of the behaviour up
to then and `JobGetsDone` of behaviours in which it does not happen.  Nodes do
not time out here.

**NCSystem** instantiates both with shared connections.  `LateNodes` lets any
registered node become stale at any time (heartbeats late, or, with an empty
`BeatingNodes`, heartbeat_timeout longer than the run); otherwise only nodes
that ended do.  With `ServerFaults = {"accept"}` `nc_accept` may throw, upon which `nc_run`
sets quit and saves whatever the job's state; `gave_up` records that it did.  Each callback of the
job is one step, which the code does not guarantee: what NCSystem's properties say of
rows and images they say of behaviours in which callbacks do not overlap, and MandelServer
and MandelThreads of the others.

**MandelJob.**  A row is a number, a payload the row it speaks of, and the image
records for each row whose line it holds, so that a line in the wrong row shows.
The marker `{255,255,255,255}` is `NoMoreRows`.  `nc_get_new_data` returns a set
of outcomes with exactly one element.

**MandelServer** has the callbacks as single steps, which is what NCSystem uses, and besides
takes apart the two that meet on different threads: `nc_node_timeout`, which the heartbeat thread
runs, statement by statement (`TimeoutFindsRow`, `TimeoutTestsRow`, `TimeoutReopensRow`,
`TimeoutErases`), and `nc_process_result` between its two uses of `node_map` (`ResultFindsNode`,
`ProcessFoundResult`).  Callbacks for any node come in between.  When one comes for the node that is
being timed out, or finds its entry erased, anything may follow in the code (a row orphaned at
`mandel_server.cpp:80`, row 0 inserted at line 106): the history variable `overlapped` is set,
the behaviour ends with that step, and the properties speak of what precedes it.  `saved` and `quit` are
those of `nc_run`, with an accept error at any time (`AcceptFails`).  **JobBoard** is the abstract
promise: claims are exclusive, only a claim completes a unit, and what is published
is the whole, or, after giving up, the result so far.

**NCCodec, NCTransfer.**  Bytes are numbers below `Base`, laid out as in the code:
nonce, tag, and encrypted the original size and the block that holds type, id and data.  LZ4 is its contract (a block stands for
the bytes packed into it) and ChaCha20-Poly1305 is symbolic (a tag names what it
authenticates).  Sender and receiver have a key and a byte order each; the
network delivers any number of bytes at a time.  A link may be reset, which both hosts
are told, or go silent, which the receiver is not: `nc_receive_data` reads without a timeout
(`nc_network.cpp:38`, 43).

## Runs

| Run | Bounds | Shows |
|---|---|---|
| `mandel_server` | 2 nodes, 3 rows, one `nc_node_timeout` under way; accept errors | type, `OwnerInv`, `RowsKeepOwners`, `DoneIsFinal`, and that the processor implements `JobBoard`, up to a callback that meets the timeout of its own node |
| `server_safety` | 1 node id, 3 connections, 1 thread above which the oldest is joined, 1 unit of work; accept errors and client crashes | `ThreadsJoined`, `ThreadBound`, `ServedConnections`, `KnownNodesOnly` |
| `server_liveness` | the same with 2 connections, no faults | `RequestsAnswered`, `QuitsWhenContacted`, `QuitMeansDone` |
| `node` | 1 node, 2 connections, 2 errors allowed, counters mod 4; crashes, broken connections, any number of restarts of the server | the six safety properties and the three liveness properties of the node |
| `system_safety` | 2 nodes, 2 connections, 2 rows, 1 error allowed, nodes time out at any time; accept errors, no other faults | `RowsOwned`, `RowsHoldTheirLines`; unless the server gave up, `SavedImageComplete`, `NodesQuitWhenDone`; the refinement `ImplementsJobBoard` |
| `system_liveness` | 2 nodes, 1 row, one crash of one node | `JobGetsDone`, and the refinement `KeepsContract` |
| `transfer` | base 2, lengths 1, data of 0, 4 and 5 bytes, 2 keys, 2 nonces, both byte orders; links that hold, are reset or go silent | `RoundTrip`, `ImplementsChannel`, `TransferEnds` |
| `heartbeat` | 1 node, 4 ticks a second, delays of 1 tick, timeouts of 1 and 2 s on either side, ages up to 25 ticks | `NoFalseTimeout`, `SilentNodesNoticed` |
| `race` | 3 nodes, an image of 2 x 2 | `LinesInPlace`, `ImageCompleteAfterJoin`, `SavedImageLacksHalfCopiedOnly`, `JobGetsDone` |

Why these bounds are enough to meet the interesting cases: three connections
with `MaxThreads = 1` fill the queue past its limit while a third waits; two nodes
and two rows let a row be taken back, given away and completed by both while
another is open; three rows in `mandel_server` leave one in the pool besides the
one held by each node; two connections let one node's next request overtake the
server's end of the last one; base 2 makes messages of a few bytes use several of
the four size bytes, so that a wrong byte order shows.  `ErrorMod = 4` with a
limit of 2 lets the heartbeat counter wrap.  In `heartbeat`, `MaxAge` is above the age,
(2 * 2 + 2) * 4 = 24 ticks, at which a node must have been noticed, and
one node suffices because nodes meet in `server_mutex` only, whose waits `Delay` covers.
In `race`, three nodes let two threads take one row while a third sees the job
done, and two values per row let a save fall into a copy.  `MaxFaults`, `FaultyNodes` and
`BeatingNodes` bound the system runs and are named in NCSystem: the two passing ones leave
the heartbeat threads asleep, which `node` and `server_safety` cover.  Runs of a
system that ends do not check deadlock.

### Where the code differs from what is written about it

Three runs end with a counterexample, each to one sentence of the README of the
repository:

- `quit_saves`: `nc_run` waits in `nc_accept` when quit is set (`nc_server.cpp:130`).
  When the last node got its Quit in answer to its last request, nothing is
  saved and the server stays (README.md:91).  In practice the heartbeat of a node
  that is slow to end may still free it.
- `node_crash`: a node that dies after connecting and before sending its request
  makes `nc_receive_data` throw in a thread that catches nothing
  (`nc_server.cpp:137`, 206): the server ends (README.md:38).
- `lost_answer`: a connection that breaks before the answer with the last open row
  arrives makes the node ask again; it gets the marker, and its empty result
  completes the row (`mandel_server.cpp:109`).  The saved image has a hole (README.md:94).

Other differences show in what the properties and theorems say holds instead:

- Data is saved before the client threads are joined (`nc_server.cpp:147`), and
  `nc_process_result` sets Done before it copies the line, so the file may lack part of a line;
  `SavedImageLacksHalfCopiedOnly` says that nothing else is missing (README.md:94).
- When `nc_accept` throws, `nc_run` sets quit with rows open (`nc_server.cpp:131`-135), tells nodes
  to quit, which by `nc_message.cpp:272` they are told when the job is done, and saves an unfinished
  image.  `NodesQuitWhenDone`, `SavedImageComplete` and the Publish step of `ImplementsJobBoard` are
  stated for a server that did not give up so.
- The callbacks are called without a lock (see MandelServer and MandelThreads above).  A callback
  that meets the timeout of its own node can lose a row for ever or put a line into row 0, and
  so can a save that meets a copy leave it half written, all without any network fault.
- The example sends row indexes in the byte order of the host (`util.cpp:100`), so that nodes of
  another byte order compute other rows, although README.md:40 promises nodes of different
  hardware.  The theorem `IndexMisread` says which indexes are misread; no run does.
- README.md:97 lets a data message keep a node from timing out, but only heartbeats are stamped
  (`nc_server.cpp:228`), so that one lost heartbeat makes a busy node time out; `NoFalseTimeout` is
  restricted accordingly.

## Fairness

Threads that can run do run (weak fairness).  Strong fairness is assumed where
something is enabled again and again: `nc_accept(c)`, because the kernel's queue
is first in, first out; client threads, because `nc_check_heartbeat` frees
`server_mutex` for a whole `heartbeat_timeout` (at least 10 s, `nc_config.cpp:63`)
between two rounds; the two threads of a node, because each leaves `node_mutex` alone
while it sleeps, computes or counts an error (10 s, `nc_node.cpp:108`); `Expire` of a node that is gone, because
between two rounds lies a `heartbeat_timeout` in which it gets older.
`server_liveness` assumes nodes that finish what they began, since no read of the
server has a timeout: a node that connects and stays silent holds its thread for
ever.  In `race` every thread runs (weak fairness) and every
node is accepted again and again (strong fairness).  In `transfer` hosts run, a link that is up
delivers, and the end of the file or a reset reaches the receiver.  That a dead link is
noticed is not assumed: on a link that stays silent `TransferEnds` lets the receiver wait for ever, as the
code does.  NCSystem and NCNodeEnv know no such links.  NCHeartbeat needs no fairness, because its properties
are invariants and `Tick` waits for whoever is due.  Faults are never assumed to happen, nor `nc_accept` to throw, a node to be late or a server to be restarted.

## Proofs

`MandelServerProofs`, for any set of nodes and any number of rows, up to the first callback
that meets the timeout of its own node:
`TypeCorrect`, `OwnersExclusive`, `OwnersKeptByTimeouts`, `DoneRowsFinal`, `RefinesJobBoard`.
`OwnerInv` is inductive together with the type invariant and `TimeoutInv`: `nc_get_new_data` takes
a row from the pool, where by its first conjunct no held row is, and the other
callbacks only give up entries or move a row on to Done.  `TimeoutInv` says that a timeout under way
still finds the row it read in its node's entry until it erases it; so what other nodes do meanwhile cannot
give that row away while it is held.  The action properties and the step
simulation use both: an abstract `Claim` needs to know that nobody holds the row, and the entry a timeout is about
to erase is no claim any more.  `RefinesJobBoard` also needs that quit means the job is done or
the server gave up.

`NCServerProofs`, for any sets of nodes, connections and data, any `MaxThreads > 0` and any
data processor that satisfies `ProcessorAssumption`:

- `TypeCorrect`.  `TypeOK` is not inductive, because `Tail` of an empty queue has no
  type; `SomethingToJoin` (at `joinOldest` the queue is not empty) makes it so.
- `ThreadsServe` and `AllJoined`, from `JoinInv`: a thread that serves a connection is
  in the queue under its name, only ended threads are removed, and past
  `joinHeartbeat` the heartbeat thread has ended; so an empty queue means that
  nothing runs.
- `OnlyKnownNodes`, from `KnownInv`: nothing ever leaves `all_nodes`, and the
  request of a connection does not change while a thread serves it; so the check
  made in one critical section still holds in the next.
- `ThreadsBounded`, from `QueueInv`: except on its way to the join the queue holds at most
  `MaxThreads` threads.  By `JoinInv` each running thread has a place of its own there.
- `QuitsWhenDone`, unless `nc_accept` can throw and for a processor that never takes a finished job back
  (`DoneStays`): a thread may find the job done while others are still handing over results or
  timing nodes out.  The mandel processor is such a one (`JobStaysDone` in MandelServerProofs).

`NCNodeProofs`, for any nodes and connections, any `MaxErrors` below `ErrorMod`, any
`nc_process_data`, with crashes, broken connections and restarts of the server:

- `TypeCorrect`, with `WorkInv`: an answer that carries work carries data, which
  `nc_process_data` is defined for.
- `OneExchange`: who holds `node_mutex` is where the exchange is; an exception gives
  both back.  It is inductive with the types.
- `ErrorsBounded`, from `ErrorsInv`: inside the loop of `nc_run` the counter is below
  `MaxErrors`, so that the count that reaches it is followed by the loop's test, and the
  `uint8_t` does not wrap.
- `SocketsMatch`: uses `OneExchange`, without which closing the socket of one thread
  could take the other's connection away.
- `AnswersMatch`, from `ExchangeInv`, which follows an exchange of the main thread from
  the request through the connection to the answer: at each place it belongs to `run_state`.  Then
  `ResultKept`: only ResultOK lets a node give up a computed result.

`NCHeartbeatProofs`, for any nodes, configuration files, length of a second and `Delay` of
less than half of it; all arithmetic is linear once `Sleep` hides the product of a timeout and a second:

- `NeverTimedOut`, from `RoundInv`: in the round after a heartbeat that was stored, the
  stored time is at most the round's clock and one delay old; the round's clock
  never exceeds the sleep and one delay.
- `SilenceNoticed`, from `CheckInv`: a node not reported was at most a timeout and a second
  older than the clock that was read when it was last looked at, and the next look is at
  most a sleep and two delays later.

- `TypeCorrect`, for instances whose `MaxAge` is not below the longest round (a sleep and a
  delay); the two above use `TimeType`, with natural numbers for ages, and hold for any `MaxAge`.
- `TimesAsInNCServer` ties the clock to NCServer, which knows a time only as absent, fresh or
  stale.  Call a node stale if the comparison of `nc_check_heartbeat` with the time it last read
  finds it too old.  Then every step, until the heartbeat thread ends, does to these states, to
  `unchecked` and to the nodes timed out what NCServer does: a node becomes
  known by Init and fresh by a heartbeat; it becomes stale by `Expire` only, not under
  `server_mutex`; a node that is looked at times out just if it is stale.  The proof shows more than is
  stated: no tick makes a node stale (`TickKeeps`), only the reading of the clock
  (`WakingExpires`), because both ages grow together (`ReadInv`).  For `MaxAge` not below two
  sleeps, two delays and a second, so that no age is cut off that still matters.

`MandelThreadsProofs`, for any number of nodes and any square image, up to the first race on `node_map`:

- `TypeCorrect`, with `OwnRow` and `LoopStart`: a thread copies into the row it found in
  `node_map`, from the first column on.  `ValuesInPlace` follows.
- `ImageComplete` and `SavedImageAlmostComplete`, from `CoverInv`.  That a row is Done is of no
  use in an invariant: Done is set before the line is copied, and a second thread can set the row
  back to Processing (`mandel_server.cpp:90`, 109).  What is stable is that a row is
  *covered*: its line is in the image, or a thread is copying it.  A row is covered if it is
  Done, if the loop of `nc_is_job_done` has passed it, or if the node that has it in
  `node_map` has nothing to send; so when the job was found done all rows are, and when
  all threads are joined nobody is copying.

`NCSystemProofs`, for any nodes, connections and rows, any faults NCSystem knows unless
a theorem excludes them:

- `ContractKept`, `RefinesJobBoard`, `PartsKeepTheirPromises`.  A step of NCSystem is a step of
  NCServer, of NCNodeEnv and of MandelServer, or one that leaves that part alone (`RunsServer`,
  `RunsNodes`, `RunsJob`); an accept error is a step of each of them.  So what was proved of each part against any clients, any server
  and any caller holds of the three together.  That the server answers as
  NCNodeEnv does needs `SystemInv`: where each handler is, and what it is about to send, fits
  the request on its connection (`StageInv`).
- `QuitOnlyWhenDone`, from `QuitInv`, which follows Quit back from the node over
  the connection and `reply` to the handler that found the job done or quit set; by `GiveUpInv`
  quit means that the job is done and stays done, or that `nc_accept` has thrown (`gave_up`).
- `RowsNeverLost`, `LinesWhereTheyBelong` and `SavedWhole`, as long as callbacks do not overlap
  (each is one step of NCSystem) and no connection breaks on
  which a node waits for work or for the acknowledgement of a result (`[][~WorkBreaks]_vars`).
  Crashes and late nodes are allowed, and so are connections that break before the request is sent,
  while a node registers, on a heartbeat, or because the server hung up.  `TrackInv` says of each row in
  `node_map` where its work is: in an answer on a connection, at the node or in a result
  on its way, one exchange at a time.  So the result a node sends is for the row the
  server finds in `node_map`, or that entry was taken back.  The hypothesis is needed:
  `lost_answer` refutes `SavedImageComplete` without it.  `SavedWhole` is for a server that did not give up.  `RowsHoldTheirLines` falls in the same way once
  `lost_answer.cfg` has `Height = 2`: a request for work that outlives its broken connection gives
  the node row 1 while its result of row 0 is on another connection, and that is recorded for row 1.
- `SavedForGood`, with every fault, unless the server gave up: the job was done when `nc_run` saved, and a result taken
  between that and the end of the joins changes nothing, because no callback touches a row that is done.
  Each callback is one step here; statement by statement, `SavedImageAlmostComplete` above says what
  a copy in progress can leave out.
- `SurvivesWholeExchanges`, with every fault: the server is terminated only if a node's end of a
  connection closes while the server has still to accept or to serve it (`CutsOff`).  Without that
  `OpenInv` holds, and no handler meets a connection that is gone.  `SurvivesItsOwnNodes` is the
  special case without faults, where nodes close after the server.  The run `node_crash` shows the
  cut and what it does.

`NCTransferProofs`, for any `Base`, keys, nonces, lengths and messages that fit `uint32_t`:

- `SentAndReceived` and `RefinesChannel`, from `WireInv`: what is written is the size
  and then the encoded bytes, and the second read waits for exactly these
  (`SecondRead`).  Beneath it lie lemmas on the operators of NCCodec: numbers and their
  four bytes (`CopiedBack`, `CopiedForth`, `OtherOrder`), sizes that every host reads as they were
  written (`SizeReadBack`), and `MessageDecoded`: `Decode` undoes `Encode` with the same
  key and returns nothing with another.
- `IndexMisread`: a row index, copied without ordering its bytes, changes exactly
  between hosts of different byte orders, unless its bytes read the same both ways.

Every safety property that a passing run checks is stated by a theorem.  What the theorems of
NCSystemProofs say of rows and images they say of callbacks that do not overlap; what remains when
they do is in MandelServerProofs and MandelThreadsProofs.  Two proofs corrected the models:
`RequestMessage` of NCNode had a CASE with overlapping guards, of which TLC took
the first and TLA+ takes any, and `MessageAssumption` did not say what a message is made of.
`ToMemory` divides step by step because no prover here knows powers.

Assumptions are those named in the modules: `HeightAssumption`, `SquareAssumption`,
`NoDataAssumption`, `MaxThreadsAssumption`, `FaultsAssumption`, `ProcessorAssumption`, `EndedAssumption`,
`ErrorsAssumption`, `NodeFaultsAssumption`, `ProcessDataAssumption`, `TimeoutAssumption`,
`FilesAssumption`, `ClockAssumption`, `BaseAssumption`, `LengthAssumption`, `MessageAssumption`, and for
NCSystem `ServerAssumption`, `ServerFaultsAssumption` and `NodesAssumption` with the bounds on its faults.  What is
assumed of one theorem only is in its statement: `DoneStays` in `QuitsWhenDone`, which holds of
the mandel processor, and the hypotheses above.

Only model-checked: all liveness, which with ENABLED and fairness is out of the prover's reach.

## Not modelled

- Logging, command line, the address and log files of the configuration, JSON
  numbers out of range.  `quit_counter` is parsed and never used.
- Random node ids: `Node` holds distinct values.  The generator is shared by the
  server's threads without a lock (`nc_nodeid.cpp:33`).
- The floating-point iteration, colours and the PPM file.
- What the job does after a callback has met the timeout of its own node (`mandel_server.cpp:80`, 105):
  MandelServer reaches that step and ends.  Callbacks of client threads that overlap with each other and
  with a timeout at once: MandelServer takes the timeout apart, MandelThreads the others.
- A request that cannot be decoded (`nc_server.cpp:207`): it ends the server like an exception of the
  socket, but nodes with the right key send none.
- Links that go silent, outside `transfer`.
- The parameters of the image (`MandelData`, sent with InitOK): every program uses the
  same ones.  Images that are not square: `main` makes none.
- What a build does after two threads met in `node_map`.
- Failures inside OpenSSL and LZ4; `bad_alloc`; messages of 4 GiB and more.

## Plan

Done, in this order: MandelJob and MandelServer with JobBoard and their proofs;
NCNetwork and NCServer with the proofs of its safety; NCNode and NCNodeEnv with theirs;
NCSystem; NCCodec and NCTransfer; restarts in NCNodeEnv; NCConfig and NCHeartbeat with
its proofs; MandelThreads; the proofs about MandelThreads, NCSystem and NCTransfer; `nc_node_timeout` by
statement in MandelServer, accept errors in NCSystem, silent links in NCTransfer.

To extend the model:

1. `nc_node_timeout` in MandelThreads, together with the callbacks taken apart there;
   MandelServer has it against callbacks in single steps.
2. Restarts of the server in NCSystem; NCNodeEnv has them.

Settled by proof, for callbacks that do not overlap: with any fault `DoneIsFinal`, `OwnerInv` and `SavedIsFinal` hold; `RowsOwned`,
`RowsHoldTheirLines` and `SavedImageComplete` need `[][~WorkBreaks]_vars`, `ServerSurvives` needs
`[][~CutsOff]_vars`; NCServer's `Expire` is what the clock of NCHeartbeat does.

To prove more: that the nodes' part of NCHeartbeat, with its clock, implements the
heartbeat thread of NCNode; both are proved on their own.
