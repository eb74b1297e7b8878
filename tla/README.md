# A verification of the LiteIoT UDP gateway

The gateway (a C program) sits between devices and a platform. It receives
datagrams from devices, hands each to a pool of threads, stores data in a
PostgreSQL database shared with the platform, delivers messages the platform left
there for devices, and periodically reports how many messages it has counted.
This directory holds TLA+ models of it, their TLC configurations and TLAPS proofs.

Run `tlc -config X.cfg M` for each pair of the table of runs below, `tlapm M.tla` for
the eight modules ending in `Proofs`. `PROJECT.json` names, for every definition,
the lines of the source it models.

## 1. The system

| component | source | state | operations | modules |
|---|---|---|---|---|
| task queue | `src/task_queue.c` | list of jobs, `active_tasks`, `size`, `suspended`, one mutex; detached threads, one per job | create, enqueue, suspend, unsuspend, is_empty, destroy; the threads' `queue_job_exec` | `TaskPool` (what it promises), `TaskQueue`, `TaskQueueProofs`; its links: `TaskQueueList` |
| pending messages | `src/gateway.c` 335-427 | table `pend_msgs`; per thread the content it sent, a retry counter and a flag | PEND_REQ: select, send, poll until acknowledged; STAT: select and update | `Mailbox` (what a device may expect), `PendDelivery`, `PendDeliveryProofs` |
| packet receiver | `src/gateway.c` `main` 205-244 | `working`, socket | initialise, receive loop, SIGINT, shutdown | `Gateway`, `GatewayProofs` |
| packet handler | `src/gateway.c` `process_packet` | the request; shared `conn` under `mutex`, list of counts under `gw_stat_mutex`; a `PGresult` per query | checkup callback; the branches DATA_SEND, TIME_REQ, PEND_REQ, STAT, unknown types | `Gateway`, `GatewayProofs` |
| gateway manager | `src/gateway.c` `gateway_mngr` | report buffer, interval timer | flush, UPDATE, sigwait | `Gateway`; lengths: `ReportText`, `TextProofs` |
| message counts | `src/gw_stat_linked_list.c` | linked list | init, add, flush | `Gateway`; lengths: `ReportText` |
| packet codec | `src/gateway_protocol.c` | none (8-bit lengths, a buffer of 256 bytes) | encode, decode | `GatewayProtocol`, `CodecProofs` |
| security adapter | `src/security_adapter.c` | none (16-bit lengths) | encrypt, decrypt in place | `SecurityAdapter`, `CodecProofs` |
| AES | `src/aes.c` | round keys, the block | init, encrypt, decrypt (ECB, 128 bits) | `Aes`, `AesProofs` |
| telemetry codec | `src/gateway_telemetry_protocol.c` | none | encode, decode | `TelemetryProtocol`, `CodecProofs` |
| base64 | `src/base64.c` | none | encode, decode | `Base64`, `TextProofs` |
| startup | `src/gateway.c` `main` 127-214, `gateway_auth` | `conf/dynamic.conf`, the only state that survives the process | read, authenticate, store, read back, connect, bind | `Startup`, `StartupProofs`; from the file to the connection: `Configuration`, `TextProofs` |
| JSON parser | `src/json.c` | two passes over the text; the tree and its blocks of memory | parse, free | `JsonParser`, `JsonProofs`; `JsonGrammar` (which tree it promises) |
| `lib/` | | | upstream copies of two files, the same but for log lines and returns; not built | not modelled |

How they interact: `main` calls `task_queue_enqueue(process_packet)` per datagram;
pool threads and the manager share the database connection and the list of counts
through two mutexes; a PEND_REQ handler and a STAT handler of the same device,
on two pool threads, communicate only through rows of `pend_msgs`, which the
platform writes as well; `gateway_auth` hands the configuration to `main` through a file.

What is hard here: every critical section of the pool decides from two counters how
many threads to create; the mutex around the connection is released between a
SELECT and the UPDATE based on it; an acknowledgement names no message; datagrams are
lost, duplicated and reordered, and may come from anybody; SIGKILL and a restart may come at any
step, and systemd restarts only so often; the manager
thread exists before the mutexes it uses, and they are destroyed under threads that
still run; one `PGresult` pointer is used for all queries of a handler; widths of 8 and
16 bits meet in the codecs; the second pass of the JSON parser writes without checks
into what the first has counted.
The `hazards` of `PROJECT.json` list these at their lines.

## 2. How the modules fit together

    TaskPool  <--implemented by--  TaskQueue  <--implemented by--  TaskQueueList
       |                              <-- TaskQueueProofs (of both)
       |  used as promised by Gateway (INSTANCE) and, as a FIFO with one
       |  thread per request, by PendDelivery
    Mailbox   <--implemented by--  PendDelivery   <-- PendDeliveryProofs
    Gateway      main, process_packet, manager  <-- GatewayProofs
    SecurityAdapter <- GatewayProtocol, TelemetryProtocol; Base64  <- CodecExchange
    Codecs = CodecExchange, Aes, ReportText and Configuration, side by side in one run
                 <-- TextProofs (texts: base64, report, connection)  <-- CodecProofs (packets)
    Aes          <-- AesProofs
    JsonParser   <--checked against--  JsonGrammar;  <-- JsonProofs
    Startup      the process around Gateway: starts, deaths, restarts  <-- StartupProofs
    Configuration  what Startup reads back, and main does with it

The composition is by promise: `Gateway` uses the actions of `TaskPool`, not
`TaskQueue`, which is proved to implement it; so the state space of the queue and
that of its client are never multiplied. `Gateway` takes packet types as inputs;
what lengths do to a packet is the codecs' subject. `PendDelivery` follows one
device: all queries of the two branches carry its `app_key` and `dev_id`. `Gateway` runs
the same two branches for their locks, replies and results, and lets every query
return any of its outcomes; so what `PendDelivery` finds out about the table is the
only thing it adds.

### TaskQueue
Every function that touches the struct does so in one critical section, hence one
action each; `queue_job_get_next`, `JobReturns` and `ThreadEnds` are the three visible steps of
`queue_job_exec`. Threads are counted by where they are, as the code knows them no
otherwise. `CreateThreads` is the loop all three creators end with, with
`pthread_create` allowed to fail: the code compares its result `< 0`, which a failure
never is, so the slot is lost. After `task_queue_destroy` a thread that would lock
the destroyed mutex has no defined behaviour, and its actions stop.

### TaskQueueList
The same queue with its memory: blocks with `func`/`arg` (the job) and `next`, the pointers
`tq->next` (`first`) and `tq->last`, the blocks malloc has given out and those threads hold.
Each step is a step of `TaskQueue` together with what the code does to the blocks then, but
for `WalkOn`, the loop of `task_queue_destroy`. `tq->last` is not reset when the list
runs empty and points to a block that is freed soon; the model keeps it so. Any free block
may be the next one malloc gives out.

### PendDelivery
One action per query, per datagram sent or received, and per loss. `SELECT` has no
ORDER BY: `OrderedScan` says whether the database happens to return the oldest row.
`AckEveryCopy` says whether a device acknowledges copies. A query that
fails leaves the table as it is. `CutOff` are the contents whose UPDATE is longer than the 200
bytes of `db_query`: it ends inside its quotes, so it always fails, and the acknowledgement is gone. `Crash` empties what is in memory. A request that
does not decode is the same as a lost datagram. `MaxWaiting` (in `RoomFor`), `RequestCap` and `NetCap` bound the model,
not the code, which queues every datagram.

### Gateway
One action per lock, query, unlock and reply, so that every interleaving between
critical sections is there. The actions begin where `main` has created the manager thread
and has not initialised the mutexes. A mutex is free, held, `orphaned` (initialised while the manager
held it: free, with the manager inside) or destroyed; a default mutex knows no owner, so an unlock
frees it for whoever holds it. `raced` keeps which mutex was locked while orphaned; properties about that mutex are
then void (POSIX leaves it undefined) and say so. `ConnCorrupted` is what two threads in `PQexec` may come to.

A datagram is of one of `Senders`, registered or not, and of a kind in `Sent`. `SHORT` stands for a DATA_SEND
with less than four bytes of payload and for the lengths whose decryption leaves the buffer; it ends the process.
When the checkup query fails, or succeeds without a row since nobody knows the application, `secure` is
uninitialised: decoding then yields any type, and any device of the application (an unknown
application has none, and the INSERT for it fails: it has no table). When `recvfrom` fails, `main` enqueues the zeroed
request. What a stranger sends counts as a failure, as failing queries and receptions do: all share the bound `MaxFailures`.

Queries change the database when they return; `counted`, `reported` and `dropped` are history variables.
`uncleared` counts the `PGresult`s a thread holds and has not cleared: that of the checkup callback,
and that of each query of its branch until its `PQclear`, in the branch or at its end (`Decode`, `Query`,
`PendSend`, `Acknowledge`, `ClearResult`). `retries` is `pend_send_retries`. `PrintError` calls `PQerrorMessage` without
the mutex: it may kill the process when another thread is in `PQexec`, or the connection is finished.

After SIGINT and one more datagram `main` leaves its loop. `pthread_mutex_destroy` runs under threads that hold the mutex or wait
for it: it may leave it as it is, as glibc does with a mutex that is held, or `destroyed`, when it keeps nobody out
(no result of a lock is looked at). `PQfinish` frees the connection under whoever is in
`PQexec`, which may kill the process, and `QueryFinished` is a query that comes after. Then `main` returns, which ends all threads
at any time later.

### Codecs
Bytes are symbols that say which field they belong to; an encrypted block is a term that
decrypts only as a whole. Lengths keep their 8 and 16 bits (`uint8`, `uint16`). A
write past a buffer is an outcome of its own (`Overrun` and the stages named so). In
`Base64` bytes are numbers, characters the digits they stand for. `CodecExchange` runs one
exchange: encode, receive, decode; or answer, read, decode; or store, prepare, retire.
Preparing includes the 150 bytes of `msg_cont`, retiring the 200 bytes of `db_query`.

### Aes
The cipher that the other codecs take as a term, with its real bytes: one action per word of
the key schedule and per round, in both directions. The tables are those of the code;
exclusive or is defined by digits. An exchange encrypts a block and decrypts it again.

### ReportText
Only the lengths of what `gw_stat_linked_list_flush` concatenates, entry by entry, and of the
UPDATE `gateway_mngr` prints it into. The sizes of the numbers are inputs.

### Configuration
`process_dynamic_conf` takes the members of the parsed object by position and copies texts with
`strncpy`; the struct is its sequence of bytes, with the two bytes of padding, of any value, before
`telemetry_send_period`. A byte is the end of a text, a character of a named member or
something else; `%s` reads from the start of a field to the next end. A member that is
missing, or a number where a text is taken, has no defined outcome.

### JsonParser and JsonGrammar
`json_parse` goes twice over the text with one state: `top` and the flags. Each
character is one step, that calls what the code calls: `new_value`, the numbers' state
machine, the closing of a value. Values are nodes in order of allocation, as
`next_alloc` links them; `room` and `name_room` are what the second pass allocates from
the counts of the first; `live` holds the blocks allocated and not freed. An allocation may
fail at any value. A character is a member of a small set; the rest of a word and an
escape with its digits go with their first character. The text grows while the first pass reads it,
so TLC explores all texts as a tree of prefixes. `JsonGrammar` defines, recursively
and without passes or flags, which trees a text may mean, with the liberties of the code
(empty members, a comma before a closing bracket).

### Startup
Each step of `main` may fail, and the process may die at any of them; only
`dynamic_conf` survives, and at first holds a configuration of no use, as the one in
the repository. `Read` may return a part of the answer: `gateway_auth`
does not look at its length. The unit sets neither a start limit nor a delay, so those of
systemd hold: `Restart` happens up to `StartLimitBurst` (5) starts in one interval of ten seconds, then
`GiveUp` leaves the unit failed. `starts` counts them; `IntervalPasses` begins another
interval. The undefined steps of reading a file, closing a NULL stream and the byte behind
the contents, are failures of `read_static_conf` and `read_dynamic_conf`. `Stop` is the SIGKILL of a service that is stopped.

## 3. What is checked

| run | states | what it shows |
|---|---|---|
| `queue` | 190,534 | counters, thread limit, work conservation, safe destruction, the links of the list, FIFO refinement of `TaskPool`, and that every job completes if no `pthread_create` fails; 4 jobs, 4 blocks, 2 threads, 1 failing `pthread_create` |
| `queue_leak` | violation | one failing `pthread_create` strands a job for ever |
| `pend_once` | 712,002 | with rows in order and one acknowledgement per content, a sender stops only on delivery, and the table implements `Mailbox`; 3 rows, 2 contents, 2 threads, a crash and a failing query |
| `pend_lone` | 155,088 | with a pool of one thread a sender never sees its acknowledgement (it is handled only after it gave up), and still every row is retired up to the first that is too long for its UPDATE, through loss and a duplicate, a failing query or a crash; 2 rows of 3 contents, one of them too long |
| `pend_copies` | violation | acknowledging copies retires a message that was never received |
| `pend_unordered` | violation | with rows in any order, a sender stops although nothing was acknowledged |
| `gateway` | 1,599,308 | each mutex held exactly while one thread is between its lock and its unlock; no count lost or doubled; ACK only for stored data; every `PGresult` cleared but the known one; of what the process may die; every step of a handler leads nearer to its end; 2 datagrams of DATA_SEND, PEND_REQ, STAT or too short, of a device or a stranger, and through failing checkups of all other types; a failing query, a failing `recvfrom` or a stranger |
| `gateway_live` | 255,547 | every request is freed, every count leaves the list, unless the process ends; 2 requests of DATA_SEND, PEND_REQ or STAT, a failing query or `recvfrom` |
| `gateway_report` | violation | the first report may be an uninitialised buffer |
| `codec` | 201,114 | every payload length through the packet codec, odd datagrams, whole and partial answers, messages of 1 to 120 bytes through base64 and the query that retires them, blocks through AES, reports of up to 32 devices, configurations in all orders and around all sizes |
| `json` | 713,326 | parser and grammar agree; the second pass stays in what the first has counted; memory is given back; the parser ends; texts of up to 4 characters after 7 beginnings, a failing allocation |
| `startup` | 10,720 | the gateway serves with the configuration of this very start, and comes to serve unless five starts failed, each by a failure of its own, in one interval |

**Bounds and why they suffice.** Two threads are the smallest pool in which a SELECT and
an UPDATE, or two locks, interleave, and four jobs make the queue wait while
threads hand over; with four blocks any of them is reused at any time. Two contents in three rows give a row behind and in front of the one
sent, and equal contents apart; in `pend_lone` a third content is too long, and stands in front of another or
behind it. `PEND_SEND_RETRIES_MAX` is 1 rather than 5: the first
send, one retransmission, and the exhausted counter all occur. A failure or crash at most once already
meets every other step. Two requests, the manager and `main` are the parties to
both mutexes; two requests count the same device before and after a flush. `gateway` has
one registered device and `Phantom`, so the list of counts has up to two entries. `gateway_live` has
a pool of one thread, which is enough to wait for the manager and to be waited for, and the types that query: DATA_SEND passes every lock, PEND_REQ goes
round its loop, STAT updates. Its failures are one failing query, or `recvfrom`, anywhere; a failing checkup
makes the packet one of any type. The codec
runs have the sizes of the code, but for the buffers of `gateway_auth`, 128 bytes for 1024, so that
reads in part and an answer too long are both tried. `codec` takes all payloads of 0 to 255 bytes and, as datagrams no encoder
made, the lengths around every boundary. Messages of up to 120 bytes pass both
limits, that of `msg_cont` (111 bytes) and that of the UPDATE (between 81 and 84). AES
takes the vectors of `aes.c` and keys and blocks whose bytes run through the
tables. Reports go to 32 devices, one beyond what the longest entries fill, with entries
of the shortest and longest numbers. The texts of a configuration end before, at and behind the end of
their fields, its ports have zeros in either byte or in none, and its members come in all 720
orders. In `json` the beginnings lead to where many characters are needed: names of
several members, objects in arrays, an integer about to overflow (`MaxDigits` is 2 for 19),
an exponent; four more characters close them all. Six failures in `startup` are one more than the five
starts of an interval, so that every start up to the limit fails, and that an interval passes in between. Symmetry is used only in runs of
safety properties.

**Deadlock** is checked where the system cannot stop (`pend_*`, `startup`). A task queue
that was destroyed, a gateway that has exited, a finished codec exchange and a parser
whose text was parsed or turned down do stop, and their configurations say so.

**Fairness.** Threads run and jobs return (the scheduler; all loops of
`process_packet` are bounded: `HandlersEnd`). A mutex that becomes free again and again is eventually given to
a waiting thread: strong fairness of the steps of each thread, which for those that wait for nothing says no more than weak.
The interval timer fires, for a positive reporting period (`sigwait`); `setitimer` with a period of 0 would
never. Nothing is assumed of `main`, of arriving datagrams, of what queries return, or of SIGINT. For
`EveryRowRetired`: the device keeps asking, and a datagram of a kind
sent again and again is received in the end (strong); queries fail and the gateway dies at most as often as the bounds
allow. For `ComesToServe`: systemd restarts a failed process or gives it up
(`Restart=on-failure` with the default start limit), a read returns, and failures are at most
`MaxFailures`, which is above the limit; no time is assumed to pass between them.
The parser is a loop of one thread. Nothing is assumed of the clients of the task queue, and the violation shown
under fairness (`queue_leak`) does not rest on anybody's stopping.

## 4. What is proved

`TaskQueueProofs`, for any set of jobs, thread limit and number of failures:

* `TypeCorrect`, `ThreadsFindJobs`, `ThreadsBounded`, `QueueWorkConserving`,
  `SafeDestroy`: the invariants of run `queue`; `Refinement`: `TaskQueue` implements `TaskPool`.
* None of the invariants is inductive by itself: that a thread finds a job depends on what
  the counters count. `IInv` adds that accounting (`SizeCounts`: `size` is
  waiting + executing + finishing; `ActiveCounts`: `active_tasks` is starting + executing
  + finishing + lost), that `active_tasks` is within the limit, that jobs are distinct, and
  that a queue seen empty stays quiet. `LoopKeepsCounts` proves once what the three
  creators share.
* Assumed: `TaskQueueAssumption` (finitely many jobs, an integer limit).

Its second part, for any finite memory besides (`TaskQueueListAssumption`):
`ListImplementsQueue` (so all of the above holds of the list) and `LinksAreTheQueue`, the
invariant `ListIsQueue` of run `queue`. The invariant is inductive together with `IInv`, which gives
the one fact the list needs of the counters: a thread that takes a job finds one. The proof follows a
witness, the chain of blocks from `tq->next`: enqueueing appends to it, taking a job and the
walk of `task_queue_destroy` take its first (`RestOfChain`), the rest leaves it alone; that a chain is no
longer than the memory has blocks is a matter of cardinalities (`ChainFits`).

`PendDeliveryProofs`, for any contents, threads, retries and bounds:

* `TypeCorrect`, without further assumptions.
* `EarlyStopIsRetirement`, if rows come back oldest first. Its invariant says that the row a
  handler sends is the oldest until it is retired (`RowHeld`).
* `StopsOnlyOnDelivery` and `Refinement` (of `Mailbox`), if moreover each
  content is acknowledged once and no acknowledgement is duplicated (`OncePerContent`). Their
  invariant `OnceInv` says that at most one acknowledgement exists anywhere (network, queue,
  handler), that it is for the oldest unacknowledged row, and that undelivered
  copies in flight are of that row. `LoneThreadSendsAll` (run `pend_lone`), if rows come back oldest first and the pool
  has one thread: while it sends, nothing else is handled, so no row changes under it (`LoneInv`). Both violations show what fails without these
  assumptions: the theorems name exactly what the protocol rests on. All of them hold for any set `CutOff`.

`GatewayProofs`, for any requests, devices, senders, packet types, pool size, retries and
failures (`GatewayAssumption`): `TypeCorrect`, `LocksAreHeldByOne`, `CountsAreConserved`,
`AcksAreStored`, `DeathOnlyOfErrors` and `ResultsAreCleared`, the invariants of run `gateway`, all
from one inductive invariant `IInv` of nine parts. None of them is inductive, and
each part is there for one of them:

* `RequestsInv` relates where a thread is to what its packet decoded to, what was
  stored, what it replied and how many results it holds (`Kept`): it gives
  `AckedMeansStored` and `ResultsCleared`, which both speak of the end of a path.
  `WaitingInv` says that what is queued was received, so that no thread meets a fresh
  request.
* `ErrorInv` keeps the reason of a death with whoever is about to die of it: a stranger or a failure with
  a request that is too short or whose error is printed.
* `MutexInv` says when a mutex can be orphaned or destroyed, and that it is destroyed only after SIGINT.
* `ConnInv`: whoever is at a query label is in `querying`, and while the mutex has not been
  initialised under its holder, or destroyed, a free mutex means nobody is, and any two in it are the
  same.
* `HeldInv` is the other direction: a held mutex has a thread inside, and whoever is inside has
  it held. The two together are `LocksHeldByOne`, which says with a cardinality that no path
  through a handler or the manager keeps a mutex; since nobody inside asks for another, no
  two threads wait for each other.
* `ListInv` and `StatInv`: until the list is initialised no request exists that could count; the
  list has at most one entry per device (so that `Num` is the number added to); between
  lock and unlock the manager is alone, so the list it resets is still the one it has
  formatted. Conservation of counts follows action by action.

Two theorems are about the gateway and the queue together. `UsesThePool`: every
behaviour of `Gateway` is, for its requests, one of `TaskPool!Spec`, so the gateway asks nothing of the
queue but what `TaskQueue` is proved to implement (`Refinement`, and `ListImplementsQueue` below
it). `EachHandledOnce`: a request is taken by one thread, once, and no more
threads than `thread_pool_size` are in `process_packet`; without it, two threads could be at
different places of one request and every other theorem would be about less than the code.

`HandlersAlwaysEnd` is the part of `EveryRequestFreed` that is a matter of safety. The variant
`StepsLeft` (the longest way to the end from each place, and three steps for each retransmission left)
falls with each step of a handler and is left alone by all others, so a handler has
at most 12 steps and three per retransmission. What remains for the fairness of
`gateway_live` is that each step is taken at all.

Lemmas say once what the helpers do: `Num` after an addition, the labels of `InQuery`, the
outcomes of `Branch` and `Decoded`, what a thread leaves of another's state.

`StartupProofs`, for any configurations and failures: `ServesTheAnswer`. Its invariant follows the
answer from one step to the next: decoded, then in the file with nothing or garbage in place
of it, then read back (`HandedOver`); what an earlier start left is gone when the file is opened.

`TextProofs`, about what is printed:

* `Base64RoundTrip`: `base64_decode` undoes `base64_encode`, for any bytes, group by group of three,
  with either padding. `MessagesAreSent` and `AcknowledgedAreRetired` rest on it and on the lengths of
  texts; messages may have any length.
* `ReportsFit`, for buffers of the sizes of the code or larger (`Sizes`), from the
  bound of 34 bytes on an entry.
* `ConnectsAsTold`, for members of any lengths and in any order (`ConfFiles`: no name occurs twice,
  six members have the six names, no text is empty, and a period in quotes is not the number of the
  port; without each of these a wrong order could connect rightly). Its invariant `ConfInv` says what
  each of the 120 bytes of the struct is (`StructOf`). `%s` stops at the first end of a text (`Reads`):
  a text shorter than its field is read as it is, a longer one goes on with a byte whose place in its
  text is another. That the string is not cut off is the sum of the distances to byte 120, which always is
  an end.

`CodecProofs`, for the sizes of the code (`CodeSizes`), where an answer may have any length
and the platform's buffer any size that holds it (`AnswerSizes`):

* `DecryptionStays`: the loop over blocks ends in the buffer exactly for 8 to 248 bytes, with
  its counters of 16 bits.
* `PacketsComeBack`: the invariant `RoundInv` says which byte stands where in a
  packet on its way (`PlainPacket`, `CodedPacket`), also in the bytes of the last block that nobody
  wrote; decoding is then followed cell by cell (`Joined`, `Cut`).
* `FailsOnlyOnWrap`: whatever arrives, decoding yields nothing only for a length field of 245, the one
  for which the sum of eight bits is 0.
* `AnswersComeBack`: an answer is stored as it was sent exactly when one read returned all of it. A part
  of it is accepted too, but is never the configuration (`AnswerInv`); decryption leaves the buffer only
  for a read of less than a block and for an answer too long.

`AesProofs`, for all keys and all blocks of 16 bytes: `BlocksComeBack`. The tables are those of the
code, and that one is the inverse of the other is shown entry by entry; exclusive or is associative
and undoes itself by its digits; `InvMixColumns` undoes `MixColumns` because `xtime` is linear. `AesInv` keeps
the blocks encryption went through, one per round, and says that decryption goes back through the same.

`JsonProofs`, for texts of any length over the kinds of characters the parser tells apart, any `MaxDigits` and any number of failing allocations
(`JsonParserAssumption`): `SecondPassAlwaysFits`, `PassesAlwaysAgree`, `AllIsFreed` and `ParserAlwaysAdvances`, all from one
invariant `JsonInv`. That the second pass fits is a fact about what the first has counted by its end, so no
predicate of one state of the second pass is inductive; the invariant relates it to the whole first pass:

* `State` is what both passes keep of the values: what they are, what they belong to, what is
  counted in them, which are open (`WellShaped`). `Iteration` is the step both make at a character;
  `IterationGoesOn` says that it keeps the shape and that counts only grow (`Before`),
  `IterationProceeds` that it is what the code does.
* `Way`: a function from places of the text to states, where each leads to the next by one iteration
  and all come before the last. The first pass extends it at its end (`Travels`); a number, which the first pass
  reads digit by digit, is one step of it. The second pass returns along it (`Returns`): at every
  place it is in the state the way has there, so what it has counted is at most what was allocated (`Memory`),
  it meets no character the first did not accept, and its next value is `next_alloc` of its last (`alloc`).
* Freeing: `json_value_free_ex` stands at the end of a path of values from the root, each in
  the list of the one before it (`Walking`), and every block still allocated belongs to
  a value listed by one that is not freed either, up to that path (`Reached`); when the root goes it
  lists nothing more, and the least value left would belong to a smaller one that is left
  (`LeastElement`, from the well-foundedness of finite sets). When memory ran out, only the first half holds: it still excludes that anything is freed twice.
* `ParserAlwaysAdvances` is the part of `Terminates` that is a matter of safety: every step lowers a variant that is bounded
  below (`Bounded`). First come the passes and phases still to be made (`Stage`), then the characters still to
  be read or the blocks still to be freed (`Distance`), then how far down the tree the loop that frees may still go
  (`Depth`: a child was allocated after its parent). Three times the code goes round without reading a
  character: when a number begins, when it overflows into a double, when it ends and its last character is looked at again; `Pause` counts
  them, and none of the three can come twice for one character.

Only model-checked: liveness (out of the prover's reach; the variants of `HandlersAlwaysEnd` and
`ParserAlwaysAdvances` leave to it that a thread which can run does run); that the cipher gives the vectors of FIPS-197
(`MatchesVectors`), a computation with given numbers; that the parser builds the tree the grammar
gives (`ParsesTheGrammar`), since `JsonGrammar` is recursive.

## 5. Findings

1. `task_queue.c:104` (also 146, 238): `pthread_create(...) < 0` never notices a failure; the slot is lost and jobs may
   wait for ever (`queue_leak`).
2. `gateway.c:403`: an acknowledgement retires whatever row is first; a second one, for a
   copy, retires a message the device never received (`pend_copies`).
3. `gateway.c:374`: without ORDER BY another first row is taken for an acknowledgement (`pend_unordered`).
4. `gateway.c:514`: a flush of an empty list leaves the report buffer uninitialised (`gateway_report`).

The passing runs document more, as the exact condition under which it happens:
`LocksHeldByOne` and `CountsConserved` exempt a mutex initialised while held;
`LocksHeldByOne` also `mutex` once it is destroyed under running threads;
`DiesOnlyOfErrors` says that a failed `recvfrom` or query may kill the process, as may one datagram of
an unknown application or with a payload that is too short, and SIGINT, when `main` closes what threads use;
`ResultsCleared` that the result of a PEND_REQ answered with NACK is never cleared;
`AcknowledgedIsRetired` that a message of more than 84 bytes is sent but never retired, since its
UPDATE does not fit 200 bytes, and blocks the device's other messages, which `EveryRowRetired` therefore promises only as far as the first such message;
`ComesToServe` that five starts failing within ten seconds leave the gateway down;
`ReportFits` that a report of 31 devices may write past its 1024 bytes;
`AllFreed` that values are lost when memory runs out in the second pass of the JSON parser,
and that the parser crashes when it runs out for the root value;
`DecryptionStaysInPacket` names the datagrams whose decryption leaves the
buffer; `MessageIsSent` says that a message is sent with as many extra bytes as its
text has padding; `TelemetryRoundTrip` that a part of the platform's answer is accepted;
`ConnectsAsConfigured` that members in another order, and texts that fill their fields, are
used for the connection unnoticed; `CountsConserved` that counts of a report whose UPDATE fails are dropped.

## 6. Not modelled

Not compiled or never called: the modes CBC and CTR of `aes.c`, comments in `json.c`
(a setting nobody sets), the flush into a file and `gw_stat_linked_list_destroy`, the copies
under `lib/`.

Left out of what is modelled: of JSON, the values of numbers, line numbers, surrogate pairs,
the limit of 2^32-9; of a configuration, the members of static.conf, which
`process_static_conf` picks as `process_dynamic_conf` does, and quoting in the connection string; `errors_count`, an unlocked counter that is only
reported, and the struct `localtime` shares between threads; the texts of queries and log lines, but for the
lengths named above; the `PGresult`s of the manager; the end of the process when `pthread_detach` is given a handle that a failed
`pthread_create` has not written; a failing `setitimer`; the links of
the list of counts, which is a sequence here, and a `malloc` that fails outside of the JSON parser.

## 7. Plan

The order follows how much of the system rests on each part. Done: task queue with its
links and proofs; pending messages and their proofs; gateway with all branches, shutdown
and proofs; codecs with AES, report lengths and configuration, and the proofs of all their properties but
`MatchesVectors`; JSON parser with the proofs that its passes agree and its memory is given back; startup and
its proof. Next:

1. The list of counts by its nodes and links (`add`, `flush`), refined to the sequence
   of `Gateway`, as `TaskQueueList` is to `TaskQueue`.
2. The members of static.conf: the key and the id by `sscanf`, numbers in 8 and 16 bits.
