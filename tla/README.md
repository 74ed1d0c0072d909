# Verification of ucp_test

`src/` runs allreduce schedules (XML files of the MSCCL kind) on CPUs over UCX:
every rank is a process, every thread block (tb) of its schedule is a thread
with a UCX worker of its own, and `interpreter()` executes the tb's steps.
This directory models that in TLA+, checks it with TLC and proves the main
invariants with TLAPS.

## 1. Inventory

| Component | Code | State | Operations | Interacts by |
|---|---|---|---|---|
| Schedule file and parser | `xml_parser.{h,cc}`, `*.xml` | ranks, tbs, steps | parse once | read by everything below |
| Set-up | `allgather_addresses`, `connect_to_peer`, `init_sem_hash`, `init_buffer_pool` | endpoints, `sem_hash`, chunk pointers | once per process | MPI before the threads start |
| Schedule interpreter | `interpreter` and the step functions in `test_offload.cc`, `mpitest.cc`, `perftest.cc` (near copies) | current step, buffers, `sem_hash` values, `send_num_hash`, UCX requests | wait for a dependency, send, receive, reduce, forward, post, drain | semaphores and chunks inside a rank, tagged messages between ranks |
| Rounds | `main` of `mpitest.cc`, `perftest.cc` and the outer loops of `interpreter` | `sem_4_th_wait`, `sem_4_main_wait`, loop variables, `total_elapsed` | post, take, execute, post back, collect; resize; join | semaphores, shared buffers |
| Offload server | `test_offload.cc -o` | request queue, the round's semaphores, input buffer | request callback, take, round, reply | active messages with a client; runs the interpreter |
| Offload client | `test_offload_client.cc`, `ucp_init_resource.h` | `receive_num`, one buffer | pipelined requests, reply callback, wait, compute thread | active messages with one server; through the servers with the other clients |
| Client-server example | `ucp_client_server.c` | connection slot, `connection_closed`, `am_data_desc` | connect, reject, iterate, FIN, close, next client | sockets, UCX |
| Two-process allreduce | `ucp_hello_world.cc`, `hello_world_util.h` | two chunks, `ep_status`, `err_handling_opt` | exchange of addresses, test string, two-rank allreduce, flush, close, barrier | a socket, tagged messages |
| Code generator variant | `generate_c.cc` | as the interpreter | the helpers of `test_offload.cc`, copied, without interpreter and main | - |
| Smoke tests, baseline | `test_am_*.cc`, `myucp.cc`, `mpi_allreduce_test.cc`, `test.cc` | none of interest | straight-line | - |
| Logging | `log.cc` (third party) | callbacks | - | - |

What makes each correct:

* interpreter: a step starts after the step it depends on; no two threads of a
  rank touch a chunk at once with one writing; a message reaches the receive it
  was sent for although its tag is only an offset; every chunk is summed once;
  the threads end, with no send outstanding and nothing left for a next run;
* rounds: tokens balance whoever takes them; main touches the buffers only when
  no thread executes; all threads are joined; the printed time is complete;
* offload server: a reply is the sum of the requests of its round; no request is
  lost or answered twice; every request is answered;
* offload client: every reply is counted once, for the measurement it belongs to;
  a request carries at most earlier replies; no client leaves another waiting;
* set-up: a thread is connected to the worker that will receive from it, and no
  two threads to the same one;
* two-process allreduce: no worker is destroyed while the other side uses its
  endpoint; success means that the exchange was an allreduce;
* client-server example: each iteration receives the message its own client sent
  for it, the FIN acknowledges a complete exchange, nothing of a client is left
  for the next, and no client is forgotten.

What is hard: threads of several ranks interleave, sends complete late or not at
all, dependency waits block without progressing UCX, one semaphore is shared by all
threads of a rank, callbacks nest inside main, ranks are a round apart; clients
compete for one slot and may die, several callbacks run in one
`ucp_worker_progress`, replies are written into the buffer that requests are sent
from, failed steps are logged and passed over or not looked at, and a send that has
returned may still be held by a worker that nobody progresses. `PROJECT.json` lists
the hazards with their lines.

## 2. Modules

| Module | Models | Notes |
|---|---|---|
| `Schedule` | what the parser leaves in memory and what the code derives from it (`Keys` = `init_sem_hash`, `Peer` = `connect_to_peer`) | the facts the code takes for granted about a file are named assumptions; what a file should be like beyond that (`Balanced`, `PeersFound`, `ConflictsOrdered`, `Interlocked`, `MessagesPaired`; `Computes`, `Fresh` and `SameInputs` of `Contents`) are conditions that theorems name |
| `Schedules` | shipped schedules as data | `TwoNodes`, `AllPairs2` entire; `Ring(n)` = `allreduce_ring_4_nodes.xml` for n = 4; `Tree2` = ranks 0 and 1 of `allreduce_binomial_tree_one.xml` |
| `AllReduce` | abstract specification: contributions, then results | implemented by `Interpreter` and by `HelloWorld` |
| `ReduceService` | abstract specification: what the servers promise their clients | implemented by `OffloadServer`, used by `OffloadClient` |
| `Interpreter` | one execution on all ranks | extends `Schedule` |
| `Contents` | what a schedule computes, from the file alone | extends `Interpreter`; `Computes`, `Fresh` and `SameInputs` are more conditions that theorems name |
| `Setup` | `mpitest.cc` from main to its threads: workers, collectives, address table, `connect_to_peer` | extends `Interpreter`: its threads go on as there |
| `Rounds` | main and threads of one rank of `mpitest.cc` and `perftest.cc` | an execution is one step |
| `OffloadServer` | all ranks of `test_offload.cc -o` | extends `Interpreter`: same threads, going round |
| `OffloadClient` | the clients, one for each rank | the servers are an instance of `ReduceService` |
| `HelloWorld` | both processes of `ucp_hello_world.cc` | independent of the schedule |
| `ClientServer` | the server and several clients of `ucp_client_server.c` | independent of the others |
| `InterpreterProofs`, `ScheduleProofs`, `SetupProofs`, `RoundsProofs`, `OffloadServerProofs`, `OffloadClientProofs`, `HelloWorldProofs`, `ClientServerProofs` | theorems | |
| `MCInterpreter`, `MCSetup`, `MCRounds`, `MCOffloadServer`, `MCOffloadClient`, `MCHelloWorld`, `MCClientServer` | constants for TLC | |

The helpers exist in four copies: `test_offload.cc`, `mpitest.cc`, `perftest.cc` and
`generate_c.cc` differ in them by log lines, the name of a handler and a
`ucp_worker_fence` in `perftest.cc`. A definition stands for all copies; `PROJECT.json`
names one of them.

### Interpreter: state and actions

| TLA+ | Code |
|---|---|
| `step[th]`, `pc[th]` | position in `interpreter` (`dep`, `op`, `data`, `fwd`, `post`, `drain`, `done`) |
| `sem[k]` | value of `sem_hash["tb/step"]` |
| `buf[<<r, b, c>>]` | chunk `c` of buffer `b` of rank `r`, as the number of times each initial chunk is in it |
| `reqs[th]` | the thread's UCX send requests; `state` says how far UCX is, `taken` that the peer matched it, `done` that the callback ran |
| `sendNum[th]` | `send_num_hash[thread]` |
| `got[th]` | the scratch copy of the message being received |
| `DepWait`, `Send`, `Reduce`, `Nop` | the cases of the switch and the wait before it |
| `Receive`, `Store`, `Forward`, `RecvFails` | `receive_block` and the rest of `r`, `rrc`, `rrs`, `rrcs`, `rcs` |
| `Post`, `Drain` | the posting loop and the drain loop |
| `Flush`, `SendDone`, `SendFails` | what `ucp_worker_progress` does in a loop of this thread: only there, since a worker belongs to one thread. The last two call `tag_send_handler`, which counts down whatever the status |

A message carries its tag (`dstoff`) and data only; the buffer it is meant for
(`dst`) is kept as history to state `ReceiveMatchesSend`.

`BlockingDepWait` distinguishes `test_offload.cc` (`sem_wait`) from `mpitest.cc` and
`perftest.cc` (`sem_trywait` and progress). `SendResults`, `Rendezvous`,
`SendMayFail` and `RecvMayFail` are the freedom of UCX, described in the module. A
send can fail in two ways: UCX refuses it (state `error`), and no callback ever
counts it down; or, since endpoints have `UCP_ERR_HANDLING_MODE_PEER`, it completes
with an error (state `failed`), and its message is lost. A thread stays in its drain
loop for ever after the first and leaves it after the second; `DrainedWhenDone` says
so.

### Rounds

`program` is chosen in `Init`: `mpitest.cc` runs `num_loop` rounds, joins and prints;
`perftest.cc` (`Sweep`) runs them for each size, prints and resizes, and its threads
never end. `main` is where main is, `at[t]` where a thread is: `gate` is
`sem_wait(&sem_4_th_wait)`, `run` the execution, `tail` and `merge` the code after the
inner loop. `total_elapsed` is a maximum that every thread reads and writes without a
lock: `total` is the set of threads whose times it covers, `ReadTotal` takes it to
`seen[t]`, `WriteTotal` writes it back with the thread's own or leaves it, so that two
threads that merge at once can lose one of the two.

### OffloadServer

`pc[th] = "done"` is the thread's `sem_wait(&sem_4_th_wait)`; `main[r]` is where the
rank's main is. Requests arrive where main progresses `server_worker`: in its loop
and while it sends a reply. With `AmRendezvous` the callback waits for its data in
`ucx_wait` and may be called again meanwhile: `pulling` is that stack. Its innermost
callback returns with the data (`Pulled`) or without it (`PullFails`, for the
requests in `FailingPulls`): nobody looks at the status, and the buffer is queued
either way (`PullEnds`); `unfilled` are the requests that were queued without their
data. The n-th request of a rank carries epoch `n` in every chunk, so a reply shows
which requests were summed; epoch 0 is the content of no request, which is all that
a reply has of one that is unfilled. `executed` is history: how often a thread has
executed its tb. Finished requests of a thread are dropped when its next execution
begins; messages nobody received stay.

`taken[r]` is the history of the requests that main took. `IsService` maps the
server to `ReduceService`: `pool` is what callbacks and queue hold, `answers` the
requests that are summed in every chunk of a reply, `lost` the unfilled ones. The
order in which nested callbacks queue requests may differ between ranks; the service
promises no order.

### Setup

`main[r]` goes from `workers` (`init_all_workers_ucp`) to `gather`
(`allgather_addresses`), `buffers` and `started` (`start_thread`). A collective of MPI
is one step of all ranks. An address is a sequence of bytes; `Position` is where
`MPI_Allgatherv` writes a byte (`displs` of its rank, then `send_displs`), and
`AddressAt` what a reader finds at the offset it computes, nothing if a byte is
overwritten or missing. A thread connects (`Connect`) when its own rank has started
it, and from then on takes the steps of `Interpreter` (`Execute`), while other ranks
may still be at their set-up.

### OffloadClient

| TLA+ | Code |
|---|---|
| `main[c]` | where main of the client is: `send`, `sending` (in `ucx_wait`), `wait`, `spawn`, `compute`, `join`, `end`; `refused` and `broken` are its return of -1 |
| `sent`, `arrived`, `replied` | requests posted, arrived at the server, replies whose handler has started |
| `nested[c]` | the handlers that are in `ucx_wait`, one inside the other |
| `receiveNum[c]`, `waiter[c]` | `receive_num`, the thread of `wait_allreduce` |
| `buffer[c]`, `content[c]` | the replies of which `buffer_ptrs[0]`, and the latest request, may hold bytes |

Client and handlers run on one thread at a time: main progresses the worker in
`ucx_wait` and in its wait, the thread afterwards. `rndv` says whether messages are
large enough for rendezvous. `PullFails` is a handler whose `ucx_wait` has returned
an error: it counts the reply all the same. The servers of this model get all the
data of the requests (`lost` of `ReduceService` is empty): which requests a reply
sums makes no difference to what is checked here.

### HelloWorld

`at[s]` is where the client or the server is, `outbox[s]` what its worker holds,
`inbox[s]` what has arrived there. `SendBlock`, `TakeFirst` and `ReceiveFails` are
`send_block`, `receive_block` and `ucx_wait`; the actions are the steps of
`run_ucx_client` and `run_ucx_server` in their order, then `Flush`, `Close`, and in main
`Sync` and `Barrier`, whose ints on the socket are `token`. `mode` is the failure that
`-e` emulates, `alive` says who has not been killed. `failed[s]` is history: a step of
`s` has failed, which the code only logs; so is `joined`, for the mapping to
`AllReduce`.

### ClientServer

| TLA+ | Code |
|---|---|
| `server` | where `run_server` is: `listen` (progressing the connection worker), `recv` and `pull` (an iteration), `fin`, `finwait` (sending the FIN), `close` (waiting for `connection_closed`), `down` |
| `conn_request`, `connection_closed`, `am` | `context.conn_request`, the flag `err_cb` sets, `am_data_desc` |
| `client[c]`, `sent[c]` | where `run_client` is, and the messages it has posted |
| `ConnHandle`, `Accept`, `NextClient` | `server_conn_handle_cb`, `server_create_ep`, the end of the loop of `run_server` |
| `Receive`; `AmDataCb`, `AmTake`, `Pulled` | `send_recv_stream` and `send_recv_tag`; `ucp_am_data_cb` and `send_recv_am` |
| `SendFin`, `FinSent`, `FinReceived`, `FinDropped` | the end of `client_server_do_work` on either side |

`mode` is chosen in `Init`, the same for the server and its clients, as the command
line options must be: the API, and whether messages are large enough for
rendezvous. `conn`, `out` and `fin` are the network (UCX, external). `received` is
what the iterations received; it counts them and is kept as history. When a client
dies, the actions `AcceptFails`, `ReceiveFails`, `PullFails` and `FinSendFails` end
the server, as the error paths of `run_server` do.

## 3. Runs

| Run | Instance | Shows |
|---|---|---|
| `interp_mpitest` | `AllPairs2`, 2 ranks x 2 threads, from `Setup` on, addresses of length 1 or 2, sends may queue and complete only when received | set-up and one execution of `mpitest.cc`, in which two threads work on the same chunks: endpoints are right, dependency tokens balance, no race, no confused message, no token left, every thread ends, and it implements `AllReduce` |
| `interp_faults` | `FusedAndOneStep`, 2 ranks x 2 threads, any send may be refused or fail later, any receive fail | order, accounting and race freedom survive failures; a thread ends only when none of its sends is outstanding and none was refused, though some may have failed; and no message is left if all threads end. Sends complete early here (`Rendezvous = FALSE`), so that this says more than that they completed; the program may hang, so deadlock is off |
| `interp_blocked` (violation) | `TwoNodes`, blocking waits, sends may need progress | `Termination` fails: finding 1 |
| `rounds` | 3 threads, 3 loops, 2 sizes, either program | any distribution of the tokens ends in a join of all threads; buffers are replaced only when nobody executes. The threads of `perftest.cc` never end, so deadlock is off |
| `rounds_timing` (violation) | 3 threads, 2 loops, 2 sizes | `TimesReported` fails: finding 2 |
| `offload_serve` | `TwoNodes`, 2 requests per rank, eager | every thread executes once per request, replies are right across overlapping rounds, every request is answered |
| `offload_rendezvous` | `Ring(2)`, 2 requests per rank, nested callbacks, the pull of rank 0's first request may fail | no request is lost or answered twice, and the servers implement `ReduceService`, with its fairness |
| `offload_stealing` (violation) | `Tree2`, 1 request | `ReplyCorrect` fails: finding 3 |
| `offload_client` | 2 clients, 2 requests for each measurement, eager or rendezvous, sends may fail, as may the pull of client 0's second reply | replies are counted for the measurement they belong to, requests carry only earlier replies, a client that ends leaves nobody behind, and all end unless a send fails; after a failed send the program may hang, so deadlock is off |
| `hello_world` | every mode of `-e`, sends that leave, are held or refused, receives that fail | no worker is destroyed too early, success means that the sum is there, nothing is in flight at the end, both end without failures, and the exchange implements `AllReduce`; with `-e` or after a failure a side may wait for ever, so deadlock is off |
| `cs_clients` | 2 clients, 2 iterations, stream, tag and rendezvous active messages, clients may die | iterations receive the right messages, the FIN acknowledges, nothing is left over, and clients end unless one is killed |
| `cs_overwrite` (violation) | 1 client, 3 iterations, small active messages | `ReceivedInOrder` fails: finding 4 |

Bounds. Two ranks are all that `-o` supports (`server_port` has two entries), and
the schedules that are run for two ranks have chunks that are reduced on one and
completed on the other. Two requests are the least for two rounds to overlap, for
callbacks to nest, and for a reply to come while the next request is sent. Three
threads let one take two tokens while another takes one and a third none. Loop and size
counts are the least that have a first, a middle and a last iteration where the
code distinguishes them. `FusedAndOneStep` sums one chunk as the ring
does (`rrcs` on one rank) and one as `allreduce_1step_4nodes.xml` does (a `nop` that
waits for a send, a reduction of what another thread received), so that it
runs every action of the interpreter, forwarding included.
Every `ASSUME` of `Schedule` is evaluated on each schedule that is run, and so are the
conditions that theorems ask of a schedule (`ConditionsHold`). With two
clients one can be served while the other waits, is rejected, or comes next; two
iterations have a first and a last. One pull that may fail is enough: it can be the
inner or the outer of two nested callbacks, come in the first round or in the second, and of
the ranks one gets the data and the other not. In `cs_clients` deadlock is off: a server whose
client has died may stop, or wait without a step of its own.
`interp_mpitest` and `interp_faults` have the dependency wait of `mpitest.cc` and
`perftest.cc`, the other runs of schedules the blocking one of `test_offload.cc`. The sends of
`offload_serve`, `offload_rendezvous` and `offload_stealing` leave at once (`SendResults` is
`ready`): with blocking waits a send that is held back may hang the program (finding 1),
and `AllServed` and `IsService` say what holds outside that.

In `interp_mpitest` each of the four workers has an address of one or two bytes
independently of the others, so that every pair of running sums differs in some state.

Fairness. `WF` for each thread: the operating system runs what is not blocked, and
a worker that is progressed again and again completes what UCX can complete.
`WF` for each main for the same reason. Nothing is assumed of the order in which
threads get a semaphore, nor that a worker nobody progresses does anything.
In `Setup`, `WF` for the collectives too: MPI completes one that all ranks have
entered. In `OffloadClient`, `WF` for each client, for the arrival of its requests,
and for the servers, which is what `IsService` shows `OffloadServer` to keep; none that
says a send succeeds, and `ClientsEnd` excepts failed ones. In `HelloWorld`, `WF` for each
process while it is alive. In `ClientServer`, `WF` for the server and for each client, and
none for `Die`.
`ClientsEnd` of `ClientServer` does not speak of active messages: there `FinDropped`, the
hazard of `ucp_client_server.c:932`, leaves client and server waiting for each other.

## 4. Findings

1. `test_offload.cc:865` waits for a dependency without progressing its worker;
   `mpitest.cc:714` does progress it. If the send a peer needs has not left when
   its thread blocks, all ranks wait for ever.
2. `perftest.cc:842` merges a thread's time after the post that releases main, so
   the printed time of a size can lack threads, and theirs goes into the next.
3. `test_offload.cc:858`: tokens are not tied to threads. A thread that depends on
no other (the leaf's sender in a binomial tree) can take two in one round, and the
reply is sent without the receiving tb having run. Schedules whose tbs all wait for
each other within a round (`Interlocked`), like `TwoNodes`, are not affected
(`ServerIsRaceFree`, `RepliesAreSums`). Of the 15 that the repository ships, 8 are
such: the two rings of one tb per rank, both for two nodes, `a100_allpairs`,
`recursive_doubling_halving`, `1.xml` and `2.xml`; the two that are run in two
instances, the 1-step, the binomial and the hierarchical ones are not.
4. `ucp_client_server.c:495`: `am_data_desc` holds one message. Two small active
   messages whose callbacks run in one `ucp_worker_progress` leave the second only,
   and the server waits for an iteration the client never sends. By rendezvous the
   client's next send waits for the server's receive, so it cannot happen.

Two more disagreements with comments need no interleaving and have no run: in
`ucp_hello_world.cc:730` the test of `failure_mode` is inverted ("If peer failure testing
was requested, set `ret = 0`"), so that a refused string is a failure with `-e` and an
endless wait without; and the client's check of `ep_status` while it waits for the
string is commented out, so that with `-e send` it never learns that the server is dead.
Both are in the model as they are in the code.

## 5. Proofs

For every schedule that satisfies the assumptions of `Schedule`, every number of
ranks and every behaviour of UCX that the constants allow (`InterpreterProofs`):

* `TypeCorrect`; it also says where a thread can be relative to its steps, which
  the other proofs need;
* `TokensAreConserved`: a semaphore holds what its step posted less what its
  dependents took. Inductive with `TypeOK`: `DepWait` moves one place into the
  counted set and takes one token, `Post` makes the key passed and adds `hasdep`;
* `DependenciesOrdered`: from it, since a semaphore is non-negative and zero
  before its step has passed;
* `SendsAreAccounted` and `DoneIsDrained`: from `SendInv`, which relates `sendNum`
  to the requests that are not done, and says that a done request has been sent or has
  failed later, so that a refused one is never done: neither the completion of a
  send nor a failure of it can make the counter zero for another one;
* `NothingLeftInSemaphores`: if `hasdep` counts the dependents (`Balanced`).

What a schedule must be like for its contents not to be mixed up, and to be the
sums, is stated in `Schedule` and `Contents` as conditions on the file alone, and
`ScheduleProofs` shows that they are enough, for every schedule, number of ranks and
interleaving:

* `ChunksAreRaceFree`: if of two conflicting steps of different tbs one is before the
  other by the order of its tb and by `depid` (`ConflictsOrdered`), no two threads access a
  chunk at once. From `DependenciesOrdered`: the steps that have completed are closed
  under `Predecessors`, so a step that is `Before` one that runs is among them;
* `AllMessagesReceived`: if a tb receives from one tb, and of each tag as many messages as
  that sends (`MessagesPaired`), none is left when all have ended. `CountInv`: the
  requests of a sender with a tag are as many as the sending steps it has passed, and those
  that are taken as many as the receiving steps of its peer;
* `EachReceivesItsMessage`: if UCX fails nothing (`SendResults` without `error`, not
  `SendMayFail`, not `RecvMayFail`) and the n-th send and receive of a tag mean the
  same place (`MessagesPaired` again), each receive gets what was meant for it.
  `OrderInv`: the n-th request of a tag is that of the n-th sending step, and the
  taken ones are the first (`QueueOrder`), so the n-th receive takes the n-th.
  Failures are excepted with reason: a send that is refused or fails, or a failed
  receive, which skips the send of its step, shifts those that follow.

* `SchedulesAreAllReduces`: a schedule that is an allreduce when its steps are taken one
  after the other is one in every interleaving. `Contents` defines what each step leaves in
  the chunks it writes (`Computed`), by recursion over what it finds, or is sent to it;
  `Computes` says of the file that this recursion ends (`WellFounded`), that the last
  writers of the input chunks leave the sums (`SumsUp`), and that every rank has an input
  and sends (`EachTakesPart`). `ContentInv` ties the execution to it: a chunk holds what
  the last of the steps that have written it leaves (`ChunksHold`), a request what its
  step sends (`RequestsHold`), a matched message what its step receives (`MatchesHold`). It
  is inductive because a step finds all the writes before it and none after it
  (`WrittenBefore`, from `ConflictsOrdered`), and its message is that of its partner
  (`NextMatch`, from `OrderInv`). `Computed` is never unfolded but at the step that is
  taken, so that no induction over the schedule is needed. That a rank ends only
  when all have contributed is a second invariant (`Unmixed`): nothing of an input is
  outside its rank before that rank has sent, but a sum has a part of every input.

These conditions, and `Fresh` and `SameInputs` below, hold of all 15 schedules that
the repository ships; TLC evaluates them on those that are run. Where they hold, the
theorems replace a check of the interleavings of that schedule by one of the file.

`SetupProofs`: the composition of set-up and threads implements `Interpreter`
(`SetupIsInterpreter`), because no thread takes a step of `Interpreter` before it is
connected and set-up changes none of its variables; so its invariants hold of
`mpitest.cc` from main on (`ExecutionsAreSafe`, and `ExecutionsAreClean` and
`ExecutionsAreAllReduces` where the schedule meets the conditions), whatever the
addresses. `EndpointsAreRight`: for any number of ranks and workers and any lengths,
no byte of an address is written where another one is (`PositionsDiffer`), so that a
reader finds at `displs` plus offset the address that starts there (`AddressFound`),
and `connect_to_peer` looks up that of the peer (`FirstIsPeer`). The displacements
are running sums; that they grow by what is added (`RunningSumStep`, which includes
that the recursive function exists) is proved from the least number for which it
would fail.

For every schedule, any number of ranks and requests (`OffloadServerProofs`):
`ServerTypeCorrect`, whose steps of threads are those of `InterpreterProofs`,
started again by `Begin`; `MainIsAlone`, from an invariant that counts the tokens of
a round, in the semaphores or with threads that execute, for each place of main
(`Round`); and `RequestsAreConserved`, which needs only that callbacks nest as a
stack and main takes one request at a time. For schedules that are `Interlocked`
(finding 3 is what happens to the others), `ServerIsRaceFree` and
`EachThreadExecutesOnce`: chunks are as race free in every round as in the first,
and when main has collected a round, every thread has executed its tb as often as
main has taken requests, and the semaphores of the dependencies, which nothing
resets, are at zero. The count is `executed`, with the invariant that a thread which
has ended its round has one execution for each request taken, and one that has not
yet ended it has one less (`ExecutedInv`). `RoundInv` has a set of threads that have
begun the round of their rank; with the tokens of `thSem` they are as many as main
has posted, and the balance of `TokensAreConserved` is counted over them. A thread
that has ended its round has, by `Interlocked` and the balance, waited for a step of
each other thread of its rank, so all have begun and there is no token for it to
take (`NoneTakesTwo`).

`RepliesAreSums` (`ReplyCorrect`) puts the contents on top of that. Three things
differ from one execution. The buffers are not cleared between rounds: a schedule
must be `Fresh`, that is, a step finds in the output and scratch buffers only what
steps before it in the same round have written (only the input buffer is written by
`Take`). Messages with the same tag of two rounds can be under way together:
`RoundsCounted` counts the requests of a sender over all rounds, so that the n-th
request with a tag is that of a known step in a known round (`FirstIsNext`,
`PartnerIsFound`, on the quotient and the remainder of n), and the receive takes the
one of its own round. And a chunk holds the requests of its round, which a rank that
is behind has not taken yet: `Contents` computes with the initial contents of epoch
0, and a labelling `L` says which request the n-th round of each rank adds up
(`Relabel`). The invariant (`ContentsAre`, in `ServiceInv`) is that chunks,
requests, matched messages and replies are what `Contents` computes, relabelled,
under *every* labelling that agrees with what the ranks have taken so far. It says
at once what a reply is (the labelling by `taken`) and that nobody replies before
all have taken: if a rank had not, two labellings that differ in its request would
give the reply two contents (`AllHaveTaken`).

`RequestsInOnePlace`: the requests that callbacks, queue and main hold are all
different (`Separate`), since each is one that arrives moved from one to the next.
So a pull that fails concerns no request that main has taken, and what a reply is
the sum of stays what it is (`HeldKept`): both theorems hold with failed pulls. With
it and `RepliesAreSums`, `ServersImplementService` maps the servers to
`ReduceService` step by step: a callback is `Arrive`, or nothing when it returns;
main's pop is `Take`, and its reply `Answer`, whose sum is read from the chunks
(`SummedInSum`, which needs input buffers of one size, `SameInputs`); all else is a
stutter.

For any number of clients and requests (`OffloadClientProofs`), one invariant says
where main can be and what it has sent by then (`Place`), what servers have taken
and answered of it (`Served`, from `ReduceService`), and what `receive_num` counts
(`Counted`). `RepliesAreCounted` is its last part. `NobodyIsLeft`: a client ends with
`RequestNum` replies of its second measurement, so the servers have answered it
`2 * RequestNum` times, and each answer needs a request of every rank.
`RepliesComeLater`: no more replies than requests. `TypeCorrect`: with all three, and that a
handler which waits is of a reply that has come (`Nested`).

For every outcome of sends and receives (`HelloWorldProofs`): `DisconnectedFirst`. A side
has sent its int only once it has closed its endpoint, and leaves the barrier with
success only when it has the other's int; all other steps leave it short of its end
(`Early`).

`TypeCorrect`, `SuccessIsSum`, `NoMessageInFlight` and `ImplementsAllReduce` come
from one more invariant (`ExchangeInv`), which says for each place of a side: what
its chunks hold (`Progress`), what it has sent (`SentBy`), and what may still come
to it (`Expected`); and that no two messages with a tag are on their way to a side
(`TagsDistinct`), so that a receive which asks for a tag gets the one message that
its place expects: the other's chunk before the sum, the sum after it. A failed step
releases its side from the promise, which is why `failed` occurs in it. The
refinement follows: a side contributes when UCX has taken its own chunk, and
finishes when it leaves the exchange without a failure, with the sum in all its
chunks.

For any number of threads, loops and sizes (`RoundsProofs`): `TypeCorrect`;
`TokensAreBalanced` (inductive; `Begin` and `Finish` move a thread in and out of
the set that executes); `QuiescentBetweenRounds`, its consequence when main has
nothing out.

For any number of clients and iterations, any deaths and every mode
(`ClientServerProofs`): `TypeCorrect` and `FinIsAcknowledgement`. For every mode but
small active messages (`NoEagerAm`, without which finding 4 refutes them):
`MessagesAreInOrder` and `NothingIsLeftOver`. Their invariant says that by rendezvous a client
has at most one message that is not received (`OneAtATime`); that what it posted is what has
been received, then what `am_data_desc` holds, then what is on its way
(`Accounted`); when that slot is in use (`SlotInUse`); and that a client the server
has moved on from had all its messages received (`OthersFinished`).

Only model-checked:

* liveness under fairness (`Termination`, `AllServed`, `BothEnd`, both `ClientsEnd`, `Joined`),
  with the fairness of `IsService` and of `Interpreter`'s `IsAllReduce`, which is out of the
  prover's reach.

The condition `Interlocked` of the theorems about servers is there for a reason:
finding 3 is a schedule that is not, meets all the others, and refutes
`ReplyCorrect`. `RepliesAreSums` and `ServersImplementService` also ask that UCX
fails no send and no receive between ranks: the code logs a failed one, or does not
look at it, and goes on with the round, and then nothing is promised. Failed pulls
of requests they allow.

## 6. Not modelled

* XML reading and its errors, logging, timing values, memory allocation failures,
  creation of UCX contexts, workers, listeners and endpoints (`ucp_client_server.c` and
  `ucp_hello_world.cc`: the failure of an endpoint is modelled), vendored code.
* The number of ints in a chunk and in a buffer: `CHUNK_SIZE_INT` truncates.
* A reply that UCX refuses in `test_offload.cc`, which main passes over without a
  trace: its client waits for ever. What the data of a failed pull has overwritten
  in part: such a buffer counts as not holding its request.
* The handlers of endpoint errors (`failure_handler`) outside `ucp_hello_world.cc`,
  which only log: the failures that they announce are `SendFails`, `RecvFails` and
  `PullFails`. Ranks and clients of the interpreter, the servers and
  `test_offload_client.cc` do not die in the models.
* Data races on the table of `send_num_hash` and on `elapsed` are recorded as hazards
  only; the one on `total_elapsed` is in `Rounds`. `sem_wait` is taken not to be
  interrupted.
* What UCX does with a worker whose process exits (`mpitest.cc` has no barrier at its end).
* The smoke tests, `myucp.cc`, `mpi_allreduce_test.cc` and `test.cc`: straight-line programs
  without state of their own, in which nothing depends on an order. `generate_c.cc` has no
  main; its helpers are the modelled ones, and its `connect_to_peer` has no caller.
* The wait and event modes of `ucp_hello_world.cc` (`-w`, `-f`): the loops that used them
  are commented out, and `test_poll_wait` has no caller.

Worth doing next: that each rank of `OffloadServer` implements `Rounds`; that
`OffloadClient` may be composed with `OffloadServer` itself in place of
`ReduceService`; the interpreter under failures of UCX, of which only order and
accounting are proved.
