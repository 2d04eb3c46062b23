# TLA+ models of netProg

netProg is four small C programs, one per exercise: a file transfer (p1), the
same with a `select` server and a forking server (p2), a web server with a
thread pool (p3) and a file sharing overlay with two super nodes (p4).  This
directory holds TLA+ models of the parts whose behaviour is hard to test, the
TLC configurations that check them and proofs checked by TLAPS.

## 1. Inventory

### p1: file transfer
* **State.** Client: the file being read, the last packet sent (its sequence
  number), `fileStored`, `storedError`.  Server: the buffer that grows with
  every DATA_DELIVERY, `bytes_read`, the three flags that end its loop.
* **Operations.** CLIENT_HELLO / SERVER_HELLO, DATA_DELIVERY / PKT_RECEIVED per
  block, DATA_STORE / FILE_STORED or STORED_ERROR, ERROR.
* **Hard.** One `read` is taken for one packet; at the end of the stream the
  packet of the previous read is handled again; sequence numbers are 16 bits.
* **Correct when** the stored file is the file sent, or what a short or killed
  `write` leaves of it, and both ends stop.

### p2: two servers and a client
* **Select server.** Per slot a buffer, the last sequence number and the bytes
  read; the same handlers as p1, one packet per call.  Hard: a slot is reused
  by another client, a buffer is freed and its pointer kept.
* **Multi server.** One process per client, reaped by `sigchldHandler`.  Hard:
  signals merge and interrupt `accept`.
* **Client.** One detached thread per request, all with a pointer to the same
  `threadArgs`.  Hard: the argument is overwritten after 100 ms, `main` returns
  while threads still send.

### p3: web server and client
* **Task queue** (`task_queue.c`): a linked list `head`, `tail`, `len`, with
  `mutexQueueRW`; `enqueueTask`, `dequeueTask`.
* **Binary semaphore** (`task_queue.c`): one mutex, one condition variable and
  one flag `val[i]` per thread; `bSemPost(i)` resets all flags, sets one and
  broadcasts; `bSemWait(i)` waits for its own flag.
* **Thread pool** (`thr_pool.c`): `numActiveThreads`, `numWorkingThreads`, the
  threads, and a signalling thread that polls the queue and posts the thread
  assigned to the head.  `threadPoolInit`, `threadPoolEnqueue`,
  `signalThreadFunc`, `threadFunc`, `threadPoolWait` (without a caller).
* **Select loop** (`web_server.c`, `server_utilities.c`): `fileDescriptorPool`
  with `clientfd`, `read_set`, `ready_set`, `nready`, `maxi`, `maxfd`.
  `addClient`, `handleClientFds`, `handleClientRequest`.
* **httpResponse, writeLog**: run by the threads of the pool, on the same table
  of descriptors.
* **Client** (`client_utilities.c`): each thread connects, and for each request
  reads until it sees the end message.
* **Interaction.** main -> queue -> signalling thread -> semaphore -> threads ->
  socket -> client -> main.
* **Hard.** Stale flags and wakeups meant for another thread, the head of the
  queue used by two threads, descriptors closed and reused while a task holds
  their number, end messages cut by TCP, errors that end the process.
* **Correct when** each accepted task is executed once and in order, no wakeup
  is lost, every client reads exactly its own responses.

### p4: overlay
* **File information table** (`super_lib.c`): open addressing, never shrinks;
  `hashFunction`, `insertFileInfo`, `searchFileInfo`.
* **Super node** (`super.c`, `super_lib.c`): the table, `childPorts`, the address
  of the other super node, a descriptor pool as in p3.  One handler per packet
  type; FILE_INFO calls the other super node and blocks for its answer.
* **Child node** (`child.c`, `child_lib.c`): registers, searches, downloads from
  peers; a second thread serves its own files.
* **Hard.** Two servers that block on each other, infos that arrive before the
  other super node is known, limits (`recvBuff`, `childPorts`, the table),
  memory that is never initialised.
* **Correct when** what is stored is true, what is acknowledged is stored and
  shared, every request is answered once.

`PROJECT.json` lists the components with what is and is not modelled of each,
and under `hazards` every place where the code is hard to test.

## 2. Modules

| module | models | built on |
|---|---|---|
| `PoolService` | what the pool promises: tasks are started in order, each by one thread, and finished | |
| `ThreadPool` | `thr_pool.c`, `task_queue.c` lock by lock | refines `PoolService` |
| `ThreadPoolProofs` | theorems about `ThreadPool` and `TaskQueue` | `ThreadPool`, `TaskQueue`, TLAPS |
| `TaskQueue` | the linked list of `task_queue.c` with address reuse | |
| `WebServer` | select loop, descriptor pool, httpResponse, writeLog, clients | extends `PoolService` |
| `WebServerProofs` | theorems about `WebServer` | `WebServer`, TLAPS |
| `FileInfoTable` | the hash table of a super node | |
| `FileInfoTableProofs` | theorems about `FileInfoTable` | `FileInfoTable`, TLAPS |
| `SuperOverlay` | two super nodes, children: start-up, registration, share, search | |
| `SuperOverlayProofs` | theorems about `SuperOverlay` | `SuperOverlay`, TLAPS |
| `TransferService` | what the transfer of a file in p1 and p2 promises: a file arrives as a whole or not at all, and "stored" is true, unless the `write` of it came short or was killed | |
| `Transfer` | the client of p1, the streams of its connection | extends `TransferService` |
| `TransferProofs` | theorems about `TransferService`, lemmas about `Transfer` | `Transfer`, TLAPS |
| `FileTransfer` | the p1 server with its clients | extends `Transfer`, refines `TransferService` |
| `FileTransferProofs` | theorems about `FileTransfer`, for any server of its loop, and about `MultiServer` | `MultiServer`, `TransferProofs` |
| `MultiServer` | the forking server of p2: parent, children, SIGCHLD | extends `FileTransfer`, refines `TransferService` |
| `RequestClient` | the p2 client program: `main()`, its threads and their shared `threadArgs` | extends `Transfer` |
| `SelectServer` | the select server of p2 with its slots | extends `RequestClient`, refines `TransferService` |
| `SelectServerProofs` | theorems about `SelectServer` | `SelectServer`, `TransferProofs` |
| `PeerDownload` | the command `get` of a child and the thread that serves its files (p4) | |
| `PeerDownloadProofs` | theorems about `PeerDownload` | `PeerDownload`, TLAPS |
| `MC*` | constants of the runs | their module |

### ThreadPool
Each thread has a control point `pc`; each `pthread_mutex_lock` is a step, and
the statements up to the unlock (or to the next lock) are one step.  `Main` is
the thread of `main()`: it creates the threads (`ThreadInit`), waits for
`numActiveThreads` (`AwaitActive`) and enqueues one task per request.  `Signal`
runs `signalThreadFunc`; it takes `semMutex` while it holds `mutexQueueRW`.  A
thread sleeping in `pthread_cond_wait` is at `semSleep`: the broadcast moves
every sleeper to `semLock`, and so may a spurious wakeup.  The queue is a
sequence; that the list is one is what `TaskQueue` shows.  The round robin in
`handleClientFds` is written `% 10` and `THR_NUM` is 10: both are the constant
`THR_NUM`.  The program is built with `-g` and without optimisation, so the
empty loop on `numActiveThreads` reads the variable every time.  The allocation
of a task and of its `clientInfo` succeeds.

### TaskQueue
Nodes are addresses.  `prev` of a node that is free or fresh holds garbage.
`enqueueTask` and `dequeueTask` hold the mutex throughout and are one step each;
`malloc` and `free` are separate steps.  The ghost `order` is the queue that the
list is to represent.

### WebServer
A system call is a step.  `fdTable` is the kernel's table of descriptors 1 ..
`MaxFd` (0 is the listening socket): a new descriptor is the lowest free one, and
the two files of a thread take one while they are open, the log (`OpenLog`,
`CloseLog`) and `index.html` (`OpenFile`, `CloseFile`).  The number of a socket
that was closed under a thread may be that of such a file: a log is open for
appending and takes the response (`WriteToLog`), `index.html` does not
(`WriteFails`).  `info[n]` is the `clientInfo` of task
`n`, with the client and request it stands for, which the code does not store
and the properties need.  The thread pool is `PoolService`: `EnqueueRequest`
contains its `Accept`, `TakeTask` its `Start`, `CloseFile` its `Finish`.
A request is read by one `read` (it is 50 bytes in one segment).  A response is
header, body and an end message in two halves; `SplitReads` says whether one
`read` of the client may end between the halves.  `reset` holds the closed
connections on which the next write of the server fails.  `maxi` is never
initialised: `Init` takes a value below, inside and beyond the array.  Errors of
`select` and `ioctl` are left out.

### FileInfoTable
A name is a value with the sum of its chars (`CharSum`, negative sums included)
and the relation `Begins`, which `strncmp` over the length of the searched name
cannot tell from equality.  The probing loops are written as the nearest
distance at which they stop (`Nearest`); `Loops` is the search that never
returns.

### SuperOverlay
Every node is a process; a super node handles one packet at a time and is at
`share` while it waits for the answer of the other.  Every connection has one
client (a child, or the other super node), so its state is indexed by that client:
`backlog` before `accept`, `addr` after, `sent` towards the server and `answers`
towards the client.  `addr` is the client's own address, or `Unwritten` for the
first connection of a process, because `clientAddrLen` starts as `sizeof(int)` and
the first `accept` does not write `sin_addr`.  Whatever `recvBuff` cannot take of
a packet stays in the stream as a `rest` packet of an unknown type.  The table is
a set of infos, and a search picks any info that `Matches`: of the name searched
for, or, as `strncmp` compares only that many characters, of a name that `Begins`
with it.  `FileInfoTable` has the probe, which decides which of several infos is
met first; it also tells why the failure is answered only if no info is `Named`
exactly so, while those of a longer name may be missed.  A FILE_INFO takes two
steps: `FileInfo` stores and acknowledges the infos and leaves them in `sharePkt`,
and `ShareConnect` connects to the other super node and writes them, or gives up.
In between, at `connect`, others go on and either node may die.  Nodes in `Mortal`
may be killed at any step (`ChildKilled`, `SuperKilled`).  A dead child leaves its
unread request, and answers a write by a reset (`reset`). A dead super node leaves
its clients without an answer: children give up (`ChildNoAnswer`), the other super
node reads 0 and goes on or, when the share was not read, fails and exits
(`ShareUnanswered`, `ShareFailed`).  A packet that was never filled counts as an
unexpected one.  Nothing is stored on disk, so a node that is started again is a
new node. The ghosts are `lost` (children whose infos were not shared) and
`promised` (the searched file had been acknowledged by the searcher's super node).
Left out: sizes of files (`PeerDownload` has them), the descriptor pool
(`WebServer` has the same code), a child with port 0, random ids that are equal.

### TransferService
`Keep` writes the file of a client: the whole of it, or only its first blocks
(`Part`), as a `write` may come short, which is no error for the servers, or be
killed on its way.  In the second case the client is `torn`, and nothing is
promised but that what is there are blocks from the beginning of its file.
`Create` is an `open` whose write failed, and `TellStored` is possible only when
the file is there, or its write was `torn`.  `Overwritten` is what
`open(O_WRONLY | O_CREAT)` and a `write` leave of a longer file: its end, as there
is no `O_TRUNC`; "stored" means no more than that, so `Stored` has this end too.  Names
are shared by clients, so two of them may store the same file; it has then the
same content.  Clients in `Cut` have packets that TCP cuts in two: for these
nothing is promised of the content.

### Transfer, FileTransfer
One `read` and what is done with the packet is a step.  `got` and `recv` are
`clientRecvPkt` and `serverRecvPkt`, which keep the packet of the previous
`read`: at the end of the stream `read` returns 0 and that packet is handled
once more (`Reply`, `Receive`).  A packet is a command with blocks of the file,
an answer a command with the sequence number of the server; the sequence number
of the client, which nobody reads, is left out.  `Send` and `Answer` know three
cases: the other end is there, it has closed (the write is answered by a
reset), it has reset (SIGPIPE).  Every variable of the server is a function of
the connection, so that `MultiServer` can give a process to each.  The p1
server accepts one connection; the others find it gone.  `Failures` are the
calls that may fail: `file` (the client cannot read its file), `memory`
(`realloc`), `open` and `write` at the server, and `short`, a `write` that takes only
some blocks and is answered with FILE_STORED all the same (`WriteUpTo`).  A server
may also be killed inside this handler: before `open`, in the `write` or between
the `write` and the answer (`KilledInStore`).

Assumed: the reset of a connection is known to the other end at once; the bytes
that stand where a command should be, after a cut, are no command; a short write
ends between two blocks; a server is killed only after its first answer and a
client only after its CLIENT_HELLO, since the packet handled at the end of the
stream would otherwise be an uninitialised variable.

### MultiServer
The parent is at `accept`, `fork` or `close`, the descriptor it has to close is
in `held`, and a connection ends for the client when child and parent have
closed it.  The handler of SIGCHLD runs between any two steps of the parent
(`hpc`); `pending` is one bit, as signals are not queued.  A `fork` that fails
returns -1, which is not 0: the parent goes on and closes the connection.  The
children run the loop of `FileTransfer`, which `multi_server_utilities.c`
repeats; the clients are threads of the p2 client, with files of one block.

### RequestClient, SelectServer
`CopyArgs` is the first statement of a thread: it takes whatever number
`main()` has written last.  Nothing is assumed of the 100 ms that `main()`
sleeps.  `MainReturns` ends the process: the connections of its threads close
wherever they are.  A thread is a client of `Transfer`, and its message one
block.  `SelectServer` takes one slot of the loop of `handleClientFds` at a time:
what is ready stays ready, so that the order of slots and of `select` calls
does not matter.  `memory[i]` says whether `buffer[i]` is NULL, allocated or
freed; a use after free makes the process `corrupt`.  ERROR and unknown commands
do not occur, as the p2 client sends an ERROR only on a connection that was
reset, and its packets are too short to be cut.

### PeerDownload
A child has two control points, `dpc` for `main()` and `lpc` for `childServer`.
A connection is `<<child, number of the get>>`, and `place` is where its server
end is: the backlog, a slot, accepted without a slot (`forgotten`), closed.  The
client end is closed only by the death of the process, as in the code.
`last` is the packet in `fileResSuccessPkt`, which is taken again when `read`
returns 0.  `stored` is the filled part of `fileBuffer`; writing beyond it makes
the process `corrupt`.  A super node answers with any info that was registered and
`Matches` (`SuperOverlay` has how it comes by it).  The answer has an address and a
size but no name: the name the user entered is requested from that peer, with a
`fileBuffer` for the size of the file that matched, which may be another one
(`Begins`).  `Change` is the user who changes a file of `./data`, once per file;
`Unreadable` is a directory there.  A file is a sequence of `Units`, and `PACKET`
units fit in a packet.

A packet may be read in parts, by the children in `Cut` (`Reads`).  Of one that is
not there as a whole, the header is believed and the rest is what was in the
buffer (`Beginning`).  The remainder is taken for a packet of its own, with
whatever type and size, and may reach into the next one (`Remainder`).  The ghost
`cut` has the connections on which that happened.  A packet of negative size
is 11 bytes long and so lacks the last byte of its type, for which there may be
anything (`Whole`).

The file is stored under a name the user enters (`dest`, of `Dests`), so that
different files may be stored over each other.  `./download` is opened without
`O_TRUNC` (`child.c:273`): `After` is what a shorter file leaves of a longer one.  Its
`write` may take less than it was given, which is not looked at (`Written`).  The
ghost `from` says, for every file in `./download`, what its first `len` units
are meant to be.  `SockBuf` bounds what a connection holds before `write` blocks.

Assumed: a part of a packet has at least its header, and fits `PACKET`; children
do not die before their thread is created; a packet that was never written counts
as an unexpected message.

## 3. Runs

Bounds are in the `.cfg` files; these are the reasons for them.

| run | bounds | shows |
|---|---|---|
| `thread_pool` | 3 threads, 3 tasks | the invariants of the pool, and that `ThreadPool` implements `PoolService` with its liveness; three threads allow a stale flag, a poster and a third party |
| `task_queue` | 4 addresses | list = FIFO queue; a queue of three, the middle node included, with an address outside |
| `web_server` | 2 clients with two and one requests, 2 threads, 4 descriptors, 2 slots | a socket per client and a file per thread: everything is in use at once, clients race, one of them sends its second request while the other is served; under fairness all are served |
| `web_server_stress` | 1 slot, 2 descriptors, two clients that may be killed, split reads | `SlotsMatch` when everything is at its limit; fires all error actions, also a response written to a log |
| `file_info_table` | 5 cells, 5 names with colliding, wrapping and negative sums | chains stay connected, a stored name is found, a search ends below the bound |
| `overlay` | 3 children over both super nodes with 1, 2 and 3 files, 1 slot, 2 cells, 2 files per FILE_INFO, 1 per FILE_INFO_SHARE, 1 search each, names of which one begins with another | any start order; `recvBuff`, `childPorts` and the table all overflow while searches race registrations; one name begins with another; a child and a super node are killed in the middle of them, also between acknowledgement and share |
| `overlay_served` | 2 children at one super node, either super node killed | under fairness registrations and searches end; the super node of the children dies, or the other one while it is waited for |
| `overlay_mutual_share` | 3 children, the super nodes started in the documented order | violated, see findings |
| `file_transfer` | 2 clients, files of two blocks and of one, over nothing and over a longer old file; packets of one client cut; all failures, short writes included; both programs killed, the server also in its `write`; sequence numbers modulo 3 | the file on the disk is the one sent or none, or begins with what its write has stored when that came short or was killed; "stored" is true but for such a write; every transfer ends but for a cut packet; with two blocks there is a first, a middle and a last packet, and the numbers wrap |
| `multi_server` | 2 clients with one block, one of them killed, and `memory`, `open`, `write`, `fork` failing, `write` coming short | two children are enough for signals that merge, and for one client to be stuck because of the other |
| `select_server` | 2 programs with two threads and one, 2 slots, files of one block, one of them over a longer old file, `memory`, `open`, `write` and `pthread_create` failing, `write` coming short | every slot is used twice, a connection finds no slot, both programs end at any point, two threads send the same file |
| `peer_download` | 2 children with 1 and 2 gets, two names of which one begins with the other, one destination; packets of 2 units, files of 1, 3 and 4, a directory; 1 slot, 1 packet of socket buffer; one child that may be killed and whose reads may be cut; `open` and the storing failing, the latter also short | a download takes two packets; a get is answered with the size of another file, larger or smaller; a longer file is stored over; a child serves and downloads at once and dies in either role; the server blocks, is killed by SIGPIPE, runs out of slots |

`Inv` is, in each of its modules, the type invariant together with the
supporting invariants named there (`SocketKept`, `OneAnswerDue`, `ServerStaysUp` in
`WebServer`; `OneAnswerDue`, `NoWriteToReset`, and with `Connections` and `Promises`
what makes them inductive, in `SuperOverlay`; `OneAnswerDue` in `FileTransfer`, with
`Connections` and `OneServed`, and `NumberNotEarlier` in `SelectServer`, with `Places`,
`Exchange`, `Connection`, `Promise` and `SlotOK`, which make it inductive; `NoOverrun` in
`PeerDownload`).  The types of `ThreadPool`, `TaskQueue` and `FileInfoTable`, and
`WorkingCount`, `LenCounts` and `DequeuesOldest`, are proved and have no run.

`CHECK_DEADLOCK FALSE` stands where the system really stops: all clients have
closed, the server has exited, the bound on insertions or searches is reached,
two super nodes block on each other.

Some properties hold only away from a limit of the code, and say so: `ScanCounts`
as long as `accept` does not fail (no more connections and files than
descriptors), `OwnResponse` and `ServerStaysUp` without killed clients,
`EveryClientServed` with end messages that arrive whole (`SplitReads = FALSE`),
`SearchEnds` below the bound of the table, `EveryChildRegistered` when only one
super node is asked to share, `EveryTransferEnds` as long as no packet is cut,
`ConnectedEnds` for connections that found a slot. `StoredIsSent` leaves out the
client whose own `write` came short or was killed, and files of clients whose
packets are cut, and `FilesWhole` says of the first only that blocks from the
beginning were written. `NoOverrun` names what may overrun `fileBuffer`: a file
that was changed, that cannot be read or that is larger than the one that matched,
a packet read in parts, a peer that has died. `DownloadRight` is about what the
`write` has stored, in the length that it has, and leaves out files that were
changed, peers that died and packets read in parts. `GetEnds` holds save for the
reasons in `Starved`: the file is smaller than `fileBuffer`, or empty, because it
was changed or another one matched; a packet was read in parts; the connection has
no slot; the process of the peer is corrupt, or its thread is stuck with a
directory or with a client that does not read.

The properties of passing runs that say most:

* `TasksConserved`, `ImplementsPoolService`: the semaphore may wake a thread for
  a task that is gone, or leave a flag on; still every task is executed exactly
  once, in order, and in the end.
* `NoSleepWhilePosted`: no lost wakeup although all threads share a condition
  variable.  With `pthread_cond_signal` it would fail.
* `HeadIsPosted`: why `signalThreadFunc` may dereference the head.
* `ListIsFifo`, `OwnedOnce`: no dangling pointer under address reuse.
* `ScanCounts`: an uninitialised `maxi` is harmless because `nready` is exact
  as long as `accept` does not fail.
* `SocketKept` and `OneAnswerDue` in `Inv`, `OwnResponse` (web server): without killed
  clients no descriptor is closed under a thread.
* `ChainsIntact`, `SearchFindsStored`: linear probing with wrap around.
* `StoredIsSent`, `FilesWhole` and `ImplementsTransferService` (three servers):
  the packet that is handled again at the end of a stream, killed programs and
  calls that fail visibly leave no part of a file and no false "stored".  Both come
  only from a `write` of this very file that is cut short or killed, or a packet
  that is read in parts, and then from nothing that happens to other files.
* `BufferMatches`, `SlotHoldsOwnData`: nothing is lost, repeated or mixed up
  between the file of a client and the buffer of the server.
* `ServerStaysUp` (select server): a client that dies costs the server at most
  one write to its connection, as it is silent after that; and the freed buffer
  is not met again before its slot is closed.
* `NoZombieForgotten`: the loop around `waitpid` makes up for
  merged signals.
* `NumberNotEarlier` in `Inv`: a late thread may send the file of a later one, twice
  then, and the number of its own is not sent; it is never an earlier one.
* `NoOverrun` in `Inv`, `DownloadRight`, `GetEnds`: within what is modelled, a download
  overruns its buffer, stores something else or does not end only for the
  reasons the properties name; each of these can happen in the code.
* `SearchRight`: a file that was acknowledged before it is searched for is never
  answered with a failure; the info that is answered is true, but may be that of
  a file whose name goes on after the one asked for.
* `SharedOrLost`, `AckedStored`, and `OneAnswerDue` in `Inv` (overlay): what the
  acknowledgement to a child means, also when a node dies.
* `NoWriteToReset` in `Inv` (overlay): a dead child never costs its super node more
  than the one write that is answered by a reset; the rest of a packet that was
  too long is not answered.

## 4. Fairness

* `ThreadPool`: every thread keeps running, and strong fairness of each thread's
  steps: a thread waiting for a mutex that is released and taken again and again
  gets it at last.  The signalling thread spins on `mutexQueueRW`, so weak
  fairness would let it starve the pool; POSIX does not promise more, but the
  schedulers of the systems the program runs on do preempt the spinning thread
  outside of its critical section.  Requests and spurious wakeups have no
  fairness.
* `PoolService`: some waiting task is started and a started one is finished.
* `WebServer`: weak fairness of every process and thread; none for kills.
* `SuperOverlay`: weak fairness of each process, and strong fairness of serving
  each client, because `handleClientFds` visits every ready descriptor in each
  round.  None for starting a child or searching, as a user does these, and none
  for kills.

* `FileTransfer`, `MultiServer`, `SelectServer`: weak fairness of every process and
  thread, and of every slot, as `handleClientFds` visits them all.  None for
  kills and for `main()` of the p2 client, whose 100 ms may be any time.
* `PeerDownload`: weak fairness of the two threads of each child; none for the
  commands a user enters, for changes of files and for kills.

## 5. Proofs

All proofs hold for every value of the constants under the named assumptions
of the modules (`ThreadPoolAssumption`, `TaskQueueAssumption`, `TableAssumption`,
`OverlayAssumption`, `TransferAssumption`, `ClientAssumption`, `ProgramAssumption`,
`SlotsAssumption`, `PoolAssumption`, `WebServerAssumption`, `DownloadAssumption`;
`ChildrenAreReaped` needs none).  `ProgramAssumption` says that a
client is one thread of one program, in one place, and that there is a file for
every number `main()` may write; `ClientAssumption` that the first sequence number
is not the last one, as `rand() % MAX_SEQUENCE` is not; `DownloadAssumption` that the
marks of a file that is absent or a directory are no units of a file, and that `None`
is neither a child nor a name.  Three hypotheses stand
in the theorems about `WebServer` that need them:

* `EnoughFds`: there are as many descriptors as clients and threads.  Otherwise
  `accept` may fail, `nready` then counts a descriptor no slot has, and the scan
  may leave `clientfd` (`web_server_stress` runs into it);
* `Mortal = {}`: no client is killed.  A killed one has its connection closed
  while its task waits, the number of the descriptor is used again, and the
  task writes to the next client;
* `~SplitReads`: `read` does not cut the end message.  A client that misses the
  end waits for ever, with nothing due to it.

* **ThreadPool.** `IndInv` is the inductive invariant (`PoolInvariant`).  Besides
  the safety properties it says who holds which mutex at which control point
  (`MutexHeld`), that a thread has a task exactly while it runs it
  (`RunsItsTask`), that the signalling thread is born last (`SignalComesLast`)
  and that the bound is respected.  `TasksConserved` alone is not inductive: that
  two threads do not dequeue together needs `MutexHeld`.  `WorkingCount` and
  `ServesWithFullPool` rest on a second layer, counts of sets of threads, on top
  of `IndInv`.  `PoolImplementsSafety` maps every step to a step of
  `PoolService` or a stutter: `EnqueueTask` to `Accept`, `DequeueTask` to `Start`,
  `Execute` to `Finish`.
* **TaskQueue.** `ListCorrect` proves types, `ListIsFifo` and `OwnedOnce`
  together; the link in `Enqueue` is safe because the new node is not in the
  list, which `OwnedOnce` says, and the list remains one because the nodes of
  `order` are distinct.  `DequeueIsFifo` follows.
* **WebServer.** Three layers, each with one hypothesis more.
  - `PoolOfFds` assumes nothing (`WebPoolOfFds`, `WebSlotsMatch`): the slots match the
    sets of the pool (`SlotsMatch`), every open log or `index.html` is that of one thread
    (`FilesOK`), a thread has a task exactly while it is not idle (`TasksOK`), and
    between `select` and `accept` nobody touches what `select` said (`LoopOK`).  They
    depend on each other: `accept` and `open` take the lowest free descriptor, and
    that it is in no slot is `SlotsMatch`; that closing a file does not free a
    socket is `FilesOK`.
  - `ScanCounts`, with `EnoughFds` (`WebScanCounts`): `nready` is the number of ready
    descriptors in the slots ahead of the scan.  The counting goes through a
    bijection of the slots and the descriptors.  For `accept` not to fail there has
    to be a free descriptor, so `PlacesOK`: a client is in the backlog or has one
    descriptor, never both or two.  `ScanInside` follows: while `nready` is positive
    some slot ahead is ready, so the scan ends inside `clientfd` whatever `maxi` was.
  - `Talks`, without killed clients (`WebOwnResponse`): the conversation of a client is
    at one of three points while it waits: `Asked` (its request is in the socket),
    `Served` (one task is for it, and the stream holds what this task has written) or
    `Answered` (the response is in the stream, up to its end); it is `Quiet` else.
    `OwnResponse` alone is not inductive: that the descriptor of a task is still the
    one of its client needs that the client has not closed, and so that
    it is owed an answer.  `ReadyOK` says that a descriptor stays ready for a reason
    until the scan has come to it, so `CloseClient` closes only for clients that have.

  `WebInv` adds that the server never exits: a descriptor is free for each thread
  (`EnoughFds`) and no client that waits has closed; and that one answer is due to
  every client that waits, which needs whole end messages.  `WebUsesPool`: every
  step is one of `PoolService` or leaves its variables alone, so that what is proved of
  `PoolService` holds in `WebServer`, and what `ThreadPool` is proved to implement is what
  `WebServer` uses.
* **FileInfoTable.** `TableCorrect`: `LenCounts` gives a free cell below the
  bound, so the nearest one exists; all cells before it are in use, so the new
  info is reached; a store only fills an empty cell, so no other chain breaks.
  `TableFindsStored` follows: the nearest stop of the search is no later than
  the stored info, and before it there is no empty cell.  `TableSearchEnds`: with
  a free cell left, the probe for any name whose index is a cell meets it, as
  the probe visits every cell.
* **SuperOverlay.** All safety properties of the run `overlay` are proved, for any
  number of children, files, slots, cells and sizes of buffers, whichever names
  begin with others, and any set of nodes that may be killed. They depend on each
  other, and `Inductive` has them all:
  - `ExchangeOK`: on every connection there is one request with nothing answered
    to it, or one answer with nothing asked, or neither; the first two only while
    the client waits for just that, or is dead.  `OneAnswerDue` counts this and is
    not inductive: two packets under way may be any two.  Who waits without an
    answer is `Forgotten`, or its super node is dead.
  - `Deaf` and `ResetQuiet`: what is sent to a super node that does not listen is
    not there, and a reset comes only from a dead client, which asks nothing more
    (`NoWriteToReset`).
  - `HomeOK` and `SlotOK`: a child that runs has connected to a super node that
    listened; from the moment its registration is answered it has a slot, or there
    is none left.  So its port is found when its infos arrive.
  - `InfosTrue`, since what is stored comes from a FILE_INFO of the child, whose
    port `PortOf` finds, or from a FILE_INFO_SHARE, which `Asks` bounds.
  - `PktsOK`: what a super node has still to share, between `FileInfo` and
    `ShareConnect`, are the infos of one child.
  - `Promises`: `AckedStored` and `SharedOrLost` have to hold from the moment the
    acknowledgement is written, while the infos may still be with the super node
    that is about to connect (`ToShare`), and not only when the child has read it.
  - `SearchRight` rests on `Promises`: an info of exactly the searched name is in the
    table as long as the child searches, since tables only grow, so the search
    does not fail, whatever else may match.

  The proof goes by decompositions of the step relation that do not depend on the
  property: `StreamsMove` (what any step does to the streams), `StepGrows` (what
  only grows), `ChildSteps`, `TableSteps` and `PeerSteps`.  Each invariant is
  then shown from those, in one lemma (`ExchangeKept`, `HomeKept`, ...).
* **TransferService.** `ServiceStoredIsSent` and `ServiceFilesWhole` hold for
  every server that refines the service, on any disk: each is inductive together
  with the types and with the fact that nobody is told of a file without a name.
  The work is in the lemmas about what `open` and `write` leave: a file of which
  something was written is not taken for one that is missing (`OverwrittenThere`),
  and when two parts of it are written one over the other, the longer one remains
  (`OverwrittenTwice`). So a short write of one client takes nothing away from
  another one that was told "stored". A write of nothing is a `Create`, a write of
  all of it the whole file (`PartEnds`). All three servers refine the service,
  below, so both hold for them.
* **FileTransfer.** `FileTransferInv`, `FileTransferBuffer` and `FileTransferRefines`
  hold for any number of clients, files of any length, any cuts, deaths,
  failing calls and short writes.  The inductive invariant is `Agreement`, the types,
  `FilesWhole` and `Connections`, which says of every connection:
  - `Exchange`: one packet, before it perhaps the rest of one that was cut, or one
    answer, is under way; or neither, and then the client does not wait, or is
    left without an answer by a cut or the end of its server.  `OneAnswerDue` counts
    this and is not inductive.
  - `Connection`: what is in the buffer and on its way are the blocks the client
    has read, as long as both are `Together`.  `BufferMatches` says this only while
    both run; the name of the file may reach the server when its client is dead,
    and what is stored then has to be right too.  `DATA_STORE` is sent only at the
    end of the file, and is never the packet that is handled twice.
  - `StoredFor`: "stored" is true, or the client `torn`, from the moment the answer is
    written.

  `StepsKeep` shows that a step of a client and of the server of its connection
  keeps all this, and is a step of the service or none: `DataStore` and
  `KilledInStore` are `Keep` or `Create` (`WriteRefines`), what the client is told
  `TellStored` or `TellFailed`. It does not depend on who accepts connections, so
  it serves `MultiServer` too. `OneServed` is what the p1 server adds: it serves
  one connection, and closes the others only when it has ended.
* **SelectServer.** All safety properties of the run `select_server`
  (`SelectServerInv`, `SelectServerUp`, `SelectServerOwnData`, `SelectServerSeq`,
  `SelectServerRefines`) rest on one invariant, `SelectInv`:
  - `Places`: a connection is in the backlog, without a slot, in one slot or
    closed.  So a slot has its client for itself, and the client of another slot
    cannot change what is in this one.
  - `Exchange`: one packet or one answer is under way on it.
  - `Connection`: a connection is closed only when its client is gone, so that no
    answer is read twice; it is reset only when the client is gone and there is
    nothing left to serve, so that there is no second write (`ServerStaysUp`).
  - `SlotOK`: a buffer is freed only with nothing to serve, as the client has been
    told "stored" and sends nothing more, so there is no use after the free;
    otherwise it holds what its client has sent, unless memory was short
    (`SlotHoldsOwnData`, which is not inductive: a client that is dead may have a
    packet under way).  The number of the answer is the next one (`SeqConsecutive`).
  - `Promise`: as in `FileTransfer`.

  Every packet is one pattern, `Serves`: `ServesInv` shows for all three what the
  server does to the connection and the slot.  The steps of a thread that has been
  answered are `ThreadInv`; steps that only create or end threads are `EndsInv`.
* **MultiServer.** `MultiServerRefines` adds `ParentInv` to `Agreement`: the connection
  for which the parent is about to fork is not in the queue any more, the queue
  holds others, once each, and a connection is closed only after its child has
  exited, which a `fork` that failed counts as.  So there is one child at most for
  a connection, and it has it until it ends.  `ChildrenAreReaped`:
  `NoZombieForgotten` is inductive by itself.  A child that exits sets `pending`, the
  handler leaves its loop only when there is no zombie.
* **PeerDownload.** `DownloadInv` and `DownloadsAreRight` need no hypothesis.  Neither
  `NoOverrun` nor `DownloadRight` is inductive: both look at the buffer when it is full
  or stored, and what comes into it is in the handler of another process and in the
  socket long before.  `IInv` has them and
  - `Fresh`: a connection of a get still to come is nowhere, and nothing is in it;
  - `Threads`: a thread accepts and serves only connections that were made to its
    child, and one at a time; a file without a change is what was registered;
  - `Choice`: from the answer of the super node until the next prompt; a buffer that
    is about to be stored is the `Begun` file, up to `size` (that of the file that
    matched, perhaps another one), and a process is corrupt only because the file
    is `Overfull`, if there is neither an `Excuse` nor a cut;
  - `Flows`: as long as there is no `Excuse` (the peer has died or changed the
    file) and no packet was read in parts (`cut`), what is `OnItsWay` to a child
    is one of four things. Its request is not yet read (`Asked`), it was refused
    (`Refused`), the server loops on a directory (`Hung`), or the buffer, the
    packets in the socket and the rest the server has still to read are the file,
    cut in consecutive pieces (`Sent`).

  The pieces are a `Chain`, with one lemma for each end: a packet is appended when
  the server writes (`ChainAppend`), taken when the client reads (`ChainHead`),
  and the buffer is the beginning of the file when `size` bytes are in it
  (`ChainDone`); so no packet overruns it unless the file is larger than that. An
  excuse is for good, so the proof of a step starts by assuming that there is
  none. A process only takes from the connections of the others by dying.
  `DownloadRight` has only to be shown for the units that were written, which
  `from` counts: whatever was in `./download` before stays behind them.

Every safety property of every passing run is a theorem.  Model-checked only: the
liveness properties (`EveryClientServed`, `EveryChildRegistered`, `EverySearchAnswered`,
`EveryTransferEnds`, `TransferEndsAlone`, `ConnectedEnds`, `GetEnds`) and the fairness that
`ImplementsPoolService` asks for, which are outside of the prover's reach.

## 6. Findings

`overlay_mutual_share` is a run that TLC finds violated: both super nodes share
at once and block for ever in `read`.  `PROJECT.json` quotes the sentence of the
repository it contradicts.

These limits are in the models, which behave as the code does, without a run of
their own:

* p1: a packet cut in two by TCP is taken for a whole one, with what was left in
  `serverRecvPkt` as its end: the stored file is wrong, or both ends wait for
  ever (`Cut`).
* p1, p2: storing over a longer file keeps its end (`Overwritten`); a `write` that
  comes short on a full disk is answered with FILE_STORED, as only -1 is looked for
  (`server.c:93`, `WriteUpTo`); a server that is killed in its `write` leaves a part of
  the file (`KilledInStore`).
* p2: a connection without a slot is neither served nor closed (`forgotten`);
  when `main()` returns, unfinished threads die with it (`MainReturns`).
* p3: a thread may execute a task that was assigned to another one, although
  `task_queue.h:77-80` says it would not: its flag is still on from a task that
  is gone (`Posted`, `Dequeued`).
* p3: a killed client ends the server by SIGPIPE or `exit(-1)` (`WriteFails`).
* p3: a descriptor is closed and reused while a task holds its number, and a
  client reads the response to the request of another one (`CloseClient`), or it goes
  to the end of a log (`WriteToLog`).
* p3: an end message cut in two by TCP is never recognised (`SplitReads`).
* p4: super node 1 does not learn the address of super node 2 from its first
  `accept` and never shares (`Unwritten`, `lost`).
* p4: a search matches a stored name that goes on after the one asked for
  (`Matches`), and the child then requests the name it was asked for at that peer,
  with the size of the other file: the download overruns `fileBuffer` if the file
  is larger (`TooLarge`), waits for ever if it is smaller (`TooSmall`), or fails
  if there is none; in a full table it does not end when nothing matches
  (`StopProbes` empty, `SearchForEver`); a name with a negative sum may leave the
  array (`InsertOutside`).
* p4: a child without a slot in `childPorts` is never answered
  (`FileInfoNoPort`, `Forgotten` in `OneAnswerDue`); 10 files fit in `recvBuff`, 100
  are documented (`TooLong`); the address stored for the first child of a super
  node is uninitialised memory (`Unwritten` in `InfoTrue`).
* p4: a super node that dies with a share unread takes the other one with it:
  its `read` fails with ECONNRESET and it calls `exit(-1)` (`ShareFailed`).  The
  infos and the port of a dead child stay: searches go on answering with it.
* p4: a packet that `read` returns in parts is taken for a whole one
  (`child.c:245`, `Beginning`), what is left of it for the next (`Remainder`): the file is
  wrong, the buffer overrun or the get does not end; a short `write` to `./download` is
  not noticed (`Written`).
* p4: a download from a peer that dies takes the last packet once more
  (`ReadEnd`) or stores a buffer that was never filled (`ReadFails`, `Garbage`);
  from a file that grew it overruns the buffer (`TooMuch`), from an empty or
  shrunk one it never ends, as neither end closes (`Starved`); every get keeps a
  slot of the peer, and a full peer is silent; over a longer file in `./download` it
  keeps the end of that (`After`); a downloader that dies ends the
  child that serves it (`KilledByPipe`); a directory in `./data` makes the server
  loop for ever (`Unreadable`).

## 7. Not modelled

The set-up of sockets and their options, command lines, the text of logs and of
messages; failures of `malloc`, `select`, `ioctl` and, but for the p2 client,
`pthread_create`; `threadPoolWait`, which nothing calls; an `accept` that fails in
p2, where `handleClientFds` then reads an uninitialised `maxi` (the same code is in
`WebServer`, with any initial `maxi`); the build files and resources.

## 8. Plan

All components of the inventory are modelled as far as section 7 says, and every
safety property that a run checks is proved.  What may come next:

1. `WebServer` with failing `accept`: which invariant of `nready` and `maxi` is left.
2. The parts of section 7, first an `accept` that fails in p2.
