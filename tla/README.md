# TLA+ models of the UNP programs

The repository holds the programs of *UNIX Network Programming* (`src/origin-src/unpv13e`)
and one reader's own versions of some of them (`src/my-src`). They are many small
programs, not one system. This directory models the ones whose correctness depends on
order: signal handlers, processes, threads, multiplexed descriptors, finite buffers, lossy
networks, allocations that fail half-way. Paths below are relative to
`src/origin-src/unpv13e` unless they start with `my-src`.

## 1. Inventory

### Modelled components

| Component | State | Operations | Interaction | What makes it correct |
|---|---|---|---|---|
| SIGIO echo server, `sigio/dgecho01.c` | `dg[]`, `iget`, `iput`, `nqueue`, `cntread[]`, signal mask | `dg_echo` loop, `sig_io`, `sig_hup` | handler and loop share the ring; the kernel raises SIGIO | a slot is not overwritten before it is sent, no wakeup is lost, echoes in order |
| Prethreaded server, `server/serv08.c`, `pthread08.c` | `clifd[]`, `iget`, `iput`, mutex, condition | `main`, `thread_main` | bounded buffer between one producer and a pool | each descriptor has one owner; no connection waits while a thread is free |
| Servers that accept in children or threads, `server/serv02,02m,03,03m,04,07,09`, `my-src/Chapter-30/Paradigm-2` | lock, `cptr[]` meters | `child_main`, `my_lock_*`, `thread_main`, `sig_int` | workers share the listening socket and a lock | one worker in accept, each connection with one worker, service goes on after a death |
| Preforked server, `server/serv05.c`, `child05.c`, `lib/error.c` | `cptr[]`, `navail`, stream pipes | select loop, `child_main`, `sig_int` | descriptors one way, ready bytes (and error text) the other | the parent's two records agree with the children |
| Thread per connection, `server/serv06.c`, `web_child.c`, `client.c`, `clientrst.c`, `threads/tcpserv01,02.c` | the argument cell, threads, requests | `main`, `doit`, `web_child`, the client's children | an argument passed by address or by `malloc`; one process for all | each descriptor reaches one thread; a client is short only when the process ended |
| Fork-per-connection servers, `tcpcliserv/tcpserv01..04.c`, `server/serv01.c`, `unixdomain/unixstrserv01.c`, `my-src/Chapter-05`, `-15`, `-30/Paradigm-1` | children, shared descriptors, SIGCHLD, `errno` | loop, child, `sig_chld` | fork shares descriptors, the handler shares `errno` | no zombie is forgotten, no `wait` blocks, every connection ends |
| Select and poll servers, `tcpcliserv/tcpservselect01.c`, `tcpservpoll01.c`, `nonblock/tcpservselect03.c`, `my-src/Chapter-06/tcpsrvpoll01.c` | `client[]`, `maxi`, `maxfd`, `allset`, `rset`, `nready` | the loop | clients, kernel readiness | stale readiness is never acted on; every client is served |
| UDP and TCP in one loop, `udpcliserv/udpservselect01.c` | `rset`, children, `errno` | the loop, `sig_chld` | select, SIGCHLD, two kinds of clients | neither service stops the other |
| Echo client copy loops, `str_cli` in seven files | stdio buffers, `to`/`fr` buffers, descriptor sets | copy in two directions | terminal, `str_echo`, finite socket buffers | nothing lost or reordered; the half-close follows the data; the client ends |
| Reliable UDP client, `rtt/dg_send_recv.c`, `lib/rtt.c` | `rttinfo`, sequence number, alarm, `jmpbuf` | `dg_send_recv`, `sig_alrm`, `rtt_*` | network, SIGALRM with `siglongjmp` | answers match requests; no jump into a dead frame; every call ends |
| Broadcast clients and reads with a limit, `bcast/`, `advio/dgclitimeo*`, `lib/pselect.c` | alarm, mask, jump buffer, pipe | `dg_cli`, `recvfrom_alarm` | SIGALRM against `recvfrom` | an alarm ends the wait it was set for; every wait ends |
| Connects with a limit, `lib/connect_timeo.c`, `connect_nonb.c` | alarm, handler, descriptor flags | connect, select, restore | SIGALRM, kernel | handler, clock, flags are put back; what is returned is usable |
| Out-of-band data, `oob/`, `my-src/Chapter-24` | mark, one-byte buffer, SIGURG | senders, receivers by signal, select, poll, `sockatmark` | urgent pointer that overtakes | the last urgent byte is read as such |
| Heartbeat, `oob/heartbeat*.c`, `strcliselect02.c` | `nprobes` | `sig_urg`, `sig_alrm` on both sides | handlers interrupt each other | a side gives up only after silence; a cut is noticed |
| ping, `ping/` | counters, `rcvd_tbl`, timer | `readloop`, `proc_*`, `sig_alrm`; `pinger`, `onalrm`, `pr_pack` of bsdping | handler sends, main counts | own answers only, counts right |
| traceroute, `traceroute/` | `ttl`, `probe`, `seq`, `gotalarm` | `traceloop`, `recv_v4`, `recv_v6` | late and foreign ICMP messages | what is printed is true of the hop |
| ICMP daemon, `icmpd/` | `client[]`, sockets | four `readable_*`, the client `dgcli01.c` | descriptor passing, raw sockets | errors go to the owner of the port; who asks is answered |
| Web client with threads, `threads/web01..03.c` | `file[]`, `nconn`, `nlefttoconn`, `nlefttoread`, `ndone`, mutex, condition | `main`, `do_get_read` | threads and flags | counters agree with threads; main joins every thread |
| Web client with nonblocking connects, `nonblock/web.c` | `file[]`, two descriptor sets, counters | `start_connect`, select loop | kernel | counters agree; it ends |
| Thread examples, `threads/example01..03.c` | `counter`; `b_*` | `doit`; `produce`, `consume` | two threads | what a missing mutex costs; a queue |
| readline and readn, seven versions | `read_cnt`, `read_ptr`, `read_buf` | `readline`, `my_read`, `readn` | static or per-thread buffer, signals | every byte once, in order; the result |
| TCP daytime programs, `intro/`, `names/`, `advio/`, `inetd/`, `my-src/Chapter-01,04,11` (partly) | address list, bytes read | 15 clients, 17 servers | connections that end early or are reset | who ends well has the text |
| UDP echo and daytime programs, `udpcliserv/`, `advio/udpserv*`, `unixdomain/unixdg*`, `my-src/Chapter-08` (partly) | sockets, queues | `dg_cli`, `dg_echo` in their versions | network that loses, repeats, and strangers | whose answer is printed; from which address it comes |
| SCTP echo programs, `sctp/`, `my-src/Chapter-09,23` | associations, streams, `sctp_pdapi_readbuf` | servers and clients | notifications, partial delivery | whole replies to the one who asked |
| sock, `sock/` | options, descriptors, buffers | `cliopen`, `servopen`, `buffers`, `sockopts`, loops, sources, sinks | two instances; children with TELL/WAIT | what was asked for is in effect; what is read is what was written |
| getaddrinfo, `libgai/`, and its callers in `lib/` | the list being built, heap | `ga_*`, `tcp_connect`, `tcp_listen`, `udp_*`, `host_serv` | allocation failures | the list is complete, nothing leaks |
| Addresses and checksums, `libfree/inet_pton.c`, `inet_ntop.c`, `in_cksum.c` | | pure functions | | text and binary agree |

### Not modelled

`PROJECT.json` lists each with its files. In short:

* straight sequences of library calls and printing: name lookups (`intro/byteorder`,
  `names/hostent`), `ioctl`, `route`, `key`, `libroute`, `mcast`, `ssntp`, `mysdr`,
  `sockopt`, `ipopts`, `streams`. There is no second actor and no state that outlives a call;
  what is hard in them is the layout of the kernel's messages;
* `udpcksum`: packet layout and two packet capture libraries;
* the wrapper functions of `lib`: they are modelled where they are called, their `err_sys`
  exits as guards and alternatives of the callers' actions;
* clients whose only content is a call of `str_cli`, and Unix domain programs whose content is
  one `sendmsg`: `StrCli`, `ForkServer`, `PreforkFdPass` contain what they do;
* `test` and `debug`: experiments with the host's behaviour.

### Where it is hard

Handlers that run between two instructions of the loop they share variables with
(`dgecho01`, `dg_send_recv`, `sig_chld`, `heartbeatcli`, `bsdping`); alarms that go off when
there is no call to interrupt (`dgclibcast3`, `recv_v4`, `connect_timeo`); condition variables
with no memory (`serv08`, `web03`); tables that select filled before slots and descriptors
were used again (`tcpservselect01`, `serv05`, `icmpd`); two bounded buffers in a cycle
(`str_cli`); processes that die holding a lock or the other end of a pipe (`serv04`,
`serv05`); one client whose end is the end of the server (`web_child`, `sctpserv01`);
networks that lose, delay and repeat (`rtt`, `dg_cli`); an allocation that fails when half of
a list is linked (`getaddrinfo`). `PROJECT.json` lists these under "hazards", each at its line
with the properties that watch it.

## 2. Modules

The modules are closed systems: a component together with the kernel, the peers and the
clients it needs. A component that exists in several versions has a variable `version`,
chosen in `Init` and never changed: one run covers the family, and a property says which
versions it excepts, and how far. Operators named `...Mutant` stand before the definition that
a plausible bug would turn into them; `PROJECT.json` pairs each with the property that
notices it.

### Composition

`FifoService` is the abstract specification of a server that takes numbered requests one
at a time in order and may stop. `DgEchoSigio` and `ThreadPool` are shown to implement it
(`Fifo == INSTANCE FifoService WITH ...`; properties `EchoesInOrder`, `ServesInOrder`). The
three modules of `sock` share the operators of `SockLib`.

Components that do the same kind of thing are model-checked in one run. An `MC` module
EXTENDS one component (`MCWeb` none), INSTANCEs the others with prefixed variables, and has a variable
`program` that says which of them runs; the others stay in one initial state. Its
invariants are conjunctions of the components' own; the components do not interact, so a
run of the sum shows what one run per component would. It is a disjoint union and not a
system: interaction is inside the modules.

| MC module | Components |
|---|---|
| `MCEvents` | `RttSendRecv`, `RecvTimeout`, `ConnectTimeout`, `Traceroute`, `Ping`, `OutOfBand`, `Heartbeat` |
| `MCEcho` | `StrCli`, `SctpEcho`, `UdpEcho`, `UdpTcpServer` |
| `MCPrefork` | `PreforkAccept`, `PreforkFdPass` |
| `MCThreads` | `ThreadPool`, `SharedCounter`, `BoundedBuffer`, `Readline` |
| `MCWeb` | `WebThreads`, `WebNonblock`, `Daytime`, `ThreadServer` |
| `MCTools` | `IcmpDaemon`, `SockOpen`, `SockTcp`, `SockUdp` |
| `MCLibrary` | `GetAddrInfo`, `AddressText` |

### Servers

**DgEchoSigio** (`sigio/dgecho01.c`). `pc` is the main loop's statement; `running` is
`"sig_io"` while the handler has interrupted it. One action per statement between which a
handler can run (`Test`, `Suspend`, `Unblock`, `Send`, `Advance`, `Block`, `Decrement`) and
one per iteration of the handler's loop (`HandlerRead`, `HandlerReturn`, `HandlerOverflow`,
`HandlerError`). `ioflags` records how far `FIOASYNC` and `FIONBIO` have been set.
Datagrams are their arrival numbers; `sent`, `numread` and `arrived` count them.
The printing of `sig_hup` is left out, the wakeup it causes is not.

**ThreadPool** (`serv08.c`, `pthread08.c`). The mutex has an owner; `cond_wait` and
`relock` are the two halves of `pthread_cond_wait`, with spurious wakeups. A full ring ends
the process, as `err_quit` does.

**PreforkAccept** (`serv02.c` to `04`, `07`, `09`, Paradigm-2). `Workers` are children or
threads, told apart by the lock they take (`LockWait`), by select before accept, and by
what a death does: a file lock goes with its owner, the process-shared mutex of `serv04` does
not, and threads die together. Clients abort connections that wait in the queue. `by` is a
history variable: the worker that accepted each connection, which the meters must count.

**PreforkFdPass** (`serv05.c`, `child05.c`). Both pipes of each child are sequences.
`navail` and `status` are the parent's two records. `lib/error.c` writes to standard error,
which *is* the pipe to the parent: `ReportError` puts `TextBytes` bytes there that the parent
reads as reports of readiness. A connection may go between select and the blocking `Accept`
(`ClientLeaves`); the parent then sleeps there (`SleepsInAccept`) until the next one. Later
children inherit the parent's end of a pipe, so a child's report fails only when the parent
and they are gone (`PipeAbandoned`).

**ThreadServer** (`serv06.c`, `tcpserv01/02.c`, `client.c`, `clientrst.c`). `cell` is the
variable whose address, or the `malloc`ed object whose pointer, is the new thread's argument.
`web_child`'s `err_quit`, `err_sys` and SIGPIPE end the process, and with it every thread.

**ForkServer**. Eleven programs, told apart by handler (none, `wait`, `waitpid` loop) and by
what they do with accept's value (`Accept`, test for `EINTR`, nothing). `holders` and
`listeners` say which processes have each descriptor: the end of a connection is sent when
the last is closed. `errno` is one variable for main and handler. `interrupts` is the
kernel: `SA_RESTART` as `lib/signal.c` sets it where it exists, or an accept that returns
`EINTR`.

**MuxServer**. Four versions of the loop. Descriptors, slots, `rset`, `revents` and
`nready` are modelled so that they go stale exactly as in the code; readiness is computed
at `Select`/`PollFds` only. The kernel hands out the lowest free descriptor (`Least`). A client may
reset a connection between select and accept. `received` and `echoed` keep what was read from
and written to each connection.

**UdpTcpServer** (`udpservselect01.c`). `rset` is what select left. Between select and
`Accept` the connection may go, and recvfrom may drop the datagram that select saw. SIGCHLD
interrupts select on every system: `errno` is set when the handler has returned and tested
one step later.

**IcmpDaemon** (`icmpd/`). `client[]` as the daemon has it: a closed slot keeps its family
and port, which a newcomer then has until it shows its socket. `Clients` register, cause
errors, receive them, leave; `inbox` is the byte stream to each, in which the error that was
meant for another precedes the daemon's `"1"`. An asker also counts as answered when the daemon
ends, so `EveryClientAnswered` says as well what ends it: a client that has gone with its slot
still taken (`EndedByGone`).

**SctpEcho**. Every server against every client. A message is `Parts` pieces that the kernel
delivers whole, in part, or mixed with those of other associations (`host`).

**Daytime**, **UdpEcho**. A client program and a server program, each one of the family;
what a family shares is one action, what a program does differently is a set named after
it.

### Clients

**StrCli**. Five forms of `str_cli`, `str_echo` at the other end, and buffers of `SockBuf`
lines each way. A unit of data is a line.

**RttSendRecv**. SIGALRM may come at each statement of `dg_send_recv`. `jmpbuf` is the
call to whose frame it belongs; a jump through another call's buffer leads to the place
`"undefined"`. `timeouts` keeps the count and the timeout of every request sent for this call.
The floating-point estimator is any value `rtt_minmax` can return.

**RecvTimeout**, **ConnectTimeout**, **Traceroute**, **Ping**. `pc` separates the test of a
flag from the call that follows it, because SIGALRM may come in between. In `RecvTimeout` an
alarm carries the number of the line it was set for. `Ping` splits `SET(rcvd_tbl)` into its
load and store.

**OutOfBand**, **Heartbeat**. TCP's urgent pointer arrives before its byte and replaces an
earlier one; SIGURG is merged while pending. `Heartbeat` keeps each side's stack of handlers,
and `++nprobes` is a load and a store.

**WebThreads**, **WebNonblock**. The former has three versions of how main learns that a
thread is done; `Scan` and `Join` are the loop under `ndone_mutex`; reading the home page
precedes all threads and is left out. The latter has one action for each branch of the loop
over the files.

**SharedCounter**, **BoundedBuffer**, **Readline**. The thread examples statement by statement;
the readers with their buffers, byte by byte as `my_read` hands them out. `stream` is a history
variable: all bytes that a thread's calls have returned.

### Tools and libraries

**SockOpen** makes the sockets: `cliopen`, `servopen`, `buffers`, `sockopts` in order, and
TELL/WAIT between a server of `-F` and its children. `KernelRefuses` and `ForkFails` are the
`err_sys` of any call, `accept` and `fork` in the server's loop included: those who wait are then
never accepted, and `ConcurrentServerAccepts` says so. **SockTcp** and **SockUdp** copy: two
instances with any combination of a bounded number of options. A client of `-o` that has heard
nobody calls `sendto` with whatever its `servaddr` holds: "sendto error", or a datagram sent to
another host.

**GetAddrInfo** takes a call from its arguments through the search list, `ga_clone`, `ga_port` and
`ga_serv` to the returned list; `heap` counts what has not been freed, and each allocation may
fail. The callers then walk the list with sockets that may fail. **AddressText** evaluates
`inet_pton`, `inet_ntop` and `in_cksum` as functions; a text is a sequence of tokens.

## 3. Plan

Done: everything in section 2, and proofs of every safety property that the runs `sigio`,
`thread_pool`, `prefork`, `fork_server`, `mux`, `rtt`, `echo`, `web` and `tools` check
(section 5). The two invariants without a theorem are those of `library`, pure functions and a
model without parameters, for the reasons given there.

To model more: `udpcli09` and the programs of `names` that print a lookup would be one
action each. `mcast`'s send and receive loops and `streams` have no interaction that a test
would not reach.

## 4. Runs

All runs use a specification with fairness, but for the two that look for a safety
violation and `library`, which has no temporal property. `CHECK_DEADLOCK FALSE` is set everywhere: all these programs may stop (they exit,
or clients are through because of a bound).

| Run | Question | Properties |
|---|---|---|
| `sigio` | ring, counter, wakeups, order, refinement of `FifoService`, eventual echo | `RingSound`, `NoLostWakeup`, `EchoesInOrder`, `EventuallyEchoed` |
| `thread_pool` | ownership, wakeups, order, dispatch; counters, buffer, readers | `RecordsAgree`, `OneOwner`, `ServesInOrder`, `EverythingServed` |
| `prefork` | lock, connections, records, death of workers and of the parent | `LockMatchesPlace`, `OneWorkerEach`, `Consistent`, `Accepted`, `StopsAll`, `EndIsNoticed` |
| `fork_server` | zombies, blocking `wait`, end of connections, in the eleven programs | `ZombiesAnnounced`, `WaitFindsZombie`, `Concluded` |
| `fork_errno` (violated) | an interrupted accept is retried | `EintrIsRetried` |
| `mux` | tables, blocking reads, counting, echoes, service, in the four versions | `Consistent`, `EchoesInOrder`, `Served` |
| `mux_own_data` (violated) | readline's buffer belongs to one client | `OwnData` |
| `echo` | loss, order, half-close and end of the copy loops; SCTP replies; whose datagrams are printed; UDP and TCP in one server | `Delivered`, `Ends`, `RepliesMatch`, `Answered`, `DatagramsMatch`, `EndsOrWaits` |
| `rtt` | answers, timers and the end of every wait; urgent data | `AnswersInStep`, `NoStrayAlarm`, `AnswersAreOwn`, `UrgentDataMeans`, `WaitsEnd` |
| `web` | counters, flags, threads, termination of clients; texts of daytime servers | `CountersAgree`, `DownloadsEnd`, `DaytimeTold` |
| `tools` | the daemon's clients; what sock sets and copies | `OnlyNewcomersMisled`, `AskersAreServed`, `SocketsAsAsked`, `CopiesAsAsked` |
| `library` | getaddrinfo under failing allocations; texts against reference definitions | `ResultsAndResources`, `TextAndBinaryAgree` |

### Bounds and why they are enough

| Module | Bounds |
|---|---|
| `DgEchoSigio` | ring of 3, 6 datagrams: it wraps twice, is full and overflows |
| `ThreadPool` | 3 threads, ring of 3, 4 connections: it wraps and fills, some threads wait while others serve |
| `SharedCounter`, `BoundedBuffer` | 4 increments each: enough for a final value of 2; 5 items through 3 places: full, empty and wrapped |
| `Readline` | two threads, texts of 3 characters (`TextLength`) told by the places of their newlines (`Newlines`): a line as long as `MAXLINE` allows, a longer one, two lines in one read, none; a buffer shorter than a line, 2 openings, 1 signal |
| `PreforkAccept` | 3 workers, 2 connections, 1 kill: one in accept, one waiting, one serving or dead |
| `PreforkFdPass` | 2 children, 4 connections, 2 bytes of text: two children tell the first available from the next, text can make `navail` exceed the children |
| `ForkServer` | 2 connections: two children end under one signal, or the second during the handler; each may be reset in the queue |
| `MuxServer` | 3 clients, 2 descriptors, 3 slots: slots and descriptors are used again while another client is ready; 2 units of data make a whole or two partial lines; in `mux_own_data` 4 units, two lines in one read |
| `StrCli` | 6 lines through buffers of 1 and 2 lines: all buffers on the cycle fill at once |
| `SctpEcho` | 2 clients, messages of 2 pieces, 2 messages, 1 broken association: pieces of two clients alternate |
| `UdpEcho` | 2 lines, 1 datagram lost, repeated or from a stranger; three addresses and a late one |
| `UdpTcpServer` | 2 connections: the second child ends between select's EINTR and the test; 2 datagrams, one intact and one damaged |
| `RttSendRecv` | 3 calls, 3 retransmissions, 2 datagrams in the socket: answers to both earlier calls can be late |
| `RecvTimeout`, `Traceroute` | 2 lines with 2 answers; 3 hops with 2 probes, 1 foreign message: a late answer meets a later wait, at another hop |
| `Heartbeat`, `OutOfBand` | limit of 1 probe, 1 urgent pointer under way; the senders' own scripts |
| `Ping` | 3 requests over 2 sequence numbers: the table wraps |
| `WebThreads`, `WebNonblock` | 3 files, 2 connections: a place is used again, two threads finish together |
| `Daytime`, `ThreadServer` | 2 clients, 2 addresses, 1 kill; 2 children with 2 requests, the second of which resets |
| `IcmpDaemon` | 3 clients for 2 slots and 2 ports, 1 error: slot and port are used again by another family |
| `SockOpen`, `SockTcp`, `SockUdp` | 2 options for TCP, 3 for UDP at a time, 2 connections, input of 2 units through buffers of 2: every pair of options that `main` allows |
| `GetAddrInfo` | hosts with both families, services with both protocols: clones before and after the entry they copy |
| `AddressText` | words 0, 1, 65535 in all eight places; IPv4 texts of 8 characters; messages of 6 bytes 0, 1, 255: carries into carries |

### What they show of the code

* `dgecho01` keeps its promises, including the window between the test of `nqueue` and the
  sleep, which `sigsuspend` closes. Datagrams that arrive before `FIOASYNC` raise no signal
  and are excepted (`early`).
* `serv08` has neither lost wakeups nor double owners; only the full ring ends it.
* The servers that accept in their workers keep one worker in accept; `serv04` stops serving
  when the owner of its mutex is killed (`Orphaned`), `serv03` does not.
* `serv05`: the text of a child's `err_quit` is counted as ready bytes. A connection can then
  go to a child that is about to die, and the server may run out of children. A parent that
  sleeps in `Accept`, because the connection it saw has gone, notices no dead child.
* `serv06`: a request out of range or a reset by one client ends the service of all.
* `web02` and `web03` call `Pthread_join` while holding `ndone_mutex` for a thread that has
  set `F_DONE` but not yet locked that mutex: both wait for ever. `web02` may also overwrite
  `F_DONE` with `F_CONNECTING`. `nonblock/web.c` takes a failed connect for an established one.
* In the select and poll servers stale `rset` and `revents` are harmless; a connection reset
  before a blocking accept is not, nor is `i < maxi` in `my-src/.../tcpsrvpoll01.c`.
  `tcpservselect03` mixes two clients' data through readline's buffer (`mux_own_data`).
* `dg_send_recv` matches answers; a SIGALRM between `alarm` and `sigsetjmp` is the one way
  into a dead frame. The timeout can exceed `RTT_RXTMAX`.
* `dgclibcast1`, `3`, `dgclitimeo3`, `lib/pselect.c`, `recv_v4/v6` and `connect_timeo` lose an
  alarm that comes just before the call; the system's `pselect`, the pipe and `SO_RCVTIMEO` do not.
  `recv_v6` prints other programs' time exceeded messages as the probe's.
* The heartbeat gives up too early only when `sig_urg` is overtaken within `++nprobes`, and
  misses a cut only after `alarm(0)` at the end of input.
* Of the copy loops, `select01` and `select02` can stop with client and server both in
  `Writen`; `select01` drops echoes at the end of input and `strclinonb` may drop what
  standard output was not ready for. The others deliver everything.
* The looping handler forgets no child; the single `wait` never blocks but leaves zombies.
  A handler that does not save `errno` can turn `EINTR` into `ECHILD` before main tests it,
  and the server exits (`fork_errno`; `udpservselect01` in `StopsOnlyFor`).
* An SCTP association that goes before its streams are asked for ends the server;
  Chapter-23's `pdapi_recvmsg` reallocates too little.
* `bsdping` transmits more than `-c` says with `-l` and `-f`; `sock -o` can send to an address nobody
  set, or end there with "sendto error", and `sock -u -i -w 0` ends its sink; `getaddrinfo` leaks in two named places; `inet_pton` clears what follows `::` in a full
  address.

`PROJECT.json` lists these under "findings" with the line that says otherwise.

**Exceptions inside properties.** Where a version is known to fall short, the passing
property names the exact state in which it does (`JoinDeadlock`, `FlagOverwritten`,
`StuckInAccept`, `SleepsInAccept`, `Overlooked`, `BothWriting`, `Overslept`, `Orphaned`, `TellLost`, the place
`"undefined"`): the property says that these are the *only* ways.

**Fairness.** Weak fairness on the steps a process or thread takes by itself, because the
system schedules every runnable process; strong fairness on acquiring a mutex or file lock
(`ThreadPool`, `WebThreads`, `PreforkAccept`, `BoundedBuffer`), because who keeps asking is
granted it in every implementation with queueing, and without it nothing can be said of any
lock. Signals and timers that are due are delivered. A client that is a
program of the repository (`UdpEcho`, `Daytime`, `ThreadServer`, `SctpEcho`, `IcmpDaemon`) is
scheduled like any process once it runs. Other clients, users and the network owe nothing: no
fairness on connecting, closing, typing, answering, losing, or on SIGINT. The
exceptions are the web clients, where the HTTP/1.0 server answers and closes, unless the
connection fails: a client that waits for a silent server waits, as the code does. `StrCli`
lets the terminal show what it was given, and `UdpEcho` the kernel report an unreachable port
to a connected socket.

## 5. Proofs

TLAPS proves, for all values of the constants that satisfy the named assumptions:

* **DgEchoSigio_proofs** (assumption: `QSIZE` is a positive integer). `IInv` is `TypeOK` and
  four parts: `RingInv` (the slots from the first unsent datagram to `iput` hold the unsent
  datagrams in order, which needs a *head* that differs from `iget` between `sendto` and
  `++iget`), `LoopInv` (what each statement knows of the mask and of `nqueue`),
  `HandlerInv` and `SignalInv` (what signal the kernel still owes). `NotOverwritten` alone is
  not inductive: it says nothing of the order of slots. Proved: `Typing`, `Counting`,
  `RingSafety`, `RingIsSound`, `Wakeups`, and `Refinement` of `FifoService`'s safety.
* **Events_proofs** (assumptions: for `RttSendRecv` a positive lower limit not above the upper
  one and any number of retransmissions; at least one probe per hop; a table of positive size;
  all other bounds any natural number). For `dg_send_recv`, `IInv` adds `CallInv`: a first call,
  SIGALRM not blocked outside the handler, and a count above the limit only after giving up.
  Proved: `Typing`, `Answers`, `Timers`, and `Backoff`, that each timeout is twice the one before
  it from a first one within the limits: `BackoffInv` adds which of the requests sent is
  under way. Then each of the other programs of `MCEvents` from its own invariant:
  * `HeartbeatGivesUp`: while a side runs, `nprobes` is not above the alarms in silence, not even
    between the load and the store of `++nprobes`, unless a reset was overwritten; the stack
    of handlers needs cases for what may be under `sig_alrm` and `sig_urg`.
  * `UrgentData`: one part for the receivers by signal (the byte at the mark is read or its
    SIGURG is owed) and one for those with select and poll (`XsetInv`): a read between
    select's answer and the next cannot pass the mark, because a normal byte precedes it.
  * `TimedConnects`: what each statement of `connect_timeo` and `connect_nonb` knows of the
    clock, the handler, the socket and `errno`.
  * `TracesTrueHops`: the sequence number tells hop and probe (`SeqTells`; the lemma `HopOfSeq`
    is the division that `recv_v4` relies on), however late an answer is.
  * `WaitsForOwn`: an alarm is on the clock, behind the mask or in the pipe, in one place only,
    and is this line's (`OneAlarm`); without a timeout or a repeated answer one answer is owed
    (`InStep`).
  * `PingCountsOwn`: `nreceived` and `nrepeats` add up to the answers taken; the bits set in
    `rcvd_tbl` are those of the answers to the last `MX_DUP_CK` requests (`Exact`), and a handler
    within `SET` blurs them without making `nreceived` exceed `ntransmitted` (`Adds`). Lemmas of
    modular arithmetic say that `MX_DUP_CK` consecutive numbers have different bits.
  * `OwnAnswers` is their conjunction, the property the run checks.
* **Connections_proofs**, servers with a process or a thread per connection, and clients.
  * `ForkServer` (assumptions: finitely many connections, enough process identifiers). `IInv` adds
    that an ended parent has no handler, signal or zombies. For `wait` the argument counts: a
    child's end adds one zombie and at most one pending signal, and the handler takes one of each;
    cardinality lemmas carry it. Proved: `Typing`, `Reaping`, `Waiting`.
  * The programs of `MCWeb` (`BoundsAssumption`: at least one file, any number of connections for
    the web clients; finitely many daytime clients, positive length of text and lists, numbers of
    children, loops and requests). Proved: `WebCounters` and `DaytimeTells`, from four invariants.
    `WtInv`: each counter of `web0x.c` is the number of threads at certain places (`CountIn`; the
    lemmas on it say how one thread's move changes a count), except for the thread that main
    has just created and not yet counted. `NbInv`: the same for `web.c`, with the flags of the
    files and the two descriptor sets; that "nothing found" is never reached needs that
    `nlefttoconn` is the number of files whose flag is 0.
    `DtInv`: a connection is queued or served, once, before its end; what a client printed and
    what it has in its inbox are together at most what was written to it, and all of it unless
    the client has gone or the server's close discards (`SO_LINGER`); what was tried before refused. `TsInv`: queue, cells and the
    forgotten connections are disjoint and are all connections; a thread serves the connection in
    its cell and closes it only after the client has; a child's latest connection is the one it
    works with. How many connections there can be needs a counting of its own: each takes a
    different turn of its child, or one of the third child's resets (`TsTurns`, and
    `TsBound` counts the pairs). This attempt showed that `MaxConns` had been too small for
    four or more loops, where the third child resets twice; it is now
    `MaxRequests + (MaxLoops + 2) \div 3`.
* **Prefork_proofs** (assumptions: finitely many workers, `Free` none of them nor of the
  connections; at least one child and one byte of text). `IInv` is `TypeOK`, `LockMatchesPlace`,
  `OneWorkerEach`, and two facts that make them inductive: `NoOwner` (the versions without a lock
  never have an owner) and `Hands` (a worker has a connection exactly at the places behind
  accept). Proved: `Typing`, `LockAgrees`, `Exclusion` (which follows, because a lock has one
  owner), `OwnConnections`, and `Metering`: while nobody is killed, each meter is the number of
  connections that worker accepted. For `serv05` `PassInv` adds to the accounting that the two
  records bound the available children, that watching `listenfd` implies `navail > 0`, and that
  each pipe holds different connections, none of them the one its child serves.
  Proved: `PreforkConsistent`, for any number of children and connections, whatever fails.
* **ThreadPool_proofs** (assumptions: `MAXNCLI` positive, main is not a pool thread). `IInv` is
  `TypeOK` and, while the process runs, `MutexInv` (who is in the critical section is the owner),
  `RingInv` (the ring holds consecutive connections from `iget` on) and `HandsInv` (what
  each thread holds was taken from the ring earlier and is nobody else's). After the ring-full
  exit nothing moves, so they are conditional on running. `OneOwner` alone is not inductive: it
  does not say that the slot at `iget` holds the next connection. Proved: `Typing`,
  `OneOwnerEach`, `Refinement` of `FifoService`'s safety, and `RecordsAlwaysAgree`, which puts
  together: `AwakeInv` (while a thread sleeps in the condition, the ring holds no more
  connections than there are threads awake and signals about to be sent: cardinality lemmas per
  step), `CountInv` (with the mutex the counter is the increments made; without it, it is not more
  than those and in the end at least 2: assumption `CountLoop > 1`), and `ReadInv` for
  the readers (`MAXLINE > 1`, any texts): the bytes that calls returned, the line being read and
  the buffer are consecutive pieces of the descriptor's text, so that no byte is lost, repeated
  or out of order, and each call returns a line, a full buffer or what was left.
* **MuxServer_proofs** (assumptions: positive `FD_SETSIZE`, any number of descriptors, clients
  and units; `NULL` is no client). Proved: `MuxConsistent` and `MuxEchoes`, for the four versions.
  `IInv` counts: `nready` is the number of slots from `i` on whose bit or `revents` is set, plus
  one for `listenfd` before accept (`AcceptInv`, `LoopInv`), and each of them but the one just
  being read is readable. A poll server's `revents` of a slot just taken is garbage; the
  invariant has an exception for slot `maxi`, and shows that `nready` is 0 when its turn comes.
* **Echo_proofs** (assumptions: positive sizes of all buffers and messages, positive numbers of
  streams, at least one datagram, finitely many TCP clients of the server for both). For `str_cli` the lines are in `out`, `fr`, the
  socket, the server, the socket back, `to`, stdio's buffer and the descriptor; their
  concatenation is what was typed (`Pipeline`), and every step moves a prefix from one to
  the next (lemmas on `\o`, `Head`, `Tail` and `SubSeq`). That nothing is left at the end needs
  `InputInv` (what can be left where), `ServerInv` and, for the lock-step version, `LockStep` (one
  line under way). Proved: `StrCliDelivers`, for the five forms. `DatagramsAnswered` joins two
  more invariants. `UdpInv`: a datagram to the server pairs a line that was sent with the
  client's address; without strange datagrams one is on its way at most, the answer to the line
  just sent (`OneOnItsWay`), and if none is lost and the server has a socket for each address, it
  comes from the one asked (`FromAsked`), because the wildcard is bound last (`BoundInv`).
  `BothInv`: what select found is still there, or a client's reset or a damaged datagram took it
  (`StillReady`); connections in the queue are different and have no child yet (`QueueInv`); since
  select was interrupted a child has ended for each signal, so that `ECHILD` in `errno` needs two
  (`ChildInv`, with cardinality lemmas). For SCTP, `SctpInv`: of a client's line each message is
  in one place: unread on a stream, in the server's buffer, in a reply on its way, or printed.
  What is in the buffer are the first pieces of one message and the queue holds the rest
  (`UpInv`, `HandInv`); a reply is one whole message (`DownInv`); no message is in two places, and
  of one stream what is further on is the earlier (`Chain`, `UpOrder`, `DownOrder`, `GotOrder`);
  who has all replies has nothing on its way (`QuietInv`), because as many different numbers as
  there are below a bound are all of them (`SctpPigeons`), so that the next line meets no
  reply of the last one. This is known of an undisturbed server; that one which reassembles
  is disturbed only by a break or a host that mixes (`Clean`) is known always. Proved:
  `SctpAnswersWhole`, for any numbers of streams, sizes of buffers and messages, and breaks.
* **MCTools** (the proofs follow the properties). For `IcmpDaemon` (assumption: no client is
  `NoOne`) `IInv`: a client in the table has one slot (`OneSlot`); from its registration on the
  slot has its family and port (`OwnSlot`); nobody whose descriptor is unread has been told `"1"`
  (`AnswerLast`). Proved: `OnlyNewcomers`, for any number of slots and clients. For `SockOpen`
  (assumption: `MaxConns` is natural; any options together) `SoInv`: which calls `main` reaches
  with which switches (`Route`); which of the options asked for a socket has at each of them, the
  listening socket's share handed to a child included (`Stage`); and while the parent is in
  `WAIT_CHILD` exactly one child, the last, may not have signalled yet: if it has, the signal is
  pending or in `sigflag`, and for the first child SIGUSR2 is blocked, so that the flag is not set
  before `sigsuspend` (`Handshake`). Hence a parent that sleeps in vain has had a child fail, or
  the flag set by a second child's signal. Proved: `SocketsSetUp`. For the copy loops
  (`ToolsAssumption`: `WriteLen` and the bounds on input natural numbers, `ReadLen` and `MaxIov` positive;
  `main` takes any number for `-r`, but a read of 0 bytes looks like end of file, which the model
  does not have) first what `crlf.c` and `write.c` compute. The library's induction over an
  operator being out of reach, `Induction` and `SequenceInduction` state it for sets, from the
  well-foundedness of `<`; with it a function defined by iteration is shown to exist and to be the
  one that `CHOOSE` in the fold picks (`IteratesUnique`), and an invariant of its rounds gives
  `AddIs` and `StripIs` (the converted chunk, or a refusal of what fills the buffer), `PartsAreEnough`
  (`UIO_MAXIOV` parts cover any length) and `PiecesAre` (the pieces put together are the
  buffer). Then `StInv` for TCP: what one side read and what is on its way begin what the other
  wrote, and are all of it until a reset (`StCopied`); what was written and what has still to be
  is the conversion of what was typed (`StPending`); a chunk looked at with `MSG_PEEK` is
  still in front (`StPeeks`), for which the urgent mark must not come before it, so that at most
  one is under way, and none before the second buffer (`StMarks`); nothing is written after
  shutdown, so that end of file means all of it (`StFin`, `StEof`). And `SuInv` for UDP: a pending
  error means a connected socket and a peer that is gone, a datagram of no bytes the other host;
  and a client that `sendto` ended had heard nobody and never will (`SuUnset`).
  This attempt showed that the last is false of `sock -u -i -w 0`, whose datagrams are empty and
  end the sink: `EndsForAReason` now names the case. Proved: `SockCopies`.

The bounds on the environment (`MaxDgrams`, `MaxCalls`, `SO_RCVBUF`, `Conns`, `MaxConns`,
`MaxKills`, ...) are constants too, so the theorems hold however large they are. Where a property
is one of a component's own variables, the theorem is about the component's `Spec`, and covers
the runs of the sum in which it is the program; where the run checks a conjunction over the
components of an `MC` module, the theorem is about `SumSpec`: every step of the sum is a step
of one component and leaves the others alone.

The invariants above were checked with TLC, on the runs' configurations, before they were proved
(`TsTurns` with its owners and turns from finite sets of functions; `StInv` and `SuInv` also with
three options, larger buffers and, for `SuInv`, `-w 0`).

Only model-checked:

* all liveness (`EventuallyEchoed`, `Concluded`, `Served`, `Accepted`, `StopsAll`, `EndIsNoticed`,
  `WaitsEnd`, `Ends`, `Answered`, `EndsOrWaits`, `EverythingServed`, `DownloadsEnd`,
  `AskersAreServed`): fairness and leads-to are beyond the prover;
* `TextAndBinaryAgree`: it compares what the recursive functions of `AddressText` compute with a
  reference definition, by induction over texts and addresses;
* `ResultsAndResources`: `GetAddrInfo` has no constants, so TLC's run is already the whole of
  it, and a proof would say no more about it;
* the violated runs, which are counterexamples.

## 6. What the models leave out

Contents of datagrams and lines beyond their origin and number; printing; measurement of
time (a timer may expire at any moment after it is set, and the estimator returns any value
in range); failures of `malloc` (but in `GetAddrInfo`), `socket`, `bind` and `listen` before
the loops; other failures that end the process through `err_sys` are included where they
happen while others are being served. Signal handlers calling functions that are not
async-signal-safe (`printf` in `sig_chld` and `sig_hup`) are taken to return. Memory is
sequentially consistent: the handlers run in the thread they interrupt, and the threads'
shared variables are used under a mutex, except `f_flags` of `web02` and `web03`, whose
stores are atomic words, and `counter` of `example01`, whose load and store are separate
steps. TCP, UDP, SCTP, ICMP and the kernel's tables are external: they do what the programs
rely on and, where the programs must cope with it, lose, delay, repeat, truncate or reset.
