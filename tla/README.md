# Kern-Serve in TLA+

A model of Kern-Serve, an HTTP server that is a Linux kernel module: its life
from `insmod` to `rmmod`, its listen thread, what it does with a connection, and
the numbers it computes on the way. The modules are translated from
`src/kern-serve.c`, the final version, from `src/phase5.c`, another author's
version of the same server, and from the versions that led there, `src/phase2.c`
to `src/phase4.5.c`. A line number without a file is one of `kern-serve.c`.

## 1. The system

### Parts

| Part | State it keeps | Operations |
|---|---|---|
| Lifecycle (`ks_init` 53-109, `ks_exit` 111-131, `close_socket` 136-141) | `ks_sock`, `listen_thread`, the should-stop flag of the thread | create, bind, listen, spawn, each with its failure; stop and join, release |
| Listen thread (`listen_loop` 143-190) | `conn_from_client` | stop test, accept (ok, interrupted, failed), call the handler, release |
| Reception and parsing (`handle_http_request` 192-291, `parse_http_request` 293-362) | `message`, `vec`, `buff`; the static pointers `http_method` and `request_target` | three kmallocs, receive until not `-EAGAIN`, cut at spaces, reject, 501, hand over, free |
| `determine_response` 432-545 | the open file, `file_buffer`, `response`, byte counts | choose the path, open, read, terminate, format, free |
| `handle_http_response` 364-430 | `message`, `vec` | two kmallocs, one non-blocking send, free |
| `phase5.c` | the same, `request_target` and `conn_from_client` not static and not cleared | the same loop; `handle_http_request` and `handle_http_response` called in turn; `read_file` |
| `phase4.c`, `phase4.5.c` | as `phase5.c` | the same loop and reception, the first trusting kmalloc, the second checking it; a fixed page |
| `phase2.c`, `phase3.c`, `phase3.5.c` | `ks_sock`, then `listen_thread`, then a local `conn_from_client` | listen only; an idle thread; accept and release |
| Clients, accept queue, socket buffers, files | outside the repository | connect, send, close, reset, stay silent |

Two processes run the code: the one that executes `insmod` and later `rmmod`,
and the kernel thread. They share the two socket pointers and the stop flag and
use no lock; what orders them is `kthread_run` and `kthread_stop`. Everything
between accept and release is sequential code of the thread, but its memory of
earlier connections (the static pointers) and the many places where it may fail
make its paths hard to test. Clients act at any time.

### What is hard here

- the stop request races with `kernel_accept`, and comes while a connection is
  being handled; who releases which socket, and when;
- `ks_init` fails after it has acquired something, four times over;
- nine kmallocs and a file over four functions, with a free list of its own on
  each return path;
- static pointers that outlive their blocks, and a receive buffer that is
  neither initialised nor terminated;
- a receive loop with no end, a send that is tried once;
- hand-counted sizes at the 64KB boundary, and a path that is cut at 511 bytes;
- in the earlier versions: a request target that is never freed and outlives its
  connection, error codes nobody reads, and an error path of `ks_init` that loses
  the listening socket for all versions loaded later.

`PROJECT.json` lists each hazard at its line with the properties about it.

### What makes each part correct

- Lifecycle and thread: sockets are owned exactly once and outlive their users;
  an absent module holds nothing; a stop request is prompt; waiting clients are
  served or reset.
- Handler: nothing leaks or is freed twice on any path; a request is answered
  once, with what it asked for.
- Page: the terminator stays in the buffer, the response fits its block, the
  length is right.
- Earlier versions: the loop releases exactly what it accepted although `ks_exit`
  knows the connection too; nothing but request targets survives a connection; a
  version that was unloaded leaves nothing another one stumbles over.
- Whole: a first come, first served service, one connection at a time, that goes
  down only between two of them.

## 2. Modules

| Module | What it is |
|---|---|
| `KsRequest` | What a receive delivers, what `strsep` makes of it, which file a target names. Used by all servers. |
| `KsListener` | `ks_init`, `ks_exit`, `close_socket`, `listen_loop`; the two processes, the sockets they own, the accept queue. The handler is the state "serve". |
| `KsHandler` | `handle_http_request`, `parse_http_request`, `determine_response`, `handle_http_response`: control, memory, the file, the static pointers, the answer. |
| `KernServe` | Composition of `KsListener` and `KsHandler`, which share `conn_from_client`; fairness; liveness; refinement. |
| `HttpService` | Abstract specification: what clients are promised, and what follows from it. Implemented by `KernServe` and by `Phase5`, and by `Phases` but for one step. |
| `KsPage` | The arithmetic of `determine_response`, with the numbers of the code. |
| `EarlyServer` | What `phase4.c`, `phase4.5.c` and `phase5.c` share, as `phase4.5.c` writes it, on `KsListener`'s processes: life cycle, loop, reception, parser. No specification of its own. |
| `Phase5` | `EarlyServer` with the `handle_http_response` and `read_file` of `phase5.c`. |
| `Phases` | `phase2.c` to `phase4.5.c`, one loaded at a time, in any order, on `EarlyServer` and `KsListener`. |
| `MC...` | Instances for TLC. |
| `HttpServiceProofs` | What the promise implies, proved once for all its implementations. |
| `EarlyServerProofs` | Lemmas about the steps the early servers share: how clients see them, how near they bring the thread to its end. |
| the other `...Proofs` | Theorems about the module of that name, and their proofs. |

### Correspondence

*Sockets.* `socks` is the set of socket objects the module has; `ks_sock` and
`conn_from_client` are the pointers. `sock_release` removes an object,
`close_socket` also clears its pointer and, as the kernel does, resets what was
in the accept queue. `LISTENER` is the one object `ks_init` makes; an accepted
connection's socket is named by the connection.

*Processes.* `loader` and `thread` are program counters, at the granularity of
calls that may fail, block, or be seen by the other process. `SpawnThread` also
resets the stop flag. `StopThread` and `ThreadJoined` are the two ends of
`kthread_stop`. `Check` is the `while` test with the assignment at 153. That an
empty queue and a stop request make `kernel_accept` return `-ERESTARTSYS` is
what the comment at 156-160 reports; that a queued connection is taken first is
how `kernel_accept` is written.

*Memory.* `heap` holds the names of the blocks and of the open file that exist
now. A kmalloc failure is a disjunct of the action with the kmalloc (of
`RequestAlloc`, `Tokenize`, `ReadFile`, `FormatResponse`, `ResponseAlloc`), and
gives back what that branch gives back. Every kfree, on these branches too, goes
through `GiveBack`: freeing what is not allocated leads to `oops`, after which
nothing is modelled, and kfree of a null pointer does nothing. The frees that
`determine_response` makes after `handle_http_response` returned are in `owed`.
A failure branch that is dead code (the null checks at 249, 368 and 404) is left
out; `HandlerHoldsSocket` is why the two about the socket are dead.

*Messages.* A connection delivers one `Arrival`: a whole request line, a message
cut after the method, one with no separator, end of file, a reset; or it stays
silent. `Tokens` gives every pair of tokens `strsep` may find: for a cut message
it runs on into uninitialised memory, so the rest is any value. Strings are the
few classes the code tells apart. When a message has no second token the string
behind `request_target` is that of a freed block, hence any (`StaleTarget`).

*Files.* `disk` says how each path answers: a readable file, none, an open that
is denied, an open that works with a read that fails (a directory). It does not
change while the module runs.

*`EarlyServer`, `Phase5`.* As above; here a block for a request target lives on,
and is named by the connection that brought it. `fault` records the first double
release, bad kfree or null dereference, and the run ends there, since the kernel
does something undefined from then on. Every kfree of the handlers goes through
`Free`, which compares its blocks with what is allocated; the one of `ks_exit` is in
`ExitReleases`. `no_memory` of `Phase5` is a history variable: `read_file` gave up
because a kmalloc or the open found no memory, which its caller cannot tell from a
missing file. A receive or a send that returns `-EAGAIN`
and is tried again changes no state, so it is a stutter; `Spinning` is the state
in which the thread does that. The loop and the parser do the same in the
three files, but for phase4.c's late checks (`RequestAlloc4`).

*`Phases`.* `version` is the file that is loaded, or will be: `Pick` changes it
while no module is. Each version's functions carry its number (`ks_init35`,
`listen_loop4`), and the disjuncts they share have a name (`LoadOrLeak`,
`StopAndRelease`). `orphan` says that a listening socket of port 80 was lost: the
pointer to it went with the module (`SpawnLeaks`), and binding to the port fails
from then on (`PortTaken`), `sock_set_reuseaddr` or not, because a socket in the
listen state does not share its port. That is the kernel's rule, not the code's, and
is marked external in the map. `phase2.c` uses 8080. Clients that were in the
lost socket's queue are "stranded".

*`KsPage`.* Of a target there is its length and whether it is "/" (or missing), has
".." in it, or neither: the first two open the index page, whatever their length
(439-447), the third is cut where `filepath` ends (448). `path_len`, `bytes_read`, `terminator`, `response_size` and the two
counts of `snprintf` are byte counts; `ServeDir` is the length of the directory's
name, `Header` and `Trailer` are counted from the format string.

## 3. What TLC checks

Runs that pass:

| Run | Instance | Properties |
|---|---|---|
| `MCListener` | 4 clients, queue of 3, interchangeable clients (512 states) | `TypeOK`, `SocketOwnership`, `ListenerOutlivesThread`, `UnloadedIsClean`, `StopLetsOneThrough` |
| `MCHandler` | 1 connection used again and again, 2 paths, 12 arrivals (about 330,000) | `HTypeOK`, `NothingHeldBetweenConnections`, `BadFreeOnlyWithoutSeparator`, `AnswerFitsRequest`, `OneResponse`, `HandlerAdvances` |
| `MCServe` | 2 clients, 1 path, 4 arrivals (about 155,000) | `HandlerHoldsSocket`, `UnloadedHoldsNothing`, `StopComesNearer`, `ImplementsService`, `StopCompletesOrSpins`, `WaitingEnds` |
| `MCPage` | files of 19 sizes around every boundary, with zero bytes at the interesting places, targets of each kind, up to 4000 bytes long (366) | `TypeOK`, `TerminatorInBuffer`, `ResponseFits`, `LengthIsOfThePage` |
| `MCPhase5` | 2 clients, 2 paths, 5 arrivals (about 810,000) | `TypeOK`, `ThreadReleasesWhatItAccepts`, `OnlyTargetsSurvive`, `PageOfTarget`, `BadFreeOnlyOfLiteral`, `ImplementsService`, `StopCompletesOrSpins` |
| `MCPhases` | 5 versions, 2 clients, 1 path, 4 arrivals (about 140,000) | `TypeOK`, `ThreadReleasesWhatItAccepts`, `OnlyTargetsSurvive`, `NoBadFree`, `StaleTargetIsAllocated`, `UnloadedIsClean`, `LostPortIsNotServed`, `ClientsInOrder`, `ServesUnlessLost`, `StopComesNearer`, `StopCompletesOrSpins`, `WaitingEnds` |

Why the bounds are enough. `MCListener`: a queue of 3 and a fourth client give a
full queue, one at the head during a stop, and more than one left to be reset;
the module is loaded and unloaded any number of times. `MCHandler`: what a
connection can inherit is two pointers and two strings, each of which a single
earlier one sets, and connections follow each other without end; two paths tell
"the index" from "the file asked for". `MCServe`: with two clients one waits
while the other is served, and one may come before and one after a reload.
`MCPage` is not scaled; its sizes are each side of every comparison and of every
new digit or byte of a path. `MCPhase5`, `MCPhases`: a first connection to leave
something behind and a second to meet it, before or after an unload; any number
of loads, so that every version meets what every other one left. `Backlog` stands for the 10 of line 91 and what the kernel makes of
it. Deadlock is checked where the system cannot stop (`MCListener`, `MCPage`).
In the other instances it can: after `oops` or a fault nothing is modelled. The
arrival kinds left out of an instance (end of file, a cut after the method) take
the paths of the ones in it; `MCHandler` has them all.

Each property of these runs has a mutant, an operator next to the action it
changes, under which TLC finds the property violated. Two are bugs the
repository really had: `SpawnFailsLeaking` (`phase4.c:376`) and
`ReleaseDangling` (`phase5.c:347`).

### Fairness

`Thread` is weakly fair: the scheduler runs the kernel thread. `InitOrExit` is
weakly fair except where it would load or unload the module by itself: once
`insmod` or `rmmod` has been started it is run. `AcceptAndHandle` is strongly
fair: an allocation failure in `kernel_accept` may come any number of times, but
not for ever while a connection waits. Nothing is assumed of clients, of
`insmod` and `rmmod` being called, or of `RecvAgain`, which changes no state.

In `Phase5` and `Phases` the thread is weakly fair and its accept strongly fair in
the same way; `Loading` is weakly fair while `insmod` or `rmmod` runs, and in
phase 2, where "listening" is the loaded state, only before it. That a send comes
to an end is part of the thread's fairness: the code sends one header and one page
on a new connection, whose empty send buffer takes at least a part at once, so
`-EAGAIN` there is passing. A receive has no such reason to end, which is what
`Spinning` is for. `phase3.c`'s loop only waits; `WaitingEnds` does not speak of
clients of phases 2 and 3, which accept nobody.

### Refinement

`ImplementsService` maps the composed system to `HttpService`: `up` once
`kernel_listen` succeeded and until the socket is gone, the queue to the
accept queue, and `conn_from_client` to the connection being served; the status
is that of the reply while a handler works and 0 between two connections. It
checks that connections are taken in order, one at a time, answered at most once,
and that the service never goes down under one. `Phase5` is mapped in the same way, with
`serving` null once the loop has released the connection, since its pointer stays;
up to the first fault clients see the same service. `Phases` is the same service
for every version, and for any sequence of versions, but for the step in which a
listening socket is lost with clients in its queue (`ServesUnlessLost`): those
clients are "stranded", a stage the service does not know, and disturb none of
its later steps.

`HttpService` states what a reader concludes from the promise: `Orderly`, that the
queue holds exactly the waiting clients, each once, and that only the connection
being served is "served"; and `NobodyOvertakes`. An implementation inherits both,
as `ClientsInOrder` and `NobodyOvertakes`. TLC checks `ClientsInOrder` where it is
not inherited, in `Phases`, whose lost socket is no step of the service.

### Where the code is not what it says

Each of these runs is expected to be violated, and quotes what the repository
says:

| Run | Says | Does |
|---|---|---|
| `MCHandler_TargetIsOfThisMessage` | the tokens "give us the HTTP method and the request-target" (kern-serve.c:300) | A message with no separator leaves `request_target` as an earlier connection left it, freed; it is read (335) and freed again (360 or 338) |
| `MCHandler_SentIsWhole` | "Response sent!" (425) | a short count from the only, non-blocking send is not looked at |
| `MCServe_StopCompletes` | "Gracefully terminate the thread" (112) | the receive loop (261-270) does not test for a stop; a silent client keeps `rmmod` waiting |
| `MCPhase5_ExitReleasesLiveSocket` | "conn_from_client released" (phase5.c:403) | released by the loop already, when the stop came during a connection |
| `MCPhase5_KfreeOnlyKmalloced` | kfree is for kmalloc'd objects (phase4.5.c:244) | a target with dots makes it a literal (phase5.c:96, 405) |
| `MCPhases_OnlyGetIsServed` | "we should only accept GET requests" (phase4.5.c:330) | the parser's refusal (333-336) is logged and dropped (279-287), and the page is sent (179); so it is in phase4.c and phase5.c |

What the first of them means for the passing properties is said by
`BadFreeOnlyWithoutSeparator`: no other message leads to a double free, whatever
fails. And `StopCompletesOrSpins` is the part of `StopCompletes` that holds.

Seen while modelling, without a run of their own: a file of exactly 64KB, the
cap of line 28, loses its last byte to the terminator (497); the 124 bytes of
line 512 hold 20 digits, not the 22 of the comment at 510, and the length never
has more than 5; the last `kfree(conn_from_client)` of phase4.c (408) is always of a null pointer;
phase5.c and phase4.5.c free the last request target only, phase4.c none;
the comment at phase5.c:77 announces "either a 200 OK with file contents or 400", and
the code has no 400 but a 404 (120-148); that 404 is also sent for a file that exists
and cannot be read or held in memory, where the comment at 124 speaks of one not
found (`PageOfTarget` states exactly when a client gets the page and when a 404);
phase4.c uses its kmallocs before it looks at them (190), and the parser of all
three early servers takes the length of a null pointer when the first message has
no second token (phase4.5.c:322): both end a run as a null dereference, and no
property is about them. A file with a zero byte is announced longer than what is
sent, as `LengthIsOfThePage` says: exactly if that byte is among those kept.

What two of the properties do not say: `ThreadReleasesWhatItAccepts` ends with the
first fault, so that the second release of `ks_exit` is `ExitReleasesLiveSocket`'s
matter; `UnloadedIsClean` of `Phases` speaks of the sockets a version could still
release, so that the one `SpawnLeaks` loses is the matter of `LostPortIsNotServed`.

## 4. What is proved

TLAPS proves every property the passing runs check but the liveness properties:
every invariant, every action property, both refinements and the conditional one
of `Phases`, for all values of the constants: any set of clients, any backlog, any
paths, any arrivals, targets and files of any size. The only assumptions are those
the modules state: `NULL`, the listening socket, the connections, the names of
blocks and of the open file, and the literal are different things, the index is a
path, a first zero byte lies within its file.

| Module | Theorems |
|---|---|
| `HttpServiceProofs` | `ServiceIsOrderly`, `FirstComeFirstServed` |
| `KsListenerProofs` | `TypeCorrectness`, `SocketsAreOwned`, `ThreadKeepsListener`, `UnloadingCleansUp`, `StopIsPrompt` |
| `KsHandlerProofs` | `HandlerTypes`, `NothingLeaks`, `FreedOnce`, `AnswersFit`, `AnsweredOnce`, `HandlerReturns` |
| `KsPageProofs` | `PageTypes`, `TerminatorIsInBuffer`, `NoResponseIsCut`, `LengthIsRight` |
| `KernServeProofs` | `PartsCompose`, `PartsHold`, `HandlerKeepsSocket`, `NothingIsLeft`, `StopIsNear`, `Refinement`, `ClientsAreInOrder`, `ServedInTurn` |
| `Phase5Proofs` | `Phase5Types`, `LoopReleases`, `OnlyTargetsLeft`, `PageSent`, `BadFreeIsOfLiteral`, `StopIsNear`, `Refinement`, `ClientsAreInOrder` |
| `PhasesProofs` | `PhasesTypes`, `LoopReleases`, `OnlyTargetsLeft`, `EveryFreeIsGood`, `StaleTargetIsSafe`, `UnloadingCleansUp`, `LostPortStaysLost`, `StopIsNear`, `ServiceUnlessLost`, `ClientsAreInOrder` |

*HttpService.* `Orderly` is inductive once it is known that `stage` is a function on
the connections. The work is in the queue: `AppendNew` and `TailWithoutHead` say
that a queue without repetitions stays one, and who is in it afterwards.
`FirstComeFirstServed` needs it, since the head of the queue is only the oldest
client if nobody is in the queue twice. The proof modules of the three servers
instantiate this one with their refinement mapping, so that a step that maps to a
step of the service keeps their clients in order by the same lemmas.

*KsListener.* None of the properties is inductive. `SocketOwnership` needs to
know that an accept finds no connection in `conn_from_client` and that a failed
`ks_init` runs without a thread. `LoaderInv` ties the listening socket and the
thread's existence to the place of the loading process, `ConnInv` ties the
connection to the thread being at "serve" and the accepted client to the
connection, `LateInv` says that after a late connection the thread is anywhere
but at accept. One lemma per conjunct shows that steps keep it.

*KsHandler.* `HeapInv` is the heart: `Held` gives for each place the exact set
of objects held there, so both leaks and double frees are differences from it.
It is exact up to the block of `request_target`, which a message without a
second token does not get; `PointerInv` says that the pointer then is null or
the message had no separator. `ConnectionInv` and `TargetInv` carry what the
parser established. For the answer, `LineInv` follows a whole request line from
the tokens to the response, `ReplyInv` says nothing was sent before `Send`.
`HandlerReturns` is the safety core of termination: `StepsToReturn` numbers the
places, `WorkGoesOn` says where each action leads, and each of these places has a
smaller number. It needs no invariant: no path of the four functions goes back.

*KsPage.* The invariant says what each step has established. The digits of a
length are bounded because the length is, at 65535, after `Terminate`.

*KernServe.* No new invariant is needed: `StepOfListener` and `StepOfHandler` show
that a step of the whole is a step of each part or leaves it alone, so the
invariants of both parts hold of the whole (`PartsCompose` and `PartsHold` say so
of their specifications and of their properties). Together they give two more:
`conn_from_client` is null exactly when the thread is not at "serve", by the one,
and exactly when the handler is idle, by the other. For `Refinement` each action is
mapped to an action of `HttpService` or to a stutter (`LoaderRefines`,
`ThreadRefines`, `ClientRefines`). The listener's invariant is what makes an unload
find nobody being served, the handler's what makes a second answer impossible.
`StopIsNear` adds the loop to the handler's measure. What it rests on is that the
stop flag stands from `kthread_stop` on (`loader = "stopping"` implies
`should_stop`, in `LoaderInv`): without it the loop would go round after `Release`.

*Phase5.* `Blocks` says which transient blocks are allocated at each place of the
handlers. It has to be exact: too much of it would be a leak, too little a kfree of
what is not there, so that `HandlerHeap` proves at once that every kfree of the
handlers is good and that only targets survive. `AnswerInv`
follows the page from `read_file` to the client: at "header" the presence of
`file_buf` tells whether there is a page. A step starts without a fault, so what
the faults break needs no account. `TargetInv` says that a loaded module's target is
null, the literal or a block that is still allocated, which leaves the literal as
the only bad argument of the kfree in `ks_exit`. It relies on connections and
transient objects having different names, as `Phase5Assumption` says: else a target
could not be told from a buffer or the open file, which are given back first.

*EarlyServer.* `InPlace` gathers what the shared steps need to know of the place of
the two processes; each version's invariant implies it (`InItsPlace`). From it, and
without a version's order of steps, follow the step of `HttpService` that each shared
action is (`AcceptRefines`, `ReleaseRefines`, ...) and that it lowers `StepsToStop`
(`HandlerIsNearer`, `LoopIsNearer`, ...). The refinement and `StopIsNear` of `Phase5`
and `Phases` are put together from these lemmas.

*Phases.* `Moves` reduces the five versions to one: every step is a `Move`, which
says what happens to sockets, clients and heap without the version's name except
where it matters. `PlaceInv` and `SocketInv` tie sockets to the two program
counters, `ClientInv` says who may wait when, `PortInv` that after the loss of the
port only phase 2 gets beyond creating its socket, `HeapInv` is the exact account of the blocks, as in `Phase5`,
`ReplyInv` that a connection is answered once. `MoveRefines` maps each `Move` but
`LeakMove` to the service; that one changes `orphan` (`LostOnce`: by `PortInv` the
port cannot be lost a second time), which is the exception `ServesUnlessLost` makes.
`LeakKeepsOrder` shows that this step, too, keeps the clients in order, so that
`ClientsInOrder` holds although the refinement has a gap.

## 5. Only model-checked, and not modelled

Model-checked only: liveness (`StopCompletesOrSpins` of the three servers,
`WaitingEnds`). That a fair step is taken at last involves ENABLED, which this
prover does not reason about. What remains to TLC for `StopCompletesOrSpins` is just
that: `StopIsNear` proves that every step of the thread but a poll lowers a number
of at most 16, and that nothing else raises it.

Not modelled:
- which other file a cut path names, if any: `KsPage` only has its length;
- files that change while the module runs;
- a receive that finds part of a line and a second receive: the code has none,
  so the rest of the message is never read, and a cut message is an arrival of
  its own;
- the text of responses: that the short ones (349, 462, 467) end without the
  empty line is not a matter of state; nor the 256 bytes of phase5.c's header
  block, whose header has a fixed text and one number;
- clients that connect to a listening socket that was lost: nobody accepts them;
- `sock_set_reuseaddr`, which affects ports of closed connections only, a bind that
  fails for another reason being an outcome of every bind;
- logging, thread priority, peer names, the socket's address;
- memory errors beyond a bad free, such as `strlen` reading past `buff`; what a
  token may be then is any value;
- `test-00.c` and `sample-c.c`, which print and keep no state, the Makefile and the
  notes;
- that `phase5.c` does not compile as it is (`KERN_WARN` at 94 is no macro of
  the kernel): it is modelled with that line read as the log it is meant to be.

## 6. Plan

What was planned is built: all seven versions of the server are modelled,
model-checked and proved about. What could follow:

1. The part of liveness that needs no ENABLED: that whenever the module is being
   stopped and the thread does not poll, an action of the thread has its guard true.
2. `NobodyOvertakes` for `Phase5` and `Phases`, by the lemma `StepInTurn`.
3. A disk that changes between two requests, for `AnswerFitsRequest`.
4. Clients that connect to the lost socket of `Phases`, to state for how long a
   client of the old version is deceived.
