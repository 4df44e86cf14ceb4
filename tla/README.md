# A TLA+ verification project for INF1316

The repository holds the assignments of an operating-systems course. Its core is
`src/trab2`: a simulated kernel (`kernelSim.c`) that schedules five application
processes (`A.c`) on one simulated CPU, driven by an interrupt controller
(`interControllerSim.c`) and served by a file server over UDP (`sfss.c`).
`src/trab1` is an earlier kernel without the file server; `src/lab1` to
`src/lab8` are small exercises, of which three are concurrent programs of their
own. This directory models the two simulators, the file server and those three
programs, checks the models with TLC and proves theorems about them with TLAPS.

## Inventory

| Component | State | Operations | Interacts through |
|---|---|---|---|
| kernel (`trab2/kernelSim.c`) | the shared-memory CPU `state`, `process_states`, the ready queue, one queue of waiting processes per device, one queue of responses per device, `num_children_done`, `paused` | the `pselect` loop, `handle_udp_response`, `handle_syscall`, `handle_irq` and its three handlers, `switch_context`, `find_response_from_process`, the signal handlers `manual_pause`, `manual_unpause`, `handle_ctrl_c` | SIGSTOP/SIGCONT to applications and controller, two FIFOs, a UDP socket, shared memory |
| queues (`trab2/state.c`) | linked lists with a start and an end | `insert_end`, `pop_start` and the same for responses | calls from the kernel |
| application (`trab2/A.c`) | its place in `main`, the operation it asked for, `state->PC` and `state->current_response` in shared memory | the initial listing, `maybe_syscall`, `print_response`, the end of an iteration, the exit syscall | the syscall FIFO, shared memory |
| interrupt controller (`trab2/interControllerSim.c`) | the draw of the current period | IRQ0 after every sleep, then perhaps IRQ1, then perhaps IRQ2 | the irq FIFO, SIGSTOP/SIGCONT |
| file server (`trab2/sfss.c`) | the trees on disk, one response buffer | `init_fs_root`, one answer per request, carrying the request's owner; read, write, create, delete, list | UDP, the file system |
| first simulator (`trab1`) | as trab2, without responses | as trab2, a device interrupt releases the first waiter at once | FIFOs, signals, shared memory |
| producers and consumers (`lab6/produtor_consumidor*.c`) | a ring with two indices and a count, two counters of ended threads | produce, consume, wait, give up, end | one mutex, two condition variables |
| reader and printer (`lab7/ex2.c`) | a shared buffer, what the reader holds | read a character, look for a free place, print and free the buffer, stop on Ctrl-C | shared memory, two System V semaphores with `SEM_UNDO` |
| mailboxes (`lab7/ex4_a.c`, `ex4_b.c`) | two one-place mailboxes | set up, receive, send, stop on Ctrl-C | shared memory, four System V semaphores with `SEM_UNDO` and `IPC_NOWAIT` |
| the other exercises | a few variables each | see "Not modelled" | |

What makes it hard: five processes, a controller, a server and a terminal act
while the kernel is between two statements; which process a syscall belongs to is
inferred from who holds the CPU; responses come back in any order, or never; two
queues (of processes and of responses) rotate independently; handlers leave early
on several paths after having popped something; `SIGTSTP` can arrive anywhere; the
server may be killed in the middle of a write and started again on the same
disk. In the laboratories: wake-ups that come too early, threads that end in
any order, buffers scanned without a lock, semaphore operations whose failure
nobody looks at, and a Ctrl-C that removes the semaphores under the other program.

What makes each part correct:

- scheduler: no process is lost or duplicated, at most one runs, the CPU is idle
  only when none is ready, first come first served, the count of finished
  processes is exact;
- contexts: what a process finds when it gets the CPU back is what it left;
- device queues and responses: a process is woken with the answer to its own
  syscall, a response stays available until it is taken, nobody waits for ever;
- system: a process that looks for a response finds its own, the kernel ends, and
  only after every process has exited;
- file server: an answer is true of the disk until its owner reads it, what was
  acknowledged survives, no process changes the tree of another, a listing fits
  the arrays it is copied into;
- producers and consumers: the ring is a FIFO, nobody gives up on work another
  would still do, every thread ends;
- reader and printer, mailboxes: what is written comes out whole, once, in
  order; each program goes on until it is interrupted.

The hazards in `PROJECT.json` list where each of these could fail, by line.

## Modules

| Module | What it is |
|---|---|
| `Scheduler` | Abstract: one CPU, a FIFO of ready processes, a set of blocked ones, a set of finished ones. |
| `KernelSim` | `trab2/kernelSim.c` and `state.c`: every step of the loop and every handler, with the most general environment of the kernel. |
| `Trab2` | The whole system: `KernelSim` with the real `A.c`, `interControllerSim.c` and request loop of `sfss.c` in place of that environment. |
| `Sfss` | The file server, `trab2/sfss.c`, with the arguments that `A.c` builds from what it was last answered, crashes and new starts. |
| `Trab1` | The whole of the first simulator: its kernel, its `A.c`, its controller. |
| `BoundedFifo` | Abstract: a bounded queue of items that go in and come out once. |
| `ProdutorConsumidor` | Both programs of `lab6` on producers and consumers. |
| `SysVSem` | A semaphore as `semop` with `SEM_UNDO` treats it (external: the operating system). |
| `Ex2`, `Ex4` | `lab7/ex2.c`; `lab7/ex4_a.c` with `ex4_b.c`. |
| `MC...` | The instances TLC checks. |
| `Queues` | Lemmas on queues as sets of processes, for both simulators. |
| `KernelSim_proofs` | Types of `KernelSim`, who runs and with which context, no process is lost, `KernelSim` implements `Scheduler`; where the requests and responses are: who waits is answerable, once, and woken by its own response. |
| `Trab2_proofs` | `Trab2` implements `KernelSim`; what the exits and the responses of the real applications are worth. |
| `Trab1_proofs` | The same for `Trab1`: types, contexts, `Scheduler`, records and exits. |
| `Sfss_proofs` | Trees, answers and acknowledged blocks of `Sfss`. |
| `ProdutorConsumidor_proofs` | Types, the FIFO and the end of the threads of `ProdutorConsumidor`. |
| `Ex2_proofs` | The buffer of `Ex2`. |
| `Ex4_proofs` | The mailboxes of `Ex4`. |

### KernelSim: state and actions

The process at index `i` of `process_states` is `i + 1`; its pid is that number, and
`NoProc` (0) is the pid -1 of an idle CPU. `cpu` is `*state`, `pcb` is
`process_states`; both hold records with the fields that decide something (`pid`,
`PC`, `current`, `op` = `current_syscall.Op`, `resp` = which operation
`current_response` answers, or `"EMPTY"`). The queues are sequences. A message to
or from the server is its owner and its operation; messages in flight are a set,
since UDP orders nothing. A FIFO is a bounded sequence: a writer blocks when it is
full, as on a pipe.

The loop of `main` is cut where another process or a signal can intervene: `kpc` says
whether the kernel is about to test `paused` (`"top"`), in `pselect` (`"select"`),
about to send SIGSTOP (`"stop"`), about to handle a datagram, a syscall or an
interrupt (`"udp"`, `"syscall"`, `"irq"`), or about to continue the current process
(`"resume"`). `pending` is the snapshot `pselect` returned, which decides the
handlers that run. Each handler is one action with everything it does: the
context switch, the queue insertions, the request sent. The kernel ends
`"exited"` (the happy end), `"failed"` (the "situação impossível", or a read of the syscall FIFO
that finds nothing and gets `EAGAIN`), `"killed"` (Ctrl-C) or `"undefined"`: a read at the end of the FIFO
returns 0, which the test of `kernelSim.c:431` does not take for an error, and the kernel goes on with
uninitialized `args`. Nothing can be said of the program after that, so the model stops there. When the FIFO is at its end is
the argument `hungUp` of the kernel's steps; under the `Regime` `"free"` (below) the environment of `KernelSim` may hang up at any moment.

`find_response_from_process` is written as what its loop computes: the position of the
first response of the process among those `NUM_APP_PROCESSES` tries reach; when there
is none, the response the rotation stops at, which the code neither returns nor puts
back. The queue it leaves is the ring that starts after that position.

`running` holds the processes whose last signal was SIGCONT, which is what lets a process act.
SIGSTOP is taken to have stopped a process when `kill` returns.

The environment of `KernelSim` is as general as possible: an application that may
run writes any syscall, advances its counter or consumes its response, in any
order. When it may run is the constant `Regime`:

- `"prompt"`: only while the kernel has nothing to do. This is a hypothesis on timing, and nothing in the
  code enforces it. Applications and controller sleep as long (`A_SLEEP` and `TIME_SLICE` are
  both half a second), so an application may well wake up about when IRQ0 is written. What the
  hypothesis excludes is that it writes in the short time from the kernel's return from `pselect` to
  its SIGSTOP: that syscall would be read after the switch and charged to another process, as in finding 2.
  The properties and theorems that need it say so;
- `"paused"`: also while the kernel sleeps in a manual pause, which lasts for seconds;
- `"free"`: whenever the process is not stopped, whatever the kernel is doing.

Outside `"free"` no process exits before all have opened the syscall FIFO, so that the kernel never meets its end. This is a
hypothesis on timing as well: a process lives for many slices, and the others open the FIFO in their first one.

A SIGTSTP is `manual_pause(tty)` or `manual_unpause(tty)`: typed at the terminal it also stops the
application that runs (applications and controller are in the same process group and have the
default action after `exec`); sent to the kernel alone it does not. The file server ignores it,
because `compile_n_run.sh` starts it with the signal ignored.

### Trab2

`Trab2` extends `KernelSim` with the place of each application in `A.c`, the operation it last
asked for and the interrupts its controller has drawn. Each action conjoins a step of
`A.c` or of the controller with the effect on the shared state that `KernelSim` gives it
(`WriteSyscall`, `AdvancePC`, `ConsumeResponse`, `RaiseIrq`). That the result only does what
`KernelSim` allows is proved (`SystemImplementsKernelSim`), so what is proved of `KernelSim`
holds of the whole system. Most steps imply it action by action. The kernel's steps do not: outside
`"free"`, `KernelSim` has no hang-up, and `Trab2` has none either because somebody is there, or an exit is unread.

A process is stopped as soon as it is forked, so it opens the syscall FIFO when the kernel first continues
it (`"opening"`, `OpenFifo`), unless it got that far before the signal; the initial state leaves this open. `HungUp` is the end
of the FIFO as Linux has it for a reader that opened it with `O_NONBLOCK`: at least one writer has come and gone, and none is left. `Return`
closes a process's end of the FIFO, with no sleep between the exit syscall and it.
`trab1/A.c:52` opens its FIFO in the same way; `Trab1` takes it as open from the start, no property of it is about the end of the
FIFO, and what the first kernel does there is not modelled.

### Sfss

A tree is a function from the paths that exist to a directory or a file; a file is a
sequence of 16-byte blocks, because every offset is a multiple of 16 and every write is 16 bytes long. The block a
process writes is its own number, so that a block tells its author. `resp` is the one buffer of `main`, cleared
before each request (`Blank`). The five handlers are five operators; `Serve` is a turn of the
loop. `SyscallsOf` is the set of arguments `maybe_syscall` can draw: existing names come from
`current_response`, that is from the last response of the process, whatever it
answered. The kernel in between is what `Trab2` shows it to be: one request per process under way,
answered to that process. `Restart` is the kill of the server at the end of `compile_n_run.sh`, or
at any other time, and the next start: a write that was in progress leaves the file created, or padded, or
whole (`fwrite` keeps the sixteen bytes in the buffer of the stream until `fclose`), and `init_fs_root` makes the roots that are
missing.

### Trab1

`trab1` has its own kernel, so `Trab1` is a module of its own, with the same abstractions and the same
three regimes. What differs in the code differs in the module: a syscall names a device (`Dx`), a device
interrupt releases the first process of the queue at once, the exit syscall carries the arguments of no syscall, there
is no Ctrl-C handler and nothing can be lost. The environment is the real one. Since `state->PC++`
is done on shared memory, it is a read (`ReadPC`) and a write (`IncrementPC`), which a SIGSTOP can
separate. `Trab1` implements `Scheduler` too.

Its pseudo-code (`trab1/kernelSim.c:44-60`) stops the running process on a manual pause and continues it
afterwards; `manual_pause` and `manual_unpause` do neither, and the model follows the code: a process keeps running in a
pause unless the terminal stopped it, and one that the terminal stopped is continued by the next interrupt.

### ProdutorConsumidor

Everything shared is touched with the mutex held, so what a thread does from getting the mutex to
releasing it, by unlocking or by waiting, is one action: `EsperaVaga`, `Produz`, `Aborta`, `TerminaProdutor` for a producer,
`EsperaItem`, `Consome`, `Desiste`, `TerminaConsumidor` for a consumer. A signal takes one thread
out of the set that waits, a broadcast all of them, and `SpuriousWakeup` one that nobody signalled. The two
programs differ only in the numbers of threads, which the initial state chooses. The
item of a producer's turn is the producer and the turn.

### SysVSem, Ex2, Ex4

`SysVSem` says when an operation waits, is done or is refused, and what the exit of a process
undoes: with `SEM_UNDO` the operating system keeps an adjustment per process and semaphore and refuses (`ERANGE`) the
operation that takes it out of range, and `SETVAL` refuses a negative value. In `Ex2` the search for a
free place and the printing loop take one place per action, so that they interleave. In
`Ex4` a message is copied in two halves, for the byte-by-byte copies; a program that gets an error other than `EAGAIN` ends.
The interrupt handlers are two steps, the signal and the removal, because they sleep in between or remove two sets.

## Runs

| Run | Properties | Question |
|---|---|---|
| `kernel_free` | `TypeOK`, `ExactlyOnePlace`, `WorkConserving`, `DoneCount`, `WaiterIsAnswerable`, `OneMessagePerWaiter`, `ReleasedWithItsResponse` | The kernel in its most general environment, with requests to both devices, a lost datagram, a pause or Ctrl-C anywhere, a FIFO that may hang up, and syscalls written at any moment and charged to the wrong process: is it still a scheduler, is a response put in the queue where its process is looked for, and does a waiter wake with its own response? |
| `trab2_live` | `ResponseForMyRequest`, `SyscallFromCurrent`, `ContextFaithful`, `WaiterIsReleased`, `TerminatesUnlessBroken` | The whole system under fairness: is every waiter released, does the kernel end, are syscalls charged to their writers? |
| `trab2_free` | `SingleRunner`, `EndOfFileIsALateStart`, `HappyEndIsReal`, `ImplementsScheduler` | Arbitrary scheduling of the whole system by the host, processes that open the FIFO at any moment: when can the kernel meet the end of the FIFO, can it end too early, does it keep to `Scheduler`? |
| `trab1_free` | `TypeOK`, `SingleRunner`, `SyscallValidIfWaiting`, `ContextFaithful`, `HappyEndIsReal`, `ImplementsScheduler` | The first simulator with arbitrary scheduling and pauses. |
| `trab1_live` | `RecordIsReal`, `WaiterIsReleased`, `TerminatesUnlessPaused` | Under fairness, paused at any moment: is every waiter released, does it end, unless the pause is never lifted? |
| `sfss` | `SfssTypeOK`, `AnswerStillHolds`, `AcknowledgedBlocksSurvive`, `ListingFits`, `PrivateIsolation` | Two processes, private and shared trees, a server killed in the middle of a write: are answers still true when they are read, does what was acknowledged survive? |
| `prodcons` | `NothingLeftBehind`, `ImplementsFifo`, `EveryThreadEnds` | Every number of producers and consumers up to three: is the ring a FIFO, does every thread end, and not too early? |
| `ex2` | `NothingLostOrReordered`, `ReadingGoesOn` | Are characters printed once and in order, and does the reader always read again? |
| `ex4` | `InOrderAndWhole`, `VIsNeverRefused`, `ReceivedUnlessEnded`, `RemovalEndsBoth` | Do messages arrive whole, once and in order, and does the end of one program end the other? |
| `kernel_discard` | `ResponseNeverDiscarded` | (violation) Does a response the kernel received stay available? |
| `kernel_impossible` | `ImpossibleNeverHappens` | (violation) Is the "situação impossível" impossible? |
| `sfss_listing` | `ListingPersists` | (violation) Do the data of the last listing persist? |

### Bounds

- The simulators. Two processes are enough for every pair of roles (one on the CPU, one
  waiting; two waiting on the same or on different devices). What needs three, the order of a ready queue and a response found behind another's,
  is in the proofs, which are for every `N`: places, contexts, the count and the implementation of `Scheduler`. `MAX` is 0 or 1: an iteration is
  independent of its number, and the exit, which ends the count, is reached. There is one operation
  per device, because the kernel only tells the two classes apart; the proofs are for every set of operations. The FIFOs
  hold one to three entries: one makes every writer block, two leave a second entry unread when
  `pselect` returns, three let the processes run past the end of all. `MaxSignals` and `MaxLoss` are 0 or 1
  because a pause changes `paused`, which an unpause (not counted) changes back,
  and because the kernel never resends.
- `Sfss`. Two processes, one name besides `mypath`, offsets of two blocks, three calls beyond the initial
  listings and two starts: enough for a name created by one process to be listed, deleted, created again as a file where it
  was a directory, or reached on the shared tree by the other, and for a write to be killed after an
  earlier one was acknowledged. `MAX_DIR_ENTRIES` is 2 as there are then two names in a directory at most: the assumption
  `NamesAssumption` says of the program that the names `generate_random_name` can draw, and `mypath`, fit the
  arrays, which is what keeps `scandir` from overrunning them.
- `prodcons`. Up to three threads of a kind (1 and 1 are the first program, 2 producers and 4 consumers the second, where the
  third consumer already waits with another two), a ring of two with two items per producer, so that it fills, empties and wraps. The theorems are for all.
- `ex2`, `ex4`. `SEMVMX` and `SEMAEM` are 32767 on Linux, and 5 or 6 here, so that the adjustments run out; that the two are equal matters to
  `VIsNeverRefused`, since a value that could not reach the adjustment's limit would be refused first. In `ex2` a
  buffer of three is filled up to three times. `ReceivedUnlessEnded` speaks of a third of `SEMAEM` messages because
  a program polls its mailboxes in turn, and may send three times while the other does once, until its adjustment runs out.

### Fairness

`Fairness` in `Trab2` and in `Trab1`. The kernel's loop and the server's loop never block
for ever, so they are weakly fair. An application runs in slices: its wake-up
from `nanosleep` is enabled only while it holds the CPU and the kernel is quiet, so it is
strongly fair, which says that a process given the CPU again and again finishes its
sleep in one of the slices. The controller's writes are weakly fair. Its draws (probability 0.1 and
0.02 in every period) come out positive infinitely often with probability 1: strong fairness of
the periods in which only IRQ1, or only IRQ2, is drawn.

In `ProdutorConsumidor` each thread that can take the mutex takes it in the end (weak fairness of each); no
spurious wake-up is promised. In `Ex2` and `Ex4` each program goes on when it can; nothing makes a user
type Ctrl-C, a user may type the end of the input, and a program that was interrupted finishes its handler. `SleepIsEnough` is an assumption of
time: `B` sleeps two seconds while `A` makes four calls. Without it, the last `SETVAL` can come after B's
first message, and `ReceivedUnlessEnded` fails.

## Findings

1. `kernel_discard`. `find_response_from_process` loses a response. When an IRQ1 comes
   for a process whose response has not arrived while another process's response is queued,
   the search rotates `NUM_APP_PROCESSES` times and returns NULL with one response popped
   (`kernelSim.c:177-187`). The process that response belongs to is never released. The report promises the
   contrary (`relatorio.md:78-79`), and with it the end of the program (`relatorio.md:127`).
   The other properties about waiting are stated with this exception (`discarded`).
2. `kernel_impossible`. A pause requested by a signal to the kernel alone leaves the running
   application running. The syscalls it writes meanwhile are charged, after the pause, to
   whichever process holds the CPU when each is read, and the last one meets an idle CPU: the
   kernel exits at the line that calls this impossible (`kernelSim.c:420-424`).
3. `sfss_listing`. `A.c:58` picks names "assumindo que os dados do último DL persistem". The server clears
   the whole response before each answer and the kernel copies the whole of it over the last one, so that a process
   knows the names of a listing only until its next syscall of another kind is answered.

Met on the way, and visible in the models without a property of their own:

- "if (syscall_pending) // someone made a syscall" (`trab2/kernelSim.c:781`) does not always hold. The FIFO is readable at its end too: in
  the states of `trab2_free` a process lives its whole life before the other has opened the FIFO, and the kernel goes on with uninitialized
  `args`. It takes a host that starves the controller, or the kernel, for the whole life of a process, or a kernel that is paused alone for so long (finding 2).
  `EndOfFileIsALateStart` says that there is no other way: the exits of all never do it, whoever they are charged to.
- A DR for a directory, by a process that knows none, has an empty path: the server removes the root directory of that process if it is
  empty, and everything the process asks for fails until the next start (`A.c:154`).
- `SETVAL` of `1 - BUFFER_SIZE` (`ex2.c:26`) is negative and refused. The report of the laboratory says that the semaphore
  starts with that value; it starts at 0, and the program is right because its P takes `BUFFER_SIZE`.
  After a run that was killed, the semaphore of the Impressor keeps the value it had.
- After 32767 characters the operations of `ex2` are refused and nobody looks: "Não era pra acontecer!"
  (`ex2.c:174`) then happens. After Ctrl-C sent to the Leitor alone, the Impressor, whose semaphores are gone, turns for ever without waiting.

## Proofs

For every value of the constants: any number of processes or threads, iterations, operation sets, sizes, bounds
and regimes, with the named assumptions of the module and no other than the hypotheses the tables show.

| Theorem of `KernelSim` | Property | Inductive invariant |
|---|---|---|
| `TypeCorrect` | `TypeOK` | `TypeInv` |
| `CpuNeverWasted` | `WorkConserving` | `ContextInv` |
| `OneRunnerAtATime` | `SingleRunner` | `ContextInv` |
| `ContextsNeverMixed` | `ContextFaithful` | `ContextInv` |
| `NoProcessLost` | `ExactlyOnePlace` | `PlaceInv` |
| `EndsAfterTheLastExit` | `DoneCount` | `PlaceInv` |
| `KernelImplementsScheduler` | `ImplementsScheduler` | `PlaceInv` |
| `NoStaleRouting` | `OneMessagePerWaiter` | `Accounted` |
| `AnswersAreOnlyLostKnowingly` | `WaiterIsAnswerable` | `Accounted` |
| `ReleasedOnlyByItsResponse` | `ReleasedWithItsResponse` | `Accounted` |
| `SyscallsChargedToTheirWriter` (`Regime = "prompt"`) | `SyscallFromCurrent` | `PromptInv` |
| `PromptIsNeverImpossible` (`Regime = "prompt"`) | `ImpossibleNeverHappens` | `PromptInv` |

| Theorem of `Trab2` | Property | Rests on |
|---|---|---|
| `SystemImplementsKernelSim` | `ImplementsKernelSim` (by no run) | the types, step by step, and the count of exits |
| `SystemKeepsThePromises` | `ExactlyOnePlace`, `SingleRunner`, `ContextFaithful`, `OneMessagePerWaiter`, `WaiterIsAnswerable`, `ImplementsScheduler` | the refinement and the theorems of `KernelSim` |
| `HappyEndNeedsEveryExit` | `HappyEndIsReal` | the count of exits |
| `OnlyALateStartHangsUp` | `EndOfFileIsALateStart` | `ReadInv`, on the count of exits |
| `ResponseIsForItsRequest` (`Regime = "prompt"`) | `ResponseForMyRequest` | the stages of a request |

| Theorem of `Trab1` | Property | Inductive invariant |
|---|---|---|
| `TypeCorrect` | `TypeOK` | `TypeInv` |
| `OneRunnerAtATime` | `SingleRunner` | `ContextInv` |
| `ContextsNeverMixed` | `ContextFaithful` | `ContextInv` |
| `Trab1ImplementsScheduler` | `ImplementsScheduler` | `PlaceInv` |
| `RecordedSyscallsAreValid` | `SyscallValidIfWaiting` | `Recorded` |
| `HappyEndNeedsEveryExit` | `HappyEndIsReal` | `ExitsCounted` |
| `RecordsMatchTheProcesses` (`Regime = "prompt"`) | `RecordIsReal` | `RecordsKept` |

| Theorem of `Sfss` | Property | Inductive invariant |
|---|---|---|
| `SfssTypeCorrect` | `SfssTypeOK` | `SfssInv` |
| `AnswersAreTrue` | `AnswerStillHolds` | `SfssInv` |
| `WritesAreDurable` | `AcknowledgedBlocksSurvive` | `SfssInv` |
| `ListingsFit` | `ListingFits` | `SfssInv` |
| `TreesArePrivate` | `PrivateIsolation` | `SfssInv` |

| Theorem of `ProdutorConsumidor` | Property | Inductive invariant |
|---|---|---|
| `PCTypeCorrect` | `PCTypeOK` | `PCInv` |
| `GiveUpOnlyWhenDone` | `NothingLeftBehind` | `PCInv` |
| `RingIsAFifo` | `ImplementsFifo` | `PCInv` |

| Theorem of `Ex2`, `Ex4` | Property | Inductive invariant |
|---|---|---|
| `PrintedOnceInOrder` | `NothingLostOrReordered` | `Ex2Inv` |
| `NoVIsRefused` (`SleepIsEnough`, `SEMAEM =< SEMVMX`) | `VIsNeverRefused` | `Ex4Inv` |
| `MessagesArriveWhole` (`SleepIsEnough`, `SEMAEM =< SEMVMX`) | `InOrderAndWhole` | `Ex4Inv` |

- `TypeInv`. `TypeOK` bounds `numDone` by `N`, which is not inductive: nothing in the types stops
  `Finish` from counting past `N`. `TypeInv` adds that the kernel has exited when the count is `N`.
  The lemmas rest on `SearchType` (what a search of a response queue returns, and that it
  stops inside the queue), `SwitchType` and `PopType`.
- `ContextInv` adds to it that every entry of `process_states` keeps its own pid (`OwnPids`), without which a
  loaded CPU could be idle and a saved counter could belong to somebody else; that a
  process which advances the counter is the one on the CPU comes from `SingleRunner`, so the three
  properties are proved together. `SwitchKeepsContexts` is the lemma all handlers share.
- `PlaceInv` adds `ExactlyOnePlace`, in the form of a partition of the processes, and `DoneCount`. The two
  need each other: the exit that ends the kernel pops the ready queue and uses nothing of
  what it popped, which loses no process only because, when all but one have
  finished, the queue is empty. `PlaceStep` proves in one go that a step keeps the invariant and
  that it is a step of `Scheduler` or a stutter: a syscall is `BlockCurrent` or `FinishCurrent`, IRQ0
  `Rotate`, a device interrupt `Unblock` or, when it only rotates a device queue, a stutter (`RotatedRange`).
  What `insert_end` and `pop_start` do to the processes of a queue is stated once, in `Queues`.
- `Trab1` follows the same argument. Its `ContextInv` also says that a process which has not
  initialized its counter has counted nothing (`FreshAtStart`), since `state->PC = 0` at the head of its loop would
  otherwise erase iterations, and that the value read for `PC++` is still current when the write
  comes, which holds although others wrote the shared CPU in between because the switch back restored it.
  Its `PlaceInv` has the same two parts (`Placed`, `Counted`); every device interrupt releases somebody or finds nobody.
- `PCInv` has five parts. `RingInv`: the place where the next item goes is the place of the oldest plus the count, around the ring, and the
  slots between them hold items; `RingProduz` and `RingConsome` read `Contents` off it, on top of what `%` does to an index that goes around once (`ModOnce`) and of the slots being
  different (`SlotsApart`). `TurnInv`: a producer has produced the items of its past turns only, so that
  what it puts is new. `CountInv`: the counters of ended threads count them, so that a counter at its limit says that all
  threads of that kind have ended (`LimitMeansAllEnded`, by the cardinality of the threads created).
  `WorkInv` is `NothingLeftBehind` made inductive: a consumer that gave up left no item and will miss none, because no
  producer is left; with it, a producer that aborts finds a full queue, so that no consumer gave up and each took all its items. `RestInv` is the rest of the types.
- `Accounted` is the account of the messages of `KernelSim`. A waiter's recorded operation belongs to the device it waits for; a
  message is in one of four stages (a request on its way, a response on its way, a File or a Directory response that is queued), answers the
  operation its owner has on record and is in the queue of the right device; nobody who does not wait has one; and every waiter has
  one, or the kernel dropped it (`lost`, `discarded`). `OneMessagePerWaiter` alone is not inductive: a response is queued by the operation recorded
  for its owner, so a wrong record would put it in the other queue, where nobody would look for it. That a process which blocks starts without a
  message needs `PlaceInv`. `Released` is the step: a process leaves the waiting set only by the rotation that found its response.
- `PromptInv` (`Regime = "prompt"`: the kernel stops a process before it acts again after a syscall) says that the FIFO holds one syscall at most, of the process on the CPU.
  The regime is a hypothesis of the theorem and not an assumption of the model: `kernel_impossible` shows a run of another regime where a
  syscall is charged to somebody else. `Trab1` has an invariant of the same name.
- `Trab2`. In the states of `SystemInv`, every action is an action of `KernelSim` or a stutter (`SystemImplementsKernelSim`), history variables included: what an
  application draws is in the operations of the environment, its steps between syscalls leave the kernel alone, and what the server answers is one of the
  answers `KernelSim` allows; outside `"free"` the FIFO does not hang up, by `OpenedInTime` and the count of exits. So what is proved of the kernel alone is true of the whole (`SystemKeepsThePromises`), and the rest of the proofs starts from it.
  `ExitsCounted`: the exits counted and the exits still in the FIFO (`CountIn`) are as many as the processes that left; with `numDone = N` nobody is left, and before that
  a process has yet to leave, or an exit is unread (`SomeExitIsUnread`). `ReadInv` follows the kernel from `pselect` to its read, during which a process may open the FIFO: if no
  syscall is there, somebody has not made its first. `Answering`, under the prompt regime: the request of a process is unread, or on record while
  it waits, or answered in its context. `ListingAssumption` says that the operations include DL, which the applications draw.
- `Trab1`, records. `Recorded`: off the CPU, a record names the device whose queue holds the process, and none for the others; on the CPU it names none.
  `ExitsCounted` is as above, with the place of every process in its loop (`PlaceInLoop`), and holds in every regime, though the exit may be charged to
  another process. `RecordsKept`: with `PromptInv`, what the queues say of a process is where it is.
- `Sfss`. `Effect` says of the five handlers at once that each replaces one tree by a tree (`IsTree`: parents are directories, and `mypath` never is one)
  that keeps the files it was not asked to delete (`Keeps`) and of which the answer is true (`TrueOf`). An answer stays true until its reader sees it
  because a process has one request at most anywhere (`OneRequest`) and nobody relies on what a new start will change (`NothingReliedOn`).
- `Ex2Inv`. The unprinted characters are in consecutive places, in order (`FilledFrom`); the search of the Leitor, which scans from the first place, passes only
  places that are taken, and one is free (`HandInv`); the two semaphores let the programs in by turns of `BUFFER_SIZE` (`TurnInv`), without which the
  Impressor could free a place behind the one it prints next. An interrupted Leitor enters the buffer no more, so the turns are only claimed until then.
- `Ex4Inv` has two regimes. While both programs run, the two semaphores of a mailbox and the adjustments of both programs count the same
  messages (`Tokens`), and where the writer and the reader are says what is in the mailbox (`WriterAt`, `ReaderAt`). When one has run out of adjustments, its exit
  undoes what it did and the equations break: `Abandoned` keeps what is still true, that nobody
  empties one mailbox and nobody fills the other. Both hypotheses are needed: without `SleepIsEnough` B may send before the last `SETVAL`, which erases
  its V; with `SEMAEM > SEMVMX` the undo of an exit may leave a value at its limit, and the next V is refused. Linux defines `SEMAEM` as `SEMVMX`.

Only model-checked, for good: the liveness properties (`WaiterIsReleased`, `TerminatesUnlessBroken`, `TerminatesUnlessPaused`, `EveryThreadEnds`,
`ReadingGoesOn`, `ReceivedUnlessEnded`, `RemovalEndsBoth`), which are out of the prover's reach. Every other property of a run that passes is a theorem; the
ones that fail, of the three findings, have nothing to prove, except that `ImpossibleNeverHappens` holds in the prompt regime.

## Not modelled

- What `print_response` and `print_state` write, and the fields only they read.
- Failures of `fork`, `open`, `malloc`, `shmget`, `fopen` on a full disk: the code exits or goes on as if nothing happened.
- A signal handler that interrupts a handler halfway: it only prints the queues.
- Compilation, in the start scripts.
- The racing frogs (`lab6`): one counter of arrivals, incremented without a lock in the first program to show that positions repeat, and under
  a mutex in the second.
- `lab7/ex1` and `ex3`: one variable under one binary semaphore.
- `lab5`: a client and a server that take strict turns over two FIFOs.
- `lab1` to `lab4`, `lab8`: exercises on `fork`, signals, pipes and listings, each without state that outlives a few lines.

## Plan

1. Done: `Scheduler`, `KernelSim`, `Trab2`, `Trab1`, `Sfss`, the concurrent laboratories, their runs, and the theorems above.
2. Next: the safety part of what the liveness properties need, as theorems of the modules that are there: which guard of the kernel's loop holds in every state
   (so that a kernel which is not paused has a step to take), and that whoever waits in `Trab1` is in a queue which an interrupt of its device shortens.
