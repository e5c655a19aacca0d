# A TLA+ model of kvmserver

kvmserver runs a Linux server program inside a TinyKVM virtual machine. The
*master* boots until it waits on its listening socket, is optionally warmed up,
and is then forked into request VMs. An *ephemeral* fork serves one connection
and is reset to the master before it serves the next. Request VMs may call a
*storage VM*, and a booted master may be kept in a *snapshot file*.

This directory holds models of the parts of kvmserver that are hard to test,
configurations to check them with TLC, and proofs checked by TLAPS. The `map` of
`PROJECT.json` ties every definition to lines of the code.

## The system and what is modelled

| Part | State | Operations | Hard behaviour | Module |
|---|---|---|---|---|
| Pool of forks (`main.cpp`, `vm.cpp`) | per fork: host thread, tracked connection, blocking flag, reset flag, guest memory, descriptors; shared: accept queue | create, restart poll, accept, close, exit, throw, reset in `resume_fork`, reset in `main` | forks race for one accept queue; any reset may throw half way | `ForkPool`, abstract `SingleUse` |
| Boot (`vm.cpp` `initialize`) | tracked listener, poll method, waiting flag | listen, poll, accept, timeout, exceptions | several listeners, listeners closed again | `Master` |
| Warmup (`warmup.cpp`) | accepted and freed sockets, client thread, stop flag | callbacks, client loop, join | client, guest and visitors interleave; unsynchronised flag | `Master` |
| Single VM (`main.cpp`) | the same VM, no forks | start, run again | exceptions without a reset | `Master` |
| Virtual paths (`config.cpp`, `vm.cpp`) | `allowed_paths`, the search | path options, one loop iteration | search in a sorted map, failsafe | `Paths`, abstract `PathPolicy` |
| Network permissions (`config.cpp`, `vm.cpp`) | two pairs of lists, a socket | options, bind, listen | clearing and copying of lists; ports chosen late | `NetAccess` |
| Storage VM (`main.cpp`, `vm.cpp`, guest API) | links, registers, mutex | boot, fork, resume, pause, throw | many callers of one VM; a VM forked between calls | `Storage`, abstract `RemoteCalls` |
| Snapshot (`vm_state.cpp`, `vm.cpp`) | the process, the file, addresses in use | boot, save by field, load, kill | kills between any two writes; restarts | `Snapshot` |
| Binary loading, debugger | | input and output | | not modelled |

The parts meet in few places: `Master` ends where `ForkPool` begins (a master
whose warmup client has left), `Snapshot` replaces a boot by a load, and `Paths`
and `NetAccess` answer callbacks.

### ForkPool

One process per fork. `thread[f]` says where its host thread is: `create` (the
constructor and `set_on_reset_callback`), `poll` (top of `resume_fork`), `guest`
(inside `vmresume`), `returned`, `failed` (an exception left `resume_fork`),
`exited`. The members of `VirtualMachine` keep their names. Guest memory is
abstracted to the set of connections that left a trace in it since it last
equalled the master's. A virtual descriptor of a connection is the connection.
After a reset that threw, the number of the tracked connection may belong to
another file; `GuestClose` allows for it. A close is `free_fd_callback` if it hits
the tracked descriptor of an ephemeral fork (`Tracks`), and TinyKVM's otherwise.

`reset_to` is two operators, one for each way it can end. It can throw in
TinyKVM before or after the machine was reset, or in the reset callback, whose
counter array has 64 elements. TinyKVM and the kernel are external: `accept4`
gives the head of the queue to one caller, `machine_reset_to` restores memory and
closes the descriptors the fork opened, and a guest that exited makes
`vmresume` end at once.

Ephemeral forks can be configured to keep their working memory. That is about
memory pages TinyKVM keeps allocated, and does not appear in the model.

### Master

The main thread goes through `boot`, `booted`, `restart`, `warmup`, `warmed`,
`join`, `ready`; `exited` with a status is the end of the process. With
`JustOneVM` it goes on to `serve`, where the callbacks are gone and an exception
(`SingleAgain`) runs the guest again, and to `spin` once the program has ended:
the loop of `main()` then resumes a VM that has nothing to run. The guest may
listen on and close sockets, poll any set of descriptors, accept, shut down,
close, exit or fail at any time. The warmup thread is `client`; its `connect` may
always fail, which ends it. Visitors are other clients. `gone` holds the
connections the guest closed, `ended` those whose client reads the end: it closed
them, shut them down, or closed the socket they waited on. In `restart` the main
thread waits outside `run()`; `accept4` returns at once if the socket no longer
listens.

The stop flag is a plain `bool` read by the client thread while main writes it.
A read after the write may return the old value. `pause` records the call the
guest was stopped in and the sockets that call waits on.

Abstracted: requests and responses within a connection, the order of a listen
backlog, and the reuse of descriptor numbers before the master is ready.
Left out: the environment switches `DEBUG`, `SAMPLING` and `BENCH`, and the
registers `initialize` sets after the warmup.

### Paths

A path is a sequence of numbered segments, `0` being `..`. FromArgs is a
sequence of stages, because `ensure_path` replaces the target of an entry it
finds. `Iterate` is one round of the loop of `lookup_allowed_path`; `bound` is
the argument of the last `upper_bound`. One representative stands for
`/dev/null` and `/dev/zero`, one for the two fake files.

`PathPolicy` is what a user of the options relies on: while they are read,
paths only gain rights, afterwards nothing changes, and a request is answered in
one step by the longest prefix that gives the right. The rounds of the loop are
invisible in it. It does not say which target a path keeps when two options name
it: the code takes the last one, with the rights of both (`config.cpp:267`).

### NetAccess

A list is the set of its entries. An option value is a form (a host of some
kind, nothing but a port, `true`, nothing, or malformed), a host, and the number
after its colon. That number passes through a `uint` before it is compared with
the largest port, as in the code, and is refused if it does not fit an `unsigned
long`; `PortMax`, `UintMax` and `UlongMax` are constants. `given` is a history of
the values, against which the lists are compared. What a value asks for is
defined by what is written, without the code's conversions (`MeansHost`,
`MeansPort`); `Astray` names the two cases in which the code loses the port.

The guest runs in the main VM or in a `fork`, which takes over the callbacks for
`connect` and `bind` and has none for `listen`. The model keeps one socket of it.
The guest binds it, or listens without a name, and the kernel chooses a port
where 0 was asked for. An address of family `AF_UNSPEC` is looked up in the IPv6
lists and names an IPv4 socket.

### Storage

A buffer is the VM it belongs to. `mail[s]` is what the registers of storage VM
`s` hold and `task[s]` what it works on. `sys_remote_resume` takes three steps,
because the mutex is taken inside TinyKVM: the handler, the entry, the return.
With a permanent link the handler itself writes the registers. `place` is where
the storage VM resumes from: waiting for a task, polling a socket of its own, or
where an exception left it. The four options are a variable, so that every run
covers every combination.

`RemoteCalls` is what a caller relies on: a call waits, is taken up by a storage
VM that serves nobody, is worked on with the caller's buffer if that VM waits for
a task, and returns. Links, registers and the mutex are invisible in it. `mixed`
marks the one combination of options, a permanent link to a shared VM, in which
it promises nothing about buffers.

### Snapshot

A process is down, booted, saving, serving, loading or restored. TinyKVM's part
of the file, which also marks it as having a state, is one write; the fields of
`AppSnapshotState` follow one by one in the order `save_state` stores them. The
file is mapped, so whatever was stored survives a kill, and what was not reads
as zero. The kernel's side is whether an address is free, still used by old
connections, or taken, with `SO_REUSEADDR` and the paths of UNIX sockets. Any
call of `load_state` may fail: those it checks make it throw, and a failing
`epoll_ctl`, which it does not check, leaves a set that does not watch the new
socket (`lost`). Kills and such failures are counted by `faults`. There is one
server process at a time.

## Runs

| Run | Shows | Instance |
|---|---|---|
| ForkPoolEphemeral | isolation, no lost connection, readiness, no fork that refuses connections without a reason, refinement of `SingleUse`, every connection served | forks 0, 1 and 64, 2 connections, verbose; an exit, an exception, a failed reset |
| ForkPoolShared | without ephemeral forks each connection is served unless the program of its fork exited | 3 forks, 2 connections; one fault of each kind, a failed creation among them |
| MasterSingle | a single VM serves its visitors across exceptions | 2 sockets, one non-blocking, 2 visitors |
| MasterWarmup | the warmup client has left all the forks inherit; undisturbed, the warmup is complete when it ends and ends unless its client gave up, and the join waits for nobody who needs the guest; when the process aborts | 3 warmup connections, a visitor |
| PathsLookup | the search finds the longest granting prefix, always advances and ends; refinement of `PathPolicy` | 2 segments, paths of up to 2, 2 options |
| NetAccess | the callbacks allow what was asked for, and nothing else but lost ports; sockets listen only where allowed | 2 addresses of each family, a name with both and one that does not resolve, ports 0 to 2, 2 values |
| Storage | one thread in a storage VM, working on its own buffer; forks of a paused VM; calls can go on and return; refinement of `RemoteCalls` | 3 forks, 2 exceptions, all options |
| Snapshot | a restored server waits as the saved one did; images are kept; a complete one brings an Internet server back | an IPv4, an IPv6 and a UNIX address, 2 descriptors, 2 epoll sets, 2 faults |

No run checks deadlock: an idle server waits, a ready master is forked, a process
that has ended does nothing, a search is done once.

Bounds. Two forks are enough for races on the queue, and a third lets one work
on after two are lost, or has no reset counter. Two connections allow a fork that
has one and is offered the other. One fault of each kind lets a failing reset
follow a guest failure. Three warmup connections have a first, a middle and a
last. Two option values can clear what the other gave, in both orders and across
options. Numbers up to 7 with `UlongMax` 6, `UintMax` 3 and `PortMax` 2 have a
valid port, one that is too large, two that wrap, one of them to 0, and one that
is out of range. Two faults let a restart fail on an incomplete file and be cut
short itself. `MaxFaults`, `MaxLength`, `MaxOptions` and `MaxValues` are the only
bounds of the models themselves; the theorems hold for all values.

Fairness. The kernel schedules host threads, so each takes its next step
(`HostFairness` in ForkPool, the two threads of Master, `Enter` in Storage), and
timers expire (`BootTimeout`). A thread that waits in a restarted system call is
woken when a connection comes (`Awaited`). Some properties also need a
well-behaved guest program, which kvmserver cannot promise:

* `Served`, `ServedOrStranded`, `ReadyAgain`, `ReadyAgainAnyFork`: the guest
  accepts while connections wait and closes what it accepted (`GuestFairness`).
* `SingleServed`: the same of a guest that runs (`SingleFairSpec`). The fairness is
  weak, so nothing is promised of a guest that fails for ever; the property is
  about guests that fail finitely often.
* `OwnCallReturns`: the storage program finishes its tasks.
  Nothing is assumed of which waiting thread a mutex goes to, so a caller of a
  shared storage VM may starve; `OwnCallReturns` is about VMs that share none.

`ComesBack` assumes that somebody starts the server again, that old connections
time out, and that kills and failing calls come to an end. Nothing in the code
removes the path of a UNIX socket, so it is about Internet addresses only. The
liveness of the warmup assumes nothing of the guest or of visitors.
`UndisturbedWarmupEnds` has one exception, `Deserted`: the restarted system call is
outside `max_boot_time`, and if the client was never started or could not connect,
nobody may ever wake it.

### Disagreements between code and documentation

Four runs end in a counterexample; `findings` quotes the text each contradicts.

* **ForkPoolCounters**: with `--verbose`, fork 64 and later throw in the reset
  callback before the flags are cleared, and refuse every further connection.
* **MasterPause**: after the warmup the guest may be stopped in a call that does
  not wait on the listener, or not the one the forks redo.
* **MasterJoin**: a visitor counts as a warmup connection, and the join then waits
  for a client that waits for the stopped guest.
* **StoragePermanent**: with a permanent link to a shared storage VM, a second
  caller overwrites the registers before the mutex is taken, and the first call
  works on the second one's buffer. `SerializedWorksForCaller` shows that all
  other combinations of options are free of this.

Met while modelling, and part of the models as the code has it:

* `--max-request-time` is read by nobody.
* A warmup that throws leaves a joinable thread: the process ends in
  `std::terminate` instead of returning 1. `AbortedByClient` says exactly when.
* With `IntraRequests = 0` the code says it skips the warmup, starts no client,
  and then waits for a connection in the restarted `accept4` (`Deserted`).
* The first path of `--volume` is the guest's; the help text (`config.cpp:340`) puts
  the host's first.
* A port without a host opens every port to the IPv6 lists (`config.cpp:162`
  assigns through the reference to the IPv4 entry). It is one of the two
  exceptions of `AccessAsAsked`.
* A bracketed IPv6 address with a port is always rejected (`config.cpp:176` takes
  the length of the whole value).
* A port beyond 32 bits wraps before it is checked (`config.cpp:143`), the other
  exception.
* A fork does not copy `listening_socket_callback` (`vm.cpp:343`), so
  `ListensWhereAllowed` says less of forks than of the main VM.
* The snapshot file counts as complete before its fields are stored. If the save
  is cut short, every later start fails, or, if only the address is missing,
  an IPv4 socket is bound to a port of the kernel's choice
  (`AddressMissing`). A save that throws leaves such a file too.
* A snapshot saved by a single VM and loaded for forking never takes the way back
  to user mode that `initialize` takes otherwise (`vm.cpp:624`). Registers are
  outside the models.

## Proofs

Every invariant, action property and refinement that a passing run checks is
also proved. The argument is always an inductive invariant that a run checks too,
one proof step per action, and the property as a consequence.

`ForkPoolProofs`, for any set of forks, connections and faults:

* `PoolInvariant`: `IInv` is an invariant. Isolation alone is not inductive: it
  needs that the blocking flag and the tracked descriptor agree and cover all
  traces in memory (`FlagsTellTheTruth`). For `NoConnLost` the queue must hold
  each queued connection once (`QueueHoldsQueued`).
* `PoolTypes`, `PoolIsolation`, `PoolLosesNoConn` follow.
* `PoolReadyIsPristine` uses a second invariant, `PristineInv`, on top of it.
* `PoolBusyForAReason` is inductive together with these two. A fork begins to
  refuse by accepting while it runs, its only connection is the tracked one, and
  a thread that polls again is pristine; a reset that threw is never forgotten
  (`ThrewForGood`).
* `PoolRefines`: an ephemeral pool implements `SingleUse`. Slots are
  `m_tracked_client_vfd`; a reset that throws is a wipe without a release.

`MasterProofs`, for any sockets, visitors and number of warmup connections:

* `MasterInvariant`: `PlacedInv`, by which a connection is in one place and the
  warmup client has at most one that has not ended.
* `MasterWarmupLeavesNobody` follows, because the join waits for the client.
* `MasterWarmupInvariant`: `WarmupInv` adds that, as long as no visitor came,
  `freed_sockets` is at most the number of the client's connections that the guest
  has closed, which a client that left early, or was let go by a shutdown, does
  not change. `MasterWarmupComplete` follows.
* `MasterJoinWaitsForNobody` follows as well: at the join all connections of the
  client are closed, and those before its current one are the only others.
* `MasterAbortedByClient`: inductive with `PlacedInv`, since until the join
  `joinable` says whether the client was started.

`PathsProofs`, for any segments, options and well-formed maps:

* `PathsInvariant`: `SearchInv`. In the order of the map, a prefix of a path comes
  before it, and whatever lies between the two starts with that prefix
  (`Between`). So the next bound, the part on which the last key and the path
  agree or the parent of a key without the right, skips no prefix
  (`SharedKeeps`, `ParentKeeps`); and as each round leaves fewer entries before
  the bound, the failsafe outlasts them (`FewerBefore`).
* `PathsSearchAdvances`: the same lemma as an action property, with the one
  exception it has, the root, which is its own parent.
* `PathsImplementPolicy`: each stage of the options only adds (`ConfigGrants`),
  and the last round of a search is the answer (`IterateAnswers`), all others are
  stuttering steps.
* `PathsFindsLongestPrefix` follows. `NormalAssumption` says what
  `lexically_normal` promises; TLC evaluates it, but the recursion in
  `LexicallyNormal` is beyond the provers.

`NetAccessProofs`, for any addresses, names, ports and number of values:

* `NetInvariant`: at every stage the lists allow what was asked for so far, and
  beyond it only what went astray; the listen lists are empty until the copy. The
  lemma `ParsedAdds` says what one value adds, although it may clear the list, and
  `GivesAsMeant` that it is what the value means unless its port went astray.
* `NetAccessAsAsked`, `NetOptionsOnlyGrant`, `NetListensWhereAllowed` follow; the
  last because an entry that matches port 0 matches every port, and the main VM
  looks a name up again when it listens.

`StorageProofs`, for any number of request VMs and exceptions:

* `StorageInvariant`: at most one thread is inside a storage VM, a VM is linked to
  the shared one or its own, and the buffer in the registers is the caller's.
* `StorageWorksForCaller`, `StorageForkedWhilePaused` follow; the second because a
  main VM whose call failed ends the program before it is forked.
* `StorageCallsCanGoOn`: a linked storage VM exists, and it is busy exactly while
  a thread is inside it.
* `StorageImplementsCalls`: `Enter` is `Serve`, leaving is `Return`, and a storage
  VM that is booted or forked serves nobody (`OwnStorageFree`).

`SnapshotProofs`, for any addresses, descriptors, epoll sets and faults:

* `SnapshotInvariant`: what the process and the file hold in each phase, and that
  a VM whose listener was closed is never stored beyond the backlog.
* `SnapshotRestoredAsSaved`, `SnapshotImageKept` follow.

The assumptions are the named `ASSUME`s of the modules. Only model-checked:
every liveness property (fairness and `ENABLED` are beyond the prover; what the
proofs give of them is that nobody gets stuck: `BusyForAReason`, `CallsCanGoOn`,
`JoinWaitsForNobody`, `SearchAdvances`), and what `LexicallyNormal` computes.

## Not modelled

* Binary loading (`file.cpp`, `mmap_file.hpp`, choosing addresses from ELF
  headers) and the debugger: input and output without interesting state.
* Memory sizes, remappings, environment and program arguments: values that are
  handed on. Sizes are kept in 32 bits after they are multiplied
  (`config.cpp:545`), but nothing in this code depends on the result.
* The switches `DEBUG`, `SAMPLING` and `BENCH`, profiling and all output.
* Registers and page tables: what it takes to redo a system call in a fork is
  TinyKVM's, and the models begin where it has been redone.
* A module that composes `Master`, `ForkPool` and `Snapshot`: they run one after
  the other and share only the paused VM, so its properties would repeat theirs.
