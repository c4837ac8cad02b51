# ACHost in TLA+

Models, model checks and proofs about the runtime of
`ccc007ccc/android-container-host` (ACHost): the programs that start, watch and
stop Docker and LXC on a rooted Android phone. Line numbers refer to the
repository the modules were written from; `PROJECT.json` maps every definition
that models code to its lines.

## The system

| Component | State it keeps | Operations | Speaks to |
| --- | --- | --- | --- |
| `achost-supervise` (Rust) | one server process: listening socket, its pid file, children; the pid files its clients name | `--server`, `--client`, `--launch`, legacy `--name` mode | clients over a unix socket; kernel (fork, reap, signals) |
| `achost-docker-runtime` (Rust) | run directory: pid files of supervisor, containerd, dockerd and dockerd's launch stub; sockets; mounts | `start`, `stop`, preparation and diagnostics | supervisor as its client; `/proc`; runtime-core |
| `achost-runtime-core` (Rust) | ip rules at two priorities, iptables FORWARD and MASQUERADE rules, watchdog pid file; the watchdog's last state and cycle count | `net-watchdog`, `net-reconcile`, `bridge-reconcile`, `protect-daemons` | kernel routing; called by docker start, LXC start and the boot service |
| `achost-lxc-runtime` (Rust) | container directories with rootfs and `config`; temporary import trees | import, start, stop, destroy, autostart, set-password, write-config, exec | lxc-* tools; runtime-core's `bridge-reconcile` |
| `achost-webui-api` (Rust) | per call: one child, its pipes, its deadline; an autostart file | one action per call, each a command run under a timeout | all runtimes, docker, ctr |
| Kernel tools (Python `achost/`) | a kernel tree, its `.config` | fragment merge, rule checks, patch application, Kconfig injection | files |
| Module builder and CLI (Python) | the module directory | pack, install and service scripts | files |
| Shell tools, WebUI front ends | none | packaging, diagnostics, rendering | the programs above |

How they interact: the boot script or the WebUI calls `docker-runtime start`,
which makes sure a supervisor serves, spawns the watchdog, asks the supervisor
for containerd and dockerd (each through an `achost-supervise --launch` stub),
waits for their sockets and APIs and reconciles the network once.
`docker-runtime stop` signals what the pid files name and what `/proc` shows
and removes the files. An LXC start calls `bridge-reconcile` for `lxcbr0`; LXC
containers are started at boot by `achost-lxc-runtime autostart`, and by the
WebUI and a shell through the same program. All of them share the run directory,
the container directories, the pid numbers of the kernel, and the ip rules;
there is no lock anywhere. The WebUI reaches every one of them through
`achost-webui-api`, one process per call, which runs the program under a timeout
and kills it when that is over; what it kills may be in the middle of a start, an
import or a new password.

### What is hard

* The supervisor is single-threaded and blocks in `handle_client`; children end,
  pids are recycled, SIGTERM comes and clients die meanwhile. It may be killed
  and started again over what it left.
* Start and stop see processes only through pid files, `/proc` and socket
  paths, all of which outlive what they stand for: after a crash, a kill, a
  timed-out command or a reboot.
* The watchdog and the one-shot reconciles change the same rules step by step
  while the uplink switches and netd rewrites rules.
* The WebUI's runner does not read a program's pipes while it runs, kills only
  the program itself and then reads to the end of the pipes: full pipes,
  grandchildren that keep them open, output cut off or mixed, and a kill at any
  step of the program are all normal.
* LXC commands of the boot script, the WebUI and a shell work on one container
  at once: they check a path and use it later, read a config and write it back,
  and may be killed by the WebUI's timeout while their child goes on.

`PROJECT.json` lists each hazard at its line, with the properties that cover it
or why none does yet.

### What makes each component correct

* Supervisor: the pid in its hand is its own child; OK means recorded; a
  refused child is told to go; each client gets exactly one answer; it leaves
  when signalled and gives dead pids back.
* Docker runtime: an ok start serves and is guarded by a watchdog; a stop leaves
  nothing and signals nobody else; start works after any stop, crash or reboot.
* Network: the bridge's traffic follows the current uplink within the promised
  time; Docker and LXC leave each other alone.
* LXC runtime: a container is one whole import until a destroy begins on it;
  failed imports leave nothing; a config keeps what was set in it; a container
  starts with its address; autostart reports what it did not start; destroy
  leaves nothing.
* WebUI runner: every call returns; ok means that each program did its work.
* Passwords: the guest always has a whole shadow file with its mode and owner;
  ok means that the password is in it; a call changes the entry of its own user.

## Modules

| Module | Models | Used by |
| --- | --- | --- |
| `LaunchService` | abstract: what the supervisor promises its clients | `Supervise` (INSTANCE, refinement) |
| `Supervise` | `run_server`, `handle_client`, `fork_exec`, `reap_children`, the clients, the process table | run `Supervise` |
| `MCDocker`, `MCLxc` | symmetry sets for TLC | safety runs |
| `Supervise_proofs` | theorems about `Supervise` | tlapm |
| `DockerRuntime` | `start_runtime`, `run_stop`, with supervisors and daemons as processes | the `Docker*` runs |
| `RuntimeLife` | abstract: what start and stop promise about supervisor, containerd and dockerd | `DockerRuntime` (INSTANCE, refinement) |
| `NetPolicy` | `net_watchdog`, `net_reconcile`, `run_bridge_reconcile` against Android | the `Net*` runs |
| `ContainerLife` | abstract: what the LXC commands promise about a container | `LxcContainers` (INSTANCE, refinement) |
| `LxcContainers` | `import_rootfs`, `start_container`, `stop_container`, `destroy_container`, `set_container_autostart`, `autostart_containers` on shared directories | the `Lxc*` runs |
| `CommandRunner` | `run_program_timeout`, `run_program_with_input`, `wait_with_timeout`, `collect_child_output` and the answers made of them, against any program | `WebCalls` |
| `ShadowPassword` | `run_set_password`, `run_generate_password`, `update_shadow_password` on inodes, against the guest's own `passwd` | `WebCalls` |
| `PasswordStore` | abstract: what the password calls promise about a container's passwords | `WebCalls` (INSTANCE, refinement) |
| `WebCalls` | the two composed: the WebUI's password calls with the program they run, beside its other calls | run `WebCalls` |
| `NetPolicy_proofs`, `CommandRunner_proofs`, `WebCalls_proofs` | theorems about the module of that name | tlapm |
| `DockerRuntime_proofs`, `DockerSerial_proofs` | theorems about `DockerRuntime`: under every set of faults; for commands that follow each other, with the refinement of `RuntimeLife` | tlapm |
| `LxcContainers_proofs`, `LxcConfigs_proofs` | theorems about `LxcContainers`: directories and imports; the refinement of `ContainerLife`, configs and autostart | tlapm |

Definitions introduced by a comment "Mutant of ..." are no part of the models:
each is the definition after it with a plausible mistake, kept to show that the
property named in `PROJECT.json` notices the mistake.

### Supervise

One action per step of the server between two points where another process can
interfere: `Start`, `Bind`, `WriteServerPid`, then the loop `LoopHead` (test of
`STOP_SERVER`, `reap_children`), `Accept`, `ReadRequest`, `ForkExec`,
`RecordPid`, `Reply`, and on the way out `DropListener`, `RemoveServerPid`.
`pc` is the place in the code, `conn`, `child` and `reply` the local variables
of `handle_client`. `Signal` sets `STOP_SERVER`; `Kill` is SIGKILL at any
point. Every system call that the code checks may fail. `proc` is the kernel's
process table over a small set of pids: a pid that was reaped may be given to a
child or to a foreign process. The bytes of a request are abstracted to whether
the server can read a whole well-formed one (`sent`); what strings, argc and
UTF-8 may be is not told apart. The accept loop's sleeps are stutters.

`LaunchService` has a phase per client and the set of requests a process was
started for; `Service` in `Supervise` maps `req` and the history variable
`forked` to them.

### DockerRuntime

A start goes through `Ensure`/`SpawnServer`/`Probe` (`ensure_supervisor_server`,
called three times), `SpawnWatchdog`, `CheckDaemon`, `LaunchDaemon` or `LaunchRefused`,
`WaitSocket`, `WaitApi` for containerd and then dockerd; a stop works through `StopPlan`. Both are processes
that interleave with supervisors and daemons and, with the fault `overlap`, with
each other. A supervisor's client request is one step here, its inside is module
`Supervise`: it may be granted, or refused (with the fault `refuse`) because the fork
failed or because the pid file could not be written. In the second case a child is
already there, its pid file is as before or empty, and the SIGTERM it gets is lost as long
as the supervisor's handlers are in place in it; the start ends with an error
(`LaunchRefused`; supervise 374-383, docker-runtime 785-790, 424, 469). Such a daemon comes
up although its start failed, no file names it, and the next start puts a second one
beside it: the history `stray` is true from then to the next stop or boot, and
`OneOfEach` and `RuntimeLife` say what may happen while it is.

containerd and dockerd are external, modelled from what the runtime
relies on: dockerd refuses to run beside a live process in its pid file, needs
containerd, and removes its files when it ends in order.
The network watchdog is a process too (`DogJudge`, `DogWrite`, `DogTerm`: judge
the pid file, write it, remove it at the end; what it does in its loop is
`NetPolicy`), started by the base service once in a boot and by every start, and
stopped by pid file and by scan. `Guarded` says whether achost-runtime-core is
installed, without which a start starts none.
Time is abstracted: a wait gives up when nothing under way would fulfil it, and
with the fault `slow` at any moment. `Faults` says what the environment may do:
`overlap`, `interrupt` (the WebUI's timeout kills a start), `slow`, `crash`,
`reboot`, `refuse`. After a reboot a foreign program may own a pid an old file names.
Assumed: a pid is not reused in the ten seconds a stop waits on it (1373-1381
has no guard against that, so no stronger claim could hold); configuration is
the default one with external containerd and supervisor. Not modelled: mounts,
cgroups, compat socket, configuration files, diagnostics; the supervisor's
legacy mode.

`RuntimeLife` knows of the supervisor and the two daemons whether each is down, coming
or up, and of each command whether it runs and how it ended. `Come` and `Serve` happen
only while a start runs, in order, each on top of what it needs; `Fall` of a daemon
that serves only for a stop or a crash; `ServerFalls` only when both daemons are down;
`EndStart` with nothing on its way, and with everything up if it says ok; `EndStop` with
everything down. The code makes two exceptions. `EndRefused` is the end of a start whose launch
was refused after its fork: it leaves a daemon on its way, and while `stray` says so a
daemon may come up outside a start and another one stand behind it. And a start waits for containerd first and
does not look at it again, so containerd may crash while the start waits for dockerd.
`torn` says that this happened, under this very start, and only then may dockerd come
without containerd and the start succeed without it. `AbsLife` and `AbsTorn` read all
this off the process table, whatever the pid files and sockets say. That nothing
comes up outside a start is what the launch in `DockerInterrupt` violates.

### NetPolicy

Every reconcile goes step by step through `Check`, `Delete`, `Add` for the
return rule, `Resolve`, the same for the source rule, `Cleanup`, `Accept`
(`net_reconcile`, `ensure_ip_rule`). The watchdog is `Wake` and `Inspect` around
it. Jobs are one-shots for `docker0` or `lxcbr0`. The environment switches the
uplink, removes rules as netd does, and creates and removes `docker0`. Time is
counted in watch intervals. A rule is a triple of priority, bridge and table;
`Shows` models that a rule is found by a substring. History variables tell what
the properties need: whole calm cycles since the last change, whether more
than the uplink was disturbed, which one-shots saw no change since they began. What a
one-shot does to the rules is a change to the watchdog as netd's rewriting is (`Touch`), so
that its properties speak of every state, one-shots at work and half done included.
The watchdog's pid file and its end are in `DockerRuntime`; here one watchdog
runs. Not modelled: the different subnet precedence of watchdog and reconcile,
`protect-daemons`, failing `ip` and `iptables` commands.

### LxcContainers

Each element of `Cmds` is one invocation of `achost-lxc-runtime`; `op` is its
subcommand, `at` the container it works on and `pc` where it stands. One action
per step between two places where another command can interfere: an import is
`ImportBegin`, `Extract`, `Install` or `Discard`; a rewrite of a config is
`Read`, `Truncate` (fs::write opens the file), `Write`; a start is `Validate`,
that rewrite, `Guest`, `Info`, `Bridge`, `Launch`, `Await`; a destroy is
`Status`, perhaps a whole stop, `LxcDestroy`, then `RemoveBegin`, `RemoveEntry`
in any order, `RemoveDir`; an autostart is `List`, `Statuses`, and a start for
each container chosen. `Return` is what the caller of each procedure makes of
its result. `Kill` is SIGKILL after the WebUI's timeout; a lxc-* child it was
waiting for becomes an orphan and still takes effect. A pid may be given to an
import again when no live command has it.

A directory is what its entries say: `rootfs` the set of imports whose files are
in it, `meta` and `config` the import that wrote them, or `None`; a config also
says whether it has the address lines and autostart. `held` tells which open
files and directories still are where they were opened: a write into a file that
was removed or replaced goes nowhere. lxc-start, lxc-stop and lxc-destroy are
external; they succeed or fail, but no lxc-start starts a container without a
config. `touched`, `raced`, `want`, `owed` and `gone` are histories that only
the properties read: on which containers a removal has begun, whose config two
commands had in hand at once or a killed one was writing, what autostart was
set to, what an autostart found that it has to start, and what a destroy
reported destroyed.

Not modelled here: set-password (see `ShadowPassword`), exec, logs,
system-status, the validate-* and write-configs commands, the checks of tar
paths, what is in a config line, and file operations that fail for lack of space
(but for those of an import, and prepare-bridge, which may fail): a removal that
was begun is assumed to remove what it finds.

### CommandRunner, ShadowPassword, WebCalls

Each element of `Calls` is one call of the API. It begins (`Begin`: spawn with two
pipes), perhaps writes the password (`Feed`), polls for the end of its program
(`Poll`), or kills it after the timeout (`Timeout`), reads what is in the pipes
(`Collect`) and makes the answer (`Result`); a check runs a second program first.
lxc-check runs four and may stand for any number, since each result only narrows
`sofar`. A pipe holds `PipeSize` units; a program that writes more blocks. The
programs are external: they print, report JSON, leave processes behind that keep
the pipes open (`held`), exit or are killed. The output is abstracted to how much
there is and whether the report is complete in it (`said`); `Parses` says when
what was collected is that report. `undone` is a history: the calls one of
whose programs did not do its work. Arguments that the API refuses before it
runs anything are left out: such a call changes nothing.

`ShadowPassword` has one action per system call of `update_shadow_password`: read,
open (create or truncate), write, chmod and chown, rename. Files are inodes, so
that a process goes on writing into a file whose name is gone; each step may
fail, and the process may be killed between any two. The text is a hash per
user, named by who made it. The days field is left out, and so is what makes a
password or a user name valid. The guest's passwd replaces the whole file at once.

`WebCalls` makes the program of a password call the setter's process: `SetterTells`
is its report and its line of output in one step, `SetterLate` the timeout and its
death. `MayBegin` is the WebUI's `busy` flag, which disables every button while a
call is on its way; with `Overlap` calls may come at any time, as from a shell.

`PasswordStore` knows who set each user's password, what each call is about to put in
place (`draft`), its phase and whether it did so (`done`). `Read` makes the draft of
what the file holds now, `Set` puts it in place, once, `Drop` is a failure or a kill,
`End` says ok only after `Set`. No inode, temporary file, pipe or timeout is left in
it: `AbsDraft` is the text of a setter between its read and its rename, `AbsPhase`
what the API has answered.

## Runs

| Run | Bounds | Shows |
| --- | --- | --- |
| `Supervise` | 2 clients, 1 pid file, 2 pids, 2 server starts | safety; refinement of `LaunchService`; clients answered; signalled server leaves; zombies reaped. 2 pids suffice for one being recycled while the other is in use, 2 starts for a server that finds the files of a killed one; both clients name the same pid file, the case where they can hurt each other (the theorems hold for any number). No deadlock: processes may always come and go |
| `DockerSerial` | 2 starts, 1 stop, 5 pids, no faults, watchdogs | an ok start serves and is guarded; start after stop succeeds; a stop leaves no watchdog either. 5 pids: supervisor, two daemons, two watchdogs; with 2 starts and 1 stop every order of a start after a start, after a stop and before one occurs |
| `DockerReboot` | 2 starts, 1 stop, 4 pids, crashes, refused launches and a reboot, commands one at a time, no watchdogs | stop is complete, no unseen supervisor, no second supervisor beside a live one, no second containerd or dockerd but after a launch refused after its fork; refinement of `RuntimeLife`. The second start and the stop, in any order, meet what the first, a crash, a refused launch or the reboot left; 4 pids are the supervisor, two daemons and one refused child. Watchdogs beside crashes and the reboot are too many states for a run of a few minutes: the theorems cover them |
| `DockerFaults` | 1 start, 1 stop, 4 pids, all faults, no watchdog | the stop never signals a foreign process, whatever pid files an earlier boot left |
| `Net` | 1 one-shot, 2 uplinks, repair interval of 3 watch intervals, 2 environment changes | repair in time, also of what the one-shot did between the watchdog's steps, convergence, no needless reconcile. 2 changes cover a change during the repair of another; 3 were checked as well. The safety properties are proved for any number |
| `Lxc` | 3 commands, each an import, a start, a destroy, an autostart or a setting of autostart, 1 container, 2 pids, 1 kill | refinement of `ContainerLife`; whole imports, no left files, configs kept, addresses at start, honest autostart. A stop has no step of its own beside those inside a destroy, and autostart set to off none beside those of on. 3 commands: two that interfere and a third that meets the outcome; 2 pids: one to recycle. Commands touch each other only through one container's directory; two containers with two commands, so that an autostart has more than one to start, were checked as well |
| `WebCalls` | a set-password, a generate-password, a check of 2 programs; pipes and output limit of 1 unit; 2 users, 3 inodes; one change by the guest | every call returns, ok means done and stored, the shadow file is whole, a call changes its own user's entry; refinement of `PasswordStore`. Two setters: one that meets what the other left; 3 inodes: the file, its temporary file, the guest's; a limit of 1 unit is exceeded by output on both pipes |
| `DockerInterrupt` | 1 start, 1 stop, 3 pids | violated: a daemon comes up after the stop |
| `DockerAfterReboot` | 2 starts, 1 stop | violated: stale supervisor pid blocks every start |
| `NetLxc` | as `Net`, 2 intervals | violated: docker0's reconcile deletes lxcbr0's rules |
| `NetNames` | uplinks `rmnet1`, `rmnet10` | violated: switch to a name contained in the old one is not repaired |
| `LxcDestroy` | 1 start or destroy beside another, no kill | violated: start makes a destroyed directory anew |

The violated ones are described with the quoted document lines under "findings".
`CHECK_DEADLOCK FALSE` in the Docker, Net, Lxc and WebCalls runs: each command runs once and
the environment's changes are bounded, so the system really comes to rest.

`NoOrphanServer`, `StopLeavesNothing` and `OneOfEach` are checked for commands
that follow each other. They fail for overlapping commands, killed starts or waits that end
too early, as the hazards list says; no document promises otherwise except the
one quoted for `DockerInterrupt`. `DockerRoutedInTheEnd` assumes that no
one-shot is under way for ever: the delete loop of `ensure_ip_rule` has no bound
(748-754), and TLC shows that without the assumption a one-shot and the watchdog
may delete and add in turn without end. When `docker0` vanishes between the head
of a watchdog cycle and its reconcile, the failed reconcile counts as done, and
the recreated bridge waits for the repair interval, not for the next cycle;
`SwitchRepairedInOneCycle` therefore speaks of switches only.

`OneWholeImport`, `ConfigKept` and `StartedWithAddress` except containers on
which a removal has begun: a destroy that fails or is killed half way leaves
what it leaves. `ConfigKept` and `StartedWithAddress` also except configs that
two commands rewrote at once or that a killed command was writing; TLC finds
either property violated at once without the exception, since nothing in the code
protects the read, truncate and write (hazards at 1388 and 1864). `NoTempLeft`
speaks of files: the empty directory that stays when `rootfs` cannot be made in
it (import_rootfs, 923-925) is modelled and allowed.

`ReconcilesOncePerInterval` is checked with policy rules enabled. With
`ACHOST_CONTAINER_POLICY_RULES` off, the watchdog still looks for the return rule
(464), which nobody adds, and reconciles in every watch interval: with
`PolicyRules = FALSE` TLC shows this at once, although SPEC.md:1218 says
「状态不变时的周期性 reconcile 间隔」 30 seconds.

`StartMeansGuarded` is checked without faults: a crash of the watchdog is not
repaired before the next start, and after a reboot a stale pid file that names a
live stranger keeps every new watchdog from staying. `StopBegin` assumes, but for
the fault `slow`, that no stop is issued within the moment a watchdog needs from
its spawn to its pid file, nor within the seconds in which the child of a refused launch
still shows `achost-supervise --launch` or comes up (`NothingUnderWay`): a stop in that moment
would miss it, as it misses the one in `DockerInterrupt`.

`EveryCallReturns` excepts a call whose pipes somebody holds open for ever:
`wait_with_output` reads to their end, with no limit, also after the timeout.
`ShadowWhole`, `OkMeansStored`, `OnlyOwnEntry` and `ImplementsPasswordStore` are
checked for calls that do not overlap. With
`Overlap = TRUE` TLC finds two set-passwords sharing the one temporary file: the
second truncates it, the first renames it, and the container has an empty shadow
file until the second has written, or for good when it is killed before.
Nothing but the WebUI's disabled buttons excludes that. A password the guest
changes between a setter's read and its rename is lost: nobody promises
otherwise, and `OnlyOwnEntry` says that nothing else is, in particular nothing that
another setter stored.

### Fairness

* `Supervise`: weak fairness of the server's steps (it is a running process, and
  its only unbounded wait is for a client), of a client's `Send` (it writes the
  request in one go after connect; without this a stalled client blocks the
  server for ever, which the code does not prevent), of exec and of init's
  reaping. Nobody is assumed to start or signal a server; a daemon need not end.
* `DockerRuntime`: weak fairness of every command that runs and of every
  supervisor and daemon; none of commands, faults or reboot.
* `NetPolicy`: weak fairness of the watchdog only.
* `WebCalls`: weak fairness of the API's own process once it was called (it
  polls, and its timeout comes while the program still runs). No program has to
  print, end or be killed.
* `LxcContainers`: none; its properties are about safety only.

## Proofs

`Supervise_proofs` proves, for all clients, pid files and pids and any number
of starts, from `ConstantsAssumption` alone (the null values are no clients or
pids, `MaxStarts` is a natural number):

* `TypeCorrect`: `Spec => []TypeOK`.
* `PidsAreNotRecycled`, `OkMeansRecorded`, `RefusalsAreTold`: the
  safety invariants of run `Supervise`.
* `Refinement`: `Spec => ImplementsLaunchService`.

The inductive invariant `Inv` adds to the type and the three invariants: `QueueSound` (a
request is queued once, and not while it is served),
`ServerShape` (which local variables are set at which `pc`), `FreeIsBlank` (a
free pid carries nothing of its last owner, so that a recycled pid cannot be
taken for an old child), `NotYetForked` (no child exists for a request that is
not served yet), `OneChild` (the request at hand has no other child than
`child`) and `ToldBeforeReply` (when ERR is about to be sent the child has been
signalled). `ChildIsOurs` alone is not inductive: it needs that no reap happens
between fork and reply (`ServerShape` ties `child` to `pc`), and
`RefusedChildTold` needs `OneChild` and `NotYetForked`, or an older child of the
same request could be running. `SafeStep` shows that every action preserves
`Inv`, one step per action; `RefineStep` maps every action to one of
`LaunchService` or a stutter. TLC checked `Inv` before it was proved.

`LxcContainers_proofs` proves, for all commands, containers and pids and any
number of kills, from `LxcAssumption` and `NoneAssumption` (subcommands are
known ones, `None` and `Prior` are none of the other values):

* `TypeCorrect`: `Spec => []TypeOK`. It is not by construction: a rewrite of a
  config that is not there would leave no config and no error.
* `ImportsAreWhole`: `Spec => []OneWholeImport`.
* `TempsAreRemoved`: `Spec => []NoTempLeft`.

Its `Inv` adds `OwnTemp` (an import at work has a pid no other live import has,
and only its own files in its temporary directory: without it a rename could
install two imports), `HeldIsThere` (what a command holds open is still in
place, so a write finds its config) and `WorkedOn` (a container a start works on
exists or a removal has begun on it, so a start never makes the directory of an
untouched container). Most steps leave directories or temporary trees alone;
`OtherSteps` and `AsideSteps` say so once, and `ChangeKeepsDirs` reduces the
rest to the one container a step works on.

`LxcConfigs_proofs` goes on from there:

* `ConfigsAreKept`: `Spec => []ConfigKept`; `StartsHaveAddress`: the action property
  `StartedWithAddress`. Both come from `Kept(n)`, for every name `n` outside
  `raced`: at most one command has the config in hand, and what it holds agrees
  with the setting asked for last and with the import that wrote it; between its
  truncate and its write the file is the empty one, and it still has it open. A
  start past its rewrite (`Past`) has made the address part of whatever is in the
  file or in a writer's hand.
* `AutostartsCover`: `Spec => []AutostartOkCovers`, from `Accounts(c)`: every
  container an autostart owes is one it still looks at, has chosen, starts now, or
  has counted as failed.

The same module proves `LifeRefinement`: `Spec => ImplementsContainerLife`.
`ContainerLife` knows which import each container is made of and whether a
command works, removes or has ended. Its `Import` happens in one step, over
nothing, when the command says ok; its `Remove` is only for a command that came
to remove. A container is gone for it once its removal begins (`AbsLife`), so
what a destroy leaves half, or a start makes anew of it, is no container. The
proof adds `Kinds` to `Inv` (only imports do an import's work): the
rename lands where no container is because `OneWholeImport` makes an empty
directory one whose removal began, and `WorkedOn` keeps a start from making a
container.

`DockerRuntime_proofs` proves, for all commands, pids and every set of faults,
from `DockerAssumption`:

* `TypeCorrect`, which needs `StageIsDaemon`: a start that looks at a pid file or
  a socket works on a daemon.
* `StopsSpareForeign`: `Spec => []StopSparesForeign`. A stop signals twice, ten
  seconds apart, and only the first time looks at the executable; `HeldAreOurs`
  carries it over (whatever is in `hold` is no stranger), with `KnownKind` (who
  has no kind is not alive) for the processes that end meanwhile. It rests on
  the assumption in `ForeignStart` that such a pid is not reused.

`DockerSerial_proofs` proves, for all commands and pids, what holds when commands
follow each other, none is killed and waits are long enough, that is for
`Faults \subseteq {"crash", "reboot", "refuse"}`:

* `StopsLeaveNothing`: `Spec => []StopLeavesNothing`.
* `ServersAreNamed`: `Spec => []NoOrphanServer`.
* `NobodyRunsTwice`: `Spec => []OneOfEach`, for the supervisor in every state, for the
  daemons while not `stray`.
* `RuntimeRefinement`: `Spec => ImplementsRuntimeLife`.
* `OkServes`: `Spec => OkMeansServing`, when no daemon crashes either
  (`Faults \subseteq {"reboot", "refuse"}`): a containerd that crashes while a start waits for
  dockerd is nobody's promise.

The assumption is the one the runs make: with `overlap`, `interrupt` or `slow` the
properties are false, as `DockerInterrupt` shows for one of them. Its inductive
invariant `SInv` says what the pid files and sockets tell a command of the
processes there are, at every step:

* `TableSound`, `SocketsSound`: a zombie has a supervisor that will reap it, and who
  has a socket serves behind it.
* `ServersKnown`, `DaemonsKnown`: the one process of a kind is named by its pid file,
  or a start waits for it now. A start that is about to launch one has seen that
  there is none; only so the next one does not come beside the first. While `stray`,
  `DaemonsKnown` is given up: whoever is there is found by the scan of the next stop.
* `OneCommand`, `FreshCommands`: a second command begins only after the first has
  ended, and begins at its beginning.
* `Signalled`: whoever was told to go is waited for, and a stop waits for every
  process of the kind at hand. Watchdogs are the exception: the pid file names
  one of them, the scan finds the others.
* `StopProgress`: what a stop has brought down stays down, since nothing that it
  has passed can start what comes later. This is where the order
  watchdog, dockerd, stub, containerd, supervisor is used.

`StopLeavesNothing` alone is far from inductive: it says nothing until the last
step of a stop. `OkServes` adds `ContainerdServes`: a start learns that containerd
answers long before it reports success, and it stays so. TLC checked
`SInv` with two starts, a stop, 4 pids, watchdogs, crashes and a reboot, and
`ContainerdServes` with reboots only, before they were proved. `RuntimeRefinement`
adds to `SInv` `SupervisorUp` (a start that has come to the daemons still has its
supervisor, since nobody but a stop tells it to go) and `GuardedFirst` (a start spawns
its watchdog before it looks at the daemons).
Of the steps beside the start only the crash of a containerd that serves makes
`AbsTorn` true (`ProcessTears`), and the start's own steps change it only by ending
(`StartTears`): a start comes to dockerd over a containerd that answers. The proof
reads `AbsLife` as a level per kind (`Level`), and each step of `DockerRuntime` either
keeps the level of every kind or moves one kind in one step of `RuntimeLife`
(`OneServes`, `OneFalls`, `StartBrings`, `DaemonFalls`), or begins or ends a command
(`StartEnds`, `StopMaps`).

`NetPolicy_proofs` proves, for all one-shots, uplinks, repair intervals and
numbers of events, from `NetAssumption`:

* `NetTypeCorrect`: `Spec => []TypeOK`.
* `SwitchesAreRepaired`, `EverythingIsRepaired` and, with policy rules enabled,
  `ReconcilesAreRare`: the run `Net`'s `SwitchRepairedInOneCycle`,
  `RepairedWithinInterval` and `ReconcilesOncePerInterval`. They assume
  `LongNames = {}`: with names that begin other names the first is false, which
  is the finding of run `NetNames`.

Their inductive invariant `RInv` says what the watchdog knows and what it has done
so far: what it saw at the head of an undisturbed cycle is so (`SawUplink`), the
uplink it remembers is the one the rules are for (`LastState`), its counter is
ahead of the calm cycles while something waits for repair (`RepairsInTime`),
docker0 is routed between cycles (`RestRouted`), and within one the rules written
so far stay until somebody interferes (`WorkRouted`). A step beside the watchdog, of the
environment or of a one-shot, changes nothing it relies on or counts as a change
(`JobLeavesWatchdog`, `ChangeRepairs`).

`CommandRunner_proofs` and `WebCalls_proofs` prove, for any calls, pipe size,
output limit, users and inodes, from `RunnerAssumption`, `ShadowAssumption` and
`WebAssumption`:

* `RunnerTypeCorrect` and `RunnerOkMeansDone`, for any programs. `FailureKept`
  makes it inductive: a failure is remembered in the answer, in `sofar`, or in how
  the program at hand ended.
* `WebTypeCorrect`, and `WebOkMeansDone`, which carries `RunnerOkMeansDone` over: every
  step of `WebCalls` is one of the runner or leaves it alone.
* `WebShadowWhole` and `WebOkMeansStored`, while calls do not overlap. `Work(c)`
  says what is in the temporary file at each step of a setter, `OneAtWork` that
  there is one setter at a time, and `Link` that a setter is at work exactly while
  its program lives: this is what the kill of a timed-out program gives, and
  without it the next call could meet a setter that still writes.
* `WebOnlyOwnEntry`: the action property `OnlyOwnEntry`, while calls do not overlap.
  A setter writes the whole file back, so what it read must still agree with the file
  when it renames. `PInv` says so: until its rename a setter has stored nothing
  (`Once`), and what it holds is the file in place but for its own user and for what
  the guest set meanwhile (`Close`). `Close` is kept because no other setter renames
  beside it (`OneAtWork`).
* `PasswordRefinement`: `Spec => ImplementsPasswordStore`, under the same condition.
  `OneProgram` adds that such a call has no second program to run, so that the answer
  of a call whose setter has ended has nothing left to wait for. Each step of a setter
  is a step of the abstract call or none (`OwnMaps`, `SetterMaps`), the steps of the
  API are none but the answer (`OtherMaps`, `EndMaps`), the guest's passwd is
  `GuestSets` (`GuestMaps`). The rename maps to `Set` because `Work` knows the
  temporary file to hold exactly the text that `AbsDraft` reads off the setter, also
  over a temporary file that a killed call left.

Only model-checked: what says that something happens in the end, since liveness
under fairness and ENABLED are outside the prover's reach: `EveryClientReturns`,
`SignalStopsServer` and `ZombiesAreReaped` of `Supervise`, `StartMeansGuarded` and
`StartAfterStopWorks` of `DockerRuntime`, `DockerRoutedInTheEnd` of `NetPolicy`,
`EveryCallReturns` of `WebCalls`. Every safety invariant and action property of a
passing run is proved.

## Not modelled

* `run_legacy` of the supervisor: no program of the repository starts it so.
* Mounts, cgroups, chroot, configuration files, diagnostics, exec and logs: input
  and output without state that another actor reads, or calls whose only effect
  is the kernel's.
* The address of a container is a hash of its name (`container_network_settings`):
  two names may get one address, and nothing in the code notices.
* A destroy ignores the results of stop and of lxc-destroy on purpose (2070, 2073):
  that its guest may run on without files is a hazard no property could exclude.
* `set-autostart` of the WebUI writes one file in one call; the parsing of what
  docker prints is formatting.
* The Python tools that build kernels and modules, and the shell tools: programs
  that run once, alone, over files nobody else changes meanwhile.

## Next steps

The subnet precedence of watchdog and reconcile; the failure of `ip` and `iptables`
commands in a reconcile; a weaker promise about configs and passwords for commands
that do overlap.
