# Verification of Schooner

TLA+ models of the program under `src/` (Go, `internal/...`), the TLC
configurations that check them on small instances, and TLAPS proofs that hold
for every instance. `PROJECT.json` lists components, runs, mutants, the map from
definitions to source lines, hazards, findings and theorems.

Schooner has no daemon. Every command is a short-lived process on a person's
machine or, over SSH, on a Box. All that lasts is in SQLite, in JSON records, in
flock files, in directories, in Git, in tmux, at GitHub and at DigitalOcean. So
nearly everything that is hard here is of one kind: *a process stops between two
effects on two stores, or another process acts in between, and a later
invocation has to tell from what it finds how far the earlier one came.*

## 1. Inventory

For each component: what it keeps, what it does, whom it meets, what is hard
and what makes it correct. `PROJECT.json` gives the status of each.

**Source access** (`internal/source/source.go`, `boxgit`, `github`). Keeps the
one account row and one binding per Box in SQLite, two flock files, a key file
on each Box, the SSH keys registered at GitHub. Operations: connect, status,
disconnect, all of which also finish each other's interrupted work. Hard: three
stores without a transaction; lost answers; a decision taken before the lock.
Correct when GitHub authority is always recorded and revocable, is revoked
before the Box key is deleted, and `connected` is never claimed without it.

**Repository and Worktree lifecycle** (`internal/repository/lifecycle.go`).
Keeps one journal record per intent, a staging directory with an ownership
marker per operation, per-Worktree and per-Repository flock files, and Git's
worktree registrations. Operations: clone, worktree add, remove, prune, and the
reconciliation of each. Hard: rename and registration are two effects; the
journal and the file system disagree after a crash; people use Git and `rm`
meanwhile. Correct when nothing of a person's is deleted, a staged checkout is
never orphaned, and a retry finishes what was begun.

**Sessions and Worktree shells** (`internal/session/tmux.go`,
`internal/runtime/host/host.go`). Keep tmux sessions with metadata; share the
Worktree's lock with removal. Hard: tmux outlives the lock, panes move, and a
path may lead to another Worktree by now. Correct when a Worktree has one
managed Session and is not removed from under it.

**Workspace transfer** (`internal/workspacetransfer`, `repository/checkout*.go`,
`cli/push.go`, `cli/pull.go`, `internal/link`). Keeps a Local Link per checkout
and, while it applies, a directory of backups and staged files beside the
Worktree. Operations: push, pull, and the application of a payload to an
existing or a new Checkout. Hard: what was observed changes before it is
replaced; files, index, HEAD and branch are replaced one by one beside people
who write; an apply request outlives its command. Correct when an application
does all or nothing, nothing people wrote is lost, and a destination is replaced
only by a state that contains its own.

**Box acquisition and destruction** (`internal/acquisition`,
`provider/digitalocean`, `inventory/sqlite`). Keeps provision and destroy
checkpoints in SQLite, a Droplet and an SSH key at the provider. Hard:
eventual consistency of the provider, a create whose answer was lost, money.
Correct when no operation pays twice and no machine is forgotten while it exists.

**Box inventory** (`internal/box`, `inventory/sqlite`). Boxes, name
reservations, adoption, observations, the default Box. Hard: interleaved
transactions of two invocations, reservations left by a crash, a record that
names a machine which no longer has the address.

**Box target and runtime installation** (`internal/boxtarget`, `runtime/ssh`,
`internal/artifact`). Keep the host runtime, the identity file and the
configuration of each machine, and on the workstation the released and the
development runtimes. Hard: every step is a connection of its own, so another
workstation or another machine may come in between; a sweep of old generations
beside a resolver that leases one. Correct when no command downgrades a runtime
or changes a machine it did not mean, and what is resolved stays whole.

**Remote application protocol** (`internal/runtime`). Typed requests and result
envelopes; the handlers that change state are those above.

**Self-update and installer** (`internal/selfupdate`, `install.sh`). Keep the
executable, its ownership receipt, a lock directory and the cache of the last
check. Hard: the installer and builds from source replace the same file; stale
locks and caches. Correct when an update installs something newer only.

**Process runner** (`internal/process`). Runs a command captured, attached or
with job control on a terminal, and cancels it with what it has started. Hard:
two goroutines stop and continue one process group. Correct when the terminal
comes back and a cancellation leaves nothing behind that it could see.

**Repository normalisation and clone** (`internal/source/repository.go`,
`repository/lifecycle.go`). Addresses of one repository share an identity, and a
clone is an operation with a journal, a stage and a promotion. Hard: a retry
under another address or protocol version after a crash.

**Credentials and secret store**, **work context**, **command line**: little or
no state; the rotation of the GitHub token (account row, secret store, account
row again) is the one sequence with an order to get wrong.

How they meet: the CLI calls source access, acquisition, the inventory and
transfer in its own process and reaches the lifecycle and Sessions through the
protocol on the Box. Shared state is what couples them: the inventory (source
access, acquisition, default Box), the per-Worktree lock (add, remove, Session
start, shell, transfer), the Repository lock (add, remove, prune), and the tmux
server (Sessions, removal).

## 2. What is modelled

| Module | Code | Contents |
| --- | --- | --- |
| `SourceAccess` | `source.go`, parts of `boxgit/identity.go` | connect, status, disconnect, cleanup, locks |
| `WorktreeState` | `lifecycle.go` | what the Worktree commands share: paths, trees, stages, journal, locks |
| `WorktreeAdd` | `Lifecycle.Add` and what it calls | worktree add and its reconciliation |
| `WorktreeRemove` | `Lifecycle.Remove`, `Prune`, `TmuxUse` | worktree remove, quarantine, restoration, prune |
| `WorktreeSessions` | `tmux.go`, `host.go` | session start and stop, shells |
| `WorktreeLifecycle` | composition | the four above, people, tmux, interruptions, the safety properties |
| `WorktreeRetry` | composition | bounded interruptions, retries, fairness, the liveness property |
| `BoxAcquisition` | `acquisition.go`, `digitalocean.go`, `box/service.go`, `sqlite/store.go` | `box add` (adopted and provisioned), `box remove`, `box destroy`, the provider |
| `AtomicReplacement` | abstract | what one application of a payload promises about files |
| `CheckoutState`, `CheckoutFiles`, `CheckoutGit`, `CheckoutUndo`, `CheckoutApply` | `checkout_apply.go` and its helpers | one application to an existing Worktree: its state; displacing and installing files; index, HEAD and branch; rollback and release; the whole, beside people |
| `DirectionalTransfer` | abstract | what push and pull promise (ADR 0012) |
| `TransferState`, `TransferPush`, `TransferPull`, `WorkspaceTransfer` | `cli/push.go`, `cli/pull.go`, `workspacetransfer/`, `host.go`, `link.go`, `boxtarget/resolver.go` | checkouts, links, routing; push and its remote half; pull; the whole, beside people, another machine and lost requests |
| `MaintenanceState`, `HostInstall`, `BoxMaintenance` | `box/service.go`, `runtime/ssh/host_runtime.go`, `config/host.go` | machines and inventories; `EnsureHost`; `box add`, `setup`, `update`, `status` of several workstations |
| `SelfUpdate` | `selfupdate/` | release check, its cache and claim, update under the lock, installer, builds from source |
| `ArtifactStore` | `artifact/` | generations of development runtimes with leases, the cache of released ones |
| `ProcessControl` | `process/` | running, suspending, resuming and cancelling a command |
| `RepositoryClone` | `lifecycle.go`, `source/repository.go`, `boxgit/clone.go` | both versions of the clone operation |
| `Workstation` | composition | the last four, which share no state |
| `SourceAccessProofs`, `WorktreeProofs`, `MaintenanceProofs`, `TransferProofs`, `CheckoutProofs`, `CheckoutFilesProofs`, `BoxProofs`, `WorkstationProofs` | | theorems |
| `MC...` | | symmetry and sets for the configurations |

Operators whose comment begins "Mutant:" are not part of a specification: each
is the form a definition would have under a plausible bug, and TLC must find the
property that is paired with it in `PROJECT.json` violated when it takes the
definition's place.

### Source access

A command is a process `p` with a label `proc[p].pc`; a label is the last call
it made, and one action is what happens up to and including its next call that
changes a store. `account` and `bindings` are the two tables, `boxKey` the
generation of the key on each Box, `remoteKeys` GitHub's. A fingerprint is
identified with (Box, generation). `CallFails` is the failure of the call that
is due, `Crash` the death of the process, after which `flock` is released.
`ConnectCreateKey` and the deletion may take effect and still report failure
(the lost answer); with `LateCreates` a registration may land later still.
Because the inventory is read before the locks in `Disconnect` and `Status`, the
row that was read is kept in `proc[p].bind` and used afterwards, as in the code.

Abstracted: the OAuth device flow and the token (an account answers or does not),
HTTP status handling beyond success, failure and lost answer, and progress
output. `findRemoteKey` is by fingerprint because GitHub never reuses a key ID.

### Worktrees

`at[x]` says what lies at a path: a tree, something foreign or nothing. The
paths are the targets and one staging path per intent. A *tree* is one linked
Worktree's administrative directory with the files that belong to it: `reg` is
the path its `gitdir` file names, `locked`, the `ref` it was added for, whether
`head` has moved, and how `dirt`y the files are. "Worktree found by inspection" is
`Inspects(x)`: the tree at `x` is registered at `x`. A rename changes `at` only,
`git worktree repair` changes `reg` only, which is why a crash between the two
is visible. `stage[o]` is the staging directory: absent, without marker
(`bare`), or `owned`. `record[o]` is the journal, `latest[t]` the intent of the
last remove record, by which a removal of a path that is gone is resumed.

Each action of `WorktreeAdd` and `WorktreeRemove` is one effect of the code
together with the tests that lead to it; the label before it is where the
process may stop. The checkpoints have the code's names. A command that is
refused, finds a lock held or fails in a call without an effect is `Interrupt`.

People edit files, move HEAD, delete and create directories and use `git
worktree add`/`remove` at any time (`People`). tmux Sessions end and their panes
leave the Worktree at any time. `worktree prune` runs at any time the Repository
lock is free; its own record protects nothing and is left out.

Modelled by a superset of the code's behaviours: a ref may be checked out in two
trees (true of tags); an add may be interrupted after it has registered its
staging path and before the checkout. Left out: `clone` (a module of its own), the discovery
limits, the check for submodules, the recovery of an add whose source Repository
has disappeared (`findAddRecovery`), Git's own correction of a moved tree's
registration after a day, a deletion by Git that stops in the middle of the
files. Between the last inspection of a quarantined tree and `git worktree
remove` only Git looks, and not at ignored files or at HEAD: for these two
changes the model leaves that window of one call out (`LastWindow`), and the
hazard is recorded.

The per-Worktree lock lies in the state directory of its command. `Add` uses the
journal's (`XDG_STATE_HOME` when set), `Remove`, Sessions and shells always the
one below home. `SharedState` says whether the two coincide.

### Boxes

`prov`, `reserved` and `boxes` are the tables `provision_operations`,
`add_operations` and `boxes`, one entry per name; a statement or a transaction of
`store.go` is one action, and so is a call to the provider. `droplet` holds the
provider's Droplets with the operation their correlation tag names. `proc[p]` is
what a command has in its variables, in particular the operation and the resource
as it read them: `CheckpointPending` writes that resource back, as the code does.
`late` holds requests whose callers have gone: `Land` carries them out in any
later state. `acts` counts failures, interruptions and what people do at the
control panel; `forgotten`, `landed` and `stray` are history, for the properties.

Every error after the operation was recorded ends in `Abandon` (a last checkpoint,
then the error); `Stop` is a process that dies without one. `Fail` is a failed
call without an effect, while the calls with an effect (`EnsureKey`,
`CreateDroplet`, `RequestDelete`, `DeleteKey`) have the outcomes refused, carried out, and carried out or
not but unanswered as disjuncts of their own.

Abstracted: the names of the checkpoints, warnings, times and the table
`destroy_operations`, none of which the program reads back to decide anything;
the credential chooser and the catalogue. All keys of an account are one
(`sshKey`): Schooner has one public key, which an account can hold once, under the
name of whichever operation came first. A machine answers over SSH iff its
Droplet exists. The lookup by tag and the one by recorded identifier are
one action, as are the second inspection and the deletion it guards. The default
Box is left out; setup, status and update are in `BoxMaintenance`.

### One application of a payload

`ApplyCheckoutTransaction` is one process with a label `tx.pc`; people act
between any two of its steps, as nothing but Schooner honours its lock. A file is
its inode: the captured one (`old`), the staged one (`new`) or one a person made
(`usr`), and `at[n]` is what lies at a path; `edited` holds the inodes somebody
wrote into, `written` what people wrote and have not removed themselves.
`backup`, `staged`, `aside`, `taken` and `quarantine` are the recovery material;
`binding` is what HEAD names, `ref` the branches, `index` and `indexLock` the
index. `plan` is the pair of sides that is replaced. A rename, a link, a removal
and a `git update-ref` with an expected value are one action each, with the
verification that follows as another, as in the code. `Fault` is a call that
fails, or a cancelled context, at any step that has calls.

A path lies in the Worktree or in a directory of the Worktree (`PathsAssumption`),
and a directory moves with what is in it (`Without`, `With`). The transaction's
entries are the positions of its two passes over the paths, leaves that only go
first and those that come after (`Entries`, `NextRecord`); the rollback goes
through them the other way (`Previously`). The rename that installs a leaf may be
a failing call like any other, which the code takes for a leaf that appeared
there (`Abandons`, and the first entry of the known faults below);
`tx.abandoned`, a history variable, remembers that path. `installIncomingAt` looks
at the parent again after the rename, which is the first condition of `Drop`.

Abstracted: the payload's format, file modes, ACLs and times; directories are one
level deep. A file that a person makes at a path which only goes, and which
`.gitignore` hides, is one the final observation does not see, so the refinement
does not show it either (`Hidden`). Left out: a person who replaces a captured file by a directory.
`ObserveCheckout`, `prepareCheckoutFiles`, the first pass of a rollback and the
read and removal of one piece of material on release are one action each (the
code reads many files there; what a person does meanwhile counts as before or
after). `restoreCheckoutTransaction` always returns at its first condition, and
`RestoreCheckoutAfterFailedApply` is reached by tests only. The HEAD binding is
inspected and then written by `git symbolic-ref`, which cannot compare
(lines 2367-2390): the two are one action here, so a switch of branch in exactly
that window is not covered.

### Push and pull

`local[c]` is a checkout on a workstation, `remote[p]` a Worktree on the Box: a
head, whether it is clean, and an origin. `Ancestry` gives the commits that
contain others; `Digest` is what the code's digest covers, which leaves the
origin out. `cmd[c]` is a command with what it captured; a label is the request
or local step that is due, and every remote step is one request that names the
identity of the machine it means (`Answers`). `net` holds apply requests: one
that was sent may arrive (`Receive`), wait for the Worktree's lock and be carried
out (`Apply`) although its command broke off. `machine` is the machine that has
the Box's address and `inventory` the record of it. `held` and `cloned` are
history. The application itself is atomic here; `CheckoutApply` is about it.

Left out or chosen freely: a collision with an ignored file (`Collision`) and Git
state a transfer does not carry (`Unsupported`) are refusals that may happen at
any time; one Box, which is the default. A machine is replaced only while the
Box carries out no request. A push that is interrupted between its clone and its
application leaves a clone that a retry may be refused; nothing is lost then.

### Maintenance of a Box

`at` is the machine that answers at the address; each machine has an identity
file (absent, created but blank, or written), a runtime, a configuration, a
Worktree Root and prerequisites; each workstation has a version, a record and one
command. `HostInstall` is `EnsureHost`: assessment, fingerprint, assessment,
upload, trial, promotion, confirmation, each a connection of its own.
A record has the path of the managed runtime (`path`) and the version last observed
there (`seen`), which `setup` and `update` save one after the other
(`UpdateRuntimePath`, `Save`). `Swap` moves the address, `Reinstall` is a person or an installer that replaces a
runtime, `Forget` is `box remove` during another command.

Left out: platforms and certificates, and the reservation of a name (in
`BoxAcquisition`). The comparison of the fingerprint and the rename in one remote
shell command (`promoteCommand`) are one action.

### The local program

`Workstation` composes four modules that share no state. Since a step of one
commutes with every step of another, each is followed alone from the common
initial state (`part`).

*`SelfUpdate`*: a version is a number that stands for its digest too, 0 for a
build from source. An updater checks (answer, answer under an entity tag, no
answer), takes the lock by making a directory, classifies the installation,
stages, verifies, looks again at the executable and its receipt, renames and
writes the receipt, and may crash at each label. The installer takes the same
lock and is atomic under it; a build from source takes none. A stale lock is
cleared by a person, after its owner has died.

*`ArtifactStore`*: a build sweeps, writes a generation, publishes it by renaming
the pointer and sweeps again. A resolver reads the pointer, leases what it names
and confirms the pointer. A sweep unlinks a lock file before the directory, so a
resolver may recreate it and lease nothing; the confirmation is what excludes
that. The assets of a released version never change.

*`ProcessControl`*: process 1 is the command; `proc` holds state, group and parent
of what it forks. The loop that waits for the command and the cancellation beside
it are two sequences of actions over the same processes. Left out: reuse of
process numbers, the delay that bounds waiting for pipes, limits on output. Every
call of the loop may fail once.

*`RepositoryClone`*: one path, one branch selector, the two addresses of one
repository. Version 1 keys its operation by address, version 2 by the identity
both share, and reconciles a version-1 operation first; `Open` and `Supply` are the
two saves a new operation starts with, and a crash may come between them. Left out: submodules; the
discovery limits are a refusal that may happen at any time (`Undiscoverable`).

## 3. Runs

| Run | Instance | Shows |
| --- | --- | --- |
| `source_serial` | 1 process, 2 Boxes that may take one name, 2 accounts, 2 keys per Box, 2 registrations, 3 connects, 2 crashes | `AuthorityRecorded`, `ConnectedIsUsable`, `NamesUnambiguous`, `RevokedBeforeRemoved` through every crash, failed call and lost answer |
| `source_concurrent` | 2 processes, 1 Box, late registrations | `ExclusiveOperation`, `ConnectedIsVerified` |
| `source_liveness` | 1 process, 1 Box, 2 keys, 2 connects, 2 crashes, fairness | `EventuallyDisconnected`: disconnect finishes, or the Box waits for cleanup with a key its row does not record |
| `source_stale_binding` | 2 processes, no crash | finding: violates `RevokedBeforeRemoved` |
| `worktree_safety` | 2 processes, 1 path, 1 ref, 2 trees, 2 Sessions, 2 acts of people | `OneIncompletePerTarget`, `StagedIsOwned`, `RemovedIsGone`, `OneSessionPerWorktree`, `NothingLost`, `SessionKeepsTree` |
| `worktree_retry` | 1 process, 1 path, 2 refs, 2 interruptions, fairness | `InterruptedIsResumed` |
| `box_acquisition` | 1 command that provisions, 1 that adopts, removes and destroys; 2 names, 2 Droplets, 1 other machine, 2 operations, 2 Boxes, 1 failure or act | `NoDuplicate`, `NoneLost`, `KeyIsTemporary`, `ForgottenWhenGone` |
| `box_retry` | 1 name, 3 Droplets, operations, Boxes and failures, fairness | `DestroyResumes`, `ProvisionResumes` |
| `checkout_apply` | 5 pairs of sides over 2 files and 1 directory (leaf becomes directory and back, other branch, new branch, detached, rewind of a clone), 3 acts of people, 1 failed call | `WritingKept`, `Recoverable`, `RefusedGit`, `GitKept`, and `AllOrNothing`: `CheckoutApply` implements `AtomicReplacement`. `Recoverable` and `AllOrNothing` except the one path whose replacement could not be installed |
| `workspace_transfer` | 2 workstations, 1 path, 3 commits with a fork, 2 commands, 1 act, 1 fault | `SameMachine`, and `Directional`: `WorkspaceTransfer` implements `DirectionalTransfer` |
| `box_maintenance` | 2 workstations, 2 machines, versions 0 to 3, 2 commands, 1 act, 1 fault | `Prepared`, `NoDowngrade`, `RightMachine` |
| `workstation` | 2 updaters, releases 1 to 3, 1 builder, 2 resolvers, 3 generations, 3 processes, 2 stops, 2 callers with 3 clones, 1 fault each | `NewerRelease`, `ResolvedKept`, `JobControl`, `ClonedWhole` |

The safety runs of `WorktreeLifecycle`, `BoxAcquisition`, `CheckoutApply`,
`WorkspaceTransfer`, `BoxMaintenance` and `SourceAccess` also check `TypeOK`.

**Why the bounds are enough.** *Processes.* The locks admit one command per
Worktree (source access: one at all); what two processes add is one that waits or
decides before the lock beside one that works, and two are that. *Boxes and paths.* Commands on
different Worktrees share the Repository lock and the tmux server only; a second path adds no
new conflict with the first. Two Boxes are there for names and for the last
binding of an account. *Keys, trees, Sessions.* Two of each are the replaced and
the replacement, or the first and the one too many. *Acts.* Two acts of people
make a deletion and a replacement, or an edit and a commit, between any two
steps. *Crashes* are unbounded in the Worktree safety run; in the source and retry runs two or three,
because a second interrupts the recovery from the first. Actions that need a bound name it in their
guard (`MaxKeys`, `MaxIDs`, `MaxConnects`, `MaxCrashes`, `MaxTrees`, `MaxActs`,
`MaxDroplets`, `MaxOps`, `MaxBoxes`). *Droplets and operations.* Two Droplets are
the one that was meant and the one too many; two operations are
those of two names, or of a name that is used again. `box_acquisition` has one
failure, lost answer or act of a person, which TLC puts at every step of every
interleaving of the two commands; `box_retry` has three, an interruption, the
failure of the retry and the interruption of the recovery from both.
*Application.* The pairs of sides are chosen for shapes: every way a leaf and a
directory can take each other's place, and every way HEAD can move; three acts
are a change, one that undoes it and one more, and one failure starts the only
rollback there is. *Transfer.* Two workstations are the one that pushes and the
one whose push, or late request, comes in between; of three commits two contain
the first and neither the other, which is the least where "contains" differs from
"is newer". *Maintenance.* Two workstations and two machines are the one that is
meant and the other; versions 0 to 3 are a development build, one whose protocol
is too old, and an older and a newer one. *Local program.* Two updaters, three
generations (published, being swept, being built), two resolvers, a command with
a child and a grandchild or an orphan, and three clones (version 1, version 2 and
a retry), each with one crash or failure at any step.

What is interchangeable (processes, workstations, machines, names) is declared as
symmetry; no run that checks liveness uses it. Where a run bounds people to one
act, what takes two of them is recorded as a hazard if the code is known not to
withstand it.

Deadlock is checked for source access only: in the other runs there may be
nothing left to do once the bounds are used up.

**Fairness.** `SourceAccess!Fairness`: a command that runs gets to its end, by
success or failure (weak), and a person repeats `disconnect` until it succeeds,
while no single call fails for ever (strong). `WorktreeRetry!Fairness`: a running
command goes on (weak on its successful steps), the person repeats each command
as often as it can be begun, and Git does not refuse the same removal for ever
(strong). Nothing in the code retries by itself: the repetition is what
`docs/architecture.md` promises to be enough ("a later invocation can inspect
and resume after interruption").

`BoxAcquisition!Retried`: a running command goes on (weak on each step), the user
repeats `box add` and `box destroy` as often as they can be begun (strong), and
an accepted deletion is carried out (weak); nobody deletes Droplets or tags elsewhere
(`MayDelete`, `MayUntag`). Failures and interruptions come to an
end because `MaxActs` bounds them. Again nothing in the code retries: it is what
`docs/digitalocean.md` tells the user to do.

In `worktree_retry` a command may stop before every step except three: between the
staging directory and its marker (see below), and
between the checkout and its record, where the code and its tests choose to leave
the stage to the person. A `git worktree add` that dies half-way is also left
out, as its locked registration is refused in the same way.

The other modules state safety only: an application, a transfer, an installation
or an update that is interrupted is begun anew by a person, and nothing in the
code or its documents promises that it ends.

### Refinements

`CheckoutApply` implements `AtomicReplacement` (property `AllOrNothing`; also
proved, section 4). The
mapping shows, per path that differs, whether it holds the previous leaf, the
incoming one, neither, or something of a person's, and maps the end of the
transaction to `applied`, `refused` or `unknown`. The abstract specification lets
the transfer do anything to files while it is pending, but report `applied` only
when all are incoming at once, `refused` only when every file nobody touched is
the previous one, and touch nothing after that. It may give up one path
(`Abandon`), which `refused` then leaves out and after which it cannot report
`applied`.

`WorkspaceTransfer` implements `DirectionalTransfer` (property `Directional`;
also proved, section 4). A place is a checkout on a workstation or a Worktree.
The abstract specification has five kinds of steps: people do what they like, an
absent place is cloned or created, and a place that is clean is replaced by a
state its source has held, of a related origin, that contains its commit or takes
the place of what a clone made there.

### Finding

`source_stale_binding`: `Disconnect` and `Status` read the binding before they
take the locks and never again. A command that read `cleanup_pending` deletes
the Box key of a connection that another pair of commands has made meanwhile,
with the key still registered at GitHub.

### Known faults that no run shows

Each was met while modelling; the hazards in `PROJECT.json` name the lines. The
first five were seen by TLC, where a property is named without its exception or
under the change of configuration that is named.

* When the rename that installs a leaf fails for any other reason than a leaf in
  its way, `Apply` still takes it for one (`checkout_apply.go:1125-1134`): it removes
  the file that was set aside and marks the path as somebody else's, so that
  `Rollback` skips it (1281-1284) and `Release` removes the link of the captured file
  (1525-1532). The transfer reports a refusal, the path is empty and its previous
  content is gone, although `docs/architecture.md:321-323` calls the transaction
  "rollback-backed". `checkout_apply` takes this step: `Recoverable` and
  `AllOrNothing` name the one path it gives up as their exception and are violated
  without it; with it they show that no other path is lost, and this one only
  when the refused transfer is released. `WritingKept` has no exception, as a
  link that somebody wrote into stays.
* A connect after an interrupted cleanup has the Box generate a key before it
  compares the fingerprint, after which neither connect, status nor disconnect can
  finish (`source.go:386`), although ADR 0010 (lines 49-51) says that "interrupted
  cleanup remains recoverable". `EventuallyDisconnected` names this state as the one
  exception and is violated without it (`source_liveness` allows the second connect
  it takes); with it the run shows that disconnect gets stuck in no other way.
* A process that dies between making the staging directory and marking it blocks
  the path for every later command (`InterruptedIsResumed` with `a_mark` or
  `r_mark` in `StopsAt`).
* `worktree prune` looks at no operation record; between a rename and the repair
  of the registration it deletes the administrative directory the recovery depends
  on (`InterruptedIsResumed` with `Prune` in `RetryNext`).
* `BeginAdd` reserves a name for the address of the first Droplet. When that
  Droplet is deleted elsewhere before the Box is saved, the retry creates a second
  one, as `digitalocean.go` intends, and is refused the name for ever
  (`ProvisionResumes` with `MayDelete = TRUE`).
* A version-2 clone that dies after Git has finished and before its checkpoint is
  refused by every retry (`lifecycle.go:491`), by design.
* A Box identity file that a crash left blank stays so until a person removes it.
* A self-update that dies between the rename and the receipt leaves an executable
  it no longer owns (`selfupdate.go:313-327`); a build from source between the last
  fingerprint and the rename is overwritten; a stale claim is taken over by a
  rename that does not check whose it is by then (`cache.go:152`).
* While `SIGCHLD` is not listened for (`process_group_unix.go:135`), a stop of the
  command may go unnoticed until something else happens; a `SIGCONT` by the loop
  during a cancellation may wake what was stopped to be killed; a cancellation
  scans for descendants four times at most. `JobControl` exempts the last two, and
  the command's end when the last call that gives the terminal back fails
  (`process_group_unix.go:107`): the error is reported and the terminal stays with
  the command's group.
* `box update` on a Box and a self-update run there take different locks
  (`host_runtime.go:912`), so `NoDowngrade` is about workstations and people only.
* A runtime that is replaced between fingerprint and reassessment and put back
  before the promotion passes for the one that was assessed. It takes two
  reinstallations by hand, or two swaps of the address, within one command. With
  `MaxActs = 2` TLC finds this: `NoDowngrade` fails, and after two swaps `Prepared` does.

### Where a property stops

Of the Box properties `NoDuplicate` and `NoneLost` are stated for operations none
of whose creates landed after the lookup that should have found it: nothing on
this side of the provider can exclude that. `box_acquisition` runs one
provisioning command at a time. With two that resume the same name at once both
properties fail, for no lock covers the name between the lookup by tag and the
create; ADR 0005 speaks of retries only, so this is recorded as a hazard.
Likewise `ForgottenWhenGone` is checked with one command at a time that removes:
a removal and a new `box add` of the same name during a destroy lets its last
step, which goes by name, remove the new Box.

With `LateCreates = TRUE`, `AuthorityRecorded` fails: a registration that lands
after the code's one re-list is unknown to it. Nothing on this side of GitHub can
prevent that, so it is a hazard and not a finding. With `SharedState = FALSE` the
Worktree properties hold (1 ref, 2 acts, 848 000 states) except
`OneIncompletePerTarget`: an add and a removal take different locks, both pass
the conflict scan, and each later refuses because of the other.

## 4. Proofs

All theorems are for any number of processes, Boxes, names, accounts, paths,
refs, trees, Sessions, files and directories of an application, workstations,
machines, Droplets, operations, versions, commits, updaters,
builds, resolvers and plans of an application, and any bound. They rest on the named assumptions only,
which TLC evaluates in every run: the bounds are naturals, the values that stand
for nothing (`None`, `Foreign`, `NoBox`, `Absent`, `Nobody`, `Dead`, `Missing`, `Damaged`) are none of
the others, a target is not a staging path, a workstation's checkout is not a
Worktree of the Box (`SourceConstants`, `WorktreeConstants`,
`AcquisitionConstants`, `MaintenanceConstants`, `TransferConstants`, `WorkstationConstants`,
`PathsAssumption`, `PlansAssumption`, `BoundsAssumption`). Nothing is
assumed of `Ancestry`.

| Module | Theorem | States |
| --- | --- | --- |
| `SourceAccessProofs` | `TypeCorrect`, `Exclusive`, `Verified` | `TypeOK`, `ExclusiveOperation`, `ConnectedIsVerified` |
| `SourceAccessProofs` | `Revocable`, `Usable`, `Unambiguous`, `RevokedFirst` (one command at a time) | `AuthorityRecorded`, `ConnectedIsUsable`, `NamesUnambiguous`, `RevokedBeforeRemoved` |
| `WorktreeProofs` | `TypeCorrect`, `OneSession`, `SessionsKept` | `TypeOK`, `OneSessionPerWorktree`, `SessionKeepsTree` |
| `WorktreeProofs` | `StagedOwned`, `OneIncomplete` (with `SharedState`), `RemovedGone`, `NothingIsLost` | `StagedIsOwned`, `OneIncompletePerTarget`, `RemovedIsGone`, `NothingLost` |
| `MaintenanceProofs` | `TypeCorrect`, `OnlyTheRightOne`, `OneIdentity`, `StaysPrepared` (one machine at the address) | `TypeOK`, `RightMachine`, a part of `Prepared`, `Prepared` |
| `TransferProofs` | `TypeCorrect`, `Implements`, `OnItsMachine` | `TypeOK`, `Directional`, `SameMachine` |
| `CheckoutProofs` | `NothingOverwritten`, `RefusalRestores` | `GitKept`, `RefusedGit` |
| `CheckoutFilesProofs` | `TypeCorrect`, `WritingIsKept` | `TypeOK`, `WritingKept` |
| `CheckoutFilesProofs` | `FilesRecoverable`, `AppliesAllOrNothing` | `Recoverable`, `AllOrNothing` |
| `BoxProofs` | `TypeCorrect`, `NothingForgotten`, `OneDroplet`, `KeyGoes`, `DropletsKnown` | `TypeOK`, `ForgottenWhenGone`, `NoDuplicate`, `KeyIsTemporary`, `NoneLost` |
| `WorkstationProofs` | `Newer`, `Kept` | `NewerRelease`, `ResolvedKept` |

**`SourceAccessProofs`.** `TypeCorrect`, `Exclusive` (`ExclusiveOperation`) and
`Verified` (`ConnectedIsVerified`). `TypeOK` is not inductive by itself: actions
index by `proc[p].box`, and exclusion is about locks. The invariant is

    IInv == Core /\ Saved        Core == TypeOK /\ HasBox /\ HoldsLock

`HoldsLock` says that a command past its locks is the holder of the account
lock, from which `Exclusive` follows. `Saved` says that what a connect has
written into the row it carries (the key it saw on the Box, the registration it
found) is still true of the Box and of GitHub at each label, because whoever
could change either would have to hold the lock. `Verified` is then a fact of
the one step that records `connected`.

The other four have the hypothesis `Serial`: one process, which runs one command
after another, and no registration that lands late. Crashes, failing calls and
lost answers are in, and any number of Boxes, names and accounts. Without it they are false: a command
reads the row before it takes its locks, and the runs `source_concurrent` and
`source_stale_binding` say what is then left. The invariant is
`IInv /\ Stored /\ AllKnow`. `Stored` is what rows, keys and the account are to
each other between commands; `Knows` says of the command under way what it carries
is still what is stored, label by label, and what it is about to write keeps
`Stored`. A crash needs no case of its own then: it drops the command and leaves
`Stored`.

**`WorktreeProofs`.** `TypeCorrect`, `OneSession` (`OneSessionPerWorktree`) and
`SessionsKept` (`SessionKeepsTree`), for both values of `SharedState`. The
invariant is `Core /\ Sessions`.

    Core     == TypeOK /\ \A p \in Procs : HoldsTarget(p)
    Sessions == Panes /\ (\A p \in Procs : FreeName(p) /\ Unused(p)) /\ OneSessionPerWorktree

`HoldsTarget`: a command under way is an add, a removal or a use, is about the
target of its operation and holds that target's lock in its kind's directory.
`FreeName`: before a Session is created, none names the target. `Unused`: from
the look at tmux until the rename into quarantine, no managed Session names the
target or has a pane in whatever lies there. The look does not stop people from
replacing the tree, so `Unused` needs `Panes`: a tree lies at one path, a new
tree lay nowhere before, no pane is in the stage of an add (which is what an add
with another state directory may promote to the same path in between), and a
Session without metadata has no pane. The steps are grouped by their shape on the paths
(`Erases`, `Creates`, `Promotes`, `Quarantines`, `Restores`), each shape is shown
to keep `Panes` and `Unused`, and each action is shown to have a shape. TLC was
run on both invariants before they were proved.

The theorems about add and remove need four more parts.

- `Stages`: each operation with something staged owns the stage and is recorded
  at a checkpoint that looks there again (`OwnedAt`), and a command at each label
  has its operation at the checkpoints that label comes from (`PhaseAt`).
  `StagedOwned` follows. The proof found the property too strong as it was first
  stated: an add whose target somebody replaced by a Worktree like its own is
  recorded as complete with its checkout still staged; the next invocation clears it.
- `Rivals`: of the operations whose commands take the same lock at most one is
  unfinished, and a command about to begin one has seen no other (`Unrivalled`).
  With `SharedState` that is `OneIncompletePerTarget`; without it adds and removals
  take different locks, and the property is false.
- `Whereabouts`: the tree of a recorded removal is at its target or in a quarantine
  of that target and nowhere else, and so is its registration (`Homes`); a tree that
  is back at its target while Git still has the quarantine registered has a removal
  recorded as `restore_pending` (`Accounted`). Without the last a second removal could be
  completed on a stale registration. `RemovedIsGone` is one of its conjuncts.
- `Judged`: at the label that asks Git to remove, what lies in quarantine was
  inspected, is at the recorded HEAD and has nothing ignored. `NothingLost` is then
  a fact of the steps that delete.

**`MaintenanceProofs`.** The invariant is `World /\ Commands /\ OneWriter`.
`RightMachine` says that a machine changes only by a command that expects its
identity. The configuration is written by a request that names the machine, so
that is a matter of one step; the promotion is not, for it goes to whatever
machine answers and is held back by the staged file alone. `Commands` therefore
keeps, for a command about to promote, that the machine its file is staged on has
the identity it expects, and this must survive every step of every other command:
identities are written into blank files only, which `OneWriter` and the label
`write` account for.

`Prepared` needs two more parts. `Ties`: what a record and the command beside it
know of the machine with their identity (`Tied`: it is configured once the command
verifies, it has the Worktree Root once the command saves) stays true, since
identities are given once (`Unique`) and machines keep what they have (`Marks`);
that is `OneIdentity`, for any number of machines and swaps. `Aging`: where nobody
reinstalled by hand, the runtime is not older than what any record or command has
seen. A promotion keeps that because between its fingerprint and itself the runtime
can only have grown, so the runtime that still has the fingerprint is the one that
was assessed. With a second machine at the address it may be another's, and
`StaysPrepared` has the hypothesis that there is none.

**`TransferProofs`.** The invariant is `World /\ Counters /\ Commands /\ Requests
/\ Waits`. `Sound` says of a command at each label what it carries: a source that
its side has held, a destination that was found `Replaceable` by it, a seed that a
clone made. `Carried` says the same of a request, whose command may be gone. All
of it speaks of the history, which only grows (`Grows`), so other commands and
people keep it. The step that replaces then compares what is there with what was
expected, which with `Replaceable` is a step of `DirectionalTransfer`. One lemma
per group of actions shows both that it keeps the invariant and which abstract
step it is; `Implements` follows, and `SameMachine` from the part of `Carried`
about requests that wait for the lock.

**`CheckoutProofs`.** The invariant is `World /\ Locking /\ Course` and, as long as
nobody else used Git, `Alone`. `Locking`: the application holds `index.lock`
exactly while it has recorded so, and the index is the old one until its own
replaces it; that keeps the index of others. `Course` has what each label relies
on: a branch is moved only away from a commit that is nobody else's, going back
moves only a branch that is still the incoming one. `Alone` says that HEAD, the
branches and the index are at each label what the application made of them and
has recorded (`Meant`, `Rebound`), which a lost answer does not change because it
is read back; so the rollback ends at `Restored` or has recorded that it failed.
Steps on files enter with one fact each: they keep Git and the record of it
(`Works`, `PutsBack`).

**`CheckoutFilesProofs`.** What `CheckoutApply` promises about files. The invariant
is added to that of `CheckoutProofs`, since the labels of both go together:

    FInv   == Base /\ Stages /\ Writings
    Stages == Outset, Forward /\ Turning, Backward or Failed, by the label

`Base` is what has a type and what follows from the file system: the inode of a
captured or staged leaf is only ever at its own path, in the Worktree or in one of the
places beside it (`Place`), what lies at a path in a directory lies in a directory
(`Tree`), and a file of another kind than the plan's was put there by people.
`Outset`: before the staging nothing has moved. `Forward`: while leaves are replaced
every captured file has its link, only the entry whose turn it is has something
set aside (`Turning`), and the entries that are past have gone. `Backward`: what
was set aside is the captured file or will be kept, every captured file nobody touched has
a link or is where it stays, and the entries that have been put back hold nothing
incoming. `Failed` is what remains of that at the end, when links are released.
Neither property is inductive by itself. `Recoverable` says that a file is somewhere; that the
next removal does not take the last place needs to know which places are about
to be emptied, which is what `Stays` tells from `Found`. `WritingKept` fails to be
kept between the rename that sets a file aside and the look at what was renamed:
there `Writings` says that the file is the one set aside, and that look either finds that it is not
what was captured or is the proof that nobody has written into it.

One lemma per action shows what it does to the material; the moves of a path with
what is in it are lemmas of their own (`PlaceMoves`, `TreeOut`, `TreeBack`,
`OnlyIn`, `OnlyOut`). `FilesRecoverable` follows from the links while there are
entries left, and at release from `Kept`. A failing call of any kind is a step like
the others, that of the installing rename included: the path it gives up is
in `tx.abandoned`, which every other step leaves alone (`OthersKeepPaths`), and the
invariant exempts that path alone, at and after the release (`Spared`, `Failed`). For
`AppliesAllOrNothing` every step is a step of `Promise` or a stutter: while the
outcome is pending `Work` allows any change by the transfer, so what is to be shown is that
reports are true. `Applied` is reported after `Final` saw every leaf (with
`Undone` and `Passed`, which say that the loops left no entry out), `refused` after a
rollback that found or put back every leaf nobody touched (`UndoEndMaps`) or
before the first change (`AsFound`), and afterwards only people change what is shown.
The step that gives a path up is `Abandon` of the abstract specification
(`GivesPathUpMaps`). TLC was run on `FInv` before it was proved.

**`BoxProofs`.** `Core` is what the types need: a command at a label is of the
command's kind and has what the label uses (`Course`), and a provisioned Box has a
Droplet and an operation (`Recorded`). The other theorems have hypotheses about
which commands run at once, as `box_acquisition` runs them (without them
`NoDuplicate`, `NoneLost` and `ForgottenWhenGone` fail, section 3): `OneRemoves`,
one process at most removes or destroys (`NothingForgotten`, `DropletsKnown`), and
`OneProvisions`, one at most provisions (`OneDroplet`, `KeyGoes`,
`DropletsKnown`). Adoptions run in any number beside them.

    Removing   == Core /\ AllBorn /\ \A p \in Procs : Doomed(p)
    Single     == Core /\ NoDuplicate /\ \A p \in Procs : Made(p)
    Keeping    == Core /\ Numbered /\ Keyed /\ \A p \in Procs : Flight(p) /\ KeyAway(p)
    Accounting == Single /\ Keeping /\ Removing /\ Ledger

`Doomed`: a destroy under way finds under its name the Box it began with, and at
its last step the Droplet is gone; adoption and provisioning keep that because a
Box is saved under a free name only, the provider and people because Droplets only
fade (`Ages`), which needs that the Droplets of Boxes were ever created
(`AllBorn`). `Made`: a command about to create a Droplet has none, and one that has
one has no other; no step but its own create brings a Droplet of its operation to
life, since a late create takes its operation out of the property. `Flight`: the
operation of a command under way is recorded under its name and has no Box, which
no removal can undo because it ends an operation only with the Box it obtained.
`KeyAway` and `Keyed` then say that a key goes before the Box is saved. `Ledger`
puts these together: the Box of an operation is of its only Droplet, so that
ending the operation or removing the Box loses sight of nothing else.

**`WorkstationProofs`.** Two components without common state. `Newer` has four
conjuncts beside the types. `CachesFaithful`: no
cache carries the server's current tag for anything but what the server offers,
so an answer "unchanged" may be trusted. `HoldsLock`: an updater past the lock is
the one it names. `Progress`: on its way to the rename an updater has found more
than it runs. `Unreplaced`: between its last look and the rename the executable is
what it looked at or a build from source, since everyone else takes the lock.

For `Kept`, `Builder`: a build that sweeps has the published
generation among nothing it removes, and nobody else publishes meanwhile.
`Confirmations`: a lease that was confirmed against the pointer is not on the
generation that is being removed, whichever lock file it was taken on. `Held`
follows for every later sweep, which finds the lease.

**Only model-checked**: `NoDowngrade` (which
does not hold for every `MaxActs`, section 3), `JobControl`, `ClonedWhole`, and everything about
liveness. TLAPS 1.4.5 proves no liveness under fairness and nothing about
`ENABLED`; it cannot instantiate the library's induction theorems, so what a
recursive definition computes for every input is out of reach; and a module with
a `RECURSIVE` operator loses its SMT backend. No module here declares one.

## 5. What is left

In the order of what it would add:

1. *Proofs.* `JobControl` and `ClonedWhole`, which need the processes of a command
   by their place in its tree, and the stages of a clone beside a rival's.
2. *`SourceCredential`*: the rotation of the token over the account row and the
   operating system's secret store, refining the account of `SourceAccess`.
3. *Composition*: a clone and a linked Worktree of one path
   (`RepositoryClone` with `WorktreeLifecycle`), and an application beside a
   removal of the same Worktree. They meet in the per-Worktree lock only.
4. *Several provisions of one name at once*, when the code has a lock for them.

## 6. Not modelled, and why

Parsing of arguments, addresses, JSON and URLs, prompts, rendering and progress
(functions of their input, without state); HTTP, SSH and TLS themselves (a call
succeeds, fails or loses its answer); the credential and its store (one call to a
store whose behaviour the code does not determine); file modes, ownership and ACLs
(no property here tells them apart); listing, logs and attaching of Sessions
(they change nothing); the default Box (one statement over one row); the choice
of a direct or an SSH target (a function of the configuration). Release scripts
and workflows are not part of the running system; `install.sh` is modelled by
what it does under the lock.
