# A verified model of docker-machine-driver-fsas

TLA+ specifications of the driver with which Rancher builds and removes
machines in a Fujitsu FSAS CDI fabric, TLC configurations that check them on
small instances, and TLAPS proofs of the main promises for every value of the
constants. The source lines each definition stands for are in
`PROJECT.json` under `map`.

## 1. Inventory

| component | state | operations | talks to |
|---|---|---|---|
| **Driver** `pkg/drivers/fsas/fsas.go` | `MachineUUID`, `IPAddress` (saved by libmachine); four lazily made clients (lost with the process) | `Create`, `Remove`, `Start`, `Stop`, `Restart`, `Kill`, `GetState` | all below; called by libmachine |
| **Configuration** `pkg/drivers/fsas/fsas.go` | the settings in the `Driver` struct (saved); the parsed host key (not saved) | `SetConfigFromFlags`, `checkConfig`, `UnmarshalJSON`, `initClients`, `initSshManager` | libmachine's options; the environment of each process |
| **Fabric Manager client** `fm/fm.go` | package variable `isInit`, boot storage condition | `CreateMachine`, `ImageInstall`, `PowerOn`, `PowerOff`, `GracefulShutdown`, `RemoveMachine`, `GetMachineDetails`, `ValidateTenant` | the Fabric Manager service over HTTP |
| **Keycloak client** `keycloak/keycloak.go` | package variable `isInit`, access and refresh token, privileges | `NewKeycloak`, `InitConnection`, `UserIsAllowedToCreateCluster`, `GetToken` | the Keycloak service over HTTP |
| **SSH manager** `sshutils/sshutils.go` | package variables `isInit`, `publicKeyIsValid`; host, client | `ExchangeKeys`, `RegisterOS`, `DeregisterOS`, `ExecuteScript`, `WriteFileOnRemoteMachine`, `RebootCloudInit`, `DisablePasswordSSHLogin` | sshd of the machine |
| **HTTP client** `httputils/httputils.go` | none | `Get`, `Put`, `Post`, `Delete` | network |
| **Device specification** `models/models.go`, `fm/fm.go` | the boot storage condition | `CheckDeviceSpecJson`, `getBootStorageCondition`, `getSsdId`, `populateCreateMachineRequest`, `assignIpAddresses` | the answers of the Fabric Manager |
| **Node scripts** `cfgutils/cfgutils.go` | none | text of the RKE2 script, with its GPU labels, and of the metadata | none |
| Clock, logger, plugin `main.go` | none | | |

The service behind the Fabric Manager client is asynchronous: it accepts a
request, begins it later and finishes it later still, and the driver polls the
machine's status (`state.go`) until it sees the one it waits for. Rancher calls
the driver through libmachine: one process per command or several commands in
one, a JSON file between them, and a `Remove` repeated until it succeeds.

What is hard here:

* *ordering against an asynchronous service*: the same status, `ACTIVE_POFF`,
  stands before and after the installation, and before and after a power
  cycle; an order accepted earlier may still be outstanding;
* *partial failure*: `Create` has fifteen steps and undoes them by calling
  `Remove`, which itself has steps that fail;
* *lost answers*: every request may be carried out and reported as failed;
* *process death*: clients are gone and the fields are those of the last save;
* *lazy initialisation*: each call must make the clients it uses;
* *repetition*: `Remove` is called again on a machine half removed;
* *commands over a connection that breaks*: an operation of the SSH manager is a
  sequence of commands, each of which may be carried out and reported as failed;
* *settings with several sources*: flags, the saved JSON and the environment of
  a process, read in that order by code that treats them differently;
* *recognition by value*: the boot disk is found again by its conditions, an
  address by its subnet, a GPU by one of two names.

What makes each part correct is stated with the module that models it.

## 2. Modules

| module | models | composed of |
|---|---|---|
| `FabricManager` | the service: status, outstanding order and image of each machine | |
| `NodeLifecycle` | abstract: what Rancher relies on when it owns a node | |
| `Driver` | every call of the driver, step by step, its clients, its caller | EXTENDS `FabricManager`; INSTANCE `NodeLifecycle` (refinement) |
| `PolledDriver` | the driver with the polls of its waits taken apart | EXTENDS `Driver`; INSTANCE `DriverProofs` (refinement) |
| `PolledDriverProofs` | its theorems | EXTENDS `PolledDriver`, `DriverProofs` |
| `MCDriver` | instances of `Driver` for TLC | EXTENDS `Driver` |
| `DriverProofs` | the theorems about `Driver` | EXTENDS `Driver` |
| `Wait` | abstract: what a caller of `waitForStatus` relies on | |
| `StatusWait` | the polling loop of `waitForStatus` in time | INSTANCE `Wait` (refinement) |
| `StatusWaitProofs` | its theorems | EXTENDS `StatusWait` |
| `TokenSteps` | abstract: the Keycloak client as `Driver` takes it | |
| `Keycloak` | the client's tokens and privileges, and the service that grants them | INSTANCE `TokenSteps` (refinement) |
| `KeycloakProofs` | its theorems | EXTENDS `Keycloak` |
| `SshSteps` | abstract: an operation over SSH as `Driver` takes it | |
| `SshManager` | the operations of the SSH manager command by command | INSTANCE `SshSteps` (refinement) |
| `SshManagerProofs` | its theorems | EXTENDS `SshManager` |
| `DeviceSpec` | devices from the customer's JSON to the boot disk, the addresses and the labels | |
| `MCDeviceSpec` | small specifications for TLC | EXTENDS `DeviceSpec` |
| `DeviceSpecProofs` | its theorems | EXTENDS `DeviceSpec` |
| `Http` | one request of the HTTP client over a network that breaks | |
| `HttpProofs` | its theorems | EXTENDS `Http` |
| `Config` | the settings: flags, checks, saving, reloading, the clients made from them | |
| `MCConfig` | flags and environments for TLC | EXTENDS `Config` |
| `ConfigProofs` | its theorems | EXTENDS `Config` |

The modules meet in these places. `Driver` takes a wait as a step of `Wait`
(which `StatusWait` implements, and `PolledDriver` for the driver as a whole),
the making and use of tokens as steps of `TokenSteps` (which `Keycloak`
implements), an operation over SSH as a step of `SshSteps`
(which `SshManager` implements), a request as an `Outcome` of `FabricManager`
(what the properties of `Http` say a result means), the search for the boot disk
and the addresses as steps that succeed or fail (`DeviceSpec`), and the checks
of the configuration as one choice (`Config`).

### FabricManager

The service is not in the repository. Its statuses are those of `state.go`
(`BUILDING_BEFORE_QUEUE` and `BUILDING` are one, `UNBUILDING_WAIT`,
`UNBUILDING` and `ERASING` another; `ADDING_RESOURCE` and `DELETING_RESOURCE`
are left out, as the driver asks for neither), its requests those of `fm.go`, and what a status may become is read off the order in which `fsas.go`
waits. Requests are accepted only from a machine at rest in the right status;
`DELETE` is accepted always, except that `RepeatDelete` says whether a machine
already being unbuilt, or unbuilt, may be deleted again. A machine may break at
any time before it is being unbuilt (`ERROR`). `Outcome` is what
`httputils.doRequest` lets its caller see: done and answered, not done, or done
and the answer lost (a transport error, a body cut short, JSON that does not
decode).

### Driver

`pc` names the next step, `call` and `ret` the call and its result; a step is
the code between two points where the service can move or the process can die.
Steps named `w_...` are the six uses of `waitForStatus`, `r_...` those of
`Remove`, entered from `Create` too when one of its own steps (`c_...`) fails.
`Fail` is the error return of all of them. `kc`, `fmc` and `ssh` are the
clients of the process, made once (`IsInit()` is a package variable the
constructor sets); `drv` and `saved` the driver's fields and libmachine's copy;
`host[m]` what was done to the operating system of `m` over SSH (`Facts`);
`"metadata"`, the meta-data written, and `"seeded"`, cloud-init restarted from
it, are two facts, because the driver is told of the first and not, reliably, of
the second. `lost` and
`warned` are history variables. An address stands for the machine that has it.

The caller (`Call`, `Save`, `ProcessExit`, `NewHost`) may make any call in any
order, save at any time between calls, and let the process die at any step,
with two restrictions libmachine keeps: flags are checked before `Create`, and
`Create` is called once per configuration.

Abstractions: a poll that sees another status changes nothing; a wait may run
out in any state, because time is not modelled here; configuration
checks are one choice; a step over SSH may, when it fails, have done any part
of its work, and when it returns nil has done what its nil vouches for, which
is all but `"seeded"`; SSH works only while the machine is `ACTIVE_PON`. An
answer that makes `GetMachineDetails` or `assignIpAddresses` panic (`DeviceSpec`
has which) is the end of the process here, `ProcessExit`.

The promises (all in `Driver.tla`, with the code they are about):

* `ImageBeforePowerOn`: Create powers on only a machine whose image is installed;
* `NoForgottenMachine`: no error path forgets a machine that was built, but for
  those in `lost`, whose UUID the driver never had or never saved;
* `CleanReport`: success of Remove, or of the rollback in Create, means unbuilt;
* `LicenseReleased`: a machine leaves deregistered or the log warns;
* `NoLockout`: the password goes only where the key is;
* `CreateOkReady`: nil from Create means every step was done, as far as their
  nil vouches for it: that cloud-init was restarted is not among it (`ssh_reboot`);
* `RestartGoesThroughOff`: Restart powers on only from off;
* `PanicOnlyInStop`: every other call makes the clients it uses;
* `NoReinstall`, `OneMachine`: no machine that was worked on is installed over;
  of any two that stand one was lost;
* `NoStepTwice`: no call comes back to a step it has left (`StepsLeft` counts
  those before it), so nothing is asked for twice within a call;
* `RemovalCompletes`: Remove, repeated after a failed Create, succeeds;
* `ImplementsLifecycle`: every step is a step of `NodeLifecycle` or none.

### PolledDriver

In `Driver` the service's reading of a status and the loop's look at the answer
are one step. Here a poll on its way is the variable `read`: `PollRead` is
`getCdiState` up to the service's part in it, `PollAnswer` the body of the loop of
`waitForStatus`, with the polls that find another status and go on; `Meanwhile`
and `Death` are the service moving on and the process dying between the two. All
other steps are `Driver`'s.

* `ImplementsDriver`: the driver that polls is a `Driver` that has left the wait
  when the service has read the status waited for (`AbstractPc`,
  `AbstractRet`), even though that status may be gone when the loop sees it;
* so every promise of `Driver` is one of the driver that polls (`Promises`), and
  the run `driver` checks them on this module.

### NodeLifecycle

What is left of a node when clients, polls and requests are taken away: at most
one machine is built per configuration; a node reported ready stands and has not
been ordered away; only the node's own machine is ever ordered away, and only
during a removal; a configuration is given up only when its machine is gone. A
machine no configuration names (`stray`) can come about in two ways, a POST
whose answer got lost and a process that died before the save. `Driver` implements
it under a mapping from `pc`, `call`, the saved fields and the service's state
(`Busy`, `Standing`, `Leaving` in `Driver`).

### Wait and StatusWait

`Driver` takes a wait as one step that returns nil at a moment when the machine
is in the expected status and may fail at any moment; `Wait` is that
abstraction by itself. `StatusWait` is the loop: a question is due (`due`), the
service reads the status (`Read`) at some time between that and the arrival of
the answer, the loop compares, looks at the clock and sleeps (`Answer`), while
the status moves as it likes (`Move`; out of `ERROR` too, as a broken machine
may be unbuilt). `Latency` bounds the time from a question being due to its
answer and so takes in the overrun of a sleep, the making of the clients and
the refreshing of the token that `getCdiState` may do on the way; there is no
such bound in the code, as its HTTP client has no timeout, so every statement
here is relative to it. A question may fail before the service has read
anything (`QuestionFails`: no UUID, no client) or its answer may come to
nothing (`"nothing"`).

* `Prompt`: while the loop waits, the machine has been in the expected status,
  or in `ERROR`, for at most `Step + 2 * Latency` (the bound is reached). This
  is what `Create` needs of `OS_INSTALLING`, a status that passes: an
  installation shorter than that may be missed, a longer one is not.
* `ResultIsHonest`: how old the news behind each result can be.
* `WaitIsBounded`: when the loop ends and how often it asks: at most 4
  times for 15 seconds in steps of 5, 361 times for 30 minutes.
* `ImplementsWait`: the loop is a `Wait`. Its result is decided where the
  service reads the status (`Decided`), not where the answer arrives; the status
  may have moved on by then, which in `Driver` is a step of the service after
  the wait.

### Keycloak

A pair of tokens is a number, 0 the empty string. `Call` is the beginning of a
driver's call that needs a token, `initKeycloak` if no client was made
(`isInit`, here `keycloak`), and `Use` the request the token goes with; the
steps between are the functions of `keycloak.go`, each up to the answer of its
request. What the answers may be is what the code tells apart: both tokens, an
access token only, neither (nothing granted, or granted and the answer lost or
unreadable), and, for a refresh, a status that is neither 200 nor an error, on
which `refreshToken` returns nil. The service may rotate refresh tokens, let
tokens expire and end sessions at any moment, between the check of a token and
its use too.

* `StaleOnlyIfRefused`: whatever happened before, `GetToken` hands out a token
  it saw valid or received in this call, unless a login was refused or the
  refresh got that odd answer;
* `KeepsNewest`: the client's refresh token is that of the last answer that
  brought a pair, so rotation of which it was told never leaves it behind;
* `InitIsComplete` (part of `IInv`): `InitConnection` succeeds with one whole pair and known
  privileges;
* `TokensAdvance`: no answer puts an older token in place of a newer one;
* `ImplementsSteps`: the client is that of `TokenSteps`. `Come` says how far it
  has come: a client in the course of its initialisation counts as none, as what
  becomes of it is decided when `initKeycloak` returns. What `Driver` relies on is
  that a client that has once held tokens never hands out an empty one, and that
  one whose initialisation failed halfway is not authorised (`admitted`, a
  history variable) for as long as the process lives.

### SshManager and SshSteps

`op` is the operation, `pc` the command it is at, `box` the machine: whether it
is up, what is in its files, what sshd and cloud-init run with. `RunCommand` is
`runCommand`: a command is carried out and the caller knows, is carried out and
reported as failed, or is not carried out at all; `Interrupted` adds the one
command that may do part of its work. The reboot command of `ApplyCloudInit` has
a fourth outcome, `Command("reboot", box)`: the channel is closed without an exit
status before it has done anything, which `runCommand` takes for the reboot
and returns nil. `Dial` is `hostPublicKeyIsValid`, which
stands before every command until it has once succeeded in the process
(`publicKeyIsValid`, here `valid`, is a package variable); `WriteFile` dials for
itself, once. `OnNil` and `OnError` say where each operation goes on: which
errors are returned, which only logged, and what `ExecuteScript` defers. The
machine halts and boots at any time (`MachineStep`), the process dies at any
time, and operations are called in the order of `innerCreate` and `Remove`;
`"unlicensed"` is `RegisterOS` without a registration code. The
dials of libmachine's own SSH client, below `sc.Client.Output`, are external.

* `NilMeansDone`: nil means that the work it vouches for is on the machine: all
  but the restart of cloud-init;
* `RebootIsDone`: that restart too, which the log claims. It does not hold, and
  `ssh_reboot` has the trace. What does hold (`Seeding`, in `IInv`) is that
  cloud-init is never restarted on meta-data that is not whole;
* `LoginIsPossible`: whatever has failed halfway and however often the machine
  has restarted, the driver can log in;
* `LeftoversReported`: a script that stays behind is in the log;
* `DialBudget`, `OperationEnds`: an operation dials so often and ends;
* `NearerTheEnd`: why it ends: no command is run again but that of the loop over
  the products, which has one fewer to visit, and dialling is counted;
* `ImplementsSteps`: each operation is the step of `SshSteps` that `Driver`'s
  `Configure` and `DeregisterOS` take it for.

### DeviceSpec

`cfg` is what the customer wrote, a JSON text being the records it decodes to
(or `"broken"`), a pointer a set of at most one element. A count may be any
integer, as nothing checks it; below 1 the service may refuse it, or build the
machine without that resource. The steps are those of
`Create` that depend on it: the client is made (`NewFabricManagerClient`), the
specification checked and sent (`Sent` is `MarshalJSON`), the machine built by the
service (external), the boot disk looked for by `getSsdId` in an answer listed in
any order, the image installed, the addresses read, the labels made. `Unbuild`
is somebody else removing the machine meanwhile. A nil pointer that is read
ends in `"panic"`.

* `BootDiskIsSuitable`: the system goes on a storage asked for with the very
  conditions of one that is tagged;
* `BootDiskIsFound`: it is found again, in every call, if every storage has a
  spec and one with the conditions looked for is asked for at least once; the
  two panics of the search need one without a spec, or a machine gone, and a
  tagged storage without a count alone gives a machine that has no boot disk;
* `AddressesOfTheirNetworks`;
* `LabelsAgree`: no smallest size is above the largest, and there is one label of
  each kind for a model unless two GPU resources name the same model, by one or
  two of its names: then the code does write labels that contradict each other.

### Http

`doRequest` (`ClientStep`), over `net/http`'s default client, the network and
the service (`NetworkStep`): kept connections that turn out to be closed,
requests tried again by the transport (any if nothing was written, only a GET
otherwise), redirects followed up to a limit, statuses, bodies cut short or not
decodable.

* `NilMeansCarriedOut`, `AtMostOnce`: the first two outcomes of `FabricManager`
  are sound: nil means done, and an error leaves the request done at most once;
* `CallEnds`: on a network that answers or breaks. The client has no timeout, so
  nothing of the kind can be said of one that does neither;
* `NearerTheEnd`: why: a request goes out again only at the cost of a redirect or
  of a kept connection.

`moved` keeps the exceptions to the first: a 3xx status is below the 400
`doRequest` tests for, and `net/http` turns a redirected POST into a GET. The
Fabric Manager is not known to answer so, and `FabricManager` leaves it out.

### Config

A setting is what remains of a text without its white space, and whether there
was any (`Value`); `d` are the driver's fields, `saved` libmachine's copy.
`SetConfigFromFlags` is in three steps, as the code is: the fields before
`initClients`, the clients and the fields after them with the first part of
`checkConfig`, and the tenant's validation with the rest. `ProcessStart` is
`UnmarshalJSON`: the saved fields, but for what the process's environment names.
Flags that are handled alike are one (`"image"` stands for the compute conditions
and the provision network too); NTP, DNS and baremetal settings, which no check
looks at, are left out. `Create` and `Request` are the calls of `Driver` as far
as they make clients and name the tenant.

* `AcceptedIsComplete`: what is accepted, and every later process's version of
  it, has what the checks look for;
* `HostKeySurvives`: the host key is parsed again wherever it is needed, and is
  the customer's;
* `TenantIsKept`: requests about a machine name its tenant as long as no
  environment has named another, or the same with white space (`moved`);
* `CredentialsAreCurrent`: rotated credentials reach the clients.

## 3. Runs

| run | instance | what it shows |
|---|---|---|
| `driver` | `PolledDriver`, one machine, all calls, all failures | the promises above of the driver that polls, and the refinements `ImplementsDriver` and `ImplementsLifecycle` |
| `driver_two` | two machines (symmetric), Create and Remove, successive configurations, no registration code; `RepeatDelete` off | the inductive invariant `IInv`, with a machine left behind by an earlier configuration |
| `driver_removal` | one machine, `FairSpec` | `RemovalCompletes`, and `NoStepTwice` |
| `driver_nopanic` | as `driver` | finding: Stop in a fresh process uses a Keycloak client nobody made |
| `driver_clients` | as `driver` | finding: after a failed initialisation the next one reports success without having authenticated or authorised |
| `status_wait` | 15 seconds in steps of 5, requests up to 2 seconds | the promises of `StatusWait`, and that it implements `Wait` |
| `keycloak` | four grants | the promises of `Keycloak`, and that it implements `TokenSteps` |
| `ssh_manager` | a base product and two modules, three dials | the promises of `SshManager`, and that it implements `SshSteps` |
| `ssh_reboot` | the same | finding: nil from the reboot command for cloud-init that did nothing |
| `device_spec` | up to three disks or two GPUs | the promises of `DeviceSpec` |
| `http` | three redirects, two kept connections | the promises of `Http` |
| `config` | flags with at most two odd settings, five environments, two tenants | the promises of `Config` |

Bounds. `driver` is complete for one machine: nothing is bounded but the number
of machines, which a configuration can name one of. The second machine of
`driver_two` is there for what a configuration leaves behind; the calls other
than Create and Remove are cut there by `BuildAndRemove`, the registration by
`Licensed`, and both are covered by `driver` and by the proofs.

`status_wait` takes the constants of `Stop` and `Remove`: three steps fit in the
timeout, so polls before, at and after it occur, with a status that changes at
any second of any request. Four grants (`MaxGrants`) allow a login, a refresh
that is rotated away, a refresh with half an answer and the login after it; a
service that has granted four refuses. Both models are proved for all values.

`ssh_manager` has three products so that `RegisterOS` meets one that the base
registration brought along, one to visit first and one left when that fails;
with `MaxAttempts` 2 the loop runs out after three dials, as it does after 21
with the code's 20. `SshManagerProofs` is about any of both.

`device_spec`: three disks with conditions out of three lists let an untagged
disk with the same, with other and without conditions stand before, between and
after tagged ones; `res_num` is from -1 to 2 for the one disk and from 0 to 2
for each of two; two GPUs with counts from -1 to 2 meet every comparison of the
counts, and name one model by both names. `http`: the limit of redirects is 3
instead of 9, two connections are what `net/http` keeps. `config`: two odd flags
let one check hide another; five environments are nothing, everything the same,
a rotated password, a tenant with white space, and another tenant. All three
modules are proved for any values.

Deadlock is checked but in the runs that stop by design: `http` and
`status_wait` (one call), and `config` (a configuration that was rejected is not
used again).

Fairness (`RemoveFairness`). The service finishes what it began and begins what
it accepted (weak); the driver takes its steps (weak; a poll that changes
nothing is not a step, so this says that a wait ends, as its timeout makes it);
a panic ends the process; Rancher repeats `Remove` and, of a step of `Remove`
repeated for ever, some attempt succeeds (strong). The last is an assumption on
the network and the services, not on the code; without it nothing can be
removed. It also takes `RepeatDelete`: were the service to refuse a `DELETE` of
a machine already unbuilt, `Remove` would fail for ever after a wait of its 15
seconds had run out.

`SshManager.FairSpec` takes its steps (weak): every command is answered, with an
error if need be, as TCP and libmachine's client make it (a remote command that
hangs on a live connection is outside of it, and would block the operation); nothing is assumed of
the machine, which may stay down. `Http.FairSpec` is weak fairness of `doRequest`
and of the network together with the service: a request is answered or its
connection breaks. The code has no timeout that would guarantee it.

## 4. Proofs

`DriverProofs` proves, for every set of machines and both values of the other
constants, `Spec => []IInv`, and from it each of the safety promises above. The
promises are not inductive as they stand; `IInv` adds what they rest on:

* `Control`: which calls pass through which steps;
* `Clients`: a step that uses a client has both, but in Stop;
* `Identity`: UUID, address, SSH manager and saved copy are of one machine;
* `NoOrderWhenGone`: a machine on its way out takes no orders, so that
  `UNBUILDED` is final;
* `Installation`: at each step of Create, whether the installation is pending,
  in progress or done;
* `Configured`: the marks of the SSH steps done so far;
* `Untouched`: a machine is as it was built until its system is installed, and an
  order to install is outstanding at a machine that is off only;
* `Departure`: at the DELETE the machine is deregistered or warned about;
* `PoweringOff`: what is outstanding during the wait of Stop.

Each part has one lemma for its preservation, with one step per action or group
of actions; `ServiceEffect`, `IdentifiersKept` and `MarksKept` say once what
any step does to the service, the identifiers and the machines' systems. The
proofs assume only that `NoMachine` is not a machine and that the two flags are
Boolean. `PromisesFollow` has all promises from `IInv`, in one state.

`StatusWaitProofs` proves the promises of `StatusWait` for every step,
timeout and latency from `IInv`: the question in hand is due no later than a
step after the timeout and waits no longer than a request (`OnTime`), a decisive
status is younger than the answer before (`Young`), what was read is no older
than the question (`Answered`), and every question but the first follows a sleep
that began in time (`Counted`). `Refinement` shows that each step of the loop is
a step of `Wait` or none. They assume that the step is a positive number and the
other two are natural ones (`TimingAssumption`).

`DriverProofs!Refinement`: from `IInv`, each step of `Driver` is a step of
`NodeLifecycle` or leaves its variables alone, for every set of machines.
`CallsGetOn` proves `NoStepTwice`.

`PolledDriverProofs` proves `ImplementsDriver` for every set of machines. A poll
that finds the status waited for is `Driver`'s wait, at the moment the service
reads it (`WaitEnds`, `PollReadMaps`); the loop's look at that answer is then no
step, and at any other one none or the wait's failing (`PollAnswerMaps`). No
other step of the driver is taken while a poll is on its way, so it is the same
step in both (`DriverStepMaps`); the service and the death of the process may
come in between, and do not look at `pc` (`MeanwhileMaps`). The proof needs that
polls are made in waits only (`PolledControl`) and `IInv` of the mapped driver,
which is inductive by `DriverProofs` itself: `Unpolled` instantiates its lemmas.

What `Driver` proves of itself holds of `PolledDriver` without the mapping too.
A poll's answer is looked at with `read' = "none"`, so after every such step
the two drivers are at the same place (`SamePlace`), and there the mapped
driver's invariant is `IInv` (`SameInv`): a machine that has changed its status
since the service read it leaves `IInv` true because the mapped driver, which
went on at the reading, has been living with that change all along. No other
step of `PolledDriver` is new. So `PolledSpec => []IInv` (`PolledInvariance`),
from which follow the promises (`PromisesKept`) and, step by step,
`ImplementsLifecycle` (`PolledRefinement`): the look at an answer changes at
most what the node is busy with (`PollAnswerLifecycle`).

`KeycloakProofs` proves the promises of `Keycloak` for every `MaxGrants`; `IInv`
adds that nothing held is younger than the last grant, that between the two
requests of a login the pair is whole (`Login`), and that a new client is logged
in at once and admitted only with its tokens (`Phases`). `ClientRefines` shows
that each of its steps is one of `TokenSteps` or none: it takes that a refresh
is only ever granted to a client that holds an access token as well
(`RefreshedHadTokens`), so that no step both brings the first token and hands it
out.

`SshManagerProofs` proves the promises of `SshManager` for any products and any
number of attempts, and that it implements `SshSteps`. `IInv` adds which
commands belong to which operation, what the commands before have done
(`Progress`), that the meta-data is written once and cloud-init restarted only
when it is whole (`Seeding`), that the key is on the machine before sshd asks for one
(`KeyFirst`), what can have failed so far (`Failures`) and how many dials there
can have been (`Dialled`).

`DeviceSpecProofs` proves the promises of `DeviceSpec` for any devices, counts,
lists and networks (`Excused` gathers the cases `BootDiskIsFound` leaves out), and `TaggedIfDistinct`: where the comment on tags does hold,
namely when no two storages have the same conditions. `HttpProofs` proves the
safety promises of `Http` for any number of redirects and connections; `IInv`
adds that a request other than a GET goes out again only if none of it was
carried out.

`ConfigProofs` proves the promises of `Config` for any flags, environments and
tenants. `IInv` adds what a checked configuration keeps across processes
(`Kept`), that no client or parsed key is there before it is needed (`Lazy`),
that `SetConfigFromFlags` overwrites what the environment named before clients
are made (`Control`), and that the saved tenant is the machine's (`OwnTenant`).
`TextsAssumption` says that the texts the code names are among those settings
may have.

`NearerTheEnd` of `Http` and of `SshManager` (`EachStepCounts`,
`OperationsGetOn`) and `NoStepTwice` are as much of termination as can be
proved here: the steps of a call, an operation or a request are taken in an
order in which there are finitely many. That they are taken is the fairness of
the runs. The two `NearerTheEnd`, `TokensAdvance`, `NoReinstall` and
`OneMachine` are proved and no run keeps checking them; nor the inductive
invariants of `StatusWait`, `Keycloak` and `Http`.

A request is taken to reach the service, or not, before its caller sees an answer
or an error: an order that arrives after its error was reported is in no module.

Only model-checked: the liveness properties `RemovalCompletes`, `OperationEnds`
and `CallEnds`, as liveness under fairness is out of the prover's reach, and the
findings, which are counterexamples. A theorem of an instanced module that is
temporal cannot be cited, so what `DriverProofs` proves of `Spec` is used in
`PolledDriverProofs` through its lemmas about single steps.

## 5. Findings

| run | what the code does |
|---|---|
| `driver_nopanic` | `Stop` in a process restored from JSON calls a Keycloak client nobody made (`fsas.go:974`) |
| `driver_clients` | after a failed initialisation of the Keycloak client the next call skips login and authorisation (`fsas.go:420`) |
| `ssh_reboot` | a connection cut off before the reboot command for cloud-init has done anything is taken for the reboot: nil, and Create reports a node that cloud-init was not restarted on (`sshutils.go:258`) |

Other places where code and text differ, which the models follow the code in and
no run is kept for:

* the check of the provision port compares with -1 (`fsas.go:500`) what is 0
  when nobody gave it, and so does not "verify if mandatory flags are set"
  (`fsas.go:487`): `Config` accepts such a configuration as the code does, and
  `AcceptedIsComplete` leaves the port out;
* `ExecuteScript` makes the directories of a script path it was given
  (`sshutils.go:408`), which its comment denies (`sshutils.go:390`);
* `applyCloudInit` sleeps after the reboot (`fsas.go:703`) where its comment
  waits for the Running state (`fsas.go:701`);
* an untagged disk with the conditions of the tagged one may get the system
  (`fm.go:352`), whereas the comment on tags says that they determine it
  (`models.go:95`); `TaggedIfDistinct` says when the comment is true;
* `UnmarshalJSON` takes settings from the environment untrimmed (`fsas.go:277`),
  which `SetConfigFromFlags` trims (`fsas_test.go:112`).

What the code does and a property states as its exception, rather than deny it:
a machine whose UUID was lost (`lost`, `stray`), a redirected request (`moved` of
`Http`: `NilMeansCarriedOut` says nothing of it), another tenant in the environment
(`moved` of `Config`), two GPU resources for one model (`LabelsAgree`), a storage
without a count or a spec (`BootDiskIsFound`). These are hazards that no property
excludes; `PROJECT.json` lists them.

## 6. Not modelled

* Logging and censoring (`logger/`), which no other part reads; the text of
  scripts and metadata but for the GPU labels; URL and header construction; the
  RPC plugin entry (`main.go`); build scripts, generated mocks and tests.
* Conversions that change no state: `mapMachineStatusToState`, `GetURL`, `GetIP`.
* Time outside `waitForStatus`: the sleeps between dials and after the reboot
  only let the machine move on.
* libmachine's SSH client and its own dials; the Fabric Manager and Keycloak
  services beyond what the driver can see of them.
* A token without `exp` (`keycloak.go:182`): the service's promise.
* Two drivers in one process. libmachine runs a plugin process for each host, so
  the package variables `isInit` and `publicKeyIsValid` are taken for the
  driver's own.

## 7. Plan

All modules of the plan are written. What could follow:

1. the composition of `Driver` and `Config` in which `CheckConfig`'s choice is
   replaced by `Config`'s checks, to see the findings of the one in the other;
2. orders that reach the service after the caller has seen an error, and
   `Driver` with `Http`'s redirects among the outcomes, if the service should
   turn out to redirect;
3. `DeviceSpec` with the answers of a service that rewrites conditions, once its
   documentation says whether it does.
