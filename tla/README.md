# TLA+ models of meta-qcom

`meta-qcom` is an OpenEmbedded layer: recipes, machine configurations and classes
that build images for Qualcomm boards, the GitHub workflows that build and test
them, and patches to the programs that run on the boards. Most of the repository
is data (versions, checksums, feature lists). The logic that is the layer's own
sits in a few classes, scripts, workflows and patches; this directory holds TLA+
modules for those, TLC configurations that check them on small instances, and
proofs that TLAPS checks for every instance.

Paths below are relative to the repository; `tla/` is this directory.

## 1. Inventory

| Part | Source | State it keeps | Operations | What is hard about it | Modelled |
| --- | --- | --- | --- | --- | --- |
| FIT image generator | `classes-recipe/dtb-fit-image.bbclass`, `lib/qcom/dtb_only_fitimage.py` | tables of base blobs, overlay groups and compatible strings; image and configuration nodes | parse a flag, emit a blob, emit configurations, run mkimage | two loops over data in no fixed order; a key computed twice, in two files; failure half-way | `FitImage`, `FitContract` |
| FIT selftest | `lib/oeqa/selftest/cases/qcom_fitimage.py` | parser stack and dictionaries; class attributes used as caches; the deploy directory | parse an ITS, copy the task, twelve unit tests, four integration tests, four matrix tests | a second copy of the task; caches filled by calls that may fail, in an order the runner picks; text matched as substrings | `ItsTree`, `ItsText`, `FitReplica`, `FitSelftest`, `FitIntegration`, `KernelMatrix` |
| Nightly build | `.github/workflows/build-yocto.yml`, `nightly-build.yml`, `compile.yml` | job results, lock file, cache markers | ten jobs and two callers', each with `needs:` and `if:` | overlapping runs, cancellation, re-runs, a cached decision, eviction | `NightlyBuild` |
| Pull requests | `pr.yml`, `test-pr.yml`, `test-pr-wrynose.yml`, the concurrency group of `build-yocto.yml` | build and test runs, comments | push, re-run, `workflow_run` events, comment | events of superseded commits, late and in any order; two workflows hear of each build | `PrPipeline` |
| Test submission | `test.yml`, `test-distro.yml`, `lava-test-plans`, `test-job-summary`, `print-build-output` | job results, artifacts shared by the calls | render, submit, gate, submit, summarise, comment | `continue-on-error`, empty matrices, lost runners, missing builds, artifact names that begin alike | `TestRun`, `TestContract` |
| Schema checker | `ci/schemacheck.py` | a count | check each file, exit | a count as exit status; exceptions that end the walk | `SchemaCheck` |
| Scheduled maintenance | `monthly.yml`, `backport.yml`, `stales.yml` | shared sstate directories by month | remove old ones | removal under running builds; whole days, uneven months | `SstateCleanup` (`monthly.yml`) |
| UEFI capsule | `classes-recipe/qcom-capsule.bbclass` | staged binaries, a marker file, FvUpdate.xml in B, stamps | generate XML, patch the certificate, compile, deploy | tasks run again over what an earlier run left; statuses lost in a pipe | `Capsule` |
| TEE persist partition | `recipes-bsp/partition/mount-tee-partition/` | the file system, one service, one mount | probe, mkfs, fsck, mount | power cuts; udev, systemd and people starting units in any order | `TeePartition` |
| ModemManager SMS storage | `dynamic-layers/openembedded-layer/recipes-connectivity/modemmanager/files/` (0001-iface..., 0004-whitespace..., 0006, 0008, 0009) | `smsdb.json`, indexes in memory, the modem's route | store, delete, load, get and set the default storage | one write per part of a message, failing writes, restarts between any two steps | `SmsStore` |
| Display start-up | `recipes-graphics/wayland/weston-init/weston-start.sh` | lists of cards | glob, look, sort, start | cards and connectors appear while it looks | `WestonStart` |
| Image packaging | `classes-recipe/image_types_qcom.bbclass`, `classes/linux-qcom-bootimg.bbclass`, `linux-qcom-dtbbin.bbclass` | a staging directory | copy and name files | combinations of variables | no (section 8) |
| Rest | recipes, machine files, declarative classes, other start-up scripts, lint workflows, CI wrappers, patches to gpsd, Weston, GStreamer, systemd, the modem's data path | none of their own here | - | - | no (section 8) |

How the parts meet:

* The recipes feed `KERNEL_DEVICETREE` and `FIT_DTB_COMPATIBLE` to the FIT generator
  as two variables maintained apart, and the boot firmware reads its result.
  The selftest runs a copy of the generator (`FitReplica`), the generator itself
  through BitBake (`FitIntegration`), and holds the two variables against the
  kernel sources (`KernelMatrix`). `FitReplica`, `FitSelftest` and `FitIntegration`
  extend `FitImage` and use its variables.
* The workflows build all images and hand them to the test pipelines through
  artifacts and outputs only. The end of a build starts the test workflows, which
  call `test.yml`, which calls `test-distro.yml` once per distribution.
  `PrPipeline` takes a test run by what `TestContract` promises, and `TestRun` is shown
  to implement that promise.
* The partition's udev rule, mount unit, service and script work on one block device
  and know each other by unit dependencies. The SMS patches share one JSON file
  and one modem between the enabling sequence of ModemManager and the requests of
  its users.
* Builds of all workflows share the sstate directories that the monthly job cleans.

The remaining parts share no state with each other.

What each part must guarantee:

* FIT: the image has exactly the configurations the metadata declares, each
  once, and all blobs they name; or there is no image.
* FIT selftest: what a test says of the layer is so, whichever tests and commands
  ran or failed before it.
* Nightly: a marker in the cache stands for a complete build of those inputs;
  what is skipped is covered; what is tested is complete; every run ends.
* Pull requests: every successful build is tested and reported once, under its
  own commit, and pushes never cancel a newer build.
* Test submission: pre-merge tests follow green boots; a summary is taken when no job
  of its call is to come, and has every one that left its details; the comment has
  the summaries of all calls or is not posted; every run ends.
* Schema checker: status 0 means that all files were checked and, short of as many as
  there are statuses, none is bad.
* Maintenance: no directory in use is removed, and no third month is kept.
* Capsule: marker, certificate in the binary, capsule and deployed file belong
  to one configuration.
* Partition: never formatted or checked while mounted, never mounted unchecked,
  never formatted once it holds something, and mounted in the end.
* SMS: indexes go to one message only, stored messages stay stored, the list and
  the chosen storage agree with the file after any restart.
* Display: the primary card does not depend on the order of probing.

`PROJECT.json` lists the places in the code where each of these is at risk
(`hazards`) with the property that watches it.

## 2. Modules

| Module | What it is |
| --- | --- |
| `FitContract` | what the FIT task promises: one step from "pending" to "failed" or to the declared configurations |
| `FitImage` | the task itself, one action per loop iteration; refines `FitContract` |
| `MCFitImage` | four stems, one with a comma; four blobs; three compatible strings; seven values a flag may have |
| `ItsTree` | the tree an ITS file writes, how values look in its text and what is read from it |
| `ItsText` | `_parse_its_file`, line by line |
| `FitReplica` | `_build_qcom_fitimage`, the copy of the task; extends `FitImage` and refines it |
| `FitSelftest` | the twelve unit tests, on the copy or on the task; extends `FitReplica` |
| `FitIntegration` | the four integration tests with the task they build; extends `FitImage` |
| `KernelMatrix` | the tests of the metadata against the kernel sources, with their caches |
| `NightlyBuild`, `MCNightlyBuild` | the job graph of a run, its concurrency group, the marker cache; symmetry of runs, warm-up legs and revisions |
| `PrPipeline` | builds of one pull request, the test runs they start, the comments |
| `TestContract` | what a test run promises to the workflow that called it |
| `TestRun` | `test.yml` and its calls of `test-distro.yml`; refines `TestContract` |
| `SchemaCheck` | `schemacheck.py` |
| `SstateCleanup` | monthly removal against builds, by day |
| `Capsule` | builds of a capsule recipe in one work directory |
| `TeePartition` | udev, systemd, script, power |
| `SmsStore`, `MCSmsStore` | `smsdb.json`, ModemManager's list and the modem's route; a message of one part and one of two |
| `WestonStart` | the script against the probing of cards |
| `MCBuild`, `MCBoard`, `MCWorkflows`, `MCSelftest` | the parts of the build, of the board, of the workflows and of the selftest, each checked in one run |
| `FitImageProofs` | theorems of `FitImage` and `FitReplica` |
| `FitIntegrationProofs` | the theorem of `FitIntegration`; extends `FitImageProofs` |
| `NightlyBuildProofs`, `SmsStoreProofs` | theorems of the module they are named after |
| `BuildProofs` | theorems of `Capsule`, `SstateCleanup` and of the parts in `MCBuild` |
| `BoardProofs` | theorems of `TeePartition`, `WestonStart` and of the parts in `MCBoard` |
| `WorkflowProofs` | theorems of `PrPipeline`, `TestRun`, `SchemaCheck` and of the parts in `MCWorkflows` |
| `SelftestProofs` | theorems of `ItsText`, `KernelMatrix` and of the classes in `MCSelftest` |

The four `MC` modules of several parts check several parts in one run. Parts that share no
state need not be interleaved: a step of one neither enables nor disables nor
changes anything of another. So a behaviour belongs to the part named by the
variable `part`, and the others rest in one initial state; no property relates
variables of two parts, so nothing is lost, and the states add up instead
of multiplying. `BuildParts`, `BoardParts` and `WorkflowParts` (section 5) prove that
a behaviour of such a model is one of each of its parts. `MCSelftest` extends the
integration tests, the parser and the matrix tests and takes the unit tests as an
instance with inputs of their own; unit and integration tests share the variables of
`FitImage`. `MCBuild` runs the copy of the FIT task next to the task itself.

`M_...` operators are deliberately wrong versions of the definition below them,
each a slip a maintainer could make. They are used by no specification; replacing
the definition by its mutant makes TLC report the property listed with it in
`PROJECT.json` (`mutants`), which shows that the property depends on that code.

### FitImage

A blob is a pair of stem and extension, `Encode` replaces commas by underscores
(`MCFitImage` has the pair `lvdsComma`, `lvds`, after the real overlay
`talos-evk-lvds-auo,g133han01.dtbo`). `files`, `present` and `flags` are chosen
once: which blobs the machine lists, which of them exist, what each compatible
string maps to. `ParseFlag` is one iteration over the flags with its two
`continue`s, `EmitDtb` one over `files_set` with `bb.fatal`; `cursor` is the
position in the three nested loops of `fitimage_emit_section_qcomconfig`, and
`SkipNode`, `EmitConfig` and `NextGroup` are the ways it moves. `files_set` is a
Python set, so `EmitDtb` takes any element next; flags come in an order the
metadata parser settles, so `ParseFlag` takes any as well. `Assemble` is
`write_its_file` and `mkimage`, which may fail for any reason and does fail on
two nodes with one name.

### ItsTree and ItsText

A tree has two sections of nodes, a node a list of properties, a value is a
string, a list of strings or raw text. `Written` and `Reread` are what the writer
of OE-Core and the parser make of a value: a list of one entry comes back as a
string. `ItsText` has the text as a position `at` in the tree (section, node, line)
from which `Line` gives the next line, so that no text is built; `OpenNode`,
`CloseNode`, `ReadProp` and `SkipLine` are the branches of the parser's loop, with its stack
`path` and the dictionary `props` that is reset when a node at depth 3 opens.
`FitReplica` and `FitIntegration` use the result, `Reading`, as a function; that the
parser computes it is what `ParsedIsTree` says.

### FitReplica and FitSelftest

`FitReplica` has the variables of `FitImage`, plus the arguments of the call
(`listing`, sorted, and `dict`, in the order of the dictionary) and the `parsed`
result. `ReplicaEntry` and `ReplicaEmit` are the two copied loops, in their fixed orders;
`fitimage_emit_section_qcomconfig` is the same code, hence the same actions. Being
"parsed" stands for the task at `assemble`, and under this mapping (`Bbclass`) every
step of the copy is one of `FitImage`. `CopyFaithful` is that, and that what the assertions
get to see is what the flags declare (`ParsedAsDeclared`).

`FitSelftest` has the twelve calls with the blobs and flags of the source and the
assertions of each test as an operator of the test's name. `builder` is "copy", as the
tests run it, or "task": the loops of `FitImage` in every order on the same
arguments. A test that passed on the copy only because it sorts would fail there.

### FitIntegration

The four tests of `QcomFitImageIntegrationTests` in any order, each once.
`StartTest` reads the BitBake variables, kept if that works (`varsRead`); `BuildStep` is the
task, which runs only until it has succeeded once, and `BuildFailed` starts it
over for the next test; `GetMetadataNodes` keeps the names of `qcom-metadata.dtb`
if dtc could be built and run; `Judge` evaluates the assertions. `Deserved` says, from
the two variables of the metadata alone and through `Contract!Promise`, what each
test should say. Where no node can be read from the metadata, the validation fails
whatever the configurations are (line 788), and `Deserved` has that condition too.

### KernelMatrix

`layer` is the content of the layer and of the kernels, chosen once. The tests run
in any order; `Probe`, `FindMachine` and `FetchOutputs` fill the three caches by calls
to BitBake, any of which may fail for a reason of its own (`Fail`, bounded by
`MaxFaults`): `show-recipes` ignores the status, `_provider_machine` takes a failure
for a machine that does not fit and remembers `None`, unpacking fails the test and
remembers nothing. The machine `FindMachine` remembers is the first of the list that
works. `CheckMachine` is one machine of the matrix test. Parsing of
machine and include files is abstracted to what it yields.

### NightlyBuild

`st[r][<<job, leg>>]` is the result of each job of run `r`, "waiting" until it has
one; the constants give the matrix legs. `Needs` and `Condition` are the `needs:`
and `if:` of the workflow, where a condition without a status function implies
`success()`. A job is a single step: its inputs are outputs and artifacts of
finished jobs and do not change while it runs. `Enter`, `Activate` and
`Cancelled` are the concurrency group with `cancel-in-progress: true`: one active
run per revision, the newest wins, and `publish_summary` (`always()`) still runs
in a started run. `Rerun` is "Re-run failed jobs". How GitHub schedules, cancels
and re-runs is modelled from what the workflows rely on and marked external in
the map. The organisation check (`github.repository_owner`) is taken to hold.

### PrPipeline

`build[c]` is the "Build on PR" run of commit `c`; `EnterBuild` puts it into the
concurrency group `pr-<number>` and cancels what is there, on a `Push` as on a
`RerunBuild`. `EndBuild` starts a test run in both workflows (`Heard`), each of which
reads the target branch from the event file of the build and goes on only for its
own (`Determine`); `Report` posts the comment. `begun` and `ended` count ended
builds: they date each build for `StaleBuiltFirst`.

### TestRun and TestContract

Per call of `test-distro.yml`: `job` holds the jobs that run once, `boot` and `pre` the
legs of the two matrices, `output` the record of a boot leg that the gate reads,
`details` the legs whose LAVA job left its details, `summary` the rows of the published
summary. `Submitted` is a matrix job under
`continue-on-error`: a success whatever its legs do, a failure if its matrix is
empty. `Rendered` is what `lava-test-plans` leaves: only boards with a `BUILD_URL`, and
any part of the files, since the renderer's status is ignored. Two legs of one
board (`Matrix` has the legs of a job) write the same record, and a leg that is lost, with
its runner or because the record could not be written, writes none. `LegEnds` is
`lava-action`: a LAVA job that passed has left its details, and one that failed may have;
it has not if its templates were not there or it was never submitted. These files are
the rows of the summary (`Rows`); of its two tables that is the one of all jobs, while the
results in the other are asked of LAVA at that time. `Recorded`
is the download by pattern, which also finds the records of calls whose names
begin with the same text (`Reads`). `CollectIds`, which may fail like any job, and `Comment`
are the caller. `TestContract`
has one step: over, with all summaries posted or none.

### SchemaCheck

`os.walk` yields the files it can list in any order; `Check` is one of them with the
two exceptions that are caught, any other ends the run with status 1. The process
keeps `exitcode` modulo `Statuses`.

### SstateCleanup

Time goes by in days. A build computes its directory once and may add entries to its
top (`AddEntry`, the only thing that renews `ctime`) until it ends, `MaxDays` later at
most. `Find` is the command substitution of `monthly.yml` on the fifth, where
`-ctime +30` counts whole days and may be one short; `Remove` is the `rm` that follows,
directory by directory, while builds start and end.

### Capsule

One work directory through several runs of BitBake. `Reconfigure` changes
`CAPSULE_ROOT_CER`, `CAPSULE_ENTRIES` and what the recipe provides, and drops the
stamps; `Build` goes on with the first task that has none. `GenerateFvUpdate`, the
steps of `do_compile` (`Stage`, which empties `CAPSULE_DIR`, `Dump`, `SetDtbProperty`, `NoDtb`,
`Move`, `Mark`, `Create`) and `Deploy` are the tasks; `Fail` ends any step. `Dump` may leave any
log and file, as its status is lost in a pipe. `xmlInB` survives from run to run and
may be torn.

### TeePartition

`type` and `status` are what `blkid` and `e2fsck -n` would report; `stored` counts what an
application has put there and `intact` what is still readable. `job` is the
mount unit's queued job, `svc` the service: inactive, in one of the script's three
stages, active or failed. `DeviceAdd` is the udev rule, `StartService` the unit with
its two conditions, `Probe`, `Mkfs` and `Fsck` the script, `Mount` the mount unit
with `Requires=` and `After=`. `PowerCut` may come anywhere and leaves a mounted
file system clean, dirty or damaged, and an unfinished one in mkfs.

### SmsStore

`db` is the file: does it exist, default storage, last index, entries. Each
`mm_sms_storage_*` function reads it, changes one thing and writes it back in one
call that blocks the daemon, so each is one action. `sms_store_next_part` and
`delete_next_part` take one such call per part; `op` is the request they are in,
and `Restart` may come between any two. Start-up is a chain of phases: ask the
modem for its routes, settle the default, set the routes, load the list.
`SetDefault` sends the request and `SetDefaultReady` is the modem's answer.
`Fault` is a failing read or write or a refused request. `kept` and `asked` are
history: what the user was told is stored, and which default storages he may
expect. Indexes are 32 bit in the code, 1 to `MaxRef` here: an overflow takes four
billion stored messages and is left out.

Undefined behaviour: `wms_get_routes_ready` (0008) passes an error it has freed to
the next call, and if that fails too it may do anything; the model lets it go on
or crash.

### WestonStart

`ProbeCard` and `AddConnectors` are the kernel, in any order, before and during the
script. `Glob` expands the links once, `Look` takes one at a time and keeps a card that has
a connector by then, `StartWeston` sorts by address: `Line` is the line a card comes out at.

## 3. Runs and what they show

| Run | Result | States | Shows |
| --- | --- | --- | --- |
| `MCBuild.cfg` | pass | 2,259,645 | FIT: configurations are declared, unique and numbered without gaps, linked as long as a stem keeps one role, and `FitImage` implements `FitContract`; the selftest's copy takes only steps of the task and shows what the flags declare. Capsule: marker, certificate, capsule and deployed file stay together. Sstate: what is used is kept, a third month is not |
| `MCSelftest.cfg` | pass | 1,453,176 | the parser reads back what was written; the unit tests pass in every order of the loops; integration tests say what the metadata deserve; a green matrix can be relied on; caches hold what is so |
| `MCWorkflows.cfg` | pass | 694,684 | pull requests: no build is reported twice, stale results date from before the newer build, pushes cancel no newer build, every successful build gets its test. Tests: pre-merge follows green boots; a published summary is final and has every job that left details; `TestRun` implements `TestContract` and ends. Schema: status 0 means checked, with no bad file or a multiple of the statuses |
| `MCBoard.cfg` | pass | 191,638 | partition: exclusion of script and mount, only checked file systems are mounted, nothing stored is wiped, a blank partition gets mounted. SMS: ownership of indexes, durability, default storage, list and file agree, start-up hangs and crashes only after failed accesses. Display: order of the cards |
| `MCNightlyBuild.cfg` | pass | 236,324 | markers, skips and tests are sound; the hashed inputs never change in later attempts |
| `MCNightlyLive.cfg` | pass | 111,377 | every triggered run ends |
| `MCFitImageLinkage.cfg` | violation | | the linkage the selftest asserts fails when a stem is built as `.dtb` and used as an overlay |
| `MCNightlyChecks.cfg` | violation | | a run with failed layer checks leaves a marker |
| `TeePartitionFsck.cfg` | violation | | `set -e` ends the script before it handles e2fsck's status |
| `MCSmsStoreLoad.cfg` | violation | | loading a part that is there twice dereferences NULL |
| `MCSmsStoreParts.cfg` | violation | | the index goes to the first part, whichever part was stored |
| `MCSmsStoreDelete.cfg` | violation | | a failed Delete forgets the index, the retry leaves the message |

Each passing run also checks the types of its parts.

### Disagreements found

Six, each with its run, the line of the code and the quoted statement in
`PROJECT.json` (`findings`):

1. `dtb-fit-image.bbclass:79` compares stems; the selftest and the comment above
   it promise that no configuration names a missing image.
2. `build-yocto.yml:464`: the marker does not depend on `yocto-run-checks`, while
   the input is described as recording a successful run.
3. `check-tee-partition-fs.sh:20`: the error handling of lines 21 to 27 is dead
   for every nonzero status. As a consequence a partition with errors is never
   recreated (`StoredKept` holds because of it) and stays unmounted.
4. `0004-whitespace-cleanup-fix-error-freeing.patch:92`: `error->message` of a NULL error.
5. `0009-...patch:102`: `parts->data` instead of the part at hand.
6. `0001-iface-...patch:544`: the index is reset after a failed deletion too.

Others came up while modelling. They have no run of their own: the models follow
the code, and each shows up in how a property is worded.

* `test-distro.yml:147` says the gate is true "only if there are no failures"; a leg
  whose runner is lost leaves no record, and of two legs of one board one
  record is kept. `BootGate` excepts lost legs and holds for one boot job per board, as
  the boot plan renders.
* `test-distro.yml:82` and `:207`: under `continue-on-error` a leg whose templates cannot
  be downloaded (:87, :212) or whose LAVA job is not submitted (:103, :222) leaves no file
  of job details. The summary is published all the same, without a row that would show
  it; a failed boot leg at least closes the gate. `SummaryComplete` promises a row
  for each job that left its details, among them all that passed.
* All calls upload their summary under one name, `step-summary.txt`
  (`test-job-summary/action.yml:167`). Whether a second artifact of that name is taken is
  up to the artifact service; in the model `Publish` may fail.
* `schemacheck.py:33`: 256 bad files are reported as status 0. `ZeroMeansValid` says so: the bad
  ones number a multiple of the statuses.
* `lava-test-plans/action.yml:130` says "fail action if BUILD_URL is empty" and goes on
  with the next machine: what is summarised is what was rendered.
* `qcom_fitimage.py:845` promises every pair of machine and provider; only the first
  qcom kernel that resolves is looked at. Line 848 promises a machine for every
  `FIT_DTB_COMPATIBLE` key; line 1165 asks the kernel sources. Line 1085 takes any failed
  call for an unsupported kernel. `PassSound` promises what the code does.
* `qcom-capsule.bbclass:82` says that without `CAPSULE_ENTRIES` a static file is used;
  one that an earlier configuration generated is still in B and goes first.
  `LayoutAsConfigured` is about configurations with entries.
* `qcom-capsule.bbclass:301` says the certificate is injected "when present"; after a
  failed dump (:219) whose log names no DTB the binary stays as it is, without an
  error. `MarkerMeansCert` says that this is at least visible in the marker.

### Bounds, and why they are enough

* FIT: the tables relate flags pairwise (same combination, same base, same
  overlay), so three flags give two that collide and one that does not. The
  stems include a base, an overlay, a blob built in both roles and a comma. One
  missing blob at a time: the task ends at the first.
* Parser: two nodes per section, so that a node follows another, in the same section
  and in the next; each with none, one or two properties of every kind of
  value; equal names and keys among them.
* Copy: the blobs and flags of the task, all 16 listings, and three flags in every order
  of the dictionary.
  Unit tests: the very arguments of the source. Integration: three blobs, two flags,
  every test once, any command may fail each time.
* Matrix: two machines, so that a kernel may fit one or both; two qcom kernels and
  linux-yocto; a base blob, an overlay and an overlay with a comma. One failing call:
  a second one only repeats what the first does to another cache.
* Nightly: two runs overlap in every way two can; a third would only repeat what
  the second does to the first, since a marker is written by one run and read by
  one. Two lock files make keys differ. Two warm-up legs show fail-fast, one
  compile leg stands for a matrix without it. Two attempts; one mishap (failed
  job or cancelled run) at a time, so that an attempt can fail, be repeated and
  fail again. The liveness run drops the second lock file and second leg, neither of
  which decides whether a job gets its turn.
* Pull request: two commits, each built twice, give a newer and an older build in
  every order; two branches, the one of the first event file fixed, since they are
  interchangeable.
* Test run: two calls whose artifact names begin alike (`plain`, `suffixed`), one with
  pre-merge tests, as there are calls without (`nodistro`); two boards, any of which may
  lack a build; one job file per board and plan; one leg that is lost or leaves no details,
  two failed jobs, so that both calls may fail. The calls meet in what `plain` reads of
  `suffixed` and in the caller, for neither of which pre-merge tests of `suffixed` matter.
* Schema: three files of every kind, and as many statuses, so that the count wraps.
* Sstate: January to March has the longest and the shortest month, and 66 days reach
  the third cleaning; builds end at most a day after they began, as GitHub
  ends a job after six hours unless told otherwise, but may pass midnight. The proof has
  any calendar and up to four days.
* Capsule: two certificates, two layouts; two changes bring a configuration back; two
  failures allow one in the run after a failure.
* Partition: three cuts reach mkfs, the mounted state and mkfs again. From the second on
  each cut allowed adds the same 49 states: the counter is all that is new.
* SMS: two messages to mix up, two parts for something between them; four
  indexes allow one message to be stored, lost, and stored again; two faults
  allow a fault in a retry.
* Display: four cards, addresses in another order than the names.

`CHECK_DEADLOCK FALSE` is set where the system really ends: the task is done or
fatal, all runs have finished, the tests are through. `MCBoard` is checked for
deadlock: partition and SMS storage never stop, and of the display only the
state with Weston up and all cards there may (`DisplayUp`).

## 4. Fairness

* `NightlyBuild!FairSpec`: weak fairness of `Progress(r)` for each run. GitHub starts
  every job that is ready, and a job ends because runners have time limits.
  Nothing is assumed about triggers, people or eviction.
* `PrPipeline!Serve`: GitHub starts what is ready, builds and test runs end. Pushes and
  re-runs are up to people and get no fairness.
* `TestRun!TestNext`: all its steps are GitHub's, and both test jobs have
  `timeout-minutes`.
* `TeePartition!TeeFairness`: udev delivers the first add event of a device that is there,
  systemd runs queued jobs, and the three stages of the script end. Nothing
  is assumed about power, further events, or starts by hand.
* The others are checked for safety only. The FIT task, the capsule tasks, the
  selftest and the schema checker are terminating sequences of loops; the SMS storage has a
  state ("hung", 0006 line 30) in which progress indeed ends until the daemon is
  restarted, which `StartsUnlessFaults` restricts to failed accesses; the cleaner may miss a
  month.

## 5. Proofs

TLAPS checks these for every value of the constants; `tlapm <module>` repeats it.
Each inductive invariant was first checked by TLC on the instance of the run.
A proof has one step per action and, where an invariant has several parts, one lemma
per part; what no action of a group touches is settled once by a lemma on the
unchanged variables.

**FitImageProofs** - of the task: `TypeCorrect`; `DeclaredOnly`, every configuration is one
the metadata declares; `UniqueConfigs`, they are numbered without gaps and none shares its compatible string;
`RolesKeepLinks`, the blobs they name are in the image as long as a stem keeps one role;
`Refinement`, `FitImage` implements `FitContract`. Of the copy: `CopyIsFaithful`, it takes only
steps of the task and ends with what the flags declare, for any call (`IsCall`).

* None of the properties is inductive: a configuration is put together from an overlay
  list that one flag left in `overlay_groups` and a compatible string that perhaps another
  left in `overlay_compats`. `IInv` adds what the tables hold: bare compatible strings come from
  usable flags of length one (`BareInv`), overlay lists from some usable flag of that
  base (`GroupInv`), combo keys lead to flags with that key (`ComboInv`), nodes carry
  what the first table had (`NodeInv`), and the cursor stays in range (`CursorInv`).
  Lemma `FdtDeclared` is the heart: two usable flags with the same key declare the
  same blobs, since usable stems are fixed points of `Encode`.
* The refinement needs the other direction too, that nothing declared is missing.
  `FullInv` adds that every usable flag seen so far is in the tables, its overlay list in one
  place (`TablesInv`), that each emitted blob has its node (`EmittedInv`), that the positions
  the cursor has passed left their configuration (`VisitedInv`), and that numbers have no
  gaps (`NumberInv`). The last step of the task then maps to the one step of the
  contract, and every other to a stutter.
* Where a proof by induction over a position would come naturally (the library's theorem
  cannot be instantiated here), it takes the least position that fails: `<` on the
  naturals is well-founded (`LeastNat`).
* `CopyInv` carries `FullInv` through the copy until it has parsed, `ParsedAsDeclared`
  from then on.

**FitIntegrationProofs** - `VerdictsDeserved`: what an integration test says is what the
metadata deserve, for any blobs, flags, encoding and metadata, however often the
task or a command fails. `SuiteInv` carries `FullInv` through every restart of the
task, which begins from the inputs it had (`GivenInv`), and adds that the metadata is
the first node of the image (`FirstInv`) and that what the cache holds was read from
this metadata (`TestsInv`). With these, parsing the deployed image yields what
`Contract!Promise` says (`ReadsImages`, `AssertionsDeserved`), so that each assertion
amounts to its clause of `Deserved`. The lemmas it shares with the refinement are stated in
`FitImageProofs` for any state with `FullInv`.

**NightlyBuildProofs** - `TypeCorrect`, `MarkersStandForBuilds`, `SkipsAreCovered`,
`TestsNeedCompleteBuild` and the action property `InputsAreFrozen`, for any runs, legs,
revisions, lock files, attempts and mishaps. The invariant adds to the four properties what
makes them hold across attempts: a run that has not started has no results (`IdleInv`), a
successful `kas-setup` left a lock file (`LockInv`), a hit comes from a successful cache check
(`HitInv`), a job without a status function in its condition ran after all it needs had
succeeded, and the builds only on a miss (`RanInv`), and a skipped build has a hit or a
bad job before it for a reason (`SkippedInv`).

`NeverStuck` and `ProgressIsMade` are what `RunsFinish` says apart from fairness. While a
triggered run has jobs to come, some run has its turn in its group or a job that is ready
(`Due`): the job graph has no cycle (`SomeJobReady`), and a run waits only for an active one.
And every step of `Progress` takes a run from pending to active or puts an end to jobs that
were waiting, with no result undone (`Closer`). Only a re-run opens jobs again, and
that is a step of a person.

**SmsStoreProofs** - `TypeCorrect`, `IndexesOwned`, `NothingLost`, `DefaultsPersist`, `AllListed`
and `StartsSafely`, for any messages, parts, number of faults and bound on the indexes.
`IInv` adds that indexes in memory are at most the file's counter (`IdxInv`), so the next
is fresh, and that a Store at part p has parts 1 to p-1 in the file while a Delete is not
about a kept message (`OpInv`). `CalmInv` is about what holds until the first failed
access: a request works on a message in the state it expects, and a change of the default
has its route set already (`PendingInv`); file, modem and memory name storages that were
asked for (`StorageInv`); each part is in the file once, and those of a new message only up to
the part being stored (`OnceInv`).

**WorkflowProofs** - of the pull request: `NewestBuilt`, `CommentsNeverMislead` and `PrTypes`, for
any commits and attempts.
`HeadBuilt` is not inductive: that a commit below the head has been built before it is
run again (`PushedInv`) makes every re-run a second attempt. For the comments, `ReportInv` has
that what test runs hear of are attempts that ended (`RunsInv`), each of them once
(`OnceInv`); that a commit no longer the head is not in its first attempt (`OvertakenInv`), so
that a first attempt ended before the build of a newer commit began (`OrderInv`); that there is
one test run per build and branch, and a comment only for a reported one (`TestsInv`,
`CommentsInv`). The types bound the number of ends by that of attempts, a
product, which takes a count: as many builds have ended as there are attempts that are through
(`CountedInv`), since an attempt ends once, and those are some of the pairs of a commit and a
number up to `PrAttempts` (`EndsBounded`).

Of the test run: `TestRunTypes`, `SummariesComplete`, `TestRefinement`
(`TestRun` implements `TestContract`), and `GateHolds` under the condition that
the boot plan renders one job per board, as it does in the layer: without it the gate does not
hold (section 3). `TestInv` ties the matrix legs to the job that prepares them (`LegsInv`) and, if they passed, to
their details (`DetailsInv`), which only a leg that was queued adds to (`DetailsMove`); it gives each job
that ran or was skipped its reason (`JobsInv`) and has the caller wait for its calls
(`CallerInv`); `RecordedInv` adds that the record of a board is the result of its leg (`RecordInv`)
and that the gate was set by the job that succeeded (`GateInv`). `TestRunNeverStuck` and
`TestRunAdvances` are what `TestRunEnds` says apart from fairness: until the comment some step
is due, whatever was skipped, failed or lost (`StepDue`), and every step ends a job or a
leg that had not ended, for good (`Advance`). Of the
checker: `SchemaTypes` and `ZeroSound`, for any finite set of files and any number of
statuses above one. `SchemaInv` adds that `exitcode` is the number of bad files among those
seen. Of the three together:
`WorkflowParts` and `WorkflowTypes`.

**BuildProofs** - of the capsule: `CapsuleTypes` and `Consistent`, for any certificates, layouts,
changes and failures. `CapsuleInv` says for each step of the tasks what the steps before it
have left: which stamp there is (`StampInv`), how far the certificate has come into the
binary (`CertInv`) and the layout into the capsule (`LayoutInv`), and that a finished
compile left both beside each other (`CapInv`). Of the cleaner: `CleanerSafe`, no removal of a
directory in use, for any calendar of months of 28 to 31 days, builds of up to four
days and any horizon. `CleanInv` relates a directory's `ctime` and a build's first
day to the calendar: a build of the month before ends before the fifth, and one of this
month works in a directory younger than the age. And `DiskBounded`, no third month
stays, for builds that end by the next day: `compile.yml` sets no `timeout-minutes`,
and GitHub's own limit is six hours. With two days it fails after a February of 28, as the
directory is one day too young on the fifth. `DiskInv` adds how old the directories of past months are at least (`AgeInv`), that no build
is of a month before the last (`LateInv`), and that what the cleaner should remove it has
found (`DoneInv`). Of the parts together: `BuildParts` and `BuildTypes`; a behaviour of the
copy is not one of the task as it stands (it begins with the arguments of a call), which is what
`CopyIsFaithful` is for.

**BoardProofs** - of the partition: `TeeTypes`, `Alone`, `MountsClean`, `NothingWiped`, for any
number of power cuts. `TeeInv` adds that a mounted partition has an active service, an
active service a checked file system, and stored data a finished one that is not
in mkfs. Of the display: `OrderedCards`, for any number of cards. `Line` is one-to-one from the
cards found onto the lines of the output, so that sorting them is well defined. Of the parts
together: `BoardParts` and `BoardTypes`.

**SelftestProofs** - `ParserReadsTheTree`: `_parse_its_file` returns the reading of any tree
written, of any number of nodes and properties. `TextInv` follows the text: the stack is the
position in the tree (`PlaceInv`), the dictionary the reading of the lines of this node so
far (`OpenInv`), the sections the reading of the nodes closed (`FiledInv`). `Reading` is defined by
the last entry with a key and not by recursion, and reading one more entry is one
assignment to the dictionary (`DictGrows`): the parser's loop is the induction.
`GreenMatrixSound`: a matrix test that passed can be relied on, for any layers, machines,
kernels and failing calls. `MatrixInv` adds what a filled cache says (`CacheInv`) and that a test
has the caches it reads (`NeedInv`), what the loop over machines has found so far (`LoopInv`) and
what each test established by passing (`FoundInv`); where no flag is assigned twice, the map the
tests build holds every assignment (`NoneOverwritten`). `SelftestTypes`: in whichever class of
`MCSelftest`, the stack of the parser is as deep as the file nests, which is `PlaceInv`,
its values are of one of three kinds (`KindsInv`), and the caches say nothing of a
kernel that is not so, which is `CacheInv`.

Assumptions on the constants, each evaluated by TLC on the instances as well:
`EncodeAssumption` (encoding is idempotent), `InputAssumption`, `TreesAssumption`,
`MachinesAssumption`, `LayersAssumption`, `LegsAssumption`, `CommitsAssumption`
(a build that was pushed has an attempt), `CallsAssumption`, `FilesAssumption`, `StatusesAssumption`, `CalendarAssumption`,
`NamesAssumption`, `LimitsAssumption`, `CutsAssumption`, `AddrAssumption`, `PartsAssumption` and the
two `BoundsAssumption`s.

## 6. Only model-checked

* Liveness: `RunsFinish`, `BuildsTested`, `TestRunEnds`, `BlankGetsMounted`. Fairness and ENABLED
  are beyond the provers used here.
  For `RunsFinish` and `TestRunEnds` the rest of the argument is proved: something is always
  due, and each step leaves less to do (section 5).
* `SuitePasses`: the assertions of the twelve unit tests on the very arguments of the source.
  There is no parameter to prove it for; TLC computes every order of the loops. What it rests
  on for every call is `CopyIsFaithful`.

Every other property of a passing run is stated by a theorem. `WestonStart` and `SstateCleanup`
have no type invariant of their own; what their proofs need of the types is in `WestonInv` and
`TypeInv`.

## 7. Plan

Done: FIT and its selftest, nightly, pull requests, test runs, schema checker, sstate
cleaner, capsule, partition, SMS, display, with the theorems above; of the safety properties only
`SuitePasses` has no theorem. Left: `FlashPackage`, that is `image_types_qcom.bbclass` and the
boot image classes as functions from variables to named files, against a reference
definition. They keep no state, so that little could go wrong there which a model would
show.

## 8. Not modelled, and why

* Recipes, machine and distribution files, licence, mirror, adbd and UKI classes:
  data for BitBake, no state of their own.
* Patches to gpsd, Weston, GStreamer, systemd, hexagonrpc and others, and the QRTR and
  BAM-DMUX patches of ModemManager: fragments of state machines whose other half
  is not in this repository.
* `image_types_qcom.bbclass` and the boot image classes copy and name files in a row;
  nothing is read back.
* `fitimage_emit_section_config` is not called by anything in the layer, nor is `_matrix` of
  the selftest; `_layer_dir` is one cached variable, and a failing call for it, which fails
  the test without a verdict on any kernel, is left out.
* `push.yml` and `nightly-build-wrynose.yml` are the job graph of `NightlyBuild` under
  another trigger. `publish-results.yml`, `backport.yml`, `stales.yml` and the lint workflows
  hand over to third-party actions.
* `android-gadget-start`, `copy-modules.sh` and the qbootctl unit run a few commands in a
  row, and so do the CI wrappers (`ci/*.sh`).
* What people do by hand in the workflows beyond a push and a re-run of a build: cancelling
  the build of a pull request, or running a test workflow again, which would post a
  second comment for the same build.
* Contents: what mkimage writes, what a PDU says, what a build compiles, what a LAVA
  job does. They enter by their outcome only. Patch 0010 (slot number in an SMS entry)
  changes contents only.

## 9. Running

    tlc -workers 2 -config MCBuild.cfg MCBuild
    tlapm FitImageProofs.tla

Each row of section 3 names a configuration; its module is the one in `PROJECT.json`.
The runs and the proofs take up to about four minutes each on two cores.
