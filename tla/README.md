# TYPXEN firmware: models, checks and proofs

TYPXEN turns an ESP32-CAM into a Bluetooth keyboard. A phone uploads a schedule of
keystrokes over Wi-Fi, starts it, and the board types it at the host it is paired with.
What must not happen: a key stays down, the board types when it was told not to, it types
something other than what was verified, or it says something about the run that is not so.

This directory holds TLA+ modules for the firmware under `src/components` and
`src/targets/esp32_cam`, the TLC instances that check them, and TLAPS proofs about each of
them. `PROJECT.json` lists components, runs, mutants, the source lines of every definition,
findings, hazards and theorems.

    tlc -workers 2 -config MCHidSafety.cfg MCHidSafety     # and the other runs
    tlapm ScheduleRunProofs.tla                            # and the other *Proofs modules

## The system

### Threads

| Thread | Code | Talks to the others through |
| --- | --- | --- |
| Bluetooth task | `gap_callback` | safety record (under `s_safety_lock`) |
| HID event loop | `hid_callback` | runtime flags (no lock), safety record |
| release tasks | `safety_release_task` | safety record, `s_safety_task_generation`, HID reports |
| HTTP server | handlers of `typx_wifi_service.c`, `typx_identity_http.c` | `s_upload` (under `s_mutex`), marker in NVS, runtime flags |
| execution task | `execution_task`, `typx_executor_run` | `s_upload` in part without the mutex, marker, runtime flags, HID reports |
| console tasks | `test_task`, `schedule_task` | runtime flags, task handles |
| UART console | `typx_console.c` | all of the above |
| Wi-Fi event loop, fallback task, HTTP restart task | `typx_wifi_service.c` | statics of the service (no lock) |
| reboot task | `typx_identity_http.c` | a notification |
| power | reset at any moment | NVS and the staging partition survive |

### Components

| Component | State | Operations | What makes it correct | Module |
| --- | --- | --- | --- | --- |
| Reconnect safety release | `s_execution_safety`, `s_safety_task_generation` | connect, disconnect, authenticate, schedule, release, complete, retry | ready means released on this link; one task per connection; a release has an owner | `ExecutionSafety`, `HidSafety`, abstractly `HidReadiness` |
| Dedicated run | `s_upload.status`, progress, marker, `s_runtime` | START, STOP, cancel, the run, boot | an active job has one owner; a stop silences; reports are true; a cut run is reported | `DedicatedRun`, abstractly `JobLifecycle` |
| Staged upload | `s_upload`, chunk session, partition | create, chunk, finalize, cancel | what is on record is in flash; a run sees a whole verified schedule | `UploadJob`, abstractly `StagedSchedule` |
| Console runs | `s_runtime`, task handles | test, embedded schedule, stop, release | no key forgotten; the busy flag has an owner | `KeyboardSharing` |
| Identity and battery | `s_state`, NVS namespace, bonds, advertising | save, reset, battery, links, restart, boot | the record is valid, stored and shown; a board without a host can be found; a restart takes the right bonds | `IdentityStore` |
| Wi-Fi modes | mode, started, IP, attempts, pending flags, announcement | start, stop, configure, forget, recover | a station recovers, serves and announces itself, and leaves a job alone | `WifiStation` |
| Protocol V1 verifier, local schedules | the encoded file | `typx_protocol_v1_verify`, `typx_local_schedule_verify_and_run` | accepts exactly the well-formed schedules; what is typed is what was accepted, in the time announced | `ScheduleRun` |
| Executor state machine | `typx_state_machine_t` | transitions | nothing in the firmware depends on it | not modelled |
| SHA-256, host tools | none of interest | | | not modelled |

### How they interact

START (`start_handler`) takes a snapshot of the safety record, moves the job under
`s_mutex`, writes the NVS marker, creates the execution task, answers, and only then
notifies the task. The task clears mDNS, tests and sets the runtime flags, counts down,
types record after record with a test of the stop flag between its waits, releases,
clears the marker, and completes the job. STOP moves the job under the mutex and raises
the flag after releasing it; a disconnect raises the same flag from `hid_callback`. The
Wi-Fi threads read `s_execution_task` to leave a running job's network alone, and the
identity handlers refuse to work while a job is locked.

What makes this hard: the flags of `s_runtime` and the statics of the Wi-Fi service have
no lock; snapshots are used after they are taken; the stack's events lag behind the link;
every task creation, report and NVS write may be refused; power goes at any moment.
`PROJECT.json` lists these hazards line by line, with the properties that watch them.

## The modules

| Module | Models | Composes |
| --- | --- | --- |
| `ExecutionSafety` | the pure record of `typx_execution_safety.c`, as operators | |
| `HidSafety` | the threads that call it | `ExecutionSafety` |
| `HidReadiness` | the four values START distinguishes | |
| `JobLifecycle` | the job as the phone sees it, with the keyboard | |
| `DedicatedRun` | START to terminal state, STOP, links, resets | `HidReadiness` |
| `StagedSchedule` | what an upload promises a run | |
| `UploadJob` | the upload and the partition | |
| `KeyboardSharing` | three kinds of run over one keyboard | |
| `IdentityStore` | identity, battery, NVS, restart | |
| `WifiStation` | Wi-Fi modes, recovery and announcement | |
| `ScheduleRun` | one file from its first byte to its last key | |
| `HidSafetyProofs`, `DedicatedRunProofs`, `UploadJobProofs`, `KeyboardSharingProofs`, `IdentityStoreProofs`, `ScheduleRunProofs`, `WifiStationProofs` | theorems about the module of the same name, and their inductive invariants | each extends its module |
| `Induction` | induction over the natural numbers, as the proofs use it | |
| `MC*` | constant definitions for TLC | |

The links between them are abstract specifications: `HidSafety` implements
`HidReadiness`, and `DedicatedRun` drives its readiness by the actions of `HidReadiness`,
so that the run is checked against everything the release threads may do without their
state. `DedicatedRun` implements `JobLifecycle`; `UploadJob` implements `StagedSchedule`
and treats a run as `DedicatedRun` shows it to be (the staging area is left alone).
`ScheduleRun` looks into what the others abstract: the set `Accepted` of `UploadJob` is its
verifier's verdict, and the records of `DedicatedRun` are typed there tick by tick.
Lines that start with `Mutant:` mark altered copies of a definition; they are not part of
any specification and are there to show that a property notices a plausible bug.

### ExecutionSafety, HidSafety, HidReadiness

Variables are named after the code: `safety` is `s_execution_safety`, `taskGeneration` is
`s_safety_task_generation`, `task` and `caller` are the places of release tasks and of the
two callers of `schedule_safety_release`. Each `taskENTER_CRITICAL` section and each
report is one action. `ups`/`downs` count what the Bluetooth task sees, and
`connects`/`disconnects` what the HID event loop has handled; the gap between them is the
event queue. `zeroed` remembers which zero reports the present link has accepted.
The generation is `uint32_t` in the code; `GenLimit` keeps the wrap in the model
(`NextGeneration` skips 0), and an assumption keeps runs and proofs below it.

### DedicatedRun and JobLifecycle

`http.pc` walks through `start_handler` and `stop_handler`, `exec.pc` through
`execution_task`, `typx_ble_hid_run_schedule_countdown_observed` and
`typx_executor_run`, `hid` through `hid_callback`, `boot` through `app_main`. Every
unlocked assignment is an action. Time is left out here (`ScheduleRun` has it): a wait is a
test of the flag, and the eight countdown waits are one action, since only their result
matters. The release after each record, the executor's final one and the one after the run
are separate steps. Power goes at any moment of a run, and at any moment of the boot that
follows; `cut` remembers a run that was cut while keys may have been down, until a boot has
come to its end.

`JobLifecycle` is the table of `docs/protocol/ESP32_CAM_STATE_MACHINE.md` as the code has
it (`ERROR` is the document's `FAILED`, `RECEIVING` its `UPLOADING`; `VERIFYING` is never
seen from outside the mutex). It differs from the document in these places:

- `COUNTDOWN` and `EXECUTING` go to `STOPPED` directly when the console's `stop` ended the
  run or the host was lost in mid-record, without passing `STOPPING`.
- `STOPPING` may become `COMPLETED`: a STOP after the last test of the flag.
- `COUNTDOWN` returns to `READY` when START fails at the marker, the task or the answer.
- Create goes to `FAILED` from `IDLE` and from a terminal state if the erase fails.
- A second create goes from `UPLOADING` to `UPLOADING` and forgets what was sent, also
  under the same identity, where the document plans it idempotent.
- `UPLOADING` never goes to `IDLE`: cancel asks for `READY`.
- START decides on a snapshot of the host: a job may enter `COUNTDOWN` after the host has
  gone. The run then fails at its own test.

### UploadJob and StagedSchedule

A chunk request is several steps (begin, one piece at a time, finish, or break off);
all others are one, because the handler holds the mutex. Bytes are sets of bits so that a
flash write without an erase is what it is in hardware, an intersection. `Crc` and `Sha`
are parameters: the instance gives the checksum collisions and the digest none.

### KeyboardSharing

Three runs share `running`, `stopRequested` and `connected`. Test and set are separate
steps, as in `begin_test` and in the dedicated run; the console's task handles are what
keeps its own two runs apart.

### IdentityStore

An operation holds the mutex (`op`) and writes its keys one by one; any write may fail
and power may go between any two. The five mandatory texts are one (`name`), the optional
serial is the other, minutes are the interval. `torn` and `unshown` are histories: they name
the circumstances under which the record and NVS, or the record and the host, may differ.
The document says that a save is accepted atomically (`BLUETOOTH_IDENTITY_API.md`); the
code writes key by key and rolls nothing back, so a save that failed may show up, whole
or in part, at the next boot. What does hold is `ConfigValid`: a mixture that is not valid
is not used.

`ready` holds the boot events `start_advertising_when_ready` waits for (the later of the two
GAP callbacks, and START, which also makes the device known to the battery), `advertising`
what the controller does, and `link` the link, which is `lost` until the DISCONNECT event is
handled. A bond is told apart by the identity it was made under. `muted` and `late` name
what `HostCanConnect` and `RestartBonds` except: the controller refused to advertise or a
restart was refused after `typx_ble_hid_prepare_reboot` had stopped advertising, and a save
or a pairing was served in the half second between the answer and `esp_restart`. Both are
real, and both are in `PROJECT.json` as hazards. The handler's tests for a locked job and a
run are left out, which lets a restart be asked for more often than the code allows.

### WifiStation

`pc[c]` walks a caller through `start_mode`: the console (or boot) and the fallback task.
The driver's event queue is in order. `link` is `trying` from an accepted `esp_wifi_connect` to
the address, so an association without a lease is in it. `mdns` is `s_mdns_started`; `job` is
`starting` and `ending` where the execution task takes the announcement down and puts it up
again. Four history variables name what the properties except:

- `abandoned`: a recovery was given up, or refused what it needs, and no address or start of
  the radio has come since. The ways there are no memory for the fallback task, a job that
  ends during the task's sleep or after its refused attempt, a `start_mode` of the fallback that
  fails, and an `esp_wifi_connect` of the event handler that the driver refuses
  (`LeftDown`): the code logs it and goes on, no event follows, and attempts left over are
  not used. The one refusal the code does act on is the fallback's own attempt under a job:
  the task begins again, from the place `refused`, while the job runs. `abandoned` does not
  let that off, and `RecoveryUnderWay` depends on it.
- `silent`: the server, its announcement or the restart task was refused, a restart was
  dropped in the last instructions of the one before, or the restart task of a lost station
  has stopped the fresh server of an access point.
- `lateJob`: a job that started during a mode change.
- `overlapped`: two `start_mode` at the same time.

These are ways the code really has of losing the network until a reset or a command; they
are listed as hazards.
`s_post_job_station_reconnect` is never set, so the branches that test it are dead code and
left out. An attempt to connect is taken to outlast the last instructions of the fallback
task.

`WIFI_UPLOAD.md` and `ESP32_CAM_STATE_MACHINE.md` say that the announcement is suspended
from START to the end of the run. The model, like the code, lets it come up in mid-run: an
address that arrives then restarts the server, and the restart task announces it
(`RestartStart`). `OnlineServes` asks for an announcement outside runs and nothing within.

### ScheduleRun

One action per step of `typx_protocol_v1_verify` (header, digest, each record, the sum) and
of the executor, with `index`, `previous` and `total` as in the code. The checks of a step
are a list in the code's order, of which the first that fails names the error. Numbers have
the widths of their fields: `U32Max` and `U64Max` are small in the instance, so that lengths
and sums do reach them. Fields whose only legal value is a constant are one flag, so their
errors are one error too. SHA-256 is a comparison that holds or does not.

Time is the tick count: `now` moves only while the task sleeps, and a wait is
`scheduler_wait_ticks`, slice by slice. The real time of a wait is up to one tick less than
its ticks, because it begins between two of them; `CompletedInTime` speaks of ticks, as the
code does. `WellFormed` restates the document's format without order, widths or passes;
`VerdictIsRight` compares the two in both directions. The flags of the runtime are set in
one step here; what happens between the steps is `KeyboardSharing`'s question.

## The runs

| Run | Question | Bounds |
| --- | --- | --- |
| `hid_safety` | Can any interleaving make the board ready unreleased, duplicate or orphan a release? | two links, so events of one meet tasks of the other; three tasks, one more than can be live per link; two authentications per link; two attempts of the code's five |
| `hid_safety_live` | Does a release come to an outcome, and only after every attempt? | two links of two authentications each, retries at any time, a lagging event loop; memory for every task, since a refused one is a known end of a release; two tasks, which is one for each connection and never short of one |
| `hid_safety_lost_retry` | Does every accepted retry? (no) | one link, one task |
| `dedicated_run` | Ownership, stop, reports, life of the job, end of each run | two jobs, one link since each boot, one reset with any number of boots cut short after it, two records: a second job meets the leftovers of the first, a boot those of a cut run |
| `dedicated_run_lost_stop` | Does a STOP always silence? (no) | one job |
| `upload_job` | Does flash hold what is on record, a run read what was verified, and an upload get decided? | two jobs, three chunks of two bytes with a short last one, one reset, colliding checksums, garbled requests; a phone that goes on sending |
| `keyboard_sharing` | Keys, busy flag, exclusion, stray keys | two runs of any kinds, two links, two keys |
| `keyboard_sharing_overlap` | One run at a time? (no) | two runs, one key |
| `identity_store` | Is the record valid, stored and shown, the board visible, and are the right bonds taken? | two changes and a boot: every prefix of a second operation over the keys of the first; battery levels 0 to 2; any number of links and refused restarts |
| `identity_store_restart` | Does a pending change survive? (no) | three changes and a boot |
| `wifi_station` | Does a station recover, serve, announce itself, and leave a job alone? | a command against the boot's start and the fallback, a job, one loss, one retry of the code's five; any number of attempts, each of which the driver may refuse, hold for ever without an address, or end |
| `schedule_run` | Is the verdict right, and is what was accepted typed, in time, and stopped at once? | sound files of three to six records and every file that differs from one in a field of a record, of the header, or both; 32 bits hold the length of five records, 64 the time of one longest record and half of another; delays up to five ticks, slices of two, a countdown of three |

Larger bounds repeat what these reach: links, jobs and changes carry over only through the
generation, the marker, flags and stored keys, each of which has taken all its values by
the second round.

Deadlock is not checked where a host, a phone or an operator may stay away for good
(the configurations say so). `dedicated_run`, `identity_store` and `schedule_run` check it:
there a console `stop`, a battery reset, or a change of the link is always possible, so the
check says little more than that the model does not get stuck.

### What the failing runs show

- `hid_safety_lost_retry`: a retry accepted while the exhausted task has not yet cleared
  `s_safety_task_generation` starts nothing; the release stays pending. A second
  authentication of the host in that window is lost in the same way, without an operator.
  `Overlooked` names the state, and the properties of `hid_safety_live` let it off and
  nothing else: every other release settles, and no task gives up early.
- `dedicated_run_lost_stop`: a STOP answered before the run arms itself is erased by the
  arming.
- `keyboard_sharing_overlap`: a console run and a dedicated run both find `running` down.
- `identity_store_restart`: the second of two resets forgets that the advertised identity
  is to change, and the restart keeps the bonds.

One loss of the report of a cut run remains and is let off by `InterruptionReported`: power
that goes after the boot has cleared the marker and before `typx_wifi_service_init` has
taken the interruption over. It is in `PROJECT.json` as a hazard.

### Fairness

- `HidSafety`: every thread with a step takes one. FreeRTOS schedules all of them, none of
  them spins, and each wait is bounded. Nothing is asked of host or operator;
  `AttemptsAreUsed` excepts an operator who retries for ever.
- `DedicatedRun`: the HTTP handler, the execution task and the boot go on. Their waits are
  bounded, and the execution task sleeps between records, so the lower-priority server
  runs. No fairness for links, phones or resets.
- `UploadJob`: the requests under way go on, and a phone sends each chunk and finalizes
  again and again (strong fairness, since another request may be in between). This is an
  assumption about the phone, named `Persistence`.
- `WifiStation`: tasks and the event loop go on, and a job ends (`RunEnds` is what shows
  that). Nothing is asked of the driver or the hotspot: an attempt need not end, because an
  association that is given no lease is reported by no event. `StationRecovers` excepts a
  link that stays in `trying` for ever, which is that case.

## The proofs

Every theorem is of the form `Spec => ...` and holds for every value of the constants that
satisfies the assumptions of the module. The bounds of the runs (`MaxJobs`, `MaxLinks`,
`MaxResets`, `MaxStarts`, `MaxBoots` and the like) are parameters there, so that what is
proved is not limited to small ones. Each module proves `TypeCorrect` (its `TypeOK`) and
`InvariantHolds` (its inductive invariant `IInv`); the others are:

| Module | Theorem | Says |
| --- | --- | --- |
| `HidSafetyProofs` | `OneTaskPerGenerationHolds` | no two tasks work for one connection |
| | `ReleasingHasOwnerHolds` | a release under way has a task that completes it |
| | `ReadyMeansReleasedHolds` | ready means both zero reports were accepted on this link after its last authentication |
| | `ReadyRevokedOnlyByHostHolds` | only the host takes readiness away |
| | `ReadinessImplemented` | `HidSafety` implements `HidReadiness` |
| `DedicatedRunProofs` | `ActiveIffOwnedHolds` | a job is active exactly while one thread is to end it |
| | `FlagSilencesHolds` | after the stop flag at most the key-down under way goes out |
| | `ReportIsTrueHolds` | the counter is never ahead of the keys, and a completed job typed all |
| | `InterruptionReportedHolds` | the boot that comes to its end after a cut run reports it |
| | `LifecycleImplemented` | `DedicatedRun` implements `JobLifecycle` |
| `UploadJobProofs` | `RecordedIsStagedHolds` | flash holds what is on record |
| | `ReceivedIsSumHolds` | the count of bytes is the sum of the chunks on record |
| | `AcknowledgedKeptHolds` | no request changes the bytes of a recorded chunk |
| | `StagingImplemented` | `UploadJob` implements `StagedSchedule` |
| `KeyboardSharingProofs` | `KeyAccountedHolds` | no run walks away from a key it pressed |
| | `BusyHasOwnerHolds` | the busy flag has a run that lowers it |
| | `ConsoleRunsExclusiveHolds` | test and embedded schedule never run together |
| | `StrayKeysBoundedHolds` | at most one key of a run reaches a later link |
| `IdentityStoreProofs` | `ConfigValidHolds` | the record is one the validator accepts |
| | `RecordIsStoredHolds` | the next boot reads the record as it is |
| | `LevelIsShownHolds` | the host sees the level of the record |
| | `HostCanConnectHolds` | a board without a host can be found |
| | `RestartBondsHolds` | a restart takes the bonds it has to take |
| `ScheduleRunProofs` | `VerdictIsRightHolds` | the verifier accepts exactly the well-formed files |
| | `TypedAsVerifiedHolds` | what is typed is what was accepted |
| | `CompletedInTimeHolds` | a completed run took the time announced |
| | `StopIsPromptHolds` | a stop ends a wait within a slice |
| `WifiStationProofs` | `RecoveryUnderWayHolds` | a station without an address has something under way that acts on it |
| | `OnlineServesHolds` | a board with an address serves and announces itself, or is about to |
| | `JobKeepsModeHolds` | no thread changes the mode under a job |

### Assumptions

They are the `ASSUME`s of the modules, which TLC evaluates on every run. Those with
substance:

- `HidSafety`: links stay below the generation's width.
- `UploadJob`: a partition has a chunk and a chunk a byte; the schedules offered fit the
  partition, those accepted are among those offered, and a checksum is a number. Nothing is
  assumed of collisions, of `Crc` or of `Sha`.
- `ScheduleRun`: the limits are those of `typx_protocol_limits_t` in that they fit the widths
  (the longest delay three times in 64 bits, a header and 32 bits of payload in 64), the
  fields of a file are within their widths, and the bytes of a file hold at least the
  records that its size has room for. The files themselves are any set.
- `IdentityStore`: the defaults of the build are valid ones.
- `DedicatedRun`, `KeyboardSharing`: a schedule has a record, a run a character.
- `WifiStation`: `STA_CONNECT_RETRIES` is not zero. It matters: without a retry, a loss that
  arrives in the last instructions of the fallback task would be left to a task that no
  longer looks.

### The inductive invariants

None of the safety properties is inductive. Each `IInv` was first checked by TLC on the
instance of the module's run (`DedicatedRun` 590588 states, `KeyboardSharing` 1922280,
`IdentityStore` 4004279, `UploadJob` 17180, `ScheduleRun` 119718, `WifiStation` 573300), then
proved: one lemma for a conjunct or a few that belong together, in it one step per action.

*HidSafety.* That a late task cannot credit its result to a new connection rests on
generations being distinct, hence `Counting`: the generation is the number of events
handled, the event loop lags by at most one link because only a handled DISCONNECT lets the
board advertise. That two tasks never share a generation rests on `HoldersExclusive`:
whoever is about to create a task, or is one, holds its generation alone, and while it is
the present one the shared word names it. That an owner's memory of what it sent is about
this link is `EvidenceIsFresh`. `StateConsistent` ties the states of the record to its host.

*DedicatedRun.* `OwnerKnown` says which status goes with which place of `start_handler` and
`execution_task`; without it a step of the task could complete a job it does not hold.
`ResultKnown` and `CountsAgree` tie the result, the record index, the keys typed and the
polled counter to the place of the executor; `ReportIsTrue` is their consequence where the
job completes. `OverrunKnown` is why `FlagSilences` counts one key and not two: the hold
after a press that the flag overtook sees the flag. `MarkerStands` carries a cut run over
the boots that are cut too. `KeysUp` and the same parts make every step a step of
`JobLifecycle` or a stutter.

*UploadJob.* `PartlyStaged` is the bridge from bytes to checksum: of the chunk under way the
flash holds what was received, and is erased beyond, so that programming (an intersection)
is writing. `SessionKnown` says a request that repeats a chunk carries the lengths and the
checksum on record. `ReceivedIsSum` is needed for the type of the count, and its proof for
the sum of all chunks at the end: a full upload has every chunk on record.

*KeyboardSharing.* `StopStands` is the heart: unless another run's arming came in between, a
run that may press a key is on the link it began on, or the stop flag is up or about to be
raised by `hid_callback`, whose two requests `LinkKnown` places around the lowering of
`connected`. `StraysKnown` follows one stray key to the hold that sees the flag.

*IdentityStore.* `KeysPromise` looks at the writes still to come: what they leave in NVS is
the identity a save works towards, or the record; `RecordIsStored` is its case without
writes. `KeysFit` is what makes any mixture of keys readable, and `Valid` of what is loaded
is then a test in the code. `ShownKnown` does the same for the level the host sees, and
`RestartAlone` keeps saves out of the steps between a request to restart and its answer.

*ScheduleRun.* `VerifierKnown` says what each step of the verifier has established
(`HeaderSound`, `DigestSound`, and `Scanned` for the records so far); `WellFormedParts` shows
that these together are the document's `WellFormed`, and one comparison with the previous
source index is as good as the order of all pairs. In the other direction, a check that
fails names a clause of `WellFormed` that does not hold, the overflow tests included: the
first refuses a length that no `payload` field could announce, the second cannot fail at the
assumed widths, and the third refuses a total that no `duration` field could (`SumGrows`).
`TimeKnown` is an account of the ticks slept by
the end of the wait under way: they cover the microseconds of the records done, and exceed
them by less than a tick for each wait begun. `StopKnown` says that the flag stays up until
the run has ended, so no slice begins after it.

*WifiStation.* `QueueKnown` is what makes the statics of the service trustworthy: the driver
reports in order, so behind every address of a connection that is gone its loss still waits,
and behind every loss of one that is up its address. `AddressKnown` draws from it what `ip`
is worth. `RecoveryKnown` then says who looks after a station that is down at each place of
the fallback task; its last place, `finish`, is where a loss finds the task still pending
and schedules no other, and there attempts must be left, or an event that needs none. At
`refused`, where no event will come, `PendingTells` adds that the retry is still wanted.
`ServerKnown` does the same for the server. Both rest on `ModeKnown`, which says that a mode
change nobody overlaps finds the radio off and its own mode, and `JobKeepsMode` on
`PauseOwned`: the pause that lets `start_mode` pass under a job is held only by a mode
change, and `JobQuiet` says there is none.

### What the prover needs help with

TLAPS 1.4.5 cannot use the library's induction theorem, whose parameter is an operator.
`Induction` states induction for a set instead (`SetInduction`, from the well-foundedness of
the order), which needs no parameter. With it the recursive functions of the models are
unfolded: that the function exists, that it takes a step, and what it sums or keeps
(`SumExists`, `SumSteps`, `SumGrows` in `ScheduleRunProofs`; `DropsExist`, `DropsKeep` in
`IdentityStoreProofs`; the like in `UploadJobProofs`). `MinIsLeast` does the same for the
`CHOOSE` behind the first failing check.

### Only model-checked

- All liveness: `AttemptsAreUsed`, `UnsettledEnds`, `RunEnds`, `UploadDecided`,
  `StationRecovers`. The prover does not treat fairness.
- What the failing runs refute is a counterexample, and needs no proof.

## Not modelled

- The executor's state machine (`typx_state_machine.c`): the firmware calls its boot
  function once (`main.c:15-16`) and looks at it no more. The states a job has are those of
  `typx_wifi_upload.c`, in `JobLifecycle`.
- SHA-256, CRC-32, JSON, reports and their layout, the mDNS library: wording, libraries, and
  data without control.
- Real time outside `ScheduleRun`, and below one tick.
- The time stamps of the battery's activity: `Report` takes their difference as an input, so
  a difference that wraps (listed as a hazard) is left out.
- The rules for the texts of an identity and for Wi-Fi credentials.
- Failures of `esp_wifi_stop`, `httpd_stop` and `esp_netif_get_ip_info`. The first two end
  `start_mode` early, with the mode `STOPPED`, and are one more way for the fallback to give
  up. `initialize_wifi` works but once, at boot, and is taken to succeed.
- The completion of a bond's removal (`RestartClear` takes an accepted request as done), since
  the code only logs it.
- In `ScheduleRun`, a flash that changes under the run: its image is constant, and that the
  staging area is left alone is what `UploadJob` shows. Its lengths and sums reach the
  width of their fields because the limits are the caller's parameter; under the limits the
  firmware passes they stay far below.
- Host-side tools, which flash and package.

## Plan

Done, in the order of what hurts most: safety release with its proofs, the dedicated run,
the upload, keyboard sharing, identity with advertising, Wi-Fi with the announcement, the
verifier and the executor in time. No component is left that holds state the firmware uses.

Every safety and action property of the passing runs is proved, and so are the three
refinements. What is left is to shorten the longest proofs (`ScheduleRunProofs`,
`DedicatedRunProofs`) where steps repeat a frame, and to state as lemmas of
`ExecutionSafety` what `HidSafetyProofs` expands in place.
