# Specifications of the MSI Afterburner plugin for G-Assist

TLA+ models of the plugin's domain logic, checked with TLC and, for the parts
where a mistake would write to hardware without consent or lose data, proved
with TLAPS. Source paths are relative to the repository's root.

Run `tlc -config MCX.cfg MCX` for a model, `tlapm XProofs.tla` for proofs.
`MCConfirmation`, `MCControlWrite` and `MCProfiles` take one to two minutes, the
other models less than one.

## 1. The system

The plugin is one process with one thread. The G-Assist engine starts it, sends
JSON-RPC requests on stdin and may kill it at any time. Requests go through the
transport to `GAssistPlugin`, which calls domain services, which call an
`AfterburnerInterface`. MSI Afterburner is another process; it publishes two
shared memory maps, MAHM (monitoring, read-only) and MACM (control, guarded by a
named mutex). Inside the plugin nothing runs concurrently. What interleaves is
the plugin with Afterburner, the user at Afterburner's sliders, other clients of
the map, the engine, and time.

| Component | State it keeps | Operations | Talks to |
|---|---|---|---|
| Transport (`protocol/transport.py`; the vendored SDK when present) | position in the stream | read a frame, answer it, loop | engine (pipes), dispatch |
| Dispatch and confirmation (`protocol/plugin.py`, `safety/policy.py`, `plugin.py`) | `_pending_input`, `_tokens`, `_startup_status` | initialize, ping, execute, input, shutdown | all services |
| Validation and gating (`safety/validator.py`, `safety/capabilities.py`) | none | resolve capabilities, clamp, validate a fan curve | interface |
| Control write path (`integration/macm.py`, `integration/reconnect.py`) | the interface in use, the last probe; the map itself | detect, apply, reset, read back | Afterburner, by shared memory and a window message |
| Telemetry (`services/telemetry.py`) | the last sample and its time, the last attempt | get_status | interface |
| Diagnostics (`services/diagnostics.py`) | none | diagnose_performance | telemetry |
| Optimization (`services/optimize.py`) | none between calls | optimize_quiet, optimize_thermal | client, validator |
| Profiles (`services/profiles.py`) | none between calls | list, load, reset, startup flag | client, validator, reader |
| Profile file reader (`integration/profiles.py`) | none | find the file of the GPU, parse it tolerantly | Afterburner's `Profiles` directory, read-only |
| Nicknames (`services/nicknames.py`) | the map in memory, `config.json` | set, clear, resolve, load, save | file system |
| Monitoring reader (`integration/mahm.py`) | none | read telemetry | Afterburner's MAHM map |
| Ownership (`services/ownership.py`) | none | report, clause of a prompt | client, profiles |
| Combined, fallback, fake interfaces; build and tools | none | delegation, packaging | |

What is hard, and what makes each component correct:

* **Confirmation.** Consent is spread over two dictionaries with two lifetimes
  (60 s to reply, 300 s for a token), prompts overlap, replies name no function,
  limits change between prompt and reply. *A risky change runs once per consent,
  for what the user saw, inside limits that held while it ran.*
* **Control write.** A value is in the map before it is in force; completion,
  disconnection, timeouts and the retry of a lost connection race each other; the
  header that the addresses come from belongs to Afterburner and may change between
  two calls, and other clients write too. *What is reported as read back, or as
  unchanged, is in force unless another write is pending; a write stays in the entry
  of its GPU; every call returns.*
* **Optimization.** A sequence of writes and reads any of which may fail, with
  limits that may change in between. *Success is measured after the change; a failed
  quieting brings the fan's speed back; the work ends.*
* **Telemetry and diagnosis.** Two clocks, a cache, a rate limit, failing reads.
  *No old sample passes for a current one; no cause without its signal, and no
  visible one passed over; a plugin that told the engine it is ready has a sample to serve.*
* **Profiles and ownership.** Several controls, one after the other, not atomic; the
  file is read before the state it is compared with, and a report reads four times.
  *A load that is reported without a note is what get_profiles would call active; a
  slot that is named active was so during the call; the parser adds nothing to the
  file.*
* **Nicknames.** Memory and disk, crashes and failures between the steps of a save.
  *A name that was acknowledged survives; no request makes one ambiguous.*
* **Transport.** Destructive reads of a piecemeal stream. *Every frame is
  answered once, in order; one that is malformed in an ordinary way does not end the
  loop.*

## 2. The modules

| Module | Models | State ↔ code |
|---|---|---|
| `Consent` | abstract: what confirmation promises | a set of open consents and a count of runs per function |
| `Confirmation` | dispatch and confirmation | `pending` = `_pending_input`, `tokens` = `_tokens`, `up`/`limit`/`applied` = what the interface reports, `busy` = the executor that runs and the value it has clamped; `loop` tells the SDK loop (no tokens, inputs name no function) from the fallback |
| `ControlRegion` | the layout of MACM: `validate_control_region`, `_entry_offset`, the words of a write | no state; offsets computed from a header |
| `ControlWrite` | `apply_single_value` down to the map, and the decision before a prompt; extends `ControlRegion` | `header`, `flags`/`cur`/`auto`/`flush` = words of MACM, `hw` = the hardware, `mutex`, `pc`/`call`/`attempt`/`waited` = the call; the other client takes the mutex and writes under it; `current`/`cool` = `ReconnectingAfterburner` |
| `Optimize` | `OptimizeService` | `pc` walks through the two methods, `fan`/`auto` = `dwFanSpeedCur` and its AUTO bit, `base` = `current_fan`, `safe` = what `_validate_fan` returned, `left` = the reads left |
| `Telemetry` | `TelemetryService` for one GPU | `cached`, `age` and `sinceAttempt` for `_cache` and `_last_attempt`, as distances from now; `wallAge` for `sampled_at` |
| `Diagnostics` | `DiagnosticsService`, extends `Telemetry` and composes with it | samples reduced to what the rules compare |
| `Startup` | `initialize` and its startup sequence, extends `Diagnostics` | `startup` = `_startup_status` |
| `ProfileFile` | `ProfileFileReader`: attribution of a file, the tolerant parse line by line | no state; a directory maps to a snapshot |
| `Profiles` | `ProfileManager`, extends `ProfileFile` | `disk` = the directory, `shelf` = the slots as read, `stored`, `applied`, `notices` = the locals of `_apply_slot`, `safe` = the clamped value before it is written, `next` = the position in its order |
| `Ownership` | `TuningOwnershipService`, extends `Profiles` and composes with it | `stage` = how far `build_report` has come, `report` = its locals |
| `Nicknames` | `ProfileNicknames`, `_resolve_profile_ref` | `memory`, `file`, `tmp`, and `phase`/`payload` for a save in progress; `acked`/`unsaved` are history |
| `Monitoring` | the MAHM reader, `integration/mahm.py` | `present`/`header`/`table`/`region` = the map, `view` = `_handle` and `_addr`, `size` = `_region_size`, `seen`/`rows` = the bytes `read_region` returns; `steady`/`published` are history |
| `Transport` | `GAssistProtocol.run` | cells of the stream, `read`/`need` for `_read_exact`, `out` = ids answered |
| `MC*` | instances for TLC | |
| `*Proofs` | theorems about one module, or about a chain that extends one another (`TelemetryProofs`, `ProfilesProofs`) | |

Each action is a handler or the part of one between two points at which the
outside can intervene: a release of the mutex, a sleep, a file operation, a call
of the client. In `Confirmation`, `Optimize` and `Profiles` the clamping of a value
and its write are two steps, as the validator and the client open the map apart and
the write looks at no limit. Otherwise `Confirmation` treats a handler as one step, because
nothing it depends on in its own dictionaries can change meanwhile; the interior of the
write it makes is `ControlWrite`. History variables (named as such) only record;
no guard reads them. Operators whose comment begins with "Mutant of" are wrong on
purpose: each property of a run is tried against one, and must fail.

### Abstractions

* A control value is a natural number in the control's unit with minimum 0. In
  `ControlWrite` a request may lie between two values a field can hold (`Field`,
  `_to_field_units`); elsewhere values are those that fields hold.
* The texts of answers and logs are left out. Outside `Monitoring` and
  `ControlWrite` a map is readable or not; `up` stands for MAHM and MACM together in
  `Confirmation`.
* In `Monitoring` the copy is taken structure by structure, header first, as a
  copy from the first byte to the last reads it; a header keeps the fields the
  checks compare, an entry its GPU, source and value. A GPU entry has no field that
  a check or a sampled field depends on. Whatever header Afterburner leaves may be
  met, sensible or not.
* Afterburner is assumed to take the mutex while it serves a command or exits, as
  the sample of its SDK does. A failure of `CreateMutexW` is covered by the
  failure of opening the map.
* One GPU, except in `Monitoring` and in the layout of `ControlRegion`. Requests for
  several differ only in an index that every call passes on.
* In `ControlWrite` a read of the map without the mutex is one step, and the size of
  the view may differ at each start of Afterburner independently of the header,
  which is more than Windows allows.
* In `Profiles` the read of the values in force and the choice of the slot by
  `reset_profile` are one step; `FanSpeed` without a fixed `FanMode` is "not
  stored". Numbers are values, and whatever is not a finite number is one value.
* In `ProfileFile` a file is its sequence of lines, each a header, a key with its
  text, or junk. Section names are compared as the parser does, and keys in their exact
  spelling; what nothing looks up, a known key in other letters included, is the key
  `Other`, and a section that nothing looks up is `Elsewhere`.
* In `Startup` the detection and the budget of three seconds are one choice; time
  passes in `Tick`.
* In `Transport` what a non-header cell means as a header is nondeterministic; a frame
  is of one of six kinds, and all messages for one request are one answer.
* Files are a valid map, absent or broken (`Nicknames`); key order and encoding
  are left out.

## 3. What the runs show

| Run | Checks |
|---|---|
| `confirmation` | `IInv`: pending entries and tokens match one to one. `InTimeReplyIsValid`: a reply in time is never "no longer valid". `AppliedWithinLimitsRead`: what a confirmed change applies is inside limits that held while its executor ran. `AffirmsLastPrompt`. `ImplementsConsent`: refinement of `Consent`. |
| `control_write` | `IInv`: map and hardware differ only where a FLUSH is pending or a killed writer left a word. `WritesOwnWords`: offsets stay in the view and in the entry of the GPU, whatever the header. `ReadBackIsInForce`: what is read back is in force, unless a write of another client is pending just then. `NoChangeIsOwed`: "no change made" is true of the hardware, or a FLUSH is owed. `FanSetIsManual`. `EveryCallReturns`. |
| `optimize` | `IInv`. `SuccessIsMeasured`: a reading after the last write. `QuietRestoresSpeed`: a restore whose write succeeded brings back the speed, and leaves the fan manual. `ThermalRaises`: never slower than it was. `OptimizeReturns`. |
| `diagnostics` | `IInv`, `OldIsFlagged`, `PollsAreSpaced` of the cache; `DiagnosisIsFresh` under a wall clock that is set; `CauseHasItsSignal`: the cause named has its own signal, thermal comes first, no visible cause is hidden by a residual one, and "unknown" is not said of a fresh sample that signals something; `ReadyServes`: after "ready" no get_status raises. |
| `profiles` | `OInv`: nothing stored is dropped silently, what is applied is the stored value or, with a note, a limit below it, and a report is at one stage. `LoadedIsActive`: a load or reset without a note is of a slot that is in force. `SnapshotIsTheFile`: what the reader reports is what the last line of each key says. `QuietReportAgrees`: the parts of a report agree if nothing moved. `NamedWasActive`: a slot named active was so during the call. `OperationsShorten`: each step of an operation lowers the number of steps left, whatever moves meanwhile. |
| `nicknames` | `AcknowledgedIsOnDisk`: the file holds what the answers vouched for, an answer that there is nothing to clear included, except that a slot whose last change was not saved may be said to have no name while the file has one. `StaysUnique`. `IInv`: what a save in progress writes, and in which slots memory and file agree. |
| `monitoring` | `IInv`: the view is open exactly while it is read, and only a copy that passed every check is taken apart. `ReadsWithinCopy`: every offset the loops read lies within the copy, structures side by side, with GPU entries or without. `SampleIsPublished`: a field holds what Afterburner published during the call, for this GPU and a source of this field. |
| `transport` | `AnsweredInOrder`, `FramesAreAnswered`, `ShutdownIsFinal`, and `IInv`: the loop stands at a frame boundary. |

Four runs state what a document of the repository says and find the code doing
something else (`PROJECT.json` quotes the lines):

* `confirmation_heard`: with two entries pending, even an expired one, a reply
  through the SDK reaches neither (`plugin.py:754`).
* `control_timeout`: the retry after an unconfirmed FLUSH takes its own value for
  already set and reports success (`reconnect.py:97`, `macm.py:470`).
* `optimize_low`: on a fan capped below 100 % `optimize_thermal` loops for ever
  while the GPU stays hot (`optimize.py:206`).
* `profiles_disconnect`: a disconnect in the middle of a slot leaves the controls
  before it changed (`profiles.py:398`).

### Where code and documents part otherwise

The following disagreements are in the models too. No run refutes the sentence of the
document; the properties that pass are worded so as not to claim it, and the hazards of
`PROJECT.json` name the line.

* requirements.md:164 clamps every written value to the reported limits. The limits are
  read by one call and the value is written by another, which looks at none
  (`plugin.py:219-222`, `macm.py:436`, `profiles.py:388-398`, `optimize.py:291-292`), and
  a retry sends the value clamped before (`reconnect.py:97`). After a restart with
  other limits in between the value is outside those in force.
  `AppliedWithinLimitsRead` says inside limits *read*; `OInv` (`Fits`) likewise.
* `macm.py:17-18` says that the read-back never sees a mid-flight value. It does if
  another client writes between the completed poll and the read; `ReadBackIsInForce`
  excepts exactly a write of another client that is pending.
* requirements.md:230 has `optimize_thermal` verify within 30 s of execution, and :97
  bounds an execute at 30 s. The code opens a window of 30 s at each step of its loop.
  The number of steps is bounded (`OptimizeReturns`, `OptimizerCountsDown`), the time
  is not that of the requirement.
* requirements.md:228 asks for a reduction of at least ten points. The value is
  validated afterwards, so a floor of the fan, or a setpoint within the tolerance, cuts
  it short.
* `optimize.py:20-21` says that a failed `optimize_quiet` restores the fan to its prior
  setpoint. The restore is a write, which makes the fan manual (`macm.py:476`); one that
  was automatic stays manual. The user is told "I restored the fan" also where the
  restore failed (`optimize.py:177-179`, `:293`).
* requirements.md:179 (7.3) has `reset_tuning` set the stock defaults, and 10.6 speaks
  of restoring. The function re-applies the slot that matches the values in force
  (`plugin.py:482-484`, `profiles.py:266`), so it can only restore what is there already.
  No property asserts or denies it.
* Requirement 1.2 (requirements.md:91) and `transport.py:7-10`, `:164` let no frame end the
  loop. An oversized frame's payload is not discarded (`transport.py:107`), a
  deeply nested one raises `RecursionError` (`:118`), and an id or ping value with an
  unpaired surrogate raises `UnicodeEncodeError` when it is echoed (`:157`). All three
  are actions of `Transport`; `FramesAreAnswered` is stated for sequences without them.
* A cleared nickname may come back: after a clear whose save failed, a second clear is
  answered "no nickname to clear" (`nicknames.py:65`), and the next start loads the name
  (`AcknowledgedIsOnDisk` names this exception).
* A slot's name is accepted as a nickname of another slot (`nicknames.py:150`).

Things a reader of the code may not expect, which no document denies:

* The decision before a prompt takes a fan in automatic mode that happens to run at
  the requested speed for already set (`plugin.py:853`); the write under the mutex
  does not (`macm.py:467`). `FanSetIsManual` is stated for the latter.
* A second `initialize` answers "ready" from an old sample when its poll fails: only an
  error of `get_status` makes it "degraded" (`plugin.py:595-600`).
* Given an instance id, the reader calls a directory with several files of other GPUs
  ambiguous rather than empty; the plugin never gives it one.
* The summary of a report says that no profile slot matches also when two do
  (`Ownership`: `active` is None in both cases).

### Bounds

* `Confirmation`: two limits that a restart may exchange, two risky functions (one with
  a value, one without), one of low risk, three tokens, a clock up to 3, lifetimes 1 and
  2. Three tokens allow two prompts of one function beside one of another; the clock
  reaches "late for the prompt" and "late for the token". Tokens are symmetric.
* `ControlWrite`: the fan and one control the hardware may refuse, two values
  further apart than the tolerance, a request that rounds, the second GPU, four
  headers (larger than the code's own structure, a view too short, a single GPU, not
  filled in yet), a timeout of two polls, a
  cooldown of one: a FLUSH can be served before, between and after the polls, and the
  retry falls before and after the cooldown.
* `Optimize`: fan speeds 0..5, steps of 2, so the last step is cut off by the cap, a
  fan with a floor, two reads per window; the range may change between any two steps.
* `Telemetry`: the code's own seconds (2, 1, 5), delays up to 2 s, ages saturate
  past the threshold, skew of the wall clock up to 2 s; initialize at any time, again
  and again.
* `Profiles`: two slots, two controls, four values, some of them within the tolerance
  of others, a maximum that a restart changes between two of them. Four files, which
  between them have two slots, a slot with garbage and an ignored key, keys before any
  section and after a broken header, sections that come twice, an empty text, a
  spelling that nothing looks up, and no text at all (undecodable); directories that are
  missing, refused, empty, or hold two cards. The user saves to one slot, and moves or
  saves up to `MaxMoves = 2` times during a report: enough for a change before and after
  the read of the file.
* `Nicknames`: two slots, four names (two equal but for case, one that reads as a
  slot, one reserved), files with doubles, reserved names, broken or absent.
* `Monitoring`: header fields of three bits, structures of 2, 3 and 2 bytes, at most two
  entries and one GPU; a sensible header and seven that differ from it in a field or
  two, among them one without GPU entries and one without others; regions smaller than
  the header, exact, and with room; two tables, with two sources of a field on one GPU
  and with entries of another GPU between; one value and "unavailable".
* `Transport`: three frames of three cells, each of any of the six kinds, so that a
  header can be split from its payload and the first frame can be oversized with two
  following. The loop may end, hence no deadlock check there.

### Fairness

`ControlWrite` has strong fairness of the plugin's steps: the thread runs, and it
gets a mutex that is released again and again because Windows queues waiters;
weak fairness of the other client's release, which the code needs since it waits
without limit (`macm.py:738`). Nothing is assumed of Afterburner. `Optimize` and
`Transport` have weak fairness of the plugin's own steps: one thread with nothing to
wait for but sleeps that end and, in `Transport`, input that has arrived. The other
specifications have safety properties only.

## 4. What is proved

Every safety property of a passing run, the refinement of `Consent` included, is a
theorem. They hold for all values of the constants that satisfy the named assumptions
(`ConfirmationAssumption`, `ControlRegionAssumption`, `ControlWriteAssumption`,
`OptimizeAssumption`, `TelemetryAssumption`, `DiagnosticsAssumption`,
`ProfileFileAssumption`, `ProfilesAssumption`, `OwnershipAssumption`,
`NicknamesAssumption`, `MonitoringAssumption`, `TransportAssumption`), which TLC
evaluates for the instances.

The library's induction theorems take an operator and cannot be used by the provers
that are installed. Where induction is needed (the lines of a file, the least
index of a source), it is obtained in terms of sets: a set of natural numbers that is
not empty has a least element, because `<` is well founded on them
(`LeastNumber` in `ProfilesProofs` and in `MonitoringProofs`; `Induction` and
`Recursion`, which unfolds a function that is defined by recursion, follow from it).

Liveness is out of the prover's reach. What carries it is proved: in `ControlWrite`,
`Optimize`, `Profiles` with `Ownership`, and `Transport`, each step of the plugin
lowers a natural number, `Left`, that no step of anybody else raises (`CallsCountDown`,
`OptimizerCountsDown`, `OperationsCountDown`, `LoopCountsDown`), and in the first three
`Left` is bounded, and 0 exactly between operations (in `Optimize` where every fan
reaches 100 %). For `Profiles` with `Ownership` this is the action property
`OperationsShorten`, which TLC checks as well. So no schedule makes an
operation longer; that the plugin does take its steps is fairness, and that
one of them can be taken is ENABLED, which TLC checks where liveness is.

* **`ConfirmationProofs`.** `ConfirmationInvariant`: `IInv` is inductive. The
  property wanted is "an in-time reply finds its token". It needs that the entry's
  token is registered, for this function, and outlives the entry
  (`EveryPendingHasItsToken`); this survives the spending of other tokens only if
  no two entries share one (`PendingAreUnique`, `TokensAreUnique`), and a prompt
  only if tokens are drawn fresh. `InTimeReply` follows, where
  `PassthroughTimeout <= TokenTTL` enters. `ConfirmationImplementsConsent` maps
  each step to one of `Consent` or to a stutter. `ReplyAffirmsLastPrompt` needs a
  further invariant: if one entry is pending, it is that of the last prompt.
  `AppliedIsWithinLimitsRead`: a value is applied only by an executor, which clamped it
  earlier in the same run (`WriteIsClamped`); `held` collects the limits of that time.
* **`ControlWriteProofs`.** `ControlWriteInvariant`: `ReadBackIsInForce` speaks of
  the moment of the answer; its strengthening goes back to the write. The mutex
  excludes Afterburner from the read-modify-write (`MutexForWriteOnly`), a write
  leaves FLUSH pending or the map in force (`DivergenceIsOwed`), so a cleared
  command word means equality (`CompletionIsAfterApply`), unless a word of a killed
  writer stands in the map, which every FLUSH covers (`NothingTornIsAwaited`), or another
  client has written since, whose own FLUSH is then pending (`IntrusionIsPending`).
  `ValueReadIsInForce`, `ReportedFanIsManual` and `NoChangeIsTrue` follow.
  `EveryWriteIsOwn` is the arithmetic of the layout: a header that passes the checks
  puts entry `Gpu` behind itself and inside the view, beside and not over the others.
* **`OptimizeProofs`.** `OptimizeInvariant`: the control flow and the range of
  the fan. `SuccessIsAlwaysMeasured` needs no more.
  `QuietAlwaysRestoresSpeed` needs that the operation remembers where the fan was
  (`FanInv`): until somebody else moves it or the limits, `base` is its first position,
  and what is restored is `base` clamped into a range that contained it; the write of it
  clears the automatic mode. `ThermalAlwaysRaises`: neither the fan nor the setpoint is
  ever below where the fan was (`Remembers`). `OptimizerCountsDown`: each turn of the
  loop raises the setpoint that is asked for (`Upward`), and 100 % ends
  it; this takes `FullSpeedReachable`, that every range ends at full speed. Without
  it the run `optimize_low` shows the loop that never ends.
* **`TelemetryProofs`.** `AnswerIsCached`: an answer is the cached sample at its age
  (`Honest`), by whichever of the four branches it is given; `OldIsAlwaysFlagged` is
  part of it. `PollsAreAlwaysSpaced` follows since an attempt with a sample in the cache
  is made only past the limit. `DInv` adds that a cause was classified from the sample
  in the cache (`Founded`), whence `DiagnosisIsAlwaysFresh` and
  `CauseAlwaysHasItsSignal`, rule by rule in their order. `StartupImplementsDiagnosis`
  carries all of these to the specification that the run checks; `ReadyAlwaysServes`
  needs that a sample, once cached, is replaced and never dropped (`SampleStays`).
* **`ProfilesProofs`.** `OperationsInvariant`: while a slot is applied, the prefix of
  `Keys` that is done holds the stored values, clamped to some limit, or a notice
  (`AppliedIsStored`, `SafeIsStored`, `NothingIsDropped`), and nothing is applied before
  there is a slot (`AppliedInTurn`). Verification compares what
  was applied with what is in force in the same step as the answer, so
  `LoadedIsAlwaysActive` holds although everything moves before. `QuietReportsAgree`:
  as long as nothing moved, each part read so far is what it would be now (`Calm`).
  `SnapshotsAreTheFile` is about the parser, for a file of any length: it walks through
  the lines with a current section and a map of texts, and by induction the section
  after j lines is that of the last header (`CurrentIsTheSection`), and the text of a key is
  that of its last setting in that section (`TextIsTheLast`), as `Meaning` says without
  walking (`ReaderIsRight`). `TypesAndStages`: a slot holds only texts and `None`, so its
  types follow from those of the file; that needs that what the user saves is a file
  again. `NamedWasAlwaysActive`: what a saved section changes is its own slot and no
  other, which holds the values in force (`Rewritten`, `Saved`, with `WithoutKeeps` for
  the lines that stay). So a slot that was read is still what the file says, or has
  been in force since it was read (`Remembered`), and the slot that is marked at the
  end was in force at one moment of the call.
* **`NicknamesProofs`.** `NicknamesInvariant`: the payload of a save is the map in
  memory (`SavesMemory`), which holds valid names only, so that loading what was
  saved gives that map back (`LoadRestores`). An answer that there is nothing to clear goes
  by the memory alone; `OthersAreSaved` ties that to the file in every slot whose last
  change was saved. `AcknowledgedSurvives` follows.
  `NoRequestMakesDoubles` rests on `ResolveIsOwner`: in a map without doubles a
  name of an owner resolves to it.
* **`MonitoringProofs`.** `EntriesFit`, `GpusFit` and `RegionFits` are the arithmetic: a
  header that passes `Verdict` lays its structures side by side behind itself, the last
  one ending at the declared end, which is within the copy. `MonitoringInvariant` brings
  that header to the loops: the checks and the loops read one copy, which no step of
  Afterburner touches (`CheckedBeforeBuilt`). `EveryReadIsInside` follows, for any
  header and any size of the map. `EverySampleIsPublished` needs that each row copied
  was published since the call began (`RowsWerePublished`), and that the row chosen is
  one of those copied because the header declares no more. `FieldIsTheFirst`: the row
  chosen exists, and is the only one, whenever the GPU has a source of the field; so a
  field is missing only if there is none, or the first entry of the first source holds
  no value.
* **`TransportProofs`.** `LoopStands`: until an oversized frame came, the loop has
  consumed whole frames and answered each (`Standing`), with `read`, `need` and the
  number of answers in step; and it is not beyond a shutdown (`Ahead`). The lemma
  `NextHeader` is the arithmetic of cells and frames. `LoopReadsHeaders`,
  `FramesAnsweredInOrder` and `NothingAfterShutdown` follow.

## 5. Only model-checked, and not modelled

Only model-checked: liveness (`EveryCallReturns`, `OptimizeReturns`,
`FramesAreAnswered`), which needs ENABLED and fairness; section 4 says which part of it
is proved. The four properties that the code violates are refuted by TLC, each by a
behaviour.

Not modelled:

* Fan curves: no interface that the plugin can be built with advertises them, so
  validation and application always refuse; `set_fan_curve` is a refusal in
  `Confirmation`.
* `reset_tuning` of the interface (`macm.py:1103-1126`), which nothing in the plugin
  calls, and `read_all_telemetry`. By its text the former reports "verified" without
  a read-back.
* `combined.py`, `fallback.py`, `fake.py`: delegation without decisions, and stand-ins
  for tests. The choice between fallback and shared memory is `avail` or `up`.
* The vendored SDK (its effects on the order of inputs are the constant-free choice
  `loop` of `Confirmation`), wording, logging, build and tools.
* A request that the engine times out is a kill in `ControlWrite` and `Nicknames`;
  elsewhere the plugin's answer simply comes late.

## 6. What could follow

* `Confirmation` over `ControlWrite`, where limits and values come from one map, and
  `Optimize` and `Profiles` over an abstract write path that `ControlWrite` is shown to
  implement.
* `Telemetry` over `Monitoring`, where a hung Afterburner's values count as new at each
  poll (`mahm.py:294` parses the time of the header, and nothing compares it).
