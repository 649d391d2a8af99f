# TLA+ models of koviz

This directory holds TLA+ models of the koviz sources under `src/`, the TLC
configurations that check them, and `PROJECT.json`. `PROJECT.json` records the
component inventory, the runs, the mutants, the map from each definition to
its source lines, the findings and the hazards.

## The system and its parts

| Part | Source | State it changes | Interacts with |
|---|---|---|---|
| `writeTrk` (`-dp2trk`) | `src/koviz/main.cpp` 628-879 | the destination `.trk` file; the map/unmap state of each curve | curve storage (`TrickCurveModel`, `TimeStamps`, outside `src/`); `main` |
| `writeCsv` and the `-dp2csv` loop | `main.cpp` 430-487, 881-949 | one csv file per DP table | `main`'s output-name scheme |
| `convert2csv` / `convert2trk` | `main.cpp` 997-1139 | the converted file | the csv parser and the trk header writer |
| `main()`: option handling and mode dispatch | `main.cpp` 91-531 | the exit status; which outputs are produced | every other part of `main.cpp` |
| run selection and variable maps | `main.cpp` 534-626, 951-995, 1143-1321, 1719-1739 | none (pure) | `main` |
| Monte input models | `main.cpp` 294-337, 577-601, 1332-1739 | the input table model | monte_runs files |
| `VideoWindow` | `src/libkoviz/videowindow.cpp` | the `mpv` handle; the status bar; the emitted times | the mpv thread, through a wakeup callback and a queued signal |
| `SJobExecThreadInfo` | `src/libsnaprt/sjobexecthreadinfo.cpp` | `_hasInfo`, `_kind`, `_freq`, `_rtCPUNumber` | the S_job_execution file |
| `FieldDescription` (ICG) | `src/trick_source/.../FieldDescription.cpp` | `io`, `units`, `description`, `array_sizes`, `num_dims` | the comment text of a field; the global `valid_units` cache shared by all fields |
| `BookIdxView` | `src/libkoviz/bookidxview.cpp` 248-495 modelled | none in the folds; the legend rectangles the painter draws | the plot book model |
| headers | `plot.h`, `varswidget.h`, `plotbookmodel.h`, `layoutitem_xaxislabel.h` | declarations only | |

Everything runs on the GUI or main thread, with one exception: `VideoWindow`
is woken from mpv's own thread. So the only real concurrency is in
`VideoWindow`. The other parts are sequential. Their hard cases are error
exits part-way through, and boundaries such as the end of a curve, an empty
input or a missing key.

## Modules

### TrkExport (writeTrk)

`TrkExport.tla` models `writeTrk` step by step. It has one action per branch
of each of the code's four phases.

- **check**: the loop over `paramList`.
  - `CheckSkipTime`: the time parameter is skipped.
  - `CheckNoCurve`: no curve exists, so `return false`.
  - `CheckRejected`: `map()`, then the no-data or start-time error exit.
  - `CheckAccept`: the curve is appended, with map and unmap.
  - `NoParamsFound`: `params.size() < 2`.
- **freq**: the frequency loop.
  - `FreqIrregular`: the span check fails while the curve is mapped.
  - `FreqInfer`: updates the stop time, the frequency set and `curve2freq`.
  - `FreqSkipShort`: a curve with `rc <= 1`.
  - `BuildTimeline`: `usort` and `TimeStamps`.
- **open**: `OpenFails`; `OpenAndReserve` (open, header, `resize`).
- **write**:
  - `WriteTimeColumn`.
  - `BeginCurveColumn`: `map`, `begin`, and `lastValue` and `lastTime` set to 0.
  - One iteration of the resampling loop is one of:
    - `ResampleOnTimeline`: `t - timeStamp < 1e-9`, so write `it.y()` or `it[rc-1].y()`, then `++it`.
    - `ResampleHold`: write `lastValue`.
    - `ResampleBadTimestamp`: unmap, close, `return false`.
    - `ResamplePastEndFault`: the read past the mapping faults.
  - `EndCurveColumn`: unmap.
  - `CloseTrk`.

The variables mirror the code's locals:

| Variable | Code |
|---|---|
| `k` | the loop index |
| `cols` | the `curves` list |
| `mapCount` | each curve's map count |
| `stopTime`, `freq` (`curve2freq`), `freqs`, `timeline` | the same-named locals |
| `file` | the destination path |
| `cells` | the reserved data area, indexed by (record, column) |
| `col` | `i` |
| `cur` | the loop's `j`, `it`, `lastValue` and `lastTime` |

Data is abstracted as follows.

- **Time** is integer ticks. The code's tolerances (`1e-9`, `1e-6`) become
  exact comparisons, and `ROUNDOFF` of a tick frequency is the identity.
- **A sample value** is named by its (param, row), so a property can say
  *which* sample was written.
- **Reading past the end of the data** is undefined behaviour in the code.
  `it.t()` and `it.y()` are called on an iterator beyond `end()`. The model
  makes this a choice given by two constants:
  - `PastEndTimes`: what the read can return (the zero-filled tail of the
    last page is `{0}`);
  - `PastEndMayFault`: whether the read can fault.
- **Curve storage** is outside `src/`, so these are modelled from the spec:
  - `TrickCurveModel::indexAtTime`: the first row at or after `t`;
  - `TimeStamps`: the sorted multiples of every frequency up to the stop time.

`MCTrkExport.tla` gives the constants their model-checking values:

- two data parameters `p1` and `p2`, with the time parameter requested
  between them;
- as a second candidate list, a request for time alone;
- and for each curve, one of four choices:
  - no curve at all;
  - any strictly increasing time column over ticks -1..4 (`SmallSeries`): 64
    columns, with 0 to 6 rows, frequencies 1 to 4, curves starting before,
    at or after 0, and regular or irregular sampling;
  - a fixed set of irregular columns whose span still passes the frequency
    check (`IrregularSeries`);
  - one curve much shorter than the other (`ShortSeries`).

### Dp2Csv (the `-dp2csv` loop and writeCsv)

`Dp2Csv.tla` models the `isCsv` branch of `main` (main.cpp 430-486) and
`writeCsv` (881-949). `dps` is the list of DP files, each given as its number
of tables. `d`, `t` and `i` are the two `foreach` positions and the output
index shared by every multi-table DP file. `ret` is `main`'s `ret`. `written`
is the set of files written. `attempts` (the names passed to `writeCsv`) and
`failed` are history variables.

- Exit actions: `WrongRunDirs` (not exactly one RUN directory) and `NoTables`.
- `WriteTable`: computes the file name, with `++i` for a multi-table DP. It
  then takes one of three branches: refused because the file exists, open
  fails, or written.
- `NextDP`: the `if ( ret == -1 ) break;` test at the end of a DP file.
- `LoopDone`: leaves the outer loop.

A path is a record `[dir, name]`. The `-dp2csv` path lies in `CsvOutDir`. An
indexed name is built from `completeBaseName` alone, so it lies in the
working directory.

### Convert (`-trk2csv`, `-csv2trk`)

`Convert.tla` models the conversion section of `main` (183-216), the option
presets `presetExistsFile` and `presetOutputFile`, `convert2csv` and
`convert2trk`. It does so over a file system `fs` that persists across up to
`MaxRuns` koviz invocations.

- A trk file is its column count and its data as one flat stream of values.
- A csv file is the width of its header and its lines of fields.
- A field is the value it denotes, because `QVariant(double).toString()`
  round-trips through `toDouble()`. `BadField` is a field `toDouble` rejects.

The actions are:

- `Invoke`: one invocation's options.
- `Parse`: the presets. An input must exist, and `-o` must not.
- `Trk2Csv`: one of four outcomes. The trk reader throws (so `exit(-1)`), the
  output exists, the open fails, or the csv is written.
- `Csv2Trk`: one of five outcomes. The csv is empty, the output exists, the
  open fails, a bad value is met (then `trk.remove()`), or the trk is written.

`origin` records how each file came to be, so `RoundTrip` can compare a
converted-back trk with the original. The trk reader (`TrickModel`) is
outside `src/`. From the spec, it is modelled as accepting only whole rows.

### VideoSync (VideoWindow and mpv)

`VideoSync.tla` models `src/libkoviz/videowindow.cpp` and its two threads.

- **mpv's core thread**: `Play` advances `time-pos`. `ReachEnd` pauses on the
  last frame (`keep-open=always`). `TogglePause` and `Quit` are keys typed
  into the video window (`input-vo-keyboard`). `RunCommand` runs a queued
  seek or loadfile. Each of these queues its event with `Push`.
- **The wakeup**: mpv runs `wakeup` only when no wakeup is outstanding, and
  `mpv_wait_event` clears that flag (`needWakeup`). `wakeup` emits
  `mpv_events` through a `QueuedConnection`, which posts an
  `on_mpv_events` call (`posted`).
- **The GUI thread**:
  - `Deliver` starts a posted `on_mpv_events`.
  - `DrainStep` is one iteration of its `while (mpv)` loop.
  - `Handle` is `handle_mpv_event`. It forwards a time to koviz
    (`kovizTime`) if mpv is playing or the video window is active, and on
    `MPV_EVENT_SHUTDOWN` destroys the handle and sets `mpv` to NULL.
  - `SeekTime`: `seek_time`, called when koviz's time changes.
  - `FileOpen`, `Focus` and `Destroy` (the destructor).

mpv's wakeup contract is what makes `on_mpv_events` a loop. That contract,
and mpv's behaviour generally, are outside `src/`, so they are modelled from
mpv's client API documentation. The status bar text is left out.

**Refinement.** `MpvEventChannel.tla` is the abstract specification of what
the event pump promises. It is a FIFO channel from mpv to the GUI. mpv `Put`s
events while the window holds the handle. The GUI `Take`s them in order.
Taking the closing event gives the handle up, and `Close` (the destructor)
may give it up at any time. Every event in an open channel is eventually
taken (weak fairness on `Take`). `VideoSync` instantiates it as `Channel`,
with this refinement mapping:

- `queue` is mpv's own event queue;
- `open` is `mpv = "handle"`;
- `Closing` is `MPV_EVENT_SHUTDOWN`.

The video_sync run checks `ChannelSpec == Channel!Spec` as a property. So
every step of `VideoSync` is a step of the channel, or leaves it unchanged,
and the coalesced wakeup still takes every event out. The first claim covers
a shutdown handled mid-drain and a destructor racing mpv. The second is the
wakeup contract: without the drain loop, an event can sit in the queue
forever. Handling one event per call (`DrainStepOnce`) breaks it.

Fairness: weak fairness on `Deliver` and `DrainStep`, because the Qt event
loop runs every posted call. Also weak fairness on `RunCommand`, because
mpv's core runs the commands it is sent. There is none on user actions or
playback.

### SJobThreadInfo (SJobExecThreadInfo)

`SJobThreadInfo.tla` models `src/libsnaprt/sjobexecthreadinfo.cpp`.

- `Construct` and `SetThreadId` each run `_calcThreadInfo` on the same
  object, so a sequence of calls reuses the members.
- `_calcThreadInfo` takes one `readLine` per step:
  - `CalcStart`: the early returns.
  - `Scan`: the search for `Thread <id>`.
  - `ReadType` and `ReadCpu`: the Type and rt_cpu_number lines.
  - `Thread0` and `ScanAdvance`: for thread 0, the search for the
    `advance_sim_time` job line.
  - `FreqCheck`: the `_freq == 0.0` check.
- `Throw`: appends to the static `_err_string`, and throws it.

A file line is a record of its kind (`header`, `thread`, `type`, `cpu`,
`adv`, `other`), the class of its text, its number and whether the number
parses. `MCSJobThreadInfo.tla` gives eight files: well formed, a missing
thread, a missing frame time, unparsable values, a short job line, no
header, empty, and unreadable.

### FieldDescription (Trick ICG)

`FieldDescription.tla` models
`src/trick_source/codegen/Interface_Code_Gen/FieldDescription.cpp`: one
field's description at a time, and the global `valid_units` cache shared
by all of them.

- `NewField` is the constructor (`io = 3`, `units = "1"`, no dimensions).
- `ParseComment` is the whole of `parseComment`. It covers:
  - the empty-comment return (`io = 15`);
  - `trick_chkpnt_io`, `trick_io` and the stand-alone `*io` (`IoMap` is
    `create_io_map`; an unknown spec reads as 0, as `io_map[...]` does);
  - the `trick_units` bracket stack (`MatchEnd`, a RECURSIVE operator, and
    `TrickUnits`) and the stand-alone units (`LeadUnits`);
  - the udunits check through the cache (`Validate`);
  - the io and checkpoint composition (`ComposeIo`);
  - the description (`Describe`, 270-301): the text before the last `*/`
    (`BeforeEnd`), after the leading blanks and `@` (`AfterLead`), trimmed,
    then the escape loop folded over it (`EscapeChar`). `\` and `"` are
    escaped, and a run of blanks becomes one space. A regex that does not
    match gives "", as `get_regex_field` does. The `\b` and `\f` escapes
    are left out.
- `AddArrayDim` and `GetArrayDim` are the array dimension store.

A comment is abstracted to what the regular expressions pick out of it. The
text after `trick_units` is kept character by character, so the bracket
matching is the real algorithm. `RefUnits` states what a bracketed units
text is without a stack, using bracket counts and the largest surplus of
`(` over `)` of a suffix. `map_trick_units_to_udunits` and `ut_parse` are
outside the repository. They are the constants `MapUnits` and `Udunits`.
`MCFieldDescription.tla` enumerates:

- every io spec combination;
- every `trick_units` text of up to four characters over `( ) { } m`;
- every stand-alone units text of up to three;
- every description text of up to three characters over `a`, a blank, `\`
  and `"`, and the four-character texts `a x y a` with `x` and `y` a blank
  or `\`.

The model lets `parseComment` run once per field. Its callers are outside
the repository.

### BookIdxView (axis unit, legend layout and pixel transform)

`BookIdxView.tla` models three routines of `src/libkoviz/bookidxview.cpp`.
Each behaviour is one call (`call`), and each step is one pass of the
routine's loop. The inputs of the routine that is not called stay fixed.

- **Unit fold.** `UnitStart` is the entry of `_curvesUnit`: a bad axis
  aborts, and no `Curves` or no `Curve` child gives `--` (`CurvesEntry`).
  `XUnitStart` is `_curvesXUnit`'s entry, which has no axis. `UnitStep` and
  `XUnitStep` are one pass of the two routines' `foreach`, which is the
  same code (`UnitPass`). A curve is the unit child of the asked axis, `[has, u]`.
- **Legend.** `PaintLegend` is `_paintCurvesLegend`'s early returns and
  the appended error entry. `LegendBox` computes the box, using `Margins`
  and `BoxWidth`. `LegendEntry` is one pass of the entry loop, kept as the
  rectangles it draws (`drawn`). `Right` and `Bottom` are QRect's, which
  are inclusive.
- **Transform.** `CoordToPixelTransform` is `_coordToPixelTransform`. It
  returns the identity without a curves view. Otherwise it computes
  `a = du/dx`, `b = dv/dy`, `c = -a*x0` and `d = -b*y0` (`Transform`) over
  `_mathRect`'s rect (`MathRect`). `MathRect` keeps the plot's math rect
  when the two viewports have the same size, since `rect()` is at (0,0).
  Otherwise it scales the rect by math units per curves-view pixel (0 for
  an empty curves view) and shifts it by the global offset `V - W`. The
  doubles are exact rationals (`Q`, `QDiv`, ...). A zero-size math rect
  gives a non-finite transform, as `du/0` does in IEEE arithmetic. A
  viewport is `[gx, gy, w, h]`: its global top left and its size.

The fonts are a normal one (lineSpacing 15, so `v = 1`) and a tiny one
(`v = 0`). Together they give both spacings the code can produce.

### MonteInput (run selection and the Monte input table)

`MonteInput.tla` models how koviz chooses its runs and builds the Monte
input table (`main.cpp` 294-337, 577-601, 1332-1739). `pc` follows `main`,
and each parser step reads one line (`pos`).

- `Init`: one `MONTE_` directory (its `RUN_*` entries, sorted), or RUN
  directories given one by one.
- `Options`: `opts.parse` and the exit when it fails. `Parse` folds
  `Preset` (`presetBeginRun`, `presetEndRun`) over the `-beginRun` and
  `-endRun` options in command-line order (`args`, none, one or two of
  them), starting from the defaults 0 and 100000. Each preset compares
  with the other option's value as it stands when it is parsed.
- `Select`: the `runsSubset` call of `main`, through `RunSelect`.
- `RunsModel`: `runsInputModel` for RUN directories.
- `Detect`: `monteInputModel` looks for a `NUM_RUNS:` line.
- Trick07 parser:
  - `Seek07` finds the `NUM_RUNS:` and `VARS:` lines.
  - `Vars07` reads the variable list.
  - `Data07` reads the data lines into row `nDataLines`.
- Trick17 parser:
  - `Check17` is the sanity loop and the header.
  - `Data17` reads the data lines into row `lineNum-1`.
- `Headers07` and `Headers17` are the two copies of the loop that sets the
  vertical headers and `[beginRun, endRun]`. Both go through `RowHeaders`.

A RUN name is `[path, num]`. A monte_runs line is `[k, id, ok, n]`: its kind,
the run id, whether the id parses (Trick07: whether the line has its `#`),
and how many values it has. The table is a set of `<<row, RunId>>` pairs.
Values are left out, because the parsers only count them. Every `exit(-1)`
is `pc = "exit"`. The out-of-range `vars.replace(0, ...)` on an empty
monte_runs is `pc = "crash"`.

### RunSelect (runsSubset)

`RunSelect.tla` holds `runsSubset` (`main.cpp` 1719-1739), which MonteInput
and KovizMain both use. `IdOf` is `run.mid(4).toInt(&ok)`. `InRange` is the
keep test. `RunsSubset` is the filtered list; `main` exits when it is empty.

### KovizOptions (getVarMap, getVarMapFromFile, getShiftHash, getTimeNames)

`KovizOptions.tla` turns option strings into tables. Its properties are
about how those strings are cut up. So a string is kept as a sequence of
one-character strings, and `QString::split`, `trimmed` and `QHash::insert`
are modelled by what they do (`Split`, `SplitSkip`, `Trimmed`, `@@`).

- `VarMapEntry` is one pass of `getVarMap`'s loop, and `GetVarMap` folds it
  over the entries.
- `GetVarMapFromFile` appends the file's lines and calls `GetVarMap`.
- `ShiftEntry` is one pass of `getShiftHash`'s loop, and `GetShiftHash`
  folds it over the entries.
- `GetTimeNames` is `getTimeNames`.

A result is `[ok, map]`. `ok = FALSE` stands where the code calls
`exit(-1)`.

### KovizMain (main)

`KovizMain.tla` is `main()` after `opts.parse` (`main.cpp` 91-531). Its
steps follow the code's order, with every exit and early return:

1. `Start`: the `DP_`/run split. No runs and no conversion is an error.
2. `Maps`: `-map`/`-mapFile`.
3. `ShiftHash`, then `GetTime`.
4. `Convert`: `-trk2csv`, then `-csv2trk`.
5. `ReportRT`: `-rt`, and the early `return 0`.
6. `CheckOutputs`: the `-pdf`/`-dp2trk`/`-dp2csv` checks.
7. `SelectRuns`: a `MONTE_` directory's entries or the RUN directories,
   through `RunsSubset`.
8. `LoadRuns`: new `Runs`, which may throw.
9. One of `WritePdf`, `WriteTrk`, `WriteCsv` and `ShowWindow`.

Each option is chosen when `main` first reads it. Options that are never
read are chosen at the early return. That gives the same behaviours as
choosing them all up front, with far fewer states.

The model keeps a table only until its property is checked. The shift and
variable tables only go to `Runs` and the window, so they are dropped after
that. The conversions, the `-rt` report, loading the runs and the writers
are modelled by their outcome. `Convert`, `TrkExport` and `Dp2Csv` model
what happens inside them.

`status` is `ret` or the argument of `exit`. `written` is the set of
outputs produced. `trkTime` and `csvRun` are what `writeTrk` and `writeCsv`
were given.

## Runs

| Run | Cfg | Expect | What it shows |
|---|---|---|---|
| trk_export | `MCTrkExport.cfg` | pass | See the list below. |
| trk_map_leak | `MCTrkExport_MapLeak.cfg` | violation | An early return in the check or frequency loop leaves the curve mapped (`MapsReleasedOnReturn`). |
| dp2csv | `MCDp2Csv.cfg` | pass | One to three DP files of zero to two tables each, with or without a pre-existing output. The batch stops at its first failure (`StopsAtFirstFailure`), and exit 0 means every table was written (`SuccessMeansAllWritten`). 1,131 states. |
| convert | `MCConvert.cfg` | pass | Two invocations on a shared file system. Trk to csv to trk gives back the original data (`RoundTrip`). No bad field reaches a trk (`TypeOK`). 80,936 states. |
| video_sync | `MCVideoSync.cfg` | pass | The event pump implements the FIFO channel `MpvEventChannel` (`ChannelSpec`): every queued mpv event is handled, in order. 406,692 states, under 30 s. |
| sjob_thread_info | `MCSJobThreadInfo.cfg` | pass | Up to three constructor and `setThreadId` calls on each file. Every normal return for a thread the file describes reports that thread's kind, frequency and rt_cpu_number (`InfoMatchesFile`), compared against a reference reading of the file. |
| field_description | `MCFieldDescription.cfg` | pass | Two fields sharing `valid_units`, over about 2,000 comments. The bracket loop extracts exactly the reference units text, and reports unmatched exactly when there is no match (`UnitsMatchReference`). No field whose io is not `**` keeps units udunits rejects, also when the cache skips the check (`UnitsValidated`). The description of a C comment unescapes to its text, trimmed, with each run of blanks one space (`DescriptionRoundTrip`). 14,764 states, about 95 s. |
| video_null_handle | `MCVideoSync_Null.cfg` | violation | After the user quits mpv, a koviz time change calls `seek_time` on the NULL handle (`NoCallOnNullHandle`). |
| monte_input | `MCMonteInput.cfg` | pass | A Monte directory with RUN_00000 to RUN_00002, three sets of RUN directories given on the command line, and every command line of up to two `-beginRun`/`-endRun` options over 0..2, in any order. The monte_runs files are whole Trick07 and Trick17 files, plus one file for each error the parsers report. Whenever koviz goes on, the table has exactly one row per RUN in the range (`DataRowsAreSelectedRuns`). 7,362 states. |
| bookidx_view | `MCBookIdxView.cfg` | pass | 1,560 calls: up to three curves with units `m`, `s` or `""`, or no unit child, in each order; and legends of up to three labels under a normal and a tiny font. A unit the axis shows is the unit of every curve that has a non-empty one, and every curve has a unit child (`CurvesUnitSound`). Every legend entry lies inside the legend box (`EntriesInsideBox`). The box height is never negative (`TypeOK`). It also covers 2,304 transform calls over two plot rects (one with a flipped y, one degenerate) and viewports of sizes 0, 2 and 4 by 3 and 5 at four positions. A view beside the curves view draws every math point at the curves view's global pixel when its size differs, and along the shared axis otherwise, with a finite transform for non-empty views (`PixelsAligned`). 9,481 states. |
| koviz_main | `MCKovizMain.cfg` | pass | Eight command lines of DP files, RUN directories and a `MONTE_` directory; every conversion and output option; twelve `-map` values and five map files, among them empty parts, blanks, a missing `=`, an empty key or candidate, and a repeated key; thirteen `-shift` values; three `-timeName` values; three Monte directories; `-beginRun`/`-endRun` in 0..1. `getVarMap` accepts exactly the well-formed strings and builds the table a direct reading of the syntax gives, with the last entry for a repeated key (`VarMapMatchesReference`). 3,198 states. |
| monte_rows | `MCMonteInput_Rows.cfg` | violation | With `-beginRun 1`, Trick17 puts run 1's items at row 1, while the only row is headed 1 (`RowsMatchHeaders`). |

Twenty-five more configurations each check one property that TLC finds
violated. They reproduce findings 2 to 5, 7 to 15 and 17 to 27 below:

- `MCTrkExport_Partial.cfg` (`NoPartialOutputOnFailure`)
- `MCTrkExport_PastEnd.cfg` (`HoldBeyondCurveStop`)
- `MCDp2Csv_Collide.cfg` (`DistinctOutputNames`)
- `MCTrkExport_Lag.cfg` (`ZeroOrderHoldWithinCurve`)
- `MCTrkExport_StartTime.cfg` (`AcceptedCurvesStartAtZero`)
- `MCDp2Csv_Dir.cfg` (`OutputsBesideRequested`)
- `MCConvert_Rows.cfg` (`TrkFilesWholeRows`)
- `MCVideoSync_Stale.cfg` (`PlaybackReachesKoviz`)
- `MCSJobThreadInfo_Stale.cfg` (`NoStaleInfo`)
- `MCSJobThreadInfo_ErrString.cfg` (`ErrorMessageIsOwn`)
- `MCFieldDescription_Chk.cfg` (`CheckpointBits`)
- `MCFieldDescription_Dims.cfg` (`DimsRecorded`)
- `MCMonteInput_Missing.cfg` (`DataRowsAreSelectedRuns`, with RUN_00001 removed)
- `MCMonteInput_Range.cfg` (`SubsetHonoursRange`)
- `MCMonteInput_Dup.cfg` (`RunIdsDistinct`)
- `MCBookIdxView_Common.cfg` (`CurvesUnitIsCommon`)
- `MCBookIdxView_Spaced.cfg` (`EntriesSpaced`)
- `MCDp2Csv_Skip.cfg` (`NoTableSkipped`)
- `MCKovizMain_Status.cfg` (`StatusReportsOutputs`)
- `MCKovizMain_TimeName.cfg` (`TrkTimeIsAName`)
- `MCKovizMain_Csv.cfg` (`CsvReadsSelectedRun`)
- `MCKovizMain_MapFile.cfg` (`MapFileLinesSeparate`)
- `MCFieldDescription_Desc.cfg` (`DescriptionKept`)
- `MCBookIdxView_Align.cfg` (`PixelsAlignedEverywhere`)
- `MCMonteInput_Order.cfg` (`OrderFree`, with run ids 1, 200000 and 300000)

The trk_export run checks these properties over all 55,021 reachable states:

- `ZeroOrderHoldWithinCurve`: every written value within a curve's span is
  the curve's zero-order-hold sample.
- `SuccessfulExportIsComplete`: a successful export has written every
  reserved cell.
- `RegularInputExports`: regular data never trips the fail-fast checks,
  however the frequencies of the curves interleave.

Each violation run checks one property, and its counterexample is a finding
in `PROJECT.json`. Each property of a passing run has a mutant in
`PROJECT.json`. A mutant is a plausible bug in a mapped definition, and TLC
catches it under the run's configuration. The mutants include:

- `writeTrk`'s column loop forgets `map()`;
- `writeTrk` does not update `lastValue`;
- `writeCsv` leaves `ret` at 0 after a failure;
- `convert2csv` writes one field too few per row;
- `on_mpv_events` handles one event per call instead of looping;
- `handle_mpv_event` ignores `MPV_EVENT_SHUTDOWN`;
- `trick_units`'s `substr` keeps the closing bracket;
- the description loop never sets `is_space`, so blank runs are kept;
- `runsSubset` treats `-beginRun` as exclusive;
- Trick17 places items one row too high;
- `_curvesUnit` goes on past a curve without a unit;
- the legend width is the last label's, not the widest;
- `_mathRect` shifts by `W - V` instead of `V - W`;
- the legend height leaves out the margins;
- `valid_units` caches units before `ut_parse` has accepted them;
- `getVarMap` keeps the first entry of a repeated key;
- `main` exits with 1 instead of -1.

### Why the bounds are enough

These bounds make every case of the code happen, several times over:

- **Ticks -1..4** give curves of frequencies 1 to 4. That produces merged
  timelines where:
  - one curve holds while another advances (1 beside 2, or 2 beside 3);
  - curves stop at different times, so one is exhausted while the timeline
    continues;
  - a curve starts before 0 or after 0.
- **Two data parameters** are the fewest for which curves interact on a
  shared timeline.
- **Three or more parameters** add only more columns of the same
  per-column loop.

### Fairness

`writeTrk`, the `-dp2csv` loop and the conversions are single calls on the
main thread with no waits. Their specifications keep weak fairness on `Next`,
which says only that a call keeps taking steps; the code guarantees that. No
property of these runs depends on it: a finite loop always returns, so its
termination is not checked. `CHECK_DEADLOCK FALSE` is used because a returned
call has no further step.

`KovizMain`, `MonteInput` and `BookIdxView` end in a stuttering `Finished`
step instead. They state no liveness property: each step of `main` is a
finite loop over its inputs.

## Findings

Findings 1, 6 and 16 are violation runs. The other findings are
reproduced by the extra configurations listed above.

1. **Maps leak on three error returns** (main.cpp 692, 702, 767). The spec
   says storage views are released on every path.
2. **A bad timestamp leaves a partial trk file** (main.cpp 855). The spec
   says a failed export leaves no partial output.
3. **A curve exhausted two or more timestamps early** gets a value read past
   its data, not its last value (main.cpp 829, 833).
4. **`-dp2csv` silently skips tables** (main.cpp 94, 483). `ret` starts at
   -1. A first DP file with no tables leaves it there, and the
   `if ( ret == -1 ) break;` ends the loop with nothing written and no
   error.
5. **Single-table DP files collide** (main.cpp 457). Every single-table DP
   file writes to the `-dp2csv` name, so the second is refused.
6. **`seek_time` uses the NULL handle** (videowindow.cpp 56). After the user
   quits mpv, `handle_mpv_event` sets `mpv` to NULL. `seek_time`, unlike
   every other member, does not test it.
7. **Irregular data that passes the span check is silently written one
   sample late** (main.cpp 831). The spec promises fail-fast.
8. **A curve whose first sample is after 0 is accepted** (main.cpp 696). The
   spec says the export aborts unless row 0's time is 0.
9. **Indexed csv names drop the directory** of the `-dp2csv` path (main.cpp
   465, `completeBaseName`).
10. **`convert2trk` does not check row width** (main.cpp 1118). A csv with a
    short row becomes a trk that is not whole rows, against spec 8's
    `rowCount x rowWidth + headerSize == fileSize`.
11. **A playback time is dropped** (videowindow.cpp 81). mpv is paused, and
    koviz focused, between mpv queuing a time-pos change and the GUI
    handling it. The code reads core-idle at handling time, although its
    comment says "If mpv playing, update time".
12. **`setThreadId` keeps the previous thread's information**
    (sjobexecthreadinfo.cpp 23). This happens for a negative id, a thread
    the file does not list, or an unknown Type, because no member is reset.
13. **Exception messages accumulate** (sjobexecthreadinfo.cpp 6, 78).
    `_err_string` is static and never cleared, so a second failure's
    message repeats the first.
14. **`trick_chkpnt_io(--)` sets a fifth io bit** (FieldDescription.cpp
    139, 266). The `io == 4` fix-up ("Setting to *io (3)") is applied to
    `io` only, never to `chkpnt_io`. So `4 << 2` is or-ed in, and
    `trick_io(--) trick_chkpnt_io(--)` yields io = 19, not 15.
15. **A ninth array dimension is written past `array_sizes[8]`**
    (FieldDescription.cpp 483). `addArrayDim` has no bound. `getNumDims()`
    then reports 9 dimensions, but `getArrayDim(8)` returns 0.
16. **Trick17 rows disagree with their headers** (main.cpp 1651).
    `monteInputModelTrick17` puts a run's items at `lineNum-1`, the row of its
    line in monte_runs. The vertical headers number the runs `runsSubset`
    kept. So `-beginRun 1` gives a table headed 1 whose items are in the
    row below it. Trick07 counts rows with `nDataLines` and is right.
17. **Trick17 makes rows for RUNs that are gone** (main.cpp 1636). Trick07
    exits when a run id has no `RUN_` directory (1496). Trick17 never
    checks, so a Monte directory with a RUN removed still gets that run's
    row.
18. **`-beginRun`/`-endRun` ignore RUN directories given with a path**
    (main.cpp 1725). `runsSubset` parses `run.mid(4)`, which only works for
    a bare `RUN_nnnnn` name. Extra configuration `MCMonteInput_Dup.cfg`
    also shows that `dirA/RUN_00001` and `dirB/RUN_00001` get the same
    RunId (main.cpp 1683). Whether that is a bug is arguable.
19. **The axis unit depends on the order of the curves** (bookidxview.cpp
    279, 334). The fold reads an empty unit as "no unit yet". Curves with
    units `""` and `m` show `m`, and the same curves the other way round
    show `--`. The comment says the unit is returned only "if all curves
    have same x unit".
20. **Legend entries are one pixel closer than `v`** (bookidxview.cpp 467).
    `QRect::bottom()` is `top + height - 1`, so entries are `v - 1` pixels
    apart. Under a font with `lineSpacing` below 8 (`v = 0`, "0 works" says
    the comment) neighbouring entries overlap by a pixel. The box, which
    counts `v` per gap, ends `n - 1` pixels below the last entry plus its
    margin.

21. **koviz's exit status does not say what it did** (main.cpp 229, 406).
    `-trk2csv`, `-csv2trk` and `-rt` return 0 before the `-pdf`,
    `-dp2trk` and `-dp2csv` options are looked at. So `koviz -rt RUN_a
    DP_x -pdf out.pdf` exits 0 and writes no PDF. Also, the `-pdf` branch
    never assigns `ret`, so a PDF that was written ends koviz with -1
    (`StatusReportsOutputs`).
22. **`-dp2trk` names the time channel by the whole `-timeName` string**
    (main.cpp 416). `writeTrk` gets `opts.timeName`, not one of the names
    `getTimeNames` splits from it. spec.md (lines 33, 60) describes an
    alias list tried in order. With `-timeName "t=u"`, `writeTrk` looks up
    and writes a time channel named `t=u` (`TrkTimeIsAName`).
23. **`-dp2csv` reads a MONTE_ directory as the run** (main.cpp 433, 474).
    The check "Exactly one RUN dir" counts a single `MONTE_` directory,
    and `writeCsv` reads from `runDirs.at(0)`, not from a run koviz
    selected and loaded (`CsvReadsSelectedRun`).
24. **Lines of a `-mapFile` run together** (main.cpp 1301). The lines are
    appended with nothing between them. So a file with `a=b` on one line
    and `b=c` on the next maps `a` to `[bb, c]` and loses `b`
    (`MapFileLinesSeparate`). spec.md line 59 describes comma-separated
    entries, so a file with one entry per line is arguably misused. But
    the error is silent.
25. **Some comments lose their description** (FieldDescription.cpp 273,
    277). `get_regex_field` returns "" when its pattern does not match. A
    `//` comment has no `*/`, so `// a` gives an empty description. So does
    `/* (m)text */`, where the text follows the units with no blank
    (`DescriptionKept`).
26. **A view the size of the curves view is not shifted** (bookidxview.cpp
    57). `W != V` compares `viewport()->rect()`s, which both start at
    (0,0), so only the sizes count. A view of the curves view's size at
    another global position keeps the plot's math rect unshifted. Its pixels
    show other math points than the curves view's at the same place
    (`PixelsAlignedEverywhere`: views 2 x 3 at (0, 0) and (0, 10)). Views
    in the curves view's row or column still line up along the shared axis.
27. **`-beginRun` above 100000 depends on the option order** (main.cpp
    580). `presetBeginRun` compares with `opts.endRun` as it stands, which
    is the default 100000 until `-endRun` is parsed. So `-beginRun 200000
    -endRun 200000` is refused as "must be greater than -endRun which is
    set to 100000", while the other order is accepted (`OrderFree`). The
    message also has the comparison backwards: `-beginRun` must not be
    greater than `-endRun`.

## Plan for the remaining parts

1. **Pure operators** against reference definitions. `FieldDescription`
   (the units and the description) and `getVarMap` are done. `getShiftHash`'s table goes only to the
   window, so a property on it would need the window's use of it.
2. **Abstract specifications**: `VideoSync` now refines `MpvEventChannel`.
   Still open, for `writeTrk`: "the file holds the
   zero-order-hold resampling of every curve, or the call fails and leaves
   no file". `TrkExport` can be shown to refine it only once the divergences
   above are resolved.

## Not modelled

- **`createVarsModel`, the titles and the default presentation**: they only
  fill the window's item models and captions.
- **The rest of `opts.parse`** (the `Options` class is outside `src/`) and
  the presets that only make it fail (`presetRunsDPs`,
  `presetPresentation`, `preset_start`, `preset_stop`). The
  `-beginRun`/`-endRun` presets are modelled in `MonteInput`.
- **FieldDescription's getters and setters and its `operator <<`**: each
  stores or prints one member, with no condition a property could test.
- **BookIdxView's `QAbstractItemView` overrides** (the mouse events,
  `setModel`, `setRootIndex`, the empty `indexAt`/`visualRect`): each
  forwards to Qt or to the child views, or does nothing.
- **Painting** (`BookIdxView::_paintGrid`, `__paintSymbol`, the drawing
  calls of the legend) and the headers: pure I/O or declarations. The
  legend's rectangles are modelled.
- **The TOCTOU between `exists()` and `open()`**: it needs a second writer of
  the file system, which the spec accepts as a limitation.
- **Curve storage itself** (`TrickModel` and its memory mapping): it is
  outside `src/`, and only what `writeTrk` relies on is modelled, from the
  spec.
