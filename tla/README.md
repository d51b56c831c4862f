# TLA+ models of the ROS-IvP-Native helper scripts

This directory holds TLA+ models of the Python scripts under
`src/ivp/scripts/`. It also holds the TLC configurations that check the
models. Every action is translated from the source. `PROJECT.json` maps each
definition to the lines it models.

## 1. Inventory

The repository has four independent command-line scripts. None of them runs
concurrently. What is hard in them is sequencing: a long run of legal input
lines can reach a bad state, one step can fail after earlier steps have
already produced output, and the behaviour depends on how a module is loaded
and which interpreter runs it.

| Component | Source | State | Operations | Interacts with |
|---|---|---|---|---|
| Slog parser | `slog-to-taml/slog_util.py` | the input stream position, `col_number`, `num_var_occurrences`, `var_name_to_col_number` (the registry), `disambig_to_ambig_dict`, `variable_renaming_required`, and the list of records | skip 5 lines; read one header line at a time (shape check, sequence check, record a first or repeated name with the rename of the earlier entry); end of header (rename report with its `assert`, then drop the title line); per data line: skip a comment, field-count error, index error, or build a record; return | called by the converter, or run as `__main__` by `do_test` |
| Slog-to-TAML converter | `slog-to-taml/slog-to-taml.py` | argv, whether the input exists, the TAML file, the record loop index | argument check, input check, refuse an existing output, open both files (this creates the output), parse, header, per record: `KeyError`, NaN skip, `convert_time` `ValueError`, or emit a report; footer | imports the parser. Because it is imported, the parser has no global `sys` |
| Geodetic image trimmer | `map_get_map/trim_map.py` | arguments, input image size (from `identify`), input bounds (from the file name), derived spans, sizes, offsets and origin fractions | argument parse, no-upscale check, six region checks, required-size check, offset and bounds arithmetic, `convert` crop, write the info file | external tools `identify` and `convert` |
| Bulk svn rename | `util/svn-bulk-rename.py` | the walk position and which directories were already renamed | for each directory of `os.walk`: if it holds the input name, `svn mv`. `check_call` raises on failure | the external tool `svn` |

Properties that make each component correct:

- **Parser.** The registry has exactly one key per header column. The keys
  are the names that spec.md section 3 defines. Every record has the
  registry's keys and reads each column's own token. Records keep file
  order. A malformed file is never accepted. A file that is only ambiguous
  is never rejected. Every error carries its message.
- **Converter.** On success, the output holds exactly the reports of the
  NaN-free records, in order. A failed run leaves no output behind.
- **Trimmer.** The crop lies inside the input image and contains the
  requested region. The info file describes the crop. It never divides by
  zero on input it has accepted.
- **Rename.** On success, every matching file is renamed. On failure, the
  tree is either untouched or the state is reported.

## 2. Plan

The slog parser and its converter come first. They are the only components
with state that evolves over a long input, and the only ones spec.md
specifies.

1. `SlogSpec` (done). This is the abstract contract of spec.md sections
   3, 4.1, 6 and 8. It is one atomic step from `Pending` to the outcome for
   the whole file. It defines the outcome declaratively: the occurrence
   count and rank of each name give its key, with no incremental renaming.
2. `SlogParser` + `MCSlogParser` (done). The code's parser, one action per
   line read. It is checked to refine `SlogSpec` through
   `INSTANCE SlogSpec WITH result <- ParseResult`.
3. `SlogToTaml` + `MCSlogToTaml` (done). This is `main`/`slog_to_taml`. It
   composes the parser through `Parser == INSTANCE SlogParser`, whose steps
   run while `stage = "parse"`.
4. `ExactFloat` + `TrimMap` + `MCTrimMap` (done). `main` of `trim_map.py`
   with every exit in code order, and its arithmetic on exact rationals.
   The per-axis geometry that spec.md section 9 asks for is stated as the
   property `OutputAsRequested` rather than as an abstract module. The
   code's outcome differs from the geometric one on most accepted
   requests, so a refinement would only restate that one property.
5. `BulkRename` + `MCBulkRename` (done). `os.walk` over a small tree with
   symlinks, in every listing order, and `svn mv` that may fail.
6. The converter instance has up to three data lines, with position and
   heading tokens spelled `nan` and `inf`. No liveness property is stated
   for it: its loops are Python `for` loops over finite lists, so its
   termination holds by the shape of the code.
7. A four-column parser instance was tried. It passes `parser_contract`
   but takes 3 minutes over 1.55 million states. It reaches no branch of
   the header loop that three columns miss: a repeated name meeting a
   colliding one (`A`, `A`, `A__1`) already fits in three lines. So the
   runs keep three columns.
8. `RenameSpec` (done). What the rename walk promises, without the walk:
   every directory `os.walk` can reach is handled exactly once, in any
   order. `BulkRename` is checked to implement it, and this replaces the two
   invariants that covered parts of that promise.
9. IEEE rounding in `trim_map.py` stays out (see section 6).

## 3. Modules and how they map to the code

### SlogSpec (abstract)
- `file` is the input. `result` is `Pending`, `Failed`, or
  `Returned(columns, disambig, records)`.
- `Columns(h)` reads the registry column-wise (column -> key). A lost or
  doubled key therefore shows as a different function.
- `KeyOf(names, i)` gives the name itself when it occurs once, and
  `name__rank` otherwise.
- `WellFormed(f)` holds when every header line is `%% (i) name` and every
  non-comment data line has one token per column.

### SlogParser (`slog_util.py`)
- A line is the sequence of its `split()` tokens. `strip() == ""` is the
  empty sequence.
- Names are TLA+ strings. `Disamb(n, i) == n \o "__" \o ToString(i)` builds
  them exactly like `var_name + "__" + str(i)`, so a header name that
  already has that form collides as it does in the code.
- `lines` is the unread part of the stream. `NextLine` is `readline()`,
  which returns the empty line at end of file.
- `build` records how the module is run. `sys_bound` is FALSE when the
  module is imported: `import sys` sits under `__main__`. `str_raise` is
  FALSE on Python 2.6+, where `raise "text"` is a `TypeError`. Both only
  choose which exception a fatal path raises.
- Actions: `SkipPreamble` (177-180), `HeaderShapeError` (35-37),
  `HeaderSequenceError` (39-42), `RecordColumn` (34-74), which is
  `FirstOccurrence` or `RepeatedOccurrence` with `RenameFirstEntry`, then
  `NextColumn`. Then `RenameReportNameError` (79), `RenameReportAssertFails`
  (96-103), `EndHeader` (77-115), `SkipDataLine` (188-191),
  `FieldCountError` (146-159), `FieldIndexError` (161-164), `ParseOneLine`
  (139-166, 193) and `FinishParse` (195).
- `ParseResult` is the refinement mapping. It is `Pending` until
  `parse_slog` returns or raises.

### SlogToTaml (`slog-to-taml.py`)
- The TAML file is `[exists, header, reports, footer]`, which records what
  was written, in order. The XML text itself is layout and is left out.
- A report is `[time, lat, lon, heading]`. `time` is `SecondsOf[t]`, the
  whole seconds that `convert_time` formats, because `strftime` drops the
  fraction. A token outside `DOMAIN SecondsOf` makes `convert_time` raise
  `ValueError`.
- Actions: `BadArguments`, `NoSlogFile`, `TamlExists`, `OpenFiles`
  (101-114), `ParseStep`/`ParseFails` (84), `EmitHeader` (86),
  `MissingField` (89-92), `SkipNaN` (94), `BadTime` (14-25), `EmitReport`
  (95) and `EmitFooter` (97).

### ExactFloat (helper)
- A number is `<<n, d>>` in lowest terms, with `Gcd` recursive. `Plus`,
  `Minus`, `Times` and `Over` are exact. `Trunc` is Python's `int()`,
  which truncates toward zero. Rounding of doubles is not represented.

### TrimMap (`trim_map.py`)
- `req` holds the parsed arguments. `argv` says whether `main` rejects them
  (wrong shape, or a `float()`/`int()` that raises). `infile` is what
  `identify` and the file name say about the input image.
- Actions, in the order `main` runs them:
  - `PrintUsage` (130-154)
  - `GetImageSize` (71-87, 157)
  - `CheckNoUpscale` (158-163)
  - `ParseInputName` (110-126, 174), including the uncaught `ValueError`
  - `CheckRegion` (176-193), which exits with the first of the six
    `RegionProblems`
  - `CheckRequiredSize` (199-216), including `ZeroDivisionError` at 208
  - `Place` (218-252), including `ZeroDivisionError` at 248-249
  - `CropImage` (91-106, 304), where convert may fail
  - `WriteInfo` (307-313), where open may raise `IOError`
- Each line of arithmetic is one operator, written as the code writes it.
  This keeps the bugs visible: `DesiredLonSpan` (203) uses latitudes,
  `CropXOffset`/`CropYOffset` (230-231) have their axes swapped, and
  `OutfileBlat`/`OutfileLatSpan` (240-241) reuse the x offset and the
  longitude pixel size.

### BulkRename (`svn-bulk-rename.py`)
- `stack` is the walk still to do, in `os.walk` order. Python 2's `os.walk`
  is a depth-first generator: it yields a directory, the loop body runs,
  and only then are the children walked, in `listdir` order. That order is
  unspecified, so `Visit` pushes every permutation of `WalkedChildren`.
  Symlinked directories are not entered (`followlinks=False`).
  `Unlisted` is `os.walk` skipping a directory `listdir` cannot read,
  which happens silently because `onerror` is `None`.
- In `Visit`, when the directory holds `input_filename`, `svn mv` either
  renames it or fails. It fails on an unversioned source or an existing
  target. `check_call` then raises and nothing catches it.
- `Walk == INSTANCE RenameSpec WITH Walkable <- WalkFrom(Root),
  todo <- WalkRemaining`. `WalkFrom(s)` is the set of directories a walk
  started at `s` can reach: `s`, if it can be listed, and recursively the
  real subdirectories of `s`. It is defined from the tree, not from
  `WalkedChildren`, so a wrong walk cannot change what it is compared with.
  `WalkRemaining` is what the stack's entries still reach.
- `Unlisted` maps to a stuttering step of `RenameSpec`, and `Visit` maps to
  `Handle(d)`.

### RenameSpec (abstract, `svn-bulk-rename.py`)
- `todo` holds the reachable directories not yet handled. `Handle(d)` takes
  any of them and has the script's three outcomes: no match, a rename, or a
  failed `svn mv` that ends the script. `Finish` needs `todo = {}`.
- `WF_vars(Next)`: the script always gets to its end.

## 4. Runs

| Run | Cfg | Expect | What it shows |
|---|---|---|---|
| parser_contract | `MCSlogParser.cfg` | pass | Run as a script under Python 2.5, on headers of up to 3 lines over {A, B} (with repeats and two malformed shapes) and up to 2 data lines, `parse_slog` refines `SlogSpec`. The registry, renaming map and records are the declarative ones. Malformed files fail. The parse terminates. |
| parser_all_builds | `MCSlogParserAllBuilds.cfg` | pass | Under all four builds, and with the name `A__1` added (plus four-column headers over {A, A__1}), the parser never returns records for a malformed file (`AcceptsOnlyWellFormed`). Every parser action fires here, including the report's failing assert. |
| name_collision | `MCSlogParserCollision.cfg` | violation | `A, A, A__1`: the registry loses column 1 (finding 1). |
| imported_rename_report | `MCSlogParserImported.cfg` | violation | Imported, `A, A` aborts with `NameError` (finding 2). |
| later_python_raise | `MCSlogParserLaterPython.cfg` | violation | On Python 2.6+, a malformed header raises `TypeError` and its message is lost (finding 3). |
| converter_output | `MCSlogToTaml.cfg` | pass | End to end, with the four fields in two orders, a missing field, NaN in the time and the heading, `nan` and fractional times, a position and a heading spelled `nan` and `inf`, up to three data lines, and comments. A successful run's TAML holds exactly the expected reports, in order; `lat` comes from NAV_Y and `lon` from NAV_X. |
| converter_partial_output | `MCSlogToTamlPartial.cfg` | violation | A failed run leaves the created TAML file behind (finding 4). |
| trim_checks | `MCTrimMap.cfg` | pass | `convert` crops only for a request that passed every check: the region is inside the input and ordered, and the size is no larger than the input. The crop offsets are then whole and non-negative (`TypeOK`). |
| trim_output | `MCTrimMapOutput.cfg` | violation | A run that ends normally does not give the output its usage text promises (finding 5). |
| rename_walk | `MCBulkRename.cfg` | pass | In every listing order, with a symlink out of the tree and one back to its root and an unreadable directory, the walk implements `RenameSpec` (`WalkRefinesSpec`). Each directory it can reach under the root is handled exactly once and no other is; a run that ends normally has handled them all, so a match survives only in or below a directory it could not list; and the script always ends. |
| rename_silent_skip | `MCBulkRenameUnreadable.cfg` | violation | An unreadable directory is skipped, and the run still succeeds (finding 6). |

The bounds (3 header lines, 2 data lines, names {A, B, A__1}, tokens
`xN` that name their column) are enough for these reasons:

- Every branch of the header loop needs at most 3 lines: first occurrence,
  second occurrence with the rename, and third-or-later occurrence.
- The smallest collision is 3 lines.
- The report's assertion needs 4 lines, which is why the all-builds run
  adds the four-column headers.
- A misread column shows in the record, because each token names its
  column.
- Two data lines exercise skipping, order, and an error after a good line.

The converter's instance (`MCSlogToTaml`) takes up to three data lines.
Three lines are enough for a report written, a record skipped and a
failure to follow one another in one file.

The trimmer's image is 8 x 2 pixels over 0..2 latitude and 0..4
longitude. A pixel is therefore 0.5 degree of longitude but 1 degree of
latitude, so any confusion between the axes changes a result. Each request
edge takes values below, on and above the input's edges. The inputs
include a zero-height region and a top edge half-way up a pixel, so that
`int()` truncates.

The rename tree is `r -> {a, b}, a -> c, b -> d`. It has a symlink from `b` to a
directory outside the tree and one from `b` back to `r`. Directory `a`
cannot be listed, and the source file is unversioned in `b`. Each
directory starts with no file, the input name, both names, or another
file. This covers every outcome of `svn mv` and every listing order.
Directory `d` gives the walk a second reachable level below `b`, beside
the symlinks, so that a walk that leaves out or repeats a subtree is seen.

Deadlock checking is off in these runs. The program really ends: every
terminal state is a returned or raised parse.

**Fairness.** The parser and the converter are single-threaded. The only
blocking is on reads of a local file, so the process takes its next step.
`WF_vars(Next)` is therefore justified, and `ParseRefinesSpec` includes
the abstract `WF`, which means the parse terminates. The same holds of
the rename walk through `WalkRefinesSpec`.

**Mutants** (PROJECT.json). Each property of a passing run is broken by a
plausible bug:

- a forgotten `col_number += 1`;
- the retroactive rename dropped;
- the column-number check dropped;
- latitude and longitude swapped in the report;
- a region check dropped: the lower latitude bound, or left-lon <= right-lon;
- `os.walk` following symlinks, or descending into file names as well as
  directories.

## 5. Findings

1. **Name collision** (`slog_util.py:71`). A header name that looks like a
   generated one overwrites, or is overwritten by, a renamed entry. The
   registry then has fewer keys than columns, so the file can never be
   parsed. spec.md says the keys are unique by construction.
2. **`sys` unbound when imported** (`slog_util.py:79`, also 159). The
   advisory rename report raises `NameError`, so the converter cannot read
   any file with a duplicated header name.
3. **String exceptions** (`slog_util.py:37, 41`). On Python 2.6 and later
   these raise `TypeError`, and the message naming the bad line is lost.
4. **Partial output** (`slog-to-taml.py:114`). The TAML file is created
   before the parse. Any failure leaves it behind, and a rerun then
   refuses to run.

5. **Trimmer output** (`trim_map.py:241`, also 203 and 230-231). On an
   8 x 2 image over 0..2 lat and 0..4 lon, keep region 0..1 x 0..1,
   origin at lat 1, `-size 2 Y` with Y = 1 or 2: line 241 takes
   `required_output_image_y` (1) times the longitude pixel size (0.5), so
   `img_centy` is 2. The crop is Y pixels of 1 degree each (line 304 uses
   `desired_y_size`), so the origin lies at fraction 1/Y of its height. On other requests the
   crop width follows the latitude span, or the offsets are computed on
   swapped axes. spec.md section 9 calls these transcription bugs.
6. **Silent skip** (`svn-bulk-rename.py:17`). `os.walk` without `onerror`
   skips a directory it cannot list, or a missing `root_dir`, and the
   script exits 0 with matches left.

## 6. Not modelled, and why

- `do_test` and the stderr text of the rename report are only printed
  output.
- The XML layout of the TAML file is templating.
- The external tools `identify`, `convert` and `svn` are modelled only by
  their success or failure. `svn mv` fails on an unversioned source or an
  existing target.
- What `trim_map.py` prints (lines 270-301) is not modelled. Neither is
  `get_meters_per_degree_lon`, whose result only feeds prints. The
  trimmer's `img_meters` is commented out in the source.
- IEEE rounding of floats is not modelled. Because of rounding, `int()` can
  come out one pixel low at line 208 even where the exact value is whole,
  and no run can show that.
- `trim_map.py` also ends in an uncaught `ZeroDivisionError` for a
  zero-height keep region (line 248). An image whose `.info` open fails
  (line 307) is left without its `.info` file. Both are listed as hazards;
  no run checks them.
- The trimmer's file name is taken as having an extension, the form
  `map_get_map.pl` writes. Without one, `os.path.splitext` (line 111) cuts
  the fraction off `rlon`. On western longitudes this admits requests
  that reach past the image's right edge. It is listed as a hazard.
- The converter writes a position or heading spelled `nan` or `inf`
  verbatim, because line 94 compares with the exact text `NaN`. spec.md
  names only that token, so no property calls such a report wrong.
- A failing `svn mv` (`svn-bulk-rename.py:30`) ends the walk after
  earlier directories were renamed. This is not checked against a
  property: line 29 prints each `svn mv` before it runs, so the state is
  reported, and a rerun finishes the job because renamed directories no
  longer hold the input name.
- Running with `python -O` would remove the assertion at line 102. It is
  not modelled.
