# TLA+ models of Ziggy's Python HDF5 "Persistable" codec

This directory models the Python half of Ziggy's module interface:
`hdf5mi/hdf5.py` (class `Hdf5ModuleInterface`), the codec every Python
pipeline step uses to read its inputs from and write its outputs to HDF5 files.
The checks run with TLC.

## The system

| part | source | what it does |
|---|---|---|
| DType registry, options | `hdf5.py` 25-84 | `_TYPE_ATTRIBUTE_MAP` maps numpy dtypes to `DATA_TYPE` tags. There are four options: compression level, compression min elements, reconstitute struct arrays, preserve field order. |
| Encoder | `hdf5.py` 355-661 | `write_file` truncates the file and `_write_scalar_struct` walks the value. A record becomes a group with one subgroup per field (`FIELD_ORDER` = index). A numeric, bool or string array becomes a dataset with `DATA_TYPE`. A record array is written either in the "parallel" form (one column per field, chosen by looking at element 0 only) or as one group per element named `<field>-i-j`. |
| Decoder | `hdf5.py` 92-350 | `read_file` reads the root (or the group a `/` path names). `_read_group` dispatches on `PARALLEL_ARRAY`, `STRUCT_OBJECT_ARRAY` and the number of children. `_get_group_keys` orders fields by `FIELD_ORDER`. `_struct_array_location` turns `<field>-i-j` back into a flat index. |
| Error writer | `ziggytools/stacktrace.py` | In a pipeline step's `except:` block, it writes the exception's message, type name and stack to `<module>-error.h5` through the codec. The worker reads that file back. |
| Pipeline drivers | `major_tom/*.py` | Each driver reads `*-inputs.h5`, runs an image algorithm (permute, flip, average), and on an exception calls the error writer. |
| PID file, chmod | `zigutils/pidfile.py`, `fileutils.py` | `write_pid_file` writes `host:pid` to `.matlab.pids`. `chmod` is a file-system walk. |

The codec is synchronous and single-threaded. A call holds one `h5py.File`
from open to close, and there are no callbacks or threads. A pipeline step (`flipper.py`, `permuter.py`, `averaging.py`) is one process: it reads its inputs
with the codec, runs the algorithm, and on any exception calls the error
writer, which writes through the codec again. Its hard behaviour
lies in the recursive walk and in this composition, not in interleaving:
- which branch a value takes;
- what a raise in the middle leaves behind: a partial tree and an open handle;
- whether the decoder inverts the encoder for every shape and option;
- whether the error path itself can fail, and whether what it writes can be read back.

## Modules

| module | models | state / operators |
|---|---|---|
| `Hdf5Types` | Shared data | Abstract Python values (`Scalar`, `PyList`, `NdArray`, `ObjArray`, `PyDict`) and HDF5 nodes (`Group`, `Dataset`). Also the read-side values, `TYPE_ATTRIBUTE_MAP`, `DefaultOptions`, and h5py's name order (`SortedNames`). |
| `Hdf5Writer` | Encoder | One operator per `_write_*`/`_is_*` method, mutually `RECURSIVE`. Each returns `[g, err]`: the group as the code leaves it, and the exception raised, if any. So a failing write yields the partial tree the code leaves. |
| `Hdf5Reader` | Decoder | One operator per `_read_*` method, `_find_group`, `_get_group_keys` and `_struct_array_location`. Each returns `[err, val]`. |
| `Hdf5ModuleInterface` | The object and its files | `VARIABLES opts, disk, written, last, leaked`. Its actions are the four setters, `Write(f, x)` (all of `write_file`), `Read(f, p)` (all of `read_file`) and `Release(f)`. |
| `Hdf5Persistable` | Abstract contract | The round-trip laws of spec.md sections 4 and 8, over values with no HDF5 layout. `store[f]` is the value last written, `Undefined` after a failed write, or `Absent`. |
| `ImageAverage` | `average_images` (`major_tom.py`) | `VARIABLES filenames, i_image, sum_array, mean_array, pc, err`. Its actions are `MatchSetString` (the regex on the first name), `Accumulate` (one loop pass, in `% 2^PixelBits` arithmetic) and `SaveMean`. `MCImageAverage` draws every list of up to three files from two matching images and one non-matching name. |
| `ZiggyErrorWriter` | Error writer | Operators, no state: `ZiggyStack`, `StackOf` (the traceback loop), `ZiggyErrorReturn` (`args[0]`, falling back to `str(exception)`; the type name; the stack) and `ZiggyErrorWriter(e, taskDir)`. The last returns the raised exception, the module name and the tree `WriteFile` leaves. An exception is `[type, args, str, frames]`. |
| `PipelineStep` | The three drivers, composed with `Hdf5Reader`, `ZiggyErrorWriter`, and `ImageAverage` as `Avg == INSTANCE ImageAverage WITH ...` | `VARIABLES pc, driver, inputsValue, taskDir, subtaskDir, outcome, dataFile, parameters, throwExc, produceOut, pidFile, outputs, exc, errorFile, status` plus `average_images`' locals (`avgFiles`, ...). The actions are one per statement that can raise: `WritePidFile`; `FlipperReadInputs`, `PermuterReadInputs` and `AveragingReadInputs` (`read_file` plus the three lookups, through `Lookup`: attribute access for `flipper.py`, a subscript for the others); `LeftRightFlip` and `UpDownFlip`; `SelectOptions` (permuter's `st-0`/`st-1` options) and `PermuteColor`; `CallAverage`, `AverageStep` (a step of the `Avg` instance) and `ReturnAverage`; `SleepAndExit` (`time.sleep`, `exit(0)`); `HandleException` (`ZiggyErrorWriter()`, `exit(1)`). |
| `MCPipelineStep` | Model values | Inputs per driver: one data file for a flip or a permutation, two for averaging (one pair of the same set, and pairs with a non-matching name second or first); one or two parameter sets; the permuter's four switch settings. The images, with pixels whose uint8 sum wraps. Outcomes of opening and saving: success, `FileNotFoundError(2, msg)`, `ValueError("")` or a bare `AssertionError()`, each two frames deep. Task directories `50-100-flip`. Subtask directories `st-0`, `st-1`, `st-2`. |
| `MCHdf5` | Model values | The field names and the input sets for each run. |

Names such as `"a"` or `"b-0-1"` are sequences of tokens: digits 0..9 and
letters (a=10, b=11, c=12). h5py's byte order of names is then the
lexicographic order of token sequences.

`flipper.py` imports `zigutils.stacktrace`, which is not in the repository.
It is modelled with `ziggytools/stacktrace.py`, the only error writer there,
which writes with `hdf5mi`. `permuter.py` and `averaging.py` import
`ziggytools.hdf5`, also absent. It is modelled as the same codec
(`Hdf5Reader`) returning dicts, so `x[k]` is `Item`:
- a dict without `k` raises `KeyError`;
- a str, `""` or `None` raises `TypeError`;
- a numpy value raises `IndexError`.

This is an assumption, not a translation. The drivers' own code is translated
line by line.

The flips and `permute_color`'s open and save are steps that either save their
image or raise one of the exceptions in `FlipOutcomes`. A name that is not a
str is taken by PIL for a file object and raises `AttributeError`. The pixel
work is not modelled. The inputs file is the tree `write_file` makes of the
input value.

**Composition.** The averaging driver calls `average_images(data_files)` with
whatever `read_file` returned. `CallAverage` turns that value into the list of
images: a str array is its names, and a str is the sequence of its characters.
A single character never matches the set pattern. Then `AverageStep` runs
`ImageAverage`'s actions on the driver's variables, and `ReturnAverage`
returns to the driver. The driver either sleeps, or its except block reports
`average_images`' exception.

**Refinement.** `Hdf5ModuleInterface` maps onto `Hdf5Persistable`:
- `AbsStore` gives a file's stored value (`Stored`) after a successful write and `Undefined` after a failed one.
- `AbsLast` translates the Python exceptions:
  - a write that raises is a rejection;
  - `OSError` on open is an I/O error or `NoSuchFile`;
  - `NameError` from `read_file` is `GroupNotFound`;
  - a read of a failed file is unspecified.
- `AbsArg` records the argument of the last write in the abstract `last` (`WriteResult`). A write rejected for the wrong reason therefore cannot match the spec's rejection of another, bad input.

`ImplementsPersistable == Persistable!Spec` is checked as a `PROPERTY`. Every
write must therefore accept exactly what the spec accepts. Every read must
return the spec's value, under the options in force at the time of the read.
With a compression level of 10 added, the property fails in 3 steps: the
setter takes any `int`, and the gzip filter then rejects a good value. That
level is outside the spec's 0–9 range, so it is a hazard and not a run.

**Release.** `Release` models the collection of a raised exception, which closes
the `h5py.File` it holds. It is not code of this repository. Until it happens,
`write_file` on that file fails with `OSError`, because h5py cannot truncate an
open file. Spec section 5 asks for release on every exit path. This
divergence is visible in the model, but no run checks it (see "Not modelled").

## Runs

| run | cfg | expect | what it shows |
|---|---|---|---|
| roundtrip | `MCHdf5.cfg` | pass | The interface refines the contract over 20 leaf kinds placed under a root `{b: leaf, a: 2.0}`, with insertion order ≠ name order, under every option setting. It covers failed writes (uint8 has no tag), leaked handles and their release, and reads of missing files (3,809 states). |
| nonsquare_struct_array | `MCHdf5_NonSquare.cfg` | violation | In a 2x3 record array, two elements collide at index 2 (`hdf5.py:347`). |
| heterogeneous_record_array | `MCHdf5_Hetero.cfg` | violation | An extra field in element 2 is dropped, not rejected (`hdf5.py:612`). |
| nested_group_path | `MCHdf5_Nested.cfg` | violation | `read_file(f, "b/c")` raises `NameError` for an existing group (`hdf5.py:133`). |
| none_field_record_array | `MCHdf5_NoneField.cfg` | violation | A `None` field in a record array raises `TypeError` (`hdf5.py:573`). |
| list_of_records | `MCHdf5_ListStruct.cfg` | violation | A list of non-parallel records raises `AttributeError` (`hdf5.py:511`). |
| pipeline_steps | `MCPipelineStep.cfg` | pass | Across flipper, permuter and averaging, well-formed inputs with no failure injected make the step exit 0 (`StepSucceedsOnWellFormedInputs`). A step that exits 0 has saved an image, except the permuter in `st-1` with `produce_output_subtask_1` false (`OutputsMatchParameters`). Any exception leaves an error file that reads back with its type name, its message (also the `str(exception)` fallback) and one stack record per frame, with reconstitute on (`ErrorReported`, `ErrorStackReadable`). The inputs include batches where `average_images` raises. 3,330 states. Deadlock checking is off because the process exits. |
| flipper_no_args_exception | `MCPipelineStep_NoArgs.cfg` | violation | An `AssertionError()` with no args makes `ZiggyErrorReturn` raise `IndexError` (`stacktrace.py:27`), so there is no error file. |
| flipper_single_parameter_set | `MCPipelineStep_SingleSet.cfg` | violation | A group with exactly one child group reads as `""` (`hdf5.py:199`). With one parameter set, `inputs.moduleParameters` is such a group, so `flipper.py:30` raises `AttributeError` on well-formed inputs. |
| flipper_one_frame_error_file | `MCPipelineStep_OneFrame.cfg` | violation | That `AttributeError` has a one-frame traceback. Its error file's stack is a one-element parallel array, and reading it with reconstitute raises at `hdf5.py:269`. |
| averaging_single_image | `MCPipelineStep_SingleImage.cfg` | violation | An averaging subtask with one image of its set fails. `read_file` unwraps the one-element name list to a str (`hdf5.py:229-230`). `average_images` takes its first character as `filenames[0]`, the match is `None`, and `.group` raises `AttributeError` (`major_tom.py:119-120`). |
| image_average_overflow | `MCImageAverage.cfg` | violation | For two images with pixels 10/200, the uint8 sum is 20/144 (400 wraps to 144), so the saved mean is 10/72, not 10/200 (`major_tom.py:131`). The cfg turns off deadlock checking, since the function ends after saving or raising. |

**Bounds.**
- One file suffices: calls on different files touch disjoint state.
- Three names are enough to give both "insertion before name order" and a third name for nested records.
- Levels `{0,4}` and min elements `{0,3}` make gzip apply to some datasets and not to others.
- The passing inputs are the shapes the unit tests use (1-d and 2x2 record arrays). The bugs above sit outside them, and each bug has its own run.
- Pipeline steps:
  - pauses 0 (the boundary of `time.sleep`) and 1.0;
  - every permuter switch setting in each of `st-0`, `st-1` and a third directory, which reaches all four branches of `permute_color`;
  - two images per averaging batch, whose sum wraps, and batches with a non-matching name second (ignored) or first (`average_images` raises);
  - exceptions two frames deep, as the unit tests raise them, and one frame deep in the driver's own frame.
- Every parameter group of the passing inputs has two entries, because a one-child group reads back as `""` (the single-parameter-set run).

**Fairness.** No specification states fairness, and no liveness property is
checked. A step is a straight-line, single-threaded script whose only loop
(over the images of a batch) is finite. It reaches `exit` whatever it
computes, so a liveness property could only fail by a transition missing from
the model, never by a mistake in the code.

Every module states safety properties only. A codec
call returns, because the recursion is bounded by the value.

In `PipelineStep`, a codec result is bound once with `\E r \in {ReadFile(...)}`,
not with `LET`. The properties are the same; TLC then evaluates and profiles
the recursive codec operators once per use.

**Mutants.**
- `SetCompressionLevelSwapped` (the level setter writes the wrong option) breaks `TypeOK`.
- `GetGroupKeysNameOrder` (ignoring `preserve_field_order`) breaks `ImplementsPersistable`.
- `SleepAndExitRejectZero` (`<= 0` for `< 0`) breaks `StepSucceedsOnWellFormedInputs`.
- `SelectOptionsCrossed` (reading `produce_output` in `st-0`) breaks `OutputsMatchParameters`.
- `ZiggyErrorReturnStrIdentifier` (identifier = `str(exception)`) breaks `ErrorReported`.
- `StackOfSkipFirst` (the traceback walk starting at `tb_next`) breaks `ErrorStackReadable`.

## Not modelled yet, and the plan

1. Handle release on error (`hdf5.py:358`, spec section 5). `Hdf5ModuleInterface` keeps `leaked` and `Release`. It is left unchecked so that the pipeline findings each have a run.
2. Repeated errors per subtask: `seq_num` is ignored, so a second error would overwrite `<module>-error.h5`. No driver in the repository reports twice.
3. Foreign files: root groups with `FIELD_ORDER` missing, duplicated or with a gap (spec test 8), as reader-only inputs.
4. Runs for the modelled edge cases not yet reached by any input:
   - 1x1 string arrays;
   - compression levels above 9;
   - the `IndexError` of `average_images` on an empty list.

Left out for good:
- `chmod`: a pure file-system walk;
- the PNG flips and the permutation: array I/O whose result no property reads;
- the traceback print to stdout: output only;
- strings' character content: a string is a model value;
- the numeric value of floats: only dtype and identity matter.
