----------------------------- MODULE PipelineStep -----------------------------
(***************************************************************************)
(* One run of a sample-pipeline step in a subtask directory: flipper.py,  *)
(* permuter.py or averaging.py. Each is the same script around a different *)
(* algorithm: write the PID file, read "<step>-inputs.h5" with the codec   *)
(* (Hdf5Reader), take three entries of it, run the algorithm, sleep and    *)
(* exit(0); on any Exception, ZiggyErrorWriter() and exit(1). An exception *)
(* the handler itself raises ends the process with status 1 too. exit(0)   *)
(* raises SystemExit, which `except Exception` does not catch.             *)
(*                                                                         *)
(* flipper.py uses hdf5mi and attribute access (AttributeError when        *)
(* missing). permuter.py and averaging.py use ziggytools.hdf5, which is    *)
(* not in the repository; it is modelled as the same codec returning       *)
(* dicts, so an entry is taken by subscript (KeyError when missing).       *)
(* average_images is composed as an instance of ImageAverage.              *)
(***************************************************************************)
EXTENDS ZiggyErrorWriter, Hdf5Reader

CONSTANTS
    Drivers,      \* the step scripts run: "flipper", "permuter", "averaging"
    InputValues,  \* InputValues[d]: values the worker may write to d's inputs file
    FlipOutcomes, \* what opening and saving a named PNG may do: FlipOk or an Exception
    Images,       \* Images[id]: the PNG a data file name (a string id) refers to
    TaskDirs,     \* token sequences of the task directory name ("50-100-flip")
    SubtaskDirs   \* names of the subtask directory: "st-0", "st-1", ...

\* Names the drivers read, as tokens in byte order.
Algorithm_Parameters == <<30>>
dataFilenames == <<32>>
execution_pause_seconds == <<33>>
modelFilenames == <<38>>
moduleParameters == <<39>>
throw_exception_subtask_0 == <<43>>
produce_output_subtask_1 == <<44>>

VARIABLES
    pc,          \* next statement of the script
    driver,      \* which script runs
    inputsValue, \* the value the worker wrote to the inputs file
    taskDir,     \* the task directory's tokens
    subtaskDir,  \* basename of the working directory
    outcome,     \* outcome[1], outcome[2]: what the image opens and saves will do
    dataFile,    \* inputs.dataFilenames once read
    parameters,  \* inputs.moduleParameters.Algorithm_Parameters once read
    throwExc,    \* permuter: throw_exception
    produceOut,  \* permuter: produce_output
    pidFile,     \* .matlab.pids written
    outputs,     \* the images saved
    exc,         \* the exception being handled, or NoExc
    errorFile,   \* [module, g] of the error file, or NoErrorFile
    status,      \* the exit status, or -1 while running
    avgFiles, avgI, avgSum, avgMean, avgPc, avgErr  \* average_images' locals

avgVars == <<avgFiles, avgI, avgSum, avgMean, avgPc, avgErr>>
vars == <<pc, driver, inputsValue, taskDir, subtaskDir, outcome, dataFile, parameters,
          throwExc, produceOut, pidFile, outputs, exc, errorFile, status, avgVars>>

\* average_images(filenames), its locals renamed into this module.
Avg == INSTANCE ImageAverage
       WITH filenames <- avgFiles, i_image <- avgI, sum_array <- avgSum,
            mean_array <- avgMean, pc <- avgPc, err <- avgErr,
            Batches <- {}, PixelBits <- 8

NoExc == [type |-> "none"]
\* An image opened and saved without error.
FlipOk == [type |-> "ok"]
\* The inputs file as the worker leaves it.
InputsFile == WriteFile(inputsValue, DefaultOptions).g
NoErrorFile == [module |-> <<>>, g |-> NoFile]

\* A raise in the driver's own frame (an entry lookup, time.sleep).
DriverFrame == Frame(50, 51, 30)
\* A raise inside read_file: the driver's frame and the codec's.
CodecFrames == <<Frame(50, 51, 28), Frame(52, 53, 97)>>
\* A raise in an algorithm the driver called, and in a library it called.
AlgoFrames == <<Frame(50, 51, 48), Frame(54, 55, 32)>>
LibFrames == <<Frame(50, 51, 48), Frame(54, 55, 35), Frame(56, 57, 3)>>
\* A raise in average_images, called at averaging.py line 34.
AvgFrames == <<Frame(50, 51, 34), Frame(54, 55, 120)>>
\* The message an exception raised by Python itself carries: one str.
DriverExc(t) == Exception(t, <<Scalar("str", 60)>>, 60, <<DriverFrame>>)
\* What read_file raises; what PIL raises for a name that is not a str.
CodecExc(t) == Exception(t, <<Scalar("str", 61)>>, 61, CodecFrames)
OpenExc == Exception("AttributeError", <<Scalar("str", 64)>>, 64, LibFrames)
\* permute_color's ValueError; an exception out of average_images.
PermuteExc == Exception("ValueError", <<Scalar("str", 62)>>, 62, AlgoFrames)
AverageExc(t) == Exception(t, <<Scalar("str", 63)>>, 63, AvgFrames)

Raise(e) == exc' = e /\ pc' = "except"

Init ==
    /\ pc = "pid"
    /\ driver \in Drivers
    /\ inputsValue \in InputValues[driver]
    /\ taskDir \in TaskDirs
    /\ subtaskDir \in SubtaskDirs
    /\ outcome \in FlipOutcomes \X FlipOutcomes
    /\ dataFile = OutNone
    /\ parameters = OutNone
    /\ throwExc = FALSE
    /\ produceOut = TRUE
    /\ pidFile = FALSE
    /\ outputs = {}
    /\ exc = NoExc
    /\ errorFile = NoErrorFile
    /\ status = -1
    /\ avgFiles = <<>> /\ avgI = 0 /\ avgSum = <<>> /\ avgMean = <<>>
    /\ avgPc = "start" /\ avgErr = "none"

\* write_pid_file(): "<host>:<pid>" into .matlab.pids.
WritePidFile ==
    /\ pc = "pid"
    /\ pidFile' = TRUE
    /\ pc' = "read"
    /\ UNCHANGED <<driver, inputsValue, taskDir, subtaskDir, outcome, dataFile, parameters,
                   throwExc, produceOut, outputs, exc, errorFile, status, avgVars>>

\* hdf5mi: attribute access on what read_file returned. A missing field, or
\* a value that is not a struct (e.g. the "" of a one-child group), raises.
Attr(x, k) ==
    IF x.out = "struct" /\ \E i \in DOMAIN x.fields : x.fields[i].name = k
    THEN [err |-> NoError, val |-> x.fields[CHOOSE i \in DOMAIN x.fields : x.fields[i].name = k].val]
    ELSE [err |-> "AttributeError", val |-> OutNone]

\* ziggytools.hdf5: x[k] on what read_file returned. A dict without k is a
\* KeyError; a str, "" or None is a TypeError; a numpy value an IndexError.
Item(x, k) ==
    CASE x.out = "struct" /\ \E i \in DOMAIN x.fields : x.fields[i].name = k
              -> [err |-> NoError, val |-> x.fields[CHOOSE i \in DOMAIN x.fields : x.fields[i].name = k].val]
      [] x.out = "struct"                                     -> [err |-> "KeyError", val |-> OutNone]
      [] x.out \in {"empty", "None", "objarray"}
         \/ (x.out = "scalar" /\ x.dtype = "str")             -> [err |-> "TypeError", val |-> OutNone]
      [] OTHER                                                -> [err |-> "IndexError", val |-> OutNone]

\* An entry lookup as the running script writes it.
Lookup(x, k) == IF driver = "flipper" THEN Attr(x, k) ELSE Item(x, k)

(***************************************************************************)
(* inputs = read_file(...), then data file(s), parameters and models by    *)
(* Lookup, in that order; then control goes to the algorithm at `first`.   *)
(***************************************************************************)
ReadInputs(first) ==
    /\ pc = "read"
    /\ \E r \in {ReadFile(InputsFile, <<>>, DefaultOptions)} :
       LET df == Lookup(r.val, dataFilenames)
           mp == Lookup(r.val, moduleParameters)
           ap == Lookup(mp.val, Algorithm_Parameters)
           mf == Lookup(r.val, modelFilenames)
           bad == <<df, mp, ap, mf>>
       IN  IF r.err # NoError
           THEN /\ Raise(CodecExc(r.err))
                /\ UNCHANGED <<dataFile, parameters>>
           ELSE IF \E i \in 1..4 : bad[i].err # NoError
           THEN /\ Raise(DriverExc(bad[CHOOSE i \in 1..4 : bad[i].err # NoError /\ \A j \in 1..i-1 : bad[j].err = NoError].err))
                /\ UNCHANGED <<dataFile, parameters>>
           ELSE /\ dataFile' = df.val
                /\ parameters' = ap.val
                /\ pc' = first
                /\ UNCHANGED exc
    /\ UNCHANGED <<driver, inputsValue, taskDir, subtaskDir, outcome, throwExc, produceOut,
                   pidFile, outputs, errorFile, status, avgVars>>

FlipperReadInputs == driver = "flipper" /\ ReadInputs("lr")
PermuterReadInputs == driver = "permuter" /\ ReadInputs("options")
AveragingReadInputs == driver = "averaging" /\ ReadInputs("average")
\* A name Image.open accepts: one str. Any other value is taken for a file
\* object, and its missing .read raises AttributeError inside PIL.
IsName(x) == x.out = "scalar" /\ x.dtype = "str"

(***************************************************************************)
(* Image.open(filename) ... new_png_file.save(...) of left_right_flip,     *)
(* up_down_flip and permute_color: with a name, opening and saving do      *)
(* outcome[i]; otherwise PIL raises AttributeError.                        *)
(***************************************************************************)
OpenAndSave(i, to, out) ==
    CASE ~IsName(dataFile)       -> Raise(OpenExc)
                                    /\ UNCHANGED outputs
      [] outcome[i] = FlipOk     -> outputs' = outputs \cup {out} /\ pc' = to /\ UNCHANGED exc
      [] OTHER                   -> Raise(outcome[i]) /\ UNCHANGED outputs

\* left_right_flip(data_file), then up_down_flip(data_file).
Flip(i, from, to, out) ==
    /\ pc = from
    /\ OpenAndSave(i, to, out)
    /\ UNCHANGED <<driver, inputsValue, taskDir, subtaskDir, outcome, dataFile, parameters,
                   throwExc, produceOut, pidFile, errorFile, status, avgVars>>

LeftRightFlip == Flip(1, "lr", "ud", "lrflip")
UpDownFlip == Flip(2, "ud", "sleep", "udflip")

\* Python's truth of a parameter value read from HDF5 (a scalar or "").
Truthy(x) == x.out = "scalar" /\ x.v # 0

\* Mutant: produce_output taken in st-0 (the two directory tests crossed).
SelectOptionsCrossed ==
    /\ pc = "options"
    /\ LET t == IF subtaskDir = "st-0" THEN Item(parameters, throw_exception_subtask_0)
                ELSE [err |-> NoError, val |-> OutScalar("bool", 0)]
           o == IF subtaskDir = "st-0" THEN Item(parameters, produce_output_subtask_1)
                ELSE [err |-> NoError, val |-> OutScalar("bool", 1)]
       IN  CASE t.err # NoError -> Raise(DriverExc(t.err)) /\ UNCHANGED <<throwExc, produceOut>>
             [] o.err # NoError -> Raise(DriverExc(o.err)) /\ UNCHANGED <<throwExc, produceOut>>
             [] OTHER -> /\ throwExc' = Truthy(t.val) /\ produceOut' = Truthy(o.val)
                         /\ pc' = "permute" /\ UNCHANGED exc
    /\ UNCHANGED <<driver, inputsValue, taskDir, subtaskDir, outcome, dataFile, parameters,
                   pidFile, outputs, errorFile, status, avgVars>>

(***************************************************************************)
(* permuter.py: in st-0, throw_exception = parameters[...subtask_0], else  *)
(* False; in st-1, produce_output = parameters[...subtask_1], else True.   *)
(***************************************************************************)
SelectOptions ==
    /\ pc = "options"
    /\ LET t == IF subtaskDir = "st-0" THEN Item(parameters, throw_exception_subtask_0)
                ELSE [err |-> NoError, val |-> OutScalar("bool", 0)]
           o == IF subtaskDir = "st-1" THEN Item(parameters, produce_output_subtask_1)
                ELSE [err |-> NoError, val |-> OutScalar("bool", 1)]
       IN  CASE t.err # NoError -> Raise(DriverExc(t.err)) /\ UNCHANGED <<throwExc, produceOut>>
             [] o.err # NoError -> Raise(DriverExc(o.err)) /\ UNCHANGED <<throwExc, produceOut>>
             [] OTHER -> /\ throwExc' = Truthy(t.val) /\ produceOut' = Truthy(o.val)
                         /\ pc' = "permute" /\ UNCHANGED exc
    /\ UNCHANGED <<driver, inputsValue, taskDir, subtaskDir, outcome, dataFile, parameters,
                   pidFile, outputs, errorFile, status, avgVars>>

(***************************************************************************)
(* permute_color(data_file, throw_exception, produce_output): return at    *)
(* once when neither is set; raise ValueError(msg) when throw_exception;   *)
(* otherwise open, permute and save "<name>-perm.png".                     *)
(***************************************************************************)
PermuteColor ==
    /\ pc = "permute"
    /\ CASE ~throwExc /\ ~produceOut -> pc' = "sleep" /\ UNCHANGED <<exc, outputs>>
         [] throwExc -> Raise(PermuteExc)
                        /\ UNCHANGED outputs
         [] OTHER    -> OpenAndSave(1, "sleep", "perm")
    /\ UNCHANGED <<driver, inputsValue, taskDir, subtaskDir, outcome, dataFile, parameters,
                   throwExc, produceOut, pidFile, errorFile, status, avgVars>>
(***************************************************************************)
(* average_images(data_files): a str array is the list of its names; a     *)
(* str is the sequence of its characters, and a one-character name never   *)
(* matches the set pattern (only filenames[0] is read before the raise);   *)
(* "" has no filenames[0].                                                  *)
(***************************************************************************)
FilesOf(x) ==
    CASE x.out = "array" /\ x.dtype = "str" -> [i \in 1..Len(x.data) |-> Images[x.data[i]]]
      [] IsName(x)                          -> <<[matches |-> FALSE, px |-> <<>>]>>
      [] OTHER                              -> <<>>

\* averaging.py line 34: the call enters average_images with fresh locals.
CallAverage ==
    /\ pc = "average"
    /\ avgFiles' = FilesOf(dataFile)
    /\ avgI' = 0 /\ avgSum' = <<>> /\ avgMean' = <<>> /\ avgPc' = "start" /\ avgErr' = "none"
    /\ pc' = "averaging"
    /\ UNCHANGED <<driver, inputsValue, taskDir, subtaskDir, outcome, dataFile, parameters,
                   throwExc, produceOut, pidFile, outputs, exc, errorFile, status>>

\* One step of average_images.
AverageStep ==
    /\ pc = "averaging"
    /\ Avg!MatchSetString \/ Avg!Accumulate \/ Avg!SaveMean
    /\ UNCHANGED <<pc, driver, inputsValue, taskDir, subtaskDir, outcome, dataFile, parameters,
                   throwExc, produceOut, pidFile, outputs, exc, errorFile, status>>

\* average_images returns after saving, or its exception reaches the driver.
ReturnAverage ==
    /\ pc = "averaging"
    /\ avgPc \in {"saved", "raised"}
    /\ IF avgPc = "saved"
       THEN outputs' = outputs \cup {"averaged"} /\ pc' = "sleep" /\ UNCHANGED exc
       ELSE Raise(AverageExc(avgErr)) /\ UNCHANGED outputs
    /\ UNCHANGED <<driver, inputsValue, taskDir, subtaskDir, outcome, dataFile, parameters,
                   throwExc, produceOut, pidFile, errorFile, status, avgVars>>

\* Mutant: a pause of 0 rejected as well (`<= 0` for `< 0`).
SleepAndExitRejectZero ==
    /\ pc = "sleep"
    /\ LET p == Lookup(parameters, execution_pause_seconds) IN
       CASE p.err # NoError                  -> Raise(DriverExc(p.err)) /\ UNCHANGED status
         [] p.val.out # "scalar" \/ p.val.dtype \notin {"int64", "float64"}
                                             -> Raise(DriverExc("TypeError")) /\ UNCHANGED status
         [] p.val.v <= 0                     -> Raise(DriverExc("ValueError")) /\ UNCHANGED status
         [] OTHER                            -> pc' = "done" /\ status' = 0 /\ UNCHANGED exc
    /\ UNCHANGED <<driver, inputsValue, taskDir, subtaskDir, outcome, dataFile, parameters,
                   throwExc, produceOut, pidFile, outputs, errorFile, avgVars>>

(***************************************************************************)
(* time.sleep(parameters...execution_pause_seconds); exit(0). A missing    *)
(* parameter raises in the driver's frame; time.sleep raises TypeError for *)
(* a non-number and ValueError for a negative one.                         *)
(***************************************************************************)
SleepAndExit ==
    /\ pc = "sleep"
    /\ LET p == Lookup(parameters, execution_pause_seconds) IN
       CASE p.err # NoError                  -> Raise(DriverExc(p.err)) /\ UNCHANGED status
         [] p.val.out # "scalar" \/ p.val.dtype \notin {"int64", "float64"}
                                             -> Raise(DriverExc("TypeError")) /\ UNCHANGED status
         [] p.val.v < 0                      -> Raise(DriverExc("ValueError")) /\ UNCHANGED status
         [] OTHER                            -> pc' = "done" /\ status' = 0 /\ UNCHANGED exc
    /\ UNCHANGED <<driver, inputsValue, taskDir, subtaskDir, outcome, dataFile, parameters,
                   throwExc, produceOut, pidFile, outputs, errorFile, avgVars>>

\* except Exception: ZiggyErrorWriter(); exit(1). If the writer raises, the
\* new exception escapes and the interpreter exits with status 1 as well.
HandleException ==
    /\ pc = "except"
    /\ \E w \in {ZiggyErrorWriter(exc, taskDir)} :
       errorFile' = IF w.g = NoFile THEN errorFile ELSE [module |-> w.module, g |-> w.g]
    /\ status' = 1
    /\ pc' = "done"
    /\ UNCHANGED <<driver, inputsValue, taskDir, subtaskDir, outcome, dataFile, parameters,
                   throwExc, produceOut, pidFile, outputs, exc, avgVars>>

Next ==
    \/ WritePidFile
    \/ FlipperReadInputs \/ PermuterReadInputs \/ AveragingReadInputs
    \/ LeftRightFlip \/ UpDownFlip
    \/ SelectOptions \/ PermuteColor
    \/ CallAverage \/ AverageStep \/ ReturnAverage
    \/ SleepAndExit
    \/ HandleException

Spec == Init /\ [][Next]_vars

-----------------------------------------------------------------------------
\* A dict value has field k.
IsDictWith(d, k) == d.py = "dict" /\ HasField(d, k)
\* The algorithm parameters of an inputs value.
ParamsOf(v) == FieldVal(FieldVal(v, moduleParameters), Algorithm_Parameters)
\* A boolean parameter that is set.
ParamSet(v, k) == FieldVal(ParamsOf(v), k).v # 0
\* The data file names an inputs value lists.
NamesOf(v) == LET x == FieldVal(v, dataFilenames) IN IF x.py = "list" THEN x.items ELSE <<x>>

(***************************************************************************)
(* The inputs each step documents: data file names, model file names and   *)
(* moduleParameters.Algorithm_Parameters holding a pause time.sleep        *)
(* accepts; the permuter's two switches; one image for a flip or a         *)
(* permutation, and one or more images of one data set for averaging.      *)
(***************************************************************************)
WellFormed(d, v) ==
    /\ IsDictWith(v, dataFilenames) /\ IsDictWith(v, modelFilenames)
    /\ IsDictWith(v, moduleParameters)
    /\ IsDictWith(FieldVal(v, moduleParameters), Algorithm_Parameters)
    /\ IsDictWith(ParamsOf(v), execution_pause_seconds)
    /\ FieldVal(ParamsOf(v), execution_pause_seconds).py \in {"int", "float"}
    /\ FieldVal(ParamsOf(v), execution_pause_seconds).v >= 0
    /\ d = "permuter" => \A k \in {throw_exception_subtask_0, produce_output_subtask_1} :
                            IsDictWith(ParamsOf(v), k) /\ FieldVal(ParamsOf(v), k).py = "bool"
    /\ \A i \in DOMAIN NamesOf(v) : NamesOf(v)[i].py = "str"
    /\ d \in {"flipper", "permuter"} => Len(NamesOf(v)) = 1
    /\ d = "averaging" => Len(NamesOf(v)) >= 1 /\ \A i \in DOMAIN NamesOf(v) : Images[NamesOf(v)[i].v].matches

\* A failure the run asks for: an image that cannot be opened or saved, or
\* the permuter's throw_exception_subtask_0 in st-0.
Injected ==
    \/ driver \in {"flipper", "permuter"} /\ outcome # <<FlipOk, FlipOk>>
    \/ driver = "permuter" /\ subtaskDir = "st-0" /\ ParamSet(inputsValue, throw_exception_subtask_0)

(***************************************************************************)
(* A step run on well-formed inputs, with no failure asked for, exits 0:   *)
(* reading the inputs with the codec, taking the entries, the algorithm    *)
(* on what the codec returned and the sleep all succeed.                   *)
(***************************************************************************)
StepSucceedsOnWellFormedInputs ==
    (pc = "done" /\ WellFormed(driver, inputsValue) /\ ~Injected) => status = 0

(***************************************************************************)
(* A step that exits 0 has saved an image, except the permuter in st-1     *)
(* with produce_output_subtask_1 false: the one way the sample pipeline    *)
(* documents for a subtask to complete without output.                    *)
(***************************************************************************)
OutputsMatchParameters ==
    status = 0 =>
        (outputs = {} <=> /\ driver = "permuter" /\ subtaskDir = "st-1"
                          /\ ~ParamSet(inputsValue, produce_output_subtask_1))

\* What read_file gives back for a str or int the writer stored.
ReadBackOf(x) ==
    CASE x.py = "str" /\ x.v = EmptyStr -> OutEmpty
      [] x.py = "str"                   -> OutScalar("str", x.v)
      [] OTHER                          -> OutScalar("int64", x.v)

\* The message ZiggyErrorReturn should record: args[0], or str(exception).
MessageOf(e) == IF Falsy(e.args[1]) THEN Scalar("str", e.str) ELSE e.args[1]

(***************************************************************************)
(* A step that exits with status 1 leaves "<module>-error.h5" in its      *)
(* working (subtask) directory, from which read_file recovers the exception's type name as   *)
(* identifier and its message: the except block's ZiggyErrorWriter() and   *)
(* the codec's write_file must together report every exception.            *)
(***************************************************************************)
ErrorReported ==
    (pc = "done" /\ status = 1) =>
        /\ errorFile # NoErrorFile
        /\ errorFile.module = taskDir[3]
        /\ \E r \in {ReadFile(errorFile.g, <<>>, DefaultOptions)} :
           /\ r.err = NoError
           /\ Attr(r.val, identifier) = [err |-> NoError, val |-> OutScalar("str", TypeName(exc.type).v)]
           /\ Attr(r.val, message) = [err |-> NoError, val |-> ReadBackOf(MessageOf(exc))]

(***************************************************************************)
(* The error file reads back with reconstitute_struct_array on, as the     *)
(* stack-trace tests read it, and its stack holds one record per frame of  *)
(* the exception's traceback.                                              *)
(***************************************************************************)
ErrorStackReadable ==
    errorFile # NoErrorFile =>
        \E r \in {ReadFile(errorFile.g, <<>>, [DefaultOptions EXCEPT !.reconstitute = TRUE])} :
        LET st == Attr(r.val, stack)
        IN  /\ r.err = NoError
            /\ st.err = NoError
            /\ st.val.out = "objarray"
            /\ Len(st.val.items) = Len(exc.frames)

=============================================================================
