---------------------------- MODULE MCPipelineStep ----------------------------
(***************************************************************************)
(* Inputs for checking PipelineStep: the inputs files the worker may      *)
(* write for each step, the images, what opening and saving an image may  *)
(* do, and the task and subtask directory names.                          *)
(***************************************************************************)
EXTENDS PipelineStep

\* A second parameter set and a second flip parameter, as tokens.
Flip_Parameters == <<31>>
flip_count == <<42>>

B(x) == Scalar("bool", x)
I(x) == Scalar("int", x)
S(x) == Scalar("str", x)

\* An inputs value: data file names `names` (string ids), the parameters
\* `ps` under Algorithm_Parameters, and `sets` (1 or 2) parameter sets.
Inputs(names, ps, sets) ==
    LET ap == PyDict(ps)
        fp == PyDict(<<Field(flip_count, I(2))>>)
        mp == IF sets = 2 THEN PyDict(<<Field(Algorithm_Parameters, ap), Field(Flip_Parameters, fp)>>)
              ELSE PyDict(<<Field(Algorithm_Parameters, ap)>>)
    IN  PyDict(<<Field(dataFilenames, PyList([i \in DOMAIN names |-> S(names[i])])),
                 Field(moduleParameters, mp),
                 Field(modelFilenames, PyList(<<S(71), S(72)>>))>>)

\* A pause with a second parameter: a group of one child would read back as
\* "" (the single-parameter-set finding).
Pause(p) == <<Field(execution_pause_seconds, p), Field(flip_count, I(1))>>
PermParams(t, o) == <<Field(execution_pause_seconds, I(0)),
                      Field(throw_exception_subtask_0, B(t)), Field(produce_output_subtask_1, B(o))>>

\* Data files: 70 for a flip or a permutation; 75, 76 two images of one set
\* (their uint8 sum wraps); 77 a name the set pattern does not match.
MCImages == (70 :> [matches |-> FALSE, px |-> <<1, 2>>]) @@
            (75 :> [matches |-> TRUE, px |-> <<10, 200>>]) @@
            (76 :> [matches |-> TRUE, px |-> <<255, 0>>]) @@
            (77 :> [matches |-> FALSE, px |-> <<1, 1>>])

\* Well-formed inputs of each step (and, for averaging, batches with a name
\* that is not of a data set, second or first).
GoodInputs ==
    [d \in {"flipper", "permuter", "averaging"} |->
        CASE d = "flipper"  -> {Inputs(<<70>>, Pause(I(0)), 2), Inputs(<<70>>, Pause(Scalar("float", 1)), 2)}
          [] d = "permuter" -> {Inputs(<<70>>, PermParams(t, o), 2) : t, o \in {0, 1}}
          [] OTHER          -> {Inputs(<<75, 76>>, Pause(I(0)), 2), Inputs(<<75, 77>>, Pause(I(0)), 2),
                                Inputs(<<77, 75>>, Pause(I(0)), 2)}]

\* Two frames: the driver's call and the raise inside the algorithm.
TwoFrames == <<Frame(50, 51, 35), Frame(54, 55, 63)>>
\* Opening and saving: success; FileNotFoundError(2, "...") as open() raises
\* it; ValueError("") whose message falls back to str(exception).
GoodOutcomes == {FlipOk,
                 Exception("FileNotFoundError", <<I(2), S(73)>>, 74, TwoFrames),
                 Exception("ValueError", <<S(EmptyStr)>>, EmptyStr, TwoFrames)}
\* "50-100-flip" and "50-100-flip-x".
GoodTaskDirs == {<<80, 81, 82>>, <<80, 81, 82, 83>>}
MCSubtaskDirs == {"st-0", "st-1", "st-2"}

\* Image code that raises with no arguments (a bare `assert`, `raise
\* ValueError()`).
NoArgsOutcomes == {FlipOk, Exception("AssertionError", <<>>, EmptyStr, TwoFrames)}

\* A flip node whose moduleParameters holds only Algorithm_Parameters.
SingleSetInputs == [d \in {"flipper"} |-> {Inputs(<<70>>, Pause(I(0)), 1)}]

\* An averaging subtask with a single image of its data set.
SingleImageInputs == [d \in {"averaging"} |-> {Inputs(<<75>>, Pause(I(0)), 2)}]
=============================================================================
