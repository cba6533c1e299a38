--------------------------- MODULE ZiggyErrorWriter ---------------------------
(***************************************************************************)
(* ziggytools/stacktrace.py: what ZiggyErrorWriter() does in the except    *)
(* block of a pipeline step. It takes the module name from the task        *)
(* directory, builds a ZiggyErrorReturn from the exception in flight       *)
(* (message, identifier and one ZiggyStack per traceback frame) and writes *)
(* it with a fresh Hdf5ModuleInterface to "<module>-error.h5". Its own     *)
(* failures are Python exceptions raised inside the except block.          *)
(*                                                                         *)
(* An exception is [type, args, str, frames]: the type's name, the args    *)
(* tuple (Python values), str(exception) as a string id, and the frames of *)
(* its traceback from the handler's frame down to the raise.               *)
(***************************************************************************)
EXTENDS Hdf5Writer

\* Field names, as tokens in byte order (see Hdf5Types).
file == <<34>>
identifier == <<35>>
line == <<36>>
message == <<37>>
name == <<40>>
stack == <<41>>

\* The exception types that occur; a type's __name__ is the string id
\* 100 + its index here.
ExcTypes == <<"AttributeError", "IndexError", "KeyError", "NameError", "OSError",
              "TypeError", "ValueError", "AssertionError", "FileNotFoundError">>
TypeName(t) == Scalar("str", 100 + CHOOSE i \in 1..Len(ExcTypes) : ExcTypes[i] = t)

Exception(t, args, s, frames) == [type |-> t, args |-> args, str |-> s, frames |-> frames]
\* A traceback frame: module name, function name (string ids), line number.
Frame(m, f, l) == [module |-> m, function |-> f, lineno |-> l]

\* ZiggyStack(traceback): module __name__, co_name and tb_lineno, in that order.
ZiggyStack(fr) ==
    PyDict(<<Field(file, Scalar("str", fr.module)), Field(name, Scalar("str", fr.function)),
             Field(line, Scalar("int", fr.lineno))>>)

\* A Python value's truth: None, "", 0 and False are false.
Falsy(x) == x.py = "None" \/ (x.py \in ScalarTypes /\ x.v = 0)

\* Mutant: the walk starts at tb_next, skipping the handler's own frame.
StackOfSkipFirst(e) ==
    PyList([i \in 1..Len(e.frames) - 1 |-> ZiggyStack(e.frames[i + 1])])

\* The while loop over the traceback: one ZiggyStack per frame, outermost first.
StackOf(e) == PyList([i \in DOMAIN e.frames |-> ZiggyStack(e.frames[i])])

\* Mutant: identifier = str(exception) instead of the type's __name__.
ZiggyErrorReturnStrIdentifier(e) ==
    IF e.args = <<>> THEN [err |-> "IndexError", val |-> NoneV]
    ELSE LET m == IF Falsy(e.args[1]) THEN Scalar("str", e.str) ELSE e.args[1] IN
         [err |-> NoError,
          val |-> PyDict(<<Field(message, m), Field(identifier, Scalar("str", e.str)),
                           Field(stack, StackOf(e))>>)]

(***************************************************************************)
(* ZiggyErrorReturn(): message = args[0] (IndexError when there is none),  *)
(* replaced by str(exception) when None or false; identifier = the type's  *)
(* __name__; stack = one ZiggyStack per frame. The three exception_* are   *)
(* deleted again before the write, so the object holds these three.        *)
(***************************************************************************)
ZiggyErrorReturn(e) ==
    IF e.args = <<>> THEN [err |-> "IndexError", val |-> NoneV]
    ELSE LET m == IF Falsy(e.args[1]) THEN Scalar("str", e.str) ELSE e.args[1] IN
         [err |-> NoError,
          val |-> PyDict(<<Field(message, m), Field(identifier, TypeName(e.type)),
                           Field(stack, StackOf(e))>>)]

(***************************************************************************)
(* ZiggyErrorWriter(seq_num): the task directory is the parent of the      *)
(* working directory, split on "-"; its third token is the module name     *)
(* (IndexError when there are fewer). seq_num is checked and then unused:  *)
(* the file is "<module>-error.h5". The file is written by write_file      *)
(* with default options. Result: the exception the writer raised (or      *)
(* NoError), the file's module name and the tree it holds (NoFile if the   *)
(* writer raised before opening it).                                       *)
(***************************************************************************)
ZiggyErrorWriter(e, taskDir) ==
    IF Len(taskDir) < 3 THEN [err |-> "IndexError", module |-> <<>>, g |-> NoFile]
    ELSE LET r == ZiggyErrorReturn(e) IN
         IF r.err # NoError THEN [err |-> r.err, module |-> taskDir[3], g |-> NoFile]
         ELSE LET w == WriteFile(r.val, DefaultOptions) IN
              [err |-> w.err, module |-> taskDir[3], g |-> w.g]
=============================================================================
