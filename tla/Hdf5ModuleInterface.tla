------------------------- MODULE Hdf5ModuleInterface -------------------------
(***************************************************************************)
(* One Hdf5ModuleInterface object (hdf5mi/hdf5.py) and the files it works  *)
(* on. Each public method is one atomic action (the code is synchronous    *)
(* and single-threaded): the four option setters, write_file and          *)
(* read_file. Neither read_file nor write_file closes its h5py.File when   *)
(* the walk raises, so the handle stays open until the exception (and the  *)
(* frames it holds) is collected: Release models that collection. While   *)
(* a handle is open, h5py.File(name, "w") cannot truncate the file.        *)
(***************************************************************************)
EXTENDS Hdf5Writer, Hdf5Reader

CONSTANTS
    Files,        \* file names
    Inputs,       \* Python values passed to write_file
    Paths,        \* group paths passed to read_file (<<>> is "")
    Levels,       \* values passed to set_compression_level
    MinElements   \* values passed to set_compression_min_elements

VARIABLES
    opts,     \* the object's options
    disk,     \* file name -> root group, or NoFile
    written,  \* file name -> value of the last write_file and how it ended
    last,     \* the last call: operation, file, path, exception, result
    leaked    \* files with a handle left open by a call that raised

vars == <<opts, disk, written, last, leaked>>

Call(op, f, p, e, x) == [op |-> op, f |-> f, path |-> p, err |-> e, val |-> x]

TypeOK ==
    /\ opts \in [level : Levels \cup {0}, minElems : MinElements \cup {0},
                 reconstitute : BOOLEAN, preserve : BOOLEAN]
    /\ \A f \in Files : disk[f] = NoFile \/ disk[f].node = "group"
    /\ written \in [Files -> [st : {"absent", "ok", "failed"}, v : Inputs \cup {NoneV}]]
    /\ last.op \in {"none", "set", "write", "read"}
    /\ leaked \subseteq Files

Init ==
    /\ opts = DefaultOptions
    /\ disk = [f \in Files |-> NoFile]
    /\ written = [f \in Files |-> [st |-> "absent", v |-> NoneV]]
    /\ last = Call("none", CHOOSE f \in Files : TRUE, <<>>, NoError, OutNone)
    /\ leaked = {}

SetOpt(o) ==
    /\ opts' = o
    /\ last' = Call("set", last.f, <<>>, NoError, OutNone)
    /\ UNCHANGED <<disk, written, leaked>>

\* set_compression_level / set_compression_min_elements: int(argument).
\* Mutant: the level setter stores into the min-elements option.
SetCompressionLevelSwapped(l) == SetOpt([opts EXCEPT !.minElems = l])
SetCompressionLevel(l) == SetOpt([opts EXCEPT !.level = l])
SetCompressionMinElements(n) == SetOpt([opts EXCEPT !.minElems = n])
\* set_reconstitute_struct_array / set_preserve_field_order (bool arguments).
SetReconstituteStructArray(b) == SetOpt([opts EXCEPT !.reconstitute = b])
SetPreserveFieldOrder(b) == SetOpt([opts EXCEPT !.preserve = b])

(***************************************************************************)
(* write_file(f, x): h5py.File(f, "w") fails while a handle on f is open;  *)
(* otherwise the file is truncated and filled by _write_scalar_struct; if  *)
(* that raises, file.close() is skipped and the partial tree stays.        *)
(***************************************************************************)
Write(f, x) ==
    IF f \in leaked
    THEN /\ last' = Call("write", f, <<>>, "OSError", OutNone)
         /\ UNCHANGED <<opts, disk, written, leaked>>
    ELSE LET r == WriteFile(x, opts) IN
         /\ disk' = [disk EXCEPT ![f] = r.g]
         /\ written' = [written EXCEPT ![f] = [st |-> IF r.err = NoError THEN "ok" ELSE "failed",
                                               v  |-> x]]
         /\ leaked' = IF r.err = NoError THEN leaked ELSE leaked \cup {f}
         /\ last' = Call("write", f, <<>>, r.err, OutNone)
         /\ UNCHANGED opts

(***************************************************************************)
(* read_file(f, path): opening a missing file raises OSError; a walk that  *)
(* raises leaves the handle open; "not found" closes it, then NameError.   *)
(***************************************************************************)
Read(f, p) ==
    IF disk[f] = NoFile
    THEN /\ last' = Call("read", f, p, "OSError", OutNone)
         /\ UNCHANGED <<opts, disk, written, leaked>>
    ELSE LET r == ReadFile(disk[f], p, opts) IN
         /\ last' = Call("read", f, p, r.err, r.val)
         /\ leaked' = IF r.err \in {NoError, "NameError"} THEN leaked ELSE leaked \cup {f}
         /\ UNCHANGED <<opts, disk, written>>

\* The raised exception is collected and the h5py.File with it.
Release(f) ==
    /\ f \in leaked
    /\ leaked' = leaked \ {f}
    /\ UNCHANGED <<opts, disk, written, last>>

Next ==
    \/ \E l \in Levels : SetCompressionLevel(l)
    \/ \E n \in MinElements : SetCompressionMinElements(n)
    \/ \E b \in BOOLEAN : SetReconstituteStructArray(b)
    \/ \E b \in BOOLEAN : SetPreserveFieldOrder(b)
    \/ \E f \in Files, x \in Inputs : Write(f, x)
    \/ \E f \in Files, p \in Paths : Read(f, p)
    \/ \E f \in Files : Release(f)

Spec == Init /\ [][Next]_vars

-----------------------------------------------------------------------------
(***************************************************************************)
(* Refinement mapping onto Hdf5Persistable: a file stores the value of its *)
(* last successful write_file, is Undefined after a failed one; Python     *)
(* exceptions map to the spec's error kinds (a write that raises is a      *)
(* rejection, except OSError from opening, which is an I/O error; a        *)
(* NameError from read_file is GroupNotFound). What a read of an Undefined *)
(* file returns is unspecified.                                            *)
(***************************************************************************)
AbsStore ==
    [f \in Files |-> CASE written[f].st = "ok"     -> [st |-> "stored", v |-> written[f].v]
                       [] written[f].st = "failed" -> [st |-> "undefined"]
                       [] OTHER                    -> [st |-> "absent"]]

AbsErr(op, e) ==
    CASE e = NoError                      -> NoError
      [] op = "write" /\ e = "OSError"   -> "IOError"
      [] op = "write"                    -> "rejected"
      [] op = "read" /\ e = "OSError"    -> "NoSuchFile"
      [] op = "read" /\ e = "NameError"  -> "GroupNotFound"
      [] OTHER                           -> e

\* The argument of the last write_file is the value it recorded in written;
\* a write refused at open records nothing, and the spec's I/O error does
\* not name its argument either.
AbsArg ==
    IF last.op = "write" /\ last.err # "OSError" THEN written[last.f].v ELSE NoneV

AbsLast ==
    IF last.op = "read" /\ written[last.f].st = "failed"
    THEN [op |-> "read", arg |-> NoneV, err |-> "unspecified", val |-> OutNone]
    ELSE [op |-> last.op, arg |-> AbsArg, err |-> AbsErr(last.op, last.err), val |-> last.val]

Persistable == INSTANCE Hdf5Persistable WITH store <- AbsStore, last <- AbsLast

\* The interface object implements the codec the spec describes: every
\* write_file accepts exactly the values the spec accepts, and every read_file
\* of a successfully written file returns the spec's round-trip value under
\* the options in force, or GroupNotFound exactly where the spec says so.
ImplementsPersistable == Persistable!Spec
=============================================================================
