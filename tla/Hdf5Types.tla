----------------------------- MODULE Hdf5Types -----------------------------
(***************************************************************************)
(* The data shared by the writer and the reader of hdf5mi/hdf5.py          *)
(* (class Hdf5ModuleInterface):                                            *)
(*   - the Python values handed to write_file,                             *)
(*   - the HDF5 node tree the file holds (groups, attributes, datasets),   *)
(*   - the Python values read_file returns,                                *)
(*   - the DATA_TYPE registry and the options of the interface object.     *)
(*                                                                         *)
(* Names. An HDF5 link name is the sequence of its "-"-separated tokens.   *)
(* A token t in 0..9 is the decimal digit t; a token >= 10 is a word (a    *)
(* letter). In byte order "-" sorts below digits and digits below letters, *)
(* so the byte order of names is the lexicographic order of their token    *)
(* sequences.                                                              *)
(***************************************************************************)
EXTENDS Integers, Sequences, SequencesExt, FiniteSets, TLC

Digits == 0..9

\* Lexicographic (byte) order of two names; h5py lists links in this order.
NameLess(m, n) ==
    \/ IsStrictPrefix(m, n)
    \/ \E i \in 1..Len(m) :
          /\ i <= Len(n)
          /\ m[i] < n[i]
          /\ \A j \in 1..(i - 1) : m[j] = n[j]

SortedNames(S) == SetToSortSeq(S, NameLess)

\* Does name `sub` occur inside the string of name `s` (Python `sub in s`)?
\* With single-character tokens this is a contiguous run of tokens.
IsSubName(sub, s) ==
    \E i \in 1..Len(s) : \E j \in i..Len(s) : SubSeq(s, i, j) = sub

\* Number of elements of an array of the given shape (product of dims).
Numel(shape) == FoldLeft(LAMBDA acc, d : acc * d, 1, shape)

(***************************************************************************)
(* DATA_TYPE registry: _type_attribute_map. Keys are numpy dtype names,    *)
(* "str" stands for numpy.str_ and "H5T_OPAQUE" for structs.               *)
(***************************************************************************)
TYPE_ATTRIBUTE_MAP ==
    [int8 |-> 2, int16 |-> 3, int32 |-> 4, int64 |-> 5,
     float32 |-> 6, float64 |-> 7, str |-> 8, H5T_OPAQUE |-> 9]

\* numpy dtypes for which numpy.issubdtype(dtype, numpy.number) holds.
NumberDTypes ==
    {"int8", "int16", "int32", "int64", "uint8", "float32", "float64"}

(***************************************************************************)
(* Python values given to write_file. A scalar's v is an integer: the      *)
(* number itself, 0/1 for a bool, and for a str an index into the strings  *)
(* of the model (EmptyStr is "").                                          *)
(***************************************************************************)
ScalarTypes == {"int", "float", "bool", "str"}
EmptyStr == 0

NoneV == [py |-> "None"]
Scalar(t, x) == [py |-> t, v |-> x]
PyList(items) == [py |-> "list", items |-> items]
NdArray(dt, shape, data) ==
    [py |-> "ndarray", dtype |-> dt, shape |-> shape, data |-> data]
ObjArray(shape, items) == [py |-> "objarray", shape |-> shape, items |-> items]
\* A dict, or an object through its __dict__: fields in insertion order.
PyDict(fields) == [py |-> "dict", fields |-> fields]
Field(n, x) == [name |-> n, val |-> x]

FieldNames(d) == [i \in 1..Len(d.fields) |-> d.fields[i].name]
HasField(d, k) == \E i \in 1..Len(d.fields) : d.fields[i].name = k
FieldVal(d, k) == d.fields[CHOOSE i \in 1..Len(d.fields) : d.fields[i].name = k].val

(***************************************************************************)
(* The HDF5 file: a tree of groups; attrs maps attribute names to values,  *)
(* kids maps link names to child nodes. A vlen UTF-8 string dataset has    *)
(* dtype "vlenstr"; its cells are the encoded strings.                     *)
(***************************************************************************)
Group(attrs, kids) == [node |-> "group", attrs |-> attrs, kids |-> kids]
NewGroup == Group(<<>>, <<>>)
Dataset(dt, shape, data, gzip) ==
    [node |-> "dataset", dtype |-> dt, shape |-> shape, data |-> data, gzip |-> gzip]
NoFile == [node |-> "absent"]

\* group.attrs.create(k, x): creates or overwrites attribute k.
SetAttr(g, k, x) == [g EXCEPT !.attrs = (k :> x) @@ @]
\* group.create_group / create_dataset: links node n under name k.
AddKid(g, k, n) == [g EXCEPT !.kids = (k :> n) @@ @]
HasAttr(g, k) == k \in DOMAIN g.attrs

(***************************************************************************)
(* Values returned by read_file. OutEmpty is the "" the reader returns for *)
(* empty groups; OutNone an unfilled slot of a struct array.               *)
(***************************************************************************)
OutEmpty == [out |-> "empty"]
OutNone == [out |-> "None"]
OutScalar(dt, x) == [out |-> "scalar", dtype |-> dt, v |-> x]
OutArray(dt, shape, data) == [out |-> "array", dtype |-> dt, shape |-> shape, data |-> data]
OutStruct(fields) == [out |-> "struct", fields |-> fields]
OutObjArray(shape, items) == [out |-> "objarray", shape |-> shape, items |-> items]

(***************************************************************************)
(* Results of the recursive walks: the value (or node) built so far and    *)
(* the Python exception raised, if any.                                    *)
(***************************************************************************)
NoError == "none"

(***************************************************************************)
(* Options of a Hdf5ModuleInterface object and their values after          *)
(* __init__.                                                               *)
(***************************************************************************)
DefaultOptions ==
    [level |-> 0, minElems |-> 0, reconstitute |-> FALSE, preserve |-> TRUE]
=============================================================================
