------------------------------- MODULE MCHdf5 -------------------------------
(***************************************************************************)
(* Model-checking instance of Hdf5ModuleInterface: one file, the values    *)
(* below as write_file arguments, three field names.                       *)
(*   a, b, c: the names "a", "b", "c" (word tokens, see Hdf5Types).        *)
(* Every input is a root struct {b: <leaf>, a: 2.0}: b is inserted before  *)
(* a, so insertion order and name order differ.                            *)
(***************************************************************************)
EXTENDS Hdf5ModuleInterface

a == <<10>>
b == <<11>>
c == <<12>>

I(n) == Scalar("int", n)
S(n) == Scalar("str", n)
Bo(n) == Scalar("bool", n)
Fl(n) == Scalar("float", n)

Root(leaf) == PyDict(<<Field(b, leaf), Field(a, Fl(2))>>)

\* Element j of a record array whose fields are all scalars (parallelisable).
ParElem(j) == PyDict(<<Field(a, I(j)), Field(c, S(j))>>)
\* Element j of a record array with a 2-element list field (not parallelisable).
NonParElem(j) == PyDict(<<Field(a, I(j)), Field(c, PyList(<<I(j), I(j + 1)>>))>>)

(***************************************************************************)
(* Values every branch of the writer handles as the spec says: the shapes  *)
(* of the unit tests (2x2 record arrays) and 1-d record arrays.            *)
(***************************************************************************)
GoodLeaves ==
    { NoneV, S(EmptyStr), I(5), Bo(1), S(3), Fl(1),
      PyList(<<I(1), I(2)>>), PyList(<<Bo(1), Bo(0), Bo(1)>>), PyList(<<>>), PyList(<<S(6)>>),
      NdArray("bool", <<2, 2>>, <<0, 0, 1, 1>>),
      NdArray("str", <<2, 2>>, <<1, 2, 3, 4>>),
      NdArray("int8", <<2, 1>>, <<3, 4>>),
      NdArray("float32", <<>>, <<9>>),
      NdArray("uint8", <<2>>, <<1, 2>>),                  \* UnknownDType
      PyDict(<<Field(c, I(1)), Field(a, S(2))>>),
      ObjArray(<<2, 2>>, [j \in 1..4 |-> ParElem(j)]),
      PyList(<<PyDict(<<Field(a, Fl(1)), Field(c, PyList(<<I(3)>>))>>),
               PyDict(<<Field(a, Fl(2)), Field(c, PyList(<<I(4)>>))>>)>>),
      ObjArray(<<2, 2>>, [j \in 1..4 |-> NonParElem(j)]),
      ObjArray(<<3>>, [j \in 1..3 |-> NonParElem(j)]) }

GoodInputs == {Root(l) : l \in GoodLeaves}

MCPaths == {<<>>, <<a>>, <<b>>, <<c>>}

(***************************************************************************)
(* Inputs on which the code and the spec part ways (one run each).         *)
(***************************************************************************)
\* A 2x3 record array that is not parallelisable (rows and columns differ).
NonSquareInputs == {Root(ObjArray(<<2, 3>>, [j \in 1..6 |-> NonParElem(j)]))}

\* A record array whose second element has a field the first lacks.
HeteroInputs ==
    {Root(ObjArray(<<2>>, <<ParElem(1),
                           PyDict(<<Field(a, I(2)), Field(c, S(2)), Field(b, I(9))>>)>>))}

\* A nested record, read through the two-segment path "b/c".
NestedInputs == {Root(PyDict(<<Field(c, I(1)), Field(a, S(2))>>))}
NestedPaths == {<<b, c>>}

\* A record array whose elements have an empty (None) field.
NoneFieldInputs ==
    {Root(PyList(<<PyDict(<<Field(a, NoneV), Field(c, I(1))>>),
                   PyDict(<<Field(a, NoneV), Field(c, I(2))>>)>>))}

\* A Python list (not an ndarray) of records that are not parallelisable.
ListStructInputs == {Root(PyList(<<NonParElem(1), NonParElem(2)>>))}
=============================================================================
