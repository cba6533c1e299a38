--------------------------- MODULE Hdf5Persistable ---------------------------
(***************************************************************************)
(* What the HDF5 Persistable codec promises (spec.md sections 4 and 8),    *)
(* stated over the values handed to write_file, without any HDF5 layout.   *)
(* A file holds the value last written to it, or is Undefined after a      *)
(* failed write. A read returns the value the round-trip laws give for the *)
(* options in force: scalars and 1-d length-1 arrays come back as scalars; *)
(* a parallelisable record array comes back as a record of arrays unless   *)
(* reconstitute_struct_array; fields come in insertion order, or in name   *)
(* order without preserve_field_order. A write fails exactly for the       *)
(* values the spec rejects (UnsupportedValue, HeterogeneousRecordArray,    *)
(* UnknownDType), or with an I/O error from the HDF5 library.              *)
(***************************************************************************)
EXTENDS Hdf5Types

CONSTANTS Files, Inputs, Paths, Levels, MinElements

VARIABLES store, opts, last

Absent == [st |-> "absent"]
Undefined == [st |-> "undefined"]
Stored(x) == [st |-> "stored", v |-> x]

\* Logical element type of a Python scalar (spec section 3).
SpecDType == [int |-> "int64", float |-> "float64", bool |-> "bool", str |-> "str"]

IsEmptyV(x) == x.py = "None" \/ (x.py = "str" /\ x.v = EmptyStr)
IsRecordArray(x) ==
    /\ x.py \in {"list", "objarray"} /\ x.items # <<>>
    /\ \A i \in 1..Len(x.items) : x.items[i].py = "dict"
ArrShape(x) == IF x.py = "list" THEN <<Len(x.items)>> ELSE x.shape

\* A scalar primitive, or a length-1 list of one; Unbox gives the primitive.
IsScalarLike(y) ==
    \/ y.py \in ScalarTypes
    \/ y.py = "list" /\ Len(y.items) = 1 /\ y.items[1].py \in ScalarTypes
Unbox(y) == IF y.py = "list" THEN y.items[1] ELSE y
TypeTag(y) == IF IsScalarLike(y) THEN Unbox(y).py ELSE y.py

NameSet(d) == {d.fields[i].name : i \in 1..Len(d.fields)}

\* Every element has element 0's field names, and field types agree.
Homogeneous(x) ==
    \A j \in 1..Len(x.items) :
        /\ NameSet(x.items[j]) = NameSet(x.items[1])
        /\ \A k \in NameSet(x.items[1]) :
              TypeTag(FieldVal(x.items[j], k)) = TypeTag(FieldVal(x.items[1], k))

\* Parallelisable: homogeneous, every field a scalar primitive (4.3.2).
Parallelisable(x) ==
    Homogeneous(x) /\ \A j \in 1..Len(x.items) : \A k \in NameSet(x.items[j]) :
                          IsScalarLike(FieldVal(x.items[j], k))

\* The logical array of a numeric, boolean or string leaf.
Leaf(x) ==
    CASE x.py \in ScalarTypes -> [dtype |-> SpecDType[x.py], shape |-> <<1>>, data |-> <<x.v>>]
      [] x.py = "list" /\ x.items = <<>> -> [dtype |-> "float64", shape |-> <<0>>, data |-> <<>>]
      [] x.py = "list" -> [dtype |-> SpecDType[x.items[1].py], shape |-> <<Len(x.items)>>,
                           data |-> [i \in 1..Len(x.items) |-> x.items[i].v]]
      [] OTHER -> [dtype |-> x.dtype, shape |-> IF x.shape = <<>> THEN <<1>> ELSE x.shape,
                   data |-> x.data]

IsLeaf(x) ==
    \/ x.py \in ScalarTypes
    \/ x.py = "ndarray"
    \/ x.py = "list" /\ \E t \in ScalarTypes : \A i \in 1..Len(x.items) : x.items[i].py = t

\* Scalar collapse on read: a 1-d length-1 array is its element.
LeafOut(dt, shape, data) ==
    IF shape = <<1>> THEN OutScalar(dt, data[1]) ELSE OutArray(dt, shape, data)

\* Field order on read: insertion order, or ascending names.
Ordered(fs, o) ==
    IF o.preserve THEN fs
    ELSE LET names == SortedNames({fs[i].name : i \in DOMAIN fs}) IN
         [i \in DOMAIN fs |-> Field(names[i], FieldVal([fields |-> fs], names[i]))]

RECURSIVE SpecRejects(_), SpecValue(_, _)

\* A value the writer must refuse.
SpecRejects(x) ==
    CASE IsEmptyV(x)        -> FALSE
      [] x.py = "dict"      -> \E i \in 1..Len(x.fields) : SpecRejects(x.fields[i].val)
      [] IsRecordArray(x)   -> ~Homogeneous(x) \/ \E j \in 1..Len(x.items) : SpecRejects(x.items[j])
      [] IsLeaf(x)          -> Leaf(x).dtype \notin DOMAIN TYPE_ATTRIBUTE_MAP \cup {"bool"}
      [] OTHER              -> TRUE

\* The value read back from a written x under options o.
SpecValue(x, o) ==
    CASE IsEmptyV(x) -> OutEmpty
      [] x.py = "dict" ->
            OutStruct(Ordered([i \in 1..Len(x.fields) |->
                        Field(x.fields[i].name, SpecValue(x.fields[i].val, o))], o))
      [] IsRecordArray(x) /\ Parallelisable(x) ->
            LET e0    == x.items[1]
                n     == Len(x.items)
                Col(k) == SpecDType[Unbox(FieldVal(e0, k)).py]
                Cell(j, k) == IF Col(k) = "bool"
                              THEN (IF Unbox(FieldVal(x.items[j], k)).v # 0 THEN 1 ELSE 0)
                              ELSE Unbox(FieldVal(x.items[j], k)).v
            IN  IF o.reconstitute
                THEN OutObjArray(ArrShape(x),
                       [j \in 1..n |-> OutStruct(Ordered(
                          [i \in 1..Len(e0.fields) |-> Field(e0.fields[i].name,
                              OutScalar(Col(e0.fields[i].name), Cell(j, e0.fields[i].name)))], o))])
                ELSE OutStruct(Ordered(
                       [i \in 1..Len(e0.fields) |-> Field(e0.fields[i].name,
                          LeafOut(Col(e0.fields[i].name), ArrShape(x),
                                  [j \in 1..n |-> Cell(j, e0.fields[i].name)]))], o))
      [] IsRecordArray(x) ->
            OutObjArray(ArrShape(x), [j \in 1..Len(x.items) |-> SpecValue(x.items[j], o)])
      [] OTHER -> LET l == Leaf(x) IN LeafOut(l.dtype, l.shape, l.data)

\* read(path, group_path): descend through record fields; a missing segment
\* (or one that is not a record) is GroupNotFound.
RECURSIVE SpecRead(_, _, _)
SpecRead(x, segs, o) ==
    IF segs = <<>> THEN [err |-> NoError, val |-> SpecValue(x, o)]
    ELSE IF x.py = "dict" /\ HasField(x, segs[1])
         THEN IF Len(segs) = 1 THEN [err |-> NoError, val |-> SpecValue(FieldVal(x, segs[1]), o)]
              ELSE SpecRead(FieldVal(x, segs[1]), Tail(segs), o)
         ELSE [err |-> "GroupNotFound", val |-> OutNone]

-----------------------------------------------------------------------------
\* The outcome of the last operation; a write also records the value it was
\* given, so a rejection is attributable to the argument that caused it.
Result(op, e, x) == [op |-> op, arg |-> NoneV, err |-> e, val |-> x]
WriteResult(a, e) == [op |-> "write", arg |-> a, err |-> e, val |-> OutNone]

Init ==
    /\ store = [f \in Files |-> Absent]
    /\ opts = DefaultOptions
    /\ last = Result("none", NoError, OutNone)

SetOption ==
    /\ \/ \E l \in Levels : opts' = [opts EXCEPT !.level = l]
       \/ \E n \in MinElements : opts' = [opts EXCEPT !.minElems = n]
       \/ \E b \in BOOLEAN : opts' = [opts EXCEPT !.reconstitute = b]
       \/ \E b \in BOOLEAN : opts' = [opts EXCEPT !.preserve = b]
    /\ last' = Result("set", NoError, OutNone)
    /\ UNCHANGED store

Write(f, x) ==
    /\ \/ /\ SpecRejects(x)
          /\ store' = [store EXCEPT ![f] = Undefined]
          /\ last' = WriteResult(x, "rejected")
       \/ /\ ~SpecRejects(x)
          /\ store' = [store EXCEPT ![f] = Stored(x)]
          /\ last' = WriteResult(x, NoError)
       \/ /\ store' \in {[store EXCEPT ![f] = s] : s \in {store[f], Undefined}}
          /\ last' = WriteResult(NoneV, "IOError")
    /\ UNCHANGED opts

Read(f, p) ==
    /\ CASE store[f] = Absent    -> last' = Result("read", "NoSuchFile", OutNone)
         [] store[f] = Undefined -> last' = Result("read", "unspecified", OutNone)
         [] OTHER -> LET r == SpecRead(store[f].v, p, opts) IN
                     last' = Result("read", r.err, r.val)
    /\ UNCHANGED <<store, opts>>

Next ==
    \/ SetOption
    \/ \E f \in Files, x \in Inputs : Write(f, x)
    \/ \E f \in Files, p \in Paths : Read(f, p)

Spec == Init /\ [][Next]_<<store, opts, last>>
=============================================================================
