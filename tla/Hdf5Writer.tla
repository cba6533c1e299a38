----------------------------- MODULE Hdf5Writer -----------------------------
(***************************************************************************)
(* The write path of Hdf5ModuleInterface (hdf5mi/hdf5.py): write_file and  *)
(* everything it calls. Each operator takes the group being filled and     *)
(* returns [g |-> the group as left, err |-> exception raised or NoError]. *)
(* An exception stops the walk; what was created before it stays in the    *)
(* file, so g is then the partially written group.                         *)
(***************************************************************************)
EXTENDS Hdf5Types

Ok(g) == [g |-> g, err |-> NoError]
Fail(g, e) == [g |-> g, err |-> e]

\* `value is None or (isinstance(value, str) and len(value) == 0)`
IsEmptyValue(x) == x.py = "None" \/ (x.py = "str" /\ x.v = EmptyStr)

\* numpy dtype of a Python scalar: numpy.array(5).dtype and friends.
ScalarDType == [int |-> "int64", float |-> "float64", bool |-> "bool", str |-> "str"]

(***************************************************************************)
(* numpy.atleast_1d(value): a scalar becomes a length-1 array; a list of   *)
(* scalars of one type an array of that dtype, [] a float64 array, a list  *)
(* of anything else an object array; a 0-d array gets shape (1,).          *)
(***************************************************************************)
AtLeast1d(x) ==
    CASE x.py \in ScalarTypes -> NdArray(ScalarDType[x.py], <<1>>, <<x.v>>)
      [] x.py = "list" /\ x.items = <<>> -> NdArray("float64", <<0>>, <<>>)
      [] x.py = "list" /\ \E t \in ScalarTypes : \A i \in 1..Len(x.items) : x.items[i].py = t ->
            NdArray(ScalarDType[x.items[1].py], <<Len(x.items)>>,
                    [i \in 1..Len(x.items) |-> x.items[i].v])
      [] x.py = "list" -> ObjArray(<<Len(x.items)>>, x.items)
      [] x.py \in {"ndarray", "objarray"} /\ x.shape = <<>> -> [x EXCEPT !.shape = <<1>>]
      [] x.py \in {"ndarray", "objarray"} -> x
      [] OTHER -> ObjArray(<<1>>, <<x>>)

DTypeOf(np) == IF np.py = "objarray" THEN "object" ELSE np.dtype

\* _is_string_array: every element is a str (vacuously so when empty).
IsStringArray(np) ==
    IF np.py = "ndarray" THEN np.dtype = "str"
    ELSE \A i \in 1..Len(np.items) : np.items[i].py = "str"

\* _is_dict_or_object_array: every element is a dict or an object.
IsDictOrObjectArray(np) ==
    np.py = "objarray" /\ \A i \in 1..Len(np.items) : np.items[i].py = "dict"

(***************************************************************************)
(* _write_numeric_array: DATA_TYPE from the registry (KeyError for a dtype *)
(* outside it, before anything is written), then the dataset, gzip'ed iff  *)
(* level > 0 and numel > min; h5py refuses a gzip level outside 0..9.      *)
(***************************************************************************)
WriteNumericArray(np, g, name, o) ==
    IF np.dtype \notin DOMAIN TYPE_ATTRIBUTE_MAP THEN Fail(g, "KeyError")
    ELSE LET g1 == SetAttr(g, "DATA_TYPE", TYPE_ATTRIBUTE_MAP[np.dtype])
             gz == o.level > 0 /\ Numel(np.shape) > o.minElems
         IN  IF gz /\ o.level \notin 0..9 THEN Fail(g1, "ValueError")
             ELSE Ok(AddKid(g1, name, Dataset(np.dtype, np.shape, np.data, gz)))

\* _write_bool_array: flag the group, then write the values as int8 0/1.
WriteBoolArray(np, g, name, o) ==
    WriteNumericArray([np EXCEPT !.dtype = "int8"],
                      SetAttr(g, "LOGICAL_BOOLEAN_ARRAY", 0), name, o)

(***************************************************************************)
(* _write_string_array and _to_utf8. A one-element array is re-made from   *)
(* value[0].encode(): shape (1,), and an AttributeError when value[0] is   *)
(* itself an array (ndim > 1). Otherwise every cell is encoded, shape kept.*)
(***************************************************************************)
WriteStringArray(np, g, name) ==
    LET g1   == SetAttr(g, "DATA_TYPE", TYPE_ATTRIBUTE_MAP["str"])
        data == IF np.py = "ndarray" THEN np.data
                ELSE [i \in 1..Len(np.items) |-> np.items[i].v]
    IN  IF Numel(np.shape) = 1 /\ Len(np.shape) > 1 THEN Fail(g1, "AttributeError")
        ELSE Ok(AddKid(g1, name,
                 Dataset("vlenstr", IF Numel(np.shape) = 1 THEN <<1>> ELSE np.shape,
                         data, FALSE)))

(***************************************************************************)
(* _is_scalar: numbers, bools and strs are scalars; a list is one iff it   *)
(* has one element, which is unpacked. Anything else reaches               *)
(* isinstance(value, numpy.array), which raises TypeError because          *)
(* numpy.array is a function, not a type.                                  *)
(***************************************************************************)
IsScalar(x) ==
    CASE x.py \in ScalarTypes -> [err |-> NoError, scalar |-> TRUE, val |-> x]
      [] x.py = "list" /\ Len(x.items) = 1 -> [err |-> NoError, scalar |-> TRUE, val |-> x.items[1]]
      [] x.py = "list" -> [err |-> NoError, scalar |-> FALSE, val |-> NoneV]
      [] OTHER -> [err |-> "TypeError", scalar |-> FALSE, val |-> NoneV]

\* _is_primitive: a number, a bool or a str.
IsPrimitive(x) == x.py \in ScalarTypes

(***************************************************************************)
(* _is_parallelizable: looks at element 0 only. Every field is tested (no  *)
(* short cut), so one field that makes _is_scalar raise aborts the write.  *)
(***************************************************************************)
IsParallelizable(x) ==
    LET sample == x.items[1]
        rs     == [i \in 1..Len(sample.fields) |-> IsScalar(sample.fields[i].val)]
    IN  IF \E i \in DOMAIN rs : rs[i].err # NoError
        THEN [err |-> "TypeError", par |-> FALSE]
        ELSE [err |-> NoError,
              par |-> \A i \in DOMAIN rs : rs[i].scalar /\ IsPrimitive(rs[i].val)]

(***************************************************************************)
(* numpy assignment pvalue[k][j] = element_j[k] into a column whose dtype  *)
(* came from element 0. Numeric and bool columns convert numbers (a bool   *)
(* column keeps only "non-zero"), take the single element of a 1-list,     *)
(* refuse a str (ValueError), a longer list (ValueError) and None or a     *)
(* container (TypeError). A str column (vlen str = object dtype) stores    *)
(* the Python object as it is.                                             *)
(***************************************************************************)
CastCell(col, x) ==
    CASE col = "str" -> [err |-> NoError, cell |-> x]
      [] x.py = "list" /\ Len(x.items) = 1 /\ x.items[1].py \in {"int", "float", "bool"} ->
            [err |-> NoError, cell |-> x.items[1]]
      [] x.py = "list" -> [err |-> "ValueError", cell |-> x]
      [] x.py \in {"int", "float", "bool"} -> [err |-> NoError, cell |-> x]
      [] x.py = "str" -> [err |-> "ValueError", cell |-> x]
      [] OTHER -> [err |-> "TypeError", cell |-> x]

CellValue(col, c) == IF col = "bool" THEN (IF c.v # 0 THEN 1 ELSE 0) ELSE c.v

\* The column of field k built from every element, as numpy holds it.
Column(col, shape, cells) ==
    IF col # "str" THEN NdArray(col, shape, [j \in DOMAIN cells |-> CellValue(col, cells[j])])
    ELSE IF \A j \in DOMAIN cells : cells[j].py = "str"
         THEN NdArray("str", shape, [j \in DOMAIN cells |-> cells[j].v])
         ELSE ObjArray(shape, cells)

(***************************************************************************)
(* _name_from_index: row-major subscripts of flat index `index` appended   *)
(* to the field name, "<name>-i0-i1-...". Subscripts stay below 10 under   *)
(* the model's bound on dims, so each is one digit token.                  *)
(***************************************************************************)
Stride(shape, i) == Numel(SubSeq(shape, i + 1, Len(shape)))
NameFromIndex(name, index, shape) ==
    name \o [i \in 1..Len(shape) |-> (index \div Stride(shape, i)) % shape[i]]

RECURSIVE WriteScalarStruct(_, _, _), WriteFields(_, _, _, _), WriteField(_, _, _, _),
          WriteStructArray(_, _, _, _), WriteElements(_, _, _, _, _, _),
          WriteStructAsParallelArray(_, _, _)

(***************************************************************************)
(* _write_scalar_struct: DATA_TYPE = H5T_OPAQUE, then one subgroup per     *)
(* field in insertion order, each with FIELD_ORDER = its index.            *)
(***************************************************************************)
WriteScalarStruct(x, g, o) ==
    IF x.py # "dict" THEN Fail(g, "ValueError")
    ELSE WriteFields(x.fields, 1, SetAttr(g, "DATA_TYPE", TYPE_ATTRIBUTE_MAP["H5T_OPAQUE"]), o)

WriteFields(fs, i, g, o) ==
    IF i > Len(fs) THEN Ok(g)
    ELSE LET k  == fs[i].name
             r  == WriteField(fs[i].val, SetAttr(NewGroup, "FIELD_ORDER", i - 1), k, o)
             g2 == AddKid(g, k, r.g)
         IN  IF r.err # NoError THEN Fail(g2, r.err) ELSE WriteFields(fs, i + 1, g2, o)

\* The dispatch of _write_scalar_struct on the kind of one field's value.
WriteField(x, g, k, o) ==
    LET np == AtLeast1d(x) IN
    CASE IsEmptyValue(x)              -> Ok(SetAttr(g, "EMPTY_FIELD", 0))
      [] x.py = "dict"                -> WriteScalarStruct(x, g, o)
      [] DTypeOf(np) \in NumberDTypes -> WriteNumericArray(np, g, k, o)
      [] DTypeOf(np) = "bool"         -> WriteBoolArray(np, g, k, o)
      [] IsStringArray(np)            -> WriteStringArray(np, g, k)
      [] IsDictOrObjectArray(np)      -> WriteStructArray(x, g, k, o)
      [] OTHER                        -> Fail(g, "ValueError")

(***************************************************************************)
(* _write_struct_array: parallel form when element 0 allows it; otherwise  *)
(* STRUCT_OBJECT_ARRAY, its dims (value.shape: AttributeError for a Python *)
(* list) and one element group "<name>-i0-..." per element, row-major.     *)
(***************************************************************************)
WriteStructArray(x, g, name, o) ==
    LET p == IsParallelizable(x) IN
    IF p.err # NoError THEN Fail(g, p.err)
    ELSE IF p.par THEN WriteStructAsParallelArray(x, g, o)
    ELSE LET g1 == SetAttr(g, "STRUCT_OBJECT_ARRAY", 0) IN
         IF x.py = "list" THEN Fail(g1, "AttributeError")
         ELSE WriteElements(x.items, 1, SetAttr(g1, "STRUCT_OBJECT_ARRAY_DIMS", x.shape),
                            name, x.shape, o)

WriteElements(items, j, g, name, shape, o) ==
    IF j > Len(items) THEN Ok(g)
    ELSE LET r  == WriteScalarStruct(items[j], NewGroup, o)
             g2 == AddKid(g, NameFromIndex(name, j - 1, shape), r.g)
         IN  IF r.err # NoError THEN Fail(g2, r.err)
             ELSE WriteElements(items, j + 1, g2, name, shape, o)

(***************************************************************************)
(* _write_struct_as_parallel_array: PARALLEL_ARRAY, then for each field of *)
(* element 0, in order, a column with element 0's dtype filled from every  *)
(* element (KeyError for an element without the field); fields only later *)
(* elements have are never looked at. The columns are then written as a    *)
(* scalar struct.                                                          *)
(***************************************************************************)
WriteStructAsParallelArray(x, g, o) ==
    LET g1    == SetAttr(g, "PARALLEL_ARRAY", 0)
        items == x.items
        shape == IF x.py = "list" THEN <<Len(items)>> ELSE x.shape
        keys  == FieldNames(items[1])
        ColOf(k) == LET s == IsScalar(FieldVal(items[1], k)).val
                    IN  IF s.py = "str" THEN "str" ELSE ScalarDType[s.py]
        Cast(k, j) == IF ~HasField(items[j], k) THEN [err |-> "KeyError", cell |-> NoneV]
                      ELSE CastCell(ColOf(k), FieldVal(items[j], k))
        \* (key, element) pairs in the loop's order, and the first failure
        order == [n \in 1..(Len(keys) * Len(items)) |->
                    <<keys[((n - 1) \div Len(items)) + 1], ((n - 1) % Len(items)) + 1>>]
        bad   == {n \in DOMAIN order : Cast(order[n][1], order[n][2]).err # NoError}
    IN  IF bad # {} THEN LET n == Min(bad) IN Fail(g1, Cast(order[n][1], order[n][2]).err)
        ELSE WriteScalarStruct(
               PyDict([i \in 1..Len(keys) |->
                 Field(keys[i], Column(ColOf(keys[i]), shape,
                         [j \in 1..Len(items) |-> Cast(keys[i], j).cell]))]),
               g1, o)

\* write_file: the root group of a freshly truncated file gets the struct.
WriteFile(x, o) == WriteScalarStruct(x, NewGroup, o)
=============================================================================
