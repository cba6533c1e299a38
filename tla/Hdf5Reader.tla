----------------------------- MODULE Hdf5Reader -----------------------------
(***************************************************************************)
(* The read path of Hdf5ModuleInterface (hdf5mi/hdf5.py): read_file and   *)
(* everything it calls. Each operator returns [err |-> exception raised or *)
(* NoError, val |-> the Python value built].                               *)
(***************************************************************************)
EXTENDS Hdf5Types

RVal(x) == [err |-> NoError, val |-> x]
RErr(e) == [err |-> e, val |-> OutNone]

\* The key _get_group_keys yields for an order nobody claimed: dict.get -> None.
NoKey == <<>>

Kids(g) == DOMAIN g.kids
OnlyKid(g) == g.kids[CHOOSE k \in Kids(g) : TRUE]

(***************************************************************************)
(* _get_group_keys: h5py's name order, or, when preserve_field_order, the  *)
(* name whose FIELD_ORDER is i for i = 0..n-1 (a missing attribute raises  *)
(* KeyError; of two names with one order the later one in name order      *)
(* wins; an order nobody has gives None).                                  *)
(***************************************************************************)
\* Mutant: the names in h5py's order whatever preserve_field_order says.
GetGroupKeysNameOrder(g, o) == [err |-> NoError, keys |-> SortedNames(Kids(g))]

GetGroupKeys(g, o) ==
    LET names == SortedNames(Kids(g))
        n     == Len(names)
        Owner(i) == {j \in 1..n : g.kids[names[j]].attrs["FIELD_ORDER"] = i}
    IN  IF ~o.preserve THEN [err |-> NoError, keys |-> names]
        ELSE IF \E j \in 1..n : ~HasAttr(g.kids[names[j]], "FIELD_ORDER")
             THEN [err |-> "KeyError", keys |-> <<>>]
        ELSE [err |-> NoError,
              keys |-> [i \in 1..n |-> IF Owner(i - 1) = {} THEN NoKey
                                       ELSE names[Max(Owner(i - 1))]]]

(***************************************************************************)
(* _read_dataset: the single dataset of the group. A vlen string dataset   *)
(* reads as bytes; LOGICAL_BOOLEAN_ARRAY casts to bool; DATA_TYPE (missing:*)
(* KeyError) = 8 decodes the bytes to str (_to_strings); a 1-d length-1    *)
(* array is unwrapped to its element.                                      *)
(***************************************************************************)
ReadDataset(g) ==
    LET ds  == OnlyKid(g)
        a0  == OutArray(IF ds.dtype = "vlenstr" THEN "bytes" ELSE ds.dtype, ds.shape, ds.data)
        a1  == IF HasAttr(g, "LOGICAL_BOOLEAN_ARRAY")
               THEN OutArray("bool", a0.shape, [i \in DOMAIN a0.data |-> IF a0.data[i] # 0 THEN 1 ELSE 0])
               ELSE a0
        a2  == IF g.attrs["DATA_TYPE"] = TYPE_ATTRIBUTE_MAP["str"] /\ a1.dtype = "bytes"
               THEN [a1 EXCEPT !.dtype = "str"] ELSE a1
    IN  IF ~HasAttr(g, "DATA_TYPE") THEN RErr("KeyError")
        ELSE IF Len(a2.shape) = 1 /\ a2.shape[1] = 1 THEN RVal(OutScalar(a2.dtype, a2.data[1]))
        ELSE RVal(a2)

(***************************************************************************)
(* _struct_array_location: the subscripts are the tokens after the first   *)
(* (split("-"), pop(0), int(): ValueError for a non-digit token), folded   *)
(* as ind = ind * array_dims[i-1] + subscript[i] for i > 0.                *)
(***************************************************************************)
StructArrayLocation(name, dims) ==
    LET subs == Tail(name) IN
    IF \E i \in DOMAIN subs : subs[i] \notin Digits THEN [err |-> "ValueError", ind |-> 0]
    ELSE IF Len(subs) > Len(dims) + 1 THEN [err |-> "IndexError", ind |-> 0]
    ELSE IF subs = <<>> THEN [err |-> NoError, ind |-> 0]
    ELSE [err |-> NoError,
          ind |-> FoldLeft(LAMBDA acc, i : acc * dims[i - 1] + subs[i], subs[1],
                           [i \in 1..(Len(subs) - 1) |-> i + 1])]

\* An element of a flattened read array, as numpy hands it out.
Flatten(x) ==
    CASE x.out = "array" -> [err |-> NoError, data |-> x.data]
      [] x.out = "scalar" /\ x.dtype # "str" -> [err |-> NoError, data |-> <<x.v>>]
      [] OTHER -> [err |-> "AttributeError", data |-> <<>>]

DTypeOfOut(x) == x.dtype

RECURSIVE ReadGroup(_, _), ReadGroups(_, _), ReadKeys(_, _, _, _, _),
          ReadParallelArray(_, _), ReadStructArray(_, _), ReadElements(_, _, _, _, _)

(***************************************************************************)
(* _read_group: PARALLEL_ARRAY, then STRUCT_OBJECT_ARRAY, then more than   *)
(* one child: a struct; exactly one child: a dataset is read, but a single *)
(* child group gives ""; no child: "".                                     *)
(***************************************************************************)
ReadGroup(g, o) ==
    CASE HasAttr(g, "PARALLEL_ARRAY")      -> ReadParallelArray(g, o)
      [] HasAttr(g, "STRUCT_OBJECT_ARRAY") -> ReadStructArray(g, o)
      [] Cardinality(Kids(g)) > 1          -> ReadGroups(g, o)
      [] Cardinality(Kids(g)) = 1 /\ OnlyKid(g).node = "dataset" -> ReadDataset(g)
      [] OTHER                             -> RVal(OutEmpty)

\* _read_groups: a struct of the children read in _get_group_keys order.
ReadGroups(g, o) ==
    LET ks == GetGroupKeys(g, o) IN
    IF ks.err # NoError THEN RErr(ks.err) ELSE ReadKeys(g, ks.keys, 1, <<>>, o)

\* group[None] raises TypeError.
ReadKeys(g, ks, i, acc, o) ==
    IF i > Len(ks) THEN RVal(OutStruct(acc))
    ELSE IF ks[i] = NoKey THEN RErr("TypeError")
    ELSE LET r == ReadGroup(g.kids[ks[i]], o) IN
         IF r.err # NoError THEN r
         ELSE ReadKeys(g, ks, i + 1, Append(acc, Field(ks[i], r.val)), o)

(***************************************************************************)
(* _read_parallel_array: the struct of columns; with reconstitute, the     *)
(* shape of the first column (no field: IndexError; a str scalar has no    *)
(* .shape: AttributeError), every column flattened, element i made of      *)
(* every column's cell i, and the list reshaped.                           *)
(***************************************************************************)
ReadParallelArray(g, o) ==
    LET s0 == ReadGroups(g, o) IN
    IF s0.err # NoError \/ ~o.reconstitute THEN s0
    ELSE LET fs    == s0.val.fields
             flats == [i \in DOMAIN fs |-> Flatten(fs[i].val)]
             Cell(i, e) == OutScalar(DTypeOfOut(fs[i].val), flats[i].data[e])
         IN  IF fs = <<>> THEN RErr("IndexError")
             ELSE IF \E i \in DOMAIN flats : flats[i].err # NoError THEN RErr("AttributeError")
             ELSE IF \E i \in DOMAIN flats : Len(flats[i].data) < Len(flats[1].data)
                  THEN RErr("IndexError")
             ELSE RVal(OutObjArray(
                    IF fs[1].val.out = "array" THEN fs[1].val.shape ELSE <<>>,
                    [e \in 1..Len(flats[1].data) |->
                       OutStruct([i \in DOMAIN fs |-> Field(fs[i].name, Cell(i, e))])]))

(***************************************************************************)
(* _read_struct_array: STRUCT_OBJECT_ARRAY_DIMS, numel slots of None, each *)
(* child (name order) read and stored at _struct_array_location (beyond    *)
(* the list: IndexError), then reshaped to the dims.                       *)
(***************************************************************************)
ReadStructArray(g, o) ==
    IF ~HasAttr(g, "STRUCT_OBJECT_ARRAY_DIMS") THEN RErr("KeyError")
    ELSE LET dims == g.attrs["STRUCT_OBJECT_ARRAY_DIMS"] IN
         ReadElements(g, SortedNames(Kids(g)), 1,
                      [i \in 1..Numel(dims) |-> OutNone], o)

ReadElements(g, names, i, slots, o) ==
    LET dims == g.attrs["STRUCT_OBJECT_ARRAY_DIMS"] IN
    IF i > Len(names) THEN RVal(OutObjArray(dims, slots))
    ELSE LET r   == ReadGroup(g.kids[names[i]], o)
             loc == StructArrayLocation(names[i], dims)
         IN  CASE r.err # NoError             -> r
               [] loc.err # NoError           -> RErr(loc.err)
               [] loc.ind >= Len(slots)       -> RErr("IndexError")
               [] OTHER -> ReadElements(g, names, i + 1,
                                        [slots EXCEPT ![loc.ind + 1] = r.val], o)

(***************************************************************************)
(* _find_group: the first path segment must be a child group; a longer     *)
(* path recurses with the segment's *name* in place of the group, so the   *)
(* next test is Python's substring test on that name, and a hit indexes a  *)
(* str with a str (TypeError). The leading "/" is stripped before.         *)
(***************************************************************************)
FindGroup(g, segs) ==
    LET sub == segs[1] IN
    IF sub \in Kids(g) /\ g.kids[sub].node = "group"
    THEN IF Len(segs) = 1 THEN [err |-> NoError, found |-> TRUE, g |-> g.kids[sub]]
         ELSE IF IsSubName(segs[2], sub) THEN [err |-> "TypeError", found |-> FALSE, g |-> g]
         ELSE [err |-> NoError, found |-> FALSE, g |-> g]
    ELSE [err |-> NoError, found |-> FALSE, g |-> g]

(***************************************************************************)
(* read_file on an existing file: the root as a struct for the empty path, *)
(* else the group found; no such group: NameError (raised after close).    *)
(***************************************************************************)
ReadFile(root, segs, o) ==
    IF segs = <<>> THEN ReadGroups(root, o)
    ELSE LET fg == FindGroup(root, segs) IN
         CASE fg.err # NoError -> RErr(fg.err)
           [] fg.found         -> ReadGroup(fg.g, o)
           [] OTHER            -> RErr("NameError")
=============================================================================
