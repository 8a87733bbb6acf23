---------------------------- MODULE FieldLayouts ----------------------------
(***************************************************************************)
(* Field expressions and the layouts inferred for them before a function   *)
(* is packaged (core/expressions.py, core/layout.py and the layout part of *)
(* execution/case.py).  A field set is a function from the names found in  *)
(* the initial directory to the OpenFOAM class in each file's header.      *)
(***************************************************************************)
EXTENDS Integers, Sequences
LOCAL INSTANCE TLC

\* An expression tree.  The compact form grad("U") and the form with an
\* argument have one canonical expression, so they are one value here.
Field(name) == [op |-> "field", name |-> name, component |-> "", args |-> <<>>]
Component(name, axis) == [Field(name) EXCEPT !.component = axis]
Delta == [op |-> "filter_width", name |-> "", component |-> "", args |-> <<>>]
Apply(op, args) == [op |-> op, name |-> "", component |-> "", args |-> args]

\* Expressions, nested at most five deep (bound): what is said of a tree below is a
\* recursive function on them.
Over(expressions) == [op : STRING, name : STRING, component : STRING, args : Seq(expressions)]
Expressions == Over(Over(Over(Over(Over({})))))

Arities ==
    [op \in {"grad", "div", "laplacian", "curl", "dot", "ddot", "mag", "symm", "dev"} |->
        IF op \in {"dot", "ddot"} THEN {2} ELSE IF op \in {"div", "laplacian"} THEN {1, 2} ELSE {1}]

\* FieldExpression.__post_init__, for the node and, as each was constructed
\* before it, for its arguments.
WellFormed(expression) ==
    LET wellFormed[e \in Expressions] ==
            /\ \/ e.op = "field" /\ e.name # "" /\ e.args = <<>>
               \/ e.op = "filter_width" /\ e.name = "" /\ e.args = <<>>
               \/ e.op \in DOMAIN Arities /\ Len(e.args) \in Arities[e.op]
            /\ \A n \in DOMAIN e.args : wellFormed[e.args[n]]
    IN  wellFormed[expression]

\* _walk_expression: the expression and everything below it.
Nodes(expression) ==
    LET nodes[e \in Expressions] == {e} \cup UNION {nodes[e.args[n]] : n \in DOMAIN e.args}
    IN  nodes[expression]

Derived(e) == e.op \notin {"field", "filter_width"}
-----------------------------------------------------------------------------
Kinds == {"scalar", "vector", "spherical_tensor", "symm_tensor", "tensor"}
ClassKinds ==
    [volScalarField |-> "scalar", volVectorField |-> "vector",
     volSphericalTensorField |-> "spherical_tensor", volSymmTensorField |-> "symm_tensor",
     volTensorField |-> "tensor"]

\* FieldLayout.transport_width and physical_shape.
Width == [scalar |-> 1, vector |-> 3, spherical_tensor |-> 1, symm_tensor |-> 6, tensor |-> 9]
Shape ==
    [scalar |-> <<>>, vector |-> <<3>>, spherical_tensor |-> <<1>>,
     symm_tensor |-> <<3, 3>>, tensor |-> <<3, 3>>]

\* Where entry <<i, j>> of a symmetric tensor is in compact storage, which keeps
\* xx xy xz yy yz zz.
Compact == <<<<1, 2, 3>>, <<2, 4, 5>>, <<3, 5, 6>>>>

\* FieldLayout.unpack for one row, into a matrix for a symmetric tensor ...
Unpack(kind, row) ==
    IF kind = "symm_tensor" THEN [i \in 1..3 |-> [j \in 1..3 |-> row[Compact[i][j]]]] ELSE row

\* ... and FieldLayout.pack, which reads the upper triangle.
Pack(kind, value) ==
    IF kind = "symm_tensor"
    THEN <<value[1][1], value[1][2], value[1][3], value[2][2], value[2][3], value[3][3]>>
    ELSE value

\* ValueError, and KeyError for a field that is not in the initial directory.
Invalid == "invalid"
Missing == "missing"
Known(kinds) == \A n \in DOMAIN kinds : kinds[n] \in Kinds

\* _field_layout: the coordinates are scalars of their own, a selector picks a
\* component of a vector.
FieldKind(fields, e) ==
    IF e.name \in {"x", "y", "z"} /\ e.component = "" THEN "scalar"
    ELSE IF e.name \notin DOMAIN fields THEN Missing
    ELSE IF fields[e.name] \notin DOMAIN ClassKinds THEN Invalid
    ELSE IF e.component = "" THEN ClassKinds[fields[e.name]]
    ELSE IF fields[e.name] = "volVectorField" /\ e.component \in {"x", "y", "z"} THEN "scalar"
    ELSE Invalid

DotKinds ==
    LET tensors == {"tensor", "symm_tensor"}
    IN  [pair \in {<<"vector", "vector">>} |-> "scalar"] @@
        [pair \in (tensors \X {"vector"}) \cup ({"vector"} \X tensors) |-> "vector"] @@
        [pair \in tensors \X tensors |-> "tensor"]

\* The kind of an operation applied to arguments of known kinds.
Applied(op, kinds) ==
    LET only(kind) == kinds = <<kind>>
    IN  CASE op = "grad" /\ only("scalar") -> "vector"
          [] op = "grad" /\ only("vector") -> "tensor"
          [] op = "div" /\ Len(kinds) = 2 -> kinds[2]
          [] op = "div" /\ only("vector") -> "scalar"
          [] op = "div" /\ (only("tensor") \/ only("symm_tensor")) -> "vector"
          [] op = "laplacian" -> kinds[Len(kinds)]
          [] op = "curl" /\ only("vector") -> "vector"
          [] op \in {"mag", "ddot"} -> "scalar"
          [] op = "symm" /\ only("tensor") -> "symm_tensor"
          [] op = "dev" /\ kinds[1] \in {"scalar", "symm_tensor", "tensor"} -> kinds[1]
          [] op = "dot" /\ kinds \in DOMAIN DotKinds -> DotKinds[kinds]
          [] OTHER -> Invalid

\* _expression_layout: the first argument without a layout decides what is
\* raised.
Kind(fields, expression) ==
    LET kind[e \in Expressions] ==
            LET kinds == [n \in DOMAIN e.args |-> kind[e.args[n]]]
                failed == {n \in DOMAIN kinds : kinds[n] \notin Kinds}
            IN  IF e.op = "field" THEN FieldKind(fields, e)
                ELSE IF e.op = "filter_width" THEN "scalar"
                ELSE IF Known(kinds) THEN Applied(e.op, kinds)
                ELSE kinds[CHOOSE n \in failed : \A m \in failed : n <= m]
    IN  kind[expression]

\* The contracts of the built-in adapters, by the names of their outputs.
AdapterOutputs ==
    [kEqnFjord |-> {"nut", "kProduction", "kDissipationCoeff"}, nutFjord |-> {"nut"}]
Contract(program) == IF program \in DOMAIN AdapterOutputs THEN AdapterOutputs[program] ELSE {}

\* _output_layout: a field the case does not have may be one the adapter makes,
\* and those are all scalars.
OutputKind(fields, program, e) ==
    LET kind == Kind(fields, e)
    IN  IF kind = Missing /\ e.op = "field" /\ e.component = "" /\ e.name \in Contract(program)
        THEN "scalar" ELSE kind
-----------------------------------------------------------------------------
(***************************************************************************)
(* What continuum mechanics says of the same expressions, to check the     *)
(* table above against: the rank of the result, and whether it is          *)
(* symmetric by construction.                                              *)
(***************************************************************************)
KindRank ==
    [scalar |-> 0, vector |-> 1, spherical_tensor |-> 2, symm_tensor |-> 2, tensor |-> 2]

TensorRank(fields, expression) ==
    LET order[e \in Expressions] ==
            LET rank(n) == order[e.args[n]]
            IN  CASE e.op = "field" /\ e.component = "" /\ e.name \in DOMAIN fields ->
                        KindRank[ClassKinds[fields[e.name]]]
                  [] e.op = "grad" -> rank(1) + 1
                  [] e.op = "div" /\ Len(e.args) = 1 -> rank(1) - 1
                  [] e.op \in {"div", "laplacian", "curl", "dev", "symm"} -> rank(Len(e.args))
                  [] e.op = "dot" -> rank(1) + rank(2) - 2
                  [] OTHER -> 0
    IN  order[expression]

\* The width the solver sends: six entries of a symmetric tensor, one of a
\* spherical one, 3^rank otherwise.
TensorWidth(fields, e) ==
    LET kind == Kind(fields, e)
        rank == TensorRank(fields, e)
    IN  IF kind = "symm_tensor" THEN 6 ELSE IF kind = "spherical_tensor" THEN 1 ELSE 3 ^ rank
=============================================================================
