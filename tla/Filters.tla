------------------------------ MODULE Filters ------------------------------
(***************************************************************************)
(* Metadata values and filters: what a filter matches (filter.rs), and how *)
(* a filter of a request becomes one, within the limits on its nesting and *)
(* size (server.rs, local.rs).                                             *)
(*                                                                         *)
(* A value is its variant and a number.  For a Float the number is its     *)
(* place in the order of f64::total_cmp; keywords and booleans are named   *)
(* by numbers.  A filter is a record with an op.  An Option is a set with  *)
(* at most one element.                                                    *)
(***************************************************************************)
EXTENDS Integers, FiniteSets, SequencesExt, FiniteSetsExt

CONSTANTS
    FilterDepth,   \* 32: filter nesting
    FilterNodes    \* 1024: nodes of a filter

(* Floats in total order.  Big is 2^53, from where on integers share a float. *)
NegInf  == -4
NegZero == -1
Zero    == 0
One     == 2
Big     == 4
Inf     == 6
NaN     == 8

Value(variant, n) == [variant |-> variant, n |-> n]

(* `as f64`: the integers 0, 1, 2^53 and 2^53 + 1 are named 0, 1, 2, 3. *)
AsF64(integer) == CASE integer = 0 -> Zero [] integer = 1 -> One [] OTHER -> Big

(* f64's == and <: no NaN, and the two zeros are equal. *)
FloatEq(a, b) == a # NaN /\ (a = b \/ {a, b} = {NegZero, Zero})

FloatLess(a, b) == a < b /\ b # NaN /\ ~FloatEq(a, b)

(* Value's derived PartialEq *)
ValueEq(v, w) ==
    /\ v.variant = w.variant
    /\ IF v.variant = "float" THEN FloatEq(v.n, w.n) ELSE v.n = w.n

numeric_value(v) ==
    CASE v.variant = "integer" -> {AsF64(v.n)}
      [] v.variant = "float" /\ v.n \notin {NegInf, Inf, NaN} -> {v.n}
      [] OTHER -> {}

(* metadata: a function on the fields a point has. *)
RECURSIVE matches(_, _)
matches(filter, metadata) ==
    CASE filter.op = "match_all" -> TRUE
      [] filter.op = "eq" ->
            /\ filter.field \in DOMAIN metadata
            /\ ValueEq(metadata[filter.field], filter.value)
      [] filter.op = "range" ->
            /\ filter.field \in DOMAIN metadata
            /\ \E x \in numeric_value(metadata[filter.field]) :
                 /\ \A lower \in filter.gte : FloatEq(x, lower) \/ FloatLess(lower, x)
                 /\ \A upper \in filter.lt : FloatLess(x, upper)
      [] filter.op = "and" -> \A i \in DOMAIN filter.filters : matches(filter.filters[i], metadata)
      [] filter.op = "or" -> \E i \in DOMAIN filter.filters : matches(filter.filters[i], metadata)
      [] filter.op = "not" -> ~matches(filter.filter, metadata)

-----------------------------------------------------------------------------
(* A filter of a request differs in its values, which are JSON: strings, booleans and  *)
(* numbers become values, an i64 an Integer and any other number a Float; null, arrays *)
(* and objects are refused.                                                            *)
metadata_value(json) ==
    CASE json.variant = "string" -> {Value("keyword", json.n)}
      [] json.variant = "bool" -> {Value("boolean", json.n)}
      [] json.variant = "i64" -> {Value("integer", json.n)}
      [] json.variant = "f64" -> {Value("float", json.n)}
      [] OTHER -> {}

(* 1 to 128 bytes; "" stands for the others. *)
validated_field(field) == field # ""

\* Mutant: one level too many.
OneLevelDeeper(depth, remaining) == depth <= FilterDepth /\ remaining > 0

MayNest(depth, remaining) == depth < FilterDepth /\ remaining > 0

(* The outcome of a conversion: the filter, unless there was an error, and how many nodes *)
(* the rest of the request may have.                                                      *)
Outcome(filter, remaining) == [filter |-> filter, remaining |-> remaining]

(* The arguments of And and Or are converted in order, up to the first error. *)
RECURSIVE into_filter_bounded(_, _, _)
into_filter_bounded(api, depth, remaining) ==
    LET left == remaining - 1
        Next(done, argument) ==
            IF done.filter = {} THEN done
            ELSE LET one == into_filter_bounded(argument, depth + 1, done.remaining)
                 IN Outcome({Append(fs, f) : fs \in done.filter, f \in one.filter}, one.remaining)
        arguments == FoldLeft(Next, Outcome({<<>>}, left), api.filters)
        inner == into_filter_bounded(api.filter, depth + 1, left)
    IN CASE ~MayNest(depth, remaining) -> Outcome({}, remaining)
         [] OTHER ->
            CASE api.op = "match_all" -> Outcome({api}, left)
              [] api.op = "eq" ->
                    Outcome({[api EXCEPT !.value = v] :
                               v \in {v \in metadata_value(api.value) : validated_field(api.field)}},
                            left)
              [] api.op = "range" -> Outcome({f \in {api} : validated_field(f.field)}, left)
              [] api.op \in {"and", "or"} ->
                    Outcome({[api EXCEPT !.filters = fs] : fs \in arguments.filter},
                            arguments.remaining)
              [] api.op = "not" ->
                    Outcome({[api EXCEPT !.filter = f] : f \in inner.filter}, inner.remaining)

into_filter(api) == into_filter_bounded(api, 0, FilterNodes).filter

-----------------------------------------------------------------------------
(* What the limits are about: the nesting and the nodes of a filter. *)
RECURSIVE Depth(_)
Depth(f) ==
    1 + (IF f.op = "not" THEN Depth(f.filter)
         ELSE IF f.op \in {"and", "or"}
         THEN Max({0} \union {Depth(f.filters[i]) : i \in DOMAIN f.filters})
         ELSE 0)

RECURSIVE Nodes(_)
Nodes(f) ==
    1 + (IF f.op = "not" THEN Nodes(f.filter)
         ELSE IF f.op \in {"and", "or"}
         THEN FoldLeft(LAMBDA n, g : n + Nodes(g), 0, f.filters)
         ELSE 0)

RECURSIVE LeavesValid(_)
LeavesValid(f) ==
    CASE f.op = "match_all" -> TRUE
      [] f.op = "eq" -> validated_field(f.field) /\ metadata_value(f.value) # {}
      [] f.op = "range" -> validated_field(f.field)
      [] f.op = "not" -> LeavesValid(f.filter)
      [] OTHER -> \A i \in DOMAIN f.filters : LeavesValid(f.filters[i])
============================================================================
