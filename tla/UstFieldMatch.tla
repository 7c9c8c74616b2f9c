--------------------------- MODULE UstFieldMatch ---------------------------
(***************************************************************************)
(* match_ustctl_field() (src/src/bin/lttng-sessiond/ust-field-utils.c):   *)
(* whether two field descriptions sent by applications are identical, so *)
(* that the registry may reuse an event.  A field is its name, its        *)
(* abstract type and the type's union, modelled as a function from the    *)
(* union's member paths ("legacy.basic.integer.size", ...) to small       *)
(* values.  Every path is present whatever the type: the members of other *)
(* types hold whatever the application left there, which the comparison   *)
(* must not read.  A nested ustctl_basic_type has its own atype path,     *)
(* whose values 0 and 1 stand for integer and string.                     *)
(***************************************************************************)
EXTENDS Naturals, FiniteSets, Sequences

CONSTANTS Names   \* field names (compared with strncmp on the whole buffer)

VARIABLES first, second, matched

vars == <<first, second, matched>>

LegacyAtypes == {"integer", "enum", "string", "float", "sequence", "array",
                 "variant", "struct"}
NestableAtypes == {"sequence_nestable", "array_nestable", "enum_nestable",
                   "struct_nestable", "variant_nestable"}
Atypes == LegacyAtypes \cup NestableAtypes

(* The members of struct ustctl_integer_type, of union                    *)
(* _ustctl_basic_type at a prefix, and of a ustctl_basic_type.            *)
IntegerPaths(p) ==
    {p \o ".size", p \o ".alignment", p \o ".signedness", p \o ".encoding",
     p \o ".base", p \o ".reverse_byte_order"}
RawBasicPaths(p) ==
    IntegerPaths(p \o ".integer")
    \cup {p \o ".enumeration.id", p \o ".enumeration.name"}
    \cup IntegerPaths(p \o ".enumeration.container_type")
    \cup {p \o ".string.encoding"}
    \cup {p \o ".float.exp_dig", p \o ".float.mant_dig",
          p \o ".float.reverse_byte_order", p \o ".float.alignment"}
BasicPaths(b) == {b \o ".atype"} \cup RawBasicPaths(b \o ".u.basic")

NestedBasics == {"legacy.sequence.elem_type", "legacy.sequence.length_type",
                 "legacy.array.elem_type"}

Paths ==
    RawBasicPaths("legacy.basic")
    \cup UNION {BasicPaths(b) : b \in NestedBasics}
    \cup {"legacy.array.length", "legacy.variant.nr_choices",
          "legacy.variant.tag_name", "legacy._struct.nr_fields",
          "sequence_nestable.alignment", "sequence_nestable.length_name",
          "array_nestable.alignment", "array_nestable.length",
          "enum_nestable.id", "enum_nestable.name",
          "struct_nestable.alignment", "struct_nestable.nr_fields",
          "variant_nestable.alignment", "variant_nestable.nr_choices",
          "variant_nestable.tag_name"}

NestedAtype(f, b) == IF f.u[b \o ".atype"] = 0 THEN "integer" ELSE "string"

-----------------------------------------------------------------------------
(* The comparison, function by function.  Eq(p) is one != test of the C  *)
(* code on the member at path p of both fields.                           *)

Eq(f, g, p) == f.u[p] = g.u[p]

match_ustctl_field_integer(f, g, p) ==
    /\ Eq(f, g, p \o ".size") /\ Eq(f, g, p \o ".alignment")
    /\ Eq(f, g, p \o ".signedness") /\ Eq(f, g, p \o ".encoding")
    /\ Eq(f, g, p \o ".base") /\ Eq(f, g, p \o ".reverse_byte_order")

(* Mutant: the enumeration's container type left unchecked.               *)
EnumWithoutContainerType(f, g, p) ==
    /\ Eq(f, g, p \o ".enumeration.id")
    /\ Eq(f, g, p \o ".enumeration.name")

match_ustctl_field_enum_from_raw_basic_type(f, g, p) ==
    /\ Eq(f, g, p \o ".enumeration.id")
    /\ Eq(f, g, p \o ".enumeration.name")
    /\ match_ustctl_field_integer(f, g, p \o ".enumeration.container_type")

match_ustctl_field_float_from_raw_basic_type(f, g, p) ==
    /\ Eq(f, g, p \o ".float.exp_dig") /\ Eq(f, g, p \o ".float.mant_dig")
    /\ Eq(f, g, p \o ".float.reverse_byte_order")
    /\ Eq(f, g, p \o ".float.alignment")

match_ustctl_field_raw_basic_type(fa, f, ga, g, p) ==
    /\ fa = ga
    /\ CASE fa = "integer" -> match_ustctl_field_integer(f, g, p \o ".integer")
         [] fa = "enum"    -> match_ustctl_field_enum_from_raw_basic_type(f, g, p)
         [] fa = "string"  -> Eq(f, g, p \o ".string.encoding")
         [] fa = "float"   -> match_ustctl_field_float_from_raw_basic_type(f, g, p)
         [] OTHER          -> FALSE

match_ustctl_field_basic_type(f, g, b) ==
    match_ustctl_field_raw_basic_type(NestedAtype(f, b), f, NestedAtype(g, b), g,
                                      b \o ".u.basic")

match_ustctl_field(f, g) ==
    /\ f.name = g.name
    /\ f.atype = g.atype
    /\ CASE f.atype \in {"integer", "enum", "string", "float"} ->
              match_ustctl_field_raw_basic_type(f.atype, f, g.atype, g, "legacy.basic")
         [] f.atype = "sequence" ->
              /\ match_ustctl_field_basic_type(f, g, "legacy.sequence.elem_type")
              /\ match_ustctl_field_basic_type(f, g, "legacy.sequence.length_type")
         [] f.atype = "array" ->
              /\ match_ustctl_field_basic_type(f, g, "legacy.array.elem_type")
              /\ Eq(f, g, "legacy.array.length")
         [] f.atype = "variant" ->
              Eq(f, g, "legacy.variant.nr_choices") /\ Eq(f, g, "legacy.variant.tag_name")
         [] f.atype = "struct" -> Eq(f, g, "legacy._struct.nr_fields")
         [] f.atype = "sequence_nestable" ->
              Eq(f, g, "sequence_nestable.alignment")
              /\ Eq(f, g, "sequence_nestable.length_name")
         [] f.atype = "array_nestable" ->
              Eq(f, g, "array_nestable.alignment") /\ Eq(f, g, "array_nestable.length")
         [] f.atype = "enum_nestable" ->
              Eq(f, g, "enum_nestable.id") /\ Eq(f, g, "enum_nestable.name")
         [] f.atype = "struct_nestable" ->
              Eq(f, g, "struct_nestable.alignment")
              /\ Eq(f, g, "struct_nestable.nr_fields")
         [] f.atype = "variant_nestable" ->
              /\ Eq(f, g, "variant_nestable.alignment")
              /\ Eq(f, g, "variant_nestable.nr_choices")
              /\ Eq(f, g, "variant_nestable.tag_name")
         [] OTHER -> FALSE

-----------------------------------------------------------------------------
(* Reference: the members of the union that a type uses, as laid out by   *)
(* the ABI: the union member the atype selects, and within a nested       *)
(* ustctl_basic_type its atype and the member that atype selects.         *)

NestedPaths(f, b) ==
    {b \o ".atype"}
    \cup IF NestedAtype(f, b) = "integer"
         THEN IntegerPaths(b \o ".u.basic.integer")
         ELSE {b \o ".u.basic.string.encoding"}

LayoutPaths(f) ==
    CASE f.atype = "integer" -> IntegerPaths("legacy.basic.integer")
      [] f.atype = "enum" ->
           {"legacy.basic.enumeration.id", "legacy.basic.enumeration.name"}
           \cup IntegerPaths("legacy.basic.enumeration.container_type")
      [] f.atype = "string" -> {"legacy.basic.string.encoding"}
      [] f.atype = "float" ->
           {p \in Paths : \E q \in {"exp_dig", "mant_dig", "reverse_byte_order",
                                    "alignment"} : p = "legacy.basic.float." \o q}
      [] f.atype = "sequence" ->
           NestedPaths(f, "legacy.sequence.elem_type")
           \cup NestedPaths(f, "legacy.sequence.length_type")
      [] f.atype = "array" ->
           NestedPaths(f, "legacy.array.elem_type") \cup {"legacy.array.length"}
      [] f.atype = "variant" -> {"legacy.variant.nr_choices", "legacy.variant.tag_name"}
      [] f.atype = "struct" -> {"legacy._struct.nr_fields"}
      [] OTHER -> {p \in Paths : \E q \in {"alignment", "length_name", "length", "id",
                                          "name", "nr_fields", "nr_choices",
                                          "tag_name"} : p = f.atype \o "." \o q}

SameLayout(f, g) ==
    /\ f.name = g.name /\ f.atype = g.atype
    /\ \A p \in LayoutPaths(f) : f.u[p] = g.u[p]

-----------------------------------------------------------------------------
(* The fields compared: an application's field, and the one the registry *)
(* already holds for the event.  Inputs: every type with all members 0,   *)
(* the sequence and array types with one nested type a string, and each   *)
(* of these with any single member or the name changed.                   *)

Zero(a) == [name |-> CHOOSE n \in Names : TRUE, atype |-> a, u |-> [p \in Paths |-> 0]]
Flip(f, p) == [f EXCEPT !.u[p] = 1 - @]
Rename(f) == [f EXCEPT !.name = CHOOSE n \in Names : n # f.name]

BaseFields ==
    {Zero(a) : a \in Atypes}
    \cup {Flip(Zero("sequence"), "legacy.sequence.elem_type.atype"),
          Flip(Zero("sequence"), "legacy.sequence.length_type.atype"),
          Flip(Zero("array"), "legacy.array.elem_type.atype")}

Neighbours(f) == {Flip(f, p) : p \in Paths} \cup {Rename(f)}

Pairs ==
    {<<f, g>> : f, g \in BaseFields}
    \cup UNION {UNION {{<<f, g>>, <<g, f>>} : g \in Neighbours(f)} : f \in BaseFields}

Init ==
    /\ \E pr \in Pairs : first = pr[1] /\ second = pr[2]
    /\ matched = "unknown"

(* One call of match_ustctl_field(first, second).                         *)
Compare ==
    /\ matched = "unknown"
    /\ matched' = IF match_ustctl_field(first, second) THEN "match" ELSE "no_match"
    /\ UNCHANGED <<first, second>>

Next == Compare

Spec == Init /\ [][Next]_vars

-----------------------------------------------------------------------------
(* The registry reuses an event only for identical fields:               *)
(* match_ustctl_field() answers true exactly when the two fields agree on *)
(* their name, their type and every member of the union that type uses,  *)
(* whatever the members of the other types hold.                          *)
MatchIsLayoutEquality ==
    matched # "unknown" => (matched = "match" <=> SameLayout(first, second))
=============================================================================
