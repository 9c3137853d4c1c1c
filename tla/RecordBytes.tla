----------------------------- MODULE RecordBytes -----------------------------
(***************************************************************************)
(* How the hub turns a record into the bytes it hashes.  A layout says     *)
(* which fields a record has and, apart from that, which fields the hasher *)
(* takes and in what order, so a field the hasher forgets is a field two   *)
(* records may differ in and still have the same bytes.                    *)
(*                                                                         *)
(* Widths keep their order and not their size: an identity is four bytes,  *)
(* a u64 three, a u32 two, a u8 one.  SHA-256 is taken to be injective: a  *)
(* digest is a self-delimiting copy of what was hashed.                    *)
(***************************************************************************)
EXTENDS Integers, Sequences, FiniteSets, SequencesExt, TLC

Wide(w, n) == [i \in 1 .. w |-> IF i = w THEN n ELSE 0]

U8(n) == Wide(1, n)
U32(n) == Wide(2, n)
U64(n) == Wide(3, n)

\* Mutant of HashText.
HashTextBare(v) == v

HashText(v) == U64(Len(v)) \o v

(***************************************************************************)
(* The layouts.  An optional value is <<>> or <<v>>, a sum <<case, v>>, a  *)
(* record a function on its field names.                                   *)
(***************************************************************************)
Id == <<"id">>
Revision == <<"u64">>
Clock == <<"u64">>
Packs == <<"u32">>
Grams == <<"grams">>
Text == <<"text">>
Flag == <<"code", 0, 1>>
Code(first, last) == <<"code", first, last>>
Opt(t) == <<"opt", t>>
Many(t) == <<"list", 2, t>>
ManyLong(t) == <<"list", 3, t>>
Sum(cases) == <<"sum", cases>>
Fields(shape, order) == <<"fields", shape, order>>
Extra(purpose, t) == <<"extra", purpose, t>>
Sealed(purpose, t) == <<"sealed", purpose, t>>
Nothing == Fields(<<>>, <<>>)

Case(tag, t) == [tag |-> U8(tag), type |-> t]

\* A purpose or a kind is a word no other field can spell.
Purposes == <<"receipt", "opening", "movement", "discrepancy", "treatment", "dispatch", "departure",
  "disposition", "return", "count_observe", "count_post", "report", "review", "duplicate", "observation",
  "found", "found_stock", "source", "recipient", "follow_up", "additional", "explain", "explain_source",
  "count_return", "classify", "new_work", "replan", "split", "reference", "prepare", "revise", "issue",
  "replace", "unused", "facts_found", "facts_count", "returned", "counted", "surplus", "allowance",
  "treatment_result", "dispatch_result", "departure_result", "disposition_result", "count_result",
  "post_result", "report_result", "observation_result", "population_result", "return_result",
  "actual_result", "projection_result", "duplicate_result", "recovery_origin", "initial_review",
  "interpretations", "interpretation", "count_source">>

Purpose(p) == <<100 + (CHOOSE i \in DOMAIN Purposes : Purposes[i] = p)>>

Named(p, t) == [tag |-> Purpose(p), type |-> t]

RECURSIVE Bytes(_, _)
Bytes(t, v) ==
  CASE t[1] = "id" -> Wide(4, v)
    [] t[1] = "u64" -> U64(v)
    [] t[1] = "u32" -> U32(v)
    [] t[1] = "grams" -> U32(IF v = <<>> THEN 0 ELSE v[1])
    [] t[1] = "code" -> U8(v)
    [] t[1] = "text" -> HashText(v)
    [] t[1] = "opt" -> IF v = <<>> THEN U8(0) ELSE U8(1) \o Bytes(t[2], v[1])
    [] t[1] = "list" -> Wide(t[2], Len(v)) \o FlattenSeq([i \in DOMAIN v |-> Bytes(t[3], v[i])])
    [] t[1] = "sum" -> t[2][v[1]].tag \o Bytes(t[2][v[1]].type, v[2])
    [] t[1] = "fields" -> FlattenSeq([i \in DOMAIN t[3] |-> Bytes(t[2][t[3][i]], v[t[3][i]])])
    [] t[1] = "extra" -> IF v = <<>> THEN <<>> ELSE Purpose(t[2]) \o Bytes(t[3], v[1])
    [] t[1] = "sealed" -> LET s == Bytes(t[3], v) IN Purpose(t[2]) \o <<Len(s)>> \o s
-----------------------------------------------------------------------------
(***************************************************************************)
(* The records the checks try: a plain one, every record that differs from *)
(* it in one place, and every record that differs in two places of a       *)
(* length that is not fixed, where bytes could shift from one field into   *)
(* the next.                                                               *)
(***************************************************************************)
RECURSIVE Plain(_)
Plain(t) ==
  CASE t[1] \in {"id", "u64", "u32"} -> 1
    [] t[1] = "code" -> t[2]
    [] t[1] = "text" -> <<1>>
    [] t[1] \in {"opt", "grams", "extra"} -> <<>>
    [] t[1] = "list" -> <<Plain(t[3])>>
    [] t[1] = "sum" -> <<1, Plain(t[2][1].type)>>
    [] t[1] = "fields" -> [f \in DOMAIN t[2] |-> Plain(t[2][f])]
    [] t[1] = "sealed" -> Plain(t[3])

Loose(t) == t[1] \in {"text", "opt", "list", "sum", "extra"}

\* A few other values of a field whose length is not fixed.
Shifts(t) ==
  CASE t[1] = "text" -> {<<1, 1>>, <<1, 2>>, <<2>>}
    [] t[1] = "list" -> {<<>>, <<Plain(t[3]), Plain(t[3])>>}
    [] t[1] = "sum" -> {<<i, Plain(t[2][i].type)>> : i \in 2 .. Len(t[2])}
    [] t[1] = "opt" -> {<<Plain(t[2])>>}
    [] t[1] = "extra" -> {<<Plain(t[3])>>}

RECURSIVE Others(_)
Others(t) ==
  CASE t[1] \in {"id", "u64", "u32"} -> {2}
    [] t[1] = "grams" -> {<<1>>, <<2>>}
    [] t[1] = "code" -> (t[2] + 1) .. t[3]
    [] t[1] = "text" -> Shifts(t)
    [] t[1] = "opt" -> Shifts(t) \cup {<<o>> : o \in Others(t[2])}
    [] t[1] = "extra" -> Shifts(t) \cup {<<o>> : o \in Others(t[3])}
    [] t[1] = "list" -> Shifts(t) \cup {<<o>> : o \in Others(t[3])}
    [] t[1] = "sum" -> Shifts(t)
                         \cup UNION {{<<i, o>> : o \in Others(t[2][i].type)} : i \in DOMAIN t[2]}
    [] t[1] = "sealed" -> Others(t[3])
    [] t[1] = "fields" ->
         LET plain == Plain(t)
             loose == {f \in DOMAIN t[2] : Loose(t[2][f])}
         IN  (UNION {{[plain EXCEPT ![f] = o] : o \in Others(t[2][f])} : f \in DOMAIN t[2]})
               \cup UNION {{[plain EXCEPT ![p[1]] = o, ![p[2]] = q] :
                              o \in Shifts(t[2][p[1]]), q \in Shifts(t[2][p[2]])} :
                            p \in {pair \in loose \X loose : pair[1] # pair[2]}}

Values(t) == {Plain(t)} \cup Others(t)
=============================================================================
