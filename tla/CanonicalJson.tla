---------------------------- MODULE CanonicalJson ----------------------------
(***************************************************************************)
(* serializeCanonicalJson, the text that requestHash and payloadHash are   *)
(* taken of.  Equal requests and webhooks must have one text and different *)
(* ones different texts, whatever order their keys arrive in.              *)
(*                                                                         *)
(* A JavaScript object is the sequence of its entries in property order:   *)
(* integer-like keys in numeric order, then the others as inserted.  So    *)
(* inserting sorted keys does not give a sorted object.                    *)
(***************************************************************************)
EXTENDS Naturals, Sequences, FiniteSets

CONSTANTS
  Primitives,
  JsonKeys,    \* [unit, index]: rank among strings; rank among the integer-like
               \* keys, 0 for the others
  MaxNesting,  \* of a value the body guard lets pass
  Inputs       \* parsed values

-----------------------------------------------------------------------------
(* Values *)

Primitive(p) == [kind |-> "primitive", items |-> p]

Array(items) == [kind |-> "array", items |-> items]

Object(entries) == [kind |-> "object", items |-> entries]

Property(key, value) == [key |-> key, value |-> value]

Properties(values) == [key : JsonKeys, value : values]

PrimitivesAndArrays(values) ==
  [kind : {"primitive"}, items : Primitives] \cup [kind : {"array"}, items : Seq(values)]

KeysDiffer(entries) ==
  \A i, j \in DOMAIN entries : entries[i].key = entries[j].key => i = j

ValuesOver(values) ==
  PrimitivesAndArrays(values)
    \cup {o \in [kind : {"object"}, items : Seq(Properties(values))] : KeysDiffer(o.items)}

\* The values with at most n arrays and objects around another.
JsonValues[n \in 0..MaxNesting] == ValuesOver(IF n = 0 THEN {} ELSE JsonValues[n - 1])

ASSUME JsonAssumption ==
  /\ MaxNesting \in Nat
  /\ JsonKeys \subseteq [unit : Nat, index : Nat]
  /\ \A k, l \in JsonKeys : k # l => k.unit # l.unit /\ (k.index # 0 => k.index # l.index)
  /\ Inputs \subseteq JsonValues[MaxNesting]

VARIABLES input, output

jsonVars == <<input, output>>

NoText == [kind |-> "nothing", items |-> <<>>]

JsonInit == input \in Inputs /\ output = NoText

-----------------------------------------------------------------------------
(* Orders *)

\* The elements of S in the order of the relation R.
InOrder(S, R) ==
  [n \in 1..Cardinality(S) |-> CHOOSE x \in S : Cardinality({y \in S : <<y, x>> \in R}) = n - 1]

\* Property order: a before b, inserted at i and j.
Precedes(a, i, b, j) ==
  \/ a.index # 0 /\ (b.index = 0 \/ a.index < b.index)
  \/ a.index = 0 /\ b.index = 0 /\ i < j

\* The object after its entries have been inserted one by one.
Inserted(entries) ==
  LET places == DOMAIN entries
      order == InOrder(places, {p \in places \X places :
                 Precedes(entries[p[1]].key, p[1], entries[p[2]].key, p[2])})
  IN  Object([n \in places |-> entries[order[n]]])

-----------------------------------------------------------------------------
(* canonicalizeJsonValue *)

SortedKeys(entries) ==
  LET keys == {entries[i].key : i \in DOMAIN entries}
  IN  InOrder(keys, {p \in keys \X keys : p[1].unit < p[2].unit})

ValueOf(entries, key) ==
  entries[CHOOSE i \in DOMAIN entries : entries[i].key = key].value

\* Mutant of canonicalizeJsonValue: only the keys of the outermost object.
canonicalizeOutermost(value) ==
  IF value.kind # "object" THEN value
  ELSE LET keys == SortedKeys(value.items)
       IN  Inserted([i \in DOMAIN keys |->
                       Property(keys[i], ValueOf(value.items, keys[i]))])

\* One call, given what the calls for the nested values return.
CanonicalFrom(value, nested) ==
  CASE value.kind = "array" ->
         Array([i \in DOMAIN value.items |-> nested[value.items[i]]])
    [] value.kind = "object" ->
         LET keys == SortedKeys(value.items)
         IN  Inserted([i \in DOMAIN keys |->
               Property(keys[i], nested[ValueOf(value.items, keys[i])])])
    [] OTHER -> value

canonicalizeJsonValue(value) ==
  LET canonical[n \in 0..MaxNesting] ==
        LET nested == IF n = 0 THEN <<>> ELSE canonical[n - 1]
        IN  [v \in JsonValues[n] |-> CanonicalFrom(v, nested)]
  IN  canonical[MaxNesting][value]

\* JSON.stringify writes a value in property order, so the value is its text.
Serialize ==
  /\ output = NoText
  /\ output' = canonicalizeJsonValue(input)
  /\ UNCHANGED input

JsonSpec == JsonInit /\ [][Serialize]_jsonVars

-----------------------------------------------------------------------------
(* Properties *)

\* What a value means: objects are sets of properties.
MeaningFrom(value, nested) ==
  CASE value.kind = "array" ->
         Array([i \in DOMAIN value.items |-> nested[value.items[i]]])
    [] value.kind = "object" ->
         Object({Property(value.items[i].key, nested[value.items[i].value]) :
                   i \in DOMAIN value.items})
    [] OTHER -> value

Meaning(value) ==
  LET meaning[n \in 0..MaxNesting] ==
        LET nested == IF n = 0 THEN <<>> ELSE meaning[n - 1]
        IN  [v \in JsonValues[n] |-> MeaningFrom(v, nested)]
  IN  meaning[MaxNesting][value]

MeaningsOver(meanings) ==
  PrimitivesAndArrays(meanings)
    \cup [kind : {"object"}, items : SUBSET Properties(meanings)]

Meanings[n \in 0..MaxNesting] == MeaningsOver(IF n = 0 THEN {} ELSE Meanings[n - 1])

\* A text chosen for a meaning alone.
TextFrom(meaning, nested) ==
  CASE meaning.kind = "array" ->
         Array([i \in DOMAIN meaning.items |-> nested[meaning.items[i]]])
    [] meaning.kind = "object" ->
         LET before == {p \in meaning.items \X meaning.items :
                          Precedes(p[1].key, p[1].key.unit, p[2].key, p[2].key.unit)}
             entries == InOrder(meaning.items, before)
         IN  Object([i \in DOMAIN entries |-> Property(entries[i].key, nested[entries[i].value])])
    [] OTHER -> meaning

TextOf(meaning) ==
  LET text[n \in 0..MaxNesting] ==
        LET nested == IF n = 0 THEN <<>> ELSE text[n - 1]
        IN  [m \in Meanings[n] |-> TextFrom(m, nested)]
  IN  text[MaxNesting][meaning]

\* The canonical text depends on the meaning alone, at every depth, so equal
\* values have one text; and it still has that meaning, the order of arrays
\* included, so different values have different texts.
TextIsCanonical ==
  output # NoText => output = TextOf(Meaning(input)) /\ Meaning(output) = Meaning(input)
=============================================================================
