----------------------------- MODULE StringGuard -----------------------------
(***************************************************************************)
(* findStringViolation: the scan of one string of the request body, code   *)
(* unit by code unit.  Units are known by their class: control characters, *)
(* high and low surrogates, and the rest (tab, line feed and carriage      *)
(* return among them).                                                     *)
(***************************************************************************)
EXTENDS Naturals, Sequences

CONSTANTS Strings  \* the strings scanned

Classes == {"unit", "control", "high", "low"}

VARIABLES
  value,    \* the string
  index,    \* the next unit, counted from 1
  scanned   \* "none" during the scan, "clean", or the violation

stringVars == <<value, index, scanned>>

StringInit == value \in Strings \cap Seq(Classes) /\ index = 1 /\ scanned = "none"

\* charCodeAt past the end is NaN, which is in no range.
PairAt(i) == i < Len(value) /\ value[i + 1] = "low"

\* Mutant of Step: the second half of a pair is scanned again.
StepByOne ==
  /\ scanned = "none" /\ index <= Len(value)
  /\ LET c == value[index] IN
     \/ c = "control" /\ scanned' = "controlCharacter" /\ UNCHANGED index
     \/ c = "high" /\ PairAt(index) /\ index' = index + 1 /\ UNCHANGED scanned
     \/ c = "high" /\ ~PairAt(index) /\ scanned' = "loneSurrogate" /\ UNCHANGED index
     \/ c = "low" /\ scanned' = "loneSurrogate" /\ UNCHANGED index
     \/ c = "unit" /\ index' = index + 1 /\ UNCHANGED scanned
  /\ UNCHANGED value

Step ==
  /\ scanned = "none" /\ index <= Len(value)
  /\ LET c == value[index] IN
     \/ c = "control" /\ scanned' = "controlCharacter" /\ UNCHANGED index
     \/ c = "high" /\ PairAt(index) /\ index' = index + 2 /\ UNCHANGED scanned
     \/ c = "high" /\ ~PairAt(index) /\ scanned' = "loneSurrogate" /\ UNCHANGED index
     \/ c = "low" /\ scanned' = "loneSurrogate" /\ UNCHANGED index
     \/ c = "unit" /\ index' = index + 1 /\ UNCHANGED scanned
  /\ UNCHANGED value

End ==
  /\ scanned = "none" /\ index > Len(value)
  /\ scanned' = "clean"
  /\ UNCHANGED <<value, index>>

StringNext == Step \/ End

StringSpec == StringInit /\ [][StringNext]_stringVars

-----------------------------------------------------------------------------
(* Properties *)

\* The state is well formed: the scan never runs past the end.
StringTypeOK ==
  /\ value \in Seq(Classes)
  /\ index \in 1..(Len(value) + 1)
  /\ scanned \in {"none", "clean", "controlCharacter", "loneSurrogate"}

\* A unit that is half of a pair, or no surrogate at all: no state of the scan.
Paired(i) ==
  /\ value[i] = "high" => i < Len(value) /\ value[i + 1] = "low"
  /\ value[i] = "low" => i > 1 /\ value[i - 1] = "high"

Fine(i) == value[i] # "control" /\ Paired(i)

\* The scan lets exactly the well formed strings through, and what it reports
\* is the violation at the first unit that is not fine.
ScanIsExact ==
  /\ scanned = "clean" => \A i \in 1..Len(value) : Fine(i)
  /\ scanned = "controlCharacter" => value[index] = "control"
  /\ scanned = "loneSurrogate" => ~Paired(index)
  /\ scanned \in {"controlCharacter", "loneSurrogate"} =>
       /\ index <= Len(value)
       /\ \A i \in 1..(index - 1) : Fine(i)
=============================================================================
