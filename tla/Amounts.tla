------------------------------- MODULE Amounts -------------------------------
(***************************************************************************)
(* A decimal amount on its way: the text of a client, checked and stored   *)
(* as numeric, shown in responses, and compared with the text of a webhook *)
(* by the processor.  Four conversions that have to agree on every value.  *)
(* A text is its digits before and after the point; TLC takes all of them  *)
(* up to a little beyond the limits of the column.                         *)
(***************************************************************************)
EXTENDS Integers, Sequences

CONSTANTS
  Digits,
  IntegerDigits, FractionDigits,  \* of the column, 18 and 18
  MaxDigits                       \* bound on the digits of a part

ASSUME AmountsAssumption ==
  /\ {0} \subseteq Digits /\ Digits \subseteq 0..9
  /\ IntegerDigits \in Nat \ {0} /\ FractionDigits \in Nat /\ MaxDigits \in Nat

Part == UNION {[1..n -> Digits] : n \in 0..MaxDigits}

\* "12", "12.50", but also "", ".5", "12." and "007".
Text == [integer : Part, point : BOOLEAN, fraction : Part]

Texts == {t \in Text : ~t.point => t.fraction = <<>>}

None == [integer |-> <<>>, point |-> FALSE, fraction |-> <<>>]

VARIABLES
  sent,      \* amount of the creation request
  paid,      \* amount of the webhook
  pc,
  row,       \* the stored numeric, as PostgreSQL writes it
  created,   \* amount in the response of the creation, and of its replays
  read,      \* amount in a later response
  verdict    \* of the webhook

amountVars == <<sent, paid, pc, row, created, read, verdict>>

AmountInit ==
  /\ sent \in Texts /\ paid \in Texts
  /\ pc = "create"
  /\ row = None /\ created = None /\ read = None
  /\ verdict = "none"

-----------------------------------------------------------------------------
(* Conversions *)

Zeros(n) == [i \in 1..n |-> 0]

IsZero(part) == \A i \in DOMAIN part : part[i] = 0

\* The first digit other than 0, one past the end if there is none.
FirstDigit(part) ==
  CHOOSE i \in 1..(Len(part) + 1) :
    /\ \A j \in 1..(i - 1) : part[j] = 0
    /\ i <= Len(part) => part[i] # 0

WithoutLeading(part) == SubSeq(part, FirstDigit(part), Len(part))

WithoutTrailing(part) ==
  LET last == CHOOSE n \in 0..Len(part) :
                /\ \A j \in (n + 1)..Len(part) : part[j] = 0
                /\ n > 0 => part[n] # 0
  IN  SubSeq(part, 1, last)

OrZero(part) == IF part = <<>> THEN <<0>> ELSE part

\* DECIMAL_STRING_PATTERN
IsDecimal(t) ==
  /\ t.integer # <<>>
  /\ t.integer[1] = 0 => Len(t.integer) = 1
  /\ t.point => t.fraction # <<>>

isValidPaymentAmount(t) ==
  /\ IsDecimal(t)
  /\ Len(t.fraction) <= FractionDigits
  /\ Len(WithoutLeading(t.integer)) <= IntegerDigits
  /\ ~IsZero(t.integer) \/ ~IsZero(t.fraction)

\* Mutant of toCanonicalAmount: trailing zeros stay.
toCanonicalAmountLong(t) ==
  [integer |-> OrZero(WithoutLeading(t.integer)), point |-> t.point,
   fraction |-> t.fraction]

toCanonicalAmount(t) ==
  LET fraction == WithoutTrailing(t.fraction)
  IN  [integer |-> OrZero(WithoutLeading(t.integer)), point |-> fraction # <<>>,
       fraction |-> fraction]

\* Mutant of normalizeAmount: the fraction is not padded.
normalizeAmountShort(t) ==
  [integer |-> OrZero(WithoutLeading(t.integer)), point |-> TRUE, fraction |-> t.fraction]

\* The fraction is padded and cut to FractionDigits.
normalizeAmount(t) ==
  [integer |-> OrZero(WithoutLeading(t.integer)), point |-> TRUE,
   fraction |-> SubSeq(t.fraction \o Zeros(FractionDigits), 1, FractionDigits)]

\* A validated text as numeric(p, s) holds it and writes it back: every fraction
\* digit of the column, no leading zeros.
Numeric(t) ==
  [integer |-> OrZero(WithoutLeading(t.integer)), point |-> TRUE,
   fraction |-> [i \in 1..FractionDigits |->
                   IF i <= Len(t.fraction) THEN t.fraction[i] ELSE 0]]

-----------------------------------------------------------------------------
(* The requests *)

\* The response is made from the entity as it was saved, with the client's text.
CreatePaymentIntent ==
  /\ pc = "create"
  /\ IF isValidPaymentAmount(sent)
     THEN /\ row' = Numeric(sent) /\ created' = toCanonicalAmount(sent)
          /\ pc' = "read"
     ELSE /\ pc' = "refused" /\ UNCHANGED <<row, created>>
  /\ UNCHANGED <<sent, paid, read, verdict>>

GetPaymentIntent ==
  /\ pc = "read"
  /\ read' = toCanonicalAmount(row)
  /\ pc' = "webhook"
  /\ UNCHANGED <<sent, paid, row, created, verdict>>

\* The webhook is validated on acceptance and compared when it is processed.
ProcessWebhook ==
  /\ pc = "webhook"
  /\ verdict' = IF ~isValidPaymentAmount(paid) THEN "VALIDATION_ERROR"
                ELSE IF normalizeAmount(paid) # normalizeAmount(row) THEN "AMOUNT_MISMATCH"
                ELSE "match"
  /\ pc' = "done"
  /\ UNCHANGED <<sent, paid, row, created, read>>

AmountNext == CreatePaymentIntent \/ GetPaymentIntent \/ ProcessWebhook

AmountSpec == AmountInit /\ [][AmountNext]_amountVars

-----------------------------------------------------------------------------
(* Properties *)

\* The digit of a text at a place: MaxDigits places before the point and as many
\* after it, numbered from the left.
DigitAt(t, k) ==
  LET i == k - MaxDigits + Len(t.integer)
      f == k - MaxDigits
  IN  IF k <= MaxDigits THEN IF i >= 1 THEN t.integer[i] ELSE 0
      ELSE IF f <= Len(t.fraction) THEN t.fraction[f] ELSE 0

\* The value of a text in units of the last place.
Value(t) ==
  LET upTo[k \in 0..(2 * MaxDigits)] ==
        IF k = 0 THEN 0 ELSE 10 * upTo[k - 1] + DigitAt(t, k)
  IN  upTo[2 * MaxDigits]

\* An accepted amount is stored as the value that was sent: nothing is rounded,
\* cut, zero or out of the column's range.  The creation, its replays and every
\* later read show it in one text, without a superfluous zero or point.
AmountKept ==
  /\ row # None => /\ Value(row) = Value(sent) /\ Value(row) > 0
                   /\ Len(row.integer) <= IntegerDigits
  /\ read # None => /\ read = created
                    /\ Value(read) = Value(sent)
                    /\ Len(read.integer) > 1 => Head(read.integer) # 0
                    /\ read.fraction # <<>> => read.fraction[Len(read.fraction)] # 0
                    /\ read.point <=> read.fraction # <<>>

\* A webhook pays an intent exactly when it names the same value, however both
\* were written.
PaidMeansEqual ==
  pc = "done" =>
    (verdict = "match" <=> IsDecimal(paid) /\ Value(paid) = Value(sent)
                           /\ Len(paid.fraction) <= FractionDigits)
=============================================================================
