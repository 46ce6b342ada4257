--------------------------- MODULE MCPureFunctions ---------------------------
(***************************************************************************)
(* The functions that look at the data of one request and keep no state:   *)
(* the body guard and its string scan, the conversions of amounts, the     *)
(* canonical JSON and the mapping of errors.  A behaviour is one call of   *)
(* one of them, on an input chosen at the start; the others are at rest.   *)
(***************************************************************************)
EXTENDS BodyGuard, StringGuard, Amounts, CanonicalJson, ErrorMapping

-----------------------------------------------------------------------------
(* Inputs *)

\* Every tree of three objects and arrays with at most two entries each.
MCEntries ==
  {[key |-> k, child |-> n] : k \in {"item", "key"}, n \in Nodes \ {Root}}
  \cup {[key |-> "key", child |-> "text"], [key |-> "key", child |-> "loneSurrogate"],
        [key |-> "item", child |-> "controlCharacter"], [key |-> "reservedKey", child |-> "other"],
        [key |-> "controlCharacter", child |-> "text"]}

MCContents == UNION {[1..n -> MCEntries] : n \in 0..2}

MCDepths == {d \in [Nodes -> 1..3] : \A n \in Nodes : d[n] = 1 <=> n = Root}

MCBodies ==
  {b \in [entries : [Nodes -> MCContents], depth : MCDepths] : IsTree(b.entries, b.depth)}

\* Every string of up to five units.
MCStrings == UNION {[1..n -> Classes] : n \in 0..5}

\* Every array and object of up to two items, two levels deep, over keys like
\* "10", "9", "a" and "b", in the order of sort.
MCJsonKeys == {[unit |-> 1, index |-> 10], [unit |-> 2, index |-> 9],
               [unit |-> 3, index |-> 0], [unit |-> 4, index |-> 0]}

Arrays(values) == {Array(s) : s \in UNION {[1..n -> values] : n \in 0..2}}

\* Parsed objects: any insertion order.
Objects(values) ==
  {Object(<<>>)}
    \cup {Inserted(<<Property(k, v)>>) : k \in JsonKeys, v \in values}
    \cup {Inserted(<<Property(k[1], v), Property(k[2], w)>>) :
            k \in {p \in JsonKeys \X JsonKeys : p[1] # p[2]}, v \in values, w \in values}

Level0 == {Primitive(p) : p \in Primitives}

Level1 == Level0 \cup Arrays(Level0) \cup Objects(Level0)

MCInputs == Level1 \cup Arrays(Level1) \cup Objects(Level1)

\* Graphs of four errors: a driver error, a chain of causes one longer than the
\* walks, an aggregate, and a cycle.
Plain == [http |-> "no", status |-> 0, code |-> "none", message |-> "text",
          driverError |-> Nothing, cause |-> Nothing, errors |-> <<>>]

MCTops ==
  {[Plain EXCEPT !.status = s, !.code = c, !.message = m, !.driverError = d, !.errors = es] :
     s \in {0, 302, 413, 503}, c \in Codes, m \in Messages, d \in {Nothing, 2},
     es \in {<<>>, <<2, 3>>}}
  \cup {[Plain EXCEPT !.http = k, !.status = s, !.cause = c] :
          k \in {"application", "framework"}, s \in {400, 404, 415, 429, 503}, c \in {Nothing, 2}}

MCSeconds ==
  {[Plain EXCEPT !.code = c, !.cause = n] :
     c \in {"none", "outage", "data", "unsafe"}, n \in {Nothing, 1, 3}}

MCThirds ==
  {[Plain EXCEPT !.code = c, !.cause = n] : c \in {"none", "integrity", "data"}, n \in {Nothing, 4}}

MCFourths == {[Plain EXCEPT !.code = c, !.message = m] : c \in {"none", "outage"}, m \in {"text", "outage"}}

MCHeaps == {<<a, b, c, d>> : a \in MCTops, b \in MCSeconds, c \in MCThirds, d \in MCFourths}

-----------------------------------------------------------------------------
(* Calls *)

NoBody ==
  /\ body = "text" /\ entries = [n \in Nodes |-> <<>>] /\ depth = [n \in Nodes |-> 1]
  /\ pending = <<>> /\ frame = NoFrame /\ visited = {} /\ result = "rest"

NoString == value = <<>> /\ index = 1 /\ scanned = "rest"

NoAmount ==
  /\ sent = None /\ paid = None /\ pc = "rest" /\ verdict = "none"
  /\ row = None /\ created = None /\ read = None

NoJson == input = Array(<<>>) /\ output = input

NoError ==
  /\ heap = [e \in Errors |-> Plain] /\ exception = Nothing
  /\ answer = envelopeForStatus(500) /\ log = {}

CallInit ==
  \/ Init /\ NoString /\ NoAmount /\ NoJson /\ NoError
  \/ StringInit /\ NoBody /\ NoAmount /\ NoJson /\ NoError
  \/ AmountInit /\ NoBody /\ NoString /\ NoJson /\ NoError
  \/ JsonInit /\ NoBody /\ NoString /\ NoAmount /\ NoError
  \/ ErrorInit /\ NoBody /\ NoString /\ NoAmount /\ NoJson

CallNext ==
  \/ Next /\ UNCHANGED <<stringVars, amountVars, jsonVars, errorVars>>
  \/ StringNext /\ UNCHANGED <<vars, amountVars, jsonVars, errorVars>>
  \/ AmountNext /\ UNCHANGED <<vars, stringVars, jsonVars, errorVars>>
  \/ Serialize /\ UNCHANGED <<vars, stringVars, amountVars, errorVars>>
  \/ Catch /\ UNCHANGED <<vars, stringVars, amountVars, jsonVars>>

CallSpec == CallInit /\ [][CallNext]_<<vars, stringVars, amountVars, jsonVars, errorVars>>
=============================================================================
