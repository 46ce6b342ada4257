---------------------------- MODULE ErrorMapping ----------------------------
(***************************************************************************)
(* The exception filter: what the client is told about an exception and    *)
(* what the log says.  Errors are objects linked by driverError, cause and *)
(* errors, cycles included; codes and messages are known by the sets and   *)
(* patterns they belong to.                                                *)
(***************************************************************************)
EXTENDS Naturals, Sequences

CONSTANTS
  Errors,         \* error objects
  Nothing,        \* a link that is not an object
  Heaps,          \* the error graphs to classify
  MaxCauseDepth   \* links the walks follow

\* code: "outage" (DATABASE_UNAVAILABLE_CODES), "data" (SQLSTATE class 22),
\* "integrity" (any other safe code), "unsafe" (fails SAFE_CAUSE_CODE_PATTERN).
Codes == {"none", "outage", "data", "integrity", "unsafe"}

\* message: "outage" (DATABASE_UNAVAILABLE_MESSAGES after normalization), "code"
\* (looks like an error code), "text".
Messages == {"outage", "code", "text"}

\* http: an HttpException with its own envelope ("application"), with the text
\* of the framework ("framework"), or none; status: status or statusCode, 0 if
\* there is no number.
ErrorObject ==
  [http : {"no", "application", "framework"}, status : Nat, code : Codes, message : Messages,
   driverError : Errors \cup {Nothing}, cause : Errors \cup {Nothing}, errors : Seq(Errors)]

ASSUME MappingAssumption ==
  /\ MaxCauseDepth \in Nat
  /\ Nothing \notin Errors
  /\ \A h \in Heaps : \A e \in Errors : h[e] \in ErrorObject
  /\ \A h \in Heaps, e \in Errors : h[e].http # "no" => h[e].status \in 400..599

VARIABLES
  heap,       \* the error objects
  exception,  \* what was thrown
  answer,     \* status, error code and origin of the text of the response
  log         \* the log lines of the filter

errorVars == <<heap, exception, answer, log>>

NoAnswer == [status |-> 0, error |-> "none", text |-> "none"]

ErrorInit ==
  /\ heap \in Heaps
  /\ exception \in Errors \cup {Nothing}
  /\ answer = NoAnswer
  /\ log = {}

-----------------------------------------------------------------------------
(* The walks over the links of an error *)

Links(e) == <<heap[e].driverError, heap[e].cause>> \o heap[e].errors

Nested(e) == {Links(e)[i] : i \in DOMAIN Links(e)}

BeyondDepth(depth) == depth > MaxCauseDepth

OwnCodes == [e \in Errors |-> {heap[e].code} \ {"none"}]

OwnMessages == [e \in Errors |-> {heap[e].message}]

\* collectErrorCodes and collectErrorMessages, by what they take from each error.
\* Their callers only ask what is among the results.
Collect(own, e) ==
  LET collected[depth \in 0..(MaxCauseDepth + 1)] ==
        [x \in Errors \cup {Nothing} |->
           IF BeyondDepth(depth) \/ x = Nothing THEN {}
           ELSE own[x] \cup UNION {collected[depth + 1][y] : y \in Nested(x)}]
  IN  collected[0][e]

SafeCodes == Codes \ {"none", "unsafe"}

\* The loop over the nested errors: the first code that is found.
FirstFound(codes) ==
  IF \A i \in DOMAIN codes : codes[i] = "none" THEN "none"
  ELSE codes[CHOOSE i \in DOMAIN codes :
               codes[i] # "none" /\ \A j \in 1..(i - 1) : codes[j] = "none"]

\* Mutant of findCauseCode: an unsafe code ends the walk.
findCauseCodeStopping(e) ==
  LET found[depth \in 0..(MaxCauseDepth + 1)] ==
        [x \in Errors \cup {Nothing} |->
           IF BeyondDepth(depth) \/ x = Nothing THEN "none"
           ELSE IF heap[x].code = "unsafe" THEN "none"
           ELSE IF heap[x].code \in SafeCodes THEN heap[x].code
           ELSE FirstFound([i \in DOMAIN Links(x) |-> found[depth + 1][Links(x)[i]]])]
  IN  found[0][e]

\* The first safe code, depth first.
findCauseCode(e) ==
  LET found[depth \in 0..(MaxCauseDepth + 1)] ==
        [x \in Errors \cup {Nothing} |->
           IF BeyondDepth(depth) \/ x = Nothing THEN "none"
           ELSE IF heap[x].code \in SafeCodes THEN heap[x].code
           ELSE FirstFound([i \in DOMAIN Links(x) |-> found[depth + 1][Links(x)[i]]])]
  IN  found[0][e]

isDatabaseUnavailableError(e) ==
  "outage" \in Collect(OwnCodes, e) \/ "outage" \in Collect(OwnMessages, e)

findPostgresDataExceptionCode(e) == "data" \in Collect(OwnCodes, e)

-----------------------------------------------------------------------------
(* The answer *)

\* STATUS_ERROR_ENVELOPES and the two defaults.
envelopeForStatus(status) ==
  [status |-> status,
   error |-> CASE status = 400 -> "VALIDATION_ERROR"
               [] status = 404 -> "NOT_FOUND"
               [] status = 413 -> "PAYLOAD_TOO_LARGE"
               [] status = 415 -> "UNSUPPORTED_MEDIA_TYPE"
               [] status = 429 -> "RATE_LIMITED"
               [] status >= 500 -> "INTERNAL_SERVER_ERROR"
               [] OTHER -> "HTTP_ERROR",
   text |-> "fixed"]

extractHttpErrorStatus(e) == e # Nothing /\ heap[e].status \in 400..599

\* Mutant of resolve: the status of the error is looked at before its codes.
resolveStatusFirst(e) ==
  IF e # Nothing /\ heap[e].http = "application"
  THEN [status |-> heap[e].status, error |-> "OWN", text |-> "own"]
  ELSE IF extractHttpErrorStatus(e) THEN envelopeForStatus(heap[e].status)
  ELSE IF isDatabaseUnavailableError(e)
  THEN [status |-> 503, error |-> "SERVICE_UNAVAILABLE", text |-> "fixed"]
  ELSE IF findPostgresDataExceptionCode(e) THEN envelopeForStatus(400)
  ELSE envelopeForStatus(500)

resolve(e) ==
  IF e # Nothing /\ heap[e].http = "application"
  THEN [status |-> heap[e].status, error |-> "OWN", text |-> "own"]
  ELSE IF e # Nothing /\ heap[e].http = "framework" THEN envelopeForStatus(heap[e].status)
  ELSE IF isDatabaseUnavailableError(e)
  THEN [status |-> 503, error |-> "SERVICE_UNAVAILABLE", text |-> "fixed"]
  ELSE IF findPostgresDataExceptionCode(e) THEN envelopeForStatus(400)
  ELSE IF extractHttpErrorStatus(e) THEN envelopeForStatus(heap[e].status)
  ELSE envelopeForStatus(500)

\* The code of the exception itself, else the one the client gets.
toSafeErrorCode(e, fallback) ==
  IF e # Nothing /\ heap[e].http = "application" THEN "OWN"
  ELSE IF e # Nothing /\ heap[e].message = "code" THEN "MESSAGE"
  ELSE fallback

\* Server errors are logged with their cause, data exceptions with a warning.
Lines(e, a) ==
  IF a.status >= 500
  THEN {[event |-> "http_request_failed", errorCode |-> toSafeErrorCode(e, a.error),
         causeCode |-> findCauseCode(e)]}
  ELSE IF (e = Nothing \/ heap[e].http = "no")
          /\ ~isDatabaseUnavailableError(e) /\ findPostgresDataExceptionCode(e)
  THEN {[event |-> "http_request_data_exception", errorCode |-> "DATABASE_DATA_EXCEPTION",
         causeCode |-> "data"]}
  ELSE {}

Catch ==
  /\ answer = NoAnswer
  /\ answer' = resolve(exception)
  /\ log' = Lines(exception, answer')
  /\ UNCHANGED <<heap, exception>>

ErrorSpec == ErrorInit /\ [][Catch]_errorVars

-----------------------------------------------------------------------------
(* Properties *)

\* Reference: the objects at most MaxCauseDepth links away from what was thrown,
\* by steps of breadth and not by the recursion of the code.
Within ==
  LET within[k \in 0..MaxCauseDepth] ==
        IF k = 0 THEN {exception} \ {Nothing}
        ELSE LET near == within[k - 1]
             IN  (near \cup UNION {Nested(e) : e \in near}) \ {Nothing}
  IN  within[MaxCauseDepth]

Has(what) == \E e \in Within : heap[e].code = what

IsHttp == exception # Nothing /\ heap[exception].http # "no"

\* An outage of the datastore anywhere within reach is answered with 503 and
\* nothing else is, whatever status or data code comes with it; a data
\* exception without an outage is the client's fault, and an integrity error
\* is neither.
OutagesAndDataErrors ==
  answer # NoAnswer /\ ~IsHttp =>
    LET outage == Has("outage") \/ \E e \in Within : heap[e].message = "outage"
    IN  /\ answer.error = "SERVICE_UNAVAILABLE" <=> outage
        /\ Has("data") /\ ~outage => answer.status = 400
        /\ ~outage /\ ~Has("data") /\ exception # Nothing /\ heap[exception].status = 0 =>
             answer.status = 500

\* The log names a cause whenever there is a code it may name within reach: the
\* two walks over the links see the same errors, and an unsafe code on the way
\* hides nothing.
CauseIsNamed ==
  \A line \in log :
    line.causeCode = "none" <=> \A e \in Within : heap[e].code \notin SafeCodes
=============================================================================
