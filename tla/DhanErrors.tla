------------------------------ MODULE DhanErrors ------------------------------
(***************************************************************************)
(* What one HTTP exchange with Dhan means to its caller: dhan/errors.py    *)
(* (classify and the helpers under it) and the answer-reading half of      *)
(* dhan/http.py.  Constant-level operators only; the modules that send     *)
(* requests EXTEND this one.                                               *)
(*                                                                         *)
(* A JSON body is tagged with its shape.  A dict is a function whose       *)
(* DOMAIN is the set of keys it carries; a text is one of a few strings    *)
(* that the code tells apart ("" is a falsy text, "ip" a text containing   *)
(* one of _IP_PHRASES, "words" any other).                                 *)
(***************************************************************************)
EXTENDS Naturals, Sequences

Object(fields) == [shape |-> "object", fields |-> fields]
Array(items)   == [shape |-> "array", items |-> items]
Scalar         == [shape |-> "scalar"]

\* What the transport hands to http.py: an httpx.HTTPError, or a response
\* whose text is, or is not, JSON.
HttpError  == [kind |-> "httpError"]
Text       == [kind |-> "text"]
Json(body) == [kind |-> "json", body |-> body]

ErrorFields  == {"errorMessage", "errorCode", "errorType"}
SuccessWords == {"success", "SUCCESS"}   \* str(status).lower() == "success"
Unspecified  == "words"

\* body.get(key) where an absent key and None read the same
Get(dict, key)     == IF key \in DOMAIN dict THEN dict[key] ELSE ""
OrElse(text, other) == IF text = "" THEN other ELSE text

Failure(reason, code, type) == [reason |-> reason, code |-> code, type |-> type]

\* {"813": "Invalid SecurityId"}: the joined messages and the joined codes.
\* Joined, a code is only recognisable when it is alone.
MapReason(map) ==
  IF DOMAIN map = {} THEN ""
  ELSE IF \E code \in DOMAIN map : map[code] = "ip" THEN "ip" ELSE "words"

MapCode(map) ==
  IF DOMAIN map = {} THEN ""
  ELSE IF \E code \in DOMAIN map : DOMAIN map = {code}
  THEN CHOOSE code \in DOMAIN map : TRUE ELSE "joined"

\* The failures below are sets: {} for None, a singleton otherwise.
FailureInObject(dict) ==
  IF DOMAIN dict \cap ErrorFields # {}
  THEN {Failure(OrElse(Get(dict, "errorMessage"), Unspecified),
                Get(dict, "errorCode"), Get(dict, "errorType"))}
  ELSE IF "status" \notin DOMAIN dict \/ dict["status"] \in SuccessWords
  THEN {}
  ELSE IF {"error", "path"} \subseteq DOMAIN dict
  THEN {Failure(dict["error"], dict["status"], "GatewayError")}
  ELSE IF "data" \in DOMAIN dict
  THEN {Failure(OrElse(MapReason(dict["data"]), "words"),
                MapCode(dict["data"]), dict["status"])}
  ELSE {Failure("words", "", dict["status"])}

FailureInElement(element) ==
  IF element.shape # "object" THEN {}
  ELSE LET dict == element.fields IN
       IF "errorMessage" \in DOMAIN dict
       THEN {Failure(OrElse(dict["errorMessage"], Unspecified),
                     Get(dict, "errorCode"), Get(dict, "errorType"))}
       ELSE IF "status" \in DOMAIN dict /\ dict["status"] \notin SuccessWords
       THEN {Failure(OrElse(Get(dict, "message"), Unspecified),
                     Get(dict, "code"), dict["status"])}
       ELSE {}

\* Mutant: only the first element is looked at.
FailureInHeadOnly(items) ==
  IF items = <<>> THEN {} ELSE FailureInElement(items[1])

\* The first element that is a failure speaks for the whole array.
FailureInArray(items) ==
  LET failing == {i \in DOMAIN items : FailureInElement(items[i]) # {}} IN
  IF failing = {} THEN {}
  ELSE FailureInElement(items[CHOOSE i \in failing : \A j \in failing : i <= j])

\* Mutant: the code decides what is an IP refusal.
RaiseByCode(failure) ==
  IF failure.code = "DH-904" \/ failure.type = "Rate_Limit" THEN "rateLimited"
  ELSE IF failure.code = "DH-905" THEN "ipNotWhitelisted"
  ELSE "apiError"

\* The class of the exception; rate limits are recognised before IP refusals.
Raise(failure) ==
  IF failure.code = "DH-904" \/ failure.type = "Rate_Limit" THEN "rateLimited"
  ELSE IF failure.reason = "ip" THEN "ipNotWhitelisted"
  ELSE "apiError"

Raised(class)  == [outcome |-> class]
Payload(value) == [outcome |-> "payload", value |-> value]

FailureIn(body) ==
  IF body.shape = "array" THEN FailureInArray(body.items)
  ELSE FailureInObject(body.fields)

\* {status: "success", data: ...}: the payload is the data.
IsEnvelope(body) == /\ body.shape = "object"
                    /\ Get(body.fields, "status") = "success"
                    /\ "data" \in DOMAIN body.fields

Classify(body) ==
  IF body.shape = "scalar" THEN Raised("transportError")
  ELSE IF FailureIn(body) # {}
       THEN Raised(Raise(CHOOSE failure \in FailureIn(body) : TRUE))
       ELSE Payload(IF IsEnvelope(body) THEN Object(body.fields["data"]) ELSE body)

\* Mutant: an unreadable body is a failed exchange on writes and reads alike.
AnswerForgetsWrites(isWrite, response) ==
  IF response.kind = "json" THEN Classify(response.body)
  ELSE IF isWrite /\ response.kind = "httpError" THEN Raised("ambiguous")
  ELSE Raised("transportError")

\* http.py: a write that got no body, or one that is not JSON, is ambiguous;
\* the same on a read is a failed read.
Answer(isWrite, response) ==
  IF response.kind = "json" THEN Classify(response.body)
  ELSE IF isWrite THEN Raised("ambiguous") ELSE Raised("transportError")

\* `except DhanApiError`, `except DhanError` and `except Ambiguous`: the
\* classes are siblings, except that Ambiguous is a TransportError.
DhanErrorClasses == {"ambiguous", "transportError", "apiError",
                     "ipNotWhitelisted", "rateLimited"}
Definitive == {"apiError", "ipNotWhitelisted", "rateLimited"}
===============================================================================
