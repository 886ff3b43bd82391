-------------------------- MODULE PayloadAttributes --------------------------
(***************************************************************************)
(* Typed reading of attributes, payload-attributes.go: one attribute of    *)
(* the payload and one of an action, which may refer to the first or to an *)
(* environment variable. References are texts and so is what they become,  *)
(* so a value read through one need not read as it does where it is kept.  *)
(*                                                                         *)
(* The conversions are those of the external package cast. A number is a   *)
(* multiple of 1/Unit; a text is what the parsers of cast make of it: its  *)
(* form and number. Infinities and NaN, which only texts have, are left    *)
(* out; a text of a number beyond the floats is a word.                    *)
(***************************************************************************)
EXTENDS Integers, FiniteSets, Sequences, SequencesExt

CONSTANTS
  Values,    \* attributes a payload may have
  Declared,  \* attributes an action may have
  Texts,     \* values of the environment variable
  Unit,      \* parts of one that are told apart, a power of two
  Tiny,      \* 1e-4 in parts: numbers below it, and those
  Million,   \*   from this one on, are printed with an exponent
  Half,      \* 2^31: an int32 is one of the 2^32 numbers from -Half on
  Long,      \* 2^63: an int64 one of the 2^64 from -Long on
  Precise,   \* 2^53: a float64 has no longer significand
  MaxCalls   \* bound

\* A text reads as one number, as one for ParseFloat alone (1e+06, 09), for ParseInt
\* alone (0x10), as octal digits to ParseInt and decimal ones to ParseFloat (010), as
\* a truth value, as one reference, or as none of these.
Forms == {"plain", "decimal", "literal", "truth", "word", "attribute", "variable"}
TextSet == [form : Forms, v : Int] \cup [form : {"octal"}, v : Int, octal : Int]

Magnitude(n) == IF n < 0 THEN -n ELSE n

\* The float64 nearest to n parts, of two that are as near the even one. Where they
\* are no closer than a part they are s parts apart.
Rounded(n) ==
  LET m == Magnitude(n)
      k == CHOOSE e \in 0 .. m : m <= Precise * 2^e /\ \A d \in 0 .. e - 1 : m > Precise * 2^d
      s == 2^k
      q == m \div s
      up == 2 * (m % s) > s \/ (2 * (m % s) = s /\ q % 2 = 1)
      r == s * (IF up THEN q + 1 ELSE q)
  IN IF n < 0 THEN -r ELSE r
Floats == {n \in Int : Rounded(n) = n}

\* What JSON decodes to. An element that is a list or a map is opaque.
Elements ==
  [kind : {"number"}, number : Floats] \cup [kind : {"text"}, text : TextSet]
  \cup [kind : {"bool"}, bool : BOOLEAN] \cup [kind : {"null", "nested"}]
Attributes ==
  Elements \cup [kind : {"list"}, elems : Seq(Elements)] \cup [kind : {"map"}, entries : SUBSET STRING]

ASSUME BoundsAssumption ==
  /\ \E k \in 0 .. Unit : Unit = 2^k
  /\ {Unit, Tiny, Million, Half, Long, Precise} \subseteq Nat \ {0} /\ Million <= Long
  /\ MaxCalls \in Nat
ASSUME DocumentsAssumption == Values \cup Declared \subseteq Attributes /\ Texts \subseteq TextSet

VARIABLES
  payload,   \* the payload's attribute
  action,    \* the action's attribute
  env,       \* the environment variable
  saturates, \* a float beyond int64 becomes its nearest end, as on arm64, not -2^63, as on amd64
  written,   \* history: both attributes as the payload document has them
  status,    \* "loaded", "ready", or how the program ended
  answers    \* what was answered so far: by attribute, function and type

vars == <<payload, action, env, saturates, written, status, answers>>

Missing == [kind |-> "missing"]
Text(form, v) == [form |-> form, v |-> v]
TextValue(t) == [kind |-> "text", text |-> t]
Number(parts) == [kind |-> "number", number |-> parts]
Empty == Text("word", 0)
False == Text("word", 1)
Nil == Text("word", 2)    \* "<nil>"
True == Text("truth", 0)  \* "true" in whatever case
Listed == Text("word", 3) \* elements joined by commas, or an element that is itself a list or a map

Init ==
  /\ payload \in Values \cup {Missing} /\ action \in Declared /\ env \in Texts
  /\ saturates \in BOOLEAN
  /\ written = [payload |-> payload, action |-> action]
  /\ status = "loaded" /\ answers = <<>>

(***************************************************************************)
(* References                                                              *)
(***************************************************************************)
\* Mutant: the verb is %e.
NeverPlain(n) == n # n

\* %v prints a float64 without an exponent.
Plain(n) == n = 0 \/ (Magnitude(n) >= Tiny /\ Magnitude(n) < Million * Unit)

\* What %v prints of a value.
Printed(v) ==
  CASE v.kind = "text" -> v.text
    [] v.kind = "number" -> Text(IF Plain(v.number) THEN "plain" ELSE "decimal", v.number)
    [] v.kind = "bool" -> IF v.bool THEN True ELSE False
    [] v.kind = "null" -> Nil
    [] OTHER -> Listed

Refers(t) == t.form \in {"attribute", "variable"}

\* parameterSubstitute of a text that is one reference: an unknown attribute is an
\* error, a map without a key to look up panics.
Fails(t, attributes) == t.form = "attribute" /\ attributes.kind = "missing"
Panics(t, attributes) == t.form = "attribute" /\ attributes.kind = "map"
Resolved(t, attributes) ==
  CASE t.form = "variable" -> env
    [] t.form = "attribute" /\ attributes.kind # "list" -> Printed(attributes)
    [] t.form = "attribute" /\ attributes.kind = "list" ->
         IF attributes.elems = <<>> THEN Empty
         ELSE IF Len(attributes.elems) = 1 THEN Printed(attributes.elems[1]) ELSE Listed
    [] OTHER -> t

\* In the payload's own attributes {ATTR::..} is left as it is.
Allowed(t, attrSub) == Refers(t) /\ (t.form = "attribute" => attrSub)
TextsIn(v) == IF v.kind = "text" THEN {v.text}
              ELSE IF v.kind = "list" THEN {v.elems[i].text : i \in {k \in DOMAIN v.elems : v.elems[k].kind = "text"}}
              ELSE {}

\* substituteMapVariables: a text that cannot be resolved stays.
Of(t, attributes, attrSub) ==
  IF Allowed(t, attrSub) /\ ~Fails(t, attributes) THEN Resolved(t, attributes) ELSE t

\* handleSliceSub: a text of a list that cannot be resolved adds nothing to the new list.
Appended(e, attributes, attrSub) ==
  IF e.kind # "text" THEN <<e>>
  ELSE IF Allowed(e.text, attrSub) /\ Fails(e.text, attributes) THEN <<>>
  ELSE <<TextValue(Of(e.text, attributes, attrSub))>>

Substituted(v, attributes, attrSub) ==
  CASE v.kind = "text" -> TextValue(Of(v.text, attributes, attrSub))
    [] v.kind = "list" ->
         [v EXCEPT !.elems = FlattenSeq([i \in DOMAIN v.elems |-> Appended(v.elems[i], attributes, attrSub)])]
    [] OTHER -> v

\* InitPluginManager: the payload's attributes, then those of its actions.
Substitute ==
  /\ status = "loaded"
  /\ LET attributes == Substituted(payload, payload, FALSE)
         panics == \E t \in TextsIn(action) : Panics(t, attributes)
     IN /\ payload' = attributes
        /\ action' = IF panics THEN action ELSE Substituted(action, attributes, TRUE)
        /\ status' = IF panics THEN "panic" ELSE "ready"
  /\ UNCHANGED <<env, saturates, written, answers>>

(***************************************************************************)
(* Getters                                                                 *)
(***************************************************************************)
Truncated(n) == IF n < 0 THEN -((-n) \div Unit) ELSE n \div Unit

\* int64(f) of a float64: beyond int64 the processor decides.
InInt64(i) == -Long <= i /\ i < Long
Int64(n) ==
  IF InInt64(Truncated(n)) THEN Truncated(n) ELSE IF saturates /\ n > 0 THEN Long - 1 ELSE -Long

\* Mutant: a conversion that saturates.
Saturated(i) == IF i >= Half THEN Half - 1 ELSE i

\* int32(i), silently.
Wrapped(i) == ((i + Half) % (2 * Half)) - Half

Answer(s, v) == [status |-> s, value |-> v]
Error(zero) == Answer("error", zero)

\* cast.ToInt64E: a float is cut off; of a text ParseInt, with base 0, refuses what
\* is no whole number or none of int64.
ToInt64E(v) ==
  CASE v.kind = "number" -> Answer("nil", Int64(v.number))
    [] v.kind = "bool" -> Answer("nil", IF v.bool THEN 1 ELSE 0)
    [] v.kind = "null" -> Answer("nil", 0)
    [] v.kind = "text" /\ v.text.form \in {"plain", "literal"} /\ v.text.v % Unit = 0 /\ InInt64(v.text.v \div Unit) ->
         Answer("nil", v.text.v \div Unit)
    [] v.kind = "text" /\ v.text.form = "octal" /\ InInt64(v.text.octal) -> Answer("nil", v.text.octal)
    [] OTHER -> Error(0)

\* cast.ToFloat64E, in parts.
ToFloat64E(v) ==
  CASE v.kind = "number" -> Answer("nil", v.number)
    [] v.kind = "bool" -> Answer("nil", IF v.bool THEN Unit ELSE 0)
    [] v.kind = "null" -> Answer("nil", 0)
    [] v.kind = "text" /\ v.text.form \in {"plain", "decimal", "octal"} -> Answer("nil", Rounded(v.text.v))
    [] OTHER -> Error(0)

\* cast.ToStringE: a number never gets an exponent.
ToStringE(v) ==
  CASE v.kind = "number" -> Answer("nil", Text("plain", v.number))
    [] v.kind = "null" -> Answer("nil", Empty)
    [] v.kind \in {"text", "bool"} -> Answer("nil", Printed(v))
    [] OTHER -> Error(Empty)

Scalar == {"int", "int64", "int32", "float64", "string", "bool"}

\* GetAttribute of a type. An int has 64 bits; any text but "true" is false; what
\* is no map is an empty one, without an error.
GetAttribute(v, type) ==
  LET Zero == CASE type = "string" -> Empty [] type = "bool" -> FALSE [] type = "map" -> {} [] OTHER -> 0
      i == ToInt64E(v)
      s == ToStringE(v)
  IN CASE v = Missing -> Error(Zero)
       [] v # Missing /\ type \in {"int64", "int"} -> i
       [] v # Missing /\ type = "int32" -> [i EXCEPT !.value = Wrapped(@)]
       [] v # Missing /\ type = "float64" -> ToFloat64E(v)
       [] v # Missing /\ type = "string" -> s
       [] v # Missing /\ type = "bool" -> IF s.status = "nil" THEN Answer("nil", s.value = True) ELSE Error(Zero)
       [] v # Missing /\ type = "map" -> Answer("nil", IF v.kind = "map" THEN v.entries ELSE Zero)

KindOf(type) == IF type = "string" THEN "text" ELSE "number"
Elem(e, type) ==
  CASE type = "string" -> e.text [] type = "int" -> Int64(e.number) [] OTHER -> e.number

\* Mutant: v, _ = v.(T), which gives zero for an element of another type.
Slice2TypeZero(elems, type) ==
  Answer("nil", [i \in DOMAIN elems |-> IF elems[i].kind = KindOf(type) THEN Elem(elems[i], type) ELSE 0])

\* Slice2Type: v.(T) panics for an element of another type.
Slice2Type(elems, type) ==
  IF \A i \in DOMAIN elems : elems[i].kind = KindOf(type)
  THEN Answer("nil", [i \in DOMAIN elems |-> Elem(elems[i], type)])
  ELSE Answer("panic", <<>>)

\* GetIntSlice, GetFloatSlice and GetStringSlice: vals.([]any) panics for what is no list.
GetSlice(v, type) ==
  CASE v = Missing -> Error(<<>>)
    [] v.kind = "list" -> Slice2Type(v.elems, type)
    [] OTHER -> Answer("panic", <<>>)

Attribute(of) == IF of = "payload" THEN payload ELSE action

\* A getter is called: a panic ends the program.
Call(of, function, type, answer) ==
  LET call == <<of, function, type>> IN
  /\ status = "ready" /\ Cardinality(DOMAIN answers) < MaxCalls
  /\ call \notin DOMAIN answers
  /\ answers' = [x \in DOMAIN answers \cup {call} |-> IF x = call THEN answer ELSE answers[x]]
  /\ status' = IF answer.status \in {"panic", "exit"} THEN answer.status ELSE "ready"
  /\ UNCHANGED <<payload, action, env, saturates, written>>

Get(of, type) == Call(of, "get", type, GetAttribute(Attribute(of), type))
GetList(of, type) == Call(of, "slice", type, GetSlice(Attribute(of), type))

\* log.Fatalf ends the process; nothing is reported and no other action runs.
GetOrFail(of, type) ==
  LET a == GetAttribute(Attribute(of), type) IN
  Call(of, "orFail", type, IF a.status = "error" THEN Answer("exit", a.value) ELSE a)

GetOrDefault(of, type) ==
  LET a == GetAttribute(Attribute(of), type) IN
  Call(of, "orDefault", type, Answer("nil", IF a.status = "error" THEN "default" ELSE a.value))

\* Decode: mapstructure may refuse the entries for the destination.
Decode(of) ==
  LET m == GetAttribute(Attribute(of), "map") IN
  \/ Call(of, "decode", "map", m)
  \/ m.status = "nil" /\ m.value # {} /\ Call(of, "decode", "map", Error({}))

Next ==
  \/ Substitute
  \/ \E of \in {"payload", "action"} :
       \/ \E type \in Scalar \cup {"map"} : Get(of, type)
       \/ \E type \in {"int", "float64", "string"} : GetList(of, type)
       \/ \E type \in Scalar \ {"int32"} : GetOrFail(of, type) \/ GetOrDefault(of, type)
       \/ Decode(of)

Spec == Init /\ [][Next]_vars

(***************************************************************************)
(* Properties                                                              *)
(***************************************************************************)
Called(of, type) == <<of, "get", type>> \in DOMAIN answers
Got(of, type) == answers[<<of, "get", type>>]

\* The getters that are meant for a value of the payload, and to which a text of it
\* reads the same: for integers and texts where it has no exponent.
Own(v) ==
  CASE v.kind = "text" -> Scalar \cup {"map"}
    [] v.kind = "bool" -> {"bool", "string"}
    [] v.kind = "number" ->
         LET n == Magnitude(v.number) IN
         {"float64"} \cup IF (n # 0 /\ n < Tiny) \/ n >= Million * Unit THEN {}
                          ELSE IF n % Unit = 0 THEN {"string", "int", "int64", "int32"} ELSE {"string"}
    [] OTHER -> {}

\* An action's attribute that is a reference to one of the payload reads as that
\* one does: by the getters of its type, and for a number by those of integers and
\* texts only from 1e-4 up to a million, since the reference becomes a text like
\* 1e-05 or 1e+06 outside.
ReferencesReadAlike ==
  written.action = TextValue(Text("attribute", 0)) /\ payload # Missing =>
    \A type \in Own(payload) :
      Called("payload", type) /\ Called("action", type) => Got("payload", type) = Got("action", type)

\* How the numeric getters agree on an attribute: all integers are the same number,
\* modulo 2^32 for an int32 and with the same error. What an integer is read of, a
\* float is too, except of a text like 0x10: for a text that is the float nearest to
\* the integer, unless zeros lead, which only the integers take for octal; for
\* anything else the integer is the float with its fraction cut off, as long as that
\* is one of int64.
GettersAgree ==
  \A of \in {"payload", "action"} :
    LET v == Attribute(of) IN
    /\ Called(of, "int") /\ Called(of, "int64") => Got(of, "int") = Got(of, "int64")
    /\ Called(of, "int64") /\ Called(of, "int32") =>
         /\ Got(of, "int32").status = Got(of, "int64").status
         /\ (Got(of, "int64").value - Got(of, "int32").value) % (2 * Half) = 0
    /\ Called(of, "int") /\ Called(of, "float64") /\ Got(of, "int").status = "nil" =>
         LET i == Got(of, "int").value
             f == Got(of, "float64").value
         IN IF v.kind = "text"
            THEN v.text.form # "literal" =>
                   Got(of, "float64").status = "nil" /\ (v.text.form # "octal" => f = Rounded(Unit * i))
            ELSE Got(of, "float64").status = "nil" /\ (InInt64(Truncated(f)) => i = Truncated(f))

\* A list of numbers is only read when each was a number in the payload document:
\* an element that is a reference makes the getter panic, whatever it stands for,
\* unless its attribute is unknown, when the list is shorter than it was written.
ListsAreJson ==
  \A of \in {"payload", "action"}, type \in {"int", "float64"} :
    LET call == <<of, "slice", type>> IN
    call \in DOMAIN answers /\ answers[call].status = "nil" =>
      LET elems == written[of].elems
          numbers == {i \in DOMAIN elems : elems[i].kind = "number"}
      IN /\ Len(answers[call].value) = Cardinality(numbers)
         /\ \A i \in DOMAIN elems \ numbers :
              /\ of = "action" /\ payload = Missing
              /\ elems[i].kind = "text" /\ elems[i].text.form = "attribute"
=============================================================================
