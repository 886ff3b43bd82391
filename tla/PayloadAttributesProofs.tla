----------------------- MODULE PayloadAttributesProofs -----------------------
(***************************************************************************)
(* What the getters answer for every payload, every action and every value *)
(* of the environment variable.                                            *)
(***************************************************************************)
EXTENDS PayloadAttributes, SequenceFacts, TLAPS

Readable == Attributes \cup {Missing}

(***************************************************************************)
(* Attributes and texts                                                    *)
(***************************************************************************)
\* What an attribute is by its kind.
LEMMA AttributeParts ==
  ASSUME NEW v \in Readable
  PROVE  /\ v = Missing <=> v.kind = "missing"
         /\ v.kind = "number" => v.number \in Int /\ Rounded(v.number) = v.number
         /\ v.kind = "text" => v.text \in TextSet /\ v = TextValue(v.text)
         /\ v.kind = "bool" => v.bool \in BOOLEAN
         /\ v.kind = "list" => v.elems \in Seq(Elements) /\ v = [kind |-> "list", elems |-> v.elems]
<1>1. CASE v = Missing
  BY <1>1 DEF Missing
<1>2. CASE v \in Elements
  BY <1>2 DEF Elements, Floats, Missing, TextValue
<1>3. CASE v \in [kind : {"list"}, elems : Seq(Elements)]
  BY <1>3 DEF Missing
<1>4. CASE v \in [kind : {"map"}, entries : SUBSET STRING]
  BY <1>4 DEF Missing
<1>. QED BY <1>1, <1>2, <1>3, <1>4 DEF Readable, Attributes

\* An element is an attribute; what kind of one.
LEMMA ElementParts ==
  ASSUME NEW e \in Elements
  PROVE  /\ e \in Readable
         /\ e.kind = "number" => e.number \in Int
         /\ e.kind = "text" => e.text \in TextSet
<1>1. e \in Readable
  BY DEF Readable, Attributes
<1>. QED BY <1>1, AttributeParts

\* What is printed is a text.
LEMMA PrintedType ==
  ASSUME NEW v \in Readable
  PROVE  Printed(v) \in TextSet
<1>1. \A n \in Int : Text("plain", n) \in TextSet /\ Text("decimal", n) \in TextSet
  BY DEF Text, TextSet, Forms
<1>2. True \in TextSet /\ False \in TextSet /\ Nil \in TextSet /\ Listed \in TextSet
  BY DEF Text, TextSet, Forms, True, False, Nil, Listed
<1>3. v.kind = "number" => v.number \in Int
  BY AttributeParts
<1>4. v.kind = "text" => v.text \in TextSet
  BY AttributeParts
<1>. QED BY <1>1, <1>2, <1>3, <1>4 DEF Printed

\* So is what a reference becomes.
LEMMA ResolvedType ==
  ASSUME env \in TextSet, NEW attributes \in Readable, NEW t \in TextSet, NEW attrSub
  PROVE  Of(t, attributes, attrSub) \in TextSet
<1>1. Printed(attributes) \in TextSet
  BY PrintedType
<1>2. Empty \in TextSet /\ Listed \in TextSet
  BY DEF Text, TextSet, Forms, Empty, Listed
<1>3. attributes.kind = "list" /\ attributes.elems # <<>> /\ Len(attributes.elems) = 1 =>
        Printed(attributes.elems[1]) \in TextSet
  <2> SUFFICES ASSUME attributes.kind = "list", Len(attributes.elems) = 1
               PROVE  Printed(attributes.elems[1]) \in TextSet
    OBVIOUS
  <2>1. attributes.elems \in Seq(Elements)
    BY AttributeParts
  <2>2. attributes.elems[1] \in Elements
    BY <2>1
  <2>. QED BY <2>2, ElementParts, PrintedType
<1>4. Resolved(t, attributes) \in TextSet
  BY <1>1, <1>2, <1>3 DEF Resolved
<1>. QED BY <1>4 DEF Of

\* What handleSliceSub makes of the elements of a list, one by one.
Parts(elems, attributes, attrSub) == [i \in DOMAIN elems |-> Appended(elems[i], attributes, attrSub)]

\* It makes at most one of each.
LEMMA PartsType ==
  ASSUME env \in TextSet, NEW attributes \in Readable, NEW attrSub, NEW elems \in Seq(Elements)
  PROVE  /\ Parts(elems, attributes, attrSub) \in Seq(Seq(Elements))
         /\ Len(Parts(elems, attributes, attrSub)) = Len(elems)
         /\ \A i \in 1 .. Len(elems) :
              Parts(elems, attributes, attrSub)[i] = <<>> \/ Len(Parts(elems, attributes, attrSub)[i]) = 1
<1> DEFINE parts == Parts(elems, attributes, attrSub)
<1>1. ASSUME NEW e \in Elements
      PROVE  /\ Appended(e, attributes, attrSub) \in Seq(Elements)
             /\ Appended(e, attributes, attrSub) = <<>> \/ Len(Appended(e, attributes, attrSub)) = 1
  <2>1. e.kind = "text" => TextValue(Of(e.text, attributes, attrSub)) \in Elements
    <3> SUFFICES ASSUME e.kind = "text" PROVE TextValue(Of(e.text, attributes, attrSub)) \in Elements
      OBVIOUS
    <3>1. Of(e.text, attributes, attrSub) \in TextSet
      BY ElementParts, ResolvedType
    <3>. QED BY <3>1 DEF TextValue, Elements
  <2>2. Appended(e, attributes, attrSub) = <<>> \/ \E x \in Elements : Appended(e, attributes, attrSub) = <<x>>
    BY <2>1 DEF Appended
  <2>3. <<>> \in Seq(Elements) /\ \A x \in Elements : <<x>> \in Seq(Elements) /\ Len(<<x>>) = 1
    OBVIOUS
  <2> DEFINE new == Appended(e, attributes, attrSub)
  <2> HIDE DEF new
  <2>4. new = <<>> \/ \E x \in Elements : new = <<x>>
    BY <2>2 DEF new
  <2>5. new \in Seq(Elements) /\ (new = <<>> \/ Len(new) = 1)
    BY <2>3, <2>4
  <2>. QED BY <2>5 DEF new
<1>2. DOMAIN elems = 1 .. Len(elems) /\ Len(elems) \in Nat /\ \A i \in 1 .. Len(elems) : elems[i] \in Elements
  OBVIOUS
<1>3. parts = [i \in 1 .. Len(elems) |-> Appended(elems[i], attributes, attrSub)]
  BY <1>2 DEF Parts
<1>4. parts \in [1 .. Len(elems) -> Seq(Elements)]
  BY <1>1, <1>2, <1>3
<1>5. parts \in Seq(Seq(Elements)) /\ Len(parts) = Len(elems)
  BY <1>2, <1>4
<1>6. \A i \in 1 .. Len(elems) : parts[i] = <<>> \/ Len(parts[i]) = 1
  BY <1>1, <1>2, <1>3
<1>. QED BY <1>5, <1>6

\* Substitution makes attributes of attributes.
LEMMA SubstitutedType ==
  ASSUME env \in TextSet, NEW attributes \in Readable, NEW attrSub, NEW v \in Readable
  PROVE  /\ Substituted(v, attributes, attrSub) \in Readable
         /\ v \in Attributes => Substituted(v, attributes, attrSub) \in Attributes
<1>1. CASE v.kind = "text"
  <2>1. Of(v.text, attributes, attrSub) \in TextSet
    BY <1>1, AttributeParts, ResolvedType
  <2>2. TextValue(Of(v.text, attributes, attrSub)) \in Attributes
    BY <2>1 DEF TextValue, Attributes, Elements
  <2>. QED BY <1>1, <2>2 DEF Substituted, Readable
<1>2. CASE v.kind = "list"
  <2> DEFINE flat == FlattenSeq(Parts(v.elems, attributes, attrSub))
  <2>1. v.elems \in Seq(Elements) /\ v = [kind |-> "list", elems |-> v.elems]
    BY <1>2, AttributeParts
  <2>2. flat \in Seq(Elements)
    BY <2>1, PartsType, FlattenCut
  <2>3. Substituted(v, attributes, attrSub) = [v EXCEPT !.elems = flat]
    BY <1>2 DEF Substituted, Parts
  <2> HIDE DEF flat
  <2>4. [v EXCEPT !.elems = flat] = [kind |-> "list", elems |-> flat]
    BY <2>1
  <2>. QED BY <2>2, <2>3, <2>4 DEF Readable, Attributes
<1>3. CASE v.kind \notin {"text", "list"}
  BY <1>3 DEF Substituted
<1>. QED BY <1>1, <1>2, <1>3

(***************************************************************************)
(* The attributes and the answers                                          *)
(***************************************************************************)
\* Types of the attributes and of the environment variable.
TypeInv ==
  /\ payload \in Readable /\ action \in Attributes /\ env \in TextSet /\ saturates \in BOOLEAN
  /\ written = [payload |-> written.payload, action |-> written.action]
  /\ written.payload \in Readable /\ written.action \in Attributes

\* Nothing is answered before the substitution, and after it the attributes are what
\* it makes of the documents.
SubstitutedInv ==
  \/ status = "loaded" /\ DOMAIN answers = {} /\ written = [payload |-> payload, action |-> action]
  \/ status = "panic" /\ DOMAIN answers = {}
  \/ /\ status # "loaded"
     /\ payload = Substituted(written.payload, written.payload, FALSE)
     /\ action = Substituted(written.action, payload, TRUE)

\* What was answered is what the function answers: the attributes do not change any more.
AnswersInv ==
  \A of \in {"payload", "action"} :
    /\ \A type \in Scalar \cup {"map"} : Called(of, type) => Got(of, type) = GetAttribute(Attribute(of), type)
    /\ \A type \in {"int", "float64", "string"} :
         <<of, "slice", type>> \in DOMAIN answers =>
           answers[<<of, "slice", type>>] = GetSlice(Attribute(of), type)

Inv == TypeInv /\ SubstitutedInv /\ AnswersInv

\* The documents as they are read satisfy the invariant.
LEMMA InitInv == Init => Inv
<1> SUFFICES ASSUME Init PROVE Inv
  OBVIOUS
<1>1. DOMAIN answers = {}
  BY DEF Init
<1>2. TypeInv
  BY DocumentsAssumption DEF Init, TypeInv, Readable
<1>3. SubstitutedInv
  BY <1>1 DEF Init, SubstitutedInv
<1>4. AnswersInv
  BY <1>1 DEF AnswersInv, Called
<1>. QED BY <1>2, <1>3, <1>4 DEF Inv

\* The substitution keeps it.
LEMMA SubstituteInv == Inv /\ Substitute => Inv'
<1> SUFFICES ASSUME Inv, Substitute PROVE Inv'
  OBVIOUS
<1> DEFINE attributes == Substituted(payload, payload, FALSE)
<1>1. /\ status = "loaded" /\ DOMAIN answers = {} /\ written = [payload |-> payload, action |-> action]
      /\ payload' = attributes /\ UNCHANGED <<env, saturates, written, answers>>
      /\ \/ action' = action /\ status' = "panic"
         \/ action' = Substituted(action, attributes, TRUE) /\ status' = "ready"
  BY DEF Substitute, Inv, SubstitutedInv
<1>2. payload \in Readable /\ action \in Attributes /\ env \in TextSet
  BY DEF Inv, TypeInv
<1>3. attributes \in Readable
  BY <1>2, SubstitutedType
<1>4. Substituted(action, attributes, TRUE) \in Attributes
  BY <1>2, <1>3, SubstitutedType DEF Readable
<1> HIDE DEF attributes
<1>5. TypeInv'
  BY <1>1, <1>3, <1>4 DEF Inv, TypeInv
<1>6. AnswersInv'
  BY <1>1 DEF AnswersInv, Called
<1>7. SubstitutedInv'
  <2>1. CASE status' = "panic"
    BY <1>1, <2>1 DEF SubstitutedInv
  <2>2. CASE action' = Substituted(action, attributes, TRUE) /\ status' = "ready"
    <3>1. payload' = Substituted(written.payload, written.payload, FALSE)
      BY <1>1 DEF attributes
    <3>2. action' = Substituted(written.action, payload', TRUE)
      BY <1>1, <2>2
    <3>3. /\ Substituted(written.payload, written.payload, FALSE)' = Substituted(written.payload, written.payload, FALSE)
          /\ Substituted(written.action, payload, TRUE)' = Substituted(written.action, payload', TRUE)
      BY <1>1 DEF Substituted, Of, Resolved, Appended
    <3>. QED BY <2>2, <3>1, <3>2, <3>3 DEF SubstitutedInv
  <2>. QED BY <1>1, <2>1, <2>2
<1>. QED BY <1>5, <1>6, <1>7 DEF Inv

\* What a getter answers for a value does not change.
LEMMA GettersStay ==
  ASSUME UNCHANGED saturates
  PROVE  /\ \A v, type : GetAttribute(v, type)' = GetAttribute(v, type)
         /\ \A v, type : GetSlice(v, type)' = GetSlice(v, type)
<1>1. \A n : Int64(n)' = Int64(n)
  BY DEF Int64
<1>2. \A v : ToInt64E(v)' = ToInt64E(v)
  BY <1>1 DEF ToInt64E
<1>3. \A v, type : GetAttribute(v, type)' = GetAttribute(v, type)
  BY <1>2 DEF GetAttribute
<1>4. \A e, type : Elem(e, type)' = Elem(e, type)
  BY <1>1 DEF Elem
<1>5. \A elems, type : Slice2Type(elems, type)' = Slice2Type(elems, type)
  BY <1>4 DEF Slice2Type
<1>6. \A v, type : GetSlice(v, type)' = GetSlice(v, type)
  BY <1>5 DEF GetSlice
<1>. QED BY <1>3, <1>6

\* So does an answer that is the function's.
LEMMA CallInv ==
  ASSUME Inv, NEW of, NEW function, NEW type, NEW STATE answer, Call(of, function, type, answer),
         function = "get" => answer = GetAttribute(Attribute(of), type),
         function = "slice" => answer = GetSlice(Attribute(of), type)
  PROVE  Inv'
<1> DEFINE call == <<of, function, type>>
<1>1. /\ status = "ready" /\ status' \in {"ready", "panic", "exit"}
      /\ UNCHANGED <<payload, action, env, saturates, written>>
      /\ DOMAIN answers' = DOMAIN answers \cup {call}
      /\ \A x \in DOMAIN answers' : answers'[x] = IF x = call THEN answer ELSE answers[x]
  BY DEF Call
<1>2. TypeInv'
  BY <1>1 DEF Inv, TypeInv
<1>3. SubstitutedInv'
  <2>1. payload = Substituted(written.payload, written.payload, FALSE) /\ action = Substituted(written.action, payload, TRUE)
    BY <1>1 DEF Inv, SubstitutedInv
  <2>2. /\ Substituted(written.payload, written.payload, FALSE)' = Substituted(written.payload, written.payload, FALSE)
        /\ Substituted(written.action, payload, TRUE)' = Substituted(written.action, payload, TRUE)
    BY <1>1 DEF Substituted, Of, Resolved, Appended
  <2>. QED BY <1>1, <2>1, <2>2 DEF SubstitutedInv
<1>4. \A o : Attribute(o)' = Attribute(o)
  BY <1>1 DEF Attribute
<1>5. ASSUME NEW o \in {"payload", "action"}, NEW t \in Scalar \cup {"map"}, Called(o, t)'
      PROVE  Got(o, t)' = GetAttribute(Attribute(o), t)
  <2>1. <<o, "get", t>> \in DOMAIN answers'
    BY <1>5 DEF Called
  <2>2. CASE <<o, "get", t>> = call
    <3>1. o = of /\ function = "get" /\ t = type
      BY <2>2
    <3>. QED BY <1>1, <2>1, <2>2, <3>1 DEF Got
  <2>3. CASE <<o, "get", t>> # call
    <3>1. Called(o, t) /\ Got(o, t)' = Got(o, t)
      BY <1>1, <2>1, <2>3 DEF Called, Got
    <3>. QED BY <1>5, <3>1 DEF Inv, AnswersInv
  <2>. QED BY <2>2, <2>3
<1>6. ASSUME NEW o \in {"payload", "action"}, NEW t \in {"int", "float64", "string"},
             <<o, "slice", t>> \in DOMAIN answers'
      PROVE  answers'[<<o, "slice", t>>] = GetSlice(Attribute(o), t)
  <2>1. CASE <<o, "slice", t>> = call
    <3>1. o = of /\ function = "slice" /\ t = type
      BY <2>1
    <3>. QED BY <1>1, <1>6, <2>1, <3>1
  <2>2. CASE <<o, "slice", t>> # call
    <3>1. <<o, "slice", t>> \in DOMAIN answers /\ answers'[<<o, "slice", t>>] = answers[<<o, "slice", t>>]
      BY <1>1, <1>6, <2>2
    <3>. QED BY <1>6, <3>1 DEF Inv, AnswersInv
  <2>. QED BY <2>1, <2>2
<1>7. AnswersInv'
  BY <1>1, <1>4, <1>5, <1>6, GettersStay DEF AnswersInv
<1>. QED BY <1>2, <1>3, <1>7 DEF Inv

\* The inductive step.
LEMMA NextInv == Inv /\ [Next]_vars => Inv'
<1> SUFFICES ASSUME Inv, [Next]_vars PROVE Inv'
  OBVIOUS
<1>1. CASE Substitute
  BY <1>1, SubstituteInv
<1>2. ASSUME NEW of \in {"payload", "action"}, NEW type \in Scalar \cup {"map"}, Get(of, type) PROVE Inv'
  BY <1>2, CallInv DEF Get
<1>3. ASSUME NEW of \in {"payload", "action"}, NEW type \in {"int", "float64", "string"}, GetList(of, type) PROVE Inv'
  BY <1>3, CallInv DEF GetList
<1>4. ASSUME NEW of \in {"payload", "action"}, NEW type, GetOrFail(of, type) PROVE Inv'
  BY <1>4, CallInv DEF GetOrFail
<1>5. ASSUME NEW of \in {"payload", "action"}, NEW type, GetOrDefault(of, type) PROVE Inv'
  BY <1>5, CallInv DEF GetOrDefault
<1>6. ASSUME NEW of \in {"payload", "action"}, Decode(of) PROVE Inv'
  BY <1>6, CallInv DEF Decode
<1>7. CASE UNCHANGED vars
  <2>1. UNCHANGED vars
    BY <1>7
  <2>2. TypeInv'
    BY <2>1 DEF vars, Inv, TypeInv
  <2>3. SubstitutedInv'
    BY <2>1 DEF vars, Inv, SubstitutedInv, Substituted, Of, Resolved, Appended
  <2>4. /\ \A v, type : GetAttribute(v, type)' = GetAttribute(v, type)
        /\ \A v, type : GetSlice(v, type)' = GetSlice(v, type)
    BY <2>1, GettersStay DEF vars
  <2>5. \A of : Attribute(of)' = Attribute(of)
    BY <2>1 DEF vars, Attribute
  <2>6. AnswersInv'
    BY <2>1, <2>4, <2>5 DEF vars, Inv, AnswersInv, Called, Got
  <2>. QED BY <2>2, <2>3, <2>6 DEF Inv
<1>. QED BY <1>1, <1>2, <1>3, <1>4, <1>5, <1>6, <1>7 DEF Next

\* The invariant holds: what was answered is what the getter answers for an attribute
\* that is what the substitution made of the document's.
THEOREM AnswersInductive == Spec => []Inv
<1>1. Init => Inv
  BY InitInv
<1>2. Inv /\ [Next]_vars => Inv'
  BY NextInv
<1>. QED BY <1>1, <1>2, PTL DEF Spec

(***************************************************************************)
(* The numeric getters                                                     *)
(***************************************************************************)
\* Without its remainder a number is a multiple.
LEMMA Remainder ==
  ASSUME NEW m \in Nat \ {0}, NEW x \in Int
  PROVE  (x - (x % m)) % m = 0
OBVIOUS

\* The integer an int32 takes differs from the one it is given by a multiple of 2^32.
LEMMA WrappedDiffers ==
  ASSUME NEW i \in Int
  PROVE  (i - Wrapped(i)) % (2 * Half) = 0
<1>1. Half \in Nat \ {0} /\ 2 * Half \in Nat \ {0}
  BY BoundsAssumption
<1> DEFINE m == 2 * Half
           x == i + Half
<1>2. x \in Int /\ m \in Nat \ {0} /\ i - Wrapped(i) = x - (x % m)
  BY <1>1 DEF Wrapped
<1> HIDE DEF m, x
<1>3. (x - (x % m)) % m = 0
  BY <1>2, Remainder
<1>. QED BY <1>2, <1>3 DEF m

\* A whole number of parts is a multiple of them.
LEMMA Whole ==
  ASSUME NEW n \in Int, n % Unit = 0
  PROVE  n \div Unit \in Int /\ n = Unit * (n \div Unit)
<1>1. Unit \in Nat \ {0}
  BY BoundsAssumption
<1>. QED BY <1>1

\* What is left of a number without its fraction.
LEMMA TruncatedType ==
  ASSUME NEW n \in Int
  PROVE  Truncated(n) \in Int
<1>1. Unit \in Nat \ {0}
  BY BoundsAssumption
<1>. QED BY <1>1 DEF Truncated

\* The truth values as floats.
LEMMA TruncatedOne == Truncated(0) = 0 /\ Truncated(Unit) = 1
<1>1. Unit \in Nat \ {0}
  BY BoundsAssumption
<1>2. 0 \div Unit = 0 /\ Unit \div Unit = 1
  BY <1>1
<1>. QED BY <1>1, <1>2 DEF Truncated

\* What ToInt64E answers is an integer, and how ToFloat64E answers when there is one.
LEMMA Integers64 ==
  ASSUME NEW v \in Readable
  PROVE  /\ ToInt64E(v).value \in Int
         /\ ToInt64E(v).status = "nil" =>
              IF v.kind = "text"
              THEN v.text.form # "literal" =>
                     /\ ToFloat64E(v).status = "nil"
                     /\ v.text.form # "octal" => ToFloat64E(v).value = Rounded(Unit * ToInt64E(v).value)
              ELSE /\ ToFloat64E(v).status = "nil"
                   /\ InInt64(Truncated(ToFloat64E(v).value)) => ToInt64E(v).value = Truncated(ToFloat64E(v).value)
<1>1. Long \in Nat \ {0}
  BY BoundsAssumption
<1>2. CASE v.kind = "number"
  <2>1. v.number \in Int
    BY <1>2, AttributeParts
  <2>2. Truncated(v.number) \in Int
    BY <2>1, TruncatedType
  <2>3. ToInt64E(v) = Answer("nil", Int64(v.number)) /\ ToFloat64E(v) = Answer("nil", v.number)
    BY <1>2 DEF ToInt64E, ToFloat64E
  <2>4. Int64(v.number) \in Int /\ (InInt64(Truncated(v.number)) => Int64(v.number) = Truncated(v.number))
    BY <1>1, <2>2 DEF Int64
  <2>. QED BY <1>2, <2>3, <2>4 DEF Answer
<1>3. CASE v.kind = "bool"
  <2>1. \/ ToInt64E(v) = Answer("nil", 1) /\ ToFloat64E(v) = Answer("nil", Unit)
        \/ ToInt64E(v) = Answer("nil", 0) /\ ToFloat64E(v) = Answer("nil", 0)
    BY <1>3 DEF ToInt64E, ToFloat64E
  <2>. QED BY <1>3, <2>1, TruncatedOne DEF Answer
<1>4. CASE v.kind = "null"
  BY <1>4, TruncatedOne DEF ToInt64E, ToFloat64E, Answer
<1>5. CASE v.kind = "text" /\ v.text.form \in {"plain", "literal"}
  <2>1. v.text.v \in Int
    BY <1>5, AttributeParts DEF TextSet
  <2>2. CASE v.text.v % Unit = 0 /\ InInt64(v.text.v \div Unit)
    <3>1. v.text.v \div Unit \in Int /\ v.text.v = Unit * (v.text.v \div Unit)
      BY <2>1, <2>2, Whole
    <3>2. ToInt64E(v) = Answer("nil", v.text.v \div Unit)
      BY <1>5, <2>2 DEF ToInt64E
    <3>3. v.text.form # "literal" => ToFloat64E(v) = Answer("nil", Rounded(v.text.v))
      BY <1>5 DEF ToFloat64E
    <3>4. ToInt64E(v).value = v.text.v \div Unit
      BY <3>2 DEF Answer
    <3>5. v.text.form # "literal" =>
            ToFloat64E(v).status = "nil" /\ ToFloat64E(v).value = Rounded(Unit * ToInt64E(v).value)
      BY <3>1, <3>3, <3>4 DEF Answer
    <3>. QED BY <1>5, <3>1, <3>4, <3>5
  <2>3. CASE ~(v.text.v % Unit = 0 /\ InInt64(v.text.v \div Unit))
    BY <1>5, <2>3 DEF ToInt64E, Answer, Error
  <2>. QED BY <2>2, <2>3
<1>6. CASE v.kind = "text" /\ v.text.form = "octal"
  <2>1. v.text.octal \in Int
    <3>1. v.text \in TextSet
      BY <1>6, AttributeParts
    <3>2. v.text \notin [form : Forms, v : Int]
      BY <1>6 DEF Forms
    <3>3. v.text \in [form : {"octal"}, v : Int, octal : Int]
      BY <3>1, <3>2 DEF TextSet
    <3>. QED BY <3>3
  <2>2. ToInt64E(v) = Answer("nil", v.text.octal) \/ ToInt64E(v) = Error(0)
    BY <1>6 DEF ToInt64E
  <2>3. ToFloat64E(v).status = "nil"
    BY <1>6 DEF ToFloat64E, Answer
  <2>. QED BY <1>6, <2>1, <2>2, <2>3 DEF Answer, Error
<1>7. CASE v.kind = "text" /\ v.text.form \notin {"plain", "literal", "octal"}
  BY <1>7 DEF ToInt64E, Answer, Error
<1>8. CASE v.kind \notin {"number", "bool", "null", "text"}
  BY <1>8 DEF ToInt64E, Answer, Error
<1>. QED BY <1>2, <1>3, <1>4, <1>5, <1>6, <1>7, <1>8

\* How the numeric getters relate, for any attribute.
Related(v, int, int64, int32, float) ==
  /\ int = int64
  /\ int32.status = int64.status /\ (int64.value - int32.value) % (2 * Half) = 0
  /\ int.status = "nil" =>
       IF v.kind = "text"
       THEN v.text.form # "literal" =>
              float.status = "nil" /\ (v.text.form # "octal" => float.value = Rounded(Unit * int.value))
       ELSE float.status = "nil" /\ (InInt64(Truncated(float.value)) => int.value = Truncated(float.value))

\* They relate so.
LEMMA NumericGetters ==
  ASSUME NEW v \in Readable
  PROVE  Related(v, GetAttribute(v, "int"), GetAttribute(v, "int64"), GetAttribute(v, "int32"), GetAttribute(v, "float64"))
<1>1. CASE v = Missing
  <2>1. \A type \in {"int", "int64", "int32", "float64"} : GetAttribute(v, type) = Error(0)
    BY <1>1 DEF GetAttribute
  <2>2. 2 * Half \in Nat \ {0}
    BY BoundsAssumption
  <2>3. (0 - 0) % (2 * Half) = 0
    BY <2>2
  <2>. QED BY <2>1, <2>3 DEF Error, Answer, Related
<1>2. CASE v # Missing
  <2>1. /\ GetAttribute(v, "int") = ToInt64E(v) /\ GetAttribute(v, "int64") = ToInt64E(v)
        /\ GetAttribute(v, "int32") = [ToInt64E(v) EXCEPT !.value = Wrapped(@)]
        /\ GetAttribute(v, "float64") = ToFloat64E(v)
    BY <1>2 DEF GetAttribute
  <2>2. \E s, n : ToInt64E(v) = [status |-> s, value |-> n]
    BY DEF ToInt64E, Answer, Error
  <2>3. /\ GetAttribute(v, "int32").status = ToInt64E(v).status
        /\ GetAttribute(v, "int32").value = Wrapped(ToInt64E(v).value)
    BY <2>1, <2>2
  <2>4. (ToInt64E(v).value - Wrapped(ToInt64E(v).value)) % (2 * Half) = 0
    BY Integers64, WrappedDiffers
  <2>. QED BY <2>1, <2>3, <2>4, Integers64 DEF Related
<1>. QED BY <1>1, <1>2

\* The attribute a getter is called for.
LEMMA AttributeType ==
  ASSUME Inv, NEW of \in {"payload", "action"}
  PROVE  Attribute(of) \in Readable
BY DEF Inv, TypeInv, Attribute, Readable

\* The numeric getters agree on every attribute, of the payload and of an action, as
\* far as their types hold its value and their parsers read the same texts.
THEOREM NumbersAgree == Spec => []GettersAgree
<1>1. Inv => GettersAgree
  <2>1. ASSUME Inv, NEW of \in {"payload", "action"}
        PROVE  LET Answered(type) == Called(of, type) => Got(of, type) = GetAttribute(Attribute(of), type)
               IN Answered("int") /\ Answered("int64") /\ Answered("int32") /\ Answered("float64")
    BY <2>1 DEF Inv, AnswersInv, Scalar
  <2>2. ASSUME Inv, NEW of \in {"payload", "action"}
        PROVE  Related(Attribute(of), GetAttribute(Attribute(of), "int"), GetAttribute(Attribute(of), "int64"),
                       GetAttribute(Attribute(of), "int32"), GetAttribute(Attribute(of), "float64"))
    BY <2>2, AttributeType, NumericGetters
  <2>. QED BY <2>1, <2>2 DEF GettersAgree, Related
<1>. QED BY <1>1, AnswersInductive, PTL

(***************************************************************************)
(* References                                                              *)
(***************************************************************************)
\* A whole number below a million is one of int64, of either sign.
LEMMA WholeInRange ==
  ASSUME NEW n \in Int, Magnitude(n) < Million * Unit, Magnitude(n) % Unit = 0
  PROVE  InInt64(Truncated(n)) /\ Truncated(n) = n \div Unit /\ n % Unit = 0
<1>1. Unit \in Nat \ {0} /\ Million \in Nat \ {0} /\ Long \in Nat \ {0} /\ Million <= Long
  BY BoundsAssumption
<1> DEFINE m == Magnitude(n)
           q == m \div Unit
<1>2. m \in Nat /\ q \in Nat /\ m = Unit * q
  <2>1. m \in Nat
    BY DEF Magnitude
  <2>. QED BY <1>1, <2>1, Whole
<1>3. q < Million
  BY <1>1, <1>2
<1>4. Truncated(n) = (IF n < 0 THEN -q ELSE q)
  BY DEF Truncated, Magnitude
<1>5. n = Unit * Truncated(n)
  BY <1>1, <1>2, <1>4 DEF Magnitude
<1>6. Truncated(n) \in Int
  BY TruncatedType
<1>7. n \div Unit = Truncated(n) /\ n % Unit = 0
  BY <1>1, <1>5, <1>6
<1>8. InInt64(Truncated(n))
  BY <1>1, <1>2, <1>3, <1>4 DEF InInt64
<1>. QED BY <1>7, <1>8

\* What is printed of an attribute reads as the attribute does.
LEMMA PrintedReadsAlike ==
  ASSUME NEW v \in Readable, NEW type \in Own(v)
  PROVE  GetAttribute(TextValue(Printed(v)), type) = GetAttribute(v, type)
<1> DEFINE t == TextValue(Printed(v))
<1>1. CASE v.kind = "text"
  <2>1. t = v
    BY <1>1, AttributeParts DEF Printed
  <2>. QED BY <2>1
<1>2. CASE v.kind = "bool"
  <2>1. ToStringE(v) = Answer("nil", Printed(v)) /\ ToStringE(t) = Answer("nil", Printed(v))
    BY <1>2 DEF ToStringE, Printed, TextValue
  <2>2. v # Missing /\ t # Missing /\ type \in {"bool", "string"}
    BY <1>2 DEF Missing, TextValue, Own
  <2>. QED BY <2>1, <2>2 DEF GetAttribute
<1>3. CASE v.kind = "number"
  <2>1. /\ v.number \in Int /\ Rounded(v.number) = v.number /\ v # Missing /\ t # Missing
        /\ Unit \in Nat \ {0} /\ Million \in Nat \ {0} /\ Long \in Nat \ {0} /\ Million <= Long
    BY <1>3, AttributeParts, BoundsAssumption DEF Missing, TextValue
  <2>2. t.kind = "text" /\ t.text = Printed(v)
    BY DEF TextValue
  <2>3. CASE type = "float64"
    <3>1. Printed(v) = Text("plain", v.number) \/ Printed(v) = Text("decimal", v.number)
      BY <1>3 DEF Printed
    <3>2. ToFloat64E(v) = Answer("nil", v.number)
      BY <1>3 DEF ToFloat64E
    <3>3. ToFloat64E(t) = Answer("nil", Rounded(v.number))
      BY <2>2, <3>1 DEF ToFloat64E, Text
    <3>. QED BY <2>1, <2>3, <3>2, <3>3 DEF GetAttribute
  <2>4. CASE type # "float64"
    <3> DEFINE n == Magnitude(v.number)
    <3>1. /\ ~((n # 0 /\ n < Tiny) \/ n >= Million * Unit)
          /\ type \in {"string", "int", "int64", "int32"} /\ (type # "string" => n % Unit = 0)
      BY <1>3, <2>4 DEF Own
    <3>2. n \in Nat /\ (n = 0 => v.number = 0) /\ Tiny \in Nat /\ Million * Unit \in Nat
      BY <2>1, BoundsAssumption DEF Magnitude
    <3>3. Plain(v.number)
      BY <3>1, <3>2 DEF Plain
    <3>4. Printed(v) = Text("plain", v.number)
      BY <1>3, <3>3 DEF Printed
    <3>5. ToStringE(v) = ToStringE(t)
      BY <1>3, <2>2, <3>4 DEF ToStringE, Printed
    <3>6. ASSUME type # "string" PROVE ToInt64E(v) = ToInt64E(t)
      <4>1. n < Million * Unit /\ n % Unit = 0
        BY <3>1, <3>2, <3>6
      <4>2. InInt64(Truncated(v.number)) /\ Truncated(v.number) = v.number \div Unit /\ v.number % Unit = 0
        BY <2>1, <4>1, WholeInRange
      <4>3. ToInt64E(v) = Answer("nil", v.number \div Unit)
        BY <1>3, <4>2 DEF ToInt64E, Int64
      <4>4. t.text.form = "plain" /\ t.text.v = v.number
        BY <2>2, <3>4 DEF Text
      <4>5. ToInt64E(t) = Answer("nil", v.number \div Unit)
        BY <2>2, <4>2, <4>4 DEF ToInt64E
      <4>. QED BY <4>3, <4>5
    <3>. QED BY <2>1, <3>1, <3>5, <3>6 DEF GetAttribute
  <2>. QED BY <2>3, <2>4
<1>. QED BY <1>1, <1>2, <1>3 DEF Own

\* An attribute that is a reference to one of the payload reads as that one does, by the
\* getters meant for its type; a number where %v prints it without an exponent.
THEOREM ReferencesRead == Spec => []ReferencesReadAlike
<1>1. Inv => ReferencesReadAlike
  <2> SUFFICES ASSUME Inv, written.action = TextValue(Text("attribute", 0)), payload # Missing,
                      NEW type \in Own(payload), Called("payload", type), Called("action", type)
               PROVE  Got("payload", type) = Got("action", type)
    BY DEF ReferencesReadAlike
  <2>1. payload \in Readable /\ type \in Scalar \cup {"map"}
    BY DEF Inv, TypeInv, Own, Scalar
  <2>2. Got("payload", type) = GetAttribute(payload, type) /\ Got("action", type) = GetAttribute(action, type)
    BY <2>1 DEF Inv, AnswersInv, Attribute
  <2>3. action = Substituted(TextValue(Text("attribute", 0)), payload, TRUE)
    BY DEF Inv, SubstitutedInv, Called
  <2>4. payload.kind # "list" /\ payload.kind # "missing"
    BY <2>1, AttributeParts DEF Own
  <2>5. Of(Text("attribute", 0), payload, TRUE) = Printed(payload)
    BY <2>4 DEF Of, Allowed, Refers, Fails, Resolved, Text
  <2>6. action = TextValue(Printed(payload))
    BY <2>3, <2>5 DEF Substituted, TextValue
  <2>. QED BY <2>1, <2>2, <2>6, PrintedReadsAlike
<1>. QED BY <1>1, AnswersInductive, PTL

(***************************************************************************)
(* Lists                                                                   *)
(***************************************************************************)
\* The elements of a list that has been read are the numbers of what it was before
\* it was substituted, and what else there was is gone.
OnlyNumbers(values, elems, attributes, attrSub) ==
  LET numbers == {i \in DOMAIN elems : elems[i].kind = "number"}
  IN /\ Len(values) = Cardinality(numbers)
     /\ \A i \in DOMAIN elems \ numbers :
          /\ attrSub /\ attributes = Missing
          /\ elems[i].kind = "text" /\ elems[i].text.form = "attribute"

\* A list that handleSliceSub has gone over and that is read as one of numbers had as
\* many numbers in the document, and beside them only references to what is missing.
LEMMA ListRead ==
  ASSUME env \in TextSet, NEW attributes \in Readable, NEW attrSub \in BOOLEAN, NEW v \in Readable,
         NEW type \in {"int", "float64"},
         GetSlice(Substituted(v, attributes, attrSub), type).status = "nil"
  PROVE  OnlyNumbers(GetSlice(Substituted(v, attributes, attrSub), type).value, v.elems, attributes, attrSub)
<1> DEFINE new == Substituted(v, attributes, attrSub)
           parts == Parts(v.elems, attributes, attrSub)
           flat == FlattenSeq(parts)
<1>1. GetSlice(new, type).status = "nil" =>
        /\ new.kind = "list" /\ new # Missing
        /\ \A j \in DOMAIN new.elems : new.elems[j].kind = "number"
        /\ GetSlice(new, type).value = [j \in DOMAIN new.elems |-> Elem(new.elems[j], type)]
  <2> HIDE DEF new
  <2>. QED BY DEF GetSlice, Slice2Type, KindOf, Answer, Error, Missing
<1>2. v.kind = "list"
  <2>1. new.kind = "list"
    BY <1>1
  <2>. QED BY <2>1 DEF Substituted, TextValue
<1>3. v.elems \in Seq(Elements) /\ v = [kind |-> "list", elems |-> v.elems]
  BY <1>2, AttributeParts
<1>4. new.elems = flat
  <2>1. new = [v EXCEPT !.elems = flat]
    BY <1>2 DEF Substituted, Parts
  <2> HIDE DEF new, flat
  <2>. QED BY <1>3, <2>1
<1>5. /\ parts \in Seq(Seq(Elements)) /\ Len(parts) = Len(v.elems)
      /\ \A i \in 1 .. Len(v.elems) : parts[i] = <<>> \/ Len(parts[i]) = 1
  BY <1>3, PartsType
<1>6. /\ DOMAIN v.elems = 1 .. Len(v.elems)
      /\ \A i \in 1 .. Len(v.elems) : parts[i] = Appended(v.elems[i], attributes, attrSub)
  BY <1>3 DEF Parts
<1> HIDE DEF parts
<1>7. /\ flat \in Seq(Elements)
      /\ Len(flat) = Cardinality({i \in 1 .. Len(v.elems) : parts[i] # <<>>})
      /\ \A i \in 1 .. Len(v.elems) : parts[i] # <<>> => \E j \in 1 .. Len(flat) : flat[j] = parts[i][1]
  <2>1. \A i \in 1 .. Len(parts) : parts[i] = <<>> \/ Len(parts[i]) = 1
    BY <1>5
  <2>2. /\ Len(flat) = Cardinality({i \in 1 .. Len(parts) : parts[i] # <<>>})
        /\ \A i \in 1 .. Len(parts) : parts[i] # <<>> => \E j \in 1 .. Len(flat) : flat[j] = parts[i][1]
    BY <1>5, <2>1, FlattenCount
  <2>3. flat \in Seq(Elements)
    BY <1>5, FlattenCut
  <2> HIDE DEF flat
  <2>. QED BY <1>5, <2>2, <2>3
<1> HIDE DEF flat
<1>8. DOMAIN flat = 1 .. Len(flat) /\ Len(flat) \in Nat
  BY <1>7
<1>9. \A j \in 1 .. Len(flat) : flat[j].kind = "number"
  BY <1>1, <1>4, <1>8
<1>10. ASSUME NEW i \in 1 .. Len(v.elems)
       PROVE  /\ parts[i] # <<>> <=> v.elems[i].kind = "number"
              /\ parts[i] = <<>> =>
                   /\ attrSub /\ attributes = Missing
                   /\ v.elems[i].kind = "text" /\ v.elems[i].text.form = "attribute"
  <2> DEFINE e == v.elems[i]
  <2>1. parts[i] = Appended(e, attributes, attrSub)
    BY <1>6
  <2> HIDE DEF e
  <2>2. CASE e.kind # "text"
    <3>1. parts[i] = <<e>>
      BY <2>1, <2>2 DEF Appended
    <3>2. parts[i] # <<>> /\ parts[i][1] = e
      BY <3>1
    <3>3. e.kind = "number"
      BY <1>7, <1>9, <3>2
    <3>. QED BY <3>2, <3>3 DEF e
  <2>3. CASE e.kind = "text" /\ Allowed(e.text, attrSub) /\ Fails(e.text, attributes)
    <3>1. parts[i] = <<>>
      BY <2>1, <2>3 DEF Appended
    <3>2. attrSub /\ e.text.form = "attribute" /\ attributes.kind = "missing"
      BY <2>3 DEF Allowed, Fails
    <3>3. attributes = Missing
      BY <3>2, AttributeParts
    <3>. QED BY <2>3, <3>1, <3>2, <3>3 DEF e
  <2>4. CASE e.kind = "text" /\ ~(Allowed(e.text, attrSub) /\ Fails(e.text, attributes))
    <3>1. parts[i] = <<TextValue(Of(e.text, attributes, attrSub))>>
      BY <2>1, <2>4 DEF Appended
    <3>2. parts[i] # <<>> /\ parts[i][1].kind = "text"
      BY <3>1 DEF TextValue
    <3>. QED BY <1>7, <1>9, <3>2
  <2>. QED BY <2>2, <2>3, <2>4
<1>11. {i \in 1 .. Len(v.elems) : parts[i] # <<>>} = {i \in DOMAIN v.elems : v.elems[i].kind = "number"}
  BY <1>6, <1>10
<1>12. Len(GetSlice(new, type).value) = Len(flat)
  <2>1. GetSlice(new, type).value = [j \in 1 .. Len(flat) |-> Elem(flat[j], type)]
    BY <1>1, <1>4, <1>8
  <2>. QED BY <1>8, <2>1
<1>. QED BY <1>6, <1>7, <1>10, <1>11, <1>12 DEF OnlyNumbers

\* A list of numbers is only read when each was a number in the document, or was
\* dropped as a reference to an attribute the payload does not have.
THEOREM ListsHoldNumbers == Spec => []ListsAreJson
<1>1. Inv => ListsAreJson
  <2> SUFFICES ASSUME Inv, NEW of \in {"payload", "action"}, NEW type \in {"int", "float64"},
                      <<of, "slice", type>> \in DOMAIN answers,
                      answers[<<of, "slice", type>>].status = "nil"
               PROVE  OnlyNumbers(answers[<<of, "slice", type>>].value, written[of].elems, payload, of = "action")
    BY DEF ListsAreJson, OnlyNumbers
  <2>1. answers[<<of, "slice", type>>] = GetSlice(Attribute(of), type)
    BY DEF Inv, AnswersInv
  <2>2. /\ payload = Substituted(written.payload, written.payload, FALSE)
        /\ action = Substituted(written.action, payload, TRUE)
    BY DEF Inv, SubstitutedInv
  <2>3. /\ payload \in Readable /\ env \in TextSet
        /\ written.payload \in Readable /\ written.action \in Readable
    BY DEF Inv, TypeInv, Readable
  <2>4. CASE of = "payload"
    <3>1. GetSlice(Substituted(written.payload, written.payload, FALSE), type) = answers[<<of, "slice", type>>]
      BY <2>1, <2>2, <2>4 DEF Attribute
    <3>2. OnlyNumbers(answers[<<of, "slice", type>>].value, written.payload.elems, written.payload, FALSE)
      BY <2>3, <3>1, ListRead
    <3>. QED BY <2>3, <2>4, <3>2 DEF OnlyNumbers
  <2>5. CASE of = "action"
    <3>1. GetSlice(Substituted(written.action, payload, TRUE), type) = answers[<<of, "slice", type>>]
      BY <2>1, <2>2, <2>5 DEF Attribute
    <3>2. OnlyNumbers(answers[<<of, "slice", type>>].value, written.action.elems, payload, TRUE)
      BY <2>3, <3>1, ListRead
    <3>. QED BY <2>5, <3>2
  <2>. QED BY <2>4, <2>5
<1>. QED BY <1>1, AnswersInductive, PTL
==============================================================================
