------------------------------ MODULE NoSqlValues ------------------------------
(***************************************************************************)
(* NoSQLMarshall, NoSQLUnMarshall, NoSQLByte and the NoSQL sets of         *)
(* packages/nosql as functions on values.  A JavaScript value and an       *)
(* attribute are tuples <<kind, content>>; an object, a Map and a class    *)
(* instance hold a sequence of pairs <<key, value>>.  Numbers stand for    *)
(* their class: "small", "unsafe" (a number beyond MAX_SAFE_INTEGER),      *)
(* "huge" (one from 1e21, printed with an exponent), "big" (a bigint       *)
(* beyond the range) and "nan".  Bytes stand for their content: a          *)
(* "buffer", a typed array that has its ArrayBuffer for itself ("wide"),   *)
(* shows a part of it ("view"), or has elements of 64 bits ("big64").      *)
(***************************************************************************)
EXTENDS Integers, Sequences

Null   == <<"null">>
Throws == <<"throws">>
Options == [convertEmptyValues : BOOLEAN, removeUndefinedValues : BOOLEAN,
            convertClassInstanceToMap : BOOLEAN]
NoOptions == [convertEmptyValues |-> FALSE, removeUndefinedValues |-> FALSE,
              convertClassInstanceToMap |-> FALSE]

Kind(v) == v[1]
Content(v) == v[2]
IsIn(v, kinds) == Kind(v) \in kinds

(* A sequence of results, or the first exception among them. *)
AllOf(type, results) ==
  IF \E i \in DOMAIN results : results[i] = Throws THEN Throws ELSE <<type, results>>

(* The values of a map, made one by one. *)
PairsOf(type, pairs, Made(_)) ==
  LET made == [i \in DOMAIN pairs |-> Made(pairs[i][2])] IN
  IF \E i \in DOMAIN made : made[i] = Throws THEN Throws
  ELSE <<type, [i \in DOMAIN pairs |-> <<pairs[i][1], made[i]>>]>>

-----------------------------------------------------------------------------
(* NoSQLByte.isBuffer(): by the name of the constructor, which NoSQLByte itself has not. *)
IsBuffer(v) == IsIn(v, {"buffer", "view", "wide", "big64"})

NoSQLByte(v) == IF Kind(v) = "NoSQLByte" THEN v ELSE <<"NoSQLByte", v>>

(* toBuffer() of a NoSQLByte: its bytes, of a typed array all of its ArrayBuffer. *)
Base64(byte) == LET bytes == Content(byte) IN IF Kind(bytes) = "view" THEN "whole" ELSE Content(bytes)

(* toJSON(); what else was wrapped throws, arrays of 64 bits with it. *)
ByteJSON(byte) ==
  IF IsIn(Content(byte), {"base64", "string", "buffer", "view", "wide"}) THEN <<"base64", Base64(byte)>>
  ELSE Throws

(* The typed array of a NoSQLByte: itself, or one element for each byte. *)
ToWideArray(byte) ==
  IF Kind(Content(byte)) = "wide" THEN Content(byte) ELSE <<"widened", Base64(byte)>>

(* The constructors of the three sets add() each element: one of bytes wraps whatever it
   is given, and one of numbers asks whether a number is valid but not for the answer. *)
Addable(type, v) ==
  CASE type = "SS" -> Kind(v) = "string"
    [] type = "SN" -> IsIn(v, {"number", "bigint"})
    [] type = "SB" -> TRUE

NoSQLSet(type, values) ==
  IF \E i \in DOMAIN values : ~Addable(type, values[i]) THEN Throws
  ELSE <<type, IF type = "SB" THEN [i \in DOMAIN values |-> NoSQLByte(values[i])] ELSE values>>

-----------------------------------------------------------------------------
MakeNull == <<"NULL", TRUE>>
MakeString(v) == <<"S", Content(v)>>

(* Numbers and bigints beyond the safe range are refused alike. *)
MakeNumber(v) == IF Content(v) = "small" THEN <<"N", Content(v)>> ELSE Throws

MakeByte(v) == <<"B", NoSQLByte(v)>>
MakeBoolean(v) == <<"BOOL", IF Content(v) THEN "true" ELSE "false">>

(* makeStringSet(), makeNumberSet(), makeByteSet(): one of the sets is taken as it is. *)
MakeTypedSet(type, v) == IF Kind(v) = type THEN v ELSE NoSQLSet(type, Content(v))

(* makeSet(): filtered for the tests of emptiness and of the first element only. *)
MakeSet(v, o) ==
  LET Defined(x) == Kind(x) # "undefined"
      seen == IF o.removeUndefinedValues THEN SelectSeq(Content(v), Defined) ELSE Content(v)
  IN  IF ~o.removeUndefinedValues /\ ~(\A i \in DOMAIN seen : Defined(seen[i])) THEN Throws
      ELSE IF seen = <<>> THEN IF o.convertEmptyValues THEN MakeNull ELSE Throws
      ELSE IF IsIn(seen[1], {"number", "bigint"}) THEN MakeTypedSet("SN", v)
      ELSE IF Kind(seen[1]) = "string" THEN MakeTypedSet("SS", v)
      ELSE IF IsBuffer(seen[1]) THEN MakeTypedSet("SB", v)
      ELSE Throws

RECURSIVE Make(_, _)

(* makeList(): the elements are made without the options. *)
MakeList(v) == AllOf("L", [i \in DOMAIN Content(v) |-> Make(Content(v)[i], NoOptions)])

(* Functions are left out; undefined is not, whatever removeUndefinedValues says, because
   the code tests the container in place of the value. *)
Kept(pairs) == LET NotFunction(p) == Kind(p[2]) # "function" IN SelectSeq(pairs, NotFunction)

(* makeMap() *)
MakeMap(pairs, o) ==
  LET MakeOne(v) == Make(v, o) IN PairsOf("M", Kept(pairs), MakeOne)

(* The enumerable properties of an instance; NoSQLByte has none. *)
Properties(v) == IF Kind(v) = "NoSQLByte" THEN <<>> ELSE Content(v)

IsSet(v) == IsIn(v, {"Set", "SS", "SN", "SB"})

(* NoSQLMarshall.make() *)
Make(v, o) ==
  CASE Kind(v) = "null" -> MakeNull
    [] Kind(v) = "array" -> MakeList(v)
    [] IsSet(v) -> MakeSet(v, o)
    [] IsIn(v, {"Map", "object"}) -> MakeMap(Content(v), o)
    [] IsBuffer(v) -> IF Content(v) = "" /\ o.convertEmptyValues THEN MakeNull ELSE MakeByte(v)
    [] Kind(v) = "boolean" -> MakeBoolean(v)
    [] IsIn(v, {"number", "bigint"}) -> MakeNumber(v)
    [] Kind(v) = "string" -> IF Content(v) = "" /\ o.convertEmptyValues THEN MakeNull ELSE MakeString(v)
    [] IsIn(v, {"instance", "NoSQLByte"}) /\ o.convertClassInstanceToMap -> MakeMap(Properties(v), o)
    [] OTHER -> Throws

(* JSON.stringify() of an attribute, as the server stores it and sends it back. *)
RECURSIVE Wire(_)
Wire(a) ==
  CASE Kind(a) = "B" -> IF ByteJSON(Content(a)) = Throws THEN Throws ELSE <<"B", ByteJSON(Content(a))>>
    [] Kind(a) = "SN" -> <<"SN", [i \in DOMAIN Content(a) |-> <<"digits", Content(Content(a)[i])>>]>>
    [] Kind(a) = "SB" -> AllOf("SB", [i \in DOMAIN Content(a) |-> ByteJSON(Content(a)[i])])
    [] Kind(a) = "L" -> AllOf("L", [i \in DOMAIN Content(a) |-> Wire(Content(a)[i])])
    [] Kind(a) = "M" -> PairsOf("M", Content(a), Wire)
    [] OTHER -> a

-----------------------------------------------------------------------------
(* NoSQLUnMarshall.makeNumber(): what is no safe number must be the digits of a bigint,
   which an exponent is not. *)
NativeNumber(digits) ==
  CASE digits = "small" -> <<"number", "small">>
    [] digits \in {"nan", "huge"} -> Throws
    [] digits \in {"unsafe", "big"} -> <<"bigint", digits>>

FromBase64(s) == <<"NoSQLByte", s>>

(* Mutant: BOOL is compared with the boolean. *)
NativeFalse(s) == <<"boolean", FALSE>>

NativeBoolean(s) == <<"boolean", s = "true">>

(* The three sets of a response. *)
NativeSet(type, elements) ==
  LET Element(e) == CASE type = "SS" -> e
                      [] type = "SN" -> NativeNumber(Content(e))
                      [] type = "SB" -> FromBase64(e)
      native == [i \in DOMAIN elements |-> Element(elements[i])]
  IN  IF \E i \in DOMAIN native : native[i] = Throws THEN Throws ELSE NoSQLSet(type, native)

(* NoSQLUnMarshall.makeNative() on an attribute that the server sent. *)
RECURSIVE MakeNative(_)
MakeNative(a) ==
  CASE Kind(a) = "NULL" -> Null
    [] Kind(a) = "BOOL" -> NativeBoolean(Content(a))
    [] Kind(a) = "N" -> NativeNumber(Content(a))
    [] Kind(a) = "B" -> FromBase64(Content(a))
    [] Kind(a) = "S" -> <<"string", Content(a)>>
    [] Kind(a) = "L" -> AllOf("array", [i \in DOMAIN Content(a) |-> MakeNative(Content(a)[i])])
    [] Kind(a) = "M" -> PairsOf("object", Content(a), MakeNative)
    [] IsIn(a, {"SS", "SN", "SB"}) -> NativeSet(Kind(a), Content(a))
    [] OTHER -> Throws

-----------------------------------------------------------------------------
(* Reference: a value that was stored may be read as n.  Containers keep their elements
   in order, bytes and numbers their content, a string in a byte set is base64, only what
   is empty may become null.  Three exceptions are the code's: of a view the whole buffer
   comes back; convertClassInstanceToMap may make a NoSQLByte, which is a class instance,
   a map of its properties, of which it has none; and a set with a number that is nan or
   huge is stored and cannot be read, and whatever contains it neither. *)
IsEmpty(v) ==
  \/ IsIn(v, {"string", "buffer"}) /\ Content(v) = ""
  \/ IsSet(v) /\ \A i \in DOMAIN Content(v) : Kind(Content(v)[i]) = "undefined"

SameNumber(v, n) == IsIn(n, {"number", "bigint"}) /\ Content(n) = Content(v)
BytesKept(v) == IF Kind(v) = "view" THEN "whole" ELSE Content(v)

SameBytes(v, n) == Kind(n) = "NoSQLByte" /\ Base64(n) = BytesKept(IF Kind(v) = "NoSQLByte" THEN Content(v) ELSE v)

RECURSIVE Unreadable(_)
Unreadable(v) ==
  CASE IsIn(v, {"array", "Set", "SN"}) ->
         \E i \in DOMAIN Content(v) :
           LET x == Content(v)[i] IN
           Unreadable(x) \/ (Kind(v) # "array" /\ Kind(x) = "number" /\ Content(x) \in {"nan", "huge"})
    [] IsIn(v, {"Map", "object", "instance"}) -> \E i \in DOMAIN Content(v) : Unreadable(Content(v)[i][2])
    [] OTHER -> FALSE

RECURSIVE ReadsAs(_, _)
ElementsReadAs(vs, ns) == Len(vs) = Len(ns) /\ \A i \in DOMAIN vs : ReadsAs(vs[i], ns[i])

PairsReadAs(vs, ns) ==
  LET NoFunction(p) == Kind(p[2]) # "function"
      stored == SelectSeq(vs, NoFunction)
  IN  /\ Len(stored) = Len(ns)
      /\ \A i \in DOMAIN ns : stored[i][1] = ns[i][1] /\ ReadsAs(stored[i][2], ns[i][2])

ReadsAs(v, n) ==
  CASE Kind(v) = "null" -> n = Null
    [] IsEmpty(v) /\ n = Null -> TRUE
    [] Kind(v) = "array" -> Kind(n) = "array" /\ ElementsReadAs(Content(v), Content(n))
    [] IsIn(v, {"Map", "object", "instance"}) -> Kind(n) = "object" /\ PairsReadAs(Content(v), Content(n))
    [] IsSet(v) -> IsIn(n, {"SS", "SN", "SB"}) /\ ElementsReadAs(Content(v), Content(n))
    [] IsBuffer(v) -> SameBytes(v, n)
    [] Kind(v) = "NoSQLByte" -> SameBytes(v, n) \/ n = <<"object", Properties(v)>>
    [] IsIn(v, {"number", "bigint"}) -> SameNumber(v, n)
    [] Kind(v) = "string" -> n = v \/ (Kind(n) = "NoSQLByte" /\ Base64(n) = Content(v))
    [] OTHER -> n = v
=============================================================================
