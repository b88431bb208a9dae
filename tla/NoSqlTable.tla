------------------------------ MODULE NoSqlTable ------------------------------
(***************************************************************************)
(* NoSQLItem, NoSQLTable and NoSQLResponse of packages/nosql: an           *)
(* application fills an item, writes it to the table, reads it back and    *)
(* writes on what it read.  One attribute of one item stands for all.  A   *)
(* request holds the item itself, which is turned into JSON when the       *)
(* request is made, after the awaits of send().                            *)
(***************************************************************************)
EXTENDS NoSqlValues

CONSTANTS
  Values,        (* native values that the application adds                 *)
  ServerValues,  (* attributes that other clients of the table have written *)
  MaxWrites      (* bound on the requests that write                        *)

VARIABLES
  item,     (* the application's item: its attribute (NoAttribute when it has none), the
               value it was made of, and whether it is as a response has it           *)
  write,  (* insertItems() or updateItems(): how far it is, and whether the item has
               changed since the call                                                *)
  row,      (* the attribute in the table and, as history, the value it stands for   *)
  writes

tableVars == <<item, write, row, writes>>

NoAttribute == <<"undefined">>
NoValue == <<"undefined">>
NewItem == [attribute |-> NoAttribute, of |-> NoValue, read |-> FALSE]
NoWrite == [operation |-> "none", edited |-> FALSE]

TableInit ==
  /\ item = NewItem
  /\ write = NoWrite
  /\ row = [attribute |-> NoAttribute, of |-> NoValue]
  /\ writes = 0

-----------------------------------------------------------------------------
(* The typed adders of NoSQLItem: no options, and no look at the value but its type's. *)
Typed(v) ==
  CASE Kind(v) = "null" -> MakeNull
    [] Kind(v) = "string" -> MakeString(v)
    [] IsIn(v, {"number", "bigint"}) -> MakeNumber(v)
    [] IsBuffer(v) \/ Kind(v) = "NoSQLByte" -> MakeByte(v)
    [] Kind(v) = "boolean" -> MakeBoolean(v)
    [] Kind(v) = "array" -> MakeList(v)
    [] OTHER -> Throws

(* addMap() and addSet() take options; addStringSet(), addNumberSet(), addByteSet() do not. *)
TypedMap(v, o) == IF IsIn(v, {"Map", "object"}) THEN MakeMap(Content(v), o) ELSE Throws

AnySet(v, o) == IF IsSet(v) THEN MakeSet(v, o) ELSE Throws

TypedSet(type, v) == IF IsSet(v) THEN MakeTypedSet(type, v) ELSE Throws

(* What a call that adds v may leave in the item: add() and from() with any options, or
   an adder for the type. *)
Attributes(v) ==
  {Make(v, o) : o \in Options} \cup {TypedMap(v, o) : o \in Options}
    \cup {AnySet(v, o) : o \in Options} \cup {Typed(v)} \cup {TypedSet(type, v) : type \in {"SS", "SN", "SB"}}

Edited == write' = [write EXCEPT !.edited = write.operation \in {"insert", "update"}]

(* An adder throws, and leaves the item alone, or sets the attribute. *)
AddValue(v) ==
  \E a \in Attributes(v) \ {Throws} :
    /\ item' = [attribute |-> a, of |-> v, read |-> FALSE]
    /\ Edited
    /\ UNCHANGED <<row, writes>>

(* addRaw(): an attribute in the form of the server, taken without any conversion. *)
AddRaw ==
  /\ \E a \in ServerValues : item' = [attribute |-> a, of |-> MakeNative(a), read |-> TRUE]
  /\ Edited
  /\ UNCHANGED <<row, writes>>

(* remove() *)
RemoveValue ==
  /\ item.attribute # NoAttribute /\ item' = NewItem
  /\ Edited
  /\ UNCHANGED <<row, writes>>

-----------------------------------------------------------------------------
(* insertItems() and updateItems(): the arguments are checked, and the request waits for
   the token of send() with the item in hand. *)
CallWrite(operation) ==
  /\ write = NoWrite /\ writes < MaxWrites /\ item.attribute # NoAttribute
  /\ write' = [operation |-> operation, edited |-> FALSE]
  /\ writes' = writes + 1
  /\ UNCHANGED <<item, row>>

(* What an item holds when it becomes JSON.  Attributes of a response are JSON already. *)
ToJSON == IF item.read THEN item.attribute ELSE Wire(item.attribute)

(* The request leaves: what the item holds by now is written. *)
SendWrite ==
  /\ write.operation \in {"insert", "update"}
  /\ item.attribute # NoAttribute /\ ToJSON # Throws
  /\ row' = [attribute |-> ToJSON, of |-> item.of]
  /\ write' = [write EXCEPT !.operation = "sent"]
  /\ UNCHANGED <<item, writes>>

(* The item lost its attribute before the request left, cannot be JSON, or the request
   fails. *)
WriteFails ==
  /\ write.operation \in {"insert", "update"}
  /\ write' = NoWrite
  /\ UNCHANGED <<item, row, writes>>

(* The answer to a write: a response with the new item, which the application may go on
   with or not. *)
Written ==
  /\ write.operation = "sent"
  /\ write' = NoWrite
  /\ \/ UNCHANGED item
     \/ item' = [attribute |-> row.attribute, of |-> row.of, read |-> TRUE]
  /\ UNCHANGED <<row, writes>>

(* fetchItem(), queryTable() and queryIndex() answer with NoSQLItems made of the attributes. *)
FetchItem ==
  /\ write = NoWrite /\ row.attribute # NoAttribute
  /\ item' = [attribute |-> row.attribute, of |-> row.of, read |-> TRUE]
  /\ UNCHANGED <<write, row, writes>>

(* deleteItems() *)
DeleteItem ==
  /\ write = NoWrite /\ row.attribute # NoAttribute
  /\ row' = [attribute |-> NoAttribute, of |-> NoValue]
  /\ UNCHANGED <<item, write, writes>>

(* Another client of the table, which other SDKs write to as well. *)
OtherClient ==
  /\ \E a \in ServerValues : row' = [attribute |-> a, of |-> MakeNative(a)]
  /\ UNCHANGED <<item, write, writes>>

(* The application takes the values out of an item that it read, and writes them again:
   from(item.to()). *)
AddAgain ==
  /\ item.read
  /\ LET v == MakeNative(item.attribute) IN v # Throws /\ AddValue(v)

TableNext ==
  \/ \E v \in Values : AddValue(v)
  \/ AddRaw
  \/ RemoveValue
  \/ \E operation \in {"insert", "update"} : CallWrite(operation)
  \/ SendWrite
  \/ WriteFails
  \/ Written
  \/ FetchItem
  \/ DeleteItem
  \/ OtherClient
  \/ AddAgain

-----------------------------------------------------------------------------
(* The typed getters of NoSQLItem on an attribute that the server sent. *)
GetTyped(type) ==
  LET a == item.attribute IN
  CASE type = "BOOL" -> IF a = NoAttribute THEN Throws ELSE <<"boolean", Kind(a) = type /\ Content(a) = "true">>
    [] Kind(a) # type -> NoValue
    [] type = "NULL" -> Null
    [] type = "S" -> <<"string", Content(a)>>
    [] type = "N" -> NativeNumber(Content(a))
    [] type = "B" -> FromBase64(Content(a))
    [] type \in {"SS", "SN", "SB"} -> NativeSet(type, Content(a))
    [] OTHER -> MakeNative(a)

(* Whatever is written, by whichever adder, over any number of readings and writings of
   what was read, reads as the value that was given: containers keep their elements, sets
   their type, numbers and bytes what they hold, but for the exceptions of ReadsAs; and
   the typed getter agrees with get(). *)
RoundTrip ==
  item.read =>
    LET n == MakeNative(item.attribute) IN
    /\ IF Unreadable(item.of) THEN n = Throws ELSE ReadsAs(item.of, n)
    /\ GetTyped(Kind(item.attribute)) = n

(* "Make a number or bigint value from NoSQL Number attribute": what was written can be
   read.  The code violates it: NoSQLNumberSet.add() does not look at what isValidNumber()
   answers, and of nan or 1e21 no bigint can be made. *)
Readable == item.read => MakeNative(item.attribute) # Throws

(* toJSON() of a NoSQLByte is the "base64 encoded string of the NoSQLByte".  The code
   violates it: of a typed array that shows a part of an ArrayBuffer all of it is kept. *)
BytesAsGiven ==
  item.read /\ Kind(item.of) = "view" => Base64(MakeNative(item.attribute)) = Content(item.of)

(* NoSQLUnMarshall makes "native or near-native" values and NoSQLMarshall.make() takes
   TNoSQLValues, NoSQLByte, NoSQLByteSet and bigint among them: what was read can be
   written again.  The code violates it for all three. *)
WritableAgain ==
  item.read => LET v == MakeNative(item.attribute) IN v = Throws \/ Make(v, NoOptions) # Throws

(* "Whether to remove undefined values while serializing." (MarshallOptions): an object
   is made without them.  The code violates it: makeMap() tests the object for undefined
   in place of its values. *)
RemovesUndefined ==
  \A v \in Values :
    Kind(v) = "object" /\ (\A i \in DOMAIN Content(v) : Kind(Content(v)[i][2]) \in {"undefined", "function"})
      => Make(v, [NoOptions EXCEPT !.removeUndefinedValues = TRUE]) # Throws

(* A write sends the item that the caller passed, as it was then.  The code violates it
   when the application goes on with the item while send() waits for a token. *)
SentAsCalled == write.operation = "sent" => ~write.edited
=============================================================================
