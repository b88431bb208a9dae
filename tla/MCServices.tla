----------------------------- MODULE MCServices -----------------------------
(* A small instance of Services: values of every kind that marshalling tells apart, and
   integers for what has an order. *)
EXTENDS Services

Num(c) == <<"number", c>>
Str(s) == <<"string", s>>
Bytes(b) == <<"buffer", b>>
SetOf(s) == <<"Set", s>>
Keyed(container, v) == <<container, <<<<"f", <<"function">>>>, <<"k", v>>>>>>

MCValues ==
  {Null, Num("nan"), <<"bigint", "small">>, <<"boolean", TRUE>>, Bytes("b"), Bytes(""),
   SetOf(<<>>), SetOf(<<Str("a"), Str("")>>), SetOf(<<Num("unsafe"), <<"bigint", "big">>>>),
   SetOf(<<Bytes("b")>>), SetOf(<<Str("a"), Num("small")>>), SetOf(<<<<"undefined">>, Str("a")>>),
   SetOf(<<<<"undefined">>>>), SetOf(<<<<"undefined">>, Bytes("b")>>), SetOf(<<Num("small"), Num("nan")>>),
   <<"view", "part">>, <<"big64", "b">>, SetOf(<<<<"view", "part">>, Null>>), SetOf(<<<<"view", "part">>>>),
   <<"array", <<SetOf(<<Num("huge")>>), <<"view", "part">>>>>>, Keyed("object", SetOf(<<Num("huge")>>)),
   <<"array", <<Str(""), Bytes(""), <<"boolean", FALSE>>>>>>, <<"array", <<SetOf(<<>>)>>>>,
   <<"array", <<Keyed("Map", Num("small")), <<"array", <<>>>>>>>>,
   Keyed("object", Str("")), Keyed("object", SetOf(<<>>)), Keyed("object", <<"undefined">>),
   Keyed("Map", <<"array", <<Num("small"), <<"wide", "w">>>>>>),
   Keyed("instance", Keyed("instance", <<"boolean", TRUE>>)), <<"function">>}

MCServerValues ==
  {<<"N", "big">>, <<"SN", <<<<"digits", "small">>, <<"digits", "big">>>>>>,
   <<"SB", <<<<"base64", "b">>>>>>}

MCKeys == 1..3
MCVersions == 1..2
MCRowIds == 1..4
MCPartSizes == {2, 3}
MCContents == 1..2
=============================================================================
