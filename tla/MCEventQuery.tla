---------------------------- MODULE MCEventQuery ----------------------------
(***************************************************************************)
(* Events and queries for model-checking EventQuery.  Every type of event  *)
(* is stored once by itself; separators are tried in every field, next to  *)
(* two plain events of different times.                                    *)
(***************************************************************************)
EXTENDS EventQuery

Make(time, type, source, target, attributes, summary) ==
  [timestamp |-> time, category |-> category_of(type), type |-> type,
   source |-> source, target |-> target, attributes |-> attributes,
   summary |-> summary]

Plain(time, type) == Make(time, type, <<"A">>, <<"a">>, <<>>, <<>>)

Texts == {<<"a", "TAB">>, <<"NL">>, <<"a", "NL", "TAB">>, <<"NL", "NL">>}
Values == {<<>>, <<"a">>, <<"|">>, <<"|", "|">>, <<"a", "|", "|", "a">>,
           <<"|", "=">>, <<"NL">>, <<"TAB">>}

Odd ==
  {Make(2, "ProcessStarted", f, <<"a">>, <<>>, <<"a">>) : f \in Texts}
  \cup {Make(2, "ProcessStarted", <<"a">>, f, <<>>, <<"a">>) : f \in Texts}
  \cup {Make(2, "ProcessStarted", <<"a">>, <<>>, <<>>, f) : f \in Texts}
  \cup {Make(1, "ConfigValueChanged", <<"a">>, <<>>, [k \in {Keys[i] : i \in ks} |-> v], <<>>) :
          v \in Values, ks \in {{1}, {2}, {1, 2}}}

MCPools ==
  {{Plain(1, t)} : t \in Type}
  \cup {{o, Plain(2, "FileCreated"), Plain(3, "ProcessStopped")} : o \in Odd}

Ask == [category |-> "", source |-> <<>>, keyword |-> <<>>, from |-> 0, to |-> 0,
        limit |-> 1]

MCOptions ==
  {Ask, [Ask EXCEPT !.limit = 2], [Ask EXCEPT !.limit = 0],
   [Ask EXCEPT !.category = "PROCESS"], [Ask EXCEPT !.category = "systemconfig"],
   [Ask EXCEPT !.source = <<"a">>], [Ask EXCEPT !.keyword = <<"A">>],
   [Ask EXCEPT !.from = 2], [Ask EXCEPT !.to = 2]}
=============================================================================
