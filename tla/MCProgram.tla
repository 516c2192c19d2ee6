------------------------------ MODULE MCProgram -----------------------------
(***************************************************************************)
(* Instances for the parts of Program; the events and queries are those of *)
(* MCEventQuery, the monitors those of MCSession.                          *)
(***************************************************************************)
EXTENDS Program, MCEventQuery, MCSession

\* A process alone; two whose PIDs look the same and whose memory ties; three,
\* one too many for the snapshot.  Connections that share their addresses.
MCHosts ==
  {[processes |-> p, connections |-> c] :
     p \in {9 :> 3, 11 :> 14 @@ 12 :> 14, 9 :> 3 @@ 11 :> 14 @@ 12 :> 15},
     c \in {{<<1, 1>>}, {<<1, 1>>, <<2, 1>>}}}
MCProtocol == <<1, 2>>

\* Values with every arrangement of space, backslash and n; numbers plain,
\* negative, with rubbish behind, with a backslash, too large, nan; lines that are
\* no settings.
MCValues == UNION {[1..n -> {"sp", "bs", "n"}] : n \in 0..3}
MCNumbers ==
  {<<>>, <<"d7">>, <<"sp", "d7", "d0">>, <<"d7", "d0", "d0">>, <<"-", "d7">>, <<"-">>,
   <<"d7", "on">>, <<"d7", "bs", "d1">>, <<"n", "a", "n">>, <<"off">>, <<"on", "sp">>}
MCLines ==
  {<<"sp", "word", "=">> \o v : v \in MCValues}
  \cup {<<k, "sp", "=", "sp">> \o v :
          v \in MCNumbers, k \in {"interval", "switch", "warning", "critical"}}
  \cup {<<"sp">>, <<"#", "switch", "=", "off">>, <<"switch">>, <<"sp", "=", "on">>}

\* Lengths, a part of two digits, a part that is no number.
MCVersions ==
  {<<1>>, <<1, 0>>, <<1, 9>>, <<1, 10>>, <<1, -1, 1>>, <<2>>, <<1, 9, 1>>, <<0, 10, 2>>}
=============================================================================
