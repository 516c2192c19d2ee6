----------------------------- MODULE MCEventPath -----------------------------
(***************************************************************************)
(* The threads of the filesystem monitor and of a second monitor that      *)
(* stands for all others, and two webhooks, one of which asks for one kind *)
(* of security event only.  A temporary file is denied by the first rule   *)
(* of the filter, unless that is replaced by one of the same name with a   *)
(* low priority; a Modify rule may hide the path of a sensitive file.      *)
(* "repeated" is a rule of the user's that fires on the second event       *)
(* within its window, a sensitive file or a suspicious process; it may be  *)
(* replaced by one for processes only, with a shorter cooldown.            *)
(***************************************************************************)
EXTENDS EventPath

CONSTANTS t1, t2, h1, h2

MCHooks == <<h1, h2>>
MCInterest == [h \in {h1, h2} |-> IF h = h1 THEN {} ELSE {"SensitiveFileAccess"}]

MCRuleTable ==
  [ sensitive_file_access |->
      [DefaultRules.sensitive_file_access EXCEPT !.cooldown = 1],
    repeated |-> [Watch({"SensitiveFileAccess", "SuspiciousProcess"}, 2)
                    EXCEPT !.cooldown = 2] ]

MCDefinitions ==
  [ sensitive_file_access |-> {MCRuleTable.sensitive_file_access},
    repeated |-> {[Watch({"SuspiciousProcess"}, 2) EXCEPT !.cooldown = 1]} ]

MCInputs ==
  (t1 :> { [category |-> "Filesystem", marks |-> {"in /tmp", "suid set"}],
           [category |-> "Filesystem", marks |-> {"sensitive path"}] }) @@
  (t2 :> { [category |-> "Process", marks |-> {"suspicious name"}] })

MCAlerting == {e \in MCInputs[t1] : "in /tmp" \in e.marks}

\* The user's exception to ignore_temp_files.
Keep == [ignore_temp_files EXCEPT !.name = "keep", !.priority = 5, !.action = "Allow"]

MCFirstRules == <<ignore_temp_files, Keep>>

MCFilterRules ==
  { [ignore_temp_files EXCEPT !.priority = 1],
    [ignore_temp_files EXCEPT !.name = "relabel", !.priority = 20, !.action = "Modify",
                              !.marks = {}, !.hides = {"sensitive path"}] }
=============================================================================
