--------------------------- MODULE ConfigValidator --------------------------
(***************************************************************************)
(* validate/config_validator.cpp beside the store it vouches for: a file   *)
(* is written, checked with --validate-config and then loaded.  The        *)
(* validator parses the file by itself; it never asks ConfigStore.         *)
(*                                                                         *)
(* One setting stands for each kind of check that decides about errors: a  *)
(* poll interval, a switch, and the two disk thresholds.  The checks of    *)
(* port numbers and of the webhook's address are left out.                 *)
(***************************************************************************)
EXTENDS ConfigStore

CONSTANTS
  Lines,      \* bound: lines a file may have
  MaxLines    \* bound: how many

ASSUME ConfigAssumption ==
  /\ IntMax \in Nat
  /\ \A line \in Lines : line \in Seq(ToSet(line))

IntervalKey == <<"interval">>
SwitchKey == <<"switch">>
WarningKey == <<"warning">>
CriticalKey == <<"critical">>
known_keys == {IntervalKey, SwitchKey, WarningKey, CriticalKey}

\* The constructor's values.
Defaults == [key \in {IntervalKey} |-> <<"d7", "d0">>]

VARIABLES
  iniLines,     \* the file
  storeAt,      \* "write", "validated" or "loaded"
  verdict,      \* the validator's values and whether it found an error
  storeValues   \* ConfigStore::values_

storeVars == <<iniLines, storeAt, verdict, storeValues>>

StoreTypeOK ==
  /\ storeAt \in {"write", "validated", "loaded"}
  /\ verdict.error \in BOOLEAN
  /\ DOMAIN Defaults \subseteq DOMAIN storeValues

StoreInit ==
  /\ iniLines = <<>>
  /\ storeAt = "write"
  /\ verdict = [values |-> <<>>, error |-> FALSE]
  /\ storeValues = Defaults

WriteLine(line) ==
  /\ storeAt = "write"
  /\ Len(iniLines) < MaxLines
  /\ iniLines' = Append(iniLines, line)
  /\ UNCHANGED <<storeAt, verdict, storeValues>>

-----------------------------------------------------------------------------
\* is_valid_int: no limit on the number of digits.
IsValidInt(v) == HasNumber(v) /\ Len(DigitsOf(v)) = Len(v) - (IF Signed(v) THEN 1 ELSE 0)

ValidValue(key, v) ==
  IF key = IntervalKey THEN IsValidInt(v)
  ELSE IF key = SwitchKey THEN v \in {<<"on">>, <<"off">>}
  ELSE IsDouble(v)

\* Mutant: the first line of a key counts.
MutantParsed(lines) ==
  [key \in KeysOf(lines) |->
     LineValue(lines[Min({i \in DOMAIN lines : IsSetting(lines[i]) /\ LineKey(lines[i]) = key})])]

\* The validator's own reading of the file: nothing is unescaped.
Parsed(lines) == [key \in KeysOf(lines) |-> LineValue(LineOf(lines, key))]

\* A line that is neither a comment nor a setting.
SyntaxError(lines) == \E i \in DOMAIN lines : ~Comment(lines[i]) /\ ~IsSetting(lines[i])

TypeError(values) ==
  \E key \in DOMAIN values \cap known_keys : ~ValidValue(key, values[key])

\* semantic_checks, the ones that are errors.  A number std::stoi refuses is
\* passed over.
SemanticError(values) ==
  \/ /\ {WarningKey, CriticalKey} \subseteq DOMAIN values
     /\ \A key \in {WarningKey, CriticalKey} : IsDouble(values[key])
     /\ \E w \in Double(values[WarningKey]), c \in Double(values[CriticalKey]) : w >= c
  \/ get_int(values, IntervalKey, 0) < 0

Validate ==
  /\ storeAt = "write"
  /\ storeAt' = "validated"
  /\ LET values == Parsed(iniLines)
     IN  verdict' = [values |-> values,
                     error |-> SyntaxError(iniLines) \/ TypeError(values) \/ SemanticError(values)]
  /\ UNCHANGED <<iniLines, storeValues>>

Load ==
  /\ storeAt = "validated"
  /\ storeAt' = "loaded"
  /\ storeValues' = load(storeValues, iniLines)
  /\ UNCHANGED <<iniLines, verdict>>

StoreRest == storeAt = "loaded" /\ UNCHANGED storeVars

StoreNext ==
  \/ \E line \in Lines : WriteLine(line)
  \/ Validate \/ Load \/ StoreRest

-----------------------------------------------------------------------------
(* Properties.                                                             *)

\* The file's own setting of key is the number n.
Says(key, n) == key \in DOMAIN verdict.values /\ Number(verdict.values[key]) = n

\* It has no backslash.
AsWritten(key) == ~Contains(verdict.values[key], "bs")

(***************************************************************************)
(* A file the validator passes is honoured: every setting it saw is in the *)
(* store, an interval as the number written (unless too large for an int,  *)
(* which the validator does not notice) and never negative, a switch as    *)
(* the word says, a threshold as the validator read it unless it has a     *)
(* backslash (load reads 7\1 as 71, the validator as 7), and two such      *)
(* thresholds in their order unless one of them is nan, which both take    *)
(* for a number and the check of the order passes over.                    *)
(***************************************************************************)
ValidatedMeansHonoured ==
  storeAt = "loaded" /\ ~verdict.error =>
    /\ \A key \in DOMAIN verdict.values : storeValues[key] = Unescape(verdict.values[key])
    /\ \A n \in 0..IntMax : Says(IntervalKey, n) => get_int(storeValues, IntervalKey, -1) = n
    /\ IntervalKey \in DOMAIN verdict.values => get_int(storeValues, IntervalKey, 0) >= 0
    /\ SwitchKey \in DOMAIN verdict.values =>
         get_bool(storeValues, SwitchKey, TRUE) = get_bool(storeValues, SwitchKey, FALSE)
    /\ \A key \in {WarningKey, CriticalKey} \cap DOMAIN verdict.values :
         AsWritten(key) => get_double(storeValues, key, {0}) = Double(verdict.values[key])
    /\ /\ {WarningKey, CriticalKey} \subseteq DOMAIN verdict.values
       /\ \A key \in {WarningKey, CriticalKey} :
            AsWritten(key) /\ ~IsNaN(verdict.values[key])
       => \E w \in get_double(storeValues, WarningKey, {0}),
             c \in get_double(storeValues, CriticalKey, {0}) : w < c

=============================================================================
