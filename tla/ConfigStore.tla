----------------------------- MODULE ConfigStore ----------------------------
(***************************************************************************)
(* config/config_store.cpp: the text of config.ini and the typed values    *)
(* read out of it.  Text is a sequence of tokens, one per character that   *)
(* the code tells apart:                                                   *)
(*   "sp"        white space              "bs"   the backslash             *)
(*   "nl"        a line break in a value; "n" stands for it after a        *)
(*               backslash (r and t work alike and are left out)           *)
(*   "=" "#"     as written (; works as # does)                            *)
(*   "-" and digits; anything else is a word, "on" and "off" among them,   *)
(*   but for "nan", which is spelled out: "n", "a", "n"                    *)
(* A file is a sequence of lines.                                          *)
(***************************************************************************)
EXTENDS Integers, Sequences, SequencesExt

CONSTANT IntMax   \* INT_MAX

Digit == [d0 |-> 0, d1 |-> 1, d7 |-> 7]

IsSpace(c) == c \in {"sp", "nl"}

\* trim
Trim(s) ==
  LET solid == {i \in DOMAIN s : ~IsSpace(s[i])}
  IN  IF solid = {} THEN <<>> ELSE SubSeq(s, Min(solid), Max(solid))

\* unescape: a backslash at the very end stays.
UnescapeOne(u, c) ==
  IF u.escaped
  THEN [out |-> Append(u.out, IF c = "n" THEN "nl" ELSE c), escaped |-> FALSE]
  ELSE IF c = "bs" THEN [out |-> u.out, escaped |-> TRUE]
  ELSE [out |-> Append(u.out, c), escaped |-> FALSE]

Unescape(s) ==
  LET after[i \in 0..Len(s)] ==
        IF i = 0 THEN [out |-> <<>>, escaped |-> FALSE] ELSE UnescapeOne(after[i - 1], s[i])
      end == after[Len(s)]
  IN  IF end.escaped THEN Append(end.out, "bs") ELSE end.out

Comment(line) == Trim(line) = <<>> \/ Head(Trim(line)) = "#"
HasEquals(line) == Contains(Trim(line), "=")
FirstEquals(s) == Min({i \in DOMAIN s : s[i] = "="})

\* Key and raw value of a line with an equals sign.
LineKey(line) == LET s == Trim(line) IN Trim(SubSeq(s, 1, FirstEquals(s) - 1))
LineValue(line) == LET s == Trim(line) IN Trim(SubSeq(s, FirstEquals(s) + 1, Len(s)))

IsSetting(line) == ~Comment(line) /\ HasEquals(line) /\ LineKey(line) # <<>>

\* The keys a file sets, and the line of a key that counts: the last one.
KeysOf(lines) == {LineKey(lines[i]) : i \in {j \in DOMAIN lines : IsSetting(lines[j])}}
LineOf(lines, key) ==
  lines[Max({i \in DOMAIN lines : IsSetting(lines[i]) /\ LineKey(lines[i]) = key})]

\* load: the settings of the file over those the store has.
load(values, lines) ==
  [key \in DOMAIN values \cup KeysOf(lines) |->
     IF key \in KeysOf(lines) THEN Unescape(LineValue(LineOf(lines, key))) ELSE values[key]]

-----------------------------------------------------------------------------
\* The digits after an optional sign, as far as they go.
Signed(v) == v # <<>> /\ Head(v) = "-"
Unsigned(v) == IF Signed(v) THEN Tail(v) ELSE v
DigitsOf(v) ==
  LET body == Unsigned(v)
      stops == {i \in DOMAIN body : body[i] \notin DOMAIN Digit}
  IN  IF stops = {} THEN body ELSE SubSeq(body, 1, Min(stops) - 1)

ValueOf(digits) ==
  LET value[i \in 0..Len(digits)] ==
        IF i = 0 THEN 0 ELSE 10 * value[i - 1] + Digit[digits[i]]
  IN  value[Len(digits)]

Number(v) == IF Signed(v) THEN -ValueOf(DigitsOf(v)) ELSE ValueOf(DigitsOf(v))

\* std::stoi of a text without white space in front: no digits, no number.
HasNumber(v) == DigitsOf(v) # <<>>

\* std::stod takes "nan", too, whatever follows it.  A double is the set of its
\* one value, empty for NaN: no comparison with NaN is true.
IsNaN(v) == IsPrefix(<<"n", "a", "n">>, Unsigned(v))
IsDouble(v) == HasNumber(v) \/ IsNaN(v)
Double(v) == IF IsNaN(v) THEN {} ELSE {Number(v)}

\* get_int: what std::stoi refuses becomes the default.
get_int(values, key, default) ==
  IF key \in DOMAIN values /\ HasNumber(Trim(values[key]))
     /\ Number(Trim(values[key])) \in -IntMax - 1..IntMax
  THEN Number(Trim(values[key]))
  ELSE default

get_double(values, key, default) ==
  IF key \in DOMAIN values /\ IsDouble(Trim(values[key]))
  THEN Double(Trim(values[key]))
  ELSE default

get_bool(values, key, default) ==
  IF key \in DOMAIN values /\ values[key] \in {<<"on">>, <<"off">>}
  THEN values[key] = <<"on">>
  ELSE default

=============================================================================
