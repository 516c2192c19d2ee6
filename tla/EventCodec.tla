----------------------------- MODULE EventCodec -----------------------------
(***************************************************************************)
(* The text form of an event: core/event.cpp's names of categories and     *)
(* types, and storage.cpp's serialize_event and parse_event, which write   *)
(* an event as one line of nine fields and read it back.                   *)
(*                                                                         *)
(* A text is a sequence of symbols.  Only the symbols that the code treats *)
(* specially are single characters ("TAB", "NL", "|", "=", " "); a number, *)
(* a name, or any other character is a symbol of its own.                  *)
(***************************************************************************)
EXTENDS Naturals, SequencesExt

-----------------------------------------------------------------------------
\* Names of categories and types, and the separate tables that invert them.
category_name ==
  [ Filesystem |-> "filesystem", Process |-> "process", Network |-> "network",
    SystemConfig |-> "system_config", Hardware |-> "hardware",
    System |-> "system", Unknown |-> "unknown" ]

type_name ==
  [ FileCreated |-> "file_created", FileModified |-> "file_modified",
    FileDeleted |-> "file_deleted", FileMoved |-> "file_moved",
    FilePermissionChanged |-> "file_permission_changed",
    ProcessStarted |-> "process_started", ProcessStopped |-> "process_stopped",
    ProcessCpuSpike |-> "process_cpu_spike",
    ProcessMemorySpike |-> "process_memory_spike",
    NetworkConnectionOpened |-> "network_connection_opened",
    NetworkConnectionClosed |-> "network_connection_closed",
    NetworkBandwidthSpike |-> "network_bandwidth_spike",
    NetworkDnsQuery |-> "network_dns_query",
    ConfigValueChanged |-> "config_value_changed",
    ServiceStateChanged |-> "service_state_changed",
    UserLoggedIn |-> "user_logged_in", UserLoggedOut |-> "user_logged_out",
    UsbDeviceInserted |-> "usb_device_inserted",
    UsbDeviceRemoved |-> "usb_device_removed",
    DiskSpaceWarning |-> "disk_space_warning",
    DiskSpaceCritical |-> "disk_space_critical",
    DiskSpaceChanged |-> "disk_space_changed",
    SystemLoadHigh |-> "system_load_high",
    SystemLoadNormal |-> "system_load_normal",
    LogPatternMatched |-> "log_pattern_matched",
    LogAnomalyDetected |-> "log_anomaly_detected", Unknown |-> "unknown" ]

Category == DOMAIN category_name
Type == DOMAIN type_name

TypesOf ==
  [ Filesystem |-> {"FileCreated", "FileModified", "FileDeleted", "FileMoved",
                    "FilePermissionChanged"},
    Process |-> {"ProcessStarted", "ProcessStopped", "ProcessCpuSpike",
                 "ProcessMemorySpike"},
    Network |-> {"NetworkConnectionOpened", "NetworkConnectionClosed",
                 "NetworkBandwidthSpike", "NetworkDnsQuery"},
    SystemConfig |-> {"ConfigValueChanged", "ServiceStateChanged",
                      "UserLoggedIn", "UserLoggedOut"},
    Hardware |-> {"UsbDeviceInserted", "UsbDeviceRemoved"},
    System |-> {"DiskSpaceWarning", "DiskSpaceCritical", "DiskSpaceChanged",
                "SystemLoadHigh", "SystemLoadNormal", "LogPatternMatched",
                "LogAnomalyDetected"} ]

\* The category of a type; one that no case names is Unknown.
category_of(t) ==
  IF \E c \in DOMAIN TypesOf : t \in TypesOf[c]
    THEN CHOOSE c \in DOMAIN TypesOf : t \in TypesOf[c]
    ELSE "Unknown"

CategoryByName ==
  [ filesystem |-> "Filesystem", process |-> "Process", network |-> "Network",
    system_config |-> "SystemConfig", hardware |-> "Hardware",
    system |-> "System" ]

TypeByName ==
  [ file_created |-> "FileCreated", file_modified |-> "FileModified",
    file_deleted |-> "FileDeleted", file_moved |-> "FileMoved",
    file_permission_changed |-> "FilePermissionChanged",
    process_started |-> "ProcessStarted", process_stopped |-> "ProcessStopped",
    process_cpu_spike |-> "ProcessCpuSpike",
    process_memory_spike |-> "ProcessMemorySpike",
    network_connection_opened |-> "NetworkConnectionOpened",
    network_connection_closed |-> "NetworkConnectionClosed",
    network_bandwidth_spike |-> "NetworkBandwidthSpike",
    network_dns_query |-> "NetworkDnsQuery",
    config_value_changed |-> "ConfigValueChanged",
    service_state_changed |-> "ServiceStateChanged",
    user_logged_in |-> "UserLoggedIn", user_logged_out |-> "UserLoggedOut",
    usb_device_inserted |-> "UsbDeviceInserted",
    usb_device_removed |-> "UsbDeviceRemoved",
    disk_space_warning |-> "DiskSpaceWarning",
    disk_space_critical |-> "DiskSpaceCritical",
    disk_space_changed |-> "DiskSpaceChanged",
    system_load_high |-> "SystemLoadHigh",
    system_load_normal |-> "SystemLoadNormal",
    log_pattern_matched |-> "LogPatternMatched",
    log_anomaly_detected |-> "LogAnomalyDetected" ]

\* What a field of the text, a sequence of symbols, means in table T.
Lookup(T, field, default) ==
  IF Len(field) = 1 /\ field[1] \in DOMAIN T THEN T[field[1]] ELSE default

category_from_name(field) == Lookup(CategoryByName, field, "Unknown")
type_from_name(field) == Lookup(TypeByName, field, "Unknown")

-----------------------------------------------------------------------------
TAB == "TAB"
NL == "NL"

\* The spelling of a time stamp in milliseconds; a time stamp is 1, 2, ...
Digits == <<"1ms", "2ms", "3ms">>
Timestamp == DOMAIN Digits

\* The time of the reader, later than every time stamp written before: what
\* Event's default initialiser gives an event whose line cannot be parsed.
Now == Len(Digits) + 1

\* The keys of an event's attributes are fixed words, in std::map's order.
Keys == << <<"new_value">>, <<"old_value">> >>

\* The fields of an Event; host and platform are fixed words.
IsEvent(e) ==
  /\ e = [timestamp |-> e.timestamp, category |-> e.category, type |-> e.type,
          source |-> e.source, target |-> e.target, attributes |-> e.attributes,
          summary |-> e.summary]
  /\ e.timestamp \in Timestamp /\ e.category \in Category /\ e.type \in Type
  /\ DOMAIN e.attributes \subseteq ToSet(Keys)
  /\ e.attributes = [k \in DOMAIN e.attributes |-> e.attributes[k]]
  /\ \A t \in {e.source, e.target, e.summary} \cup Range(e.attributes) : t \in Seq(ToSet(t))

\* key=value for the attributes that are there, joined with "||".
AttributesLine(attrs) ==
  LET Pair(k) == IF k \in DOMAIN attrs THEN k \o <<"=">> \o attrs[k] ELSE <<>>
      bar == IF ToSet(Keys) \subseteq DOMAIN attrs THEN <<"|", "|">> ELSE <<>>
  IN  Pair(Keys[1]) \o bar \o Pair(Keys[2])

\* Line breaks become spaces, in the attributes and in the summary only.
OneLine(text) == ReplaceAll(text, NL, " ")

\* The fields up to the attributes, each with the tab that ends it.
HeadFields(e) ==
  <<Digits[e.timestamp], TAB, category_name[e.category], TAB, type_name[e.type], TAB>>
  \o e.source \o <<TAB>> \o e.target \o <<TAB, "host", TAB, "platform", TAB>>

\* Mutant: line breaks of the attributes are kept.
MutantSerialize(e) ==
  HeadFields(e) \o AttributesLine(e.attributes) \o <<TAB>> \o OneLine(e.summary)

serialize_event(e) ==
  HeadFields(e) \o OneLine(AttributesLine(e.attributes)) \o <<TAB>> \o OneLine(e.summary)

\* One symbol of a line: a tab ends a token.
CutOne(s, c) ==
  IF c = TAB THEN [tokens |-> Append(s.tokens, s.token), token |-> <<>>]
             ELSE [tokens |-> s.tokens, token |-> Append(s.token, c)]

\* The line cut at its tabs; the token after the last tab counts too.
Split(line) ==
  LET cut[n \in 0..Len(line)] ==
        IF n = 0 THEN [tokens |-> <<>>, token |-> <<>>] ELSE CutOne(cut[n - 1], line[n])
      end == cut[Len(line)]
  IN  Append(end.tokens, end.token)

\* The attributes with one more, or with another value.
Put(map, key, value) ==
  [k \in DOMAIN map \cup {key} |-> IF k = key THEN value ELSE map[k]]

PairAt(text, i) == text[i] = "|" /\ i < Len(text) /\ text[i + 1] = "|"

\* One turn of the loop over the attributes' text: "||" ends an attribute and
\* is skipped whole (next is the place to go on), the first "=" of an attribute
\* ends its key.
AttributeOne(s, text, i) ==
  IF i < s.next THEN s
  ELSE IF PairAt(text, i)
    THEN IF s.key = <<>> THEN [map |-> s.map, key |-> <<>>, cur |-> s.cur, next |-> i + 2]
         ELSE [map |-> Put(s.map, s.key, s.cur), key |-> <<>>, cur |-> <<>>, next |-> i + 2]
  ELSE IF s.key = <<>> /\ text[i] = "="
    THEN [map |-> s.map, key |-> s.cur, cur |-> <<>>, next |-> s.next]
  ELSE [map |-> s.map, key |-> s.key, cur |-> Append(s.cur, text[i]), next |-> s.next]

ParseAttributes(text) ==
  LET after[i \in 0..Len(text)] ==
        IF i = 0 THEN [map |-> <<>>, key |-> <<>>, cur |-> <<>>, next |-> 1]
        ELSE AttributeOne(after[i - 1], text, i)
      end == after[Len(text)]
  IN  IF end.key = <<>> THEN end.map ELSE Put(end.map, end.key, end.cur)

DefaultEvent ==
  [timestamp |-> Now, category |-> "Unknown", type |-> "Unknown",
   source |-> <<>>, target |-> <<>>, attributes |-> <<>>, summary |-> <<>>]

\* std::stoll reads the number a field begins with; the event keeps the time
\* of parsing when there is none.
TimeOf(field) ==
  IF field # <<>> /\ \E t \in Timestamp : field[1] = Digits[t]
    THEN CHOOSE t \in Timestamp : field[1] = Digits[t]
    ELSE Now

parse_event(line) ==
  LET tokens == Split(line)
  IN  IF Len(tokens) < 9 THEN DefaultEvent
      ELSE [timestamp |-> TimeOf(tokens[1]),
            category |-> category_from_name(tokens[2]),
            type |-> type_from_name(tokens[3]),
            source |-> tokens[4], target |-> tokens[5],
            attributes |-> ParseAttributes(tokens[8]), summary |-> tokens[9]]

\* The end of a line in FileStorage::iterate: the event goes to the callback.
Handed(reader) ==
  IF reader.line = <<>> THEN reader.events ELSE Append(reader.events, parse_event(reader.line))

\* std::getline's loop over the file: the line begun and the events handed
\* over when so many of its characters have been read.
Scanned(text) ==
  LET reader[n \in 0..Len(text)] ==
        IF n = 0 THEN [line |-> <<>>, events |-> <<>>]
        ELSE IF text[n] = NL THEN [line |-> <<>>, events |-> Handed(reader[n - 1])]
        ELSE [reader[n - 1] EXCEPT !.line = Append(@, text[n])]
  IN  reader

\* What iterate hands to its callback, in file order: the last line counts
\* without its line break.
Iterated(text) == Handed(Scanned(text)[Len(text)])

-----------------------------------------------------------------------------
\* What storing an event may at most change: line breaks of the fields that
\* are flattened.
Flattened(e) ==
  [e EXCEPT !.summary = OneLine(@),
            !.attributes = [k \in DOMAIN @ |-> OneLine(@[k])]]

Has(text, part) ==
  \E i \in 0..Len(text) - Len(part) : SubSeq(text, i + 1, i + Len(part)) = part

\* The events whose fields contain no separator: no tab, no line break in
\* source or target, no "||" in a value, and no value that ends in "|" and is
\* followed by another attribute.
Clean(e) ==
  /\ \A f \in {e.source, e.target} : ~Contains(f, TAB) /\ ~Contains(f, NL)
  /\ ~Contains(e.summary, TAB)
  /\ \A k \in DOMAIN e.attributes :
       LET v == e.attributes[k]
       IN  /\ ~Contains(v, TAB)
           /\ ~Has(v, <<"|", "|">>)
           /\ v # <<>> /\ Last(v) = "|" => k = Keys[2] \/ Keys[2] \notin DOMAIN e.attributes
=============================================================================
