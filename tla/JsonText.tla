------------------------------ MODULE JsonText ------------------------------
(***************************************************************************)
(* json_print_string (json.c:35-142), one turn of its loops a step, and    *)
(* the text with the address of the station for which                      *)
(* wifi_manager_generate_ip_info_json calls it, put together in a buffer   *)
(* of JSON_IP_INFO_SIZE bytes (manager.c:267-313).                         *)
(*                                                                         *)
(* A character is what the printer tells apart: "plain" is copied, "short" *)
(* becomes a backslash and a character, "control" one of the \u00XX.       *)
(***************************************************************************)
EXTENDS Layout

CONSTANTS
    Names,      \* what config->sta.ssid may hold
    Passwords,  \* what lies behind it
    Addresses   \* how long the fields behind the name may be

Characters == {"plain", "short", "control"}

ASSUME NamesAssumption == Names \subseteq Seq(Characters)
ASSUME PasswordsAssumption == Passwords \subseteq Seq(Characters)
ASSUME AddressesAssumption == Addresses \subseteq Nat

VARIABLES
    input,      \* what the printer reads, up to the terminator
    read,       \* input_pointer: how many characters it has passed
    escapes,    \* escape_characters
    output,     \* output_buffer: what has been written, by its place
    put,        \* output_pointer
    pass,       \* "count", "copy", "printed", then "done"
    info        \* the whole text: its bytes, and whether it ends as it should

jsonVars == <<input, read, escapes, output, put, pass, info>>

SsidSize == 32      \* sizeof(config->sta.ssid), the password follows it

\* A name that fills its array is not terminated: the printer reads on into
\* the password.
SsidAsRead(ssid, password) == IF Len(ssid) < SsidSize THEN ssid
                                                      ELSE ssid \o password

Nothing == [k \in {} |-> "end"]
NoInfo  == [behind |-> 0, bytes |-> 0, whole |-> FALSE]

JsonInit == /\ \E ssid \in Names, password \in Passwords :
                  input = SsidAsRead(ssid, password)
            /\ read = 0 /\ escapes = 0 /\ output = Nothing /\ put = 0
            /\ pass = "count" /\ info = NoInfo

----------------------------------------------------------------------------
\* Mutated form of ExtraFor: the backslash of \u00XX is not counted.
ExtraForDigits(c) == CASE c = "plain" -> 0 [] c = "short" -> 1 [] c = "control" -> 4

\* The first pass: how long the string will be.
ExtraFor(c) == CASE c = "plain" -> 0 [] c = "short" -> 1 [] c = "control" -> 5

Count == /\ pass = "count" /\ read < Len(input)
         /\ escapes' = escapes + ExtraFor(input[read + 1])
         /\ read' = read + 1
         /\ UNCHANGED <<input, output, put, pass, info>>

OutputLength == Len(input) + escapes

Store(o, place, cells) ==
    [k \in DOMAIN o \cup place..(place + Len(cells) - 1) |->
        IF k \in place..(place + Len(cells) - 1) THEN cells[k - place + 1] ELSE o[k]]

\* Nothing has to be escaped: memcpy.
PrintPlain ==
    /\ pass = "count" /\ read = Len(input) /\ escapes = 0
    /\ output' = Store(output, 0, <<"quote">> \o input \o <<"quote", "end">>)
    /\ pass' = "printed"
    /\ UNCHANGED <<input, read, escapes, put, info>>

CopyBegins == /\ pass = "count" /\ read = Len(input) /\ escapes # 0
              /\ output' = Store(output, 0, <<"quote">>)
              /\ put' = 1 /\ read' = 0 /\ pass' = "copy"
              /\ UNCHANGED <<input, escapes, info>>

\* What a character is in JSON.
Escaped(c) == CASE c = "plain"   -> <<c>>
                [] c = "short"   -> <<"\\", c>>
                [] c = "control" -> <<"\\", "u", "0", "0", "x", "x">>

\* The second pass: sprintf terminates what it has written.
Written(c) == IF c = "control" THEN Append(Escaped(c), "end") ELSE Escaped(c)

Copy == /\ pass = "copy" /\ read < Len(input)
        /\ output' = Store(output, put, Written(input[read + 1]))
        /\ put' = put + Len(Escaped(input[read + 1]))
        /\ read' = read + 1
        /\ UNCHANGED <<input, escapes, pass, info>>

\* The closing quote is put where the first pass says, whatever the second has
\* written.
Close == /\ pass = "copy" /\ read = Len(input)
         /\ output' = Store(output, OutputLength + 1, <<"quote", "end">>)
         /\ pass' = "printed"
         /\ UNCHANGED <<input, read, escapes, put, info>>

----------------------------------------------------------------------------
JSON_IP_INFO_SIZE == 159
KeyLen == 8         \* strlen("{\"ssid\":")

\* Mutated form of Remaining: no room is kept back for what is there.
RemainingWhole(used) == JSON_IP_INFO_SIZE

\* remaining is a size_t: below zero it becomes larger than any text.
Remaining(used) == IF used <= JSON_IP_INFO_SIZE THEN JSON_IP_INFO_SIZE - used
                                               ELSE 2^30

\* snprintf writes one byte less than it is given room for, and the zero.
IpInfo(behind) ==
    LET used == KeyLen + OutputLength + 2
        room == Remaining(used)
        fit  == IF room = 0 THEN 0
                ELSE IF behind < room THEN behind ELSE room - 1
    IN  [behind |-> behind, bytes |-> used + fit + 1, whole |-> fit = behind]

\* Three addresses, the reason and the status of the http client follow the name.
AddIpInfo == /\ pass = "printed"
             /\ \E behind \in Addresses : info' = IpInfo(behind)
             /\ pass' = "done"
             /\ UNCHANGED <<input, read, escapes, output, put>>

JsonNext == Count \/ PrintPlain \/ CopyBegins \/ Copy \/ Close \/ AddIpInfo

JsonSpec == JsonInit /\ [][JsonNext]_jsonVars

----------------------------------------------------------------------------
\* The string is whole: each character's escape behind that of the one before it,
\* the quotes around them, and nothing else written.
Place == Before([k \in 1..Len(input) |-> Len(Escaped(input[k]))])
TextEnds == 1 + Place[Len(input) + 1]
StringIsWhole ==
    /\ DOMAIN output = 0..(TextEnds + 1)
    /\ output[0] = "quote" /\ output[TextEnds] = "quote" /\ output[TextEnds + 1] = "end"
    /\ \A k \in 1..Len(input) : \A j \in 1..Len(Escaped(input[k])) :
          output[Place[k] + j] = Escaped(input[k])[j]

\* JSON_IP_INFO_SIZE is meant for the worst case, "assuming all ips are 4*3
\* digits, and all characters in the ssid require to be escaped"
\* (manager.h:155).  The field httpc is not counted there: with such addresses
\* (94 characters) the text is whole up to 54 characters of name, 22 escapes.
\* Beyond, it is cut off in the buffer; a name printed longer than 148 characters
\* leaves no room, and the buffer is overrun.
IpInfoFits ==
    /\ info.behind <= 94 /\ OutputLength <= 54 => info.whole
    /\ info.bytes > JSON_IP_INFO_SIZE => OutputLength > 148

\* What json_print_string prints is a whole string: its two passes agree on every
\* input (json.c:63-139).  And the text with the address is whole, and stays in
\* its buffer, for the names and addresses that IpInfoFits says (manager.h:155,
\* manager.c:267).
JsonIsWhole == /\ pass \in {"printed", "done"} => StringIsWhole
               /\ pass = "done" => IpInfoFits
=============================================================================
