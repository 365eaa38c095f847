------------------------------ MODULE Codecs ------------------------------
(***************************************************************************)
(* What WireCodecs and DelayConversion promise: a state is one input to    *)
(* one of them, and each invariant says of all inputs of its kind how the  *)
(* code's result stands to what was meant.                                 *)
(***************************************************************************)
EXTENDS WireCodecs, DelayConversion

CONSTANTS
  Units,       \* the UTF-16 units texts are made of
  MaxUnits,    \* bound: how many
  SomeBytes,   \* the bytes base64 texts are made of
  MaxBytes,    \* bound: how many
  Lengths,     \* the lengths of messages
  Characters,  \* those of hosts
  MaxHost,     \* bound: how many
  FieldNames,  \* the names of header fields, sequences of characters
  FieldValues, \* and their values
  MaxFields,   \* bound: how many a request has
  Segments,    \* what paths are made of
  MaxPath,     \* bound: how many
  Clocks,      \* the times at which timers are added
  MaxDelay     \* bound: delays in milliseconds, either way

ASSUME BoundsAssumption == {MaxUnits, MaxBytes, MaxHost, MaxFields, MaxPath, MaxDelay} \subseteq Nat

ASSUME TextsAssumption ==
  /\ Units \subseteq Nat /\ \A u \in Units : u <= \hFFFF
  /\ SomeBytes \subseteq Nat /\ \A b \in SomeBytes : b <= 255

\* A length in bytes is below 2^63.
ASSUME LengthsAssumption ==
  /\ Lengths \subseteq Nat
  /\ \A n \in Lengths : (((n \div 65536) \div 65536) \div 65536) \div 32768 = 0

\* No string has a NUL inside.
ASSUME StringsAssumption ==
  /\ Characters \subseteq STRING \ {"NUL"}
  /\ FieldNames \subseteq Seq(STRING \ {"NUL"}) /\ FieldValues \subseteq Seq(STRING \ {"NUL"})
  /\ Segments \subseteq STRING \ {"NUL", "nullptr"}

ASSUME ClocksAssumption == Clocks \subseteq LongLong

VARIABLE
  input  \* a tuple: which conversion, and its arguments

None == <<"none">>

CodecsInit == input = None

SeqsUpTo(S, n) == UNION {[1 .. k -> S] : k \in 0 .. n}

------------------------------------------------------------------------------
(* Inputs *)

ConvertText ==
  \E s \in SeqsUpTo(Units, MaxUnits), wide \in BOOLEAN :
    /\ ~wide => \A i \in 1 .. Len(s) : s[i] < 256
    /\ input' = <<"text", [wide |-> wide, units |-> s]>>

\* A base64 text, with another character put in somewhere or not, and the room for it.
DecodeBase64 ==
  \E s \in SeqsUpTo(SomeBytes, MaxBytes), dstlen \in 0 .. MaxBytes + 1 :
    LET e == base64_encode(s)
    IN  \E at \in 0 .. Len(e) + 1 :
          input' = <<"base64", s, dstlen, IF at = 0 THEN e ELSE InsertAt(e, at, Other)>>

\* A client's frame: its fields, how its length is written, and how much of
\* it and of what follows is there.  A length that is over the maximum is
\* written with the highest bit set.
FrameHeader(f) ==
  <<(IF f.final THEN 128 ELSE 0) + 64 * f.rsv1 + 16 * f.rsv23 + f.op,
    (IF f.masked THEN 128 ELSE 0) + (CASE f.form = 0 -> f.length [] f.form = 2 -> 126 [] OTHER -> 127)>>
  \o (IF f.over THEN <<128, 0, 0, 0, 0, 0, 0, 0>> ELSE BigEndian(f.length, f.form))

TotalSize(f) == 2 + f.form + 4 + f.length

ClientFrame ==
  [length : Lengths, form : {0, 2, 8}, final : BOOLEAN, masked : BOOLEAN, over : BOOLEAN,
   rsv1 : {0, 1}, rsv23 : {0, 2}, op : {0, 1, 2, 8, 9}]

DecodeFrame ==
  \E f \in ClientFrame :
    /\ f.form = 0 => f.length <= 125
    /\ f.form = 2 => f.length <= \hFFFF
    /\ f.over => f.form = 8
    /\ \E size \in 0 .. 14 \cup TotalSize(f) - 15 .. TotalSize(f) + 2 :
         size >= 0 /\ input' = <<"frame", f, size>>

AnswerHost == \E s \in SeqsUpTo(Characters, MaxHost) : input' = <<"host", s>>

FindHeader == \E s \in SeqsUpTo(FieldNames \X FieldValues, MaxFields) : input' = <<"headers", s>>

AnswerPath == \E s \in SeqsUpTo(Segments, MaxPath) : input' = <<"path", <<"/">> \o s>>

Doubles == {<<"number", n>> : n \in -2 * MaxDelay .. 2 * MaxDelay} \cup {NaN} \cup Infinite
AddTimer == \E next \in Clocks, ms \in Doubles : input' = <<"delay", next, ms>>

Pick ==
  \/ ConvertText
  \/ DecodeBase64
  \/ DecodeFrame
  \/ AnswerHost
  \/ FindHeader
  \/ AnswerPath
  \/ AddTimer

Forgotten == input # None /\ input' = None

CodecsNext == (input = None /\ Pick) \/ Forgotten

CodecsSpec == CodecsInit /\ [][CodecsNext]_input

------------------------------------------------------------------------------
(* Properties *)

\* utf16toUTF8 allocates what utf16toUTF8Length counts and writes through a
\* bare iterator: it must write exactly that much, unpaired surrogates or not.
WritesWhatWasCounted ==
  input[1] = "text" => Len(utf16toUTF8(input[2].units)) = utf16toUTF8Length(input[2].units)

\* A message reads the same at the other end if it was proper text; one that
\* has an unpaired surrogate, or 8-bit characters beyond ASCII, does not.
ProperTextSurvives ==
  input[1] = "text" =>
    LET s == input[2].units
        proper == IF input[2].wide
                    THEN \A i \in 1 .. Len(s) : HighSurrogate(s[i]) \/ LowSurrogate(s[i])
                                                  => StartsPair(s, i) \/ EndsPair(s, i)
                    ELSE \A i \in 1 .. Len(s) : s[i] < \h80
    IN  (Utf8ToUtf16(StringViewToUtf8(input[2])) = s) <=> proper

\* Decoding base64 gives back as many of the encoded bytes as there is room
\* for, also when the text has been broken by other characters, and never
\* writes past the room; and a text is as long as base64_encoded_size says,
\* which is what the caller has allocated.  (The handshake encodes; base64.h
\* comes with a decoder that the program does not call.)
Base64Inverts ==
  input[1] = "base64" =>
    LET s == input[2]
    IN  /\ base64_decode(input[3], input[4])
             = SubSeq(s, 1, IF input[3] < Len(s) THEN input[3] ELSE Len(s))
        /\ Len(base64_encode(s)) = base64_encoded_size(Len(s))

\* Text on its way through UTF-16, UTF-8 and base64 is what it was.
TextsSurvive == WritesWhatWasCounted /\ ProperTextSurvives /\ Base64Inverts

\* A frame that may be sent is taken for what it is once it is whole, whatever
\* follows it, and waited for before that, except that the last bytes, as many as
\* its header has without the mask, may be missing, or everything when not even
\* four bytes are there.  Just as many bytes as it has are taken from the buffer
\* if an int can count them, and only then.  Of any other frame the first two
\* bytes end the connection, the reserved bit for compression included, or its
\* header does if these are fine.
FramesDecode ==
  input[1] = "frame" =>
    LET f      == input[2]
        size   == input[3]
        p      == ParseWsFrames(FrameHeader(f), size)
        begins == f.final /\ f.rsv1 = 0 /\ f.rsv23 = 0 /\ f.op \in {OpText, OpClose} /\ f.masked
        legal  == begins /\ ~f.over
    IN  IF legal /\ p.does # "incomplete"
          THEN /\ p.does = IF f.op = OpClose THEN "close" ELSE "ok"
               /\ p.length = f.length
               /\ size < 4 \/ size + 2 + f.form >= TotalSize(f)
               /\ p.does = "ok" => (p.processed = TotalSize(f) <=> TotalSize(f) < IntLimit)
          ELSE /\ p.does \in {"incomplete", "ended"} /\ p.processed = 0
               /\ legal => size < TotalSize(f)
               /\ p.does = "ended" <=> ~legal /\ size >= IF begins THEN 10 ELSE 2

\* The header of a frame that the inspector sends says the length of its
\* message to a reader that decodes as the inspector does.
FramesEncode ==
  input[1] = "frame" =>
    LET head == encode_frame_hybi17(input[2].length)
        size == Len(head) + 4 + input[2].length
        d    == decode_frame_hybi17([head EXCEPT ![2] = @ + 128], size)
    IN  d.verdict = "ok" /\ ~d.compressed /\ d.length = input[2].length /\ d.consumed = AsInt(size)

\* Frames are read and written as what they are, at every length at which
\* their encoding changes.
FramesSurvive == FramesDecode /\ FramesEncode

\* A host that is served: an address, in brackets or with three dots,
\* localhost or nothing.
GoodHost(t) ==
  \/ t = <<>>
  \/ Len(t) >= 4 /\ t[1] = "[" /\ t[Len(t)] = "]"
  \/ Len(t) = 1 /\ t[1] \in {"localhost", "Localhost"}
  \/ /\ \A i \in 1 .. Len(t) : t[i] \in {".", "7"}
     /\ \E a, b, c \in 1 .. Len(t) : a < b /\ b < c /\ {i \in 1 .. Len(t) : t[i] = "."} = {a, b, c}

\* A port follows the colon at i.
PortAfter(s, i) == s[i] = ":" /\ \A j \in i + 1 .. Len(s) : s[j] \notin {":", "]"}

\* A request is served if its host is good, whether or not a port follows; no
\* other name is, wherever its colons and brackets are.
HostsAnswered ==
  input[1] = "host" =>
    LET s == input[2]
    IN  IsAllowedHost(s) <=> IF \E i \in 1 .. Len(s) : PortAfter(s, i)
                               THEN \E i \in 1 .. Len(s) : PortAfter(s, i) /\ GoodHost(SubSeq(s, 1, i - 1))
                               ELSE GoodHost(s)

\* What Host is for the header fields of a request.
HostOfTheFields(fields) ==
  LET hosts == {i \in 1 .. Len(fields) : fields[i][1] # <<>> /\ fields[i][1][1] \in {"h", "H"}}
      host  == HeaderValue(Headers(fields), <<"H">>)
  IN  /\ \A i \in hosts : hosts = {i} => host = fields[i][2]
      /\ IF \E n \in FieldNames : hosts # {} /\ \A i \in hosts : fields[i][1] = n
           THEN host = FlattenSeq([i \in 1 .. Len(fields) |-> IF i \in hosts THEN fields[i][2] ELSE <<>>])
           ELSE host = <<>>

\* Host is the value of the field that is named so, whatever its case; values of
\* several fields of one spelling are joined to one, whereas a second spelling,
\* or another name that starts so, makes it as if there were none.
HostOfTheOnlyField == input[1] = "headers" => HostOfTheFields(input[2])

\* The path is p or something below it.
AtOrBelow(path, p) ==
  /\ Len(path) >= Len(p) /\ SubSeq(path, 1, Len(p)) = p
  /\ Len(path) > Len(p) => path[Len(p) + 1] = "/"

\* The paths that are answered are /json, /json/list, /json/protocol and
\* /json/version, with anything below them, each by its own answer.
PathsAnswered ==
  input[1] = "path" =>
    LET path == input[2]
    IN  HandleGetRequest(path)
          = CASE AtOrBelow(path, <<"/", "json", "/", "protocol">>) -> "protocol"
              [] AtOrBelow(path, <<"/", "json", "/", "version">>)  -> "version"
              [] \/ AtOrBelow(path, <<"/", "json", "/", "list">>)
                 \/ path \in {<<"/", "json">>, <<"/", "json", "/">>} -> "list"
              [] OTHER -> "refused"

\* The requests that are meant to be answered are, and no others.
RequestsAnswered == HostsAnswered /\ HostOfTheOnlyField /\ PathsAnswered

\* A delay that the clock can count is kept, without its fraction; NaN, the
\* infinities and what no long long holds make a timer that is due at once.
DelaysAreKept == input[1] = "delay" => Kept(input[2], input[3])
============================================================================
