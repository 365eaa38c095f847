---------------------------- MODULE WireCodecs ----------------------------
(***************************************************************************)
(* The inspector's conversions between what V8 speaks and what goes over   *)
(* the wire, as operators: UTF-16 and UTF-8 (src/jsiapp/inspector_agent.   *)
(* cpp), base64 (base64.h), WebSocket frames and header fields             *)
(* (inspector_socket.cc, utils.cpp), paths (inspector_socket_server.cpp).  *)
(*                                                                         *)
(* Bytes and UTF-16 units are numbers.  A base64 character is the number   *)
(* that unbase64_table has for it, or Pad or Other.  A frame is its header  *)
(* bytes and its size: what the payload holds makes no difference.         *)
(* Characters of header fields and paths are short strings, and a name     *)
(* that is only compared as a whole is one character.                      *)
(***************************************************************************)
EXTENDS Integers, FiniteSets, SequencesExt

CONSTANT
  IntLimit  \* 2^31: what an int stays below

ASSUME IntAssumption == IntLimit \in Nat \ {0}

------------------------------------------------------------------------------
(* UTF-16 and UTF-8 *)

HighSurrogate(u) == \hD800 <= u /\ u <= \hDBFF
LowSurrogate(u)  == \hDC00 <= u /\ u <= \hDFFF

\* The loops take two units at a time exactly when these form a pair; a low
\* surrogate never starts one, so that pairs do not overlap.
StartsPair(s, i) == HighSurrogate(s[i]) /\ i < Len(s) /\ LowSurrogate(s[i + 1])
EndsPair(s, i)   == i > 1 /\ StartsPair(s, i - 1)

\* Mutant of BytesOf: a high surrogate at the end is counted as a pair.
BytesOfPairs(s, i) ==
  IF EndsPair(s, i) THEN 0
  ELSE IF s[i] < \h80 THEN 1
  ELSE IF s[i] < \h800 THEN 2
  ELSE IF HighSurrogate(s[i]) THEN 4
  ELSE 3

BytesOf(s, i) ==
  IF EndsPair(s, i) THEN 0
  ELSE IF s[i] < \h80 THEN 1
  ELSE IF s[i] < \h800 THEN 2
  ELSE IF StartsPair(s, i) THEN 4
  ELSE 3

utf16toUTF8Length(s) ==
  LET size[i \in 0 .. Len(s)] == IF i = 0 THEN 0 ELSE size[i - 1] + BytesOf(s, i)
  IN  size[Len(s)]

PairBytes(ch, ch2) ==
  LET trunc_byte == ((ch \div 64) % 16) + 1
  IN  << \hF0 + trunc_byte \div 4,
         \h80 + (trunc_byte % 4) * 16 + ((ch \div 4) % 16),
         \h80 + (ch % 4) * 16 + ((ch2 \div 64) % 16),
         \h80 + (ch2 % 64) >>

\* What is written for the unit at i, or for the pair that starts there.
Written(s, i) ==
  IF EndsPair(s, i) THEN <<>>
  ELSE IF s[i] < \h80 THEN <<s[i]>>
  ELSE IF s[i] < \h800 THEN <<\hC0 + s[i] \div 64, \h80 + (s[i] % 64)>>
  ELSE IF StartsPair(s, i) THEN PairBytes(s[i], s[i + 1])
  ELSE <<\hE0 + s[i] \div 4096, \h80 + ((s[i] \div 64) % 64), \h80 + (s[i] % 64)>>

utf16toUTF8(s) == FlattenSeq([i \in 1 .. Len(s) |-> Written(s, i)])

\* MultiByteToWideChar with MB_ERR_INVALID_CHARS: shortest forms of scalar
\* values only.
Continues(b) == b \in \h80 .. \hBF
Width(b) == CASE b < \h80           -> 1
              [] b \in \hC0 .. \hDF -> 2
              [] b \in \hE0 .. \hEF -> 3
              [] b \in \hF0 .. \hF7 -> 4
              [] OTHER              -> 5
Scalar(s, i) ==
  LET low(k) == s[i + k] % 64
  IN  CASE Width(s[i]) = 1 -> s[i]
        [] Width(s[i]) = 2 -> (s[i] % 32) * 64 + low(1)
        [] Width(s[i]) = 3 -> (s[i] % 16) * 4096 + low(1) * 64 + low(2)
        [] OTHER           -> (s[i] % 8) * 262144 + low(1) * 4096 + low(2) * 64 + low(3)
ValidAt(s, i) ==
  LET w == Width(s[i])
  IN  /\ i + w - 1 <= Len(s)
      /\ \A j \in i + 1 .. i + w - 1 : Continues(s[j])
      /\ i + w <= Len(s) => ~Continues(s[i + w])
      /\ Scalar(s, i) >= <<0, \h80, \h800, \h10000>>[w]
      /\ Scalar(s, i) <= \h10FFFF
      /\ (Scalar(s, i) < \hD800 \/ Scalar(s, i) > \hDFFF)
ValidUtf8(s) == /\ ~Continues(s[1])
                /\ \A i \in 1 .. Len(s) : Continues(s[i]) \/ (Width(s[i]) < 5 /\ ValidAt(s, i))

\* In place of a result: std::runtime_error is thrown.
Throws == <<-1>>

Units16(c) == IF c < \h10000 THEN <<c>>
              ELSE <<\hD800 + (c - \h10000) \div \h400, \hDC00 + ((c - \h10000) % \h400)>>

\* What is made of the character that starts at i.
ReadAt(s, i) == IF Continues(s[i]) THEN <<>> ELSE Units16(Scalar(s, i))

Utf8ToUtf16(s) ==
  IF s = <<>> THEN <<>>
  ELSE IF ~ValidUtf8(s) THEN Throws
  ELSE FlattenSeq([i \in 1 .. Len(s) |-> ReadAt(s, i)])

\* A view of 8-bit characters is copied as it is.
StringViewToUtf8(view) == IF view.wide THEN utf16toUTF8(view.units) ELSE view.units

------------------------------------------------------------------------------
(* Base64 *)

Pad   == 64
Other == 65

base64_encoded_size(size) == ((size + 2 - ((size + 2) % 3)) \div 3) * 4

base64_decoded_size_fast(size) ==
  LET remainder == size % 4
  IN  CASE remainder = 0              -> (size \div 4) * 3
        [] size = 1                   -> 0
        [] OTHER                      -> (size \div 4) * 3 + (IF remainder = 3 THEN 2 ELSE 1)

base64_decoded_size(src) ==
  LET Cut(s) == IF s # <<>> /\ Last(s) = Pad THEN Front(s) ELSE s
  IN  base64_decoded_size_fast(Len(Cut(Cut(src))))

\* The one or two bytes after the last group.
Rest(r) ==
  CASE Len(r) = 0 -> <<>>
    [] Len(r) = 1 -> <<r[1] \div 4, (r[1] % 4) * 16, Pad, Pad>>
    [] OTHER      -> <<r[1] \div 4, (r[1] % 4) * 16 + r[2] \div 16, (r[2] % 16) * 4, Pad>>

Quad(a, b, c) == <<a \div 4, (a % 4) * 16 + b \div 16, (b % 16) * 4 + c \div 64, c % 64>>

base64_encode(src) ==
  LET groups == Len(src) \div 3
  IN  FlattenSeq([g \in 1 .. groups |-> Quad(src[3 * g - 2], src[3 * g - 1], src[3 * g])])
      \o Rest(SubSeq(src, 3 * groups + 1, Len(src)))

\* The byte that the q-th character of a group completes.
Joined(q, hi, lo) ==
  CASE q = 2 -> hi * 4 + lo \div 16
    [] q = 3 -> (hi % 16) * 16 + lo \div 4
    [] OTHER -> (hi % 4) * 64 + lo

\* The place of the next letter after i when only other characters are before
\* it: no place when Pad or the end of src comes first.
NextLetter(src, i) ==
  {j \in i + 1 .. Len(src) : /\ src[j] < Pad
                             /\ \A l \in i + 1 .. j - 1 : src[l] = Other}

\* The macro V in its q-th use, unless one before has stopped decoding: skips
\* other characters, and stops at Pad, at the end of src and when dst is full.
\* i counts from 0.
V(src, dstlen, q, st) ==
  LET j   == CHOOSE j \in NextLetter(src, st.i) : TRUE
      dst == IF q = 1 THEN st.dst ELSE Append(st.dst, Joined(q, st.hi, src[j]))
  IN  IF ~st.go \/ NextLetter(src, st.i) = {} THEN [st EXCEPT !.go = FALSE]
      ELSE [i |-> j, dst |-> dst, hi |-> src[j], go |-> j < Len(src) /\ Len(dst) < dstlen]

DecodeGroupSlow(src, dstlen, i, dst) ==
  LET start == [i |-> i, dst |-> dst, hi |-> 0, go |-> TRUE]
  IN  V(src, dstlen, 4, V(src, dstlen, 3, V(src, dstlen, 2, V(src, dstlen, 1, start))))

\* One turn of the loop, nothing when it has ended: max_i is where the last
\* whole group ends.
Turn(src, dstlen, max_k, st) ==
  LET slow == DecodeGroupSlow(src, dstlen, st.i, st.dst)
  IN  IF st.stopped \/ st.i >= st.max_i \/ Len(st.dst) >= max_k THEN st
      ELSE IF \A j \in st.i + 1 .. st.i + 4 : src[j] < Pad
        THEN [st EXCEPT !.i = @ + 4,
                        !.dst = @ \o [q \in 1 .. 3 |-> Joined(q + 1, src[st.i + q], src[st.i + q + 1])]]
      ELSE [i |-> slow.i, dst |-> slow.dst, stopped |-> ~slow.go,
            max_i |-> slow.i + ((Len(src) - slow.i) \div 4) * 4]

\* Every turn takes a character at least.
base64_decode_fast(src, dstlen, decoded_size) ==
  LET available == IF dstlen < decoded_size THEN dstlen ELSE decoded_size
      max_k     == (available \div 3) * 3
      start     == [i |-> 0, dst |-> <<>>, stopped |-> FALSE, max_i |-> (Len(src) \div 4) * 4]
      loop[n \in 0 .. Len(src)] == IF n = 0 THEN start ELSE Turn(src, dstlen, max_k, loop[n - 1])
      end       == loop[Len(src)]
  IN  IF ~end.stopped /\ end.i < Len(src) /\ Len(end.dst) < dstlen
        THEN DecodeGroupSlow(src, dstlen, end.i, end.dst).dst
        ELSE end.dst

base64_decode(dstlen, src) == base64_decode_fast(src, dstlen, base64_decoded_size(src))

------------------------------------------------------------------------------
(* WebSocket frames *)

OpText  == 1
OpClose == 8

\* The w bytes that a number ends in.
BigEndian(n, w) ==
  LET remaining[i \in 0 .. w] == IF i = 0 THEN n ELSE remaining[i - 1] \div 256
  IN  [i \in 1 .. w |-> remaining[w - i] % 256]

Number(bytes) ==
  LET value[i \in 0 .. Len(bytes)] == IF i = 0 THEN 0 ELSE value[i - 1] * 256 + bytes[i]
  IN  value[Len(bytes)]

\* The header of a message's frame.
encode_frame_hybi17(length) ==
  <<128 + OpText>> \o
  (IF length <= 125 THEN <<length>>
   ELSE IF length <= \hFFFF THEN <<126>> \o BigEndian(length, 2)
   ELSE <<127>> \o BigEndian(length, 8))

\* Mutant of Refused: clients need not mask.
MaskUnchecked(head) ==
  \/ head[1] < 128
  \/ (head[1] \div 16) % 4 # 0
  \/ head[1] % 16 \notin {OpText, OpClose}

\* Not final, a reserved bit other than the first, another kind, not masked.
Refused(head) ==
  \/ head[1] < 128
  \/ (head[1] \div 16) % 4 # 0
  \/ head[1] % 16 \notin {OpText, OpClose}
  \/ head[2] < 128

\* A size_t made an int.
AsInt(n) == ((n + IntLimit) % (2 * IntLimit)) - IntLimit

\* An answer without a frame; compressed is set as soon as the first byte is read.
Verdict(v, compressed) == [verdict |-> v, consumed |-> 0, length |-> 0, compressed |-> compressed]

\* Decodes what starts with the bytes of head and has size bytes at hand;
\* client_frame is TRUE in every call.  size - 4 is unsigned: with less than
\* four bytes no payload is too long.
decode_frame_hybi17(head, size) ==
  LET compressed == (head[1] \div 64) % 2 = 1
      length7    == head[2] % 128
      ext        == CASE length7 <= 125 -> 0 [] length7 = 126 -> 2 [] OTHER -> 8
      length     == IF ext = 0 THEN length7 ELSE Number(SubSeq(head, 3, 2 + ext))
  IN  IF size < 2 THEN Verdict("incomplete", FALSE)
      ELSE IF Refused(head) THEN Verdict("error", compressed)
      ELSE IF size - 2 < ext THEN Verdict("incomplete", compressed)
      ELSE IF ext = 8 /\ head[3] >= 128 THEN Verdict("error", compressed)
      ELSE IF size >= 4 /\ size - 4 < length THEN Verdict("incomplete", compressed)
      ELSE [verdict    |-> IF head[1] % 16 = OpClose THEN "close" ELSE "ok",
            consumed   |-> AsInt(2 + ext + 4 + length),
            length     |-> length,
            compressed |-> compressed]

\* What becomes of the frame, "ended" being OnEof, and how much of the buffer is
\* taken for it.
ParseWsFrames(head, size) ==
  LET d    == decode_frame_hybi17(head, size)
      does == IF d.compressed \/ d.verdict = "error" THEN "ended" ELSE d.verdict
  IN  [does |-> does, length |-> d.length, processed |-> IF does = "ok" THEN d.consumed ELSE 0]

------------------------------------------------------------------------------
(* Header fields and paths *)

ToLower(c) == CASE c = "H" -> "h" [] c = "Localhost" -> "localhost" [] OTHER -> c

\* The loop ends where a string does or they differ, whichever is first.
StringEqualNoCase(a, b) ==
  LET C(s, i) == IF i > Len(s) THEN "NUL" ELSE ToLower(s[i])
      i == CHOOSE i \in 1 .. Len(a) + 1 :
             /\ C(a, i) = "NUL" \/ C(b, i) = "NUL" \/ C(a, i) # C(b, i)
             /\ \A j \in 1 .. i - 1 : C(a, j) # "NUL" /\ C(b, j) # "NUL" /\ C(a, j) = C(b, j)
  IN  C(a, i) = "NUL" /\ C(b, i) = "NUL"

\* Compares the first n characters, the final "NUL" included.
StringEqualNoCaseN(a, b, n) ==
  LET C(s, i) == IF i > Len(s) THEN "NUL" ELSE ToLower(s[i])
  IN  \A i \in 1 .. n : C(a, i) = C(b, i) \/ \E j \in 1 .. i - 1 : C(a, j) = "NUL"

\* OnHeaderField and OnHeaderValue: the request's fields, pairs of a name and a
\* value, in headers_.  The value of a name that comes again is appended.
Headers(fields) ==
  [n \in {fields[i][1] : i \in 1 .. Len(fields)} |->
     FlattenSeq([i \in 1 .. Len(fields) |-> IF fields[i][1] = n THEN fields[i][2] ELSE <<>>])]

\* headers maps names to values.
HeaderValue(headers, name) ==
  LET found == {n \in DOMAIN headers : StringEqualNoCaseN(n, name, Len(name))}
  IN  IF \E n \in found : found = {n} THEN headers[CHOOSE n \in found : TRUE] ELSE <<>>

\* The position of the last c in s; 0 is npos.
RFind(s, c) == SelectLastInSeq(s, LAMBDA x : x = c)

\* Mutant of TrimPort: brackets are not looked for.
TrimAnyPort(host) ==
  IF RFind(host, ":") = 0 THEN host ELSE SubSeq(host, 1, RFind(host, ":") - 1)

TrimPort(host) ==
  LET colon   == RFind(host, ":")
      bracket == RFind(host, "]")
  IN  IF colon # 0 /\ (bracket = 0 \/ colon > bracket) THEN SubSeq(host, 1, colon - 1) ELSE host

IsIPAddress(host) ==
  \/ Len(host) >= 4 /\ Head(host) = "[" /\ Last(host) = "]"
  \/ /\ \A i \in 1 .. Len(host) : host[i] \in {".", "7"}
     /\ Cardinality({i \in 1 .. Len(host) : host[i] = "."}) = 3

\* "localhost6" is another name like "localhost".
IsAllowedHost(host_with_port) ==
  LET host == TrimPort(host_with_port)
  IN  host = <<>> \/ IsIPAddress(host) \/ StringEqualNoCase(host, <<"localhost">>)

\* In place of a pointer into the path: nullptr.
NoMatch == <<"nullptr">>

MatchPathSegment(path, expected) ==
  LET len == Len(expected)
  IN  IF StringEqualNoCaseN(path, expected, len) /\ (Len(path) = len \/ path[len + 1] = "/")
        THEN SubSeq(path, len + 2, Len(path))
        ELSE NoMatch

\* What HandleGetRequest sends for a path; "refused" when it returns false.
HandleGetRequest(path) ==
  LET command == MatchPathSegment(path, <<"/", "json">>)
  IN  IF command = NoMatch THEN "refused"
      ELSE IF command = <<>> \/ MatchPathSegment(command, <<"list">>) # NoMatch THEN "list"
      ELSE IF MatchPathSegment(command, <<"protocol">>) # NoMatch THEN "protocol"
      ELSE IF MatchPathSegment(command, <<"version">>) # NoMatch THEN "version"
      ELSE "refused"
============================================================================
