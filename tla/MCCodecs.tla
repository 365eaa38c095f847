----------------------------- MODULE MCCodecs -----------------------------
(* The values at which a case of the code's begins or ends. *)
EXTENDS Conversions

MCUnits == {\h41, \h7F, \h80, \hE9, \h7FF, \h800, \hD7FF, \hD800, \hDBFF, \hDC00, \hDFFF, \hE000, \hFFFF}
MCSomeBytes == {0, 1, 128, 255}
MCLengths == {0, 1, 8, 125, 126, 127, 255, 256, \hFFFF, \h10000, \h12345}

\* "Hx" is a field whose name starts like Host.
MCFieldNames == {<<"h">>, <<"H">>, <<"H", "x">>, <<"u">>}
MCFieldValues == {<<"1">>, <<"2">>}
============================================================================
