-------------------------- MODULE DelayConversion --------------------------
(***************************************************************************)
(* The doubles that scripts pass for delays, on their way to the clock     *)
(* (src/jsiapp/scripthost.cpp, eventloop.h).  Delays may be fractions: a   *)
(* double is <<"number", h>> for h halves, or NaN or one of the            *)
(* infinities.  EventLoop takes the delays that are kept.                  *)
(***************************************************************************)
EXTENDS Integers

CONSTANTS
  Limit,  \* 2^63: what a long long and the clock's count stay below
  Scale   \* 10^6: ticks of steady_clock in a millisecond

ASSUME WidthsAssumption ==
  /\ Limit \in Nat \ {0}
  /\ Scale \in Nat \ {0} /\ Scale % 2 = 0

NaN      == <<"NaN">>
Infinite == {<<"Infinity">>, <<"-Infinity">>}
Double   == {<<"number", h>> : h \in Int} \cup {NaN} \cup Infinite

\* What a long long, or the clock's count, can be.
LongLong == -Limit .. Limit - 1

\* A result that is too large, in two's complement.
Wrap(n) == ((n + Limit) % (2 * Limit)) - Limit

\* h halves, toward zero.
Whole(h) == IF h >= 0 THEN h \div 2 ELSE -((-h) \div 2)

\* Mutant of ToLongLong: what is out of range is cut off at the limits.
Saturated(d) ==
  CASE d = NaN                  -> 0
    [] d = <<"Infinity">>       -> Limit - 1
    [] d = <<"-Infinity">>      -> -Limit
    [] d[1] = "number"          ->
         LET n == Whole(d[2])
         IN  IF n >= Limit THEN Limit - 1 ELSE IF n < -Limit THEN -Limit ELSE n

\* static_cast<long long>: toward zero, and what cvttsd2si leaves when the
\* result would be out of range, which is undefined.
ToLongLong(d) ==
  IF d[1] = "number" /\ Whole(d[2]) \in LongLong THEN Whole(d[2]) ELSE -Limit

\* When a timer that setTimeout or setInterval adds at the time next is due:
\* next_ + delay_, milliseconds made ticks of the clock.
Due(next, ms) == Wrap(next + Wrap(ToLongLong(ms) * Scale))

\* What a delay of ms should do to a timer that is added at the time next: it
\* is kept, without its fraction, if the clock can count it; NaN, the
\* infinities and what no long long holds make the timer due at once.
Kept(next, ms) ==
  LET lost == ms[1] # "number" \/ Whole(ms[2]) \notin LongLong
      due  == next + Whole(ms[2]) * Scale
  IN  /\ lost => Due(next, ms) = next
      /\ ~lost /\ due \in LongLong => Due(next, ms) = due
============================================================================
