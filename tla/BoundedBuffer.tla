---------------------------- MODULE BoundedBuffer ----------------------------
(***************************************************************************)
(* Bounded log capture (logs.py): BoundedBuffer, which keeps the first and *)
(* the last part of what is written to it, and truncate_text, which does   *)
(* the same to a finished text.                                            *)
(*                                                                         *)
(* A text is a sequence of units; a unit is a byte or a marker, and the    *)
(* marker's own length is taken as one.                                    *)
(***************************************************************************)
EXTENDS Integers, Sequences

Least(a, b) == IF a <= b THEN a ELSE b

(* Python's data[:n] and data[n:], for a sequence that may be shorter.     *)
Front(s, n) == SubSeq(s, 1, Least(n, Len(s)))
After(s, n) == SubSeq(s, n + 1, Len(s))

HeadLimit(limit) == limit \div 4
TailLimit(limit) == limit - HeadLimit(limit)

EmptyBuffer == [head |-> <<>>, tail |-> <<>>, dropped |-> 0]

(* Variant of Write: what fills the head is not cut off the data.          *)
WriteTwice(limit, buffer, data) ==
    LET room == HeadLimit(limit) - Len(buffer.head)
        tail == buffer.tail \o data
        excess == Len(tail) - Least(Len(tail), TailLimit(limit))
    IN [head |-> buffer.head \o Front(data, room),
        tail |-> After(tail, excess),
        dropped |-> buffer.dropped + excess]

(* BoundedBuffer.append, under its lock.                                   *)
Write(limit, buffer, data) ==
    LET room == HeadLimit(limit) - Len(buffer.head)
        tail == buffer.tail \o After(data, Least(room, Len(data)))
        excess == Len(tail) - Least(Len(tail), TailLimit(limit))
    IN [head |-> buffer.head \o Front(data, room),
        tail |-> After(tail, excess),
        dropped |-> buffer.dropped + excess]

Marker(n) == <<"truncated", n>>

(* BoundedBuffer.text, under the same lock.                                *)
Text(buffer) ==
    buffer.head
    \o (IF buffer.dropped > 0 THEN <<Marker(buffer.dropped)>> ELSE <<>>)
    \o buffer.tail

(* truncate_text.  data[-tail:] is all of the data when tail is 0, which   *)
(* it is for limit 0 only.                                                 *)
TruncateText(limit, text) ==
    LET head == HeadLimit(limit)
        tail == TailLimit(limit)
    IN IF Len(text) <= limit THEN text
       ELSE Front(text, head)
            \o <<Marker(Len(text) - head - tail)>>
            \o (IF tail = 0 THEN text ELSE After(text, Len(text) - tail))
=============================================================================
