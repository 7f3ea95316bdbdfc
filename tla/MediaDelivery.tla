---------------------------- MODULE MediaDelivery ----------------------------
(***************************************************************************)
(* Requests for the media of a job (get_media and parse_range of main.rs), *)
(* answered from the files the processing writes: the handler changes      *)
(* nothing and serves whatever is in the public directory of the job.      *)
(*                                                                         *)
(* A file length is the number of bytes at the moment of opening; a file   *)
(* being written may have any length up to MaxLength.  Lengths are u64:    *)
(* WORD stands for 2^64.                                                   *)
(***************************************************************************)
EXTENDS ProcessCandidate

CONSTANTS
    RangeHeaders,   \* the Range headers a client may send
    MaxLength,      \* bound on the length of a served file
    WORD

NoBound == -1
Garbled == -2
\* "bytes=first-last": a missing number is NoBound; a last that is no number is
\* Garbled, as it is read after the first was compared with the length.
RangeHeader == [form : {"none", "malformed", "bytes"},
                first : Nat \cup {NoBound}, last : Nat \cup {NoBound, Garbled}]
NoRange == [start |-> 0, end |-> 0]

ASSUME DeliveryAssumption ==
    /\ RangeHeaders \subseteq RangeHeader
    /\ MaxLength \in Nat /\ WORD \in Nat /\ MaxLength < WORD
    /\ 1 < WORD /\ \A size \in Sizes : size < WORD

Reply(st, length, range) == [status |-> st, length |-> length, range |-> range]

\* file_len - 1 in u64.
LastByte(length) == (length + WORD - 1) % WORD
Least(a, b) == IF a < b THEN a ELSE b

\* parse_range: the status it leads to, and the bytes from start to end.
parse_range(header, length) ==
    LET last == LastByte(length)
        Partial206(start, end) == [status |-> 206, range |-> [start |-> start, end |-> end]]
        Refused(st) == [status |-> st, range |-> NoRange]
        end == IF header.last = NoBound THEN last ELSE Least(header.last, last)
    IN  CASE header.form = "none" ->
                 [status |-> 200, range |-> [start |-> 0, end |-> last]]
          [] header.form = "malformed" -> Refused(400)
          [] header.form = "bytes" /\ header.first = NoBound ->
                 IF header.last \in {NoBound, Garbled, 0} THEN Refused(400)
                 ELSE Partial206(IF header.last < length THEN length - header.last ELSE 0, last)
          [] header.form = "bytes" /\ header.first # NoBound ->
                 CASE header.first >= length -> Refused(416)
                   [] header.first < length /\ header.last = Garbled -> Refused(400)
                   [] header.first < length /\ header.last # Garbled ->
                          IF end < header.first THEN Refused(416)
                          ELSE Partial206(header.first, end)

\* Fault: an empty file is not turned away.
AnswerEmpty(header, length) ==
    LET parsed == parse_range(header, length) IN Reply(parsed.status, length, parsed.range)

\* An empty file is a bad gateway; the header is parsed for any other.
Answer(header, length) ==
    IF length = 0 THEN Reply(502, length, NoRange)
    ELSE LET parsed == parse_range(header, length)
         IN  Reply(parsed.status, length, parsed.range)

\* The answers a request for a file may get in this state.
get_media(f, header) ==
    CASE files[f].state = "absent" -> {Reply(500, 0, NoRange)}
      [] files[f].state = "partial" -> {Answer(header, n) : n \in 0 .. MaxLength}
      [] files[f].state = "whole" -> {Answer(header, files[f].size)}

-----------------------------------------------------------------------------
\* The bytes a Range header asks for, of a file of this length: RFC 9110.
Asked(header, length) ==
    {i \in 0 .. length - 1 :
        \/ header.form = "none"
        \/ header.first = NoBound /\ header.last # NoBound /\ i >= length - header.last
        \/ header.first # NoBound /\ i >= header.first
             /\ (header.last = NoBound \/ i <= header.last)}

Exact(header, reply) ==
    LET asked == Asked(header, reply.length)
    IN  /\ reply.status \in {200, 206} =>
              asked # {} /\ reply.range.start .. reply.range.end = asked
        /\ reply.status = 416 => asked = {}

(* Whatever is in the public directory, a body holds the bytes that were     *)
(* asked for, at least one and none beyond the file, and 416 answers only a  *)
(* range of which the file has nothing.                                      *)
RangeIsExact ==
    \A f \in {g \in FileNames : files[g].state # "absent"}, header \in RangeHeaders :
        \A reply \in get_media(f, header) : Exact(header, reply)
=============================================================================
