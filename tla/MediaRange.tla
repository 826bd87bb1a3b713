----------------------------- MODULE MediaRange -----------------------------
(***************************************************************************)
(* The answer to a media request for one Blob (backend/src/api/media.rs):   *)
(* parse_range over 64-bit words, the slice that is read, media_response.   *)
(* A Range header is its two texts; a text is a number, empty, or nothing   *)
(* that parses.                                                            *)
(***************************************************************************)
EXTENDS Integers, FiniteSets

CONSTANTS
    MaxWord,        \* u64::MAX
    Numbers,        \* numbers a client writes, some beyond MaxWord
    Empty, Garbage, \* the other texts
    Absent,         \* no Range header
    Malformed       \* not ASCII, not "bytes=", or without "-"

ASSUME RangeAssumption ==
    /\ MaxWord \in Nat \ {0} /\ Numbers \subseteq Nat
    /\ Empty \notin Nat /\ Garbage \notin Nat /\ Empty # Garbage
    /\ Absent # Malformed
    /\ {Absent, Malformed} \cap [first : Nat \cup {Empty, Garbage},
                                 last : Nat \cup {Empty, Garbage}] = {}

Text == Numbers \cup {Empty, Garbage}
Header == [first : Text, last : Text]

VARIABLES
    size,       \* bytes of the Blob
    header, head,   \* the request: its Range header, whether it is a HEAD
    reply       \* the answer

rangeVars == <<size, header, head, reply>>

-----------------------------------------------------------------------------
(* parse_range *)

Parses(text) == text \in 0..MaxWord

SaturatingSub(a, b) == IF b <= a THEN a - b ELSE 0

\* An addition that wraps, as a plain + does in a release build.
WrappingAdd(a, b) == (a + b) % (MaxWord + 1)

SaturatingAdd(a, b) == IF a + b <= MaxWord THEN a + b ELSE MaxWord

\* bytes=-n
SuffixRefused(h) == ~Parses(h.last) \/ h.last = 0 \/ size = 0

\* A start one past the last byte taken for a start inside.
StartMayBeSize(h) ==
    \/ ~Parses(h.first) \/ h.first > size
    \/ h.last # Empty /\ (~Parses(h.last) \/ h.last < h.first)

\* bytes=a-b and bytes=a-
RangeRefused(h) ==
    \/ ~Parses(h.first) \/ h.first >= size
    \/ h.last # Empty /\ (~Parses(h.last) \/ h.last < h.first)

Refused(h) ==
    IF h = Absent THEN FALSE
    ELSE IF h = Malformed THEN TRUE
    ELSE IF h.first = Empty THEN SuffixRefused(h)
    ELSE RangeRefused(h)

Start(h) ==
    IF h = Absent THEN 0
    ELSE IF h.first = Empty THEN SaturatingSub(size, h.last)
    ELSE h.first

EndBefore(limit, h) ==
    LET end == SaturatingAdd(h.last, 1) IN IF end <= limit THEN end ELSE limit

End(h) ==
    IF h = Absent \/ h.first = Empty \/ h.last = Empty THEN size
    ELSE EndBefore(size, h)

-----------------------------------------------------------------------------
(* read_media and media_response *)

Interval(start, end) == {i \in 0..size : start <= i /\ i < end}

ContentLength(h, isHead) ==
    IF isHead THEN SaturatingSub(End(h), Start(h))
    ELSE Cardinality(Interval(Start(h), End(h)))

\* `end - 1` of Content-Range in 64 bits.
LastByte(h) == (End(h) + MaxWord) % (MaxWord + 1)

Unsatisfiable == [status |-> 416]

Answer(h, isHead) ==
    IF Refused(h) THEN Unsatisfiable
    ELSE [status |-> IF h = Absent THEN 200 ELSE 206,
          start |-> Start(h), end |-> End(h), last |-> LastByte(h),
          length |-> ContentLength(h, isHead),
          body |-> IF isHead THEN {} ELSE Interval(Start(h), End(h))]

RangeInit ==
    /\ size \in Numbers \cap 0..MaxWord
    /\ header = Absent /\ head = FALSE
    /\ reply = Answer(Absent, FALSE)

RangeRequest ==
    /\ header' \in Header \cup {Absent, Malformed} /\ head' \in BOOLEAN
    /\ reply' = Answer(header', head')
    /\ UNCHANGED size

RangeNext == RangeRequest

RangeSpec == RangeInit /\ [][RangeNext]_rangeVars

-----------------------------------------------------------------------------
(* Properties *)

\* What RFC 9110, 14.1.2, selects: the reference parse_range is held against.
Selected(h) ==
    {i \in 0..(size - 1) :
        IF h = Absent THEN TRUE
        ELSE IF h.first = Empty THEN size - i <= h.last
        ELSE h.first <= i /\ (h.last # Empty => i <= h.last)}

\* A header whose numbers are 64-bit words and in order.
Valid(h) ==
    \/ h = Absent
    \/ /\ h \in Header
       /\ Parses(h.last) \/ (h.last = Empty /\ h.first # Empty)
       /\ Parses(h.first) \/ h.first = Empty
       /\ Parses(h.first) /\ Parses(h.last) => h.first <= h.last

\* Exactly the selected bytes are sent, and a request is refused exactly when
\* its header is invalid or selects nothing (parse_range, media.rs:180-228).
RangeIsExact ==
    IF reply.status = 416
    THEN ~Valid(header) \/ (header # Absent /\ Selected(header) = {})
    ELSE /\ Valid(header)
         /\ header # Absent => Selected(header) # {}
         /\ (reply.status = 200) = (header = Absent)
         /\ reply.body = IF head THEN {} ELSE Selected(header)

\* The slice bytes[start..end] cannot panic, and Content-Range and the length
\* announced to GET and HEAD alike describe that slice; end - 1 cannot wrap.
SliceIsSound ==
    reply.status # 416 =>
        /\ 0 <= reply.start /\ reply.start <= reply.end /\ reply.end <= size
        /\ reply.length = reply.end - reply.start
        /\ reply.status = 206 => reply.start <= reply.last /\ reply.last + 1 = reply.end
=============================================================================
