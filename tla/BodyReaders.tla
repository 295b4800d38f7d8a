---------------------------- MODULE BodyReaders ----------------------------
(***************************************************************************)
(* How a response body reaches the caller of Client.Do: the compression    *)
(* transport asks for gzip and installs gzipReadCloser (compression.go),   *)
(* and Do wraps the result in limitedReadCloser (client.go), which a user  *)
(* of StandardClient does without.  The caller reads with buffers of its   *)
(* own choice.                                                             *)
(*                                                                         *)
(* A Read is a set of results <<n, e>> : n bytes and then e.  A body is    *)
(* its number of bytes left; gzip.Reader and the body of net/http are      *)
(* external, and give as few bytes as they like.                           *)
(***************************************************************************)
EXTENDS Integers

CONSTANTS Limit,       \* ClientConfig.MaxResponseBodySize, no limit below 1
          Length,      \* sizes of the content
          Buffer       \* sizes of the buffers the caller reads with

ASSUME ReaderAssumption ==
    /\ Limit \in Int
    /\ Length \subseteq Nat
    /\ Buffer \subseteq Nat \ {0}

VARIABLES wrapped,    \* the response came through Do
          decoding,   \* RoundTrip installed a gzipReadCloser
          body,       \* what the service sends: the form and the size of it
          left,       \* bytes of it the innermost reader has still to give
          zr,         \* gzipReadCloser's zr and zerr
          unzipped,   \* gzipReadCloser.bytesRead
          read,       \* limitedReadCloser.read
          delivered,  \* ghost: bytes the caller was given
          last        \* what the last Read said

readerVars == <<wrapped, decoding, body, left, zr, unzipped, read, delivered, last>>

\* plain bytes; a gzip stream, whole or cut off; no gzip at all, or an empty one
Form == {"plain", "gzip", "cut", "malformed", "empty"}

Error == {"none", "EOF", "failed", "malformed", "bomb", "tooLarge"}

Smaller(m, n) == IF m < n THEN m ELSE n

ReaderInit ==
    /\ wrapped \in BOOLEAN
    /\ decoding = FALSE
    /\ body = [form |-> "unsent", size |-> 0]
    /\ left = 0
    /\ zr = "nil"
    /\ unzipped = 0 /\ read = 0 /\ delivered = 0
    /\ last = "none"

----------------------------------------------------------------------------
(* The compression transport                                                *)

\* The caller has not set Accept-Encoding or Range and the method is not HEAD.
AddGzip(request) == request = "ordinary"

\* Decode what this transport asked for, when there may be a body.
Decodes(request, form, empty) == AddGzip(request) /\ ~ empty /\ form # "plain"

RoundTrip ==
    /\ body.form = "unsent"
    /\ \E request \in {"ordinary", "acceptEncoding", "range", "head"},
          form \in Form, size \in Length, empty \in BOOLEAN :
        /\ form \in {"malformed", "empty"} \/ request = "head" \/ empty => size = 0
        /\ body' = [form |-> form, size |-> size]
        /\ left' = size
        /\ decoding' = Decodes(request, form, empty)
    /\ UNCHANGED <<wrapped, zr, unzipped, read, delivered, last>>

----------------------------------------------------------------------------
(* The readers                                                              *)

\* gzip.NewReader reads the stream's header: an empty body is an empty stream.
NewReader == CASE body.form = "empty" -> "EOF"
               [] body.form = "malformed" -> "malformed"
               [] OTHER -> "ready"

\* The body of the response: its last bytes may come with EOF or without.
BodyRead(p) ==
    (IF left = 0 THEN {<<0, "EOF">>}
     ELSE {<<n, "none">> : n \in 1 .. Smaller(p, left)}
          \cup (IF left <= p THEN {<<left, "EOF">>} ELSE {}))
    \cup {<<0, "failed">>}

\* gzip.Reader says EOF in a Read of its own, once the checksum is right.
GzipRead(p) ==
    (IF left = 0 THEN {<<0, IF body.form = "cut" THEN "failed" ELSE "EOF">>}
     ELSE {<<n, "none">> : n \in 1 .. Smaller(p, left)})
    \cup {<<0, "failed">>}

\* The reader is made once, and its error is kept.
Opened == IF zr = "nil" THEN NewReader ELSE zr

\* Fault: the buffer is not cut.
WholeBuffer(p, done) == p

\* A limit below 1 is no limit here; the buffer is cut to what may be read.
Unlimited == Limit <= 0
Allowed(p, done) == IF Unlimited THEN p ELSE Smaller(p, Limit - done)

DecodedRead(p) ==
    IF Opened # "ready" THEN {<<0, Opened>>}
    ELSE IF ~ Unlimited /\ unzipped >= Limit THEN {<<0, "bomb">>}
    ELSE GzipRead(Allowed(p, unzipped))

InnerRead(p) == IF decoding THEN DecodedRead(p) ELSE BodyRead(p)

\* Fault: the limit is only noticed once.
ExhaustedOnce == wrapped /\ Limit > 0 /\ read >= Limit /\ last # "tooLarge"

\* limitedReadCloser, which Do installs when there is a limit.
Wrapping == wrapped /\ ~ Unlimited
Exhausted == Wrapping /\ read >= Limit

\* Fault: the body seems to end at the limit (io.LimitReader).
EndsAtLimit(p) ==
    IF Exhausted THEN {<<0, "EOF">>}
    ELSE InnerRead(IF Wrapping THEN Allowed(p, read) ELSE p)

LimitedRead(p) ==
    IF Exhausted THEN {<<0, "tooLarge">>}
    ELSE InnerRead(IF Wrapping THEN Allowed(p, read) ELSE p)

Read ==
    /\ body.form # "unsent"
    /\ \E p \in Buffer : \E r \in LimitedRead(p) :
        /\ left' = left - r[1]
        /\ delivered' = delivered + r[1]
        /\ last' = r[2]
        /\ read' = IF Wrapping THEN read + r[1] ELSE read
        /\ unzipped' = IF decoding THEN unzipped + r[1] ELSE unzipped
    /\ zr' = IF decoding /\ ~ Exhausted THEN Opened ELSE zr
    /\ UNCHANGED <<wrapped, decoding, body>>

ReaderNext == RoundTrip \/ Read

ReaderSpec == ReaderInit /\ [][ReaderNext]_readerVars

----------------------------------------------------------------------------
\* Every variable has its type; what was read is what was delivered.
ReaderTypeOK ==
    /\ {wrapped, decoding} \subseteq BOOLEAN
    /\ body.form \in Form \cup {"unsent"} /\ body.size \in Length \cup {0}
    /\ left \in 0 .. body.size
    /\ zr \in {"nil", "ready", "EOF", "malformed"}
    /\ read = (IF Wrapping THEN delivered ELSE 0)
    /\ unzipped = (IF decoding THEN delivered ELSE 0)
    /\ delivered + left = body.size
    /\ last \in Error

\* A body that ends with EOF is whole: neither limit, nor a stream that is cut
\* off or malformed, ever looks like the end of the content (the two Reads).
EndIsTheEnd ==
    last = "EOF" =>
        /\ left = 0
        /\ decoding => body.form \in {"gzip", "empty"}

\* No Read takes the content past the limit, however the buffers fall.
WithinLimit == Wrapping \/ (decoding /\ ~ Unlimited) => delivered <= Limit

Final == {"tooLarge", "bomb", "malformed"}

\* A body that was refused stays refused: reading on after a limit or a bad
\* header never yields content, nor another verdict (the sticky zerr).
RefusalIsFinal ==
    [][(last \in Final) => last' = last /\ delivered' = delivered]_readerVars

\* "returns ErrResponseBodyTooLarge when more than limit bytes are read"
\* (client.go:929-930): a body that has no more than that is not refused.
LimitFits == body.size <= Limit => last # "tooLarge"
=============================================================================
