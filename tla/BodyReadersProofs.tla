------------------------- MODULE BodyReadersProofs -------------------------
(***************************************************************************)
(* Proofs about BodyReaders for any limit, the ones below 1 included, any  *)
(* sizes of the content and any buffers.                                   *)
(***************************************************************************)
EXTENDS BodyReaders, TLAPS

\* Nothing has happened to a response that has not come.
Unsent ==
    body.form = "unsent" =>
        body.size = 0 /\ ~ decoding /\ zr = "nil" /\ last = "none"

\* What is decoded came as gzip, or claimed to.
Content ==
    /\ decoding => body.form # "plain"
    /\ body.form \in {"malformed", "empty"} => body.size = 0

\* The reader of the stream is made once, and remembers how that went.
Opening == zr # "nil" => decoding /\ zr = NewReader

\* Each refusal has the reason that makes it final.
Reasons ==
    /\ last = "tooLarge" => Exhausted
    /\ last = "bomb" => /\ decoding /\ zr = "ready" /\ ~ Wrapping
                        /\ ~ Unlimited /\ unzipped >= Limit
    /\ last = "malformed" => decoding /\ zr = "malformed"

\* The inductive invariant.
ReaderInv ==
    /\ ReaderTypeOK
    /\ delivered \in Nat
    /\ Unsent /\ Content /\ Opening /\ Reasons
    /\ EndIsTheEnd /\ WithinLimit

----------------------------------------------------------------------------
(* What the buffer is cut to is a buffer, and keeps within the limit.       *)
LEMMA AllowedFacts ==
    ASSUME NEW p \in Nat \ {0}, NEW done \in Nat, Unlimited \/ done < Limit
    PROVE  /\ Allowed(p, done) \in Nat \ {0}
           /\ ~ Unlimited => done + Allowed(p, done) <= Limit
  BY ReaderAssumption DEF Allowed, Smaller, Unlimited

(* The innermost readers give no more than is left and than was asked for,  *)
(* and say EOF only at the end.                                             *)
LEMMA SourceFacts ==
    ASSUME ReaderInv, NEW p \in Nat \ {0}, NEW r \in BodyRead(p) \cup GzipRead(p)
    PROVE  /\ r[1] \in 0 .. left /\ r[1] <= p
           /\ r[2] \in {"none", "EOF", "failed"}
           /\ r[2] = "EOF" => r[1] = left
  <1>1. left \in Nat
    BY ReaderAssumption DEF ReaderInv, ReaderTypeOK
  <1>2. CASE r \in BodyRead(p)
    BY <1>1, <1>2 DEF BodyRead, Smaller
  <1>3. CASE r \in GzipRead(p)
    BY <1>1, <1>3 DEF GzipRead, Smaller
  <1> QED  BY <1>2, <1>3

\* What a Read of the decoding reader, or of the plain one, gives.
Inner(r, p) ==
    /\ r[1] \in 0 .. left /\ r[1] <= p
    /\ r[2] \in Error \ {"tooLarge"}
    /\ decoding /\ ~ Unlimited => unzipped + r[1] <= Limit
    /\ r[2] = "EOF" => r[1] = left /\ (decoding => body.form \in {"gzip", "empty"})
    /\ r[2] = "bomb" => /\ decoding /\ Opened = "ready"
                        /\ ~ Unlimited /\ unzipped >= Limit
    /\ r[2] = "malformed" => decoding /\ Opened = "malformed"
    /\ decoding /\ Opened = "malformed" => r = <<0, "malformed">>
    /\ decoding /\ Opened = "ready" /\ ~ Unlimited /\ unzipped >= Limit =>
        r = <<0, "bomb">>

LEMMA InnerFacts ==
    ASSUME ReaderInv, body.form # "unsent", NEW p \in Nat \ {0}, NEW r \in InnerRead(p)
    PROVE  Inner(r, p)
  <1>1. left \in Nat /\ delivered \in Nat /\ left <= body.size /\ Limit \in Int
        /\ body.size \in Nat /\ body.form \in Form
        /\ unzipped = IF decoding THEN delivered ELSE 0
    BY ReaderAssumption DEF ReaderInv, ReaderTypeOK
  <1>2. CASE ~ decoding
    <2>1. r \in BodyRead(p)
      BY <1>2 DEF InnerRead
    <2> QED  BY <1>2, <2>1, SourceFacts DEF Inner, Error
  <1>3. CASE decoding
    <2>1. r \in DecodedRead(p)
      BY <1>3 DEF InnerRead
    <2>2. Opened = NewReader
      BY DEF Opened, ReaderInv, Opening
    <2>3. CASE Opened # "ready"
      <3>1. r = <<0, Opened>>
        BY <2>1, <2>3 DEF DecodedRead
      <3>2. \/ Opened = "EOF" /\ body.form = "empty" /\ left = 0
            \/ Opened = "malformed" /\ body.form = "malformed"
        BY <1>1, <2>2, <2>3 DEF NewReader, ReaderInv, Content
      <3>3. unzipped <= Limit \/ Unlimited
        BY <1>3, <1>1 DEF ReaderInv, WithinLimit
      <3>4. r[1] = 0 /\ r[2] = Opened
        BY <3>1
      <3>5. unzipped \in Nat
        BY <1>1
      <3>6. CASE Opened = "EOF" /\ body.form = "empty" /\ left = 0
        BY <1>1, <3>3, <3>4, <3>5, <3>6 DEF Inner, Error
      <3>7. CASE Opened = "malformed" /\ body.form = "malformed"
        BY <1>1, <1>3, <3>1, <3>3, <3>4, <3>5, <3>7 DEF Inner, Error
      <3> QED  BY <3>2, <3>6, <3>7
    <2>4. CASE Opened = "ready" /\ ~ Unlimited /\ unzipped >= Limit
      <3>1. r = <<0, "bomb">> /\ r[1] = 0 /\ r[2] = "bomb"
        BY <2>1, <2>4 DEF DecodedRead
      <3>2. unzipped <= Limit
        BY <1>3, <1>1, <2>4 DEF ReaderInv, WithinLimit
      <3> QED  BY <1>1, <1>3, <2>4, <3>1, <3>2 DEF Inner, Error
    <2>5. CASE Opened = "ready" /\ (Unlimited \/ unzipped < Limit)
      <3> DEFINE q == Allowed(p, unzipped)
      <3>1. q \in Nat \ {0} /\ (~ Unlimited => unzipped + q <= Limit) /\ q <= p
        BY <1>1, <2>5, AllowedFacts DEF Allowed, Smaller
      <3>2. r \in GzipRead(q)
        BY <1>1, <2>1, <2>5 DEF DecodedRead
      <3> HIDE DEF q
      <3>3. /\ r[1] \in 0 .. left /\ r[1] <= q
            /\ r[2] \in {"none", "EOF", "failed"} /\ (r[2] = "EOF" => r[1] = left)
        BY <3>1, <3>2, SourceFacts
      <3>4. r[2] = "EOF" => body.form # "cut"
        BY <3>2 DEF GzipRead
      <3>5. body.form \in {"gzip", "cut"}
        BY <1>1, <1>3, <2>2, <2>5 DEF NewReader, Form, ReaderInv, Content
      <3> QED  BY <1>1, <2>5, <3>1, <3>3, <3>4, <3>5 DEF Inner, Error
    <2> QED  BY <1>1, <2>3, <2>4, <2>5
  <1> QED  BY <1>2, <1>3

(* A Read through both readers: refused at the limit, or within it.         *)
LEMMA LimitedFacts ==
    ASSUME ReaderInv, body.form # "unsent", NEW p \in Buffer, NEW r \in LimitedRead(p)
    PROVE  /\ Exhausted => r = <<0, "tooLarge">>
           /\ ~ Exhausted =>
                \E q \in Nat \ {0} : Inner(r, q) /\ (Wrapping => read + q <= Limit)
  <1>1. CASE Exhausted
    BY <1>1 DEF LimitedRead
  <1>2. CASE ~ Exhausted
    <2> DEFINE q == IF Wrapping THEN Allowed(p, read) ELSE p
    <2>1. /\ p \in Nat \ {0} /\ read \in Nat /\ Limit \in Int
      BY ReaderAssumption DEF ReaderInv, ReaderTypeOK
    <2>2. q \in Nat \ {0} /\ (Wrapping => read + q <= Limit)
      BY <1>2, <2>1, AllowedFacts DEF Exhausted, Wrapping
    <2>3. r \in InnerRead(q)
      BY <1>2 DEF LimitedRead
    <2> HIDE DEF q
    <2> QED  BY <1>2, <2>2, <2>3, InnerFacts
  <1> QED  BY <1>1, <1>2

LEMMA ReadKeepsInv ==
    ASSUME ReaderInv, Read
    PROVE  /\ ReaderInv'
           /\ last \in Final => last' = last /\ delivered' = delivered
  <1>1. PICK p \in Buffer : \E r \in LimitedRead(p) :
            /\ left' = left - r[1]
            /\ delivered' = delivered + r[1]
            /\ last' = r[2]
            /\ read' = IF Wrapping THEN read + r[1] ELSE read
            /\ unzipped' = IF decoding THEN unzipped + r[1] ELSE unzipped
    BY DEF Read
  <1>2. PICK r \in LimitedRead(p) :
            /\ left' = left - r[1]
            /\ delivered' = delivered + r[1]
            /\ last' = r[2]
            /\ read' = IF Wrapping THEN read + r[1] ELSE read
            /\ unzipped' = IF decoding THEN unzipped + r[1] ELSE unzipped
    BY <1>1
  <1>3. /\ body.form # "unsent" /\ UNCHANGED <<wrapped, decoding, body>>
        /\ zr' = IF decoding /\ ~ Exhausted THEN Opened ELSE zr
    BY DEF Read
  <1>4. /\ left \in Nat /\ delivered \in Nat /\ delivered + left = body.size
        /\ body.size \in Nat /\ Limit \in Int /\ left <= body.size
        /\ read = (IF Wrapping THEN delivered ELSE 0)
        /\ unzipped = (IF decoding THEN delivered ELSE 0)
        /\ {wrapped, decoding} \subseteq BOOLEAN
    BY ReaderAssumption DEF ReaderInv, ReaderTypeOK
  <1>5. Wrapping' = Wrapping /\ Wrapping \in BOOLEAN
    BY <1>3 DEF Wrapping
  <1>6. CASE Exhausted
    <2>1. r = <<0, "tooLarge">> /\ r[1] = 0 /\ r[2] = "tooLarge"
      BY <1>3, <1>6, LimitedFacts
    <2>2. UNCHANGED <<left, delivered, read, unzipped, zr>> /\ last' = "tooLarge"
      BY <1>2, <1>3, <1>4, <1>6, <2>1
    <2>3. Exhausted' /\ Wrapping /\ read = delivered /\ delivered >= Limit /\ Limit > 0
      BY <1>3, <1>4, <1>6, <2>2 DEF Exhausted, Wrapping, Unlimited
    <2>4. ReaderTypeOK'
      BY <1>3, <1>5, <2>2 DEF ReaderInv, ReaderTypeOK, Error
    <2>5. (Unsent /\ Content /\ Opening /\ Reasons)'
      BY <1>3, <2>2, <2>3
         DEF ReaderInv, Unsent, Content, Opening, Reasons, NewReader
    <2>6. (EndIsTheEnd /\ WithinLimit)'
      BY <1>3, <1>5, <2>2 DEF ReaderInv, EndIsTheEnd, WithinLimit
    <2>7. last \in Final => last = "tooLarge"
      <3>1. last # "bomb"
        BY <2>3 DEF ReaderInv, Reasons
      <3>2. last # "malformed"
        <4>1. last = "malformed" => body.size = 0
          BY <1>3 DEF ReaderInv, Reasons, Opening, NewReader, Content
        <4> QED  BY <1>4, <2>3, <4>1
      <3> QED  BY <3>1, <3>2 DEF Final
    <2> QED  BY <1>4, <2>2, <2>4, <2>5, <2>6, <2>7 DEF ReaderInv
  <1>7. CASE ~ Exhausted
    <2>1. PICK q \in Nat \ {0} : Inner(r, q) /\ (Wrapping => read + q <= Limit)
      <3>1. body.form # "unsent"
        BY <1>3
      <3> QED  BY <1>7, <3>1, LimitedFacts
    <2>2. /\ r[1] \in 0 .. left /\ r[1] <= q /\ r[2] \in Error \ {"tooLarge"}
          /\ left' \in Nat /\ delivered' \in Nat /\ delivered' + left' = body.size
          /\ read' = (IF Wrapping THEN delivered' ELSE 0)
          /\ unzipped' = (IF decoding THEN delivered' ELSE 0)
      BY <1>2, <1>4, <2>1 DEF Inner
    <2>3. Opened = NewReader /\ (decoding => zr' = NewReader) /\ (~ decoding => zr' = zr)
      BY <1>3, <1>7 DEF Opened, ReaderInv, Opening
    <2>4. /\ NewReader' = NewReader /\ Unlimited' = Unlimited
          /\ NewReader \in {"EOF", "malformed", "ready"}
      BY <1>3 DEF NewReader, Unlimited
    <2>5. ReaderTypeOK'
      BY <1>2, <1>3, <1>4, <1>5, <2>2, <2>3, <2>4 DEF ReaderInv, ReaderTypeOK
    <2>6. (Unsent /\ Content)'
      BY <1>3 DEF ReaderInv, Unsent, Content
    <2>7. Opening'
      BY <1>3, <2>3, <2>4 DEF ReaderInv, Opening
    <2>8. Reasons'
      <3>1. last' # "tooLarge"
        BY <1>2, <2>2
      <3>2. last' = "malformed" => decoding' /\ zr' = "malformed"
        BY <1>2, <1>3, <2>1, <2>3 DEF Inner
      <3>3. ASSUME last' = "bomb"
            PROVE  /\ decoding' /\ zr' = "ready" /\ ~ Wrapping'
                   /\ ~ Unlimited' /\ unzipped' >= Limit
        <4>1. decoding /\ Opened = "ready" /\ ~ Unlimited /\ unzipped >= Limit
          BY <1>2, <2>1, <3>3 DEF Inner
        <4>2. ~ Wrapping
          BY <1>4, <1>7, <4>1 DEF Exhausted
        <4> QED  BY <1>2, <1>3, <1>4, <1>5, <2>2, <2>3, <2>4, <4>1, <4>2
      <3> QED  BY <3>1, <3>2, <3>3 DEF Reasons
    <2>9. EndIsTheEnd'
      BY <1>2, <1>3, <1>4, <2>1 DEF Inner, EndIsTheEnd
    <2>10. WithinLimit'
      <3>1. Wrapping => delivered' <= Limit
        BY <1>2, <1>4, <2>1, <2>2
      <3>2. decoding /\ ~ Unlimited => delivered' <= Limit
        BY <1>2, <1>4, <2>1, <2>2 DEF Inner
      <3> QED  BY <1>3, <1>5, <2>4, <3>1, <3>2 DEF WithinLimit
    <2>11. last \in Final => last' = last /\ delivered' = delivered
      <3>1. last # "tooLarge"
        BY <1>7 DEF ReaderInv, Reasons
      <3>2. CASE last = "bomb"
        <4>1. decoding /\ Opened = "ready" /\ ~ Unlimited /\ unzipped >= Limit
          BY <3>2 DEF ReaderInv, Reasons, Opened
        <4>2. r = <<0, "bomb">>
          BY <2>1, <4>1 DEF Inner
        <4> QED  BY <1>2, <1>4, <3>2, <4>2
      <3>3. CASE last = "malformed"
        <4>1. decoding /\ Opened = "malformed"
          BY <3>3 DEF ReaderInv, Reasons, Opened
        <4>2. r = <<0, "malformed">>
          BY <2>1, <4>1 DEF Inner
        <4> QED  BY <1>2, <1>4, <3>3, <4>2
      <3> QED  BY <3>1, <3>2, <3>3 DEF Final
    <2> QED  BY <2>2, <2>5, <2>6, <2>7, <2>8, <2>9, <2>10, <2>11 DEF ReaderInv
  <1> QED  BY <1>6, <1>7

LEMMA RoundTripKeepsInv ==
    ASSUME ReaderInv, RoundTrip
    PROVE  ReaderInv' /\ last \notin Final
  <1>1. PICK request \in {"ordinary", "acceptEncoding", "range", "head"},
             form \in Form, size \in Length, empty \in BOOLEAN :
            /\ form \in {"malformed", "empty"} \/ request = "head" \/ empty => size = 0
            /\ body' = [form |-> form, size |-> size]
            /\ left' = size
            /\ decoding' = Decodes(request, form, empty)
    BY DEF RoundTrip
  <1>2. /\ body.size = 0 /\ ~ decoding /\ zr = "nil" /\ last = "none"
        /\ UNCHANGED <<wrapped, zr, unzipped, read, delivered, last>>
    BY DEF RoundTrip, ReaderInv, Unsent
  <1>3. size \in Nat /\ body'.form = form /\ body'.size = size /\ form # "unsent"
    BY <1>1, ReaderAssumption DEF Form
  <1>4. delivered = 0 /\ read = 0 /\ unzipped = 0
    BY <1>2 DEF ReaderInv, ReaderTypeOK
  <1>5. decoding' \in BOOLEAN /\ (decoding' => form # "plain")
    BY <1>1 DEF Decodes, AddGzip
  <1>6. ReaderTypeOK'
    BY <1>1, <1>2, <1>3, <1>4, <1>5 DEF ReaderInv, ReaderTypeOK, Error, Wrapping
  <1>7. (Unsent /\ Content /\ Opening /\ Reasons)'
    BY <1>1, <1>2, <1>3, <1>5 DEF Unsent, Content, Opening, Reasons
  <1>8. (EndIsTheEnd /\ WithinLimit)'
    BY <1>2, <1>4, ReaderAssumption DEF EndIsTheEnd, WithinLimit, Wrapping, Unlimited
  <1> QED  BY <1>2, <1>4, <1>6, <1>7, <1>8 DEF ReaderInv, Final

LEMMA ReaderInitIsInv == ReaderInit => ReaderInv
  <1> SUFFICES ASSUME ReaderInit PROVE ReaderInv
    OBVIOUS
  <1>1. /\ body.form = "unsent" /\ body.size = 0 /\ ~ decoding /\ zr = "nil"
        /\ last = "none" /\ left = 0 /\ delivered = 0 /\ unzipped = 0 /\ read = 0
        /\ wrapped \in BOOLEAN /\ decoding = FALSE
    BY DEF ReaderInit
  <1>2. ReaderTypeOK
    <2>1. {wrapped, decoding} \subseteq BOOLEAN
      BY <1>1
    <2>2. left \in 0 .. body.size /\ delivered + left = body.size
      BY <1>1
    <2> QED  BY <1>1, <2>1, <2>2 DEF ReaderTypeOK, Error
  <1>3. Unsent /\ Content /\ Opening /\ Reasons /\ EndIsTheEnd
    BY <1>1 DEF Unsent, Content, Opening, Reasons, EndIsTheEnd
  <1>4. WithinLimit
    BY <1>1, ReaderAssumption DEF WithinLimit, Wrapping, Unlimited
  <1> QED  BY <1>1, <1>2, <1>3, <1>4 DEF ReaderInv

LEMMA ReaderStepKeepsInv == ReaderInv /\ [ReaderNext]_readerVars => ReaderInv'
  <1>1. ReaderInv /\ UNCHANGED readerVars => ReaderInv'
    BY DEF readerVars, ReaderInv, ReaderTypeOK, Unsent, Content, Opening, Reasons,
           EndIsTheEnd, WithinLimit, Wrapping, Unlimited, Exhausted, NewReader
  <1> QED  BY <1>1, ReadKeepsInv, RoundTripKeepsInv DEF ReaderNext

(* The inductive invariant holds in every reachable state.                  *)
THEOREM ReaderInvariance == ReaderSpec => []ReaderInv
  BY ReaderInitIsInv, ReaderStepKeepsInv, PTL DEF ReaderSpec

(* Both counters count what the caller was given, byte for byte.            *)
THEOREM ReaderTypes == ReaderSpec => []ReaderTypeOK
  <1>1. ReaderInv => ReaderTypeOK
    BY DEF ReaderInv
  <1> QED  BY <1>1, ReaderInvariance, PTL

(* For any limit and any buffers, EOF means that all of the content was     *)
(* given, and that a stream that was decoded was whole (limitedReadCloser   *)
(* over gzipReadCloser).                                                    *)
THEOREM EndsAreWhole == ReaderSpec => []EndIsTheEnd
  <1>1. ReaderInv => EndIsTheEnd
    BY DEF ReaderInv
  <1> QED  BY <1>1, ReaderInvariance, PTL

(* The stacked limits never let a byte too many through (the two Reads).    *)
THEOREM LimitsHold == ReaderSpec => []WithinLimit
  <1>1. ReaderInv => WithinLimit
    BY DEF ReaderInv
  <1> QED  BY <1>1, ReaderInvariance, PTL

(* Once a limit or a bad header has refused a body, every later Read says   *)
(* the same and gives nothing (the sticky zerr and the two counters).       *)
THEOREM RefusalsStay == ReaderSpec => RefusalIsFinal
  <1>1. ReaderInv /\ [ReaderNext]_readerVars =>
            [(last \in Final) => last' = last /\ delivered' = delivered]_readerVars
    BY ReadKeepsInv, RoundTripKeepsInv DEF ReaderNext
  <1> QED  BY <1>1, ReaderInvariance, PTL DEF ReaderSpec, RefusalIsFinal
=============================================================================
