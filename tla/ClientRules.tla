----------------------------- MODULE ClientRules -----------------------------
(***************************************************************************)
(* Pure rules of the client, each applied to every input of a small set    *)
(* and compared with a definition of what it is for: the decisions, and    *)
(* the rules defined by recursion, which are the staging path of an        *)
(* update, percent encoding, and the DER writer with the certificate       *)
(* request built on it.                                                    *)
(*                                                                         *)
(* Characters are their byte values.                                       *)
(***************************************************************************)
EXTENDS Decisions, FiniteSets

VARIABLES
    item,    \* the rule and its input
    result   \* what the rule returned; <<>> before it is applied

rulesVars == <<item, result>>

-----------------------------------------------------------------------------
(* The inputs of the decisions.                                            *)

OperatingSystem == [rule : {"tier"}, major : {6, 10}, arch : {"X64", "Arm64"},
            sku : {"Client", "Server", "ServerCore"},
            build : {18361, 18362, 19045, 20347, 20348, 21999, 22000}]

Device == [container : {0, 1, 2}, name : {1, 2}, active : BOOLEAN, render : BOOLEAN]
Pinned == [container : {1, 2}, name : {0, 1, 2}]
Choice == [rule : {"pinned"}, pinned : SeqOf(Pinned, 2), devices : SeqOf(Device, 2)]

Base == 11
Offer == [rule : {"update"}, current : {<<0, 2>>, <<0, 10, 0>>, <<2>>, <<2, 0, 0, 0>>, <<Bad>>},
          staged : SeqOf({0, 2, 10, Bad}, 4), inCall : BOOLEAN]

Drag == [rule : {"snap"}, at : (-6)..16, size : {2, 4, 12}, start : {0, 3}, length : {8, 10},
         threshold : {0, 2}]

Portal == [rule : {"portal"}, path : SeqOf({Slash, Backslash, Dot, Colon, Letter}, 5)]

Url == [rule : {"uplink"}, scheme : {"wss", "ws", "https"},
        tokens : SeqOf({Local, Other, Colon, Slash, Port}, 4)
                   \cup {Bracketed \o t : t \in SeqOf({Other, Colon, Slash, Port}, 2)}]

Pair == {<<"code", 0>>, <<"code", 1>>, <<"state", 1>>, <<"state", 2>>, <<"error", 1>>}
Incoming == [path : {"callback"}, pairs : SeqOf(Pair, 3)]
              \cup [path : {"other", "malformed"}, pairs : {<<>>}]
Redirect == [rule : {"redirect"}, requests : SeqOf(Incoming, 2)]

-----------------------------------------------------------------------------
(* staging_path: keep letters, digits, dots and dashes, then halve runs of *)
(* dots until there is no pair left.                                       *)

Dash == 45
Version == [rule : {"path"}, text : SeqOf({Dot, Slash, Backslash, Letter}, 5)]

HasPair(s) == \E i \in 1..(Len(s) - 1) : s[i] = Dot /\ s[i + 1] = Dot

\* str::replace("..", "."), left to right without overlap.
RECURSIVE Replaced(_)
Replaced(s) ==
    IF Len(s) < 2 THEN s
    ELSE IF s[1] = Dot /\ s[2] = Dot THEN <<Dot>> \o Replaced(SubSeq(s, 3, Len(s)))
    ELSE <<s[1]>> \o Replaced(Tail(s))

RECURSIVE NoPairs(_)
NoPairs(s) == IF HasPair(s) THEN NoPairs(Replaced(s)) ELSE s

StagingPath(v) == NoPairs(SelectSeq(v.text, LAMBDA c : c \in {Dot, Dash, Letter}))

\* No separator, no way up, and every letter of the version still there.
PathRight(v, p) ==
    /\ ToSet(p) \cap {Slash, Backslash} = {}
    /\ ~HasPair(p)
    /\ Len(SelectSeq(p, LAMBDA c : c = Letter)) = Len(SelectSeq(v.text, LAMBDA c : c = Letter))

-----------------------------------------------------------------------------
(* pkce.rs percent_encode and percent_decode, on the bytes of a string.    *)

Text == [rule : {"percent"}, chars : SeqOf({<<97>>, <<65>>, <<52>>, <<49>>, <<37>>,
                                             <<43>>, <<32>>, <<126>>, <<195, 169>>}, 3)]
Bytes(t) == FlattenSeq(t.chars)

Unreserved(b) == b \in 65..90 \cup 97..122 \cup 48..57 \cup {45, 46, 95, 126}
HexDigit(n) == IF n < 10 THEN 48 + n ELSE 55 + n

PercentEncode(s) ==
    FlattenSeq([i \in DOMAIN s |-> IF Unreserved(s[i]) THEN <<s[i]>>
                                   ELSE <<37, HexDigit(s[i] \div 16), HexDigit(s[i] % 16)>>])

HexValue(b) == IF b \in 48..57 THEN b - 48 ELSE IF b \in 65..70 THEN b - 55
               ELSE IF b \in 97..102 THEN b - 87 ELSE 16

\* u8::from_str_radix of two characters, which takes a plus in front; 256 for neither.
Escaped(a, b) ==
    LET high == IF a = 43 THEN 0 ELSE HexValue(a) IN
    IF high < 16 /\ HexValue(b) < 16 THEN high * 16 + HexValue(b) ELSE 256

\* Mutant of PercentDecode: an escape at the very end is not seen.
RECURSIVE PercentDecodeShort(_)
PercentDecodeShort(s) ==
    IF s = <<>> THEN <<>>
    ELSE IF s[1] = 37 /\ Len(s) > 3 /\ Escaped(s[2], s[3]) < 256
         THEN <<Escaped(s[2], s[3])>> \o PercentDecodeShort(SubSeq(s, 4, Len(s)))
    ELSE <<IF s[1] = 43 THEN 32 ELSE s[1]>> \o PercentDecodeShort(Tail(s))

\* The argument is ASCII: the code panics where an escape would end inside a character.
RECURSIVE PercentDecode(_)
PercentDecode(s) ==
    IF s = <<>> THEN <<>>
    ELSE IF s[1] = 37 /\ Len(s) > 2 /\ Escaped(s[2], s[3]) < 256
         THEN <<Escaped(s[2], s[3])>> \o PercentDecode(SubSeq(s, 4, Len(s)))
    ELSE <<IF s[1] = 43 THEN 32 ELSE s[1]>> \o PercentDecode(Tail(s))

\* What is sent holds no byte that means something in a form, and is read
\* back as it was.
PercentRight(t, e) ==
    /\ \A i \in DOMAIN e : Unreserved(e[i]) \/ e[i] = 37
    /\ PercentDecode(e) = Bytes(t)

\* Values of a redirect as they may arrive, with stray signs.
Query == [rule : {"query"}, text : SeqOf({37, 43, 52, 65, 122}, 5)]

\* No escape holds another's sign, so each byte is read by its own surroundings: a stray
\* sign stands for itself and nothing is dropped.
QueryRight(s, r) ==
    LET EscapeAt(i) == /\ i \in 1..(Len(s) - 2) /\ s[i] = 37
                       /\ Escaped(s[i + 1], s[i + 2]) < 256
        Read(i) == IF EscapeAt(i - 1) \/ EscapeAt(i - 2) THEN <<>>
                   ELSE IF EscapeAt(i) THEN <<Escaped(s[i + 1], s[i + 2])>>
                   ELSE IF s[i] = 43 THEN <<32>> ELSE <<s[i]>>
    IN r = FlattenSeq([i \in DOMAIN s |-> Read(i)])

-----------------------------------------------------------------------------
(* der.rs: definite minimal lengths, unsigned integers, OID arcs.          *)

LengthItem(n) == [rule |-> "length", n |-> n]
Magnitude == [rule : {"integer"}, bytes : SeqOf({0, 1, 127, 128, 255}, 3)]
Arc == [rule : {"arc"}, n : 0..300 \cup {840, 10045, 16383, 16384, 113549}]
Nested == [rule : {"sequence"}, sizes : SeqOf({0, 1, 62, 124, 127, 128, 252}, 2)]

\* The big-endian digits of n without leading zeroes, four at most.
Digits(n, base) ==
    LET all == [i \in 1..4 |-> (n \div base ^ (4 - i)) % base]
        first == CHOOSE i \in 1..4 : /\ i = 4 \/ all[i] # 0
                                     /\ \A j \in 1..(i - 1) : all[j] = 0
    IN SubSeq(all, first, 4)

WriteLen(n) == IF n < 128 THEN <<n>>
               ELSE LET d == Digits(n, 256) IN <<128 + Len(d)>> \o d

Tlv(tag, body) == <<tag>> \o WriteLen(Len(body)) \o body

Sequence(members) == Tlv(48, FlattenSeq(members))

UnsignedInteger(magnitude) ==
    LET trimmed == SubSeq(magnitude, 1 + Len(SelectSeq([i \in DOMAIN magnitude |->
                       \A j \in 1..i : magnitude[j] = 0], LAMBDA zero : zero)), Len(magnitude))
    IN Tlv(2, IF trimmed = <<>> THEN <<0>>
              ELSE IF trimmed[1] >= 128 THEN <<0>> \o trimmed ELSE trimmed)

Base128(n) == LET d == Digits(n, 128) IN
              [i \in DOMAIN d |-> IF i < Len(d) THEN d[i] + 128 ELSE d[i]]

\* A strict reader: the value of digits, the length of a TLV and its body.
Value(digits, base) ==
    FoldSeq(LAMBDA d, acc : d + base * acc, 0, Reverse(digits))
HeaderLen(b) == IF b[2] < 128 THEN 2 ELSE 2 + b[2] - 128
BodyLen(b) == IF b[2] < 128 THEN b[2] ELSE Value(SubSeq(b, 3, HeaderLen(b)), 256)
Body(b) == SubSeq(b, HeaderLen(b) + 1, HeaderLen(b) + BodyLen(b))
Rest(b) == SubSeq(b, HeaderLen(b) + BodyLen(b) + 1, Len(b))

MinimalLen(b) == b[2] >= 128 => b[3] # 0 /\ BodyLen(b) >= 128

LengthRight(n, b) == /\ BodyLen(<<4>> \o b) = n
                     /\ MinimalLen(<<4>> \o b)
                     /\ HeaderLen(<<4>> \o b) = 1 + Len(b)

\* Never negative, no superfluous zero, the same number.
IntegerRight(m, b) ==
    /\ Body(b)[1] < 128
    /\ Len(Body(b)) > 1 => Body(b)[1] # 0 \/ Body(b)[2] >= 128
    /\ Value(Body(b), 256) = Value(m.bytes, 256)

ArcRight(n, b) == /\ Value([i \in DOMAIN b |-> b[i] % 128], 128) = n
                  /\ \A i \in DOMAIN b : b[i] >= 128 <=> i < Len(b)
                  /\ b[1] # 128

\* The members of a constructed value, each a whole tag-length-value.
RECURSIVE Members(_)
Members(b) == IF b = <<>> THEN <<>>
              ELSE <<SubSeq(b, 1, HeaderLen(b) + BodyLen(b))>> \o Members(Rest(b))

-----------------------------------------------------------------------------
(* csr.rs and devicekey: the PKCS#10 request and the signature in it.  The *)
(* key signs whatever bytes it is given; its r and s are an input.         *)

FieldBytes == 2  \* 32 in the code: bytes of r, of s and of a coordinate
Fixed == {0, 1, 127, 128, 255}
Signature == [rule : {"signature"}, raw : SeqOf(Fixed, 2 * FieldBytes)]
Csr == [rule : {"csr"}, name : {0, 1, 38, 127, 128}, point : {<<4, 0, 0>>, <<4, 128, 255>>},
        raw : {<<0, 1, 128, 0>>, <<255, 255, 0, 0>>}]

BitString(bytes) == Tlv(3, <<0>> \o bytes)
Oid(arcs) == Tlv(6, <<40 * arcs[1] + arcs[2]>>
                    \o FlattenSeq([i \in 1..(Len(arcs) - 2) |-> Base128(arcs[i + 2])]))

\* r || s to ECDSA-Sig-Value; <<>> for a signature of another length.
SigDerFromFixed(raw) ==
    IF Len(raw) # 2 * FieldBytes THEN <<>>
    ELSE Sequence(<<UnsignedInteger(SubSeq(raw, 1, FieldBytes)),
                    UnsignedInteger(SubSeq(raw, FieldBytes + 1, Len(raw)))>>)

EcPublicKey == <<1, 2, 840, 10045, 2, 1>>
Prime256v1 == <<1, 2, 840, 10045, 3, 1, 7>>
EcdsaWithSha256 == <<1, 2, 840, 10045, 4, 3, 2>>
CommonName == <<2, 5, 4, 3>>
Organization == <<2, 5, 4, 10>>

Spki(point) == Sequence(<<Sequence(<<Oid(EcPublicKey), Oid(Prime256v1)>>), BitString(point)>>)

Rdn(arcs, value) == Tlv(49, Sequence(<<Oid(arcs), Tlv(12, value)>>))

RequestInfo(spki, name) ==
    Sequence(<<Tlv(2, <<0>>),
               Sequence(<<Rdn(CommonName, name), Rdn(Organization, <<77, 86>>)>>),
               spki,
               Tlv(160, <<>>)>>)

\* build_csr_der, with the bytes that were signed.
BuildCsr(c) ==
    LET info == RequestInfo(Spki(c.point), [i \in 1..c.name |-> 97]) IN
    [signed |-> info,
     der |-> Sequence(<<info, Sequence(<<Oid(EcdsaWithSha256)>>),
                        BitString(SigDerFromFixed(c.raw))>>)]

\* Two non-negative minimal integers with the values of r and s, or a refusal.
SignatureRight(raw, b) ==
    IF Len(raw) # 2 * FieldBytes THEN b = <<>>
    ELSE LET parts == Members(Body(b)) IN
         /\ Rest(b) = <<>> /\ Len(parts) = 2
         /\ \A i \in 1..2 : IntegerRight(
               [bytes |-> SubSeq(raw, 1 + (i - 1) * FieldBytes, i * FieldBytes)], parts[i])

\* What a strict reader finds: the signed bytes as they stand, the name, the
\* key under its named curve, no attributes, no algorithm parameters.
CsrRight(c, r) ==
    LET top == Members(Body(r.der))
        info == Members(Body(top[1]))
        rdns == Members(Body(info[2]))
        cn == Members(Body(Members(Body(rdns[1]))[1]))
        key == Members(Body(info[3])) IN
    /\ Rest(r.der) = <<>> /\ Len(top) = 3
    /\ top[1] = r.signed
    /\ Len(info) = 4 /\ info[4] = <<160, 0>>
    /\ Len(rdns) = 2 /\ Len(Body(cn[2])) = c.name
    /\ Len(Members(Body(key[1]))) = 2
    /\ Body(key[2]) = <<0>> \o c.point
    /\ Len(Members(Body(top[2]))) = 1
    /\ SignatureRight(c.raw, Tail(Body(top[3])))

-----------------------------------------------------------------------------
Zero(n) == [i \in 1..n |-> 0]

\* Every rule applied to its input.
Apply ==
    /\ result = <<>>
    /\ result' = CASE item.rule = "tier" -> <<SentinelCaptureTier(item)>>
                   [] item.rule = "pinned" -> <<ResolvePinned(item)>>
                   [] item.rule = "update" -> <<Decide(item)>>
                   [] item.rule = "path" -> <<StagingPath(item)>>
                   [] item.rule = "snap" -> <<SnapToEdge(item)>>
                   [] item.rule = "percent" -> <<PercentEncode(Bytes(item))>>
                   [] item.rule = "query" -> <<PercentDecode(item.text)>>
                   [] item.rule = "length" -> <<WriteLen(item.n)>>
                   [] item.rule = "integer" -> <<UnsignedInteger(item.bytes)>>
                   [] item.rule = "arc" -> <<Base128(item.n)>>
                   [] item.rule = "signature" -> <<SigDerFromFixed(item.raw)>>
                   [] item.rule = "csr" -> <<BuildCsr(item)>>
                   [] item.rule = "portal" -> <<ValidatePortalPath(item.path)>>
                   [] item.rule = "uplink" -> <<Dialled(item)>>
                   [] item.rule = "redirect" -> <<ExchangedCode(item.requests)>>
                   [] item.rule = "sequence" ->
                        <<Sequence([i \in DOMAIN item.sizes |-> Tlv(4, Zero(item.sizes[i]))])>>
    /\ UNCHANGED item

RulesInit ==
    /\ item \in OperatingSystem \cup Offer \cup Version \cup Drag \cup Text \cup Magnitude \cup Arc
                \cup Nested \cup Signature \cup Csr \cup Portal \cup Url \cup Redirect \cup Query
                \cup {LengthItem(n) : n \in 0..300 \cup {65535, 65536, 16777216}}
       \/ item \in Choice
    /\ result = <<>>

RulesNext == Apply

(***************************************************************************)
(* Each rule does what it is for on every input of its set, zero, the      *)
(* boundaries of its encodings and inputs outside its expectations         *)
(* included (tier.rs, device.rs, update.rs, widget/mod.rs, pkce.rs,        *)
(* der.rs; see the definitions ending in Right).                           *)
(***************************************************************************)
RulesRight ==
    result # <<>> =>
      LET r == result[1] IN
      CASE item.rule = "tier" -> TierRight(item, r)
        [] item.rule = "redirect" -> RedirectRight(item.requests, r)
        [] item.rule = "pinned" -> PinnedRight(item, r)
        [] item.rule = "update" -> UpdateRight(item, Base, r)
        [] item.rule = "path" -> PathRight(item, r)
        [] item.rule = "snap" -> SnapRight(item, r)
        [] item.rule = "percent" -> PercentRight(item, r)
        [] item.rule = "query" -> QueryRight(item.text, r)
        [] item.rule = "length" -> LengthRight(item.n, r)
        [] item.rule = "integer" -> IntegerRight(item, r)
        [] item.rule = "arc" -> ArcRight(item.n, r)
        [] item.rule = "sequence" -> /\ r[1] = 48
                                     /\ Rest(r) = <<>>
                                     /\ LET found == Members(Body(r)) IN
                                        [i \in DOMAIN found |-> Len(Body(found[i]))]
                                           = item.sizes
        [] item.rule = "signature" -> SignatureRight(item.raw, r)
        [] item.rule = "csr" -> CsrRight(item, r)
        [] item.rule = "portal" -> PortalRight(item.path, r)
        [] item.rule = "uplink" -> DialledRight(item, r)
==============================================================================
