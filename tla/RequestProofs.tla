---------------------------- MODULE RequestProofs ----------------------------
(***************************************************************************)
(* What Request promises, for every host, port, path and length: the       *)
(* length fields across byte orders, what find() meets in a header, and    *)
(* with them the three invariants.                                         *)
(***************************************************************************)
EXTENDS Request, TLAPS, WellFoundedInduction
-----------------------------------------------------------------------------
(* The length fields.                                                      *)

\* The k-th digit of n to the base 256.
Digit(n, k) == (n \div Weight[k]) % 256

\* A number that three bytes of a field hold.
Fits(n) == n \in Nat /\ n < 16777216

LEMMA FourDigits ==
  ASSUME NEW n \in Nat, Fits(n)
  PROVE  /\ Digit(n, 1) \in Nat /\ Digit(n, 2) \in Nat /\ Digit(n, 3) \in Nat
         /\ Digit(n, 4) = 0
         /\ n = Digit(n, 1) + 256 * Digit(n, 2) + 65536 * Digit(n, 3)
<1> DEFINE q == n \div 256
<1>1. /\ Digit(n, 1) = (n \div 1) % 256 /\ Digit(n, 2) = q % 256
      /\ Digit(n, 3) = (n \div 65536) % 256 /\ Digit(n, 4) = (n \div 16777216) % 256
  BY SMT DEF Digit, Weight
<1>2. /\ n \div 1 = n /\ n = (n % 256) + 256 * q /\ n % 256 \in 0 .. 255
      /\ q \in Nat /\ n \div 65536 = q \div 256
  BY SMTT(60)
<1>3. n \div 16777216 = 0 /\ q < 65536
  BY SMTT(60) DEF Fits
<1> HIDE DEF q
<1>4. /\ q = (q % 256) + 256 * (q \div 256) /\ q % 256 \in 0 .. 255
      /\ q \div 256 \in 0 .. 255 /\ (q \div 256) % 256 = q \div 256
  BY <1>2, <1>3, SMTT(60)
<1>5. /\ Digit(n, 1) = n % 256 /\ Digit(n, 2) = q % 256
      /\ Digit(n, 3) = q \div 256 /\ Digit(n, 4) = 0
  BY <1>1, <1>2, <1>3, <1>4, SMT
<1> QED
  BY <1>2, <1>4, <1>5, SMT

LEMMA TwoDigits ==
  ASSUME NEW n \in Nat, n < 65536
  PROVE  /\ Digit(n, 1) \in Nat /\ Digit(n, 2) \in Nat
         /\ n = Digit(n, 1) + 256 * Digit(n, 2)
<1>1. Digit(n, 1) = (n \div 1) % 256 /\ Digit(n, 2) = (n \div 256) % 256
  BY SMT DEF Digit, Weight
<1>2. n \div 1 = n /\ n = (n % 256) + 256 * ((n \div 256) % 256)
  BY SMTT(30)
<1> QED
  BY <1>1, <1>2, SMT

\* A field has the digits from the least significant one on, or up to it.
LEMMA BytesAre ==
  ASSUME NEW n \in Nat
  PROVE  /\ Len(Bytes("little", n, 2)) = 2 /\ Len(Bytes("little", n, 4)) = 4
         /\ Len(Bytes("big", n, 2)) = 2 /\ Len(Bytes("big", n, 4)) = 4
         /\ \A k \in 1 .. 2 : /\ Bytes("little", n, 2)[k] = Digit(n, k)
                             /\ Bytes("big", n, 2)[k] = Digit(n, 3 - k)
         /\ \A k \in 1 .. 4 : /\ Bytes("little", n, 4)[k] = Digit(n, k)
                             /\ Bytes("big", n, 4)[k] = Digit(n, 5 - k)
  BY SMT DEF Bytes, Digit

\* What a machine reads in a field.
LEMMA ValueOfTwo ==
  ASSUME NEW b, Len(b) = 2, b[1] \in Nat, b[2] \in Nat
  PROVE  /\ Value("little", b) = b[1] + 256 * b[2]
         /\ Value("big", b) = b[2] + 256 * b[1]
  BY SMT DEF Value, Weight

LEMMA ValueOfFour ==
  ASSUME NEW b, Len(b) = 4, b[1] \in Nat, b[2] \in Nat, b[3] \in Nat, b[4] \in Nat
  PROVE  /\ Value("little", b) = b[1] + 256 * b[2] + 65536 * b[3] + 16777216 * b[4]
         /\ Value("big", b) = b[4] + 256 * b[3] + 65536 * b[2] + 16777216 * b[1]
  BY SMT DEF Value, Weight

\* A number comes back from a field that is wide enough; in the other order
\* its digits are read from the other end.
LEMMA ReadingTwo ==
  ASSUME NEW n \in Nat
  PROVE  /\ n < 65536 => /\ Value("little", Bytes("little", n, 2)) = n
                         /\ Value("big", Bytes("big", n, 2)) = n
         /\ Value("big", Bytes("little", n, 2)) = Digit(n, 2) + 256 * Digit(n, 1)
         /\ Value("little", Bytes("big", n, 2)) = Digit(n, 2) + 256 * Digit(n, 1)
<1> DEFINE little2 == Bytes("little", n, 2)
           big2 == Bytes("big", n, 2)
<1>1. Digit(n, 1) \in Nat /\ Digit(n, 2) \in Nat
  BY SMT DEF Digit, Weight
<1>2. Len(little2) = 2 /\ little2[1] = Digit(n, 1) /\ little2[2] = Digit(n, 2)
  BY BytesAre, SMT
<1>3. Len(big2) = 2 /\ big2[2] = Digit(n, 1) /\ big2[1] = Digit(n, 2)
  BY BytesAre, SMT
<1>4. n < 65536 => n = Digit(n, 1) + 256 * Digit(n, 2)
  BY TwoDigits, SMT
<1> HIDE DEF little2, big2
<1>5. /\ n < 65536 => Value("little", little2) = n
      /\ Value("big", little2) = Digit(n, 2) + 256 * Digit(n, 1)
  BY <1>1, <1>2, <1>4, ValueOfTwo, SMT
<1>6. /\ n < 65536 => Value("big", big2) = n
      /\ Value("little", big2) = Digit(n, 2) + 256 * Digit(n, 1)
  BY <1>1, <1>3, <1>4, ValueOfTwo, SMT
<1> QED
  BY <1>5, <1>6, SMT DEF little2, big2

\* The digits of n from the other end.
Swapped(n) == Digit(n, 4) + 256 * Digit(n, 3) + 65536 * Digit(n, 2) + 16777216 * Digit(n, 1)

LEMMA ReadingFour ==
  ASSUME NEW n \in Nat, Fits(n)
  PROVE  /\ Value("little", Bytes("little", n, 4)) = n
         /\ Value("big", Bytes("big", n, 4)) = n
         /\ Value("big", Bytes("little", n, 4)) = Swapped(n)
         /\ Value("little", Bytes("big", n, 4)) = Swapped(n)
<1> DEFINE little4 == Bytes("little", n, 4)
           big4 == Bytes("big", n, 4)
<1>1. /\ Digit(n, 1) \in Nat /\ Digit(n, 2) \in Nat /\ Digit(n, 3) \in Nat
      /\ Digit(n, 4) \in Nat
      /\ n = Digit(n, 1) + 256 * Digit(n, 2) + 65536 * Digit(n, 3) + 16777216 * Digit(n, 4)
  <2>1. /\ Digit(n, 1) \in Nat /\ Digit(n, 2) \in Nat /\ Digit(n, 3) \in Nat
        /\ Digit(n, 4) = 0
        /\ n = Digit(n, 1) + 256 * Digit(n, 2) + 65536 * Digit(n, 3)
    BY FourDigits
  <2> QED
    BY <2>1, SMT
<1>2. /\ Len(little4) = 4 /\ little4[1] = Digit(n, 1) /\ little4[2] = Digit(n, 2)
      /\ little4[3] = Digit(n, 3) /\ little4[4] = Digit(n, 4)
  BY BytesAre, SMT
<1>3. /\ Len(big4) = 4 /\ big4[4] = Digit(n, 1) /\ big4[3] = Digit(n, 2)
      /\ big4[2] = Digit(n, 3) /\ big4[1] = Digit(n, 4)
  BY BytesAre, SMT
<1> HIDE DEF little4, big4
<1>4. Value("little", little4) = n /\ Value("big", little4) = Swapped(n)
  BY <1>1, <1>2, ValueOfFour, SMT DEF Swapped
<1>5. Value("big", big4) = n /\ Value("little", big4) = Swapped(n)
  BY <1>1, <1>3, ValueOfFour, SMT DEF Swapped
<1> QED
  BY <1>4, <1>5, SMT DEF little4, big4

\* What a machine reads is a number.
LEMMA ReadingIsNat ==
  ASSUME NEW n \in Nat, Fits(n),
         NEW order \in ByteOrders, NEW other \in ByteOrders
  PROVE  Value(other, Bytes(order, n, 4)) \in Nat
<1>1. /\ Digit(n, 1) \in Nat /\ Digit(n, 2) \in Nat /\ Digit(n, 3) \in Nat
      /\ Digit(n, 4) = 0
  BY FourDigits
<1>2. Swapped(n) \in Nat
  BY <1>1, SMT DEF Swapped
<1> QED
  BY <1>2, ReadingFour, SMT DEF ByteOrders

LEMMA SameOrder ==
  ASSUME NEW n \in Nat, Fits(n), NEW order \in ByteOrders
  PROVE  /\ n < 65536 => Value(order, Bytes(order, n, 2)) = n
         /\ Value(order, Bytes(order, n, 4)) = n
  BY ReadingTwo, ReadingFour, SMT DEF ByteOrders

\* The two lengths of a frame from a machine of the other order never agree on
\* a frame that is short enough: if the upper two bytes of n + 2 are all that
\* is left of it there, the lower two of n are 255 and 254.
LEMMA OtherOrder ==
  ASSUME NEW n \in Nat, Fits(n + 2), DataMaxLength \in Nat, DataMaxLength < 65281,
         NEW order \in ByteOrders, NEW other \in ByteOrders, order # other,
         Value(other, Bytes(order, n + 2, 4)) <= DataMaxLength
  PROVE  Value(other, Bytes(order, n, 2)) + 2 # Value(other, Bytes(order, n + 2, 4))
<1>1. /\ Value(other, Bytes(order, n + 2, 4)) = Swapped(n + 2)
      /\ Value(other, Bytes(order, n, 2)) = Digit(n, 2) + 256 * Digit(n, 1)
  BY ReadingTwo, ReadingFour, SMT DEF ByteOrders
<1>2. Digit(n + 2, 1) = 0 /\ Digit(n + 2, 2) = 0
  <2> DEFINE m == n + 2
             d(k) == Digit(m, k)
  <2>0. m \in Nat /\ Fits(m)
    BY SMT
  <2>1. d(1) \in Nat /\ d(2) \in Nat /\ d(3) \in Nat /\ d(4) = 0
    <3> HIDE DEF m
    <3> QED
      BY <2>0, FourDigits
  <2>2. Swapped(n + 2) < 65281
    BY <1>1, <2>1, SMT DEF Swapped
  <2>3. d(4) + 256 * d(3) + 65536 * d(2) + 16777216 * d(1) < 65281
    BY <2>2, SMT DEF Swapped
  <2> HIDE DEF d
  <2>4. d(1) = 0 /\ d(2) = 0
    BY <2>1, <2>3, SMT
  <2> QED
    BY <2>4 DEF d
<1>3. /\ Digit(n + 2, 1) = (n + 2) % 256 /\ Digit(n + 2, 2) = ((n + 2) \div 256) % 256
      /\ Digit(n, 1) = n % 256 /\ Digit(n, 2) = (n \div 256) % 256
  <2>1. (n + 2) \div 1 = n + 2 /\ n \div 1 = n
    BY SMT
  <2> QED
    BY <2>1, SMT DEF Digit, Weight
<1>4. Digit(n, 1) = 254 /\ Digit(n, 2) = 255
  BY <1>2, <1>3, SMTT(60)
<1> QED
  BY <1>1, <1>4, SMT
-----------------------------------------------------------------------------
(* Texts, and find() and sub_string() on them.                             *)

\* What a text is made of: STRING, and the strings written in Request.  (They
\* are in STRING, but the provers do not know it.)
Literals ==
  Searched \cup {"default", "/", "GET", "CONNECT", "HTTP/1.1", "80", "443",
                 "127.0.0.1", "localhost", "1080", "/proxy.pac"}

Tokens == STRING \cup Literals

LEMMA LiteralsAreTokens == Literals \subseteq Tokens /\ STRING \subseteq Tokens
  BY DEF Tokens

\* The first token that is the one looked for is found.
LEMMA FindIs ==
  ASSUME NEW text, NEW token, NEW from \in Nat, Len(text) \in Nat,
         NEW n \in from .. Len(text), text[n] = token,
         \A k \in from .. n - 1 : text[k] # token
  PROVE  Find(text, token, from) = n
<1> DEFINE I == {k \in from .. Len(text) : text[k] = token}
<1>1. n \in I /\ \A k \in I : k >= n /\ I \subseteq Int
  OBVIOUS
<1>2. Min(I) = n
  BY <1>1 DEF Min
<1> QED
  BY <1>1, <1>2 DEF Find, SelectInSubSeq

\* No such token, no position.
LEMMA FindNone ==
  ASSUME NEW text, NEW token, NEW from \in Nat,
         \A k \in from .. Len(text) : text[k] # token
  PROVE  Find(text, token, from) = 0
  BY DEF Find, SelectInSubSeq

\* What stands between the first s and the next e.
LEMMA SubStringIs ==
  ASSUME NEW text \in Seq(Tokens), NEW s, NEW e,
         NEW from \in 1 .. Len(text), NEW to \in from + 1 .. Len(text),
         text[from] = s, \A k \in 1 .. from - 1 : text[k] # s,
         text[to] = e, \A k \in from + 1 .. to - 1 : text[k] # e
  PROVE  SubString(text, s, e) = SubSeq(text, from + 1, to - 1)
<1>1. Find(text, s, 1) = from
  BY FindIs
<1>2. Find(text, e, from + 1) = to
  BY FindIs
<1> QED
  BY <1>1, <1>2 DEF SubString

LEMMA SubStringNone ==
  ASSUME NEW text \in Seq(Tokens), NEW s, NEW e, \A k \in 1 .. Len(text) : text[k] # s
  PROVE  SubString(text, s, e) = <<>>
<1>1. Find(text, s, 1) = 0
  BY FindNone
<1> QED
  BY <1>1 DEF SubString

\* A prefix, token by token.
LEMMA StartsWithIs ==
  ASSUME NEW text \in Seq(Tokens), NEW s \in Seq(Tokens)
  PROVE  StartsWith(text, s) <=> Len(s) <= Len(text) /\ \A k \in 1 .. Len(s) : text[k] = s[k]
<1>1. SubSeq(s, 1, Len(s)) = s
  OBVIOUS
<1>2. ASSUME Len(s) <= Len(text)
      PROVE  /\ Len(SubSeq(text, 1, Len(s))) = Len(s)
             /\ SubSeq(text, 1, Len(s)) \in Seq(Tokens)
             /\ \A k \in 1 .. Len(s) : SubSeq(text, 1, Len(s))[k] = text[k]
  BY <1>2
<1>3. ASSUME Len(s) <= Len(text), \A k \in 1 .. Len(s) : text[k] = s[k]
      PROVE  SubSeq(text, 1, Len(s)) = s
  BY <1>2, <1>3
<1> QED
  BY <1>1, <1>2, <1>3 DEF StartsWith, IsPrefix

LEMMA ConcatIs ==
  ASSUME NEW s \in Seq(Tokens), NEW t \in Seq(Tokens)
  PROVE  /\ s \o t \in Seq(Tokens) /\ Len(s \o t) = Len(s) + Len(t)
         /\ \A k \in 1 .. Len(s) : (s \o t)[k] = s[k]
         /\ \A k \in 1 .. Len(t) : (s \o t)[Len(s) + k] = t[k]
  OBVIOUS

\* The same sequence, token by token.
LEMMA SubSeqIs ==
  ASSUME NEW text \in Seq(Tokens), NEW s \in Seq(Tokens), NEW m \in Nat, m + Len(s) <= Len(text),
         \A k \in 1 .. Len(s) : text[m + k] = s[k]
  PROVE  SubSeq(text, m + 1, m + Len(s)) = s
<1>1. /\ Len(SubSeq(text, m + 1, m + Len(s))) = Len(s)
      /\ SubSeq(text, m + 1, m + Len(s)) \in Seq(Tokens)
      /\ \A k \in 1 .. Len(s) : SubSeq(text, m + 1, m + Len(s))[k] = text[m + k]
  OBVIOUS
<1> QED
  BY <1>1
-----------------------------------------------------------------------------
(* The header of a request, token by token.                                *)

LEMMA IntentIs ==
  ASSUME NEW i \in Intents
  PROVE  /\ i.form \in {"absolute", "authority", "origin"}
         /\ i.scheme \in {"http://", "https://"} /\ i.scheme \in Tokens
         /\ i.named \in BOOLEAN
         /\ i.host \in Tokens /\ i.host \notin Searched
         /\ i.port \in Tokens /\ i.port \notin Searched
         /\ i.path \in Paths /\ i.path \in Seq(Tokens)
         /\ Len(i.path) \in Nat /\ Len(i.path) > 0 /\ i.path[1] # ":"
         /\ \A k \in 1 .. Len(i.path) : i.path[k] \in Tokens /\ i.path[k] \notin Searched \ {":"}
         /\ i.form = "authority" => i.scheme = "https://" /\ i.port # "default" /\ i.path = <<"/">>
         /\ i.form = "origin" => i.scheme = "http://"
<1>1. /\ i.form \in {"absolute", "authority", "origin"}
      /\ i.scheme \in {"http://", "https://"} /\ i.named \in BOOLEAN
      /\ i.host \in Hosts /\ i.port \in Ports \cup {"default"} /\ i.path \in Paths
      /\ i.form = "authority" => i.scheme = "https://" /\ i.port # "default" /\ i.path = <<"/">>
      /\ i.form = "origin" => i.scheme = "http://"
  BY DEF Intents
<1>2. i.host \in Tokens \ Searched /\ i.port \in Tokens \ Searched
  <2>1. "default" \in Tokens
    BY LiteralsAreTokens DEF Literals
  <2>2. "default" \notin Searched
    BY Zenon DEF Searched, Blank, HostField
  <2> QED
    BY <1>1, <2>1, <2>2, TextAssumption, LiteralsAreTokens
<1>3. /\ i.path \in Seq((STRING \ Searched) \cup {":"})
      /\ i.path # <<>> /\ i.path[1] # ":"
  BY <1>1, TextAssumption
<1>4. \A k \in 1 .. Len(i.path) : i.path[k] \in (STRING \ Searched) \cup {":"}
  BY <1>3
<1>5. \A k \in 1 .. Len(i.path) : i.path[k] \in Tokens /\ i.path[k] \notin Searched \ {":"}
  <2> TAKE k \in 1 .. Len(i.path)
  <2>1. CASE i.path[k] \in STRING \ Searched
    BY <2>1, LiteralsAreTokens
  <2>2. CASE i.path[k] = ":"
    <3>1. ":" \in Tokens
      BY LiteralsAreTokens DEF Literals, Searched
    <3> QED
      BY <2>2, <3>1
  <2> QED
    BY <1>4, <2>1, <2>2
<1>6. i.path \in Seq(Tokens) /\ Len(i.path) \in Nat /\ Len(i.path) > 0
  BY <1>3, <1>5
<1>7. i.scheme \in Tokens
  <2>1. "http://" \in Tokens /\ "https://" \in Tokens
    BY LiteralsAreTokens DEF Literals, Searched
  <2> QED
    BY <1>1, <2>1
<1> QED
  BY <1>1, <1>2, <1>3, <1>5, <1>6, <1>7

LEMMA FormIs ==
  ASSUME NEW i \in Intents
  PROVE  i.form = "absolute" \/ i.form = "authority" \/ i.form = "origin"
  BY IntentIs

LEMMA HostAndPortIs ==
  ASSUME NEW i \in Intents
  PROVE  /\ HostAndPort(i) \in Seq(Tokens)
         /\ HostAndPort(i)[1] = i.host
         /\ i.port = "default" => Len(HostAndPort(i)) = 1
         /\ i.port # "default" =>
              Len(HostAndPort(i)) = 3 /\ HostAndPort(i)[2] = ":" /\ HostAndPort(i)[3] = i.port
<1>1. i.host \in Tokens /\ i.port \in Tokens /\ ":" \in Tokens
  BY IntentIs, LiteralsAreTokens DEF Literals, Searched
<1>2. CASE i.port = "default"
  <2>1. HostAndPort(i) = <<i.host>>
    BY <1>2 DEF HostAndPort
  <2> QED
    BY <1>1, <1>2, <2>1
<1>3. CASE i.port # "default"
  <2>1. HostAndPort(i) = <<i.host, ":", i.port>>
    BY <1>3 DEF HostAndPort
  <2> QED
    BY <1>1, <1>3, <2>1
<1> QED
  BY <1>2, <1>3

LEMMA TargetIs ==
  ASSUME NEW i \in Intents
  PROVE  /\ Target(i) \in Seq(Tokens)
         /\ i.form = "absolute" =>
              /\ Len(Target(i)) = 1 + Len(HostAndPort(i)) + Len(i.path)
              /\ Target(i)[1] = i.scheme
              /\ \A k \in 1 .. Len(HostAndPort(i)) : Target(i)[1 + k] = HostAndPort(i)[k]
              /\ \A k \in 1 .. Len(i.path) : Target(i)[1 + Len(HostAndPort(i)) + k] = i.path[k]
         /\ i.form = "authority" => Target(i) = HostAndPort(i)
         /\ i.form = "origin" => Target(i) = i.path
<1>1. i.form = "authority" => Target(i) = HostAndPort(i)
  BY DEF Target
<1>2. i.form = "origin" => Target(i) = i.path
  BY DEF Target
<1>3. ASSUME i.form = "absolute"
      PROVE  /\ Target(i) \in Seq(Tokens)
             /\ Len(Target(i)) = 1 + Len(HostAndPort(i)) + Len(i.path)
             /\ Target(i)[1] = i.scheme
             /\ \A k \in 1 .. Len(HostAndPort(i)) : Target(i)[1 + k] = HostAndPort(i)[k]
             /\ \A k \in 1 .. Len(i.path) : Target(i)[1 + Len(HostAndPort(i)) + k] = i.path[k]
  <2> DEFINE front == <<i.scheme>> \o HostAndPort(i)
  <2>1. /\ <<i.scheme>> \in Seq(Tokens) /\ Len(<<i.scheme>>) = 1 /\ <<i.scheme>>[1] = i.scheme
        /\ HostAndPort(i) \in Seq(Tokens) /\ Len(HostAndPort(i)) \in Nat
        /\ i.path \in Seq(Tokens) /\ Len(i.path) \in Nat
    <3>1. i.scheme \in Tokens /\ i.path \in Seq(Tokens) /\ Len(i.path) \in Nat
      BY IntentIs
    <3>2. <<i.scheme>> \in Seq(Tokens) /\ Len(<<i.scheme>>) = 1 /\ <<i.scheme>>[1] = i.scheme
      BY <3>1
    <3> QED
      BY <3>1, <3>2, HostAndPortIs
  <2>2. /\ front \in Seq(Tokens) /\ Len(front) = 1 + Len(HostAndPort(i))
        /\ front[1] = i.scheme
        /\ \A k \in 1 .. Len(HostAndPort(i)) : front[1 + k] = HostAndPort(i)[k]
    BY <2>1, ConcatIs
  <2>3. Target(i) = front \o i.path
    BY <1>3 DEF Target
  <2> HIDE DEF front
  <2>4. /\ Target(i) \in Seq(Tokens) /\ Len(Target(i)) = Len(front) + Len(i.path)
        /\ \A k \in 1 .. Len(front) : Target(i)[k] = front[k]
        /\ \A k \in 1 .. Len(i.path) : Target(i)[Len(front) + k] = i.path[k]
    <3>1. /\ front \o i.path \in Seq(Tokens)
          /\ Len(front \o i.path) = Len(front) + Len(i.path)
          /\ \A k \in 1 .. Len(front) : (front \o i.path)[k] = front[k]
          /\ \A k \in 1 .. Len(i.path) : (front \o i.path)[Len(front) + k] = i.path[k]
      BY <2>1, <2>2, ConcatIs
    <3> QED
      BY <2>3, <3>1
  <2>5. Target(i)[1] = i.scheme
    <3>1. 1 \in 1 .. Len(front)
      BY <2>1, <2>2
    <3> QED
      BY <2>2, <2>4, <3>1
  <2>6. \A k \in 1 .. Len(HostAndPort(i)) : Target(i)[1 + k] = HostAndPort(i)[k]
    <3> TAKE k \in 1 .. Len(HostAndPort(i))
    <3>1. 1 + k \in 1 .. Len(front)
      BY <2>1, <2>2
    <3>2. Target(i)[1 + k] = front[1 + k]
      BY <2>4, <3>1
    <3> QED
      BY <2>2, <3>2
  <2> QED
    BY <2>1, <2>2, <2>4, <2>5, <2>6
<1> QED
  BY <1>1, <1>2, <1>3, IntentIs, HostAndPortIs

\* What precedes the target, and what follows it.
Method(i) == IF i.form = "authority" THEN "CONNECT" ELSE "GET"

HostLine(i) == IF i.named THEN <<HostField>> \o HostAndPort(i) \o <<"\r\n">> ELSE <<>>

LEMMA HostLineIs ==
  ASSUME NEW i \in Intents
  PROVE  /\ HostLine(i) \in Seq(Tokens)
         /\ ~i.named => Len(HostLine(i)) = 0
         /\ i.named =>
              /\ Len(HostLine(i)) = Len(HostAndPort(i)) + 2
              /\ HostLine(i)[1] = HostField
              /\ \A k \in 1 .. Len(HostAndPort(i)) : HostLine(i)[1 + k] = HostAndPort(i)[k]
              /\ HostLine(i)[Len(HostAndPort(i)) + 2] = "\r\n"
<1>1. CASE ~i.named
  <2>1. HostLine(i) = <<>>
    BY <1>1 DEF HostLine
  <2> QED
    BY <1>1, <2>1
<1>2. CASE i.named
  <2> DEFINE front == <<HostField>> \o HostAndPort(i)
             end == <<"\r\n">>
  <2>1. /\ HostField \in Tokens /\ "\r\n" \in Tokens
    BY LiteralsAreTokens DEF Literals, Searched
  <2>2. /\ <<HostField>> \in Seq(Tokens) /\ Len(<<HostField>>) = 1 /\ <<HostField>>[1] = HostField
        /\ end \in Seq(Tokens) /\ Len(end) = 1 /\ end[1] = "\r\n"
        /\ HostAndPort(i) \in Seq(Tokens) /\ Len(HostAndPort(i)) \in Nat
    BY <2>1, HostAndPortIs
  <2>3. /\ front \in Seq(Tokens) /\ Len(front) = 1 + Len(HostAndPort(i))
        /\ front[1] = HostField
        /\ \A k \in 1 .. Len(HostAndPort(i)) : front[1 + k] = HostAndPort(i)[k]
    BY <2>2, ConcatIs
  <2>4. HostLine(i) = front \o end
    BY <1>2 DEF HostLine
  <2> HIDE DEF front, end
  <2>5. /\ front \o end \in Seq(Tokens)
        /\ Len(front \o end) = Len(front) + Len(end)
        /\ \A k \in 1 .. Len(front) : (front \o end)[k] = front[k]
        /\ \A k \in 1 .. Len(end) : (front \o end)[Len(front) + k] = end[k]
    <3>1. front \in Seq(Tokens) /\ end \in Seq(Tokens)
      BY <2>2, <2>3, Zenon
    <3> QED
      BY <3>1, ConcatIs, Zenon
  <2>6. HostLine(i)[1] = HostField
    <3>1. 1 \in 1 .. Len(front)
      BY <2>2, <2>3
    <3> QED
      BY <2>3, <2>4, <2>5, <3>1
  <2>7. \A k \in 1 .. Len(HostAndPort(i)) : HostLine(i)[1 + k] = HostAndPort(i)[k]
    <3> TAKE k \in 1 .. Len(HostAndPort(i))
    <3>1. 1 + k \in 1 .. Len(front)
      BY <2>2, <2>3
    <3> QED
      BY <2>3, <2>4, <2>5, <3>1
  <2>8. HostLine(i)[Len(HostAndPort(i)) + 2] = "\r\n"
    <3>1. 1 \in 1 .. Len(end) /\ Len(front) + 1 = Len(HostAndPort(i)) + 2
      BY <2>2, <2>3
    <3> QED
      BY <2>2, <2>4, <2>5, <3>1
  <2>9. Len(HostLine(i)) = Len(HostAndPort(i)) + 2 /\ HostLine(i) \in Seq(Tokens)
    BY <2>2, <2>3, <2>4, <2>5
  <2> QED
    BY <1>2, <2>6, <2>7, <2>8, <2>9
<1>3. i.named \in BOOLEAN
  BY IntentIs
<1> QED
  BY <1>1, <1>2, <1>3

\* The header: method, blank, target, blank, version, end of line, Host line,
\* end of line.
LEMMA HeaderIs ==
  ASSUME NEW i \in Intents
  PROVE  LET text == Header(i)
             t == Len(Target(i))
             h == Len(HostLine(i))
         IN  /\ text \in Seq(Tokens) /\ t \in Nat /\ h \in Nat /\ Len(text) = t + h + 6
             /\ text[1] = Method(i) /\ text[2] = Blank
             /\ \A k \in 1 .. t : text[2 + k] = Target(i)[k]
             /\ text[t + 3] = Blank /\ text[t + 4] = "HTTP/1.1" /\ text[t + 5] = "\r\n"
             /\ \A k \in 1 .. h : text[t + 5 + k] = HostLine(i)[k]
             /\ text[t + h + 6] = "\r\n"
<1> DEFINE t == Len(Target(i))
           h == Len(HostLine(i))
           start == <<Method(i), Blank>>
           version == <<Blank, "HTTP/1.1", "\r\n">>
           end == <<"\r\n">>
           first == start \o Target(i)
           line == first \o version
           both == line \o HostLine(i)
<1>1. /\ start \in Seq(Tokens) /\ Len(start) = 2 /\ start[1] = Method(i) /\ start[2] = Blank
  <2>1. Method(i) \in Tokens /\ Blank \in Tokens
    BY LiteralsAreTokens DEF Method, Literals, Searched
  <2> QED
    BY <2>1
<1>2. /\ version \in Seq(Tokens) /\ Len(version) = 3
      /\ version[1] = Blank /\ version[2] = "HTTP/1.1" /\ version[3] = "\r\n"
      /\ end \in Seq(Tokens) /\ Len(end) = 1 /\ end[1] = "\r\n"
  <2>1. Blank \in Tokens /\ "HTTP/1.1" \in Tokens /\ "\r\n" \in Tokens
    BY LiteralsAreTokens DEF Literals, Searched
  <2> QED
    BY <2>1
<1>3. /\ Target(i) \in Seq(Tokens) /\ t \in Nat
      /\ HostLine(i) \in Seq(Tokens) /\ h \in Nat
  <2>1. Target(i) \in Seq(Tokens) /\ HostLine(i) \in Seq(Tokens)
    BY TargetIs, HostLineIs
  <2> QED
    BY <2>1
<1>4. Header(i) = both \o end
  BY DEF Header, Method, HostLine
<1> HIDE DEF start, version, end, both
<1>5. /\ first \in Seq(Tokens) /\ Len(first) = t + 2
      /\ first[1] = Method(i) /\ first[2] = Blank
      /\ \A k \in 1 .. t : first[2 + k] = Target(i)[k]
  <2>1. /\ first \in Seq(Tokens) /\ Len(first) = Len(start) + t
        /\ \A k \in 1 .. Len(start) : first[k] = start[k]
        /\ \A k \in 1 .. t : first[Len(start) + k] = Target(i)[k]
    BY <1>1, <1>3, ConcatIs
  <2> HIDE DEF first, t
  <2> QED
    BY <1>1, <1>3, <2>1
<1> HIDE DEF first
<1>6. /\ line \in Seq(Tokens) /\ Len(line) = t + 5
      /\ \A k \in 1 .. t + 2 : line[k] = first[k]
      /\ \A k \in 1 .. 3 : line[t + 2 + k] = version[k]
  <2>1. /\ line \in Seq(Tokens) /\ Len(line) = Len(first) + Len(version)
        /\ \A k \in 1 .. Len(first) : line[k] = first[k]
        /\ \A k \in 1 .. Len(version) : line[Len(first) + k] = version[k]
    BY <1>2, <1>5, ConcatIs
  <2> HIDE DEF line, t
  <2> QED
    BY <1>2, <1>3, <1>5, <2>1
<1> HIDE DEF line
<1>7. /\ both \in Seq(Tokens) /\ Len(both) = t + 5 + h
      /\ \A k \in 1 .. t + 5 : both[k] = line[k]
      /\ \A k \in 1 .. h : both[t + 5 + k] = HostLine(i)[k]
  <2>1. /\ both \in Seq(Tokens) /\ Len(both) = Len(line) + h
        /\ \A k \in 1 .. Len(line) : both[k] = line[k]
        /\ \A k \in 1 .. h : both[Len(line) + k] = HostLine(i)[k]
    BY <1>3, <1>6, ConcatIs DEF both
  <2> HIDE DEF h, t
  <2> QED
    BY <1>3, <1>6, <2>1
<1>8. /\ both \o end \in Seq(Tokens) /\ Len(both \o end) = t + h + 6
      /\ \A k \in 1 .. t + 5 + h : (both \o end)[k] = both[k]
      /\ (both \o end)[t + h + 6] = "\r\n"
  <2>1. /\ both \o end \in Seq(Tokens) /\ Len(both \o end) = Len(both) + Len(end)
        /\ \A k \in 1 .. Len(both) : (both \o end)[k] = both[k]
        /\ \A k \in 1 .. Len(end) : (both \o end)[Len(both) + k] = end[k]
    BY <1>2, <1>7, ConcatIs
  <2>2. (both \o end)[Len(both) + 1] = "\r\n"
    BY <1>2, <2>1
  <2> QED
    BY <1>2, <1>3, <1>7, <2>1, <2>2
<1> DEFINE text == both \o end
<1> HIDE DEF text
<1>9. /\ text \in Seq(Tokens) /\ Len(text) = t + h + 6 /\ text[t + h + 6] = "\r\n"
      /\ \A k \in 1 .. t + 5 + h : text[k] = both[k]
  BY <1>8 DEF text
<1> HIDE DEF t, h
<1>10. \A k \in 1 .. t + 2 : text[k] = first[k]
  <2> TAKE k \in 1 .. t + 2
  <2>1. k \in 1 .. t + 5 + h /\ k \in 1 .. t + 5
    BY <1>3
  <2> QED
    BY <1>6, <1>7, <1>9, <2>1
<1>11. text[1] = Method(i) /\ text[2] = Blank /\ \A k \in 1 .. t : text[2 + k] = Target(i)[k]
  <2>1. 1 \in 1 .. t + 2 /\ 2 \in 1 .. t + 2
    BY <1>3
  <2>2. text[1] = Method(i) /\ text[2] = Blank
    BY <1>5, <1>10, <2>1
  <2>3. \A k \in 1 .. t : text[2 + k] = Target(i)[k]
    <3> TAKE k \in 1 .. t
    <3>1. 2 + k \in 1 .. t + 2
      BY <1>3
    <3> QED
      BY <1>5, <1>10, <3>1
  <2> QED
    BY <2>2, <2>3
<1>12. \A k \in 1 .. 3 : text[t + 2 + k] = version[k]
  <2> TAKE k \in 1 .. 3
  <2>1. t + 2 + k \in 1 .. t + 5 + h /\ t + 2 + k \in 1 .. t + 5
    BY <1>3
  <2> QED
    BY <1>6, <1>7, <1>9, <2>1
<1>13. text[t + 3] = Blank /\ text[t + 4] = "HTTP/1.1" /\ text[t + 5] = "\r\n"
  <2>1. text[t + 2 + 1] = Blank /\ text[t + 2 + 2] = "HTTP/1.1" /\ text[t + 2 + 3] = "\r\n"
    BY <1>2, <1>12
  <2>2. t + 2 + 1 = t + 3 /\ t + 2 + 2 = t + 4 /\ t + 2 + 3 = t + 5
    BY <1>3
  <2> QED
    BY <2>1, <2>2
<1>14. \A k \in 1 .. h : text[t + 5 + k] = HostLine(i)[k]
  <2> TAKE k \in 1 .. h
  <2>1. t + 5 + k \in 1 .. t + 5 + h
    BY <1>3
  <2> QED
    BY <1>7, <1>9, <2>1
<1>15. Header(i) = text
  BY <1>4 DEF text
<1> QED
  BY <1>3, <1>9, <1>11, <1>13, <1>14, <1>15 DEF t, h

LEMMA Apart ==
  /\ Blank # HostField /\ Blank # "\r\n" /\ HostField # "\r\n"
  /\ Blank \notin {":", "http://", "https://", "GET", "CONNECT", "HTTP/1.1"}
  /\ HostField \notin {":", "http://", "https://", "GET", "CONNECT", "HTTP/1.1"}
  BY Zenon DEF Blank, HostField

LEMMA SearchedIs ==
  ASSUME NEW token, token \notin Searched
  PROVE  token \notin {Blank, ":", "\r\n", HostField, "http://", "https://"}
  BY DEF Searched

LEMMA PathTokens ==
  ASSUME NEW i \in Intents, NEW k \in 1 .. Len(i.path)
  PROVE  i.path[k] \notin {Blank, "\r\n", HostField, "http://", "https://"}
<1>1. i.path[k] \notin Searched \ {":"}
  BY IntentIs
<1>2. CASE i.path[k] = ":"
  BY <1>2, Apart
<1>3. CASE i.path[k] # ":"
  BY <1>1, <1>3, SearchedIs
<1> QED
  BY <1>2, <1>3

LEMMA HostAndPortTokens ==
  ASSUME NEW i \in Intents, NEW k \in 1 .. Len(HostAndPort(i))
  PROVE  HostAndPort(i)[k] \notin {Blank, "\r\n", HostField, "http://", "https://"}
<1>1. i.host \notin {Blank, ":", "\r\n", HostField, "http://", "https://"}
  BY IntentIs, SearchedIs
<1>2. i.port \notin {Blank, ":", "\r\n", HostField, "http://", "https://"}
  BY IntentIs, SearchedIs
<1>3. CASE i.port = "default"
  <2>1. k = 1
    <3>1. Len(HostAndPort(i)) = 1
      BY <1>3, HostAndPortIs
    <3> QED
      BY <3>1
  <2> QED
    BY <1>1, <2>1, HostAndPortIs
<1>4. CASE i.port # "default"
  <2>1. k = 1 \/ k = 2 \/ k = 3
    <3>1. Len(HostAndPort(i)) = 3
      BY <1>4, HostAndPortIs
    <3> QED
      BY <3>1
  <2>2. HostAndPort(i)[1] = i.host /\ HostAndPort(i)[2] = ":" /\ HostAndPort(i)[3] = i.port
    BY <1>4, HostAndPortIs
  <2> QED
    BY <1>1, <1>2, <2>1, <2>2, Apart
<1> QED
  BY <1>3, <1>4

\* Nothing in a target ends the line or the target.
LEMMA TargetTokens ==
  ASSUME NEW i \in Intents, NEW k \in 1 .. Len(Target(i))
  PROVE  Target(i)[k] \notin {Blank, "\r\n", HostField}
<1>1. CASE i.form = "absolute"
  <2> DEFINE h == Len(HostAndPort(i))
  <2>1. h \in Nat /\ Len(i.path) \in Nat
    BY HostAndPortIs, IntentIs
  <2>2. CASE k = 1
    <3>1. Target(i)[1] \in {"http://", "https://"}
      BY <1>1, TargetIs, IntentIs
    <3> QED
      BY <2>2, <3>1, Apart
  <2>3. CASE k > 1 /\ k <= 1 + h
    <3>1. k - 1 \in 1 .. h /\ k = 1 + (k - 1)
      BY <2>1, <2>3
    <3>2. Target(i)[k] = HostAndPort(i)[k - 1]
      BY <1>1, <3>1, TargetIs
    <3> QED
      BY <3>1, <3>2, HostAndPortTokens
  <2>4. CASE k > 1 + h
    <3>1. Len(Target(i)) = 1 + h + Len(i.path)
      BY <1>1, TargetIs
    <3>2. k - 1 - h \in 1 .. Len(i.path) /\ k = 1 + h + (k - 1 - h)
      <4> DEFINE m == Len(i.path)
      <4>1. k \in 1 .. 1 + h + m /\ h \in Nat /\ m \in Nat /\ k > 1 + h
        BY <2>1, <2>4, <3>1, Zenon
      <4> HIDE DEF h, m
      <4>2. k - 1 - h \in 1 .. m /\ k = 1 + h + (k - 1 - h)
        BY <4>1
      <4> QED
        BY <4>2 DEF m
    <3>3. Target(i)[k] = i.path[k - 1 - h]
      BY <1>1, <3>2, TargetIs
    <3> QED
      BY <3>2, <3>3, PathTokens
  <2> QED
    BY <2>1, <2>2, <2>3, <2>4
<1>2. CASE i.form = "authority"
  <2>1. Target(i) = HostAndPort(i)
    BY <1>2, TargetIs
  <2>2. k \in 1 .. Len(HostAndPort(i))
    BY <2>1, Zenon
  <2> QED
    BY <2>1, <2>2, HostAndPortTokens
<1>3. CASE i.form = "origin"
  <2>1. Target(i) = i.path
    BY <1>3, TargetIs
  <2>2. k \in 1 .. Len(i.path)
    BY <2>1, Zenon
  <2> QED
    BY <2>1, <2>2, PathTokens
<1> QED
  BY <1>1, <1>2, <1>3, FormIs

LEMMA MethodIs == ASSUME NEW i \in Intents PROVE Method(i) \notin {Blank, HostField}
<1>1. Method(i) = "CONNECT" \/ Method(i) = "GET"
  BY DEF Method
<1> QED
  BY <1>1, Apart

\* What stands between the two blanks of the first line.
LEMMA FirstLine ==
  ASSUME NEW i \in Intents
  PROVE  SubString(Header(i), Blank, Blank) = Target(i)
<1> DEFINE text == Header(i)
           t == Len(Target(i))
<1>1. /\ text \in Seq(Tokens) /\ t \in Nat /\ Len(text) \in Nat /\ Len(text) >= t + 6
      /\ text[1] = Method(i) /\ text[2] = Blank
      /\ \A k \in 1 .. t : text[2 + k] = Target(i)[k]
      /\ text[t + 3] = Blank
  BY HeaderIs
<1>2. text[1] # Blank
  BY <1>1, MethodIs
<1>3. Target(i) \in Seq(Tokens) /\ \A k \in 1 .. t : Target(i)[k] # Blank
  BY TargetTokens, TargetIs
<1> HIDE DEF text
<1>4. SubString(text, Blank, Blank) = SubSeq(text, 3, t + 2)
  <2>1. \A k \in 3 .. t + 2 : text[k] # Blank
    <3> TAKE k \in 3 .. t + 2
    <3>1. k - 2 \in 1 .. t /\ k = 2 + (k - 2)
      BY <1>1
    <3>2. text[k] = Target(i)[k - 2]
      BY <1>1, <3>1
    <3> QED
      BY <1>3, <3>1, <3>2
  <2> HIDE DEF t
  <2>2. 2 \in 1 .. Len(text) /\ t + 3 \in 2 + 1 .. Len(text)
    BY <1>1
  <2>3. \A k \in 1 .. 2 - 1 : text[k] # Blank
    BY <1>2
  <2>4. \A k \in 2 + 1 .. t + 3 - 1 : text[k] # Blank
    BY <1>1, <2>1
  <2> DEFINE from == 2
             to == t + 3
  <2>5. /\ from \in 1 .. Len(text) /\ to \in from + 1 .. Len(text)
        /\ text[from] = Blank /\ text[to] = Blank
        /\ \A k \in 1 .. from - 1 : text[k] # Blank
        /\ \A k \in from + 1 .. to - 1 : text[k] # Blank
    BY <1>1, <2>2, <2>3, <2>4
  <2> HIDE DEF from, to
  <2>6. SubString(text, Blank, Blank) = SubSeq(text, from + 1, to - 1)
    <3>1. text \in Seq(Tokens)
      BY <1>1, Zenon
    <3> QED
      BY <2>5, <3>1, SubStringIs
  <2>7. from + 1 = 3 /\ to - 1 = t + 2
    BY <1>1 DEF from, to
  <2> QED
    BY <2>6, <2>7
<1>5. SubSeq(text, 2 + 1, 2 + t) = Target(i)
  BY <1>1, <1>3, SubSeqIs
<1> QED
  BY <1>1, <1>4, <1>5 DEF text

\* What stands in the Host line.
LEMMA HostNamed ==
  ASSUME NEW i \in Intents, i.named
  PROVE  SubString(Header(i), HostField, "\r\n") = HostAndPort(i)
<1> DEFINE text == Header(i)
           t == Len(Target(i))
           n == Len(HostAndPort(i))
<1>1. /\ text \in Seq(Tokens) /\ t \in Nat /\ Len(text) = t + Len(HostLine(i)) + 6
      /\ text[1] = Method(i) /\ text[2] = Blank
      /\ \A k \in 1 .. t : text[2 + k] = Target(i)[k]
      /\ text[t + 3] = Blank /\ text[t + 4] = "HTTP/1.1" /\ text[t + 5] = "\r\n"
      /\ \A k \in 1 .. Len(HostLine(i)) : text[t + 5 + k] = HostLine(i)[k]
  BY HeaderIs
<1>2. /\ Len(HostLine(i)) = n + 2
      /\ HostLine(i)[1] = HostField
      /\ \A k \in 1 .. n : HostLine(i)[1 + k] = HostAndPort(i)[k]
      /\ HostLine(i)[n + 2] = "\r\n"
  BY HostLineIs
<1>3. /\ HostAndPort(i) \in Seq(Tokens) /\ n \in Nat
      /\ \A k \in 1 .. n : HostAndPort(i)[k] # "\r\n"
  BY HostAndPortIs, HostAndPortTokens
<1>4. \A k \in 1 .. t : Target(i)[k] # HostField
  BY TargetTokens
<1>5. Method(i) # HostField
  BY MethodIs
<1> HIDE DEF text, t, n
<1>6. text[t + 6] = HostField /\ text[t + n + 7] = "\r\n"
  <2>1. 1 \in 1 .. Len(HostLine(i)) /\ n + 2 \in 1 .. Len(HostLine(i))
    BY <1>2, <1>3
  <2>2. text[t + 5 + 1] = HostField /\ text[t + 5 + (n + 2)] = "\r\n"
    BY <1>1, <1>2, <2>1
  <2>3. t + 5 + 1 = t + 6 /\ t + 5 + (n + 2) = t + n + 7
    BY <1>1, <1>3
  <2> QED
    BY <2>2, <2>3
<1>7. \A k \in 1 .. n : text[t + 6 + k] = HostAndPort(i)[k]
  <2> TAKE k \in 1 .. n
  <2>1. 1 + k \in 1 .. Len(HostLine(i)) /\ t + 6 + k = t + 5 + (1 + k)
    BY <1>1, <1>2, <1>3
  <2>2. text[t + 5 + (1 + k)] = HostLine(i)[1 + k]
    BY <1>1, <2>1
  <2> QED
    BY <1>2, <2>1, <2>2
<1>8. \A k \in 1 .. t + 5 : text[k] # HostField
  <2> TAKE k \in 1 .. t + 5
  <2>1. CASE k \in 3 .. t + 2
    <3>1. k - 2 \in 1 .. t /\ k = 2 + (k - 2)
      BY <1>1, <2>1
    <3>2. text[k] = Target(i)[k - 2]
      BY <1>1, <3>1
    <3> QED
      BY <1>4, <3>1, <3>2
  <2>2. CASE k \notin 3 .. t + 2
    <3>1. k = 1 \/ k = 2 \/ k = t + 3 \/ k = t + 4 \/ k = t + 5
      BY <1>1, <2>2
    <3> QED
      BY <1>1, <1>5, <3>1, Apart
  <2> QED
    BY <2>1, <2>2
<1>9. \A k \in t + 7 .. t + n + 6 : text[k] # "\r\n"
  <2> TAKE k \in t + 7 .. t + n + 6
  <2>1. k - t - 6 \in 1 .. n /\ k = t + 6 + (k - t - 6)
    BY <1>1, <1>3
  <2>2. text[k] = HostAndPort(i)[k - t - 6]
    BY <1>7, <2>1
  <2> QED
    BY <1>3, <2>1, <2>2
<1>10. SubString(text, HostField, "\r\n") = SubSeq(text, t + 6 + 1, t + n + 7 - 1)
  <2>1. t + 6 \in 1 .. Len(text) /\ t + n + 7 \in t + 6 + 1 .. Len(text)
    BY <1>1, <1>2, <1>3
  <2> DEFINE from == t + 6
             to == t + n + 7
  <2>2. /\ from \in 1 .. Len(text) /\ to \in from + 1 .. Len(text)
        /\ text[from] = HostField /\ text[to] = "\r\n"
        /\ \A k \in 1 .. from - 1 : text[k] # HostField
        /\ \A k \in from + 1 .. to - 1 : text[k] # "\r\n"
    <3> t \in Nat /\ n \in Nat
      BY <1>1, <1>3
    <3>1. from \in 1 .. Len(text) /\ to \in from + 1 .. Len(text)
      BY <2>1
    <3>2. text[from] = HostField /\ text[to] = "\r\n"
      BY <1>6
    <3>3. \A k \in 1 .. from - 1 : text[k] # HostField
      BY <1>8
    <3>4. \A k \in from + 1 .. to - 1 : text[k] # "\r\n"
      BY <1>9
    <3> QED
      BY <3>1, <3>2, <3>3, <3>4
  <2>3. text \in Seq(Tokens)
    BY <1>1
  <2> HIDE DEF from, to
  <2>4. SubString(text, HostField, "\r\n") = SubSeq(text, from + 1, to - 1)
    BY <2>2, <2>3, SubStringIs
  <2> QED
    BY <1>1, <1>3, <2>4 DEF from, to
<1>11. SubSeq(text, t + 6 + 1, t + 6 + n) = HostAndPort(i)
  <2>1. t + 6 \in Nat /\ t + 6 + n <= Len(text)
    BY <1>1, <1>2, <1>3
  <2> QED
    BY <1>1, <1>3, <1>7, <2>1, SubSeqIs DEF n
<1>12. t + n + 7 - 1 = t + 6 + n
  BY <1>1, <1>3
<1> QED
  BY <1>10, <1>11, <1>12 DEF text

LEMMA HostUnnamed ==
  ASSUME NEW i \in Intents, ~i.named
  PROVE  SubString(Header(i), HostField, "\r\n") = <<>>
<1> DEFINE text == Header(i)
           t == Len(Target(i))
<1>1. /\ text \in Seq(Tokens) /\ t \in Nat /\ Len(text) = t + Len(HostLine(i)) + 6
      /\ text[1] = Method(i) /\ text[2] = Blank
      /\ \A k \in 1 .. t : text[2 + k] = Target(i)[k]
      /\ text[t + 3] = Blank /\ text[t + 4] = "HTTP/1.1" /\ text[t + 5] = "\r\n"
      /\ text[t + Len(HostLine(i)) + 6] = "\r\n"
  BY HeaderIs
<1>2. Len(HostLine(i)) = 0
  BY HostLineIs
<1>3. \A k \in 1 .. t : Target(i)[k] # HostField
  BY TargetTokens
<1>4. Method(i) # HostField
  BY MethodIs
<1> HIDE DEF text, t
<1>5. Len(text) = t + 6 /\ text[t + 6] = "\r\n"
  BY <1>1, <1>2
<1>6. \A k \in 1 .. Len(text) : text[k] # HostField
  <2> TAKE k \in 1 .. Len(text)
  <2>1. CASE k \in 3 .. t + 2
    <3>1. k - 2 \in 1 .. t /\ k = 2 + (k - 2)
      BY <1>1, <2>1
    <3>2. text[k] = Target(i)[k - 2]
      BY <1>1, <3>1
    <3> QED
      BY <1>3, <3>1, <3>2
  <2>2. CASE k \notin 3 .. t + 2
    <3>1. k = 1 \/ k = 2 \/ k = t + 3 \/ k = t + 4 \/ k = t + 5 \/ k = t + 6
      BY <1>1, <1>5, <2>2
    <3> QED
      BY <1>1, <1>4, <1>5, <3>1, Apart
  <2> QED
    BY <2>1, <2>2
<1>7. SubString(text, HostField, "\r\n") = <<>>
  BY <1>1, <1>6, SubStringNone
<1> QED
  BY <1>7 DEF text
-----------------------------------------------------------------------------
(* What the server makes of it.                                            *)

LEMMA Least ==
  ASSUME NEW T, T \subseteq Nat, T # {}
  PROVE  \E n \in T : \A m \in T : n <= m
<1> DEFINE R == {ss \in Nat \X Nat : ss[1] < ss[2]}
<1>1. IsWellFoundedOn(R, Nat)
  BY NatLessThanWellFounded DEF OpToRel
<1>2. \A y, x \in Nat : y < x => <<y, x>> \in R
  OBVIOUS
<1> HIDE DEF R
<1>3. PICK x \in T : \A y \in T : ~ (<<y, x>> \in R)
  BY <1>1, WFMin, Zenon
<1>4. \A y \in T : ~ (y < x)
  BY <1>2, <1>3
<1>5. \A y \in T : x <= y
  BY <1>4
<1> QED
  BY <1>5

\* A token is found first somewhere if it is there at all.
LEMMA FindFirst ==
  ASSUME NEW text \in Seq(Tokens), NEW token, NEW there \in 1 .. Len(text), text[there] = token
  PROVE  \E n \in 1 .. Len(text) :
           text[n] = token /\ \A k \in 1 .. n - 1 : text[k] # token
<1> DEFINE T == {k \in 1 .. Len(text) : text[k] = token}
<1>1. T \subseteq Nat /\ T # {}
  OBVIOUS
<1>2. PICK n \in T : \A m \in T : n <= m
  BY <1>1, Least
<1>3. \A k \in 1 .. n - 1 : text[k] # token
  <2> SUFFICES ASSUME NEW k \in 1 .. n - 1, text[k] = token
               PROVE  FALSE
    OBVIOUS
  <2>1. k \in T
    OBVIOUS
  <2> QED
    BY <1>2, <2>1
<1> QED
  BY <1>2, <1>3

\* What follows the first colon, or the default.
LEMMA AfterColonIs ==
  ASSUME NEW line \in Seq(Tokens), NEW from \in Nat \ {0}, NEW default,
         NEW n \in from .. Len(line), line[n] = ":",
         \A k \in from .. n - 1 : line[k] # ":"
  PROVE  AfterColon(line, from, default) = SubSeq(line, n + 1, Len(line))
<1>1. Find(line, ":", from) = n
  BY FindIs
<1> QED
  BY <1>1 DEF AfterColon

LEMMA AfterColonNone ==
  ASSUME NEW line \in Seq(Tokens), NEW from \in Nat \ {0}, NEW default,
         \A k \in from .. Len(line) : line[k] # ":"
  PROVE  AfterColon(line, from, default) = default
<1>1. Find(line, ":", from) = 0
  BY FindNone
<1> QED
  BY <1>1 DEF AfterColon

\* A line ends in tail, after a token that is not a colon.
EndsIn(line, m, tail) ==
  /\ line \in Seq(Tokens) /\ tail \in Seq(Tokens) /\ m \in Nat \ {0}
  /\ line[m] # ":" /\ Len(line) = m + Len(tail)
  /\ \A k \in 1 .. Len(tail) : line[m + k] = tail[k]

LEMMA AfterColonOfTail ==
  ASSUME NEW line, NEW tail, NEW m, EndsIn(line, m, tail), NEW default, NEW other
  PROVE  AfterColon(line, m, default) =
           IF Contains(tail, ":") THEN AfterColon(tail, 1, other) ELSE default
<1> USE DEF EndsIn
<1>1. CASE Contains(tail, ":")
  <2>1. PICK n \in 1 .. Len(tail) : tail[n] = ":" /\ \A k \in 1 .. n - 1 : tail[k] # ":"
    <3>1. tail \in Seq(Tokens)
      OBVIOUS
    <3>2. PICK there \in 1 .. Len(tail) : tail[there] = ":"
      BY <1>1, Zenon DEF Contains
    <3> HIDE DEF EndsIn
    <3> QED
      BY <3>1, <3>2, FindFirst, Zenon
  <2>2. AfterColon(tail, 1, other) = SubSeq(tail, n + 1, Len(tail))
    <3>1. 1 \in Nat \ {0}
      OBVIOUS
    <3> QED
      BY <2>1, <3>1, AfterColonIs, Zenon
  <2>3. \A k \in m .. m + n - 1 : line[k] # ":"
    <3> TAKE k \in m .. m + n - 1
    <3>1. CASE k <= m
      BY <3>1
    <3>2. CASE k > m
      <4>1. k - m \in 1 .. n - 1 /\ k - m \in 1 .. Len(tail) /\ k = m + (k - m)
        BY <3>2
      <4> QED
        BY <2>1, <4>1
    <3> QED
      BY <3>1, <3>2
  <2>4. AfterColon(line, m, default) = SubSeq(line, m + n + 1, Len(line))
    <3> DEFINE c == m + n
    <3>1. c \in m .. Len(line) /\ line[c] = ":" /\ m \in Nat \ {0}
      BY <2>1
    <3>2. \A k \in m .. c - 1 : line[k] # ":"
      BY <2>3
    <3> HIDE DEF c
    <3>3. AfterColon(line, m, default) = SubSeq(line, c + 1, Len(line))
      BY <3>1, <3>2, AfterColonIs, Zenon
    <3> QED
      BY <3>3 DEF c
  <2>5. SubSeq(line, m + n + 1, Len(line)) = SubSeq(tail, n + 1, Len(tail))
    <3> DEFINE b == SubSeq(tail, n + 1, Len(tail))
    <3>1. /\ b \in Seq(Tokens) /\ Len(b) = Len(tail) - n
          /\ \A k \in 1 .. Len(tail) - n : b[k] = tail[n + k]
      OBVIOUS
    <3>2. \A k \in 1 .. Len(tail) - n : line[m + n + k] = tail[n + k]
      <4> TAKE k \in 1 .. Len(tail) - n
      <4>1. n + k \in 1 .. Len(tail) /\ m + n + k = m + (n + k)
        OBVIOUS
      <4> QED
        BY <4>1
    <3> HIDE DEF b
    <3>3. /\ m + n \in Nat /\ m + n + Len(b) = Len(line)
          /\ \A k \in 1 .. Len(b) : line[m + n + k] = b[k]
      BY <3>1, <3>2
    <3>4. SubSeq(line, m + n + 1, m + n + Len(b)) = b
      BY <3>1, <3>3, SubSeqIs
    <3> QED
      BY <3>3, <3>4 DEF b
  <2> QED
    BY <1>1, <2>2, <2>4, <2>5
<1>2. CASE ~Contains(tail, ":")
  <2>1. \A k \in 1 .. Len(tail) : tail[k] # ":"
    BY <1>2 DEF Contains
  <2>2. \A k \in m .. Len(line) : line[k] # ":"
    <3> TAKE k \in m .. Len(line)
    <3>1. CASE k <= m
      BY <3>1
    <3>2. CASE k > m
      <4>1. k - m \in 1 .. Len(tail) /\ k = m + (k - m)
        BY <3>2
      <4> QED
        BY <2>1, <4>1
    <3> QED
      BY <3>1, <3>2
  <2>3. AfterColon(line, m, default) = default
    BY <2>2, AfterColonNone
  <2> QED
    BY <1>2, <2>3
<1> QED
  BY <1>1, <1>2

\* The host of the Host line.
LEMMA GetUrlIs ==
  ASSUME NEW i \in Intents
  PROVE  GetUrl(Header(i)) = IF i.named THEN <<i.host>> ELSE <<>>
<1> DEFINE host == SubString(Header(i), HostField, "\r\n")
<1>1. CASE ~i.named
  <2>1. host = <<>>
    BY <1>1, HostUnnamed
  <2>2. Find(<<>>, ":", 1) = 0
    BY FindNone
  <2> QED
    BY <1>1, <2>1, <2>2 DEF GetUrl
<1>2. CASE i.named
  <2>1. host = HostAndPort(i)
    BY <1>2, HostNamed
  <2>2. CASE i.port = "default"
    <3>1. HostAndPort(i) = <<i.host>>
      BY <2>2 DEF HostAndPort
    <3>2. i.host # ":"
      BY IntentIs, SearchedIs
    <3>3. Find(<<i.host>>, ":", 1) = 0
      BY <3>2, FindNone
    <3> QED
      BY <1>2, <2>1, <3>1, <3>3 DEF GetUrl
  <2>3. CASE i.port # "default"
    <3>1. HostAndPort(i) = <<i.host, ":", i.port>>
      BY <2>3 DEF HostAndPort
    <3>2. i.host # ":"
      BY IntentIs, SearchedIs
    <3>3. Find(<<i.host, ":", i.port>>, ":", 1) = 2
      BY <3>2, FindIs
    <3>4. SubSeq(<<i.host, ":", i.port>>, 1, 2 - 1) = <<i.host>>
      <4> DEFINE authority == <<i.host, ":", i.port>>
                 front == <<i.host>>
      <4>1. /\ authority \in Seq(Tokens) /\ Len(authority) = 3 /\ authority[1] = i.host
        BY <3>1, <2>3, HostAndPortIs
      <4>2. front \in Seq(Tokens) /\ Len(front) = 1 /\ front[1] = i.host
        BY IntentIs
      <4> HIDE DEF authority, front
      <4>3. \A k \in 1 .. Len(front) : authority[0 + k] = front[k]
        BY <4>1, <4>2
      <4>4. SubSeq(authority, 0 + 1, 0 + Len(front)) = front
        BY <4>1, <4>2, <4>3, SubSeqIs
      <4> QED
        BY <4>2, <4>4 DEF authority, front
    <3> QED
      BY <1>2, <2>1, <3>1, <3>3, <3>4 DEF GetUrl
  <2> QED
    BY <2>2, <2>3
<1>3. i.named \in BOOLEAN
  BY IntentIs
<1> QED
  BY <1>1, <1>2, <1>3

\* The rest of an absolute target: the port with the path, or a colon of the
\* path, or the default.
LEMMA AbsolutePort ==
  ASSUME NEW i \in Intents, i.form = "absolute", NEW default
  PROVE  AfterColon(Target(i), 2, default) =
           IF i.port # "default" THEN <<i.port>> \o i.path
           ELSE IF Contains(i.path, ":") THEN AfterColon(i.path, 1, <<"80">>) ELSE default
<1> DEFINE line == Target(i)
           h == Len(HostAndPort(i))
           p == Len(i.path)
<1>1. /\ line \in Seq(Tokens) /\ Len(line) = 1 + h + p
      /\ \A k \in 1 .. h : line[1 + k] = HostAndPort(i)[k]
      /\ \A k \in 1 .. p : line[1 + h + k] = i.path[k]
  BY TargetIs
<1>2. /\ i.path \in Seq(Tokens) /\ p \in Nat /\ p > 0 /\ i.host \in Tokens /\ i.port \in Tokens
      /\ i.host # ":"
  BY IntentIs, SearchedIs
<1> HIDE DEF line
<1>3. CASE i.port # "default"
  <2>1. h = 3 /\ HostAndPort(i)[1] = i.host /\ HostAndPort(i)[2] = ":" /\ HostAndPort(i)[3] = i.port
    BY <1>3, HostAndPortIs
  <2> HIDE DEF h, p
  <2>2. line[1 + 1] = i.host /\ line[1 + 2] = ":" /\ line[1 + 3] = i.port
    BY <1>1, <2>1
  <2>3. line[2] = i.host /\ line[3] = ":" /\ line[4] = i.port
    BY <2>2
  <2>4. AfterColon(line, 2, default) = SubSeq(line, 3 + 1, Len(line))
    <3>1. 3 \in 2 .. Len(line) /\ 2 \in Nat \ {0}
      BY <1>1, <1>2, <2>1
    <3>2. \A k \in 2 .. 3 - 1 : line[k] # ":"
      BY <1>2, <2>3
    <3> QED
      BY <1>1, <2>3, <3>1, <3>2, AfterColonIs
  <2> DEFINE rest == <<i.port>> \o i.path
  <2>5. /\ rest \in Seq(Tokens) /\ Len(rest) = 1 + p /\ rest[1] = i.port
        /\ \A k \in 1 .. p : rest[1 + k] = i.path[k]
    <3>1. <<i.port>> \in Seq(Tokens) /\ Len(<<i.port>>) = 1 /\ <<i.port>>[1] = i.port
      BY <1>2
    <3>2. /\ rest \in Seq(Tokens) /\ Len(rest) = Len(<<i.port>>) + Len(i.path)
          /\ \A k \in 1 .. Len(<<i.port>>) : rest[k] = <<i.port>>[k]
          /\ \A k \in 1 .. Len(i.path) : rest[Len(<<i.port>>) + k] = i.path[k]
      BY <1>2, <3>1, ConcatIs
    <3> QED
      BY <1>2, <3>1, <3>2 DEF p
  <2> HIDE DEF rest
  <2>6. \A k \in 1 .. Len(rest) : line[3 + k] = rest[k]
    <3> TAKE k \in 1 .. Len(rest)
    <3>1. CASE k = 1
      BY <2>3, <2>5, <3>1
    <3>2. CASE k > 1
      <4>1. k - 1 \in 1 .. p /\ k = 1 + (k - 1) /\ 3 + k = 1 + h + (k - 1)
        BY <1>2, <2>1, <2>5, <3>2
      <4> QED
        BY <1>1, <2>5, <4>1
    <3> QED
      BY <2>5, <3>1, <3>2
  <2>7. 3 \in Nat /\ 3 + Len(rest) = Len(line)
    BY <1>1, <1>2, <2>1, <2>5
  <2>8. SubSeq(line, 3 + 1, 3 + Len(rest)) = rest
    BY <1>1, <2>5, <2>6, <2>7, SubSeqIs
  <2>9. AfterColon(line, 2, default) = rest
    BY <2>4, <2>7, <2>8
  <2> QED
    BY <1>3, <2>9 DEF line, rest
<1>4. CASE i.port = "default"
  <2>1. h = 1 /\ HostAndPort(i)[1] = i.host
    BY <1>4, HostAndPortIs
  <2> HIDE DEF h
  <2>2. line[1 + 1] = i.host
    BY <1>1, <2>1
  <2>3. \A k \in 2 .. 2 : line[k] # ":"
    BY <1>2, <2>2
  <2>4. /\ 2 \in Nat /\ 2 \in 1 .. 2 + 1 /\ Len(i.path) > 0 /\ Len(line) = 2 + Len(i.path)
        /\ \A k \in 1 .. Len(i.path) : line[2 + k] = i.path[k]
    BY <1>1, <1>2, <2>1
  <2>5. AfterColon(line, 2, default) =
          IF Contains(i.path, ":") THEN AfterColon(i.path, 1, <<"80">>) ELSE default
    <3> DEFINE m == 2
               tail == i.path
               other == <<"80">>
    <3>1. EndsIn(line, m, tail)
      BY <1>1, <1>2, <2>3, <2>4 DEF EndsIn
    <3> HIDE DEF m, tail, other
    <3>2. AfterColon(line, m, default) =
            IF Contains(tail, ":") THEN AfterColon(tail, 1, other) ELSE default
      BY <3>1, AfterColonOfTail
    <3> QED
      BY <3>2 DEF m, tail, other
  <2> QED
    BY <1>4, <2>5 DEF line
<1> QED
  BY <1>3, <1>4

\* A URL stands nowhere but at the front of an absolute target.
LEMMA NoUrlInside ==
  ASSUME NEW i \in Intents, NEW k \in 1 .. Len(Target(i)), i.form = "absolute" => k > 1
  PROVE  Target(i)[k] \notin {"http://", "https://"}
<1>1. CASE i.form = "absolute"
  <2> DEFINE h == Len(HostAndPort(i))
             p == Len(i.path)
  <2>1. h \in Nat /\ p \in Nat
    BY HostAndPortIs, IntentIs
  <2>2. /\ Len(Target(i)) = 1 + h + p
        /\ \A j \in 1 .. h : Target(i)[1 + j] = HostAndPort(i)[j]
        /\ \A j \in 1 .. p : Target(i)[1 + h + j] = i.path[j]
    BY <1>1, TargetIs
  <2>3. k \in 1 .. 1 + h + p /\ k > 1
    BY <1>1, <2>2, Zenon
  <2>4. \A j \in 1 .. h : HostAndPort(i)[j] \notin {"http://", "https://"}
    BY HostAndPortTokens
  <2>5. \A j \in 1 .. p : i.path[j] \notin {"http://", "https://"}
    BY PathTokens
  <2> HIDE DEF h, p
  <2>6. CASE k <= 1 + h
    <3>1. k - 1 \in 1 .. h /\ k = 1 + (k - 1)
      BY <2>1, <2>3, <2>6
    <3> QED
      BY <2>2, <2>4, <3>1
  <2>7. CASE k > 1 + h
    <3>1. k - 1 - h \in 1 .. p /\ k = 1 + h + (k - 1 - h)
      BY <2>1, <2>3, <2>7
    <3> QED
      BY <2>2, <2>5, <3>1
  <2> QED
    BY <2>1, <2>3, <2>6, <2>7
<1>2. CASE i.form = "authority"
  <2>1. Target(i) = HostAndPort(i)
    BY <1>2, TargetIs
  <2>2. k \in 1 .. Len(HostAndPort(i))
    BY <2>1, Zenon
  <2> QED
    BY <2>1, <2>2, HostAndPortTokens
<1>3. CASE i.form = "origin"
  <2>1. Target(i) = i.path
    BY <1>3, TargetIs
  <2>2. k \in 1 .. Len(i.path)
    BY <2>1, Zenon
  <2> QED
    BY <2>1, <2>2, PathTokens
<1> QED
  BY <1>1, <1>2, <1>3, FormIs

\* The port of the first line.
LEMMA GetPortIs ==
  ASSUME NEW i \in Intents
  PROVE  GetPort(Header(i)) = IF PortIsClear(i) THEN <<WantedPort(i)>> ELSE Misread(i)
<1> DEFINE line == Target(i)
<1>1. SubString(Header(i), Blank, Blank) = line /\ line \in Seq(Tokens) /\ Len(line) \in Nat
  <2>1. SubString(Header(i), Blank, Blank) = line
    BY FirstLine
  <2>2. line \in Seq(Tokens)
    BY TargetIs
  <2> HIDE DEF line
  <2> QED
    BY <2>1, <2>2
<1>2. CASE i.form = "absolute"
  <2>1. Len(line) >= 1 /\ line[1] = i.scheme
    <3>1. /\ Len(line) = 1 + Len(HostAndPort(i)) + Len(i.path)
          /\ Len(HostAndPort(i)) \in Nat /\ Len(i.path) \in Nat
      <4>1. Len(line) = 1 + Len(HostAndPort(i)) + Len(i.path)
        BY <1>2, TargetIs
      <4>2. HostAndPort(i) \in Seq(Tokens) /\ i.path \in Seq(Tokens)
        BY HostAndPortIs, IntentIs
      <4> QED
        BY <4>1, <4>2
    <3>2. line[1] = i.scheme
      BY <1>2, TargetIs
    <3> DEFINE h == Len(HostAndPort(i))
               p == Len(i.path)
    <3> HIDE DEF line, h, p
    <3>3. Len(line) >= 1
      <4>1. Len(line) = 1 + h + p /\ h \in Nat /\ p \in Nat
        BY <3>1 DEF h, p
      <4> QED
        BY <4>1
    <3> QED
      BY <3>2, <3>3
  <2>2. \A k \in 1 .. Len(line) : k > 1 => line[k] \notin {"http://", "https://"}
    BY NoUrlInside
  <2>3. PortIsClear(i) <=> i.port = "default" /\ ~Contains(i.path, ":")
    BY <1>2 DEF PortIsClear
  <2>4. Misread(i) = IF i.port # "default" THEN <<i.port>> \o i.path ELSE AfterColon(i.path, 1, <<"80">>)
    BY <1>2 DEF Misread
  <2>5. CASE i.scheme = "http://"
    <3>1. Find(line, "http://", 1) = 1
      BY <1>1, <2>1, <2>5, FindIs
    <3>2. GetPort(Header(i)) = AfterColon(line, 2, <<"80">>)
      BY <1>1, <3>1 DEF GetPort
    <3>3. i.port = "default" => WantedPort(i) = "80"
      BY <2>5 DEF WantedPort
    <3> QED
      BY <1>2, <2>3, <2>4, <3>2, <3>3, AbsolutePort
  <2>6. CASE i.scheme = "https://"
    <3>1. Find(line, "http://", 1) = 0
      BY <1>1, <2>1, <2>2, <2>6, FindNone
    <3>2. Find(line, "https://", 1) = 1
      BY <1>1, <2>1, <2>6, FindIs
    <3>3. GetPort(Header(i)) = AfterColon(line, 2, <<"443">>)
      BY <1>1, <3>1, <3>2 DEF GetPort
    <3>4. i.port = "default" => WantedPort(i) = "443"
      BY <2>6 DEF WantedPort
    <3> QED
      BY <1>2, <2>3, <2>4, <3>3, <3>4, AbsolutePort
  <2> QED
    BY <2>5, <2>6, IntentIs
<1>3. ASSUME i.form # "absolute"
      PROVE  GetPort(Header(i)) = AfterColon(line, 1, <<"80">>)
  <2>1. \A k \in 1 .. Len(line) : line[k] \notin {"http://", "https://"}
    BY <1>3, NoUrlInside
  <2>2. Find(line, "http://", 1) = 0 /\ Find(line, "https://", 1) = 0
    BY <2>1, FindNone
  <2> QED
    BY <1>1, <2>2 DEF GetPort
<1>4. CASE i.form = "authority"
  <2>1. i.port # "default" /\ i.host # ":" /\ i.port \in Tokens
    BY <1>4, IntentIs, SearchedIs
  <2>2. /\ line = HostAndPort(i) /\ Len(line) = 3
        /\ line[1] = i.host /\ line[2] = ":" /\ line[3] = i.port
    BY <1>4, <2>1, TargetIs, HostAndPortIs
  <2> DEFINE port_ == <<i.port>>
  <2>3. port_ \in Seq(Tokens) /\ Len(port_) = 1 /\ port_[1] = i.port
    BY <2>1
  <2> HIDE DEF line, port_
  <2>4. AfterColon(line, 1, <<"80">>) = SubSeq(line, 2 + 1, Len(line))
    <3>1. 2 \in 1 .. Len(line) /\ 1 \in Nat \ {0}
      BY <2>2
    <3>2. \A k \in 1 .. 2 - 1 : line[k] # ":"
      BY <2>1, <2>2
    <3> QED
      BY <1>1, <2>2, <3>1, <3>2, AfterColonIs
  <2>5. SubSeq(line, 2 + 1, 2 + Len(port_)) = port_
    <3>1. \A k \in 1 .. Len(port_) : line[2 + k] = port_[k]
      BY <2>2, <2>3
    <3>2. 2 \in Nat /\ 2 + Len(port_) <= Len(line)
      BY <2>2, <2>3
    <3> QED
      BY <1>1, <2>3, <3>1, <3>2, SubSeqIs
  <2>6. GetPort(Header(i)) = port_
    BY <1>3, <1>4, <2>2, <2>3, <2>4, <2>5
  <2>7. PortIsClear(i) /\ WantedPort(i) = i.port
    BY <1>4, <2>1 DEF PortIsClear, WantedPort
  <2> QED
    BY <2>6, <2>7 DEF port_
<1>5. CASE i.form = "origin"
  <2>1. line = i.path /\ i.path \in Seq(Tokens) /\ i.scheme = "http://"
    BY <1>5, TargetIs, IntentIs
  <2>2. GetPort(Header(i)) = AfterColon(i.path, 1, <<"80">>)
    BY <1>3, <1>5, <2>1
  <2>3. Misread(i) = AfterColon(i.path, 1, <<"80">>)
    BY <1>5 DEF Misread
  <2>4. ASSUME PortIsClear(i)
        PROVE  AfterColon(i.path, 1, <<"80">>) = <<WantedPort(i)>>
    <3>1. i.port = "default" /\ ~Contains(i.path, ":")
      BY <1>5, <2>4 DEF PortIsClear
    <3>2. \A k \in 1 .. Len(i.path) : i.path[k] # ":"
      BY <3>1 DEF Contains
    <3>3. WantedPort(i) = "80"
      BY <2>1, <3>1 DEF WantedPort
    <3> QED
      BY <2>1, <3>2, <3>3, AfterColonNone
  <2> QED
    BY <2>2, <2>3, <2>4
<1> QED
  BY <1>2, <1>4, <1>5, FormIs

\* What asks for the PAC file the way start() wrote it into the settings is
\* recognised.
LEMMA PacRecognised ==
  ASSUME NEW i \in Intents, i.form = "origin", i.host \in LocalHosts, i.named,
         Head(i.path) = "/proxy.pac", i.port # "default"
  PROVE  IsPacRequest(Header(i))
<1> DEFINE text == Header(i)
           prefix == <<"GET", Blank, "/proxy.pac">>
<1>1. HasLocalHost(SubString(text, HostField, "\r\n"))
  <2>1. SubString(text, HostField, "\r\n") = HostAndPort(i)
    BY HostNamed
  <2>2. /\ Len(HostAndPort(i)) = 3
        /\ HostAndPort(i)[1] \in LocalHosts /\ HostAndPort(i)[2] = ":"
    BY HostAndPortIs
  <2>3. HasLocalHost(HostAndPort(i))
    BY <2>2 DEF HasLocalHost
  <2> QED
    BY <2>1, <2>3
<1>2. StartsWith(text, prefix)
  <2>1. /\ text \in Seq(Tokens) /\ Len(text) \in Nat /\ Len(text) > 3
        /\ text[1] = "GET" /\ text[2] = Blank /\ text[3] = "/proxy.pac"
    <3>1. Target(i) = i.path /\ Len(i.path) \in Nat /\ Len(i.path) > 0
      BY TargetIs, IntentIs
    <3>2. Method(i) = "GET"
      BY DEF Method
    <3>3. i.path[1] = "/proxy.pac"
      BY <3>1, IntentIs
    <3>4. /\ text \in Seq(Tokens) /\ Len(HostLine(i)) \in Nat
          /\ Len(text) = Len(Target(i)) + Len(HostLine(i)) + 6
          /\ text[1] = Method(i) /\ text[2] = Blank
          /\ \A k \in 1 .. Len(Target(i)) : text[2 + k] = Target(i)[k]
      BY HeaderIs
    <3>5. 1 \in 1 .. Len(Target(i))
      BY <3>1
    <3>6. text[2 + 1] = "/proxy.pac"
      BY <3>1, <3>3, <3>4, <3>5
    <3> HIDE DEF text
    <3> QED
      BY <3>1, <3>2, <3>4, <3>6
  <2>2. prefix \in Seq(Tokens) /\ Len(prefix) = 3
        /\ prefix[1] = "GET" /\ prefix[2] = Blank /\ prefix[3] = "/proxy.pac"
    <3>1. "GET" \in Tokens /\ Blank \in Tokens /\ "/proxy.pac" \in Tokens
      BY LiteralsAreTokens DEF Literals, Searched
    <3> QED
      BY <3>1
  <2> HIDE DEF text, prefix
  <2>3. \A k \in 1 .. Len(prefix) : text[k] = prefix[k]
    BY <2>1, <2>2
  <2>4. Len(prefix) <= Len(text)
    BY <2>1, <2>2
  <2> QED
    BY <2>1, <2>2, <2>3, <2>4, StartsWithIs
<1> QED
  BY <1>1, <1>2 DEF IsPacRequest

\* What is recognised is for this machine and for that file.
LEMMA RecognisedIsPac ==
  ASSUME NEW i \in Intents, IsPacRequest(Header(i))
  PROVE  i.host \in LocalHosts /\ Head(i.path) = "/proxy.pac"
<1> DEFINE text == Header(i)
           short == <<"GET", Blank, "/proxy.pac">>
           long(local) == <<"GET", Blank, "http://", local, ":", "1080", "/proxy.pac", Blank>>
<1>1. i.path[1] = Head(i.path) /\ Len(i.path) \in Nat /\ Len(i.path) > 0
  BY IntentIs
<1>2. i.host \in LocalHosts
  <2>1. HasLocalHost(SubString(text, HostField, "\r\n"))
    BY DEF IsPacRequest
  <2>2. i.named
    <3> SUFFICES ASSUME ~i.named
                 PROVE  FALSE
      OBVIOUS
    <3>1. SubString(text, HostField, "\r\n") = <<>>
      BY HostUnnamed
    <3>2. ~HasLocalHost(<<>>)
      BY DEF HasLocalHost
    <3> QED
      BY <2>1, <3>1, <3>2
  <2>3. SubString(text, HostField, "\r\n") = HostAndPort(i)
    BY <2>2, HostNamed
  <2>4. PICK k \in 1 .. Len(HostAndPort(i)) - 1 :
          HostAndPort(i)[k] \in LocalHosts /\ HostAndPort(i)[k + 1] = ":"
    BY <2>1, <2>3 DEF HasLocalHost
  <2>5. /\ Len(HostAndPort(i)) = 1 \/ Len(HostAndPort(i)) = 3
        /\ HostAndPort(i)[1] = i.host
        /\ Len(HostAndPort(i)) = 3 => HostAndPort(i)[2] = ":"
    BY HostAndPortIs
  <2>6. k = 1
    <3>1. ":" \notin LocalHosts
      BY DEF LocalHosts
    <3> QED
      BY <2>4, <2>5, <3>1
  <2> QED
    BY <2>4, <2>5, <2>6
<1>3. /\ text \in Seq(Tokens) /\ Len(Target(i)) \in Nat
      /\ text[1] = Method(i)
      /\ \A k \in 1 .. Len(Target(i)) : text[2 + k] = Target(i)[k]
  BY HeaderIs
<1>4. StartsWith(text, short) \/ \E local \in LocalHosts : StartsWith(text, long(local))
  BY DEF IsPacRequest
<1>5. /\ short \in Seq(Tokens) /\ Len(short) = 3 /\ short[1] = "GET" /\ short[3] = "/proxy.pac"
  <2>1. "GET" \in Tokens /\ Blank \in Tokens /\ "/proxy.pac" \in Tokens
    BY LiteralsAreTokens DEF Literals, Searched
  <2> QED
    BY <2>1
<1>6. ASSUME NEW local \in LocalHosts
      PROVE  /\ long(local) \in Seq(Tokens) /\ Len(long(local)) = 8
             /\ long(local)[1] = "GET" /\ long(local)[3] = "http://"
             /\ long(local)[5] = ":" /\ long(local)[7] = "/proxy.pac"
  <2>1. /\ "GET" \in Tokens /\ Blank \in Tokens /\ "/proxy.pac" \in Tokens
        /\ "http://" \in Tokens /\ local \in Tokens /\ ":" \in Tokens /\ "1080" \in Tokens
    BY LiteralsAreTokens DEF Literals, Searched, LocalHosts
  <2> QED
    BY <2>1
<1> HIDE DEF text, short, long
<1>7. /\ text[1] = "GET"
      /\ \/ text[3] = "/proxy.pac"
         \/ text[3] = "http://" /\ text[5] = ":" /\ text[7] = "/proxy.pac"
  <2>1. CASE StartsWith(text, short)
    <3>1. \A k \in 1 .. 3 : text[k] = short[k]
      BY <1>3, <1>5, <2>1, StartsWithIs
    <3> QED
      BY <1>5, <3>1
  <2>2. ASSUME NEW local \in LocalHosts, StartsWith(text, long(local))
        PROVE  text[1] = "GET" /\ text[3] = "http://" /\ text[5] = ":" /\ text[7] = "/proxy.pac"
    <3>1. \A k \in 1 .. 8 : text[k] = long(local)[k]
      BY <1>3, <1>6, <2>2, StartsWithIs
    <3> QED
      BY <1>6, <3>1
  <2> QED
    BY <1>4, <2>1, <2>2
<1>8. i.form # "authority"
  BY <1>3, <1>7 DEF Method
<1>9. CASE i.form = "origin"
  <2>1. Target(i) = i.path
    BY <1>9, TargetIs
  <2>2. text[2 + 1] = i.path[1]
    BY <1>1, <1>3, <2>1
  <2>3. i.path[1] # "http://"
    <3>1. 1 \in 1 .. Len(i.path)
      BY <1>1
    <3> QED
      BY <3>1, PathTokens
  <2> QED
    BY <1>1, <1>2, <1>7, <2>2, <2>3
<1>10. CASE i.form = "absolute"
  <2> DEFINE h == Len(HostAndPort(i))
             line == Target(i)
  <2>1. /\ Len(line) = 1 + h + Len(i.path) /\ line[1] = i.scheme
        /\ \A k \in 1 .. Len(i.path) : line[1 + h + k] = i.path[k]
    BY <1>10, TargetIs
  <2>2. i.scheme # "/proxy.pac" /\ i.path[1] # ":"
    BY IntentIs
  <2>3. \A k \in 1 .. Len(line) : text[2 + k] = line[k]
    BY <1>3
  <2>4. /\ i.port = "default" => h = 1
        /\ i.port # "default" => h = 3
    BY HostAndPortIs
  <2> HIDE DEF h, line
  <2>5. text[3] = i.scheme
    <3>1. 1 \in 1 .. Len(line)
      BY <1>1, <2>1, <2>4
    <3>2. text[2 + 1] = i.scheme
      BY <2>1, <2>3, <3>1
    <3> QED
      BY <3>2
  <2>6. text[5] = ":" /\ text[7] = "/proxy.pac"
    BY <1>7, <2>2, <2>5
  <2>7. text[2 + (1 + h + 1)] = i.path[1]
    <3>1. 1 + h + 1 \in 1 .. Len(line) /\ 1 \in 1 .. Len(i.path)
      BY <1>1, <2>1, <2>4
    <3> QED
      BY <2>1, <2>3, <3>1
  <2>8. i.port # "default"
    BY <2>2, <2>4, <2>6, <2>7
  <2> QED
    BY <1>1, <1>2, <2>4, <2>6, <2>7, <2>8
<1> QED
  BY <1>8, <1>9, <1>10, FormIs
-----------------------------------------------------------------------------
(* The invariants.                                                         *)

Accepted == {"accepted", "tunnel", "forwarded"}

\* Where a request is, and what is known of it there.
TypeInv ==
  /\ intent \in Intents /\ size \in Sizes
  /\ clientOrder \in ByteOrders /\ serverOrder \in ByteOrders
  /\ stage \in {"read", "pac", "sent", "arrived", "rejected", "garbled"} \cup Accepted

FrameInv ==
  stage \in {"sent", "arrived"} => frame = [len    |-> Bytes(clientOrder, size + 2, 4),
                                           reqLen |-> Bytes(clientOrder, size, 2)]

LengthInv ==
  /\ stage \in Accepted => reqLen = size /\ arrived = size + 2 /\ size + 2 <= DataMaxLength
  /\ stage = "garbled" => clientOrder # serverOrder

PacInv ==
  /\ stage = "pac" => IsPacRequest(Header(intent))
  /\ stage \notin {"read", "pac"} => ~IsPacRequest(Header(intent))

TargetInv ==
  stage \in {"tunnel", "forwarded"} =>
    url = GetUrl(Header(intent)) /\ port = GetPort(Header(intent))

RequestInv == TypeInv /\ FrameInv /\ LengthInv /\ PacInv /\ TargetInv

LEMMA SizesAre ==
  ASSUME NEW n \in Sizes
  PROVE  n \in Nat /\ n > 0 /\ n + 2 \in Nat /\ Fits(n) /\ Fits(n + 2)
  BY SizesAssumption, SMT DEF Fits

LEMMA DataMaxLengthIs == DataMaxLength \in Nat /\ DataMaxLength < 65281
  BY SizesAssumption, SMT

LEMMA InitRequestInv == ASSUME Init PROVE RequestInv
  BY DEF Init, RequestInv, TypeInv, FrameInv, LengthInv, PacInv, TargetInv, Accepted

LEMMA DealWithDataRequestInv == ASSUME RequestInv, DealWithData PROVE RequestInv'
<1>1. TypeInv'
  BY DEF RequestInv, TypeInv, DealWithData
<1>2. FrameInv'
  BY DEF FrameInv, DealWithData
<1>3. stage' \in {"pac", "sent"}
  BY DEF DealWithData
<1>4. LengthInv' /\ TargetInv'
  BY <1>3 DEF LengthInv, TargetInv, Accepted
<1>5. PacInv'
  BY DEF PacInv, DealWithData
<1> QED
  BY <1>1, <1>2, <1>4, <1>5 DEF RequestInv

LEMMA HostReadsRequestInv == ASSUME RequestInv, HostReads PROVE RequestInv'
<1>1. /\ stage = "sent" /\ stage' = "arrived"
      /\ UNCHANGED <<intent, size, clientOrder, serverOrder, frame>>
  BY DEF HostReads
<1>2. TypeInv' /\ FrameInv' /\ PacInv'
  BY <1>1 DEF RequestInv, TypeInv, FrameInv, PacInv
<1>3. LengthInv' /\ TargetInv'
  BY <1>1 DEF LengthInv, TargetInv, Accepted
<1> QED
  BY <1>2, <1>3 DEF RequestInv

LEMMA RecvRequestInv == ASSUME RequestInv, Recv PROVE RequestInv'
<1> DEFINE len == Value(serverOrder, frame.len)
           req == Value(serverOrder, frame.reqLen)
<1>1. /\ size \in Nat /\ size + 2 \in Nat /\ Fits(size) /\ Fits(size + 2)
      /\ DataMaxLength \in Nat /\ DataMaxLength < 65281
      /\ clientOrder \in ByteOrders /\ serverOrder \in ByteOrders
  BY SizesAre, DataMaxLengthIs DEF RequestInv, TypeInv
<1>2. frame.len = Bytes(clientOrder, size + 2, 4) /\ frame.reqLen = Bytes(clientOrder, size, 2)
  BY DEF RequestInv, FrameInv, Recv
<1>3. /\ stage' \in {"rejected", "accepted", "garbled"}
      /\ stage' \in {"accepted", "garbled"} => /\ len = arrived /\ ~(len > DataMaxLength)
                                               /\ reqLen' = req
                                               /\ stage' = "accepted" <=> req + 2 = len
  BY DEF Recv, Take
<1>4. /\ clientOrder' = clientOrder /\ serverOrder' = serverOrder /\ size' = size
      /\ intent' = intent /\ arrived' = arrived /\ stage = "arrived"
  BY DEF Recv
<1>5. TypeInv' /\ FrameInv' /\ TargetInv'
  BY <1>3, <1>4 DEF RequestInv, TypeInv, FrameInv, TargetInv, Accepted
<1>6. PacInv'
  BY <1>3, <1>4 DEF RequestInv, PacInv
<1>7. len \in Nat
  BY <1>1, <1>2, ReadingIsNat
<1>8. ASSUME clientOrder = serverOrder, len <= DataMaxLength
      PROVE  len = size + 2 /\ req = size
  <2>1. len = size + 2
    BY <1>1, <1>2, <1>8, SameOrder
  <2>2. size < 65536
    BY <1>1, <1>8, <2>1
  <2> QED
    BY <1>1, <1>2, <1>8, <2>1, <2>2, SameOrder
<1>9. ASSUME clientOrder # serverOrder, len <= DataMaxLength
      PROVE  req + 2 # len
  BY <1>1, <1>2, <1>9, OtherOrder
<1>10. LengthInv'
  <2>1. CASE stage' = "rejected"
    BY <2>1 DEF LengthInv, Accepted
  <2>2. CASE stage' # "rejected"
    <3>1. len = arrived /\ len <= DataMaxLength /\ reqLen' = req
      BY <1>1, <1>3, <1>7, <2>2
    <3>2. CASE clientOrder = serverOrder
      <4>1. len = size + 2 /\ req = size /\ stage' = "accepted"
        BY <1>3, <1>8, <2>2, <3>1, <3>2
      <4> QED
        BY <1>4, <3>1, <4>1 DEF LengthInv, Accepted
    <3>3. CASE clientOrder # serverOrder
      <4>1. stage' = "garbled"
        BY <1>3, <1>9, <2>2, <3>1, <3>3
      <4> QED
        BY <1>4, <3>3, <4>1 DEF LengthInv, Accepted
    <3> QED
      BY <3>2, <3>3
  <2> QED
    BY <2>1, <2>2
<1> QED
  BY <1>5, <1>6, <1>10 DEF RequestInv

LEMMA OnConnectRequestInv == ASSUME RequestInv, OnConnect PROVE RequestInv'
<1>1. /\ stage = "accepted" /\ reqLen = size /\ arrived = size + 2
      /\ size + 2 <= DataMaxLength
  BY DEF RequestInv, LengthInv, Accepted, OnConnect
<1>2. reqLen <= DataMaxLength
  BY <1>1, SizesAre, DataMaxLengthIs DEF RequestInv, TypeInv
<1>3. /\ stage' \in {"tunnel", "forwarded"}
      /\ url' = GetUrl(Header(intent)) /\ port' = GetPort(Header(intent))
      /\ UNCHANGED <<intent, size, clientOrder, serverOrder, frame, arrived, reqLen>>
  BY <1>2 DEF OnConnect
<1>4. TypeInv' /\ FrameInv' /\ TargetInv'
  BY <1>3 DEF RequestInv, TypeInv, FrameInv, TargetInv, Accepted
<1>5. LengthInv' /\ PacInv'
  BY <1>1, <1>3 DEF RequestInv, LengthInv, PacInv, Accepted
<1> QED
  BY <1>4, <1>5 DEF RequestInv

\* The inductive invariant: from a request as recv() may get it, through the
\* frame as deal_with_data() built it, to what on_connect() took out of it.
THEOREM Invariance == Spec => []RequestInv
<1>1. Init => RequestInv
  BY InitRequestInv
<1>2. RequestInv /\ [Next]_vars => RequestInv'
  <2> SUFFICES ASSUME RequestInv, [Next]_vars
               PROVE  RequestInv'
    OBVIOUS
  <2>1. CASE DealWithData
    BY <2>1, DealWithDataRequestInv
  <2>2. CASE HostReads
    BY <2>2, HostReadsRequestInv
  <2>3. CASE Recv
    BY <2>3, RecvRequestInv
  <2>4. CASE OnConnect
    BY <2>4, OnConnectRequestInv
  <2>5. CASE UNCHANGED vars
    BY <2>5 DEF vars, RequestInv, TypeInv, FrameInv, LengthInv, PacInv, TargetInv
  <2> QED
    BY <2>1, <2>2, <2>3, <2>4, <2>5 DEF Next
<1> QED
  BY <1>1, <1>2, PTL DEF Spec

\* Whatever the lengths, the byte orders of the two machines and the end of
\* the transport: what is connected for has its whole length and can be
\* written, and only between machines of different orders can the two length
\* fields disagree.
THEOREM WholeOrNotAtAllTheorem == Spec => []WholeOrNotAtAll
<1>1. RequestInv => WholeOrNotAtAll
  BY DEF RequestInv, TypeInv, LengthInv, WholeOrNotAtAll, Accepted
<1> QED
  BY <1>1, Invariance, PTL

\* Whatever the hosts, ports and paths: on_connect() resolves the host of the
\* Host line and a port that is the one meant just where the first line has
\* no other colon; where it has one, it is what follows it.
THEOREM TargetIsMeantTheorem == Spec => []TargetIsMeant
<1>1. RequestInv => TargetIsMeant
  BY GetUrlIs, GetPortIs DEF RequestInv, TypeInv, TargetInv, TargetIsMeant
<1> QED
  BY <1>1, Invariance, PTL

\* Whatever the local port is, other than the one browsers leave out: a
\* request for the PAC file at this machine is served here and not sent, and
\* no other request is taken for one.
THEOREM PacIsServedTheorem == Spec => []PacIsServed
<1>1. RequestInv => PacIsServed
  BY PacRecognised, RecognisedIsPac DEF RequestInv, TypeInv, PacInv, PacIsServed
<1> QED
  BY <1>1, Invariance, PTL
=============================================================================
