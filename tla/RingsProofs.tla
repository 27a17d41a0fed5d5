---------------------------- MODULE RingsProofs ----------------------------
(***************************************************************************)
(* What is proved of the rings that hold data and of the USB devices.  Of  *)
(* the rings, that what comes out is what was put in, in order: the        *)
(* packets of VMBus at any place and over the end; the blocks of USB       *)
(* storage, past the links at the ends of its rings; and the characters    *)
(* typed, in order unless the interrupt and the polling thread have met,   *)
(* once unless the one has read what the other had seen, and none that was *)
(* not typed.  Of the USB host controller, that it ends with a device of   *)
(* its kind in every role it has looked for, on a slot of its own,         *)
(* whatever is plugged in, typed or late, as long as no wait for a command *)
(* has run out; and that its event ring, which is used once, always ends   *)
(* before a ring in which reports are asked for.                           *)
(***************************************************************************)
EXTENDS MCDevices, Xhci, FiniteSetTheorems, SequenceTheorems, TLAPS

(* A step of one device is none of another.                                *)
deviceVars == <<device, virtioVars, nvmeVars, ahciVars, storVars, vmbusVars, ringVars, netVars,
                usbVars, keyboardVars>>

LEMMA StepIsOfOneRing ==
    ASSUME [DevicesNext]_deviceVars
    PROVE  /\ [RingNext]_ringVars
           /\ [UsbNext]_usbVars
           /\ [KeyboardNext]_keyboardVars
  BY DEF DevicesNext, deviceVars

-----------------------------------------------------------------------------
(* Indices of a ring                                                       *)


(* An index below the size stands for itself.                              *)
LEMMA ModWithin ==
    ASSUME NEW q \in Nat \ {0}, NEW a \in Nat, a < q
    PROVE  a % q = a
  OBVIOUS

(* One that has gone past the end begins again.                            *)
LEMMA ModPast ==
    ASSUME NEW q \in Nat \ {0}, NEW a \in Nat, q <= a, a < q + q
    PROVE  a % q = a - q
  OBVIOUS

(* How far one index of a ring is ahead of another, when either moves on   *)
Ahead(q, x, y) == (x + q - y) % q

(* The distance, without the remainder                                     *)
LEMMA AheadIs ==
    ASSUME NEW q \in Nat \ {0}, NEW x \in 0 .. q - 1, NEW y \in 0 .. q - 1
    PROVE  Ahead(q, x, y) = IF x < y THEN x + q - y ELSE x - y
<1>1. CASE x < y
  BY <1>1, ModWithin, x + q - y \in Nat, x + q - y < q DEF Ahead
<1>2. CASE ~(x < y)
  BY <1>2, ModPast, x + q - y \in Nat, q <= x + q - y, x + q - y < q + q DEF Ahead
<1> QED BY <1>1, <1>2

(* The place after x, without the remainder                                *)
LEMMA NextIs ==
    ASSUME NEW q \in Nat \ {0}, NEW x \in 0 .. q - 1
    PROVE  (x + 1) % q = IF x + 1 = q THEN 0 ELSE x + 1
<1>1. CASE x + 1 = q
  BY <1>1, ModPast, x + 1 \in Nat, q <= x + 1, x + 1 < q + q
<1>2. CASE x + 1 # q
  BY <1>2, ModWithin, x + 1 \in Nat, x + 1 < q
<1> QED BY <1>1, <1>2

(* What the rings hold is of several shapes; that they are sequences is    *)
(* all that is needed.                                                     *)
IsRing(s) == \E S : s \in Seq(S)

(* A packet is put in.                                                     *)
LEMMA RingAppend ==
    ASSUME NEW s, IsRing(s), NEW packet
    PROVE  /\ IsRing(Append(s, packet)) /\ Len(s) \in Nat
           /\ Len(Append(s, packet)) = Len(s) + 1
<1>1. PICK S : s \in Seq(S)
  BY DEF IsRing
<1>2. s \in Seq(S \union {packet})
  BY <1>1
<1>3. /\ Append(s, packet) \in Seq(S \union {packet}) /\ Len(s) \in Nat
      /\ Len(Append(s, packet)) = Len(s) + 1
  BY <1>2
<1> QED BY <1>3 DEF IsRing

(* A number is its quotient and its remainder.                             *)
LEMMA Division ==
    ASSUME NEW p \in Nat \ {0}, NEW a \in Nat
    PROVE  \E q \in Nat : \E r \in 0 .. p - 1 : a = p * q + r
<1>1. a \div p \in Nat /\ a % p \in 0 .. p - 1
  OBVIOUS
<1>2. a = p * (a \div p) + (a % p)
  OBVIOUS
<1> QED BY <1>1, <1>2

(* And only one remainder there is.                                        *)
LEMMA Remainder ==
    ASSUME NEW p \in Nat \ {0}, NEW q \in Nat, NEW r \in 0 .. p - 1
    PROVE  (p * q + r) % p = r
  OBVIOUS

(* A sequence of n elements, and t with one more                           *)
AppendAs(s, x, t, n) == /\ IsRing(t) /\ Len(s) = n /\ Len(t) = n + 1 /\ t[n + 1] = x
                        /\ \A i \in 1 .. n : t[i] = s[i]

(* Append adds one at the end.                                             *)
LEMMA AppendIs ==
    ASSUME NEW s, IsRing(s), NEW x, NEW t, t = Append(s, x)
    PROVE  \E n \in Nat : AppendAs(s, x, t, n)
<1>1. PICK S : s \in Seq(S)
  BY DEF IsRing
<1>2. s \in Seq(S \union {x})
  BY <1>1
<1>3. PICK n \in Nat : Len(s) = n
  BY <1>1
<1>4. Append(s, x) \in Seq(S \union {x}) /\ Len(t) = n + 1 /\ t[n + 1] = x /\ \A i \in 1 .. n : t[i] = s[i]
  BY <1>2, <1>3
<1> QED BY <1>3, <1>4 DEF AppendAs, IsRing

-----------------------------------------------------------------------------
(* The packets in a ring of a VMBus channel                                *)

(* Words are counted round.                                                *)
LEMMA CountedRound ==
    ASSUME NEW q \in Nat \ {0}, NEW a \in Nat, NEW k \in Nat
    PROVE  ((a % q) + k) % q = (a + k) % q
<1>1. PICK s \in Nat, r \in 0 .. q - 1 : a = q * s + r
  BY Division
<1>2. a % q = r
  BY <1>1, Remainder
<1>3. PICK t \in Nat, u \in 0 .. q - 1 : r + k = q * t + u
  <2>1. r + k \in Nat
    BY <1>1
  <2> QED BY <2>1, Division
<1>4. (r + k) % q = u
  BY <1>3, Remainder
<1>5. s + t \in Nat /\ a + k = q * (s + t) + u
  BY <1>1, <1>3
<1>6. (a + k) % q = u
  BY <1>5, Remainder
<1> QED BY <1>2, <1>4, <1>6

(* The distance of two positions less than a round apart, either way       *)
LEMMA RingGap ==
    ASSUME NEW q \in Nat \ {0}, NEW x \in Nat, NEW d \in Nat, d < q
    PROVE  /\ (((x + d) % q) + q - (x % q)) % q = d
           /\ d > 0 => ((x % q) + q - ((x + d) % q)) % q = q - d
<1>1. PICK u \in 0 .. q - 1 : u = x % q
  OBVIOUS
<1>2. (x + d) % q = (u + d) % q
  BY <1>1, CountedRound
<1>3. CASE u + d < q
  <2>1. (x + d) % q = u + d
    BY <1>2, <1>3, ModWithin
  <2>2. (q + d) % q = d
    BY ModPast
  <2>3. d > 0 => (q - d) % q = q - d
    BY ModWithin
  <2> QED BY <1>1, <2>1, <2>2, <2>3
<1>4. CASE u + d >= q
  <2>1. (x + d) % q = u + d - q
    <3>1. PICK c \in Nat : c = u + d
      BY <1>1
    <3>2. q <= c /\ c < q + q
      BY <1>1, <1>4, <3>1
    <3>3. c % q = c - q
      BY <3>2, ModPast
    <3> QED BY <1>2, <3>1, <3>3
  <2>2. d % q = d
    BY ModWithin
  <2>3. d > 0 => ((q - d) + q) % q = q - d
    <3> SUFFICES ASSUME d > 0 PROVE ((q - d) + q) % q = q - d
      OBVIOUS
    <3>1. PICK c : c = (q - d) + q
      OBVIOUS
    <3>2. c \in Nat /\ q <= c /\ c < q + q
      BY <3>1
    <3>3. c % q = c - q
      BY <3>2, ModPast
    <3> QED BY <3>1, <3>3
  <2> QED BY <1>1, <2>1, <2>2, <2>3
<1> QED BY <1>3, <1>4

PutBehind(new, data, words, b, l, r) ==
    /\ \A k \in 1 .. l : new[(b + k - 1) % RingWords] = words[k]
    /\ \A p \in r .. b - 1 : new[p % RingWords] = data[p % RingWords]

(* ring_put_byte writes the words of a packet one behind the other, and    *)
(* leaves the words not yet read as they are, as long as it does not come  *)
(* round to them.                                                          *)
LEMMA PutWordsPuts ==
    ASSUME NEW b \in Nat, NEW r \in Nat, r <= b, NEW l \in Nat, b + l < r + RingWords,
           NEW words, DOMAIN words = 1 .. l, NEW data, NEW new,
           new = PutWords(data, b % RingWords, words)
    PROVE  PutBehind(new, data, words, b, l, r)
<1>1. RingWords \in Nat \ {0}
  BY VmbusRingAssumption
<1>2. \A i \in 0 .. RingWords - 1 :
         LET k == ((i + RingWords - (b % RingWords)) % RingWords) + 1
         IN new[i] = IF k \in DOMAIN words THEN words[k] ELSE data[i]
  BY DEF PutWords
<1>3. ASSUME NEW k \in 1 .. l
      PROVE  new[(b + k - 1) % RingWords] = words[k]
  <2>1. PICK d \in Nat : d = k - 1
    OBVIOUS
  <2>2. d < RingWords
    BY <1>1, <2>1
  <2>3. PICK i \in 0 .. RingWords - 1 : i = (b + d) % RingWords
    BY <1>1
  <2>4. (i + RingWords - (b % RingWords)) % RingWords = d
    BY <1>1, <2>2, <2>3, RingGap
  <2>5. new[i] = words[k]
    BY <1>2, <2>1, <2>3, <2>4
  <2>6. b + k - 1 = b + d
    BY <2>1
  <2> QED BY <2>3, <2>5, <2>6
<1>4. ASSUME NEW p \in r .. b - 1
      PROVE  new[p % RingWords] = data[p % RingWords]
  <2>1. PICK d \in Nat : d = b - p
    OBVIOUS
  <2>2. p \in Nat /\ d < RingWords /\ d > 0 /\ b = p + d /\ RingWords - d + 1 > l
    BY <1>1, <2>1
  <2>3. PICK i \in 0 .. RingWords - 1 : i = p % RingWords
    BY <1>1, <2>2
  <2>4. (i + RingWords - (b % RingWords)) % RingWords = RingWords - d
    BY <1>1, <2>2, <2>3, RingGap
  <2>5. RingWords - d + 1 \notin DOMAIN words
    BY <1>1, <2>2
  <2>6. new[i] = data[i]
    BY <1>2, <2>3, <2>4, <2>5
  <2> QED BY <2>3, <2>6
<1> QED BY <1>3, <1>4 DEF PutBehind

(* What a receiver uses of the words of a packet                           *)
WordsOf(shape) == HeaderWords + shape.prefix + shape.payload + 1
PayloadWord(id, i) == [kind |-> "payload", id |-> id, at |-> i]

IsPacket(words, shape, id) ==
    /\ DOMAIN words = 1 .. WordsOf(shape) /\ Len(words) = WordsOf(shape)
    /\ words[1] = HeaderWord(shape, id)
    /\ \A i \in 1 .. shape.payload : words[HeaderWords + shape.prefix + i] = PayloadWord(id, i)

(* One behind the other                                                    *)
JoinedTo(a, m, b, n, c) ==
    /\ IsRing(c) /\ Len(c) = m + n /\ DOMAIN c = 1 .. m + n
    /\ \A i \in 1 .. m : c[i] = a[i]
    /\ \A i \in 1 .. n : c[m + i] = b[i]

(* The words of the parts of a packet follow each other.                   *)
LEMMA JoinedAs ==
    ASSUME NEW a, IsRing(a), NEW m \in Nat, m = Len(a), NEW b, IsRing(b), NEW n \in Nat, n = Len(b),
           NEW c, c = a \o b
    PROVE  JoinedTo(a, m, b, n, c)
<1>1. PICK S : a \in Seq(S)
  BY DEF IsRing
<1>2. PICK T : b \in Seq(T)
  BY DEF IsRing
<1>4. PICK U : U = S \union T
  OBVIOUS
<1>5. a \in Seq(U) /\ b \in Seq(U)
  BY <1>1, <1>2, <1>4
<1>6. c \in Seq(U) /\ Len(c) = m + n /\ \A i \in 1 .. m + n : c[i] = IF i <= m THEN a[i] ELSE b[i - m]
  BY <1>5, ConcatProperties
<1>7. DOMAIN c = 1 .. m + n
  BY <1>6
<1>8. \A i \in 1 .. n : m + i \in 1 .. m + n /\ ~(m + i <= m) /\ (m + i) - m = i
  OBVIOUS
<1>9. \A i \in 1 .. n : c[m + i] = b[i]
  <2> TAKE i \in 1 .. n
  <2>1. PICK k \in 1 .. m + n : k = m + i
    BY <1>8
  <2> QED BY <1>6, <1>8, <2>1
<1>10. \A i \in 1 .. m : c[i] = a[i]
  BY <1>6
<1>11. IsRing(c)
  BY <1>6 DEF IsRing
<1> QED BY <1>6, <1>7, <1>9, <1>10, <1>11 DEF JoinedTo

(* A part that is the same throughout, or counted                          *)
LEMMA FunctionIsRing ==
    ASSUME NEW n \in Nat, NEW T, NEW s \in [1 .. n -> T]
    PROVE  IsRing(s) /\ Len(s) = n
<1>1. s \in Seq(T)
  BY SeqDef
<1> QED BY <1>1, LenProperties DEF IsRing

(* The packets of vsp_ring_send and vsp_ring_send_gpa                      *)
LEMMA PacketIs ==
    ASSUME NEW shape \in [prefix : Nat, payload : Nat], NEW id, NEW at,
           NEW words, words = PacketWords(shape, id, at)
    PROVE  IsPacket(words, shape, id)
<1>1. HeaderWords \in Nat \ {0} /\ shape.prefix \in Nat /\ shape.payload \in Nat
  BY VmbusRingAssumption
<1>2. PICK a : a = [i \in 1 .. HeaderWords |-> HeaderWord(shape, id)]
  OBVIOUS
<1>3. PICK b : b = [i \in 1 .. shape.prefix |-> Garbage]
  OBVIOUS
<1>4. PICK c : c = [i \in 1 .. shape.payload |-> [kind |-> "payload", id |-> id, at |-> i]]
  OBVIOUS
<1>5. PICK e : e = << [kind |-> "trailing", index |-> at] >>
  OBVIOUS
<1>6. IsRing(a) /\ Len(a) = HeaderWords /\ a[1] = HeaderWord(shape, id)
  <2>1. a \in [1 .. HeaderWords -> {HeaderWord(shape, id)}] /\ a[1] = HeaderWord(shape, id)
    BY <1>1, <1>2
  <2> QED BY <1>1, <2>1, FunctionIsRing
<1>7. IsRing(b) /\ Len(b) = shape.prefix
  <2>1. b \in [1 .. shape.prefix -> {Garbage}]
    BY <1>3
  <2> QED BY <1>1, <2>1, FunctionIsRing
<1>8. IsRing(c) /\ Len(c) = shape.payload /\ \A i \in 1 .. shape.payload : c[i] = PayloadWord(id, i)
  <2>1. c \in [1 .. shape.payload -> {PayloadWord(id, i) : i \in 1 .. shape.payload}]
    BY <1>4 DEF PayloadWord
  <2>2. \A i \in 1 .. shape.payload : c[i] = PayloadWord(id, i)
    BY <1>4 DEF PayloadWord
  <2> QED BY <1>1, <2>1, <2>2, FunctionIsRing
<1>9. IsRing(e) /\ Len(e) = 1
  <2>1. PICK x : x = [kind |-> "trailing", index |-> at]
    OBVIOUS
  <2>2. e = << x >>
    BY <1>5, <2>1
  <2>3. e \in Seq({x}) /\ Len(e) = 1
    BY <2>2
  <2> QED BY <2>3 DEF IsRing
<1>10. PICK ab : ab = a \o b
  OBVIOUS
<1>11. PICK abc : abc = ab \o c
  OBVIOUS
<1>12. words = abc \o e
  BY <1>2, <1>3, <1>4, <1>5, <1>10, <1>11, Zenon DEF PacketWords
<1>13. PICK h, p, l \in Nat : h = HeaderWords /\ p = shape.prefix /\ l = shape.payload
  BY <1>1
<1>14. JoinedTo(a, h, b, p, ab)
  BY <1>6, <1>7, <1>10, <1>13, JoinedAs
<1>22. PICK hp \in Nat : hp = h + p
  OBVIOUS
<1>23. PICK hpl \in Nat : hpl = h + p + l
  OBVIOUS
<1>15. JoinedTo(ab, hp, c, l, abc)
  <2>1. IsRing(ab) /\ Len(ab) = hp
    BY <1>14, <1>22 DEF JoinedTo
  <2> QED BY <1>8, <1>11, <1>13, <2>1, JoinedAs
<1>18. JoinedTo(abc, hpl, e, 1, words)
  <2>1. IsRing(abc) /\ Len(abc) = hpl
    BY <1>15, <1>22, <1>23 DEF JoinedTo
  <2> QED BY <1>9, <1>12, <1>13, <2>1, JoinedAs
<1>19. words[1] = HeaderWord(shape, id)
  <2>1. 1 \in 1 .. h /\ 1 \in 1 .. hp /\ 1 \in 1 .. hpl
    BY <1>1, <1>13, <1>22, <1>23
  <2> QED BY <1>6, <1>14, <1>15, <1>18, <2>1 DEF JoinedTo
<1>20. \A i \in 1 .. shape.payload : words[HeaderWords + shape.prefix + i] = PayloadWord(id, i)
  <2> SUFFICES ASSUME NEW i \in 1 .. l PROVE words[h + p + i] = PayloadWord(id, i)
    BY <1>13
  <2>1. h + p + i \in 1 .. hpl
    BY <1>13, <1>23
  <2>2. words[h + p + i] = abc[h + p + i]
    BY <1>18, <2>1 DEF JoinedTo
  <2>3. abc[h + p + i] = c[i]
    BY <1>15, <1>22 DEF JoinedTo
  <2> QED BY <1>8, <1>13, <2>2, <2>3
<1>21. DOMAIN words = 1 .. WordsOf(shape) /\ Len(words) = WordsOf(shape)
  BY <1>13, <1>18, <1>23 DEF JoinedTo, WordsOf
<1> QED BY <1>19, <1>20, <1>21 DEF IsPacket

(* Where packets begin, counted from the first word ever written: those    *)
(* not yet received are in the ring, and fill less than a round of it.     *)
Laid(begin, shapes) ==
    LET s == Len(r_sent)  r == Len(r_received) IN
    /\ begin \in [1 .. s + 1 -> Nat] /\ shapes \in [1 .. s -> PacketShapes]
    /\ r <= s
    /\ \A n \in 1 .. s : /\ begin[n + 1] = begin[n] + WordsOf(shapes[n])
                         /\ r_sent[n].payload = shapes[n].payload
    /\ \A m, n \in 1 .. s + 1 : m < n => begin[m] < begin[n]
    /\ r_write = begin[s + 1] % RingWords /\ r_read = begin[r + 1] % RingWords
    /\ begin[s + 1] < begin[r + 1] + RingWords
    /\ \A n \in r + 1 .. s :
          /\ r_data[begin[n] % RingWords] = HeaderWord(shapes[n], n)
          /\ \A i \in 1 .. shapes[n].payload :
                r_data[(begin[n] + HeaderWords + shapes[n].prefix + i - 1) % RingWords] = PayloadWord(n, i)

(* What vsp_ring_recv has copied of a packet                               *)
Copied(size) == IF size < BufferWords THEN size ELSE BufferWords

ReceivedRight ==
    \A n \in DOMAIN r_received :
        r_received[n] = [i \in 1 .. Copied(r_sent[n].payload) |-> PayloadWord(n, i)]

RingInv ==
    /\ IsRing(r_sent) /\ IsRing(r_received) /\ r_overrun \in BOOLEAN
    /\ ~r_overrun => ~r_stuck /\ ReceivedRight /\ \E begin, shapes : Laid(begin, shapes)

(* An empty ring                                                           *)
LEMMA RingInitInv == RingInit => RingInv
<1> SUFFICES ASSUME RingInit PROVE RingInv
  OBVIOUS
<1>1. r_sent = << >> /\ r_received = << >> /\ r_write = 0 /\ r_read = 0 /\ ~r_stuck /\ ~r_overrun
      /\ r_overrun \in BOOLEAN
  BY DEF RingInit
<1>2. IsRing(r_sent) /\ IsRing(r_received) /\ Len(r_sent) = 0 /\ Len(r_received) = 0
      /\ DOMAIN r_received = {}
  BY <1>1 DEF IsRing
<1>3. PICK begin : begin = [n \in 1 .. 1 |-> 0]
  OBVIOUS
<1>4. PICK shapes : shapes = [n \in 1 .. 0 |-> 0]
  OBVIOUS
<1>5. begin \in [1 .. 0 + 1 -> Nat] /\ begin[1] = 0 /\ shapes \in [1 .. 0 -> PacketShapes]
  BY <1>3, <1>4
<1>6. 0 % RingWords = 0 /\ 0 < 0 + RingWords
  BY VmbusRingAssumption
<1>7. Laid(begin, shapes)
  BY <1>1, <1>2, <1>5, <1>6 DEF Laid
<1> QED BY <1>1, <1>2, <1>7 DEF RingInv, ReceivedRight

(* The numbers in a state without overrun                                  *)
LEMMA UnreadIs ==
    ASSUME NEW begin, NEW shapes, Laid(begin, shapes), IsRing(r_sent), IsRing(r_received)
    PROVE  \E s, r, b, a \in Nat :
              /\ s = Len(r_sent) /\ r = Len(r_received) /\ r <= s
              /\ b = begin[s + 1] /\ a = begin[r + 1] /\ a <= b /\ b < a + RingWords
              /\ Unread = b - a
<1>1. PICK s, r \in Nat : s = Len(r_sent) /\ r = Len(r_received)
  BY DEF IsRing
<1>2. r <= s
  BY <1>1 DEF Laid
<1>3. PICK b, a \in Nat : b = begin[s + 1] /\ a = begin[r + 1]
  BY <1>1, <1>2 DEF Laid
<1>4. a <= b
  BY <1>1, <1>2, <1>3 DEF Laid
<1>5. b < a + RingWords /\ r_write = b % RingWords /\ r_read = a % RingWords
  BY <1>1, <1>3 DEF Laid
<1>6. RingWords \in Nat \ {0}
  BY VmbusRingAssumption
<1>7. PICK d \in Nat : b = a + d /\ d < RingWords
  <2>1. b - a \in Nat /\ b = a + (b - a) /\ b - a < RingWords
    BY <1>3, <1>4, <1>5, <1>6
  <2> QED BY <2>1
<1>8. (((a + d) % RingWords) + RingWords - (a % RingWords)) % RingWords = d
  BY <1>6, <1>7, RingGap
<1>9. Unread = b - a
  BY <1>3, <1>5, <1>7, <1>8 DEF Unread
<1> QED BY <1>1, <1>2, <1>3, <1>4, <1>5, <1>9

(* A packet is put behind the others, wherever it wraps.                   *)
LEMMA RingSendKeepsInv ==
    ASSUME RingInv, NEW shape \in PacketShapes, RingSend(shape)
    PROVE  RingInv'
<1>1. PICK id, words : id = Len(r_sent) + 1 /\ words = PacketWords(shape, id, r_write)
  OBVIOUS
<1>2. /\ r_data' = PutWords(r_data, r_write, words)
      /\ r_write' = (r_write + Len(words)) % RingWords
      /\ r_sent' = Append(r_sent, [id |-> id, payload |-> shape.payload])
      /\ r_overrun' = (r_overrun \/ Unread + Len(words) >= RingWords)
      /\ r_read' = r_read /\ r_received' = r_received /\ r_stuck' = r_stuck
  BY <1>1, Zenon DEF RingSend
<1>3. PICK item : item = [id |-> id, payload |-> shape.payload]
  OBVIOUS
<1>4. item.payload = shape.payload
  BY <1>3
<1>5. PICK s \in Nat : AppendAs(r_sent, item, r_sent', s)
  <2>1. r_sent' = Append(r_sent, item)
    BY <1>2, <1>3
  <2> QED BY <2>1, AppendIs DEF RingInv
<1>6. /\ s = Len(r_sent) /\ Len(r_sent') = s + 1 /\ IsRing(r_sent') /\ r_sent'[s + 1] = item
      /\ \A i \in 1 .. s : r_sent'[i] = r_sent[i]
  BY <1>5 DEF AppendAs
<1>7. shape \in [prefix : Nat, payload : Nat] /\ HeaderWords \in Nat \ {0} /\ RingWords \in Nat \ {0}
  BY VmbusRingAssumption
<1>8. PICK l \in Nat : l = WordsOf(shape) /\ l > 0 /\ l > HeaderWords + shape.prefix + shape.payload
  <2>1. WordsOf(shape) \in Nat /\ WordsOf(shape) > 0 /\ WordsOf(shape) > HeaderWords + shape.prefix + shape.payload
    BY <1>7 DEF WordsOf
  <2> QED BY <2>1
<1>9. /\ DOMAIN words = 1 .. l /\ Len(words) = l
      /\ words[1] = HeaderWord(shape, id)
      /\ \A i \in 1 .. shape.payload : words[HeaderWords + shape.prefix + i] = PayloadWord(id, i)
  BY <1>1, <1>7, <1>8, PacketIs DEF IsPacket
<1>10. r_overrun' \in BOOLEAN
  BY <1>2
<1>11. ASSUME ~r_overrun'
       PROVE  ~r_stuck' /\ ReceivedRight' /\ \E begin, shapes : Laid(begin, shapes)'
  <2>1. ~r_overrun /\ ~(Unread + l >= RingWords)
    BY <1>2, <1>9, <1>11
  <2>2. PICK begin, shapes : Laid(begin, shapes)
    BY <2>1 DEF RingInv
  <2>3. PICK r, b, a \in Nat :
              /\ r = Len(r_received) /\ r <= s
              /\ b = begin[s + 1] /\ a = begin[r + 1] /\ a <= b /\ b < a + RingWords
              /\ Unread = b - a
    BY <1>6, <2>2, UnreadIs DEF RingInv
  <2>4. b + l < a + RingWords
    <3>1. PICK u : u = Unread
      OBVIOUS
    <3>2. ~(u + l >= RingWords) /\ u = b - a
      BY <2>1, <2>3, <3>1
    <3>3. a <= b
      BY <2>3
    <3> QED BY <1>7, <3>2, <3>3
  <2>17. r \in Nat /\ r <= s /\ b = begin[s + 1] /\ a = begin[r + 1] /\ a <= b
    BY <2>3
  <2>5. /\ begin \in [1 .. s + 1 -> Nat] /\ shapes \in [1 .. s -> PacketShapes]
        /\ \A n \in 1 .. s : /\ begin[n + 1] = begin[n] + WordsOf(shapes[n])
                             /\ r_sent[n].payload = shapes[n].payload
        /\ \A m, n \in 1 .. s + 1 : m < n => begin[m] < begin[n]
        /\ r_write = b % RingWords /\ r_read = a % RingWords
        /\ \A n \in r + 1 .. s :
              /\ r_data[begin[n] % RingWords] = HeaderWord(shapes[n], n)
              /\ \A i \in 1 .. shapes[n].payload :
                    r_data[(begin[n] + HeaderWords + shapes[n].prefix + i - 1) % RingWords] = PayloadWord(n, i)
    BY <1>6, <2>2, <2>3 DEF Laid
  <2>18. /\ begin \in [1 .. s + 1 -> Nat]
         /\ \A m, n \in 1 .. s + 1 : m < n => begin[m] < begin[n]
    BY <2>5
  <2>6. /\ \A k \in 1 .. l : r_data'[(b + k - 1) % RingWords] = words[k]
        /\ \A p \in a .. b - 1 : r_data'[p % RingWords] = r_data[p % RingWords]
    <3>1. PICK new, data : new = r_data' /\ data = r_data
      OBVIOUS
    <3>2. new = PutWords(data, b % RingWords, words)
      BY <1>2, <2>5, <3>1
    <3>3. DOMAIN words = 1 .. l
      BY <1>9
    <3>4. PutBehind(new, data, words, b, l, a)
      BY <2>4, <2>17, <3>2, <3>3, PutWordsPuts
    <3> QED BY <3>1, <3>4 DEF PutBehind
  <2>7. PICK starts : starts = [n \in 1 .. s + 2 |-> IF n = s + 2 THEN b + l ELSE begin[n]]
    OBVIOUS
  <2>8. PICK all : all = [n \in 1 .. s + 1 |-> IF n = s + 1 THEN shape ELSE shapes[n]]
    OBVIOUS
  <2>9. /\ starts \in [1 .. s + 2 -> Nat] /\ starts[s + 2] = b + l /\ starts[s + 1] = b
        /\ \A n \in 1 .. s + 1 : starts[n] = begin[n]
    <3>1. b + l \in Nat /\ s + 2 \in 1 .. s + 2 /\ s + 1 \in 1 .. s + 2 /\ s + 1 # s + 2
      BY <1>5, <1>8, <2>3
    <3>2. \A n \in 1 .. s + 1 : n \in 1 .. s + 2 /\ n # s + 2
      BY <1>5
    <3>3. \A n \in 1 .. s + 2 : n # s + 2 => n \in 1 .. s + 1
      BY <1>5
    <3> QED BY <2>3, <2>5, <2>7, <3>1, <3>2, <3>3
  <2>10. /\ all \in [1 .. s + 1 -> PacketShapes] /\ all[s + 1] = shape
         /\ \A n \in 1 .. s : all[n] = shapes[n]
    BY <2>5, <2>8
  <2>11. \A n \in 1 .. s + 1 : /\ starts[n + 1] = starts[n] + WordsOf(all[n])
                               /\ r_sent'[n].payload = all[n].payload
    <3> TAKE n \in 1 .. s + 1
    <3>1. CASE n = s + 1
      <4>1. n + 1 = s + 2
        BY <3>1
      <4> QED BY <1>4, <1>6, <1>8, <2>9, <2>10, <3>1, <4>1
    <3>2. CASE n # s + 1
      <4>1. n \in 1 .. s /\ n + 1 \in 1 .. s + 1
        BY <3>2
      <4> QED BY <1>6, <2>5, <2>9, <2>10, <4>1
    <3> QED BY <3>1, <3>2
  <2>12. \A m, n \in 1 .. s + 2 : m < n => starts[m] < starts[n]
    <3> TAKE m, n \in 1 .. s + 2
    <3>1. CASE n = s + 2
      <4>1. ASSUME m < n PROVE begin[m] <= b /\ m \in 1 .. s + 1
        <5>1. m = s + 1 \/ m < s + 1
          BY <1>5, <3>1, <4>1
        <5>2. m \in 1 .. s + 1 /\ s + 1 \in 1 .. s + 1
          BY <1>5, <3>1, <4>1
        <5> QED BY <2>17, <2>18, <5>1, <5>2
      <4>2. ASSUME m < n PROVE begin[m] \in Nat
        BY <2>5, <4>1, <4>2
      <4> QED BY <1>8, <2>9, <3>1, <4>1, <4>2
    <3>2. CASE n # s + 2
      BY <2>5, <2>9, <3>2
    <3> QED BY <3>1, <3>2
  <2>13. r_write' = (b + l) % RingWords
    BY <1>2, <1>7, <1>9, <2>5, CountedRound
  <2>14. ASSUME NEW n \in r + 1 .. s + 1
         PROVE  /\ r_data'[starts[n] % RingWords] = HeaderWord(all[n], n)
                /\ \A i \in 1 .. all[n].payload :
                      r_data'[(starts[n] + HeaderWords + all[n].prefix + i - 1) % RingWords] = PayloadWord(n, i)
    <3>1. CASE n = s + 1
      <4>1. starts[n] = b /\ all[n] = shape /\ id = n
        BY <1>1, <1>6, <2>9, <2>10, <3>1
      <4>2. r_data'[b % RingWords] = words[1]
        <5>1. 1 \in 1 .. l /\ b + 1 - 1 = b
          BY <1>8
        <5> QED BY <2>6, <5>1
      <4>3. ASSUME NEW i \in 1 .. shape.payload
            PROVE  r_data'[(b + HeaderWords + shape.prefix + i - 1) % RingWords] = PayloadWord(id, i)
        <5>1. PICK k \in 1 .. l : k = HeaderWords + shape.prefix + i
          BY <1>7, <1>8
        <5>2. b + HeaderWords + shape.prefix + i - 1 = b + k - 1
          BY <1>7, <5>1
        <5>3. r_data'[(b + k - 1) % RingWords] = words[k]
          BY <2>6
        <5>4. words[k] = PayloadWord(id, i)
          BY <1>9, <5>1
        <5> QED BY <5>2, <5>3, <5>4
      <4> QED BY <1>9, <4>1, <4>2, <4>3
    <3>2. CASE n # s + 1
      <4>1. n \in r + 1 .. s /\ n \in 1 .. s /\ n + 1 \in 1 .. s + 1
        BY <3>2
      <4>2. PICK c, w \in Nat : /\ c = begin[n] /\ w = WordsOf(shapes[n]) /\ begin[n + 1] = c + w
                                /\ starts[n] = c /\ all[n] = shapes[n]
        <5>1. shapes[n] \in [prefix : Nat, payload : Nat]
          BY <2>5, <4>1, VmbusRingAssumption
        <5>2. WordsOf(shapes[n]) \in Nat
          BY <1>7, <5>1 DEF WordsOf
        <5>3. begin[n] \in Nat
          BY <2>5, <4>1
        <5> QED BY <2>5, <2>9, <2>10, <4>1, <5>2, <5>3
      <4>3. a <= c /\ c + w <= b
        <5>1. n = r + 1 \/ r + 1 < n
          BY <4>1
        <5>2. a <= c
          <6>1. r + 1 \in 1 .. s + 1 /\ n \in 1 .. s + 1
            BY <1>5, <2>3, <4>1
          <6> QED BY <2>17, <2>18, <4>2, <5>1, <6>1
        <5>3. n + 1 = s + 1 \/ n + 1 < s + 1
          BY <4>1
        <5>4. c + w <= b
          <6>1. s + 1 \in 1 .. s + 1
            BY <1>5
          <6> QED BY <2>17, <2>18, <4>1, <4>2, <5>3, <6>1
        <5> QED BY <5>2, <5>4
      <4>4. PICK h, l2 \in Nat : h = HeaderWords + shapes[n].prefix /\ l2 = shapes[n].payload /\ w = h + l2 + 1
        <5>1. shapes[n] \in [prefix : Nat, payload : Nat]
          BY <2>5, <4>1, VmbusRingAssumption
        <5>2. HeaderWords + shapes[n].prefix \in Nat /\ shapes[n].payload \in Nat
          BY <1>7, <5>1
        <5> QED BY <4>2, <5>2 DEF WordsOf
      <4>5. r_data'[c % RingWords] = r_data[c % RingWords]
        <5>1. c \in a .. b - 1
          BY <4>3, <4>4
        <5> QED BY <2>6, <5>1
      <4>6. ASSUME NEW i \in 1 .. shapes[n].payload
            PROVE  r_data'[(c + HeaderWords + shapes[n].prefix + i - 1) % RingWords] = PayloadWord(n, i)
        <5>1. shapes[n].prefix \in Nat
          BY <2>5, <4>1, VmbusRingAssumption
        <5>2. PICK p \in a .. b - 1 : p = c + HeaderWords + shapes[n].prefix + i - 1
          BY <1>7, <4>3, <4>4, <5>1
        <5>3. r_data'[p % RingWords] = r_data[p % RingWords]
          BY <2>6
        <5>4. r_data[(c + HeaderWords + shapes[n].prefix + i - 1) % RingWords] = PayloadWord(n, i)
          BY <2>5, <4>1, <4>2
        <5> QED BY <5>2, <5>3, <5>4
      <4> QED BY <2>5, <4>1, <4>2, <4>5, <4>6
    <3> QED BY <3>1, <3>2
  <2>15. Laid(starts, all)'
    <3>1. Len(r_received') = r /\ Len(r_sent') = s + 1 /\ r <= s + 1
      BY <1>2, <1>6, <2>3
    <3>2. starts[r + 1] = a /\ r_read' = a % RingWords
      BY <1>2, <2>3, <2>5, <2>9, SMTT(30)
    <3>3. s + 1 + 1 = s + 2
      OBVIOUS
    <3> QED BY <2>4, <2>9, <2>10, <2>11, <2>12, <2>13, <2>14, <3>1, <3>2, <3>3 DEF Laid
  <2>16. ReceivedRight'
    <3>1. DOMAIN r_received = 1 .. r
      BY <2>3 DEF RingInv, IsRing
    <3>2. \A n \in 1 .. r : r_sent'[n] = r_sent[n]
      BY <1>5, <1>6, <2>3
    <3>3. r_received' = r_received
      BY <1>2
    <3>4. ReceivedRight
      BY <2>1 DEF RingInv
    <3> QED BY <3>1, <3>2, <3>3, <3>4, Zenon DEF ReceivedRight
  <2> QED BY <1>2, <2>1, <2>15, <2>16 DEF RingInv
<1> QED BY <1>2, <1>6, <1>10, <1>11 DEF RingInv

(* The next packet comes out whole.                                        *)
LEMMA RingReceiveKeepsInv ==
    ASSUME RingInv, RingReceive
    PROVE  RingInv'
<1>1. /\ r_read # r_write /\ r_sent' = r_sent /\ r_data' = r_data /\ r_write' = r_write
      /\ r_overrun' = r_overrun
  BY DEF RingReceive
<1>2. r_received' = r_received \/ \E x : r_received' = Append(r_received, x)
  BY DEF RingReceive
<1>3. IsRing(r_received')
  BY <1>2, RingAppend DEF RingInv
<1>4. ASSUME ~r_overrun
      PROVE  ~r_stuck' /\ ReceivedRight' /\ \E begin, shapes : Laid(begin, shapes)'
  <2>1. PICK begin, shapes : Laid(begin, shapes)
    BY <1>4 DEF RingInv
  <2>2. PICK s, r, b, a \in Nat :
              /\ s = Len(r_sent) /\ r = Len(r_received) /\ r <= s
              /\ b = begin[s + 1] /\ a = begin[r + 1] /\ a <= b /\ b < a + RingWords
    BY <2>1, UnreadIs DEF RingInv
  <2>3. /\ begin \in [1 .. s + 1 -> Nat] /\ shapes \in [1 .. s -> PacketShapes]
        /\ \A n \in 1 .. s : /\ begin[n + 1] = begin[n] + WordsOf(shapes[n])
                             /\ r_sent[n].payload = shapes[n].payload
        /\ \A m, n \in 1 .. s + 1 : m < n => begin[m] < begin[n]
        /\ r_write = b % RingWords /\ r_read = a % RingWords
        /\ \A n \in r + 1 .. s :
              /\ r_data[begin[n] % RingWords] = HeaderWord(shapes[n], n)
              /\ \A i \in 1 .. shapes[n].payload :
                    r_data[(begin[n] + HeaderWords + shapes[n].prefix + i - 1) % RingWords] = PayloadWord(n, i)
    BY <2>1, <2>2 DEF Laid
  <2>4. r < s
    BY <1>1, <2>2, <2>3
  <2>5. PICK shape \in [prefix : Nat, payload : Nat] : shape = shapes[r + 1]
    <3>1. r + 1 \in 1 .. s
      BY <2>2, <2>4
    <3> QED BY <2>3, <3>1, VmbusRingAssumption
  <2>6. HeaderWords \in Nat \ {0} /\ RingWords \in Nat \ {0} /\ BufferWords \in Nat
    BY VmbusRingAssumption
  <2>7. PICK h, l \in Nat : h = HeaderWords + shape.prefix /\ l = shape.payload
    BY <2>5, <2>6
  <2>8. r_data[r_read] = HeaderWord(shape, r + 1)
    <3>1. r + 1 \in r + 1 .. s
      BY <2>2, <2>4
    <3> QED BY <2>2, <2>3, <2>5, <3>1
  <2>9. /\ r_data[r_read].kind = "header" /\ r_data[r_read].offset = h
        /\ r_data[r_read].total = h + l
    BY <2>7, <2>8 DEF HeaderWord
  <2>10. PICK c \in Nat : c = Copied(l) /\ c <= l
    BY <2>6, <2>7 DEF Copied
  <2>11. PICK x : x = [i \in 1 .. c |-> r_data[(r_read + h + i - 1) % RingWords]]
    OBVIOUS
  <2>12. r_received' = Append(r_received, x) /\ r_read' = AfterPacket(r_read, h + l) /\ r_stuck' = r_stuck
    <3>1. ~(\/ r_data[r_read].kind # "header" \/ r_data[r_read].offset < HeaderWords
            \/ r_data[r_read].offset > r_data[r_read].total)
      BY <2>5, <2>6, <2>7, <2>9
    <3>2. LET size == r_data[r_read].total - r_data[r_read].offset
              copied == IF size < BufferWords THEN size ELSE BufferWords
          IN /\ r_received' = Append(r_received,
                   [i \in 1 .. copied |-> r_data[(r_read + r_data[r_read].offset + i - 1) % RingWords]])
             /\ r_read' = AfterPacket(r_read, r_data[r_read].total)
             /\ UNCHANGED r_stuck
      BY <3>1, Zenon DEF RingReceive
    <3>3. PICK header : header = r_data[r_read]
      OBVIOUS
    <3>4. header.total = h + l /\ header.offset = h /\ header.total - header.offset = l
      BY <2>7, <2>9, <3>3
    <3>5. (IF l < BufferWords THEN l ELSE BufferWords) = c
      BY <2>10 DEF Copied
    <3>6. /\ r_received' = Append(r_received,
                [i \in 1 .. (IF l < BufferWords THEN l ELSE BufferWords) |->
                    r_data[(r_read + h + i - 1) % RingWords]])
          /\ r_read' = AfterPacket(r_read, h + l)
          /\ UNCHANGED r_stuck
      BY <3>2, <3>3, <3>4, Zenon
    <3> QED BY <2>11, <3>5, <3>6, Zenon
  <2>13. AppendAs(r_received, x, r_received', r)
    <3>1. PICK m \in Nat : AppendAs(r_received, x, r_received', m)
      BY <2>12, AppendIs DEF RingInv
    <3> QED BY <2>2, <3>1 DEF AppendAs
  <2>14. /\ Len(r_received') = r + 1 /\ r_received'[r + 1] = x /\ DOMAIN r_received' = 1 .. r + 1
         /\ DOMAIN r_received = 1 .. r
         /\ \A n \in 1 .. r : r_received'[n] = r_received[n]
    <3>1. /\ Len(r_received') = r + 1 /\ r_received'[r + 1] = x /\ IsRing(r_received')
          /\ \A n \in 1 .. r : r_received'[n] = r_received[n]
      BY <2>13 DEF AppendAs
    <3>2. DOMAIN r_received' = 1 .. r + 1 /\ DOMAIN r_received = 1 .. r
      BY <2>2, <3>1 DEF RingInv, IsRing
    <3> QED BY <3>1, <3>2
  <2>15. x = [i \in 1 .. c |-> PayloadWord(r + 1, i)]
    <3> SUFFICES ASSUME NEW i \in 1 .. c
                 PROVE  r_data[(r_read + h + i - 1) % RingWords] = PayloadWord(r + 1, i)
      BY <2>11
    <3>1. r_data[(a + HeaderWords + shape.prefix + i - 1) % RingWords] = PayloadWord(r + 1, i)
      <4>1. r + 1 \in r + 1 .. s /\ i \in 1 .. shape.payload
        BY <2>2, <2>4, <2>7, <2>10
      <4> QED BY <2>2, <2>3, <2>5, <4>1
    <3>2. PICK k \in Nat : k = h + i - 1
      BY <2>7
    <3>3. PICK e : e = a % RingWords
      OBVIOUS
    <3>4. e \in Nat /\ e + h + i - 1 = e + k /\ a + HeaderWords + shape.prefix + i - 1 = a + k
      BY <2>5, <2>6, <2>7, <3>2, <3>3
    <3>5. (e + k) % RingWords = (a + k) % RingWords
      BY <2>6, <3>3, CountedRound
    <3>6. r_read = e
      BY <2>3, <3>3
    <3> QED BY <3>1, <3>4, <3>5, <3>6
  <2>16. PICK e \in Nat : e = begin[r + 2] /\ e = a + h + l + 1
    <3>1. r + 1 \in 1 .. s /\ r + 1 + 1 = r + 2
      BY <2>2, <2>4
    <3>2. WordsOf(shape) = h + l + 1
      BY <2>5, <2>6, <2>7 DEF WordsOf
    <3>3. begin[r + 2] = begin[r + 1] + WordsOf(shapes[r + 1])
      BY <2>3, <3>1
    <3> QED BY <2>2, <2>5, <3>2, <3>3
  <2>17. r_read' = e % RingWords
    <3>1. PICK k, m \in Nat : k = h + l /\ m = k + 1
      BY <2>7
    <3>2. PICK z \in Nat : z = a % RingWords
      BY <2>6
    <3>3. AfterPacket(z, h + l) = (z + m) % RingWords
      <4>1. z + (h + l) + 1 = z + m
        BY <2>7, <3>1
      <4> QED BY <4>1 DEF AfterPacket
    <3>4. (z + m) % RingWords = (a + m) % RingWords
      BY <2>6, <3>2, CountedRound
    <3>5. a + m = e
      BY <2>16, <3>1
    <3> QED BY <2>3, <2>12, <3>2, <3>3, <3>4, <3>5
  <2>18. Laid(begin, shapes)'
    <3>1. Len(r_sent') = s /\ Len(r_received') = r + 1 /\ r + 1 <= s
      BY <1>1, <2>2, <2>4, <2>14
    <3>2. b < e + RingWords
      <4>1. b \in Nat /\ a \in Nat /\ b < a + RingWords
        BY <2>2
      <4>2. e = a + h + l + 1 /\ h \in Nat /\ l \in Nat
        BY <2>7, <2>16
      <4> QED BY <2>6, <4>1, <4>2
    <3>3. r + 1 + 1 = r + 2 /\ \A n \in r + 2 .. s : n \in r + 1 .. s
      OBVIOUS
    <3>4. /\ \A n \in 1 .. s : /\ begin[n + 1] = begin[n] + WordsOf(shapes[n])
                               /\ r_sent'[n].payload = shapes[n].payload
          /\ r_write' = b % RingWords
          /\ \A n \in r + 2 .. s :
                /\ r_data'[begin[n] % RingWords] = HeaderWord(shapes[n], n)
                /\ \A i \in 1 .. shapes[n].payload :
                      r_data'[(begin[n] + HeaderWords + shapes[n].prefix + i - 1) % RingWords] = PayloadWord(n, i)
      BY <1>1, <2>3, <3>3
    <3>5. /\ b = begin[s + 1] /\ e = begin[r + 2]
          /\ begin \in [1 .. s + 1 -> Nat] /\ shapes \in [1 .. s -> PacketShapes]
          /\ \A m, n \in 1 .. s + 1 : m < n => begin[m] < begin[n]
      BY <2>2, <2>3, <2>16
    <3> QED BY <2>17, <3>1, <3>2, <3>3, <3>4, <3>5 DEF Laid
  <2>19. ReceivedRight'
    <3>1. ReceivedRight /\ ~r_stuck
      BY <1>4 DEF RingInv
    <3>2. r_sent[r + 1].payload = l
      BY <2>2, <2>3, <2>4, <2>5, <2>7
    <3>3. ASSUME NEW n \in 1 .. r + 1
          PROVE  r_received'[n] = [i \in 1 .. Copied(r_sent[n].payload) |-> PayloadWord(n, i)]
      <4>1. CASE n = r + 1
        BY <2>10, <2>14, <2>15, <3>2, <4>1
      <4>2. CASE n # r + 1
        <5>1. n \in 1 .. r
          BY <2>2, <4>2
        <5>2. r_received[n] = [i \in 1 .. Copied(r_sent[n].payload) |-> PayloadWord(n, i)]
          BY <2>14, <3>1, <5>1, Zenon DEF ReceivedRight
        <5>3. r_received'[n] = r_received[n]
          BY <2>14, <5>1
        <5> QED BY <5>2, <5>3, Zenon
      <4> QED BY <4>1, <4>2
    <3>4. r_sent' = r_sent
      BY <1>1
    <3> QED BY <2>14, <3>3, <3>4, Zenon DEF ReceivedRight
  <2>20. ~r_stuck'
    BY <1>4, <2>12 DEF RingInv
  <2> QED BY <2>18, <2>19, <2>20
<1> QED BY <1>1, <1>3, <1>4 DEF RingInv

(* Every step of the ring                                                  *)
LEMMA RingStepKeepsInv == RingInv /\ [RingNext]_ringVars => RingInv'
<1> SUFFICES ASSUME RingInv, [RingNext]_ringVars PROVE RingInv'
  OBVIOUS
<1>1. CASE UNCHANGED ringVars
  BY <1>1 DEF ringVars, RingInv, ReceivedRight, Laid
<1> QED BY <1>1, RingSendKeepsInv, RingReceiveKeepsInv DEF RingNext

(* The invariant says that what comes out is what went in.                 *)
LEMMA RingInvDelivers == RingInv => RingDelivers
<1> SUFFICES ASSUME RingInv, ~r_overrun
             PROVE  /\ ~r_stuck
                    /\ Len(r_received) <= Len(r_sent)
                    /\ \A n \in DOMAIN r_received :
                          LET size == r_sent[n].payload
                              copied == IF size < BufferWords THEN size ELSE BufferWords
                          IN r_received[n] = [i \in 1 .. copied |-> [kind |-> "payload", id |-> n, at |-> i]]
                    /\ r_read = r_write => Len(r_received) = Len(r_sent)
  BY DEF RingDelivers
<1>1. PICK begin, shapes : Laid(begin, shapes)
  BY DEF RingInv
<1>2. PICK s, r, b, a \in Nat :
          /\ s = Len(r_sent) /\ r = Len(r_received) /\ r <= s
          /\ b = begin[s + 1] /\ a = begin[r + 1] /\ a <= b /\ b < a + RingWords
  BY <1>1, UnreadIs DEF RingInv
<1>3. \A m, n \in 1 .. s + 1 : m < n => begin[m] < begin[n]
  BY <1>1, <1>2 DEF Laid
<1>4. r_write = b % RingWords /\ r_read = a % RingWords
  BY <1>1, <1>2 DEF Laid
<1>5. ASSUME r_read = r_write PROVE r = s
  <2>1. RingWords \in Nat \ {0}
    BY VmbusRingAssumption
  <2>2. PICK d \in Nat : b = a + d /\ d < RingWords
    <3>1. b - a \in Nat /\ b = a + (b - a) /\ b - a < RingWords
      BY <1>2, <2>1, SMTT(30)
    <3> QED BY <3>1
  <2>3. (((a + d) % RingWords) + RingWords - (a % RingWords)) % RingWords = d
    BY <2>1, <2>2, RingGap
  <2>4. PICK z \in 0 .. RingWords - 1 : z = a % RingWords /\ z = (a + d) % RingWords
    BY <1>4, <1>5, <2>1, <2>2
  <2>5. z + RingWords - z = RingWords /\ RingWords % RingWords = 0
    BY <2>1, <2>4
  <2>6. d = 0
    BY <2>3, <2>4, <2>5
  <2>7. b = a
    BY <2>2, <2>6
  <2>8. r + 1 \in 1 .. s + 1 /\ s + 1 \in 1 .. s + 1
    BY <1>2
  <2>9. b = begin[s + 1] /\ a = begin[r + 1] /\ r <= s /\ r \in Nat /\ s \in Nat
    BY <1>2
  <2>10. ASSUME r < s PROVE FALSE
    <3>1. r + 1 < s + 1
      BY <2>9, <2>10
    <3>2. begin[r + 1] < begin[s + 1]
      BY <1>3, <2>8, <3>1
    <3>3. a < b /\ a \in Nat
      BY <1>2, <2>9, <3>2
    <3> QED BY <2>7, <3>3
  <2> QED BY <2>9, <2>10
<1>6. \A n \in DOMAIN r_received :
         LET size == r_sent[n].payload
             copied == IF size < BufferWords THEN size ELSE BufferWords
         IN r_received[n] = [i \in 1 .. copied |-> [kind |-> "payload", id |-> n, at |-> i]]
  <2>1. ReceivedRight
    BY DEF RingInv
  <2> QED BY <2>1, Zenon DEF ReceivedRight, Copied, PayloadWord
<1>7. ~r_stuck
  BY DEF RingInv
<1> QED BY <1>2, <1>5, <1>6, <1>7

-----------------------------------------------------------------------------
(* The queue of the keyboards                                              *)

(* The slot k places after the next one to be read, and how far after it a *)
(* slot is                                                                 *)
SlotAfter(k) ==
    IF k_ring.read + k < QueueSize THEN k_ring.read + k ELSE k_ring.read + k - QueueSize
FromRead(i) == IF k_ring.read <= i THEN i - k_ring.read ELSE i + QueueSize - k_ring.read

(* The characters taken out and those still in the queue, as one sequence  *)
Held == FromRead(k_ring.write)
OutLen == Len(k_read) + Held
OutChar(i) ==
    IF i <= Len(k_read) THEN k_read[i] ELSE k_ring.slots[SlotAfter(i - (Len(k_read) + 1))]

(* The character the thread has in hand, if it has one                     *)
KeySteps == {"idle", "read", "translate", "next", "index", "store", "advance"}
HandFull == k_thread.at \in {"translate", "next", "index", "store", "advance"}
Hand == IF ThreadAt("translate") THEN TranslateScancode(k_thread.code) ELSE k_thread.char
Queueing == k_thread.at \in {"index", "store", "advance"}
Storing == k_thread.at \in {"store", "advance"}

KeyTypes ==
    /\ IsRing(k_read) /\ k_shift \in BOOLEAN
    /\ {"full", "interrupt", "code"} \subseteq DOMAIN k_port
    /\ {"slots", "read", "write"} \subseteq DOMAIN k_ring /\ DOMAIN k_ring.slots = 0 .. QueueSize - 1
    /\ {"at", "code", "char", "next", "index"} \subseteq DOMAIN k_thread
    /\ {"keys", "shift", "typed"} \subseteq DOMAIN k_true
    /\ k_true.keys \in Nat /\ k_ring.read \in 0 .. QueueSize - 1 /\ k_ring.write \in 0 .. QueueSize - 1
    /\ k_thread.at \in KeySteps
    /\ Queueing => k_thread.next \in 0 .. QueueSize - 1
    /\ Storing => k_thread.index \in 0 .. QueueSize - 1

(* Every character is that of a key.                                       *)
OfKeys ==
    /\ \A i \in 1 .. OutLen : OutChar(i).id \in 1 .. k_true.keys
    /\ HandFull => Hand.id \in 1 .. k_true.keys
    /\ k_port.full \/ ThreadAt("read") => k_port.code.id \in 1 .. k_true.keys

(* What the thread is about to write: the write index never passes the     *)
(* read index, and it goes beyond where it is only over the character.     *)
WriteSafe ==
    /\ Queueing => k_thread.next # k_ring.read /\ FromRead(k_thread.next) \in 1 .. Held + 1
    /\ Storing => FromRead(k_thread.next) - 1 <= FromRead(k_thread.index) /\ FromRead(k_thread.index) <= Held
    /\ ThreadAt("advance") /\ FromRead(k_thread.next) = Held + 1 =>
          k_ring.slots[k_ring.write] = k_thread.char

(* No character is there twice, unless a code has been read twice; the one *)
(* in hand is in the queue only where the thread has just stored it.       *)
OnlyOnce ==
    "doubled" \notin k_raced =>
        /\ ThreadAt("read") => k_port.full
        /\ \A i, j \in 1 .. OutLen : OutChar(i).id = OutChar(j).id => i = j
        /\ k_port.full => \A i \in 1 .. OutLen : OutChar(i).id # k_port.code.id
        /\ k_port.full /\ HandFull => Hand.id # k_port.code.id
        /\ HandFull => \A i \in 1 .. OutLen :
              OutChar(i).id = Hand.id =>
                 ThreadAt("advance") /\ i = Len(k_read) + 1 + FromRead(k_thread.index)

(* As long as the handler has kept out, the characters are those that were *)
(* typed, and the thread writes where the queue ends.                      *)
AsTyped ==
    k_raced = {} =>
        /\ k_shift = k_true.shift
        /\ Queueing => FromRead(k_thread.next) = Held + 1
        /\ Storing => k_thread.index = k_ring.write
        /\ IsRing(k_true.typed)
        /\ Len(k_true.typed) = IF HandFull THEN OutLen + 1 ELSE OutLen
        /\ \A i \in 1 .. OutLen : k_true.typed[i] = OutChar(i)
        /\ HandFull => k_true.typed[OutLen + 1] = Hand

KeyInv == KeyTypes /\ OfKeys /\ WriteSafe /\ OnlyOnce /\ AsTyped

(* The slots of the queue and their places after the read index            *)
LEMMA SlotsInOrder ==
    ASSUME k_ring.read \in 0 .. QueueSize - 1
    PROVE  /\ \A k \in 0 .. QueueSize - 1 :
                 SlotAfter(k) \in 0 .. QueueSize - 1 /\ FromRead(SlotAfter(k)) = k
           /\ \A i \in 0 .. QueueSize - 1 :
                 FromRead(i) \in 0 .. QueueSize - 1 /\ SlotAfter(FromRead(i)) = i
           /\ \A i \in 0 .. QueueSize - 1 :
                 /\ Following(i) \in 0 .. QueueSize - 1
                 /\ Following(i) # k_ring.read => FromRead(Following(i)) = FromRead(i) + 1
<1>1. QueueSize \in Nat \ {0}
  BY KeyboardAssumption
<1>2. \A i \in 0 .. QueueSize - 1 : Following(i) = IF i + 1 = QueueSize THEN 0 ELSE i + 1
  BY <1>1, NextIs DEF Following
<1>3. \A k \in 0 .. QueueSize - 1 :
         SlotAfter(k) \in 0 .. QueueSize - 1 /\ FromRead(SlotAfter(k)) = k
  BY <1>1 DEF SlotAfter, FromRead
<1>4. \A i \in 0 .. QueueSize - 1 :
         FromRead(i) \in 0 .. QueueSize - 1 /\ SlotAfter(FromRead(i)) = i
  BY <1>1 DEF SlotAfter, FromRead
<1>5. \A i \in 0 .. QueueSize - 1 :
         /\ Following(i) \in 0 .. QueueSize - 1
         /\ Following(i) # k_ring.read => FromRead(Following(i)) = FromRead(i) + 1
  BY <1>1, <1>2 DEF FromRead
<1> QED BY <1>3, <1>4, <1>5

(* How many characters there are, and which slots they are in              *)
LEMMA OutIs ==
    ASSUME KeyTypes
    PROVE  /\ Len(k_read) \in Nat /\ Held \in 0 .. QueueSize - 1 /\ OutLen \in Nat
           /\ OutLen = Len(k_read) + Held
           /\ QueueSize \in Nat
           /\ \A i \in 1 .. OutLen :
                 i > Len(k_read) => i - (Len(k_read) + 1) \in 0 .. Held - 1
<1>1. Len(k_read) \in Nat
  BY DEF KeyTypes, IsRing
<1>2. Held \in 0 .. QueueSize - 1
  BY SlotsInOrder DEF KeyTypes, Held
<1>3. QueueSize \in Nat
  BY KeyboardAssumption
<1> QED BY <1>1, <1>2, <1>3 DEF OutLen

(* Nothing put in and nothing taken out                                    *)
LEMMA SameOut ==
    ASSUME k_ring' = k_ring, k_read' = k_read
    PROVE  /\ Held' = Held /\ OutLen' = OutLen
           /\ \A i : OutChar(i)' = OutChar(i)
           /\ \A i : FromRead(i)' = FromRead(i)
<1>1. \A i : FromRead(i)' = FromRead(i)
  BY DEF FromRead
<1>2. Held' = Held
  BY DEF Held, FromRead
<1>3. OutLen' = OutLen
  BY <1>2 DEF OutLen
<1>4. \A i : OutChar(i)' = OutChar(i)
  BY DEF OutChar, SlotAfter
<1> QED BY <1>1, <1>2, <1>3, <1>4

(* At the start nothing is typed.                                          *)
LEMMA KeyInitInv == KeyboardInit => KeyInv
<1> SUFFICES ASSUME KeyboardInit PROVE KeyInv
  OBVIOUS
<1>1. /\ k_read = << >> /\ k_true.typed = << >> /\ k_true.keys = 0 /\ k_true.shift = FALSE
      /\ k_shift = FALSE /\ ThreadAt("idle") /\ k_raced = {}
      /\ k_ring.read = 0 /\ k_ring.write = 0 /\ DOMAIN k_ring.slots = 0 .. QueueSize - 1
      /\ ~k_port.full
  BY DEF KeyboardInit, KeyIdle, ThreadAt
<1>2. QueueSize \in Nat /\ QueueSize > 1
  BY KeyboardAssumption
<1>3. KeyTypes
  <2>1. IsRing(k_read)
    BY <1>1 DEF IsRing
  <2>2. /\ {"full", "interrupt", "code"} \subseteq DOMAIN k_port
        /\ {"slots", "read", "write"} \subseteq DOMAIN k_ring
        /\ {"at", "code", "char", "next", "index"} \subseteq DOMAIN k_thread
        /\ {"keys", "shift", "typed"} \subseteq DOMAIN k_true
    BY DEF KeyboardInit, KeyIdle
  <2>3. ~Queueing /\ ~Storing
    BY <1>1 DEF ThreadAt, Queueing, Storing
  <2> QED BY <1>1, <1>2, <2>1, <2>2, <2>3 DEF KeyTypes, ThreadAt, KeySteps
<1>4. ~HandFull /\ ~Queueing /\ ~Storing /\ ~ThreadAt("read") /\ ~ThreadAt("advance")
  BY <1>1 DEF ThreadAt, HandFull, Queueing, Storing
<1>5. OutLen = 0 /\ Len(k_true.typed) = 0
  <2>1. Held = 0
    BY <1>1 DEF Held, FromRead
  <2>2. Len(k_read) = 0 /\ Len(k_true.typed) = 0
    BY <1>1
  <2> QED BY <2>1, <2>2 DEF OutLen
<1>6. OfKeys /\ WriteSafe
  BY <1>1, <1>4, <1>5 DEF OfKeys, WriteSafe
<1>7. OnlyOnce
  BY <1>1, <1>4, <1>5 DEF OnlyOnce
<1>8. AsTyped
  <2>1. k_shift = k_true.shift
    BY <1>1, Zenon
  <2>2. Len(k_true.typed) = IF HandFull THEN OutLen + 1 ELSE OutLen
    BY <1>4, <1>5
  <2>3. 1 .. OutLen = {}
    BY <1>5
  <2>4. IsRing(k_true.typed)
    BY <1>1 DEF IsRing
  <2> QED BY <1>4, <2>1, <2>2, <2>3, <2>4 DEF AsTyped
<1> QED BY <1>3, <1>6, <1>7, <1>8 DEF KeyInv

(* A key is pressed: the code has an identity of its own.                  *)
LEMMA KeyPressKeeps ==
    ASSUME KeyInv, NEW key \in Keys, Press(key)
    PROVE  KeyInv'
<1>1. /\ ~k_port.full /\ k_port'.full /\ k_port'.code.id = k_true.keys + 1
      /\ k_true'.keys = k_true.keys + 1 /\ k_true'.typed = k_true.typed
      /\ k_true'.shift = k_true.shift
      /\ {"full", "interrupt", "code"} \subseteq DOMAIN k_port' /\ DOMAIN k_true' = DOMAIN k_true
  BY DEF Press, KeyInv, KeyTypes
<1>2. UNCHANGED <<k_ring, k_shift, k_thread, k_read, k_raced>>
  BY DEF Press
<1>3. /\ Held' = Held /\ OutLen' = OutLen
      /\ \A i : OutChar(i)' = OutChar(i)
      /\ \A i : FromRead(i)' = FromRead(i)
  BY <1>2, SameOut
<1>4. /\ HandFull' = HandFull /\ Hand' = Hand /\ Queueing' = Queueing /\ Storing' = Storing
      /\ \A step : ThreadAt(step)' = ThreadAt(step)
  BY <1>2 DEF HandFull, Hand, Queueing, Storing, ThreadAt, TranslateScancode
<1>5. k_true.keys \in Nat
  BY DEF KeyInv, KeyTypes
<1>6. KeyTypes'
  BY <1>1, <1>2, <1>4, <1>5 DEF KeyInv, KeyTypes
<1>7. OfKeys'
  BY <1>1, <1>3, <1>4, <1>5 DEF KeyInv, OfKeys
<1>8. WriteSafe'
  BY <1>2, <1>3, <1>4 DEF KeyInv, WriteSafe
<1>9. OnlyOnce'
  BY <1>1, <1>2, <1>3, <1>4, <1>5 DEF KeyInv, OnlyOnce, OfKeys
<1>10. AsTyped'
  BY <1>1, <1>2, <1>3, <1>4 DEF KeyInv, AsTyped
<1> QED BY <1>6, <1>7, <1>8, <1>9, <1>10 DEF KeyInv

(* What the thread has when its step changes neither queue nor port        *)
LEMMA QuietThread ==
    ASSUME KeyInv, UNCHANGED <<k_port, k_ring, k_shift, k_read, k_true, k_raced>>,
           {"at", "code", "char", "next", "index"} \subseteq DOMAIN k_thread', k_thread'.at \in KeySteps,
           ThreadAt("read")' => k_port.full,
           HandFull' => HandFull /\ Hand' = Hand, HandFull => HandFull',
           ~ThreadAt("advance"), ~ThreadAt("advance")',
           Queueing' => /\ k_thread'.next \in 0 .. QueueSize - 1 /\ k_thread'.next # k_ring.read
                        /\ FromRead(k_thread'.next) \in 1 .. Held + 1
                        /\ k_raced = {} => FromRead(k_thread'.next) = Held + 1,
           Storing' => /\ k_thread'.index \in 0 .. QueueSize - 1
                       /\ FromRead(k_thread'.next) - 1 <= FromRead(k_thread'.index)
                       /\ FromRead(k_thread'.index) <= Held
                       /\ k_raced = {} => k_thread'.index = k_ring.write
    PROVE  KeyInv'
<1>1. /\ Held' = Held /\ OutLen' = OutLen
      /\ \A i : OutChar(i)' = OutChar(i)
      /\ \A i : FromRead(i)' = FromRead(i)
  BY SameOut
<1>2. KeyTypes'
  BY DEF KeyInv, KeyTypes
<1>3. OfKeys'
  BY <1>1 DEF KeyInv, OfKeys
<1>4. WriteSafe'
  BY <1>1 DEF WriteSafe
<1>5. OnlyOnce'
  BY <1>1 DEF KeyInv, OnlyOnce
<1>6. AsTyped'
  BY <1>1 DEF KeyInv, AsTyped
<1> QED BY <1>2, <1>3, <1>4, <1>5, <1>6 DEF KeyInv

(* The poll sees a code.                                                   *)
LEMMA KeyPollKeeps ==
    ASSUME KeyInv, PollHasData
    PROVE  KeyInv'
<1>1. /\ UNCHANGED <<k_port, k_ring, k_shift, k_read, k_true, k_raced>>
      /\ k_thread.at = "idle" /\ k_port.full /\ k_thread' = [k_thread EXCEPT !.at = "read"]
  BY Zenon DEF PollHasData, ThreadAt
<1>2. {"at", "code", "char", "next", "index"} \subseteq DOMAIN k_thread' /\ k_thread'.at = "read"
  BY <1>1 DEF KeyInv, KeyTypes
<1>3. ~HandFull' /\ ~Queueing' /\ ~Storing' /\ ~ThreadAt("advance")' /\ k_thread'.at \in KeySteps
  BY <1>2 DEF HandFull, Queueing, Storing, ThreadAt, KeySteps
<1>4. ~HandFull /\ ~ThreadAt("advance")
  BY <1>1 DEF HandFull, ThreadAt
<1> QED BY <1>1, <1>2, <1>3, <1>4, QuietThread

(* It makes a character of it.                                             *)
LEMMA KeyTranslateKeeps ==
    ASSUME KeyInv, PollTranslate
    PROVE  KeyInv'
<1>1. /\ UNCHANGED <<k_port, k_ring, k_shift, k_read, k_true, k_raced>>
      /\ k_thread.at = "translate"
      /\ k_thread' = [k_thread EXCEPT !.at = "next", !.char = TranslateScancode(k_thread.code)]
  BY Zenon DEF PollTranslate, ThreadAt
<1>2. /\ {"at", "code", "char", "next", "index"} \subseteq DOMAIN k_thread' /\ k_thread'.at = "next"
      /\ k_thread'.char = TranslateScancode(k_thread.code)
  BY <1>1 DEF KeyInv, KeyTypes
<1>3. /\ HandFull' /\ ~Queueing' /\ ~Storing' /\ ~ThreadAt("advance")' /\ ~ThreadAt("read")'
      /\ ~ThreadAt("translate")' /\ k_thread'.at \in KeySteps
  BY <1>2 DEF HandFull, Queueing, Storing, ThreadAt, KeySteps
<1>4. HandFull /\ ~ThreadAt("advance") /\ ThreadAt("translate")
  BY <1>1 DEF HandFull, ThreadAt
<1>5. Hand' = Hand
  BY <1>2, <1>3, <1>4 DEF Hand
<1> QED BY <1>1, <1>2, <1>3, <1>4, <1>5, QuietThread

(* queue_character takes the write index a second time.                    *)
LEMMA KeyIndexKeeps ==
    ASSUME KeyInv, QueueIndex
    PROVE  KeyInv'
<1>1. /\ UNCHANGED <<k_port, k_ring, k_shift, k_read, k_true, k_raced>>
      /\ k_thread.at = "index"
      /\ k_thread' = [k_thread EXCEPT !.at = "store", !.index = k_ring.write]
  BY Zenon DEF QueueIndex, ThreadAt
<1>2. /\ {"at", "code", "char", "next", "index"} \subseteq DOMAIN k_thread' /\ k_thread'.at = "store"
      /\ k_thread'.index = k_ring.write /\ k_thread'.next = k_thread.next
      /\ k_thread'.char = k_thread.char
  BY <1>1 DEF KeyInv, KeyTypes
<1>3. /\ HandFull' /\ ~ThreadAt("advance")' /\ ~ThreadAt("read")'
      /\ ~ThreadAt("translate")' /\ k_thread'.at \in KeySteps
  BY <1>2 DEF HandFull, ThreadAt, KeySteps
<1>4. HandFull /\ Queueing /\ ~ThreadAt("advance") /\ ~ThreadAt("translate")
  BY <1>1 DEF HandFull, Queueing, ThreadAt
<1>5. Hand' = Hand
  BY <1>2, <1>3, <1>4 DEF Hand
<1>6. /\ k_thread.next \in 0 .. QueueSize - 1 /\ k_thread.next # k_ring.read
      /\ FromRead(k_thread.next) \in 1 .. Held + 1
      /\ k_raced = {} => FromRead(k_thread.next) = Held + 1
      /\ k_ring.write \in 0 .. QueueSize - 1
  BY <1>4 DEF KeyInv, KeyTypes, WriteSafe, AsTyped
<1>7. Held \in Nat /\ FromRead(k_ring.write) = Held
  BY OutIs DEF KeyInv, Held
<1>8. /\ FromRead(k_thread'.next) - 1 <= FromRead(k_thread'.index)
      /\ FromRead(k_thread'.index) <= Held
  BY <1>2, <1>6, <1>7
<1> QED BY <1>1, <1>2, <1>3, <1>4, <1>5, <1>6, <1>8, QuietThread

(* queue_character finds room, or none.                                    *)
LEMMA KeyNextKeepsRoom ==
    ASSUME KeyInv, QueueNext, Following(k_ring.write) # k_ring.read
    PROVE  KeyInv'
<1>1. /\ UNCHANGED <<k_port, k_ring, k_shift, k_read, k_true, k_raced>>
      /\ k_thread.at = "next"
      /\ k_thread' = [k_thread EXCEPT !.at = "index", !.next = Following(k_ring.write)]
  BY DEF QueueNext, ThreadAt
<1>2. /\ {"at", "code", "char", "next", "index"} \subseteq DOMAIN k_thread' /\ k_thread'.at = "index"
      /\ k_thread'.next = Following(k_ring.write) /\ k_thread'.char = k_thread.char
  BY <1>1 DEF KeyInv, KeyTypes
<1>3. /\ HandFull' /\ ~Storing' /\ ~ThreadAt("advance")' /\ ~ThreadAt("read")'
      /\ ~ThreadAt("translate")' /\ k_thread'.at \in KeySteps
  BY <1>2 DEF HandFull, Storing, ThreadAt, KeySteps
<1>4. HandFull /\ ~ThreadAt("advance") /\ ~ThreadAt("translate")
  BY <1>1 DEF HandFull, ThreadAt
<1>5. Hand' = Hand
  BY <1>2, <1>3, <1>4 DEF Hand
<1>6. k_ring.read \in 0 .. QueueSize - 1 /\ k_ring.write \in 0 .. QueueSize - 1
  BY DEF KeyInv, KeyTypes
<1>7. Held \in Nat /\ FromRead(k_ring.write) = Held
  BY OutIs DEF KeyInv, Held
<1>8. /\ Following(k_ring.write) \in 0 .. QueueSize - 1
      /\ FromRead(Following(k_ring.write)) = Held + 1
  BY <1>6, <1>7, SlotsInOrder
<1>9. FromRead(k_thread'.next) = Held + 1 /\ Held + 1 \in 1 .. Held + 1
  BY <1>2, <1>7, <1>8
<1> QED BY <1>1, <1>2, <1>3, <1>4, <1>5, <1>8, <1>9, QuietThread

(* A sequence without its last                                             *)
WithoutLast(s, n, t) ==
    /\ IsRing(t) /\ Len(t) = n
    /\ \A i \in 1 .. n : t[i] = s[i]

(* is what is left of it when its last character, which is there only      *)
(* once, is dropped.                                                       *)
LEMMA DroppedIs ==
    ASSUME NEW s, IsRing(s), NEW n \in Nat, n + 1 = Len(s), NEW char, s[n + 1].id = char.id,
           \A i \in 1 .. n : s[i].id # char.id
    PROVE  WithoutLast(s, n, Dropped(s, char))
<1> DEFINE lost == {i \in DOMAIN s : s[i].id = char.id}
<1>1. PICK S : s \in Seq(S)
  BY DEF IsRing
<1>2. DOMAIN s = 1 .. n + 1
  BY <1>1
<1>3. lost = {n + 1}
  BY <1>2
<1>4. Dropped(s, char) = RemoveAt(s, n + 1)
  <2>1. lost # {} /\ (CHOOSE i \in lost : TRUE) = n + 1
    BY <1>3
  <2> QED BY <2>1 DEF Dropped
<1>5. PICK a, b : a = SubSeq(s, 1, (n + 1) - 1) /\ b = SubSeq(s, (n + 1) + 1, Len(s))
  OBVIOUS
<1>6. a \in Seq(S) /\ Len(a) = n /\ \A i \in 1 .. n : a[i] = s[i]
  <2>1. (n + 1) - 1 = n
    OBVIOUS
  <2> QED BY <1>1, <1>5, <2>1
<1>7. b = << >>
  BY <1>1, <1>5
<1>8. a \o b = a
  BY <1>6, <1>7
<1>9. Dropped(s, char) = a
  BY <1>4, <1>5, <1>8, Zenon DEF RemoveAt
<1>10. IsRing(a)
  BY <1>6 DEF IsRing
<1> QED BY <1>6, <1>9, <1>10 DEF WithoutLast

(* or drops the character.                                                 *)
LEMMA KeyNextKeepsFull ==
    ASSUME KeyInv, QueueNext, Following(k_ring.write) = k_ring.read
    PROVE  KeyInv'
<1>1. /\ UNCHANGED <<k_port, k_ring, k_shift, k_read, k_raced>>
      /\ k_thread.at = "next" /\ k_thread' = KeyIdle
      /\ k_true' = [k_true EXCEPT !.typed = Dropped(@, k_thread.char)]
  BY DEF QueueNext, ThreadAt
<1>2. /\ {"at", "code", "char", "next", "index"} \subseteq DOMAIN k_thread' /\ k_thread'.at = "idle"
  BY <1>1 DEF KeyIdle
<1>3. /\ {"keys", "shift", "typed"} \subseteq DOMAIN k_true' /\ k_true'.keys = k_true.keys
      /\ k_true'.shift = k_true.shift
  BY <1>1 DEF KeyInv, KeyTypes
<1>4. k_true'.typed = Dropped(k_true.typed, k_thread.char)
  BY <1>1 DEF KeyInv, KeyTypes
<1>5. /\ ~HandFull' /\ ~Queueing' /\ ~Storing' /\ ~ThreadAt("advance")' /\ ~ThreadAt("read")'
      /\ k_thread'.at \in KeySteps
  BY <1>2 DEF HandFull, Queueing, Storing, ThreadAt, KeySteps
<1>6. HandFull /\ ~ThreadAt("advance") /\ Hand = k_thread.char
  BY <1>1 DEF HandFull, ThreadAt, Hand
<1>7. /\ Held' = Held /\ OutLen' = OutLen
      /\ \A i : OutChar(i)' = OutChar(i)
      /\ \A i : FromRead(i)' = FromRead(i)
  BY <1>1, SameOut
<1>8. PICK n : n = OutLen
  OBVIOUS
<1>9. n \in Nat
  BY <1>8, OutIs DEF KeyInv
<1>10. ASSUME k_raced = {}
       PROVE  WithoutLast(k_true.typed, n, k_true'.typed)
  <2>1. IsRing(k_true.typed) /\ Len(k_true.typed) = n + 1
    BY <1>6, <1>8, <1>10 DEF KeyInv, AsTyped
  <2>2. k_true.typed[n + 1] = k_thread.char
    BY <1>6, <1>8, <1>10 DEF KeyInv, AsTyped
  <2>3. \A i \in 1 .. n : k_true.typed[i].id # k_thread.char.id
    <3>1. \A i \in 1 .. n : k_true.typed[i] = OutChar(i)
      BY <1>8, <1>10 DEF KeyInv, AsTyped
    <3>2. \A i \in 1 .. n : OutChar(i).id # k_thread.char.id
      BY <1>6, <1>8, <1>10 DEF KeyInv, OnlyOnce
    <3> QED BY <3>1, <3>2
  <2>4. PICK typed, char : typed = k_true.typed /\ char = k_thread.char
    OBVIOUS
  <2>5. /\ IsRing(typed) /\ n + 1 = Len(typed) /\ typed[n + 1].id = char.id
        /\ \A i \in 1 .. n : typed[i].id # char.id
    BY <2>1, <2>2, <2>3, <2>4
  <2>6. WithoutLast(typed, n, Dropped(typed, char))
    BY <1>9, <2>5, DroppedIs
  <2> QED BY <1>4, <2>4, <2>6
<1>11. KeyTypes'
  BY <1>1, <1>2, <1>3, <1>5, Zenon DEF KeyInv, KeyTypes
<1>12. OfKeys' /\ WriteSafe'
  BY <1>1, <1>3, <1>5, <1>7 DEF KeyInv, OfKeys, WriteSafe
<1>13. OnlyOnce'
  BY <1>1, <1>5, <1>7 DEF KeyInv, OnlyOnce
<1>14. ASSUME k_raced' = {} PROVE AsTyped'
  <2>1. k_raced = {}
    BY <1>1, <1>14
  <2>2. IsRing(k_true'.typed) /\ Len(k_true'.typed) = n
    BY <1>10, <2>1 DEF WithoutLast
  <2>3. \A i \in 1 .. n : k_true'.typed[i] = OutChar(i)
    <3>1. \A i \in 1 .. n : k_true'.typed[i] = k_true.typed[i]
      BY <1>10, <2>1 DEF WithoutLast
    <3>2. \A i \in 1 .. n : k_true.typed[i] = OutChar(i)
      BY <1>8, <2>1 DEF KeyInv, AsTyped
    <3> QED BY <3>1, <3>2
  <2>4. k_shift' = k_true'.shift
    BY <1>1, <1>3, <2>1 DEF KeyInv, AsTyped
  <2> QED BY <1>5, <1>7, <1>8, <2>2, <2>3, <2>4 DEF AsTyped
<1>15. AsTyped'
  BY <1>14 DEF AsTyped
<1> QED BY <1>11, <1>12, <1>13, <1>15 DEF KeyInv

(* A code is read for the first time: the character is typed.              *)
LEMMA ArrivedIs ==
    ASSUME KeyInv, k_raced = {}, ~HandFull, NEW char, NEW new, new = Append(k_true.typed, char)
    PROVE  /\ IsRing(new) /\ Len(new) = OutLen + 1
           /\ \A i \in 1 .. OutLen : new[i] = OutChar(i)
           /\ new[OutLen + 1] = char
<1>1. IsRing(k_true.typed) /\ Len(k_true.typed) = OutLen
  BY DEF KeyInv, AsTyped
<1>2. \A i \in 1 .. OutLen : k_true.typed[i] = OutChar(i)
  BY DEF KeyInv, AsTyped
<1>3. PICK old, m : old = k_true.typed /\ m = OutLen
  OBVIOUS
<1>4. IsRing(old) /\ Len(old) = m /\ new = Append(old, char)
  BY <1>1, <1>3
<1>5. PICK n \in Nat : AppendAs(old, char, new, n)
  BY <1>4, AppendIs
<1>6. m = n
  BY <1>4, <1>5 DEF AppendAs
<1>7. IsRing(new) /\ Len(new) = m + 1 /\ (\A i \in 1 .. m : new[i] = old[i]) /\ new[m + 1] = char
  BY <1>5, <1>6 DEF AppendAs
<1>8. \A i \in 1 .. m : new[i] = OutChar(i)
  BY <1>2, <1>3, <1>7
<1> QED BY <1>3, <1>7, <1>8

(* A character of another keyboard comes in.                               *)
LEMMA KeyInjectKeeps ==
    ASSUME KeyInv, InjectCharacter
    PROVE  KeyInv'
<1>1. PICK char \in {[id |-> k_true.keys + 1, shifted |-> FALSE]} :
         /\ k_thread' = [k_thread EXCEPT !.at = "next", !.char = char]
         /\ k_true' = [k_true EXCEPT !.keys = @ + 1, !.typed = Append(@, char)]
  BY Zenon DEF InjectCharacter
<1>2. UNCHANGED <<k_port, k_ring, k_shift, k_read, k_raced>> /\ k_thread.at = "idle"
  BY DEF InjectCharacter, ThreadAt
<1>3. char.id = k_true.keys + 1 /\ k_true.keys \in Nat
  BY <1>1 DEF KeyInv, KeyTypes
<1>4. /\ {"at", "code", "char", "next", "index"} \subseteq DOMAIN k_thread' /\ k_thread'.at = "next"
      /\ k_thread'.char = char
  BY <1>1 DEF KeyInv, KeyTypes
<1>5. /\ {"keys", "shift", "typed"} \subseteq DOMAIN k_true' /\ k_true'.keys = k_true.keys + 1
      /\ k_true'.shift = k_true.shift
  BY <1>1 DEF KeyInv, KeyTypes
<1>6. k_true'.typed = Append(k_true.typed, char)
  BY <1>1 DEF KeyInv, KeyTypes
<1>7. /\ HandFull' /\ ~Queueing' /\ ~Storing' /\ ~ThreadAt("advance")' /\ ~ThreadAt("read")'
      /\ ~ThreadAt("translate")' /\ k_thread'.at \in KeySteps
  BY <1>4 DEF HandFull, Queueing, Storing, ThreadAt, KeySteps
<1>8. ~HandFull /\ ~ThreadAt("read")
  BY <1>2 DEF HandFull, ThreadAt
<1>9. Hand' = char
  BY <1>4, <1>7 DEF Hand
<1>10. /\ Held' = Held /\ OutLen' = OutLen
       /\ \A i : OutChar(i)' = OutChar(i)
       /\ \A i : FromRead(i)' = FromRead(i)
  BY <1>2, SameOut
<1>11. KeyTypes'
  <2>1. k_true'.keys \in Nat
    BY <1>3, <1>5
  <2> QED BY <1>2, <1>4, <1>5, <1>7, <2>1, Zenon DEF KeyInv, KeyTypes
<1>12. OfKeys'
  BY <1>2, <1>3, <1>5, <1>7, <1>8, <1>9, <1>10 DEF KeyInv, OfKeys
<1>13. WriteSafe'
  BY <1>7 DEF WriteSafe
<1>14. OnlyOnce'
  <2>1. \A i \in 1 .. OutLen : OutChar(i).id # char.id
    BY <1>3 DEF KeyInv, OfKeys
  <2>2. k_port.full => k_port.code.id # char.id
    BY <1>3 DEF KeyInv, OfKeys
  <2> QED BY <1>2, <1>7, <1>9, <1>10, <2>1, <2>2 DEF KeyInv, OnlyOnce
<1>15. ASSUME k_raced' = {} PROVE AsTyped'
  <2>1. k_raced = {} /\ k_shift' = k_true'.shift
    BY <1>2, <1>5, <1>15 DEF KeyInv, AsTyped
  <2>2. /\ IsRing(k_true'.typed) /\ Len(k_true'.typed) = OutLen + 1
        /\ \A i \in 1 .. OutLen : k_true'.typed[i] = OutChar(i)
        /\ k_true'.typed[OutLen + 1] = char
    <3>1. PICK new : new = k_true'.typed
      OBVIOUS
    <3>2. new = Append(k_true.typed, char)
      BY <1>6, <3>1
    <3>3. /\ IsRing(new) /\ Len(new) = OutLen + 1
          /\ \A i \in 1 .. OutLen : new[i] = OutChar(i)
          /\ new[OutLen + 1] = char
      BY <1>8, <2>1, <3>2, ArrivedIs
    <3> QED BY <3>1, <3>3
  <2> QED BY <1>7, <1>9, <1>10, <2>1, <2>2 DEF AsTyped
<1>16. AsTyped'
  BY <1>15 DEF AsTyped
<1> QED BY <1>11, <1>12, <1>13, <1>14, <1>16 DEF KeyInv

(* keyboard_read_scancode: the code is one the handler has not read, or    *)
(* one that it has.                                                        *)
LEMMA KeyReadKeeps ==
    ASSUME KeyInv, PollReadScancode
    PROVE  KeyInv'
<1>1. /\ UNCHANGED <<k_ring, k_read, k_raced>> /\ k_thread.at = "read"
      /\ k_port' = [k_port EXCEPT !.full = FALSE]
      /\ IF k_port.full THEN CodeArrived(k_port.code) ELSE UNCHANGED k_true
      /\ k_shift' = ShiftAfter(k_port.code, k_shift)
      /\ k_thread' = IF k_port.code.key = "letter"
                     THEN [k_thread EXCEPT !.at = "translate", !.code = k_port.code] ELSE KeyIdle
  BY Zenon DEF PollReadScancode, ThreadAt
<1>2. /\ {"full", "interrupt", "code"} \subseteq DOMAIN k_port' /\ ~k_port'.full
      /\ k_port'.code = k_port.code
  BY <1>1 DEF KeyInv, KeyTypes
<1>3. /\ {"at", "code", "char", "next", "index"} \subseteq DOMAIN k_thread'
      /\ k_port.code.key = "letter" => k_thread'.at = "translate" /\ k_thread'.code = k_port.code
      /\ k_port.code.key # "letter" => k_thread'.at = "idle"
  BY <1>1 DEF KeyInv, KeyTypes, KeyIdle
<1>4. /\ ~Queueing' /\ ~Storing' /\ ~ThreadAt("advance")' /\ ~ThreadAt("read")'
      /\ k_thread'.at \in KeySteps
      /\ k_port.code.key = "letter" => HandFull' /\ ThreadAt("translate")'
      /\ k_port.code.key # "letter" => ~HandFull'
  BY <1>3 DEF HandFull, Queueing, Storing, ThreadAt, KeySteps
<1>5. ~HandFull /\ ThreadAt("read")
  BY <1>1 DEF HandFull, ThreadAt
<1>6. k_port.code.key = "letter" => Hand' = [id |-> k_port.code.id, shifted |-> k_shift']
  BY <1>3, <1>4, Zenon DEF Hand, TranslateScancode
<1>7. k_port.code.key = "letter" => Hand'.id = k_port.code.id
  BY <1>6
<1>8. /\ Held' = Held /\ OutLen' = OutLen
      /\ \A i : OutChar(i)' = OutChar(i)
      /\ \A i : FromRead(i)' = FromRead(i)
  BY <1>1, SameOut
<1>9. {"keys", "shift", "typed"} \subseteq DOMAIN k_true' /\ k_true'.keys = k_true.keys
  BY <1>1 DEF CodeArrived, KeyInv, KeyTypes
<1>10. k_port.full => /\ k_true'.shift = ShiftAfter(k_port.code, k_true.shift)
                      /\ k_true'.typed = IF k_port.code.key # "letter" THEN k_true.typed
                           ELSE Append(k_true.typed, [id |-> k_port.code.id, shifted |-> k_true.shift])
  BY <1>1 DEF CodeArrived, KeyInv, KeyTypes
<1>11. KeyTypes'
  <2>1. k_shift' \in BOOLEAN
    BY <1>1, Zenon DEF ShiftAfter
  <2> QED BY <1>1, <1>2, <1>3, <1>4, <1>9, <2>1, Zenon DEF KeyInv, KeyTypes
<1>12. OfKeys'
  BY <1>1, <1>2, <1>4, <1>5, <1>7, <1>8, <1>9 DEF KeyInv, OfKeys
<1>13. WriteSafe'
  BY <1>4 DEF WriteSafe
<1>14. OnlyOnce'
  <2>1. "doubled" \notin k_raced => k_port.full /\ \A i \in 1 .. OutLen : OutChar(i).id # k_port.code.id
    BY <1>5 DEF KeyInv, OnlyOnce
  <2>2. "doubled" \notin k_raced => \A i, j \in 1 .. OutLen : OutChar(i).id = OutChar(j).id => i = j
    BY DEF KeyInv, OnlyOnce
  <2> QED BY <1>1, <1>2, <1>4, <1>7, <1>8, <2>1, <2>2 DEF OnlyOnce
<1>15. ASSUME k_raced' = {} PROVE AsTyped'
  <2>1. k_raced = {} /\ k_port.full /\ k_shift = k_true.shift
    BY <1>1, <1>5, <1>15 DEF KeyInv, AsTyped, OnlyOnce
  <2>2. k_shift' = k_true'.shift
    BY <1>1, <1>10, <2>1
  <2>3. CASE k_port.code.key = "letter"
    <3>1. PICK char : char = [id |-> k_port.code.id, shifted |-> k_true.shift]
      OBVIOUS
    <3>2. k_true'.typed = Append(k_true.typed, char)
      BY <1>10, <2>1, <2>3, <3>1
    <3>3. k_shift' = k_shift
      <4>1. PICK code, before, after : code = k_port.code /\ before = k_shift /\ after = k_shift'
        OBVIOUS
      <4>2. code.key = "letter" /\ before \in BOOLEAN /\ after = ShiftAfter(code, before)
        BY <1>1, <2>3, <4>1, Zenon DEF KeyInv, KeyTypes
      <4>3. after = before
        <5>1. code.key # "shift" /\ code.key # "unshift"
          BY <4>2
        <5> QED BY <4>2, <5>1, Zenon DEF ShiftAfter
      <4> QED BY <4>1, <4>3
    <3>4. Hand' = char
      BY <1>6, <2>1, <2>3, <3>1, <3>3
    <3>5. /\ IsRing(k_true'.typed) /\ Len(k_true'.typed) = OutLen + 1
          /\ \A i \in 1 .. OutLen : k_true'.typed[i] = OutChar(i)
          /\ k_true'.typed[OutLen + 1] = char
      <4>1. PICK new : new = k_true'.typed
        OBVIOUS
      <4>2. new = Append(k_true.typed, char)
        BY <3>2, <4>1
      <4>3. /\ IsRing(new) /\ Len(new) = OutLen + 1
            /\ \A i \in 1 .. OutLen : new[i] = OutChar(i)
            /\ new[OutLen + 1] = char
        BY <1>5, <2>1, <4>2, ArrivedIs
      <4> QED BY <4>1, <4>3
    <3> QED BY <1>4, <1>8, <2>2, <2>3, <3>4, <3>5 DEF AsTyped
  <2>4. CASE k_port.code.key # "letter"
    <3>1. k_true'.typed = k_true.typed
      BY <1>10, <2>1, <2>4
    <3> QED BY <1>4, <1>5, <1>8, <2>1, <2>2, <2>4, <3>1 DEF KeyInv, AsTyped
  <2> QED BY <2>3, <2>4
<1>16. AsTyped'
  BY <1>15 DEF AsTyped
<1> QED BY <1>11, <1>12, <1>13, <1>14, <1>16 DEF KeyInv

(* A character is taken out.                                               *)
LEMMA KeyOutKeeps ==
    ASSUME KeyInv, ReadCharacter
    PROVE  KeyInv'
<1>1. /\ UNCHANGED <<k_port, k_shift, k_thread, k_true, k_raced>>
      /\ k_thread.at = "idle" /\ k_ring.read # k_ring.write
      /\ k_read' = Append(k_read, k_ring.slots[k_ring.read])
      /\ k_ring' = [k_ring EXCEPT !.read = Following(@)]
  BY DEF ReadCharacter, ThreadAt
<1>2. /\ {"slots", "read", "write"} \subseteq DOMAIN k_ring' /\ k_ring'.slots = k_ring.slots
      /\ k_ring'.write = k_ring.write /\ k_ring'.read = Following(k_ring.read)
  BY <1>1 DEF KeyInv, KeyTypes
<1>3. /\ k_ring.read \in 0 .. QueueSize - 1 /\ k_ring.write \in 0 .. QueueSize - 1
      /\ IsRing(k_read) /\ QueueSize \in Nat \ {0}
  BY KeyboardAssumption DEF KeyInv, KeyTypes
<1>4. Following(k_ring.read) = IF k_ring.read + 1 = QueueSize THEN 0 ELSE k_ring.read + 1
  BY <1>3, NextIs DEF Following
<1>5. k_ring'.read \in 0 .. QueueSize - 1
  BY <1>2, <1>3, <1>4
<1>6. PICK n \in Nat : AppendAs(k_read, k_ring.slots[k_ring.read], k_read', n)
  <2>1. PICK old, new, c : old = k_read /\ new = k_read' /\ c = k_ring.slots[k_ring.read]
    OBVIOUS
  <2>2. IsRing(old) /\ new = Append(old, c)
    BY <1>1, <1>3, <2>1
  <2>3. \E n \in Nat : AppendAs(old, c, new, n)
    BY <2>2, AppendIs
  <2> QED BY <2>1, <2>3
<1>7. /\ IsRing(k_read') /\ Len(k_read) = n /\ Len(k_read') = n + 1
      /\ k_read'[n + 1] = k_ring.slots[k_ring.read] /\ \A i \in 1 .. n : k_read'[i] = k_read[i]
  BY <1>6 DEF AppendAs
<1>8. Held \in Nat /\ Held > 0 /\ Held < QueueSize /\ Held' = Held - 1
  <2>1. PICK r, w, r2 \in 0 .. QueueSize - 1 :
           /\ r = k_ring.read /\ w = k_ring.write /\ r2 = k_ring'.read /\ r # w
           /\ r2 = IF r + 1 = QueueSize THEN 0 ELSE r + 1
    BY <1>1, <1>2, <1>3, <1>4, <1>5
  <2>2. Held = IF r <= w THEN w - r ELSE w + QueueSize - r
    BY <2>1 DEF Held, FromRead
  <2>3. Held' = IF r2 <= w THEN w - r2 ELSE w + QueueSize - r2
    BY <1>2, <2>1 DEF Held, FromRead
  <2> QED BY <1>3, <2>1, <2>2, <2>3
<1>9. OutLen = n + Held /\ OutLen' = OutLen
  BY <1>6, <1>7, <1>8 DEF OutLen
<1>10. \A i \in 1 .. OutLen : OutChar(i)' = OutChar(i)
  <2>1. SUFFICES ASSUME NEW i \in 1 .. OutLen PROVE OutChar(i)' = OutChar(i)
    OBVIOUS
  <2>2. CASE i <= n
    BY <1>6, <1>7, <2>2 DEF OutChar
  <2>3. CASE i = n + 1
    <3>1. OutChar(i)' = k_ring.slots[k_ring.read]
      BY <1>6, <1>7, <2>3 DEF OutChar
    <3>2. OutChar(i) = k_ring.slots[SlotAfter(i - (n + 1))]
      BY <1>6, <1>7, <2>3 DEF OutChar
    <3>3. SlotAfter(i - (n + 1)) = k_ring.read
      BY <1>3, <1>6, <2>3 DEF SlotAfter
    <3> QED BY <3>1, <3>2, <3>3
  <2>4. CASE i > n + 1
    <3>1. PICK k \in Nat : i = n + 2 + k /\ k + 1 < QueueSize
      <4>1. PICK h \in Nat : h = Held /\ h < QueueSize /\ i \in 1 .. n + h
        BY <1>8, <1>9, <2>1
      <4>2. i - (n + 2) \in Nat /\ i = n + 2 + (i - (n + 2)) /\ (i - (n + 2)) + 1 < QueueSize
        BY <1>3, <1>6, <2>4, <4>1
      <4> QED BY <4>2
    <3>2. OutChar(i) = k_ring.slots[SlotAfter(k + 1)]
      <4>1. i - (n + 1) = k + 1 /\ ~(i <= n)
        BY <1>6, <3>1
      <4> QED BY <1>7, <4>1 DEF OutChar
    <3>3. OutChar(i)' = k_ring.slots[SlotAfter(k)']
      <4>1. i - ((n + 1) + 1) = k /\ ~(i <= n + 1)
        BY <1>6, <3>1
      <4> QED BY <1>2, <1>7, <4>1 DEF OutChar
    <3>4. SlotAfter(k)' = SlotAfter(k + 1)
      BY <1>2, <1>3, <1>4, <3>1 DEF SlotAfter
    <3> QED BY <3>2, <3>3, <3>4
  <2> QED BY <1>6, <1>9, <2>1, <2>2, <2>3, <2>4
<1>11. /\ ~HandFull /\ ~Queueing /\ ~Storing /\ ~ThreadAt("read") /\ ~ThreadAt("advance")
       /\ HandFull' = HandFull /\ Queueing' = Queueing /\ Storing' = Storing
       /\ ThreadAt("read")' = ThreadAt("read") /\ ThreadAt("advance")' = ThreadAt("advance")
  BY <1>1 DEF HandFull, Queueing, Storing, ThreadAt
<1>12. KeyTypes'
  BY <1>1, <1>2, <1>5, <1>7, <1>11, <1>3 DEF KeyInv, KeyTypes
<1>13. OfKeys'
  BY <1>1, <1>9, <1>10, <1>11 DEF KeyInv, OfKeys
<1>14. WriteSafe'
  BY <1>11 DEF WriteSafe
<1>15. OnlyOnce'
  BY <1>1, <1>9, <1>10, <1>11 DEF KeyInv, OnlyOnce
<1>16. AsTyped'
  BY <1>1, <1>9, <1>10, <1>11 DEF KeyInv, AsTyped
<1> QED BY <1>12, <1>13, <1>14, <1>15, <1>16 DEF KeyInv

(* The thread stores its character in its slot.                            *)
LEMMA KeyStoreKeeps ==
    ASSUME KeyInv, QueueStore
    PROVE  KeyInv'
<1>1. /\ UNCHANGED <<k_port, k_shift, k_read, k_true, k_raced>>
      /\ k_thread.at = "store" /\ k_thread' = [k_thread EXCEPT !.at = "advance"]
      /\ k_ring' = [k_ring EXCEPT !.slots[k_thread.index] = k_thread.char]
  BY Zenon DEF QueueStore, ThreadAt
<1>2. PICK x, c, t : x = k_thread.index /\ c = k_thread.char /\ t = k_thread.next
  OBVIOUS
<1>3. /\ {"at", "code", "char", "next", "index"} \subseteq DOMAIN k_thread' /\ k_thread'.at = "advance"
      /\ k_thread'.index = x /\ k_thread'.char = c /\ k_thread'.next = t
  BY <1>1, <1>2 DEF KeyInv, KeyTypes
<1>4. /\ HandFull /\ Queueing /\ Storing /\ ~ThreadAt("read") /\ ~ThreadAt("advance")
      /\ ~ThreadAt("translate")
      /\ HandFull' /\ Queueing' /\ Storing' /\ ~ThreadAt("read")' /\ ThreadAt("advance")'
      /\ ~ThreadAt("translate")' /\ k_thread'.at \in KeySteps
  BY <1>1, <1>3 DEF HandFull, Queueing, Storing, ThreadAt, KeySteps
<1>5. Hand = c /\ Hand' = c
  BY <1>2, <1>3, <1>4 DEF Hand
<1>6. /\ {"slots", "read", "write"} \subseteq DOMAIN k_ring'
      /\ k_ring'.slots = [k_ring.slots EXCEPT ![x] = c]
      /\ k_ring'.write = k_ring.write /\ k_ring'.read = k_ring.read
  BY <1>1, <1>2 DEF KeyInv, KeyTypes
<1>7. /\ k_ring.read \in 0 .. QueueSize - 1 /\ k_ring.write \in 0 .. QueueSize - 1
      /\ x \in 0 .. QueueSize - 1 /\ DOMAIN k_ring.slots = 0 .. QueueSize - 1
      /\ QueueSize \in Nat \ {0}
  BY <1>2, <1>4, KeyboardAssumption DEF KeyInv, KeyTypes
<1>8. /\ DOMAIN k_ring'.slots = 0 .. QueueSize - 1
      /\ \A i \in 0 .. QueueSize - 1 : k_ring'.slots[i] = IF i = x THEN c ELSE k_ring.slots[i]
  BY <1>6, <1>7
<1>9. /\ \A i : FromRead(i)' = FromRead(i)
      /\ \A k : SlotAfter(k)' = SlotAfter(k)
      /\ Held' = Held /\ OutLen' = OutLen
  BY <1>1, <1>6 DEF FromRead, SlotAfter, Held, OutLen
<1>10. PICK n, h, f \in Nat : /\ n = Len(k_read) /\ h = Held /\ OutLen = n + h /\ h < QueueSize
                              /\ f = FromRead(x) /\ f <= h /\ FromRead(t) - 1 <= f
  <2>1. FromRead(x) \in Nat
    <3>1. FromRead(x) \in 0 .. QueueSize - 1
      BY <1>7, SlotsInOrder
    <3> QED BY <1>7, <3>1
  <2>2. FromRead(t) - 1 <= FromRead(x) /\ FromRead(x) <= Held
    BY <1>2, <1>4 DEF KeyInv, WriteSafe
  <2> QED BY <2>1, <2>2, OutIs DEF KeyInv
<1>11. \A i \in 1 .. OutLen : OutChar(i)' = IF i = n + 1 + f THEN c ELSE OutChar(i)
  <2>1. SUFFICES ASSUME NEW i \in 1 .. n + h
                 PROVE  OutChar(i)' = IF i = n + 1 + f THEN c ELSE OutChar(i)
    BY <1>10
  <2>2. CASE i <= n
    BY <1>1, <1>10, <2>2 DEF OutChar
  <2>3. CASE i > n
    <3>1. PICK k \in 0 .. QueueSize - 1 : k = i - (n + 1)
      BY <1>7, <1>10, <2>1, <2>3
    <3>2. SlotAfter(k) \in 0 .. QueueSize - 1 /\ FromRead(SlotAfter(k)) = k
      BY <1>7, <3>1, SlotsInOrder
    <3>3. SlotAfter(k) = x <=> k = f
      BY <1>7, <1>10, <3>1, <3>2, SlotsInOrder
    <3>4. ~(i <= n)
      BY <1>10, <2>1, <2>3
    <3>5. OutChar(i) = k_ring.slots[SlotAfter(k)]
      BY <1>10, <3>1, <3>4 DEF OutChar
    <3>6. OutChar(i)' = k_ring'.slots[SlotAfter(k)]
      BY <1>1, <1>9, <1>10, <3>1, <3>4 DEF OutChar
    <3>7. i = n + 1 + f <=> k = f
      BY <1>10, <2>1, <3>1
    <3> QED BY <1>8, <3>2, <3>3, <3>5, <3>6, <3>7
  <2> QED BY <1>10, <2>1, <2>2, <2>3
<1>12. KeyTypes'
  <2>1. k_thread'.next \in 0 .. QueueSize - 1
    BY <1>2, <1>3, <1>4 DEF KeyInv, KeyTypes
  <2> QED BY <1>1, <1>3, <1>4, <1>6, <1>7, <1>8, <2>1 DEF KeyInv, KeyTypes
<1>13. OfKeys'
  <2>1. c.id \in 1 .. k_true.keys
    BY <1>4, <1>5 DEF KeyInv, OfKeys
  <2> QED BY <1>1, <1>4, <1>5, <1>9, <1>11, <2>1 DEF KeyInv, OfKeys
<1>14. WriteSafe'
  <2>1. t # k_ring.read /\ FromRead(t) \in 1 .. Held + 1
    BY <1>2, <1>4 DEF KeyInv, WriteSafe
  <2>2. ASSUME FromRead(t) = Held + 1 PROVE k_ring'.slots[k_ring.write] = c
    <3>1. f = h
      BY <1>10, <2>2
    <3>2. SlotAfter(f) = x /\ SlotAfter(h) = k_ring.write
      <4>1. \A i \in 0 .. QueueSize - 1 : SlotAfter(FromRead(i)) = i
        BY <1>7, SlotsInOrder
      <4> QED BY <1>7, <1>10, <4>1 DEF Held
    <3> QED BY <1>7, <1>8, <3>1, <3>2
  <2>3. FromRead(t) - 1 <= FromRead(x) /\ FromRead(x) <= Held
    BY <1>10
  <2> QED BY <1>3, <1>6, <1>9, <2>1, <2>2, <2>3 DEF WriteSafe
<1>15. OnlyOnce'
  <2>1. SUFFICES ASSUME "doubled" \notin k_raced PROVE OnlyOnce'
    BY <1>1 DEF OnlyOnce
  <2>2. \A i \in 1 .. OutLen : OutChar(i).id # c.id
    BY <1>4, <1>5, <2>1 DEF KeyInv, OnlyOnce
  <2>3. \A i, j \in 1 .. OutLen : OutChar(i).id = OutChar(j).id => i = j
    BY <2>1 DEF KeyInv, OnlyOnce
  <2>4. k_port.full => c.id # k_port.code.id /\ \A i \in 1 .. OutLen : OutChar(i).id # k_port.code.id
    BY <1>4, <1>5, <2>1 DEF KeyInv, OnlyOnce
  <2>5. \A i, j \in 1 .. OutLen : OutChar(i)'.id = OutChar(j)'.id => i = j
    BY <1>11, <2>2, <2>3
  <2>6. \A i \in 1 .. OutLen : OutChar(i)'.id = c.id => i = n + 1 + f
    BY <1>11, <2>2
  <2>7. k_port.full => \A i \in 1 .. OutLen : OutChar(i)'.id # k_port.code.id
    BY <1>11, <2>4
  <2> QED BY <1>1, <1>3, <1>4, <1>5, <1>9, <1>10, <2>4, <2>5, <2>6, <2>7 DEF OnlyOnce
<1>16. ASSUME k_raced' = {} PROVE AsTyped'
  <2>1. k_raced = {} /\ k_shift' = k_true'.shift
    BY <1>1, <1>16 DEF KeyInv, AsTyped
  <2>2. FromRead(t) = Held + 1 /\ x = k_ring.write
    BY <1>2, <1>4, <2>1 DEF KeyInv, AsTyped
  <2>3. f = h
    BY <1>10, <2>2 DEF Held
  <2>4. \A i \in 1 .. OutLen : OutChar(i)' = OutChar(i)
    <3>1. \A i \in 1 .. n + h : i # n + 1 + f
      BY <1>10, <2>3
    <3> QED BY <1>10, <1>11, <3>1
  <2>5. /\ IsRing(k_true.typed) /\ Len(k_true.typed) = OutLen + 1
        /\ \A i \in 1 .. OutLen : k_true.typed[i] = OutChar(i)
        /\ k_true.typed[OutLen + 1] = c
    BY <1>4, <1>5, <2>1 DEF KeyInv, AsTyped
  <2>6. k_true' = k_true
    BY <1>1
  <2> QED BY <1>3, <1>4, <1>5, <1>6, <1>9, <2>1, <2>2, <2>4, <2>5, <2>6 DEF AsTyped
<1>17. AsTyped'
  BY <1>16 DEF AsTyped
<1> QED BY <1>12, <1>13, <1>14, <1>15, <1>17 DEF KeyInv

(* The thread sets the write index to where it has found room: behind its  *)
(* character, or back before what the handler has put in.                  *)
LEMMA KeyAdvanceKeeps ==
    ASSUME KeyInv, QueueAdvance
    PROVE  KeyInv'
<1>1. /\ UNCHANGED <<k_port, k_shift, k_read, k_true, k_raced>>
      /\ k_thread.at = "advance" /\ k_thread' = KeyIdle
      /\ k_ring' = [k_ring EXCEPT !.write = k_thread.next]
  BY Zenon DEF QueueAdvance, ThreadAt
<1>2. PICK x, c, t : x = k_thread.index /\ c = k_thread.char /\ t = k_thread.next
  OBVIOUS
<1>3. {"at", "code", "char", "next", "index"} \subseteq DOMAIN k_thread' /\ k_thread'.at = "idle"
  BY <1>1 DEF KeyIdle
<1>4. /\ HandFull /\ Queueing /\ Storing /\ ThreadAt("advance") /\ ~ThreadAt("translate")
      /\ ~HandFull' /\ ~Queueing' /\ ~Storing' /\ ~ThreadAt("read")' /\ ~ThreadAt("advance")'
      /\ k_thread'.at \in KeySteps /\ ~ThreadAt("read")
  BY <1>1, <1>3 DEF HandFull, Queueing, Storing, ThreadAt, KeySteps
<1>5. Hand = c
  BY <1>2, <1>4 DEF Hand
<1>6. /\ {"slots", "read", "write"} \subseteq DOMAIN k_ring' /\ k_ring'.slots = k_ring.slots
      /\ k_ring'.write = t /\ k_ring'.read = k_ring.read
  BY <1>1, <1>2 DEF KeyInv, KeyTypes
<1>7. /\ k_ring.read \in 0 .. QueueSize - 1 /\ k_ring.write \in 0 .. QueueSize - 1
      /\ t \in 0 .. QueueSize - 1 /\ x \in 0 .. QueueSize - 1
  BY <1>2, <1>4 DEF KeyInv, KeyTypes
<1>8. PICK n, h, f, g \in Nat : /\ n = Len(k_read) /\ h = Held /\ OutLen = n + h
                                /\ f = FromRead(x) /\ f <= h /\ g = FromRead(t) /\ g - 1 <= f
                                /\ g <= h + 1
  <2>1. FromRead(x) \in 0 .. QueueSize - 1 /\ FromRead(t) \in 0 .. QueueSize - 1
    BY <1>7, SlotsInOrder
  <2>2. /\ FromRead(t) - 1 <= FromRead(x) /\ FromRead(x) <= Held
        /\ FromRead(t) \in 1 .. Held + 1
    BY <1>2, <1>4 DEF KeyInv, WriteSafe
  <2>3. FromRead(x) \in Nat /\ FromRead(t) \in Nat
    BY KeyboardAssumption, <2>1
  <2>4. /\ Len(k_read) \in Nat /\ Held \in Nat /\ OutLen = Len(k_read) + Held
    BY OutIs DEF KeyInv
  <2> QED BY <2>2, <2>3, <2>4
<1>9. /\ \A i : OutChar(i)' = OutChar(i)
      /\ Held' = g /\ OutLen' = n + g
  BY <1>1, <1>6, <1>8 DEF FromRead, SlotAfter, Held, OutLen, OutChar
<1>10. ASSUME g = h + 1 PROVE OutChar(n + h + 1) = c
  <2>1. SlotAfter(h) = k_ring.write
    <3>1. \A i \in 0 .. QueueSize - 1 : SlotAfter(FromRead(i)) = i
      BY <1>7, SlotsInOrder
    <3> QED BY <1>7, <1>8, <3>1 DEF Held
  <2>2. k_ring.slots[k_ring.write] = c
    BY <1>2, <1>4, <1>8, <1>10 DEF KeyInv, WriteSafe
  <2>3. ~(n + h + 1 <= n) /\ n + h + 1 - (n + 1) = h
    BY <1>8
  <2> QED BY <1>8, <2>1, <2>2, <2>3 DEF OutChar
<1>11. \A i \in 1 .. n + g : i \in 1 .. n + h \/ (g = h + 1 /\ i = n + h + 1)
  BY <1>8, SMTT(30)
<1>12. KeyTypes'
  BY <1>1, <1>3, <1>4, <1>6, <1>7 DEF KeyInv, KeyTypes
<1>13. OfKeys'
  <2>1. c.id \in 1 .. k_true.keys
    BY <1>4, <1>5 DEF KeyInv, OfKeys
  <2>2. \A i \in 1 .. n + h : OutChar(i).id \in 1 .. k_true.keys
    BY <1>8 DEF KeyInv, OfKeys
  <2>3. \A i \in 1 .. n + g : OutChar(i).id \in 1 .. k_true.keys
    BY <1>10, <1>11, <2>1, <2>2
  <2>4. k_port.full => k_port.code.id \in 1 .. k_true.keys
    BY DEF KeyInv, OfKeys
  <2> QED BY <1>1, <1>4, <1>9, <2>3, <2>4 DEF OfKeys
<1>14. WriteSafe'
  BY <1>4 DEF WriteSafe
<1>15. OnlyOnce'
  <2>1. SUFFICES ASSUME "doubled" \notin k_raced PROVE OnlyOnce'
    BY <1>1 DEF OnlyOnce
  <2>2. \A i, j \in 1 .. n + h : OutChar(i).id = OutChar(j).id => i = j
    BY <1>8, <2>1 DEF KeyInv, OnlyOnce
  <2>3. \A i \in 1 .. n + h : OutChar(i).id = c.id => i = n + 1 + f
    BY <1>2, <1>4, <1>5, <1>8, <2>1 DEF KeyInv, OnlyOnce
  <2>4. ASSUME g = h + 1 PROVE \A i \in 1 .. n + h : OutChar(i).id # c.id
    BY <1>8, <2>3, <2>4
  <2>5. \A i, j \in 1 .. n + g : OutChar(i).id = OutChar(j).id => i = j
    BY <1>10, <1>11, <2>2, <2>4
  <2>6. k_port.full => \A i \in 1 .. n + g : OutChar(i).id # k_port.code.id
    <3>1. k_port.full => c.id # k_port.code.id /\ \A i \in 1 .. n + h : OutChar(i).id # k_port.code.id
      BY <1>4, <1>5, <1>8, <2>1 DEF KeyInv, OnlyOnce
    <3> QED BY <1>10, <1>11, <3>1
  <2> QED BY <1>1, <1>4, <1>9, <2>5, <2>6 DEF OnlyOnce
<1>16. ASSUME k_raced' = {} PROVE AsTyped'
  <2>1. k_raced = {} /\ k_shift' = k_true'.shift
    BY <1>1, <1>16 DEF KeyInv, AsTyped
  <2>2. g = h + 1
    BY <1>2, <1>4, <1>8, <2>1 DEF KeyInv, AsTyped
  <2>3. /\ IsRing(k_true.typed) /\ Len(k_true.typed) = n + h + 1
        /\ \A i \in 1 .. n + h : k_true.typed[i] = OutChar(i)
        /\ k_true.typed[n + h + 1] = c
    BY <1>4, <1>5, <1>8, <2>1 DEF KeyInv, AsTyped
  <2>4. \A i \in 1 .. n + g : k_true.typed[i] = OutChar(i)
    BY <1>10, <1>11, <2>2, <2>3
  <2>5. Len(k_true.typed) = n + g
    BY <1>8, <2>2, <2>3
  <2> QED BY <1>1, <1>4, <1>9, <2>1, <2>3, <2>4, <2>5 DEF AsTyped
<1>17. AsTyped'
  BY <1>16 DEF AsTyped
<1> QED BY <1>12, <1>13, <1>14, <1>15, <1>17 DEF KeyInv

(* The handler, when the thread has been faster                            *)
LEMMA KeyHandlerKeepsEmpty ==
    ASSUME KeyInv, InterruptHandler, ~k_port.full
    PROVE  KeyInv'
<1>1. /\ UNCHANGED <<k_thread, k_read, k_ring, k_shift, k_true, k_raced>>
      /\ k_port' = [k_port EXCEPT !.interrupt = FALSE, !.full = FALSE]
  BY DEF InterruptHandler
<1>2. /\ {"full", "interrupt", "code"} \subseteq DOMAIN k_port' /\ ~k_port'.full
      /\ k_port'.code = k_port.code
  BY <1>1 DEF KeyInv, KeyTypes
<1>3. /\ Held' = Held /\ OutLen' = OutLen
      /\ \A i : OutChar(i)' = OutChar(i)
      /\ \A i : FromRead(i)' = FromRead(i)
  BY <1>1, SameOut
<1>4. /\ HandFull' = HandFull /\ Hand' = Hand /\ Queueing' = Queueing /\ Storing' = Storing
      /\ \A step : ThreadAt(step)' = ThreadAt(step)
  BY <1>1 DEF HandFull, Hand, Queueing, Storing, ThreadAt, TranslateScancode
<1>5. KeyTypes'
  BY <1>1, <1>2, <1>4, Zenon DEF KeyInv, KeyTypes
<1>6. OfKeys'
  BY <1>1, <1>2, <1>3, <1>4 DEF KeyInv, OfKeys
<1>7. WriteSafe'
  BY <1>1, <1>3, <1>4 DEF KeyInv, WriteSafe
<1>8. OnlyOnce'
  BY <1>1, <1>2, <1>3, <1>4 DEF KeyInv, OnlyOnce
<1>9. AsTyped'
  BY <1>1, <1>3, <1>4 DEF KeyInv, AsTyped
<1> QED BY <1>5, <1>6, <1>7, <1>8, <1>9 DEF KeyInv

(* What the handler does with a code                                       *)
LEMMA HandlerIs ==
    ASSUME KeyInv, InterruptHandler, k_port.full, NEW code, code = k_port.code
    PROVE  /\ UNCHANGED <<k_thread, k_read>>
           /\ {"full", "interrupt", "code"} \subseteq DOMAIN k_port' /\ ~k_port'.full
           /\ k_port'.code = code
           /\ k_shift' = ShiftAfter(code, k_shift) /\ k_shift' \in BOOLEAN
           /\ {"keys", "shift", "typed"} \subseteq DOMAIN k_true' /\ k_true'.keys = k_true.keys
           /\ k_true'.shift = ShiftAfter(code, k_true.shift)
           /\ "doubled" \notin k_raced' => "doubled" \notin k_raced /\ ~ThreadAt("read")
           /\ k_raced' = {} => k_raced = {} /\ ThreadAt("idle")
           /\ k_ring' = IF code.key = "letter" THEN QueueCharacter(TranslateScancode(code)) ELSE k_ring
           /\ code.key # "letter" => k_true'.typed = k_true.typed
           /\ code.key = "letter" =>
                 \E new : /\ new = Append(k_true.typed, [id |-> code.id, shifted |-> k_true.shift])
                          /\ k_true'.typed = IF k_ring' = k_ring THEN Dropped(new, code) ELSE new
           /\ HandFull' = HandFull /\ Queueing' = Queueing /\ Storing' = Storing
           /\ (HandFull => Hand'.id = Hand.id)
           /\ \A step : ThreadAt(step)' = ThreadAt(step)
<1> DEFINE arrived == IF code.key # "letter" THEN k_true.typed
                      ELSE Append(k_true.typed, [id |-> code.id, shifted |-> k_true.shift])
<1>1. /\ UNCHANGED <<k_thread, k_read>>
      /\ k_port' = [k_port EXCEPT !.interrupt = FALSE, !.full = FALSE]
      /\ k_shift' = ShiftAfter(code, k_shift)
      /\ k_ring' = IF code.key = "letter" THEN QueueCharacter(TranslateScancode(code)) ELSE k_ring
      /\ k_true' = [k_true EXCEPT
                       !.shift = ShiftAfter(code, @),
                       !.typed = IF code.key = "letter" /\ k_ring' = k_ring
                                 THEN Dropped(arrived, code) ELSE arrived]
      /\ k_raced' = k_raced \union (CASE ThreadAt("idle") -> {}
                                      [] ThreadAt("read") -> {"doubled"}
                                      [] OTHER -> {"crossed"})
  BY Zenon DEF InterruptHandler
<1>2. /\ {"full", "interrupt", "code"} \subseteq DOMAIN k_port' /\ ~k_port'.full
      /\ k_port'.code = code
  BY <1>1 DEF KeyInv, KeyTypes
<1>3. k_shift' \in BOOLEAN
  BY <1>1, Zenon DEF ShiftAfter
<1> HIDE DEF arrived
<1>4. /\ {"keys", "shift", "typed"} \subseteq DOMAIN k_true' /\ k_true'.keys = k_true.keys
      /\ k_true'.shift = ShiftAfter(code, k_true.shift)
      /\ k_true'.typed = IF code.key = "letter" /\ k_ring' = k_ring
                         THEN Dropped(arrived, code) ELSE arrived
  BY <1>1 DEF KeyInv, KeyTypes
<1>5. /\ code.key # "letter" => k_true'.typed = k_true.typed
      /\ code.key = "letter" =>
            \E new : /\ new = Append(k_true.typed, [id |-> code.id, shifted |-> k_true.shift])
                     /\ k_true'.typed = IF k_ring' = k_ring THEN Dropped(new, code) ELSE new
  BY <1>4, Zenon DEF arrived
<1>6. /\ "doubled" \notin k_raced' => "doubled" \notin k_raced /\ ~ThreadAt("read")
      /\ k_raced' = {} => k_raced = {} /\ ThreadAt("idle")
  BY <1>1 DEF ThreadAt
<1>7. /\ HandFull' = HandFull /\ Queueing' = Queueing /\ Storing' = Storing
      /\ \A step : ThreadAt(step)' = ThreadAt(step)
  BY <1>1 DEF HandFull, Queueing, Storing, ThreadAt
<1>8. Hand'.id = Hand.id
  <2>1. CASE ThreadAt("translate")
    <3>1. Hand.id = k_thread.code.id
      BY <2>1 DEF Hand, TranslateScancode
    <3>2. Hand'.id = k_thread'.code.id
      BY <1>7, <2>1 DEF Hand, TranslateScancode
    <3> QED BY <1>1, <3>1, <3>2
  <2>2. CASE ~ThreadAt("translate")
    BY <1>1, <1>7, <2>2 DEF Hand
  <2> QED BY <2>1, <2>2
<1> QED BY <1>1, <1>2, <1>3, <1>4, <1>5, <1>6, <1>7, <1>8

(* The handler puts nothing in: it was no letter, or there was no room.    *)
LEMMA KeyHandlerKeepsSame ==
    ASSUME KeyInv, InterruptHandler, k_port.full,
           k_port.code.key # "letter" \/ Following(k_ring.write) = k_ring.read
    PROVE  KeyInv'
<1>1. PICK code : code = k_port.code
  OBVIOUS
<1>2. /\ UNCHANGED <<k_thread, k_read>>
      /\ {"full", "interrupt", "code"} \subseteq DOMAIN k_port' /\ ~k_port'.full
      /\ k_port'.code = code
      /\ k_shift' = ShiftAfter(code, k_shift) /\ k_shift' \in BOOLEAN
      /\ {"keys", "shift", "typed"} \subseteq DOMAIN k_true' /\ k_true'.keys = k_true.keys
      /\ k_true'.shift = ShiftAfter(code, k_true.shift)
      /\ "doubled" \notin k_raced' => "doubled" \notin k_raced /\ ~ThreadAt("read")
      /\ k_raced' = {} => k_raced = {} /\ ThreadAt("idle")
      /\ HandFull' = HandFull /\ Queueing' = Queueing /\ Storing' = Storing
      /\ (HandFull => Hand'.id = Hand.id)
      /\ \A step : ThreadAt(step)' = ThreadAt(step)
  BY <1>1, HandlerIs
<1>3. k_ring' = k_ring
  <2>1. k_ring' = IF code.key = "letter" THEN QueueCharacter(TranslateScancode(code)) ELSE k_ring
    BY <1>1, HandlerIs
  <2> QED BY <1>1, <2>1 DEF QueueCharacter
<1>4. /\ Held' = Held /\ OutLen' = OutLen
      /\ \A i : OutChar(i)' = OutChar(i)
      /\ \A i : FromRead(i)' = FromRead(i)
  BY <1>2, <1>3, SameOut
<1>5. KeyTypes'
  BY <1>2, <1>3, Zenon DEF KeyInv, KeyTypes
<1>6. OfKeys'
  BY <1>1, <1>2, <1>4 DEF KeyInv, OfKeys
<1>7. WriteSafe'
  BY <1>2, <1>3, <1>4 DEF KeyInv, WriteSafe
<1>8. OnlyOnce'
  <2>1. SUFFICES ASSUME "doubled" \notin k_raced' PROVE OnlyOnce'
    BY DEF OnlyOnce
  <2> QED BY <1>2, <1>4, <2>1 DEF KeyInv, OnlyOnce
<1>9. ASSUME k_raced' = {} PROVE AsTyped'
  <2>1. k_raced = {} /\ ThreadAt("idle") /\ k_shift = k_true.shift
    BY <1>2, <1>9 DEF KeyInv, AsTyped
  <2>2. ~HandFull /\ ~Queueing /\ ~Storing
    BY <2>1 DEF HandFull, Queueing, Storing, ThreadAt
  <2>3. k_shift' = k_true'.shift
    BY <1>2, <2>1
  <2>4. PICK n : n = OutLen
    OBVIOUS
  <2>5. n \in Nat
    BY <2>4, OutIs DEF KeyInv
  <2>6. /\ IsRing(k_true.typed) /\ Len(k_true.typed) = n
        /\ \A i \in 1 .. n : k_true.typed[i] = OutChar(i)
    BY <2>1, <2>2, <2>4 DEF KeyInv, AsTyped
  <2>7. /\ IsRing(k_true'.typed) /\ Len(k_true'.typed) = n
        /\ \A i \in 1 .. n : k_true'.typed[i] = OutChar(i)
    <3>1. CASE code.key # "letter"
      <4>1. k_true'.typed = k_true.typed
        BY <1>1, <3>1, HandlerIs
      <4> QED BY <2>6, <4>1
    <3>2. CASE code.key = "letter"
      <4>1. PICK new : /\ new = Append(k_true.typed, [id |-> code.id, shifted |-> k_true.shift])
                       /\ k_true'.typed = IF k_ring' = k_ring THEN Dropped(new, code) ELSE new
        BY <1>1, <3>2, HandlerIs
      <4>2. PICK char : char = [id |-> code.id, shifted |-> k_true.shift]
        OBVIOUS
      <4>3. /\ IsRing(new) /\ Len(new) = n + 1
            /\ \A i \in 1 .. n : new[i] = OutChar(i)
            /\ new[n + 1] = char
        <5>1. new = Append(k_true.typed, char) /\ k_raced = {} /\ ~HandFull
          BY <2>1, <2>2, <4>1, <4>2
        <5>2. /\ IsRing(new) /\ Len(new) = OutLen + 1
              /\ \A i \in 1 .. OutLen : new[i] = OutChar(i)
              /\ new[OutLen + 1] = char
          BY <5>1, ArrivedIs
        <5> QED BY <2>4, <5>2
      <4>4. \A i \in 1 .. n : OutChar(i).id # code.id
        BY <1>1, <2>1, <2>4 DEF KeyInv, OnlyOnce
      <4>5. WithoutLast(new, n, Dropped(new, code))
        <5>1. new[n + 1].id = code.id /\ \A i \in 1 .. n : new[i].id # code.id
          BY <4>2, <4>3, <4>4
        <5> QED BY <2>5, <4>3, <5>1, DroppedIs
      <4>6. k_true'.typed = Dropped(new, code)
        BY <1>3, <4>1
      <4> QED BY <4>3, <4>5, <4>6 DEF WithoutLast
    <3> QED BY <3>1, <3>2
  <2> QED BY <1>2, <1>4, <2>2, <2>3, <2>4, <2>7 DEF AsTyped
<1>10. AsTyped'
  BY <1>9 DEF AsTyped
<1> QED BY <1>5, <1>6, <1>7, <1>8, <1>10 DEF KeyInv

(* The handler puts a character in the queue.                              *)
LEMMA KeyHandlerKeepsPut ==
    ASSUME KeyInv, InterruptHandler, k_port.full,
           k_port.code.key = "letter", Following(k_ring.write) # k_ring.read
    PROVE  KeyInv'
<1>1. PICK code : code = k_port.code
  OBVIOUS
<1>2. /\ UNCHANGED <<k_thread, k_read>>
      /\ {"full", "interrupt", "code"} \subseteq DOMAIN k_port' /\ ~k_port'.full
      /\ k_port'.code = code
      /\ k_shift' = ShiftAfter(code, k_shift) /\ k_shift' \in BOOLEAN
      /\ {"keys", "shift", "typed"} \subseteq DOMAIN k_true' /\ k_true'.keys = k_true.keys
      /\ k_true'.shift = ShiftAfter(code, k_true.shift)
      /\ "doubled" \notin k_raced' => "doubled" \notin k_raced /\ ~ThreadAt("read")
      /\ k_raced' = {} => k_raced = {} /\ ThreadAt("idle")
      /\ HandFull' = HandFull /\ Queueing' = Queueing /\ Storing' = Storing
      /\ (HandFull => Hand'.id = Hand.id)
      /\ \A step : ThreadAt(step)' = ThreadAt(step)
  BY <1>1, HandlerIs
<1>3. PICK c, w : c = [id |-> code.id, shifted |-> k_shift] /\ w = k_ring.write
  OBVIOUS
<1>23. c.id = code.id
  BY <1>3
<1>4. k_ring' = [k_ring EXCEPT !.slots[w] = c, !.write = Following(@)]
  <2>1. k_ring' = QueueCharacter(c)
    BY <1>1, <1>3, HandlerIs DEF TranslateScancode
  <2> QED BY <1>3, <2>1 DEF QueueCharacter
<1>5. /\ {"slots", "read", "write"} \subseteq DOMAIN k_ring'
      /\ k_ring'.slots = [k_ring.slots EXCEPT ![w] = c]
      /\ k_ring'.write = Following(w) /\ k_ring'.read = k_ring.read
  BY <1>3, <1>4 DEF KeyInv, KeyTypes
<1>6. /\ k_ring.read \in 0 .. QueueSize - 1 /\ w \in 0 .. QueueSize - 1
      /\ DOMAIN k_ring.slots = 0 .. QueueSize - 1 /\ QueueSize \in Nat /\ QueueSize > 1
  BY <1>3, KeyboardAssumption DEF KeyInv, KeyTypes
<1>7. /\ Following(w) \in 0 .. QueueSize - 1 /\ FromRead(Following(w)) = FromRead(w) + 1
      /\ FromRead(Following(w)) \in 0 .. QueueSize - 1
  BY <1>3, <1>6, SlotsInOrder
<1>8. k_ring' # k_ring
  <2>1. Following(w) # w
    <3>1. QueueSize \in Nat \ {0}
      BY <1>6
    <3>2. Following(w) = IF w + 1 = QueueSize THEN 0 ELSE w + 1
      BY <1>6, <3>1, NextIs DEF Following
    <3> QED BY <1>6, <3>2
  <2> QED BY <1>3, <1>5, <2>1
<1>9. /\ DOMAIN k_ring'.slots = 0 .. QueueSize - 1
      /\ \A i \in 0 .. QueueSize - 1 : k_ring'.slots[i] = IF i = w THEN c ELSE k_ring.slots[i]
  BY <1>5, <1>6
<1>10. PICK n, h \in Nat : n = Len(k_read) /\ h = Held /\ OutLen = n + h /\ h + 1 < QueueSize
  <2>1. FromRead(w) = Held /\ Held + 1 \in 0 .. QueueSize - 1
    BY <1>3, <1>7 DEF Held
  <2>2. /\ Len(k_read) \in Nat /\ Held \in Nat /\ OutLen = Len(k_read) + Held
    BY OutIs DEF KeyInv
  <2> QED BY <1>6, <2>1, <2>2
<1>11. /\ \A i : FromRead(i)' = FromRead(i)
       /\ \A k : SlotAfter(k)' = SlotAfter(k)
       /\ Held' = h + 1 /\ OutLen' = n + h + 1
  <2>1. \A i : FromRead(i)' = FromRead(i)
    BY <1>5 DEF FromRead
  <2>2. \A k : SlotAfter(k)' = SlotAfter(k)
    BY <1>5 DEF SlotAfter
  <2>3. Held' = h + 1
    <3>1. Held' = FromRead(Following(w))
      BY <1>5 DEF Held, FromRead
    <3> QED BY <1>3, <1>7, <1>10, <3>1 DEF Held
  <2>4. OutLen' = n + h + 1
    BY <1>2, <1>10, <2>3 DEF OutLen
  <2> QED BY <2>1, <2>2, <2>3, <2>4
<1>12. SlotAfter(h) = w
  BY <1>3, <1>6, <1>10, SlotsInOrder DEF Held
<1>13. \A i \in 1 .. n + h : OutChar(i)' = OutChar(i)
  <2>1. SUFFICES ASSUME NEW i \in 1 .. n + h PROVE OutChar(i)' = OutChar(i)
    OBVIOUS
  <2>2. CASE i <= n
    BY <1>2, <1>10, <2>2 DEF OutChar
  <2>3. CASE i > n
    <3>1. PICK k \in 0 .. QueueSize - 1 : k = i - (n + 1) /\ k < h
      <4>1. PICK q \in Nat : q = QueueSize
        BY <1>6
      <4>2. h + 1 < q /\ n \in Nat /\ h \in Nat
        BY <1>10, <4>1
      <4>3. i - (n + 1) \in 0 .. q - 1 /\ i - (n + 1) < h
        BY <2>1, <2>3, <4>1, <4>2
      <4> QED BY <4>1, <4>3
    <3>2. SlotAfter(k) \in 0 .. QueueSize - 1 /\ SlotAfter(k) # w
      <4>1. FromRead(SlotAfter(k)) = k /\ SlotAfter(k) \in 0 .. QueueSize - 1
        BY <1>6, <3>1, SlotsInOrder
      <4>2. FromRead(w) = h
        BY <1>3, <1>10 DEF Held
      <4> QED BY <1>10, <3>1, <4>1, <4>2
    <3>3. ~(i <= n)
      BY <1>10, <2>1, <2>3
    <3>4. OutChar(i) = k_ring.slots[SlotAfter(k)]
      BY <1>10, <3>1, <3>3 DEF OutChar
    <3>5. OutChar(i)' = k_ring'.slots[SlotAfter(k)]
      BY <1>2, <1>10, <1>11, <3>1, <3>3 DEF OutChar
    <3> QED BY <1>9, <3>2, <3>4, <3>5
  <2> QED BY <1>10, <2>1, <2>2, <2>3
<1>14. OutChar(n + h + 1)' = c
  <2>1. ~(n + h + 1 <= n) /\ n + h + 1 - (n + 1) = h
    BY <1>10
  <2>2. OutChar(n + h + 1)' = k_ring'.slots[SlotAfter(h)]
    BY <1>2, <1>10, <1>11, <2>1 DEF OutChar
  <2> QED BY <1>6, <1>9, <1>12, <2>2
<1>15. \A i \in 1 .. n + h + 1 : i \in 1 .. n + h \/ i = n + h + 1
  BY <1>10
<1>16. KeyTypes'
  BY <1>2, <1>5, <1>6, <1>7, <1>9, Zenon DEF KeyInv, KeyTypes
<1>17. OfKeys'
  <2>1. code.id \in 1 .. k_true.keys
    BY <1>1 DEF KeyInv, OfKeys
  <2>2. \A i \in 1 .. n + h : OutChar(i).id \in 1 .. k_true.keys
    BY <1>10 DEF KeyInv, OfKeys
  <2>3. \A i \in 1 .. n + h + 1 : OutChar(i)'.id \in 1 .. k_true.keys
    BY <1>23, <1>13, <1>14, <1>15, <2>1, <2>2
  <2>4. HandFull => Hand'.id \in 1 .. k_true.keys
    BY <1>2 DEF KeyInv, OfKeys
  <2> QED BY <1>2, <1>11, <2>1, <2>3, <2>4 DEF OfKeys
<1>18. WriteSafe'
  <2>1. ASSUME Queueing
        PROVE  k_thread.next # k_ring.read /\ FromRead(k_thread.next) \in 1 .. h + 1
    BY <1>10, <2>1 DEF KeyInv, WriteSafe
  <2>2. ASSUME Queueing
        PROVE  FromRead(k_thread.next) \in 1 .. (h + 1) + 1 /\ FromRead(k_thread.next) # (h + 1) + 1
    BY <1>10, <2>1, <2>2
  <2>3. ASSUME Storing
        PROVE  /\ FromRead(k_thread.next) - 1 <= FromRead(k_thread.index)
               /\ FromRead(k_thread.index) <= h + 1
    <3>1. /\ FromRead(k_thread.next) - 1 <= FromRead(k_thread.index)
          /\ FromRead(k_thread.index) <= h
      BY <1>10, <2>3 DEF KeyInv, WriteSafe
    <3>2. FromRead(k_thread.index) \in Int
      <4>1. k_thread.index \in 0 .. QueueSize - 1
        BY <2>3 DEF KeyInv, KeyTypes
      <4> QED BY <1>6, <4>1 DEF FromRead
    <3> QED BY <1>10, <3>1, <3>2
  <2>4. ThreadAt("advance") => Queueing
    BY DEF ThreadAt, Queueing
  <2> QED BY <1>2, <1>5, <1>11, <2>1, <2>2, <2>3, <2>4 DEF WriteSafe
<1>19. ASSUME "doubled" \notin k_raced' PROVE OnlyOnce'
  <2>1. "doubled" \notin k_raced /\ ~ThreadAt("read")
    BY <1>2, <1>19
  <2>2. \A i, j \in 1 .. n + h : OutChar(i).id = OutChar(j).id => i = j
    BY <1>10, <2>1 DEF KeyInv, OnlyOnce
  <2>3. \A i \in 1 .. n + h : OutChar(i).id # code.id
    BY <1>1, <1>10, <2>1 DEF KeyInv, OnlyOnce
  <2>4. \A i, j \in 1 .. n + h + 1 : OutChar(i)'.id = OutChar(j)'.id => i = j
    BY <1>23, <1>13, <1>14, <1>15, <2>2, <2>3
  <2>5. ASSUME HandFull PROVE Hand.id # code.id
    BY <1>1, <2>1, <2>5 DEF KeyInv, OnlyOnce
  <2>6. ASSUME HandFull
        PROVE  \A i \in 1 .. n + h :
                  OutChar(i).id = Hand.id =>
                     ThreadAt("advance") /\ i = Len(k_read) + 1 + FromRead(k_thread.index)
    BY <1>10, <2>1, <2>6 DEF KeyInv, OnlyOnce
  <2>7. ASSUME HandFull
        PROVE  \A i \in 1 .. n + h + 1 :
                  OutChar(i)'.id = Hand'.id =>
                     ThreadAt("advance") /\ i = Len(k_read) + 1 + FromRead(k_thread.index)
    BY <1>2, <1>23, <1>13, <1>14, <1>15, <2>5, <2>6, <2>7
  <2> QED BY <1>2, <1>11, <2>1, <2>4, <2>7 DEF OnlyOnce
<1>20. OnlyOnce'
  BY <1>19 DEF OnlyOnce
<1>21. ASSUME k_raced' = {} PROVE AsTyped'
  <2>1. k_raced = {} /\ ThreadAt("idle") /\ k_shift = k_true.shift
    BY <1>2, <1>21 DEF KeyInv, AsTyped
  <2>2. ~HandFull /\ ~Queueing /\ ~Storing
    BY <2>1 DEF HandFull, Queueing, Storing, ThreadAt
  <2>3. k_shift' = k_true'.shift
    BY <1>2, <2>1
  <2>4. PICK new : /\ new = Append(k_true.typed, [id |-> code.id, shifted |-> k_true.shift])
                   /\ k_true'.typed = IF k_ring' = k_ring THEN Dropped(new, code) ELSE new
    BY <1>1, HandlerIs
  <2>5. new = Append(k_true.typed, c) /\ k_true'.typed = new
    <3>1. c = [id |-> code.id, shifted |-> k_true.shift]
      BY <1>3, <2>1
    <3> QED BY <1>8, <2>4, <3>1
  <2>6. /\ IsRing(new) /\ Len(new) = n + h + 1
        /\ \A i \in 1 .. n + h : new[i] = OutChar(i)
        /\ new[n + h + 1] = c
    <3>1. new = Append(k_true.typed, c) /\ k_raced = {} /\ ~HandFull
      BY <2>1, <2>2, <2>5
    <3>2. /\ IsRing(new) /\ Len(new) = OutLen + 1
          /\ \A i \in 1 .. OutLen : new[i] = OutChar(i)
          /\ new[OutLen + 1] = c
      BY <3>1, ArrivedIs, ZenonT(30)
    <3> QED BY <1>10, <3>2
  <2>7. \A i \in 1 .. n + h + 1 : new[i] = OutChar(i)'
    BY <1>13, <1>14, <1>15, <2>6
  <2> QED BY <1>2, <1>11, <2>2, <2>3, <2>5, <2>6, <2>7 DEF AsTyped
<1>22. AsTyped'
  BY <1>21 DEF AsTyped
<1> QED BY <1>16, <1>17, <1>18, <1>20, <1>22 DEF KeyInv

(* Every step of the handler and of the thread keeps the invariant.        *)
LEMMA KeyStepKeepsInv == KeyInv /\ [KeyboardNext]_keyboardVars => KeyInv'
<1> SUFFICES ASSUME KeyInv, [KeyboardNext]_keyboardVars PROVE KeyInv'
  OBVIOUS
<1>1. ASSUME NEW key \in Keys, Press(key) PROVE KeyInv'
  BY <1>1, KeyPressKeeps
<1>2. ASSUME InterruptHandler PROVE KeyInv'
  BY <1>2, KeyHandlerKeepsEmpty, KeyHandlerKeepsSame, KeyHandlerKeepsPut
<1>3. ASSUME QueueNext PROVE KeyInv'
  BY <1>3, KeyNextKeepsRoom, KeyNextKeepsFull
<1>4. ASSUME UNCHANGED keyboardVars PROVE KeyInv'
  <2>1. UNCHANGED <<k_port, k_ring, k_shift, k_thread, k_read, k_true, k_raced>>
    BY <1>4 DEF keyboardVars
  <2>2. /\ Held' = Held /\ OutLen' = OutLen
        /\ \A i : OutChar(i)' = OutChar(i)
        /\ \A i : FromRead(i)' = FromRead(i)
    BY <2>1, SameOut
  <2>3. /\ HandFull' = HandFull /\ Hand' = Hand /\ Queueing' = Queueing /\ Storing' = Storing
        /\ \A step : ThreadAt(step)' = ThreadAt(step)
    BY <2>1 DEF HandFull, Hand, Queueing, Storing, ThreadAt, TranslateScancode
  <2>4. KeyTypes' /\ OfKeys'
    BY <2>1, <2>2, <2>3 DEF KeyInv, KeyTypes, OfKeys
  <2>5. WriteSafe' /\ OnlyOnce'
    BY <2>1, <2>2, <2>3 DEF KeyInv, WriteSafe, OnlyOnce
  <2>6. AsTyped'
    BY <2>1, <2>2, <2>3 DEF KeyInv, AsTyped
  <2> QED BY <2>4, <2>5, <2>6 DEF KeyInv
<1> QED BY <1>1, <1>2, <1>3, <1>4, KeyPollKeeps, KeyReadKeeps, KeyTranslateKeeps, KeyInjectKeeps,
           KeyIndexKeeps, KeyStoreKeeps, KeyAdvanceKeeps, KeyOutKeeps DEF KeyboardNext

(* What is in the queue, slot by slot                                      *)
LEMMA QueuedIs ==
    ASSUME KeyInv, NEW queued, queued = Queued, NEW h \in Nat, h = Held
    PROVE  /\ IsRing(queued) /\ Len(queued) = h /\ DOMAIN queued = 1 .. h
           /\ \A i \in 1 .. h : queued[i] = k_ring.slots[SlotAfter(i - 1)]
<1>1. PICK r, w \in 0 .. QueueSize - 1 : r = k_ring.read /\ w = k_ring.write
  BY DEF KeyInv, KeyTypes
<1>2. QueueSize \in Nat \ {0}
  BY KeyboardAssumption
<1>3. (w + QueueSize - r) % QueueSize = h
  <2>1. Ahead(QueueSize, w, r) = IF w < r THEN w + QueueSize - r ELSE w - r
    BY <1>1, <1>2, AheadIs
  <2>2. h = IF r <= w THEN w - r ELSE w + QueueSize - r
    BY <1>1 DEF Held, FromRead
  <2> QED BY <1>1, <1>2, <2>1, <2>2 DEF Ahead
<1>4. h < QueueSize
  BY <1>2, OutIs DEF KeyInv
<1>5. \A i \in 1 .. h : (r + i - 1) % QueueSize = SlotAfter(i - 1)
  <2>1. SUFFICES ASSUME NEW i \in 1 .. h PROVE (r + i - 1) % QueueSize = SlotAfter(i - 1)
    OBVIOUS
  <2>2. r + i - 1 \in Nat /\ r + i - 1 < QueueSize + QueueSize /\ r + (i - 1) = r + i - 1
    BY <1>1, <1>2, <1>4, <2>1
  <2>3. CASE r + i - 1 < QueueSize
    BY <1>1, <1>2, <2>2, <2>3, ModWithin DEF SlotAfter
  <2>4. CASE ~(r + i - 1 < QueueSize)
    <3>1. (r + i - 1) % QueueSize = (r + i - 1) - QueueSize
      <4>1. PICK a \in Nat : a = r + i - 1
        BY <2>2
      <4>2. QueueSize <= a /\ a < QueueSize + QueueSize
        BY <1>2, <2>2, <2>4, <4>1
      <4> QED BY <1>2, <4>1, <4>2, ModPast
    <3> QED BY <1>1, <1>2, <2>2, <2>4, <3>1 DEF SlotAfter
  <2> QED BY <2>3, <2>4
<1>6. queued = [i \in 1 .. h |-> k_ring.slots[(r + i - 1) % QueueSize]]
  BY <1>1, <1>3 DEF Queued
<1>7. \A i \in 1 .. h : queued[i] = k_ring.slots[SlotAfter(i - 1)]
  BY <1>5, <1>6
<1>8. IsRing(queued) /\ Len(queued) = h
  <2>1. queued \in [1 .. h -> {queued[i] : i \in 1 .. h}]
    BY <1>6
  <2> QED BY <2>1, FunctionIsRing
<1>9. DOMAIN queued = 1 .. h
  BY <1>6
<1> QED BY <1>7, <1>8, <1>9

(* The characters taken out, and behind them those in the queue            *)
LEMMA OutJoined ==
    ASSUME KeyInv, NEW read, read = k_read, NEW n \in Nat, n = Len(k_read), NEW h \in Nat, h = Held,
           NEW queued, \A i \in 1 .. h : queued[i] = k_ring.slots[SlotAfter(i - 1)],
           NEW out, JoinedTo(read, n, queued, h, out)
    PROVE  \A i \in 1 .. n + h : out[i] = OutChar(i)
<1>1. /\ \A i \in 1 .. n : out[i] = read[i]
      /\ \A i \in 1 .. h : out[n + i] = queued[i]
  BY DEF JoinedTo
<1>2. SUFFICES ASSUME NEW i \in 1 .. n + h PROVE out[i] = OutChar(i)
  OBVIOUS
<1>3. CASE i <= n
  BY <1>1, <1>3 DEF OutChar
<1>4. CASE i > n
  <2>1. i - n \in 1 .. h /\ i = n + (i - n)
    BY <1>2, <1>4
  <2>2. PICK k \in 1 .. h : i = n + k
    BY <2>1
  <2>3. ~(i <= n) /\ i - (n + 1) = k - 1
    BY <2>2
  <2>4. OutChar(i) = k_ring.slots[SlotAfter(k - 1)]
    BY <2>3 DEF OutChar
  <2> QED BY <1>1, <2>2, <2>4
<1> QED BY <1>2, <1>3, <1>4

(* are what has been put in, one by one.                                   *)
LEMMA OutPlaces ==
    ASSUME KeyInv, NEW n \in Nat, n = Len(k_read), NEW h \in Nat, h = Held, NEW read, read = k_read,
           NEW queued, queued = Queued, NEW out, JoinedTo(read, n, queued, h, out)
    PROVE  \A i \in 1 .. n + h : out[i] = OutChar(i)
<1>1. \A i \in 1 .. h : queued[i] = k_ring.slots[SlotAfter(i - 1)]
  BY QueuedIs
<1> QED BY <1>1, OutJoined

(* They are one sequence.                                                  *)
IsOut(out) == out = k_read \o Queued

(* Its elements are the characters in their order.                         *)
LEMMA OutOfQueue ==
    ASSUME KeyInv, NEW out, IsOut(out), NEW len \in Nat, len = OutLen
    PROVE  /\ IsRing(out) /\ Len(out) = len /\ DOMAIN out = 1 .. len
           /\ \A i \in 1 .. len : out[i] = OutChar(i)
<1>1. PICK read, queued : read = k_read /\ queued = Queued
  OBVIOUS
<1>2. PICK n, h \in Nat : n = Len(read) /\ h = Held /\ len = n + h
  BY <1>1, OutIs DEF KeyInv
<1>3. IsRing(queued) /\ Len(queued) = h
  BY <1>1, <1>2, QueuedIs
<1>4. IsRing(read) /\ out = read \o queued
  BY <1>1 DEF KeyInv, KeyTypes, IsOut
<1>5. JoinedTo(read, n, queued, h, out)
  BY <1>2, <1>3, <1>4, JoinedAs
<1>6. IsRing(out) /\ Len(out) = len /\ DOMAIN out = 1 .. len
  BY <1>2, <1>5 DEF JoinedTo
<1>7. n \in Nat /\ h \in Nat /\ n = Len(k_read) /\ h = Held /\ read = k_read /\ queued = Queued
  BY <1>1, <1>2
<1>8. \A i \in 1 .. n + h : out[i] = OutChar(i)
  BY <1>5, <1>7, OutPlaces
<1> QED BY <1>2, <1>6, <1>8

(* Two sequences with the same elements are the same.                      *)
LEMMA SameElements ==
    ASSUME NEW a, IsRing(a), NEW b, IsRing(b), NEW n \in Nat, Len(a) = n, Len(b) = n,
           \A i \in 1 .. n : a[i] = b[i]
    PROVE  a = b
<1>1. PICK S : a \in Seq(S)
  BY DEF IsRing
<1>2. PICK T : b \in Seq(T)
  BY DEF IsRing
<1>3. a \in Seq(S \union T) /\ b \in Seq(S \union T)
  BY <1>1, <1>2
<1> QED BY <1>3, SeqEqual

(* What the thread has in hand, as a sequence                              *)
LEMMA InHandIs ==
    ASSUME KeyInv, NEW hand, hand = InHand
    PROVE  /\ ~HandFull => hand = << >>
           /\ HandFull => hand = << Hand >>
<1>1. k_thread.at \in KeySteps
  BY DEF KeyInv, KeyTypes
<1>2. CASE k_thread.at \in {"idle", "read"}
  <2>1. ~HandFull /\ ~ThreadAt("translate") /\ k_thread.at \notin {"next", "index", "store", "advance"}
    BY <1>2 DEF HandFull, ThreadAt
  <2> QED BY <2>1 DEF InHand
<1>3. CASE k_thread.at = "translate"
  <2>1. HandFull /\ ThreadAt("translate") /\ k_thread.at \notin {"next", "index", "store", "advance"}
    BY <1>3 DEF HandFull, ThreadAt
  <2> QED BY <2>1 DEF InHand, Hand
<1>4. CASE k_thread.at \in {"next", "index", "store", "advance"}
  <2>1. HandFull /\ ~ThreadAt("translate")
    BY <1>4 DEF HandFull, ThreadAt
  <2> QED BY <1>4, <2>1 DEF InHand, Hand
<1> QED BY <1>1, <1>2, <1>3, <1>4 DEF KeySteps

(* So the characters come out in order.                                    *)
LEMMA KeyInvInOrder == KeyInv => KeysInOrder
<1> SUFFICES ASSUME KeyInv PROVE KeysInOrder
  OBVIOUS
<1>1. PICK queued, out, hand, typed :
         queued = Queued /\ out = k_read \o Queued /\ hand = InHand /\ typed = k_true.typed
  OBVIOUS
<1>2. PICK h, n, len \in Nat : h = Held /\ n = Len(k_read) /\ len = OutLen /\ len = n + h
  BY OutIs DEF KeyInv
<1>3. /\ IsRing(out) /\ Len(out) = len /\ DOMAIN out = 1 .. len
      /\ \A i \in 1 .. len : out[i] = OutChar(i)
  BY <1>1, <1>2, OutOfQueue DEF IsOut
<1>4. /\ DOMAIN queued = 1 .. h
      /\ \A i \in 1 .. h : queued[i] = k_ring.slots[SlotAfter(i - 1)]
  BY <1>1, <1>2, QueuedIs
<1>5. ASSUME k_raced = {} PROVE out \o hand = typed
  <2>1. /\ IsRing(typed) /\ Len(typed) = IF HandFull THEN len + 1 ELSE len
        /\ \A i \in 1 .. len : typed[i] = OutChar(i)
        /\ HandFull => typed[len + 1] = Hand
    BY <1>1, <1>2, <1>5 DEF KeyInv, AsTyped
  <2>2. CASE ~HandFull
    <3>1. hand = << >>
      BY <1>1, <2>2, InHandIs
    <3>2. out \o hand = out
      <4>1. PICK S : out \in Seq(S)
        BY <1>3 DEF IsRing
      <4> QED BY <3>1, <4>1
    <3>3. Len(typed) = len /\ \A i \in 1 .. len : out[i] = typed[i]
      BY <1>3, <2>1, <2>2
    <3>4. out = typed
      BY <1>2, <1>3, <2>1, <3>3, SameElements
    <3> QED BY <3>2, <3>4
  <2>3. CASE HandFull
    <3>1. PICK char : char = Hand
      OBVIOUS
    <3>2. hand = << char >>
      BY <1>1, <2>3, <3>1, InHandIs
    <3>3. IsRing(hand) /\ Len(hand) = 1 /\ hand[1] = char
      <4>1. hand \in Seq({char}) /\ Len(hand) = 1 /\ hand[1] = char
        BY <3>2
      <4> QED BY <4>1 DEF IsRing
    <3>4. PICK all : all = out \o hand
      OBVIOUS
    <3>5. JoinedTo(out, len, hand, 1, all)
      BY <1>2, <1>3, <3>3, <3>4, JoinedAs
    <3>6. /\ IsRing(all) /\ Len(all) = len + 1 /\ (\A i \in 1 .. len : all[i] = out[i])
          /\ all[len + 1] = char
      BY <3>3, <3>5 DEF JoinedTo
    <3>7. Len(typed) = len + 1 /\ typed[len + 1] = char /\ IsRing(typed)
      BY <2>1, <2>3, <3>1
    <3>8. \A i \in 1 .. len + 1 : all[i] = typed[i]
      <4>1. \A i \in 1 .. len + 1 : i \in 1 .. len \/ i = len + 1
        BY <1>2
      <4> QED BY <1>3, <2>1, <3>6, <3>7, <4>1
    <3>9. len + 1 \in Nat
      BY <1>2
    <3>10. all = typed
      BY <3>6, <3>7, <3>8, <3>9, SameElements
    <3> QED BY <3>4, <3>10
  <2> QED BY <2>2, <2>3
<1>6. ASSUME "doubled" \notin k_raced
      PROVE  \A i, j \in DOMAIN out : out[i].id = out[j].id => i = j
  <2>1. \A i, j \in 1 .. len : OutChar(i).id = OutChar(j).id => i = j
    BY <1>2, <1>6 DEF KeyInv, OnlyOnce
  <2> QED BY <1>3, <2>1
<1>7. \A i \in DOMAIN queued : queued[i].id \in 1 .. k_true.keys
  <2>1. SUFFICES ASSUME NEW i \in 1 .. h PROVE queued[i].id \in 1 .. k_true.keys
    BY <1>4
  <2>2. n + i \in 1 .. OutLen /\ ~(n + i <= n) /\ n + i - (n + 1) = i - 1
    BY <1>2
  <2>3. OutChar(n + i) = k_ring.slots[SlotAfter(i - 1)]
    BY <1>2, <2>2 DEF OutChar
  <2>4. OutChar(n + i).id \in 1 .. k_true.keys
    BY <2>2 DEF KeyInv, OfKeys
  <2> QED BY <1>4, <2>3, <2>4
<1>8. k_raced = {} => k_read \o Queued \o InHand = k_true.typed
  BY <1>1, <1>5
<1>9. "doubled" \notin k_raced =>
          \A i, j \in DOMAIN (k_read \o Queued) :
             (k_read \o Queued)[i].id = (k_read \o Queued)[j].id => i = j
  BY <1>1, <1>6
<1>10. \A i \in DOMAIN Queued : Queued[i].id \in 1 .. k_true.keys
  BY <1>1, <1>7
<1> QED BY <1>8, <1>9, <1>10, Zenon DEF KeysInOrder

-----------------------------------------------------------------------------
(* The rings of the USB storage device                                     *)

Stages == {"cbw", "data", "csw"}

(* A ring: the TRBs up to the enqueue index have the cycle bit of this     *)
(* round, those after it that of the one before; the link has that of this *)
(* round as soon as the enqueue index has come to it.                      *)
RingOfTrbs(ring) ==
    /\ {"trbs", "enqueue", "cycle"} \subseteq DOMAIN ring
    /\ ring.enqueue \in 0 .. LinkIndex /\ ring.cycle \in {0, 1} /\ DOMAIN ring.trbs = 0 .. LinkIndex
    /\ \A i \in 0 .. LinkIndex - 1 :
          /\ ring.trbs[i].kind # "link"
          /\ ring.trbs[i].cycle = IF i < ring.enqueue THEN ring.cycle ELSE 1 - ring.cycle
    /\ ring.trbs[LinkIndex].kind = "link"
    /\ ring.enqueue = LinkIndex => ring.trbs[LinkIndex].cycle = ring.cycle

(* The controller is at a place of this round; at the first one it may     *)
(* still be at the link that leads there.                                  *)
ControllerAt(ring, hc, place) ==
    \/ hc.at = place /\ hc.cycle = ring.cycle
    \/ /\ place = 0 /\ hc.at = LinkIndex /\ hc.cycle = 1 - ring.cycle
       /\ ring.trbs[LinkIndex].cycle = 1 - ring.cycle

(* Everything posted in one direction has been taken.                      *)
AllTaken(d) == ControllerAt(u_rings[d], u_hc[d], u_rings[d].enqueue)
AtRest(d) == AllTaken(d) /\ u_rings[d].enqueue < LinkIndex

BetweenCalls ==
    /\ u_call = NoUsbCall /\ u_events = << >> /\ u_device.phase = "cbw"
    /\ \A d \in Directions : AtRest(d)

(* One TRB is there that the controller has not taken, of the stage the    *)
(* call is at, and that is what the device expects;                        *)
PartPosted(d) ==
    /\ u_events = << >>
    /\ u_rings[d].enqueue > 0 /\ ControllerAt(u_rings[d], u_hc[d], u_rings[d].enqueue - 1)
    /\ u_rings[d].trbs[u_rings[d].enqueue - 1].kind = u_call.at
    /\ u_device.phase = u_call.at
    /\ u_call.at # "cbw" => u_device.cbw.op = u_call.op

(* or it has been taken, its completion is there, and the device expects   *)
(* what comes next.                                                        *)
PartTaken(d) ==
    /\ u_events = << TRUE >> /\ AllTaken(d)
    /\ u_device.phase = IF u_call.at = "csw" THEN "cbw" ELSE AfterStage(u_call)
    /\ u_call.at # "csw" => u_device.cbw.op = u_call.op

Underway ==
    /\ {"op", "at"} \subseteq DOMAIN u_call
    /\ u_call.op \in {"read", "write", "flush"} /\ u_call.at \in Stages
    /\ u_call.op = "flush" => u_call.at # "data"
    /\ u_cbw.op = u_call.op
    /\ \A d \in Directions : d # DirectionOf(u_call, u_call.at) => AtRest(d)
    /\ \A d \in Directions : d = DirectionOf(u_call, u_call.at) => PartPosted(d) \/ PartTaken(d)

(* Driver, controller and device are in step,                              *)
UsbInStep ==
    /\ DOMAIN u_rings = Directions /\ DOMAIN u_hc = Directions
    /\ {"phase", "cbw", "ok"} \subseteq DOMAIN u_device
    /\ \A d \in Directions :
          RingOfTrbs(u_rings[d]) /\ {"at", "cycle", "halted"} \subseteq DOMAIN u_hc[d] /\ ~u_hc[d].halted
    /\ BetweenCalls \/ Underway

(* as long as nothing has failed.                                          *)
UsbInv ==
    /\ {"calls", "failures"} \subseteq DOMAIN u_counts /\ u_counts.failures \in Nat
    /\ u_counts.failures = 0 => UsbInStep

(* A TRB is put in the ring: the controller is one place behind then.      *)
LEMMA TrbEnqueued ==
    ASSUME NEW ring, RingOfTrbs(ring), ring.enqueue < LinkIndex, NEW kind \in Stages,
           NEW hc, ControllerAt(ring, hc, ring.enqueue), NEW new, new = Enqueued(ring, kind)
    PROVE  /\ RingOfTrbs(new)
           /\ new.enqueue = ring.enqueue + 1 /\ new.enqueue > 0
           /\ ControllerAt(new, hc, new.enqueue - 1)
           /\ new.trbs[new.enqueue - 1].kind = kind
<1> DEFINE trbs == [i \in 0 .. LinkIndex |->
                       IF i = ring.enqueue THEN [kind |-> kind, cycle |-> ring.cycle]
                       ELSE IF i = LinkIndex /\ ring.enqueue = LinkIndex - 1
                       THEN [kind |-> "link", cycle |-> ring.cycle]
                       ELSE ring.trbs[i]]
<1>1. /\ {"trbs", "enqueue", "cycle"} \subseteq DOMAIN new
      /\ new.trbs = trbs /\ new.enqueue = ring.enqueue + 1 /\ new.cycle = ring.cycle
  BY DEF Enqueued, RingOfTrbs
<1>2. PICK e, c : e = ring.enqueue /\ c = ring.cycle
  OBVIOUS
<1>3. LinkIndex \in Nat /\ LinkIndex > 1 /\ e \in 0 .. LinkIndex - 1 /\ c \in {0, 1}
  BY <1>2, UsbStorageAssumption DEF RingOfTrbs
<1>4. kind # "link" /\ kind \in Stages
  BY DEF Stages
<1>5. /\ DOMAIN trbs = 0 .. LinkIndex
      /\ trbs[e].kind = kind /\ trbs[e].cycle = c
      /\ \A i \in 0 .. LinkIndex - 1 : i # e => trbs[i] = ring.trbs[i]
      /\ e = LinkIndex - 1 => trbs[LinkIndex].kind = "link" /\ trbs[LinkIndex].cycle = c
      /\ e # LinkIndex - 1 => trbs[LinkIndex] = ring.trbs[LinkIndex]
  BY <1>2, <1>3
<1> HIDE DEF trbs
<1>6. \A i \in 0 .. LinkIndex - 1 :
         /\ trbs[i].kind # "link"
         /\ trbs[i].cycle = IF i < e + 1 THEN c ELSE 1 - c
  <2>1. \A i \in 0 .. LinkIndex - 1 :
           /\ ring.trbs[i].kind # "link"
           /\ ring.trbs[i].cycle = IF i < e THEN c ELSE 1 - c
    BY <1>2 DEF RingOfTrbs
  <2> QED BY <1>3, <1>4, <1>5, <2>1
<1>7. /\ trbs[LinkIndex].kind = "link"
      /\ e + 1 = LinkIndex => trbs[LinkIndex].cycle = c
  <2>1. ring.trbs[LinkIndex].kind = "link"
    BY DEF RingOfTrbs
  <2> QED BY <1>3, <1>5, <2>1
<1>8. RingOfTrbs(new)
  BY <1>1, <1>2, <1>3, <1>5, <1>6, <1>7 DEF RingOfTrbs
<1>9. new.enqueue - 1 = e /\ new.enqueue > 0
  BY <1>1, <1>2, <1>3
<1>10. ControllerAt(new, hc, e)
  <2>1. ControllerAt(ring, hc, e)
    BY <1>2
  <2>2. e = 0 => new.trbs[LinkIndex] = ring.trbs[LinkIndex]
    BY <1>1, <1>3, <1>5
  <2> QED BY <1>1, <2>1, <2>2 DEF ControllerAt
<1> QED BY <1>1, <1>2, <1>5, <1>8, <1>9, <1>10

(* The ring begins again, in a round with the other cycle bit.             *)
LEMMA TrbWrapped ==
    ASSUME NEW ring, RingOfTrbs(ring), NEW hc, ControllerAt(ring, hc, ring.enqueue),
           NEW new, new = Wrapped(ring)
    PROVE  /\ RingOfTrbs(new) /\ new.enqueue < LinkIndex
           /\ ControllerAt(new, hc, new.enqueue)
<1>1. LinkIndex \in Nat /\ LinkIndex > 1 /\ ring.enqueue \in 0 .. LinkIndex /\ ring.cycle \in {0, 1}
  BY UsbStorageAssumption DEF RingOfTrbs
<1>2. CASE ring.enqueue # LinkIndex
  <2>1. new = ring
    BY <1>2 DEF Wrapped
  <2> QED BY <1>1, <1>2, <2>1
<1>3. CASE ring.enqueue = LinkIndex
  <2>1. new = [ring EXCEPT !.enqueue = 0, !.cycle = 1 - @]
    BY <1>3 DEF Wrapped
  <2>2. /\ {"trbs", "enqueue", "cycle"} \subseteq DOMAIN new
        /\ new.trbs = ring.trbs /\ new.enqueue = 0 /\ new.cycle = 1 - ring.cycle
    BY <2>1 DEF RingOfTrbs
  <2>3. PICK c, trbs : c = ring.cycle /\ trbs = ring.trbs
    OBVIOUS
  <2>4. /\ DOMAIN trbs = 0 .. LinkIndex
        /\ \A i \in 0 .. LinkIndex - 1 : trbs[i].kind # "link" /\ trbs[i].cycle = c
        /\ trbs[LinkIndex].kind = "link" /\ trbs[LinkIndex].cycle = c
    BY <1>1, <1>3, <2>3 DEF RingOfTrbs
  <2>5. 1 - (1 - c) = c /\ 1 - c \in {0, 1}
    BY <1>1, <2>3
  <2>6. RingOfTrbs(new)
    BY <1>1, <2>2, <2>3, <2>4, <2>5 DEF RingOfTrbs
  <2>7. hc.at = LinkIndex /\ hc.cycle = c
    BY <1>1, <1>3, <2>3 DEF ControllerAt
  <2>8. ControllerAt(new, hc, 0)
    BY <2>2, <2>3, <2>4, <2>5, <2>7 DEF ControllerAt
  <2> QED BY <1>1, <2>2, <2>6, <2>8
<1> QED BY <1>2, <1>3

(* Where the controller looks next                                         *)
LEMMA PositionIs ==
    ASSUME NEW d, RingOfTrbs(u_rings[d]), NEW place \in 0 .. LinkIndex - 1,
           ControllerAt(u_rings[d], u_hc[d], place), {"at", "cycle"} \subseteq DOMAIN u_hc[d]
    PROVE  Position(d).at = place /\ Position(d).cycle = u_rings[d].cycle
<1>1. PICK ring, hc : ring = u_rings[d] /\ hc = u_hc[d]
  OBVIOUS
<1>2. LinkIndex \in Nat /\ LinkIndex > 1 /\ ring.cycle \in {0, 1}
  BY <1>1, UsbStorageAssumption DEF RingOfTrbs
<1>3. CASE hc.at = place /\ hc.cycle = ring.cycle
  <2>1. ~AtLink(d)
    BY <1>1, <1>3 DEF AtLink, RingOfTrbs
  <2> QED BY <1>1, <1>3, <2>1 DEF Position
<1>4. CASE /\ place = 0 /\ hc.at = LinkIndex /\ hc.cycle = 1 - ring.cycle
           /\ ring.trbs[LinkIndex].cycle = 1 - ring.cycle
  <2>1. AtLink(d)
    BY <1>1, <1>4 DEF AtLink, RingOfTrbs
  <2>2. 1 - (1 - ring.cycle) = ring.cycle
    BY <1>2
  <2>3. Position(d) = [hc EXCEPT !.at = 0, !.cycle = 1 - @]
    BY <1>1, <2>1 DEF Position
  <2>4. Position(d).at = 0 /\ Position(d).cycle = 1 - hc.cycle
    BY <1>1, <2>3
  <2> QED BY <1>1, <1>4, <2>2, <2>4
<1> QED BY <1>1, <1>3, <1>4 DEF ControllerAt

(* It finds nothing when all is taken.                                     *)
LEMMA NothingReady ==
    ASSUME NEW d, RingOfTrbs(u_rings[d]), AllTaken(d), {"at", "cycle"} \subseteq DOMAIN u_hc[d]
    PROVE  ~Ready(d)
<1>1. PICK ring, hc : ring = u_rings[d] /\ hc = u_hc[d]
  OBVIOUS
<1>2. LinkIndex \in Nat /\ LinkIndex > 1 /\ ring.cycle \in {0, 1} /\ ring.enqueue \in 0 .. LinkIndex
  BY <1>1, UsbStorageAssumption DEF RingOfTrbs
<1>3. CASE ring.enqueue < LinkIndex
  <2>1. Position(d).at = ring.enqueue /\ Position(d).cycle = ring.cycle
    BY <1>1, <1>2, <1>3, PositionIs DEF AllTaken
  <2>2. ring.trbs[ring.enqueue].cycle = 1 - ring.cycle
    BY <1>1, <1>2, <1>3 DEF RingOfTrbs
  <2> QED BY <1>1, <1>2, <2>1, <2>2 DEF Ready
<1>4. CASE ring.enqueue = LinkIndex
  <2>1. hc.at = LinkIndex /\ hc.cycle = ring.cycle
    BY <1>1, <1>2, <1>4 DEF AllTaken, ControllerAt
  <2>2. AtLink(d)
    BY <1>1, <1>4, <2>1 DEF AtLink, RingOfTrbs
  <2>3. Position(d) = [hc EXCEPT !.at = 0, !.cycle = 1 - @]
    BY <1>1, <2>2 DEF Position
  <2>4. Position(d).at = 0 /\ Position(d).cycle = 1 - ring.cycle
    BY <1>1, <2>1, <2>3
  <2>5. ring.trbs[0].cycle = ring.cycle
    BY <1>1, <1>2, <1>4 DEF RingOfTrbs
  <2> QED BY <1>1, <1>2, <2>4, <2>5 DEF Ready
<1> QED BY <1>2, <1>3, <1>4

(* The rings between two parts: all is taken, and there is room.           *)
RingsAtRest(rings) ==
    /\ DOMAIN rings = Directions
    /\ \A d \in Directions :
          /\ RingOfTrbs(rings[d]) /\ rings[d].enqueue < LinkIndex
          /\ ControllerAt(rings[d], u_hc[d], rings[d].enqueue)

ControllersRun ==
    /\ DOMAIN u_hc = Directions
    /\ \A d \in Directions : {"at", "cycle", "halted"} \subseteq DOMAIN u_hc[d] /\ ~u_hc[d].halted

(* The next part is posted: it is what the device expects.                 *)
LEMMA PostKeeps ==
    ASSUME NEW rings, RingsAtRest(rings), ControllersRun, UNCHANGED <<u_hc, u_device>>,
           NEW call, {"op", "at"} \subseteq DOMAIN call, call.op \in {"read", "write", "flush"},
           call.at \in Stages, call.op = "flush" => call.at # "data",
           u_call' = call, u_events' = << >>, u_cbw'.op = call.op,
           NEW e \in Directions, e = DirectionOf(call, call.at),
           u_rings' = [rings EXCEPT ![e] = Enqueued(@, call.at)],
           {"phase", "cbw", "ok"} \subseteq DOMAIN u_device, u_device.phase = call.at,
           call.at # "cbw" => u_device.cbw.op = call.op
    PROVE  UsbInStep'
<1>1. PICK ring, hc, kind, new :
         ring = rings[e] /\ hc = u_hc[e] /\ kind = call.at /\ new = Enqueued(ring, kind)
  OBVIOUS
<1>2. /\ RingOfTrbs(new)
      /\ new.enqueue = ring.enqueue + 1 /\ new.enqueue > 0
      /\ ControllerAt(new, hc, new.enqueue - 1)
      /\ new.trbs[new.enqueue - 1].kind = kind
  <2>1. /\ RingOfTrbs(ring) /\ ring.enqueue < LinkIndex
        /\ ControllerAt(ring, hc, ring.enqueue)
    BY <1>1 DEF RingsAtRest
  <2>2. kind \in Stages /\ new = Enqueued(ring, kind)
    BY <1>1
  <2> QED BY <2>1, <2>2, TrbEnqueued, ZenonT(30)
<1>3. /\ DOMAIN u_rings' = Directions /\ u_rings'[e] = new
      /\ \A d \in Directions : d # e => u_rings'[d] = rings[d]
  BY <1>1 DEF RingsAtRest
<1>4. \A d \in Directions : RingOfTrbs(u_rings'[d])
  BY <1>2, <1>3 DEF RingsAtRest
<1>5. \A d \in Directions : d # e => AtRest(d)'
  BY <1>3 DEF RingsAtRest, AtRest, AllTaken
<1>6. PartPosted(e)'
  BY <1>1, <1>2, <1>3 DEF PartPosted
<1>7. e = DirectionOf(u_call', u_call'.at)
  OBVIOUS
<1>8. Underway'
  BY <1>5, <1>6, <1>7 DEF Underway, DirectionOf
<1> QED BY <1>3, <1>4, <1>8 DEF UsbInStep, ControllersRun

(* The call returns.                                                       *)
LEMMA ReturnKeeps ==
    ASSUME NEW rings, RingsAtRest(rings), ControllersRun, UNCHANGED <<u_hc, u_device>>,
           u_call' = NoUsbCall, u_events' = << >>, u_rings' = rings,
           {"phase", "cbw", "ok"} \subseteq DOMAIN u_device, u_device.phase = "cbw"
    PROVE  UsbInStep'
<1>1. BetweenCalls'
  BY DEF BetweenCalls, AtRest, AllTaken, RingsAtRest
<1> QED BY <1>1 DEF UsbInStep, RingsAtRest, ControllersRun

(* The completion of a part has been taken: the ring begins again if it    *)
(* has to.                                                                 *)
LEMMA WrapRests ==
    ASSUME UsbInStep, Underway, NEW d \in Directions, d = DirectionOf(u_call, u_call.at),
           PartTaken(d), NEW rings, rings = [u_rings EXCEPT ![d] = Wrapped(@)]
    PROVE  RingsAtRest(rings)
<1>1. PICK ring, hc, new : ring = u_rings[d] /\ hc = u_hc[d] /\ new = Wrapped(ring)
  OBVIOUS
<1>2. RingOfTrbs(new) /\ new.enqueue < LinkIndex /\ ControllerAt(new, hc, new.enqueue)
  <2>1. RingOfTrbs(ring) /\ ControllerAt(ring, hc, ring.enqueue)
    BY <1>1 DEF UsbInStep, PartTaken, AllTaken
  <2> QED BY <1>1, <2>1, TrbWrapped
<1>3. /\ DOMAIN rings = Directions /\ rings[d] = new
      /\ \A e \in Directions : e # d => rings[e] = u_rings[e]
  BY <1>1 DEF UsbInStep
<1>4. \A e \in Directions : e # d => AtRest(e)
  BY DEF Underway
<1>5. \A e \in Directions : RingOfTrbs(u_rings[e])
  BY DEF UsbInStep
<1> QED BY <1>1, <1>2, <1>3, <1>4, <1>5 DEF RingsAtRest, AtRest, AllTaken

(* Between calls the rings are at rest.                                    *)
LEMMA CallsBegin ==
    ASSUME UsbInStep, u_call = NoUsbCall
    PROVE  BetweenCalls /\ RingsAtRest(u_rings) /\ ControllersRun
<1>1. ~Underway
  BY DEF Underway, NoUsbCall
<1>2. BetweenCalls
  BY <1>1 DEF UsbInStep
<1>3. RingsAtRest(u_rings)
  BY <1>2 DEF UsbInStep, BetweenCalls, RingsAtRest, AtRest, AllTaken
<1> QED BY <1>2, <1>3 DEF UsbInStep, ControllersRun

(* A call begins.                                                          *)
LEMMA UsbCallKeeps ==
    ASSUME UsbInv, NEW op \in {"read", "write", "flush"}, NEW lba, NEW count, NEW data,
           UsbCall(op, lba, count, data)
    PROVE  UsbInv'
<1> DEFINE begun == [op |-> op, first |-> lba, lba |-> lba, left |-> count, done |-> 0,
                     data |-> data, at |-> "cbw"]
<1>1. /\ u_call = NoUsbCall
      /\ u_counts' = [u_counts EXCEPT !.calls = @ + 1]
      /\ BeginPart(begun)
      /\ UNCHANGED <<u_disk, u_hc, u_device, u_events, u_answer, u_expected>>
  BY Zenon DEF UsbCall
<1>2. {"calls", "failures"} \subseteq DOMAIN u_counts' /\ u_counts'.failures = u_counts.failures
  BY <1>1 DEF UsbInv
<1>3. ASSUME u_counts'.failures = 0 PROVE UsbInStep'
  <2>1. UsbInStep
    BY <1>2, <1>3 DEF UsbInv
  <2>2. BetweenCalls /\ RingsAtRest(u_rings) /\ ControllersRun
    BY <1>1, <2>1, CallsBegin
  <2>3. PICK call : call = [begun EXCEPT !.at = "cbw"]
    OBVIOUS
  <2>4. {"op", "at"} \subseteq DOMAIN call /\ call.op = op /\ call.at = "cbw"
    BY <2>3
  <2>5. u_cbw'.op = op /\ PostBulk(call)
    BY <1>1, <2>3 DEF BeginPart
  <2>6. u_call' = call /\ u_rings' = [u_rings EXCEPT !["out"] = Enqueued(@, call.at)]
    BY <2>4, <2>5 DEF PostBulk, DirectionOf
  <2>7. u_events' = << >> /\ u_device.phase = "cbw" /\ {"phase", "cbw", "ok"} \subseteq DOMAIN u_device
    BY <1>1, <2>1, <2>2 DEF BetweenCalls, UsbInStep
  <2>8. PICK rings : rings = u_rings
    OBVIOUS
  <2>9. RingsAtRest(rings) /\ u_rings' = [rings EXCEPT !["out"] = Enqueued(@, call.at)]
    BY <2>2, <2>6, <2>8
  <2>10. "out" \in Directions /\ "out" = DirectionOf(call, call.at) /\ call.at \in Stages
    BY <2>4 DEF DirectionOf, Directions, Stages
  <2> QED BY <1>1, <2>2, <2>4, <2>5, <2>6, <2>7, <2>9, <2>10, PostKeeps, ZenonT(30)
<1> QED BY <1>2, <1>3 DEF UsbInv

(* A sequence of one                                                       *)
LEMMA OnlyOne ==
    ASSUME NEW x
    PROVE  Head(<< x >>) = x /\ Tail(<< x >>) = << >>
  OBVIOUS

(* A completion is there: the part has gone well.                          *)
LEMMA CompletionIsThere ==
    ASSUME UsbInStep, u_call # NoUsbCall, u_events # << >>
    PROVE  /\ Underway /\ ControllersRun /\ Head(u_events) = TRUE /\ Tail(u_events) = << >>
           /\ DirectionOf(u_call, u_call.at) \in Directions
           /\ PartTaken(DirectionOf(u_call, u_call.at))
<1>1. Underway
  BY DEF UsbInStep, BetweenCalls
<1>2. DirectionOf(u_call, u_call.at) \in Directions
  BY DEF DirectionOf, Directions
<1>3. PartTaken(DirectionOf(u_call, u_call.at))
  BY <1>1, <1>2 DEF Underway, PartPosted
<1>4. Head(u_events) = TRUE /\ Tail(u_events) = << >>
  <2>1. u_events = << TRUE >>
    BY <1>3, Zenon DEF PartTaken
  <2> QED BY <2>1, OnlyOne, Zenon
<1> QED BY <1>1, <1>2, <1>3, <1>4 DEF UsbInStep, ControllersRun

(* A part has ended well and the next one is posted.                       *)
LEMMA UsbNextStageKeeps ==
    ASSUME UsbInv, NextStage
    PROVE  UsbInv'
<1>1. /\ u_call # NoUsbCall /\ u_call.at # "csw" /\ u_events # << >>
      /\ u_events' = Tail(u_events)
      /\ UNCHANGED <<u_disk, u_sector, u_cbw, u_csw, u_hc, u_device, u_answer, u_expected, u_counts>>
      /\ \E d \in {DirectionOf(u_call, u_call.at)}, next \in {[u_call EXCEPT !.at = AfterStage(u_call)]} :
         \E rings \in {[u_rings EXCEPT ![d] = Wrapped(@)]}, e \in {DirectionOf(next, next.at)} :
            u_rings' = [rings EXCEPT ![e] = Enqueued(@, next.at)] /\ u_call' = next
  BY Zenon DEF NextStage
<1>2. {"calls", "failures"} \subseteq DOMAIN u_counts' /\ u_counts'.failures = u_counts.failures
  BY <1>1 DEF UsbInv
<1>3. ASSUME u_counts'.failures = 0 PROVE UsbInStep'
  <2>1. UsbInStep
    BY <1>2, <1>3 DEF UsbInv
  <2>2. PICK d \in {DirectionOf(u_call, u_call.at)}, call \in {[u_call EXCEPT !.at = AfterStage(u_call)]} :
        \E rings \in {[u_rings EXCEPT ![d] = Wrapped(@)]}, e \in {DirectionOf(call, call.at)} :
            u_rings' = [rings EXCEPT ![e] = Enqueued(@, call.at)] /\ u_call' = call
    BY <1>1
  <2>3. PICK rings \in {[u_rings EXCEPT ![d] = Wrapped(@)]}, e \in {DirectionOf(call, call.at)} :
            u_rings' = [rings EXCEPT ![e] = Enqueued(@, call.at)] /\ u_call' = call
    BY <2>2
  <2>4. /\ Underway /\ ControllersRun /\ Tail(u_events) = << >>
        /\ d \in Directions /\ d = DirectionOf(u_call, u_call.at) /\ PartTaken(d)
    BY <1>1, <2>1, <2>2, CompletionIsThere
  <2>5. RingsAtRest(rings)
    BY <2>1, <2>3, <2>4, WrapRests
  <2>6. /\ {"op", "at"} \subseteq DOMAIN call /\ call.op = u_call.op /\ call.at = AfterStage(u_call)
    BY <2>2, <2>4 DEF Underway
  <2>7. /\ call.op \in {"read", "write", "flush"} /\ call.at \in Stages
        /\ call.op = "flush" => call.at # "data"
        /\ u_cbw.op = call.op /\ u_device.phase = call.at /\ call.at # "cbw"
        /\ u_device.cbw.op = call.op
    BY <1>1, <2>4, <2>6 DEF Underway, PartTaken, AfterStage, Stages
  <2>8. e \in Directions /\ e = DirectionOf(call, call.at)
    BY <2>3 DEF DirectionOf, Directions
  <2>9. u_events' = << >> /\ u_cbw'.op = call.op /\ {"phase", "cbw", "ok"} \subseteq DOMAIN u_device
    BY <1>1, <2>1, <2>4, <2>7 DEF UsbInStep
  <2> QED BY <1>1, <2>3, <2>4, <2>5, <2>6, <2>7, <2>8, <2>9, PostKeeps
<1> QED BY <1>2, <1>3 DEF UsbInv

(* The status block is there.                                              *)
LEMMA UsbStatusKeeps ==
    ASSUME UsbInv, Status
    PROVE  UsbInv'
<1>1. PICK served :
         /\ served = [u_call EXCEPT !.lba = @ + UsbPart(u_call), !.left = @ - UsbPart(u_call),
                                    !.done = @ + UsbPart(u_call),
                                    !.data = IF u_call.op = "read" THEN @ \o u_sector ELSE @]
  OBVIOUS
<1>2. PICK rings : rings = [u_rings EXCEPT !["in"] = Wrapped(@)]
  OBVIOUS
<1>3. /\ u_call # NoUsbCall /\ u_call.at = "csw" /\ u_events # << >>
      /\ u_events' = Tail(u_events)
      /\ UNCHANGED <<u_disk, u_hc, u_device, u_counts>>
  BY Zenon DEF Status
<1>4. \/ /\ u_cbw' = [op |-> served.op, lba |-> served.lba, count |-> UsbPart(served)]
         /\ u_rings' = [rings EXCEPT !["out"] = Enqueued(@, "cbw")]
         /\ u_call' = [served EXCEPT !.at = "cbw"]
      \/ u_call' = NoUsbCall /\ u_rings' = rings
  BY <1>1, <1>2, Zenon DEF Status, UsbFinish
<1>5. {"calls", "failures"} \subseteq DOMAIN u_counts' /\ u_counts'.failures = u_counts.failures
  BY <1>3 DEF UsbInv
<1>6. ASSUME u_counts'.failures = 0 PROVE UsbInStep'
  <2>1. UsbInStep
    BY <1>5, <1>6 DEF UsbInv
  <2>2. /\ Underway /\ ControllersRun /\ Tail(u_events) = << >>
        /\ "in" \in Directions /\ "in" = DirectionOf(u_call, u_call.at) /\ PartTaken("in")
    <3>1. DirectionOf(u_call, u_call.at) = "in"
      BY <1>3 DEF DirectionOf
    <3> QED BY <1>3, <2>1, <3>1, CompletionIsThere
  <2>3. RingsAtRest(rings)
    BY <1>2, <2>1, <2>2, WrapRests
  <2>4. /\ u_events' = << >> /\ {"phase", "cbw", "ok"} \subseteq DOMAIN u_device
        /\ u_device.phase = "cbw"
    BY <1>3, <2>1, <2>2 DEF UsbInStep, PartTaken
  <2>5. CASE u_call' = NoUsbCall /\ u_rings' = rings
    BY <1>3, <2>2, <2>3, <2>4, <2>5, ReturnKeeps
  <2>6. CASE /\ u_cbw' = [op |-> served.op, lba |-> served.lba, count |-> UsbPart(served)]
             /\ u_rings' = [rings EXCEPT !["out"] = Enqueued(@, "cbw")]
             /\ u_call' = [served EXCEPT !.at = "cbw"]
    <3>1. PICK call : call = [served EXCEPT !.at = "cbw"]
      OBVIOUS
    <3>2. {"op", "at"} \subseteq DOMAIN served /\ served.op = u_call.op
      BY <1>1, <2>2 DEF Underway
    <3>3. {"op", "at"} \subseteq DOMAIN call /\ call.op = u_call.op /\ call.at = "cbw"
      BY <3>1, <3>2
    <3>4. call.op \in {"read", "write", "flush"} /\ call.at \in Stages /\ u_cbw'.op = call.op
      BY <2>2, <2>6, <3>2, <3>3 DEF Underway, Stages
    <3>5. u_call' = call /\ u_rings' = [rings EXCEPT !["out"] = Enqueued(@, call.at)]
      BY <2>6, <3>1, <3>3
    <3>6. "out" \in Directions /\ "out" = DirectionOf(call, call.at)
      BY <3>3 DEF Directions, DirectionOf
    <3> QED BY <1>3, <2>2, <2>3, <2>4, <3>3, <3>4, <3>5, <3>6, PostKeeps
  <2> QED BY <1>4, <2>5, <2>6
<1> QED BY <1>5, <1>6 DEF UsbInv

(* Nothing fails as long as nothing has failed.                            *)
LEMMA UsbFailuresKeep ==
    ASSUME UsbInv, TransferFails \/ GiveUp
    PROVE  UsbInv'
<1>1. CASE TransferFails
  <2>1. u_call # NoUsbCall /\ u_events # << >> /\ ~Head(u_events) /\ UNCHANGED u_counts
    BY <1>1 DEF TransferFails
  <2>2. ASSUME u_counts.failures = 0 PROVE FALSE
    <3>1. UsbInStep
      BY <2>2 DEF UsbInv
    <3>2. Head(u_events) = TRUE
      BY <2>1, <3>1, CompletionIsThere
    <3> QED BY <2>1, <3>2, Zenon
  <2> QED BY <2>1, <2>2 DEF UsbInv
<1>2. CASE GiveUp
  <2>1. u_counts' = [u_counts EXCEPT !.failures = @ + 1]
    BY <1>2 DEF GiveUp
  <2>2. {"calls", "failures"} \subseteq DOMAIN u_counts' /\ u_counts'.failures = u_counts.failures + 1
    BY <2>1 DEF UsbInv
  <2>3. u_counts.failures \in Nat
    BY DEF UsbInv
  <2> QED BY <2>2, <2>3 DEF UsbInv
<1> QED BY <1>1, <1>2

(* The controller takes a TRB: it is the one posted, and the device        *)
(* expects it.                                                             *)
LEMMA ReadyIsPosted ==
    ASSUME UsbInStep, NEW d \in Directions, Ready(d)
    PROVE  Underway /\ d = DirectionOf(u_call, u_call.at) /\ PartPosted(d)
<1>1. RingOfTrbs(u_rings[d]) /\ {"at", "cycle"} \subseteq DOMAIN u_hc[d]
  BY DEF UsbInStep
<1>2. ~AllTaken(d)
  BY <1>1, NothingReady
<1>3. Underway
  BY <1>2 DEF UsbInStep, BetweenCalls, AtRest
<1>4. d = DirectionOf(u_call, u_call.at)
  BY <1>2, <1>3 DEF Underway, AtRest
<1>5. PartPosted(d)
  BY <1>2, <1>3, <1>4 DEF Underway, PartTaken
<1> QED BY <1>3, <1>4, <1>5

(* The device takes it as the part it expects.                             *)
LEMMA UsbTransferKeeps ==
    ASSUME UsbInv, NEW d \in Directions, NEW refuse \in BOOLEAN, Transfer(d, refuse)
    PROVE  UsbInv'
<1>1. PICK kind : kind = u_rings[d].trbs[Position(d).at].kind
  OBVIOUS
<1>2. /\ Ready(d)
      /\ IF Expected(d, kind)
         THEN Moves(kind, refuse) /\ u_events' = Append(u_events, TRUE)
         ELSE u_events' = Append(u_events, FALSE) /\ UNCHANGED <<u_disk, u_sector, u_csw, u_device>>
      /\ u_hc' = [u_hc EXCEPT ![d] = [at |-> Position(d).at + 1, cycle |-> Position(d).cycle,
                                      halted |-> ~Expected(d, kind)]]
      /\ u_counts' = [u_counts EXCEPT !.failures = IF refuse THEN @ + 1 ELSE @]
      /\ UNCHANGED <<u_cbw, u_rings, u_call, u_answer, u_expected>>
  BY <1>1, Zenon DEF Transfer
<1>3. {"calls", "failures"} \subseteq DOMAIN u_counts' /\ u_counts'.failures \in Nat
  BY <1>2 DEF UsbInv
<1>4. u_counts'.failures = 0 => u_counts.failures = 0
  BY <1>2 DEF UsbInv
<1>5. ASSUME u_counts'.failures = 0 PROVE UsbInStep'
  <2>1. UsbInStep
    BY <1>4, <1>5 DEF UsbInv
  <2>2. Underway /\ d = DirectionOf(u_call, u_call.at) /\ PartPosted(d)
    BY <1>2, <2>1, ReadyIsPosted
  <2>3. PICK ring, hc : ring = u_rings[d] /\ hc = u_hc[d]
    OBVIOUS
  <2>4. /\ RingOfTrbs(ring) /\ ring.enqueue > 0 /\ ControllerAt(ring, hc, ring.enqueue - 1)
        /\ ring.trbs[ring.enqueue - 1].kind = u_call.at
        /\ {"at", "cycle"} \subseteq DOMAIN hc
    BY <2>1, <2>2, <2>3 DEF PartPosted, UsbInStep
  <2>5. ring.enqueue \in 0 .. LinkIndex /\ LinkIndex \in Nat
    BY <2>4, UsbStorageAssumption DEF RingOfTrbs
  <2>6. PICK place \in 0 .. LinkIndex - 1 : place = ring.enqueue - 1 /\ place + 1 = ring.enqueue
    BY <2>4, <2>5
  <2>7. Position(d).at = place /\ Position(d).cycle = ring.cycle
    BY <2>3, <2>4, <2>6, PositionIs
  <2>8. kind = u_call.at
    BY <1>1, <2>3, <2>4, <2>6, <2>7
  <2>9. Expected(d, kind)
    BY <2>2, <2>8 DEF Expected, Underway, PartPosted, DirectionOf
  <2>10. /\ u_hc' = [u_hc EXCEPT ![d] = [at |-> Position(d).at + 1, cycle |-> Position(d).cycle,
                                         halted |-> FALSE]]
    BY <1>2, <2>9
  <2>11. /\ DOMAIN u_hc' = Directions
         /\ {"at", "cycle", "halted"} \subseteq DOMAIN u_hc'[d] /\ ~u_hc'[d].halted
         /\ u_hc'[d].at = ring.enqueue /\ u_hc'[d].cycle = ring.cycle
         /\ \A e \in Directions : e # d => u_hc'[e] = u_hc[e]
    BY <2>1, <2>6, <2>7, <2>10 DEF UsbInStep
  <2>12. AllTaken(d)'
    BY <1>2, <2>3, <2>11 DEF AllTaken, ControllerAt
  <2>13. \A e \in Directions : e # d => AtRest(e)'
    BY <1>2, <2>2, <2>11 DEF Underway, AtRest, AllTaken
  <2>14. u_events' = << TRUE >>
    <3>1. u_events' = Append(u_events, TRUE) /\ u_events = << >>
      BY <1>2, <2>2, <2>9, Zenon DEF PartPosted
    <3>2. Append(<< >>, TRUE) = << TRUE >>
      OBVIOUS
    <3> QED BY <3>1, <3>2, Zenon
  <2>15. Moves(kind, refuse)
    BY <1>2, <2>9
  <2>16. /\ {"phase", "cbw", "ok"} \subseteq DOMAIN u_device'
         /\ u_device'.phase = IF u_call.at = "csw" THEN "cbw" ELSE AfterStage(u_call)
         /\ u_call.at # "csw" => u_device'.cbw.op = u_call.op
    <3>1. CASE u_call.at = "cbw"
      <4>1. u_device' = [phase |-> IF u_cbw.op = "flush" THEN "csw" ELSE "data", cbw |-> u_cbw,
                         ok |-> ~refuse]
        BY <2>2, <2>8, <2>15, <3>1 DEF Moves, PartPosted
      <4> QED BY <2>2, <3>1, <4>1 DEF Underway, AfterStage
    <3>2. CASE u_call.at = "data"
      <4>1. u_device' = [u_device EXCEPT !.phase = "csw"]
        BY <2>2, <2>8, <2>15, <3>2 DEF Moves, PartPosted, Underway
      <4>2. {"phase", "cbw", "ok"} \subseteq DOMAIN u_device
        BY <2>1 DEF UsbInStep
      <4> QED BY <2>2, <3>2, <4>1, <4>2 DEF PartPosted, AfterStage
    <3>3. CASE u_call.at = "csw"
      <4>1. u_device' = ExpectsCommand
        BY <2>2, <2>8, <2>15, <3>3 DEF Moves, PartPosted
      <4> QED BY <3>3, <4>1 DEF ExpectsCommand
    <3> QED BY <2>2, <3>1, <3>2, <3>3 DEF Underway, Stages
  <2>17. PartTaken(d)'
    BY <1>2, <2>12, <2>14, <2>16, Zenon DEF PartTaken, AfterStage
  <2>18. Underway'
    BY <1>2, <2>2, <2>13, <2>17 DEF Underway, DirectionOf
  <2>19. \A e \in Directions :
            RingOfTrbs(u_rings'[e]) /\ {"at", "cycle", "halted"} \subseteq DOMAIN u_hc'[e] /\ ~u_hc'[e].halted
    BY <1>2, <2>1, <2>11 DEF UsbInStep
  <2> QED BY <1>2, <2>1, <2>11, <2>16, <2>18, <2>19 DEF UsbInStep
<1> QED BY <1>3, <1>5 DEF UsbInv

(* At the start the rings are empty.                                       *)
LEMMA UsbInitInv == UsbInit => UsbInv
<1> SUFFICES ASSUME UsbInit PROVE UsbInv
  OBVIOUS
<1>1. /\ u_rings = [d \in Directions |-> EmptyRing]
      /\ u_hc = [d \in Directions |-> [at |-> 0, cycle |-> 1, halted |-> FALSE]]
      /\ u_device = ExpectsCommand /\ u_events = << >> /\ u_call = NoUsbCall
      /\ u_counts = [calls |-> 0, failures |-> 0]
  BY DEF UsbInit
<1>2. LinkIndex \in Nat /\ LinkIndex > 1
  BY UsbStorageAssumption
<1>3. PICK ring : ring = EmptyRing
  OBVIOUS
<1>4. RingOfTrbs(ring) /\ ring.enqueue = 0 /\ ring.cycle = 1
  BY <1>2, <1>3 DEF EmptyRing, RingOfTrbs, Unused
<1>5. \A d \in Directions :
         /\ u_rings[d] = ring /\ u_hc[d].at = 0 /\ u_hc[d].cycle = 1 /\ ~u_hc[d].halted
         /\ {"at", "cycle", "halted"} \subseteq DOMAIN u_hc[d]
  BY <1>1, <1>3
<1>6. BetweenCalls
  BY <1>1, <1>2, <1>4, <1>5 DEF BetweenCalls, AtRest, AllTaken, ControllerAt, ExpectsCommand
<1>7. UsbInStep
  BY <1>1, <1>4, <1>5, <1>6 DEF UsbInStep, ExpectsCommand
<1> QED BY <1>1, <1>7 DEF UsbInv

(* Every step keeps them in step.                                          *)
LEMMA UsbStepKeepsInv == UsbInv /\ [UsbNext]_usbVars => UsbInv'
<1> SUFFICES ASSUME UsbInv, [UsbNext]_usbVars PROVE UsbInv'
  OBVIOUS
<1>1. ASSUME NEW lba, NEW count, UsbRead(lba, count) PROVE UsbInv'
  BY <1>1, UsbCallKeeps DEF UsbRead
<1>2. ASSUME NEW lba, NEW count, NEW d, UsbWrite(lba, count, d) PROVE UsbInv'
  BY <1>2, UsbCallKeeps DEF UsbWrite
<1>3. ASSUME UsbFlush PROVE UsbInv'
  BY <1>3, UsbCallKeeps DEF UsbFlush
<1>4. ASSUME UNCHANGED usbVars PROVE UsbInv'
  BY <1>4, ZenonT(30) DEF usbVars, UsbInv, UsbInStep, BetweenCalls, Underway, AtRest, AllTaken, PartPosted, PartTaken,
              DirectionOf, AfterStage
<1> QED BY <1>1, <1>2, <1>3, <1>4, UsbNextStageKeeps, UsbStatusKeeps, UsbFailuresKeep, UsbTransferKeeps
    DEF UsbNext

(* So the rings begin again in step.                                       *)
LEMMA UsbInvInStep == UsbInv => UsbRingsInStep
<1> SUFFICES ASSUME UsbInv, u_counts.failures = 0, NEW d \in Directions
             PROVE  /\ ~u_hc[d].halted
                    /\ u_rings[d].enqueue <= LinkIndex
                    /\ u_call = NoUsbCall => /\ Position(d).at = u_rings[d].enqueue
                                             /\ Position(d).cycle = u_rings[d].cycle
                                             /\ ~Ready(d)
  BY DEF UsbRingsInStep
<1>1. UsbInStep
  BY DEF UsbInv
<1>2. RingOfTrbs(u_rings[d]) /\ {"at", "cycle"} \subseteq DOMAIN u_hc[d] /\ ~u_hc[d].halted
  BY <1>1 DEF UsbInStep
<1>3. u_rings[d].enqueue \in 0 .. LinkIndex /\ LinkIndex \in Nat
  BY <1>2, UsbStorageAssumption DEF RingOfTrbs
<1>4. ASSUME u_call = NoUsbCall
      PROVE  /\ Position(d).at = u_rings[d].enqueue
             /\ Position(d).cycle = u_rings[d].cycle
             /\ ~Ready(d)
  <2>1. AllTaken(d) /\ u_rings[d].enqueue < LinkIndex
    BY <1>1, <1>4, CallsBegin DEF BetweenCalls, AtRest
  <2>2. PICK place \in 0 .. LinkIndex - 1 : place = u_rings[d].enqueue
    BY <1>3, <2>1
  <2>3. Position(d).at = place /\ Position(d).cycle = u_rings[d].cycle
    BY <1>2, <2>1, <2>2, PositionIs DEF AllTaken
  <2> QED BY <1>2, <2>1, <2>2, <2>3, NothingReady
<1> QED BY <1>2, <1>3, <1>4

-----------------------------------------------------------------------------
(* Packets, TRBs and characters come out of their rings as they were put   *)
(* in, in their order and from the right place, however often a ring has   *)
(* begun again: of VMBus as long as no packet has been written over one    *)
(* not read, of USB as long as no transfer has failed, of the keyboards as *)
(* long as the handler has not come between the steps of the thread.       *)
THEOREM RingsCorrect == DevicesSpec => []RingsInStep
<1> DEFINE Inv == RingInv /\ UsbInv /\ KeyInv
<1>1. DevicesInit => Inv
  BY RingInitInv, UsbInitInv, KeyInitInv DEF DevicesInit
<1>2. Inv /\ [DevicesNext]_deviceVars => Inv'
  BY StepIsOfOneRing, RingStepKeepsInv, UsbStepKeepsInv, KeyStepKeepsInv
<1>3. Inv => RingsInStep
  BY RingInvDelivers, UsbInvInStep, KeyInvInOrder DEF RingsInStep
<1> QED BY <1>1, <1>2, <1>3, PTL DEF DevicesSpec, deviceVars

-----------------------------------------------------------------------------
(* The USB host controller                                                 *)

(* A step of a role under way, and how far the device is known: that its   *)
(* slot has the address of the port, and that it is of the right kind      *)
Working == CommandSteps \union ControlSteps \union {"scsi"}
Addressed == {"device", "config", "set", "configure", "scsi"}
Recognized == {"set", "configure", "scsi"}

SlotStates == [on : BOOLEAN, port : 0 .. UsbPorts, queued : Int]
UsbTransfers == [step : Working \union {"bulk"}, slot : 0 .. UsbSlots]
UsbEvents == [type : {"command", "transfer", "port"}, slot : 0 .. UsbSlots, ok : BOOLEAN]

Places == [role : Roles \union {"none"}, port : 0 .. UsbPorts,
           step : Working \union {"port", "failed", "up"}]

XhciTyped ==
    /\ x_ports \in [PortNumbers -> UsbKinds]
    /\ x_slots \in [SlotNumbers -> SlotStates]
    /\ x_role \in [Roles -> [port : 0 .. UsbPorts, slot : 0 .. UsbSlots]]
    /\ x_at \in Places
    /\ x_transfers \subseteq UsbTransfers
    /\ x_events \in Seq(UsbEvents)

(* The roles before the one that is looked for                             *)
Earlier(r, role, devices) ==
    \/ r = "keyboard" /\ role # "keyboard"
    \/ r = "mouse" /\ role = "storage"
    \/ r = "mouse" /\ role = "none" /\ devices > 1
    \/ r = "storage" /\ role = "none" /\ devices > 2

Before(r) == Earlier(r, x_at.role, ConnectedPorts)

Filled(r) ==
    /\ x_role[r].port # 0 /\ x_ports[x_role[r].port] = r
    /\ x_role[r].slot \in SlotNumbers
    /\ x_slots[x_role[r].slot].on /\ x_slots[x_role[r].slot].port = x_role[r].port

RolesSoFar ==
    /\ (x_at.role = "none" <=> x_at.step = "up")
    /\ x_at.role = "mouse" => ConnectedPorts > 1
    /\ x_at.role = "storage" => ConnectedPorts > 1 /\ ConnectedPorts > 2
    /\ \A r \in Roles : Before(r) => Filled(r)
    /\ \A r, q \in Roles :
          Before(r) /\ Before(q) /\ x_role[r].slot = x_role[q].slot => r = q
    /\ \A r \in Roles : ~Before(r) /\ r # x_at.role => x_role[r] = Missing

(* A slot no earlier role has                                              *)
OfNoRole(s) == s \in SlotNumbers /\ \A r \in Roles : Before(r) => x_role[r].slot # s

AtPort(s) == x_slots[s].on /\ x_slots[s].port = x_at.port

RoleInWork ==
    x_at.step \in Working =>
        /\ x_at.port # 0 /\ x_role[x_at.role].port = x_at.port
        /\ IF x_at.step = "enable" THEN x_role[x_at.role].slot = 0
           ELSE OfNoRole(x_role[x_at.role].slot)
        /\ x_at.step \in Addressed => AtPort(x_role[x_at.role].slot)
        /\ x_at.step \in Recognized => x_ports[x_at.port] = x_at.role
        /\ x_at.step = "scsi" => x_at.role = "storage"

(* What the driver may believe of the answer to its command                *)
RightAnswer(ok, slot) ==
    /\ x_at.step = "enable" /\ ok => OfNoRole(slot)
    /\ x_at.step = "address" /\ ok => AtPort(x_role[x_at.role].slot)

Among(e, events) == \E i \in DOMAIN events : events[i] = e
NoCommandIn(events) == \A i \in DOMAIN events : events[i].type # "command"
OneCommandIn(events) ==
    \A i, j \in DOMAIN events : events[i].type = "command" /\ events[j].type = "command" => i = j

(* There is a command for the controller, or an answer, or none of both    *)
CommandPosted ==
    /\ x_at.step \in CommandSteps
    /\ x_commands = << [step |-> x_at.step, slot |-> x_role[x_at.role].slot, port |-> x_at.port] >>
    /\ NoCommandIn(x_events)

CommandAnswered ==
    /\ x_at.step \in CommandSteps /\ x_commands = << >>
    /\ OneCommandIn(x_events)
    /\ \A e \in UsbEvents : Among(e, x_events) /\ e.type = "command" => RightAnswer(e.ok, e.slot)

NoCommandOut == x_at.step \notin CommandSteps /\ x_commands = << >> /\ NoCommandIn(x_events)

AnswersOwn == CommandPosted \/ CommandAnswered \/ NoCommandOut

(* What was read is the descriptor of the device on the port.              *)
OwnDescriptor ==
    /\ \A t \in x_transfers : t.step = "config" =>
          /\ x_at.step = "config" \/ (x_at.step = "disable" /\ x_commands # << >>)
          /\ t.slot = x_role[x_at.role].slot
    /\ x_at.step = "config" /\ x_read # "none" =>
          /\ x_read = x_ports[x_at.port]
          /\ \A t \in x_transfers : t.step # "config"

(* What holds as long as no wait for a command has run out: the earlier    *)
(* roles are filled, the role in work is known as far as its steps have    *)
(* gone, and there is one command at most, whose answer may be believed.   *)
XhciOk == XhciTyped /\ RolesSoFar /\ RoleInWork /\ AnswersOwn /\ OwnDescriptor

XhciInv ==
    /\ x_counts \in [resets : Nat, timeouts : Nat, late : Nat, plugs : Nat, transfers : Nat]
    /\ x_counts.late = 0 => XhciOk

-----------------------------------------------------------------------------
(* The events that are left after the first, and with one more             *)
LEMMA EventTaken ==
    ASSUME NEW events \in Seq(UsbEvents), events # << >>
    PROVE  /\ Head(events) \in UsbEvents /\ Tail(events) \in Seq(UsbEvents)
           /\ 1 \in DOMAIN events /\ Head(events) = events[1]
           /\ \A i \in DOMAIN Tail(events) : i + 1 \in DOMAIN events /\ Tail(events)[i] = events[i + 1]
           /\ \A i \in DOMAIN Tail(events) : i \in Nat /\ i + 1 # 1
  OBVIOUS

LEMMA EventTold ==
    ASSUME NEW events \in Seq(UsbEvents), NEW e \in UsbEvents
    PROVE  /\ Append(events, e) \in Seq(UsbEvents)
           /\ \A i \in DOMAIN Append(events, e) :
                 \/ i \in DOMAIN events /\ Append(events, e)[i] = events[i]
                 \/ i = Len(events) + 1 /\ Append(events, e)[i] = e
  OBVIOUS

LEMMA NoCommandTaken ==
    ASSUME NEW events \in Seq(UsbEvents), events # << >>, NoCommandIn(events)
    PROVE  NoCommandIn(Tail(events)) /\ Head(events).type # "command"
  BY EventTaken DEF NoCommandIn

LEMMA NoCommandTold ==
    ASSUME NEW events \in Seq(UsbEvents), NEW e \in UsbEvents, NoCommandIn(events),
           e.type # "command"
    PROVE  NoCommandIn(Append(events, e))
  BY EventTold DEF NoCommandIn

LEMMA OneCommandTaken ==
    ASSUME NEW events \in Seq(UsbEvents), events # << >>, OneCommandIn(events)
    PROVE  /\ OneCommandIn(Tail(events))
           /\ Head(events).type = "command" => NoCommandIn(Tail(events))
<1>1. OneCommandIn(Tail(events))
  BY EventTaken DEF OneCommandIn
<1>2. ASSUME Head(events).type = "command", NEW i \in DOMAIN Tail(events)
      PROVE  Tail(events)[i].type # "command"
  BY <1>2, EventTaken DEF OneCommandIn
<1> QED BY <1>1, <1>2 DEF NoCommandIn

LEMMA OneCommandTold ==
    ASSUME NEW events \in Seq(UsbEvents), NEW e \in UsbEvents
    PROVE  /\ NoCommandIn(events) => OneCommandIn(Append(events, e))
           /\ OneCommandIn(events) /\ e.type # "command" => OneCommandIn(Append(events, e))
  BY EventTold DEF NoCommandIn, OneCommandIn

(* Where a step stands among the steps of its role                         *)
Here(role, step) == CHOOSE i \in DOMAIN Steps(role) : Steps(role)[i] = step

Follows(role, step, next) ==
    /\ next \in Working \ {"enable", "disable"}
    /\ next = "address" <=> step = "enable"
    /\ next = "config" <=> step = "device"
    /\ next \in Addressed => step \in Addressed \union {"address"}
    /\ next \in Recognized => step \in Recognized \union {"config"}
    /\ next = "scsi" => role = "storage"
    /\ role # "storage" => step # "configure"

LEMMA InputStepsAre ==
    ASSUME NEW role \in InputRoles, NEW step \in Working \ {"disable", "scsi"}
    PROVE  /\ Here(role, step) \in 1 .. 6 /\ Len(Steps(role)) = 6
           /\ Here(role, step) = 6 => step = "configure"
           /\ Here(role, step) < 6 => Follows(role, step, Steps(role)[Here(role, step) + 1])
<1>1. Steps(role) = KeyboardSteps
  BY DEF Steps, MouseSteps, InputRoles
<1>2. PICK steps : steps = KeyboardSteps
  OBVIOUS
<1>3. /\ DOMAIN steps = 1 .. 6 /\ Len(steps) = 6
      /\ steps[1] = "enable" /\ steps[2] = "address" /\ steps[3] = "device"
      /\ steps[4] = "config" /\ steps[5] = "set" /\ steps[6] = "configure"
  BY <1>2 DEF KeyboardSteps
<1>4. \E i \in 1 .. 6 : steps[i] = step
  BY <1>3 DEF Working, CommandSteps, ControlSteps
<1>5. PICK here : here = (CHOOSE i \in 1 .. 6 : steps[i] = step)
  OBVIOUS
<1>6. here \in 1 .. 6 /\ steps[here] = step
  BY <1>4, <1>5, Zenon
<1>7. here = Here(role, step)
  BY <1>1, <1>2, <1>3, <1>5, Zenon DEF Here
<1>8. here = 6 => step = "configure"
  BY <1>3, <1>6
<1>9. here < 6 => Follows(role, step, steps[here + 1])
  BY <1>3, <1>6 DEF Follows, Working, CommandSteps, ControlSteps, Addressed, Recognized
<1> QED BY <1>1, <1>2, <1>3, <1>6, <1>7, <1>8, <1>9, Zenon

LEMMA StorageStepsAre ==
    ASSUME NEW step \in Working \ {"disable"}
    PROVE  /\ Here("storage", step) \in 1 .. 7 /\ Len(Steps("storage")) = 7
           /\ Here("storage", step) = 7 => step = "scsi"
           /\ Here("storage", step) < 7 =>
                 Follows("storage", step, Steps("storage")[Here("storage", step) + 1])
<1>1. Steps("storage") = StorageSteps
  BY DEF Steps
<1>2. PICK steps : steps = StorageSteps
  OBVIOUS
<1>3. /\ DOMAIN steps = 1 .. 7 /\ Len(steps) = 7
      /\ steps[1] = "enable" /\ steps[2] = "address" /\ steps[3] = "device"
      /\ steps[4] = "config" /\ steps[5] = "configure" /\ steps[6] = "set" /\ steps[7] = "scsi"
  BY <1>2 DEF StorageSteps
<1>4. \E i \in 1 .. 7 : steps[i] = step
  BY <1>3 DEF Working, CommandSteps, ControlSteps
<1>5. PICK here : here = (CHOOSE i \in 1 .. 7 : steps[i] = step)
  OBVIOUS
<1>6. here \in 1 .. 7 /\ steps[here] = step
  BY <1>4, <1>5, Zenon
<1>7. here = Here("storage", step)
  BY <1>1, <1>2, <1>3, <1>5, Zenon DEF Here
<1>8. here = 7 => step = "scsi"
  BY <1>3, <1>6
<1>9. here < 7 => Follows("storage", step, steps[here + 1])
  BY <1>3, <1>6 DEF Follows, Working, CommandSteps, ControlSteps, Addressed, Recognized
<1> QED BY <1>1, <1>2, <1>3, <1>6, <1>7, <1>8, <1>9, Zenon

LEMMA StepsAre ==
    ASSUME NEW role \in Roles, NEW step \in Working \ {"disable"}, step = "scsi" => role = "storage"
    PROVE  /\ Here(role, step) \in Nat /\ Len(Steps(role)) \in Nat
           /\ Here(role, step) <= Len(Steps(role))
           /\ Here(role, step) = Len(Steps(role)) =>
                 step \in Recognized /\ step # "set" /\ (step = "scsi" <=> role = "storage")
           /\ Here(role, step) < Len(Steps(role)) =>
                 Follows(role, step, Steps(role)[Here(role, step) + 1])
<1>1. PICK here, len : here = Here(role, step) /\ len = Len(Steps(role))
  OBVIOUS
<1>2. CASE role = "storage"
  <2>1. /\ here \in 1 .. 7 /\ len = 7
        /\ here = 7 => step = "scsi"
        /\ here < 7 => Follows(role, step, Steps(role)[Here(role, step) + 1])
    BY <1>1, <1>2, StorageStepsAre, Zenon
  <2>2. here = 7 => step \in Recognized /\ step # "set" /\ (step = "scsi" <=> role = "storage")
    BY <1>2, <2>1 DEF Recognized
  <2>3. here \in Nat /\ len \in Nat /\ here <= len /\ (here < len => here < 7) /\ (here = len => here = 7)
    BY <2>1
  <2> QED BY <1>1, <2>1, <2>2, <2>3, Zenon
<1>3. CASE role \in InputRoles
  <2>1. role # "storage" /\ step # "scsi"
    BY <1>3 DEF InputRoles
  <2>2. /\ here \in 1 .. 6 /\ len = 6
        /\ here = 6 => step = "configure"
        /\ here < 6 => Follows(role, step, Steps(role)[Here(role, step) + 1])
    BY <1>1, <1>3, <2>1, InputStepsAre, Zenon
  <2> QED BY <1>1, <2>1, <2>2 DEF Recognized
<1> QED BY <1>2, <1>3 DEF Roles, InputRoles

-----------------------------------------------------------------------------
(* The devices that are plugged in can be counted.                         *)
LEMMA DevicesCounted == ConnectedPorts \in Nat
<1>1. IsFiniteSet(PortNumbers)
  BY FS_Interval, XhciAssumption DEF PortNumbers
<1> QED BY <1>1, FS_Subset, FS_CardinalityType DEF ConnectedPorts

(* The roles before stay filled as long as nothing happens to their slots. *)
LEMMA RolesKept ==
    ASSUME XhciTyped, RolesSoFar, x_ports' = x_ports, x_at'.role = x_at.role,
           x_at'.step = "up" <=> x_at.step = "up",
           \A r \in Roles : r # x_at.role => x_role'[r] = x_role[r],
           \A s \in SlotNumbers : ~OfNoRole(s) =>
              x_slots'[s].on = x_slots[s].on /\ x_slots'[s].port = x_slots[s].port
    PROVE  RolesSoFar' /\ \A r : Before(r)' <=> Before(r)
<1>1. ConnectedPorts' = ConnectedPorts
  BY Zenon DEF ConnectedPorts
<1>2. \A r : Before(r)' <=> Before(r)
  BY <1>1 DEF Before
<1>3. \A r \in Roles : Before(r) => r # x_at.role
  BY DEF Before, Earlier
<1>4. ASSUME NEW r \in Roles, Before(r) PROVE Filled(r)'
  <2>1. Filled(r) /\ x_role'[r] = x_role[r]
    BY <1>3, <1>4 DEF RolesSoFar
  <2>2. x_role[r].slot \in SlotNumbers /\ ~OfNoRole(x_role[r].slot)
    BY <1>4, <2>1 DEF Filled, OfNoRole
  <2> QED BY <2>1, <2>2 DEF Filled
<1>5. \A r \in Roles : ~Before(r) /\ r # x_at.role => x_role'[r] = Missing
  BY DEF RolesSoFar
<1>6. \A r, q \in Roles : Before(r) /\ Before(q) /\ x_role'[r].slot = x_role'[q].slot => r = q
  BY <1>3 DEF RolesSoFar
<1>7. /\ x_at'.role = "none" <=> x_at'.step = "up"
      /\ x_at'.role = "mouse" => ConnectedPorts' > 1
      /\ x_at'.role = "storage" => ConnectedPorts' > 1 /\ ConnectedPorts' > 2
  BY <1>1 DEF RolesSoFar
<1> HIDE DEF Before
<1> QED BY <1>2, <1>4, <1>5, <1>6, <1>7 DEF RolesSoFar, Missing

(* What the end of a step leads to: the next port, the next role or the    *)
(* next step, which may be to disable the slot                             *)
SlotOf(ok, slot) == IF x_at.step = "enable" /\ ok THEN slot ELSE x_role[x_at.role].slot

StepLeads(ok, slot) ==
    \/ /\ x_at.step = "disable" \/ SlotOf(ok, slot) = 0
       /\ x_at' = [x_at EXCEPT !.step = "port"]
       /\ UNCHANGED <<x_slots, x_asked, x_read, x_commands, x_transfers>>
    \/ /\ ok /\ x_at.step \in Recognized /\ x_at.step # "set"
       /\ x_at.step = "scsi" <=> x_at.role = "storage"
       /\ RoleFilled
    \/ /\ UNCHANGED <<x_slots, x_asked>>
       /\ \E next : /\ Post(next, SlotOf(ok, slot))
                    /\ \/ next = "disable" /\ SlotOf(ok, slot) # 0
                       \/ /\ Follows(x_at.role, x_at.step, next) /\ ok
                          /\ next = Steps(x_at.role)[Here(x_at.role, x_at.step) + 1]
                          /\ x_at.step = "config" => Detects(x_at.role)

LEMMA StepEndsIn ==
    ASSUME x_at.role \in Roles, x_at.step = "scsi" => x_at.role = "storage",
           x_at.step \in Working, NEW ok, NEW slot, StepEnds(ok, slot)
    PROVE  /\ x_role' = [x_role EXCEPT ![x_at.role].slot = SlotOf(ok, slot)]
           /\ StepLeads(ok, slot)
<1> USE DEF StepLeads
<1>1. x_at.role \in Roles /\ (x_at.step = "scsi" => x_at.role = "storage")
  OBVIOUS
<1>2. PICK mine : mine = SlotOf(ok, slot)
  OBVIOUS
<1>3. PICK here, good :
         /\ here = Here(x_at.role, x_at.step)
         /\ good = (/\ ok
                    /\ x_at.step \in {"address", "configure"} => OwnSlot(slot, mine)
                    /\ x_at.step = "config" => Detects(x_at.role))
  OBVIOUS
<1>4. /\ x_role' = [x_role EXCEPT ![x_at.role].slot = mine]
      /\ CASE x_at.step = "disable" ->
                /\ x_at' = [x_at EXCEPT !.step = "port"]
                /\ UNCHANGED <<x_slots, x_asked, x_read, x_commands, x_transfers>>
           [] x_at.step # "disable" /\ good /\ here = Len(Steps(x_at.role)) -> RoleFilled
           [] x_at.step # "disable" /\ good /\ here < Len(Steps(x_at.role)) ->
                Post(Steps(x_at.role)[here + 1], mine) /\ UNCHANGED <<x_slots, x_asked>>
           [] x_at.step # "disable" /\ ~good /\ mine # 0 ->
                Post("disable", mine) /\ UNCHANGED <<x_slots, x_asked>>
           [] OTHER ->
                /\ x_at' = [x_at EXCEPT !.step = "port"]
                /\ UNCHANGED <<x_slots, x_asked, x_read, x_commands, x_transfers>>
  BY <1>2, <1>3, Zenon DEF StepEnds, SlotOf, Here
<1>5. good => ok /\ (x_at.step = "config" => Detects(x_at.role))
  BY <1>3, Zenon
<1>6. CASE x_at.step = "disable"
  BY <1>2, <1>4, <1>6, Zenon
<1>7. CASE x_at.step # "disable"
  <2>1. PICK len : len = Len(Steps(x_at.role))
    OBVIOUS
  <2>2. /\ here \in Nat /\ len \in Nat /\ here <= len
        /\ here = len => x_at.step \in Recognized /\ x_at.step # "set"
                         /\ (x_at.step = "scsi" <=> x_at.role = "storage")
        /\ here < len => Follows(x_at.role, x_at.step, Steps(x_at.role)[here + 1])
    BY <1>1, <1>3, <1>7, <2>1, StepsAre, Zenon
  <2>3. here = len \/ here < len
    BY <2>2
  <2>4. CASE good /\ here = len
    <3>1. RoleFilled
      BY <1>4, <1>7, <2>1, <2>4, SMT
    <3>2. x_at.step \in Recognized /\ x_at.step # "set" /\ (x_at.step = "scsi" <=> x_at.role = "storage")
      BY <2>2, <2>4
    <3> QED BY <1>2, <1>4, <1>5, <2>4, <3>1, <3>2, Zenon
  <2>5. CASE good /\ here < len
    <3>1. ~(here = len)
      BY <2>2, <2>5
    <3>2. Post(Steps(x_at.role)[here + 1], mine) /\ UNCHANGED <<x_slots, x_asked>>
      BY <1>4, <1>7, <2>1, <2>5, <3>1, Zenon
    <3> QED BY <1>2, <1>3, <1>4, <1>5, <2>2, <2>5, <3>2, Zenon
  <2>6. CASE ~good /\ mine # 0
    BY <1>2, <1>4, <1>7, <2>6, Zenon
  <2>7. CASE ~good /\ mine = 0
    BY <1>2, <1>4, <1>7, <2>7, Zenon
  <2> QED BY <2>3, <2>4, <2>5, <2>6, <2>7, Zenon
<1> QED BY <1>6, <1>7, Zenon

(* What holds when a step ends: nothing is left at the controller or on    *)
(* the way, and an answer may be believed.                                 *)
StepMayEnd(ok, slot) ==
    /\ x_at.step \in Working /\ x_commands = << >>
    /\ RightAnswer(ok, slot)

(* The slot after the step is the one before, or the one that was enabled. *)
LEMMA SlotIs ==
    ASSUME XhciOk, NEW ok \in BOOLEAN, NEW slot \in 0 .. UsbSlots, StepMayEnd(ok, slot)
    PROVE  /\ SlotOf(ok, slot) \in 0 .. UsbSlots
           /\ SlotOf(ok, slot) = 0 => x_at.step = "enable"
           /\ SlotOf(ok, slot) # 0 => OfNoRole(SlotOf(ok, slot))
           /\ x_at.step # "enable" => SlotOf(ok, slot) = x_role[x_at.role].slot
           /\ x_at.role \in Roles
<1>1. x_at.role \in Roles
  BY DEF XhciOk, XhciTyped, Places, RolesSoFar, StepMayEnd, Working, CommandSteps, ControlSteps
<1>2. x_role[x_at.role].slot \in 0 .. UsbSlots
  BY <1>1 DEF XhciOk, XhciTyped, Places
<1>3. CASE x_at.step = "enable"
  <2>1. x_role[x_at.role].slot = 0 /\ (ok => OfNoRole(slot))
    BY <1>3 DEF XhciOk, RoleInWork, StepMayEnd, RightAnswer
  <2> QED BY <1>1, <1>2, <1>3, <2>1 DEF SlotOf
<1>4. CASE x_at.step # "enable"
  <2>1. OfNoRole(x_role[x_at.role].slot)
    BY <1>4 DEF XhciOk, RoleInWork, StepMayEnd
  <2>2. x_role[x_at.role].slot # 0
    BY <2>1 DEF OfNoRole, SlotNumbers
  <2> QED BY <1>1, <1>2, <1>4, <2>1, <2>2 DEF SlotOf
<1> QED BY <1>3, <1>4

(* The types of a step's end                                               *)
LEMMA StepEndTyped ==
    ASSUME XhciOk, NEW mine \in 0 .. UsbSlots, x_ports' = x_ports, x_at.role \in Roles,
           x_role' = [x_role EXCEPT ![x_at.role].slot = mine], x_events' \in Seq(UsbEvents)
    PROVE  /\ x_ports' \in [PortNumbers -> UsbKinds]
           /\ x_role' \in [Roles -> [port : 0 .. UsbPorts, slot : 0 .. UsbSlots]]
           /\ x_role'[x_at.role].slot = mine
           /\ x_role'[x_at.role].port = x_role[x_at.role].port
           /\ \A r \in Roles : r # x_at.role => x_role'[r] = x_role[r]
  BY DEF XhciOk, XhciTyped, Places

(* After a configuration that was not right nothing is read any more.      *)
LEMMA NoConfigLeft ==
    ASSUME OwnDescriptor, x_commands = << >>
    PROVE  /\ x_at.step # "config" => \A t \in x_transfers : t.step # "config"
           /\ x_at.step = "config" /\ x_read # "none" => \A t \in x_transfers : t.step # "config"
           /\ \A t \in x_transfers : t.step = "config" => t.slot = x_role[x_at.role].slot
  BY DEF OwnDescriptor

(* The next port is tried.                                                 *)
LEMMA LeavingKeeps ==
    ASSUME XhciOk, NEW ok \in BOOLEAN, NEW slot \in 0 .. UsbSlots, StepMayEnd(ok, slot),
           x_ports' = x_ports, x_events' \in Seq(UsbEvents), NoCommandIn(x_events'),
           x_role' = [x_role EXCEPT ![x_at.role].slot = SlotOf(ok, slot)],
           x_at.step = "disable" \/ SlotOf(ok, slot) = 0,
           x_at' = [x_at EXCEPT !.step = "port"],
           UNCHANGED <<x_slots, x_read, x_commands, x_transfers>>
    PROVE  XhciOk'
<1>1. PICK mine : mine = SlotOf(ok, slot)
  OBVIOUS
<1>2. /\ mine \in 0 .. UsbSlots /\ (mine = 0 => x_at.step = "enable") /\ x_at.role \in Roles
  BY <1>1, SlotIs
<1>3. /\ x_ports' \in [PortNumbers -> UsbKinds]
      /\ x_role' \in [Roles -> [port : 0 .. UsbPorts, slot : 0 .. UsbSlots]]
      /\ \A r \in Roles : r # x_at.role => x_role'[r] = x_role[r]
  BY <1>1, <1>2, StepEndTyped
<1>4. x_at'.role = x_at.role /\ x_at'.port = x_at.port /\ x_at'.step = "port"
  BY DEF XhciOk, XhciTyped, Places
<1>5. XhciTyped'
  BY <1>3 DEF XhciOk, XhciTyped, Places
<1>6. x_at.step # "up" /\ x_at.step # "config"
  BY <1>1, <1>2 DEF StepMayEnd, Working, CommandSteps, ControlSteps
<1>7. RolesSoFar'
  BY <1>3, <1>4, <1>6, RolesKept DEF XhciOk
<1>8. RoleInWork' /\ NoCommandOut'
  BY <1>4 DEF RoleInWork, NoCommandOut, StepMayEnd, Working, CommandSteps, ControlSteps
<1>9. OwnDescriptor'
  BY <1>4, <1>6, NoConfigLeft DEF XhciOk, StepMayEnd, OwnDescriptor
<1> QED BY <1>5, <1>7, <1>8, <1>9 DEF XhciOk, AnswersOwn

(* The role that comes after one is looked for when that one is filled.    *)
LEMMA EarlierOrThis ==
    ASSUME NEW r \in Roles, NEW devices \in Nat,
           x_at.role = "mouse" => devices > 1, x_at.role = "storage" => devices > 1 /\ devices > 2,
           x_at.role \in Roles, devices = ConnectedPorts
    PROVE  /\ NextRole \in Roles \union {"none"}
           /\ Earlier(r, NextRole, devices) <=> Earlier(r, x_at.role, devices) \/ r = x_at.role
           /\ NextRole = "mouse" => devices > 1
           /\ NextRole = "storage" => devices > 1 /\ devices > 2
<1>1. CASE x_at.role = "keyboard"
  BY <1>1 DEF NextRole, Earlier, Roles
<1>2. CASE x_at.role = "mouse"
  BY <1>2 DEF NextRole, Earlier, Roles
<1>3. CASE x_at.role = "storage"
  BY <1>3 DEF NextRole, Earlier, Roles
<1> QED BY <1>1, <1>2, <1>3 DEF Roles

(* A report that is asked for changes nothing else.                        *)
LEMMA ReportAsked ==
    ASSUME x_slots \in [SlotNumbers -> SlotStates], NEW role, NEW index, AskForReport(role, index)
    PROVE  /\ x_slots' \in [SlotNumbers -> SlotStates]
           /\ \A q \in SlotNumbers : x_slots'[q].on = x_slots[q].on /\ x_slots'[q].port = x_slots[q].port
<1>1. PICK s, more :
         /\ s = x_role[role].slot
         /\ more = (x_slots[s].on /\ index < UsbRing - 1)
  OBVIOUS
<1>2. x_slots' = [x_slots EXCEPT ![s].queued = IF more THEN @ + 1 ELSE @]
  BY <1>1, Zenon DEF AskForReport
<1>3. ASSUME NEW q \in SlotNumbers
      PROVE  /\ x_slots'[q] \in SlotStates
             /\ x_slots'[q].on = x_slots[q].on /\ x_slots'[q].port = x_slots[q].port
  BY <1>2, <1>3 DEF SlotStates
<1>4. x_slots' = [q \in SlotNumbers |-> x_slots'[q]]
  BY <1>2
<1> QED BY <1>3, <1>4

(* The role is filled, by a device that was recognized, on its own slot.   *)
LEMMA FillingKeeps ==
    ASSUME XhciOk, NEW ok \in BOOLEAN, NEW slot \in 0 .. UsbSlots, StepMayEnd(ok, slot),
           x_ports' = x_ports, x_events' \in Seq(UsbEvents), NoCommandIn(x_events'),
           x_role' = [x_role EXCEPT ![x_at.role].slot = SlotOf(ok, slot)],
           x_at.step \in Recognized, RoleFilled
    PROVE  XhciOk'
<1>1. /\ x_at' = [role |-> NextRole, port |-> 0, step |-> IF NextRole = "none" THEN "up" ELSE "port"]
      /\ IF x_at.role \in InputRoles THEN AskForReport(x_at.role, 0) ELSE UNCHANGED <<x_slots, x_asked>>
      /\ UNCHANGED <<x_read, x_commands, x_transfers>>
  BY DEF RoleFilled
<1>2. x_at.role \in Roles /\ SlotOf(ok, slot) = x_role[x_at.role].slot /\ x_at.step # "config"
      /\ SlotOf(ok, slot) \in 0 .. UsbSlots
  BY SlotIs DEF Recognized
<1>3. /\ x_ports' \in [PortNumbers -> UsbKinds]
      /\ x_role' \in [Roles -> [port : 0 .. UsbPorts, slot : 0 .. UsbSlots]]
      /\ x_role'[x_at.role].slot = x_role[x_at.role].slot
      /\ x_role'[x_at.role].port = x_role[x_at.role].port
      /\ \A r \in Roles : r # x_at.role => x_role'[r] = x_role[r]
  BY <1>2, StepEndTyped
<1>4. /\ x_slots' \in [SlotNumbers -> SlotStates]
      /\ \A q \in SlotNumbers : x_slots'[q].on = x_slots[q].on /\ x_slots'[q].port = x_slots[q].port
  BY <1>1, ReportAsked DEF XhciOk, XhciTyped, Places
<1>5. PICK devices \in Nat : devices = ConnectedPorts
  BY DevicesCounted
<1>6. devices = ConnectedPorts'
  BY <1>5, Zenon DEF ConnectedPorts
<1>7. /\ NextRole \in Roles \union {"none"}
      /\ \A r \in Roles : Earlier(r, NextRole, devices) <=> Before(r) \/ r = x_at.role
      /\ NextRole = "mouse" => devices > 1
      /\ NextRole = "storage" => devices > 1 /\ devices > 2
  BY <1>2, <1>5, EarlierOrThis DEF XhciOk, RolesSoFar, Before
<1>8. PICK next : next = NextRole
  OBVIOUS
<1>9. /\ x_at'.role = next /\ x_at'.step = IF next = "none" THEN "up" ELSE "port"
      /\ x_at' \in Places
  BY <1>1, <1>7, <1>8, XhciAssumption DEF Places
<1>10. \A r \in Roles : Before(r)' <=> Before(r) \/ r = x_at.role
  BY <1>6, <1>7, <1>8, <1>9 DEF Before
<1>11. \E role : role = x_at.role /\ Filled(role)'
  <2>1. /\ x_at.port # 0 /\ x_role[x_at.role].port = x_at.port
        /\ OfNoRole(x_role[x_at.role].slot) /\ AtPort(x_role[x_at.role].slot)
        /\ x_ports[x_at.port] = x_at.role
    BY DEF XhciOk, RoleInWork, StepMayEnd, Recognized, Addressed
  <2>2. PICK role, mine : role = x_at.role /\ mine = x_role[x_at.role].slot
    OBVIOUS
  <2>3. mine \in SlotNumbers /\ x_slots'[mine].on /\ x_slots'[mine].port = x_at.port
    BY <1>4, <2>1, <2>2 DEF OfNoRole, AtPort
  <2>4. x_role'[role].slot = mine /\ x_role'[role].port = x_at.port /\ x_ports'[x_at.port] = role
    BY <1>3, <2>1, <2>2
  <2>5. Filled(role)'
    BY <2>1, <2>3, <2>4 DEF Filled
  <2> QED BY <2>2, <2>5
<1>12. ASSUME NEW r \in Roles, Before(r), r # x_at.role PROVE Filled(r)'
  BY <1>3, <1>4, <1>12 DEF XhciOk, RolesSoFar, Filled
<1>13. OfNoRole(x_role[x_at.role].slot)
  BY DEF XhciOk, RoleInWork, StepMayEnd, Recognized
<1>14. ASSUME NEW r \in Roles, NEW q \in Roles, Before(r) \/ r = x_at.role, Before(q) \/ q = x_at.role,
              x_role'[r].slot = x_role'[q].slot
       PROVE  r = q
  BY <1>3, <1>13, <1>14 DEF XhciOk, RolesSoFar, OfNoRole
<1>15. \A r \in Roles : ~Before(r) /\ r # x_at.role => x_role'[r] = Missing
  BY <1>3 DEF XhciOk, RolesSoFar
<1>16. RolesSoFar'
  <2>1. \A r \in Roles : Before(r)' => Filled(r)'
    BY <1>10, <1>11, <1>12, Zenon
  <2>2. \A r, q \in Roles : Before(r)' /\ Before(q)' /\ x_role'[r].slot = x_role'[q].slot => r = q
    BY <1>10, <1>14, Zenon
  <2>3. \A r \in Roles : ~Before(r)' /\ r # next => x_role'[r] = Missing'
    BY <1>10, <1>15, Zenon DEF Missing
  <2>4. next = "none" <=> x_at'.step = "up"
    BY <1>9
  <2> QED BY <1>6, <1>7, <1>8, <1>9, <2>1, <2>2, <2>3, <2>4, Zenon DEF RolesSoFar
<1>17. XhciTyped'
  BY <1>1, <1>3, <1>4, <1>9 DEF XhciOk, XhciTyped
<1>18. x_at'.step \notin Working
  BY <1>9 DEF Working, CommandSteps, ControlSteps
<1>19. RoleInWork' /\ NoCommandOut'
  BY <1>1, <1>18 DEF RoleInWork, NoCommandOut, StepMayEnd, Working
<1>20. OwnDescriptor'
  BY <1>1, <1>2, <1>18, NoConfigLeft DEF XhciOk, StepMayEnd, OwnDescriptor, Working, ControlSteps
<1> QED BY <1>16, <1>17, <1>19, <1>20 DEF XhciOk, AnswersOwn

(* The next step is posted, or the slot is to be disabled.                 *)
LEMMA PostingKeeps ==
    ASSUME XhciOk, NEW ok \in BOOLEAN, NEW slot \in 0 .. UsbSlots, StepMayEnd(ok, slot),
           x_ports' = x_ports, x_events' \in Seq(UsbEvents), NoCommandIn(x_events'),
           x_role' = [x_role EXCEPT ![x_at.role].slot = SlotOf(ok, slot)],
           UNCHANGED x_slots, NEW next, Post(next, SlotOf(ok, slot)),
           \/ next = "disable" /\ SlotOf(ok, slot) # 0
           \/ /\ Follows(x_at.role, x_at.step, next) /\ ok
              /\ x_at.step = "config" => Detects(x_at.role)
    PROVE  XhciOk'
<1>1. PICK mine : mine = SlotOf(ok, slot)
  OBVIOUS
<1>2. /\ mine \in 0 .. UsbSlots /\ (mine = 0 => x_at.step = "enable") /\ x_at.role \in Roles
      /\ (mine # 0 => OfNoRole(mine))
      /\ x_at.step # "enable" => mine = x_role[x_at.role].slot
  BY <1>1, SlotIs
<1>3. /\ x_ports' \in [PortNumbers -> UsbKinds]
      /\ x_role' \in [Roles -> [port : 0 .. UsbPorts, slot : 0 .. UsbSlots]]
      /\ x_role'[x_at.role].slot = mine
      /\ x_role'[x_at.role].port = x_role[x_at.role].port
      /\ \A r \in Roles : r # x_at.role => x_role'[r] = x_role[r]
  BY <1>1, <1>2, StepEndTyped
<1>4. next \in Working \ {"enable"}
  BY DEF Follows, Working, CommandSteps
<1>5. /\ x_at' = [x_at EXCEPT !.step = next]
      /\ IF next \in CommandSteps
         THEN /\ x_commands' = Append(x_commands, [step |-> next, slot |-> mine, port |-> x_at.port])
              /\ UNCHANGED x_transfers
         ELSE /\ x_transfers' = x_transfers \union {[step |-> next, slot |-> mine]}
              /\ UNCHANGED x_commands
      /\ x_read' = IF next = "config" THEN "none" ELSE x_read
  BY <1>1, Zenon DEF Post, PostCommand, PostTransfer, DescriptorBefore
<1>6. x_at'.role = x_at.role /\ x_at'.port = x_at.port /\ x_at'.step = next
  BY <1>5 DEF XhciOk, XhciTyped, Places
<1>7. XhciTyped'
  <2>1. x_at' \in Places
    BY <1>4, <1>5 DEF XhciOk, XhciTyped, Places
  <2>2. [step |-> next, slot |-> mine] \in UsbTransfers
    BY <1>2, <1>4 DEF UsbTransfers
  <2>3. x_transfers' \subseteq UsbTransfers
    BY <1>5, <2>2 DEF XhciOk, XhciTyped
  <2> QED BY <1>3, <2>1, <2>3 DEF XhciOk, XhciTyped
<1>8. x_at.step # "up" /\ next # "up"
  BY <1>4 DEF StepMayEnd, Working, CommandSteps, ControlSteps
<1>9. RolesSoFar' /\ \A r : Before(r)' <=> Before(r)
  BY <1>3, <1>6, <1>8, RolesKept DEF XhciOk
<1>10. mine # 0 /\ OfNoRole(mine)
  <2>1. ASSUME mine = 0 PROVE FALSE
    <3>1. x_at.step = "enable" /\ ok
      BY <1>1, <1>2, <2>1 DEF Follows
    <3> QED BY <1>1, <2>1, <3>1 DEF SlotOf, StepMayEnd, RightAnswer, OfNoRole, SlotNumbers
  <2> QED BY <1>2, <2>1
<1>11. x_at.port # 0 /\ x_role[x_at.role].port = x_at.port
  BY DEF XhciOk, RoleInWork, StepMayEnd
<1>12. ASSUME next \in Addressed PROVE AtPort(mine)
  <2>1. x_at.step \in Addressed \union {"address"} /\ ok
    BY <1>12 DEF Follows, Addressed
  <2>2. mine = x_role[x_at.role].slot
    BY <1>2, <2>1 DEF Addressed
  <2>3. CASE x_at.step \in Addressed
    BY <2>2, <2>3 DEF XhciOk, RoleInWork, StepMayEnd
  <2>4. CASE x_at.step = "address"
    BY <2>1, <2>2, <2>4 DEF StepMayEnd, RightAnswer
  <2> QED BY <2>1, <2>3, <2>4
<1>13. ASSUME next \in Recognized PROVE x_ports[x_at.port] = x_at.role
  <2>1. x_at.step \in Recognized \union {"config"} /\ (x_at.step = "config" => Detects(x_at.role))
    BY <1>13 DEF Follows, Recognized
  <2>2. CASE x_at.step \in Recognized
    BY <2>2 DEF XhciOk, RoleInWork, StepMayEnd
  <2>3. CASE x_at.step = "config"
    <3>1. x_read = x_at.role
      BY <1>2, <2>1, <2>3 DEF Detects, KeyboardDetected, MouseDetected, StorageDetected, Roles
    <3>2. x_read # "none"
      BY <1>2, <3>1 DEF Roles
    <3> QED BY <2>3, <3>1, <3>2 DEF XhciOk, OwnDescriptor
  <2> QED BY <2>1, <2>2, <2>3
<1>14. next = "scsi" => x_at.role = "storage"
  BY DEF Follows
<1>15. OfNoRole(mine)'
  <2>1. \A r \in Roles : Before(r) => x_role'[r].slot = x_role[r].slot
    BY <1>3 DEF Before, Earlier
  <2> HIDE DEF Before
  <2> QED BY <1>9, <1>10, <2>1 DEF OfNoRole
<1>16. AtPort(mine) => AtPort(mine)'
  BY <1>6 DEF AtPort
<1>17. RoleInWork'
  BY <1>3, <1>4, <1>6, <1>11, <1>12, <1>13, <1>14, <1>15, <1>16 DEF RoleInWork
<1>18. AnswersOwn'
  <2>1. CASE next \in CommandSteps
    <3>1. x_commands' = << [step |-> next, slot |-> mine, port |-> x_at.port] >>
      BY <1>5, <2>1 DEF StepMayEnd
    <3> QED BY <1>3, <1>6, <2>1, <3>1 DEF AnswersOwn, CommandPosted
  <2>2. CASE next \notin CommandSteps
    BY <1>5, <1>6, <2>2 DEF AnswersOwn, NoCommandOut, StepMayEnd
  <2> QED BY <2>1, <2>2
<1>19. OwnDescriptor'
  <2>1. CASE next = "config"
    <3>1. x_at.step # "config"
      BY <2>1 DEF Follows
    <3>2. \A t \in x_transfers : t.step # "config"
      BY <3>1, NoConfigLeft DEF XhciOk, StepMayEnd
    <3>3. x_transfers' = x_transfers \union {[step |-> "config", slot |-> mine]} /\ x_read' = "none"
      BY <1>5, <2>1 DEF CommandSteps
    <3>4. ASSUME NEW t \in x_transfers', t.step = "config" PROVE t.slot = mine
      BY <3>2, <3>3, <3>4
    <3>5. /\ x_at'.step = "config" /\ x_read' = "none"
          /\ x_role'[x_at'.role].slot = mine
      BY <1>3, <1>6, <2>1, <3>3
    <3> QED BY <3>4, <3>5, Zenon DEF OwnDescriptor
  <2>2. CASE next = "disable"
    <3>1. x_transfers' = x_transfers /\ x_commands' # << >>
      BY <1>5, <2>2 DEF CommandSteps, StepMayEnd
    <3>2. \A t \in x_transfers : t.step = "config" => t.slot = x_role[x_at.role].slot /\ x_at.step = "config"
      BY NoConfigLeft DEF XhciOk, StepMayEnd
    <3> QED BY <1>2, <1>3, <1>6, <2>2, <3>1, <3>2 DEF OwnDescriptor
  <2>3. CASE next \notin {"config", "disable"}
    <3>1. x_at.step = "config" => Detects(x_at.role)
      BY <2>3
    <3>2. x_at.step = "config" => x_read # "none"
      BY <1>2, <3>1 DEF Detects, KeyboardDetected, MouseDetected, StorageDetected, Roles
    <3>3. \A t \in x_transfers : t.step # "config"
      BY <3>2, NoConfigLeft DEF XhciOk, StepMayEnd
    <3>4. \A t \in x_transfers' : t \in x_transfers \/ t = [step |-> next, slot |-> mine]
      BY <1>5
    <3> QED BY <1>6, <2>3, <3>3, <3>4 DEF OwnDescriptor
  <2> QED BY <2>1, <2>2, <2>3
<1> QED BY <1>7, <1>9, <1>17, <1>18, <1>19 DEF XhciOk

(* So the end of a step keeps what holds.                                  *)
LEMMA StepEndsKeeps ==
    ASSUME XhciOk, NEW ok \in BOOLEAN, NEW slot \in 0 .. UsbSlots, StepMayEnd(ok, slot),
           StepEnds(ok, slot), x_ports' = x_ports, x_events' \in Seq(UsbEvents), NoCommandIn(x_events')
    PROVE  XhciOk'
<1>1. x_at.step \in Working
  BY DEF StepMayEnd
<1>2. x_at.role \in Roles /\ (x_at.step = "scsi" => x_at.role = "storage")
  BY <1>1 DEF XhciOk, XhciTyped, Places, RolesSoFar, RoleInWork, Working, CommandSteps, ControlSteps
<1>3. x_role' = [x_role EXCEPT ![x_at.role].slot = SlotOf(ok, slot)] /\ StepLeads(ok, slot)
  BY <1>1, <1>2, StepEndsIn
<1> QED BY <1>1, <1>2, <1>3, LeavingKeeps, FillingKeeps, PostingKeeps DEF StepLeads

-----------------------------------------------------------------------------
(* Nothing about commands is new among the events.                         *)
QuietEvents(events, after) ==
    /\ after \in Seq(UsbEvents)
    /\ NoCommandIn(events) => NoCommandIn(after)
    /\ OneCommandIn(events) => OneCommandIn(after)
    /\ \A e : Among(e, after) /\ e.type = "command" => Among(e, events)

LEMMA QuietTaken ==
    ASSUME NEW events \in Seq(UsbEvents), events # << >>
    PROVE  QuietEvents(events, Tail(events))
  BY EventTaken, NoCommandTaken, OneCommandTaken DEF QuietEvents, Among

LEMMA QuietTold ==
    ASSUME NEW events \in Seq(UsbEvents), NEW e \in UsbEvents, e.type # "command"
    PROVE  QuietEvents(events, Append(events, e))
  BY EventTold, NoCommandTold, OneCommandTold DEF QuietEvents, Among

LEMMA QuietSame ==
    ASSUME NEW events \in Seq(UsbEvents)
    PROVE  QuietEvents(events, events)
  BY DEF QuietEvents

(* A step that only takes or tells reports and transfers                   *)
LEMMA QuietKeepsAll ==
    ASSUME XhciOk, UNCHANGED <<x_ports, x_role, x_at, x_commands>>,
           x_slots' \in [SlotNumbers -> SlotStates],
           \A s \in SlotNumbers : x_slots'[s].on = x_slots[s].on /\ x_slots'[s].port = x_slots[s].port,
           QuietEvents(x_events, x_events'),
           x_transfers' \subseteq UsbTransfers, OwnDescriptor'
    PROVE  XhciOk'
<1>1. XhciTyped'
  BY DEF XhciOk, XhciTyped, Places, QuietEvents
<1>2. RolesSoFar' /\ \A r : Before(r)' <=> Before(r)
  BY RolesKept DEF XhciOk
<1>3. \A s : OfNoRole(s) => OfNoRole(s)'
  <2> HIDE DEF Before
  <2> QED BY <1>2 DEF OfNoRole
<1>4. \A s : s \in SlotNumbers /\ AtPort(s) => AtPort(s)'
  BY DEF AtPort
<1>5. \A ok, slot : x_at.step = "address" /\ ok /\ RightAnswer(ok, slot)
                    => AtPort(x_role[x_at.role].slot)
  BY DEF RightAnswer
<1>6. x_at.step \in Working /\ x_at.step # "enable" => x_role[x_at.role].slot \in SlotNumbers
  BY DEF XhciOk, RoleInWork, OfNoRole
<1>7. RoleInWork'
  <2>1. x_at.step \in Addressed => x_at.step \in Working /\ x_at.step # "enable"
    BY DEF Addressed, Working, CommandSteps, ControlSteps
  <2> QED BY <1>3, <1>4, <1>6, <2>1 DEF XhciOk, RoleInWork
<1>8. \A ok, slot : RightAnswer(ok, slot) => RightAnswer(ok, slot)'
  <2>1. x_at.step = "address" => x_at.step \in Working /\ x_at.step # "enable"
    BY DEF Working, CommandSteps
  <2> QED BY <1>3, <1>4, <1>6, <2>1 DEF RightAnswer
<1>9. AnswersOwn'
  <2>1. CASE CommandPosted
    BY <2>1 DEF CommandPosted, AnswersOwn, QuietEvents
  <2>2. CASE CommandAnswered
    <3>1. \A e \in UsbEvents : Among(e, x_events)' /\ e.type = "command" => RightAnswer(e.ok, e.slot)'
      BY <1>8, <2>2 DEF CommandAnswered, QuietEvents
    <3> QED BY <2>2, <3>1 DEF CommandAnswered, AnswersOwn, QuietEvents
  <2>3. CASE NoCommandOut
    BY <2>3 DEF NoCommandOut, AnswersOwn, QuietEvents
  <2> QED BY <2>1, <2>2, <2>3 DEF XhciOk, AnswersOwn
<1> QED BY <1>1, <1>2, <1>7, <1>9 DEF XhciOk

LEMMA QuietKeeps ==
    ASSUME XhciOk, UNCHANGED <<x_ports, x_role, x_at, x_read, x_commands>>,
           x_slots' \in [SlotNumbers -> SlotStates],
           \A s \in SlotNumbers : x_slots'[s].on = x_slots[s].on /\ x_slots'[s].port = x_slots[s].port,
           QuietEvents(x_events, x_events'),
           x_transfers' \subseteq UsbTransfers,
           \A t \in x_transfers' : t.step = "config" => t \in x_transfers
    PROVE  XhciOk'
<1>1. OwnDescriptor'
  BY DEF XhciOk, OwnDescriptor
<1> QED BY <1>1, QuietKeepsAll

(* A wait for a command ends with the answer to it.                        *)
LEMMA WaitCommandKeeps ==
    ASSUME XhciOk, WaitCommand
    PROVE  XhciOk'
<1>1. /\ InSteps(CommandSteps) /\ x_events # << >>
      /\ x_events' = Tail(x_events) /\ x_ports' = x_ports
      /\ IF Head(x_events).type = "command" THEN StepEnds(Head(x_events).ok, Head(x_events).slot)
         ELSE UNCHANGED <<x_role, x_at, x_slots, x_read, x_commands, x_transfers>>
  BY DEF WaitCommand, EventFound, TakeEvent
<1>2. x_events \in Seq(UsbEvents) /\ x_slots \in [SlotNumbers -> SlotStates]
      /\ x_transfers \subseteq UsbTransfers
  BY DEF XhciOk, XhciTyped, Places
<1>3. PICK e : e = Head(x_events)
  OBVIOUS
<1>4. e \in UsbEvents /\ Among(e, x_events)
  BY <1>1, <1>2, <1>3, EventTaken DEF Among
<1>5. QuietEvents(x_events, x_events')
  BY <1>1, <1>2, QuietTaken
<1>6. CASE e.type = "command"
  <2>1. e.ok \in BOOLEAN /\ e.slot \in 0 .. UsbSlots
    BY <1>4 DEF UsbEvents
  <2>2. CommandAnswered
    <3>1. x_at.step \in CommandSteps /\ ~NoCommandIn(x_events)
      BY <1>1, <1>4, <1>6 DEF InSteps, Among, NoCommandIn
    <3> QED BY <3>1 DEF XhciOk, AnswersOwn, NoCommandOut, CommandPosted
  <2>3. StepMayEnd(e.ok, e.slot)
    BY <1>1, <1>4, <1>6, <2>2 DEF CommandAnswered, StepMayEnd, Working, InSteps
  <2>4. NoCommandIn(x_events')
    BY <1>1, <1>2, <1>3, <1>6, <2>2, OneCommandTaken DEF CommandAnswered
  <2>5. StepEnds(e.ok, e.slot)
    BY <1>1, <1>3, <1>6
  <2> QED BY <1>1, <1>5, <2>1, <2>3, <2>4, <2>5, StepEndsKeeps DEF QuietEvents
<1>7. CASE e.type # "command"
  <2>1. UNCHANGED <<x_role, x_at, x_slots, x_read, x_commands, x_transfers>>
    BY <1>1, <1>3, <1>7
  <2> QED BY <1>1, <1>2, <1>5, <2>1, QuietKeeps
<1> QED BY <1>6, <1>7

(* A step that waits for no command may end in any way.                    *)
LEMMA TransferMayEnd ==
    ASSUME XhciOk, x_at.step \in Working \ CommandSteps, NEW ok, NEW slot
    PROVE  StepMayEnd(ok, slot) /\ NoCommandIn(x_events)
  BY DEF XhciOk, AnswersOwn, CommandPosted, CommandAnswered, NoCommandOut, StepMayEnd, RightAnswer,
         CommandSteps

(* A wait for a transfer ends with whatever transfer it is that ended.     *)
LEMMA WaitTransferKeeps ==
    ASSUME XhciOk, WaitTransfer
    PROVE  XhciOk'
<1>1. /\ x_at.step \in ControlSteps /\ x_events # << >>
      /\ x_events' = Tail(x_events) /\ x_ports' = x_ports
      /\ \/ StepEnds(Head(x_events).ok, Head(x_events).slot)
         \/ UNCHANGED <<x_role, x_at, x_slots, x_read, x_commands, x_transfers>>
  BY DEF WaitTransfer, InSteps, EventFound, TakeEvent
<1>2. x_events \in Seq(UsbEvents) /\ x_slots \in [SlotNumbers -> SlotStates]
      /\ x_transfers \subseteq UsbTransfers
  BY DEF XhciOk, XhciTyped, Places
<1>3. Head(x_events).ok \in BOOLEAN /\ Head(x_events).slot \in 0 .. UsbSlots
  BY <1>1, <1>2, EventTaken DEF UsbEvents
<1>4. QuietEvents(x_events, x_events')
  BY <1>1, <1>2, QuietTaken
<1>5. x_at.step \in Working \ CommandSteps
  BY <1>1 DEF Working, CommandSteps, ControlSteps
<1>6. CASE StepEnds(Head(x_events).ok, Head(x_events).slot)
  BY <1>1, <1>3, <1>4, <1>5, <1>6, TransferMayEnd, StepEndsKeeps DEF QuietEvents
<1>7. CASE UNCHANGED <<x_role, x_at, x_slots, x_read, x_commands, x_transfers>>
  BY <1>1, <1>2, <1>4, <1>7, QuietKeeps
<1> QED BY <1>1, <1>6, <1>7

(* A wait that runs out: what follows one for a command is not claimed.    *)
LEMMA StepTimeoutKeeps ==
    ASSUME XhciInv, StepTimeout
    PROVE  XhciInv'
<1>1. /\ x_at.step \in CommandSteps \union ControlSteps \union {"scsi"}
      /\ x_counts' = [x_counts EXCEPT !.timeouts = @ + 1,
                                      !.late = @ + (IF x_at.step \in CommandSteps THEN 1 ELSE 0)]
      /\ StepEnds(FALSE, 0) /\ UNCHANGED <<x_ports, x_events>>
  BY DEF StepTimeout, InSteps
<1>2. x_counts \in [resets : Nat, timeouts : Nat, late : Nat, plugs : Nat, transfers : Nat]
  BY DEF XhciInv
<1>3. PICK more \in Nat : more = IF x_at.step \in CommandSteps THEN 1 ELSE 0
  OBVIOUS
<1>4. x_counts' = [x_counts EXCEPT !.timeouts = @ + 1, !.late = @ + more]
  BY <1>1, <1>3, Zenon
<1>5. /\ x_counts' \in [resets : Nat, timeouts : Nat, late : Nat, plugs : Nat, transfers : Nat]
      /\ x_counts'.late = x_counts.late + more /\ x_counts.late \in Nat
  <2>1. PICK c : c = [x_counts EXCEPT !.timeouts = @ + 1]
    OBVIOUS
  <2>2. c \in [resets : Nat, timeouts : Nat, late : Nat, plugs : Nat, transfers : Nat] /\ c.late = x_counts.late
    BY <1>2, <2>1
  <2>3. x_counts' = [c EXCEPT !.late = @ + more]
    BY <1>4, <2>1
  <2> QED BY <1>2, <2>2, <2>3
<1>6. CASE x_at.step \in CommandSteps
  <2>1. x_counts'.late # 0
    BY <1>3, <1>5, <1>6
  <2> QED BY <1>5, <2>1 DEF XhciInv
<1>7. CASE x_at.step \notin CommandSteps
  <2>1. x_counts'.late = x_counts.late
    BY <1>3, <1>5, <1>7
  <2>2. ASSUME XhciOk PROVE XhciOk'
    <3>1. x_at.step \in Working \ CommandSteps
      BY <1>1, <1>7 DEF Working
    <3>2. StepMayEnd(FALSE, 0) /\ NoCommandIn(x_events) /\ x_events \in Seq(UsbEvents)
      BY <2>2, <3>1, TransferMayEnd DEF XhciOk, XhciTyped, Places
    <3>3. 0 \in 0 .. UsbSlots
      BY XhciAssumption
    <3> QED BY <1>1, <2>2, <3>2, <3>3, StepEndsKeeps
  <2> QED BY <1>5, <2>1, <2>2 DEF XhciInv
<1> QED BY <1>6, <1>7

(* A report is taken, by the poll or in a wait of the storage driver.      *)
LEMMA TakeReportKeeps ==
    ASSUME XhciOk, x_events # << >>, TakeReport,
           UNCHANGED <<x_ports, x_role, x_at, x_read, x_commands, x_transfers>>
    PROVE  XhciOk'
<1>1. x_events \in Seq(UsbEvents) /\ x_slots \in [SlotNumbers -> SlotStates]
      /\ x_transfers \subseteq UsbTransfers
  BY DEF XhciOk, XhciTyped, Places
<1>2. x_events' = Tail(x_events) /\ \E role, index : AskForReport(role, index)
  BY DEF TakeReport, TakeEvent
<1> QED BY <1>1, <1>2, QuietTaken, ReportAsked, QuietKeeps

LEMMA WaitStorageKeeps ==
    ASSUME XhciOk, WaitStorage
    PROVE  XhciOk'
<1>1. /\ x_io \/ x_at.step = "scsi"
      /\ x_events # << >> /\ UNCHANGED <<x_ports, x_counts>>
      /\ \/ TakeReport /\ UNCHANGED <<x_io, x_role, x_at, x_read, x_commands, x_transfers>>
         \/ /\ x_events' = Tail(x_events)
            /\ \/ UNCHANGED <<x_slots, x_role, x_at, x_read, x_commands, x_transfers>>
               \/ ~x_io /\ StepEnds(Head(x_events).ok, Head(x_events).slot)
  BY DEF WaitStorage, EventFound, TakeEvent
<1>2. x_events \in Seq(UsbEvents) /\ x_slots \in [SlotNumbers -> SlotStates]
      /\ x_transfers \subseteq UsbTransfers
  BY DEF XhciOk, XhciTyped, Places
<1>3. Head(x_events).ok \in BOOLEAN /\ Head(x_events).slot \in 0 .. UsbSlots
  BY <1>1, <1>2, EventTaken DEF UsbEvents
<1>4. CASE TakeReport /\ UNCHANGED <<x_io, x_role, x_at, x_read, x_commands, x_transfers>>
  BY <1>1, <1>4, TakeReportKeeps
<1>5. CASE x_events' = Tail(x_events)
           /\ UNCHANGED <<x_slots, x_role, x_at, x_read, x_commands, x_transfers>>
  BY <1>1, <1>2, <1>5, QuietTaken, QuietKeeps
<1>6. CASE x_events' = Tail(x_events) /\ ~x_io /\ StepEnds(Head(x_events).ok, Head(x_events).slot)
  <2>1. x_at.step \in Working \ CommandSteps
    BY <1>1, <1>6 DEF Working, CommandSteps
  <2>2. QuietEvents(x_events, x_events')
    BY <1>1, <1>2, <1>6, QuietTaken
  <2> QED BY <1>1, <1>3, <1>6, <2>1, <2>2, TransferMayEnd, StepEndsKeeps DEF QuietEvents
<1> QED BY <1>1, <1>4, <1>5, <1>6

(* The search moves on to a port.                                          *)
LEMMA PortMoves ==
    ASSUME NEW at \in Places, NEW number \in 1 .. UsbPorts
    PROVE  /\ [at EXCEPT !.port = number] \in Places
           /\ [at EXCEPT !.port = number].role = at.role
           /\ [at EXCEPT !.port = number].step = at.step
           /\ [at EXCEPT !.port = number].port = number
<1>1. 1 .. UsbPorts \subseteq 0 .. UsbPorts
  OBVIOUS
<1>2. PICK next : next = [at EXCEPT !.port = number]
  OBVIOUS
<1>3. next \in Places /\ next.role = at.role /\ next.step = at.step /\ next.port = number
  BY <1>1, <1>2 DEF Places
<1> QED BY <1>2, <1>3

(* A port is tried: the slots that had its address lose it, and none of    *)
(* them is of an earlier role.                                             *)
LEMMA TryPortKeeps ==
    ASSUME XhciOk, NEW event \in BOOLEAN, NEW ready \in BOOLEAN, TryPort(event, ready)
    PROVE  XhciOk'
<1>1. PICK number : number = x_at.port + 1
  OBVIOUS
<1>2. /\ x_at.step = "port" /\ number <= UsbPorts
      /\ IF number \in TakenPorts
         THEN ~event /\ ~ready /\ UNCHANGED <<x_slots, x_events, x_counts>>
         ELSE ResetPort(number, event, ready)
      /\ IF ready
         THEN /\ x_at' = [x_at EXCEPT !.port = number, !.step = "enable"]
              /\ x_role' = [x_role EXCEPT ![x_at.role] = [port |-> number, slot |-> 0]]
              /\ x_commands' = Append(x_commands, [step |-> "enable", slot |-> 0, port |-> number])
         ELSE /\ x_at' = [x_at EXCEPT !.port = number]
              /\ UNCHANGED <<x_role, x_commands>>
      /\ UNCHANGED <<x_ports, x_read, x_transfers>>
  BY <1>1, Zenon DEF TryPort
<1>3. x_at.role \in Roles /\ x_at.step \notin Working /\ x_at.step # "up"
  BY <1>2 DEF XhciOk, XhciTyped, Places, RolesSoFar, Working, CommandSteps, ControlSteps
<1>4. x_commands = << >> /\ NoCommandIn(x_events)
  BY <1>3 DEF XhciOk, AnswersOwn, CommandPosted, CommandAnswered, NoCommandOut, Working
<1>5. number \in 1 .. UsbPorts /\ number # 0
  BY <1>1, <1>2, XhciAssumption DEF XhciOk, XhciTyped, Places
<1>6. \A t \in x_transfers : t.step # "config"
  BY <1>3, <1>4, NoConfigLeft DEF XhciOk, Working, ControlSteps
<1>7. x_events \in Seq(UsbEvents) /\ x_slots \in [SlotNumbers -> SlotStates]
      /\ x_transfers \subseteq UsbTransfers
  BY DEF XhciOk, XhciTyped, Places
<1>8. \/ UNCHANGED x_slots
      \/ /\ number \notin TakenPorts
         /\ x_slots' = [s \in SlotNumbers |-> IF x_slots[s].port = number THEN NoSlot ELSE x_slots[s]]
  BY <1>2 DEF ResetPort
<1>9. x_slots' \in [SlotNumbers -> SlotStates]
  <2>1. NoSlot \in SlotStates
    BY XhciAssumption DEF NoSlot, SlotStates
  <2> QED BY <1>7, <1>8, <2>1
<1>10. ASSUME NEW s \in SlotNumbers, ~OfNoRole(s) PROVE x_slots'[s] = x_slots[s]
  <2>1. PICK r \in Roles : Before(r) /\ x_role[r].slot = s
    BY <1>10 DEF OfNoRole
  <2>2. r # x_at.role
    BY <2>1 DEF Before, Earlier
  <2>3. Filled(r)
    BY <2>1 DEF XhciOk, RolesSoFar
  <2>4. x_role[r].port \in TakenPorts
    BY <2>2, <2>3 DEF TakenPorts, Filled
  <2> QED BY <1>8, <2>1, <2>3, <2>4 DEF Filled
<1>11. QuietEvents(x_events, x_events')
  <2>1. Event("port", 0, TRUE) \in UsbEvents /\ Event("port", 0, TRUE).type # "command"
    BY XhciAssumption DEF Event, UsbEvents
  <2>2. UNCHANGED x_events \/ x_events' = Append(x_events, Event("port", 0, TRUE))
    BY <1>2 DEF ResetPort, Tell
  <2> QED BY <1>7, <2>1, <2>2, QuietTold, QuietSame
<1>12. CASE ~ready
  <2>1. x_at' = [x_at EXCEPT !.port = number] /\ UNCHANGED <<x_role, x_commands>>
    BY <1>2, <1>12
  <2>2. x_at'.role = x_at.role /\ x_at'.step = x_at.step
    BY <2>1 DEF XhciOk, XhciTyped, Places
  <2>3. XhciTyped'
    BY <1>2, <1>5, <1>9, <1>11, <2>1, PortMoves DEF XhciOk, XhciTyped, QuietEvents
  <2>4. RolesSoFar'
    BY <1>2, <1>10, <2>1, <2>2, RolesKept DEF XhciOk
  <2>5. RoleInWork' /\ NoCommandOut'
    BY <1>3, <1>4, <1>11, <2>1, <2>2 DEF RoleInWork, NoCommandOut, Working, QuietEvents
  <2>6. OwnDescriptor'
    BY <1>2, <1>6, <2>2 DEF OwnDescriptor
  <2> QED BY <2>3, <2>4, <2>5, <2>6 DEF XhciOk, AnswersOwn
<1>13. CASE ready
  <2>1. /\ x_at' = [x_at EXCEPT !.port = number, !.step = "enable"]
        /\ x_role' = [x_role EXCEPT ![x_at.role] = [port |-> number, slot |-> 0]]
        /\ x_commands' = Append(x_commands, [step |-> "enable", slot |-> 0, port |-> number])
    BY <1>2, <1>13
  <2>2. x_at'.role = x_at.role /\ x_at'.step = "enable" /\ x_at'.port = number
        /\ x_at' \in Places
    <3>1. x_at \in Places /\ "enable" \in Working
      BY DEF XhciOk, XhciTyped, Working, CommandSteps
    <3>2. PICK at : at = [x_at EXCEPT !.port = number]
      OBVIOUS
    <3>3. at \in Places /\ at.role = x_at.role /\ at.port = number
      BY <1>5, <3>1, <3>2, PortMoves
    <3>4. x_at' = [at EXCEPT !.step = "enable"]
      BY <2>1, <3>2
    <3> QED BY <3>1, <3>3, <3>4 DEF Places
  <2>3. /\ x_role' \in [Roles -> [port : 0 .. UsbPorts, slot : 0 .. UsbSlots]]
        /\ x_role'[x_at.role].port = number /\ x_role'[x_at.role].slot = 0
        /\ \A r \in Roles : r # x_at.role => x_role'[r] = x_role[r]
    <3>1. [port |-> number, slot |-> 0] \in [port : 0 .. UsbPorts, slot : 0 .. UsbSlots]
      BY <1>5, XhciAssumption
    <3> QED BY <1>3, <2>1, <3>1 DEF XhciOk, XhciTyped
  <2>4. XhciTyped'
    BY <1>2, <1>9, <1>11, <2>2, <2>3 DEF XhciOk, XhciTyped, Places, QuietEvents
  <2>5. RolesSoFar'
    BY <1>2, <1>3, <1>10, <2>2, <2>3, RolesKept DEF XhciOk
  <2>6. RoleInWork'
    BY <1>5, <2>2, <2>3 DEF RoleInWork, Addressed, Recognized
  <2>7. CommandPosted'
    <3>1. x_commands' = << [step |-> "enable", slot |-> 0, port |-> number] >>
      BY <1>4, <2>1
    <3> QED BY <1>4, <1>11, <2>2, <2>3, <3>1 DEF CommandPosted, CommandSteps, QuietEvents
  <2>8. OwnDescriptor'
    BY <1>2, <1>6, <2>2 DEF OwnDescriptor
  <2> QED BY <2>4, <2>5, <2>6, <2>7, <2>8 DEF XhciOk, AnswersOwn
<1> QED BY <1>12, <1>13

(* No port is left.                                                        *)
LEMMA NoPortLeftKeeps ==
    ASSUME XhciOk, NoPortLeft
    PROVE  XhciOk'
<1>1. /\ x_at.step = "port" /\ x_at' = [x_at EXCEPT !.step = "failed"]
      /\ x_role' = [x_role EXCEPT ![x_at.role] = Missing]
      /\ UNCHANGED <<x_ports, x_slots, x_read, x_commands, x_transfers, x_events>>
  BY DEF NoPortLeft
<1>2. x_at.role \in Roles /\ x_at.step \notin Working
  BY <1>1 DEF XhciOk, XhciTyped, Places, RolesSoFar, Working, CommandSteps, ControlSteps
<1>3. x_at'.role = x_at.role /\ x_at'.step = "failed" /\ x_at'.step \notin Working
  BY <1>1 DEF XhciOk, XhciTyped, Places, Working, CommandSteps, ControlSteps
<1>4. x_commands = << >> /\ NoCommandIn(x_events)
  BY <1>2 DEF XhciOk, AnswersOwn, CommandPosted, CommandAnswered, NoCommandOut, Working
<1>5. \A t \in x_transfers : t.step # "config"
  BY <1>1, <1>4, NoConfigLeft DEF XhciOk
<1>6. XhciTyped'
  <2>1. x_at' \in Places
    BY <1>1 DEF XhciOk, XhciTyped, Places
  <2>2. x_role' \in [Roles -> [port : 0 .. UsbPorts, slot : 0 .. UsbSlots]]
    <3>1. Missing \in [port : 0 .. UsbPorts, slot : 0 .. UsbSlots]
      BY XhciAssumption DEF Missing
    <3> QED BY <1>1, <3>1 DEF XhciOk, XhciTyped
  <2> QED BY <1>1, <2>1, <2>2 DEF XhciOk, XhciTyped
<1>7. \A r \in Roles : r # x_at.role => x_role'[r] = x_role[r]
  BY <1>1 DEF XhciOk, XhciTyped, Places
<1>8. RolesSoFar'
  BY <1>1, <1>3, <1>7, RolesKept DEF XhciOk
<1>9. RoleInWork' /\ NoCommandOut'
  BY <1>1, <1>3, <1>4 DEF RoleInWork, NoCommandOut, Working
<1>10. OwnDescriptor'
  BY <1>1, <1>3, <1>5 DEF OwnDescriptor
<1> QED BY <1>6, <1>8, <1>9, <1>10 DEF XhciOk, AnswersOwn

-----------------------------------------------------------------------------
(* A storage transfer, what is typed, and what is plugged in               *)
LEMMA BulkBegunKeeps ==
    ASSUME XhciOk, BeginBulk
    PROVE  XhciOk'
<1>1. x_transfers' = x_transfers \union {[step |-> "bulk", slot |-> x_role["storage"].slot]}
      /\ UNCHANGED <<x_ports, x_slots, x_role, x_at, x_read, x_commands, x_events>>
  BY DEF BeginBulk
<1>2. x_events \in Seq(UsbEvents) /\ x_slots \in [SlotNumbers -> SlotStates]
      /\ x_transfers \subseteq UsbTransfers
  BY DEF XhciOk, XhciTyped
<1>3. /\ \A t \in x_transfers' : t.step = "config" => t \in x_transfers
      /\ x_transfers' \subseteq UsbTransfers
  <2>1. [step |-> "bulk", slot |-> x_role["storage"].slot] \in UsbTransfers
    BY DEF UsbTransfers, XhciOk, XhciTyped, Roles
  <2>2. x_transfers \subseteq UsbTransfers
    BY DEF XhciOk, XhciTyped
  <2> QED BY <1>1, <2>1, <2>2
<1> QED BY <1>1, <1>2, <1>3, QuietSame, QuietKeeps

LEMMA BulkTimeoutKeeps ==
    ASSUME XhciOk, BulkTimeout
    PROVE  XhciOk'
<1>1. x_events \in Seq(UsbEvents) /\ x_slots \in [SlotNumbers -> SlotStates]
      /\ x_transfers \subseteq UsbTransfers
  BY DEF XhciOk, XhciTyped
<1> QED BY <1>1, QuietSame, QuietKeeps DEF BulkTimeout

LEMMA PollKeeps ==
    ASSUME XhciOk, PollDevices
    PROVE  XhciOk'
  BY TakeReportKeeps DEF PollDevices, Pollable, EventFound

LEMMA ReportKeeps ==
    ASSUME XhciOk, NEW s \in SlotNumbers, Report(s)
    PROVE  XhciOk'
<1>1. x_events \in Seq(UsbEvents) /\ x_slots \in [SlotNumbers -> SlotStates]
      /\ x_transfers \subseteq UsbTransfers
  BY DEF XhciOk, XhciTyped
<1>2. /\ x_slots' = [x_slots EXCEPT ![s].queued = @ - 1]
      /\ x_events' = Append(x_events, Event("transfer", s, TRUE))
      /\ UNCHANGED <<x_ports, x_role, x_at, x_read, x_commands, x_transfers>>
  BY DEF Report, Tell
<1>3. Event("transfer", s, TRUE) \in UsbEvents /\ Event("transfer", s, TRUE).type # "command"
  BY XhciAssumption DEF Event, UsbEvents, SlotNumbers
<1>4. /\ x_slots' \in [SlotNumbers -> SlotStates]
      /\ \A q \in SlotNumbers : x_slots'[q].on = x_slots[q].on /\ x_slots'[q].port = x_slots[q].port
  <2>1. [x_slots[s] EXCEPT !.queued = @ - 1] \in SlotStates
        /\ [x_slots[s] EXCEPT !.queued = @ - 1].on = x_slots[s].on
        /\ [x_slots[s] EXCEPT !.queued = @ - 1].port = x_slots[s].port
    BY <1>1 DEF SlotStates
  <2>2. x_slots' = [x_slots EXCEPT ![s] = [x_slots[s] EXCEPT !.queued = @ - 1]]
    BY <1>2
  <2>3. PICK slot \in SlotStates : /\ slot = [x_slots[s] EXCEPT !.queued = @ - 1]
                                   /\ slot.on = x_slots[s].on /\ slot.port = x_slots[s].port
    BY <2>1
  <2>4. x_slots' = [x_slots EXCEPT ![s] = slot]
    BY <2>2, <2>3
  <2> QED BY <1>1, <2>3, <2>4
<1> QED BY <1>1, <1>2, <1>3, <1>4, QuietTold, QuietKeeps

LEMMA PlugKeeps ==
    ASSUME XhciOk, Plug
    PROVE  XhciOk'
<1>1. x_events \in Seq(UsbEvents) /\ x_slots \in [SlotNumbers -> SlotStates]
      /\ x_transfers \subseteq UsbTransfers
  BY DEF XhciOk, XhciTyped
<1>2. Event("port", 0, TRUE) \in UsbEvents /\ Event("port", 0, TRUE).type # "command"
  BY XhciAssumption DEF Event, UsbEvents
<1> QED BY <1>1, <1>2, QuietTold, QuietKeeps DEF Plug, Tell

(* A transfer is carried out: the one that reads the descriptor is of the  *)
(* slot of the role, and so of its port.                                   *)
LEMMA TransferDoneKeeps ==
    ASSUME XhciOk, NEW t \in x_transfers, CompleteTransfer(t)
    PROVE  XhciOk'
<1>1. x_events \in Seq(UsbEvents) /\ x_slots \in [SlotNumbers -> SlotStates]
      /\ x_transfers \subseteq UsbTransfers
  BY DEF XhciOk, XhciTyped
<1>2. PICK number, answer : number = x_slots[t.slot].port
                          /\ answer = Event("transfer", t.slot, x_ports[number] \in Roles)
  OBVIOUS
<1>3. /\ x_transfers' = x_transfers \ {t}
      /\ x_read' = IF t.step = "config" THEN x_ports[number] ELSE x_read
      /\ x_events' = Append(x_events, answer)
      /\ UNCHANGED <<x_ports, x_slots, x_role, x_at, x_commands>>
  BY <1>2 DEF CompleteTransfer, Tell
<1>4. answer \in UsbEvents /\ answer.type # "command"
  BY <1>1, <1>2 DEF Event, UsbEvents, UsbTransfers
<1>5. QuietEvents(x_events, x_events')
  BY <1>1, <1>3, <1>4, QuietTold
<1>6. CASE t.step # "config"
  BY <1>1, <1>3, <1>5, <1>6, QuietKeeps
<1>7. CASE t.step = "config"
  <2>1. /\ x_at.step = "config" \/ (x_at.step = "disable" /\ x_commands # << >>)
        /\ \A q \in x_transfers : q.step = "config" => q.slot = x_role[x_at.role].slot
    BY <1>7 DEF XhciOk, OwnDescriptor
  <2>2. \A q \in x_transfers : q.step = "config" => q = t
    <3>1. ASSUME NEW q \in x_transfers, q.step = "config" PROVE q = t
      <4>1. q \in UsbTransfers /\ t \in UsbTransfers /\ q.slot = t.slot /\ q.step = t.step
        BY <1>1, <1>7, <2>1, <3>1
      <4> QED BY <4>1 DEF UsbTransfers
    <3> QED BY <3>1
  <2>3. x_at.step = "config" => x_read' = x_ports[x_at.port]
    BY <1>2, <1>3, <1>7, <2>1 DEF XhciOk, RoleInWork, Working, ControlSteps, Addressed, AtPort
  <2>4. OwnDescriptor'
    BY <1>3, <2>1, <2>2, <2>3 DEF OwnDescriptor
  <2> QED BY <1>1, <1>3, <1>5, <2>4, QuietKeepsAll
<1> QED BY <1>6, <1>7

(* A command is answered: what it did is only to slots of no earlier role. *)
LEMMA AnsweringKeeps ==
    ASSUME XhciOk, CommandPosted, NEW answer \in UsbEvents, answer.type = "command",
           x_events' = Append(x_events, answer), x_commands' = << >>,
           UNCHANGED <<x_ports, x_role, x_at, x_read>>,
           x_slots' \in [SlotNumbers -> SlotStates],
           \A s \in SlotNumbers : ~OfNoRole(s) => x_slots'[s] = x_slots[s],
           x_at.step = "configure" => x_slots' = x_slots,
           x_transfers' \subseteq x_transfers, \A t \in x_transfers' : t.step # "config",
           x_at.step = "enable" /\ answer.ok => OfNoRole(answer.slot),
           x_at.step = "address" /\ answer.ok => AtPort(x_role[x_at.role].slot)'
    PROVE  XhciOk'
<1>1. /\ x_events \in Seq(UsbEvents) /\ NoCommandIn(x_events)
      /\ x_at.step \in CommandSteps /\ x_at.step \in Working
  BY DEF XhciOk, XhciTyped, CommandPosted, Working
<1>2. XhciTyped'
  BY <1>1, EventTold DEF XhciOk, XhciTyped
<1>3. RolesSoFar' /\ \A r : Before(r)' <=> Before(r)
  BY RolesKept DEF XhciOk
<1>4. \A s : OfNoRole(s) => OfNoRole(s)'
  <2> HIDE DEF Before
  <2> QED BY <1>3 DEF OfNoRole
<1>5. RoleInWork'
  <2>1. x_at.step \in Addressed => x_at.step = "configure"
    BY <1>1 DEF CommandSteps, Addressed
  <2>2. x_at.step = "configure" => \A s : AtPort(s) => AtPort(s)'
    BY DEF AtPort
  <2> QED BY <1>1, <1>4, <2>1, <2>2 DEF XhciOk, RoleInWork
<1>6. RightAnswer(answer.ok, answer.slot)'
  BY <1>4 DEF RightAnswer
<1>7. ASSUME NEW e \in UsbEvents, Among(e, x_events'), e.type = "command"
      PROVE  e = answer
  BY <1>1, <1>7, EventTold DEF Among, NoCommandIn
<1>8. CommandAnswered'
  <2>1. \A e \in UsbEvents : Among(e, x_events') /\ e.type = "command" => RightAnswer(e.ok, e.slot)'
    BY <1>6, <1>7
  <2> QED BY <1>1, <2>1, OneCommandTold DEF CommandAnswered
<1>9. OwnDescriptor'
  <2>1. x_at'.step # "config"
    BY <1>1 DEF CommandSteps
  <2> QED BY <2>1 DEF OwnDescriptor
<1> QED BY <1>2, <1>3, <1>5, <1>8, <1>9 DEF XhciOk, AnswersOwn

(* The controller carries a command out.                                   *)
LEMMA CommandDoneKeeps ==
    ASSUME XhciOk, CompleteCommand
    PROVE  XhciOk'
<1>1. PICK command : command = Head(x_commands)
  OBVIOUS
<1>2. x_commands # << >>
  BY DEF CompleteCommand
<1>3. CommandPosted
  BY <1>2 DEF XhciOk, AnswersOwn, CommandAnswered, NoCommandOut
<1>4. /\ command.step = x_at.step /\ command.slot = x_role[x_at.role].slot /\ command.port = x_at.port
      /\ x_at.step \in CommandSteps /\ Tail(x_commands) = << >>
  BY <1>1, <1>3 DEF CommandPosted
<1>5. /\ x_commands' = << >> /\ UNCHANGED <<x_ports, x_role, x_at, x_read>>
      /\ CASE command.step = "enable" /\ FreeSlots # {} ->
                \E s \in FreeSlots :
                   /\ x_slots' = [x_slots EXCEPT ![s] = [NoSlot EXCEPT !.on = TRUE]]
                   /\ x_events' = Append(x_events, Event("command", s, TRUE))
                   /\ UNCHANGED x_transfers
           [] command.step = "enable" /\ FreeSlots = {} ->
                /\ x_events' = Append(x_events, Event("command", 0, FALSE))
                /\ UNCHANGED <<x_slots, x_transfers>>
           [] command.step = "address" ->
                /\ x_slots' = [x_slots EXCEPT ![command.slot].port =
                                  IF x_slots[command.slot].on THEN command.port ELSE @]
                /\ x_events' = Append(x_events, Event("command", command.slot, x_slots[command.slot].on))
                /\ UNCHANGED x_transfers
           [] command.step = "disable" ->
                /\ x_slots' = [x_slots EXCEPT ![command.slot] = NoSlot]
                /\ x_transfers' = {t \in x_transfers : t.slot # command.slot}
                /\ x_events' = Append(x_events, Event("command", command.slot, TRUE))
           [] OTHER ->
                /\ x_events' = Append(x_events, Event("command", command.slot, x_slots[command.slot].on))
                /\ UNCHANGED <<x_slots, x_transfers>>
  BY <1>1, <1>4 DEF CompleteCommand, Tell
<1>6. x_slots \in [SlotNumbers -> SlotStates] /\ NoSlot \in SlotStates
  BY XhciAssumption DEF XhciOk, XhciTyped, NoSlot, SlotStates
<1>7. \A s \in 0 .. UsbSlots, ok \in BOOLEAN :
         /\ Event("command", s, ok) \in UsbEvents /\ Event("command", s, ok).type = "command"
         /\ Event("command", s, ok).slot = s /\ Event("command", s, ok).ok = ok
  BY DEF Event, UsbEvents
<1>8. SlotNumbers \subseteq 0 .. UsbSlots /\ 0 \in 0 .. UsbSlots
  BY XhciAssumption DEF SlotNumbers
<1>9. command.step # "enable" => command.slot \in SlotNumbers /\ OfNoRole(command.slot)
  BY <1>4 DEF XhciOk, RoleInWork, Working, OfNoRole
<1>10. x_at.step # "disable" => \A t \in x_transfers : t.step # "config"
  BY <1>4 DEF XhciOk, OwnDescriptor, CommandSteps
<1>11. ASSUME NEW s \in FreeSlots PROVE OfNoRole(s)
  BY DEF FreeSlots, OfNoRole, XhciOk, RolesSoFar, Filled
<1>12. CASE command.step = "enable" /\ FreeSlots # {}
  <2>1. PICK s \in FreeSlots :
           /\ x_slots' = [x_slots EXCEPT ![s] = [NoSlot EXCEPT !.on = TRUE]]
           /\ x_events' = Append(x_events, Event("command", s, TRUE))
           /\ UNCHANGED x_transfers
    BY <1>5, <1>12
  <2>2. OfNoRole(s) /\ s \in SlotNumbers /\ s \in 0 .. UsbSlots
    BY <1>8, <1>11 DEF FreeSlots
  <2>3. [NoSlot EXCEPT !.on = TRUE] \in SlotStates
    BY <1>6 DEF SlotStates
  <2>4. x_slots' \in [SlotNumbers -> SlotStates] /\ \A q \in SlotNumbers : q # s => x_slots'[q] = x_slots[q]
    BY <1>6, <2>1, <2>2, <2>3
  <2>5. PICK answer : answer = Event("command", s, TRUE)
    OBVIOUS
  <2>6. answer \in UsbEvents /\ answer.type = "command" /\ answer.slot = s
    BY <1>7, <2>2, <2>5
  <2>7. /\ x_at.step = "enable" /\ x_events' = Append(x_events, answer)
        /\ \A q \in SlotNumbers : ~OfNoRole(q) => x_slots'[q] = x_slots[q]
        /\ x_transfers' \subseteq x_transfers /\ \A t \in x_transfers' : t.step # "config"
    BY <1>4, <1>10, <1>12, <2>1, <2>2, <2>4, <2>5
  <2> QED BY <1>3, <1>5, <2>2, <2>4, <2>6, <2>7, AnsweringKeeps
<1>13. CASE command.step = "enable" /\ FreeSlots = {}
  <2>1. /\ x_events' = Append(x_events, Event("command", 0, FALSE))
        /\ UNCHANGED <<x_slots, x_transfers>>
    BY <1>5, <1>13
  <2>2. PICK answer : answer = Event("command", 0, FALSE)
    OBVIOUS
  <2> QED BY <1>3, <1>4, <1>5, <1>6, <1>7, <1>8, <1>10, <1>13, <2>1, <2>2, AnsweringKeeps
<1>14. CASE command.step = "address"
  <2>1. /\ x_slots' = [x_slots EXCEPT ![command.slot].port =
                          IF x_slots[command.slot].on THEN command.port ELSE @]
        /\ x_events' = Append(x_events, Event("command", command.slot, x_slots[command.slot].on))
        /\ UNCHANGED x_transfers
    BY <1>5, <1>14
  <2>2. command.slot \in SlotNumbers /\ OfNoRole(command.slot) /\ command.port \in 0 .. UsbPorts
    BY <1>4, <1>9, <1>14 DEF XhciOk, XhciTyped, Places
  <2>3. PICK slot \in SlotStates :
           /\ x_slots' = [x_slots EXCEPT ![command.slot] = slot]
           /\ slot.on = x_slots[command.slot].on
           /\ slot.on => slot.port = command.port
    <3>1. PICK number \in 0 .. UsbPorts :
             /\ number = IF x_slots[command.slot].on THEN command.port ELSE x_slots[command.slot].port
             /\ x_slots[command.slot].on => number = command.port
      BY <1>6, <2>2 DEF SlotStates
    <3>2. PICK slot : slot = [x_slots[command.slot] EXCEPT !.port = number]
      OBVIOUS
    <3>3. slot \in SlotStates /\ slot.on = x_slots[command.slot].on /\ slot.port = number
      BY <1>6, <2>2, <3>1, <3>2 DEF SlotStates
    <3>4. x_slots' = [x_slots EXCEPT ![command.slot] = slot]
      BY <2>1, <3>1, <3>2
    <3> QED BY <3>1, <3>3, <3>4
  <2>4. /\ x_slots' \in [SlotNumbers -> SlotStates] /\ x_slots'[command.slot] = slot
        /\ \A q \in SlotNumbers : q # command.slot => x_slots'[q] = x_slots[q]
    BY <1>6, <2>2, <2>3
  <2>5. slot.on => AtPort(x_role[x_at.role].slot)'
    BY <1>4, <1>5, <2>3, <2>4 DEF AtPort
  <2>6. PICK answer : answer = Event("command", command.slot, x_slots[command.slot].on)
    OBVIOUS
  <2>7. answer \in UsbEvents /\ answer.type = "command" /\ answer.ok = slot.on
    <3>1. x_slots[command.slot].on \in BOOLEAN
      BY <1>6, <2>2 DEF SlotStates
    <3> QED BY <1>7, <1>8, <2>2, <2>3, <2>6, <3>1, Zenon
  <2>8. /\ \A s \in SlotNumbers : ~OfNoRole(s) => x_slots'[s] = x_slots[s]
        /\ x_events' = Append(x_events, answer)
        /\ x_transfers' \subseteq x_transfers /\ \A t \in x_transfers' : t.step # "config"
        /\ x_at.step # "configure" /\ x_at.step # "enable"
    BY <1>4, <1>10, <1>14, <2>1, <2>2, <2>4, <2>6
  <2> QED BY <1>3, <1>5, <2>4, <2>5, <2>7, <2>8, AnsweringKeeps
<1>15. CASE command.step = "disable"
  <2>1. /\ x_slots' = [x_slots EXCEPT ![command.slot] = NoSlot]
        /\ x_transfers' = {t \in x_transfers : t.slot # command.slot}
        /\ x_events' = Append(x_events, Event("command", command.slot, TRUE))
    BY <1>5, <1>15
  <2>2. command.slot \in SlotNumbers /\ OfNoRole(command.slot)
    BY <1>9, <1>15
  <2>3. /\ x_slots' \in [SlotNumbers -> SlotStates]
        /\ \A s \in SlotNumbers : ~OfNoRole(s) => x_slots'[s] = x_slots[s]
    BY <1>6, <2>1, <2>2
  <2>4. \A t \in x_transfers' : t.step # "config"
    BY <1>4, <2>1 DEF XhciOk, OwnDescriptor
  <2>5. PICK answer : answer = Event("command", command.slot, TRUE)
    OBVIOUS
  <2>6. answer \in UsbEvents /\ answer.type = "command"
    BY <1>7, <1>8, <2>2, <2>5
  <2>7. x_at.step = "disable" /\ x_transfers' \subseteq x_transfers
    BY <1>4, <1>15, <2>1
  <2> QED BY <1>3, <1>5, <2>1, <2>3, <2>4, <2>5, <2>6, <2>7, AnsweringKeeps
<1>16. CASE command.step = "configure"
  <2>1. /\ x_events' = Append(x_events, Event("command", command.slot, x_slots[command.slot].on))
        /\ UNCHANGED <<x_slots, x_transfers>>
    BY <1>5, <1>16
  <2>2. command.slot \in SlotNumbers
    BY <1>9, <1>16
  <2>3. PICK answer : answer = Event("command", command.slot, x_slots[command.slot].on)
    OBVIOUS
  <2>4. answer \in UsbEvents /\ answer.type = "command"
    <3>1. x_slots[command.slot].on \in BOOLEAN
      BY <1>6, <2>2 DEF SlotStates
    <3> QED BY <1>7, <1>8, <2>2, <2>3, <3>1, Zenon
  <2> QED BY <1>3, <1>4, <1>5, <1>6, <1>10, <1>16, <2>1, <2>3, <2>4, AnsweringKeeps
<1> QED BY <1>4, <1>12, <1>13, <1>14, <1>15, <1>16 DEF CommandSteps

(* Only a wait for a command that runs out makes the driver's view of the  *)
(* controller a late one.                                                  *)
LEMMA StepCounted ==
    ASSUME XhciInv,
           \/ UNCHANGED x_counts
           \/ \E more : \/ x_counts' = [x_counts EXCEPT !.timeouts = more] /\ more \in Nat
                        \/ x_counts' = [x_counts EXCEPT !.resets = more] /\ more \in Nat
                        \/ x_counts' = [x_counts EXCEPT !.plugs = more] /\ more \in Nat
                        \/ x_counts' = [x_counts EXCEPT !.transfers = more] /\ more \in Nat,
           XhciOk => XhciOk'
    PROVE  XhciInv'
<1>1. x_counts \in [resets : Nat, timeouts : Nat, late : Nat, plugs : Nat, transfers : Nat]
  BY DEF XhciInv
<1>2. /\ x_counts' \in [resets : Nat, timeouts : Nat, late : Nat, plugs : Nat, transfers : Nat]
      /\ x_counts'.late = x_counts.late
  BY <1>1
<1> QED BY <1>2 DEF XhciInv

LEMMA XhciStepKeepsInv == XhciInv /\ [XhciNext]_xhciVars => XhciInv'
<1> SUFFICES ASSUME XhciInv, [XhciNext]_xhciVars PROVE XhciInv'
  OBVIOUS
<1>1. x_counts \in [resets : Nat, timeouts : Nat, late : Nat, plugs : Nat, transfers : Nat]
  BY DEF XhciInv
<1>2. /\ x_counts.resets + 1 \in Nat /\ x_counts.timeouts + 1 \in Nat
      /\ x_counts.plugs + 1 \in Nat /\ x_counts.transfers + 1 \in Nat
  BY <1>1
<1>3. ASSUME NEW event \in BOOLEAN, NEW ready \in BOOLEAN, TryPort(event, ready) PROVE XhciInv'
  <2>1. UNCHANGED x_counts \/ x_counts' = [x_counts EXCEPT !.resets = x_counts.resets + 1]
    BY <1>3 DEF TryPort, ResetPort
  <2> QED BY <1>2, <1>3, <2>1, TryPortKeeps, StepCounted
<1>4. CASE NoPortLeft
  BY <1>4, NoPortLeftKeeps, StepCounted DEF NoPortLeft
<1>5. CASE WaitCommand
  BY <1>5, WaitCommandKeeps, StepCounted DEF WaitCommand
<1>6. CASE WaitTransfer
  BY <1>6, WaitTransferKeeps, StepCounted DEF WaitTransfer
<1>7. CASE StepTimeout
  BY <1>7, StepTimeoutKeeps
<1>8. CASE PollDevices
  BY <1>8, PollKeeps, StepCounted DEF PollDevices
<1>9. CASE BeginBulk
  <2>1. x_counts' = [x_counts EXCEPT !.transfers = x_counts.transfers + 1]
    BY <1>9 DEF BeginBulk
  <2> QED BY <1>2, <1>9, <2>1, BulkBegunKeeps, StepCounted
<1>10. CASE WaitStorage
  BY <1>10, WaitStorageKeeps, StepCounted DEF WaitStorage
<1>11. CASE BulkTimeout
  <2>1. x_counts' = [x_counts EXCEPT !.timeouts = x_counts.timeouts + 1]
    BY <1>11 DEF BulkTimeout
  <2> QED BY <1>2, <1>11, <2>1, BulkTimeoutKeeps, StepCounted
<1>12. CASE CompleteCommand
  BY <1>12, CommandDoneKeeps, StepCounted DEF CompleteCommand
<1>13. ASSUME NEW t \in x_transfers, CompleteTransfer(t) PROVE XhciInv'
  BY <1>13, TransferDoneKeeps, StepCounted DEF CompleteTransfer
<1>14. ASSUME NEW s \in SlotNumbers, Report(s) PROVE XhciInv'
  BY <1>14, ReportKeeps, StepCounted DEF Report
<1>15. CASE Plug
  <2>1. x_counts' = [x_counts EXCEPT !.plugs = x_counts.plugs + 1]
    BY <1>15 DEF Plug
  <2> QED BY <1>2, <1>15, <2>1, PlugKeeps, StepCounted
<1>16. CASE UNCHANGED xhciVars
  <2>1. XhciOk => XhciOk'
    <3>1. ASSUME XhciOk PROVE XhciOk'
      <4>1. UNCHANGED <<x_ports, x_slots, x_role, x_at, x_read, x_commands, x_transfers, x_events>>
        BY <1>16 DEF xhciVars
      <4>2. x_events \in Seq(UsbEvents) /\ x_slots \in [SlotNumbers -> SlotStates]
            /\ x_transfers \subseteq UsbTransfers
        BY <3>1 DEF XhciOk, XhciTyped
      <4> QED BY <3>1, <4>1, <4>2, QuietSame, QuietKeeps
    <3> QED BY <3>1
  <2> QED BY <1>16, <2>1, StepCounted DEF xhciVars
<1> QED BY <1>3, <1>4, <1>5, <1>6, <1>7, <1>8, <1>9, <1>10, <1>11, <1>12, <1>13, <1>14, <1>15, <1>16
       DEF XhciNext

LEMMA XhciInitInv == XhciInit => XhciInv
<1> SUFFICES ASSUME XhciInit PROVE XhciInv
  OBVIOUS
<1>1. /\ x_ports \in [PortNumbers -> UsbKinds]
      /\ x_slots = [s \in SlotNumbers |-> NoSlot]
      /\ x_role = [r \in Roles |-> Missing]
      /\ x_at.role = "keyboard" /\ x_at.port = 0 /\ x_at.step = "port"
      /\ x_commands = << >> /\ x_transfers = {} /\ x_events = << >>
      /\ x_at = [role |-> "keyboard", port |-> 0, step |-> "port"]
  BY DEF XhciInit
<1>2. XhciTyped
  <2>1. NoSlot \in SlotStates /\ Missing \in [port : 0 .. UsbPorts, slot : 0 .. UsbSlots]
    BY XhciAssumption DEF NoSlot, SlotStates, Missing
  <2>2. x_at \in Places
    BY <1>1, XhciAssumption DEF Places, Roles
  <2>3. x_events \in Seq(UsbEvents) /\ x_transfers \subseteq UsbTransfers
    BY <1>1
  <2> QED BY <1>1, <2>1, <2>2, <2>3 DEF XhciTyped
<1>3. \A r : ~Before(r)
  BY <1>1 DEF Before, Earlier
<1>4. RolesSoFar
  <2> HIDE DEF Before
  <2> QED BY <1>1, <1>3 DEF RolesSoFar
<1>5. RoleInWork /\ NoCommandOut /\ OwnDescriptor
  BY <1>1 DEF RoleInWork, NoCommandOut, NoCommandIn, OwnDescriptor, Working, CommandSteps, ControlSteps
<1>6. x_counts \in [resets : Nat, timeouts : Nat, late : Nat, plugs : Nat, transfers : Nat]
  BY DEF XhciInit
<1> QED BY <1>2, <1>4, <1>5, <1>6 DEF XhciInv, XhciOk, AnswersOwn

(* Once the controller is up every role that was looked for is an earlier  *)
(* one.                                                                    *)
LEMMA XhciInvRolesRight == XhciInv => UsbRolesRight
<1>1. SUFFICES ASSUME XhciInv, x_at.step = "up", x_counts.late = 0 PROVE RolesFilled
  BY DEF UsbRolesRight
<1>2. XhciOk /\ x_at.role = "none"
  BY <1>1 DEF XhciInv, XhciOk, RolesSoFar
<1>3. PICK devices \in Nat : devices = ConnectedPorts
  BY DevicesCounted
<1>4. /\ Before("keyboard")
      /\ Before("mouse") <=> devices > 1
      /\ Before("storage") <=> devices > 2
  BY <1>2, <1>3 DEF Before, Earlier
<1>5. \A r \in Roles : Before(r) => Filled(r)
  BY <1>2 DEF XhciOk, RolesSoFar
<1>6. \A r \in Roles : ~Before(r) => x_role[r] = Missing
  <2> HIDE DEF Before
  <2> QED BY <1>2 DEF XhciOk, RolesSoFar, Roles
<1>7. \A r \in Roles : Before(r) <=> x_role[r].port # 0
  BY <1>5, <1>6 DEF Filled, Missing
<1>8. /\ x_role["keyboard"].port # 0
      /\ ConnectedPorts > 1 => x_role["mouse"].port # 0
      /\ ConnectedPorts > 2 => x_role["storage"].port # 0
  BY <1>3, <1>4, <1>7 DEF Roles
<1>9. \A r \in Roles : x_role[r].port # 0 =>
         /\ x_ports[x_role[r].port] = r
         /\ x_slots[x_role[r].slot].on /\ x_slots[x_role[r].slot].port = x_role[r].port
  BY <1>5, <1>7 DEF Filled
<1>10. \A r \in Roles : x_role[r].slot # 0 => Before(r)
  BY <1>6 DEF Missing
<1>11. \A r, q \in Roles : x_role[r].slot = x_role[q].slot /\ x_role[r].slot # 0 => r = q
  <2> HIDE DEF Before
  <2> QED BY <1>2, <1>10 DEF XhciOk, RolesSoFar
<1> QED BY <1>8, <1>9, <1>11 DEF RolesFilled

-----------------------------------------------------------------------------
(* However the devices are plugged in and whatever is typed while they are *)
(* looked for, every role ends with a device of its kind, on the port that *)
(* the slot has the address of, and with a slot no other role has; events  *)
(* of other slots, and waits for transfers that run out, change nothing of *)
(* this, as long as no wait for a command runs out.                        *)
THEOREM RolesCorrect == XhciSpec => []UsbRolesRight
<1>1. XhciInit => XhciInv
  BY XhciInitInv
<1>2. XhciInv /\ [XhciNext]_xhciVars => XhciInv'
  BY XhciStepKeepsInv
<1>3. XhciInv => UsbRolesRight
  BY XhciInvRolesRight
<1> QED BY <1>1, <1>2, <1>3, PTL DEF XhciSpec

-----------------------------------------------------------------------------
(* What has been spent of the event ring: a step of the search for a       *)
(* keyboard or mouse comes after as many events as it has steps before it, *)
(* and every report that was asked for again after one that was taken.     *)
EventsSpent ==
    /\ x_at \in Places /\ (x_at.role = "none" <=> x_at.step = "up")
    /\ x_at.step = "scsi" => x_at.role = "storage"
    /\ x_at.role # "none" => ~x_io
    /\ x_taken \in 0 .. UsbRing /\ x_asked \in [InputRoles -> Nat]
    /\ \A r \in InputRoles : x_asked[r] > 0 => x_asked[r] + 6 <= x_taken + 1
    /\ x_at.role # "keyboard" => x_asked["keyboard"] > 0
    /\ x_at.role \in InputRoles /\ x_at.step \in Working \ {"disable"}
          => Here(x_at.role, x_at.step) <= x_taken + 1

(* The steps of a keyboard or mouse are in this order.                     *)
LEMMA InputStepsInOrder ==
    ASSUME NEW role \in InputRoles
    PROVE  /\ Here(role, "enable") = 1 /\ Here(role, "configure") = 6
           /\ \A i \in 1 .. 6 : Here(role, Steps(role)[i]) = i
<1>1. Steps(role) = KeyboardSteps
  BY DEF Steps, MouseSteps, InputRoles
<1>2. PICK steps : steps = KeyboardSteps
  OBVIOUS
<1>3. /\ DOMAIN steps = 1 .. 6
      /\ steps[1] = "enable" /\ steps[2] = "address" /\ steps[3] = "device"
      /\ steps[4] = "config" /\ steps[5] = "set" /\ steps[6] = "configure"
  BY <1>2 DEF KeyboardSteps
<1>4. ASSUME NEW i \in 1 .. 6 PROVE Here(role, steps[i]) = i
  <2>1. \A j \in 1 .. 6 : steps[j] = steps[i] => j = i
    BY <1>3, <1>4
  <2>2. (CHOOSE j \in 1 .. 6 : steps[j] = steps[i]) = i
    BY <1>4, <2>1, Zenon
  <2> QED BY <1>1, <1>2, <1>3, <2>2, Zenon DEF Here
<1>5. 1 \in 1 .. 6 /\ 6 \in 1 .. 6
  OBVIOUS
<1> QED BY <1>1, <1>2, <1>3, <1>4, <1>5, Zenon

(* The end of a step, for which an event was taken if it went well         *)
LEMMA StepEndsSpends ==
    ASSUME EventsSpent, x_at.step \in Working, NEW ok, NEW slot, StepEnds(ok, slot),
           x_taken' \in 0 .. UsbRing, x_taken' >= x_taken, ok => x_taken' = x_taken + 1,
           UNCHANGED x_io
    PROVE  EventsSpent'
<1>1. x_at.role \in Roles /\ (x_at.step = "scsi" => x_at.role = "storage") /\ x_at.step # "up"
  BY DEF EventsSpent, Places, Working, CommandSteps, ControlSteps
<1>2. \A r \in InputRoles : x_asked[r] > 0 => x_asked[r] + 6 <= x_taken' + 1
  BY DEF EventsSpent
<1>3. CASE x_at' = [x_at EXCEPT !.step = "port"] /\ UNCHANGED x_asked
  <2>1. x_at' \in Places /\ x_at'.role = x_at.role /\ x_at'.step = "port"
    BY <1>3 DEF EventsSpent, Places
  <2> QED BY <1>1, <1>2, <1>3, <2>1 DEF EventsSpent, Working, CommandSteps, ControlSteps
<1>4. ASSUME NEW next, x_at' = [x_at EXCEPT !.step = next], UNCHANGED x_asked,
             \/ next = "disable"
             \/ /\ Follows(x_at.role, x_at.step, next) /\ ok
                /\ next = Steps(x_at.role)[Here(x_at.role, x_at.step) + 1]
      PROVE  EventsSpent'
  <2>1. next \in Working /\ next # "up" /\ next # "port" /\ (next = "scsi" => x_at.role = "storage")
    BY <1>4 DEF Follows, Working, CommandSteps, ControlSteps
  <2>2. x_at' \in Places /\ x_at'.role = x_at.role /\ x_at'.step = next
    BY <1>4, <2>1 DEF EventsSpent, Places
  <2>3. ASSUME x_at.role \in InputRoles, next # "disable"
        PROVE  Here(x_at.role, next) <= x_taken' + 1
    <3>1. x_at.step \in Working \ {"disable", "scsi"} /\ ok
      BY <1>1, <1>4, <2>3 DEF InputRoles, Follows, Addressed, Recognized, Working, CommandSteps,
         ControlSteps
    <3>2. PICK here : here = Here(x_at.role, x_at.step)
      OBVIOUS
    <3>3. here \in 1 .. 6 /\ (here = 6 => x_at.step = "configure")
      BY <2>3, <3>1, <3>2, InputStepsAre
    <3>4. x_at.step # "configure"
      BY <1>4, <2>3 DEF Follows, InputRoles
    <3>5. here + 1 \in 1 .. 6
      BY <3>3, <3>4
    <3>6. Here(x_at.role, next) = here + 1
      BY <1>4, <2>3, <3>2, <3>5, InputStepsInOrder
    <3>7. here <= x_taken + 1 /\ x_taken \in Nat
      BY <2>3, <3>1, <3>2 DEF EventsSpent
    <3> QED BY <3>1, <3>3, <3>6, <3>7
  <2> QED BY <1>1, <1>2, <1>4, <2>1, <2>2, <2>3 DEF EventsSpent
<1>5. CASE ok /\ x_at.step \in Recognized /\ x_at.step # "set"
           /\ (x_at.step = "scsi" <=> x_at.role = "storage") /\ RoleFilled
  <2>1. PICK next : next = NextRole
    OBVIOUS
  <2>2. /\ x_at' = [role |-> next, port |-> 0, step |-> IF next = "none" THEN "up" ELSE "port"]
        /\ x_asked' = IF x_at.role \in InputRoles THEN [x_asked EXCEPT ![x_at.role] = 1] ELSE x_asked
    BY <1>5, <2>1 DEF RoleFilled, AskForReport
  <2>3. next \in {"mouse", "storage", "none"}
    BY <2>1 DEF NextRole
  <2>4. /\ x_at' \in Places /\ x_at'.role = next /\ x_at'.step \in {"up", "port"}
        /\ x_at'.step = "up" <=> next = "none"
    BY <2>2, <2>3, XhciAssumption DEF Places, Roles
  <2>5. ASSUME x_at.role \in InputRoles PROVE 1 + 6 <= x_taken' + 1
    <3>1. x_at.step = "configure"
      BY <1>5, <2>5 DEF Recognized, InputRoles
    <3>2. 6 <= x_taken + 1 /\ x_taken \in Nat
      BY <2>5, <3>1, InputStepsInOrder DEF EventsSpent, Working, CommandSteps
    <3> QED BY <1>5, <3>2
  <2>6. x_asked' \in [InputRoles -> Nat]
    BY <2>2 DEF EventsSpent
  <2>7. \A r \in InputRoles : x_asked'[r] > 0 => x_asked'[r] + 6 <= x_taken' + 1
    BY <1>2, <2>2, <2>5 DEF EventsSpent
  <2>8. x_asked'["keyboard"] > 0
    BY <1>1, <2>2 DEF EventsSpent, InputRoles, Roles
  <2>9. ~x_io'
    BY <1>1 DEF EventsSpent, Roles
  <2> QED BY <2>4, <2>6, <2>7, <2>8, <2>9 DEF EventsSpent, Working, CommandSteps, ControlSteps
<1>6. \/ x_at' = [x_at EXCEPT !.step = "port"] /\ UNCHANGED x_asked
      \/ /\ ok /\ x_at.step \in Recognized /\ x_at.step # "set"
         /\ x_at.step = "scsi" <=> x_at.role = "storage"
         /\ RoleFilled
      \/ /\ UNCHANGED x_asked
         /\ \E next : /\ Post(next, SlotOf(ok, slot))
                      /\ \/ next = "disable"
                         \/ /\ Follows(x_at.role, x_at.step, next) /\ ok
                            /\ next = Steps(x_at.role)[Here(x_at.role, x_at.step) + 1]
  <2>1. StepLeads(ok, slot)
    BY <1>1, StepEndsIn
  <2> QED BY <2>1, Zenon DEF StepLeads
<1>7. \A next, mine : Post(next, mine) => x_at' = [x_at EXCEPT !.step = next]
  BY Zenon DEF Post
<1> QED BY <1>3, <1>4, <1>5, <1>6, <1>7, Zenon

(* An event is taken, by a poll when it is a report.                       *)
LEMMA ReportSpends ==
    ASSUME EventsSpent, TakeReport, EventFound, x_at.role # "keyboard", UNCHANGED <<x_at, x_io>>
    PROVE  EventsSpent'
<1>1. PICK r \in InputRoles : x_asked' = [x_asked EXCEPT ![r] = x_asked[r] + 1]
  BY DEF TakeReport, AskForReport, PolledRole, InputRoles
<1>2. x_taken' = x_taken + 1 /\ x_taken' \in 0 .. UsbRing /\ x_taken \in Nat
  BY XhciAssumption DEF TakeReport, TakeEvent, EventFound, EventsSpent
<1>3. x_asked["keyboard"] + 6 <= x_taken + 1 /\ x_asked["keyboard"] > 0 /\ x_asked["keyboard"] \in Nat
  BY DEF EventsSpent, InputRoles
<1>4. x_asked' \in [InputRoles -> Nat]
  BY <1>1 DEF EventsSpent
<1>5. ASSUME NEW q \in InputRoles, x_asked'[q] > 0 PROVE x_asked'[q] + 6 <= x_taken' + 1
  <2>1. x_asked[q] \in Nat /\ (x_asked[q] > 0 => x_asked[q] + 6 <= x_taken + 1)
    BY DEF EventsSpent
  <2>2. x_asked'[q] = x_asked[q] \/ x_asked'[q] = x_asked[q] + 1
    BY <1>1 DEF EventsSpent
  <2> QED BY <1>2, <1>3, <2>1, <2>2
<1>6. x_asked'["keyboard"] > 0
  BY <1>1, <1>3 DEF EventsSpent, InputRoles
<1>7. /\ x_at.role \in InputRoles /\ x_at.step \in Working \ {"disable"}
         => Here(x_at.role, x_at.step) <= x_taken' + 1
  <2>1. ASSUME x_at.role \in InputRoles, x_at.step \in Working \ {"disable"}
        PROVE  Here(x_at.role, x_at.step) <= x_taken' + 1
    <3>1. x_at.step # "scsi"
      BY <2>1 DEF EventsSpent, InputRoles
    <3>2. Here(x_at.role, x_at.step) \in Nat /\ Here(x_at.role, x_at.step) <= x_taken + 1
      BY <2>1, <3>1, InputStepsAre DEF EventsSpent
    <3> QED BY <1>2, <3>2
  <2> QED BY <2>1
<1> QED BY <1>2, <1>4, <1>5, <1>6, <1>7 DEF EventsSpent

LEMMA EventPassed ==
    ASSUME EventsSpent, x_taken' \in {x_taken, x_taken + 1}, x_taken' \in 0 .. UsbRing,
           UNCHANGED <<x_at, x_asked>>, x_at.role # "none" => ~x_io'
    PROVE  EventsSpent'
<1>1. x_taken \in Nat /\ x_taken' \in Nat /\ x_taken' >= x_taken
  BY DEF EventsSpent
<1>2. ASSUME x_at.role \in InputRoles, x_at.step \in Working \ {"disable"}
      PROVE  Here(x_at.role, x_at.step) <= x_taken' + 1
  <2>1. x_at.step # "scsi"
    BY <1>2 DEF EventsSpent, InputRoles
  <2>2. Here(x_at.role, x_at.step) \in Nat /\ Here(x_at.role, x_at.step) <= x_taken + 1
    BY <1>2, <2>1, InputStepsAre DEF EventsSpent
  <2> QED BY <1>1, <2>2
<1>3. \A r \in InputRoles : x_asked[r] > 0 => x_asked[r] + 6 <= x_taken' + 1
  BY <1>1 DEF EventsSpent
<1> QED BY <1>2, <1>3 DEF EventsSpent

LEMMA EventsSpentStep == EventsSpent /\ [XhciNext]_xhciVars => EventsSpent'
<1> SUFFICES ASSUME EventsSpent, [XhciNext]_xhciVars PROVE EventsSpent'
  OBVIOUS
<1>1. x_taken \in 0 .. UsbRing /\ (EventFound => x_taken + 1 \in 0 .. UsbRing)
  BY XhciAssumption DEF EventsSpent, EventFound
<1>2. ASSUME UNCHANGED <<x_at, x_taken, x_asked, x_io>> PROVE EventsSpent'
  BY <1>1, <1>2, EventPassed DEF EventsSpent
<1>3. ASSUME EventFound, TakeEvent, x_at.step \in Working, NEW ok, NEW slot, StepEnds(ok, slot), UNCHANGED x_io
      PROVE  EventsSpent'
  BY <1>1, <1>3, StepEndsSpends DEF TakeEvent
<1>4. ASSUME NEW event, NEW ready, TryPort(event, ready) PROVE EventsSpent'
  <2>1. PICK number : number = x_at.port + 1
    OBVIOUS
  <2>2. /\ x_at.step = "port" /\ number <= UsbPorts /\ UNCHANGED <<x_taken, x_asked, x_io>>
        /\ x_at' \in {[x_at EXCEPT !.port = number, !.step = "enable"], [x_at EXCEPT !.port = number]}
    BY <1>4, <2>1 DEF TryPort
  <2>3. number \in 1 .. UsbPorts
    BY <2>1, <2>2, XhciAssumption DEF EventsSpent, Places
  <2>4. PICK at : at = [x_at EXCEPT !.port = number]
    OBVIOUS
  <2>5. at \in Places /\ at.role = x_at.role /\ at.step = "port"
    BY <2>2, <2>3, <2>4, PortMoves DEF EventsSpent
  <2>6. x_at' = at \/ x_at' = [at EXCEPT !.step = "enable"]
    BY <2>2, <2>4
  <2>7. /\ x_at' \in Places /\ x_at'.role = x_at.role /\ x_at'.step \in {"port", "enable"}
    BY <2>5, <2>6 DEF Places, Working, CommandSteps
  <2>8. x_at.role # "none"
    BY <2>2 DEF EventsSpent
  <2>9. x_at.role \in InputRoles => Here(x_at.role, "enable") <= x_taken + 1
    BY <1>1, InputStepsInOrder
  <2> QED BY <2>2, <2>7, <2>8, <2>9 DEF EventsSpent, Working, CommandSteps, ControlSteps
<1>5. CASE NoPortLeft
  <2>1. x_at.step = "port" /\ x_at' = [x_at EXCEPT !.step = "failed"] /\ UNCHANGED <<x_taken, x_asked, x_io>>
    BY <1>5 DEF NoPortLeft
  <2>2. x_at' \in Places /\ x_at'.role = x_at.role /\ x_at'.step = "failed"
    BY <2>1 DEF EventsSpent, Places
  <2> QED BY <2>1, <2>2 DEF EventsSpent, Working, CommandSteps, ControlSteps
<1>6. CASE WaitCommand
  <2>1. /\ EventFound /\ TakeEvent /\ x_at.step \in Working /\ UNCHANGED x_io
        /\ \/ StepEnds(Head(x_events).ok, Head(x_events).slot)
           \/ UNCHANGED <<x_at, x_asked>>
    BY <1>6 DEF WaitCommand, InSteps, Working
  <2> QED BY <1>1, <1>3, <2>1, EventPassed DEF TakeEvent, EventsSpent
<1>7. CASE WaitTransfer
  <2>1. /\ EventFound /\ TakeEvent /\ x_at.step \in Working /\ UNCHANGED x_io
        /\ \/ StepEnds(Head(x_events).ok, Head(x_events).slot)
           \/ UNCHANGED <<x_at, x_asked>>
    BY <1>7 DEF WaitTransfer, InSteps, Working
  <2> QED BY <1>1, <1>3, <2>1, EventPassed DEF TakeEvent, EventsSpent
<1>8. CASE StepTimeout
  <2>1. x_at.step \in Working /\ StepEnds(FALSE, 0) /\ UNCHANGED <<x_taken, x_io>>
    BY <1>8 DEF StepTimeout, InSteps, Working
  <2>2. x_taken' \in 0 .. UsbRing /\ x_taken' >= x_taken
    BY <1>1, <2>1
  <2> QED BY <2>1, <2>2, StepEndsSpends, Zenon
<1>9. CASE PollDevices
  <2>1. TakeReport /\ EventFound /\ x_at.role # "keyboard" /\ UNCHANGED <<x_at, x_io>>
    BY <1>9 DEF PollDevices, Pollable, EventsSpent
  <2> QED BY <2>1, ReportSpends
<1>10. CASE WaitStorage
  <2>1. /\ EventFound /\ x_at.role # "keyboard"
        /\ \/ TakeReport /\ UNCHANGED <<x_at, x_io>>
           \/ /\ TakeEvent /\ UNCHANGED <<x_at, x_asked>>
              /\ UNCHANGED x_io \/ x_io' = FALSE
           \/ /\ TakeEvent /\ UNCHANGED x_io /\ x_at.step \in Working
              /\ StepEnds(Head(x_events).ok, Head(x_events).slot)
    BY <1>10 DEF WaitStorage, EventsSpent, Working
  <2>2. CASE TakeReport /\ UNCHANGED <<x_at, x_io>>
    BY <2>1, <2>2, ReportSpends
  <2>3. CASE TakeEvent /\ UNCHANGED <<x_at, x_asked>> /\ (UNCHANGED x_io \/ x_io' = FALSE)
    BY <1>1, <2>1, <2>3, EventPassed DEF TakeEvent, EventsSpent
  <2>4. CASE /\ TakeEvent /\ UNCHANGED x_io /\ x_at.step \in Working
             /\ StepEnds(Head(x_events).ok, Head(x_events).slot)
    BY <1>3, <2>1, <2>4
  <2> QED BY <2>1, <2>2, <2>3, <2>4
<1>11. CASE BeginBulk \/ BulkTimeout
  <2>1. UNCHANGED <<x_at, x_taken, x_asked>> /\ (x_at.role # "none" => ~x_io')
    BY <1>11 DEF BeginBulk, BulkTimeout, EventsSpent
  <2> QED BY <1>1, <2>1, EventPassed
<1>12. CASE CompleteCommand \/ Plug
  BY <1>2, <1>12 DEF CompleteCommand, Plug
<1>13. ASSUME NEW t \in x_transfers, CompleteTransfer(t) PROVE EventsSpent'
  BY <1>2, <1>13 DEF CompleteTransfer
<1>14. ASSUME NEW s \in SlotNumbers, Report(s) PROVE EventsSpent'
  BY <1>2, <1>14 DEF Report
<1>15. CASE UNCHANGED xhciVars
  BY <1>2, <1>15 DEF xhciVars
<1> QED BY <1>4, <1>5, <1>6, <1>7, <1>8, <1>9, <1>10, <1>11, <1>12, <1>13, <1>14, <1>15 DEF XhciNext

(* Whatever is plugged in, typed, lost or given up: the event ring ends    *)
(* before the ring in which reports are asked for.  The driver's index     *)
(* into an interrupt ring (xhci.c:1597, 1642) stays below its link by the  *)
(* events that were spent on finding the device, for any size of rings.    *)
THEOREM InputRingsLast == XhciSpec => []UsbRingsLast
<1>1. ASSUME XhciInit PROVE EventsSpent
  <2>1. x_at = [role |-> "keyboard", port |-> 0, step |-> "port"] /\ x_taken = 0 /\ x_io = FALSE
        /\ x_asked = [r \in InputRoles |-> 0]
    BY <1>1 DEF XhciInit
  <2>2. x_at \in Places
    BY <2>1, XhciAssumption DEF Places, Roles
  <2> QED BY <2>1, <2>2, XhciAssumption DEF EventsSpent, Working, CommandSteps, ControlSteps
<1>2. EventsSpent /\ [XhciNext]_xhciVars => EventsSpent'
  BY EventsSpentStep
<1>3. EventsSpent => UsbRingsLast
  <2>1. \A r \in InputRoles : Len(Steps(r)) = 6
    BY InputStepsAre DEF Working, CommandSteps
  <2>2. ASSUME EventsSpent, NEW r \in InputRoles, x_asked[r] > 0
        PROVE  x_asked[r] + Len(Steps(r)) <= UsbRing + 1
    <3>1. x_taken \in 0 .. UsbRing /\ x_asked[r] \in Nat /\ x_asked[r] + 6 <= x_taken + 1
      BY <2>2 DEF EventsSpent
    <3>2. x_asked[r] + 6 <= UsbRing + 1
      BY <3>1, XhciAssumption
    <3> QED BY <2>1, <3>2
  <2> QED BY <2>2 DEF UsbRingsLast
<1> QED BY <1>1, <1>2, <1>3, PTL DEF XhciSpec
=============================================================================
