-------------------------------- MODULE Base64 --------------------------------
(***************************************************************************)
(* base64.c.  A character is its value in the decode table: 0 to 63 for a  *)
(* letter, Pad for "=", and two for the rest: Blank for what is skipped at *)
(* the end, Bad for everything else.  The state machine writes the bytes   *)
(* to encode, or the text to decode, one after the other.                  *)
(***************************************************************************)
EXTENDS Integers, Sequences, FiniteSetsExt

CONSTANTS Bytes64,   \* bytes to encode
          Chars64,   \* characters to decode
          MaxBytes,  \* bound: length of the one
          MaxChars   \* and of the other

Pad   == 64
Blank == 65
Bad   == 66

ASSUME Base64Assumption ==
  /\ Bytes64 \subseteq 0 .. 255 /\ Chars64 \subseteq 0 .. Bad
  /\ MaxBytes \in Nat /\ MaxChars \in Nat

ably_base64_encode_len(n) == (((n + 2) \div 3) * 4) + 1
ably_base64_decode_max_len(n) == ((n \div 4) * 3) + 3

\* The four characters of three bytes.
Group(a, b, c) == <<a \div 4, ((a % 4) * 16) + (b \div 16), ((b % 16) * 4) + (c \div 64), c % 64>>

\* Byte i, or the zero that stands for it behind the end.
ByteAt(src, i) == IF i <= Len(src) THEN src[i] ELSE 0

\* Character by character: of the group of the bytes g + 1 to g + 3, the last one
\* and of a group of one byte the last two are padding where bytes are missing.
ably_base64_encode(src) ==
  [k \in 1 .. 4 * ((Len(src) + 2) \div 3) |->
     LET g == 3 * ((k - 1) \div 4)
         j == ((k - 1) % 4) + 1
     IN IF g + j > Len(src) + 1 THEN Pad
        ELSE Group(ByteAt(src, g + 1), ByteAt(src, g + 2), ByteAt(src, g + 3))[j]]

\* Blanks at the end are skipped.
Trimmed(src) == SubSeq(src, 1, Max({0} \cup {i \in 1 .. Len(src) : src[i] # Blank}))

\* The loop of the decoder: it goes on, or it has met the padding, or a text that
\* is refused.
More(out) == [state |-> "more", out |-> out]
Done(out) == [state |-> "done", out |-> out]
Refused   == [state |-> "refused", out |-> <<>>]

Fits(out, n, cap) == Len(out) + n <= cap

\* Mutant of IsLetter: padding passes the test for an invalid character.
IsLetter_Padding(c) == c \in 0 .. Pad

IsLetter(c) == c \in 0 .. 63

\* The group a b c d behind the bytes out: one byte, two or three.
ReadGroup(out, a, b, c, d, cap) ==
  LET one   == ((a * 4) % 256) + (b \div 16)
      two   == ((b * 16) % 256) + (c \div 4)
      three == ((c * 64) % 256) + d
  IN IF ~IsLetter(a) \/ ~IsLetter(b) \/ ~Fits(out, 1, cap) THEN Refused
     ELSE IF c = Pad THEN Done(Append(out, one))
     ELSE IF ~IsLetter(c) \/ ~Fits(out, 2, cap) THEN Refused
     ELSE IF d = Pad THEN Done(out \o <<one, two>>)
     ELSE IF ~IsLetter(d) \/ ~Fits(out, 3, cap) THEN Refused
     ELSE More(out \o <<one, two, three>>)

\* One turn of the loop: group n of src.
NextGroup(r, src, n, cap) ==
  IF r.state # "more" THEN r
  ELSE ReadGroup(r.out, src[4 * n - 3], src[4 * n - 2], src[4 * n - 1], src[4 * n], cap)

Groups(src, cap) ==
  LET after[n \in 0 .. Len(src) \div 4] ==
        IF n = 0 THEN More(<<>>) ELSE NextGroup(after[n - 1], src, n, cap)
  IN after[Len(src) \div 4]

ably_base64_decode(src, cap) ==
  LET Result(r) == [ok |-> r.state # "refused", out |-> r.out]
  IN Result(Groups(Trimmed(src), cap))

-----------------------------------------------------------------------------
VARIABLES bytes, chars

Init64 == bytes = <<>> /\ chars = <<>>
Next64 ==
  \/ /\ chars = <<>> /\ Len(bytes) < MaxBytes
     /\ \E b \in Bytes64 : bytes' = Append(bytes, b)
     /\ UNCHANGED chars
  \/ /\ bytes = <<>> /\ Len(chars) < MaxChars
     /\ \E c \in Chars64 : chars' = Append(chars, c)
     /\ UNCHANGED bytes
Spec64 == Init64 /\ [][Next64]_<<bytes, chars>>

-----------------------------------------------------------------------------
\* What is encoded fills the buffer encode_len asks for, NUL included, and comes
\* back from the decoder: also with blanks behind it and in a buffer that is just
\* large enough, and not in one that is a byte too small.
RoundTrip ==
  LET code == ably_base64_encode(bytes) IN
  /\ Len(code) + 1 = ably_base64_encode_len(Len(bytes))
  /\ \A blanks \in {<<>>, <<Blank>>, <<Blank, Blank, Blank, Blank>>} :
       ably_base64_decode(code \o blanks, Len(bytes)) = [ok |-> TRUE, out |-> bytes]
  /\ bytes # <<>> => ~ably_base64_decode(code, Len(bytes) - 1).ok

\* The sextets of a text, up to the first padding of its whole groups.
Sextets == LET t == SubSeq(chars, 1, 4 * (Len(Trimmed(chars)) \div 4))
               pads == {i \in DOMAIN t : t[i] = Pad}
           IN IF pads = {} THEN t
              ELSE SubSeq(t, 1, (CHOOSE i \in pads : \A j \in pads : i <= j) - 1)

SextetBit(s, k) == (s[(k \div 6) + 1] \div <<32, 16, 8, 4, 2, 1>>[(k % 6) + 1]) % 2
ByteBit(s, k)   == (s[(k \div 8) + 1] \div <<128, 64, 32, 16, 8, 4, 2, 1>>[(k % 8) + 1]) % 2

\* Whatever the decoder accepts, its bytes are the bits of the text's sextets, in
\* order, and no byte is missing or made up; and decode_max_len is room enough.
ReadsTheSextets ==
  LET r == ably_base64_decode(chars, ably_base64_decode_max_len(Len(chars))) IN
  /\ r.ok => /\ Len(r.out) = (6 * Len(Sextets)) \div 8
             /\ \A k \in 0 .. 8 * Len(r.out) - 1 : ByteBit(r.out, k) = SextetBit(Sextets, k)
  /\ r = ably_base64_decode(chars, 3 * MaxChars)

\* base64.c is right both ways: on what it encoded itself, and on any text, with
\* whole or missing padding, that a server may send.
Base64Exact == RoundTrip /\ ReadsTheSextets
=============================================================================
