------------------------------- MODULE Base64 -------------------------------
(***************************************************************************)
(* Pictures as text and back: httplib's base64_encode, a loop over bytes    *)
(* with an accumulator it never clears, and the programs' own base64_encode *)
(* and base64_decode around OpenSSL's filter.  A picture grows by a byte at *)
(* a time.  Digits are numbers from 0 to 63.                                *)
(***************************************************************************)
EXTENDS Integers, Sequences, SequencesExt

CONSTANTS
  Bytes,       (* that pictures consist of                                  *)
  MaxLength,   (* bound on the length of a picture                          *)
  Ints         (* how many values an int has: a power of two                *)

(* Six bits that wait, eight that come: less would not do.                  *)
Constants ==
  /\ Ints \in Nat \ {0} /\ Ints % 2^14 = 0
  /\ Bytes \subseteq 0..255 /\ MaxLength \in Nat

VARIABLES
  in,         (* the picture                                                *)
  val, valb,  (* base64_encode's accumulator, and the bits that wait in it, *)
              (* less 6                                                     *)
  out         (* the digits pushed so far                                   *)

vars == <<in, val, valb, out>>

Init == in = <<>> /\ val = 0 /\ valb = -6 /\ out = <<>>

Pad == 64          (* "="                                                   *)

Wrapped(n) == ((n + Ints \div 2) % Ints) - Ints \div 2
Digit(v) == v % 64                                       (* v & 0x3F        *)
Shifted(v, bits) == v \div 2^bits                        (* v >> bits       *)

(* One turn of the loop: a byte comes, and while six bits wait they go.     *)
Encode(byte) ==
  LET v == Wrapped(val * 256) + byte
      digits == [k \in 1..((valb + 8) \div 6 + 1) |-> Digit(Shifted(v, valb + 8 - 6 * (k - 1)))]
  IN /\ val' = v /\ out' = out \o digits
     /\ valb' = valb + 8 - 6 * Len(digits)
     /\ in' = Append(in, byte)

Next == Len(in) < MaxLength /\ \E byte \in Bytes : Encode(byte)

Spec == Init /\ [][Next]_vars

(* After the loop: the last digit, and padding.                             *)
Padded(digits) == digits \o [k \in 1..((4 - (Len(digits) % 4)) % 4) |-> Pad]

(* Mutant: the bits that are left are pushed as they are, not from the left. *)
base64_encode_right ==
  Padded(IF valb > -6 THEN Append(out, Digit(val) % 2^(valb + 6)) ELSE out)

base64_encode ==
  Padded(IF valb > -6 THEN Append(out, Digit(Shifted(Wrapped(val * 256), valb + 8))) ELSE out)

-----------------------------------------------------------------------------
(* OpenSSL's filter without line ends.  It decodes what is a whole group;   *)
(* padding comes last.                                                      *)
Bit(s, width, b) == (s[(b \div width) + 1] \div 2^(width - 1 - (b % width))) % 2
Number(s, width, from, to) ==
  LET sum[b \in (from - 1)..to] ==
        IF b < from THEN 0
        ELSE sum[b - 1] + (IF b < width * Len(s) THEN Bit(s, width, b) ELSE 0) * 2^(to - b)
  IN sum[to]

Encoded(picture) ==
  Padded([k \in 1..((8 * Len(picture) + 5) \div 6) |-> Number(picture, 8, 6 * (k - 1), 6 * k - 1)])

Decoded(text) ==
  LET whole == SubSeq(text, 1, Len(text) - (Len(text) % 4))
      digits == SubSeq(whole, 1, Cardinality({k \in DOMAIN whole : whole[k] < Pad}))
  IN [k \in 1..((6 * Len(digits)) \div 8) |-> Number(digits, 6, 8 * (k - 1), 8 * k - 1)]

(* The programs' base64_encode takes the last digit for the end of a line   *)
(* and puts a NUL in its place.                                             *)
own_base64_encode(picture) == Front(Encoded(picture))

(* Their base64_decode returns a buffer as long as the text, zeros first,   *)
(* and their callers write all of it to the file.                           *)
own_base64_decode(text) ==
  Decoded(text) \o [k \in 1..(Len(text) - Len(Decoded(text))) |-> 0]

Saved(text) == own_base64_decode(text)

-----------------------------------------------------------------------------
(* httplib encodes as base64 does, though its accumulator overflows and     *)
(* keeps every bit it ever held, and whatever number of bytes is left over  *)
(* at the end.                                                              *)
EncodesAsBase64 == base64_encode = Encoded(in)

(* Bits wait, never more than four of a byte: what the accumulator's width  *)
(* is enough for.                                                           *)
FewBitsWait == valb \in {-6, -4, -2} /\ 6 * Len(out) + valb + 6 = 8 * Len(in)

(* The other direction: what a program saves begins with the picture, and   *)
(* what comes after it are zeros, as many as the text is longer.            *)
SavedBeginsWithPicture ==
  LET saved == Saved(Encoded(in))
  IN /\ IsPrefix(in, saved) /\ Len(saved) = Len(Encoded(in))
     /\ \A k \in (Len(in) + 1)..Len(saved) : saved[k] = 0

(* A picture that was encoded can be decoded. Said of whole groups only,    *)
(* whose text has no padding, so that no decoder could make up for it. The  *)
(* code does not keep this: the encoder drops the last digit.               *)
RoundTrip == in # <<>> /\ Len(in) % 3 = 0 => IsPrefix(in, own_base64_decode(own_base64_encode(in)))

(* What is saved is the picture. The code does not keep this: it writes as  *)
(* many bytes as the text has.                                              *)
SavedIsPicture == Saved(Encoded(in)) = in
=============================================================================
