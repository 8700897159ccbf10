------------------------------ MODULE Ciphers -------------------------------
(***************************************************************************)
(* core/classical_ciphers.py and core/modern_ciphers.py.  A text is a      *)
(* sequence of code points: ASCII, and of the other letters one of each    *)
(* kind that the ciphers tell apart.  A block or a key is a sequence of    *)
(* bytes, and hex a sequence of digits.                                    *)
(***************************************************************************)
EXTENDS Integers, SequencesExt

(* Letters that upper() makes two, or one of the 26, or a letter that is   *)
(* neither.                                                                *)
SharpS == 223
DotlessI == 305
LongS == 383
Accented == {201, 233}                  \* upper and lower case
Characters == (0..127) \cup Accented \cup {SharpS, DotlessI, LongS}
Uppers == (65..90) \cup {201}
Letters == Uppers \cup (97..122) \cup {233, SharpS, DotlessI, LongS}

ToUpper(c) ==
    CASE c \in (97..122) \cup {233} -> <<c - 32>>
      [] c = SharpS -> <<83, 83>>
      [] c = DotlessI -> <<73>>
      [] c = LongS -> <<83>>
      [] OTHER -> <<c>>

UpperText(text) == FlattenSeq([i \in DOMAIN text |-> ToUpper(text[i])])

(* str.encode and bytes.decode(errors='ignore'), as far as these go.       *)
Encode(text) ==
    FlattenSeq([i \in DOMAIN text |->
        IF text[i] < 128 THEN <<text[i]>>
        ELSE <<192 + text[i] \div 64, 128 + (text[i] % 64)>>])

Decode(bytes) ==
    FlattenSeq([i \in DOMAIN bytes |->
        IF bytes[i] < 128 THEN <<bytes[i]>>
        ELSE IF bytes[i] \in 194..223 /\ i < Len(bytes)
                /\ bytes[i + 1] \in 128..191
          THEN <<(bytes[i] - 192) * 64 + bytes[i + 1] - 128>>
        ELSE <<>>])

Hex(bytes) ==
    [i \in 1..(2 * Len(bytes)) |->
        IF i % 2 = 1 THEN bytes[(i + 1) \div 2] \div 16 ELSE bytes[i \div 2] % 16]

FromHex(digits) ==
    [i \in 1..(Len(digits) \div 2) |-> 16 * digits[2 * i - 1] + digits[2 * i]]

-----------------------------------------------------------------------------
(* TypeError of CaesarCipher: ord of a letter whose upper case is two.     *)
CaesarRaises(text) == \E i \in DOMAIN text : Len(ToUpper(text[i])) > 1

(* CaesarCipher, of a text for which it does not raise; decrypt is encrypt *)
(* with the shift negated for the call.                                    *)
Caesar(text, shift) ==
    [i \in DOMAIN text |->
        IF text[i] \in Letters THEN ((ToUpper(text[i])[1] - 65 + shift) % 26) + 65
        ELSE text[i]]

Base(c) == IF c \in Uppers THEN 65 ELSE 97

(* The place in the key that the i-th character of a text meets is that of *)
(* the letters before it.                                                  *)
KeyCharacter(text, key, i) ==
    LET before == {j \in 1..(i - 1) : text[j] \in Letters}
    IN key[(Cardinality(before) % Len(key)) + 1]

(* VigenereCipher; sign is 1 for encrypt and -1 for decrypt. *)
Vigenere(text, key, sign) ==
    [i \in DOMAIN text |->
        IF text[i] \in Letters
          THEN ((text[i] - Base(text[i])
                    + sign * (KeyCharacter(text, UpperText(key), i) - 65)) % 26)
                   + Base(text[i])
        ELSE text[i]]

(* Exclusive or of two bytes, bit by bit.                                  *)
Xor(a, b) ==
    LET Bit(weight) == (a \div weight + b \div weight) % 2
    IN Bit(1) + 2 * Bit(2) + 4 * Bit(4) + 8 * Bit(8)
           + 16 * Bit(16) + 32 * Bit(32) + 64 * Bit(64) + 128 * Bit(128)

(* XORStreamCipher, in both directions; the keystream repeats the key.     *)
XorStream(bytes, key) ==
    [i \in DOMAIN bytes |-> Xor(bytes[i], key[((i - 1) % Len(key)) + 1])]

-----------------------------------------------------------------------------
(* MiniBlockCipher. *)
BlockKey(key) ==
    [i \in 1..8 |-> IF i <= Len(Encode(key)) THEN Encode(key)[i] ELSE 0]

Pad(data) ==
    LET pad_len == 8 - (Len(data) % 8) IN data \o [i \in 1..pad_len |-> pad_len]

(* A variant of Unpad that takes a whole block of padding for data. *)
UnpadPart(data) ==
    IF data = <<>> \/ Last(data) >= 8 \/ Last(data) > Len(data) THEN data
    ELSE IF Last(data) = 0 THEN <<>>
    ELSE SubSeq(data, 1, Len(data) - Last(data))

(* data[:-0] is empty. *)
Unpad(data) ==
    IF data = <<>> \/ Last(data) > 8 \/ Last(data) > Len(data) THEN data
    ELSE IF Last(data) = 0 THEN <<>>
    ELSE SubSeq(data, 1, Len(data) - Last(data))

SBox == <<14, 4, 13, 1, 2, 15, 11, 8, 3, 10, 6, 12, 5, 9, 0, 7>>
InvSBox == [v \in 0..15 |-> CHOOSE n \in 0..15 : SBox[n + 1] = v]

Substitute(block) ==
    [i \in 1..8 |-> 16 * SBox[block[i] \div 16 + 1] + SBox[(block[i] % 16) + 1]]
InvSubstitute(block) ==
    [i \in 1..8 |-> 16 * InvSBox[block[i] \div 16] + InvSBox[block[i] % 16]]

Places    == <<7, 0, 5, 2, 6, 1, 4, 3>>
InvPlaces == <<1, 5, 3, 7, 6, 2, 4, 0>>
Permute(block)    == [i \in 1..8 |-> block[Places[i] + 1]]
InvPermute(block) == [i \in 1..8 |-> block[InvPlaces[i] + 1]]

EncryptBlock(block, key) ==
    XorStream(Permute(Substitute(XorStream(block, key))), key)
DecryptBlock(block, key) ==
    XorStream(InvSubstitute(InvPermute(XorStream(block, key))), key)

Blocks(data) ==
    [i \in 1..(Len(data) \div 8) |-> SubSeq(data, 8 * i - 7, 8 * i)]

(* The blocks in a row. *)
Joined(blocks) ==
    [i \in 1..(8 * Len(blocks)) |-> blocks[(i - 1) \div 8 + 1][((i - 1) % 8) + 1]]

BlockEncrypt(bytes, key) ==
    LET blocks == Blocks(Pad(bytes))
    IN Joined([i \in DOMAIN blocks |-> EncryptBlock(blocks[i], key)])
BlockDecrypt(bytes, key) ==
    LET blocks == Blocks(bytes)
    IN Unpad(Joined([i \in DOMAIN blocks |-> DecryptBlock(blocks[i], key)]))
=============================================================================
