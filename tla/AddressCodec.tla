---------------------------- MODULE AddressCodec ----------------------------
(***************************************************************************)
(* Account addresses (address.go) and token codes (token.go).  An address  *)
(* is a token code, an account type byte and a hash: the 20-byte id and a  *)
(* 4-byte checksum of code, type and id.  Its text form is the code        *)
(* followed by 50 upper-case hex digits; ParseAddress upper-cases its      *)
(* input, takes the last 50 bytes as the hex part and validates the code,  *)
(* the type and the checksum.                                              *)
(*                                                                          *)
(* Strings are Go strings: sequences of bytes.  Inputs are written as      *)
(* sequences of runes and encoded in UTF-8, because strings.ToUpper works  *)
(* on runes and may change the byte length.  The lengths 20, 4 and 50 are  *)
(* the constants IdLen, SumLen and AddrHexLen, so that they can be scaled  *)
(* down; SHAKE-256 is the constant operator Shake(n, bytes), any function  *)
(* to n bytes.                                                             *)
(***************************************************************************)
EXTENDS Integers, Sequences, SequencesExt

CONSTANTS
    IdLen,        \* 20: bytes of the id part of a hash
    SumLen,       \* 4: bytes of the checksum
    AddrHexLen,   \* 50: hex digits after the token code
    Shake(_, _),  \* sha3.ShakeSum256 into an n-byte buffer
    Codes,        \* validated token codes the handlers derive addresses in
    Ids,          \* ids addresses are derived from: kids and tx ids
    Inputs        \* address strings, as runes, callers may pass

ASSUME IdLen \in Nat \ {0} /\ SumLen \in Nat \ {0} /\ AddrHexLen \in Nat \ {0}

AccountTypeUnknown == 0
AccountTypePersonal == 1
AccountTypeJoint == 2

-----------------------------------------------------------------------------
(* Strings                                                                 *)

\* unicode.ToUpper on the runes inputs are made of: ASCII a-z, U+017F (long
\* s, upper case S) and U+00E9 (e acute, upper case U+00C9).
UpperRune(r) ==
    CASE r \in 97..122 -> r - 32
      [] r = 383 -> 83
      [] r = 233 -> 201
      [] OTHER -> r

\* UTF-8 encoding of a rune below U+0800.
Utf8(r) == IF r < 128 THEN <<r>> ELSE <<192 + r \div 64, 128 + (r % 64)>>

\* strings.ToUpper of a string given as runes, as bytes.
ToUpper(runes) == FlattenSeq([k \in DOMAIN runes |-> Utf8(UpperRune(runes[k]))])

\* The digit of a nibble in %X (upper case) and hex.EncodeToString (lower).
UpperDigit(n) == IF n < 10 THEN 48 + n ELSE 55 + n
LowerDigit(n) == IF n < 10 THEN 48 + n ELSE 87 + n

\* fmt %X of a byte slice (and %02X of one byte).
HexUpper(bs) == FlattenSeq([k \in DOMAIN bs |-> <<UpperDigit(bs[k] \div 16), UpperDigit(bs[k] % 16)>>])
HexLower(bs) == FlattenSeq([k \in DOMAIN bs |-> <<LowerDigit(bs[k] \div 16), LowerDigit(bs[k] % 16)>>])

\* hex.DecodeString: an even number of digits of either case.
NibbleOf(c) == CASE c \in 48..57 -> c - 48 [] c \in 65..70 -> c - 55 [] c \in 97..102 -> c - 87
HexBytes == 48..57 \cup 65..70 \cup 97..102
IsHex(s) == Len(s) % 2 = 0 /\ \A k \in DOMAIN s : s[k] \in HexBytes
Unhex(s) == [k \in 1..(Len(s) \div 2) |-> 16 * NibbleOf(s[2 * k - 1]) + NibbleOf(s[2 * k])]

-----------------------------------------------------------------------------
(* Token codes and addresses                                               *)

\* ValidateTokenCode: upper-cased, it must match ^[A-Z0-9]{3,6}$.  The
\* upper-cased code is what the handlers use.
IsTokenCode(bs) == Len(bs) \in 3..6 /\ \A k \in DOMAIN bs : bs[k] \in 65..90 \cup 48..57
ValidateTokenCode(runes) ==
    IF IsTokenCode(ToUpper(runes)) THEN [ok |-> TRUE, code |-> ToUpper(runes)]
                                   ELSE [ok |-> FALSE, code |-> <<>>]

\* Address.Checksum: the first SumLen bytes of SHAKE-256 of code, type
\* byte and id.
Checksum(code, type, idh) == Shake(SumLen, code \o <<type>> \o idh)

\* NewAddress: an id that is IdLen bytes of hex (a kid) is taken as it is,
\* any other id (a tx id) is hashed to IdLen bytes; the checksum follows.
NewAddress(code, type, id) ==
    LET idh == IF IsHex(id) /\ Len(id) = 2 * IdLen THEN Unhex(id) ELSE Shake(IdLen, id)
    IN  [code |-> code, type |-> type, hash |-> idh \o Checksum(code, type, idh)]

\* Address.String: code, %02X of the type, %X of the hash.
String(addr) == addr.code \o HexUpper(<<addr.type>>) \o HexUpper(addr.hash)

\* Address.ID: hex.EncodeToString of the first IdLen bytes of the hash.
ID(addr) == HexLower(SubSeq(addr.hash, 1, IdLen))

\* Mutants: the checksum looked for at the front of the hash, or not at all.
ValidateSumPrefix(addr) ==
    /\ ValidateTokenCode(addr.code).ok
    /\ addr.type \in {AccountTypePersonal, AccountTypeJoint}
    /\ IsPrefix(Checksum(addr.code, addr.type, SubSeq(addr.hash, 1, IdLen)), addr.hash)
ValidateNoChecksum(addr) ==
    /\ ValidateTokenCode(addr.code).ok
    /\ addr.type \in {AccountTypePersonal, AccountTypeJoint}

\* Address.Validate: the code, the type (personal or joint) and the
\* checksum as a suffix of the hash.
Validate(addr) ==
    /\ ValidateTokenCode(addr.code).ok
    /\ addr.type \in {AccountTypePersonal, AccountTypeJoint}
    /\ IsSuffix(Checksum(addr.code, addr.type, SubSeq(addr.hash, 1, IdLen)), addr.hash)

\* ParseAddress of a string given as runes: the result, or an error reason.
ParseAddress(runes) ==
    LET u == ToUpper(runes)
        i == Len(u) - AddrHexLen
        idh == Unhex(SubSeq(u, i + 1, Len(u)))
        addr == [code |-> SubSeq(u, 1, i), type |-> idh[1], hash |-> Tail(idh)]
    IN  CASE Len(u) < AddrHexLen -> [ok |-> FALSE, reason |-> "length"]
          [] ~IsHex(SubSeq(u, i + 1, Len(u))) -> [ok |-> FALSE, reason |-> "hex"]
          [] ~Validate(addr) -> [ok |-> FALSE, reason |-> "invalid"]
          [] OTHER -> [ok |-> TRUE, addr |-> addr]

-----------------------------------------------------------------------------
(* What the handlers rely on, for each account type, over the bounded      *)
(* inputs.  Both are constant tables, evaluated once.                      *)

AccountTypes == {AccountTypePersonal, AccountTypeJoint}

\* Checksum round-trip (spec section 8): parsing the text of an address
\* NewAddress derives, from a kid or a tx id and in any token code, gives
\* that address back.
RoundTripByType ==
    [t \in AccountTypes |->
        \A c \in Codes, id \in Ids :
            LET a == NewAddress(c, t, id)
            IN  ParseAddress(String(a)) = [ok |-> TRUE, addr |-> a]]

\* An accepted string is, upper-cased, the text of the parsed address, and
\* that address is the one NewAddress derives from its own code, type and
\* ID (spec section 2: short inputs, non-hex tails, bad types, bad codes
\* and checksum mismatches are rejected).
ParsedByType ==
    [t \in AccountTypes |->
        \A s \in Inputs :
            (ParseAddress(s).ok /\ ParseAddress(s).addr.type = t) =>
                LET a == ParseAddress(s).addr
                IN  /\ String(a) = ToUpper(s)
                    /\ NewAddress(a.code, a.type, ID(a)) = a]

=============================================================================
