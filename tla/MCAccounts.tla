----------------------------- MODULE MCAccounts -----------------------------
(* Model of the account directory for TLC: four kids, room for two joint   *)
(* accounts, and a holder limit of 3 standing for 128.  With it, the       *)
(* address codec over bounded inputs: ids of 2 bytes and checksums of 1    *)
(* byte stand for 20 and 4, so the hex part is 8 digits, not 50.           *)
EXTENDS Accounts, AddressCodec

CONSTANTS k1, k2, k3, k4, ja, jb

MCKids == {k1, k2, k3, k4}
MCJointIds == {ja, jb}
MCSymmetry == Permutations(MCKids) \cup Permutations(MCJointIds)

\* A stand-in for SHAKE-256: a fold of the message into n bytes.
MCShake(n, msg) ==
    LET h == FoldLeft(LAMBDA acc, b : (acc * 31 + b) % 251, 7, msg)
    IN  [k \in 1..n |-> (h * (k + 3) + k) % 256]

\* Codes of 3 to 6 letters and digits, from "A" and "1".
MCCodes == UNION {[1..n -> {65, 49}] : n \in 3..6}

\* Kids: 4 hex digits of either case; tx ids: "tx", and hex of the wrong
\* length.
MCIds == [1..4 -> {48, 97, 70}] \cup {<<116, 120>>, <<48, 97>>, <<49, 50, 51, 52, 53, 54>>}

\* Candidate codes as runes: valid, lower case, with a long s (upper case
\* S), with an e acute (two bytes), with a dash, too short, too long, none.
MCPrefixes == {<<65, 66, 49>>, <<97, 98, 49>>, <<383, 98, 49>>, <<233, 66, 49>>,
               <<65, 45, 49>>, <<65, 66>>, <<65, 66, 67, 68, 69, 70, 49>>, <<>>}

\* Hex parts for each prefix: any type byte 0..3, two ids, the right
\* checksum or a wrong one, in upper or lower case or with a non-hex digit;
\* and the hex part alone, one digit short.
MCTails(p) ==
    LET Sums(t, id) == {Checksum(ToUpper(p), t, id), <<(Checksum(ToUpper(p), t, id)[1] + 1) % 256>>}
        parts == UNION {{<<t>> \o id \o sum : sum \in Sums(t, id)} :
                          t \in 0..3, id \in {<<0, 171>>, <<18, 255>>}}
    IN  {HexUpper(bs) : bs \in parts} \cup {HexLower(bs) : bs \in parts}
        \cup {[HexUpper(bs) EXCEPT ![3] = 71] : bs \in parts}
MCInputs == UNION {{p \o tl : tl \in MCTails(p)} : p \in MCPrefixes}
            \cup {Tail(tl) : tl \in MCTails(<<65, 66, 49>>)}
-----------------------------------------------------------------------------
(* Properties of the directory's addresses                                 *)

AccountType(x) == IF x \in Kids THEN AccountTypePersonal ELSE AccountTypeJoint

\* Every account the directory holds is stored under the text of its
\* address (ACC_<address>), and that text parses back to the address: the
\* checksum round-trip of spec section 8, for the account's type, from a
\* kid or a tx id and in any token code.  fee/prune, token/mint,
\* balance/pending/withdraw and executePay parse stored addresses and drop
\* the error ("err is nil").
AccountAddressesRoundTrip == \A x \in Existing : RoundTripByType[AccountType(x)]

\* A string a caller gives for an account of an existing account's type is
\* accepted only if it is, up to case, the text of an address NewAddress
\* derives from that address's own code, type and id: a mangled address
\* (bad checksum, type, code or hex) does not name some other account.
ParsedAddressesDerived == \A x \in Existing : ParsedByType[AccountType(x)]
=============================================================================
