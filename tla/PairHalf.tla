------------------------------ MODULE PairHalf ------------------------------
(***************************************************************************)
(* The pure part of internal/pairflow: the "half" a nexus submits, the      *)
(* checks the relay makes on it, and the path id of a pair.                 *)
(*                                                                          *)
(* A public key has two forms in the code.  The WIRE form is the base64url  *)
(* string a client sent; it is what the tables store and what Go's == sees. *)
(* The RAW form is the 32 bytes decodeB64URL returns for it.  The decoder   *)
(* takes padded and unpadded strings, so two wire forms may be one key.     *)
(* A raw key is modelled as the number its bytes spell: all raw keys have   *)
(* the same length (parseHalf refuses any other), so bytesLess, which       *)
(* compares byte by byte, is < on those numbers.                            *)
(***************************************************************************)
EXTENDS Integers

CONSTANTS
    Pubkeys,        \* the wire forms of public keys in use
    Raw,            \* Raw[s]: the bytes decodeB64URL yields for the string s
    ReplayWindow    \* replayWindow, in clock ticks

ASSUME RawAssumption == Raw \in [Pubkeys -> Nat]
ASSUME WindowAssumption == ReplayWindow \in Nat

(***************************************************************************)
(* A submitted half.  wellFormed says that parseHalf accepts its fields     *)
(* (present, within their length caps, ed25519, 32 key bytes, dh_alg and    *)
(* dh_pubkey both or neither); dh that it carries ECDH material; sig which  *)
(* preimage its self_sig verifies against under its own key; ts the time    *)
(* it claims, an unreadable ts being one far outside every window.          *)
(***************************************************************************)
Half == [pubkey : Pubkeys, wellFormed : BOOLEAN, dh : BOOLEAN,
         sig : {"v1", "v2", "bad"}, ts : Int]

\* parseHalf: "" (accepted) or an error code.
parseHalf(h) == h.wellFormed

\* verifySelfSig: a half with ECDH material must be signed over the v2
\* preimage, the only one that covers it; a half without, over v1.
verifySelfSig(h) == h.sig = (IF h.dh THEN "v2" ELSE "v1")

\* tsInWindow: |now - ts| <= replayWindow.
tsInWindow(ts, now) ==
    LET d == now - ts IN (IF d < 0 THEN -d ELSE d) <= ReplayWindow

(***************************************************************************)
(* computePathID: the hash of the two raw keys, smaller one first.  SHA-256 *)
(* is modelled as injective, so the path id is the sorted pair itself.      *)
(***************************************************************************)

\* Mutant of computePathID: the keys are hashed in the order given.
computePathIDUnsorted(a, b) == <<a, b>>

computePathID(a, b) == IF b < a THEN <<b, a>> ELSE <<a, b>>

PathOf(s, t) == computePathID(Raw[s], Raw[t])

PathIds == {PathOf(s, t) : s, t \in Pubkeys}
=============================================================================
