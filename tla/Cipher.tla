------------------------------- MODULE Cipher -------------------------------
(***************************************************************************)
(* The ciphers a client may be configured with (vnt/src/cipher), as terms: *)
(* which bodies a cipher opens, and how long a sealed body gets.  A sealed *)
(* body holds what it was sealed with and, where the cipher stores it, the *)
(* head; its finger names what it was computed over.                       *)
(***************************************************************************)
EXTENDS NetPacket

CONSTANT None  \* no finger

Models == {"aes_gcm", "chacha20_poly1305", "chacha20", "aes_cbc", "aes_ecb", "sm4_cbc",
           "xor", "none"}

(* What an IP packet is after it was opened with the wrong key: no reply,  *)
(* no request and for nobody.                                              *)
Garbage == [kind |-> "garbage", type |-> "noise", dst |-> None]

(* Cipher::new_password: a finger goes with every model but xor.  A build  *)
(* takes some models from a native library (ring, openssl) or all of them  *)
(* from Rust ones, and peers need not be built alike.                      *)
Ciphers(keys, tokens, builds) ==
    {c \in [model : Models, key : keys, finger : tokens \cup {None}, build : builds] :
        c.model \in {"xor", "none"} => c.finger = None}

(* Cipher::new_key: what the client and the server agree on.               *)
ServerCipher(key, token) ==
    [model |-> "aes_gcm", key |-> key, finger |-> token, build |-> "rust"]

-----------------------------------------------------------------------------
(* Lengths.  PKCS#7 pads to the next full block of 16.                     *)
Padded(n) == 16 * (n \div 16 + 1)
TagLen == 16
RandomLen == 4
FingerLen == 12
GcmReserved == TagLen + RandomLen + FingerLen

(* Mutant: only the tag is counted.                                        *)
EncryptionReserved_Tag == 16

(* What every sender leaves free behind a packet it is going to seal.      *)
EncryptionReserved == 60

(* A finger is appended by the ciphers that have one.                      *)
FingerRoom(c) == IF c.finger = None THEN 0 ELSE FingerLen

-----------------------------------------------------------------------------
(* Finger::calculate_finger, over what of the body the caller says: the    *)
(* finger that is appended, if any.                                        *)
CalculateFinger(c, p, over) ==
    {[token |-> t, tag |-> HeadTag(p), over |-> over] : t \in {c.finger} \ {None}}

(* A body sealed under the given tag: what the nonce or iv comes from, or  *)
(* the head stored inside.                                                 *)
Sealed(c, p, tag, over, len) ==
    [p EXCEPT !.encrypt = TRUE, !.len = len,
              !.body = [kind |-> "sealed", model |-> c.model, key |-> c.key, tag |-> tag,
                        finger |-> CalculateFinger(c, p, over), of |-> p.body,
                        plainLen |-> p.len]]

(* Nothing in the way of opening: the same model and key, under this head, *)
(* with a finger where one is expected, and there only.                    *)
Unlocks(c, p, tag, over) ==
    /\ p.body.kind = "sealed"
    /\ p.body.model = c.model /\ p.body.key = c.key /\ p.body.tag = tag
    /\ p.body.finger = CalculateFinger(c, p, over)

FingerFits(c, p, over) ==
    \/ c.finger = None
    \/ p.body.kind = "sealed" /\ p.body.finger = CalculateFinger(c, p, over)

Opened(p) == {[p EXCEPT !.encrypt = FALSE, !.len = p.body.plainLen, !.body = p.body.of]}

(* Mutant: opens what is not for it to something.                          *)
Strict_AnyHead(c, p, over) ==
    IF ~p.encrypt THEN {}
    ELSE IF Unlocks(c, p, HeadTag(p), over) THEN Opened(p)
    ELSE {[p EXCEPT !.encrypt = FALSE, !.body = Garbage]}

(* A cipher that authenticates, or compares the head, refuses what it does *)
(* not know, ...                                                           *)
Strict(c, p, over) == IF p.encrypt /\ Unlocks(c, p, HeadTag(p), over) THEN Opened(p) ELSE {}

(* ... and one that does not may open it to anything (where the padding    *)
(* comes out wrong the packet is dropped, as if it had been lost).         *)
Credulous(c) == c.model \in {"xor", "chacha20", "aes_cbc"}

Lenient(c, p, tag, over) ==
    CASE ~p.encrypt \/ ~FingerFits(c, p, over) -> {}
      [] p.encrypt /\ Unlocks(c, p, tag, over) -> Opened(p)
      [] OTHER -> {[p EXCEPT !.encrypt = FALSE, !.body = Garbage]}

-----------------------------------------------------------------------------
(* aes_gcm makes room for a finger even without one.                       *)
AesGcmEncrypt(c, p) == Sealed(c, p, HeadTag(p), "body and tag", p.len + GcmReserved)
AesGcmDecrypt(c, p) == Strict(c, p, "body and tag")

(* The same with ring.                                                     *)
RingAesGcmEncrypt(c, p) == Sealed(c, p, HeadTag(p), "body and tag", p.len + GcmReserved)
RingAesGcmDecrypt(c, p) == Strict(c, p, "body and tag")

(* The random that makes the nonce unique is outside of the finger.        *)
ChaChaPolyEncrypt(c, p) ==
    Sealed(c, p, HeadTag(p), "data and tag", p.len + TagLen + RandomLen + FingerRoom(c))
ChaChaPolyDecrypt(c, p) == Strict(c, p, "data and tag")

RingChaChaPolyEncrypt(c, p) ==
    Sealed(c, p, HeadTag(p), "data and tag", p.len + TagLen + RandomLen + FingerRoom(c))
RingChaChaPolyDecrypt(c, p) == Strict(c, p, "data and tag")

ChaCha20Encrypt(c, p) == Sealed(c, p, HeadTag(p), "data", p.len + RandomLen + FingerRoom(c))
ChaCha20Decrypt(c, p) == Lenient(c, p, HeadTag(p), "data")

AesCbcEncrypt(c, p) ==
    Sealed(c, p, HeadTag(p), "body", Padded(p.len + RandomLen) + FingerRoom(c))
AesCbcDecrypt(c, p) == Lenient(c, p, HeadTag(p), "body")

(* aes_ecb and sm4_cbc seal the head together with the body, and sm4_cbc   *)
(* appends its iv.                                                         *)
AesEcbEncrypt(c, p) ==
    Sealed(c, p, HeadTag(p), "body", Padded(HeadLen + p.len) + FingerRoom(c))
AesEcbDecrypt(c, p) == Strict(c, p, "body")

OpensslAesEcbEncrypt(c, p) ==
    Sealed(c, p, HeadTag(p), "body", Padded(HeadLen + p.len) + FingerRoom(c))
OpensslAesEcbDecrypt(c, p) == Strict(c, p, "body")

Sm4CbcEncrypt(c, p) ==
    Sealed(c, p, HeadTag(p), "body and iv", Padded(HeadLen + p.len) + 16 + FingerRoom(c))
Sm4CbcDecrypt(c, p) == Strict(c, p, "body and iv")

XorEncrypt(c, p) == Sealed(c, p, None, "nothing", p.len)
XorDecrypt(c, p) == Lenient(c, p, None, "nothing")

-----------------------------------------------------------------------------
(* Cipher::encrypt_ipv4.                                                   *)
Seal(c, p) ==
    LET native == c.build = "native"
    IN  CASE c.model = "none" -> p
          [] c.model = "xor" -> XorEncrypt(c, p)
          [] c.model = "aes_gcm" /\ ~native -> AesGcmEncrypt(c, p)
          [] c.model = "aes_gcm" /\ native -> RingAesGcmEncrypt(c, p)
          [] c.model = "chacha20_poly1305" /\ ~native -> ChaChaPolyEncrypt(c, p)
          [] c.model = "chacha20_poly1305" /\ native -> RingChaChaPolyEncrypt(c, p)
          [] c.model = "chacha20" -> ChaCha20Encrypt(c, p)
          [] c.model = "aes_cbc" -> AesCbcEncrypt(c, p)
          [] c.model = "aes_ecb" /\ ~native -> AesEcbEncrypt(c, p)
          [] c.model = "aes_ecb" /\ native -> OpensslAesEcbEncrypt(c, p)
          [] c.model = "sm4_cbc" -> Sm4CbcEncrypt(c, p)

(* Cipher::decrypt_ipv4: the packets it may leave, none when it refuses.   *)
Open(c, p) ==
    LET native == c.build = "native"
    IN  CASE c.model = "none" -> IF p.encrypt THEN {} ELSE {p}
          [] c.model = "xor" -> XorDecrypt(c, p)
          [] c.model = "aes_gcm" /\ ~native -> AesGcmDecrypt(c, p)
          [] c.model = "aes_gcm" /\ native -> RingAesGcmDecrypt(c, p)
          [] c.model = "chacha20_poly1305" /\ ~native -> ChaChaPolyDecrypt(c, p)
          [] c.model = "chacha20_poly1305" /\ native -> RingChaChaPolyDecrypt(c, p)
          [] c.model = "chacha20" -> ChaCha20Decrypt(c, p)
          [] c.model = "aes_cbc" -> AesCbcDecrypt(c, p)
          [] c.model = "aes_ecb" /\ ~native -> AesEcbDecrypt(c, p)
          [] c.model = "aes_ecb" /\ native -> OpensslAesEcbDecrypt(c, p)
          [] c.model = "sm4_cbc" -> Sm4CbcDecrypt(c, p)

-----------------------------------------------------------------------------
(* The buffers aes_ecb and sm4_cbc work in.                                *)
TooLong(c, p) ==
    \/ c.model = "aes_ecb" /\ Padded(HeadLen + p.len) > 5 * 1024
    \/ c.model = "sm4_cbc" /\ HeadLen + p.len > 4 * 1024 - 32

(* The buffer of size cap can take the sealed packet.                      *)
HasRoom(c, p, cap) == ~TooLong(c, p) /\ HeadLen + Seal(c, p).len <= cap
=============================================================================
