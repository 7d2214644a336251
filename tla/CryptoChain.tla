----------------------------- MODULE CryptoChain -----------------------------
(***************************************************************************)
(* CryptoHelper and the list of ciphers serverInit gives it.  Xor, Rc4 and *)
(* Chacha20 each combine a text, byte by byte and with exclusive or, with  *)
(* a stream that starts anew for every message: applying one a second time *)
(* undoes it.  A text is therefore known by the set of streams it has been *)
(* combined with an odd number of times; the clear text by the empty set.  *)
(***************************************************************************)
EXTENDS Sequences, SequencesExt

KnownMethods == {"xor", "rc4", "chacha20"}

\* Xor inverts every bit and does not look at the key.
Stream(method, key) == IF method = "xor" THEN <<method>> ELSE <<method, key>>

\* A stream combined a second time is gone.
Combine(text, stream) == (text \ {stream}) \cup ({stream} \ text)

\* encrypt of one cipher, which is its decrypt as well.  serverInit reports a
\* method it does not know and goes on without it.
Crypt(text, method, key) ==
    IF method \in KnownMethods THEN Combine(text, Stream(method, key)) ELSE text

\* In the order of the list.
Encrypt(text, methods, key) ==
    LET after[n \in 0..Len(methods)] ==
          IF n = 0 THEN text ELSE Crypt(after[n - 1], methods[n], key)
    IN  after[Len(methods)]

\* Variant: the chain stops at the first cipher.
DecryptOnce(text, methods, key) ==
    IF methods = <<>> THEN text ELSE Crypt(text, Head(methods), key)

\* rbegin() to rend(): in the reverse order.
Decrypt(text, methods, key) == Encrypt(text, Reverse(methods), key)
=============================================================================
