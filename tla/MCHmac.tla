------------------------------ MODULE MCHmac ------------------------------
(* A small instance of Hmac.  Bytes are terms: a symbol and the pads that   *)
(* have been added to it; two bytes are equal only if they are built alike. *)
EXTENDS Hmac, TLC

Byte(symbol) == [symbol |-> symbol, pads |-> {}]

MCXor(byte, pad) ==
    [byte EXCEPT !.pads = (@ \ {pad}) \cup ({pad} \ @)]

MCHash(alg, data, i) == Byte(<<"digest", alg, data, i>>)

\* SHA-256 has the shorter block; all lengths are scaled down.
MCBlockLen  == "SHA256" :> 4 @@ "SHA384" :> 6 @@ "SHA512" :> 6
MCDigestLen == "SHA256" :> 2 @@ "SHA384" :> 3 @@ "SHA512" :> 4

MCKey == [i \in 0..SizeMax |-> Byte(<<"key", i>>)]
MCMsg == [i \in 0..SizeMax |-> Byte(<<"msg", i>>)]
MCZero == Byte(<<"zero">>)
MCJunk == Byte(<<"junk">>)
============================================================================
