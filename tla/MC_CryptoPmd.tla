----------------------------- MODULE MC_CryptoPmd -----------------------------
(* Two instance slots per type, dev ids below and above the int8_t range, *)
(* and SAs over known and unknown algorithms and key lengths (0, 128-bit, *)
(* a GCM key of 128 bits plus nonce, a 256-bit key plus nonce).          *)
EXTENDS CryptoPmd

MC_DevIds == {1, 2, 200, 255}

MC_SAs == [cipher : {"cbc(aes)", "cbc(des3_ede)", "eNULL",
                     "rfc4106(gcm(aes))", "cbc(blowfish)"},
           ckey : {0, 128, 160, 288},
           auth : {"hmac(sha1)", "aNULL", "xcbc(aes)"},
           akey : {0, 160}]
=============================================================================
